--------------------------- MODULE InvoicesProofs ---------------------------
(***************************************************************************)
(* Theorems about Invoices, for any charges, customers, goroutines, faults *)
(* and bounds.                                                             *)
(***************************************************************************)
EXTENDS InvoicesInv, SumLemmas, SequenceTheorems

-----------------------------------------------------------------------------
(* Type correctness *)

LEMMA IdleType == Idle \in Run /\ Idle.pc \notin Working
  BY DEF Idle, Run, PCs, Lists, Null, Working

LEMMA RunType ==
    ASSUME TypeInv, NEW w \in Workers
    PROVE  /\ run[w] \in Run
           /\ run[w].pc \in Working => run[w].cur \in Charges
  BY DEF TypeInv, TypeOK, Busy

\* One goroutine changes: the others stay, and types are kept if its new
\* state is well-typed.
LEMMA BecomesType ==
    ASSUME TypeInv, NEW w \in Workers, NEW r \in Run,
           r.pc \in Working => r.cur \in Charges,
           Becomes(w, r)
    PROVE  /\ run' \in [Workers -> Run]
           /\ Busy'
           /\ run'[w] = r
           /\ \A v \in Workers : v # w => run'[v] = run[v]
  <1>1. run \in [Workers -> Run] /\ Busy
    BY DEF TypeInv, TypeOK
  <1>2. run' = [run EXCEPT ![w] = r]
    BY DEF Becomes
  <1> QED BY <1>1, <1>2 DEF Busy

\* What Goto, Leave and InvoiceFails make of a goroutine in the middle of a
\* charge.
LEMMA GotoType ==
    ASSUME TypeInv, NEW w \in Workers, NEW pc \in PCs,
           run[w].pc \in Working, Goto(w, pc)
    PROVE  run' \in [Workers -> Run] /\ Busy'
  <1> DEFINE r == [run[w] EXCEPT !.pc = pc]
  <1>1. r \in Run /\ r.cur \in Charges
    BY RunType DEF Run
  <1> QED BY <1>1, BecomesType DEF Goto

LEMMA LeaveType ==
    ASSUME TypeInv, NEW w \in Workers, Leave(w)
    PROVE  run' \in [Workers -> Run] /\ Busy'
  <1> DEFINE r == [run[w] EXCEPT !.pc = "next", !.cur = NoCharge,
                                 !.inv = Null, !.pay = 0]
  <1>1. r \in Run /\ r.pc \notin Working
    BY RunType DEF Run, PCs, Null, Working
  <1> QED BY <1>1, BecomesType DEF Leave

LEMMA LogType ==
    ASSUME TypeInv, NEW c \in Charges, NEW entry \in LogEntries, Log(c, entry)
    PROVE  log' \in [Charges -> SUBSET LogEntries]
  BY DEF TypeInv, TypeOK, Log

LEMMA InvoiceFailsType ==
    ASSUME TypeInv, NEW w \in Workers, run[w].pc \in Working, InvoiceFails(w)
    PROVE  /\ run' \in [Workers -> Run] /\ Busy'
           /\ log' \in [Charges -> SUBSET LogEntries]
  BY LeaveType, LogType, RunType DEF InvoiceFails, LogEntries

LEMMA GoesOnType ==
    ASSUME TypeInv, NEW w \in Workers, NEW pc \in PCs,
           run[w].pc \in Working, GoesOn(w, pc)
    PROVE  /\ run' \in [Workers -> Run] /\ Busy'
           /\ log' \in [Charges -> SUBSET LogEntries]
  BY GotoType DEF GoesOn, TypeInv, TypeOK

\* What Fortnox holds of a charge.
LEMMA FortnoxFacts ==
    ASSUME TypeInv, NEW c \in Charges
    PROVE  /\ invoices[c] \in Seq(Invoice)
           /\ Len(invoices[c]) \in Nat
           /\ DOMAIN invoices[c] = 1 .. Len(invoices[c])
           /\ payments[c] \in Seq(Payment)
           /\ Len(payments[c]) \in Nat
           /\ DOMAIN payments[c] = 1 .. Len(payments[c])
  <1>1. invoices[c] \in Seq(Invoice) /\ payments[c] \in Seq(Payment)
    BY DEF TypeInv, TypeOK
  <1> QED BY <1>1, LenProperties

\* The POSTs append, the PUTs set a flag.
LEMMA AppendFacts ==
    ASSUME NEW T, NEW s \in Seq(T), NEW x \in T
    PROVE  /\ Append(s, x) \in Seq(T)
           /\ Len(Append(s, x)) = Len(s) + 1
           /\ DOMAIN Append(s, x) = 1 .. Len(s) + 1
           /\ \A i \in DOMAIN s : Append(s, x)[i] = s[i]
           /\ Append(s, x)[Len(s) + 1] = x
  BY AppendProperties, LenProperties

LEMMA UpdateFacts ==
    ASSUME NEW T, NEW s \in Seq(T), NEW n \in DOMAIN s, NEW x \in T
    PROVE  /\ [s EXCEPT ![n] = x] \in Seq(T)
           /\ Len([s EXCEPT ![n] = x]) = Len(s)
           /\ DOMAIN [s EXCEPT ![n] = x] = DOMAIN s
           /\ [s EXCEPT ![n] = x][n] = x
           /\ \A i \in DOMAIN s : i # n => [s EXCEPT ![n] = x][i] = s[i]
  BY ExceptSeq, LenProperties

LEMMA FaultType ==
    ASSUME TypeInv, NoFault \/ \E kind \in FaultKinds : Fault(kind)
    PROVE  faults' \in Nat
  BY DEF TypeInv, TypeOK, NoFault, Fault

-----------------------------------------------------------------------------
LEMMA TypeInvInit == Init => TypeInv
  BY IdleType, CustomersAssumption
     DEF Init, TypeInv, TypeOK, Busy, Idle, Null

\* The lists hold charges with the number they have.
LEMMA ListTypes ==
    ASSUME TypeInv
    PROVE  /\ UnsyncedCharges \in SUBSET (Charges \X Nat)
           /\ UnpaidCharges \in SUBSET (Charges \X Nat)
  BY DEF TypeInv, TypeOK, UnsyncedCharges, UnpaidCharges, Joined, Null

LEMMA TypeInvNext == TypeInv /\ [Next]_vars => TypeInv'
  <1> SUFFICES ASSUME TypeInv, [Next]_vars PROVE TypeInv'
    OBVIOUS
  <1> USE DEF FaultKinds, stripe, columns, fortnox
  <1>0. TypeOK /\ Busy
    BY DEF TypeInv
  <1>1. ASSUME NEW w \in Workers, StartRun(w) PROVE TypeInv'
    <2> DEFINE r1 == [Idle EXCEPT !.pc = "next", !.todo = UnsyncedCharges]
               r2 == [Idle EXCEPT !.pc = "next"]
    <2>1. r1 \in Run /\ r1.pc \notin Working
      BY IdleType, ListTypes DEF Run, PCs, Working, Idle
    <2>2. r2 \in Run /\ r2.pc \notin Working
      BY IdleType DEF Run, PCs, Working, Idle
    <2>3. run' \in [Workers -> Run] /\ Busy'
      BY <1>1, <2>1, <2>2, BecomesType DEF StartRun
    <2> QED BY <1>0, <1>1, <2>3, FaultType DEF StartRun, TypeInv, TypeOK
  <1>2. ASSUME NEW w \in Workers, GetCustomer(w) PROVE TypeInv'
    <2>1. PICK e \in run[w].todo :
            LET at(pc) == [run[w] EXCEPT !.pc = pc, !.cur = e[1], !.todo = @ \ {e}]
            IN  \/ Becomes(w, at("invoice")) /\ NoFault
                \/ Becomes(w, at("customer")) /\ NoFault
                \/ Becomes(w, at("customer")) /\ Fault("db")
      BY <1>2 DEF GetCustomer, Earliest
    <2> DEFINE r(pc) == [run[w] EXCEPT !.pc = pc, !.cur = e[1], !.todo = @ \ {e}]
    <2>2. ASSUME NEW pc \in {"invoice", "customer"} PROVE r(pc) \in Run /\ r(pc).cur \in Charges
      BY RunType DEF Run, PCs
    <2>3. run' \in [Workers -> Run] /\ Busy'
      BY <2>1, <2>2, BecomesType
    <2>4. faults' \in Nat
      BY <2>1, FaultType
    <2> QED BY <1>0, <1>2, <2>3, <2>4 DEF GetCustomer, TypeInv, TypeOK
  <1>3. ASSUME NEW w \in Workers, ListUnpaid(w) PROVE TypeInv'
    <2> DEFINE r1 == [run[w] EXCEPT !.list = "unpaid", !.todo = UnpaidCharges]
               r2 == [run[w] EXCEPT !.list = "unpaid"]
    <2>1. /\ r1 \in Run /\ r1.pc \notin Working
          /\ r2 \in Run /\ r2.pc \notin Working
      BY <1>3, RunType, ListTypes DEF ListUnpaid, Run, Lists, Working
    <2>2. run' \in [Workers -> Run] /\ Busy'
      BY <1>3, <2>1, BecomesType DEF ListUnpaid
    <2> QED BY <1>0, <1>3, <2>2, FaultType DEF ListUnpaid, TypeInv, TypeOK
  <1>4. ASSUME NEW w \in Workers, NextUnpaid(w) PROVE TypeInv'
    <2>1. PICK e \in run[w].todo :
            Becomes(w, [run[w] EXCEPT !.pc = "payment", !.cur = e[1],
                                      !.inv = e[2], !.todo = @ \ {e}])
      BY <1>4 DEF NextUnpaid
    <2> DEFINE r == [run[w] EXCEPT !.pc = "payment", !.cur = e[1],
                                   !.inv = e[2], !.todo = @ \ {e}]
    <2>2. r \in Run /\ r.cur \in Charges
      BY RunType DEF Run, PCs
    <2>3. run' \in [Workers -> Run] /\ Busy'
      BY <2>1, <2>2, BecomesType
    <2> QED BY <1>0, <1>4, <2>3, FaultType DEF NextUnpaid, TypeInv, TypeOK
  <1>5. ASSUME NEW w \in Workers, EndRun(w) PROVE TypeInv'
    BY <1>0, <1>5, IdleType, BecomesType, FaultType DEF EndRun, TypeInv, TypeOK
  <1>6. ASSUME NEW w \in Workers, PostCustomer(w) PROVE TypeInv'
    <2>1. run[w].pc \in Working
      BY <1>6 DEF PostCustomer, Working, PCs
    <2>2. /\ run' \in [Workers -> Run] /\ Busy'
          /\ log' \in [Charges -> SUBSET LogEntries]
      BY <1>6, <2>1, GoesOnType, InvoiceFailsType DEF PostCustomer, PCs
    <2>3. customers' \in [Customers \cup {NoCustomer} -> Nat]
      BY <1>0, <1>6, <2>1, RunType, CustomersAssumption DEF PostCustomer, TypeOK
    <2> QED BY <1>0, <1>6, <2>2, <2>3, FaultType DEF PostCustomer, TypeInv, TypeOK
  <1>7. ASSUME NEW w \in Workers, SaveCustomer(w) PROVE TypeInv'
    <2>1. run[w].pc \in Working
      BY <1>7 DEF SaveCustomer, Working, PCs
    <2>2. /\ run' \in [Workers -> Run] /\ Busy'
          /\ log' \in [Charges -> SUBSET LogEntries]
      BY <1>7, <2>1, GoesOnType, InvoiceFailsType DEF SaveCustomer, PCs
    <2>3. custNo' \subseteq Customers
      BY <1>0, <1>7, <2>1, RunType, CustomersAssumption
         DEF SaveCustomer, SetCustomer, TypeOK
    <2> QED BY <1>0, <1>7, <2>2, <2>3, FaultType DEF SaveCustomer, TypeInv, TypeOK
  <1>8. ASSUME NEW w \in Workers, PostInvoice(w) PROVE TypeInv'
    <2> DEFINE c == run[w].cur
               n == Len(invoices[c]) + 1
               r == [run[w] EXCEPT !.pc = "bookInvoice", !.inv = n]
    <2>1. run[w].pc \in Working /\ c \in Charges
      BY <1>8, RunType DEF PostInvoice, Working, PCs
    <2>5. n \in Nat
      BY <2>1, FortnoxFacts
    <2> HIDE DEF n
    <2>2. r \in Run /\ r.cur \in Charges
      BY <2>1, <2>5, RunType DEF Run, PCs
    <2> USE DEF n
    <2>3. /\ run' \in [Workers -> Run] /\ Busy'
          /\ log' \in [Charges -> SUBSET LogEntries]
      BY <1>0, <1>8, <2>1, <2>2, BecomesType, InvoiceFailsType DEF PostInvoice, TypeOK
    <2>4. invoices' \in [Charges -> Seq(Invoice)]
      <3>1. [booked |-> FALSE] \in Invoice
        BY DEF Invoice
      <3>2. Append(invoices[c], [booked |-> FALSE]) \in Seq(Invoice)
        BY <2>1, <3>1, FortnoxFacts, AppendFacts
      <3> QED BY <1>0, <1>8, <2>1, <3>2 DEF PostInvoice, TypeOK
    <2> QED BY <1>0, <1>8, <2>3, <2>4, FaultType DEF PostInvoice, TypeInv, TypeOK
  <1>9. ASSUME NEW w \in Workers, BookInvoice(w) PROVE TypeInv'
    <2> DEFINE c == run[w].cur
               n == run[w].inv
    <2>1. run[w].pc \in Working /\ c \in Charges
      BY <1>9, RunType DEF BookInvoice, Working, PCs
    <2>2. /\ run' \in [Workers -> Run] /\ Busy'
          /\ log' \in [Charges -> SUBSET LogEntries]
      BY <1>9, <2>1, GoesOnType, InvoiceFailsType
         DEF BookInvoice, BookInvoiceRejected, PCs
    <2>3. [invoices[c] EXCEPT ![n].booked = TRUE] \in Seq(Invoice)
      <3>1. CASE n \in DOMAIN invoices[c]
        <4>1. invoices[c][n] \in Invoice
          BY <2>1, <3>1, FortnoxFacts, ElementOfSeq
        <4>2. [invoices[c][n] EXCEPT !.booked = TRUE] \in Invoice
          BY <4>1 DEF Invoice
        <4> QED BY <2>1, <3>1, <4>2, FortnoxFacts, UpdateFacts
      <3>2. CASE n \notin DOMAIN invoices[c]
        <4>1. [invoices[c] EXCEPT ![n].booked = TRUE] = invoices[c]
          BY <2>1, <3>2, FortnoxFacts
        <4> QED BY <2>1, <4>1, FortnoxFacts
      <3> QED BY <3>1, <3>2
    <2>4. invoices' \in [Charges -> Seq(Invoice)]
      BY <1>0, <1>9, <2>1, <2>3 DEF BookInvoice, TypeOK
    <2> QED BY <1>0, <1>9, <2>2, <2>4, FaultType
            DEF BookInvoice, BookInvoiceRejected, TypeInv, TypeOK
  <1>10. ASSUME NEW w \in Workers, SaveNumber(w) PROVE TypeInv'
    <2>1. run[w].pc \in Working /\ run[w].inv \in Nat
      BY <1>10, RunType DEF SaveNumber, Working, PCs, Run
    <2>2. /\ run' \in [Workers -> Run] /\ Busy'
          /\ log' \in [Charges -> SUBSET LogEntries]
      BY <1>10, <2>1, GoesOnType, InvoiceFailsType DEF SaveNumber, PCs
    <2>3. number' \in [Charges -> Nat]
      BY <1>0, <1>10, <2>1 DEF SaveNumber, SetNumber, TypeOK
    <2> QED BY <1>0, <1>10, <2>2, <2>3, FaultType DEF SaveNumber, TypeInv, TypeOK
  <1>11. ASSUME NEW w \in Workers, Created(w) PROVE TypeInv'
    <2>1. run[w].pc \in Working /\ run[w].cur \in Charges
      BY <1>11, RunType DEF Created, Working, PCs
    <2>2. run' \in [Workers -> Run] /\ Busy'
      BY <1>11, <2>1, GotoType, LeaveType DEF Created, PCs
    <2>3. log' \in [Charges -> SUBSET LogEntries]
      BY <1>11, <2>1, LogType DEF Created, LogEntries
    <2> QED BY <1>0, <1>11, <2>2, <2>3, FaultType DEF Created, TypeInv, TypeOK
  <1>12. ASSUME NEW w \in Workers, PostPayment(w) PROVE TypeInv'
    <2> DEFINE c == run[w].cur
               p == [invoice |-> run[w].inv, booked |-> FALSE]
               n == Len(payments[c]) + 1
               r == [run[w] EXCEPT !.pc = "bookPayment", !.pay = n]
    <2>1. run[w].pc \in Working /\ c \in Charges
      BY <1>12, RunType DEF PostPayment, Working, PCs
    <2>5. n \in Nat
      BY <2>1, FortnoxFacts
    <2> HIDE DEF n
    <2>2. r \in Run /\ r.cur \in Charges
      BY <2>1, <2>5, RunType DEF Run, PCs
    <2> USE DEF n
    <2>3. run' \in [Workers -> Run] /\ Busy'
      BY <1>0, <1>12, <2>1, <2>2, BecomesType, LeaveType DEF PostPayment
    <2>4. payments' \in [Charges -> Seq(Payment)]
      <3>1. p \in Payment
        BY RunType DEF Payment, Run
      <3>2. Append(payments[c], p) \in Seq(Payment)
        BY <2>1, <3>1, FortnoxFacts, AppendFacts
      <3> QED BY <1>0, <1>12, <2>1, <3>2 DEF PostPayment, TypeOK
    <2> QED BY <1>0, <1>12, <2>3, <2>4, FaultType DEF PostPayment, TypeInv, TypeOK
  <1>13. ASSUME NEW w \in Workers, BookPayment(w) PROVE TypeInv'
    <2> DEFINE c == run[w].cur
               n == run[w].pay
    <2>1. run[w].pc \in Working /\ c \in Charges
      BY <1>13, RunType DEF BookPayment, Working, PCs
    <2>2. run' \in [Workers -> Run] /\ Busy'
      BY <1>13, <2>1, GotoType, LeaveType
         DEF BookPayment, BookPaymentRejected, PCs
    <2>3. [payments[c] EXCEPT ![n].booked = TRUE] \in Seq(Payment)
      <3>1. CASE n \in DOMAIN payments[c]
        <4>1. payments[c][n] \in Payment
          BY <2>1, <3>1, FortnoxFacts, ElementOfSeq
        <4>2. [payments[c][n] EXCEPT !.booked = TRUE] \in Payment
          BY <4>1 DEF Payment
        <4> QED BY <2>1, <3>1, <4>2, FortnoxFacts, UpdateFacts
      <3>2. CASE n \notin DOMAIN payments[c]
        <4>1. [payments[c] EXCEPT ![n].booked = TRUE] = payments[c]
          BY <2>1, <3>2, FortnoxFacts
        <4> QED BY <2>1, <4>1, FortnoxFacts
      <3> QED BY <3>1, <3>2
    <2>4. payments' \in [Charges -> Seq(Payment)]
      BY <1>0, <1>13, <2>1, <2>3 DEF BookPayment, TypeOK
    <2> QED BY <1>0, <1>13, <2>2, <2>4, FaultType
            DEF BookPayment, BookPaymentRejected, TypeInv, TypeOK
  <1>14. ASSUME NEW w \in Workers, SetPaid(w) PROVE TypeInv'
    <2>1. run[w].cur \in Charges
      BY <1>14, RunType DEF SetPaid, Working, PCs
    <2>2. run' \in [Workers -> Run] /\ Busy'
      BY <1>14, LeaveType DEF SetPaid
    <2> QED BY <1>0, <1>14, <2>1, <2>2, FaultType DEF SetPaid, Pay, TypeInv, TypeOK
  <1>15. CASE Crash
    BY <1>0, <1>15, IdleType, FaultType DEF Crash, TypeInv, TypeOK, Busy
  <1>16. ASSUME NEW c \in Charges, StoreCharge(c) \/ StoreTxn(c) PROVE TypeInv'
    BY <1>0, <1>16, FaultType DEF StoreCharge, StoreTxn, TypeInv, TypeOK, Busy
  <1>17. CASE UNCHANGED vars
    BY <1>0, <1>17 DEF vars, TypeInv, TypeOK, Busy
  <1> QED
    BY <1>1, <1>2, <1>3, <1>4, <1>5, <1>6, <1>7, <1>8, <1>9, <1>10, <1>11,
       <1>12, <1>13, <1>14, <1>15, <1>16, <1>17 DEF Next, Continue

LEMMA TypeInvariant == Spec => []TypeInv
  BY TypeInvInit, TypeInvNext, PTL DEF Spec

\* Every behaviour is type-correct; in particular the record that is created
\* for a charge without a customer leaves no number behind
\* (handler/sync.go:215, queries.sql.go:43).
THEOREM TypeCorrect == Spec => []TypeOK
  BY TypeInvariant, PTL DEF TypeInv

-----------------------------------------------------------------------------
(* How the record of a goroutine changes: the fields that do not change in *)
(* a step, and those of the other goroutines                               *)

Others(w) == \A v \in Workers : v # w => run'[v] = run[v]

SameList(w) == run'[w].list = run[w].list /\ run'[w].todo = run[w].todo

LEMMA BecomesMoves ==
    ASSUME TypeInv, NEW w \in Workers, NEW r, Becomes(w, r)
    PROVE  run'[w] = r /\ Others(w)
  BY DEF Becomes, Others, TypeInv, TypeOK

LEMMA GotoMoves ==
    ASSUME TypeInv, NEW w \in Workers, NEW pc, Goto(w, pc)
    PROVE  /\ run'[w].pc = pc /\ SameList(w) /\ Others(w)
           /\ run'[w].cur = run[w].cur
           /\ run'[w].inv = run[w].inv /\ run'[w].pay = run[w].pay
  BY RunType, BecomesMoves DEF Goto, Run, SameList

LEMMA LeaveMoves ==
    ASSUME TypeInv, NEW w \in Workers, Leave(w)
    PROVE  /\ run'[w].pc = "next" /\ run'[w].cur = NoCharge
           /\ SameList(w) /\ Others(w)
  <1>1. /\ run'[w] = [run[w] EXCEPT !.pc = "next", !.cur = NoCharge,
                                    !.inv = Null, !.pay = 0]
        /\ Others(w)
    BY BecomesMoves DEF Leave
  <1> QED BY <1>1, RunType DEF Run, SameList

\* StartRun lists charges that have no number.
LEMMA StartMoves ==
    ASSUME TypeInv, NEW w \in Workers, StartRun(w)
    PROVE  /\ run'[w].pc = "next" /\ run'[w].list = "charges"
           /\ run'[w].cur = NoCharge /\ Others(w)
           /\ \A e \in run'[w].todo :
                  e[1] \in Charges /\ e[2] = Null /\ number[e[1]] = Null
  <1> DEFINE r(S) == [Idle EXCEPT !.pc = "next", !.todo = S]
  <1>1. \A e \in UnsyncedCharges :
            e[1] \in Charges /\ e[2] = Null /\ number[e[1]] = Null
    BY DEF UnsyncedCharges, TypeInv, TypeOK
  <1>2. CASE Becomes(w, r(UnsyncedCharges))
    <2>1. run'[w] = r(UnsyncedCharges) /\ Others(w)
      BY <1>2, BecomesMoves
    <2> HIDE DEF r
    <2>2. /\ run'[w].pc = "next" /\ run'[w].list = "charges"
          /\ run'[w].cur = NoCharge /\ run'[w].todo = UnsyncedCharges
      BY <2>1 DEF Idle, r
    <2> QED BY <1>1, <2>1, <2>2
  <1>3. CASE Becomes(w, [Idle EXCEPT !.pc = "next"])
    <2>1. run'[w] = [Idle EXCEPT !.pc = "next"] /\ Others(w)
      BY <1>3, BecomesMoves
    <2> QED BY <2>1 DEF Idle
  <1> QED BY <1>2, <1>3 DEF StartRun

LEMMA GetMoves ==
    ASSUME TypeInv, NEW w \in Workers, GetCustomer(w)
    PROVE  /\ Others(w)
           /\ \E e \in run[w].todo :
                /\ run'[w].cur = e[1] /\ e[1] \in Charges
                /\ run'[w].todo = run[w].todo \ {e}
                /\ run[w].list = "charges" /\ run'[w].list = "charges"
                /\ \/ run'[w].pc = "invoice"
                   \/ /\ run'[w].pc = "customer"
                      /\ CustomerOf[e[1]] \in custNo => faults' = faults + 1
  <1>1. PICK e \in run[w].todo :
            LET at(pc) == [run[w] EXCEPT !.pc = pc, !.cur = e[1], !.todo = @ \ {e}]
            IN  \/ Becomes(w, at("invoice"))
                \/ ~CustomerKnown(e[1]) /\ Becomes(w, at("customer"))
                \/ Becomes(w, at("customer")) /\ Fault("db")
    BY DEF GetCustomer, Earliest
  <1> DEFINE r(pc) == [run[w] EXCEPT !.pc = pc, !.cur = e[1], !.todo = @ \ {e}]
  <1>2. /\ run[w] \in Run /\ run[w].list = "charges" /\ e[1] \in Charges
    BY RunType DEF GetCustomer, Run
  <1>3. ASSUME NEW pc, run'[w] = r(pc)
        PROVE  /\ run'[w].pc = pc /\ run'[w].cur = e[1]
               /\ run'[w].todo = run[w].todo \ {e}
               /\ run'[w].list = "charges"
    BY <1>2, <1>3 DEF Run
  <1>4. PICK pc \in {"invoice", "customer"} :
            /\ Becomes(w, r(pc))
            /\ pc = "customer" /\ CustomerOf[e[1]] \in custNo => faults' = faults + 1
    BY <1>1 DEF CustomerKnown, Fault
  <1> HIDE DEF r
  <1>5. run'[w] = r(pc) /\ Others(w)
    BY <1>4, BecomesMoves
  <1>6. /\ run'[w].pc = pc /\ run'[w].cur = e[1]
        /\ run'[w].todo = run[w].todo \ {e}
        /\ run'[w].list = "charges"
    BY <1>3, <1>5
  <1> QED BY <1>2, <1>4, <1>5, <1>6

LEMMA ListMoves ==
    ASSUME TypeInv, NEW w \in Workers, ListUnpaid(w)
    PROVE  /\ run'[w].pc = "next" /\ run'[w].list = "unpaid" /\ Others(w)
           /\ run'[w].cur = run[w].cur
           /\ \A e \in run'[w].todo : /\ e[1] \in Charges
                                      /\ e[2] = number[e[1]] /\ e[2] # Null
  <1>1. run[w] \in Run /\ run[w].pc = "next" /\ run[w].todo = {}
    BY RunType DEF ListUnpaid
  <1>2. \A e \in UnpaidCharges :
            e[1] \in Charges /\ e[2] = number[e[1]] /\ e[2] # Null
    BY DEF UnpaidCharges, Joined, TypeInv, TypeOK
  <1> DEFINE r(S) == [run[w] EXCEPT !.list = "unpaid", !.todo = S]
  <1>3. ASSUME NEW S, run'[w] = r(S)
        PROVE  /\ run'[w].pc = "next" /\ run'[w].list = "unpaid" /\ run'[w].todo = S
               /\ run'[w].cur = run[w].cur
    BY <1>1, <1>3 DEF Run
  <1>4. CASE Becomes(w, r(UnpaidCharges))
    <2> HIDE DEF r
    <2>1. run'[w] = r(UnpaidCharges) /\ Others(w)
      BY <1>4, BecomesMoves
    <2> QED BY <1>2, <1>3, <2>1
  <1>5. CASE Becomes(w, [run[w] EXCEPT !.list = "unpaid"])
    <2>1. run'[w] = [run[w] EXCEPT !.list = "unpaid"] /\ Others(w)
      BY <1>5, BecomesMoves
    <2>2. /\ run'[w].pc = "next" /\ run'[w].list = "unpaid" /\ run'[w].todo = {}
          /\ run'[w].cur = run[w].cur
      BY <1>1, <2>1 DEF Run
    <2> QED BY <2>1, <2>2
  <1> QED BY <1>4, <1>5 DEF ListUnpaid

LEMMA NextMoves ==
    ASSUME TypeInv, NEW w \in Workers, NextUnpaid(w)
    PROVE  /\ Others(w)
           /\ run[w].list = "unpaid" /\ run'[w].list = "unpaid"
           /\ run'[w].pc = "payment"
           /\ \E e \in run[w].todo :
                /\ run'[w].cur = e[1] /\ run'[w].inv = e[2] /\ e[1] \in Charges
                /\ run'[w].todo = run[w].todo \ {e}
  <1>1. PICK e \in run[w].todo :
            Becomes(w, [run[w] EXCEPT !.pc = "payment", !.cur = e[1],
                                      !.inv = e[2], !.todo = @ \ {e}])
    BY DEF NextUnpaid
  <1>2. run[w] \in Run /\ run[w].list = "unpaid" /\ e[1] \in Charges
    BY RunType DEF NextUnpaid, Run
  <1>3. /\ Others(w)
        /\ run'[w] = [run[w] EXCEPT !.pc = "payment", !.cur = e[1],
                                    !.inv = e[2], !.todo = @ \ {e}]
    BY <1>1, BecomesMoves
  <1>4. /\ run'[w].list = "unpaid" /\ run'[w].pc = "payment"
        /\ run'[w].cur = e[1] /\ run'[w].inv = e[2]
        /\ run'[w].todo = run[w].todo \ {e}
    BY <1>2, <1>3 DEF Run
  <1> QED BY <1>2, <1>3, <1>4

LEMMA EndMoves ==
    ASSUME TypeInv, NEW w \in Workers, EndRun(w)
    PROVE  run'[w] = Idle /\ Others(w)
  BY BecomesMoves DEF EndRun

\* The two POSTs that go on take the new number along.
LEMMA PostInvoiceMoves ==
    ASSUME TypeInv, NEW w \in Workers, NEW n,
           Becomes(w, [run[w] EXCEPT !.pc = "bookInvoice", !.inv = n])
    PROVE  /\ run'[w].pc = "bookInvoice" /\ SameList(w) /\ Others(w)
           /\ run'[w].cur = run[w].cur /\ run'[w].inv = n
  <1>1. run'[w] = [run[w] EXCEPT !.pc = "bookInvoice", !.inv = n] /\ Others(w)
    BY BecomesMoves
  <1> QED BY <1>1, RunType DEF Run, SameList

LEMMA PostPaymentMoves ==
    ASSUME TypeInv, NEW w \in Workers, NEW n,
           Becomes(w, [run[w] EXCEPT !.pc = "bookPayment", !.pay = n])
    PROVE  /\ run'[w].pc = "bookPayment" /\ SameList(w) /\ Others(w)
           /\ run'[w].cur = run[w].cur /\ run'[w].pay = n
  <1>1. run'[w] = [run[w] EXCEPT !.pc = "bookPayment", !.pay = n] /\ Others(w)
    BY BecomesMoves
  <1> QED BY <1>1, RunType DEF Run, SameList

\* A step of a goroutine changes no other.
LEMMA OneStep ==
    ASSUME TypeInv, NEW w \in Workers, StartRun(w) \/ Continue(w)
    PROVE  Others(w)
  <1>1. CASE StartRun(w) \/ GetCustomer(w) \/ ListUnpaid(w) \/ NextUnpaid(w) \/ EndRun(w)
    BY <1>1, StartMoves, GetMoves, ListMoves, NextMoves, EndMoves
  <1>2. CASE PostCustomer(w) \/ SaveCustomer(w) \/ BookInvoice(w) \/ SaveNumber(w)
             \/ Created(w) \/ BookPayment(w) \/ SetPaid(w)
    BY <1>2, GotoMoves, LeaveMoves
       DEF PostCustomer, SaveCustomer, BookInvoice, SaveNumber, Created, BookPayment,
           SetPaid, InvoiceFails, GoesOn, BookInvoiceRejected, BookPaymentRejected
  <1>3. CASE PostInvoice(w) \/ PostPayment(w)
    BY <1>3, LeaveMoves, PostInvoiceMoves, PostPaymentMoves
       DEF PostInvoice, PostPayment, InvoiceFails
  <1> QED BY <1>1, <1>2, <1>3 DEF Continue

-----------------------------------------------------------------------------
(* What Fortnox holds, and what the columns and the goroutines say of it *)

\* Fortnox keeps what it was given, and a booked voucher stays booked; a
\* stored number is never taken back.
Keeps ==
    \A c \in Charges :
        /\ DOMAIN invoices[c] \subseteq DOMAIN invoices'[c]
        /\ \A n : IsBooked(c, n) => IsBooked(c, n)'
        /\ DOMAIN payments[c] \subseteq DOMAIN payments'[c]
        /\ \A p : IsPaid(c, p) => IsPaid(c, p)'
        /\ \A p \in DOMAIN payments[c] :
               payments'[c][p].invoice = payments[c][p].invoice
        /\ number[c] # Null => number'[c] # Null

\* A new invoice of charge c.
LEMMA NewInvoice ==
    ASSUME TypeInv, NEW c \in Charges,
           invoices' = [invoices EXCEPT ![c] = Append(@, [booked |-> FALSE])]
    PROVE  /\ Len(invoices'[c]) = Len(invoices[c]) + 1
           /\ Len(invoices[c]) + 1 \in DOMAIN invoices'[c]
           /\ \A d \in Charges :
                /\ DOMAIN invoices[d] \subseteq DOMAIN invoices'[d]
                /\ \A n : IsBooked(d, n) => IsBooked(d, n)'
                /\ d # c => invoices'[d] = invoices[d]
  <1>1. [booked |-> FALSE] \in Invoice
    BY DEF Invoice
  <1>2. invoices \in [Charges -> Seq(Invoice)]
    BY DEF TypeInv, TypeOK
  <1>3. invoices'[c] = Append(invoices[c], [booked |-> FALSE])
    BY <1>2
  <1>4. \A d \in Charges : d # c => invoices'[d] = invoices[d]
    BY <1>2
  <1>5. /\ Len(invoices'[c]) = Len(invoices[c]) + 1
        /\ DOMAIN invoices'[c] = 1 .. Len(invoices[c]) + 1
        /\ \A i \in DOMAIN invoices[c] : invoices'[c][i] = invoices[c][i]
    BY <1>1, <1>2, <1>3, AppendFacts
  <1>6. /\ Len(invoices[c]) \in Nat
        /\ DOMAIN invoices[c] = 1 .. Len(invoices[c])
    BY FortnoxFacts
  <1>7. DOMAIN invoices[c] \subseteq DOMAIN invoices'[c]
    BY <1>5, <1>6
  <1>8. \A n : IsBooked(c, n) => IsBooked(c, n)'
    BY <1>5, <1>7 DEF IsBooked
  <1>9. \A d \in Charges : \A n : d # c /\ IsBooked(d, n) => IsBooked(d, n)'
    BY <1>4 DEF IsBooked
  <1> QED BY <1>4, <1>5, <1>6, <1>7, <1>8, <1>9

LEMMA InvoiceNotNew ==
    ASSUME TypeInv, NEW c \in Charges
    PROVE  invoices # [invoices EXCEPT ![c] = Append(@, [booked |-> FALSE])]
  <1> SUFFICES ASSUME invoices = [invoices EXCEPT ![c] = Append(@, [booked |-> FALSE])]
               PROVE  FALSE
    OBVIOUS
  <1>1. invoices[c] \in Seq(Invoice) /\ invoices \in [Charges -> Seq(Invoice)]
    BY DEF TypeInv, TypeOK
  <1>2. [booked |-> FALSE] \in Invoice
    BY DEF Invoice
  <1>3. Len(Append(invoices[c], [booked |-> FALSE])) = Len(invoices[c]) + 1
    BY <1>1, <1>2, AppendFacts
  <1>4. invoices[c] = Append(invoices[c], [booked |-> FALSE])
    BY <1>1
  <1> QED BY <1>3, <1>4, FortnoxFacts

\* The invoice in hand is booked.
LEMMA InvoiceBooked ==
    ASSUME TypeInv, NEW c \in Charges, NEW n \in DOMAIN invoices[c],
           invoices' = [invoices EXCEPT ![c][n].booked = TRUE]
    PROVE  /\ IsBooked(c, n)'
           /\ \A d \in Charges :
                /\ DOMAIN invoices[d] = DOMAIN invoices'[d]
                /\ Len(invoices'[d]) = Len(invoices[d])
                /\ \A m : IsBooked(d, m) => IsBooked(d, m)'
  <1>1. invoices[c] \in Seq(Invoice) /\ invoices \in [Charges -> Seq(Invoice)]
    BY DEF TypeInv, TypeOK
  <1>2. invoices[c][n] \in Invoice
    BY <1>1, ElementOfSeq, FortnoxFacts
  <1> DEFINE x == [invoices[c][n] EXCEPT !.booked = TRUE]
  <1>3. x \in Invoice /\ x.booked
    BY <1>2 DEF Invoice
  <1>4. invoices' = [invoices EXCEPT ![c] = [@ EXCEPT ![n] = x]]
    OBVIOUS
  <1> HIDE DEF x
  <1>5. /\ invoices'[c] = [invoices[c] EXCEPT ![n] = x]
        /\ \A d \in Charges : d # c => invoices'[d] = invoices[d]
    BY <1>1, <1>4
  <1>6. /\ DOMAIN invoices'[c] = DOMAIN invoices[c]
        /\ Len(invoices'[c]) = Len(invoices[c])
        /\ invoices'[c][n] = x
        /\ \A i \in DOMAIN invoices[c] : i # n => invoices'[c][i] = invoices[c][i]
    BY <1>1, <1>3, <1>5, UpdateFacts
  <1> QED BY <1>3, <1>5, <1>6 DEF IsBooked

\* A new payment of charge c, for invoice n.
LEMMA NewPayment ==
    ASSUME TypeInv, NEW c \in Charges, NEW n \in Nat,
           payments' = [payments EXCEPT ![c] =
                            Append(@, [invoice |-> n, booked |-> FALSE])]
    PROVE  /\ Len(payments'[c]) = Len(payments[c]) + 1
           /\ Len(payments[c]) + 1 \in DOMAIN payments'[c]
           /\ \A p \in DOMAIN payments'[c] :
                  p \in DOMAIN payments[c] \/ payments'[c][p].invoice = n
           /\ \A d \in Charges :
                /\ DOMAIN payments[d] \subseteq DOMAIN payments'[d]
                /\ \A p : IsPaid(d, p) => IsPaid(d, p)'
                /\ \A p \in DOMAIN payments[d] : payments'[d][p] = payments[d][p]
                /\ d # c => payments'[d] = payments[d]
  <1> DEFINE x == [invoice |-> n, booked |-> FALSE]
  <1>1. x \in Payment /\ x.invoice = n
    BY DEF Payment
  <1>2. payments \in [Charges -> Seq(Payment)]
    BY DEF TypeInv, TypeOK
  <1> HIDE DEF x
  <1>3. payments'[c] = Append(payments[c], x)
    BY <1>2 DEF x
  <1>4. \A d \in Charges : d # c => payments'[d] = payments[d]
    BY <1>2
  <1>5. /\ Len(payments'[c]) = Len(payments[c]) + 1
        /\ DOMAIN payments'[c] = 1 .. Len(payments[c]) + 1
        /\ \A i \in DOMAIN payments[c] : payments'[c][i] = payments[c][i]
        /\ payments'[c][Len(payments[c]) + 1] = x
    BY <1>1, <1>2, <1>3, AppendFacts
  <1>6. /\ Len(payments[c]) \in Nat
        /\ DOMAIN payments[c] = 1 .. Len(payments[c])
    BY FortnoxFacts
  <1>7. \A p \in DOMAIN payments'[c] :
            p \in DOMAIN payments[c] \/ p = Len(payments[c]) + 1
    BY <1>5, <1>6
  <1>8. DOMAIN payments[c] \subseteq DOMAIN payments'[c]
    BY <1>5, <1>6
  <1>9. Len(payments[c]) + 1 \in DOMAIN payments'[c]
    BY <1>5, <1>6
  <1>10. \A p : IsPaid(c, p) => IsPaid(c, p)'
    BY <1>5, <1>8 DEF IsPaid
  <1>11. \A d \in Charges : \A p : d # c /\ IsPaid(d, p) => IsPaid(d, p)'
    BY <1>4 DEF IsPaid
  <1>12. \A p \in DOMAIN payments'[c] :
            p \in DOMAIN payments[c] \/ payments'[c][p].invoice = n
    BY <1>1, <1>5, <1>7
  <1>13. \A d \in Charges : \A p \in DOMAIN payments[d] : payments'[d][p] = payments[d][p]
    BY <1>4, <1>5
  <1> QED BY <1>4, <1>5, <1>8, <1>9, <1>10, <1>11, <1>12, <1>13

\* The payment in hand is booked.
LEMMA PaymentBooked ==
    ASSUME TypeInv, NEW c \in Charges, NEW n \in DOMAIN payments[c],
           payments' = [payments EXCEPT ![c][n].booked = TRUE]
    PROVE  /\ IsPaid(c, n)'
           /\ \A d \in Charges :
                /\ DOMAIN payments[d] = DOMAIN payments'[d]
                /\ Len(payments'[d]) = Len(payments[d])
                /\ \A p : IsPaid(d, p) => IsPaid(d, p)'
                /\ \A p \in DOMAIN payments[d] :
                       payments'[d][p].invoice = payments[d][p].invoice
                /\ payments[d] = <<>> => payments'[d] = <<>>
  <1>1. payments[c] \in Seq(Payment) /\ payments \in [Charges -> Seq(Payment)]
    BY DEF TypeInv, TypeOK
  <1>2. payments[c][n] \in Payment
    BY <1>1, ElementOfSeq, FortnoxFacts
  <1> DEFINE x == [payments[c][n] EXCEPT !.booked = TRUE]
  <1>3. x \in Payment /\ x.booked /\ x.invoice = payments[c][n].invoice
    BY <1>2 DEF Payment
  <1>4. payments' = [payments EXCEPT ![c] = [@ EXCEPT ![n] = x]]
    OBVIOUS
  <1> HIDE DEF x
  <1>5. /\ payments'[c] = [payments[c] EXCEPT ![n] = x]
        /\ \A d \in Charges : d # c => payments'[d] = payments[d]
    BY <1>1, <1>4
  <1>6. /\ DOMAIN payments'[c] = DOMAIN payments[c]
        /\ Len(payments'[c]) = Len(payments[c])
        /\ payments'[c][n] = x
        /\ \A i \in DOMAIN payments[c] : i # n => payments'[c][i] = payments[c][i]
    BY <1>1, <1>3, <1>5, UpdateFacts
  <1>7. payments[c] # <<>>
    BY <1>1, FortnoxFacts
  <1>8. /\ IsPaid(c, n)'
        /\ \A p : IsPaid(c, p) => IsPaid(c, p)'
        /\ \A p \in DOMAIN payments[c] :
               payments'[c][p].invoice = payments[c][p].invoice
    BY <1>3, <1>6 DEF IsPaid
  <1>9. \A d \in Charges : d # c =>
           /\ DOMAIN payments[d] = DOMAIN payments'[d]
           /\ Len(payments'[d]) = Len(payments[d])
           /\ \A p : IsPaid(d, p) => IsPaid(d, p)'
           /\ \A p \in DOMAIN payments[d] :
                  payments'[d][p].invoice = payments[d][p].invoice
           /\ payments[d] = <<>> => payments'[d] = <<>>
    BY <1>5 DEF IsPaid
  <1> QED BY <1>6, <1>7, <1>8, <1>9

LEMMA KeepsNext == TypeInv /\ BookedInv /\ [Next]_vars => Keeps
  <1> SUFFICES ASSUME TypeInv, BookedInv, [Next]_vars PROVE Keeps
    OBVIOUS
  <1> USE DEF stripe, columns, fortnox
  <1>1. CASE UNCHANGED <<invoices, payments, number>>
    BY <1>1 DEF Keeps, IsBooked, IsPaid
  <1>2. ASSUME NEW w \in Workers, PostInvoice(w) PROVE Keeps
    <2>1. run[w].cur \in Charges /\ UNCHANGED <<payments, number>>
      BY <1>2, RunType DEF PostInvoice, Working, PCs
    <2>2. CASE invoices' = [invoices EXCEPT ![run[w].cur] = Append(@, [booked |-> FALSE])]
      BY <2>1, <2>2, NewInvoice DEF Keeps, IsPaid
    <2> QED BY <1>1, <1>2, <2>1, <2>2 DEF PostInvoice
  <1>3. ASSUME NEW w \in Workers, BookInvoice(w) PROVE Keeps
    <2>1. run[w].cur \in Charges /\ UNCHANGED <<payments, number>>
      BY <1>3, RunType DEF BookInvoice, Working, PCs
    <2>2. run[w].inv \in DOMAIN invoices[run[w].cur]
      BY <1>3 DEF BookInvoice, BookedInv, InHand
    <2>3. CASE invoices' = [invoices EXCEPT ![run[w].cur][run[w].inv].booked = TRUE]
      BY <2>1, <2>2, <2>3, InvoiceBooked DEF Keeps, IsPaid
    <2> QED BY <1>1, <1>3, <2>1, <2>3 DEF BookInvoice
  <1>4. ASSUME NEW w \in Workers, PostPayment(w) PROVE Keeps
    <2>1. run[w].cur \in Charges /\ UNCHANGED <<invoices, number>>
      BY <1>4, RunType DEF PostPayment, Working, PCs
    <2>2. CASE payments' = [payments EXCEPT ![run[w].cur] =
                      Append(@, [invoice |-> run[w].inv, booked |-> FALSE])]
      <3>1. run[w].inv \in Nat
        BY RunType DEF Run
      <3> QED BY <2>1, <2>2, <3>1, NewPayment DEF Keeps, IsBooked
    <2> QED BY <1>1, <1>4, <2>1, <2>2 DEF PostPayment
  <1>5. ASSUME NEW w \in Workers, BookPayment(w) PROVE Keeps
    <2>1. run[w].cur \in Charges /\ UNCHANGED <<invoices, number>>
      BY <1>5, RunType DEF BookPayment, Working, PCs
    <2>2. run[w].pay \in DOMAIN payments[run[w].cur]
      BY <1>5 DEF BookPayment, BookedInv, InHand
    <2>3. CASE payments' = [payments EXCEPT ![run[w].cur][run[w].pay].booked = TRUE]
      BY <2>1, <2>2, <2>3, PaymentBooked DEF Keeps, IsBooked
    <2> QED BY <1>1, <1>5, <2>1, <2>3 DEF BookPayment
  <1>6. ASSUME NEW w \in Workers, SaveNumber(w) PROVE Keeps
    <2>1. run[w].cur \in Charges /\ UNCHANGED <<invoices, payments>>
      BY <1>6, RunType DEF SaveNumber, Working, PCs
    <2>2. run[w].inv # Null
      BY <1>6, <2>1, FortnoxFacts DEF SaveNumber, BookedInv, InHand, IsBooked, Null
    <2>3. CASE SetNumber(run[w].cur, run[w].inv)
      BY <2>1, <2>2, <2>3 DEF SetNumber, Keeps, IsBooked, IsPaid, TypeInv, TypeOK
    <2> QED BY <1>1, <1>6, <2>1, <2>3 DEF SaveNumber
  <1>7. ASSUME NEW w \in Workers,
               StartRun(w) \/ GetCustomer(w) \/ ListUnpaid(w) \/ NextUnpaid(w)
               \/ EndRun(w) \/ PostCustomer(w) \/ SaveCustomer(w) \/ Created(w)
               \/ SetPaid(w)
        PROVE  Keeps
    BY <1>1, <1>7 DEF StartRun, GetCustomer, ListUnpaid, NextUnpaid, EndRun,
                      PostCustomer, SaveCustomer, Created, SetPaid
  <1>8. CASE Crash \/ (\E c \in Charges : StoreCharge(c) \/ StoreTxn(c)) \/ UNCHANGED vars
    BY <1>1, <1>8 DEF Crash, StoreCharge, StoreTxn, vars
  <1> QED BY <1>2, <1>3, <1>4, <1>5, <1>6, <1>7, <1>8 DEF Next, Continue

\* A goroutine that does nothing, or leaves its charge, keeps what it knows.
LEMMA OthersInHand ==
    ASSUME TypeInv, Keeps, NEW v \in Workers, run'[v] = run[v], InHand(v)
    PROVE  InHand(v)'
  <1>1. /\ run[v] \in Run
        /\ run[v].pc \in Working => run[v].cur \in Charges
    BY RunType
  <1>2. \A e \in run[v].todo : e[1] \in Charges
    BY <1>1 DEF Run
  <1> QED BY <1>1, <1>2 DEF InHand, Keeps, Working, PCs

LEMMA LeaveInHand ==
    ASSUME TypeInv, Keeps, NEW w \in Workers, Leave(w), InHand(w)
    PROVE  /\ InHand(w)'
           /\ \A v \in Workers : v # w => run'[v] = run[v]
  <1> DEFINE r == [run[w] EXCEPT !.pc = "next", !.cur = NoCharge,
                                 !.inv = Null, !.pay = 0]
  <1>1. r \in Run /\ r.pc = "next" /\ r.list = run[w].list /\ r.todo = run[w].todo
    BY RunType DEF Run, PCs, Null
  <1>2. Becomes(w, r) /\ r.pc \notin Working
    BY <1>1 DEF Leave, Working
  <1>3. /\ run'[w] = r
        /\ \A v \in Workers : v # w => run'[v] = run[v]
    BY <1>1, <1>2, BecomesType
  <1>4. \A e \in run[w].todo : e[1] \in Charges
    BY RunType DEF Run
  <1> QED BY <1>1, <1>3, <1>4 DEF InHand, Keeps

\* The invariant holds after a step that leaves the goroutines, the columns
\* and the log as they are said to be.
LEMMA BookedKept ==
    ASSUME TypeInv, BookedInv, Keeps,
           \A w \in Workers : InHand(w)',
           \A c \in Charges :
               /\ number'[c] # number[c] => IsBooked(c, number[c])'
               /\ "fortnox_invoice_created" \in log'[c] =>
                      "fortnox_invoice_created" \in log[c] \/ number[c] # Null
               /\ c \in paid' => c \in paid \/ \E i : IsPaid(c, i)
               /\ \A i \in DOMAIN payments'[c] :
                      i \in DOMAIN payments[c] \/ IsBooked(c, payments'[c][i].invoice)
    PROVE  BookedInv'
  <1>1. NumberIsBooked /\ PaidIsBooked
    BY DEF BookedInv
  <1>2. NumberIsBooked'
    <2> SUFFICES ASSUME NEW c \in Charges
                 PROVE  /\ number'[c] # Null => IsBooked(c, number[c])'
                        /\ "fortnox_invoice_created" \in log'[c] => number'[c] # Null
      BY DEF NumberIsBooked, IsBooked
    <2>1. number[c] # Null => IsBooked(c, number[c])
      BY <1>1 DEF NumberIsBooked, IsBooked
    <2>2. "fortnox_invoice_created" \in log'[c] => number'[c] # Null
      BY <1>1 DEF NumberIsBooked, Keeps
    <2>3. CASE number'[c] = number[c]
      BY <2>1, <2>2, <2>3 DEF Keeps, IsBooked
    <2>4. CASE number'[c] # number[c]
      BY <2>2, <2>4
    <2> QED BY <2>3, <2>4
  <1>3. PaidIsBooked'
    <2> SUFFICES ASSUME NEW c \in Charges
                 PROVE  /\ c \in paid' => \E i : IsPaid(c, i)'
                        /\ \A i \in DOMAIN payments'[c] :
                               IsBooked(c, payments[c][i].invoice)'
      BY DEF PaidIsBooked, IsBooked, IsPaid
    <2>1. c \in paid' => \E i : IsPaid(c, i)
      BY <1>1 DEF PaidIsBooked, IsPaid
    <2>2. ASSUME NEW i \in DOMAIN payments'[c]
          PROVE  IsBooked(c, payments[c][i].invoice)'
      <3>1. IsBooked(c, payments'[c][i].invoice)
        BY <1>1, <2>2 DEF PaidIsBooked, IsBooked, Keeps
      <3> QED BY <3>1 DEF Keeps, IsBooked
    <2> QED BY <2>1, <2>2 DEF Keeps
  <1> QED BY <1>2, <1>3 DEF BookedInv

\* Every other goroutine keeps what it knows in a step of goroutine w.
LEMMA OnlyInHand ==
    ASSUME TypeInv, BookedInv, Keeps, NEW w \in Workers, InHand(w)',
           \A v \in Workers : v # w => run'[v] = run[v]
    PROVE  \A v \in Workers : InHand(v)'
  BY OthersInHand DEF BookedInv

\* The columns and the log of a step that changes none of them but in the
\* ways InvoiceFails and Created do.
LEMMA LogKept ==
    ASSUME TypeInv, NEW c \in Charges, NEW entry \in LogEntries, Log(c, entry)
    PROVE  \A d \in Charges :
             "fortnox_invoice_created" \in log'[d] =>
                 \/ "fortnox_invoice_created" \in log[d]
                 \/ d = c /\ entry = "fortnox_invoice_created"
  BY DEF TypeInv, TypeOK, Log

LEMMA InvoiceFailsKept ==
    ASSUME TypeInv, BookedInv, Keeps, NEW w \in Workers,
           run[w].pc \in Working, InvoiceFails(w)
    PROVE  /\ \A v \in Workers : InHand(v)'
           /\ \A d \in Charges : "fortnox_invoice_created" \in log'[d] =>
                                     "fortnox_invoice_created" \in log[d]
  <1>1. \A v \in Workers : InHand(v)'
    BY LeaveInHand, OnlyInHand DEF InvoiceFails, BookedInv
  <1>2. run[w].cur \in Charges
    BY RunType
  <1>3. Log(run[w].cur, "fortnox_error") /\ "fortnox_error" \in LogEntries
    BY DEF InvoiceFails, LogEntries
  <1> QED BY <1>1, <1>2, <1>3, LogKept

LEMMA BookedInvInit == Init => BookedInv
  BY DEF Init, BookedInv, InHand, NumberIsBooked, PaidIsBooked, Idle

LEMMA BookedInvNext == TypeInv /\ BookedInv /\ [Next]_vars => BookedInv'
  <1> SUFFICES ASSUME TypeInv, BookedInv, [Next]_vars PROVE BookedInv'
    OBVIOUS
  <1>0. Keeps /\ TypeInv' /\ \A w \in Workers : InHand(w)
    BY KeepsNext, TypeInvNext DEF BookedInv
  <1> USE DEF stripe, columns, fortnox
  <1>1. ASSUME NEW w \in Workers, StartRun(w) PROVE BookedInv'
    <2>1. /\ run'[w].pc = "next" /\ run'[w].list = "charges"
          /\ \A v \in Workers : v # w => run'[v] = run[v]
      BY <1>1 DEF StartRun, Becomes, Idle, TypeInv, TypeOK
    <2>2. InHand(w)'
      BY <2>1 DEF InHand
    <2>3. \A v \in Workers : InHand(v)'
      BY <1>0, <2>1, <2>2, OnlyInHand
    <2> QED BY <1>0, <1>1, <2>3, BookedKept DEF StartRun
  <1>2. ASSUME NEW w \in Workers, GetCustomer(w) PROVE BookedInv'
    <2> DEFINE r(pc, e) == [run[w] EXCEPT !.pc = pc, !.cur = e[1], !.todo = @ \ {e}]
    <2>1. PICK e \in run[w].todo, pc \in {"invoice", "customer"} : Becomes(w, r(pc, e))
      BY <1>2 DEF GetCustomer, Earliest
    <2>2. /\ run'[w] = r(pc, e)
          /\ \A v \in Workers : v # w => run'[v] = run[v]
      BY <2>1 DEF Becomes, TypeInv, TypeOK
    <2>3. InHand(w)'
      BY <1>2, <2>2, RunType DEF InHand, GetCustomer, Run
    <2>4. \A v \in Workers : InHand(v)'
      BY <1>0, <2>2, <2>3, OnlyInHand
    <2> QED BY <1>0, <1>2, <2>4, BookedKept DEF GetCustomer
  <1>3. ASSUME NEW w \in Workers, ListUnpaid(w) PROVE BookedInv'
    <2> DEFINE r(S) == [run[w] EXCEPT !.list = "unpaid", !.todo = S]
    <2>1. PICK S \in {UnpaidCharges, {}} : Becomes(w, r(S))
      <3>1. run[w] \in Run /\ run[w].todo = {}
        BY <1>3, RunType DEF ListUnpaid
      <3>2. [run[w] EXCEPT !.list = "unpaid"] = r({})
        BY <3>1 DEF Run
      <3> QED BY <1>3, <3>2 DEF ListUnpaid
    <2>2. /\ run'[w] = r(S)
          /\ \A v \in Workers : v # w => run'[v] = run[v]
      BY <2>1 DEF Becomes, TypeInv, TypeOK
    <2>3. \A e \in S : IsBooked(e[1], e[2])
      BY DEF UnpaidCharges, Joined, BookedInv, NumberIsBooked, IsBooked, TypeInv, TypeOK
    <2>4. run'[w].pc = "next" /\ run'[w].todo = S
      BY <1>3, <2>2, RunType DEF ListUnpaid, Run
    <2>5. InHand(w)'
      BY <1>3, <2>3, <2>4 DEF InHand, ListUnpaid, IsBooked
    <2>6. \A v \in Workers : InHand(v)'
      BY <1>0, <2>2, <2>5, OnlyInHand
    <2> QED BY <1>0, <1>3, <2>6, BookedKept DEF ListUnpaid
  <1>4. ASSUME NEW w \in Workers, NextUnpaid(w) PROVE BookedInv'
    <2> DEFINE r(e) == [run[w] EXCEPT !.pc = "payment", !.cur = e[1],
                                      !.inv = e[2], !.todo = @ \ {e}]
    <2>1. PICK e \in run[w].todo : Becomes(w, r(e))
      BY <1>4 DEF NextUnpaid
    <2>2. /\ run'[w] = r(e)
          /\ \A v \in Workers : v # w => run'[v] = run[v]
      BY <2>1 DEF Becomes, TypeInv, TypeOK
    <2>3. \A f \in run[w].todo : IsBooked(f[1], f[2])
      BY <1>0, <1>4 DEF InHand, NextUnpaid
    <2>4. /\ run'[w].pc = "payment" /\ run'[w].cur = e[1] /\ run'[w].inv = e[2]
          /\ run'[w].todo = run[w].todo \ {e}
      BY <2>2, RunType DEF Run
    <2>5. InHand(w)'
      BY <1>4, <2>3, <2>4 DEF InHand, NextUnpaid, IsBooked
    <2>6. \A v \in Workers : InHand(v)'
      BY <1>0, <2>2, <2>5, OnlyInHand
    <2> QED BY <1>0, <1>4, <2>6, BookedKept DEF NextUnpaid
  <1>5. ASSUME NEW w \in Workers, EndRun(w) PROVE BookedInv'
    <2>2. /\ run'[w] = Idle
          /\ \A v \in Workers : v # w => run'[v] = run[v]
      BY <1>5 DEF EndRun, Becomes, TypeInv, TypeOK
    <2>3. InHand(w)'
      BY <2>2 DEF InHand, Idle
    <2>4. \A v \in Workers : InHand(v)'
      BY <1>0, <2>2, <2>3, OnlyInHand
    <2> QED BY <1>0, <1>5, <2>4, BookedKept DEF EndRun
  <1>6. ASSUME NEW w \in Workers, PostCustomer(w) PROVE BookedInv'
    <2>1. run[w].pc \in Working
      BY <1>6 DEF PostCustomer, Working, PCs
    <2>2. CASE InvoiceFails(w)
      BY <1>0, <1>6, <2>1, <2>2, InvoiceFailsKept, BookedKept DEF PostCustomer
    <2>3. CASE GoesOn(w, "saveCustomer")
      <3>1. /\ run'[w] = [run[w] EXCEPT !.pc = "saveCustomer"]
            /\ \A v \in Workers : v # w => run'[v] = run[v]
        BY <2>3 DEF GoesOn, Goto, Becomes, TypeInv, TypeOK
      <3>2. InHand(w)'
        BY <1>0, <1>6, <3>1, RunType DEF InHand, PostCustomer, Run, IsBooked
      <3> QED BY <1>0, <1>6, <2>3, <3>1, <3>2, OnlyInHand, BookedKept
              DEF PostCustomer, GoesOn
    <2> QED BY <1>6, <2>2, <2>3 DEF PostCustomer
  <1>7. ASSUME NEW w \in Workers, SaveCustomer(w) PROVE BookedInv'
    <2>1. run[w].pc \in Working
      BY <1>7 DEF SaveCustomer, Working, PCs
    <2>2. CASE InvoiceFails(w)
      BY <1>0, <1>7, <2>1, <2>2, InvoiceFailsKept, BookedKept DEF SaveCustomer
    <2>3. CASE GoesOn(w, "invoice")
      <3>1. /\ run'[w] = [run[w] EXCEPT !.pc = "invoice"]
            /\ \A v \in Workers : v # w => run'[v] = run[v]
        BY <2>3 DEF GoesOn, Goto, Becomes, TypeInv, TypeOK
      <3>2. InHand(w)'
        BY <1>0, <1>7, <3>1, RunType DEF InHand, SaveCustomer, Run, IsBooked
      <3> QED BY <1>0, <1>7, <2>3, <3>1, <3>2, OnlyInHand, BookedKept
              DEF SaveCustomer, GoesOn
    <2> QED BY <1>7, <2>2, <2>3 DEF SaveCustomer
  <1>8. ASSUME NEW w \in Workers, PostInvoice(w) PROVE BookedInv'
    <2> DEFINE c == run[w].cur
               n == Len(invoices[c]) + 1
    <2>1. run[w].pc \in Working /\ c \in Charges
      BY <1>8, RunType DEF PostInvoice, Working, PCs
    <2>2. CASE InvoiceFails(w)
      BY <1>0, <1>8, <2>1, <2>2, InvoiceFailsKept, BookedKept DEF PostInvoice
    <2>3. CASE /\ invoices' = [invoices EXCEPT ![c] = Append(@, [booked |-> FALSE])]
               /\ Becomes(w, [run[w] EXCEPT !.pc = "bookInvoice", !.inv = n])
               /\ UNCHANGED log
      <3>1. n \in DOMAIN invoices'[c]
        BY <2>1, <2>3, NewInvoice
      <3> HIDE DEF n
      <3>2. /\ run'[w] = [run[w] EXCEPT !.pc = "bookInvoice", !.inv = n]
            /\ \A v \in Workers : v # w => run'[v] = run[v]
        BY <2>3 DEF Becomes, TypeInv, TypeOK
      <3>3. /\ run'[w].pc = "bookInvoice" /\ run'[w].cur = c /\ run'[w].inv = n
            /\ run'[w].list = run[w].list /\ run'[w].todo = run[w].todo
        BY <3>2, RunType DEF Run
      <3>4. run[w].list = "unpaid" => \A e \in run[w].todo : IsBooked(e[1], e[2])'
        BY <1>0, RunType DEF InHand, Keeps, Run
      <3>5. InHand(w)'
        BY <3>1, <3>3, <3>4 DEF InHand
      <3> QED BY <1>0, <1>8, <2>3, <3>2, <3>5, OnlyInHand, BookedKept DEF PostInvoice
    <2> QED BY <1>8, <2>2, <2>3 DEF PostInvoice
  <1>9. ASSUME NEW w \in Workers, BookInvoice(w) PROVE BookedInv'
    <2>0. PICK c, n : c = run[w].cur /\ n = run[w].inv
      OBVIOUS
    <2>1. run[w].pc \in Working /\ c \in Charges
      BY <1>9, <2>0, RunType DEF BookInvoice, Working, PCs
    <2>2. CASE InvoiceFails(w)
      BY <1>0, <1>9, <2>0, <2>1, <2>2, InvoiceFailsKept, BookedKept DEF BookInvoice
    <2>3. CASE /\ invoices' = [invoices EXCEPT ![c][n].booked = TRUE]
               /\ GoesOn(w, "saveNumber")
      <3>1. n \in DOMAIN invoices[c]
        BY <1>0, <1>9, <2>0 DEF InHand, BookInvoice
      <3>2. IsBooked(c, n)'
        BY <2>1, <2>3, <3>1, InvoiceBooked
      <3>3. /\ run'[w] = [run[w] EXCEPT !.pc = "saveNumber"]
            /\ \A v \in Workers : v # w => run'[v] = run[v]
        BY <2>3 DEF GoesOn, Goto, Becomes, TypeInv, TypeOK
      <3>4. /\ run'[w].pc = "saveNumber" /\ run'[w].cur = c /\ run'[w].inv = n
            /\ run'[w].list = run[w].list /\ run'[w].todo = run[w].todo
        BY <2>0, <3>3, RunType DEF Run
      <3>5. run[w].list = "unpaid" => \A e \in run[w].todo : IsBooked(e[1], e[2])'
        BY <1>0, RunType DEF InHand, Keeps, Run
      <3>6. InHand(w)'
        BY <3>2, <3>4, <3>5 DEF InHand, IsBooked
      <3> QED BY <1>0, <1>9, <2>0, <2>3, <3>3, <3>6, OnlyInHand, BookedKept
              DEF BookInvoice, GoesOn
    <2> QED BY <1>9, <2>0, <2>2, <2>3 DEF BookInvoice, BookInvoiceRejected
  <1>10. ASSUME NEW w \in Workers, SaveNumber(w) PROVE BookedInv'
    <2>0. PICK c, n : c = run[w].cur /\ n = run[w].inv
      OBVIOUS
    <2>1. run[w].pc \in Working /\ c \in Charges
      BY <1>10, <2>0, RunType DEF SaveNumber, Working, PCs
    <2>2. CASE InvoiceFails(w) /\ UNCHANGED number
      BY <1>0, <1>10, <2>0, <2>1, <2>2, InvoiceFailsKept, BookedKept DEF SaveNumber
    <2>3. CASE SetNumber(c, n) /\ GoesOn(w, "created")
      <3>1. IsBooked(c, n) /\ n # Null
        BY <1>0, <1>10, <2>0, <2>1, FortnoxFacts DEF InHand, SaveNumber, IsBooked, Null
      <3>2. number' = [number EXCEPT ![c] = n] /\ number \in [Charges -> Nat]
        BY <2>3 DEF SetNumber, TypeInv, TypeOK
      <3>3. \A d \in Charges : number'[d] # number[d] => IsBooked(d, number[d])'
        BY <1>0, <3>1, <3>2 DEF Keeps, IsBooked
      <3>4. /\ run'[w] = [run[w] EXCEPT !.pc = "created"]
            /\ \A v \in Workers : v # w => run'[v] = run[v]
        BY <2>3 DEF GoesOn, Goto, Becomes, TypeInv, TypeOK
      <3>5. /\ run'[w].pc = "created" /\ run'[w].cur = c /\ run'[w].inv = n
            /\ run'[w].list = run[w].list /\ run'[w].todo = run[w].todo
        BY <2>0, <3>4, RunType DEF Run
      <3>6. run[w].list = "unpaid" => \A e \in run[w].todo : IsBooked(e[1], e[2])'
        BY <1>0, RunType DEF InHand, Keeps, Run
      <3>7. IsBooked(c, n)' /\ number'[c] # Null
        BY <1>0, <2>1, <3>1, <3>2 DEF Keeps
      <3>8. InHand(w)'
        BY <3>5, <3>6, <3>7 DEF InHand, IsBooked
      <3> QED BY <1>0, <1>10, <2>0, <2>3, <3>3, <3>4, <3>8, OnlyInHand, BookedKept
              DEF SaveNumber, GoesOn
    <2> QED BY <1>10, <2>0, <2>2, <2>3 DEF SaveNumber
  <1>11. ASSUME NEW w \in Workers, Created(w) PROVE BookedInv'
    <2> DEFINE c == run[w].cur
    <2>1. /\ run[w].pc \in Working /\ c \in Charges
          /\ Log(c, "fortnox_invoice_created")
          /\ UNCHANGED <<stripe, columns, fortnox>>
          /\ number[c] # Null
          /\ IsBooked(c, run[w].inv)
      BY <1>0, <1>11, RunType DEF Created, Working, PCs, InHand
    <2>2. \A d \in Charges : "fortnox_invoice_created" \in log'[d] =>
              "fortnox_invoice_created" \in log[d] \/ number[d] # Null
      BY <2>1, LogKept DEF LogEntries
    <2>3. CASE Leave(w)
      BY <1>0, <2>1, <2>2, <2>3, LeaveInHand, OnlyInHand, BookedKept
    <2>4. CASE Goto(w, "payment")
      <3>1. /\ run'[w] = [run[w] EXCEPT !.pc = "payment"]
            /\ \A v \in Workers : v # w => run'[v] = run[v]
        BY <2>4 DEF Goto, Becomes, TypeInv, TypeOK
      <3>2. InHand(w)'
        BY <1>0, <2>1, <3>1, RunType DEF InHand, Run, IsBooked
      <3> QED BY <1>0, <2>1, <2>2, <3>1, <3>2, OnlyInHand, BookedKept
    <2> QED BY <1>11, <2>3, <2>4 DEF Created
  <1>12. ASSUME NEW w \in Workers, PostPayment(w) PROVE BookedInv'
    <2> DEFINE c == run[w].cur
               n == run[w].inv
               p == Len(payments[c]) + 1
    <2>1. /\ run[w].pc \in Working /\ c \in Charges /\ n \in Nat
          /\ UNCHANGED <<stripe, columns, customers, invoices, log>>
          /\ IsBooked(c, n)
      BY <1>0, <1>12, RunType DEF PostPayment, Working, PCs, Run, InHand
    <2>2. \A d \in Charges : \A i \in DOMAIN payments'[d] :
              i \in DOMAIN payments[d] \/ IsBooked(d, payments'[d][i].invoice)
      <3>1. CASE UNCHANGED payments
        BY <3>1
      <3>2. CASE payments' = [payments EXCEPT ![c] =
                                  Append(@, [invoice |-> n, booked |-> FALSE])]
        BY <2>1, <3>2, NewPayment
      <3> QED BY <1>12, <3>1, <3>2 DEF PostPayment
    <2>3. CASE Leave(w)
      BY <1>0, <2>1, <2>2, <2>3, LeaveInHand, OnlyInHand, BookedKept
    <2>4. CASE /\ payments' = [payments EXCEPT ![c] =
                                   Append(@, [invoice |-> n, booked |-> FALSE])]
               /\ Becomes(w, [run[w] EXCEPT !.pc = "bookPayment", !.pay = p])
      <3>1. p \in DOMAIN payments'[c]
        BY <2>1, <2>4, NewPayment
      <3> HIDE DEF p
      <3>2. /\ run'[w] = [run[w] EXCEPT !.pc = "bookPayment", !.pay = p]
            /\ \A v \in Workers : v # w => run'[v] = run[v]
        BY <2>4 DEF Becomes, TypeInv, TypeOK
      <3>3. /\ run'[w].pc = "bookPayment" /\ run'[w].cur = c /\ run'[w].pay = p
            /\ run'[w].list = run[w].list /\ run'[w].todo = run[w].todo
        BY <3>2, RunType DEF Run
      <3>4. run[w].list = "unpaid" => \A e \in run[w].todo : IsBooked(e[1], e[2])'
        BY <1>0, RunType DEF InHand, Keeps, Run
      <3>5. InHand(w)'
        BY <3>1, <3>3, <3>4 DEF InHand
      <3> QED BY <1>0, <2>1, <2>2, <3>2, <3>5, OnlyInHand, BookedKept
    <2> QED BY <1>12, <2>3, <2>4 DEF PostPayment
  <1>13. ASSUME NEW w \in Workers, BookPayment(w) PROVE BookedInv'
    <2>0. PICK c, p : c = run[w].cur /\ p = run[w].pay
      OBVIOUS
    <2>1. /\ run[w].pc \in Working /\ c \in Charges
          /\ UNCHANGED <<stripe, columns, customers, invoices, log>>
          /\ p \in DOMAIN payments[c]
      BY <1>0, <1>13, <2>0, RunType DEF BookPayment, Working, PCs, InHand
    <2>2. /\ \A d \in Charges : DOMAIN payments'[d] = DOMAIN payments[d]
          /\ Goto(w, "setPaid") => IsPaid(c, p)' \/ Leave(w)
      <3>1. CASE UNCHANGED payments /\ Leave(w)
        BY <3>1
      <3>2. CASE payments' = [payments EXCEPT ![c][p].booked = TRUE]
        BY <2>1, <3>2, PaymentBooked
      <3> QED BY <1>13, <2>0, <3>1, <3>2 DEF BookPayment, BookPaymentRejected
    <2>3. CASE Leave(w)
      BY <1>0, <2>1, <2>2, <2>3, LeaveInHand, OnlyInHand, BookedKept
    <2>4. CASE Goto(w, "setPaid") /\ IsPaid(c, p)'
      <3>1. /\ run'[w] = [run[w] EXCEPT !.pc = "setPaid"]
            /\ \A v \in Workers : v # w => run'[v] = run[v]
        BY <2>4 DEF Goto, Becomes, TypeInv, TypeOK
      <3>2. InHand(w)'
        BY <1>0, <2>0, <2>1, <2>2, <2>4, <3>1, RunType DEF InHand, Run, IsBooked, IsPaid
      <3> QED BY <1>0, <2>1, <2>2, <3>1, <3>2, OnlyInHand, BookedKept
    <2> QED BY <1>13, <2>0, <2>2, <2>3, <2>4 DEF BookPayment, BookPaymentRejected
  <1>14. ASSUME NEW w \in Workers, SetPaid(w) PROVE BookedInv'
    <2>1. run[w].cur \in Charges /\ IsPaid(run[w].cur, run[w].pay)
      BY <1>0, <1>14, RunType DEF SetPaid, Working, PCs, InHand
    <2>2. Leave(w)
      BY <1>14 DEF SetPaid
    <2>3. \A v \in Workers : InHand(v)'
      BY <1>0, <2>2, LeaveInHand, OnlyInHand
    <2> QED BY <1>0, <1>14, <2>1, <2>3, BookedKept DEF SetPaid, Pay
  <1>15. CASE Crash
    <2>1. \A v \in Workers : InHand(v)'
      BY <1>15 DEF Crash, InHand, Idle
    <2> QED BY <1>0, <1>15, <2>1, BookedKept DEF Crash
  <1>16. CASE (\E c \in Charges : StoreCharge(c) \/ StoreTxn(c)) \/ UNCHANGED vars
    <2>1. UNCHANGED <<columns, fortnox, log, run>>
      BY <1>16 DEF StoreCharge, StoreTxn, vars
    <2>2. \A v \in Workers : InHand(v)'
      BY <1>0, <2>1, OthersInHand
    <2> QED BY <1>0, <2>1, <2>2, BookedKept
  <1> QED
    BY <1>1, <1>2, <1>3, <1>4, <1>5, <1>6, <1>7, <1>8, <1>9, <1>10, <1>11,
       <1>12, <1>13, <1>14, <1>15, <1>16 DEF Next, Continue

LEMMA BookedInvariant == Spec => [](TypeInv /\ BookedInv)
  BY TypeInvInit, TypeInvNext, BookedInvInit, BookedInvNext, PTL DEF Spec

\* A stored number is that of a booked invoice, and the log tells of an
\* invoice only when its number is stored, for any goroutines and faults
\* (invoice.go:189-196, handler/sync.go:119).
THEOREM StoredNumberIsBooked == Spec => []NumberIsBooked
  BY BookedInvariant, PTL DEF BookedInv

\* A charge is flagged as paid only when a booked payment of a booked invoice
\* exists, for any goroutines and faults (invoice.go:224-246).
THEOREM PaidHasPayment == Spec => []PaidIsBooked
  BY BookedInvariant, PTL DEF BookedInv

-----------------------------------------------------------------------------
(* Counting what a charge and a customer were given *)

LEMMA WorkersFinite == IsFiniteSet(Workers) /\ W \in Nat /\ W >= 1
  <1>1. IsFiniteSet(Workers)
    BY WorkersAssumption, FS_AddElement, FS_Union, FS_Singleton DEF Workers
  <1>2. Workers # {}
    BY DEF Workers
  <1> QED BY <1>1, <1>2, FS_CardinalityType, FS_EmptySet DEF W

LEMMA GroupFacts ==
    ASSUME NEW S \in SUBSET Workers
    PROVE  IsFiniteSet(S) /\ Cardinality(S) \in Nat /\ Cardinality(S) <= W
  BY WorkersFinite, FS_Subset, FS_CardinalityType DEF W

\* One goroutine enters or leaves a group.
LEMMA OneMoves ==
    ASSUME NEW S \in SUBSET Workers, NEW T \in SUBSET Workers,
           NEW w \in Workers, \A v \in Workers : v # w => (v \in S <=> v \in T)
    PROVE  /\ w \in T /\ w \notin S => Cardinality(T) = Cardinality(S) + 1
           /\ w \in S /\ w \notin T => Cardinality(T) = Cardinality(S) - 1
           /\ (w \in S <=> w \in T) => Cardinality(T) = Cardinality(S)
  <1>1. IsFiniteSet(S) /\ IsFiniteSet(T)
    BY GroupFacts
  <1>2. CASE w \in T /\ w \notin S
    <2>1. T = S \cup {w}
      BY <1>2
    <2> QED BY <1>1, <1>2, <2>1, FS_AddElement
  <1>3. CASE w \in S /\ w \notin T
    <2>1. T = S \ {w}
      BY <1>3
    <2> QED BY <1>1, <1>3, <2>1, FS_RemoveElement
  <1>4. CASE w \in S <=> w \in T
    <2>1. T = S
      BY <1>4
    <2> QED BY <1>4, <2>1
  <1> QED BY <1>2, <1>3, <1>4

\* Two groups without a common member.
LEMMA Apart ==
    ASSUME NEW S \in SUBSET Workers, NEW T \in SUBSET Workers, S \cap T = {}
    PROVE  Cardinality(S) + Cardinality(T) <= W
  <1>1. IsFiniteSet(S) /\ IsFiniteSet(T)
    BY GroupFacts
  <1>2. Cardinality(S \cup T) = Cardinality(S) + Cardinality(T) - Cardinality(S \cap T)
    BY <1>1, FS_Union
  <1>3. Cardinality(S \cap T) = 0
    BY FS_EmptySet
  <1>4. Cardinality(S \cup T) <= W
    BY GroupFacts
  <1> QED BY <1>2, <1>3, <1>4, GroupFacts

In(w, S) == IF w \in S THEN 1 ELSE 0

\* A fault is worth as many goroutines as there are.
LEMMA FaultIsWorth ==
    ASSUME NEW f \in Nat
    PROVE  /\ W * f \in Nat
           /\ W * (1 + f) = W + W * f
           /\ W * (f + 1) = W + W * f
           /\ W * (1 + (f + 1)) = W + W + W * f
  BY WorkersFinite

\* A step of goroutine w keeps the bound while nothing is stored,
LEMMA BoundWhileOpen ==
    ASSUME NEW w \in Workers, NEW n \in Nat, NEW n2 \in Nat,
           NEW f \in Nat, NEW f2 \in Nat, f2 \in {f, f + 1},
           NEW have \in SUBSET Workers, NEW have2 \in SUBSET Workers,
           \A v \in Workers : v # w => (v \in have <=> v \in have2),
           n <= Cardinality(have) + W * f,
           n2 + In(w, have) <= n + In(w, have2) + (f2 - f)
    PROVE  n2 <= Cardinality(have2) + W * f2
  <1>1. /\ Cardinality(have) \in Nat /\ Cardinality(have2) \in Nat
        /\ W \in Nat /\ W >= 1 /\ W * f \in Nat /\ W * f2 \in Nat
    BY GroupFacts, WorkersFinite, FaultIsWorth
  <1>2. Cardinality(have2) = Cardinality(have) + In(w, have2) - In(w, have)
    BY <1>1, OneMoves DEF In
  <1>3. W * f2 >= W * f + (f2 - f)
    BY <1>1, FaultIsWorth
  <1> QED BY <1>1, <1>2, <1>3 DEF In

\* and once something is stored;
LEMMA BoundOnceStored ==
    ASSUME NEW w \in Workers, NEW n \in Nat, NEW n2 \in Nat,
           NEW f \in Nat, NEW f2 \in Nat, f2 \in {f, f + 1},
           NEW may \in SUBSET Workers, NEW may2 \in SUBSET Workers,
           \A v \in Workers : v # w => (v \in may <=> v \in may2),
           n + Cardinality(may) <= W * (1 + f),
           n2 + In(w, may2) <= n + In(w, may) + (f2 - f)
    PROVE  n2 + Cardinality(may2) <= W * (1 + f2)
  <1>1. /\ Cardinality(may) \in Nat /\ Cardinality(may2) \in Nat
        /\ W \in Nat /\ W >= 1 /\ W * f \in Nat /\ W * f2 \in Nat
    BY GroupFacts, WorkersFinite, FaultIsWorth
  <1>2. Cardinality(may2) = Cardinality(may) + In(w, may2) - In(w, may)
    BY <1>1, OneMoves DEF In
  <1>3. /\ W * f2 >= W * f + (f2 - f)
        /\ W * (1 + f) = W + W * f /\ W * (1 + f2) = W + W * f2
    BY <1>1, FaultIsWorth
  <1> QED BY <1>1, <1>2, <1>3 DEF In

\* storing turns the first bound into the second.
LEMMA BoundWhenStored ==
    ASSUME NEW n \in Nat, NEW f \in Nat, NEW f2 \in Nat, f2 \in {f, f + 1},
           NEW may2 \in SUBSET Workers, NEW have \in SUBSET Workers,
           may2 \cap have = {},
           n <= Cardinality(have) + W * f
    PROVE  n + Cardinality(may2) <= W * (1 + f2)
  <1>1. /\ Cardinality(may2) \in Nat /\ Cardinality(have) \in Nat
        /\ W \in Nat /\ W >= 1 /\ W * f \in Nat /\ W * f2 \in Nat
    BY GroupFacts, WorkersFinite, FaultIsWorth
  <1>2. Cardinality(may2) + Cardinality(have) <= W
    BY Apart
  <1>3. W * f2 >= W * f /\ W * (1 + f2) = W + W * f2
    BY <1>1, FaultIsWorth
  <1> QED BY <1>1, <1>2, <1>3

\* The goroutines' lists.
LEMMA ListInvNext == TypeInv /\ ListInv /\ [Next]_vars => ListInv'
  <1> SUFFICES ASSUME TypeInv, ListInv, [Next]_vars, NEW v \in Workers
               PROVE  Listed(v)'
    BY DEF ListInv
  <1>0. /\ Listed(v)
        /\ \A e \in run[v].todo : e \in Charges \X Nat /\ e[1] # NoCharge
    BY NoChargeAssumption, RunType DEF ListInv, Run
  <1>1. CASE run'[v] = run[v]
    BY <1>0, <1>1 DEF Listed
  <1>2. CASE StartRun(v)
    BY <1>2, StartMoves, NoChargeAssumption DEF Listed, BeforePost
  <1>3. CASE GetCustomer(v)
    <2>1. PICK e \in run[v].todo :
            /\ run'[v].cur = e[1] /\ run'[v].todo = run[v].todo \ {e}
            /\ run[v].list = "charges" /\ run'[v].list = "charges"
      BY <1>3, GetMoves
    <2>2. \A f \in run[v].todo : f[2] = Null
      BY <1>0, <2>1 DEF Listed
    <2>3. ASSUME NEW f \in run[v].todo, f[1] = e[1] PROVE f = e
      BY <1>0, <2>1, <2>2, <2>3
    <2> QED BY <2>1, <2>2, <2>3 DEF Listed
  <1>4. CASE ListUnpaid(v)
    BY <1>4, ListMoves DEF Listed, BeforePost
  <1>5. CASE NextUnpaid(v)
    BY <1>5, NextMoves DEF Listed, BeforePost
  <1>6. CASE EndRun(v)
    BY <1>6, EndMoves DEF Listed, Idle, BeforePost
  <1>7. CASE Leave(v)
    BY <1>0, <1>7, LeaveMoves DEF Listed, SameList, BeforePost
  <1>8. ASSUME SameList(v), run'[v].cur = run[v].cur,
               run'[v].pc \in BeforePost \cup {"bookInvoice", "saveNumber"} =>
                   run[v].pc \in BeforePost \cup {"bookInvoice", "saveNumber"}
        PROVE  Listed(v)'
    BY <1>0, <1>8 DEF Listed, SameList
  <1>9. ASSUME NEW n, \/ /\ run[v].pc = "invoice"
                         /\ Becomes(v, [run[v] EXCEPT !.pc = "bookInvoice", !.inv = n])
                      \/ Becomes(v, [run[v] EXCEPT !.pc = "bookPayment", !.pay = n])
        PROVE  Listed(v)'
    BY <1>8, <1>9, PostInvoiceMoves, PostPaymentMoves DEF BeforePost
  <1>10. CASE Continue(v)
    <2>1. CASE PostCustomer(v) \/ SaveCustomer(v) \/ BookInvoice(v) \/ SaveNumber(v)
               \/ Created(v) \/ BookPayment(v) \/ SetPaid(v)
      BY <1>7, <1>8, <2>1, GotoMoves
         DEF PostCustomer, SaveCustomer, BookInvoice, SaveNumber, Created, BookPayment,
             SetPaid, InvoiceFails, GoesOn, BookInvoiceRejected, BookPaymentRejected,
             BeforePost
    <2>2. CASE PostInvoice(v) \/ PostPayment(v)
      BY <1>7, <1>9, <2>2 DEF PostInvoice, PostPayment, InvoiceFails
    <2> QED BY <1>3, <1>4, <1>5, <1>6, <1>10, <2>1, <2>2 DEF Continue
  <1>11. ASSUME NEW w \in Workers, StartRun(w) \/ Continue(w) PROVE Others(w)
    BY <1>11, OneStep
  <1>12. CASE Crash
    BY <1>12 DEF Crash, Listed, Idle, BeforePost
  <1>13. CASE (\E c \in Charges : StoreCharge(c) \/ StoreTxn(c)) \/ UNCHANGED vars
    BY <1>1, <1>13 DEF StoreCharge, StoreTxn, vars
  <1> QED BY <1>1, <1>2, <1>10, <1>11, <1>12, <1>13 DEF Next, Others

LEMMA FaultStep ==
    ASSUME TypeInv, [Next]_vars
    PROVE  faults \in Nat /\ faults' \in {faults, faults + 1}
  <1>1. NoFault \/ \E kind \in FaultKinds : Fault(kind)
    BY DEF Next, Continue, StartRun, GetCustomer, ListUnpaid, NextUnpaid, EndRun,
           PostCustomer, SaveCustomer, PostInvoice, BookInvoice, SaveNumber, Created,
           PostPayment, BookPayment, SetPaid, Crash, StoreCharge, StoreTxn, vars,
           NoFault, FaultKinds
  <1> QED BY <1>1 DEF NoFault, Fault, TypeInv, TypeOK

\* A step of goroutine w, seen from charge c.
LEMMA InvoiceCountKept ==
    ASSUME TypeInv, TypeInv', NEW c \in Charges, InvoiceCount(c),
           NEW w \in Workers, Others(w), faults' \in {faults, faults + 1},
           number[c] # Null => number'[c] # Null,
           number'[c] = Null =>
               Len(invoices'[c]) + In(w, HavePosted(c))
               <= Len(invoices[c]) + In(w, HavePosted(c)') + (faults' - faults),
           number[c] # Null =>
               Len(invoices'[c]) + In(w, MayPosters(c)')
               <= Len(invoices[c]) + In(w, MayPosters(c)) + (faults' - faults),
           number[c] = Null /\ number'[c] # Null =>
               /\ Len(invoices'[c]) = Len(invoices[c])
               /\ MayPosters(c)' \cap HavePosted(c) = {}
    PROVE  InvoiceCount(c)'
  <1>1. faults \in Nat /\ Len(invoices[c]) \in Nat /\ Len(invoices'[c]) \in Nat
    BY FortnoxFacts DEF TypeInv, TypeOK
  <1>2. \A v \in Workers : v # w =>
            /\ v \in MayPosters(c) <=> v \in MayPosters(c)'
            /\ v \in HavePosted(c) <=> v \in HavePosted(c)'
    BY DEF Others, MayPost, HasPosted, MayPosters, HavePosted
  <1>3. PICK may \in SUBSET Workers, may2 \in SUBSET Workers,
             have \in SUBSET Workers, have2 \in SUBSET Workers :
            /\ may = MayPosters(c) /\ may2 = MayPosters(c)'
            /\ have = HavePosted(c) /\ have2 = HavePosted(c)'
    BY DEF MayPosters, HavePosted
  <1>4. PICK n \in Nat, n2 \in Nat, f \in Nat, f2 \in Nat :
            /\ f2 \in {f, f + 1}
            /\ n = Len(invoices[c]) /\ n2 = Len(invoices'[c])
            /\ f = faults /\ f2 = faults'
    BY <1>1
  <1>5. \A v \in Workers : v # w => /\ v \in may <=> v \in may2
                                    /\ v \in have <=> v \in have2
    BY <1>2, <1>3
  <1>6. CASE number'[c] = Null
    <2>1. n <= Cardinality(have) + W * f
      BY <1>3, <1>4, <1>6 DEF InvoiceCount, Bounded
    <2>2. n2 + In(w, have) <= n + In(w, have2) + (f2 - f)
      BY <1>3, <1>4, <1>6
    <2>3. n2 <= Cardinality(have2) + W * f2
      BY <1>4, <1>5, <2>1, <2>2, BoundWhileOpen
    <2> QED BY <1>3, <1>4, <1>6, <2>3 DEF InvoiceCount, Bounded
  <1>7. CASE number[c] # Null
    <2>1. n + Cardinality(may) <= W * (1 + f)
      BY <1>3, <1>4, <1>7 DEF InvoiceCount, Bounded
    <2>2. n2 + In(w, may2) <= n + In(w, may) + (f2 - f)
      BY <1>3, <1>4, <1>7
    <2>3. n2 + Cardinality(may2) <= W * (1 + f2)
      <3>1. \A v \in Workers : v # w => (v \in may <=> v \in may2)
        BY <1>5
      <3>2. f2 \in {f, f + 1}
        BY <1>4
      <3> QED BY <2>1, <2>2, <3>1, <3>2, BoundOnceStored
    <2> QED BY <1>3, <1>4, <1>7, <2>3 DEF InvoiceCount, Bounded
  <1>8. CASE number[c] = Null /\ number'[c] # Null
    <2>1. n <= Cardinality(have) + W * f
      BY <1>3, <1>4, <1>8 DEF InvoiceCount, Bounded
    <2>2. n2 = n /\ may2 \cap have = {}
      BY <1>3, <1>4, <1>8
    <2>3. n + Cardinality(may2) <= W * (1 + f2)
      BY <1>4, <2>1, <2>2, BoundWhenStored
    <2> QED BY <1>3, <1>4, <1>8, <2>2, <2>3 DEF InvoiceCount, Bounded
  <1> QED BY <1>6, <1>7, <1>8

\* A step that gives c neither an invoice nor a number.
LEMMA InvoiceCountQuiet ==
    ASSUME TypeInv, TypeInv', NEW c \in Charges, InvoiceCount(c),
           NEW w \in Workers, Others(w), faults' \in {faults, faults + 1},
           Len(invoices'[c]) = Len(invoices[c]), number'[c] = number[c],
           \/ faults' = faults + 1
           \/ /\ HasPosted(w, c) => HasPosted(w, c)'
              /\ number[c] # Null /\ MayPost(w, c)' => MayPost(w, c)
    PROVE  InvoiceCount(c)'
  <1>1. faults \in Nat /\ Len(invoices[c]) \in Nat /\ Len(invoices'[c]) = Len(invoices[c])
    BY FortnoxFacts DEF TypeInv, TypeOK
  <1>2. /\ In(w, HavePosted(c)) \in {0, 1} /\ In(w, HavePosted(c)') \in {0, 1}
        /\ In(w, MayPosters(c)) \in {0, 1} /\ In(w, MayPosters(c)') \in {0, 1}
    BY DEF In
  <1>3. CASE faults' = faults + 1
    BY <1>1, <1>2, <1>3, InvoiceCountKept
  <1>4. CASE faults' # faults + 1
    <2>1. In(w, HavePosted(c)) <= In(w, HavePosted(c)')
      BY <1>4 DEF In, HavePosted
    <2>2. number[c] # Null => In(w, MayPosters(c)') <= In(w, MayPosters(c))
      BY <1>4 DEF In, MayPosters
    <2> QED BY <1>1, <1>2, <1>4, <2>1, <2>2, InvoiceCountKept
  <1> QED BY <1>3, <1>4

LEMMA InvoiceCountNext ==
    ASSUME TypeInv, BookedInv, ListInv, [Next]_vars, NEW c \in Charges, InvoiceCount(c)
    PROVE  InvoiceCount(c)'
  <1>0. /\ TypeInv'
        /\ faults \in Nat /\ faults' \in {faults, faults + 1}
        /\ number[c] # Null => number'[c] # Null
        /\ Len(invoices[c]) \in Nat
    BY TypeInvNext, FaultStep, KeepsNext, FortnoxFacts DEF Keeps
  <1> USE DEF stripe, columns, fortnox
  <1>1. ASSUME NEW w \in Workers, StartRun(w) PROVE InvoiceCount(c)'
    <2>1. ~HasPosted(w, c) /\ (number[c] # Null => ~MayPost(w, c)')
      <3>1. run[w].pc = "idle"
        BY <1>1 DEF StartRun, Idle
      <3>2. /\ run'[w].pc = "next"
            /\ \A e \in run'[w].todo : number[e[1]] = Null
        BY <1>1, StartMoves
      <3> QED BY <3>1, <3>2 DEF HasPosted, MayPost, BeforePost
    <2> QED BY <1>0, <1>1, <2>1, StartMoves, InvoiceCountQuiet DEF StartRun
  <1>2. ASSUME NEW w \in Workers, GetCustomer(w) PROVE InvoiceCount(c)'
    <2>1. ~HasPosted(w, c) /\ (MayPost(w, c)' => MayPost(w, c))
      BY <1>2, GetMoves DEF HasPosted, MayPost, GetCustomer
    <2> QED BY <1>0, <1>2, <2>1, GetMoves, InvoiceCountQuiet DEF GetCustomer
  <1>3. ASSUME NEW w \in Workers, ListUnpaid(w) PROVE InvoiceCount(c)'
    <2>1. ~HasPosted(w, c) /\ ~MayPost(w, c)'
      BY <1>3, ListMoves DEF HasPosted, MayPost, ListUnpaid, BeforePost
    <2> QED BY <1>0, <1>3, <2>1, ListMoves, InvoiceCountQuiet DEF ListUnpaid
  <1>4. ASSUME NEW w \in Workers, NextUnpaid(w) PROVE InvoiceCount(c)'
    <2>1. ~HasPosted(w, c) /\ ~MayPost(w, c)'
      BY <1>4, NextMoves DEF HasPosted, MayPost, NextUnpaid, BeforePost
    <2> QED BY <1>0, <1>4, <2>1, NextMoves, InvoiceCountQuiet DEF NextUnpaid
  <1>5. ASSUME NEW w \in Workers, EndRun(w) PROVE InvoiceCount(c)'
    <2>1. ~HasPosted(w, c) /\ ~MayPost(w, c)'
      <3>1. run'[w].pc = "idle" /\ run'[w].todo = {}
        BY <1>5, EndMoves DEF Idle
      <3>2. run[w].pc = "next"
        BY <1>5 DEF EndRun
      <3> QED BY <3>1, <3>2 DEF HasPosted, MayPost, BeforePost
    <2> QED BY <1>0, <1>5, <2>1, EndMoves, InvoiceCountQuiet DEF EndRun
  <1>6. ASSUME NEW w \in Workers, Leave(w),
               ~HasPosted(w, c) \/ faults' = faults + 1,
               UNCHANGED <<invoices, number>>
        PROVE  InvoiceCount(c)'
    <2>1. MayPost(w, c)' => MayPost(w, c)
      BY <1>6, LeaveMoves DEF MayPost, SameList, BeforePost
    <2> QED BY <1>0, <1>6, <2>1, LeaveMoves, InvoiceCountQuiet
  <1>7. ASSUME NEW w \in Workers, NEW pc \in PCs, Goto(w, pc),
               HasPosted(w, c) => pc \in {"bookInvoice", "saveNumber"},
               pc \in BeforePost => run[w].pc \in BeforePost,
               UNCHANGED <<invoices, number>>
        PROVE  InvoiceCount(c)'
    <2>1. MayPost(w, c)' => MayPost(w, c)
      BY <1>7, GotoMoves DEF MayPost, SameList
    <2>2. HasPosted(w, c) => HasPosted(w, c)'
      BY <1>7, GotoMoves DEF HasPosted
    <2> QED BY <1>0, <1>7, <2>1, <2>2, GotoMoves, InvoiceCountQuiet
  <1>8. ASSUME NEW w \in Workers, PostCustomer(w) PROVE InvoiceCount(c)'
    <2>1. ~HasPosted(w, c) /\ run[w].pc \in BeforePost /\ "saveCustomer" \in PCs
      BY <1>8 DEF PostCustomer, HasPosted, BeforePost, PCs
    <2> QED BY <1>6, <1>7, <1>8, <2>1 DEF PostCustomer, GoesOn, InvoiceFails
  <1>9. ASSUME NEW w \in Workers, SaveCustomer(w) PROVE InvoiceCount(c)'
    <2>1. ~HasPosted(w, c) /\ run[w].pc \in BeforePost /\ "invoice" \in PCs
      BY <1>9 DEF SaveCustomer, HasPosted, BeforePost, PCs
    <2> QED BY <1>6, <1>7, <1>9, <2>1 DEF SaveCustomer, GoesOn, InvoiceFails
  <1>10. ASSUME NEW w \in Workers, PostInvoice(w) PROVE InvoiceCount(c)'
    <2>1. PICK d \in Charges : d = run[w].cur
      BY <1>10, RunType DEF PostInvoice, Working, PCs
    <2>2. /\ run[w].pc = "invoice" /\ run[w].list = "charges" /\ ~HasPosted(w, c)
          /\ \A e \in run[w].todo : e[1] # d
          /\ UNCHANGED number
      BY <1>10, <2>1 DEF PostInvoice, HasPosted, ListInv, Listed, BeforePost
    <2>3. CASE UNCHANGED invoices
      <3>1. invoices' # [invoices EXCEPT ![d] = Append(@, [booked |-> FALSE])]
        BY <2>3, InvoiceNotNew
      <3>2. Leave(w)
        BY <1>10, <2>1, <3>1 DEF PostInvoice, InvoiceFails
      <3> QED BY <1>6, <2>2, <2>3, <3>2
    <2>4. CASE invoices' = [invoices EXCEPT ![d] = Append(@, [booked |-> FALSE])]
      <3>1. /\ Len(invoices'[d]) = Len(invoices[d]) + 1
            /\ c # d => invoices'[c] = invoices[c]
        BY <2>4, NewInvoice
      <3>2. \/ /\ Becomes(w, [run[w] EXCEPT !.pc = "bookInvoice",
                                            !.inv = Len(invoices[d]) + 1])
               /\ faults' = faults
            \/ Leave(w) /\ faults' = faults + 1
        BY <1>10, <2>1, <2>4, InvoiceNotNew DEF PostInvoice, InvoiceFails, Fault, NoFault
      <3>3. /\ Others(w) /\ SameList(w)
            /\ \/ run'[w].pc = "bookInvoice" /\ run'[w].cur = d /\ faults' = faults
               \/ run'[w].pc = "next" /\ faults' = faults + 1
        BY <2>1, <3>2, PostInvoiceMoves, LeaveMoves
      <3>4. CASE c # d
        <4>1. MayPost(w, c)' => MayPost(w, c)
          BY <2>1, <3>3, <3>4 DEF MayPost, SameList, BeforePost
        <4> QED BY <1>0, <2>2, <3>1, <3>3, <3>4, <4>1, InvoiceCountQuiet
      <3>5. CASE c = d
        <4>1. MayPost(w, c) /\ ~MayPost(w, c)'
          BY <2>1, <2>2, <3>3, <3>5 DEF MayPost, SameList, BeforePost
        <4>2. In(w, MayPosters(c)) = 1 /\ In(w, MayPosters(c)') = 0
          BY <4>1 DEF In, MayPosters
        <4>3. HasPosted(w, c)' <=> faults' = faults
          BY <1>0, <3>3, <3>5 DEF HasPosted
        <4>4. In(w, HavePosted(c)) = 0 /\ In(w, HavePosted(c)') = 1 - (faults' - faults)
          BY <1>0, <2>2, <4>3 DEF In, HavePosted
        <4>5. /\ number'[c] = number[c]
              /\ Len(invoices'[c]) = Len(invoices[c]) + 1
          BY <2>2, <3>1, <3>5
        <4> QED BY <1>0, <3>3, <4>2, <4>4, <4>5, InvoiceCountKept
      <3> QED BY <3>4, <3>5
    <2> QED BY <1>10, <2>1, <2>3, <2>4 DEF PostInvoice
  <1>11. ASSUME NEW w \in Workers, BookInvoice(w) PROVE InvoiceCount(c)'
    <2>1. /\ run[w].cur \in Charges /\ run[w].inv \in DOMAIN invoices[run[w].cur]
          /\ UNCHANGED number
      BY <1>11, RunType DEF BookInvoice, Working, PCs, BookedInv, InHand
    <2>2. Len(invoices'[c]) = Len(invoices[c])
      BY <1>11, <2>1, InvoiceBooked DEF BookInvoice
    <2>3. \/ Leave(w) /\ faults' = faults + 1
          \/ Goto(w, "saveNumber")
      BY <1>11 DEF BookInvoice, BookInvoiceRejected, InvoiceFails, GoesOn, Fault
    <2>4. /\ Others(w) /\ SameList(w)
          /\ run'[w].pc \in {"next", "saveNumber"}
          /\ faults' = faults + 1 \/ (HasPosted(w, c) => HasPosted(w, c)')
      BY <2>3, LeaveMoves, GotoMoves DEF HasPosted
    <2>5. MayPost(w, c)' => MayPost(w, c)
      BY <2>4 DEF MayPost, SameList, BeforePost
    <2> QED BY <1>0, <2>1, <2>2, <2>4, <2>5, InvoiceCountQuiet
  <1>12. ASSUME NEW w \in Workers, SaveNumber(w) PROVE InvoiceCount(c)'
    <2>1. PICK d \in Charges : d = run[w].cur
      BY <1>12, RunType DEF SaveNumber, Working, PCs
    <2>2. /\ run[w].pc = "saveNumber" /\ run[w].list = "charges"
          /\ \A e \in run[w].todo : e[1] # d
          /\ UNCHANGED invoices
      BY <1>12, <2>1 DEF SaveNumber, ListInv, Listed
    <2>3. CASE Leave(w) /\ faults' = faults + 1 /\ UNCHANGED number
      BY <1>6, <2>2, <2>3
    <2>4. CASE Goto(w, "created") /\ SetNumber(d, run[w].inv)
      <3>1. /\ Others(w) /\ SameList(w)
            /\ run'[w].pc = "created" /\ run'[w].cur = d
        BY <2>1, <2>4, GotoMoves
      <3>2. MayPost(w, c)' => MayPost(w, c)
        BY <3>1 DEF MayPost, SameList, BeforePost
      <3>3. CASE c # d
        <4>1. number'[c] = number[c]
          BY <2>4, <3>3 DEF SetNumber, TypeInv, TypeOK
        <4>2. ~HasPosted(w, c)
          BY <2>1, <3>3 DEF HasPosted
        <4> QED BY <1>0, <2>2, <3>1, <3>2, <4>1, <4>2, InvoiceCountQuiet
      <3>4. CASE c = d
        <4>1. number'[c] # Null
          <5>1. run[w].inv # Null
            BY <1>12, <2>1, FortnoxFacts DEF SaveNumber, BookedInv, InHand, IsBooked, Null
          <5>2. number' = [number EXCEPT ![c] = run[w].inv] /\ number \in [Charges -> Nat]
            BY <2>4, <3>4 DEF SetNumber, TypeInv, TypeOK
          <5> QED BY <5>1, <5>2
        <4>2. ~MayPost(w, c)'
          BY <2>2, <3>1, <3>4 DEF MayPost, SameList, BeforePost
        <4>3. ASSUME NEW v \in Workers, HasPosted(v, c), v # w PROVE ~MayPost(v, c)'
          <5>1. run'[v] = run[v]
            BY <3>1, <4>3 DEF Others
          <5>2. ~MayPost(v, c)
            BY <4>3 DEF HasPosted, MayPost, ListInv, Listed, BeforePost
          <5> QED BY <5>1, <5>2 DEF MayPost
        <4>4. MayPosters(c)' \cap HavePosted(c) = {}
          BY <4>2, <4>3 DEF MayPosters, HavePosted
        <4>5. In(w, MayPosters(c)') = 0 /\ In(w, MayPosters(c)) \in Nat
          BY <4>2 DEF In, MayPosters
        <4> QED BY <1>0, <2>2, <3>1, <4>1, <4>4, <4>5, InvoiceCountKept
      <3> QED BY <3>3, <3>4
    <2> QED BY <1>12, <2>1, <2>3, <2>4 DEF SaveNumber, GoesOn, InvoiceFails, Fault
  <1>13. ASSUME NEW w \in Workers, Created(w) \/ SetPaid(w) \/ BookPayment(w)
         PROVE  InvoiceCount(c)'
    <2>1. /\ ~HasPosted(w, c) /\ "payment" \in PCs /\ "setPaid" \in PCs
          /\ UNCHANGED <<invoices, number>>
          /\ "payment" \notin BeforePost /\ "setPaid" \notin BeforePost
      BY <1>13 DEF Created, SetPaid, BookPayment, HasPosted, PCs, BeforePost
    <2>2. Leave(w) \/ Goto(w, "payment") \/ Goto(w, "setPaid")
      BY <1>13 DEF Created, SetPaid, BookPayment, BookPaymentRejected
    <2> QED BY <1>6, <1>7, <2>1, <2>2
  <1>14. ASSUME NEW w \in Workers, PostPayment(w) PROVE InvoiceCount(c)'
    <2>1. ~HasPosted(w, c) /\ UNCHANGED <<invoices, number>>
      BY <1>14 DEF PostPayment, HasPosted
    <2>2. CASE Leave(w)
      BY <1>6, <2>1, <2>2
    <2>3. ASSUME NEW p, Becomes(w, [run[w] EXCEPT !.pc = "bookPayment", !.pay = p])
          PROVE  InvoiceCount(c)'
      <3>1. /\ Others(w) /\ SameList(w) /\ run'[w].pc = "bookPayment"
        BY <2>3, PostPaymentMoves
      <3>2. MayPost(w, c)' => MayPost(w, c)
        BY <3>1 DEF MayPost, SameList, BeforePost
      <3> QED BY <1>0, <2>1, <3>1, <3>2, InvoiceCountQuiet
    <2> QED BY <1>14, <2>2, <2>3 DEF PostPayment
  <1>15. CASE Crash
    <2>1. /\ UNCHANGED <<invoices, number>> /\ faults' = faults + 1
          /\ \A v \in Workers : run'[v] = Idle
      BY <1>15 DEF Crash, Fault
    <2>2. MayPosters(c)' = {} /\ HavePosted(c)' = {}
      BY <2>1 DEF MayPosters, HavePosted, MayPost, HasPosted, Idle, BeforePost
    <2>3. /\ Cardinality(MayPosters(c)') = 0 /\ Cardinality(HavePosted(c)') = 0
      BY <2>2, FS_EmptySet
    <2>4. /\ Cardinality(MayPosters(c)) \in Nat
          /\ Cardinality(HavePosted(c)) \in Nat /\ Cardinality(HavePosted(c)) <= W
      BY GroupFacts DEF MayPosters, HavePosted
    <2>5. /\ W \in Nat /\ W * faults \in Nat
          /\ W * (1 + faults) = W + W * faults
          /\ W * (faults + 1) = W + W * faults
          /\ W * (1 + (faults + 1)) = W + W + W * faults
      BY <1>0, WorkersFinite, FaultIsWorth
    <2> QED BY <1>0, <2>1, <2>3, <2>4, <2>5 DEF InvoiceCount, Bounded
  <1>16. CASE (\E d \in Charges : StoreCharge(d) \/ StoreTxn(d)) \/ UNCHANGED vars
    <2>1. UNCHANGED <<invoices, number, run, faults>>
      BY <1>16 DEF StoreCharge, StoreTxn, NoFault, vars
    <2> QED BY <2>1 DEF InvoiceCount, Bounded, MayPosters, HavePosted, MayPost, HasPosted
  <1> QED
    BY <1>1, <1>2, <1>3, <1>4, <1>5, <1>8, <1>9, <1>10, <1>11,
       <1>12, <1>13, <1>14, <1>15, <1>16 DEF Next, Continue

\* The same for the records of a customer.
LEMMA CustomerCountKept ==
    ASSUME TypeInv, TypeInv', NEW k \in Customers, CustomerCount(k),
           NEW w \in Workers, Others(w), faults' \in {faults, faults + 1},
           k \in custNo => k \in custNo',
           k \notin custNo' =>
               customers'[k] + In(w, HaveCreated(k))
               <= customers[k] + In(w, HaveCreated(k)') + (faults' - faults),
           k \in custNo =>
               customers'[k] + In(w, MayCreate(k)')
               <= customers[k] + In(w, MayCreate(k)) + (faults' - faults),
           k \notin custNo /\ k \in custNo' =>
               /\ customers'[k] = customers[k]
               /\ MayCreate(k)' \cap HaveCreated(k) = {}
    PROVE  CustomerCount(k)'
  <1>1. faults \in Nat /\ customers[k] \in Nat /\ customers'[k] \in Nat
    BY DEF TypeInv, TypeOK
  <1>2. \A v \in Workers : v # w =>
            /\ v \in MayCreate(k) <=> v \in MayCreate(k)'
            /\ v \in HaveCreated(k) <=> v \in HaveCreated(k)'
    BY DEF Others, MayCreate, HaveCreated
  <1>3. PICK may \in SUBSET Workers, may2 \in SUBSET Workers,
             have \in SUBSET Workers, have2 \in SUBSET Workers :
            /\ may = MayCreate(k) /\ may2 = MayCreate(k)'
            /\ have = HaveCreated(k) /\ have2 = HaveCreated(k)'
    BY DEF MayCreate, HaveCreated
  <1>4. PICK n \in Nat, n2 \in Nat, f \in Nat, f2 \in Nat :
            /\ f2 \in {f, f + 1}
            /\ n = customers[k] /\ n2 = customers'[k]
            /\ f = faults /\ f2 = faults'
    BY <1>1
  <1>5. \A v \in Workers : v # w => /\ v \in may <=> v \in may2
                                    /\ v \in have <=> v \in have2
    BY <1>2, <1>3
  <1>6. CASE k \notin custNo'
    <2>1. n <= Cardinality(have) + W * f
      BY <1>3, <1>4, <1>6 DEF CustomerCount, Bounded
    <2>2. n2 + In(w, have) <= n + In(w, have2) + (f2 - f)
      BY <1>3, <1>4, <1>6
    <2>3. n2 <= Cardinality(have2) + W * f2
      BY <1>4, <1>5, <2>1, <2>2, BoundWhileOpen
    <2> QED BY <1>3, <1>4, <1>6, <2>3 DEF CustomerCount, Bounded
  <1>7. CASE k \in custNo
    <2>1. n + Cardinality(may) <= W * (1 + f)
      BY <1>3, <1>4, <1>7 DEF CustomerCount, Bounded
    <2>2. n2 + In(w, may2) <= n + In(w, may) + (f2 - f)
      BY <1>3, <1>4, <1>7
    <2>3. n2 + Cardinality(may2) <= W * (1 + f2)
      <3>1. \A v \in Workers : v # w => (v \in may <=> v \in may2)
        BY <1>5
      <3>2. f2 \in {f, f + 1}
        BY <1>4
      <3> QED BY <2>1, <2>2, <3>1, <3>2, BoundOnceStored
    <2> QED BY <1>3, <1>4, <1>7, <2>3 DEF CustomerCount, Bounded
  <1>8. CASE k \notin custNo /\ k \in custNo'
    <2>1. n <= Cardinality(have) + W * f
      BY <1>3, <1>4, <1>8 DEF CustomerCount, Bounded
    <2>2. n2 = n /\ may2 \cap have = {}
      BY <1>3, <1>4, <1>8
    <2>3. n + Cardinality(may2) <= W * (1 + f2)
      BY <1>4, <2>1, <2>2, BoundWhenStored
    <2> QED BY <1>3, <1>4, <1>8, <2>2, <2>3 DEF CustomerCount, Bounded
  <1> QED BY <1>6, <1>7, <1>8

LEMMA CustomerCountQuiet ==
    ASSUME TypeInv, TypeInv', NEW k \in Customers, CustomerCount(k),
           NEW w \in Workers, Others(w), faults' \in {faults, faults + 1},
           customers'[k] = customers[k], k \in custNo' <=> k \in custNo,
           \/ faults' = faults + 1
           \/ /\ w \in HaveCreated(k) => w \in HaveCreated(k)'
              /\ k \in custNo /\ w \in MayCreate(k)' => w \in MayCreate(k)
    PROVE  CustomerCount(k)'
  <1>1. faults \in Nat /\ customers[k] \in Nat
    BY DEF TypeInv, TypeOK
  <1>2. /\ In(w, HaveCreated(k)) \in {0, 1} /\ In(w, HaveCreated(k)') \in {0, 1}
        /\ In(w, MayCreate(k)) \in {0, 1} /\ In(w, MayCreate(k)') \in {0, 1}
    BY DEF In
  <1>3. CASE faults' = faults + 1
    BY <1>1, <1>2, <1>3, CustomerCountKept
  <1>4. CASE faults' # faults + 1
    <2>1. In(w, HaveCreated(k)) <= In(w, HaveCreated(k)')
      BY <1>4 DEF In
    <2>2. k \in custNo => In(w, MayCreate(k)') <= In(w, MayCreate(k))
      BY <1>4 DEF In
    <2> QED BY <1>1, <1>2, <1>4, <2>1, <2>2, CustomerCountKept
  <1> QED BY <1>3, <1>4

\* The steps that have nothing to do with customers.
LEMMA NoCustomerStep ==
    ASSUME TypeInv, NEW w \in Workers, StartRun(w) \/ Continue(w),
           ~GetCustomer(w), ~PostCustomer(w), ~SaveCustomer(w)
    PROVE  /\ UNCHANGED <<customers, custNo>>
           /\ run[w].pc \notin {"customer", "saveCustomer"}
           /\ run'[w].pc \notin {"customer", "saveCustomer"}
  <1> USE DEF columns, fortnox
  <1>1. CASE StartRun(w)
    <2>1. run[w].pc = "idle" /\ UNCHANGED <<customers, custNo>>
      BY <1>1 DEF StartRun, Idle
    <2> QED BY <1>1, <2>1, StartMoves
  <1>2. CASE ListUnpaid(w) \/ NextUnpaid(w)
    BY <1>2, ListMoves, NextMoves DEF ListUnpaid, NextUnpaid
  <1>3. CASE EndRun(w)
    <2>1. run'[w].pc = "idle"
      BY <1>3, EndMoves DEF Idle
    <2> QED BY <1>3, <2>1 DEF EndRun
  <1>4. CASE BookInvoice(w) \/ SaveNumber(w) \/ Created(w) \/ BookPayment(w) \/ SetPaid(w)
    BY <1>4, GotoMoves, LeaveMoves
       DEF BookInvoice, SaveNumber, Created, BookPayment, SetPaid, InvoiceFails, GoesOn,
           BookInvoiceRejected, BookPaymentRejected
  <1>5. CASE PostInvoice(w) \/ PostPayment(w)
    BY <1>5, LeaveMoves, PostInvoiceMoves, PostPaymentMoves
       DEF PostInvoice, PostPayment, InvoiceFails
  <1> QED BY <1>1, <1>2, <1>3, <1>4, <1>5 DEF Continue

LEMMA CustomerCountNext ==
    ASSUME TypeInv, [Next]_vars, NEW k \in Customers, CustomerCount(k)
    PROVE  CustomerCount(k)'
  <1>0. /\ TypeInv'
        /\ faults \in Nat /\ faults' \in {faults, faults + 1}
        /\ k # NoCustomer /\ customers[k] \in Nat
        /\ custNo \subseteq Customers
        /\ customers \in [Customers \cup {NoCustomer} -> Nat]
    BY TypeInvNext, FaultStep, CustomersAssumption DEF TypeInv, TypeOK
  <1> USE DEF stripe, columns, fortnox
  <1>1. ASSUME NEW w \in Workers, GetCustomer(w) PROVE CustomerCount(k)'
    <2>1. /\ w \notin HaveCreated(k) /\ Others(w)
          /\ k \in custNo /\ w \in MayCreate(k)' => faults' = faults + 1
          /\ UNCHANGED <<customers, custNo>>
      BY <1>1, GetMoves DEF GetCustomer, HaveCreated, MayCreate
    <2> QED BY <1>0, <2>1, CustomerCountQuiet
  <1>2. ASSUME NEW w \in Workers, PostCustomer(w) PROVE CustomerCount(k)'
    <2>1. PICK d \in Customers \cup {NoCustomer} : d = CustomerOf[run[w].cur]
      BY <1>2, RunType, CustomersAssumption DEF PostCustomer, Working, PCs
    <2>2. /\ run[w].pc = "customer" /\ UNCHANGED custNo
          /\ w \notin HaveCreated(k)
      BY <1>2 DEF PostCustomer, HaveCreated
    <2>3. /\ Others(w)
          /\ \/ /\ run'[w].pc = "saveCustomer" /\ run'[w].cur = run[w].cur
                /\ faults' = faults
                /\ customers' = [customers EXCEPT ![d] = @ + 1]
             \/ /\ run'[w].pc = "next" /\ faults' = faults + 1
                /\ \/ customers' = [customers EXCEPT ![d] = @ + 1]
                   \/ customers' = customers
      BY <1>2, <2>1, GotoMoves, LeaveMoves
         DEF PostCustomer, GoesOn, InvoiceFails, NoFault, Fault
    <2>4. w \notin MayCreate(k)'
      BY <2>3 DEF MayCreate
    <2>5. CASE d # k \/ customers' = customers
      <3>1. customers'[k] = customers[k]
        BY <1>0, <2>3, <2>5
      <3> QED BY <1>0, <2>2, <2>3, <2>4, <3>1, CustomerCountQuiet
    <2>6. CASE d = k /\ customers' = [customers EXCEPT ![d] = @ + 1]
      <3>1. customers'[k] = customers[k] + 1
        BY <1>0, <2>6
      <3>2. In(w, MayCreate(k)) = 1 /\ In(w, MayCreate(k)') = 0
        BY <2>1, <2>2, <2>4, <2>6 DEF In, MayCreate
      <3>3. w \in HaveCreated(k)' <=> faults' = faults
        <4>1. \/ run'[w].pc = "saveCustomer" /\ run'[w].cur = run[w].cur /\ faults' = faults
              \/ run'[w].pc = "next" /\ faults' = faults + 1
          BY <2>3
        <4>2. w \in HaveCreated(k)'
              <=> run'[w].pc = "saveCustomer" /\ CustomerOf[run'[w].cur] = k
          BY DEF HaveCreated
        <4>3. CustomerOf[run[w].cur] = k
          BY <2>1, <2>6
        <4> QED BY <1>0, <4>1, <4>2, <4>3
      <3>4. In(w, HaveCreated(k)) = 0 /\ In(w, HaveCreated(k)') = 1 - (faults' - faults)
        BY <1>0, <2>2, <3>3 DEF In
      <3> QED BY <1>0, <2>2, <2>3, <3>1, <3>2, <3>4, CustomerCountKept
    <2> QED BY <2>3, <2>5, <2>6
  <1>3. ASSUME NEW w \in Workers, SaveCustomer(w) PROVE CustomerCount(k)'
    <2>1. /\ run[w].pc = "saveCustomer" /\ UNCHANGED customers
          /\ w \notin MayCreate(k)
      BY <1>3 DEF SaveCustomer, MayCreate
    <2>2. /\ Others(w)
          /\ \/ run'[w].pc = "invoice" /\ SetCustomer(CustomerOf[run[w].cur])
             \/ run'[w].pc = "next" /\ faults' = faults + 1 /\ UNCHANGED custNo
      BY <1>3, GotoMoves, LeaveMoves
         DEF SaveCustomer, GoesOn, InvoiceFails, Fault
    <2>3. w \notin MayCreate(k)' /\ w \notin HaveCreated(k)'
      BY <2>2 DEF MayCreate, HaveCreated
    <2>4. CASE UNCHANGED custNo /\ faults' = faults + 1
      BY <1>0, <2>1, <2>2, <2>4, CustomerCountQuiet
    <2>5. CASE SetCustomer(CustomerOf[run[w].cur]) /\ w \notin HaveCreated(k)
      <3>1. k \in custNo' <=> k \in custNo
        BY <2>1, <2>5 DEF SetCustomer, HaveCreated
      <3> QED BY <1>0, <2>1, <2>2, <2>3, <2>5, <3>1, CustomerCountQuiet
    <2>6. CASE SetCustomer(CustomerOf[run[w].cur]) /\ w \in HaveCreated(k)
      <3>1. k \in custNo'
        BY <1>0, <2>6 DEF SetCustomer, HaveCreated
      <3>2. MayCreate(k)' \cap HaveCreated(k) = {}
        BY <2>2, <2>3 DEF MayCreate, HaveCreated, Others
      <3>3. In(w, MayCreate(k)') = 0 /\ In(w, MayCreate(k)) = 0
        BY <2>1, <2>3 DEF In
      <3> QED BY <1>0, <2>1, <2>2, <3>1, <3>2, <3>3, CustomerCountKept
    <2> QED BY <2>2, <2>4, <2>5, <2>6
  <1>4. ASSUME NEW w \in Workers, StartRun(w) \/ Continue(w),
               ~GetCustomer(w), ~PostCustomer(w), ~SaveCustomer(w)
        PROVE  CustomerCount(k)'
    <2>1. /\ UNCHANGED <<customers, custNo>>
          /\ w \notin HaveCreated(k) /\ w \notin MayCreate(k)'
      BY <1>4, NoCustomerStep DEF HaveCreated, MayCreate
    <2> QED BY <1>0, <1>4, <2>1, OneStep, CustomerCountQuiet
  <1>5. CASE Crash
    <2>1. /\ UNCHANGED <<customers, custNo>> /\ faults' = faults + 1
          /\ \A v \in Workers : run'[v] = Idle
      BY <1>5 DEF Crash, Fault
    <2>2. MayCreate(k)' = {} /\ HaveCreated(k)' = {}
      BY <2>1 DEF MayCreate, HaveCreated, Idle
    <2>3. /\ Cardinality(MayCreate(k)') = 0 /\ Cardinality(HaveCreated(k)') = 0
      BY <2>2, FS_EmptySet
    <2>4. /\ Cardinality(MayCreate(k)) \in Nat
          /\ Cardinality(HaveCreated(k)) \in Nat /\ Cardinality(HaveCreated(k)) <= W
      BY GroupFacts DEF MayCreate, HaveCreated
    <2>5. /\ W \in Nat /\ W * faults \in Nat
          /\ W * (1 + faults) = W + W * faults
          /\ W * (faults + 1) = W + W * faults
          /\ W * (1 + (faults + 1)) = W + W + W * faults
      BY <1>0, WorkersFinite, FaultIsWorth
    <2> QED BY <1>0, <2>1, <2>3, <2>4, <2>5 DEF CustomerCount, Bounded
  <1>6. CASE (\E d \in Charges : StoreCharge(d) \/ StoreTxn(d)) \/ UNCHANGED vars
    <2>1. UNCHANGED <<customers, custNo, run, faults>>
      BY <1>6 DEF StoreCharge, StoreTxn, NoFault, vars
    <2> QED BY <2>1 DEF CustomerCount, Bounded, MayCreate, HaveCreated
  <1> QED BY <1>1, <1>2, <1>3, <1>4, <1>5, <1>6 DEF Next

LEMMA CountInvInit == Init => CountInv
  <1> SUFFICES ASSUME Init PROVE CountInv
    OBVIOUS
  <1>1. ListInv
    BY DEF Init, ListInv, Listed, Idle, BeforePost
  <1>2. faults = 0 /\ W * 0 = 0
    BY WorkersFinite DEF Init
  <1>3. ASSUME NEW c \in Charges PROVE InvoiceCount(c)
    <2>1. number[c] = Null /\ Len(invoices[c]) = 0
      BY DEF Init
    <2>2. Cardinality(HavePosted(c)) \in Nat
      BY GroupFacts DEF HavePosted
    <2> QED BY <1>2, <2>1, <2>2 DEF InvoiceCount, Bounded
  <1>4. ASSUME NEW k \in Customers PROVE CustomerCount(k)
    <2>1. k \notin custNo /\ customers[k] = 0
      BY DEF Init
    <2>2. Cardinality(HaveCreated(k)) \in Nat
      BY GroupFacts DEF HaveCreated
    <2> QED BY <1>2, <2>1, <2>2 DEF CustomerCount, Bounded
  <1> QED BY <1>1, <1>3, <1>4 DEF CountInv

LEMMA CountInvNext == TypeInv /\ BookedInv /\ CountInv /\ [Next]_vars => CountInv'
  BY ListInvNext, InvoiceCountNext, CustomerCountNext DEF CountInv

LEMMA CountBounds == TypeInv /\ CountInv => RepeatsBounded
  <1> SUFFICES ASSUME TypeInv, CountInv PROVE RepeatsBounded
    OBVIOUS
  <1>1. /\ W \in Nat /\ faults \in Nat /\ W * faults \in Nat
        /\ W * (1 + faults) = W + W * faults
    BY WorkersFinite, FaultIsWorth DEF TypeInv, TypeOK
  <1>2. ASSUME NEW c \in Charges PROVE Len(invoices[c]) <= W * (1 + faults)
    <2>1. /\ Cardinality(HavePosted(c)) <= W /\ Cardinality(HavePosted(c)) \in Nat
          /\ Cardinality(MayPosters(c)) \in Nat /\ Len(invoices[c]) \in Nat
      BY GroupFacts, FortnoxFacts DEF HavePosted, MayPosters
    <2> QED BY <1>1, <2>1 DEF CountInv, InvoiceCount, Bounded
  <1>3. ASSUME NEW k \in Customers PROVE customers[k] <= W * (1 + faults)
    <2>1. /\ Cardinality(HaveCreated(k)) <= W /\ Cardinality(HaveCreated(k)) \in Nat
          /\ Cardinality(MayCreate(k)) \in Nat /\ customers[k] \in Nat
      BY GroupFacts DEF HaveCreated, MayCreate, TypeInv, TypeOK
    <2> QED BY <1>1, <2>1 DEF CountInv, CustomerCount, Bounded
  <1> QED BY <1>2, <1>3 DEF RepeatsBounded, W

\* A charge has at most as many invoices, a customer at most as many records
\* as there are goroutines, once and once more for each fault, for any
\* goroutines and faults (queries.sql.go:309, invoice.go:84).
THEOREM RepeatsAreBounded == Spec => []RepeatsBounded
  <1>1. Init => TypeInv /\ BookedInv /\ CountInv
    BY TypeInvInit, BookedInvInit, CountInvInit
  <1>2. TypeInv /\ BookedInv /\ CountInv /\ [Next]_vars
        => (TypeInv /\ BookedInv /\ CountInv)'
    BY TypeInvNext, BookedInvNext, CountInvNext
  <1> QED BY <1>1, <1>2, CountBounds, PTL DEF Spec

-----------------------------------------------------------------------------
(* The scheduler alone *)

LEMMA AloneInvInit == Init => AloneInv
  BY DEF Init, AloneInv, PaymentsOfNumber, Idle, BeforePost, Workers, Null

\* A step that changes neither a number nor a payment.
LEMMA AloneQuiet ==
    ASSUME AloneInv, UNCHANGED <<number, payments>>,
           run'[Scheduler].pc \in BeforePost \cup {"bookInvoice", "saveNumber"} =>
               number[run'[Scheduler].cur] = Null,
           run'[Scheduler].pc \in {"created", "payment"} =>
               run'[Scheduler].inv = number[run'[Scheduler].cur],
           \A e \in run'[Scheduler].todo : e[2] = number[e[1]]
    PROVE  AloneInv'
  BY DEF AloneInv, PaymentsOfNumber

\* The scheduler leaves its charge, or goes on with it.
LEMMA AloneLeaves ==
    ASSUME TypeInv, AloneInv, UNCHANGED <<number, payments>>, Leave(Scheduler)
    PROVE  AloneInv'
  <1>1. Scheduler \in Workers
    BY DEF Workers
  <1>2. run'[Scheduler].pc = "next" /\ SameList(Scheduler)
    BY <1>1, LeaveMoves
  <1> QED BY <1>2, AloneQuiet DEF AloneInv, SameList, BeforePost

LEMMA AloneGoes ==
    ASSUME TypeInv, AloneInv, UNCHANGED <<number, payments>>,
           SameList(Scheduler), run'[Scheduler].cur = run[Scheduler].cur,
           run'[Scheduler].pc \in BeforePost \cup {"bookInvoice", "saveNumber"} =>
               run[Scheduler].pc \in BeforePost \cup {"bookInvoice", "saveNumber"},
           run'[Scheduler].pc \in {"created", "payment"} =>
               /\ run[Scheduler].pc \in {"created", "payment"}
               /\ run'[Scheduler].inv = run[Scheduler].inv
    PROVE  AloneInv'
  BY AloneQuiet DEF AloneInv, SameList

LEMMA AloneInvNext ==
    ASSUME Triggers = {}, TypeInv, BookedInv, ListInv, AloneInv, [Next]_vars
    PROVE  AloneInv'
  <1> DEFINE r == run[Scheduler]
  <1>0. /\ Workers = {Scheduler}
        /\ r \in Run /\ (r.pc \in Working => r.cur \in Charges)
        /\ InHand(Scheduler) /\ Listed(Scheduler)
    BY RunType DEF Workers, BookedInv, ListInv
  <1>a. /\ r.pc \in BeforePost \cup {"bookInvoice", "saveNumber"} => number[r.cur] = Null
        /\ r.pc \in {"created", "payment"} => r.inv = number[r.cur]
        /\ \A e \in r.todo : e[2] = number[e[1]]
    BY DEF AloneInv
  <1>b. /\ \A c \in Charges : number[c] = Null => payments[c] = <<>>
        /\ PaymentsOfNumber
        /\ number \in [Charges -> Nat]
    BY DEF AloneInv, TypeInv, TypeOK
  <1> USE DEF stripe, columns, fortnox
  <1>1. CASE StartRun(Scheduler)
    <2>1. /\ UNCHANGED <<number, payments>> /\ run'[Scheduler].pc = "next"
          /\ \A e \in run'[Scheduler].todo : e[2] = number[e[1]]
      BY <1>0, <1>1, StartMoves DEF StartRun
    <2> QED BY <2>1, AloneQuiet DEF BeforePost
  <1>2. CASE GetCustomer(Scheduler)
    <2>1. PICK e \in r.todo :
            /\ run'[Scheduler].cur = e[1] /\ run'[Scheduler].todo = r.todo \ {e}
            /\ r.list = "charges"
            /\ run'[Scheduler].pc \in {"invoice", "customer"}
      BY <1>0, <1>2, GetMoves
    <2>2. UNCHANGED <<number, payments>> /\ number[e[1]] = Null
      BY <1>0, <1>a, <1>2, <2>1 DEF GetCustomer, Listed
    <2> QED BY <1>a, <2>1, <2>2, AloneQuiet
  <1>3. CASE ListUnpaid(Scheduler)
    <2>1. /\ UNCHANGED <<number, payments>> /\ run'[Scheduler].pc = "next"
          /\ \A e \in run'[Scheduler].todo : e[2] = number[e[1]]
      BY <1>0, <1>3, ListMoves DEF ListUnpaid
    <2> QED BY <2>1, AloneQuiet DEF BeforePost
  <1>4. CASE NextUnpaid(Scheduler)
    <2>1. PICK e \in r.todo :
            /\ run'[Scheduler].cur = e[1] /\ run'[Scheduler].inv = e[2]
            /\ run'[Scheduler].todo = r.todo \ {e}
            /\ run'[Scheduler].pc = "payment"
      BY <1>0, <1>4, NextMoves
    <2>2. UNCHANGED <<number, payments>>
      BY <1>4 DEF NextUnpaid
    <2> QED BY <1>a, <2>1, <2>2, AloneQuiet DEF BeforePost
  <1>5. CASE EndRun(Scheduler) \/ Crash
    <2>1. UNCHANGED <<number, payments>> /\ run'[Scheduler] = Idle
      BY <1>0, <1>5, EndMoves DEF EndRun, Crash
    <2>2. run'[Scheduler].pc = "idle" /\ run'[Scheduler].todo = {}
      BY <2>1 DEF Idle
    <2> QED BY <2>1, <2>2, AloneQuiet DEF BeforePost
  <1>6. CASE PostCustomer(Scheduler) \/ SaveCustomer(Scheduler) \/ BookInvoice(Scheduler)
    <2>1. /\ UNCHANGED <<number, payments>>
          /\ r.pc \in BeforePost \cup {"bookInvoice", "saveNumber"}
          /\ \/ Leave(Scheduler)
             \/ \E pc \in {"saveCustomer", "invoice", "saveNumber"} : Goto(Scheduler, pc)
      BY <1>6 DEF PostCustomer, SaveCustomer, BookInvoice, GoesOn, InvoiceFails,
                  BookInvoiceRejected, BeforePost
    <2>2. CASE Leave(Scheduler)
      BY <2>1, <2>2, AloneLeaves
    <2>3. CASE ~Leave(Scheduler)
      <3>1. PICK pc \in {"saveCustomer", "invoice", "saveNumber"} : Goto(Scheduler, pc)
        BY <2>1, <2>3
      <3>2. /\ run'[Scheduler].pc = pc /\ SameList(Scheduler)
            /\ run'[Scheduler].cur = run[Scheduler].cur
        BY <1>0, <3>1, GotoMoves
      <3> QED BY <2>1, <3>2, AloneGoes
    <2> QED BY <2>2, <2>3
  <1>7. CASE PostInvoice(Scheduler)
    <2>1. UNCHANGED <<number, payments>> /\ r.pc = "invoice"
      BY <1>7 DEF PostInvoice
    <2>2. CASE Leave(Scheduler)
      BY <2>1, <2>2, AloneLeaves
    <2>3. CASE ~Leave(Scheduler)
      <3>1. /\ run'[Scheduler].pc = "bookInvoice" /\ SameList(Scheduler)
            /\ run'[Scheduler].cur = run[Scheduler].cur
        BY <1>0, <1>7, <2>3, PostInvoiceMoves DEF PostInvoice, InvoiceFails
      <3> QED BY <2>1, <3>1, AloneGoes DEF BeforePost
    <2> QED BY <2>2, <2>3
  <1>8. CASE SaveNumber(Scheduler)
    <2>1. /\ UNCHANGED payments /\ r.pc = "saveNumber" /\ r.cur \in Charges
          /\ \/ UNCHANGED number /\ Leave(Scheduler)
             \/ /\ number' = [number EXCEPT ![r.cur] = r.inv]
                /\ Goto(Scheduler, "created")
      BY <1>0, <1>8 DEF SaveNumber, InvoiceFails, GoesOn, SetNumber, Working, PCs
    <2>2. CASE UNCHANGED number /\ Leave(Scheduler)
      BY <2>1, <2>2, AloneLeaves
    <2>3. CASE number' = [number EXCEPT ![r.cur] = r.inv] /\ Goto(Scheduler, "created")
      <3>1. /\ run'[Scheduler].pc = "created" /\ SameList(Scheduler)
            /\ run'[Scheduler].cur = r.cur /\ run'[Scheduler].inv = r.inv
        BY <1>0, <2>3, GotoMoves
      <3>2. /\ number'[r.cur] = r.inv
            /\ \A c \in Charges : c # r.cur => number'[c] = number[c]
        BY <1>b, <2>1, <2>3
      <3>3. \A e \in r.todo : e[1] \in Charges /\ e[1] # r.cur
        BY <1>0, <2>1 DEF Listed, Run
      <3>4. \A e \in run'[Scheduler].todo : e[2] = number'[e[1]]
        BY <1>a, <3>1, <3>2, <3>3 DEF SameList
      <3>5. payments[r.cur] = <<>>
        BY <1>a, <1>b, <2>1
      <3>6. \A c \in Charges : number'[c] = Null => payments'[c] = <<>>
        BY <1>b, <2>1, <3>2, <3>5
      <3>7. PaymentsOfNumber'
        BY <1>b, <2>1, <3>2, <3>5 DEF PaymentsOfNumber
      <3> QED BY <3>1, <3>2, <3>4, <3>6, <3>7 DEF AloneInv, BeforePost
    <2> QED BY <2>1, <2>2, <2>3
  <1>9. CASE Created(Scheduler)
    <2>1. /\ UNCHANGED <<number, payments>> /\ r.pc = "created"
          /\ Leave(Scheduler) \/ Goto(Scheduler, "payment")
      BY <1>9 DEF Created
    <2>2. CASE Leave(Scheduler)
      BY <2>1, <2>2, AloneLeaves
    <2>3. CASE Goto(Scheduler, "payment")
      <3>1. /\ run'[Scheduler].pc = "payment" /\ SameList(Scheduler)
            /\ run'[Scheduler].cur = run[Scheduler].cur
            /\ run'[Scheduler].inv = run[Scheduler].inv
        BY <1>0, <2>3, GotoMoves
      <3> QED BY <2>1, <3>1, AloneGoes DEF BeforePost
    <2> QED BY <2>1, <2>2, <2>3
  <1>10. CASE PostPayment(Scheduler)
    <2>1. PICK c, n : c = r.cur /\ n = r.inv
      OBVIOUS
    <2>2. /\ UNCHANGED number /\ r.pc = "payment" /\ c \in Charges /\ n \in Nat
          /\ n = number[c] /\ n # Null
      <3>1. UNCHANGED number /\ r.pc = "payment"
        BY <1>10 DEF PostPayment
      <3>2. c \in Charges /\ n \in Nat /\ n = number[c] /\ IsBooked(c, n)
        BY <1>0, <1>a, <2>1, <3>1 DEF Run, InHand, Working, PCs
      <3> QED BY <3>1, <3>2, FortnoxFacts DEF IsBooked, Null
    <2>3. run'[Scheduler].pc \in {"next", "bookPayment"} /\ SameList(Scheduler)
      BY <1>0, <1>10, LeaveMoves, PostPaymentMoves DEF PostPayment
    <2>5. CASE UNCHANGED payments
      BY <1>a, <2>2, <2>3, <2>5, AloneQuiet DEF SameList, BeforePost
    <2>4. CASE payments' = [payments EXCEPT ![c] =
                                Append(@, [invoice |-> n, booked |-> FALSE])]
      <3>2. \A d \in Charges : number[d] = Null => payments'[d] = <<>>
        BY <1>b, <2>2, <2>4, NewPayment
      <3>3. PaymentsOfNumber'
        BY <1>b, <2>2, <2>4, NewPayment DEF PaymentsOfNumber
      <3> QED BY <1>a, <2>2, <2>3, <3>2, <3>3 DEF AloneInv, SameList, BeforePost
    <2> QED BY <1>10, <2>1, <2>4, <2>5 DEF PostPayment
  <1>11. CASE BookPayment(Scheduler)
    <2>1. PICK c, n : c = r.cur /\ n = r.pay
      OBVIOUS
    <2>2. /\ UNCHANGED number /\ c \in Charges /\ n \in DOMAIN payments[c]
          /\ run'[Scheduler].pc \in {"next", "setPaid"} /\ SameList(Scheduler)
      <3>1. /\ r.pc = "bookPayment" /\ UNCHANGED number
            /\ Leave(Scheduler) \/ Goto(Scheduler, "setPaid")
        BY <1>11 DEF BookPayment, BookPaymentRejected
      <3>2. c \in Charges /\ n \in DOMAIN payments[c]
        BY <1>0, <2>1, <3>1 DEF InHand, Working, PCs
      <3> QED BY <1>0, <3>1, <3>2, LeaveMoves, GotoMoves
    <2>3. CASE UNCHANGED payments
      BY <1>a, <2>2, <2>3, AloneQuiet DEF SameList, BeforePost
    <2>4. CASE payments' = [payments EXCEPT ![c][n].booked = TRUE]
      <3>1. \A d \in Charges : number[d] = Null => payments'[d] = <<>>
        BY <1>b, <2>2, <2>4, PaymentBooked
      <3>2. PaymentsOfNumber'
        BY <1>b, <2>2, <2>4, PaymentBooked DEF PaymentsOfNumber
      <3> QED BY <1>a, <2>2, <3>1, <3>2 DEF AloneInv, SameList, BeforePost
    <2> QED BY <1>11, <2>1, <2>3, <2>4 DEF BookPayment
  <1>12. CASE SetPaid(Scheduler)
    BY <1>12, AloneLeaves DEF SetPaid
  <1>13. CASE (\E c \in Charges : StoreCharge(c) \/ StoreTxn(c)) \/ UNCHANGED vars
    <2>1. UNCHANGED <<number, payments, run>>
      BY <1>13 DEF StoreCharge, StoreTxn, vars
    <2> QED BY <1>a, <2>1, AloneQuiet
  <1> QED BY <1>0, <1>1, <1>2, <1>3, <1>4, <1>5, <1>6, <1>7, <1>8, <1>9, <1>10,
             <1>11, <1>12, <1>13 DEF Next, Continue

\* With the scheduler alone every payment is for the invoice whose number is
\* stored, under crashes, failing statements and lost answers: none goes to
\* an invoice left over by a failed attempt (scheduler.go:151-199,
\* invoice.go:189-246).
THEOREM AlonePaysTheStoredInvoice ==
    ASSUME Triggers = {}
    PROVE  Spec => []PaymentsOfNumber
  <1> DEFINE I == TypeInv /\ BookedInv /\ ListInv /\ AloneInv
  <1>1. Init => I
    BY TypeInvInit, BookedInvInit, CountInvInit, AloneInvInit DEF CountInv
  <1>2. I /\ [Next]_vars => I'
    BY TypeInvNext, BookedInvNext, ListInvNext, AloneInvNext
  <1>3. I => PaymentsOfNumber
    BY DEF AloneInv
  <1> HIDE DEF I
  <1> QED BY <1>1, <1>2, <1>3, PTL DEF Spec

-----------------------------------------------------------------------------
(* The scheduler alone: every duplicate took a fault of its own *)

LEMMA UnpaidInvInit == Init => UnpaidInv
  BY DEF Init, UnpaidInv, Idle, AtPayment, Workers

\* A step that pays nothing.
LEMMA UnpaidQuiet ==
    ASSUME UnpaidInv, UNCHANGED paid,
           run'[Scheduler].pc \notin Working => run'[Scheduler].cur = NoCharge,
           run'[Scheduler].pc \in AtPayment => run'[Scheduler].cur \notin paid,
           run'[Scheduler].list = "unpaid" =>
               \A e \in run'[Scheduler].todo :
                   e[1] \notin paid /\ e[1] # run'[Scheduler].cur
    PROVE  UnpaidInv'
  BY DEF UnpaidInv

LEMMA UnpaidLeaves ==
    ASSUME TypeInv, UnpaidInv, UNCHANGED paid, Leave(Scheduler)
    PROVE  UnpaidInv'
  <1>1. Scheduler \in Workers
    BY DEF Workers
  <1>2. /\ run'[Scheduler].pc = "next" /\ run'[Scheduler].cur = NoCharge
        /\ SameList(Scheduler)
    BY <1>1, LeaveMoves
  <1>3. \A e \in run[Scheduler].todo : e[1] # NoCharge
    BY <1>1, NoChargeAssumption, RunType DEF Run
  <1> QED BY <1>2, <1>3, UnpaidQuiet DEF UnpaidInv, SameList, AtPayment

LEMMA UnpaidGoes ==
    ASSUME TypeInv, UnpaidInv, UNCHANGED paid,
           SameList(Scheduler), run'[Scheduler].cur = run[Scheduler].cur,
           run'[Scheduler].pc \in Working,
           run'[Scheduler].pc \in AtPayment =>
               run[Scheduler].pc \in AtPayment \/ run[Scheduler].cur \notin paid
    PROVE  UnpaidInv'
  BY UnpaidQuiet DEF UnpaidInv, SameList

\* A charge without a number has no payment, so it is not paid.
LEMMA UnnumberedIsUnpaid ==
    ASSUME BookedInv, AloneInv, NEW c \in Charges, number[c] = Null
    PROVE  c \notin paid
  <1>1. payments[c] = <<>>
    BY DEF AloneInv
  <1>2. c \in paid => \E i \in DOMAIN payments[c] : payments[c][i].booked
    BY DEF BookedInv, PaidIsBooked
  <1> QED BY <1>1, <1>2

\* The list of unpaid charges holds each of them once.
LEMMA ListUnpaidOnce ==
    ASSUME TypeInv, ListUnpaid(Scheduler)
    PROVE  \A e \in run'[Scheduler].todo : e[1] \notin paid /\ e[1] \in Charges
  <1>1. Scheduler \in Workers
    BY DEF Workers
  <1>2. \A e \in UnpaidCharges : e[1] \notin paid /\ e[1] \in Charges
    BY DEF UnpaidCharges, Joined, TypeInv, TypeOK
  <1>3. run[Scheduler] \in Run /\ run[Scheduler].todo = {}
    BY <1>1, RunType DEF ListUnpaid
  <1> DEFINE r(S) == [run[Scheduler] EXCEPT !.list = "unpaid", !.todo = S]
  <1>4. CASE Becomes(Scheduler, r(UnpaidCharges))
    <2>1. run'[Scheduler] = r(UnpaidCharges)
      BY <1>1, <1>4, BecomesMoves
    <2>2. run'[Scheduler].todo = UnpaidCharges
      BY <1>3, <2>1 DEF Run
    <2> QED BY <1>2, <2>2
  <1>5. CASE Becomes(Scheduler, [run[Scheduler] EXCEPT !.list = "unpaid"])
    <2>1. run'[Scheduler] = [run[Scheduler] EXCEPT !.list = "unpaid"]
      BY <1>1, <1>5, BecomesMoves
    <2>2. run'[Scheduler].todo = {}
      BY <1>3, <2>1 DEF Run
    <2> QED BY <2>2
  <1> QED BY <1>4, <1>5 DEF ListUnpaid

LEMMA UnpaidInvNext ==
    ASSUME Triggers = {}, TypeInv, BookedInv, ListInv, AloneInv, UnpaidInv, [Next]_vars
    PROVE  UnpaidInv'
  <1> DEFINE r == run[Scheduler]
  <1>0. /\ Workers = {Scheduler}
        /\ r \in Run /\ (r.pc \in Working => r.cur \in Charges)
        /\ InHand(Scheduler) /\ Listed(Scheduler)
    BY RunType DEF Workers, BookedInv, ListInv
  <1>a. /\ r.pc \in BeforePost \cup {"bookInvoice", "saveNumber"} => number[r.cur] = Null
        /\ \A e \in r.todo : e[2] = number[e[1]]
    BY DEF AloneInv
  <1>b. /\ r.pc \notin Working => r.cur = NoCharge
        /\ r.pc \in AtPayment => r.cur \notin paid
        /\ r.list = "unpaid" => \A e \in r.todo : e[1] \notin paid /\ e[1] # r.cur
    BY DEF UnpaidInv
  <1> USE DEF stripe, columns, fortnox
  <1>1. CASE StartRun(Scheduler)
    <2>1. /\ UNCHANGED paid /\ run'[Scheduler].pc = "next"
          /\ run'[Scheduler].list = "charges" /\ run'[Scheduler].cur = NoCharge
      BY <1>0, <1>1, StartMoves DEF StartRun
    <2> QED BY <2>1, UnpaidQuiet DEF AtPayment
  <1>2. CASE GetCustomer(Scheduler)
    <2>1. /\ UNCHANGED paid /\ run'[Scheduler].list = "charges"
          /\ run'[Scheduler].pc \in {"invoice", "customer"}
      BY <1>0, <1>2, GetMoves DEF GetCustomer
    <2> QED BY <2>1, UnpaidQuiet DEF AtPayment, Working, PCs
  <1>3. CASE ListUnpaid(Scheduler)
    <2>1. UNCHANGED paid /\ run'[Scheduler].pc = "next" /\ r.pc = "next"
      BY <1>0, <1>3, ListMoves DEF ListUnpaid
    <2>2. \A e \in run'[Scheduler].todo : e[1] \notin paid /\ e[1] \in Charges
      BY <1>3, ListUnpaidOnce
    <2>3. run'[Scheduler].cur = NoCharge
      BY <1>0, <1>b, <1>3, <2>1, ListMoves DEF Working
    <2>4. \A e \in run'[Scheduler].todo : e[1] # NoCharge
      BY <2>2, NoChargeAssumption
    <2> QED BY <2>1, <2>2, <2>3, <2>4, UnpaidQuiet DEF AtPayment
  <1>4. CASE NextUnpaid(Scheduler)
    <2>1. PICK e \in r.todo :
            /\ run'[Scheduler].cur = e[1]
            /\ run'[Scheduler].todo = r.todo \ {e}
            /\ r.list = "unpaid" /\ run'[Scheduler].pc = "payment"
      BY <1>0, <1>4, NextMoves
    <2>2. UNCHANGED paid
      BY <1>4 DEF NextUnpaid
    <2>3. ASSUME NEW f \in r.todo, f[1] = e[1] PROVE f = e
      <3>1. f[2] = number[e[1]] /\ e[2] = number[e[1]]
        BY <1>a, <2>3
      <3>2. f \in Charges \X Nat /\ e \in Charges \X Nat
        BY <1>0 DEF Run
      <3> QED BY <2>3, <3>1, <3>2
    <2>4. \A f \in run'[Scheduler].todo : f[1] \notin paid /\ f[1] # e[1]
      BY <1>b, <2>1, <2>3
    <2> QED BY <1>b, <2>1, <2>2, <2>4, UnpaidQuiet DEF Working, PCs
  <1>5. CASE EndRun(Scheduler) \/ Crash
    <2>1. UNCHANGED paid /\ run'[Scheduler] = Idle
      BY <1>0, <1>5, EndMoves DEF EndRun, Crash
    <2>2. /\ run'[Scheduler].pc = "idle" /\ run'[Scheduler].todo = {}
          /\ run'[Scheduler].cur = NoCharge
      BY <2>1 DEF Idle
    <2> QED BY <2>1, <2>2, UnpaidQuiet DEF AtPayment
  <1>6. CASE PostCustomer(Scheduler) \/ SaveCustomer(Scheduler) \/ BookInvoice(Scheduler)
             \/ Created(Scheduler) \/ BookPayment(Scheduler)
    <2>1. /\ UNCHANGED paid
          /\ \/ Leave(Scheduler)
             \/ \E pc \in {"saveCustomer", "invoice", "saveNumber"} : Goto(Scheduler, pc)
             \/ r.pc \in AtPayment /\ \E pc \in {"payment", "setPaid"} : Goto(Scheduler, pc)
      BY <1>6 DEF PostCustomer, SaveCustomer, BookInvoice, GoesOn, InvoiceFails,
                  BookInvoiceRejected, Created, BookPayment, BookPaymentRejected, AtPayment
    <2>2. CASE Leave(Scheduler)
      BY <2>1, <2>2, UnpaidLeaves
    <2>3. CASE ~Leave(Scheduler)
      <3>1. PICK pc : /\ Goto(Scheduler, pc) /\ pc \in Working
                      /\ pc \in AtPayment => r.pc \in AtPayment
        BY <2>1, <2>3 DEF AtPayment, Working, PCs
      <3>2. /\ run'[Scheduler].pc = pc /\ SameList(Scheduler)
            /\ run'[Scheduler].cur = run[Scheduler].cur
        BY <1>0, <3>1, GotoMoves
      <3> QED BY <2>1, <3>1, <3>2, UnpaidGoes
    <2> QED BY <2>2, <2>3
  <1>7. CASE PostInvoice(Scheduler) \/ PostPayment(Scheduler)
    <2>1. UNCHANGED paid
      BY <1>7 DEF PostInvoice, PostPayment
    <2>2. CASE Leave(Scheduler)
      BY <2>1, <2>2, UnpaidLeaves
    <2>3. CASE ~Leave(Scheduler)
      <3>1. /\ SameList(Scheduler) /\ run'[Scheduler].cur = run[Scheduler].cur
            /\ run'[Scheduler].pc \in AtPayment => r.pc \in AtPayment
            /\ run'[Scheduler].pc \in Working
        BY <1>0, <1>7, <2>3, PostInvoiceMoves, PostPaymentMoves
           DEF PostInvoice, PostPayment, InvoiceFails, AtPayment, Working, PCs
      <3> QED BY <2>1, <3>1, UnpaidGoes
    <2> QED BY <2>2, <2>3
  <1>8. CASE SaveNumber(Scheduler)
    <2>1. /\ UNCHANGED paid /\ r.pc = "saveNumber" /\ r.cur \in Charges
          /\ Leave(Scheduler) \/ Goto(Scheduler, "created")
      BY <1>0, <1>8 DEF SaveNumber, InvoiceFails, GoesOn, Working, PCs
    <2>2. CASE Leave(Scheduler)
      BY <2>1, <2>2, UnpaidLeaves
    <2>3. CASE Goto(Scheduler, "created")
      <3>1. r.cur \notin paid
        BY <1>a, <2>1, UnnumberedIsUnpaid
      <3>2. /\ SameList(Scheduler) /\ run'[Scheduler].cur = run[Scheduler].cur
            /\ run'[Scheduler].pc \in Working
        BY <1>0, <2>3, GotoMoves DEF Working, PCs
      <3> QED BY <2>1, <3>1, <3>2, UnpaidGoes
    <2> QED BY <2>1, <2>2, <2>3
  <1>9. CASE SetPaid(Scheduler)
    <2>1. /\ Leave(Scheduler) /\ paid' \subseteq paid \cup {r.cur}
          /\ r.pc = "setPaid"
      BY <1>9 DEF SetPaid, Pay
    <2>2. /\ run'[Scheduler].pc = "next" /\ run'[Scheduler].cur = NoCharge
          /\ SameList(Scheduler)
      BY <1>0, <2>1, LeaveMoves
    <2>3. \A e \in r.todo : e[1] # NoCharge
      BY <1>0, NoChargeAssumption DEF Run
    <2>4. r.list = "unpaid" => \A e \in r.todo : e[1] \notin paid'
      BY <1>b, <2>1
    <2> QED BY <2>2, <2>3, <2>4 DEF UnpaidInv, SameList, AtPayment
  <1>10. CASE (\E c \in Charges : StoreCharge(c) \/ StoreTxn(c)) \/ UNCHANGED vars
    <2>1. UNCHANGED <<paid, run>>
      BY <1>10 DEF StoreCharge, StoreTxn, vars
    <2> QED BY <1>b, <2>1, UnpaidQuiet
  <1> QED BY <1>0, <1>1, <1>2, <1>3, <1>4, <1>5, <1>6, <1>7, <1>8, <1>9, <1>10
          DEF Next, Continue

\* What is lost of a charge is a number: what is stored or in hand exists.
LEMMA LostType ==
    ASSUME TypeInv, BookedInv, NEW c \in Charges
    PROVE  LostInvoices(c) \in Nat /\ LostPayments(c) \in Nat
  <1>0. Scheduler \in Workers /\ InHand(Scheduler)
    BY DEF Workers, BookedInv
  <1>1. LostInvoices(c) \in Nat
    <2>1. number[c] # Null \/ HasPosted(Scheduler, c) => DOMAIN invoices[c] # {}
      BY <1>0 DEF BookedInv, NumberIsBooked, HasPosted, InHand, IsBooked
    <2> QED BY <2>1, FortnoxFacts DEF LostInvoices, One
  <1>2. LostPayments(c) \in Nat
    <2>1. c \in paid \/ HasPaid(c) => DOMAIN payments[c] # {}
      BY <1>0 DEF BookedInv, PaidIsBooked, HasPaid, InHand, IsPaid
    <2> QED BY <2>1, FortnoxFacts DEF LostPayments, One
  <1> QED BY <1>1, <1>2

\* Each statement and each call has its place.
LEMMA StepsAt ==
    ASSUME NEW w, StartRun(w) \/ Continue(w)
    PROVE  \/ run[w].pc = "idle" /\ StartRun(w)
           \/ /\ run[w].pc = "next"
              /\ GetCustomer(w) \/ ListUnpaid(w) \/ NextUnpaid(w) \/ EndRun(w)
           \/ run[w].pc = "customer" /\ PostCustomer(w)
           \/ run[w].pc = "saveCustomer" /\ SaveCustomer(w)
           \/ run[w].pc = "invoice" /\ PostInvoice(w)
           \/ run[w].pc = "bookInvoice" /\ BookInvoice(w)
           \/ run[w].pc = "saveNumber" /\ SaveNumber(w)
           \/ run[w].pc = "created" /\ Created(w)
           \/ run[w].pc = "payment" /\ PostPayment(w)
           \/ run[w].pc = "bookPayment" /\ BookPayment(w)
           \/ run[w].pc = "setPaid" /\ SetPaid(w)
  <1>1. StartRun(w) => run[w].pc = "idle"
    BY DEF StartRun, Idle
  <1>2. GetCustomer(w) \/ ListUnpaid(w) \/ NextUnpaid(w) \/ EndRun(w)
        => run[w].pc = "next"
    BY DEF GetCustomer, ListUnpaid, NextUnpaid, EndRun
  <1>3. PostCustomer(w) => run[w].pc = "customer"
    BY DEF PostCustomer
  <1>4. SaveCustomer(w) => run[w].pc = "saveCustomer"
    BY DEF SaveCustomer
  <1>5. PostInvoice(w) => run[w].pc = "invoice"
    BY DEF PostInvoice
  <1>6. BookInvoice(w) => run[w].pc = "bookInvoice"
    BY DEF BookInvoice
  <1>7. SaveNumber(w) => run[w].pc = "saveNumber"
    BY DEF SaveNumber
  <1>8. Created(w) => run[w].pc = "created"
    BY DEF Created
  <1>9. PostPayment(w) => run[w].pc = "payment"
    BY DEF PostPayment
  <1>10. BookPayment(w) => run[w].pc = "bookPayment"
    BY DEF BookPayment
  <1>11. SetPaid(w) => run[w].pc = "setPaid"
    BY DEF SetPaid
  <1> QED BY <1>1, <1>2, <1>3, <1>4, <1>5, <1>6, <1>7, <1>8, <1>9, <1>10, <1>11 DEF Continue

\* What LostInvoices and LostPayments say, before and after a step.
LEMMA LostInvoicesIs ==
    ASSUME NEW c
    PROVE  /\ number[c] # Null \/ HasPosted(Scheduler, c) =>
                  LostInvoices(c) = Len(invoices[c]) - 1
           /\ ~(number[c] # Null \/ HasPosted(Scheduler, c)) =>
                  LostInvoices(c) = Len(invoices[c]) - 0
           /\ number'[c] # Null \/ HasPosted(Scheduler, c)' =>
                  LostInvoices(c)' = Len(invoices'[c]) - 1
           /\ ~(number'[c] # Null \/ HasPosted(Scheduler, c)') =>
                  LostInvoices(c)' = Len(invoices'[c]) - 0
  BY DEF LostInvoices, One

LEMMA LostPaymentsIs ==
    ASSUME NEW c
    PROVE  /\ c \in paid \/ HasPaid(c) => LostPayments(c) = Len(payments[c]) - 1
           /\ ~(c \in paid \/ HasPaid(c)) => LostPayments(c) = Len(payments[c]) - 0
           /\ c \in paid' \/ HasPaid(c)' => LostPayments(c)' = Len(payments'[c]) - 1
           /\ ~(c \in paid' \/ HasPaid(c)') =>
                  LostPayments(c)' = Len(payments'[c]) - 0
  BY DEF LostPayments, One

\* A step that leaves the number and the invoices of c, and what the scheduler
\* has in hand of them.
LEMMA InvoicesLostQuiet ==
    ASSUME TypeInv, NEW c \in Charges,
           Len(invoices'[c]) = Len(invoices[c]), number'[c] = number[c],
           HasPosted(Scheduler, c) => HasPosted(Scheduler, c)'
    PROVE  LostInvoices(c)' <= LostInvoices(c)
  <1>1. Len(invoices[c]) \in Nat
    BY FortnoxFacts
  <1> QED BY <1>1 DEF LostInvoices, One

\* An invoice is lost only with a fault, and only of the charge in hand.
LEMMA InvoicesLostNext ==
    ASSUME Triggers = {}, TypeInv, BookedInv, AloneInv, [Next]_vars, NEW c \in Charges
    PROVE  \/ LostInvoices(c)' <= LostInvoices(c)
           \/ /\ LostInvoices(c)' <= LostInvoices(c) + 1 /\ faults' = faults + 1
              /\ c = run[Scheduler].cur
              /\ run[Scheduler].pc \in {"invoice", "bookInvoice", "saveNumber"}
  <1> DEFINE r == run[Scheduler]
  <1>0. /\ Workers = {Scheduler}
        /\ r \in Run /\ (r.pc \in Working => r.cur \in Charges)
        /\ InHand(Scheduler)
    BY RunType DEF Workers, BookedInv
  <1>a. /\ r.pc \in {"invoice", "bookInvoice", "saveNumber"} => number[r.cur] = Null
        /\ invoices \in [Charges -> Seq(Invoice)] /\ number \in [Charges -> Nat]
        /\ Len(invoices[c]) \in Nat
    BY FortnoxFacts DEF AloneInv, BeforePost, TypeInv, TypeOK
  <1> USE DEF stripe, columns, fortnox
  <1>1. CASE r.pc \notin {"invoice", "bookInvoice", "saveNumber"}
    <2>1. UNCHANGED <<invoices, number>>
      BY <1>0, <1>1 DEF Next, Continue, StartRun, GetCustomer, ListUnpaid, NextUnpaid, EndRun,
           PostCustomer, SaveCustomer, PostInvoice, BookInvoice, SaveNumber, Created,
           PostPayment, BookPayment, SetPaid, Crash, StoreCharge, StoreTxn, vars
    <2>2. ~HasPosted(Scheduler, c)
      BY <1>1 DEF HasPosted
    <2> QED BY <2>1, <2>2, InvoicesLostQuiet
  <1>2. CASE Crash
    <2>1. UNCHANGED <<invoices, number>> /\ faults' = faults + 1
      BY <1>2 DEF Crash, Fault
    <2>2. CASE HasPosted(Scheduler, c)
      BY <1>a, <2>1, <2>2 DEF HasPosted, LostInvoices, One
    <2>3. CASE ~HasPosted(Scheduler, c)
      BY <2>1, <2>3, InvoicesLostQuiet
    <2> QED BY <2>2, <2>3
  <1>3. CASE (\E d \in Charges : StoreCharge(d) \/ StoreTxn(d)) \/ UNCHANGED vars
    <2>1. UNCHANGED <<invoices, number, run>>
      BY <1>3 DEF StoreCharge, StoreTxn, vars
    <2> QED BY <2>1, InvoicesLostQuiet DEF HasPosted
  <1>4. CASE PostInvoice(Scheduler)
    <2>1. /\ r.pc = "invoice" /\ r.cur \in Charges /\ UNCHANGED number
          /\ ~HasPosted(Scheduler, c) /\ number[r.cur] = Null
      BY <1>0, <1>a, <1>4 DEF PostInvoice, HasPosted, Working, PCs
    <2>2. CASE UNCHANGED invoices
      BY <2>1, <2>2, InvoicesLostQuiet
    <2>3. CASE invoices' = [invoices EXCEPT ![r.cur] = Append(@, [booked |-> FALSE])]
      <3>1. /\ Len(invoices'[r.cur]) = Len(invoices[r.cur]) + 1
            /\ c # r.cur => invoices'[c] = invoices[c]
        BY <2>1, <2>3, NewInvoice
      <3>2. CASE c # r.cur
        BY <2>1, <3>1, <3>2, InvoicesLostQuiet
      <3>3. CASE c = r.cur
        <4>1. \/ faults' = faults + 1
              \/ Becomes(Scheduler, [run[Scheduler] EXCEPT !.pc = "bookInvoice",
                                                   !.inv = Len(invoices[r.cur]) + 1])
          BY <1>4, <2>1, <2>3, InvoiceNotNew DEF PostInvoice, Fault
        <4>2. CASE faults' = faults + 1
          <5>1. number[c] = Null /\ Len(invoices'[c]) = Len(invoices[c]) + 1
            BY <2>1, <3>1, <3>3
          <5>2. LostInvoices(c)' <= LostInvoices(c) + 1
            BY <1>a, <2>1, <5>1, LostInvoicesIs
          <5> QED BY <2>1, <3>3, <4>2, <5>2
        <4>3. CASE Becomes(Scheduler, [run[Scheduler] EXCEPT !.pc = "bookInvoice",
                                                   !.inv = Len(invoices[r.cur]) + 1])
          <5>1. HasPosted(Scheduler, c)'
            BY <1>0, <3>3, <4>3, PostInvoiceMoves DEF HasPosted
          <5>2. number[c] = Null /\ Len(invoices'[c]) = Len(invoices[c]) + 1
            BY <2>1, <3>1, <3>3
          <5>3. LostInvoices(c)' <= LostInvoices(c)
            BY <1>a, <2>1, <5>1, <5>2, LostInvoicesIs
          <5> QED BY <5>3
        <4> QED BY <4>1, <4>2, <4>3
      <3> QED BY <3>2, <3>3
    <2> QED BY <1>4, <2>2, <2>3 DEF PostInvoice
  <1>5. CASE BookInvoice(Scheduler)
    <2>1. /\ r.pc = "bookInvoice" /\ r.cur \in Charges /\ UNCHANGED number
          /\ r.inv \in DOMAIN invoices[r.cur]
          /\ Goto(Scheduler, "saveNumber") \/ faults' = faults + 1
      BY <1>0, <1>5 DEF BookInvoice, GoesOn, Fault, InHand, Working, PCs
    <2>2. Len(invoices'[c]) = Len(invoices[c])
      BY <1>5, <2>1, InvoiceBooked DEF BookInvoice
    <2>3. CASE Goto(Scheduler, "saveNumber")
      <3>1. HasPosted(Scheduler, c) => HasPosted(Scheduler, c)'
        BY <1>0, <2>3, GotoMoves DEF HasPosted
      <3> QED BY <2>1, <2>2, <3>1, InvoicesLostQuiet
    <2>4. CASE faults' = faults + 1 /\ HasPosted(Scheduler, c)
      BY <1>a, <2>1, <2>2, <2>4 DEF HasPosted, LostInvoices, One
    <2>5. CASE ~HasPosted(Scheduler, c)
      BY <2>1, <2>2, <2>5, InvoicesLostQuiet
    <2> QED BY <2>1, <2>3, <2>4, <2>5
  <1>6. CASE SaveNumber(Scheduler)
    <2>1. /\ r.pc = "saveNumber" /\ r.cur \in Charges /\ UNCHANGED invoices
          /\ r.inv \in DOMAIN invoices[r.cur]
          /\ \/ number' = [number EXCEPT ![r.cur] = r.inv]
             \/ UNCHANGED number /\ faults' = faults + 1
      BY <1>0, <1>6 DEF SaveNumber, SetNumber, Fault, InHand, IsBooked, Working, PCs
    <2>2. CASE number' = [number EXCEPT ![r.cur] = r.inv]
      <3>1. number'[r.cur] # Null
        BY <1>a, <2>1, <2>2, FortnoxFacts DEF Null
      <3>2. c # r.cur => number'[c] = number[c] /\ ~HasPosted(Scheduler, c)
        BY <1>a, <2>1, <2>2 DEF HasPosted
      <3>3. CASE c = r.cur
        BY <1>a, <2>1, <3>1, <3>3 DEF LostInvoices, One
      <3>4. CASE c # r.cur
        BY <2>1, <3>2, <3>4, InvoicesLostQuiet
      <3> QED BY <3>3, <3>4
    <2>3. CASE UNCHANGED number /\ faults' = faults + 1 /\ HasPosted(Scheduler, c)
      BY <1>a, <2>1, <2>3 DEF HasPosted, LostInvoices, One
    <2>4. CASE UNCHANGED number /\ ~HasPosted(Scheduler, c)
      BY <2>1, <2>4, InvoicesLostQuiet
    <2> QED BY <2>1, <2>2, <2>3, <2>4
  <1>7. CASE r.pc \in {"invoice", "bookInvoice", "saveNumber"}
             /\ (StartRun(Scheduler) \/ Continue(Scheduler))
    BY <1>4, <1>5, <1>6, <1>7, StepsAt
  <1> QED BY <1>0, <1>1, <1>2, <1>3, <1>7 DEF Next

\* The same of payments.
LEMMA PaymentsLostQuiet ==
    ASSUME TypeInv, NEW c \in Charges,
           Len(payments'[c]) = Len(payments[c]),
           c \in paid \/ HasPaid(c) => c \in paid' \/ HasPaid(c)'
    PROVE  LostPayments(c)' <= LostPayments(c)
  <1>1. Len(payments[c]) \in Nat
    BY FortnoxFacts
  <1> QED BY <1>1, LostPaymentsIs

LEMMA PaymentsLostNext ==
    ASSUME Triggers = {}, TypeInv, BookedInv, UnpaidInv, [Next]_vars, NEW c \in Charges
    PROVE  \/ LostPayments(c)' <= LostPayments(c)
           \/ /\ LostPayments(c)' <= LostPayments(c) + 1 /\ faults' = faults + 1
              /\ c = run[Scheduler].cur
              /\ run[Scheduler].pc \in {"payment", "bookPayment", "setPaid"}
  <1> DEFINE r == run[Scheduler]
  <1>0. /\ Workers = {Scheduler}
        /\ r \in Run /\ (r.pc \in Working => r.cur \in Charges)
        /\ InHand(Scheduler)
    BY RunType DEF Workers, BookedInv
  <1>a. /\ r.pc \in {"payment", "bookPayment", "setPaid"} => r.cur \notin paid
        /\ Len(payments[c]) \in Nat
    BY FortnoxFacts DEF UnpaidInv, AtPayment
  <1> USE DEF stripe, columns, fortnox
  <1>1. CASE r.pc \notin {"payment", "bookPayment", "setPaid"}
    <2>1. UNCHANGED <<payments, paid>>
      BY <1>0, <1>1 DEF Next, Continue, StartRun, GetCustomer, ListUnpaid, NextUnpaid, EndRun,
           PostCustomer, SaveCustomer, PostInvoice, BookInvoice, SaveNumber, Created,
           PostPayment, BookPayment, SetPaid, Crash, StoreCharge, StoreTxn, vars
    <2>2. ~HasPaid(c)
      BY <1>1 DEF HasPaid
    <2> QED BY <2>1, <2>2, PaymentsLostQuiet
  <1>2. CASE Crash
    <2>1. UNCHANGED <<payments, paid>> /\ faults' = faults + 1
      BY <1>2 DEF Crash, Fault
    <2>2. CASE HasPaid(c)
      <3>1. LostPayments(c)' <= LostPayments(c) + 1
        BY <1>a, <2>1, LostPaymentsIs
      <3> QED BY <2>1, <2>2, <3>1 DEF HasPaid
    <2>3. CASE ~HasPaid(c)
      BY <2>1, <2>3, PaymentsLostQuiet
    <2> QED BY <2>2, <2>3
  <1>3. CASE (\E d \in Charges : StoreCharge(d) \/ StoreTxn(d)) \/ UNCHANGED vars
    <2>1. UNCHANGED <<payments, paid, run>>
      BY <1>3 DEF StoreCharge, StoreTxn, vars
    <2> QED BY <2>1, PaymentsLostQuiet DEF HasPaid
  <1>4. CASE PostPayment(Scheduler)
    <2>0. PICK n \in Nat : n = r.inv
      BY <1>0 DEF Run
    <2>1. /\ r.pc = "payment" /\ r.cur \in Charges /\ UNCHANGED paid
          /\ ~HasPaid(c) /\ r.cur \notin paid
      BY <1>0, <1>a, <1>4 DEF PostPayment, HasPaid, Working, PCs
    <2>2. CASE UNCHANGED payments
      BY <2>1, <2>2, PaymentsLostQuiet
    <2>3. CASE payments' = [payments EXCEPT ![r.cur] =
                                Append(@, [invoice |-> n, booked |-> FALSE])]
      <3>1. /\ Len(payments'[r.cur]) = Len(payments[r.cur]) + 1
            /\ c # r.cur => payments'[c] = payments[c]
        BY <2>1, <2>3, NewPayment
      <3>2. CASE c # r.cur
        BY <2>1, <3>1, <3>2, PaymentsLostQuiet
      <3>3. CASE c = r.cur
        <4>0. c \notin paid /\ c \notin paid' /\ Len(payments'[c]) = Len(payments[c]) + 1
          BY <2>1, <3>1, <3>3
        <4>1. \/ faults' = faults + 1
              \/ Becomes(Scheduler, [run[Scheduler] EXCEPT !.pc = "bookPayment",
                                                   !.pay = Len(payments[r.cur]) + 1])
              \/ UNCHANGED payments
          BY <1>4 DEF PostPayment, Fault
        <4>2. CASE faults' = faults + 1
          <5>1. LostPayments(c)' <= LostPayments(c) + 1
            BY <1>a, <2>1, <4>0, LostPaymentsIs
          <5> QED BY <2>1, <3>3, <4>2, <5>1
        <4>3. CASE Becomes(Scheduler, [run[Scheduler] EXCEPT !.pc = "bookPayment",
                                                   !.pay = Len(payments[r.cur]) + 1])
          <5>1. HasPaid(c)'
            BY <1>0, <3>3, <4>3, PostPaymentMoves DEF HasPaid
          <5>2. LostPayments(c)' <= LostPayments(c)
            BY <1>a, <2>1, <4>0, <5>1, LostPaymentsIs
          <5> QED BY <5>2
        <4> QED BY <2>2, <4>1, <4>2, <4>3
      <3> QED BY <3>2, <3>3
    <2> QED BY <1>4, <2>0, <2>2, <2>3 DEF PostPayment
  <1>5. CASE BookPayment(Scheduler)
    <2>1. /\ r.pc = "bookPayment" /\ r.cur \in Charges /\ UNCHANGED paid
          /\ r.pay \in DOMAIN payments[r.cur]
          /\ Goto(Scheduler, "setPaid") \/ faults' = faults + 1
      BY <1>0, <1>5 DEF BookPayment, Fault, InHand, Working, PCs
    <2>2. Len(payments'[c]) = Len(payments[c])
      BY <1>5, <2>1, PaymentBooked DEF BookPayment
    <2>3. CASE Goto(Scheduler, "setPaid")
      <3>1. HasPaid(c) => HasPaid(c)'
        BY <1>0, <2>3, GotoMoves DEF HasPaid
      <3> QED BY <2>1, <2>2, <3>1, PaymentsLostQuiet
    <2>4. CASE faults' = faults + 1 /\ HasPaid(c)
      <3>1. LostPayments(c)' <= LostPayments(c) + 1
        BY <1>a, <2>2, LostPaymentsIs
      <3> QED BY <2>1, <2>4, <3>1 DEF HasPaid
    <2>5. CASE ~HasPaid(c)
      BY <2>1, <2>2, <2>5, PaymentsLostQuiet
    <2> QED BY <2>1, <2>3, <2>4, <2>5
  <1>6. CASE SetPaid(Scheduler)
    <2>1. /\ r.pc = "setPaid" /\ r.cur \in Charges /\ UNCHANGED payments
          /\ \/ paid' = paid \cup {r.cur}
             \/ UNCHANGED paid /\ faults' = faults + 1
      BY <1>0, <1>6 DEF SetPaid, Pay, Fault, Working, PCs
    <2>2. CASE paid' = paid \cup {r.cur}
      BY <2>1, <2>2, PaymentsLostQuiet DEF HasPaid
    <2>3. CASE UNCHANGED paid /\ faults' = faults + 1 /\ HasPaid(c)
      <3>1. LostPayments(c)' <= LostPayments(c) + 1
        BY <1>a, <2>1, LostPaymentsIs
      <3> QED BY <2>1, <2>3, <3>1 DEF HasPaid
    <2>4. CASE UNCHANGED paid /\ ~HasPaid(c)
      BY <2>1, <2>4, PaymentsLostQuiet
    <2> QED BY <2>1, <2>2, <2>3, <2>4
  <1>7. CASE r.pc \in {"payment", "bookPayment", "setPaid"}
             /\ (StartRun(Scheduler) \/ Continue(Scheduler))
    BY <1>4, <1>5, <1>6, <1>7, StepsAt
  <1> QED BY <1>0, <1>1, <1>2, <1>3, <1>7 DEF Next

\* And of the records of a customer.
LEMMA LostRecordsIs ==
    ASSUME TypeInv, TypeInv', NEW k \in Customers
    PROVE  /\ customers[k] \in Nat /\ customers'[k] \in Nat
           /\ WillRepeat(k) => LostRecords(k) = customers[k]
           /\ (k \in custNo \/ HasCreated(k)) /\ ~WillRepeat(k) =>
                  LostRecords(k) = customers[k] - 1
           /\ ~(k \in custNo \/ HasCreated(k)) => LostRecords(k) = customers[k]
           /\ WillRepeat(k)' => LostRecords(k)' = customers'[k]
           /\ (k \in custNo' \/ HasCreated(k)') /\ ~WillRepeat(k)' =>
                  LostRecords(k)' = customers'[k] - 1
           /\ ~(k \in custNo' \/ HasCreated(k)') => LostRecords(k)' = customers'[k]
  <1>1. customers[k] \in Nat /\ customers'[k] \in Nat
    BY DEF TypeInv, TypeOK
  <1>2. WillRepeat(k) => k \in custNo
    BY DEF WillRepeat
  <1>3. WillRepeat(k)' => k \in custNo'
    BY DEF WillRepeat
  <1> QED BY <1>1, <1>2, <1>3 DEF LostRecords, One

\* A step that leaves the customers and their numbers.
LEMMA RecordsLostQuiet ==
    ASSUME TypeInv, TypeInv', NEW k \in Customers, UNCHANGED <<customers, custNo>>,
           HasCreated(k) => HasCreated(k)',
           WillRepeat(k)' => WillRepeat(k)
    PROVE  LostRecords(k)' <= LostRecords(k)
  <1>1. customers'[k] = customers[k] /\ (k \in custNo <=> k \in custNo')
    OBVIOUS
  <1> QED BY <1>1, LostRecordsIs

LEMMA RecordsLostNext ==
    ASSUME Triggers = {}, TypeInv, TypeInv', [Next]_vars, NEW k \in Customers
    PROVE  \/ LostRecords(k)' <= LostRecords(k)
           \/ /\ LostRecords(k)' <= LostRecords(k) + 1 /\ faults' = faults + 1
              /\ \/ /\ k = CustomerOf[run[Scheduler].cur]
                    /\ run[Scheduler].pc \in {"customer", "saveCustomer"}
                 \/ /\ k = CustomerOf[run'[Scheduler].cur]
                    /\ run[Scheduler].pc = "next"
  <1> DEFINE r == run[Scheduler]
  <1>0. /\ Workers = {Scheduler}
        /\ r \in Run /\ (r.pc \in Working => r.cur \in Charges)
        /\ customers \in [Customers \cup {NoCustomer} -> Nat]
    BY RunType DEF Workers, TypeInv, TypeOK
  <1>a. /\ HasCreated(k) <=> r.pc = "saveCustomer" /\ CustomerOf[r.cur] = k
        /\ HasCreated(k)' <=> run'[Scheduler].pc = "saveCustomer"
                              /\ CustomerOf[run'[Scheduler].cur] = k
        /\ WillRepeat(k) <=> r.pc = "customer" /\ CustomerOf[r.cur] = k /\ k \in custNo
        /\ WillRepeat(k)' <=> run'[Scheduler].pc = "customer"
                              /\ CustomerOf[run'[Scheduler].cur] = k /\ k \in custNo'
    BY <1>0 DEF HasCreated, WillRepeat, HaveCreated, MayCreate
  <1> USE DEF stripe, columns, fortnox
  <1>1. ASSUME UNCHANGED <<customers, custNo>>, ~HasCreated(k), ~WillRepeat(k)'
        PROVE  LostRecords(k)' <= LostRecords(k)
    BY <1>1, RecordsLostQuiet
  <1>2. CASE Crash
    <2>1. UNCHANGED <<customers, custNo>> /\ faults' = faults + 1
          /\ run'[Scheduler].pc = "idle"
      BY <1>0, <1>2 DEF Crash, Fault, Idle
    <2>2. CASE HasCreated(k)
      <3>1. LostRecords(k)' <= LostRecords(k) + 1
        <4>1. customers'[k] = customers[k]
          BY <2>1
        <4> QED BY <4>1, LostRecordsIs
      <3> QED BY <1>a, <2>1, <2>2, <3>1
    <2>3. CASE ~HasCreated(k)
      BY <1>1, <1>a, <2>1, <2>3
    <2> QED BY <2>2, <2>3
  <1>3. CASE (\E d \in Charges : StoreCharge(d) \/ StoreTxn(d)) \/ UNCHANGED vars
    <2>1. UNCHANGED <<customers, custNo, run>>
      BY <1>3 DEF StoreCharge, StoreTxn, vars
    <2> QED BY <1>a, <2>1, RecordsLostQuiet
  <1>4. CASE GetCustomer(Scheduler)
    <2>1. r.pc = "next" /\ UNCHANGED <<customers, custNo>>
      BY <1>4 DEF GetCustomer
    <2>2. \/ run'[Scheduler].pc = "invoice"
          \/ /\ run'[Scheduler].pc = "customer"
             /\ CustomerOf[run'[Scheduler].cur] \in custNo => faults' = faults + 1
      BY <1>0, <1>4, GetMoves
    <2>3. CASE WillRepeat(k)'
      <3>1. faults' = faults + 1 /\ k = CustomerOf[run'[Scheduler].cur]
        BY <1>a, <2>1, <2>2, <2>3
      <3>2. LostRecords(k)' <= LostRecords(k) + 1
        <4>1. customers'[k] = customers[k]
          BY <2>1
        <4> QED BY <4>1, LostRecordsIs
      <3> QED BY <2>1, <3>1, <3>2
    <2>4. CASE ~WillRepeat(k)'
      BY <1>1, <1>a, <2>1, <2>4
    <2> QED BY <2>3, <2>4
  <1>5. CASE PostCustomer(Scheduler)
    <2>1. r.pc = "customer" /\ UNCHANGED custNo /\ ~HasCreated(k)
          /\ r.cur \in Charges /\ (k \in custNo <=> k \in custNo')
      BY <1>0, <1>5, <1>a DEF PostCustomer, Working, PCs
    <2>2. /\ run'[Scheduler].pc \in {"saveCustomer", "next"}
          /\ \/ UNCHANGED customers
             \/ /\ customers' = [customers EXCEPT ![CustomerOf[r.cur]] = @ + 1]
                /\ \/ faults' = faults + 1
                   \/ /\ run'[Scheduler].pc = "saveCustomer"
                      /\ run'[Scheduler].cur = r.cur
      BY <1>0, <1>5, GotoMoves, LeaveMoves
         DEF PostCustomer, GoesOn, InvoiceFails, Fault
    <2>3. ~WillRepeat(k)'
      BY <1>a, <2>2
    <2>4. CASE UNCHANGED customers
      BY <1>1, <2>1, <2>3, <2>4
    <2>5. CASE customers' = [customers EXCEPT ![CustomerOf[r.cur]] = @ + 1]
               /\ CustomerOf[r.cur] # k
      <3>1. customers'[k] = customers[k] /\ ~WillRepeat(k)
        BY <1>0, <1>a, <2>5
      <3> QED BY <2>1, <2>3, <3>1, LostRecordsIs
    <2>6. CASE customers' = [customers EXCEPT ![CustomerOf[r.cur]] = @ + 1]
               /\ CustomerOf[r.cur] = k
      <3>1. customers'[k] = customers[k] + 1
        BY <1>0, <2>6
      <3>2. CASE k \in custNo
        <4>1. WillRepeat(k)
          BY <1>a, <2>1, <2>6, <3>2
        <4> QED BY <2>1, <2>3, <3>1, <3>2, <4>1, LostRecordsIs
      <3>3. CASE k \notin custNo /\ faults' = faults + 1
        <4>1. LostRecords(k)' <= LostRecords(k) + 1
          BY <2>1, <3>1, <3>3, LostRecordsIs
        <4> QED BY <2>1, <2>6, <3>3, <4>1
      <3>4. CASE k \notin custNo /\ run'[Scheduler].pc = "saveCustomer"
                 /\ run'[Scheduler].cur = r.cur
        <4>1. HasCreated(k)'
          BY <1>a, <2>6, <3>4
        <4> QED BY <2>1, <2>3, <3>1, <3>4, <4>1, LostRecordsIs
      <3>5. CASE UNCHANGED customers
        BY <2>4, <3>5
      <3> QED BY <2>2, <3>2, <3>3, <3>4, <3>5
    <2> QED BY <2>2, <2>4, <2>5, <2>6
  <1>6. CASE SaveCustomer(Scheduler)
    <2>1. /\ r.pc = "saveCustomer" /\ UNCHANGED customers /\ r.cur \in Charges
          /\ customers'[k] = customers[k] /\ ~WillRepeat(k)
      BY <1>0, <1>6, <1>a DEF SaveCustomer, Working, PCs
    <2>2. /\ run'[Scheduler].pc \in {"invoice", "next"}
          /\ \/ UNCHANGED custNo /\ faults' = faults + 1
             \/ custNo' = custNo \cup ({CustomerOf[r.cur]} \ {NoCustomer})
      BY <1>0, <1>6, GotoMoves, LeaveMoves
         DEF SaveCustomer, SetCustomer, GoesOn, InvoiceFails, Fault
    <2>3. ~WillRepeat(k)' /\ ~HasCreated(k)'
      BY <1>a, <2>2
    <2>4. CASE ~HasCreated(k)
      <3>1. k \in custNo <=> k \in custNo'
        BY <1>a, <2>1, <2>2, <2>4
      <3> QED BY <2>1, <2>3, <2>4, <3>1, LostRecordsIs
    <2>5. CASE HasCreated(k) /\ UNCHANGED custNo /\ faults' = faults + 1
      <3>1. LostRecords(k)' <= LostRecords(k) + 1
        BY <2>1, LostRecordsIs
      <3> QED BY <1>a, <2>5, <3>1
    <2>6. CASE HasCreated(k) /\ custNo' = custNo \cup ({CustomerOf[r.cur]} \ {NoCustomer})
      <3>1. k \in custNo'
        BY <1>a, <2>6, CustomersAssumption
      <3> QED BY <2>1, <2>3, <2>6, <3>1, LostRecordsIs
    <2> QED BY <2>2, <2>4, <2>5, <2>6
  <1>7. CASE r.pc \notin {"customer", "saveCustomer"} /\ ~GetCustomer(Scheduler)
             /\ (StartRun(Scheduler) \/ Continue(Scheduler))
    <2>1. UNCHANGED <<customers, custNo>> /\ ~HasCreated(k)
      BY <1>7, <1>a DEF Continue, StartRun, ListUnpaid, NextUnpaid, EndRun, PostCustomer,
           SaveCustomer, PostInvoice, BookInvoice, SaveNumber, Created,
           PostPayment, BookPayment, SetPaid
    <2>2. run'[Scheduler].pc # "customer"
      <3>1. CASE StartRun(Scheduler) \/ ListUnpaid(Scheduler) \/ NextUnpaid(Scheduler)
                 \/ EndRun(Scheduler)
        BY <1>0, <3>1, StartMoves, ListMoves, NextMoves, EndMoves DEF Idle
      <3>2. CASE PostInvoice(Scheduler) \/ PostPayment(Scheduler)
        BY <1>0, <3>2, LeaveMoves, PostInvoiceMoves, PostPaymentMoves
           DEF PostInvoice, PostPayment, InvoiceFails
      <3>3. CASE BookInvoice(Scheduler) \/ SaveNumber(Scheduler) \/ Created(Scheduler)
                 \/ BookPayment(Scheduler) \/ SetPaid(Scheduler)
        BY <1>0, <3>3, GotoMoves, LeaveMoves
           DEF BookInvoice, SaveNumber, Created, BookPayment, SetPaid, InvoiceFails,
               GoesOn, BookInvoiceRejected, BookPaymentRejected
      <3> QED BY <1>7, <3>1, <3>2, <3>3, StepsAt
    <2> QED BY <1>1, <1>a, <2>1, <2>2
  <1> QED BY <1>0, <1>2, <1>3, <1>4, <1>5, <1>6, <1>7, StepsAt DEF Next

LEMMA RecordInvNext ==
    ASSUME Triggers = {}, TypeInv, TypeInv', RecordInv, [Next]_vars
    PROVE  RecordInv'
  <1> DEFINE r == run[Scheduler]
  <1> SUFFICES ASSUME NEW k \in Customers, k \in custNo' \/ HasCreated(k)'
               PROVE  customers'[k] > 0
    BY DEF RecordInv
  <1>0. /\ Workers = {Scheduler}
        /\ r \in Run /\ (r.pc \in Working => r.cur \in Charges)
        /\ customers \in [Customers \cup {NoCustomer} -> Nat]
        /\ customers[k] \in Nat
        /\ k \in custNo \/ HasCreated(k) => customers[k] > 0
    BY RunType DEF Workers, TypeInv, TypeOK, RecordInv
  <1>a. /\ HasCreated(k) <=> r.pc = "saveCustomer" /\ CustomerOf[r.cur] = k
        /\ HasCreated(k)' <=> run'[Scheduler].pc = "saveCustomer"
                              /\ CustomerOf[run'[Scheduler].cur] = k
    BY <1>0 DEF HasCreated, HaveCreated
  <1> USE DEF stripe, columns, fortnox
  <1>1. CASE PostCustomer(Scheduler)
    <2>1. /\ UNCHANGED custNo /\ r.cur \in Charges
          /\ \/ UNCHANGED customers /\ run'[Scheduler].pc = "next"
             \/ customers' = [customers EXCEPT ![CustomerOf[r.cur]] = @ + 1]
          /\ run'[Scheduler].pc = "saveCustomer" => run'[Scheduler].cur = r.cur
      BY <1>0, <1>1, GotoMoves, LeaveMoves
         DEF PostCustomer, GoesOn, InvoiceFails, Working, PCs
    <2>2. CASE UNCHANGED customers /\ run'[Scheduler].pc = "next"
      BY <1>0, <1>a, <2>1, <2>2
    <2>3. CASE customers' = [customers EXCEPT ![CustomerOf[r.cur]] = @ + 1]
      <3>1. customers'[k] = IF CustomerOf[r.cur] = k THEN customers[k] + 1 ELSE customers[k]
        BY <1>0, <2>3
      <3>2. CustomerOf[r.cur] # k => k \in custNo
        BY <1>a, <2>1
      <3> QED BY <1>0, <3>1, <3>2
    <2> QED BY <2>1, <2>2, <2>3
  <1>2. CASE SaveCustomer(Scheduler)
    <2>1. /\ r.pc = "saveCustomer" /\ UNCHANGED customers
          /\ run'[Scheduler].pc # "saveCustomer"
          /\ custNo' \subseteq custNo \cup {CustomerOf[r.cur]}
      BY <1>0, <1>2, GotoMoves, LeaveMoves
         DEF SaveCustomer, SetCustomer, GoesOn, InvoiceFails
    <2> QED BY <1>0, <1>a, <2>1
  <1>3. CASE Crash
    <2>1. UNCHANGED <<customers, custNo>> /\ run'[Scheduler].pc = "idle"
      BY <1>0, <1>3 DEF Crash, Idle
    <2> QED BY <1>0, <1>a, <2>1
  <1>4. CASE (\E d \in Charges : StoreCharge(d) \/ StoreTxn(d)) \/ UNCHANGED vars
    <2>1. UNCHANGED <<customers, custNo, run>>
      BY <1>4 DEF StoreCharge, StoreTxn, vars
    <2> QED BY <1>0, <1>a, <2>1
  <1>5. CASE ~PostCustomer(Scheduler) /\ ~SaveCustomer(Scheduler)
             /\ (StartRun(Scheduler) \/ Continue(Scheduler))
    <2>1. UNCHANGED <<customers, custNo>>
      BY <1>5 DEF Continue, StartRun, GetCustomer, ListUnpaid, NextUnpaid, EndRun,
           PostInvoice, BookInvoice, SaveNumber, Created, PostPayment, BookPayment, SetPaid
    <2>2. run'[Scheduler].pc # "saveCustomer"
      <3>1. CASE StartRun(Scheduler) \/ GetCustomer(Scheduler) \/ ListUnpaid(Scheduler)
                 \/ NextUnpaid(Scheduler) \/ EndRun(Scheduler)
        BY <1>0, <3>1, StartMoves, GetMoves, ListMoves, NextMoves, EndMoves DEF Idle
      <3>2. CASE PostInvoice(Scheduler) \/ PostPayment(Scheduler)
        BY <1>0, <3>2, LeaveMoves, PostInvoiceMoves, PostPaymentMoves
           DEF PostInvoice, PostPayment, InvoiceFails
      <3>3. CASE BookInvoice(Scheduler) \/ SaveNumber(Scheduler) \/ Created(Scheduler)
                 \/ BookPayment(Scheduler) \/ SetPaid(Scheduler)
        BY <1>0, <3>3, GotoMoves, LeaveMoves
           DEF BookInvoice, SaveNumber, Created, BookPayment, SetPaid, InvoiceFails,
               GoesOn, BookInvoiceRejected, BookPaymentRejected
      <3> QED BY <1>5, <3>1, <3>2, <3>3 DEF Continue
    <2> QED BY <1>0, <1>a, <2>1, <2>2
  <1> QED BY <1>0, <1>1, <1>2, <1>3, <1>4, <1>5 DEF Next

\* The sums of LostInv are sums of integers.
LEMMA LostSums ==
    ASSUME IsFiniteSet(Charges), IsFiniteSet(Customers), TypeInv, BookedInv
    PROVE  /\ Summable(LostOfCharges, Charges)
           /\ Summable(LostOfCustomers, Customers)
           /\ SumFunction(LostOfCharges) = SumFunctionOnSet(LostOfCharges, Charges)
           /\ SumFunction(LostOfCustomers) = SumFunctionOnSet(LostOfCustomers, Customers)
           /\ SumFunctionOnSet(LostOfCharges, Charges) \in Int
           /\ SumFunctionOnSet(LostOfCustomers, Customers) \in Int
           /\ LostInv <=> SumFunctionOnSet(LostOfCharges, Charges)
                          + SumFunctionOnSet(LostOfCustomers, Customers) <= faults
  <1>1. Summable(LostOfCharges, Charges)
    BY LostType DEF Summable, LostOfCharges
  <1>2. Summable(LostOfCustomers, Customers)
    <2>1. \A k \in Customers : customers[k] \in Nat
      BY DEF TypeInv, TypeOK
    <2>2. \A k \in Customers : LostRecords(k) \in Int
      BY <2>1 DEF LostRecords, One
    <2> QED BY <2>2 DEF Summable, LostOfCustomers
  <1>3. /\ SumFunction(LostOfCharges) = SumFunctionOnSet(LostOfCharges, Charges)
        /\ SumFunction(LostOfCustomers) = SumFunctionOnSet(LostOfCustomers, Customers)
    BY DEF SumFunction, LostOfCharges, LostOfCustomers
  <1>4. LostInv <=> SumFunction(LostOfCharges) + SumFunction(LostOfCustomers) <= faults
    BY DEF LostInv
  <1> QED BY <1>1, <1>2, <1>3, <1>4, SumType

LEMMA LostInvInit ==
    ASSUME IsFiniteSet(Charges), IsFiniteSet(Customers), Init
    PROVE  RecordInv /\ LostInv
  <1>0. TypeInv /\ BookedInv
    BY TypeInvInit, BookedInvInit
  <1>1. /\ \A c \in Charges : number[c] = Null /\ invoices[c] = <<>> /\ payments[c] = <<>>
        /\ paid = {} /\ custNo = {} /\ faults = 0
        /\ run[Scheduler].pc = "idle"
        /\ \A k \in Customers : customers[k] = 0
    BY DEF Init, Idle, Workers
  <1>2. \A k \in Customers : ~HasCreated(k) /\ ~WillRepeat(k)
    BY <1>1 DEF HasCreated, WillRepeat, HaveCreated, MayCreate
  <1>3. \A c \in Charges : ~HasPosted(Scheduler, c) /\ ~HasPaid(c)
    BY <1>1 DEF HasPosted, HasPaid
  <1>4. \A c \in Charges : LostOfCharges[c] = 0
    <2> SUFFICES ASSUME NEW c \in Charges PROVE LostOfCharges[c] = 0
      OBVIOUS
    <2>1. Len(invoices[c]) = 0 /\ Len(payments[c]) = 0
      BY <1>1
    <2>2. LostInvoices(c) = 0
      BY <1>1, <1>3, <2>1, LostInvoicesIs
    <2>3. LostPayments(c) = 0
      BY <1>1, <1>3, <2>1, LostPaymentsIs
    <2> QED BY <2>2, <2>3 DEF LostOfCharges
  <1>5. \A k \in Customers : LostOfCustomers[k] = 0
    BY <1>1, <1>2 DEF LostOfCustomers, LostRecords, One
  <1>6. /\ SumFunctionOnSet(LostOfCharges, Charges) = 0
        /\ SumFunctionOnSet(LostOfCustomers, Customers) = 0
    BY <1>4, <1>5, SumZero
  <1>7. RecordInv
    BY <1>1, <1>2 DEF RecordInv
  <1>8. LostInv <=> SumFunctionOnSet(LostOfCharges, Charges)
                    + SumFunctionOnSet(LostOfCustomers, Customers) <= faults
    BY <1>0, LostSums
  <1>9. LostInv
    BY <1>1, <1>6, <1>8
  <1> QED BY <1>7, <1>9

\* In either state of a step what is lost can be counted, and summed up.
LostIsCounted ==
    \A c \in Charges : LostInvoices(c) \in Nat /\ LostPayments(c) \in Nat

SumsAreIntegers ==
    /\ Summable(LostOfCharges, Charges)
    /\ Summable(LostOfCustomers, Customers)
    /\ SumFunctionOnSet(LostOfCharges, Charges) \in Int
    /\ SumFunctionOnSet(LostOfCustomers, Customers) \in Int
    /\ LostInv <=> SumFunctionOnSet(LostOfCharges, Charges)
                   + SumFunctionOnSet(LostOfCustomers, Customers) <= faults

Finite == IsFiniteSet(Charges) /\ IsFiniteSet(Customers)

LEMMA LostCounted == TypeInv /\ BookedInv => LostIsCounted
  BY LostType DEF LostIsCounted

LEMMA LostCountedNext == TypeInv' /\ BookedInv' => LostIsCounted'
  BY LostCounted, PTL

LEMMA LostSummed == Finite /\ TypeInv /\ BookedInv => SumsAreIntegers
  BY LostSums DEF SumsAreIntegers, Finite

LEMMA LostSummedNext == Finite' /\ TypeInv' /\ BookedInv' => SumsAreIntegers'
  BY LostSummed, PTL


\* Of the charge in hand or of one customer one more is lost with a fault,
\* and of nothing without one.
LEMMA LostStep ==
    ASSUME Triggers = {}, IsFiniteSet(Charges), IsFiniteSet(Customers),
           TypeInv, TypeInv', BookedInv, BookedInv', AloneInv, UnpaidInv, [Next]_vars
    PROVE  SumFunctionOnSet(LostOfCharges', Charges)
           + SumFunctionOnSet(LostOfCustomers', Customers)
           <= SumFunctionOnSet(LostOfCharges, Charges)
              + SumFunctionOnSet(LostOfCustomers, Customers) + (faults' - faults)
  <1>1. faults \in Nat /\ faults' \in {faults, faults + 1}
    BY FaultStep
  <1> DEFINE r == run[Scheduler]
             f == LostOfCharges
             f2 == LostOfCharges'
             g == LostOfCustomers
             g2 == LostOfCustomers'
             k0 == IF r.pc = "next" THEN CustomerOf[run'[Scheduler].cur] ELSE CustomerOf[r.cur]
             AtCharge == r.pc \in {"invoice", "bookInvoice", "saveNumber",
                                   "payment", "bookPayment", "setPaid"}
             AtCustomer == r.pc \in {"next", "customer", "saveCustomer"}
  <1>2. /\ Summable(f, Charges) /\ Summable(g, Customers)
        /\ SumFunctionOnSet(f, Charges) \in Int /\ SumFunctionOnSet(g, Customers) \in Int
    BY LostSums
  <1>3. /\ Summable(f2, Charges) /\ Summable(g2, Customers)
        /\ SumFunctionOnSet(f2, Charges) \in Int /\ SumFunctionOnSet(g2, Customers) \in Int
    <2>1. SumsAreIntegers'
      BY LostSummedNext DEF Finite
    <2> QED BY <2>1 DEF SumsAreIntegers
  <1>4. ASSUME NEW c \in Charges
        PROVE  \/ f2[c] <= f[c]
               \/ /\ f2[c] <= f[c] + 1 /\ faults' = faults + 1
                  /\ c = r.cur /\ AtCharge
    <2>1. /\ LostInvoices(c) \in Nat /\ LostInvoices(c)' \in Nat
          /\ LostPayments(c) \in Nat /\ LostPayments(c)' \in Nat
      BY LostCounted, LostCountedNext DEF LostIsCounted
    <2>2. f[c] = LostInvoices(c) + LostPayments(c)
          /\ f2[c] = LostInvoices(c)' + LostPayments(c)'
      BY DEF LostOfCharges
    <2>3. \/ LostInvoices(c)' <= LostInvoices(c)
          \/ /\ LostInvoices(c)' <= LostInvoices(c) + 1 /\ faults' = faults + 1
             /\ c = r.cur
             /\ r.pc \in {"invoice", "bookInvoice", "saveNumber"}
      BY InvoicesLostNext
    <2>4. \/ LostPayments(c)' <= LostPayments(c)
          \/ /\ LostPayments(c)' <= LostPayments(c) + 1 /\ faults' = faults + 1
             /\ c = r.cur
             /\ r.pc \in {"payment", "bookPayment", "setPaid"}
      BY PaymentsLostNext
    <2> HIDE DEF f, f2
    <2> QED BY <2>1, <2>2, <2>3, <2>4
  <1>5. ASSUME NEW k \in Customers
        PROVE  \/ g2[k] <= g[k]
               \/ /\ g2[k] <= g[k] + 1 /\ faults' = faults + 1
                  /\ k = k0 /\ AtCustomer
    <2>1. \/ LostRecords(k)' <= LostRecords(k)
          \/ /\ LostRecords(k)' <= LostRecords(k) + 1 /\ faults' = faults + 1
             /\ \/ /\ k = CustomerOf[r.cur]
                   /\ r.pc \in {"customer", "saveCustomer"}
                \/ /\ k = CustomerOf[run'[Scheduler].cur]
                   /\ r.pc = "next"
      BY RecordsLostNext
    <2>2. g[k] = LostRecords(k) /\ g2[k] = LostRecords(k)'
      BY DEF LostOfCustomers
    <2> HIDE DEF g, g2
    <2> QED BY <2>1, <2>2
  <1>6. ~(AtCharge /\ AtCustomer)
    OBVIOUS
  <1> HIDE DEF r, f, f2, g, g2, k0, AtCharge, AtCustomer
  <1>7. CASE \E c \in Charges : ~(f2[c] <= f[c])
    <2>1. PICK c \in Charges : ~(f2[c] <= f[c])
      BY <1>7
    <2>2. f2[c] <= f[c] + 1 /\ faults' = faults + 1 /\ AtCharge /\ c = r.cur
      BY <1>4, <2>1
    <2>3. \A d \in Charges : d # c => f2[d] <= f[d]
      BY <1>4, <2>2
    <2>4. SumFunctionOnSet(f2, Charges) <= SumFunctionOnSet(f, Charges) + 1
      BY <1>2, <1>3, <2>2, <2>3, SumPlusOne
    <2>5. \A k \in Customers : g2[k] <= g[k]
      BY <1>5, <1>6, <2>2
    <2>6. SumFunctionOnSet(g2, Customers) <= SumFunctionOnSet(g, Customers)
      BY <1>2, <1>3, <2>5, SumMonotone
    <2> QED BY <1>1, <1>2, <1>3, <2>2, <2>4, <2>6 DEF f, f2, g, g2
  <1>8. CASE /\ \A c \in Charges : f2[c] <= f[c]
             /\ \E k \in Customers : ~(g2[k] <= g[k])
    <2>1. PICK k \in Customers : ~(g2[k] <= g[k])
      BY <1>8
    <2>2. g2[k] <= g[k] + 1 /\ faults' = faults + 1 /\ k = k0
      BY <1>5, <2>1
    <2>3. \A l \in Customers : l # k => g2[l] <= g[l]
      BY <1>5, <2>2
    <2>4. SumFunctionOnSet(g2, Customers) <= SumFunctionOnSet(g, Customers) + 1
      BY <1>2, <1>3, <2>2, <2>3, SumPlusOne
    <2>5. SumFunctionOnSet(f2, Charges) <= SumFunctionOnSet(f, Charges)
      BY <1>2, <1>3, <1>8, SumMonotone
    <2> QED BY <1>1, <1>2, <1>3, <2>2, <2>4, <2>5 DEF f, f2, g, g2
  <1>9. CASE /\ \A c \in Charges : f2[c] <= f[c]
             /\ \A k \in Customers : g2[k] <= g[k]
    <2>1. SumFunctionOnSet(f2, Charges) <= SumFunctionOnSet(f, Charges)
      BY <1>2, <1>3, <1>9, SumMonotone
    <2>2. SumFunctionOnSet(g2, Customers) <= SumFunctionOnSet(g, Customers)
      BY <1>2, <1>3, <1>9, SumMonotone
    <2> QED BY <1>1, <1>2, <1>3, <2>1, <2>2 DEF f, f2, g, g2
  <1> QED BY <1>7, <1>8, <1>9

LEMMA LostInvNext ==
    ASSUME Triggers = {}, IsFiniteSet(Charges), IsFiniteSet(Customers),
           TypeInv, TypeInv', BookedInv, BookedInv', AloneInv, UnpaidInv, LostInv,
           [Next]_vars
    PROVE  LostInv'
  <1>1. SumsAreIntegers /\ SumsAreIntegers'
    BY LostSummed, LostSummedNext DEF Finite
  <1> DEFINE a == SumFunctionOnSet(LostOfCharges, Charges)
             b == SumFunctionOnSet(LostOfCustomers, Customers)
  <1>2. /\ a \in Int /\ b \in Int /\ a' \in Int /\ b' \in Int
        /\ LostInv <=> a + b <= faults
        /\ LostInv' <=> a' + b' <= faults'
    BY <1>1 DEF SumsAreIntegers
  <1>3. a' + b' <= a + b + (faults' - faults)
    BY LostStep
  <1>4. faults \in Nat /\ faults' \in Nat
    BY FaultStep
  <1>5. ASSUME NEW a1 \in Int, NEW b1 \in Int, NEW a2 \in Int, NEW b2 \in Int,
               NEW m \in Nat, NEW n \in Nat, a1 + b1 <= m, a2 + b2 <= a1 + b1 + (n - m)
        PROVE  a2 + b2 <= n
    BY <1>5
  <1>6. a' + b' <= faults'
    <2> HIDE DEF a, b
    <2> QED BY <1>2, <1>3, <1>4, <1>5
  <1> QED BY <1>2, <1>6

\* Of what Fortnox holds more than once all but one was lost.
LEMMA ExcessIsLost ==
    ASSUME IsFiniteSet(Charges), IsFiniteSet(Customers),
           TypeInv, BookedInv, RecordInv, LostInv
    PROVE  DuplicatesCostFaults
  <1> DEFINE f == [c \in Charges |-> Excess(Len(invoices[c])) + Excess(Len(payments[c]))]
             g == [k \in Customers |-> Excess(customers[k])]
             fl == LostOfCharges
             gl == LostOfCustomers
  <1>1. ASSUME NEW c \in Charges
        PROVE  f[c] \in Nat /\ f[c] <= fl[c]
    <2>1. Len(invoices[c]) \in Nat /\ Len(payments[c]) \in Nat
      BY FortnoxFacts
    <2>2. LostInvoices(c) \in Nat /\ LostPayments(c) \in Nat
      BY LostType
    <2>3. Excess(Len(invoices[c])) \in Nat /\ Excess(Len(invoices[c])) <= LostInvoices(c)
      BY <2>1, <2>2, LostInvoicesIs DEF Excess
    <2>4. Excess(Len(payments[c])) \in Nat /\ Excess(Len(payments[c])) <= LostPayments(c)
      BY <2>1, <2>2, LostPaymentsIs DEF Excess
    <2>5. f[c] = Excess(Len(invoices[c])) + Excess(Len(payments[c]))
          /\ fl[c] = LostInvoices(c) + LostPayments(c)
      BY DEF LostOfCharges
    <2> HIDE DEF f, fl
    <2> QED BY <2>2, <2>3, <2>4, <2>5
  <1>2. ASSUME NEW k \in Customers
        PROVE  g[k] \in Nat /\ g[k] <= gl[k]
    <2>1. customers[k] \in Nat
      BY DEF TypeInv, TypeOK
    <2>2. gl[k] = customers[k] + One(WillRepeat(k)) - One(k \in custNo \/ HasCreated(k))
      BY DEF LostOfCustomers, LostRecords
    <2>3. k \in custNo \/ HasCreated(k) => customers[k] > 0
      BY DEF RecordInv
    <2>4. WillRepeat(k) => k \in custNo
      BY DEF WillRepeat
    <2>5. g[k] = Excess(customers[k])
      OBVIOUS
    <2> HIDE DEF g, gl
    <2> QED BY <2>1, <2>2, <2>3, <2>4, <2>5 DEF Excess, One
  <1>3. /\ SumsAreIntegers
        /\ Summable(f, Charges) /\ SumFunctionOnSet(f, Charges) \in Int
        /\ Summable(g, Customers) /\ SumFunctionOnSet(g, Customers) \in Int
    <2> HIDE DEF f, g
    <2> QED BY <1>1, <1>2, LostSummed, SumNat DEF Finite
  <1>4. /\ SumFunctionOnSet(f, Charges) <= SumFunctionOnSet(fl, Charges)
        /\ SumFunctionOnSet(g, Customers) <= SumFunctionOnSet(gl, Customers)
    <2> HIDE DEF f, g
    <2> QED BY <1>1, <1>2, <1>3, SumMonotone DEF SumsAreIntegers
  <1>5. SumFunctionOnSet(fl, Charges) + SumFunctionOnSet(gl, Customers) <= faults
    BY <1>3 DEF SumsAreIntegers
  <1>6. faults \in Nat
    BY DEF TypeInv, TypeOK
  <1>7. SumFunctionOnSet(fl, Charges) \in Int /\ SumFunctionOnSet(gl, Customers) \in Int
    BY <1>3 DEF SumsAreIntegers
  <1>8. SumFunctionOnSet(f, Charges) + SumFunctionOnSet(g, Customers) <= faults
    <2> HIDE DEF f, g, fl, gl
    <2> QED BY <1>3, <1>4, <1>5, <1>6, <1>7
  <1>9. /\ SumFunction(f) = SumFunctionOnSet(f, Charges)
        /\ SumFunction(g) = SumFunctionOnSet(g, Customers)
    BY DEF SumFunction
  <1> QED BY <1>8, <1>9 DEF DuplicatesCostFaults

\* With the scheduler alone there are, over all charges and customers
\* together, at most as many invoices, payments and customers too many in
\* Fortnox as there were faults, and none without one: what the list of
\* charges without a number, the number stored with a customer and the flag
\* of a paid invoice are there for (queries.sql.go:309, invoice.go:84,
\* invoice.go:123-199, README.md:32).
THEOREM AloneDuplicatesCostFaults ==
    ASSUME Triggers = {}, IsFiniteSet(Charges), IsFiniteSet(Customers)
    PROVE  Spec => []DuplicatesCostFaults
  <1> DEFINE I == /\ TypeInv /\ BookedInv /\ ListInv /\ AloneInv /\ UnpaidInv
                  /\ RecordInv /\ LostInv
  <1>1. Init => I
    BY TypeInvInit, BookedInvInit, CountInvInit, AloneInvInit, UnpaidInvInit, LostInvInit
       DEF CountInv
  <1>2. I /\ [Next]_vars => I'
    <2> SUFFICES ASSUME I, [Next]_vars PROVE I'
      OBVIOUS
    <2>1. TypeInv' /\ BookedInv' /\ ListInv' /\ AloneInv'
      BY TypeInvNext, BookedInvNext, ListInvNext, AloneInvNext
    <2>2. UnpaidInv'
      BY UnpaidInvNext
    <2>3. RecordInv'
      BY <2>1, RecordInvNext
    <2>4. LostInv'
      BY <2>1, LostInvNext
    <2> QED BY <2>1, <2>2, <2>3, <2>4
  <1>3. I => DuplicatesCostFaults
    BY ExcessIsLost
  <1> HIDE DEF I
  <1> QED BY <1>1, <1>2, <1>3, PTL DEF Spec
=============================================================================
