--------------------------- MODULE VouchersProofs ---------------------------
(***************************************************************************)
(* Theorems about Vouchers, for any payouts, balance transactions,         *)
(* goroutines, faults and bounds.                                          *)
(***************************************************************************)
EXTENDS VouchersInv, TLAPS, SequenceTheorems, FiniteSetTheorems

-----------------------------------------------------------------------------
(* Type correctness *)

Active == Running \cup {"delete", "relist"}

LEMMA IdleType == Idle \in Run
  BY DEF Idle, Run, PCs, Ops, Null

LEMMA RunType ==
    ASSUME TypeInv, NEW w \in Workers
    PROVE  /\ run[w] \in Run
           /\ run[w].pc \in Active =>
                /\ run[w].cur \in Payouts
                /\ Key(w) \in Keys
  BY DEF TypeInv, TypeOK, Busy, Key, Keys, Run, Active

\* One goroutine changes: the others stay, and types are kept if its new
\* state is well-typed.
LEMMA BecomesType ==
    ASSUME TypeInv, NEW w \in Workers, NEW r \in Run,
           r.pc \in Active => r.cur \in Payouts,
           Becomes(w, r)
    PROVE  /\ run' \in [Workers -> Run]
           /\ Busy'
           /\ run'[w] = r
           /\ \A v \in Workers : v # w => run'[v] = run[v]
  <1>1. run \in [Workers -> Run] /\ Busy
    BY DEF TypeInv, TypeOK
  <1>2. run' = [run EXCEPT ![w] = r]
    BY DEF Becomes
  <1> QED BY <1>1, <1>2 DEF Busy, Active

LEMMA TypeInvInit == Init => TypeInv
  BY IdleType DEF Init, TypeInv, TypeOK, Busy, Idle, NoRow, Row, Null, Running,
                  Statuses, Keys, Blank, LogEntries

LEMMA LogType ==
    ASSUME TypeInv, NEW w \in Workers, NEW p \in Payouts,
           NEW entry \in LogEntries, Log(w, p, entry)
    PROVE  log' \in [Payouts -> SUBSET LogEntries]
  BY DEF TypeInv, TypeOK, Log

\* The return of a voucher keeps the types of run and log.
LEMMA ReturnsType ==
    ASSUME TypeInv, NEW w \in Workers, NEW entry \in LogEntries,
           run[w].pc \in Running, Returns(w, entry)
    PROVE  /\ run' \in [Workers -> Run]
           /\ Busy'
           /\ log' \in [Payouts -> SUBSET LogEntries]
  <1>1. /\ run[w] \in Run
        /\ run[w].cur \in Payouts
    BY RunType DEF Active
  <1>2. CASE FeeReturns(w)
    <2> DEFINE r == [run[w] EXCEPT !.pc = "lookup", !.op = "payout", !.got = Null]
    <2>1. r \in Run /\ r.cur \in Payouts
      BY <1>1 DEF Run, PCs, Ops, Null
    <2>2. Becomes(w, r) /\ UNCHANGED log
      BY <1>2 DEF FeeReturns
    <2> QED BY <2>1, <2>2, BecomesType DEF TypeInv, TypeOK
  <1>3. CASE PayoutReturns(w, entry)
    <2> DEFINE r == [run[w] EXCEPT !.pc = "next", !.cur = NoPayout,
                                   !.fee = {}, !.got = Null]
    <2>1. r \in Run /\ r.pc \notin Active
      BY <1>1 DEF Run, PCs, Null, Active, Running
    <2>2. Becomes(w, r) /\ Log(w, run[w].cur, entry)
      BY <1>3 DEF PayoutReturns
    <2> QED BY <1>1, <2>1, <2>2, BecomesType, LogType
  <1> QED BY <1>2, <1>3 DEF Returns

\* Goto and Answered keep the type of run.
LEMMA GotoType ==
    ASSUME TypeInv, NEW w \in Workers, NEW pc \in PCs,
           run[w].pc \in Active, Goto(w, pc)
    PROVE  run' \in [Workers -> Run] /\ Busy'
  <1> DEFINE r == [run[w] EXCEPT !.pc = pc]
  <1>1. r \in Run /\ r.cur \in Payouts
    BY RunType DEF Run
  <1> QED BY <1>1, BecomesType DEF Goto

LEMMA AnsweredType ==
    ASSUME TypeInv, NEW w \in Workers, NEW num \in {Blank} \cup Nat,
           run[w].pc \in Active, Answered(w, num)
    PROVE  run' \in [Workers -> Run] /\ Busy'
  <1> DEFINE r == [run[w] EXCEPT !.pc = "confirm", !.got = num]
  <1>1. r \in Run /\ r.cur \in Payouts
    BY RunType DEF Run, PCs
  <1> QED BY <1>1, BecomesType DEF Answered

\* The rows after phase 1 and after phase 3, Fortnox after phase 2.
LEMMA InsertPendingType ==
    ASSUME TypeInv, NEW k \in Keys, InsertPending(k)
    PROVE  row' \in [Keys -> Row] /\ lastId' \in [Keys -> Nat]
  <1>1. /\ row \in [Keys -> Row]
        /\ lastId \in [Keys -> Nat]
    BY DEF TypeInv, TypeOK
  <1>2. [id |-> lastId[k] + 1, num |-> Null] \in Row
    BY <1>1 DEF Row, Null
  <1> QED BY <1>1, <1>2 DEF InsertPending

LEMMA SetNumberType ==
    ASSUME TypeInv, NEW k \in Keys, NEW num \in {Blank} \cup Nat,
           SetNumber(k, num)
    PROVE  row' \in [Keys -> Row]
  <1>1. row \in [Keys -> Row]
    BY DEF TypeInv, TypeOK
  <1>2. [row[k] EXCEPT !.num = num] \in Row
    BY <1>1 DEF Row
  <1> QED BY <1>1, <1>2 DEF SetNumber

LEMMA BookType ==
    ASSUME TypeInv, NEW w \in Workers, Key(w) \in Keys, Book(w)
    PROVE  ledger' \in [Keys -> Seq(Voucher)]
  <1>1. /\ ledger \in [Keys -> Seq(Voucher)]
        /\ run[w] \in Run
    BY DEF TypeInv, TypeOK
  <1>2. Covers(w) \in SUBSET Txns
    BY <1>1, TxnsAssumption DEF Covers, Run
  <1>3. [by |-> w, covers |-> Covers(w)] \in Voucher
    BY <1>2 DEF Voucher
  <1>4. ledger[Key(w)] \in Seq(Voucher)
    BY <1>1
  <1>5. Append(ledger[Key(w)], [by |-> w, covers |-> Covers(w)]) \in Seq(Voucher)
    BY <1>3, <1>4
  <1> QED BY <1>1, <1>4, <1>5 DEF Book

LEMMA FaultType ==
    ASSUME TypeInv, NoFault \/ \E kind \in FaultKinds : Fault(kind)
    PROVE  faults' \in Nat
  BY DEF TypeInv, TypeOK, NoFault, Fault

-----------------------------------------------------------------------------
LEMMA TypeInvNext == TypeInv /\ [Next]_vars => TypeInv'
  <1> SUFFICES ASSUME TypeInv, [Next]_vars PROVE TypeInv'
    OBVIOUS
  <1> USE DEF FaultKinds
  <1>0. TypeOK /\ Busy
    BY DEF TypeInv
  <1>1. ASSUME NEW w \in Workers, StartRun(w) PROVE TypeInv'
    <2> DEFINE r == [Idle EXCEPT !.pc = "next", !.todo = Unsynced]
    <2>1. r \in Run /\ r.pc \notin Active
      BY IdleType DEF Run, PCs, Unsynced, Active, Running, Idle
    <2> QED BY <1>0, <1>1, <2>1, BecomesType, FaultType DEF StartRun, TypeInv, TypeOK
  <1>2. ASSUME NEW w \in Workers, ReadTxns(w) PROVE TypeInv'
    <2>1. PICK p \in Earliest(run[w].todo) :
            \/ /\ Becomes(w, [run[w] EXCEPT !.pc = "lookup",
                                            !.op = FirstOp(FeesStored(p)),
                                            !.cur = p,
                                            !.todo = @ \ {p},
                                            !.fee = FeesStored(p)])
               /\ UNCHANGED log
               /\ NoFault
            \/ /\ Becomes(w, [run[w] EXCEPT !.todo = @ \ {p}])
               /\ Log(w, p, "fortnox_error")
               /\ Fault("db")
      BY <1>2 DEF ReadTxns
    <2>2. /\ run[w] \in Run
          /\ p \in Payouts
          /\ run[w].pc = "next"
      BY <1>2, RunType DEF Earliest, Run, ReadTxns
    <2>3. UNCHANGED <<status, stored, row, lastId, ledger>>
      BY <1>2 DEF ReadTxns
    <2>4. faults' \in Nat
      BY <2>1, FaultType
    <2>5. log' \in [Payouts -> SUBSET LogEntries]
      BY <1>0, <2>1, <2>2, LogType DEF LogEntries, TypeOK
    <2>6. run' \in [Workers -> Run] /\ Busy'
      <3> DEFINE r1 == [run[w] EXCEPT !.pc = "lookup",
                                      !.op = FirstOp(FeesStored(p)),
                                      !.cur = p,
                                      !.todo = @ \ {p},
                                      !.fee = FeesStored(p)]
                 r2 == [run[w] EXCEPT !.todo = @ \ {p}]
      <3>1. r1 \in Run /\ r1.cur \in Payouts
        BY <2>2 DEF Run, PCs, Ops, FirstOp, FeesStored
      <3>2. r2 \in Run /\ r2.pc \notin Active
        BY <2>2 DEF Run, Active, Running
      <3> QED BY <2>1, <3>1, <3>2, BecomesType
    <2> QED BY <1>0, <2>3, <2>4, <2>5, <2>6 DEF TypeInv, TypeOK
  <1>3. ASSUME NEW w \in Workers, EndRun(w) PROVE TypeInv'
    BY <1>0, <1>3, IdleType, BecomesType, FaultType
       DEF EndRun, TypeInv, TypeOK, Idle, Active, Running
  <1>4. ASSUME NEW w \in Workers, LookUp(w) PROVE TypeInv'
    <2>1. run[w].pc \in Running /\ run[w].pc \in Active
      BY <1>4 DEF LookUp, Running, Active
    <2>2. /\ run' \in [Workers -> Run] /\ Busy'
          /\ log' \in [Payouts -> SUBSET LogEntries]
      BY <1>0, <1>4, <2>1, ReturnsType, GotoType
         DEF LookUp, Succeeds, Fails, LogEntries, PCs, TypeOK
    <2> QED BY <1>0, <1>4, <2>2, FaultType DEF LookUp, TypeInv, TypeOK
  <1>5. ASSUME NEW w \in Workers, Reserve(w) PROVE TypeInv'
    <2>1. run[w].pc \in Running /\ run[w].pc \in Active
      BY <1>5 DEF Reserve, Running, Active
    <2>2. /\ run' \in [Workers -> Run] /\ Busy'
          /\ log' \in [Payouts -> SUBSET LogEntries]
      BY <1>0, <1>5, <2>1, ReturnsType, GotoType
         DEF Reserve, Succeeds, Fails, LogEntries, PCs, TypeOK
    <2>3. row' \in [Keys -> Row] /\ lastId' \in [Keys -> Nat]
      BY <1>0, <1>5, <2>1, RunType, InsertPendingType DEF Reserve, TypeOK
    <2> QED BY <1>0, <1>5, <2>2, <2>3, FaultType DEF Reserve, TypeInv, TypeOK
  <1>6. ASSUME NEW w \in Workers, Post(w) PROVE TypeInv'
    <2>1. /\ run[w].pc \in Running /\ run[w].pc \in Active
          /\ Key(w) \in Keys
      BY <1>6, RunType DEF Post, Running, Active
    <2>2. Len(ledger[Key(w)]) + 1 \in Nat
      BY <1>0, <2>1 DEF TypeOK
    <2>3. /\ run' \in [Workers -> Run] /\ Busy'
          /\ log' \in [Payouts -> SUBSET LogEntries]
      BY <1>0, <1>6, <2>1, <2>2, ReturnsType, AnsweredType
         DEF Post, Rejected, Fails, LogEntries, TypeOK
    <2>4. ledger' \in [Keys -> Seq(Voucher)]
      BY <1>0, <1>6, <2>1, BookType DEF Post, TypeOK
    <2> QED BY <1>0, <1>6, <2>3, <2>4, FaultType DEF Post, TypeInv, TypeOK
  <1>7. ASSUME NEW w \in Workers, Confirm(w) PROVE TypeInv'
    <2>1. /\ run[w].pc \in Running /\ run[w].pc \in Active
          /\ Key(w) \in Keys
          /\ run[w].got \in {Blank} \cup Nat
      BY <1>7, RunType DEF Confirm, Running, Active, Run
    <2>2. /\ run' \in [Workers -> Run] /\ Busy'
          /\ log' \in [Payouts -> SUBSET LogEntries]
      BY <1>0, <1>7, <2>1, ReturnsType, GotoType
         DEF Confirm, Fails, LogEntries, PCs, TypeOK
    <2>3. row' \in [Keys -> Row]
      BY <1>0, <1>7, <2>1, SetNumberType DEF Confirm, TypeOK
    <2> QED BY <1>0, <1>7, <2>2, <2>3, FaultType DEF Confirm, TypeInv, TypeOK
  <1>8. ASSUME NEW w \in Workers, Reread(w) PROVE TypeInv'
    <2>1. run[w].pc \in Running /\ run[w].pc \in Active
      BY <1>8 DEF Reread, Running, Active
    <2>2. \/ run' = [v \in Workers |-> Idle] /\ log' = log
          \/ Succeeds(w)
          \/ Fails(w)
      BY <1>8 DEF Reread
    <2>3. /\ run' \in [Workers -> Run] /\ Busy'
          /\ log' \in [Payouts -> SUBSET LogEntries]
      <3>1. CASE run' = [v \in Workers |-> Idle] /\ log' = log
        BY <1>0, <3>1, IdleType DEF TypeOK, Busy, Idle, Running
      <3>2. CASE Succeeds(w)
        BY <2>1, <3>2, ReturnsType DEF Succeeds, LogEntries
      <3>3. CASE Fails(w)
        BY <2>1, <3>3, ReturnsType DEF Fails, LogEntries
      <3> QED BY <2>2, <3>1, <3>2, <3>3
    <2> QED BY <1>0, <1>8, <2>3, FaultType DEF Reread, TypeInv, TypeOK
  <1>9. ASSUME NEW w \in Workers, Delete(w) PROVE TypeInv'
    <2>1. run[w].pc \in Active /\ run[w] \in Run /\ run[w].cur \in Payouts
      BY <1>9, RunType DEF Delete, Active
    <2> DEFINE r == [run[w] EXCEPT !.pc = "relist", !.target = 0]
    <2>2. r \in Run /\ r.cur \in Payouts
      BY <2>1 DEF Run, PCs
    <2>3. run' \in [Workers -> Run] /\ Busy'
      BY <1>9, <2>2, IdleType, BecomesType DEF Delete, Idle, Active, Running
    <2>4. row' \in [Keys -> Row]
      <3>1. NoRow \in Row
        BY DEF NoRow, Row, Null
      <3> QED BY <1>0, <1>9, <3>1 DEF Delete, TypeOK
    <2> QED BY <1>0, <1>9, <2>3, <2>4, FaultType DEF Delete, TypeInv, TypeOK
  <1>10. ASSUME NEW w \in Workers, Relist(w) PROVE TypeInv'
    <2> DEFINE S == IF run[w].op = "payout" THEN Unsynced \cap {run[w].cur} ELSE {}
               r == [Idle EXCEPT !.pc = "next", !.todo = S]
    <2>1. S \in SUBSET Payouts
      BY DEF Unsynced
    <2>3. Becomes(w, r) \/ Becomes(w, Idle)
      BY <1>10 DEF Relist
    <2> HIDE DEF S
    <2>2. r \in Run /\ r.pc \notin Active
      BY <2>1, IdleType DEF Run, PCs, Active, Running, Idle
    <2>4. run' \in [Workers -> Run] /\ Busy'
      BY <2>2, <2>3, IdleType, BecomesType DEF Idle, Active, Running
    <2> QED BY <1>0, <1>10, <2>4, FaultType DEF Relist, TypeInv, TypeOK
  <1>11. ASSUME NEW w \in Retries, NEW k \in Keys, RetryRequest(w, k)
         PROVE  TypeInv'
    <2> DEFINE r == [Idle EXCEPT !.pc = "delete", !.op = k[1], !.cur = k[2],
                                 !.target = row[k].id]
    <2>1. /\ w \in Workers /\ k[1] \in Ops /\ k[2] \in Payouts
          /\ row[k].id \in Nat
      BY <1>0 DEF Workers, Keys, TypeOK, Row
    <2>2. r \in Run /\ r.cur \in Payouts
      BY <2>1, IdleType DEF Run, PCs, Idle
    <2> QED BY <1>0, <1>11, <2>1, <2>2, BecomesType, FaultType
            DEF RetryRequest, TypeInv, TypeOK
  <1>12. CASE Crash
    BY <1>0, <1>12, IdleType, FaultType
       DEF Crash, TypeInv, TypeOK, Busy, Idle, Running
  <1>13. CASE Stripe
    <2>1. UNCHANGED <<row, lastId, ledger, log, run>> /\ NoFault
      BY <1>13 DEF Stripe, StoreStatus, StoreTxn
    <2>2. status' \in [Payouts -> Statuses]
      BY <1>0, <1>13 DEF Stripe, StoreStatus, StoreTxn, TypeOK, Statuses
    <2>3. stored' \in [Payouts -> SUBSET Txns]
      BY <1>0, <1>13 DEF Stripe, StoreStatus, StoreTxn, TypeOK
    <2> QED BY <1>0, <2>1, <2>2, <2>3, FaultType DEF TypeInv, TypeOK, Busy
  <1>14. CASE UNCHANGED vars
    BY <1>0, <1>14 DEF vars, TypeInv, TypeOK, Busy
  <1> QED
    BY <1>1, <1>2, <1>3, <1>4, <1>5, <1>6, <1>7, <1>8, <1>9, <1>10, <1>11,
       <1>12, <1>13, <1>14 DEF Next, Continue

LEMMA TypeInvariant == Spec => []TypeInv
  BY TypeInvInit, TypeInvNext, PTL DEF Spec

\* Every behaviour is type-correct; in particular a fee voucher sums fees of
\* balance transactions of type "charge" only (scheduler.go:127-133).
THEOREM TypeCorrect == Spec => []TypeOK
  BY TypeInvariant, PTL DEF TypeInv

-----------------------------------------------------------------------------
(* What Fortnox holds and what the rows and the log say of it *)

LEMMA LedgerFacts ==
    ASSUME TypeInv, NEW k \in Keys
    PROVE  /\ ledger[k] \in Seq(Voucher)
           /\ Len(ledger[k]) \in Nat
           /\ DOMAIN ledger[k] = 1 .. Len(ledger[k])
           /\ ledger[k] # <<>> <=> Len(ledger[k]) > 0
  <1>1. ledger[k] \in Seq(Voucher)
    BY DEF TypeInv, TypeOK
  <1> QED BY <1>1, EmptySeq

\* Fortnox keeps its vouchers and the counter of ids only grows.
Grows ==
    \A k \in Keys :
        /\ lastId'[k] >= lastId[k]
        /\ DOMAIN ledger[k] \subseteq DOMAIN ledger'[k]
        /\ ledger[k] # <<>> => ledger'[k] # <<>>

LEMMA BookEffect ==
    ASSUME TypeInv, NEW w \in Workers, Key(w) \in Keys, Book(w)
    PROVE  LET v == [by |-> w, covers |-> Covers(w)] IN
           /\ ledger'[Key(w)] = Append(ledger[Key(w)], v)
           /\ Len(ledger'[Key(w)]) = Len(ledger[Key(w)]) + 1
           /\ DOMAIN ledger'[Key(w)] = 1 .. Len(ledger[Key(w)]) + 1
           /\ ledger'[Key(w)] # <<>>
           /\ ledger'[Key(w)][Len(ledger[Key(w)]) + 1] = v
           /\ \A i \in DOMAIN ledger[Key(w)] :
                 ledger'[Key(w)][i] = ledger[Key(w)][i]
           /\ \A k \in Keys : k # Key(w) => ledger'[k] = ledger[k]
  <1> DEFINE v == [by |-> w, covers |-> Covers(w)]
             s == ledger[Key(w)]
  <1>1. /\ run[w] \in Run /\ ledger \in [Keys -> Seq(Voucher)]
        /\ s \in Seq(Voucher)
    BY LedgerFacts DEF TypeInv, TypeOK
  <1>2. v \in Voucher
    BY <1>1, TxnsAssumption DEF Voucher, Covers, Run
  <1>3. /\ ledger'[Key(w)] = Append(s, v)
        /\ \A k \in Keys : k # Key(w) => ledger'[k] = ledger[k]
    BY <1>1 DEF Book
  <1>4. /\ Append(s, v) # <<>>
        /\ Len(Append(s, v)) = Len(s) + 1
        /\ Append(s, v)[Len(s) + 1] = v
        /\ \A i \in 1 .. Len(s) : Append(s, v)[i] = s[i]
        /\ Append(s, v) \in Seq(Voucher)
    <2> HIDE DEF v, s
    <2> QED BY <1>1, <1>2, AppendProperties
  <1> QED BY <1>1, <1>3, <1>4, LedgerFacts

LEMMA PostEffect ==
    ASSUME TypeInv, NEW w \in Workers, Post(w)
    PROVE  /\ Key(w) \in Keys
           /\ Book(w) \/ UNCHANGED ledger
  BY RunType DEF Post, Active, Running

LEMMA ReserveEffect ==
    ASSUME TypeInv, NEW w \in Workers, Reserve(w)
    PROVE  /\ Key(w) \in Keys
           /\ InsertPending(Key(w)) \/ UNCHANGED <<row, lastId>>
  BY RunType DEF Reserve, Active, Running

LEMMA GrowsNext == TypeInv /\ [Next]_vars => Grows
  <1> SUFFICES ASSUME TypeInv, [Next]_vars PROVE Grows
    OBVIOUS
  <1>1. \A k \in Keys : lastId[k] \in Nat
    BY DEF TypeInv, TypeOK
  <1>2. CASE UNCHANGED <<lastId, ledger>>
    BY <1>1, <1>2 DEF Grows
  <1>3. ASSUME NEW w \in Workers, Reserve(w) PROVE Grows
    <2>1. UNCHANGED ledger
      BY <1>3 DEF Reserve
    <2>2. \A k \in Keys : lastId'[k] >= lastId[k]
      <3>1. lastId \in [Keys -> Nat] /\ Key(w) \in Keys
        BY <1>3, ReserveEffect DEF TypeInv, TypeOK
      <3>2. \/ lastId' = [lastId EXCEPT ![Key(w)] = @ + 1]
            \/ lastId' = lastId
        BY <1>3, ReserveEffect DEF InsertPending
      <3> QED BY <3>1, <3>2
    <2> QED BY <2>1, <2>2 DEF Grows
  <1>4. ASSUME NEW w \in Workers, Post(w) PROVE Grows
    <2>1. UNCHANGED lastId
      BY <1>4 DEF Post
    <2>2. CASE UNCHANGED ledger
      BY <1>1, <2>1, <2>2 DEF Grows
    <2>3. CASE Book(w)
      <3>1. ASSUME NEW k \in Keys
            PROVE  /\ DOMAIN ledger[k] \subseteq DOMAIN ledger'[k]
                   /\ ledger[k] # <<>> => ledger'[k] # <<>>
        <4>1. Key(w) \in Keys /\ Len(ledger[Key(w)]) \in Nat
          BY <1>4, PostEffect, LedgerFacts
        <4>2. CASE k = Key(w)
          <5>1. /\ DOMAIN ledger'[k] = 1 .. Len(ledger[k]) + 1
                /\ ledger'[k] # <<>>
            BY <2>3, <4>1, <4>2, BookEffect
          <5>2. DOMAIN ledger[k] = 1 .. Len(ledger[k])
            BY LedgerFacts
          <5> QED BY <4>1, <4>2, <5>1, <5>2
        <4>3. CASE k # Key(w)
          BY <2>3, <4>1, <4>3, BookEffect
        <4> QED BY <4>2, <4>3
      <3> QED BY <1>1, <2>1, <3>1 DEF Grows
    <2> QED BY <1>4, <2>2, <2>3, PostEffect
  <1> QED
    BY <1>2, <1>3, <1>4
       DEF Next, Continue, Stripe, StartRun, ReadTxns, EndRun, LookUp, Confirm,
           Reread, Delete, Relist, RetryRequest, Crash, StoreStatus, StoreTxn,
           vars

\* Where a goroutine is, and what it logged, after a voucher returned.
LEMMA ReturnsEffect ==
    ASSUME TypeInv, NEW w \in Workers, NEW entry \in LogEntries,
           run[w].pc \in Running, Returns(w, entry)
    PROVE  /\ \A v \in Workers : v # w => run'[v] = run[v]
           /\ run'[w].todo = run[w].todo
           /\ \/ /\ run[w].op = "fee"
                 /\ run'[w].pc = "lookup" /\ run'[w].op = "payout"
                 /\ run'[w].cur = run[w].cur
              \/ /\ run[w].op = "payout"
                 /\ run'[w].pc = "next"
                 /\ run'[w].cur = NoPayout
           /\ \A p \in Payouts :
                 log'[p] \subseteq
                     log[p] \cup (IF run[w].op = "payout" /\ p = run[w].cur
                                  THEN {entry} ELSE {})
  <1>1. /\ run \in [Workers -> Run]
        /\ run[w] \in Run
        /\ run[w].cur \in Payouts
        /\ log \in [Payouts -> SUBSET LogEntries]
    BY RunType DEF Active, TypeInv, TypeOK
  <1>2. CASE FeeReturns(w)
    BY <1>1, <1>2 DEF FeeReturns, Becomes, Run
  <1>3. CASE PayoutReturns(w, entry)
    <2>1. /\ \A v \in Workers : v # w => run'[v] = run[v]
          /\ run'[w].todo = run[w].todo
          /\ run[w].op = "payout"
          /\ run'[w].pc = "next"
          /\ run'[w].cur = NoPayout
      BY <1>1, <1>3 DEF PayoutReturns, Becomes, Run
    <2>2. \A p \in Payouts :
             log'[p] \subseteq
                 log[p] \cup (IF p = run[w].cur THEN {entry} ELSE {})
      BY <1>1, <1>3 DEF PayoutReturns, Log
    <2> QED BY <2>1, <2>2
  <1> QED BY <1>2, <1>3 DEF Returns

(* Where a goroutine is after each of its steps. *)

LEMMA BecomesEffect ==
    ASSUME TypeInv, NEW w \in Workers, NEW r, Becomes(w, r)
    PROVE  run'[w] = r /\ \A v \in Workers : v # w => run'[v] = run[v]
  BY DEF Becomes, TypeInv, TypeOK

LEMMA GotoEffect ==
    ASSUME TypeInv, NEW w \in Workers, NEW pc, Goto(w, pc)
    PROVE  /\ \A v \in Workers : v # w => run'[v] = run[v]
           /\ run'[w].pc = pc
           /\ run'[w].op = run[w].op /\ run'[w].cur = run[w].cur
           /\ run'[w].todo = run[w].todo
           /\ Key(w)' = Key(w)
  <1>1. run[w] \in Run
    BY RunType
  <1>2. /\ run'[w] = [run[w] EXCEPT !.pc = pc]
        /\ \A v \in Workers : v # w => run'[v] = run[v]
    BY BecomesEffect DEF Goto
  <1>3. /\ run'[w].pc = pc
        /\ run'[w].op = run[w].op /\ run'[w].cur = run[w].cur
        /\ run'[w].todo = run[w].todo
    BY <1>1, <1>2 DEF Run
  <1> QED BY <1>2, <1>3 DEF Key

LEMMA AnsweredEffect ==
    ASSUME TypeInv, NEW w \in Workers, NEW num, Answered(w, num)
    PROVE  /\ \A v \in Workers : v # w => run'[v] = run[v]
           /\ run'[w].pc = "confirm"
           /\ run'[w].got = num
           /\ run'[w].op = run[w].op /\ run'[w].cur = run[w].cur
           /\ run'[w].todo = run[w].todo
           /\ Key(w)' = Key(w)
  <1>1. run[w] \in Run
    BY RunType
  <1>2. /\ run'[w] = [run[w] EXCEPT !.pc = "confirm", !.got = num]
        /\ \A v \in Workers : v # w => run'[v] = run[v]
    BY BecomesEffect DEF Answered
  <1>3. /\ run'[w].pc = "confirm" /\ run'[w].got = num
        /\ run'[w].op = run[w].op /\ run'[w].cur = run[w].cur
        /\ run'[w].todo = run[w].todo
    BY <1>1, <1>2 DEF Run
  <1> QED BY <1>2, <1>3 DEF Key

LEMMA StartRunEffect ==
    ASSUME TypeInv, NEW w \in Workers, StartRun(w)
    PROVE  /\ \A v \in Workers : v # w => run'[v] = run[v]
           /\ run'[w].pc = "next"
           /\ run'[w].todo = Unsynced
  <1>1. run'[w] = [Idle EXCEPT !.pc = "next", !.todo = Unsynced]
    BY BecomesEffect DEF StartRun
  <1> QED BY <1>1, IdleType, BecomesEffect DEF StartRun, Run

LEMMA ReadTxnsEffect ==
    ASSUME TypeInv, NEW w \in Workers, ReadTxns(w)
    PROVE  \E p \in run[w].todo :
              /\ \A v \in Workers : v # w => run'[v] = run[v]
              /\ run'[w].todo = run[w].todo \ {p}
              /\ \/ run'[w].pc = "lookup" /\ run'[w].cur = p
                 \/ run'[w].pc = "next" /\ run'[w].cur = run[w].cur
  <1>1. run[w] \in Run /\ run[w].pc = "next"
    BY RunType DEF ReadTxns
  <1>2. PICK p \in run[w].todo :
           \/ Becomes(w, [run[w] EXCEPT !.pc = "lookup",
                                        !.op = FirstOp(FeesStored(p)),
                                        !.cur = p,
                                        !.todo = @ \ {p},
                                        !.fee = FeesStored(p)])
           \/ Becomes(w, [run[w] EXCEPT !.todo = @ \ {p}])
    BY DEF ReadTxns, Earliest
  <1>3. CASE Becomes(w, [run[w] EXCEPT !.pc = "lookup",
                                       !.op = FirstOp(FeesStored(p)),
                                       !.cur = p,
                                       !.todo = @ \ {p},
                                       !.fee = FeesStored(p)])
    <2>1. run'[w] = [run[w] EXCEPT !.pc = "lookup",
                                   !.op = FirstOp(FeesStored(p)),
                                   !.cur = p,
                                   !.todo = @ \ {p},
                                   !.fee = FeesStored(p)]
      BY <1>3, BecomesEffect
    <2>2. run'[w].pc = "lookup" /\ run'[w].cur = p
             /\ run'[w].todo = run[w].todo \ {p}
      BY <1>1, <2>1 DEF Run
    <2> QED BY <1>2, <1>3, <2>2, BecomesEffect
  <1>4. CASE Becomes(w, [run[w] EXCEPT !.todo = @ \ {p}])
    <2>1. run'[w] = [run[w] EXCEPT !.todo = @ \ {p}]
      BY <1>4, BecomesEffect
    <2>2. run'[w].pc = "next" /\ run'[w].cur = run[w].cur
             /\ run'[w].todo = run[w].todo \ {p}
      BY <1>1, <2>1 DEF Run
    <2> QED BY <1>2, <1>4, <2>2, BecomesEffect
  <1> QED BY <1>2, <1>3, <1>4

LEMMA DeleteEffect ==
    ASSUME TypeInv, NEW w \in Workers, Delete(w)
    PROVE  /\ \A v \in Workers : v # w => run'[v] = run[v]
           /\ run'[w].pc \in {"relist", "idle"}
           /\ run'[w].todo \subseteq run[w].todo
  <1>1. run[w] \in Run
    BY RunType
  <1>2. CASE Becomes(w, [run[w] EXCEPT !.pc = "relist", !.target = 0])
    <2>1. run'[w] = [run[w] EXCEPT !.pc = "relist", !.target = 0]
      BY <1>2, BecomesEffect
    <2>2. run'[w].pc = "relist" /\ run'[w].todo = run[w].todo
      BY <1>1, <2>1 DEF Run
    <2> QED BY <1>2, <2>2, BecomesEffect
  <1>3. CASE Becomes(w, Idle)
    BY <1>3, BecomesEffect DEF Idle
  <1> QED BY <1>2, <1>3 DEF Delete

LEMMA RelistEffect ==
    ASSUME TypeInv, NEW w \in Workers, Relist(w)
    PROVE  /\ \A v \in Workers : v # w => run'[v] = run[v]
           /\ run'[w].pc \in {"next", "idle"}
           /\ run'[w].todo \subseteq Unsynced
  <1> DEFINE S == IF run[w].op = "payout" THEN Unsynced \cap {run[w].cur} ELSE {}
             r == [Idle EXCEPT !.pc = "next", !.todo = S]
  <1>1. Becomes(w, r) \/ Becomes(w, Idle)
    BY DEF Relist
  <1>2. S \subseteq Unsynced
    OBVIOUS
  <1> HIDE DEF S
  <1>3. r.pc = "next" /\ r.todo = S
    BY IdleType DEF Run
  <1> HIDE DEF r
  <1> QED BY <1>1, <1>2, <1>3, BecomesEffect DEF Idle

LEMMA RetryRequestEffect ==
    ASSUME TypeInv, NEW w \in Retries, NEW k \in Keys, RetryRequest(w, k)
    PROVE  /\ w \in Workers
           /\ \A v \in Workers : v # w => run'[v] = run[v]
           /\ run'[w].pc = "delete"
           /\ run'[w].todo = {}
  <1> DEFINE r == [Idle EXCEPT !.pc = "delete", !.op = k[1], !.cur = k[2],
                               !.target = row[k].id]
  <1>1. w \in Workers /\ Becomes(w, r)
    BY DEF Workers, RetryRequest
  <1>2. r.pc = "delete" /\ r.todo = {}
    BY IdleType DEF Run, Idle
  <1> HIDE DEF r
  <1> QED BY <1>1, <1>2, BecomesEffect

\* A goroutine that does not move stays in its phase.
LEMMA PhaseOfOthers ==
    ASSUME TypeInv, TypeInv', Phases, Grows, NEW v \in Workers,
           run'[v] = run[v]
    PROVE  Phase(v)'
  <1>1. Key(v)' = Key(v)
    BY DEF Key
  <1>2. Phase(v)
    BY DEF Phases
  <1>3. CASE run[v].pc \notin {"post", "confirm", "reread"}
    BY <1>3 DEF Phase
  <1>4. CASE run[v].pc \in {"post", "confirm", "reread"}
    <2>1. Key(v) \in Keys
      BY <1>4, RunType DEF Active, Running
    <2>2. /\ lastId[Key(v)] \in Nat /\ lastId'[Key(v)] \in Nat
          /\ lastId'[Key(v)] >= lastId[Key(v)]
      BY <2>1 DEF Grows, TypeInv, TypeOK
    <2> QED BY <1>1, <1>2, <2>1, <2>2 DEF Phase, Grows
  <1> QED BY <1>3, <1>4

\* One goroutine moves: its own phase is what is left to show.
LEMMA PhasesOfOne ==
    ASSUME TypeInv, TypeInv', Phases, Grows, NEW w \in Workers,
           \A v \in Workers : v # w => run'[v] = run[v],
           Phase(w)'
    PROVE  Phases'
  BY PhaseOfOthers DEF Phases

\* A voucher that returns leaves no phase behind.
LEMMA PhasesOfReturns ==
    ASSUME TypeInv, TypeInv', Phases, Grows, NEW w \in Workers,
           run[w].pc \in Running,
           Succeeds(w) \/ Fails(w)
    PROVE  Phases'
  <1>1. PICK entry \in LogEntries : Returns(w, entry)
    BY DEF Succeeds, Fails, LogEntries
  <1>2. run'[w].pc \in {"lookup", "next"}
    BY <1>1, ReturnsEffect
  <1> QED BY <1>1, <1>2, ReturnsEffect, PhasesOfOne DEF Phase

LEMMA PhasesNext == TypeInv /\ RowIds /\ Phases /\ [Next]_vars => Phases'
  <1> SUFFICES ASSUME TypeInv, RowIds, Phases, [Next]_vars PROVE Phases'
    OBVIOUS
  <1>0. TypeInv' /\ Grows
    BY TypeInvNext, GrowsNext
  <1>1. ASSUME NEW w \in Workers, StartRun(w) PROVE Phases'
    BY <1>0, <1>1, StartRunEffect, PhasesOfOne DEF Phase
  <1>2. ASSUME NEW w \in Workers, ReadTxns(w) PROVE Phases'
    <2>1. /\ run'[w].pc \in {"lookup", "next"}
          /\ \A v \in Workers : v # w => run'[v] = run[v]
      BY <1>2, ReadTxnsEffect
    <2> QED BY <1>0, <2>1, PhasesOfOne DEF Phase
  <1>3. ASSUME NEW w \in Workers, EndRun(w) PROVE Phases'
    BY <1>0, <1>3, BecomesEffect, PhasesOfOne DEF EndRun, Phase, Idle
  <1>4. ASSUME NEW w \in Workers, LookUp(w) PROVE Phases'
    <2>1. CASE Goto(w, "reserve")
      BY <1>0, <2>1, GotoEffect, PhasesOfOne DEF Phase
    <2>2. CASE Succeeds(w) \/ Fails(w)
      BY <1>0, <1>4, <2>2, PhasesOfReturns DEF LookUp, Running
    <2> QED BY <1>4, <2>1, <2>2 DEF LookUp
  <1>5. ASSUME NEW w \in Workers, Reserve(w) PROVE Phases'
    <2>1. CASE InsertPending(Key(w)) /\ Goto(w, "post")
      <3>1. Key(w) \in Keys /\ lastId \in [Keys -> Nat] /\ row[Key(w)] \in Row
        BY <1>5, ReserveEffect DEF TypeInv, TypeOK
      <3>2. CASE row[Key(w)].id = 0
        <4>1. lastId'[Key(w)] > 0
          BY <2>1, <3>1, <3>2 DEF InsertPending
        <4> QED BY <1>0, <2>1, <4>1, GotoEffect, PhasesOfOne DEF Phase
      <3>3. CASE row[Key(w)].id # 0
        <4>1. lastId'[Key(w)] > 0
          BY <1>5, <2>1, <3>1, <3>3 DEF RowIds, InsertPending, Row
        <4> QED BY <1>0, <2>1, <4>1, GotoEffect, PhasesOfOne DEF Phase
      <3> QED BY <3>2, <3>3
    <2>2. CASE Fails(w)
      BY <1>0, <1>5, <2>2, PhasesOfReturns DEF Reserve, Running
    <2> QED BY <1>5, <2>1, <2>2 DEF Reserve
  <1>6. ASSUME NEW w \in Workers, Post(w) PROVE Phases'
    <2>1. ASSUME NEW num \in {Blank, Len(ledger[Key(w)]) + 1},
                 Book(w), Answered(w, num)
          PROVE  Phases'
      <3>1. /\ Key(w) \in Keys
            /\ Len(ledger[Key(w)]) \in Nat
        BY <1>6, PostEffect, LedgerFacts
      <3>2. /\ ledger'[Key(w)] # <<>>
            /\ DOMAIN ledger'[Key(w)] = 1 .. Len(ledger[Key(w)]) + 1
        BY <2>1, <3>1, BookEffect
      <3>3. num \in {Blank} \cup DOMAIN ledger'[Key(w)]
        BY <2>1, <3>1, <3>2
      <3>4. lastId[Key(w)] > 0 /\ lastId' = lastId
        BY <1>6 DEF Post, Phases, Phase
      <3> QED BY <1>0, <2>1, <3>2, <3>3, <3>4, AnsweredEffect, PhasesOfOne
              DEF Phase
    <2>2. CASE Fails(w)
      BY <1>0, <1>6, <2>2, PhasesOfReturns DEF Post, Running
    <2> QED BY <1>6, <2>1, <2>2 DEF Post, Rejected
  <1>7. ASSUME NEW w \in Workers, Confirm(w) PROVE Phases'
    <2>1. CASE Goto(w, "reread")
      <3>1. lastId[Key(w)] > 0 /\ ledger[Key(w)] # <<>>
            /\ UNCHANGED <<lastId, ledger>>
        BY <1>7 DEF Confirm, Phases, Phase
      <3> QED BY <1>0, <2>1, <3>1, GotoEffect, PhasesOfOne DEF Phase
    <2>2. CASE Fails(w)
      BY <1>0, <1>7, <2>2, PhasesOfReturns DEF Confirm, Running
    <2> QED BY <1>7, <2>1, <2>2 DEF Confirm
  <1>8. ASSUME run' = [v \in Workers |-> Idle] PROVE Phases'
    BY <1>8 DEF Phases, Phase, Idle
  <1>9. ASSUME NEW w \in Workers, Reread(w) PROVE Phases'
    <2>1. CASE Succeeds(w) \/ Fails(w)
      BY <1>0, <1>9, <2>1, PhasesOfReturns DEF Reread, Running
    <2> QED BY <1>8, <1>9, <2>1 DEF Reread
  <1>10. ASSUME NEW w \in Workers, Delete(w) PROVE Phases'
    BY <1>0, <1>10, DeleteEffect, PhasesOfOne DEF Phase
  <1>11. ASSUME NEW w \in Workers, Relist(w) PROVE Phases'
    BY <1>0, <1>11, RelistEffect, PhasesOfOne DEF Phase
  <1>12. ASSUME NEW w \in Retries, NEW k \in Keys, RetryRequest(w, k)
         PROVE  Phases'
    BY <1>0, <1>12, RetryRequestEffect, PhasesOfOne DEF Phase
  <1>13. CASE Crash
    BY <1>8, <1>13 DEF Crash
  <1>14. CASE Stripe \/ UNCHANGED vars
    <2>1. UNCHANGED run
      BY <1>14 DEF Stripe, StoreStatus, StoreTxn, vars
    <2> QED BY <1>0, <2>1, PhaseOfOthers DEF Phases
  <1> QED
    BY <1>1, <1>2, <1>3, <1>4, <1>5, <1>6, <1>7, <1>9, <1>10, <1>11, <1>12,
       <1>13, <1>14 DEF Next, Continue

\* What a step does to the row of a key.
LEMMA RowNext ==
    ASSUME TypeInv, [Next]_vars, NEW k \in Keys
    PROVE  \/ row'[k] = row[k]
           \/ row'[k] = NoRow /\ \E w \in Workers : Delete(w)
           \/ /\ row[k].id = 0
              /\ row'[k] = [id |-> lastId[k] + 1, num |-> Null]
              /\ lastId'[k] = lastId[k] + 1
           \/ /\ row[k].num = Null /\ row[k].id # 0
              /\ row'[k].id = row[k].id
              /\ \E w \in Workers : /\ Confirm(w) /\ k = Key(w)
                                    /\ row'[k].num = run[w].got
  <1>0. row \in [Keys -> Row] /\ lastId \in [Keys -> Nat]
    BY DEF TypeInv, TypeOK
  <1>1. CASE UNCHANGED row
    BY <1>1
  <1>2. ASSUME NEW w \in Workers, Reserve(w), ~UNCHANGED row
        PROVE  /\ row[k].id = 0
               /\ row'[k] = [id |-> lastId[k] + 1, num |-> Null]
               /\ lastId'[k] = lastId[k] + 1
               \/ row'[k] = row[k]
    BY <1>0, <1>2, ReserveEffect DEF InsertPending
  <1>3. ASSUME NEW w \in Workers, Confirm(w), ~UNCHANGED row, k = Key(w)
        PROVE  /\ row[k].num = Null /\ row[k].id # 0
               /\ row'[k].id = row[k].id
               /\ row'[k].num = run[w].got
    BY <1>0, <1>3 DEF Confirm, SetNumber, Row
  <1>4. ASSUME NEW w \in Workers, Confirm(w), ~UNCHANGED row, k # Key(w)
        PROVE  row'[k] = row[k]
    BY <1>0, <1>4 DEF Confirm, SetNumber
  <1>5. ASSUME NEW w \in Workers, Delete(w)
        PROVE  row'[k] = row[k] \/ row'[k] = NoRow
    BY <1>0, <1>5 DEF Delete
  <1> QED
    BY <1>1, <1>2, <1>3, <1>4, <1>5
       DEF Next, Continue, Stripe, StartRun, ReadTxns, EndRun, LookUp, Post,
           Reread, Relist, RetryRequest, Crash, StoreStatus, StoreTxn, vars

LEMMA RowIdsNext == TypeInv /\ RowIds /\ [Next]_vars => RowIds'
  <1> SUFFICES ASSUME TypeInv, RowIds, [Next]_vars, NEW k \in Keys
               PROVE  /\ row'[k].id <= lastId'[k]
                      /\ row'[k].id = 0 => row'[k].num = Null
    BY DEF RowIds
  <1>1. /\ row[k].id \in Nat /\ lastId[k] \in Nat
        /\ row[k].id <= lastId[k]
        /\ row[k].id = 0 => row[k].num = Null
    BY DEF TypeInv, TypeOK, Row, RowIds
  <1>2. lastId'[k] \in Nat /\ lastId'[k] >= lastId[k]
    BY TypeInvNext, GrowsNext DEF TypeInv, TypeOK, Grows
  <1>3. CASE row'[k] = row[k]
    BY <1>1, <1>2, <1>3
  <1>4. CASE row'[k] = NoRow
    BY <1>1, <1>2, <1>4 DEF NoRow
  <1>5. CASE /\ row'[k] = [id |-> lastId[k] + 1, num |-> Null]
             /\ lastId'[k] = lastId[k] + 1
    BY <1>1, <1>5
  <1>6. CASE row'[k].id = row[k].id /\ row[k].id # 0
    BY <1>1, <1>2, <1>6
  <1> QED BY <1>3, <1>4, <1>5, <1>6, RowNext

LEMMA RowIdsInvariant == Spec => [](TypeInv /\ RowIds)
  <1>1. Init => RowIds
    BY DEF Init, RowIds, NoRow, Null
  <1> QED BY <1>1, RowIdsNext, TypeInvariant, PTL DEF Spec

\* A recorded number stays until its row is deleted: the guard of
\* ConfirmFortnoxVoucher (queries.sql.go:553-560), for any goroutines.
THEOREM NumberSticks == Spec => ConfirmedNumberSticks
  <1>1. ASSUME TypeInv, RowIds, [Next]_vars
        PROVE  [\A k \in Keys : Confirmed(k) => row'[k] \in {row[k], NoRow}]_vars
    <2>1. ASSUME NEW k \in Keys, Confirmed(k)
          PROVE  row'[k] \in {row[k], NoRow}
      <3>1. row[k].num # Null /\ row[k].id # 0
        BY <1>1, <2>1 DEF RowIds, Confirmed
      <3> QED BY <1>1, <3>1, RowNext
    <2> QED BY <2>1
  <1> QED BY <1>1, RowIdsInvariant, PTL DEF Spec, ConfirmedNumberSticks

-----------------------------------------------------------------------------
LEMMA WriteAheadNext ==
    TypeInv /\ Phases /\ WriteAhead /\ [Next]_vars => WriteAhead'
  <1> SUFFICES ASSUME TypeInv, Phases, WriteAhead, [Next]_vars, NEW k \in Keys,
                      ledger'[k] # <<>>
               PROVE  lastId'[k] > 0
    BY DEF WriteAhead
  <1>1. lastId[k] \in Nat /\ lastId'[k] \in Nat /\ lastId'[k] >= lastId[k]
    BY TypeInvNext, GrowsNext DEF TypeInv, TypeOK, Grows
  <1>2. CASE ledger'[k] = ledger[k]
    BY <1>1, <1>2 DEF WriteAhead
  <1>3. ASSUME NEW w \in Workers, Post(w) PROVE lastId'[k] > 0
    <2>1. CASE k = Key(w)
      BY <1>1, <1>3, <2>1 DEF Post, Phases, Phase
    <2>2. CASE k # Key(w)
      <3>1. ledger'[k] = ledger[k]
        BY <1>3, <2>2, PostEffect, BookEffect
      <3> QED BY <1>2, <3>1
    <2> QED BY <2>1, <2>2
  <1> QED
    BY <1>2, <1>3
       DEF Next, Continue, Stripe, StartRun, ReadTxns, EndRun, LookUp, Reserve,
           Confirm, Reread, Delete, Relist, RetryRequest, Crash, StoreStatus,
           StoreTxn, vars

LEMMA ConfirmedIsBookedNext ==
    TypeInv /\ RowIds /\ Phases /\ ConfirmedIsBooked /\ [Next]_vars
        => ConfirmedIsBooked'
  <1> SUFFICES ASSUME TypeInv, RowIds, Phases, ConfirmedIsBooked, [Next]_vars,
                      NEW k \in Keys, row'[k].num # Null
               PROVE  /\ ledger'[k] # <<>>
                      /\ row'[k].num \in {Blank} \cup DOMAIN ledger'[k]
    BY DEF ConfirmedIsBooked
  <1>1. /\ DOMAIN ledger[k] \subseteq DOMAIN ledger'[k]
        /\ ledger[k] # <<>> => ledger'[k] # <<>>
    BY GrowsNext DEF Grows
  <1>2. CASE row'[k] = row[k]
    BY <1>1, <1>2 DEF ConfirmedIsBooked
  <1>3. row'[k] # NoRow /\ row'[k] # [id |-> lastId[k] + 1, num |-> Null]
    BY DEF NoRow
  <1>4. ASSUME NEW w \in Workers, Confirm(w), k = Key(w),
               row'[k].num = run[w].got
        PROVE  /\ ledger[k] # <<>>
               /\ row'[k].num \in {Blank} \cup DOMAIN ledger[k]
    BY <1>4 DEF Confirm, Phases, Phase
  <1> QED BY <1>1, <1>2, <1>3, <1>4, RowNext

LEMMA SyncedIsBookedNext ==
    TypeInv /\ Phases /\ ConfirmedIsBooked /\ SyncedIsBooked /\ [Next]_vars
        => SyncedIsBooked'
  <1> SUFFICES ASSUME TypeInv, Phases, ConfirmedIsBooked, SyncedIsBooked,
                      [Next]_vars, NEW p \in Payouts,
                      "fortnox_synced" \in log'[p]
               PROVE  ledger'[<<"payout", p>>] # <<>>
    BY DEF SyncedIsBooked
  <1>1. <<"payout", p>> \in Keys
    BY DEF Keys, Ops
  <1>2. ledger[<<"payout", p>>] # <<>> => ledger'[<<"payout", p>>] # <<>>
    BY <1>1, GrowsNext DEF Grows
  <1>3. CASE "fortnox_synced" \in log[p]
    BY <1>2, <1>3 DEF SyncedIsBooked
  <1>4. ASSUME NEW w \in Workers, run[w].pc \in Running, Fails(w)
        PROVE  "fortnox_synced" \in log[p]
    BY <1>4, ReturnsEffect DEF Fails, LogEntries
  <1>5. ASSUME NEW w \in Workers, run[w].pc \in Running, Succeeds(w),
               ledger[Key(w)] # <<>>
        PROVE  ledger'[<<"payout", p>>] # <<>>
    <2>1. CASE run[w].op = "payout" /\ p = run[w].cur
      BY <1>2, <1>5, <2>1 DEF Key
    <2>2. CASE ~(run[w].op = "payout" /\ p = run[w].cur)
      <3>1. "fortnox_synced" \in log[p]
        BY <1>5, <2>2, ReturnsEffect DEF Succeeds, LogEntries
      <3> QED BY <1>3, <3>1
    <2> QED BY <2>1, <2>2
  <1>6. CASE UNCHANGED log
    BY <1>3, <1>6
  <1>7. ASSUME NEW w \in Workers, ReadTxns(w)
        PROVE  "fortnox_synced" \in log[p]
    <2>1. log \in [Payouts -> SUBSET LogEntries] /\ run[w] \in Run
      BY RunType DEF TypeInv, TypeOK
    <2>2. PICK q \in Payouts : log' = log \/ Log(w, q, "fortnox_error")
      BY <1>7, <2>1 DEF ReadTxns, Earliest, Run
    <2> QED BY <2>1, <2>2 DEF Log
  <1>8. ASSUME NEW w \in Workers, LookUp(w), ~UNCHANGED log
        PROVE  ledger'[<<"payout", p>>] # <<>>
    <2>1. run[w].pc \in Running /\ Key(w) \in Keys
      BY <1>8, RunType DEF LookUp, Running, Active
    <2>2. Confirmed(Key(w)) => ledger[Key(w)] # <<>>
      BY <2>1 DEF Confirmed, ConfirmedIsBooked
    <2> QED BY <1>3, <1>4, <1>5, <1>8, <2>1, <2>2 DEF LookUp
  <1>9. ASSUME NEW w \in Workers, Reserve(w) \/ Post(w) \/ Confirm(w),
               ~UNCHANGED log
        PROVE  "fortnox_synced" \in log[p]
    BY <1>4, <1>9 DEF Reserve, Post, Confirm, Rejected, Running
  <1>10. ASSUME NEW w \in Workers, Reread(w), ~UNCHANGED log
         PROVE  ledger'[<<"payout", p>>] # <<>>
    <2>1. run[w].pc \in Running /\ ledger[Key(w)] # <<>>
      BY <1>10 DEF Reread, Running, Phases, Phase
    <2> QED BY <1>3, <1>4, <1>5, <1>10, <2>1 DEF Reread
  <1> QED
    BY <1>3, <1>6, <1>7, <1>8, <1>9, <1>10
       DEF Next, Continue, Stripe, StartRun, EndRun, Delete, Relist,
           RetryRequest, Crash, StoreStatus, StoreTxn, vars

LEMMA BookedInvInit == Init => BookedInv
  BY DEF Init, BookedInv, RowIds, Phases, Phase, WriteAhead, ConfirmedIsBooked,
         SyncedIsBooked, NoRow, Null, Idle

LEMMA BookedInvNext == TypeInv /\ BookedInv /\ [Next]_vars => BookedInv'
  BY RowIdsNext, PhasesNext, WriteAheadNext, ConfirmedIsBookedNext,
     SyncedIsBookedNext DEF BookedInv

\* The inductive invariant of the two-phase write, whatever goroutines,
\* retries and faults there are (voucher.go:158-211).
THEOREM BookedInvariant == Spec => []BookedInv
  BY BookedInvInit, BookedInvNext, TypeInvariant, PTL DEF Spec

\* No voucher in Fortnox without a row having been reserved first
\* (voucher.go:184-198).
THEOREM ReservedBeforePosted == Spec => []WriteAhead
  BY BookedInvariant, PTL DEF BookedInv

\* No number in the table without a voucher in Fortnox (voucher.go:198-208).
THEOREM NumbersAreReal == Spec => []ConfirmedIsBooked
  BY BookedInvariant, PTL DEF BookedInv

\* No payout logged as synced without its voucher in Fortnox
\* (scheduler.go:141-148, handler/sync.go:165-173).
THEOREM SyncedPayoutsAreBooked == Spec => []SyncedIsBooked
  BY BookedInvariant, PTL DEF BookedInv

-----------------------------------------------------------------------------
(* What a goroutine has still before it *)

\* A step of another goroutine leaves a goroutine alone, or kills it.
LEMMA OthersStay ==
    ASSUME TypeInv, NEW w \in Workers, NEW v \in Workers, v # w,
           StartRun(v) \/ Continue(v)
    PROVE  run'[w] = run[w] \/ run'[w] = Idle
  <1>1. CASE StartRun(v) \/ ReadTxns(v) \/ EndRun(v) \/ Delete(v) \/ Relist(v)
    BY <1>1, StartRunEffect, ReadTxnsEffect, BecomesEffect,
       DeleteEffect, RelistEffect DEF EndRun
  <1>2. ASSUME run[v].pc \in Running, Succeeds(v) \/ Fails(v)
        PROVE  run'[w] = run[w]
    BY <1>2, ReturnsEffect DEF Succeeds, Fails, LogEntries
  <1>3. CASE LookUp(v) \/ Reserve(v) \/ Confirm(v)
    BY <1>2, <1>3, GotoEffect DEF LookUp, Reserve, Confirm, Running
  <1>4. CASE Post(v)
    BY <1>2, <1>4, AnsweredEffect DEF Post, Rejected, Running
  <1>5. CASE Reread(v)
    BY <1>2, <1>5 DEF Reread, Running
  <1> QED BY <1>1, <1>3, <1>4, <1>5 DEF Continue

\* A goroutine at work on a voucher goes on with it, or with what its run
\* has left.
LEMMA ReturnsNotAhead ==
    ASSUME TypeInv, NEW w \in Workers, NEW p \in Payouts,
           run[w].pc \in Running, Succeeds(w) \/ Fails(w), Ahead(w, p)'
    PROVE  /\ Ahead(w, p)
           /\ run[w].pc \in {"post", "confirm", "reread"} /\ run[w].op = "payout"
                 => p \in run[w].todo
  <1>1. PICK entry \in LogEntries : Returns(w, entry)
    BY DEF Succeeds, Fails, LogEntries
  <1>2. run[w] \in Run
    BY RunType
  <1>3. run'[w].todo = run[w].todo
    BY <1>1, ReturnsEffect
  <1>4. CASE /\ run[w].op = "fee"
             /\ run'[w].pc = "lookup" /\ run'[w].op = "payout"
             /\ run'[w].cur = run[w].cur
    BY <1>2, <1>3, <1>4 DEF Ahead, Running
  <1>5. CASE run[w].op = "payout" /\ run'[w].pc = "next"
    BY <1>2, <1>3, <1>5 DEF Ahead
  <1> QED BY <1>1, <1>4, <1>5, ReturnsEffect

LEMMA AheadNext ==
    ASSUME TypeInv, [Next]_vars, NEW w \in Workers, NEW p \in Payouts,
           Ahead(w, p)'
    PROVE  Ahead(w, p) \/ p \in Unsynced
  <1>0. run[w] \in Run
    BY RunType
  <1>1. CASE run'[w] = run[w]
    BY <1>1 DEF Ahead
  <1>2. CASE StartRun(w)
    BY <1>2, StartRunEffect DEF Ahead
  <1>3. CASE ReadTxns(w)
    BY <1>3, ReadTxnsEffect DEF Ahead
  <1>4. CASE run'[w] = Idle
    BY <1>4 DEF Ahead, Idle
  <1>5. CASE EndRun(w)
    BY <1>4, <1>5, BecomesEffect DEF EndRun
  <1>6. ASSUME NEW pc \in PCs, Goto(w, pc),
               \/ run[w].pc \in {"lookup", "reserve"}
               \/ run[w].pc = "confirm" /\ pc = "reread"
        PROVE  Ahead(w, p)
    BY <1>6, GotoEffect DEF Ahead
  <1>7. CASE LookUp(w)
    BY <1>6, <1>7, ReturnsNotAhead DEF LookUp, Running, PCs
  <1>8. CASE Reserve(w)
    BY <1>6, <1>8, ReturnsNotAhead DEF Reserve, Running, PCs
  <1>9. CASE Post(w)
    <2>1. ASSUME NEW num, Answered(w, num) PROVE Ahead(w, p)
      BY <1>9, <2>1, AnsweredEffect DEF Post, Ahead
    <2> QED BY <1>9, <2>1, ReturnsNotAhead DEF Post, Rejected, Running
  <1>10. CASE Confirm(w)
    BY <1>6, <1>10, ReturnsNotAhead DEF Confirm, Running, PCs
  <1>11. CASE Reread(w)
    BY <1>4, <1>11, ReturnsNotAhead DEF Reread, Running
  <1>12. CASE Delete(w)
    BY <1>12, DeleteEffect DEF Ahead
  <1>13. CASE Relist(w)
    BY <1>13, RelistEffect DEF Ahead
  <1>14. ASSUME NEW v \in Retries, NEW k \in Keys, RetryRequest(v, k)
         PROVE  Ahead(w, p)
    BY <1>1, <1>14, RetryRequestEffect DEF Ahead
  <1>15. ASSUME NEW v \in Workers, v # w, StartRun(v) \/ Continue(v)
         PROVE  run'[w] = run[w] \/ run'[w] = Idle
    BY <1>15, OthersStay
  <1>16. CASE Crash
    BY <1>4, <1>16 DEF Crash
  <1>17. CASE Stripe \/ UNCHANGED vars
    BY <1>1, <1>17 DEF Stripe, StoreStatus, StoreTxn, vars
  <1> QED
    BY <1>1, <1>2, <1>3, <1>4, <1>5, <1>7, <1>8, <1>9, <1>10, <1>11, <1>12,
       <1>13, <1>14, <1>15, <1>16, <1>17 DEF Next, Continue

-----------------------------------------------------------------------------
(* Without retries: a goroutine books a payout at most once *)

\* Rows stay, if nobody retries.
LEMMA RowsStay ==
    ASSUME TypeInv, OnceInv, [Next]_vars, NEW k \in Keys, row[k].id # 0
    PROVE  row'[k].id # 0
  <1>1. ~\E w \in Workers : Delete(w)
    BY DEF OnceInv, Delete
  <1> QED BY <1>1, RowNext

\* The first part of OnceInv, for one goroutine.
InFlight(w) ==
    /\ run[w].pc \notin {"delete", "relist"}
    /\ run[w].pc \in {"post", "confirm", "reread"} => row[Key(w)].id # 0
    /\ run[w].pc \in Running => run[w].cur \notin run[w].todo

LEMMA InFlightNext ==
    ASSUME TypeInv, OnceInv, [Next]_vars, Retries = {}, NEW w \in Workers
    PROVE  InFlight(w)'
  <1>0. /\ run[w] \in Run
        /\ run[w].pc \in Running => Key(w) \in Keys
        /\ InFlight(w)
    BY RunType DEF OnceInv, InFlight, Active
  <1>1. CASE run'[w] = run[w]
    <2>1. Key(w)' = Key(w)
      BY <1>1 DEF Key
    <2> QED BY <1>0, <1>1, <2>1, RowsStay DEF InFlight, Running
  <1>2. CASE run'[w] = Idle \/ EndRun(w)
    BY <1>2, BecomesEffect DEF EndRun, InFlight, Idle, Running
  <1>3. CASE StartRun(w)
    BY <1>3, StartRunEffect DEF InFlight, Running
  <1>4. CASE ReadTxns(w)
    BY <1>4, ReadTxnsEffect DEF InFlight, Running
  <1>5. ASSUME run[w].pc \in Running, Succeeds(w) \/ Fails(w)
        PROVE  InFlight(w)'
    <2>1. PICK entry \in LogEntries : Returns(w, entry)
      BY <1>5 DEF Succeeds, Fails, LogEntries
    <2>2. /\ run'[w].todo = run[w].todo
          /\ \/ run'[w].pc = "lookup" /\ run'[w].cur = run[w].cur
             \/ run'[w].pc = "next"
      BY <1>5, <2>1, ReturnsEffect
    <2> QED BY <1>0, <1>5, <2>2 DEF InFlight, Running
  <1>6. CASE LookUp(w)
    <2>1. CASE Goto(w, "reserve")
      BY <1>0, <1>6, <2>1, GotoEffect DEF LookUp, InFlight, Running
    <2> QED BY <1>5, <1>6, <2>1 DEF LookUp, Running
  <1>7. CASE Reserve(w)
    <2>1. CASE InsertPending(Key(w)) /\ Goto(w, "post")
      <3>1. row'[Key(w)].id # 0
        <4>1. /\ Key(w) \in Keys
              /\ row \in [Keys -> Row]
              /\ lastId[Key(w)] \in Nat
          BY <1>7, ReserveEffect DEF TypeInv, TypeOK
        <4> QED BY <2>1, <4>1 DEF InsertPending
      <3> QED BY <1>0, <1>7, <2>1, <3>1, GotoEffect
              DEF Reserve, InFlight, Running
    <2> QED BY <1>5, <1>7, <2>1 DEF Reserve, Running
  <1>8. CASE Post(w)
    <2>1. ASSUME NEW num, Answered(w, num) PROVE InFlight(w)'
      BY <1>0, <1>8, <2>1, AnsweredEffect DEF Post, InFlight, Running
    <2> QED BY <1>5, <1>8, <2>1 DEF Post, Rejected, Running
  <1>9. CASE Confirm(w)
    <2>1. CASE Goto(w, "reread")
      <3>1. row'[Key(w)].id # 0
        BY <1>0, <1>9, RowsStay DEF Confirm, InFlight, Running
      <3> QED BY <1>0, <1>9, <2>1, <3>1, GotoEffect
              DEF Confirm, InFlight, Running
    <2> QED BY <1>5, <1>9, <2>1 DEF Confirm, Running
  <1>10. CASE Reread(w)
    BY <1>2, <1>5, <1>10 DEF Reread, Running
  <1>11. ~Delete(w) /\ ~Relist(w)
    BY <1>0 DEF InFlight, Delete, Relist
  <1>12. ASSUME NEW v \in Workers, v # w, StartRun(v) \/ Continue(v)
         PROVE  InFlight(w)'
    BY <1>1, <1>2, <1>12, OthersStay
  <1>13. CASE Crash \/ Stripe \/ UNCHANGED vars
    BY <1>1, <1>2, <1>13 DEF Crash, Stripe, StoreStatus, StoreTxn, vars
  <1> QED
    BY <1>1, <1>2, <1>3, <1>4, <1>6, <1>7, <1>8, <1>9, <1>10, <1>11, <1>12,
       <1>13 DEF Next, Continue

\* A goroutine has booked p after a step: it had before, or it posts now.
LEMMA HasBookedNext ==
    ASSUME TypeInv, [Next]_vars, NEW w \in Workers, NEW p \in Payouts,
           HasBooked(w, p)', ~HasBooked(w, p)
    PROVE  Post(w) /\ Key(w) = <<"payout", p>> /\ Book(w)
  <1> DEFINE k == <<"payout", p>>
  <1>1. k \in Keys
    BY DEF Keys, Ops
  <1>2. ledger'[k] # ledger[k]
    BY DEF HasBooked
  <1>3. PICK v \in Workers : Post(v)
    BY <1>2 DEF Next, Continue, Stripe, StartRun, ReadTxns, EndRun, LookUp,
                Reserve, Confirm, Reread, Delete, Relist, RetryRequest, Crash,
                StoreStatus, StoreTxn, vars, Workers
  <1>4. Book(v) /\ Key(v) = k
    BY <1>1, <1>2, <1>3, PostEffect, BookEffect
  <1>5. v = w
    <2> DEFINE n == Len(ledger[k])
               e == [by |-> v, covers |-> Covers(v)]
    <2>1. /\ n \in Nat
          /\ DOMAIN ledger[k] = 1 .. n
          /\ DOMAIN ledger'[k] = 1 .. n + 1
          /\ ledger'[k][n + 1] = e
          /\ \A i \in DOMAIN ledger[k] : ledger'[k][i] = ledger[k][i]
      BY <1>1, <1>4, BookEffect, LedgerFacts
    <2>2. PICK i \in DOMAIN ledger'[k] : ledger'[k][i].by = w
      BY DEF HasBooked
    <2>3. i \notin DOMAIN ledger[k]
      BY <2>1, <2>2 DEF HasBooked
    <2>4. i = n + 1
      BY <2>1, <2>2, <2>3
    <2> QED BY <2>1, <2>2, <2>4
  <1> QED BY <1>3, <1>4, <1>5

\* A goroutine that posts a payout voucher is not ahead of it any more.
LEMMA PostedNotAhead ==
    ASSUME TypeInv, NEW w \in Workers, NEW p \in Payouts,
           run[w].cur \notin run[w].todo,
           Post(w), Key(w) = <<"payout", p>>
    PROVE  ~Ahead(w, p)' /\ Ahead(w, p)
  <1>1. /\ run[w].pc = "post" /\ run[w].op = "payout" /\ run[w].cur = p
        /\ p \notin run[w].todo
    BY DEF Post, Key
  <1>2. ASSUME NEW num, Answered(w, num) PROVE ~Ahead(w, p)'
    BY <1>1, <1>2, AnsweredEffect DEF Ahead
  <1>3. ASSUME Fails(w) PROVE ~Ahead(w, p)'
    BY <1>1, <1>3, ReturnsNotAhead DEF Running
  <1> QED BY <1>1, <1>2, <1>3 DEF Post, Rejected, Ahead

LEMMA DistinctPostersNext ==
    ASSUME TypeInv, OnceInv, [Next]_vars
    PROVE  DistinctPosters'
  <1> SUFFICES ASSUME NEW p \in Payouts,
                      NEW i \in DOMAIN ledger'[<<"payout", p>>],
                      NEW j \in DOMAIN ledger'[<<"payout", p>>],
                      ledger'[<<"payout", p>>][i].by =
                          ledger'[<<"payout", p>>][j].by
               PROVE  i = j
    BY DEF DistinctPosters
  <1> DEFINE k == <<"payout", p>>
  <1>1. k \in Keys
    BY DEF Keys, Ops
  <1>2. CASE ledger'[k] = ledger[k]
    BY <1>2 DEF OnceInv, DistinctPosters
  <1>3. ASSUME NEW w \in Workers, Post(w), Book(w), Key(w) = k
        PROVE  i = j
    <2> DEFINE n == Len(ledger[k])
               e == [by |-> w, covers |-> Covers(w)]
    <2>1. /\ n \in Nat
          /\ DOMAIN ledger[k] = 1 .. n
          /\ DOMAIN ledger'[k] = 1 .. n + 1
          /\ ledger'[k][n + 1] = e
          /\ \A m \in DOMAIN ledger[k] : ledger'[k][m] = ledger[k][m]
      BY <1>1, <1>3, BookEffect, LedgerFacts
    <2>2. ~HasBooked(w, p)
      BY <1>3, PostedNotAhead DEF OnceInv, Post, Running
    <2>3. \A m \in DOMAIN ledger[k] : ledger'[k][m].by # w
      BY <2>1, <2>2 DEF HasBooked
    <2>4. e.by = w
      OBVIOUS
    <2> HIDE DEF e
    <2>5. CASE i = n + 1
      BY <2>1, <2>3, <2>4, <2>5
    <2>6. CASE j = n + 1
      BY <2>1, <2>3, <2>4, <2>6
    <2>7. CASE i \in DOMAIN ledger[k] /\ j \in DOMAIN ledger[k]
      BY <2>1, <2>7 DEF OnceInv, DistinctPosters
    <2> QED BY <2>1, <2>5, <2>6, <2>7
  <1>4. ASSUME NEW w \in Workers, Post(w) PROVE i = j
    <2>1. CASE Book(w) /\ Key(w) = k
      BY <1>3, <1>4, <2>1
    <2>2. CASE Book(w) /\ Key(w) # k
      BY <1>1, <1>2, <1>4, <2>2, PostEffect, BookEffect
    <2>3. CASE UNCHANGED ledger
      BY <1>2, <2>3
    <2> QED BY <1>4, <2>1, <2>2, <2>3, PostEffect
  <1> QED
    BY <1>2, <1>4
       DEF Next, Continue, Stripe, StartRun, ReadTxns, EndRun, LookUp, Reserve,
           Confirm, Reread, Delete, Relist, RetryRequest, Crash, StoreStatus,
           StoreTxn, vars

LEMMA OnceInvNext ==
    ASSUME Retries = {}
    PROVE  TypeInv /\ OnceInv /\ [Next]_vars => OnceInv'
  <1> SUFFICES ASSUME TypeInv, OnceInv, [Next]_vars PROVE OnceInv'
    OBVIOUS
  <1>1. \A w \in Workers : InFlight(w)'
    BY InFlightNext
  <1>2. ASSUME NEW w \in Workers, NEW p \in Payouts, HasBooked(w, p)'
        PROVE  row'[<<"payout", p>>].id # 0 /\ ~Ahead(w, p)'
    <2>0. <<"payout", p>> \in Keys
      BY DEF Keys, Ops
    <2>1. CASE HasBooked(w, p)
      <3>1. row[<<"payout", p>>].id # 0 /\ ~Ahead(w, p)
        BY <2>1 DEF OnceInv
      <3>2. p \notin Unsynced
        BY <3>1 DEF Unsynced
      <3> QED BY <2>0, <3>1, <3>2, RowsStay, AheadNext
    <2>2. CASE ~HasBooked(w, p)
      <3>1. Post(w) /\ Key(w) = <<"payout", p>>
        BY <1>2, <2>2, HasBookedNext
      <3>2. row[Key(w)].id # 0 /\ run[w].cur \notin run[w].todo
        BY <3>1 DEF Post, OnceInv, Running
      <3> QED BY <2>0, <3>1, <3>2, RowsStay, PostedNotAhead
    <2> QED BY <2>1, <2>2
  <1> QED BY <1>1, <1>2, DistinctPostersNext DEF OnceInv, InFlight

LEMMA OnceInvInit == Init => OnceInv
  BY DEF Init, OnceInv, HasBooked, DistinctPosters, Idle, Running, Keys, Ops

LEMMA OnceInvariant ==
    ASSUME Retries = {}
    PROVE  Spec => [](TypeInv /\ OnceInv)
  BY OnceInvInit, OnceInvNext, TypeInvariant, PTL DEF Spec

\* If nobody retries, no goroutine books a payout twice, in all its runs and
\* under all faults: the row reserved in phase 1 keeps the payout off every
\* later list (voucher.go:184-188, queries.sql.go:361-362).
THEOREM NobodyPostsTwice ==
    ASSUME Retries = {}
    PROVE  Spec => []DistinctPosters
  BY OnceInvariant, PTL DEF OnceInv

-----------------------------------------------------------------------------
(* With retries: a goroutine books a payout at most once for each row *)

\* What a goroutine has booked is some of what Fortnox holds.
LEMMA BookedByFinite ==
    ASSUME TypeInv, NEW w \in Workers, NEW p \in Payouts
    PROVE  /\ IsFiniteSet(BookedBy(w, p))
           /\ Cardinality(BookedBy(w, p)) \in Nat
  <1> DEFINE n == Len(ledger[<<"payout", p>>])
  <1>1. n \in Nat /\ DOMAIN ledger[<<"payout", p>>] = 1 .. n
    BY LedgerFacts DEF Keys, Ops
  <1>2. IsFiniteSet(1 .. n)
    BY <1>1, FS_Interval
  <1>3. BookedBy(w, p) \in SUBSET (1 .. n)
    BY <1>1 DEF BookedBy
  <1> HIDE DEF n
  <1> QED BY <1>2, <1>3, FS_Subset, FS_CardinalityType

\* A step adds to what a goroutine has booked one voucher at most, and only
\* as its POST.
LEMMA BookedByNext ==
    ASSUME TypeInv, [Next]_vars, NEW w \in Workers, NEW p \in Payouts,
           BookedBy(w, p)' # BookedBy(w, p)
    PROVE  /\ Post(w) /\ Key(w) = <<"payout", p>>
           /\ Cardinality(BookedBy(w, p)') = Cardinality(BookedBy(w, p)) + 1
  <1> DEFINE k == <<"payout", p>>
             n == Len(ledger[k])
  <1>1. k \in Keys
    BY DEF Keys, Ops
  <1>2. ledger'[k] # ledger[k]
    BY DEF BookedBy
  <1>3. PICK v \in Workers : Post(v)
    BY <1>2 DEF Next, Continue, Stripe, StartRun, ReadTxns, EndRun, LookUp,
                Reserve, Confirm, Reread, Delete, Relist, RetryRequest, Crash,
                StoreStatus, StoreTxn, vars, Workers
  <1>4. Book(v) /\ Key(v) = k
    BY <1>1, <1>2, <1>3, PostEffect, BookEffect
  <1>5. /\ n \in Nat
        /\ DOMAIN ledger[k] = 1 .. n
        /\ DOMAIN ledger'[k] = 1 .. n + 1
        /\ ledger'[k][n + 1].by = v
        /\ \A i \in DOMAIN ledger[k] : ledger'[k][i] = ledger[k][i]
    <2> DEFINE e == [by |-> v, covers |-> Covers(v)]
    <2>1. /\ n \in Nat
          /\ DOMAIN ledger[k] = 1 .. n
          /\ DOMAIN ledger'[k] = 1 .. n + 1
          /\ ledger'[k][n + 1] = e
          /\ \A i \in DOMAIN ledger[k] : ledger'[k][i] = ledger[k][i]
      BY <1>1, <1>4, BookEffect, LedgerFacts
    <2>2. e.by = v
      OBVIOUS
    <2> HIDE DEF e
    <2> QED BY <2>1, <2>2
  <1> HIDE DEF n
  <1>6. v = w
    <2>1. SUFFICES ASSUME v # w
                   PROVE  BookedBy(w, p)' \subseteq BookedBy(w, p)
                             /\ BookedBy(w, p) \subseteq BookedBy(w, p)'
      OBVIOUS
    <2>2. BookedBy(w, p) \subseteq BookedBy(w, p)'
      BY <1>5 DEF BookedBy
    <2>3. BookedBy(w, p)' \subseteq BookedBy(w, p)
      <3>1. SUFFICES ASSUME NEW i \in DOMAIN ledger'[k],
                            ledger'[k][i].by = w
                     PROVE  i \in BookedBy(w, p)
        BY DEF BookedBy
      <3>2. i \in DOMAIN ledger[k]
        BY <1>5, <2>1, <3>1
      <3> QED BY <1>5, <3>1, <3>2 DEF BookedBy
    <2> QED BY <2>2, <2>3
  <1>7. /\ BookedBy(w, p)' = BookedBy(w, p) \cup {n + 1}
        /\ n + 1 \notin BookedBy(w, p)
    BY <1>5, <1>6 DEF BookedBy
  <1> QED BY <1>3, <1>4, <1>6, <1>7, BookedByFinite, FS_AddElement

\* A goroutine that is at the POST after a step was there before, or has
\* just reserved: then there is a row.
LEMMA PostEntered ==
    ASSUME TypeInv, [Next]_vars, NEW w \in Workers, run'[w].pc = "post",
           Key(w)' \in Keys
    PROVE  \/ run'[w] = run[w]
           \/ row'[Key(w)'].id # 0
  <1>0. run[w] \in Run
    BY RunType
  <1>1. CASE run'[w] = Idle \/ EndRun(w)
    BY <1>1, BecomesEffect DEF EndRun, Idle
  <1>2. CASE StartRun(w) \/ ReadTxns(w) \/ Delete(w) \/ Relist(w)
    BY <1>2, StartRunEffect, ReadTxnsEffect, DeleteEffect, RelistEffect
  <1>3. ~(run[w].pc \in Running /\ (Succeeds(w) \/ Fails(w)))
    BY ReturnsEffect DEF Succeeds, Fails, LogEntries
  <1>4. CASE LookUp(w) \/ Confirm(w)
    BY <1>3, <1>4, GotoEffect DEF LookUp, Confirm, Running
  <1>5. CASE Reserve(w)
    <2>1. InsertPending(Key(w)) /\ Goto(w, "post")
      BY <1>3, <1>5 DEF Reserve, Running
    <2>2. Key(w)' = Key(w)
      BY <2>1, GotoEffect
    <2>3. /\ Key(w) \in Keys
          /\ row \in [Keys -> Row]
          /\ lastId[Key(w)] \in Nat
      BY <1>5, ReserveEffect DEF TypeInv, TypeOK
    <2>4. row'[Key(w)].id # 0
      BY <2>1, <2>3 DEF InsertPending
    <2> QED BY <2>2, <2>4
  <1>6. CASE Post(w)
    BY <1>3, <1>6, AnsweredEffect DEF Post, Rejected, Running
  <1>7. CASE Reread(w)
    BY <1>1, <1>3, <1>7 DEF Reread, Running
  <1>8. ASSUME NEW v \in Workers, v # w, StartRun(v) \/ Continue(v)
        PROVE  run'[w] = run[w]
    BY <1>1, <1>8, OthersStay DEF Idle
  <1>9. ASSUME NEW v \in Retries, NEW k \in Keys, RetryRequest(v, k)
        PROVE  run'[w] = run[w]
    BY <1>9, RetryRequestEffect
  <1>10. CASE Crash \/ Stripe \/ UNCHANGED vars
    BY <1>1, <1>10 DEF Crash, Stripe, StoreStatus, StoreTxn, vars
  <1> QED
    BY <1>1, <1>2, <1>4, <1>5, <1>6, <1>7, <1>8, <1>9, <1>10
       DEF Next, Continue

\* The payout a goroutine is at is not left for later in its run.
LEMMA PassedNext ==
    ASSUME TypeInv, [Next]_vars, NEW w \in Workers,
           run[w].pc \in Running => run[w].cur \notin run[w].todo,
           run'[w].pc \in Running
    PROVE  run'[w].cur \notin run'[w].todo
  <1>0. run[w] \in Run
    BY RunType
  <1>1. CASE run'[w] = Idle \/ EndRun(w)
    BY <1>1, BecomesEffect DEF EndRun, Idle, Running
  <1>2. CASE StartRun(w) \/ Delete(w) \/ Relist(w)
    BY <1>2, StartRunEffect, DeleteEffect, RelistEffect DEF Running
  <1>3. CASE ReadTxns(w)
    BY <1>3, ReadTxnsEffect DEF Running
  <1>4. ASSUME run[w].pc \in Running, Succeeds(w) \/ Fails(w)
        PROVE  run'[w].cur \notin run'[w].todo
    <2>1. PICK entry \in LogEntries : Returns(w, entry)
      BY <1>4 DEF Succeeds, Fails, LogEntries
    <2>2. /\ run'[w].todo = run[w].todo
          /\ run'[w].cur = run[w].cur \/ run'[w].pc = "next"
      BY <1>4, <2>1, ReturnsEffect
    <2> QED BY <1>4, <2>2 DEF Running
  <1>5. CASE LookUp(w) \/ Reserve(w) \/ Confirm(w)
    BY <1>4, <1>5, GotoEffect DEF LookUp, Reserve, Confirm, Running
  <1>6. CASE Post(w)
    BY <1>4, <1>6, AnsweredEffect DEF Post, Rejected, Running
  <1>7. CASE Reread(w)
    BY <1>1, <1>4, <1>7 DEF Reread, Running
  <1>8. ASSUME NEW v \in Workers, v # w, StartRun(v) \/ Continue(v)
        PROVE  run'[w] = run[w] \/ run'[w] = Idle
    BY <1>8, OthersStay
  <1>9. ASSUME NEW v \in Retries, NEW k \in Keys, RetryRequest(v, k)
        PROVE  run'[w].cur \notin run'[w].todo
    BY <1>9, RetryRequestEffect
  <1>10. CASE run'[w] = run[w] \/ Crash \/ Stripe \/ UNCHANGED vars
    BY <1>1, <1>10 DEF Crash, Stripe, StoreStatus, StoreTxn, vars
  <1> QED
    BY <1>1, <1>2, <1>3, <1>5, <1>6, <1>7, <1>8, <1>9, <1>10
       DEF Next, Continue

\* A row that was not there is a new one, with an id of its own.
LEMMA RowAppears ==
    ASSUME TypeInv, [Next]_vars, NEW k \in Keys,
           row[k].id = 0, row'[k].id # 0
    PROVE  lastId'[k] = lastId[k] + 1
  <1>1. row'[k] # row[k] /\ row'[k] # NoRow
    BY DEF NoRow
  <1> QED BY <1>1, RowNext

\* The second part of RowsInv, for one goroutine and one payout.
LEMMA RowLeftNext ==
    ASSUME TypeInv, RowsInv, [Next]_vars,
           NEW w \in Workers, NEW p \in Payouts, Ahead(w, p)',
           \/ row'[<<"payout", p>>].id # 0
           \/ run'[w].pc = "post" /\ Key(w)' = <<"payout", p>>
    PROVE  Cardinality(BookedBy(w, p)') < lastId'[<<"payout", p>>]
  <1> DEFINE k == <<"payout", p>>
             B == BookedBy(w, p)
  <1>0. /\ k \in Keys
        /\ lastId[k] \in Nat /\ lastId'[k] \in Nat
        /\ lastId'[k] >= lastId[k]
        /\ Cardinality(B) \in Nat
        /\ Cardinality(B) <= lastId[k]
    BY TypeInvNext, GrowsNext, BookedByFinite
       DEF Keys, Ops, TypeInv, TypeOK, Grows, RowsInv, PostsCostRows
  <1>1. B' = B
    <2>1. SUFFICES ASSUME B' # B PROVE FALSE
      OBVIOUS
    <2>2. Post(w) /\ Key(w) = k
      BY <2>1, BookedByNext
    <2>3. run[w].cur \notin run[w].todo
      BY <2>2 DEF Post, RowsInv, Running
    <2> QED BY <2>2, <2>3, PostedNotAhead
  <1> SUFFICES Cardinality(B) < lastId'[k]
    BY <1>1
  <1> HIDE DEF B
  <1>2. CASE row[k].id = 0 /\ row'[k].id # 0
    <2>1. lastId'[k] = lastId[k] + 1
      BY <1>0, <1>2, RowAppears
    <2> QED BY <1>0, <2>1
  <1>3. CASE row[k].id # 0
    <2>1. Ahead(w, p)
      BY <1>3, AheadNext DEF Unsynced
    <2>2. Cardinality(B) < lastId[k]
      BY <1>3, <2>1 DEF RowsInv, B
    <2> QED BY <1>0, <2>2
  <1>4. CASE row[k].id = 0 /\ row'[k].id = 0
    <2>1. run'[w] = run[w]
      BY <1>0, <1>4, PostEntered
    <2>2. Ahead(w, p) /\ run[w].pc = "post" /\ Key(w) = k
      BY <1>4, <2>1 DEF Ahead, Key
    <2>3. Cardinality(B) < lastId[k]
      BY <2>2 DEF RowsInv, B
    <2> QED BY <1>0, <2>3
  <1> QED BY <1>2, <1>3, <1>4

\* A POST uses up a row that the goroutine has not used yet.
LEMMA PostsCostRowsNext ==
    ASSUME TypeInv, RowsInv, [Next]_vars
    PROVE  PostsCostRows'
  <1> SUFFICES ASSUME NEW w \in Workers, NEW p \in Payouts
               PROVE  Cardinality(BookedBy(w, p)') <= lastId'[<<"payout", p>>]
    BY DEF PostsCostRows
  <1> DEFINE k == <<"payout", p>>
             B == BookedBy(w, p)
  <1>1. /\ k \in Keys
        /\ lastId[k] \in Nat /\ lastId'[k] \in Nat
        /\ lastId'[k] >= lastId[k]
        /\ Cardinality(B) \in Nat
        /\ Cardinality(B) <= lastId[k]
    BY TypeInvNext, GrowsNext, BookedByFinite
       DEF Keys, Ops, TypeInv, TypeOK, Grows, RowsInv, PostsCostRows
  <1>2. CASE B' = B
    BY <1>1, <1>2
  <1>3. CASE B' # B
    <2>1. /\ Post(w) /\ Key(w) = k
          /\ Cardinality(B') = Cardinality(B) + 1
      BY <1>3, BookedByNext
    <2>2. run[w].pc = "post" /\ run[w].cur \notin run[w].todo
      BY <2>1 DEF Post, RowsInv, Running
    <2>3. Ahead(w, p)
      BY <2>1, <2>2, PostedNotAhead
    <2>4. Cardinality(B) < lastId[k]
      BY <2>1, <2>2, <2>3 DEF RowsInv
    <2> QED BY <1>1, <2>1, <2>4
  <1> QED BY <1>2, <1>3

LEMMA RowsInvNext == TypeInv /\ RowsInv /\ [Next]_vars => RowsInv'
  <1> SUFFICES ASSUME TypeInv, RowsInv, [Next]_vars PROVE RowsInv'
    OBVIOUS
  <1>1. \A w \in Workers :
           run'[w].pc \in Running => run'[w].cur \notin run'[w].todo
    BY PassedNext DEF RowsInv
  <1>2. \A w \in Workers, p \in Payouts :
           /\ Ahead(w, p)'
           /\ \/ row'[<<"payout", p>>].id # 0
              \/ run'[w].pc = "post" /\ Key(w)' = <<"payout", p>>
           => Cardinality(BookedBy(w, p)') < lastId'[<<"payout", p>>]
    BY RowLeftNext
  <1> QED BY <1>1, <1>2, PostsCostRowsNext DEF RowsInv

LEMMA RowsInvInit == Init => RowsInv
  <1> SUFFICES ASSUME Init PROVE RowsInv
    OBVIOUS
  <1>1. \A w \in Workers : run[w] = Idle
    BY DEF Init
  <1>2. ASSUME NEW w \in Workers, NEW p \in Payouts
        PROVE  /\ ~Ahead(w, p)
               /\ Cardinality(BookedBy(w, p)) <= lastId[<<"payout", p>>]
    <2>1. /\ <<"payout", p>> \in Keys
          /\ ledger[<<"payout", p>>] = <<>>
          /\ lastId[<<"payout", p>>] = 0
      BY DEF Init, Keys, Ops
    <2>2. BookedBy(w, p) = {}
      BY <2>1 DEF BookedBy
    <2>3. Cardinality(BookedBy(w, p)) = 0
      BY <2>2, FS_EmptySet
    <2>4. ~Ahead(w, p)
      BY <1>1, NoPayoutAssumption DEF Ahead, Idle
    <2> QED BY <2>1, <2>3, <2>4
  <1> QED BY <1>1, <1>2 DEF RowsInv, PostsCostRows, Idle, Running

\* Under all faults and any number of retries, a goroutine books a payout at
\* most once for each row that was ever inserted for it: a second voucher by
\* the same goroutine takes a press of the "retry" button, which deletes the
\* row (voucher.go:184-188, queries.sql.go:361-362, handler/sync.go:286).
THEOREM EveryPostCostsARow == Spec => []PostsCostRows
  <1>1. TypeInv /\ RowsInv => PostsCostRows
    BY DEF RowsInv
  <1> QED BY <1>1, RowsInvInit, RowsInvNext, TypeInvariant, PTL DEF Spec

-----------------------------------------------------------------------------
(* The scheduler alone *)

\* Vouchers by one poster, each at most once, are one voucher at most.
LEMMA AloneAtMostOnce ==
    ASSUME Retries = {}, Triggers = {}, TypeInv, DistinctPosters
    PROVE  PayoutAtMostOnce
  <1> SUFFICES ASSUME NEW p \in Payouts
               PROVE  Len(ledger[<<"payout", p>>]) <= 1
    BY DEF PayoutAtMostOnce
  <1> DEFINE s == ledger[<<"payout", p>>]
  <1>1. /\ s \in Seq(Voucher) /\ Len(s) \in Nat /\ DOMAIN s = 1 .. Len(s)
    BY LedgerFacts DEF Keys, Ops
  <1>2. SUFFICES ASSUME Len(s) > 1 PROVE FALSE
    BY <1>1
  <1>3. 1 \in DOMAIN s /\ 2 \in DOMAIN s
    BY <1>1, <1>2
  <1>4. \A i \in DOMAIN s : s[i] \in Voucher
    BY <1>1
  <1>5. \A i \in DOMAIN s : s[i].by = Scheduler
    BY <1>4 DEF Voucher, Workers
  <1>6. \A i, j \in DOMAIN s : s[i].by = s[j].by => i = j
    BY DEF DistinctPosters
  <1> QED BY <1>3, <1>5, <1>6

\* With the scheduler alone, Fortnox gets at most one voucher per payout,
\* under crashes, failing statements and lost answers
\* (scheduler.go:115-149, voucher.go:184-208).
THEOREM AloneBooksOnce ==
    ASSUME Retries = {}, Triggers = {}
    PROVE  Spec => []PayoutAtMostOnce
  <1>1. TypeInv /\ OnceInv => PayoutAtMostOnce
    BY AloneAtMostOnce DEF OnceInv
  <1> QED BY <1>1, OnceInvariant, PTL

\* What the proof of the refinement knows of every state.
AloneInv == TypeInv /\ BookedInv /\ OnceInv

LEMMA AloneFacts ==
    ASSUME Retries = {}, Triggers = {}, AloneInv, NEW p \in Payouts
    PROVE  LET k == <<"payout", p>> IN
           /\ k \in Keys
           /\ row[k] \in Row
           /\ Len(ledger[k]) \in Nat /\ Len(ledger[k]) <= 1
           /\ ledger[k] = <<>> <=> Len(ledger[k]) = 0
           /\ ledger[k] # <<>> => HasBooked(Scheduler, p) /\ row[k].id # 0
           /\ ledger[k] = <<>> => row[k].num = Null
  <1> DEFINE k == <<"payout", p>>
  <1>1. /\ k \in Keys
        /\ row[k] \in Row
        /\ ledger[k] \in Seq(Voucher) /\ Len(ledger[k]) \in Nat
        /\ DOMAIN ledger[k] = 1 .. Len(ledger[k])
        /\ ledger[k] # <<>> <=> Len(ledger[k]) > 0
    BY LedgerFacts DEF Keys, Ops, AloneInv, TypeInv, TypeOK
  <1>2. Len(ledger[k]) <= 1
    BY AloneAtMostOnce DEF AloneInv, OnceInv, PayoutAtMostOnce
  <1>3. ASSUME ledger[k] # <<>>
        PROVE  HasBooked(Scheduler, p) /\ row[k].id # 0
    <2>1. 1 \in DOMAIN ledger[k] /\ ledger[k][1] \in Voucher
      BY <1>1, <1>3
    <2>2. ledger[k][1].by = Scheduler
      BY <2>1 DEF Voucher, Workers
    <2>3. HasBooked(Scheduler, p)
      BY <2>1, <2>2 DEF HasBooked
    <2> QED BY <2>3 DEF AloneInv, OnceInv, Workers
  <1>4. ledger[k] = <<>> => row[k].num = Null
    BY <1>1 DEF AloneInv, BookedInv, ConfirmedIsBooked
  <1> QED BY <1>1, <1>2, <1>3, <1>4

\* The stage of a payout depends on its row and its vouchers only.
LEMMA StageSame ==
    ASSUME NEW p \in Payouts,
           row'[<<"payout", p>>] = row[<<"payout", p>>],
           ledger'[<<"payout", p>>] = ledger[<<"payout", p>>]
    PROVE  StageOf(p)' = StageOf(p)
  BY DEF StageOf, Confirmed

\* One payout moves on, the others stay: a step of PostOnce.
LEMMA StageAdvances ==
    ASSUME NEW p \in Payouts, NEW from, NEW to,
           StageOf(p) = from, StageOf(p)' = to,
           \A q \in Payouts : q # p => StageOf(q)' = StageOf(q)
    PROVE  Abstract!Advance(p, from, to)
  BY DEF Abstract!Advance

LEMMA ReserveRefines ==
    ASSUME Retries = {}, Triggers = {}, AloneInv, NEW w \in Workers, Reserve(w)
    PROVE  [Abstract!Next]_([p \in Payouts |-> StageOf(p)])
  <1>1. /\ UNCHANGED ledger
        /\ TypeInv
        /\ row \in [Keys -> Row] /\ lastId \in [Keys -> Nat]
        /\ Key(w) \in Keys
        /\ \/ /\ row' = [row EXCEPT ![Key(w)] = [id |-> lastId[Key(w)] + 1, num |-> Null]]
              /\ row[Key(w)].id = 0
           \/ row' = row
    BY ReserveEffect DEF Reserve, AloneInv, TypeInv, TypeOK, InsertPending
  <1>2. \A q \in Payouts : <<"payout", q>> # Key(w) => StageOf(q)' = StageOf(q)
    BY <1>1, StageSame DEF Keys, Ops
  <1>3. CASE row' = row \/ \A q \in Payouts : <<"payout", q>> # Key(w)
    <2>1. \A q \in Payouts : StageOf(q)' = StageOf(q)
      BY <1>1, <1>2, <1>3, StageSame
    <2> QED BY <2>1
  <1>4. ASSUME NEW p \in Payouts, Key(w) = <<"payout", p>>, row' # row
        PROVE  Abstract!Next
    <2>1. /\ row[<<"payout", p>>].id = 0
          /\ row'[<<"payout", p>>].id # 0
      BY <1>1, <1>4
    <2>2. ledger[<<"payout", p>>] = <<>>
      BY <2>1, AloneFacts
    <2>3. StageOf(p) = "open" /\ StageOf(p)' = "reserved"
      BY <1>1, <2>1, <2>2 DEF StageOf
    <2>4. Abstract!Reserve(p)
      BY <1>2, <1>4, <2>3, StageAdvances DEF Abstract!Reserve
    <2> QED BY <2>4 DEF Abstract!Next
  <1> QED BY <1>3, <1>4

LEMMA PostRefines ==
    ASSUME Retries = {}, Triggers = {}, AloneInv, NEW w \in Workers, Post(w)
    PROVE  [Abstract!Next]_([p \in Payouts |-> StageOf(p)])
  <1>1. /\ UNCHANGED row /\ TypeInv /\ OnceInv
        /\ Key(w) \in Keys
        /\ Book(w) \/ UNCHANGED ledger
    BY PostEffect DEF Post, AloneInv
  <1>2. CASE UNCHANGED ledger
    <2>1. \A q \in Payouts : StageOf(q)' = StageOf(q)
      BY <1>1, <1>2, StageSame
    <2> QED BY <2>1
  <1>3. CASE Book(w)
    <2>1. \A q \in Payouts : <<"payout", q>> # Key(w) => StageOf(q)' = StageOf(q)
      BY <1>1, <1>3, BookEffect, StageSame DEF Keys, Ops
    <2>2. CASE \A q \in Payouts : <<"payout", q>> # Key(w)
      BY <2>1, <2>2
    <2>3. ASSUME NEW p \in Payouts, Key(w) = <<"payout", p>>
          PROVE  Abstract!Next
      <3>1. w = Scheduler
        BY DEF Workers
      <3>2. ~HasBooked(w, p) /\ row[Key(w)].id # 0
        BY <1>1, <2>3, PostedNotAhead DEF OnceInv, Post, Running
      <3>3. /\ ledger[Key(w)] = <<>> /\ Len(ledger[Key(w)]) = 0
            /\ row[Key(w)].num = Null
        BY <2>3, <3>1, <3>2, AloneFacts
      <3>4. Len(ledger'[Key(w)]) = 1 /\ ledger'[Key(w)] # <<>>
        <4>1. /\ Len(ledger'[Key(w)]) = Len(ledger[Key(w)]) + 1
              /\ ledger'[Key(w)] # <<>>
          BY <1>1, <1>3, BookEffect
        <4> QED BY <3>3, <4>1
      <3>5. StageOf(p) = "reserved" /\ StageOf(p)' = "booked"
        BY <1>1, <2>3, <3>2, <3>3, <3>4 DEF StageOf, Confirmed
      <3>6. Abstract!Book(p)
        BY <2>1, <2>3, <3>5, StageAdvances DEF Abstract!Book
      <3> QED BY <3>6 DEF Abstract!Next
    <2> QED BY <2>2, <2>3
  <1> QED BY <1>1, <1>2, <1>3

LEMMA ConfirmRefines ==
    ASSUME Retries = {}, Triggers = {}, AloneInv, NEW w \in Workers, Confirm(w)
    PROVE  [Abstract!Next]_([p \in Payouts |-> StageOf(p)])
  <1> DEFINE num == run[w].got
  <1>1. /\ UNCHANGED ledger
        /\ row \in [Keys -> Row]
        /\ Key(w) \in Keys
        /\ SetNumber(Key(w), num) \/ row' = row
    BY RunType DEF Confirm, AloneInv, TypeInv, TypeOK, Active, Running
  <1>2. \A q \in Payouts : <<"payout", q>> # Key(w) => StageOf(q)' = StageOf(q)
    BY <1>1, StageSame DEF Keys, Ops, SetNumber
  <1>3. CASE row' = row \/ \A q \in Payouts : <<"payout", q>> # Key(w)
    <2>1. \A q \in Payouts : StageOf(q)' = StageOf(q)
      BY <1>1, <1>2, <1>3, StageSame
    <2> QED BY <2>1
  <1>4. ASSUME NEW p \in Payouts, Key(w) = <<"payout", p>>, row' # row
        PROVE  Abstract!Next
    <2>1. /\ row[Key(w)].id # 0 /\ row[Key(w)].num = Null
          /\ row'[Key(w)].id # 0 /\ row'[Key(w)].num = num
      <3>1. /\ row[Key(w)] \in Row
            /\ row[Key(w)].id # 0 /\ row[Key(w)].num = Null
            /\ row' = [row EXCEPT ![Key(w)].num = num]
        BY <1>1, <1>4 DEF SetNumber
      <3>2. row'[Key(w)] = [row[Key(w)] EXCEPT !.num = num]
        BY <1>1, <3>1
      <3> QED BY <3>1, <3>2 DEF Row
    <2>2. /\ ledger[Key(w)] # <<>>
          /\ num \in {Blank} \cup DOMAIN ledger[Key(w)]
      <3>1. Phase(w) /\ run[w].pc = "confirm"
        BY DEF AloneInv, BookedInv, Phases, Confirm
      <3> QED BY <3>1 DEF Phase
    <2>3. Len(ledger[Key(w)]) = 1
      <3>1. /\ Len(ledger[<<"payout", p>>]) \in Nat
            /\ Len(ledger[<<"payout", p>>]) <= 1
            /\ ledger[<<"payout", p>>] = <<>> <=> Len(ledger[<<"payout", p>>]) = 0
        BY AloneFacts
      <3>2. ledger[<<"payout", p>>] # <<>>
        BY <1>4, <2>2
      <3> DEFINE n == Len(ledger[<<"payout", p>>])
      <3>3. n \in Nat /\ n <= 1 /\ n # 0
        BY <3>1, <3>2
      <3> HIDE DEF n
      <3>4. n = 1
        BY <3>3
      <3> QED BY <1>4, <3>4 DEF n
    <2>4. num # Null
      <3>1. DOMAIN ledger[Key(w)] = 1 .. Len(ledger[Key(w)])
        BY <1>1, LedgerFacts DEF AloneInv
      <3> QED BY <2>2, <2>3, <3>1 DEF Blank, Null
    <2>5. StageOf(p) = "booked" /\ StageOf(p)' = "confirmed"
      BY <1>1, <1>4, <2>1, <2>2, <2>3, <2>4 DEF StageOf, Confirmed
    <2>6. Abstract!Confirm(p)
      BY <1>2, <1>4, <2>5, StageAdvances DEF Abstract!Confirm
    <2> QED BY <2>6 DEF Abstract!Next
  <1> QED BY <1>3, <1>4

LEMMA StepRefines ==
    ASSUME Retries = {}, Triggers = {}
    PROVE  AloneInv /\ [Next]_vars
               => [Abstract!Next]_([p \in Payouts |-> StageOf(p)])
  <1> SUFFICES ASSUME AloneInv, [Next]_vars
               PROVE  [Abstract!Next]_([p \in Payouts |-> StageOf(p)])
    OBVIOUS
  <1>1. CASE UNCHANGED <<row, ledger>>
    <2>1. \A q \in Payouts : StageOf(q)' = StageOf(q)
      BY <1>1, StageSame
    <2> QED BY <2>1
  <1>2. ~\E w \in Workers : Delete(w)
    BY DEF AloneInv, OnceInv, Delete
  <1> QED
    BY <1>1, <1>2, ReserveRefines, PostRefines, ConfirmRefines
       DEF Next, Continue, Stripe, StartRun, ReadTxns, EndRun, LookUp, Reread,
           Relist, RetryRequest, Crash, StoreStatus, StoreTxn, vars, Workers

\* The scheduler alone implements PostOnce: each payout is reserved, booked
\* at most once and confirmed, in this order, whatever crashes, database
\* errors and lost answers come between (voucher.go:184-208).
THEOREM AloneImplementsPostOnce ==
    ASSUME Retries = {}, Triggers = {}
    PROVE  Spec => PostsOnce
  <1>1. Init => Abstract!Init
    BY DEF Init, Abstract!Init, StageOf, NoRow, Keys, Ops
  <1>2. Spec => []AloneInv
    BY OnceInvariant, BookedInvariant, PTL DEF AloneInv
  <1> QED BY <1>1, <1>2, StepRefines, PTL DEF Spec, PostsOnce, Abstract!Spec

-----------------------------------------------------------------------------
(* Fees *)

\* What a goroutine's record says of its voucher after a step: nothing, the
\* same, the payout voucher after the fee voucher has returned, or the first
\* voucher of the next payout.
SameVoucher(w) ==
    /\ run[w].pc \in Running
    /\ run'[w].op = run[w].op /\ run'[w].cur = run[w].cur
    /\ run'[w].fee = run[w].fee

FeeIsOver(w) ==
    /\ run[w].pc \in Running /\ run[w].op = "fee"
    /\ run'[w].op = "payout" /\ run'[w].cur = run[w].cur
    /\ run'[w].fee = run[w].fee
    /\ \/ Confirmed(Key(w))
       \/ run[w].pc \in {"post", "confirm", "reread"}
       \/ "db" \in Faults

FirstVoucher(w) ==
    /\ run'[w].op = FirstOp(run'[w].fee)
    /\ run'[w].cur \in run[w].todo

LEMMA ReturnsVoucher ==
    ASSUME TypeInv, NEW w \in Workers, run[w].pc \in Running,
           Succeeds(w) \/ Fails(w)
    PROVE  /\ run'[w].pc \in Running =>
                /\ run[w].op = "fee"
                /\ run'[w].op = "payout" /\ run'[w].cur = run[w].cur
                /\ run'[w].fee = run[w].fee
           /\ run'[w].todo = run[w].todo
  <1>1. PICK entry \in LogEntries : Returns(w, entry)
    BY DEF Succeeds, Fails, LogEntries
  <1>2. run'[w].pc \in Running =>
            /\ run[w].op = "fee"
            /\ run'[w].op = "payout" /\ run'[w].cur = run[w].cur
    BY <1>1, ReturnsEffect DEF Running
  <1>3. run'[w].todo = run[w].todo
    BY <1>1, ReturnsEffect
  <1>4. CASE FeeReturns(w)
    <2>1. run[w] \in Run
      BY RunType
    <2>2. run'[w] = [run[w] EXCEPT !.pc = "lookup", !.op = "payout",
                                   !.got = Null]
      BY <1>4, BecomesEffect DEF FeeReturns
    <2>3. run'[w].fee = run[w].fee
      BY <2>1, <2>2 DEF Run
    <2> QED BY <1>2, <1>3, <2>3
  <1>5. CASE PayoutReturns(w, entry)
    <2>1. run[w].op = "payout"
      BY <1>5 DEF PayoutReturns
    <2> QED BY <1>2, <1>3, <2>1
  <1> QED BY <1>1, <1>4, <1>5 DEF Returns

LEMMA GotoVoucher ==
    ASSUME TypeInv, NEW w \in Workers, NEW pc, run[w].pc \in Running,
           Goto(w, pc)
    PROVE  SameVoucher(w) /\ run'[w].todo = run[w].todo
  <1>1. run[w] \in Run /\ run'[w] = [run[w] EXCEPT !.pc = pc]
    BY RunType, BecomesEffect DEF Goto
  <1>2. run'[w].fee = run[w].fee
    BY <1>1 DEF Run
  <1> QED BY <1>2, GotoEffect DEF SameVoucher

LEMMA AnsweredVoucher ==
    ASSUME TypeInv, NEW w \in Workers, NEW num, run[w].pc \in Running,
           Answered(w, num)
    PROVE  SameVoucher(w) /\ run'[w].todo = run[w].todo
  <1>1. run[w] \in Run
    BY RunType
  <1>2. run'[w] = [run[w] EXCEPT !.pc = "confirm", !.got = num]
    BY BecomesEffect DEF Answered
  <1>3. run'[w].fee = run[w].fee
    BY <1>1, <1>2 DEF Run
  <1> QED BY <1>3, AnsweredEffect DEF SameVoucher

LEMMA ReadTxnsVoucher ==
    ASSUME TypeInv, NEW w \in Workers, ReadTxns(w)
    PROVE  /\ run'[w].pc \in Running => FirstVoucher(w)
           /\ run'[w].todo \subseteq run[w].todo
  <1>1. run[w] \in Run /\ run[w].pc = "next"
    BY RunType DEF ReadTxns
  <1>2. PICK p \in run[w].todo :
           \/ Becomes(w, [run[w] EXCEPT !.pc = "lookup",
                                        !.op = FirstOp(FeesStored(p)),
                                        !.cur = p,
                                        !.todo = @ \ {p},
                                        !.fee = FeesStored(p)])
           \/ Becomes(w, [run[w] EXCEPT !.todo = @ \ {p}])
    BY DEF ReadTxns, Earliest
  <1>3. PICK fee : fee = FeesStored(p)
    OBVIOUS
  <1>4. PICK op : op = FirstOp(fee)
    OBVIOUS
  <1>5. CASE Becomes(w, [run[w] EXCEPT !.pc = "lookup", !.op = op, !.cur = p,
                                       !.todo = @ \ {p}, !.fee = fee])
    <2>1. run'[w] = [run[w] EXCEPT !.pc = "lookup", !.op = op, !.cur = p,
                                   !.todo = @ \ {p}, !.fee = fee]
      BY <1>5, BecomesEffect
    <2>2. /\ run'[w].op = op /\ run'[w].cur = p /\ run'[w].fee = fee
          /\ run'[w].todo = run[w].todo \ {p}
      BY <1>1, <2>1 DEF Run
    <2>3. run'[w].op = FirstOp(run'[w].fee)
      BY <1>4, <2>2 DEF FirstOp
    <2> QED BY <2>2, <2>3 DEF FirstVoucher
  <1>6. CASE Becomes(w, [run[w] EXCEPT !.todo = @ \ {p}])
    <2>1. run'[w] = [run[w] EXCEPT !.todo = @ \ {p}]
      BY <1>6, BecomesEffect
    <2>2. run'[w].pc = "next" /\ run'[w].todo = run[w].todo \ {p}
      BY <1>1, <2>1 DEF Run
    <2> QED BY <2>2 DEF Running
  <1> QED BY <1>2, <1>3, <1>4, <1>5, <1>6

\* How a goroutine comes to the voucher it is at.
LEMMA VoucherNext ==
    ASSUME TypeInv, [Next]_vars, NEW w \in Workers, run'[w].pc \in Running
    PROVE  SameVoucher(w) \/ FeeIsOver(w) \/ FirstVoucher(w)
  <1>1. CASE run'[w] = run[w]
    BY <1>1 DEF SameVoucher
  <1>2. CASE run'[w] = Idle \/ EndRun(w)
    BY <1>2, BecomesEffect DEF EndRun, Idle, Running
  <1>3. CASE StartRun(w)
    BY <1>3, StartRunEffect DEF Running
  <1>4. CASE ReadTxns(w)
    BY <1>4, ReadTxnsVoucher
  <1>5. ASSUME run[w].pc \in Running, Succeeds(w) \/ Fails(w),
               \/ Confirmed(Key(w))
               \/ run[w].pc \in {"post", "confirm", "reread"}
               \/ "db" \in Faults
        PROVE  FeeIsOver(w)
    BY <1>5, ReturnsVoucher DEF FeeIsOver
  <1>6. CASE LookUp(w)
    <2>1. run[w].pc \in Running
      BY <1>6 DEF LookUp, Running
    <2> QED BY <1>5, <1>6, <2>1, GotoVoucher DEF LookUp, Fault
  <1>7. CASE Reserve(w)
    <2>1. run[w].pc \in Running
      BY <1>7 DEF Reserve, Running
    <2> QED BY <1>5, <1>7, <2>1, GotoVoucher DEF Reserve, Fault
  <1>8. CASE Post(w)
    <2>1. run[w].pc \in Running /\ run[w].pc \in {"post", "confirm", "reread"}
      BY <1>8 DEF Post, Running
    <2> QED BY <1>5, <1>8, <2>1, AnsweredVoucher DEF Post, Rejected
  <1>9. CASE Confirm(w)
    <2>1. run[w].pc \in Running /\ run[w].pc \in {"post", "confirm", "reread"}
      BY <1>9 DEF Confirm, Running
    <2> QED BY <1>5, <1>9, <2>1, GotoVoucher DEF Confirm
  <1>10. CASE Reread(w)
    <2>1. run[w].pc \in Running /\ run[w].pc \in {"post", "confirm", "reread"}
      BY <1>10 DEF Reread, Running
    <2> QED BY <1>2, <1>5, <1>10, <2>1 DEF Reread
  <1>11. CASE Delete(w) \/ Relist(w)
    BY <1>11, DeleteEffect, RelistEffect DEF Running
  <1>12. ASSUME NEW v \in Workers, v # w, StartRun(v) \/ Continue(v)
         PROVE  run'[w] = run[w] \/ run'[w] = Idle
    BY <1>12, OthersStay
  <1>13. ASSUME NEW v \in Retries, NEW k \in Keys, RetryRequest(v, k)
         PROVE  run'[w] = run[w]
    BY <1>13, RetryRequestEffect DEF Running
  <1>14. CASE Crash \/ Stripe \/ UNCHANGED vars
    BY <1>1, <1>2, <1>14 DEF Crash, Stripe, StoreStatus, StoreTxn, vars
  <1> QED
    BY <1>1, <1>2, <1>3, <1>4, <1>6, <1>7, <1>8, <1>9, <1>10, <1>11, <1>12,
       <1>13, <1>14 DEF Next, Continue

\* A fee voucher that returns has had its row, unless a statement failed.
LEMMA FeeWasReserved ==
    ASSUME TypeInv, RowIds, Phases, NEW w \in Workers, FeeIsOver(w),
           "db" \notin Faults
    PROVE  lastId[<<"fee", run[w].cur>>] > 0
  <1>1. Key(w) = <<"fee", run[w].cur>>
    BY DEF FeeIsOver, Key
  <1>2. Key(w) \in Keys
    BY RunType DEF FeeIsOver, Active
  <1>3. /\ row[Key(w)].id \in Nat /\ lastId[Key(w)] \in Nat
        /\ row[Key(w)].id <= lastId[Key(w)]
        /\ row[Key(w)].id = 0 => row[Key(w)].num = Null
    BY <1>2 DEF TypeInv, TypeOK, RowIds, Row
  <1>4. CASE Confirmed(Key(w))
    BY <1>1, <1>3, <1>4 DEF Confirmed
  <1>5. CASE run[w].pc \in {"post", "confirm", "reread"}
    BY <1>1, <1>5 DEF Phases, Phase
  <1> QED BY <1>4, <1>5 DEF FeeIsOver

LEMMA FeeInvNext ==
    ASSUME "db" \notin Faults
    PROVE  TypeInv /\ BookedInv /\ FeeInv /\ [Next]_vars => FeeInv'
  <1> SUFFICES ASSUME TypeInv, BookedInv, FeeInv, [Next]_vars,
                      NEW w \in Workers, run'[w].pc \in Running,
                      run'[w].op = "payout", run'[w].fee # {}
               PROVE  lastId'[<<"fee", run'[w].cur>>] > 0
    BY DEF FeeInv
  <1>1. ~FirstVoucher(w)
    BY DEF FirstVoucher, FirstOp
  <1>2. /\ run[w].pc \in Running
        /\ run'[w].cur = run[w].cur
        /\ run'[w].fee = run[w].fee
    BY <1>1, VoucherNext DEF SameVoucher, FeeIsOver
  <1> DEFINE k == <<"fee", run[w].cur>>
  <1>3. lastId[k] > 0
    <2>1. CASE SameVoucher(w)
      BY <1>2, <2>1 DEF SameVoucher, FeeInv
    <2>2. CASE FeeIsOver(w)
      BY <2>2, FeeWasReserved DEF BookedInv
    <2> QED BY <1>1, <2>1, <2>2, VoucherNext
  <1>4. PICK n : n = k
    OBVIOUS
  <1>5. n \in Keys
    BY <1>2, <1>4, RunType DEF Active, Keys, Ops
  <1>6. lastId[n] \in Nat /\ lastId'[n] \in Nat /\ lastId'[n] >= lastId[n]
    BY <1>5, TypeInvNext, GrowsNext DEF Grows, TypeInv, TypeOK
  <1>7. lastId'[n] > 0
    BY <1>3, <1>4, <1>6
  <1> QED BY <1>2, <1>4, <1>7

LEMMA FeeInvInit == Init => FeeInv
  BY DEF Init, FeeInv, Idle, Running

\* While no statement fails, whatever goroutines, retries, crashes and
\* answers of Fortnox there are, the row of the fee voucher comes before that
\* of the payout voucher, which closes the payout (scheduler.go:135-141).
THEOREM FeesAreReservedFirst ==
    ASSUME "db" \notin Faults
    PROVE  Spec => []FeeReservedFirst
  <1>1. FeeInv => FeeReservedFirst
    BY DEF FeeInv, FeeReservedFirst, Running
  <1> QED BY <1>1, FeeInvInit, FeeInvNext, TypeInvariant, BookedInvariant, PTL
          DEF Spec

-----------------------------------------------------------------------------
(* The scheduler alone, and the fees of a payout that has its row *)

\* What the run has still to come to was on its list, or is unsynced.
LEMMA TodoNext ==
    ASSUME TypeInv, OnceInv, [Next]_vars, Retries = {}, NEW w \in Workers
    PROVE  run'[w].todo \subseteq run[w].todo \cup Unsynced
  <1>1. CASE run'[w] = run[w]
    BY <1>1
  <1>2. CASE run'[w] = Idle \/ EndRun(w)
    BY <1>2, BecomesEffect DEF EndRun, Idle
  <1>3. CASE StartRun(w)
    BY <1>3, StartRunEffect
  <1>4. CASE ReadTxns(w)
    BY <1>4, ReadTxnsVoucher
  <1>5. CASE LookUp(w) \/ Reserve(w) \/ Confirm(w)
    BY <1>5, ReturnsVoucher, GotoVoucher DEF LookUp, Reserve, Confirm, Running
  <1>6. CASE Post(w)
    BY <1>6, ReturnsVoucher, AnsweredVoucher DEF Post, Rejected, Running
  <1>7. CASE Reread(w)
    BY <1>2, <1>7, ReturnsVoucher DEF Reread, Running
  <1>8. ~Delete(w) /\ ~Relist(w)
    BY DEF OnceInv, Delete, Relist
  <1>9. ASSUME NEW v \in Workers, v # w, StartRun(v) \/ Continue(v)
        PROVE  run'[w] = run[w] \/ run'[w] = Idle
    BY <1>9, OthersStay
  <1>10. CASE Crash \/ Stripe \/ UNCHANGED vars
    BY <1>1, <1>2, <1>10 DEF Crash, Stripe, StoreStatus, StoreTxn, vars
  <1> QED
    BY <1>1, <1>2, <1>3, <1>4, <1>5, <1>6, <1>7, <1>8, <1>9, <1>10
       DEF Next, Continue

\* A payout gets its row from a goroutine that is at its payout voucher and
\* stays there.
LEMMA RowInserted ==
    ASSUME TypeInv, OnceInv, [Next]_vars, NEW k \in Keys,
           row[k].id = 0, row'[k].id # 0
    PROVE  \E w \in Workers :
              /\ Key(w) = k
              /\ run[w].pc \in Running
              /\ run'[w].op = run[w].op
              /\ run[w].cur \notin run[w].todo
              /\ run'[w].todo = run[w].todo
  <1>0. row \in [Keys -> Row]
    BY DEF TypeInv, TypeOK
  <1>1. \A w \in Workers : ~Delete(w)
    BY DEF OnceInv, Delete
  <1>2. ASSUME NEW w \in Workers, Confirm(w) PROVE FALSE
    BY <1>0, <1>2 DEF Confirm, SetNumber, Row
  <1>3. PICK w \in Workers : Reserve(w)
    BY <1>1, <1>2
       DEF Next, Continue, Stripe, StartRun, ReadTxns, EndRun, LookUp, Post,
           Reread, Relist, RetryRequest, Crash, StoreStatus, StoreTxn, vars,
           Workers
  <1>4. run[w].pc \in Running /\ run[w].cur \notin run[w].todo
    BY <1>3 DEF Reserve, Running, OnceInv
  <1>5. Key(w) \in Keys /\ InsertPending(Key(w)) /\ Goto(w, "post")
    BY <1>3, ReserveEffect DEF Reserve
  <1>6. Key(w) = k
    BY <1>0, <1>5 DEF InsertPending
  <1> QED BY <1>4, <1>5, <1>6, GotoVoucher DEF SameVoucher

LEMMA ListIsFreshNext ==
    ASSUME Retries = {}, Triggers = {}
    PROVE  TypeInv /\ OnceInv /\ ListIsFresh /\ [Next]_vars => ListIsFresh'
  <1> SUFFICES ASSUME TypeInv, OnceInv, ListIsFresh, [Next]_vars,
                      NEW w \in Workers
               PROVE  /\ \A p \in run'[w].todo : row'[<<"payout", p>>].id = 0
                      /\ run'[w].pc \in Running /\ run'[w].op = "fee"
                            => row'[<<"payout", run'[w].cur>>].id = 0
    BY DEF ListIsFresh
  <1>0. /\ run[w] \in Run /\ run'[w] \in Run
        /\ \A v \in Workers : v = w
        /\ \A p \in Payouts : <<"payout", p>> \in Keys
    BY RunType, TypeInvNext DEF TypeInv, TypeOK, Workers, Keys, Ops
  <1>1. ASSUME NEW p \in Payouts, row[<<"payout", p>>].id = 0,
               row'[<<"payout", p>>].id # 0
        PROVE  /\ run[w].cur = p /\ run[w].op = "payout"
               /\ run[w].pc \in Running
               /\ run'[w].op = "payout"
               /\ p \notin run'[w].todo
    BY <1>0, <1>1, RowInserted DEF Key
  <1>2. ASSUME NEW p \in run'[w].todo PROVE row'[<<"payout", p>>].id = 0
    <2>1. p \in Payouts
      BY <1>0, <1>2 DEF Run
    <2>2. row[<<"payout", p>>].id = 0
      BY <1>2, <2>1, TodoNext DEF Unsynced, ListIsFresh
    <2> QED BY <1>1, <1>2, <2>1, <2>2
  <1>3. ASSUME run'[w].pc \in Running, run'[w].op = "fee"
        PROVE  row'[<<"payout", run'[w].cur>>].id = 0
    <2>1. PICK p : p = run'[w].cur
      OBVIOUS
    <2>2. p \in Payouts
      BY <1>3, <2>1, TypeInvNext DEF TypeInv, Busy
    <2>3. row[<<"payout", p>>].id = 0
      BY <1>3, <2>1, VoucherNext
         DEF SameVoucher, FeeIsOver, FirstVoucher, ListIsFresh
    <2>4. row'[<<"payout", p>>].id = 0
      BY <1>1, <1>3, <2>2, <2>3
    <2> QED BY <2>1, <2>4
  <1> QED BY <1>2, <1>3

LEMMA ListIsFreshInit == Init => ListIsFresh
  BY DEF Init, ListIsFresh, Idle, Running

LEMMA FeesEndStep ==
    ASSUME Retries = {}, Triggers = {}, TypeInv, ListIsFresh, [Next]_vars,
           NEW p \in Payouts, row[<<"payout", p>>].id # 0
    PROVE  ledger'[<<"fee", p>>] = ledger[<<"fee", p>>]
  <1>1. <<"fee", p>> \in Keys
    BY DEF Keys, Ops
  <1>2. ASSUME NEW w \in Workers, Post(w)
        PROVE  ledger'[<<"fee", p>>] = ledger[<<"fee", p>>]
    <2>1. Key(w) # <<"fee", p>>
      BY <1>2 DEF Post, Key, ListIsFresh, Running
    <2> QED BY <1>1, <1>2, <2>1, PostEffect, BookEffect
  <1> QED
    BY <1>2
       DEF Next, Continue, Stripe, StartRun, ReadTxns, EndRun, LookUp, Reserve,
           Confirm, Reread, Delete, Relist, RetryRequest, Crash, StoreStatus,
           StoreTxn, vars, Workers

\* With the scheduler alone no fee voucher is sent once the payout has its
\* row, whatever crashes, failing statements and answers there are: a run
\* comes only to payouts that had none when it listed them, and their rows
\* are its own (queries.sql.go:361-362, scheduler.go:135-141).
THEOREM AloneEndsFees ==
    ASSUME Retries = {}, Triggers = {}
    PROVE  Spec => PayoutEndsFees
  <1>1. ASSUME TypeInv, ListIsFresh, [Next]_vars
        PROVE  [\A p \in Payouts :
                   row[<<"payout", p>>].id # 0 =>
                       ledger'[<<"fee", p>>] = ledger[<<"fee", p>>]]_vars
    BY <1>1, FeesEndStep
  <1> QED BY <1>1, ListIsFreshInit, ListIsFreshNext, OnceInvariant, PTL
          DEF Spec, PayoutEndsFees
=============================================================================
