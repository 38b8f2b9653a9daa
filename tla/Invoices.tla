------------------------------ MODULE Invoices ------------------------------
(***************************************************************************)
(* Charges to Fortnox invoices and invoice payments: CreateInvoice and     *)
(* MarkInvoicePaid of internal/fortnox/invoice.go, driven by the scheduler *)
(* (internal/scheduler/scheduler.go) and by the "sync" button              *)
(* (internal/handler/sync.go), over stripe_charges and stripe_customers.   *)
(*                                                                         *)
(* A step of a worker is one SQL statement or one call to Fortnox, as in   *)
(* Vouchers.  Reads of account_mappings, which nothing here changes, go    *)
(* with the call they prepare.                                             *)
(*                                                                         *)
(* Data.  An invoice number is the position of the invoice among those of  *)
(* its charge in Fortnox, a payment number likewise; of a customer only    *)
(* the number of its records in Fortnox is kept.  Charges marked LEGACY    *)
(* are on no list and left out.  Foreign keys are on (database.go:31): a   *)
(* charge is stored with its customer, or has none.                        *)
(***************************************************************************)
EXTENDS Integers, Sequences, FiniteSets, Functions

CONSTANTS
    Charges,        \* ids of the charges
    Customers,      \* ids of the customers
    CustomerOf,     \* the customer of each charge, or NoCustomer
    CreatedAt,      \* created_at of each charge
    TxnType,        \* type of the balance transaction of each charge
    Scheduler,      \* the scheduler's goroutine
    Triggers,       \* goroutines started by the "sync" button
    Faults,         \* kinds of fault that may happen
    MaxFaults,      \* bound: how many faults happen at most
    NoCustomer,     \* customer_id IS NULL
    NoCharge        \* a goroutine that works on no charge

Workers == {Scheduler} \cup Triggers

(***************************************************************************)
(* crash: the process stops and restarts.  db: a statement fails.  reject: *)
(* Fortnox answers with an error, 429 to a PUT included.  lost: Fortnox    *)
(* does it and the answer does not arrive.  garbled: the answer has no     *)
(* number.                                                                 *)
(***************************************************************************)
FaultKinds == {"crash", "db", "reject", "lost", "garbled"}

ASSUME CustomersAssumption ==
    /\ NoCustomer \notin Customers
    /\ CustomerOf \in [Charges -> Customers \cup {NoCustomer}]
ASSUME CreatedAtAssumption == CreatedAt \in [Charges -> Nat]
ASSUME TxnTypeAssumption == TxnType \in [Charges -> {"charge", "payment"}]
ASSUME WorkersAssumption == Scheduler \notin Triggers /\ IsFiniteSet(Triggers)
ASSUME BoundsAssumption == Faults \subseteq FaultKinds /\ MaxFaults \in Nat
ASSUME NoChargeAssumption == NoCharge \notin Charges

VARIABLES
    succeeded,  \* the charges stored with status "succeeded"
    available,  \* the charges whose balance transaction is stored
    number,     \* stripe_charges.fortnox_invoice_number
    paid,       \* the charges with fortnox_invoice_paid = 1
    custNo,     \* the customers with a fortnox_customer_id
    customers,  \* how often Fortnox holds each customer
    invoices,   \* the invoices Fortnox holds for a charge, oldest first
    payments,   \* the payments Fortnox holds for a charge, oldest first
    log,        \* actions of sync_log rows of each charge
    run,        \* the goroutines
    faults      \* faults so far

stripe  == <<succeeded, available>>
columns == <<number, paid, custNo>>
fortnox == <<customers, invoices, payments>>
vars    == <<stripe, columns, fortnox, log, run, faults>>

-----------------------------------------------------------------------------
(* Values *)

Null == 0       \* fortnox_invoice_number IS NULL

LogEntries == {"fortnox_invoice_created", "fortnox_error"}
Lists == {"charges", "unpaid"}
PCs == {"idle", "next", "customer", "saveCustomer", "invoice", "bookInvoice",
        "saveNumber", "created", "payment", "bookPayment", "setPaid"}

\* todo: what is left of the list the goroutine goes over, each charge with
\* the invoice number it was listed with.
Idle == [pc |-> "idle", list |-> "charges", todo |-> {}, cur |-> NoCharge,
         inv |-> Null, pay |-> 0]

Invoice == [booked : BOOLEAN]
Payment == [invoice : Nat, booked : BOOLEAN]
Run     == [pc : PCs, list : Lists, todo : SUBSET (Charges \X Nat),
            cur : Charges \cup {NoCharge}, inv : Nat, pay : Nat]

\* Goroutine w goes on as r.
Becomes(w, r) == run' = [run EXCEPT ![w] = r]

\* Goroutine w goes on with statement or call pc.
Goto(w, pc) == Becomes(w, [run[w] EXCEPT !.pc = pc])

\* Goroutine w is done with its charge and goes on with the next one.
Leave(w) ==
    Becomes(w, [run[w] EXCEPT !.pc = "next", !.cur = NoCharge,
                              !.inv = Null, !.pay = 0])

NoFault == UNCHANGED faults

Fault(kind) ==
    /\ kind \in Faults
    /\ faults < MaxFaults
    /\ faults' = faults + 1

Log(c, entry) == log' = [log EXCEPT ![c] = @ \cup {entry}]

-----------------------------------------------------------------------------
(* Queries *)

\* Mutants of UnsyncedCharges: the number is neither in the condition nor
\* among the columns; the charge has to have its balance transaction.
EverySucceeded == succeeded \X {Null}
UnsyncedWithTxn ==
    {c \in succeeded \cap available : number[c] = Null} \X {Null}

\* ListUnsyncedCharges: succeeded, and without an invoice number.  So the
\* charge CreateInvoice is called with never has one, and its own look at
\* the number never returns early.
UnsyncedCharges == {c \in succeeded : number[c] = Null} \X {Null}

\* Its ORDER BY created_at ASC.
Earliest(S) == {e \in S : \A f \in S : CreatedAt[e[1]] <= CreatedAt[f[1]]}

\* The rows of the join of charges with a number and their balance
\* transactions, of type "charge" only.
Joined == {c \in available : number[c] # Null /\ TxnType[c] = "charge"}

\* Mutants of UnpaidCharges: the paid flag is not looked at; charges that had
\* an error are left out.
EveryInvoiced == {<<c, number[c]>> : c \in Joined}

UnpaidWithoutError ==
    {<<c, number[c]>> : c \in {d \in Joined \ paid :
                                  "fortnox_error" \notin log[d]}}

\* ListChargesNeedingInvoicePayment: joined, and not paid.
UnpaidCharges == {<<c, number[c]>> : c \in Joined \ paid}

-----------------------------------------------------------------------------
(* A run over the charges, then over the unpaid invoices *)

\* A list that cannot be read is an empty one: the run goes on.
StartRun(w) ==
    /\ run[w] = Idle
    /\ \/ Becomes(w, [Idle EXCEPT !.pc = "next", !.todo = UnsyncedCharges])
          /\ NoFault
       \/ Becomes(w, [Idle EXCEPT !.pc = "next"]) /\ Fault("db")
    /\ UNCHANGED <<stripe, columns, fortnox, log>>

\* EnsureFortnoxCustomer with the customer as it was read: a customer with a
\* number is used as it is.
CustomerKnown(c) == CustomerOf[c] \in custNo

\* fetchOrPlaceholderCustomer for the next charge.  On an error, or for a
\* charge without a customer, a placeholder without a number is used.
GetCustomer(w) ==
    /\ run[w].pc = "next"
    /\ run[w].list = "charges"
    /\ \E e \in Earliest(run[w].todo) :
        LET at(pc) == [run[w] EXCEPT !.pc = pc, !.cur = e[1], !.todo = @ \ {e}]
        IN  \/ /\ CustomerKnown(e[1])
               /\ Becomes(w, at("invoice"))
               /\ NoFault
            \/ /\ ~CustomerKnown(e[1])
               /\ Becomes(w, at("customer"))
               /\ NoFault
            \/ /\ CustomerOf[e[1]] # NoCustomer
               /\ Becomes(w, at("customer"))
               /\ Fault("db")
    /\ UNCHANGED <<stripe, columns, fortnox, log>>

\* The charges are done: the second list.
ListUnpaid(w) ==
    /\ run[w].pc = "next"
    /\ run[w].list = "charges"
    /\ run[w].todo = {}
    /\ \/ /\ Becomes(w, [run[w] EXCEPT !.list = "unpaid",
                                       !.todo = UnpaidCharges])
          /\ NoFault
       \/ Becomes(w, [run[w] EXCEPT !.list = "unpaid"]) /\ Fault("db")
    /\ UNCHANGED <<stripe, columns, fortnox, log>>

\* reconcileInvoicePayments goes on to a charge of the second list.
NextUnpaid(w) ==
    /\ run[w].pc = "next"
    /\ run[w].list = "unpaid"
    /\ \E e \in run[w].todo :
           Becomes(w, [run[w] EXCEPT !.pc = "payment", !.cur = e[1],
                                     !.inv = e[2], !.todo = @ \ {e}])
    /\ UNCHANGED <<stripe, columns, fortnox, log>>
    /\ NoFault

EndRun(w) ==
    /\ run[w].pc = "next"
    /\ run[w].list = "unpaid"
    /\ run[w].todo = {}
    /\ Becomes(w, Idle)
    /\ UNCHANGED <<stripe, columns, fortnox, log>>
    /\ NoFault

-----------------------------------------------------------------------------
(* CreateInvoice *)

\* CreateInvoice returns an error: it goes to sync_log, the charge is left.
InvoiceFails(w) ==
    /\ Leave(w)
    /\ Log(run[w].cur, "fortnox_error")

GoesOn(w, pc) == Goto(w, pc) /\ UNCHANGED log

\* POST customers.
PostCustomer(w) ==
    LET create == customers' = [customers EXCEPT ![CustomerOf[run[w].cur]] = @ + 1]
    IN  /\ run[w].pc = "customer"
        /\ \/ create /\ GoesOn(w, "saveCustomer") /\ NoFault
           \/ create /\ InvoiceFails(w) /\ (Fault("lost") \/ Fault("garbled"))
           \/ UNCHANGED customers /\ InvoiceFails(w) /\ Fault("reject")
        /\ UNCHANGED <<stripe, columns, invoices, payments>>

\* Mutant of SetCustomer: a number is stored for no customer, too.
SetAnyCustomer(k) == custNo' = custNo \cup {k}

\* SetFortnoxCustomerID: no row for a charge without a customer.
SetCustomer(k) == custNo' = custNo \cup ({k} \ {NoCustomer})

SaveCustomer(w) ==
    /\ run[w].pc = "saveCustomer"
    /\ \/ /\ SetCustomer(CustomerOf[run[w].cur])
          /\ GoesOn(w, "invoice")
          /\ NoFault
       \/ UNCHANGED custNo /\ InvoiceFails(w) /\ Fault("db")
    /\ UNCHANGED <<stripe, number, paid, fortnox>>

\* RevenueMapping, then POST invoices.
PostInvoice(w) ==
    LET c == run[w].cur
        create == invoices' = [invoices EXCEPT ![c] =
                                   Append(@, [booked |-> FALSE])]
    IN  /\ run[w].pc = "invoice"
        /\ \/ /\ create
              /\ Becomes(w, [run[w] EXCEPT !.pc = "bookInvoice",
                                           !.inv = Len(invoices[c]) + 1])
              /\ UNCHANGED log
              /\ NoFault
           \/ create /\ InvoiceFails(w) /\ (Fault("lost") \/ Fault("garbled"))
           \/ /\ UNCHANGED invoices
              /\ InvoiceFails(w)
              /\ (Fault("reject") \/ Fault("db"))
        /\ UNCHANGED <<stripe, columns, customers, payments>>

\* Mutant of BookInvoiceRejected: the error of the PUT is not looked at.
BookInvoiceUnseen(w) == GoesOn(w, "saveNumber")

BookInvoiceRejected(w) == InvoiceFails(w)

\* PUT invoices/n/bookkeep.
BookInvoice(w) ==
    LET book == invoices' =
                    [invoices EXCEPT ![run[w].cur][run[w].inv].booked = TRUE]
    IN  /\ run[w].pc = "bookInvoice"
        /\ \/ book /\ GoesOn(w, "saveNumber") /\ NoFault
           \/ book /\ InvoiceFails(w) /\ Fault("lost")
           \/ /\ UNCHANGED invoices
              /\ BookInvoiceRejected(w)
              /\ Fault("reject")
        /\ UNCHANGED <<stripe, columns, customers, payments>>

\* Mutant of SetNumber: nothing is stored.
SetNoNumber(c, n) == UNCHANGED number

\* SetChargeFortnoxInvoiceNumber: whatever number is there.
SetNumber(c, n) == number' = [number EXCEPT ![c] = n]

SaveNumber(w) ==
    /\ run[w].pc = "saveNumber"
    /\ \/ /\ SetNumber(run[w].cur, run[w].inv)
          /\ GoesOn(w, "created")
          /\ NoFault
       \/ UNCHANGED number /\ InvoiceFails(w) /\ Fault("db")
    /\ UNCHANGED <<stripe, paid, custNo, fortnox>>

\* The new invoice goes to sync_log; GetBalanceTransactionBySource, whatever
\* the type of the transaction, decides whether it is paid at once.
Created(w) ==
    LET c == run[w].cur
    IN  /\ run[w].pc = "created"
        /\ Log(c, "fortnox_invoice_created")
        /\ \/ c \in available /\ Goto(w, "payment") /\ NoFault
           \/ c \notin available /\ Leave(w) /\ NoFault
           \/ Leave(w) /\ Fault("db")
        /\ UNCHANGED <<stripe, columns, fortnox>>

-----------------------------------------------------------------------------
(* MarkInvoicePaid; its errors are printed only *)

\* AccountByKontotyp, then POST invoicepayments.
PostPayment(w) ==
    LET c == run[w].cur
        create == payments' = [payments EXCEPT ![c] =
                      Append(@, [invoice |-> run[w].inv, booked |-> FALSE])]
    IN  /\ run[w].pc = "payment"
        /\ \/ /\ create
              /\ Becomes(w, [run[w] EXCEPT !.pc = "bookPayment",
                                           !.pay = Len(payments[c]) + 1])
              /\ NoFault
           \/ create /\ Leave(w) /\ (Fault("lost") \/ Fault("garbled"))
           \/ /\ UNCHANGED payments
              /\ Leave(w)
              /\ (Fault("reject") \/ Fault("db"))
        /\ UNCHANGED <<stripe, columns, customers, invoices, log>>

\* Mutant of BookPaymentRejected: the error of the PUT is not looked at.
BookPaymentUnseen(w) == Goto(w, "setPaid")

BookPaymentRejected(w) == Leave(w)

\* PUT invoicepayments/n/bookkeep.
BookPayment(w) ==
    LET book == payments' =
                    [payments EXCEPT ![run[w].cur][run[w].pay].booked = TRUE]
    IN  /\ run[w].pc = "bookPayment"
        /\ \/ book /\ Goto(w, "setPaid") /\ NoFault
           \/ book /\ Leave(w) /\ Fault("lost")
           \/ /\ UNCHANGED payments
              /\ BookPaymentRejected(w)
              /\ Fault("reject")
        /\ UNCHANGED <<stripe, columns, customers, invoices, log>>

Pay(c) == paid' = paid \cup {c}

\* SetChargeInvoicePaid; a failure is printed only.
SetPaid(w) ==
    /\ run[w].pc = "setPaid"
    /\ Leave(w)
    /\ \/ Pay(run[w].cur) /\ NoFault
       \/ UNCHANGED paid /\ Fault("db")
    /\ UNCHANGED <<stripe, number, custNo, fortnox, log>>

-----------------------------------------------------------------------------
(* The process, and the Stripe side of the database *)

\* The process stops and is started again: the goroutines are gone.
Crash ==
    /\ \E w \in Workers : run[w] # Idle
    /\ run' = [w \in Workers |-> Idle]
    /\ Fault("crash")
    /\ UNCHANGED <<stripe, columns, fortnox, log>>

\* SyncCharges stores a charge that succeeded.
StoreCharge(c) ==
    /\ c \notin succeeded
    /\ succeeded' = succeeded \cup {c}
    /\ UNCHANGED <<available, columns, fortnox, log, run>>
    /\ NoFault

\* The goroutine of its payout stores the charge's balance transaction.
StoreTxn(c) ==
    /\ c \notin available
    /\ available' = available \cup {c}
    /\ UNCHANGED <<succeeded, columns, fortnox, log, run>>
    /\ NoFault

-----------------------------------------------------------------------------
(* Specification *)

Init ==
    /\ succeeded = {}
    /\ available = {}
    /\ number = [c \in Charges |-> Null]
    /\ paid = {}
    /\ custNo = {}
    /\ customers = [k \in Customers \cup {NoCustomer} |-> 0]
    /\ invoices = [c \in Charges |-> <<>>]
    /\ payments = [c \in Charges |-> <<>>]
    /\ log = [c \in Charges |-> {}]
    /\ run = [w \in Workers |-> Idle]
    /\ faults = 0

\* The next statement or call of a goroutine that runs.
Continue(w) ==
    \/ GetCustomer(w)
    \/ ListUnpaid(w)
    \/ NextUnpaid(w)
    \/ EndRun(w)
    \/ PostCustomer(w)
    \/ SaveCustomer(w)
    \/ PostInvoice(w)
    \/ BookInvoice(w)
    \/ SaveNumber(w)
    \/ Created(w)
    \/ PostPayment(w)
    \/ BookPayment(w)
    \/ SetPaid(w)

Next ==
    \/ \E w \in Workers : StartRun(w) \/ Continue(w)
    \/ Crash
    \/ \E c \in Charges : StoreCharge(c) \/ StoreTxn(c)

Spec == Init /\ [][Next]_vars

(***************************************************************************)
(* As in Vouchers: goroutines run, statements and calls end, the           *)
(* scheduler's timer fires.  Users, Stripe and faults are not fair.        *)
(***************************************************************************)
Fairness ==
    /\ \A w \in Workers : WF_vars(Continue(w))
    /\ WF_vars(StartRun(Scheduler))

FairSpec == Spec /\ Fairness

-----------------------------------------------------------------------------
(* Properties *)

\* Every variable keeps its shape; the record created for a charge without a
\* customer leaves no number behind (handler/sync.go:215, queries.sql.go:43).
TypeOK ==
    /\ succeeded \subseteq Charges /\ available \subseteq Charges
    /\ number \in [Charges -> Nat]
    /\ paid \subseteq Charges
    /\ custNo \subseteq Customers
    /\ customers \in [Customers \cup {NoCustomer} -> Nat]
    /\ invoices \in [Charges -> Seq(Invoice)]
    /\ payments \in [Charges -> Seq(Payment)]
    /\ log \in [Charges -> SUBSET LogEntries]
    /\ run \in [Workers -> Run]
    /\ faults \in Nat

\* A stored invoice number is that of an invoice that is booked in Fortnox,
\* and sync_log tells of an invoice only when a number is stored, whatever
\* two runs and faults do (invoice.go:189-196, handler/sync.go:119).
NumberIsBooked ==
    \A c \in Charges :
        /\ number[c] # Null =>
               number[c] \in DOMAIN invoices[c] /\ invoices[c][number[c]].booked
        /\ "fortnox_invoice_created" \in log[c] => number[c] # Null

\* A charge is flagged as paid only when a booked payment of a booked invoice
\* of it exists, and no payment is for an invoice that is not booked: the B
\* voucher comes before the C voucher (invoice.go:224-246).
PaidIsBooked ==
    \A c \in Charges :
        /\ c \in paid => \E i \in DOMAIN payments[c] : payments[c][i].booked
        /\ \A i \in DOMAIN payments[c] :
               /\ payments[c][i].invoice \in DOMAIN invoices[c]
               /\ invoices[c][payments[c][i].invoice].booked

\* How often a goroutine repeats itself is bounded by the faults: a charge
\* has at most as many invoices, a customer as many records, as there are
\* goroutines, once and once more for each fault (queries.sql.go:309,
\* invoice.go:84).
RepeatsBounded ==
    LET bound == Cardinality(Workers) * (1 + faults)
    IN  /\ \A c \in Charges : Len(invoices[c]) <= bound
        /\ \A k \in Customers : customers[k] <= bound

\* One goroutine at a time: each invoice, payment or customer too many, over
\* all charges and customers, took a fault of its own; with none there are
\* no duplicates (README.md:32).
Excess(n) == IF n > 1 THEN n - 1 ELSE 0

DuplicatesCostFaults ==
    SumFunction([c \in Charges |->
                    Excess(Len(invoices[c])) + Excess(Len(payments[c]))])
    + SumFunction([k \in Customers |-> Excess(customers[k])])
    <= faults

\* One goroutine at a time: every payment is for the invoice whose number is
\* stored, so none goes to an invoice left over by a failed attempt.
PaymentsOfNumber ==
    \A c \in Charges : \A i \in DOMAIN payments[c] :
        payments[c][i].invoice = number[c]

\* Every charge that succeeded gets its invoice number at last, whatever
\* stopped the runs before (invoice.go:123-199).
ChargeIsInvoiced == \A c \in Charges : c \in succeeded ~> number[c] # Null

\* An invoice whose balance transaction is there, of type "charge", is paid at
\* last, also when it came after the invoice or the payment failed
\* (queries.sql.go:234-264).  With one of another type it is paid at once or
\* never, though the comment there speaks of every charge.
PaymentIsRecorded == \A c \in Charges : c \in Joined ~> c \in paid
=============================================================================
