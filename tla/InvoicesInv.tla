----------------------------- MODULE InvoicesInv ----------------------------
(***************************************************************************)
(* Inductive invariants of Invoices: the properties, and what has to be    *)
(* known of goroutines in the middle of a charge for the properties to be  *)
(* preserved by every step.  InvoicesProofs proves them.                   *)
(***************************************************************************)
EXTENDS Invoices

BeforePost == {"customer", "saveCustomer", "invoice"}
Working == PCs \ {"idle", "next"}

\* A goroutine in the middle of a charge has one.
Busy == \A w \in Workers : run[w].pc \in Working => run[w].cur \in Charges

TypeInv == TypeOK /\ Busy

IsBooked(c, n) == n \in DOMAIN invoices[c] /\ invoices[c][n].booked

IsPaid(c, p) == p \in DOMAIN payments[c] /\ payments[c][p].booked

\* What a goroutine has in hand exists in Fortnox, and is booked once the
\* call that books it was answered.
InHand(w) ==
    LET r == run[w]
    IN  /\ r.pc = "bookInvoice" => r.inv \in DOMAIN invoices[r.cur]
        /\ r.pc \in {"saveNumber", "created", "payment"} => IsBooked(r.cur, r.inv)
        /\ r.pc = "created" => number[r.cur] # Null
        /\ r.pc = "bookPayment" => r.pay \in DOMAIN payments[r.cur]
        /\ r.pc = "setPaid" => IsPaid(r.cur, r.pay)
        /\ r.list = "unpaid" => \A e \in r.todo : IsBooked(e[1], e[2])

\* The inductive invariant behind NumberIsBooked and PaidIsBooked, for any
\* goroutines and faults (invoice.go:168-196 and 219-246).
BookedInv ==
    /\ \A w \in Workers : InHand(w)
    /\ NumberIsBooked
    /\ PaidIsBooked

\* The charges goroutine w may still post an invoice for in its present run.
MayPost(w, c) ==
    \/ run[w].list = "charges" /\ \E e \in run[w].todo : e[1] = c
    \/ run[w].cur = c /\ run[w].pc \in BeforePost

\* It has posted one, and not yet stored its number.
HasPosted(w, c) == run[w].cur = c /\ run[w].pc \in {"bookInvoice", "saveNumber"}

MayPosters(c) == {w \in Workers : MayPost(w, c)}
HavePosted(c) == {w \in Workers : HasPosted(w, c)}

\* The same of the records of customer k.
MayCreate(k) == {w \in Workers : run[w].pc = "customer" /\ CustomerOf[run[w].cur] = k}
HaveCreated(k) ==
    {w \in Workers : run[w].pc = "saveCustomer" /\ CustomerOf[run[w].cur] = k}

W == Cardinality(Workers)

\* Of the elements of its list the goroutine works on none, and the list of
\* charges has one entry for each.
Listed(w) ==
    /\ run[w].list = "charges" =>
           \A e \in run[w].todo : e[2] = Null /\ e[1] # run[w].cur
    /\ run[w].pc \in BeforePost \cup {"bookInvoice", "saveNumber"} =>
           run[w].list = "charges"

ListInv == \A w \in Workers : Listed(w)

\* While nothing is stored, what no goroutine in group have holds was lost to
\* a fault, and a fault loses at most one per goroutine; once something is
\* stored, only the goroutines in group may add to the n that there are.
Bounded(stored, n, may, have, f) ==
    IF stored
    THEN n + Cardinality(may) <= W * (1 + f)
    ELSE n <= Cardinality(have) + W * f

InvoiceCount(c) ==
    Bounded(number[c] # Null, Len(invoices[c]), MayPosters(c), HavePosted(c), faults)

CustomerCount(k) ==
    Bounded(k \in custNo, customers[k], MayCreate(k), HaveCreated(k), faults)

\* The inductive invariant behind RepeatsBounded, for any goroutines and
\* faults (queries.sql.go:309, invoice.go:84).
CountInv ==
    /\ ListInv
    /\ \A c \in Charges : InvoiceCount(c)
    /\ \A k \in Customers : CustomerCount(k)

\* The inductive invariant behind PaymentsOfNumber, for the scheduler alone:
\* its charge and those on its list have the number it thinks they have, and
\* no charge has a payment before it has a number.
AloneInv ==
    LET r == run[Scheduler]
    IN  /\ r.pc \in BeforePost \cup {"bookInvoice", "saveNumber"} =>
               number[r.cur] = Null
        /\ r.pc \in {"created", "payment"} => r.inv = number[r.cur]
        /\ \A e \in r.todo : e[2] = number[e[1]]
        /\ \A c \in Charges : number[c] = Null => payments[c] = <<>>
        /\ PaymentsOfNumber

AtPayment == {"created", "payment", "bookPayment", "setPaid"}

\* With the scheduler alone, the charge it pays and those on its list of
\* unpaid ones are not paid yet, and it has each of them once.
UnpaidInv ==
    LET r == run[Scheduler]
    IN  /\ r.pc \notin Working => r.cur = NoCharge
        /\ r.pc \in AtPayment => r.cur \notin paid
        /\ r.list = "unpaid" =>
               \A e \in r.todo : e[1] \notin paid /\ e[1] # r.cur

One(b) == IF b THEN 1 ELSE 0

\* The scheduler has posted a payment of c, or a record of customer k, and
\* not stored it yet; or it will post one though k has a number, for it
\* failed to read k.
HasPaid(c) == run[Scheduler].cur = c /\ run[Scheduler].pc \in {"bookPayment", "setPaid"}
HasCreated(k) == Scheduler \in HaveCreated(k)
WillRepeat(k) == Scheduler \in MayCreate(k) /\ k \in custNo

\* What Fortnox holds of a charge and of a customer that is neither stored
\* nor in the hands of the scheduler.
LostInvoices(c) ==
    Len(invoices[c]) - One(number[c] # Null \/ HasPosted(Scheduler, c))
LostPayments(c) == Len(payments[c]) - One(c \in paid \/ HasPaid(c))
LostRecords(k) ==
    customers[k] + One(WillRepeat(k)) - One(k \in custNo \/ HasCreated(k))

LostOfCharges == [c \in Charges |-> LostInvoices(c) + LostPayments(c)]
LostOfCustomers == [k \in Customers |-> LostRecords(k)]

\* A number that is stored, or about to be, is that of a record.
RecordInv == \A k \in Customers : k \in custNo \/ HasCreated(k) => customers[k] > 0

\* The inductive invariant behind DuplicatesCostFaults, for the scheduler
\* alone: each of them was lost to a fault of its own.
LostInv == SumFunction(LostOfCharges) + SumFunction(LostOfCustomers) <= faults
=============================================================================
