------------------------------ MODULE BooksInv ------------------------------
(***************************************************************************)
(* Inductive invariants of Books: the mapping and what the goroutine has   *)
(* looked up in it, and the balances at any time, not only when all is     *)
(* booked.  BooksProofs proves them.                                       *)
(***************************************************************************)
EXTENDS Books

Kinds == {"fee", "payout"}

\* A row is the seeded one until it is edited.
MappingInv ==
    /\ mapping \in [Keys -> [konto : Accounts \cup Kontos, vat : Nat]]
    /\ \A key \in Keys :
           /\ mapping[key].konto \in {Seed[key].konto} \cup Kontos
           /\ key \notin edited => mapping[key] = Seed[key]
    /\ form.key \in Edits \/ ~form.open

\* What was looked up for a charge, before an edit or after one.
LookedUp(key) ==
    /\ job.charge \in Charges
    /\ job.konto \in Accounts /\ job.konto \in {Seed[key].konto} \cup Kontos
    /\ key \notin edited => job.konto = Seed[key].konto

JobInv ==
    \/ job = NoJob
    \/ /\ job.kind = "invoice" /\ job.vat \in Nat
       /\ charge[job.charge] = "new"
       /\ LookedUp(Group(CountryCode(job.charge)))
       /\ Group(CountryCode(job.charge)) \notin edited => job.vat = 25
    \/ /\ job.kind = "payment"
       /\ charge[job.charge] = "booked"
       /\ LookedUp("clearing")

\* The fee of a charge that its payout's fee voucher counts.
ChargeFee == [c \in Charges |-> IF TxnType[c] = "charge" THEN Fee[c] ELSE 0]

\* The charges whose payout has a voucher.
Settled(kind) == {c \in Charges : kind \in posted[PayoutOf[c]]}

\* At any time the clearing account holds what was paid less what was settled.
ClearingInv ==
    "clearing" \notin edited /\ "1521" \notin Kontos =>
        ledger["1521"] = 100 * (Sum(Amount, Are("paid"))
                                - Sum(ChargeFee, Settled("fee"))
                                - Sum(Payable, Settled("payout")))

\* A payout with fees has its fee voucher before its own.
FeeBooked ==
    \A p \in Payouts :
        "payout" \in posted[p] /\ TotalFee(p) > 0 => "fee" \in posted[p]

\* The inductive invariant behind Reconciles.
BooksInvariant ==
    /\ TypeOK
    /\ MappingInv
    /\ JobInv
    /\ total \in [Payouts -> [Kinds -> SUBSET Int]]
    /\ ReceivableIsUnpaid
    /\ RevenueOfSweden
    /\ ClearingInv
    /\ FeeBooked
    /\ TotalWithinOre
=============================================================================
