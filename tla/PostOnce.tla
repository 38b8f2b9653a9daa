------------------------------ MODULE PostOnce ------------------------------
(***************************************************************************)
(* What the two-phase voucher write of internal/fortnox/voucher.go         *)
(* promises for each payout, without workers, calls, rows or failures: the *)
(* payout is reserved, its voucher is booked in Fortnox at most once, and  *)
(* a number is recorded only for a voucher that was booked.  Vouchers      *)
(* implements it when one goroutine at a time syncs payouts.               *)
(***************************************************************************)

CONSTANT Payouts        \* the payouts Stripe ever makes

VARIABLE stage          \* how far the voucher of each payout has come

Stages == {"open", "reserved", "booked", "confirmed"}

TypeOK == stage \in [Payouts -> Stages]

Init == stage = [p \in Payouts |-> "open"]

\* The voucher of p moves from one stage to the next one, never back.
Advance(p, from, to) ==
    /\ stage[p] = from
    /\ stage' = [stage EXCEPT ![p] = to]

Reserve(p) == Advance(p, "open", "reserved")
Book(p)    == Advance(p, "reserved", "booked")
Confirm(p) == Advance(p, "booked", "confirmed")

Next == \E p \in Payouts : Reserve(p) \/ Book(p) \/ Confirm(p)

Spec == Init /\ [][Next]_stage
=============================================================================
