----------------------------- MODULE MCVouchers -----------------------------
(***************************************************************************)
(* Values of the constants of Vouchers for TLC.                            *)
(***************************************************************************)
EXTENDS VouchersInv, TLC

CONSTANTS p1, p2, t1, t2, t3, trigger1, trigger2, retry1

\* Payout p1 settles a charge with a fee and, say, a refund; p2 a charge.
MCTxnsOf  == (p1 :> {t1, t2}) @@ (p2 :> {t3})
MCFeeTxns == {t1, t3}

\* One payout that settles one charge.
MCTxnsOf1  == p1 :> {t1}

\* Payouts of the same second.
MCCreatedAtTie == (p1 :> 1) @@ (p2 :> 1)
MCCreatedAt1   == p1 :> 1

Nothing == {}
=============================================================================
