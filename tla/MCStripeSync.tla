---------------------------- MODULE MCStripeSync ----------------------------
(***************************************************************************)
(* Values of the constants of StripeSync for TLC.                          *)
(***************************************************************************)
EXTENDS StripeSync, TLC

CONSTANTS k1, c1, c2, p1, p2, t1, Button

\* A customer with a charge, a charge without a customer 1 s later, two payouts
\* that are 3 s apart.
MCEntityOf == [r \in Records |->
    CASE r = k1         -> "customers"
      [] r \in {c1, c2} -> "charges"
      [] OTHER          -> "payouts"]
MCCustomerOf == [r \in Records |-> IF r = c1 THEN k1 ELSE NoRecord]
MCCreatedAt == [r \in Records |->
    CASE r = c2 -> 6 [] r = p2 -> 8 [] OTHER -> 5]
MCLastStage == [r \in Records |-> IF r \in {p1, p2} THEN 2 ELSE 1]
MCTxnsOf == [r \in Records |-> IF r = p1 THEN {t1} ELSE {}]
=============================================================================
