------------------------------- MODULE MCPages -------------------------------
(***************************************************************************)
(* Values of the constants of Pages for TLC.                               *)
(***************************************************************************)
EXTENDS Pages

\* Two charges, of which the older succeeded, and a payout.
MCTableOf == [r \in Rows |-> IF r = 3 THEN "payouts" ELSE "charges"]
=============================================================================
