------------------------------- MODULE MCBooks -------------------------------
(***************************************************************************)
(* Values of the constants of Books for TLC.                               *)
(***************************************************************************)
EXTENDS Books, TLC

CONSTANTS c1, c2, c3, p1, p2

\* A card charge of a German customer billed in Sweden, a bank payment without
\* a country that is partly captured and partly refunded, and a small charge
\* from the USA, refunded, so that its payout is what Stripe takes back.
MCAmount == (c1 :> 250) @@ (c2 :> 500) @@ (c3 :> 125)
MCCaptured == (c1 :> 250) @@ (c2 :> 400) @@ (c3 :> 125)
MCRefunded == (c1 :> 0) @@ (c2 :> 100) @@ (c3 :> 125)
MCFee == (c1 :> 13) @@ (c2 :> 2) @@ (c3 :> 5)
MCTxnType == (c1 :> "charge") @@ (c2 :> "payment") @@ (c3 :> "charge")
MCBilling == (c1 :> "SE") @@ (c2 :> "") @@ (c3 :> "US")
MCCustomer == (c1 :> "DE") @@ (c2 :> "") @@ (c3 :> "")
MCPayoutOf == (c1 :> p1) @@ (c2 :> p1) @@ (c3 :> p2)
=============================================================================
