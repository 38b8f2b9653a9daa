----------------------------- MODULE MCInvoices -----------------------------
(***************************************************************************)
(* Values of the constants of Invoices for TLC.                            *)
(***************************************************************************)
EXTENDS Invoices, TLC

CONSTANTS c1, c2, c3, k1

\* Two charges of one customer, and a later one without a customer; the
\* transaction of the second one is a "payment".
MCCustomerOf3 == (c1 :> k1) @@ (c2 :> k1) @@ (c3 :> NoCustomer)
MCCreatedAt3  == (c1 :> 1) @@ (c2 :> 1) @@ (c3 :> 2)
MCTxnType3    == (c1 :> "charge") @@ (c2 :> "payment") @@ (c3 :> "charge")

\* A charge of a customer.
MCCustomerOf1 == c1 :> k1
MCCreatedAt1  == c1 :> 1
MCTxnType1    == c1 :> "charge"
=============================================================================
