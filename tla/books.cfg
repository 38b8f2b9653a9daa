\* Three charges that settle in two payouts, while the user edits the mapping.
CONSTANTS
    c1 = c1
    c2 = c2
    c3 = c3
    p1 = p1
    p2 = p2
    Charges = {c1, c2, c3}
    Amount <- MCAmount
    Captured <- MCCaptured
    Refunded <- MCRefunded
    Fee <- MCFee
    TxnType <- MCTxnType
    Billing <- MCBilling
    Customer <- MCCustomer
    EU = {"DE"}
    Payouts = {p1, p2}
    PayoutOf <- MCPayoutOf
    Kontos = {"", "1580"}
    Rates = {6}
    Edits = {"SE", "clearing"}
SPECIFICATION FairSpec
INVARIANT Reconciles
PROPERTY ChargeHeals
