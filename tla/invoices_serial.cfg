\* The scheduler alone, a fault of any kind, three charges, two of one customer, one without,
\* the transaction of one a "payment".
CONSTANTS
    c1 = c1
    c2 = c2
    c3 = c3
    k1 = k1
    NoCharge = NoCharge
    NoCustomer = NoCustomer
    Scheduler = Scheduler
    Customers = {k1}
    Charges = {c1, c2, c3}
    CustomerOf <- MCCustomerOf3
    CreatedAt <- MCCreatedAt3
    TxnType <- MCTxnType3
    Triggers = {}
    Faults = {"crash", "db", "reject", "lost", "garbled"}
    MaxFaults = 1
SPECIFICATION FairSpec
INVARIANTS TypeOK DuplicatesCostFaults PaymentsOfNumber
PROPERTIES ChargeIsInvoiced PaymentIsRecorded
