\* The scheduler and the sync button at the same charge.
CONSTANTS
    c1 = c1
    c2 = c2
    c3 = c3
    k1 = k1
    NoCharge = NoCharge
    NoCustomer = NoCustomer
    Scheduler = Scheduler
    Customers = {k1}
    Charges = {c1}
    CustomerOf <- MCCustomerOf1
    CreatedAt <- MCCreatedAt1
    TxnType <- MCTxnType1
    Triggers = {trigger1}
    Faults = {"crash", "db", "reject", "lost", "garbled"}
    MaxFaults = 2
SPECIFICATION Spec
INVARIANTS NumberIsBooked PaidIsBooked RepeatsBounded
