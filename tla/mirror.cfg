\* The scheduler alone copies a customer, two charges and two payouts; every fault.
CONSTANTS
    k1 = k1
    c1 = c1
    c2 = c2
    p1 = p1
    p2 = p2
    t1 = t1
    Button = Button
    Scheduler = Scheduler
    NoRecord = NoRecord
    Records = {k1, c1, c2, p1, p2}
    EntityOf <- MCEntityOf
    CustomerOf <- MCCustomerOf
    CreatedAt <- MCCreatedAt
    LastStage <- MCLastStage
    Txns = {t1}
    TxnsOf <- MCTxnsOf
    From = 2
    StartOfYear = 1
    Overlap = 1
    Lag = 1
    PageSize = 1
    Workers = {Scheduler}
    Faults = {"crash", "db", "stripe"}
SPECIFICATION Spec
INVARIANTS TypeOK NothingForgotten
PROPERTY Mirrors
