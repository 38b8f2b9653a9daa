\* The scheduler and the sync button copy two payouts.
CONSTANTS
    k1 = k1
    c1 = c1
    c2 = c2
    p1 = p1
    p2 = p2
    t1 = t1
    Button = Button
    Scheduler = Scheduler
    NoRecord = NoRecord
    Records = {p1, p2}
    EntityOf <- MCEntityOf
    CustomerOf <- MCCustomerOf
    CreatedAt <- MCCreatedAt
    LastStage <- MCLastStage
    Txns = {t1}
    TxnsOf <- MCTxnsOf
    From = 2
    StartOfYear = 1
    Overlap = 3
    Lag = 3
    PageSize = 1
    Workers = {Scheduler, Button}
    Faults = {"crash"}
SPECIFICATION FairSpec
INVARIANT PaidIsPulled
PROPERTIES RecordIsStored WindowConverges RunningEnds
