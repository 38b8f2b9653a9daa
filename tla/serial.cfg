\* The scheduler alone, two payouts of the same second, every fault but failing statements.
CONSTANTS
    p1 = p1
    p2 = p2
    t1 = t1
    t2 = t2
    t3 = t3
    trigger1 = trigger1
    trigger2 = trigger2
    retry1 = retry1
    NoPayout = NoPayout
    Scheduler = Scheduler
    Payouts = {p1, p2}
    Txns = {t1, t2, t3}
    TxnsOf <- MCTxnsOf
    FeeTxns <- MCFeeTxns
    CreatedAt <- MCCreatedAtTie
    Triggers = {}
    Retries = {}
    Faults = {"crash", "reject", "lost", "garbled"}
    MaxFaults = 2
    MaxInserts = 1
SPECIFICATION Spec
INVARIANTS TypeOK FeeReservedFirst
PROPERTIES PostsOnce PayoutEndsFees
