\* Two goroutines send the same payout.
CONSTANTS
    p1 = p1
    p2 = p2
    t1 = t1
    t2 = t2
    t3 = t3
    trigger1 = trigger1
    trigger2 = trigger2
    retry1 = retry1
    NoPayout = NoPayout
    Scheduler = Scheduler
    Payouts = {p1}
    Txns = {t1}
    TxnsOf <- MCTxnsOf1
    FeeTxns <- Nothing
    CreatedAt <- MCCreatedAt1
    Triggers = {trigger1}
    Retries = {}
    Faults = {}
    MaxFaults = 0
    MaxInserts = 1
SPECIFICATION Spec
INVARIANT PayoutAtMostOnce
