\* The scheduler, the sync button and the retry button at the same payout, a fault
\* of any kind; no fees.
CONSTANTS
    p1 = p1
    p2 = p2
    t1 = t1
    t2 = t2
    t3 = t3
    trigger1 = trigger1
    trigger2 = trigger2
    retry1 = retry1
    NoPayout = NoPayout
    Scheduler = Scheduler
    Payouts = {p1}
    Txns = {t1}
    TxnsOf <- MCTxnsOf1
    FeeTxns <- Nothing
    CreatedAt <- MCCreatedAt1
    Triggers = {trigger1}
    Retries = {retry1}
    Faults = {"crash", "db", "reject", "lost", "garbled"}
    MaxFaults = 1
    MaxInserts = 2
SPECIFICATION FairSpec
INVARIANTS WriteAhead ConfirmedIsBooked SyncedIsBooked PostsCostRows
PROPERTIES ConfirmedNumberSticks PayoutIsAttempted PayoutIsConfirmed RetryConfirms
