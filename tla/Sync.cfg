SPECIFICATION SyncSpec
CONSTANTS
    t1 = t1
    t2 = t2
    t3 = t3
    t4 = t4
    t5 = t5
    Threads <- MCThreads4
    Travellers <- MCTravellers5
    Limit = 3
    GroupModulus = 4
INVARIANTS Exclusion Accounting NoLostWakeup NoneLeftBehind
PROPERTIES LastWriterAlertsReaders ImplementsRWLock PreferredProgress ImplementsBarrierSpec ReleasedLeaves
