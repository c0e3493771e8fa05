SPECIFICATION Spec
CONSTANTS
    t1 = t1
    t2 = t2
    t3 = t3
    Threads <- MCThreads
    MaxCalls <- MCCalls
    MaxHolds <- MCHolds
    Dummy = Dummy
    None = None
SYMMETRY Symmetry
INVARIANTS
    QueueSound
    ResumeOwed
CHECK_DEADLOCK FALSE
