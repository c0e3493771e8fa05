SPECIFICATION FairSpec
CONSTANTS
    t1 = t1
    t2 = t2
    a = a
    b = b
    c = c
    d = d
    m1 = m1
    m2 = m2
    Null = Null
    Threads <- MCThreads
    Pointers <- MCThree
    Monitors <- MCMonitors
    Grow = 2
INVARIANTS MonitorExcludes EventsKept LockedCollectionSafe
PROPERTIES CallsEnd
CHECK_DEADLOCK FALSE
