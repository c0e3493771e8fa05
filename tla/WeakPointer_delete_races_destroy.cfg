SPECIFICATION Spec
CONSTANTS
    t1 = t1
    t2 = t2
    a = a
    b = b
    c = c
    d = d
    m1 = m1
    m2 = m2
    Null = Null
    Threads <- MCThreads
    Pointers <- MCTwo
    Monitors <- MCMonitors
    Grow = 4
INVARIANT DestroySafe
CHECK_DEADLOCK FALSE
