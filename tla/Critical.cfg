SPECIFICATION FairSpec
CONSTANTS
    m = m
    t1 = t1
    t2 = t2
    a = a
    b = b
    Null = Null
    Global = Global
    Threads <- MCThreads
    Main = m
    Sections <- MCSections
    MaxNest <- MCMaxNest
INVARIANTS Exclusive RawOnlyWhileLinking TermReleasesAll
PROPERTIES EnterEnds
CHECK_DEADLOCK FALSE
