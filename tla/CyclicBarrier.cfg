SPECIFICATION Spec
CONSTANTS
    t1 = t1
    t2 = t2
    t3 = t3
    t4 = t4
    None = None
    Threads <- MCThreads
    Parties = 3
    MinGeneration <- MCMinGeneration
    MaxGeneration = 1
    MinCount <- MCMinCount
INVARIANTS CallsSound HeldAreCounted
PROPERTIES StepsAsDocumented
CHECK_DEADLOCK FALSE
