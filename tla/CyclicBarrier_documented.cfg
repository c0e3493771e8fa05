SPECIFICATION Spec
CONSTANTS
    t1 = t1
    t2 = t2
    t3 = t3
    t4 = t4
    None = None
    Threads <- MCThreads
    Parties = 3
    MinGeneration <- MCMinGeneration
    MaxGeneration = 1
    MinCount <- MCMinCount
PROPERTY ImplementsCyclicBarrierSpec
CHECK_DEADLOCK FALSE
