SPECIFICATION FairSpec
CONSTANTS
    t1 = t1
    t2 = t2
    t3 = t3
    t4 = t4
    None = None
    Threads <- MCThreads
    Notifiers <- MC34
    Usages <- MCUsages
    GoneLimit = 3
INVARIANTS GateSound WaitersCounted PermitsSound
PROPERTIES ImplementsConditionSpec NotifyAllReleasesAll
