SPECIFICATION Spec
CONSTANTS
    k1 = k1
    k2 = k2
    k3 = k3
    k4 = k4
    t1 = t1
    t2 = t2
    p1 = p1
    p2 = p2
    p3 = p3
    p4 = p4
    None = None
    Keys <- MCKeys
    Threads <- MCThreads
    Payloads <- MCPayloads
    Capacity = 3
    Locked <- MCBoth
SYMMETRY MCSymmetry
INVARIANTS StructureSound 
PROPERTIES ImplementsLRUCache
CHECK_DEADLOCK FALSE
