SPECIFICATION FairSpec
CONSTANTS
    w1 = w1
    w2 = w2
    c1 = c1
    c2 = c2
    None = None
    Workers <- MCWorkers2
    Clients <- MCClients
    Ops <- MCAllOps
    MaxJobs = 3
INVARIANTS JobsKept WorkersAlerted FinishRunsAll
PROPERTIES AssignedJobIsTaken QueuedJobRuns CallsReturn
CHECK_DEADLOCK FALSE
