SPECIFICATION RollbackSpec
CONSTANTS
    s1 = s1  d1 = d1  d2 = d2  d3 = d3  w1 = w1  w2 = w2
    None = None
    BranchOf <- NoBranches
    Subjects = {s1}
    Owners = {d1, d2, d3}
    WorkflowIds = {w1, w2}
    Repositories = {}
    Keys = {}
    Requests <- OneRequest
    Leftovers <- NoLeftovers
    LeaseTtl = 1
    AskedTtls = {None}
    MaxLeaseBatch = 1
    ScanFloor = 50
    ScanPerSlot = 10
    MaxExclude = 0
    AskedOutcomes = {"Completed"}
    MaxTime = 1
    MaxEntries = 2
    MaxHistory = 1
    MaxLeaseGeneration = 2
    MaxRollbacks = 2
SYMMETRY Symmetric
INVARIANTS
    RollbackTypeOK
    OldTicketsInert
CHECK_DEADLOCK FALSE
