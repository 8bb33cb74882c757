SPECIFICATION ClockSpec
CONSTANTS
    s1 = s1  s2 = s2  d1 = d1  d2 = d2  w1 = w1  w2 = w2
    k1 = k1  r1 = r1  b1 = b1
    None = None
    BranchOf <- OneBranch
    Subjects = {s1}
    Owners = {d1}
    WorkflowIds = {w1, w2}
    Repositories = {}
    Keys = {}
    Requests <- DeferredRequests
    Leftovers <- LifeLeftovers
    Watched = 1
    LeaseTtl = 1
    OldLeaseTtl = 1
    AskedTtls = {None}
    MaxLeaseBatch = 2
    MaxOldBatch = 1
    ScanFloor = 50
    ScanPerSlot = 10
    MaxExclude = 0
    AskedOutcomes = {"Completed"}
    MaxTime = 2
    MaxEntries = 2
    MaxHistory = 0
    MaxLeaseGeneration = 2
SYMMETRY Symmetric
INVARIANTS
    RunningTicketedHasTicket
    SubjectGenerationsUnique
PROPERTIES
    OldLeaseKept
    NothingMovesBack
    OrderKept
    ImplementsLife
CHECK_DEADLOCK FALSE
