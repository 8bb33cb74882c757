SPECIFICATION DaemonSpec
CONSTANTS
    s1 = s1  s2 = s2  s3 = s3  d1 = d1  d2 = d2  w1 = w1  w2 = w2  w3 = w3  w4 = w4
    r1 = r1  r2 = r2  b1 = b1
    None = None
    BranchOf <- OneBranch
    Subjects = {s1, s2, s3}
    Owners = {d1, d2}
    WorkflowIds = {w1, w2, w3, w4}
    Repositories = {r1, r2}
    Keys = {}
    Requests <- BranchAndDeferred
    Leftovers <- NoLeftovers
    LeaseTtl = 1
    AskedTtls = {None}
    MaxLeaseBatch = 2
    ScanFloor = 1
    ScanPerSlot = 1
    MaxExclude = 0
    AskedOutcomes = {"Completed"}
    MaxTime = 0
    MaxEntries = 3
    MaxHistory = 0
    MaxLeaseGeneration = 2
    MaxLost = 1
    Pollers = {d1}
INVARIANTS
    BranchExclusive
PROPERTIES
    EveryEntryLeaves
    OnlyOrphansStay
CHECK_DEADLOCK FALSE
