SPECIFICATION Spec
CONSTANTS
    s1 = s1  s2 = s2  d1 = d1  d2 = d2  w1 = w1  w2 = w2
    k1 = k1  r1 = r1  b1 = b1
    None = None
    BranchOf <- OneBranch
    Subjects = {s1}
    Owners = {d1, d2}
    WorkflowIds = {w1, w2}
    Repositories = {}
    Keys = {}
    Requests <- PlainRequests
    Leftovers <- NoLeftovers
    LeaseTtl = 1
    OldLeaseTtl = 1
    AskedTtls = {None}
    MaxLeaseBatch = 1
    MaxOldBatch = 1
    ScanFloor = 50
    ScanPerSlot = 10
    MaxExclude = 0
    AskedOutcomes = {"Completed"}
    MaxTime = 4
    MaxEntries = 2
    MaxHistory = 1
    MaxLeaseGeneration = 3
SYMMETRY Symmetric
PROPERTIES
    ImmediateEnqueueIdempotent
CHECK_DEADLOCK FALSE
