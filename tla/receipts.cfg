SPECIFICATION FencedSpec
CONSTANTS
    s1 = s1  s2 = s2  s3 = s3  d1 = d1  d2 = d2  w1 = w1  w2 = w2
    k1 = k1  k2 = k2  r1 = r1  r2 = r2  b1 = b1
    None = None
    BranchOf <- OneBranch
    Subjects = {s1}
    Owners = {d1}
    WorkflowIds = {w1}
    Repositories = {}
    Keys = {k1, k2}
    Requests <- KeyRequests
    Leftovers <- NoLeftovers
    LeaseTtl = 2
    AskedTtls = {None}
    MaxLeaseBatch = 1
    ScanFloor = 50
    ScanPerSlot = 10
    MaxExclude = 0
    AskedOutcomes = {"Completed"}
    MaxTime = 1
    MaxEntries = 3
    MaxHistory = 3
    MaxLeaseGeneration = 1
SYMMETRY KeySymmetry
INVARIANTS
    SubjectGenerationsUnique
    OneEntryPerSubject
PROPERTIES
    ReceiptNeverChanges
CHECK_DEADLOCK FALSE
