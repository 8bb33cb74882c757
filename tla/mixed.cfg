SPECIFICATION Spec
CONSTANTS
    s1 = s1  s2 = s2  d1 = d1  d2 = d2  w1 = w1  w2 = w2
    k1 = k1  r1 = r1  b1 = b1
    None = None
    BranchOf <- OneBranch
    Subjects = {s1}
    Owners = {d1, d2}
    WorkflowIds = {w1, w2}
    Repositories = {}
    Keys = {}
    Requests <- DeferredRequests
    Leftovers <- NoLeftovers
    LeaseTtl = 2
    OldLeaseTtl = 2
    AskedTtls = {1, 3}
    MaxLeaseBatch = 1
    MaxOldBatch = 1
    ScanFloor = 50
    ScanPerSlot = 10
    MaxExclude = 1
    AskedOutcomes = {"Completed", "Failed"}
    MaxTime = 4
    MaxEntries = 1
    MaxHistory = 1
    MaxLeaseGeneration = 3
SYMMETRY Symmetric
INVARIANTS
    TypeOK
    TicketsUnique
    OneWorkflowPerEntry
    SupersededTicketIsInert
    RunningTicketedHasTicket
    DoneStaysDone
    LastLineTookEffect
PROPERTIES
    TicketedEntriesMoveByTicket
    OldLeaseKept
    LiveTicketNotStolen
    NothingMovesBack
CHECK_DEADLOCK FALSE
