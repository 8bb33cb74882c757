SPECIFICATION HostSpec
CONSTANTS
    None = None
    Hosts <- SomeHosts
INVARIANTS
    CandidatesCount

    
CHECK_DEADLOCK FALSE
