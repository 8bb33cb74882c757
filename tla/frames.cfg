SPECIFICATION Spec
CONSTANTS
    Inputs <- Streams
    ChunkSizes = {1, 2, 3, 5}
INVARIANTS
    TypeOK
    NoRequestLost
CHECK_DEADLOCK FALSE
