SPECIFICATION Spec
CONSTANTS
    p1 = p1  p2 = p2
    Procs = {p1, p2}
    Unnamed = Unnamed
    Nobody = Nobody
    Disks <- AnyProject
    MaxIds = 2
    MaxBatch = 2
    MaxLines = 7
SYMMETRY ProcSymmetry
INVARIANTS
    TypeOK
    CommittedSurvives
PROPERTIES
    LinesStayReadable
    AtomicSpec
