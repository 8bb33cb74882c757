SPECIFICATION Spec
CONSTANTS
    p1 = p1  p2 = p2
    Procs = {p1, p2}
    Unnamed = Unnamed
    Nobody = Nobody
    Disks <- OrderedInUse
    MaxIds = 1
    MaxBatch = 1
    MaxLines = 8
SYMMETRY ProcSymmetry
INVARIANTS
    RepeatedAnswerSurvives
