SPECIFICATION Spec
CONSTANTS
    ra = ra  rb = rb
    Roots = {ra, rb}
    None = None
    Other = Other
    Workers = 2
    MaxRequests = 3
    MaxOther = 1
INVARIANTS
    TypeOK
    BindingIsAtomic
PROPERTIES
    EveryRequestAnswered
CHECK_DEADLOCK FALSE
