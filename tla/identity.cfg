SPECIFICATION IdentitySpec
CONSTANTS
    Kinds <- SomeKinds
    NativeIds <- SomeIds
    Missing = Missing
    MaxKind = 4
    MaxId = 5
PROPERTIES
    OneSubject
CHECK_DEADLOCK FALSE
