CONSTANTS
    a1 = a1
    Docs <- SupplyOnlyDocs
SPECIFICATION Spec
CHECK_DEADLOCK FALSE
INVARIANT
    ValidatorMatchesSpec
