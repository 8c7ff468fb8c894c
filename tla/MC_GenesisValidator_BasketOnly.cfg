CONSTANTS
    a1 = a1
    Docs <- BasketOnlyDocs
SPECIFICATION Spec
CHECK_DEADLOCK FALSE
INVARIANT
    ValidatorMatchesSpec
