CONSTANTS
    Names = {n1}
    CreditTypes = {C}
    ClassIds = {c1}
    Windows <- MCWindows
    Dates <- MCDates
    Fees <- MCFees
    Unset = Unset
    Malformed = Malformed
SPECIFICATION Spec
INVARIANT
    WindowInSeconds
