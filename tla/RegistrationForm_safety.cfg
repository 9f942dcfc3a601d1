\* All fields, and two calls at a time.
SPECIFICATION MCSpec
CONSTANTS
    Call = {1, 2}
    Field <- MCField
    Typed <- MCTyped
    Accepted <- MCAccepted
INVARIANTS TypeOK SuccessIsTrue
PROPERTY OnlyValidIsSent
CHECK_DEADLOCK FALSE
