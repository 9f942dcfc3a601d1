\* Every order of filling and correcting the fields, two calls under way.
SPECIFICATION Spec
CONSTANTS
    p = p
    q = q
    Good = {p, q}
    Bad = Bad
    Empty = Empty
    MaxPending = 2
INVARIANTS
    TypeOK
    ConfirmedPasswordIsSound
    RightFormIsAccepted
CHECK_DEADLOCK FALSE
