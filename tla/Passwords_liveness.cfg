\* The timer against uses of the links it wants to delete.
SPECIFICATION MCFairSpec
CONSTANTS
    ann = ann
    p1 = p1
    p2 = p2
    Account = {ann}
    Password = {p1, p2}
    Request = {r1, r2, r3}
    MaxVersion = 1
PROPERTY TokensDisappear
CHECK_DEADLOCK FALSE
