\* Three logins and one enable or disable request race for one account, the
\* timer works on it and on a second one.
SPECIFICATION MCSpec
CONSTANTS
    user = user
    boss = boss
    Account = {user, boss}
    Admins = {user, boss}
    Login = {l1, l2, l3}
    Edit = {e1}
    TxRetries = 2
SYMMETRY MCSymmetry
INVARIANTS
    TypeOK
    SnapshotsAgree
    RetryIsFutile
PROPERTIES
    EveryFailureCounts
    LockoutImplemented
    ThirdFailureDisables
    SweepUnlocksOnlyExpiredLocks
    IfMatchHonoured
CHECK_DEADLOCK FALSE
