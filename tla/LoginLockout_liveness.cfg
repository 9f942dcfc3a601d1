\* Fewer logins and no symmetry, for the temporal property.
SPECIFICATION MCFairSpec
CONSTANTS
    user = user
    boss = boss
    Account = {user, boss}
    Admins = {boss}
    Login = {l1, l2}
    Edit = {e1}
    TxRetries = 2
PROPERTY LockIsLifted
CHECK_DEADLOCK FALSE
