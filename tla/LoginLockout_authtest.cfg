\* The logins of AuthTest: nobody enables or disables accounts.
SPECIFICATION AuthTestSpec
CONSTANTS
    user = user
    boss = boss
    Account = {user}
    Admins = {}
    Login = {l1, l2, l3}
    Edit = {}
    TxRetries = 2
INVARIANT ThreeWrongPasswordsDisable
CHECK_DEADLOCK FALSE
