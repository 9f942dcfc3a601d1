\* The same instance, asked whether an account can lose its last level.
SPECIFICATION MCSpec
CONSTANTS
    ann = ann
    bob = bob
    k1 = k1
    k2 = k2
    NoKey = NoKey
    Account = {ann, bob}
    Request = {r1, r2}
    Key = {k1, k2}
    MaxVersion = 1
INVARIANT OneLevelKept
CHECK_DEADLOCK FALSE
