\* Requests of every kind race for the levels of two administrators.
SPECIFICATION MCSpec
CONSTANTS
    ann = ann
    bob = bob
    k1 = k1
    k2 = k2
    NoKey = NoKey
    Account = {ann, bob}
    Request = {r1, r2, r3}
    Key = {k1, k2}
    MaxVersion = 1
SYMMETRY MCSymmetry
INVARIANTS
    TypeOK
    UniqueKeys
PROPERTIES
    RequestsAreAtomic
    LastLevelLostOnlyBySkew
CHECK_DEADLOCK FALSE
