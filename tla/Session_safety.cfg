SPECIFICATION Spec
CONSTANTS
    Call = {1, 2}
    Account = {ann, olga}
    ann = ann
    olga = olga
    Grants <- MCGrants
    Life = 1
    MaxTime = 2
INVARIANTS
    TypeOK
    ShownPageIsAllowed
    LandingOfGuest
PROPERTIES
    RightsComeFromLogin
SYMMETRY
    MCSymmetry
