\* Changes, resets and uses of links race for one password.
SPECIFICATION MCSpec
CONSTANTS
    ann = ann
    p1 = p1
    p2 = p2
    Account = {ann}
    Password = {p1, p2}
    Request = {r1, r2, r3}
    MaxVersion = 2
INVARIANTS
    TypeOK
    LinkWorksOnce
PROPERTIES
    RequestsAreAtomic
    SeenAccountChanged
CHECK_DEADLOCK FALSE
