\* Two accounts, two changes of an address and two requests at a time.
SPECIFICATION MCSpec
CONSTANTS
    ann = ann
    bob = bob
    e1 = e1
    e2 = e2
    e3 = e3
    c1 = c1
    c2 = c2
    r1 = r1
    r2 = r2
    NoEmail = NoEmail
    Account = {ann, bob}
    Email = {e1, e2, e3}
    Change = {c1, c2}
    Request = {r1, r2}
    MaxVersion = 1
INVARIANTS TypeOK LinkUntilActive UniqueEmails
PROPERTY LinksAreAtomic
SYMMETRY Alike
CHECK_DEADLOCK FALSE
