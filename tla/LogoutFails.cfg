\* A logout while Redis fails.
SPECIFICATION Spec
CONSTANTS
    a = a
    b = b
    t1 = t1
    t2 = t2
    t3 = t3
    NoToken = NoToken
    Conns = {a, b}
    Tokens = {t1, t2, t3}
    Ops = {"login", "validate", "refresh", "logout"}
    Faults = {"redis"}
    MaxFrames = 1
INVARIANTS
    RevokedIsGone
