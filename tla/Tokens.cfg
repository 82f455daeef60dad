\* Every failure at once.
SPECIFICATION Spec
CONSTANTS
    a = a
    b = b
    t1 = t1
    t2 = t2
    t3 = t3
    NoToken = NoToken
    Conns = {a, b}
    Tokens = {t1, t2}
    Ops = {"login", "validate", "refresh", "logout"}
    Faults = {"redis", "postgres", "crash", "hangup"}
    MaxFrames = 2
SYMMETRY AuthSymmetry
INVARIANTS
    TypeOK
PROPERTIES
    LivesSpec
    DeadNeverValid
