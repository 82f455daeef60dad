\* The stores answer and the process runs; clients may hang up.
SPECIFICATION FairSpec
CONSTANTS
    a = a
    b = b
    t1 = t1
    t2 = t2
    t3 = t3
    NoToken = NoToken
    Conns = {a, b}
    Tokens = {t1, t2}
    Ops = {"login", "validate", "refresh", "logout"}
    Faults = {"hangup"}
    MaxFrames = 2
INVARIANT StoresAgree
PROPERTIES
    LiveNeverRefused
    SessionAnswered
