\* Redis answers; PostgreSQL fails.  A validate changes no store but by deleting
\* a session that has expired, which a refresh does likewise.
SPECIFICATION HSpec
CONSTANTS
    a = a
    b = b
    t1 = t1
    t2 = t2
    t3 = t3
    NoToken = NoToken
    Conns = {a, b}
    Tokens = {t1, t2, t3}
    Ops = {"login", "refresh", "logout"}
    Faults = {"postgres"}
    MaxFrames = 2
SYMMETRY AuthSymmetry
INVARIANTS
    RevokedInv
    NoOrphan
    OneSessionUnlessCrossed
