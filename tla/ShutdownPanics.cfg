\* A shutdown while a connection registers.
SPECIFICATION Spec
CONSTANTS
    a = a
    b = b
    Conns = {a, b}
    MaxLines = 1
INVARIANT NoPanic
\* The server stops after a signal.
CHECK_DEADLOCK FALSE
