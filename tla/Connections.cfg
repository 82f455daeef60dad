\* Two connections through cleanup and shutdown.
SPECIFICATION FairSpec
CONSTANTS
    a = a
    b = b
    Conns = {a, b}
    MaxLines = 2
INVARIANT TypeOK
INVARIANT Tracked
INVARIANT NoneClosed
PROPERTY Released
\* The server stops after a signal.
CHECK_DEADLOCK FALSE
