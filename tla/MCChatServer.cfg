CONSTANTS
    Peers = {p1, p2, p3}
    Fds = {5, 6}
    Chars = {x}
    MaxLines = 2
    MaxChars = 1
    Junk <- Remains
    MaxJunk = 1
    None = None
INIT Init
NEXT Next
SYMMETRY Symmetry
CHECK_DEADLOCK FALSE
INVARIANTS TypeOK MapMatchesKernel EveryoneHearsTheSame LinesAsSent
PROPERTIES DroppedOnlyIfFull
