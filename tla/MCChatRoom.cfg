CONSTANTS
    Peers = {p1, p2}
    Fds = {5, 6}
    Chars = {x}
    MaxLines = 2
    MaxChars = 0
    Typed <- Short
    Junk <- Remains
    MaxJunk = 0
    None = None
SPECIFICATION RoomSpec
CHECK_DEADLOCK FALSE

PROPERTIES ListenersInRoom LinesGetThrough LeaverGetsOut LeaversForgotten
