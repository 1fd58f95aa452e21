CONSTANTS
    Clients = {c1}
    Others = {o1}
    Methods = {m1}
    MaxFrames = 2
    None = None
SPECIFICATION StayingSpec
CHECK_DEADLOCK FALSE
INVARIANTS ExceptionsCaught
