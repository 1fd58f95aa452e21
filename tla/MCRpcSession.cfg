CONSTANTS
    Clients = {c1}
    Others = {o1}
    Methods = {m1}
    MaxFrames = 2
    None = None
SPECIFICATION Spec
CHECK_DEADLOCK FALSE
INVARIANTS TypeOK
PROPERTIES ImplementsRpcCalls ThreadsEnd
