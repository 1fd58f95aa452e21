CONSTANTS
    Keys = {k}
    Texts = {x}
    Ttls <- TtlValues
    IntBits = 4
    MaxCount = 1
    Okay = Okay
    None = None
    Threads = {t1, t2}
    Password = TRUE
    Follow = FALSE
SPECIFICATION Spec
CHECK_DEADLOCK FALSE
INVARIANTS TypeOK AnswersOwnCommand OnlyTheInitializer
PROPERTIES ImplementsAtomicRedis AnsweredInTurn
