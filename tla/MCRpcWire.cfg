CONSTANTS
    Base = 4
    Magic <- FourBytes
    Version = 1
    Messages <- SomeMessages
    Strange <- OneByteOff
    MaxFrames = 2
SPECIFICATION Spec
CHECK_DEADLOCK FALSE
INVARIANTS TypeOK FramesAsSent RequestsCanonical OwnFramesAccepted
PROPERTIES ImplementsFrameChannel
