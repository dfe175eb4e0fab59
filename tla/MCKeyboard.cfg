SPECIFICATION Spec
CONSTANTS
    MaxKeys = 2
    Retries = 2
INVARIANTS TypeOK NothingLeftInService KeyboardAlive
PROPERTIES BootEnds BytesRead
CHECK_DEADLOCK FALSE
