SPECIFICATION MCSpec
CONSTANTS
    Err <- MCErr
    Cap = 1
    MaxInit = 2
    Worker <- MCWorker
    Stopper <- MCStopper
INVARIANTS TypeOK OneLateUnit WaitMeansOver PanicIsMisuse
PROPERTIES StopEnds QueuedIsPosted
CHECK_DEADLOCK FALSE
