SPECIFICATION LiveSpec
CONSTANTS
    Producer = {p1, p2}
    Msg = {m1, m2}
    Cap = 1
    MaxRetry = 1
INVARIANTS TypeOK ResultsBeforeClose
PROPERTIES ResultEventuallyRead CloseTerminates
CHECK_DEADLOCK FALSE
