SPECIFICATION Spec
CONSTANTS
    Producer = {p1, p2}
    Msg = {m1}
    Cap = 1
    MaxRetry = 1
SYMMETRY Symmetry
INVARIANTS ResultsAreRead
CHECK_DEADLOCK FALSE
