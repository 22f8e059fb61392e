SPECIFICATION Spec
CONSTANTS
    Call = {c1, c2}
    Handlers <- MCConcurrent
    Milli = 10
SYMMETRY Symmetry
INVARIANT ReportIsComplete
CHECK_DEADLOCK FALSE
