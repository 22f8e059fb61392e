SPECIFICATION Spec
CONSTANTS
    Call = {c1, c2, c3}
    Handlers <- MCHandlers
    Milli = 10
SYMMETRY Symmetry
INVARIANTS TypeOK SpanIdIsPosition SequentialIsComplete HttpMillisIsTotal
CHECK_DEADLOCK FALSE
