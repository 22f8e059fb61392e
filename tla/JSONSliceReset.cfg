SPECIFICATION Spec
CONSTANTS
    Alphabets <- MCWords
    Targets <- MCSlice
    Readings = {}
INVARIANT SliceIsReset
CHECK_DEADLOCK FALSE
