SPECIFICATION Spec
CONSTANTS
    Alphabets <- MCWords
    Targets <- MCFixedArray
    Readings = {}
INVARIANT InSync
CHECK_DEADLOCK FALSE
