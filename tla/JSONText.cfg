SPECIFICATION Spec
CONSTANTS
    Alphabets <- MCAlphabets
    Targets <- MCTargets
    Readings <- MCReadings
INVARIANTS
    TypeOK AcceptsJSON ErrorIsTimely EndMeansValue NextValueIsWhole
    InSync StoresWhatFits UnmarshalerGetsJSON
    CompactElidesSpace IndentLaysOut
    DecodesAsItComes
PROPERTY ErrorIsSticky
CHECK_DEADLOCK FALSE
