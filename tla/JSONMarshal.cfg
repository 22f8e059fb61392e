SPECIFICATION Spec
CONSTANTS
    Proc <- MCProc
    Type <- MCType
    Struct <- MCStruct
    Elems <- MCElems
    Decl <- MCDecl
    Programs <- MCPrograms
INVARIANTS EncodersReady ReadsBack
PROPERTY MarshalReturns
CHECK_DEADLOCK FALSE
