SPECIFICATION UseSpec
CONSTANTS
    Proc = {p1, p2}
    Key = {k1, k2}
    Value = {v1}
    Entry = {e1, e2, e3}
    Ops = {"Load", "Store", "LoadOrStore", "Delete", "Range"}
    nil = nil
    expunged = expunged
    Editor = {p1}
INVARIANTS TypeOK DirtyMirrorsRead FastPathSafe SlowPathSafe NoNilMapWrite
PROPERTIES SomeCallCompletes
