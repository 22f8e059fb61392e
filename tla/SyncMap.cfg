SPECIFICATION HSpec
CONSTANTS
    Proc = {p1, p2}
    Key = {k1, k2}
    Value = {v1, v2}
    Entry = {e1, e2, e3}
    Ops = {"Load", "Store", "LoadOrStore", "Delete", "Range"}
    nil = nil
    expunged = expunged
SYMMETRY Symmetry
PROPERTIES Linearizable
