------------------------ MODULE MCSyncMapRefinement ------------------------
(* SyncMapRefinement for TLC: goroutines, keys, values and entries are     *)
(* interchangeable.                                                        *)
EXTENDS SyncMapRefinement, TLC

Symmetry == Permutations(Proc) \cup Permutations(Key)
            \cup Permutations(Value) \cup Permutations(Entry)
=============================================================================
