----------------------------- MODULE MCSyncMap -----------------------------
(* SyncMap for TLC, where each goroutine calls some of the methods: those  *)
(* of Editor delete, overwrite and range over the keys the others look up  *)
(* and create.                                                             *)
EXTENDS SyncMap

CONSTANT Editor
ASSUME EditorAssumption == Editor \subseteq Proc

Methods(p) == IF p \in Editor THEN {"Store", "Delete", "Range"}
              ELSE {"Load", "LoadOrStore"}

Use(p) == Invoke(p) /\ call'[p].op \in Methods(p)
UseNext == \E p \in Proc : Use(p) \/ Step(p) \/ Return(p)
UseSpec == Init /\ [][UseNext]_vars /\ Fairness
=============================================================================
