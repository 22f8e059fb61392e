------------------------- MODULE SyncMapRefinement -------------------------
(***************************************************************************)
(* The map of MAP/map.go implements ConcurrentMap: every method takes      *)
(* effect at one instant of its execution.                                 *)
(*                                                                         *)
(* The contents of the abstract map are read off read, dirty and the       *)
(* entries' pointers; the history variable seen records what each pending  *)
(* call's key has mapped to since the call began.                          *)
(***************************************************************************)
EXTENDS SyncMap

VARIABLE seen

\* The entry in which key k is looked up, and the value stored for k.
EntryOf(k) == IF read.m[k] # nil THEN read.m[k] ELSE dirty[k]
AbsVal(k) ==
    IF EntryOf(k) = nil \/ ptr[EntryOf(k)] \in Gone THEN nil
    ELSE ptr[EntryOf(k)]

\* A call is decided from the step that fixes its results on.
AbsStatus(p) ==
    CASE pc[p] = "idle" -> "idle"
      [] pc[p] \in {"missLocked", "ret"} -> "done"
      [] OTHER -> "pending"

Abs == INSTANCE ConcurrentMap
       WITH map <- [k \in Key |-> AbsVal(k)],
            status <- [p \in Proc |-> AbsStatus(p)]

HInit == Init /\ seen = [p \in Proc |-> [k \in Key |-> {}]]

\* Every step adds what the keys map to now.
RecordSeen ==
    seen' = [p \in Proc |-> [k \in Key |->
        IF AbsStatus(p)' = "pending" /\ k \in Abs!Watched(call'[p])
        THEN seen[p][k] \cup {AbsVal(k)'}
        ELSE {}]]

HNext == Next /\ RecordSeen

HSpec == HInit /\ [][HNext]_<<vars, seen>>

\* Load, Store, LoadOrStore and Delete are linearizable, and Range reports
\* for each key a mapping the key had during the call ("Range may reflect any
\* mapping for that key from any point during the Range call"): every step of
\* MAP/map.go is a step of the abstract map or leaves it unchanged.
Linearizable == Abs!Spec
=============================================================================
