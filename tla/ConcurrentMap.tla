--------------------------- MODULE ConcurrentMap ---------------------------
(***************************************************************************)
(* What package MAP promises its callers: the map of                       *)
(* MAP/map_reference_test.go (RWMutexMap), in which every call takes       *)
(* effect at one instant between its invocation and its return.            *)
(*                                                                         *)
(* A call that changes the map does so in one step (Write).  A call that   *)
(* only observes it may answer with any contents its key had while the     *)
(* call was running; seen records those contents.  An observer changes     *)
(* nothing, so it can be placed at the instant at which its answer was     *)
(* true, and the writes are totally ordered: this is linearizability.      *)
(* Range promises less (MAP/map.go:295-298): each key it reports, or does  *)
(* not report, had that mapping at some point during the call.             *)
(***************************************************************************)

CONSTANTS Proc,    \* goroutines that call the map
          Key, Value,
          Ops,     \* the methods the callers use
          nil      \* Go's nil: no value, no key, no call

VARIABLES map,     \* map[k]: the value stored for k, or nil
          call,    \* call[p]: the call p is making, or nil
          status,  \* status[p]: "idle", "pending" (no effect yet) or "done"
          ret,     \* ret[p]: the results of p's call, once "done"
          visited, \* visited[p][k]: what Range passed to f for k, or nil
          seen     \* seen[p][k]: what k mapped to since p's call began

vars == <<map, call, status, ret, visited, seen>>

Calls ==
    { c \in [op : Ops, key : Key \cup {nil}, val : Value \cup {nil}] :
        /\ (c.op = "Range") <=> (c.key = nil)
        /\ (c.op \in {"Store", "LoadOrStore"}) <=> (c.val # nil) }

Result(v, b) == [val |-> v, ok |-> b]
NoResult == Result(nil, FALSE)
NoKeys == [k \in Key |-> nil]
Watched(c) == IF c.op = "Range" THEN Key ELSE {c.key}

Init ==
    /\ map = NoKeys
    /\ call = [p \in Proc |-> nil]
    /\ status = [p \in Proc |-> "idle"]
    /\ ret = [p \in Proc |-> NoResult]
    /\ visited = [p \in Proc |-> NoKeys]
    /\ seen = [p \in Proc |-> [k \in Key |-> {}]]

Invoke(p) ==
    /\ status[p] = "idle"
    /\ \E c \in Calls :
         /\ call' = [call EXCEPT ![p] = c]
         /\ seen' = [seen EXCEPT ![p] =
                       [k \in Key |-> IF k \in Watched(c) THEN {map[k]} ELSE {}]]
    /\ status' = [status EXCEPT ![p] = "pending"]
    /\ UNCHANGED <<map, ret, visited>>

Answer(p, r) ==
    /\ status' = [status EXCEPT ![p] = "done"]
    /\ ret' = [ret EXCEPT ![p] = r]

\* p's call sets its key to v; every call still pending on that key sees it.
Write(p, v, r) ==
    /\ map' = [map EXCEPT ![call[p].key] = v]
    /\ Answer(p, r)
    /\ seen' = [q \in Proc |-> [k \in Key |->
                  IF q = p \/ seen[q][k] = {} THEN {}
                  ELSE seen[q][k] \cup {map'[k]}]]
    /\ UNCHANGED <<call, visited>>

Observe(p, r) ==
    /\ Answer(p, r)
    /\ seen' = [seen EXCEPT ![p] = [k \in Key |-> {}]]
    /\ UNCHANGED <<map, call, visited>>

Pending(p, op) == status[p] = "pending" /\ call[p].op = op
Seen(p) == seen[p][call[p].key]

Load(p) ==
    /\ Pending(p, "Load")
    /\ \E v \in Seen(p) : Observe(p, Result(v, v # nil))

Store(p) ==
    /\ Pending(p, "Store")
    /\ Write(p, call[p].val, NoResult)

LoadOrStore(p) ==
    /\ Pending(p, "LoadOrStore")
    /\ \/ /\ map[call[p].key] = nil
          /\ Write(p, call[p].val, Result(call[p].val, FALSE))
       \/ \E v \in Seen(p) \ {nil} : Observe(p, Result(v, TRUE))

Delete(p) ==
    /\ Pending(p, "Delete")
    /\ \/ Write(p, nil, NoResult)
       \/ nil \in Seen(p) /\ Observe(p, NoResult)

\* Range calls f(k, v) for one more key ...
RangeVisit(p) ==
    /\ Pending(p, "Range")
    /\ \E k \in Key : \E v \in seen[p][k] \ {nil} :
         /\ visited[p][k] = nil
         /\ visited' = [visited EXCEPT ![p][k] = v]
         /\ \/ UNCHANGED <<map, call, status, ret, seen>>
            \/ /\ Answer(p, NoResult)      \* ... f returned false: stop
               /\ seen' = [seen EXCEPT ![p] = [j \in Key |-> {}]]
               /\ UNCHANGED <<map, call>>

\* ... and leaves out only keys that were absent at some point.
RangeEnd(p) ==
    /\ Pending(p, "Range")
    /\ \A k \in Key : visited[p][k] # nil \/ nil \in seen[p][k]
    /\ Observe(p, Result(nil, TRUE))

Return(p) ==
    /\ status[p] = "done"
    /\ status' = [status EXCEPT ![p] = "idle"]
    /\ call' = [call EXCEPT ![p] = nil]
    /\ ret' = [ret EXCEPT ![p] = NoResult]
    /\ visited' = [visited EXCEPT ![p] = NoKeys]
    /\ UNCHANGED <<map, seen>>

Next ==
    \E p \in Proc :
        \/ Invoke(p) \/ Load(p) \/ Store(p) \/ LoadOrStore(p) \/ Delete(p)
        \/ RangeVisit(p) \/ RangeEnd(p) \/ Return(p)

Spec == Init /\ [][Next]_vars
=============================================================================
