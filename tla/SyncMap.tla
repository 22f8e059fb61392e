------------------------------ MODULE SyncMap ------------------------------
(***************************************************************************)
(* The concurrent map of MAP/map.go.                                       *)
(*                                                                         *)
(* Goroutines share the mutex mu, the atomic field read, the fields dirty  *)
(* and misses (guarded by mu) and the atomic pointer p of every entry      *)
(* (ptr[e]).  read and ptr are accessed with and without mu, so each       *)
(* access to them that another goroutine could observe is a step of its    *)
(* own: an atomic load, a compare-and-swap, a store.  read is stored only  *)
(* with mu held, so re-reading it and touching dirty and misses is folded  *)
(* into the neighbouring step of the same critical section; a critical     *)
(* section that makes a single such access is one step, enabled when mu is *)
(* free.                                                                   *)
(*                                                                         *)
(* A Go map is a function on Key with nil for a missing key.  A stored     *)
(* value stands for the pointer to its interface box: a compare-and-swap   *)
(* that the code repeats because another goroutine has stored an equal     *)
(* value in a box of its own succeeds here at the first attempt, with the  *)
(* same outcome.  An entry no map and no goroutine refers to any more can  *)
(* be allocated again (the collector).                                     *)
(***************************************************************************)
EXTENDS Naturals, FiniteSets

CONSTANTS Proc,     \* goroutines that call the map
          Key, Value,
          Entry,    \* addresses of entry structs
          Ops,      \* the methods the callers use
          nil,      \* Go's nil
          expunged  \* the marker pointer of map.go:62

VARIABLES mu,       \* the goroutine that holds m.mu, or nil
          read,     \* m.read: [m, amended]
          dirty,    \* m.dirty; empty when it is nil
          dirtyNil, \* m.dirty == nil
          misses,   \* m.misses
          ptr,      \* ptr[e]: the field p of entry e
          pc,       \* pc[p]: what p does next
          call,     \* call[p]: the call p is making, or nil
          ent,      \* ent[p]: p's local variable e, or nil
          old,      \* old[p]: the pointer p loaded for its next CAS
          todo,     \* todo[p]: the map p ranges over, less the keys done
          visited,  \* visited[p][k]: the value p's Range passed to f, or nil
          ret       \* ret[p]: the results of p's call

vars == <<mu, read, dirty, dirtyNil, misses, ptr, pc, call, ent, old, todo,
          visited, ret>>
shared == <<read, dirty, dirtyNil, misses>>
locals == <<todo, visited>>

Calls ==
    { c \in [op : Ops, key : Key \cup {nil}, val : Value \cup {nil}] :
        /\ (c.op = "Range") <=> (c.key = nil)
        /\ (c.op \in {"Store", "LoadOrStore"}) <=> (c.val # nil) }

ASSUME SyncMapAssumption ==
    /\ nil # expunged
    /\ nil \notin Proc \cup Key \cup Value \cup Entry \cup Calls
    /\ expunged \notin Value
    /\ Ops \subseteq {"Load", "Store", "LoadOrStore", "Delete", "Range"}

Maps == [Key -> Entry \cup {nil}]
NoKeys == [k \in Key |-> nil]
Result(v, b) == [val |-> v, ok |-> b]
NoResult == Result(nil, FALSE)
Gone == {nil, expunged}        \* the pointers of a deleted entry
len(m) == Cardinality({k \in Key : m[k] # nil})

Init ==
    /\ mu = nil
    /\ read = [m |-> NoKeys, amended |-> FALSE]
    /\ dirty = NoKeys
    /\ dirtyNil = TRUE
    /\ misses = 0
    /\ ptr = [e \in Entry |-> nil]
    /\ pc = [p \in Proc |-> "idle"]
    /\ call = [p \in Proc |-> nil]
    /\ ent = [p \in Proc |-> nil]
    /\ old = [p \in Proc |-> nil]
    /\ todo = [p \in Proc |-> NoKeys]
    /\ visited = [p \in Proc |-> NoKeys]
    /\ ret = [p \in Proc |-> NoResult]

At(p, label, ops) == pc[p] = label /\ call[p].op \in ops
Goto(p, label) == pc' = [pc EXCEPT ![p] = label]
GotoWith(p, label, e) == Goto(p, label) /\ ent' = [ent EXCEPT ![p] = e]

\* The method returns r: its local variables are gone.
Finish(p, r) ==
    /\ GotoWith(p, "ret", nil)
    /\ old' = [old EXCEPT ![p] = nil]
    /\ ret' = [ret EXCEPT ![p] = r]
-----------------------------------------------------------------------------
(* Promotion of the dirty map, and its copy.                               *)

Promote ==
    /\ read' = [m |-> dirty, amended |-> FALSE]
    /\ dirty' = NoKeys
    /\ dirtyNil' = TRUE
    /\ misses' = 0

missLocked ==
    IF misses + 1 < len(dirty)
    THEN misses' = misses + 1 /\ UNCHANGED <<read, dirty, dirtyNil>>
    ELSE Promote

\* The entries some map or some goroutine still refers to.
Referenced ==
    { e \in Entry :
        \/ \E k \in Key : read.m[k] = e \/ dirty[k] = e
        \/ \E q \in Proc : ent[q] = e \/ \E k \in Key : todo[q][k] = e }

\* The end of Store and LoadOrStore for a key in neither map, once the dirty
\* map exists: mark read as incomplete, add a new entry, unlock.
Insert(p) ==
    /\ At(p, "newKey", {"Store", "LoadOrStore"})
    /\ todo[p] = NoKeys
    /\ read' = [read EXCEPT !.amended = TRUE]
    /\ \E e \in Entry \ Referenced :
         /\ ptr' = [ptr EXCEPT ![e] = call[p].val]
         /\ dirty' = [dirty EXCEPT ![call[p].key] = e]
    /\ mu' = nil
    /\ Finish(p, IF call[p].op = "Store" THEN NoResult
                 ELSE Result(call[p].val, FALSE))
    /\ UNCHANGED <<dirtyNil, misses, call, locals>>

\* dirtyLocked's loop is done with key k, whose entry it keeps or leaves out.
KeyCopied(p, k, e) ==
    /\ dirty' = [dirty EXCEPT ![k] = e]
    /\ todo' = [todo EXCEPT ![p][k] = nil]
    /\ GotoWith(p, "newKey", nil)

\* tryExpungeLocked, the atomic load: of the next key's entry, or again of
\* the entry whose CAS failed.
tryExpungeLoad(p) ==
    /\ pc[p] \in {"newKey", "expungeLoad"}
    /\ \E k \in Key :
         LET e == todo[p][k] IN
         /\ e # nil
         /\ pc[p] = "expungeLoad" => ent[p] = e
         /\ \/ /\ ptr[e] = nil
               /\ GotoWith(p, "expungeCAS", e)
               /\ UNCHANGED <<dirty, todo>>
            \/ ptr[e] = expunged /\ KeyCopied(p, k, nil)
            \/ ptr[e] \notin Gone /\ KeyCopied(p, k, e)
    /\ UNCHANGED <<mu, read, dirtyNil, misses, ptr, call, old, visited, ret>>

\* Mutant: a deleted entry is left out of the dirty map but not expunged.
tryExpungeCASNoMark(p) ==
    /\ pc[p] = "expungeCAS"
    /\ \E k \in Key :
         /\ todo[p][k] = ent[p]
         /\ IF ptr[ent[p]] = nil
            THEN KeyCopied(p, k, nil)
            ELSE Goto(p, "expungeLoad") /\ UNCHANGED <<dirty, todo, ent>>
    /\ UNCHANGED <<mu, read, dirtyNil, misses, ptr, call, old, visited, ret>>

\* tryExpungeLocked, the compare-and-swap of nil by expunged.
tryExpungeCAS(p) ==
    /\ pc[p] = "expungeCAS"
    /\ \E k \in Key :
         /\ todo[p][k] = ent[p]
         /\ IF ptr[ent[p]] = nil
            THEN /\ ptr' = [ptr EXCEPT ![ent[p]] = expunged]
                 /\ KeyCopied(p, k, nil)
            ELSE Goto(p, "expungeLoad") /\ UNCHANGED <<ptr, dirty, todo, ent>>
    /\ UNCHANGED <<mu, read, dirtyNil, misses, call, old, visited, ret>>
-----------------------------------------------------------------------------
(* Load                                                                    *)

LoadRead(p) ==
    /\ At(p, "read", {"Load"})
    /\ LET e == read.m[call[p].key] IN
       \/ e # nil /\ GotoWith(p, "load", e) /\ UNCHANGED <<old, ret>>
       \/ e = nil /\ read.amended /\ Goto(p, "lock") /\ UNCHANGED <<ent, old, ret>>
       \/ e = nil /\ ~read.amended /\ Finish(p, NoResult)
    /\ UNCHANGED <<mu, shared, ptr, call, locals>>

LoadLocked(p) ==
    /\ At(p, "lock", {"Load"})
    /\ mu = nil
    /\ LET miss == read.m[call[p].key] = nil /\ read.amended
           e == (IF miss THEN dirty ELSE read.m)[call[p].key] IN
       /\ IF miss THEN missLocked ELSE UNCHANGED shared
       /\ IF e # nil
          THEN GotoWith(p, "load", e) /\ UNCHANGED <<old, ret>>
          ELSE Finish(p, NoResult)
    /\ UNCHANGED <<mu, ptr, call, locals>>

EntryLoad(p) ==
    /\ At(p, "load", {"Load"})
    /\ LET v == ptr[ent[p]] IN
       Finish(p, IF v \in Gone THEN NoResult ELSE Result(v, TRUE))
    /\ UNCHANGED <<mu, shared, ptr, call, locals>>
-----------------------------------------------------------------------------
(* Store and LoadOrStore                                                   *)

\* The fast path looks the key up in read only.
StoreRead(p) ==
    /\ At(p, "read", {"Store", "LoadOrStore"})
    /\ LET e == read.m[call[p].key] IN
       GotoWith(p, IF e # nil THEN "load" ELSE "lock", e)
    /\ UNCHANGED <<mu, shared, ptr, call, old, locals, ret>>

\* Mutant: tryStore overwrites an expunged entry.
tryStoreLoadAny(p) ==
    /\ At(p, "load", {"Store"})
    /\ old' = [old EXCEPT ![p] = ptr[ent[p]]]
    /\ Goto(p, "cas")
    /\ UNCHANGED <<mu, shared, ptr, call, ent, locals, ret>>

tryStoreLoad(p) ==
    /\ At(p, "load", {"Store"})
    /\ \/ /\ ptr[ent[p]] = expunged
          /\ GotoWith(p, "lock", nil)
          /\ UNCHANGED old
       \/ /\ ptr[ent[p]] # expunged
          /\ old' = [old EXCEPT ![p] = ptr[ent[p]]]
          /\ Goto(p, "cas")
          /\ UNCHANGED ent
    /\ UNCHANGED <<mu, shared, ptr, call, locals, ret>>

tryStoreCAS(p) ==
    /\ At(p, "cas", {"Store"})
    /\ IF ptr[ent[p]] = old[p]
       THEN /\ ptr' = [ptr EXCEPT ![ent[p]] = call[p].val]
            /\ Finish(p, NoResult)
       ELSE /\ Goto(p, "load")
            /\ old' = [old EXCEPT ![p] = nil]
            /\ UNCHANGED <<ptr, ent, ret>>
    /\ UNCHANGED <<mu, shared, call, locals>>

\* Mutant: dirtyLocked is not called before a new key is added.
StoreLockedNoDirty(p) ==
    /\ At(p, "lock", {"Store", "LoadOrStore"})
    /\ mu = nil
    /\ mu' = p
    /\ LET k == call[p].key IN
       \/ /\ read.m[k] # nil
          /\ GotoWith(p, "unexpunge", read.m[k])
       \/ /\ read.m[k] = nil /\ dirty[k] # nil
          /\ GotoWith(p, IF call[p].op = "Store" THEN "storeLocked" ELSE "load",
                      dirty[k])
       \/ /\ read.m[k] = nil /\ dirty[k] = nil
          /\ Goto(p, "newKey")
          /\ UNCHANGED ent
    /\ UNCHANGED <<shared, ptr, call, old, locals, ret>>

\* Under mu: the key is in read, in dirty only, or in neither.
StoreLocked(p) ==
    /\ At(p, "lock", {"Store", "LoadOrStore"})
    /\ mu = nil
    /\ mu' = p
    /\ LET k == call[p].key IN
       \/ /\ read.m[k] # nil
          /\ GotoWith(p, "unexpunge", read.m[k])
          /\ UNCHANGED <<dirtyNil, todo>>
       \/ /\ read.m[k] = nil /\ dirty[k] # nil
          /\ GotoWith(p, IF call[p].op = "Store" THEN "storeLocked" ELSE "load",
                      dirty[k])
          /\ UNCHANGED <<dirtyNil, todo>>
       \/ /\ read.m[k] = nil /\ dirty[k] = nil
          /\ Goto(p, "newKey")
          /\ dirtyNil' = (dirtyNil /\ read.amended)
          /\ todo' = [todo EXCEPT ![p] =
                        IF ~read.amended /\ dirtyNil THEN read.m ELSE NoKeys]
          /\ UNCHANGED ent
    /\ UNCHANGED <<read, dirty, misses, ptr, call, old, visited, ret>>

\* Mutants: the caller does not add the entry to the dirty map; the entry is
\* not unexpunged at all.
unexpungeLockedNoAdd(p) ==
    /\ pc[p] = "unexpunge"
    /\ ptr' = [ptr EXCEPT ![ent[p]] = IF @ = expunged THEN nil ELSE @]
    /\ Goto(p, IF call[p].op = "Store" THEN "storeLocked" ELSE "load")
    /\ UNCHANGED <<mu, shared, call, ent, old, locals, ret>>

unexpungeLockedSkipped(p) ==
    /\ pc[p] = "unexpunge"
    /\ Goto(p, IF call[p].op = "Store" THEN "storeLocked" ELSE "load")
    /\ UNCHANGED <<mu, shared, ptr, call, ent, old, locals, ret>>

unexpungeLocked(p) ==
    /\ pc[p] = "unexpunge"
    /\ IF ptr[ent[p]] = expunged
       THEN /\ ptr' = [ptr EXCEPT ![ent[p]] = nil]
            /\ dirty' = [dirty EXCEPT ![call[p].key] = ent[p]]
       ELSE UNCHANGED <<ptr, dirty>>
    /\ Goto(p, IF call[p].op = "Store" THEN "storeLocked" ELSE "load")
    /\ UNCHANGED <<mu, read, dirtyNil, misses, call, ent, old, locals, ret>>

storeLocked(p) ==
    /\ pc[p] = "storeLocked"
    /\ ptr' = [ptr EXCEPT ![ent[p]] = call[p].val]
    /\ mu' = nil
    /\ Finish(p, NoResult)
    /\ UNCHANGED <<shared, call, locals>>

\* tryLoadOrStore answered r: return it, after Unlock on the locked path and
\* after missLocked if the entry came from dirty.
Answer(p, r) ==
    IF mu = p /\ read.m[call[p].key] = nil
    THEN /\ GotoWith(p, "missLocked", nil)
         /\ old' = [old EXCEPT ![p] = nil]
         /\ ret' = [ret EXCEPT ![p] = r]
         /\ UNCHANGED mu
    ELSE Finish(p, r) /\ mu' = IF mu = p THEN nil ELSE mu

tryLoadOrStoreLoad(p) ==
    /\ At(p, "load", {"LoadOrStore"})
    /\ \/ /\ ptr[ent[p]] = expunged
          /\ IF mu = p THEN Answer(p, NoResult)   \* the caller ignores ok
             ELSE GotoWith(p, "lock", nil) /\ UNCHANGED <<mu, old, ret>>
       \/ ptr[ent[p]] \notin Gone /\ Answer(p, Result(ptr[ent[p]], TRUE))
       \/ /\ ptr[ent[p]] = nil
          /\ Goto(p, "cas")
          /\ UNCHANGED <<mu, ent, old, ret>>
    /\ UNCHANGED <<shared, ptr, call, locals>>

\* Mutant: the loop does not load p again.
tryLoadOrStoreCASNoReload(p) ==
    /\ At(p, "cas", {"LoadOrStore"})
    /\ IF ptr[ent[p]] = nil
       THEN /\ ptr' = [ptr EXCEPT ![ent[p]] = call[p].val]
            /\ Answer(p, Result(call[p].val, FALSE))
       ELSE UNCHANGED <<mu, ptr, pc, ent, old, ret>>
    /\ UNCHANGED <<shared, call, locals>>

tryLoadOrStoreCAS(p) ==
    /\ At(p, "cas", {"LoadOrStore"})
    /\ IF ptr[ent[p]] = nil
       THEN /\ ptr' = [ptr EXCEPT ![ent[p]] = call[p].val]
            /\ Answer(p, Result(call[p].val, FALSE))
       ELSE Goto(p, "load") /\ UNCHANGED <<mu, ptr, ent, old, ret>>
    /\ UNCHANGED <<shared, call, locals>>

LoadOrStoreMiss(p) ==
    /\ pc[p] = "missLocked"
    /\ missLocked
    /\ mu' = nil
    /\ Goto(p, "ret")
    /\ UNCHANGED <<ptr, call, ent, old, locals, ret>>
-----------------------------------------------------------------------------
(* Delete                                                                  *)

DeleteRead(p) ==
    /\ At(p, "read", {"Delete"})
    /\ LET e == read.m[call[p].key] IN
       \/ e # nil /\ GotoWith(p, "load", e) /\ UNCHANGED <<old, ret>>
       \/ e = nil /\ read.amended /\ Goto(p, "lock") /\ UNCHANGED <<ent, old, ret>>
       \/ e = nil /\ ~read.amended /\ Finish(p, NoResult)
    /\ UNCHANGED <<mu, shared, ptr, call, locals>>

DeleteLocked(p) ==
    /\ At(p, "lock", {"Delete"})
    /\ mu = nil
    /\ LET k == call[p].key IN
       \/ /\ read.m[k] # nil
          /\ GotoWith(p, "load", read.m[k])
          /\ UNCHANGED <<dirty, old, ret>>
       \/ /\ read.m[k] = nil
          /\ dirty' = IF read.amended THEN [dirty EXCEPT ![k] = nil] ELSE dirty
          /\ Finish(p, NoResult)
    /\ UNCHANGED <<mu, read, dirtyNil, misses, ptr, call, locals>>

\* Mutant: delete does not recognise an expunged entry.
deleteLoadNilOnly(p) ==
    /\ At(p, "load", {"Delete"})
    /\ \/ ptr[ent[p]] = nil /\ Finish(p, NoResult)
       \/ /\ ptr[ent[p]] # nil
          /\ old' = [old EXCEPT ![p] = ptr[ent[p]]]
          /\ Goto(p, "cas")
          /\ UNCHANGED <<ent, ret>>
    /\ UNCHANGED <<mu, shared, ptr, call, locals>>

deleteLoad(p) ==
    /\ At(p, "load", {"Delete"})
    /\ \/ ptr[ent[p]] \in Gone /\ Finish(p, NoResult)
       \/ /\ ptr[ent[p]] \notin Gone
          /\ old' = [old EXCEPT ![p] = ptr[ent[p]]]
          /\ Goto(p, "cas")
          /\ UNCHANGED <<ent, ret>>
    /\ UNCHANGED <<mu, shared, ptr, call, locals>>

deleteCAS(p) ==
    /\ At(p, "cas", {"Delete"})
    /\ IF ptr[ent[p]] = old[p]
       THEN ptr' = [ptr EXCEPT ![ent[p]] = nil] /\ Finish(p, NoResult)
       ELSE /\ Goto(p, "load")
            /\ old' = [old EXCEPT ![p] = nil]
            /\ UNCHANGED <<ptr, ent, ret>>
    /\ UNCHANGED <<mu, shared, call, locals>>
-----------------------------------------------------------------------------
(* Range                                                                   *)

RangeRead(p) ==
    /\ At(p, "read", {"Range"})
    /\ IF read.amended
       THEN Goto(p, "lock") /\ UNCHANGED todo
       ELSE Goto(p, "range") /\ todo' = [todo EXCEPT ![p] = read.m]
    /\ UNCHANGED <<mu, shared, ptr, call, ent, old, visited, ret>>

RangeLocked(p) ==
    /\ At(p, "lock", {"Range"})
    /\ mu = nil
    /\ IF read.amended THEN Promote ELSE UNCHANGED shared
    /\ todo' = [todo EXCEPT ![p] = read'.m]
    /\ Goto(p, "range")
    /\ UNCHANGED <<mu, ptr, call, ent, old, visited, ret>>

\* One turn of the loop: f(k, v) is called unless the entry is deleted, and
\* the loop goes on unless f returns false.
RangeStep(p) ==
    /\ pc[p] = "range"
    /\ \E k \in Key :
         LET v == ptr[todo[p][k]] IN
         /\ todo[p][k] # nil
         /\ \/ /\ v \in Gone
               /\ todo' = [todo EXCEPT ![p][k] = nil]
               /\ UNCHANGED <<pc, ent, old, visited, ret>>
            \/ /\ v \notin Gone
               /\ todo' = [todo EXCEPT ![p][k] = nil]
               /\ visited' = [visited EXCEPT ![p][k] = v]
               /\ UNCHANGED <<pc, ent, old, ret>>
            \/ /\ v \notin Gone
               /\ todo' = [todo EXCEPT ![p] = NoKeys]
               /\ visited' = [visited EXCEPT ![p][k] = v]
               /\ Finish(p, NoResult)
    /\ UNCHANGED <<mu, shared, ptr, call>>

RangeEnd(p) ==
    /\ pc[p] = "range"
    /\ todo[p] = NoKeys
    /\ Finish(p, Result(nil, TRUE))
    /\ UNCHANGED <<mu, shared, ptr, call, locals>>
-----------------------------------------------------------------------------
\* A goroutine calls a method of the map, and takes the results it returns.
Invoke(p) ==
    /\ pc[p] = "idle"
    /\ \E c \in Calls : call' = [call EXCEPT ![p] = c]
    /\ Goto(p, "read")
    /\ UNCHANGED <<mu, shared, ptr, ent, old, locals, ret>>

Return(p) ==
    /\ pc[p] = "ret"
    /\ Goto(p, "idle")
    /\ call' = [call EXCEPT ![p] = nil]
    /\ ret' = [ret EXCEPT ![p] = NoResult]
    /\ visited' = [visited EXCEPT ![p] = NoKeys]
    /\ UNCHANGED <<mu, shared, ptr, ent, old, todo>>

Step(p) ==
    \/ LoadRead(p) \/ LoadLocked(p) \/ EntryLoad(p)
    \/ StoreRead(p) \/ tryStoreLoad(p) \/ tryStoreCAS(p) \/ StoreLocked(p)
    \/ unexpungeLocked(p) \/ storeLocked(p)
    \/ tryExpungeLoad(p) \/ tryExpungeCAS(p) \/ Insert(p)
    \/ tryLoadOrStoreLoad(p) \/ tryLoadOrStoreCAS(p) \/ LoadOrStoreMiss(p)
    \/ DeleteRead(p) \/ DeleteLocked(p) \/ deleteLoad(p) \/ deleteCAS(p)
    \/ RangeRead(p) \/ RangeLocked(p) \/ RangeStep(p) \/ RangeEnd(p)

Next == \E p \in Proc : Invoke(p) \/ Step(p) \/ Return(p)

Spec == Init /\ [][Next]_vars
-----------------------------------------------------------------------------
(* Correctness                                                             *)

Labels == {"idle", "read", "lock", "load", "cas", "unexpunge", "storeLocked",
           "newKey", "expungeLoad", "expungeCAS", "missLocked", "range", "ret"}

TypeOK ==
    /\ mu \in Proc \cup {nil}
    /\ read \in [m : Maps, amended : BOOLEAN]
    /\ dirty \in Maps
    /\ dirtyNil \in BOOLEAN
    /\ misses \in Nat
    /\ ptr \in [Entry -> Value \cup Gone]
    /\ pc \in [Proc -> Labels]
    /\ call \in [Proc -> Calls \cup {nil}]
    /\ ent \in [Proc -> Entry \cup {nil}]
    /\ old \in [Proc -> Value \cup {nil}]
    /\ todo \in [Proc -> Maps]
    /\ visited \in [Proc -> [Key -> Value \cup {nil}]]
    /\ ret \in [Proc -> [val : Value \cup {nil}, ok : BOOLEAN]]

\* p is between Lock and Unlock of m.mu.
Critical(p) ==
    \/ pc[p] \in {"unexpunge", "storeLocked", "newKey", "expungeLoad",
                  "expungeCAS", "missLocked"}
    \/ pc[p] \in {"load", "cas"} /\ call[p].op = "LoadOrStore" /\ mu = p

\* p is in dirtyLocked and has not copied key k yet.
Copying(p, k) ==
    /\ pc[p] \in {"newKey", "expungeLoad", "expungeCAS"}
    /\ todo[p][k] # nil

\* Fields documented as guarded by mu are only touched by its holder: the
\* steps taken between Lock and Unlock belong to one goroutine.
MutualExclusion == \A p \in Proc : Critical(p) <=> mu = p

\* "dirty ... also includes all of the non-expunged entries in the read map.
\* Expunged entries are not stored in the dirty map."  (map.go:33-39)  A nil
\* dirty map leaves no entry expunged, so promoting dirty (missLocked, Range)
\* can neither lose a value nor bring back a dead entry.
DirtyMirrorsRead ==
    \A k \in Key :
        read.m[k] # nil /\ (\A p \in Proc : ~Copying(p, k)) =>
            IF dirtyNil THEN ptr[read.m[k]] # expunged
            ELSE dirty[k] = IF ptr[read.m[k]] = expunged THEN nil ELSE read.m[k]

\* Two keys never share an entry, so that updating one leaves the other alone.
EntriesDistinct ==
    \A j, k \in Key :
        j # k => {read.m[j], dirty[j]} \cap {read.m[k], dirty[k]} \subseteq {nil}

\* No write is lost: a goroutine about to update an entry it found without mu
\* updates the entry in which the key is looked up, or one marked expunged,
\* which tryStore, tryLoadOrStore and delete leave alone.
FastPathSafe ==
    \A p \in Proc :
        /\ pc[p] \in {"load", "cas"}
        /\ call[p].op \in {"Store", "LoadOrStore", "Delete"}
        /\ mu # p
        /\ ptr[ent[p]] # expunged
        => read.m[call[p].key] = ent[p]

\* "The entry must be known not to be expunged" (storeLocked, map.go:187): on
\* the locked path of Store and LoadOrStore the entry is the one the key is
\* looked up in and it is not expunged, also when tryLoadOrStore's ok result
\* is ignored (map.go:211, 213).
SlowPathSafe ==
    \A p \in Proc :
        /\ \/ pc[p] = "storeLocked"
           \/ pc[p] \in {"load", "cas"} /\ mu = p
        => /\ ptr[ent[p]] # expunged
           /\ ent[p] \in {read.m[call[p].key], dirty[call[p].key]}

\* m.dirty[key] = e (map.go:140, 152, 209, 222) never assigns to a nil map:
\* "The entry was previously expunged, which implies that there is a non-nil
\* dirty map and this entry is not in it."
NoNilMapWrite ==
    \A p \in Proc :
        /\ pc[p] = "newKey" => ~dirtyNil
        /\ pc[p] = "unexpunge" /\ ptr[ent[p]] = expunged =>
             ~dirtyNil /\ dirty[call[p].key] = nil

-----------------------------------------------------------------------------
(* The inductive invariant behind the properties above.                    *)

\* What each label says about the call and the local variable e.
Control ==
    \A p \in Proc :
        /\ pc[p] = "idle" <=> call[p] = nil
        /\ pc[p] = "load" => call[p].op # "Range"
        /\ pc[p] = "cas" => call[p].op \in {"Store", "LoadOrStore", "Delete"}
        /\ pc[p] = "storeLocked" => call[p].op = "Store"
        /\ pc[p] \in {"unexpunge", "newKey", "expungeLoad", "expungeCAS",
                      "missLocked"} => call[p].op \in {"Store", "LoadOrStore"}
        /\ pc[p] \in {"load", "cas", "unexpunge", "storeLocked", "expungeLoad",
                      "expungeCAS"} => ent[p] # nil

\* A nil dirty map is empty; read is amended, and a miss counted, only if the
\* dirty map exists.
DirtyNil ==
    dirtyNil => /\ dirty = NoKeys /\ ~read.amended
                /\ \A p \in Proc : pc[p] # "missLocked"

DirtyNotExpunged == \A k \in Key : dirty[k] # nil => ptr[dirty[k]] # expunged

\* dirtyLocked copies read.m, to which the call's key does not belong.
CopyInv ==
    \A p \in Proc :
        pc[p] \in {"newKey", "expungeLoad", "expungeCAS"} =>
            /\ ~dirtyNil
            /\ read.m[call[p].key] = nil
            /\ \A k \in Key : todo[p][k] # nil =>
                 todo[p][k] = read.m[k] /\ dirty[k] = nil

\* The entry a call works on belongs to no other key than the call's.
EntryOfKey ==
    \A p \in Proc :
        pc[p] \in {"load", "cas", "unexpunge", "storeLocked"} =>
            \A k \in Key \ {call[p].key} : ent[p] \notin {read.m[k], dirty[k]}

UnexpungeInv ==
    \A p \in Proc : pc[p] = "unexpunge" => ent[p] = read.m[call[p].key]

IInv ==
    /\ TypeOK /\ Control /\ MutualExclusion
    /\ DirtyNil /\ DirtyNotExpunged /\ CopyInv /\ EntryOfKey /\ UnexpungeInv
    /\ EntriesDistinct /\ DirtyMirrorsRead /\ FastPathSafe /\ SlowPathSafe
-----------------------------------------------------------------------------
\* Every goroutine inside a method keeps running (the Go scheduler); callers
\* need not make another call.
Fairness == \A p \in Proc : WF_vars(Step(p) \/ Return(p))
FairSpec == Spec /\ Fairness

\* Neither the mutex nor the compare-and-swap loops can hold up everyone:
\* while calls are in progress, one of them eventually completes, whatever
\* further calls are made.
SomeCallCompletes ==
    (\E p \in Proc : pc[p] # "idle") ~> (\E p \in Proc : pc[p] = "ret")
=============================================================================
