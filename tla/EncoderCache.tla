--------------------------- MODULE EncoderCache ---------------------------
(***************************************************************************)
(* typeEncoder and the two caches behind it, encoderCache and fieldCache   *)
(* (status/json_private/encode.go), shared by all goroutines that marshal. *)
(*                                                                         *)
(* An encoder is built without a lock.  So that a recursive type can be    *)
(* built at all, the cache gets a function first that waits for the        *)
(* encoder and then calls it.  An encoder is a record: type, by the        *)
(* goroutine that builds it, and waits, whether it is that function.  A    *)
(* goroutine builds a type at most once, so both identify it.              *)
(*                                                                         *)
(* What the encoder of a type is made of is Elems: the types whose         *)
(* encoders newTypeEncoder asks for, in order.  JSONEncode defines it.     *)
(***************************************************************************)
EXTENDS Naturals, Sequences, Functions

CONSTANTS Proc,    \* the goroutines
          Type,    \* the types they marshal
          Struct,  \* those that newStructEncoder builds
          Elems

ASSUME CacheAssumption == Struct \subseteq Type /\ Elems \in [Type -> Seq(Type)]

VARIABLES encoderCache, \* encoderCache.m, a function on the types it has
          fieldCache,   \* the types in fieldCache.value
          elemEncs,     \* elemEncs[p, T]: the encoders that p's encoder of T, where
                        \* there is one, calls
          built,        \* the pairs <<p, T>> whose wait group p is done with
          building,     \* building[p]: the calls of typeEncoder p is in that found
                        \* nothing, outermost first
          want,         \* want[p]: the type p calls typeEncoder with, or <<>>
          got           \* got[p]: the encoder that call returned, or <<>>

cacheVars == <<encoderCache, fieldCache, elemEncs, built, building, want, got>>

Encoder == [type : Type, by : Proc, waits : BOOLEAN]
Indirect(p, T) == [type |-> T, by |-> p, waits |-> TRUE]
Direct(p, T) == [type |-> T, by |-> p, waits |-> FALSE]

CacheInit ==
    /\ encoderCache = [T \in {} |-> {}]
    /\ fieldCache = {}
    /\ elemEncs = [c \in {} |-> <<>>]
    /\ built = {}
    /\ building = [p \in Proc |-> <<>>]
    /\ want = [p \in Proc |-> <<>>]
    /\ got = [p \in Proc |-> <<>>]

Innermost(p) == building[p][Len(building[p])]
BuildingAt(p, at) == building[p] # <<>> /\ Innermost(p).at = at
Goto(p, at) == building' = [building EXCEPT ![p][Len(building[p])].at = at]
Cached(e) ==
    encoderCache' = [T \in DOMAIN encoderCache \cup {e.type} |->
                       IF T = e.type THEN e ELSE encoderCache[T]]

MadeOf(p, T, encs) ==
    elemEncs' = [c \in DOMAIN elemEncs \cup {<<p, T>>} |->
                   IF c = <<p, T>> THEN encs ELSE elemEncs[c]]

\* The type that p calls typeEncoder with next.
Wanted(p) ==
    IF building[p] = <<>> THEN want[p]
    ELSE LET c == Innermost(p) IN
         IF c.at = "elems" /\ Len(c.elems) < Len(Elems[c.type])
         THEN <<Elems[c.type][Len(c.elems) + 1]>> ELSE <<>>

\* A call returns e to the innermost call of outer, or to valueEncoder.
Returned(p, outer, e) ==
    IF outer = <<>>
    THEN /\ building' = [building EXCEPT ![p] = <<>>]
         /\ got' = [got EXCEPT ![p] = <<e>>]
         /\ want' = [want EXCEPT ![p] = <<>>]
    ELSE /\ building' = [building EXCEPT ![p] =
                           [outer EXCEPT ![Len(outer)].elems = Append(@, e)]]
         /\ UNCHANGED <<got, want>>

---------------------------------------------------------------------------
(* valueEncoder's side: p takes what a call has returned and, when types   *)
(* is not empty, calls typeEncoder again.                                  *)

Use(p, types) ==
    /\ want[p] = <<>> /\ building[p] = <<>>
    /\ want' = [want EXCEPT ![p] = types]
    /\ got' = [got EXCEPT ![p] = <<>>]
    /\ UNCHANGED <<encoderCache, fieldCache, elemEncs, built, building>>

---------------------------------------------------------------------------
(* The steps of typeEncoder.  Each holds a lock for its length.            *)

\* encoderCache.m[t]
Lookup(p) ==
    /\ Wanted(p) # <<>>
    /\ LET T == Wanted(p)[1] IN
       IF T \in DOMAIN encoderCache THEN Returned(p, building[p], encoderCache[T])
       ELSE /\ building' = [building EXCEPT ![p] =
                              Append(@, [type |-> T, at |-> "publish", elems |-> <<>>])]
            /\ UNCHANGED <<got, want>>
    /\ UNCHANGED <<encoderCache, fieldCache, elemEncs, built>>

\* The waiting encoder replaces what is in the cache by now.
Publish(p) ==
    /\ BuildingAt(p, "publish")
    /\ Cached(Indirect(p, Innermost(p).type))
    /\ Goto(p, IF Innermost(p).type \in Struct THEN "fields" ELSE "elems")
    /\ UNCHANGED <<fieldCache, elemEncs, built, want, got>>

\* cachedTypeFields.  The value it loads first saves computing the fields,
\* which are those of the type, and storing them again.
Fields(p) ==
    /\ BuildingAt(p, "fields")
    /\ fieldCache' = fieldCache \cup {Innermost(p).type}
    /\ Goto(p, "elems")
    /\ UNCHANGED <<encoderCache, elemEncs, built, want, got>>

\* Mutant: the wait group is never done.
DoneMissing(p) ==
    /\ BuildingAt(p, "elems") /\ Wanted(p) = <<>>
    /\ MadeOf(p, Innermost(p).type, Innermost(p).elems)
    /\ Goto(p, "store")
    /\ UNCHANGED <<encoderCache, fieldCache, built, want, got>>

\* f is set, and what waits for it may go on.
Done(p) ==
    /\ BuildingAt(p, "elems") /\ Wanted(p) = <<>>
    /\ MadeOf(p, Innermost(p).type, Innermost(p).elems)
    /\ built' = built \cup {<<p, Innermost(p).type>>}
    /\ Goto(p, "store")
    /\ UNCHANGED <<encoderCache, fieldCache, want, got>>

\* Mutant: an encoder in the cache is not replaced.
StoreOnce(p) ==
    /\ BuildingAt(p, "store")
    /\ LET e == Direct(p, Innermost(p).type) IN
       /\ IF e.type \in DOMAIN encoderCache THEN UNCHANGED encoderCache ELSE Cached(e)
       /\ Returned(p, SubSeq(building[p], 1, Len(building[p]) - 1), e)
    /\ UNCHANGED <<fieldCache, elemEncs, built>>

\* The encoder replaces the waiting one, or another goroutine's.
Store(p) ==
    /\ BuildingAt(p, "store")
    /\ LET e == Direct(p, Innermost(p).type) IN
       /\ Cached(e)
       /\ Returned(p, SubSeq(building[p], 1, Len(building[p]) - 1), e)
    /\ UNCHANGED <<fieldCache, elemEncs, built>>

typeEncoder(p) ==
    Lookup(p) \/ Publish(p) \/ Fields(p) \/ Done(p) \/ Store(p)

CacheNext ==
    \E p \in Proc : typeEncoder(p) \/ \E types \in {<<>>} \cup {<<T>> : T \in Type} : Use(p, types)

CacheSpec == CacheInit /\ [][CacheNext]_cacheVars

---------------------------------------------------------------------------

\* The encoders that a goroutine has, or finds in one it calls.
InUse ==
    (UNION {Range(elemEncs[c]) : c \in built}) \cup (UNION {Range(got[p]) : p \in Proc})

\* Every encoder that can be called is built, or it waits for one that its
\* goroutine is still building; and the cache keeps one that waits only that
\* long, whoever replaced whose in between.
EncodersReady ==
    LET ready(e) == <<e.by, e.type>> \in built
        underway(e) == \E i \in DOMAIN building[e.by] : building[e.by][i].type = e.type
    IN  /\ \A e \in InUse : ready(e) \/ (e.waits /\ underway(e))
        /\ \A T \in DOMAIN encoderCache :
             /\ encoderCache[T].type = T
             /\ IF encoderCache[T].waits THEN underway(encoderCache[T]) ELSE ready(encoderCache[T])
=============================================================================
