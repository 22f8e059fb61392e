------------------------- MODULE EncoderCacheProofs -------------------------
(***************************************************************************)
(* Proof that the encoders of EncoderCache are ready or about to be, for   *)
(* any types, whatever they are made of, and any number of goroutines.     *)
(*                                                                         *)
(* EncodersReady is not inductive: it says nothing of the encoders that a  *)
(* call under way has collected, and of which its own encoder will be      *)
(* made, nor why an encoder that a finished call leaves behind is built.   *)
(***************************************************************************)
EXTENDS EncoderCache, SequenceTheorems, TLAPS

Frame == [type : Type, at : {"publish", "fields", "elems", "store"}, elems : Seq(Encoder)]

CacheTypeInv ==
    /\ DOMAIN encoderCache \subseteq Type
    /\ \A T \in DOMAIN encoderCache : encoderCache[T] \in Encoder
    /\ built \subseteq DOMAIN elemEncs
    /\ \A c \in built : elemEncs[c] \in Seq(Encoder)
    /\ building \in [Proc -> Seq(Frame)]
    /\ want \in [Proc -> Seq(Type)]
    /\ got \in [Proc -> Seq(Encoder)]

\* With S for building and B for built: p is building T; e can be called.
Building(S, p, T) == \E i \in DOMAIN S[p] : S[p][i].type = T
Usable(S, B, e) == <<e.by, e.type>> \in B \/ (e.waits /\ Building(S, e.by, e.type))

\* The cache's part of EncodersReady.
CacheInv ==
    \A T \in DOMAIN encoderCache :
       /\ encoderCache[T].type = T
       /\ IF encoderCache[T].waits THEN Building(building, encoderCache[T].by, T)
          ELSE <<encoderCache[T].by, T>> \in built
BuiltInv == \A c \in built : \A i \in DOMAIN elemEncs[c] : Usable(building, built, elemEncs[c][i])
GotInv == \A p \in Proc : \A i \in DOMAIN got[p] : Usable(building, built, got[p][i])
\* What the calls under way have collected, and when one is done.
FrameInv ==
    \A p \in Proc : \A i \in DOMAIN building[p] :
       /\ \A j \in DOMAIN building[p][i].elems : Usable(building, built, building[p][i].elems[j])
       /\ building[p][i].at = "store" => <<p, building[p][i].type>> \in built

IInv == CacheTypeInv /\ CacheInv /\ BuiltInv /\ GotInv /\ FrameInv

---------------------------------------------------------------------------
(* What the steps do to building.                                          *)

\* A call of typeEncoder that is under way has an innermost one.
LEMMA InnermostType ==
    ASSUME CacheTypeInv, NEW p \in Proc, building[p] # <<>>
    PROVE  /\ Len(building[p]) \in DOMAIN building[p]
           /\ Len(building[p]) \in Nat \ {0}
           /\ DOMAIN building[p] = 1..Len(building[p])
           /\ building[p] \in Seq(Frame)
           /\ Innermost(p) \in Frame
  BY DEF CacheTypeInv, Innermost

\* Goto changes where the innermost call is and nothing else.
LEMMA GotoKeeps ==
    ASSUME CacheTypeInv, NEW p \in Proc, building[p] # <<>>,
           NEW at \in {"publish", "fields", "elems", "store"}, Goto(p, at)
    PROVE  /\ building' \in [Proc -> Seq(Frame)]
           /\ \A q \in Proc : DOMAIN building'[q] = DOMAIN building[q]
           /\ \A q \in Proc : \A i \in DOMAIN building[q] :
                /\ building'[q][i].type = building[q][i].type
                /\ building'[q][i].elems = building[q][i].elems
                /\ \/ building'[q][i].at = building[q][i].at
                   \/ q = p /\ building'[q][i].at = at /\ building[q][i] = Innermost(p)
  <1> DEFINE n == Len(building[p])
             f == [building[p][n] EXCEPT !.at = at]
             s == [building[p] EXCEPT ![n] = f]
  <1>1. /\ n \in DOMAIN building[p] /\ building[p] \in Seq(Frame) /\ building[p][n] \in Frame
        /\ building \in [Proc -> Seq(Frame)]
    BY InnermostType DEF CacheTypeInv, Innermost
  <1>2. f \in Frame /\ f.type = building[p][n].type /\ f.elems = building[p][n].elems /\ f.at = at
    BY <1>1 DEF Frame
  <1>3. s \in Seq(Frame) /\ DOMAIN s = DOMAIN building[p]
    BY <1>1, <1>2, ExceptSeq
  <1>4. building' = [building EXCEPT ![p] = s]
    BY DEF Goto
  <1>5. building' \in [Proc -> Seq(Frame)]
    BY <1>1, <1>3, <1>4
  <1>6. /\ building'[p] = s
        /\ \A q \in Proc : q # p => building'[q] = building[q]
    BY <1>1, <1>4
  <1>7. \A i \in DOMAIN building[p] : s[i] = IF i = n THEN f ELSE building[p][i]
    BY <1>1, <1>3
  <1> HIDE DEF s, f
  <1> QED
    BY <1>2, <1>3, <1>5, <1>6, <1>7 DEF Innermost

\* The call below is given an encoder: outer is what is left of p's calls,
\* and its innermost collects e, or there is none and valueEncoder has e.
LEMMA ReturnedKeeps ==
    ASSUME CacheTypeInv, NEW p \in Proc, NEW outer \in Seq(Frame), NEW e \in Encoder,
           Returned(p, outer, e)
    PROVE  /\ building' \in [Proc -> Seq(Frame)]
           /\ want' \in [Proc -> Seq(Type)] /\ got' \in [Proc -> Seq(Encoder)]
           /\ \A q \in Proc : q # p => building'[q] = building[q]
           /\ DOMAIN building'[p] = DOMAIN outer
           /\ \A i \in DOMAIN outer :
                /\ building'[p][i].type = outer[i].type
                /\ building'[p][i].at = outer[i].at
                /\ \A j \in DOMAIN building'[p][i].elems :
                     \/ j \in DOMAIN outer[i].elems /\ building'[p][i].elems[j] = outer[i].elems[j]
                     \/ building'[p][i].elems[j] = e
           /\ \A q \in Proc : got'[q] = got[q] \/ got'[q] = <<e>>
  <1>0. /\ building \in [Proc -> Seq(Frame)] /\ want \in [Proc -> Seq(Type)]
        /\ got \in [Proc -> Seq(Encoder)]
    BY DEF CacheTypeInv
  <1>1. CASE outer = <<>>
    <2>1. /\ building' = [building EXCEPT ![p] = <<>>] /\ got' = [got EXCEPT ![p] = <<e>>]
          /\ want' = [want EXCEPT ![p] = <<>>]
      BY <1>1 DEF Returned
    <2>2. building' \in [Proc -> Seq(Frame)] /\ building'[p] = <<>>
      BY <1>0, <2>1
    <2>3. want' \in [Proc -> Seq(Type)] /\ got' \in [Proc -> Seq(Encoder)]
      BY <1>0, <2>1
    <2>4. DOMAIN outer = {}
      BY <1>1
    <2> QED
      BY <1>0, <1>1, <2>1, <2>2, <2>3, <2>4
  <1>2. CASE outer # <<>>
    <2> DEFINE n == Len(outer)
               more == Append(outer[n].elems, e)
               f == [outer[n] EXCEPT !.elems = more]
               s == [outer EXCEPT ![n] = f]
    <2>1. n \in Nat \ {0} /\ DOMAIN outer = 1..n /\ n \in 1..Len(outer)
      BY <1>2, EmptySeq
    <2>2. outer[n] \in Frame /\ outer[n].elems \in Seq(Encoder)
      <3>1. outer[n] \in Frame
        BY <2>1
      <3> QED  BY <3>1 DEF Frame
    <2>3. /\ more \in Seq(Encoder) /\ Len(more) = Len(outer[n].elems) + 1
          /\ \A j \in 1..Len(outer[n].elems) : more[j] = outer[n].elems[j]
          /\ more[Len(outer[n].elems) + 1] = e
      BY <2>2, AppendProperties
    <2>4. f \in Frame /\ f.type = outer[n].type /\ f.at = outer[n].at /\ f.elems = more
      <3> HIDE DEF more
      <3> QED  BY <2>2, <2>3 DEF Frame
    <2>5. /\ s \in Seq(Frame) /\ DOMAIN s = DOMAIN outer
          /\ \A i \in DOMAIN outer : s[i] = IF i = n THEN f ELSE outer[i]
      <3> HIDE DEF f
      <3> QED  BY <2>1, <2>4, ExceptSeq
    <2>6. building' = [building EXCEPT ![p] = s] /\ UNCHANGED <<got, want>>
      BY <1>2 DEF Returned
    <2>7. building' \in [Proc -> Seq(Frame)] /\ building'[p] = s
      BY <1>0, <2>5, <2>6
    <2>8. \A j \in DOMAIN more :
             \/ j \in DOMAIN outer[n].elems /\ more[j] = outer[n].elems[j]
             \/ more[j] = e
      <3>1. DOMAIN more = 1..Len(outer[n].elems) + 1 /\ Len(outer[n].elems) \in Nat
            /\ DOMAIN outer[n].elems = 1..Len(outer[n].elems)
        BY <2>2, <2>3
      <3> QED  BY <2>3, <3>1
    <2> HIDE DEF s, f, more
    <2> QED
      BY <1>0, <2>4, <2>5, <2>6, <2>7, <2>8
  <1> QED
    BY <1>1, <1>2

---------------------------------------------------------------------------
(* What stays usable.                                                      *)

\* The steps that end no call keep every encoder usable.
LEMMA UsableStays ==
    ASSUME NEW e \in Encoder, Usable(building, built, e), built \subseteq built',
           \A q \in Proc : \A T \in Type : Building(building, q, T) => Building(building', q, T)
    PROVE  Usable(building', built', e)
  BY DEF Usable, Encoder

\* An encoder that is in the cache can be called.
LEMMA CachedUsable ==
    ASSUME CacheTypeInv, CacheInv, NEW T \in DOMAIN encoderCache
    PROVE  encoderCache[T] \in Encoder /\ Usable(building, built, encoderCache[T])
  BY DEF CacheTypeInv, CacheInv, Usable

\* The encoders that are collected, or made of others, are encoders.
LEMMA UsedAreEncoders ==
    ASSUME CacheTypeInv
    PROVE  /\ \A c \in built : \A i \in DOMAIN elemEncs[c] : elemEncs[c][i] \in Encoder
           /\ \A p \in Proc : \A i \in DOMAIN got[p] : got[p][i] \in Encoder
           /\ \A p \in Proc : \A i \in DOMAIN building[p] :
                /\ building[p][i] \in Frame
                /\ \A j \in DOMAIN building[p][i].elems : building[p][i].elems[j] \in Encoder
  <1>1. \A c \in built : \A i \in DOMAIN elemEncs[c] : elemEncs[c][i] \in Encoder
    BY DEF CacheTypeInv
  <1>2. \A p \in Proc : \A i \in DOMAIN got[p] : got[p][i] \in Encoder
    <2> TAKE p \in Proc
    <2>1. got[p] \in Seq(Encoder)
      BY DEF CacheTypeInv
    <2> QED  BY <2>1
  <1>3. ASSUME NEW p \in Proc, NEW i \in DOMAIN building[p]
        PROVE  /\ building[p][i] \in Frame
               /\ \A j \in DOMAIN building[p][i].elems : building[p][i].elems[j] \in Encoder
    <2>1. building[p] \in Seq(Frame)
      BY DEF CacheTypeInv
    <2>2. building[p][i] \in Frame
      BY <2>1
    <2>3. building[p][i].elems \in Seq(Encoder)
      BY <2>2 DEF Frame
    <2> QED  BY <2>2, <2>3
  <1> QED  BY <1>1, <1>2, <1>3

---------------------------------------------------------------------------
(* The invariant.                                                          *)

LEMMA InitInv == CacheInit => IInv
  <1> SUFFICES ASSUME CacheInit PROVE IInv
    OBVIOUS
  <1>1. CacheTypeInv
    BY DEF CacheInit, CacheTypeInv
  <1>2. CacheInv /\ BuiltInv
    BY DEF CacheInit, CacheInv, BuiltInv
  <1>3. \A p \in Proc : DOMAIN got[p] = {} /\ DOMAIN building[p] = {}
    BY DEF CacheInit
  <1>4. GotInv /\ FrameInv
    BY <1>3 DEF GotInv, FrameInv
  <1> QED
    BY <1>1, <1>2, <1>4 DEF IInv

\* Goto with a step of its own on the cache: all but the cache and what is
\* built is as it was.
LEMMA GotoInv ==
    ASSUME IInv, NEW p \in Proc, building[p] # <<>>,
           NEW at \in {"publish", "fields", "elems", "store"}, Goto(p, at),
           built \subseteq built', UNCHANGED <<want, got>>,
           at = "store" => <<p, Innermost(p).type>> \in built'
    PROVE  /\ building' \in [Proc -> Seq(Frame)] /\ GotInv' /\ FrameInv'
           /\ \A q \in Proc : \A T \in Type : Building(building, q, T) => Building(building', q, T)
           /\ \A e \in Encoder : Usable(building, built, e) => Usable(building', built', e)
  <1>0. CacheTypeInv /\ CacheInv /\ BuiltInv /\ GotInv /\ FrameInv
    BY DEF IInv
  <1>1. /\ building' \in [Proc -> Seq(Frame)]
        /\ \A q \in Proc : DOMAIN building'[q] = DOMAIN building[q]
        /\ \A q \in Proc : \A i \in DOMAIN building[q] :
             /\ building'[q][i].type = building[q][i].type
             /\ building'[q][i].elems = building[q][i].elems
             /\ \/ building'[q][i].at = building[q][i].at
                \/ q = p /\ building'[q][i].at = at /\ building[q][i] = Innermost(p)
    BY <1>0, GotoKeeps
  <1>2. \A q \in Proc : \A T \in Type : Building(building, q, T) => Building(building', q, T)
    BY <1>1 DEF Building
  <1>3. \A e \in Encoder : Usable(building, built, e) => Usable(building', built', e)
    BY <1>2, UsableStays
  <1>4. GotInv'
    BY <1>0, <1>3, UsedAreEncoders DEF GotInv
  <1>5. ASSUME NEW q \in Proc, NEW i \in DOMAIN building[q]
        PROVE  /\ \A j \in DOMAIN building'[q][i].elems : Usable(building', built', building'[q][i].elems[j])
               /\ building'[q][i].at = "store" => <<q, building'[q][i].type>> \in built'
    <2>1. building'[q][i].type = building[q][i].type /\ building'[q][i].elems = building[q][i].elems
      BY <1>1
    <2>2. \A j \in DOMAIN building[q][i].elems :
             building[q][i].elems[j] \in Encoder /\ Usable(building, built, building[q][i].elems[j])
      BY <1>0, UsedAreEncoders DEF FrameInv
    <2>3. CASE building'[q][i].at = building[q][i].at
      BY <1>0, <1>3, <2>1, <2>2, <2>3 DEF FrameInv
    <2>4. CASE q = p /\ building'[q][i].at = at /\ building[q][i] = Innermost(p)
      BY <1>3, <2>1, <2>2, <2>4
    <2> QED  BY <1>1, <2>3, <2>4
  <1>6. FrameInv'
    BY <1>1, <1>5 DEF FrameInv
  <1> QED
    BY <1>1, <1>2, <1>3, <1>4, <1>6

\* A call that collects e, or hands it to valueEncoder, without ending.
LEMMA CollectInv ==
    ASSUME IInv, NEW p \in Proc, NEW e \in Encoder, Usable(building, built, e), Returned(p, building[p], e),
           UNCHANGED <<encoderCache, fieldCache, elemEncs, built>>
    PROVE  IInv'
  <1>0. CacheTypeInv /\ CacheInv /\ BuiltInv /\ GotInv /\ FrameInv /\ building[p] \in Seq(Frame)
    BY DEF IInv, CacheTypeInv
  <1>1. /\ building' \in [Proc -> Seq(Frame)]
        /\ want' \in [Proc -> Seq(Type)] /\ got' \in [Proc -> Seq(Encoder)]
        /\ \A q \in Proc : q # p => building'[q] = building[q]
        /\ DOMAIN building'[p] = DOMAIN building[p]
        /\ \A i \in DOMAIN building[p] :
             /\ building'[p][i].type = building[p][i].type
             /\ building'[p][i].at = building[p][i].at
             /\ \A j \in DOMAIN building'[p][i].elems :
                  \/ j \in DOMAIN building[p][i].elems
                       /\ building'[p][i].elems[j] = building[p][i].elems[j]
                  \/ building'[p][i].elems[j] = e
        /\ \A q \in Proc : got'[q] = got[q] \/ got'[q] = <<e>>
    BY <1>0, ReturnedKeeps
  <1>2. \A q \in Proc : \A T \in Type : Building(building, q, T) => Building(building', q, T)
    BY <1>1 DEF Building
  <1>3. \A f \in Encoder : Usable(building, built, f) => Usable(building', built', f)
    BY <1>2, UsableStays
  <1>4. CacheTypeInv'
    BY <1>0, <1>1 DEF CacheTypeInv
  <1>5. CacheInv'
    BY <1>0, <1>2 DEF CacheInv, CacheTypeInv, Encoder
  <1>6. BuiltInv'
    BY <1>0, <1>3, UsedAreEncoders DEF BuiltInv
  <1>7. GotInv'
    <2> SUFFICES ASSUME NEW q \in Proc, NEW i \in DOMAIN got'[q] PROVE Usable(building', built', got'[q][i])
      BY DEF GotInv
    <2>1. CASE got'[q] = got[q]
      BY <1>0, <1>3, <2>1, UsedAreEncoders DEF GotInv
    <2>2. CASE got'[q] = <<e>>
      BY <1>3, <2>2
    <2> QED  BY <1>1, <2>1, <2>2
  <1>8. FrameInv'
    <2>1. ASSUME NEW q \in Proc, q # p PROVE FrameInv!(q)'
      BY <1>0, <1>1, <1>3, <2>1, UsedAreEncoders DEF FrameInv
    <2>2. FrameInv!(p)'
      BY <1>0, <1>1, <1>3, UsedAreEncoders DEF FrameInv
    <2> QED  BY <2>1, <2>2 DEF FrameInv
  <1> QED
    BY <1>4, <1>5, <1>6, <1>7, <1>8 DEF IInv

LEMMA WantedType ==
    ASSUME CacheTypeInv, NEW p \in Proc, Wanted(p) # <<>>
    PROVE  Wanted(p)[1] \in Type
  <1>1. CASE building[p] = <<>>
    <2>1. Wanted(p) \in Seq(Type)
      BY <1>1 DEF Wanted, CacheTypeInv
    <2>2. Len(Wanted(p)) \in Nat \ {0}
      BY <2>1, EmptySeq
    <2> QED  BY <2>1, <2>2
  <1>2. CASE building[p] # <<>>
    <2> DEFINE c == Innermost(p)
    <2>1. c.type \in Type /\ c.elems \in Seq(Encoder)
      BY <1>2, InnermostType DEF Frame
    <2>2. Elems[c.type] \in Seq(Type)
      BY <2>1, CacheAssumption
    <2>3. /\ Wanted(p) = <<Elems[c.type][Len(c.elems) + 1]>>
          /\ Len(c.elems) < Len(Elems[c.type])
      BY <1>2 DEF Wanted
    <2>4. Len(c.elems) + 1 \in 1..Len(Elems[c.type])
      BY <2>1, <2>2, <2>3
    <2> QED  BY <2>2, <2>3, <2>4
  <1> QED  BY <1>1, <1>2

LEMMA UseInv ==
    ASSUME IInv, NEW p \in Proc, NEW types \in {<<>>} \cup {<<T>> : T \in Type}, Use(p, types)
    PROVE  IInv'
  <1>0. CacheTypeInv /\ CacheInv /\ BuiltInv /\ GotInv /\ FrameInv
    BY DEF IInv
  <1>1. CacheTypeInv'
    <2>1. types = <<>> \/ \E T \in Type : types = <<T>>
      OBVIOUS
    <2>2. <<>> \in Seq(Type) /\ \A T \in Type : <<T>> \in Seq(Type)
      OBVIOUS
    <2>3. types \in Seq(Type)
      BY <2>1, <2>2
    <2> QED  BY <1>0, <2>3 DEF CacheTypeInv, Use
  <1>2. CacheInv' /\ BuiltInv' /\ FrameInv'
    BY <1>0 DEF CacheInv, BuiltInv, FrameInv, Use
  <1>3. \A q \in Proc : got'[q] = got[q] \/ got'[q] = <<>>
    BY <1>0 DEF Use, CacheTypeInv
  <1>4. GotInv'
    <2> SUFFICES ASSUME NEW q \in Proc, NEW i \in DOMAIN got'[q]
                 PROVE  Usable(building', built', got'[q][i])
      BY DEF GotInv
    <2>1. building' = building /\ built' = built
      BY DEF Use
    <2>2. CASE got'[q] = <<>>
      BY <2>2
    <2>3. CASE got'[q] = got[q]
      BY <1>0, <2>1, <2>3 DEF GotInv
    <2> QED  BY <1>3, <2>2, <2>3
  <1> QED  BY <1>1, <1>2, <1>4 DEF IInv

LEMMA LookupInv ==
    ASSUME IInv, NEW p \in Proc, Lookup(p)
    PROVE  IInv'
  <1> DEFINE T == Wanted(p)[1]
  <1>0. CacheTypeInv /\ CacheInv /\ BuiltInv /\ GotInv /\ FrameInv
    BY DEF IInv
  <1>1. T \in Type /\ UNCHANGED <<encoderCache, fieldCache, elemEncs, built>>
    BY <1>0, WantedType DEF Lookup
  <1>2. CASE T \in DOMAIN encoderCache
    <2>1. Returned(p, building[p], encoderCache[T])
      BY <1>2 DEF Lookup
    <2>2. encoderCache[T] \in Encoder /\ Usable(building, built, encoderCache[T])
      BY <1>0, <1>2, CachedUsable
    <2> QED  BY <1>1, <2>1, <2>2, CollectInv
  <1>3. CASE T \notin DOMAIN encoderCache
    <2>1. [type |-> T, at |-> "publish", elems |-> <<>>] \in Frame
      <3>1. <<>> \in Seq(Encoder)
        OBVIOUS
      <3> QED  BY <1>1, <3>1 DEF Frame
    <2>2. PICK c \in Frame, s \in Seq(Frame) :
            /\ c.at = "publish" /\ DOMAIN c.elems = {}
            /\ s = Append(building[p], c) /\ building' = [building EXCEPT ![p] = s]
      <3>1. building[p] \in Seq(Frame)
        BY <1>0 DEF CacheTypeInv
      <3>2. building' = [building EXCEPT ![p] =
                           Append(building[p], [type |-> T, at |-> "publish", elems |-> <<>>])]
        BY <1>3 DEF Lookup
      <3>3. ASSUME NEW c \in Frame PROVE Append(building[p], c) \in Seq(Frame)
        BY <3>1
      <3> DEFINE c == [type |-> T, at |-> "publish", elems |-> <<>>]
      <3>4. c.at = "publish" /\ DOMAIN c.elems = {}
        OBVIOUS
      <3>5. c \in Frame /\ Append(building[p], c) \in Seq(Frame)
        BY <2>1, <3>3
      <3>6. building' = [building EXCEPT ![p] = Append(building[p], c)]
        BY <3>2
      <3> HIDE DEF c
      <3> QED  BY <3>4, <3>5, <3>6
    <2>3. UNCHANGED <<got, want>>
      BY <1>3 DEF Lookup
    <2>4. /\ building' \in [Proc -> Seq(Frame)]
          /\ \A q \in Proc : DOMAIN building[q] \subseteq DOMAIN building'[q]
          /\ \A q \in Proc : \A i \in DOMAIN building[q] : building'[q][i] = building[q][i]
          /\ \A q \in Proc : \A i \in DOMAIN building'[q] :
               i \in DOMAIN building[q] \/ building'[q][i] = c
      <3>1. building \in [Proc -> Seq(Frame)] /\ building[p] \in Seq(Frame)
        BY <1>0 DEF CacheTypeInv
      <3>2. /\ Len(s) = Len(building[p]) + 1 /\ s[Len(building[p]) + 1] = c
            /\ \A i \in 1..Len(building[p]) : s[i] = building[p][i]
        BY <2>2, <3>1, AppendProperties
      <3>3. building'[p] = s /\ \A q \in Proc : q # p => building'[q] = building[q]
        BY <2>2, <3>1
      <3>4. /\ DOMAIN s = 1..Len(building[p]) + 1 /\ DOMAIN building[p] = 1..Len(building[p])
            /\ Len(building[p]) \in Nat
        BY <2>2, <3>1, <3>2
      <3>5. building' \in [Proc -> Seq(Frame)]
        BY <2>2, <3>1
      <3>6. /\ DOMAIN building[p] \subseteq DOMAIN s
            /\ \A i \in DOMAIN building[p] : s[i] = building[p][i]
            /\ \A i \in DOMAIN s : i \in DOMAIN building[p] \/ s[i] = c
        BY <3>2, <3>4
      <3> QED  BY <3>3, <3>5, <3>6
    <2>5. \A q \in Proc : \A U \in Type : Building(building, q, U) => Building(building', q, U)
      BY <2>4 DEF Building
    <2>6. \A e \in Encoder : Usable(building, built, e) => Usable(building', built', e)
      BY <1>1, <2>5, UsableStays
    <2>7. CacheTypeInv'
      BY <1>0, <1>1, <2>3, <2>4 DEF CacheTypeInv
    <2>8. CacheInv'
      BY <1>0, <1>1, <2>5 DEF CacheInv, CacheTypeInv, Encoder
    <2>9. BuiltInv' /\ GotInv'
      BY <1>0, <1>1, <2>3, <2>6, UsedAreEncoders DEF BuiltInv, GotInv
    <2>10. FrameInv'
      <3>1. ASSUME NEW q \in Proc, NEW i \in DOMAIN building'[q]
            PROVE  /\ \A j \in DOMAIN building'[q][i].elems :
                        Usable(building', built', building'[q][i].elems[j])
                   /\ building'[q][i].at = "store" => <<q, building'[q][i].type>> \in built'
        <4>1. CASE i \in DOMAIN building[q]
          BY <1>0, <1>1, <2>4, <2>6, <4>1, UsedAreEncoders DEF FrameInv
        <4>2. CASE building'[q][i] = c
          BY <2>2, <4>2
        <4> QED  BY <2>4, <4>1, <4>2
      <3> QED  BY <3>1 DEF FrameInv
    <2> QED  BY <2>7, <2>8, <2>9, <2>10 DEF IInv
  <1> QED  BY <1>2, <1>3

LEMMA PublishInv ==
    ASSUME IInv, NEW p \in Proc, Publish(p)
    PROVE  IInv'
  <1> DEFINE T == Innermost(p).type
             e == Indirect(p, T)
             at == IF T \in Struct THEN "fields" ELSE "elems"
  <1>0. CacheTypeInv /\ CacheInv /\ BuiltInv /\ GotInv /\ FrameInv /\ building[p] # <<>>
    BY DEF IInv, Publish, BuildingAt
  <1>1. /\ Cached(e) /\ Goto(p, at) /\ at \in {"fields", "elems"}
        /\ UNCHANGED <<fieldCache, elemEncs, built, want, got>>
    BY DEF Publish
  <1>2. Innermost(p) \in Frame /\ Len(building[p]) \in DOMAIN building[p]
    BY <1>0, InnermostType
  <1>3. T \in Type /\ e \in Encoder /\ e.type = T /\ e.by = p /\ e.waits
    BY <1>2 DEF Frame, Encoder, Indirect
  <1>4. /\ building' \in [Proc -> Seq(Frame)] /\ GotInv' /\ FrameInv'
        /\ \A q \in Proc : \A U \in Type : Building(building, q, U) => Building(building', q, U)
        /\ \A f \in Encoder : Usable(building, built, f) => Usable(building', built', f)
    BY <1>0, <1>1, GotoInv
  <1>5. Building(building', p, T)
    BY <1>2, <1>3, <1>4 DEF Building, Innermost
  <1> HIDE DEF e, T, at
  <1>6. /\ DOMAIN encoderCache' = DOMAIN encoderCache \cup {T} /\ encoderCache'[T] = e
        /\ \A U \in DOMAIN encoderCache : U # T => encoderCache'[U] = encoderCache[U]
    BY <1>1, <1>3 DEF Cached
  <1>7. CacheTypeInv'
    BY <1>0, <1>1, <1>3, <1>4, <1>6 DEF CacheTypeInv
  <1>8. CacheInv'
    <2> SUFFICES ASSUME NEW U \in DOMAIN encoderCache' PROVE CacheInv!(U)'
      BY DEF CacheInv
    <2>1. CASE U = T
      BY <1>3, <1>5, <1>6, <2>1
    <2>2. CASE U # T
      BY <1>0, <1>1, <1>4, <1>6, <2>2 DEF CacheInv, CacheTypeInv, Encoder
    <2> QED  BY <2>1, <2>2
  <1>9. BuiltInv'
    BY <1>0, <1>1, <1>4, UsedAreEncoders DEF BuiltInv
  <1> QED
    BY <1>4, <1>7, <1>8, <1>9 DEF IInv

LEMMA FieldsInv ==
    ASSUME IInv, NEW p \in Proc, Fields(p)
    PROVE  IInv'
  <1>0. CacheTypeInv /\ CacheInv /\ BuiltInv /\ GotInv /\ FrameInv /\ building[p] # <<>>
    BY DEF IInv, Fields, BuildingAt
  <1>1. Goto(p, "elems") /\ UNCHANGED <<encoderCache, elemEncs, built, want, got>>
    BY DEF Fields
  <1>2. /\ building' \in [Proc -> Seq(Frame)] /\ GotInv' /\ FrameInv'
        /\ \A q \in Proc : \A U \in Type : Building(building, q, U) => Building(building', q, U)
        /\ \A f \in Encoder : Usable(building, built, f) => Usable(building', built', f)
    BY <1>0, <1>1, GotoInv
  <1>3. CacheTypeInv'
    BY <1>0, <1>1, <1>2 DEF CacheTypeInv
  <1>4. CacheInv'
    BY <1>0, <1>1, <1>2 DEF CacheInv, CacheTypeInv, Encoder
  <1>5. BuiltInv'
    BY <1>0, <1>1, <1>2, UsedAreEncoders DEF BuiltInv
  <1> QED
    BY <1>2, <1>3, <1>4, <1>5 DEF IInv

\* The encoder of the innermost call's type is made of what it collected.
LEMMA DoneInv ==
    ASSUME IInv, NEW p \in Proc, Done(p)
    PROVE  IInv'
  <1> DEFINE T == Innermost(p).type
             encs == Innermost(p).elems
  <1>0. CacheTypeInv /\ CacheInv /\ BuiltInv /\ GotInv /\ FrameInv /\ building[p] # <<>>
    BY DEF IInv, Done, BuildingAt
  <1>1. /\ Goto(p, "store") /\ MadeOf(p, T, encs) /\ built' = built \cup {<<p, T>>}
        /\ UNCHANGED <<encoderCache, fieldCache, want, got>>
    BY DEF Done
  <1>2. Innermost(p) \in Frame /\ Len(building[p]) \in DOMAIN building[p]
    BY <1>0, InnermostType
  <1>3. /\ T \in Type /\ encs \in Seq(Encoder)
        /\ \A j \in DOMAIN encs : encs[j] \in Encoder /\ Usable(building, built, encs[j])
    BY <1>0, <1>2, UsedAreEncoders DEF Frame, FrameInv, Innermost
  <1>4. /\ building' \in [Proc -> Seq(Frame)] /\ GotInv' /\ FrameInv'
        /\ \A q \in Proc : \A U \in Type : Building(building, q, U) => Building(building', q, U)
        /\ \A f \in Encoder : Usable(building, built, f) => Usable(building', built', f)
    BY <1>0, <1>1, GotoInv
  <1> HIDE DEF T, encs
  <1>5. /\ DOMAIN elemEncs' = DOMAIN elemEncs \cup {<<p, T>>} /\ elemEncs'[<<p, T>>] = encs
        /\ \A c \in DOMAIN elemEncs : c # <<p, T>> => elemEncs'[c] = elemEncs[c]
    BY <1>1 DEF MadeOf
  <1>6. \A c \in built' : c = <<p, T>> \/ (c \in built /\ elemEncs'[c] = elemEncs[c])
    BY <1>0, <1>1, <1>5 DEF CacheTypeInv
  <1>7. CacheTypeInv'
    <2>1. built' \subseteq DOMAIN elemEncs'
      BY <1>0, <1>1, <1>5 DEF CacheTypeInv
    <2>2. \A c \in built' : elemEncs'[c] \in Seq(Encoder)
      BY <1>0, <1>3, <1>5, <1>6 DEF CacheTypeInv
    <2> QED  BY <1>0, <1>1, <1>4, <2>1, <2>2 DEF CacheTypeInv
  <1>8. CacheInv'
    BY <1>0, <1>1, <1>4 DEF CacheInv, CacheTypeInv, Encoder
  <1>9. BuiltInv'
    <2> SUFFICES ASSUME NEW c \in built', NEW i \in DOMAIN elemEncs'[c]
                 PROVE  Usable(building', built', elemEncs'[c][i])
      BY DEF BuiltInv
    <2>1. CASE c = <<p, T>>
      BY <1>3, <1>4, <1>5, <2>1
    <2>2. CASE c \in built /\ elemEncs'[c] = elemEncs[c]
      BY <1>0, <1>4, <2>2, UsedAreEncoders DEF BuiltInv
    <2> QED  BY <1>6, <2>1, <2>2
  <1> QED
    BY <1>4, <1>7, <1>8, <1>9 DEF IInv

\* The innermost call ends.  What waited for it can be called because it is
\* built, and the cache no longer keeps the encoder that waits.
LEMMA StoreInv ==
    ASSUME IInv, NEW p \in Proc, Store(p)
    PROVE  IInv'
  <1> DEFINE T == Innermost(p).type
             n == Len(building[p])
             direct == Direct(p, T)
             left == SubSeq(building[p], 1, n - 1)
  <1>0. CacheTypeInv /\ CacheInv /\ BuiltInv /\ GotInv /\ FrameInv /\ building[p] # <<>>
    BY DEF IInv, Store, BuildingAt
  <1>1. /\ Cached(direct) /\ Returned(p, left, direct) /\ UNCHANGED <<fieldCache, elemEncs, built>>
        /\ Innermost(p).at = "store"
    BY DEF Store, BuildingAt
  <1>2. /\ Innermost(p) \in Frame /\ n \in DOMAIN building[p] /\ n \in Nat \ {0}
        /\ DOMAIN building[p] = 1..n /\ building[p] \in Seq(Frame)
    BY <1>0, InnermostType
  <1>3. /\ T \in Type /\ direct \in Encoder /\ direct.type = T /\ direct.by = p /\ ~direct.waits
        /\ T = building[p][n].type
    BY <1>2 DEF Frame, Encoder, Direct, Innermost
  <1>4. <<p, T>> \in built
    BY <1>0, <1>1, <1>2 DEF FrameInv, Innermost
  <1>5. /\ left \in Seq(Frame) /\ DOMAIN left = 1..(n - 1)
        /\ \A i \in 1..(n - 1) : left[i] = building[p][i]
    BY <1>2, SubSeqProperties
  <1> HIDE DEF T, direct, left, n
  <1>6. PICK outer \in Seq(Frame), e \in Encoder :
          /\ Cached(e) /\ Returned(p, outer, e) /\ e.type = T /\ e.by = p /\ ~e.waits
          /\ DOMAIN outer = 1..(n - 1) /\ \A i \in 1..(n - 1) : outer[i] = building[p][i]
    BY <1>1, <1>3, <1>5
  <1>7. /\ building' \in [Proc -> Seq(Frame)]
        /\ want' \in [Proc -> Seq(Type)] /\ got' \in [Proc -> Seq(Encoder)]
        /\ \A q \in Proc : q # p => building'[q] = building[q]
        /\ DOMAIN building'[p] = DOMAIN outer
        /\ \A i \in DOMAIN outer :
             /\ building'[p][i].type = outer[i].type
             /\ building'[p][i].at = outer[i].at
             /\ \A j \in DOMAIN building'[p][i].elems :
                  \/ j \in DOMAIN outer[i].elems /\ building'[p][i].elems[j] = outer[i].elems[j]
                  \/ building'[p][i].elems[j] = e
        /\ \A q \in Proc : got'[q] = got[q] \/ got'[q] = <<e>>
    <2>1. CacheTypeInv /\ Returned(p, outer, e)
      BY <1>0, <1>6
    <2>2. building' \in [Proc -> Seq(Frame)]
      BY <2>1, ReturnedKeeps
    <2>3. want' \in [Proc -> Seq(Type)] /\ got' \in [Proc -> Seq(Encoder)]
      BY <2>1, ReturnedKeeps
    <2>4. DOMAIN building'[p] = DOMAIN outer
      BY <2>1, ReturnedKeeps
    <2>5. \A i \in DOMAIN outer :
             /\ building'[p][i].type = outer[i].type
             /\ building'[p][i].at = outer[i].at
      BY <2>1, ReturnedKeeps
    <2>6. \A i \in DOMAIN outer :
              \A j \in DOMAIN building'[p][i].elems :
                  \/ j \in DOMAIN outer[i].elems /\ building'[p][i].elems[j] = outer[i].elems[j]
                  \/ building'[p][i].elems[j] = e
      BY <2>1, ReturnedKeeps
    <2>7. \A q \in Proc : q # p => building'[q] = building[q]
      BY <2>1, ReturnedKeeps
    <2>8. \A q \in Proc : got'[q] = got[q] \/ got'[q] = <<e>>
      BY <2>1, ReturnedKeeps
    <2> QED  BY <2>2, <2>3, <2>4, <2>5, <2>6, <2>7, <2>8
  <1>8. \A q \in Proc : \A U \in Type :
           Building(building, q, U) => Building(building', q, U) \/ (q = p /\ U = T)
    <2> SUFFICES ASSUME NEW q \in Proc, NEW U \in Type, NEW i \in DOMAIN building[q],
                        building[q][i].type = U, ~(q = p /\ U = T)
                 PROVE  Building(building', q, U)
      BY DEF Building
    <2>1. CASE q # p
      BY <1>7, <2>1 DEF Building
    <2>2. CASE q = p
      <3>1. i # n /\ i \in 1..(n - 1)
        BY <1>2, <1>3, <2>2
      <3> QED  BY <1>6, <1>7, <2>2, <3>1 DEF Building
    <2> QED  BY <2>1, <2>2
  <1>9. \A f \in Encoder : Usable(building, built, f) => Usable(building', built', f)
    BY <1>1, <1>4, <1>8 DEF Usable, Encoder
  <1>10. Usable(building', built', e)
    BY <1>1, <1>6, <1>4 DEF Usable
  <1>11. /\ DOMAIN encoderCache' = DOMAIN encoderCache \cup {T} /\ encoderCache'[T] = e
         /\ \A U \in DOMAIN encoderCache : U # T => encoderCache'[U] = encoderCache[U]
    BY <1>6 DEF Cached
  <1>12. CacheTypeInv'
    BY <1>0, <1>1, <1>3, <1>7, <1>11 DEF CacheTypeInv
  <1>13. CacheInv'
    <2> SUFFICES ASSUME NEW U \in DOMAIN encoderCache' PROVE CacheInv!(U)'
      BY DEF CacheInv
    <2>1. CASE U = T
      BY <1>1, <1>6, <1>4, <1>11, <2>1
    <2>2. CASE U # T
      BY <1>0, <1>1, <1>8, <1>11, <2>2 DEF CacheInv, CacheTypeInv, Encoder
    <2> QED  BY <2>1, <2>2
  <1>14. BuiltInv'
    BY <1>0, <1>1, <1>9, UsedAreEncoders DEF BuiltInv
  <1>15. GotInv'
    <2> SUFFICES ASSUME NEW q \in Proc, NEW i \in DOMAIN got'[q] PROVE Usable(building', built', got'[q][i])
      BY DEF GotInv
    <2>1. CASE got'[q] = got[q]
      BY <1>0, <1>9, <2>1, UsedAreEncoders DEF GotInv
    <2>2. CASE got'[q] = <<e>>
      BY <1>10, <2>2
    <2> QED  BY <1>7, <2>1, <2>2
  <1>16. FrameInv'
    <2>1. ASSUME NEW q \in Proc, q # p PROVE FrameInv!(q)'
      BY <1>0, <1>1, <1>7, <1>9, <2>1, UsedAreEncoders DEF FrameInv
    <2>2. ASSUME NEW i \in DOMAIN building'[p]
          PROVE  /\ \A j \in DOMAIN building'[p][i].elems :
                      Usable(building', built', building'[p][i].elems[j])
                 /\ building'[p][i].at = "store" => <<p, building'[p][i].type>> \in built'
      <3>1. i \in DOMAIN outer /\ i \in DOMAIN building[p] /\ outer[i] = building[p][i]
        BY <1>2, <1>6, <1>7
      <3>2. /\ \A j \in DOMAIN outer[i].elems :
                 outer[i].elems[j] \in Encoder /\ Usable(building, built, outer[i].elems[j])
            /\ outer[i].at = "store" => <<p, outer[i].type>> \in built
        BY <1>0, <3>1, UsedAreEncoders DEF FrameInv
      <3> QED  BY <1>1, <1>7, <1>9, <1>10, <3>1, <3>2
    <2> QED  BY <2>1, <2>2 DEF FrameInv
  <1> QED
    BY <1>12, <1>13, <1>14, <1>15, <1>16 DEF IInv

LEMMA StepInv == IInv /\ [CacheNext]_cacheVars => IInv'
  <1> SUFFICES ASSUME IInv, [CacheNext]_cacheVars PROVE IInv'
    OBVIOUS
  <1>1. ASSUME NEW p \in Proc, typeEncoder(p) PROVE IInv'
    BY <1>1, LookupInv, PublishInv, FieldsInv, DoneInv, StoreInv DEF typeEncoder
  <1>2. ASSUME NEW p \in Proc, NEW types \in {<<>>} \cup {<<T>> : T \in Type}, Use(p, types)
        PROVE  IInv'
    BY <1>2, UseInv
  <1>3. CASE UNCHANGED cacheVars
    <2>0. UNCHANGED <<encoderCache, fieldCache, elemEncs, built, building, want, got>>
      BY <1>3 DEF cacheVars
    <2>1. CacheTypeInv' /\ CacheInv'
      BY <2>0 DEF IInv, CacheTypeInv, CacheInv
    <2>2. BuiltInv' /\ GotInv' /\ FrameInv'
      BY <2>0 DEF IInv, BuiltInv, GotInv, FrameInv
    <2> QED  BY <2>1, <2>2 DEF IInv
  <1> QED
    BY <1>1, <1>2, <1>3 DEF CacheNext

---------------------------------------------------------------------------

\* Whatever the types are made of and however many goroutines build their
\* encoders at once, an encoder that a goroutine can call is built or waits
\* for one that is being built, and the cache keeps one that waits no longer
\* than that (typeEncoder).
THEOREM EncodersAreReady == CacheSpec => []EncodersReady
  <1>1. IInv => EncodersReady
    <2> SUFFICES ASSUME IInv PROVE EncodersReady
      OBVIOUS
    <2>1. CacheTypeInv /\ CacheInv /\ BuiltInv /\ GotInv
      BY DEF IInv
    <2>2. ASSUME NEW e \in InUse PROVE e \in Encoder /\ Usable(building, built, e)
      <3>1. CASE \E c \in built : e \in Range(elemEncs[c])
        <4>1. PICK c \in built : \E i \in DOMAIN elemEncs[c] : e = elemEncs[c][i]
          BY <3>1 DEF Range
        <4> QED  BY <2>1, <4>1, UsedAreEncoders DEF BuiltInv
      <3>2. CASE \E p \in Proc : e \in Range(got[p])
        <4>1. PICK p \in Proc : \E i \in DOMAIN got[p] : e = got[p][i]
          BY <3>2 DEF Range
        <4> QED  BY <2>1, <4>1, UsedAreEncoders DEF GotInv
      <3> QED  BY <3>1, <3>2 DEF InUse
    <2>3. \A T \in DOMAIN encoderCache : encoderCache[T] \in Encoder
      BY <2>1 DEF CacheTypeInv
    <2>4. ASSUME NEW T \in DOMAIN encoderCache
          PROVE  /\ encoderCache[T].type = T
                 /\ IF encoderCache[T].waits THEN Building(building, encoderCache[T].by, encoderCache[T].type)
                    ELSE <<encoderCache[T].by, encoderCache[T].type>> \in built
      BY <2>1 DEF CacheInv
    <2> QED
      BY <2>2, <2>4 DEF EncodersReady, Usable, Building
  <1> QED
    BY <1>1, InitInv, StepInv, PTL DEF CacheSpec
=============================================================================
