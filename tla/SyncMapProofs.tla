--------------------------- MODULE SyncMapProofs ---------------------------
(* Proofs about SyncMap, for any number of goroutines, keys, values and    *)
(* entries: its inductive invariant, and that it implements ConcurrentMap. *)
EXTENDS SyncMapRefinement, TLAPS

\* The arguments a call of each method has.
LEMMA CallArguments ==
    ASSUME NEW c \in Calls
    PROVE  /\ c \in [op : Ops, key : Key \cup {nil}, val : Value \cup {nil}]
           /\ c.op # "Range" => c.key \in Key
           /\ c.op \in {"Store", "LoadOrStore"} => c.val \in Value
BY DEF Calls

\* The typing parts of the control variables and of the fields of Map.
ControlOK ==
    /\ pc \in [Proc -> Labels]
    /\ ent \in [Proc -> Entry \cup {nil}]
    /\ old \in [Proc -> Value \cup {nil}]
    /\ ret \in [Proc -> [val : Value \cup {nil}, ok : BOOLEAN]]
FieldsOK ==
    /\ read \in [m : Maps, amended : BOOLEAN]
    /\ dirty \in Maps
    /\ dirtyNil \in BOOLEAN
    /\ misses \in Nat

LEMMA GotoType ==
    ASSUME NEW p \in Proc, pc \in [Proc -> Labels], NEW l \in Labels, Goto(p, l)
    PROVE  pc' \in [Proc -> Labels]
BY DEF Goto

LEMMA GotoWithType ==
    ASSUME NEW p \in Proc, ControlOK, NEW l \in Labels,
           NEW e \in Entry \cup {nil}, GotoWith(p, l, e)
    PROVE  pc' \in [Proc -> Labels] /\ ent' \in [Proc -> Entry \cup {nil}]
BY DEF Goto, GotoWith, ControlOK

LEMMA FinishType ==
    ASSUME NEW p \in Proc, ControlOK,
           NEW v \in Value \cup {nil}, NEW b \in BOOLEAN, Finish(p, Result(v, b))
    PROVE  ControlOK'
BY DEF Goto, GotoWith, Finish, ControlOK, Labels, Result

LEMMA PromoteType ==
    ASSUME FieldsOK, Promote
    PROVE  FieldsOK'
BY SMT DEF FieldsOK, Promote, Maps, NoKeys

LEMMA MissLockedType ==
    ASSUME FieldsOK, missLocked
    PROVE  FieldsOK'
<1>1. CASE misses + 1 < len(dirty)
  BY <1>1 DEF FieldsOK, missLocked
<1>2. CASE ~(misses + 1 < len(dirty))
  BY <1>2, PromoteType DEF missLocked
<1> QED BY <1>1, <1>2

LEMMA KeyCopiedType ==
    ASSUME TypeOK, NEW p \in Proc, NEW k \in Key, NEW e \in Entry \cup {nil},
           KeyCopied(p, k, e)
    PROVE  /\ dirty' \in Maps /\ todo' \in [Proc -> Maps]
           /\ pc' \in [Proc -> Labels] /\ ent' \in [Proc -> Entry \cup {nil}]
<1>1. dirty' \in Maps
  BY DEF KeyCopied, TypeOK, Maps
<1>2. todo' \in [Proc -> Maps]
  <2>1. todo[p] \in Maps
    BY DEF TypeOK
  <2>2. [todo[p] EXCEPT ![k] = nil] \in Maps
    BY <2>1 DEF Maps
  <2>3. todo' = [todo EXCEPT ![p] = [todo[p] EXCEPT ![k] = nil]]
    BY DEF KeyCopied, TypeOK
  <2> QED BY <2>2, <2>3 DEF TypeOK
<1>3. pc' \in [Proc -> Labels] /\ ent' \in [Proc -> Entry \cup {nil}]
  BY GotoWithType DEF KeyCopied, TypeOK, ControlOK, Labels
<1> QED BY <1>1, <1>2, <1>3

LEMMA AnswerType ==
    ASSUME TypeOK, NEW p \in Proc,
           NEW v \in Value \cup {nil}, NEW b \in BOOLEAN, Answer(p, Result(v, b))
    PROVE  ControlOK' /\ mu' \in Proc \cup {nil}
<1>0. ControlOK /\ "missLocked" \in Labels
  BY DEF TypeOK, ControlOK, Labels
<1>1. CASE mu = p /\ read.m[call[p].key] = nil
  <2>1. /\ GotoWith(p, "missLocked", nil)
        /\ old' = [old EXCEPT ![p] = nil]
        /\ ret' = [ret EXCEPT ![p] = Result(v, b)]
        /\ mu' = mu
    BY <1>1 DEF Answer
  <2>2. pc' \in [Proc -> Labels] /\ ent' \in [Proc -> Entry \cup {nil}]
    BY <1>0, <2>1, GotoWithType
  <2>3. ret' \in [Proc -> [val : Value \cup {nil}, ok : BOOLEAN]]
    BY <2>1 DEF TypeOK, Result
  <2>4. old' \in [Proc -> Value \cup {nil}] /\ mu' \in Proc \cup {nil}
    BY <2>1 DEF TypeOK
  <2> QED BY <2>2, <2>3, <2>4 DEF ControlOK
<1>2. CASE ~(mu = p /\ read.m[call[p].key] = nil)
  BY <1>2, FinishType DEF Answer, TypeOK, ControlOK
<1> QED BY <1>1, <1>2

LEMMA TypeInit == Init => TypeOK /\ Control
BY SyncMapAssumption DEF Init, TypeOK, Control, Maps, NoKeys, NoResult, Result, Gone, Labels

LEMMA TypeStep ==
    ASSUME TypeOK, Control, NEW p \in Proc, Invoke(p) \/ Step(p) \/ Return(p)
    PROVE  TypeOK'
<1> USE SyncMapAssumption DEF At, NoResult, shared, locals
<1>1. /\ call[p] # nil => call[p] \in Calls
      /\ call[p] # nil /\ call[p].op # "Range" => call[p].key \in Key
      /\ call[p] # nil /\ call[p].op \in {"Store", "LoadOrStore"} => call[p].val \in Value
  BY CallArguments DEF TypeOK
<1>2. /\ \A k \in Key : {read.m[k], dirty[k], todo[p][k]} \subseteq Entry \cup {nil}
      /\ ent[p] # nil => ent[p] \in Entry
      /\ ent[p] \in Entry => ptr[ent[p]] \in Value \cup Gone
  BY DEF TypeOK, Maps
<1>3. ControlOK /\ FieldsOK /\ old[p] \in Value \cup {nil}
  BY DEF TypeOK, ControlOK, FieldsOK
<1>4. CASE LoadRead(p)
  <2>1. ControlOK'
    BY <1>4, <1>1, <1>2, <1>3, GotoType, GotoWithType, FinishType DEF LoadRead, Control, ControlOK, Labels, Gone
  <2>2. FieldsOK'
    BY <1>4, <1>1, <1>2, <1>3 DEF LoadRead, Control, FieldsOK, Maps
  <2>3. /\ mu' \in Proc \cup {nil}
        /\ ptr' \in [Entry -> Value \cup Gone]
        /\ call' = call
    BY <1>4, <1>1, <1>3 DEF LoadRead, Control, TypeOK, Gone
  <2>4. todo' \in [Proc -> Maps] /\ visited' \in [Proc -> [Key -> Value \cup {nil}]]
    BY <1>4, <1>1, <1>2, <1>3 DEF LoadRead, TypeOK, Maps, NoKeys, FieldsOK
  <2> QED
    BY <2>1, <2>2, <2>3, <2>4 DEF TypeOK, ControlOK, FieldsOK
<1>5. CASE LoadLocked(p)
  <2>1. ControlOK'
    BY <1>5, <1>1, <1>2, <1>3, GotoType, GotoWithType, FinishType DEF LoadLocked, Control, ControlOK, Labels, Gone
  <2>2. FieldsOK'
    BY <1>5, <1>1, <1>2, <1>3, MissLockedType DEF LoadLocked, Control, FieldsOK, Maps
  <2>3. /\ mu' \in Proc \cup {nil}
        /\ ptr' \in [Entry -> Value \cup Gone]
        /\ call' = call
    BY <1>5, <1>1, <1>3, MissLockedType DEF LoadLocked, Control, TypeOK, Gone
  <2>4. todo' \in [Proc -> Maps] /\ visited' \in [Proc -> [Key -> Value \cup {nil}]]
    BY <1>5, <1>1, <1>2, <1>3, MissLockedType DEF LoadLocked, TypeOK, Maps, NoKeys, FieldsOK
  <2> QED
    BY <2>1, <2>2, <2>3, <2>4 DEF TypeOK, ControlOK, FieldsOK
<1>6. CASE EntryLoad(p)
  <2>1. ControlOK'
    BY <1>6, <1>1, <1>2, <1>3, GotoType, GotoWithType, FinishType DEF EntryLoad, Control, ControlOK, Labels, Gone
  <2>2. FieldsOK'
    BY <1>6, <1>1, <1>2, <1>3 DEF EntryLoad, Control, FieldsOK, Maps
  <2>3. /\ mu' \in Proc \cup {nil}
        /\ ptr' \in [Entry -> Value \cup Gone]
        /\ call' = call
    BY <1>6, <1>1, <1>3 DEF EntryLoad, Control, TypeOK, Gone
  <2>4. todo' \in [Proc -> Maps] /\ visited' \in [Proc -> [Key -> Value \cup {nil}]]
    BY <1>6, <1>1, <1>2, <1>3 DEF EntryLoad, TypeOK, Maps, NoKeys, FieldsOK
  <2> QED
    BY <2>1, <2>2, <2>3, <2>4 DEF TypeOK, ControlOK, FieldsOK
<1>7. CASE StoreRead(p)
  <2>1. ControlOK'
    BY <1>7, <1>1, <1>2, <1>3, GotoType, GotoWithType, FinishType DEF StoreRead, Control, ControlOK, Labels, Gone
  <2>2. FieldsOK'
    BY <1>7, <1>1, <1>2, <1>3 DEF StoreRead, Control, FieldsOK, Maps
  <2>3. /\ mu' \in Proc \cup {nil}
        /\ ptr' \in [Entry -> Value \cup Gone]
        /\ call' = call
    BY <1>7, <1>1, <1>3 DEF StoreRead, Control, TypeOK, Gone
  <2>4. todo' \in [Proc -> Maps] /\ visited' \in [Proc -> [Key -> Value \cup {nil}]]
    BY <1>7, <1>1, <1>2, <1>3 DEF StoreRead, TypeOK, Maps, NoKeys, FieldsOK
  <2> QED
    BY <2>1, <2>2, <2>3, <2>4 DEF TypeOK, ControlOK, FieldsOK
<1>8. CASE tryStoreLoad(p)
  <2>1. ControlOK'
    <3>1. CASE ptr[ent[p]] = expunged
      BY <1>8, <3>1, <1>3, GotoWithType DEF tryStoreLoad, ControlOK, Labels
    <3>2. CASE ptr[ent[p]] # expunged
      <4>1. Goto(p, "cas") /\ old' = [old EXCEPT ![p] = ptr[ent[p]]] /\ UNCHANGED <<ent, ret>>
        BY <1>8, <3>2 DEF tryStoreLoad
      <4>2. ptr[ent[p]] \in Value \cup {nil}
        BY <1>8, <3>2, <1>2 DEF tryStoreLoad, Control, Gone
      <4> QED
        BY <1>3, <4>1, <4>2, GotoType DEF ControlOK, Labels
    <3> QED BY <3>1, <3>2
  <2>2. FieldsOK'
    BY <1>8, <1>1, <1>2, <1>3 DEF tryStoreLoad, Control, FieldsOK, Maps
  <2>3. /\ mu' \in Proc \cup {nil}
        /\ ptr' \in [Entry -> Value \cup Gone]
        /\ call' = call
    BY <1>8, <1>1, <1>3 DEF tryStoreLoad, Control, TypeOK, Gone
  <2>4. todo' \in [Proc -> Maps] /\ visited' \in [Proc -> [Key -> Value \cup {nil}]]
    BY <1>8, <1>1, <1>2, <1>3 DEF tryStoreLoad, TypeOK, Maps, NoKeys, FieldsOK
  <2> QED
    BY <2>1, <2>2, <2>3, <2>4 DEF TypeOK, ControlOK, FieldsOK
<1>9. CASE tryStoreCAS(p)
  <2>1. ControlOK'
    BY <1>9, <1>1, <1>2, <1>3, GotoType, GotoWithType, FinishType DEF tryStoreCAS, Control, ControlOK, Labels, Gone
  <2>2. FieldsOK'
    BY <1>9, <1>1, <1>2, <1>3 DEF tryStoreCAS, Control, FieldsOK, Maps
  <2>3. /\ mu' \in Proc \cup {nil}
        /\ ptr' \in [Entry -> Value \cup Gone]
        /\ call' = call
    BY <1>9, <1>1, <1>3 DEF tryStoreCAS, Control, TypeOK, Gone
  <2>4. todo' \in [Proc -> Maps] /\ visited' \in [Proc -> [Key -> Value \cup {nil}]]
    BY <1>9, <1>1, <1>2, <1>3 DEF tryStoreCAS, TypeOK, Maps, NoKeys, FieldsOK
  <2> QED
    BY <2>1, <2>2, <2>3, <2>4 DEF TypeOK, ControlOK, FieldsOK
<1>10. CASE StoreLocked(p)
  <2>1. ControlOK'
    BY <1>10, <1>1, <1>2, <1>3, GotoType, GotoWithType, FinishType DEF StoreLocked, Control, ControlOK, Labels, Gone
  <2>2. FieldsOK'
    BY <1>10, <1>1, <1>2, <1>3 DEF StoreLocked, Control, FieldsOK, Maps
  <2>3. /\ mu' \in Proc \cup {nil}
        /\ ptr' \in [Entry -> Value \cup Gone]
        /\ call' = call
    BY <1>10, <1>1, <1>3 DEF StoreLocked, Control, TypeOK, Gone
  <2>4. todo' \in [Proc -> Maps] /\ visited' \in [Proc -> [Key -> Value \cup {nil}]]
    <3>1. visited' = visited /\ NoKeys \in Maps /\ read.m \in Maps
      BY <1>10 DEF StoreLocked, TypeOK, Maps, NoKeys
    <3>2. \/ todo' = todo
          \/ \E m \in {read.m, NoKeys} : todo' = [todo EXCEPT ![p] = m]
      BY <1>10 DEF StoreLocked
    <3>3. CASE todo' = todo
      BY <3>1, <3>3 DEF TypeOK
    <3>4. ASSUME NEW m \in Maps, todo' = [todo EXCEPT ![p] = m]
          PROVE  todo' \in [Proc -> Maps]
      BY <3>4 DEF TypeOK
    <3> QED
      BY <3>1, <3>2, <3>3, <3>4 DEF TypeOK
  <2> QED
    BY <2>1, <2>2, <2>3, <2>4 DEF TypeOK, ControlOK, FieldsOK
<1>11. CASE unexpungeLocked(p)
  <2>1. ControlOK'
    BY <1>11, <1>1, <1>2, <1>3, GotoType, GotoWithType, FinishType DEF unexpungeLocked, Control, ControlOK, Labels, Gone
  <2>2. FieldsOK'
    BY <1>11, <1>1, <1>2, <1>3 DEF unexpungeLocked, Control, FieldsOK, Maps
  <2>3. /\ mu' \in Proc \cup {nil}
        /\ ptr' \in [Entry -> Value \cup Gone]
        /\ call' = call
    BY <1>11, <1>1, <1>3 DEF unexpungeLocked, Control, TypeOK, Gone
  <2>4. todo' \in [Proc -> Maps] /\ visited' \in [Proc -> [Key -> Value \cup {nil}]]
    BY <1>11, <1>1, <1>2, <1>3 DEF unexpungeLocked, TypeOK, Maps, NoKeys, FieldsOK
  <2> QED
    BY <2>1, <2>2, <2>3, <2>4 DEF TypeOK, ControlOK, FieldsOK
<1>12. CASE storeLocked(p)
  <2>1. ControlOK'
    BY <1>12, <1>1, <1>2, <1>3, GotoType, GotoWithType, FinishType DEF storeLocked, Control, ControlOK, Labels, Gone
  <2>2. FieldsOK'
    BY <1>12, <1>1, <1>2, <1>3 DEF storeLocked, Control, FieldsOK, Maps
  <2>3. /\ mu' \in Proc \cup {nil}
        /\ ptr' \in [Entry -> Value \cup Gone]
        /\ call' = call
    BY <1>12, <1>1, <1>3 DEF storeLocked, Control, TypeOK, Gone
  <2>4. todo' \in [Proc -> Maps] /\ visited' \in [Proc -> [Key -> Value \cup {nil}]]
    BY <1>12, <1>1, <1>2, <1>3 DEF storeLocked, TypeOK, Maps, NoKeys, FieldsOK
  <2> QED
    BY <2>1, <2>2, <2>3, <2>4 DEF TypeOK, ControlOK, FieldsOK
<1>13. CASE tryExpungeLoad(p)
  <2>1. ControlOK'
    BY <1>13, <1>1, <1>2, <1>3, GotoType, GotoWithType, FinishType, KeyCopiedType DEF tryExpungeLoad, Control, ControlOK, Labels, Gone
  <2>2. FieldsOK'
    BY <1>13, <1>1, <1>2, <1>3, KeyCopiedType DEF tryExpungeLoad, Control, FieldsOK, Maps
  <2>3. /\ mu' \in Proc \cup {nil}
        /\ ptr' \in [Entry -> Value \cup Gone]
        /\ call' = call
    BY <1>13, <1>1, <1>3, KeyCopiedType DEF tryExpungeLoad, Control, TypeOK, Gone
  <2>4. todo' \in [Proc -> Maps] /\ visited' \in [Proc -> [Key -> Value \cup {nil}]]
    BY <1>13, <1>1, <1>2, <1>3, KeyCopiedType DEF tryExpungeLoad, TypeOK, Maps, NoKeys, FieldsOK
  <2> QED
    BY <2>1, <2>2, <2>3, <2>4 DEF TypeOK, ControlOK, FieldsOK
<1>14. CASE tryExpungeCAS(p)
  <2>1. ControlOK'
    BY <1>14, <1>1, <1>2, <1>3, GotoType, GotoWithType, FinishType, KeyCopiedType DEF tryExpungeCAS, Control, ControlOK, Labels, Gone
  <2>2. FieldsOK'
    BY <1>14, <1>1, <1>2, <1>3, KeyCopiedType DEF tryExpungeCAS, Control, FieldsOK, Maps
  <2>3. /\ mu' \in Proc \cup {nil}
        /\ ptr' \in [Entry -> Value \cup Gone]
        /\ call' = call
    BY <1>14, <1>1, <1>3, KeyCopiedType DEF tryExpungeCAS, Control, TypeOK, Gone
  <2>4. todo' \in [Proc -> Maps] /\ visited' \in [Proc -> [Key -> Value \cup {nil}]]
    BY <1>14, <1>1, <1>2, <1>3, KeyCopiedType DEF tryExpungeCAS, TypeOK, Maps, NoKeys, FieldsOK
  <2> QED
    BY <2>1, <2>2, <2>3, <2>4 DEF TypeOK, ControlOK, FieldsOK
<1>15. CASE Insert(p)
  <2>1. ControlOK'
    BY <1>15, <1>1, <1>2, <1>3, GotoType, GotoWithType, FinishType DEF Insert, Control, ControlOK, Labels, Gone
  <2>2. FieldsOK'
    <3>1. PICK e \in Entry : dirty' = [dirty EXCEPT ![call[p].key] = e]
      BY <1>15 DEF Insert
    <3>2. dirty' \in Maps
      BY <3>1 DEF TypeOK, Maps
    <3>3. read' \in [m : Maps, amended : BOOLEAN] /\ UNCHANGED <<dirtyNil, misses>>
      BY <1>15 DEF Insert, TypeOK
    <3> QED
      BY <3>2, <3>3, <1>3 DEF FieldsOK
  <2>3. /\ mu' \in Proc \cup {nil}
        /\ ptr' \in [Entry -> Value \cup Gone]
        /\ call' = call
    BY <1>15, <1>1, <1>3 DEF Insert, Control, TypeOK, Gone
  <2>4. todo' \in [Proc -> Maps] /\ visited' \in [Proc -> [Key -> Value \cup {nil}]]
    BY <1>15, <1>1, <1>2, <1>3 DEF Insert, TypeOK, Maps, NoKeys, FieldsOK
  <2> QED
    BY <2>1, <2>2, <2>3, <2>4 DEF TypeOK, ControlOK, FieldsOK
<1>16. CASE tryLoadOrStoreLoad(p)
  <2>1. ControlOK'
    BY <1>16, <1>1, <1>2, <1>3, GotoType, GotoWithType, FinishType, AnswerType DEF tryLoadOrStoreLoad, Control, ControlOK, Labels, Gone
  <2>2. FieldsOK'
    BY <1>16, <1>1, <1>2, <1>3, AnswerType DEF tryLoadOrStoreLoad, Control, FieldsOK, Maps
  <2>3. /\ mu' \in Proc \cup {nil}
        /\ ptr' \in [Entry -> Value \cup Gone]
        /\ call' = call
    BY <1>16, <1>1, <1>3, AnswerType DEF tryLoadOrStoreLoad, Control, TypeOK, Gone
  <2>4. todo' \in [Proc -> Maps] /\ visited' \in [Proc -> [Key -> Value \cup {nil}]]
    BY <1>16, <1>1, <1>2, <1>3, AnswerType DEF tryLoadOrStoreLoad, TypeOK, Maps, NoKeys, FieldsOK
  <2> QED
    BY <2>1, <2>2, <2>3, <2>4 DEF TypeOK, ControlOK, FieldsOK
<1>17. CASE tryLoadOrStoreCAS(p)
  <2>1. ControlOK'
    BY <1>17, <1>1, <1>2, <1>3, GotoType, GotoWithType, FinishType, AnswerType DEF tryLoadOrStoreCAS, Control, ControlOK, Labels, Gone
  <2>2. FieldsOK'
    BY <1>17, <1>1, <1>2, <1>3, AnswerType DEF tryLoadOrStoreCAS, Control, FieldsOK, Maps
  <2>3. /\ mu' \in Proc \cup {nil}
        /\ ptr' \in [Entry -> Value \cup Gone]
        /\ call' = call
    BY <1>17, <1>1, <1>3, AnswerType DEF tryLoadOrStoreCAS, Control, TypeOK, Gone
  <2>4. todo' \in [Proc -> Maps] /\ visited' \in [Proc -> [Key -> Value \cup {nil}]]
    BY <1>17, <1>1, <1>2, <1>3, AnswerType DEF tryLoadOrStoreCAS, TypeOK, Maps, NoKeys, FieldsOK
  <2> QED
    BY <2>1, <2>2, <2>3, <2>4 DEF TypeOK, ControlOK, FieldsOK
<1>18. CASE LoadOrStoreMiss(p)
  <2>1. ControlOK'
    BY <1>18, <1>1, <1>2, <1>3, GotoType, GotoWithType, FinishType DEF LoadOrStoreMiss, Control, ControlOK, Labels, Gone
  <2>2. FieldsOK'
    BY <1>18, <1>1, <1>2, <1>3, MissLockedType DEF LoadOrStoreMiss, Control, FieldsOK, Maps
  <2>3. /\ mu' \in Proc \cup {nil}
        /\ ptr' \in [Entry -> Value \cup Gone]
        /\ call' = call
    BY <1>18, <1>1, <1>3, MissLockedType DEF LoadOrStoreMiss, Control, TypeOK, Gone
  <2>4. todo' \in [Proc -> Maps] /\ visited' \in [Proc -> [Key -> Value \cup {nil}]]
    BY <1>18, <1>1, <1>2, <1>3, MissLockedType DEF LoadOrStoreMiss, TypeOK, Maps, NoKeys, FieldsOK
  <2> QED
    BY <2>1, <2>2, <2>3, <2>4 DEF TypeOK, ControlOK, FieldsOK
<1>19. CASE DeleteRead(p)
  <2>1. ControlOK'
    BY <1>19, <1>1, <1>2, <1>3, GotoType, GotoWithType, FinishType DEF DeleteRead, Control, ControlOK, Labels, Gone
  <2>2. FieldsOK'
    BY <1>19, <1>1, <1>2, <1>3 DEF DeleteRead, Control, FieldsOK, Maps
  <2>3. /\ mu' \in Proc \cup {nil}
        /\ ptr' \in [Entry -> Value \cup Gone]
        /\ call' = call
    BY <1>19, <1>1, <1>3 DEF DeleteRead, Control, TypeOK, Gone
  <2>4. todo' \in [Proc -> Maps] /\ visited' \in [Proc -> [Key -> Value \cup {nil}]]
    BY <1>19, <1>1, <1>2, <1>3 DEF DeleteRead, TypeOK, Maps, NoKeys, FieldsOK
  <2> QED
    BY <2>1, <2>2, <2>3, <2>4 DEF TypeOK, ControlOK, FieldsOK
<1>20. CASE DeleteLocked(p)
  <2>1. ControlOK'
    BY <1>20, <1>1, <1>2, <1>3, GotoType, GotoWithType, FinishType DEF DeleteLocked, Control, ControlOK, Labels, Gone
  <2>2. FieldsOK'
    BY <1>20, <1>1, <1>2, <1>3 DEF DeleteLocked, Control, FieldsOK, Maps
  <2>3. /\ mu' \in Proc \cup {nil}
        /\ ptr' \in [Entry -> Value \cup Gone]
        /\ call' = call
    BY <1>20, <1>1, <1>3 DEF DeleteLocked, Control, TypeOK, Gone
  <2>4. todo' \in [Proc -> Maps] /\ visited' \in [Proc -> [Key -> Value \cup {nil}]]
    BY <1>20, <1>1, <1>2, <1>3 DEF DeleteLocked, TypeOK, Maps, NoKeys, FieldsOK
  <2> QED
    BY <2>1, <2>2, <2>3, <2>4 DEF TypeOK, ControlOK, FieldsOK
<1>21. CASE deleteLoad(p)
  <2>1. ControlOK'
    BY <1>21, <1>1, <1>2, <1>3, GotoType, GotoWithType, FinishType DEF deleteLoad, Control, ControlOK, Labels, Gone
  <2>2. FieldsOK'
    BY <1>21, <1>1, <1>2, <1>3 DEF deleteLoad, Control, FieldsOK, Maps
  <2>3. /\ mu' \in Proc \cup {nil}
        /\ ptr' \in [Entry -> Value \cup Gone]
        /\ call' = call
    BY <1>21, <1>1, <1>3 DEF deleteLoad, Control, TypeOK, Gone
  <2>4. todo' \in [Proc -> Maps] /\ visited' \in [Proc -> [Key -> Value \cup {nil}]]
    BY <1>21, <1>1, <1>2, <1>3 DEF deleteLoad, TypeOK, Maps, NoKeys, FieldsOK
  <2> QED
    BY <2>1, <2>2, <2>3, <2>4 DEF TypeOK, ControlOK, FieldsOK
<1>22. CASE deleteCAS(p)
  <2>1. ControlOK'
    <3>1. CASE ptr[ent[p]] = old[p]
      BY <1>22, <3>1, <1>3, FinishType DEF deleteCAS
    <3>2. CASE ptr[ent[p]] # old[p]
      BY <1>22, <3>2, <1>3, GotoType DEF deleteCAS, ControlOK, Labels
    <3> QED BY <3>1, <3>2
  <2>2. FieldsOK'
    BY <1>22, <1>1, <1>2, <1>3 DEF deleteCAS, Control, FieldsOK, Maps
  <2>3. /\ mu' \in Proc \cup {nil}
        /\ ptr' \in [Entry -> Value \cup Gone]
        /\ call' = call
    BY <1>22, <1>1, <1>3 DEF deleteCAS, Control, TypeOK, Gone
  <2>4. todo' \in [Proc -> Maps] /\ visited' \in [Proc -> [Key -> Value \cup {nil}]]
    BY <1>22, <1>1, <1>2, <1>3 DEF deleteCAS, TypeOK, Maps, NoKeys, FieldsOK
  <2> QED
    BY <2>1, <2>2, <2>3, <2>4 DEF TypeOK, ControlOK, FieldsOK
<1>23. CASE RangeRead(p)
  <2>1. ControlOK'
    BY <1>23, <1>1, <1>2, <1>3, GotoType, GotoWithType, FinishType DEF RangeRead, Control, ControlOK, Labels, Gone
  <2>2. FieldsOK'
    BY <1>23, <1>1, <1>2, <1>3 DEF RangeRead, Control, FieldsOK, Maps
  <2>3. /\ mu' \in Proc \cup {nil}
        /\ ptr' \in [Entry -> Value \cup Gone]
        /\ call' = call
    BY <1>23, <1>1, <1>3 DEF RangeRead, Control, TypeOK, Gone
  <2>4. todo' \in [Proc -> Maps] /\ visited' \in [Proc -> [Key -> Value \cup {nil}]]
    BY <1>23, <1>1, <1>2, <1>3 DEF RangeRead, TypeOK, Maps, NoKeys, FieldsOK
  <2> QED
    BY <2>1, <2>2, <2>3, <2>4 DEF TypeOK, ControlOK, FieldsOK
<1>24. CASE RangeLocked(p)
  <2>1. ControlOK'
    BY <1>24, <1>1, <1>2, <1>3, GotoType, GotoWithType, FinishType DEF RangeLocked, Control, ControlOK, Labels, Gone
  <2>2. FieldsOK'
    BY <1>24, <1>1, <1>2, <1>3, PromoteType DEF RangeLocked, Control, FieldsOK, Maps
  <2>3. /\ mu' \in Proc \cup {nil}
        /\ ptr' \in [Entry -> Value \cup Gone]
        /\ call' = call
    BY <1>24, <1>1, <1>3, PromoteType DEF RangeLocked, Control, TypeOK, Gone
  <2>4. todo' \in [Proc -> Maps] /\ visited' \in [Proc -> [Key -> Value \cup {nil}]]
    BY <1>24, <1>1, <1>2, <1>3, PromoteType DEF RangeLocked, TypeOK, Maps, NoKeys, FieldsOK
  <2> QED
    BY <2>1, <2>2, <2>3, <2>4 DEF TypeOK, ControlOK, FieldsOK
<1>25. CASE RangeStep(p)
  <2>1. ControlOK'
    BY <1>25, <1>1, <1>2, <1>3, GotoType, GotoWithType, FinishType DEF RangeStep, Control, ControlOK, Labels, Gone
  <2>2. FieldsOK'
    BY <1>25, <1>1, <1>2, <1>3 DEF RangeStep, Control, FieldsOK, Maps
  <2>3. /\ mu' \in Proc \cup {nil}
        /\ ptr' \in [Entry -> Value \cup Gone]
        /\ call' = call
    BY <1>25, <1>1, <1>3 DEF RangeStep, Control, TypeOK, Gone
  <2>4. todo' \in [Proc -> Maps] /\ visited' \in [Proc -> [Key -> Value \cup {nil}]]
    <3>1. PICK k \in Key :
            /\ todo[p][k] # nil
            /\ \/ todo' = [todo EXCEPT ![p][k] = nil]
               \/ todo' = [todo EXCEPT ![p] = NoKeys]
            /\ \/ visited' = visited
               \/ /\ ptr[todo[p][k]] \notin Gone
                  /\ visited' = [visited EXCEPT ![p][k] = ptr[todo[p][k]]]
      BY <1>25 DEF RangeStep
    <3>2. todo[p] \in Maps /\ NoKeys \in Maps
      BY DEF TypeOK, Maps, NoKeys
    <3>3. [todo[p] EXCEPT ![k] = nil] \in Maps
      BY <3>2 DEF Maps
    <3>4. todo' \in [Proc -> Maps]
      BY <3>1, <3>2, <3>3 DEF TypeOK
    <3>5. ptr[todo[p][k]] \in Value \cup Gone
      BY <1>2, <3>1 DEF TypeOK
    <3>6. visited[p] \in [Key -> Value \cup {nil}]
      BY DEF TypeOK
    <3>7. ptr[todo[p][k]] \notin Gone =>
            [visited[p] EXCEPT ![k] = ptr[todo[p][k]]] \in [Key -> Value \cup {nil}]
      BY <3>5, <3>6 DEF Gone
    <3>8. visited' \in [Proc -> [Key -> Value \cup {nil}]]
      BY <3>1, <3>7 DEF TypeOK
    <3> QED BY <3>4, <3>8
  <2> QED
    BY <2>1, <2>2, <2>3, <2>4 DEF TypeOK, ControlOK, FieldsOK
<1>26. CASE RangeEnd(p)
  <2>1. ControlOK'
    BY <1>26, <1>1, <1>2, <1>3, GotoType, GotoWithType, FinishType DEF RangeEnd, Control, ControlOK, Labels, Gone
  <2>2. FieldsOK'
    BY <1>26, <1>1, <1>2, <1>3 DEF RangeEnd, Control, FieldsOK, Maps
  <2>3. /\ mu' \in Proc \cup {nil}
        /\ ptr' \in [Entry -> Value \cup Gone]
        /\ call' = call
    BY <1>26, <1>1, <1>3 DEF RangeEnd, Control, TypeOK, Gone
  <2>4. todo' \in [Proc -> Maps] /\ visited' \in [Proc -> [Key -> Value \cup {nil}]]
    BY <1>26, <1>1, <1>2, <1>3 DEF RangeEnd, TypeOK, Maps, NoKeys, FieldsOK
  <2> QED
    BY <2>1, <2>2, <2>3, <2>4 DEF TypeOK, ControlOK, FieldsOK
<1>27. CASE Invoke(p)
  BY <1>27 DEF Invoke, Goto, TypeOK, Labels
<1>28. CASE Return(p)
  BY <1>28, SMTT(30) DEF Return, Goto, TypeOK, Labels, NoKeys, Result
<1> QED
  BY <1>4, <1>5, <1>6, <1>7, <1>8, <1>9, <1>10, <1>11, <1>12, <1>13, <1>14, <1>15, <1>16, <1>17, <1>18, <1>19, <1>20, <1>21, <1>22, <1>23, <1>24, <1>25, <1>26, <1>27, <1>28 DEF Step
-----------------------------------------------------------------------------
\* What a step of p leaves of the other goroutines' local state.
Frame(p) ==
    /\ call' = call
    /\ \A q \in Proc \ {p} :
         /\ pc'[q] = pc[q] /\ ent'[q] = ent[q]
         /\ old'[q] = old[q] /\ todo'[q] = todo[q]

LEMMA GotoValue ==
    ASSUME TypeOK, NEW p \in Proc, NEW l, Goto(p, l)
    PROVE  pc'[p] = l /\ \A q \in Proc \ {p} : pc'[q] = pc[q]
BY DEF Goto, TypeOK

LEMMA GotoWithValue ==
    ASSUME TypeOK, NEW p \in Proc, NEW l, NEW e, GotoWith(p, l, e)
    PROVE  /\ pc'[p] = l /\ \A q \in Proc \ {p} : pc'[q] = pc[q]
           /\ ent'[p] = e /\ \A q \in Proc \ {p} : ent'[q] = ent[q]
BY DEF GotoWith, Goto, TypeOK

LEMMA FinishValue ==
    ASSUME TypeOK, NEW p \in Proc, NEW r, Finish(p, r)
    PROVE  /\ pc'[p] = "ret" /\ \A q \in Proc \ {p} : pc'[q] = pc[q]
           /\ ent'[p] = nil /\ \A q \in Proc \ {p} : ent'[q] = ent[q]
           /\ \A q \in Proc \ {p} : old'[q] = old[q]
<1>1. GotoWith(p, "ret", nil) /\ old' = [old EXCEPT ![p] = nil]
  BY DEF Finish
<1> QED BY <1>1, GotoWithValue DEF TypeOK

LEMMA KeyCopiedValue ==
    ASSUME TypeOK, NEW p \in Proc, NEW k \in Key, NEW e, KeyCopied(p, k, e)
    PROVE  /\ pc'[p] = "newKey" /\ \A q \in Proc \ {p} : pc'[q] = pc[q]
           /\ ent'[p] = nil /\ \A q \in Proc \ {p} : ent'[q] = ent[q]
           /\ \A q \in Proc \ {p} : todo'[q] = todo[q]
           /\ todo'[p][k] = nil /\ \A j \in Key \ {k} : todo'[p][j] = todo[p][j]
           /\ dirty'[k] = e /\ \A j \in Key \ {k} : dirty'[j] = dirty[j]
<1>1. /\ GotoWith(p, "newKey", nil)
      /\ dirty' = [dirty EXCEPT ![k] = e]
      /\ todo' = [todo EXCEPT ![p][k] = nil]
  BY DEF KeyCopied
<1>2. todo[p] \in [Key -> Entry \cup {nil}] /\ dirty \in [Key -> Entry \cup {nil}]
  BY DEF TypeOK, Maps
<1>3. todo'[p] = [todo[p] EXCEPT ![k] = nil] /\ \A q \in Proc \ {p} : todo'[q] = todo[q]
  BY <1>1 DEF TypeOK
<1> QED BY <1>1, <1>2, <1>3, GotoWithValue

LEMMA AnswerValue ==
    ASSUME TypeOK, NEW p \in Proc, NEW r, Answer(p, r)
    PROVE  /\ pc'[p] = IF mu = p /\ read.m[call[p].key] = nil
                       THEN "missLocked" ELSE "ret"
           /\ mu' = IF mu = p /\ read.m[call[p].key] # nil THEN nil ELSE mu
           /\ ent'[p] = nil
           /\ \A q \in Proc \ {p} :
                pc'[q] = pc[q] /\ ent'[q] = ent[q] /\ old'[q] = old[q]
<1>1. CASE mu = p /\ read.m[call[p].key] = nil
  <2>1. GotoWith(p, "missLocked", nil) /\ old' = [old EXCEPT ![p] = nil] /\ mu' = mu
    BY <1>1 DEF Answer
  <2> QED BY <1>1, <2>1, GotoWithValue DEF TypeOK
<1>2. CASE ~(mu = p /\ read.m[call[p].key] = nil)
  <2>1. Finish(p, r) /\ mu' = IF mu = p THEN nil ELSE mu
    BY <1>2 DEF Answer
  <2> QED BY <1>2, <2>1, FinishValue
<1> QED BY <1>1, <1>2

\* p has its answer: it returns, or first counts a miss.
Answered(p) ==
    /\ pc'[p] = IF mu = p /\ read.m[call[p].key] = nil THEN "missLocked" ELSE "ret"
    /\ mu' = IF mu = p /\ read.m[call[p].key] # nil THEN nil ELSE mu
    /\ ent'[p] = nil

OthersKept(p) ==
    \A q \in Proc \ {p} : pc'[q] = pc[q] /\ ent'[q] = ent[q] /\ old'[q] = old[q]

LEMMA TryLoadOrStoreLoadValue ==
    ASSUME TypeOK, Control, NEW p \in Proc, tryLoadOrStoreLoad(p)
    PROVE  /\ pc[p] = "load" /\ call[p].op = "LoadOrStore"
           /\ UNCHANGED <<shared, ptr, call, locals>>
           /\ OthersKept(p)
           /\ \/ pc'[p] = "cas" /\ ent'[p] = ent[p] /\ mu' = mu
              \/ pc'[p] = "lock" /\ ent'[p] = nil /\ mu # p /\ mu' = mu
              \/ Answered(p)
<1>1. pc[p] = "load" /\ call[p].op = "LoadOrStore" /\ UNCHANGED <<shared, ptr, call, locals>>
  BY DEF tryLoadOrStoreLoad, At
<1>2. \/ ptr[ent[p]] = nil /\ Goto(p, "cas") /\ UNCHANGED <<mu, ent, old>>
      \/ ptr[ent[p]] = expunged /\ mu # p /\ GotoWith(p, "lock", nil) /\ UNCHANGED <<mu, old>>
      \/ ptr[ent[p]] = expunged /\ mu = p /\ Answer(p, NoResult)
      \/ ptr[ent[p]] \notin Gone /\ Answer(p, Result(ptr[ent[p]], TRUE))
  BY DEF tryLoadOrStoreLoad
<1>3. CASE ptr[ent[p]] = nil /\ Goto(p, "cas") /\ UNCHANGED <<mu, ent, old>>
  BY <1>1, <1>3, GotoValue DEF OthersKept
<1>4. CASE ptr[ent[p]] = expunged /\ mu # p /\ GotoWith(p, "lock", nil) /\ UNCHANGED <<mu, old>>
  BY <1>1, <1>4, GotoWithValue DEF OthersKept
<1>5. CASE ptr[ent[p]] = expunged /\ mu = p /\ Answer(p, NoResult)
  BY <1>1, <1>5, AnswerValue DEF OthersKept, Answered
<1>6. CASE ptr[ent[p]] \notin Gone /\ Answer(p, Result(ptr[ent[p]], TRUE))
  BY <1>1, <1>6, AnswerValue DEF OthersKept, Answered
<1> QED BY <1>2, <1>3, <1>4, <1>5, <1>6

LEMMA TryLoadOrStoreCASValue ==
    ASSUME TypeOK, Control, NEW p \in Proc, tryLoadOrStoreCAS(p)
    PROVE  /\ pc[p] = "cas" /\ call[p].op = "LoadOrStore"
           /\ UNCHANGED <<shared, call, locals>>
           /\ OthersKept(p)
           /\ \/ pc'[p] = "load" /\ ent'[p] = ent[p] /\ mu' = mu /\ ptr' = ptr
              \/ /\ Answered(p)
                 /\ ptr[ent[p]] = nil /\ ptr' = [ptr EXCEPT ![ent[p]] = call[p].val]
<1>1. pc[p] = "cas" /\ call[p].op = "LoadOrStore" /\ UNCHANGED <<shared, call, locals>>
  BY DEF tryLoadOrStoreCAS, At
<1>2. CASE ptr[ent[p]] = nil
  <2>1. /\ Answer(p, Result(call[p].val, FALSE))
        /\ ptr' = [ptr EXCEPT ![ent[p]] = call[p].val]
    BY <1>2 DEF tryLoadOrStoreCAS
  <2> QED BY <1>1, <1>2, <2>1, AnswerValue DEF OthersKept, Answered
<1>3. CASE ptr[ent[p]] # nil
  <2>1. Goto(p, "load") /\ UNCHANGED <<mu, ptr, ent, old>>
    BY <1>3 DEF tryLoadOrStoreCAS
  <2> QED BY <1>1, <2>1, GotoValue DEF OthersKept
<1> QED BY <1>2, <1>3

LEMMA InsertValue ==
    ASSUME TypeOK, Control, NEW p \in Proc, Insert(p)
    PROVE  /\ pc[p] = "newKey" /\ pc'[p] = "ret" /\ mu' = nil
           /\ call[p].op \in {"Store", "LoadOrStore"}
           /\ todo[p] = NoKeys /\ UNCHANGED <<dirtyNil, misses, call, locals>>
           /\ OthersKept(p)
           /\ read' = [read EXCEPT !.amended = TRUE]
           /\ \E e \in Entry \ Referenced :
                /\ ptr' = [ptr EXCEPT ![e] = call[p].val]
                /\ dirty' = [dirty EXCEPT ![call[p].key] = e]
<1>1. \/ Finish(p, NoResult)
      \/ Finish(p, Result(call[p].val, FALSE))
  <2>1. CASE call[p].op = "Store"
    BY <2>1 DEF Insert
  <2>2. CASE call[p].op # "Store"
    BY <2>2 DEF Insert
  <2> QED BY <2>1, <2>2
<1>2. pc'[p] = "ret" /\ OthersKept(p)
  BY <1>1, FinishValue DEF OthersKept
<1> QED BY <1>2 DEF Insert, At

\* Both steps of tryExpungeLocked: the compare-and-swap is still to come, or
\* key k is done.
LEMMA TryExpungeLoadValue ==
    ASSUME TypeOK, Control, NEW p \in Proc, tryExpungeLoad(p)
    PROVE  /\ pc[p] \in {"newKey", "expungeLoad"}
           /\ UNCHANGED <<mu, read, dirtyNil, misses, ptr, call, old>>
           /\ OthersKept(p)
           /\ \/ /\ pc'[p] = "expungeCAS" /\ ent'[p] # nil
                 /\ UNCHANGED <<dirty, todo>>
              \/ \E k \in Key :
                   /\ todo[p][k] # nil
                   /\ \/ ptr[todo[p][k]] = expunged /\ KeyCopied(p, k, nil)
                      \/ ptr[todo[p][k]] # expunged /\ KeyCopied(p, k, todo[p][k])
<1>1. pc[p] \in {"newKey", "expungeLoad"} /\ UNCHANGED <<mu, read, dirtyNil, misses, ptr, call, old>>
  BY DEF tryExpungeLoad
<1>2. PICK k \in Key :
        /\ todo[p][k] # nil
        /\ \/ GotoWith(p, "expungeCAS", todo[p][k]) /\ UNCHANGED <<dirty, todo>>
           \/ ptr[todo[p][k]] = expunged /\ KeyCopied(p, k, nil)
           \/ ptr[todo[p][k]] \notin Gone /\ KeyCopied(p, k, todo[p][k])
  BY DEF tryExpungeLoad
<1>3. CASE GotoWith(p, "expungeCAS", todo[p][k]) /\ UNCHANGED <<dirty, todo>>
  BY <1>1, <1>2, <1>3, GotoWithValue DEF OthersKept
<1>4. CASE ptr[todo[p][k]] = expunged /\ KeyCopied(p, k, nil)
  BY <1>1, <1>2, <1>4, KeyCopiedValue DEF OthersKept
<1>5. CASE ptr[todo[p][k]] \notin Gone /\ KeyCopied(p, k, todo[p][k])
  BY <1>1, <1>2, <1>5, KeyCopiedValue DEF OthersKept, Gone
<1> QED BY <1>2, <1>3, <1>4, <1>5

LEMMA TryExpungeCASValue ==
    ASSUME TypeOK, Control, NEW p \in Proc, tryExpungeCAS(p)
    PROVE  /\ pc[p] = "expungeCAS"
           /\ UNCHANGED <<mu, read, dirtyNil, misses, call, old>>
           /\ OthersKept(p)
           /\ \/ /\ pc'[p] = "expungeLoad" /\ ent'[p] = ent[p]
                 /\ UNCHANGED <<ptr, dirty, todo>>
              \/ \E k \in Key :
                   /\ todo[p][k] # nil /\ KeyCopied(p, k, nil)
                   /\ ptr[todo[p][k]] = nil
                   /\ ptr' = [ptr EXCEPT ![todo[p][k]] = expunged]
<1>1. /\ pc[p] = "expungeCAS" /\ ent[p] # nil
      /\ UNCHANGED <<mu, read, dirtyNil, misses, call, old>>
  BY DEF tryExpungeCAS, Control
<1>2. PICK k \in Key :
        /\ todo[p][k] = ent[p]
        /\ IF ptr[ent[p]] = nil
           THEN /\ ptr' = [ptr EXCEPT ![ent[p]] = expunged]
                /\ KeyCopied(p, k, nil)
           ELSE Goto(p, "expungeLoad") /\ UNCHANGED <<ptr, dirty, todo, ent>>
  BY DEF tryExpungeCAS
<1>3. CASE ptr[ent[p]] = nil
  <2>1. KeyCopied(p, k, nil) /\ ptr' = [ptr EXCEPT ![todo[p][k]] = expunged]
    BY <1>2, <1>3
  <2> QED BY <1>1, <1>2, <1>3, <2>1, KeyCopiedValue DEF OthersKept
<1>4. CASE ptr[ent[p]] # nil
  <2>1. Goto(p, "expungeLoad") /\ UNCHANGED <<ptr, dirty, todo, ent>>
    BY <1>2, <1>4
  <2> QED BY <1>1, <2>1, GotoValue DEF OthersKept
<1> QED BY <1>3, <1>4

LEMMA StepFrame ==
    ASSUME TypeOK, Control, NEW p \in Proc, Step(p)
    PROVE  Frame(p)
<1> USE DEF Frame, locals
<1>1. CASE LoadRead(p)
  BY <1>1, GotoValue, GotoWithValue, FinishValue DEF LoadRead, TypeOK
<1>2. CASE LoadLocked(p)
  BY <1>2, GotoValue, GotoWithValue, FinishValue DEF LoadLocked, TypeOK
<1>3. CASE EntryLoad(p)
  <2>1. \E v \in Value \cup {nil}, b \in BOOLEAN : Finish(p, Result(v, b))
    BY <1>3, SyncMapAssumption DEF EntryLoad, TypeOK, Control, At, Gone, NoResult
  <2> QED BY <1>3, <2>1, FinishValue DEF EntryLoad
<1>4. CASE StoreRead(p)
  BY <1>4, GotoValue, GotoWithValue, FinishValue DEF StoreRead, TypeOK
<1>5. CASE tryStoreLoad(p)
  BY <1>5, GotoValue, GotoWithValue, FinishValue DEF tryStoreLoad, TypeOK
<1>6. CASE tryStoreCAS(p)
  BY <1>6, GotoValue, GotoWithValue, FinishValue DEF tryStoreCAS, TypeOK
<1>7. CASE StoreLocked(p)
  BY <1>7, GotoValue, GotoWithValue, FinishValue DEF StoreLocked, TypeOK
<1>8. CASE unexpungeLocked(p)
  BY <1>8, GotoValue, GotoWithValue, FinishValue DEF unexpungeLocked, TypeOK
<1>9. CASE storeLocked(p)
  BY <1>9, GotoValue, GotoWithValue, FinishValue DEF storeLocked, TypeOK
<1>10. CASE tryExpungeLoad(p)
  BY <1>10, TryExpungeLoadValue, KeyCopiedValue DEF OthersKept
<1>11. CASE tryExpungeCAS(p)
  BY <1>11, TryExpungeCASValue, KeyCopiedValue DEF OthersKept
<1>12. CASE Insert(p)
  BY <1>12, InsertValue DEF OthersKept
<1>13. CASE tryLoadOrStoreLoad(p)
  BY <1>13, TryLoadOrStoreLoadValue DEF OthersKept
<1>14. CASE tryLoadOrStoreCAS(p)
  BY <1>14, TryLoadOrStoreCASValue DEF OthersKept
<1>15. CASE LoadOrStoreMiss(p)
  BY <1>15, GotoValue, GotoWithValue, FinishValue DEF LoadOrStoreMiss, TypeOK
<1>16. CASE DeleteRead(p)
  BY <1>16, GotoValue, GotoWithValue, FinishValue DEF DeleteRead, TypeOK
<1>17. CASE DeleteLocked(p)
  BY <1>17, GotoValue, GotoWithValue, FinishValue DEF DeleteLocked, TypeOK
<1>18. CASE deleteLoad(p)
  BY <1>18, GotoValue, GotoWithValue, FinishValue DEF deleteLoad, TypeOK
<1>19. CASE deleteCAS(p)
  BY <1>19, GotoValue, GotoWithValue, FinishValue DEF deleteCAS, TypeOK
<1>20. CASE RangeRead(p)
  BY <1>20, GotoValue, GotoWithValue, FinishValue DEF RangeRead, TypeOK
<1>21. CASE RangeLocked(p)
  BY <1>21, GotoValue, GotoWithValue, FinishValue DEF RangeLocked, TypeOK
<1>22. CASE RangeStep(p)
  BY <1>22, GotoValue, GotoWithValue, FinishValue DEF RangeStep, TypeOK
<1>23. CASE RangeEnd(p)
  BY <1>23, GotoValue, GotoWithValue, FinishValue DEF RangeEnd, TypeOK
<1> QED
  BY <1>1, <1>2, <1>3, <1>4, <1>5, <1>6, <1>7, <1>8, <1>9, <1>10, <1>11, <1>12, <1>13, <1>14, <1>15, <1>16, <1>17, <1>18, <1>19, <1>20, <1>21, <1>22, <1>23 DEF Step

LEMMA ControlStep ==
    ASSUME TypeOK, Control, NEW p \in Proc, Step(p)
    PROVE  Control'
<1> USE SyncMapAssumption DEF At
<1>1. Frame(p) /\ (call[p] # nil => call[p] \in Calls)
  BY StepFrame DEF TypeOK
<1>2. \A q \in Proc \ {p} :
        pc'[q] = pc[q] /\ call'[q] = call[q] /\ ent'[q] = ent[q]
  BY <1>1 DEF Frame
<1>3. call'[p] = call[p]
  BY <1>1 DEF Frame
<1> HIDE DEF Frame
\* Of p itself, what it must have recorded for its new label.
<1> DEFINE Good ==
        /\ pc'[p] # "idle" /\ call[p] # nil
        /\ pc'[p] = "load" => call[p].op # "Range"
        /\ pc'[p] = "cas" => call[p].op \in {"Store", "LoadOrStore", "Delete"}
        /\ pc'[p] = "storeLocked" => call[p].op = "Store"
        /\ pc'[p] \in {"unexpunge", "newKey", "expungeLoad", "expungeCAS",
                       "missLocked"} => call[p].op \in {"Store", "LoadOrStore"}
        /\ pc'[p] \in {"load", "cas", "unexpunge", "storeLocked", "expungeLoad",
                       "expungeCAS"} => ent'[p] # nil
<1>4. LoadRead(p) => Good
  BY GotoValue, GotoWithValue, FinishValue DEF LoadRead, TypeOK, Control
<1>5. LoadLocked(p) => Good
  BY GotoValue, GotoWithValue, FinishValue DEF LoadLocked, TypeOK, Control
<1>6. EntryLoad(p) => Good
  BY GotoValue, GotoWithValue, FinishValue DEF EntryLoad, TypeOK, Control
<1>7. StoreRead(p) => Good
  BY GotoValue, GotoWithValue, FinishValue DEF StoreRead, TypeOK, Control
<1>8. tryStoreLoad(p) => Good
  BY GotoValue, GotoWithValue, FinishValue DEF tryStoreLoad, TypeOK, Control
<1>9. tryStoreCAS(p) => Good
  BY GotoValue, GotoWithValue, FinishValue DEF tryStoreCAS, TypeOK, Control
<1>10. StoreLocked(p) => Good
  BY GotoValue, GotoWithValue, FinishValue DEF StoreLocked, TypeOK, Control
<1>11. unexpungeLocked(p) => Good
  BY GotoValue, GotoWithValue, FinishValue DEF unexpungeLocked, TypeOK, Control
<1>12. storeLocked(p) => Good
  BY GotoValue, GotoWithValue, FinishValue DEF storeLocked, TypeOK, Control
<1>13. tryExpungeLoad(p) => Good
  BY TryExpungeLoadValue, KeyCopiedValue DEF Control
<1>14. tryExpungeCAS(p) => Good
  BY TryExpungeCASValue, KeyCopiedValue DEF Control
<1>15. Insert(p) => Good
  BY InsertValue DEF Control
<1>16. tryLoadOrStoreLoad(p) => Good
  BY TryLoadOrStoreLoadValue DEF Control, Answered
<1>17. tryLoadOrStoreCAS(p) => Good
  BY TryLoadOrStoreCASValue DEF Control, Answered
<1>18. LoadOrStoreMiss(p) => Good
  BY GotoValue, GotoWithValue, FinishValue DEF LoadOrStoreMiss, TypeOK, Control
<1>19. DeleteRead(p) => Good
  BY GotoValue, GotoWithValue, FinishValue DEF DeleteRead, TypeOK, Control
<1>20. DeleteLocked(p) => Good
  BY GotoValue, GotoWithValue, FinishValue DEF DeleteLocked, TypeOK, Control
<1>21. deleteLoad(p) => Good
  BY GotoValue, GotoWithValue, FinishValue DEF deleteLoad, TypeOK, Control
<1>22. deleteCAS(p) => Good
  BY GotoValue, GotoWithValue, FinishValue DEF deleteCAS, TypeOK, Control
<1>23. RangeRead(p) => Good
  BY GotoValue, GotoWithValue, FinishValue DEF RangeRead, TypeOK, Control
<1>24. RangeLocked(p) => Good
  BY GotoValue, GotoWithValue, FinishValue DEF RangeLocked, TypeOK, Control
<1>25. RangeStep(p) => Good
  BY GotoValue, GotoWithValue, FinishValue DEF RangeStep, TypeOK, Control
<1>26. RangeEnd(p) => Good
  BY GotoValue, GotoWithValue, FinishValue DEF RangeEnd, TypeOK, Control
<1>27. Good
  BY <1>4, <1>5, <1>6, <1>7, <1>8, <1>9, <1>10, <1>11, <1>12, <1>13, <1>14, <1>15, <1>16, <1>17, <1>18, <1>19, <1>20, <1>21, <1>22, <1>23, <1>24, <1>25, <1>26 DEF Step
<1> QED
  BY <1>2, <1>3, <1>27 DEF Control

-----------------------------------------------------------------------------
\* p acquires mu when it is free, releases it when it holds it, and holds it
\* exactly in the labels of a critical section.
LEMMA MuStep ==
    ASSUME TypeOK, Control, MutualExclusion, NEW p \in Proc, Step(p)
    PROVE  /\ \/ mu' = mu
              \/ mu = nil /\ mu' = p
              \/ mu = p /\ mu' = nil
           /\ Critical(p)' <=> mu' = p
<1> USE SyncMapAssumption DEF At
<1>2. call'[p] = call[p]
  BY StepFrame DEF Frame
<1>3. Critical(p) <=> mu = p
  BY DEF MutualExclusion
<1> DEFINE Good == /\ \/ mu' = mu
                      \/ mu = nil /\ mu' = p
                      \/ mu = p /\ mu' = nil
                   /\ Critical(p)' <=> mu' = p
<1>4. LoadRead(p) => Good
  BY <1>2, <1>3, GotoValue, GotoWithValue, FinishValue DEF LoadRead, Critical, Control, TypeOK
<1>5. LoadLocked(p) => Good
  BY <1>2, <1>3, GotoValue, GotoWithValue, FinishValue DEF LoadLocked, Critical, Control, TypeOK
<1>6. EntryLoad(p) => Good
  BY <1>2, <1>3, GotoValue, GotoWithValue, FinishValue DEF EntryLoad, Critical, Control, TypeOK
<1>7. StoreRead(p) => Good
  BY <1>2, <1>3, GotoValue, GotoWithValue, FinishValue DEF StoreRead, Critical, Control, TypeOK
<1>8. tryStoreLoad(p) => Good
  BY <1>2, <1>3, GotoValue, GotoWithValue, FinishValue DEF tryStoreLoad, Critical, Control, TypeOK
<1>9. tryStoreCAS(p) => Good
  BY <1>2, <1>3, GotoValue, GotoWithValue, FinishValue DEF tryStoreCAS, Critical, Control, TypeOK
<1>10. StoreLocked(p) => Good
  BY <1>2, <1>3, GotoValue, GotoWithValue, FinishValue DEF StoreLocked, Critical, Control, TypeOK
<1>11. unexpungeLocked(p) => Good
  BY <1>2, <1>3, GotoValue, GotoWithValue, FinishValue DEF unexpungeLocked, Critical, Control, TypeOK
<1>12. storeLocked(p) => Good
  BY <1>2, <1>3, GotoValue, GotoWithValue, FinishValue DEF storeLocked, Critical, Control, TypeOK
<1>13. tryExpungeLoad(p) => Good
  BY <1>2, <1>3, TryExpungeLoadValue, KeyCopiedValue DEF Control, Critical
<1>14. tryExpungeCAS(p) => Good
  BY <1>2, <1>3, TryExpungeCASValue, KeyCopiedValue DEF Control, Critical
<1>15. Insert(p) => Good
  BY <1>2, <1>3, InsertValue DEF Control, Critical
<1>16. tryLoadOrStoreLoad(p) => Good
  BY <1>2, <1>3, TryLoadOrStoreLoadValue DEF Control, Answered, Critical
<1>17. tryLoadOrStoreCAS(p) => Good
  BY <1>2, <1>3, TryLoadOrStoreCASValue DEF Control, Answered, Critical
<1>18. LoadOrStoreMiss(p) => Good
  BY <1>2, <1>3, GotoValue, GotoWithValue, FinishValue DEF LoadOrStoreMiss, Critical, Control, TypeOK
<1>19. DeleteRead(p) => Good
  BY <1>2, <1>3, GotoValue, GotoWithValue, FinishValue DEF DeleteRead, Critical, Control, TypeOK
<1>20. DeleteLocked(p) => Good
  BY <1>2, <1>3, GotoValue, GotoWithValue, FinishValue DEF DeleteLocked, Critical, Control, TypeOK
<1>21. deleteLoad(p) => Good
  BY <1>2, <1>3, GotoValue, GotoWithValue, FinishValue DEF deleteLoad, Critical, Control, TypeOK
<1>22. deleteCAS(p) => Good
  BY <1>2, <1>3, GotoValue, GotoWithValue, FinishValue DEF deleteCAS, Critical, Control, TypeOK
<1>23. RangeRead(p) => Good
  BY <1>2, <1>3, GotoValue, GotoWithValue, FinishValue DEF RangeRead, Critical, Control, TypeOK
<1>24. RangeLocked(p) => Good
  BY <1>2, <1>3, GotoValue, GotoWithValue, FinishValue DEF RangeLocked, Critical, Control, TypeOK
<1>25. RangeStep(p) => Good
  BY <1>2, <1>3, GotoValue, GotoWithValue, FinishValue DEF RangeStep, Critical, Control, TypeOK
<1>26. RangeEnd(p) => Good
  BY <1>2, <1>3, GotoValue, GotoWithValue, FinishValue DEF RangeEnd, Critical, Control, TypeOK
<1>27. Good
  BY <1>4, <1>5, <1>6, <1>7, <1>8, <1>9, <1>10, <1>11, <1>12, <1>13, <1>14, <1>15, <1>16, <1>17, <1>18, <1>19, <1>20, <1>21, <1>22, <1>23, <1>24, <1>25, <1>26 DEF Step
<1> QED
  BY <1>27

LEMMA MutexStep ==
    ASSUME TypeOK, Control, MutualExclusion, NEW p \in Proc, Step(p)
    PROVE  MutualExclusion'
<1>1. \A q \in Proc \ {p} :
        pc'[q] = pc[q] /\ call'[q] = call[q]
  BY StepFrame DEF Frame
<1>2. \A q \in Proc \ {p} : mu' = q <=> mu = q
  BY MuStep, SyncMapAssumption
<1>3. \A q \in Proc \ {p} : Critical(q)' <=> Critical(q)
  BY <1>1, <1>2 DEF Critical
<1>4. Critical(p)' <=> mu' = p
  BY MuStep
<1> QED BY <1>2, <1>3, <1>4 DEF MutualExclusion

-----------------------------------------------------------------------------
(* What a step of p does to the maps and the pointers, whichever action it *)
(* is: nothing, or one of the following.                                   *)

SameCopying(p) == \A k \in Key : Copying(p, k)' <=> Copying(p, k)

Quiet(p) == UNCHANGED <<read, dirty, dirtyNil, ptr>> /\ SameCopying(p)

Writes(p) ==       \* the pointer of its entry, which is not expunged
    /\ pc[p] \in {"cas", "storeLocked"}
    /\ UNCHANGED <<read, dirty, dirtyNil>> /\ SameCopying(p)
    /\ ent[p] \in Entry /\ ptr[ent[p]] # expunged
    /\ \E v \in Value \cup {nil} : ptr' = [ptr EXCEPT ![ent[p]] = v]

Promotes(p) ==     \* the dirty map
    /\ mu \in {nil, p} /\ ~dirtyNil
    /\ read'.m = dirty /\ read'.amended = FALSE
    /\ dirty' = NoKeys /\ dirtyNil' = TRUE /\ ptr' = ptr
    /\ \A k \in Key : ~Copying(p, k) /\ ~Copying(p, k)'
    /\ pc'[p] # "missLocked"

Unexpunges(p) ==   \* the entry of its key, and adds it to the dirty map
    /\ mu = p /\ pc[p] = "unexpunge" /\ SameCopying(p)
    /\ ptr[ent[p]] = expunged /\ ptr' = [ptr EXCEPT ![ent[p]] = nil]
    /\ dirty' = [dirty EXCEPT ![call[p].key] = ent[p]]
    /\ UNCHANGED <<read, dirtyNil>>

Copies(p, k) ==    \* the entry of k, or leaves it out, expunging it
    /\ mu = p /\ Copying(p, k) /\ pc'[p] = "newKey"
    /\ \/ dirty' = [dirty EXCEPT ![k] = todo[p][k]] /\ ptr' = ptr
          /\ ptr[todo[p][k]] # expunged
       \/ dirty' = [dirty EXCEPT ![k] = nil] /\ ptr' = ptr
          /\ ptr[todo[p][k]] = expunged
       \/ dirty' = [dirty EXCEPT ![k] = nil]
          /\ ptr[todo[p][k]] = nil
          /\ ptr' = [ptr EXCEPT ![todo[p][k]] = expunged]
    /\ todo'[p][k] = nil /\ \A j \in Key \ {k} : todo'[p][j] = todo[p][j]
    /\ UNCHANGED <<read, dirtyNil>>

Adds(p, e) ==      \* a new entry e for its key
    /\ mu = p /\ pc[p] = "newKey" /\ e \in Entry \ Referenced
    /\ read'.m = read.m /\ read'.amended = TRUE
    /\ dirty' = [dirty EXCEPT ![call[p].key] = e]
    /\ \E v \in Value : ptr' = [ptr EXCEPT ![e] = v]
    /\ dirtyNil' = dirtyNil
    /\ \A k \in Key : ~Copying(p, k) /\ ~Copying(p, k)'

StartsCopy(p) ==   \* makes the dirty map
    /\ mu = nil /\ dirtyNil /\ ~read.amended
    /\ dirtyNil' = FALSE /\ UNCHANGED <<read, dirty, ptr>>
    /\ read.m[call[p].key] = nil
    /\ todo'[p] = read.m /\ pc'[p] = "newKey"

Removes(p) ==      \* its key from the dirty map
    /\ mu = nil /\ call[p].key \in Key /\ read.m[call[p].key] = nil
    /\ dirty' = [dirty EXCEPT ![call[p].key] = nil]
    /\ UNCHANGED <<read, dirtyNil, ptr>> /\ SameCopying(p)

Effect(p) ==
    \/ Quiet(p) \/ Writes(p) \/ Promotes(p) \/ Unexpunges(p) \/ StartsCopy(p)
    \/ Removes(p)
    \/ \E k \in Key : Copies(p, k)
    \/ \E e \in Entry : Adds(p, e)

\* Only the goroutine that holds mu copies.
LEMMA OneCopier ==
    ASSUME TypeOK, Control, MutualExclusion, NEW p \in Proc, mu \in {nil, p},
           NEW q \in Proc \ {p}, NEW k \in Key
    PROVE  ~Copying(q, k)
BY SyncMapAssumption DEF MutualExclusion, Critical, Copying

LEMMA ActionEffect ==
    ASSUME IInv, NEW p \in Proc, Step(p)
    PROVE  /\ LoadRead(p) => Quiet(p)
           /\ LoadLocked(p) => Quiet(p) \/ Promotes(p)
           /\ EntryLoad(p) => Quiet(p)
           /\ StoreRead(p) => Quiet(p)
           /\ tryStoreLoad(p) => Quiet(p)
           /\ tryStoreCAS(p) => Quiet(p) \/ Writes(p)
           /\ StoreLocked(p) => Quiet(p) \/ StartsCopy(p)
           /\ unexpungeLocked(p) => Quiet(p) \/ Unexpunges(p)
           /\ storeLocked(p) => Writes(p)
           /\ tryExpungeLoad(p) => Quiet(p) \/ \E k \in Key : Copies(p, k)
           /\ tryExpungeCAS(p) => Quiet(p) \/ \E k \in Key : Copies(p, k)
           /\ Insert(p) => \E e \in Entry : Adds(p, e)
           /\ tryLoadOrStoreLoad(p) => Quiet(p)
           /\ tryLoadOrStoreCAS(p) => Quiet(p) \/ Writes(p)
           /\ LoadOrStoreMiss(p) => Quiet(p) \/ Promotes(p)
           /\ DeleteRead(p) => Quiet(p)
           /\ DeleteLocked(p) => Quiet(p) \/ Removes(p)
           /\ deleteLoad(p) => Quiet(p)
           /\ deleteCAS(p) => Quiet(p) \/ Writes(p)
           /\ RangeRead(p) => Quiet(p)
           /\ RangeLocked(p) => Quiet(p) \/ Promotes(p)
           /\ RangeStep(p) => Quiet(p)
           /\ RangeEnd(p) => Quiet(p)
<1> USE SyncMapAssumption DEF At, shared, locals
<1>1. TypeOK /\ Control /\ call'[p] = call[p]
  BY StepFrame DEF IInv, Frame
<1>2. Critical(p) <=> mu = p
  BY DEF IInv, MutualExclusion
<1>3. /\ ent[p] # nil => ent[p] \in Entry
      /\ call[p] # nil => call[p] \in Calls
      /\ call[p] # nil /\ call[p].op # "Range" => call[p].key \in Key
      /\ call[p] # nil /\ call[p].op \in {"Store", "LoadOrStore"} => call[p].val \in Value
      /\ \A k \in Key : read.m[k] \in Entry \cup {nil} /\ dirty[k] \in Entry \cup {nil} /\ todo[p][k] \in Entry \cup {nil}
      /\ old[p] \in Value \cup {nil}
  BY <1>1, CallArguments DEF TypeOK, Maps
<1>4. /\ dirtyNil => dirty = NoKeys /\ ~read.amended
      /\ read.amended => ~dirtyNil
  BY DEF IInv, DirtyNil
<1>5. LoadRead(p) => Quiet(p)
  BY <1>1, <1>2, <1>3, <1>4, GotoValue, GotoWithValue, FinishValue DEF LoadRead, Control, Quiet, SameCopying, Copying, TypeOK
<1>6. LoadLocked(p) => Quiet(p) \/ Promotes(p)
  BY <1>1, <1>2, <1>3, <1>4, GotoValue, GotoWithValue, FinishValue DEF LoadLocked, Control, Quiet, Promotes, missLocked, Promote, SameCopying, Copying, TypeOK, NoKeys
<1>7. EntryLoad(p) => Quiet(p)
  BY <1>1, <1>2, <1>3, <1>4, GotoValue, GotoWithValue, FinishValue DEF EntryLoad, Control, Quiet, SameCopying, Copying, TypeOK
<1>8. StoreRead(p) => Quiet(p)
  BY <1>1, <1>2, <1>3, <1>4, GotoValue, GotoWithValue, FinishValue DEF StoreRead, Control, Quiet, SameCopying, Copying, TypeOK
<1>9. tryStoreLoad(p) => Quiet(p)
  BY <1>1, <1>2, <1>3, <1>4, GotoValue, GotoWithValue, FinishValue DEF tryStoreLoad, Control, Quiet, SameCopying, Copying, TypeOK
<1>10. tryStoreCAS(p) => Quiet(p) \/ Writes(p)
  BY <1>1, <1>2, <1>3, <1>4, GotoValue, GotoWithValue, FinishValue DEF tryStoreCAS, Control, Quiet, Writes, SameCopying, Copying, TypeOK
<1>11. StoreLocked(p) => Quiet(p) \/ StartsCopy(p)
  BY <1>1, <1>2, <1>3, <1>4, GotoValue, GotoWithValue, FinishValue DEF StoreLocked, Control, Quiet, StartsCopy, SameCopying, Copying, TypeOK, NoKeys
<1>12. unexpungeLocked(p) => Quiet(p) \/ Unexpunges(p)
  BY <1>1, <1>2, <1>3, <1>4, GotoValue, GotoWithValue, FinishValue DEF unexpungeLocked, Control, Quiet, Unexpunges, SameCopying, Copying, Critical, TypeOK
<1>13. ASSUME storeLocked(p) PROVE Writes(p)
  <2>1. /\ pc[p] = "storeLocked" /\ pc'[p] = "ret" /\ call[p].op = "Store"
        /\ UNCHANGED <<read, dirty, dirtyNil>>
        /\ ptr' = [ptr EXCEPT ![ent[p]] = call[p].val]
    BY <1>1, <1>13, FinishValue DEF storeLocked, Control
  <2>2. ptr[ent[p]] # expunged /\ ent[p] \in Entry /\ call[p].val \in Value
    BY <1>1, <1>3, <2>1 DEF IInv, SlowPathSafe, Control
  <2> QED BY <2>1, <2>2 DEF Writes, SameCopying, Copying
<1>14. ASSUME tryExpungeLoad(p) PROVE Quiet(p) \/ \E k \in Key : Copies(p, k)
  <2>1. mu = p /\ UNCHANGED <<read, dirtyNil, ptr>>
    BY <1>1, <1>2, <1>14, TryExpungeLoadValue DEF Critical
  <2>2. CASE pc'[p] = "expungeCAS" /\ UNCHANGED <<dirty, todo>>
    BY <1>1, <1>14, <2>1, <2>2, TryExpungeLoadValue DEF Quiet, SameCopying, Copying
  <2>3. ASSUME NEW k \in Key, todo[p][k] # nil,
               \/ ptr[todo[p][k]] = expunged /\ KeyCopied(p, k, nil)
               \/ ptr[todo[p][k]] # expunged /\ KeyCopied(p, k, todo[p][k])
        PROVE  Copies(p, k)
    <3>1. /\ pc'[p] = "newKey" /\ todo'[p][k] = nil
          /\ \A j \in Key \ {k} : todo'[p][j] = todo[p][j]
      BY <1>1, <2>3, KeyCopiedValue
    <3>2. Copying(p, k)
      BY <1>1, <1>14, <2>3, TryExpungeLoadValue DEF Copying
    <3> QED BY <2>1, <2>3, <3>1, <3>2 DEF Copies, KeyCopied
  <2> QED BY <1>1, <1>14, <2>2, <2>3, TryExpungeLoadValue
<1>15. ASSUME tryExpungeCAS(p) PROVE Quiet(p) \/ \E k \in Key : Copies(p, k)
  <2>1. mu = p /\ UNCHANGED <<read, dirtyNil>>
    BY <1>1, <1>2, <1>15, TryExpungeCASValue DEF Critical
  <2>2. CASE pc'[p] = "expungeLoad" /\ UNCHANGED <<ptr, dirty, todo>>
    BY <1>1, <1>15, <2>1, <2>2, TryExpungeCASValue DEF Quiet, SameCopying, Copying
  <2>3. ASSUME NEW k \in Key, todo[p][k] # nil, KeyCopied(p, k, nil),
               ptr[todo[p][k]] = nil, ptr' = [ptr EXCEPT ![todo[p][k]] = expunged]
        PROVE  Copies(p, k)
    <3>1. /\ pc'[p] = "newKey" /\ todo'[p][k] = nil
          /\ \A j \in Key \ {k} : todo'[p][j] = todo[p][j]
      BY <1>1, <2>3, KeyCopiedValue
    <3>2. Copying(p, k)
      BY <1>1, <1>15, <2>3, TryExpungeCASValue DEF Copying
    <3> QED BY <2>1, <2>3, <3>1, <3>2 DEF Copies, KeyCopied
  <2> QED BY <1>1, <1>15, <2>2, <2>3, TryExpungeCASValue
<1>16. ASSUME Insert(p) PROVE \E e \in Entry : Adds(p, e)
  <2>1. /\ pc[p] = "newKey" /\ pc'[p] = "ret" /\ todo[p] = NoKeys /\ todo' = todo
        /\ dirtyNil' = dirtyNil /\ read'.m = read.m /\ read'.amended = TRUE
        /\ call[p].val \in Value
    BY <1>1, <1>3, <1>16, InsertValue DEF Control, TypeOK
  <2>2. mu = p
    BY <1>2, <2>1 DEF Critical
  <2>3. \A k \in Key : ~Copying(p, k) /\ ~Copying(p, k)'
    BY <2>1 DEF Copying, NoKeys
  <2> QED BY <1>1, <1>16, <2>1, <2>2, <2>3, InsertValue DEF Adds
<1>17. tryLoadOrStoreLoad(p) => Quiet(p)
  BY <1>1, <1>2, <1>3, <1>4, TryLoadOrStoreLoadValue DEF Quiet, SameCopying, Copying, Answered
<1>18. ASSUME tryLoadOrStoreCAS(p) PROVE Quiet(p) \/ Writes(p)
  <2>1. SameCopying(p) /\ UNCHANGED <<read, dirty, dirtyNil>>
    BY <1>1, <1>18, TryLoadOrStoreCASValue DEF SameCopying, Copying, Answered
  <2>2. ent[p] \in Entry /\ call[p].val \in Value
    BY <1>1, <1>3, <1>18, TryLoadOrStoreCASValue DEF Control
  <2> QED BY <1>1, <1>18, <2>1, <2>2, TryLoadOrStoreCASValue DEF Quiet, Writes
<1>19. ASSUME LoadOrStoreMiss(p) PROVE Quiet(p) \/ Promotes(p)
  <2>1. /\ pc[p] = "missLocked" /\ pc'[p] = "ret" /\ todo' = todo /\ ptr' = ptr
        /\ missLocked
    BY <1>1, <1>19, GotoValue DEF LoadOrStoreMiss
  <2>2. mu = p /\ ~dirtyNil
    BY <1>2, <2>1 DEF Critical, IInv, DirtyNil
  <2> QED BY <2>1, <2>2 DEF missLocked, Promote, Quiet, Promotes, SameCopying, Copying
<1>20. DeleteRead(p) => Quiet(p)
  BY <1>1, <1>2, <1>3, <1>4, GotoValue, GotoWithValue, FinishValue DEF DeleteRead, Control, Quiet, SameCopying, Copying, TypeOK
<1>21. DeleteLocked(p) => Quiet(p) \/ Removes(p)
  BY <1>1, <1>2, <1>3, <1>4, GotoValue, GotoWithValue, FinishValue DEF DeleteLocked, Control, Quiet, Removes, SameCopying, Copying, TypeOK
<1>22. deleteLoad(p) => Quiet(p)
  BY <1>1, <1>2, <1>3, <1>4, GotoValue, GotoWithValue, FinishValue DEF deleteLoad, Control, Quiet, SameCopying, Copying, TypeOK
<1>23. deleteCAS(p) => Quiet(p) \/ Writes(p)
  BY <1>1, <1>2, <1>3, <1>4, GotoValue, GotoWithValue, FinishValue DEF deleteCAS, Control, Quiet, Writes, SameCopying, Copying, TypeOK
<1>24. RangeRead(p) => Quiet(p)
  BY <1>1, <1>2, <1>3, <1>4, GotoValue, GotoWithValue, FinishValue DEF RangeRead, Control, Quiet, SameCopying, Copying, TypeOK
<1>25. RangeLocked(p) => Quiet(p) \/ Promotes(p)
  BY <1>1, <1>2, <1>3, <1>4, GotoValue, GotoWithValue, FinishValue DEF RangeLocked, Control, Quiet, Promotes, missLocked, Promote, SameCopying, Copying, TypeOK, NoKeys
<1>26. RangeStep(p) => Quiet(p)
  BY <1>1, <1>2, <1>3, <1>4, GotoValue, GotoWithValue, FinishValue DEF RangeStep, Control, Quiet, SameCopying, Copying, TypeOK
<1>27. RangeEnd(p) => Quiet(p)
  BY <1>1, <1>2, <1>3, <1>4, GotoValue, GotoWithValue, FinishValue DEF RangeEnd, Control, Quiet, SameCopying, Copying, TypeOK
<1> QED
  BY <1>5, <1>6, <1>7, <1>8, <1>9, <1>10, <1>11, <1>12, <1>13, <1>14, <1>15, <1>16, <1>17, <1>18, <1>19, <1>20, <1>21, <1>22, <1>23, <1>24, <1>25, <1>26, <1>27

LEMMA StepEffect ==
    ASSUME IInv, NEW p \in Proc, Step(p)
    PROVE  Effect(p)
BY ActionEffect DEF Step, Effect
-----------------------------------------------------------------------------
(* The control flow: where p can get to from where, with which entry.      *)

CopyLabels == {"newKey", "expungeLoad", "expungeCAS"}

Same == UNCHANGED <<read, dirty, dirtyNil, ptr>>

Moves(p) ==
    LET k == call[p].key IN
    \/ pc'[p] \in {"lock", "range", "ret"}
    \/ /\ pc'[p] = "missLocked" /\ mu = p /\ read.m[k] = nil
       /\ pc[p] \in {"load", "cas"}
    \/ /\ pc'[p] = "load" /\ pc[p] \in {"read", "lock"} /\ mu' = mu /\ k \in Key
       /\ \/ ent'[p] = read.m[k] /\ Same
          \/ call[p].op = "Load" /\ ent'[p] \in {read'.m[k], dirty'[k]}
    \/ /\ pc'[p] \in {"load", "storeLocked"} /\ pc[p] = "lock"
       /\ ent'[p] = dirty[k] /\ ent'[p] # nil /\ mu' = p /\ Same
    \/ /\ pc'[p] = "unexpunge" /\ pc[p] = "lock"
       /\ ent'[p] = read.m[k] /\ mu' = p /\ Same
    \/ /\ pc'[p] = "newKey" /\ pc[p] = "lock"
       /\ read.m[k] = nil /\ dirty[k] = nil /\ UNCHANGED <<read, dirty, ptr>>
       /\ dirtyNil' = (dirtyNil /\ read.amended)
       /\ todo'[p] = IF ~read.amended /\ dirtyNil THEN read.m ELSE NoKeys
    \/ /\ pc'[p] \in {"load", "storeLocked"} /\ pc[p] = "unexpunge"
       /\ ent'[p] = ent[p] /\ mu' = mu /\ read' = read
       /\ ptr' = IF ptr[ent[p]] = expunged THEN [ptr EXCEPT ![ent[p]] = nil] ELSE ptr
    \/ /\ <<pc[p], pc'[p]>> \in {<<"load", "cas">>, <<"cas", "load">>}
       /\ ent'[p] = ent[p] /\ mu' = mu /\ Same
    \/ /\ pc'[p] \in CopyLabels /\ pc[p] \in CopyLabels
       /\ UNCHANGED <<read, dirtyNil>>
       /\ \/ UNCHANGED <<dirty, todo>>
          \/ \E j \in Key : KeyCopied(p, j, nil) \/ KeyCopied(p, j, todo[p][j])

LEMMA StepMoves ==
    ASSUME TypeOK, Control, NEW p \in Proc, Step(p)
    PROVE  Moves(p)
<1> USE SyncMapAssumption DEF At, shared, locals, Same
<1>1. call[p] # nil => call[p] \in Calls
  BY DEF TypeOK
<1>2. call[p] # nil /\ call[p].op # "Range" => call[p].key \in Key
  BY <1>1, CallArguments
<1>3. LoadRead(p) => Moves(p)
  BY <1>2, GotoValue, GotoWithValue, FinishValue DEF LoadRead, Moves, Control, TypeOK
<1>4. LoadLocked(p) => Moves(p)
  BY <1>2, GotoValue, GotoWithValue, FinishValue DEF LoadLocked, missLocked, Promote, Moves, Control, TypeOK
<1>5. EntryLoad(p) => Moves(p)
  BY <1>2, GotoValue, GotoWithValue, FinishValue DEF EntryLoad, Moves, Control, TypeOK
<1>6. StoreRead(p) => Moves(p)
  BY <1>2, GotoValue, GotoWithValue, FinishValue DEF StoreRead, Moves, Control, TypeOK
<1>7. tryStoreLoad(p) => Moves(p)
  BY <1>2, GotoValue, GotoWithValue, FinishValue DEF tryStoreLoad, Moves, Control, TypeOK
<1>8. tryStoreCAS(p) => Moves(p)
  BY <1>2, GotoValue, GotoWithValue, FinishValue DEF tryStoreCAS, Moves, Control, TypeOK
<1>9. StoreLocked(p) => Moves(p)
  BY <1>2, GotoValue, GotoWithValue, FinishValue DEF StoreLocked, Moves, Control, TypeOK
<1>10. unexpungeLocked(p) => Moves(p)
  BY <1>2, GotoValue, GotoWithValue, FinishValue DEF unexpungeLocked, Moves, Control, TypeOK
<1>11. storeLocked(p) => Moves(p)
  BY <1>2, GotoValue, GotoWithValue, FinishValue DEF storeLocked, Moves, Control, TypeOK
<1>12. tryExpungeLoad(p) => Moves(p)
  BY TryExpungeLoadValue, KeyCopiedValue DEF Moves, CopyLabels
<1>13. tryExpungeCAS(p) => Moves(p)
  BY TryExpungeCASValue, KeyCopiedValue DEF Moves, CopyLabels
<1>14. Insert(p) => Moves(p)
  BY InsertValue DEF Moves, CopyLabels
<1>15. tryLoadOrStoreLoad(p) => Moves(p)
  BY TryLoadOrStoreLoadValue DEF Moves, CopyLabels, Answered
<1>16. tryLoadOrStoreCAS(p) => Moves(p)
  BY TryLoadOrStoreCASValue DEF Moves, CopyLabels, Answered
<1>17. LoadOrStoreMiss(p) => Moves(p)
  BY <1>2, GotoValue, GotoWithValue, FinishValue DEF LoadOrStoreMiss, Moves, Control, TypeOK
<1>18. DeleteRead(p) => Moves(p)
  BY <1>2, GotoValue, GotoWithValue, FinishValue DEF DeleteRead, Moves, Control, TypeOK
<1>19. DeleteLocked(p) => Moves(p)
  BY <1>2, GotoValue, GotoWithValue, FinishValue DEF DeleteLocked, Moves, Control, TypeOK
<1>20. deleteLoad(p) => Moves(p)
  BY <1>2, GotoValue, GotoWithValue, FinishValue DEF deleteLoad, Moves, Control, TypeOK
<1>21. deleteCAS(p) => Moves(p)
  BY <1>2, GotoValue, GotoWithValue, FinishValue DEF deleteCAS, Moves, Control, TypeOK
<1>22. RangeRead(p) => Moves(p)
  BY <1>2, GotoValue, GotoWithValue, FinishValue DEF RangeRead, Moves, Control, TypeOK
<1>23. RangeLocked(p) => Moves(p)
  BY <1>2, GotoValue, GotoWithValue, FinishValue DEF RangeLocked, Moves, Control, TypeOK
<1>24. RangeStep(p) => Moves(p)
  BY <1>2, GotoValue, GotoWithValue, FinishValue DEF RangeStep, Moves, Control, TypeOK
<1>25. RangeEnd(p) => Moves(p)
  BY <1>2, GotoValue, GotoWithValue, FinishValue DEF RangeEnd, Moves, Control, TypeOK
<1> QED
  BY <1>3, <1>4, <1>5, <1>6, <1>7, <1>8, <1>9, <1>10, <1>11, <1>12, <1>13, <1>14, <1>15, <1>16, <1>17, <1>18, <1>19, <1>20, <1>21, <1>22, <1>23, <1>24, <1>25 DEF Step
-----------------------------------------------------------------------------
(* Every effect preserves what is said of the maps and the pointers.       *)

LEMMA DirtyNilStep ==
    ASSUME IInv, NEW p \in Proc, Step(p)
    PROVE  DirtyNil'
<1> USE SyncMapAssumption
<1>1. TypeOK /\ Control /\ Effect(p) /\ Moves(p) /\ Frame(p)
  BY StepEffect, StepMoves, StepFrame DEF IInv
<1>2. SUFFICES ASSUME dirtyNil' PROVE DirtyNil'
  BY DEF DirtyNil
<1>3. \A q \in Proc \ {p} : pc'[q] = pc[q]
  BY <1>1 DEF Frame
<1>4. CASE Promotes(p)
  <2>1. \A q \in Proc \ {p} : pc[q] # "missLocked"
    BY <1>4 DEF Promotes, IInv, MutualExclusion, Critical
  <2> QED BY <1>3, <1>4, <2>1 DEF Promotes, DirtyNil, TypeOK
<1>5. CASE ~Promotes(p)
  <2>1. dirtyNil /\ dirty = NoKeys /\ ~read.amended /\ \A q \in Proc : pc[q] # "missLocked"
    BY <1>1, <1>2, <1>5 DEF Effect, Quiet, Writes, Unexpunges, Copies, Adds,
          StartsCopy, Removes, IInv, DirtyNil
  <2>2. Quiet(p) \/ Writes(p) \/ Removes(p)
    <3>1. \A k \in Key : ~Copies(p, k)
      BY <2>1, <1>1 DEF Copies, Copying, IInv, CopyInv
    <3>2. \A e \in Entry : ~Adds(p, e)
      BY <2>1, <1>1 DEF Adds, IInv, CopyInv
    <3>3. ~Unexpunges(p)
      <4>1. SUFFICES ASSUME Unexpunges(p) PROVE FALSE
        OBVIOUS
      <4>2. ent[p] = read.m[call[p].key] /\ ent[p] # nil /\ ptr[ent[p]] = expunged
        BY <1>1, <4>1 DEF Unexpunges, IInv, UnexpungeInv, Control
      <4>4. call[p] \in Calls /\ call[p].op # "Range"
        BY <1>1, <4>1 DEF Unexpunges, Control, TypeOK
      <4>5. call[p].key \in Key
        BY <4>4, CallArguments
      <4>3. \A q \in Proc : ~Copying(q, call[p].key)
        BY <1>1, <2>1 DEF IInv, CopyInv, Copying
      <4> QED BY <2>1, <4>2, <4>3, <4>5 DEF IInv, DirtyMirrorsRead
    <3> QED BY <1>1, <1>2, <1>5, <3>1, <3>2, <3>3 DEF Effect, StartsCopy
  <2>3. dirty' = NoKeys /\ ~read'.amended
    BY <2>1, <2>2 DEF Quiet, Writes, Removes, NoKeys
  <2>4. pc'[p] # "missLocked"
    <3>1. SUFFICES ASSUME pc'[p] = "missLocked" PROVE FALSE
      OBVIOUS
    <3>2. mu = p /\ read.m[call[p].key] = nil /\ pc[p] \in {"load", "cas"}
      BY <3>1, <1>1 DEF Moves, CopyLabels
    <3>3. ent[p] # nil /\ ent[p] \in {read.m[call[p].key], dirty[call[p].key]}
      BY <1>1, <3>2 DEF IInv, SlowPathSafe, Control
    <3>4. call[p].key \in Key
      BY <1>1, <3>2, CallArguments DEF Control, TypeOK
    <3> QED BY <2>1, <3>2, <3>3, <3>4 DEF NoKeys
  <2> QED BY <1>3, <2>1, <2>3, <2>4 DEF DirtyNil
<1> QED BY <1>4, <1>5

\* Facts about the entry a step of p adds, copies or writes.
LEMMA AddedIsNew ==
    ASSUME TypeOK, NEW p \in Proc, NEW e, Adds(p, e)
    PROVE  /\ e \in Entry
           /\ \A k \in Key : read.m[k] # e /\ dirty[k] # e
           /\ \A q \in Proc : ent[q] # e
BY DEF Adds, Referenced

LEMMA DistinctStep ==
    ASSUME IInv, NEW p \in Proc, Step(p)
    PROVE  EntriesDistinct'
<1> USE SyncMapAssumption
<1>1. TypeOK /\ Control /\ Effect(p) /\ EntriesDistinct
  BY StepEffect DEF IInv
<1>2. dirty \in [Key -> Entry \cup {nil}]
  BY <1>1 DEF TypeOK, Maps
<1>3. CASE Quiet(p) \/ Writes(p) \/ StartsCopy(p)
  BY <1>1, <1>3 DEF Quiet, Writes, StartsCopy, EntriesDistinct
<1>4. CASE Promotes(p)
  BY <1>1, <1>4 DEF Promotes, EntriesDistinct, NoKeys
<1>5. CASE Removes(p)
  BY <1>1, <1>2, <1>5 DEF Removes, EntriesDistinct
<1>6. CASE Unexpunges(p)
  <2>1. ent[p] = read.m[call[p].key]
    BY <1>6 DEF IInv, UnexpungeInv, Unexpunges
  <2> QED BY <1>1, <1>2, <1>6, <2>1 DEF Unexpunges, EntriesDistinct
<1>7. ASSUME NEW k \in Key, Copies(p, k) PROVE EntriesDistinct'
  <2>1. todo[p][k] = read.m[k]
    BY <1>7 DEF IInv, CopyInv, Copies, Copying
  <2> QED BY <1>1, <1>2, <1>7, <2>1 DEF Copies, EntriesDistinct
<1>8. ASSUME NEW e \in Entry, Adds(p, e) PROVE EntriesDistinct'
  <2>1. \A k \in Key : read'.m[k] = read.m[k] /\ read.m[k] # e /\ dirty[k] # e
    BY <1>1, <1>8, AddedIsNew DEF Adds
  <2>2. \A k \in Key : dirty'[k] = IF k = call[p].key THEN e ELSE dirty[k]
    BY <1>2, <1>8 DEF Adds
  <2> QED BY <1>1, <2>1, <2>2 DEF EntriesDistinct
<1> QED BY <1>1, <1>3, <1>4, <1>5, <1>6, <1>7, <1>8 DEF Effect

LEMMA NotExpungedStep ==
    ASSUME IInv, NEW p \in Proc, Step(p)
    PROVE  DirtyNotExpunged'
<1> USE SyncMapAssumption
<1>1. TypeOK /\ Control /\ Effect(p) /\ DirtyNotExpunged
  BY StepEffect DEF IInv
<1>2. /\ dirty \in [Key -> Entry \cup {nil}] /\ read.m \in [Key -> Entry \cup {nil}]
      /\ ptr \in [Entry -> Value \cup Gone]
  BY <1>1 DEF TypeOK, Maps
<1>3. CASE Quiet(p) \/ StartsCopy(p)
  BY <1>1, <1>3 DEF Quiet, StartsCopy, DirtyNotExpunged
<1>4. CASE Writes(p)
  BY <1>1, <1>2, <1>4 DEF Writes, DirtyNotExpunged
<1>5. CASE Promotes(p)
  BY <1>1, <1>5 DEF Promotes, DirtyNotExpunged, NoKeys
<1>6. CASE Removes(p)
  BY <1>1, <1>2, <1>6 DEF Removes, DirtyNotExpunged
<1>7. CASE Unexpunges(p)
  <2>1. ent[p] \in Entry
    BY <1>1, <1>7 DEF Unexpunges, Control, TypeOK
  <2>2. ptr'[ent[p]] = nil /\ \A e \in Entry \ {ent[p]} : ptr'[e] = ptr[e]
    BY <1>2, <1>7, <2>1 DEF Unexpunges
  <2>3. \A k \in Key : dirty'[k] = dirty[k] \/ dirty'[k] = ent[p]
    BY <1>2, <1>7 DEF Unexpunges
  <2> QED BY <1>1, <1>2, <2>1, <2>2, <2>3 DEF DirtyNotExpunged
<1>8. ASSUME NEW k \in Key, Copies(p, k) PROVE DirtyNotExpunged'
  <2>1. todo[p][k] = read.m[k] /\ read.m[k] \in Entry /\ dirty[k] = nil
    BY <1>2, <1>8 DEF IInv, CopyInv, Copies, Copying
  <2>2. \A j \in Key \ {k} : dirty[j] # nil => dirty[j] # read.m[k]
    BY <2>1 DEF IInv, EntriesDistinct
  <2> QED BY <1>1, <1>2, <1>8, <2>1, <2>2 DEF Copies, DirtyNotExpunged
<1>9. ASSUME NEW e \in Entry, Adds(p, e) PROVE DirtyNotExpunged'
  <2>1. PICK v \in Value : ptr' = [ptr EXCEPT ![e] = v]
    BY <1>9 DEF Adds
  <2>2. ptr'[e] # expunged /\ \A d \in Entry \ {e} : ptr'[d] = ptr[d]
    BY <1>2, <2>1
  <2>3. \A k \in Key : dirty'[k] = dirty[k] \/ dirty'[k] = e
    BY <1>2, <1>9 DEF Adds
  <2> QED BY <1>1, <1>2, <2>2, <2>3 DEF DirtyNotExpunged
<1> QED BY <1>1, <1>3, <1>4, <1>5, <1>6, <1>7, <1>8, <1>9 DEF Effect

\* The key of the call a goroutine is making.
LEMMA KeyOfCall ==
    ASSUME TypeOK, Control, NEW p \in Proc,
           pc[p] \in {"load", "cas", "unexpunge", "storeLocked", "newKey",
                      "expungeLoad", "expungeCAS", "missLocked"}
    PROVE  call[p].key \in Key
<1>1. call[p] \in Calls /\ call[p].op # "Range"
  BY DEF TypeOK, Control
<1> QED BY <1>1, CallArguments

LEMMA MirrorsStep ==
    ASSUME IInv, NEW p \in Proc, Step(p)
    PROVE  DirtyMirrorsRead'
<1> USE SyncMapAssumption
<1>1. TypeOK /\ Control /\ MutualExclusion /\ Effect(p) /\ DirtyMirrorsRead
  BY StepEffect DEF IInv
<1>2. /\ dirty \in [Key -> Entry \cup {nil}] /\ read.m \in [Key -> Entry \cup {nil}]
      /\ ptr \in [Entry -> Value \cup Gone]
  BY <1>1 DEF TypeOK, Maps
<1>3. \A q \in Proc \ {p}, k \in Key : Copying(q, k)' <=> Copying(q, k)
  BY StepFrame, <1>1 DEF Frame, Copying
<1>4. SameCopying(p) => \A q \in Proc, k \in Key : Copying(q, k)' <=> Copying(q, k)
  BY <1>3 DEF SameCopying
<1>5. CASE Quiet(p)
  BY <1>1, <1>4, <1>5 DEF Quiet, DirtyMirrorsRead
<1>6. CASE Writes(p)
  <2>1. \A e \in Entry : ptr'[e] = expunged <=> ptr[e] = expunged
    BY <1>2, <1>6 DEF Writes
  <2> QED BY <1>1, <1>2, <1>4, <1>6, <2>1 DEF Writes, DirtyMirrorsRead
<1>7. CASE Promotes(p)
  <2>1. \A k \in Key : dirty[k] # nil => ptr[dirty[k]] # expunged
    BY DEF IInv, DirtyNotExpunged
  <2> QED BY <1>7, <2>1 DEF Promotes, DirtyMirrorsRead
<1>8. CASE Removes(p)
  BY <1>1, <1>2, <1>4, <1>8 DEF Removes, DirtyMirrorsRead
<1>9. CASE StartsCopy(p)
  <2>1. \A k \in Key : read.m[k] # nil => Copying(p, k)'
    BY <1>9 DEF StartsCopy, Copying
  <2> QED BY <1>9, <2>1 DEF StartsCopy, DirtyMirrorsRead
<1>10. CASE Unexpunges(p)
  <2> DEFINE k == call[p].key
  <2>1. k \in Key /\ ent[p] = read.m[k] /\ ent[p] \in Entry
    BY <1>1, <1>10, KeyOfCall DEF Unexpunges, IInv, UnexpungeInv, Control, TypeOK
  <2>2. \A q \in Proc : ~Copying(q, k)
    BY <1>1, <1>10, <2>1, OneCopier DEF Unexpunges, Copying
  <2>3. ~dirtyNil
    BY <1>1, <1>10, <2>1, <2>2 DEF DirtyMirrorsRead, Unexpunges
  <2>4. dirty'[k] = read.m[k] /\ ptr'[read.m[k]] = nil
    BY <1>2, <1>10, <2>1 DEF Unexpunges
  <2>5. \A j \in Key \ {k} :
          /\ dirty'[j] = dirty[j]
          /\ read.m[j] # nil => ptr'[read.m[j]] = ptr[read.m[j]]
    BY <1>2, <1>10, <2>1 DEF Unexpunges, IInv, EntriesDistinct
  <2>6. read' = read /\ dirtyNil' = dirtyNil
    BY <1>10 DEF Unexpunges
  <2>7. \A q \in Proc, j \in Key : Copying(q, j)' <=> Copying(q, j)
    BY <1>4, <1>10 DEF Unexpunges
  <2> HIDE DEF k
  <2> QED BY <1>1, <2>1, <2>3, <2>4, <2>5, <2>6, <2>7 DEF DirtyMirrorsRead
<1>11. ASSUME NEW k \in Key, Copies(p, k) PROVE DirtyMirrorsRead'
  <2>1. todo[p][k] = read.m[k] /\ read.m[k] \in Entry /\ ~dirtyNil
    BY <1>2, <1>11 DEF IInv, CopyInv, Copies, Copying
  <2>2. dirty'[k] = IF ptr'[read.m[k]] = expunged THEN nil ELSE read.m[k]
    BY <1>2, <1>11, <2>1 DEF Copies
  <2>7. \A j \in Key \ {k} : read.m[j] # read.m[k]
    BY <2>1 DEF IInv, EntriesDistinct
  <2>8. \A e \in Entry \ {read.m[k]} : ptr'[e] = ptr[e]
    BY <1>2, <1>11, <2>1 DEF Copies
  <2>9. \A j \in Key \ {k} : dirty'[j] = dirty[j]
    BY <1>2, <1>11 DEF Copies
  <2>3. \A j \in Key \ {k} :
          /\ dirty'[j] = dirty[j]
          /\ read.m[j] # nil => ptr'[read.m[j]] = ptr[read.m[j]]
    BY <1>2, <2>7, <2>8, <2>9
  <2>4. \A j \in Key \ {k} : Copying(p, j) => Copying(p, j)'
    BY <1>11 DEF Copies, Copying
  <2>5. \A q \in Proc, j \in Key \ {k} : Copying(q, j) => Copying(q, j)'
    BY <1>3, <2>4
  <2>6. read' = read /\ dirtyNil' = dirtyNil
    BY <1>11 DEF Copies
  <2> QED BY <1>1, <2>1, <2>2, <2>3, <2>5, <2>6 DEF DirtyMirrorsRead
<1>12. ASSUME NEW e \in Entry, Adds(p, e) PROVE DirtyMirrorsRead'
  <2>1. \A k \in Key : read.m[k] # e
    BY <1>1, <1>12, AddedIsNew
  <2>2. \A k \in Key : read.m[k] # nil => ptr'[read.m[k]] = ptr[read.m[k]]
    BY <1>2, <1>12, <2>1 DEF Adds
  <2>3. call[p].key \in Key /\ read.m[call[p].key] = nil /\ read'.m = read.m /\ dirtyNil' = dirtyNil
    BY <1>1, <1>12, KeyOfCall DEF Adds, IInv, CopyInv
  <2>4. \A k \in Key : read.m[k] # nil => dirty'[k] = dirty[k]
    BY <1>2, <1>12, <2>3 DEF Adds
  <2>5. \A q \in Proc, k \in Key : Copying(q, k)' <=> Copying(q, k)
    BY <1>3, <1>12 DEF Adds
  <2> QED BY <1>1, <2>2, <2>3, <2>4, <2>5 DEF DirtyMirrorsRead
<1> QED BY <1>1, <1>5, <1>6, <1>7, <1>8, <1>9, <1>10, <1>11, <1>12 DEF Effect
-----------------------------------------------------------------------------
(* What is said of the goroutines' local variables.                        *)

\* While q holds mu the others leave the maps alone.
LEMMA HolderKeepsMaps ==
    ASSUME IInv, NEW p \in Proc, Step(p), NEW q \in Proc \ {p}, mu = q
    PROVE  Quiet(p) \/ Writes(p)
BY StepEffect, SyncMapAssumption
   DEF Effect, Promotes, Unexpunges, Copies, Adds, StartsCopy, Removes

LEMMA CopyStep ==
    ASSUME IInv, NEW p \in Proc, Step(p)
    PROVE  CopyInv'
<1> USE SyncMapAssumption
<1>1. TypeOK /\ Control /\ MutualExclusion /\ Moves(p) /\ Frame(p) /\ CopyInv
  BY StepMoves, StepFrame DEF IInv
<1>2. ASSUME NEW q \in Proc, pc'[q] \in {"newKey", "expungeLoad", "expungeCAS"}
      PROVE  /\ ~dirtyNil'
             /\ read'.m[call'[q].key] = nil
             /\ \A k \in Key : todo'[q][k] # nil =>
                  todo'[q][k] = read'.m[k] /\ dirty'[k] = nil
  <2>1. CASE q # p
    <3>1. pc[q] = pc'[q] /\ todo'[q] = todo[q] /\ call'[q] = call[q]
      BY <1>1, <1>2, <2>1 DEF Frame
    <3>2. mu = q
      BY <1>1, <1>2, <3>1 DEF MutualExclusion, Critical
    <3>3. UNCHANGED <<read, dirty, dirtyNil>>
      BY <2>1, <3>2, HolderKeepsMaps DEF Quiet, Writes
    <3> QED BY <1>1, <1>2, <3>1, <3>3 DEF CopyInv
  <2>2. CASE q = p /\ pc[p] \notin CopyLabels
    <3>1. /\ read.m[call[p].key] = nil /\ UNCHANGED <<read, dirty>>
          /\ dirtyNil' = (dirtyNil /\ read.amended) /\ call' = call
          /\ todo'[p] = IF ~read.amended /\ dirtyNil THEN read.m ELSE NoKeys
      BY <1>1, <1>2, <2>2 DEF Moves, CopyLabels, Frame
    <3>2. dirtyNil => dirty = NoKeys /\ ~read.amended
      BY DEF IInv, DirtyNil
    <3> QED BY <2>2, <3>1, <3>2 DEF NoKeys
  <2>3. CASE q = p /\ pc[p] \in CopyLabels
    <3>1. /\ UNCHANGED <<read, dirtyNil, call>>
          /\ \/ UNCHANGED <<dirty, todo>>
             \/ \E j \in Key : KeyCopied(p, j, nil) \/ KeyCopied(p, j, todo[p][j])
      BY <1>1, <1>2, <2>3 DEF Moves, CopyLabels, Frame
    <3>2. CASE UNCHANGED <<dirty, todo>>
      BY <1>1, <2>3, <3>1, <3>2 DEF CopyInv, CopyLabels
    <3>3. ASSUME NEW j \in Key, NEW e, KeyCopied(p, j, e)
          PROVE  /\ todo'[p][j] = nil
                 /\ \A k \in Key \ {j} : todo'[p][k] = todo[p][k] /\ dirty'[k] = dirty[k]
      BY <1>1, <3>3, KeyCopiedValue
    <3> QED BY <1>1, <2>3, <3>1, <3>2, <3>3 DEF CopyInv, CopyLabels
  <2> QED BY <2>1, <2>2, <2>3
<1> QED BY <1>2 DEF CopyInv

LEMMA EntryOfKeyStep ==
    ASSUME IInv, NEW p \in Proc, Step(p)
    PROVE  EntryOfKey'
<1> USE SyncMapAssumption
<1>1. /\ TypeOK /\ Control /\ Control' /\ Moves(p) /\ Frame(p) /\ Effect(p)
      /\ EntryOfKey /\ EntriesDistinct /\ EntriesDistinct'
  BY StepMoves, StepFrame, StepEffect, ControlStep, DistinctStep DEF IInv
<1>2. dirty \in [Key -> Entry \cup {nil}]
  BY <1>1 DEF TypeOK, Maps
<1> DEFINE L == {"load", "cas", "unexpunge", "storeLocked"}
<1>3. ASSUME NEW q \in Proc, NEW k \in Key \ {call[q].key}, pc[q] \in L
      PROVE  ent[q] \notin {read'.m[k], dirty'[k]}
  <2>1. ent[q] # nil /\ ent[q] \notin {read.m[k], dirty[k]}
    BY <1>1, <1>3 DEF Control, EntryOfKey
  <2>2. CASE Quiet(p) \/ Writes(p) \/ StartsCopy(p)
    BY <2>1, <2>2 DEF Quiet, Writes, StartsCopy
  <2>3. CASE Promotes(p)
    BY <2>1, <2>3 DEF Promotes, NoKeys
  <2>4. CASE Removes(p)
    BY <1>2, <2>1, <2>4 DEF Removes
  <2>5. CASE Unexpunges(p)
    <3>1. ent[p] = read.m[call[p].key]
      BY <2>5 DEF Unexpunges, IInv, UnexpungeInv
    <3> QED BY <1>2, <2>1, <2>5, <3>1 DEF Unexpunges
  <2>6. ASSUME NEW j \in Key, Copies(p, j) PROVE ent[q] \notin {read'.m[k], dirty'[k]}
    <3>1. todo[p][j] = read.m[j]
      BY <2>6 DEF IInv, CopyInv, Copies, Copying
    <3> QED BY <1>2, <2>1, <2>6, <3>1 DEF Copies
  <2>7. ASSUME NEW e \in Entry, Adds(p, e) PROVE ent[q] \notin {read'.m[k], dirty'[k]}
    <3>1. ent[q] # e
      BY <1>1, <2>7, AddedIsNew
    <3> QED BY <1>2, <2>1, <2>7, <3>1 DEF Adds
  <2> QED BY <1>1, <2>2, <2>3, <2>4, <2>5, <2>6, <2>7 DEF Effect
<1>4. ASSUME NEW q \in Proc, pc'[q] \in L, NEW k \in Key \ {call'[q].key}
      PROVE  ent'[q] \notin {read'.m[k], dirty'[k]}
  <2>1. call'[q] = call[q]
    BY <1>1 DEF Frame
  <2>2. CASE pc[q] \in L /\ ent'[q] = ent[q]
    BY <1>3, <1>4, <2>1, <2>2
  <2>3. CASE q = p /\ ent'[p] \in {read'.m[call[p].key], dirty'[call[p].key]} /\ call[p].key \in Key
    <3>1. ent'[p] # nil
      BY <1>1, <1>4, <2>3 DEF Control
    <3>2. k \in Key /\ k # call[p].key
      BY <1>4, <2>1, <2>3
    <3>3. {read'.m[call[p].key], dirty'[call[p].key]} \cap {read'.m[k], dirty'[k]} \subseteq {nil}
      BY <1>1, <2>3, <3>2 DEF EntriesDistinct
    <3> QED BY <2>3, <3>1, <3>3
  <2>4. q # p => pc[q] \in L /\ ent'[q] = ent[q]
    BY <1>1, <1>4 DEF Frame
  <2>5. q = p => \/ pc[q] \in L /\ ent'[q] = ent[q]
                 \/ ent'[p] \in {read'.m[call[p].key], dirty'[call[p].key]}
    BY <1>1, <1>4 DEF Moves, Same, CopyLabels
  <2>6. q = p => call[p].key \in Key
    <3>1. call'[q] # nil /\ call'[q].op # "Range"
      BY <1>1, <1>4 DEF Control
    <3>2. call[q] \in Calls
      BY <1>1, <2>1, <3>1 DEF TypeOK
    <3> QED BY <2>1, <3>1, <3>2, CallArguments
  <2> QED BY <2>2, <2>3, <2>4, <2>5, <2>6
<1> QED BY <1>4 DEF EntryOfKey

LEMMA UnexpungeStep ==
    ASSUME IInv, NEW p \in Proc, Step(p)
    PROVE  UnexpungeInv'
<1> USE SyncMapAssumption
<1>1. TypeOK /\ Control /\ MutualExclusion /\ Moves(p) /\ Frame(p) /\ UnexpungeInv
  BY StepMoves, StepFrame DEF IInv
<1>2. ASSUME NEW q \in Proc, pc'[q] = "unexpunge"
      PROVE  ent'[q] = read'.m[call'[q].key]
  <2>1. CASE q # p
    <3>1. pc[q] = "unexpunge" /\ ent'[q] = ent[q] /\ call'[q] = call[q]
      BY <1>1, <1>2, <2>1 DEF Frame
    <3>2. mu = q
      BY <1>1, <3>1 DEF MutualExclusion, Critical
    <3>3. read' = read
      BY <2>1, <3>2, HolderKeepsMaps DEF Quiet, Writes
    <3> QED BY <1>1, <3>1, <3>3 DEF UnexpungeInv
  <2>2. CASE q = p
    BY <1>1, <1>2, <2>2 DEF Moves, Same, CopyLabels, Frame
  <2> QED BY <2>1, <2>2
<1> QED BY <1>2 DEF UnexpungeInv

LEMMA FastPathStep ==
    ASSUME IInv, NEW p \in Proc, Step(p)
    PROVE  FastPathSafe'
<1> USE SyncMapAssumption
<1>1. /\ TypeOK /\ Control /\ Control' /\ MutualExclusion /\ Moves(p) /\ Frame(p)
      /\ Effect(p) /\ FastPathSafe /\ EntryOfKey /\ DirtyMirrorsRead
  BY StepMoves, StepFrame, StepEffect, ControlStep DEF IInv
<1>2. /\ \/ mu' = mu
         \/ mu = nil /\ mu' = p
         \/ mu = p /\ mu' = nil
      /\ Critical(p)' <=> mu' = p
      /\ Critical(p) <=> mu = p
  BY <1>1, MuStep DEF MutualExclusion
<1>3. ptr \in [Entry -> Value \cup Gone]
  BY <1>1 DEF TypeOK
<1> DEFINE Unlocked == {"Store", "LoadOrStore", "Delete"}
\* An entry found without mu stays the one of its key until it is expunged.
<1>4. ASSUME NEW q \in Proc, pc[q] \in {"load", "cas"},
             call[q].op \in Unlocked, mu # q, ptr'[ent[q]] # expunged
      PROVE  read'.m[call[q].key] = ent[q]
  <2>1. /\ call[q].key \in Key /\ ent[q] \in Entry
        /\ ptr[ent[q]] # expunged => read.m[call[q].key] = ent[q]
    BY <1>1, <1>4, KeyOfCall DEF FastPathSafe, Control, TypeOK
  <2>2. CASE Quiet(p) \/ StartsCopy(p) \/ Removes(p)
    BY <1>4, <2>1, <2>2 DEF Quiet, StartsCopy, Removes
  <2>3. CASE Writes(p)
    BY <1>3, <1>4, <2>1, <2>3 DEF Writes
  <2>4. CASE Promotes(p)
    <3>1. \A r \in Proc : ~Copying(r, call[q].key)
      BY <1>1, <2>1, <2>4, OneCopier DEF Promotes
    <3> QED BY <1>1, <1>4, <2>1, <2>4, <3>1 DEF Promotes, DirtyMirrorsRead
  <2>5. CASE Unexpunges(p)
    <3>1. ent[p] = read.m[call[p].key] /\ ent[p] \in Entry /\ call[p].key \in Key
      BY <1>1, <2>5, KeyOfCall DEF Unexpunges, IInv, UnexpungeInv, Control, TypeOK
    <3>2. CASE ent[q] = ent[p]
      <4>1. call[q].key = call[p].key
        BY <1>1, <1>4, <3>1, <3>2 DEF EntryOfKey
      <4> QED BY <2>5, <3>1, <3>2, <4>1 DEF Unexpunges
    <3>3. CASE ent[q] # ent[p]
      BY <1>3, <1>4, <2>1, <2>5, <3>1, <3>3 DEF Unexpunges
    <3> QED BY <3>2, <3>3
  <2>6. ASSUME NEW k \in Key, Copies(p, k) PROVE read'.m[call[q].key] = ent[q]
    BY <1>3, <1>4, <2>1, <2>6 DEF Copies
  <2>7. ASSUME NEW e \in Entry, Adds(p, e) PROVE read'.m[call[q].key] = ent[q]
    <3>1. ent[q] # e
      BY <1>1, <2>7, AddedIsNew
    <3> QED BY <1>3, <1>4, <2>1, <2>7, <3>1 DEF Adds
  <2> QED BY <1>1, <2>2, <2>3, <2>4, <2>5, <2>6, <2>7 DEF Effect
<1>5. ASSUME NEW q \in Proc, pc'[q] \in {"load", "cas"},
             call'[q].op \in Unlocked, mu' # q, ptr'[ent'[q]] # expunged
      PROVE  read'.m[call'[q].key] = ent'[q]
  <2>1. call'[q] = call[q]
    BY <1>1 DEF Frame
  <2>2. CASE q # p
    <3>1. pc[q] = pc'[q] /\ ent'[q] = ent[q]
      BY <1>1, <1>5, <2>2 DEF Frame
    <3>2. mu # q
      BY <1>2, <1>5, <2>2
    <3> QED BY <1>4, <1>5, <2>1, <3>1, <3>2
  <2>3. CASE q = p
    <3>1. \/ pc[p] \in {"load", "cas"} /\ ent'[p] = ent[p] /\ mu' = mu
          \/ ent'[p] = read'.m[call[p].key]
      BY <1>1, <1>2, <1>5, <2>1, <2>3 DEF Moves, Same, CopyLabels, Critical
    <3> QED BY <1>4, <1>5, <2>1, <2>3, <3>1
  <2> QED BY <2>2, <2>3
<1> QED BY <1>5 DEF FastPathSafe

LEMMA SlowPathStep ==
    ASSUME IInv, NEW p \in Proc, Step(p)
    PROVE  SlowPathSafe'
<1> USE SyncMapAssumption
<1>1. /\ TypeOK /\ Control /\ MutualExclusion /\ Moves(p) /\ Frame(p) /\ SlowPathSafe
      /\ \/ mu' = mu
         \/ mu = nil /\ mu' = p
         \/ mu = p /\ mu' = nil
      /\ Critical(p) <=> mu = p
  BY StepMoves, StepFrame, MuStep DEF IInv, MutualExclusion
<1>2. ptr \in [Entry -> Value \cup Gone]
  BY <1>1 DEF TypeOK
<1>3. ASSUME NEW q \in Proc,
             \/ pc'[q] = "storeLocked"
             \/ pc'[q] \in {"load", "cas"} /\ mu' = q
      PROVE  /\ ptr'[ent'[q]] # expunged
             /\ ent'[q] \in {read'.m[call'[q].key], dirty'[call'[q].key]}
  <2>1. call'[q] = call[q]
    BY <1>1 DEF Frame
  <2>2. CASE q # p
    <3>1. pc[q] = pc'[q] /\ ent'[q] = ent[q]
      BY <1>1, <1>3, <2>2 DEF Frame
    <3>2. mu = q
      BY <1>1, <1>3, <2>2, <3>1 DEF MutualExclusion, Critical
    <3>3. ptr[ent[q]] # expunged /\ ent[q] \in {read.m[call[q].key], dirty[call[q].key]}
      BY <1>1, <1>3, <3>1, <3>2 DEF SlowPathSafe
    <3>4. ent[q] \in Entry
      BY <1>1, <1>3, <3>1 DEF Control, TypeOK
    <3>5. CASE Quiet(p)
      BY <2>1, <3>1, <3>3, <3>5 DEF Quiet
    <3>6. CASE Writes(p)
      BY <1>2, <2>1, <3>1, <3>3, <3>4, <3>6 DEF Writes
    <3> QED BY <2>2, <3>2, <3>5, <3>6, HolderKeepsMaps
  <2>3. CASE q = p /\ pc[p] \in {"load", "cas"}
    BY <1>1, <1>3, <2>1, <2>3 DEF Moves, Same, CopyLabels, SlowPathSafe
  <2>4. CASE q = p /\ pc[p] = "unexpunge"
    <3>1. ent[p] \in Entry /\ ent[p] = read.m[call[p].key]
      BY <1>1, <2>4 DEF IInv, UnexpungeInv, Control, TypeOK
    <3>2. /\ ent'[p] = ent[p] /\ read' = read
          /\ ptr' = IF ptr[ent[p]] = expunged THEN [ptr EXCEPT ![ent[p]] = nil] ELSE ptr
      BY <1>1, <1>3, <2>4 DEF Moves, CopyLabels
    <3>3. ptr'[ent[p]] # expunged
      BY <1>2, <3>1, <3>2
    <3> QED BY <2>1, <2>4, <3>1, <3>2, <3>3
  <2>5. CASE q = p /\ pc[p] \notin {"load", "cas", "unexpunge"}
    <3>1. ent'[p] = dirty[call[p].key] /\ ent'[p] # nil /\ Same
      BY <1>1, <1>3, <2>5 DEF Moves, CopyLabels, Critical
    <3>2. call[p].key \in Key
      BY <1>1, <1>3, <2>1, <2>5, ControlStep, CallArguments DEF Control, TypeOK
    <3>3. ptr[dirty[call[p].key]] # expunged
      BY <3>1, <3>2 DEF IInv, DirtyNotExpunged
    <3> QED BY <2>1, <2>5, <3>1, <3>3 DEF Same
  <2> QED BY <2>2, <2>3, <2>4, <2>5
<1> QED BY <1>3 DEF SlowPathSafe
-----------------------------------------------------------------------------
(* The theorems.                                                           *)

LEMMA InvInit == Init => IInv
<1> SUFFICES ASSUME Init PROVE IInv
  OBVIOUS
<1> USE SyncMapAssumption DEF Init
<1>1. TypeOK /\ Control
  BY TypeInit
<1>2. MutualExclusion /\ DirtyNil /\ DirtyNotExpunged /\ CopyInv /\ EntryOfKey /\ UnexpungeInv
  BY DEF MutualExclusion, Critical, DirtyNil, DirtyNotExpunged, CopyInv, EntryOfKey,
         UnexpungeInv, NoKeys
<1>3. EntriesDistinct /\ DirtyMirrorsRead /\ FastPathSafe /\ SlowPathSafe
  BY DEF EntriesDistinct, DirtyMirrorsRead, FastPathSafe, SlowPathSafe, NoKeys
<1> QED BY <1>1, <1>2, <1>3 DEF IInv

\* A call begins or ends: the map and the other goroutines are left alone.
LEMMA InvOutside ==
    ASSUME IInv, NEW p \in Proc, Invoke(p) \/ Return(p)
    PROVE  IInv'
<1> USE SyncMapAssumption
<1>1. TypeOK' /\ Control'
  <2>1. TypeOK'
    BY TypeStep DEF IInv
  <2>2. Control'
    <3>1. CASE Invoke(p)
      BY <3>1 DEF Invoke, Goto, IInv, TypeOK, Control, Calls
    <3>2. CASE Return(p)
      BY <3>2 DEF Return, Goto, IInv, TypeOK, Control
    <3> QED BY <3>1, <3>2
  <2> QED BY <2>1, <2>2
<1>2. /\ UNCHANGED <<mu, read, dirty, dirtyNil, misses, ptr, ent, old, todo>>
      /\ pc[p] \in {"idle", "ret"} /\ pc'[p] \in {"read", "idle"}
      /\ \A q \in Proc \ {p} : pc'[q] = pc[q] /\ call'[q] = call[q]
  BY DEF Invoke, Return, Goto, shared, locals, IInv, TypeOK
<1>3. \A q \in Proc : Critical(q)' <=> Critical(q)
  BY <1>2 DEF Critical
<1>4. \A q \in Proc, k \in Key : Copying(q, k)' <=> Copying(q, k)
  BY <1>2 DEF Copying
<1>5. MutualExclusion'
  BY <1>2, <1>3 DEF IInv, MutualExclusion
<1>6. DirtyNil' /\ DirtyNotExpunged' /\ EntriesDistinct'
  BY <1>2 DEF IInv, DirtyNil, DirtyNotExpunged, EntriesDistinct
<1>7. DirtyMirrorsRead'
  BY <1>2, <1>4 DEF IInv, DirtyMirrorsRead
<1>8. CopyInv' /\ UnexpungeInv'
  BY <1>2 DEF IInv, CopyInv, UnexpungeInv
<1>9. EntryOfKey'
  BY <1>2 DEF IInv, EntryOfKey
<1>10. FastPathSafe' /\ SlowPathSafe'
  BY <1>2 DEF IInv, FastPathSafe, SlowPathSafe
<1> QED BY <1>1, <1>5, <1>6, <1>7, <1>8, <1>9, <1>10 DEF IInv

LEMMA InvNext == IInv /\ [Next]_vars => IInv'
<1>1. SUFFICES ASSUME IInv, [Next]_vars PROVE IInv'
  OBVIOUS
<1>2. CASE UNCHANGED vars
  BY <1>1, <1>2 DEF vars, IInv, TypeOK, Control, MutualExclusion, Critical, DirtyNil,
     DirtyNotExpunged, CopyInv, EntryOfKey, UnexpungeInv, EntriesDistinct,
     DirtyMirrorsRead, Copying, FastPathSafe, SlowPathSafe
<1>3. ASSUME NEW p \in Proc, Step(p) PROVE IInv'
  <2>1. TypeOK /\ Control /\ MutualExclusion
    BY <1>1 DEF IInv
  <2>2. TypeOK' /\ Control' /\ MutualExclusion'
    BY <1>3, <2>1, TypeStep, ControlStep, MutexStep
  <2> QED
    BY <1>1, <1>3, <2>2, DirtyNilStep, DistinctStep, NotExpungedStep, MirrorsStep,
       CopyStep, EntryOfKeyStep, UnexpungeStep, FastPathStep, SlowPathStep DEF IInv
<1>4. ASSUME NEW p \in Proc, Invoke(p) \/ Return(p) PROVE IInv'
  BY <1>1, <1>4, InvOutside
<1> QED BY <1>1, <1>2, <1>3, <1>4 DEF Next

\* The inductive invariant holds of every reachable state.
THEOREM Invariant == Spec => []IInv
BY InvInit, InvNext, PTL DEF Spec

\* Every variable keeps its type: no access through a nil entry, no key or
\* value from nowhere.
THEOREM TypeCorrect == Spec => []TypeOK
<1>1. IInv => TypeOK
  BY DEF IInv
<1> QED BY <1>1, Invariant, PTL

\* The comment of Map.dirty: while no copy is under way the dirty map holds
\* exactly the non-expunged entries of read, besides the keys read lacks.
THEOREM DirtyMapCorrect == Spec => []DirtyMirrorsRead
<1>1. IInv => DirtyMirrorsRead
  BY DEF IInv
<1> QED BY <1>1, Invariant, PTL

\* No write is lost on the path without mu: a goroutine about to update an
\* entry updates the one its key is looked up in, or finds it expunged.
THEOREM NoLostWrite == Spec => []FastPathSafe
<1>1. IInv => FastPathSafe
  BY DEF IInv
<1> QED BY <1>1, Invariant, PTL

\* Nor on the path with it: there the entry is never expunged, so the result
\* tryLoadOrStore gives for an expunged entry, which LoadOrStore ignores, is
\* never given.
THEOREM LockedPathSafe == Spec => []SlowPathSafe
<1>1. IInv => SlowPathSafe
  BY DEF IInv
<1> QED BY <1>1, Invariant, PTL

\* m.dirty[key] = e never panics.
THEOREM NoPanic == Spec => []NoNilMapWrite
<1>1. IInv => NoNilMapWrite
  <2> SUFFICES ASSUME IInv, NEW p \in Proc
               PROVE  /\ pc[p] = "newKey" => ~dirtyNil
                      /\ pc[p] = "unexpunge" /\ ptr[ent[p]] = expunged =>
                           ~dirtyNil /\ dirty[call[p].key] = nil
    BY DEF NoNilMapWrite
  <2>1. pc[p] = "newKey" => ~dirtyNil
    BY DEF IInv, CopyInv
  <2>2. ASSUME pc[p] = "unexpunge", ptr[ent[p]] = expunged
        PROVE  ~dirtyNil /\ dirty[call[p].key] = nil
    <3>1. TypeOK /\ Control /\ MutualExclusion /\ DirtyMirrorsRead
      BY DEF IInv
    <3>2. call[p].key \in Key /\ ent[p] = read.m[call[p].key] /\ ent[p] # nil
      BY <2>2, <3>1, KeyOfCall DEF IInv, UnexpungeInv, Control
    <3>3. mu = p
      BY <2>2, <3>1 DEF MutualExclusion, Critical
    <3>4. \A q \in Proc : ~Copying(q, call[p].key)
      BY <2>2, <3>1, <3>2, <3>3, OneCopier DEF Copying
    <3> QED BY <2>2, <3>1, <3>2, <3>4 DEF DirtyMirrorsRead
  <2> QED BY <2>1, <2>2
<1> QED BY <1>1, Invariant, PTL

---------------------------------------------------------------------------
(* The map of MAP/map.go implements ConcurrentMap.                         *)

\* What a lookup that ends at entry e finds.
ValueIn(e) == IF ptr[e] \in Gone THEN nil ELSE ptr[e]

Pending(p) == AbsStatus(p) = "pending"

\* The pending call of p looks, or will look, for key k in entry e.
Refers(p, k, e) ==
    \/ pc[p] \in {"load", "cas"} /\ k = call[p].key /\ e = ent[p]
    \/ pc[p] = "range" /\ e = todo[p][k]

SeenType == seen \in [Proc -> [Key -> SUBSET (Value \cup {nil})]]

\* seen holds what the watched keys map to now, and nothing for other keys.
SeenInv ==
    \A p \in Proc, k \in Key :
        IF Pending(p) /\ k \in Abs!Watched(call[p])
        THEN AbsVal(k) \in seen[p][k]
        ELSE seen[p][k] = {}

\* The answer an entry still gives was right since the call began, also when
\* the maps do not refer to the entry any more, and of no other key.
RefersSeen ==
    \A p \in Proc, k \in Key, e \in Entry : Refers(p, k, e) =>
        /\ ValueIn(e) \in seen[p][k]
        /\ \A j \in Key \ {k} : e \notin {read.m[j], dirty[j]}

\* Keys only the dirty map has make read amended.
AmendedInv ==
    ~read.amended => \A k \in Key : dirty[k] # nil => read.m[k] # nil

\* The key Store and LoadOrStore add is in neither map (for read: CopyInv).
NewKeyInv ==
    \A p \in Proc : pc[p] \in CopyLabels => dirty[call[p].key] = nil

\* Range has reported the keys it is done with, or they were absent.
RangeInv ==
    \A p \in Proc :
        /\ pc[p] \notin {"range", "ret"} => visited[p] = NoKeys
        /\ pc[p] = "range" =>
             /\ call[p].op = "Range"
             /\ \A k \in Key :
                  IF todo[p][k] # nil THEN visited[p][k] = nil
                  ELSE visited[p][k] # nil \/ nil \in seen[p][k]

HInv ==
    /\ IInv /\ SeenType /\ SeenInv /\ RefersSeen
    /\ AmendedInv /\ NewKeyInv /\ RangeInv
-----------------------------------------------------------------------------
(* The contents of the abstract map.                                       *)

\* An entry both maps have for a key is the same one.
SameEntry ==
    \A k \in Key : read.m[k] # nil /\ dirty[k] # nil => dirty[k] = read.m[k]

LEMMA EntriesSame == IInv => SameEntry
<1> SUFFICES ASSUME IInv, NEW k \in Key, read.m[k] # nil, dirty[k] # nil
             PROVE  dirty[k] = read.m[k]
  BY DEF SameEntry
<1> USE SyncMapAssumption
<1>1. TypeOK /\ DirtyNil /\ CopyInv /\ DirtyMirrorsRead
  BY DEF IInv
<1>2. \A p \in Proc : ~Copying(p, k)
  BY <1>1 DEF CopyInv, Copying
<1>3. ~dirtyNil
  BY <1>1 DEF DirtyNil, NoKeys
<1> QED BY <1>1, <1>2, <1>3 DEF DirtyMirrorsRead

\* An entry either map has for a key decides what the key maps to.
LEMMA EntryDecides ==
    ASSUME IInv, NEW k \in Key, NEW e \in Entry, e \in {read.m[k], dirty[k]}
    PROVE  AbsVal(k) = ValueIn(e)
<1>1. EntryOf(k) = e /\ e # nil
  BY EntriesSame, SyncMapAssumption DEF EntryOf, SameEntry
<1> QED BY <1>1 DEF AbsVal, ValueIn

LEMMA EntriesSameNext == IInv' => SameEntry'
BY EntriesSame, PTL

LEMMA EntryDecidesNext ==
    ASSUME IInv', NEW k \in Key, NEW e \in Entry, e \in {read'.m[k], dirty'[k]}
    PROVE  AbsVal(k)' = ValueIn(e)'
<1>1. EntryOf(k)' = e /\ e # nil
  BY EntriesSameNext, SyncMapAssumption DEF EntryOf, SameEntry
<1> QED BY <1>1 DEF AbsVal, ValueIn

LEMMA NoEntry ==
    ASSUME NEW k \in Key, read.m[k] = nil, dirty[k] = nil
    PROVE  AbsVal(k) = nil
BY DEF AbsVal, EntryOf

AbsValOK == \A k \in Key : AbsVal(k) \in Value \cup {nil}

LEMMA AbsValType == TypeOK => AbsValOK
<1> SUFFICES ASSUME TypeOK, NEW k \in Key
             PROVE  AbsVal(k) \in Value \cup {nil}
  BY DEF AbsValOK
<1>1. EntryOf(k) \in Entry \cup {nil}
  BY DEF TypeOK, Maps, EntryOf
<1>2. CASE EntryOf(k) = nil
  BY <1>2 DEF AbsVal
<1>3. CASE EntryOf(k) \in Entry
  BY <1>3 DEF AbsVal, TypeOK, Gone
<1> QED BY <1>1, <1>2, <1>3

\* The entry a compare-and-swap or storeLocked is about to write is the one
\* in which the key of the call is looked up.
LEMMA WritesItsKey ==
    ASSUME IInv, NEW p \in Proc, ptr[ent[p]] # expunged,
           pc[p] \in {"cas", "storeLocked"}
    PROVE  /\ call[p].key \in Key /\ ent[p] \in Entry
           /\ ent[p] \in {read.m[call[p].key], dirty[call[p].key]}
<1>1. TypeOK /\ Control /\ FastPathSafe /\ SlowPathSafe
  BY DEF IInv
<1>2. call[p].key \in Key /\ ent[p] \in Entry
  BY <1>1, KeyOfCall DEF Control, TypeOK
<1>3. CASE pc[p] = "storeLocked" \/ mu = p
  BY <1>1, <1>2, <1>3 DEF SlowPathSafe
<1>4. CASE pc[p] = "cas" /\ mu # p
  BY <1>1, <1>2, <1>4 DEF FastPathSafe, Control
<1> QED BY <1>2, <1>3, <1>4

\* A write to the entry of key k changes what k maps to, and nothing else.
LEMMA WriteChangesKey ==
    ASSUME IInv, IInv', UNCHANGED <<read, dirty>>, NEW k \in Key,
           NEW e \in Entry, e \in {read.m[k], dirty[k]},
           NEW v \in Value \cup {nil}, ptr' = [ptr EXCEPT ![e] = v]
    PROVE  \A j \in Key : AbsVal(j)' = IF j = k THEN v ELSE AbsVal(j)
<1> USE SyncMapAssumption
<1>1. ptr \in [Entry -> Value \cup Gone] /\ EntriesDistinct
  BY DEF IInv, TypeOK
<1>2. ptr'[e] = v /\ \A d \in Entry \ {e} : ptr'[d] = ptr[d]
  BY <1>1
<1>3. AbsVal(k)' = v
  <2>1. AbsVal(k)' = ValueIn(e)'
    BY EntryDecidesNext
  <2> QED BY <1>2, <2>1 DEF ValueIn, Gone
<1>4. ASSUME NEW j \in Key \ {k} PROVE AbsVal(j)' = AbsVal(j)
  <2>1. read.m[j] # e /\ dirty[j] # e
    BY <1>1 DEF EntriesDistinct
  <2>2. EntryOf(j)' = EntryOf(j) /\ EntryOf(j) \in (Entry \cup {nil}) \ {e}
    BY <2>1 DEF EntryOf, IInv, TypeOK, Maps
  <2> QED BY <1>2, <2>2 DEF AbsVal
<1> QED BY <1>3, <1>4

\* Promoting, copying and unexpunging do not change the contents of the map.
LEMMA EffectKeeps ==
    ASSUME IInv, IInv', NEW p \in Proc, Step(p),
           \/ Quiet(p) \/ Promotes(p) \/ Unexpunges(p) \/ StartsCopy(p)
           \/ \E k \in Key : Copies(p, k)
    PROVE  \A j \in Key : AbsVal(j)' = AbsVal(j)
<1> USE SyncMapAssumption
<1>1. /\ TypeOK /\ Control /\ MutualExclusion /\ DirtyMirrorsRead /\ CopyInv
      /\ EntriesDistinct /\ UnexpungeInv
  BY DEF IInv
<1>2. /\ dirty \in [Key -> Entry \cup {nil}] /\ read.m \in [Key -> Entry \cup {nil}]
      /\ ptr \in [Entry -> Value \cup Gone]
  BY <1>1 DEF TypeOK, Maps
<1>3. CASE Quiet(p) \/ StartsCopy(p)
  BY <1>3 DEF Quiet, StartsCopy, AbsVal, EntryOf
<1>4. CASE Promotes(p)
  <2>1. \A q \in Proc, j \in Key : ~Copying(q, j)
    BY <1>1, <1>4, OneCopier DEF Promotes
  <2>2. ASSUME NEW j \in Key, read.m[j] # nil PROVE AbsVal(j)' = AbsVal(j)
    <3>1. dirty[j] = IF ptr[read.m[j]] = expunged THEN nil ELSE read.m[j]
      BY <1>1, <1>4, <2>1, <2>2 DEF DirtyMirrorsRead, Promotes
    <3> QED BY <1>4, <2>2, <3>1 DEF Promotes, AbsVal, EntryOf, NoKeys, Gone
  <2>3. ASSUME NEW j \in Key, read.m[j] = nil PROVE AbsVal(j)' = AbsVal(j)
    BY <1>4, <2>3 DEF Promotes, AbsVal, EntryOf, NoKeys
  <2> QED BY <2>2, <2>3
<1>5. ASSUME NEW e \in Entry, NEW k \in Key, e = read.m[k], read' = read,
             ptr[e] \in Gone, ptr'[e] \in Gone,
             \A d \in Entry \ {e} : ptr'[d] = ptr[d],
             \A j \in Key \ {k} : dirty'[j] = dirty[j]
      PROVE  \A j \in Key : AbsVal(j)' = AbsVal(j)
  <2>1. AbsVal(k) = nil /\ AbsVal(k)' = nil
    BY <1>5 DEF AbsVal, EntryOf
  <2>2. ASSUME NEW j \in Key \ {k} PROVE AbsVal(j)' = AbsVal(j)
    <3>1. read.m[j] # e /\ dirty[j] # e
      BY <1>1, <1>5 DEF EntriesDistinct
    <3>2. EntryOf(j)' = EntryOf(j) /\ EntryOf(j) \in (Entry \cup {nil}) \ {e}
      BY <1>2, <1>5, <3>1 DEF EntryOf
    <3> QED BY <1>5, <3>2 DEF AbsVal
  <2> QED BY <2>1, <2>2
<1>6. CASE Unexpunges(p)
  <2>1. ent[p] \in Entry /\ call[p].key \in Key /\ ent[p] = read.m[call[p].key]
    BY <1>1, <1>6, KeyOfCall DEF Unexpunges, UnexpungeInv, Control, TypeOK
  <2> QED BY <1>2, <1>5, <1>6, <2>1 DEF Unexpunges, Gone
<1>7. ASSUME NEW k \in Key, Copies(p, k)
      PROVE  \A j \in Key : AbsVal(j)' = AbsVal(j)
  <2>1. todo[p][k] = read.m[k] /\ read.m[k] \in Entry /\ read' = read
    BY <1>2, <1>7 DEF IInv, CopyInv, Copies, Copying
  <2>2. \A j \in Key \ {k} : dirty'[j] = dirty[j]
    BY <1>2, <1>7 DEF Copies
  <2>3. CASE ptr' = ptr
    <3>1. \A j \in Key : EntryOf(j)' = EntryOf(j)
      BY <2>1, <2>2 DEF EntryOf
    <3> QED BY <2>3, <3>1 DEF AbsVal
  <2>4. CASE ptr[read.m[k]] = nil /\ ptr' = [ptr EXCEPT ![read.m[k]] = expunged]
    BY <1>2, <1>5, <2>1, <2>2, <2>4 DEF Gone
  <2> QED BY <1>7, <2>1, <2>3, <2>4 DEF Copies
<1> QED BY <1>3, <1>4, <1>6, <1>7

\* Insert makes its key map to the value of the new entry.
LEMMA AddChangesKey ==
    ASSUME IInv, NEW p \in Proc, NEW e \in Entry, Adds(p, e),
           NEW v \in Value, ptr' = [ptr EXCEPT ![e] = v]
    PROVE  /\ call[p].key \in Key
           /\ \A j \in Key :
                AbsVal(j)' = IF j = call[p].key THEN v ELSE AbsVal(j)
<1> USE SyncMapAssumption
<1>1. TypeOK /\ Control /\ CopyInv
  BY DEF IInv
<1>2. /\ dirty \in [Key -> Entry \cup {nil}] /\ read.m \in [Key -> Entry \cup {nil}]
      /\ ptr \in [Entry -> Value \cup Gone]
  BY <1>1 DEF TypeOK, Maps
<1>3. PICK k \in Key : k = call[p].key /\ read.m[k] = nil
  BY <1>1, KeyOfCall DEF Adds, CopyInv
<1>4. \A j \in Key : read.m[j] # e /\ dirty[j] # e
  BY <1>1, AddedIsNew
<1>5. ptr'[e] = v /\ \A d \in Entry \ {e} : ptr'[d] = ptr[d]
  BY <1>2
<1>6. AbsVal(k)' = v
  <2>1. EntryOf(k)' = e
    BY <1>2, <1>3 DEF EntryOf, Adds
  <2> QED BY <1>5, <2>1 DEF AbsVal, Gone
<1>7. ASSUME NEW j \in Key \ {k} PROVE AbsVal(j)' = AbsVal(j)
  <2>1. EntryOf(j)' = EntryOf(j) /\ EntryOf(j) \in (Entry \cup {nil}) \ {e}
    BY <1>2, <1>3, <1>4 DEF EntryOf, Adds
  <2> QED BY <1>5, <2>1 DEF AbsVal
<1> QED BY <1>3, <1>6, <1>7

\* A key that read lacks and the dirty map cannot have maps to nothing.
LEMMA NotInRead ==
    ASSUME AmendedInv, NEW k \in Key, read.m[k] = nil, ~read.amended
    PROVE  AbsVal(k) = nil
BY DEF AmendedInv, AbsVal, EntryOf
-----------------------------------------------------------------------------
(* The inductive invariant behind the refinement.                          *)

LEMMA SeenNext ==
    ASSUME RecordSeen, NEW q \in Proc, NEW k \in Key
    PROVE  seen'[q][k] = IF Pending(q)' /\ k \in Abs!Watched(call'[q])
                         THEN seen[q][k] \cup {AbsVal(k)'} ELSE {}
BY DEF RecordSeen, Pending

LEMMA AbsValTypeNext == TypeOK' => AbsValOK'
BY AbsValType, PTL

LEMMA SeenStep ==
    ASSUME TypeOK', SeenType, RecordSeen
    PROVE  SeenType' /\ SeenInv'
<1>1. ASSUME NEW q \in Proc, NEW k \in Key
      PROVE  seen'[q][k] \in SUBSET (Value \cup {nil})
  <2>1. AbsVal(k)' \in Value \cup {nil} /\ seen[q][k] \in SUBSET (Value \cup {nil})
    BY AbsValTypeNext DEF AbsValOK, SeenType
  <2>2. seen'[q][k] = seen[q][k] \cup {AbsVal(k)'} \/ seen'[q][k] = {}
    BY SeenNext
  <2> QED BY <2>1, <2>2
<1>2. seen' = [q \in Proc |-> [k \in Key |-> seen'[q][k]]]
  BY DEF RecordSeen
<1>3. SeenType'
  BY <1>1, <1>2 DEF SeenType
<1>4. SeenInv'
  BY SeenNext DEF SeenInv
<1> QED BY <1>3, <1>4

\* The values a call has seen stay with it while it is pending.
LEMMA SeenGrows ==
    ASSUME RecordSeen, NEW q \in Proc, NEW k \in Key,
           Pending(q)', k \in Abs!Watched(call'[q])
    PROVE  seen[q][k] \subseteq seen'[q][k]
BY SeenNext

LEMMA AmendedStep ==
    ASSUME IInv, AmendedInv, NEW p \in Proc, Step(p)
    PROVE  AmendedInv'
<1> USE SyncMapAssumption
<1>1. TypeOK /\ Control /\ Effect(p)
  BY StepEffect DEF IInv
<1>2. dirty \in [Key -> Entry \cup {nil}]
  BY <1>1 DEF TypeOK, Maps
<1>3. CASE Quiet(p) \/ Writes(p) \/ StartsCopy(p)
  BY <1>3 DEF Quiet, Writes, StartsCopy, AmendedInv
<1>4. CASE Promotes(p)
  BY <1>4 DEF Promotes, AmendedInv, NoKeys
<1>5. CASE Removes(p)
  BY <1>2, <1>5 DEF Removes, AmendedInv
<1>6. CASE Unexpunges(p)
  <2>1. ent[p] = read.m[call[p].key] /\ ent[p] # nil
    BY <1>1, <1>6 DEF IInv, UnexpungeInv, Unexpunges, Control
  <2>2. \A k \in Key : dirty'[k] = dirty[k] \/ (k = call[p].key /\ dirty'[k] = ent[p])
    BY <1>2, <1>6 DEF Unexpunges
  <2> QED BY <1>6, <2>1, <2>2 DEF Unexpunges, AmendedInv
<1>7. ASSUME NEW k \in Key, Copies(p, k) PROVE AmendedInv'
  <2>1. todo[p][k] = read.m[k] /\ todo[p][k] # nil
    BY <1>7 DEF IInv, CopyInv, Copies, Copying
  <2> QED BY <1>2, <1>7, <2>1 DEF Copies, AmendedInv
<1>8. ASSUME NEW e \in Entry, Adds(p, e) PROVE AmendedInv'
  BY <1>8 DEF Adds, AmendedInv
<1> QED BY <1>1, <1>3, <1>4, <1>5, <1>6, <1>7, <1>8 DEF Effect

LEMMA NewKeyStep ==
    ASSUME IInv, NewKeyInv, NEW p \in Proc, Step(p)
    PROVE  NewKeyInv'
<1> USE SyncMapAssumption
<1>1. TypeOK /\ Control /\ MutualExclusion /\ Moves(p) /\ Frame(p) /\ CopyInv
  BY StepMoves, StepFrame DEF IInv
<1>2. ASSUME NEW q \in Proc, pc'[q] \in CopyLabels
      PROVE  dirty'[call'[q].key] = nil
  <2>1. CASE q # p
    <3>1. pc[q] = pc'[q] /\ call'[q] = call[q]
      BY <1>1, <2>1 DEF Frame
    <3>2. mu = q
      BY <1>1, <1>2, <3>1 DEF MutualExclusion, Critical, CopyLabels
    <3>3. dirty' = dirty
      BY <2>1, <3>2, HolderKeepsMaps DEF Quiet, Writes
    <3> QED BY <1>2, <3>1, <3>3 DEF NewKeyInv
  <2>2. CASE q = p /\ pc[p] \notin CopyLabels
    BY <1>1, <1>2, <2>2 DEF Moves, CopyLabels, Frame
  <2>3. CASE q = p /\ pc[p] \in CopyLabels
    <3>1. PICK k \in Key : k = call[p].key /\ k = call'[p].key
      BY <1>1, <2>3, KeyOfCall DEF Frame, CopyLabels
    <3>2. dirty[k] = nil /\ read.m[k] = nil
      BY <1>1, <2>3, <3>1 DEF NewKeyInv, CopyInv, CopyLabels
    <3>3. todo[p][k] = nil
      BY <1>1, <2>3, <3>1, <3>2 DEF CopyInv, CopyLabels
    <3>4. \/ dirty' = dirty
          \/ \E j \in Key : KeyCopied(p, j, nil) \/ KeyCopied(p, j, todo[p][j])
      BY <1>1, <1>2, <2>2, <2>3 DEF Moves, CopyLabels
    <3>5. ASSUME NEW j \in Key, KeyCopied(p, j, nil) \/ KeyCopied(p, j, todo[p][j])
          PROVE  dirty'[k] = nil
      BY <1>1, <3>2, <3>3, <3>5, KeyCopiedValue
    <3> QED BY <2>3, <3>1, <3>2, <3>4, <3>5
  <2> QED BY <2>1, <2>2, <2>3
<1> QED BY <1>2 DEF NewKeyInv

\* The steps into Range's loop, and those of the loop.
Reports(p, k) ==   \* Range is done with key k
    /\ todo[p][k] # nil /\ todo'[p][k] = nil
    /\ \A j \in Key \ {k} :
         todo'[p][j] = todo[p][j] /\ visited'[p][j] = visited[p][j]
    /\ \/ ptr[todo[p][k]] \in Gone /\ visited'[p][k] = visited[p][k]
       \/ visited'[p][k] # nil

RangeMoves(p) ==
    /\ pc[p] \notin {"idle", "ret"}
    /\ \A q \in Proc \ {p} : visited'[q] = visited[q]
    /\ pc[p] # "range" =>
         /\ visited' = visited
         /\ pc'[p] = "range" =>
              call[p].op = "Range" /\ todo'[p] = read'.m /\ ~read'.amended
    /\ pc[p] = "range" =>
         \/ pc'[p] = "ret"
         \/ pc'[p] = "range" /\ \E k \in Key : Reports(p, k)

LEMMA StepRanges ==
    ASSUME TypeOK, Control, NEW p \in Proc, Step(p)
    PROVE  RangeMoves(p)
<1> USE SyncMapAssumption DEF At, locals
<1>1. LoadRead(p) => RangeMoves(p)
  BY GotoValue, GotoWithValue, FinishValue DEF LoadRead, RangeMoves, TypeOK
<1>2. LoadLocked(p) => RangeMoves(p)
  BY GotoValue, GotoWithValue, FinishValue DEF LoadLocked, RangeMoves, TypeOK
<1>3. EntryLoad(p) => RangeMoves(p)
  BY FinishValue DEF EntryLoad, RangeMoves
<1>4. StoreRead(p) => RangeMoves(p)
  BY GotoWithValue DEF StoreRead, RangeMoves, TypeOK
<1>5. tryStoreLoad(p) => RangeMoves(p)
  BY GotoValue, GotoWithValue DEF tryStoreLoad, RangeMoves, TypeOK
<1>6. tryStoreCAS(p) => RangeMoves(p)
  BY GotoValue, FinishValue DEF tryStoreCAS, RangeMoves, TypeOK
<1>7. StoreLocked(p) => RangeMoves(p)
  BY GotoValue, GotoWithValue DEF StoreLocked, RangeMoves, TypeOK
<1>8. unexpungeLocked(p) => RangeMoves(p)
  BY GotoValue DEF unexpungeLocked, RangeMoves, TypeOK
<1>9. storeLocked(p) => RangeMoves(p)
  BY FinishValue DEF storeLocked, RangeMoves, TypeOK
<1>10. tryExpungeLoad(p) => RangeMoves(p)
  <2>1. tryExpungeLoad(p) => pc[p] \in {"newKey", "expungeLoad"} /\ visited' = visited
    BY DEF tryExpungeLoad
  <2>2. tryExpungeLoad(p) => pc'[p] # "range"
    BY TryExpungeLoadValue, KeyCopiedValue
  <2> QED BY <2>1, <2>2 DEF RangeMoves
<1>11. tryExpungeCAS(p) => RangeMoves(p)
  <2>1. tryExpungeCAS(p) => pc[p] = "expungeCAS" /\ visited' = visited
    BY DEF tryExpungeCAS
  <2>2. tryExpungeCAS(p) => pc'[p] # "range"
    BY TryExpungeCASValue, KeyCopiedValue
  <2> QED BY <2>1, <2>2 DEF RangeMoves
<1>12. Insert(p) => RangeMoves(p)
  BY InsertValue DEF RangeMoves
<1>13. tryLoadOrStoreLoad(p) => RangeMoves(p)
  BY TryLoadOrStoreLoadValue DEF RangeMoves, Answered
<1>14. tryLoadOrStoreCAS(p) => RangeMoves(p)
  BY TryLoadOrStoreCASValue DEF RangeMoves, Answered
<1>15. LoadOrStoreMiss(p) => RangeMoves(p)
  BY GotoValue DEF LoadOrStoreMiss, RangeMoves, TypeOK
<1>16. DeleteRead(p) => RangeMoves(p)
  BY GotoValue, GotoWithValue, FinishValue DEF DeleteRead, RangeMoves, TypeOK
<1>17. DeleteLocked(p) => RangeMoves(p)
  BY GotoWithValue, FinishValue DEF DeleteLocked, RangeMoves, TypeOK
<1>18. deleteLoad(p) => RangeMoves(p)
  BY GotoValue, FinishValue DEF deleteLoad, RangeMoves, TypeOK
<1>19. deleteCAS(p) => RangeMoves(p)
  BY GotoValue, FinishValue DEF deleteCAS, RangeMoves, TypeOK
<1>20. RangeRead(p) => RangeMoves(p)
  BY GotoValue DEF RangeRead, RangeMoves, TypeOK, shared
<1>21. RangeLocked(p) => RangeMoves(p)
  <2>1. RangeLocked(p) => pc[p] = "lock" /\ visited' = visited /\ call[p].op = "Range"
    BY DEF RangeLocked
  <2>2. RangeLocked(p) => todo'[p] = read'.m /\ ~read'.amended
    BY DEF RangeLocked, TypeOK, shared, Promote
  <2> QED BY <2>1, <2>2 DEF RangeMoves
<1>22. RangeStep(p) => RangeMoves(p)
  <2> SUFFICES ASSUME RangeStep(p) PROVE RangeMoves(p)
    OBVIOUS
  <2>1. pc[p] = "range" /\ \A q \in Proc \ {p} : visited'[q] = visited[q]
    BY DEF RangeStep, TypeOK
  <2>2. PICK k \in Key :
          /\ todo[p][k] # nil
          /\ \/ /\ ptr[todo[p][k]] \in Gone
                /\ todo' = [todo EXCEPT ![p][k] = nil]
                /\ UNCHANGED <<pc, visited>>
             \/ \E v \in Value :
                  /\ todo' = [todo EXCEPT ![p][k] = nil]
                  /\ visited' = [visited EXCEPT ![p][k] = v]
                  /\ pc' = pc
             \/ pc'[p] = "ret"
    <3>1. PICK k \in Key :
            LET v == ptr[todo[p][k]] IN
            /\ todo[p][k] # nil
            /\ \/ /\ v \in Gone
                  /\ todo' = [todo EXCEPT ![p][k] = nil]
                  /\ UNCHANGED <<pc, ent, old, visited, ret>>
               \/ /\ v \notin Gone
                  /\ todo' = [todo EXCEPT ![p][k] = nil]
                  /\ visited' = [visited EXCEPT ![p][k] = v]
                  /\ UNCHANGED <<pc, ent, old, ret>>
               \/ /\ v \notin Gone
                  /\ todo' = [todo EXCEPT ![p] = NoKeys]
                  /\ visited' = [visited EXCEPT ![p][k] = v]
                  /\ Finish(p, NoResult)
      BY DEF RangeStep
    <3>2. todo[p][k] \in Entry
      BY <3>1 DEF TypeOK, Maps
    <3>3. ptr[todo[p][k]] \in Value \cup Gone
      BY <3>2 DEF TypeOK
    <3>4. Finish(p, NoResult) => pc'[p] = "ret"
      BY FinishValue
    <3> QED BY <3>1, <3>3, <3>4
  <2>3. /\ todo[p] \in [Key -> Entry \cup {nil}]
        /\ visited[p] \in [Key -> Value \cup {nil}]
        /\ todo \in [Proc -> Maps] /\ visited \in [Proc -> [Key -> Value \cup {nil}]]
    BY DEF TypeOK, Maps
  <2>4. ASSUME todo' = [todo EXCEPT ![p][k] = nil]
        PROVE  /\ todo'[p][k] = nil
               /\ \A j \in Key \ {k} : todo'[p][j] = todo[p][j]
    BY <2>3, <2>4
  <2>5. ASSUME NEW v \in Value, visited' = [visited EXCEPT ![p][k] = v]
        PROVE  /\ visited'[p][k] # nil
               /\ \A j \in Key \ {k} : visited'[p][j] = visited[p][j]
    BY <2>3, <2>5
  <2>6. pc'[p] = "ret" \/ (pc' = pc /\ Reports(p, k))
    BY <2>2, <2>4, <2>5 DEF Reports
  <2> QED BY <2>1, <2>6 DEF RangeMoves
<1>23. RangeEnd(p) => RangeMoves(p)
  BY FinishValue DEF RangeEnd, RangeMoves
<1> QED
  BY <1>1, <1>2, <1>3, <1>4, <1>5, <1>6, <1>7, <1>8, <1>9, <1>10, <1>11, <1>12, <1>13, <1>14, <1>15, <1>16, <1>17, <1>18, <1>19, <1>20, <1>21, <1>22, <1>23 DEF Step

LEMMA RangeStepInv ==
    ASSUME HInv, IInv', AmendedInv', SeenInv', RecordSeen,
           NEW p \in Proc, Step(p)
    PROVE  RangeInv'
<1> USE SyncMapAssumption
<1>1. TypeOK /\ Control /\ Frame(p) /\ RangeMoves(p) /\ RangeInv /\ RefersSeen
  BY StepFrame, StepRanges DEF HInv, IInv
<1>2. ASSUME NEW q \in Proc, pc'[q] \notin {"range", "ret"}
      PROVE  visited'[q] = NoKeys
  BY <1>1, <1>2 DEF RangeInv, RangeMoves, Frame
<1>3. ASSUME NEW q \in Proc, pc'[q] = "range"
      PROVE  /\ call'[q].op = "Range"
             /\ \A k \in Key :
                  IF todo'[q][k] # nil THEN visited'[q][k] = nil
                  ELSE visited'[q][k] # nil \/ nil \in seen'[q][k]
  <2>1. call'[q].op = "Range"
    BY <1>1, <1>3 DEF RangeInv, RangeMoves, Frame
  <2>2. Pending(q)' /\ Abs!Watched(call'[q]) = Key
    BY <1>3, <2>1 DEF Pending, AbsStatus, Abs!Watched
  <2>3. \A k \in Key : seen[q][k] \subseteq seen'[q][k] /\ AbsVal(k)' \in seen'[q][k]
    BY <2>2, SeenGrows DEF SeenInv
  <2>4. CASE q # p
    <3>1. pc[q] = "range" /\ todo'[q] = todo[q] /\ visited'[q] = visited[q]
      BY <1>1, <1>3, <2>4 DEF Frame, RangeMoves
    <3> QED BY <1>1, <2>1, <2>3, <3>1 DEF RangeInv
  <2>5. CASE q = p /\ pc[p] # "range"
    <3>1. visited'[p] = visited[p] /\ todo'[p] = read'.m /\ ~read'.amended
      BY <1>1, <1>3, <2>5 DEF RangeMoves
    <3>2. \A k \in Key : visited'[p][k] = nil
      BY <1>1, <2>5, <3>1 DEF RangeInv, RangeMoves, NoKeys
    <3>3. \A k \in Key : todo'[p][k] = nil => AbsVal(k)' = nil
      BY <3>1 DEF AmendedInv, AbsVal, EntryOf
    <3> QED BY <2>1, <2>3, <2>5, <3>2, <3>3
  <2>6. CASE q = p /\ pc[p] = "range"
    <3>1. PICK k \in Key : Reports(p, k)
      BY <1>1, <1>3, <2>6 DEF RangeMoves
    <3>2. \A j \in Key :
            IF todo[p][j] # nil THEN visited[p][j] = nil
            ELSE visited[p][j] # nil \/ nil \in seen[p][j]
      BY <1>1, <2>6 DEF RangeInv
    <3>3. ptr[todo[p][k]] \in Gone => nil \in seen[p][k]
      <4>1. todo[p][k] \in Entry
        BY <1>1, <3>1 DEF Reports, TypeOK, Maps
      <4>2. Refers(p, k, todo[p][k])
        BY <2>6 DEF Refers
      <4> QED BY <1>1, <4>1, <4>2 DEF RefersSeen, ValueIn
    <3> QED BY <2>1, <2>3, <2>6, <3>1, <3>2, <3>3 DEF Reports
  <2> QED BY <2>4, <2>5, <2>6
<1> QED BY <1>2, <1>3 DEF RangeInv

\* An entry a call refers to does not change hands, and its pointer is
\* written only while the key of the call is looked up in it.
LEMMA RefersKept ==
    ASSUME HInv, NEW p \in Proc, Step(p),
           NEW q \in Proc, NEW k \in Key, NEW e \in Entry, Refers(q, k, e)
    PROVE  /\ \A j \in Key \ {k} : e \notin {read'.m[j], dirty'[j]}
           /\ \/ ValueIn(e)' = ValueIn(e)
              \/ e \in {read'.m[k], dirty'[k]}
<1> USE SyncMapAssumption
<1>1. TypeOK /\ Control /\ Effect(p) /\ IInv
  BY StepEffect DEF HInv, IInv
<1>2. /\ dirty \in [Key -> Entry \cup {nil}] /\ read.m \in [Key -> Entry \cup {nil}]
      /\ ptr \in [Entry -> Value \cup Gone]
  BY <1>1 DEF TypeOK, Maps
<1>3. \A j \in Key \ {k} : e \notin {read.m[j], dirty[j]}
  BY DEF HInv, RefersSeen
<1>4. CASE Quiet(p) \/ StartsCopy(p)
  BY <1>3, <1>4 DEF Quiet, StartsCopy, ValueIn
<1>5. CASE Writes(p)
  <2>1. /\ ent[p] \in Entry /\ call[p].key \in Key
        /\ ent[p] \in {read.m[call[p].key], dirty[call[p].key]}
    BY <1>1, <1>5, WritesItsKey DEF Writes
  <2>2. read' = read /\ dirty' = dirty /\ \A d \in Entry \ {ent[p]} : ptr'[d] = ptr[d]
    BY <1>2, <1>5 DEF Writes
  <2>3. CASE e = ent[p]
    BY <1>3, <2>1, <2>2, <2>3
  <2>4. CASE e # ent[p]
    BY <1>3, <2>2, <2>4 DEF ValueIn
  <2> QED BY <2>3, <2>4
<1>6. CASE Promotes(p)
  BY <1>3, <1>6 DEF Promotes, ValueIn, NoKeys
<1>7. CASE Removes(p)
  BY <1>2, <1>3, <1>7 DEF Removes, ValueIn
<1>8. CASE Unexpunges(p)
  <2>1. ent[p] \in Entry /\ call[p].key \in Key /\ ent[p] = read.m[call[p].key]
    BY <1>1, <1>8, KeyOfCall DEF Unexpunges, IInv, UnexpungeInv, Control, TypeOK
  <2>2. \A j \in Key : dirty'[j] = IF j = call[p].key THEN ent[p] ELSE dirty[j]
    BY <1>2, <1>8 DEF Unexpunges
  <2>3. \A j \in Key \ {k} : e \notin {read'.m[j], dirty'[j]}
    BY <1>3, <1>8, <2>1, <2>2 DEF Unexpunges
  <2>4. ValueIn(e)' = ValueIn(e)
    BY <1>2, <1>8, <2>1 DEF Unexpunges, ValueIn, Gone
  <2> QED BY <2>3, <2>4
<1>9. ASSUME NEW i \in Key, Copies(p, i)
      PROVE  /\ \A j \in Key \ {k} : e \notin {read'.m[j], dirty'[j]}
             /\ ValueIn(e)' = ValueIn(e)
  <2>1. todo[p][i] = read.m[i] /\ read.m[i] \in Entry /\ read' = read
    BY <1>2, <1>9 DEF IInv, CopyInv, Copies, Copying, HInv
  <2>2. /\ \A j \in Key \ {i} : dirty'[j] = dirty[j]
        /\ dirty'[i] \in {read.m[i], nil}
    BY <1>2, <1>9, <2>1 DEF Copies
  <2>3. \/ ptr' = ptr
        \/ ptr[read.m[i]] = nil /\ ptr' = [ptr EXCEPT ![read.m[i]] = expunged]
    BY <1>9, <2>1 DEF Copies
  <2>4. ValueIn(e)' = ValueIn(e)
    BY <1>2, <2>1, <2>3 DEF ValueIn, Gone
  <2> QED BY <1>3, <2>1, <2>2, <2>4
<1>10. ASSUME NEW d \in Entry, Adds(p, d)
       PROVE  /\ \A j \in Key \ {k} : e \notin {read'.m[j], dirty'[j]}
              /\ ValueIn(e)' = ValueIn(e)
  <2>1. e # d
    BY <1>10 DEF Adds, Referenced, Refers
  <2>2. /\ \A j \in Key : read'.m[j] = read.m[j]
        /\ \A j \in Key : dirty'[j] \in {dirty[j], d}
    BY <1>2, <1>10 DEF Adds
  <2>3. ptr'[e] = ptr[e]
    BY <1>2, <1>10, <2>1 DEF Adds
  <2> QED BY <1>3, <2>1, <2>2, <2>3 DEF ValueIn
<1> QED BY <1>1, <1>4, <1>5, <1>6, <1>7, <1>8, <1>9, <1>10 DEF Effect

\* The only entries a step of p starts to refer to are those of the maps.
LEMMA RefersNew ==
    ASSUME TypeOK, Control, Control', UnexpungeInv, NEW p \in Proc, Step(p),
           NEW q \in Proc, NEW k \in Key, NEW e \in Entry, Refers(q, k, e)'
    PROVE  \/ Refers(q, k, e)
           \/ e \in {read'.m[k], dirty'[k]}
<1> USE SyncMapAssumption
<1>1. Frame(p) /\ Moves(p) /\ RangeMoves(p)
  BY StepFrame, StepMoves, StepRanges
<1>2. CASE q # p
  BY <1>1, <1>2 DEF Frame, Refers
<1>3. CASE q = p /\ pc'[p] \in {"load", "cas"}
  <2>1. call' = call /\ k = call[p].key /\ e = ent'[p]
    BY <1>1, <1>3 DEF Frame, Refers
  <2>2. \/ pc[p] \in {"load", "cas"} /\ ent'[p] = ent[p]
        \/ ent'[p] \in {read'.m[k], dirty'[k]}
    BY <1>1, <1>3, <2>1 DEF Moves, Same, CopyLabels, UnexpungeInv
  <2> QED BY <1>3, <2>1, <2>2 DEF Refers
<1>4. CASE q = p /\ pc'[p] = "range"
  <2>1. e = todo'[p][k]
    BY <1>4 DEF Refers
  <2>2. CASE pc[p] # "range"
    BY <1>1, <1>4, <2>1, <2>2 DEF RangeMoves
  <2>3. CASE pc[p] = "range"
    <3>1. PICK j \in Key : Reports(p, j)
      BY <1>1, <1>4, <2>3 DEF RangeMoves
    <3> QED BY <1>4, <2>1, <2>3, <3>1 DEF Reports, Refers
  <2> QED BY <2>2, <2>3
<1> QED BY <1>2, <1>3, <1>4 DEF Refers

LEMMA RefersStep ==
    ASSUME HInv, IInv', RangeInv', SeenInv', RecordSeen,
           NEW p \in Proc, Step(p)
    PROVE  RefersSeen'
<1> USE SyncMapAssumption
<1>1. TypeOK /\ Control /\ Control' /\ TypeOK' /\ EntriesDistinct' /\ UnexpungeInv
  BY DEF HInv, IInv
<1>2. ASSUME NEW q \in Proc, NEW k \in Key, NEW e \in Entry, Refers(q, k, e)'
      PROVE  /\ ValueIn(e)' \in seen'[q][k]
             /\ \A j \in Key \ {k} : e \notin {read'.m[j], dirty'[j]}
  <2>1. Pending(q)' /\ k \in Abs!Watched(call'[q])
    BY <1>1, <1>2 DEF Refers, Pending, AbsStatus, Abs!Watched, RangeInv, Control
  <2>2. seen[q][k] \subseteq seen'[q][k] /\ AbsVal(k)' \in seen'[q][k]
    BY <2>1, SeenGrows DEF SeenInv
  <2>3. CASE e \in {read'.m[k], dirty'[k]}
    <3>1. ValueIn(e)' = AbsVal(k)'
      BY <2>3, EntryDecidesNext
    <3> QED BY <1>1, <2>2, <2>3, <3>1 DEF EntriesDistinct
  <2>4. CASE e \notin {read'.m[k], dirty'[k]}
    <3>1. Refers(q, k, e)
      BY <1>1, <1>2, <2>4, RefersNew
    <3>2. ValueIn(e) \in seen[q][k]
      BY <3>1 DEF HInv, RefersSeen
    <3> QED BY <2>2, <2>4, <3>1, <3>2, RefersKept
  <2> QED BY <2>3, <2>4
<1> QED BY <1>2 DEF RefersSeen
-----------------------------------------------------------------------------
(* Steps of the abstract map.                                              *)

\* What the refinement mapping substitutes for map and status.
absMap == [k \in Key |-> AbsVal(k)]
absStatus == [p \in Proc |-> AbsStatus(p)]

\* The other calls keep their status.
LEMMA StatusFrame ==
    ASSUME NEW p \in Proc, \A q \in Proc \ {p} : pc'[q] = pc[q]
    PROVE  /\ \A q \in Proc \ {p} : AbsStatus(q)' = AbsStatus(q)
           /\ absStatus' = [absStatus EXCEPT ![p] = AbsStatus(p)']
<1>1. \A q \in Proc \ {p} : AbsStatus(q)' = AbsStatus(q)
  BY DEF AbsStatus
<1> QED BY <1>1 DEF absStatus

\* A call that is not pending any more, or whose key is not k, has seen
\* nothing of k.
LEMMA SeenEmpty ==
    ASSUME SeenInv, NEW q \in Proc, NEW k \in Key
    PROVE  seen[q][k] = {} <=> ~(Pending(q) /\ k \in Abs!Watched(call[q]))
BY DEF SeenInv

LEMMA SeenKept ==
    ASSUME SeenInv, RecordSeen, NEW q \in Proc, NEW k \in Key,
           AbsStatus(q)' = AbsStatus(q), call'[q] = call[q],
           AbsVal(k)' = AbsVal(k)
    PROVE  seen'[q][k] = seen[q][k]
<1>1. seen'[q][k] = IF Pending(q) /\ k \in Abs!Watched(call[q])
                    THEN seen[q][k] \cup {AbsVal(k)} ELSE {}
  BY SeenNext DEF Pending
<1>2. CASE Pending(q) /\ k \in Abs!Watched(call[q])
  BY <1>1, <1>2 DEF SeenInv
<1>3. CASE ~(Pending(q) /\ k \in Abs!Watched(call[q]))
  BY <1>1, <1>3, SeenEmpty
<1> QED BY <1>2, <1>3

LEMMA SeenFunctions ==
    ASSUME SeenType, RecordSeen
    PROVE  /\ seen = [q \in Proc |-> [k \in Key |-> seen[q][k]]]
           /\ seen' = [q \in Proc |-> [k \in Key |-> seen'[q][k]]]
<1>1. seen' = [q \in Proc |-> [k \in Key |-> seen'[q][k]]]
  BY DEF RecordSeen
<1>2. seen = [q \in Proc |-> [k \in Key |-> seen[q][k]]]
  BY DEF SeenType
<1> QED BY <1>1, <1>2

LEMMA SameSim ==
    ASSUME SeenType, SeenInv, RecordSeen, NEW p \in Proc, Frame(p),
           \A k \in Key : AbsVal(k)' = AbsVal(k),
           AbsStatus(p)' = AbsStatus(p)
    PROVE  UNCHANGED <<absMap, call, absStatus, seen>>
<1>1. absMap' = absMap
  BY DEF absMap
<1>2. absStatus' = absStatus /\ \A q \in Proc : AbsStatus(q)' = AbsStatus(q)
  BY StatusFrame DEF Frame, absStatus
<1>3. \A q \in Proc, k \in Key : seen'[q][k] = seen[q][k]
  BY <1>2, SeenKept DEF Frame
<1>4. seen' = seen
  <2>1. [q \in Proc |-> [k \in Key |-> seen'[q][k]]]
        = [q \in Proc |-> [k \in Key |-> seen[q][k]]]
    BY <1>3
  <2> QED BY <2>1, SeenFunctions
<1>5. call' = call
  BY DEF Frame
<1> QED BY <1>1, <1>2, <1>4, <1>5

LEMMA StutterSim ==
    ASSUME SeenType, SeenInv, RecordSeen, NEW p \in Proc, Frame(p),
           \A k \in Key : AbsVal(k)' = AbsVal(k),
           AbsStatus(p)' = AbsStatus(p), ret' = ret, visited' = visited
    PROVE  UNCHANGED Abs!vars
BY SameSim DEF Abs!vars, absMap, absStatus

LEMMA DoneSim ==
    ASSUME SeenType, SeenInv, RecordSeen, NEW p \in Proc, Frame(p),
           \A k \in Key : AbsVal(k)' = AbsVal(k), AbsStatus(p)' = "done",
           NEW r, ret' = [ret EXCEPT ![p] = r]
    PROVE  /\ Abs!Answer(p, r)
           /\ seen' = [seen EXCEPT ![p] = [k \in Key |-> {}]]
           /\ UNCHANGED <<absMap, call>>
<1>1. absMap' = absMap
  BY DEF absMap
<1>2. /\ absStatus' = [absStatus EXCEPT ![p] = "done"]
      /\ \A q \in Proc \ {p} : AbsStatus(q)' = AbsStatus(q)
  BY StatusFrame DEF Frame
<1>3. \A q \in Proc, k \in Key : seen'[q][k] = IF q = p THEN {} ELSE seen[q][k]
  <2> TAKE q \in Proc, k \in Key
  <2>1. CASE q = p
    BY <2>1, SeenNext DEF Pending
  <2>2. CASE q # p
    BY <1>2, <2>2, SeenKept DEF Frame
  <2> QED BY <2>1, <2>2
<1>4. seen' = [seen EXCEPT ![p] = [k \in Key |-> {}]]
  BY <1>3 DEF SeenType, RecordSeen
<1>5. call' = call
  BY DEF Frame
<1> QED BY <1>1, <1>2, <1>4, <1>5 DEF Abs!Answer, absStatus

LEMMA ObserveSim ==
    ASSUME SeenType, SeenInv, RecordSeen, NEW p \in Proc, Frame(p),
           \A k \in Key : AbsVal(k)' = AbsVal(k),
           AbsStatus(p)' = "done", visited' = visited,
           NEW r, ret' = [ret EXCEPT ![p] = r]
    PROVE  Abs!Observe(p, r)
BY DoneSim DEF Abs!Observe, absMap

LEMMA WriteSim ==
    ASSUME SeenType, SeenInv, RecordSeen, NEW p \in Proc, Frame(p),
           call[p].key \in Key, NEW v,
           \A k \in Key : AbsVal(k)' = IF k = call[p].key THEN v ELSE AbsVal(k),
           AbsStatus(p)' = "done", visited' = visited,
           NEW r, ret' = [ret EXCEPT ![p] = r]
    PROVE  Abs!Write(p, v, r)
<1>1. absMap' = [absMap EXCEPT ![call[p].key] = v]
  BY DEF absMap
<1>2. /\ absStatus' = [absStatus EXCEPT ![p] = "done"]
      /\ \A q \in Proc \ {p} : AbsStatus(q)' = AbsStatus(q)
  BY StatusFrame DEF Frame
<1>3. \A q \in Proc, k \in Key :
        seen'[q][k] = IF q = p \/ seen[q][k] = {} THEN {}
                      ELSE seen[q][k] \cup {absMap'[k]}
  <2> TAKE q \in Proc, k \in Key
  <2>1. absMap'[k] = AbsVal(k)'
    BY DEF absMap
  <2>2. CASE q = p
    BY <2>2, SeenNext DEF Pending
  <2>3. CASE q # p
    <3>1. Pending(q)' <=> Pending(q)
      BY <1>2, <2>3 DEF Pending
    <3>2. call'[q] = call[q]
      BY DEF Frame
    <3>3. seen'[q][k] = IF Pending(q) /\ k \in Abs!Watched(call[q])
                        THEN seen[q][k] \cup {AbsVal(k)'} ELSE {}
      BY <3>1, <3>2, SeenNext
    <3> QED BY <2>1, <2>3, <3>3, SeenEmpty
  <2> QED BY <2>2, <2>3
<1>4. seen' = [q \in Proc |-> [k \in Key |->
                 IF q = p \/ seen[q][k] = {} THEN {}
                 ELSE seen[q][k] \cup {absMap'[k]}]]
  BY <1>3 DEF RecordSeen
<1>5. call' = call
  BY DEF Frame
<1> QED BY <1>1, <1>2, <1>4, <1>5 DEF Abs!Write, Abs!Answer, absMap, absStatus
-----------------------------------------------------------------------------
(* Each action of the map is a step of the abstract map, or a stutter.     *)

Simulated == Abs!Next \/ UNCHANGED Abs!vars

\* What every simulation starts from.
LEMMA SimFacts ==
    ASSUME HInv, NEW p \in Proc, Step(p)
    PROVE  /\ TypeOK /\ Control /\ IInv /\ SeenType /\ SeenInv /\ RefersSeen
           /\ AmendedInv /\ Frame(p)
           /\ call[p] # nil /\ call[p] \in Calls
           /\ call[p].op # "Range" =>
                call[p].key \in Key /\ Abs!Watched(call[p]) = {call[p].key}
           /\ call[p].op \in {"Store", "LoadOrStore"} => call[p].val \in Value
           /\ ent[p] # nil => ent[p] \in Entry
<1> USE SyncMapAssumption
<1>1. TypeOK /\ Control /\ IInv /\ SeenType /\ SeenInv /\ RefersSeen /\ AmendedInv
  BY DEF HInv, IInv
<1>2. Frame(p) /\ pc[p] # "idle"
  BY <1>1, StepFrame, StepRanges DEF RangeMoves
<1>3. call[p] # nil /\ call[p] \in Calls
  BY <1>1, <1>2 DEF Control, TypeOK
<1>4. ent[p] # nil => ent[p] \in Entry
  BY <1>1 DEF TypeOK
<1>5. call[p].op # "Range" =>
        call[p].key \in Key /\ Abs!Watched(call[p]) = {call[p].key}
  BY <1>3, CallArguments DEF Abs!Watched
<1> QED BY <1>1, <1>2, <1>3, <1>4, <1>5, CallArguments

LEMMA QuietKeeps ==
    ASSUME NEW p \in Proc, Quiet(p), NEW k \in Key
    PROVE  AbsVal(k)' = AbsVal(k)
BY DEF Quiet, AbsVal, EntryOf

\* A pending call has seen what its key maps to now, and the answer its entry
\* gives.
LEMMA CallSeen ==
    ASSUME HInv, NEW p \in Proc, Step(p), call[p].op # "Range", Pending(p)
    PROVE  /\ AbsVal(call[p].key) \in seen[p][call[p].key]
           /\ pc[p] \in {"load", "cas"} => ValueIn(ent[p]) \in seen[p][call[p].key]
<1>1. /\ call[p].key \in Key /\ Abs!Watched(call[p]) = {call[p].key}
      /\ SeenInv /\ RefersSeen /\ Control
      /\ ent[p] # nil => ent[p] \in Entry
  BY SimFacts
<1>2. AbsVal(call[p].key) \in seen[p][call[p].key]
  BY <1>1 DEF SeenInv
<1>3. ASSUME pc[p] \in {"load", "cas"}
      PROVE  ValueIn(ent[p]) \in seen[p][call[p].key]
  <2>1. ent[p] \in Entry /\ Refers(p, call[p].key, ent[p])
    BY <1>1, <1>3 DEF Control, Refers
  <2> QED BY <1>1, <2>1 DEF RefersSeen
<1> QED BY <1>2, <1>3

\* Load, LoadOrStore and Delete answer with something their key mapped to.
LEMMA ObserverAnswers ==
    ASSUME HInv, RecordSeen, NEW p \in Proc, Step(p),
           \A k \in Key : AbsVal(k)' = AbsVal(k),
           Pending(p), AbsStatus(p)' = "done", visited' = visited,
           NEW v, v \in seen[p][call[p].key],
           \/ call[p].op = "Load"
              /\ ret' = [ret EXCEPT ![p] = Result(v, v # nil)]
           \/ call[p].op = "LoadOrStore" /\ v # nil
              /\ ret' = [ret EXCEPT ![p] = Result(v, TRUE)]
           \/ call[p].op = "Delete" /\ v = nil
              /\ ret' = [ret EXCEPT ![p] = NoResult]
    PROVE  Simulated
<1>1. SeenType /\ SeenInv /\ Frame(p) /\ absStatus[p] = "pending"
  BY SimFacts DEF absStatus, Pending
<1>2. CASE call[p].op = "Load" /\ ret' = [ret EXCEPT ![p] = Result(v, v # nil)]
  <2>1. Abs!Observe(p, Result(v, v # nil))
    BY <1>1, <1>2, ObserveSim
  <2>2. Abs!Load(p)
    BY <1>1, <1>2, <2>1 DEF Abs!Load, Abs!Pending, Abs!Seen, Abs!Result, Result, absStatus
  <2> QED BY <2>2 DEF Simulated, Abs!Next
<1>3. CASE /\ call[p].op = "LoadOrStore" /\ v # nil
           /\ ret' = [ret EXCEPT ![p] = Result(v, TRUE)]
  <2>1. Abs!Observe(p, Result(v, TRUE))
    BY <1>1, <1>3, ObserveSim
  <2>2. Abs!LoadOrStore(p)
    BY <1>1, <1>3, <2>1 DEF Abs!LoadOrStore, Abs!Pending, Abs!Seen, Abs!Result, Result, absStatus
  <2> QED BY <2>2 DEF Simulated, Abs!Next
<1>4. CASE /\ call[p].op = "Delete" /\ v = nil
           /\ ret' = [ret EXCEPT ![p] = NoResult]
  <2>1. Abs!Observe(p, NoResult)
    BY <1>1, <1>4, ObserveSim
  <2>2. Abs!Delete(p)
    BY <1>1, <1>4, <2>1 DEF Abs!Delete, Abs!Pending, Abs!Seen, Abs!NoResult, NoResult,
       Abs!Result, Result, absStatus
  <2> QED BY <2>2 DEF Simulated, Abs!Next
<1> QED BY <1>2, <1>3, <1>4

\* Store, LoadOrStore and Delete change the mapping of their key in one step.
LEMMA WriterAnswers ==
    ASSUME HInv, RecordSeen, NEW p \in Proc, Step(p), NEW v,
           call[p].key \in Key,
           \A k \in Key : AbsVal(k)' = IF k = call[p].key THEN v ELSE AbsVal(k),
           Pending(p), AbsStatus(p)' = "done", visited' = visited,
           \/ call[p].op = "Store" /\ v = call[p].val
              /\ ret' = [ret EXCEPT ![p] = NoResult]
           \/ call[p].op = "LoadOrStore" /\ v = call[p].val
              /\ AbsVal(call[p].key) = nil
              /\ ret' = [ret EXCEPT ![p] = Result(v, FALSE)]
           \/ call[p].op = "Delete" /\ v = nil
              /\ ret' = [ret EXCEPT ![p] = NoResult]
    PROVE  Simulated
<1>1. SeenType /\ SeenInv /\ Frame(p) /\ absStatus[p] = "pending"
  BY SimFacts DEF absStatus, Pending
<1>2. CASE /\ call[p].op = "Store" /\ v = call[p].val
           /\ ret' = [ret EXCEPT ![p] = NoResult]
  <2>1. Abs!Write(p, v, NoResult)
    BY <1>1, <1>2, WriteSim
  <2>2. Abs!Store(p)
    BY <1>1, <1>2, <2>1 DEF Abs!Store, Abs!Pending, Abs!NoResult, NoResult,
       Abs!Result, Result, absStatus
  <2> QED BY <2>2 DEF Simulated, Abs!Next
<1>3. CASE /\ call[p].op = "LoadOrStore" /\ v = call[p].val
           /\ AbsVal(call[p].key) = nil
           /\ ret' = [ret EXCEPT ![p] = Result(v, FALSE)]
  <2>1. Abs!Write(p, v, Result(v, FALSE))
    BY <1>1, <1>3, WriteSim
  <2>2. Abs!LoadOrStore(p)
    BY <1>1, <1>3, <2>1 DEF Abs!LoadOrStore, Abs!Pending, Abs!Result, Result, absStatus
  <2> QED BY <2>2 DEF Simulated, Abs!Next
<1>4. CASE /\ call[p].op = "Delete" /\ v = nil
           /\ ret' = [ret EXCEPT ![p] = NoResult]
  <2>1. Abs!Write(p, nil, NoResult)
    BY <1>1, <1>4, WriteSim
  <2>2. Abs!Delete(p)
    BY <1>1, <1>4, <2>1 DEF Abs!Delete, Abs!Pending, Abs!NoResult, NoResult,
       Abs!Result, Result, absStatus
  <2> QED BY <2>2 DEF Simulated, Abs!Next
<1> QED BY <1>2, <1>3, <1>4

LEMMA Stutters ==
    ASSUME HInv, RecordSeen, NEW p \in Proc, Step(p),
           \A k \in Key : AbsVal(k)' = AbsVal(k),
           AbsStatus(p)' = AbsStatus(p), ret' = ret, visited' = visited
    PROVE  Simulated
BY SimFacts, StutterSim DEF Simulated

\* What Finish does to the observable state.
LEMMA FinishSim ==
    ASSUME TypeOK, NEW p \in Proc, NEW r, Finish(p, r)
    PROVE  AbsStatus(p)' = "done" /\ ret' = [ret EXCEPT ![p] = r]
BY FinishValue DEF Finish, AbsStatus

\* So does Answer, with a miss still to be counted.
LEMMA AnswerSim ==
    ASSUME TypeOK, NEW p \in Proc, NEW r, Answer(p, r)
    PROVE  AbsStatus(p)' = "done" /\ ret' = [ret EXCEPT ![p] = r]
<1>1. AbsStatus(p)' = "done"
  BY AnswerValue DEF AbsStatus
<1>2. ret' = [ret EXCEPT ![p] = r]
  BY DEF Answer, Finish
<1> QED BY <1>1, <1>2

LEMMA LoadReadSim ==
    ASSUME HInv, RecordSeen, NEW p \in Proc, Step(p), LoadRead(p)
    PROVE  Simulated
<1> DEFINE k == call[p].key
<1>1. /\ TypeOK /\ AmendedInv /\ call[p].op = "Load" /\ Pending(p) /\ visited' = visited
      /\ AbsStatus(p) = "pending" /\ k \in Key
  BY SimFacts DEF LoadRead, At, locals, Pending, AbsStatus
<1>2. \A j \in Key : AbsVal(j)' = AbsVal(j)
  BY SimFacts, ActionEffect, QuietKeeps
<1>3. CASE pc'[p] \in {"load", "lock"} /\ ret' = ret
  BY <1>1, <1>2, <1>3, Stutters DEF AbsStatus
<1>4. CASE read.m[k] = nil /\ ~read.amended /\ Finish(p, NoResult)
  <2>1. nil \in seen[p][k]
    BY <1>1, <1>4, CallSeen, NotInRead
  <2>2. AbsStatus(p)' = "done" /\ ret' = [ret EXCEPT ![p] = Result(nil, nil # nil)]
    BY <1>1, <1>4, FinishSim DEF NoResult
  <2> HIDE DEF k
  <2> QED BY <1>1, <1>2, <2>1, <2>2, ObserverAnswers DEF k
<1> QED BY <1>1, <1>3, <1>4, GotoValue, GotoWithValue DEF LoadRead

LEMMA LoadLockedSim ==
    ASSUME HInv, IInv', RecordSeen, NEW p \in Proc, Step(p), LoadLocked(p)
    PROVE  Simulated
<1> DEFINE k == call[p].key
<1>1. /\ TypeOK /\ IInv /\ AmendedInv /\ call[p].op = "Load" /\ Pending(p)
      /\ visited' = visited /\ AbsStatus(p) = "pending" /\ k \in Key
  BY SimFacts DEF LoadLocked, At, locals, Pending, AbsStatus
<1>2. \A j \in Key : AbsVal(j)' = AbsVal(j)
  BY <1>1, ActionEffect, EffectKeeps
<1>3. CASE pc'[p] = "load" /\ ret' = ret
  BY <1>1, <1>2, <1>3, Stutters DEF AbsStatus
<1>4. CASE /\ read.m[k] = nil
           /\ read.amended => dirty[k] = nil
           /\ Finish(p, NoResult)
  <2>1. nil \in seen[p][k]
    BY <1>1, <1>4, CallSeen, NotInRead, NoEntry
  <2>2. AbsStatus(p)' = "done" /\ ret' = [ret EXCEPT ![p] = Result(nil, nil # nil)]
    BY <1>1, <1>4, FinishSim DEF NoResult
  <2> QED BY <1>1, <1>2, <2>1, <2>2, ObserverAnswers
<1> QED BY <1>1, <1>3, <1>4, GotoWithValue DEF LoadLocked

LEMMA EntryLoadSim ==
    ASSUME HInv, RecordSeen, NEW p \in Proc, Step(p), EntryLoad(p)
    PROVE  Simulated
<1>1. /\ TypeOK /\ call[p].op = "Load" /\ Pending(p) /\ visited' = visited
      /\ pc[p] = "load"
  BY SimFacts DEF EntryLoad, At, locals, Pending, AbsStatus
<1>2. \A j \in Key : AbsVal(j)' = AbsVal(j)
  BY SimFacts, ActionEffect, QuietKeeps
<1>3. ValueIn(ent[p]) \in seen[p][call[p].key]
  BY <1>1, CallSeen
<1>4. Finish(p, Result(ValueIn(ent[p]), ValueIn(ent[p]) # nil))
  <2>1. Finish(p, IF ptr[ent[p]] \in Gone THEN NoResult ELSE Result(ptr[ent[p]], TRUE))
    BY DEF EntryLoad
  <2>2. CASE ptr[ent[p]] \in Gone
    <3>1. ValueIn(ent[p]) = nil /\ NoResult = Result(nil, nil # nil)
      BY <2>2 DEF ValueIn, NoResult, Result
    <3> QED BY <2>1, <2>2, <3>1
  <2>3. CASE ptr[ent[p]] \notin Gone
    <3>1. /\ ValueIn(ent[p]) = ptr[ent[p]]
          /\ Result(ptr[ent[p]], TRUE) = Result(ptr[ent[p]], ptr[ent[p]] # nil)
      BY <2>3 DEF ValueIn, Gone, Result
    <3> QED BY <2>1, <2>3, <3>1
  <2> QED BY <2>2, <2>3
<1>5. /\ AbsStatus(p)' = "done"
      /\ ret' = [ret EXCEPT ![p] = Result(ValueIn(ent[p]), ValueIn(ent[p]) # nil)]
  BY <1>1, <1>4, FinishSim
<1> QED BY <1>1, <1>2, <1>3, <1>5, ObserverAnswers

\* The steps of the calls that find their answer later, or have it already.
LEMMA QuietSim ==
    ASSUME HInv, IInv', RecordSeen, NEW p \in Proc, Step(p),
           \/ StoreRead(p) \/ tryStoreLoad(p) \/ StoreLocked(p)
           \/ unexpungeLocked(p) \/ tryExpungeLoad(p) \/ tryExpungeCAS(p)
           \/ LoadOrStoreMiss(p) \/ RangeRead(p) \/ RangeLocked(p)
    PROVE  Simulated
<1> USE DEF At, locals
<1>1. TypeOK /\ Control /\ IInv
  BY SimFacts
<1>2. \A j \in Key : AbsVal(j)' = AbsVal(j)
  BY <1>1, ActionEffect, EffectKeeps
<1>3. ret' = ret /\ visited' = visited
  BY DEF StoreRead, tryStoreLoad, StoreLocked, unexpungeLocked, tryExpungeLoad,
     tryExpungeCAS, LoadOrStoreMiss, RangeRead, RangeLocked
<1>4. AbsStatus(p)' = AbsStatus(p)
  <2>1. CASE StoreRead(p) \/ tryStoreLoad(p)
    BY <1>1, <2>1, GotoValue, GotoWithValue DEF StoreRead, tryStoreLoad, AbsStatus
  <2>2. CASE StoreLocked(p) \/ unexpungeLocked(p)
    BY <1>1, <2>2, GotoValue, GotoWithValue DEF StoreLocked, unexpungeLocked, AbsStatus
  <2>3. CASE tryExpungeLoad(p)
    BY <1>1, <2>3, TryExpungeLoadValue, KeyCopiedValue DEF AbsStatus
  <2>4. CASE tryExpungeCAS(p)
    BY <1>1, <2>4, TryExpungeCASValue, KeyCopiedValue DEF AbsStatus
  <2>5. CASE LoadOrStoreMiss(p)
    BY <1>1, <2>5, GotoValue DEF LoadOrStoreMiss, AbsStatus
  <2>6. CASE RangeRead(p) \/ RangeLocked(p)
    BY <1>1, <2>6, GotoValue DEF RangeRead, RangeLocked, AbsStatus
  <2> QED BY <2>1, <2>2, <2>3, <2>4, <2>5, <2>6
<1> QED BY <1>2, <1>3, <1>4, Stutters

\* A successful write to the entry of the call changes its key only.
LEMMA EntryWritten ==
    ASSUME HInv, IInv', NEW p \in Proc, Step(p), UNCHANGED <<read, dirty>>,
           pc[p] \in {"cas", "storeLocked"}, ptr[ent[p]] # expunged,
           NEW v \in Value \cup {nil}, ptr' = [ptr EXCEPT ![ent[p]] = v]
    PROVE  /\ call[p].key \in Key
           /\ AbsVal(call[p].key) = ValueIn(ent[p])
           /\ \A k \in Key :
                AbsVal(k)' = IF k = call[p].key THEN v ELSE AbsVal(k)
<1>1. IInv
  BY SimFacts
<1>2. PICK k \in Key, e \in Entry :
        k = call[p].key /\ e = ent[p] /\ e \in {read.m[k], dirty[k]}
  BY <1>1, WritesItsKey
<1>3. AbsVal(k) = ValueIn(e)
  BY <1>1, <1>2, EntryDecides
<1>4. \A j \in Key : AbsVal(j)' = IF j = k THEN v ELSE AbsVal(j)
  BY <1>1, <1>2, WriteChangesKey
<1> QED BY <1>2, <1>3, <1>4

LEMMA TryStoreCASSim ==
    ASSUME HInv, IInv', RecordSeen, NEW p \in Proc, Step(p), tryStoreCAS(p)
    PROVE  Simulated
<1> USE SyncMapAssumption
<1>1. /\ TypeOK /\ call[p].op = "Store" /\ Pending(p) /\ visited' = visited
      /\ pc[p] = "cas" /\ call[p].val \in Value /\ UNCHANGED <<read, dirty>>
      /\ AbsStatus(p) = "pending"
  BY SimFacts DEF tryStoreCAS, At, locals, shared, Pending, AbsStatus
<1>2. CASE ptr[ent[p]] = old[p]
  <2>1. ptr' = [ptr EXCEPT ![ent[p]] = call[p].val] /\ Finish(p, NoResult)
    BY <1>2 DEF tryStoreCAS
  <2>2. ptr[ent[p]] # expunged
    BY <1>1, <1>2 DEF TypeOK
  <2>3. /\ call[p].key \in Key
        /\ \A k \in Key :
             AbsVal(k)' = IF k = call[p].key THEN call[p].val ELSE AbsVal(k)
    BY <1>1, <2>1, <2>2, EntryWritten
  <2>4. AbsStatus(p)' = "done" /\ ret' = [ret EXCEPT ![p] = NoResult]
    BY <1>1, <2>1, FinishSim
  <2> QED BY <1>1, <2>3, <2>4, WriterAnswers
<1>3. CASE ptr[ent[p]] # old[p]
  <2>1. Goto(p, "load") /\ UNCHANGED <<ptr, ret>>
    BY <1>3 DEF tryStoreCAS
  <2>2. AbsStatus(p)' = AbsStatus(p)
    BY <1>1, <2>1, GotoValue DEF AbsStatus
  <2>3. \A j \in Key : AbsVal(j)' = AbsVal(j)
    BY <1>1, <2>1 DEF AbsVal, EntryOf
  <2> QED BY <1>1, <2>1, <2>2, <2>3, Stutters
<1> QED BY <1>2, <1>3

LEMMA StoreLockedSim ==
    ASSUME HInv, IInv', RecordSeen, NEW p \in Proc, Step(p), storeLocked(p)
    PROVE  Simulated
<1> USE SyncMapAssumption
<1>1. pc[p] = "storeLocked" /\ visited' = visited /\ UNCHANGED <<read, dirty>>
  BY DEF storeLocked, shared, locals
<1>2. TypeOK /\ call[p].op = "Store" /\ Pending(p) /\ call[p].val \in Value
  BY <1>1, SimFacts DEF Control, Pending, AbsStatus
<1>3. ptr[ent[p]] # expunged
  BY <1>1 DEF HInv, IInv, SlowPathSafe
<1>4. ptr' = [ptr EXCEPT ![ent[p]] = call[p].val] /\ Finish(p, NoResult)
  BY DEF storeLocked
<1>5. /\ call[p].key \in Key
      /\ \A k \in Key :
           AbsVal(k)' = IF k = call[p].key THEN call[p].val ELSE AbsVal(k)
  BY <1>1, <1>2, <1>3, <1>4, EntryWritten
<1>6. AbsStatus(p)' = "done" /\ ret' = [ret EXCEPT ![p] = NoResult]
  BY <1>2, <1>4, FinishSim
<1> QED BY <1>1, <1>2, <1>5, <1>6, WriterAnswers

LEMMA InsertSim ==
    ASSUME HInv, RecordSeen, NEW p \in Proc, Step(p), Insert(p)
    PROVE  Simulated
<1> USE SyncMapAssumption
<1>1. /\ TypeOK /\ IInv /\ call[p].op \in {"Store", "LoadOrStore"} /\ Pending(p)
      /\ visited' = visited /\ pc[p] = "newKey" /\ call[p].val \in Value
  BY SimFacts DEF Insert, At, locals, Pending, AbsStatus
<1>2. PICK e \in Entry : Adds(p, e) /\ ptr' = [ptr EXCEPT ![e] = call[p].val]
  <2>1. PICK e \in Entry : ptr' = [ptr EXCEPT ![e] = call[p].val]
                           /\ e \in Entry \ Referenced
                           /\ dirty' = [dirty EXCEPT ![call[p].key] = e]
    BY DEF Insert
  <2>2. \E d \in Entry : Adds(p, d)
    BY ActionEffect DEF HInv
  <2>3. Adds(p, e)
    BY <1>1, <2>1, <2>2 DEF Adds
  <2> QED BY <2>1, <2>3
<1>3. /\ call[p].key \in Key
      /\ \A k \in Key :
           AbsVal(k)' = IF k = call[p].key THEN call[p].val ELSE AbsVal(k)
  BY <1>1, <1>2, AddChangesKey
<1>4. AbsVal(call[p].key) = nil
  <2>1. read.m[call[p].key] = nil /\ dirty[call[p].key] = nil
    BY <1>1 DEF HInv, IInv, CopyInv, NewKeyInv, CopyLabels
  <2> QED BY <1>3, <2>1, NoEntry
<1>5. CASE call[p].op = "Store"
  <2>1. AbsStatus(p)' = "done" /\ ret' = [ret EXCEPT ![p] = NoResult]
    BY <1>1, <1>5, FinishSim DEF Insert
  <2> QED BY <1>1, <1>3, <1>5, <2>1, WriterAnswers
<1>6. CASE call[p].op = "LoadOrStore"
  <2>1. /\ AbsStatus(p)' = "done"
        /\ ret' = [ret EXCEPT ![p] = Result(call[p].val, FALSE)]
    BY <1>1, <1>6, FinishSim DEF Insert
  <2> QED BY <1>1, <1>3, <1>4, <1>6, <2>1, WriterAnswers
<1> QED BY <1>1, <1>5, <1>6

LEMMA TryLoadOrStoreLoadSim ==
    ASSUME HInv, RecordSeen, NEW p \in Proc, Step(p), tryLoadOrStoreLoad(p)
    PROVE  Simulated
<1> USE SyncMapAssumption
<1>1. /\ TypeOK /\ call[p].op = "LoadOrStore" /\ Pending(p) /\ visited' = visited
      /\ pc[p] = "load" /\ AbsStatus(p) = "pending"
  BY SimFacts DEF tryLoadOrStoreLoad, At, locals, Pending, AbsStatus
<1>2. \A j \in Key : AbsVal(j)' = AbsVal(j)
  BY SimFacts, ActionEffect, QuietKeeps
<1>3. CASE ptr[ent[p]] \notin Gone
  <2>1. Answer(p, Result(ptr[ent[p]], TRUE))
    BY <1>3 DEF tryLoadOrStoreLoad, Gone
  <2>2. ptr[ent[p]] \in seen[p][call[p].key] /\ ptr[ent[p]] # nil
    BY <1>1, <1>3, CallSeen DEF ValueIn, Gone
  <2>3. AbsStatus(p)' = "done" /\ ret' = [ret EXCEPT ![p] = Result(ptr[ent[p]], TRUE)]
    BY <1>1, <2>1, AnswerSim
  <2> QED BY <1>1, <1>2, <2>2, <2>3, ObserverAnswers
<1>4. CASE ptr[ent[p]] \in Gone
  <2>1. mu = p => ptr[ent[p]] # expunged
    BY <1>1 DEF HInv, IInv, SlowPathSafe
  <2>2. \/ Goto(p, "cas") /\ ret' = ret
        \/ GotoWith(p, "lock", nil) /\ ret' = ret
    BY <1>4, <2>1 DEF tryLoadOrStoreLoad
  <2>3. AbsStatus(p)' = AbsStatus(p) /\ ret' = ret
    BY <1>1, <2>2, GotoValue, GotoWithValue DEF AbsStatus
  <2> QED BY <1>1, <1>2, <2>3, Stutters
<1> QED BY <1>3, <1>4

LEMMA TryLoadOrStoreCASSim ==
    ASSUME HInv, IInv', RecordSeen, NEW p \in Proc, Step(p), tryLoadOrStoreCAS(p)
    PROVE  Simulated
<1> USE SyncMapAssumption
<1>1. /\ TypeOK /\ call[p].op = "LoadOrStore" /\ Pending(p) /\ visited' = visited
      /\ pc[p] = "cas" /\ call[p].val \in Value /\ UNCHANGED <<read, dirty>>
      /\ AbsStatus(p) = "pending"
  BY SimFacts DEF tryLoadOrStoreCAS, At, locals, shared, Pending, AbsStatus
<1>2. CASE ptr[ent[p]] = nil
  <2>1. /\ ptr' = [ptr EXCEPT ![ent[p]] = call[p].val]
        /\ Answer(p, Result(call[p].val, FALSE))
    BY <1>2 DEF tryLoadOrStoreCAS
  <2>2. /\ call[p].key \in Key
        /\ AbsVal(call[p].key) = ValueIn(ent[p])
        /\ \A k \in Key :
             AbsVal(k)' = IF k = call[p].key THEN call[p].val ELSE AbsVal(k)
    BY <1>1, <1>2, <2>1, EntryWritten
  <2>3. AbsVal(call[p].key) = nil
    BY <1>2, <2>2 DEF ValueIn
  <2>4. /\ AbsStatus(p)' = "done"
        /\ ret' = [ret EXCEPT ![p] = Result(call[p].val, FALSE)]
    BY <1>1, <2>1, AnswerSim
  <2> QED BY <1>1, <2>2, <2>3, <2>4, WriterAnswers
<1>3. CASE ptr[ent[p]] # nil
  <2>1. Goto(p, "load") /\ UNCHANGED <<ptr, ret>>
    BY <1>3 DEF tryLoadOrStoreCAS
  <2>2. AbsStatus(p)' = AbsStatus(p)
    BY <1>1, <2>1, GotoValue DEF AbsStatus
  <2>3. \A j \in Key : AbsVal(j)' = AbsVal(j)
    BY <1>1, <2>1 DEF AbsVal, EntryOf
  <2> QED BY <1>1, <2>1, <2>2, <2>3, Stutters
<1> QED BY <1>2, <1>3

\* Delete finds no entry, or one already deleted; or it deletes the key.
LEMMA DeleteReadSim ==
    ASSUME HInv, RecordSeen, NEW p \in Proc, Step(p), DeleteRead(p)
    PROVE  Simulated
<1>1. /\ TypeOK /\ AmendedInv /\ call[p].op = "Delete" /\ Pending(p) /\ visited' = visited
      /\ AbsStatus(p) = "pending" /\ call[p].key \in Key
  BY SimFacts DEF DeleteRead, At, locals, Pending, AbsStatus
<1>2. \A j \in Key : AbsVal(j)' = AbsVal(j)
  BY SimFacts, ActionEffect, QuietKeeps
<1>3. CASE pc'[p] \in {"load", "lock"} /\ ret' = ret
  BY <1>1, <1>2, <1>3, Stutters DEF AbsStatus
<1>4. CASE read.m[call[p].key] = nil /\ ~read.amended /\ Finish(p, NoResult)
  <2>1. nil \in seen[p][call[p].key]
    BY <1>1, <1>4, CallSeen, NotInRead
  <2>2. AbsStatus(p)' = "done" /\ ret' = [ret EXCEPT ![p] = NoResult]
    BY <1>1, <1>4, FinishSim
  <2> QED BY <1>1, <1>2, <2>1, <2>2, ObserverAnswers
<1> QED BY <1>1, <1>3, <1>4, GotoValue, GotoWithValue DEF DeleteRead

LEMMA DeleteLockedSim ==
    ASSUME HInv, RecordSeen, NEW p \in Proc, Step(p), DeleteLocked(p)
    PROVE  Simulated
<1>1. /\ TypeOK /\ IInv /\ AmendedInv /\ call[p].op = "Delete" /\ Pending(p)
      /\ visited' = visited /\ AbsStatus(p) = "pending" /\ call[p].key \in Key
      /\ UNCHANGED <<read, ptr>>
  BY SimFacts DEF DeleteLocked, At, locals, Pending, AbsStatus
<1>2. CASE pc'[p] = "load" /\ UNCHANGED <<dirty, ret>>
  <2>1. \A j \in Key : AbsVal(j)' = AbsVal(j)
    BY <1>1, <1>2 DEF AbsVal, EntryOf
  <2> QED BY <1>1, <1>2, <2>1, Stutters DEF AbsStatus
<1>3. CASE /\ read.m[call[p].key] = nil
           /\ dirty' = IF read.amended THEN [dirty EXCEPT ![call[p].key] = nil]
                       ELSE dirty
           /\ Finish(p, NoResult)
  <2>1. \A j \in Key : dirty'[j] = IF j = call[p].key THEN nil ELSE dirty[j]
    BY <1>1, <1>3 DEF TypeOK, Maps, AmendedInv
  <2>2. \A j \in Key : AbsVal(j)' = IF j = call[p].key THEN nil ELSE AbsVal(j)
    BY <1>1, <1>3, <2>1 DEF AbsVal, EntryOf
  <2>3. AbsStatus(p)' = "done" /\ ret' = [ret EXCEPT ![p] = NoResult]
    BY <1>1, <1>3, FinishSim
  <2> QED BY <1>1, <2>2, <2>3, WriterAnswers
<1> QED BY <1>1, <1>2, <1>3, GotoWithValue DEF DeleteLocked

LEMMA DeleteLoadSim ==
    ASSUME HInv, RecordSeen, NEW p \in Proc, Step(p), deleteLoad(p)
    PROVE  Simulated
<1>1. /\ TypeOK /\ call[p].op = "Delete" /\ Pending(p) /\ visited' = visited
      /\ pc[p] = "load" /\ AbsStatus(p) = "pending"
  BY SimFacts DEF deleteLoad, At, locals, Pending, AbsStatus
<1>2. \A j \in Key : AbsVal(j)' = AbsVal(j)
  BY SimFacts, ActionEffect, QuietKeeps
<1>3. CASE ptr[ent[p]] \in Gone /\ Finish(p, NoResult)
  <2>1. nil \in seen[p][call[p].key]
    BY <1>1, <1>3, CallSeen DEF ValueIn
  <2>2. AbsStatus(p)' = "done" /\ ret' = [ret EXCEPT ![p] = NoResult]
    BY <1>1, <1>3, FinishSim
  <2> QED BY <1>1, <1>2, <2>1, <2>2, ObserverAnswers
<1>4. CASE Goto(p, "cas") /\ ret' = ret
  <2>1. AbsStatus(p)' = AbsStatus(p)
    BY <1>1, <1>4, GotoValue DEF AbsStatus
  <2> QED BY <1>1, <1>2, <1>4, <2>1, Stutters
<1> QED BY <1>3, <1>4 DEF deleteLoad

LEMMA DeleteCASSim ==
    ASSUME HInv, IInv', RecordSeen, NEW p \in Proc, Step(p), deleteCAS(p)
    PROVE  Simulated
<1> USE SyncMapAssumption
<1>1. /\ TypeOK /\ call[p].op = "Delete" /\ Pending(p) /\ visited' = visited
      /\ pc[p] = "cas" /\ UNCHANGED <<read, dirty>>
      /\ AbsStatus(p) = "pending"
  BY SimFacts DEF deleteCAS, At, locals, shared, Pending, AbsStatus
<1>2. CASE ptr[ent[p]] = old[p]
  <2>1. ptr' = [ptr EXCEPT ![ent[p]] = nil] /\ Finish(p, NoResult)
    BY <1>2 DEF deleteCAS
  <2>2. ptr[ent[p]] # expunged
    BY <1>1, <1>2 DEF TypeOK
  <2>3. /\ call[p].key \in Key
        /\ \A k \in Key : AbsVal(k)' = IF k = call[p].key THEN nil ELSE AbsVal(k)
    BY <1>1, <2>1, <2>2, EntryWritten
  <2>4. AbsStatus(p)' = "done" /\ ret' = [ret EXCEPT ![p] = NoResult]
    BY <1>1, <2>1, FinishSim
  <2> QED BY <1>1, <2>3, <2>4, WriterAnswers
<1>3. CASE ptr[ent[p]] # old[p]
  <2>1. Goto(p, "load") /\ UNCHANGED <<ptr, ret>>
    BY <1>3 DEF deleteCAS
  <2>2. AbsStatus(p)' = AbsStatus(p)
    BY <1>1, <2>1, GotoValue DEF AbsStatus
  <2>3. \A j \in Key : AbsVal(j)' = AbsVal(j)
    BY <1>1, <2>1 DEF AbsVal, EntryOf
  <2> QED BY <1>1, <2>1, <2>2, <2>3, Stutters
<1> QED BY <1>2, <1>3

\* Range reports a value it has seen, skips a deleted entry, or is done.
LEMMA RangeStepSim ==
    ASSUME HInv, RecordSeen, NEW p \in Proc, Step(p), RangeStep(p)
    PROVE  Simulated
<1> USE SyncMapAssumption
<1>1. /\ TypeOK /\ pc[p] = "range" /\ call[p].op = "Range" /\ call' = call
      /\ SeenType /\ SeenInv /\ Frame(p) /\ AbsStatus(p) = "pending"
      /\ absStatus[p] = "pending"
  BY SimFacts DEF RangeStep, HInv, RangeInv, AbsStatus, absStatus
<1>2. \A j \in Key : AbsVal(j)' = AbsVal(j)
  BY SimFacts, ActionEffect, QuietKeeps
<1>3. PICK k \in Key :
        LET v == ptr[todo[p][k]] IN
        /\ todo[p][k] # nil
        /\ \/ /\ v \in Gone
              /\ UNCHANGED <<pc, visited, ret>>
           \/ /\ v \notin Gone
              /\ visited' = [visited EXCEPT ![p][k] = v]
              /\ UNCHANGED <<pc, ret>>
           \/ /\ v \notin Gone
              /\ visited' = [visited EXCEPT ![p][k] = v]
              /\ Finish(p, NoResult)
  BY DEF RangeStep
<1> DEFINE v == ptr[todo[p][k]]
<1>4. CASE UNCHANGED <<pc, visited, ret>>
  <2>1. AbsStatus(p)' = AbsStatus(p)
    BY <1>4 DEF AbsStatus
  <2> QED BY <1>2, <1>4, <2>1, Stutters
<1>5. ASSUME v \notin Gone, visited' = [visited EXCEPT ![p][k] = v]
      PROVE  /\ v \in seen[p][k] \ {nil} /\ visited[p][k] = nil
             /\ Abs!Pending(p, "Range")
  <2>1. todo[p][k] \in Entry /\ Refers(p, k, todo[p][k])
    BY <1>1, <1>3 DEF TypeOK, Maps, Refers
  <2>2. ValueIn(todo[p][k]) \in seen[p][k]
    BY <2>1 DEF HInv, RefersSeen
  <2>3. v \in seen[p][k] \ {nil}
    BY <1>5, <2>2 DEF ValueIn, Gone
  <2>4. visited[p][k] = nil
    BY <1>1, <1>3 DEF HInv, RangeInv
  <2> QED BY <1>1, <2>3, <2>4 DEF Abs!Pending, absStatus
<1>6. CASE /\ v \notin Gone /\ visited' = [visited EXCEPT ![p][k] = v]
           /\ UNCHANGED <<pc, ret>>
  <2>1. AbsStatus(p)' = AbsStatus(p)
    BY <1>6 DEF AbsStatus
  <2>2. UNCHANGED <<absMap, call, absStatus, seen>>
    BY <1>1, <1>2, <2>1, SameSim
  <2>3. Abs!RangeVisit(p)
    BY <1>5, <1>6, <2>2 DEF Abs!RangeVisit, absMap, absStatus
  <2> QED BY <2>3 DEF Simulated, Abs!Next
<1>7. CASE /\ v \notin Gone /\ visited' = [visited EXCEPT ![p][k] = v]
           /\ Finish(p, NoResult)
  <2>1. AbsStatus(p)' = "done" /\ ret' = [ret EXCEPT ![p] = NoResult]
    BY <1>1, <1>7, FinishSim
  <2>2. /\ Abs!Answer(p, NoResult)
        /\ seen' = [seen EXCEPT ![p] = [j \in Key |-> {}]]
        /\ UNCHANGED <<absMap, call>>
    BY <1>1, <1>2, <2>1, DoneSim
  <2>3. Abs!NoResult = NoResult
    BY DEF Abs!NoResult, NoResult, Abs!Result, Result
  <2>4. Abs!RangeVisit(p)
    BY <1>5, <1>7, <2>2, <2>3 DEF Abs!RangeVisit, absMap
  <2> QED BY <2>4 DEF Simulated, Abs!Next
<1> QED BY <1>3, <1>4, <1>6, <1>7

LEMMA RangeEndSim ==
    ASSUME HInv, RecordSeen, NEW p \in Proc, Step(p), RangeEnd(p)
    PROVE  Simulated
<1>1. /\ TypeOK /\ pc[p] = "range" /\ call[p].op = "Range" /\ visited' = visited
      /\ SeenType /\ SeenInv /\ Frame(p) /\ absStatus[p] = "pending"
  BY SimFacts DEF RangeEnd, HInv, RangeInv, AbsStatus, absStatus, locals
<1>2. \A j \in Key : AbsVal(j)' = AbsVal(j)
  BY SimFacts, ActionEffect, QuietKeeps
<1>3. \A k \in Key : visited[p][k] # nil \/ nil \in seen[p][k]
  BY <1>1 DEF RangeEnd, NoKeys, HInv, RangeInv
<1>4. AbsStatus(p)' = "done" /\ ret' = [ret EXCEPT ![p] = Result(nil, TRUE)]
  BY <1>1, FinishSim DEF RangeEnd
<1>5. Abs!Observe(p, Result(nil, TRUE))
  BY <1>1, <1>2, <1>4, ObserveSim
<1>6. Abs!RangeEnd(p)
  BY <1>1, <1>3, <1>5 DEF Abs!RangeEnd, Abs!Pending, Abs!Result, Result, absStatus
<1> QED BY <1>6 DEF Simulated, Abs!Next

\* Invocations and returns are those of the abstract map.
LEMMA OutsideFacts ==
    ASSUME HInv, NEW p \in Proc, Invoke(p) \/ Return(p)
    PROVE  /\ TypeOK /\ SeenType /\ SeenInv
           /\ UNCHANGED <<mu, read, dirty, ptr, ent, todo>>
           /\ \A q \in Proc \ {p} :
                pc'[q] = pc[q] /\ call'[q] = call[q] /\ visited'[q] = visited[q]
           /\ \A k \in Key : AbsVal(k)' = AbsVal(k)
           /\ absMap' = absMap
<1>1. TypeOK /\ SeenType /\ SeenInv
  BY DEF HInv, IInv
<1>2. UNCHANGED <<mu, read, dirty, ptr, ent, todo>>
  BY DEF Invoke, Return, shared, locals
<1>3. \A q \in Proc \ {p} :
        pc'[q] = pc[q] /\ call'[q] = call[q] /\ visited'[q] = visited[q]
  BY <1>1 DEF Invoke, Return, Goto, TypeOK, locals
<1>4. \A k \in Key : AbsVal(k)' = AbsVal(k)
  BY <1>2 DEF AbsVal, EntryOf
<1> QED BY <1>1, <1>2, <1>3, <1>4 DEF absMap

LEMMA InvokeSim ==
    ASSUME HInv, RecordSeen, NEW p \in Proc, Invoke(p)
    PROVE  Simulated
<1> USE SyncMapAssumption
<1>1. /\ TypeOK /\ SeenType /\ SeenInv /\ pc[p] = "idle" /\ pc'[p] = "read"
      /\ UNCHANGED <<ret, visited>>
  BY OutsideFacts, GotoValue DEF Invoke, locals
<1>2. PICK c \in Calls : call' = [call EXCEPT ![p] = c]
  BY DEF Invoke
<1>3. call'[p] = c
  BY <1>1, <1>2 DEF TypeOK
<1>4. AbsStatus(p) = "idle" /\ AbsStatus(p)' = "pending"
  BY <1>1 DEF AbsStatus
<1>5. /\ absStatus' = [absStatus EXCEPT ![p] = "pending"]
      /\ \A q \in Proc \ {p} : AbsStatus(q)' = AbsStatus(q)
  BY <1>4, StatusFrame, OutsideFacts
<1>6. seen' = [seen EXCEPT ![p] =
                 [k \in Key |-> IF k \in Abs!Watched(c) THEN {absMap[k]} ELSE {}]]
  <2>1. ASSUME NEW k \in Key
        PROVE  seen'[p][k] = IF k \in Abs!Watched(c) THEN {absMap[k]} ELSE {}
    <3>1. seen[p][k] = {}
      BY <1>1, <1>4, SeenEmpty DEF Pending
    <3>2. AbsVal(k)' = absMap[k]
      BY OutsideFacts DEF absMap
    <3> QED BY <1>3, <1>4, <3>1, <3>2, SeenNext DEF Pending
  <2>2. \A q \in Proc \ {p}, k \in Key : seen'[q][k] = seen[q][k]
    BY <1>1, <1>5, SeenKept, OutsideFacts
  <2>3. [q \in Proc |-> [k \in Key |-> seen'[q][k]]]
        = [q \in Proc |-> [k \in Key |->
             IF q = p THEN IF k \in Abs!Watched(c) THEN {absMap[k]} ELSE {}
             ELSE seen[q][k]]]
    BY <2>1, <2>2
  <2>4. [seen EXCEPT ![p] =
           [k \in Key |-> IF k \in Abs!Watched(c) THEN {absMap[k]} ELSE {}]]
        = [q \in Proc |-> [k \in Key |->
             IF q = p THEN IF k \in Abs!Watched(c) THEN {absMap[k]} ELSE {}
             ELSE seen[q][k]]]
    BY <1>1 DEF SeenType
  <2> QED BY <1>1, <2>3, <2>4, SeenFunctions
<1>7. c \in Abs!Calls
  BY DEF Abs!Calls, Calls
<1>8. absStatus[p] = "idle"
  BY <1>4 DEF absStatus
<1>9. Abs!Invoke(p)
  BY <1>1, <1>2, <1>5, <1>6, <1>7, <1>8, OutsideFacts DEF Abs!Invoke, absMap, absStatus
<1> QED BY <1>9 DEF Simulated, Abs!Next

LEMMA ReturnSim ==
    ASSUME HInv, RecordSeen, NEW p \in Proc, Return(p)
    PROVE  Simulated
<1> USE SyncMapAssumption
<1>1. /\ TypeOK /\ SeenType /\ SeenInv /\ pc[p] = "ret" /\ pc'[p] = "idle"
      /\ call' = [call EXCEPT ![p] = nil]
      /\ ret' = [ret EXCEPT ![p] = NoResult]
      /\ visited' = [visited EXCEPT ![p] = NoKeys]
  BY OutsideFacts, GotoValue DEF Return
<1>2. AbsStatus(p) = "done" /\ AbsStatus(p)' = "idle"
  BY <1>1 DEF AbsStatus
<1>3. /\ absStatus' = [absStatus EXCEPT ![p] = "idle"]
      /\ \A q \in Proc \ {p} : AbsStatus(q)' = AbsStatus(q)
  BY <1>2, StatusFrame, OutsideFacts
<1>4. seen' = seen
  <2>1. \A k \in Key : seen'[p][k] = {} /\ seen[p][k] = {}
    BY <1>1, <1>2, SeenEmpty, SeenNext DEF Pending
  <2>2. \A q \in Proc \ {p}, k \in Key : seen'[q][k] = seen[q][k]
    BY <1>1, <1>3, SeenKept, OutsideFacts
  <2>3. \A q \in Proc, k \in Key : seen'[q][k] = seen[q][k]
    BY <2>1, <2>2
  <2>4. [q \in Proc |-> [k \in Key |-> seen'[q][k]]]
        = [q \in Proc |-> [k \in Key |-> seen[q][k]]]
    BY <2>3
  <2> QED BY <1>1, <2>4, SeenFunctions
<1>5. absStatus[p] = "done"
  BY <1>2 DEF absStatus
<1>6. Abs!NoResult = NoResult /\ Abs!NoKeys = NoKeys
  BY DEF Abs!NoResult, NoResult, Abs!Result, Result, Abs!NoKeys, NoKeys
<1>7. Abs!Return(p)
  BY <1>1, <1>3, <1>4, <1>5, <1>6, OutsideFacts DEF Abs!Return, absMap, absStatus
<1> QED BY <1>7 DEF Simulated, Abs!Next

LEMMA OutsideInv ==
    ASSUME HInv, IInv', RecordSeen, NEW p \in Proc, Invoke(p) \/ Return(p)
    PROVE  HInv'
<1> USE SyncMapAssumption
<1>1. /\ TypeOK /\ SeenType /\ SeenInv /\ RefersSeen /\ AmendedInv /\ NewKeyInv
      /\ RangeInv /\ Control' /\ TypeOK'
  BY DEF HInv, IInv
<1>2. SeenType' /\ SeenInv'
  BY <1>1, SeenStep
<1>3. AmendedInv'
  BY <1>1, OutsideFacts DEF AmendedInv
<1>4. pc'[p] \in {"read", "idle"} /\ pc[p] \in {"idle", "ret"}
  BY <1>1, GotoValue DEF Invoke, Return
<1>5. NewKeyInv'
  BY <1>1, <1>4, OutsideFacts DEF NewKeyInv, CopyLabels
<1>6. visited'[p] = NoKeys
  <2>1. CASE Invoke(p)
    BY <1>1, <2>1 DEF Invoke, locals, RangeInv
  <2>2. CASE Return(p)
    BY <1>1, <2>2 DEF Return, TypeOK
  <2> QED BY <2>1, <2>2
<1>7. \A q \in Proc \ {p}, k \in Key : seen'[q][k] = seen[q][k]
  BY <1>1, StatusFrame, SeenKept, OutsideFacts
<1>8. RangeInv'
  BY <1>1, <1>4, <1>6, <1>7, OutsideFacts DEF RangeInv
<1>9. RefersSeen'
  <2>1. ASSUME NEW q \in Proc, NEW k \in Key, NEW e \in Entry, Refers(q, k, e)'
        PROVE  /\ ValueIn(e)' \in seen'[q][k]
               /\ \A j \in Key \ {k} : e \notin {read'.m[j], dirty'[j]}
    <3>1. q # p /\ Refers(q, k, e)
      BY <1>4, <2>1, OutsideFacts DEF Refers
    <3>2. ValueIn(e)' = ValueIn(e)
      BY OutsideFacts DEF ValueIn
    <3> QED BY <1>1, <1>7, <3>1, <3>2, OutsideFacts DEF RefersSeen
  <2> QED BY <2>1 DEF RefersSeen
<1> QED BY <1>2, <1>3, <1>5, <1>8, <1>9 DEF HInv
-----------------------------------------------------------------------------
(* The theorems.                                                           *)

LEMMA StepInv ==
    ASSUME HInv, IInv', RecordSeen, NEW p \in Proc, Step(p)
    PROVE  HInv'
<1>1. IInv /\ AmendedInv /\ NewKeyInv /\ SeenType /\ TypeOK'
  BY DEF HInv, IInv
<1>2. AmendedInv' /\ NewKeyInv' /\ SeenType' /\ SeenInv'
  BY <1>1, AmendedStep, NewKeyStep, SeenStep
<1>3. RangeInv'
  BY <1>2, RangeStepInv
<1>4. RefersSeen'
  BY <1>2, <1>3, RefersStep
<1> QED BY <1>2, <1>3, <1>4 DEF HInv

LEMMA StepSim ==
    ASSUME HInv, IInv', RecordSeen, NEW p \in Proc, Step(p)
    PROVE  Simulated
BY LoadReadSim, LoadLockedSim, EntryLoadSim, QuietSim, TryStoreCASSim,
   StoreLockedSim, InsertSim, TryLoadOrStoreLoadSim, TryLoadOrStoreCASSim,
   DeleteReadSim, DeleteLockedSim, DeleteLoadSim, DeleteCASSim, RangeStepSim,
   RangeEndSim DEF Step

LEMMA InitSim == HInit => HInv /\ Abs!Init
<1> SUFFICES ASSUME HInit PROVE HInv /\ Abs!Init
  OBVIOUS
<1>1. IInv
  BY InvInit DEF HInit
<1>2. \A p \in Proc : pc[p] = "idle" /\ AbsStatus(p) = "idle"
  BY DEF HInit, Init, AbsStatus
<1>3. SeenType /\ SeenInv
  BY <1>2 DEF HInit, SeenType, SeenInv, Pending
<1>4. RefersSeen /\ AmendedInv /\ NewKeyInv /\ RangeInv
  BY <1>2 DEF HInit, Init, RefersSeen, Refers, AmendedInv, NewKeyInv, RangeInv,
     CopyLabels, NoKeys
<1>5. \A k \in Key : AbsVal(k) = nil
  BY DEF HInit, Init, AbsVal, EntryOf, NoKeys
<1>6. Abs!Init
  BY <1>2, <1>5 DEF HInit, Init, Abs!Init, Abs!NoKeys, NoKeys, Abs!NoResult, NoResult,
     Abs!Result, Result
<1> QED BY <1>1, <1>3, <1>4, <1>6 DEF HInv

\* The strengthened invariant holds of the map with its history variable.
THEOREM HistoryInvariant == HSpec => []HInv
<1>1. HInit => HInv
  BY InitSim
<1>2. IInv /\ [Next]_vars => IInv'
  BY InvNext
<1>3. HInv /\ [HNext]_<<vars, seen>> => HInv'
  <2> SUFFICES ASSUME HInv, [HNext]_<<vars, seen>> PROVE HInv'
    OBVIOUS
  <2>1. CASE UNCHANGED <<vars, seen>>
    BY <2>1 DEF HInv, vars, IInv, TypeOK, Control, MutualExclusion, Critical, DirtyNil,
       DirtyNotExpunged, CopyInv, EntryOfKey, UnexpungeInv, EntriesDistinct,
       DirtyMirrorsRead, Copying, FastPathSafe, SlowPathSafe, SeenType, SeenInv,
       Pending, AbsStatus, AbsVal, EntryOf, RefersSeen, Refers, ValueIn, AmendedInv,
       NewKeyInv, RangeInv
  <2>2. CASE HNext
    <3>1. IInv' /\ RecordSeen
      BY <1>2, <2>2 DEF HNext, HInv
    <3>2. PICK p \in Proc : Invoke(p) \/ Step(p) \/ Return(p)
      BY <2>2 DEF HNext, Next
    <3> QED BY <3>1, <3>2, StepInv, OutsideInv
  <2> QED BY <2>1, <2>2
<1> QED BY <1>1, <1>3, PTL DEF HSpec

\* Every step of the map of MAP/map.go is a step of ConcurrentMap or leaves it
\* unchanged: Load, Store, LoadOrStore and Delete are linearizable, and Range
\* reports mappings that held during the call.
THEOREM Refines == HSpec => Linearizable
<1>1. HInit => Abs!Init
  BY InitSim
<1>2. IInv /\ [Next]_vars => IInv'
  BY InvNext
<1>3. HInv /\ [HNext]_<<vars, seen>> => [Abs!Next]_(Abs!vars)
  <2> SUFFICES ASSUME HInv, [HNext]_<<vars, seen>> PROVE Simulated
    BY DEF Simulated
  <2>1. CASE UNCHANGED <<vars, seen>>
    BY <2>1 DEF vars, Simulated, Abs!vars, AbsVal, EntryOf, AbsStatus
  <2>2. CASE HNext
    <3>1. IInv' /\ RecordSeen
      BY <1>2, <2>2 DEF HNext, HInv
    <3>2. PICK p \in Proc : Invoke(p) \/ Step(p) \/ Return(p)
      BY <2>2 DEF HNext, Next
    <3> QED BY <3>1, <3>2, StepSim, InvokeSim, ReturnSim
  <2> QED BY <2>1, <2>2
<1> QED BY <1>1, <1>3, HistoryInvariant, PTL DEF HSpec, Linearizable, Abs!Spec
=============================================================================
