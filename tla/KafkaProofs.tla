---------------------------- MODULE KafkaProofs ----------------------------
(* Proofs about KafkaProducer, for any number of producers, messages and   *)
(* retries and any capacity of the pipeline.                               *)
EXTENDS KafkaProducer, FiniteSetTheorems, TLAPS

\* The messages that p's wait group has to count: taken before the shutdown
\* and not answered yet, a message that waits for its retry among them.
Unfinished(p) ==
    {m \in Msg : owner[m] = p /\ at[m] \in {"dispatch", "tooLarge", "pipeline", "retry"}}
Open == {p \in Producer : loop[p] # none}

OwnerInv == \A m \in Msg : owner[m] \in Producer <=> at[m] # "unsent"
CountInv == \A p \in Producer : inFlight[p] = Cardinality(Unfinished(p))
SignalsInv == Signals = Cardinality(Open)

\* What the steps of a shutdown have established: the dispatcher rejects new
\* messages, then none is unfinished, then channels are closed.
ShutdownInv ==
    \A p \in Producer :
        /\ closer[p] = none => shutdown[p] = none
        /\ shutdown[p] \in {"wait", "close"} => shuttingDown[p]
        /\ shutdown[p] = "close" => inFlight[p] = 0
        /\ closed[p] # {} => shutdown[p] = "close"

IInv == TypeOK /\ OwnerInv /\ CountInv /\ SignalsInv /\ ShutdownInv
-----------------------------------------------------------------------------
LEMMA UnfinishedFinite ==
    ASSUME NEW p \in Producer
    PROVE  IsFiniteSet(Unfinished(p)) /\ Cardinality(Unfinished(p)) \in Nat
<1>1. Unfinished(p) \in SUBSET Msg
  BY DEF Unfinished
<1>2. IsFiniteSet(Unfinished(p))
  BY <1>1, FS_Subset, KafkaAssumption
<1> QED BY <1>2, FS_CardinalityType

\* There is a channel for every producer that was opened.
LEMMA OpenBound ==
    /\ Cardinality(Producer) \in Nat /\ Cardinality(Open) \in Nat
    /\ IsFiniteSet(Open)
    /\ Cardinality(Open) <= Cardinality(Producer)
    /\ Open # Producer => Cardinality(Open) < Cardinality(Producer)
<1>1. Open \in SUBSET Producer
  BY DEF Open
<1> QED BY <1>1, FS_Subset, FS_CardinalityType, KafkaAssumption

LEMMA InitInv == Init => IInv
<1> SUFFICES ASSUME Init PROVE IInv
  OBVIOUS
<1>1. Open = {} /\ \A p \in Producer : Unfinished(p) = {}
  BY KafkaAssumption DEF Init, Open, Unfinished
<1>2. Cardinality(Producer) \in Nat
  BY OpenBound
<1>3. TypeOK
  BY <1>2, KafkaAssumption DEF Init, TypeOK, Chans, Channels
<1>4. CountInv /\ SignalsInv
  BY <1>1, FS_EmptySet DEF Init, CountInv, SignalsInv
<1>5. OwnerInv /\ ShutdownInv
  BY KafkaAssumption DEF Init, OwnerInv, ShutdownInv, none
<1> QED BY <1>3, <1>4, <1>5 DEF IInv
-----------------------------------------------------------------------------
\* The counter of a wait group is positive while one of its messages is
\* unfinished.
LEMMA CountPositive ==
    ASSUME IInv, NEW m \in Msg, at[m] \in {"dispatch", "tooLarge", "pipeline", "retry"}
    PROVE  owner[m] \in Producer /\ inFlight[owner[m]] \in Nat \ {0}
<1>1. owner[m] \in Producer
  BY DEF IInv, OwnerInv
<1>2. m \in Unfinished(owner[m])
  BY DEF Unfinished
<1>3. inFlight[owner[m]] = Cardinality(Unfinished(owner[m]))
  BY <1>1 DEF IInv, CountInv
<1> QED BY <1>1, <1>2, <1>3, UnfinishedFinite, FS_EmptySet

LEMMA TypeStep == IInv /\ [Next]_vars => TypeOK'
<1> SUFFICES ASSUME IInv, [Next]_vars PROVE TypeOK'
  OBVIOUS
<1> USE DEF msgs, loops, closing, Held, Channels, none
<1>0. /\ TypeOK
      /\ Cardinality(Producer) \in Nat
  BY OpenBound DEF IInv
<1>1. ASSUME NEW p \in Producer, InitAsyncProducer(p) PROVE TypeOK'
  <2>1. p \notin Open
    BY <1>1 DEF InitAsyncProducer, Open
  <2>2. Signals + 1 \in 0..Cardinality(Producer)
    BY <2>1, OpenBound DEF IInv, SignalsInv
  <2> QED BY <1>0, <1>1, <2>2 DEF TypeOK, InitAsyncProducer
<1>2. ASSUME NEW p \in Producer, NEW m \in Msg, SendMsg(p, m) PROVE TypeOK'
  <2>1. /\ owner' = [owner EXCEPT ![m] = p] \/ UNCHANGED owner
        /\ UNCHANGED at \/ \E a \in Held : at' = [at EXCEPT ![m] = a]
        /\ inFlight' = [inFlight EXCEPT ![p] = @ + 1] \/ UNCHANGED inFlight
        /\ crash' = "closed input" \/ UNCHANGED crash
    BY <1>2 DEF SendMsg
  <2>2. owner' \in [Msg -> Producer \cup {none}] /\ inFlight' \in [Producer -> Nat]
    <3>1. owner \in [Msg -> Producer \cup {none}] /\ inFlight \in [Producer -> Nat]
      BY <1>0 DEF TypeOK
    <3>2. owner' \in [Msg -> Producer \cup {none}]
      BY <2>1, <3>1
    <3>3. inFlight' \in [Producer -> Nat]
      <4>1. CASE UNCHANGED inFlight
        BY <3>1, <4>1
      <4>2. CASE inFlight' = [inFlight EXCEPT ![p] = @ + 1]
        BY <3>1, <4>2
      <4> QED BY <2>1, <4>1, <4>2
    <3> QED BY <3>2, <3>3
  <2>3. at' \in [Msg -> Held \cup {"unsent", "pipeline", "retry", "sent", "failed"}]
    BY <1>0, <2>1 DEF TypeOK
  <2>4. UNCHANGED <<Signals, signal, loops, retries, closing>>
    BY <1>2 DEF SendMsg
  <2> QED BY <1>0, <2>1, <2>2, <2>3, <2>4 DEF TypeOK
<1>3. ASSUME NEW p \in Producer, Select(p) PROVE TypeOK'
  BY <1>0, <1>3 DEF TypeOK, Select
<1>4. ASSUME NEW p \in Producer, SelectSignal(p) PROVE TypeOK'
  BY <1>0, <1>4 DEF TypeOK, SelectSignal
<1>5. ASSUME NEW p \in Producer, SelectClosedSuccesses(p) PROVE TypeOK'
  BY <1>0, <1>5 DEF TypeOK, SelectClosedSuccesses
<1>6. ASSUME NEW p \in Producer, SelectClosedErrors(p) PROVE TypeOK'
  BY <1>0, <1>6 DEF TypeOK, SelectClosedErrors
<1>7. ASSUME NEW p \in Producer, CloseProducer(p) PROVE TypeOK'
  BY <1>0, <1>7 DEF TypeOK, CloseProducer
<1>8. ASSUME NEW p \in Producer, SendExit(p) PROVE TypeOK'
  BY <1>0, <1>8 DEF TypeOK, SendExit
<1>9. ASSUME NEW p \in Producer, CloseReturns(p) PROVE TypeOK'
  BY <1>0, <1>9 DEF TypeOK, CloseReturns
<1>10. ASSUME NEW p \in Producer, SendShutdown(p) PROVE TypeOK'
  BY <1>0, <1>10 DEF TypeOK, SendShutdown
<1>11. ASSUME NEW p \in Producer, WaitInFlight(p) PROVE TypeOK'
  BY <1>0, <1>11 DEF TypeOK, WaitInFlight
<1>12. ASSUME NEW p \in Producer, CloseChannel(p) PROVE TypeOK'
  <2>1. closed' \in [Producer -> SUBSET Channels]
    <3>1. PICK c \in Channels : closed' = [closed EXCEPT ![p] = closed[p] \cup {c}]
      BY <1>12 DEF CloseChannel
    <3>2. closed[p] \cup {c} \in SUBSET Channels
      BY <1>0, <3>1 DEF TypeOK
    <3> QED BY <1>0, <3>1, <3>2 DEF TypeOK
  <2>2. crash' \in {"no", "nil error", "closed input", "closed errors"}
    BY <1>12 DEF CloseChannel
  <2> QED BY <1>0, <1>12, <2>1, <2>2 DEF TypeOK, CloseChannel
<1>13. ASSUME NEW m \in Msg, Dispatch(m) PROVE TypeOK'
  BY <1>0, <1>13 DEF TypeOK, Dispatch
<1>14. ASSUME NEW m \in Msg, retryMessage(m) PROVE TypeOK'
  <2>1. retries[m] + 1 \in 0..MaxRetry
    <3>1. retries[m] \in 0..MaxRetry /\ retries[m] < MaxRetry
      BY <1>0, <1>14 DEF TypeOK, retryMessage
    <3> QED BY <3>1, KafkaAssumption
  <2>2. retries' \in [Msg -> 0..MaxRetry]
    BY <1>0, <1>14, <2>1 DEF TypeOK, retryMessage
  <2> QED BY <1>0, <1>14, <2>2 DEF TypeOK, retryMessage
<1>15. ASSUME NEW m \in Msg, retryHandler(m) PROVE TypeOK'
  BY <1>0, <1>15 DEF TypeOK, retryHandler
<1>16. ASSUME NEW m \in Msg, returnError(m) PROVE TypeOK'
  <2>1. owner[m] \in Producer /\ (at[m] # "rejected" => inFlight[owner[m]] - 1 \in Nat)
    <3>1. at[m] # "rejected" => inFlight[owner[m]] \in Nat \ {0}
      BY <1>16, CountPositive DEF returnError
    <3> QED BY <1>16, <3>1 DEF returnError, IInv, OwnerInv
  <2>2. loop' \in [Producer -> {none, "select", "wait", "exited"}]
    <3>1. loop' = loop \/ loop' = [loop EXCEPT ![owner[m]] = "select"]
      BY <1>16 DEF returnError, Receive
    <3> QED BY <1>0, <3>1 DEF TypeOK
  <2>3. inFlight' \in [Producer -> Nat]
    BY <1>0, <1>16, <2>1 DEF TypeOK, returnError
  <2>4. at' \in [Msg -> Held \cup {"unsent", "pipeline", "retry", "sent", "failed"}]
    BY <1>0, <1>16 DEF TypeOK, returnError
  <2>5. UNCHANGED <<Signals, signal, waitsOn, owner, retries, closing, crash>>
    BY <1>16 DEF returnError
  <2> QED BY <1>0, <2>2, <2>3, <2>4, <2>5 DEF TypeOK
<1>17. ASSUME NEW m \in Msg, returnSuccess(m) PROVE TypeOK'
  <2>1. owner[m] \in Producer /\ (at[m] # "rejected" => inFlight[owner[m]] - 1 \in Nat)
    <3>1. at[m] # "rejected" => inFlight[owner[m]] \in Nat \ {0}
      BY <1>17, CountPositive DEF returnSuccess
    <3> QED BY <1>17, <3>1 DEF returnSuccess, IInv, OwnerInv
  <2>2. loop' \in [Producer -> {none, "select", "wait", "exited"}]
    <3>1. loop' = loop \/ loop' = [loop EXCEPT ![owner[m]] = "select"]
      BY <1>17 DEF returnSuccess, Receive
    <3> QED BY <1>0, <3>1 DEF TypeOK
  <2>3. inFlight' \in [Producer -> Nat]
    BY <1>0, <1>17, <2>1 DEF TypeOK, returnSuccess
  <2>4. at' \in [Msg -> Held \cup {"unsent", "pipeline", "retry", "sent", "failed"}]
    BY <1>0, <1>17 DEF TypeOK, returnSuccess
  <2>5. UNCHANGED <<Signals, signal, waitsOn, owner, retries, closing, crash>>
    BY <1>17 DEF returnSuccess
  <2> QED BY <1>0, <2>2, <2>3, <2>4, <2>5 DEF TypeOK
<1>18. CASE UNCHANGED vars
  BY <1>0, <1>18 DEF TypeOK, vars
<1> QED
  BY <1>1, <1>2, <1>3, <1>4, <1>5, <1>6, <1>7, <1>8, <1>9, <1>10, <1>11, <1>12, <1>13, <1>14, <1>15, <1>16, <1>17, <1>18 DEF Next
-----------------------------------------------------------------------------
\* A message is counted from the step that takes it to the step that answers
\* it, retries included.
LEMMA CountStep == IInv /\ [Next]_vars => CountInv'
<1> SUFFICES ASSUME IInv, [Next]_vars PROVE CountInv'
  OBVIOUS
<1> USE DEF msgs, loops, closing, Held, none
<1>0. /\ TypeOK /\ OwnerInv /\ CountInv
      /\ \A p \in Producer : inFlight[p] = Cardinality(Unfinished(p))
      /\ inFlight \in [Producer -> Nat]
      /\ at \in [Msg -> Held \cup {"unsent", "pipeline", "retry", "sent", "failed"}]
      /\ owner \in [Msg -> Producer \cup {none}]
  BY DEF IInv, CountInv, TypeOK
<1>1. ASSUME UNCHANGED inFlight, \A p \in Producer : Unfinished(p)' = Unfinished(p)
      PROVE  CountInv'
  BY <1>0, <1>1 DEF CountInv
<1>2. ASSUME UNCHANGED <<at, owner, inFlight>> PROVE CountInv'
  BY <1>1, <1>2 DEF Unfinished
<1>3. ASSUME NEW p \in Producer, NEW m \in Msg, SendMsg(p, m) PROVE CountInv'
  <2>1. CASE UNCHANGED <<at, owner, inFlight>>
    BY <1>2, <2>1
  <2>2. CASE /\ owner' = [owner EXCEPT ![m] = p]
             /\ at' = [at EXCEPT ![m] = "rejected"]
             /\ UNCHANGED inFlight
    <3>1. \A q \in Producer : m \notin Unfinished(q) /\ m \notin Unfinished(q)'
      BY <1>0, <1>3, <2>2 DEF Unfinished, SendMsg
    <3>2. \A q \in Producer : Unfinished(q)' = Unfinished(q)
      BY <1>0, <2>2, <3>1 DEF Unfinished
    <3> QED BY <1>1, <2>2, <3>2
  <2>3. CASE \E a \in {"dispatch", "tooLarge"} :
               /\ owner' = [owner EXCEPT ![m] = p]
               /\ at' = [at EXCEPT ![m] = a]
               /\ inFlight' = [inFlight EXCEPT ![p] = @ + 1]
    <3>1. m \notin Unfinished(p)
      BY <1>0, <1>3 DEF Unfinished, SendMsg
    <3>2. Unfinished(p)' = Unfinished(p) \cup {m}
      BY <1>0, <2>3 DEF Unfinished
    <3>3. \A q \in Producer \ {p} : Unfinished(q)' = Unfinished(q)
      <4>1. \A q \in Producer \ {p} : m \notin Unfinished(q) /\ m \notin Unfinished(q)'
        BY <1>0, <1>3, <2>3 DEF Unfinished, SendMsg
      <4> QED BY <1>0, <2>3, <4>1 DEF Unfinished
    <3>4. Cardinality(Unfinished(p)') = Cardinality(Unfinished(p)) + 1
      BY <3>1, <3>2, UnfinishedFinite, FS_AddElement
    <3>5. \A q \in Producer : inFlight'[q] = Cardinality(Unfinished(q)')
      BY <1>0, <2>3, <3>3, <3>4
    <3> QED BY <3>5 DEF CountInv
  <2> QED BY <1>3, <2>1, <2>2, <2>3 DEF SendMsg
\* The message stays unfinished.
<1>4. ASSUME NEW m \in Msg, UNCHANGED <<owner, inFlight>>,
             at[m] \in {"dispatch", "pipeline", "retry"},
             NEW a \in {"dispatch", "pipeline", "retry"},
             at' = [at EXCEPT ![m] = a]
      PROVE  CountInv'
  <2>1. \A p \in Producer : Unfinished(p)' = Unfinished(p)
    BY <1>0, <1>4 DEF Unfinished
  <2> QED BY <1>1, <1>4, <2>1
<1>5. ASSUME NEW m \in Msg, Dispatch(m) \/ retryMessage(m) \/ retryHandler(m)
      PROVE  CountInv'
  BY <1>4, <1>5 DEF Dispatch, retryMessage, retryHandler
\* The message is answered.
<1>6. ASSUME NEW m \in Msg, NEW a \in {"sent", "failed"}, UNCHANGED owner,
             at[m] \in {"pipeline", "tooLarge"},
             at' = [at EXCEPT ![m] = a],
             inFlight' = [inFlight EXCEPT ![owner[m]] = @ - 1]
      PROVE  CountInv'
  <2>1. owner[m] \in Producer
    BY <1>0, <1>6 DEF OwnerInv
  <2>2. m \in Unfinished(owner[m])
    BY <1>6 DEF Unfinished
  <2>3. Unfinished(owner[m])' = Unfinished(owner[m]) \ {m}
    BY <1>0, <1>6 DEF Unfinished
  <2>4. \A q \in Producer \ {owner[m]} : Unfinished(q)' = Unfinished(q)
    BY <1>0, <1>6 DEF Unfinished
  <2>5. Cardinality(Unfinished(owner[m])') = Cardinality(Unfinished(owner[m])) - 1
    BY <2>1, <2>2, <2>3, UnfinishedFinite, FS_RemoveElement
  <2>6. \A q \in Producer : inFlight'[q] = Cardinality(Unfinished(q)')
    BY <1>0, <1>6, <2>1, <2>4, <2>5
  <2> QED BY <2>6 DEF CountInv
<1>7. ASSUME NEW m \in Msg, returnError(m) PROVE CountInv'
  <2>1. CASE at[m] = "rejected"
    <3>1. UNCHANGED <<owner, inFlight>> /\ at' = [at EXCEPT ![m] = "failed"]
      <4>1. inFlight' = [inFlight EXCEPT ![owner[m]] = @]
        BY <1>7, <2>1 DEF returnError
      <4>2. inFlight' = inFlight
        BY <1>0, <4>1
      <4> QED BY <1>7, <4>2 DEF returnError
    <3>2. \A p \in Producer : Unfinished(p)' = Unfinished(p)
      BY <1>0, <2>1, <3>1 DEF Unfinished
    <3> QED BY <1>1, <3>1, <3>2
  <2>2. CASE at[m] # "rejected"
    BY <1>6, <1>7, <2>2 DEF returnError
  <2> QED BY <2>1, <2>2
<1>8. ASSUME NEW m \in Msg, returnSuccess(m) PROVE CountInv'
  BY <1>6, <1>8 DEF returnSuccess
<1>9. ASSUME NEW p \in Producer,
             \/ InitAsyncProducer(p) \/ CloseProducer(p)
             \/ Select(p) \/ SelectSignal(p)
             \/ SelectClosedSuccesses(p) \/ SelectClosedErrors(p)
             \/ SendExit(p) \/ CloseReturns(p)
             \/ SendShutdown(p) \/ WaitInFlight(p) \/ CloseChannel(p)
      PROVE  CountInv'
  BY <1>2, <1>9
     DEF InitAsyncProducer, CloseProducer, Select, SelectSignal, SelectClosedSuccesses,
         SelectClosedErrors, SendExit, CloseReturns, SendShutdown, WaitInFlight, CloseChannel
<1>10. CASE UNCHANGED vars
  BY <1>2, <1>10 DEF vars
<1> QED
  BY <1>3, <1>5, <1>7, <1>8, <1>9, <1>10 DEF Next

\* The steps of a producer's life: opened once, never forgotten.
LEMMA SignalsStep == IInv /\ [Next]_vars => SignalsInv'
<1> SUFFICES ASSUME IInv, [Next]_vars PROVE SignalsInv'
  OBVIOUS
<1> USE DEF msgs, loops, closing, none
<1>0. loop \in [Producer -> {none, "select", "wait", "exited"}] /\ SignalsInv
  BY DEF IInv, TypeOK
<1>1. ASSUME NEW p \in Producer, InitAsyncProducer(p) PROVE SignalsInv'
  <2>1. p \notin Open /\ Open' = Open \cup {p}
    BY <1>0, <1>1 DEF InitAsyncProducer, Open
  <2>2. Cardinality(Open') = Cardinality(Open) + 1
    BY <2>1, OpenBound, FS_AddElement
  <2> QED BY <1>0, <1>1, <2>2 DEF InitAsyncProducer, SignalsInv
<1>2. ASSUME UNCHANGED Signals, \A p \in Producer : loop'[p] = none <=> loop[p] = none
      PROVE  SignalsInv'
  <2>1. Open' = Open
    BY <1>2 DEF Open
  <2> QED BY <1>0, <1>2, <2>1 DEF SignalsInv
<1>3. ASSUME NEW p \in Producer, loop[p] # none, NEW l \in {"select", "wait", "exited"},
             loop' = [loop EXCEPT ![p] = l], UNCHANGED Signals
      PROVE  SignalsInv'
  BY <1>0, <1>2, <1>3
<1>4. ASSUME NEW p \in Producer,
             Select(p) \/ SelectSignal(p) \/ SelectClosedSuccesses(p)
      PROVE  SignalsInv'
  BY <1>3, <1>4 DEF Select, SelectSignal, SelectClosedSuccesses
<1>5. ASSUME NEW m \in Msg, returnError(m) \/ returnSuccess(m) PROVE SignalsInv'
  <2>1. owner[m] \in Producer
    BY <1>5 DEF returnError, returnSuccess, IInv, OwnerInv
  <2>2. /\ UNCHANGED Signals
        /\ \/ UNCHANGED loop
           \/ loop[owner[m]] = "wait" /\ loop' = [loop EXCEPT ![owner[m]] = "select"]
    BY <1>5 DEF returnError, returnSuccess, Receive
  <2> QED BY <1>2, <1>3, <2>1, <2>2
<1>6. ASSUME NEW p \in Producer,
             \/ CloseProducer(p) \/ SelectClosedErrors(p)
             \/ SendExit(p) \/ CloseReturns(p)
             \/ SendShutdown(p) \/ WaitInFlight(p) \/ CloseChannel(p)
             \/ \E m \in Msg : SendMsg(p, m)
      PROVE  SignalsInv'
  BY <1>2, <1>6
     DEF CloseProducer, SelectClosedErrors, SendExit, CloseReturns, SendShutdown,
         WaitInFlight, CloseChannel, SendMsg
<1>7. ASSUME NEW m \in Msg, Dispatch(m) \/ retryMessage(m) \/ retryHandler(m)
      PROVE  SignalsInv'
  BY <1>2, <1>7 DEF Dispatch, retryMessage, retryHandler
<1>8. CASE UNCHANGED vars
  BY <1>2, <1>8 DEF vars
<1> QED
  BY <1>1, <1>4, <1>5, <1>6, <1>7, <1>8 DEF Next

LEMMA OwnerStep == IInv /\ [Next]_vars => OwnerInv'
<1> SUFFICES ASSUME IInv, [Next]_vars PROVE OwnerInv'
  OBVIOUS
<1> USE DEF msgs, loops, closing, Held, none
<1>0. /\ OwnerInv
      /\ at \in [Msg -> Held \cup {"unsent", "pipeline", "retry", "sent", "failed"}]
      /\ owner \in [Msg -> Producer \cup {none}]
  BY DEF IInv, TypeOK
<1>1. ASSUME UNCHANGED <<at, owner>> PROVE OwnerInv'
  BY <1>0, <1>1 DEF OwnerInv
<1>2. ASSUME NEW p \in Producer, NEW m \in Msg, SendMsg(p, m) PROVE OwnerInv'
  <2>1. \/ UNCHANGED <<at, owner>>
        \/ /\ owner' = [owner EXCEPT ![m] = p]
           /\ \E a \in Held : at' = [at EXCEPT ![m] = a]
    BY <1>2 DEF SendMsg
  <2> QED BY <1>0, <1>1, <2>1 DEF OwnerInv
<1>3. ASSUME NEW m \in Msg, at[m] # "unsent", UNCHANGED owner,
             NEW a \in {"dispatch", "pipeline", "retry", "sent", "failed"},
             at' = [at EXCEPT ![m] = a]
      PROVE  OwnerInv'
  BY <1>0, <1>3 DEF OwnerInv
<1>4. ASSUME NEW m \in Msg,
             \/ Dispatch(m) \/ returnError(m) \/ returnSuccess(m)
             \/ retryMessage(m) \/ retryHandler(m)
      PROVE  OwnerInv'
  BY <1>3, <1>4 DEF Dispatch, returnError, returnSuccess, retryMessage, retryHandler
<1>5. ASSUME NEW p \in Producer,
             \/ InitAsyncProducer(p) \/ CloseProducer(p)
             \/ Select(p) \/ SelectSignal(p)
             \/ SelectClosedSuccesses(p) \/ SelectClosedErrors(p)
             \/ SendExit(p) \/ CloseReturns(p)
             \/ SendShutdown(p) \/ WaitInFlight(p) \/ CloseChannel(p)
      PROVE  OwnerInv'
  BY <1>1, <1>5
     DEF InitAsyncProducer, CloseProducer, Select, SelectSignal, SelectClosedSuccesses,
         SelectClosedErrors, SendExit, CloseReturns, SendShutdown, WaitInFlight, CloseChannel
<1>6. CASE UNCHANGED vars
  BY <1>1, <1>6 DEF vars
<1> QED
  BY <1>2, <1>4, <1>5, <1>6 DEF Next

\* Once the wait group has been waited for nothing is counted any more: what
\* the dispatcher still takes it rejects.
LEMMA ShutdownStep == IInv /\ [Next]_vars => ShutdownInv'
<1> SUFFICES ASSUME IInv, [Next]_vars PROVE ShutdownInv'
  OBVIOUS
<1> USE DEF msgs, loops, closing, Held, none
<1>0. /\ ShutdownInv
      /\ shutdown \in [Producer -> {none, "send", "wait", "close"}]
      /\ shuttingDown \in [Producer -> BOOLEAN]
      /\ closed \in [Producer -> SUBSET Channels]
      /\ closer \in [Producer -> {none, "signal", "drain", "returned"}]
      /\ inFlight \in [Producer -> Nat]
  BY DEF IInv, TypeOK
<1>1. ASSUME UNCHANGED <<shutdown, shuttingDown, closed>>,
             closer' = closer \/ \E p \in Producer, c \in {"drain", "returned"} :
                                   closer' = [closer EXCEPT ![p] = c],
             \A p \in Producer : shutdown[p] = "close" => inFlight'[p] = inFlight[p]
      PROVE  ShutdownInv'
  BY <1>0, <1>1 DEF ShutdownInv
<1>2. ASSUME NEW p \in Producer, NEW m \in Msg, SendMsg(p, m) PROVE ShutdownInv'
  <2>1. \/ UNCHANGED inFlight
        \/ ~shuttingDown[p] /\ inFlight' = [inFlight EXCEPT ![p] = @ + 1]
    BY <1>2 DEF SendMsg
  <2>2. \A q \in Producer : shutdown[q] = "close" => inFlight'[q] = inFlight[q]
    BY <1>0, <2>1 DEF ShutdownInv
  <2> QED BY <1>1, <1>2, <2>2 DEF SendMsg
<1>3. ASSUME NEW m \in Msg, returnError(m) \/ returnSuccess(m) PROVE ShutdownInv'
  <2>1. \/ inFlight' = [inFlight EXCEPT ![owner[m]] = @]
        \/ /\ at[m] \in {"pipeline", "tooLarge"}
           /\ inFlight' = [inFlight EXCEPT ![owner[m]] = @ - 1]
    BY <1>3 DEF returnError, returnSuccess
  <2>2. \A q \in Producer : shutdown[q] = "close" => inFlight'[q] = inFlight[q]
    BY <1>0, <2>1, CountPositive DEF ShutdownInv
  <2> QED BY <1>1, <1>3, <2>2 DEF returnError, returnSuccess
<1>4. ASSUME NEW p \in Producer, CloseProducer(p) PROVE ShutdownInv'
  <2>1. closed[p] = {}
    BY <1>0, <1>4 DEF CloseProducer, ShutdownInv
  <2> QED BY <1>0, <1>4, <2>1 DEF CloseProducer, ShutdownInv
<1>5. ASSUME NEW p \in Producer, SendShutdown(p) PROVE ShutdownInv'
  BY <1>0, <1>5 DEF SendShutdown, ShutdownInv
<1>6. ASSUME NEW p \in Producer, WaitInFlight(p) PROVE ShutdownInv'
  BY <1>0, <1>6 DEF WaitInFlight, ShutdownInv
<1>7. ASSUME NEW p \in Producer, CloseChannel(p) PROVE ShutdownInv'
  BY <1>0, <1>7 DEF CloseChannel, ShutdownInv
<1>8. ASSUME NEW p \in Producer,
             \/ InitAsyncProducer(p) \/ Select(p) \/ SelectSignal(p)
             \/ SelectClosedSuccesses(p) \/ SelectClosedErrors(p)
             \/ SendExit(p) \/ CloseReturns(p)
      PROVE  ShutdownInv'
  BY <1>1, <1>8
     DEF InitAsyncProducer, Select, SelectSignal, SelectClosedSuccesses,
         SelectClosedErrors, SendExit, CloseReturns
<1>9. ASSUME NEW m \in Msg, Dispatch(m) \/ retryMessage(m) \/ retryHandler(m)
      PROVE  ShutdownInv'
  BY <1>1, <1>9 DEF Dispatch, retryMessage, retryHandler
<1>10. CASE UNCHANGED vars
  BY <1>1, <1>10 DEF vars
<1> QED
  BY <1>2, <1>3, <1>4, <1>5, <1>6, <1>7, <1>8, <1>9, <1>10 DEF Next
-----------------------------------------------------------------------------
\* The inductive invariant: the wait group counts the unfinished messages,
\* and a shutdown has waited for it before it closes a channel.
THEOREM Invariant == Spec => []IInv
<1>1. IInv /\ [Next]_vars => IInv'
  BY TypeStep, CountStep, SignalsStep, OwnerStep, ShutdownStep DEF IInv
<1> QED BY InitInv, <1>1, PTL DEF Spec

\* Every variable keeps its type: Signals never counts more channels than
\* producers, and the counter of a wait group is never negative, which would
\* panic.
THEOREM TypeCorrect == Spec => []TypeOK
<1>1. IInv => TypeOK
  BY DEF IInv
<1> QED BY Invariant, <1>1, PTL

\* The results of all messages taken before a shutdown are delivered before a
\* channel of their producer is closed.
THEOREM ResultsFirst == Spec => []ResultsBeforeClose
<1>1. IInv => ResultsBeforeClose
  <2> SUFFICES ASSUME IInv, NEW p \in Producer, closed[p] # {},
                      NEW m \in Msg, owner[m] = p
               PROVE  at[m] \in {"sent", "failed", "rejected"}
    BY DEF ResultsBeforeClose
  <2>1. inFlight[p] = 0 /\ Cardinality(Unfinished(p)) = 0
    BY DEF IInv, ShutdownInv, CountInv
  <2>2. Unfinished(p) = {}
    BY <2>1, UnfinishedFinite, FS_EmptySet
  <2> QED BY <2>2 DEF Unfinished, IInv, OwnerInv, TypeOK, Held
<1> QED BY Invariant, <1>1, PTL
=============================================================================
