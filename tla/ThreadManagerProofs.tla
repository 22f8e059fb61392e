------------------------ MODULE ThreadManagerProofs ------------------------
(***************************************************************************)
(* The safety properties of ThreadManager, for any number of workers,      *)
(* stoppers, errors and calls of SeelogInit and any size of the queue.     *)
(***************************************************************************)
EXTENDS ThreadManager, FiniteSetTheorems, TLAPS

\* What the log alone keeps: LOG is set before a channel is made, a channel
\* before a loop receives from it, and a loop posts an error.
LogInv ==
    /\ LogTypeOK
    /\ starting = "LOG" => channels < MaxInit
    /\ starting = "channel" => channels # 0
    /\ channels # 0 \/ starting # "no" => LOG
    /\ \A i \in Chans :
         /\ loop[i] # none => channels # 0
         /\ loop[i] = "wait" => waitsOn[i] # 0
         /\ loop[i] = "post" => posting[i] \in Err

Busy == {w \in Worker : worker[w] \in Counted}

ThreadTypeOK ==
    /\ crash \in {"no", "config", "nil LOG", "closed twice", "reused"}
    /\ closed \in BOOLEAN
    /\ counter \in Nat
    /\ worker \in [Worker -> Counted \cup {none, "select", "stopped", "add", "finished", "returned"}]
    /\ logging \in [Worker -> Err \cup {none}]
    /\ stopper \in [Stopper -> {none, "idle", "close", "wait", "waiting", "woken", "waited", "returned"}]
    /\ late \subseteq Worker

\* The stoppers that have closed the channel.
Past == {"wait", "waiting", "woken", "waited", "returned"}

\* The wait group counts the workers between Add and Done; the channel is
\* closed exactly when a stopper is past Stop; late work is work after that.
ThreadInv ==
    /\ ThreadTypeOK
    /\ counter = Cardinality(Busy)
    /\ \A w \in Worker : worker[w] \in {"error", "send"} => logging[w] \in Err
    /\ closed <=> \E s \in Stopper : stopper[s] \in Past
    /\ late # {} => closed

IInv == LogInv /\ ThreadInv /\ OneLateUnit /\ WaitMeansOver /\ PanicIsMisuse

---------------------------------------------------------------------------
(* The busy workers.                                                       *)

\* They are finitely many, so a counter of zero means that there is none.
LEMMA NoneOfWorkers ==
    ASSUME NEW S, S \subseteq Worker
    PROVE  IsFiniteSet(S) /\ (Cardinality(S) = 0 <=> S = {})
<1>1. IsFiniteSet(S)
  BY WorkerAssumption, FS_Subset
<1>2. QED
  BY <1>1, FS_EmptySet

LEMMA BusyFinite ==
    ASSUME ThreadInv
    PROVE  IsFiniteSet(Busy) /\ (counter = 0 <=> Busy = {})
<1>1. Busy \subseteq Worker
  BY DEF Busy
<1>2. QED
  BY <1>1, NoneOfWorkers DEF ThreadInv

\* Add and Done count a worker in and out, other steps leave the count alone.
LEMMA BusyAfter ==
    ASSUME ThreadInv, NEW w \in Worker, NEW to, worker' = [worker EXCEPT ![w] = to]
    PROVE  /\ worker[w] \notin Counted /\ to \in Counted => Cardinality(Busy') = counter + 1
           /\ worker[w] \in Counted /\ to \notin Counted => Cardinality(Busy') = counter - 1
           /\ (worker[w] \in Counted <=> to \in Counted) => Cardinality(Busy') = counter
<1>1. \A v \in Worker : worker'[v] = IF v = w THEN to ELSE worker[v]
  BY DEF ThreadInv, ThreadTypeOK
<1>2. IsFiniteSet(Busy) /\ counter = Cardinality(Busy)
  BY BusyFinite DEF ThreadInv
<1>3. ASSUME worker[w] \notin Counted, to \in Counted
      PROVE  Cardinality(Busy') = counter + 1
  <2>1. Busy' = Busy \cup {w} /\ w \notin Busy
    BY <1>1, <1>3 DEF Busy
  <2>2. QED
    BY <1>2, <2>1, FS_AddElement
<1>4. ASSUME worker[w] \in Counted, to \notin Counted
      PROVE  Cardinality(Busy') = counter - 1
  <2>1. Busy' = Busy \ {w} /\ w \in Busy
    BY <1>1, <1>4 DEF Busy
  <2>2. QED
    BY <1>2, <2>1, FS_RemoveElement
<1>5. ASSUME worker[w] \in Counted <=> to \in Counted
      PROVE  Cardinality(Busy') = counter
  <2>1. Busy' = Busy
    BY <1>1, <1>5 DEF Busy
  <2>2. QED
    BY <1>2, <2>1
<1>6. QED
  BY <1>3, <1>4, <1>5

---------------------------------------------------------------------------
(* The log.                                                                *)

LEMMA LogStep ==
    ASSUME LogInv, LogNext
    PROVE  LogInv' /\ (crash' = crash \/ crash' = "config") /\ (channels # channels' => LOG)
<1> USE DEF LogInv, LogTypeOK, Chans, queues, loops, none
<1>1. CASE SetLOG
  BY <1>1 DEF SetLOG
<1>2. CASE BadConfig
  BY <1>2 DEF BadConfig, logVars
<1>3. CASE MakeChannel
  BY <1>3, LogAssumption DEF MakeChannel
<1>4. CASE StartLoop
  BY <1>4 DEF StartLoop
<1>5. CASE Hang
  BY <1>5 DEF Hang
<1>6. ASSUME NEW i \in Chans, Receive(i)
      PROVE  LogInv' /\ crash' = crash /\ channels' = channels
  BY <1>6 DEF Receive
<1>7. ASSUME NEW i \in Chans, Take(i)
      PROVE  LogInv' /\ crash' = crash /\ channels' = channels
  <2> DEFINE c == waitsOn[i]
  <2>1. c \in Chans /\ queue[c] \in Seq(Err) /\ queue[c] # <<>>
    BY <1>7 DEF Take
  <2>2. Head(queue[c]) \in Err /\ Tail(queue[c]) \in Seq(Err)
    BY <2>1
  <2>3. QED
    BY <1>7, <2>1, <2>2 DEF Take
<1>8. ASSUME NEW i \in Chans, Posted(i)
      PROVE  LogInv' /\ crash' = crash /\ channels' = channels
  BY <1>8 DEF Posted
<1>9. QED
  BY <1>1, <1>2, <1>3, <1>4, <1>5, <1>6, <1>7, <1>8 DEF LogNext

LEMMA SendStep ==
    ASSUME LogInv, NEW e \in Err, AsyncSendToLogMonitor(e)
    PROVE  LogInv'
<1> USE DEF LogInv, LogTypeOK, Chans, loops, AsyncSendToLogMonitor
<1>1. CASE Full
  BY <1>1
<1>2. CASE ~Full
  <2>1. channels \in Chans /\ Append(queue[channels], e) \in Seq(Err)
    BY <1>2 DEF Full
  <2>2. QED
    BY <1>2, <2>1
<1>3. QED
  BY <1>1, <1>2

LEMMA LogUnchanged ==
    ASSUME LogInv, UNCHANGED logVars
    PROVE  LogInv'
BY DEF LogInv, LogTypeOK, Chans, logVars, queues, loops

---------------------------------------------------------------------------
(* The workers and stoppers.                                               *)

Safe == OneLateUnit /\ WaitMeansOver /\ PanicIsMisuse

LEMMA NoPanic ==
    ASSUME crash' = "no"
    PROVE  PanicIsMisuse'
BY DEF PanicIsMisuse

LEMMA LogPanic ==
    ASSUME crash' = "nil LOG", channels' = 0
    PROVE  PanicIsMisuse'
BY DEF PanicIsMisuse

\* A step that only ends the process keeps what is said of its threads.
LEMMA PanicKeeps ==
    ASSUME ThreadInv, Safe, UNCHANGED <<stopper, closed, counter, worker, logging, late>>,
           crash' \in {"nil LOG", "closed twice", "reused"}
    PROVE  ThreadInv' /\ OneLateUnit' /\ WaitMeansOver'
BY DEF Safe, OneLateUnit, WaitMeansOver, ThreadInv, ThreadTypeOK, Busy

LEMMA WorkerLogsStep ==
    ASSUME LogInv, ThreadInv, Safe, NEW w \in Worker, NEW from, NEW to, WorkerLogs(w, from, to),
           \/ from \in Counted /\ to \in Counted
           \/ from \notin Counted /\ to \notin Counted /\ to # "add",
           to \in {"work", "send", "select", "returned"},
           to = "send" => from = "error"
    PROVE  ThreadInv' /\ Safe'
<1>1. CASE LOG
  <2>1. /\ worker' = [worker EXCEPT ![w] = to] /\ worker[w] = from /\ crash' = "no"
        /\ UNCHANGED <<closed, counter, logging, stopper, late>>
    BY <1>1 DEF WorkerLogs, WorkerTo, WorkerAt, Running
  <2>2. Cardinality(Busy') = counter
    BY <2>1, BusyAfter
  <2>3. \A v \in Worker : worker'[v] = IF v = w THEN to ELSE worker[v]
    BY <2>1 DEF ThreadInv, ThreadTypeOK
  <2>4. ThreadInv'
    <3>1. ThreadTypeOK'
      BY <2>1 DEF ThreadInv, ThreadTypeOK, Counted
    <3>2. \A v \in Worker : worker'[v] \in {"error", "send"} => logging'[v] \in Err
      BY <2>1, <2>3 DEF ThreadInv
    <3>3. QED
      BY <2>1, <2>2, <3>1, <3>2 DEF ThreadInv
  <2>5. OneLateUnit'
    BY <2>1, <2>3 DEF Safe, OneLateUnit, ThreadInv, ThreadTypeOK, Counted
  <2>6. WaitMeansOver'
    BY <2>1, <2>3 DEF Safe, WaitMeansOver
  <2>7. QED
    BY <2>1, <2>4, <2>5, <2>6, NoPanic DEF Safe
<1>2. CASE ~LOG
  <2>1. crash' = "nil LOG" /\ channels' = 0 /\ UNCHANGED <<worker, closed, counter, logging, stopper, late>>
    BY <1>2 DEF WorkerLogs, LogInv, logVars, queues
  <2>2. QED
    BY <2>1, LogPanic, PanicKeeps DEF Safe
<1>3. QED
  BY <1>1, <1>2

\* A worker that sees the open channel goes on, and is not late.
LEMMA IsStopStep ==
    ASSUME ThreadInv, Safe, NEW w \in Worker, IsStop(w)
    PROVE  ThreadInv' /\ Safe'
<1> DEFINE to == IF closed THEN "stopped" ELSE "add"
<1>1. /\ worker' = [worker EXCEPT ![w] = to] /\ worker[w] = "select" /\ crash' = "no"
      /\ UNCHANGED <<closed, counter, logging, stopper, late>>
  BY DEF IsStop, WorkerAt, WorkerTo, Running
<1>2. Cardinality(Busy') = counter
  <2>1. worker[w] \notin Counted /\ to \notin Counted
    BY <1>1 DEF Counted
  <2>2. QED
    BY <1>1, <2>1, BusyAfter
<1>3. \A v \in Worker : worker'[v] = IF v = w THEN to ELSE worker[v]
  BY <1>1 DEF ThreadInv, ThreadTypeOK
<1>4. ThreadInv'
  BY <1>1, <1>2, <1>3 DEF ThreadInv, ThreadTypeOK
<1>5. OneLateUnit' /\ WaitMeansOver'
  BY <1>1, <1>3 DEF Safe, OneLateUnit, WaitMeansOver, ThreadInv, ThreadTypeOK, Counted
<1>6. QED
  BY <1>1, <1>4, <1>5, NoPanic DEF Safe

\* If somebody's Wait is over, the channel is closed and the worker late.
LEMMA AddStep ==
    ASSUME ThreadInv, Safe, NEW w \in Worker, Add(w)
    PROVE  ThreadInv' /\ Safe'
<1>1. /\ worker' = [worker EXCEPT ![w] = "added"] /\ worker[w] = "add" /\ crash' = "no"
      /\ counter' = counter + 1 /\ late' = IF closed THEN late \cup {w} ELSE late
      /\ UNCHANGED <<closed, logging, stopper>>
  BY DEF Add, WorkerAt, WorkerTo, Running
<1>2. Cardinality(Busy') = counter'
  BY <1>1, BusyAfter DEF Counted
<1>3. \A v \in Worker : worker'[v] = IF v = w THEN "added" ELSE worker[v]
  BY <1>1 DEF ThreadInv, ThreadTypeOK
<1>4. ThreadInv'
  <2>1. counter' \in Nat /\ late' \subseteq Worker
    <3>1. counter \in Nat /\ late \subseteq Worker
      BY DEF ThreadInv, ThreadTypeOK
    <3>2. late' \subseteq late \cup {w} /\ counter' = counter + 1
      BY <1>1
    <3>3. late' \subseteq Worker
      BY <3>1, <3>2
    <3>4. QED
      BY <3>1, <3>2, <3>3
  <2>2. ThreadTypeOK'
    BY <1>1, <2>1 DEF ThreadInv, ThreadTypeOK, Counted
  <2>3. late' # {} => closed
    BY <1>1 DEF ThreadInv
  <2>4. QED
    BY <1>1, <1>2, <1>3, <2>2, <2>3 DEF ThreadInv
<1>5. ASSUME NEW s \in Stopper, stopper[s] \in {"woken", "waited", "returned"}
      PROVE  w \in late'
  BY <1>1, <1>5 DEF ThreadInv, Past
<1>6. OneLateUnit' /\ WaitMeansOver'
  BY <1>1, <1>3, <1>5 DEF Safe, OneLateUnit, WaitMeansOver
<1>7. QED
  BY <1>1, <1>4, <1>6, NoPanic DEF Safe

LEMMA WorkStep ==
    ASSUME ThreadInv, Safe, NEW w \in Worker, Work(w)
    PROVE  ThreadInv' /\ Safe'
<1>1. PICK to \in {"done", "error"} : worker' = [worker EXCEPT ![w] = to]
  BY DEF Work, WorkerTo
<1>2. worker[w] = "work" /\ crash' = "no" /\ UNCHANGED <<closed, counter, stopper, late>>
  BY DEF Work, WorkerAt, Running
<1>3. Cardinality(Busy') = counter
  BY <1>1, <1>2, BusyAfter DEF Counted
<1>4. \A v \in Worker : worker'[v] = IF v = w THEN to ELSE worker[v]
  BY <1>1 DEF ThreadInv, ThreadTypeOK
<1>5. logging' \in [Worker -> Err \cup {none}]
      /\ \A v \in Worker : worker'[v] \in {"error", "send"} => logging'[v] \in Err
  <2>1. CASE WorkerTo(w, "done") /\ UNCHANGED logging
    BY <2>1 DEF WorkerTo, ThreadInv, ThreadTypeOK
  <2>2. CASE \E e \in Err : logging' = [logging EXCEPT ![w] = e]
    BY <1>4, <2>2 DEF ThreadInv, ThreadTypeOK
  <2>3. QED
    BY <2>1, <2>2 DEF Work
<1>6. ThreadInv'
  <2>1. ThreadTypeOK'
    BY <1>1, <1>2, <1>5 DEF ThreadInv, ThreadTypeOK, Counted
  <2>2. QED
    BY <1>2, <1>3, <1>5, <2>1 DEF ThreadInv
<1>7. OneLateUnit' /\ WaitMeansOver'
  BY <1>2, <1>4 DEF Safe, OneLateUnit, WaitMeansOver, ThreadInv, ThreadTypeOK, Counted
<1>8. QED
  BY <1>2, <1>6, <1>7, NoPanic DEF Safe

LEMMA SendKeeps ==
    ASSUME LogInv, ThreadInv, Safe, NEW w \in Worker, Send(w)
    PROVE  LogInv' /\ ThreadInv' /\ Safe'
<1>1. /\ worker' = [worker EXCEPT ![w] = "done"] /\ worker[w] = "send" /\ crash' = "no"
      /\ logging' = [logging EXCEPT ![w] = none]
      /\ UNCHANGED <<closed, counter, stopper, late>>
  BY DEF Send, WorkerAt, WorkerTo, Running
<1>2. Cardinality(Busy') = counter
  BY <1>1, BusyAfter DEF Counted
<1>3. /\ \A v \in Worker : worker'[v] = IF v = w THEN "done" ELSE worker[v]
      /\ \A v \in Worker : v # w => logging'[v] = logging[v]
  BY <1>1 DEF ThreadInv, ThreadTypeOK
<1>4. LogInv'
  BY <1>1, SendStep DEF Send, ThreadInv
<1>5. ThreadInv'
  <2>1. ThreadTypeOK'
    BY <1>1 DEF ThreadInv, ThreadTypeOK, Counted
  <2>2. QED
    BY <1>1, <1>2, <1>3, <2>1 DEF ThreadInv
<1>6. OneLateUnit' /\ WaitMeansOver'
  BY <1>1, <1>3 DEF Safe, OneLateUnit, WaitMeansOver, ThreadInv, ThreadTypeOK, Counted
<1>7. QED
  BY <1>1, <1>4, <1>5, <1>6, NoPanic DEF Safe

\* The waiters only wake when no worker is busy any more.
LEMMA DoneStep ==
    ASSUME ThreadInv, Safe, NEW w \in Worker, Done(w)
    PROVE  ThreadInv' /\ Safe'
<1>1. /\ worker' = [worker EXCEPT ![w] = "finished"] /\ worker[w] = "done" /\ crash' = "no"
      /\ counter' = counter - 1
      /\ stopper' = [s \in Stopper |-> IF counter = 1 /\ s \in Waiters THEN "woken" ELSE stopper[s]]
      /\ UNCHANGED <<closed, logging, late>>
  BY DEF Done, WorkerAt, WorkerTo, Running
<1>2. Cardinality(Busy') = counter'
  <2>1. worker[w] \in Counted /\ "finished" \notin Counted
    BY <1>1 DEF Counted
  <2>2. QED
    BY <1>1, <2>1, BusyAfter
<1>3. counter \in Nat \ {0}
  <2>1. w \in Busy
    BY <1>1 DEF Busy, Counted
  <2>2. QED
    BY <2>1, BusyFinite DEF ThreadInv, ThreadTypeOK
<1>4. \A v \in Worker : worker'[v] = IF v = w THEN "finished" ELSE worker[v]
  BY <1>1 DEF ThreadInv, ThreadTypeOK
<1>5. \A s \in Stopper : \/ stopper'[s] = stopper[s]
                         \/ stopper[s] = "waiting" /\ stopper'[s] = "woken" /\ counter = 1
  BY <1>1 DEF Waiters
<1>6. ThreadInv'
  <2>1. stopper' \in [Stopper -> {none, "idle", "close", "wait", "waiting", "woken", "waited", "returned"}]
    BY <1>1 DEF ThreadInv, ThreadTypeOK
  <2>2. ThreadTypeOK'
    <3>1. counter' \in Nat
      BY <1>1, <1>3
    <3>2. QED
      BY <1>1, <2>1, <3>1 DEF ThreadInv, ThreadTypeOK
  <2>3. \A s \in Stopper : stopper'[s] \in Past <=> stopper[s] \in Past
    BY <1>5 DEF Past
  <2>4. QED
    BY <1>1, <1>2, <1>4, <2>2, <2>3 DEF ThreadInv
<1>7. ASSUME counter = 1
      PROVE  \A v \in Worker : worker'[v] \notin Counted
  <2>1. Busy' \subseteq Worker /\ Cardinality(Busy') = 0
    BY <1>1, <1>2, <1>7 DEF Busy
  <2>2. Busy' = {}
    BY <2>1, NoneOfWorkers
  <2>3. QED
    BY <2>2 DEF Busy
<1>8. OneLateUnit'
  BY <1>1, <1>4 DEF Safe, OneLateUnit, ThreadInv, ThreadTypeOK
<1>9. WaitMeansOver'
  <2> SUFFICES ASSUME NEW s \in Stopper, NEW v \in Worker,
                      stopper'[s] \in {"woken", "waited", "returned"}, worker'[v] \in Counted
               PROVE  v \in late
    BY <1>1 DEF WaitMeansOver
  <2>1. worker[v] \in Counted
    BY <1>1, <1>4 DEF Counted
  <2>2. stopper'[s] = stopper[s]
    BY <1>5, <1>7
  <2>3. QED
    BY <2>1, <2>2 DEF Safe, WaitMeansOver
<1>10. QED
  BY <1>1, <1>6, <1>8, <1>9, NoPanic DEF Safe

\* A stopper that stays on its side of Stop, and is not past Wait with this step.
LEMMA StopperMoves ==
    ASSUME ThreadInv, Safe, NEW s \in Stopper, NEW to, crash' = "no",
           stopper' = [stopper EXCEPT ![s] = to],
           UNCHANGED <<closed, counter, worker, logging, late>>,
           to \in {none, "idle", "close", "wait", "waiting", "woken", "waited", "returned"},
           stopper[s] \in Past <=> to \in Past,
           \/ to \notin {"woken", "waited", "returned"}
           \/ stopper[s] \in {"woken", "waited", "returned"}
           \/ \A w \in Worker : worker[w] \notin Counted
    PROVE  ThreadInv' /\ OneLateUnit' /\ WaitMeansOver'
<1>1. \A t \in Stopper : stopper'[t] = IF t = s THEN to ELSE stopper[t]
  BY DEF ThreadInv, ThreadTypeOK
<1>2. ThreadInv'
  <2>1. ThreadTypeOK'
    BY DEF ThreadInv, ThreadTypeOK
  <2>2. \A t \in Stopper : stopper'[t] \in Past <=> stopper[t] \in Past
    BY <1>1
  <2>3. Busy' = Busy
    BY DEF Busy
  <2>4. QED
    BY <2>1, <2>2, <2>3 DEF ThreadInv
<1>3. OneLateUnit'
  BY DEF Safe, OneLateUnit
<1>4. WaitMeansOver'
  BY <1>1 DEF Safe, WaitMeansOver
<1>5. QED
  BY <1>2, <1>3, <1>4

LEMMA StopperLogsStep ==
    ASSUME LogInv, ThreadInv, Safe, NEW s \in Stopper, NEW from, NEW to, StopperLogs(s, from, to),
           \/ from = "idle" /\ to = "close"
           \/ from = "waited" /\ to = "returned"
    PROVE  ThreadInv' /\ Safe'
<1>1. CASE LOG
  <2>1. /\ stopper' = [stopper EXCEPT ![s] = to] /\ stopper[s] = from /\ crash' = "no"
        /\ UNCHANGED <<closed, counter, worker, logging, late>>
    BY <1>1 DEF StopperLogs, StopperAt, StopperTo, Running
  <2>2. QED
    BY <2>1, StopperMoves, NoPanic DEF Past, Safe
<1>2. CASE ~LOG
  <2>1. crash' = "nil LOG" /\ channels' = 0 /\ UNCHANGED <<stopper, closed, counter, worker, logging, late>>
    BY <1>2 DEF StopperLogs, LogInv, logVars, queues
  <2>2. QED
    BY <2>1, LogPanic, PanicKeeps DEF Safe
<1>3. QED
  BY <1>1, <1>2

\* A channel that is closed already was closed by another stopper.
LEMMA StopStep ==
    ASSUME ThreadInv, Safe, NEW s \in Stopper, Stop(s)
    PROVE  ThreadInv' /\ Safe'
<1> USE DEF Stop, StopperAt, StopperTo
<1>1. CASE closed
  <2>1. PICK t \in Stopper : stopper[t] \in Past
    BY <1>1 DEF ThreadInv
  <2>2. s # t /\ stopper[s] = "close" /\ stopper[t] \notin {none, "idle"}
    BY <2>1 DEF Past, none
  <2>3. crash' = "closed twice" /\ UNCHANGED <<stopper, closed, counter, worker, logging, late>>
    BY <1>1
  <2>4. PanicIsMisuse'
    BY <2>2, <2>3 DEF PanicIsMisuse
  <2>5. QED
    BY <2>3, <2>4, PanicKeeps DEF Safe
<1>2. CASE ~closed
  <2>1. /\ stopper' = [stopper EXCEPT ![s] = "wait"] /\ closed' = TRUE /\ crash' = "no"
        /\ UNCHANGED <<counter, worker, logging, late>>
    BY <1>2 DEF Running
  <2>2. \A t \in Stopper : stopper'[t] = IF t = s THEN "wait" ELSE stopper[t]
    BY <2>1 DEF ThreadInv, ThreadTypeOK
  <2>3. ThreadInv'
    <3>1. ThreadTypeOK'
      BY <2>1 DEF ThreadInv, ThreadTypeOK
    <3>2. stopper'[s] \in Past
      BY <2>2 DEF Past
    <3>3. Busy' = Busy
      BY <2>1 DEF Busy
    <3>4. QED
      BY <2>1, <3>1, <3>2, <3>3 DEF ThreadInv
  <2>4. OneLateUnit' /\ WaitMeansOver'
    BY <2>1, <2>2 DEF Safe, OneLateUnit, WaitMeansOver
  <2>5. QED
    BY <2>1, <2>3, <2>4, NoPanic DEF Safe
<1>3. QED
  BY <1>1, <1>2

\* A Wait that finds a counter of zero finds no busy worker.
LEMMA WaitStep ==
    ASSUME ThreadInv, Safe, NEW s \in Stopper, Wait(s)
    PROVE  ThreadInv' /\ Safe'
<1> DEFINE to == IF counter = 0 THEN "waited" ELSE "waiting"
<1>1. /\ stopper' = [stopper EXCEPT ![s] = to] /\ stopper[s] = "wait" /\ crash' = "no"
      /\ UNCHANGED <<closed, counter, worker, logging, late>>
  BY DEF Wait, StopperAt, StopperTo, Running
<1>2. counter = 0 => \A w \in Worker : worker[w] \notin Counted
  BY BusyFinite DEF Busy
<1>3. QED
  BY <1>1, <1>2, StopperMoves, NoPanic DEF Past, Safe

\* A waiter that finds the group in use finds a worker that is late.
LEMMA WakeStep ==
    ASSUME ThreadInv, Safe, NEW s \in Stopper, Wake(s)
    PROVE  ThreadInv' /\ Safe'
<1> USE DEF Wake, StopperAt, StopperTo
<1>1. CASE counter = 0
  <2>1. /\ stopper' = [stopper EXCEPT ![s] = "waited"] /\ stopper[s] = "woken" /\ crash' = "no"
        /\ UNCHANGED <<closed, counter, worker, logging, late>>
    BY <1>1 DEF Running
  <2>2. QED
    BY <2>1, StopperMoves, NoPanic DEF Past, Safe
<1>2. CASE counter # 0
  <2>1. PICK w \in Worker : worker[w] \in Counted
    BY <1>2, BusyFinite DEF Busy
  <2>2. late # {}
    BY <2>1 DEF Safe, WaitMeansOver
  <2>3. crash' = "reused" /\ UNCHANGED <<stopper, closed, counter, worker, logging, late>>
    BY <1>2
  <2>4. PanicIsMisuse'
    BY <2>2, <2>3 DEF PanicIsMisuse
  <2>5. QED
    BY <2>3, <2>4, PanicKeeps DEF Safe
<1>3. QED
  BY <1>1, <1>2

---------------------------------------------------------------------------

LEMMA Step == IInv /\ [Next]_vars => IInv'
<1> SUFFICES ASSUME LogInv, ThreadInv, Safe, [Next]_vars
             PROVE  LogInv' /\ ThreadInv' /\ Safe'
  BY DEF IInv, Safe
<1>1. ASSUME NEW w \in Worker, WorkerStep(w)
      PROVE  LogInv' /\ ThreadInv' /\ Safe'
  <2>1. CASE Send(w)
    BY <2>1, SendKeeps
  <2>2. CASE IsStop(w) \/ IsStopLog(w) \/ Add(w) \/ AddLog(w) \/ Work(w) \/ Error(w) \/ Done(w) \/ DoneLog(w)
    <3>1. LogInv'
      BY <2>2, LogUnchanged DEF IsStop, IsStopLog, Add, AddLog, Work, Error, Done, DoneLog, WorkerLogs
    <3>2. CASE IsStopLog(w) \/ AddLog(w) \/ Error(w) \/ DoneLog(w)
      <4>1. CASE IsStopLog(w)
        BY <3>1, <4>1, WorkerLogsStep DEF IsStopLog, Counted
      <4>2. CASE AddLog(w)
        BY <3>1, <4>2, WorkerLogsStep DEF AddLog, Counted
      <4>3. CASE Error(w)
        BY <3>1, <4>3, WorkerLogsStep DEF Error, Counted
      <4>4. CASE DoneLog(w)
        BY <3>1, <4>4, WorkerLogsStep DEF DoneLog, Counted
      <4>5. QED
        BY <3>2, <4>1, <4>2, <4>3, <4>4
    <3>3. QED
      BY <2>2, <3>1, <3>2, IsStopStep, AddStep, WorkStep, DoneStep
  <2>3. QED
    BY <1>1, <2>1, <2>2 DEF WorkerStep
<1>2. ASSUME NEW s \in Stopper, StopLog(s) \/ StopperStep(s)
      PROVE  LogInv' /\ ThreadInv' /\ Safe'
  <2>1. LogInv'
    BY <1>2, LogUnchanged DEF StopLog, StopperStep, Stop, Wait, Wake, WaitLog, StopperLogs
  <2>2. CASE StopLog(s) \/ WaitLog(s)
    BY <2>1, <2>2, StopperLogsStep DEF StopLog, WaitLog
  <2>3. QED
    BY <1>2, <2>1, <2>2, StopStep, WaitStep, WakeStep DEF StopperStep
<1>3. CASE LogNext /\ UNCHANGED threadVars
  <2>1. LogInv' /\ (crash' = crash \/ crash' = "config") /\ (channels # channels' => LOG)
    BY <1>3, LogStep
  <2>2. crash = "no"
    BY <1>3 DEF LogNext, SetLOG, BadConfig, MakeChannel, StartLoop, Hang, Receive, Take, Posted, Running
  <2>3. ThreadInv' /\ OneLateUnit' /\ WaitMeansOver'
    BY <1>3, <2>1, <2>2 DEF threadVars, ThreadInv, ThreadTypeOK, Busy, Safe, OneLateUnit,
                            WaitMeansOver
  <2>4. PanicIsMisuse'
    BY <2>1, <2>2 DEF PanicIsMisuse
  <2>5. QED
    BY <2>1, <2>3, <2>4 DEF Safe
<1>4. CASE UNCHANGED vars
  BY <1>4, LogUnchanged DEF vars, threadVars, logVars, queues, ThreadInv, ThreadTypeOK, Busy, Safe,
                            OneLateUnit, WaitMeansOver, PanicIsMisuse
<1>5. QED
  BY <1>1, <1>2, <1>3, <1>4 DEF Next

LEMMA Start == Init => IInv
<1> SUFFICES ASSUME Init PROVE IInv
  OBVIOUS
<1>1. LogInv
  <2>1. LogInit
    BY DEF Init
  <2>2. LogTypeOK
    <3>1. channels \in 0..MaxInit /\ waitsOn \in [Chans -> 0..MaxInit]
      BY <2>1, LogAssumption DEF LogInit
    <3>2. queue \in [Chans -> Seq(Err)]
      BY <2>1 DEF LogInit
    <3>3. QED
      BY <2>1, <3>1, <3>2 DEF LogInit, LogTypeOK
  <2>3. \A i \in Chans : loop[i] = "none"
    BY <2>1 DEF LogInit, none
  <2>4. channels = 0 /\ starting = "no"
    BY <2>1 DEF LogInit
  <2>5. QED
    BY <2>2, <2>3, <2>4 DEF LogInv, none
<1>2. Busy = {}
  BY DEF Init, Busy, Counted, none
<1>3. Cardinality(Busy) = 0
  BY <1>2, FS_EmptySet
<1>4. ThreadInv /\ OneLateUnit /\ WaitMeansOver /\ PanicIsMisuse
  BY <1>3 DEF Init, ThreadInv, ThreadTypeOK, OneLateUnit, WaitMeansOver, PanicIsMisuse, Past,
              Counted, none
<1>5. QED
  BY <1>1, <1>4 DEF IInv

LEMMA Inductive == Spec => []IInv
BY Start, Step, PTL DEF Spec

---------------------------------------------------------------------------
(* The properties.                                                         *)

\* Every variable keeps its type: the counter of the wait group, which panics
\* when it would be negative, never is.
THEOREM TypeCorrect == Spec => []TypeOK
<1>1. IInv => TypeOK
  BY DEF IInv, LogInv, ThreadInv, ThreadTypeOK, TypeOK
<1>2. QED
  BY <1>1, Inductive, PTL

\* After Stop each worker starts at most the unit of work for which it had
\* found IsStop false, however many workers there are.
THEOREM LateUnits == Spec => []OneLateUnit
BY Inductive, PTL DEF IInv

\* When a Wait is over, so is every unit of work that was started before Stop.
THEOREM WaitCorrect == Spec => []WaitMeansOver
BY Inductive, PTL DEF IInv

\* A panic comes from a second Stop, from an Add after Stop that overlaps a
\* Wait, or from SeelogInit, before or in it.
THEOREM PanicsExplained == Spec => []PanicIsMisuse
BY Inductive, PTL DEF IInv
=============================================================================
