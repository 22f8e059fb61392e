--------------------------- MODULE ThreadManager ---------------------------
(***************************************************************************)
(* Stopping a program's workers (THREAD_MANAGER/thread_manager.go), with   *)
(* the log that every one of its functions writes (LogMonitor).            *)
(*                                                                         *)
(* The callers are outside the repository.  A worker repeats: IsStop, Add, *)
(* a unit of work that may log an error, Done.  A stopper calls Stop and   *)
(* then Wait.  A program has some of them.  The wait group is that of      *)
(* package sync: a waiter that wakes up panics when the counter has been   *)
(* used again meanwhile.                                                   *)
(***************************************************************************)
EXTENDS LogMonitor

CONSTANTS Worker, Stopper

ASSUME WorkerAssumption == IsFiniteSet(Worker)

VARIABLES closed,   \* getPictureThreadChan has been closed
          counter,  \* the counter of getPictureWG
          worker,   \* worker[w]: where w is
          logging,  \* logging[w]: the error w is logging, or none
          stopper,  \* stopper[s]: where s is
          late      \* history: the workers that called Add after the close

threadVars == <<closed, counter, worker, logging, stopper, late>>
vars == <<logVars, crash, threadVars>>

Counted == {"added", "work", "error", "send", "done"}
Waiters == {s \in Stopper : stopper[s] = "waiting"}

Init ==
    /\ LogInit
    /\ crash = "no"
    /\ closed = FALSE
    /\ counter = 0
    /\ worker \in [Worker -> {none, "select"}]
    /\ logging = [w \in Worker |-> none]
    /\ stopper \in [Stopper -> {none, "idle"}]
    /\ late = {}

---------------------------------------------------------------------------
(* What a worker calls.                                                    *)

WorkerAt(w, from) == Running /\ worker[w] = from
WorkerTo(w, to) == worker' = [worker EXCEPT ![w] = to]

\* A call of LOG: the nil interface panics.
WorkerLogs(w, from, to) ==
    /\ WorkerAt(w, from)
    /\ IF LOG THEN WorkerTo(w, to) /\ UNCHANGED crash
              ELSE crash' = "nil LOG" /\ UNCHANGED worker
    /\ UNCHANGED <<logVars, closed, counter, logging, stopper, late>>

\* Mutant: the closed channel is taken for an empty one.
IsStopNever(w) ==
    /\ WorkerAt(w, "select")
    /\ WorkerTo(w, "add")
    /\ UNCHANGED <<logVars, crash, closed, counter, logging, stopper, late>>

IsStop(w) ==
    /\ WorkerAt(w, "select")
    /\ WorkerTo(w, IF closed THEN "stopped" ELSE "add")
    /\ UNCHANGED <<logVars, crash, closed, counter, logging, stopper, late>>
IsStopLog(w) == WorkerLogs(w, "stopped", "returned")

\* Mutant: a unit started after Stop is not counted.
AddUnlessClosed(w) ==
    /\ WorkerAt(w, "add")
    /\ WorkerTo(w, "added")
    /\ counter' = IF closed THEN counter ELSE counter + 1
    /\ late' = IF closed THEN late \cup {w} ELSE late
    /\ UNCHANGED <<logVars, crash, closed, logging, stopper>>

Add(w) ==
    /\ WorkerAt(w, "add")
    /\ WorkerTo(w, "added")
    /\ counter' = counter + 1
    /\ late' = IF closed THEN late \cup {w} ELSE late
    /\ UNCHANGED <<logVars, crash, closed, logging, stopper>>
AddLog(w) == WorkerLogs(w, "added", "work")

\* The unit of work ends, or logs an error first.
Work(w) ==
    /\ WorkerAt(w, "work")
    /\ \/ WorkerTo(w, "done") /\ UNCHANGED logging
       \/ /\ WorkerTo(w, "error")
          /\ \E e \in Err :
               /\ at[e] = "unlogged" /\ \A v \in Worker : logging[v] # e
               /\ logging' = [logging EXCEPT ![w] = e]
    /\ UNCHANGED <<logVars, crash, closed, counter, stopper, late>>
Error(w) == WorkerLogs(w, "error", "send")
Send(w) ==
    /\ WorkerAt(w, "send")
    /\ AsyncSendToLogMonitor(logging[w])
    /\ logging' = [logging EXCEPT ![w] = none]
    /\ WorkerTo(w, "done")
    /\ UNCHANGED <<crash, closed, counter, stopper, late>>

\* Mutant: the last Done but one wakes the waiters.
DoneEarly(w) ==
    /\ WorkerAt(w, "done")
    /\ WorkerTo(w, "finished")
    /\ counter' = counter - 1
    /\ stopper' = [s \in Stopper |-> IF counter <= 2 /\ s \in Waiters THEN "woken" ELSE stopper[s]]
    /\ UNCHANGED <<logVars, crash, closed, logging, late>>

\* The last Done wakes the waiters.
Done(w) ==
    /\ WorkerAt(w, "done")
    /\ WorkerTo(w, "finished")
    /\ counter' = counter - 1
    /\ stopper' = [s \in Stopper |-> IF counter = 1 /\ s \in Waiters THEN "woken" ELSE stopper[s]]
    /\ UNCHANGED <<logVars, crash, closed, logging, late>>
DoneLog(w) == WorkerLogs(w, "finished", "select")

---------------------------------------------------------------------------
(* What a stopper calls.                                                   *)

StopperAt(s, from) == Running /\ stopper[s] = from
StopperTo(s, to) == stopper' = [stopper EXCEPT ![s] = to]

StopperLogs(s, from, to) ==
    /\ StopperAt(s, from)
    /\ IF LOG THEN StopperTo(s, to) /\ UNCHANGED crash
              ELSE crash' = "nil LOG" /\ UNCHANGED stopper
    /\ UNCHANGED <<logVars, closed, counter, worker, logging, late>>

StopLog(s) == StopperLogs(s, "idle", "close")

\* Closing a closed channel panics.
Stop(s) ==
    /\ StopperAt(s, "close")
    /\ IF closed THEN crash' = "closed twice" /\ UNCHANGED <<closed, stopper>>
                 ELSE closed' = TRUE /\ StopperTo(s, "wait") /\ UNCHANGED crash
    /\ UNCHANGED <<logVars, counter, worker, logging, late>>

\* Mutant: Wait does not look at the counter.
WaitNot(s) ==
    /\ StopperAt(s, "wait")
    /\ StopperTo(s, "waited")
    /\ UNCHANGED <<logVars, crash, closed, counter, worker, logging, late>>

Wait(s) ==
    /\ StopperAt(s, "wait")
    /\ StopperTo(s, IF counter = 0 THEN "waited" ELSE "waiting")
    /\ UNCHANGED <<logVars, crash, closed, counter, worker, logging, late>>

\* The woken waiter finds the wait group in use again, or returns.
Wake(s) ==
    /\ StopperAt(s, "woken")
    /\ IF counter # 0 THEN crash' = "reused" /\ UNCHANGED stopper
                      ELSE StopperTo(s, "waited") /\ UNCHANGED crash
    /\ UNCHANGED <<logVars, closed, counter, worker, logging, late>>
WaitLog(s) == StopperLogs(s, "waited", "returned")

WorkerStep(w) ==
    \/ IsStop(w) \/ IsStopLog(w) \/ Add(w) \/ AddLog(w) \/ Work(w) \/ Error(w) \/ Send(w)
    \/ Done(w) \/ DoneLog(w)
StopperStep(s) == Stop(s) \/ Wait(s) \/ Wake(s) \/ WaitLog(s)

Next ==
    \/ \E w \in Worker : WorkerStep(w)
    \/ \E s \in Stopper : StopLog(s) \/ StopperStep(s)
    \/ LogNext /\ UNCHANGED threadVars

Spec == Init /\ [][Next]_vars

---------------------------------------------------------------------------
(* Properties.                                                             *)

TypeOK ==
    /\ LogTypeOK
    /\ crash \in {"no", "config", "nil LOG", "closed twice", "reused"}
    /\ closed \in BOOLEAN
    /\ counter \in Nat
    /\ worker \in [Worker -> Counted \cup {none, "select", "stopped", "add", "finished", "returned"}]
    /\ logging \in [Worker -> Err \cup {none}]
    /\ stopper \in [Stopper -> {none, "idle", "close", "wait", "waiting", "woken", "waited", "returned"}]
    /\ late \subseteq Worker

\* Each worker starts at most one unit of work after Stop, the one for which
\* it had found IsStop false before.
OneLateUnit == \A w \in late : worker[w] # "add"

\* Wait returns when no unit of work is going on, but for those started after
\* Stop: what was started before is over.
WaitMeansOver ==
    \A s \in Stopper, w \in Worker :
        stopper[s] \in {"woken", "waited", "returned"} /\ worker[w] \in Counted => w \in late

\* The process panics only when Stop was called twice, when a worker called
\* Add between the last Done and the end of a Wait, when the log is used
\* before SeelogInit, or in SeelogInit.
PanicIsMisuse ==
    /\ crash = "closed twice" => \E s, t \in Stopper : s # t /\ stopper[s] = "close" /\ stopper[t] \notin {none, "idle"}
    /\ crash = "reused" => late # {}
    /\ crash = "nil LOG" => channels = 0

\* Goroutines that can run do; the monitor answers until it hangs.  Nobody
\* need call Stop or SeelogInit.
Fairness ==
    /\ \A w \in Worker : WF_vars(WorkerStep(w))
    /\ \A s \in Stopper : WF_vars(StopperStep(s))
    /\ WF_vars((MakeChannel \/ StartLoop) /\ UNCHANGED threadVars)
    /\ \A i \in Chans : WF_vars((Receive(i) \/ Take(i) \/ Posted(i)) /\ UNCHANGED threadVars)
FairSpec == Spec /\ Fairness

\* After Stop every worker ends and every Wait returns, even when the monitor
\* never answers and its queue is full: logging an error does not wait.
StopEnds ==
    closed ~> \/ crash # "no"
              \/ /\ \A w \in Worker : worker[w] \in {none, "returned"}
                 /\ \A s \in Stopper : stopper[s] \in {none, "idle", "returned"}

\* An error in the channel that ChanSendToLogMonitor holds is posted, unless
\* the monitor hangs or another SeelogInit has replaced the channel.
Waiting(e, c) == \E i \in DOMAIN queue[c] : queue[c][i] = e
QueuedIsPosted ==
    \A e \in Err :
        (channels # 0 /\ Waiting(e, channels))
            ~> \/ at[e] \in {"answered", "lost"} \/ hung \/ crash # "no"
               \/ \E c \in 1..channels - 1 : Waiting(e, c)
=============================================================================
