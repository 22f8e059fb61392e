--------------------------- MODULE KafkaProducer ---------------------------
(***************************************************************************)
(* The asynchronous producers of KAFKA/kafka_producer.go on top of the     *)
(* vendored sarama producer (async_producer.go).                           *)
(*                                                                         *)
(* Every channel of a sarama producer is unbuffered: a send and the        *)
(* receive it meets are one step.  What lies between sarama's dispatcher   *)
(* and its brokers is a pipeline that holds Cap messages; the brokers'     *)
(* answers are the environment's choice.  Signals is the package variable  *)
(* that every InitAsyncProducer replaces: it holds the number of the       *)
(* current channel, and signal[c] says whether channel c, of capacity 1,   *)
(* holds an "exit".  A panic ends the process: nothing happens after it.   *)
(***************************************************************************)
EXTENDS Naturals, FiniteSets

CONSTANTS Producer,  \* the producers the program opens
          Msg,       \* the messages the program tries to send
          Cap,       \* messages the pipeline holds before the dispatcher blocks
          MaxRetry   \* Producer.Retry.Max

none == "none"

ASSUME KafkaAssumption ==
    /\ IsFiniteSet(Producer) /\ none \notin Producer
    /\ IsFiniteSet(Msg)
    /\ Cap \in Nat \ {0}
    /\ MaxRetry \in Nat

VARIABLES Signals,      \* number of the channel in the package variable
          signal,       \* signal[c]: channel c holds an "exit"
          loop,         \* loop[p]: where expectResults(p) is
          waitsOn,      \* waitsOn[p]: the Signals channel its select evaluated
          at,           \* at[m]: where message m is
          owner,        \* owner[m]: the producer m was sent to, or none
          retries,      \* retries[m]
          inFlight,     \* inFlight[p]: the wait group's counter
          shuttingDown, \* shuttingDown[p]: the dispatcher saw the shutdown flag
          closed,       \* closed[p]: the channels shutdown has closed
          shutdown,     \* shutdown[p]: where the goroutine of AsyncClose is
          closer,       \* closer[p]: where CloseProducer(p) is
          exitOn,       \* exitOn[p]: the Signals channel it sends "exit" on
          crash         \* why the process panicked, or "no"

vars == <<Signals, signal, loop, waitsOn, at, owner, retries, inFlight,
          shuttingDown, closed, shutdown, closer, exitOn, crash>>
msgs == <<at, owner, retries>>
loops == <<loop, waitsOn>>
closing == <<shuttingDown, closed, shutdown, closer, exitOn>>

Chans == 1..Cardinality(Producer)
Channels == {"input", "errors", "successes"}

Init ==
    /\ Signals = 0
    /\ signal = [c \in Chans |-> FALSE]
    /\ loop = [p \in Producer |-> none]
    /\ waitsOn = [p \in Producer |-> 0]
    /\ at = [m \in Msg |-> "unsent"]
    /\ owner = [m \in Msg |-> none]
    /\ retries = [m \in Msg |-> 0]
    /\ inFlight = [p \in Producer |-> 0]
    /\ shuttingDown = [p \in Producer |-> FALSE]
    /\ closed = [p \in Producer |-> {}]
    /\ shutdown = [p \in Producer |-> none]
    /\ closer = [p \in Producer |-> none]
    /\ exitOn = [p \in Producer |-> 0]
    /\ crash = "no"

Running == crash = "no"

\* The dispatcher holds m: handing it on, or sending it to Errors().
Held == {"dispatch", "tooLarge", "rejected"}
\* The dispatcher of p is at its receive from Input().
Receiving(p) ==
    /\ "input" \notin closed[p]
    /\ \A m \in Msg : owner[m] = p => at[m] \notin Held
Pipeline(p) == {m \in Msg : owner[m] = p /\ at[m] = "pipeline"}

\* CloseProducer's two goroutines range over Errors() and Successes().
Draining(p) == closer[p] = "drain"
-----------------------------------------------------------------------------
(* The program's side: InitAsyncProducer, SendMsg and expectResults.       *)

InitAsyncProducer(p) ==
    /\ Running
    /\ loop[p] = none
    /\ Signals' = Signals + 1
    /\ loop' = [loop EXCEPT ![p] = "select"]
    /\ UNCHANGED <<signal, waitsOn, msgs, inFlight, closing, crash>>

\* expectResults evaluates the operands of its select, Signals among them.
Select(p) ==
    /\ Running
    /\ loop[p] = "select"
    /\ loop' = [loop EXCEPT ![p] = "wait"]
    /\ waitsOn' = [waitsOn EXCEPT ![p] = Signals]
    /\ UNCHANGED <<Signals, signal, msgs, inFlight, closing, crash>>

SelectSignal(p) ==
    /\ Running
    /\ loop[p] = "wait"
    /\ signal[waitsOn[p]]
    /\ signal' = [signal EXCEPT ![waitsOn[p]] = FALSE]
    /\ loop' = [loop EXCEPT ![p] = "exited"]
    /\ UNCHANGED <<Signals, waitsOn, msgs, inFlight, closing, crash>>

\* A closed Successes() yields nil, which expectResults reports, ...
SelectClosedSuccesses(p) ==
    /\ Running
    /\ loop[p] = "wait"
    /\ "successes" \in closed[p]
    /\ loop' = [loop EXCEPT ![p] = "select"]
    /\ UNCHANGED <<Signals, signal, waitsOn, msgs, inFlight, closing, crash>>

\* ... a closed Errors() yields nil, whose field Err it reads.
SelectClosedErrors(p) ==
    /\ Running
    /\ loop[p] = "wait"
    /\ "errors" \in closed[p]
    /\ crash' = "nil error"
    /\ UNCHANGED <<Signals, signal, loops, msgs, inFlight, closing>>

\* Mutant: the dispatcher goes on taking messages during the shutdown.
SendMsgNoReject(p, m) ==
    /\ Running
    /\ loop[p] # none
    /\ at[m] = "unsent"
    /\ Receiving(p)
    /\ owner' = [owner EXCEPT ![m] = p]
    /\ at' = [at EXCEPT ![m] = "dispatch"]
    /\ inFlight' = [inFlight EXCEPT ![p] = @ + 1]
    /\ UNCHANGED <<Signals, signal, loops, retries, closing, crash>>

\* SendMsg drops the message unless the dispatcher is ready to receive.
\* Dropping it changes nothing; sending on a closed channel panics.
SendMsg(p, m) ==
    /\ Running
    /\ loop[p] # none
    /\ at[m] = "unsent"
    /\ \/ /\ "input" \in closed[p]
          /\ crash' = "closed input"
          /\ UNCHANGED <<msgs, inFlight>>
       \/ /\ Receiving(p)
          /\ owner' = [owner EXCEPT ![m] = p]
          /\ IF shuttingDown[p]
             THEN /\ at' = [at EXCEPT ![m] = "rejected"]
                  /\ UNCHANGED inFlight
             ELSE /\ \E a \in {"dispatch", "tooLarge"} : at' = [at EXCEPT ![m] = a]
                  /\ inFlight' = [inFlight EXCEPT ![p] = @ + 1]
          /\ UNCHANGED <<retries, crash>>
    /\ UNCHANGED <<Signals, signal, loops, closing>>
-----------------------------------------------------------------------------
(* sarama's side.                                                          *)

\* The dispatcher hands a message to the pipeline, which must have room.
Dispatch(m) ==
    /\ Running
    /\ at[m] = "dispatch"
    /\ Cardinality(Pipeline(owner[m])) < Cap
    /\ at' = [at EXCEPT ![m] = "pipeline"]
    /\ UNCHANGED <<Signals, signal, loops, owner, retries, inFlight, closing, crash>>

\* Someone receives what was sent on a result channel of p.
Receive(p) ==
    \/ Draining(p) /\ UNCHANGED loop
    \/ loop[p] = "wait" /\ loop' = [loop EXCEPT ![p] = "select"]

\* Mutant: the error path does not count the message down.
returnErrorNoDone(m) ==
    /\ Running
    /\ at[m] \in {"pipeline", "tooLarge", "rejected"}
    /\ "errors" \notin closed[owner[m]]
    /\ at' = [at EXCEPT ![m] = "failed"]
    /\ Receive(owner[m])
    /\ UNCHANGED <<Signals, signal, waitsOn, owner, retries, inFlight, closing, crash>>

\* A message fails: in the pipeline, for its size, or during shutdown.
returnError(m) ==
    LET p == owner[m] IN
    /\ Running
    /\ at[m] \in {"pipeline", "tooLarge", "rejected"}
    /\ "errors" \notin closed[p]
    /\ at' = [at EXCEPT ![m] = "failed"]
    /\ Receive(p)
    /\ inFlight' = [inFlight EXCEPT ![p] = IF at[m] = "rejected" THEN @ ELSE @ - 1]
    /\ UNCHANGED <<Signals, signal, waitsOn, owner, retries, closing, crash>>

returnSuccess(m) ==
    LET p == owner[m] IN
    /\ Running
    /\ at[m] = "pipeline"
    /\ at' = [at EXCEPT ![m] = "sent"]
    /\ Receive(p)
    /\ inFlight' = [inFlight EXCEPT ![p] = @ - 1]
    /\ UNCHANGED <<Signals, signal, waitsOn, owner, retries, closing, crash>>

\* Mutant: a message that will be retried is counted down.
retryMessageDone(m) ==
    /\ Running
    /\ at[m] = "pipeline"
    /\ retries[m] < MaxRetry
    /\ retries' = [retries EXCEPT ![m] = @ + 1]
    /\ at' = [at EXCEPT ![m] = "retry"]
    /\ inFlight' = [inFlight EXCEPT ![owner[m]] = @ - 1]
    /\ UNCHANGED <<Signals, signal, loops, owner, closing, crash>>

\* A message goes back to the dispatcher through retryHandler's buffer.
retryMessage(m) ==
    /\ Running
    /\ at[m] = "pipeline"
    /\ retries[m] < MaxRetry
    /\ retries' = [retries EXCEPT ![m] = @ + 1]
    /\ at' = [at EXCEPT ![m] = "retry"]
    /\ UNCHANGED <<Signals, signal, loops, owner, inFlight, closing, crash>>

retryHandler(m) ==
    /\ Running
    /\ at[m] = "retry"
    /\ Receiving(owner[m])
    /\ at' = [at EXCEPT ![m] = "dispatch"]
    /\ UNCHANGED <<Signals, signal, loops, owner, retries, inFlight, closing, crash>>
-----------------------------------------------------------------------------
(* CloseProducer: AsyncClose, the signal, draining both result channels.   *)

CloseProducer(p) ==
    /\ Running
    /\ loop[p] # none
    /\ closer[p] = none
    /\ closer' = [closer EXCEPT ![p] = "signal"]
    /\ exitOn' = [exitOn EXCEPT ![p] = Signals]
    /\ shutdown' = [shutdown EXCEPT ![p] = "send"]
    /\ UNCHANGED <<Signals, signal, loops, msgs, inFlight, shuttingDown, closed, crash>>

\* Mutant: the result channels are not drained.
SendExitNoDrain(p) ==
    /\ Running
    /\ closer[p] = "signal"
    /\ ~signal[exitOn[p]]
    /\ signal' = [signal EXCEPT ![exitOn[p]] = TRUE]
    /\ closer' = [closer EXCEPT ![p] = "returned"]
    /\ UNCHANGED <<Signals, loops, msgs, inFlight, shuttingDown, closed, shutdown, exitOn, crash>>

\* Signals <- "exit" blocks while the channel is full.
SendExit(p) ==
    /\ Running
    /\ closer[p] = "signal"
    /\ ~signal[exitOn[p]]
    /\ signal' = [signal EXCEPT ![exitOn[p]] = TRUE]
    /\ closer' = [closer EXCEPT ![p] = "drain"]
    /\ UNCHANGED <<Signals, loops, msgs, inFlight, shuttingDown, closed, shutdown, exitOn, crash>>

\* Both range loops ended: wg.Wait() and CloseProducer return.
CloseReturns(p) ==
    /\ Running
    /\ closer[p] = "drain"
    /\ {"errors", "successes"} \subseteq closed[p]
    /\ closer' = [closer EXCEPT ![p] = "returned"]
    /\ UNCHANGED <<Signals, signal, loops, msgs, inFlight, shuttingDown, closed,
                   shutdown, exitOn, crash>>

\* The goroutine of AsyncClose passes the shutdown flag to the dispatcher.
SendShutdown(p) ==
    /\ Running
    /\ shutdown[p] = "send"
    /\ Receiving(p)
    /\ shuttingDown' = [shuttingDown EXCEPT ![p] = TRUE]
    /\ shutdown' = [shutdown EXCEPT ![p] = "wait"]
    /\ UNCHANGED <<Signals, signal, loops, msgs, inFlight, closed, closer, exitOn, crash>>

\* p.inFlight.Wait() returns.
WaitInFlight(p) ==
    /\ Running
    /\ shutdown[p] = "wait"
    /\ inFlight[p] = 0
    /\ shutdown' = [shutdown EXCEPT ![p] = "close"]
    /\ UNCHANGED <<Signals, signal, loops, msgs, inFlight, shuttingDown, closed,
                   closer, exitOn, crash>>

\* input, errors and successes are closed in this order; the dispatcher may
\* be sending a rejected message on errors.
CloseChannel(p) ==
    /\ Running
    /\ shutdown[p] = "close"
    /\ \E c \in Channels \ closed[p] :
         /\ c = "errors" => "input" \in closed[p]
         /\ c = "successes" => "errors" \in closed[p]
         /\ closed' = [closed EXCEPT ![p] = @ \cup {c}]
         /\ crash' = IF c = "errors" /\ \E m \in Msg : owner[m] = p /\ at[m] = "rejected"
                     THEN "closed errors" ELSE "no"
    /\ UNCHANGED <<Signals, signal, loops, msgs, inFlight, shuttingDown, shutdown, closer,
                   exitOn>>

Next ==
    \/ \E p \in Producer :
         \/ InitAsyncProducer(p) \/ CloseProducer(p)
         \/ \E m \in Msg : SendMsg(p, m)
         \/ Select(p) \/ SelectSignal(p)
         \/ SelectClosedSuccesses(p) \/ SelectClosedErrors(p)
         \/ SendExit(p) \/ CloseReturns(p)
         \/ SendShutdown(p) \/ WaitInFlight(p) \/ CloseChannel(p)
    \/ \E m \in Msg :
         \/ Dispatch(m) \/ returnError(m) \/ returnSuccess(m)
         \/ retryMessage(m) \/ retryHandler(m)

Spec == Init /\ [][Next]_vars
-----------------------------------------------------------------------------
TypeOK ==
    /\ Signals \in 0..Cardinality(Producer)
    /\ signal \in [Chans -> BOOLEAN]
    /\ loop \in [Producer -> {none, "select", "wait", "exited"}]
    /\ waitsOn \in [Producer -> 0..Cardinality(Producer)]
    /\ at \in [Msg -> Held \cup {"unsent", "pipeline", "retry", "sent", "failed"}]
    /\ owner \in [Msg -> Producer \cup {none}]
    /\ retries \in [Msg -> 0..MaxRetry]
    /\ inFlight \in [Producer -> Nat]
    /\ shuttingDown \in [Producer -> BOOLEAN]
    /\ closed \in [Producer -> SUBSET Channels]
    /\ shutdown \in [Producer -> {none, "send", "wait", "close"}]
    /\ closer \in [Producer -> {none, "signal", "drain", "returned"}]
    /\ exitOn \in [Producer -> 0..Cardinality(Producer)]
    /\ crash \in {"no", "nil error", "closed input", "closed errors"}

\* The result of every message that entered the producer before its shutdown
\* is delivered before the result channels are closed, retries included: the
\* wait group counts exactly the unfinished messages.
ResultsBeforeClose ==
    \A p \in Producer :
        closed[p] # {} =>
            \A m \in Msg : owner[m] = p => at[m] \in {"sent", "failed", "rejected"}

\* "You MUST read from this channel or the Producer will deadlock"
\* (async_producer.go:36, 42): somebody reads the results of a producer from
\* InitAsyncProducer on, until both result channels are closed, except between
\* the loop's exit and the goroutines CloseProducer is about to start.
ResultsAreRead ==
    \A p \in Producer :
        loop[p] = "exited" => closer[p] # none

-----------------------------------------------------------------------------
\* Goroutines that can run do, and brokers answer.  A select with several
\* ready cases picks each of them again and again, and a channel serves those
\* who wait at it in turn.  The program need not send or close anything.
Fairness ==
    /\ \A p \in Producer :
         /\ WF_vars(Select(p))
         /\ SF_vars(SelectSignal(p))
         /\ WF_vars((SendExit(p) \/ CloseReturns(p)))
         /\ SF_vars((SendShutdown(p) \/ WaitInFlight(p) \/ CloseChannel(p)))
    /\ \A m \in Msg :
         SF_vars((Dispatch(m) \/ returnError(m) \/ returnSuccess(m) \/ retryHandler(m)))
FairSpec == Spec /\ Fairness

\* CloseProducer returns, whatever is in flight, unless the process panics.
CloseTerminates ==
    \A p \in Producer : closer[p] = "signal" ~> closer[p] = "returned" \/ crash # "no"

\* The result of every message a producer takes is eventually read, unless the
\* process panics, or the producer's loop took the exit meant for another one
\* and nobody closes it.
ResultEventuallyRead ==
    \A m \in Msg :
        at[m] \in Held ~>
            \/ at[m] \in {"sent", "failed"}
            \/ crash # "no"
            \/ \E p \in Producer : owner[m] = p /\ loop[p] = "exited" /\ closer[p] = none
=============================================================================
