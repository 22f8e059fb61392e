---------------------------- MODULE LogMonitor ----------------------------
(***************************************************************************)
(* The report of logged errors to a monitor (mylog/seelog_new.go):         *)
(* SeelogInit, the queue that LOG.E sends to without waiting, and the      *)
(* goroutine that posts one error at a time.                               *)
(*                                                                         *)
(* ChanSendToLogMonitor is a package variable that each SeelogInit         *)
(* replaces: channels is the number of channels made, the variable holds   *)
(* the last one, and 0 is the nil channel.  The goroutines that log are    *)
(* those of the module that EXTENDS this one.  What they read of           *)
(* SeelogInit's assignments appears in program order.                      *)
(***************************************************************************)
EXTENDS Naturals, Sequences, FiniteSets

CONSTANTS Err,      \* the errors the program logs, each of them once
          Cap,      \* the capacity of the channel, 1024 in the code
          MaxInit   \* bound: calls of SeelogInit

ASSUME LogAssumption == Cap \in Nat \ {0} /\ MaxInit \in Nat

VARIABLES LOG,       \* LOG # nil
          starting,  \* the assignment SeelogInit made last, or "no" when it is not running
          channels,  \* channels made so far
          queue,     \* queue[c]: the errors in channel c
          loop,      \* loop[i]: where the i-th sendToLogMonitorLoop is
          waitsOn,   \* waitsOn[i]: the channel its receive evaluated
          posting,   \* posting[i]: the error it posts, or none
          at,        \* at[e]: what became of error e
          hung,      \* the monitor has stopped answering
          crash      \* why the process panicked, or "no"

queues == <<channels, queue>>
loops == <<loop, waitsOn, posting>>
logVars == <<LOG, starting, queues, loops, at, hung>>

Chans == 1..MaxInit
none == "none"

LogInit ==
    /\ LOG = FALSE
    /\ starting = "no"
    /\ channels = 0
    /\ queue = [c \in Chans |-> <<>>]
    /\ loop = [i \in Chans |-> none]
    /\ waitsOn = [i \in Chans |-> 0]
    /\ posting = [i \in Chans |-> none]
    /\ at = [e \in Err |-> "unlogged"]
    /\ hung = FALSE

Running == crash = "no"

---------------------------------------------------------------------------
(* SeelogInit, which may be called again; LOG is set before the channel.   *)

SetLOG ==
    /\ Running /\ starting = "no" /\ channels < MaxInit
    /\ LOG' = TRUE
    /\ starting' = "LOG"
    /\ UNCHANGED <<queues, loops, at, hung, crash>>

\* The configuration cannot be read.
BadConfig ==
    /\ Running /\ starting = "no" /\ channels < MaxInit
    /\ crash' = "config"
    /\ UNCHANGED logVars

MakeChannel ==
    /\ Running /\ starting = "LOG"
    /\ channels' = channels + 1
    /\ starting' = "channel"
    /\ UNCHANGED <<LOG, queue, loops, at, hung, crash>>

StartLoop ==
    /\ Running /\ starting = "channel"
    /\ loop' = [loop EXCEPT ![channels] = "receive"]
    /\ starting' = "no"
    /\ UNCHANGED <<LOG, queues, waitsOn, posting, at, hung, crash>>

---------------------------------------------------------------------------
(* AsyncSendToLogMonitor, called by LOG.E and LOG.Error.                   *)

Full == channels = 0 \/ Len(queue[channels]) = Cap

\* Mutant: the send waits for room.
SendBlocking(e) ==
    /\ ~Full
    /\ queue' = [queue EXCEPT ![channels] = Append(@, e)]
    /\ at' = [at EXCEPT ![e] = "queued"]
    /\ UNCHANGED <<LOG, starting, channels, loops, hung>>

\* A nil or a full channel takes the default branch.
AsyncSendToLogMonitor(e) ==
    /\ IF Full
       THEN at' = [at EXCEPT ![e] = "dropped"] /\ UNCHANGED queue
       ELSE /\ queue' = [queue EXCEPT ![channels] = Append(@, e)]
            /\ at' = [at EXCEPT ![e] = "queued"]
    /\ UNCHANGED <<LOG, starting, channels, loops, hung>>

---------------------------------------------------------------------------
(* sendToLogMonitorLoop.                                                   *)

\* The operand of the receive is evaluated.
Receive(i) ==
    /\ Running /\ loop[i] = "receive"
    /\ loop' = [loop EXCEPT ![i] = "wait"]
    /\ waitsOn' = [waitsOn EXCEPT ![i] = channels]
    /\ UNCHANGED <<LOG, starting, queues, posting, at, hung, crash>>

Take(i) ==
    /\ Running /\ loop[i] = "wait" /\ queue[waitsOn[i]] # <<>>
    /\ posting' = [posting EXCEPT ![i] = Head(queue[waitsOn[i]])]
    /\ at' = [at EXCEPT ![Head(queue[waitsOn[i]])] = "posting"]
    /\ queue' = [queue EXCEPT ![waitsOn[i]] = Tail(@)]
    /\ loop' = [loop EXCEPT ![i] = "post"]
    /\ UNCHANGED <<LOG, starting, channels, waitsOn, hung, crash>>

\* Mutant: a post that fails ends the loop.
PostedStops(i) ==
    /\ Running /\ loop[i] = "post" /\ ~hung
    /\ \E r \in {"answered", "lost"} :
         /\ at' = [at EXCEPT ![posting[i]] = r]
         /\ loop' = [loop EXCEPT ![i] = IF r = "lost" THEN "ended" ELSE "receive"]
    /\ posting' = [posting EXCEPT ![i] = none]
    /\ UNCHANGED <<LOG, starting, queues, waitsOn, hung, crash>>

\* logPostJson returns.  A request that failed is not repeated.
Posted(i) ==
    /\ Running /\ loop[i] = "post" /\ ~hung
    /\ \E r \in {"answered", "lost"} : at' = [at EXCEPT ![posting[i]] = r]
    /\ loop' = [loop EXCEPT ![i] = "receive"]
    /\ posting' = [posting EXCEPT ![i] = none]
    /\ UNCHANGED <<LOG, starting, queues, waitsOn, hung, crash>>

\* The request has no timeout: a monitor may never answer it.
Hang ==
    /\ Running /\ ~hung
    /\ hung' = TRUE
    /\ UNCHANGED <<LOG, starting, queues, loops, at, crash>>

LogNext ==
    \/ SetLOG \/ BadConfig \/ MakeChannel \/ StartLoop \/ Hang
    \/ \E i \in Chans : Receive(i) \/ Take(i) \/ Posted(i)

LogTypeOK ==
    /\ LOG \in BOOLEAN
    /\ starting \in {"no", "LOG", "channel"}
    /\ channels \in 0..MaxInit
    /\ queue \in [Chans -> Seq(Err)]
    /\ loop \in [Chans -> {none, "receive", "wait", "post"}]
    /\ waitsOn \in [Chans -> 0..MaxInit]
    /\ posting \in [Chans -> Err \cup {none}]
    /\ at \in [Err -> {"unlogged", "queued", "posting", "dropped", "answered", "lost"}]
    /\ hung \in BOOLEAN
=============================================================================
