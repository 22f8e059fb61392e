-------------------------- MODULE MCThreadManager --------------------------
(* ThreadManager for TLC, on three programs: one starts before SeelogInit; *)
(* the others start when it has returned for the last time, and the loops  *)
(* of the calls before the last one wait for channels that were replaced.  *)
(* In one of these an earlier error is being posted.                       *)
EXTENDS ThreadManager

MCWorker == {"w1", "w2"}
MCStopper == {"s1", "s2"}
MCErr == {"e0", "e1", "e2"}

Programs ==
    { [ready |-> FALSE, posting |-> FALSE, workers |-> {"w1"}, stoppers |-> {"s1"}, errors |-> {"e1"}],
      [ready |-> TRUE, posting |-> TRUE, workers |-> MCWorker, stoppers |-> {"s1"}, errors |-> {"e1", "e2"}],
      [ready |-> TRUE, posting |-> FALSE, workers |-> MCWorker, stoppers |-> MCStopper, errors |-> {}] }

MCInit ==
    /\ \E p \in Programs :
         /\ worker = [w \in Worker |-> IF w \in p.workers THEN "select" ELSE none]
         /\ stopper = [s \in Stopper |-> IF s \in p.stoppers THEN "idle" ELSE none]
         /\ at = [e \in Err |-> CASE e \in p.errors -> "unlogged"
                                [] e = "e0" /\ p.posting -> "posting"
                                [] OTHER -> "answered"]
         /\ LOG = p.ready
         /\ channels = IF p.ready THEN MaxInit ELSE 0
         /\ loop = [i \in Chans |-> IF ~p.ready THEN none
                                    ELSE IF i = MaxInit /\ p.posting THEN "post" ELSE "wait"]
         /\ posting = [i \in Chans |-> IF p.posting /\ i = MaxInit THEN "e0" ELSE none]
         /\ waitsOn = [i \in Chans |-> IF p.ready THEN i ELSE 0]
    /\ starting = "no"
    /\ queue = [c \in Chans |-> <<>>]
    /\ hung = FALSE
    /\ crash = "no"
    /\ closed = FALSE
    /\ counter = 0
    /\ logging = [w \in Worker |-> none]
    /\ late = {}

MCSpec == MCInit /\ [][Next]_vars /\ Fairness
=============================================================================
