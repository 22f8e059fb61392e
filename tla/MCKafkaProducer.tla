-------------------------- MODULE MCKafkaProducer --------------------------
(* KafkaProducer for TLC: producers and messages are interchangeable.      *)
EXTENDS KafkaProducer, TLC

Symmetry == Permutations(Producer) \cup Permutations(Msg)

(* For liveness TLC keeps the whole state graph.  So either one producer   *)
(* was opened and closed before, and every message is still to be sent, or *)
(* it has just been opened, and there is one message less to send, which   *)
(* is not retried.                                                         *)
Old == CHOOSE p \in Producer : TRUE
Spare == CHOOSE m \in Msg : TRUE

ClosedBefore(p) ==
    /\ Signals = 1
    /\ loop = [q \in Producer |-> IF q = p THEN "exited" ELSE none]
    /\ waitsOn = [q \in Producer |-> IF q = p THEN 1 ELSE 0]
    /\ shuttingDown = [q \in Producer |-> q = p]
    /\ closed = [q \in Producer |-> IF q = p THEN Channels ELSE {}]
    /\ shutdown = [q \in Producer |-> IF q = p THEN "close" ELSE none]
    /\ closer = [q \in Producer |-> IF q = p THEN "returned" ELSE none]
    /\ exitOn = [q \in Producer |-> IF q = p THEN 1 ELSE 0]
    /\ at = [m \in Msg |-> "unsent"]

Opened(p) ==
    /\ Signals = 1
    /\ loop = [q \in Producer |-> IF q = p THEN "select" ELSE none]
    /\ waitsOn = [q \in Producer |-> 0]
    /\ shuttingDown = [q \in Producer |-> FALSE]
    /\ closed = [q \in Producer |-> {}]
    /\ shutdown = [q \in Producer |-> none]
    /\ closer = [q \in Producer |-> none]
    /\ exitOn = [q \in Producer |-> 0]
    /\ at = [m \in Msg |-> IF m = Spare THEN "sent" ELSE "unsent"]

LiveInit ==
    /\ ClosedBefore(Old) \/ Opened(Old)
    /\ signal = [c \in Chans |-> FALSE]
    /\ owner = [m \in Msg |-> none]
    /\ retries = [m \in Msg |-> IF at[Spare] = "sent" THEN MaxRetry ELSE 0]
    /\ inFlight = [p \in Producer |-> 0]
    /\ crash = "no"

LiveSpec == LiveInit /\ [][Next]_vars /\ Fairness
=============================================================================
