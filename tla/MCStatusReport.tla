--------------------------- MODULE MCStatusReport ---------------------------
(* StatusReport for TLC: sub-calls are interchangeable.                    *)
EXTENDS StatusReport, TLC

Symmetry == Permutations(Call)

NoHeader == [present |-> FALSE, fields |-> {}, spanId |-> <<>>, err |-> FALSE]
Header == [present |-> TRUE, fields |-> Fields, spanId |-> <<1, 2>>, err |-> FALSE]
BadHeader == [present |-> TRUE, fields |-> {"traceId", "sourceIp"}, spanId |-> <<1, 2>>, err |-> TRUE]

\* A handler that calls in parallel, one that mixes all methods, and one whose
\* request came with a damaged header.
Handler(kinds, concurrent, durations, header) ==
    [kinds |-> kinds, concurrent |-> concurrent, durations |-> durations, header |-> header]
MCConcurrent == {Handler({"req"}, TRUE, {25}, Header)}
MCSequential == {Handler(Http \cup Sql, FALSE, {5, 25}, NoHeader), Handler({"req"}, FALSE, {25}, BadHeader)}
MCHandlers == MCConcurrent \cup MCSequential
=============================================================================
