------------------------ MODULE JSONCheckValidText ------------------------
(***************************************************************************)
(* checkValid and nextValue, on every text that JSONCheckValid feeds,      *)
(* compared with the grammar.                                              *)
(***************************************************************************)
EXTENDS JSONCheckValid, JSONNextValue, JSONGrammar

\* checkValid accepts exactly the JSON texts: whatever bytes were fed, it
\* reports no error if and only if they are one value of the grammar.
AcceptsJSON == checkValid <=> IsJSON(input)

\* The shortest text that completes what the scanner has read.
Scalars ==
    [ stateBeginValue |-> <<"1">>, stateBeginValueOrEmpty |-> <<"]">>,
      stateBeginString |-> <<"\"", "\"">>, stateBeginStringOrEmpty |-> <<"}">>,
      stateInString |-> <<"\"">>, stateInStringEsc |-> <<"n", "\"">>,
      stateInStringEscU |-> <<"0", "0", "0", "0", "\"">>,
      stateInStringEscU1 |-> <<"0", "0", "0", "\"">>,
      stateInStringEscU12 |-> <<"0", "0", "\"">>,
      stateInStringEscU123 |-> <<"0", "\"">>,
      stateNeg |-> <<"0">>, stateDot |-> <<"0">>, stateE |-> <<"0">>, stateESign |-> <<"0">>,
      stateT |-> <<"r", "u", "e">>, stateTr |-> <<"u", "e">>, stateTru |-> <<"e">>,
      stateF |-> <<"a", "l", "s", "e">>, stateFa |-> <<"l", "s", "e">>,
      stateFal |-> <<"s", "e">>, stateFals |-> <<"e">>,
      stateN |-> <<"u", "l", "l">>, stateNu |-> <<"l", "l">>, stateNul |-> <<"l">> ]
Ending == [parseObjectKey |-> <<":", "1", "}">>, parseObjectValue |-> <<"}">>,
           parseArrayValue |-> <<"]">>]

Close(stack) ==
    LET C[n \in 0..Len(stack)] == IF n = 0 THEN <<>> ELSE Ending[stack[n]] \o C[n - 1]
    IN  C[Len(stack)]

Completion(s) ==
    LET outer == SubSeq(s.parseState, 1, Len(s.parseState) - 1)
        value == IF s.step \in DOMAIN Scalars THEN Scalars[s.step] ELSE <<>>
    IN  value \o Close(IF s.step \in {"stateBeginValueOrEmpty", "stateBeginStringOrEmpty"}
                       THEN outer ELSE s.parseState)

\* An error is reported at the first byte that no valid text could have
\* there: "error occurred after reading Offset bytes" (SyntaxError.Offset).
\* While there is none, what was read can still be completed.
ErrorIsTimely == scan.err = NoError => IsJSON(input \o Completion(scan))

\* scanEnd means that a top-level value was complete before the byte just
\* passed in.
EndMeansValue == scan.op = "scanEnd" => IsJSON(SubSeq(input, 1, Len(input) - 1))

\* nextValue cuts the data after one whole value, as long as it can be: when
\* bytes are left it ends in no space, and the next byte, unless it is a
\* space, cannot belong to it.  On a JSON text it never fails.
NextValueIsWhole ==
    LET n == nextValue(input)
        first == SubSeq(input, 1, n)
    IN  /\ n # NoError => /\ IsJSON(first)
                          /\ n < Len(input) => /\ first[n] # " "
                                               /\ input[n + 1] # " " =>
                                                    ~IsJSON(SubSeq(input, 1, n + 1))
        /\ n = NoError => ~IsJSON(input)
=============================================================================
