---------------------------- MODULE JSONScanner ----------------------------
(***************************************************************************)
(* The byte-at-a-time JSON recogniser of status/json_private/scanner.go.   *)
(*                                                                         *)
(* A scanner is a record: step names the state function of the next byte,  *)
(* parseState is the stack of open objects and arrays, err the offset of   *)
(* the first syntax error or NoError, bytes the count the caller keeps and *)
(* op the code the last call returned; redo, redoCode and redoState belong *)
(* to undo.  A byte is a one-character string that stands for its class:   *)
(* "1" for 1 to 9, " " for the four space bytes, "^" for the other control *)
(* bytes, "x" for a byte no state asks for.                                *)
(***************************************************************************)
EXTENDS Integers, Sequences

NoError == -1

Digits == {"0", "1"}
HexDigits == Digits \cup {"a", "b", "c", "e", "E", "f"}
Escapes == {"b", "f", "n", "r", "t", "\\", "/", "\""}

\* The rest of each literal: what its states wait for, and the state after.
Literal ==
    [ stateT |-> <<"r", "stateTr">>, stateTr |-> <<"u", "stateTru">>,
      stateTru |-> <<"e", "stateEndValue">>,
      stateF |-> <<"a", "stateFa">>, stateFa |-> <<"l", "stateFal">>,
      stateFal |-> <<"s", "stateFals">>, stateFals |-> <<"e", "stateEndValue">>,
      stateN |-> <<"u", "stateNu">>, stateNu |-> <<"l", "stateNul">>,
      stateNul |-> <<"l", "stateEndValue">> ]

\* The states after \u, and the state after each hexadecimal digit.
Hexadecimal ==
    [ stateInStringEscU |-> "stateInStringEscU1",
      stateInStringEscU1 |-> "stateInStringEscU12",
      stateInStringEscU12 |-> "stateInStringEscU123",
      stateInStringEscU123 |-> "stateInString" ]

\* The states that begin a scalar, by its first byte.
Scalar ==
    [ c \in {"\"", "-", "0", "1", "t", "f", "n"} |->
        CASE c = "\"" -> "stateInString" [] c = "-" -> "stateNeg"
          [] c = "0" -> "state0"         [] c = "1" -> "state1"
          [] c = "t" -> "stateT"         [] c = "f" -> "stateF"
          [] c = "n" -> "stateN" ]

reset == [step |-> "stateBeginValue", parseState |-> <<>>, endTop |-> FALSE,
          err |-> NoError, bytes |-> 0, op |-> "scanContinue",
          redo |-> FALSE, redoCode |-> "scanContinue", redoState |-> "stateBeginValue"]

Return(s, step, op) == [s EXCEPT !.step = step, !.op = op]
Continue(s, step) == Return(s, step, "scanContinue")
SkipSpace(s) == [s EXCEPT !.op = "scanSkipSpace"]
\* Mutant: an error does not stop the scanner.
errorResumes(s) == [s EXCEPT !.op = "scanError", !.err = s.bytes]

error(s) == [Return(s, "stateError", "scanError") EXCEPT !.err = s.bytes]

pushParseState(s, p) == [s EXCEPT !.parseState = Append(@, p)]
Top(s) == s.parseState[Len(s.parseState)]
SetTop(s, p) == [s EXCEPT !.parseState[Len(s.parseState)] = p]

\* Mutant: the value is over when the second bracket from the outside closes.
popParseStateEarly(s) ==
    LET n == Len(s.parseState) - 1 IN
    [s EXCEPT !.parseState = SubSeq(@, 1, n), !.redo = FALSE,
              !.step = IF n <= 1 THEN "stateEndTop" ELSE "stateEndValue",
              !.endTop = @ \/ n <= 1]

popParseState(s) ==
    LET n == Len(s.parseState) - 1 IN
    [s EXCEPT !.parseState = SubSeq(@, 1, n), !.redo = FALSE,
              !.step = IF n = 0 THEN "stateEndTop" ELSE "stateEndValue",
              !.endTop = @ \/ n = 0]

\* Only space may follow the top-level value.  Another byte is an error that
\* the next call reports.
stateEndTop(s, c) ==
    [(IF c = " " THEN s ELSE error(s)) EXCEPT !.op = "scanEnd"]

\* Mutant: a comma after an array element may be followed by the bracket.
stateEndValueTrailing(s, c) ==
    IF s.parseState = <<>>
    THEN stateEndTop([s EXCEPT !.step = "stateEndTop", !.endTop = TRUE], c)
    ELSE CASE c = " " -> Return(s, "stateEndValue", "scanSkipSpace")
           [] Top(s) = "parseObjectKey" /\ c = ":" ->
                Return(SetTop(s, "parseObjectValue"), "stateBeginValue", "scanObjectKey")
           [] Top(s) = "parseObjectValue" /\ c = "," ->
                Return(SetTop(s, "parseObjectKey"), "stateBeginString", "scanObjectValue")
           [] Top(s) = "parseObjectValue" /\ c = "}" ->
                [popParseState(s) EXCEPT !.op = "scanEndObject"]
           [] Top(s) = "parseArrayValue" /\ c = "," ->
                Return(s, "stateBeginValueOrEmpty", "scanArrayValue")
           [] Top(s) = "parseArrayValue" /\ c = "]" ->
                [popParseState(s) EXCEPT !.op = "scanEndArray"]
           [] OTHER -> error(s)

stateEndValue(s, c) ==
    IF s.parseState = <<>>
    THEN stateEndTop([s EXCEPT !.step = "stateEndTop", !.endTop = TRUE], c)
    ELSE CASE c = " " -> Return(s, "stateEndValue", "scanSkipSpace")
           [] Top(s) = "parseObjectKey" /\ c = ":" ->
                Return(SetTop(s, "parseObjectValue"), "stateBeginValue", "scanObjectKey")
           [] Top(s) = "parseObjectValue" /\ c = "," ->
                Return(SetTop(s, "parseObjectKey"), "stateBeginString", "scanObjectValue")
           [] Top(s) = "parseObjectValue" /\ c = "}" ->
                [popParseState(s) EXCEPT !.op = "scanEndObject"]
           [] Top(s) = "parseArrayValue" /\ c = "," ->
                Return(s, "stateBeginValue", "scanArrayValue")
           [] Top(s) = "parseArrayValue" /\ c = "]" ->
                [popParseState(s) EXCEPT !.op = "scanEndArray"]
           [] OTHER -> error(s)

stateBeginValue(s, c) ==
    CASE c = " " -> SkipSpace(s)
      [] c = "{" -> Return(pushParseState(s, "parseObjectKey"),
                           "stateBeginStringOrEmpty", "scanBeginObject")
      [] c = "[" -> Return(pushParseState(s, "parseArrayValue"),
                           "stateBeginValueOrEmpty", "scanBeginArray")
      [] c \in DOMAIN Scalar -> Return(s, Scalar[c], "scanBeginLiteral")
      [] OTHER -> error(s)

stateBeginValueOrEmpty(s, c) ==
    IF c = "]" THEN stateEndValue(s, c) ELSE stateBeginValue(s, c)

stateBeginString(s, c) ==
    CASE c = " " -> SkipSpace(s)
      [] c = "\"" -> Return(s, "stateInString", "scanBeginLiteral")
      [] OTHER -> error(s)

stateBeginStringOrEmpty(s, c) ==
    IF c = "}" THEN stateEndValue(SetTop(s, "parseObjectValue"), c)
               ELSE stateBeginString(s, c)

stateInString(s, c) ==
    CASE c = "\"" -> Continue(s, "stateEndValue")
      [] c = "\\" -> Continue(s, "stateInStringEsc")
      [] c = "^" -> error(s)
      [] OTHER -> Continue(s, "stateInString")

stateInStringEsc(s, c) ==
    CASE c \in Escapes -> Continue(s, "stateInString")
      [] c = "u" -> Continue(s, "stateInStringEscU")
      [] OTHER -> error(s)

\* Mutant: a leading zero may be followed by further digits.
state0Digits(s, c) ==
    CASE c \in Digits -> Continue(s, "state0")
      [] c = "." -> Continue(s, "stateDot")
      [] c \in {"e", "E"} -> Continue(s, "stateE")
      [] OTHER -> stateEndValue(s, c)

state0(s, c) ==
    CASE c = "." -> Continue(s, "stateDot")
      [] c \in {"e", "E"} -> Continue(s, "stateE")
      [] OTHER -> stateEndValue(s, c)

state1(s, c) == IF c \in Digits THEN Continue(s, "state1") ELSE state0(s, c)

stateNeg(s, c) ==
    CASE c = "0" -> Continue(s, "state0")
      [] c = "1" -> Continue(s, "state1")
      [] OTHER -> error(s)

stateDot(s, c) == IF c \in Digits THEN Continue(s, "stateDot0") ELSE error(s)

stateDot0(s, c) ==
    CASE c \in Digits -> Continue(s, "stateDot0")
      [] c \in {"e", "E"} -> Continue(s, "stateE")
      [] OTHER -> stateEndValue(s, c)

stateESign(s, c) == IF c \in Digits THEN Continue(s, "stateE0") ELSE error(s)

stateE(s, c) ==
    IF c \in {"+", "-"} THEN Continue(s, "stateESign") ELSE stateESign(s, c)

stateE0(s, c) ==
    IF c \in Digits THEN Continue(s, "stateE0") ELSE stateEndValue(s, c)

\* Takes the last call of step, which returned s.op, back: the next one will
\* return that code again.
undo(s) == [s EXCEPT !.redoCode = s.op, !.redoState = s.step,
                     !.step = "stateRedo", !.redo = TRUE]
stateRedo(s) == [Return(s, s.redoState, s.redoCode) EXCEPT !.redo = FALSE]

\* s.step(s, c)
step(s, c) ==
    CASE s.step = "stateBeginValue" -> stateBeginValue(s, c)
      [] s.step = "stateBeginValueOrEmpty" -> stateBeginValueOrEmpty(s, c)
      [] s.step = "stateBeginString" -> stateBeginString(s, c)
      [] s.step = "stateBeginStringOrEmpty" -> stateBeginStringOrEmpty(s, c)
      [] s.step = "stateEndValue" -> stateEndValue(s, c)
      [] s.step = "stateEndTop" -> stateEndTop(s, c)
      [] s.step = "stateInString" -> stateInString(s, c)
      [] s.step = "stateInStringEsc" -> stateInStringEsc(s, c)
      [] s.step \in DOMAIN Hexadecimal ->
           IF c \in HexDigits THEN Continue(s, Hexadecimal[s.step]) ELSE error(s)
      [] s.step \in DOMAIN Literal ->
           IF c = Literal[s.step][1] THEN Continue(s, Literal[s.step][2]) ELSE error(s)
      [] s.step = "stateNeg" -> stateNeg(s, c)
      [] s.step = "state1" -> state1(s, c)
      [] s.step = "state0" -> state0(s, c)
      [] s.step = "stateDot" -> stateDot(s, c)
      [] s.step = "stateDot0" -> stateDot0(s, c)
      [] s.step = "stateE" -> stateE(s, c)
      [] s.step = "stateESign" -> stateESign(s, c)
      [] s.step = "stateE0" -> stateE0(s, c)
      [] s.step = "stateRedo" -> stateRedo(s)
      [] s.step = "stateError" -> [s EXCEPT !.op = "scanError"]

\* At the end of the input a space completes a number.
ended(s) ==
    IF s.endTop THEN [s EXCEPT !.op = "scanEnd"]
    ELSE [s EXCEPT !.op = "scanError", !.err = IF @ = NoError THEN s.bytes ELSE @]
eof(s) ==
    IF s.err # NoError THEN [s EXCEPT !.op = "scanError"]
    ELSE ended(IF s.endTop THEN s ELSE step(s, " "))

\* The codes of the byte that closes an object or an array.
Brackets == {"scanEndObject", "scanEndArray"}
=============================================================================
