----------------------- MODULE JSONCheckValidProofs -----------------------
(***************************************************************************)
(* Proofs about the scanner that JSONCheckValid feeds.  A scanner is sound *)
(* when the state function that reads the next byte fits the stack of open *)
(* objects and arrays: then no function looks at the top of an empty       *)
(* stack, and an error is never forgotten.  Each state function keeps it   *)
(* so, for every byte and every stack, whatever the texts are.  And a step *)
(* opens or closes an object or array exactly when its byte is a bracket   *)
(* outside a string, so the stack holds the brackets that are open.        *)
(*                                                                         *)
(* The second half compares the scanner with the grammar.  Rest is the     *)
(* part of the grammar that is still to come in a state, and Completes     *)
(* closes the brackets of the stack behind it.  A step of the scanner is   *)
(* the derivative of that by the byte (StepInto): what is left of a text   *)
(* completes it before the byte if and only if it does after it.  So the   *)
(* scanner is exact (Exact) about every text that begins with the bytes    *)
(* read, however long, and the properties of JSONCheckValidText follow:    *)
(* for the bytes read, for all but the last of them, and for the text that *)
(* Completion adds to them.  nextValue and Compact run a scanner of their  *)
(* own over a whole text; the last two parts are about their loops.        *)
(***************************************************************************)
EXTENDS JSONIndentText, JSONGrammarProofs, SequenceTheorems, TLAPS

ParseStates == {"parseObjectKey", "parseObjectValue", "parseArrayValue"}

Codes == {"scanContinue", "scanBeginLiteral", "scanBeginObject", "scanObjectKey",
          "scanObjectValue", "scanEndObject", "scanBeginArray", "scanArrayValue",
          "scanEndArray", "scanSkipSpace", "scanEnd", "scanError"}

\* The states in which the scanner reads a string.
StringSteps == {"stateInString", "stateInStringEsc"} \cup DOMAIN Hexadecimal

\* The states in which it reads a value that is not over.
ScalarSteps == StringSteps \cup DOMAIN Literal \cup
    {"stateNeg", "state1", "state0", "stateDot", "stateDot0", "stateE", "stateESign", "stateE0"}

\* The states before the top-level value is over.
OpenSteps == ScalarSteps \cup
    {"stateBeginValue", "stateBeginValueOrEmpty", "stateBeginString",
     "stateBeginStringOrEmpty", "stateEndValue"}

Steps == OpenSteps \cup {"stateEndTop", "stateError"}

Scanner == [step : Steps, parseState : Seq(ParseStates), endTop : BOOLEAN,
            err : {NoError} \cup Nat, bytes : Nat, op : Codes,
            redo : BOOLEAN, redoCode : Codes, redoState : Steps]

InKey(stack) == stack # <<>> /\ stack[Len(stack)] = "parseObjectKey"
InArray(stack) == stack # <<>> /\ stack[Len(stack)] = "parseArrayValue"

\* The next state function fits the stack: a key is a string.
Fits(st, stack) ==
    /\ st \in {"stateBeginString", "stateBeginStringOrEmpty"} => InKey(stack)
    /\ st = "stateBeginValueOrEmpty" => InArray(stack)
    /\ st = "stateEndTop" => stack = <<>>
    /\ InKey(stack) => st \in StringSteps \cup
         {"stateBeginString", "stateBeginStringOrEmpty", "stateEndValue", "stateError"}

\* Below the top, every object has read its key.
Nested(stack) == \A i \in 1..(Len(stack) - 1) : stack[i] # "parseObjectKey"

Sound(s) ==
    /\ s \in Scanner
    /\ Fits(s.step, s.parseState)
    /\ Nested(s.parseState)
    /\ s.endTop => s.step \in {"stateEndTop", "stateError"} /\ s.parseState = <<>>
    /\ s.step = "stateEndTop" => s.endTop
    /\ s.err # NoError <=> s.step = "stateError"
    /\ s.op = "scanError" => s.step = "stateError"

---------------------------------------------------------------------------
(* What the state functions are made of.                                   *)

\* Inside the top-level value and without an error: then the next state and
\* code are all that a state function has to get right.
Ready(s) ==
    /\ s \in Scanner
    /\ Nested(s.parseState)
    /\ ~s.endTop
    /\ s.err = NoError

\* t is a sound scanner that s may become at the byte just counted.
Result(s, t) == Sound(t) /\ t.bytes = s.bytes /\ t.err \in {s.err, s.bytes}

LEMMA OpenIsReady ==
  ASSUME NEW s, Sound(s), s.step \in OpenSteps
  PROVE  Ready(s)
<1>1. s.step \notin {"stateEndTop", "stateError"}
  BY DEF OpenSteps, ScalarSteps, StringSteps, Hexadecimal, Literal
<1> QED BY <1>1 DEF Sound, Ready, Scanner

LEMMA Returned ==
  ASSUME NEW s, Ready(s), NEW st \in OpenSteps, NEW op \in Codes \ {"scanError"},
         Fits(st, s.parseState)
  PROVE  Result(s, Return(s, st, op))
<1>1. st \in Steps /\ st \notin {"stateEndTop", "stateError"}
  BY DEF Steps, OpenSteps, ScalarSteps, StringSteps, Hexadecimal, Literal
<1>2. Return(s, st, op) \in Scanner
  BY <1>1 DEF Ready, Scanner, Return
<1>3. /\ Return(s, st, op).step = st
      /\ Return(s, st, op).op = op
      /\ Return(s, st, op).parseState = s.parseState
      /\ Return(s, st, op).endTop = s.endTop
      /\ Return(s, st, op).err = s.err
      /\ Return(s, st, op).bytes = s.bytes
  BY DEF Ready, Scanner, Return
<1> HIDE DEF Return
<1> QED BY <1>1, <1>2, <1>3 DEF Ready, Result, Sound

LEMMA Skipped ==
  ASSUME NEW s, Sound(s), s.step \in OpenSteps
  PROVE  Result(s, SkipSpace(s))
<1>1. SkipSpace(s) = Return(s, s.step, "scanSkipSpace")
  BY DEF Sound, Scanner, SkipSpace, Return
<1>2. Ready(s) /\ Fits(s.step, s.parseState)
  BY OpenIsReady DEF Sound
<1> QED BY <1>1, <1>2, Returned DEF Codes

LEMMA ErrorEffect ==
  ASSUME NEW s, s \in Scanner
  PROVE  /\ error(s) \in Scanner
         /\ error(s).step = "stateError" /\ error(s).op = "scanError"
         /\ error(s).err = s.bytes /\ error(s).err # NoError
         /\ error(s).parseState = s.parseState
         /\ error(s).endTop = s.endTop
         /\ error(s).bytes = s.bytes
<1> DEFINE r == Return(s, "stateError", "scanError")
<1>1. /\ r \in Scanner
      /\ r.step = "stateError" /\ r.op = "scanError" /\ r.parseState = s.parseState
      /\ r.endTop = s.endTop /\ r.bytes = s.bytes
  BY DEF Scanner, Return, Codes, Steps
<1>2. s.bytes \in Nat /\ s.bytes # NoError
  BY DEF Scanner, NoError
<1>3. error(s) = [r EXCEPT !.err = s.bytes]
  BY DEF error
<1> HIDE DEF r
<1> QED BY <1>1, <1>2, <1>3 DEF Scanner

LEMMA ErrorSound ==
  ASSUME NEW s, Ready(s)
  PROVE  Result(s, error(s))
<1>1. Fits("stateError", s.parseState)
  BY DEF Fits
<1> QED BY <1>1, ErrorEffect DEF Ready, Result, Sound

LEMMA Begun ==
  ASSUME NEW s, Ready(s), ~InKey(s.parseState),
         NEW p \in {"parseObjectKey", "parseArrayValue"}, NEW op \in Codes \ {"scanError"},
         NEW st, st = IF p = "parseObjectKey" THEN "stateBeginStringOrEmpty"
                      ELSE "stateBeginValueOrEmpty"
  PROVE  Result(s, Return(pushParseState(s, p), st, op))
<1> DEFINE t == pushParseState(s, p)
           stack == Append(s.parseState, p)
<1>1. s.parseState \in Seq(ParseStates) /\ p \in ParseStates
  BY DEF Ready, Scanner, ParseStates
<1>2. /\ stack \in Seq(ParseStates)
      /\ Len(stack) = Len(s.parseState) + 1
      /\ stack[Len(stack)] = p
      /\ stack # <<>>
      /\ \A i \in 1..Len(s.parseState) : stack[i] = s.parseState[i]
  BY <1>1
<1>3. Nested(stack)
  BY <1>1, <1>2 DEF Ready, Nested, InKey
<1>4. /\ t \in Scanner
      /\ t.parseState = stack /\ t.endTop = s.endTop /\ t.err = s.err /\ t.bytes = s.bytes
  BY <1>1, <1>2 DEF Ready, Scanner, pushParseState
<1>5. Ready(t)
  BY <1>3, <1>4 DEF Ready
<1>6. Fits(st, stack)
  BY <1>2 DEF Fits, InKey, InArray
<1>7. st \in OpenSteps
  BY DEF OpenSteps
<1> QED BY <1>4, <1>5, <1>6, <1>7, Returned DEF Result

LEMMA TopSet ==
  ASSUME NEW s, Ready(s), s.parseState # <<>>, NEW p \in ParseStates
  PROVE  LET t == SetTop(s, p) IN
         /\ Ready(t) /\ t.err = s.err /\ t.bytes = s.bytes
         /\ t.parseState # <<>> /\ Len(t.parseState) = Len(s.parseState)
         /\ t.parseState[Len(t.parseState)] = p
<1> DEFINE n == Len(s.parseState)
           stack == [s.parseState EXCEPT ![n] = p]
<1>1. s.parseState \in Seq(ParseStates) /\ n \in Nat /\ n > 0
  BY DEF Ready, Scanner
<1>2. /\ stack \in Seq(ParseStates) /\ Len(stack) = n /\ stack[n] = p
      /\ \A i \in 1..(n - 1) : stack[i] = s.parseState[i]
  BY <1>1
<1>3. Nested(stack)
  BY <1>1, <1>2 DEF Ready, Nested
<1>4. /\ SetTop(s, p) \in Scanner
      /\ SetTop(s, p).parseState = stack
      /\ SetTop(s, p).endTop = s.endTop
      /\ SetTop(s, p).err = s.err
      /\ SetTop(s, p).bytes = s.bytes
  BY <1>1, <1>2 DEF Ready, Scanner, SetTop
<1> QED BY <1>1, <1>2, <1>3, <1>4 DEF Ready

LEMMA PopEffect ==
  ASSUME NEW s, Ready(s), s.parseState # <<>>, NEW op \in Codes
  PROVE  LET t == [popParseState(s) EXCEPT !.op = op]
             n == Len(s.parseState) - 1
         IN  /\ t \in Scanner
             /\ n \in Nat
             /\ t.step = IF n = 0 THEN "stateEndTop" ELSE "stateEndValue"
             /\ Len(t.parseState) = n
             /\ \A i \in 1..n : t.parseState[i] = s.parseState[i]
             /\ n = 0 => t.parseState = <<>>
             /\ t.endTop <=> n = 0
             /\ t.op = op /\ t.err = s.err /\ t.bytes = s.bytes
<1> DEFINE n == Len(s.parseState) - 1
           stack == SubSeq(s.parseState, 1, n)
           t == [popParseState(s) EXCEPT !.op = op]
           st == IF n = 0 THEN "stateEndTop" ELSE "stateEndValue"
           p == popParseState(s)
<1>1. s.parseState \in Seq(ParseStates) /\ n \in Nat
  BY DEF Ready, Scanner
<1>2. /\ stack \in Seq(ParseStates) /\ Len(stack) = n
      /\ \A i \in 1..n : stack[i] = s.parseState[i]
      /\ n = 0 => stack = <<>>
  <2>1. \A i \in 1..n : s.parseState[i] \in ParseStates
    BY <1>1
  <2>2. /\ stack \in Seq(ParseStates)
        /\ Len(stack) = IF 1 <= n THEN n - 1 + 1 ELSE 0
        /\ \A i \in 1..(n - 1 + 1) : stack[i] = s.parseState[1 + i - 1]
    <3> HIDE DEF n
    <3> QED BY <1>1, <2>1, SubSeqProperties
  <2>3. n = 0 => Len(stack) = 0
    BY <2>2
  <2> HIDE DEF stack, n
  <2>4. n = 0 => stack = <<>>
    BY <2>2, <2>3, EmptySeq
  <2> QED BY <1>1, <2>2, <2>4
<1>3. st \in Steps
  BY DEF Steps, OpenSteps
<1>4. /\ p \in Scanner
      /\ p.step = st /\ p.parseState = stack
      /\ p.endTop <=> n = 0
      /\ p.err = s.err /\ p.bytes = s.bytes
  <2> DEFINE top == s.endTop \/ n = 0
  <2>1. p = [s EXCEPT !.parseState = stack, !.redo = FALSE, !.step = st, !.endTop = top]
    BY DEF popParseState, Ready, Scanner
  <2>2. top \in BOOLEAN /\ (top <=> n = 0)
    BY DEF Ready
  <2> HIDE DEF st, stack, n, p, top
  <2>3. p \in Scanner /\ p.endTop = top
    BY <1>2, <1>3, <2>1, <2>2 DEF Ready, Scanner
  <2>4. p.step = st /\ p.parseState = stack /\ p.err = s.err /\ p.bytes = s.bytes
    BY <2>1 DEF Ready, Scanner
  <2> QED BY <2>2, <2>3, <2>4
<1>5. /\ t \in Scanner
      /\ t.step = st /\ t.op = op /\ t.parseState = stack
      /\ t.endTop <=> n = 0
      /\ t.err = s.err /\ t.bytes = s.bytes
  <2> HIDE DEF st, stack, n, p
  <2>1. t = [p EXCEPT !.op = op]
    BY DEF p
  <2> HIDE DEF t
  <2> QED BY <1>4, <2>1 DEF Scanner
<1> HIDE DEF t, stack
<1>6. /\ t \in Scanner /\ n \in Nat /\ t.step = st
      /\ Len(t.parseState) = n
      /\ \A i \in 1..n : t.parseState[i] = s.parseState[i]
      /\ n = 0 => t.parseState = <<>>
      /\ t.endTop <=> n = 0
      /\ t.op = op /\ t.err = s.err /\ t.bytes = s.bytes
  BY <1>1, <1>2, <1>5
<1> QED BY <1>6 DEF t

LEMMA Popped ==
  ASSUME NEW s, Ready(s), s.parseState # <<>>, NEW op \in Codes \ {"scanError"}
  PROVE  Result(s, [popParseState(s) EXCEPT !.op = op])
<1> DEFINE n == Len(s.parseState) - 1
           t == [popParseState(s) EXCEPT !.op = op]
<1>1. /\ t \in Scanner /\ n \in Nat
      /\ t.step = IF n = 0 THEN "stateEndTop" ELSE "stateEndValue"
      /\ Len(t.parseState) = n
      /\ \A i \in 1..n : t.parseState[i] = s.parseState[i]
      /\ n = 0 => t.parseState = <<>>
      /\ t.endTop <=> n = 0
      /\ t.op = op /\ t.err = s.err /\ t.bytes = s.bytes
  BY PopEffect
<1> HIDE DEF t
<1>2. Nested(t.parseState) /\ ~InKey(t.parseState)
  <2>1. t.parseState # <<>> => n > 0
    BY <1>1, EmptySeq DEF Scanner
  <2> QED BY <1>1, <2>1 DEF Ready, Nested, InKey
<1>3. Fits(t.step, t.parseState)
  BY <1>1, <1>2 DEF Fits
<1>4. t.step # "stateError" /\ t.err = NoError /\ t.op # "scanError"
  BY <1>1 DEF Ready
<1>5. t.endTop => t.step = "stateEndTop" /\ t.parseState = <<>>
  BY <1>1
<1>6. t.step = "stateEndTop" => t.endTop
  BY <1>1
<1>7. Result(s, t)
  BY <1>1, <1>2, <1>3, <1>4, <1>5, <1>6 DEF Result, Sound
<1> QED BY <1>7 DEF t

---------------------------------------------------------------------------
(* The state functions.                                                    *)

\* Only the byte after the top-level value may still be an error.
LEMMA EndTopSound ==
  ASSUME NEW s, s \in Scanner, s.parseState = <<>>, s.endTop, s.step = "stateEndTop",
         s.err = NoError, NEW c
  PROVE  Result(s, stateEndTop(s, c))
<1>1. "scanEnd" \in Codes /\ "stateError" \in Steps
  BY DEF Codes, Steps
<1>2. ~InKey(s.parseState) /\ Nested(s.parseState)
  <2>1. Len(s.parseState) = 0
    BY EmptySeq
  <2> QED BY <2>1 DEF InKey, Nested
<1>3. CASE c = " "
  <2> DEFINE t == [s EXCEPT !.op = "scanEnd"]
  <2>1. /\ t \in Scanner /\ t.op = "scanEnd" /\ t.step = s.step /\ t.endTop = s.endTop
        /\ t.parseState = s.parseState /\ t.err = s.err /\ t.bytes = s.bytes
    BY <1>1 DEF Scanner
  <2>2. Fits("stateEndTop", s.parseState)
    BY <1>2 DEF Fits
  <2>3. stateEndTop(s, c) = t
    BY <1>3 DEF stateEndTop
  <2> HIDE DEF t
  <2> QED BY <1>2, <2>1, <2>2, <2>3 DEF Result, Sound
<1>4. CASE c # " "
  <2> DEFINE e == error(s)
             t == [e EXCEPT !.op = "scanEnd"]
  <2>1. /\ e \in Scanner /\ e.step = "stateError" /\ e.endTop = s.endTop
        /\ e.parseState = s.parseState /\ e.err = s.bytes /\ e.err # NoError /\ e.bytes = s.bytes
    BY ErrorEffect
  <2>2. stateEndTop(s, c) = t
    BY <1>4 DEF stateEndTop
  <2> HIDE DEF e
  <2>3. /\ t \in Scanner /\ t.op = "scanEnd" /\ t.step = e.step /\ t.endTop = e.endTop
        /\ t.parseState = e.parseState /\ t.err = e.err /\ t.bytes = e.bytes
    BY <1>1, <2>1 DEF Scanner
  <2>4. Fits("stateError", s.parseState)
    BY DEF Fits
  <2> HIDE DEF t
  <2> QED BY <1>2, <2>1, <2>2, <2>3, <2>4 DEF Result, Sound
<1> QED BY <1>3, <1>4

\* It looks at the top of the stack only when there is one, and it never
\* leaves a key where a value is expected or the other way around.
LEMMA EndValueSound ==
  ASSUME NEW s, Ready(s), NEW c
  PROVE  Result(s, stateEndValue(s, c))
<1> DEFINE V == stateEndValue(s, c)
<1>1. CASE s.parseState = <<>>
  <2> DEFINE t == [s EXCEPT !.step = "stateEndTop", !.endTop = TRUE]
  <2>1. /\ t \in Scanner /\ t.parseState = <<>> /\ t.endTop = TRUE /\ t.step = "stateEndTop"
        /\ t.err = s.err /\ t.bytes = s.bytes
    BY <1>1 DEF Ready, Scanner, Steps
  <2>2. V = stateEndTop(t, c)
    BY <1>1 DEF stateEndValue
  <2> HIDE DEF t, V
  <2>3. Result(t, V)
    BY <2>1, <2>2, EndTopSound DEF Ready
  <2> QED BY <2>1, <2>3 DEF Result, V
<1>2. ASSUME s.parseState # <<>> PROVE Result(s, V)
  <2>1. CASE c = " "
    <3>1. V = Return(s, "stateEndValue", "scanSkipSpace")
      BY <1>2, <2>1 DEF stateEndValue
    <3>2. Fits("stateEndValue", s.parseState) /\ "stateEndValue" \in OpenSteps
      BY DEF Fits, OpenSteps
    <3> QED BY <3>1, <3>2, Returned DEF Codes
  <2>2. CASE Top(s) = "parseObjectKey" /\ c = ":"
    <3> DEFINE t == SetTop(s, "parseObjectValue")
    <3>1. V = Return(t, "stateBeginValue", "scanObjectKey")
      BY <1>2, <2>2 DEF stateEndValue
    <3>2. /\ Ready(t) /\ t.err = s.err /\ t.bytes = s.bytes
          /\ ~InKey(t.parseState)
      BY <1>2, TopSet DEF ParseStates, InKey
    <3>3. Fits("stateBeginValue", t.parseState) /\ "stateBeginValue" \in OpenSteps
      BY <3>2 DEF Fits, OpenSteps
    <3> HIDE DEF t, V
    <3>4. Result(t, V)
      BY <3>1, <3>2, <3>3, Returned DEF Codes
    <3> QED BY <3>2, <3>4 DEF Result, V
  <2>3. CASE Top(s) = "parseObjectValue" /\ c = ","
    <3> DEFINE t == SetTop(s, "parseObjectKey")
    <3>1. V = Return(t, "stateBeginString", "scanObjectValue")
      BY <1>2, <2>3 DEF stateEndValue
    <3>2. /\ Ready(t) /\ t.err = s.err /\ t.bytes = s.bytes
          /\ InKey(t.parseState)
      BY <1>2, TopSet DEF ParseStates, InKey
    <3>3. Fits("stateBeginString", t.parseState) /\ "stateBeginString" \in OpenSteps
      BY <3>2 DEF Fits, OpenSteps
    <3> HIDE DEF t, V
    <3>4. Result(t, V)
      BY <3>1, <3>2, <3>3, Returned DEF Codes
    <3> QED BY <3>2, <3>4 DEF Result, V
  <2>4. CASE Top(s) = "parseObjectValue" /\ c = "}"
    <3>1. V = [popParseState(s) EXCEPT !.op = "scanEndObject"]
      BY <1>2, <2>4 DEF stateEndValue
    <3> QED BY <1>2, <3>1, Popped DEF Codes
  <2>5. CASE Top(s) = "parseArrayValue" /\ c = ","
    <3>1. V = Return(s, "stateBeginValue", "scanArrayValue")
      BY <1>2, <2>5 DEF stateEndValue
    <3>2. Fits("stateBeginValue", s.parseState) /\ "stateBeginValue" \in OpenSteps
      BY <2>5 DEF Fits, OpenSteps, InKey, Top
    <3> QED BY <3>1, <3>2, Returned DEF Codes
  <2>6. CASE Top(s) = "parseArrayValue" /\ c = "]"
    <3>1. V = [popParseState(s) EXCEPT !.op = "scanEndArray"]
      BY <1>2, <2>6 DEF stateEndValue
    <3> QED BY <1>2, <3>1, Popped DEF Codes
  <2>7. CASE /\ c # " "
             /\ ~(Top(s) = "parseObjectKey" /\ c = ":")
             /\ ~(Top(s) = "parseObjectValue" /\ c \in {",", "}"})
             /\ ~(Top(s) = "parseArrayValue" /\ c \in {",", "]"})
    <3>1. V = error(s)
      BY <1>2, <2>7 DEF stateEndValue
    <3> QED BY <3>1, ErrorSound
  <2> HIDE DEF V
  <2> QED BY <2>1, <2>2, <2>3, <2>4, <2>5, <2>6, <2>7
<1> QED BY <1>1, <1>2

\* No state of a number or a literal is reached inside a key.
LEMMA Continued ==
  ASSUME NEW s, Sound(s), s.step \in ScalarSteps,
         NEW st \in ScalarSteps \cup {"stateEndValue"},
         s.step \in StringSteps => st \in StringSteps \cup {"stateEndValue"}
  PROVE  Result(s, Continue(s, st))
<1>1. s.step \in OpenSteps /\ st \in OpenSteps
  BY DEF OpenSteps
<1>2. Ready(s)
  BY <1>1, OpenIsReady
<1>3. s.step \notin {"stateBeginString", "stateBeginStringOrEmpty", "stateEndValue", "stateError"}
  BY DEF ScalarSteps, StringSteps, Hexadecimal, Literal
<1>4. st \notin {"stateBeginString", "stateBeginStringOrEmpty", "stateBeginValueOrEmpty", "stateEndTop"}
  BY DEF ScalarSteps, StringSteps, Hexadecimal, Literal
<1>5. InKey(s.parseState) => s.step \in StringSteps
  BY <1>3 DEF Sound, Fits
<1>6. Fits(st, s.parseState)
  BY <1>4, <1>5 DEF Fits
<1> QED BY <1>1, <1>2, <1>6, Returned DEF Continue, Codes

LEMMA StringSound ==
  ASSUME NEW s, Sound(s), s.step \in StringSteps, NEW c
  PROVE  /\ Result(s, stateInString(s, c))
         /\ Result(s, stateInStringEsc(s, c))
         /\ s.step \in DOMAIN Hexadecimal => Result(s, Continue(s, Hexadecimal[s.step]))
         /\ Result(s, error(s))
<1>1. \A st \in StringSteps \cup {"stateEndValue"} : Result(s, Continue(s, st))
  BY Continued DEF ScalarSteps
<1>2. Result(s, error(s))
  BY OpenIsReady, ErrorSound DEF OpenSteps, ScalarSteps
<1>3. {"stateInString", "stateInStringEsc", "stateInStringEscU"} \subseteq StringSteps
  BY DEF StringSteps, Hexadecimal
<1>4. s.step \in DOMAIN Hexadecimal => Hexadecimal[s.step] \in StringSteps
  BY DEF StringSteps, Hexadecimal
<1>5. Result(s, stateInString(s, c))
  BY <1>1, <1>2, <1>3 DEF stateInString
<1>6. Result(s, stateInStringEsc(s, c))
  BY <1>1, <1>2, <1>3 DEF stateInStringEsc
<1> QED BY <1>1, <1>2, <1>4, <1>5, <1>6

LEMMA NumberSound ==
  ASSUME NEW s, Sound(s), s.step \in ScalarSteps \ StringSteps, NEW c
  PROVE  /\ Result(s, state0(s, c)) /\ Result(s, state1(s, c)) /\ Result(s, stateNeg(s, c))
         /\ Result(s, stateDot(s, c)) /\ Result(s, stateDot0(s, c))
         /\ Result(s, stateE(s, c)) /\ Result(s, stateESign(s, c)) /\ Result(s, stateE0(s, c))
<1> DEFINE Numeric == {"stateNeg", "state1", "state0", "stateDot", "stateDot0", "stateE",
                       "stateESign", "stateE0"}
<1>1. Numeric \subseteq ScalarSteps
  BY DEF ScalarSteps
<1>2. \A st \in Numeric : Result(s, Continue(s, st))
  BY <1>1, Continued
<1>3. Result(s, error(s)) /\ Result(s, stateEndValue(s, c))
  BY OpenIsReady, ErrorSound, EndValueSound DEF OpenSteps
<1>4. Result(s, state0(s, c))
  BY <1>2, <1>3 DEF state0
<1>5. Result(s, state1(s, c))
  BY <1>2, <1>4 DEF state1
<1>6. Result(s, stateNeg(s, c))
  BY <1>2, <1>3 DEF stateNeg
<1>7. Result(s, stateDot(s, c)) /\ Result(s, stateESign(s, c))
  BY <1>2, <1>3 DEF stateDot, stateESign
<1>8. Result(s, stateDot0(s, c))
  BY <1>2, <1>3 DEF stateDot0
<1>9. Result(s, stateE(s, c))
  BY <1>2, <1>7 DEF stateE
<1>10. Result(s, stateE0(s, c))
  BY <1>2, <1>3 DEF stateE0
<1> QED BY <1>4, <1>5, <1>6, <1>7, <1>8, <1>9, <1>10

LEMMA LiteralSound ==
  ASSUME NEW s, Sound(s), s.step \in DOMAIN Literal
  PROVE  Result(s, Continue(s, Literal[s.step][2])) /\ Result(s, error(s))
<1>1. s.step \in ScalarSteps \ StringSteps
  BY DEF ScalarSteps, StringSteps, Literal, Hexadecimal
<1>2. Literal[s.step][2] \in DOMAIN Literal \cup {"stateEndValue"}
  BY DEF Literal
<1>3. Literal[s.step][2] \in ScalarSteps \cup {"stateEndValue"}
  BY <1>2 DEF ScalarSteps
<1> QED BY <1>1, <1>3, Continued, OpenIsReady, ErrorSound DEF OpenSteps

LEMMA BeginValueSound ==
  ASSUME NEW s, Sound(s), s.step \in {"stateBeginValue", "stateBeginValueOrEmpty"}, NEW c
  PROVE  Result(s, stateBeginValue(s, c))
<1>1. s.step \in OpenSteps
  BY DEF OpenSteps
<1>2. Ready(s)
  BY <1>1, OpenIsReady
<1>3. ~InKey(s.parseState)
  BY DEF Sound, Fits, StringSteps, Hexadecimal
<1>4. CASE c = " "
  <2>1. stateBeginValue(s, c) = SkipSpace(s)
    BY <1>4 DEF stateBeginValue, Scalar
  <2> QED BY <1>1, <2>1, Skipped
<1>5. CASE c = "{"
  <2>1. stateBeginValue(s, c) = Return(pushParseState(s, "parseObjectKey"),
                                       "stateBeginStringOrEmpty", "scanBeginObject")
    BY <1>5 DEF stateBeginValue, Scalar
  <2> QED BY <1>2, <1>3, <2>1, Begun DEF Codes
<1>6. CASE c = "["
  <2>1. stateBeginValue(s, c) = Return(pushParseState(s, "parseArrayValue"),
                                       "stateBeginValueOrEmpty", "scanBeginArray")
    BY <1>6 DEF stateBeginValue, Scalar
  <2> QED BY <1>2, <1>3, <2>1, Begun DEF Codes
<1>7. CASE c \in DOMAIN Scalar
  <2>1. stateBeginValue(s, c) = Return(s, Scalar[c], "scanBeginLiteral")
    BY <1>7 DEF stateBeginValue, Scalar
  <2>2. Scalar[c] \in {"stateInString", "stateNeg", "state0", "state1",
                       "stateT", "stateF", "stateN"}
    BY <1>7 DEF Scalar
  <2>3. Scalar[c] \in ScalarSteps
    BY <2>2 DEF ScalarSteps, StringSteps, Literal
  <2>4. Scalar[c] \notin {"stateBeginString", "stateBeginStringOrEmpty",
                          "stateBeginValueOrEmpty", "stateEndTop"}
    BY <2>2
  <2>5. Fits(Scalar[c], s.parseState)
    BY <1>3, <2>4 DEF Fits
  <2> QED BY <1>2, <2>1, <2>3, <2>5, Returned DEF OpenSteps, Codes
<1>8. CASE c \notin {" ", "{", "["} \cup DOMAIN Scalar
  BY <1>2, <1>8, ErrorSound DEF stateBeginValue
<1> QED BY <1>4, <1>5, <1>6, <1>7, <1>8

LEMMA BeginStringSound ==
  ASSUME NEW s, Sound(s), s.step \in {"stateBeginString", "stateBeginStringOrEmpty"}, NEW c
  PROVE  Result(s, stateBeginString(s, c))
<1>1. s.step \in OpenSteps
  BY DEF OpenSteps
<1>2. Ready(s)
  BY <1>1, OpenIsReady
<1>3. "stateInString" \in OpenSteps /\ Fits("stateInString", s.parseState)
  BY DEF OpenSteps, ScalarSteps, StringSteps, Fits
<1>4. /\ Result(s, SkipSpace(s))
      /\ Result(s, Return(s, "stateInString", "scanBeginLiteral"))
      /\ Result(s, error(s))
  BY <1>1, <1>2, <1>3, Skipped, Returned, ErrorSound DEF Codes
<1> QED BY <1>4 DEF stateBeginString

\* The bracket that closes an empty object or array.
LEMMA OrEmptySound ==
  ASSUME NEW s, Sound(s), NEW c
  PROVE  /\ s.step = "stateBeginValueOrEmpty" => Result(s, stateBeginValueOrEmpty(s, c))
         /\ s.step = "stateBeginStringOrEmpty" => Result(s, stateBeginStringOrEmpty(s, c))
<1>1. ASSUME s.step = "stateBeginValueOrEmpty"
      PROVE  Result(s, stateBeginValueOrEmpty(s, c))
  <2>1. Result(s, stateEndValue(s, c))
    BY <1>1, OpenIsReady, EndValueSound DEF OpenSteps
  <2> QED BY <1>1, <2>1, BeginValueSound DEF stateBeginValueOrEmpty
<1>2. ASSUME s.step = "stateBeginStringOrEmpty"
      PROVE  Result(s, stateBeginStringOrEmpty(s, c))
  <2> DEFINE t == SetTop(s, "parseObjectValue")
  <2>1. Ready(s) /\ s.parseState # <<>>
    BY <1>2, OpenIsReady DEF OpenSteps, Sound, Fits, InKey
  <2>2. Ready(t) /\ t.err = s.err /\ t.bytes = s.bytes
    BY <2>1, TopSet DEF ParseStates
  <2> HIDE DEF t
  <2>3. Result(t, stateEndValue(t, c))
    BY <2>2, EndValueSound
  <2>4. Result(s, stateEndValue(t, c))
    BY <2>2, <2>3 DEF Result
  <2> QED BY <1>2, <2>4, BeginStringSound DEF stateBeginStringOrEmpty, t
<1> QED BY <1>1, <1>2

\* After an error every byte is one.
LEMMA StaysInError ==
  ASSUME NEW s, Sound(s), s.step = "stateError", NEW c
  PROVE  /\ Result(s, step(s, c))
         /\ step(s, c).op = "scanError" /\ step(s, c).err = s.err
<1> DEFINE t == [s EXCEPT !.op = "scanError"]
<1>1. /\ t \in Scanner /\ t.op = "scanError" /\ t.step = s.step /\ t.endTop = s.endTop
      /\ t.parseState = s.parseState /\ t.err = s.err /\ t.bytes = s.bytes
  BY DEF Sound, Scanner, Codes
<1>2. step(s, c) = t
  BY DEF step, Hexadecimal, Literal
<1> HIDE DEF t
<1>3. Sound(t)
  BY <1>1 DEF Sound
<1> QED BY <1>1, <1>2, <1>3 DEF Result

LEMMA StepSound ==
  ASSUME NEW s, Sound(s), NEW c
  PROVE  Result(s, step(s, c))
<1>1. CASE s.step \in {"stateBeginValue", "stateBeginValueOrEmpty"}
  <2>1. s.step = "stateBeginValue" => step(s, c) = stateBeginValue(s, c)
    BY DEF step, Hexadecimal, Literal
  <2>2. s.step = "stateBeginValueOrEmpty" => step(s, c) = stateBeginValueOrEmpty(s, c)
    BY DEF step, Hexadecimal, Literal
  <2> QED BY <1>1, <2>1, <2>2, BeginValueSound, OrEmptySound
<1>2. CASE s.step \in {"stateBeginString", "stateBeginStringOrEmpty"}
  <2>1. s.step = "stateBeginString" => step(s, c) = stateBeginString(s, c)
    BY DEF step, Hexadecimal, Literal
  <2>2. s.step = "stateBeginStringOrEmpty" => step(s, c) = stateBeginStringOrEmpty(s, c)
    BY DEF step, Hexadecimal, Literal
  <2> QED BY <1>2, <2>1, <2>2, BeginStringSound, OrEmptySound
<1>3. CASE s.step = "stateEndValue"
  <2>1. step(s, c) = stateEndValue(s, c)
    BY <1>3 DEF step, Hexadecimal, Literal
  <2> QED BY <1>3, <2>1, OpenIsReady, EndValueSound DEF OpenSteps
<1>4. CASE s.step = "stateEndTop"
  <2>1. step(s, c) = stateEndTop(s, c)
    BY <1>4 DEF step, Hexadecimal, Literal
  <2>2. s \in Scanner /\ s.parseState = <<>> /\ s.endTop /\ s.err = NoError
    BY <1>4 DEF Sound, Fits
  <2> QED BY <1>4, <2>1, <2>2, EndTopSound
<1>5. CASE s.step \in StringSteps
  <2>1. s.step = "stateInString" => step(s, c) = stateInString(s, c)
    BY DEF step, Hexadecimal, Literal
  <2>2. s.step = "stateInStringEsc" => step(s, c) = stateInStringEsc(s, c)
    BY DEF step, Hexadecimal, Literal
  <2>3. s.step \in DOMAIN Hexadecimal =>
          step(s, c) \in {Continue(s, Hexadecimal[s.step]), error(s)}
    BY DEF step, Hexadecimal, Literal
  <2> QED BY <1>5, <2>1, <2>2, <2>3, StringSound DEF StringSteps
<1>6. CASE s.step \in DOMAIN Literal
  <2>1. step(s, c) \in {Continue(s, Literal[s.step][2]), error(s)}
    BY <1>6 DEF step, Hexadecimal, Literal
  <2> QED BY <1>6, <2>1, LiteralSound
<1>7. CASE s.step \in {"stateNeg", "state1", "state0", "stateDot", "stateDot0", "stateE",
                       "stateESign", "stateE0"}
  <2>1. s.step \in ScalarSteps \ StringSteps
    BY <1>7 DEF ScalarSteps, StringSteps, Hexadecimal
  <2>2. step(s, c) \in {stateNeg(s, c), state1(s, c), state0(s, c), stateDot(s, c),
                        stateDot0(s, c), stateE(s, c), stateESign(s, c), stateE0(s, c)}
    BY <1>7 DEF step, Hexadecimal, Literal
  <2> QED BY <2>1, <2>2, NumberSound
<1>8. CASE s.step = "stateError"
  BY <1>8, StaysInError
<1>9. s.step \in Steps
  BY DEF Sound, Scanner
<1> QED BY <1>1, <1>2, <1>3, <1>4, <1>5, <1>6, <1>7, <1>8, <1>9
        DEF Steps, OpenSteps, ScalarSteps
---------------------------------------------------------------------------
(* What a step does to the stack, told from the byte alone.                *)

\* Where a state function is: in a string, behind its backslash, or between.
Where(st) ==
    IF st = "stateInStringEsc" THEN "escape"
    ELSE IF st \in StringSteps THEN "string" ELSE "between"

SameKind(p, q) == p = "parseArrayValue" <=> q = "parseArrayValue"

\* The same objects and arrays are open.
SameOpen(s, t) ==
    /\ Len(t.parseState) = Len(s.parseState)
    /\ \A i \in 1..Len(s.parseState) : SameKind(t.parseState[i], s.parseState[i])

OpenedBy(s, c, t) ==
    /\ Len(t.parseState) = Len(s.parseState) + 1
    /\ \A i \in 1..Len(s.parseState) : SameKind(t.parseState[i], s.parseState[i])
    /\ t.parseState[Len(t.parseState)] = "parseArrayValue" <=> c = "["

ClosedBy(s, c, t) ==
    /\ Len(s.parseState) = Len(t.parseState) + 1
    /\ \A i \in 1..Len(t.parseState) : SameKind(t.parseState[i], s.parseState[i])
    /\ s.parseState[Len(s.parseState)] = "parseArrayValue" <=> c = "]"

\* The byte c takes s to t, outside a string or in one.
Outside(s, c, t) ==
    t.err = NoError =>
        /\ Where(t.step) = IF c = "\"" THEN "string" ELSE "between"
        /\ c \notin {"{", "[", "}", "]"} => SameOpen(s, t)
        /\ c \in {"{", "["} => OpenedBy(s, c, t)
        /\ c \in {"}", "]"} => ClosedBy(s, c, t)

Inside(s, c, t) ==
    t.err = NoError =>
        /\ SameOpen(s, t)
        /\ Where(t.step) = IF Where(s.step) = "escape" THEN "string"
                           ELSE IF c = "\"" THEN "between"
                           ELSE IF c = "\\" THEN "escape" ELSE "string"

LEMMA ReturnedOpen ==
  ASSUME NEW s, s \in Scanner, NEW st, NEW op
  PROVE  /\ Return(s, st, op).step = st
         /\ Return(s, st, op).parseState = s.parseState
         /\ SameOpen(s, Return(s, st, op))
BY DEF Scanner, Return, SameOpen, SameKind

LEMMA ErrorOpen ==
  ASSUME NEW s, s \in Scanner, NEW c
  PROVE  Outside(s, c, error(s)) /\ Inside(s, c, error(s))
BY ErrorEffect DEF Outside, Inside

LEMMA PlainOutside ==
  ASSUME NEW s, s \in Scanner, NEW c, c \notin {"\"", "{", "[", "}", "]"},
         NEW st, Where(st) = "between", NEW op
  PROVE  Outside(s, c, Return(s, st, op))
BY ReturnedOpen DEF Outside

LEMMA PoppedOpen ==
  ASSUME NEW s, Ready(s), s.parseState # <<>>, NEW op \in Codes
  PROVE  LET t == [popParseState(s) EXCEPT !.op = op] IN
         /\ Where(t.step) = "between"
         /\ Len(s.parseState) = Len(t.parseState) + 1
         /\ \A i \in 1..Len(t.parseState) : SameKind(t.parseState[i], s.parseState[i])
<1> DEFINE t == [popParseState(s) EXCEPT !.op = op]
           n == Len(s.parseState) - 1
<1>1. /\ t.step \in {"stateEndTop", "stateEndValue"}
      /\ Len(t.parseState) = n
      /\ \A i \in 1..n : t.parseState[i] = s.parseState[i]
  <2>1. /\ t.step = IF n = 0 THEN "stateEndTop" ELSE "stateEndValue"
        /\ Len(t.parseState) = n
        /\ \A i \in 1..n : t.parseState[i] = s.parseState[i]
    BY PopEffect
  <2> HIDE DEF t, n
  <2> QED BY <2>1
<1>2. Where("stateEndTop") = "between" /\ Where("stateEndValue") = "between"
  BY DEF Where, StringSteps, Hexadecimal
<1>3. Len(s.parseState) \in Nat
  BY DEF Ready, Scanner
<1> HIDE DEF t
<1>4. /\ Where(t.step) = "between"
      /\ Len(s.parseState) = Len(t.parseState) + 1
      /\ \A i \in 1..Len(t.parseState) : SameKind(t.parseState[i], s.parseState[i])
  BY <1>1, <1>2, <1>3 DEF SameKind
<1> QED BY <1>4 DEF t

\* The colon and the comma of a member change what the object waits for.
LEMMA TopSetOpen ==
  ASSUME NEW s, Ready(s), s.parseState # <<>>, Top(s) # "parseArrayValue",
         NEW p \in {"parseObjectKey", "parseObjectValue"}
  PROVE  SameOpen(s, SetTop(s, p))
<1> DEFINE n == Len(s.parseState)
           stack == [s.parseState EXCEPT ![n] = p]
<1>1. s.parseState \in Seq(ParseStates) /\ n \in Nat /\ n > 0
  BY DEF Ready, Scanner
<1>2. /\ Len(stack) = n /\ stack[n] = p
      /\ \A i \in 1..(n - 1) : stack[i] = s.parseState[i]
  BY <1>1
<1>3. SetTop(s, p).parseState = stack
  BY DEF Ready, Scanner, SetTop
<1> HIDE DEF stack
<1> QED BY <1>1, <1>2, <1>3 DEF SameOpen, SameKind, Top

LEMMA EndValueOutside ==
  ASSUME NEW s, Ready(s), NEW c
  PROVE  Outside(s, c, stateEndValue(s, c))
<1> DEFINE V == stateEndValue(s, c)
<1>0. s \in Scanner /\ s.parseState \in Seq(ParseStates)
  BY DEF Ready, Scanner
<1>1. CASE s.parseState = <<>>
  <2> DEFINE e == [s EXCEPT !.step = "stateEndTop", !.endTop = TRUE]
  <2>1. e \in Scanner /\ e.parseState = <<>> /\ e.step = "stateEndTop"
    BY <1>1 DEF Ready, Scanner, Steps
  <2>2. V = [(IF c = " " THEN e ELSE error(e)) EXCEPT !.op = "scanEnd"]
    BY <1>1 DEF stateEndValue, stateEndTop
  <2> HIDE DEF e, V
  <2>3. CASE c = " "
    <3>1. V.parseState = s.parseState /\ V.step = "stateEndTop"
      BY <1>1, <2>1, <2>2, <2>3 DEF Scanner
    <3> QED BY <2>3, <3>1 DEF Outside, SameOpen, SameKind, Where, StringSteps, Hexadecimal, V
  <2>4. CASE c # " "
    <3>1. error(e) \in Scanner /\ error(e).err # NoError
      BY <2>1, ErrorEffect
    <3>2. V.err # NoError
      BY <2>2, <2>4, <3>1 DEF Scanner
    <3> QED BY <3>2 DEF Outside, V
  <2> QED BY <2>3, <2>4
<1>2. ASSUME s.parseState # <<>> PROVE Outside(s, c, V)
  <2>0. /\ Where("stateEndValue") = "between"
        /\ Where("stateBeginValue") = "between"
        /\ Where("stateBeginString") = "between"
    BY DEF Where, StringSteps, Hexadecimal
  <2>1. CASE c = " "
    <3>1. V = Return(s, "stateEndValue", "scanSkipSpace")
      BY <1>2, <2>1 DEF stateEndValue
    <3> QED BY <1>0, <2>0, <2>1, <3>1, PlainOutside
  <2>2. CASE Top(s) = "parseObjectKey" /\ c = ":"
    <3> DEFINE t == SetTop(s, "parseObjectValue")
    <3>1. V = Return(t, "stateBeginValue", "scanObjectKey")
      BY <1>2, <2>2 DEF stateEndValue
    <3>2. t \in Scanner /\ SameOpen(s, t)
      BY <1>2, <2>2, TopSet, TopSetOpen DEF ParseStates, Ready
    <3> HIDE DEF t, V
    <3>3. SameOpen(s, V) /\ V.step = "stateBeginValue"
      BY <3>1, <3>2, ReturnedOpen DEF SameOpen, SameKind
    <3> QED BY <2>0, <2>2, <3>3 DEF Outside, V
  <2>3. CASE Top(s) = "parseObjectValue" /\ c = ","
    <3> DEFINE t == SetTop(s, "parseObjectKey")
    <3>1. V = Return(t, "stateBeginString", "scanObjectValue")
      BY <1>2, <2>3 DEF stateEndValue
    <3>2. t \in Scanner /\ SameOpen(s, t)
      BY <1>2, <2>3, TopSet, TopSetOpen DEF ParseStates, Ready
    <3> HIDE DEF t, V
    <3>3. SameOpen(s, V) /\ V.step = "stateBeginString"
      BY <3>1, <3>2, ReturnedOpen DEF SameOpen, SameKind
    <3> QED BY <2>0, <2>3, <3>3 DEF Outside, V
  <2>4. CASE Top(s) = "parseObjectValue" /\ c = "}"
    <3>1. V = [popParseState(s) EXCEPT !.op = "scanEndObject"]
      BY <1>2, <2>4 DEF stateEndValue
    <3>2. ClosedBy(s, c, V) /\ Where(V.step) = "between"
      BY <1>2, <2>4, <3>1, PoppedOpen DEF Codes, ClosedBy, Top
    <3> QED BY <2>4, <3>2 DEF Outside
  <2>5. CASE Top(s) = "parseArrayValue" /\ c = ","
    <3>1. V = Return(s, "stateBeginValue", "scanArrayValue")
      BY <1>2, <2>5 DEF stateEndValue
    <3> QED BY <1>0, <2>0, <2>5, <3>1, PlainOutside
  <2>6. CASE Top(s) = "parseArrayValue" /\ c = "]"
    <3>1. V = [popParseState(s) EXCEPT !.op = "scanEndArray"]
      BY <1>2, <2>6 DEF stateEndValue
    <3>2. ClosedBy(s, c, V) /\ Where(V.step) = "between"
      BY <1>2, <2>6, <3>1, PoppedOpen DEF Codes, ClosedBy, Top
    <3> QED BY <2>6, <3>2 DEF Outside
  <2>7. CASE /\ c # " "
             /\ ~(Top(s) = "parseObjectKey" /\ c = ":")
             /\ ~(Top(s) = "parseObjectValue" /\ c \in {",", "}"})
             /\ ~(Top(s) = "parseArrayValue" /\ c \in {",", "]"})
    <3>1. V = error(s)
      BY <1>2, <2>7 DEF stateEndValue
    <3> QED BY <1>0, <3>1, ErrorOpen
  <2> HIDE DEF V
  <2> QED BY <2>1, <2>2, <2>3, <2>4, <2>5, <2>6, <2>7
<1> QED BY <1>1, <1>2

LEMMA NumberOutside ==
  ASSUME NEW s, Ready(s), NEW c
  PROVE  /\ Outside(s, c, state0(s, c)) /\ Outside(s, c, state1(s, c))
         /\ Outside(s, c, stateNeg(s, c))
         /\ Outside(s, c, stateDot(s, c)) /\ Outside(s, c, stateDot0(s, c))
         /\ Outside(s, c, stateE(s, c)) /\ Outside(s, c, stateESign(s, c))
         /\ Outside(s, c, stateE0(s, c))
<1> DEFINE Numeric == {"stateNeg", "state1", "state0", "stateDot", "stateDot0", "stateE",
                       "stateESign", "stateE0"}
<1>1. \A st \in Numeric : Where(st) = "between"
  BY DEF Where, StringSteps, Hexadecimal
<1>2. c \in Digits \cup {".", "e", "E", "+", "-"} =>
        \A st \in Numeric : Outside(s, c, Continue(s, st))
  BY <1>1, PlainOutside DEF Ready, Digits, Continue
<1>3. Outside(s, c, error(s)) /\ Outside(s, c, stateEndValue(s, c))
  BY ErrorOpen, EndValueOutside DEF Ready
<1>4. Outside(s, c, state0(s, c))
  BY <1>2, <1>3 DEF state0
<1>5. Outside(s, c, state1(s, c))
  BY <1>2, <1>4 DEF state1
<1>6. Outside(s, c, stateNeg(s, c))
  BY <1>2, <1>3 DEF stateNeg, Digits
<1>7. Outside(s, c, stateDot(s, c)) /\ Outside(s, c, stateESign(s, c))
  BY <1>2, <1>3 DEF stateDot, stateESign
<1>8. Outside(s, c, stateDot0(s, c))
  BY <1>2, <1>3 DEF stateDot0
<1>9. Outside(s, c, stateE(s, c))
  BY <1>2, <1>7 DEF stateE
<1>10. Outside(s, c, stateE0(s, c))
  BY <1>2, <1>3 DEF stateE0
<1> QED BY <1>4, <1>5, <1>6, <1>7, <1>8, <1>9, <1>10

LEMMA LiteralOutside ==
  ASSUME NEW s, Sound(s), s.step \in DOMAIN Literal
  PROVE  Outside(s, Literal[s.step][1], Continue(s, Literal[s.step][2]))
<1>1. Literal[s.step][1] \notin {"\"", "{", "[", "}", "]"}
  <2>1. Literal[s.step][1] \in {"r", "u", "e", "a", "l", "s"}
    BY DEF Literal
  <2> QED BY <2>1
<1>2. Where(Literal[s.step][2]) = "between"
  BY DEF Literal, Where, StringSteps, Hexadecimal
<1> QED BY <1>1, <1>2, PlainOutside DEF Sound, Continue

\* The opening quote of a string, and of a key.
LEMMA QuoteOutside ==
  ASSUME NEW s, s \in Scanner, NEW op
  PROVE  Outside(s, "\"", Return(s, "stateInString", op))
BY ReturnedOpen DEF Outside, Where, StringSteps

LEMMA SkippedOutside ==
  ASSUME NEW s, s \in Scanner, Where(s.step) = "between"
  PROVE  Outside(s, " ", SkipSpace(s))
<1>1. SkipSpace(s) = Return(s, s.step, "scanSkipSpace")
  BY DEF Scanner, SkipSpace, Return
<1> QED BY <1>1, PlainOutside

LEMMA PushedOpen ==
  ASSUME NEW s, s \in Scanner, NEW p \in ParseStates, NEW st, NEW op
  PROVE  LET t == Return(pushParseState(s, p), st, op) IN
         /\ t.step = st
         /\ Len(t.parseState) = Len(s.parseState) + 1
         /\ \A i \in 1..Len(s.parseState) : SameKind(t.parseState[i], s.parseState[i])
         /\ t.parseState[Len(t.parseState)] = p
<1> DEFINE e == pushParseState(s, p)
           stack == Append(s.parseState, p)
           t == Return(e, st, op)
<1>1. s.parseState \in Seq(ParseStates)
  BY DEF Scanner
<1>2. /\ stack \in Seq(ParseStates)
      /\ Len(stack) = Len(s.parseState) + 1
      /\ \A i \in 1..Len(s.parseState) : stack[i] = s.parseState[i]
      /\ stack[Len(stack)] = p
  BY <1>1, AppendProperties
<1>3. e \in Scanner /\ e.parseState = stack
  BY <1>2 DEF Scanner, pushParseState
<1>4. t.parseState = stack /\ t.step = st
  BY <1>3, ReturnedOpen
<1> HIDE DEF t, stack
<1>5. /\ t.step = st
      /\ Len(t.parseState) = Len(s.parseState) + 1
      /\ \A i \in 1..Len(s.parseState) : SameKind(t.parseState[i], s.parseState[i])
      /\ t.parseState[Len(t.parseState)] = p
  BY <1>2, <1>4 DEF SameKind
<1> QED BY <1>5 DEF t

LEMMA BegunOutside ==
  ASSUME NEW s, s \in Scanner, NEW p \in {"parseObjectKey", "parseArrayValue"},
         NEW st, Where(st) = "between", NEW op
  PROVE  \A c : c = (IF p = "parseArrayValue" THEN "[" ELSE "{") =>
                   Outside(s, c, Return(pushParseState(s, p), st, op))
<1> DEFINE t == Return(pushParseState(s, p), st, op)
<1>1. p \in ParseStates
  BY DEF ParseStates
<1>2. /\ t.step = st
      /\ Len(t.parseState) = Len(s.parseState) + 1
      /\ \A i \in 1..Len(s.parseState) : SameKind(t.parseState[i], s.parseState[i])
      /\ t.parseState[Len(t.parseState)] = p
  BY <1>1, PushedOpen
<1> HIDE DEF t
<1>3. ASSUME NEW c, c = IF p = "parseArrayValue" THEN "[" ELSE "{"
      PROVE  Outside(s, c, t)
  <2>1. c \in {"{", "["} /\ (p = "parseArrayValue" <=> c = "[")
    BY <1>3
  <2>2. OpenedBy(s, c, t)
    BY <1>2, <2>1 DEF OpenedBy
  <2>3. c \notin {"\"", "}", "]"}
    BY <2>1
  <2> QED BY <1>2, <2>1, <2>2, <2>3 DEF Outside
<1> QED BY <1>3 DEF t

LEMMA BeginValueOutside ==
  ASSUME NEW s, Ready(s), Where(s.step) = "between", NEW c
  PROVE  Outside(s, c, stateBeginValue(s, c))
<1>1. s \in Scanner
  BY DEF Ready
<1>2. \A st \in {"stateBeginStringOrEmpty", "stateBeginValueOrEmpty", "stateNeg", "state0",
                 "state1", "stateT", "stateF", "stateN"} : Where(st) = "between"
  BY DEF Where, StringSteps, Hexadecimal
<1>3. CASE c = " "
  <2>1. stateBeginValue(s, c) = SkipSpace(s)
    BY <1>3 DEF stateBeginValue, Scalar
  <2> QED BY <1>1, <1>3, <2>1, SkippedOutside
<1>4. CASE c = "{"
  <2>1. stateBeginValue(s, c) = Return(pushParseState(s, "parseObjectKey"),
                                       "stateBeginStringOrEmpty", "scanBeginObject")
    BY <1>4 DEF stateBeginValue, Scalar
  <2> QED BY <1>1, <1>2, <1>4, <2>1, BegunOutside
<1>5. CASE c = "["
  <2>1. stateBeginValue(s, c) = Return(pushParseState(s, "parseArrayValue"),
                                       "stateBeginValueOrEmpty", "scanBeginArray")
    BY <1>5 DEF stateBeginValue, Scalar
  <2> QED BY <1>1, <1>2, <1>5, <2>1, BegunOutside
<1>6. CASE c \in DOMAIN Scalar
  <2>1. stateBeginValue(s, c) = Return(s, Scalar[c], "scanBeginLiteral")
    BY <1>6 DEF stateBeginValue, Scalar
  <2>2. CASE c = "\""
    <3>1. Scalar[c] = "stateInString"
      BY <2>2 DEF Scalar
    <3> QED BY <1>1, <2>1, <2>2, <3>1, QuoteOutside
  <2>3. CASE c # "\""
    <3>1. Scalar[c] \in {"stateNeg", "state0", "state1", "stateT", "stateF", "stateN"}
      BY <1>6, <2>3 DEF Scalar
    <3>2. c \notin {"\"", "{", "[", "}", "]"}
      BY <1>6, <2>3 DEF Scalar
    <3> QED BY <1>1, <1>2, <2>1, <3>1, <3>2, PlainOutside
  <2> QED BY <2>2, <2>3
<1>7. CASE c \notin {" ", "{", "["} \cup DOMAIN Scalar
  BY <1>1, <1>7, ErrorOpen DEF stateBeginValue
<1> QED BY <1>3, <1>4, <1>5, <1>6, <1>7

LEMMA BeginStringOutside ==
  ASSUME NEW s, s \in Scanner, Where(s.step) = "between", NEW c
  PROVE  Outside(s, c, stateBeginString(s, c))
<1>1. CASE c = " "
  BY <1>1, SkippedOutside DEF stateBeginString
<1>2. CASE c = "\""
  BY <1>2, QuoteOutside DEF stateBeginString
<1>3. CASE c \notin {" ", "\""}
  BY <1>3, ErrorOpen DEF stateBeginString
<1> QED BY <1>1, <1>2, <1>3

LEMMA ClosedBySame ==
  ASSUME NEW s, NEW e, NEW t, NEW c, Len(s.parseState) \in Nat \ {0}, Len(t.parseState) \in Nat,
         SameOpen(s, e), ClosedBy(e, c, t)
  PROVE  ClosedBy(s, c, t)
BY DEF ClosedBy, SameOpen, SameKind

LEMMA OrEmptyOutside ==
  ASSUME NEW s, Ready(s), Where(s.step) = "between", NEW c
  PROVE  /\ Outside(s, c, stateBeginValueOrEmpty(s, c))
         /\ InKey(s.parseState) => Outside(s, c, stateBeginStringOrEmpty(s, c))
<1>1. Outside(s, c, stateBeginValueOrEmpty(s, c))
  BY BeginValueOutside, EndValueOutside DEF stateBeginValueOrEmpty
<1>2. ASSUME InKey(s.parseState), c = "}"
      PROVE  Outside(s, c, stateBeginStringOrEmpty(s, c))
  <2> DEFINE e == SetTop(s, "parseObjectValue")
             t == stateEndValue(e, c)
  <2>1. s.parseState # <<>> /\ Top(s) = "parseObjectKey"
    BY <1>2 DEF InKey, Top
  <2>2. Ready(e) /\ SameOpen(s, e)
    BY <2>1, TopSet, TopSetOpen DEF ParseStates
  <2> HIDE DEF e
  <2>3. Outside(e, c, t)
    BY <2>2, EndValueOutside
  <2>4. Len(s.parseState) \in Nat \ {0} /\ Len(t.parseState) \in Nat
    <3>1. s.parseState \in Seq(ParseStates) /\ t.parseState \in Seq(ParseStates)
      BY <2>2, EndValueSound DEF Ready, Scanner, Result, Sound
    <3> QED BY <2>1, <3>1, EmptySeq, LenProperties
  <2> HIDE DEF t
  <2>5. ASSUME t.err = NoError PROVE ClosedBy(s, c, t) /\ Where(t.step) = "between"
    <3>1. ClosedBy(e, c, t) /\ Where(t.step) = "between"
      BY <1>2, <2>3, <2>5 DEF Outside
    <3> QED BY <2>2, <2>4, <3>1, ClosedBySame
  <2>6. Outside(s, c, t)
    BY <1>2, <2>5 DEF Outside
  <2> QED BY <1>2, <2>6 DEF stateBeginStringOrEmpty, t, e
<1>3. ASSUME c # "}" PROVE Outside(s, c, stateBeginStringOrEmpty(s, c))
  BY <1>3, BeginStringOutside DEF Ready, stateBeginStringOrEmpty
<1> QED BY <1>1, <1>2, <1>3

LEMMA StringInside ==
  ASSUME NEW s, Sound(s), s.step \in StringSteps, NEW c
  PROVE  Inside(s, c, step(s, c))
<1>0. s \in Scanner
  BY DEF Sound
<1>1. \A st \in DOMAIN Hexadecimal \cup {"stateInString"} : Where(st) = "string"
  BY DEF Where, StringSteps, Hexadecimal
<1>2. Where("stateInStringEsc") = "escape" /\ Where("stateEndValue") = "between"
  BY DEF Where, StringSteps, Hexadecimal
<1>3. \A st : SameOpen(s, Continue(s, st)) /\ Continue(s, st).step = st
  BY <1>0, ReturnedOpen DEF Continue
<1>4. Inside(s, c, error(s))
  BY <1>0, ErrorOpen
<1>5. CASE s.step = "stateInString"
  <2>1. step(s, c) = stateInString(s, c)
    BY <1>5 DEF step, Hexadecimal, Literal
  <2>2. Where(s.step) = "string"
    BY <1>1, <1>5
  <2>3. CASE c = "\""
    BY <1>2, <1>3, <2>1, <2>2, <2>3 DEF stateInString, Inside
  <2>4. CASE c = "\\"
    BY <1>2, <1>3, <2>1, <2>2, <2>4 DEF stateInString, Inside
  <2>5. CASE c = "^"
    BY <1>4, <2>1, <2>5 DEF stateInString
  <2>6. CASE c \notin {"\"", "\\", "^"}
    BY <1>1, <1>3, <2>1, <2>2, <2>6 DEF stateInString, Inside
  <2> QED BY <2>3, <2>4, <2>5, <2>6
<1>6. CASE s.step = "stateInStringEsc"
  <2>1. step(s, c) = stateInStringEsc(s, c)
    BY <1>6 DEF step, Hexadecimal, Literal
  <2>2. Where(s.step) = "escape"
    BY <1>2, <1>6
  <2>3. "stateInStringEscU" \in DOMAIN Hexadecimal
    BY DEF Hexadecimal
  <2>4. step(s, c) \in {Continue(s, "stateInString"), Continue(s, "stateInStringEscU"), error(s)}
    BY <2>1 DEF stateInStringEsc
  <2> QED BY <1>1, <1>3, <1>4, <2>2, <2>3, <2>4 DEF Inside
<1>7. CASE s.step \in DOMAIN Hexadecimal
  <2>1. step(s, c) = IF c \in HexDigits THEN Continue(s, Hexadecimal[s.step]) ELSE error(s)
    BY <1>7 DEF step, Hexadecimal, Literal
  <2>2. Hexadecimal[s.step] \in DOMAIN Hexadecimal \cup {"stateInString"}
    BY <1>7 DEF Hexadecimal
  <2>3. c \in HexDigits => c \notin {"\"", "\\"}
    BY DEF HexDigits, Digits
  <2>4. Where(s.step) = "string" /\ Where(Hexadecimal[s.step]) = "string"
    BY <1>1, <1>7, <2>2
  <2> QED BY <1>3, <1>4, <2>1, <2>3, <2>4 DEF Inside
<1> QED BY <1>5, <1>6, <1>7 DEF StringSteps

LEMMA StepOutside ==
  ASSUME NEW s, Sound(s), s.step \notin StringSteps, NEW c
  PROVE  Outside(s, c, step(s, c))
<1>0. s \in Scanner /\ s.step \in Steps
  BY DEF Sound, Scanner
<1>1. Where(s.step) = "between"
  BY DEF Where, StringSteps
<1>2. CASE s.step \in {"stateBeginValue", "stateBeginValueOrEmpty"}
  <2>1. s.step = "stateBeginValue" => step(s, c) = stateBeginValue(s, c)
    BY DEF step, Hexadecimal, Literal
  <2>2. s.step = "stateBeginValueOrEmpty" => step(s, c) = stateBeginValueOrEmpty(s, c)
    BY DEF step, Hexadecimal, Literal
  <2>3. Ready(s)
    BY <1>2, OpenIsReady DEF OpenSteps
  <2> QED BY <1>1, <1>2, <2>1, <2>2, <2>3, BeginValueOutside, OrEmptyOutside
<1>3. CASE s.step \in {"stateBeginString", "stateBeginStringOrEmpty"}
  <2>1. s.step = "stateBeginString" => step(s, c) = stateBeginString(s, c)
    BY DEF step, Hexadecimal, Literal
  <2>2. s.step = "stateBeginStringOrEmpty" => step(s, c) = stateBeginStringOrEmpty(s, c)
    BY DEF step, Hexadecimal, Literal
  <2>3. Ready(s) /\ InKey(s.parseState)
    BY <1>3, OpenIsReady DEF OpenSteps, Sound, Fits
  <2> QED BY <1>0, <1>1, <1>3, <2>1, <2>2, <2>3, BeginStringOutside, OrEmptyOutside
<1>4. CASE s.step = "stateEndValue"
  <2>1. step(s, c) = stateEndValue(s, c)
    BY <1>4 DEF step, Hexadecimal, Literal
  <2> QED BY <1>4, <2>1, OpenIsReady, EndValueOutside DEF OpenSteps
<1>5. CASE s.step = "stateEndTop"
  <2>1. step(s, c) = [(IF c = " " THEN s ELSE error(s)) EXCEPT !.op = "scanEnd"]
    BY <1>5 DEF step, stateEndTop, Hexadecimal, Literal
  <2>2. CASE c = " "
    <3>1. step(s, c).parseState = s.parseState /\ step(s, c).step = s.step
      BY <1>0, <2>1, <2>2 DEF Scanner
    <3> QED BY <1>1, <2>2, <3>1 DEF Outside, SameOpen, SameKind
  <2>3. CASE c # " "
    <3>1. error(s) \in Scanner /\ error(s).err # NoError
      BY <1>0, ErrorEffect
    <3>2. step(s, c).err # NoError
      BY <2>1, <2>3, <3>1 DEF Scanner
    <3> QED BY <3>2 DEF Outside
  <2> QED BY <2>2, <2>3
<1>6. CASE s.step \in DOMAIN Literal
  <2>1. step(s, c) = IF c = Literal[s.step][1] THEN Continue(s, Literal[s.step][2]) ELSE error(s)
    BY <1>6 DEF step, Hexadecimal, Literal
  <2> QED BY <1>0, <1>6, <2>1, LiteralOutside, ErrorOpen
<1>7. CASE s.step \in {"stateNeg", "state1", "state0", "stateDot", "stateDot0", "stateE",
                       "stateESign", "stateE0"}
  <2>1. Ready(s)
    BY <1>7, OpenIsReady DEF OpenSteps, ScalarSteps
  <2>2. step(s, c) \in {stateNeg(s, c), state1(s, c), state0(s, c), stateDot(s, c),
                        stateDot0(s, c), stateE(s, c), stateESign(s, c), stateE0(s, c)}
    BY <1>7 DEF step, Hexadecimal, Literal
  <2> QED BY <2>1, <2>2, NumberOutside
<1>8. CASE s.step = "stateError"
  <2>1. step(s, c).err = s.err /\ s.err # NoError
    BY <1>8, StaysInError DEF Sound
  <2> QED BY <2>1 DEF Outside
<1> QED BY <1>0, <1>2, <1>3, <1>4, <1>5, <1>6, <1>7, <1>8 DEF Steps, OpenSteps, ScalarSteps
---------------------------------------------------------------------------
(* The stack and the brackets of the text.                                 *)

\* The stack holds the brackets that are open.
Mirrors(open, stack) ==
    /\ Len(open) = Len(stack)
    /\ \A i \in 1..Len(stack) : open[i] = "[" <=> stack[i] = "parseArrayValue"

Tracks(s, o) ==
    s.err = NoError =>
        o.matched /\ o.at = Where(s.step) /\ Mirrors(o.open, s.parseState)

LEMMA OutlinedIn ==
  ASSUME NEW o, NEW c
  PROVE  /\ o.at = "escape" => Outlined(o, c) = [o EXCEPT !.at = "string"]
         /\ o.at = "string" =>
              Outlined(o, c) = IF c = "\\" THEN [o EXCEPT !.at = "escape"]
                               ELSE IF c = "\"" THEN [o EXCEPT !.at = "between"] ELSE o
BY DEF Outlined

LEMMA OutlinedOut ==
  ASSUME NEW o, NEW c, o.at = "between"
  PROVE  /\ c = "\"" => Outlined(o, c) = [o EXCEPT !.at = "string"]
         /\ c \in Openers => Outlined(o, c) = [o EXCEPT !.open = Append(@, c)]
         /\ c \in Closers => Outlined(o, c) = Closed(o, c)
         /\ c \notin {"\"", "{", "[", "}", "]"} => Outlined(o, c) = o
<1>1. c \in Openers => c # "\"" /\ c \notin Closers
  BY DEF Openers, Closers
<1>2. c \in Closers => c # "\"" /\ c \notin Openers
  BY DEF Openers, Closers
<1>3. c = "\"" => Outlined(o, c) = [o EXCEPT !.at = "string"]
  BY <1>1, <1>2 DEF Outlined
<1>4. c \in Openers => Outlined(o, c) = [o EXCEPT !.open = Append(@, c)]
  BY <1>1 DEF Outlined
<1>5. c \in Closers => Outlined(o, c) = Closed(o, c)
  BY <1>2 DEF Outlined
<1>6. c \notin {"\"", "{", "[", "}", "]"} => Outlined(o, c) = o
  BY DEF Outlined, Openers, Closers
<1> QED BY <1>3, <1>4, <1>5, <1>6

LEMMA AtEffect ==
  ASSUME NEW o \in Outlines, NEW a \in {"between", "string", "escape"}
  PROVE  LET u == [o EXCEPT !.at = a] IN
         u \in Outlines /\ u.at = a /\ u.open = o.open /\ u.matched = o.matched
BY DEF Outlines

LEMMA MirrorsSame ==
  ASSUME NEW open, NEW s, NEW t, Mirrors(open, s.parseState), SameOpen(s, t)
  PROVE  Mirrors(open, t.parseState)
BY DEF Mirrors, SameOpen, SameKind

LEMMA MirrorsOpened ==
  ASSUME NEW open \in Seq(Openers), NEW s, NEW t, NEW c \in Openers,
         Mirrors(open, s.parseState), OpenedBy(s, c, t)
  PROVE  /\ Append(open, c) \in Seq(Openers)
         /\ Mirrors(Append(open, c), t.parseState)
<1> DEFINE more == Append(open, c)
<1>1. /\ more \in Seq(Openers) /\ Len(more) = Len(open) + 1
      /\ \A i \in 1..Len(open) : more[i] = open[i]
      /\ more[Len(open) + 1] = c
      /\ Len(open) \in Nat
  BY AppendProperties, LenProperties
<1> HIDE DEF more
<1>2. Mirrors(more, t.parseState)
  BY <1>1 DEF Mirrors, OpenedBy, SameKind
<1> QED BY <1>1, <1>2 DEF more

\* A bracket closes the one on top of the stack, so it is the right one.
LEMMA MirrorsClosed ==
  ASSUME NEW open \in Seq(Openers), NEW s, NEW t, NEW c \in Closers,
         Len(t.parseState) \in Nat,
         Mirrors(open, s.parseState), ClosedBy(s, c, t)
  PROVE  LET n == Len(open) IN
         /\ n > 0 /\ open[n] = Opener(c)
         /\ SubSeq(open, 1, n - 1) \in Seq(Openers)
         /\ Mirrors(SubSeq(open, 1, n - 1), t.parseState)
<1> DEFINE n == Len(open)
           less == SubSeq(open, 1, n - 1)
<1>1. n = Len(t.parseState) + 1 /\ n = Len(s.parseState)
  BY DEF Mirrors, ClosedBy
<1>2. open[n] \in Openers /\ n \in Nat
  BY <1>1
<1>3. open[n] = "[" <=> c = "]"
  BY <1>1, <1>2 DEF Mirrors, ClosedBy
<1>4. open[n] = Opener(c)
  BY <1>2, <1>3 DEF Openers, Closers, Opener
<1>5. \A i \in 1..(n - 1) : open[i] \in Openers
  BY <1>2
<1>6. /\ less \in Seq(Openers)
      /\ Len(less) = IF 1 <= n - 1 THEN n - 1 - 1 + 1 ELSE 0
      /\ \A i \in 1..(n - 1 - 1 + 1) : less[i] = open[1 + i - 1]
  <2> HIDE DEF n
  <2> QED BY <1>2, <1>5, SubSeqProperties
<1> HIDE DEF less, n
<1>7. Len(less) = n - 1 /\ \A i \in 1..(n - 1) : less[i] = open[i]
  BY <1>1, <1>2, <1>6
<1>8. Mirrors(less, t.parseState)
  BY <1>1, <1>2, <1>7 DEF Mirrors, ClosedBy, SameKind, n
<1>9. n > 0
  BY <1>1
<1> QED BY <1>4, <1>6, <1>8, <1>9 DEF less, n

LEMMA ClosedType ==
  ASSUME NEW o \in Outlines, NEW c
  PROVE  Closed(o, c) \in Outlines
<1> DEFINE n == Len(o.open)
           less == SubSeq(o.open, 1, n - 1)
<1>1. o.open \in Seq(Openers) /\ n \in Nat
  BY DEF Outlines
<1>2. less \in Seq(Openers)
  <2>1. \A i \in 1..(n - 1) : o.open[i] \in Openers
    BY <1>1
  <2> HIDE DEF n
  <2> QED BY <1>1, <2>1, SubSeqProperties
<1>3. Closed(o, c) \in {[o EXCEPT !.open = less], [o EXCEPT !.matched = FALSE]}
  BY DEF Closed
<1> HIDE DEF less
<1> QED BY <1>2, <1>3 DEF Outlines

LEMMA OutlinedType ==
  ASSUME NEW o \in Outlines, NEW c
  PROVE  Outlined(o, c) \in Outlines
<1>1. CASE o.at = "escape" \/ o.at = "string"
  <2>1. \/ Outlined(o, c) = o
        \/ \E a \in {"between", "string", "escape"} : Outlined(o, c) = [o EXCEPT !.at = a]
    BY <1>1, OutlinedIn, Zenon
  <2> QED BY <2>1, AtEffect
<1>2. CASE o.at = "between"
  <2>1. CASE c \in Openers
    <3>1. Append(o.open, c) \in Seq(Openers)
      BY <2>1, AppendProperties DEF Outlines
    <3>2. Outlined(o, c) = [o EXCEPT !.open = Append(@, c)]
      BY <1>2, <2>1, OutlinedOut
    <3> QED BY <3>1, <3>2 DEF Outlines
  <2>2. CASE c \in Closers
    <3>1. Outlined(o, c) = Closed(o, c)
      BY <1>2, <2>2, OutlinedOut
    <3> QED BY <3>1, ClosedType
  <2>3. CASE c \notin Openers \cup Closers
    <3>1. c \notin {"{", "[", "}", "]"}
      BY <2>3 DEF Openers, Closers
    <3>2. Outlined(o, c) \in {o, [o EXCEPT !.at = "string"]}
      BY <1>2, <3>1, OutlinedOut
    <3> QED BY <3>2, AtEffect
  <2> QED BY <2>1, <2>2, <2>3
<1> QED BY <1>1, <1>2 DEF Outlines

\* In a string the stack and the outline keep their brackets.
LEMMA TracksIn ==
  ASSUME NEW s, NEW t, NEW c, NEW o \in Outlines,
         o.at = "string" \/ o.at = "escape",
         s.err = NoError, Tracks(s, o), Inside(s, c, t)
  PROVE  Tracks(t, Outlined(o, c))
<1> SUFFICES ASSUME t.err = NoError PROVE Tracks(t, Outlined(o, c))
  BY DEF Tracks
<1> DEFINE u == Outlined(o, c)
<1>1. SameOpen(s, t) /\ o.matched /\ o.at = Where(s.step) /\ Mirrors(o.open, t.parseState)
  BY MirrorsSame DEF Tracks, Inside
<1>2. Where(t.step) = IF o.at = "escape" THEN "string"
                      ELSE IF c = "\"" THEN "between"
                      ELSE IF c = "\\" THEN "escape" ELSE "string"
  BY <1>1 DEF Inside
<1>3. /\ u.at = IF o.at = "escape" THEN "string"
                ELSE IF c = "\\" THEN "escape"
                ELSE IF c = "\"" THEN "between" ELSE "string"
      /\ u.open = o.open /\ u.matched = o.matched
  <2>1. \A a \in {"between", "string", "escape"} :
          /\ [o EXCEPT !.at = a].at = a
          /\ [o EXCEPT !.at = a].open = o.open
          /\ [o EXCEPT !.at = a].matched = o.matched
    BY AtEffect
  <2>2. CASE o.at = "escape"
    <3>1. u = [o EXCEPT !.at = "string"]
      BY <2>2, OutlinedIn
    <3> QED BY <2>1, <2>2, <3>1
  <2>3. CASE o.at = "string" /\ c = "\\"
    <3>1. u = [o EXCEPT !.at = "escape"] /\ o.at # "escape"
      BY <2>3, OutlinedIn
    <3> QED BY <2>1, <2>3, <3>1
  <2>4. CASE o.at = "string" /\ c # "\\" /\ c = "\""
    <3>1. u = [o EXCEPT !.at = "between"] /\ o.at # "escape"
      BY <2>4, OutlinedIn
    <3> QED BY <2>1, <2>4, <3>1
  <2>5. CASE o.at = "string" /\ c # "\\" /\ c # "\""
    <3>1. u = o /\ o.at # "escape"
      BY <2>5, OutlinedIn
    <3> QED BY <2>5, <3>1
  <2> QED BY <2>2, <2>3, <2>4, <2>5
<1>4. u.at = Where(t.step)
  BY <1>2, <1>3
<1> HIDE DEF u
<1>5. Tracks(t, u)
  BY <1>1, <1>3, <1>4 DEF Tracks
<1> QED BY <1>5 DEF u

\* Outside, a bracket opens or closes the same one in both.
LEMMA TracksOut ==
  ASSUME NEW s, NEW t, NEW c, NEW o \in Outlines, o.at = "between",
         s.err = NoError, Tracks(s, o), Outside(s, c, t), Len(t.parseState) \in Nat
  PROVE  Tracks(t, Outlined(o, c))
<1> SUFFICES ASSUME t.err = NoError PROVE Tracks(t, Outlined(o, c))
  BY DEF Tracks
<1> DEFINE u == Outlined(o, c)
<1>1. o.matched /\ Mirrors(o.open, s.parseState) /\ o.open \in Seq(Openers)
  BY DEF Tracks, Outlines
<1>2. CASE c \in Openers
  <2>1. OpenedBy(s, c, t) /\ Where(t.step) = "between"
    BY <1>2 DEF Outside, Openers
  <2>2. u = [o EXCEPT !.open = Append(@, c)]
    BY <1>2, OutlinedOut
  <2>3. Mirrors(Append(o.open, c), t.parseState)
    BY <1>1, <1>2, <2>1, MirrorsOpened
  <2>4. u.open = Append(o.open, c) /\ u.at = o.at /\ u.matched = o.matched
    BY <2>2 DEF Outlines
  <2> QED BY <1>1, <2>1, <2>3, <2>4 DEF Tracks
<1>3. CASE c \in Closers
  <2>1. ClosedBy(s, c, t) /\ Where(t.step) = "between"
    BY <1>3 DEF Outside, Closers
  <2> DEFINE n == Len(o.open)
             less == SubSeq(o.open, 1, n - 1)
  <2>2. n > 0 /\ o.open[n] = Opener(c) /\ Mirrors(less, t.parseState)
    BY <1>1, <1>3, <2>1, MirrorsClosed
  <2>3. u = [o EXCEPT !.open = less]
    BY <1>3, <2>2, OutlinedOut DEF Closed
  <2>4. u.open = less /\ u.at = o.at /\ u.matched = o.matched
    BY <2>3 DEF Outlines
  <2> QED BY <1>1, <2>1, <2>2, <2>4 DEF Tracks
<1>4. CASE c \notin Openers \cup Closers
  <2>1. c \notin {"{", "[", "}", "]"}
    BY <1>4 DEF Openers, Closers
  <2>2. SameOpen(s, t) /\ Where(t.step) = IF c = "\"" THEN "string" ELSE "between"
    BY <2>1 DEF Outside
  <2>3. Mirrors(o.open, t.parseState)
    BY <1>1, <2>2, MirrorsSame
  <2>4. /\ u.at = IF c = "\"" THEN "string" ELSE "between"
        /\ u.open = o.open /\ u.matched = o.matched
    <3>1. CASE c = "\""
      <4>1. u = [o EXCEPT !.at = "string"]
        BY <3>1, OutlinedOut
      <4>2. u.at = "string" /\ u.open = o.open /\ u.matched = o.matched
        BY <4>1, AtEffect
      <4> QED BY <3>1, <4>2
    <3>2. CASE c # "\""
      <4>1. u = o
        BY <2>1, <3>2, OutlinedOut
      <4> QED BY <3>2, <4>1
    <3> QED BY <3>1, <3>2
  <2> QED BY <1>1, <2>2, <2>3, <2>4 DEF Tracks
<1> QED BY <1>2, <1>3, <1>4

LEMMA TracksStep ==
  ASSUME NEW s, Sound(s), NEW o \in Outlines, Tracks(s, o), NEW c
  PROVE  Tracks(step(s, c), Outlined(o, c))
<1> DEFINE t == step(s, c)
<1>1. Sound(t) /\ Len(t.parseState) \in Nat /\ t.err \in {s.err, s.bytes}
  BY StepSound DEF Result, Sound, Scanner
<1>2. CASE s.err # NoError
  <2>1. t.err = s.err
    BY <1>2, StaysInError DEF Sound
  <2> QED BY <1>2, <2>1 DEF Tracks
<1>3. CASE s.err = NoError
  <2>1. o.at = Where(s.step)
    BY <1>3 DEF Tracks
  <2>2. CASE s.step \in StringSteps
    <3>1. Inside(s, c, t)
      BY <2>2, StringInside
    <3>2. o.at = "string" \/ o.at = "escape"
      BY <2>1, <2>2 DEF Where
    <3> HIDE DEF t
    <3>3. Tracks(t, Outlined(o, c))
      BY <1>3, <3>1, <3>2, TracksIn
    <3> QED BY <3>3 DEF t
  <2>3. CASE s.step \notin StringSteps
    <3>1. Outside(s, c, t)
      BY <2>3, StepOutside
    <3>2. o.at = "between"
      BY <2>1, <2>3 DEF Where, StringSteps
    <3> HIDE DEF t
    <3>3. Tracks(t, Outlined(o, c))
      BY <1>1, <1>3, <3>1, <3>2, TracksOut
    <3> QED BY <3>3 DEF t
  <2> QED BY <2>2, <2>3
<1> QED BY <1>2, <1>3

\* The space that eof feeds ends the value only when nothing is open, neither
\* a bracket nor a string.
LEMMA SpaceEnds ==
  ASSUME NEW s, Sound(s), s.step \in OpenSteps, NEW c, c = " ", step(s, c).endTop
  PROVE  s.parseState = <<>> /\ s.step \notin StringSteps
<1>1. Ready(s) /\ s \in Scanner /\ ~s.endTop
  BY OpenIsReady DEF Ready
<1>2. ~error(s).endTop /\ ~SkipSpace(s).endTop /\ \A st : ~Continue(s, st).endTop
  BY <1>1, ErrorEffect DEF SkipSpace, Continue, Return, Scanner
<1>3. ASSUME s.step \in StringSteps PROVE FALSE
  <2>1. s.step = "stateInString" => step(s, c) = stateInString(s, c)
    BY DEF step, Hexadecimal, Literal
  <2>2. s.step = "stateInStringEsc" => step(s, c) = stateInStringEsc(s, c)
    BY DEF step, Hexadecimal, Literal
  <2>3. s.step \in DOMAIN Hexadecimal =>
          step(s, c) \in {Continue(s, Hexadecimal[s.step]), error(s)}
    BY DEF step, Hexadecimal, Literal
  <2>4. ~stateInString(s, c).endTop
    BY <1>2 DEF stateInString
  <2>5. ~stateInStringEsc(s, c).endTop
    BY <1>2 DEF stateInStringEsc
  <2> QED BY <1>2, <1>3, <2>1, <2>2, <2>3, <2>4, <2>5 DEF StringSteps
<1>4. ASSUME s.parseState # <<>> PROVE FALSE
  <2>1. ~stateEndValue(s, c).endTop
    <3>1. stateEndValue(s, c) = Return(s, "stateEndValue", "scanSkipSpace")
      BY <1>4 DEF stateEndValue
    <3> QED BY <1>1, <3>1 DEF Return, Scanner
  <2>2. CASE s.step \in {"stateBeginValue", "stateBeginValueOrEmpty", "stateBeginString",
                         "stateBeginStringOrEmpty"}
    <3>1. c # "]" /\ c # "}"
      OBVIOUS
    <3>2. /\ stateBeginValue(s, c) = SkipSpace(s)
          /\ stateBeginString(s, c) = SkipSpace(s)
      <4>1. stateBeginValue(s, c) = SkipSpace(s)
        BY DEF stateBeginValue, Scalar
      <4>2. stateBeginString(s, c) = SkipSpace(s)
        BY DEF stateBeginString
      <4> QED BY <4>1, <4>2
    <3>3. /\ stateBeginValueOrEmpty(s, c) = SkipSpace(s)
          /\ stateBeginStringOrEmpty(s, c) = SkipSpace(s)
      BY <3>1, <3>2 DEF stateBeginValueOrEmpty, stateBeginStringOrEmpty
    <3>4. s.step = "stateBeginValue" => step(s, c) = stateBeginValue(s, c)
      BY DEF step, Hexadecimal, Literal
    <3>5. s.step = "stateBeginValueOrEmpty" => step(s, c) = stateBeginValueOrEmpty(s, c)
      BY DEF step, Hexadecimal, Literal
    <3>6. s.step = "stateBeginString" => step(s, c) = stateBeginString(s, c)
      BY DEF step, Hexadecimal, Literal
    <3>7. s.step = "stateBeginStringOrEmpty" => step(s, c) = stateBeginStringOrEmpty(s, c)
      BY DEF step, Hexadecimal, Literal
    <3>8. step(s, c) = SkipSpace(s)
      BY <2>2, <3>2, <3>3, <3>4, <3>5, <3>6, <3>7
    <3> QED BY <1>2, <3>8
  <2>3. CASE s.step = "stateEndValue"
    <3>1. step(s, c) = stateEndValue(s, c)
      BY <2>3 DEF step, Hexadecimal, Literal
    <3> QED BY <2>1, <3>1
  <2>4. CASE s.step \in DOMAIN Literal
    <3>1. step(s, c) \in {Continue(s, Literal[s.step][2]), error(s)}
      BY <2>4 DEF step, Hexadecimal, Literal
    <3> QED BY <1>2, <3>1
  <2>5. CASE s.step \in {"stateNeg", "state1", "state0", "stateDot", "stateDot0", "stateE",
                         "stateESign", "stateE0"}
    <3>1. step(s, c) \in {stateNeg(s, c), state1(s, c), state0(s, c), stateDot(s, c),
                          stateDot0(s, c), stateE(s, c), stateESign(s, c), stateE0(s, c)}
      BY <2>5 DEF step, Hexadecimal, Literal
    <3>2. ~state0(s, c).endTop
      BY <1>2, <2>1 DEF state0
    <3>3. ~state1(s, c).endTop
      BY <1>2, <3>2 DEF state1
    <3>4. ~stateNeg(s, c).endTop
      BY <1>2 DEF stateNeg
    <3>5. ~stateDot(s, c).endTop /\ ~stateESign(s, c).endTop
      BY <1>2 DEF stateDot, stateESign
    <3>6. ~stateDot0(s, c).endTop
      BY <1>2, <2>1 DEF stateDot0
    <3>7. ~stateE(s, c).endTop
      BY <1>2, <3>5 DEF stateE
    <3>8. ~stateE0(s, c).endTop
      BY <1>2, <2>1 DEF stateE0
    <3> QED BY <3>1, <3>2, <3>3, <3>4, <3>5, <3>6, <3>7, <3>8
  <2> QED BY <1>3, <2>2, <2>3, <2>4, <2>5 DEF OpenSteps, ScalarSteps
<1> QED BY <1>3, <1>4
---------------------------------------------------------------------------
(* The loop.                                                               *)

\* The inductive invariant.  TypeOK alone is not: that the stack keeps its
\* type depends on the state functions that look at its top being reached
\* only with something on it.
IInv == TypeOK /\ Sound(scan) /\ Tracks(scan, outline)

LEMMA InitInv == Init => IInv
<1> SUFFICES ASSUME Init PROVE IInv
  OBVIOUS
<1>1. <<>> \in Seq(ParseStates) /\ Len(<<>>) = 0
  BY EmptySeq
<1>2. reset \in Scanner
  <2>1. {"scanContinue"} \subseteq Codes /\ {"stateBeginValue"} \subseteq Steps
    BY DEF Codes, Steps, OpenSteps
  <2> QED BY <1>1, <2>1 DEF reset, Scanner
<1>3. Sound(reset)
  BY <1>1, <1>2 DEF reset, Sound, Fits, Nested, InKey, InArray
<1>4. TypeOK
  <2>1. alphabet[2] \in Nat
    BY AlphabetsAssumption DEF Init
  <2>2. outline \in Outlines
    BY EmptySeq DEF Init, Outlines
  <2> QED BY <1>1, <2>1, <2>2, EmptySeq DEF Init, TypeOK, reset
<1>5. Tracks(reset, outline)
  <2>1. Where("stateBeginValue") = "between"
    BY DEF Where, StringSteps, Hexadecimal
  <2> QED BY <1>1, <2>1 DEF Init, Tracks, Mirrors, reset
<1> QED BY <1>3, <1>4, <1>5 DEF Init, IInv

LEMMA WordsType ==
  ASSUME TypeOK, NEW w \in Words
  PROVE  /\ w \in Seq(BytesOf(alphabet)) /\ w # <<>>
         /\ Len(input) + Len(w) <= alphabet[2]
BY AlphabetsAssumption DEF TypeOK, Words

\* The scanner between the count and the step.
LEMMA CountedSound ==
  ASSUME TypeOK, Sound(scan)
  PROVE  LET s == [scan EXCEPT !.bytes = @ + 1] IN
         /\ Sound(s)
         /\ s.bytes = Len(input) + 1
         /\ s.step = scan.step /\ s.err = scan.err /\ s.op = scan.op
         /\ s.parseState = scan.parseState
<1> DEFINE s == [scan EXCEPT !.bytes = @ + 1]
<1>1. scan.bytes \in Nat /\ scan.bytes = Len(input)
  BY DEF TypeOK, Sound, Scanner
<1>2. /\ s \in Scanner /\ s.bytes = Len(input) + 1
      /\ s.step = scan.step /\ s.err = scan.err /\ s.op = scan.op
      /\ s.parseState = scan.parseState /\ s.endTop = scan.endTop
  BY <1>1 DEF Sound, Scanner
<1> HIDE DEF s
<1>3. Sound(s)
  BY <1>2 DEF Sound
<1> QED BY <1>2, <1>3 DEF s

LEMMA NextInv == IInv /\ [Next]_vars => IInv'
<1> SUFFICES ASSUME IInv, [Next]_vars PROVE IInv'
  OBVIOUS
<1>1. CASE UNCHANGED vars
  BY <1>1 DEF vars, IInv, TypeOK, Sound, Fits, Nested, InKey, InArray, Tracks
<1>2. ASSUME NEW w \in Words, Byte(w) PROVE IInv'
  <2> DEFINE s == [scan EXCEPT !.bytes = @ + 1]
  <2>1. /\ w \in Seq(BytesOf(alphabet)) /\ w # <<>>
        /\ Len(input) + Len(w) <= alphabet[2]
    BY WordsType DEF IInv
  <2>2. Sound(s) /\ s.bytes = Len(input) + 1 /\ s.err = scan.err
    BY CountedSound DEF IInv
  <2>3. scan' = step(s, Head(w)) /\ outline' = Outlined(outline, Head(w))
    BY <1>2 DEF Byte
  <2>4. outline \in Outlines /\ Tracks(s, outline)
    BY CountedSound DEF IInv, TypeOK, Tracks
  <2> HIDE DEF s
  <2>5. Result(s, scan')
    BY <2>2, <2>3, StepSound
  <2>6. /\ Head(w) \in BytesOf(alphabet)
        /\ Tail(w) \in Seq(BytesOf(alphabet)) /\ Len(Tail(w)) = Len(w) - 1
    BY <2>1, HeadTailProperties
  <2>7. input \in Seq(BytesOf(alphabet)) /\ Len(input) \in Nat /\ alphabet \in Alphabets
    BY DEF IInv, TypeOK
  <2>8. input' \in Seq(BytesOf(alphabet)) /\ Len(input') = Len(input) + 1
    BY <1>2, <2>6, <2>7, AppendProperties DEF Byte
  <2>9. alphabet' = alphabet /\ word' = Tail(w)
    BY <1>2 DEF Byte
  <2>10. word' \in Seq(BytesOf(alphabet)) /\ Len(input') + Len(word') <= alphabet[2]
    <3>1. Len(w) \in Nat /\ alphabet[2] \in Nat
      BY <2>1, <2>7, LenProperties, AlphabetsAssumption
    <3> QED BY <2>1, <2>6, <2>7, <2>8, <2>9, <3>1
  <2>11. scan'.bytes = Len(input') /\ scan'.err \in {NoError} \cup 1..Len(input')
    BY <2>2, <2>5, <2>7, <2>8 DEF Result, IInv, TypeOK
  <2>12. scan'.parseState \in Seq(ParseStates)
    BY <2>5 DEF Result, Sound, Scanner
  <2>13. outline' \in Outlines
    BY <2>3, <2>4, OutlinedType
  <2>14. TypeOK'
    BY <2>7, <2>8, <2>9, <2>10, <2>11, <2>12, <2>13 DEF TypeOK, ParseStates, BytesOf
  <2>15. Sound(scan)'
    BY <2>5 DEF Result, Sound, Fits, Nested, InKey, InArray
  <2>16. Tracks(scan, outline)'
    BY <2>2, <2>3, <2>4, TracksStep DEF Tracks
  <2> QED BY <2>14, <2>15, <2>16 DEF IInv
<1> QED BY <1>1, <1>2 DEF Next

\* The invariant holds in every state of the loop, for every set of words.
THEOREM Invariant == Spec => []IInv
<1> QED BY InitInv, NextInv, PTL DEF Spec

\* The error is at a byte that was read, the count is the length of the text,
\* and the stack holds what the state functions may push.
THEOREM TypeCorrect == Spec => []TypeOK
<1>1. IInv => TypeOK
  BY DEF IInv
<1> QED BY <1>1, Invariant, PTL

\* Once a call of step has returned scanError, every later one does, and the
\* error it found first is the one that is kept.
THEOREM ErrorStays == Spec => ErrorIsSticky
<1> DEFINE Sticky == scan.op = "scanError" => scan'.op = "scanError" /\ scan'.err = scan.err
<1>1. IInv /\ [Next]_vars => [Sticky]_scan
  <2> SUFFICES ASSUME IInv, Next, scan.op = "scanError"
               PROVE  scan'.op = "scanError" /\ scan'.err = scan.err
    BY DEF vars
  <2>1. PICK w \in Words : Byte(w)
    BY DEF Next
  <2> DEFINE s == [scan EXCEPT !.bytes = @ + 1]
  <2>2. Sound(s) /\ s.err = scan.err /\ s.op = "scanError"
    BY CountedSound DEF IInv
  <2>3. s.step = "stateError"
    BY <2>2 DEF Sound
  <2>4. scan' = step(s, Head(w))
    BY <2>1 DEF Byte
  <2> HIDE DEF s
  <2> QED BY <2>2, <2>3, <2>4, StaysInError
<1> QED BY <1>1, Invariant, PTL DEF Spec, ErrorIsSticky

\* Every bracket of an accepted text, its strings left out, closes the last
\* one open, and none is left open, nor a string.
BracketsMatch ==
    checkValid => outline.matched /\ outline.open = <<>> /\ outline.at = "between"

LEMMA AcceptedEnds ==
  ASSUME NEW s, Sound(s), eof(s).op # "scanError"
  PROVE  s.err = NoError /\ s.parseState = <<>> /\ s.step \notin StringSteps
<1>1. s \in Scanner /\ s.step \in Steps
  BY DEF Sound, Scanner
<1>2. s.err = NoError
  <2>1. ASSUME s.err # NoError PROVE FALSE
    <3>1. eof(s) = [s EXCEPT !.op = "scanError"]
      BY <2>1 DEF eof
    <3>2. eof(s).op = "scanError"
      BY <1>1, <3>1 DEF Scanner
    <3> QED BY <3>2
  <2> QED BY <2>1
<1>3. CASE s.endTop
  <2>1. s.step \in {"stateEndTop", "stateError"} /\ s.parseState = <<>>
    BY <1>3 DEF Sound
  <2> QED BY <1>2, <2>1 DEF StringSteps, Hexadecimal
<1>4. CASE ~s.endTop
  <2> DEFINE t == step(s, " ")
  <2>1. Sound(t)
    BY StepSound DEF Result
  <2>2. eof(s) = ended(t)
    BY <1>2, <1>4 DEF eof
  <2>3. t.endTop
    <3> HIDE DEF t
    <3>1. ~t.endTop => ended(t).op = "scanError"
      BY <2>1 DEF ended, Sound, Scanner
    <3> QED BY <2>2, <3>1
  <2>4. s.step \in OpenSteps
    BY <1>1, <1>2, <1>4 DEF Sound, Steps
  <2> QED BY <1>2, <2>3, <2>4, SpaceEnds
<1> QED BY <1>3, <1>4

\* What the code keeps a stack of parse states for: no text is accepted whose
\* brackets do not pair up, however deep they are nested.
THEOREM BracketsMatchAlways == Spec => []BracketsMatch
<1>1. IInv => BracketsMatch
  <2> SUFFICES ASSUME IInv, checkValid
               PROVE  outline.matched /\ outline.open = <<>> /\ outline.at = "between"
    BY DEF BracketsMatch
  <2>1. scan.err = NoError /\ scan.parseState = <<>> /\ scan.step \notin StringSteps
    BY AcceptedEnds DEF IInv, checkValid
  <2>2. outline.matched /\ outline.at = Where(scan.step) /\ Len(outline.open) = Len(scan.parseState)
    BY <2>1 DEF IInv, Tracks, Mirrors
  <2>3. Where(scan.step) = "between"
    BY <2>1 DEF Where, StringSteps
  <2>4. outline.open \in Seq(Openers)
    BY DEF IInv, TypeOK, Outlines
  <2>5. outline.open = <<>>
    BY <2>1, <2>2, <2>4, EmptySeq
  <2> QED BY <2>2, <2>3, <2>5
<1> QED BY <1>1, Invariant, PTL

\* While the object on top of the stack waits for the colon, the scanner is
\* before, inside or just behind a string.
KeysAreStrings ==
    InKey(scan.parseState) =>
        scan.step \in StringSteps \cup
            {"stateBeginString", "stateBeginStringOrEmpty", "stateEndValue", "stateError"}

\* Only a string is ever read as the key of a member.
THEOREM KeysAreStringsAlways == Spec => []KeysAreStrings
<1>1. IInv => KeysAreStrings
  BY DEF IInv, Sound, Fits, KeysAreStrings
<1> QED BY <1>1, Invariant, PTL

---------------------------------------------------------------------------
(* What is still to come of a text, told from the state of the scanner.    *)

Elements(d, J) == After(d, ListBy(d, Phrases(d), "elements", J), EndArray)
Members(d, J) == After(d, ListBy(d, Phrases(d), "members", J), EndObject)
Named(d, J) == Value(d, Space(d, After(d, Space(d, J), Colon)))
Quoted(d, J) == After(d, From(Phrases(d), "characters", J), QuotationMark)
Escaped(d, J) ==
    Both(After(d, J, Escapable),
         HexDigit(d, HexDigit(d, HexDigit(d, HexDigit(d, After(d, J, {"u"}))))))

\* Where the value, the string or the brackets that the scanner is in may end,
\* if it is in the state st before byte i.
Rest(d, st, i) ==
    CASE st = "stateBeginValue" -> Value(d, Space(d, One(i)))
      [] st = "stateBeginValueOrEmpty" ->
           Both(After(d, Space(d, One(i)), EndArray), Elements(d, Value(d, Space(d, One(i)))))
      [] st = "stateBeginString" -> String(d, Space(d, One(i)))
      [] st = "stateBeginStringOrEmpty" ->
           Both(After(d, Space(d, One(i)), EndObject),
                Members(d, Named(d, String(d, Space(d, One(i))))))
      [] st \in {"stateEndValue", "stateEndTop"} -> One(i)
      [] st = "stateInString" -> Quoted(d, One(i))
      [] st = "stateInStringEsc" -> Quoted(d, Escaped(d, One(i)))
      [] st = "stateInStringEscU" ->
           Quoted(d, HexDigit(d, HexDigit(d, HexDigit(d, HexDigit(d, One(i))))))
      [] st = "stateInStringEscU1" -> Quoted(d, HexDigit(d, HexDigit(d, HexDigit(d, One(i)))))
      [] st = "stateInStringEscU12" -> Quoted(d, HexDigit(d, HexDigit(d, One(i))))
      [] st = "stateInStringEscU123" -> Quoted(d, HexDigit(d, One(i)))
      [] st = "stateT" -> Word(d, One(i), <<"r", "u", "e">>)
      [] st = "stateTr" -> Word(d, One(i), <<"u", "e">>)
      [] st = "stateTru" -> Word(d, One(i), <<"e">>)
      [] st = "stateF" -> Word(d, One(i), <<"a", "l", "s", "e">>)
      [] st = "stateFa" -> Word(d, One(i), <<"l", "s", "e">>)
      [] st = "stateFal" -> Word(d, One(i), <<"s", "e">>)
      [] st = "stateFals" -> Word(d, One(i), <<"e">>)
      [] st = "stateN" -> Word(d, One(i), <<"u", "l", "l">>)
      [] st = "stateNu" -> Word(d, One(i), <<"l", "l">>)
      [] st = "stateNul" -> Word(d, One(i), <<"l">>)
      [] st = "stateNeg" -> Exponent(d, Fraction(d, Integer(d, One(i))))
      [] st = "state1" -> Exponent(d, Fraction(d, Many(d, One(i), Digit)))
      [] st = "state0" -> Exponent(d, Fraction(d, One(i)))
      [] st = "stateDot" -> Exponent(d, SomeDigits(d, One(i)))
      [] st = "stateDot0" -> Exponent(d, Many(d, One(i), Digit))
      [] st = "stateE" -> SomeDigits(d, Both(One(i), After(d, One(i), Sign)))
      [] st = "stateESign" -> SomeDigits(d, One(i))
      [] st = "stateE0" -> Many(d, One(i), Digit)
      [] st = "stateError" -> None

\* The classes of the bytes of a number.
LEMMA NumberBytes ==
  \A c : /\ c \in Digit => c \notin Point /\ c \notin ExpMark /\ c \notin Sign /\ c \notin Minus
         /\ c \in Point => c \notin ExpMark
         /\ c \in Sign => c \notin Digit
         /\ c \in Minus => c \notin Digit
         /\ c \in Digit <=> c \in DigitZero \/ c \in DigitNonzero
         /\ ~(c \in DigitZero /\ c \in DigitNonzero)
BY DEF Digit, Point, ExpMark, Sign, Minus, DigitZero, DigitNonzero

Position(d, i) == Len(d) \in Nat /\ i \in 1..(Len(d) + 1)

\* Behind a byte is a position.
LEMMA NextPosition ==
  ASSUME NEW d, NEW i, NEW C, Position(d, i), At(d, i, C)
  PROVE  Position(d, i + 1)
BY DEF Position, At

\* The first of any number of bytes.
LEMMA ManyFirst ==
  \A d, i, C : Position(d, i) =>
     /\ At(d, i, C) => Many(d, One(i), C) = Both(One(i), Many(d, One(i + 1), C))
     /\ ~At(d, i, C) => Many(d, One(i), C) = One(i)
BY ManyOne DEF Position

\* An exponent, from its first byte.
LEMMA ExponentOne ==
  ASSUME NEW d, NEW i, Position(d, i)
  PROVE  /\ At(d, i, ExpMark) => Exponent(d, One(i)) = Both(One(i), Rest(d, "stateE", i + 1))
         /\ ~At(d, i, ExpMark) => Exponent(d, One(i)) = One(i)
<1>1. Rest(d, "stateE", i + 1) = SomeDigits(d, Both(One(i + 1), After(d, One(i + 1), Sign)))
  BY DEF Rest
<1> QED BY <1>1, ExponentShape, AfterOne, AfterBoth, BothNone, DigitsBoth

\* What is left of a number, from its next byte.  This is the derivative of the
\* grammar by a byte, and what state0 to stateNeg should compute.
LEMMA NumberRest ==
  ASSUME NEW d, NEW i, Position(d, i)
  PROVE  /\ Rest(d, "stateE0", i) =
              IF At(d, i, Digit) THEN Both(One(i), Rest(d, "stateE0", i + 1)) ELSE One(i)
         /\ Rest(d, "stateESign", i) =
              IF At(d, i, Digit) THEN Rest(d, "stateE0", i + 1) ELSE None
         /\ Rest(d, "stateE", i) =
              IF At(d, i, Sign) THEN Rest(d, "stateESign", i + 1) ELSE Rest(d, "stateESign", i)
         /\ Rest(d, "stateDot0", i) =
              IF At(d, i, Digit) THEN Both(One(i), Rest(d, "stateDot0", i + 1))
              ELSE IF At(d, i, ExpMark) THEN Both(One(i), Rest(d, "stateE", i + 1)) ELSE One(i)
         /\ Rest(d, "stateDot", i) =
              IF At(d, i, Digit) THEN Rest(d, "stateDot0", i + 1) ELSE None
         /\ Rest(d, "state0", i) =
              IF At(d, i, Point) THEN Both(One(i), Rest(d, "stateDot", i + 1))
              ELSE IF At(d, i, ExpMark) THEN Both(One(i), Rest(d, "stateE", i + 1)) ELSE One(i)
         /\ Rest(d, "state1", i) =
              IF At(d, i, Digit) THEN Both(One(i), Rest(d, "state1", i + 1))
              ELSE Rest(d, "state0", i)
         /\ Rest(d, "stateNeg", i) =
              IF At(d, i, DigitZero) THEN Rest(d, "state0", i + 1)
              ELSE IF At(d, i, DigitNonzero) THEN Rest(d, "state1", i + 1) ELSE None
<1>0. /\ At(d, i, Digit) => ~At(d, i, Point) /\ ~At(d, i, ExpMark) /\ ~At(d, i, Sign)
      /\ At(d, i, Point) => ~At(d, i, ExpMark)
      /\ At(d, i, Sign) => ~At(d, i, Digit)
      /\ At(d, i, Digit) <=> At(d, i, DigitZero) \/ At(d, i, DigitNonzero)
      /\ ~(At(d, i, DigitZero) /\ At(d, i, DigitNonzero))
  BY NumberBytes DEF At
<1>1. \A j : /\ Rest(d, "stateE0", j) = Many(d, One(j), Digit)
             /\ Rest(d, "stateESign", j) = SomeDigits(d, One(j))
             /\ Rest(d, "stateE", j) = SomeDigits(d, Both(One(j), After(d, One(j), Sign)))
             /\ Rest(d, "stateDot0", j) = Exponent(d, Many(d, One(j), Digit))
             /\ Rest(d, "stateDot", j) = Exponent(d, SomeDigits(d, One(j)))
             /\ Rest(d, "state0", j) = Exponent(d, Fraction(d, One(j)))
             /\ Rest(d, "state1", j) = Exponent(d, Fraction(d, Many(d, One(j), Digit)))
             /\ Rest(d, "stateNeg", j) = Exponent(d, Fraction(d, Integer(d, One(j))))
  BY DEF Rest
<1>2. /\ At(d, i, Digit) => Many(d, One(i), Digit) = Both(One(i), Many(d, One(i + 1), Digit))
      /\ ~At(d, i, Digit) => Many(d, One(i), Digit) = One(i)
  BY ManyFirst
<1>3. /\ At(d, i, Digit) => SomeDigits(d, One(i)) = Many(d, One(i + 1), Digit)
      /\ ~At(d, i, Digit) => SomeDigits(d, One(i)) = None
  BY DigitsShape, AfterOne, ManyBoth
<1>4. /\ At(d, i, Point) => Fraction(d, One(i)) = Both(One(i), SomeDigits(d, One(i + 1)))
      /\ ~At(d, i, Point) => Fraction(d, One(i)) = One(i)
  BY FractionShape, AfterOne, DigitsBoth, BothNone
<1>5. /\ At(d, i, ExpMark) => Exponent(d, One(i)) = Both(One(i), Rest(d, "stateE", i + 1))
      /\ ~At(d, i, ExpMark) => Exponent(d, One(i)) = One(i)
  BY ExponentOne
<1>6. Rest(d, "stateE", i) =
        IF At(d, i, Sign) THEN Rest(d, "stateESign", i + 1) ELSE Rest(d, "stateESign", i)
  BY <1>0, <1>1, <1>3, AfterOne, DigitsBoth, BothNone
<1>7. Rest(d, "stateDot0", i) =
        IF At(d, i, Digit) THEN Both(One(i), Rest(d, "stateDot0", i + 1))
        ELSE IF At(d, i, ExpMark) THEN Both(One(i), Rest(d, "stateE", i + 1)) ELSE One(i)
  BY <1>0, <1>1, <1>2, <1>5, ExponentBoth
<1>8. Rest(d, "stateDot", i) = IF At(d, i, Digit) THEN Rest(d, "stateDot0", i + 1) ELSE None
  BY <1>1, <1>3, ExponentBoth
<1>9. Rest(d, "state0", i) =
        IF At(d, i, Point) THEN Both(One(i), Rest(d, "stateDot", i + 1))
        ELSE IF At(d, i, ExpMark) THEN Both(One(i), Rest(d, "stateE", i + 1)) ELSE One(i)
  BY <1>0, <1>1, <1>4, <1>5, ExponentBoth
<1>10. Rest(d, "state1", i) =
         IF At(d, i, Digit) THEN Both(One(i), Rest(d, "state1", i + 1)) ELSE Rest(d, "state0", i)
  BY <1>0, <1>1, <1>2, <1>4, <1>5, ExponentBoth, FractionBoth
<1>11. Rest(d, "stateNeg", i) =
         IF At(d, i, DigitZero) THEN Rest(d, "state0", i + 1)
         ELSE IF At(d, i, DigitNonzero) THEN Rest(d, "state1", i + 1) ELSE None
  <2>1. Integer(d, One(i)) = IF At(d, i, DigitZero) THEN One(i + 1)
                             ELSE IF At(d, i, DigitNonzero) THEN Many(d, One(i + 1), Digit) ELSE None
    BY <1>0, IntegerShape, AfterOne, ManyBoth, BothNone
  <2> QED BY <1>1, <2>1, ExponentBoth, FractionBoth
<1> QED BY <1>1, <1>2, <1>3, <1>6, <1>7, <1>8, <1>9, <1>10, <1>11

\* A number by its first byte.
LEMMA NumberFirst ==
  ASSUME NEW d, NEW i, Position(d, i)
  PROVE  Number(d, One(i)) =
           IF At(d, i, Minus) THEN Rest(d, "stateNeg", i + 1)
           ELSE IF At(d, i, DigitZero) THEN Rest(d, "state0", i + 1)
           ELSE IF At(d, i, DigitNonzero) THEN Rest(d, "state1", i + 1) ELSE None
<1>1. /\ At(d, i, Minus) => ~At(d, i, DigitZero) /\ ~At(d, i, DigitNonzero)
      /\ ~(At(d, i, DigitZero) /\ At(d, i, DigitNonzero))
  BY NumberBytes DEF At
<1>2. \A j : /\ Rest(d, "state0", j) = Exponent(d, Fraction(d, One(j)))
             /\ Rest(d, "state1", j) = Exponent(d, Fraction(d, Many(d, One(j), Digit)))
             /\ Rest(d, "stateNeg", j) = Exponent(d, Fraction(d, Integer(d, One(j))))
  BY DEF Rest
<1>3. Number(d, One(i)) = Exponent(d, Fraction(d, Integer(d, Both(One(i), After(d, One(i), Minus)))))
  BY NumberShape
<1>4. Integer(d, One(i)) = IF At(d, i, DigitZero) THEN One(i + 1)
                           ELSE IF At(d, i, DigitNonzero) THEN Many(d, One(i + 1), Digit) ELSE None
  BY <1>1, IntegerShape, AfterOne, ManyBoth, BothNone
<1>5. Integer(d, Both(One(i), After(d, One(i), Minus))) =
        IF At(d, i, Minus) THEN Integer(d, One(i + 1)) ELSE Integer(d, One(i))
  BY <1>1, <1>4, IntegerBoth, AfterOne, BothNone
<1> QED BY <1>1, <1>2, <1>3, <1>4, <1>5, ExponentBoth, FractionBoth

\* The classes of the bytes of a string.
LEMMA StringBytes ==
  \A c : /\ c \in QuotationMark => c \notin Backslash /\ c \notin Control
         /\ c \in Backslash => c \notin Control
         /\ c \in Escapable => c \notin {"u"}
<1>1. \A c : c \in QuotationMark => c \notin Backslash /\ c \notin Control
  BY Zenon DEF QuotationMark, Backslash, Control
<1>2. \A c : c \in Backslash => c \notin Control
  BY Zenon DEF Backslash, Control
<1>3. \A c : c \in Escapable => c \notin {"u"}
  BY Zenon DEF Escapable
<1> QED BY <1>1, <1>2, <1>3, Zenon

\* A byte of a string that stands for itself.
LEMMA AfterOtherOne ==
  ASSUME NEW s, NEW i
  PROVE  AfterOther(s, One(i), QuotationMark \cup Backslash \cup Control) =
           IF /\ i <= Len(s)
              /\ ~At(s, i, QuotationMark) /\ ~At(s, i, Backslash) /\ ~At(s, i, Control)
           THEN One(i + 1) ELSE None
BY DEF AfterOther, At, One, None

LEMMA HexNone == \A d : HexDigit(d, None) = None
BY HexShape, AfterBoth

\* What follows a backslash.
LEMMA EscapedOne ==
  ASSUME NEW d, NEW i
  PROVE  /\ At(d, i, Escapable) => Escaped(d, One(i)) = One(i + 1)
         /\ At(d, i, {"u"}) => Escaped(d, One(i)) =
              HexDigit(d, HexDigit(d, HexDigit(d, HexDigit(d, One(i + 1)))))
         /\ ~At(d, i, Escapable) /\ ~At(d, i, {"u"}) => Escaped(d, One(i)) = None
         /\ Escaped(d, None) = None
<1> DEFINE u == {"u"}
<1>1. \A J : Escaped(d, J) = Both(After(d, J, Escapable),
                HexDigit(d, HexDigit(d, HexDigit(d, HexDigit(d, After(d, J, u))))))
  BY DEF Escaped
<1>2. At(d, i, Escapable) => ~At(d, i, u)
  BY StringBytes DEF At
<1> HIDE DEF u
<1>3. After(d, One(i), u) = IF At(d, i, u) THEN One(i + 1) ELSE None
  BY AfterOne
<1>4. After(d, One(i), Escapable) = IF At(d, i, Escapable) THEN One(i + 1) ELSE None
  BY AfterOne
<1>5. After(d, None, u) = None /\ After(d, None, Escapable) = None
  BY AfterBoth
<1>6. HexDigit(d, HexDigit(d, HexDigit(d, HexDigit(d, None)))) = None
  BY HexNone
<1>7. /\ At(d, i, Escapable) => Escaped(d, One(i)) = One(i + 1)
      /\ At(d, i, u) => Escaped(d, One(i)) =
           HexDigit(d, HexDigit(d, HexDigit(d, HexDigit(d, One(i + 1)))))
      /\ ~At(d, i, Escapable) /\ ~At(d, i, u) => Escaped(d, One(i)) = None
      /\ Escaped(d, None) = None
  BY <1>1, <1>2, <1>3, <1>4, <1>5, <1>6, BothNone
<1> QED BY <1>7 DEF u

\* One character, from its first byte.
LEMMA CharacterOne ==
  ASSUME NEW d, NEW i, Position(d, i)
  PROVE  /\ At(d, i, QuotationMark) \/ At(d, i, Control) \/ i > Len(d)
              => Character(d, One(i)) = None
         /\ At(d, i, Backslash) => Character(d, One(i)) = Escaped(d, One(i + 1))
         /\ i <= Len(d) /\ ~At(d, i, QuotationMark) /\ ~At(d, i, Control) /\ ~At(d, i, Backslash)
              => Character(d, One(i)) = One(i + 1)
<1> DEFINE other == AfterOther(d, One(i), QuotationMark \cup Backslash \cup Control)
<1>1. Character(d, One(i)) = Both(other, Escaped(d, After(d, One(i), Backslash)))
  BY CharacterShape DEF CharacterAfter, Escaped
<1>2. /\ At(d, i, QuotationMark) => ~At(d, i, Backslash) /\ ~At(d, i, Control)
      /\ At(d, i, Backslash) => ~At(d, i, Control)
  BY StringBytes DEF At
<1>3. other = IF /\ i <= Len(d)
                 /\ ~At(d, i, QuotationMark) /\ ~At(d, i, Backslash) /\ ~At(d, i, Control)
              THEN One(i + 1) ELSE None
  BY AfterOtherOne
<1>4. After(d, One(i), Backslash) = IF At(d, i, Backslash) THEN One(i + 1) ELSE None
  BY AfterOne
<1>5. Escaped(d, None) = None
  BY EscapedOne
<1>6. i > Len(d) => ~(i <= Len(d)) /\ ~At(d, i, Backslash)
  BY DEF At, Position
<1> HIDE DEF other
<1> QED BY <1>1, <1>2, <1>3, <1>4, <1>5, <1>6, BothNone

\* The rest of a string takes a union to a union.
LEMMA QuotedBoth ==
  /\ \A d, A, B : Quoted(d, Both(A, B)) = Both(Quoted(d, A), Quoted(d, B))
  /\ \A d : Quoted(d, None) = None
BY FromBoth, AfterBoth DEF Quoted

\* What is left of a string, from its next byte.
LEMMA StringRest ==
  ASSUME NEW d, NEW i, Position(d, i)
  PROVE  /\ Rest(d, "stateInString", i) =
              IF At(d, i, QuotationMark) THEN One(i + 1)
              ELSE IF At(d, i, Backslash) THEN Rest(d, "stateInStringEsc", i + 1)
              ELSE IF At(d, i, Control) \/ i > Len(d) THEN None
              ELSE Rest(d, "stateInString", i + 1)
         /\ Rest(d, "stateInStringEsc", i) =
              IF At(d, i, Escapable) THEN Rest(d, "stateInString", i + 1)
              ELSE IF At(d, i, {"u"}) THEN Rest(d, "stateInStringEscU", i + 1) ELSE None
         /\ Rest(d, "stateInStringEscU", i) =
              IF At(d, i, Hex) THEN Rest(d, "stateInStringEscU1", i + 1) ELSE None
         /\ Rest(d, "stateInStringEscU1", i) =
              IF At(d, i, Hex) THEN Rest(d, "stateInStringEscU12", i + 1) ELSE None
         /\ Rest(d, "stateInStringEscU12", i) =
              IF At(d, i, Hex) THEN Rest(d, "stateInStringEscU123", i + 1) ELSE None
         /\ Rest(d, "stateInStringEscU123", i) =
              IF At(d, i, Hex) THEN Rest(d, "stateInString", i + 1) ELSE None
<1>1. \A j : /\ Rest(d, "stateInString", j) = Quoted(d, One(j))
             /\ Rest(d, "stateInStringEsc", j) = Quoted(d, Escaped(d, One(j)))
             /\ Rest(d, "stateInStringEscU", j) =
                  Quoted(d, HexDigit(d, HexDigit(d, HexDigit(d, HexDigit(d, One(j))))))
             /\ Rest(d, "stateInStringEscU1", j) =
                  Quoted(d, HexDigit(d, HexDigit(d, HexDigit(d, One(j)))))
             /\ Rest(d, "stateInStringEscU12", j) = Quoted(d, HexDigit(d, HexDigit(d, One(j))))
             /\ Rest(d, "stateInStringEscU123", j) = Quoted(d, HexDigit(d, One(j)))
  BY DEF Rest
<1>2. HexDigit(d, One(i)) = IF At(d, i, Hex) THEN One(i + 1) ELSE None
  BY HexShape, AfterOne
<1> DEFINE P == Phrases(d)
           C == Character(d, One(i))
<1>3. Quoted(d, One(i)) = Both(After(d, One(i), QuotationMark), Quoted(d, C))
  <2>1. "characters" \in Nonterminals
    BY DEF Nonterminals
  <2>2. P[i]["characters"] = Both(One(i), From(P, "characters", C))
    BY <2>1, PhrasesRule, RuleShape DEF Position
  <2>3. From(P, "characters", One(i)) = P[i]["characters"]
    BY FromBoth
  <2> HIDE DEF C, P
  <2>4. \A J : Quoted(d, J) = After(d, From(P, "characters", J), QuotationMark)
    BY DEF Quoted, P
  <2> QED BY <2>2, <2>3, <2>4, AfterBoth
<1>4. After(d, One(i), QuotationMark) = IF At(d, i, QuotationMark) THEN One(i + 1) ELSE None
  BY AfterOne
<1>5. Quoted(d, None) = None
  BY QuotedBoth
<1>6. Rest(d, "stateInString", i) =
        IF At(d, i, QuotationMark) THEN One(i + 1)
        ELSE IF At(d, i, Backslash) THEN Rest(d, "stateInStringEsc", i + 1)
        ELSE IF At(d, i, Control) \/ i > Len(d) THEN None
        ELSE Rest(d, "stateInString", i + 1)
  <2>1. /\ At(d, i, QuotationMark) \/ At(d, i, Control) \/ i > Len(d) => C = None
        /\ At(d, i, Backslash) => C = Escaped(d, One(i + 1))
        /\ i <= Len(d) /\ ~At(d, i, QuotationMark) /\ ~At(d, i, Control) /\ ~At(d, i, Backslash)
             => C = One(i + 1)
    BY CharacterOne
  <2>2. /\ At(d, i, Backslash) => ~At(d, i, Control) /\ ~At(d, i, QuotationMark) /\ ~(i > Len(d))
        /\ ~(i > Len(d)) => i <= Len(d)
    BY StringBytes DEF At, Position
  <2> HIDE DEF C
  <2> QED BY <1>1, <1>3, <1>4, <1>5, <2>1, <2>2, BothNone
<1>7. Rest(d, "stateInStringEsc", i) =
        IF At(d, i, Escapable) THEN Rest(d, "stateInString", i + 1)
        ELSE IF At(d, i, {"u"}) THEN Rest(d, "stateInStringEscU", i + 1) ELSE None
  <2> DEFINE u == {"u"}
  <2>1. /\ At(d, i, Escapable) => Escaped(d, One(i)) = One(i + 1)
        /\ At(d, i, u) => Escaped(d, One(i)) =
             HexDigit(d, HexDigit(d, HexDigit(d, HexDigit(d, One(i + 1)))))
        /\ ~At(d, i, Escapable) /\ ~At(d, i, u) => Escaped(d, One(i)) = None
    BY EscapedOne
  <2> HIDE DEF u
  <2>2. Rest(d, "stateInStringEsc", i) =
          IF At(d, i, Escapable) THEN Rest(d, "stateInString", i + 1)
          ELSE IF At(d, i, u) THEN Rest(d, "stateInStringEscU", i + 1) ELSE None
    BY <1>1, <1>5, <2>1
  <2> QED BY <2>2 DEF u
<1> QED BY <1>1, <1>2, <1>5, <1>6, <1>7, HexNone

\* The word v is w without its first byte.
Tails(w, v) ==
    /\ Len(v) \in Nat /\ Len(w) = Len(v) + 1
    /\ DOMAIN w = 1..Len(w) /\ DOMAIN v = 1..Len(v)
    /\ \A k \in 1..Len(v) : v[k] = w[k + 1]

\* A word, from its first byte.
LEMMA WordTail ==
  ASSUME NEW d, NEW i, Position(d, i), NEW w, NEW v, Tails(w, v)
  PROVE  Word(d, One(i), w) = IF At(d, i, {w[1]}) THEN Word(d, One(i + 1), v) ELSE None
<1> DEFINE fits(j, x) == /\ j + Len(x) <= Len(d) + 1
                         /\ \A k \in DOMAIN x : d[j + k - 1] = x[k]
<1>1. \A j, x : Word(d, One(j), x) = IF fits(j, x) THEN One(j + Len(x)) ELSE None
  BY DEF Word, One, None
<1>2. i + Len(w) = i + 1 + Len(v)
  BY DEF Position, Tails
<1>3. fits(i, w) <=> At(d, i, {w[1]}) /\ fits(i + 1, v)
  <2>1. ASSUME fits(i, w) PROVE At(d, i, {w[1]}) /\ fits(i + 1, v)
    <3>1. 1 \in DOMAIN w /\ i + 1 - 1 = i
      BY DEF Tails, Position
    <3>2. i <= Len(d)
      BY <2>1 DEF Position, Tails
    <3>3. ASSUME NEW k \in DOMAIN v PROVE d[i + 1 + k - 1] = v[k]
      <4>1. k + 1 \in DOMAIN w /\ i + (k + 1) - 1 = i + 1 + k - 1
        BY DEF Tails, Position
      <4>2. d[i + (k + 1) - 1] = w[k + 1]
        BY <2>1, <4>1
      <4> QED BY <4>1, <4>2 DEF Tails
    <3>4. i + 1 + Len(v) <= Len(d) + 1
      BY <1>2, <2>1
    <3>5. d[i] = w[1]
      BY <2>1, <3>1
    <3> QED BY <3>2, <3>3, <3>4, <3>5 DEF At
  <2>2. ASSUME At(d, i, {w[1]}), fits(i + 1, v) PROVE fits(i, w)
    <3>1. ASSUME NEW k \in DOMAIN w PROVE d[i + k - 1] = w[k]
      <4>1. CASE k = 1
        <5>1. i + 1 - 1 = i
          BY DEF Position
        <5> QED BY <2>2, <4>1, <5>1 DEF At
      <4>2. CASE k # 1
        <5>1. k - 1 \in DOMAIN v /\ k - 1 + 1 = k /\ i + 1 + (k - 1) - 1 = i + k - 1
          BY <4>2 DEF Tails, Position
        <5>2. d[i + 1 + (k - 1) - 1] = v[k - 1] /\ v[k - 1] = w[k - 1 + 1]
          BY <2>2, <5>1 DEF Tails
        <5> QED BY <5>1, <5>2
      <4> QED BY <4>1, <4>2
    <3>2. i + Len(w) <= Len(d) + 1
      BY <1>2, <2>2
    <3> QED BY <3>1, <3>2
  <2> QED BY <2>1, <2>2
<1> HIDE DEF fits
<1> QED BY <1>1, <1>2, <1>3

\* The last byte of a word.
LEMMA WordEnd ==
  ASSUME NEW d, NEW i, Position(d, i), NEW c
  PROVE  Word(d, One(i), <<c>>) = IF At(d, i, {c}) THEN One(i + 1) ELSE None
<1>1. Len(<<c>>) = 1 /\ <<c>>[1] = c /\ DOMAIN <<c>> = {1}
  OBVIOUS
<1>2. i + 1 - 1 = i /\ (i + 1 <= Len(d) + 1 <=> i <= Len(d))
  BY DEF Position
<1> DEFINE w == <<c>>
<1>3. Len(w) = 1 /\ w[1] = c /\ DOMAIN w = {1}
  BY <1>1
<1> HIDE DEF w
<1>4. Word(d, One(i), w) = IF i + 1 <= Len(d) + 1 /\ d[i + 1 - 1] = c THEN One(i + 1) ELSE None
  BY <1>3 DEF Word, One, None
<1>5. Word(d, One(i), w) = IF At(d, i, {c}) THEN One(i + 1) ELSE None
  BY <1>2, <1>4 DEF At
<1> QED BY <1>5 DEF w

\* The words that literals are made of.
LEMMA TailsOf ==
  /\ \A a, b : Tails(<<a, b>>, <<b>>)
  /\ \A a, b, c : Tails(<<a, b, c>>, <<b, c>>)
  /\ \A a, b, c, e : Tails(<<a, b, c, e>>, <<b, c, e>>)
  /\ \A a, b, c, e, f : Tails(<<a, b, c, e, f>>, <<b, c, e, f>>)
<1>1. \A a, b : Tails(<<a, b>>, <<b>>)
  BY DEF Tails
<1>2. \A a, b, c : Tails(<<a, b, c>>, <<b, c>>)
  BY DEF Tails
<1>3. \A a, b, c, e : Tails(<<a, b, c, e>>, <<b, c, e>>)
  BY DEF Tails
<1>4. \A a, b, c, e, f : Tails(<<a, b, c, e, f>>, <<b, c, e, f>>)
  BY DEF Tails
<1> QED BY <1>1, <1>2, <1>3, <1>4

\* A word by its first byte.
LEMMA WordFirst ==
  ASSUME NEW d, NEW i, Position(d, i)
  PROVE  /\ \A a : Word(d, One(i), <<a>>) = IF At(d, i, {a}) THEN One(i + 1) ELSE None
         /\ \A a, b : Word(d, One(i), <<a, b>>) =
              IF At(d, i, {a}) THEN Word(d, One(i + 1), <<b>>) ELSE None
         /\ \A a, b, c : Word(d, One(i), <<a, b, c>>) =
              IF At(d, i, {a}) THEN Word(d, One(i + 1), <<b, c>>) ELSE None
         /\ \A a, b, c, e : Word(d, One(i), <<a, b, c, e>>) =
              IF At(d, i, {a}) THEN Word(d, One(i + 1), <<b, c, e>>) ELSE None
         /\ \A a, b, c, e, f : Word(d, One(i), <<a, b, c, e, f>>) =
              IF At(d, i, {a}) THEN Word(d, One(i + 1), <<b, c, e, f>>) ELSE None
<1>1. \A a : Word(d, One(i), <<a>>) = IF At(d, i, {a}) THEN One(i + 1) ELSE None
  BY WordEnd
<1>2. ASSUME NEW a, NEW b
      PROVE  Word(d, One(i), <<a, b>>) = IF At(d, i, {a}) THEN Word(d, One(i + 1), <<b>>) ELSE None
  <2> DEFINE w == <<a, b>>
             v == <<b>>
  <2>1. Tails(w, v)
    BY TailsOf
  <2>2. w[1] = a
    OBVIOUS
  <2> HIDE DEF w, v
  <2>3. Word(d, One(i), w) = IF At(d, i, {a}) THEN Word(d, One(i + 1), v) ELSE None
    BY <2>1, <2>2, WordTail
  <2> QED BY <2>3 DEF w, v
<1>3. ASSUME NEW a, NEW b, NEW c
      PROVE  Word(d, One(i), <<a, b, c>>) = IF At(d, i, {a}) THEN Word(d, One(i + 1), <<b, c>>) ELSE None
  <2> DEFINE w == <<a, b, c>>
             v == <<b, c>>
  <2>1. Tails(w, v)
    BY TailsOf
  <2>2. w[1] = a
    OBVIOUS
  <2> HIDE DEF w, v
  <2>3. Word(d, One(i), w) = IF At(d, i, {a}) THEN Word(d, One(i + 1), v) ELSE None
    BY <2>1, <2>2, WordTail
  <2> QED BY <2>3 DEF w, v
<1>4. ASSUME NEW a, NEW b, NEW c, NEW e
      PROVE  Word(d, One(i), <<a, b, c, e>>) = IF At(d, i, {a}) THEN Word(d, One(i + 1), <<b, c, e>>) ELSE None
  <2> DEFINE w == <<a, b, c, e>>
             v == <<b, c, e>>
  <2>1. Tails(w, v)
    BY TailsOf
  <2>2. w[1] = a
    OBVIOUS
  <2> HIDE DEF w, v
  <2>3. Word(d, One(i), w) = IF At(d, i, {a}) THEN Word(d, One(i + 1), v) ELSE None
    BY <2>1, <2>2, WordTail
  <2> QED BY <2>3 DEF w, v
<1>5. ASSUME NEW a, NEW b, NEW c, NEW e, NEW f
      PROVE  Word(d, One(i), <<a, b, c, e, f>>)
               = IF At(d, i, {a}) THEN Word(d, One(i + 1), <<b, c, e, f>>) ELSE None
  <2> DEFINE w == <<a, b, c, e, f>>
             v == <<b, c, e, f>>
  <2>1. Tails(w, v)
    BY TailsOf
  <2>2. w[1] = a
    OBVIOUS
  <2> HIDE DEF w, v
  <2>3. Word(d, One(i), w) = IF At(d, i, {a}) THEN Word(d, One(i + 1), v) ELSE None
    BY <2>1, <2>2, WordTail
  <2> QED BY <2>3 DEF w, v
<1> QED BY <1>1, <1>2, <1>3, <1>4, <1>5

\* The rest of a literal, byte by byte.
LEMMA LiteralTRest ==
  ASSUME NEW d, NEW i, Position(d, i)
  PROVE  /\ Word(d, One(i), <<"t", "r", "u", "e">>) =
              IF At(d, i, {"t"}) THEN Rest(d, "stateT", i + 1) ELSE None
         /\ Rest(d, "stateT", i) = IF At(d, i, {"r"}) THEN Rest(d, "stateTr", i + 1) ELSE None
         /\ Rest(d, "stateTr", i) = IF At(d, i, {"u"}) THEN Rest(d, "stateTru", i + 1) ELSE None
         /\ Rest(d, "stateTru", i) = IF At(d, i, {"e"}) THEN One(i + 1) ELSE None
<1> DEFINE w0 == <<"t", "r", "u", "e">>
           w1 == <<"r", "u", "e">>
           w2 == <<"u", "e">>
           w3 == <<"e">>
           b0 == {"t"}
           b1 == {"r"}
           b2 == {"u"}
           b3 == {"e"}
<1>1. /\ Word(d, One(i), w0) = IF At(d, i, b0) THEN Word(d, One(i + 1), w1) ELSE None
      /\ Word(d, One(i), w1) = IF At(d, i, b1) THEN Word(d, One(i + 1), w2) ELSE None
      /\ Word(d, One(i), w2) = IF At(d, i, b2) THEN Word(d, One(i + 1), w3) ELSE None
      /\ Word(d, One(i), w3) = IF At(d, i, b3) THEN One(i + 1) ELSE None
  BY WordFirst
<1>2. \A j : /\ Rest(d, "stateT", j) = Word(d, One(j), w1)
             /\ Rest(d, "stateTr", j) = Word(d, One(j), w2)
             /\ Rest(d, "stateTru", j) = Word(d, One(j), w3)
  BY DEF Rest
<1> HIDE DEF w0, w1, w2, w3, b0, b1, b2, b3
<1>3. /\ Word(d, One(i), w0) = IF At(d, i, b0) THEN Rest(d, "stateT", i + 1) ELSE None
      /\ Rest(d, "stateT", i) = IF At(d, i, b1) THEN Rest(d, "stateTr", i + 1) ELSE None
      /\ Rest(d, "stateTr", i) = IF At(d, i, b2) THEN Rest(d, "stateTru", i + 1) ELSE None
      /\ Rest(d, "stateTru", i) = IF At(d, i, b3) THEN One(i + 1) ELSE None
  BY <1>1, <1>2
<1> QED BY <1>3 DEF w0, w1, w2, w3, b0, b1, b2, b3

\* The same of false.
LEMMA LiteralFRest ==
  ASSUME NEW d, NEW i, Position(d, i)
  PROVE  /\ Word(d, One(i), <<"f", "a", "l", "s", "e">>) =
              IF At(d, i, {"f"}) THEN Rest(d, "stateF", i + 1) ELSE None
         /\ Rest(d, "stateF", i) = IF At(d, i, {"a"}) THEN Rest(d, "stateFa", i + 1) ELSE None
         /\ Rest(d, "stateFa", i) = IF At(d, i, {"l"}) THEN Rest(d, "stateFal", i + 1) ELSE None
         /\ Rest(d, "stateFal", i) = IF At(d, i, {"s"}) THEN Rest(d, "stateFals", i + 1) ELSE None
         /\ Rest(d, "stateFals", i) = IF At(d, i, {"e"}) THEN One(i + 1) ELSE None
<1> DEFINE w0 == <<"f", "a", "l", "s", "e">>
           w1 == <<"a", "l", "s", "e">>
           w2 == <<"l", "s", "e">>
           w3 == <<"s", "e">>
           w4 == <<"e">>
           b0 == {"f"}
           b1 == {"a"}
           b2 == {"l"}
           b3 == {"s"}
           b4 == {"e"}
<1>1. /\ Word(d, One(i), w0) = IF At(d, i, b0) THEN Word(d, One(i + 1), w1) ELSE None
      /\ Word(d, One(i), w1) = IF At(d, i, b1) THEN Word(d, One(i + 1), w2) ELSE None
      /\ Word(d, One(i), w2) = IF At(d, i, b2) THEN Word(d, One(i + 1), w3) ELSE None
      /\ Word(d, One(i), w3) = IF At(d, i, b3) THEN Word(d, One(i + 1), w4) ELSE None
      /\ Word(d, One(i), w4) = IF At(d, i, b4) THEN One(i + 1) ELSE None
  BY WordFirst
<1>2. \A j : /\ Rest(d, "stateF", j) = Word(d, One(j), w1)
             /\ Rest(d, "stateFa", j) = Word(d, One(j), w2)
             /\ Rest(d, "stateFal", j) = Word(d, One(j), w3)
             /\ Rest(d, "stateFals", j) = Word(d, One(j), w4)
  BY DEF Rest
<1> HIDE DEF w0, w1, w2, w3, w4, b0, b1, b2, b3, b4
<1>3. /\ Word(d, One(i), w0) = IF At(d, i, b0) THEN Rest(d, "stateF", i + 1) ELSE None
      /\ Rest(d, "stateF", i) = IF At(d, i, b1) THEN Rest(d, "stateFa", i + 1) ELSE None
      /\ Rest(d, "stateFa", i) = IF At(d, i, b2) THEN Rest(d, "stateFal", i + 1) ELSE None
      /\ Rest(d, "stateFal", i) = IF At(d, i, b3) THEN Rest(d, "stateFals", i + 1) ELSE None
      /\ Rest(d, "stateFals", i) = IF At(d, i, b4) THEN One(i + 1) ELSE None
  BY <1>1, <1>2
<1> QED BY <1>3 DEF w0, w1, w2, w3, w4, b0, b1, b2, b3, b4

\* The same of null.
LEMMA LiteralNRest ==
  ASSUME NEW d, NEW i, Position(d, i)
  PROVE  /\ Word(d, One(i), <<"n", "u", "l", "l">>) =
              IF At(d, i, {"n"}) THEN Rest(d, "stateN", i + 1) ELSE None
         /\ Rest(d, "stateN", i) = IF At(d, i, {"u"}) THEN Rest(d, "stateNu", i + 1) ELSE None
         /\ Rest(d, "stateNu", i) = IF At(d, i, {"l"}) THEN Rest(d, "stateNul", i + 1) ELSE None
         /\ Rest(d, "stateNul", i) = IF At(d, i, {"l"}) THEN One(i + 1) ELSE None
<1> DEFINE w0 == <<"n", "u", "l", "l">>
           w1 == <<"u", "l", "l">>
           w2 == <<"l", "l">>
           w3 == <<"l">>
           b0 == {"n"}
           b1 == {"u"}
           b2 == {"l"}
           b3 == {"l"}
<1>1. /\ Word(d, One(i), w0) = IF At(d, i, b0) THEN Word(d, One(i + 1), w1) ELSE None
      /\ Word(d, One(i), w1) = IF At(d, i, b1) THEN Word(d, One(i + 1), w2) ELSE None
      /\ Word(d, One(i), w2) = IF At(d, i, b2) THEN Word(d, One(i + 1), w3) ELSE None
      /\ Word(d, One(i), w3) = IF At(d, i, b3) THEN One(i + 1) ELSE None
  BY WordFirst
<1>2. \A j : /\ Rest(d, "stateN", j) = Word(d, One(j), w1)
             /\ Rest(d, "stateNu", j) = Word(d, One(j), w2)
             /\ Rest(d, "stateNul", j) = Word(d, One(j), w3)
  BY DEF Rest
<1> HIDE DEF w0, w1, w2, w3, b0, b1, b2, b3
<1>3. /\ Word(d, One(i), w0) = IF At(d, i, b0) THEN Rest(d, "stateN", i + 1) ELSE None
      /\ Rest(d, "stateN", i) = IF At(d, i, b1) THEN Rest(d, "stateNu", i + 1) ELSE None
      /\ Rest(d, "stateNu", i) = IF At(d, i, b2) THEN Rest(d, "stateNul", i + 1) ELSE None
      /\ Rest(d, "stateNul", i) = IF At(d, i, b3) THEN One(i + 1) ELSE None
  BY <1>1, <1>2
<1> QED BY <1>3 DEF w0, w1, w2, w3, b0, b1, b2, b3

\* Strings and brackets by their first byte.
LEMMA OpensOne ==
  ASSUME NEW d, NEW i, Position(d, i)
  PROVE  /\ String(d, One(i)) =
              IF At(d, i, QuotationMark) THEN Rest(d, "stateInString", i + 1) ELSE None
         /\ ArrayBy(d, Phrases(d), One(i)) =
              IF At(d, i, BeginArray) THEN Rest(d, "stateBeginValueOrEmpty", i + 1) ELSE None
         /\ ObjectBy(d, Phrases(d), One(i)) =
              IF At(d, i, BeginObject) THEN Rest(d, "stateBeginStringOrEmpty", i + 1) ELSE None
<1> DEFINE P == Phrases(d)
           J == Space(d, One(i + 1))
<1>1. Rest(d, "stateInString", i + 1) = Quoted(d, One(i + 1))
  BY DEF Rest
<1>2. /\ \A I : String(d, I) = StringBy(d, P, I) /\ Value(d, I) = ValueBy(d, P, I)
      /\ \A I : Quoted(d, I) = After(d, From(P, "characters", I), QuotationMark)
      /\ \A I : Elements(d, I) = After(d, ListBy(d, P, "elements", I), EndArray)
      /\ \A I : Members(d, I) = After(d, ListBy(d, P, "members", I), EndObject)
  BY DEF String, Value, Quoted, Elements, Members
<1>3. Rest(d, "stateBeginValueOrEmpty", i + 1) =
        Both(After(d, J, EndArray), Elements(d, Value(d, J)))
  BY DEF Rest
<1>4. Rest(d, "stateBeginStringOrEmpty", i + 1) =
        Both(After(d, J, EndObject), Members(d, Named(d, String(d, J))))
  BY DEF Rest
<1>5. \A I : MemberBy(d, P, I) = Named(d, String(d, I))
  BY MemberShape DEF Named, String, Value
<1>6. ASSUME Position(d, i + 1)
      PROVE  /\ P[i + 1]["elements"] = ListBy(d, P, "elements", ValueBy(d, P, J))
             /\ P[i + 1]["members"] = ListBy(d, P, "members", MemberBy(d, P, J))
  <2>1. "elements" \in Nonterminals /\ "members" \in Nonterminals
    BY DEF Nonterminals
  <2> QED BY <1>6, <2>1, PhrasesRule, RuleShape DEF Position
<1>7. \A C : At(d, i, C) => Position(d, i + 1)
  BY NextPosition
<1> HIDE DEF P, J
<1>8. /\ From(P, "elements", One(i + 1)) = P[i + 1]["elements"]
      /\ From(P, "members", One(i + 1)) = P[i + 1]["members"]
      /\ From(P, "elements", None) = None /\ From(P, "members", None) = None
      /\ From(P, "characters", None) = None
  BY FromBoth
<1>9. String(d, One(i)) = IF At(d, i, QuotationMark) THEN Rest(d, "stateInString", i + 1) ELSE None
  BY <1>1, <1>2, <1>8, StringShape, AfterOne, AfterBoth
<1>10. ArrayBy(d, P, One(i)) =
         IF At(d, i, BeginArray) THEN Rest(d, "stateBeginValueOrEmpty", i + 1) ELSE None
  <2>1. CASE At(d, i, BeginArray)
    <3>1. After(d, One(i), BeginArray) = One(i + 1)
      BY <2>1, AfterOne
    <3>2. ArrayBy(d, P, One(i)) = After(d, Both(J, From(P, "elements", One(i + 1))), EndArray)
      BY <3>1, ArrayShape DEF J
    <3>3. ArrayBy(d, P, One(i)) = After(d, Both(J, ListBy(d, P, "elements", ValueBy(d, P, J))), EndArray)
      BY <1>6, <1>7, <1>8, <2>1, <3>2
    <3> QED BY <1>2, <1>3, <2>1, <3>3, AfterBoth
  <2>2. CASE ~At(d, i, BeginArray)
    BY <1>8, <2>2, ArrayShape, AfterOne, AfterBoth, SpaceBoth, BothNone
  <2> QED BY <2>1, <2>2
<1>11. ObjectBy(d, P, One(i)) =
         IF At(d, i, BeginObject) THEN Rest(d, "stateBeginStringOrEmpty", i + 1) ELSE None
  <2>1. CASE At(d, i, BeginObject)
    <3>1. After(d, One(i), BeginObject) = One(i + 1)
      BY <2>1, AfterOne
    <3>2. ObjectBy(d, P, One(i)) = After(d, Both(J, From(P, "members", One(i + 1))), EndObject)
      BY <3>1, ObjectShape DEF J
    <3>3. ObjectBy(d, P, One(i)) = After(d, Both(J, ListBy(d, P, "members", MemberBy(d, P, J))), EndObject)
      BY <1>6, <1>7, <1>8, <2>1, <3>2
    <3> QED BY <1>2, <1>4, <1>5, <2>1, <3>3, AfterBoth
  <2>2. CASE ~At(d, i, BeginObject)
    BY <1>8, <2>2, ObjectShape, AfterOne, AfterBoth, SpaceBoth, BothNone
  <2> QED BY <2>1, <2>2
<1> QED BY <1>9, <1>10, <1>11 DEF P

\* The bytes that may begin a value, and the space before it.
LEMMA FirstBytes ==
  \A c : /\ c \in Blank =>
              /\ c \notin QuotationMark /\ c \notin BeginArray /\ c \notin BeginObject /\ c \notin Minus
              /\ c \notin DigitZero /\ c \notin DigitNonzero /\ c \notin {"t"} /\ c \notin {"f"}
              /\ c \notin {"n"} /\ c \notin EndArray /\ c \notin EndObject
         /\ c \in QuotationMark =>
              /\ c \notin BeginArray /\ c \notin BeginObject /\ c \notin Minus /\ c \notin DigitZero
              /\ c \notin DigitNonzero /\ c \notin {"t"} /\ c \notin {"f"} /\ c \notin {"n"}
              /\ c \notin EndArray /\ c \notin EndObject
         /\ c \in BeginArray =>
              /\ c \notin BeginObject /\ c \notin Minus /\ c \notin DigitZero /\ c \notin DigitNonzero
              /\ c \notin {"t"} /\ c \notin {"f"} /\ c \notin {"n"} /\ c \notin EndArray
              /\ c \notin EndObject
         /\ c \in BeginObject =>
              /\ c \notin Minus /\ c \notin DigitZero /\ c \notin DigitNonzero /\ c \notin {"t"}
              /\ c \notin {"f"} /\ c \notin {"n"} /\ c \notin EndArray /\ c \notin EndObject
         /\ c \in Minus =>
              /\ c \notin DigitZero /\ c \notin DigitNonzero /\ c \notin {"t"} /\ c \notin {"f"}
              /\ c \notin {"n"} /\ c \notin EndArray /\ c \notin EndObject
         /\ c \in DigitZero =>
              /\ c \notin DigitNonzero /\ c \notin {"t"} /\ c \notin {"f"} /\ c \notin {"n"}
              /\ c \notin EndArray /\ c \notin EndObject
         /\ c \in DigitNonzero =>
              /\ c \notin {"t"} /\ c \notin {"f"} /\ c \notin {"n"} /\ c \notin EndArray
              /\ c \notin EndObject
         /\ c \in {"t"} =>
              /\ c \notin {"f"} /\ c \notin {"n"} /\ c \notin EndArray /\ c \notin EndObject
         /\ c \in {"f"} =>
              /\ c \notin {"n"} /\ c \notin EndArray /\ c \notin EndObject
         /\ c \in {"n"} =>
              /\ c \notin EndArray /\ c \notin EndObject
         /\ c \in EndArray =>
              /\ c \notin EndObject
<1>1. \A c : c \in Blank =>
                   /\ c \notin QuotationMark /\ c \notin BeginArray /\ c \notin BeginObject /\ c \notin Minus
                   /\ c \notin DigitZero /\ c \notin DigitNonzero /\ c \notin {"t"} /\ c \notin {"f"}
                   /\ c \notin {"n"} /\ c \notin EndArray /\ c \notin EndObject
  BY Zenon DEF Blank, QuotationMark, BeginArray, BeginObject, Minus, DigitZero, DigitNonzero, EndArray, EndObject
<1>2. \A c : c \in QuotationMark =>
                   /\ c \notin BeginArray /\ c \notin BeginObject /\ c \notin Minus /\ c \notin DigitZero
                   /\ c \notin DigitNonzero /\ c \notin {"t"} /\ c \notin {"f"} /\ c \notin {"n"}
                   /\ c \notin EndArray /\ c \notin EndObject
  BY Zenon DEF QuotationMark, BeginArray, BeginObject, Minus, DigitZero, DigitNonzero, EndArray, EndObject
<1>3. \A c : c \in BeginArray =>
                   /\ c \notin BeginObject /\ c \notin Minus /\ c \notin DigitZero /\ c \notin DigitNonzero
                   /\ c \notin {"t"} /\ c \notin {"f"} /\ c \notin {"n"} /\ c \notin EndArray
                   /\ c \notin EndObject
  BY Zenon DEF BeginArray, BeginObject, Minus, DigitZero, DigitNonzero, EndArray, EndObject
<1>4. \A c : c \in BeginObject =>
                   /\ c \notin Minus /\ c \notin DigitZero /\ c \notin DigitNonzero /\ c \notin {"t"}
                   /\ c \notin {"f"} /\ c \notin {"n"} /\ c \notin EndArray /\ c \notin EndObject
  BY Zenon DEF BeginObject, Minus, DigitZero, DigitNonzero, EndArray, EndObject
<1>5. \A c : c \in Minus =>
                   /\ c \notin DigitZero /\ c \notin DigitNonzero /\ c \notin {"t"} /\ c \notin {"f"}
                   /\ c \notin {"n"} /\ c \notin EndArray /\ c \notin EndObject
  BY Zenon DEF Minus, DigitZero, DigitNonzero, EndArray, EndObject
<1>6. \A c : c \in DigitZero =>
                   /\ c \notin DigitNonzero /\ c \notin {"t"} /\ c \notin {"f"} /\ c \notin {"n"}
                   /\ c \notin EndArray /\ c \notin EndObject
  BY Zenon DEF DigitZero, DigitNonzero, EndArray, EndObject
<1>7. \A c : c \in DigitNonzero =>
                   /\ c \notin {"t"} /\ c \notin {"f"} /\ c \notin {"n"} /\ c \notin EndArray
                   /\ c \notin EndObject
  BY Zenon DEF DigitNonzero, EndArray, EndObject
<1>8. \A c : c \in {"t"} =>
                   /\ c \notin {"f"} /\ c \notin {"n"} /\ c \notin EndArray /\ c \notin EndObject
  BY Zenon DEF EndArray, EndObject
<1>9. \A c : c \in {"f"} =>
                   /\ c \notin {"n"} /\ c \notin EndArray /\ c \notin EndObject
  BY Zenon DEF EndArray, EndObject
<1>10. \A c : c \in {"n"} =>
                   /\ c \notin EndArray /\ c \notin EndObject
  BY Zenon DEF EndArray, EndObject
<1>11. \A c : c \in EndArray =>
                   /\ c \notin EndObject
  BY Zenon DEF EndArray, EndObject
<1> QED BY <1>1, <1>2, <1>3, <1>4, <1>5, <1>6, <1>7, <1>8, <1>9, <1>10, <1>11, Zenon

\* A value by its first byte.
LEMMA ValueFirst ==
  ASSUME NEW d, NEW i, Position(d, i)
  PROVE  /\ At(d, i, QuotationMark) => Value(d, One(i)) = Rest(d, "stateInString", i + 1)
         /\ At(d, i, BeginArray) => Value(d, One(i)) = Rest(d, "stateBeginValueOrEmpty", i + 1)
         /\ At(d, i, BeginObject) => Value(d, One(i)) = Rest(d, "stateBeginStringOrEmpty", i + 1)
         /\ At(d, i, Minus) => Value(d, One(i)) = Rest(d, "stateNeg", i + 1)
         /\ At(d, i, DigitZero) => Value(d, One(i)) = Rest(d, "state0", i + 1)
         /\ At(d, i, DigitNonzero) => Value(d, One(i)) = Rest(d, "state1", i + 1)
         /\ At(d, i, {"t"}) => Value(d, One(i)) = Rest(d, "stateT", i + 1)
         /\ At(d, i, {"f"}) => Value(d, One(i)) = Rest(d, "stateF", i + 1)
         /\ At(d, i, {"n"}) => Value(d, One(i)) = Rest(d, "stateN", i + 1)
         /\ /\ ~At(d, i, QuotationMark) /\ ~At(d, i, BeginArray) /\ ~At(d, i, BeginObject) /\ ~At(d, i, Minus)
            /\ ~At(d, i, DigitZero) /\ ~At(d, i, DigitNonzero) /\ ~At(d, i, {"t"}) /\ ~At(d, i, {"f"})
            /\ ~At(d, i, {"n"})
            => Value(d, One(i)) = None
         /\ At(d, i, Blank) \/ At(d, i, EndArray) \/ At(d, i, EndObject) => Value(d, One(i)) = None
<1> DEFINE t == {"t"}
           f == {"f"}
           n == {"n"}
           A == ArrayBy(d, Phrases(d), One(i))
           O == ObjectBy(d, Phrases(d), One(i))
           W1 == Word(d, One(i), <<"t", "r", "u", "e">>)
           W2 == Word(d, One(i), <<"f", "a", "l", "s", "e">>)
           W3 == Word(d, One(i), <<"n", "u", "l", "l">>)
<1>1. Value(d, One(i)) = Both(Both(Number(d, One(i)), String(d, One(i))), Both(Both(A, O), Both(W1, Both(W2, W3))))
  BY ValueShape DEF Value, String, Literals
<1>2. /\ W1 = IF At(d, i, t) THEN Rest(d, "stateT", i + 1) ELSE None
      /\ W2 = IF At(d, i, f) THEN Rest(d, "stateF", i + 1) ELSE None
      /\ W3 = IF At(d, i, n) THEN Rest(d, "stateN", i + 1) ELSE None
  BY LiteralTRest, LiteralFRest, LiteralNRest
<1>3. /\ A = IF At(d, i, BeginArray) THEN Rest(d, "stateBeginValueOrEmpty", i + 1) ELSE None
      /\ O = IF At(d, i, BeginObject) THEN Rest(d, "stateBeginStringOrEmpty", i + 1) ELSE None
      /\ String(d, One(i)) = IF At(d, i, QuotationMark) THEN Rest(d, "stateInString", i + 1) ELSE None
  BY OpensOne
<1>4. Number(d, One(i)) =
        IF At(d, i, Minus) THEN Rest(d, "stateNeg", i + 1)
        ELSE IF At(d, i, DigitZero) THEN Rest(d, "state0", i + 1)
        ELSE IF At(d, i, DigitNonzero) THEN Rest(d, "state1", i + 1) ELSE None
  BY NumberFirst
<1>5. /\ At(d, i, Blank) =>
           /\ ~At(d, i, QuotationMark) /\ ~At(d, i, BeginArray) /\ ~At(d, i, BeginObject) /\ ~At(d, i, Minus)
           /\ ~At(d, i, DigitZero) /\ ~At(d, i, DigitNonzero) /\ ~At(d, i, t) /\ ~At(d, i, f)
           /\ ~At(d, i, n) /\ ~At(d, i, EndArray) /\ ~At(d, i, EndObject)
      /\ At(d, i, QuotationMark) =>
           /\ ~At(d, i, BeginArray) /\ ~At(d, i, BeginObject) /\ ~At(d, i, Minus) /\ ~At(d, i, DigitZero)
           /\ ~At(d, i, DigitNonzero) /\ ~At(d, i, t) /\ ~At(d, i, f) /\ ~At(d, i, n)
           /\ ~At(d, i, EndArray) /\ ~At(d, i, EndObject)
      /\ At(d, i, BeginArray) =>
           /\ ~At(d, i, BeginObject) /\ ~At(d, i, Minus) /\ ~At(d, i, DigitZero) /\ ~At(d, i, DigitNonzero)
           /\ ~At(d, i, t) /\ ~At(d, i, f) /\ ~At(d, i, n) /\ ~At(d, i, EndArray)
           /\ ~At(d, i, EndObject)
      /\ At(d, i, BeginObject) =>
           /\ ~At(d, i, Minus) /\ ~At(d, i, DigitZero) /\ ~At(d, i, DigitNonzero) /\ ~At(d, i, t)
           /\ ~At(d, i, f) /\ ~At(d, i, n) /\ ~At(d, i, EndArray) /\ ~At(d, i, EndObject)
      /\ At(d, i, Minus) =>
           /\ ~At(d, i, DigitZero) /\ ~At(d, i, DigitNonzero) /\ ~At(d, i, t) /\ ~At(d, i, f)
           /\ ~At(d, i, n) /\ ~At(d, i, EndArray) /\ ~At(d, i, EndObject)
      /\ At(d, i, DigitZero) =>
           /\ ~At(d, i, DigitNonzero) /\ ~At(d, i, t) /\ ~At(d, i, f) /\ ~At(d, i, n)
           /\ ~At(d, i, EndArray) /\ ~At(d, i, EndObject)
      /\ At(d, i, DigitNonzero) =>
           /\ ~At(d, i, t) /\ ~At(d, i, f) /\ ~At(d, i, n) /\ ~At(d, i, EndArray)
           /\ ~At(d, i, EndObject)
      /\ At(d, i, t) =>
           /\ ~At(d, i, f) /\ ~At(d, i, n) /\ ~At(d, i, EndArray) /\ ~At(d, i, EndObject)
      /\ At(d, i, f) =>
           /\ ~At(d, i, n) /\ ~At(d, i, EndArray) /\ ~At(d, i, EndObject)
      /\ At(d, i, n) =>
           /\ ~At(d, i, EndArray) /\ ~At(d, i, EndObject)
      /\ At(d, i, EndArray) =>
           /\ ~At(d, i, EndObject)
  BY FirstBytes, Zenon DEF At
<1> HIDE DEF t, f, n, A, O, W1, W2, W3
<1>6. At(d, i, QuotationMark) => Value(d, One(i)) = Rest(d, "stateInString", i + 1)
  BY <1>1, <1>2, <1>3, <1>4, <1>5, BothNone
<1>7. At(d, i, BeginArray) => Value(d, One(i)) = Rest(d, "stateBeginValueOrEmpty", i + 1)
  BY <1>1, <1>2, <1>3, <1>4, <1>5, BothNone
<1>8. At(d, i, BeginObject) => Value(d, One(i)) = Rest(d, "stateBeginStringOrEmpty", i + 1)
  BY <1>1, <1>2, <1>3, <1>4, <1>5, BothNone
<1>9. At(d, i, Minus) => Value(d, One(i)) = Rest(d, "stateNeg", i + 1)
  BY <1>1, <1>2, <1>3, <1>4, <1>5, BothNone
<1>10. At(d, i, DigitZero) => Value(d, One(i)) = Rest(d, "state0", i + 1)
  BY <1>1, <1>2, <1>3, <1>4, <1>5, BothNone
<1>11. At(d, i, DigitNonzero) => Value(d, One(i)) = Rest(d, "state1", i + 1)
  BY <1>1, <1>2, <1>3, <1>4, <1>5, BothNone
<1>12. At(d, i, t) => Value(d, One(i)) = Rest(d, "stateT", i + 1)
  BY <1>1, <1>2, <1>3, <1>4, <1>5, BothNone
<1>13. At(d, i, f) => Value(d, One(i)) = Rest(d, "stateF", i + 1)
  BY <1>1, <1>2, <1>3, <1>4, <1>5, BothNone
<1>14. At(d, i, n) => Value(d, One(i)) = Rest(d, "stateN", i + 1)
  BY <1>1, <1>2, <1>3, <1>4, <1>5, BothNone
<1>15. /\ ~At(d, i, QuotationMark) /\ ~At(d, i, BeginArray) /\ ~At(d, i, BeginObject) /\ ~At(d, i, Minus)
      /\ ~At(d, i, DigitZero) /\ ~At(d, i, DigitNonzero) /\ ~At(d, i, t) /\ ~At(d, i, f)
      /\ ~At(d, i, n)
      => Value(d, One(i)) = None
  BY <1>1, <1>2, <1>3, <1>4, BothNone
<1>16. At(d, i, Blank) \/ At(d, i, EndArray) \/ At(d, i, EndObject) => Value(d, One(i)) = None
  BY <1>5, <1>15
<1> QED BY <1>6, <1>7, <1>8, <1>9, <1>10, <1>11, <1>12, <1>13, <1>14, <1>15, <1>16 DEF t, f, n

\* The rest of an array or an object takes a union to a union.
LEMMA PartsBoth ==
  /\ \A d, A, B : Value(d, Both(A, B)) = Both(Value(d, A), Value(d, B))
  /\ \A d, A, B : String(d, Both(A, B)) = Both(String(d, A), String(d, B))
  /\ \A d, A, B : Elements(d, Both(A, B)) = Both(Elements(d, A), Elements(d, B))
  /\ \A d, A, B : Members(d, Both(A, B)) = Both(Members(d, A), Members(d, B))
  /\ \A d, A, B : Named(d, Both(A, B)) = Both(Named(d, A), Named(d, B))
  /\ \A d : /\ Value(d, None) = None /\ String(d, None) = None /\ Named(d, None) = None
            /\ Elements(d, None) = None /\ Members(d, None) = None
<1>1. /\ \A d, A, B : Value(d, Both(A, B)) = Both(Value(d, A), Value(d, B))
      /\ \A d : Value(d, None) = None
  BY ValueByBoth DEF Value
<1>2. /\ \A d, A, B : String(d, Both(A, B)) = Both(String(d, A), String(d, B))
      /\ \A d : String(d, None) = None
  BY StringByBoth DEF String
<1>3. /\ \A d, A, B : Elements(d, Both(A, B)) = Both(Elements(d, A), Elements(d, B))
      /\ \A d : Elements(d, None) = None
  BY ListByBoth, AfterBoth DEF Elements
<1>4. /\ \A d, A, B : Members(d, Both(A, B)) = Both(Members(d, A), Members(d, B))
      /\ \A d : Members(d, None) = None
  BY ListByBoth, AfterBoth DEF Members
<1>5. /\ \A d, A, B : Named(d, Both(A, B)) = Both(Named(d, A), Named(d, B))
      /\ \A d : Named(d, None) = None
  BY <1>1, SpaceBoth, AfterBoth DEF Named
<1> QED BY <1>1, <1>2, <1>3, <1>4, <1>5

\* Space, from its first byte.
LEMMA SpaceOne ==
  \A d, i : Position(d, i) =>
     /\ At(d, i, Blank) => Space(d, One(i)) = Both(One(i), Space(d, One(i + 1)))
     /\ ~At(d, i, Blank) => Space(d, One(i)) = One(i)
BY ManyFirst, SpaceShape

\* Where a value, a key or the first item of an array or an object is due.
LEMMA BeginRest ==
  ASSUME NEW d, NEW i, Position(d, i)
  PROVE  /\ Rest(d, "stateBeginValue", i) =
              IF At(d, i, Blank) THEN Rest(d, "stateBeginValue", i + 1) ELSE Value(d, One(i))
         /\ Rest(d, "stateBeginString", i) =
              IF At(d, i, Blank) THEN Rest(d, "stateBeginString", i + 1)
              ELSE IF At(d, i, QuotationMark) THEN Rest(d, "stateInString", i + 1) ELSE None
         /\ Rest(d, "stateBeginValueOrEmpty", i) =
              IF At(d, i, Blank) THEN Rest(d, "stateBeginValueOrEmpty", i + 1)
              ELSE IF At(d, i, EndArray) THEN One(i + 1)
              ELSE Elements(d, Rest(d, "stateBeginValue", i))
         /\ Rest(d, "stateBeginStringOrEmpty", i) =
              IF At(d, i, Blank) THEN Rest(d, "stateBeginStringOrEmpty", i + 1)
              ELSE IF At(d, i, EndObject) THEN One(i + 1)
              ELSE Members(d, Named(d, Rest(d, "stateBeginString", i)))
<1>1. \A j : /\ Rest(d, "stateBeginValue", j) = Value(d, Space(d, One(j)))
             /\ Rest(d, "stateBeginString", j) = String(d, Space(d, One(j)))
  BY DEF Rest
<1>2. \A j : Rest(d, "stateBeginValueOrEmpty", j) =
               Both(After(d, Space(d, One(j)), EndArray), Elements(d, Value(d, Space(d, One(j)))))
  BY DEF Rest
<1>3. \A j : Rest(d, "stateBeginStringOrEmpty", j) =
               Both(After(d, Space(d, One(j)), EndObject), Members(d, Named(d, String(d, Space(d, One(j))))))
  BY DEF Rest
<1>4. /\ At(d, i, Blank) => /\ ~At(d, i, EndArray) /\ ~At(d, i, EndObject)
                            /\ ~At(d, i, QuotationMark)
      /\ At(d, i, QuotationMark) => ~At(d, i, EndArray) /\ ~At(d, i, EndObject)
  BY FirstBytes, Zenon DEF At
<1>5. /\ At(d, i, Blank) \/ At(d, i, EndArray) => Value(d, One(i)) = None
      /\ At(d, i, Blank) \/ At(d, i, EndObject) => String(d, One(i)) = None
  BY <1>4, ValueFirst, OpensOne
<1> DEFINE S == Space(d, One(i))
           T == Space(d, One(i + 1))
<1>6. CASE At(d, i, Blank)
  <2>1. S = Both(One(i), T)
    BY <1>6, SpaceOne
  <2> HIDE DEF S, T
  <2>2. Value(d, S) = Value(d, T) /\ String(d, S) = String(d, T)
    BY <1>5, <1>6, <2>1, PartsBoth, BothNone
  <2>3. After(d, S, EndArray) = After(d, T, EndArray) /\ After(d, S, EndObject) = After(d, T, EndObject)
    BY <1>4, <1>6, <2>1, AfterBoth, AfterOne, BothNone
  <2> QED BY <1>1, <1>2, <1>3, <1>6, <2>2, <2>3 DEF S, T
<1>7. CASE ~At(d, i, Blank)
  <2>1. S = One(i)
    BY <1>7, SpaceOne
  <2>2. /\ After(d, One(i), EndArray) = IF At(d, i, EndArray) THEN One(i + 1) ELSE None
        /\ After(d, One(i), EndObject) = IF At(d, i, EndObject) THEN One(i + 1) ELSE None
    BY AfterOne
  <2> HIDE DEF S
  <2>3. /\ Rest(d, "stateBeginValue", i) = Value(d, One(i))
        /\ Rest(d, "stateBeginString", i) = String(d, One(i))
        /\ Rest(d, "stateBeginValueOrEmpty", i) =
             Both(After(d, One(i), EndArray), Elements(d, Value(d, One(i))))
        /\ Rest(d, "stateBeginStringOrEmpty", i) =
             Both(After(d, One(i), EndObject), Members(d, Named(d, String(d, One(i)))))
    BY <1>1, <1>2, <1>3, <2>1 DEF S
  <2>4. Rest(d, "stateBeginValueOrEmpty", i) =
          IF At(d, i, EndArray) THEN One(i + 1) ELSE Elements(d, Rest(d, "stateBeginValue", i))
    BY <1>5, <2>2, <2>3, PartsBoth, BothNone
  <2>5. Rest(d, "stateBeginStringOrEmpty", i) =
          IF At(d, i, EndObject) THEN One(i + 1)
          ELSE Members(d, Named(d, Rest(d, "stateBeginString", i)))
    BY <1>5, <2>2, <2>3, PartsBoth, BothNone
  <2>6. Rest(d, "stateBeginString", i) =
          IF At(d, i, QuotationMark) THEN Rest(d, "stateInString", i + 1) ELSE None
    BY <2>3, OpensOne
  <2> QED BY <1>7, <2>3, <2>4, <2>5, <2>6
<1> QED BY <1>6, <1>7

\* Where the bracket of kind p may be closed, if what it holds so far may end in J.
Closes(d, p, J) ==
    CASE p = "parseArrayValue" -> Elements(d, J)
      [] p = "parseObjectValue" -> Members(d, J)
      [] p = "parseObjectKey" -> Members(d, Named(d, J))

\* The cases of Closes.
LEMMA ClosesShape ==
  \A d, J : /\ Closes(d, "parseArrayValue", J) = Elements(d, J)
            /\ Closes(d, "parseObjectValue", J) = Members(d, J)
            /\ Closes(d, "parseObjectKey", J) = Members(d, Named(d, J))
BY DEF Closes

\* Closing a bracket takes a union to a union.
LEMMA ClosesBoth ==
  /\ \A d, A, B : \A p \in ParseStates : Closes(d, p, Both(A, B)) = Both(Closes(d, p, A), Closes(d, p, B))
  /\ \A d : \A p \in ParseStates : Closes(d, p, None) = None
<1> DEFINE P(p) == /\ \A d, A, B : Closes(d, p, Both(A, B)) = Both(Closes(d, p, A), Closes(d, p, B))
                   /\ \A d : Closes(d, p, None) = None
<1>1. P("parseArrayValue")
  BY ClosesShape, PartsBoth
<1>2. P("parseObjectValue")
  BY ClosesShape, PartsBoth
<1>3. P("parseObjectKey")
  BY ClosesShape, PartsBoth
<1> HIDE DEF P
<1>4. \A p \in ParseStates : P(p)
  BY <1>1, <1>2, <1>3 DEF ParseStates
<1> QED BY <1>4 DEF P

\* The classes of the bytes between values.
LEMMA SignBytes ==
  \A c : /\ c \in Blank => c \notin Comma /\ c \notin Colon /\ c \notin EndArray /\ c \notin EndObject
         /\ c \in Comma => c \notin Colon /\ c \notin EndArray /\ c \notin EndObject
         /\ c \in Colon => c \notin EndArray /\ c \notin EndObject
         /\ c \in EndArray => c \notin EndObject
<1>1. \A c : c \in Blank => c \notin Comma /\ c \notin Colon /\ c \notin EndArray /\ c \notin EndObject
  BY Zenon DEF Blank, Comma, Colon, EndArray, EndObject
<1>2. \A c : c \in Comma => c \notin Colon /\ c \notin EndArray /\ c \notin EndObject
  BY Zenon DEF Comma, Colon, EndArray, EndObject
<1>3. \A c : c \in Colon => c \notin EndArray /\ c \notin EndObject
  BY Zenon DEF Colon, EndArray, EndObject
<1>4. \A c : c \in EndArray => c \notin EndObject
  BY Zenon DEF EndArray, EndObject
<1> QED BY <1>1, <1>2, <1>3, <1>4, Zenon

\* What may follow an item that ends at i.
LEMMA ClosesOne ==
  ASSUME NEW d, NEW i, Position(d, i)
  PROVE  /\ At(d, i, Blank) =>
              \A p \in ParseStates : Closes(d, p, One(i)) = Closes(d, p, One(i + 1))
         /\ ~At(d, i, Blank) =>
              /\ Closes(d, "parseArrayValue", One(i)) =
                   IF At(d, i, EndArray) THEN One(i + 1)
                   ELSE IF At(d, i, Comma)
                   THEN Closes(d, "parseArrayValue", Rest(d, "stateBeginValue", i + 1)) ELSE None
              /\ Closes(d, "parseObjectValue", One(i)) =
                   IF At(d, i, EndObject) THEN One(i + 1)
                   ELSE IF At(d, i, Comma)
                   THEN Closes(d, "parseObjectKey", Rest(d, "stateBeginString", i + 1)) ELSE None
              /\ Closes(d, "parseObjectKey", One(i)) =
                   IF At(d, i, Colon)
                   THEN Closes(d, "parseObjectValue", Rest(d, "stateBeginValue", i + 1)) ELSE None
<1> DEFINE P == Phrases(d)
           S == Space(d, One(i))
           T == Space(d, One(i + 1))
<1>1. /\ \A I : Elements(d, I) = Both(After(d, Space(d, I), EndArray),
                                     After(d, From(P, "elements", After(d, Space(d, I), Comma)), EndArray))
      /\ \A I : Members(d, I) = Both(After(d, Space(d, I), EndObject),
                                    After(d, From(P, "members", After(d, Space(d, I), Comma)), EndObject))
  BY ListShape, AfterBoth DEF Elements, Members
<1>2. \A I : Named(d, I) = Value(d, Space(d, After(d, Space(d, I), Colon)))
  BY DEF Named
<1>3. Rest(d, "stateBeginValue", i + 1) = Value(d, T) /\ Rest(d, "stateBeginString", i + 1) = String(d, T)
  BY DEF Rest
<1>4. /\ At(d, i, Blank) => /\ ~At(d, i, Comma) /\ ~At(d, i, Colon)
                            /\ ~At(d, i, EndArray) /\ ~At(d, i, EndObject)
      /\ At(d, i, Comma) => /\ ~At(d, i, Colon)
                            /\ ~At(d, i, EndArray) /\ ~At(d, i, EndObject)
  BY SignBytes, Zenon DEF At
<1>5. CASE At(d, i, Blank)
  <2>1. S = Both(One(i), T)
    BY <1>5, SpaceOne
  <2> HIDE DEF S, T
  <2>2. /\ After(d, S, EndArray) = After(d, T, EndArray) /\ After(d, S, EndObject) = After(d, T, EndObject)
        /\ After(d, S, Comma) = After(d, T, Comma) /\ After(d, S, Colon) = After(d, T, Colon)
    BY <1>4, <1>5, <2>1, AfterBoth, AfterOne, BothNone
  <2>3. /\ Elements(d, One(i)) = Elements(d, One(i + 1)) /\ Members(d, One(i)) = Members(d, One(i + 1))
        /\ Named(d, One(i)) = Named(d, One(i + 1))
    BY <1>1, <1>2, <2>2 DEF S, T
  <2> DEFINE Q(p) == Closes(d, p, One(i)) = Closes(d, p, One(i + 1))
  <2>4. Q("parseArrayValue") /\ Q("parseObjectValue") /\ Q("parseObjectKey")
    BY <2>3, ClosesShape
  <2> HIDE DEF Q
  <2>5. \A p \in ParseStates : Q(p)
    BY <2>4 DEF ParseStates
  <2> QED BY <1>5, <2>5, Zenon DEF Q
<1>6. CASE ~At(d, i, Blank)
  <2>1. S = One(i)
    BY <1>6, SpaceOne
  <2> DEFINE R == After(d, One(i), Comma)
  <2>2. /\ Elements(d, One(i)) = Both(After(d, One(i), EndArray), After(d, From(P, "elements", R), EndArray))
        /\ Members(d, One(i)) = Both(After(d, One(i), EndObject), After(d, From(P, "members", R), EndObject))
        /\ Named(d, One(i)) = Value(d, Space(d, After(d, One(i), Colon)))
    BY <1>1, <1>2, <2>1
  <2>3. /\ After(d, One(i), EndArray) = IF At(d, i, EndArray) THEN One(i + 1) ELSE None
        /\ After(d, One(i), EndObject) = IF At(d, i, EndObject) THEN One(i + 1) ELSE None
        /\ After(d, One(i), Colon) = IF At(d, i, Colon) THEN One(i + 1) ELSE None
        /\ R = IF At(d, i, Comma) THEN One(i + 1) ELSE None
    BY AfterOne
  <2>4. /\ ~At(d, i, Comma) => /\ After(d, From(P, "elements", R), EndArray) = None
                               /\ After(d, From(P, "members", R), EndObject) = None
    BY <2>3, FromBoth, AfterBoth
  <2>5. ASSUME At(d, i, Comma)
        PROVE  /\ After(d, From(P, "elements", R), EndArray) = Elements(d, Value(d, T))
               /\ After(d, From(P, "members", R), EndObject) = Members(d, Named(d, String(d, T)))
    <3>1. Position(d, i + 1)
      BY <2>5, NextPosition
    <3>2. "elements" \in Nonterminals /\ "members" \in Nonterminals
      BY DEF Nonterminals
    <3>3. /\ P[i + 1]["elements"] = ListBy(d, P, "elements", ValueBy(d, P, T))
          /\ P[i + 1]["members"] = ListBy(d, P, "members", MemberBy(d, P, T))
      BY <3>1, <3>2, PhrasesRule, RuleShape DEF Position
    <3>4. \A I : MemberBy(d, P, I) = Named(d, String(d, I)) /\ ValueBy(d, P, I) = Value(d, I)
      BY MemberShape DEF Named, String, Value
    <3>5. /\ \A I : Elements(d, I) = After(d, ListBy(d, P, "elements", I), EndArray)
          /\ \A I : Members(d, I) = After(d, ListBy(d, P, "members", I), EndObject)
      BY DEF Elements, Members
    <3> HIDE DEF P, T, R
    <3>6. From(P, "elements", R) = P[i + 1]["elements"] /\ From(P, "members", R) = P[i + 1]["members"]
      BY <2>3, <2>5, FromBoth
    <3> QED BY <3>3, <3>4, <3>5, <3>6
  <2>6. ~At(d, i, Colon) => Named(d, One(i)) = None
    BY <2>2, <2>3, PartsBoth, SpaceBoth
  <2>7. At(d, i, Colon) => Named(d, One(i)) = Value(d, T)
    BY <2>2, <2>3
  <2> HIDE DEF P, S, T, R
  <2>8. Closes(d, "parseArrayValue", One(i)) =
          IF At(d, i, EndArray) THEN One(i + 1)
          ELSE IF At(d, i, Comma)
          THEN Closes(d, "parseArrayValue", Rest(d, "stateBeginValue", i + 1)) ELSE None
    BY <1>3, <1>4, <2>2, <2>3, <2>4, <2>5, ClosesShape, BothNone
  <2>9. Closes(d, "parseObjectValue", One(i)) =
          IF At(d, i, EndObject) THEN One(i + 1)
          ELSE IF At(d, i, Comma)
          THEN Closes(d, "parseObjectKey", Rest(d, "stateBeginString", i + 1)) ELSE None
    BY <1>3, <1>4, <2>2, <2>3, <2>4, <2>5, ClosesShape, BothNone
  <2>10. Closes(d, "parseObjectKey", One(i)) =
           IF At(d, i, Colon)
           THEN Closes(d, "parseObjectValue", Rest(d, "stateBeginValue", i + 1)) ELSE None
    BY <1>3, <2>6, <2>7, ClosesShape, PartsBoth
  <2> QED BY <1>6, <2>8, <2>9, <2>10
<1> QED BY <1>5, <1>6

---------------------------------------------------------------------------
(* What is left to come behind the innermost value.                        *)

\* The whole text can end if the innermost item may end in J and the brackets
\* of the stack are open around it: p[l] is where what is inside bracket l + 1
\* may end.
Completes(d, stack, J) ==
    \E p : /\ p[Len(stack)] = J
           /\ Len(d) + 1 \in Space(d, p[0])
           /\ \A l \in 1..Len(stack) : p[l - 1] = Closes(d, stack[l], p[l])

\* less is the stack without its top.
Under(less, stack) ==
    /\ less \in Seq(ParseStates) /\ stack \in Seq(ParseStates)
    /\ Len(stack) = Len(less) + 1
    /\ \A l \in 1..Len(less) : stack[l] = less[l]

\* Completes looks at the entries of the stack.
LEMMA CompletesSame ==
  ASSUME NEW d, NEW J, NEW stack, NEW other, Len(stack) = Len(other),
         \A l \in 1..Len(stack) : stack[l] = other[l]
  PROVE  Completes(d, stack, J) <=> Completes(d, other, J)
BY DEF Completes

\* Outside every bracket only space may follow.
LEMMA CompletesEmpty ==
  ASSUME NEW d, NEW J, NEW stack, Len(stack) = 0
  PROVE  Completes(d, stack, J) <=> Len(d) + 1 \in Space(d, J)
<1>1. ASSUME Len(d) + 1 \in Space(d, J) PROVE Completes(d, stack, J)
  <2> DEFINE p == [l \in {0} |-> J]
  <2>1. p[0] = J
    OBVIOUS
  <2> HIDE DEF p
  <2> QED BY <1>1, <2>1 DEF Completes
<1> QED BY <1>1 DEF Completes

\* The innermost bracket is closed first.
LEMMA CompletesTop ==
  ASSUME NEW d, NEW J, NEW less, NEW stack, Under(less, stack)
  PROVE  Completes(d, stack, J) <=> Completes(d, less, Closes(d, stack[Len(stack)], J))
<1> DEFINE n == Len(stack)
           m == Len(less)
<1>0. n \in Nat /\ m \in Nat /\ n = m + 1 /\ n - 1 = m /\ \A l \in 1..m : stack[l] = less[l]
  BY LenProperties DEF Under
<1>1. ASSUME Completes(d, stack, J) PROVE Completes(d, less, Closes(d, stack[n], J))
  <2>1. PICK p : /\ p[n] = J /\ Len(d) + 1 \in Space(d, p[0])
                 /\ \A l \in 1..n : p[l - 1] = Closes(d, stack[l], p[l])
    BY <1>1 DEF Completes
  <2>2. p[m] = Closes(d, stack[n], J)
    BY <1>0, <2>1
  <2>3. \A l \in 1..m : p[l - 1] = Closes(d, less[l], p[l])
    BY <1>0, <2>1
  <2> QED BY <2>1, <2>2, <2>3 DEF Completes
<1>2. ASSUME Completes(d, less, Closes(d, stack[n], J)) PROVE Completes(d, stack, J)
  <2>1. PICK p : /\ p[m] = Closes(d, stack[n], J) /\ Len(d) + 1 \in Space(d, p[0])
                 /\ \A l \in 1..m : p[l - 1] = Closes(d, less[l], p[l])
    BY <1>2 DEF Completes
  <2> DEFINE q == [l \in 0..n |-> IF l = n THEN J ELSE p[l]]
  <2>2. q[n] = J /\ \A l \in 0..m : q[l] = p[l]
    BY <1>0
  <2> HIDE DEF q
  <2>3. q[0] = p[0]
    BY <1>0, <2>2
  <2>4. ASSUME NEW l \in 1..n PROVE q[l - 1] = Closes(d, stack[l], q[l])
    <3>1. CASE l = n
      <4>1. q[l - 1] = p[m]
        BY <1>0, <2>2, <3>1
      <4> QED BY <2>1, <2>2, <3>1, <4>1
    <3>2. CASE l # n
      <4>1. l \in 1..m /\ l - 1 \in 0..m /\ l \in 0..m
        BY <1>0, <3>2
      <4>2. q[l] = p[l] /\ q[l - 1] = p[l - 1] /\ stack[l] = less[l]
        BY <1>0, <2>2, <4>1
      <4> QED BY <2>1, <4>1, <4>2
    <3> QED BY <3>1, <3>2
  <2> QED BY <2>1, <2>2, <2>3, <2>4 DEF Completes
<1> QED BY <1>1, <1>2

Outer(stack) == SubSeq(stack, 1, Len(stack) - 1)

\* The stack without its top.
LEMMA OuterUnder ==
  ASSUME NEW stack \in Seq(ParseStates), Len(stack) # 0
  PROVE  Under(Outer(stack), stack) /\ stack[Len(stack)] \in ParseStates
<1> DEFINE n == Len(stack) - 1
           less == SubSeq(stack, 1, n)
<1>1. n \in Nat /\ \A i \in 1..n : stack[i] \in ParseStates
  OBVIOUS
<1>2. /\ less \in Seq(ParseStates)
      /\ Len(less) = IF 1 <= n THEN n - 1 + 1 ELSE 0
      /\ \A i \in 1..(n - 1 + 1) : less[i] = stack[1 + i - 1]
  <2> HIDE DEF n
  <2> QED BY <1>1, SubSeqProperties
<1>3. Len(stack) = n + 1 /\ stack[Len(stack)] \in ParseStates
  OBVIOUS
<1> HIDE DEF less, n
<1>4. Len(less) = n /\ \A i \in 1..n : less[i] = stack[i]
  BY <1>1, <1>2
<1>5. Under(less, stack)
  BY <1>2, <1>3, <1>4 DEF Under
<1> QED BY <1>3, <1>5 DEF less, n, Outer

\* Nothing can end where the innermost item cannot, and more ends do no harm.
LEMMA CompletesSteps ==
  ASSUME NEW d
  PROVE  \A stack \in Seq(ParseStates) :
            /\ ~Completes(d, stack, None)
            /\ \A A, B : Completes(d, stack, A) => Completes(d, stack, Both(A, B))
<1> DEFINE P(stack) == /\ ~Completes(d, stack, None)
                       /\ \A A, B : Completes(d, stack, A) => Completes(d, stack, Both(A, B))
           T == {n \in Nat : \A stack \in Seq(ParseStates) : Len(stack) = n => P(stack)}
<1>1. 0 \in T
  <2> SUFFICES ASSUME NEW stack \in Seq(ParseStates), Len(stack) = 0 PROVE P(stack)
    OBVIOUS
  <2>1. \A J : Completes(d, stack, J) <=> Len(d) + 1 \in Space(d, J)
    BY CompletesEmpty
  <2>2. Len(d) + 1 \notin Space(d, None)
    BY SpaceBoth DEF None
  <2>3. ASSUME NEW A, NEW B, Len(d) + 1 \in Space(d, A) PROVE Len(d) + 1 \in Space(d, Both(A, B))
    <3>1. Len(d) + 1 \in Both(Space(d, A), Space(d, B))
      BY <2>3 DEF Both
    <3> QED BY <3>1, SpaceBoth
  <2> QED BY <2>1, <2>2, <2>3
<1>2. ASSUME NEW n \in T PROVE n + 1 \in T
  <2> SUFFICES ASSUME NEW stack \in Seq(ParseStates), Len(stack) = n + 1 PROVE P(stack)
    OBVIOUS
  <2> DEFINE less == Outer(stack)
             p == stack[Len(stack)]
  <2>0. n \in Nat
    OBVIOUS
  <2>1. Under(less, stack) /\ p \in ParseStates
    BY <2>0, OuterUnder
  <2>2. \A J : Completes(d, stack, J) <=> Completes(d, less, Closes(d, p, J))
    BY <2>1, CompletesTop
  <2>3. P(less)
    <3>1. less \in Seq(ParseStates) /\ Len(less) = n
      BY <2>0, <2>1, LenProperties DEF Under
    <3> HIDE DEF less, P
    <3> QED BY <1>2, <3>1
  <2>4. Closes(d, p, None) = None
    BY <2>1, ClosesBoth
  <2>5. \A A, B : Closes(d, p, Both(A, B)) = Both(Closes(d, p, A), Closes(d, p, B))
    BY <2>1, ClosesBoth
  <2> HIDE DEF less, p
  <2> QED BY <2>2, <2>3, <2>4, <2>5
<1> HIDE DEF P
<1>3. \A n \in Nat : n \in T
  <2> HIDE DEF T
  <2>1. T \subseteq Nat
    BY DEF T
  <2> QED BY <1>1, <1>2, <2>1, NatSet
<1>4. \A stack \in Seq(ParseStates) : P(stack)
  BY <1>3, LenProperties
<1> QED BY <1>4 DEF P

\* Space is skipped wherever an item may end.
LEMMA CompletesBlank ==
  ASSUME NEW d, NEW i, Position(d, i), At(d, i, Blank), NEW stack \in Seq(ParseStates)
  PROVE  Completes(d, stack, One(i)) <=> Completes(d, stack, One(i + 1))
<1>1. CASE Len(stack) = 0
  <2>1. Space(d, One(i)) = Both(One(i), Space(d, One(i + 1)))
    BY SpaceOne
  <2>2. Len(d) + 1 # i
    BY DEF At, Position
  <2>3. Len(d) + 1 \in Space(d, One(i)) <=> Len(d) + 1 \in Space(d, One(i + 1))
    BY <2>1, <2>2 DEF Both, One
  <2> QED BY <1>1, <2>3, CompletesEmpty
<1>2. CASE Len(stack) # 0
  <2> DEFINE p == stack[Len(stack)]
  <2>1. Under(Outer(stack), stack) /\ p \in ParseStates
    BY <1>2, OuterUnder
  <2>2. \A J : Completes(d, stack, J) <=> Completes(d, Outer(stack), Closes(d, p, J))
    BY <2>1, CompletesTop
  <2>3. Closes(d, p, One(i)) = Closes(d, p, One(i + 1))
    BY <2>1, ClosesOne
  <2> QED BY <2>2, <2>3
<1> QED BY <1>1, <1>2

\* No byte but these can follow an item.
Follows(d, i) == \/ At(d, i, Blank) \/ At(d, i, Comma) \/ At(d, i, Colon)
                 \/ At(d, i, EndArray) \/ At(d, i, EndObject)

\* A byte that can only go on with a number does not follow a value.
LEMMA CompletesNot ==
  ASSUME NEW d, NEW i, Position(d, i), i <= Len(d), ~Follows(d, i), NEW stack \in Seq(ParseStates)
  PROVE  /\ \A R : Completes(d, stack, Both(One(i), R)) <=> Completes(d, stack, R)
         /\ ~Completes(d, stack, One(i))
<1>1. ASSUME NEW R PROVE Completes(d, stack, Both(One(i), R)) <=> Completes(d, stack, R)
  <2>1. CASE Len(stack) = 0
    <3>1. Space(d, One(i)) = One(i)
      BY SpaceOne DEF Follows
    <3>2. Space(d, Both(One(i), R)) = Both(One(i), Space(d, R))
      BY <3>1, SpaceBoth
    <3>3. Len(d) + 1 # i
      BY DEF Position
    <3>4. Len(d) + 1 \in Space(d, Both(One(i), R)) <=> Len(d) + 1 \in Space(d, R)
      BY <3>2, <3>3 DEF Both, One
    <3> QED BY <2>1, <3>4, CompletesEmpty
  <2>2. CASE Len(stack) # 0
    <3> DEFINE p == stack[Len(stack)]
    <3>1. Under(Outer(stack), stack) /\ p \in ParseStates
      BY <2>2, OuterUnder
    <3>2. \A J : Completes(d, stack, J) <=> Completes(d, Outer(stack), Closes(d, p, J))
      BY <3>1, CompletesTop
    <3>3. Closes(d, p, One(i)) = None
      <4>1. /\ Closes(d, "parseArrayValue", One(i)) = None
            /\ Closes(d, "parseObjectValue", One(i)) = None
            /\ Closes(d, "parseObjectKey", One(i)) = None
        BY ClosesOne DEF Follows
      <4> QED BY <3>1, <4>1 DEF ParseStates
    <3>4. Closes(d, p, Both(One(i), R)) = Closes(d, p, R)
      BY <3>1, <3>3, ClosesBoth, BothNone
    <3> QED BY <3>2, <3>4
  <2> QED BY <2>1, <2>2
<1>2. ~Completes(d, stack, Both(One(i), None))
  BY <1>1, CompletesSteps
<1> QED BY <1>1, <1>2, BothNone

---------------------------------------------------------------------------
(* What the scanner makes of a byte, and what can still follow it.         *)

\* The stack around what the state st reads: an array or an object that may be
\* empty is part of it.
Base(st, stack) ==
    IF st \in {"stateBeginValueOrEmpty", "stateBeginStringOrEmpty"} THEN Outer(stack) ELSE stack

\* Before byte i of d the scanner is in the state st, and what is left of d
\* completes the text.
Continues(d, i, st, stack) == Completes(d, Base(st, stack), Rest(d, st, i))

\* The byte at i, which takes the scanner to t, does not change whether the rest of
\* d completes the text.
Into(d, i, t) == Continues(d, i + 1, t.step, t.parseState)

\* The tests of the state functions and the classes of the grammar.
LEMMA ByteClasses ==
  \A c : /\ c = " " <=> c \in Blank
         /\ c = "\"" <=> c \in QuotationMark
         /\ c = "\\" <=> c \in Backslash
         /\ c = "," <=> c \in Comma
         /\ c = ":" <=> c \in Colon
         /\ c = "[" <=> c \in BeginArray
         /\ c = "]" <=> c \in EndArray
         /\ c = "{" <=> c \in BeginObject
         /\ c = "}" <=> c \in EndObject
         /\ c = "-" <=> c \in Minus
         /\ c = "0" <=> c \in DigitZero
         /\ c = "1" <=> c \in DigitNonzero
         /\ c = "." <=> c \in Point
         /\ c = "^" <=> c \in Control
BY Zenon DEF Blank, QuotationMark, Backslash, Comma, Colon, BeginArray, EndArray, BeginObject,
             EndObject, Minus, DigitZero, DigitNonzero, Point, Control

\* And those that the code tests against a set.
LEMMA SetClasses ==
  \A c : /\ c \in Digits <=> c \in Digit
         /\ c \in {"e", "E"} <=> c \in ExpMark
         /\ c \in {"+", "-"} <=> c \in Sign
         /\ c \in HexDigits <=> c \in Hex
         /\ c \in Escapes <=> c \in Escapable
<1>1. \A c : c \in Digits <=> c \in Digit
  BY Zenon DEF Digits, Digit
<1>2. \A c : c \in {"e", "E"} <=> c \in ExpMark
  BY Zenon DEF ExpMark
<1>3. \A c : c \in {"+", "-"} <=> c \in Sign
  BY Zenon DEF Sign
<1>4. \A c : c \in HexDigits <=> c \in Hex
  BY Zenon DEF HexDigits, Digits, Hex
<1>5. \A c : c \in Escapes <=> c \in Escapable
  BY Zenon DEF Escapes, Escapable
<1> QED BY <1>1, <1>2, <1>3, <1>4, <1>5, Zenon

\* i is a byte of d.
Byteof(d, i) == Len(d) \in Nat /\ i \in 1..Len(d)

\* The byte at a position of d.
LEMMA ByteAt ==
  ASSUME NEW d, NEW i, Byteof(d, i)
  PROVE  /\ Position(d, i) /\ Position(d, i + 1) /\ i <= Len(d) /\ ~(i > Len(d))
         /\ \A C : At(d, i, C) <=> d[i] \in C
BY DEF Byteof, Position, At

\* What is left of a value that is over, and of nothing.
LEMMA RestEnd ==
  \A d, i : /\ Rest(d, "stateEndValue", i) = One(i)
            /\ Rest(d, "stateEndTop", i) = One(i)
            /\ Rest(d, "stateError", i) = None
BY DEF Rest

\* How each way a state function may end changes what can follow.
LEMMA IntoError ==
  ASSUME NEW d, NEW i, NEW t, t.step = "stateError", t.parseState \in Seq(ParseStates)
  PROVE  ~Into(d, i, t)
<1>1. Base("stateError", t.parseState) = t.parseState
  BY DEF Base
<1>2. Into(d, i, t) <=> Completes(d, t.parseState, None)
  BY <1>1, RestEnd DEF Into, Continues
<1> QED BY <1>2, CompletesSteps

LEMMA IntoReturned ==
  ASSUME NEW d, NEW i, NEW s, s \in Scanner, NEW st, NEW op
  PROVE  Into(d, i, Return(s, st, op)) <=> Completes(d, Base(st, s.parseState), Rest(d, st, i + 1))
<1> DEFINE t == Return(s, st, op)
<1>1. t.step = st /\ t.parseState = s.parseState
  BY ReturnedOpen
<1> HIDE DEF t
<1>2. Into(d, i, t) <=> Completes(d, Base(st, s.parseState), Rest(d, st, i + 1))
  BY <1>1 DEF Into, Continues
<1> QED BY <1>2 DEF t

LEMMA IntoFailed ==
  ASSUME NEW d, NEW i, NEW s, s \in Scanner
  PROVE  ~Into(d, i, error(s))
<1>1. s.parseState \in Seq(ParseStates)
  BY DEF Scanner
<1> QED BY <1>1, ErrorEffect, IntoError

\* A step that leaves the value goes on with what is under the top.
LEMMA TopSetUnder ==
  ASSUME NEW s, s \in Scanner, Len(s.parseState) # 0, NEW p \in ParseStates
  PROVE  /\ SetTop(s, p) \in Scanner
         /\ Under(Outer(s.parseState), SetTop(s, p).parseState)
         /\ SetTop(s, p).parseState[Len(SetTop(s, p).parseState)] = p
<1> DEFINE n == Len(s.parseState)
           stack == [s.parseState EXCEPT ![n] = p]
           less == Outer(s.parseState)
<1>1. s.parseState \in Seq(ParseStates) /\ n \in Nat /\ n > 0
  BY DEF Scanner
<1>2. /\ stack \in Seq(ParseStates) /\ Len(stack) = n /\ stack[n] = p
      /\ \A i \in 1..(n - 1) : stack[i] = s.parseState[i]
  BY <1>1
<1>3. SetTop(s, p) \in Scanner /\ SetTop(s, p).parseState = stack
  BY <1>1, <1>2 DEF Scanner, SetTop
<1>4. Under(less, s.parseState)
  BY <1>1, OuterUnder
<1> HIDE DEF stack, less
<1>5. Len(less) = n - 1
  BY <1>1, <1>4, LenProperties DEF Under
<1>6. Under(less, stack)
  BY <1>1, <1>2, <1>4, <1>5 DEF Under
<1> QED BY <1>2, <1>3, <1>6 DEF less

LEMMA IntoPopped ==
  ASSUME NEW d, NEW i, NEW s, Ready(s), Len(s.parseState) # 0, NEW op \in Codes
  PROVE  Into(d, i, [popParseState(s) EXCEPT !.op = op])
           <=> Completes(d, Outer(s.parseState), One(i + 1))
<1> DEFINE t == [popParseState(s) EXCEPT !.op = op]
           n == Len(s.parseState) - 1
<1>0. s.parseState # <<>> /\ s.parseState \in Seq(ParseStates)
  BY EmptySeq DEF Ready, Scanner
<1>7. s.parseState # <<>>
  BY <1>0
<1>1. /\ n \in Nat
      /\ t.step = IF n = 0 THEN "stateEndTop" ELSE "stateEndValue"
      /\ Len(t.parseState) = n
      /\ \A l \in 1..n : t.parseState[l] = s.parseState[l]
  BY <1>7, PopEffect
<1>2. Under(Outer(s.parseState), s.parseState)
  BY <1>0, OuterUnder
<1>3. Len(Outer(s.parseState)) = n
  BY <1>2, LenProperties DEF Under
<1> HIDE DEF t, n
<1>4. Completes(d, t.parseState, One(i + 1)) <=> Completes(d, Outer(s.parseState), One(i + 1))
  BY <1>1, <1>2, <1>3, CompletesSame DEF Under
<1>5. Base(t.step, t.parseState) = t.parseState /\ Rest(d, t.step, i + 1) = One(i + 1)
  BY <1>1, RestEnd DEF Base
<1>6. Into(d, i, t) <=> Completes(d, Outer(s.parseState), One(i + 1))
  BY <1>4, <1>5 DEF Into, Continues
<1> QED BY <1>6 DEF t

LEMMA IntoPushed ==
  ASSUME NEW d, NEW i, NEW s, s \in Scanner, NEW p \in ParseStates, NEW op,
         NEW st \in {"stateBeginValueOrEmpty", "stateBeginStringOrEmpty"}
  PROVE  Into(d, i, Return(pushParseState(s, p), st, op))
           <=> Completes(d, s.parseState, Rest(d, st, i + 1))
<1> DEFINE e == pushParseState(s, p)
           stack == Append(s.parseState, p)
<1>1. s.parseState \in Seq(ParseStates)
  BY DEF Scanner
<1>2. /\ stack \in Seq(ParseStates) /\ Len(stack) = Len(s.parseState) + 1
      /\ \A l \in 1..Len(s.parseState) : stack[l] = s.parseState[l]
  BY <1>1, AppendProperties
<1>3. e \in Scanner /\ e.parseState = stack
  BY <1>2 DEF Scanner, pushParseState
<1> HIDE DEF stack, e
<1>4. Into(d, i, Return(e, st, op)) <=> Completes(d, Outer(stack), Rest(d, st, i + 1))
  BY <1>3, IntoReturned DEF Base
<1>5. Under(Outer(stack), stack) /\ Len(s.parseState) \in Nat
  BY <1>1, <1>2, OuterUnder, LenProperties
<1>6. Len(Outer(stack)) = Len(s.parseState)
  BY <1>2, <1>5, LenProperties DEF Under
<1>7. \A J : Completes(d, Outer(stack), J) <=> Completes(d, s.parseState, J)
  BY <1>2, <1>5, <1>6, CompletesSame DEF Under
<1> QED BY <1>4, <1>7 DEF e

\* Only space may follow the top-level value.
LEMMA EndTopInto ==
  ASSUME NEW d, NEW i, Byteof(d, i), NEW s, s \in Scanner, s.parseState = <<>>, s.step = "stateEndTop"
  PROVE  Into(d, i, stateEndTop(s, d[i])) <=> Completes(d, s.parseState, One(i))
<1> DEFINE c == d[i]
           V == stateEndTop(s, c)
           stack == s.parseState
<1>1. stack \in Seq(ParseStates) /\ Len(stack) = 0
  BY EmptySeq DEF Scanner
<1>2. CASE c = " "
  <2>1. V = [s EXCEPT !.op = "scanEnd"]
    BY <1>2 DEF stateEndTop
  <2>2. V.step = "stateEndTop" /\ V.parseState = stack
    BY <2>1 DEF Scanner
  <2> HIDE DEF V, stack
  <2>3. Into(d, i, V) <=> Completes(d, stack, One(i + 1))
    BY <2>2, RestEnd DEF Into, Continues, Base
  <2>4. Position(d, i) /\ At(d, i, Blank)
    BY <1>2, ByteAt, ByteClasses, Zenon
  <2> QED BY <1>1, <2>3, <2>4, CompletesBlank DEF V, stack
<1>3. CASE c # " "
  <2>1. V = [error(s) EXCEPT !.op = "scanEnd"]
    BY <1>3 DEF stateEndTop
  <2>2. error(s) \in Scanner /\ error(s).step = "stateError"
    BY ErrorEffect
  <2>3. V.step = "stateError" /\ V.parseState \in Seq(ParseStates)
    BY <2>1, <2>2 DEF Scanner
  <2>4. ~Into(d, i, V)
    BY <2>3, IntoError
  <2>5. Position(d, i) /\ ~At(d, i, Blank)
    BY <1>3, ByteAt, ByteClasses, Zenon
  <2>6. Len(d) + 1 # i
    BY DEF Byteof
  <2>7. Len(d) + 1 \notin Space(d, One(i))
    BY <2>5, <2>6, SpaceOne DEF One
  <2> QED BY <1>1, <2>4, <2>7, CompletesEmpty DEF V
<1> QED BY <1>2, <1>3

\* At the end of a value: what follows it is what the grammar lets follow it.
LEMMA EndValueInto ==
  ASSUME NEW d, NEW i, Byteof(d, i), NEW s, Ready(s)
  PROVE  Into(d, i, stateEndValue(s, d[i])) <=> Completes(d, s.parseState, One(i))
<1> DEFINE c == d[i]
           V == stateEndValue(s, c)
           stack == s.parseState
           n == Len(stack)
           top == stack[n]
<1>0. s \in Scanner /\ stack \in Seq(ParseStates)
  BY DEF Ready, Scanner
<1>1. CASE stack = <<>>
  <2> DEFINE e == [s EXCEPT !.step = "stateEndTop", !.endTop = TRUE]
  <2>1. e \in Scanner /\ e.parseState = stack /\ e.step = "stateEndTop"
    BY <1>1 DEF Ready, Scanner, Steps
  <2>2. V = stateEndTop(e, c)
    BY <1>1 DEF stateEndValue
  <2> HIDE DEF e
  <2>3. Into(d, i, stateEndTop(e, c)) <=> Completes(d, stack, One(i))
    BY <1>1, <2>1, EndTopInto
  <2> QED BY <2>2, <2>3
<1>2. ASSUME stack # <<>> PROVE Into(d, i, V) <=> Completes(d, stack, One(i))
  <2>0. n # 0 /\ top \in ParseStates /\ Under(Outer(stack), stack)
    <3>1. n # 0
      BY <1>0, <1>2, EmptySeq
    <3> QED BY <1>0, <3>1, OuterUnder
  <2>1. \A J : Completes(d, stack, J) <=> Completes(d, Outer(stack), Closes(d, top, J))
    BY <2>0, CompletesTop
  <2>2. Position(d, i) /\ \A C : At(d, i, C) <=> c \in C
    BY ByteAt
  <2>3. Top(s) = top
    BY DEF Top
  <2>4. CASE c = " "
    <3>1. V = Return(s, "stateEndValue", "scanSkipSpace")
      BY <1>2, <2>4 DEF stateEndValue
    <3> HIDE DEF V, stack
    <3>2. Into(d, i, V) <=> Completes(d, stack, One(i + 1))
      BY <1>0, <3>1, IntoReturned, RestEnd DEF Base, stack
    <3>3. At(d, i, Blank)
      BY <2>2, <2>4, ByteClasses, Zenon
    <3> QED BY <1>0, <2>2, <3>2, <3>3, CompletesBlank
  <2>5. CASE top = "parseObjectKey" /\ c = ":"
    <3> DEFINE e == SetTop(s, "parseObjectValue")
    <3>1. V = Return(e, "stateBeginValue", "scanObjectKey")
      BY <1>2, <2>3, <2>5 DEF stateEndValue
    <3>2. /\ e \in Scanner
          /\ Under(Outer(stack), e.parseState)
          /\ e.parseState[Len(e.parseState)] = "parseObjectValue"
      BY <1>0, <2>0, TopSetUnder DEF ParseStates
    <3>3. At(d, i, Colon) /\ ~At(d, i, Blank)
      BY <2>2, <2>5, ByteClasses, SignBytes, Zenon
    <3>4. Closes(d, top, One(i)) = Closes(d, "parseObjectValue", Rest(d, "stateBeginValue", i + 1))
      BY <2>2, <2>5, <3>3, ClosesOne
    <3> HIDE DEF e, V, stack, top
    <3>5. Into(d, i, V) <=> Completes(d, e.parseState, Rest(d, "stateBeginValue", i + 1))
      BY <3>1, <3>2, IntoReturned DEF Base
    <3>6. Completes(d, e.parseState, Rest(d, "stateBeginValue", i + 1)) <=>
            Completes(d, Outer(stack), Closes(d, "parseObjectValue", Rest(d, "stateBeginValue", i + 1)))
      BY <3>2, CompletesTop
    <3> QED BY <2>1, <3>4, <3>5, <3>6
  <2>6. CASE top = "parseObjectValue" /\ c = ","
    <3> DEFINE e == SetTop(s, "parseObjectKey")
    <3>1. V = Return(e, "stateBeginString", "scanObjectValue")
      BY <1>2, <2>3, <2>6 DEF stateEndValue
    <3>2. /\ e \in Scanner
          /\ Under(Outer(stack), e.parseState)
          /\ e.parseState[Len(e.parseState)] = "parseObjectKey"
      BY <1>0, <2>0, TopSetUnder DEF ParseStates
    <3>3. At(d, i, Comma) /\ ~At(d, i, Blank) /\ ~At(d, i, EndObject)
      BY <2>2, <2>6, ByteClasses, SignBytes, Zenon
    <3>4. Closes(d, top, One(i)) = Closes(d, "parseObjectKey", Rest(d, "stateBeginString", i + 1))
      BY <2>2, <2>6, <3>3, ClosesOne
    <3> HIDE DEF e, V, stack, top
    <3>5. Into(d, i, V) <=> Completes(d, e.parseState, Rest(d, "stateBeginString", i + 1))
      BY <3>1, <3>2, IntoReturned DEF Base
    <3>6. Completes(d, e.parseState, Rest(d, "stateBeginString", i + 1)) <=>
            Completes(d, Outer(stack), Closes(d, "parseObjectKey", Rest(d, "stateBeginString", i + 1)))
      BY <3>2, CompletesTop
    <3> QED BY <2>1, <3>4, <3>5, <3>6
  <2>7. CASE top = "parseObjectValue" /\ c = "}"
    <3>1. V = [popParseState(s) EXCEPT !.op = "scanEndObject"]
      BY <1>2, <2>3, <2>7 DEF stateEndValue
    <3>2. At(d, i, EndObject) /\ ~At(d, i, Blank)
      BY <2>2, <2>7, ByteClasses, SignBytes, Zenon
    <3>3. Closes(d, top, One(i)) = One(i + 1)
      BY <2>2, <2>7, <3>2, ClosesOne
    <3>4. "scanEndObject" \in Codes
      BY DEF Codes
    <3>5. Into(d, i, [popParseState(s) EXCEPT !.op = "scanEndObject"])
            <=> Completes(d, Outer(stack), One(i + 1))
      BY <2>0, <3>4, IntoPopped
    <3> QED BY <2>1, <3>1, <3>3, <3>5
  <2>8. CASE top = "parseArrayValue" /\ c = ","
    <3>1. V = Return(s, "stateBeginValue", "scanArrayValue")
      BY <1>2, <2>3, <2>8 DEF stateEndValue
    <3>2. At(d, i, Comma) /\ ~At(d, i, Blank) /\ ~At(d, i, EndArray)
      BY <2>2, <2>8, ByteClasses, SignBytes, Zenon
    <3>3. Closes(d, top, One(i)) = Closes(d, top, Rest(d, "stateBeginValue", i + 1))
      BY <2>2, <2>8, <3>2, ClosesOne
    <3> HIDE DEF V, stack, top
    <3>4. Into(d, i, V) <=> Completes(d, stack, Rest(d, "stateBeginValue", i + 1))
      BY <1>0, <3>1, IntoReturned DEF Base, stack
    <3> QED BY <2>1, <3>3, <3>4
  <2>9. CASE top = "parseArrayValue" /\ c = "]"
    <3>1. V = [popParseState(s) EXCEPT !.op = "scanEndArray"]
      BY <1>2, <2>3, <2>9 DEF stateEndValue
    <3>2. At(d, i, EndArray) /\ ~At(d, i, Blank)
      BY <2>2, <2>9, ByteClasses, SignBytes, Zenon
    <3>3. Closes(d, top, One(i)) = One(i + 1)
      BY <2>2, <2>9, <3>2, ClosesOne
    <3>4. "scanEndArray" \in Codes
      BY DEF Codes
    <3>5. Into(d, i, [popParseState(s) EXCEPT !.op = "scanEndArray"])
            <=> Completes(d, Outer(stack), One(i + 1))
      BY <2>0, <3>4, IntoPopped
    <3> QED BY <2>1, <3>1, <3>3, <3>5
  <2>10. CASE /\ c # " "
              /\ ~(top = "parseObjectKey" /\ c = ":")
              /\ ~(top = "parseObjectValue" /\ c = ",")
              /\ ~(top = "parseObjectValue" /\ c = "}")
              /\ ~(top = "parseArrayValue" /\ c = ",")
              /\ ~(top = "parseArrayValue" /\ c = "]")
    <3>1. V = error(s)
      BY <1>2, <2>3, <2>10 DEF stateEndValue
    <3>2. /\ ~At(d, i, Blank)
          /\ top = "parseObjectKey" => ~At(d, i, Colon)
          /\ top = "parseObjectValue" => ~At(d, i, Comma) /\ ~At(d, i, EndObject)
          /\ top = "parseArrayValue" => ~At(d, i, Comma) /\ ~At(d, i, EndArray)
      BY <2>2, <2>10, ByteClasses, Zenon
    <3>3. top \in {"parseObjectKey", "parseObjectValue", "parseArrayValue"}
      BY <2>0 DEF ParseStates
    <3> HIDE DEF top, V, c
    <3>4. /\ top = "parseObjectKey" => Closes(d, top, One(i)) = None
          /\ top = "parseObjectValue" => Closes(d, top, One(i)) = None
          /\ top = "parseArrayValue" => Closes(d, top, One(i)) = None
      BY <2>2, <3>2, ClosesOne
    <3>5. Closes(d, top, One(i)) = None
      BY <3>3, <3>4
    <3>6. ~Completes(d, Outer(stack), None)
      BY <2>0, CompletesSteps DEF Under
    <3>7. ~Into(d, i, V)
      BY <1>0, <3>1, IntoFailed
    <3> QED BY <2>1, <3>5, <3>6, <3>7
  <2> HIDE DEF V, stack, top, c
  <2> QED BY <2>4, <2>5, <2>6, <2>7, <2>8, <2>9, <2>10
<1> QED BY <1>1, <1>2

\* The states that read a scalar leave the stack alone.
LEMMA ContinueInto ==
  ASSUME NEW d, NEW i, NEW s, s \in Scanner, NEW st, NEW op,
         st \notin {"stateBeginValueOrEmpty", "stateBeginStringOrEmpty"}
  PROVE  /\ Into(d, i, Continue(s, st)) <=> Completes(d, s.parseState, Rest(d, st, i + 1))
         /\ Into(d, i, Return(s, st, op)) <=> Completes(d, s.parseState, Rest(d, st, i + 1))
         /\ ~Into(d, i, error(s))
         /\ ~Completes(d, s.parseState, None)
<1>1. s.parseState \in Seq(ParseStates)
  BY DEF Scanner
<1>2. Base(st, s.parseState) = s.parseState
  BY DEF Base
<1> QED BY <1>1, <1>2, IntoReturned, IntoFailed, CompletesSteps DEF Continue

\* No byte that a number goes on with can follow a value.
LEMMA NumberFollows ==
  \A c : c \in Digit \/ c \in Point \/ c \in ExpMark =>
           c \notin Blank /\ c \notin Comma /\ c \notin Colon /\ c \notin EndArray /\ c \notin EndObject
<1>1. \A c : c \in Digit =>
           c \notin Blank /\ c \notin Comma /\ c \notin Colon /\ c \notin EndArray /\ c \notin EndObject
  BY Zenon DEF Digit, Blank, Comma, Colon, EndArray, EndObject
<1>2. \A c : c \in Point =>
           c \notin Blank /\ c \notin Comma /\ c \notin Colon /\ c \notin EndArray /\ c \notin EndObject
  BY Zenon DEF Point, Blank, Comma, Colon, EndArray, EndObject
<1>3. \A c : c \in ExpMark =>
           c \notin Blank /\ c \notin Comma /\ c \notin Colon /\ c \notin EndArray /\ c \notin EndObject
  BY Zenon DEF ExpMark, Blank, Comma, Colon, EndArray, EndObject
<1> QED BY <1>1, <1>2, <1>3, Zenon

\* The state functions of numbers, in the classes of the grammar.
LEMMA NumberCases ==
  ASSUME NEW s, NEW c
  PROVE  /\ state0(s, c) = IF c \in Point THEN Continue(s, "stateDot")
                           ELSE IF c \in ExpMark THEN Continue(s, "stateE") ELSE stateEndValue(s, c)
         /\ state1(s, c) = IF c \in Digit THEN Continue(s, "state1") ELSE state0(s, c)
         /\ stateNeg(s, c) = IF c \in DigitZero THEN Continue(s, "state0")
                             ELSE IF c \in DigitNonzero THEN Continue(s, "state1") ELSE error(s)
         /\ stateDot(s, c) = IF c \in Digit THEN Continue(s, "stateDot0") ELSE error(s)
         /\ stateDot0(s, c) = IF c \in Digit THEN Continue(s, "stateDot0")
                              ELSE IF c \in ExpMark THEN Continue(s, "stateE") ELSE stateEndValue(s, c)
         /\ stateESign(s, c) = IF c \in Digit THEN Continue(s, "stateE0") ELSE error(s)
         /\ stateE(s, c) = IF c \in Sign THEN Continue(s, "stateESign") ELSE stateESign(s, c)
         /\ stateE0(s, c) = IF c \in Digit THEN Continue(s, "stateE0") ELSE stateEndValue(s, c)
<1>1. state0(s, c) = IF c \in Point THEN Continue(s, "stateDot")
                     ELSE IF c \in ExpMark THEN Continue(s, "stateE") ELSE stateEndValue(s, c)
  BY DEF state0, Point, ExpMark
<1>2. state1(s, c) = IF c \in Digit THEN Continue(s, "state1") ELSE state0(s, c)
  BY SetClasses DEF state1
<1>3. stateNeg(s, c) = IF c \in DigitZero THEN Continue(s, "state0")
                       ELSE IF c \in DigitNonzero THEN Continue(s, "state1") ELSE error(s)
  BY DEF stateNeg, DigitZero, DigitNonzero
<1>4. stateDot(s, c) = IF c \in Digit THEN Continue(s, "stateDot0") ELSE error(s)
  BY SetClasses DEF stateDot
<1>5. stateDot0(s, c) = IF c \in Digit THEN Continue(s, "stateDot0")
                        ELSE IF c \in ExpMark THEN Continue(s, "stateE") ELSE stateEndValue(s, c)
  BY DEF stateDot0, Digits, Digit, ExpMark
<1>6. stateESign(s, c) = IF c \in Digit THEN Continue(s, "stateE0") ELSE error(s)
  BY SetClasses DEF stateESign
<1>7. stateE(s, c) = IF c \in Sign THEN Continue(s, "stateESign") ELSE stateESign(s, c)
  BY SetClasses DEF stateE
<1>8. stateE0(s, c) = IF c \in Digit THEN Continue(s, "stateE0") ELSE stateEndValue(s, c)
  BY SetClasses DEF stateE0
<1> QED BY <1>1, <1>2, <1>3, <1>4, <1>5, <1>6, <1>7, <1>8

\* The state functions of numbers compute the derivative.
LEMMA NumberInto ==
  ASSUME NEW d, NEW i, Byteof(d, i), NEW s, Ready(s)
  PROVE  /\ Into(d, i, state0(s, d[i])) <=> Completes(d, s.parseState, Rest(d, "state0", i))
         /\ Into(d, i, state1(s, d[i])) <=> Completes(d, s.parseState, Rest(d, "state1", i))
         /\ Into(d, i, stateNeg(s, d[i])) <=> Completes(d, s.parseState, Rest(d, "stateNeg", i))
         /\ Into(d, i, stateDot(s, d[i])) <=> Completes(d, s.parseState, Rest(d, "stateDot", i))
         /\ Into(d, i, stateDot0(s, d[i])) <=> Completes(d, s.parseState, Rest(d, "stateDot0", i))
         /\ Into(d, i, stateE(s, d[i])) <=> Completes(d, s.parseState, Rest(d, "stateE", i))
         /\ Into(d, i, stateESign(s, d[i])) <=> Completes(d, s.parseState, Rest(d, "stateESign", i))
         /\ Into(d, i, stateE0(s, d[i])) <=> Completes(d, s.parseState, Rest(d, "stateE0", i))
<1> DEFINE c == d[i]
           C(J) == Completes(d, s.parseState, J)
           G(t) == Into(d, i, t)
<1>1. s \in Scanner /\ s.parseState \in Seq(ParseStates)
  BY DEF Ready, Scanner
<1>2. Position(d, i) /\ i <= Len(d) /\ \A K : At(d, i, K) <=> c \in K
  BY ByteAt
<1>3. \A st \in {"state0", "state1", "stateDot", "stateDot0", "stateE", "stateESign", "stateE0"} :
         G(Continue(s, st)) <=> C(Rest(d, st, i + 1))
  BY <1>1, ContinueInto
<1>4. ~G(error(s)) /\ ~C(None)
  BY <1>1, CompletesSteps, IntoFailed
<1>5. G(stateEndValue(s, c)) <=> C(One(i))
  BY EndValueInto
<1>6. c \in Digit \/ c \in Point \/ c \in ExpMark => \A R : C(Both(One(i), R)) <=> C(R)
  <2>1. c \in Digit \/ c \in Point \/ c \in ExpMark => ~Follows(d, i)
    BY <1>2, NumberFollows, Zenon DEF Follows
  <2> QED BY <1>1, <1>2, <2>1, CompletesNot
<1> HIDE DEF c, C, G
<1>7. G(state0(s, c)) <=> C(Rest(d, "state0", i))
  BY <1>2, <1>3, <1>5, <1>6, NumberRest, NumberCases
<1>8. G(state1(s, c)) <=> C(Rest(d, "state1", i))
  BY <1>2, <1>3, <1>6, <1>7, NumberRest, NumberCases
<1>9. G(stateNeg(s, c)) <=> C(Rest(d, "stateNeg", i))
  BY <1>2, <1>3, <1>4, NumberRest, NumberCases
<1>10. G(stateDot(s, c)) <=> C(Rest(d, "stateDot", i))
  BY <1>2, <1>3, <1>4, NumberRest, NumberCases
<1>11. G(stateDot0(s, c)) <=> C(Rest(d, "stateDot0", i))
  BY <1>2, <1>3, <1>5, <1>6, NumberRest, NumberCases
<1>12. G(stateESign(s, c)) <=> C(Rest(d, "stateESign", i))
  BY <1>2, <1>3, <1>4, NumberRest, NumberCases
<1>13. G(stateE(s, c)) <=> C(Rest(d, "stateE", i))
  BY <1>2, <1>3, <1>12, NumberRest, NumberCases
<1>14. G(stateE0(s, c)) <=> C(Rest(d, "stateE0", i))
  BY <1>2, <1>3, <1>5, <1>6, NumberRest, NumberCases
<1> QED BY <1>7, <1>8, <1>9, <1>10, <1>11, <1>12, <1>13, <1>14 DEF c, C, G

\* The state functions of strings, by class, and that they do too.
LEMMA StringCases ==
  ASSUME NEW s, NEW c
  PROVE  /\ c \in QuotationMark => stateInString(s, c) = Continue(s, "stateEndValue")
         /\ c \in Backslash => stateInString(s, c) = Continue(s, "stateInStringEsc")
         /\ c \in Control => stateInString(s, c) = error(s)
         /\ c \notin QuotationMark /\ c \notin Backslash /\ c \notin Control
              => stateInString(s, c) = Continue(s, "stateInString")
         /\ c \in Escapable => stateInStringEsc(s, c) = Continue(s, "stateInString")
         /\ c \in {"u"} => stateInStringEsc(s, c) = Continue(s, "stateInStringEscU")
         /\ c \notin Escapable /\ c \notin {"u"} => stateInStringEsc(s, c) = error(s)
<1>1. c \in QuotationMark => stateInString(s, c) = Continue(s, "stateEndValue")
  BY DEF stateInString, QuotationMark
<1>2. c \in Backslash => stateInString(s, c) = Continue(s, "stateInStringEsc")
  BY DEF stateInString, Backslash
<1>3. c \in Control => stateInString(s, c) = error(s)
  BY DEF stateInString, Control
<1>4. c \notin QuotationMark /\ c \notin Backslash /\ c \notin Control
        => stateInString(s, c) = Continue(s, "stateInString")
  BY DEF stateInString, QuotationMark, Backslash, Control
<1>5. c \in Escapable => stateInStringEsc(s, c) = Continue(s, "stateInString")
  BY DEF stateInStringEsc, Escapes, Escapable
<1>6. c \in {"u"} => stateInStringEsc(s, c) = Continue(s, "stateInStringEscU")
  BY DEF stateInStringEsc, Escapes
<1>7. c \notin Escapable /\ c \notin {"u"} => stateInStringEsc(s, c) = error(s)
  BY DEF stateInStringEsc, Escapes, Escapable
<1> QED BY <1>1, <1>2, <1>3, <1>4, <1>5, <1>6, <1>7

LEMMA StringInto ==
  ASSUME NEW d, NEW i, Byteof(d, i), NEW s, s \in Scanner
  PROVE  /\ Into(d, i, stateInString(s, d[i])) <=> Completes(d, s.parseState, Rest(d, "stateInString", i))
         /\ Into(d, i, stateInStringEsc(s, d[i]))
              <=> Completes(d, s.parseState, Rest(d, "stateInStringEsc", i))
         /\ \A st \in DOMAIN Hexadecimal :
              Into(d, i, IF d[i] \in HexDigits THEN Continue(s, Hexadecimal[st]) ELSE error(s))
                <=> Completes(d, s.parseState, Rest(d, st, i))
<1> DEFINE c == d[i]
           C(J) == Completes(d, s.parseState, J)
           G(t) == Into(d, i, t)
           u == {"u"}
<1>1. s.parseState \in Seq(ParseStates)
  BY DEF Scanner
<1>2. Position(d, i) /\ i <= Len(d) /\ ~(i > Len(d)) /\ \A K : At(d, i, K) <=> c \in K
  BY ByteAt
<1>3. \A st \in {"stateInString", "stateInStringEsc", "stateEndValue", "stateInStringEscU",
                 "stateInStringEscU1", "stateInStringEscU12", "stateInStringEscU123"} :
         G(Continue(s, st)) <=> C(Rest(d, st, i + 1))
  BY ContinueInto
<1>4. ~G(error(s)) /\ ~C(None)
  BY <1>1, CompletesSteps, IntoFailed
<1>5. /\ Rest(d, "stateInString", i) =
           IF c \in QuotationMark THEN One(i + 1)
           ELSE IF c \in Backslash THEN Rest(d, "stateInStringEsc", i + 1)
           ELSE IF c \in Control THEN None ELSE Rest(d, "stateInString", i + 1)
      /\ Rest(d, "stateInStringEsc", i) =
           IF c \in Escapable THEN Rest(d, "stateInString", i + 1)
           ELSE IF c \in u THEN Rest(d, "stateInStringEscU", i + 1) ELSE None
  BY <1>2, StringRest
<1>6. /\ Rest(d, "stateInStringEscU", i) =
           IF c \in Hex THEN Rest(d, "stateInStringEscU1", i + 1) ELSE None
      /\ Rest(d, "stateInStringEscU1", i) =
           IF c \in Hex THEN Rest(d, "stateInStringEscU12", i + 1) ELSE None
      /\ Rest(d, "stateInStringEscU12", i) =
           IF c \in Hex THEN Rest(d, "stateInStringEscU123", i + 1) ELSE None
      /\ Rest(d, "stateInStringEscU123", i) =
           IF c \in Hex THEN Rest(d, "stateInString", i + 1) ELSE None
  BY <1>2, StringRest
<1>7. c \in Escapable => c \notin u
  BY StringBytes
<1>8. /\ c \in Escapable => stateInStringEsc(s, c) = Continue(s, "stateInString")
      /\ c \in u => stateInStringEsc(s, c) = Continue(s, "stateInStringEscU")
      /\ c \notin Escapable /\ c \notin u => stateInStringEsc(s, c) = error(s)
  BY StringCases
<1>9. c \in HexDigits <=> c \in Hex
  BY SetClasses, Zenon
<1> HIDE DEF c, C, G, u
<1>10. G(stateInString(s, c)) <=> C(Rest(d, "stateInString", i))
  BY <1>3, <1>4, <1>5, StringCases, StringBytes, RestEnd
<1>11. G(stateInStringEsc(s, c)) <=> C(Rest(d, "stateInStringEsc", i))
  BY <1>3, <1>4, <1>5, <1>7, <1>8
<1>12. \A st \in DOMAIN Hexadecimal :
         G(IF c \in HexDigits THEN Continue(s, Hexadecimal[st]) ELSE error(s)) <=> C(Rest(d, st, i))
  <2>1. DOMAIN Hexadecimal = {"stateInStringEscU", "stateInStringEscU1", "stateInStringEscU12",
                              "stateInStringEscU123"}
    BY DEF Hexadecimal
  <2>2. /\ Hexadecimal["stateInStringEscU"] = "stateInStringEscU1"
        /\ Hexadecimal["stateInStringEscU1"] = "stateInStringEscU12"
        /\ Hexadecimal["stateInStringEscU12"] = "stateInStringEscU123"
        /\ Hexadecimal["stateInStringEscU123"] = "stateInString"
    BY DEF Hexadecimal
  <2> QED BY <1>3, <1>4, <1>6, <1>9, <2>1, <2>2
<1> QED BY <1>10, <1>11, <1>12 DEF c, C, G

\* So do those of literals.
LEMMA LiteralInto ==
  ASSUME NEW d, NEW i, Byteof(d, i), NEW s, s \in Scanner, NEW st \in DOMAIN Literal
  PROVE  Into(d, i, IF d[i] = Literal[st][1] THEN Continue(s, Literal[st][2]) ELSE error(s))
           <=> Completes(d, s.parseState, Rest(d, st, i))
<1> DEFINE c == d[i]
           C(J) == Completes(d, s.parseState, J)
           G(t) == Into(d, i, t)
           Q(from, byte, to) ==
             G(IF c = byte THEN Continue(s, to) ELSE error(s)) <=> C(Rest(d, from, i))
<1>1. \A to : to \notin {"stateBeginValueOrEmpty", "stateBeginStringOrEmpty"} =>
               (G(Continue(s, to)) <=> C(Rest(d, to, i + 1)))
  BY ContinueInto
<1>2. ~G(error(s)) /\ ~C(None)
  <2>1. s.parseState \in Seq(ParseStates)
    BY DEF Scanner
  <2> QED BY <2>1, CompletesSteps, IntoFailed
<1>3. \A byte : At(d, i, {byte}) <=> c = byte
  BY ByteAt
<1>4. Position(d, i)
  BY ByteAt
<1> HIDE DEF G, C, c
<1>5. ASSUME NEW from, NEW byte, NEW to,
             to \notin {"stateBeginValueOrEmpty", "stateBeginStringOrEmpty"},
             Rest(d, from, i) = IF At(d, i, {byte}) THEN Rest(d, to, i + 1) ELSE None
      PROVE  Q(from, byte, to)
  BY <1>1, <1>2, <1>3, <1>5
<1>6. Rest(d, "stateEndValue", i + 1) = One(i + 1)
  BY RestEnd
<1> HIDE DEF Q
<1>7. Q("stateT", "r", "stateTr")
  BY <1>4, <1>5, <1>6, LiteralTRest
<1>8. Q("stateTr", "u", "stateTru")
  BY <1>4, <1>5, <1>6, LiteralTRest
<1>9. Q("stateTru", "e", "stateEndValue")
  BY <1>4, <1>5, <1>6, LiteralTRest
<1>10. Q("stateF", "a", "stateFa")
  <2>1. Rest(d, "stateF", i) = IF At(d, i, {"a"}) THEN Rest(d, "stateFa", i + 1) ELSE None
    BY <1>4, LiteralFRest
  <2> QED BY <1>5, <2>1
<1>11. Q("stateFa", "l", "stateFal")
  BY <1>4, <1>5, <1>6, LiteralFRest
<1>12. Q("stateFal", "s", "stateFals")
  BY <1>4, <1>5, <1>6, LiteralFRest
<1>13. Q("stateFals", "e", "stateEndValue")
  BY <1>4, <1>5, <1>6, LiteralFRest
<1>14. Q("stateN", "u", "stateNu")
  BY <1>4, <1>5, <1>6, LiteralNRest
<1>15. Q("stateNu", "l", "stateNul")
  BY <1>4, <1>5, <1>6, LiteralNRest
<1>16. Q("stateNul", "l", "stateEndValue")
  BY <1>4, <1>5, <1>6, LiteralNRest
<1>17. Q(st, Literal[st][1], Literal[st][2])
  BY <1>7, <1>8, <1>9, <1>10, <1>11, <1>12, <1>13, <1>14, <1>15, <1>16 DEF Literal
<1> QED BY <1>17 DEF Q, G, C, c

\* The state function of a value that is due, in the classes of the grammar.
LEMMA BeginCases ==
  ASSUME NEW s, NEW c
  PROVE  /\ c \in Blank => stateBeginValue(s, c) = SkipSpace(s)
         /\ c \in BeginObject => stateBeginValue(s, c) =
              Return(pushParseState(s, "parseObjectKey"), "stateBeginStringOrEmpty", "scanBeginObject")
         /\ c \in BeginArray => stateBeginValue(s, c) =
              Return(pushParseState(s, "parseArrayValue"), "stateBeginValueOrEmpty", "scanBeginArray")
         /\ c \in QuotationMark => stateBeginValue(s, c) = Return(s, "stateInString", "scanBeginLiteral")
         /\ c \in Minus => stateBeginValue(s, c) = Return(s, "stateNeg", "scanBeginLiteral")
         /\ c \in DigitZero => stateBeginValue(s, c) = Return(s, "state0", "scanBeginLiteral")
         /\ c \in DigitNonzero => stateBeginValue(s, c) = Return(s, "state1", "scanBeginLiteral")
         /\ c \in {"t"} => stateBeginValue(s, c) = Return(s, "stateT", "scanBeginLiteral")
         /\ c \in {"f"} => stateBeginValue(s, c) = Return(s, "stateF", "scanBeginLiteral")
         /\ c \in {"n"} => stateBeginValue(s, c) = Return(s, "stateN", "scanBeginLiteral")
<1>1. c \in Blank => stateBeginValue(s, c) = SkipSpace(s)
  BY DEF stateBeginValue, Scalar, Blank
<1>2. c \in BeginObject => stateBeginValue(s, c) =
        Return(pushParseState(s, "parseObjectKey"), "stateBeginStringOrEmpty", "scanBeginObject")
  BY DEF stateBeginValue, Scalar, BeginObject
<1>3. c \in BeginArray => stateBeginValue(s, c) =
        Return(pushParseState(s, "parseArrayValue"), "stateBeginValueOrEmpty", "scanBeginArray")
  BY DEF stateBeginValue, Scalar, BeginArray
<1>4. c \in DOMAIN Scalar => stateBeginValue(s, c) = Return(s, Scalar[c], "scanBeginLiteral")
  BY DEF stateBeginValue, Scalar
<1>5. ASSUME c \in QuotationMark
      PROVE  stateBeginValue(s, c) = Return(s, "stateInString", "scanBeginLiteral")
  <2>1. c \in DOMAIN Scalar /\ Scalar[c] = "stateInString"
    BY <1>5 DEF QuotationMark, Scalar
  <2> QED BY <1>4, <2>1
<1>6. ASSUME c \in Minus PROVE stateBeginValue(s, c) = Return(s, "stateNeg", "scanBeginLiteral")
  <2>1. c \in DOMAIN Scalar /\ Scalar[c] = "stateNeg"
    BY <1>6 DEF Minus, Scalar
  <2> QED BY <1>4, <2>1
<1>7. ASSUME c \in DigitZero PROVE stateBeginValue(s, c) = Return(s, "state0", "scanBeginLiteral")
  <2>1. c \in DOMAIN Scalar /\ Scalar[c] = "state0"
    BY <1>7 DEF DigitZero, Scalar
  <2> QED BY <1>4, <2>1
<1>8. ASSUME c \in DigitNonzero PROVE stateBeginValue(s, c) = Return(s, "state1", "scanBeginLiteral")
  <2>1. c \in DOMAIN Scalar /\ Scalar[c] = "state1"
    BY <1>8 DEF DigitNonzero, Scalar
  <2> QED BY <1>4, <2>1
<1>9. ASSUME c = "t" PROVE stateBeginValue(s, c) = Return(s, "stateT", "scanBeginLiteral")
  <2>1. c \in DOMAIN Scalar /\ Scalar[c] = "stateT"
    BY <1>9 DEF Scalar
  <2> QED BY <1>4, <2>1
<1>10. ASSUME c = "f" PROVE stateBeginValue(s, c) = Return(s, "stateF", "scanBeginLiteral")
  <2>1. c \in DOMAIN Scalar /\ Scalar[c] = "stateF"
    BY <1>10 DEF Scalar
  <2> QED BY <1>4, <2>1
<1>11. ASSUME c = "n" PROVE stateBeginValue(s, c) = Return(s, "stateN", "scanBeginLiteral")
  <2>1. c \in DOMAIN Scalar /\ Scalar[c] = "stateN"
    BY <1>11 DEF Scalar
  <2> QED BY <1>4, <2>1
<1> QED BY <1>1, <1>2, <1>3, <1>5, <1>6, <1>7, <1>8, <1>9, <1>10, <1>11

\* No other byte begins a value.
LEMMA BeginNoCase ==
  ASSUME NEW s, NEW c,
         c \notin Blank, c \notin BeginObject, c \notin BeginArray, c \notin QuotationMark,
         c \notin Minus, c \notin DigitZero, c \notin DigitNonzero,
         c \notin {"t"}, c \notin {"f"}, c \notin {"n"}
  PROVE  stateBeginValue(s, c) = error(s)
<1>1. c \notin DOMAIN Scalar
  BY DEF Scalar, QuotationMark, Minus, DigitZero, DigitNonzero
<1>2. c # " " /\ c # "{" /\ c # "["
  BY Zenon DEF Blank, BeginObject, BeginArray
<1> QED BY <1>1, <1>2 DEF stateBeginValue

\* Where a value is due.
LEMMA BeginValueInto ==
  ASSUME NEW d, NEW i, Byteof(d, i), ~At(d, i, Blank), NEW s, s \in Scanner
  PROVE  Into(d, i, stateBeginValue(s, d[i])) <=> Completes(d, s.parseState, Rest(d, "stateBeginValue", i))
<1> DEFINE c == d[i]
           C(J) == Completes(d, s.parseState, J)
           G(t) == Into(d, i, t)
           V == stateBeginValue(s, c)
           R == Value(d, One(i))
           t == {"t"}
           f == {"f"}
           n == {"n"}
<1>1. Position(d, i) /\ \A K : At(d, i, K) <=> c \in K
  BY ByteAt
<1>2. Rest(d, "stateBeginValue", i) = R
  BY <1>1, BeginRest
<1>3. \A st \in {"stateInString", "stateNeg", "state0", "state1", "stateT", "stateF", "stateN"} :
         G(Return(s, st, "scanBeginLiteral")) <=> C(Rest(d, st, i + 1))
  BY ContinueInto
<1>4. /\ G(Return(pushParseState(s, "parseObjectKey"), "stateBeginStringOrEmpty", "scanBeginObject"))
           <=> C(Rest(d, "stateBeginStringOrEmpty", i + 1))
      /\ G(Return(pushParseState(s, "parseArrayValue"), "stateBeginValueOrEmpty", "scanBeginArray"))
           <=> C(Rest(d, "stateBeginValueOrEmpty", i + 1))
  BY IntoPushed DEF ParseStates
<1>5. ~G(error(s)) /\ ~C(None)
  <2>1. s.parseState \in Seq(ParseStates)
    BY DEF Scanner
  <2> QED BY <2>1, CompletesSteps, IntoFailed
<1>6. /\ c \in BeginObject => V =
           Return(pushParseState(s, "parseObjectKey"), "stateBeginStringOrEmpty", "scanBeginObject")
      /\ c \in BeginArray => V =
           Return(pushParseState(s, "parseArrayValue"), "stateBeginValueOrEmpty", "scanBeginArray")
      /\ c \in QuotationMark => V = Return(s, "stateInString", "scanBeginLiteral")
      /\ c \in Minus => V = Return(s, "stateNeg", "scanBeginLiteral")
      /\ c \in DigitZero => V = Return(s, "state0", "scanBeginLiteral")
      /\ c \in DigitNonzero => V = Return(s, "state1", "scanBeginLiteral")
      /\ c \in t => V = Return(s, "stateT", "scanBeginLiteral")
      /\ c \in f => V = Return(s, "stateF", "scanBeginLiteral")
      /\ c \in n => V = Return(s, "stateN", "scanBeginLiteral")
  BY BeginCases
<1>7. /\ c \notin BeginObject /\ c \notin BeginArray /\ c \notin QuotationMark
      /\ c \notin Minus /\ c \notin DigitZero /\ c \notin DigitNonzero
      /\ c \notin t /\ c \notin f /\ c \notin n
      => V = error(s)
  BY <1>1, BeginNoCase
<1>8. /\ c \in QuotationMark => R = Rest(d, "stateInString", i + 1)
      /\ c \in BeginArray => R = Rest(d, "stateBeginValueOrEmpty", i + 1)
      /\ c \in BeginObject => R = Rest(d, "stateBeginStringOrEmpty", i + 1)
      /\ c \in Minus => R = Rest(d, "stateNeg", i + 1)
      /\ c \in DigitZero => R = Rest(d, "state0", i + 1)
      /\ c \in DigitNonzero => R = Rest(d, "state1", i + 1)
      /\ c \in t => R = Rest(d, "stateT", i + 1)
      /\ c \in f => R = Rest(d, "stateF", i + 1)
      /\ c \in n => R = Rest(d, "stateN", i + 1)
  BY <1>1, ValueFirst
<1>9. /\ c \notin BeginObject /\ c \notin BeginArray /\ c \notin QuotationMark
      /\ c \notin Minus /\ c \notin DigitZero /\ c \notin DigitNonzero
      /\ c \notin t /\ c \notin f /\ c \notin n
      => R = None
  BY <1>1, ValueFirst
<1> HIDE DEF c, C, G, V, R, t, f, n
<1>10. G(V) <=> C(R)
  BY <1>3, <1>4, <1>5, <1>6, <1>7, <1>8, <1>9
<1> QED BY <1>2, <1>10 DEF c, C, G, V, R

\* The first byte of a key.
LEMMA BeginStringInto ==
  ASSUME NEW d, NEW i, Byteof(d, i), ~At(d, i, Blank), NEW s, s \in Scanner
  PROVE  Into(d, i, stateBeginString(s, d[i])) <=> Completes(d, s.parseState, Rest(d, "stateBeginString", i))
<1> DEFINE c == d[i]
<1>1. Position(d, i) /\ \A K : At(d, i, K) <=> c \in K
  BY ByteAt
<1>2. c # " " /\ (c = "\"" <=> c \in QuotationMark)
  BY <1>1, ByteClasses, Zenon
<1>3. stateBeginString(s, c) =
        IF c \in QuotationMark THEN Return(s, "stateInString", "scanBeginLiteral") ELSE error(s)
  BY <1>2 DEF stateBeginString
<1>4. Rest(d, "stateBeginString", i) =
        IF c \in QuotationMark THEN Rest(d, "stateInString", i + 1) ELSE None
  BY <1>1, BeginRest
<1>5. Into(d, i, Return(s, "stateInString", "scanBeginLiteral"))
        <=> Completes(d, s.parseState, Rest(d, "stateInString", i + 1))
  BY ContinueInto
<1>6. ~Into(d, i, error(s)) /\ ~Completes(d, s.parseState, None)
  <2>1. s.parseState \in Seq(ParseStates)
    BY DEF Scanner
  <2> QED BY <2>1, CompletesSteps, IntoFailed
<1> HIDE DEF c
<1>7. Into(d, i, stateBeginString(s, c)) <=> Completes(d, s.parseState, Rest(d, "stateBeginString", i))
  BY <1>3, <1>4, <1>5, <1>6
<1> QED BY <1>7 DEF c

\* The space before what is due.
LEMMA SkippedInto ==
  ASSUME NEW d, NEW i, Byteof(d, i), At(d, i, Blank), NEW s, s \in Scanner,
         s.step \in {"stateBeginValue", "stateBeginString",
                     "stateBeginValueOrEmpty", "stateBeginStringOrEmpty"}
  PROVE  /\ Into(d, i, SkipSpace(s)) <=> Continues(d, i, s.step, s.parseState)
         /\ step(s, d[i]) = SkipSpace(s)
<1> DEFINE c == d[i]
<1>1. Position(d, i) /\ c \in Blank
  BY ByteAt
<1>2. SkipSpace(s) = Return(s, s.step, "scanSkipSpace")
  BY DEF Scanner, SkipSpace, Return
<1>3. Rest(d, s.step, i) = Rest(d, s.step, i + 1)
  BY <1>1, BeginRest
<1>4. Into(d, i, SkipSpace(s)) <=> Continues(d, i, s.step, s.parseState)
  BY <1>2, <1>3, IntoReturned DEF Continues
<1>5. c = " "
  BY <1>1, ByteClasses, Zenon
<1>6. c # "]" /\ c # "}"
  BY <1>5
<1>7. stateBeginValue(s, c) = SkipSpace(s)
  BY <1>1, BeginCases
<1>8. stateBeginString(s, c) = SkipSpace(s)
  BY <1>5 DEF stateBeginString
<1>9. /\ stateBeginValueOrEmpty(s, c) = SkipSpace(s)
      /\ stateBeginStringOrEmpty(s, c) = SkipSpace(s)
  BY <1>6, <1>7, <1>8 DEF stateBeginValueOrEmpty, stateBeginStringOrEmpty
<1>10. s.step = "stateBeginValue" => step(s, c) = stateBeginValue(s, c)
  BY DEF step, Hexadecimal, Literal
<1>11. s.step = "stateBeginValueOrEmpty" => step(s, c) = stateBeginValueOrEmpty(s, c)
  BY DEF step, Hexadecimal, Literal
<1>12. s.step = "stateBeginString" => step(s, c) = stateBeginString(s, c)
  BY DEF step, Hexadecimal, Literal
<1>13. s.step = "stateBeginStringOrEmpty" => step(s, c) = stateBeginStringOrEmpty(s, c)
  BY DEF step, Hexadecimal, Literal
<1>14. step(s, c) = SkipSpace(s)
  BY <1>7, <1>8, <1>9, <1>10, <1>11, <1>12, <1>13
<1> QED BY <1>4, <1>14

\* The bracket of an empty array or object, or its first item.
LEMMA OrEmptyInto ==
  ASSUME NEW d, NEW i, Byteof(d, i), ~At(d, i, Blank), NEW s, Sound(s)
  PROVE  /\ s.step = "stateBeginValueOrEmpty" =>
              (Into(d, i, stateBeginValueOrEmpty(s, d[i])) <=> Continues(d, i, s.step, s.parseState))
         /\ s.step = "stateBeginStringOrEmpty" =>
              (Into(d, i, stateBeginStringOrEmpty(s, d[i])) <=> Continues(d, i, s.step, s.parseState))
<1> DEFINE c == d[i]
           stack == s.parseState
           top == stack[Len(stack)]
<1>0. s \in Scanner /\ stack \in Seq(ParseStates)
  BY DEF Sound, Scanner
<1>1. Position(d, i) /\ \A K : At(d, i, K) <=> c \in K
  BY ByteAt
<1>2. (c = "]" <=> At(d, i, EndArray)) /\ (c = "}" <=> At(d, i, EndObject))
  BY <1>1, ByteClasses, Zenon
<1>3. ASSUME s.step \in {"stateBeginValueOrEmpty", "stateBeginStringOrEmpty"}
      PROVE  /\ Ready(s) /\ stack # <<>> /\ Len(stack) # 0 /\ Under(Outer(stack), stack)
             /\ s.step = "stateBeginValueOrEmpty" => top = "parseArrayValue"
             /\ s.step = "stateBeginStringOrEmpty" => top = "parseObjectKey"
             /\ Continues(d, i, s.step, stack) <=> Completes(d, Outer(stack), Rest(d, s.step, i))
             /\ \A J : Completes(d, stack, J) <=> Completes(d, Outer(stack), Closes(d, top, J))
  <2>1. Ready(s)
    BY <1>3, OpenIsReady DEF OpenSteps
  <2>2. /\ stack # <<>>
        /\ s.step = "stateBeginValueOrEmpty" => top = "parseArrayValue"
        /\ s.step = "stateBeginStringOrEmpty" => top = "parseObjectKey"
    BY <1>3 DEF Sound, Fits, InKey, InArray
  <2>3. Len(stack) # 0
    BY <1>0, <2>2, EmptySeq
  <2>4. Under(Outer(stack), stack)
    BY <1>0, <2>3, OuterUnder
  <2>5. Continues(d, i, s.step, stack) <=> Completes(d, Outer(stack), Rest(d, s.step, i))
    BY <1>3 DEF Continues, Base
  <2> QED BY <2>1, <2>2, <2>3, <2>4, <2>5, CompletesTop
<1>4. ASSUME s.step = "stateBeginValueOrEmpty"
      PROVE  Into(d, i, stateBeginValueOrEmpty(s, c)) <=> Completes(d, Outer(stack), Rest(d, s.step, i))
  <2>1. CASE c = "]"
    <3>1. Into(d, i, stateEndValue(s, c)) <=> Completes(d, Outer(stack), Closes(d, top, One(i)))
      BY <1>3, <1>4, EndValueInto
    <3>2. Closes(d, top, One(i)) = One(i + 1) /\ Rest(d, s.step, i) = One(i + 1)
      BY <1>1, <1>2, <1>3, <1>4, <2>1, ClosesOne, BeginRest
    <3> QED BY <2>1, <3>1, <3>2 DEF stateBeginValueOrEmpty
  <2>2. CASE c # "]"
    <3>1. Into(d, i, stateBeginValue(s, c)) <=> Completes(d, stack, Rest(d, "stateBeginValue", i))
      BY <1>0, BeginValueInto
    <3>2. Rest(d, s.step, i) = Closes(d, top, Rest(d, "stateBeginValue", i))
      BY <1>1, <1>2, <1>3, <1>4, <2>2, BeginRest, ClosesShape
    <3>3. stateBeginValueOrEmpty(s, c) = stateBeginValue(s, c)
      BY <2>2 DEF stateBeginValueOrEmpty
    <3> QED BY <1>3, <1>4, <3>1, <3>2, <3>3
  <2> QED BY <2>1, <2>2
<1>5. ASSUME s.step = "stateBeginStringOrEmpty"
      PROVE  Into(d, i, stateBeginStringOrEmpty(s, c)) <=> Completes(d, Outer(stack), Rest(d, s.step, i))
  <2>1. CASE c = "}"
    <3> DEFINE e == SetTop(s, "parseObjectValue")
    <3>1. /\ Ready(e)
          /\ Under(Outer(stack), e.parseState)
          /\ e.parseState[Len(e.parseState)] = "parseObjectValue"
      BY <1>0, <1>3, <1>5, TopSet, TopSetUnder DEF ParseStates
    <3> HIDE DEF e
    <3>2. Into(d, i, stateEndValue(e, c)) <=> Completes(d, e.parseState, One(i))
      BY <3>1, EndValueInto
    <3>3. Completes(d, e.parseState, One(i))
            <=> Completes(d, Outer(stack), Closes(d, "parseObjectValue", One(i)))
      BY <3>1, CompletesTop
    <3>4. Closes(d, "parseObjectValue", One(i)) = One(i + 1) /\ Rest(d, s.step, i) = One(i + 1)
      BY <1>1, <1>2, <1>5, <2>1, ClosesOne, BeginRest
    <3>5. stateBeginStringOrEmpty(s, c) = stateEndValue(e, c)
      BY <2>1 DEF stateBeginStringOrEmpty, e
    <3> QED BY <3>2, <3>3, <3>4, <3>5
  <2>2. CASE c # "}"
    <3>1. Into(d, i, stateBeginString(s, c)) <=> Completes(d, stack, Rest(d, "stateBeginString", i))
      BY <1>0, BeginStringInto
    <3>2. Rest(d, s.step, i) = Closes(d, top, Rest(d, "stateBeginString", i))
      <4>1. ~At(d, i, EndObject)
        BY <1>2, <2>2
      <4>2. Rest(d, "stateBeginStringOrEmpty", i)
              = Members(d, Named(d, Rest(d, "stateBeginString", i)))
        BY <1>1, <4>1, BeginRest
      <4>3. Closes(d, "parseObjectKey", Rest(d, "stateBeginString", i))
              = Members(d, Named(d, Rest(d, "stateBeginString", i)))
        BY ClosesShape
      <4>4. top = "parseObjectKey"
        BY <1>3, <1>5
      <4> QED BY <1>5, <4>2, <4>3, <4>4
    <3>3. stateBeginStringOrEmpty(s, c) = stateBeginString(s, c)
      BY <2>2 DEF stateBeginStringOrEmpty
    <3> QED BY <1>3, <1>5, <3>1, <3>2, <3>3
  <2> QED BY <2>1, <2>2
<1> QED BY <1>3, <1>4, <1>5

\* The scanner's step is exact: what is left of d completes the text before a
\* byte if and only if it does after it.
LEMMA StepInto ==
  ASSUME NEW d, NEW i, Byteof(d, i), NEW s, Sound(s)
  PROVE  Into(d, i, step(s, d[i])) <=> Continues(d, i, s.step, s.parseState)
<1> DEFINE c == d[i]
           t == step(s, c)
<1> SUFFICES Into(d, i, t) <=> Continues(d, i, s.step, s.parseState)
  OBVIOUS
<1> HIDE DEF t
<1>0. s \in Scanner /\ s.step \in Steps /\ s.parseState \in Seq(ParseStates)
  BY DEF Sound, Scanner
<1>1. s.step \notin {"stateBeginValueOrEmpty", "stateBeginStringOrEmpty"} =>
        (Continues(d, i, s.step, s.parseState) <=> Completes(d, s.parseState, Rest(d, s.step, i)))
  BY DEF Continues, Base
<1>2. CASE s.step \in {"stateBeginValue", "stateBeginValueOrEmpty", "stateBeginString",
                       "stateBeginStringOrEmpty"}
  <2>1. CASE At(d, i, Blank)
    BY <1>0, <1>2, <2>1, SkippedInto DEF t
  <2>2. CASE ~At(d, i, Blank)
    <3>1. s.step = "stateBeginValue" => t = stateBeginValue(s, c)
      BY DEF t, step, Hexadecimal, Literal
    <3>2. s.step = "stateBeginValueOrEmpty" => t = stateBeginValueOrEmpty(s, c)
      BY DEF t, step, Hexadecimal, Literal
    <3>3. s.step = "stateBeginString" => t = stateBeginString(s, c)
      BY DEF t, step, Hexadecimal, Literal
    <3>4. s.step = "stateBeginStringOrEmpty" => t = stateBeginStringOrEmpty(s, c)
      BY DEF t, step, Hexadecimal, Literal
    <3>5. Into(d, i, stateBeginValue(s, c)) <=> Completes(d, s.parseState, Rest(d, "stateBeginValue", i))
      BY <1>0, <2>2, BeginValueInto
    <3>6. Into(d, i, stateBeginString(s, c)) <=> Completes(d, s.parseState, Rest(d, "stateBeginString", i))
      BY <1>0, <2>2, BeginStringInto
    <3>7. /\ s.step = "stateBeginValueOrEmpty" =>
               (Into(d, i, stateBeginValueOrEmpty(s, c)) <=> Continues(d, i, s.step, s.parseState))
          /\ s.step = "stateBeginStringOrEmpty" =>
               (Into(d, i, stateBeginStringOrEmpty(s, c)) <=> Continues(d, i, s.step, s.parseState))
      BY <2>2, OrEmptyInto
    <3> QED BY <1>1, <1>2, <3>1, <3>2, <3>3, <3>4, <3>5, <3>6, <3>7
  <2> QED BY <2>1, <2>2
<1>3. CASE s.step = "stateEndValue"
  <2>1. t = stateEndValue(s, c)
    BY <1>3 DEF t, step, Hexadecimal, Literal
  <2>2. Ready(s)
    BY <1>3, OpenIsReady DEF OpenSteps
  <2>3. Into(d, i, stateEndValue(s, c)) <=> Completes(d, s.parseState, One(i))
    BY <2>2, EndValueInto
  <2> QED BY <1>1, <1>3, <2>1, <2>3, RestEnd
<1>4. CASE s.step = "stateEndTop"
  <2>1. t = stateEndTop(s, c)
    BY <1>4 DEF t, step, Hexadecimal, Literal
  <2>2. s.parseState = <<>>
    BY <1>4 DEF Sound, Fits
  <2>3. Into(d, i, stateEndTop(s, c)) <=> Completes(d, s.parseState, One(i))
    BY <1>0, <1>4, <2>2, EndTopInto
  <2> QED BY <1>1, <1>4, <2>1, <2>3, RestEnd
<1>5. CASE s.step \in StringSteps
  <2>1. s.step = "stateInString" => t = stateInString(s, c)
    BY DEF t, step, Hexadecimal, Literal
  <2>2. s.step = "stateInStringEsc" => t = stateInStringEsc(s, c)
    BY DEF t, step, Hexadecimal, Literal
  <2>3. s.step \in DOMAIN Hexadecimal =>
          t = IF c \in HexDigits THEN Continue(s, Hexadecimal[s.step]) ELSE error(s)
    BY DEF t, step, Hexadecimal, Literal
  <2>4. /\ Into(d, i, stateInString(s, c)) <=> Completes(d, s.parseState, Rest(d, "stateInString", i))
        /\ Into(d, i, stateInStringEsc(s, c))
             <=> Completes(d, s.parseState, Rest(d, "stateInStringEsc", i))
    BY <1>0, StringInto
  <2>5. s.step \in DOMAIN Hexadecimal =>
          (Into(d, i, IF c \in HexDigits THEN Continue(s, Hexadecimal[s.step]) ELSE error(s))
             <=> Completes(d, s.parseState, Rest(d, s.step, i)))
    BY <1>0, StringInto
  <2>6. s.step \in {"stateInString", "stateInStringEsc"} \/ s.step \in DOMAIN Hexadecimal
    BY <1>5 DEF StringSteps
  <2>7. s.step \notin {"stateBeginValueOrEmpty", "stateBeginStringOrEmpty"}
    BY <1>5 DEF StringSteps, Hexadecimal
  <2> QED BY <1>1, <2>1, <2>2, <2>3, <2>4, <2>5, <2>6, <2>7
<1>6. CASE s.step \in DOMAIN Literal
  <2>1. t = IF c = Literal[s.step][1] THEN Continue(s, Literal[s.step][2]) ELSE error(s)
    BY <1>6 DEF t, step, Hexadecimal, Literal
  <2>2. Into(d, i, IF c = Literal[s.step][1] THEN Continue(s, Literal[s.step][2]) ELSE error(s))
          <=> Completes(d, s.parseState, Rest(d, s.step, i))
    BY <1>0, <1>6, LiteralInto
  <2>3. s.step \notin {"stateBeginValueOrEmpty", "stateBeginStringOrEmpty"}
    BY <1>6 DEF Literal
  <2> QED BY <1>1, <2>1, <2>2, <2>3
<1>7. CASE s.step \in {"stateNeg", "state1", "state0", "stateDot", "stateDot0", "stateE",
                       "stateESign", "stateE0"}
  <2>1. Ready(s)
    BY <1>7, OpenIsReady DEF OpenSteps, ScalarSteps
  <2>2. /\ s.step = "stateNeg" => t = stateNeg(s, c)
        /\ s.step = "state1" => t = state1(s, c)
        /\ s.step = "state0" => t = state0(s, c)
        /\ s.step = "stateDot" => t = stateDot(s, c)
    BY DEF t, step, Hexadecimal, Literal
  <2>3. /\ s.step = "stateDot0" => t = stateDot0(s, c)
        /\ s.step = "stateE" => t = stateE(s, c)
        /\ s.step = "stateESign" => t = stateESign(s, c)
        /\ s.step = "stateE0" => t = stateE0(s, c)
    BY DEF t, step, Hexadecimal, Literal
  <2> QED BY <1>1, <1>7, <2>1, <2>2, <2>3, NumberInto
<1>8. CASE s.step = "stateError"
  <2>1. Sound(t) /\ t.op = "scanError"
    BY <1>8, StaysInError DEF Result, t
  <2>2. t.step = "stateError" /\ t.parseState \in Seq(ParseStates)
    BY <2>1 DEF Sound, Scanner
  <2>3. ~Into(d, i, t)
    BY <2>2, IntoError
  <2>4. ~Completes(d, s.parseState, Rest(d, s.step, i))
    BY <1>0, <1>8, RestEnd, CompletesSteps
  <2> QED BY <1>1, <1>8, <2>3, <2>4
<1> QED BY <1>0, <1>2, <1>3, <1>4, <1>5, <1>6, <1>7, <1>8 DEF Steps, OpenSteps, ScalarSteps

---------------------------------------------------------------------------
(* The end of the text.                                                    *)

\* The states a value may end in, and the scanners that may stop there.
FinalSteps == {"stateEndTop", "stateEndValue", "state0", "state1", "stateDot0", "stateE0"}
Finished(s) == s.parseState = <<>> /\ s.step \in FinalSteps

\* What is left of a text that is over: nothing, and that only ends a value.
LEMMA EndRest ==
  ASSUME NEW d, Len(d) \in Nat, NEW st \in Steps
  PROVE  Rest(d, st, Len(d) + 1) = IF st \in FinalSteps THEN One(Len(d) + 1) ELSE None
<1> DEFINE i == Len(d) + 1
<1>1. Position(d, i) /\ i > Len(d)
  BY DEF Position
<1>2. \A C : ~At(d, i, C)
  BY DEF At
<1> HIDE DEF i
<1>3. Value(d, One(i)) = None
  BY <1>1, <1>2, ValueFirst
<1>4. Named(d, None) = None /\ Elements(d, None) = None /\ Members(d, None) = None
  BY PartsBoth
<1>5. /\ Rest(d, "stateBeginValue", i) = None
      /\ Rest(d, "stateBeginString", i) = None
      /\ Rest(d, "stateBeginValueOrEmpty", i) = None
      /\ Rest(d, "stateBeginStringOrEmpty", i) = None
  BY <1>1, <1>2, <1>3, <1>4, BeginRest
<1>6. /\ Rest(d, "stateInString", i) = None
      /\ Rest(d, "stateInStringEsc", i) = None
      /\ Rest(d, "stateInStringEscU", i) = None
      /\ Rest(d, "stateInStringEscU1", i) = None
      /\ Rest(d, "stateInStringEscU12", i) = None
      /\ Rest(d, "stateInStringEscU123", i) = None
  BY <1>1, <1>2, StringRest
<1>7. /\ Rest(d, "stateT", i) = None
      /\ Rest(d, "stateTr", i) = None
      /\ Rest(d, "stateTru", i) = None
  BY <1>1, <1>2, LiteralTRest
<1>8. /\ Rest(d, "stateF", i) = None
      /\ Rest(d, "stateFa", i) = None
      /\ Rest(d, "stateFal", i) = None
      /\ Rest(d, "stateFals", i) = None
  BY <1>1, <1>2, LiteralFRest
<1>9. /\ Rest(d, "stateN", i) = None
      /\ Rest(d, "stateNu", i) = None
      /\ Rest(d, "stateNul", i) = None
  BY <1>1, <1>2, LiteralNRest
<1>10. /\ Rest(d, "stateNeg", i) = None
       /\ Rest(d, "stateDot", i) = None
       /\ Rest(d, "stateE", i) = None
       /\ Rest(d, "stateESign", i) = None
  BY <1>1, <1>2, NumberRest
<1>11. /\ Rest(d, "state0", i) = One(i)
       /\ Rest(d, "state1", i) = One(i)
       /\ Rest(d, "stateDot0", i) = One(i)
       /\ Rest(d, "stateE0", i) = One(i)
  BY <1>1, <1>2, NumberRest
<1>12. /\ Rest(d, "stateEndValue", i) = One(i)
       /\ Rest(d, "stateEndTop", i) = One(i)
       /\ Rest(d, "stateError", i) = None
  BY RestEnd
<1>13. Rest(d, st, i) = IF st \in FinalSteps THEN One(i) ELSE None
  <2>1. CASE st \in StringSteps
    BY <1>6, <2>1 DEF StringSteps, Hexadecimal, FinalSteps
  <2>2. CASE st \in DOMAIN Literal
    BY <1>7, <1>8, <1>9, <2>2 DEF Literal, FinalSteps
  <2>3. CASE st \in {"stateNeg", "state1", "state0", "stateDot", "stateDot0", "stateE",
                     "stateESign", "stateE0"}
    BY <1>10, <1>11, <2>3 DEF FinalSteps
  <2>4. CASE st \in {"stateBeginValue", "stateBeginValueOrEmpty", "stateBeginString",
                     "stateBeginStringOrEmpty", "stateEndValue", "stateEndTop", "stateError"}
    BY <1>5, <1>12, <2>4 DEF FinalSteps
  <2> QED BY <2>1, <2>2, <2>3, <2>4 DEF Steps, OpenSteps, ScalarSteps
<1> QED BY <1>13 DEF i

\* The end of the text completes it if no bracket is open and the value may end.
LEMMA EndContinues ==
  ASSUME NEW d, Len(d) \in Nat, NEW s, Sound(s)
  PROVE  Continues(d, Len(d) + 1, s.step, s.parseState) <=> Finished(s)
<1> DEFINE i == Len(d) + 1
           stack == s.parseState
<1>1. Position(d, i) /\ s.step \in Steps /\ stack \in Seq(ParseStates) /\ Len(stack) \in Nat
  BY DEF Position, Sound, Scanner
<1>2. \A C : ~At(d, i, C)
  BY DEF At
<1>3. Rest(d, s.step, i) = IF s.step \in FinalSteps THEN One(i) ELSE None
  BY <1>1, EndRest
<1>4. stack = <<>> <=> Len(stack) = 0
  BY <1>1, EmptySeq
<1>5. s.step \in FinalSteps => Base(s.step, stack) = stack
  BY DEF FinalSteps, Base
<1>6. Base(s.step, stack) \in Seq(ParseStates)
  <2>1. CASE s.step \in {"stateBeginValueOrEmpty", "stateBeginStringOrEmpty"}
    <3>1. stack # <<>>
      BY <2>1 DEF Sound, Fits, InKey, InArray
    <3>2. Outer(stack) \in Seq(ParseStates)
      BY <1>1, <1>4, <3>1, OuterUnder DEF Under
    <3> QED BY <2>1, <3>2 DEF Base
  <2>2. CASE s.step \notin {"stateBeginValueOrEmpty", "stateBeginStringOrEmpty"}
    BY <1>1, <2>2 DEF Base
  <2> QED BY <2>1, <2>2
<1> HIDE DEF i, stack
<1>7. CASE s.step \notin FinalSteps
  <2>1. ~Completes(d, Base(s.step, stack), None)
    BY <1>6, CompletesSteps
  <2> QED BY <1>3, <1>7, <2>1 DEF Continues, Finished, i, stack
<1>8. CASE s.step \in FinalSteps /\ stack = <<>>
  <2>1. Completes(d, stack, One(i)) <=> Len(d) + 1 \in Space(d, One(i))
    BY <1>4, <1>8, CompletesEmpty
  <2>2. Space(d, One(i)) = One(i)
    BY <1>1, <1>2, SpaceOne
  <2>3. Completes(d, stack, One(i))
    BY <2>1, <2>2 DEF One, i
  <2> QED BY <1>3, <1>5, <1>8, <2>3 DEF Continues, Finished, i, stack
<1>9. CASE s.step \in FinalSteps /\ stack # <<>>
  <2> DEFINE top == stack[Len(stack)]
  <2>1. Under(Outer(stack), stack) /\ top \in ParseStates
    BY <1>1, <1>4, <1>9, OuterUnder
  <2>2. Closes(d, top, One(i)) = None
    BY <1>1, <1>2, <2>1, ClosesOne DEF ParseStates
  <2>3. Completes(d, stack, One(i)) <=> Completes(d, Outer(stack), Closes(d, top, One(i)))
    BY <2>1, CompletesTop
  <2>4. ~Completes(d, Outer(stack), None)
    BY <2>1, CompletesSteps DEF Under
  <2> QED BY <1>3, <1>5, <1>9, <2>2, <2>3, <2>4 DEF Continues, Finished, i, stack
<1> QED BY <1>7, <1>8, <1>9

\* Outside every bracket and string, a space ends the value exactly in the
\* states it may end in.
LEMMA SpaceFinishes ==
  ASSUME NEW s, Sound(s), s.step \in OpenSteps \ StringSteps, s.parseState = <<>>
  PROVE  step(s, " ").endTop <=> s.step \in FinalSteps
<1> DEFINE c == " "
           t == step(s, c)
<1> SUFFICES t.endTop <=> s.step \in FinalSteps
  OBVIOUS
<1>1. Ready(s) /\ s \in Scanner /\ ~s.endTop
  BY OpenIsReady DEF Ready
<1>2. ~error(s).endTop /\ ~SkipSpace(s).endTop /\ \A st : ~Continue(s, st).endTop
  BY <1>1, ErrorEffect DEF SkipSpace, Continue, Return, Scanner
<1>3. stateEndValue(s, c).endTop
  <2> DEFINE r == [s EXCEPT !.step = "stateEndTop", !.endTop = TRUE]
  <2>1. stateEndValue(s, c) = [r EXCEPT !.op = "scanEnd"]
    BY DEF stateEndValue, stateEndTop
  <2>2. r \in Scanner /\ r.endTop
    BY <1>1 DEF Scanner, Steps
  <2> HIDE DEF r
  <2> QED BY <2>1, <2>2 DEF Scanner
<1>4. CASE s.step \in {"stateBeginValue", "stateBeginValueOrEmpty", "stateBeginString",
                       "stateBeginStringOrEmpty"}
  <2>1. s.step = "stateBeginValue"
    BY <1>4 DEF Sound, Fits, InKey, InArray
  <2>2. t = stateBeginValue(s, c)
    BY <2>1 DEF step, Hexadecimal, Literal
  <2>3. stateBeginValue(s, c) = SkipSpace(s)
    BY DEF stateBeginValue, Scalar
  <2> HIDE DEF t
  <2> QED BY <1>2, <2>1, <2>2, <2>3 DEF FinalSteps
<1>5. CASE s.step = "stateEndValue"
  <2>1. t = stateEndValue(s, c)
    BY <1>5 DEF step, Hexadecimal, Literal
  <2> HIDE DEF t
  <2> QED BY <1>3, <1>5, <2>1 DEF FinalSteps
<1>6. CASE s.step \in DOMAIN Literal
  <2>1. t \in {Continue(s, Literal[s.step][2]), error(s)}
    BY <1>6 DEF step, Hexadecimal, Literal
  <2>2. s.step \notin FinalSteps
    BY <1>6 DEF Literal, FinalSteps
  <2> HIDE DEF t
  <2> QED BY <1>2, <2>1, <2>2
<1>7. CASE s.step \in {"stateNeg", "stateDot", "stateE", "stateESign"}
  <2>1. stateNeg(s, c) = error(s) /\ stateDot(s, c) = error(s) /\ stateESign(s, c) = error(s)
    BY DEF stateNeg, stateDot, stateESign, Digits
  <2>2. stateE(s, c) = error(s)
    BY <2>1 DEF stateE
  <2>3. t \in {stateNeg(s, c), stateDot(s, c), stateE(s, c), stateESign(s, c)}
    BY <1>7 DEF step, Hexadecimal, Literal
  <2> HIDE DEF t
  <2> QED BY <1>2, <1>7, <2>1, <2>2, <2>3 DEF FinalSteps
<1>8. CASE s.step \in {"state1", "state0", "stateDot0", "stateE0"}
  <2>1. state0(s, c) = stateEndValue(s, c)
    BY DEF state0
  <2>2. state1(s, c) = stateEndValue(s, c)
    BY <2>1 DEF state1, Digits
  <2>3. stateDot0(s, c) = stateEndValue(s, c) /\ stateE0(s, c) = stateEndValue(s, c)
    BY DEF stateDot0, stateE0, Digits
  <2>4. t \in {state1(s, c), state0(s, c), stateDot0(s, c), stateE0(s, c)}
    BY <1>8 DEF step, Hexadecimal, Literal
  <2> HIDE DEF t
  <2> QED BY <1>3, <1>8, <2>1, <2>2, <2>3, <2>4 DEF FinalSteps
<1> QED BY <1>4, <1>5, <1>6, <1>7, <1>8 DEF OpenSteps, ScalarSteps

\* What checkValid asks for at the end of the text.
LEMMA EofFinished ==
  ASSUME NEW s, Sound(s)
  PROVE  eof(s).op # "scanError" <=> Finished(s)
<1>1. s \in Scanner /\ s.step \in Steps
  BY DEF Sound, Scanner
<1>2. s.err = NoError <=> s.step # "stateError"
  BY DEF Sound
<1>3. CASE s.err # NoError
  BY <1>2, <1>3, AcceptedEnds DEF Finished, FinalSteps
<1>4. CASE s.err = NoError /\ s.endTop
  <2>1. s.step = "stateEndTop" /\ s.parseState = <<>>
    BY <1>2, <1>4 DEF Sound
  <2>2. eof(s) = [s EXCEPT !.op = "scanEnd"]
    BY <1>4 DEF eof, ended
  <2>3. eof(s).op = "scanEnd"
    BY <1>1, <2>2 DEF Scanner
  <2> QED BY <2>1, <2>3 DEF Finished, FinalSteps
<1>5. CASE s.err = NoError /\ ~s.endTop
  <2> DEFINE t == step(s, " ")
  <2>1. s.step \in OpenSteps
    BY <1>1, <1>2, <1>5 DEF Sound, Steps
  <2>2. t \in Scanner
    BY StepSound DEF Result, Sound
  <2>3. eof(s) = ended(t)
    BY <1>5 DEF eof
  <2> HIDE DEF t
  <2>4. t.endTop => ended(t).op = "scanEnd"
    BY <2>2 DEF ended, Scanner
  <2>5. ~t.endTop => ended(t).op = "scanError"
    BY <2>2 DEF ended, Scanner
  <2>6. eof(s).op # "scanError" <=> t.endTop
    BY <2>3, <2>4, <2>5
  <2>7. Finished(s) => s.step \notin StringSteps
    BY DEF Finished, FinalSteps, StringSteps, Hexadecimal
  <2>8. s.parseState = <<>> /\ s.step \notin StringSteps => (t.endTop <=> s.step \in FinalSteps)
    BY <2>1, SpaceFinishes DEF t
  <2>9. eof(s).op # "scanError" => s.parseState = <<>> /\ s.step \notin StringSteps
    BY AcceptedEnds
  <2> QED BY <2>6, <2>7, <2>8, <2>9 DEF Finished
<1> QED BY <1>3, <1>4, <1>5

---------------------------------------------------------------------------
(* The code scanEnd.                                                       *)

\* Inside a bracket no byte is the end of the top-level value.
LEMMA EndValueCode ==
  ASSUME NEW s, Ready(s), s.parseState # <<>>, NEW c
  PROVE  stateEndValue(s, c).op # "scanEnd"
<1>1. s \in Scanner
  BY DEF Ready
<1>2. \A p \in ParseStates : SetTop(s, p) \in Scanner
  BY TopSet DEF Ready
<1>3. \A r \in Scanner : \A st, op : Return(r, st, op).op = op
  BY DEF Return, Scanner
<1>4. error(s).op = "scanError"
  BY <1>1, ErrorEffect
<1>5. /\ [popParseState(s) EXCEPT !.op = "scanEndObject"].op = "scanEndObject"
      /\ [popParseState(s) EXCEPT !.op = "scanEndArray"].op = "scanEndArray"
  BY PopEffect DEF Codes
<1>6. /\ Return(s, "stateEndValue", "scanSkipSpace").op # "scanEnd"
      /\ Return(SetTop(s, "parseObjectValue"), "stateBeginValue", "scanObjectKey").op # "scanEnd"
      /\ Return(SetTop(s, "parseObjectKey"), "stateBeginString", "scanObjectValue").op # "scanEnd"
      /\ Return(s, "stateBeginValue", "scanArrayValue").op # "scanEnd"
  BY <1>1, <1>2, <1>3 DEF ParseStates
<1> DEFINE r1 == Return(s, "stateEndValue", "scanSkipSpace")
           r2 == Return(SetTop(s, "parseObjectValue"), "stateBeginValue", "scanObjectKey")
           r3 == Return(SetTop(s, "parseObjectKey"), "stateBeginString", "scanObjectValue")
           r4 == Return(s, "stateBeginValue", "scanArrayValue")
           r5 == [popParseState(s) EXCEPT !.op = "scanEndObject"]
           r6 == [popParseState(s) EXCEPT !.op = "scanEndArray"]
<1>7. stateEndValue(s, c) \in {r1, r2, r3, r4, r5, r6, error(s)}
  BY DEF stateEndValue
<1>8. r5.op # "scanEnd" /\ r6.op # "scanEnd"
  BY <1>5
<1>9. r1.op # "scanEnd" /\ r2.op # "scanEnd" /\ r3.op # "scanEnd" /\ r4.op # "scanEnd"
  BY <1>6
<1> HIDE DEF r1, r2, r3, r4, r5, r6
<1> QED BY <1>4, <1>7, <1>8, <1>9

\* The codes that say that something is over, but for an error.
Enders == {"scanEnd"} \cup Brackets

\* The other state functions do not return them.
LEMMA OtherCodes ==
  ASSUME NEW s, s \in Scanner, NEW c
  PROVE  /\ error(s).op \notin Enders /\ SkipSpace(s).op \notin Enders
         /\ \A st : Continue(s, st).op \notin Enders
         /\ stateBeginValue(s, c).op \notin Enders /\ stateBeginString(s, c).op \notin Enders
         /\ stateInString(s, c).op \notin Enders /\ stateInStringEsc(s, c).op \notin Enders
         /\ stateNeg(s, c).op \notin Enders /\ stateDot(s, c).op \notin Enders
         /\ stateESign(s, c).op \notin Enders /\ stateE(s, c).op \notin Enders
<1>1. \A r \in Scanner : \A st, op : Return(r, st, op).op = op
  BY DEF Return, Scanner
<1>2. /\ error(s).op \notin Enders /\ SkipSpace(s).op \notin Enders
      /\ \A st : Continue(s, st).op \notin Enders
  BY <1>1, ErrorEffect DEF SkipSpace, Continue, Scanner, Enders, Brackets
<1>3. \A p \in ParseStates : \A st, op : Return(pushParseState(s, p), st, op).op = op
  BY DEF Return, pushParseState, Scanner
<1>4. stateBeginValue(s, c).op \notin Enders
  <2> DEFINE r1 == Return(pushParseState(s, "parseObjectKey"), "stateBeginStringOrEmpty", "scanBeginObject")
             r2 == Return(pushParseState(s, "parseArrayValue"), "stateBeginValueOrEmpty", "scanBeginArray")
             r3 == Return(s, Scalar[c], "scanBeginLiteral")
  <2>1. stateBeginValue(s, c) \in {r1, r2, r3, SkipSpace(s), error(s)}
    BY DEF stateBeginValue
  <2>2. r1.op \notin Enders /\ r2.op \notin Enders /\ r3.op \notin Enders
    BY <1>1, <1>3 DEF ParseStates, Enders, Brackets
  <2> HIDE DEF r1, r2, r3
  <2> QED BY <1>2, <2>1, <2>2
<1>5. stateBeginString(s, c).op \notin Enders
  <2> DEFINE r == Return(s, "stateInString", "scanBeginLiteral")
  <2>1. stateBeginString(s, c) \in {r, SkipSpace(s), error(s)}
    BY DEF stateBeginString
  <2>2. r.op \notin Enders
    BY <1>1 DEF Enders, Brackets
  <2> HIDE DEF r
  <2> QED BY <1>2, <2>1, <2>2
<1>6. stateInString(s, c).op \notin Enders /\ stateInStringEsc(s, c).op \notin Enders
  BY <1>2 DEF stateInString, stateInStringEsc
<1>7. stateNeg(s, c).op \notin Enders /\ stateDot(s, c).op \notin Enders /\ stateESign(s, c).op \notin Enders
  BY <1>2 DEF stateNeg, stateDot, stateESign
<1>8. stateE(s, c).op \notin Enders
  BY <1>2, <1>7 DEF stateE
<1> QED BY <1>2, <1>4, <1>5, <1>6, <1>7, <1>8

\* A step that returns scanEnd finds the top-level value complete.
LEMMA EndCode ==
  ASSUME NEW s, Sound(s), NEW c, step(s, c).op = "scanEnd"
  PROVE  Finished(s)
<1> DEFINE t == step(s, c)
<1>1. s \in Scanner /\ s.step \in Steps /\ t.op = "scanEnd"
  BY DEF Sound, Scanner
<1>2. s.step \in OpenSteps => Ready(s)
  BY OpenIsReady
<1>3. Ready(s) /\ s.parseState # <<>> => stateEndValue(s, c).op # "scanEnd"
  BY EndValueCode
<1>4. /\ error(s).op # "scanEnd" /\ SkipSpace(s).op # "scanEnd"
      /\ \A st : Continue(s, st).op # "scanEnd"
      /\ stateBeginValue(s, c).op # "scanEnd" /\ stateBeginString(s, c).op # "scanEnd"
      /\ stateInString(s, c).op # "scanEnd" /\ stateInStringEsc(s, c).op # "scanEnd"
      /\ stateNeg(s, c).op # "scanEnd" /\ stateDot(s, c).op # "scanEnd"
      /\ stateESign(s, c).op # "scanEnd" /\ stateE(s, c).op # "scanEnd"
  BY <1>1, OtherCodes DEF Enders
<1>5. CASE s.step = "stateError"
  <2>1. t.op = "scanError"
    BY <1>5, StaysInError
  <2> QED BY <1>1, <2>1
<1>6. CASE s.step = "stateEndTop"
  BY <1>6 DEF Finished, FinalSteps, Sound, Fits
<1>7. CASE s.step = "stateEndValue"
  <2>1. t = stateEndValue(s, c)
    BY <1>7 DEF step, Hexadecimal, Literal
  <2> HIDE DEF t
  <2> QED BY <1>1, <1>2, <1>3, <1>7, <2>1 DEF OpenSteps, Finished, FinalSteps
<1>8. CASE s.step \in {"stateBeginValue", "stateBeginString"}
  <2>1. t \in {stateBeginValue(s, c), stateBeginString(s, c)}
    BY <1>8 DEF step, Hexadecimal, Literal
  <2> HIDE DEF t
  <2> QED BY <1>1, <1>4, <2>1
<1>9. CASE s.step = "stateBeginValueOrEmpty"
  <2>1. t = stateBeginValueOrEmpty(s, c)
    BY <1>9 DEF step, Hexadecimal, Literal
  <2>2. s.parseState # <<>> /\ Ready(s)
    BY <1>2, <1>9 DEF Sound, Fits, InArray, OpenSteps
  <2>3. t \in {stateEndValue(s, c), stateBeginValue(s, c)}
    BY <2>1 DEF stateBeginValueOrEmpty
  <2> HIDE DEF t
  <2> QED BY <1>1, <1>3, <1>4, <2>2, <2>3
<1>10. CASE s.step = "stateBeginStringOrEmpty"
  <2> DEFINE e == SetTop(s, "parseObjectValue")
  <2>1. t = stateBeginStringOrEmpty(s, c)
    BY <1>10 DEF step, Hexadecimal, Literal
  <2>2. s.parseState # <<>> /\ Ready(s)
    BY <1>2, <1>10 DEF Sound, Fits, InKey, OpenSteps
  <2>3. e.parseState # <<>> /\ Ready(e)
    BY <2>2, TopSet DEF ParseStates
  <2>4. t \in {stateEndValue(e, c), stateBeginString(s, c)}
    BY <2>1 DEF stateBeginStringOrEmpty
  <2> HIDE DEF t, e
  <2>5. stateEndValue(e, c).op # "scanEnd"
    BY <2>3, EndValueCode
  <2> QED BY <1>1, <1>4, <2>4, <2>5
<1>11. CASE s.step \in StringSteps
  <2>1. s.step = "stateInString" => t = stateInString(s, c)
    BY DEF step, Hexadecimal, Literal
  <2>2. s.step = "stateInStringEsc" => t = stateInStringEsc(s, c)
    BY DEF step, Hexadecimal, Literal
  <2>3. s.step \in DOMAIN Hexadecimal => t \in {Continue(s, Hexadecimal[s.step]), error(s)}
    BY DEF step, Hexadecimal, Literal
  <2> HIDE DEF t
  <2> QED BY <1>1, <1>4, <1>11, <2>1, <2>2, <2>3 DEF StringSteps
<1>12. CASE s.step \in DOMAIN Literal
  <2>1. t \in {Continue(s, Literal[s.step][2]), error(s)}
    BY <1>12 DEF step, Hexadecimal, Literal
  <2> HIDE DEF t
  <2> QED BY <1>1, <1>4, <2>1
<1>13. CASE s.step \in {"stateNeg", "stateDot", "stateE", "stateESign"}
  <2>1. t \in {stateNeg(s, c), stateDot(s, c), stateE(s, c), stateESign(s, c)}
    BY <1>13 DEF step, Hexadecimal, Literal
  <2> HIDE DEF t
  <2> QED BY <1>1, <1>4, <2>1
<1>14. CASE s.step \in {"state1", "state0", "stateDot0", "stateE0"}
  <2>1. t \in {state1(s, c), state0(s, c), stateDot0(s, c), stateE0(s, c)}
    BY <1>14 DEF step, Hexadecimal, Literal
  <2> HIDE DEF t
  <2>2. state0(s, c).op = "scanEnd" => stateEndValue(s, c).op = "scanEnd"
    BY <1>4 DEF state0
  <2>3. state1(s, c).op = "scanEnd" => stateEndValue(s, c).op = "scanEnd"
    BY <1>4, <2>2 DEF state1
  <2>4. stateDot0(s, c).op = "scanEnd" => stateEndValue(s, c).op = "scanEnd"
    BY <1>4 DEF stateDot0
  <2>5. stateE0(s, c).op = "scanEnd" => stateEndValue(s, c).op = "scanEnd"
    BY <1>4 DEF stateE0
  <2>6. stateEndValue(s, c).op = "scanEnd"
    BY <1>1, <2>1, <2>2, <2>3, <2>4, <2>5
  <2>7. s.parseState = <<>>
    BY <1>2, <1>3, <1>14, <2>6 DEF OpenSteps, ScalarSteps
  <2> QED BY <1>14, <2>7 DEF Finished, FinalSteps
<1> QED BY <1>1, <1>5, <1>6, <1>7, <1>8, <1>9, <1>10, <1>11, <1>12, <1>13, <1>14
        DEF Steps, OpenSteps, ScalarSteps

---------------------------------------------------------------------------
(* Every text that begins with what was read.                              *)

\* d begins with the first i bytes of t.
Extends(d, t, i) ==
    /\ Len(d) \in Nat /\ i <= Len(d)
    /\ \A k \in 1..i : d[k] = t[k]

\* s has read the first i bytes of t.  What is left of a text behind them makes
\* it JSON if and only if it continues the scanner.
ExactAt(t, i, s) ==
    \A d : Extends(d, t, i) => (IsJSON(d) <=> Continues(d, i + 1, s.step, s.parseState))

\* Before any byte, what continues the scanner is a JSON text.
LEMMA ExactFirst ==
  ASSUME NEW t, NEW s, s.step = "stateBeginValue", s.parseState = <<>>
  PROVE  ExactAt(t, 0, s)
<1> SUFFICES ASSUME NEW d, Extends(d, t, 0)
             PROVE  IsJSON(d) <=> Continues(d, 0 + 1, s.step, s.parseState)
  BY DEF ExactAt
<1>1. 0 + 1 = 1
  OBVIOUS
<1>2. Rest(d, "stateBeginValue", 1) = Value(d, Space(d, One(1)))
  BY DEF Rest
<1>3. Base("stateBeginValue", <<>>) = <<>> /\ Len(<<>>) = 0
  BY DEF Base
<1>4. Continues(d, 1, "stateBeginValue", <<>>) <=> Completes(d, <<>>, Value(d, Space(d, One(1))))
  BY <1>2, <1>3 DEF Continues
<1>5. Completes(d, <<>>, Value(d, Space(d, One(1))))
        <=> Len(d) + 1 \in Space(d, Value(d, Space(d, One(1))))
  BY <1>3, CompletesEmpty
<1> QED BY <1>1, <1>4, <1>5 DEF IsJSON, One

\* A step keeps it so.
LEMMA ExactStep ==
  ASSUME NEW t, NEW i \in Nat, NEW s, Sound(s), ExactAt(t, i, s)
  PROVE  ExactAt(t, i + 1, step(s, t[i + 1]))
<1> DEFINE j == i + 1
           u == step(s, t[j])
<1> SUFFICES ASSUME NEW d, Extends(d, t, j)
             PROVE  IsJSON(d) <=> Continues(d, j + 1, u.step, u.parseState)
  BY DEF ExactAt
<1>1. Extends(d, t, i) /\ Byteof(d, j) /\ d[j] = t[j]
  BY DEF Extends, Byteof
<1>2. IsJSON(d) <=> Continues(d, j, s.step, s.parseState)
  BY <1>1 DEF ExactAt
<1>3. Into(d, j, step(s, d[j])) <=> Continues(d, j, s.step, s.parseState)
  BY <1>1, StepInto
<1> HIDE DEF j
<1> QED BY <1>1, <1>2, <1>3 DEF Into

\* At the end of the text the scanner knows whether it is JSON.
LEMMA ExactEnd ==
  ASSUME NEW t, NEW s, Sound(s), NEW d, ExactAt(t, Len(d), s), Extends(d, t, Len(d))
  PROVE  IsJSON(d) <=> Finished(s)
BY EndContinues DEF ExactAt, Extends

Exact == ExactAt(input, Len(input), scan)

\* The invariant, with what the scanner has read so far.
ExactInv == IInv /\ Exact /\ EndMeansValue

LEMMA ExactEnds == IInv /\ Exact => (IsJSON(input) <=> Finished(scan))
<1> SUFFICES ASSUME IInv, Exact PROVE IsJSON(input) <=> Finished(scan)
  OBVIOUS
<1>1. Len(input) \in Nat /\ Sound(scan)
  BY DEF IInv, TypeOK
<1>2. Extends(input, input, Len(input))
  BY <1>1 DEF Extends
<1> QED BY <1>1, <1>2, ExactEnd DEF Exact

\* It holds at first, and each step keeps it.
LEMMA InitExactInv == Init => ExactInv
<1>1. Init => EndMeansValue
  BY DEF Init, reset, EndMeansValue
<1>2. Init => Exact
  <2>1. Init => scan.step = "stateBeginValue" /\ scan.parseState = <<>> /\ Len(input) = 0
    BY DEF Init, reset
  <2> QED BY <2>1, ExactFirst DEF Exact
<1> QED BY <1>1, <1>2, InitInv DEF ExactInv

LEMMA NextExactInv == ExactInv /\ [Next]_vars => ExactInv'
<1> SUFFICES ASSUME ExactInv, [Next]_vars PROVE ExactInv'
  OBVIOUS
<1>1. IInv'
  BY NextInv DEF ExactInv
<1>2. CASE UNCHANGED vars
  BY <1>1, <1>2 DEF vars, ExactInv, Exact, EndMeansValue
<1>3. ASSUME NEW w \in Words, Byte(w) PROVE ExactInv'
  <2> DEFINE s == [scan EXCEPT !.bytes = @ + 1]
             c == Head(w)
             i == Len(input) + 1
  <2>1. TypeOK /\ Sound(scan) /\ input \in Seq(BytesOf(alphabet)) /\ Len(input) \in Nat
    BY DEF ExactInv, IInv, TypeOK
  <2>2. Sound(s) /\ s.step = scan.step /\ s.parseState = scan.parseState
    BY <2>1, CountedSound
  <2>3. scan' = step(s, c) /\ input' = Append(input, c)
    BY <1>3 DEF Byte
  <2>4. /\ c \in BytesOf(alphabet)
        /\ Len(input') = i /\ input'[i] = c
        /\ \A k \in 1..Len(input) : input'[k] = input[k]
        /\ SubSeq(input', 1, Len(input') - 1) = input
    <3>1. c \in BytesOf(alphabet)
      BY <2>1, WordsType, HeadTailProperties
    <3> HIDE DEF c
    <3> QED BY <2>1, <2>3, <3>1, AppendProperties
  <2> HIDE DEF s, c
  <2>5. Exact'
    <3>1. ExactAt(input', Len(input), s)
      <4> SUFFICES ASSUME NEW d, Extends(d, input', Len(input))
                   PROVE  IsJSON(d) <=> Continues(d, Len(input) + 1, s.step, s.parseState)
        BY DEF ExactAt
      <4>1. Extends(d, input, Len(input))
        BY <2>4 DEF Extends
      <4> QED BY <2>2, <4>1 DEF ExactInv, Exact, ExactAt
    <3>2. ExactAt(input', Len(input) + 1, step(s, input'[Len(input) + 1]))
      BY <2>1, <2>2, <3>1, ExactStep
    <3> QED BY <2>3, <2>4, <3>2 DEF Exact
  <2>6. EndMeansValue'
    <3> SUFFICES ASSUME scan'.op = "scanEnd"
                 PROVE  IsJSON(SubSeq(input', 1, Len(input') - 1))
      BY DEF EndMeansValue
    <3>1. Finished(s)
      BY <2>2, <2>3, EndCode
    <3>2. Finished(scan)
      BY <2>2, <3>1 DEF Finished
    <3> QED BY <2>4, <3>2, ExactEnds DEF ExactInv
  <2> QED BY <1>1, <2>5, <2>6 DEF ExactInv
<1> QED BY <1>2, <1>3 DEF Next

\* Whatever the alphabet and however long the text: of every text that begins
\* with the bytes read, the scanner's state and stack alone tell which rests make
\* it JSON.
THEOREM ExactAlways == Spec => []ExactInv
<1> QED BY InitExactInv, NextExactInv, PTL DEF Spec

\* checkValid reports no error for exactly the JSON texts, of any length and
\* nested to any depth: no valid text is refused and no other one accepted.
THEOREM AcceptsJSONAlways == Spec => []AcceptsJSON
<1>1. ExactInv => AcceptsJSON
  BY ExactEnds, EofFinished DEF ExactInv, IInv, AcceptsJSON, checkValid
<1> QED BY <1>1, ExactAlways, PTL

\* When step returns scanEnd, what was read before that byte is a JSON text:
\* the caller that stops there (nextValue) has one whole value.
THEOREM EndMeansValueAlways == Spec => []EndMeansValue
<1>1. ExactInv => EndMeansValue
  BY DEF ExactInv
<1> QED BY <1>1, ExactAlways, PTL

---------------------------------------------------------------------------
(* A text without an error can be completed.                               *)

\* The bytes that completions are made of.
Added == {"0", "1", "n", "\"", "]", "}", ":", "r", "u", "e", "a", "l", "s"}

\* From position i on, d reads v.
Spells(d, i, v) ==
    /\ Len(d) \in Nat /\ i \in Nat /\ 1 <= i /\ i + Len(v) <= Len(d) + 1
    /\ \A k \in 1..Len(v) : d[i + k - 1] = v[k]

\* It reads the two halves of a text one after the other.
LEMMA SpellsSplit ==
  ASSUME NEW d, NEW i, NEW v \in Seq(Added), NEW w \in Seq(Added), Spells(d, i, v \o w)
  PROVE  Spells(d, i, v) /\ Spells(d, i + Len(v), w)
<1>1. /\ Len(v \o w) = Len(v) + Len(w) /\ Len(v) \in Nat /\ Len(w) \in Nat
      /\ \A k \in 1..Len(v) : (v \o w)[k] = v[k]
      /\ \A k \in 1..Len(w) : (v \o w)[Len(v) + k] = w[k]
  BY ConcatProperties
<1> DEFINE u == v \o w
<1>2. /\ Len(d) \in Nat /\ i \in Nat /\ 1 <= i /\ i + Len(u) <= Len(d) + 1
      /\ \A k \in 1..Len(u) : d[i + k - 1] = u[k]
  BY DEF Spells
<1>3. \A k \in 1..Len(v) : d[i + k - 1] = v[k]
  <2> TAKE k \in 1..Len(v)
  <2>1. k \in 1..Len(u) /\ u[k] = v[k]
    BY <1>1
  <2> HIDE DEF u
  <2> QED BY <1>2, <2>1
<1>4. \A k \in 1..Len(w) : d[i + Len(v) + k - 1] = w[k]
  <2> TAKE k \in 1..Len(w)
  <2>1. Len(v) + k \in 1..Len(u) /\ u[Len(v) + k] = w[k] /\ k \in Nat
    BY <1>1
  <2>2. i + Len(v) + k - 1 = i + (Len(v) + k) - 1
    BY <1>1, <1>2, <2>1
  <2> HIDE DEF u
  <2> QED BY <1>2, <2>1, <2>2
<1>5. i + Len(v) \in Nat /\ 1 <= i + Len(v) /\ i + Len(v) <= Len(d) + 1
      /\ i + Len(v) + Len(w) <= Len(d) + 1
  BY <1>1, <1>2
<1> HIDE DEF u
<1> QED BY <1>2, <1>3, <1>4, <1>5 DEF Spells

\* Each byte that d spells, and the position behind it.
LEMMA SpellsBytes ==
  ASSUME NEW d, NEW i, NEW v, Spells(d, i, v), Len(v) \in Nat
  PROVE  /\ \A k \in 1..Len(v) : Byteof(d, i + k - 1) /\ d[i + k - 1] = v[k]
         /\ Position(d, i) /\ Position(d, i + Len(v))
BY DEF Spells, Byteof, Position

\* A value that may end here may also go on.
LEMMA MayEnd ==
  ASSUME NEW d, NEW i, Position(d, i), NEW st \in FinalSteps
  PROVE  \E R : Rest(d, st, i) = Both(One(i), R)
<1>1. One(i) = Both(One(i), None)
  BY BothNone
<1>2. \E R : Rest(d, "state0", i) = Both(One(i), R)
  BY <1>1, NumberRest
<1>3. \E R : Rest(d, "state1", i) = Both(One(i), R)
  BY <1>2, NumberRest
<1>4. \E R : Rest(d, "stateDot0", i) = Both(One(i), R)
  BY <1>1, NumberRest
<1>5. \E R : Rest(d, "stateE0", i) = Both(One(i), R)
  BY <1>1, NumberRest
<1>6. Rest(d, "stateEndValue", i) = Both(One(i), None) /\ Rest(d, "stateEndTop", i) = Both(One(i), None)
  BY <1>1, RestEnd
<1> QED BY <1>2, <1>3, <1>4, <1>5, <1>6 DEF FinalSteps

\* The brackets are closed from the top of the stack down.
LEMMA CloseShape ==
  ASSUME NEW stack \in Seq(ParseStates)
  PROVE  \E C : /\ Close(stack) = C[Len(stack)]
                /\ C[0] = <<>>
                /\ \A m \in 1..Len(stack) : C[m] = Ending[stack[m]] \o C[m - 1]
<1> DEFINE N == Len(stack)
           Chain(C, n) == C[0] = <<>> /\ \A m \in 1..n : C[m] = Ending[stack[m]] \o C[m - 1]
           T == {n \in Nat : \E C : Chain(C, n)}
<1>0. N \in Nat
  OBVIOUS
<1>1. 0 \in T
  <2>1. Chain([m \in {0} |-> <<>>], 0)
    OBVIOUS
  <2> QED BY <2>1
<1>2. ASSUME NEW n \in T PROVE n + 1 \in T
  <2>1. PICK C : Chain(C, n)
    OBVIOUS
  <2> DEFINE D == [m \in 0..(n + 1) |-> IF m <= n THEN C[m] ELSE Ending[stack[n + 1]] \o C[n]]
  <2>2. n \in Nat
    OBVIOUS
  <2>3. /\ \A m \in 0..n : D[m] = C[m]
        /\ D[n + 1] = Ending[stack[n + 1]] \o C[n]
    BY <2>2
  <2> HIDE DEF D
  <2>4. D[0] = <<>>
    BY <2>1, <2>2, <2>3
  <2>5. ASSUME NEW m \in 1..(n + 1) PROVE D[m] = Ending[stack[m]] \o D[m - 1]
    <3>1. CASE m = n + 1
      <4>1. m - 1 = n /\ n \in 0..n
        BY <2>2, <3>1
      <4> QED BY <2>3, <3>1, <4>1
    <3>2. CASE m # n + 1
      <4>1. m \in 1..n /\ m \in 0..n /\ m - 1 \in 0..n
        BY <2>2, <3>2
      <4> QED BY <2>1, <2>3, <4>1
    <3> QED BY <3>1, <3>2
  <2>6. Chain(D, n + 1)
    BY <2>4, <2>5
  <2> HIDE DEF Chain
  <2>7. \E E : Chain(E, n + 1)
    BY <2>6
  <2> QED BY <2>2, <2>7
<1>3. N \in T
  <2> HIDE DEF T, N
  <2>1. T \subseteq Nat
    BY DEF T
  <2> QED BY <1>0, <1>1, <1>2, <2>1, NatSet
<1>4. PICK C : Chain(C, N)
  BY <1>3
<1> DEFINE R == [n \in 0..N |-> C[n]]
           Q(P) == P = [n \in 0..N |-> IF n = 0 THEN <<>> ELSE Ending[stack[n]] \o P[n - 1]]
<1>5. Q(R)
  <2> DEFINE F(n) == IF n = 0 THEN <<>> ELSE Ending[stack[n]] \o R[n - 1]
  <2>1. ASSUME NEW n \in 0..N PROVE C[n] = F(n)
    <3>1. CASE n = 0
      BY <1>4, <3>1
    <3>2. CASE n # 0
      <4>1. n \in 1..N /\ n - 1 \in 0..N
        BY <1>0, <3>2
      <4>2. R[n - 1] = C[n - 1]
        BY <4>1
      <4> HIDE DEF R
      <4> QED BY <1>4, <3>2, <4>1, <4>2
    <3> QED BY <3>1, <3>2
  <2> HIDE DEF F
  <2>2. R = [n \in 0..N |-> F(n)]
    BY <2>1
  <2> QED BY <2>2 DEF F
<1> DEFINE P == CHOOSE P : Q(P)
<1>6. Close(stack) = P[N]
  BY DEF Close
<1>7. Q(P)
  <2> HIDE DEF Q, R
  <2> QED BY <1>5
<1> HIDE DEF P
<1>8. P[0] = <<>>
  BY <1>0, <1>7
<1>9. ASSUME NEW m \in 1..N PROVE P[m] = Ending[stack[m]] \o P[m - 1]
  <2>1. m \in 0..N /\ m # 0
    BY <1>0
  <2> QED BY <1>7, <2>1
<1> QED BY <1>6, <1>8, <1>9

\* What closes each bracket.
LEMMA EndingText ==
  /\ \A p \in ParseStates : Ending[p] \in Seq(Added) /\ Len(Ending[p]) \in Nat /\ Len(Ending[p]) >= 1
  /\ Len(Ending["parseArrayValue"]) = 1 /\ Ending["parseArrayValue"][1] \in EndArray
  /\ Len(Ending["parseObjectValue"]) = 1 /\ Ending["parseObjectValue"][1] \in EndObject
  /\ Len(Ending["parseObjectKey"]) = 3 /\ Ending["parseObjectKey"][1] \in Colon
  /\ Ending["parseObjectKey"][2] \in DigitNonzero /\ Ending["parseObjectKey"][3] \in EndObject
<1> DEFINE colon == ":"
           one == "1"
           brace == "}"
           bracket == "]"
<1>1. /\ Ending["parseObjectKey"] = <<colon, one, brace>>
      /\ Ending["parseObjectValue"] = <<brace>>
      /\ Ending["parseArrayValue"] = <<bracket>>
  BY DEF Ending
<1>2. colon \in Colon /\ one \in DigitNonzero /\ brace \in EndObject /\ bracket \in EndArray
  BY Zenon DEF Colon, DigitNonzero, EndObject, EndArray
<1>3. colon \in Added /\ one \in Added /\ brace \in Added /\ bracket \in Added
  BY Zenon DEF Added
<1> HIDE DEF colon, one, brace, bracket
<1>4. <<colon, one, brace>> \in Seq(Added) /\ Len(<<colon, one, brace>>) = 3
  BY <1>3
<1>5. <<brace>> \in Seq(Added) /\ <<bracket>> \in Seq(Added)
  BY <1>3
<1>6. Len(<<brace>>) = 1 /\ Len(<<bracket>>) = 1
  OBVIOUS
<1>7. /\ <<colon, one, brace>>[1] = colon /\ <<colon, one, brace>>[2] = one
      /\ <<colon, one, brace>>[3] = brace /\ <<brace>>[1] = brace /\ <<bracket>>[1] = bracket
  OBVIOUS
<1>8. 1 \in Nat /\ 3 \in Nat /\ 3 >= 1 /\ 1 >= 1
  OBVIOUS
<1> QED BY <1>1, <1>2, <1>4, <1>5, <1>6, <1>7, <1>8 DEF ParseStates

\* The bytes that close one bracket do.
LEMMA ClosesSpelled ==
  ASSUME NEW d, NEW i, NEW p \in ParseStates, Spells(d, i, Ending[p])
  PROVE  Closes(d, p, One(i)) = One(i + Len(Ending[p]))
<1> DEFINE v == Ending[p]
<1>0. /\ p = "parseArrayValue" => Len(v) = 1 /\ v[1] \in EndArray
      /\ p = "parseObjectValue" => Len(v) = 1 /\ v[1] \in EndObject
      /\ p = "parseObjectKey" => /\ Len(v) = 3 /\ v[1] \in Colon
                                 /\ v[2] \in DigitNonzero /\ v[3] \in EndObject
      /\ Len(v) \in Nat /\ Len(v) >= 1
  BY EndingText
<1>1. Spells(d, i, v)
  OBVIOUS
<1> SUFFICES Closes(d, p, One(i)) = One(i + Len(v))
  OBVIOUS
<1> HIDE DEF v
<1>2. Len(v) \in Nat
  BY <1>0
<1>3. /\ Position(d, i)
      /\ \A k \in 1..Len(v) : Byteof(d, i + k - 1) /\ d[i + k - 1] = v[k]
  BY <1>1, <1>2, SpellsBytes
<1>4. i \in Nat /\ i + 1 - 1 = i
  BY <1>3 DEF Position
<1>5. Byteof(d, i) /\ d[i] = v[1]
  <2>1. 1 \in 1..Len(v)
    BY <1>0
  <2> QED BY <1>3, <1>4, <2>1
<1>6. CASE p = "parseArrayValue"
  <2>1. ~At(d, i, Blank) /\ At(d, i, EndArray)
    BY <1>0, <1>5, <1>6, ByteAt, SignBytes
  <2> QED BY <1>0, <1>3, <1>6, <2>1, ClosesOne
<1>7. CASE p = "parseObjectValue"
  <2>1. ~At(d, i, Blank) /\ At(d, i, EndObject)
    BY <1>0, <1>5, <1>7, ByteAt, SignBytes
  <2> QED BY <1>0, <1>3, <1>7, <2>1, ClosesOne
<1>8. CASE p = "parseObjectKey"
  <2>1. i + 2 - 1 = i + 1 /\ i + 3 - 1 = i + 2 /\ i + 1 + 1 = i + 2 /\ i + 2 + 1 = i + 3
    BY <1>4
  <2>2. /\ d[i] \in Colon
        /\ Byteof(d, i + 1) /\ d[i + 1] \in DigitNonzero
        /\ Byteof(d, i + 2) /\ d[i + 2] \in EndObject
    <3>1. 2 \in 1..Len(v) /\ 3 \in 1..Len(v)
      BY <1>0, <1>8
    <3>2. /\ Byteof(d, i + 2 - 1) /\ d[i + 2 - 1] = v[2]
          /\ Byteof(d, i + 3 - 1) /\ d[i + 3 - 1] = v[3]
      BY <1>3, <3>1
    <3> QED BY <1>0, <1>5, <1>8, <2>1, <3>2
  <2>3. ~At(d, i, Blank) /\ At(d, i, Colon)
    BY <1>5, <2>2, ByteAt, SignBytes
  <2>4. ~At(d, i + 1, Blank) /\ At(d, i + 1, DigitNonzero) /\ Position(d, i + 1)
    BY <2>2, ByteAt, FirstBytes
  <2>5. /\ ~At(d, i + 2, Blank) /\ At(d, i + 2, EndObject) /\ Position(d, i + 2)
        /\ ~At(d, i + 2, Digit) /\ ~At(d, i + 2, Point) /\ ~At(d, i + 2, ExpMark)
    BY <2>2, ByteAt, SignBytes, NumberFollows
  <2>6. Rest(d, "stateBeginValue", i + 1) = One(i + 2)
    <3>1. Rest(d, "stateBeginValue", i + 1) = Value(d, One(i + 1))
      BY <2>4, BeginRest
    <3>2. Value(d, One(i + 1)) = Rest(d, "state1", i + 2)
      BY <2>1, <2>4, ValueFirst
    <3>3. Rest(d, "state1", i + 2) = Rest(d, "state0", i + 2) /\ Rest(d, "state0", i + 2) = One(i + 2)
      BY <2>5, NumberRest
    <3> QED BY <3>1, <3>2, <3>3
  <2>7. Closes(d, "parseObjectKey", One(i)) = Closes(d, "parseObjectValue", One(i + 2))
    BY <1>3, <2>3, <2>6, ClosesOne
  <2>8. Closes(d, "parseObjectValue", One(i + 2)) = One(i + 3)
    BY <2>1, <2>5, ClosesOne
  <2> QED BY <1>0, <1>8, <2>7, <2>8
<1> QED BY <1>6, <1>7, <1>8 DEF ParseStates

\* And the bytes that close the brackets of a stack end the text.
LEMMA CloseCompletes ==
  ASSUME NEW stack \in Seq(ParseStates)
  PROVE  /\ Close(stack) \in Seq(Added)
         /\ \A d, i : Spells(d, i, Close(stack)) /\ i + Len(Close(stack)) = Len(d) + 1
                         => Completes(d, stack, One(i))
<1>1. PICK C : /\ Close(stack) = C[Len(stack)]
               /\ C[0] = <<>>
               /\ \A m \in 1..Len(stack) : C[m] = Ending[stack[m]] \o C[m - 1]
  BY CloseShape
<1> DEFINE part(n) == SubSeq(stack, 1, n)
           Ends(d, i, n) == Spells(d, i, C[n]) /\ i + Len(C[n]) = Len(d) + 1
           Good(n) == /\ C[n] \in Seq(Added)
                      /\ \A d, i : Ends(d, i, n) => Completes(d, part(n), One(i))
           T == {n \in Nat : n <= Len(stack) => Good(n)}
<1>2. \A n \in 0..Len(stack) : /\ part(n) \in Seq(ParseStates) /\ Len(part(n)) = n
                               /\ \A l \in 1..n : part(n)[l] = stack[l]
  BY SubSeqProperties
<1>3. 0 \in T
  <2> SUFFICES Good(0)
    OBVIOUS
  <2>1. C[0] \in Seq(Added) /\ Len(C[0]) = 0
    BY <1>1
  <2>2. ASSUME NEW d, NEW i, Ends(d, i, 0) PROVE Completes(d, part(0), One(i))
    <3>1. Position(d, i) /\ i = Len(d) + 1
      BY <2>1, <2>2 DEF Spells, Position
    <3>2. ~At(d, i, Blank)
      BY <3>1 DEF At, Position
    <3>3. Space(d, One(i)) = One(i)
      BY <3>1, <3>2, SpaceOne
    <3>4. Len(part(0)) = 0
      BY <1>2
    <3> HIDE DEF part
    <3>5. Len(d) + 1 \in Space(d, One(i))
      BY <3>1, <3>3 DEF One
    <3> QED BY <3>4, <3>5, CompletesEmpty
  <2> QED BY <2>1, <2>2
<1>4. ASSUME NEW n \in T PROVE n + 1 \in T
  <2> SUFFICES ASSUME n + 1 <= Len(stack) PROVE Good(n + 1)
    OBVIOUS
  <2> DEFINE m == n + 1
             p == stack[m]
  <2>1. n \in Nat /\ Len(stack) \in Nat /\ n \in 0..Len(stack) /\ m \in 1..Len(stack)
        /\ m \in 0..Len(stack) /\ m - 1 = n /\ m = n + 1
    OBVIOUS
  <2> SUFFICES Good(m)
    OBVIOUS
  <2> HIDE DEF m
  <2>2. Good(n)
    BY <2>1
  <2>3. C[m] = Ending[p] \o C[n] /\ p \in ParseStates
    <3>1. C[m] = Ending[p] \o C[m - 1]
      BY <1>1, <2>1
    <3>2. p \in ParseStates
      BY <2>1
    <3> QED BY <2>1, <3>1, <3>2
  <2>4. Under(part(n), part(m)) /\ part(m)[Len(part(m))] = p
    <3> DEFINE less == part(n)
               more == part(m)
    <3>1. /\ less \in Seq(ParseStates) /\ Len(less) = n
          /\ more \in Seq(ParseStates) /\ Len(more) = m
          /\ \A l \in 1..n : less[l] = stack[l]
          /\ \A l \in 1..m : more[l] = stack[l]
      BY <1>2, <2>1
    <3> HIDE DEF less, more
    <3>2. Under(less, more) /\ more[Len(more)] = stack[m]
      BY <2>1, <3>1 DEF Under
    <3> QED BY <3>2 DEF less, more
  <2> HIDE DEF p, part
  <2>5. Ending[p] \in Seq(Added) /\ C[n] \in Seq(Added)
    BY <2>2, <2>3, EndingText
  <2>6. C[m] \in Seq(Added) /\ Len(C[m]) = Len(Ending[p]) + Len(C[n])
        /\ Len(Ending[p]) \in Nat /\ Len(C[n]) \in Nat
    BY <2>3, <2>5, ConcatProperties
  <2>7. ASSUME NEW d, NEW i, Ends(d, i, m) PROVE Completes(d, part(m), One(i))
    <3>1. Spells(d, i, Ending[p]) /\ Spells(d, i + Len(Ending[p]), C[n])
      BY <2>3, <2>5, <2>7, SpellsSplit
    <3> DEFINE j == i + Len(Ending[p])
    <3>2. j + Len(C[n]) = Len(d) + 1
      <4>1. i \in Nat /\ Len(d) \in Nat
        BY <3>1 DEF Spells
      <4>2. i + Len(C[m]) = Len(d) + 1
        BY <2>7
      <4> DEFINE m1 == Len(Ending[p])
                 m2 == Len(C[n])
      <4>3. m1 \in Nat /\ m2 \in Nat /\ i + (m1 + m2) = Len(d) + 1
        BY <2>6, <4>2
      <4> HIDE DEF m1, m2
      <4>4. (i + m1) + m2 = Len(d) + 1
        BY <4>1, <4>3
      <4> QED BY <4>4 DEF m1, m2
    <3>3. Closes(d, p, One(i)) = One(j)
      BY <2>3, <3>1, ClosesSpelled
    <3> HIDE DEF j
    <3>4. Completes(d, part(n), One(j))
      BY <2>2, <3>1, <3>2 DEF j
    <3> QED BY <2>4, <3>3, <3>4, CompletesTop
  <2> HIDE DEF Ends
  <2> QED BY <2>6, <2>7
<1> HIDE DEF Good
<1>5. Len(stack) \in T
  <2> HIDE DEF T
  <2>1. T \subseteq Nat /\ Len(stack) \in Nat
    BY DEF T
  <2> QED BY <1>3, <1>4, <2>1, NatSet
<1>6. Good(Len(stack))
  BY <1>5
<1>7. part(Len(stack)) = stack
  OBVIOUS
<1> HIDE DEF part
<1> QED BY <1>1, <1>6, <1>7 DEF Good

\* In state st, the bytes v complete a value.
Adds(st, v) ==
    \A d, i : Spells(d, i, v) => \E R : Rest(d, st, i) = Both(One(i + Len(v)), R)

\* A byte of the class K leads from the state st to the state next.
Reads(st, K, next) ==
    \A d, i : Position(d, i) /\ At(d, i, K) => Rest(d, st, i) = Rest(d, next, i + 1)

\* The last byte of a completion, and one in front of another.
LEMMA AddsLast ==
  ASSUME NEW st, NEW K, NEW next \in FinalSteps, Reads(st, K, next), NEW c \in K
  PROVE  Adds(st, <<c>>)
<1> SUFFICES ASSUME NEW d, NEW i, Spells(d, i, <<c>>)
             PROVE  \E R : Rest(d, st, i) = Both(One(i + Len(<<c>>)), R)
  BY DEF Adds
<1>1. Len(<<c>>) = 1 /\ <<c>>[1] = c
  OBVIOUS
<1> DEFINE v == <<c>>
<1>2. Spells(d, i, v) /\ Len(v) = 1 /\ v[1] = c
  BY <1>1
<1> HIDE DEF v
<1>3. Position(d, i) /\ Position(d, i + 1) /\ i \in Nat /\ i <= Len(d) /\ d[i] = c
  <2>1. i \in Nat /\ 1 \in 1..Len(v) /\ i + 1 - 1 = i /\ i + 1 <= Len(d) + 1 /\ Len(d) \in Nat /\ 1 <= i
    BY <1>2 DEF Spells
  <2>2. d[i + 1 - 1] = v[1]
    BY <1>2, <2>1 DEF Spells
  <2> QED BY <1>2, <2>1, <2>2 DEF Position
<1>4. At(d, i, K)
  BY <1>3 DEF At
<1>5. Rest(d, st, i) = Rest(d, next, i + 1)
  BY <1>3, <1>4 DEF Reads
<1>6. \E R : Rest(d, next, i + 1) = Both(One(i + 1), R)
  BY <1>3, MayEnd
<1> QED BY <1>1, <1>5, <1>6

LEMMA AddsFirst ==
  ASSUME NEW st, NEW K, NEW next, Reads(st, K, next), NEW v, NEW w, Tails(v, w),
         v[1] \in K, Adds(next, w)
  PROVE  Adds(st, v)
<1> SUFFICES ASSUME NEW d, NEW i, Spells(d, i, v)
             PROVE  \E R : Rest(d, st, i) = Both(One(i + Len(v)), R)
  BY DEF Adds
<1>1. Len(w) \in Nat /\ Len(v) = Len(w) + 1 /\ \A k \in 1..Len(w) : w[k] = v[k + 1]
  BY DEF Tails
<1>2. i \in Nat /\ 1 <= i /\ Len(d) \in Nat /\ i + Len(v) <= Len(d) + 1
  BY DEF Spells
<1>3. \A k \in 1..Len(v) : d[i + k - 1] = v[k]
  BY DEF Spells
<1>4. Position(d, i) /\ i <= Len(d) /\ i + 1 - 1 = i /\ 1 \in 1..Len(v)
  BY <1>1, <1>2 DEF Position
<1>5. At(d, i, K)
  BY <1>3, <1>4 DEF At
<1>6. Spells(d, i + 1, w)
  <2>1. ASSUME NEW k \in 1..Len(w) PROVE d[i + 1 + k - 1] = w[k]
    <3> DEFINE l == k + 1
    <3>1. l \in 1..Len(v) /\ i + 1 + k - 1 = i + l - 1
      BY <1>1, <1>2
    <3>2. w[k] = v[l]
      BY <1>1
    <3> HIDE DEF l
    <3> QED BY <1>3, <3>1, <3>2
  <2>2. i + 1 \in Nat /\ 1 <= i + 1 /\ i + 1 + Len(w) <= Len(d) + 1
    BY <1>1, <1>2
  <2> QED BY <1>2, <2>1, <2>2 DEF Spells
<1>7. Rest(d, st, i) = Rest(d, next, i + 1)
  BY <1>4, <1>5 DEF Reads
<1>8. i + Len(v) = i + 1 + Len(w)
  BY <1>1, <1>2
<1> QED BY <1>6, <1>7, <1>8 DEF Adds

\* The classes again, where completions use them.
LEMMA AddedBytes ==
  \A c : /\ c \in DigitZero => c \in Digit /\ c \in Hex /\ c \notin Sign
         /\ c \in EndArray => c \notin Blank
         /\ c \in EndObject => c \notin Blank
         /\ c \in QuotationMark => c \notin Blank
         /\ c \in DigitNonzero => c \notin Blank
BY DEF DigitZero, Digit, Hex, Sign, EndArray, EndObject, QuotationMark, DigitNonzero, Blank

\* The bytes of completions lead from state to state.
LEMMA BeginReads ==
  /\ Reads("stateBeginValue", DigitNonzero, "state1")
  /\ Reads("stateBeginValueOrEmpty", EndArray, "stateEndValue")
  /\ Reads("stateBeginString", QuotationMark, "stateInString")
  /\ Reads("stateBeginStringOrEmpty", EndObject, "stateEndValue")
<1> USE AddedBytes, RestEnd
<1>1. \A d, i : /\ At(d, i, EndArray) \/ At(d, i, EndObject) \/ At(d, i, QuotationMark)
                     \/ At(d, i, DigitNonzero) => ~At(d, i, Blank)
  BY DEF At
<1>2. Reads("stateBeginValue", DigitNonzero, "state1")
  BY <1>1, BeginRest, ValueFirst DEF Reads
<1>3. Reads("stateBeginValueOrEmpty", EndArray, "stateEndValue")
  BY <1>1, BeginRest DEF Reads
<1>4. Reads("stateBeginString", QuotationMark, "stateInString")
  BY <1>1, BeginRest DEF Reads
<1>5. Reads("stateBeginStringOrEmpty", EndObject, "stateEndValue")
  BY <1>1, BeginRest DEF Reads
<1> QED BY <1>2, <1>3, <1>4, <1>5

LEMMA StringReads ==
  /\ Reads("stateInString", QuotationMark, "stateEndValue")
  /\ Reads("stateInStringEsc", Escapable, "stateInString")
  /\ Reads("stateInStringEscU", Hex, "stateInStringEscU1")
  /\ Reads("stateInStringEscU1", Hex, "stateInStringEscU12")
  /\ Reads("stateInStringEscU12", Hex, "stateInStringEscU123")
  /\ Reads("stateInStringEscU123", Hex, "stateInString")
BY StringRest, RestEnd DEF Reads

LEMMA NumberReads ==
  /\ Reads("stateNeg", DigitZero, "state0")
  /\ Reads("stateDot", Digit, "stateDot0")
  /\ Reads("stateE", DigitZero, "stateE0")
  /\ Reads("stateESign", Digit, "stateE0")
<1>1. \A d, i : At(d, i, DigitZero) => At(d, i, Digit) /\ ~At(d, i, Sign)
  BY AddedBytes DEF At
<1>2. Reads("stateNeg", DigitZero, "state0")
  BY NumberRest DEF Reads
<1>3. Reads("stateDot", Digit, "stateDot0")
  BY NumberRest DEF Reads
<1>4. Reads("stateESign", Digit, "stateE0")
  BY NumberRest DEF Reads
<1>5. Reads("stateE", DigitZero, "stateE0")
  BY <1>1, NumberRest DEF Reads
<1> QED BY <1>2, <1>3, <1>4, <1>5

LEMMA LiteralReads ==
  /\ Reads("stateT", {"r"}, "stateTr") /\ Reads("stateTr", {"u"}, "stateTru")
  /\ Reads("stateTru", {"e"}, "stateEndValue")
  /\ Reads("stateF", {"a"}, "stateFa") /\ Reads("stateFa", {"l"}, "stateFal")
  /\ Reads("stateFal", {"s"}, "stateFals") /\ Reads("stateFals", {"e"}, "stateEndValue")
  /\ Reads("stateN", {"u"}, "stateNu") /\ Reads("stateNu", {"l"}, "stateNul")
  /\ Reads("stateNul", {"l"}, "stateEndValue")
<1>1. /\ Reads("stateT", {"r"}, "stateTr") /\ Reads("stateTr", {"u"}, "stateTru")
      /\ Reads("stateTru", {"e"}, "stateEndValue")
  BY LiteralTRest, RestEnd DEF Reads
<1>2. /\ Reads("stateF", {"a"}, "stateFa") /\ Reads("stateFa", {"l"}, "stateFal")
      /\ Reads("stateFal", {"s"}, "stateFals") /\ Reads("stateFals", {"e"}, "stateEndValue")
  BY LiteralFRest, RestEnd DEF Reads
<1>3. /\ Reads("stateN", {"u"}, "stateNu") /\ Reads("stateNu", {"l"}, "stateNul")
      /\ Reads("stateNul", {"l"}, "stateEndValue")
  BY LiteralNRest, RestEnd DEF Reads
<1> QED BY <1>1, <1>2, <1>3

\* One more byte in front of a completion.
LEMMA AddsMore ==
  ASSUME NEW st, NEW K, NEW next, Reads(st, K, next), NEW c \in K
  PROVE  /\ \A x1 : Adds(next, <<x1>>) => Adds(st, <<c, x1>>)
         /\ \A x1, x2 : Adds(next, <<x1, x2>>) => Adds(st, <<c, x1, x2>>)
         /\ \A x1, x2, x3 : Adds(next, <<x1, x2, x3>>) => Adds(st, <<c, x1, x2, x3>>)
         /\ \A x1, x2, x3, x4 : Adds(next, <<x1, x2, x3, x4>>) => Adds(st, <<c, x1, x2, x3, x4>>)
<1>1. ASSUME NEW x1, Adds(next, <<x1>>) PROVE Adds(st, <<c, x1>>)
  <2>1. <<c, x1>>[1] = c
    OBVIOUS
  <2> QED BY <1>1, <2>1, TailsOf, AddsFirst
<1>2. ASSUME NEW x1, NEW x2, Adds(next, <<x1, x2>>) PROVE Adds(st, <<c, x1, x2>>)
  <2>1. <<c, x1, x2>>[1] = c
    OBVIOUS
  <2> QED BY <1>2, <2>1, TailsOf, AddsFirst
<1>3. ASSUME NEW x1, NEW x2, NEW x3, Adds(next, <<x1, x2, x3>>) PROVE Adds(st, <<c, x1, x2, x3>>)
  <2>1. <<c, x1, x2, x3>>[1] = c
    OBVIOUS
  <2> QED BY <1>3, <2>1, TailsOf, AddsFirst
<1>4. ASSUME NEW x1, NEW x2, NEW x3, NEW x4, Adds(next, <<x1, x2, x3, x4>>)
      PROVE  Adds(st, <<c, x1, x2, x3, x4>>)
  <2>1. <<c, x1, x2, x3, x4>>[1] = c
    OBVIOUS
  <2> QED BY <1>4, <2>1, TailsOf, AddsFirst
<1> QED BY <1>1, <1>2, <1>3, <1>4

\* Completions are sequences.
LEMMA AddedTexts ==
  /\ \A x1 \in Added : <<x1>> \in Seq(Added)
  /\ \A x1, x2 \in Added : <<x1, x2>> \in Seq(Added)
  /\ \A x1, x2, x3 \in Added : <<x1, x2, x3>> \in Seq(Added)
  /\ \A x1, x2, x3, x4 \in Added : <<x1, x2, x3, x4>> \in Seq(Added)
  /\ \A x1, x2, x3, x4, x5 \in Added : <<x1, x2, x3, x4, x5>> \in Seq(Added)
OBVIOUS

\* Where a value or a key begins.
LEMMA BeginAdds ==
  \A st \in {"stateBeginValue", "stateBeginValueOrEmpty", "stateBeginString",
             "stateBeginStringOrEmpty"} :
     Adds(st, Scalars[st]) /\ Scalars[st] \in Seq(Added)
<1> DEFINE one == "1"
           brace == "}"
           bracket == "]"
           quote == "\""
<1>1. /\ Scalars["stateBeginValue"] = <<one>>
      /\ Scalars["stateBeginValueOrEmpty"] = <<bracket>>
      /\ Scalars["stateBeginString"] = <<quote, quote>>
      /\ Scalars["stateBeginStringOrEmpty"] = <<brace>>
  BY DEF Scalars
<1>2. one \in DigitNonzero /\ bracket \in EndArray /\ quote \in QuotationMark /\ brace \in EndObject
  BY Zenon DEF DigitNonzero, EndArray, EndObject, QuotationMark
<1>3. one \in Added /\ bracket \in Added /\ quote \in Added /\ brace \in Added
  BY Zenon DEF Added
<1> HIDE DEF one, brace, bracket, quote
<1>4. /\ <<one>> \in Seq(Added) /\ <<bracket>> \in Seq(Added)
      /\ <<quote, quote>> \in Seq(Added) /\ <<brace>> \in Seq(Added)
  BY <1>3, AddedTexts
<1>5. "state1" \in FinalSteps /\ "stateEndValue" \in FinalSteps
  BY DEF FinalSteps
<1>6. Adds("stateBeginValue", <<one>>)
  BY <1>2, <1>5, BeginReads, AddsLast
<1>7. Adds("stateBeginValueOrEmpty", <<bracket>>)
  BY <1>2, <1>5, BeginReads, AddsLast
<1>8. Adds("stateBeginString", <<quote, quote>>)
  <2>1. Adds("stateInString", <<quote>>)
    BY <1>2, <1>5, StringReads, AddsLast
  <2> QED BY <1>2, <2>1, BeginReads, AddsMore
<1>9. Adds("stateBeginStringOrEmpty", <<brace>>)
  BY <1>2, <1>5, BeginReads, AddsLast
<1> QED BY <1>1, <1>4, <1>6, <1>7, <1>8, <1>9

\* In a string.
LEMMA StringAdds ==
  \A st \in StringSteps : Adds(st, Scalars[st]) /\ Scalars[st] \in Seq(Added)
<1> DEFINE n == "n"
           zero == "0"
           quote == "\""
<1>1. /\ Scalars["stateInString"] = <<quote>>
      /\ Scalars["stateInStringEsc"] = <<n, quote>>
      /\ Scalars["stateInStringEscU"] = <<zero, zero, zero, zero, quote>>
      /\ Scalars["stateInStringEscU1"] = <<zero, zero, zero, quote>>
      /\ Scalars["stateInStringEscU12"] = <<zero, zero, quote>>
      /\ Scalars["stateInStringEscU123"] = <<zero, quote>>
  BY DEF Scalars
<1>2. n \in Escapable /\ zero \in Hex /\ quote \in QuotationMark
  BY Zenon DEF Escapable, Hex, QuotationMark
<1>3. n \in Added /\ zero \in Added /\ quote \in Added
  BY Zenon DEF Added
<1> HIDE DEF n, zero, quote
<1>4. /\ <<quote>> \in Seq(Added) /\ <<n, quote>> \in Seq(Added)
      /\ <<zero, quote>> \in Seq(Added) /\ <<zero, zero, quote>> \in Seq(Added)
      /\ <<zero, zero, zero, quote>> \in Seq(Added)
      /\ <<zero, zero, zero, zero, quote>> \in Seq(Added)
  BY <1>3, AddedTexts
<1>5. Adds("stateInString", <<quote>>)
  <2>1. "stateEndValue" \in FinalSteps
    BY DEF FinalSteps
  <2> QED BY <1>2, <2>1, StringReads, AddsLast
<1>6. Adds("stateInStringEsc", <<n, quote>>)
  BY <1>2, <1>5, StringReads, AddsMore
<1>7. Adds("stateInStringEscU123", <<zero, quote>>)
  BY <1>2, <1>5, StringReads, AddsMore
<1>8. Adds("stateInStringEscU12", <<zero, zero, quote>>)
  BY <1>2, <1>7, StringReads, AddsMore
<1>9. Adds("stateInStringEscU1", <<zero, zero, zero, quote>>)
  BY <1>2, <1>8, StringReads, AddsMore
<1>10. Adds("stateInStringEscU", <<zero, zero, zero, zero, quote>>)
  BY <1>2, <1>9, StringReads, AddsMore
<1> QED BY <1>1, <1>4, <1>5, <1>6, <1>7, <1>8, <1>9, <1>10 DEF StringSteps, Hexadecimal

\* In a number that may not end here.
LEMMA NumberAdds ==
  \A st \in {"stateNeg", "stateDot", "stateE", "stateESign"} :
     Adds(st, Scalars[st]) /\ Scalars[st] \in Seq(Added)
<1> DEFINE zero == "0"
<1>1. /\ Scalars["stateNeg"] = <<zero>> /\ Scalars["stateDot"] = <<zero>>
      /\ Scalars["stateE"] = <<zero>> /\ Scalars["stateESign"] = <<zero>>
  BY DEF Scalars
<1>2. zero \in DigitZero /\ zero \in Digit /\ zero \in Added
  BY Zenon DEF DigitZero, Digit, Added
<1> HIDE DEF zero
<1>3. <<zero>> \in Seq(Added)
  BY <1>2, AddedTexts
<1>4. "state0" \in FinalSteps /\ "stateDot0" \in FinalSteps /\ "stateE0" \in FinalSteps
  BY DEF FinalSteps
<1>5. Adds("stateNeg", <<zero>>) /\ Adds("stateE", <<zero>>)
  BY <1>2, <1>4, NumberReads, AddsLast
<1>6. Adds("stateDot", <<zero>>) /\ Adds("stateESign", <<zero>>)
  BY <1>2, <1>4, NumberReads, AddsLast
<1> QED BY <1>1, <1>3, <1>5, <1>6

\* In a literal.
LEMMA LiteralAdds ==
  \A st \in DOMAIN Literal : Adds(st, Scalars[st]) /\ Scalars[st] \in Seq(Added)
<1> DEFINE r == "r"
           u == "u"
           e == "e"
           f1 == "a"
           l == "l"
           f2 == "s"
<1>1. /\ Scalars["stateT"] = <<r, u, e>> /\ Scalars["stateTr"] = <<u, e>>
      /\ Scalars["stateTru"] = <<e>>
      /\ Scalars["stateF"] = <<f1, l, f2, e>> /\ Scalars["stateFa"] = <<l, f2, e>>
      /\ Scalars["stateFal"] = <<f2, e>> /\ Scalars["stateFals"] = <<e>>
      /\ Scalars["stateN"] = <<u, l, l>> /\ Scalars["stateNu"] = <<l, l>>
      /\ Scalars["stateNul"] = <<l>>
  BY DEF Scalars
<1>2. r \in Added /\ u \in Added /\ e \in Added /\ f1 \in Added /\ l \in Added /\ f2 \in Added
  BY Zenon DEF Added
<1>3. /\ Reads("stateT", {r}, "stateTr") /\ Reads("stateTr", {u}, "stateTru")
      /\ Reads("stateTru", {e}, "stateEndValue")
      /\ Reads("stateF", {f1}, "stateFa") /\ Reads("stateFa", {l}, "stateFal")
      /\ Reads("stateFal", {f2}, "stateFals") /\ Reads("stateFals", {e}, "stateEndValue")
      /\ Reads("stateN", {u}, "stateNu") /\ Reads("stateNu", {l}, "stateNul")
      /\ Reads("stateNul", {l}, "stateEndValue")
  BY LiteralReads
<1> HIDE DEF r, u, e, f1, l, f2
<1>4. "stateEndValue" \in FinalSteps /\ \A c : c \in {c}
  BY DEF FinalSteps
<1>5. Adds("stateTru", <<e>>) /\ Adds("stateFals", <<e>>) /\ Adds("stateNul", <<l>>)
  BY <1>3, <1>4, AddsLast
<1>6. Adds("stateTr", <<u, e>>)
  BY <1>3, <1>4, <1>5, AddsMore
<1>7. Adds("stateT", <<r, u, e>>)
  BY <1>3, <1>4, <1>6, AddsMore
<1>8. Adds("stateFal", <<f2, e>>)
  BY <1>3, <1>4, <1>5, AddsMore
<1>9. Adds("stateFa", <<l, f2, e>>)
  BY <1>3, <1>4, <1>8, AddsMore
<1>10. Adds("stateF", <<f1, l, f2, e>>)
  BY <1>3, <1>4, <1>9, AddsMore
<1>11. Adds("stateNu", <<l, l>>)
  BY <1>3, <1>4, <1>5, AddsMore
<1>12. Adds("stateN", <<u, l, l>>)
  BY <1>3, <1>4, <1>11, AddsMore
<1>13. /\ <<r, u, e>> \in Seq(Added) /\ <<u, e>> \in Seq(Added) /\ <<e>> \in Seq(Added)
       /\ <<f1, l, f2, e>> \in Seq(Added) /\ <<l, f2, e>> \in Seq(Added) /\ <<f2, e>> \in Seq(Added)
       /\ <<u, l, l>> \in Seq(Added) /\ <<l, l>> \in Seq(Added) /\ <<l>> \in Seq(Added)
  BY <1>2, AddedTexts
<1>14. /\ Adds("stateT", Scalars["stateT"]) /\ Scalars["stateT"] \in Seq(Added)
       /\ Adds("stateTr", Scalars["stateTr"]) /\ Scalars["stateTr"] \in Seq(Added)
       /\ Adds("stateTru", Scalars["stateTru"]) /\ Scalars["stateTru"] \in Seq(Added)
  BY <1>1, <1>5, <1>6, <1>7, <1>13
<1>15. /\ Adds("stateF", Scalars["stateF"]) /\ Scalars["stateF"] \in Seq(Added)
       /\ Adds("stateFa", Scalars["stateFa"]) /\ Scalars["stateFa"] \in Seq(Added)
       /\ Adds("stateFal", Scalars["stateFal"]) /\ Scalars["stateFal"] \in Seq(Added)
       /\ Adds("stateFals", Scalars["stateFals"]) /\ Scalars["stateFals"] \in Seq(Added)
  BY <1>1, <1>5, <1>8, <1>9, <1>10, <1>13
<1>16. /\ Adds("stateN", Scalars["stateN"]) /\ Scalars["stateN"] \in Seq(Added)
       /\ Adds("stateNu", Scalars["stateNu"]) /\ Scalars["stateNu"] \in Seq(Added)
       /\ Adds("stateNul", Scalars["stateNul"]) /\ Scalars["stateNul"] \in Seq(Added)
  BY <1>1, <1>5, <1>11, <1>12, <1>13
<1> QED BY <1>14, <1>15, <1>16 DEF Literal

\* The scanners without an error are in a state that a value may end in, or in
\* one that Scalars tells how to leave.
LEMMA ScalarsCover ==
  \A st \in Steps \ {"stateError"} :
     /\ st \in DOMAIN Scalars => Adds(st, Scalars[st]) /\ Scalars[st] \in Seq(Added)
     /\ st \notin DOMAIN Scalars => st \in FinalSteps
<1> DEFINE Begins == {"stateBeginValue", "stateBeginValueOrEmpty", "stateBeginString",
                      "stateBeginStringOrEmpty"}
           Numbers == {"stateNeg", "stateDot", "stateE", "stateESign"}
<1>1. DOMAIN Scalars = Begins \cup StringSteps \cup Numbers \cup DOMAIN Literal
  BY DEF Scalars, StringSteps, Hexadecimal, Literal
<1>2. Steps \ {"stateError"} \subseteq Begins \cup StringSteps \cup Numbers \cup DOMAIN Literal \cup FinalSteps
  BY DEF Steps, OpenSteps, ScalarSteps, FinalSteps
<1> HIDE DEF Begins, Numbers
<1>3. \A st \in Begins \cup Numbers : Adds(st, Scalars[st]) /\ Scalars[st] \in Seq(Added)
  BY BeginAdds, NumberAdds DEF Begins, Numbers
<1> QED BY <1>1, <1>2, <1>3, StringAdds, LiteralAdds

\* The brackets that the completion has to close.
LEMMA BaseStack ==
  ASSUME NEW s, Sound(s)
  PROVE  Base(s.step, s.parseState) \in Seq(ParseStates)
<1>1. s.parseState \in Seq(ParseStates)
  BY DEF Sound, Scanner
<1>2. CASE s.step \in {"stateBeginValueOrEmpty", "stateBeginStringOrEmpty"}
  <2>1. s.parseState # <<>>
    BY <1>2 DEF Sound, Fits, InKey, InArray
  <2>2. Len(s.parseState) # 0
    BY <1>1, <2>1, EmptySeq
  <2> QED BY <1>1, <1>2, <2>2, OuterUnder DEF Base, Under
<1>3. CASE s.step \notin {"stateBeginValueOrEmpty", "stateBeginStringOrEmpty"}
  BY <1>1, <1>3 DEF Base
<1> QED BY <1>2, <1>3

\* A text that goes on with the completion of the scanner, and ends with it, is
\* a continuation.
LEMMA CompletionContinues ==
  ASSUME NEW s, Sound(s), s.err = NoError
  PROVE  /\ Completion(s) \in Seq(Added)
         /\ \A d, i : Spells(d, i, Completion(s)) /\ i + Len(Completion(s)) = Len(d) + 1
                         => Continues(d, i, s.step, s.parseState)
<1> DEFINE base == Base(s.step, s.parseState)
           v == IF s.step \in DOMAIN Scalars THEN Scalars[s.step] ELSE <<>>
           w == Close(base)
<1>1. Completion(s) = v \o w
  BY DEF Completion, Base, Outer
<1>2. base \in Seq(ParseStates)
  BY BaseStack
<1>3. s.step \in Steps \ {"stateError"}
  BY DEF Sound, Scanner
<1> HIDE DEF base
<1>4. /\ w \in Seq(Added)
      /\ \A d, i : Spells(d, i, w) /\ i + Len(w) = Len(d) + 1 => Completes(d, base, One(i))
  BY <1>2, CloseCompletes
<1>5. /\ v \in Seq(Added)
      /\ \A d, i : Spells(d, i, v) => \E R : Rest(d, s.step, i) = Both(One(i + Len(v)), R)
  <2>1. CASE s.step \in DOMAIN Scalars
    BY <1>3, <2>1, ScalarsCover DEF Adds
  <2>2. CASE s.step \notin DOMAIN Scalars
    <3>1. v = <<>> /\ s.step \in FinalSteps
      BY <1>3, <2>2, ScalarsCover
    <3> HIDE DEF v
    <3>2. v \in Seq(Added) /\ Len(v) = 0
      BY <3>1
    <3>3. ASSUME NEW d, NEW i, Spells(d, i, v)
          PROVE  \E R : Rest(d, s.step, i) = Both(One(i + Len(v)), R)
      <4>1. Position(d, i) /\ i + Len(v) = i
        BY <3>2, <3>3 DEF Spells, Position
      <4> QED BY <3>1, <4>1, MayEnd
    <3> QED BY <3>2, <3>3
  <2> QED BY <2>1, <2>2
<1> HIDE DEF v, w
<1>6. v \o w \in Seq(Added) /\ Len(v \o w) = Len(v) + Len(w) /\ Len(v) \in Nat /\ Len(w) \in Nat
  BY <1>4, <1>5, ConcatProperties
<1>7. ASSUME NEW d, NEW i, Spells(d, i, v \o w), i + Len(v \o w) = Len(d) + 1
      PROVE  Continues(d, i, s.step, s.parseState)
  <2> DEFINE j == i + Len(v)
  <2>1. Spells(d, i, v) /\ Spells(d, j, w)
    BY <1>4, <1>5, <1>7, SpellsSplit
  <2>2. j + Len(w) = Len(d) + 1
    <3> DEFINE m1 == Len(v)
               m2 == Len(w)
    <3>1. i \in Nat /\ Len(d) \in Nat
      BY <2>1 DEF Spells
    <3>2. m1 \in Nat /\ m2 \in Nat /\ i + (m1 + m2) = Len(d) + 1
      BY <1>6, <1>7
    <3> HIDE DEF m1, m2
    <3>3. (i + m1) + m2 = Len(d) + 1
      BY <3>1, <3>2
    <3> QED BY <3>3 DEF m1, m2
  <2>3. PICK R : Rest(d, s.step, i) = Both(One(j), R)
    BY <1>5, <2>1
  <2> HIDE DEF j
  <2>4. Completes(d, base, One(j))
    BY <1>4, <2>1, <2>2
  <2>5. Completes(d, base, Both(One(j), R))
    BY <1>2, <2>4, CompletesSteps
  <2> QED BY <2>3, <2>5 DEF Continues, base
<1> QED BY <1>1, <1>6, <1>7

\* What was read and then v.
LEMMA ReadThen ==
  ASSUME NEW S, NEW t \in Seq(S), NEW U, NEW v \in Seq(U)
  PROVE  LET d == t \o v IN
         /\ Extends(d, t, Len(t))
         /\ Spells(d, Len(t) + 1, v)
         /\ Len(t) + 1 + Len(v) = Len(d) + 1
<1> DEFINE d == t \o v
           W == S \cup U
<1>1. t \in Seq(W) /\ v \in Seq(W)
  OBVIOUS
<1>2. /\ Len(d) = Len(t) + Len(v) /\ Len(t) \in Nat /\ Len(v) \in Nat
      /\ \A k \in 1..Len(t) : d[k] = t[k]
      /\ \A k \in 1..Len(v) : d[Len(t) + k] = v[k]
  BY <1>1, ConcatProperties
<1> HIDE DEF d
<1>3. Extends(d, t, Len(t))
  BY <1>2 DEF Extends
<1>4. ASSUME NEW k \in 1..Len(v) PROVE d[Len(t) + 1 + k - 1] = v[k]
  <2>1. Len(t) + 1 + k - 1 = Len(t) + k
    BY <1>2
  <2> QED BY <1>2, <2>1
<1>5. Spells(d, Len(t) + 1, v) /\ Len(t) + 1 + Len(v) = Len(d) + 1
  BY <1>2, <1>4 DEF Spells
<1> QED BY <1>3, <1>5 DEF d

\* As long as step has returned no scanError, some text that begins with the
\* bytes read is JSON, and Completion tells one: so an error is reported at the
\* first byte that no JSON text could have there, as SyntaxError.Offset says.
THEOREM ErrorIsTimelyAlways == Spec => []ErrorIsTimely
<1>1. ExactInv => ErrorIsTimely
  <2> SUFFICES ASSUME ExactInv, scan.err = NoError
               PROVE  IsJSON(input \o Completion(scan))
    BY DEF ErrorIsTimely
  <2> DEFINE v == Completion(scan)
             d == input \o v
  <2>1. input \in Seq(BytesOf(alphabet)) /\ Sound(scan)
    BY DEF ExactInv, IInv, TypeOK
  <2>2. /\ v \in Seq(Added)
        /\ \A e, i : Spells(e, i, v) /\ i + Len(v) = Len(e) + 1
                        => Continues(e, i, scan.step, scan.parseState)
    BY <2>1, CompletionContinues
  <2> HIDE DEF v
  <2>3. /\ Extends(d, input, Len(input)) /\ Spells(d, Len(input) + 1, v)
        /\ Len(input) + 1 + Len(v) = Len(d) + 1
    BY <2>1, <2>2, ReadThen
  <2>4. IsJSON(d) <=> Continues(d, Len(input) + 1, scan.step, scan.parseState)
    BY <2>3 DEF ExactInv, Exact, ExactAt
  <2> HIDE DEF d
  <2>5. IsJSON(d)
    BY <2>2, <2>3, <2>4
  <2> QED BY <2>5 DEF d, v
<1> QED BY <1>1, ExactAlways, PTL

---------------------------------------------------------------------------
(* nextValue.                                                              *)

\* Behind the top-level value only space leaves the scanner without an error.
LEMMA TopEnded ==
  ASSUME NEW s, s \in Scanner, s.parseState = <<>>, NEW c
  PROVE  /\ stateEndTop(s, c).parseState = <<>>
         /\ stateEndTop(s, c).op = "scanEnd"
         /\ c # " " => stateEndTop(s, c).step = "stateError"
<1> DEFINE r == IF c = " " THEN s ELSE error(s)
<1>1. r \in Scanner /\ r.parseState = <<>> /\ (c # " " => r.step = "stateError")
  BY ErrorEffect
<1>2. stateEndTop(s, c) = [r EXCEPT !.op = "scanEnd"]
  BY DEF stateEndTop
<1> HIDE DEF r
<1> QED BY <1>1, <1>2 DEF Scanner

LEMMA ValueEnded ==
  ASSUME NEW s, s \in Scanner, s.parseState = <<>>, NEW c
  PROVE  /\ stateEndValue(s, c).parseState = <<>>
         /\ stateEndValue(s, c).op = "scanEnd"
         /\ c # " " => stateEndValue(s, c).step = "stateError"
<1> DEFINE r == [s EXCEPT !.step = "stateEndTop", !.endTop = TRUE]
<1>1. r \in Scanner /\ r.parseState = <<>>
  BY DEF Scanner, Steps
<1>2. stateEndValue(s, c) = stateEndTop(r, c)
  BY DEF stateEndValue
<1> HIDE DEF r
<1> DEFINE V == stateEndTop(r, c)
<1>3. V.parseState = <<>> /\ V.op = "scanEnd" /\ (c # " " => V.step = "stateError")
  BY <1>1, TopEnded
<1> HIDE DEF V
<1> QED BY <1>2, <1>3 DEF V

\* The states of a number that may end.
EndOrNumber(s, c) == {stateEndValue(s, c)} \cup
    {Continue(s, st) : st \in {"state1", "stateDot", "stateDot0", "stateE", "stateE0"}}

LEMMA NumberSteps ==
  ASSUME NEW s, Sound(s), s.step \in {"state0", "state1", "stateDot0", "stateE0"}, NEW c
  PROVE  /\ step(s, c) \in EndOrNumber(s, c)
         /\ c = " " => step(s, c) = stateEndValue(s, c)
<1>1. step(s, c) = CASE s.step = "state0" -> state0(s, c) [] s.step = "state1" -> state1(s, c)
                     [] s.step = "stateDot0" -> stateDot0(s, c) [] OTHER -> stateE0(s, c)
  BY DEF step, Hexadecimal, Literal
<1>2. /\ state0(s, c) \in EndOrNumber(s, c)
      /\ c = " " => state0(s, c) = stateEndValue(s, c)
  BY DEF EndOrNumber, state0
<1>3. /\ state1(s, c) \in EndOrNumber(s, c)
      /\ c = " " => state1(s, c) = stateEndValue(s, c)
  BY <1>2 DEF EndOrNumber, state1, Digits
<1>4. /\ stateDot0(s, c) \in EndOrNumber(s, c)
      /\ c = " " => stateDot0(s, c) = stateEndValue(s, c)
  BY DEF EndOrNumber, stateDot0, Digits
<1>5. /\ stateE0(s, c) \in EndOrNumber(s, c)
      /\ c = " " => stateE0(s, c) = stateEndValue(s, c)
  BY DEF EndOrNumber, stateE0, Digits
<1> QED BY <1>1, <1>2, <1>3, <1>4, <1>5

\* A byte that step answers with scanEnd is a space, or no text goes on with it.
LEMMA EndByte ==
  ASSUME NEW s, Sound(s), NEW c, step(s, c).op = "scanEnd", c # " "
  PROVE  step(s, c).step = "stateError"
<1> DEFINE t == step(s, c)
           top == stateEndTop(s, c)
           end == stateEndValue(s, c)
<1>1. s.parseState = <<>> /\ s.step \in FinalSteps /\ s \in Scanner
  BY EndCode DEF Finished, Sound
<1>2. top.step = "stateError" /\ end.step = "stateError"
  BY <1>1, TopEnded, ValueEnded
<1>3. s.step = "stateEndTop" => t = top
  BY DEF step, Hexadecimal, Literal
<1>4. s.step = "stateEndValue" => t = end
  BY DEF step, Hexadecimal, Literal
<1>5. CASE s.step \in {"state0", "state1", "stateDot0", "stateE0"}
  <2>1. ASSUME NEW st, t = Continue(s, st) PROVE FALSE
    <3>1. Continue(s, st).op = "scanContinue"
      BY <1>1 DEF Continue, Return, Scanner
    <3> HIDE DEF t
    <3>2. t.op = "scanContinue"
      BY <2>1, <3>1
    <3> QED BY <3>2 DEF t
  <2>2. t = end
    <3>1. t \in EndOrNumber(s, c)
      BY <1>5, NumberSteps
    <3>2. t = end \/ \E st : t = Continue(s, st)
      BY <3>1 DEF EndOrNumber
    <3> HIDE DEF t, end
    <3> QED BY <2>1, <3>2
  <2> HIDE DEF t, end
  <2>3. t.step = "stateError"
    BY <1>2, <2>2
  <2> QED BY <2>3 DEF t
<1> HIDE DEF t, top, end
<1>6. t.step = "stateError"
  BY <1>1, <1>2, <1>3, <1>4, <1>5 DEF FinalSteps, t
<1> QED BY <1>6 DEF t

\* The codes of the steps that close a bracket.
LEMMA EndValueBracket ==
  ASSUME NEW s, Ready(s), NEW c, stateEndValue(s, c).op \in Brackets
  PROVE  /\ c \in {"}", "]"}
         /\ stateEndValue(s, c).step \in {"stateEndTop", "stateEndValue"}
<1> DEFINE V == stateEndValue(s, c)
           r1 == Return(s, "stateEndValue", "scanSkipSpace")
           r2 == Return(SetTop(s, "parseObjectValue"), "stateBeginValue", "scanObjectKey")
           r3 == Return(SetTop(s, "parseObjectKey"), "stateBeginString", "scanObjectValue")
           r4 == Return(s, "stateBeginValue", "scanArrayValue")
           r5 == [popParseState(s) EXCEPT !.op = "scanEndObject"]
           r6 == [popParseState(s) EXCEPT !.op = "scanEndArray"]
<1>1. s \in Scanner
  BY DEF Ready
<1>2. s.parseState # <<>>
  BY <1>1, ValueEnded DEF Brackets
<1>3. /\ V \in {r1, r2, r3, r4, r5, r6, error(s)}
      /\ c \notin {"}", "]"} => V \in {r1, r2, r3, r4, error(s)}
  BY <1>2 DEF stateEndValue
<1>4. /\ r1.op \notin Brackets /\ r2.op \notin Brackets
      /\ r3.op \notin Brackets /\ r4.op \notin Brackets
  <2>1. \A p \in ParseStates : SetTop(s, p) \in Scanner
    BY <1>2, TopSet DEF Ready
  <2>2. \A r \in Scanner : \A st, op : Return(r, st, op).op = op
    BY DEF Return, Scanner
  <2> QED BY <1>1, <2>1, <2>2 DEF ParseStates, Brackets
<1>5. error(s).op \notin Brackets
  BY <1>1, ErrorEffect DEF Brackets
<1>6. /\ r5.step \in {"stateEndTop", "stateEndValue"}
      /\ r6.step \in {"stateEndTop", "stateEndValue"}
  <2>1. \A op \in Codes : [popParseState(s) EXCEPT !.op = op].step \in {"stateEndTop", "stateEndValue"}
    <3> TAKE op \in Codes
    <3> DEFINE q == [popParseState(s) EXCEPT !.op = op]
    <3>1. q.step = IF Len(s.parseState) - 1 = 0 THEN "stateEndTop" ELSE "stateEndValue"
      BY <1>2, PopEffect
    <3> HIDE DEF q
    <3>2. q.step \in {"stateEndTop", "stateEndValue"}
      BY <3>1
    <3> QED BY <3>2 DEF q
  <2> QED BY <2>1 DEF Codes
<1> HIDE DEF V, r1, r2, r3, r4, r5, r6
<1>7. V.op \in Brackets
  BY DEF V
<1>8. c \in {"}", "]"} /\ V.step \in {"stateEndTop", "stateEndValue"}
  BY <1>3, <1>4, <1>5, <1>6, <1>7
<1> QED BY <1>8 DEF V

\* A bracket that closes leaves the scanner behind a value.
LEMMA BracketByte ==
  ASSUME NEW s, Sound(s), NEW c, step(s, c).op \in Brackets
  PROVE  /\ c \in {"}", "]"}
         /\ step(s, c).step \in {"stateEndTop", "stateEndValue"}
<1> DEFINE t == step(s, c)
           Behind(r) == r.op \in Brackets =>
                           c \in {"}", "]"} /\ r.step \in {"stateEndTop", "stateEndValue"}
<1> SUFFICES Behind(t)
  OBVIOUS
<1>1. s \in Scanner /\ s.step \in Steps
  BY DEF Sound, Scanner
<1>2. s.step \in OpenSteps => Ready(s)
  BY OpenIsReady
<1>3. \A r : Ready(r) => Behind(stateEndValue(r, c))
  BY EndValueBracket
<1>4. /\ Behind(error(s)) /\ \A st : Behind(Continue(s, st))
      /\ Behind(stateBeginValue(s, c)) /\ Behind(stateBeginString(s, c))
      /\ Behind(stateInString(s, c)) /\ Behind(stateInStringEsc(s, c))
      /\ Behind(stateNeg(s, c)) /\ Behind(stateDot(s, c))
      /\ Behind(stateESign(s, c)) /\ Behind(stateE(s, c))
  BY <1>1, OtherCodes DEF Enders
<1>5. CASE s.step = "stateError"
  <2>1. t.op = "scanError"
    BY <1>5, StaysInError
  <2> QED BY <2>1 DEF Brackets
<1>6. CASE s.step = "stateEndTop"
  <2>1. t = stateEndTop(s, c) /\ s.parseState = <<>>
    BY <1>6 DEF step, Hexadecimal, Literal, Sound, Fits
  <2>2. stateEndTop(s, c).op \notin Brackets
    BY <1>1, <2>1, TopEnded DEF Brackets
  <2> HIDE DEF t
  <2> QED BY <2>1, <2>2
<1>7. CASE s.step \in {"stateEndValue", "state1", "state0", "stateDot0", "stateE0"}
  <2>1. t = stateEndValue(s, c) \/ \E st : t = Continue(s, st)
    <3>1. s.step = "stateEndValue" => t = stateEndValue(s, c)
      BY DEF step, Hexadecimal, Literal
    <3>2. s.step # "stateEndValue" => t \in EndOrNumber(s, c)
      BY <1>7, NumberSteps
    <3> QED BY <3>1, <3>2 DEF EndOrNumber
  <2>2. Ready(s)
    BY <1>2, <1>7 DEF OpenSteps, ScalarSteps
  <2> HIDE DEF t, Behind
  <2> QED BY <1>3, <1>4, <2>1, <2>2
<1>8. CASE s.step \in {"stateBeginValue", "stateBeginString"}
  <2>1. t \in {stateBeginValue(s, c), stateBeginString(s, c)}
    BY <1>8 DEF step, Hexadecimal, Literal
  <2> HIDE DEF t, Behind
  <2> QED BY <1>4, <2>1
<1>9. CASE s.step = "stateBeginValueOrEmpty"
  <2>1. t = stateBeginValueOrEmpty(s, c) /\ Ready(s)
    BY <1>2, <1>9 DEF step, Hexadecimal, Literal, OpenSteps
  <2>2. t \in {stateEndValue(s, c), stateBeginValue(s, c)}
    BY <2>1 DEF stateBeginValueOrEmpty
  <2> HIDE DEF t, Behind
  <2> QED BY <1>3, <1>4, <2>1, <2>2
<1>10. CASE s.step = "stateBeginStringOrEmpty"
  <2> DEFINE e == SetTop(s, "parseObjectValue")
  <2>1. t = stateBeginStringOrEmpty(s, c)
    BY <1>10 DEF step, Hexadecimal, Literal
  <2>2. s.parseState # <<>> /\ Ready(s)
    BY <1>2, <1>10 DEF Sound, Fits, InKey, OpenSteps
  <2>3. Ready(e)
    BY <2>2, TopSet DEF ParseStates
  <2>4. t \in {stateEndValue(e, c), stateBeginString(s, c)}
    BY <2>1 DEF stateBeginStringOrEmpty
  <2> HIDE DEF t, e, Behind
  <2> QED BY <1>3, <1>4, <2>3, <2>4
<1>11. CASE s.step \in StringSteps
  <2>1. s.step = "stateInString" => t = stateInString(s, c)
    BY DEF step, Hexadecimal, Literal
  <2>2. s.step = "stateInStringEsc" => t = stateInStringEsc(s, c)
    BY DEF step, Hexadecimal, Literal
  <2>3. s.step \in DOMAIN Hexadecimal => t \in {Continue(s, Hexadecimal[s.step]), error(s)}
    BY DEF step, Hexadecimal, Literal
  <2> HIDE DEF t, Behind
  <2> QED BY <1>4, <1>11, <2>1, <2>2, <2>3 DEF StringSteps
<1>12. CASE s.step \in DOMAIN Literal
  <2>1. t \in {Continue(s, Literal[s.step][2]), error(s)}
    BY <1>12 DEF step, Hexadecimal, Literal
  <2> HIDE DEF t, Behind
  <2> QED BY <1>4, <2>1
<1>13. CASE s.step \in {"stateNeg", "stateDot", "stateE", "stateESign"}
  <2>1. t \in {stateNeg(s, c), stateDot(s, c), stateE(s, c), stateESign(s, c)}
    BY <1>13 DEF step, Hexadecimal, Literal
  <2> HIDE DEF t, Behind
  <2> QED BY <1>4, <2>1
<1> HIDE DEF t, Behind
<1> QED BY <1>1, <1>5, <1>6, <1>7, <1>8, <1>9, <1>10, <1>11, <1>12, <1>13
        DEF Steps, OpenSteps, ScalarSteps

\* There a space is the end of the text or changes nothing.
LEMMA Probe ==
  ASSUME NEW s, Sound(s), s.step \in {"stateEndTop", "stateEndValue"}
  PROVE  /\ Finished(s) <=> step(s, " ").op = "scanEnd"
         /\ ~Finished(s) => /\ step(s, " ").step = s.step
                            /\ step(s, " ").parseState = s.parseState
<1> DEFINE c == " "
           t == step(s, c)
<1> SUFFICES /\ Finished(s) <=> t.op = "scanEnd"
             /\ ~Finished(s) => t.step = s.step /\ t.parseState = s.parseState
  OBVIOUS
<1>0. s \in Scanner /\ (Finished(s) <=> s.parseState = <<>>)
  BY DEF Sound, Finished, FinalSteps
<1>1. CASE s.step = "stateEndTop"
  <2>1. t = stateEndTop(s, c)
    BY <1>1 DEF step, Hexadecimal, Literal
  <2>2. s.parseState = <<>>
    BY <1>1 DEF Sound, Fits
  <2>3. stateEndTop(s, c).op = "scanEnd"
    BY <1>0, <2>2, TopEnded
  <2> HIDE DEF t
  <2> QED BY <1>0, <2>1, <2>2, <2>3
<1>2. CASE s.step = "stateEndValue" /\ s.parseState = <<>>
  <2>1. t = stateEndValue(s, c)
    BY <1>2 DEF step, Hexadecimal, Literal
  <2>2. stateEndValue(s, c).op = "scanEnd"
    BY <1>0, <1>2, ValueEnded
  <2> HIDE DEF t
  <2> QED BY <1>0, <1>2, <2>1, <2>2
<1>3. CASE s.step = "stateEndValue" /\ s.parseState # <<>>
  <2>1. t = stateEndValue(s, c)
    BY <1>3 DEF step, Hexadecimal, Literal
  <2>2. stateEndValue(s, c) = Return(s, "stateEndValue", "scanSkipSpace")
    BY <1>3 DEF stateEndValue
  <2>3. /\ Return(s, "stateEndValue", "scanSkipSpace").op = "scanSkipSpace"
        /\ Return(s, "stateEndValue", "scanSkipSpace").step = "stateEndValue"
        /\ Return(s, "stateEndValue", "scanSkipSpace").parseState = s.parseState
    BY <1>0 DEF Return, Scanner
  <2> HIDE DEF t
  <2> QED BY <1>0, <1>3, <2>1, <2>2, <2>3
<1> QED BY <1>1, <1>2, <1>3

LEMMA SpaceSkips ==
  ASSUME NEW s, NEW c, c = " "
  PROVE  stateBeginValue(s, c) = SkipSpace(s) /\ stateBeginString(s, c) = SkipSpace(s)
<1>1. stateBeginValue(s, c) = SkipSpace(s)
  BY DEF stateBeginValue, Scalar
<1>2. stateBeginString(s, c) = SkipSpace(s)
  BY DEF stateBeginString
<1> QED BY <1>1, <1>2

LEMMA LiteralBytes ==
  ASSUME NEW s, Sound(s), s.step \in DOMAIN Literal
  PROVE  Literal[s.step][1] # " "
<1>1. Literal[s.step][1] \in {"r", "u", "e", "a", "l", "s"}
  BY DEF Literal
<1> QED BY <1>1

\* A space is not the last byte of a value.
LEMMA BlankFinishes ==
  ASSUME NEW s, Sound(s), step(s, " ").op # "scanEnd"
  PROVE  ~Finished(step(s, " "))
<1> DEFINE c == " "
           t == step(s, c)
<1> SUFFICES ASSUME t.op # "scanEnd" PROVE ~Finished(t)
  OBVIOUS
<1>1. s \in Scanner /\ s.step \in Steps
  BY DEF Sound, Scanner
<1>2. ~Finished(error(s)) /\ ~Finished(Continue(s, "stateInString"))
  BY <1>1, ErrorEffect DEF Finished, FinalSteps, Continue, Return, Scanner
<1>3. s.step \notin FinalSteps => ~Finished(SkipSpace(s))
  BY <1>1 DEF Finished, SkipSpace, Scanner
<1>4. CASE s.step = "stateError"
  <2>1. t = [s EXCEPT !.op = "scanError"]
    BY <1>4 DEF step, Hexadecimal, Literal
  <2> QED BY <1>1, <1>4, <2>1 DEF Finished, FinalSteps, Scanner
<1>5. CASE s.step \in {"stateEndTop", "stateEndValue"}
  <2>1. ~Finished(s) /\ t.step = s.step /\ t.parseState = s.parseState
    BY <1>5, Probe
  <2> HIDE DEF t
  <2> QED BY <2>1 DEF Finished
<1>6. CASE s.step \in {"state0", "state1", "stateDot0", "stateE0"}
  <2>1. t = stateEndValue(s, c)
    BY <1>6, NumberSteps
  <2> HIDE DEF t
  <2>2. s.parseState # <<>>
    BY <1>1, <2>1, ValueEnded
  <2>3. t = Return(s, "stateEndValue", "scanSkipSpace")
    BY <2>1, <2>2 DEF stateEndValue
  <2>4. t.parseState = s.parseState
    BY <1>1, <2>3 DEF Return, Scanner
  <2> QED BY <2>2, <2>4 DEF Finished
<1>7. CASE s.step \in {"stateBeginValue", "stateBeginValueOrEmpty", "stateBeginString",
                       "stateBeginStringOrEmpty"}
  <2>0. stateBeginValue(s, c) = SkipSpace(s) /\ stateBeginString(s, c) = SkipSpace(s)
    BY SpaceSkips
  <2>1. t = SkipSpace(s)
    <3>1. stateBeginValueOrEmpty(s, c) = stateBeginValue(s, c)
      BY DEF stateBeginValueOrEmpty
    <3>2. stateBeginStringOrEmpty(s, c) = stateBeginString(s, c)
      BY DEF stateBeginStringOrEmpty
    <3>3. t \in {stateBeginValue(s, c), stateBeginString(s, c),
                stateBeginValueOrEmpty(s, c), stateBeginStringOrEmpty(s, c)}
      BY <1>7 DEF step, Hexadecimal, Literal
    <3> HIDE DEF t, c
    <3> QED BY <2>0, <3>1, <3>2, <3>3
  <2> HIDE DEF t
  <2> QED BY <1>3, <1>7, <2>1 DEF FinalSteps
<1>8. CASE s.step \in StringSteps
  <2>1. s.step = "stateInString" => t = Continue(s, "stateInString")
    BY DEF step, Hexadecimal, Literal, stateInString
  <2>2. s.step = "stateInStringEsc" => t = error(s)
    BY DEF step, Hexadecimal, Literal, stateInStringEsc, Escapes
  <2>3. s.step \in DOMAIN Hexadecimal => t = error(s)
    BY DEF step, Hexadecimal, Literal, HexDigits, Digits
  <2> HIDE DEF t
  <2> QED BY <1>2, <1>8, <2>1, <2>2, <2>3 DEF StringSteps
<1>9. CASE s.step \in DOMAIN Literal
  <2>0. c # Literal[s.step][1]
    BY <1>9, LiteralBytes
  <2>1. t = error(s)
    <3>1. t = IF c = Literal[s.step][1] THEN Continue(s, Literal[s.step][2]) ELSE error(s)
      BY <1>9 DEF step, Hexadecimal, Literal
    <3> HIDE DEF t
    <3> QED BY <2>0, <3>1
  <2> HIDE DEF t
  <2> QED BY <1>2, <2>1
<1>10. CASE s.step \in {"stateNeg", "stateDot", "stateE", "stateESign"}
  <2>1. t = error(s)
    BY <1>10 DEF step, Hexadecimal, Literal, stateNeg, stateDot, stateE, stateESign, Digits
  <2> HIDE DEF t
  <2> QED BY <1>2, <2>1
<1> HIDE DEF t
<1> QED BY <1>1, <1>4, <1>5, <1>6, <1>7, <1>8, <1>9, <1>10 DEF Steps, OpenSteps, ScalarSteps

\* The first bytes of t, as a text.
LEMMA Prefix ==
  ASSUME NEW S, NEW t \in Seq(S), NEW i \in 0..Len(t)
  PROVE  /\ Len(SubSeq(t, 1, i)) = i
         /\ Extends(SubSeq(t, 1, i), t, i)
         /\ i >= 1 => SubSeq(t, 1, i)[i] = t[i]
<1> DEFINE d == SubSeq(t, 1, i)
<1>1. Len(t) \in Nat /\ i \in Nat /\ i <= Len(t)
  OBVIOUS
<1>2. Len(d) = i /\ \A k \in 1..i : d[k] = t[k]
  BY <1>1
<1> HIDE DEF d
<1>3. Extends(d, t, i) /\ (i >= 1 => d[i] = t[i])
  BY <1>1, <1>2 DEF Extends
<1> QED BY <1>2, <1>3 DEF d

\* What the first i bytes of t are, once they are read.
LEMMA PrefixJSON ==
  ASSUME NEW S, NEW t \in Seq(S), NEW i \in 0..Len(t), NEW s, Sound(s), ExactAt(t, i, s)
  PROVE  IsJSON(SubSeq(t, 1, i)) <=> Finished(s)
<1> DEFINE d == SubSeq(t, 1, i)
<1>1. Len(d) = i /\ Extends(d, t, i)
  BY Prefix
<1> HIDE DEF d
<1>2. IsJSON(d) <=> Finished(s)
  BY <1>1, ExactEnd
<1> QED BY <1>2 DEF d

\* After an error no text that begins so is JSON.
LEMMA ErrorNotJSON ==
  ASSUME NEW t, NEW i, NEW s, Sound(s), s.step = "stateError", ExactAt(t, i, s)
  PROVE  \A d : Extends(d, t, i) => ~IsJSON(d)
<1>1. s.parseState \in Seq(ParseStates)
  BY DEF Sound, Scanner
<1>2. \A d : ~Into(d, i, s)
  BY <1>1, IntoError
<1> QED BY <1>2 DEF ExactAt, Into

\* n is what nextValue may return for t.
Whole(t, n) ==
    /\ n # NoError => /\ IsJSON(SubSeq(t, 1, n))
                      /\ n < Len(t) => /\ SubSeq(t, 1, n)[n] # " "
                                       /\ t[n + 1] # " " => ~IsJSON(SubSeq(t, 1, n + 1))
    /\ n = NoError => ~IsJSON(t)

\* s has read n bytes, the last one is not a space, and the next one is a space
\* or an error.
Ended(t, n, s) ==
    /\ n < Len(t) => t[n] # " "
    /\ n < Len(t) /\ t[n + 1] # " " => step(s, t[n + 1]).step = "stateError"

LEMMA NaturalIsLength == \A n \in Nat : n # NoError
BY DEF NoError

\* There the value is whole.
LEMMA CutWhole ==
  ASSUME NEW S, NEW t \in Seq(S), NEW n \in 1..Len(t),
         NEW s, Sound(s), ExactAt(t, n, s), Finished(s), Ended(t, n, s)
  PROVE  Whole(t, n)
<1>0. n \in Nat /\ n \in 0..Len(t) /\ n >= 1 /\ Len(t) \in Nat /\ n # NoError
  BY NaturalIsLength
<1>1. IsJSON(SubSeq(t, 1, n)) /\ SubSeq(t, 1, n)[n] = t[n]
  BY <1>0, Prefix, PrefixJSON
<1>2. ASSUME n < Len(t), t[n + 1] # " " PROVE ~IsJSON(SubSeq(t, 1, n + 1))
  <2> DEFINE u == step(s, t[n + 1])
             d == SubSeq(t, 1, n + 1)
  <2>1. u.step = "stateError" /\ Sound(u) /\ ExactAt(t, n + 1, u)
    BY <1>0, <1>2, StepSound, ExactStep DEF Result, Ended
  <2>2. n + 1 \in 0..Len(t)
    <3>1. n \in Nat /\ Len(t) \in Nat /\ n < Len(t)
      BY <1>0, <1>2
    <3> QED BY <3>1
  <2>3. Extends(d, t, n + 1)
    BY <2>2, Prefix
  <2> HIDE DEF u, d
  <2>4. ~IsJSON(d)
    BY <2>1, <2>3, ErrorNotJSON
  <2> QED BY <2>4 DEF d
<1>3. n < Len(t) => SubSeq(t, 1, n)[n] # " "
  BY <1>1 DEF Ended
<1> QED BY <1>0, <1>1, <1>2, <1>3 DEF Whole

\* The loop goes on after i bytes, or has returned.
Going(t, i, s) ==
    /\ Sound(s)
    /\ ExactAt(t, i, s)
    /\ Finished(s) => i >= 1 /\ t[i] # " "
Looping(t, i, r) == IF r.over THEN Whole(t, r.n) ELSE Going(t, i, r.scan)

LEMMA LoopingCases ==
  ASSUME NEW t, NEW i, NEW s, NEW n
  PROVE  /\ Looping(t, i, GoesOn(s)) <=> Going(t, i, s)
         /\ Looping(t, i, Returns(s, n)) <=> Whole(t, n)
<1>1. ~GoesOn(s).over /\ GoesOn(s).scan = s
  BY DEF GoesOn
<1>2. Returns(s, n).over /\ Returns(s, n).n = n
  BY DEF Returns
<1> QED BY <1>1, <1>2 DEF Looping

\* One of the cuts.
LEMMA CutCases ==
  ASSUME NEW u, NEW j
  PROVE  LET p == step(u, " ") IN
         /\ u.op \in Brackets /\ p.op = "scanEnd" => Cut(u, j) = Returns(p, j)
         /\ u.op \in Brackets /\ p.op # "scanEnd" => Cut(u, j) = GoesOn(p)
         /\ u.op = "scanError" => Cut(u, j) = Returns(u, NoError)
         /\ u.op = "scanEnd" => Cut(u, j) = Returns(u, j - 1)
         /\ u.op \notin Brackets \cup {"scanError", "scanEnd"} => Cut(u, j) = GoesOn(u)
BY DEF Cut, Probed, Brackets

LEMMA CutLoops ==
  ASSUME NEW S, NEW t \in Seq(S), NEW i \in Nat, i < Len(t), NEW s, Going(t, i, s)
  PROVE  Looping(t, i + 1, Cut(step(s, t[i + 1]), i + 1))
<1> DEFINE j == i + 1
           c == t[j]
           u == step(s, c)
           p == step(u, " ")
<1>0. /\ i \in 0..Len(t) /\ j \in 1..Len(t) /\ j \in 0..Len(t) /\ j - 1 = i /\ j \in Nat
      /\ Len(t) \in Nat /\ i + 1 = j /\ j >= 1
  OBVIOUS
<1>1. Sound(s) /\ ExactAt(t, i, s) /\ (Finished(s) => i >= 1 /\ t[i] # " ")
  BY DEF Going
<1>2. Sound(u) /\ ExactAt(t, j, u)
  BY <1>1, StepSound, ExactStep DEF Result
<1>3. Sound(p)
  BY <1>2, StepSound DEF Result
<1>4. u.op = "scanEnd" => Finished(s) /\ (c # " " => u.step = "stateError")
  BY <1>1, EndCode, EndByte
<1>5. u.op \in Brackets => c # " " /\ u.step \in {"stateEndTop", "stateEndValue"}
  BY <1>1, BracketByte
<1>6. c = " " /\ u.op # "scanEnd" => ~Finished(u)
  BY <1>1, BlankFinishes
<1>7. u.op = "scanError" => u.step = "stateError"
  BY <1>2 DEF Sound
<1> SUFFICES Looping(t, j, Cut(u, j))
  OBVIOUS
<1>8. CASE u.op \in Brackets /\ p.op = "scanEnd"
  <2>1. Cut(u, j) = Returns(p, j)
    BY <1>8, CutCases
  <2>2. Finished(u)
    BY <1>2, <1>5, <1>8, Probe
  <2>3. Ended(t, j, u)
    <3>1. u.parseState = <<>> /\ u \in Scanner
      BY <1>2, <2>2 DEF Finished, Sound
    <3>2. t[j] # " " /\ u.step \in {"stateEndTop", "stateEndValue"}
      BY <1>5, <1>8
    <3> HIDE DEF u, j
    <3>3. ASSUME NEW x, x # " " PROVE step(u, x).step = "stateError"
      <4>1. u.step = "stateEndTop" => step(u, x) = stateEndTop(u, x)
        BY DEF step, Hexadecimal, Literal
      <4>2. u.step = "stateEndValue" => step(u, x) = stateEndValue(u, x)
        BY DEF step, Hexadecimal, Literal
      <4>3. /\ stateEndTop(u, x).step = "stateError"
            /\ stateEndValue(u, x).step = "stateError"
        BY <3>1, <3>3, TopEnded, ValueEnded
      <4> QED BY <3>2, <4>1, <4>2, <4>3
    <3> QED BY <3>2, <3>3 DEF Ended
  <2>4. Whole(t, j)
    BY <1>0, <1>2, <2>2, <2>3, CutWhole
  <2> HIDE DEF u, p, j
  <2> QED BY <2>1, <2>4, LoopingCases
<1>9. CASE u.op \in Brackets /\ p.op # "scanEnd"
  <2>1. Cut(u, j) = GoesOn(p)
    BY <1>9, CutCases
  <2>2. ~Finished(u) /\ p.step = u.step /\ p.parseState = u.parseState
    BY <1>2, <1>5, <1>9, Probe
  <2> HIDE DEF u, p, j
  <2>3. ExactAt(t, j, p) /\ ~Finished(p)
    BY <1>2, <2>2 DEF ExactAt, Finished
  <2>4. Going(t, j, p)
    BY <1>3, <2>3 DEF Going
  <2> QED BY <2>1, <2>4, LoopingCases
<1>10. CASE u.op = "scanError"
  <2>1. Cut(u, j) = Returns(u, NoError)
    BY <1>10, CutCases
  <2>2. Extends(t, t, j)
    BY <1>0 DEF Extends
  <2> HIDE DEF u, j
  <2>3. ~IsJSON(t)
    BY <1>2, <1>7, <1>10, <2>2, ErrorNotJSON
  <2>4. Whole(t, NoError)
    BY <2>3 DEF Whole
  <2> QED BY <2>1, <2>4, LoopingCases
<1>11. CASE u.op = "scanEnd"
  <2>1. Cut(u, j) = Returns(u, j - 1)
    BY <1>11, CutCases
  <2>2. Finished(s) /\ (c # " " => u.step = "stateError")
    BY <1>4, <1>11
  <2>3. Whole(t, i)
    <3>1. i >= 1
      BY <1>1, <2>2
    <3>2. i \in 1..Len(t)
      BY <1>0, <3>1
    <3>3. Ended(t, i, s)
      BY <1>1, <2>2 DEF Ended
    <3> QED BY <1>1, <2>2, <3>2, <3>3, CutWhole
  <2> HIDE DEF u, j
  <2> QED BY <1>0, <2>1, <2>3, LoopingCases
<1>12. CASE u.op \notin Brackets \cup {"scanError", "scanEnd"}
  <2>1. Cut(u, j) = GoesOn(u)
    BY <1>12, CutCases
  <2>2. Finished(u) => j >= 1 /\ t[j] # " "
    BY <1>0, <1>6, <1>12
  <2> HIDE DEF u, j
  <2>3. Going(t, j, u)
    BY <1>2, <2>2 DEF Going
  <2> QED BY <2>1, <2>3, LoopingCases
<1> QED BY <1>8, <1>9, <1>10, <1>11, <1>12

\* The rounds of the loop are what their definition says.
LEMMA RoundsShape ==
  ASSUME NEW t, Len(t) \in Nat
  PROVE  \E R : /\ nextValue(t) = IF R[Len(t)].over THEN R[Len(t)].n
                                  ELSE IF eof(R[Len(t)].scan).op = "scanError" THEN NoError ELSE Len(t)
                /\ R[0] = GoesOn(reset)
                /\ \A i \in 1..Len(t) : R[i] = Round(R[i - 1], t, i)
<1> DEFINE N == Len(t)
           Chain(C, n) == C[0] = GoesOn(reset) /\ \A m \in 1..n : C[m] = Round(C[m - 1], t, m)
           T == {n \in Nat : \E C : Chain(C, n)}
<1>1. 0 \in T
  <2>1. Chain([m \in {0} |-> GoesOn(reset)], 0)
    OBVIOUS
  <2> QED BY <2>1
<1>2. ASSUME NEW n \in T PROVE n + 1 \in T
  <2>1. PICK C : Chain(C, n)
    OBVIOUS
  <2> DEFINE D == [m \in 0..(n + 1) |-> IF m <= n THEN C[m] ELSE Round(C[n], t, n + 1)]
  <2>2. n \in Nat
    OBVIOUS
  <2>3. /\ \A m \in 0..n : D[m] = C[m]
        /\ D[n + 1] = Round(C[n], t, n + 1)
    BY <2>2
  <2> HIDE DEF D
  <2>4. D[0] = GoesOn(reset)
    BY <2>1, <2>2, <2>3
  <2>5. ASSUME NEW m \in 1..(n + 1) PROVE D[m] = Round(D[m - 1], t, m)
    <3>1. CASE m = n + 1
      <4>1. m - 1 = n /\ n \in 0..n
        BY <2>2, <3>1
      <4> QED BY <2>3, <3>1, <4>1
    <3>2. CASE m # n + 1
      <4>1. m \in 1..n /\ m \in 0..n /\ m - 1 \in 0..n
        BY <2>2, <3>2
      <4> QED BY <2>1, <2>3, <4>1
    <3> QED BY <3>1, <3>2
  <2>6. Chain(D, n + 1)
    BY <2>4, <2>5
  <2> HIDE DEF Chain
  <2>7. \E E : Chain(E, n + 1)
    BY <2>6
  <2> QED BY <2>2, <2>7
<1>3. N \in T
  <2> HIDE DEF T, N
  <2>1. T \subseteq Nat
    BY DEF T
  <2>2. N \in Nat
    BY DEF N
  <2> QED BY <1>1, <1>2, <2>1, <2>2, NatSet
<1>4. PICK C : Chain(C, N)
  BY <1>3
<1> DEFINE R == [n \in 0..N |-> C[n]]
           Q(P) == P = [n \in 0..N |-> IF n = 0 THEN GoesOn(reset) ELSE Round(P[n - 1], t, n)]
<1>5. Q(R)
  <2> DEFINE F(n) == IF n = 0 THEN GoesOn(reset) ELSE Round(R[n - 1], t, n)
  <2>1. ASSUME NEW n \in 0..N PROVE C[n] = F(n)
    <3>1. CASE n = 0
      BY <1>4, <3>1
    <3>2. CASE n # 0
      <4>1. n \in 1..N /\ n - 1 \in 0..N
        BY <3>2
      <4>2. R[n - 1] = C[n - 1]
        BY <4>1
      <4> HIDE DEF R
      <4> QED BY <1>4, <3>2, <4>1, <4>2
    <3> QED BY <3>1, <3>2
  <2> HIDE DEF F
  <2>2. R = [n \in 0..N |-> F(n)]
    BY <2>1
  <2> QED BY <2>2 DEF F
<1> DEFINE P == CHOOSE P : Q(P)
<1>6. nextValue(t) = IF P[N].over THEN P[N].n
                     ELSE IF eof(P[N].scan).op = "scanError" THEN NoError ELSE N
  BY DEF nextValue
<1>7. Q(P)
  <2> HIDE DEF Q, R
  <2> QED BY <1>5
<1> HIDE DEF P
<1>8. P[0] = GoesOn(reset)
  BY <1>7
<1>9. ASSUME NEW m \in 1..N PROVE P[m] = Round(P[m - 1], t, m)
  <2>1. m \in 0..N /\ m # 0
    OBVIOUS
  <2> QED BY <1>7, <2>1
<1> QED BY <1>6, <1>8, <1>9

\* A new scanner is sound.
LEMMA ResetSound == Sound(reset) /\ ~Finished(reset)
<1>1. reset \in Scanner
  BY EmptySeq DEF reset, Scanner, Codes, Steps, OpenSteps, NoError
<1>2. /\ reset.step = "stateBeginValue" /\ reset.parseState = <<>> /\ ~reset.endTop
      /\ reset.err = NoError /\ reset.op = "scanContinue"
  BY DEF reset
<1> HIDE DEF reset
<1> QED BY <1>1, <1>2 DEF Sound, Fits, Nested, InKey, Finished, FinalSteps

\* Whatever the data.
LEMMA NextValueWhole ==
  ASSUME NEW S, NEW t \in Seq(S)
  PROVE  Whole(t, nextValue(t))
<1> DEFINE N == Len(t)
<1>0. N \in Nat
  OBVIOUS
<1>1. PICK R : /\ nextValue(t) = IF R[N].over THEN R[N].n
                                 ELSE IF eof(R[N].scan).op = "scanError" THEN NoError ELSE N
               /\ R[0] = GoesOn(reset)
               /\ \A i \in 1..N : R[i] = Round(R[i - 1], t, i)
  BY <1>0, RoundsShape
<1> DEFINE T == {i \in Nat : i <= N => Looping(t, i, R[i])}
<1>2. 0 \in T
  <2>1. reset.step = "stateBeginValue" /\ reset.parseState = <<>>
    BY DEF reset
  <2>2. ExactAt(t, 0, reset)
    BY <2>1, ExactFirst
  <2>3. Looping(t, 0, GoesOn(reset))
    BY <2>2, ResetSound, LoopingCases DEF Going
  <2> QED BY <1>1, <2>3
<1>3. ASSUME NEW i \in T PROVE i + 1 \in T
  <2>1. i \in Nat /\ (i <= N => Looping(t, i, R[i]))
    OBVIOUS
  <2>2. ASSUME i + 1 <= N PROVE Looping(t, i + 1, R[i + 1])
    <3>1. Looping(t, i, R[i]) /\ i < Len(t)
      BY <1>0, <2>1, <2>2
    <3>2. i + 1 \in 1..N /\ i + 1 - 1 = i
      BY <1>0, <2>1, <2>2
    <3>3. R[i + 1] = Round(R[i], t, i + 1)
      BY <1>1, <3>2
    <3>4. CASE R[i].over
      BY <3>1, <3>3, <3>4 DEF Round, Looping
    <3>5. CASE ~R[i].over
      <4>1. R[i + 1] = Cut(step(R[i].scan, t[i + 1]), i + 1)
        BY <3>3, <3>5 DEF Round
      <4>2. Going(t, i, R[i].scan)
        BY <3>1, <3>5 DEF Looping
      <4> QED BY <2>1, <3>1, <4>1, <4>2, CutLoops
    <3> QED BY <3>4, <3>5
  <2> QED BY <2>1, <2>2
<1>4. Looping(t, N, R[N])
  <2>1. T \subseteq Nat
    OBVIOUS
  <2> HIDE DEF T, N
  <2>2. N \in T
    BY <1>0, <1>2, <1>3, <2>1, NatSet
  <2> QED BY <1>0, <2>2 DEF T
<1>5. CASE R[N].over
  BY <1>1, <1>4, <1>5 DEF Looping
<1>6. CASE ~R[N].over
  <2> DEFINE s == R[N].scan
  <2>1. Sound(s) /\ ExactAt(t, N, s)
    BY <1>4, <1>6 DEF Looping, Going
  <2>2. Extends(t, t, N)
    BY <1>0 DEF Extends
  <2>3. SubSeq(t, 1, N) = t
    OBVIOUS
  <2> HIDE DEF s
  <2>4. IsJSON(t) <=> Finished(s)
    BY <2>1, <2>2, ExactEnd
  <2>5. eof(s).op # "scanError" <=> Finished(s)
    BY <2>1, EofFinished
  <2>6. nextValue(t) = IF eof(s).op = "scanError" THEN NoError ELSE N
    BY <1>1, <1>6 DEF s
  <2>7. N # NoError /\ ~(N < Len(t))
    BY <1>0 DEF NoError
  <2> HIDE DEF N
  <2> QED BY <2>3, <2>4, <2>5, <2>6, <2>7 DEF Whole
<1> QED BY <1>5, <1>6

\* nextValue cuts one whole value off whatever data it gets: what it returns is
\* JSON, no shorter than it could be and without space behind it, and it fails
\* on no JSON text.
THEOREM NextValueIsWholeAlways == Spec => []NextValueIsWhole
<1>1. ExactInv => NextValueIsWhole
  <2>1. ExactInv => input \in Seq(BytesOf(alphabet))
    BY DEF ExactInv, IInv, TypeOK
  <2> QED BY <2>1, NextValueWhole DEF NextValueIsWhole, Whole
<1> QED BY <1>1, ExactAlways, PTL

---------------------------------------------------------------------------
(* Compact.                                                                *)

\* The codes of the spaces that Compact leaves out.
Dropped == {"scanSkipSpace", "scanEnd"}

\* Between the tokens a space is skipped, ends the text or is an error.
LEMMA SpaceCode ==
  ASSUME NEW s, Sound(s), s.step \notin StringSteps, step(s, " ").err = NoError
  PROVE  step(s, " ").op \in Dropped
<1> DEFINE c == " "
           t == step(s, c)
<1> SUFFICES ASSUME t.err = NoError PROVE t.op \in Dropped
  OBVIOUS
<1>1. s \in Scanner /\ s.step \in Steps
  BY DEF Sound, Scanner
<1>2. error(s).err # NoError
  BY <1>1, ErrorEffect
<1>3. SkipSpace(s).op = "scanSkipSpace"
  BY <1>1 DEF SkipSpace, Scanner
<1>4. stateEndValue(s, c).op \in Dropped
  <2>1. CASE s.parseState = <<>>
    BY <1>1, <2>1, ValueEnded DEF Dropped
  <2>2. CASE s.parseState # <<>>
    <3>1. stateEndValue(s, c) = Return(s, "stateEndValue", "scanSkipSpace")
      BY <2>2 DEF stateEndValue
    <3>2. Return(s, "stateEndValue", "scanSkipSpace").op = "scanSkipSpace"
      BY <1>1 DEF Return, Scanner
    <3> QED BY <3>1, <3>2 DEF Dropped
  <2> QED BY <2>1, <2>2
<1>5. CASE s.step = "stateError"
  <2>1. t.err = s.err /\ s.err # NoError
    BY <1>5, StaysInError DEF Sound
  <2> QED BY <2>1
<1>6. CASE s.step = "stateEndTop"
  <2>1. t = stateEndTop(s, c) /\ s.parseState = <<>>
    BY <1>6 DEF step, Hexadecimal, Literal, Sound, Fits
  <2>2. stateEndTop(s, c).op = "scanEnd"
    BY <1>1, <2>1, TopEnded
  <2> HIDE DEF t
  <2> QED BY <2>1, <2>2 DEF Dropped
<1>7. CASE s.step \in {"stateEndValue", "state0", "state1", "stateDot0", "stateE0"}
  <2>1. s.step = "stateEndValue" => t = stateEndValue(s, c)
    BY DEF step, Hexadecimal, Literal
  <2>2. s.step # "stateEndValue" => t = stateEndValue(s, c)
    BY <1>7, NumberSteps
  <2> HIDE DEF t
  <2> QED BY <1>4, <2>1, <2>2
<1>8. CASE s.step \in {"stateBeginValue", "stateBeginValueOrEmpty", "stateBeginString",
                       "stateBeginStringOrEmpty"}
  <2>1. stateBeginValue(s, c) = SkipSpace(s) /\ stateBeginString(s, c) = SkipSpace(s)
    BY SpaceSkips
  <2>2. stateBeginValueOrEmpty(s, c) = stateBeginValue(s, c)
    BY DEF stateBeginValueOrEmpty
  <2>3. stateBeginStringOrEmpty(s, c) = stateBeginString(s, c)
    BY DEF stateBeginStringOrEmpty
  <2>4. t \in {stateBeginValue(s, c), stateBeginString(s, c),
              stateBeginValueOrEmpty(s, c), stateBeginStringOrEmpty(s, c)}
    BY <1>8 DEF step, Hexadecimal, Literal
  <2> HIDE DEF t, c
  <2> QED BY <1>3, <2>1, <2>2, <2>3, <2>4 DEF Dropped
<1>9. CASE s.step \in DOMAIN Literal
  <2>1. t = IF c = Literal[s.step][1] THEN Continue(s, Literal[s.step][2]) ELSE error(s)
    BY <1>9 DEF step, Hexadecimal, Literal
  <2>2. c # Literal[s.step][1]
    BY <1>9, LiteralBytes
  <2> HIDE DEF t
  <2> QED BY <1>2, <2>1, <2>2
<1>10. CASE s.step \in {"stateNeg", "stateDot", "stateE", "stateESign"}
  <2>1. t = error(s)
    BY <1>10 DEF step, Hexadecimal, Literal, stateNeg, stateDot, stateE, stateESign, Digits
  <2> HIDE DEF t
  <2> QED BY <1>2, <2>1
<1> HIDE DEF t
<1> QED BY <1>1, <1>5, <1>6, <1>7, <1>8, <1>9, <1>10 DEF Steps, OpenSteps, ScalarSteps

\* The other bytes do not have that code.
LEMMA EndValueSkips ==
  ASSUME NEW s, Ready(s), NEW c, stateEndValue(s, c).op = "scanSkipSpace"
  PROVE  c = " "
<1> DEFINE V == stateEndValue(s, c)
           r2 == Return(SetTop(s, "parseObjectValue"), "stateBeginValue", "scanObjectKey")
           r3 == Return(SetTop(s, "parseObjectKey"), "stateBeginString", "scanObjectValue")
           r4 == Return(s, "stateBeginValue", "scanArrayValue")
           r5 == [popParseState(s) EXCEPT !.op = "scanEndObject"]
           r6 == [popParseState(s) EXCEPT !.op = "scanEndArray"]
<1>1. s \in Scanner
  BY DEF Ready
<1>2. s.parseState # <<>>
  BY <1>1, ValueEnded
<1>3. c # " " => V \in {r2, r3, r4, r5, r6, error(s)}
  BY <1>2 DEF stateEndValue
<1>4. r2.op = "scanObjectKey" /\ r3.op = "scanObjectValue" /\ r4.op = "scanArrayValue"
  <2>1. \A p \in ParseStates : SetTop(s, p) \in Scanner
    BY <1>2, TopSet DEF Ready
  <2>2. \A r \in Scanner : \A st, op : Return(r, st, op).op = op
    BY DEF Return, Scanner
  <2> QED BY <1>1, <2>1, <2>2 DEF ParseStates
<1>5. error(s).op = "scanError"
  BY <1>1, ErrorEffect
<1>6. r5.op = "scanEndObject" /\ r6.op = "scanEndArray"
  BY <1>2, PopEffect DEF Codes
<1> HIDE DEF V, r2, r3, r4, r5, r6
<1>7. V.op = "scanSkipSpace"
  BY DEF V
<1> QED BY <1>3, <1>4, <1>5, <1>6, <1>7

LEMMA SkipCode ==
  ASSUME NEW s, Sound(s), NEW c, step(s, c).op = "scanSkipSpace"
  PROVE  c = " " /\ s.step \notin StringSteps
<1> DEFINE t == step(s, c)
           Blanks(r) == r.op = "scanSkipSpace" => c = " "
           Plain(r) == r.op # "scanSkipSpace"
<1> SUFFICES ASSUME t.op = "scanSkipSpace" PROVE c = " " /\ s.step \notin StringSteps
  OBVIOUS
<1>1. s \in Scanner /\ s.step \in Steps
  BY DEF Sound, Scanner
<1>2. s.step \in OpenSteps => Ready(s)
  BY OpenIsReady
<1>3. \A r \in Scanner : \A st, op : Return(r, st, op).op = op
  BY DEF Return, Scanner
<1>4. Plain(error(s)) /\ \A st : Plain(Continue(s, st))
  BY <1>1, <1>3, ErrorEffect DEF Continue
<1>5. \A r : Ready(r) => Blanks(stateEndValue(r, c))
  BY EndValueSkips
<1>6. Blanks(stateBeginValue(s, c))
  <2> DEFINE r1 == Return(pushParseState(s, "parseObjectKey"), "stateBeginStringOrEmpty", "scanBeginObject")
             r2 == Return(pushParseState(s, "parseArrayValue"), "stateBeginValueOrEmpty", "scanBeginArray")
             r3 == Return(s, Scalar[c], "scanBeginLiteral")
  <2>1. c # " " => stateBeginValue(s, c) \in {r1, r2, r3, error(s)}
    BY DEF stateBeginValue
  <2>2. r1.op = "scanBeginObject" /\ r2.op = "scanBeginArray" /\ r3.op = "scanBeginLiteral"
    <3>1. \A p \in ParseStates : \A st, op : Return(pushParseState(s, p), st, op).op = op
      BY <1>1 DEF Return, pushParseState, Scanner
    <3> QED BY <1>1, <1>3, <3>1 DEF ParseStates
  <2> HIDE DEF r1, r2, r3
  <2> QED BY <1>4, <2>1, <2>2
<1>7. Blanks(stateBeginString(s, c))
  <2> DEFINE r == Return(s, "stateInString", "scanBeginLiteral")
  <2>1. c # " " => stateBeginString(s, c) \in {r, error(s)}
    BY DEF stateBeginString
  <2>2. r.op = "scanBeginLiteral"
    BY <1>1, <1>3
  <2> HIDE DEF r
  <2> QED BY <1>4, <2>1, <2>2
<1>8. CASE s.step \in StringSteps
  <2>1. s.step = "stateInString" => t \in {Continue(s, "stateEndValue"),
          Continue(s, "stateInStringEsc"), Continue(s, "stateInString"), error(s)}
    BY DEF step, Hexadecimal, Literal, stateInString
  <2>2. s.step = "stateInStringEsc" => t \in {Continue(s, "stateInString"),
          Continue(s, "stateInStringEscU"), error(s)}
    BY DEF step, Hexadecimal, Literal, stateInStringEsc
  <2>3. s.step \in DOMAIN Hexadecimal => t \in {Continue(s, Hexadecimal[s.step]), error(s)}
    BY DEF step, Hexadecimal, Literal
  <2> HIDE DEF t
  <2> QED BY <1>4, <1>8, <2>1, <2>2, <2>3 DEF StringSteps
<1>9. CASE s.step \in {"stateError", "stateEndTop"}
  <2>1. s.step = "stateError" => t.op = "scanError"
    BY StaysInError
  <2>2. s.step = "stateEndTop" => t = stateEndTop(s, c) /\ s.parseState = <<>>
    BY DEF step, Hexadecimal, Literal, Sound, Fits
  <2>3. s.parseState = <<>> => stateEndTop(s, c).op = "scanEnd"
    BY <1>1, TopEnded
  <2> HIDE DEF t
  <2> QED BY <1>9, <2>1, <2>2, <2>3
<1>10. CASE s.step \in {"stateEndValue", "state1", "state0", "stateDot0", "stateE0"}
  <2>1. t = stateEndValue(s, c) \/ \E st : t = Continue(s, st)
    <3>1. s.step = "stateEndValue" => t = stateEndValue(s, c)
      BY DEF step, Hexadecimal, Literal
    <3>2. s.step # "stateEndValue" => t \in EndOrNumber(s, c)
      BY <1>10, NumberSteps
    <3> QED BY <3>1, <3>2 DEF EndOrNumber
  <2>2. Ready(s) /\ s.step \notin StringSteps
    BY <1>2, <1>10 DEF OpenSteps, ScalarSteps, StringSteps, Hexadecimal
  <2> HIDE DEF t
  <2> QED BY <1>4, <1>5, <2>1, <2>2
<1>11. CASE s.step \in {"stateBeginValue", "stateBeginValueOrEmpty", "stateBeginString",
                        "stateBeginStringOrEmpty"}
  <2> DEFINE e == SetTop(s, "parseObjectValue")
  <2>1. /\ s.step = "stateBeginValue" => t = stateBeginValue(s, c)
        /\ s.step = "stateBeginString" => t = stateBeginString(s, c)
        /\ s.step = "stateBeginValueOrEmpty" => t \in {stateEndValue(s, c), stateBeginValue(s, c)}
        /\ s.step = "stateBeginStringOrEmpty" => t \in {stateEndValue(e, c), stateBeginString(s, c)}
    BY DEF step, Hexadecimal, Literal, stateBeginValueOrEmpty, stateBeginStringOrEmpty
  <2>2. Ready(s) /\ s.step \notin StringSteps
    BY <1>2, <1>11 DEF OpenSteps, StringSteps, Hexadecimal
  <2>3. s.step = "stateBeginStringOrEmpty" => Ready(e)
    BY <2>2, TopSet DEF Sound, Fits, InKey, ParseStates
  <2> HIDE DEF t, e
  <2> QED BY <1>5, <1>6, <1>7, <1>11, <2>1, <2>2, <2>3
<1>12. CASE s.step \in DOMAIN Literal
  <2>1. t \in {Continue(s, Literal[s.step][2]), error(s)}
    BY <1>12 DEF step, Hexadecimal, Literal
  <2> HIDE DEF t
  <2> QED BY <1>4, <2>1
<1>13. CASE s.step \in {"stateNeg", "stateDot", "stateE", "stateESign"}
  <2>1. t = error(s) \/ \E st : t = Continue(s, st)
    BY <1>13 DEF step, Hexadecimal, Literal, stateNeg, stateDot, stateE, stateESign
  <2> HIDE DEF t
  <2> QED BY <1>4, <2>1
<1> HIDE DEF t
<1> QED BY <1>1, <1>8, <1>9, <1>10, <1>11, <1>12, <1>13 DEF Steps, OpenSteps, ScalarSteps

\* Without an error, the bytes that Compact leaves out are the spaces outside
\* the strings.
LEMMA DroppedByte ==
  ASSUME NEW s, Sound(s), NEW c, step(s, c).err = NoError
  PROVE  step(s, c).op \in Dropped <=> c = " " /\ s.step \notin StringSteps
<1> DEFINE t == step(s, c)
<1>1. ASSUME t.op \in Dropped PROVE c = " " /\ s.step \notin StringSteps
  <2>1. CASE t.op = "scanSkipSpace"
    BY <2>1, SkipCode
  <2>2. CASE t.op = "scanEnd"
    <3>1. s.step \in FinalSteps
      BY <2>2, EndCode DEF Finished
    <3>2. t.step # "stateError"
      BY StepSound DEF Result, Sound
    <3>3. c = " "
      BY <2>2, <3>2, EndByte
    <3> QED BY <3>1, <3>3 DEF FinalSteps, StringSteps, Hexadecimal
  <2> HIDE DEF t
  <2> QED BY <1>1, <2>1, <2>2 DEF Dropped
<1>2. ASSUME c = " ", s.step \notin StringSteps PROVE t.op \in Dropped
  BY <1>2, SpaceCode
<1> QED BY <1>1, <1>2

\* The rounds of compact's loop are what their definition says.
Fresh(escape) == [scan |-> reset, dst |-> <<>>, escape |-> escape]

LEMMA CompactShape ==
  ASSUME NEW t, Len(t) \in Nat, NEW escape
  PROVE  \E R : /\ compact(t, escape) = IF eof(R[Len(t)].scan).op = "scanError" THEN Nothing
                                        ELSE R[Len(t)].dst
                /\ R[0] = Fresh(escape)
                /\ \A i \in 1..Len(t) : R[i] = compactByte(R[i - 1], t[i])
<1> DEFINE N == Len(t)
           Chain(C, n) == C[0] = Fresh(escape) /\ \A m \in 1..n : C[m] = compactByte(C[m - 1], t[m])
           T == {n \in Nat : \E C : Chain(C, n)}
<1>1. 0 \in T
  <2>1. Chain([m \in {0} |-> Fresh(escape)], 0)
    OBVIOUS
  <2> QED BY <2>1
<1>2. ASSUME NEW n \in T PROVE n + 1 \in T
  <2>1. PICK C : Chain(C, n)
    OBVIOUS
  <2> DEFINE D == [m \in 0..(n + 1) |-> IF m <= n THEN C[m] ELSE compactByte(C[n], t[n + 1])]
  <2>2. n \in Nat
    OBVIOUS
  <2>3. /\ \A m \in 0..n : D[m] = C[m]
        /\ D[n + 1] = compactByte(C[n], t[n + 1])
    BY <2>2
  <2> HIDE DEF D
  <2>4. D[0] = Fresh(escape)
    BY <2>1, <2>2, <2>3
  <2>5. ASSUME NEW m \in 1..(n + 1) PROVE D[m] = compactByte(D[m - 1], t[m])
    <3>1. CASE m = n + 1
      <4>1. m - 1 = n /\ n \in 0..n
        BY <2>2, <3>1
      <4> QED BY <2>3, <3>1, <4>1
    <3>2. CASE m # n + 1
      <4>1. m \in 1..n /\ m \in 0..n /\ m - 1 \in 0..n
        BY <2>2, <3>2
      <4> QED BY <2>1, <2>3, <4>1
    <3> QED BY <3>1, <3>2
  <2>6. Chain(D, n + 1)
    BY <2>4, <2>5
  <2> HIDE DEF Chain
  <2>7. \E E : Chain(E, n + 1)
    BY <2>6
  <2> QED BY <2>2, <2>7
<1>3. N \in T
  <2> HIDE DEF T, N
  <2>1. T \subseteq Nat
    BY DEF T
  <2>2. N \in Nat
    BY DEF N
  <2> QED BY <1>1, <1>2, <2>1, <2>2, NatSet
<1>4. PICK C : Chain(C, N)
  BY <1>3
<1> DEFINE R == [n \in 0..N |-> C[n]]
           Q(P) == P = [n \in 0..N |-> IF n = 0 THEN Fresh(escape) ELSE compactByte(P[n - 1], t[n])]
<1>5. Q(R)
  <2> DEFINE F(n) == IF n = 0 THEN Fresh(escape) ELSE compactByte(R[n - 1], t[n])
  <2>1. ASSUME NEW n \in 0..N PROVE C[n] = F(n)
    <3>1. CASE n = 0
      BY <1>4, <3>1
    <3>2. CASE n # 0
      <4>1. n \in 1..N /\ n - 1 \in 0..N
        BY <3>2
      <4>2. R[n - 1] = C[n - 1]
        BY <4>1
      <4> HIDE DEF R
      <4> QED BY <1>4, <3>2, <4>1, <4>2
    <3> QED BY <3>1, <3>2
  <2> HIDE DEF F
  <2>2. R = [n \in 0..N |-> F(n)]
    BY <2>1
  <2> QED BY <2>2 DEF F
<1> DEFINE P == CHOOSE P : Q(P)
<1>6. compact(t, escape) = IF eof(P[N].scan).op = "scanError" THEN Nothing ELSE P[N].dst
  BY DEF compact, Failed, Fresh
<1>7. Q(P)
  <2> HIDE DEF Q, R
  <2> QED BY <1>5
<1> HIDE DEF P
<1>8. P[0] = Fresh(escape)
  BY <1>7
<1>9. ASSUME NEW m \in 1..N PROVE P[m] = compactByte(P[m - 1], t[m])
  <2>1. m \in 0..N /\ m # 0
    OBVIOUS
  <2> QED BY <1>7, <2>1
<1> QED BY <1>6, <1>8, <1>9

\* So are those of Significant.
LEMMA SignificantShape ==
  ASSUME NEW t, Len(t) \in Nat, NEW E
  PROVE  \E R : /\ Significant(t, E) = R[Len(t)].text
                /\ R[0] = NothingRead
                /\ \A i \in 1..Len(t) : R[i] = Kept(R[i - 1], t[i], E)
<1> DEFINE N == Len(t)
           Chain(C, n) == C[0] = NothingRead /\ \A m \in 1..n : C[m] = Kept(C[m - 1], t[m], E)
           T == {n \in Nat : \E C : Chain(C, n)}
<1>1. 0 \in T
  <2>1. Chain([m \in {0} |-> NothingRead], 0)
    OBVIOUS
  <2> QED BY <2>1
<1>2. ASSUME NEW n \in T PROVE n + 1 \in T
  <2>1. PICK C : Chain(C, n)
    OBVIOUS
  <2> DEFINE D == [m \in 0..(n + 1) |-> IF m <= n THEN C[m] ELSE Kept(C[n], t[n + 1], E)]
  <2>2. n \in Nat
    OBVIOUS
  <2>3. /\ \A m \in 0..n : D[m] = C[m]
        /\ D[n + 1] = Kept(C[n], t[n + 1], E)
    BY <2>2
  <2> HIDE DEF D
  <2>4. D[0] = NothingRead
    BY <2>1, <2>2, <2>3
  <2>5. ASSUME NEW m \in 1..(n + 1) PROVE D[m] = Kept(D[m - 1], t[m], E)
    <3>1. CASE m = n + 1
      <4>1. m - 1 = n /\ n \in 0..n
        BY <2>2, <3>1
      <4> QED BY <2>3, <3>1, <4>1
    <3>2. CASE m # n + 1
      <4>1. m \in 1..n /\ m \in 0..n /\ m - 1 \in 0..n
        BY <2>2, <3>2
      <4> QED BY <2>1, <2>3, <4>1
    <3> QED BY <3>1, <3>2
  <2>6. Chain(D, n + 1)
    BY <2>4, <2>5
  <2> HIDE DEF Chain
  <2>7. \E B : Chain(B, n + 1)
    BY <2>6
  <2> QED BY <2>2, <2>7
<1>3. N \in T
  <2> HIDE DEF T, N
  <2>1. T \subseteq Nat
    BY DEF T
  <2>2. N \in Nat
    BY DEF N
  <2> QED BY <1>1, <1>2, <2>1, <2>2, NatSet
<1>4. PICK C : Chain(C, N)
  BY <1>3
<1> DEFINE R == [n \in 0..N |-> C[n]]
           Q(P) == P = [n \in 0..N |-> IF n = 0 THEN NothingRead ELSE Kept(P[n - 1], t[n], E)]
<1>5. Q(R)
  <2> DEFINE F(n) == IF n = 0 THEN NothingRead ELSE Kept(R[n - 1], t[n], E)
  <2>1. ASSUME NEW n \in 0..N PROVE C[n] = F(n)
    <3>1. CASE n = 0
      BY <1>4, <3>1
    <3>2. CASE n # 0
      <4>1. n \in 1..N /\ n - 1 \in 0..N
        BY <3>2
      <4>2. R[n - 1] = C[n - 1]
        BY <4>1
      <4> HIDE DEF R
      <4> QED BY <1>4, <3>2, <4>1, <4>2
    <3> QED BY <3>1, <3>2
  <2> HIDE DEF F
  <2>2. R = [n \in 0..N |-> F(n)]
    BY <2>1
  <2> QED BY <2>2 DEF F
<1> DEFINE P == CHOOSE P : Q(P)
<1>6. Significant(t, E) = P[N].text
  BY DEF Significant
<1>7. Q(P)
  <2> HIDE DEF Q, R
  <2> QED BY <1>5
<1> HIDE DEF P
<1>8. P[0] = NothingRead
  BY <1>7
<1>9. ASSUME NEW m \in 1..N PROVE P[m] = Kept(P[m - 1], t[m], E)
  <2>1. m \in 0..N /\ m # 0
    OBVIOUS
  <2> QED BY <1>7, <2>1
<1> QED BY <1>6, <1>8, <1>9

\* The byte as both write it.
LEMMA EscapedByte ==
  ASSUME NEW c, NEW escape \in BOOLEAN
  PROVE  EscapedHTML(c, escape) = IF c \in EscapedClasses(escape) THEN Unicode(c) ELSE <<c>>
BY DEF EscapedHTML, EscapedClasses

\* After i bytes of t: while there is no error, a has written what read holds,
\* and both agree on what is in a string.
Compacting(t, i, escape, a, read) ==
    /\ a = [scan |-> a.scan, dst |-> a.dst, escape |-> escape]
    /\ Sound(a.scan)
    /\ read.outline \in Outlines
    /\ IF a.scan.err # NoError THEN ~IsJSON(t)
       ELSE ExactAt(t, i, a.scan) /\ Tracks(a.scan, read.outline) /\ a.dst = read.text

LEMMA CompactingFirst ==
  ASSUME NEW t, NEW escape
  PROVE  Compacting(t, 0, escape, Fresh(escape), NothingRead)
<1>1. ExactAt(t, 0, reset)
  BY ExactFirst DEF reset
<1>2. NothingRead.outline \in Outlines
  BY EmptySeq DEF NothingRead, Outlines
<1>3. Tracks(reset, NothingRead.outline)
  <2>1. Where("stateBeginValue") = "between"
    BY DEF Where, StringSteps, Hexadecimal
  <2> QED BY <2>1 DEF Tracks, Mirrors, reset, NothingRead
<1>4. reset.err = NoError
  BY DEF reset
<1>5. Fresh(escape).scan = reset /\ Fresh(escape).dst = <<>> /\ NothingRead.text = <<>>
  BY DEF Fresh, NothingRead
<1>6. Fresh(escape) = [scan |-> Fresh(escape).scan, dst |-> Fresh(escape).dst, escape |-> escape]
  BY DEF Fresh
<1> QED BY <1>1, <1>2, <1>3, <1>4, <1>5, <1>6, ResetSound DEF Compacting

\* A round on the fields of its record.
LEMMA CompactRound ==
  ASSUME NEW s, NEW d, NEW escape, NEW a, a = [scan |-> s, dst |-> d, escape |-> escape], NEW c
  PROVE  compactByte(a, c) =
           IF s.op = "scanError" THEN [scan |-> s, dst |-> d, escape |-> escape]
           ELSE [scan |-> step(s, c),
                 dst |-> IF step(s, c).op \in {"scanSkipSpace", "scanEnd", "scanError"} THEN d
                         ELSE d \o EscapedHTML(c, escape),
                 escape |-> escape]
<1> DEFINE u == step(s, c)
           e == IF u.op \in {"scanSkipSpace", "scanEnd", "scanError"} THEN d
                ELSE d \o EscapedHTML(c, escape)
<1>1. a.scan = s /\ a.dst = d /\ a.escape = escape
  OBVIOUS
<1>2. compactByte(a, c) = IF s.op = "scanError" THEN a ELSE [a EXCEPT !.scan = u, !.dst = e]
  BY <1>1 DEF compactByte, Failed
<1> HIDE DEF u, e
<1>3. [a EXCEPT !.scan = u, !.dst = e] = [scan |-> u, dst |-> e, escape |-> escape]
  <2> DEFINE r == [a EXCEPT !.scan = u]
  <2>1. r = [scan |-> u, dst |-> d, escape |-> escape]
    OBVIOUS
  <2>2. [a EXCEPT !.scan = u, !.dst = e] = [r EXCEPT !.dst = e]
    OBVIOUS
  <2> HIDE DEF r
  <2>3. [r EXCEPT !.dst = e] = [scan |-> u, dst |-> e, escape |-> escape]
    BY <2>1
  <2> QED BY <2>2, <2>3
<1> QED BY <1>2, <1>3 DEF u, e

LEMMA CompactingNext ==
  ASSUME NEW S, NEW t \in Seq(S), NEW i \in Nat, i < Len(t), NEW escape \in BOOLEAN,
         NEW a, NEW read, Compacting(t, i, escape, a, read)
  PROVE  Compacting(t, i + 1, escape, compactByte(a, t[i + 1]),
                    Kept(read, t[i + 1], EscapedClasses(escape)))
<1> DEFINE c == t[i + 1]
           s == a.scan
           u == step(s, c)
           E == EscapedClasses(escape)
           b == compactByte(a, c)
           more == Kept(read, c, E)
<1> SUFFICES Compacting(t, i + 1, escape, b, more)
  OBVIOUS
<1>0. /\ Sound(s) /\ read.outline \in Outlines
      /\ a = [scan |-> s, dst |-> a.dst, escape |-> escape]
  BY DEF Compacting
<1>1. Sound(u)
  BY <1>0, StepSound DEF Result
<1>2. more.outline = Outlined(read.outline, c) /\ more.outline \in Outlines
  BY <1>0, OutlinedType DEF Kept
<1>3. b = IF s.op = "scanError" THEN a
          ELSE [scan |-> u,
                dst |-> IF u.op \in {"scanSkipSpace", "scanEnd", "scanError"} THEN a.dst
                        ELSE a.dst \o EscapedHTML(c, escape),
                escape |-> escape]
  <2> HIDE DEF u, c, s
  <2>1. b = IF s.op = "scanError" THEN [scan |-> s, dst |-> a.dst, escape |-> escape]
            ELSE [scan |-> step(s, c),
                  dst |-> IF step(s, c).op \in {"scanSkipSpace", "scanEnd", "scanError"} THEN a.dst
                          ELSE a.dst \o EscapedHTML(c, escape),
                  escape |-> escape]
    BY <1>0, CompactRound
  <2> QED BY <1>0, <2>1 DEF u
<1>4. b = [scan |-> b.scan, dst |-> b.dst, escape |-> escape]
  <2> HIDE DEF u, c, b
  <2> QED BY <1>0, <1>3
<1>5. b.scan = IF s.op = "scanError" THEN s ELSE u
  <2> HIDE DEF u, c, b
  <2> QED BY <1>3
<1>6. CASE s.err # NoError
  <2>1. ~IsJSON(t)
    BY <1>6 DEF Compacting
  <2>2. u.err = s.err
    BY <1>0, <1>6, StaysInError DEF Sound
  <2> HIDE DEF u, c, b, more, s
  <2> QED BY <1>0, <1>1, <1>2, <1>4, <1>5, <1>6, <2>1, <2>2 DEF Compacting
<1>7. CASE s.err = NoError
  <2>1. ExactAt(t, i, s) /\ Tracks(s, read.outline) /\ a.dst = read.text
    BY <1>7 DEF Compacting
  <2>2. s.op # "scanError"
    BY <1>0, <1>7 DEF Sound
  <2>3. ExactAt(t, i + 1, u) /\ Tracks(u, more.outline)
    BY <1>0, <1>2, <2>1, ExactStep, TracksStep
  <2>4. CASE u.err # NoError
    <3>1. u.step = "stateError"
      BY <1>1, <2>4 DEF Sound
    <3>2. Extends(t, t, i + 1)
      BY DEF Extends
    <3> HIDE DEF u, c, b, more, s
    <3>3. ~IsJSON(t)
      BY <1>1, <2>3, <3>1, <3>2, ErrorNotJSON
    <3> QED BY <1>1, <1>2, <1>4, <1>5, <2>2, <2>4, <3>3 DEF Compacting
  <2>5. CASE u.err = NoError
    <3>1. u.op # "scanError"
      BY <1>1, <2>5 DEF Sound
    <3>2. u.op \in {"scanSkipSpace", "scanEnd"} <=> c = " " /\ s.step \notin StringSteps
      BY <1>0, <2>5, DroppedByte DEF Dropped
    <3>3. read.outline.at = "between" <=> s.step \notin StringSteps
      BY <1>7, <2>1 DEF Tracks, Where, StringSteps, Hexadecimal
    <3>4. more.text = IF c = " " /\ read.outline.at = "between" THEN read.text
                      ELSE read.text \o EscapedHTML(c, escape)
      BY EscapedByte DEF Kept
    <3> HIDE DEF u, c, b, more, s
    <3>5. b.dst = more.text
      BY <1>3, <2>1, <2>2, <3>1, <3>2, <3>3, <3>4
    <3> QED BY <1>1, <1>2, <1>4, <1>5, <2>2, <2>3, <2>5, <3>5 DEF Compacting
  <2> QED BY <2>4, <2>5
<1> QED BY <1>6, <1>7

\* Whatever the text.
LEMMA CompactText ==
  ASSUME NEW S, NEW t \in Seq(S), NEW escape \in BOOLEAN
  PROVE  compact(t, escape) = IF IsJSON(t) THEN Significant(t, EscapedClasses(escape)) ELSE Nothing
<1> DEFINE N == Len(t)
           E == EscapedClasses(escape)
<1>0. N \in Nat
  OBVIOUS
<1>1. PICK R : /\ compact(t, escape) = IF eof(R[N].scan).op = "scanError" THEN Nothing ELSE R[N].dst
               /\ R[0] = Fresh(escape)
               /\ \A i \in 1..N : R[i] = compactByte(R[i - 1], t[i])
  BY <1>0, CompactShape
<1>2. PICK Q : /\ Significant(t, E) = Q[N].text
               /\ Q[0] = NothingRead
               /\ \A i \in 1..N : Q[i] = Kept(Q[i - 1], t[i], E)
  BY <1>0, SignificantShape
<1> DEFINE T == {i \in Nat : i <= N => Compacting(t, i, escape, R[i], Q[i])}
<1>3. 0 \in T
  BY <1>1, <1>2, CompactingFirst
<1>4. ASSUME NEW i \in T PROVE i + 1 \in T
  <2>1. i \in Nat /\ (i <= N => Compacting(t, i, escape, R[i], Q[i]))
    OBVIOUS
  <2>2. ASSUME i + 1 <= N PROVE Compacting(t, i + 1, escape, R[i + 1], Q[i + 1])
    <3>1. Compacting(t, i, escape, R[i], Q[i]) /\ i < Len(t)
      BY <1>0, <2>1, <2>2
    <3>2. i + 1 \in 1..N /\ i + 1 - 1 = i
      BY <1>0, <2>1, <2>2
    <3>3. R[i + 1] = compactByte(R[i], t[i + 1]) /\ Q[i + 1] = Kept(Q[i], t[i + 1], E)
      BY <1>1, <1>2, <3>2
    <3> QED BY <2>1, <3>1, <3>3, CompactingNext
  <2> QED BY <2>1, <2>2
<1>5. Compacting(t, N, escape, R[N], Q[N])
  <2>1. T \subseteq Nat
    OBVIOUS
  <2> HIDE DEF T, N
  <2>2. N \in T
    BY <1>0, <1>3, <1>4, <2>1, NatSet
  <2> QED BY <1>0, <2>2 DEF T
<1> DEFINE s == R[N].scan
<1>6. Sound(s)
  BY <1>5 DEF Compacting
<1>7. eof(s).op # "scanError" <=> Finished(s)
  BY <1>6, EofFinished
<1>8. CASE s.err # NoError
  <2>1. ~IsJSON(t)
    BY <1>5, <1>8 DEF Compacting
  <2>2. ~Finished(s)
    BY <1>6, <1>8 DEF Sound, Finished, FinalSteps
  <2> QED BY <1>1, <1>7, <2>1, <2>2
<1>9. CASE s.err = NoError
  <2>1. ExactAt(t, N, s) /\ R[N].dst = Q[N].text
    BY <1>5, <1>9 DEF Compacting
  <2>2. Extends(t, t, N)
    BY <1>0 DEF Extends
  <2>3. IsJSON(t) <=> Finished(s)
    BY <1>6, <2>1, <2>2, ExactEnd
  <2> QED BY <1>1, <1>2, <1>7, <2>1, <2>3
<1> QED BY <1>8, <1>9

\* Compact leaves out the spaces between the tokens of a JSON text and no other
\* byte, though it looks only at the scanner's codes, and it writes nothing for
\* any other text.
THEOREM CompactElidesSpaceAlways == Spec => []CompactElidesSpace
<1>1. ExactInv => CompactElidesSpace
  <2>1. ExactInv => input \in Seq(BytesOf(alphabet))
    BY DEF ExactInv, IInv, TypeOK
  <2>2. ExactInv => AcceptsJSON
    BY ExactEnds, EofFinished DEF ExactInv, IInv, AcceptsJSON, checkValid
  <2> QED BY <2>1, <2>2, CompactText DEF CompactElidesSpace, AcceptsJSON, Compact
<1> QED BY <1>1, ExactAlways, PTL

---------------------------------------------------------------------------
(* Indent.  The scanner's code tells the punctuation between the tokens    *)
(* from the bytes of a string, and the record of the loop shows whether a  *)
(* line break is owed; so each byte is written where the layout has it.    *)

\* In a string the code is always the same.
LEMMA StringCode ==
  ASSUME NEW s, Sound(s), s.step \in StringSteps, NEW c, step(s, c).err = NoError
  PROVE  step(s, c).op = "scanContinue"
<1> DEFINE t == step(s, c)
<1> SUFFICES ASSUME t.err = NoError PROVE t.op = "scanContinue"
  OBVIOUS
<1>1. s \in Scanner
  BY DEF Sound
<1>2. error(s).err # NoError /\ \A st : Continue(s, st).op = "scanContinue"
  BY <1>1, ErrorEffect DEF Continue, Return, Scanner
<1>3. s.step = "stateInString" => t \in {Continue(s, "stateEndValue"),
        Continue(s, "stateInStringEsc"), Continue(s, "stateInString"), error(s)}
  BY DEF step, Hexadecimal, Literal, stateInString
<1>4. s.step = "stateInStringEsc" => t \in {Continue(s, "stateInString"),
        Continue(s, "stateInStringEscU"), error(s)}
  BY DEF step, Hexadecimal, Literal, stateInStringEsc
<1>5. s.step \in DOMAIN Hexadecimal => t \in {Continue(s, Hexadecimal[s.step]), error(s)}
  BY DEF step, Hexadecimal, Literal
<1> HIDE DEF t
<1> QED BY <1>2, <1>3, <1>4, <1>5 DEF StringSteps

\* Behind an opening bracket, and behind a comma or a colon.
EmptySteps == {"stateBeginValueOrEmpty", "stateBeginStringOrEmpty"}
BeginSteps == {"stateBeginValue", "stateBeginString"}

\* What a step answers to punctuation outside the strings.
Answers(c, t) ==
    t.err = NoError =>
        /\ c \in {"{", "["} => t.op \in {"scanBeginObject", "scanBeginArray"} /\ t.step \in EmptySteps
        /\ c \in {",", ":"} =>
             t.op \in {"scanObjectKey", "scanObjectValue", "scanArrayValue"} /\ t.step \in BeginSteps
        /\ c \in {"}", "]"} => t.op \in Brackets

Punctuation == {"{", "[", "}", "]", ",", ":"}

LEMMA ReturnedCode ==
  ASSUME NEW r, r \in Scanner, NEW st, NEW op
  PROVE  Return(r, st, op).op = op /\ Return(r, st, op).step = st
BY DEF Return, Scanner

LEMMA EndValueAnswers ==
  ASSUME NEW s, Ready(s), NEW c \in Punctuation
  PROVE  Answers(c, stateEndValue(s, c))
<1> DEFINE V == stateEndValue(s, c)
           r2 == Return(SetTop(s, "parseObjectValue"), "stateBeginValue", "scanObjectKey")
           r3 == Return(SetTop(s, "parseObjectKey"), "stateBeginString", "scanObjectValue")
           r4 == Return(s, "stateBeginValue", "scanArrayValue")
           r5 == [popParseState(s) EXCEPT !.op = "scanEndObject"]
           r6 == [popParseState(s) EXCEPT !.op = "scanEndArray"]
<1>1. s \in Scanner /\ c # " "
  BY DEF Ready, Punctuation
<1>2. CASE s.parseState = <<>>
  <2>1. V.step = "stateError"
    BY <1>1, <1>2, ValueEnded
  <2>2. Sound(V)
    BY EndValueSound DEF Result
  <2> HIDE DEF V
  <2>3. V.err # NoError
    BY <2>1, <2>2 DEF Sound
  <2> QED BY <2>3 DEF Answers, V
<1>3. CASE s.parseState # <<>>
  <2>1. error(s).err # NoError
    BY <1>1, ErrorEffect
  <2>2. \A p \in ParseStates : SetTop(s, p) \in Scanner
    BY <1>3, TopSet DEF Ready
  <2>4. /\ r2.op = "scanObjectKey" /\ r2.step = "stateBeginValue"
        /\ r3.op = "scanObjectValue" /\ r3.step = "stateBeginString"
        /\ r4.op = "scanArrayValue" /\ r4.step = "stateBeginValue"
    <3>1. SetTop(s, "parseObjectValue") \in Scanner /\ SetTop(s, "parseObjectKey") \in Scanner
      BY <2>2 DEF ParseStates
    <3>2. r2.op = "scanObjectKey" /\ r2.step = "stateBeginValue"
      BY <3>1, ReturnedCode
    <3>3. r3.op = "scanObjectValue" /\ r3.step = "stateBeginString"
      BY <3>1, ReturnedCode
    <3>4. r4.op = "scanArrayValue" /\ r4.step = "stateBeginValue"
      BY <1>1 DEF Return, Scanner
    <3> QED BY <3>2, <3>3, <3>4
  <2>5. r5.op = "scanEndObject" /\ r6.op = "scanEndArray"
    BY <1>3, PopEffect DEF Codes
  <2>6. /\ c \in {"{", "["} => V = error(s)
        /\ c \in {",", ":"} => V \in {r2, r3, r4, error(s)}
        /\ c \in {"}", "]"} => V \in {r5, r6, error(s)}
    BY <1>3 DEF stateEndValue
  <2> HIDE DEF V, r2, r3, r4, r5, r6
  <2>7. Answers(c, V)
    BY <2>1, <2>4, <2>5, <2>6 DEF Answers, BeginSteps, Brackets, Punctuation
  <2> QED BY <2>7 DEF V
<1> QED BY <1>2, <1>3

LEMMA BeginValueAnswers ==
  ASSUME NEW s, s \in Scanner, NEW c \in Punctuation
  PROVE  /\ Answers(c, stateBeginValue(s, c))
         /\ c \in {"}", "]"} => stateBeginValue(s, c) = error(s)
<1> DEFINE r1 == Return(pushParseState(s, "parseObjectKey"), "stateBeginStringOrEmpty", "scanBeginObject")
           r2 == Return(pushParseState(s, "parseArrayValue"), "stateBeginValueOrEmpty", "scanBeginArray")
<1>1. stateBeginValue(s, c) = IF c = "{" THEN r1 ELSE IF c = "[" THEN r2 ELSE error(s)
  BY DEF stateBeginValue, Punctuation, Scalar
<1>2. /\ r1.op = "scanBeginObject" /\ r1.step = "stateBeginStringOrEmpty"
      /\ r2.op = "scanBeginArray" /\ r2.step = "stateBeginValueOrEmpty"
  BY DEF Return, pushParseState, Scanner
<1>3. error(s).err # NoError
  BY ErrorEffect
<1> HIDE DEF r1, r2
<1> QED BY <1>1, <1>2, <1>3 DEF Answers, EmptySteps, Punctuation

LEMMA PunctuationCode ==
  ASSUME NEW s, Sound(s), s.step \notin StringSteps, NEW c \in Punctuation, step(s, c).err = NoError
  PROVE  /\ Answers(c, step(s, c))
         /\ c \in {"}", "]"} => s.step \notin BeginSteps
<1> DEFINE t == step(s, c)
           e == SetTop(s, "parseObjectValue")
<1> SUFFICES ASSUME t.err = NoError
             PROVE  Answers(c, t) /\ (c \in {"}", "]"} => s.step \notin BeginSteps)
  OBVIOUS
<1>1. s \in Scanner /\ s.step \in Steps /\ c # " " /\ c # "\""
  BY DEF Sound, Scanner, Punctuation
<1>2. s.step \in OpenSteps => Ready(s)
  BY OpenIsReady
<1>3. error(s).err # NoError
  BY <1>1, ErrorEffect
<1>4. \A r : Ready(r) => Answers(c, stateEndValue(r, c))
  BY EndValueAnswers
<1>5. Answers(c, stateBeginValue(s, c)) /\ (c \in {"}", "]"} => stateBeginValue(s, c) = error(s))
  BY <1>1, BeginValueAnswers
<1>6. stateBeginString(s, c) = error(s)
  BY <1>1 DEF stateBeginString
<1>7. CASE s.step = "stateError"
  <2>1. t.err = s.err /\ s.err # NoError
    BY <1>7, StaysInError DEF Sound
  <2> QED BY <2>1
<1>8. CASE s.step = "stateEndTop"
  <2>1. t = stateEndTop(s, c) /\ s.parseState = <<>>
    BY <1>8 DEF step, Hexadecimal, Literal, Sound, Fits
  <2>2. stateEndTop(s, c).step = "stateError"
    BY <1>1, <2>1, TopEnded
  <2>3. Sound(t)
    BY StepSound DEF Result
  <2> HIDE DEF t
  <2> QED BY <2>1, <2>2, <2>3 DEF Sound
<1>9. CASE s.step \in {"stateEndValue", "state0", "state1", "stateDot0", "stateE0"}
  <2>1. t = stateEndValue(s, c)
    BY <1>9 DEF step, Hexadecimal, Literal, state0, state1, stateDot0, stateE0, Digits, Punctuation
  <2>2. Ready(s) /\ s.step \notin BeginSteps
    BY <1>2, <1>9 DEF OpenSteps, ScalarSteps, BeginSteps
  <2> HIDE DEF t
  <2> QED BY <1>4, <2>1, <2>2
<1>10. CASE s.step \in DOMAIN Literal \cup {"stateNeg", "stateDot", "stateE", "stateESign"}
  <2>1. CASE s.step \in DOMAIN Literal
    <3>1. Literal[s.step][1] \notin Punctuation
      <4>1. Literal[s.step][1] \in {"r", "u", "e", "a", "l", "s"}
        BY <2>1 DEF Literal
      <4> QED BY <4>1 DEF Punctuation
    <3>2. t = IF c = Literal[s.step][1] THEN Continue(s, Literal[s.step][2]) ELSE error(s)
      BY <2>1 DEF step, Hexadecimal, Literal
    <3> HIDE DEF t
    <3> QED BY <1>3, <3>1, <3>2
  <2>2. CASE s.step \in {"stateNeg", "stateDot", "stateE", "stateESign"}
    <3>1. t = error(s)
      BY <2>2 DEF step, Hexadecimal, Literal, stateNeg, stateDot, stateE, stateESign, Digits, Punctuation
    <3> HIDE DEF t
    <3> QED BY <1>3, <3>1
  <2> QED BY <1>10, <2>1, <2>2
<1>11. CASE s.step \in BeginSteps
  <2>1. t \in {stateBeginValue(s, c), stateBeginString(s, c)}
    BY <1>11 DEF step, Hexadecimal, Literal, BeginSteps
  <2> HIDE DEF t
  <2> QED BY <1>3, <1>5, <1>6, <2>1
<1>12. CASE s.step \in EmptySteps
  <2>1. \/ t \in {stateEndValue(s, c), stateBeginValue(s, c)}
        \/ t \in {stateEndValue(e, c), stateBeginString(s, c)}
    BY <1>12 DEF step, Hexadecimal, Literal, stateBeginValueOrEmpty, stateBeginStringOrEmpty, EmptySteps
  <2>2. Ready(s) /\ s.step \notin BeginSteps
    BY <1>2, <1>12 DEF OpenSteps, EmptySteps, BeginSteps
  <2>3. Ready(e)
    BY <1>12, <2>2, TopSet DEF Sound, Fits, InKey, InArray, ParseStates, EmptySteps
  <2> HIDE DEF t, e
  <2> QED BY <1>3, <1>4, <1>5, <1>6, <2>1, <2>2, <2>3
<1> HIDE DEF t
<1> QED BY <1>1, <1>7, <1>8, <1>9, <1>10, <1>11, <1>12
        DEF Steps, OpenSteps, ScalarSteps, BeginSteps, EmptySteps

\* Spaces between the tokens.
LEMMA BlankSteps ==
  ASSUME NEW s, Sound(s), s.step \notin StringSteps, step(s, " ").err = NoError
  PROVE  /\ s.step \in BeginSteps \cup EmptySteps => step(s, " ").step = s.step
         /\ step(s, " ").op = "scanEnd" =>
              step(s, " ").step = "stateEndTop" /\ step(s, " ").parseState = <<>>
         /\ step(s, " ").op # "scanEnd" => s.step # "stateEndTop" /\ step(s, " ").step # "stateEndTop"
<1> DEFINE c == " "
           t == step(s, c)
<1> SUFFICES ASSUME t.err = NoError
             PROVE  /\ s.step \in BeginSteps \cup EmptySteps => t.step = s.step
                    /\ t.op = "scanEnd" => t.step = "stateEndTop" /\ t.parseState = <<>>
                    /\ t.op # "scanEnd" => s.step # "stateEndTop" /\ t.step # "stateEndTop"
  OBVIOUS
<1>0. Sound(t)
  BY StepSound DEF Result
<1>1. s \in Scanner /\ Sound(t)
  <2> HIDE DEF t
  <2> QED BY <1>0 DEF Sound
<1>2. ASSUME s.step \in BeginSteps \cup EmptySteps PROVE t.step = s.step
  <2>1. stateBeginValue(s, c) = SkipSpace(s) /\ stateBeginString(s, c) = SkipSpace(s)
    BY SpaceSkips
  <2>2. stateBeginValueOrEmpty(s, c) = stateBeginValue(s, c)
    BY DEF stateBeginValueOrEmpty
  <2>3. stateBeginStringOrEmpty(s, c) = stateBeginString(s, c)
    BY DEF stateBeginStringOrEmpty
  <2>4. t \in {stateBeginValue(s, c), stateBeginString(s, c),
              stateBeginValueOrEmpty(s, c), stateBeginStringOrEmpty(s, c)}
    BY <1>2 DEF step, Hexadecimal, Literal, BeginSteps, EmptySteps
  <2>5. SkipSpace(s).step = s.step
    BY <1>1 DEF SkipSpace, Scanner
  <2> HIDE DEF t, c
  <2> QED BY <2>1, <2>2, <2>3, <2>4, <2>5
<1>3. ASSUME t.op = "scanEnd" PROVE t.step = "stateEndTop" /\ t.parseState = <<>>
  <2> DEFINE r == [s EXCEPT !.step = "stateEndTop", !.endTop = TRUE]
  <2>1. Finished(s)
    BY <1>3, EndCode
  <2>2. s.step = "stateEndTop" => t = stateEndTop(s, c)
    BY DEF step, Hexadecimal, Literal
  <2>3. s.step # "stateEndTop" => t = stateEndTop(r, c)
    <3>1. s.step = "stateEndValue" => t = stateEndValue(s, c)
      BY DEF step, Hexadecimal, Literal
    <3>2. s.step \in {"state0", "state1", "stateDot0", "stateE0"} => t = stateEndValue(s, c)
      BY NumberSteps
    <3>3. stateEndValue(s, c) = stateEndTop(r, c)
      BY <2>1 DEF stateEndValue, Finished
    <3> HIDE DEF t, r
    <3> QED BY <2>1, <3>1, <3>2, <3>3 DEF Finished, FinalSteps
  <2>4. r \in Scanner /\ r.step = "stateEndTop" /\ r.parseState = <<>>
    BY <1>1, <2>1 DEF Scanner, Steps, Finished
  <2> HIDE DEF t, r
  <2>5. ASSUME NEW q \in Scanner
        PROVE  stateEndTop(q, c).step = q.step /\ stateEndTop(q, c).parseState = q.parseState
    <3>1. stateEndTop(q, c) = [q EXCEPT !.op = "scanEnd"]
      BY DEF stateEndTop
    <3> QED BY <3>1 DEF Scanner
  <2>6. s.parseState = <<>>
    BY <2>1 DEF Finished
  <2> QED BY <1>1, <2>2, <2>3, <2>4, <2>5, <2>6
<1>4. ASSUME t.op # "scanEnd" PROVE s.step # "stateEndTop" /\ t.step # "stateEndTop"
  <2>1. ~Finished(t)
    BY <1>4, BlankFinishes
  <2>2. s.step = "stateEndTop" => t = stateEndTop(s, c) /\ s.parseState = <<>>
    BY DEF step, Hexadecimal, Literal, Sound, Fits
  <2>3. s.parseState = <<>> => stateEndTop(s, c).op = "scanEnd"
    BY <1>1, TopEnded
  <2> HIDE DEF t
  <2>4. t.step = "stateEndTop" => Finished(t)
    BY <1>1 DEF Sound, Fits, Finished, FinalSteps
  <2> QED BY <1>4, <2>1, <2>2, <2>3, <2>4
<1> QED BY <1>2, <1>3, <1>4

\* Behind the text, another byte is an error.
LEMMA TopByte ==
  ASSUME NEW s, Sound(s), s.step = "stateEndTop", NEW c, c # " "
  PROVE  step(s, c).err # NoError
<1> DEFINE t == step(s, c)
<1>1. t = stateEndTop(s, c) /\ s.parseState = <<>> /\ s \in Scanner
  BY DEF step, Hexadecimal, Literal, Sound, Fits
<1>2. stateEndTop(s, c).step = "stateError"
  BY <1>1, TopEnded
<1>3. Sound(t)
  BY StepSound DEF Result
<1> HIDE DEF t
<1>4. t.err # NoError
  BY <1>1, <1>2, <1>3 DEF Sound
<1> QED BY <1>4 DEF t

\* The record of Indent's loop.
Pending == TRUE
Settled == FALSE
Writer(s, d, n, k) == [scan |-> s, dst |-> d, needIndent |-> n, depth |-> k]
NothingWritten == Writer(reset, <<>>, Settled, 0)

\* The rounds of the loop are what their definition says.
LEMMA IndentShape ==
  ASSUME NEW t, Len(t) \in Nat
  PROVE  \E R : /\ Indent(t) = IF eof(R[Len(t)].scan).op = "scanError" THEN Nothing
                              ELSE R[Len(t)].dst
                /\ R[0] = NothingWritten
                /\ \A i \in 1..Len(t) : R[i] = indentByte(R[i - 1], t[i])
<1> DEFINE N == Len(t)
           Chain(C, n) == C[0] = NothingWritten /\ \A m \in 1..n : C[m] = indentByte(C[m - 1], t[m])
           T == {n \in Nat : \E C : Chain(C, n)}
<1>1. 0 \in T
  <2>1. Chain([m \in {0} |-> NothingWritten], 0)
    OBVIOUS
  <2> QED BY <2>1
<1>2. ASSUME NEW n \in T PROVE n + 1 \in T
  <2>1. PICK C : Chain(C, n)
    OBVIOUS
  <2> DEFINE D == [m \in 0..(n + 1) |-> IF m <= n THEN C[m] ELSE indentByte(C[n], t[n + 1])]
  <2>2. n \in Nat
    OBVIOUS
  <2>3. /\ \A m \in 0..n : D[m] = C[m]
        /\ D[n + 1] = indentByte(C[n], t[n + 1])
    BY <2>2
  <2> HIDE DEF D
  <2>4. D[0] = NothingWritten
    BY <2>1, <2>2, <2>3
  <2>5. ASSUME NEW m \in 1..(n + 1) PROVE D[m] = indentByte(D[m - 1], t[m])
    <3>1. CASE m = n + 1
      <4>1. m - 1 = n /\ n \in 0..n
        BY <2>2, <3>1
      <4> QED BY <2>3, <3>1, <4>1
    <3>2. CASE m # n + 1
      <4>1. m \in 1..n /\ m \in 0..n /\ m - 1 \in 0..n
        BY <2>2, <3>2
      <4> QED BY <2>1, <2>3, <4>1
    <3> QED BY <3>1, <3>2
  <2>6. Chain(D, n + 1)
    BY <2>4, <2>5
  <2> HIDE DEF Chain
  <2>7. \E E : Chain(E, n + 1)
    BY <2>6
  <2> QED BY <2>2, <2>7
<1>3. N \in T
  <2> HIDE DEF T, N
  <2>1. T \subseteq Nat
    BY DEF T
  <2>2. N \in Nat
    BY DEF N
  <2> QED BY <1>1, <1>2, <2>1, <2>2, NatSet
<1>4. PICK C : Chain(C, N)
  BY <1>3
<1> DEFINE R == [n \in 0..N |-> C[n]]
           Q(P) == P = [n \in 0..N |-> IF n = 0 THEN NothingWritten ELSE indentByte(P[n - 1], t[n])]
<1>5. Q(R)
  <2> DEFINE F(n) == IF n = 0 THEN NothingWritten ELSE indentByte(R[n - 1], t[n])
  <2>1. ASSUME NEW n \in 0..N PROVE C[n] = F(n)
    <3>1. CASE n = 0
      BY <1>4, <3>1
    <3>2. CASE n # 0
      <4>1. n \in 1..N /\ n - 1 \in 0..N
        BY <3>2
      <4>2. R[n - 1] = C[n - 1]
        BY <4>1
      <4> HIDE DEF R
      <4> QED BY <1>4, <3>2, <4>1, <4>2
    <3> QED BY <3>1, <3>2
  <2> HIDE DEF F
  <2>2. R = [n \in 0..N |-> F(n)]
    BY <2>1
  <2> QED BY <2>2 DEF F
<1> DEFINE P == CHOOSE P : Q(P)
<1>6. Indent(t) = IF eof(P[N].scan).op = "scanError" THEN Nothing ELSE P[N].dst
  BY DEF Indent, Failed, NothingWritten, Writer, Settled
<1>7. Q(P)
  <2> HIDE DEF Q, R
  <2> QED BY <1>5
<1> HIDE DEF P
<1>8. P[0] = NothingWritten
  BY <1>7
<1>9. ASSUME NEW m \in 1..N PROVE P[m] = indentByte(P[m - 1], t[m])
  <2>1. m \in 0..N /\ m # 0
    OBVIOUS
  <2> QED BY <1>7, <2>1
<1> QED BY <1>6, <1>8, <1>9

\* So are those of Layout.
LEMMA LayoutShape ==
  ASSUME NEW t, Len(t) \in Nat
  PROVE  \E R : /\ Layout(t) = R[Len(t)].padded
                /\ R[0] = NothingPlaced
                /\ \A i \in 1..Len(t) : R[i] = Placed(R[i - 1], t[i])
<1> DEFINE N == Len(t)
           Chain(C, n) == C[0] = NothingPlaced /\ \A m \in 1..n : C[m] = Placed(C[m - 1], t[m])
           T == {n \in Nat : \E C : Chain(C, n)}
<1>1. 0 \in T
  <2>1. Chain([m \in {0} |-> NothingPlaced], 0)
    OBVIOUS
  <2> QED BY <2>1
<1>2. ASSUME NEW n \in T PROVE n + 1 \in T
  <2>1. PICK C : Chain(C, n)
    OBVIOUS
  <2> DEFINE D == [m \in 0..(n + 1) |-> IF m <= n THEN C[m] ELSE Placed(C[n], t[n + 1])]
  <2>2. n \in Nat
    OBVIOUS
  <2>3. /\ \A m \in 0..n : D[m] = C[m]
        /\ D[n + 1] = Placed(C[n], t[n + 1])
    BY <2>2
  <2> HIDE DEF D
  <2>4. D[0] = NothingPlaced
    BY <2>1, <2>2, <2>3
  <2>5. ASSUME NEW m \in 1..(n + 1) PROVE D[m] = Placed(D[m - 1], t[m])
    <3>1. CASE m = n + 1
      <4>1. m - 1 = n /\ n \in 0..n
        BY <2>2, <3>1
      <4> QED BY <2>3, <3>1, <4>1
    <3>2. CASE m # n + 1
      <4>1. m \in 1..n /\ m \in 0..n /\ m - 1 \in 0..n
        BY <2>2, <3>2
      <4> QED BY <2>1, <2>3, <4>1
    <3> QED BY <3>1, <3>2
  <2>6. Chain(D, n + 1)
    BY <2>4, <2>5
  <2> HIDE DEF Chain
  <2>7. \E B : Chain(B, n + 1)
    BY <2>6
  <2> QED BY <2>2, <2>7
<1>3. N \in T
  <2> HIDE DEF T, N
  <2>1. T \subseteq Nat
    BY DEF T
  <2>2. N \in Nat
    BY DEF N
  <2> QED BY <1>1, <1>2, <2>1, <2>2, NatSet
<1>4. PICK C : Chain(C, N)
  BY <1>3
<1> DEFINE R == [n \in 0..N |-> C[n]]
           Q(P) == P = [n \in 0..N |-> IF n = 0 THEN NothingPlaced ELSE Placed(P[n - 1], t[n])]
<1>5. Q(R)
  <2> DEFINE F(n) == IF n = 0 THEN NothingPlaced ELSE Placed(R[n - 1], t[n])
  <2>1. ASSUME NEW n \in 0..N PROVE C[n] = F(n)
    <3>1. CASE n = 0
      BY <1>4, <3>1
    <3>2. CASE n # 0
      <4>1. n \in 1..N /\ n - 1 \in 0..N
        BY <3>2
      <4>2. R[n - 1] = C[n - 1]
        BY <4>1
      <4> HIDE DEF R
      <4> QED BY <1>4, <3>2, <4>1, <4>2
    <3> QED BY <3>1, <3>2
  <2> HIDE DEF F
  <2>2. R = [n \in 0..N |-> F(n)]
    BY <2>1
  <2> QED BY <2>2 DEF F
<1> DEFINE P == CHOOSE P : Q(P)
<1>6. Layout(t) = P[N].padded
  BY DEF Layout
<1>7. Q(P)
  <2> HIDE DEF Q, R
  <2> QED BY <1>5
<1> HIDE DEF P
<1>8. P[0] = NothingPlaced
  BY <1>7
<1>9. ASSUME NEW m \in 1..N PROVE P[m] = Placed(P[m - 1], t[m])
  <2>1. m \in 0..N /\ m # 0
    OBVIOUS
  <2> QED BY <1>7, <2>1
<1> QED BY <1>6, <1>8, <1>9

\* What they make of the record.
LEMMA Written ==
  ASSUME NEW s, NEW d, NEW n, NEW k, NEW bytes
  PROVE  write(Writer(s, d, n, k), bytes) = Writer(s, d \o bytes, n, k)
<1> DEFINE a == Writer(s, d, n, k)
           e == d \o bytes
<1>1. a = [scan |-> s, dst |-> d, needIndent |-> n, depth |-> k]
  BY DEF Writer
<1> HIDE DEF a
<1>2. write(a, bytes) = [a EXCEPT !.dst = e]
  BY <1>1 DEF write
<1> HIDE DEF e
<1>3. [a EXCEPT !.dst = e] = [scan |-> s, dst |-> e, needIndent |-> n, depth |-> k]
  BY <1>1
<1> QED BY <1>2, <1>3 DEF Writer, e, a

\* The other assignments to its fields.
Waiting(a, m) == [a EXCEPT !.needIndent = m]
Deep(a, j) == [a EXCEPT !.depth = j]

LEMMA Assigned ==
  ASSUME NEW s, NEW d, NEW n, NEW k, NEW m, NEW j
  PROVE  /\ Writer(s, d, n, k).scan = s
         /\ Writer(s, d, n, k).needIndent = n
         /\ Writer(s, d, n, k).depth = k
         /\ Waiting(Writer(s, d, n, k), m) = Writer(s, d, m, k)
         /\ Deep(Writer(s, d, n, k), j) = Writer(s, d, n, j)
<1> DEFINE a == Writer(s, d, n, k)
<1>1. a = [scan |-> s, dst |-> d, needIndent |-> n, depth |-> k]
  BY DEF Writer
<1> HIDE DEF a
<1>2. [a EXCEPT !.needIndent = m] = [scan |-> s, dst |-> d, needIndent |-> m, depth |-> k]
  BY <1>1
<1>3. [a EXCEPT !.depth = j] = [scan |-> s, dst |-> d, needIndent |-> n, depth |-> j]
  BY <1>1
<1>4. a.scan = s /\ a.needIndent = n /\ a.depth = k
  BY <1>1
<1> QED BY <1>2, <1>3, <1>4 DEF Writer, a, Waiting, Deep

LEMMA IndentedWriter ==
  ASSUME NEW s, NEW d, NEW n, NEW k
  PROVE  /\ n = Settled \/ s.op \in Brackets => indented(Writer(s, d, n, k)) = Writer(s, d, n, k)
         /\ n = Pending /\ s.op \notin Brackets =>
              indented(Writer(s, d, n, k)) = Writer(s, d \o newline(k + 1), Settled, k + 1)
<1> DEFINE a == Writer(s, d, n, k)
           j == k + 1
           bytes == newline(k + 1)
           q == Deep(Waiting(a, Settled), j)
<1>1. a.scan = s /\ a.depth = k /\ a.needIndent = n
  BY Assigned
<1>2. closes(s) <=> s.op \in Brackets
  BY DEF closes, Brackets
<1> HIDE DEF a
<1>3. [a EXCEPT !.needIndent = FALSE, !.depth = @ + 1] = q
  BY <1>1 DEF Deep, Waiting, Settled
<1> HIDE DEF q
<1>4. n = Settled \/ s.op \in Brackets => indented(a) = a
  BY <1>1, <1>2 DEF indented, Settled
<1>5. n = Pending /\ s.op \notin Brackets => indented(a) = write(q, bytes)
  BY <1>1, <1>2, <1>3 DEF indented, Pending
<1> HIDE DEF j, bytes
<1>6. q = Writer(s, d, Settled, j)
  BY Assigned DEF a, q
<1>7. write(q, bytes) = Writer(s, d \o bytes, Settled, j)
  BY <1>6, Written
<1>8. n = Pending /\ s.op \notin Brackets => indented(a) = Writer(s, d \o bytes, Settled, j)
  BY <1>5, <1>7
<1> QED BY <1>4, <1>8 DEF a, j, bytes

\* What Writer(s, d, n, k) is with the byte c and its line break or space.
Punctuated(s, d, n, k, c) ==
    LET p == punctuation(Writer(s, d, n, k), c) IN
    /\ c \in Openers => p = Writer(s, d \o <<c>>, Pending, k)
    /\ c = "," => p = Writer(s, (d \o <<c>>) \o newline(k), n, k)
    /\ c = ":" => p = Writer(s, (d \o <<c>>) \o <<" ">>, n, k)
    /\ c \in Closers /\ n = Pending => p = Writer(s, d \o <<c>>, Settled, k)
    /\ c \in Closers /\ n = Settled => p = Writer(s, (d \o newline(k - 1)) \o <<c>>, n, k - 1)
    /\ c \notin Punctuation => p = Writer(s, d \o <<c>>, n, k)

LEMMA PunctuatedWriter ==
  ASSUME NEW s, NEW d, NEW n, NEW k, NEW c
  PROVE  Punctuated(s, d, n, k, c)
<1> DEFINE a == Writer(s, d, n, k)
           p == punctuation(a, c)
           byte == <<c>>
           blank == <<" ">>
           j == k - 1
           over == newline(k)
           under == newline(k - 1)
<1>1. a.depth = k /\ a.needIndent = n
  BY Assigned
<1> HIDE DEF a
<1>2. c \in Openers => p = write(Waiting(a, Pending), byte)
  BY DEF punctuation, Openers, Waiting, Pending
<1>3. c = "," => p = write(write(a, byte), over)
  BY <1>1 DEF punctuation
<1>4. c = ":" => p = write(write(a, byte), blank)
  BY DEF punctuation
<1>5. c \in Closers /\ n = Pending => p = write(Waiting(a, Settled), byte)
  BY <1>1 DEF punctuation, Closers, Waiting, Pending, Settled
<1>6. c \in Closers /\ n = Settled => p = write(write(Deep(a, j), under), byte)
  BY <1>1 DEF punctuation, Closers, Deep, Settled
<1>7. c \notin Punctuation => p = write(a, byte)
  BY DEF punctuation, Punctuation
<1> HIDE DEF p, byte, blank, j, over, under
<1>8. /\ Waiting(a, Pending) = Writer(s, d, Pending, k)
      /\ Waiting(a, Settled) = Writer(s, d, Settled, k)
      /\ Deep(a, j) = Writer(s, d, n, j)
  BY Assigned DEF a
<1>9. /\ write(Writer(s, d, Pending, k), byte) = Writer(s, d \o byte, Pending, k)
      /\ write(Writer(s, d, Settled, k), byte) = Writer(s, d \o byte, Settled, k)
      /\ write(Writer(s, d, n, k), byte) = Writer(s, d \o byte, n, k)
      /\ write(Writer(s, d, n, j), under) = Writer(s, d \o under, n, j)
      /\ write(Writer(s, d \o byte, n, k), over) = Writer(s, (d \o byte) \o over, n, k)
      /\ write(Writer(s, d \o byte, n, k), blank) = Writer(s, (d \o byte) \o blank, n, k)
      /\ write(Writer(s, d \o under, n, j), byte) = Writer(s, (d \o under) \o byte, n, j)
  BY Written
<1>10. /\ c \in Openers => p = Writer(s, d \o byte, Pending, k)
       /\ c = "," => p = Writer(s, (d \o byte) \o over, n, k)
       /\ c = ":" => p = Writer(s, (d \o byte) \o blank, n, k)
       /\ c \in Closers /\ n = Pending => p = Writer(s, d \o byte, Settled, k)
       /\ c \in Closers /\ n = Settled => p = Writer(s, (d \o under) \o byte, n, j)
       /\ c \notin Punctuation => p = Writer(s, d \o byte, n, k)
  BY <1>2, <1>3, <1>4, <1>5, <1>6, <1>7, <1>8, <1>9 DEF a
<1> QED BY <1>10 DEF a, p, byte, blank, j, over, under, Punctuated

\* A round of the loop.
Indented(s, d, n, k, c) ==
    LET u == step(s, c)
        a == indentByte(Writer(s, d, n, k), c)
        b == Writer(u, d, n, k)
    IN  /\ u.op \in {"scanSkipSpace", "scanError"} => a = b
        /\ u.op = "scanContinue" => a = write(indented(b), <<c>>)
        /\ u.op \notin {"scanSkipSpace", "scanError", "scanContinue"} => a = punctuation(indented(b), c)

LEMMA IndentRound ==
  ASSUME NEW s, NEW d, NEW n, NEW k, NEW c, s.op # "scanError"
  PROVE  Indented(s, d, n, k, c)
<1> DEFINE a == Writer(s, d, n, k)
           u == step(s, c)
           b == Writer(u, d, n, k)
<1>1. a.scan = s /\ [a EXCEPT !.scan = u] = b
  <2> HIDE DEF u
  <2>1. a = [scan |-> s, dst |-> d, needIndent |-> n, depth |-> k]
    BY DEF Writer
  <2>2. [a EXCEPT !.scan = u] = [scan |-> u, dst |-> d, needIndent |-> n, depth |-> k]
    BY <2>1
  <2> QED BY <2>1, <2>2 DEF Writer
<1>2. ~Failed(s)
  BY DEF Failed
<1> HIDE DEF a, b
<1>3. indentByte(a, c) =
        CASE Failed(s) -> a
          [] ~Failed(s) /\ u.op \in {"scanSkipSpace", "scanError"} -> b
          [] ~Failed(s) /\ u.op = "scanContinue" -> write(indented(b), <<c>>)
          [] OTHER -> punctuation(indented(b), c)
  BY <1>1 DEF indentByte
<1> HIDE DEF u
<1>4. /\ u.op \in {"scanSkipSpace", "scanError"} => indentByte(a, c) = b
      /\ u.op = "scanContinue" => indentByte(a, c) = write(indented(b), <<c>>)
      /\ u.op \notin {"scanSkipSpace", "scanError", "scanContinue"} =>
           indentByte(a, c) = punctuation(indented(b), c)
  BY <1>2, <1>3
<1> QED BY <1>4 DEF a, b, u, Indented

\* Where Writer(s, d, n, k) is after the bytes of read: d is the text laid out
\* so far with the line break or the space behind it.
Laid(s, d, n, k, read) ==
    LET depth == Len(read.outline.open) IN
    /\ read.last \in Openers => n = Pending /\ k = depth - 1 /\ s.step \in EmptySteps
    /\ read.last \notin Openers => n = Settled /\ k = depth
    /\ read.last \in {",", ":"} => s.step \in BeginSteps
    /\ read.last = "," => d = read.text \o newline(depth)
    /\ read.last = ":" => d = read.text \o <<" ">>
    /\ read.last \notin {",", ":"} =>
         d = IF s.step = "stateEndTop" THEN read.padded ELSE read.text
    /\ Finished(s) /\ s.step # "stateEndTop" => read.padded = read.text

LEMMA OneLess == \A n \in Nat : n - 1 + 1 = n /\ \A m : m = n + 1 => n = m - 1
OBVIOUS

\* What the byte c is to the layout, and whether the layout leaves it where
\* it is.
Seen(o, c) == IF o.at = "between" THEN c ELSE "\""
Stays(o, c) == ~(c = " " /\ o.at = "between")

\* What the code of a byte says of it: t is the scanner after it, p what the
\* layout takes it for, m and n the brackets open before and after it.
Coded(s, t, c, p, m, n) ==
    /\ m \in Nat
    /\ s.step # "stateEndTop"
    /\ t.op \notin {"scanSkipSpace", "scanError"}
    /\ p \in Closers <=> t.op \in Brackets
    /\ p \in Closers => s.step \notin BeginSteps
    /\ p \in Openers => t.step \in EmptySteps
    /\ p \in {",", ":"} => t.step \in BeginSteps
    /\ t.op = "scanContinue" => p \notin Punctuation
    /\ t.op # "scanContinue" => p = c
    /\ p \in Openers => n = m + 1
    /\ p \in Closers => n = m - 1
    /\ p \notin Openers \cup Closers => n = m

LEMMA SeenByte ==
  ASSUME NEW s, Sound(s), s.err = NoError, NEW o \in Outlines, Tracks(s, o),
         NEW c, step(s, c).err = NoError, Stays(o, c)
  PROVE  Coded(s, step(s, c), c, Seen(o, c), Len(o.open), Len(Outlined(o, c).open))
<1> DEFINE u == step(s, c)
           p == Seen(o, c)
           n == Len(o.open)
           v == Outlined(o, c)
<1>1. Sound(u) /\ u.err = NoError
  BY StepSound DEF Result
<1>2. n \in Nat /\ Len(v.open) \in Nat
  <2>1. v \in Outlines
    BY OutlinedType
  <2> HIDE DEF v
  <2>2. \A q \in Outlines : q.open \in Seq(Openers)
    BY DEF Outlines
  <2>3. o.open \in Seq(Openers) /\ v.open \in Seq(Openers)
    BY <2>1, <2>2
  <2> QED BY <2>3, LenProperties
<1>3. o.at = Where(s.step) /\ n = Len(s.parseState) /\ Len(v.open) = Len(u.parseState)
  <2>1. Tracks(u, v)
    BY <1>1, TracksStep
  <2> HIDE DEF u, v
  <2> QED BY <1>1, <2>1 DEF Tracks, Mirrors
<1>4. o.at = "between" <=> s.step \notin StringSteps
  BY <1>3 DEF Where, StringSteps, Hexadecimal
<1>5. u.op \notin {"scanSkipSpace", "scanError"}
  <2>1. u.op \notin Dropped
    BY <1>1, <1>4, DroppedByte DEF Stays
  <2> HIDE DEF u
  <2> QED BY <1>1, <2>1 DEF Dropped, Sound
<1>6. CASE o.at # "between"
  <2>1. p = "\"" /\ p \notin Punctuation /\ p \notin Openers \cup Closers /\ p \notin {",", ":"}
    BY <1>6 DEF Seen, Punctuation, Openers, Closers
  <2>2. u.op = "scanContinue"
    BY <1>1, <1>4, <1>6, StringCode
  <2>3. s.step # "stateEndTop"
    BY <1>4, <1>6 DEF StringSteps, Hexadecimal
  <2>4. Len(v.open) = n
    <3>1. o.at = "string" \/ o.at = "escape"
      BY <1>6 DEF Outlines
    <3>2. \/ v = o
          \/ \E a \in {"between", "string", "escape"} : v = [o EXCEPT !.at = a]
      BY <3>1, OutlinedIn, Zenon
    <3>3. \A a : [o EXCEPT !.at = a].open = o.open
      BY DEF Outlines
    <3>4. v.open = o.open
      BY <3>2, <3>3, Zenon
    <3> QED BY <3>4
  <2> HIDE DEF u, p, n, v
  <2>5. u.op \notin Brackets
    BY <2>2 DEF Brackets
  <2>6. Coded(s, u, c, p, n, Len(v.open))
    BY <1>2, <1>5, <2>1, <2>2, <2>3, <2>4, <2>5 DEF Coded
  <2> QED BY <2>6 DEF u, p, n, v
<1>7. CASE o.at = "between"
  <2>1. p = c /\ c # " " /\ s.step \notin StringSteps
    BY <1>4, <1>7 DEF Seen, Stays
  <2>2. s.step # "stateEndTop"
    BY <1>1, <2>1, TopByte
  <2>3. c \in Punctuation => Answers(c, u) /\ (c \in {"}", "]"} => s.step \notin BeginSteps)
    BY <1>1, <2>1, PunctuationCode
  <2>4. u.op \in Brackets => c \in {"}", "]"}
    BY BracketByte
  <2>5. Outside(s, c, u)
    BY <2>1, StepOutside
  <2> HIDE DEF u, p, n, v
  <2>6. /\ c \in Openers => Len(v.open) = n + 1
        /\ c \in Closers => Len(v.open) = n - 1
        /\ c \notin Openers \cup Closers => Len(v.open) = n
    <3>1. c \in Openers => OpenedBy(s, c, u)
      BY <1>1, <2>5 DEF Outside, Openers
    <3>2. c \in Closers => ClosedBy(s, c, u)
      BY <1>1, <2>5 DEF Outside, Closers
    <3>3. c \notin Openers \cup Closers => SameOpen(s, u)
      BY <1>1, <2>5 DEF Outside, Openers, Closers
    <3>4. c \in Openers => Len(u.parseState) = Len(s.parseState) + 1
      BY <3>1 DEF OpenedBy
    <3>5. c \in Closers => Len(s.parseState) = Len(u.parseState) + 1
      BY <3>2 DEF ClosedBy
    <3>6. c \notin Openers \cup Closers => Len(u.parseState) = Len(s.parseState)
      BY <3>3 DEF SameOpen
    <3> DEFINE m == Len(v.open)
    <3>7. /\ c \in Openers => m = n + 1
          /\ c \in Closers => n = m + 1
          /\ c \notin Openers \cup Closers => m = n
      BY <1>3, <3>4, <3>5, <3>6
    <3>8. m \in Nat
      BY <1>2
    <3> HIDE DEF m
    <3>9. n = m + 1 => m = n - 1
      BY <3>8, OneLess
    <3> QED BY <3>7, <3>9 DEF m
  <2>7. /\ c \in Closers <=> u.op \in Brackets
        /\ c \in Closers => s.step \notin BeginSteps
        /\ c \in Openers => u.step \in EmptySteps
        /\ c \in {",", ":"} => u.step \in BeginSteps
        /\ u.op = "scanContinue" => c \notin Punctuation
    BY <1>1, <2>3, <2>4 DEF Answers, Punctuation, Openers, Closers, Brackets
  <2>8. Coded(s, u, c, p, n, Len(v.open))
    BY <1>2, <1>5, <2>1, <2>2, <2>6, <2>7 DEF Coded
  <2> QED BY <2>8 DEF u, p, n, v
<1> QED BY <1>6, <1>7


\* The loop before a byte that the layout takes for p, behind last and what is
\* written of the text: depth brackets are open.
Waits(u, d, n, k, last, text, p, depth) ==
    /\ depth \in Nat
    /\ p \in Closers <=> u.op \in Brackets
    /\ p \in Closers => last \notin {",", ":"}
    /\ last \in Openers => n = Pending /\ k = depth - 1
    /\ last \notin Openers => n = Settled /\ k = depth
    /\ last = "," => d = text \o newline(depth)
    /\ last = ":" => d = text \o <<" ">>
    /\ last \notin {",", ":"} => d = text

LEMMA BracketsApart ==
  /\ Openers \cap Closers = {}
  /\ "," \notin Openers \cup Closers /\ ":" \notin Openers \cup Closers
  /\ Punctuation = Openers \cup Closers \cup {",", ":"}
BY DEF Openers, Closers, Punctuation

\* The line break that the loop owes is written, but for a closing bracket.
LEMMA Breaks ==
  ASSUME NEW u, NEW d, NEW n, NEW k, NEW last, NEW text, NEW p, NEW depth,
         Waits(u, d, n, k, last, text, p, depth)
  PROVE  /\ p \notin Closers =>
              indented(Writer(u, d, n, k)) = Writer(u, Broken(text, last, p, depth), Settled, depth)
         /\ p \in Closers => indented(Writer(u, d, n, k)) = Writer(u, text, n, k)
<1> DEFINE b == indented(Writer(u, d, n, k))
           before == Broken(text, last, p, depth)
<1>1. /\ n = Settled \/ u.op \in Brackets => b = Writer(u, d, n, k)
      /\ n = Pending /\ u.op \notin Brackets => b = Writer(u, d \o newline(k + 1), Settled, k + 1)
  BY IndentedWriter
<1> HIDE DEF b
<1>2. p \in Closers => b = Writer(u, text, n, k)
  <2>1. p \in Closers => u.op \in Brackets /\ d = text
    BY DEF Waits
  <2> QED BY <1>1, <2>1
<1>3. ASSUME p \notin Closers, last \in Openers PROVE b = Writer(u, before, Settled, depth)
  <2>1. n = Pending /\ k = depth - 1 /\ u.op \notin Brackets /\ depth \in Nat
    BY <1>3 DEF Waits
  <2>2. d = text
    BY <1>3, BracketsApart DEF Waits
  <2>3. depth - 1 + 1 = depth
    BY <2>1, OneLess
  <2>4. k + 1 = depth
    BY <2>1, <2>3, Zenon
  <2>5. before = text \o newline(depth)
    BY <1>3, BracketsApart DEF Broken
  <2> HIDE DEF before
  <2>6. b = Writer(u, d \o newline(k + 1), Settled, k + 1)
    BY <1>1, <2>1
  <2> QED BY <2>2, <2>4, <2>5, <2>6, Zenon
<1>4. ASSUME p \notin Closers, last \notin Openers PROVE b = Writer(u, before, Settled, depth)
  <2>1. n = Settled /\ k = depth
    BY <1>4 DEF Waits
  <2>2. before = d
    BY <1>4, BracketsApart DEF Broken, Waits
  <2> HIDE DEF before
  <2> QED BY <1>1, <2>1, <2>2
<1> QED BY <1>2, <1>3, <1>4 DEF b

\* The loop behind such a byte, which writes byte for it in a string.
Wrote(u, d, n, k, last, text, p, depth, byte) ==
    LET b == indented(Writer(u, d, n, k))
        before == Broken(text, last, p, depth)
    IN  /\ p \in Openers => punctuation(b, p) = Writer(u, before \o <<p>>, Pending, depth)
        /\ p = "," => punctuation(b, p) = Writer(u, (before \o <<p>>) \o newline(depth), Settled, depth)
        /\ p = ":" => punctuation(b, p) = Writer(u, (before \o <<p>>) \o <<" ">>, Settled, depth)
        /\ p \in Closers => punctuation(b, p) = Writer(u, before \o <<p>>, Settled, depth - 1)
        /\ p \notin Punctuation => punctuation(b, p) = Writer(u, before \o <<p>>, Settled, depth)
        /\ p \notin Punctuation => write(b, byte) = Writer(u, before \o byte, Settled, depth)

LEMMA Writes ==
  ASSUME NEW u, NEW d, NEW n, NEW k, NEW last, NEW text, NEW p, NEW depth,
         Waits(u, d, n, k, last, text, p, depth), NEW byte
  PROVE  Wrote(u, d, n, k, last, text, p, depth, byte)
<1> DEFINE b == indented(Writer(u, d, n, k))
           before == Broken(text, last, p, depth)
           seen == <<p>>
           blank == <<" ">>
           w == Writer(u, before, Settled, depth)
           z == Writer(u, text, n, k)
<1>1. /\ p \notin Closers => b = w
      /\ p \in Closers => b = z
  BY Breaks
<1>2. /\ p \in Openers => punctuation(w, p) = Writer(u, before \o seen, Pending, depth)
      /\ p = "," => punctuation(w, p) = Writer(u, (before \o seen) \o newline(depth), Settled, depth)
      /\ p = ":" => punctuation(w, p) = Writer(u, (before \o seen) \o blank, Settled, depth)
      /\ p \notin Punctuation => punctuation(w, p) = Writer(u, before \o seen, Settled, depth)
  <2> HIDE DEF before
  <2>1. Punctuated(u, before, Settled, depth, p)
    BY PunctuatedWriter
  <2> QED BY <2>1 DEF Punctuated
<1>3. /\ p \in Closers /\ n = Pending => punctuation(z, p) = Writer(u, text \o seen, Settled, k)
      /\ p \in Closers /\ n = Settled => punctuation(z, p) = Writer(u, (text \o newline(k - 1)) \o seen, n, k - 1)
  <2>1. Punctuated(u, text, n, k, p)
    BY PunctuatedWriter
  <2> QED BY <2>1 DEF Punctuated
<1>4. write(w, byte) = Writer(u, before \o byte, Settled, depth)
  BY Written
<1> HIDE DEF b, w, z, seen, blank
<1>5. ASSUME p \in Closers, last \in Openers
      PROVE  n = Pending /\ k = depth - 1 /\ before = text
  BY <1>5 DEF Waits, Broken
<1>6. ASSUME p \in Closers, last \notin Openers
      PROVE  n = Settled /\ k - 1 = depth - 1 /\ before = text \o newline(depth - 1)
  BY <1>6 DEF Waits, Broken
<1> HIDE DEF before
<1>7. p \in Closers => punctuation(b, p) = Writer(u, before \o seen, Settled, depth - 1)
  BY <1>1, <1>3, <1>5, <1>6
<1>8. p \in Openers \cup {",", ":"} => p \notin Closers
  BY BracketsApart
<1>9. p \notin Punctuation => p \notin Closers
  BY BracketsApart
<1>10. /\ p \in Openers => punctuation(b, p) = Writer(u, before \o seen, Pending, depth)
       /\ p = "," => punctuation(b, p) = Writer(u, (before \o seen) \o newline(depth), Settled, depth)
       /\ p = ":" => punctuation(b, p) = Writer(u, (before \o seen) \o blank, Settled, depth)
       /\ p \notin Punctuation => punctuation(b, p) = Writer(u, before \o seen, Settled, depth)
       /\ p \notin Punctuation => write(b, byte) = Writer(u, before \o byte, Settled, depth)
  BY <1>1, <1>2, <1>4, <1>8, <1>9
<1> QED BY <1>7, <1>10 DEF b, before, seen, blank, Wrote

\* A byte that is not left out is written where the layout has it.
LEMMA LaidByte ==
  ASSUME NEW s, Sound(s), s.err = NoError, NEW d, NEW n, NEW k,
         NEW read, read.outline \in Outlines, Tracks(s, read.outline), Laid(s, d, n, k, read),
         NEW c, step(s, c).err = NoError, Stays(read.outline, c)
  PROVE  \E e, n2, k2 :
           /\ indentByte(Writer(s, d, n, k), c) = Writer(step(s, c), e, n2, k2)
           /\ Laid(step(s, c), e, n2, k2, Placed(read, c))
<1> DEFINE u == step(s, c)
           o == read.outline
           v == Outlined(o, c)
           p == Seen(o, c)
           depth == Len(o.open)
           deeper == Len(v.open)
           before == Broken(read.text, read.last, p, depth)
           text == before \o <<c>>
           more == Placed(read, c)
           b == indented(Writer(u, d, n, k))
           m == indentByte(Writer(s, d, n, k), c)
<1>1. Coded(s, u, c, p, depth, deeper)
  BY SeenByte
<1>2. more.outline = v /\ more.last = p /\ more.text = text /\ more.padded = text
  <2>1. more = [outline |-> v, last |-> p, text |-> text, padded |-> text]
    BY DEF Placed, Seen, Stays
  <2> HIDE DEF more, v, p, text
  <2> QED BY <2>1
<1>3. Waits(u, d, n, k, read.last, read.text, p, depth)
  <2> HIDE DEF u, p
  <2> QED BY <1>1 DEF Coded, Laid, Waits, BeginSteps, EmptySteps
<1>4. /\ p \in Openers => punctuation(b, p) = Writer(u, before \o <<p>>, Pending, depth)
      /\ p = "," => punctuation(b, p) = Writer(u, (before \o <<p>>) \o newline(depth), Settled, depth)
      /\ p = ":" => punctuation(b, p) = Writer(u, (before \o <<p>>) \o <<" ">>, Settled, depth)
      /\ p \in Closers => punctuation(b, p) = Writer(u, before \o <<p>>, Settled, depth - 1)
      /\ p \notin Punctuation => punctuation(b, p) = Writer(u, before \o <<p>>, Settled, depth)
      /\ p \notin Punctuation => write(b, <<c>>) = Writer(u, text, Settled, depth)
  <2> DEFINE byte == <<c>>
  <2> HIDE DEF u, p, depth, byte
  <2>1. Wrote(u, d, n, k, read.last, read.text, p, depth, byte)
    BY <1>3, Writes
  <2> QED BY <2>1 DEF Wrote, byte
<1>5. /\ u.op = "scanContinue" => m = write(b, <<c>>)
      /\ u.op # "scanContinue" => m = punctuation(b, c)
  <2>1. s.op # "scanError"
    BY DEF Sound
  <2>2. u.op \notin {"scanSkipSpace", "scanError"}
    BY <1>1 DEF Coded
  <2>3. Indented(s, d, n, k, c)
    BY <2>1, IndentRound
  <2> QED BY <2>2, <2>3 DEF Indented
<1>6. /\ u.op = "scanContinue" => p \notin Punctuation
      /\ u.op # "scanContinue" => p = c
  BY <1>1 DEF Coded
<1> HIDE DEF u, v, p, depth, deeper, before, more, b, m
<1>7. /\ p \in Openers => m = Writer(u, text, Pending, depth)
      /\ p = "," => m = Writer(u, text \o newline(depth), Settled, depth)
      /\ p = ":" => m = Writer(u, text \o <<" ">>, Settled, depth)
      /\ p \in Closers => m = Writer(u, text, Settled, depth - 1)
      /\ p \notin Punctuation => m = Writer(u, text, Settled, depth)
  <2>1. CASE u.op = "scanContinue"
    BY <1>4, <1>5, <1>6, <2>1, BracketsApart
  <2>2. CASE u.op # "scanContinue"
    BY <1>4, <1>5, <1>6, <2>2
  <2> QED BY <2>1, <2>2
<1>8. /\ p \in Openers => deeper - 1 = depth /\ u.step \in EmptySteps
      /\ p \in Closers => deeper = depth - 1
      /\ p \notin Openers \cup Closers => deeper = depth
      /\ p \in {",", ":"} => u.step \in BeginSteps
  BY <1>1, OneLess DEF Coded
<1>9. Len(more.outline.open) = deeper
  BY <1>2 DEF deeper
<1> HIDE DEF text
<1>10. /\ p \in Openers => Laid(u, text, Pending, depth, more)
       /\ p = "," => Laid(u, text \o newline(depth), Settled, depth, more)
       /\ p = ":" => Laid(u, text \o <<" ">>, Settled, depth, more)
       /\ p \in Closers => Laid(u, text, Settled, depth - 1, more)
       /\ p \notin Punctuation => Laid(u, text, Settled, depth, more)
  BY <1>2, <1>8, <1>9, BracketsApart DEF Laid
<1>11. \E e, n2, k2 : m = Writer(u, e, n2, k2) /\ Laid(u, e, n2, k2, more)
  BY <1>7, <1>10, BracketsApart
<1> QED BY <1>11 DEF u, m, more

\* What Layout keeps of the bytes that it has read.
Page(o, last, text, padded) == [outline |-> o, last |-> last, text |-> text, padded |-> padded]

\* A space between the tokens is skipped or, behind the text, written.
LEMMA LaidSpace ==
  ASSUME NEW s, Sound(s), s.err = NoError, NEW d, NEW n, NEW k,
         NEW read, read = Page(read.outline, read.last, read.text, read.padded),
         Tracks(s, read.outline), Laid(s, d, n, k, read),
         NEW c, step(s, c).err = NoError, ~Stays(read.outline, c)
  PROVE  \E e, n2, k2 :
           /\ indentByte(Writer(s, d, n, k), c) = Writer(step(s, c), e, n2, k2)
           /\ Laid(step(s, c), e, n2, k2, Placed(read, c))
<1> DEFINE u == step(s, c)
           o == read.outline
           blank == <<c>>
           full == read.padded \o blank
           more == Placed(read, c)
           b == Writer(u, d, n, k)
           m == indentByte(Writer(s, d, n, k), c)
<1>1. c = " " /\ o.at = "between" /\ s.step \notin StringSteps
  BY DEF Stays, Tracks, Where, StringSteps, Hexadecimal
<1>2. more = [read EXCEPT !.padded = full]
  BY <1>1 DEF Placed
<1> HIDE DEF full, more, u, m
<1>3. more = Page(o, read.last, read.text, full)
  BY <1>2 DEF Page
<1>4. more.outline = o /\ more.last = read.last /\ more.text = read.text /\ more.padded = full
  BY <1>3 DEF Page
<1>5. u.op \in Dropped /\ u.err = NoError /\ s.op # "scanError"
  BY <1>1, DroppedByte DEF u, Sound
<1>6. /\ s.step \in BeginSteps \cup EmptySteps => u.step = s.step
      /\ u.op = "scanEnd" => u.step = "stateEndTop" /\ u.parseState = <<>>
      /\ u.op # "scanEnd" => s.step # "stateEndTop" /\ u.step # "stateEndTop"
  BY <1>1, BlankSteps DEF u
<1>7. Indented(s, d, n, k, c)
  BY <1>5, IndentRound
<1>8. CASE u.op = "scanSkipSpace"
  <2>1. m = b
    BY <1>7, <1>8 DEF Indented, m, u
  <2>2. ~Finished(u)
    BY <1>1, <1>8, BlankFinishes DEF u
  <2>3. Laid(u, d, n, k, more)
    BY <1>4, <1>6, <1>8, <2>2 DEF Laid
  <2>4. \E e, n2, k2 : m = Writer(u, e, n2, k2) /\ Laid(u, e, n2, k2, more)
    BY <2>1, <2>3
  <2> QED BY <2>4 DEF u, m, more
<1>9. CASE u.op = "scanEnd"
  <2>1. Finished(s)
    BY <1>9, EndCode DEF u
  <2>2. s.step \notin EmptySteps \cup BeginSteps
    BY <2>1 DEF Finished, FinalSteps, EmptySteps, BeginSteps
  <2>3. read.last \notin Openers /\ read.last \notin {",", ":"}
    BY <2>2 DEF Laid
  <2>4. n = Settled /\ k = Len(o.open) /\ d = read.padded
    BY <2>1, <2>3 DEF Laid
  <2>5. m = punctuation(indented(b), c)
    BY <1>7, <1>9 DEF Indented, m, u
  <2>6. indented(b) = b
    BY <2>4, IndentedWriter
  <2>7. c \notin Punctuation
    BY <1>1 DEF Punctuation
  <2>8. Punctuated(u, d, n, k, c)
    BY PunctuatedWriter
  <2>9. m = Writer(u, full, n, k)
    BY <2>4, <2>5, <2>6, <2>7, <2>8 DEF Punctuated, full
  <2>10. Laid(u, full, n, k, more)
    BY <1>4, <1>6, <1>9, <2>3, <2>4 DEF Laid
  <2>11. \E e, n2, k2 : m = Writer(u, e, n2, k2) /\ Laid(u, e, n2, k2, more)
    BY <2>9, <2>10
  <2> QED BY <2>11 DEF u, m, more
<1> QED BY <1>5, <1>8, <1>9 DEF Dropped

\* After i bytes of t: while there is no error, a has written what read holds.
Indenting(t, i, a, read) ==
    /\ a = Writer(a.scan, a.dst, a.needIndent, a.depth)
    /\ a.needIndent \in {Pending, Settled}
    /\ Sound(a.scan)
    /\ read = Page(read.outline, read.last, read.text, read.padded)
    /\ read.outline \in Outlines
    /\ IF a.scan.err # NoError THEN ~IsJSON(t)
       ELSE /\ ExactAt(t, i, a.scan) /\ Tracks(a.scan, read.outline)
            /\ Laid(a.scan, a.dst, a.needIndent, a.depth, read)

LEMMA IndentingFirst ==
  ASSUME NEW t
  PROVE  Indenting(t, 0, NothingWritten, NothingPlaced)
<1> DEFINE o == NothingRead.outline
<1>1. ExactAt(t, 0, reset)
  BY ExactFirst DEF reset
<1>2. o \in Outlines
  BY EmptySeq DEF NothingRead, Outlines
<1>3. Tracks(reset, o)
  <2>1. Where("stateBeginValue") = "between"
    BY DEF Where, StringSteps, Hexadecimal
  <2> QED BY <2>1 DEF Tracks, Mirrors, reset, NothingRead
<1>4. reset.err = NoError /\ reset.step = "stateBeginValue" /\ o.open = <<>>
  BY DEF reset, NothingRead
<1> HIDE DEF o
<1>5. /\ NothingPlaced.outline = o /\ NothingPlaced.last = "none"
      /\ NothingPlaced.text = <<>> /\ NothingPlaced.padded = <<>>
      /\ NothingPlaced = Page(o, "none", <<>>, <<>>)
  BY DEF NothingPlaced, Page, o
<1>6. /\ NothingWritten.scan = reset /\ NothingWritten.dst = <<>>
      /\ NothingWritten.needIndent = Settled /\ NothingWritten.depth = 0
  BY DEF NothingWritten, Writer
<1>7. Laid(reset, <<>>, Settled, 0, NothingPlaced)
  <2>1. Len(NothingPlaced.outline.open) = 0
    BY <1>4, <1>5
  <2>2. "none" \notin Openers \cup {",", ":"}
    BY DEF Openers
  <2> QED BY <1>4, <1>5, <2>1, <2>2, ResetSound DEF Laid
<1>8. NothingWritten = Writer(reset, <<>>, Settled, 0)
  BY DEF NothingWritten
<1> QED BY <1>1, <1>2, <1>3, <1>4, <1>5, <1>6, <1>7, <1>8, ResetSound DEF Indenting

\* The fields of a record are what it is made of.
LEMMA WriterFields ==
  ASSUME NEW s, NEW d, NEW n, NEW k
  PROVE  LET a == Writer(s, d, n, k) IN a.scan = s /\ a.dst = d /\ a.needIndent = n /\ a.depth = k
BY DEF Writer

LEMMA PageFields ==
  ASSUME NEW o, NEW last, NEW text, NEW padded
  PROVE  LET r == Page(o, last, text, padded) IN
         r.outline = o /\ r.last = last /\ r.text = text /\ r.padded = padded
BY DEF Page

\* What Layout holds after one byte more.
LEMMA PlacedPage ==
  ASSUME NEW read, NEW c,
         read = Page(read.outline, read.last, read.text, read.padded),
         read.outline \in Outlines
  PROVE  LET more == Placed(read, c) IN
         /\ more = Page(more.outline, more.last, more.text, more.padded)
         /\ more.outline = Outlined(read.outline, c)
<1> DEFINE o == read.outline
           v == Outlined(o, c)
           p == Seen(o, c)
           text == Broken(read.text, read.last, p, Len(o.open)) \o <<c>>
           full == read.padded \o <<c>>
           more == Placed(read, c)
<1>1. CASE Stays(o, c)
  <2>1. more = Page(v, p, text, text)
    BY <1>1 DEF Placed, Seen, Stays, Page
  <2> HIDE DEF more, v, p, text
  <2>2. more.outline = v /\ more.last = p /\ more.text = text /\ more.padded = text
    BY <2>1, PageFields
  <2> QED BY <2>1, <2>2 DEF more, v
<1>2. CASE ~Stays(o, c)
  <2>1. more = [read EXCEPT !.padded = full]
    BY <1>2 DEF Placed, Stays
  <2>2. v = o
    BY <1>2 DEF Outlined, Stays, Openers, Closers
  <2> HIDE DEF more, v, full
  <2>3. more = Page(o, read.last, read.text, full)
    BY <2>1 DEF Page
  <2>4. more.outline = o /\ more.last = read.last /\ more.text = read.text /\ more.padded = full
    BY <2>3, PageFields
  <2> QED BY <2>2, <2>3, <2>4 DEF more, v
<1> QED BY <1>1, <1>2

\* A round makes a record of the same kind, with the scanner's next state.
ScanAfter(s, c) == IF s.op = "scanError" THEN s ELSE step(s, c)
WriterAfter(s, c, a) ==
    \E e, k : \E n \in {Pending, Settled} : a = Writer(ScanAfter(s, c), e, n, k)

LEMMA RoundWriter ==
  ASSUME NEW s, NEW d, NEW n, n \in {Pending, Settled}, NEW k, NEW c
  PROVE  WriterAfter(s, c, indentByte(Writer(s, d, n, k), c))
<1> DEFINE u == step(s, c)
           byte == <<c>>
           b == Writer(u, d, n, k)
           m == indentByte(Writer(s, d, n, k), c)
           Makes(w) == \E e, k2 : \E n2 \in {Pending, Settled} : w = Writer(u, e, n2, k2)
<1>1. CASE s.op = "scanError"
  <2> DEFINE a == Writer(s, d, n, k)
  <2>1. a.scan = s
    BY WriterFields
  <2> HIDE DEF a
  <2>2. indentByte(a, c) = a
    BY <1>1, <2>1 DEF indentByte, Failed
  <2>3. \E e, k2 : \E n2 \in {Pending, Settled} : a = Writer(s, e, n2, k2)
    BY DEF a
  <2> QED BY <1>1, <2>2, <2>3 DEF a, ScanAfter, WriterAfter
<1>2. CASE s.op # "scanError"
  <2>1. Indented(s, d, n, k, c)
    BY <1>2, IndentRound
  <2> HIDE DEF byte, u
  <2>2. Makes(b)
    OBVIOUS
  <2>3. Makes(indented(b))
    <3>1. /\ n = Settled \/ u.op \in Brackets => indented(b) = b
          /\ n = Pending /\ u.op \notin Brackets => indented(b) = Writer(u, d \o newline(k + 1), Settled, k + 1)
      BY IndentedWriter
    <3> HIDE DEF b
    <3> QED BY <2>2, <3>1
  <2>4. ASSUME NEW e, NEW n2 \in {Pending, Settled}, NEW k2
        PROVE  Makes(write(Writer(u, e, n2, k2), byte)) /\ Makes(punctuation(Writer(u, e, n2, k2), c))
    <3>1. write(Writer(u, e, n2, k2), byte) = Writer(u, e \o byte, n2, k2)
      BY Written
    <3>2. Punctuated(u, e, n2, k2, c)
      BY PunctuatedWriter
    <3>3. Makes(punctuation(Writer(u, e, n2, k2), c))
      BY <3>2, BracketsApart DEF Punctuated
    <3> QED BY <3>1, <3>3
  <2> HIDE DEF b, m
  <2>5. Makes(write(indented(b), byte)) /\ Makes(punctuation(indented(b), c))
    BY <2>3, <2>4
  <2>6. m = b \/ m = write(indented(b), byte) \/ m = punctuation(indented(b), c)
    BY <2>1 DEF Indented, m, b, u, byte
  <2>7. Makes(m)
    BY <2>2, <2>5, <2>6
  <2> QED BY <1>2, <2>7 DEF m, u, ScanAfter, WriterAfter
<1> QED BY <1>1, <1>2

LEMMA IndentingNext ==
  ASSUME NEW S, NEW t \in Seq(S), NEW i \in Nat, i < Len(t),
         NEW a, NEW read, Indenting(t, i, a, read)
  PROVE  Indenting(t, i + 1, indentByte(a, t[i + 1]), Placed(read, t[i + 1]))
<1> DEFINE c == t[i + 1]
           s == a.scan
           d == a.dst
           n == a.needIndent
           k == a.depth
           u == step(s, c)
           b == indentByte(a, c)
           more == Placed(read, c)
<1> SUFFICES Indenting(t, i + 1, b, more)
  OBVIOUS
<1>1. /\ Sound(s) /\ read.outline \in Outlines /\ a = Writer(s, d, n, k) /\ n \in {Pending, Settled}
      /\ read = Page(read.outline, read.last, read.text, read.padded)
  BY DEF Indenting
<1>2. Sound(u)
  BY <1>1, StepSound DEF Result
<1>3. /\ more = Page(more.outline, more.last, more.text, more.padded)
      /\ more.outline = Outlined(read.outline, c) /\ more.outline \in Outlines
  <2> HIDE DEF c
  <2> QED BY <1>1, PlacedPage, OutlinedType
<1>4. /\ b = Writer(b.scan, b.dst, b.needIndent, b.depth) /\ b.needIndent \in {Pending, Settled}
      /\ b.scan = IF s.op = "scanError" THEN s ELSE u
  <2> HIDE DEF c, s, d, n, k, b
  <2> DEFINE w == ScanAfter(s, c)
  <2>0. WriterAfter(s, c, b)
    BY <1>1, RoundWriter DEF b
  <2>1. PICK e, k2 : \E n2 \in {Pending, Settled} : b = Writer(w, e, n2, k2)
    BY <2>0 DEF WriterAfter
  <2> HIDE DEF w
  <2>2. PICK n2 \in {Pending, Settled} : b = Writer(w, e, n2, k2)
    BY <2>1
  <2>3. b.scan = w /\ b.dst = e /\ b.needIndent = n2 /\ b.depth = k2
    BY <2>2, WriterFields
  <2> QED BY <2>2, <2>3 DEF w, ScanAfter
<1>5. CASE s.err # NoError
  <2>1. ~IsJSON(t)
    BY <1>5 DEF Indenting
  <2>2. u.err = s.err
    BY <1>1, <1>5, StaysInError DEF Sound
  <2> HIDE DEF u, c, b, more, s
  <2> QED BY <1>1, <1>2, <1>3, <1>4, <1>5, <2>1, <2>2 DEF Indenting
<1>6. CASE s.err = NoError
  <2>1. ExactAt(t, i, s) /\ Tracks(s, read.outline) /\ Laid(s, d, n, k, read)
    BY <1>6 DEF Indenting
  <2>2. s.op # "scanError"
    BY <1>1, <1>6 DEF Sound
  <2>3. ExactAt(t, i + 1, u) /\ Tracks(u, more.outline)
    BY <1>1, <1>3, <2>1, ExactStep, TracksStep
  <2>4. CASE u.err # NoError
    <3>1. u.step = "stateError"
      BY <1>2, <2>4 DEF Sound
    <3>2. Extends(t, t, i + 1)
      BY DEF Extends
    <3> HIDE DEF u, c, b, more, s
    <3>3. ~IsJSON(t)
      BY <1>2, <2>3, <3>1, <3>2, ErrorNotJSON
    <3> QED BY <1>2, <1>3, <1>4, <2>2, <2>4, <3>3 DEF Indenting
  <2>5. CASE u.err = NoError
    <3> HIDE DEF c, s, d, n, k, more, b
    <3>1. \E e, n2, k2 :
            /\ indentByte(Writer(s, d, n, k), c) = Writer(u, e, n2, k2)
            /\ Laid(u, e, n2, k2, Placed(read, c))
      <4>1. CASE Stays(read.outline, c)
        BY <1>1, <1>6, <2>1, <2>5, <4>1, LaidByte
      <4>2. CASE ~Stays(read.outline, c)
        BY <1>1, <1>6, <2>1, <2>5, <4>2, LaidSpace
      <4> QED BY <4>1, <4>2
    <3>2. PICK e, n2, k2 : b = Writer(u, e, n2, k2) /\ Laid(u, e, n2, k2, more)
      BY <1>1, <3>1 DEF b, more
    <3> HIDE DEF u
    <3>3. b.dst = e /\ b.needIndent = n2 /\ b.depth = k2
      BY <3>2, WriterFields
    <3>4. Laid(u, b.dst, b.needIndent, b.depth, more)
      BY <3>2, <3>3
    <3> QED BY <1>2, <1>3, <1>4, <2>2, <2>3, <2>5, <3>4 DEF Indenting
  <2> QED BY <2>4, <2>5
<1> QED BY <1>5, <1>6

\* Whatever the text.
LEMMA IndentText ==
  ASSUME NEW S, NEW t \in Seq(S)
  PROVE  Indent(t) = IF IsJSON(t) THEN Layout(t) ELSE Nothing
<1> DEFINE N == Len(t)
<1>0. N \in Nat
  OBVIOUS
<1>1. PICK R : /\ Indent(t) = IF eof(R[N].scan).op = "scanError" THEN Nothing ELSE R[N].dst
               /\ R[0] = NothingWritten
               /\ \A i \in 1..N : R[i] = indentByte(R[i - 1], t[i])
  BY <1>0, IndentShape
<1>2. PICK Q : /\ Layout(t) = Q[N].padded
               /\ Q[0] = NothingPlaced
               /\ \A i \in 1..N : Q[i] = Placed(Q[i - 1], t[i])
  BY <1>0, LayoutShape
<1> DEFINE T == {i \in Nat : i <= N => Indenting(t, i, R[i], Q[i])}
<1>3. 0 \in T
  BY <1>1, <1>2, IndentingFirst
<1>4. ASSUME NEW i \in T PROVE i + 1 \in T
  <2>1. i \in Nat /\ (i <= N => Indenting(t, i, R[i], Q[i]))
    OBVIOUS
  <2>2. ASSUME i + 1 <= N PROVE Indenting(t, i + 1, R[i + 1], Q[i + 1])
    <3>1. Indenting(t, i, R[i], Q[i]) /\ i < Len(t)
      BY <1>0, <2>1, <2>2
    <3>2. i + 1 \in 1..N /\ i + 1 - 1 = i
      BY <1>0, <2>1, <2>2
    <3>3. R[i + 1] = indentByte(R[i], t[i + 1]) /\ Q[i + 1] = Placed(Q[i], t[i + 1])
      BY <1>1, <1>2, <3>2
    <3> QED BY <2>1, <3>1, <3>3, IndentingNext
  <2> QED BY <2>1, <2>2
<1>5. Indenting(t, N, R[N], Q[N])
  <2>1. T \subseteq Nat
    OBVIOUS
  <2> HIDE DEF T, N
  <2>2. N \in T
    BY <1>0, <1>3, <1>4, <2>1, NatSet
  <2> QED BY <1>0, <2>2 DEF T
<1> DEFINE s == R[N].scan
<1>6. Sound(s)
  BY <1>5 DEF Indenting
<1>7. eof(s).op # "scanError" <=> Finished(s)
  BY <1>6, EofFinished
<1>8. CASE s.err # NoError
  <2>1. ~IsJSON(t)
    BY <1>5, <1>8 DEF Indenting
  <2>2. ~Finished(s)
    BY <1>6, <1>8 DEF Sound, Finished, FinalSteps
  <2> QED BY <1>1, <1>7, <2>1, <2>2
<1>9. CASE s.err = NoError
  <2>1. ExactAt(t, N, s) /\ Laid(s, R[N].dst, R[N].needIndent, R[N].depth, Q[N])
    BY <1>5, <1>9 DEF Indenting
  <2>2. Extends(t, t, N)
    BY <1>0 DEF Extends
  <2>3. IsJSON(t) <=> Finished(s)
    BY <1>6, <2>1, <2>2, ExactEnd
  <2>4. Finished(s) => R[N].dst = Q[N].padded
    <3> HIDE DEF s, N
    <3>1. Finished(s) => s.step \notin BeginSteps
      BY DEF Finished, FinalSteps, BeginSteps
    <3> QED BY <2>1, <3>1 DEF Laid
  <2> QED BY <1>1, <1>2, <1>7, <2>3, <2>4
<1> QED BY <1>8, <1>9

\* Indent breaks the lines of a JSON text where its brackets and commas say, to
\* the depth of its brackets, though it looks only at the scanner's codes and
\* one byte ahead, and it writes nothing for any other text.
THEOREM IndentLaysOutAlways == Spec => []IndentLaysOut
<1>1. ExactInv => IndentLaysOut
  <2>1. ExactInv => input \in Seq(BytesOf(alphabet))
    BY DEF ExactInv, IInv, TypeOK
  <2>2. ExactInv => AcceptsJSON
    BY ExactEnds, EofFinished DEF ExactInv, IInv, AcceptsJSON, checkValid
  <2> QED BY <2>1, <2>2, IndentText DEF IndentLaysOut, AcceptsJSON
<1> QED BY <1>1, ExactAlways, PTL
=============================================================================
