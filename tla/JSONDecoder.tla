---------------------------- MODULE JSONDecoder ----------------------------
(***************************************************************************)
(* The token stream of status/json_private/stream.go: one Decoder whose    *)
(* caller mixes Token, Decode and More.                                    *)
(*                                                                         *)
(* The stream is chosen as it is read.  next is the class of the byte at   *)
(* scanp once peek or readValue has skipped the space before it: one of    *)
(* the delimiters, a separator, the quote of a string, the first byte of   *)
(* another scalar, Other for a byte that begins nothing, or EOF for a read *)
(* error, which may be gone on the next call.                              *)
(***************************************************************************)
EXTENDS Naturals, Sequences

CONSTANT MaxText   \* bound: the delimiters, separators, keys and values in the stream

VARIABLES tokenState, tokenStack,
          err,      \* dec.err: "nil", or "failed" once a value could not be read
          calling,  \* the call in progress: "Token", "Decode" or "none"
          next,     \* the class of the next byte, or "unread"
          token,    \* what the last call returned
          open,     \* history: the opening delimiters Token has returned that are not closed yet
          text      \* history: what has been taken from the stream

vars == <<tokenState, tokenStack, err, calling, next, token, open, text>>

States == {"TopValue", "ArrayStart", "ArrayValue", "ArrayComma", "ObjectStart",
           "ObjectKey", "ObjectColon", "ObjectValue", "ObjectComma"}
Classes == {"BeginArray", "EndArray", "BeginObject", "EndObject", "Colon", "Comma", "Quote", "Scalar", "Other", "EOF"}
Delims == {"BeginArray", "EndArray", "BeginObject", "EndObject"}
Beginnings == {"BeginArray", "BeginObject", "Quote", "Scalar"}

ValueStates == {"TopValue", "ArrayStart", "ArrayValue", "ObjectValue"}
ArrayStates == {"ArrayStart", "ArrayValue", "ArrayComma"}
ObjectStates == States \ (ArrayStates \cup {"TopValue"})

TypeOK ==
    /\ tokenState \in States
    /\ tokenStack \in Seq(ValueStates)
    /\ err \in {"nil", "failed"}
    /\ calling \in {"none", "Token", "Decode"}
    /\ next \in Classes \cup {"unread"}
    /\ token \in Delims \cup {"key", "value", "error", "more", "end", "none"}
    /\ open \in Seq({"BeginArray", "BeginObject"})
    /\ text \in Seq(Classes)

Init ==
    /\ tokenState = "TopValue"
    /\ tokenStack = <<>>
    /\ err = "nil"
    /\ calling = "none"
    /\ next = "unread"
    /\ token = "none"
    /\ open = <<>>
    /\ text = <<>>

tokenValueAllowed == tokenState \in ValueStates

\* The state after the value that began in state s.
tokenValueEnd(s) ==
    IF s \in {"ArrayStart", "ArrayValue"} THEN "ArrayComma"
    ELSE IF s = "ObjectValue" THEN "ObjectComma" ELSE s

\* peek: c is the next byte.  After MaxText pieces the stream ends.
peek(c) ==
    /\ c \in Classes
    /\ \/ next = c
       \/ next = "unread" /\ (c = "EOF" \/ Len(text) < MaxText)

\* scanp++ or scanp += n: w is taken from the stream, where Scalar stands
\* for any value read as a whole and Quote for a key.
Take(w) == text' = Append(text, w) /\ next' = "unread"

\* The byte stays where it is; a read error is not remembered here.
Leave(c) == next' = (IF c = "EOF" THEN "unread" ELSE c) /\ UNCHANGED text

Return(t) == token' = t /\ calling' = "none"

\* An error that changes nothing: tokenError, and the errors of peek.
Refuse(c) ==
    /\ Leave(c)
    /\ Return("error")
    /\ UNCHANGED <<tokenState, tokenStack, err, open>>

\* readValue: the value that begins with c is whole, or it is not and dec.err
\* stays set.
ValueRead(c, w) == err = "nil" /\ c \in Beginnings /\ Take(w) /\ UNCHANGED err
ReadFails(c) == Leave(c) /\ err' = "failed"

---------------------------------------------------------------------------
(* Token: its loop, with one action for each branch of the switch.         *)

CallToken ==
    /\ calling = "none"
    /\ calling' = "Token"
    /\ UNCHANGED <<tokenState, tokenStack, err, next, token, open, text>>

\* Mutant: an array or object may begin where no value may stand.
OpenAnywhere(c, start) ==
    /\ calling = "Token" /\ peek(c)
    /\ Take(c)
    /\ tokenStack' = Append(tokenStack, tokenState)
    /\ tokenState' = start
    /\ open' = Append(open, c)
    /\ Return(c)
    /\ UNCHANGED err

Open(c, start) ==
    /\ calling = "Token" /\ peek(c) /\ tokenValueAllowed
    /\ Take(c)
    /\ tokenStack' = Append(tokenStack, tokenState)
    /\ tokenState' = start
    /\ open' = Append(open, c)
    /\ Return(c)
    /\ UNCHANGED err

TokenOpen == Open("BeginArray", "ArrayStart") \/ Open("BeginObject", "ObjectStart")

\* Mutant: whatever is open may be closed.
CloseAnywhere(c, states) ==
    /\ calling = "Token" /\ peek(c) /\ tokenState # "TopValue"
    /\ Take(c)
    /\ tokenState' = tokenValueEnd(tokenStack[Len(tokenStack)])
    /\ tokenStack' = SubSeq(tokenStack, 1, Len(tokenStack) - 1)
    /\ open' = SubSeq(open, 1, Len(open) - 1)
    /\ Return(c)
    /\ UNCHANGED err

Close(c, states) ==
    /\ calling = "Token" /\ peek(c) /\ tokenState \in states
    /\ Take(c)
    /\ tokenState' = tokenValueEnd(tokenStack[Len(tokenStack)])
    /\ tokenStack' = SubSeq(tokenStack, 1, Len(tokenStack) - 1)
    /\ open' = SubSeq(open, 1, Len(open) - 1)
    /\ Return(c)
    /\ UNCHANGED err

TokenClose ==
    \/ Close("EndArray", {"ArrayStart", "ArrayComma"})
    \/ Close("EndObject", {"ObjectStart", "ObjectComma"})

\* A separator is elided and the call goes on.
Separator(call, c, from, to) ==
    /\ calling = call /\ peek(c) /\ tokenState = from
    /\ Take(c)
    /\ tokenState' = to
    /\ UNCHANGED <<tokenStack, err, calling, token, open>>

TokenSeparator ==
    \/ Separator("Token", "Colon", "ObjectColon", "ObjectValue")
    \/ Separator("Token", "Comma", "ArrayComma", "ArrayValue")
    \/ Separator("Token", "Comma", "ObjectComma", "ObjectKey")

\* Mutant: the state Decode ran in stays when it fails.
TokenKeyNoRestore ==
    /\ calling = "Token" /\ peek("Quote") /\ tokenState \in {"ObjectStart", "ObjectKey"}
    /\ \/ ValueRead("Quote", "Quote") /\ tokenState' = "ObjectColon" /\ Return("key")
       \/ ReadFails("Quote") /\ tokenState' = "TopValue" /\ Return("error")
    /\ UNCHANGED <<tokenStack, open>>

\* An object key: Decode runs in the state tokenTopValue, and the old state
\* comes back when it fails.
TokenKey ==
    /\ calling = "Token" /\ peek("Quote") /\ tokenState \in {"ObjectStart", "ObjectKey"}
    /\ \/ ValueRead("Quote", "Quote") /\ tokenState' = "ObjectColon" /\ Return("key")
       \/ ReadFails("Quote") /\ Return("error") /\ UNCHANGED tokenState
    /\ UNCHANGED <<tokenStack, open>>

\* A scalar, read by Decode.  A number that no float64 holds is taken as well,
\* and an error returned.
TokenScalar ==
    /\ calling = "Token" /\ tokenValueAllowed
    /\ \E c \in {"Quote", "Scalar", "Other"} :
         /\ peek(c)
         /\ \/ /\ ValueRead(c, "Scalar")
               /\ tokenState' = tokenValueEnd(tokenState)
               /\ Return("value") \/ (c = "Scalar" /\ Return("error"))
            \/ ReadFails(c) /\ Return("error") /\ UNCHANGED tokenState
    /\ UNCHANGED <<tokenStack, open>>

\* The bytes that have a branch of their own in the present state.
Expected(c) ==
    CASE c = "EndArray" -> tokenState \in {"ArrayStart", "ArrayComma"}
      [] c = "EndObject" -> tokenState \in {"ObjectStart", "ObjectComma"}
      [] c = "Colon" -> tokenState = "ObjectColon"
      [] c = "Comma" -> tokenState \in {"ArrayComma", "ObjectComma"}
      [] c = "Quote" -> tokenValueAllowed \/ tokenState \in {"ObjectStart", "ObjectKey"}
      [] c = "EOF" -> FALSE
      [] OTHER -> tokenValueAllowed

TokenRefused ==
    /\ calling = "Token"
    /\ \E c \in Classes : peek(c) /\ ~Expected(c) /\ Refuse(c)

---------------------------------------------------------------------------
(* Decode and More.                                                        *)

CallDecode ==
    /\ calling = "none"
    /\ IF err # "nil" THEN Return("error") ELSE calling' = "Decode" /\ UNCHANGED token
    /\ UNCHANGED <<tokenState, tokenStack, err, next, open, text>>

\* tokenPrepareForDecode.
DecodeSeparator ==
    \/ Separator("Decode", "Comma", "ArrayComma", "ArrayValue")
    \/ Separator("Decode", "Colon", "ObjectColon", "ObjectValue")

DecodeNoSeparator ==
    /\ calling = "Decode" /\ tokenState \in {"ArrayComma", "ObjectColon"}
    /\ \E c \in Classes :
         /\ peek(c) /\ c # (IF tokenState = "ArrayComma" THEN "Comma" ELSE "Colon")
         /\ Refuse(c)

\* Mutant: the value is read in whatever state the decoder is.
DecodeValueAnywhere ==
    /\ calling = "Decode" /\ tokenState \notin {"ArrayComma", "ObjectColon"}
    /\ \E c \in Classes :
         /\ peek(c)
         /\ \/ /\ ValueRead(c, "Scalar")
               /\ tokenState' = tokenValueEnd(tokenState)
               /\ Return("value") \/ Return("error")
            \/ ReadFails(c) /\ Return("error") /\ UNCHANGED tokenState
    /\ UNCHANGED <<tokenStack, open>>

\* The value, an array or an object too, is read as a whole; it is taken also
\* when Unmarshal cannot store it, and the error returned.
DecodeValue ==
    /\ calling = "Decode" /\ tokenValueAllowed
    /\ \E c \in Classes :
         /\ peek(c)
         /\ \/ /\ ValueRead(c, "Scalar")
               /\ tokenState' = tokenValueEnd(tokenState)
               /\ Return("value") \/ Return("error")
            \/ ReadFails(c) /\ Return("error") /\ UNCHANGED tokenState
    /\ UNCHANGED <<tokenStack, open>>

DecodeNotAllowed ==
    /\ calling = "Decode"
    /\ ~tokenValueAllowed /\ tokenState \notin {"ArrayComma", "ObjectColon"}
    /\ Return("error")
    /\ UNCHANGED <<tokenState, tokenStack, err, next, open, text>>

More ==
    /\ calling = "none"
    /\ \E c \in Classes :
         /\ peek(c)
         /\ Leave(c)
         /\ token' = IF c \in {"EndArray", "EndObject", "EOF"} THEN "end" ELSE "more"
    /\ UNCHANGED <<tokenState, tokenStack, err, calling, open>>

Next ==
    \/ CallToken \/ TokenOpen \/ TokenClose \/ TokenSeparator
    \/ TokenKey \/ TokenScalar \/ TokenRefused
    \/ CallDecode \/ DecodeSeparator \/ DecodeNoSeparator
    \/ DecodeValue \/ DecodeNotAllowed \/ More

Spec == Init /\ [][Next]_vars

---------------------------------------------------------------------------
(* Properties.                                                             *)

\* Where the decoder is inside the i-th open delimiter.
Within(i) == IF i < Len(tokenStack) THEN tokenStack[i + 1] ELSE tokenState

\* tokenStack and tokenState tell, for every delimiter that is open, which
\* kind it is, and outside all of them the state is tokenTopValue.  So the
\* closing branches never index an empty tokenStack.
StackMatches ==
    /\ Len(tokenStack) = Len(open)
    /\ Within(0) = "TopValue"
    /\ \A i \in 1..Len(open) :
         Within(i) \in (IF open[i] = "BeginArray" THEN ArrayStates ELSE ObjectStates)

\* "Token guarantees that the delimiters [ ] { } it returns are properly
\* nested and matched": a closing one closes the one opened last.
NestedAndMatched ==
    [][calling = "Token" /\ calling' = "none" /\ token' \in {"EndArray", "EndObject"}
         => /\ open # <<>>
            /\ open[Len(open)] = (IF token' = "EndArray" THEN "BeginArray" ELSE "BeginObject")]_vars
=============================================================================
