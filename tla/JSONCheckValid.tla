-------------------------- MODULE JSONCheckValid --------------------------
(***************************************************************************)
(* The loop that feeds the scanner, checkValid, one byte at a time         *)
(* (status/json_private/scanner.go).  The input keeps growing after an     *)
(* error, as a caller that ignores the code a call of step returns may go  *)
(* on.                                                                     *)
(***************************************************************************)
EXTENDS JSONScanner, Functions

CONSTANT Alphabets \* triples: a set of words, a bound on the length of the texts made
                   \* of them, and a bound on the bytes fed after an error

BytesOf(a) == UNION {Range(w) : w \in a[1]}

ASSUME AlphabetsAssumption ==
    \A a \in Alphabets :
        /\ a[1] \subseteq Seq(BytesOf(a)) \ {<<>>}
        /\ a[2] \in Nat
        /\ a[3] \in Nat

VARIABLES alphabet,  \* the triple this input is made from
          word,      \* what is still to come of the word begun
          input,     \* data[:scan.bytes]
          scan,
          outline    \* history: the brackets of input that are open outside its strings

vars == <<alphabet, word, input, scan, outline>>

Openers == {"{", "["}
Closers == {"}", "]"}
Opener(c) == IF c = "}" THEN "{" ELSE "["

\* What the quotes and the brackets of a text say, whatever is between them:
\* open are the brackets left open, at tells whether the text is in a string,
\* matched that each closing bracket closed the last one open.
Outlines == [open : Seq(Openers), at : {"between", "string", "escape"}, matched : BOOLEAN]

Closed(o, c) ==
    LET n == Len(o.open) IN
    IF n > 0 /\ o.open[n] = Opener(c) THEN [o EXCEPT !.open = SubSeq(@, 1, n - 1)]
                                      ELSE [o EXCEPT !.matched = FALSE]
Outlined(o, c) ==
    CASE o.at = "escape" -> [o EXCEPT !.at = "string"]
      [] o.at = "string" /\ c = "\\" -> [o EXCEPT !.at = "escape"]
      [] o.at = "string" /\ c = "\"" -> [o EXCEPT !.at = "between"]
      [] o.at = "between" /\ c = "\"" -> [o EXCEPT !.at = "string"]
      [] o.at = "between" /\ c \in Openers -> [o EXCEPT !.open = Append(@, c)]
      [] o.at = "between" /\ c \in Closers -> Closed(o, c)
      [] OTHER -> o

TypeOK ==
    /\ alphabet \in Alphabets
    /\ word \in Seq(BytesOf(alphabet))
    /\ input \in Seq(BytesOf(alphabet))
    /\ Len(input) + Len(word) <= alphabet[2]
    /\ scan.bytes = Len(input)
    /\ scan.err \in {NoError} \cup 1..Len(input)
    /\ \A i \in 1..Len(scan.parseState) :
         scan.parseState[i] \in {"parseObjectKey", "parseObjectValue", "parseArrayValue"}
    /\ outline \in Outlines

Init ==
    /\ alphabet \in Alphabets
    /\ word = <<>>
    /\ input = <<>>
    /\ scan = reset
    /\ outline = [open |-> <<>>, at |-> "between", matched |-> TRUE]

\* What the next byte may be the first of: the rest of a word or, after it, a
\* new word.
Words ==
    IF word # <<>> THEN {word}
    ELSE {w \in alphabet[1] : /\ Len(input) + Len(w) <= alphabet[2]
                              /\ scan.err = NoError \/ scan.bytes < scan.err + alphabet[3]}

\* Mutant: the byte is not counted.
ByteNotCounted(w) ==
    /\ word' = Tail(w)
    /\ input' = Append(input, Head(w))
    /\ outline' = Outlined(outline, Head(w))
    /\ scan' = step(scan, Head(w))
    /\ UNCHANGED alphabet

\* One round of checkValid's loop.
Byte(w) ==
    /\ word' = Tail(w)
    /\ input' = Append(input, Head(w))
    /\ outline' = Outlined(outline, Head(w))
    /\ scan' = step([scan EXCEPT !.bytes = @ + 1], Head(w))
    /\ UNCHANGED alphabet

Next == \E w \in Words : Byte(w)

Spec == Init /\ [][Next]_vars

checkValid == eof(scan).op # "scanError"

---------------------------------------------------------------------------
(* Properties.                                                             *)

\* "If one call returns scanError, every subsequent call will return
\* scanError too", and the error it reports stays the first one.
ErrorIsSticky ==
    [][scan.op = "scanError" => scan'.op = "scanError" /\ scan'.err = scan.err]_scan
=============================================================================
