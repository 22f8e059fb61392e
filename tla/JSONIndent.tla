---------------------------- MODULE JSONIndent ----------------------------
(***************************************************************************)
(* Compact and Indent (status/json_private/indent.go).  Both copy the      *)
(* bytes of their input and decide by the scanner's code, and not by the   *)
(* byte alone, what to leave out and where to break lines.  A line break   *)
(* and the indentation after it are bytes of the class " ".  Compact also  *)
(* escapes: "<", ">" and "&" when it is told to, and always U+2028 and     *)
(* U+2029, here "LS" and "PS".                                             *)
(***************************************************************************)
EXTENDS JSONScanner

Nothing == <<"nothing">>
Failed(s) == s.op = "scanError"

\* The classes of the four hexadecimal digits that \u is followed by ("a"
\* is the class of d).
HexOf == [ c \in {"^", "BS", "FF", "<", ">", "&", "BAD", "LS", "PS"} |->
           CASE c \in {"^", "BS"} -> <<"0", "0", "0", "1">> [] c = "FF" -> <<"0", "0", "0", "c">>
             [] c = "<" -> <<"0", "0", "1", "c">> [] c = ">" -> <<"0", "0", "1", "e">>
             [] c = "&" -> <<"0", "0", "1", "1">> [] c = "BAD" -> <<"f", "f", "f", "a">>
             [] c \in {"LS", "PS"} -> <<"1", "0", "1", "1">> ]
Unicode(c) == <<"\\", "u">> \o HexOf[c]
EscapedHTML(c, escape) ==
    IF c \in {"LS", "PS"} \/ (escape /\ c \in {"<", ">", "&"}) THEN Unicode(c) ELSE <<c>>

\* Mutant: the space after the top-level value is kept.
compactByteKeepsEnd(a, c) ==
    LET s == step(a.scan, c) IN
    IF Failed(a.scan) THEN a
    ELSE [a EXCEPT !.scan = s,
                   !.dst = IF s.op \in {"scanSkipSpace", "scanError"} THEN @
                           ELSE @ \o EscapedHTML(c, a.escape)]

\* A round of compact's loop: codes from scanSkipSpace on drop the byte.
compactByte(a, c) ==
    LET s == step(a.scan, c) IN
    IF Failed(a.scan) THEN a
    ELSE [a EXCEPT !.scan = s,
                   !.dst = IF s.op \in {"scanSkipSpace", "scanEnd", "scanError"} THEN @
                           ELSE @ \o EscapedHTML(c, a.escape)]

\* On an error dst is truncated to what it was.
compact(src, escape) ==
    LET Rounds[i \in 0..Len(src)] ==
            IF i = 0 THEN [scan |-> reset, dst |-> <<>>, escape |-> escape]
            ELSE compactByte(Rounds[i - 1], src[i])
        a == Rounds[Len(src)]
    IN  IF Failed(eof(a.scan)) THEN Nothing ELSE a.dst
Compact(src) == compact(src, FALSE)

newline(depth) == [i \in 1..depth + 1 |-> " "]

\* Mutant: an empty array is broken over two lines.
closesObject(s) == s.op = "scanEndObject"
closes(s) == s.op \in {"scanEndObject", "scanEndArray"}

write(a, bytes) == [a EXCEPT !.dst = @ \o bytes]

\* The line break after an opening bracket waits for the next token, in case it
\* is the closing one.
indented(a) ==
    IF ~a.needIndent \/ closes(a.scan) THEN a
    ELSE write([a EXCEPT !.needIndent = FALSE, !.depth = @ + 1], newline(a.depth + 1))

punctuation(a, c) ==
    CASE c \in {"{", "["} -> write([a EXCEPT !.needIndent = TRUE], <<c>>)
      [] c = "," -> write(write(a, <<c>>), newline(a.depth))
      [] c = ":" -> write(write(a, <<c>>), <<" ">>)
      [] c \in {"}", "]"} /\ a.needIndent -> write([a EXCEPT !.needIndent = FALSE], <<c>>)
      [] c \in {"}", "]"} /\ ~a.needIndent ->
           write(write([a EXCEPT !.depth = @ - 1], newline(a.depth - 1)), <<c>>)
      [] OTHER -> write(a, <<c>>)

\* A round of Indent's loop.
indentByte(a, c) ==
    LET s == step(a.scan, c)
        b == [a EXCEPT !.scan = s]
    IN  CASE Failed(a.scan) -> a
          [] ~Failed(a.scan) /\ s.op \in {"scanSkipSpace", "scanError"} -> b
          [] ~Failed(a.scan) /\ s.op = "scanContinue" -> write(indented(b), <<c>>)
          [] OTHER -> punctuation(indented(b), c)

Indent(src) ==
    LET Rounds[i \in 0..Len(src)] ==
            IF i = 0 THEN [scan |-> reset, dst |-> <<>>, needIndent |-> FALSE, depth |-> 0]
            ELSE indentByte(Rounds[i - 1], src[i])
        a == Rounds[Len(src)]
    IN  IF Failed(eof(a.scan)) THEN Nothing ELSE a.dst

=============================================================================
