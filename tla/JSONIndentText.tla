-------------------------- MODULE JSONIndentText --------------------------
(***************************************************************************)
(* Compact and Indent, on every text that JSONCheckValid feeds, compared   *)
(* with what the quotes and brackets of the text say: what is in a string, *)
(* and how deep.                                                           *)
(***************************************************************************)
EXTENDS JSONCheckValidText, JSONIndent

\* One byte more of a text: space outside the strings is left out, and the
\* bytes of the classes in E are written as \u and their code.
Kept(read, c, E) ==
    [outline |-> Outlined(read.outline, c),
     text |-> IF c = " " /\ read.outline.at = "between" THEN read.text
              ELSE read.text \o (IF c \in E THEN Unicode(c) ELSE <<c>>)]
NothingRead == [outline |-> [open |-> <<>>, at |-> "between", matched |-> TRUE], text |-> <<>>]

\* The text without the spaces outside its strings.
Significant(s, E) ==
    LET Read[i \in 0..Len(s)] ==
            IF i = 0 THEN NothingRead ELSE Kept(Read[i - 1], s[i], E)
    IN  Read[Len(s)].text

\* What JavaScript does not take in a string is always escaped, and HTML's
\* own characters when Marshal asks for it.
EscapedClasses(escape) == {"LS", "PS"} \cup IF escape THEN {"<", ">", "&"} ELSE {}

\* "insignificant space characters elided" (indent.go:12): compact drops the
\* spaces between tokens and nothing else, and writes nothing for a text that
\* is not JSON.
CompactElidesSpace ==
    LET elided(escape) ==
            IF checkValid THEN Significant(input, EscapedClasses(escape)) ELSE Nothing
    IN  Compact(input) = elided(FALSE) /\ compact(input, TRUE) = elided(TRUE)

---------------------------------------------------------------------------
(* Indent.                                                                 *)

\* What is written behind text before the byte c, when p is the byte before
\* it and depth brackets are open between the two.
Broken(text, p, c, depth) ==
    CASE p \in Openers /\ c \in Closers -> text
      [] p \in Openers \cup {","} /\ c \notin Closers -> text \o newline(depth)
      [] p \notin Openers /\ c \in Closers -> text \o newline(depth - 1)
      [] p = ":" /\ c \notin Closers -> text \o <<" ">>
      [] OTHER -> text

\* One byte more of a text: outside the strings, space is left out and the
\* lines are broken.  last is the last byte that was not left out, a quote for
\* those of a string; padded is text with the space behind it.
Placed(read, c) ==
    LET o == read.outline
        p == IF o.at = "between" THEN c ELSE "\""
        text == Broken(read.text, read.last, p, Len(o.open)) \o <<c>>
    IN  IF c = " " /\ o.at = "between" THEN [read EXCEPT !.padded = @ \o <<c>>]
        ELSE [outline |-> Outlined(o, c), last |-> p, text |-> text, padded |-> text]
NothingPlaced ==
    [outline |-> NothingRead.outline, last |-> "none", text |-> <<>>, padded |-> <<>>]

\* The text laid out by its brackets, with the space it ends in.
Layout(s) ==
    LET Read[i \in 0..Len(s)] ==
            IF i = 0 THEN NothingPlaced ELSE Placed(Read[i - 1], s[i])
    IN  Read[Len(s)].padded

\* Indent's comment (indent.go:66-76): each element begins on a new line,
\* indented "according to the indentation nesting", an empty object or array
\* stays on its line, and of the source's spaces only the trailing ones show.
IndentLaysOut == Indent(input) = IF checkValid THEN Layout(input) ELSE Nothing
=============================================================================
