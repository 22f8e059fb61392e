---------------------------- MODULE JSONGrammar ----------------------------
(***************************************************************************)
(* The JSON grammar of RFC 4627, which the package comment of              *)
(* status/json_private/encode.go names, over the byte classes of           *)
(* JSONScanner.  It is what the scanner is compared with and shares no     *)
(* definition with it: a nonterminal maps the set I of positions where a   *)
(* phrase may begin to the set of positions just after it, so every way of *)
(* reading the text is followed at once.                                   *)
(***************************************************************************)
EXTENDS Naturals, Sequences

Blank == {" "}
QuotationMark == {"\""}
Backslash == {"\\"}
Comma == {","}
Colon == {":"}
BeginArray == {"["}
EndArray == {"]"}
BeginObject == {"{"}
EndObject == {"}"}
Minus == {"-"}
DigitZero == {"0"}
DigitNonzero == {"1"}
Digit == {"0", "1"}
Point == {"."}
ExpMark == {"e", "E"}
Sign == {"+", "-"}
Hex == {"0", "1", "a", "b", "c", "e", "E", "f"}
Escapable == {"\"", "\\", "/", "b", "f", "n", "r", "t"}
Control == {"^"}

\* One byte of the class C, and one that is not.
After(s, I, C) == {i + 1 : i \in {j \in I : j <= Len(s) /\ s[j] \in C}}
AfterOther(s, I, C) == {i + 1 : i \in {j \in I : j <= Len(s) /\ s[j] \notin C}}

\* Any number of bytes of the class C, and at least one digit.
Many(s, I, C) ==
    {j \in 1..(Len(s) + 1) : \E i \in I : i <= j /\ \A k \in i..(j - 1) : s[k] \in C}
SomeDigits(s, I) == Many(s, After(s, I, Digit), Digit)

\* The bytes of the word w, in order.
Word(s, I, w) ==
    {i + Len(w) : i \in {j \in I : /\ j + Len(w) <= Len(s) + 1
                                  /\ \A k \in DOMAIN w : s[j + k - 1] = w[k]}}

Space(s, I) == Many(s, I, Blank)

Integer(s, I) == After(s, I, DigitZero) \cup Many(s, After(s, I, DigitNonzero), Digit)
Fraction(s, I) == I \cup SomeDigits(s, After(s, I, Point))
Exponent(s, I) ==
    LET e == After(s, I, ExpMark) IN I \cup SomeDigits(s, e \cup After(s, e, Sign))
Number(s, I) == Exponent(s, Fraction(s, Integer(s, I \cup After(s, I, Minus))))

\* One of the characters between the quotes.
HexDigit(s, I) == After(s, I, Hex)
Character(s, I) ==
    LET escape == After(s, I, Backslash) IN
    AfterOther(s, I, QuotationMark \cup Backslash \cup Control)
      \cup After(s, escape, Escapable)
      \cup HexDigit(s, HexDigit(s, HexDigit(s, HexDigit(s, After(s, escape, {"u"})))))

\* The nonterminals that refer to themselves: P[i][X] is where an X that begins
\* at i may end, and the rules tell it from where those that begin later do.
From(P, X, I) == UNION {P[i][X] : i \in I}

StringBy(s, P, I) == After(s, From(P, "characters", After(s, I, QuotationMark)), QuotationMark)
ArrayBy(s, P, I) ==
    LET J == After(s, I, BeginArray) IN
    After(s, Space(s, J) \cup From(P, "elements", J), EndArray)
ObjectBy(s, P, I) ==
    LET J == After(s, I, BeginObject) IN
    After(s, Space(s, J) \cup From(P, "members", J), EndObject)
ValueBy(s, P, I) ==
    Number(s, I) \cup StringBy(s, P, I) \cup ArrayBy(s, P, I) \cup ObjectBy(s, P, I)
      \cup Word(s, I, <<"t", "r", "u", "e">>)
      \cup Word(s, I, <<"f", "a", "l", "s", "e">>)
      \cup Word(s, I, <<"n", "u", "l", "l">>)
MemberBy(s, P, I) ==
    ValueBy(s, P, Space(s, After(s, Space(s, StringBy(s, P, I)), Colon)))

\* An item J, and more of them behind commas.
ListBy(s, P, X, J) == Space(s, J) \cup From(P, X, After(s, Space(s, J), Comma))

Nonterminals == {"characters", "elements", "members", "texts"}
Rule(s, P, X, i) ==
    CASE X = "characters" -> {i} \cup From(P, X, Character(s, {i}))
      [] X = "elements" -> ListBy(s, P, X, ValueBy(s, P, Space(s, {i})))
      [] X = "members" -> ListBy(s, P, X, MemberBy(s, P, Space(s, {i})))
      [] X = "texts" -> Space(s, {i}) \cup From(P, X, ValueBy(s, P, Space(s, {i})))
Phrases(s) ==
    LET P[i \in 1..(Len(s) + 1)] == [X \in Nonterminals |-> Rule(s, P, X, i)] IN P

String(s, I) == StringBy(s, Phrases(s), I)
Value(s, I) == ValueBy(s, Phrases(s), I)

\* A JSON text: one value, with space around it.
IsJSON(s) == Len(s) + 1 \in Space(s, Value(s, Space(s, {1})))

\* A stream: any number of JSON texts.
IsStream(s) == Len(s) + 1 \in Phrases(s)[1]["texts"]
=============================================================================
