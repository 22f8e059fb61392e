----------------------------- MODULE JSONFold -----------------------------
(***************************************************************************)
(* Does a key match the name of a struct field when case is ignored        *)
(* (status/json_private/fold.go)?  foldFunc picks a comparison by what the *)
(* name consists of; each stands for bytes.EqualFold.                      *)
(*                                                                         *)
(* A character is a string; the letters of names are e, k and s.  Of those *)
(* that take several bytes in UTF-8 two equal an ASCII letter: the long s  *)
(* and the Kelvin sign.                                                    *)
(***************************************************************************)
EXTENDS Naturals, Sequences, SequencesExt

Orbits == {{"e", "E"}, {"k", "K", "KELVIN"}, {"s", "S", "LONGS"}}
Width == [c \in {"LONGS", "KELVIN"} |-> IF c = "LONGS" THEN 2 ELSE 3]
ASCII(c) == c \notin DOMAIN Width

\* b & caseMask, for the letters.
Upper(b) == CASE b = "e" -> "E" [] b = "k" -> "K" [] b = "s" -> "S" [] OTHER -> b
Letter(b) == Upper(b) \in {"E", "K", "S"}

\* The bytes of t; those of a longer character are called like it.
Encoded(t) == FlattenSeq([i \in DOMAIN t |-> [j \in 1..(IF ASCII(t[i]) THEN 1 ELSE Width[t[i]]) |-> t[i]]])

EqualFold(s, t) ==
    Len(s) = Len(t) /\ \A i \in DOMAIN s : s[i] = t[i] \/ \E o \in Orbits : {s[i], t[i]} \subseteq o

equalFoldRight(s, t) ==
    /\ Len(s) = Len(t)
    /\ \A i \in DOMAIN s :
         IF ASCII(t[i]) THEN s[i] = t[i] \/ (Letter(s[i]) /\ Upper(s[i]) = Upper(t[i]))
         ELSE t[i] = CASE Upper(s[i]) = "S" -> "LONGS" [] Upper(s[i]) = "K" -> "KELVIN" [] OTHER -> "none"

asciiEqualFold(s, t) ==
    LET b == Encoded(t) IN
    /\ Len(s) = Len(b)
    /\ \A i \in DOMAIN s : s[i] = b[i] \/ (Letter(s[i]) /\ Upper(s[i]) = Upper(b[i]))

simpleLetterEqualFold(s, t) ==
    LET b == Encoded(t) IN Len(s) = Len(b) /\ \A i \in DOMAIN s : Upper(s[i]) = Upper(b[i])

\* foldFunc(s)(s, t)
foldFunc(s, t) ==
    CASE \E i \in DOMAIN s : ~ASCII(s[i]) -> EqualFold(s, t)
      [] \A i \in DOMAIN s : Letter(s[i]) /\ Upper(s[i]) = "E" -> simpleLetterEqualFold(s, t)
      [] (\A i \in DOMAIN s : ASCII(s[i])) /\ \E i \in DOMAIN s : Upper(s[i]) \in {"K", "S"} ->
           equalFoldRight(s, t)
      [] OTHER -> asciiEqualFold(s, t)
=============================================================================
