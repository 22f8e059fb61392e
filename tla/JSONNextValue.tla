-------------------------- MODULE JSONNextValue --------------------------
(***************************************************************************)
(* nextValue of status/json_private/scanner.go: the length of the first    *)
(* value of data, or NoError when the scanner reports an error.  It keeps  *)
(* no count of the bytes.                                                  *)
(***************************************************************************)
EXTENDS JSONScanner

\* The loop goes on with the scanner s, or has returned n.
GoesOn(s) == [scan |-> s, over |-> FALSE, n |-> 0]
Returns(s, n) == [scan |-> s, over |-> TRUE, n |-> n]

\* Mutant: the end of a composite value is not probed for.
CutNoProbe(s, i) ==
    CASE s.op \in Brackets -> Returns(s, i)
      [] s.op = "scanError" -> Returns(s, NoError)
      [] s.op = "scanEnd" -> Returns(s, i - 1)
      [] OTHER -> GoesOn(s)

\* s has read byte i.  After a closing bracket it is probed with a space.
Probed(s, i) == IF s.op = "scanEnd" THEN Returns(s, i) ELSE GoesOn(s)
Cut(s, i) ==
    CASE s.op \in Brackets -> Probed(step(s, " "), i)
      [] s.op = "scanError" -> Returns(s, NoError)
      [] s.op = "scanEnd" -> Returns(s, i - 1)
      [] OTHER -> GoesOn(s)

\* One round of the loop, over byte i.
Round(r, data, i) == IF r.over THEN r ELSE Cut(step(r.scan, data[i]), i)

nextValue(data) ==
    LET Rounds[i \in 0..Len(data)] ==
            IF i = 0 THEN GoesOn(reset) ELSE Round(Rounds[i - 1], data, i)
        last == Rounds[Len(data)]
    IN  IF last.over THEN last.n
        ELSE IF eof(last.scan).op = "scanError" THEN NoError ELSE Len(data)
=============================================================================
