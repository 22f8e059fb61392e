----------------------------- MODULE JSONStream -----------------------------
(***************************************************************************)
(* The buffer of a Decoder (status/json_private/stream.go): readValue and  *)
(* peek look for a value in what has been read, and refill moves what is   *)
(* left to the front of the buffer and reads on behind it.                 *)
(*                                                                         *)
(* A Decoder is a record: buf, scanp, scan and err as in the code, reads   *)
(* what r.Read returns each time, count how often it was called, and item  *)
(* what Decode gave to unmarshal.  readErr is the local variable err of    *)
(* readValue and peek.  How the buffer grows is left out: a read is as     *)
(* long as r pleases.                                                      *)
(***************************************************************************)
EXTENDS JSONScanner, SequencesExt

NewDecoder(reads) ==
    [buf |-> <<>>, scanp |-> 0, scan |-> reset, err |-> "nil",
     reads |-> reads, count |-> 0, readErr |-> "nil", item |-> <<>>]

isSpace(c) == c = " "
nonSpace(b) == \E i \in DOMAIN b : ~isSpace(b[i])

\* After its last read the reader has only its error to return.
Read(dec) ==
    IF dec.count < Len(dec.reads) THEN dec.reads[dec.count + 1]
    ELSE [bytes |-> <<>>, err |-> Last(dec.reads).err]

refill(dec) ==
    [dec EXCEPT !.buf = SubSeq(@, dec.scanp + 1, Len(@)) \o Read(dec).bytes,
                !.scanp = 0, !.count = @ + 1, !.readErr = Read(dec).err]

---------------------------------------------------------------------------
(* readValue, with what Decode does to the value it finds.                 *)

Found(dec, end) == [dec EXCEPT !.item = SubSeq(dec.buf, dec.scanp + 1, end), !.scanp = end]
Fails(dec, err) == [dec EXCEPT !.err = err]

RECURSIVE Look(_, _)

\* Mutant: the scan goes on where the buffer ended before it was moved.
MoreInputNotMoved(dec) ==
    CASE dec.readErr = "nil" -> Look(refill(dec), Len(dec.buf))
      [] dec.readErr = "EOF" /\ step(dec.scan, " ").op = "scanEnd" -> Found(dec, Len(dec.buf))
      [] OTHER -> Fails(dec, IF dec.readErr = "EOF" /\ nonSpace(dec.buf) THEN "ErrUnexpectedEOF"
                              ELSE dec.readErr)

\* All of buf has been scanned.  An error of the last read counts now.
MoreInput(dec) ==
    CASE dec.readErr = "nil" -> Look(refill(dec), Len(dec.buf) - dec.scanp)
      [] dec.readErr = "EOF" /\ step(dec.scan, " ").op = "scanEnd" -> Found(dec, Len(dec.buf))
      [] OTHER -> Fails(dec, IF dec.readErr = "EOF" /\ nonSpace(dec.buf) THEN "ErrUnexpectedEOF"
                              ELSE dec.readErr)

\* s has read the byte before i; a space is invented after a closing bracket.
Invented(dec, s, i) == IF s.op = "scanEnd" THEN Found(dec, i) ELSE Look([dec EXCEPT !.scan = s], i)
Looked(dec, s, i) ==
    CASE s.op = "scanEnd" -> Found(dec, i - 1)
      [] s.op \in Brackets -> Invented(dec, step(s, " "), i)
      [] s.op = "scanError" -> Fails(dec, "SyntaxError")
      [] OTHER -> Look([dec EXCEPT !.scan = s], i)
Look(dec, i) ==
    IF i >= Len(dec.buf) THEN MoreInput(dec)
    ELSE Looked(dec, step([dec.scan EXCEPT !.bytes = @ + 1], dec.buf[i + 1]), i + 1)

readValue(dec) == Look([dec EXCEPT !.scan = reset, !.readErr = "nil"], dec.scanp)

\* Decode outside all arrays and objects.
Decode(dec) == IF dec.err # "nil" THEN dec ELSE readValue(dec)

---------------------------------------------------------------------------
(* peek and More: scanp moves past the spaces.                             *)

RECURSIVE Peeked(_)
Peeked(dec) ==
    LET visible == {i \in dec.scanp + 1..Len(dec.buf) : ~isSpace(dec.buf[i])} IN
    CASE visible # {} -> [dec EXCEPT !.scanp = (CHOOSE i \in visible : \A j \in visible : i <= j) - 1]
      [] visible = {} /\ dec.readErr = "nil" -> Peeked(refill(dec))
      [] OTHER -> dec
peek(dec) == Peeked([dec EXCEPT !.readErr = "nil"])

\* What More answers, once peek has been called.
More(dec) == nonSpace(SubSeq(dec.buf, dec.scanp + 1, Len(dec.buf)))
             /\ dec.buf[dec.scanp + 1] \notin {"]", "}"}
=============================================================================
