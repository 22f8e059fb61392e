---------------------------- MODULE JSONDecode ----------------------------
(***************************************************************************)
(* Unmarshal (status/json_private/decode.go).  The decoder does not parse: *)
(* it follows the codes of its own scanner, takes back the byte that ends  *)
(* a literal or begins an element, and keeps the scanner going past a      *)
(* value it skips with invented bytes.                                     *)
(*                                                                         *)
(* A decodeState is a record: off and scan as in the code, data the text,  *)
(* saved whether savedError is set, panic the error that aborted it, raws  *)
(* what UnmarshalJSON was given and val the result of the last call.       *)
(*                                                                         *)
(* A Go type is a record with a kind: "any" (interface{}), "number",       *)
(* "slice" and "array" of elem, "ptr" to elem, "map" and "struct" with     *)
(* string keys, "raw" (any Unmarshaler) and "skip" (the zero               *)
(* reflect.Value).  Pointers to pointers, TextUnmarshaler, non-string      *)
(* keys, the ",string" option, base64, the range of numbers and what a     *)
(* slice's spare capacity still holds are left out.                        *)
(***************************************************************************)
EXTENDS JSONNextValue, JSONFold, SequencesExt

Nil == <<"nil">>
Interface == [kind |-> "any"]
Skipped == [kind |-> "skip"]

RECURSIVE Zero(_)
Zero(T) ==
    CASE T.kind = "array" -> <<"array", [i \in 1..T.len |-> Zero(T.elem)]>>
      [] T.kind = "struct" -> <<"object", [k \in DOMAIN T.fields |-> Zero(T.fields[k])]>>
      [] OTHER -> Nil

Decoded(text) == [data |-> text, off |-> 0, scan |-> reset, saved |-> FALSE,
                  panic |-> "no", raws |-> {}, val |-> Nil]

Panic(d, err) == [d EXCEPT !.panic = err]
saveError(d) == [d EXCEPT !.saved = TRUE]
Feed(s, bytes) == FoldLeft(step, s, bytes)

readByte(d) ==
    IF d.off >= Len(d.data)
    THEN [d EXCEPT !.scan = eof(@), !.off = Len(d.data) + 1]
    ELSE [d EXCEPT !.scan = step(@, d.data[d.off + 1]), !.off = @ + 1]
Op(d) == d.scan.op
RECURSIVE scanOn(_, _)
scanOn(d, op) == IF Op(d) = op THEN scanOn(readByte(d), op) ELSE d
scanWhile(d, op) == scanOn(readByte(d), op)

\* d.off--, d.scan.undo(op): undo panics when a byte is already taken back.
Back(d) ==
    IF d.scan.redo THEN Panic(d, "invalid use of scanner")
    ELSE [d EXCEPT !.off = @ - 1, !.scan = undo(@)]

\* The value at off, of n bytes, and the state past it.
ItemOf(d, n) ==
    IF n = NoError THEN Panic(d, "syntax")
    ELSE [d EXCEPT !.off = @ + n, !.val = SubSeq(d.data, d.off + 1, d.off + n)]
Item(d) == ItemOf(d, nextValue(SubSeq(d.data, d.off + 1, Len(d.data))))

\* next, after d.off--: d.scan has seen the opening bracket and is given the
\* closing one.
next(d) ==
    [Item([d EXCEPT !.off = @ - 1]) EXCEPT
       !.scan = step(@, IF d.data[d.off] = "{" THEN "}" ELSE "]")]

\* An object that ends in a key is given a value and is closed.
FinishObject(s) ==
    IF s.parseState # <<>> /\ Top(s) = "parseObjectKey"
    THEN Feed(s, <<":", "\"", "\"", "}">>) ELSE s

\* Mutant: a byte that was taken back is not forgotten.
skipNoRewind(d) ==
    [Item(d) EXCEPT !.scan = FinishObject(Feed(@, <<"\"", "\"">>))]

\* value(reflect.Value{}): d.scan is given an empty string for the value.
skip(d) ==
    [Item(d) EXCEPT !.scan = FinishObject(Feed(
       IF d.scan.redo THEN [@ EXCEPT !.redo = FALSE, !.step = "stateBeginValue"] ELSE @,
       <<"\"", "\"">>))]

\* unquoteBytes: the characters of a literal, or Nil.  A character that an
\* escape stands for is named; no class of bytes makes a surrogate.
Escaped == ("b" :> "BS") @@ ("f" :> "FF") @@ ("n" :> "LF") @@ ("r" :> "CR") @@ ("t" :> "HT")
RECURSIVE Unescape(_)
Unescape(s) ==
    IF s = <<>> THEN <<>>
    ELSE IF s[1] # "\\" THEN <<s[1]>> \o Unescape(Tail(s))
    ELSE IF s[2] = "u"
    THEN <<"U+" \o s[3] \o s[4] \o s[5] \o s[6]>> \o Unescape(SubSeq(s, 7, Len(s)))
    ELSE <<IF s[2] \in DOMAIN Escaped THEN Escaped[s[2]] ELSE s[2]>>
         \o Unescape(SubSeq(s, 3, Len(s)))
unquote(item) ==
    IF Len(item) < 2 \/ item[1] # "\"" \/ item[Len(item)] # "\"" THEN Nil
    ELSE <<"string", Unescape(SubSeq(item, 2, Len(item) - 1))>>

---------------------------------------------------------------------------
\* literalStore.  A number stops the decoding of a type that takes none.
literalStore(d, item, T, old) ==
    LET store(v) == [d EXCEPT !.val = v]
        refuse == saveError(store(old))
    IN  CASE T.kind = "raw" -> [store(<<"raw", item>>) EXCEPT !.raws = @ \cup {item}]
          [] T.kind # "raw" /\ item[1] = "n" ->
               store(IF T.kind \in {"any", "map", "slice", "ptr"} THEN Nil ELSE old)
          [] T.kind # "raw" /\ item[1] \in {"t", "f"} ->
               IF T.kind = "any" THEN store(<<"bool", item[1] = "t">>) ELSE refuse
          [] T.kind # "raw" /\ item[1] = "\"" ->
               IF unquote(item) = Nil THEN Panic(d, "errPhase")
               ELSE IF T.kind = "any" THEN store(unquote(item)) ELSE refuse
          [] T.kind # "raw" /\ item[1] \in {"-", "0", "1"} ->
               IF T.kind \in {"any", "number"} THEN store(<<"number", item>>)
               ELSE Panic(d, "type")
          [] OTHER -> Panic(d, "errPhase")

\* Mutant: the byte after the literal is not taken off it.
storedLong(d, i, T, old) ==
    IF d.panic # "no" THEN d
    ELSE literalStore(d, SubSeq(d.data, i, IF d.off < Len(d.data) THEN d.off + 1 ELSE d.off), T, old)

\* The literal that begins at byte i and ends at off.
stored(d, i, T, old) ==
    IF d.panic # "no" THEN d ELSE literalStore(d, SubSeq(d.data, i, d.off), T, old)

\* literal, literalInterface: the first byte has been read.
literal(d, T, old) == stored(Back(scanWhile(d, "scanContinue")), d.off, T, old)

\* Composite values for an Unmarshaler, or for a type that takes none.
Given(d) == [d EXCEPT !.val = <<"raw", @>>, !.raws = @ \cup {d.val}]

\* Mutant: a composite value that does not fit clears what was there.
passedOverClears(d, T, old) ==
    IF T.kind = "raw" THEN Given(next(d)) ELSE [saveError(next(d)) EXCEPT !.val = Nil]

passedOver(d, T, old) ==
    IF T.kind = "raw" THEN Given(next(d)) ELSE [saveError(next(d)) EXCEPT !.val = old]

\* The field of a key: an exact match, or else one that differs in case.
FieldOf(T, key) ==
    IF key \in DOMAIN T.fields THEN {key} ELSE {k \in DOMAIN T.fields : foldFunc(k, key)}

Contents(old, none) == IF old = Nil THEN none ELSE old[2]
NoMembers == [k \in {} |-> Nil]

AnySlice == [kind |-> "slice", elem |-> Interface]
AnyMap == [kind |-> "map", elem |-> Interface]

\* A fixed array that got fewer elements is filled with zeros.
Filled(T, vals) ==
    IF T.kind = "slice" THEN vals
    ELSE [i \in 1..T.len |-> IF i <= Len(vals) THEN vals[i] ELSE Zero(T.elem)]

\* indirect: what a pointer points to, allocated when it is nil.  A literal
\* null is for the pointer itself.
Pointee(T, old) == IF old = Nil THEN Zero(T.elem) ELSE old[2]
Null(d) == Op(d) = "scanBeginLiteral" /\ d.data[d.off] = "n"

RECURSIVE value(_, _, _), valueAt(_, _, _), elements(_, _, _, _), members(_, _, _)

valueAt(d, T, old) ==
    CASE T.kind = "ptr" /\ ~Null(d) -> [valueAt(d, T.elem, Pointee(T, old)) EXCEPT !.val = <<"ptr", @>>]
      [] Op(d) = "scanBeginArray" /\ T.kind \in {"any", "slice", "array"} ->
           elements(d, IF T.kind = "any" THEN AnySlice ELSE T,
                    IF T.kind = "any" THEN <<>> ELSE Contents(old, <<>>), <<>>)
      [] Op(d) = "scanBeginObject" /\ T.kind \in {"any", "map", "struct"} ->
           members(d, IF T.kind = "any" THEN AnyMap ELSE T,
                   IF T.kind = "any" THEN NoMembers ELSE Contents(old, NoMembers))
      [] Op(d) = "scanBeginArray" /\ T.kind \notin {"any", "slice", "array", "ptr"} -> passedOver(d, T, old)
      [] Op(d) = "scanBeginObject" /\ T.kind \notin {"any", "map", "struct", "ptr"} -> passedOver(d, T, old)
      [] Op(d) = "scanBeginLiteral" /\ (T.kind = "ptr" => Null(d)) -> literal(d, T, old)
      [] OTHER -> Panic(d, "errPhase")
value(d, T, old) ==
    IF T.kind = "skip" THEN skip(d) ELSE valueAt(scanWhile(d, "scanSkipSpace"), T, old)

\* array, arrayInterface: olds are the elements v had, vals those it got.  A
\* fixed array that is full skips the rest.
elementEnd(d, T, olds, vals) ==
    CASE Op(d) = "scanEndArray" -> [d EXCEPT !.val = <<"array", Filled(T, vals)>>]
      [] Op(d) = "scanArrayValue" -> elements(d, T, olds, vals)
      [] OTHER -> Panic(d, "errPhase")
elementDone(d, T, olds, vals) ==
    IF d.panic # "no" THEN d
    ELSE elementEnd(scanWhile(d, "scanSkipSpace"), T, olds,
                    IF T.kind = "array" /\ Len(vals) = T.len THEN vals ELSE Append(vals, d.val))
element(d, T, olds, vals) ==
    LET i == Len(vals) + 1 IN
    IF d.panic # "no" THEN d
    ELSE elementDone(value(d, IF T.kind = "array" /\ i > T.len THEN Skipped ELSE T.elem,
                           IF i <= Len(olds) THEN olds[i] ELSE Zero(T.elem)), T, olds, vals)
elementOrEnd(d, T, olds, vals) ==
    IF Op(d) = "scanEndArray" THEN [d EXCEPT !.val = <<"array", Filled(T, vals)>>]
    ELSE element(Back(d), T, olds, vals)
elements(d, T, olds, vals) == elementOrEnd(scanWhile(d, "scanSkipSpace"), T, olds, vals)

\* object, objectInterface: m are the members v has.
memberEnd(d, T, m) ==
    CASE Op(d) = "scanEndObject" -> [d EXCEPT !.val = <<"object", m>>]
      [] Op(d) = "scanObjectValue" -> members(d, T, m)
      [] OTHER -> Panic(d, "errPhase")
memberDone(d, T, m, fields) ==
    IF d.panic # "no" THEN d
    ELSE memberEnd(scanWhile(d, "scanSkipSpace"), T, [k \in fields |-> d.val] @@ m)
memberValue(d, T, m, key) ==
    LET fields == IF T.kind = "map" THEN {key} ELSE FieldOf(T, key)
        field == CHOOSE k \in fields : TRUE
    IN  CASE Op(d) # "scanObjectKey" -> Panic(d, "errPhase")
          [] Op(d) = "scanObjectKey" /\ fields = {} -> memberDone(value(d, Skipped, Nil), T, m, {})
          [] OTHER ->
               LET elem == IF T.kind = "map" THEN T.elem ELSE T.fields[field] IN
               memberDone(value(d, elem, IF T.kind = "map" THEN Zero(elem) ELSE m[field]),
                          T, m, {field})
memberKey(d, T, m, string) ==
    IF string = Nil THEN Panic(d, "errPhase")
    ELSE memberValue(IF Op(d) = "scanSkipSpace" THEN scanWhile(d, "scanSkipSpace") ELSE d,
                     T, m, string[2])
memberOrEnd(d, T, m) ==
    LET key(e) == memberKey(e, T, m, unquote(SubSeq(e.data, d.off, e.off - 1))) IN
    CASE Op(d) = "scanEndObject" -> [d EXCEPT !.val = <<"object", m>>]
      [] Op(d) = "scanBeginLiteral" -> key(scanWhile(d, "scanContinue"))
      [] OTHER -> Panic(d, "errPhase")
members(d, T, m) == memberOrEnd(scanWhile(d, "scanSkipSpace"), T, m)

\* Unmarshal of a text that passes checkValid.
Unmarshal(text, T) == value(Decoded(text), T, Zero(T))

=============================================================================
