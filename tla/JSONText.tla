----------------------------- MODULE JSONText -----------------------------
(***************************************************************************)
(* What Unmarshal and a Decoder promise, for every text that               *)
(* JSONCheckValid feeds: each is compared with a definition that finds the *)
(* parts of the text by the grammar and not by the scanner, or in the      *)
(* whole text at once.                                                     *)
(***************************************************************************)
EXTENDS JSONIndentText, JSONDecode, JSONStream

CONSTANTS Targets,  \* the types that texts are decoded into
          Readings  \* how streams are read: size, the bytes that a read returns; err, the
                    \* error that ends them, which comes together with the last bytes or
                    \* after them; and asks, whether the caller asks More before Decode

---------------------------------------------------------------------------
(* What Unmarshal's comment promises, from the grammar.                    *)

Past(s, i) == Max(Space(s, {i}))
End(s, i) == Max(Value(s, {i}))

\* Where the elements, or the keys and values, from position i on begin.
RECURSIVE Items(_, _)
Items(s, i) ==
    IF s[i] \in {"]", "}"} THEN <<>>
    ELSE LET j == Past(s, End(s, i)) IN
         <<i>> \o IF s[j] \in {",", ":"} THEN Items(s, Past(s, j + 1)) ELSE <<>>

\* What the code does not do as the comment says; StoresWhatFits claims nothing
\* of texts where it would have to.  "slice": an array is stored in a slice that
\* holds something, whose length the comment sets to zero first (decode.go:52);
\* "number": a type that takes no number is given one, which the comment skips
\* (decode.go:70).
Promise(v) == [val |-> v, departs |-> {}]

\* The value that begins at i, stored in a T that holds old: item is its text,
\* items are where its parts begin.
FieldNamed(T, key) ==
    IF key \in DOMAIN T.fields THEN {key} ELSE {k \in DOMAIN T.fields : EqualFold(k, key)}
RECURSIVE Stored(_, _, _, _), StoredItem(_, _, _, _, _)
\* A slice is reset and each element appended; a fixed array's are stored over
\* those it has, the ones too many discarded and the ones missing set to zero.
StoredArray(s, items, T, olds) ==
    LET fixed == T.kind = "array"
        parts == [j \in 1..(IF fixed THEN T.len ELSE Len(items)) |->
                    IF j > Len(items) THEN Promise(Zero(T.elem))
                    ELSE Stored(s, items[j], T.elem, IF fixed THEN olds[j] ELSE Zero(T.elem))]
        held == ~fixed /\ olds # <<>> /\ items # <<>>
    IN  [val |-> <<"array", [j \in DOMAIN parts |-> parts[j].val]>>,
         departs |-> UNION {parts[j].departs : j \in DOMAIN parts} \cup IF held THEN {"slice"} ELSE {}]
StoredMembers(s, items, T, olds) ==
    LET put(m, j) ==
            LET key == Unescape(SubSeq(s, items[j] + 1, End(s, items[j]) - 2))
                fields == IF T.kind = "map" THEN {key} ELSE FieldNamed(T, key)
                in(k) == IF T.kind = "map" THEN Stored(s, items[j + 1], T.elem, Zero(T.elem))
                         ELSE Stored(s, items[j + 1], T.fields[k], m.val[k])
            IN  IF fields = {} THEN m
                ELSE LET k == CHOOSE k \in fields : TRUE IN
                     [val |-> (k :> in(k).val) @@ m.val, departs |-> m.departs \cup in(k).departs]
        all == FoldLeft(put, Promise(olds), [j \in 1..(Len(items) \div 2) |-> 2 * j - 1])
    IN  [all EXCEPT !.val = <<"object", @>>]
StoredItem(s, item, items, T, old) ==
    CASE T.kind = "ptr" ->
           IF item[1] = "n" THEN Promise(Nil)
           ELSE [StoredItem(s, item, items, T.elem, Pointee(T, old)) EXCEPT !.val = <<"ptr", @>>]
      [] T.kind = "raw" -> Promise(<<"raw", item>>)
      [] item[1] = "[" /\ T.kind \in {"any", "slice", "array"} ->
           StoredArray(s, items, IF T.kind = "any" THEN AnySlice ELSE T,
                       IF T.kind = "any" THEN <<>> ELSE Contents(old, <<>>))
      [] item[1] = "{" /\ T.kind \in {"any", "map", "struct"} ->
           StoredMembers(s, items, IF T.kind = "any" THEN AnyMap ELSE T,
                         IF T.kind = "any" THEN NoMembers ELSE Contents(old, NoMembers))
      [] item[1] = "n" /\ T.kind \in {"any", "map", "slice"} -> Promise(Nil)
      [] item[1] \in {"t", "f"} /\ T.kind = "any" -> Promise(<<"bool", item[1] = "t">>)
      [] item[1] = "\"" /\ T.kind = "any" ->
           Promise(<<"string", Unescape(SubSeq(item, 2, Len(item) - 1))>>)
      [] item[1] \in {"-", "0", "1"} /\ T.kind \notin {"ptr", "raw"} ->
           IF T.kind \in {"any", "number"} THEN Promise(<<"number", item>>)
           ELSE [val |-> old, departs |-> {"number"}]
      [] OTHER -> Promise(old)
Stored(s, i, T, old) ==
    StoredItem(s, SubSeq(s, i, End(s, i) - 1),
               IF s[i] \in {"[", "{"} THEN Items(s, Past(s, i + 1)) ELSE <<>>, T, old)
Promised(T) == Stored(input, Past(input, 1), T, Zero(T))

\* "errPhase is used for errors that should not happen unless there is a bug
\* in the JSON decoder" (decode.go:259): on a JSON text the scanner and the
\* loops of the decoder agree, whatever is skipped, cut or taken back.
InSync ==
    checkValid => \A T \in Targets : Unmarshal(input, T).panic \in {"no", "type"}

\* What Unmarshal's comment says of arrays, objects, null and of values that do
\* not fit (decode.go:24-77): every value that fits is stored in its place, and
\* one that does not, or a null, leaves there what an earlier value of the same
\* key has stored.  Texts that would need a slice to be reset, or a number to be
\* skipped, are left out: the code does neither (SliceIsReset, literalStore).
StoresWhatFits ==
    checkValid => \A T \in Targets :
        \E promise \in {Promised(T)}, d \in {Unmarshal(input, T)} :
            promise.departs = {} => d.panic = "no" /\ d.val = promise.val

\* "Unmarshal resets the slice length to zero and then appends each element to
\* the slice" (decode.go:52): nothing of what the slice held is left in it.
SliceIsReset ==
    checkValid => \A T \in Targets :
        \E promise \in {Promised(T)}, d \in {Unmarshal(input, T)} :
            promise.departs = {"slice"} => d.val = promise.val

\* "The input can be assumed to be a valid encoding of a JSON value"
\* (decode.go:102): so UnmarshalJSON is given whole values.
UnmarshalerGetsJSON ==
    checkValid => \A T \in Targets :
        \A item \in Unmarshal(input, T).raws : IsJSON(item) /\ item[1] # " "

---------------------------------------------------------------------------
(* Decode of a stream.                                                     *)

\* The reads that make up s.
Reads(s, r) ==
    LET count == (Len(s) + r.size - 1) \div r.size
        end(k) == IF k * r.size > Len(s) THEN Len(s) ELSE k * r.size
        parts == [k \in 1..count |->
                    [bytes |-> SubSeq(s, (k - 1) * r.size + 1, end(k)),
                     err |-> IF r.together /\ k = count THEN r.err ELSE "nil"]]
    IN  IF r.together /\ count > 0 THEN parts ELSE Append(parts, [bytes |-> <<>>, err |-> r.err])

\* Decode again and again until it fails or, if the caller asks it before,
\* until More says no: what was decoded, each with the reads made so far.
RECURSIVE Decodes(_, _, _)
DecodesOne(dec, asks, got) ==
    IF dec.err = "nil" THEN Decodes(dec, asks, Append(got, <<dec.item, dec.count>>))
    ELSE [got |-> got, err |-> dec.err]
DecodesNext(dec, asks, got) ==
    IF asks /\ ~More(dec) THEN [got |-> got, err |-> "nil"] ELSE DecodesOne(Decode(dec), asks, got)
Decodes(dec, asks, got) == DecodesNext(IF asks THEN peek(dec) ELSE dec, asks, got)

\* Where the values in s end, from position i on, as nextValue cuts the whole
\* text.  A scalar at the end is not known to be whole when a read failed.
RECURSIVE Ends(_, _, _)
EndsFrom(s, j, i, err) ==
    IF j < i \/ (j = Len(s) /\ s[j] \notin {"]", "}"} /\ err # "EOF") THEN <<>>
    ELSE <<j>> \o Ends(s, j + 1, err)
Ends(s, i, err) ==
    EndsFrom(s, i + nextValue(SubSeq(s, i, Len(s))) - 1, i, err)

\* A Decoder finds the values of its stream whatever reads they come in, and
\* reads no further than to the byte that completes the value, "We might
\* block trying to get that byte from src" (stream.go:98): that is the last
\* byte of an object or array and the one behind a scalar.  Then it says
\* what is wrong with the rest: nothing is left, it stops in the middle of a
\* value, or it is no JSON.
AsItComes(r, ends, d) ==
    LET begin(k) == Past(input, IF k = 1 THEN 1 ELSE ends[k - 1] + 1)
        rest == SubSeq(input, begin(Len(ends) + 1), Len(input))
        needed(k) == IF input[ends[k]] \in {"]", "}"} THEN ends[k] ELSE ends[k] + 1
        first(item) == Past(item, 1)
    IN  /\ Len(d.got) = Len(ends)
        /\ \A k \in DOMAIN ends :
             /\ \E item \in {d.got[k][1]} : SubSeq(item, first(item), Len(item)) = SubSeq(input, begin(k), ends[k])
             /\ (d.got[k][2] - 1) * r.size < needed(k) \/ needed(k) > Len(input)
        /\ d.err = CASE r.asks /\ (rest = <<>> \/ rest[1] \in {"]", "}"}) -> "nil"
                     [] Feed(reset, rest).op = "scanError" -> "SyntaxError"
                     [] rest = <<>> \/ r.err # "EOF" -> r.err
                     [] OTHER -> "ErrUnexpectedEOF"
DecodesAsItComes ==
    \A r \in Readings :
        \E ends \in {Ends(input, 1, r.err)}, d \in {Decodes(NewDecoder(Reads(input, r)), r.asks, <<>>)} :
            AsItComes(r, ends, d)
=============================================================================
