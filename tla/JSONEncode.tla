---------------------------- MODULE JSONEncode ----------------------------
(***************************************************************************)
(* What Marshal writes for a Go value (status/json_private/encode.go).     *)
(* Struct fields and map keys are written with their type behind the name, *)
(* as in "Id(int)"; this copy of the library adds it for the request log.  *)
(*                                                                         *)
(* A type is its name, and Decl[T] its declaration, a record: kind, one of  *)
(* "bool", "int", "float", "string", "byte", "any", "chan", "ptr", "slice", *)
(* "array", "map" and "struct"; elem, key or fields, as the kind needs; and *)
(* json and text, who has the methods MarshalJSON and MarshalText: "no",    *)
(* "value" or "pointer" (only a pointer has them).  The zero reflect.Value  *)
(* has the type "invalid".  A field has name, tag (cut at its commas),      *)
(* type, anonymous and exported.                                            *)
(*                                                                         *)
(* A value is <<"bool", b>>; <<"number", text>>, Nothing for a float that  *)
(* is not finite; <<"string", characters>>; <<"bytes", base64>>;           *)
(* <<"ptr", v>>; <<"iface", T, v>>; <<"array", seq>>; <<"map", function    *)
(* from the text of a key>>, Nothing being the key whose text fails;       *)
(* <<"struct", seq>>; <<"own", text, v>>, where text is what the method    *)
(* returns, Nothing when it fails; or Nil.  Formatting, base64 and reflect *)
(* are external, and embedded types have no methods.                       *)
(***************************************************************************)
EXTENDS JSONIndent, JSONDecode, FiniteSets, TLC

CONSTANT Decl

Kind(T) == Decl[T].kind

\* Does T have the method m?
Implements(T, m) == Decl[T][m] = "value" \/ (Kind(T) = "ptr" /\ Decl[Decl[T].elem][m] # "no")
PointerImplements(T, m) == Decl[T][m] # "no"

---------------------------------------------------------------------------
(* The fields of a struct: typeFields.                                     *)

isValidTag(s) ==
    s # <<>> /\ Range(s) \cap {"\"", "\\", "^", "BS", "FF", "LF", "CR", "HT", "BAD", "LS", "PS"} = {}

Before(a, b) ==
    \E k \in 0..Len(a) :
       /\ k < Len(b) /\ SubSeq(a, 1, k) = SubSeq(b, 1, k)
       /\ k = Len(a) \/ a[k + 1] < b[k + 1]
byIndex(f, g) == Before(f.index, g.index)

\* An unnamed pointer is followed.
Followed(T) == IF Kind(T) = "ptr" THEN Decl[T].elem ELSE T
CanQuote == {"bool", "int", "float", "string"}

\* Field i of the struct f; it is embedded when it is to be explored itself.
fieldOf(f, i) ==
    LET sf == Decl[f.typ].fields[i]
        ft == Followed(sf.type)
        tag == isValidTag(sf.tag[1])
        opts == Range(Tail(sf.tag))
    IN  [name |-> IF tag THEN sf.tag[1] ELSE sf.name, tag |-> tag, index |-> Append(f.index, i),
         typ |-> ft, omitEmpty |-> "omitempty" \in opts,
         quoted |-> "string" \in opts /\ Kind(ft) \in CanQuote,
         embedded |-> ~tag /\ sf.anonymous /\ Kind(ft) = "struct"]
fieldsOf(f) ==
    LET all == Decl[f.typ].fields
        considered(i) == (all[i].exported \/ all[i].anonymous) /\ all[i].tag # <<<<"-">>>>
        is == SelectSeq([i \in DOMAIN all |-> i], considered)
    IN  [j \in DOMAIN is |-> fieldOf(f, is[j])]

\* Fields of a struct that is embedded twice in this level are found twice.
level(fs, current) ==
    LET twice(f) == Cardinality({j \in DOMAIN current : current[j].typ = f}) > 1 IN
    FlattenSeq([j \in DOMAIN fs |-> IF twice(fs[j].of) THEN <<fs[j], fs[j]>> ELSE <<fs[j]>>])

\* The breadth-first search: current has the embedded structs of a level,
\* each as often as it occurs; of each type the first is scanned.
RECURSIVE levels(_, _, _)
levels(current, visited, fields) ==
    LET first(j) == \A k \in 1..j - 1 : current[k].typ # current[j].typ
        scanned == SelectSeq([j \in DOMAIN current |-> j],
                             LAMBDA j : current[j].typ \notin visited /\ first(j))
        found == FlattenSeq([k \in DOMAIN scanned |->
                               LET f == current[scanned[k]] IN
                               [i \in DOMAIN fieldsOf(f) |-> fieldsOf(f)[i] @@ [of |-> f.typ]]])
        isEmbedded(f) == f.embedded
        isFound(f) == ~f.embedded
    IN  IF current = <<>> THEN fields
        ELSE levels(SelectSeq(found, isEmbedded), visited \cup {f.typ : f \in Range(current)},
                    fields \o level(SelectSeq(found, isFound), current))

\* Mutant: a tag does not make a field win over untagged ones of its depth.
dominantUntagged(fs) ==
    LET short == SelectSeq(fs, LAMBDA f : \A g \in Range(fs) : Len(f.index) <= Len(g.index)) IN
    IF Len(short) > 1 THEN <<>> ELSE short

\* The one of the fields of a name that hides the others, if there is one.
dominantField(fs) ==
    LET short == SelectSeq(fs, LAMBDA f : \A g \in Range(fs) : Len(f.index) <= Len(g.index))
        tagged == SelectSeq(short, LAMBDA f : f.tag)
        best == IF tagged # <<>> THEN tagged ELSE short
    IN  IF Len(best) > 1 THEN <<>> ELSE best

typeFields(T) ==
    LET fields == levels(<<[typ |-> T, index |-> <<>>]>>, {}, <<>>)
        named(n) == SelectSeq(fields, LAMBDA f : f.name = n)
    IN  SetToSortSeq(UNION {Range(dominantField(named(f.name))) : f \in Range(fields)}, byIndex)

\* The fields of each struct, as fieldCache keeps them.
fieldsOfType == [T \in {T \in DOMAIN Decl : Kind(T) = "struct"} |-> typeFields(T)]

typeByIndex(T, index) == FoldLeft(LAMBDA U, i : Decl[Followed(U)].fields[i].type, T, index)

\* newTypeEncoder: the types whose encoders the one of T calls.
elemTypes(T) ==
    IF Implements(T, "json") \/ Implements(T, "text") THEN <<>>
    ELSE LET U == Decl[T] IN
         CASE U.kind = "struct" -> [i \in DOMAIN fieldsOfType[T] |-> typeByIndex(T, fieldsOfType[T][i].index)]
           [] U.kind = "map" ->
                IF Kind(U.key) \in {"string", "int"} \/ Implements(U.key, "text") THEN <<U.elem>> ELSE <<>>
           [] U.kind = "slice" -> IF Kind(U.elem) = "byte" THEN <<>> ELSE <<U.elem>>
           [] U.kind \in {"array", "ptr"} -> <<U.elem>>
           [] OTHER -> <<>>

---------------------------------------------------------------------------
(* Strings and numbers.                                                    *)

\* A character in a string, and whether it needs HTML's escapes.
EscapedByte(c, escapeHTML) ==
    CASE c \in {"\"", "\\"} -> <<"\\", c>>
      [] c = "LF" -> <<"\\", "n">>
      [] c = "CR" -> <<"\\", "r">>
      [] c = "HT" -> <<"\\", "t">>
      [] c \in {"^", "BS", "FF", "BAD"} -> Unicode(c)
      [] OTHER -> EscapedHTML(c, escapeHTML)

\* encodeState.string and stringBytes.
string(s, escapeHTML) ==
    <<"\"">> \o FlattenSeq([i \in DOMAIN s |-> EscapedByte(s[i], escapeHTML)]) \o <<"\"">>

RECURSIVE AfterDigits(_)
AfterDigits(s) == IF s # <<>> /\ s[1] \in Digits THEN AfterDigits(Tail(s)) ELSE s

isValidNumber(s) ==
    LET from(t, i) == SubSeq(t, i, Len(t))
        unsigned == IF s # <<>> /\ s[1] = "-" THEN Tail(s) ELSE s
        int == IF unsigned[1] = "0" THEN Tail(unsigned) ELSE AfterDigits(unsigned)
        frac == IF Len(int) >= 2 /\ int[1] = "." /\ int[2] \in Digits THEN AfterDigits(from(int, 3)) ELSE int
        signed == frac[2] \in {"+", "-"}
        exp == from(frac, IF signed THEN 3 ELSE 2)
    IN  /\ unsigned # <<>> /\ unsigned[1] \in Digits
        /\ IF Len(frac) >= 2 /\ frac[1] \in {"e", "E"}
           THEN (signed => exp # <<>>) /\ AfterDigits(exp) = <<>>
           ELSE frac = <<>>

---------------------------------------------------------------------------
(* The encoders.  A running call is a record: todo, what is left of the    *)
(* encoders' work, bufs, the buffers of the call and of those it makes, or *)
(* failed.  One piece of work writes bytes, calls an encoder, asks         *)
(* valueEncoder for one first, or begins and ends a Marshal of its own.    *)

Write(bytes) == [do |-> "write", bytes |-> bytes]
Call(enc, v, quoted, addr) ==
    [do |-> "call", enc |-> enc, v |-> v, quoted |-> quoted, addr |-> addr]
null == <<"n", "u", "l", "l">>
reflectValue(T, v, quoted) ==
    IF T = "invalid" THEN Write(null)
    ELSE [do |-> "typeEncoder", type |-> T, v |-> v, quoted |-> quoted]
MarshalCall(T, v) == <<[do |-> "begin"], reflectValue(T, v, FALSE), [do |-> "end"]>>
Fail == [do |-> "fail"]

Quoted(text, quoted) == <<Write(IF quoted THEN <<"\"">> \o text \o <<"\"">> ELSE text)>>

\* What the method of v, or of the value v points to, returns, and v without.
Own(v) == IF v[1] = "ptr" THEN v[2][2] ELSE v[2]
Plain(v) == IF v[1] = "own" THEN v[3] ELSE v

isEmptyValue(T, v) ==
    CASE Kind(T) \in {"map", "slice", "array", "string"} -> v = Nil \/ DOMAIN v[2] = {}
      [] Kind(T) = "bool" -> ~v[2]
      [] Kind(T) \in {"int", "float", "byte"} -> v[2] \in {<<"0">>, <<"-", "0">>}
      [] Kind(T) \in {"any", "ptr"} -> v = Nil
      [] OTHER -> FALSE

\* The value at an index, and whether it is addressable; Nil when a pointer
\* on the way to it is.
fieldByIndex(v, addr, index) ==
    LET into(a) == IF a[1][1] = "ptr" THEN <<Plain(a[1][2]), TRUE>> ELSE a
        at(a, i) == IF a = Nil \/ a[1] = Nil THEN Nil
                    ELSE <<into(a)[1][2][i], into(a)[2]>>
    IN  FoldLeft(at, <<v, addr>>, index)

Separated(parts) ==
    LET written == SelectSeq(parts, LAMBDA w : w # <<>>) IN
    FlattenSeq([i \in DOMAIN written |-> (IF i = 1 THEN <<>> ELSE <<Write(<<",">>)>>) \o written[i]])
Key(name, T, escape) == Write(string(name \o <<"(", T, ")">>, escape) \o <<":">>)

structEncoder(T, encs, v, addr, escape) ==
    LET fields == fieldsOfType[T]
        member(i) ==
            LET f == fields[i]
                ft == typeByIndex(T, f.index)
                fv == fieldByIndex(v, addr, f.index)
            IN  IF fv = Nil THEN <<>>
                ELSE IF f.omitEmpty /\ isEmptyValue(ft, Plain(fv[1])) THEN <<>>
                ELSE <<Key(f.name, ft, escape), Call(encs[i], fv[1], f.quoted, fv[2])>>
    IN  <<Write(<<"{">>)>> \o Separated([i \in DOMAIN fields |-> member(i)]) \o <<Write(<<"}">>)>>

\* The bytes of the keys are ordered as ByteOrder has them.
ByteOrder == <<"\"", "(", ")", ",", "-", "0", "1", "<", "E", "\\", "e", "x", "LS">>
mapEncoder(T, enc, m, quoted, escape) ==
    LET rank(k) == [i \in DOMAIN k |-> CHOOSE n \in DOMAIN ByteOrder : ByteOrder[n] = k[i]]
        keys == SetToSortSeq(DOMAIN m, LAMBDA j, k : Before(rank(j), rank(k)))
    IN  IF Nothing \in DOMAIN m THEN <<Fail>>
        ELSE <<Write(<<"{">>)>>
             \o Separated([i \in DOMAIN keys |-> <<Key(keys[i], T.key, escape),
                                                 Call(enc, m[keys[i]], quoted, FALSE)>>])
             \o <<Write(<<"}">>)>>

arrayEncoder(enc, vs, quoted, addr) ==
    <<Write(<<"[">>)>> \o Separated([i \in DOMAIN vs |-> <<Call(enc, vs[i], quoted, addr)>>])
    \o <<Write(<<"]">>)>>

\* Which encoder newTypeEncoder chose, for a value that is addressable or not.
Chosen(T, addr) ==
    LET has(m) == Implements(T, m) \/ (addr /\ PointerImplements(T, m)) IN
    CASE has("json") -> "marshaler"
      [] has("text") /\ ~has("json") -> "textMarshaler"
      [] OTHER -> Kind(T)

\* What the encoder of T, made of encs, leaves to do for v.
encode(T, encs, v, quoted, addr, escape) ==
    LET U == Decl[T]
        w == Plain(v)
        kind == Chosen(T, addr)
        isNil(work) == IF w = Nil THEN <<Write(null)>> ELSE work
    IN  CASE kind = "marshaler" ->
               \* addrMarshalerEncoder escapes whatever it is told.
               LET text == compact(Own(v), escape \/ ~Implements(T, "json")) IN
               IF v = Nil THEN <<Write(null)>>
               ELSE IF Own(v) = Nothing THEN <<Fail>>
               ELSE IF text = Nothing THEN <<Fail>> ELSE <<Write(text)>>
          [] kind = "textMarshaler" ->
               IF v = Nil THEN <<Write(null)>>
               ELSE IF Own(v) = Nothing THEN <<Fail>> ELSE <<Write(string(Own(v), escape))>>
          [] kind = "bool" ->
               Quoted(IF w[2] THEN <<"t", "r", "u", "e">> ELSE <<"f", "a", "l", "s", "e">>, quoted)
          [] kind \in {"int", "byte"} -> Quoted(w[2], quoted)
          [] kind = "float" -> IF w[2] = Nothing THEN <<Fail>> ELSE Quoted(w[2], quoted)
          [] kind = "string" /\ T = "Number" ->
               IF w[2] = <<>> THEN <<Write(<<"0">>)>>
               ELSE IF isValidNumber(w[2]) THEN <<Write(w[2])>> ELSE <<Fail>>
          [] kind = "string" /\ T # "Number" ->
               IF quoted THEN MarshalCall("string", w) ELSE <<Write(string(w[2], escape))>>
          [] kind = "any" -> isNil(<<reflectValue(w[2], w[3], quoted)>>)
          [] kind = "struct" -> structEncoder(T, encs, w, addr, escape)
          [] kind = "map" ->
               IF encs = <<>> THEN <<Fail>>
               ELSE isNil(mapEncoder(U, encs[1], w[2], quoted, escape))
          [] kind = "slice" ->
               isNil(IF Kind(U.elem) = "byte" THEN <<Write(<<"\"">> \o w[2] \o <<"\"">>)>>
                     ELSE arrayEncoder(encs[1], w[2], quoted, TRUE))
          [] kind = "array" -> arrayEncoder(encs[1], w[2], quoted, addr)
          [] kind = "ptr" -> isNil(<<Call(encs[1], w[2], quoted, TRUE)>>)
          [] OTHER -> <<Fail>>
=============================================================================
