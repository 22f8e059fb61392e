---------------------------- MODULE JSONMarshal ----------------------------
(***************************************************************************)
(* Goroutines that call Marshal, and Encode of an Encoder, at the same     *)
(* time (status/json_private/encode.go, stream.go): what JSONEncode says   *)
(* the encoders do, with the encoders that EncoderCache gives out.         *)
(*                                                                         *)
(* Between two uses of the cache a goroutine works on its own buffers      *)
(* only, and takes these steps as one.  It stops where it calls            *)
(* typeEncoder, or calls an encoder that waits for one not yet built.      *)
(***************************************************************************)
EXTENDS EncoderCache, JSONEncode, JSONGrammar

CONSTANT Programs \* sets of calls, each a function from the goroutines that make one to
                  \* a record: type and v, what is marshaled, and escapeHTML

ASSUME ElemsAssumption == Elems = [T \in Type |-> elemTypes(T)]

VARIABLES program,
          todo,   \* todo[p]: what is left to do of p's call
          bufs,   \* bufs[p]: the buffers of the call and of those it makes, innermost last
          failed  \* failed[p]: the call panicked with an error, which marshal recovers

vars == <<cacheVars, program, todo, bufs, failed>>

Callers == DOMAIN program
Escape(p, b) == Len(b) > 1 \/ program[p].escapeHTML

Init ==
    /\ CacheInit
    /\ program \in Programs
    /\ todo = [p \in Callers |-> MarshalCall(program[p].type, program[p].v)]
    /\ bufs = [p \in Callers |-> <<>>]
    /\ failed = [p \in Callers |-> FALSE]

Ready(e) == ~e.waits \/ <<e.by, e.type>> \in built

\* One piece of work, on t to do with buffers b.
Put(b, bytes) == [b EXCEPT ![Len(b)] = @ \o bytes]
Work(p, t, b) ==
    LET w == t[1] rest == Tail(t) IN
    CASE w.do = "write" -> <<rest, Put(b, w.bytes)>>
      [] w.do = "begin" -> <<rest, Append(b, <<>>)>>
      \* The inner Marshal's bytes are written as a string.
      [] w.do = "end" /\ Len(b) > 1 ->
           <<rest, Put(Front(b), string(Last(b), Escape(p, Front(b))))>>
      [] w.do = "call" ->
           <<encode(w.enc.type, elemEncs[w.enc.by, w.enc.type], w.v, w.quoted, w.addr, Escape(p, b)) \o rest, b>>

\* Work until the cache is needed, or nothing can or need be done.
Stops(t, b) ==
    \/ t[1].do \in {"typeEncoder", "fail"}
    \/ (t[1].do = "end" /\ Len(b) = 1)
    \/ (t[1].do = "call" /\ ~Ready(t[1].enc))
RECURSIVE Working(_, _, _)
Working(p, t, b) ==
    IF Stops(t, b) THEN <<t, b>>
    ELSE LET w == Work(p, t, b) IN Working(p, w[1], w[2])

\* The call goes on: with the encoder it was waiting for, or the one that it
\* asked typeEncoder for.
Encode(p) ==
    LET t == todo[p]
        now == IF got[p] = <<>> THEN t
               ELSE <<Call(got[p][1], t[1].v, t[1].quoted, FALSE)>> \o Tail(t)
    IN  /\ t # <<>> /\ (got[p] # <<>> \/ ~Stops(t, bufs[p]))
        /\ \E w \in {Working(p, now, bufs[p])} :
             LET stop == w[1][1] IN
             /\ Use(p, IF stop.do = "typeEncoder" THEN <<stop.type>> ELSE <<>>)
             /\ todo' = [todo EXCEPT ![p] = IF stop.do \in {"fail", "end"} THEN <<>> ELSE w[1]]
             /\ bufs' = [bufs EXCEPT ![p] = w[2]]
             /\ failed' = [failed EXCEPT ![p] = stop.do = "fail"]
        /\ UNCHANGED program

Step(p) == Encode(p) \/ (typeEncoder(p) /\ UNCHANGED <<program, todo, bufs, failed>>)

Next == \E p \in Callers : Step(p)

\* Can p go on?  It cannot where it waits for an encoder, or has returned.
Runnable(p) ==
    todo[p] # <<>> /\ (building[p] # <<>> \/ want[p] # <<>> \/ got[p] # <<>> \/ ~Stops(todo[p], bufs[p]))

\* Where p is in its call; only a step of p changes it.
Place(p) == <<building[p], want[p], got[p], todo[p]>>

\* A goroutine that can run does: this is WF_vars(Step(p)), without an ENABLED
\* that evaluates whole calls.
Fair(p) == []<>~(p \in Callers /\ Runnable(p)) \/ []<><<p \in Callers /\ Place(p)' # Place(p)>>_vars

Spec == Init /\ [][Next]_vars /\ \A p \in Proc : Fair(p)

---------------------------------------------------------------------------
(* What Marshal's comment says (encode.go:31-134), from the declarations   *)
(* and the value alone: the document that a value stands for.              *)

\* A document is what Unmarshal reads, but for <<"json", doc>>, a string that
\* holds the JSON of doc, and <<"members", function from names to documents>>.
\* It is Nothing where Marshal has to fail.  departs names what the code does
\* not do as the comment says; ReadsBack claims nothing of the document then.
\*   "Number": the option ",string" is not applied to a Number (encode.go:538).
\*   "RawMessage": stream.go:245 says that it is its own encoding, but only a
\*     pointer has the method, and one that is not addressable becomes base64.
\*   "embedded": where a struct that embeds another is itself embedded twice in
\*     one level, fields of the inner one remain that hide each other by Go's
\*     rules (encode.go:1147).
Promise(doc) == [doc |-> doc, departs |-> {}]
Departs(why) == [doc |-> Nothing, departs |-> {why}]
Whole(name, parts) ==
    [doc |-> IF \E k \in DOMAIN parts : parts[k].doc = Nothing THEN Nothing
             ELSE <<name, [k \in DOMAIN parts |-> parts[k].doc]>>,
     departs |-> UNION {parts[k].departs : k \in DOMAIN parts}]

\* May the method be called on a value of T?  On one that has an address,
\* also a method of its pointer.
Callable(T, addr, method) ==
    CASE Kind(T) = "ptr" -> Decl[Decl[T].elem][method] # "no"
      [] OTHER -> Decl[T][method] \in IF addr THEN {"value", "pointer"} ELSE {"value"}

\* "false, 0, any nil pointer or interface value, and any array, slice, map, or
\* string of length zero".
Empty(v) ==
    \/ v \in {Nil, <<"bool", FALSE>>, <<"number", <<"0">>>>, <<"number", <<"-", "0">>>>}
    \/ v[1] \in {"array", "bytes", "map", "string"} /\ DOMAIN v[2] = {}

\* The characters of the declared tags that may stand in a key.
KeyChars == {"e", "f", "x", "-", "<"}

\* What Go promotes to the first struct type of via from the last, at which path
\* leads: the fields, each with its value and whether that has an address, or
\* without where a pointer on the way is nil.
RECURSIVE Promoted(_, _, _)
Promoted(via, path, at) ==
    LET fields == Decl[Last(via)].fields
        pointed(f) == IF Kind(f.type) = "ptr" THEN Decl[f.type].elem ELSE f.type
        tagged(f) == f.tag[1] # <<>> /\ Range(f.tag[1]) \subseteq KeyChars
        option(f, name) == \E k \in 2..Len(f.tag) : f.tag[k] = name
        held(i) == {<<a[1][2][i], a[2]>> : a \in at}
        inside(i) == {IF a[1][1] = "ptr" THEN <<a[1][2], TRUE>> ELSE a : a \in {a \in held(i) : a[1] # Nil}}
        promoted(f, i) ==
            IF f.anonymous /\ ~tagged(f) /\ Kind(pointed(f)) = "struct"
            THEN IF pointed(f) \in Range(via) THEN {}
                 ELSE Promoted(Append(via, pointed(f)), Append(path, i), inside(i))
            ELSE IF ~f.exported THEN {}
            ELSE {[name |-> IF tagged(f) THEN f.tag[1] ELSE f.name, tagged |-> tagged(f),
                   path |-> Append(path, i), via |-> via, type |-> f.type, at |-> held(i),
                   omitEmpty |-> option(f, "omitempty"),
                   string |-> option(f, "string")
                              /\ Kind(pointed(f)) \in {"string", "float", "int", "bool"}]}
    IN  UNION {promoted(fields[i], i) : i \in {i \in DOMAIN fields : fields[i].tag # <<<<"-">>>>}}

\* "Of those fields, if any are JSON-tagged, only tagged fields are considered"
\* (encode.go:102): of the least nested ones of a name.
Visible(all) ==
    LET nearest(f) == {g \in all : g.name = f.name /\ \A h \in all : h.name = f.name => Len(g.path) <= Len(h.path)}
        considered(f) == IF \E g \in nearest(f) : g.tagged THEN {g \in nearest(f) : g.tagged} ELSE nearest(f)
    IN  {f \in all : considered(f) = {f}}
EmbeddedTwice(all) ==
    \E f, g \in all :
        /\ f.path # g.path /\ Len(f.via) = Len(g.via) /\ Len(f.via) > 2
        /\ Last(f.via) = Last(g.via) /\ Last(Front(f.via)) = Last(Front(g.via))
        /\ Front(f.path) # Front(g.path)

RECURSIVE Document(_, _, _, _)
StructDocument(all) ==
    LET shown == {f \in Visible(all) : \E a \in f.at : ~(f.omitEmpty /\ Empty(Plain(a[1])))}
        member(name) == CHOOSE f \in shown : f.name = name
        part(f) == LET a == CHOOSE a \in f.at : TRUE IN Document(f.type, a[1], f.string, a[2])
    IN  IF EmbeddedTwice(all) THEN Departs("embedded")
        ELSE Whole("members", [name \in {f.name : f \in shown} |-> part(member(name))])
DefaultDocument(T, v, quoted, addr) ==
    LET kind == Kind(T)
        elem == Decl[T].elem
        encoded(doc) == Promise(IF quoted THEN <<"json", doc>> ELSE doc)
    IN  CASE kind = "chan" -> Promise(Nothing)
          [] kind = "map" /\ Kind(Decl[T].key) \notin {"string", "int"} /\ ~Callable(Decl[T].key, FALSE, "text") ->
               Promise(Nothing)
          [] OTHER ->
               CASE v = Nil -> Promise(Nil)
                 [] kind = "string" /\ T = "Number" ->
                      IF quoted THEN Departs("Number")
                      ELSE IF v[2] = <<>> THEN Promise(<<"number", <<"0">>>>)
                      ELSE Promise(IF Len(v[2]) + 1 \in Number(v[2], {1}) THEN <<"number", v[2]>> ELSE Nothing)
                 [] kind \in {"int", "float"} -> IF v[2] = Nothing THEN Promise(Nothing) ELSE encoded(v)
                 [] kind = "bool" \/ (kind = "string" /\ T # "Number") -> encoded(v)
                 [] kind = "slice" /\ v[1] = "bytes" ->
                      IF T = "Raw" THEN Departs("RawMessage") ELSE Promise(<<"string", v[2]>>)
                 [] kind \in {"slice", "array"} /\ v[1] = "array" ->
                      Whole("array", [k \in DOMAIN v[2] |->
                              Document(elem, v[2][k], FALSE, kind = "slice" \/ addr)])
                 [] kind = "map" ->
                      IF Nothing \in DOMAIN v[2] THEN Promise(Nothing)
                      ELSE Whole("members", [name \in DOMAIN v[2] |-> Document(elem, v[2][name], FALSE, FALSE)])
                 [] kind = "ptr" -> Document(elem, v[2], quoted, TRUE)
                 [] kind = "any" -> Document(v[2], v[3], FALSE, FALSE)
                 [] kind = "struct" -> StructDocument(Promoted(<<T>>, <<>>, {<<v, addr>>}))
Document(T, v, quoted, addr) ==
    CASE T = "invalid" -> Promise(Nil)
      [] OTHER ->
           CASE Callable(T, addr, "json") ->
                  Promise(IF v = Nil THEN Nil
                          ELSE IF Own(v) = Nothing \/ ~IsJSON(Own(v)) THEN Nothing
                          ELSE Unmarshal(Own(v), Interface).val)
             [] Callable(T, addr, "text") /\ ~Callable(T, addr, "json") ->
                  Promise(IF v = Nil THEN Nil ELSE IF Own(v) = Nothing THEN Nothing ELSE <<"string", Own(v)>>)
             [] OTHER -> DefaultDocument(T, Plain(v), quoted, addr)

\* How a decoder names a character that was written as an escape.
Chars(s) ==
    LET u(c) == "U+" \o HexOf[c][1] \o HexOf[c][2] \o HexOf[c][3] \o HexOf[c][4] IN
    [i \in DOMAIN s |-> IF s[i] \in DOMAIN HexOf THEN u(s[i]) ELSE s[i]]

\* A key without the type that this copy of the library puts behind the name,
\* in parentheses, of which the comment knows nothing (encode.go:598 and 644).
Name(key) ==
    IF Len(key) > 2 /\ key[Len(key) - 2] = "(" /\ Last(key) = ")" THEN SubSeq(key, 1, Len(key) - 3) ELSE key

\* Is tree, which Unmarshal has read, the document doc?
RECURSIVE Agrees(_, _)
Agrees(tree, doc) ==
    CASE doc[1] = "string" -> tree[1] = "string" /\ Chars(tree[2]) = Chars(doc[2])
      [] doc[1] = "json" ->
           tree[1] = "string" /\ IsJSON(tree[2]) /\ Agrees(Unmarshal(tree[2], Interface).val, doc[2])
      [] doc[1] = "array" ->
           tree[1] = "array" /\ Len(tree[2]) = Len(doc[2]) /\ \A i \in DOMAIN doc[2] : Agrees(tree[2][i], doc[2][i])
      [] doc[1] = "members" ->
           /\ tree[1] = "object" /\ Cardinality(DOMAIN tree[2]) = Cardinality(DOMAIN doc[2])
           /\ \A name \in DOMAIN doc[2] : \E key \in DOMAIN tree[2] :
                Chars(Name(key)) = Chars(name) /\ Agrees(tree[2][key], doc[2][name])
      [] OTHER -> tree = doc

\* Whatever others do with the caches at the same time, a call of Marshal that
\* returns bytes has written a JSON text, and one that fails had to.  Unmarshal
\* reads the text as the value's document, with a type behind every key, except
\* where the code departs from the comment.
ReadsBack ==
    \A p \in Callers : todo[p] = <<>> =>
        /\ failed[p] \/ IsJSON(bufs[p][1])
        /\ \E promise \in {Document(program[p].type, program[p].v, FALSE, FALSE)} :
             promise.departs = {} =>
                 IF failed[p] THEN promise.doc = Nothing
                 ELSE promise.doc # Nothing /\ Agrees(Unmarshal(bufs[p][1], Interface).val, promise.doc)

\* No call of Marshal waits for ever, also when several goroutines build the
\* encoders of recursive types at once and wait for each other's.
MarshalReturns == \A p \in Proc : <>(p \in Callers => todo[p] = <<>>)
=============================================================================
