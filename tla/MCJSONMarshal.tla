--------------------------- MODULE MCJSONMarshal ---------------------------
EXTENDS JSONMarshal

---------------------------------------------------------------------------
(* The types.                                                              *)

Of(kind) == [kind |-> kind, json |-> "no", text |-> "no"]
With(decl, json, text) == [decl EXCEPT !.json = json, !.text = text]
Elem(kind, T) == [elem |-> T] @@ Of(kind)
StructOf(fields) == [fields |-> fields] @@ Of("struct")
Ptr(T) == "*" \o T
Slice(T) == "[]" \o T
Array(T) == "[2]" \o T
Map(K, T) == "map[" \o K \o "]" \o T
Tagged(tag, T) ==
    [name |-> <<"x">>, tag |-> tag, type |-> T, anonymous |-> FALSE, exported |-> TRUE]
Field(name, T) == [Tagged(<<<<>>>>, T) EXCEPT !.name = <<name>>]
Embedded(T) == [Field(T, T) EXCEPT !.anonymous = TRUE]
Omits(T) == "omits " \o T
Quotes(T) == "quotes " \o T
Maybe == {"int", "bool", "string", Ptr("int"), Slice("int"), Map("string", "int"), "any", "E2"}
Quotable == {"int", "bool", "string", Ptr("float"), "Number", Slice("int"), "T"}

\* Number and RawMessage of the library, types with methods (J, T, P, B),
\* recursive types, structs to embed, and what these are made of.
Declared ==
    {<<kind, Of(kind)>> : kind \in {"bool", "int", "float", "string", "byte", "any", "chan"}}
    \cup {<<Ptr(T), Elem("ptr", T)>> :
          T \in {"int", "float", "J", "T", "E", "X", "List", "Man", "Self", "Message", Array("P")}}
    \cup {<<Slice(T), Elem("slice", T)>> : T \in {"byte", "int", "P", "Raw"}}
    \cup {<<Array(T), Elem("array", T)>> : T \in {"P", "chan"}}
    \cup {<<Map(t[1], t[2]), [key |-> t[1]] @@ Elem("map", t[2])>> :
          t \in {<<"string", "int">>, <<"int", "any">>, <<Ptr("T"), "int">>, <<"bool", "int">>}}
    \cup {<<Omits(T), StructOf(<<Tagged(<<<<"e">>, "omitempty">>, T)>>)>> : T \in Maybe}
    \cup {<<Quotes(T), StructOf(<<Tagged(<<<<>>, "string">>, T)>>)>> : T \in Quotable}
    \cup { <<"Number", Of("string")>>,
           <<"Raw", With(Elem("slice", "byte"), "pointer", "no")>>,
           <<"Message", StructOf(<<Field("e", "Raw")>>)>>,
           <<"J", With(StructOf(<<Field("e", "int")>>), "value", "pointer")>>,
           <<"T", With(Of("int"), "no", "value")>>, <<"P", With(Of("bool"), "no", "pointer")>>,
           <<"B", With(Of("int"), "pointer", "value")>>,
           <<"List", StructOf(<<Field("e", "any"), Field("x", Ptr("List"))>>)>>,
           <<"Tree", Elem("slice", "Tree")>>,
           <<"Man", StructOf(<<Field("e", "Dogs")>>)>>,
           <<"Dogs", Elem("slice", Ptr("Man"))>>,
           <<"E", StructOf(<<Field("e", "int"), Field("x", "bool")>>)>>,
           <<"E2", StructOf(<<Field("x", "int"), [Field("f", "int") EXCEPT !.exported = FALSE]>>)>>,
           <<"X", StructOf(<<Tagged(<<<<"x">>>>, "int")>>)>>,
           <<"In", StructOf(<<Embedded("E")>>)>>,
           <<"In2", StructOf(<<Embedded(Ptr("E")), Field("u", "int")>>)>>,
           <<"Self", StructOf(<<Embedded(Ptr("Self")), Field("e", "int")>>)>>,
           <<"Tags", StructOf(<<Tagged(<<<<"-">>>>, "chan"), Tagged(<<<<"-">>, "omitempty">>, "int"),
                                Tagged(<<<<"\"">>>>, "int"), Tagged(<<<<"<">>>>, "int")>>)>>,
           <<"E and E2", StructOf(<<Embedded("E"), Embedded("E2")>>)>>,
           <<"E and X", StructOf(<<Embedded(Ptr("E")), Embedded("X")>>)>>,
           <<"E and x", StructOf(<<Embedded("E"), Field("x", "string")>>)>>,
           <<"E twice", StructOf(<<Embedded("In"), Embedded("In2")>>)>>,
           <<"Up", StructOf(<<Embedded("In")>>)>>, <<"Up2", StructOf(<<Embedded("In"), Field("x", "int")>>)>>,
           <<"In twice", StructOf(<<Embedded("Up"), Embedded("Up2")>>)>>,
           <<"named E", StructOf(<<[Embedded("E") EXCEPT !.tag = <<<<"f">>>>], Embedded(Ptr("X"))>>)>> }
MCDecl ==
    LET names == {d[1] : d \in Declared} IN [T \in names |-> (CHOOSE d \in Declared : d[1] = T)[2]]

---------------------------------------------------------------------------
(* The values.                                                             *)

n(d) == <<"number", <<d>>>>
s(chars) == <<"string", chars>>
b(v) == <<"bool", v>>
p(v) == <<"ptr", v>>
i(T, v) == <<"iface", T, v>>
l(vs) == <<"array", vs>>
r(vs) == <<"struct", vs>>
m(f) == <<"map", f>>
own(text, v) == <<"own", text, v>>
of(T, vs) == {<<T, v>> : v \in vs}
Odd == <<"\"", "\\", "<", "&", "LS", "^", "LF", "FF", "BAD", "x">>
Quote(chars) == <<"\"">> \o chars \o <<"\"">>
J(text) == own(text, r(<<n("1")>>))
spaced == <<" ", "[", " ", "1", " ", "]">>
raw(text) == own(text, <<"bytes", <<"e", "1", "0">>>>)
yes == own(<<"e">>, b(TRUE))

Scalars ==
    of("invalid", {Nil}) \cup of("bool", {b(TRUE)}) \cup of("chan", {Nil})
    \cup of(Array("chan"), {l(<<Nil, Nil>>)})
    \cup of("float", {<<"number", <<"1", "e", "+", "1">>>>, <<"number", Nothing>>})
    \cup of("string", {s(<<>>), s(Odd)})
    \cup of("Number", {s(<<>>), s(<<"-", "0", ".", "1", "e", "-", "0">>), s(<<"0", "1">>), s(<<"1", "e", "+">>),
                       s(<<"1", ".">>), s(<<"-">>), s(<<"1", "0", "E", "1">>)})
    \cup of(Slice("byte"), {Nil, <<"bytes", <<>>>>, <<"bytes", <<"e", "x">>>>})

Methods ==
    of("J", {J(spaced), J(Nothing), J(<<"[", "1">>), J(Quote(<<"<", "LS">>))}) \cup of(Ptr("J"), {Nil, p(J(spaced))})
    \cup of("T", {own(Odd, n("1")), own(Nothing, n("1"))}) \cup of(Ptr("T"), {Nil, p(own(Odd, n("1")))})
    \cup of("P", {yes}) \cup of(Slice("P"), {l(<<yes>>)}) \cup of(Array("P"), {l(<<yes, yes>>)})
    \cup of(Ptr(Array("P")), {p(l(<<yes, own(<<"x">>, b(FALSE))>>))})
    \cup of("B", {own(<<"n", "u", "l", "l">>, n("1"))})
    \cup of("Message", {r(<<raw(<<"1">>)>>)}) \cup of(Ptr("Message"), {p(r(<<raw(Quote(<<"<", "&">>))>>))})
    \cup of(Slice("Raw"), {l(<<raw(<<"1">>), raw(<<"-">>)>>)})

Fields0 ==
    UNION { of(Omits(t[1]), {r(<<t[2]>>), r(<<t[3]>>)}) :
            t \in { <<"int", n("0"), n("1")>>, <<"bool", b(FALSE), b(TRUE)>>, <<"string", s(<<>>), s(<<"0">>)>>,
                    <<Ptr("int"), Nil, p(n("0"))>>, <<Slice("int"), l(<<>>), l(<<n("0")>>)>>,
                    <<Map("string", "int"), Nil, m(<<"e">> :> n("0"))>>, <<"any", Nil, i("int", n("0"))>>,
                    <<"E2", r(<<n("0"), n("0")>>), r(<<n("0"), n("1")>>)>> } }
    \cup UNION { of(Quotes(t[1]), {r(<<t[2]>>)}) :
            t \in { <<"int", n("0")>>, <<"bool", b(TRUE)>>, <<"string", s(Odd)>>, <<Ptr("float"), p(n("1"))>>,
                    <<"Number", s(<<"1">>)>>, <<Slice("int"), l(<<n("1")>>)>>, <<"T", own(<<"e">>, n("1"))>> } }
    \cup of("Tags", {r(<<Nil, n("0"), n("1"), n("0")>>)})

E1 == r(<<n("1"), b(TRUE)>>)
X0 == r(<<n("0")>>)
Embedding ==
    of("E and E2", {r(<<E1, r(<<n("0"), n("1")>>)>>)})
    \cup of("E and X", {r(<<Nil, X0>>), r(<<p(E1), X0>>)})
    \cup of("E and x", {r(<<E1, s(<<"0">>)>>)})
    \cup of("E twice", {r(<<r(<<E1>>), r(<<Nil, n("0")>>)>>), r(<<r(<<E1>>), r(<<p(E1), n("0")>>)>>)})
    \cup of("In twice", {r(<<r(<<r(<<E1>>)>>), r(<<r(<<E1>>), n("0")>>)>>)})
    \cup of("Self", {r(<<Nil, n("1")>>), r(<<p(r(<<Nil, n("0")>>)), n("1")>>)})
    \cup of("named E", {r(<<E1, p(X0)>>)})

Maps ==
    of(Map("string", "int"), {Nil, m((<<"x">> :> n("1")) @@ (<<"-", "0">> :> n("0")) @@ (<<"-">> :> n("1"))),
                              m((<<"<">> :> n("1")) @@ (<<"LS">> :> n("0")))})
    \cup of(Map("int", "any"), {m(<<"1">> :> i("chan", Nil)), m((<<"1">> :> i("bool", b(TRUE))) @@ (<<"0">> :> Nil))})
    \cup of(Map(Ptr("T"), "int"), {m(<<"e">> :> n("1")), m(Nothing :> n("1"))})
    \cup of(Map("bool", "int"), {Nil, m(<<"1">> :> n("1"))})

Boy == r(<<Nil>>)
Recursive ==
    << <<Ptr("List"), p(r(<<i(Ptr("List"), p(r(<<Nil, Nil>>))), p(r(<<i("int", n("1")), Nil>>))>>))>>,
       <<"Tree", l(<<l(<<>>), Nil, l(<<l(<<>>)>>)>>)>>,
       <<"Man", r(<<l(<<p(Boy), Nil>>)>>)>>, <<"Dogs", l(<<p(r(<<l(<<p(Boy)>>)>>))>>)>>, <<Ptr("Man"), p(Boy)>> >>

Values == Scalars \cup Methods \cup Fields0 \cup Embedding \cup Maps \cup Range(Recursive)

---------------------------------------------------------------------------

MCType == LET decl == MCDecl IN DOMAIN decl
MCStruct ==
    LET methods(T) == Implements(T, "json") \/ Implements(T, "text") IN
    {T \in MCType : Kind(T) = "struct" /\ ~methods(T)}
MCElems == LET elems(T) == elemTypes(T) IN [T \in MCType |-> elems(T)]
MCProc == {"g1", "g2", "g3"}

MakeCall(t, escape) == [type |-> t[1], v |-> t[2], escapeHTML |-> escape]
\* Every value alone; two goroutines with recursive types, the same or such
\* as need each other's encoders; three with the smallest such type.
MCPrograms ==
    {("g1" :> MakeCall(t, escape)) : t \in Values, escape \in BOOLEAN}
    \cup {("g1" :> MakeCall(Recursive[k], TRUE)) @@ ("g2" :> MakeCall(Recursive[k + d], FALSE)) :
          <<k, d>> \in {<<k, d>> \in (1..5) \X (0..4) : k + d <= 5}}
    \cup {[g \in MCProc |-> MakeCall(Recursive[2], TRUE)]}
=============================================================================
