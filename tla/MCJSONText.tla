--------------------------- MODULE MCJSONText ----------------------------
EXTENDS JSONText

Letters(C) == {<<c>> : c \in C}

MCKeys ==
    LET key(letters) == <<"\"">> \o letters \o <<"\"", ":">>
        letters == Letters({"k", "KELVIN", "S", "LONGS", "e", "_"})
    IN  {key(l) : l \in letters \cup {m \o n : m, n \in letters}}

\* What opens, closes and separates; object members; array elements;
\* numbers; strings; what Compact escapes; literals; keys whose case differs;
\* several values.
MCLetters ==
    { << Letters({"{", "}", "[", "]", ":", ",", "1", "\""}), 6, 1 >>,
      << Letters({"{", "}", ":", ",", "1", " "}) \cup {<<"\"", "\"">>}, 8, 1 >>,
      << Letters({"[", "]", ",", "1", " "}), 7, 1 >>,
      << Letters({"-", "0", "1", ".", "e", "+", " "}), 6, 2 >>,
      << Letters({"\"", "\\", "u", "1", "^"}), 8, 2 >>,
      << Letters({"[", "]", "\"", "\\", "<", "LS", " "}), 6, 1 >>,
      << Letters({"t", "r", "u", "e", "f", "a", "l", "s", "n"}), 5, 2 >>,
      << MCKeys \cup {<<"{">>, <<"1", "}">>}, 8, 0 >>,
      << Letters({"[", "]", "1", " "}), 6, 6 >>,
      << {<<"{", "\"", "\"", ":">>, <<"}">>, <<"\"", "\"">>, <<"1">>}, 9, 9 >> }
\* Values nested in members, and members that occur twice: also arrays whose
\* second element does not fit over the first, or is null.
MCWords ==
    { << {<<"{">>, <<"}">>, <<"[">>, <<"]">>, <<",">>, <<"1">>, <<"\"", "e", "\"", ":">>}, 10, 0 >>,
      << {<<"{">>, <<"}">>, <<",">>, <<"1">>, <<"n", "u", "l", "l">>, <<"[", "1", "]">>,
          <<"\"", "e", "\"", ":">>, <<"\"", "E", "\"", " ", ":">>}, 18, 0 >>,
      << {<<"{", "\"", "e", "\"", ":">>, <<",", "\"", "e", "\"", ":">>, <<"}">>, <<"[", "1", "]">>,
          <<"[", "{", "}", "]">>, <<"[", "n", "u", "l", "l", "]">>}, 20, 0 >> }
MCAlphabets == MCLetters \cup MCWords

MCReadings ==
    { [size |-> size, err |-> err, together |-> together, asks |-> asks] :
      <<size, err, together, asks>> \in
          { <<1, "EOF", FALSE, FALSE>>, <<2, "EOF", TRUE, TRUE>>, <<3, "failed", FALSE, TRUE>> } }

Float64 == [kind |-> "number"]
Raw == [kind |-> "raw"]
Slice(T) == [kind |-> "slice", elem |-> T]
Array(n, T) == [kind |-> "array", len |-> n, elem |-> T]
Pointer(T) == [kind |-> "ptr", elem |-> T]
Map(T) == [kind |-> "map", elem |-> T]
Struct(fields) == [kind |-> "struct", fields |-> fields]
e == <<"e">>
E == <<"E">>

Names == {e, <<"k">>, <<"e", "_">>, <<"S", "e">>, <<"E", "E">>, <<"LONGS", "_">>}

MCTargets ==
    { Interface, Float64, Raw, Slice(Float64), Slice(Slice(Raw)), Map(Float64), Map(Slice(Interface)),
      Array(1, Interface), Array(2, Pointer(Slice(Float64))), Struct([name \in Names |-> Float64]),
      Struct(E :> Slice(Float64)), Struct((e :> Pointer(Raw)) @@ (E :> Pointer(Struct(e :> Float64)))),
      Struct(e :> Array(1, Float64)), Slice(Struct(e :> Map(Float64))) }

\* A fixed array in a struct.
MCFixedArray == { Struct(e :> Array(0, Interface)) }
\* A slice in a struct.
MCSlice == { Struct(e :> Slice(Float64)) }
=============================================================================
