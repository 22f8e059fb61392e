-------------------------- MODULE JSONDecoderText --------------------------
(***************************************************************************)
(* What a Decoder has taken from its stream, read with the JSON grammar.   *)
(***************************************************************************)
EXTENDS JSONDecoder, JSONGrammar, SequencesExt

\* The bytes of the pieces taken, two of each: the first one, and space or the
\* quote that ends a key.  Every value is a number here.
Byte == [ BeginArray |-> "[", EndArray |-> "]", BeginObject |-> "{", EndObject |-> "}",
          Colon |-> ":", Comma |-> ",", Quote |-> "\"", Scalar |-> "1" ]
Behind(c) == IF c = "Quote" THEN "\"" ELSE " "
Bytes(w) ==
    [k \in 1..(2 * Len(w)) |->
        LET c == w[(k + 1) \div 2] IN IF k % 2 = 1 THEN Byte[c] ELSE Behind(c)]

\* What is missing in the innermost array or object.
Rest ==
    [ TopValue |-> <<>>, ArrayStart |-> <<>>, ArrayValue |-> <<"Scalar">>, ArrayComma |-> <<>>,
      ObjectStart |-> <<>>, ObjectKey |-> <<"Quote", "Colon", "Scalar">>, ObjectColon |-> <<"Colon", "Scalar">>,
      ObjectValue |-> <<"Scalar">>, ObjectComma |-> <<>> ]
Closing == Reverse([i \in DOMAIN open |-> IF open[i] = "BeginArray" THEN "EndArray" ELSE "EndObject"])

\* Whatever mix of Token, Decode and More is called, and whatever the stream
\* holds, what they have taken from it is a prefix of a sequence of JSON
\* texts: no separator, key or value is ever taken where none may stand.
TakesJSON == IsStream(Bytes(text \o Rest[tokenState] \o Closing))
=============================================================================
