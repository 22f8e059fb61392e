------------------------- MODULE JSONDecoderProofs -------------------------
(***************************************************************************)
(* The token stack of the Decoder, for a stream of any length.             *)
(***************************************************************************)
EXTENDS JSONDecoderText, JSONGrammarProofs, TLAPS

\* A value keeps the array, the object or the top level it stands in.
LEMMA ValueEnd ==
    /\ tokenValueEnd("TopValue") = "TopValue"
    /\ \A s \in States : tokenValueEnd(s) \in States
    /\ \A s \in ArrayStates : tokenValueEnd(s) \in ArrayStates
    /\ \A s \in ObjectStates : tokenValueEnd(s) \in ObjectStates
BY DEF tokenValueEnd, States, ArrayStates, ObjectStates

\* What a call takes from the stream, or leaves there, keeps its type.
LEMMA TakeType ==
    ASSUME TypeOK, NEW w \in Classes, Take(w)
    PROVE  text' \in Seq(Classes) /\ next' \in Classes \cup {"unread"}
BY DEF TypeOK, Take

LEMMA LeaveType ==
    ASSUME TypeOK, NEW c \in Classes, Leave(c)
    PROVE  text' \in Seq(Classes) /\ next' \in Classes \cup {"unread"}
BY DEF TypeOK, Leave

\* The inductive invariant.  The types alone are not inductive: a closing
\* delimiter reads the last element of tokenStack, and only the match with the
\* delimiters that are open tells that there is one.
IInv == TypeOK /\ StackMatches

LEMMA ClosableIsNested ==
    ASSUME IInv, tokenState # "TopValue"
    PROVE  Len(tokenStack) > 0 /\ Len(open) > 0
BY DEF IInv, TypeOK, StackMatches, Within

LEMMA TypeStep ==
    ASSUME IInv, [Next]_vars
    PROVE  TypeOK'
<1> USE DEF TypeOK, Return, IInv
<1>1. CASE CallToken
  BY <1>1 DEF CallToken
<1>2. CASE TokenOpen
  <2>1. PICK c \in {"BeginArray", "BeginObject"}, s \in {"ArrayStart", "ObjectStart"} : Open(c, s)
    BY <1>2 DEF TokenOpen
  <2>2. c \in Classes /\ c \in Delims /\ s \in States
    BY DEF Classes, Delims, States
  <2> QED
    BY <2>1, <2>2, TakeType DEF Open, tokenValueAllowed
<1>3. CASE TokenClose
  <2>1. PICK c \in {"EndArray", "EndObject"}, states \in SUBSET (States \ {"TopValue"}) : Close(c, states)
    BY <1>3 DEF TokenClose, States
  <2>2. c \in Classes /\ c \in Delims
    BY DEF Classes, Delims
  <2>3. Len(tokenStack) > 0
    BY <2>1, ClosableIsNested DEF Close
  <2>4. tokenState' \in States
    BY <2>1, <2>3, ValueEnd DEF Close, States, ValueStates
  <2>5. tokenStack' \in Seq(ValueStates) /\ open' \in Seq({"BeginArray", "BeginObject"})
    BY <2>1, <2>3 DEF Close, StackMatches
  <2> QED
    BY <2>1, <2>2, <2>4, <2>5, TakeType DEF Close
<1>4. CASE TokenSeparator \/ DecodeSeparator
  <2>1. PICK call \in {"Token", "Decode"}, c \in {"Comma", "Colon"}, from \in States, to \in States :
           Separator(call, c, from, to)
    BY <1>4 DEF TokenSeparator, DecodeSeparator, States
  <2>2. c \in Classes
    BY DEF Classes
  <2> QED
    BY <2>1, <2>2, TakeType DEF Separator
<1>5. CASE TokenKey
  <2>1. "Quote" \in Classes /\ "ObjectColon" \in States
    BY DEF Classes, States
  <2> QED
    BY <1>5, <2>1, TakeType, LeaveType DEF TokenKey, ValueRead, ReadFails
<1>6. CASE TokenScalar \/ DecodeValue
  <2>1. PICK c \in Classes :
           \/ /\ ValueRead(c, "Scalar") /\ tokenState' = tokenValueEnd(tokenState)
              /\ Return("value") \/ Return("error")
           \/ ReadFails(c) /\ Return("error") /\ UNCHANGED tokenState
    BY <1>6 DEF TokenScalar, DecodeValue, Classes
  <2>2. UNCHANGED <<tokenStack, open>> /\ "Scalar" \in Classes
    BY <1>6 DEF TokenScalar, DecodeValue, Classes
  <2> QED
    BY <2>1, <2>2, TakeType, LeaveType, ValueEnd DEF ValueRead, ReadFails
<1>7. CASE TokenRefused \/ DecodeNoSeparator
  BY <1>7, LeaveType DEF TokenRefused, DecodeNoSeparator, Refuse
<1>8. CASE CallDecode
  BY <1>8 DEF CallDecode
<1>9. CASE DecodeNotAllowed
  BY <1>9 DEF DecodeNotAllowed
<1>10. CASE More
  BY <1>10, LeaveType DEF More
<1>11. CASE UNCHANGED vars
  BY <1>11 DEF vars
<1> QED
  BY <1>1, <1>2, <1>3, <1>4, <1>5, <1>6, <1>7, <1>8, <1>9, <1>10, <1>11 DEF Next

\* A step that stays within the same array, object or top level.
LEMMA StaysWithin ==
    ASSUME IInv, UNCHANGED <<tokenStack, open>>,
           tokenState = "TopValue" => tokenState' = "TopValue",
           tokenState \in ArrayStates => tokenState' \in ArrayStates,
           tokenState \in ObjectStates => tokenState' \in ObjectStates
    PROVE  StackMatches'
BY DEF IInv, TypeOK, StackMatches, Within

LEMMA OpenMatches ==
    ASSUME IInv, NEW c, NEW start, Open(c, start),
           \/ c = "BeginArray" /\ start = "ArrayStart"
           \/ c = "BeginObject" /\ start = "ObjectStart"
    PROVE  StackMatches'
<1>1. start \in (IF c = "BeginArray" THEN ArrayStates ELSE ObjectStates)
  BY DEF ArrayStates, ObjectStates, States
<1>2. /\ Len(tokenStack') = Len(tokenStack) + 1
      /\ Len(open') = Len(open) + 1
      /\ \A i \in 1..Len(tokenStack) : tokenStack'[i] = tokenStack[i]
      /\ \A i \in 1..Len(open) : open'[i] = open[i]
      /\ tokenStack'[Len(tokenStack) + 1] = tokenState
      /\ open'[Len(open) + 1] = c
      /\ tokenState' = start
  BY DEF Open, IInv, TypeOK
<1>3. PICK n \in Nat : n = Len(tokenStack) /\ n = Len(open)
  BY DEF IInv, TypeOK, StackMatches
<1>4. \A i \in 0..n : Within(i)' = Within(i)
  BY <1>2, <1>3 DEF Within
<1>5. Within(n + 1)' = start
  BY <1>2, <1>3 DEF Within
<1>6. ASSUME NEW i \in 1..(n + 1)
      PROVE  Within(i)' \in (IF open'[i] = "BeginArray" THEN ArrayStates ELSE ObjectStates)
  <2>1. CASE i = n + 1
    BY <2>1, <1>1, <1>2, <1>3, <1>5
  <2>2. CASE i \in 1..n
    BY <2>2, <1>2, <1>3, <1>4 DEF IInv, StackMatches
  <2> QED
    BY <2>1, <2>2
<1> QED
  BY <1>2, <1>3, <1>4, <1>6 DEF IInv, StackMatches

LEMMA CloseMatches ==
    ASSUME IInv, NEW c, NEW states, "TopValue" \notin states, Close(c, states)
    PROVE  StackMatches'
<1>1. PICK n \in Nat : n > 0 /\ n = Len(tokenStack) /\ n = Len(open)
  BY ClosableIsNested DEF Close, IInv, TypeOK, StackMatches
<1>2. /\ Len(tokenStack') = n - 1
      /\ Len(open') = n - 1
      /\ \A i \in 1..(n - 1) : tokenStack'[i] = tokenStack[i] /\ open'[i] = open[i]
      /\ tokenState' = tokenValueEnd(tokenStack[n])
  BY <1>1 DEF Close, IInv, TypeOK
<1>3. \A i \in 0..(n - 2) : Within(i)' = Within(i)
  BY <1>1, <1>2 DEF Within
<1>4. Within(n - 1)' = tokenValueEnd(Within(n - 1))
  BY <1>1, <1>2 DEF Within
<1>5. Within(0)' = "TopValue"
  BY <1>1, <1>3, <1>4, ValueEnd DEF IInv, StackMatches
<1>6. ASSUME NEW i \in 1..(n - 1)
      PROVE  Within(i)' \in (IF open'[i] = "BeginArray" THEN ArrayStates ELSE ObjectStates)
  <2>1. /\ open'[i] = open[i]
        /\ Within(i) \in (IF open[i] = "BeginArray" THEN ArrayStates ELSE ObjectStates)
    BY <1>1, <1>2 DEF IInv, StackMatches
  <2>2. CASE i = n - 1
    BY <2>1, <2>2, <1>4, ValueEnd
  <2>3. CASE i \in 1..(n - 2)
    BY <2>1, <2>3, <1>3
  <2> QED
    BY <2>2, <2>3, <1>1, <1>2
<1> QED
  BY <1>1, <1>2, <1>5, <1>6 DEF StackMatches

LEMMA StackStep ==
    ASSUME IInv, [Next]_vars
    PROVE  StackMatches'
<1>1. CASE TokenOpen
  BY <1>1, OpenMatches DEF TokenOpen
<1>2. CASE TokenClose
  BY <1>2, CloseMatches DEF TokenClose
<1>3. CASE TokenSeparator \/ DecodeSeparator
  <2>1. UNCHANGED <<tokenStack, open>>
    BY <1>3 DEF TokenSeparator, DecodeSeparator, Separator
  <2>2. \/ tokenState = "ArrayComma" /\ tokenState' = "ArrayValue"
        \/ tokenState = "ObjectColon" /\ tokenState' = "ObjectValue"
        \/ tokenState = "ObjectComma" /\ tokenState' = "ObjectKey"
    BY <1>3 DEF TokenSeparator, DecodeSeparator, Separator
  <2> QED
    BY <2>1, <2>2, StaysWithin DEF ArrayStates, ObjectStates, States
<1>4. CASE TokenKey
  BY <1>4, StaysWithin DEF TokenKey, ArrayStates, ObjectStates, States
<1>5. CASE TokenScalar \/ DecodeValue
  <2>1. UNCHANGED <<tokenStack, open>> /\ tokenState' \in {tokenState, tokenValueEnd(tokenState)}
    BY <1>5 DEF TokenScalar, DecodeValue
  <2> QED
    BY <2>1, ValueEnd, StaysWithin DEF IInv, TypeOK
<1>6. CASE UNCHANGED <<tokenState, tokenStack, open>>
  BY <1>6, StaysWithin
<1>7. CASE \/ CallToken \/ TokenRefused \/ CallDecode \/ DecodeNoSeparator
           \/ DecodeNotAllowed \/ More \/ UNCHANGED vars
  BY <1>6, <1>7 DEF CallToken, TokenRefused, CallDecode, DecodeNoSeparator,
     DecodeNotAllowed, More, Refuse, vars
<1> QED
  BY <1>1, <1>2, <1>3, <1>4, <1>5, <1>7 DEF Next

LEMMA Inductive == Spec => []IInv
<1>1. Init => IInv
  BY DEF Init, IInv, TypeOK, StackMatches, Within, States
<1>2. IInv /\ [Next]_vars => IInv'
  BY TypeStep, StackStep DEF IInv
<1> QED
  BY <1>1, <1>2, PTL DEF Spec

\* Every variable keeps its type: tokenStack only holds states in which a
\* value may stand.
THEOREM TypeCorrect == Spec => []TypeOK
BY Inductive, PTL DEF IInv

\* tokenStack and tokenState agree with the delimiters that are open, however
\* long and deep the stream and whatever calls and errors are mixed; the
\* closing branches of Token never index an empty stack.
THEOREM StackCorrect == Spec => []StackMatches
BY Inductive, PTL DEF IInv

\* The promise of Token's comment: a closing delimiter is only returned for
\* the one opened last, and of the same kind.
THEOREM DelimitersMatch == Spec => NestedAndMatched
<1> DEFINE Matched == calling = "Token" /\ calling' = "none" /\ token' \in {"EndArray", "EndObject"}
                        => /\ open # <<>>
                           /\ open[Len(open)] = (IF token' = "EndArray" THEN "BeginArray" ELSE "BeginObject")
<1>1. IInv /\ [Next]_vars => [Matched]_vars
  <2> SUFFICES ASSUME IInv, Next, calling = "Token", calling' = "none",
                      token' \in {"EndArray", "EndObject"}
               PROVE  /\ open # <<>>
                      /\ open[Len(open)] = (IF token' = "EndArray" THEN "BeginArray" ELSE "BeginObject")
    OBVIOUS
  <2>1. TokenClose
    BY DEF Next, CallToken, TokenOpen, Open, TokenSeparator, Separator, TokenKey, TokenScalar,
       TokenRefused, Refuse, CallDecode, DecodeSeparator, DecodeNoSeparator, DecodeValue,
       DecodeNotAllowed, More, Return
  <2>2. PICK c \in {"EndArray", "EndObject"} :
           /\ token' = c
           /\ tokenState \in (IF c = "EndArray" THEN {"ArrayStart", "ArrayComma"}
                                               ELSE {"ObjectStart", "ObjectComma"})
    BY <2>1 DEF TokenClose, Close, Return
  <2>3. Len(open) > 0 /\ Len(open) \in Nat /\ Len(open) = Len(tokenStack)
    BY <2>2, ClosableIsNested DEF IInv, TypeOK, StackMatches
  <2>4. Within(Len(open)) = tokenState
    BY <2>3 DEF Within
  <2>5. tokenState \in (IF open[Len(open)] = "BeginArray" THEN ArrayStates ELSE ObjectStates)
    BY <2>3, <2>4 DEF IInv, StackMatches
  <2>6. open[Len(open)] \in {"BeginArray", "BeginObject"}
    BY <2>3 DEF IInv, TypeOK
  <2> QED
    BY <2>2, <2>3, <2>5, <2>6 DEF ArrayStates, ObjectStates
<1> QED
  BY <1>1, Inductive, PTL DEF Spec, NestedAndMatched

---------------------------------------------------------------------------
(* The pieces of the stream and the grammar.                               *)

\* More beginnings, more ends.
LEMMA MoreBoth == \A A, B : A \subseteq B <=> Both(A, B) = B
BY DEF Both

LEMMA AfterMore == \A d, A, B, C : A \subseteq B => After(d, A, C) \subseteq After(d, B, C)
BY MoreBoth, AfterBoth
LEMMA SpaceMore == \A d, A, B : A \subseteq B => Space(d, A) \subseteq Space(d, B)
BY MoreBoth, SpaceBoth
LEMMA FromMore == \A P, X, A, B : A \subseteq B => From(P, X, A) \subseteq From(P, X, B)
BY MoreBoth, FromBoth
LEMMA ListMore ==
    \A d, P, X, A, B : A \subseteq B => ListBy(d, P, X, A) \subseteq ListBy(d, P, X, B)
BY MoreBoth, ListByBoth
LEMMA ValueMore ==
    \A d, P, A, B : A \subseteq B => /\ ValueBy(d, P, A) \subseteq ValueBy(d, P, B)
                                     /\ StringBy(d, P, A) \subseteq StringBy(d, P, B)
BY MoreBoth, ValueByBoth, StringByBoth

Here(d, i) == Len(d) \in Nat /\ i \in 1..Len(d)

\* Space may be left out, and is skipped.
LEMMA SpaceHere ==
    ASSUME NEW d, NEW i, Here(d, i)
    PROVE  /\ One(i) \subseteq Space(d, One(i))
           /\ At(d, i, Blank) => Space(d, One(i + 1)) \subseteq Space(d, One(i))
<1>1. Space(d, One(i)) = IF At(d, i, Blank) THEN Both(One(i), Many(d, One(i + 1), Blank)) ELSE One(i)
  BY ManyOne, SpaceShape DEF Here
<1> QED BY <1>1, SpaceShape DEF Both

\* Where the array or object may end that the decoder is in, if it is in state
\* st before byte i; outside all of them, where the stream may.
Left(d, st, i) ==
    LET P == Phrases(d)
        space == Space(d, One(i))
        elements == From(P, "elements", One(i))
        members == From(P, "members", One(i))
        array(J) == After(d, J, EndArray)
        object(J) == After(d, J, EndObject)
        named(J) == object(ListBy(d, P, "members", ValueBy(d, P, Space(d, J))))
    IN  CASE st = "TopValue" -> From(P, "texts", One(i))
          [] st = "ArrayStart" -> array(Both(space, elements))
          [] st = "ArrayValue" -> array(elements)
          [] st = "ArrayComma" -> array(ListBy(d, P, "elements", One(i)))
          [] st = "ObjectStart" -> object(Both(space, members))
          [] st = "ObjectKey" -> object(members)
          [] st = "ObjectColon" -> named(After(d, space, Colon))
          [] st = "ObjectValue" -> named(One(i))
          [] st = "ObjectComma" -> object(ListBy(d, P, "members", One(i)))

LEMMA LeftShape ==
    ASSUME NEW d, NEW i, NEW P, P = Phrases(d)
    PROVE  /\ Left(d, "TopValue", i) = From(P, "texts", One(i))
           /\ Left(d, "ArrayStart", i) =
                After(d, Both(Space(d, One(i)), From(P, "elements", One(i))), EndArray)
           /\ Left(d, "ArrayValue", i) = After(d, From(P, "elements", One(i)), EndArray)
           /\ Left(d, "ArrayComma", i) = After(d, ListBy(d, P, "elements", One(i)), EndArray)
           /\ Left(d, "ObjectStart", i) =
                After(d, Both(Space(d, One(i)), From(P, "members", One(i))), EndObject)
           /\ Left(d, "ObjectKey", i) = After(d, From(P, "members", One(i)), EndObject)
           /\ Left(d, "ObjectColon", i) =
                After(d, ListBy(d, P, "members",
                         ValueBy(d, P, Space(d, After(d, Space(d, One(i)), Colon)))), EndObject)
           /\ Left(d, "ObjectValue", i) =
                After(d, ListBy(d, P, "members", ValueBy(d, P, Space(d, One(i)))), EndObject)
           /\ Left(d, "ObjectComma", i) = After(d, ListBy(d, P, "members", One(i)), EndObject)
BY DEF Left

\* The rules of the phrases that begin at i.
LEMMA PhrasesHere ==
    ASSUME NEW d, NEW i, Len(d) \in Nat, i \in 1..(Len(d) + 1), NEW P, P = Phrases(d)
    PROVE  /\ From(P, "characters", One(i)) =
                Both(One(i), From(P, "characters", Character(d, One(i))))
           /\ From(P, "elements", One(i)) =
                ListBy(d, P, "elements", ValueBy(d, P, Space(d, One(i))))
           /\ From(P, "members", One(i)) =
                ListBy(d, P, "members", MemberBy(d, P, Space(d, One(i))))
           /\ From(P, "texts", One(i)) =
                Both(Space(d, One(i)), From(P, "texts", ValueBy(d, P, Space(d, One(i)))))
<1>1. \A X \in Nonterminals : From(P, X, One(i)) = Rule(d, P, X, i)
  BY PhrasesRule, FromBoth
<1>2. {"characters", "elements", "members", "texts"} \subseteq Nonterminals
  BY DEF Nonterminals
<1> QED BY <1>1, <1>2, RuleShape

\* Space before byte i + 1 changes nothing.
LEMMA LeftSpace ==
    ASSUME NEW d, NEW i, Here(d, i), At(d, i, Blank), NEW st \in States
    PROVE  Left(d, st, i + 1) \subseteq Left(d, st, i)
<1> DEFINE P == Phrases(d)
           j == i + 1
           S == Space(d, One(i))
           T == Space(d, One(j))
<1>0. Len(d) \in Nat /\ i \in 1..(Len(d) + 1) /\ j \in 1..(Len(d) + 1)
  BY DEF Here
<1>1. T \subseteq S
  BY SpaceHere
<1>2. ValueBy(d, P, T) \subseteq ValueBy(d, P, S) /\ StringBy(d, P, T) \subseteq StringBy(d, P, S)
  <2> HIDE DEF P, S, T
  <2> QED BY <1>1, ValueMore
<1>3. From(P, "elements", One(j)) \subseteq From(P, "elements", One(i))
  <2>1. /\ From(P, "elements", One(i)) = ListBy(d, P, "elements", ValueBy(d, P, S))
        /\ From(P, "elements", One(j)) = ListBy(d, P, "elements", ValueBy(d, P, T))
    BY <1>0, PhrasesHere
  <2> HIDE DEF P, S, T
  <2>2. ListBy(d, P, "elements", ValueBy(d, P, T)) \subseteq ListBy(d, P, "elements", ValueBy(d, P, S))
    BY <1>2, ListMore
  <2> QED BY <2>1, <2>2
<1>4. From(P, "members", One(j)) \subseteq From(P, "members", One(i))
  <2>1. /\ From(P, "members", One(i)) = ListBy(d, P, "members", MemberBy(d, P, S))
        /\ From(P, "members", One(j)) = ListBy(d, P, "members", MemberBy(d, P, T))
    BY <1>0, PhrasesHere
  <2> HIDE DEF P, S, T
  <2>2. Space(d, StringBy(d, P, T)) \subseteq Space(d, StringBy(d, P, S))
    BY <1>2, SpaceMore
  <2>3. After(d, Space(d, StringBy(d, P, T)), Colon) \subseteq After(d, Space(d, StringBy(d, P, S)), Colon)
    BY <2>2, AfterMore
  <2>4. Space(d, After(d, Space(d, StringBy(d, P, T)), Colon))
          \subseteq Space(d, After(d, Space(d, StringBy(d, P, S)), Colon))
    BY <2>3, SpaceMore
  <2>5. MemberBy(d, P, T) \subseteq MemberBy(d, P, S)
    BY <2>4, ValueMore, MemberShape
  <2>6. ListBy(d, P, "members", MemberBy(d, P, T)) \subseteq ListBy(d, P, "members", MemberBy(d, P, S))
    BY <2>5, ListMore
  <2> QED BY <2>1, <2>6
<1>5. From(P, "texts", One(j)) \subseteq From(P, "texts", One(i))
  <2>1. /\ From(P, "texts", One(i)) = Both(S, From(P, "texts", ValueBy(d, P, S)))
        /\ From(P, "texts", One(j)) = Both(T, From(P, "texts", ValueBy(d, P, T)))
    BY <1>0, PhrasesHere
  <2> HIDE DEF P, S, T
  <2>2. From(P, "texts", ValueBy(d, P, T)) \subseteq From(P, "texts", ValueBy(d, P, S))
    BY <1>2, FromMore
  <2> QED BY <1>1, <2>1, <2>2 DEF Both
<1>6. \A X : ListBy(d, P, X, One(j)) \subseteq ListBy(d, P, X, One(i))
  <2>1. \A X : /\ ListBy(d, P, X, One(i)) = Both(S, From(P, X, After(d, S, Comma)))
               /\ ListBy(d, P, X, One(j)) = Both(T, From(P, X, After(d, T, Comma)))
    BY ListShape
  <2> HIDE DEF P, S, T, j
  <2>2. After(d, T, Comma) \subseteq After(d, S, Comma)
    BY <1>1, AfterMore
  <2>3. \A X : From(P, X, After(d, T, Comma)) \subseteq From(P, X, After(d, S, Comma))
    BY <2>2, FromMore
  <2> QED BY <1>1, <2>1, <2>3 DEF Both
<1>7. ValueBy(d, P, Space(d, After(d, T, Colon))) \subseteq ValueBy(d, P, Space(d, After(d, S, Colon)))
  <2> HIDE DEF P, S, T
  <2>1. After(d, T, Colon) \subseteq After(d, S, Colon)
    BY <1>1, AfterMore
  <2>2. Space(d, After(d, T, Colon)) \subseteq Space(d, After(d, S, Colon))
    BY <2>1, SpaceMore
  <2> QED BY <2>2, ValueMore
<1> DEFINE L(n) == Left(d, st, n)
           e(n) == From(P, "elements", One(n))
           m(n) == From(P, "members", One(n))
<1>8. CASE st = "TopValue"
  BY <1>5, <1>8, LeftShape
<1>9. CASE st = "ArrayStart"
  <2>1. Both(T, e(j)) \subseteq Both(S, e(i))
    BY <1>1, <1>3 DEF Both
  <2>2. L(i) = After(d, Both(S, e(i)), EndArray) /\ L(j) = After(d, Both(T, e(j)), EndArray)
    BY <1>9, LeftShape
  <2> HIDE DEF L, e, S, T, j
  <2>3. L(j) \subseteq L(i)
    BY <2>1, <2>2, AfterMore
  <2> QED BY <2>3 DEF L, j
<1>10. CASE st = "ObjectStart"
  <2>1. Both(T, m(j)) \subseteq Both(S, m(i))
    BY <1>1, <1>4 DEF Both
  <2>2. L(i) = After(d, Both(S, m(i)), EndObject) /\ L(j) = After(d, Both(T, m(j)), EndObject)
    BY <1>10, LeftShape
  <2> HIDE DEF L, m, S, T, j
  <2>3. L(j) \subseteq L(i)
    BY <2>1, <2>2, AfterMore
  <2> QED BY <2>3 DEF L, j
<1>11. CASE st \in {"ArrayValue", "ObjectKey"}
  <2>1. \A C : /\ After(d, e(j), C) \subseteq After(d, e(i), C)
               /\ After(d, m(j), C) \subseteq After(d, m(i), C)
    <3> HIDE DEF e, m, j
    <3>1. e(j) \subseteq e(i) /\ m(j) \subseteq m(i)
      BY <1>3, <1>4 DEF e, m
    <3> QED BY <3>1, AfterMore
  <2> QED BY <1>11, <2>1, LeftShape
<1>12. CASE st \in {"ArrayComma", "ObjectComma"}
  <2>1. \A X, C : After(d, ListBy(d, P, X, One(j)), C) \subseteq After(d, ListBy(d, P, X, One(i)), C)
    <3> HIDE DEF P, j
    <3> QED BY <1>6, AfterMore
  <2> QED BY <1>12, <2>1, LeftShape
<1>13. CASE st = "ObjectColon"
  <2> DEFINE V(K) == ValueBy(d, P, Space(d, After(d, K, Colon)))
             o(K) == After(d, ListBy(d, P, "members", V(K)), EndObject)
  <2>1. o(T) \subseteq o(S)
    <3>1. V(T) \subseteq V(S)
      BY <1>7
    <3> HIDE DEF V, S, T, P
    <3> QED BY <3>1, ListMore, AfterMore
  <2> QED BY <1>13, <2>1, LeftShape
<1>14. CASE st = "ObjectValue"
  <2> DEFINE V(K) == ValueBy(d, P, K)
             o(K) == After(d, ListBy(d, P, "members", V(K)), EndObject)
  <2>1. o(T) \subseteq o(S)
    <3>1. V(T) \subseteq V(S)
      BY <1>2
    <3> HIDE DEF V, S, T, P
    <3> QED BY <3>1, ListMore, AfterMore
  <2> QED BY <1>14, <2>1, LeftShape
<1> QED BY <1>8, <1>9, <1>10, <1>11, <1>12, <1>13, <1>14 DEF States

\* A value takes the decoder from where it may begin to where it has ended.
LEMMA LeftValue ==
    ASSUME NEW d, NEW i, Here(d, i), NEW v \in ValueBy(d, Phrases(d), One(i)),
           NEW st \in ValueStates
    PROVE  Left(d, tokenValueEnd(st), v) \subseteq Left(d, st, i)
<1> DEFINE P == Phrases(d)
           V == ValueBy(d, P, Space(d, One(i)))
           e == From(P, "elements", One(i))
           eof == ListBy(d, P, "elements", One(v))
           mof == ListBy(d, P, "members", One(v))
<1>0. Len(d) \in Nat /\ i \in 1..(Len(d) + 1)
  BY DEF Here
<1>1. One(v) \subseteq V
  <2> DEFINE S == Space(d, One(i))
             O == One(i)
  <2>1. O \subseteq S
    BY SpaceHere
  <2>2. v \in ValueBy(d, P, O)
    OBVIOUS
  <2> HIDE DEF S, O, P
  <2>3. v \in ValueBy(d, P, S)
    BY <2>1, <2>2, ValueMore
  <2> QED BY <2>3 DEF S, One
<1>2. e = ListBy(d, P, "elements", V) /\ From(P, "texts", One(i)) = Both(Space(d, One(i)), From(P, "texts", V))
  BY <1>0, PhrasesHere
<1>3. eof \subseteq e
  <2> HIDE DEF V, P
  <2>1. ListBy(d, P, "elements", One(v)) \subseteq ListBy(d, P, "elements", V)
    BY <1>1, ListMore
  <2> QED BY <1>2, <2>1
<1>4. CASE st = "TopValue"
  <2>1. tokenValueEnd(st) = "TopValue"
    BY <1>4, ValueEnd
  <2> HIDE DEF V, P
  <2>2. From(P, "texts", One(v)) \subseteq From(P, "texts", V)
    BY <1>1, FromMore
  <2>3. From(P, "texts", One(v)) \subseteq From(P, "texts", One(i))
    BY <1>2, <2>2 DEF Both
  <2> QED BY <1>4, <2>1, <2>3, LeftShape DEF P
<1>5. CASE st \in {"ArrayStart", "ArrayValue"}
  <2>1. tokenValueEnd(st) = "ArrayComma"
    BY <1>5 DEF tokenValueEnd
  <2> DEFINE S == Space(d, One(i))
  <2>2. Left(d, tokenValueEnd(st), v) = After(d, eof, EndArray)
    BY <2>1, LeftShape
  <2>3. Left(d, st, i) \in {After(d, e, EndArray), After(d, Both(S, e), EndArray)}
    BY <1>5, LeftShape
  <2> HIDE DEF eof, e, S
  <2>4. eof \subseteq Both(S, e)
    BY <1>3 DEF Both
  <2>5. /\ After(d, eof, EndArray) \subseteq After(d, e, EndArray)
        /\ After(d, eof, EndArray) \subseteq After(d, Both(S, e), EndArray)
    BY <1>3, <2>4, AfterMore
  <2> QED BY <2>2, <2>3, <2>5
<1>6. CASE st = "ObjectValue"
  <2>1. tokenValueEnd(st) = "ObjectComma"
    BY <1>6 DEF tokenValueEnd
  <2>2. Left(d, tokenValueEnd(st), v) = After(d, mof, EndObject)
    BY <2>1, LeftShape
  <2>3. Left(d, st, i) = After(d, ListBy(d, P, "members", V), EndObject)
    BY <1>6, LeftShape
  <2> HIDE DEF V, P
  <2>4. mof \subseteq ListBy(d, P, "members", V)
    BY <1>1, ListMore
  <2> HIDE DEF mof
  <2>5. After(d, mof, EndObject) \subseteq After(d, ListBy(d, P, "members", V), EndObject)
    BY <2>4, AfterMore
  <2> QED BY <2>2, <2>3, <2>5
<1> QED BY <1>4, <1>5, <1>6 DEF ValueStates

\* So do a separator,
LEMMA LeftSeparator ==
    ASSUME NEW d, NEW i, Here(d, i)
    PROVE  /\ At(d, i, Colon) => Left(d, "ObjectValue", i + 1) \subseteq Left(d, "ObjectColon", i)
           /\ At(d, i, Comma) => Left(d, "ArrayValue", i + 1) \subseteq Left(d, "ArrayComma", i)
           /\ At(d, i, Comma) => Left(d, "ObjectKey", i + 1) \subseteq Left(d, "ObjectComma", i)
<1> DEFINE P == Phrases(d)
           j == i + 1
           S == Space(d, One(i))
<1>1. \A C : At(d, i, C) => One(j) \subseteq After(d, S, C)
  <2> SUFFICES ASSUME NEW C, At(d, i, C) PROVE One(j) \subseteq After(d, S, C)
    OBVIOUS
  <2>1. After(d, One(i), C) = One(j)
    BY AfterOne
  <2>2. One(i) \subseteq S
    BY SpaceHere
  <2> HIDE DEF S, j
  <2> QED BY <2>1, <2>2, AfterMore
<1>2. ASSUME At(d, i, Colon)
      PROVE  Left(d, "ObjectValue", j) \subseteq Left(d, "ObjectColon", i)
  <2> DEFINE A == Space(d, One(j))
             B == Space(d, After(d, S, Colon))
             o(I) == After(d, ListBy(d, P, "members", ValueBy(d, P, I)), EndObject)
  <2>1. A \subseteq B
    BY <1>1, <1>2, SpaceMore
  <2>2. Left(d, "ObjectValue", j) = o(A) /\ Left(d, "ObjectColon", i) = o(B)
    BY LeftShape
  <2> HIDE DEF A, B, P
  <2>3. ValueBy(d, P, A) \subseteq ValueBy(d, P, B)
    BY <2>1, ValueMore
  <2>4. ListBy(d, P, "members", ValueBy(d, P, A)) \subseteq ListBy(d, P, "members", ValueBy(d, P, B))
    BY <2>3, ListMore
  <2>5. o(A) \subseteq o(B)
    BY <2>4, AfterMore
  <2> QED BY <2>2, <2>5
<1>3. ASSUME At(d, i, Comma), NEW X PROVE From(P, X, One(j)) \subseteq ListBy(d, P, X, One(i))
  <2>1. One(j) \subseteq After(d, S, Comma)
    BY <1>1, <1>3
  <2>2. ListBy(d, P, X, One(i)) = Both(S, From(P, X, After(d, S, Comma)))
    BY ListShape
  <2> HIDE DEF S, j, P
  <2>3. From(P, X, One(j)) \subseteq From(P, X, After(d, S, Comma))
    BY <2>1, FromMore
  <2> QED BY <2>2, <2>3 DEF Both
<1>4. ASSUME At(d, i, Comma), NEW X, NEW C
      PROVE  After(d, From(P, X, One(j)), C) \subseteq After(d, ListBy(d, P, X, One(i)), C)
  <2>1. From(P, X, One(j)) \subseteq ListBy(d, P, X, One(i))
    BY <1>3, <1>4
  <2> HIDE DEF j, P
  <2> QED BY <2>1, AfterMore
<1>5. /\ Left(d, "ArrayValue", j) = After(d, From(P, "elements", One(j)), EndArray)
      /\ Left(d, "ArrayComma", i) = After(d, ListBy(d, P, "elements", One(i)), EndArray)
      /\ Left(d, "ObjectKey", j) = After(d, From(P, "members", One(j)), EndObject)
      /\ Left(d, "ObjectComma", i) = After(d, ListBy(d, P, "members", One(i)), EndObject)
  BY LeftShape
<1> HIDE DEF j, P, S
<1> QED BY <1>2, <1>4, <1>5 DEF j

\* the quotes of a key,
LEMMA LeftKey ==
    ASSUME NEW d, NEW i, Here(d, i), Here(d, i + 1),
           At(d, i, QuotationMark), At(d, i + 1, QuotationMark),
           NEW st \in {"ObjectStart", "ObjectKey"}
    PROVE  Left(d, "ObjectColon", i + 1 + 1) \subseteq Left(d, st, i)
<1> DEFINE P == Phrases(d)
           j == i + 1
           k == j + 1
           S == Space(d, One(i))
           m == From(P, "members", One(i))
<1>0. Len(d) \in Nat /\ i \in 1..(Len(d) + 1) /\ j \in 1..(Len(d) + 1)
  BY DEF Here
<1>1. After(d, One(i), QuotationMark) = One(j) /\ After(d, One(j), QuotationMark) = One(k)
  BY AfterOne
<1>2. One(j) \subseteq From(P, "characters", One(j))
  <2>1. From(P, "characters", One(j)) = Both(One(j), From(P, "characters", Character(d, One(j))))
    BY <1>0, PhrasesHere
  <2> QED BY <2>1 DEF Both
<1>3. One(k) \subseteq StringBy(d, P, S)
  <2>1. StringBy(d, P, One(i)) = After(d, From(P, "characters", One(j)), QuotationMark)
    BY <1>1, StringShape
  <2>2. One(i) \subseteq S
    BY SpaceHere
  <2> HIDE DEF S, P, j, k
  <2>3. One(k) \subseteq StringBy(d, P, One(i))
    BY <1>1, <1>2, <2>1, AfterMore
  <2>4. StringBy(d, P, One(i)) \subseteq StringBy(d, P, S)
    BY <2>2, ValueMore
  <2> QED BY <2>3, <2>4
<1>4. m = ListBy(d, P, "members", MemberBy(d, P, S))
  BY <1>0, PhrasesHere
<1> DEFINE V == ValueBy(d, P, Space(d, After(d, Space(d, One(k)), Colon)))
<1>5. V \subseteq MemberBy(d, P, S)
  <2> HIDE DEF S, P, k
  <2>1. Space(d, One(k)) \subseteq Space(d, StringBy(d, P, S))
    BY <1>3, SpaceMore
  <2>2. After(d, Space(d, One(k)), Colon) \subseteq After(d, Space(d, StringBy(d, P, S)), Colon)
    BY <2>1, AfterMore
  <2>3. Space(d, After(d, Space(d, One(k)), Colon))
          \subseteq Space(d, After(d, Space(d, StringBy(d, P, S)), Colon))
    BY <2>2, SpaceMore
  <2> QED BY <2>3, ValueMore, MemberShape
<1>6. ListBy(d, P, "members", V) \subseteq m
  <2> HIDE DEF V, P, S
  <2>1. ListBy(d, P, "members", V) \subseteq ListBy(d, P, "members", MemberBy(d, P, S))
    BY <1>5, ListMore
  <2> QED BY <1>4, <2>1
<1>7. Left(d, "ObjectColon", k) = After(d, ListBy(d, P, "members", V), EndObject)
  BY LeftShape
<1>8. Left(d, st, i) \in {After(d, m, EndObject), After(d, Both(S, m), EndObject)}
  BY LeftShape
<1> DEFINE L == ListBy(d, P, "members", V)
<1> HIDE DEF m, S, L
<1>9. L \subseteq m /\ L \subseteq Both(S, m)
  BY <1>6 DEF Both, L
<1>10. After(d, L, EndObject) \subseteq After(d, m, EndObject) /\ After(d, L, EndObject) \subseteq After(d, Both(S, m), EndObject)
  BY <1>9, AfterMore
<1> QED BY <1>7, <1>8, <1>10 DEF L

\* and a number, which is a value.
LEMMA NumberHere ==
    ASSUME NEW d, NEW i, Here(d, i), At(d, i, DigitNonzero)
    PROVE  i + 1 \in ValueBy(d, Phrases(d), One(i))
<1> DEFINE j == i + 1
           I == One(i)
           M == Both(I, After(d, I, Minus))
<1>0. Len(d) \in Nat /\ j \in 1..(Len(d) + 1)
  BY DEF Here
<1>1. One(j) \subseteq After(d, M, DigitNonzero)
  <2>1. After(d, I, DigitNonzero) = One(j)
    BY AfterOne
  <2>2. I \subseteq M
    BY DEF Both
  <2> HIDE DEF M, j, I
  <2> QED BY <2>1, <2>2, AfterMore
<1>2. One(j) \subseteq Many(d, One(j), Digit)
  <2>1. Many(d, One(j), Digit) = IF At(d, j, Digit) THEN Both(One(j), Many(d, One(j + 1), Digit)) ELSE One(j)
    BY <1>0, ManyOne
  <2> QED BY <2>1 DEF Both
<1>3. One(j) \subseteq Integer(d, M)
  <2> DEFINE A == After(d, M, DigitNonzero)
  <2>1. Both(One(j), A) = A
    BY <1>1, MoreBoth
  <2>2. Integer(d, M) = Both(After(d, M, DigitZero), Many(d, A, Digit))
    BY IntegerShape
  <2> HIDE DEF A, M, j
  <2>3. Many(d, A, Digit) = Both(Many(d, One(j), Digit), Many(d, A, Digit))
    BY <2>1, ManyBoth
  <2> QED BY <1>2, <2>2, <2>3 DEF Both
<1>4. \A J : J \subseteq Exponent(d, J) /\ J \subseteq Fraction(d, J)
  BY ExponentShape, FractionShape DEF Both
<1>5. One(j) \subseteq Number(d, I)
  <2>1. Number(d, I) = Exponent(d, Fraction(d, Integer(d, M)))
    BY NumberShape
  <2> HIDE DEF I, j, M
  <2> QED BY <1>3, <1>4, <2>1
<1>6. Number(d, I) \subseteq ValueBy(d, Phrases(d), I)
  BY ValueShape DEF Both
<1> QED BY <1>5, <1>6 DEF One

\* An array or object that ends where ArrayStart or ObjectStart tells is a value.
LEMMA NestedHere ==
    ASSUME NEW d, NEW i, Here(d, i)
    PROVE  /\ At(d, i, BeginArray) =>
                Left(d, "ArrayStart", i + 1) \subseteq ValueBy(d, Phrases(d), One(i))
           /\ At(d, i, BeginObject) =>
                Left(d, "ObjectStart", i + 1) \subseteq ValueBy(d, Phrases(d), One(i))
<1> DEFINE P == Phrases(d)
           j == i + 1
<1>1. At(d, i, BeginArray) => Left(d, "ArrayStart", j) = ArrayBy(d, P, One(i))
  BY AfterOne, ArrayShape, LeftShape
<1>2. At(d, i, BeginObject) => Left(d, "ObjectStart", j) = ObjectBy(d, P, One(i))
  BY AfterOne, ObjectShape, LeftShape
<1>3. ArrayBy(d, P, One(i)) \subseteq ValueBy(d, P, One(i)) /\ ObjectBy(d, P, One(i)) \subseteq ValueBy(d, P, One(i))
  BY ValueShape DEF Both
<1> QED BY <1>1, <1>2, <1>3

\* Where a closing bracket is taken it closes.
LEMMA LeftClosed ==
    ASSUME NEW d, NEW i, Here(d, i)
    PROVE  /\ At(d, i, EndArray) => \A st \in {"ArrayStart", "ArrayComma"} : i + 1 \in Left(d, st, i)
           /\ At(d, i, EndObject) => \A st \in {"ObjectStart", "ObjectComma"} : i + 1 \in Left(d, st, i)
<1> DEFINE P == Phrases(d)
           S == Space(d, One(i))
           j == i + 1
<1>1. One(i) \subseteq S
  BY SpaceHere
<1>2. ASSUME NEW X, NEW C, At(d, i, C)
      PROVE  /\ j \in After(d, Both(S, From(P, X, One(i))), C)
             /\ j \in After(d, ListBy(d, P, X, One(i)), C)
  <2>1. ListBy(d, P, X, One(i)) = Both(S, From(P, X, After(d, S, Comma)))
    BY ListShape
  <2>2. One(i) \subseteq Both(S, From(P, X, One(i))) /\ One(i) \subseteq ListBy(d, P, X, One(i))
    BY <1>1, <2>1 DEF Both
  <2>3. After(d, One(i), C) = One(j)
    BY <1>2, AfterOne
  <2> HIDE DEF S, P, j
  <2>4. One(j) \subseteq After(d, Both(S, From(P, X, One(i))), C) /\ One(j) \subseteq After(d, ListBy(d, P, X, One(i)), C)
    BY <2>2, <2>3, AfterMore
  <2> QED BY <2>4 DEF One
<1>3. /\ Left(d, "ArrayStart", i) = After(d, Both(S, From(P, "elements", One(i))), EndArray)
      /\ Left(d, "ArrayComma", i) = After(d, ListBy(d, P, "elements", One(i)), EndArray)
      /\ Left(d, "ObjectStart", i) = After(d, Both(S, From(P, "members", One(i))), EndObject)
      /\ Left(d, "ObjectComma", i) = After(d, ListBy(d, P, "members", One(i)), EndObject)
  BY LeftShape
<1> HIDE DEF S, P, j
<1> QED BY <1>2, <1>3 DEF j

---------------------------------------------------------------------------
(* What the pieces do to the state and the stack.                          *)

\* w is the piece at byte i.
HasPiece(d, i, w) == Here(d, i) /\ Here(d, i + 1) /\ d[i] = Byte[w] /\ d[i + 1] = Behind(w)

LEMMA BehindBytes ==
    /\ \A w : w # "Quote" => Behind(w) \in Blank
    /\ Behind("Quote") \in QuotationMark
BY Zenon DEF Behind, Blank, QuotationMark

\* The classes of its two bytes.
LEMMA PieceHere ==
    ASSUME NEW d, NEW i, NEW w, HasPiece(d, i, w)
    PROVE  /\ w = "BeginArray" => At(d, i, BeginArray)
           /\ w = "EndArray" => At(d, i, EndArray)
           /\ w = "BeginObject" => At(d, i, BeginObject)
           /\ w = "EndObject" => At(d, i, EndObject)
           /\ w = "Colon" => At(d, i, Colon)
           /\ w = "Comma" => At(d, i, Comma)
           /\ w = "Quote" => At(d, i, QuotationMark) /\ At(d, i + 1, QuotationMark)
           /\ w = "Scalar" => At(d, i, DigitNonzero)
           /\ w # "Quote" => At(d, i + 1, Blank)
<1>1. i <= Len(d) /\ i + 1 <= Len(d) /\ d[i] = Byte[w] /\ d[i + 1] = Behind(w)
  BY DEF HasPiece, Here
<1>2. /\ Byte["BeginArray"] \in BeginArray /\ Byte["EndArray"] \in EndArray
      /\ Byte["BeginObject"] \in BeginObject /\ Byte["EndObject"] \in EndObject
      /\ Byte["Colon"] \in Colon /\ Byte["Comma"] \in Comma
      /\ Byte["Quote"] \in QuotationMark /\ Byte["Scalar"] \in DigitNonzero
  BY DEF Byte, BeginArray, EndArray, BeginObject, EndObject, Colon, Comma, QuotationMark, DigitNonzero
<1> QED BY <1>1, <1>2, BehindBytes DEF At

\* The pieces that stay in the same array, object or top level.
Moves(w, st, to) ==
    \/ w = "Colon" /\ st = "ObjectColon" /\ to = "ObjectValue"
    \/ w = "Comma" /\ st = "ArrayComma" /\ to = "ArrayValue"
    \/ w = "Comma" /\ st = "ObjectComma" /\ to = "ObjectKey"
    \/ w = "Quote" /\ st \in {"ObjectStart", "ObjectKey"} /\ to = "ObjectColon"
    \/ w = "Scalar" /\ st \in ValueStates /\ to = tokenValueEnd(st)

LEMMA LeftMoves ==
    ASSUME NEW d, NEW i, NEW w, HasPiece(d, i, w), NEW st, NEW to, Moves(w, st, to)
    PROVE  Left(d, to, i + 1 + 1) \subseteq Left(d, st, i)
<1> DEFINE j == i + 1
<1>1. Here(d, i) /\ Here(d, j)
  BY DEF HasPiece
<1>2. w # "Quote" => \A s \in States : Left(d, s, j + 1) \subseteq Left(d, s, j)
  BY <1>1, PieceHere, LeftSpace
<1>3. CASE w = "Quote"
  BY <1>1, <1>3, PieceHere, LeftKey DEF Moves
<1>4. CASE w \in {"Colon", "Comma"}
  <2>1. Left(d, to, j) \subseteq Left(d, st, i) /\ to \in States
    BY <1>1, <1>4, PieceHere, LeftSeparator DEF Moves, States
  <2> QED BY <1>2, <1>4, <2>1
<1>5. CASE w = "Scalar"
  <2>1. j \in ValueBy(d, Phrases(d), One(i))
    BY <1>1, <1>5, PieceHere, NumberHere
  <2>2. st \in ValueStates /\ to = tokenValueEnd(st) /\ to \in States
    BY <1>5, ValueEnd DEF Moves, ValueStates, States
  <2>3. Left(d, to, j) \subseteq Left(d, st, i)
    BY <1>1, <2>1, <2>2, LeftValue
  <2> QED BY <1>2, <1>5, <2>2, <2>3
<1> QED BY <1>3, <1>4, <1>5 DEF Moves

\* The state of the array or object at depth l, once what is open in it ends.
Inside(stack, st, l) == IF l < Len(stack) THEN tokenValueEnd(stack[l + 1]) ELSE st

\* e tells where what is open at each depth goes on, the innermost at byte i,
\* and the stream ends behind the outermost.
EndsAt(d, stack, st, i, e) ==
    /\ e[Len(stack)] = i
    /\ \A l \in 1..Len(stack) : e[l - 1] \in Left(d, Inside(stack, st, l), e[l])
    /\ Len(d) + 1 \in Left(d, Inside(stack, st, 0), e[0])
CanEnd(d, stack, st, i) == \E e : EndsAt(d, stack, st, i, e)

LEMMA EndsMoved ==
    ASSUME NEW d, NEW S, NEW stack \in Seq(S), NEW st, NEW to, NEW i, NEW j,
           Left(d, to, j) \subseteq Left(d, st, i), CanEnd(d, stack, to, j)
    PROVE  CanEnd(d, stack, st, i)
<1>1. PICK n \in Nat : n = Len(stack)
  OBVIOUS
<1>2. PICK e : EndsAt(d, stack, to, j, e)
  BY DEF CanEnd
<1> DEFINE f == [l \in 0..n |-> IF l = n THEN i ELSE e[l]]
<1>3. f[n] = i /\ \A l \in 0..n : l < n => f[l] = e[l]
  BY <1>1
<1>4. /\ Inside(stack, to, n) = to /\ Inside(stack, st, n) = st
      /\ \A l \in 0..n : l < n => Inside(stack, to, l) = Inside(stack, st, l)
  BY <1>1 DEF Inside
<1>5. /\ e[n] = j
      /\ \A l \in 1..n : e[l - 1] \in Left(d, Inside(stack, to, l), e[l])
      /\ Len(d) + 1 \in Left(d, Inside(stack, to, 0), e[0])
  BY <1>1, <1>2 DEF EndsAt
<1> HIDE DEF f
<1>6. ASSUME NEW l \in 1..n PROVE f[l - 1] \in Left(d, Inside(stack, st, l), f[l])
  <2>1. l - 1 \in 0..n /\ l - 1 < n /\ l \in 0..n
    BY <1>1
  <2>2. f[l - 1] \in Left(d, Inside(stack, to, l), e[l])
    BY <1>3, <1>5, <2>1
  <2>3. CASE l = n
    BY <1>3, <1>4, <1>5, <2>2, <2>3
  <2>4. CASE l < n
    BY <1>3, <1>4, <2>1, <2>2, <2>4
  <2> QED BY <2>1, <2>3, <2>4
<1>7. Len(d) + 1 \in Left(d, Inside(stack, st, 0), f[0])
  <2>1. CASE n = 0
    BY <1>3, <1>4, <1>5, <2>1
  <2>2. CASE 0 < n
    <3>1. 0 \in 0..n
      BY <1>1
    <3> QED BY <1>3, <1>4, <1>5, <2>2, <3>1
  <2> QED BY <1>1, <2>1, <2>2
<1> QED BY <1>1, <1>3, <1>6, <1>7 DEF EndsAt, CanEnd

\* An opening delimiter: what is left in it ends a value of the outer one.
LEMMA EndsOpened ==
    ASSUME NEW d, NEW stack \in Seq(ValueStates), NEW st \in ValueStates, NEW to, NEW i, NEW w,
           HasPiece(d, i, w),
           \/ w = "BeginArray" /\ to = "ArrayStart"
           \/ w = "BeginObject" /\ to = "ObjectStart",
           CanEnd(d, Append(stack, st), to, i + 1 + 1)
    PROVE  CanEnd(d, stack, st, i)
<1> DEFINE s == Append(stack, st)
           j == i + 1
<1>1. PICK n \in Nat : n = Len(stack)
  OBVIOUS
<1>2. Len(s) = n + 1 /\ s[n + 1] = st /\ \A l \in 1..n : s[l] = stack[l]
  BY <1>1
<1> HIDE DEF s
<1>3. PICK e : EndsAt(d, s, to, j + 1, e)
  BY DEF CanEnd, s
<1>4. /\ e[n + 1] = j + 1
      /\ \A l \in 1..(n + 1) : e[l - 1] \in Left(d, Inside(s, to, l), e[l])
      /\ Len(d) + 1 \in Left(d, Inside(s, to, 0), e[0])
  BY <1>2, <1>3 DEF EndsAt
<1> DEFINE v == e[n]
           over == tokenValueEnd(st)
<1>5. Inside(s, to, n + 1) = to /\ Inside(s, to, n) = over
  BY <1>2 DEF Inside
<1>6. v \in ValueBy(d, Phrases(d), One(i))
  <2>1. n + 1 \in 1..(n + 1) /\ n + 1 - 1 = n
    BY <1>1
  <2>2. v \in Left(d, to, j + 1)
    BY <1>4, <1>5, <2>1
  <2>3. Here(d, i) /\ Here(d, j) /\ At(d, j, Blank)
    BY PieceHere DEF HasPiece
  <2>4. to \in States
    BY DEF States
  <2>5. v \in Left(d, to, j)
    BY <2>2, <2>3, <2>4, LeftSpace
  <2> QED BY <2>3, <2>5, PieceHere, NestedHere
<1>7. Left(d, over, v) \subseteq Left(d, st, i)
  BY <1>6, LeftValue DEF HasPiece
<1>8. \A l \in 0..n : Inside(s, to, l) = Inside(stack, over, l)
  <2> SUFFICES ASSUME NEW l \in 0..n PROVE Inside(s, to, l) = Inside(stack, over, l)
    OBVIOUS
  <2>1. CASE l < n
    <3>1. l + 1 \in 1..n /\ l < n + 1
      BY <2>1
    <3> QED BY <1>1, <1>2, <2>1, <3>1 DEF Inside
  <2>2. CASE l = n
    BY <1>1, <1>5, <2>2 DEF Inside
  <2> QED BY <2>1, <2>2
<1> HIDE DEF v, over
<1>9. EndsAt(d, stack, over, v, e)
  <2>1. e[Len(stack)] = v
    BY <1>1 DEF v
  <2>2. \A l \in 1..n : l \in 0..n /\ l \in 1..(n + 1)
    OBVIOUS
  <2>3. 0 \in 0..n
    OBVIOUS
  <2> QED BY <1>1, <1>4, <1>8, <2>1, <2>2, <2>3 DEF EndsAt
<1>10. CanEnd(d, stack, over, v)
  BY <1>9 DEF CanEnd
<1> QED BY <1>7, <1>10, EndsMoved

\* A closing one.
LEMMA EndsClosed ==
    ASSUME NEW d, NEW stack \in Seq(ValueStates), Len(stack) > 0, NEW st, NEW i, NEW w,
           HasPiece(d, i, w),
           \/ w = "EndArray" /\ st \in {"ArrayStart", "ArrayComma"}
           \/ w = "EndObject" /\ st \in {"ObjectStart", "ObjectComma"},
           CanEnd(d, SubSeq(stack, 1, Len(stack) - 1), tokenValueEnd(stack[Len(stack)]), i + 1 + 1)
    PROVE  CanEnd(d, stack, st, i)
<1> DEFINE s == SubSeq(stack, 1, Len(stack) - 1)
           to == tokenValueEnd(stack[Len(stack)])
           j == i + 1
<1>1. PICK n \in Nat : n = Len(stack) /\ n > 0
  OBVIOUS
<1>2. s \in Seq(ValueStates) /\ Len(s) = n - 1 /\ \A l \in 1..(n - 1) : s[l] = stack[l]
  BY <1>1
<1>3. to \in States
  <2>1. stack[n] \in ValueStates
    BY <1>1
  <2> QED BY <1>1, <2>1, ValueEnd DEF ValueStates, States
<1>4. Here(d, i) /\ Here(d, j) /\ At(d, j, Blank)
  BY PieceHere DEF HasPiece
<1> HIDE DEF s, to
<1>5. CanEnd(d, s, to, j)
  <2>1. CanEnd(d, s, to, j + 1)
    BY DEF s, to
  <2>2. Left(d, to, j + 1) \subseteq Left(d, to, j)
    BY <1>3, <1>4, LeftSpace
  <2> QED BY <1>2, <2>1, <2>2, EndsMoved
<1>6. PICK e : EndsAt(d, s, to, j, e)
  BY <1>5 DEF CanEnd
<1>7. /\ e[n - 1] = j
      /\ \A l \in 1..(n - 1) : e[l - 1] \in Left(d, Inside(s, to, l), e[l])
      /\ Len(d) + 1 \in Left(d, Inside(s, to, 0), e[0])
  BY <1>2, <1>6 DEF EndsAt
<1>8. \A l \in 0..(n - 1) : Inside(s, to, l) = Inside(stack, st, l)
  <2> SUFFICES ASSUME NEW l \in 0..(n - 1) PROVE Inside(s, to, l) = Inside(stack, st, l)
    OBVIOUS
  <2>1. CASE l < n - 1
    <3>1. l + 1 \in 1..(n - 1) /\ l < n
      BY <2>1
    <3> QED BY <1>1, <1>2, <2>1, <3>1 DEF Inside
  <2>2. CASE l = n - 1
    <3>1. l + 1 = n /\ l < n /\ ~(l < n - 1)
      BY <2>2
    <3> QED BY <1>1, <1>2, <3>1 DEF Inside, to
  <2> QED BY <2>1, <2>2
<1>9. Inside(stack, st, n) = st
  BY <1>1 DEF Inside
<1>10. j \in Left(d, st, i)
  BY <1>4, PieceHere, LeftClosed
<1> DEFINE f == [l \in 0..n |-> IF l = n THEN i ELSE e[l]]
<1>11. f[n] = i /\ \A l \in 0..(n - 1) : f[l] = e[l]
  BY <1>1
<1> HIDE DEF f, j
<1>12. ASSUME NEW l \in 1..n PROVE f[l - 1] \in Left(d, Inside(stack, st, l), f[l])
  <2>1. l - 1 \in 0..(n - 1)
    BY <1>1
  <2>2. CASE l = n
    BY <1>7, <1>9, <1>10, <1>11, <2>1, <2>2
  <2>3. CASE l < n
    <3>1. l \in 1..(n - 1) /\ l \in 0..(n - 1)
      BY <2>3
    <3> QED BY <1>7, <1>8, <1>11, <2>1, <3>1
  <2> QED BY <1>1, <2>2, <2>3
<1>13. Len(d) + 1 \in Left(d, Inside(stack, st, 0), f[0])
  <2>1. 0 \in 0..(n - 1)
    BY <1>1
  <2> QED BY <1>7, <1>8, <1>11, <2>1
<1> QED BY <1>1, <1>11, <1>12, <1>13 DEF EndsAt, CanEnd

---------------------------------------------------------------------------
(* What is taken can be completed to a stream.                             *)

\* d begins with the pieces w.
Pieces(d, w) ==
    /\ Len(d) \in Nat
    /\ 2 * Len(w) <= Len(d)
    /\ \A k \in 1..Len(w) : d[2 * k - 1] = Byte[w[k]] /\ d[2 * k] = Behind(w[k])

\* Every text that begins with what was taken, and in which what is open can
\* end from there, is a stream.
TakenInv ==
    \A d : /\ Pieces(d, text)
           /\ CanEnd(d, tokenStack, tokenState, 2 * Len(text) + 1)
           => IsStream(d)

LEMMA PieceAt ==
    ASSUME NEW d, NEW w, Len(w) \in Nat, Pieces(d, w), NEW k \in 1..Len(w)
    PROVE  HasPiece(d, 2 * k - 1, w[k])
<1>1. 2 * k - 1 \in 1..Len(d) /\ 2 * k \in 1..Len(d) /\ 2 * k - 1 + 1 = 2 * k
  BY DEF Pieces
<1> QED BY <1>1 DEF Pieces, HasPiece, Here

LEMMA TakenInit == Init => TakenInv
<1> SUFFICES ASSUME Init, NEW d, Pieces(d, text),
                    CanEnd(d, tokenStack, tokenState, 2 * Len(text) + 1)
             PROVE  IsStream(d)
  BY DEF TakenInv
<1>1. Len(text) = 0 /\ Len(tokenStack) = 0 /\ tokenState = "TopValue" /\ 2 * Len(text) + 1 = 1
  BY DEF Init
<1>2. PICK e : EndsAt(d, tokenStack, tokenState, 1, e)
  BY <1>1 DEF CanEnd
<1>3. Len(d) + 1 \in Left(d, "TopValue", 1)
  BY <1>1, <1>2 DEF EndsAt, Inside
<1> QED BY <1>3, LeftShape, FromBoth DEF IsStream

\* A step that takes w: if the rest can end behind w, it could before.
LEMMA TakenStep ==
    ASSUME TypeOK, TakenInv, NEW w, text' = Append(text, w), w \in Classes,
           \A d, i : /\ HasPiece(d, i, w)
                     /\ CanEnd(d, tokenStack', tokenState', i + 1 + 1)
                     => CanEnd(d, tokenStack, tokenState, i)
    PROVE  TakenInv'
<1> SUFFICES ASSUME NEW d, Pieces(d, text'),
                    CanEnd(d, tokenStack', tokenState', 2 * Len(text') + 1)
             PROVE  IsStream(d)
  BY DEF TakenInv
<1>1. PICK n \in Nat : n = Len(text)
  BY DEF TypeOK
<1>2. Len(text') = n + 1 /\ text'[n + 1] = w /\ \A k \in 1..n : text'[k] = text[k]
  BY <1>1 DEF TypeOK
<1>3. Pieces(d, text)
  <2>1. \A k \in 1..n : k \in 1..(n + 1)
    OBVIOUS
  <2>2. Len(d) \in Nat /\ 2 * (n + 1) <= Len(d)
    BY <1>2 DEF Pieces
  <2>3. 2 * n <= Len(d)
    BY <2>2
  <2> QED BY <1>1, <1>2, <2>1, <2>2, <2>3 DEF Pieces
<1>4. HasPiece(d, 2 * n + 1, w)
  <2>1. n + 1 \in 1..Len(text') /\ Len(text') \in Nat /\ 2 * (n + 1) - 1 = 2 * n + 1
    BY <1>2
  <2>2. HasPiece(d, 2 * (n + 1) - 1, text'[n + 1])
    BY <2>1, PieceAt
  <2> QED BY <1>2, <2>1, <2>2
<1>5. 2 * Len(text') + 1 = 2 * n + 1 + 1 + 1
  BY <1>2
<1>6. CanEnd(d, tokenStack, tokenState, 2 * n + 1)
  BY <1>4, <1>5
<1> QED BY <1>1, <1>3, <1>6 DEF TakenInv

\* One that takes a piece and stays where it is,
LEMMA TakenMove ==
    ASSUME TypeOK, TakenInv, NEW w \in Classes, Take(w), Moves(w, tokenState, tokenState'),
           UNCHANGED tokenStack
    PROVE  TakenInv'
<1>1. text' = Append(text, w)
  BY DEF Take
<1>2. ASSUME NEW d, NEW i, HasPiece(d, i, w), CanEnd(d, tokenStack', tokenState', i + 1 + 1)
      PROVE  CanEnd(d, tokenStack, tokenState, i)
  <2>1. Left(d, tokenState', i + 1 + 1) \subseteq Left(d, tokenState, i)
    BY <1>2, LeftMoves
  <2>2. tokenStack \in Seq(ValueStates) /\ CanEnd(d, tokenStack, tokenState', i + 1 + 1)
    BY <1>2 DEF TypeOK
  <2> QED BY <2>1, <2>2, EndsMoved
<1> QED BY <1>1, <1>2, TakenStep

\* and one that takes nothing.
LEMMA TakenNothing ==
    ASSUME TakenInv, UNCHANGED <<text, tokenStack, tokenState>>
    PROVE  TakenInv'
BY DEF TakenInv

LEMMA TakenNext ==
    ASSUME IInv, TakenInv, [Next]_vars
    PROVE  TakenInv'
<1>0. TypeOK
  BY DEF IInv
<1>1. CASE TokenOpen
  <2>1. PICK c \in {"BeginArray", "BeginObject"}, s \in {"ArrayStart", "ObjectStart"} :
           /\ Open(c, s)
           /\ \/ c = "BeginArray" /\ s = "ArrayStart"
              \/ c = "BeginObject" /\ s = "ObjectStart"
    BY <1>1 DEF TokenOpen
  <2>2. /\ text' = Append(text, c) /\ c \in Classes
        /\ tokenStack' = Append(tokenStack, tokenState) /\ tokenState' = s
        /\ tokenState \in ValueStates
    BY <2>1 DEF Open, Take, Classes, tokenValueAllowed
  <2>3. ASSUME NEW d, NEW i, HasPiece(d, i, c), CanEnd(d, tokenStack', tokenState', i + 1 + 1)
        PROVE  CanEnd(d, tokenStack, tokenState, i)
    <3>1. tokenStack \in Seq(ValueStates)
      BY <1>0 DEF TypeOK
    <3>2. CanEnd(d, Append(tokenStack, tokenState), s, i + 1 + 1)
      BY <2>2, <2>3
    <3> QED BY <2>1, <2>2, <2>3, <3>1, <3>2, EndsOpened
  <2> QED BY <1>0, <2>2, <2>3, TakenStep
<1>2. CASE TokenClose
  <2>1. PICK c \in {"EndArray", "EndObject"} : \E states :
           /\ Close(c, states)
           /\ \/ c = "EndArray" /\ states = {"ArrayStart", "ArrayComma"}
              \/ c = "EndObject" /\ states = {"ObjectStart", "ObjectComma"}
    BY <1>2 DEF TokenClose
  <2>2. /\ text' = Append(text, c) /\ c \in Classes
        /\ tokenStack' = SubSeq(tokenStack, 1, Len(tokenStack) - 1)
        /\ tokenState' = tokenValueEnd(tokenStack[Len(tokenStack)])
        /\ \/ c = "EndArray" /\ tokenState \in {"ArrayStart", "ArrayComma"}
           \/ c = "EndObject" /\ tokenState \in {"ObjectStart", "ObjectComma"}
    BY <2>1 DEF Close, Take, Classes
  <2>3. Len(tokenStack) > 0 /\ tokenStack \in Seq(ValueStates)
    BY <1>0, <2>2, ClosableIsNested DEF TypeOK
  <2>4. ASSUME NEW d, NEW i, HasPiece(d, i, c), CanEnd(d, tokenStack', tokenState', i + 1 + 1)
        PROVE  CanEnd(d, tokenStack, tokenState, i)
    <3>1. CanEnd(d, SubSeq(tokenStack, 1, Len(tokenStack) - 1),
                 tokenValueEnd(tokenStack[Len(tokenStack)]), i + 1 + 1)
      BY <2>2, <2>4
    <3> QED BY <2>2, <2>3, <2>4, <3>1, EndsClosed
  <2> QED BY <1>0, <2>2, <2>4, TakenStep
<1>3. CASE TokenSeparator \/ DecodeSeparator
  <2>1. PICK c \in {"Comma", "Colon"} : \E call, from, to :
           Separator(call, c, from, to) /\ Moves(c, from, to)
    BY <1>3 DEF TokenSeparator, DecodeSeparator, Moves
  <2>2. c \in Classes /\ Take(c) /\ Moves(c, tokenState, tokenState') /\ UNCHANGED tokenStack
    BY <2>1 DEF Separator, Classes
  <2> QED BY <1>0, <2>2, TakenMove
<1>4. CASE TokenKey
  <2>1. tokenState \in {"ObjectStart", "ObjectKey"} /\ UNCHANGED tokenStack /\ "Quote" \in Classes
    BY <1>4 DEF TokenKey, Classes
  <2>2. CASE Take("Quote") /\ tokenState' = "ObjectColon"
    <3>1. Moves("Quote", tokenState, tokenState')
      BY <2>1, <2>2 DEF Moves
    <3> QED BY <1>0, <2>1, <2>2, <3>1, TakenMove
  <2>3. CASE UNCHANGED <<text, tokenState>>
    BY <2>1, <2>3, TakenNothing
  <2> QED BY <1>4, <2>2, <2>3 DEF TokenKey, ValueRead, ReadFails, Leave
<1>5. CASE TokenScalar \/ DecodeValue
  <2>1. tokenState \in ValueStates /\ UNCHANGED tokenStack /\ "Scalar" \in Classes
    BY <1>5 DEF TokenScalar, DecodeValue, Classes, tokenValueAllowed
  <2>2. CASE Take("Scalar") /\ tokenState' = tokenValueEnd(tokenState)
    <3>1. Moves("Scalar", tokenState, tokenState')
      BY <2>1, <2>2 DEF Moves
    <3> QED BY <1>0, <2>1, <2>2, <3>1, TakenMove
  <2>3. CASE UNCHANGED <<text, tokenState>>
    BY <2>1, <2>3, TakenNothing
  <2> QED BY <1>5, <2>2, <2>3 DEF TokenScalar, DecodeValue, ValueRead, ReadFails, Leave
<1>6. CASE \/ CallToken \/ TokenRefused \/ CallDecode \/ DecodeNoSeparator
           \/ DecodeNotAllowed \/ More \/ UNCHANGED vars
  <2>1. UNCHANGED <<text, tokenStack, tokenState>>
    BY <1>6 DEF CallToken, TokenRefused, CallDecode, DecodeNoSeparator, DecodeNotAllowed, More,
       Refuse, Leave, vars
  <2> QED BY <2>1, TakenNothing
<1> QED BY <1>1, <1>2, <1>3, <1>4, <1>5, <1>6 DEF Next

\* The stream may end where a text does.
LEMMA StreamEnds ==
    ASSUME NEW d, Len(d) \in Nat
    PROVE  Len(d) + 1 \in Left(d, "TopValue", Len(d) + 1)
<1> DEFINE i == Len(d) + 1
           P == Phrases(d)
           V == ValueBy(d, P, Space(d, One(i)))
<1>1. i \in 1..(Len(d) + 1) /\ ~At(d, i, Blank)
  BY DEF At
<1>2. Space(d, One(i)) = One(i)
  BY <1>1, ManyOne, SpaceShape
<1>3. From(P, "texts", One(i)) = Both(Space(d, One(i)), From(P, "texts", V))
  BY <1>1, PhrasesHere
<1>4. Left(d, "TopValue", i) = From(P, "texts", One(i))
  BY LeftShape
<1>5. Left(d, "TopValue", i) = Both(One(i), From(P, "texts", V))
  BY <1>2, <1>3, <1>4
<1> HIDE DEF i, V, P
<1>6. i \in Left(d, "TopValue", i)
  BY <1>5 DEF Both, One
<1> QED BY <1>6 DEF i

\* What closes the delimiter at depth l, and the states it may be taken in.
CloserAt(l) == IF open[l] = "BeginArray" THEN "EndArray" ELSE "EndObject"
Closable(l) ==
    IF open[l] = "BeginArray" THEN {"ArrayStart", "ArrayComma"} ELSE {"ObjectStart", "ObjectComma"}

\* Around what is open, the closing delimiter finds the array or object behind a value.
LEMMA InsideCloses ==
    ASSUME IInv, NEW st
    PROVE  /\ \A l \in 1..Len(open) : l < Len(open) => Inside(tokenStack, st, l) \in Closable(l)
           /\ Len(open) > 0 => Inside(tokenStack, st, 0) = "TopValue"
<1>1. PICK n \in Nat : n = Len(open) /\ n = Len(tokenStack)
  BY DEF IInv, TypeOK, StackMatches
<1>2. ASSUME NEW l \in 1..n, l < n PROVE Inside(tokenStack, st, l) \in Closable(l)
  <2>1. /\ Inside(tokenStack, st, l) = tokenValueEnd(tokenStack[l + 1])
        /\ Within(l) = tokenStack[l + 1] /\ l + 1 \in 1..n
    BY <1>1, <1>2 DEF Inside, Within
  <2>2. tokenStack[l + 1] \in ValueStates
    BY <1>1, <2>1 DEF IInv, TypeOK
  <2>3. tokenStack[l + 1] \in (IF open[l] = "BeginArray" THEN ArrayStates ELSE ObjectStates)
    BY <1>1, <2>1 DEF IInv, StackMatches
  <2> QED BY <2>1, <2>2, <2>3 DEF Closable, tokenValueEnd, ValueStates, ArrayStates, ObjectStates, States
<1>3. ASSUME n > 0 PROVE Inside(tokenStack, st, 0) = "TopValue"
  <2>1. Inside(tokenStack, st, 0) = tokenValueEnd(tokenStack[1]) /\ Within(0) = tokenStack[1]
    BY <1>1, <1>3 DEF Inside, Within
  <2> QED BY <2>1, ValueEnd DEF IInv, StackMatches
<1> QED BY <1>1, <1>2, <1>3

\* What is open ends with its closing delimiters, from the innermost on.
LEMMA ClosingEnds ==
    ASSUME IInv, NEW st,
           IF Len(open) = 0 THEN st = "TopValue" ELSE st \in Closable(Len(open)),
           NEW d, Len(d) \in Nat, NEW r \in Nat, r >= 1, r + 2 * Len(open) = Len(d) + 1,
           \A l \in 1..Len(open) : HasPiece(d, r + 2 * (Len(open) - l), CloserAt(l))
    PROVE  CanEnd(d, tokenStack, st, r)
<1>1. PICK n \in Nat : n = Len(open) /\ n = Len(tokenStack)
  BY DEF IInv, TypeOK, StackMatches
<1> DEFINE b(l) == r + 2 * (n - l)
           e == [l \in 0..n |-> IF l = n THEN r ELSE b(l + 1) + 1]
           in(l) == Inside(tokenStack, st, l)
<1>2. e[n] = r /\ \A l \in 0..n : l < n => e[l] = b(l + 1) + 1
  BY <1>1
<1>3. \A l \in 1..n : HasPiece(d, b(l), CloserAt(l))
  BY <1>1
<1>4. b(n) = r /\ \A l \in 1..n : l < n => b(l + 1) + 1 + 1 = b(l)
  BY <1>1
<1>5. n > 0 => b(1) + 1 + 1 = Len(d) + 1
  BY <1>1
<1> HIDE DEF b, e
<1>6. in(n) = st /\ (n > 0 => in(n) \in Closable(n)) /\ (n = 0 => in(0) = "TopValue")
  BY <1>1 DEF Inside
<1>7. (\A l \in 1..n : in(l) \in Closable(l)) /\ (n > 0 => in(0) = "TopValue")
  <2>1. \A l \in 1..n : l < n => in(l) \in Closable(l)
    BY <1>1, InsideCloses
  <2>2. n > 0 => in(0) = "TopValue"
    BY <1>1, InsideCloses
  <2>3. \A l \in 1..n : l < n \/ l = n
    BY <1>1
  <2> HIDE DEF in
  <2> QED BY <1>1, <1>6, <2>1, <2>2, <2>3
<1> HIDE DEF in
<1>8. \A l \in 1..n : in(l) \in States /\ "TopValue" \in States
  BY <1>7 DEF States, Closable
<1>9. ASSUME NEW l \in 1..n
      PROVE  /\ Here(d, b(l)) /\ Here(d, b(l) + 1)
             /\ At(d, b(l) + 1, Blank)
             /\ b(l) + 1 \in Left(d, in(l), b(l))
  <2> DEFINE w == CloserAt(l)
  <2>1. HasPiece(d, b(l), w)
    BY <1>3
  <2>2. /\ w # "Quote"
        /\ \/ w = "EndArray" /\ Closable(l) = {"ArrayStart", "ArrayComma"}
           \/ w = "EndObject" /\ Closable(l) = {"ObjectStart", "ObjectComma"}
    BY DEF CloserAt, Closable
  <2> HIDE DEF w
  <2>3. Here(d, b(l)) /\ Here(d, b(l) + 1)
    BY <2>1 DEF HasPiece
  <2>4. /\ At(d, b(l) + 1, Blank)
        /\ w = "EndArray" => At(d, b(l), EndArray)
        /\ w = "EndObject" => At(d, b(l), EndObject)
    BY <2>1, <2>2, PieceHere
  <2>5. in(l) \in Closable(l)
    BY <1>7
  <2>6. b(l) + 1 \in Left(d, in(l), b(l))
    BY <2>2, <2>3, <2>4, <2>5, LeftClosed
  <2> QED BY <2>3, <2>4, <2>6
<1>10. ASSUME NEW l \in 1..n PROVE e[l - 1] \in Left(d, in(l), e[l])
  <2>1. l - 1 \in 0..n /\ l - 1 < n /\ l - 1 + 1 = l
    BY <1>1
  <2>2. e[l - 1] = b(l) + 1
    BY <1>2, <2>1
  <2>3. CASE l = n
    BY <1>2, <1>4, <1>9, <2>2, <2>3
  <2>4. CASE l < n
    <3>1. l \in 0..n /\ l + 1 \in 1..n
      BY <2>4
    <3>2. e[l] = b(l + 1) + 1
      BY <1>2, <2>4, <3>1
    <3>3. e[l] + 1 = b(l)
      BY <1>4, <2>4, <3>2
    <3>4. Here(d, e[l]) /\ At(d, e[l], Blank)
      BY <1>9, <3>1, <3>2
    <3>5. Left(d, in(l), b(l)) \subseteq Left(d, in(l), e[l])
      BY <1>8, <3>3, <3>4, LeftSpace
    <3> QED BY <1>9, <2>2, <3>5
  <2>5. l = n \/ l < n
    BY <1>1
  <2> QED BY <2>3, <2>4, <2>5
<1>11. Len(d) + 1 \in Left(d, in(0), e[0])
  <2>1. CASE n = 0
    <3>1. r = Len(d) + 1
      BY <1>1, <2>1
    <3> QED BY <1>2, <1>6, <2>1, <3>1, StreamEnds
  <2>2. CASE n > 0
    <3>1. 0 \in 0..n /\ 0 < n /\ 0 + 1 = 1 /\ 1 \in 1..n
      BY <1>1, <2>2
    <3>2. e[0] = b(1) + 1
      BY <1>2, <3>1
    <3>3. Here(d, e[0]) /\ At(d, e[0], Blank) /\ e[0] + 1 = Len(d) + 1
      BY <1>5, <1>9, <2>2, <3>1, <3>2
    <3>4. Left(d, "TopValue", Len(d) + 1) \subseteq Left(d, "TopValue", e[0])
      BY <1>8, <3>1, <3>3, LeftSpace
    <3> QED BY <1>7, <2>2, <3>4, StreamEnds
  <2>3. n = 0 \/ n > 0
    BY <1>1
  <2> QED BY <2>1, <2>2, <2>3
<1>12. EndsAt(d, tokenStack, st, r, e)
  BY <1>1, <1>2, <1>10, <1>11 DEF EndsAt, in
<1> QED BY <1>12 DEF CanEnd

\* The bytes of pieces are theirs, two of each.
LEMMA BytesPieces ==
    ASSUME NEW S, NEW w \in Seq(S)
    PROVE  Pieces(Bytes(w), w) /\ Len(Bytes(w)) = 2 * Len(w)
<1>1. PICK n \in Nat : n = Len(w)
  OBVIOUS
<1> DEFINE g(k) == LET c == w[(k + 1) \div 2] IN IF k % 2 = 1 THEN Byte[c] ELSE Behind(c)
           d == [k \in 1..(2 * n) |-> g(k)]
<1>2. Bytes(w) = d
  BY <1>1 DEF Bytes
<1>3. Len(d) = 2 * n
  <2> HIDE DEF g
  <2> QED BY <1>1
<1>4. ASSUME NEW k \in 1..n PROVE d[2 * k - 1] = Byte[w[k]] /\ d[2 * k] = Behind(w[k])
  <2>1. 2 * k - 1 \in 1..(2 * n) /\ 2 * k \in 1..(2 * n)
    BY <1>1
  <2>2. d[2 * k - 1] = g(2 * k - 1) /\ d[2 * k] = g(2 * k)
    <3> HIDE DEF g
    <3> QED BY <2>1
  <2>3. /\ (2 * k - 1) % 2 = 1 /\ (2 * k - 1 + 1) \div 2 = k
        /\ (2 * k) % 2 = 0 /\ (2 * k + 1) \div 2 = k
    BY <1>1
  <2>4. g(2 * k - 1) = Byte[w[k]] /\ g(2 * k) = Behind(w[k])
    BY <2>3
  <2> QED BY <2>2, <2>4
<1> HIDE DEF d
<1> QED BY <1>1, <1>2, <1>3, <1>4 DEF Pieces
\* The state in which the array or object can be closed, once what is missing
\* in it has been taken.
Ended(st) ==
    CASE st = "ArrayValue" -> "ArrayComma"
      [] st \in {"ObjectKey", "ObjectColon", "ObjectValue"} -> "ObjectComma"
      [] OTHER -> st

LEMMA RestEnds ==
    ASSUME NEW d, NEW i \in Nat, NEW st \in States,
           \A k \in 1..Len(Rest[st]) : HasPiece(d, i + 2 * (k - 1), Rest[st][k])
    PROVE  Left(d, Ended(st), i + 2 * Len(Rest[st])) \subseteq Left(d, st, i)
<1> DEFINE L(s, j) == Left(d, s, j)
           R == Rest[st]
<1>1. ASSUME NEW j, HasPiece(d, j, "Scalar")
      PROVE  L("ObjectComma", j + 1 + 1) \subseteq L("ObjectValue", j) /\ L("ArrayComma", j + 1 + 1) \subseteq L("ArrayValue", j)
  <2>1. Moves("Scalar", "ObjectValue", "ObjectComma") /\ Moves("Scalar", "ArrayValue", "ArrayComma")
    BY DEF Moves, ValueStates, tokenValueEnd
  <2> QED BY <1>1, <2>1, LeftMoves
<1>2. ASSUME NEW j, HasPiece(d, j, "Colon"), HasPiece(d, j + 1 + 1, "Scalar")
      PROVE  L("ObjectComma", j + 1 + 1 + 1 + 1) \subseteq L("ObjectColon", j)
  <2>1. Moves("Colon", "ObjectColon", "ObjectValue")
    BY DEF Moves
  <2>2. L("ObjectValue", j + 1 + 1) \subseteq L("ObjectColon", j)
    BY <1>2, <2>1, LeftMoves
  <2> QED BY <1>1, <1>2, <2>2
<1>3. ASSUME NEW j, HasPiece(d, j, "Quote"), HasPiece(d, j + 1 + 1, "Colon"),
             HasPiece(d, j + 1 + 1 + 1 + 1, "Scalar")
      PROVE  L("ObjectComma", j + 1 + 1 + 1 + 1 + 1 + 1) \subseteq L("ObjectKey", j)
  <2>1. Moves("Quote", "ObjectKey", "ObjectColon")
    BY DEF Moves
  <2>2. L("ObjectColon", j + 1 + 1) \subseteq L("ObjectKey", j)
    BY <1>3, <2>1, LeftMoves
  <2> QED BY <1>2, <1>3, <2>2
<1> HIDE DEF L
<1>4. CASE st \in {"ArrayValue", "ObjectValue"}
  <2>1. R = <<"Scalar">>
    BY <1>4 DEF Rest
  <2>2. HasPiece(d, i, "Scalar") /\ i + 2 * Len(R) = i + 1 + 1
    <3>1. Len(R) = 1 /\ R[1] = "Scalar" /\ 1 \in 1..1 /\ i + 2 * (1 - 1) = i
      BY <2>1
    <3> QED BY <3>1
  <2>3. Ended(st) = IF st = "ArrayValue" THEN "ArrayComma" ELSE "ObjectComma"
    BY <1>4 DEF Ended
  <2> HIDE DEF R
  <2> QED BY <1>1, <1>4, <2>2, <2>3 DEF L, R
<1>5. CASE st = "ObjectColon"
  <2>1. R = <<"Colon", "Scalar">>
    BY <1>5 DEF Rest
  <2>2. HasPiece(d, i, "Colon") /\ HasPiece(d, i + 1 + 1, "Scalar") /\ i + 2 * Len(R) = i + 1 + 1 + 1 + 1
    <3>1. Len(R) = 2 /\ R[1] = "Colon" /\ R[2] = "Scalar"
      BY <2>1
    <3>2. {1, 2} \subseteq 1..2 /\ i + 2 * (1 - 1) = i /\ i + 2 * (2 - 1) = i + 1 + 1 /\ i + 2 * 2 = i + 1 + 1 + 1 + 1
      OBVIOUS
    <3> QED BY <3>1, <3>2
  <2>3. Ended(st) = "ObjectComma"
    BY <1>5 DEF Ended
  <2> HIDE DEF R
  <2> QED BY <1>2, <1>5, <2>2, <2>3 DEF L, R
<1>6. CASE st = "ObjectKey"
  <2>1. R = <<"Quote", "Colon", "Scalar">>
    BY <1>6 DEF Rest
  <2>2. /\ HasPiece(d, i, "Quote") /\ HasPiece(d, i + 1 + 1, "Colon")
        /\ HasPiece(d, i + 1 + 1 + 1 + 1, "Scalar") /\ i + 2 * Len(R) = i + 1 + 1 + 1 + 1 + 1 + 1
    <3>1. Len(R) = 3 /\ R[1] = "Quote" /\ R[2] = "Colon" /\ R[3] = "Scalar"
      BY <2>1
    <3>2. /\ {1, 2, 3} \subseteq 1..3 /\ i + 2 * (1 - 1) = i /\ i + 2 * (2 - 1) = i + 1 + 1
          /\ i + 2 * (3 - 1) = i + 1 + 1 + 1 + 1 /\ i + 2 * 3 = i + 1 + 1 + 1 + 1 + 1 + 1
      OBVIOUS
    <3> QED BY <3>1, <3>2
  <2>3. Ended(st) = "ObjectComma"
    BY <1>6 DEF Ended
  <2> HIDE DEF R
  <2> QED BY <1>3, <1>6, <2>2, <2>3 DEF L, R
<1>7. CASE st \in {"TopValue", "ArrayStart", "ArrayComma", "ObjectStart", "ObjectComma"}
  <2>1. R = <<>> /\ Ended(st) = st
    BY <1>7 DEF Rest, Ended
  <2>2. i + 2 * Len(R) = i
    BY <2>1
  <2> HIDE DEF R
  <2> QED BY <2>1, <2>2 DEF L, R
<1> QED BY <1>4, <1>5, <1>6, <1>7 DEF States

\* Such a state is one that the innermost delimiter can be closed in.
LEMMA EndedCloses ==
    ASSUME IInv
    PROVE  IF Len(open) = 0 THEN Ended(tokenState) = "TopValue"
           ELSE Ended(tokenState) \in Closable(Len(open))
<1>1. PICK n \in Nat : n = Len(open) /\ n = Len(tokenStack)
  BY DEF IInv, TypeOK, StackMatches
<1>2. Within(n) = tokenState
  BY <1>1 DEF Within
<1>3. CASE n = 0
  <2>1. tokenState = "TopValue"
    BY <1>2, <1>3 DEF IInv, StackMatches
  <2> QED BY <1>1, <1>3, <2>1 DEF Ended
<1>4. CASE n > 0
  <2>1. n \in 1..n
    BY <1>1, <1>4
  <2>2. tokenState \in (IF open[n] = "BeginArray" THEN ArrayStates ELSE ObjectStates)
    BY <1>1, <1>2, <2>1 DEF IInv, StackMatches
  <2>3. Ended(tokenState) \in Closable(n)
    BY <2>2 DEF Ended, Closable, ArrayStates, ObjectStates, States
  <2> QED BY <1>1, <1>4, <2>3
<1> QED BY <1>1, <1>3, <1>4

\* The missing delimiters, the one of the innermost first.
LEMMA ClosingShape ==
    ASSUME TypeOK
    PROVE  /\ Closing \in Seq({"EndArray", "EndObject"}) /\ Len(Closing) = Len(open)
           /\ \A l \in 1..Len(open) : Closing[Len(open) - l + 1] = CloserAt(l)
<1>1. PICK n \in Nat : n = Len(open) /\ DOMAIN open = 1..n
  BY DEF TypeOK
<1> DEFINE c == [l \in 1..n |-> CloserAt(l)]
<1>2. c \in Seq({"EndArray", "EndObject"}) /\ Len(c) = n /\ \A l \in 1..n : c[l] = CloserAt(l)
  BY <1>1 DEF CloserAt
<1>3. [l \in DOMAIN open |-> IF open[l] = "BeginArray" THEN "EndArray" ELSE "EndObject"] = c
  BY <1>1 DEF CloserAt
<1>4. Closing = [l \in 1..Len(c) |-> c[Len(c) - l + 1]]
  BY <1>3 DEF Closing, Reverse
<1> HIDE DEF c
<1>5. Closing = [l \in 1..n |-> c[n - l + 1]]
  BY <1>2, <1>4
<1>6. \A l \in 1..n : n - l + 1 \in 1..n /\ n - (n - l + 1) + 1 = l /\ c[l] \in {"EndArray", "EndObject"}
  BY <1>1, <1>2
<1>7. Closing \in Seq({"EndArray", "EndObject"}) /\ Len(Closing) = n
  BY <1>5, <1>6
<1>8. \A l \in 1..n : Closing[n - l + 1] = CloserAt(l)
  BY <1>2, <1>5, <1>6
<1> QED BY <1>1, <1>7, <1>8

LEMMA SeqMore == \A S, T : S \subseteq T => Seq(S) \subseteq Seq(T)
OBVIOUS

\* So what was taken, completed, is a stream.
LEMMA TakenIsStream ==
    ASSUME IInv, TakenInv
    PROVE  TakesJSON
<1>0. TypeOK
  BY DEF IInv
<1>1. PICK m \in Nat : m = Len(text)
  BY <1>0 DEF TypeOK
<1>2. PICK n \in Nat : n = Len(open)
  BY <1>0 DEF TypeOK
<1> DEFINE R == Rest[tokenState]
           names == DOMAIN Byte \cup Classes
           w == text \o R \o Closing
           d == Bytes(w)
<1>3. R \in Seq(names) /\ text \in Seq(names) /\ Closing \in Seq(names)
  <2>1. R \in {<<>>, <<"Scalar">>, <<"Colon", "Scalar">>, <<"Quote", "Colon", "Scalar">>}
    <3>1. tokenState \in States
      BY <1>0 DEF TypeOK
    <3> QED BY <3>1 DEF States, Rest
  <2>2. {"Quote", "Colon", "Scalar"} \subseteq names /\ Classes \subseteq names /\ {"EndArray", "EndObject"} \subseteq names
    BY DEF Classes
  <2> HIDE DEF names, R
  <2>3. R \in Seq(names)
    <3>1. <<>> \in Seq(names) /\ <<"Scalar">> \in Seq(names)
      BY <2>2
    <3>2. <<"Colon", "Scalar">> \in Seq(names)
      BY <2>2
    <3>3. <<"Quote", "Colon", "Scalar">> \in Seq(names)
      BY <2>2
    <3> QED BY <2>1, <3>1, <3>2, <3>3
  <2>4. text \in Seq(names)
    <3>1. text \in Seq(Classes)
      BY <1>0 DEF TypeOK
    <3> QED BY <2>2, <3>1, SeqMore
  <2>5. Closing \in Seq(names)
    <3>1. Closing \in Seq({"EndArray", "EndObject"})
      BY <1>0, ClosingShape
    <3> QED BY <2>2, <3>1, SeqMore
  <2> QED BY <2>3, <2>4, <2>5
<1>4. PICK q \in Nat : q = Len(R)
  <2> HIDE DEF R, names
  <2> QED BY <1>3
<1>5. Len(Closing) = n /\ \A l \in 1..n : Closing[n - l + 1] = CloserAt(l)
  BY <1>0, <1>2, ClosingShape
<1> HIDE DEF R, names
<1>6. /\ w \in Seq(names) /\ Len(w) = m + q + n
      /\ \A k \in 1..m : w[k] = text[k]
      /\ \A k \in 1..q : w[m + k] = R[k]
      /\ \A k \in 1..n : w[m + q + k] = Closing[k]
  <2> HIDE DEF R
  <2>1. (text \o R) \in Seq(names) /\ Len(text \o R) = m + q
    BY <1>1, <1>3, <1>4
  <2>2. (\A k \in 1..m : (text \o R)[k] = text[k]) /\ (\A k \in 1..q : (text \o R)[m + k] = R[k])
    BY <1>1, <1>3, <1>4
  <2>3. w \in Seq(names) /\ Len(w) = m + q + n
    BY <1>3, <1>5, <2>1
  <2>4. /\ \A k \in 1..(m + q) : w[k] = (text \o R)[k]
        /\ \A k \in 1..n : w[m + q + k] = Closing[k]
    BY <1>3, <1>5, <2>1
  <2>5. (\A k \in 1..m : k \in 1..(m + q)) /\ (\A k \in 1..q : m + k \in 1..(m + q))
    OBVIOUS
  <2> HIDE DEF w
  <2> QED BY <2>2, <2>3, <2>4, <2>5
<1> HIDE DEF w
<1>7. Pieces(d, w) /\ Len(d) = 2 * (m + q + n)
  BY <1>6, BytesPieces
<1> HIDE DEF d
<1>8. ASSUME NEW k \in 1..(m + q + n) PROVE HasPiece(d, 2 * k - 1, w[k])
  BY <1>6, <1>7, PieceAt
<1> DEFINE i == 2 * m + 1
           r == i + 2 * q
<1>9. Pieces(d, text)
  <2>1. Len(d) \in Nat /\ 2 * m <= Len(d) /\ \A k \in 1..m : k \in 1..(m + q + n)
    BY <1>7
  <2>2. \A k \in 1..m : d[2 * k - 1] = Byte[w[k]] /\ d[2 * k] = Behind(w[k])
    BY <1>6, <1>7, <2>1 DEF Pieces
  <2> QED BY <1>1, <1>6, <2>1, <2>2 DEF Pieces
<1>10. \A k \in 1..q : HasPiece(d, i + 2 * (k - 1), R[k])
  <2> SUFFICES ASSUME NEW k \in 1..q PROVE HasPiece(d, i + 2 * (k - 1), R[k])
    OBVIOUS
  <2>1. m + k \in 1..(m + q + n) /\ 2 * (m + k) - 1 = i + 2 * (k - 1)
    OBVIOUS
  <2> HIDE DEF i
  <2> QED BY <1>6, <1>8, <2>1
<1>11. \A l \in 1..n : HasPiece(d, r + 2 * (n - l), CloserAt(l))
  <2> SUFFICES ASSUME NEW l \in 1..n PROVE HasPiece(d, r + 2 * (n - l), CloserAt(l))
    OBVIOUS
  <2> DEFINE k == n - l + 1
  <2>1. k \in 1..n /\ m + q + k \in 1..(m + q + n) /\ 2 * (m + q + k) - 1 = r + 2 * (n - l)
    OBVIOUS
  <2>2. w[m + q + k] = CloserAt(l)
    <3>1. Closing[k] = CloserAt(l)
      BY <1>5
    <3> HIDE DEF k
    <3> QED BY <1>6, <2>1, <3>1
  <2> HIDE DEF r, k
  <2> QED BY <1>8, <2>1, <2>2
<1>12. CanEnd(d, tokenStack, Ended(tokenState), r)
  <2>1. r \in Nat /\ r >= 1 /\ r + 2 * n = Len(d) + 1 /\ Len(d) \in Nat
    BY <1>7
  <2> HIDE DEF r
  <2> QED BY <1>2, <1>11, <2>1, EndedCloses, ClosingEnds
<1>13. CanEnd(d, tokenStack, tokenState, i)
  <2>1. Left(d, Ended(tokenState), i + 2 * Len(Rest[tokenState])) \subseteq Left(d, tokenState, i)
    <3>1. i \in Nat /\ tokenState \in States
      BY <1>0 DEF TypeOK
    <3> HIDE DEF i
    <3> QED BY <1>4, <1>10, <3>1, RestEnds DEF R
  <2>2. tokenStack \in Seq(ValueStates)
    BY <1>0 DEF TypeOK
  <2> HIDE DEF i
  <2> QED BY <1>4, <1>12, <2>1, <2>2, EndsMoved DEF R
<1>14. IsStream(d)
  BY <1>1, <1>9, <1>13 DEF TakenInv
<1> QED BY <1>14 DEF TakesJSON, d, w, R

\* Whatever mix of Token, Decode and More is called, what the Decoder has
\* taken from its stream is a prefix of a sequence of JSON texts: no
\* separator, key or value is taken where none may stand (stream.go:290-447).
THEOREM TakesJSONAlways == Spec => []TakesJSON
<1>1. Init => TakenInv
  BY TakenInit
<1>2. IInv /\ TakenInv /\ [Next]_vars => TakenInv'
  BY TakenNext
<1>3. IInv /\ TakenInv => TakesJSON
  BY TakenIsStream
<1> QED BY <1>1, <1>2, <1>3, Inductive, PTL DEF Spec
=============================================================================
