------------------------- MODULE JSONGrammarProofs -------------------------
(***************************************************************************)
(* Lemmas about the JSON grammar, for any text: its operators as equations *)
(* over unions of sets of positions, and that the recursion that defines   *)
(* its phrases has a solution, so that the phrases obey the rules.         *)
(***************************************************************************)
EXTENDS JSONGrammar, WellFoundedInduction, TLAPS

---------------------------------------------------------------------------
(* The grammar: what each of its operators makes of one position and of a  *)
(* union of sets of positions.                                             *)

\* The byte at i is of the class C.
At(s, i, C) == i <= Len(s) /\ s[i] \in C

\* Sets of positions.  The provers are to see these as they stand: what the
\* grammar's operators do to them are equations.
None == {}
One(i) == {i}
Both(A, B) == A \cup B

\* What sets of positions do under union.
LEMMA BothNone ==
  \A A : Both(A, None) = A /\ Both(None, A) = A /\ Both(A, A) = A
BY DEF Both, None

\* One byte of a class from one position.
LEMMA AfterOne ==
  ASSUME NEW s, NEW i, NEW C
  PROVE  After(s, One(i), C) = IF At(s, i, C) THEN One(i + 1) ELSE None
BY DEF After, At, One, None

\* Each operator of the grammar takes a union of beginnings to the union of the
\* ends: first those that read bytes.
LEMMA AfterBoth ==
  /\ \A s, A, B, C : After(s, Both(A, B), C) = Both(After(s, A, C), After(s, B, C))
  /\ \A s, C : After(s, None, C) = None
BY DEF After, Both, None

\* Any number of bytes: none, or one and any number behind it.
LEMMA ManyOne ==
  ASSUME NEW s, Len(s) \in Nat, NEW i \in 1..(Len(s) + 1), NEW C
  PROVE  Many(s, One(i), C) =
           IF At(s, i, C) THEN Both(One(i), Many(s, One(i + 1), C)) ELSE One(i)
<1> DEFINE M == Many(s, {i}, C)
           R == Many(s, {i + 1}, C)
<1>1. \A j : j \in M <=> j \in 1..(Len(s) + 1) /\ i <= j /\ \A k \in i..(j - 1) : s[k] \in C
  BY DEF Many
<1>2. \A j : j \in R <=> j \in 1..(Len(s) + 1) /\ i + 1 <= j /\ \A k \in (i + 1)..(j - 1) : s[k] \in C
  BY DEF Many
<1> HIDE DEF M, R
<1>3. ASSUME NEW j \in M, j # i PROVE At(s, i, C) /\ j \in R
  <2>1. i \in i..(j - 1) /\ i + 1 <= j /\ i <= Len(s)
    BY <1>1, <1>3
  <2>2. \A k \in (i + 1)..(j - 1) : k \in i..(j - 1)
    OBVIOUS
  <2> QED BY <1>1, <1>2, <1>3, <2>1, <2>2 DEF At
<1>4. i \in M
  BY <1>1
<1>5. ASSUME At(s, i, C), NEW j \in R PROVE j \in M
  <2>1. \A k \in i..(j - 1) : k = i \/ k \in (i + 1)..(j - 1)
    BY <1>2, <1>5
  <2> QED BY <1>1, <1>2, <1>5, <2>1 DEF At
<1> QED BY <1>3, <1>4, <1>5 DEF Both, One, M, R

LEMMA ManyBoth ==
  /\ \A s, A, B, C : Many(s, Both(A, B), C) = Both(Many(s, A, C), Many(s, B, C))
  /\ \A s, C : Many(s, None, C) = None
BY DEF Many, Both, None

LEMMA WordBoth ==
  /\ \A s, A, B, w : Word(s, Both(A, B), w) = Both(Word(s, A, w), Word(s, B, w))
  /\ \A s, w : Word(s, None, w) = None
BY DEF Word, Both, None

LEMMA FromBoth ==
  /\ \A P, X, A, B : From(P, X, Both(A, B)) = Both(From(P, X, A), From(P, X, B))
  /\ \A P, X : From(P, X, None) = None
  /\ \A P, X, i : From(P, X, One(i)) = P[i][X]
BY DEF From, Both, None, One

\* The definitions of the grammar as equations.
LEMMA SpaceShape == \A s, I : Space(s, I) = Many(s, I, Blank)
BY DEF Space

\* The operators of the grammar again, in the terms of Both and One.
LEMMA DigitsShape == \A s, I : SomeDigits(s, I) = Many(s, After(s, I, Digit), Digit)
BY DEF SomeDigits

LEMMA IntegerShape ==
  \A s, I : Integer(s, I) = Both(After(s, I, DigitZero), Many(s, After(s, I, DigitNonzero), Digit))
BY DEF Integer, Both

LEMMA FractionShape == \A s, I : Fraction(s, I) = Both(I, SomeDigits(s, After(s, I, Point)))
BY DEF Fraction, Both

LEMMA ExponentShape ==
  \A s, I : Exponent(s, I) = Both(I, SomeDigits(s, Both(After(s, I, ExpMark),
                                                        After(s, After(s, I, ExpMark), Sign))))
BY DEF Exponent, Both

LEMMA NumberShape ==
  \A s, I : Number(s, I) = Exponent(s, Fraction(s, Integer(s, Both(I, After(s, I, Minus)))))
BY DEF Number, Both

LEMMA HexShape == \A s, I : HexDigit(s, I) = After(s, I, Hex)
BY DEF HexDigit

LEMMA StringShape ==
  \A s, P, I : StringBy(s, P, I) = After(s, From(P, "characters", After(s, I, QuotationMark)),
                                         QuotationMark)
BY DEF StringBy

LEMMA ArrayShape ==
  \A s, P, I : ArrayBy(s, P, I) = After(s, Both(Space(s, After(s, I, BeginArray)),
                                                From(P, "elements", After(s, I, BeginArray))), EndArray)
BY DEF ArrayBy, Both

LEMMA ObjectShape ==
  \A s, P, I : ObjectBy(s, P, I) = After(s, Both(Space(s, After(s, I, BeginObject)),
                                                 From(P, "members", After(s, I, BeginObject))), EndObject)
BY DEF ObjectBy, Both

LEMMA ListShape ==
  \A s, P, X, I : ListBy(s, P, X, I) = Both(Space(s, I), From(P, X, After(s, Space(s, I), Comma)))
BY DEF ListBy, Both

LEMMA MemberShape ==
  \A s, P, I : MemberBy(s, P, I) = ValueBy(s, P, Space(s, After(s, Space(s, StringBy(s, P, I)), Colon)))
BY DEF MemberBy

\* One literal or another.
Literals(s, I) == Both(Word(s, I, <<"t", "r", "u", "e">>),
                       Both(Word(s, I, <<"f", "a", "l", "s", "e">>),
                            Word(s, I, <<"n", "u", "l", "l">>)))

LEMMA ValueShape ==
  \A s, P, I : ValueBy(s, P, I) = Both(Both(Number(s, I), StringBy(s, P, I)),
                                 Both(Both(ArrayBy(s, P, I), ObjectBy(s, P, I)), Literals(s, I)))
BY DEF ValueBy, Both, Literals

\* Four sets, taken in another order.
LEMMA BothBoth ==
  \A A, B, C, D : Both(Both(A, B), Both(C, D)) = Both(Both(A, C), Both(B, D))
BY DEF Both

\* The nonterminals take a union to a union, one after the other.
LEMMA SpaceBoth ==
  /\ \A s, A, B : Space(s, Both(A, B)) = Both(Space(s, A), Space(s, B))
  /\ \A s : Space(s, None) = None
BY ManyBoth, SpaceShape

LEMMA DigitsBoth ==
  /\ \A s, A, B : SomeDigits(s, Both(A, B)) = Both(SomeDigits(s, A), SomeDigits(s, B))
  /\ \A s : SomeDigits(s, None) = None
BY ManyBoth, AfterBoth, DigitsShape

LEMMA FractionBoth ==
  /\ \A s, A, B : Fraction(s, Both(A, B)) = Both(Fraction(s, A), Fraction(s, B))
  /\ \A s : Fraction(s, None) = None
<1>1. ASSUME NEW s, NEW A, NEW B
      PROVE  Fraction(s, Both(A, B)) = Both(Fraction(s, A), Fraction(s, B))
  <2> DEFINE f(I) == SomeDigits(s, After(s, I, Point))
  <2>1. f(Both(A, B)) = Both(f(A), f(B))
    BY DigitsBoth, AfterBoth
  <2>2. \A I : Fraction(s, I) = Both(I, f(I))
    BY FractionShape
  <2> HIDE DEF f
  <2> QED BY <2>1, <2>2, BothBoth
<1>2. \A s : Fraction(s, None) = None
  BY DigitsBoth, AfterBoth, BothNone, FractionShape
<1> QED BY <1>1, <1>2

LEMMA ExponentBoth ==
  /\ \A s, A, B : Exponent(s, Both(A, B)) = Both(Exponent(s, A), Exponent(s, B))
  /\ \A s : Exponent(s, None) = None
<1>1. ASSUME NEW s, NEW A, NEW B
      PROVE  Exponent(s, Both(A, B)) = Both(Exponent(s, A), Exponent(s, B))
  <2> DEFINE e(I) == After(s, I, ExpMark)
             g(I) == After(s, e(I), Sign)
             f(I) == SomeDigits(s, Both(e(I), g(I)))
  <2>1. e(Both(A, B)) = Both(e(A), e(B)) /\ g(Both(A, B)) = Both(g(A), g(B))
    BY AfterBoth
  <2>2. \A I : f(I) = SomeDigits(s, Both(e(I), g(I)))
    OBVIOUS
  <2>3. \A I : Exponent(s, I) = Both(I, f(I))
    BY ExponentShape
  <2> HIDE DEF e, f, g
  <2>4. Both(e(Both(A, B)), g(Both(A, B))) = Both(Both(e(A), g(A)), Both(e(B), g(B)))
    BY <2>1, BothBoth
  <2>5. f(Both(A, B)) = Both(f(A), f(B))
    BY <2>2, <2>4, DigitsBoth
  <2> QED BY <2>3, <2>5, BothBoth
<1>2. \A s : Exponent(s, None) = None
  BY DigitsBoth, AfterBoth, BothNone, ExponentShape
<1> QED BY <1>1, <1>2

LEMMA IntegerBoth ==
  /\ \A s, A, B : Integer(s, Both(A, B)) = Both(Integer(s, A), Integer(s, B))
  /\ \A s : Integer(s, None) = None
<1>1. ASSUME NEW s, NEW A, NEW B
      PROVE  Integer(s, Both(A, B)) = Both(Integer(s, A), Integer(s, B))
  <2> DEFINE f(I) == After(s, I, DigitZero)
             g(I) == Many(s, After(s, I, DigitNonzero), Digit)
  <2>1. f(Both(A, B)) = Both(f(A), f(B)) /\ g(Both(A, B)) = Both(g(A), g(B))
    BY ManyBoth, AfterBoth
  <2>2. \A I : Integer(s, I) = Both(f(I), g(I))
    BY IntegerShape
  <2> HIDE DEF f, g
  <2> QED BY <2>1, <2>2, BothBoth
<1>2. \A s : Integer(s, None) = None
  BY ManyBoth, AfterBoth, BothNone, IntegerShape
<1> QED BY <1>1, <1>2

LEMMA NumberBoth ==
  /\ \A s, A, B : Number(s, Both(A, B)) = Both(Number(s, A), Number(s, B))
  /\ \A s : Number(s, None) = None
<1>1. ASSUME NEW s, NEW A, NEW B
      PROVE  Number(s, Both(A, B)) = Both(Number(s, A), Number(s, B))
  <2> DEFINE f(I) == Both(I, After(s, I, Minus))
  <2>1. After(s, Both(A, B), Minus) = Both(After(s, A, Minus), After(s, B, Minus))
    BY AfterBoth
  <2>2. f(Both(A, B)) = Both(f(A), f(B))
    BY <2>1, BothBoth
  <2>3. \A I : Number(s, I) = Exponent(s, Fraction(s, Integer(s, f(I))))
    BY NumberShape
  <2> HIDE DEF f
  <2> QED BY <2>2, <2>3, IntegerBoth, FractionBoth, ExponentBoth
<1>2. \A s : Number(s, None) = None
  BY IntegerBoth, FractionBoth, ExponentBoth, AfterBoth, BothNone, NumberShape
<1> QED BY <1>1, <1>2

LEMMA StringByBoth ==
  /\ \A s, P, A, B : StringBy(s, P, Both(A, B)) = Both(StringBy(s, P, A), StringBy(s, P, B))
  /\ \A s, P : StringBy(s, P, None) = None
BY AfterBoth, FromBoth, StringShape

LEMMA ArrayByBoth ==
  /\ \A s, P, A, B : ArrayBy(s, P, Both(A, B)) = Both(ArrayBy(s, P, A), ArrayBy(s, P, B))
  /\ \A s, P, A, B : ObjectBy(s, P, Both(A, B)) = Both(ObjectBy(s, P, A), ObjectBy(s, P, B))
  /\ \A s, P : ArrayBy(s, P, None) = None /\ ObjectBy(s, P, None) = None
<1>1. ASSUME NEW s, NEW P, NEW A, NEW B
      PROVE  /\ ArrayBy(s, P, Both(A, B)) = Both(ArrayBy(s, P, A), ArrayBy(s, P, B))
             /\ ObjectBy(s, P, Both(A, B)) = Both(ObjectBy(s, P, A), ObjectBy(s, P, B))
  <2> DEFINE in(J, X) == Both(Space(s, J), From(P, X, J))
  <2>1. \A J, K, X : /\ Space(s, Both(J, K)) = Both(Space(s, J), Space(s, K))
                     /\ From(P, X, Both(J, K)) = Both(From(P, X, J), From(P, X, K))
    BY SpaceBoth, FromBoth
  <2>2. \A J, K, X : in(Both(J, K), X) = Both(in(J, X), in(K, X))
    BY <2>1, BothBoth
  <2>3. /\ \A I : ArrayBy(s, P, I) = After(s, in(After(s, I, BeginArray), "elements"), EndArray)
        /\ \A I : ObjectBy(s, P, I) = After(s, in(After(s, I, BeginObject), "members"), EndObject)
    BY ArrayShape, ObjectShape
  <2> HIDE DEF in
  <2> QED BY <2>2, <2>3, AfterBoth
<1>2. \A s, P : ArrayBy(s, P, None) = None /\ ObjectBy(s, P, None) = None
  BY AfterBoth, FromBoth, SpaceBoth, BothNone, ArrayShape, ObjectShape
<1> QED BY <1>1, <1>2

LEMMA LiteralsBoth ==
  /\ \A s, A, B : Literals(s, Both(A, B)) = Both(Literals(s, A), Literals(s, B))
  /\ \A s : Literals(s, None) = None
BY WordBoth, BothBoth, BothNone DEF Literals

LEMMA ValueByBoth ==
  /\ \A s, P, A, B : ValueBy(s, P, Both(A, B)) = Both(ValueBy(s, P, A), ValueBy(s, P, B))
  /\ \A s, P : ValueBy(s, P, None) = None
BY NumberBoth, StringByBoth, ArrayByBoth, LiteralsBoth, BothBoth, BothNone, ValueShape

LEMMA ListByBoth ==
  /\ \A s, P, X, A, B : ListBy(s, P, X, Both(A, B)) = Both(ListBy(s, P, X, A), ListBy(s, P, X, B))
  /\ \A s, P, X : ListBy(s, P, X, None) = None
<1>1. ASSUME NEW s, NEW P, NEW X, NEW A, NEW B
      PROVE  ListBy(s, P, X, Both(A, B)) = Both(ListBy(s, P, X, A), ListBy(s, P, X, B))
  <2> DEFINE f(J) == From(P, X, After(s, Space(s, J), Comma))
  <2>1. /\ Space(s, Both(A, B)) = Both(Space(s, A), Space(s, B))
        /\ f(Both(A, B)) = Both(f(A), f(B))
    BY AfterBoth, FromBoth, SpaceBoth
  <2>2. \A J : ListBy(s, P, X, J) = Both(Space(s, J), f(J))
    BY ListShape
  <2> HIDE DEF f
  <2> QED BY <2>1, <2>2, BothBoth
<1>2. \A s, P, X : ListBy(s, P, X, None) = None
  BY AfterBoth, FromBoth, SpaceBoth, BothNone, ListShape
<1> QED BY <1>1, <1>2

---------------------------------------------------------------------------
(* Phrases is defined by recursion on the position: a phrase that begins   *)
(* at i is told from phrases that begin later.                             *)

\* Induction on the natural numbers, for a set of them.
LEMMA NatSet ==
  ASSUME NEW T, T \subseteq Nat, 0 \in T, \A n \in T : n + 1 \in T
  PROVE  \A n \in Nat : n \in T
<1> DEFINE R == OpToRel(<, Nat)
           F == Nat \ T
<1>1. IsWellFoundedOn(R, Nat)
  BY NatLessThanWellFounded
<1>2. \A x, y \in Nat : <<y, x>> \in R <=> y < x
  BY DEF OpToRel
<1> HIDE DEF R
<1> SUFFICES ASSUME F # {} PROVE FALSE
  OBVIOUS
<1>3. F \subseteq Nat
  OBVIOUS
<1> HIDE DEF F
<1>4. \E x \in F : \A y \in F : ~(<<y, x>> \in R)
  BY <1>1, <1>3, WFMin, Zenon
<1>5. PICK x \in F : \A y \in F : ~(<<y, x>> \in R)
  BY <1>4
<1>6. x \in Nat /\ \A y \in F : y \in Nat /\ ~(y < x)
  BY <1>2, <1>3, <1>5, Zenon
<1>7. x # 0 /\ x - 1 \in Nat
  BY <1>5, <1>6 DEF F
<1>8. x - 1 \in T
  BY <1>6, <1>7 DEF F
<1>9. x - 1 + 1 \in T
  BY <1>8
<1> QED BY <1>5, <1>6, <1>9 DEF F

\* The positions I are not before i.
Beyond(s, i, I) == I \subseteq i..(Len(s) + 1)

\* What lies beyond a position.
LEMMA BeyondBoth ==
  /\ \A s, i, A, B : Beyond(s, i, A) /\ Beyond(s, i, B) => Beyond(s, i, Both(A, B))
  /\ \A s, i : Beyond(s, i, None)
  /\ \A s : Len(s) \in Nat => \A i \in 1..(Len(s) + 1) : Beyond(s, i, One(i))
  /\ \A s : Len(s) \in Nat => \A i \in Nat : \A I : Beyond(s, i + 1, I) => Beyond(s, i, I)
<1>1. \A s, i, A, B : Beyond(s, i, A) /\ Beyond(s, i, B) => Beyond(s, i, Both(A, B))
  BY DEF Beyond, Both
<1>2. \A s, i : Beyond(s, i, None)
  BY DEF Beyond, None
<1>3. \A s : Len(s) \in Nat => \A i \in 1..(Len(s) + 1) : Beyond(s, i, One(i))
  BY DEF Beyond, One
<1>4. \A s : Len(s) \in Nat => \A i \in Nat : \A I : Beyond(s, i + 1, I) => Beyond(s, i, I)
  BY DEF Beyond
<1> QED BY <1>1, <1>2, <1>3, <1>4

\* A text and a position in it.
In(s, i) == Len(s) \in Nat /\ i \in Nat /\ 1 <= i

\* No operator of the grammar goes back, and reading a byte goes on.
LEMMA AfterBeyond ==
  \A s, i, I, C : In(s, i) /\ Beyond(s, i, I) =>
     /\ Beyond(s, i + 1, After(s, I, C)) /\ Beyond(s, i, After(s, I, C))
     /\ Beyond(s, i + 1, AfterOther(s, I, C))
BY DEF In, Beyond, After, AfterOther

LEMMA ManyBeyond ==
  \A s, i, I, C : In(s, i) /\ Beyond(s, i, I) => Beyond(s, i, Many(s, I, C))
BY DEF In, Beyond, Many

LEMMA SpaceBeyond ==
  \A s, i, I : In(s, i) /\ Beyond(s, i, I) => Beyond(s, i, Space(s, I))
BY ManyBeyond, SpaceShape

LEMMA NumberBeyond ==
  \A s, i, I : In(s, i) /\ Beyond(s, i, I) => Beyond(s, i + 1, Number(s, I))
<1>0. \A s, i : In(s, i) => In(s, i + 1)
  BY DEF In
<1>1. \A s, i, I : In(s, i) /\ Beyond(s, i, I) => Beyond(s, i + 1, Integer(s, I))
  BY <1>0, AfterBeyond, ManyBeyond, BeyondBoth, IntegerShape
<1>2. \A s, i, I : In(s, i) /\ Beyond(s, i, I) => Beyond(s, i, SomeDigits(s, I))
  BY AfterBeyond, ManyBeyond, DigitsShape
<1>3. \A s, i, I : In(s, i) /\ Beyond(s, i, I) => Beyond(s, i, Fraction(s, I))
  BY <1>2, AfterBeyond, BeyondBoth, FractionShape
<1>4. \A s, i, I : In(s, i) /\ Beyond(s, i, I) => Beyond(s, i, Exponent(s, I))
  BY <1>2, AfterBeyond, BeyondBoth, ExponentShape
<1>5. \A s, i, I : In(s, i) /\ Beyond(s, i, I) => Beyond(s, i, Both(I, After(s, I, Minus)))
  BY AfterBeyond, BeyondBoth
<1> QED BY <1>0, <1>1, <1>3, <1>4, <1>5, NumberShape

LEMMA LiteralsBeyond ==
  \A s, i, I : In(s, i) /\ Beyond(s, i, I) => Beyond(s, i + 1, Literals(s, I))
<1>1. ASSUME NEW s, NEW i, NEW I, NEW w, Len(w) \in Nat \ {0}, In(s, i), Beyond(s, i, I)
      PROVE  Beyond(s, i + 1, Word(s, I, w))
  <2> SUFFICES ASSUME NEW k \in Word(s, I, w) PROVE k \in (i + 1)..(Len(s) + 1)
    BY DEF Beyond
  <2>1. PICK j \in I : j + Len(w) <= Len(s) + 1 /\ k = j + Len(w)
    BY DEF Word
  <2>2. j \in i..(Len(s) + 1)
    BY <1>1 DEF Beyond
  <2> QED BY <1>1, <2>1, <2>2 DEF In
<1>2. Len(<<"t", "r", "u", "e">>) = 4
  OBVIOUS
<1>4. Len(<<"f", "a", "l", "s", "e">>) = 5
  OBVIOUS
<1>5. Len(<<"n", "u", "l", "l">>) = 4
  OBVIOUS
<1>3. ASSUME NEW s, NEW i, NEW I, In(s, i), Beyond(s, i, I)
      PROVE  /\ Beyond(s, i + 1, Word(s, I, <<"t", "r", "u", "e">>))
             /\ Beyond(s, i + 1, Word(s, I, <<"f", "a", "l", "s", "e">>))
             /\ Beyond(s, i + 1, Word(s, I, <<"n", "u", "l", "l">>))
  <2> DEFINE t == <<"t", "r", "u", "e">>
             f == <<"f", "a", "l", "s", "e">>
             n == <<"n", "u", "l", "l">>
  <2>1. Len(t) \in Nat \ {0} /\ Len(f) \in Nat \ {0} /\ Len(n) \in Nat \ {0}
    BY <1>2, <1>4, <1>5
  <2> HIDE DEF t, f, n
  <2>2. /\ Beyond(s, i + 1, Word(s, I, t)) /\ Beyond(s, i + 1, Word(s, I, f))
        /\ Beyond(s, i + 1, Word(s, I, n))
    BY <1>1, <1>3, <2>1
  <2> QED BY <2>2 DEF t, f, n
<1> QED BY <1>3, BeyondBoth DEF Literals

CharacterAfter(s, I) ==
    Both(AfterOther(s, I, QuotationMark \cup Backslash \cup Control),
         Both(After(s, After(s, I, Backslash), Escapable),
              HexDigit(s, HexDigit(s, HexDigit(s, HexDigit(s,
                 After(s, After(s, I, Backslash), {"u"})))))))

\* One character of a string, and that it takes at least a byte.
LEMMA CharacterShape == \A s, I : Character(s, I) = CharacterAfter(s, I)
BY DEF Character, CharacterAfter, Both

LEMMA CharacterBeyond ==
  ASSUME NEW s, NEW i, NEW I, In(s, i), Beyond(s, i, I)
  PROVE  Beyond(s, i + 1, Character(s, I))
<1> DEFINE u == {"u"}
           other == QuotationMark \cup Backslash \cup Control
<1> HIDE DEF u, other
<1>1. In(s, i + 1)
  BY DEF In
<1>2. /\ Beyond(s, i + 1, AfterOther(s, I, other))
      /\ Beyond(s, i + 1, After(s, I, Backslash))
  BY AfterBeyond
<1>3. \A J, C : Beyond(s, i + 1, J) => Beyond(s, i + 1, After(s, J, C))
  BY <1>1, AfterBeyond
<1>4. \A J : Beyond(s, i + 1, J) => Beyond(s, i + 1, HexDigit(s, J))
  BY <1>3, HexShape
<1>5. Beyond(s, i + 1, HexDigit(s, HexDigit(s, HexDigit(s, HexDigit(s,
                 After(s, After(s, I, Backslash), u))))))
  BY <1>2, <1>3, <1>4
<1>6. Beyond(s, i + 1, After(s, After(s, I, Backslash), Escapable))
  BY <1>2, <1>3
<1>7. Beyond(s, i + 1, CharacterAfter(s, I))
  BY <1>2, <1>5, <1>6, BeyondBoth DEF CharacterAfter, u, other
<1> QED BY <1>7, CharacterShape

\* Phrases that begin at i or later end no earlier; P and R agree on them.
Typed(s, P, i) == \A j \in i..(Len(s) + 1) : \A X \in Nonterminals : Beyond(s, j, P[j][X])
Agree(s, P, R, i) == \A j \in i..(Len(s) + 1) : P[j] = R[j]

\* What is told of phrases that begin at i or later, or behind i if nothing
\* has been read.
Local(s, P, R, i) ==
    /\ In(s, i)
    /\ Typed(s, P, i + 1)
    /\ Agree(s, P, R, i + 1)

\* What begins at i is told from the part of P behind i: so it is for each of the
\* nonterminals that refer to P.
LEMMA FromLocal ==
  ASSUME NEW s, NEW i, NEW P, NEW R, Local(s, P, R, i),
         NEW X \in Nonterminals, NEW I, Beyond(s, i + 1, I)
  PROVE  From(P, X, I) = From(R, X, I) /\ Beyond(s, i + 1, From(P, X, I))
<1>1. \A j \in I : j \in (i + 1)..(Len(s) + 1)
  BY DEF Beyond
<1>2. \A j \in I : P[j][X] = R[j][X] /\ P[j][X] \subseteq (i + 1)..(Len(s) + 1)
  <2> SUFFICES ASSUME NEW j \in I
               PROVE  P[j][X] = R[j][X] /\ P[j][X] \subseteq (i + 1)..(Len(s) + 1)
    OBVIOUS
  <2>1. j \in (i + 1)..(Len(s) + 1)
    BY <1>1
  <2>2. P[j] = R[j] /\ P[j][X] \subseteq j..(Len(s) + 1)
    BY <2>1 DEF Local, Typed, Agree, Beyond
  <2>3. \A k \in j..(Len(s) + 1) : k \in (i + 1)..(Len(s) + 1)
    BY <2>1 DEF Local, In
  <2> QED BY <2>2, <2>3
<1> QED BY <1>2 DEF From, Beyond

LEMMA StringLocal ==
  ASSUME NEW s, NEW i, NEW P, NEW R, Local(s, P, R, i), NEW I, Beyond(s, i, I)
  PROVE  StringBy(s, P, I) = StringBy(s, R, I) /\ Beyond(s, i + 1, StringBy(s, P, I))
<1> DEFINE J == After(s, I, QuotationMark)
           K == From(P, "characters", J)
<1>0. "characters" \in Nonterminals
  BY DEF Nonterminals
<1>1. Beyond(s, i + 1, J)
  BY AfterBeyond DEF Local
<1>2. K = From(R, "characters", J) /\ Beyond(s, i + 1, K)
  <2> HIDE DEF J
  <2> QED BY <1>0, <1>1, FromLocal
<1>3. In(s, i + 1)
  BY DEF Local, In
<1>4. StringBy(s, P, I) = After(s, K, QuotationMark) /\ StringBy(s, R, I) = After(s, K, QuotationMark)
  BY <1>2, StringShape
<1> HIDE DEF K
<1> QED BY <1>2, <1>3, <1>4, AfterBeyond

LEMMA ArrayLocal ==
  ASSUME NEW s, NEW i, NEW P, NEW R, Local(s, P, R, i), NEW I, Beyond(s, i, I)
  PROVE  /\ ArrayBy(s, P, I) = ArrayBy(s, R, I) /\ Beyond(s, i + 1, ArrayBy(s, P, I))
         /\ ObjectBy(s, P, I) = ObjectBy(s, R, I) /\ Beyond(s, i + 1, ObjectBy(s, P, I))
<1>0. "elements" \in Nonterminals /\ "members" \in Nonterminals
  BY DEF Nonterminals
<1>1. ASSUME NEW X \in Nonterminals, NEW C, NEW D
      PROVE  LET J == After(s, I, C) IN
             /\ From(P, X, J) = From(R, X, J)
             /\ Beyond(s, i + 1, After(s, Both(Space(s, J), From(P, X, J)), D))
  <2> DEFINE J == After(s, I, C)
             B == Both(Space(s, J), From(P, X, J))
  <2>1. Beyond(s, i + 1, J) /\ In(s, i + 1)
    BY AfterBeyond DEF Local, In
  <2>2. From(P, X, J) = From(R, X, J) /\ Beyond(s, i + 1, From(P, X, J))
    <3> HIDE DEF J
    <3> QED BY <2>1, FromLocal
  <2>3. Beyond(s, i + 1, Space(s, J))
    BY <2>1, SpaceBeyond
  <2>4. Beyond(s, i + 1, B)
    BY <2>2, <2>3, BeyondBoth
  <2> HIDE DEF B
  <2>5. Beyond(s, i + 1, After(s, B, D))
    BY <2>1, <2>4, AfterBeyond
  <2> QED BY <2>2, <2>5 DEF B
<1> QED BY <1>0, <1>1, ArrayShape, ObjectShape

\* A value has at least one byte.
LEMMA ValueLocal ==
  ASSUME NEW s, NEW i, NEW P, NEW R, Local(s, P, R, i), NEW I, Beyond(s, i, I)
  PROVE  /\ ValueBy(s, P, I) = ValueBy(s, R, I)
         /\ Beyond(s, i + 1, ValueBy(s, P, I)) /\ Beyond(s, i, ValueBy(s, P, I))
<1>1. Beyond(s, i + 1, Number(s, I)) /\ Beyond(s, i + 1, Literals(s, I))
  BY NumberBeyond, LiteralsBeyond DEF Local
<1>2. /\ StringBy(s, P, I) = StringBy(s, R, I) /\ Beyond(s, i + 1, StringBy(s, P, I))
      /\ ArrayBy(s, P, I) = ArrayBy(s, R, I) /\ Beyond(s, i + 1, ArrayBy(s, P, I))
      /\ ObjectBy(s, P, I) = ObjectBy(s, R, I) /\ Beyond(s, i + 1, ObjectBy(s, P, I))
  BY StringLocal, ArrayLocal
<1>3. ValueBy(s, P, I) = ValueBy(s, R, I) /\ Beyond(s, i + 1, ValueBy(s, P, I))
  BY <1>1, <1>2, BeyondBoth, ValueShape
<1>4. Beyond(s, i, ValueBy(s, P, I))
  BY <1>3, BeyondBoth DEF Local, In
<1> QED BY <1>3, <1>4

LEMMA MemberLocal ==
  ASSUME NEW s, NEW i, NEW P, NEW R, Local(s, P, R, i), NEW I, Beyond(s, i, I)
  PROVE  MemberBy(s, P, I) = MemberBy(s, R, I) /\ Beyond(s, i, MemberBy(s, P, I))
<1> DEFINE J == Space(s, After(s, Space(s, StringBy(s, P, I)), Colon))
<1>0. Len(s) \in Nat /\ i \in Nat
  BY DEF Local, In
<1>1. StringBy(s, P, I) = StringBy(s, R, I) /\ Beyond(s, i, StringBy(s, P, I))
  BY <1>0, StringLocal, BeyondBoth
<1>2. Beyond(s, i, J)
  BY <1>1, SpaceBeyond, AfterBeyond DEF Local
<1>3. MemberBy(s, P, I) = ValueBy(s, P, J) /\ MemberBy(s, R, I) = ValueBy(s, R, J)
  BY <1>1, MemberShape
<1> HIDE DEF J
<1> QED BY <1>2, <1>3, ValueLocal

LEMMA ListLocal ==
  ASSUME NEW s, NEW i, NEW P, NEW R, Local(s, P, R, i), NEW I, Beyond(s, i, I),
         NEW X \in Nonterminals
  PROVE  ListBy(s, P, X, I) = ListBy(s, R, X, I) /\ Beyond(s, i, ListBy(s, P, X, I))
<1> DEFINE J == After(s, Space(s, I), Comma)
<1>1. Beyond(s, i, Space(s, I))
  BY SpaceBeyond DEF Local
<1>2. Beyond(s, i + 1, J)
  BY <1>1, AfterBeyond DEF Local
<1>3. /\ ListBy(s, P, X, I) = Both(Space(s, I), From(P, X, J))
      /\ ListBy(s, R, X, I) = Both(Space(s, I), From(R, X, J))
  BY ListShape
<1> HIDE DEF J
<1>4. From(P, X, J) = From(R, X, J) /\ Beyond(s, i + 1, From(P, X, J))
  BY <1>2, FromLocal
<1>5. Beyond(s, i, From(P, X, J))
  BY <1>4, BeyondBoth DEF Local, In
<1> QED BY <1>1, <1>3, <1>4, <1>5, BeyondBoth

\* The rules, in the terms of Both and One.
LEMMA RuleShape ==
  ASSUME NEW s, NEW P, NEW i
  PROVE  /\ Rule(s, P, "characters", i) = Both(One(i), From(P, "characters", Character(s, One(i))))
         /\ Rule(s, P, "elements", i) =
              ListBy(s, P, "elements", ValueBy(s, P, Space(s, One(i))))
         /\ Rule(s, P, "members", i) =
              ListBy(s, P, "members", MemberBy(s, P, Space(s, One(i))))
         /\ Rule(s, P, "texts", i) =
              Both(Space(s, One(i)), From(P, "texts", ValueBy(s, P, Space(s, One(i)))))
<1>1. Rule(s, P, "characters", i) = {i} \cup From(P, "characters", Character(s, {i}))
  BY DEF Rule
<1>2. Rule(s, P, "elements", i) = ListBy(s, P, "elements", ValueBy(s, P, Space(s, {i})))
  BY DEF Rule
<1>3. Rule(s, P, "members", i) = ListBy(s, P, "members", MemberBy(s, P, Space(s, {i})))
  BY DEF Rule
<1>4. Rule(s, P, "texts", i) = Space(s, {i}) \cup From(P, "texts", ValueBy(s, P, Space(s, {i})))
  BY DEF Rule
<1> QED BY <1>1, <1>2, <1>3, <1>4, Zenon DEF Both, One

\* The rules at i look only at what begins later.
LEMMA RuleLocal ==
  ASSUME NEW s, NEW i, NEW P, NEW R, Local(s, P, R, i), i <= Len(s) + 1, NEW X \in Nonterminals
  PROVE  Rule(s, P, X, i) = Rule(s, R, X, i) /\ Beyond(s, i, Rule(s, P, X, i))
<1>0. In(s, i) /\ Beyond(s, i, One(i))
  BY BeyondBoth DEF Local, In
<1>1. CASE X = "characters"
  <2> DEFINE C == Character(s, One(i))
  <2>1. Beyond(s, i + 1, C)
    BY <1>0, CharacterBeyond
  <2>2. /\ Rule(s, P, X, i) = Both(One(i), From(P, X, C))
        /\ Rule(s, R, X, i) = Both(One(i), From(R, X, C))
    BY <1>1, RuleShape
  <2> HIDE DEF C
  <2>3. From(P, X, C) = From(R, X, C) /\ Beyond(s, i + 1, From(P, X, C))
    BY <2>1, FromLocal
  <2>4. Beyond(s, i, From(P, X, C))
    BY <1>0, <2>3, BeyondBoth DEF In
  <2> QED BY <1>0, <2>2, <2>3, <2>4, BeyondBoth
<1> DEFINE S == Space(s, One(i))
<1>2. Beyond(s, i, S)
  BY <1>0, SpaceBeyond
<1>3. CASE X = "elements"
  <2>1. /\ Rule(s, P, X, i) = ListBy(s, P, X, ValueBy(s, P, S))
        /\ Rule(s, R, X, i) = ListBy(s, R, X, ValueBy(s, R, S))
    BY <1>3, RuleShape
  <2> HIDE DEF S
  <2>2. ValueBy(s, P, S) = ValueBy(s, R, S) /\ Beyond(s, i, ValueBy(s, P, S))
    BY <1>2, ValueLocal
  <2> QED BY <2>1, <2>2, ListLocal
<1>4. CASE X = "members"
  <2>1. /\ Rule(s, P, X, i) = ListBy(s, P, X, MemberBy(s, P, S))
        /\ Rule(s, R, X, i) = ListBy(s, R, X, MemberBy(s, R, S))
    BY <1>4, RuleShape
  <2> HIDE DEF S
  <2>2. MemberBy(s, P, S) = MemberBy(s, R, S) /\ Beyond(s, i, MemberBy(s, P, S))
    BY <1>2, MemberLocal
  <2> QED BY <2>1, <2>2, ListLocal
<1>5. CASE X = "texts"
  <2> DEFINE V == ValueBy(s, P, S)
  <2>1. /\ Rule(s, P, X, i) = Both(S, From(P, X, V))
        /\ Rule(s, R, X, i) = Both(S, From(R, X, ValueBy(s, R, S)))
    BY <1>5, RuleShape
  <2> HIDE DEF S
  <2>2. V = ValueBy(s, R, S) /\ Beyond(s, i + 1, V)
    BY <1>2, ValueLocal
  <2> HIDE DEF V
  <2>3. From(P, X, V) = From(R, X, V) /\ Beyond(s, i + 1, From(P, X, V))
    BY <2>2, FromLocal
  <2>4. Beyond(s, i, From(P, X, V))
    BY <1>0, <2>3, BeyondBoth DEF In
  <2> QED BY <1>2, <2>1, <2>2, <2>3, <2>4, BeyondBoth
<1> QED BY <1>1, <1>3, <1>4, <1>5 DEF Nonterminals

\* The functions that the recursion describes from position i on.
Solves(s, P, i) ==
    \A j \in i..(Len(s) + 1) : P[j] = [X \in Nonterminals |-> Rule(s, P, X, j)]

\* So a solution for the later positions extends to i.
LEMMA SolvesNext ==
  ASSUME NEW s, NEW i, In(s, i), i <= Len(s) + 1,
         NEW P, Typed(s, P, i + 1), Solves(s, P, i + 1)
  PROVE  \E R : /\ R = [j \in 1..(Len(s) + 1) |->
                          IF j = i THEN [X \in Nonterminals |-> Rule(s, P, X, i)] ELSE P[j]]
                /\ Typed(s, R, i) /\ Solves(s, R, i)
<1> DEFINE N == Len(s) + 1
           r == [X \in Nonterminals |-> Rule(s, P, X, i)]
           R == [j \in 1..N |-> IF j = i THEN r ELSE P[j]]
<1>1. i \in 1..N /\ N \in Nat
  BY DEF In
<1>2. R[i] = r /\ \A j \in (i + 1)..N : j \in 1..N /\ R[j] = P[j]
  BY <1>1
<1> HIDE DEF R, r
<1>3. \A j \in i..N : j = i \/ j \in (i + 1)..N
  BY <1>1
<1>4. ASSUME NEW k \in i..N, NEW X \in Nonterminals
      PROVE  Rule(s, P, X, k) = Rule(s, R, X, k) /\ Beyond(s, k, Rule(s, P, X, k))
  <2>1. In(s, k) /\ k <= Len(s) + 1
    BY <1>1 DEF In
  <2>2. \A j \in (k + 1)..N : j \in (i + 1)..N
    BY <1>1
  <2>3. Local(s, P, R, k)
    BY <1>2, <2>1, <2>2 DEF Local, Typed, Agree, N
  <2> QED BY <2>1, <2>3, RuleLocal
<1>5. i \in i..N /\ \A j \in (i + 1)..N : j \in i..N
  BY <1>1
<1>6. \A X \in Nonterminals : r[X] = Rule(s, P, X, i)
  BY DEF r
<1>7. Typed(s, R, i)
  <2> SUFFICES ASSUME NEW j \in i..N, NEW X \in Nonterminals PROVE Beyond(s, j, R[j][X])
    BY DEF Typed, N
  <2>1. CASE j = i
    BY <1>2, <1>4, <1>6, <2>1
  <2>2. CASE j \in (i + 1)..N
    BY <1>2, <2>2 DEF Typed, N
  <2> QED BY <1>3, <2>1, <2>2
<1>8. Solves(s, R, i)
  <2> SUFFICES ASSUME NEW j \in i..N PROVE R[j] = [X \in Nonterminals |-> Rule(s, R, X, j)]
    BY DEF Solves, N
  <2>1. [X \in Nonterminals |-> Rule(s, P, X, j)] = [X \in Nonterminals |-> Rule(s, R, X, j)]
    BY <1>4
  <2>2. CASE j = i
    BY <1>2, <2>1, <2>2 DEF r
  <2>3. CASE j \in (i + 1)..N
    BY <1>2, <2>1, <2>3 DEF Solves, N
  <2> QED BY <1>3, <2>2, <2>3
<1> QED BY <1>7, <1>8 DEF R, r, N

\* The recursion has a solution.
LEMMA SolutionExists ==
  ASSUME NEW s, Len(s) \in Nat
  PROVE  \E P : P = [i \in 1..(Len(s) + 1) |-> [X \in Nonterminals |-> Rule(s, P, X, i)]]
<1> DEFINE N == Len(s) + 1
           Upto(n) == \E P : Typed(s, P, N + 1 - n) /\ Solves(s, P, N + 1 - n)
           T == {n \in Nat : n <= N => Upto(n)}
<1>1. N \in Nat
  OBVIOUS
<1>2. Upto(0)
  <2>1. \A P : Typed(s, P, N + 1) /\ Solves(s, P, N + 1)
    BY DEF Typed, Solves
  <2> QED BY <1>1, <2>1
<1>3. ASSUME NEW n \in Nat, n + 1 <= N, Upto(n) PROVE Upto(n + 1)
  <2> DEFINE i == N - n
  <2>1. In(s, i) /\ i <= Len(s) + 1 /\ N + 1 - n = i + 1 /\ N + 1 - (n + 1) = i
    BY <1>1, <1>3 DEF In
  <2>2. PICK P : Typed(s, P, i + 1) /\ Solves(s, P, i + 1)
    BY <1>3, <2>1
  <2> HIDE DEF i, N
  <2>3. \E R : Typed(s, R, i) /\ Solves(s, R, i)
    BY <2>1, <2>2, SolvesNext, Zenon
  <2> QED BY <2>1, <2>3
<1>4. \A n \in Nat : n \in T
  <2> HIDE DEF Upto, N
  <2>1. T \subseteq Nat /\ 0 \in T
    BY <1>2
  <2>2. \A n \in T : n + 1 \in T
    <3> SUFFICES ASSUME NEW n \in T PROVE n + 1 \in T
      OBVIOUS
    <3>1. n + 1 <= N => n <= N
      BY <1>1
    <3> QED BY <1>3, <3>1
  <2> HIDE DEF T
  <2> QED BY <2>1, <2>2, NatSet
<1>5. Upto(N)
  <2> HIDE DEF Upto, N
  <2> QED BY <1>1, <1>4
<1>6. N + 1 - N = 1
  BY <1>1
<1>7. PICK P : Solves(s, P, 1) /\ Typed(s, P, 1)
  BY <1>5, <1>6
<1> DEFINE R == [i \in 1..N |-> P[i]]
<1>8. \A i \in 1..N : R[i] = P[i]
  OBVIOUS
<1>9. ASSUME NEW i \in 1..N PROVE P[i] = [X \in Nonterminals |-> Rule(s, R, X, i)]
  <2>1. P[i] = [X \in Nonterminals |-> Rule(s, P, X, i)]
    BY <1>7 DEF Solves
  <2>2. In(s, i) /\ i <= Len(s) + 1 /\ \A j \in (i + 1)..N : j \in 1..N
    BY DEF In
  <2> HIDE DEF R
  <2>3. Local(s, P, R, i)
    BY <1>7, <1>8, <2>2 DEF Local, Typed, Agree
  <2>4. \A X \in Nonterminals : Rule(s, P, X, i) = Rule(s, R, X, i)
    BY <2>2, <2>3, RuleLocal
  <2> QED BY <2>1, <2>4
<1>10. R = [i \in 1..N |-> [X \in Nonterminals |-> Rule(s, R, X, i)]]
  <2> DEFINE F(i) == [X \in Nonterminals |-> Rule(s, R, X, i)]
  <2>1. \A i \in 1..N : P[i] = F(i)
    BY <1>9
  <2> HIDE DEF F
  <2>2. R = [i \in 1..N |-> F(i)]
    BY <2>1
  <2> QED BY <2>2 DEF F
<1> QED BY <1>10

\* So Phrases is what its definition says.
LEMMA PhrasesRule ==
  ASSUME NEW s, Len(s) \in Nat, NEW i \in 1..(Len(s) + 1), NEW X \in Nonterminals
  PROVE  Phrases(s)[i][X] = Rule(s, Phrases(s), X, i)
<1> DEFINE N == Len(s) + 1
           Q(P) == P = [j \in 1..N |-> [Y \in Nonterminals |-> Rule(s, P, Y, j)]]
<1>1. Phrases(s) = CHOOSE P : Q(P)
  BY DEF Phrases
<1>2. \E P : Q(P)
  BY SolutionExists
<1>3. Q(Phrases(s))
  <2> HIDE DEF Q
  <2> QED BY <1>1, <1>2
<1> DEFINE R == Phrases(s)
<1>4. R = [j \in 1..N |-> [Y \in Nonterminals |-> Rule(s, R, Y, j)]]
  BY <1>3
<1> HIDE DEF R
<1>5. R[i] = [Y \in Nonterminals |-> Rule(s, R, Y, i)]
  BY <1>4
<1>6. R[i][X] = Rule(s, R, X, i)
  BY <1>5
<1> QED BY <1>6 DEF R
=============================================================================
