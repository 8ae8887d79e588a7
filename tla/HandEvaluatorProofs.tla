------------------------ MODULE HandEvaluatorProofs ------------------------
(***************************************************************************)
(* What HandEvaluator guarantees for any five cards of the deck: every     *)
(* score is worked out from the shape of the hand, and two of them are     *)
(* compared place by place.  No set of hands is enumerated.                *)
(***************************************************************************)
EXTENDS HandEvaluator, FiniteSetTheorems, WellFoundedInduction, TLAPS
----------------------------------------------------------------------------
(* Largest and smallest numbers, and five cards in the order of their ranks *)

\* A member that no other exceeds is the largest, and likewise the smallest.
LEMMA MaxIs ==
    ASSUME NEW S \in SUBSET Int, NEW m \in S, \A x \in S : x <= m
    PROVE  Max(S) = m
<1>1. \A y \in S : (\A x \in S : y >= x) <=> y = m
    OBVIOUS
<1> QED
    BY <1>1 DEF Max

LEMMA MinIs ==
    ASSUME NEW S \in SUBSET Int, NEW m \in S, \A x \in S : x >= m
    PROVE  Min(S) = m
<1>1. \A y \in S : (\A x \in S : y =< x) <=> y = m
    OBVIOUS
<1> QED
    BY <1>1 DEF Min

\* A set of numbers below a bound has a largest one.
LEMMA HasLargest ==
    ASSUME NEW n \in Nat, NEW S \in SUBSET (0..n), S # {}
    PROVE  /\ Max(S) \in S
           /\ \A x \in S : x <= Max(S)
<1> DEFINE T == {x \in 0..n : n - x \in S}
           Less == {ss \in Nat \X Nat : ss[1] < ss[2]}
<1>1. T \subseteq Nat /\ T # {}
    <2>1. PICK x \in S : TRUE
        OBVIOUS
    <2>2. n - x \in 0..n /\ n - (n - x) = x
        BY <2>1
    <2>3. n - x \in T
        BY <2>1, <2>2
    <2>4. 0..n \subseteq Nat
        OBVIOUS
    <2>5. T \subseteq 0..n
        OBVIOUS
    <2> HIDE DEF T
    <2> QED
        BY <2>3, <2>4, <2>5
<1>2. IsWellFoundedOn(Less, Nat)
    BY NatLessThanWellFounded DEF OpToRel
<1>3. PICK t \in T : \A u \in T : ~(<<u, t>> \in Less)
    <2> HIDE DEF T, Less
    <2> QED
        BY <1>1, <1>2, WFMin
<1>4. n - t \in S
    OBVIOUS
<1>5. \A x \in S : x <= n - t
    <2> TAKE x \in S
    <2>1. x \in 0..n /\ n - x \in 0..n /\ n - (n - x) = x
        OBVIOUS
    <2>2. n - x \in T
        BY <2>1
    <2> DEFINE u == n - x
    <2>3. ~(u < t)
        <3>1. u \in T /\ u \in Nat /\ t \in Nat
            BY <2>1, <2>2
        <3> HIDE DEF u, T
        <3> QED
            BY <3>1, <1>3
    <2> QED
        BY <2>1, <2>3
<1>6. S \in SUBSET Int
    OBVIOUS
<1>7. Max(S) = n - t
    BY <1>4, <1>5, <1>6, MaxIs
<1> QED
    BY <1>4, <1>5, <1>7

\* What a card of rank x adds to the count of x.
Is(card, x) == IF card[1] = x THEN 1 ELSE 0

\* R is S and one more card.
Adds(R, S, c) == c \notin S /\ R = S \cup {c}

LEMMA CountAdds ==
    ASSUME NEW S, IsFiniteSet(S), NEW c, NEW R, Adds(R, S, c), NEW x
    PROVE  IsFiniteSet(R) /\ Count(R, x) = Count(S, x) + Is(c, x)
<1> USE DEF Adds
<1> DEFINE T == {card \in S : card[1] = x}
<1>1. IsFiniteSet(T) /\ Cardinality(T) \in Nat
    BY FS_Subset, FS_CardinalityType, T \in SUBSET S
<1>2. {card \in R : card[1] = x} = IF c[1] = x THEN T \cup {c} ELSE T
    OBVIOUS
<1>3. c \notin T
    OBVIOUS
<1> HIDE DEF T
<1>4. Cardinality(T \cup {c}) = Cardinality(T) + 1
    BY <1>1, <1>3, FS_AddElement
<1>5. Count(S, x) = Cardinality(T)
    BY DEF Count, T
<1>6. Count(R, x) = IF c[1] = x THEN Cardinality(T) + 1 ELSE Cardinality(T)
    BY <1>2, <1>4 DEF Count
<1>7. IsFiniteSet(R)
    BY FS_AddElement
<1> QED
    BY <1>1, <1>5, <1>6, <1>7 DEF Is

\* There are finitely many cards.
LEMMA DeckFinite == IsFiniteSet(Deck)
<1>1. \A a, b \in Int : IsFiniteSet(a..b)
    BY FS_Interval
<1>2. IsFiniteSet(2..14)
    BY <1>1, 2 \in Int, 14 \in Int, Zenon
<1>3. \A S, x : IsFiniteSet(S) => IsFiniteSet(S \cup {x})
    BY FS_AddElement
<1>4. IsFiniteSet(((({} \cup {"h"}) \cup {"d"}) \cup {"c"}) \cup {"s"})
    BY <1>3, FS_EmptySet, Zenon
<1>5. Suits = ((({} \cup {"h"}) \cup {"d"}) \cup {"c"}) \cup {"s"}
    BY DEF Suits
<1>6. IsFiniteSet(Suits)
    BY <1>4, <1>5, Zenon
<1> QED
    BY <1>2, <1>6, FS_Product DEF Deck

\* A set of n + 1 cards has a highest one and n others.
LEMMA HighestCard ==
    ASSUME NEW S \in SUBSET Deck, NEW n \in Nat, Cardinality(S) = n + 1
    PROVE  \E c \in S : /\ \A d \in S : d[1] <= c[1]
                        /\ S \ {c} \in SUBSET Deck
                        /\ Cardinality(S \ {c}) = n
<1>1. IsFiniteSet(S)
    BY DeckFinite, FS_Subset
<1>2. S # {}
    BY FS_EmptySet
<1>3. Ranks(S) \in SUBSET (0..14) /\ Ranks(S) # {} /\ 14 \in Nat
    BY <1>2 DEF Ranks, Deck
<1>4. Max(Ranks(S)) \in Ranks(S) /\ \A x \in Ranks(S) : x <= Max(Ranks(S))
    BY <1>3, HasLargest
<1>5. PICK c \in S : c[1] = Max(Ranks(S))
    BY <1>4 DEF Ranks
<1>6. \A d \in S : d[1] <= c[1]
    BY <1>4, <1>5 DEF Ranks
<1>7. Cardinality(S \ {c}) = n
    BY <1>1, FS_RemoveElement
<1> QED
    BY <1>6, <1>7

\* The hands that evaluate_five takes.
Fives == {hand \in SUBSET Deck : Cardinality(hand) = 5}

\* Five different cards in the order of their ranks.
Dealt(hand, c) ==
    /\ c \in [1..5 -> Deck]
    /\ hand = {c[1], c[2], c[3], c[4], c[5]}
    /\ \A i, j \in 1..5 : i < j => c[i] # c[j] /\ c[j][1] <= c[i][1]

\* Any five cards can be put in that order.
LEMMA FiveDealt ==
    ASSUME NEW hand \in Fives
    PROVE  \E c : Dealt(hand, c)
<1>1. PICK c1 \in hand : /\ \A d \in hand : d[1] <= c1[1]
                         /\ hand \ {c1} \in SUBSET Deck
                         /\ Cardinality(hand \ {c1}) = 4
    BY HighestCard, 5 = 4 + 1, 4 \in Nat DEF Fives
<1> DEFINE S4 == hand \ {c1}
<1>2. PICK c2 \in S4 : /\ \A d \in S4 : d[1] <= c2[1]
                       /\ S4 \ {c2} \in SUBSET Deck
                       /\ Cardinality(S4 \ {c2}) = 3
    BY <1>1, HighestCard, 4 = 3 + 1, 3 \in Nat
<1> DEFINE S3 == S4 \ {c2}
<1>3. PICK c3 \in S3 : /\ \A d \in S3 : d[1] <= c3[1]
                       /\ S3 \ {c3} \in SUBSET Deck
                       /\ Cardinality(S3 \ {c3}) = 2
    BY <1>2, HighestCard, 3 = 2 + 1, 2 \in Nat
<1> DEFINE S2 == S3 \ {c3}
<1>4. PICK c4 \in S2 : /\ \A d \in S2 : d[1] <= c4[1]
                       /\ S2 \ {c4} \in SUBSET Deck
                       /\ Cardinality(S2 \ {c4}) = 1
    BY <1>3, HighestCard, 2 = 1 + 1, 1 \in Nat
<1> DEFINE S1 == S2 \ {c4}
<1>5. PICK c5 \in S1 : /\ \A d \in S1 : d[1] <= c5[1]
                       /\ S1 \ {c5} \in SUBSET Deck
                       /\ Cardinality(S1 \ {c5}) = 0
    BY <1>4, HighestCard, 1 = 0 + 1, 0 \in Nat
<1>6. S1 \ {c5} = {}
    <2>1. IsFiniteSet(S1 \ {c5})
        BY <1>5, DeckFinite, FS_Subset
    <2> QED
        BY <1>5, <2>1, FS_EmptySet
<1> DEFINE c == [i \in 1..5 |-> CASE i = 1 -> c1 [] i = 2 -> c2 [] i = 3 -> c3
                                  [] i = 4 -> c4 [] i = 5 -> c5]
<1>7. /\ c[1] = c1 /\ c[2] = c2 /\ c[3] = c3 /\ c[4] = c4 /\ c[5] = c5
      /\ c \in [1..5 -> Deck]
    BY DEF Fives
<1>8. hand = {c1, c2, c3, c4, c5}
    BY <1>6
<1>9. /\ c1 # c2 /\ c1 # c3 /\ c1 # c4 /\ c1 # c5 /\ c2 # c3 /\ c2 # c4
      /\ c2 # c5 /\ c3 # c4 /\ c3 # c5 /\ c4 # c5
    OBVIOUS
<1>10. /\ c2[1] <= c1[1] /\ c3[1] <= c1[1] /\ c4[1] <= c1[1] /\ c5[1] <= c1[1]
       /\ c3[1] <= c2[1] /\ c4[1] <= c2[1] /\ c5[1] <= c2[1]
       /\ c4[1] <= c3[1] /\ c5[1] <= c3[1] /\ c5[1] <= c4[1]
    BY <1>1, <1>2, <1>3, <1>4
<1> HIDE DEF c
<1>11. \A i, j \in 1..5 : i < j => c[i] # c[j] /\ c[j][1] <= c[i][1]
    BY <1>7, <1>9, <1>10
<1> QED
    BY <1>7, <1>8, <1>11 DEF Dealt

\* How often a rank occurs, card by card.
LEMMA CountIs ==
    ASSUME NEW hand, NEW c, Dealt(hand, c), NEW x
    PROVE  Count(hand, x) = Is(c[1], x) + Is(c[2], x) + Is(c[3], x)
                              + Is(c[4], x) + Is(c[5], x)
<1>1. IsFiniteSet({}) /\ Count({}, x) = 0
    <2>1. {card \in {} : card[1] = x} = {}
        OBVIOUS
    <2> QED
        BY <2>1, FS_EmptySet DEF Count
<1> DEFINE S(n) == {c[i] : i \in 1..n}
<1>2. /\ S(1) = {} \cup {c[1]} /\ S(2) = S(1) \cup {c[2]} /\ S(3) = S(2) \cup {c[3]}
      /\ S(4) = S(3) \cup {c[4]} /\ S(5) = S(4) \cup {c[5]} /\ hand = S(5)
    BY DEF Dealt
<1>3. /\ Adds(S(1), {}, c[1]) /\ Adds(S(2), S(1), c[2]) /\ Adds(S(3), S(2), c[3])
      /\ Adds(S(4), S(3), c[4]) /\ Adds(S(5), S(4), c[5])
    BY <1>2 DEF Dealt, Adds
<1> HIDE DEF S
<1>4. IsFiniteSet(S(1)) /\ Count(S(1), x) = Count({}, x) + Is(c[1], x)
    BY <1>1, <1>3, CountAdds
<1>5. IsFiniteSet(S(2)) /\ Count(S(2), x) = Count(S(1), x) + Is(c[2], x)
    BY <1>4, <1>3, CountAdds
<1>6. IsFiniteSet(S(3)) /\ Count(S(3), x) = Count(S(2), x) + Is(c[3], x)
    BY <1>5, <1>3, CountAdds
<1>7. IsFiniteSet(S(4)) /\ Count(S(4), x) = Count(S(3), x) + Is(c[4], x)
    BY <1>6, <1>3, CountAdds
<1>8. Count(S(5), x) = Count(S(4), x) + Is(c[5], x)
    BY <1>7, <1>3, CountAdds
<1>9. Is(c[1], x) \in Int
    BY DEF Is
<1> QED
    BY <1>1, <1>2, <1>4, <1>5, <1>6, <1>7, <1>8, <1>9

----------------------------------------------------------------------------
(* The shapes of a hand: how often its ranks occur                         *)

\* Four of rank a and one of rank b; the others likewise, with the ranks that
\* occur equally often from the highest down.
IsFour(h, a, b) ==
    /\ Ranks(h) = {a, b} /\ a \in 2..14 /\ b \in 2..14 /\ a # b
    /\ Count(h, a) = 4 /\ Count(h, b) = 1

IsFull(h, a, b) ==
    /\ Ranks(h) = {a, b} /\ a \in 2..14 /\ b \in 2..14 /\ a # b
    /\ Count(h, a) = 3 /\ Count(h, b) = 2

IsThree(h, a, b, c) ==
    /\ Ranks(h) = {a, b, c} /\ a \in 2..14 /\ b \in 2..14 /\ c \in 2..14
    /\ a # b /\ a # c /\ b > c
    /\ Count(h, a) = 3 /\ Count(h, b) = 1 /\ Count(h, c) = 1

IsTwo(h, a, b, c) ==
    /\ Ranks(h) = {a, b, c} /\ a \in 2..14 /\ b \in 2..14 /\ c \in 2..14
    /\ a > b /\ c # a /\ c # b
    /\ Count(h, a) = 2 /\ Count(h, b) = 2 /\ Count(h, c) = 1

IsPair(h, a, b, c, d) ==
    /\ Ranks(h) = {a, b, c, d}
    /\ a \in 2..14 /\ b \in 2..14 /\ c \in 2..14 /\ d \in 2..14
    /\ a # b /\ a # c /\ a # d /\ b > c /\ c > d
    /\ Count(h, a) = 2 /\ Count(h, b) = 1 /\ Count(h, c) = 1 /\ Count(h, d) = 1

IsPlain(h, a, b, c, d, e) ==
    /\ Ranks(h) = {a, b, c, d, e}
    /\ a \in 2..14 /\ b \in 2..14 /\ c \in 2..14 /\ d \in 2..14 /\ e \in 2..14
    /\ a > b /\ b > c /\ c > d /\ d > e
    /\ \A x \in {a, b, c, d, e} : Count(h, x) = 1

\* Five cards have one of six shapes.
LEMMA Shapes ==
    ASSUME NEW h \in Fives
    PROVE  \/ \E a, b : IsFour(h, a, b)
           \/ \E a, b : IsFull(h, a, b)
           \/ \E a, b, c : IsThree(h, a, b, c)
           \/ \E a, b, c : IsTwo(h, a, b, c)
           \/ \E a, b, c, d : IsPair(h, a, b, c, d)
           \/ \E a, b, c, d, e : IsPlain(h, a, b, c, d, e)
<1>1. PICK c : Dealt(h, c)
    BY FiveDealt
<1> DEFINE r1 == c[1][1]
           r2 == c[2][1]
           r3 == c[3][1]
           r4 == c[4][1]
           r5 == c[5][1]
           n(x) == Is(c[1], x) + Is(c[2], x) + Is(c[3], x) + Is(c[4], x) + Is(c[5], x)
<1>2. /\ Ranks(h) = {r1, r2, r3, r4, r5}
      /\ r1 \in 2..14 /\ r2 \in 2..14 /\ r3 \in 2..14 /\ r4 \in 2..14 /\ r5 \in 2..14
      /\ r1 >= r2 /\ r2 >= r3 /\ r3 >= r4 /\ r4 >= r5
    BY <1>1 DEF Dealt, Ranks, Deck
<1>3. ~(r1 = r2 /\ r2 = r3 /\ r3 = r4 /\ r4 = r5)
    <2> SUFFICES ASSUME r1 = r2, r2 = r3, r3 = r4, r4 = r5 PROVE FALSE
        OBVIOUS
    <2> DEFINE s(i) == c[i][2]
    <2>1. \A i \in 1..5 : s(i) \in Suits /\ c[i] = <<r1, s(i)>>
        BY <1>1 DEF Dealt, Deck
    <2>2. \A i, j \in 1..5 : i < j => s(i) # s(j)
        BY <1>1, <2>1 DEF Dealt
    <2> HIDE DEF s
    <2> QED
        BY <2>1, <2>2 DEF Suits
<1>4. \A x : Count(h, x) = n(x)
    BY <1>1, CountIs
<1>5. \A x : n(x) = (IF r1 = x THEN 1 ELSE 0) + (IF r2 = x THEN 1 ELSE 0)
                      + (IF r3 = x THEN 1 ELSE 0) + (IF r4 = x THEN 1 ELSE 0)
                      + (IF r5 = x THEN 1 ELSE 0)
    BY DEF Is
<1> HIDE DEF r1, r2, r3, r4, r5, n
<1> USE <1>2, <1>4, <1>5
<1>6. CASE r1 = r2
    <2>1. CASE r2 = r3 /\ r3 = r4
        <3>1. IsFour(h, r1, r5)
            BY <1>3, <1>6, <2>1 DEF IsFour
        <3> QED
            BY <3>1
    <2>2. CASE r2 = r3 /\ r3 # r4 /\ r4 = r5
        <3>1. IsFull(h, r1, r5)
            BY <1>6, <2>2 DEF IsFull
        <3> QED
            BY <3>1
    <2>3. CASE r2 = r3 /\ r3 # r4 /\ r4 # r5
        <3>1. IsThree(h, r1, r4, r5)
            BY <1>6, <2>3 DEF IsThree
        <3> QED
            BY <3>1
    <2>4. CASE r2 # r3 /\ r3 = r4 /\ r4 = r5
        <3>1. IsFull(h, r5, r1)
            BY <1>6, <2>4 DEF IsFull
        <3> QED
            BY <3>1
    <2>5. CASE r2 # r3 /\ r3 = r4 /\ r4 # r5
        <3>1. IsTwo(h, r1, r3, r5)
            BY <1>6, <2>5 DEF IsTwo
        <3> QED
            BY <3>1
    <2>6. CASE r2 # r3 /\ r3 # r4 /\ r4 = r5
        <3>1. IsTwo(h, r1, r5, r3)
            BY <1>6, <2>6 DEF IsTwo
        <3> QED
            BY <3>1
    <2>7. CASE r2 # r3 /\ r3 # r4 /\ r4 # r5
        <3>1. IsPair(h, r1, r3, r4, r5)
            BY <1>6, <2>7 DEF IsPair
        <3> QED
            BY <3>1
    <2> QED
        BY <2>1, <2>2, <2>3, <2>4, <2>5, <2>6, <2>7
<1>7. CASE r1 # r2
    <2>1. CASE r2 = r3 /\ r3 = r4 /\ r4 = r5
        <3>1. IsFour(h, r2, r1)
            BY <1>7, <2>1 DEF IsFour
        <3> QED
            BY <3>1
    <2>2. CASE r2 = r3 /\ r3 = r4 /\ r4 # r5
        <3>1. IsThree(h, r2, r1, r5)
            BY <1>7, <2>2 DEF IsThree
        <3> QED
            BY <3>1
    <2>3. CASE r2 = r3 /\ r3 # r4 /\ r4 = r5
        <3>1. IsTwo(h, r2, r5, r1)
            BY <1>7, <2>3 DEF IsTwo
        <3> QED
            BY <3>1
    <2>4. CASE r2 = r3 /\ r3 # r4 /\ r4 # r5
        <3>1. IsPair(h, r2, r1, r4, r5)
            BY <1>7, <2>4 DEF IsPair
        <3> QED
            BY <3>1
    <2>5. CASE r2 # r3 /\ r3 = r4 /\ r4 = r5
        <3>1. IsThree(h, r5, r1, r2)
            BY <1>7, <2>5 DEF IsThree
        <3> QED
            BY <3>1
    <2>6. CASE r2 # r3 /\ r3 = r4 /\ r4 # r5
        <3>1. IsPair(h, r3, r1, r2, r5)
            BY <1>7, <2>6 DEF IsPair
        <3> QED
            BY <3>1
    <2>7. CASE r2 # r3 /\ r3 # r4 /\ r4 = r5
        <3>1. IsPair(h, r5, r1, r2, r3)
            BY <1>7, <2>7 DEF IsPair
        <3> QED
            BY <3>1
    <2>8. CASE r2 # r3 /\ r3 # r4 /\ r4 # r5
        <3>1. IsPlain(h, r1, r2, r3, r4, r5)
            BY <1>7, <2>8 DEF IsPlain
        <3> QED
            BY <3>1
    <2> QED
        BY <2>1, <2>2, <2>3, <2>4, <2>5, <2>6, <2>7, <2>8
<1> QED
    BY <1>6, <1>7

----------------------------------------------------------------------------
(* Categories and kickers of the shapes                                    *)

\* The sizes of small sets, element by element.
LEMMA SizeAdds ==
    ASSUME NEW S, IsFiniteSet(S), NEW c, NEW R, Adds(R, S, c)
    PROVE  IsFiniteSet(R) /\ Cardinality(R) = Cardinality(S) + 1
    BY FS_AddElement DEF Adds

LEMMA SizeNone == Cardinality({}) = 0
    BY FS_EmptySet

LEMMA SizeOne ==
    ASSUME NEW a
    PROVE  IsFiniteSet({a}) /\ Cardinality({a}) = 1
    BY FS_Singleton

LEMMA SizeTwo ==
    ASSUME NEW a, NEW b,
           a # b
    PROVE  IsFiniteSet({a, b}) /\ Cardinality({a, b}) = 2
<1> DEFINE S == {a}
           R == {a, b}
<1>1. IsFiniteSet(S) /\ Cardinality(S) = 1
    BY SizeOne, Zenon
<1>2. Adds(R, S, b)
    BY DEF Adds
<1> HIDE DEF S, R
<1>3. IsFiniteSet(R) /\ Cardinality(R) = 2
    BY <1>1, <1>2, SizeAdds
<1> QED
    BY <1>3 DEF R

LEMMA SizeThree ==
    ASSUME NEW a, NEW b, NEW c,
           a # b, a # c, b # c
    PROVE  IsFiniteSet({a, b, c}) /\ Cardinality({a, b, c}) = 3
<1> DEFINE S == {a, b}
           R == {a, b, c}
<1>1. IsFiniteSet(S) /\ Cardinality(S) = 2
    BY SizeTwo, Zenon
<1>2. Adds(R, S, c)
    BY DEF Adds
<1> HIDE DEF S, R
<1>3. IsFiniteSet(R) /\ Cardinality(R) = 3
    BY <1>1, <1>2, SizeAdds
<1> QED
    BY <1>3 DEF R

LEMMA SizeFour ==
    ASSUME NEW a, NEW b, NEW c, NEW d,
           a # b, a # c, a # d, b # c, b # d, c # d
    PROVE  IsFiniteSet({a, b, c, d}) /\ Cardinality({a, b, c, d}) = 4
<1> DEFINE S == {a, b, c}
           R == {a, b, c, d}
<1>1. IsFiniteSet(S) /\ Cardinality(S) = 3
    BY SizeThree, Zenon
<1>2. Adds(R, S, d)
    BY DEF Adds
<1> HIDE DEF S, R
<1>3. IsFiniteSet(R) /\ Cardinality(R) = 4
    BY <1>1, <1>2, SizeAdds
<1> QED
    BY <1>3 DEF R

\* Five ranks, kept folded where only their number matters.
RanksOf(a, b, c, d, e) == {a, b, c, d, e}

LEMMA SizeFive ==
    ASSUME NEW a, NEW b, NEW c, NEW d, NEW e,
           a # b, a # c, a # d, a # e, b # c, b # d, b # e, c # d, c # e, d # e
    PROVE  Cardinality(RanksOf(a, b, c, d, e)) = 5
<1> DEFINE S == {a, b, c, d}
           R == {a, b, c, d, e}
<1>1. IsFiniteSet(S) /\ Cardinality(S) = 4
    BY SizeFour, Zenon
<1>2. Adds(R, S, e)
    BY DEF Adds
<1> HIDE DEF S, R
<1>3. IsFiniteSet(R) /\ Cardinality(R) = 5
    BY <1>1, <1>2, SizeAdds
<1> QED
    BY <1>3 DEF R, RanksOf

\* All cards have one suit, as poker says it.
OneSuit(h) == \E suit \in Suits : h \subseteq (2..14) \X {suit}

\* A hand is a flush when its cards have one suit, and then no two of one rank.
LEMMA FlushIs ==
    ASSUME NEW h \in Fives
    PROVE  /\ IsFlush(h) <=> OneSuit(h)
           /\ IsFlush(h) => \A x : Count(h, x) <= 1
<1> DEFINE suits == {card[2] : card \in h}
<1>1. IsFiniteSet(h) /\ h # {}
    BY DeckFinite, FS_Subset, FS_EmptySet DEF Fives
<1>2. suits \subseteq Suits
    BY DEF Fives, Deck
<1>3. IsFiniteSet(suits)
    <2>1. \A S, x : IsFiniteSet(S) => IsFiniteSet(S \cup {x})
        BY FS_AddElement
    <2>2. IsFiniteSet(((({} \cup {"h"}) \cup {"d"}) \cup {"c"}) \cup {"s"})
        BY <2>1, FS_EmptySet, Zenon
    <2>3. Suits = ((({} \cup {"h"}) \cup {"d"}) \cup {"c"}) \cup {"s"}
        BY DEF Suits
    <2>4. IsFiniteSet(Suits)
        BY <2>2, <2>3, Zenon
    <2> QED
        BY <2>4, <1>2, FS_Subset
<1>4. IsFlush(h) => \E suit : suits = {suit}
    BY <1>3, FS_Singleton DEF IsFlush
<1>5. ASSUME IsFlush(h) PROVE OneSuit(h) /\ \A x : Count(h, x) <= 1
    <2>1. PICK suit : suits = {suit}
        BY <1>4, <1>5
    <2>2. suit \in Suits
        BY <1>2, <2>1
    <2>3. \A card \in h : card[2] = suit
        BY <2>1
    <2>4. h \subseteq (2..14) \X {suit}
        BY <2>3 DEF Fives, Deck
    <2>5. ASSUME NEW x PROVE Count(h, x) <= 1
        <3>1. {card \in h : card[1] = x} \in SUBSET {<<x, suit>>}
            BY <2>4
        <3>2. IsFiniteSet({<<x, suit>>}) /\ Cardinality({<<x, suit>>}) = 1
            BY FS_Singleton
        <3> QED
            BY <3>1, <3>2, FS_Subset DEF Count
    <2> QED
        BY <2>2, <2>4, <2>5 DEF OneSuit
<1>6. ASSUME OneSuit(h) PROVE IsFlush(h)
    <2>1. PICK suit \in Suits : h \subseteq (2..14) \X {suit}
        BY <1>6 DEF OneSuit
    <2>2. suits = {suit}
        BY <2>1, <1>1
    <2> QED
        BY <2>2, FS_Singleton DEF IsFlush
<1> QED
    BY <1>5, <1>6

\* A category that the hand makes, and no higher one, is its category.
LEMMA CategoryIs ==
    ASSUME NEW h, NEW x \in HighCard..RoyalFlush, Makes(h, x),
           \A y \in HighCard..RoyalFlush : Makes(h, y) => y <= x
    PROVE  Category(h) = x
<1> DEFINE S == {y \in HighCard..RoyalFlush : Makes(h, y)}
<1>1. S \in SUBSET Int /\ x \in S /\ \A y \in S : y <= x
    BY DEF HighCard, RoyalFlush
<1> HIDE DEF S
<1>2. Max(S) = x
    BY <1>1, MaxIs
<1> QED
    BY <1>2 DEF S, Category

\* The rank with i ranks ahead of it, and 0 if there is none.
LEMMA PriorityIs ==
    ASSUME NEW h, Ranks(h) \in SUBSET (2..14), NEW i
    PROVE  /\ \A x \in Ranks(h) :
                 /\ Cardinality(Ahead(h, x)) = i
                 /\ \A y \in Ranks(h) : Cardinality(Ahead(h, y)) = i => y = x
                 => Priority(h, i) = x
           /\ (\A y \in Ranks(h) : Cardinality(Ahead(h, y)) # i) => Priority(h, i) = 0
<1> DEFINE S == {0} \cup {x \in Ranks(h) : Cardinality(Ahead(h, x)) = i}
<1>1. S \in SUBSET Int
    OBVIOUS
<1>2. ASSUME NEW x \in Ranks(h), Cardinality(Ahead(h, x)) = i,
             \A y \in Ranks(h) : Cardinality(Ahead(h, y)) = i => y = x
      PROVE  Priority(h, i) = x
    <2>1. x \in S /\ \A y \in S : y <= x
        BY <1>2
    <2> HIDE DEF S
    <2>2. Max(S) = x
        BY <1>1, <2>1, MaxIs
    <2> QED
        BY <2>2 DEF S, Priority
<1>3. ASSUME \A y \in Ranks(h) : Cardinality(Ahead(h, y)) # i
      PROVE  Priority(h, i) = 0
    <2>1. 0 \in S /\ \A y \in S : y <= 0
        BY <1>3
    <2> HIDE DEF S
    <2>2. Max(S) = 0
        BY <1>1, <2>1, MaxIs
    <2> QED
        BY <2>2 DEF S, Priority
<1> QED
    BY <1>2, <1>3

\* A hand with two cards of one rank is neither a flush nor a run.
LEMMA NoRun ==
    ASSUME NEW h \in Fives, NEW x, Count(h, x) \in 2..5, Cardinality(Ranks(h)) # 5
    PROVE  ~IsFlush(h) /\ ~OneSuit(h) /\ ~IsStraight(h) /\ ~IsWheel(h)
<1>1. ~IsFlush(h) /\ ~OneSuit(h)
    BY FlushIs
<1>2. Cardinality(RanksOf(14, 5, 4, 3, 2)) = 5
    BY SizeFive
<1>3. {14, 5, 4, 3, 2} = RanksOf(14, 5, 4, 3, 2)
    BY DEF RanksOf
<1> QED
    BY <1>1, <1>2, <1>3 DEF IsWheel, IsStraight

\* The definitions of a category, of poker's and of the code's.
Enum == HighCard = 0 /\ OnePair = 1 /\ TwoPair = 2 /\ ThreeOfAKind = 3 /\ Straight = 4
          /\ Flush = 5 /\ FullHouse = 6 /\ FourOfAKind = 7 /\ StraightFlush = 8 /\ RoyalFlush = 9

\* The discriminants, in one fact.
LEMMA EnumIs == Enum
    BY DEF Enum, HighCard, OnePair, TwoPair, ThreeOfAKind, Straight, Flush, FullHouse,
           FourOfAKind, StraightFlush, RoyalFlush

\* What is proved of a hand of each shape.
Valued(h, category, value) ==
    /\ Category(h) = category /\ PokerCategory(h) = category
    /\ Score(h) = category * 10000000 + value
    /\ ~IsWheel(h)

\* A hand that is neither a flush nor a run is worth its packed ranks.
LEMMA ValuedByRanks ==
    ASSUME NEW h \in Fives,
           NEW x \in {HighCard, OnePair, TwoPair, ThreeOfAKind, FullHouse, FourOfAKind},
           Category(h) = x, PokerCategory(h) = x, ~IsWheel(h)
    PROVE  Valued(h, x, Kicker(h))
    BY EnumIs DEF Enum, Valued, Score

\* The values of the six shapes, by the code and by poker.
LEMMA FourIs ==
    ASSUME NEW h \in Fives, NEW a, NEW b, IsFour(h, a, b)
    PROVE  /\ Valued(h, 7, 65536 * a + 4096 * b)
           /\ PlayedRanks(h, 4) = {a} /\ PlayedRanks(h, 3) = {}
           /\ PlayedRanks(h, 2) = {} /\ PlayedRanks(h, 1) = {b}
<1> USE DEF IsFour
<1>1. Cardinality(Ranks(h)) = 2
    <2>1. Cardinality({a, b}) = 2
        BY SizeTwo, Zenon
    <2> QED
        BY <2>1
<1>2. ~IsFlush(h) /\ ~OneSuit(h) /\ ~IsStraight(h) /\ ~IsWheel(h)
    BY <1>1, NoRun
<1>3. Groups(h, 4) = 1
    <2>1. {x \in Ranks(h) : Count(h, x) = 4} = {a}
        OBVIOUS
    <2> QED
        BY <2>1, SizeOne DEF Groups
<1>4. Category(h) = 7
    BY <1>2, <1>3, EnumIs, CategoryIs DEF Enum, Makes
<1>5. PokerCategory(h) = 7
    <2>1. {Count(h, x) : x \in Ranks(h)} = {4, 1}
        OBVIOUS
    <2>2. Max({Count(h, x) : x \in Ranks(h)}) = 4
        BY <2>1, MaxIs
    <2> QED
        BY <1>1, <1>2, <2>2, EnumIs DEF PokerCategory, Enum, OneSuit
<1>6. Ahead(h, a) = {} /\ Ahead(h, b) = {a}
    BY DEF Ahead
<1>7. Cardinality(Ahead(h, a)) = 0 /\ Cardinality(Ahead(h, b)) = 1
    BY <1>6, SizeNone, SizeOne
<1>8. Ranks(h) \in SUBSET (2..14)
    OBVIOUS
<1>9. /\ Priority(h, 0) = a /\ Priority(h, 1) = b
      /\ Priority(h, 2) = 0 /\ Priority(h, 3) = 0 /\ Priority(h, 4) = 0
    BY <1>7, <1>8, PriorityIs
<1>10. Kicker(h) = 65536 * a + 4096 * b
    BY <1>9 DEF Kicker
<1>11. Valued(h, 7, 65536 * a + 4096 * b)
    BY <1>2, <1>4, <1>5, <1>10, ValuedByRanks, EnumIs DEF Enum
<1> QED
    BY <1>2, <1>11 DEF PlayedRanks

LEMMA FullIs ==
    ASSUME NEW h \in Fives, NEW a, NEW b, IsFull(h, a, b)
    PROVE  /\ Valued(h, 6, 65536 * a + 4096 * b)
           /\ PlayedRanks(h, 4) = {} /\ PlayedRanks(h, 3) = {a}
           /\ PlayedRanks(h, 2) = {b} /\ PlayedRanks(h, 1) = {}
<1>0. a # b
    BY DEF IsFull
<1>1. Cardinality(Ranks(h)) = 2
    <2>1. Cardinality({a, b}) = 2
        BY <1>0, SizeTwo, Zenon
    <2> QED
        BY <2>1 DEF IsFull
<1> USE DEF IsFull
<1>2. ~IsFlush(h) /\ ~OneSuit(h) /\ ~IsStraight(h) /\ ~IsWheel(h)
    BY <1>1, NoRun
<1>3. Groups(h, 4) = 0 /\ Groups(h, 3) = 1 /\ Groups(h, 2) = 1
    <2>1. Groups(h, 4) = 0
        <3>1. {x \in Ranks(h) : Count(h, x) = 4} = {}
            OBVIOUS
        <3> QED
            BY <3>1, SizeNone DEF Groups
    <2>2. Groups(h, 3) = 1
        <3>1. {x \in Ranks(h) : Count(h, x) = 3} = {a}
            OBVIOUS
        <3> QED
            BY <3>1, SizeOne DEF Groups
    <2>3. Groups(h, 2) = 1
        <3>1. {x \in Ranks(h) : Count(h, x) = 2} = {b}
            OBVIOUS
        <3> QED
            BY <3>1, SizeOne DEF Groups
    <2> QED
        BY <2>1, <2>2, <2>3
<1>4. Category(h) = 6
    BY <1>2, <1>3, EnumIs, CategoryIs DEF Enum, Makes
<1>5. PokerCategory(h) = 6
    <2>1. {Count(h, x) : x \in Ranks(h)} = {3, 2}
        OBVIOUS
    <2>2. Max({Count(h, x) : x \in Ranks(h)}) = 3
        BY <2>1, MaxIs
    <2> QED
        BY <1>1, <1>2, <2>2, EnumIs DEF PokerCategory, Enum, OneSuit
<1>6. Ahead(h, a) = {} /\ Ahead(h, b) = {a}
    BY DEF Ahead
<1>7. Cardinality(Ahead(h, a)) = 0 /\ Cardinality(Ahead(h, b)) = 1
    <2>1. Cardinality(Ahead(h, a)) = 0
        BY <1>6, SizeNone
    <2>2. Cardinality(Ahead(h, b)) = 1
        BY <1>6, SizeOne
    <2> QED
        BY <2>1, <2>2
<1>8. Ranks(h) \in SUBSET (2..14)
    OBVIOUS
<1>9. /\ Priority(h, 0) = a /\ Priority(h, 1) = b
      /\ Priority(h, 2) = 0 /\ Priority(h, 3) = 0 /\ Priority(h, 4) = 0
    BY <1>7, <1>8, PriorityIs
<1>10. Kicker(h) = 65536 * a + 4096 * b
    BY <1>9 DEF Kicker
<1>11. Valued(h, 6, 65536 * a + 4096 * b)
    BY <1>2, <1>4, <1>5, <1>10, ValuedByRanks, EnumIs DEF Enum
<1> QED
    BY <1>2, <1>11 DEF PlayedRanks

LEMMA ThreeIs ==
    ASSUME NEW h \in Fives, NEW a, NEW b, NEW c, IsThree(h, a, b, c)
    PROVE  /\ Valued(h, 3, 65536 * a + 4096 * b + 256 * c)
           /\ PlayedRanks(h, 4) = {} /\ PlayedRanks(h, 3) = {a}
           /\ PlayedRanks(h, 2) = {} /\ PlayedRanks(h, 1) = {b, c}
<1>0. a # b /\ a # c /\ b # c
    BY DEF IsThree
<1>1. Cardinality(Ranks(h)) = 3
    <2>1. Cardinality({a, b, c}) = 3
        BY <1>0, SizeThree, Zenon
    <2> QED
        BY <2>1 DEF IsThree
<1> USE DEF IsThree
<1>2. ~IsFlush(h) /\ ~OneSuit(h) /\ ~IsStraight(h) /\ ~IsWheel(h)
    BY <1>1, NoRun
<1>3. Groups(h, 4) = 0 /\ Groups(h, 3) = 1 /\ Groups(h, 2) = 0
    <2>1. Groups(h, 4) = 0
        <3>1. {x \in Ranks(h) : Count(h, x) = 4} = {}
            OBVIOUS
        <3> QED
            BY <3>1, SizeNone DEF Groups
    <2>2. Groups(h, 3) = 1
        <3>1. {x \in Ranks(h) : Count(h, x) = 3} = {a}
            OBVIOUS
        <3> QED
            BY <3>1, SizeOne DEF Groups
    <2>3. Groups(h, 2) = 0
        <3>1. {x \in Ranks(h) : Count(h, x) = 2} = {}
            OBVIOUS
        <3> QED
            BY <3>1, SizeNone DEF Groups
    <2> QED
        BY <2>1, <2>2, <2>3
<1>4. Category(h) = 3
    BY <1>2, <1>3, EnumIs, CategoryIs DEF Enum, Makes
<1>5. PokerCategory(h) = 3
    <2>1. {Count(h, x) : x \in Ranks(h)} = {3, 1}
        OBVIOUS
    <2>2. Max({Count(h, x) : x \in Ranks(h)}) = 3
        BY <2>1, MaxIs
    <2> QED
        BY <1>1, <1>2, <2>2, EnumIs DEF PokerCategory, Enum, OneSuit
<1>6. Ahead(h, a) = {} /\ Ahead(h, b) = {a} /\ Ahead(h, c) = {a, b}
    BY DEF Ahead
<1>7. Cardinality(Ahead(h, a)) = 0 /\ Cardinality(Ahead(h, b)) = 1 /\ Cardinality(Ahead(h, c)) = 2
    <2>1. Cardinality(Ahead(h, a)) = 0
        BY <1>6, SizeNone
    <2>2. Cardinality(Ahead(h, b)) = 1
        BY <1>6, SizeOne
    <2>3. Cardinality(Ahead(h, c)) = 2
        <3>1. Cardinality({a, b}) = 2
            BY <1>0, SizeTwo, Zenon
        <3> QED
            BY <1>6, <3>1
    <2> QED
        BY <2>1, <2>2, <2>3
<1>8. Ranks(h) \in SUBSET (2..14)
    OBVIOUS
<1>9. /\ Priority(h, 0) = a /\ Priority(h, 1) = b /\ Priority(h, 2) = c
      /\ Priority(h, 3) = 0 /\ Priority(h, 4) = 0
    BY <1>7, <1>8, PriorityIs
<1>10. Kicker(h) = 65536 * a + 4096 * b + 256 * c
    BY <1>9 DEF Kicker
<1>11. Valued(h, 3, 65536 * a + 4096 * b + 256 * c)
    BY <1>2, <1>4, <1>5, <1>10, ValuedByRanks, EnumIs DEF Enum
<1> QED
    BY <1>2, <1>11 DEF PlayedRanks

LEMMA TwoIs ==
    ASSUME NEW h \in Fives, NEW a, NEW b, NEW c, IsTwo(h, a, b, c)
    PROVE  /\ Valued(h, 2, 65536 * a + 4096 * b + 256 * c)
           /\ PlayedRanks(h, 4) = {} /\ PlayedRanks(h, 3) = {}
           /\ PlayedRanks(h, 2) = {a, b} /\ PlayedRanks(h, 1) = {c}
<1>0. a # b /\ a # c /\ b # c
    BY DEF IsTwo
<1>1. Cardinality(Ranks(h)) = 3
    <2>1. Cardinality({a, b, c}) = 3
        BY <1>0, SizeThree, Zenon
    <2> QED
        BY <2>1 DEF IsTwo
<1> USE DEF IsTwo
<1>2. ~IsFlush(h) /\ ~OneSuit(h) /\ ~IsStraight(h) /\ ~IsWheel(h)
    BY <1>1, NoRun
<1>3. Groups(h, 4) = 0 /\ Groups(h, 3) = 0 /\ Groups(h, 2) = 2
    <2>1. Groups(h, 4) = 0
        <3>1. {x \in Ranks(h) : Count(h, x) = 4} = {}
            OBVIOUS
        <3> QED
            BY <3>1, SizeNone DEF Groups
    <2>2. Groups(h, 3) = 0
        <3>1. {x \in Ranks(h) : Count(h, x) = 3} = {}
            OBVIOUS
        <3> QED
            BY <3>1, SizeNone DEF Groups
    <2>3. Groups(h, 2) = 2
        <3>1. {x \in Ranks(h) : Count(h, x) = 2} = {a, b}
            OBVIOUS
        <3>2. Cardinality({a, b}) = 2
            BY <1>0, SizeTwo, Zenon
        <3> QED
            BY <3>1, <3>2 DEF Groups
    <2> QED
        BY <2>1, <2>2, <2>3
<1>4. Category(h) = 2
    BY <1>2, <1>3, EnumIs, CategoryIs DEF Enum, Makes
<1>5. PokerCategory(h) = 2
    <2>1. {Count(h, x) : x \in Ranks(h)} = {2, 1}
        OBVIOUS
    <2>2. Max({Count(h, x) : x \in Ranks(h)}) = 2
        BY <2>1, MaxIs
    <2> QED
        BY <1>1, <1>2, <2>2, EnumIs DEF PokerCategory, Enum, OneSuit
<1>6. Ahead(h, a) = {} /\ Ahead(h, b) = {a} /\ Ahead(h, c) = {a, b}
    BY DEF Ahead
<1>7. Cardinality(Ahead(h, a)) = 0 /\ Cardinality(Ahead(h, b)) = 1 /\ Cardinality(Ahead(h, c)) = 2
    <2>1. Cardinality(Ahead(h, a)) = 0
        BY <1>6, SizeNone
    <2>2. Cardinality(Ahead(h, b)) = 1
        BY <1>6, SizeOne
    <2>3. Cardinality(Ahead(h, c)) = 2
        <3>1. Cardinality({a, b}) = 2
            BY <1>0, SizeTwo, Zenon
        <3> QED
            BY <1>6, <3>1
    <2> QED
        BY <2>1, <2>2, <2>3
<1>8. Ranks(h) \in SUBSET (2..14)
    OBVIOUS
<1>9. /\ Priority(h, 0) = a /\ Priority(h, 1) = b /\ Priority(h, 2) = c
      /\ Priority(h, 3) = 0 /\ Priority(h, 4) = 0
    BY <1>7, <1>8, PriorityIs
<1>10. Kicker(h) = 65536 * a + 4096 * b + 256 * c
    BY <1>9 DEF Kicker
<1>11. Valued(h, 2, 65536 * a + 4096 * b + 256 * c)
    BY <1>2, <1>4, <1>5, <1>10, ValuedByRanks, EnumIs DEF Enum
<1> QED
    BY <1>2, <1>11 DEF PlayedRanks

LEMMA PairIs ==
    ASSUME NEW h \in Fives, NEW a, NEW b, NEW c, NEW d, IsPair(h, a, b, c, d)
    PROVE  /\ Valued(h, 1, 65536 * a + 4096 * b + 256 * c + 16 * d)
           /\ PlayedRanks(h, 4) = {} /\ PlayedRanks(h, 3) = {}
           /\ PlayedRanks(h, 2) = {a} /\ PlayedRanks(h, 1) = {b, c, d}
<1>0. a # b /\ a # c /\ a # d /\ b # c /\ b # d /\ c # d
    BY DEF IsPair
<1>1. Cardinality(Ranks(h)) = 4
    <2>1. Cardinality({a, b, c, d}) = 4
        BY <1>0, SizeFour, Zenon
    <2> QED
        BY <2>1 DEF IsPair
<1> USE DEF IsPair
<1>2. ~IsFlush(h) /\ ~OneSuit(h) /\ ~IsStraight(h) /\ ~IsWheel(h)
    BY <1>1, NoRun
<1>3. Groups(h, 4) = 0 /\ Groups(h, 3) = 0 /\ Groups(h, 2) = 1
    <2>1. Groups(h, 4) = 0
        <3>1. {x \in Ranks(h) : Count(h, x) = 4} = {}
            OBVIOUS
        <3> QED
            BY <3>1, SizeNone DEF Groups
    <2>2. Groups(h, 3) = 0
        <3>1. {x \in Ranks(h) : Count(h, x) = 3} = {}
            OBVIOUS
        <3> QED
            BY <3>1, SizeNone DEF Groups
    <2>3. Groups(h, 2) = 1
        <3>1. {x \in Ranks(h) : Count(h, x) = 2} = {a}
            OBVIOUS
        <3> QED
            BY <3>1, SizeOne DEF Groups
    <2> QED
        BY <2>1, <2>2, <2>3
<1>4. Category(h) = 1
    BY <1>2, <1>3, EnumIs, CategoryIs DEF Enum, Makes
<1>5. PokerCategory(h) = 1
    <2>1. {Count(h, x) : x \in Ranks(h)} = {2, 1}
        OBVIOUS
    <2>2. Max({Count(h, x) : x \in Ranks(h)}) = 2
        BY <2>1, MaxIs
    <2> QED
        BY <1>1, <1>2, <2>2, EnumIs DEF PokerCategory, Enum, OneSuit
<1>6. Ahead(h, a) = {} /\ Ahead(h, b) = {a} /\ Ahead(h, c) = {a, b} /\ Ahead(h, d) = {a, b, c}
    BY DEF Ahead
<1>7. /\ Cardinality(Ahead(h, a)) = 0 /\ Cardinality(Ahead(h, b)) = 1
      /\ Cardinality(Ahead(h, c)) = 2 /\ Cardinality(Ahead(h, d)) = 3
    <2>1. Cardinality(Ahead(h, a)) = 0
        BY <1>6, SizeNone
    <2>2. Cardinality(Ahead(h, b)) = 1
        BY <1>6, SizeOne
    <2>3. Cardinality(Ahead(h, c)) = 2
        <3>1. Cardinality({a, b}) = 2
            BY <1>0, SizeTwo, Zenon
        <3> QED
            BY <1>6, <3>1
    <2>4. Cardinality(Ahead(h, d)) = 3
        <3>1. Cardinality({a, b, c}) = 3
            BY <1>0, SizeThree, Zenon
        <3> QED
            BY <1>6, <3>1
    <2> QED
        BY <2>1, <2>2, <2>3, <2>4
<1>8. Ranks(h) \in SUBSET (2..14)
    OBVIOUS
<1>9. /\ Priority(h, 0) = a /\ Priority(h, 1) = b /\ Priority(h, 2) = c /\ Priority(h, 3) = d
      /\ Priority(h, 4) = 0
    BY <1>7, <1>8, PriorityIs
<1>10. Kicker(h) = 65536 * a + 4096 * b + 256 * c + 16 * d
    BY <1>9 DEF Kicker
<1>11. Valued(h, 1, 65536 * a + 4096 * b + 256 * c + 16 * d)
    BY <1>2, <1>4, <1>5, <1>10, ValuedByRanks, EnumIs DEF Enum
<1> QED
    BY <1>2, <1>11 DEF PlayedRanks

\* The category of five ranks that all differ.
PlainCategory(suited, a, e) ==
    IF suited THEN IF a - e = 4 THEN IF a = 14 THEN 9 ELSE 8 ELSE 5
    ELSE IF a - e = 4 THEN 4 ELSE 0

\* Five different ranks make a run, a flush, both or nothing.
LEMMA PlainIs ==
    ASSUME NEW h \in Fives, NEW a, NEW b, NEW c, NEW d, NEW e, IsPlain(h, a, b, c, d, e),
           ~IsWheel(h)
    PROVE  /\ Valued(h, PlainCategory(OneSuit(h), a, e),
                     IF PlainCategory(OneSuit(h), a, e) \in {4, 8} THEN a
                     ELSE 65536 * a + 4096 * b + 256 * c + 16 * d + e)
           /\ PlayedRanks(h, 4) = {} /\ PlayedRanks(h, 3) = {}
           /\ PlayedRanks(h, 2) = {} /\ PlayedRanks(h, 1) = {a, b, c, d, e}
<1>0. /\ a # b /\ a # c /\ a # d /\ a # e /\ b # c /\ b # d /\ b # e
      /\ c # d /\ c # e /\ d # e
    BY DEF IsPlain
<1>1. Cardinality(Ranks(h)) = 5
    <2>1. Cardinality(RanksOf(a, b, c, d, e)) = 5
        BY <1>0, SizeFive
    <2>2. Ranks(h) = RanksOf(a, b, c, d, e)
        BY DEF IsPlain, RanksOf
    <2> QED
        BY <2>1, <2>2
<1> USE DEF IsPlain
<1>2. IsStraight(h) <=> a - e = 4
    <2>1. Max(Ranks(h)) = a
        BY MaxIs
    <2>2. Min(Ranks(h)) = e
        BY MinIs
    <2> QED
        BY <1>1, <2>1, <2>2 DEF IsStraight
<1>3. IsFlush(h) <=> OneSuit(h)
    BY FlushIs
<1>4. Groups(h, 4) = 0 /\ Groups(h, 3) = 0 /\ Groups(h, 2) = 0
    <2>1. {x \in Ranks(h) : Count(h, x) = 4} = {}
        OBVIOUS
    <2>2. {x \in Ranks(h) : Count(h, x) = 3} = {}
        OBVIOUS
    <2>3. {x \in Ranks(h) : Count(h, x) = 2} = {}
        OBVIOUS
    <2> QED
        BY <2>1, <2>2, <2>3, SizeNone DEF Groups
<1> DEFINE k == PlainCategory(OneSuit(h), a, e)
<1>5. Category(h) = k
    <2>1. 14 \in Ranks(h) <=> a = 14
        OBVIOUS
    <2>2. k \in HighCard..RoyalFlush /\ Makes(h, k)
        BY <1>2, <1>3, <1>4, <2>1, EnumIs DEF Enum, Makes, PlainCategory
    <2>3. \A y \in HighCard..RoyalFlush : Makes(h, y) => y <= k
        BY <1>2, <1>3, <1>4, <2>1, EnumIs DEF Enum, Makes, PlainCategory
    <2> HIDE DEF k
    <2> QED
        BY <2>2, <2>3, CategoryIs
<1>6. PokerCategory(h) = k
    <2>1. {Count(h, x) : x \in Ranks(h)} = {1}
        OBVIOUS
    <2>2. Max({Count(h, x) : x \in Ranks(h)}) = 1
        BY <2>1, MaxIs
    <2>3. (\E low \in 2..10 : Ranks(h) = low..low + 4) <=> a - e = 4
        <3>1. ASSUME NEW low \in 2..10, Ranks(h) = low..low + 4 PROVE a - e = 4
            <4>1. low \in Ranks(h) /\ low + 4 \in Ranks(h)
                <5>1. low \in low..low + 4 /\ low + 4 \in low..low + 4
                    OBVIOUS
                <5> HIDE DEF IsPlain
                <5> QED
                    BY <3>1, <5>1
            <4>2. a \in low..low + 4 /\ e \in low..low + 4
                BY <3>1
            <4> QED
                BY <4>1, <4>2
        <3>2. ASSUME a - e = 4 PROVE Ranks(h) = e..e + 4 /\ e \in 2..10
            BY <3>2
        <3> QED
            BY <3>1, <3>2
    <2>4. Ranks(h) = 10..14 <=> a - e = 4 /\ a = 14
        <3>1. ASSUME Ranks(h) = 10..14 PROVE a - e = 4 /\ a = 14
            <4>1. 10 \in Ranks(h) /\ 14 \in Ranks(h)
                BY <3>1
            <4>2. e \in 10..14
                BY <3>1
            <4> QED
                BY <4>1, <4>2
        <3>2. ASSUME a - e = 4, a = 14 PROVE Ranks(h) = 10..14
            BY <3>2
        <3> QED
            BY <3>1, <3>2
    <2>6. ~IsWheel(h)
        OBVIOUS
    <2> HIDE DEF IsPlain
    <2>7. CASE OneSuit(h) /\ a - e = 4 /\ a = 14
        BY <1>1, <2>2, <2>3, <2>4, <2>6, <2>7, EnumIs
        DEF PokerCategory, Enum, OneSuit, PlainCategory
    <2>8. CASE OneSuit(h) /\ a - e = 4 /\ a # 14
        BY <1>1, <2>2, <2>3, <2>4, <2>6, <2>8, EnumIs
        DEF PokerCategory, Enum, OneSuit, PlainCategory
    <2>9. CASE OneSuit(h) /\ a - e # 4
        BY <1>1, <2>2, <2>3, <2>4, <2>6, <2>9, EnumIs
        DEF PokerCategory, Enum, OneSuit, PlainCategory
    <2>10. CASE ~OneSuit(h) /\ a - e = 4
        BY <1>1, <2>2, <2>3, <2>4, <2>6, <2>10, EnumIs
        DEF PokerCategory, Enum, OneSuit, PlainCategory
    <2>11. CASE ~OneSuit(h) /\ a - e # 4
        BY <1>1, <2>2, <2>3, <2>4, <2>6, <2>11, EnumIs
        DEF PokerCategory, Enum, OneSuit, PlainCategory
    <2> QED
        BY <2>7, <2>8, <2>9, <2>10, <2>11
<1>7. /\ Ahead(h, a) = {} /\ Ahead(h, b) = {a} /\ Ahead(h, c) = {a, b}
      /\ Ahead(h, d) = {a, b, c} /\ Ahead(h, e) = {a, b, c, d}
    BY DEF Ahead
<1>8. /\ Cardinality(Ahead(h, a)) = 0 /\ Cardinality(Ahead(h, b)) = 1
      /\ Cardinality(Ahead(h, c)) = 2 /\ Cardinality(Ahead(h, d)) = 3
      /\ Cardinality(Ahead(h, e)) = 4
    <2> HIDE DEF IsPlain
    <2>1. Cardinality(Ahead(h, a)) = 0 /\ Cardinality(Ahead(h, b)) = 1
        BY <1>7, SizeNone, SizeOne
    <2>2. Cardinality({a, b}) = 2
        BY <1>0, SizeTwo, Zenon
    <2>3. Cardinality({a, b, c}) = 3
        BY <1>0, SizeThree, Zenon
    <2>4. Cardinality({a, b, c, d}) = 4
        BY <1>0, SizeFour, Zenon
    <2> QED
        BY <1>7, <2>1, <2>2, <2>3, <2>4
<1>9. Ranks(h) \in SUBSET (2..14)
    OBVIOUS
<1>10. /\ Priority(h, 0) = a /\ Priority(h, 1) = b /\ Priority(h, 2) = c
       /\ Priority(h, 3) = d /\ Priority(h, 4) = e
    BY <1>8, <1>9, PriorityIs
<1>11. Kicker(h) = 65536 * a + 4096 * b + 256 * c + 16 * d + e
    BY <1>10 DEF Kicker
<1>12. Max(Ranks(h)) = a
    BY MaxIs
<1>13. Score(h) = k * 10000000 + (IF k \in {4, 8} THEN a ELSE Kicker(h))
    BY <1>5, <1>12, EnumIs DEF Score, Enum
<1>14. Valued(h, k, IF k \in {4, 8} THEN a ELSE Kicker(h))
    BY <1>5, <1>6, <1>13 DEF Valued
<1> QED
    BY <1>11, <1>14 DEF PlayedRanks

----------------------------------------------------------------------------
(* Two hands of one category                                               *)

\* The largest rank in which the groups of h and k differ is one of h's.
Leads(h, k) ==
    \E n \in 1..4 :
        /\ \E m \in PlayedRanks(h, n) \ PlayedRanks(k, n) :
              \A x \in 1..14 : x > m => (x \in PlayedRanks(h, n) <=> x \in PlayedRanks(k, n))
        /\ \A j \in n+1..4 : PlayedRanks(h, j) = PlayedRanks(k, j)

\* The groups of h and k are the same.
Same(h, k) == \A n \in 1..4 : PlayedRanks(h, n) = PlayedRanks(k, n)

\* A place of a hand holds ranks, the ace of a wheel as one.
LEMMA PlayedTyped ==
    ASSUME NEW h \in Fives, NEW n \in 1..4
    PROVE  PlayedRanks(h, n) \subseteq 1..14
<1>1. Ranks(h) \subseteq 1..14
    BY DEF Fives, Ranks, Deck
<1> QED
    BY <1>1 DEF PlayedRanks

\* A hand that leads another of its category beats it, and is not beaten by it.
LEMMA LeadsBeats ==
    ASSUME NEW h \in Fives, NEW k \in Fives, PokerCategory(h) = PokerCategory(k),
           PokerCategory(h) \in Int, Leads(h, k)
    PROVE  Beats(Strength(h), Strength(k)) /\ ~Beats(Strength(k), Strength(h))
<1>1. PICK n \in 1..4 :
        /\ \E m \in PlayedRanks(h, n) \ PlayedRanks(k, n) :
              \A x \in 1..14 : x > m => (x \in PlayedRanks(h, n) <=> x \in PlayedRanks(k, n))
        /\ \A j \in n+1..4 : PlayedRanks(h, j) = PlayedRanks(k, j)
    BY DEF Leads
<1>2. PICK m \in PlayedRanks(h, n) \ PlayedRanks(k, n) :
        \A x \in 1..14 : x > m => (x \in PlayedRanks(h, n) <=> x \in PlayedRanks(k, n))
    BY <1>1
<1> DEFINE H == PlayedRanks(h, n)
           K == PlayedRanks(k, n)
           D == SymDiff(H, K)
           E == SymDiff(K, H)
<1>3. H \subseteq 1..14 /\ K \subseteq 1..14
    BY PlayedTyped
<1>4. D \in SUBSET Int /\ m \in D /\ (\A x \in D : x <= m) /\ E = D
    <2> HIDE DEF H, K
    <2>1. m \in H /\ m \notin K /\ \A x \in 1..14 : x > m => (x \in H <=> x \in K)
        BY <1>2 DEF H, K
    <2> QED
        BY <1>3, <2>1 DEF SymDiff
<1>5. Max(D) = m /\ Max(E) = m
    <2> HIDE DEF D, E
    <2> QED
        BY <1>4, MaxIs
<1> DEFINE one == Strength(h)
           two == Strength(k)
<1>6. /\ one.category = PokerCategory(h) /\ two.category = PokerCategory(k)
      /\ \A j \in 1..4 : one.ranks[j] = PlayedRanks(h, j) /\ two.ranks[j] = PlayedRanks(k, j)
    BY DEF Strength
<1> HIDE DEF one, two, D, E
<1>7. Beats(one, two)
    <2>1. /\ one.ranks[n] # two.ranks[n]
          /\ \A j \in n+1..4 : one.ranks[j] = two.ranks[j]
          /\ Max(SymDiff(one.ranks[n], two.ranks[n])) \in one.ranks[n]
        BY <1>1, <1>2, <1>5, <1>6 DEF D
    <2> QED
        BY <1>6, <2>1 DEF Beats
<1>8. ASSUME Beats(two, one) PROVE FALSE
    <2>1. PICK i \in 1..4 : /\ two.ranks[i] # one.ranks[i]
                            /\ \A j \in i+1..4 : two.ranks[j] = one.ranks[j]
                            /\ Max(SymDiff(two.ranks[i], one.ranks[i])) \in two.ranks[i]
        BY <1>6, <1>8 DEF Beats
    <2>2. i = n
        <3>1. ~(i > n)
            BY <1>1, <1>6, <2>1
        <3>2. ~(i < n)
            BY <1>2, <1>6, <2>1
        <3> QED
            BY <3>1, <3>2
    <2>3. Max(SymDiff(two.ranks[i], one.ranks[i])) = m
        BY <1>5, <1>6, <2>2 DEF E
    <2> QED
        BY <1>2, <1>6, <2>1, <2>2, <2>3
<1> QED
    BY <1>7, <1>8 DEF one, two

\* Hands of one category with the same groups tie.
LEMMA SameTies ==
    ASSUME NEW h, NEW k, PokerCategory(h) = PokerCategory(k), PokerCategory(h) \in Int, Same(h, k)
    PROVE  ~Beats(Strength(h), Strength(k)) /\ ~Beats(Strength(k), Strength(h))
<1>1. /\ Strength(h).category = PokerCategory(h) /\ Strength(k).category = PokerCategory(k)
      /\ \A j \in 1..4 : /\ Strength(h).ranks[j] = PlayedRanks(h, j)
                         /\ Strength(k).ranks[j] = PlayedRanks(k, j)
    BY DEF Strength
<1>2. \A j \in 1..4 : Strength(h).ranks[j] = Strength(k).ranks[j]
    BY <1>1 DEF Same
<1> QED
    BY <1>1, <1>2 DEF Beats

\* What is left to show of two hands of one category.
Resolved(h, k) ==
    /\ Score(h) > Score(k) => Leads(h, k)
    /\ Score(h) = Score(k) => Same(h, k)

\* The category of a hand without a wheel gives its shape away.
LEMMA ShapeOf ==
    ASSUME NEW h \in Fives, ~IsWheel(h)
    PROVE  \/ PokerCategory(h) = 7 /\ \E a, b : IsFour(h, a, b)
           \/ PokerCategory(h) = 6 /\ \E a, b : IsFull(h, a, b)
           \/ PokerCategory(h) = 3 /\ \E a, b, c : IsThree(h, a, b, c)
           \/ PokerCategory(h) = 2 /\ \E a, b, c : IsTwo(h, a, b, c)
           \/ PokerCategory(h) = 1 /\ \E a, b, c, d : IsPair(h, a, b, c, d)
           \/ PokerCategory(h) \in {0, 4, 5, 8, 9} /\ \E a, b, c, d, e : IsPlain(h, a, b, c, d, e)
<1>1. ASSUME NEW a, NEW b, IsFour(h, a, b) PROVE PokerCategory(h) = 7
    BY <1>1, FourIs, SMT DEF Valued
<1>2. ASSUME NEW a, NEW b, IsFull(h, a, b) PROVE PokerCategory(h) = 6
    BY <1>2, FullIs, SMT DEF Valued
<1>3. ASSUME NEW a, NEW b, NEW c, IsThree(h, a, b, c) PROVE PokerCategory(h) = 3
    BY <1>3, ThreeIs, SMT DEF Valued
<1>4. ASSUME NEW a, NEW b, NEW c, IsTwo(h, a, b, c) PROVE PokerCategory(h) = 2
    BY <1>4, TwoIs, SMT DEF Valued
<1>5. ASSUME NEW a, NEW b, NEW c, NEW d, IsPair(h, a, b, c, d) PROVE PokerCategory(h) = 1
    BY <1>5, PairIs, SMT DEF Valued
<1>6. ASSUME NEW a, NEW b, NEW c, NEW d, NEW e, IsPlain(h, a, b, c, d, e)
      PROVE  PokerCategory(h) \in {0, 4, 5, 8, 9}
    <2>1. PokerCategory(h) = PlainCategory(OneSuit(h), a, e)
        BY <1>6, PlainIs, SMT DEF Valued
    <2> QED
        BY <2>1 DEF PlainCategory
<1> QED
    BY <1>1, <1>2, <1>3, <1>4, <1>5, <1>6, Shapes

\* The packed numbers of two hands of one shape compare as their groups do.
LEMMA FoursResolved ==
    ASSUME NEW h \in Fives, NEW k \in Fives,
           NEW a, NEW b, IsFour(h, a, b),
           NEW a2, NEW b2, IsFour(k, a2, b2)
    PROVE  Resolved(h, k)
<1>1. Score(h) = 7 * 10000000 + (65536 * a + 4096 * b)
    BY FourIs, SMT DEF Valued
<1>2. Score(k) = 7 * 10000000 + (65536 * a2 + 4096 * b2)
    BY FourIs, SMT DEF Valued
<1>3. a \in 2..14 /\ b \in 2..14 /\ a2 \in 2..14 /\ b2 \in 2..14
    BY DEF IsFour
<1>4. /\ PlayedRanks(h, 4) = {a} /\ PlayedRanks(h, 3) = {}
      /\ PlayedRanks(h, 2) = {} /\ PlayedRanks(h, 1) = {b}
      /\ PlayedRanks(k, 4) = {a2} /\ PlayedRanks(k, 3) = {}
      /\ PlayedRanks(k, 2) = {} /\ PlayedRanks(k, 1) = {b2}
    BY FourIs
<1>5. ASSUME Score(h) > Score(k) PROVE Leads(h, k)
    <2>1. \/ a > a2
          \/ a = a2 /\ b > b2
        BY <1>1, <1>2, <1>3, <1>5, SMT
    <2>2. CASE a > a2
        <3>1. /\ a \in PlayedRanks(h, 4) \ PlayedRanks(k, 4)
              /\ \A x \in 1..14 : x > a => (x \in PlayedRanks(h, 4) <=> x \in PlayedRanks(k, 4))
            BY <1>3, <1>4, <2>2 DEF IsFour
        <3>2. \A j \in 4+1..4 : PlayedRanks(h, j) = PlayedRanks(k, j)
            BY <1>4, <2>2
        <3> QED
            BY <3>1, <3>2 DEF Leads
    <2>3. CASE a = a2 /\ b > b2
        <3>1. /\ b \in PlayedRanks(h, 1) \ PlayedRanks(k, 1)
              /\ \A x \in 1..14 : x > b => (x \in PlayedRanks(h, 1) <=> x \in PlayedRanks(k, 1))
            BY <1>3, <1>4, <2>3 DEF IsFour
        <3>2. \A j \in 1+1..4 : PlayedRanks(h, j) = PlayedRanks(k, j)
            BY <1>4, <2>3
        <3> QED
            BY <3>1, <3>2 DEF Leads
    <2> QED
        BY <2>1, <2>2, <2>3
<1>6. ASSUME Score(h) = Score(k) PROVE Same(h, k)
    <2>1. a = a2 /\ b = b2
        BY <1>1, <1>2, <1>3, <1>6, SMT
    <2> QED
        BY <1>4, <2>1 DEF Same
<1> QED
    BY <1>5, <1>6 DEF Resolved

LEMMA FullsResolved ==
    ASSUME NEW h \in Fives, NEW k \in Fives,
           NEW a, NEW b, IsFull(h, a, b),
           NEW a2, NEW b2, IsFull(k, a2, b2)
    PROVE  Resolved(h, k)
<1>1. Score(h) = 6 * 10000000 + (65536 * a + 4096 * b)
    BY FullIs, SMT DEF Valued
<1>2. Score(k) = 6 * 10000000 + (65536 * a2 + 4096 * b2)
    BY FullIs, SMT DEF Valued
<1>3. a \in 2..14 /\ b \in 2..14 /\ a2 \in 2..14 /\ b2 \in 2..14
    BY DEF IsFull
<1>4. /\ PlayedRanks(h, 4) = {} /\ PlayedRanks(h, 3) = {a}
      /\ PlayedRanks(h, 2) = {b} /\ PlayedRanks(h, 1) = {}
      /\ PlayedRanks(k, 4) = {} /\ PlayedRanks(k, 3) = {a2}
      /\ PlayedRanks(k, 2) = {b2} /\ PlayedRanks(k, 1) = {}
    BY FullIs
<1>5. ASSUME Score(h) > Score(k) PROVE Leads(h, k)
    <2>1. \/ a > a2
          \/ a = a2 /\ b > b2
        BY <1>1, <1>2, <1>3, <1>5, SMT
    <2>2. CASE a > a2
        <3>1. /\ a \in PlayedRanks(h, 3) \ PlayedRanks(k, 3)
              /\ \A x \in 1..14 : x > a => (x \in PlayedRanks(h, 3) <=> x \in PlayedRanks(k, 3))
            BY <1>3, <1>4, <2>2 DEF IsFull
        <3>2. \A j \in 3+1..4 : PlayedRanks(h, j) = PlayedRanks(k, j)
            BY <1>4, <2>2
        <3> QED
            BY <3>1, <3>2 DEF Leads
    <2>3. CASE a = a2 /\ b > b2
        <3>1. /\ b \in PlayedRanks(h, 2) \ PlayedRanks(k, 2)
              /\ \A x \in 1..14 : x > b => (x \in PlayedRanks(h, 2) <=> x \in PlayedRanks(k, 2))
            BY <1>3, <1>4, <2>3 DEF IsFull
        <3>2. \A j \in 2+1..4 : PlayedRanks(h, j) = PlayedRanks(k, j)
            BY <1>4, <2>3
        <3> QED
            BY <3>1, <3>2 DEF Leads
    <2> QED
        BY <2>1, <2>2, <2>3
<1>6. ASSUME Score(h) = Score(k) PROVE Same(h, k)
    <2>1. a = a2 /\ b = b2
        BY <1>1, <1>2, <1>3, <1>6, SMT
    <2> QED
        BY <1>4, <2>1 DEF Same
<1> QED
    BY <1>5, <1>6 DEF Resolved

LEMMA ThreesResolved ==
    ASSUME NEW h \in Fives, NEW k \in Fives,
           NEW a, NEW b, NEW c, IsThree(h, a, b, c),
           NEW a2, NEW b2, NEW c2, IsThree(k, a2, b2, c2)
    PROVE  Resolved(h, k)
<1>1. Score(h) = 3 * 10000000 + (65536 * a + 4096 * b + 256 * c)
    BY ThreeIs, SMT DEF Valued
<1>2. Score(k) = 3 * 10000000 + (65536 * a2 + 4096 * b2 + 256 * c2)
    BY ThreeIs, SMT DEF Valued
<1>3. a \in 2..14 /\ b \in 2..14 /\ c \in 2..14 /\ a2 \in 2..14 /\ b2 \in 2..14 /\ c2 \in 2..14
    BY DEF IsThree
<1>4. /\ PlayedRanks(h, 4) = {} /\ PlayedRanks(h, 3) = {a}
      /\ PlayedRanks(h, 2) = {} /\ PlayedRanks(h, 1) = {b, c}
      /\ PlayedRanks(k, 4) = {} /\ PlayedRanks(k, 3) = {a2}
      /\ PlayedRanks(k, 2) = {} /\ PlayedRanks(k, 1) = {b2, c2}
    BY ThreeIs
<1>5. ASSUME Score(h) > Score(k) PROVE Leads(h, k)
    <2>1. \/ a > a2
          \/ a = a2 /\ b > b2
          \/ a = a2 /\ b = b2 /\ c > c2
        BY <1>1, <1>2, <1>3, <1>5, SMT
    <2>2. CASE a > a2
        <3>1. /\ a \in PlayedRanks(h, 3) \ PlayedRanks(k, 3)
              /\ \A x \in 1..14 : x > a => (x \in PlayedRanks(h, 3) <=> x \in PlayedRanks(k, 3))
            BY <1>3, <1>4, <2>2 DEF IsThree
        <3>2. \A j \in 3+1..4 : PlayedRanks(h, j) = PlayedRanks(k, j)
            BY <1>4, <2>2
        <3> QED
            BY <3>1, <3>2 DEF Leads
    <2>3. CASE a = a2 /\ b > b2
        <3>1. /\ b \in PlayedRanks(h, 1) \ PlayedRanks(k, 1)
              /\ \A x \in 1..14 : x > b => (x \in PlayedRanks(h, 1) <=> x \in PlayedRanks(k, 1))
            BY <1>3, <1>4, <2>3 DEF IsThree
        <3>2. \A j \in 1+1..4 : PlayedRanks(h, j) = PlayedRanks(k, j)
            BY <1>4, <2>3
        <3> QED
            BY <3>1, <3>2 DEF Leads
    <2>4. CASE a = a2 /\ b = b2 /\ c > c2
        <3>1. /\ c \in PlayedRanks(h, 1) \ PlayedRanks(k, 1)
              /\ \A x \in 1..14 : x > c => (x \in PlayedRanks(h, 1) <=> x \in PlayedRanks(k, 1))
            BY <1>3, <1>4, <2>4 DEF IsThree
        <3>2. \A j \in 1+1..4 : PlayedRanks(h, j) = PlayedRanks(k, j)
            BY <1>4, <2>4
        <3> QED
            BY <3>1, <3>2 DEF Leads
    <2> QED
        BY <2>1, <2>2, <2>3, <2>4
<1>6. ASSUME Score(h) = Score(k) PROVE Same(h, k)
    <2>1. a = a2 /\ b = b2 /\ c = c2
        BY <1>1, <1>2, <1>3, <1>6, SMT
    <2> QED
        BY <1>4, <2>1 DEF Same
<1> QED
    BY <1>5, <1>6 DEF Resolved

LEMMA TwosResolved ==
    ASSUME NEW h \in Fives, NEW k \in Fives,
           NEW a, NEW b, NEW c, IsTwo(h, a, b, c),
           NEW a2, NEW b2, NEW c2, IsTwo(k, a2, b2, c2)
    PROVE  Resolved(h, k)
<1>1. Score(h) = 2 * 10000000 + (65536 * a + 4096 * b + 256 * c)
    BY TwoIs, SMT DEF Valued
<1>2. Score(k) = 2 * 10000000 + (65536 * a2 + 4096 * b2 + 256 * c2)
    BY TwoIs, SMT DEF Valued
<1>3. a \in 2..14 /\ b \in 2..14 /\ c \in 2..14 /\ a2 \in 2..14 /\ b2 \in 2..14 /\ c2 \in 2..14
    BY DEF IsTwo
<1>4. /\ PlayedRanks(h, 4) = {} /\ PlayedRanks(h, 3) = {}
      /\ PlayedRanks(h, 2) = {a, b} /\ PlayedRanks(h, 1) = {c}
      /\ PlayedRanks(k, 4) = {} /\ PlayedRanks(k, 3) = {}
      /\ PlayedRanks(k, 2) = {a2, b2} /\ PlayedRanks(k, 1) = {c2}
    BY TwoIs
<1>5. ASSUME Score(h) > Score(k) PROVE Leads(h, k)
    <2>1. \/ a > a2
          \/ a = a2 /\ b > b2
          \/ a = a2 /\ b = b2 /\ c > c2
        BY <1>1, <1>2, <1>3, <1>5, SMT
    <2>2. CASE a > a2
        <3>1. /\ a \in PlayedRanks(h, 2) \ PlayedRanks(k, 2)
              /\ \A x \in 1..14 : x > a => (x \in PlayedRanks(h, 2) <=> x \in PlayedRanks(k, 2))
            BY <1>3, <1>4, <2>2 DEF IsTwo
        <3>2. \A j \in 2+1..4 : PlayedRanks(h, j) = PlayedRanks(k, j)
            BY <1>4, <2>2
        <3> QED
            BY <3>1, <3>2 DEF Leads
    <2>3. CASE a = a2 /\ b > b2
        <3>1. /\ b \in PlayedRanks(h, 2) \ PlayedRanks(k, 2)
              /\ \A x \in 1..14 : x > b => (x \in PlayedRanks(h, 2) <=> x \in PlayedRanks(k, 2))
            BY <1>3, <1>4, <2>3 DEF IsTwo
        <3>2. \A j \in 2+1..4 : PlayedRanks(h, j) = PlayedRanks(k, j)
            BY <1>4, <2>3
        <3> QED
            BY <3>1, <3>2 DEF Leads
    <2>4. CASE a = a2 /\ b = b2 /\ c > c2
        <3>1. /\ c \in PlayedRanks(h, 1) \ PlayedRanks(k, 1)
              /\ \A x \in 1..14 : x > c => (x \in PlayedRanks(h, 1) <=> x \in PlayedRanks(k, 1))
            BY <1>3, <1>4, <2>4 DEF IsTwo
        <3>2. \A j \in 1+1..4 : PlayedRanks(h, j) = PlayedRanks(k, j)
            BY <1>4, <2>4
        <3> QED
            BY <3>1, <3>2 DEF Leads
    <2> QED
        BY <2>1, <2>2, <2>3, <2>4
<1>6. ASSUME Score(h) = Score(k) PROVE Same(h, k)
    <2>1. a = a2 /\ b = b2 /\ c = c2
        BY <1>1, <1>2, <1>3, <1>6, SMT
    <2> QED
        BY <1>4, <2>1 DEF Same
<1> QED
    BY <1>5, <1>6 DEF Resolved

LEMMA PairsResolved ==
    ASSUME NEW h \in Fives, NEW k \in Fives,
           NEW a, NEW b, NEW c, NEW d, IsPair(h, a, b, c, d),
           NEW a2, NEW b2, NEW c2, NEW d2, IsPair(k, a2, b2, c2, d2)
    PROVE  Resolved(h, k)
<1>1. Score(h) = 1 * 10000000 + (65536 * a + 4096 * b + 256 * c + 16 * d)
    BY PairIs, SMT DEF Valued
<1>2. Score(k) = 1 * 10000000 + (65536 * a2 + 4096 * b2 + 256 * c2 + 16 * d2)
    BY PairIs, SMT DEF Valued
<1>3. /\ a \in 2..14 /\ b \in 2..14 /\ c \in 2..14 /\ d \in 2..14
      /\ a2 \in 2..14 /\ b2 \in 2..14 /\ c2 \in 2..14 /\ d2 \in 2..14
    BY DEF IsPair
<1>4. /\ PlayedRanks(h, 4) = {} /\ PlayedRanks(h, 3) = {}
      /\ PlayedRanks(h, 2) = {a} /\ PlayedRanks(h, 1) = {b, c, d}
      /\ PlayedRanks(k, 4) = {} /\ PlayedRanks(k, 3) = {}
      /\ PlayedRanks(k, 2) = {a2} /\ PlayedRanks(k, 1) = {b2, c2, d2}
    BY PairIs
<1>5. ASSUME Score(h) > Score(k) PROVE Leads(h, k)
    <2>1. \/ a > a2
          \/ a = a2 /\ b > b2
          \/ a = a2 /\ b = b2 /\ c > c2
          \/ a = a2 /\ b = b2 /\ c = c2 /\ d > d2
        BY <1>1, <1>2, <1>3, <1>5, SMT
    <2>2. CASE a > a2
        <3>1. /\ a \in PlayedRanks(h, 2) \ PlayedRanks(k, 2)
              /\ \A x \in 1..14 : x > a => (x \in PlayedRanks(h, 2) <=> x \in PlayedRanks(k, 2))
            BY <1>3, <1>4, <2>2 DEF IsPair
        <3>2. \A j \in 2+1..4 : PlayedRanks(h, j) = PlayedRanks(k, j)
            BY <1>4, <2>2
        <3> QED
            BY <3>1, <3>2 DEF Leads
    <2>3. CASE a = a2 /\ b > b2
        <3>1. /\ b \in PlayedRanks(h, 1) \ PlayedRanks(k, 1)
              /\ \A x \in 1..14 : x > b => (x \in PlayedRanks(h, 1) <=> x \in PlayedRanks(k, 1))
            BY <1>3, <1>4, <2>3 DEF IsPair
        <3>2. \A j \in 1+1..4 : PlayedRanks(h, j) = PlayedRanks(k, j)
            BY <1>4, <2>3
        <3> QED
            BY <3>1, <3>2 DEF Leads
    <2>4. CASE a = a2 /\ b = b2 /\ c > c2
        <3>1. /\ c \in PlayedRanks(h, 1) \ PlayedRanks(k, 1)
              /\ \A x \in 1..14 : x > c => (x \in PlayedRanks(h, 1) <=> x \in PlayedRanks(k, 1))
            BY <1>3, <1>4, <2>4 DEF IsPair
        <3>2. \A j \in 1+1..4 : PlayedRanks(h, j) = PlayedRanks(k, j)
            BY <1>4, <2>4
        <3> QED
            BY <3>1, <3>2 DEF Leads
    <2>5. CASE a = a2 /\ b = b2 /\ c = c2 /\ d > d2
        <3>1. /\ d \in PlayedRanks(h, 1) \ PlayedRanks(k, 1)
              /\ \A x \in 1..14 : x > d => (x \in PlayedRanks(h, 1) <=> x \in PlayedRanks(k, 1))
            BY <1>3, <1>4, <2>5 DEF IsPair
        <3>2. \A j \in 1+1..4 : PlayedRanks(h, j) = PlayedRanks(k, j)
            BY <1>4, <2>5
        <3> QED
            BY <3>1, <3>2 DEF Leads
    <2> QED
        BY <2>1, <2>2, <2>3, <2>4, <2>5
<1>6. ASSUME Score(h) = Score(k) PROVE Same(h, k)
    <2>1. a = a2 /\ b = b2 /\ c = c2 /\ d = d2
        BY <1>1, <1>2, <1>3, <1>6, SMT
    <2> QED
        BY <1>4, <2>1 DEF Same
<1> QED
    BY <1>5, <1>6 DEF Resolved

LEMMA PlainsResolved ==
    ASSUME NEW h \in Fives, NEW k \in Fives, ~IsWheel(h), ~IsWheel(k),
           PokerCategory(h) = PokerCategory(k),
           NEW a, NEW b, NEW c, NEW d, NEW e, IsPlain(h, a, b, c, d, e),
           NEW a2, NEW b2, NEW c2, NEW d2, NEW e2, IsPlain(k, a2, b2, c2, d2, e2)
    PROVE  Resolved(h, k)
<1> DEFINE p == PlainCategory(OneSuit(h), a, e)
           q == PlainCategory(OneSuit(k), a2, e2)
           v == 65536 * a + 4096 * b + 256 * c + 16 * d + e
           w == 65536 * a2 + 4096 * b2 + 256 * c2 + 16 * d2 + e2
<1>1. /\ Score(h) = p * 10000000 + (IF p \in {4, 8} THEN a ELSE v)
      /\ Score(k) = q * 10000000 + (IF q \in {4, 8} THEN a2 ELSE w)
    BY PlainIs, SMT DEF Valued
<1>2. p = q
    <2>1. PokerCategory(h) = p /\ PokerCategory(k) = q
        BY PlainIs, SMT DEF Valued
    <2> QED
        BY <2>1
<1>3. /\ a \in 2..14 /\ b \in 2..14 /\ c \in 2..14 /\ d \in 2..14 /\ e \in 2..14
      /\ a2 \in 2..14 /\ b2 \in 2..14 /\ c2 \in 2..14 /\ d2 \in 2..14 /\ e2 \in 2..14
      /\ a > b /\ b > c /\ c > d /\ d > e /\ a2 > b2 /\ b2 > c2 /\ c2 > d2 /\ d2 > e2
    BY DEF IsPlain
<1>4. /\ PlayedRanks(h, 4) = {} /\ PlayedRanks(h, 3) = {} /\ PlayedRanks(h, 2) = {}
      /\ PlayedRanks(k, 4) = {} /\ PlayedRanks(k, 3) = {} /\ PlayedRanks(k, 2) = {}
      /\ PlayedRanks(h, 1) = {a, b, c, d, e} /\ PlayedRanks(k, 1) = {a2, b2, c2, d2, e2}
    BY PlainIs
\* Of two runs the high cards tell all.
<1>5. p \in {4, 8} => a - e = 4 /\ a2 - e2 = 4
    BY <1>2, <1>3 DEF PlainCategory
<1>6. p \in {0, 4, 5, 8, 9}
    BY DEF PlainCategory
<1> HIDE DEF p, q
<1>7. ASSUME Score(h) > Score(k) PROVE Leads(h, k)
    <2>1. \/ a > a2
          \/ a = a2 /\ b > b2
          \/ a = a2 /\ b = b2 /\ c > c2
          \/ a = a2 /\ b = b2 /\ c = c2 /\ d > d2
          \/ a = a2 /\ b = b2 /\ c = c2 /\ d = d2 /\ e > e2
        <3>1. CASE p \in {4, 8}
            BY <1>1, <1>2, <1>3, <1>6, <1>7, <3>1, SMT
        <3>2. CASE p \notin {4, 8}
            BY <1>1, <1>2, <1>3, <1>6, <1>7, <3>2, SMT
        <3> QED
            BY <3>1, <3>2
    <2>2. SUFFICES \E x \in {a, b, c, d, e} \ {a2, b2, c2, d2, e2} :
                      \A y \in 1..14 :
                         y > x => (y \in {a, b, c, d, e} <=> y \in {a2, b2, c2, d2, e2})
        <3>1. \A j \in 1+1..4 : PlayedRanks(h, j) = PlayedRanks(k, j)
            BY <1>4
        <3> QED
            BY <1>4, <2>2, <3>1 DEF Leads
    <2>3. CASE a > a2
        <3>1. a \in {a, b, c, d, e} \ {a2, b2, c2, d2, e2}
            BY <1>3, <2>3
        <3> QED
            BY <1>3, <2>3, <3>1
    <2>4. CASE a = a2 /\ b > b2
        <3>1. b \in {a, b, c, d, e} \ {a2, b2, c2, d2, e2}
            BY <1>3, <2>4
        <3> QED
            BY <1>3, <2>4, <3>1
    <2>5. CASE a = a2 /\ b = b2 /\ c > c2
        <3>1. c \in {a, b, c, d, e} \ {a2, b2, c2, d2, e2}
            BY <1>3, <2>5
        <3> QED
            BY <1>3, <2>5, <3>1
    <2>6. CASE a = a2 /\ b = b2 /\ c = c2 /\ d > d2
        <3>1. d \in {a, b, c, d, e} \ {a2, b2, c2, d2, e2}
            BY <1>3, <2>6
        <3> QED
            BY <1>3, <2>6, <3>1
    <2>7. CASE a = a2 /\ b = b2 /\ c = c2 /\ d = d2 /\ e > e2
        <3>1. e \in {a, b, c, d, e} \ {a2, b2, c2, d2, e2}
            BY <1>3, <2>7
        <3> QED
            BY <1>3, <2>7, <3>1
    <2> QED
        BY <2>1, <2>3, <2>4, <2>5, <2>6, <2>7
<1>8. ASSUME Score(h) = Score(k) PROVE Same(h, k)
    <2>1. a = a2 /\ b = b2 /\ c = c2 /\ d = d2 /\ e = e2
        <3>1. CASE p \in {4, 8}
            BY <1>1, <1>2, <1>3, <1>5, <1>6, <1>8, <3>1, SMT
        <3>2. CASE p \notin {4, 8}
            BY <1>1, <1>2, <1>3, <1>6, <1>8, <3>2, SMT
        <3> QED
            BY <3>1, <3>2
    <2> QED
        BY <1>4, <2>1 DEF Same
<1> QED
    BY <1>7, <1>8 DEF Resolved

\* So do the scores of any two hands of one category.
LEMMA CategoryResolved ==
    ASSUME NEW h \in Fives, NEW k \in Fives, ~IsWheel(h), ~IsWheel(k),
           PokerCategory(h) = PokerCategory(k)
    PROVE  Resolved(h, k)
<1> DEFINE x == PokerCategory(h)
<1>1. x \in {0, 1, 2, 3, 4, 5, 6, 7, 8, 9}
    BY ShapeOf
<1>2. PokerCategory(h) = x /\ PokerCategory(k) = x
    OBVIOUS
<1> HIDE DEF x
<1>3. CASE x = 7
    <2>1. \E a, b : IsFour(h, a, b)
        BY <1>2, <1>3, ShapeOf
    <2>2. \E a, b : IsFour(k, a, b)
        BY <1>2, <1>3, ShapeOf
    <2> QED
        BY <2>1, <2>2, FoursResolved
<1>4. CASE x = 6
    <2>1. \E a, b : IsFull(h, a, b)
        BY <1>2, <1>4, ShapeOf
    <2>2. \E a, b : IsFull(k, a, b)
        BY <1>2, <1>4, ShapeOf
    <2> QED
        BY <2>1, <2>2, FullsResolved
<1>5. CASE x = 3
    <2>1. \E a, b, c : IsThree(h, a, b, c)
        BY <1>2, <1>5, ShapeOf
    <2>2. \E a, b, c : IsThree(k, a, b, c)
        BY <1>2, <1>5, ShapeOf
    <2> QED
        BY <2>1, <2>2, ThreesResolved
<1>6. CASE x = 2
    <2>1. \E a, b, c : IsTwo(h, a, b, c)
        BY <1>2, <1>6, ShapeOf
    <2>2. \E a, b, c : IsTwo(k, a, b, c)
        BY <1>2, <1>6, ShapeOf
    <2> QED
        BY <2>1, <2>2, TwosResolved
<1>7. CASE x = 1
    <2>1. \E a, b, c, d : IsPair(h, a, b, c, d)
        BY <1>2, <1>7, ShapeOf
    <2>2. \E a, b, c, d : IsPair(k, a, b, c, d)
        BY <1>2, <1>7, ShapeOf
    <2> QED
        BY <2>1, <2>2, PairsResolved
<1>8. CASE x \in {0, 4, 5, 8, 9}
    <2>1. \E a, b, c, d, e : IsPlain(h, a, b, c, d, e)
        BY <1>2, <1>8, ShapeOf
    <2>2. \E a, b, c, d, e : IsPlain(k, a, b, c, d, e)
        BY <1>2, <1>8, ShapeOf
    <2> QED
        BY <2>1, <2>2, PlainsResolved
<1> QED
    BY <1>1, <1>3, <1>4, <1>5, <1>6, <1>7, <1>8

\* The ranks never reach into the next category.
LEMMA ScoreBounds ==
    ASSUME NEW h \in Fives, ~IsWheel(h)
    PROVE  /\ PokerCategory(h) \in 0..9
           /\ \E v \in Nat : v < 10000000 /\ Score(h) = PokerCategory(h) * 10000000 + v
<1>1. CASE \E a, b : IsFour(h, a, b)
    <2>1. PICK a, b : IsFour(h, a, b)
        BY <1>1
    <2>2. 65536 * a + 4096 * b \in Nat /\ 65536 * a + 4096 * b < 10000000
        BY <2>1, SMT DEF IsFour
    <2> QED
        BY <2>1, <2>2, FourIs, SMT DEF Valued
<1>2. CASE \E a, b : IsFull(h, a, b)
    <2>1. PICK a, b : IsFull(h, a, b)
        BY <1>2
    <2>2. 65536 * a + 4096 * b \in Nat /\ 65536 * a + 4096 * b < 10000000
        BY <2>1, SMT DEF IsFull
    <2> QED
        BY <2>1, <2>2, FullIs, SMT DEF Valued
<1>3. CASE \E a, b, c : IsThree(h, a, b, c)
    <2>1. PICK a, b, c : IsThree(h, a, b, c)
        BY <1>3
    <2>2. 65536 * a + 4096 * b + 256 * c \in Nat /\ 65536 * a + 4096 * b + 256 * c < 10000000
        BY <2>1, SMT DEF IsThree
    <2> QED
        BY <2>1, <2>2, ThreeIs, SMT DEF Valued
<1>4. CASE \E a, b, c : IsTwo(h, a, b, c)
    <2>1. PICK a, b, c : IsTwo(h, a, b, c)
        BY <1>4
    <2>2. 65536 * a + 4096 * b + 256 * c \in Nat /\ 65536 * a + 4096 * b + 256 * c < 10000000
        BY <2>1, SMT DEF IsTwo
    <2> QED
        BY <2>1, <2>2, TwoIs, SMT DEF Valued
<1>5. CASE \E a, b, c, d : IsPair(h, a, b, c, d)
    <2>1. PICK a, b, c, d : IsPair(h, a, b, c, d)
        BY <1>5
    <2>2. /\ 65536 * a + 4096 * b + 256 * c + 16 * d \in Nat
          /\ 65536 * a + 4096 * b + 256 * c + 16 * d < 10000000
        BY <2>1, SMT DEF IsPair
    <2> QED
        BY <2>1, <2>2, PairIs, SMT DEF Valued
<1>6. CASE \E a, b, c, d, e : IsPlain(h, a, b, c, d, e)
    <2>1. PICK a, b, c, d, e : IsPlain(h, a, b, c, d, e)
        BY <1>6
    <2> DEFINE p == PlainCategory(OneSuit(h), a, e)
               v == IF p \in {4, 8} THEN a ELSE 65536 * a + 4096 * b + 256 * c + 16 * d + e
    <2>2. v \in Nat /\ v < 10000000
        BY <2>1, SMT DEF IsPlain
    <2>3. p \in 0..9
        BY DEF PlainCategory
    <2>4. Valued(h, p, v)
        BY <2>1, PlainIs
    <2> HIDE DEF p, v
    <2> QED
        BY <2>2, <2>3, <2>4, SMT DEF Valued
<1> QED
    BY <1>1, <1>2, <1>3, <1>4, <1>5, <1>6, Shapes

\* One of two hands without a wheel scores higher exactly when it beats the
\* other.
LEMMA HigherBeats ==
    ASSUME NEW h \in Fives, NEW k \in Fives, ~IsWheel(h), ~IsWheel(k)
    PROVE  Score(h) > Score(k) <=> Beats(Strength(h), Strength(k))
<1>0. PokerCategory(h) \in 0..9 /\ PokerCategory(k) \in 0..9
    BY ScoreBounds, SMT
<1>1. PICK v \in Nat : v < 10000000 /\ Score(h) = PokerCategory(h) * 10000000 + v
    BY ScoreBounds, SMT
<1>2. PICK w \in Nat : w < 10000000 /\ Score(k) = PokerCategory(k) * 10000000 + w
    BY ScoreBounds, SMT
<1>3. CASE PokerCategory(h) = PokerCategory(k)
    <2>1. Resolved(h, k) /\ Resolved(k, h)
        BY <1>3, CategoryResolved
    <2>2. PokerCategory(h) \in Int
        BY <1>0
    <2>3. CASE Score(h) > Score(k)
        BY <1>3, <2>1, <2>2, <2>3, LeadsBeats DEF Resolved
    <2>4. CASE Score(h) = Score(k)
        <3>1. Same(h, k)
            BY <2>1, <2>4 DEF Resolved
        <3>2. ~(Score(h) > Score(k))
            BY <1>0, <1>1, <2>4, SMT
        <3> QED
            BY <1>3, <2>2, <3>1, <3>2, SameTies
    <2>5. CASE Score(k) > Score(h)
        <3>1. Leads(k, h)
            BY <2>1, <2>5 DEF Resolved
        <3>2. ~(Score(h) > Score(k))
            BY <1>0, <1>1, <1>2, <2>5, SMT
        <3> QED
            BY <1>3, <2>2, <3>1, <3>2, LeadsBeats
    <2> QED
        BY <1>0, <1>1, <1>2, <2>3, <2>4, <2>5, SMT
<1>4. CASE PokerCategory(h) # PokerCategory(k)
    <2>1. Score(h) > Score(k) <=> PokerCategory(h) > PokerCategory(k)
        BY <1>0, <1>1, <1>2, <1>4, SMT
    <2>2. Strength(h).category = PokerCategory(h) /\ Strength(k).category = PokerCategory(k)
        BY DEF Strength
    <2> QED
        BY <1>4, <2>1, <2>2 DEF Beats
<1> QED
    BY <1>3, <1>4

----------------------------------------------------------------------------
(* The hands shown                                                         *)

\* Hands are shown one after the other, two at the most.
LEMMA ShownTyped == Spec => [](shown \in Seq(Hands))
<1>1. Init => shown \in Seq(Hands)
    BY DEF Init
<1>2. shown \in Seq(Hands) /\ [Next]_shown => (shown \in Seq(Hands))'
    BY DEF Next, Show
<1> QED
    BY <1>1, <1>2, PTL DEF Spec

\* The hands shown are five cards of the deck each.
LEMMA HandsAreFives == \A hand \in Hands : hand \in Fives
    BY HandsAssumption DEF Fives

\* One of any two hands of five cards, neither a wheel, scores higher exactly
\* when poker says that it beats the other: the categories of evaluate_five are
\* told apart as poker tells them apart, and the packed ranks of score() never
\* reach into the next category and compare as poker compares.
THEOREM ScoresAreOrdered == Spec => []OrderIsPokers
<1>1. shown \in Seq(Hands) => OrderIsPokers
    <2> SUFFICES ASSUME shown \in Seq(Hands), Len(shown) = 2, \A i \in 1..2 : ~IsWheel(shown[i])
                 PROVE  Scores[shown[1]] > Scores[shown[2]]
                          <=> Beats(Strengths[shown[1]], Strengths[shown[2]])
        BY DEF OrderIsPokers
    <2>1. shown[1] \in Hands /\ shown[2] \in Hands
        OBVIOUS
    <2>2. shown[1] \in Fives /\ shown[2] \in Fives /\ ~IsWheel(shown[1]) /\ ~IsWheel(shown[2])
        BY <2>1, HandsAreFives
    <2>3. /\ Scores[shown[1]] = Score(shown[1]) /\ Scores[shown[2]] = Score(shown[2])
          /\ Strengths[shown[1]] = Strength(shown[1]) /\ Strengths[shown[2]] = Strength(shown[2])
        BY <2>1 DEF Scores, Strengths
    <2> QED
        BY <2>2, <2>3, HigherBeats
<1> QED
    BY <1>1, ShownTyped, PTL

\* No score exceeds some number, so a set of scores has a largest one.
LEMMA ScoresAreBounded ==
    \E top \in Nat : \A h \in Fives : ~IsWheel(h) => Score(h) \in 0..top
<1> DEFINE top == 100000000
<1>1. \A h \in Fives : ~IsWheel(h) => Score(h) \in Nat /\ Score(h) <= top
    <2> SUFFICES ASSUME NEW h \in Fives, ~IsWheel(h)
                 PROVE  Score(h) \in Nat /\ Score(h) <= top
        BY SMT
    <2>1. PokerCategory(h) \in Nat /\ PokerCategory(h) <= 9
        BY ScoreBounds, SMT
    <2>2. PICK v \in Nat : v < 10000000 /\ Score(h) = PokerCategory(h) * 10000000 + v
        BY ScoreBounds, SMT
    <2> QED
        BY <2>1, <2>2, SMT
<1>2. top \in Nat
    BY SMT
<1> QED
    <2> HIDE DEF top
    <2> QED
        BY <1>1, <1>2

\* Of any cards that hold no wheel, the five that were scored are beaten by no
\* other five.
LEMMA BestFive ==
    ASSUME NEW cards \in SUBSET Deck, kSubset(5, cards) # {},
           ~({14, 5, 4, 3, 2} \subseteq Ranks(cards))
    PROVE  \E five \in kSubset(5, cards) :
              /\ Score(five) = Best(cards)
              /\ \A other \in kSubset(5, cards) : ~Beats(Strength(other), Strength(five))
<1> DEFINE fives == kSubset(5, cards)
           S == {Score(five) : five \in fives}
<1>1. \A five \in fives : five \in Fives /\ ~IsWheel(five)
    BY DEF kSubset, Fives, IsWheel, Ranks
<1>2. PICK top \in Nat : \A h \in Fives : ~IsWheel(h) => Score(h) \in 0..top
    BY ScoresAreBounded
<1>3. S \in SUBSET (0..top) /\ S # {}
    BY <1>1, <1>2
<1>4. Max(S) \in S /\ \A x \in S : x <= Max(S)
    <2> HIDE DEF S
    <2> QED
        BY <1>2, <1>3, HasLargest
<1>5. PICK five \in fives : Score(five) = Max(S)
    BY <1>4
<1>6. \A other \in fives : ~Beats(Strength(other), Strength(five))
    <2> TAKE other \in fives
    <2>1. Score(other) \in S
        OBVIOUS
    <2>3. Score(other) \in Int /\ Score(five) \in Int
        BY <1>3, <2>1
    <2>2. ~(Score(other) > Score(five))
        <3>1. Score(other) <= Score(five)
            BY <1>4, <1>5, <2>1
        <3> QED
            BY <3>1, <2>3
    <2> QED
        BY <1>1, <2>2, HigherBeats
<1>7. Best(cards) = Max(S)
    BY DEF Best
<1> QED
    BY <1>5, <1>6, <1>7

\* evaluate_best_hand scores five of the cards that no other five of them
\* beat, whatever the cards.
THEOREM BestIsScored == Spec => []BestIsUnbeaten
<1>1. shown \in Seq(Hands) => BestIsUnbeaten
    <2> DEFINE cards == shown[1] \union shown[2]
    <2> SUFFICES ASSUME shown \in Seq(Hands), Len(shown) = 2,
                        ~({14, 5, 4, 3, 2} \subseteq Ranks(cards))
                 PROVE  \E strength \in {Strength(five) : five \in
                                           {some \in kSubset(5, cards) : Score(some) = Best(cards)}} :
                           \A other \in kSubset(5, cards) : ~Beats(Strength(other), strength)
        BY DEF BestIsUnbeaten
    <2>1. shown[1] \in Fives /\ shown[2] \in Fives
        BY HandsAreFives
    <2>2. cards \in SUBSET Deck /\ shown[1] \in kSubset(5, cards)
        BY <2>1 DEF Fives, kSubset
    <2> HIDE DEF cards
    <2>3. PICK five \in kSubset(5, cards) :
            /\ Score(five) = Best(cards)
            /\ \A other \in kSubset(5, cards) : ~Beats(Strength(other), Strength(five))
        BY <2>2, BestFive
    <2> QED
        BY <2>3
<1> QED
    BY <1>1, ShownTyped, PTL

\* Where score() puts the wheel: above every pair and below every two pairs,
\* not above them, as its comment has it (hand_evaluator.rs:217).
THEOREM WheelIsBelowTwoPair ==
    ASSUME NEW w \in Fives, IsWheel(w), NEW h \in Fives, ~IsWheel(h)
    PROVE  Score(w) > Score(h) <=> PokerCategory(h) \in {HighCard, OnePair}
<1>1. Groups(w, 4) = 0 /\ Groups(w, 3) = 0
    <2>1. PICK a, b, c, d, e : IsPlain(w, a, b, c, d, e)
        <3>1. ~(\E a, b : IsFour(w, a, b)) /\ ~(\E a, b : IsFull(w, a, b))
            BY FourIs, FullIs, SMT DEF Valued
        <3>2. ~(\E a, b, c : IsThree(w, a, b, c)) /\ ~(\E a, b, c : IsTwo(w, a, b, c))
            BY ThreeIs, TwoIs, SMT DEF Valued
        <3>3. ~(\E a, b, c, d : IsPair(w, a, b, c, d))
            BY PairIs, SMT DEF Valued
        <3> QED
            BY <3>1, <3>2, <3>3, Shapes
    <2>2. {x \in Ranks(w) : Count(w, x) = 4} = {} /\ {x \in Ranks(w) : Count(w, x) = 3} = {}
        BY <2>1 DEF IsPlain
    <2> QED
        BY <2>2, SizeNone DEF Groups
<1>2. ~IsStraight(w)
    BY DEF IsStraight
<1>3. Category(w) \in {Straight, StraightFlush}
    <2>1. CASE IsFlush(w)
        BY <1>1, <1>2, <2>1, EnumIs, CategoryIs DEF Enum, Makes
    <2>2. CASE ~IsFlush(w)
        BY <1>1, <1>2, <2>2, EnumIs, CategoryIs DEF Enum, Makes
    <2> QED
        BY <2>1, <2>2
<1>4. Score(w) = 20000006
    BY <1>3, EnumIs, SMT DEF Score, Enum
<1>5. /\ PokerCategory(h) \in 0..9
      /\ \E v \in Nat : v < 10000000 /\ Score(h) = PokerCategory(h) * 10000000 + v
    BY ScoreBounds, SMT
<1>6. PokerCategory(h) = TwoPair => Score(h) > 20000006
    <2> SUFFICES ASSUME PokerCategory(h) = 2 PROVE Score(h) > 20000006
        BY EnumIs, SMT DEF Enum
    <2>1. PICK a, b, c : IsTwo(h, a, b, c)
        BY ShapeOf
    <2>2. Score(h) = 2 * 10000000 + (65536 * a + 4096 * b + 256 * c)
        BY <2>1, TwoIs, SMT DEF Valued
    <2> QED
        BY <2>1, <2>2, SMT DEF IsTwo
<1> QED
    BY <1>4, <1>5, <1>6, EnumIs, SMT DEF Enum

=============================================================================
