------------------------- MODULE TexasHoldemProofs -------------------------
(***************************************************************************)
(* Proofs about TexasHoldem, for every number of players, buy-in, rake and *)
(* set of amounts.  They rest on the players being dealt equal stacks:     *)
(* while a street is open the players still in have brought the same to it *)
(* (Level), so a player is all-in only for the bet of the round, and from  *)
(* the seat to act on, those who owe come before those who do not (Order). *)
(*                                                                         *)
(* The last part is about a hand as the game service plays it (Match).     *)
(***************************************************************************)
EXTENDS Match, Integers, FiniteSetTheorems, WellFoundedInduction, TLAPS

----------------------------------------------------------------------------
(* Totals                                                                  *)

\* The element that Total takes out of a set first.
Pick(s) == CHOOSE x \in s : TRUE
\* g sums f over each subset of S of at most n elements.
SumsTo(f, S, g, n) ==
    \A s \in SUBSET S : Cardinality(s) <= n =>
        g[s] = IF s = {} THEN 0 ELSE f[Pick(s)] + g[s \ {Pick(s)}]

\* The sums of f over the subsets of S, as MapThenFoldSet defines them.
Sums(f, S) ==
    CHOOSE g : g = [s \in SUBSET S |-> IF s = {} THEN 0 ELSE f[Pick(s)] + g[s \ {Pick(s)}]]

LEMMA TotalIs == \A f : Total(f) = Sums(f, DOMAIN f)[DOMAIN f]
    BY DEF Total, FoldFunction, FoldFunctionOnSet, MapThenFoldSet, Sums, Pick

\* One element less.
LEMMA PickTaken ==
    ASSUME NEW S, IsFiniteSet(S), NEW s \in SUBSET S, s # {}
    PROVE  /\ Pick(s) \in s /\ Pick(s) \in S
           /\ s \ {Pick(s)} \in SUBSET S
           /\ Cardinality(s) \in Nat
           /\ Cardinality(s \ {Pick(s)}) = Cardinality(s) - 1
<1>1. Pick(s) \in s
    BY DEF Pick
<1>2. IsFiniteSet(s)
    BY FS_Subset
<1> QED
    BY <1>1, <1>2, FS_RemoveElement, FS_CardinalityType

\* What holds of the empty set and, one element at a time, of every larger one.
LEMMA SubsetInduction ==
    ASSUME NEW S, IsFiniteSet(S), NEW P, {} \in P,
           \A s \in SUBSET S : s # {} /\ s \ {Pick(s)} \in P => s \in P
    PROVE  SUBSET S \subseteq P
<1> DEFINE B == (SUBSET S) \ P
           R == StrictSubsetOrdering(S)
<1>1. IsWellFoundedOn(R, SUBSET S)
    BY FS_StrictSubsetOrderingWellFounded, FS_FiniteSubsetsOfFinite
<1> SUFFICES ASSUME B # {} PROVE FALSE
    OBVIOUS
<1>2. PICK s \in B : \A t \in B : <<t, s>> \notin R
    <2> HIDE DEF R
    <2> QED
        BY <1>1, WFMin, B \subseteq SUBSET S
<1>3. s # {}
    OBVIOUS
<1>4. Pick(s) \in s /\ s \ {Pick(s)} \in SUBSET S
    BY <1>3, PickTaken
<1>5. <<s \ {Pick(s)}, s>> \in R
    BY <1>4 DEF StrictSubsetOrdering
<1> QED
    BY <1>2, <1>3, <1>4, <1>5

\* The recursive definition of the sums has a solution, so they are what it says.
LEMMA SumsExist ==
    ASSUME NEW S, IsFiniteSet(S), NEW f
    PROVE  /\ Sums(f, S)[{}] = 0
           /\ \A s \in (SUBSET S) \ {{}} : Sums(f, S)[s] = f[Pick(s)] + Sums(f, S)[s \ {Pick(s)}]
<1> DEFINE Step(g) == [s \in SUBSET S |-> IF s = {} THEN 0 ELSE f[Pick(s)] + g[s \ {Pick(s)}]]
           Good == {n \in Nat : \E g : g = [s \in SUBSET S |-> g[s]] /\ SumsTo(f, S, g, n)}
<1>1. 0 \in Good
    <2>1. \A s \in SUBSET S : Cardinality(s) <= 0 => s = {}
        BY FS_Subset, FS_EmptySet, FS_CardinalityType
    <2> DEFINE g == [s \in SUBSET S |-> 0]
    <2>2. g = [s \in SUBSET S |-> g[s]] /\ \A s \in SUBSET S : g[s] = 0
        OBVIOUS
    <2> HIDE DEF g
    <2>3. SumsTo(f, S, g, 0)
        BY <2>1, <2>2 DEF SumsTo
    <2> QED
        BY <2>2, <2>3
<1>2. ASSUME NEW n \in Nat, n \in Good PROVE n + 1 \in Good
    <2>1. PICK g : g = [s \in SUBSET S |-> g[s]] /\ SumsTo(f, S, g, n)
        BY <1>2
    <2>2. ASSUME NEW s \in SUBSET S, Cardinality(s) <= n PROVE Step(g)[s] = g[s]
        BY <2>1, <2>2 DEF SumsTo
    <2>3. ASSUME NEW s \in SUBSET S, Cardinality(s) <= n + 1
          PROVE  Step(g)[s] = IF s = {} THEN 0 ELSE f[Pick(s)] + Step(g)[s \ {Pick(s)}]
        <3>1. CASE s = {}
            BY <3>1
        <3>2. CASE s # {}
            <4>1. s \ {Pick(s)} \in SUBSET S /\ Cardinality(s \ {Pick(s)}) <= n
                BY <2>3, <3>2, PickTaken
            <4>2. Step(g)[s \ {Pick(s)}] = g[s \ {Pick(s)}]
                BY <4>1, <2>2
            <4> QED
                BY <3>2, <4>2
        <3> QED
            BY <3>1, <3>2
    <2>4. SumsTo(f, S, Step(g), n + 1)
        BY <2>3 DEF SumsTo
    <2>5. Step(g) = [s \in SUBSET S |-> Step(g)[s]]
        OBVIOUS
    <2> HIDE DEF Step
    <2> QED
        BY <2>4, <2>5
<1>3. \A s \in SUBSET S : Cardinality(s) \in Good
    <2> DEFINE P == {s \in SUBSET S : Cardinality(s) \in Good}
    <2> HIDE DEF Good
    <2>1. {} \in P
        BY <1>1, FS_EmptySet
    <2>2. ASSUME NEW s \in SUBSET S, s # {}, s \ {Pick(s)} \in P PROVE s \in P
        <3>1. /\ Cardinality(s) \in Nat /\ Cardinality(s \ {Pick(s)}) = Cardinality(s) - 1
              /\ Cardinality(s) - 1 \in Nat
            BY <2>2, PickTaken, FS_Subset, FS_CardinalityType
        <3>2. Cardinality(s) - 1 \in Good
            BY <2>2, <3>1
        <3> QED
            BY <1>2, <3>1, <3>2
    <2> HIDE DEF P
    <2>3. SUBSET S \subseteq P
        BY <2>1, <2>2, SubsetInduction
    <2> QED
        BY <2>3 DEF P
<1>4. PICK g : g = [s \in SUBSET S |-> g[s]] /\ SumsTo(f, S, g, Cardinality(S))
    BY <1>3
<1>5. \A s \in SUBSET S : Cardinality(s) <= Cardinality(S)
    BY FS_Subset
<1>6. g = Step(g)
    BY <1>4, <1>5 DEF SumsTo
<1>7. Sums(f, S) = Step(Sums(f, S))
    BY <1>6 DEF Sums
<1> HIDE DEF Sums
<1>8. \A e : e = {} => e \in SUBSET S /\ Sums(f, S)[e] = 0
    BY <1>7
<1>9. \A s \in (SUBSET S) \ {{}} : Sums(f, S)[s] = f[Pick(s)] + Sums(f, S)[s \ {Pick(s)}]
    BY <1>7
<1> QED
    BY <1>8, <1>9

\* A function on a finite set with integer values.
LEMMA SumTyped ==
    ASSUME NEW S, IsFiniteSet(S), NEW f \in [S -> Int]
    PROVE  \A s \in SUBSET S : Sums(f, S)[s] \in Int
<1> DEFINE G == Sums(f, S)
           P == {s \in SUBSET S : G[s] \in Int}
<1>1. G[{}] = 0 /\ \A s \in (SUBSET S) \ {{}} : G[s] = f[Pick(s)] + G[s \ {Pick(s)}]
    BY SumsExist
<1> HIDE DEF G
<1>2. {} \in P
    BY <1>1
<1>3. ASSUME NEW s \in SUBSET S, s # {}, s \ {Pick(s)} \in P PROVE s \in P
    <2>1. Pick(s) \in S /\ s \ {Pick(s)} \in SUBSET S
        BY <1>3, PickTaken
    <2>2. G[s] = f[Pick(s)] + G[s \ {Pick(s)}] /\ G[s \ {Pick(s)}] \in Int
        BY <1>1, <1>3
    <2> QED
        BY <2>1, <2>2
<1> HIDE DEF P
<1>4. SUBSET S \subseteq P
    BY <1>2, <1>3, SubsetInduction
<1> QED
    BY <1>4 DEF P, G

\* The total of a sum of functions.
LEMMA TotalAdds ==
    ASSUME NEW S, IsFiniteSet(S), NEW f \in [S -> Int], NEW g \in [S -> Int], NEW h \in [S -> Int],
           \A x \in S : h[x] = f[x] + g[x]
    PROVE  Total(f) \in Int /\ Total(g) \in Int /\ Total(h) = Total(f) + Total(g)
<1> DEFINE F == Sums(f, S)
           G == Sums(g, S)
           H == Sums(h, S)
           P == {s \in SUBSET S : H[s] = F[s] + G[s]}
<1>1. /\ F[{}] = 0 /\ \A s \in (SUBSET S) \ {{}} : F[s] = f[Pick(s)] + F[s \ {Pick(s)}]
      /\ G[{}] = 0 /\ \A s \in (SUBSET S) \ {{}} : G[s] = g[Pick(s)] + G[s \ {Pick(s)}]
      /\ H[{}] = 0 /\ \A s \in (SUBSET S) \ {{}} : H[s] = h[Pick(s)] + H[s \ {Pick(s)}]
    BY SumsExist
<1>2. \A s \in SUBSET S : F[s] \in Int /\ G[s] \in Int
    BY SumTyped
<1>3. Total(f) = F[S] /\ Total(g) = G[S] /\ Total(h) = H[S]
    BY TotalIs
<1> HIDE DEF F, G, H
<1>4. {} \in P
    BY <1>1
<1>5. ASSUME NEW s \in SUBSET S, s # {}, s \ {Pick(s)} \in P PROVE s \in P
    <2>1. Pick(s) \in S /\ s \ {Pick(s)} \in SUBSET S
        BY <1>5, PickTaken
    <2> DEFINE p == Pick(s)
               r == s \ {Pick(s)}
    <2>2. H[s] = h[p] + H[r] /\ F[s] = f[p] + F[r] /\ G[s] = g[p] + G[r]
        BY <1>1, <1>5
    <2>3. H[r] = F[r] + G[r] /\ F[r] \in Int /\ G[r] \in Int
        BY <1>2, <1>5, <2>1
    <2>4. f[p] \in Int /\ g[p] \in Int /\ h[p] = f[p] + g[p]
        BY <2>1
    <2> HIDE DEF p, r
    <2> QED
        BY <2>2, <2>3, <2>4
<1> HIDE DEF P
<1>6. SUBSET S \subseteq P
    BY <1>4, <1>5, SubsetInduction
<1> QED
    BY <1>2, <1>3, <1>6 DEF P

\* The total of one value everywhere.
LEMMA TotalConstant ==
    ASSUME NEW S, IsFiniteSet(S), NEW a \in S, NEW f \in [S -> Int], \A x \in S : f[x] = f[a]
    PROVE  Total(f) = f[a] * Cardinality(S)
<1> DEFINE c == f[a]
           F == Sums(f, S)
           P == {s \in SUBSET S : F[s] = c * Cardinality(s)}
<1>1. F[{}] = 0 /\ \A s \in (SUBSET S) \ {{}} : F[s] = f[Pick(s)] + F[s \ {Pick(s)}]
    BY SumsExist
<1>2. Total(f) = F[S]
    BY TotalIs
<1> HIDE DEF F
<1>0. c \in Int /\ \A x \in S : f[x] = c
    OBVIOUS
<1> HIDE DEF c
<1>3. {} \in P
    BY <1>1, <1>0, FS_EmptySet
<1>4. ASSUME NEW s \in SUBSET S, s # {}, s \ {Pick(s)} \in P PROVE s \in P
    <2>1. Pick(s) \in S /\ Cardinality(s) \in Nat /\ Cardinality(s \ {Pick(s)}) = Cardinality(s) - 1
        BY <1>4, PickTaken
    <2>2. F[s] = c + c * (Cardinality(s) - 1)
        BY <1>1, <1>4, <1>0, <2>1
    <2>3. \A n \in Nat : c + c * (n - 1) = c * n
        BY <1>0
    <2> QED
        BY <2>1, <2>2, <2>3
<1> HIDE DEF P
<1>5. SUBSET S \subseteq P
    BY <1>3, <1>4, SubsetInduction
<1> QED
    BY <1>2, <1>5 DEF P, c

\* The total of one value in one place.
LEMMA TotalSingle ==
    ASSUME NEW S, IsFiniteSet(S), NEW a \in S, NEW f \in [S -> Int],
           \A x \in S \ {a} : f[x] = 0
    PROVE  Total(f) = f[a]
<1> DEFINE d == f[a]
           F == Sums(f, S)
           P == {s \in SUBSET S : F[s] = IF a \in s THEN d ELSE 0}
<1>1. F[{}] = 0 /\ \A s \in (SUBSET S) \ {{}} : F[s] = f[Pick(s)] + F[s \ {Pick(s)}]
    BY SumsExist
<1>2. Total(f) = F[S]
    BY TotalIs
<1>0. d \in Int /\ \A x \in S : f[x] = IF x = a THEN d ELSE 0
    OBVIOUS
<1> HIDE DEF F, d
<1>3. {} \in P
    BY <1>1
<1>4. ASSUME NEW s \in SUBSET S, s # {}, s \ {Pick(s)} \in P PROVE s \in P
    <2>1. Pick(s) \in S /\ Pick(s) \in s
        BY <1>4, PickTaken
    <2>2. F[s] = f[Pick(s)] + F[s \ {Pick(s)}]
        BY <1>1, <1>4
    <2>3. F[s \ {Pick(s)}] = IF a \in s \ {Pick(s)} THEN d ELSE 0
        BY <1>4
    <2>4. CASE Pick(s) = a
        BY <1>0, <2>1, <2>2, <2>3, <2>4
    <2>5. CASE Pick(s) # a
        BY <1>0, <2>1, <2>2, <2>3, <2>5
    <2> QED
        BY <2>4, <2>5
<1> HIDE DEF P
<1>5. SUBSET S \subseteq P
    BY <1>3, <1>4, SubsetInduction
<1> QED
    BY <1>2, <1>5 DEF P, d

\* A larger function has no smaller total.
LEMMA TotalMonotone ==
    ASSUME NEW S, IsFiniteSet(S), NEW f \in [S -> Int], NEW g \in [S -> Int],
           \A x \in S : f[x] <= g[x]
    PROVE  Total(f) <= Total(g)
<1> DEFINE F == Sums(f, S)
           G == Sums(g, S)
           P == {s \in SUBSET S : F[s] <= G[s]}
<1>1. /\ F[{}] = 0 /\ \A s \in (SUBSET S) \ {{}} : F[s] = f[Pick(s)] + F[s \ {Pick(s)}]
      /\ G[{}] = 0 /\ \A s \in (SUBSET S) \ {{}} : G[s] = g[Pick(s)] + G[s \ {Pick(s)}]
    BY SumsExist
<1>2. \A s \in SUBSET S : F[s] \in Int /\ G[s] \in Int
    BY SumTyped
<1>3. Total(f) = F[S] /\ Total(g) = G[S]
    BY TotalIs
<1> HIDE DEF F, G
<1>4. {} \in P
    BY <1>1
<1>5. ASSUME NEW s \in SUBSET S, s # {}, s \ {Pick(s)} \in P PROVE s \in P
    <2>1. Pick(s) \in S /\ s \ {Pick(s)} \in SUBSET S
        BY <1>5, PickTaken
    <2> DEFINE p == Pick(s)
               r == s \ {Pick(s)}
    <2>2. F[s] = f[p] + F[r] /\ G[s] = g[p] + G[r]
        BY <1>1, <1>5
    <2>3. F[r] <= G[r] /\ F[r] \in Int /\ G[r] \in Int
        BY <1>2, <1>5, <2>1
    <2>4. f[p] \in Int /\ g[p] \in Int /\ f[p] <= g[p]
        BY <2>1
    <2> HIDE DEF p, r
    <2> QED
        BY <2>2, <2>3, <2>4
<1> HIDE DEF P
<1>6. SUBSET S \subseteq P
    BY <1>4, <1>5, SubsetInduction
<1> QED
    BY <1>3, <1>6 DEF P

\* Some element has the least value.
LEMMA HasLeast ==
    ASSUME NEW S, IsFiniteSet(S), S # {}, NEW f \in [S -> Int]
    PROVE  \E x \in S : \A y \in S : f[x] <= f[y]
<1> DEFINE P == {s \in SUBSET S : s = {} \/ \E x \in s : \A y \in s : f[x] <= f[y]}
<1>1. {} \in P
    OBVIOUS
<1>2. ASSUME NEW s \in SUBSET S, s # {}, s \ {Pick(s)} \in P PROVE s \in P
    <2> DEFINE p == Pick(s)
               r == s \ {p}
    <2>1. p \in s /\ p \in S /\ r \in SUBSET S /\ s = r \cup {p}
        BY <1>2, PickTaken
    <2> HIDE DEF p
    <2>2. CASE r = {}
        <3>1. \A y \in s : y = p
            BY <2>1, <2>2
        <3> QED
            BY <2>1, <3>1
    <2>3. CASE r # {}
        <3>1. PICK x \in r : \A y \in r : f[x] <= f[y]
            BY <1>2, <2>3 DEF p
        <3>2. \A y \in s : f[y] \in Int
            BY <2>1
        <3>3. CASE f[x] <= f[p]
            BY <2>1, <3>1, <3>3
        <3>4. CASE ~(f[x] <= f[p])
            BY <2>1, <3>1, <3>2, <3>4
        <3> QED
            BY <3>3, <3>4
    <2> QED
        BY <2>2, <2>3
<1> HIDE DEF P
<1>3. SUBSET S \subseteq P
    BY <1>1, <1>2, SubsetInduction
<1> QED
    BY <1>3 DEF P

----------------------------------------------------------------------------
(* The seats                                                               *)

\* How many seats are passed over from s to t.
LEMMA DistanceIs ==
    ASSUME NEW s \in Seats, NEW t \in Seats
    PROVE  Distance(s, t) = IF s < t THEN t - s - 1 ELSE t + N - s - 1
<1>1. N \in 2..9
    BY TableAssumption
<1>2. \A a \in Int : /\ (0 <= a /\ a < N => a % N = a)
                     /\ (N <= a /\ a < 2 * N => a % N = a - N)
    <2>2. CASE N = 2
        BY <2>2
    <2>3. CASE N = 3
        BY <2>3
    <2>4. CASE N = 4
        BY <2>4
    <2>5. CASE N = 5
        BY <2>5
    <2>6. CASE N = 6
        BY <2>6
    <2>7. CASE N = 7
        BY <2>7
    <2>8. CASE N = 8
        BY <2>8
    <2>9. CASE N = 9
        BY <2>9
    <2> QED
        BY <1>1, <2>2, <2>3, <2>4, <2>5, <2>6, <2>7, <2>8, <2>9
<1>3. s \in 1..N /\ t \in 1..N /\ t + N - s - 1 \in Int
    BY <1>1 DEF Seats
<1>4. CASE s < t
    BY <1>1, <1>2, <1>3, <1>4 DEF Distance
<1>5. CASE t <= s
    BY <1>1, <1>2, <1>3, <1>5 DEF Distance
<1> QED
    BY <1>3, <1>4, <1>5

\* The seat after a seat is a seat, and no other is nearer.
LEMMA AfterIs ==
    ASSUME NEW s \in Seats
    PROVE  After(s) = IF s = N THEN 1 ELSE s + 1
<1>1. N \in 2..9 /\ s \in 1..N
    BY TableAssumption DEF Seats
<1>2. CASE s = N
    <2>1. N % N = 0
        BY <1>1
    <2> QED
        BY <1>2, <2>1 DEF After
<1>3. CASE s # N
    <2>1. s % N = s
        BY <1>1, <1>3
    <2> QED
        BY <1>3, <2>1 DEF After
<1> QED
    BY <1>2, <1>3

\* The loop over next_seat finds the nearest active seat.
LEMMA NextActiveIs ==
    ASSUME NEW h, NEW s \in Seats, Active(h) # {}
    PROVE  /\ NextActive(h, s) \in Active(h)
           /\ \A u \in Active(h) : Distance(s, NextActive(h, s)) <= Distance(s, u)
<1> DEFINE D == {Distance(s, u) : u \in Active(h)}
<1>1. N \in 2..9 /\ s \in 1..N /\ Active(h) \subseteq 1..N
    BY TableAssumption DEF Seats, Active
<1>2. D \subseteq 0..8 /\ D # {}
    <2>1. ASSUME NEW u \in Seats PROVE Distance(s, u) \in 0..8
        <3>1. Distance(s, u) = IF s < u THEN u - s - 1 ELSE u + N - s - 1
            BY DistanceIs
        <3> QED
            BY <1>1, <3>1 DEF Seats
    <2> QED
        BY <2>1 DEF Active
<1>3. PICK d \in D : \A e \in D : d <= e
    <2> DEFINE From(k) == \A e \in D : k <= e
    <2> HIDE DEF D
    <2>0. PICK e \in D : e \in 0..8
        BY <1>2
    <2>1. From(0) /\ ~From(9)
        <3>1. ~(9 <= e)
            BY <2>0
        <3> QED
            BY <1>2, <2>0, <3>1
    <2>2. \A k \in 0..8 : From(k) => k \in D \/ From(k + 1)
        BY <1>2
    <2>3. \A k \in 0..8 : From(k) /\ ~From(k + 1) => k \in D /\ From(k)
        BY <2>2
    <2>4. \E k \in 0..8 : From(k) /\ ~From(k + 1)
        <3> HIDE DEF From
        <3> QED
            BY <2>1, (0 + 1 = 1), (1 + 1 = 2), (2 + 1 = 3), (3 + 1 = 4), (4 + 1 = 5),
               (5 + 1 = 6), (6 + 1 = 7), (7 + 1 = 8), (8 + 1 = 9)
    <2> QED
        BY <2>3, <2>4
<1>4. \A e \in D : d <= e
    BY <1>3
<1>5. PICK t \in Active(h) : d = Distance(s, t)
    OBVIOUS
<1>6. \A u \in Active(h) : Distance(s, t) <= Distance(s, u)
    BY <1>4, <1>5
<1> QED
    BY <1>5, <1>6 DEF NextActive

\* Of three seats, the second passed over before the third.
LEMMA DistanceFromNearer ==
    ASSUME NEW s \in Seats, NEW t \in Seats, NEW u \in Seats, Distance(s, t) < Distance(s, u)
    PROVE  Distance(t, u) = Distance(s, u) - Distance(s, t) - 1
<1>1. N \in 2..9 /\ s \in 1..N /\ t \in 1..N /\ u \in 1..N
    BY TableAssumption DEF Seats
<1>2. Distance(s, t) = IF s < t THEN t - s - 1 ELSE t + N - s - 1
    BY DistanceIs
<1>3. Distance(s, u) = IF s < u THEN u - s - 1 ELSE u + N - s - 1
    BY DistanceIs
<1>4. Distance(t, u) = IF t < u THEN u - t - 1 ELSE u + N - t - 1
    BY DistanceIs
<1> QED
    BY <1>1, <1>2, <1>3, <1>4

\* The seat itself is the last that is asked.
LEMMA SelfIsLast ==
    ASSUME NEW s \in Seats, NEW t \in Seats, s # t
    PROVE  Distance(s, t) \in Nat /\ Distance(s, t) < Distance(s, s)
<1>1. N \in 2..9 /\ s \in 1..N /\ t \in 1..N
    BY TableAssumption DEF Seats
<1>2. Distance(s, t) = IF s < t THEN t - s - 1 ELSE t + N - s - 1
    BY DistanceIs
<1>3. Distance(s, s) = s + N - s - 1
    BY <1>1, DistanceIs
<1> QED
    BY <1>1, <1>2, <1>3

LEMMA SeatsFinite == IsFiniteSet(Seats) /\ Cardinality(Seats) = N
<1>1. N \in Int /\ 1 \in Int /\ ~(1 > N) /\ N - 1 + 1 = N
    BY TableAssumption
<1> QED
    BY <1>1, FS_Interval DEF Seats

\* The total when one seat's chips change.
LEMMA TotalChanges ==
    ASSUME NEW f \in [Seats -> Nat], NEW g \in [Seats -> Nat], NEW a \in Seats,
           \A s \in Seats \ {a} : g[s] = f[s]
    PROVE  Total(g) = Total(f) + (g[a] - f[a]) /\ Total(f) \in Int
<1> DEFINE e == [s \in Seats |-> g[s] - f[s]]
<1>1. f \in [Seats -> Int] /\ g \in [Seats -> Int] /\ e \in [Seats -> Int]
    OBVIOUS
<1>2. \A s \in Seats : g[s] = f[s] + e[s]
    OBVIOUS
<1>3. e[a] = g[a] - f[a] /\ \A s \in Seats \ {a} : e[s] = 0
    OBVIOUS
<1> HIDE DEF e
<1>4. IsFiniteSet(Seats)
    BY SeatsFinite
<1> HIDE DEF Seats
<1>5. Total(e) = e[a]
    BY <1>1, <1>3, <1>4, TotalSingle
<1>6. Total(g) = Total(f) + Total(e) /\ Total(f) \in Int
    BY <1>1, <1>2, <1>4, TotalAdds
<1> QED
    BY <1>3, <1>5, <1>6

----------------------------------------------------------------------------
(* The inductive invariant                                                 *)

\* The active players who have not put in the current bet.
Owing(h) == {s \in Active(h) : h.bet[s] < h.current}

AllInOK(h) == \A s \in Seats : h.status[s] = "all_in" <=> h.stack[s] = 0

Level(h) == \A s, t \in Unfolded(h) : h.stack[s] + h.bet[s] = h.stack[t] + h.bet[t]

Largest(h) == \A s \in Unfolded(h) : h.bet[s] <= h.current

Order(h) ==
    Owing(h) # {} =>
        /\ h.on \in Owing(h)
        /\ \A s \in Owing(h), t \in Active(h) \ Owing(h) :
              s = h.on \/ Distance(h.on, s) < Distance(h.on, t)

\* Nobody, folded or not, has put in more than a player still in has or would
\* have by matching the bet.
Covered(h) ==
    \A s \in Unfolded(h), t \in Seats :
        IF Terminal(h) THEN h.stack[s] <= h.stack[t]
        ELSE h.stack[s] + h.bet[s] <= h.stack[t] + h.current

HandOK(h) ==
    /\ h \in Hands /\ Board(h) /\ AllInOK(h) /\ Covered(h) /\ Unfolded(h) # {}
    /\ Terminal(h) /\ Cardinality(Unfolded(h)) > 1 => Scored(h)
    /\ ~Terminal(h) =>
        /\ h.on \in Active(h) /\ \E t \in Unfolded(h) : t # h.on
        /\ Level(h) /\ Largest(h) /\ Order(h)
        /\ \E s \in Unfolded(h) : h.bet[s] = h.current

\* After a move, and before the action advances: the mover no longer owes.
MoveOK(g) ==
    /\ g \in Hands /\ Board(g) /\ ~Terminal(g) /\ AllInOK(g) /\ Level(g) /\ Largest(g)
    /\ Covered(g) /\ Unfolded(g) # {}
    /\ \A s \in Owing(g) : s # g.on
    /\ \A s \in Owing(g), t \in Active(g) \ Owing(g) : Distance(g.on, s) < Distance(g.on, t)
    /\ Owing(g) # {} => \E s \in Unfolded(g) : g.bet[s] = g.current

\* A hand with the parts that are looked at.
LEMMA HandTyped ==
    ASSUME NEW h \in Hands
    PROVE  /\ h.phase \in Phases /\ h.deck \in Nat /\ h.community \in 0..5
           /\ h.stack \in [Seats -> Nat] /\ h.bet \in [Seats -> Nat]
           /\ h.status \in [Seats -> {"active", "all_in", "folded"}]
           /\ h.pot \in Nat /\ h.current \in Nat /\ h.on \in Seats /\ h.turn \in Nat \ {0}
           /\ h.aggressor \in Seats
    BY DEF Hands

\* A hand with a field set is a hand.
LEMMA FieldSet ==
    ASSUME NEW h \in Hands
    PROVE  /\ \A v \in Phases : [h EXCEPT !.phase = v] \in Hands
           /\ \A v \in Nat : [h EXCEPT !.deck = v] \in Hands
           /\ \A v \in 0..5 : [h EXCEPT !.community = v] \in Hands
           /\ \A v \in [Seats -> Nat] : [h EXCEPT !.stack = v] \in Hands
           /\ \A v \in [Seats -> Nat] : [h EXCEPT !.bet = v] \in Hands
           /\ \A v \in [Seats -> {"active", "all_in", "folded"}] : [h EXCEPT !.status = v] \in Hands
           /\ \A v \in Nat : [h EXCEPT !.pot = v] \in Hands
           /\ \A v \in Nat : [h EXCEPT !.current = v] \in Hands
           /\ \A v \in Seats : [h EXCEPT !.on = v] \in Hands
           /\ \A v \in Nat \ {0} : [h EXCEPT !.turn = v] \in Hands
           /\ \A v \in Seats : [h EXCEPT !.aggressor = v] \in Hands
<1> HIDE DEF Phases, Seats
<1>1. /\ \A v \in Phases : [h EXCEPT !.phase = v] \in Hands
      /\ \A v \in Nat : [h EXCEPT !.deck = v] \in Hands
    BY DEF Hands
<1>2. \A v \in 0..5 : [h EXCEPT !.community = v] \in Hands
    BY DEF Hands
<1>3. /\ \A v \in [Seats -> Nat] : [h EXCEPT !.stack = v] \in Hands
      /\ \A v \in [Seats -> Nat] : [h EXCEPT !.bet = v] \in Hands
    BY DEF Hands
<1>4. \A v \in [Seats -> {"active", "all_in", "folded"}] : [h EXCEPT !.status = v] \in Hands
    BY DEF Hands
<1>5. /\ \A v \in Nat : [h EXCEPT !.pot = v] \in Hands
      /\ \A v \in Nat : [h EXCEPT !.current = v] \in Hands
    BY DEF Hands
<1>6. \A v \in Seats : [h EXCEPT !.on = v] \in Hands
    BY DEF Hands
<1>7. \A v \in Nat \ {0} : [h EXCEPT !.turn = v] \in Hands
    BY DEF Hands
<1>8. \A v \in Seats : [h EXCEPT !.aggressor = v] \in Hands
    BY DEF Hands
<1> QED
    BY <1>1, <1>2, <1>3, <1>4, <1>5, <1>6, <1>7, <1>8

\* One player still in is no other.
LEMMA OneUnfolded ==
    ASSUME NEW h
    PROVE  /\ IsFiniteSet(Unfolded(h)) /\ Cardinality(Unfolded(h)) \in Nat
           /\ \A s \in Unfolded(h) : Cardinality(Unfolded(h)) # 1 => \E t \in Unfolded(h) : t # s
           /\ \A s, t \in Unfolded(h) : Cardinality(Unfolded(h)) = 1 => s = t
<1>1. IsFiniteSet(Seats)
    BY FS_Interval, TableAssumption DEF Seats
<1>2. IsFiniteSet(Unfolded(h))
    BY <1>1, FS_Subset DEF Unfolded
<1>3. Cardinality(Unfolded(h)) \in Nat
    BY <1>2, FS_CardinalityType
<1>4. Cardinality(Unfolded(h)) = 1 <=> \E x : Unfolded(h) = {x}
    BY <1>2, FS_Singleton
<1> QED
    BY <1>2, <1>3, <1>4

----------------------------------------------------------------------------
(* The move                                                                *)

\* The mover puts k chips in: its status is then st, the bet to match c.
Put(h, k, st, c, a) ==
    [h EXCEPT !.stack[h.on] = @ - k, !.bet[h.on] = @ + k, !.pot = @ + k,
              !.status[h.on] = st, !.current = c, !.aggressor = a, !.turn = @ + 1]

\* It folds or matches the bet, or it sets a higher one.
Stays(h, k, st, c) ==
    /\ c = h.current
    /\ \/ st = "folded" /\ k = 0
       \/ st # "folded" /\ h.bet[h.on] + k = c
Ups(h, k, st, c) == h.current < c /\ c = h.bet[h.on] + k /\ st # "folded"

\* What a move may be.
Allowed(h, k, st, c, a) ==
    /\ k \in Nat /\ k <= h.stack[h.on] /\ st \in {"active", "all_in", "folded"} /\ c \in Nat /\ a \in Seats
    /\ st = "all_in" <=> k = h.stack[h.on]
    /\ Stays(h, k, st, c) \/ Ups(h, k, st, c)

LEMMA PutIs ==
    ASSUME NEW h \in Hands, NEW k, NEW st, NEW c, NEW a, Allowed(h, k, st, c, a)
    PROVE  LET g == Put(h, k, st, c, a) IN
           /\ g \in Hands
           /\ g.phase = h.phase /\ g.deck = h.deck /\ g.community = h.community /\ g.on = h.on
           /\ g.pot = h.pot + k /\ g.current = c
           /\ \A s \in Seats : g.stack[s] = IF s = h.on THEN h.stack[s] - k ELSE h.stack[s]
           /\ \A s \in Seats : g.bet[s] = IF s = h.on THEN h.bet[s] + k ELSE h.bet[s]
           /\ \A s \in Seats : g.status[s] = IF s = h.on THEN st ELSE h.status[s]
<1> DEFINE g == Put(h, k, st, c, a)
<1>0. /\ h.stack \in [Seats -> Nat] /\ h.bet \in [Seats -> Nat]
      /\ h.status \in [Seats -> {"active", "all_in", "folded"}]
      /\ h.pot \in Nat /\ h.on \in Seats /\ h.turn \in Nat \ {0}
    BY HandTyped
<1>1. /\ g.phase = h.phase /\ g.deck = h.deck /\ g.community = h.community /\ g.on = h.on
      /\ g.pot = h.pot + k /\ g.current = c /\ g.aggressor = a /\ g.turn = h.turn + 1
      /\ g.stack = [h.stack EXCEPT ![h.on] = @ - k]
      /\ g.bet = [h.bet EXCEPT ![h.on] = @ + k]
      /\ g.status = [h.status EXCEPT ![h.on] = st]
    BY DEF Put, Hands
<1>2. h.stack[h.on] - k \in Nat
    BY <1>0 DEF Allowed
<1>3. /\ [h.stack EXCEPT ![h.on] = @ - k] \in [Seats -> Nat]
      /\ [h.bet EXCEPT ![h.on] = @ + k] \in [Seats -> Nat]
      /\ [h.status EXCEPT ![h.on] = st] \in [Seats -> {"active", "all_in", "folded"}]
      /\ h.pot + k \in Nat /\ h.turn + 1 \in Nat \ {0} /\ c \in Nat /\ a \in Seats
    BY <1>0, <1>2 DEF Allowed
<1>4. g \in Hands
    <2> DEFINE b == [h EXCEPT !.stack = [h.stack EXCEPT ![h.on] = @ - k]]
               d == [b EXCEPT !.bet = [h.bet EXCEPT ![h.on] = @ + k]]
               e == [d EXCEPT !.pot = h.pot + k]
               f == [e EXCEPT !.status = [h.status EXCEPT ![h.on] = st]]
               i == [f EXCEPT !.current = c]
               j == [i EXCEPT !.aggressor = a]
    <2>1. g = [j EXCEPT !.turn = h.turn + 1]
        BY DEF Put, Hands
    <2>2. b \in Hands
        BY <1>3, FieldSet
    <2> HIDE DEF b, g
    <2>3. d \in Hands
        BY <1>3, <2>2, FieldSet
    <2> HIDE DEF d
    <2>4. e \in Hands
        BY <1>3, <2>3, FieldSet
    <2> HIDE DEF e
    <2>5. f \in Hands
        BY <1>3, <2>4, FieldSet
    <2> HIDE DEF f
    <2>6. i \in Hands
        BY <1>3, <2>5, FieldSet
    <2> HIDE DEF i
    <2>7. j \in Hands
        BY <1>3, <2>6, FieldSet
    <2> HIDE DEF j
    <2> QED
        BY <1>3, <2>1, <2>7, FieldSet
<1>5. /\ \A s \in Seats : g.stack[s] = IF s = h.on THEN h.stack[s] - k ELSE h.stack[s]
      /\ \A s \in Seats : g.bet[s] = IF s = h.on THEN h.bet[s] + k ELSE h.bet[s]
      /\ \A s \in Seats : g.status[s] = IF s = h.on THEN st ELSE h.status[s]
    <2> HIDE DEF g
    <2> QED
        BY <1>0, <1>1
<1> HIDE DEF g
<1>6. QED
    BY <1>1, <1>4, <1>5 DEF g

\* An allowed move leaves the betting in order.
LEMMA PutOK ==
    ASSUME NEW h, HandOK(h), ~Terminal(h), NEW k, NEW st, NEW c, NEW a, Allowed(h, k, st, c, a)
    PROVE  MoveOK(Put(h, k, st, c, a))
<1> DEFINE g == Put(h, k, st, c, a)
           o == h.on
<1>0. /\ h \in Hands /\ h.stack \in [Seats -> Nat] /\ h.bet \in [Seats -> Nat]
      /\ h.status \in [Seats -> {"active", "all_in", "folded"}] /\ h.current \in Nat /\ o \in Seats
    BY HandTyped DEF HandOK
<1>1. /\ g \in Hands
      /\ g.phase = h.phase /\ g.deck = h.deck /\ g.community = h.community /\ g.on = o
      /\ g.current = c
      /\ \A s \in Seats : g.stack[s] = IF s = o THEN h.stack[s] - k ELSE h.stack[s]
      /\ \A s \in Seats : g.bet[s] = IF s = o THEN h.bet[s] + k ELSE h.bet[s]
      /\ \A s \in Seats : g.status[s] = IF s = o THEN st ELSE h.status[s]
    BY <1>0, PutIs
<1> SUFFICES MoveOK(g)
    OBVIOUS
<1> HIDE DEF g
<1>2. Board(g) /\ ~Terminal(g)
    BY <1>1 DEF HandOK, Board, Terminal
<1>3. AllInOK(g)
    BY <1>0, <1>1 DEF HandOK, AllInOK, Allowed
<1>4. o \in Active(h) /\ Level(h) /\ Largest(h) /\ Order(h)
    BY DEF HandOK
<1>5. Unfolded(g) \subseteq Unfolded(h) /\ o \in Unfolded(h)
    BY <1>1, <1>4 DEF Unfolded, Active
<1>6. Level(g)
    <2>1. \A s \in Seats : g.stack[s] + g.bet[s] = h.stack[s] + h.bet[s]
        BY <1>0, <1>1 DEF Allowed
    <2> QED
        BY <1>4, <1>5, <2>1 DEF Level, Unfolded
<1>7. h.current <= c /\ (st # "folded" => h.bet[o] + k = c) /\ k \in Nat
    BY <1>0 DEF Allowed, Stays, Ups
<1>8. Largest(g)
    <2> SUFFICES ASSUME NEW s \in Unfolded(g) PROVE g.bet[s] <= c
        BY <1>1 DEF Largest
    <2>1. s \in Seats /\ h.bet[s] \in Nat /\ h.bet[s] <= h.current
        BY <1>0, <1>4, <1>5 DEF Unfolded, Largest
    <2>2. s = o => st # "folded"
        BY <1>1 DEF Unfolded
    <2> QED
        BY <1>0, <1>1, <1>7, <2>1, <2>2 DEF Allowed
<1>9. o \notin Owing(g)
    BY <1>0, <1>1, <1>7 DEF Owing, Active, Allowed
<1>12. Unfolded(g) # {}
    <2>1. PICK t \in Unfolded(h) : t # o
        BY DEF HandOK
    <2> QED
        BY <1>1, <2>1 DEF Unfolded
<1>13. Covered(g)
    <2> SUFFICES ASSUME NEW s \in Unfolded(g), NEW t \in Seats
                 PROVE  g.stack[s] + g.bet[s] <= g.stack[t] + c
        BY <1>1, <1>2 DEF Covered
    <2>1. s \in Unfolded(h) /\ s \in Seats
        BY <1>5 DEF Unfolded
    <2>2. /\ h.stack[s] + h.bet[s] <= h.stack[t] + h.current
          /\ h.stack[s] + h.bet[s] = h.stack[o] + h.bet[o]
        BY <1>4, <1>5, <2>1 DEF HandOK, Covered, Level
    <2>3. g.stack[s] + g.bet[s] = h.stack[s] + h.bet[s]
        BY <1>0, <1>1, <2>1 DEF Allowed
    <2>4. /\ h.stack[t] \in Nat /\ h.stack[o] \in Nat /\ h.bet[o] \in Nat
          /\ h.stack[s] \in Nat /\ h.bet[s] \in Nat /\ c \in Nat
        BY <1>0, <2>1 DEF Allowed
    <2>5. CASE t # o
        BY <1>0, <1>1, <1>7, <2>2, <2>3, <2>4, <2>5
    <2>6. CASE t = o /\ st # "folded"
        <3>1. g.stack[t] + c = h.stack[o] + h.bet[o]
            BY <1>1, <1>7, <2>4, <2>6
        <3> QED
            BY <2>2, <2>3, <2>4, <3>1
    <2>7. CASE t = o /\ st = "folded"
        <3>1. g.stack[t] = h.stack[t] /\ c = h.current
            BY <1>1, <2>4, <2>7 DEF Allowed, Stays, Ups
        <3> QED
            BY <2>2, <2>3, <3>1
    <2> QED
        BY <2>5, <2>6, <2>7
<1>10. CASE Stays(h, k, st, c)
    <2>1. \A s \in Seats \ {o} : /\ s \in Active(g) <=> s \in Active(h)
                                 /\ s \in Owing(g) <=> s \in Owing(h)
        BY <1>1, <1>10 DEF Stays, Owing, Active
    <2>2. Owing(g) # {} => o \in Owing(h)
        BY <1>4, <1>9, <2>1 DEF Order, Owing, Active
    <2>3. ASSUME NEW s \in Owing(g), NEW t \in Active(g) \ Owing(g) PROVE Distance(o, s) < Distance(o, t)
        <3>1. s \in Seats /\ s # o /\ t \in Seats /\ s \in Owing(h)
            BY <1>9, <2>1, <2>3 DEF Owing, Active
        <3>2. CASE t = o
            BY <1>0, <3>1, <3>2, SelfIsLast
        <3>3. CASE t # o
            BY <1>4, <2>1, <3>1, <3>3 DEF Order
        <3> QED
            BY <3>2, <3>3
    <2>4. Owing(g) # {} => \E s \in Unfolded(g) : g.bet[s] = g.current
        <3> SUFFICES ASSUME Owing(g) # {} PROVE \E s \in Unfolded(g) : g.bet[s] = g.current
            OBVIOUS
        <3>1. PICK s \in Unfolded(h) : h.bet[s] = h.current
            BY DEF HandOK
        <3>2. s \in Seats /\ s # o
            BY <1>0, <2>2, <3>1 DEF Owing, Unfolded
        <3> QED
            BY <1>1, <1>10, <3>1, <3>2 DEF Stays, Unfolded
    <2> QED
        BY <1>1, <1>2, <1>3, <1>6, <1>8, <1>9, <1>12, <1>13, <2>3, <2>4 DEF MoveOK
<1>11. CASE Ups(h, k, st, c)
    <2>1. \A t \in Active(g) \ Owing(g) : t = o
        <3> SUFFICES ASSUME NEW t \in Active(g), t # o PROVE t \in Owing(g)
            OBVIOUS
        <3>1. t \in Seats /\ t \in Unfolded(h) /\ g.bet[t] = h.bet[t]
            BY <1>1 DEF Active, Unfolded
        <3>2. h.bet[t] \in Nat /\ h.bet[t] <= h.current
            BY <1>0, <1>4, <3>1 DEF Largest
        <3> QED
            BY <1>0, <1>1, <1>11, <3>1, <3>2 DEF Ups, Owing, Allowed
    <2>2. ASSUME NEW s \in Owing(g), NEW t \in Active(g) \ Owing(g) PROVE Distance(o, s) < Distance(o, t)
        <3>1. s \in Seats /\ s # o /\ t = o
            BY <1>9, <2>1 DEF Owing, Active
        <3> QED
            BY <1>0, <3>1, SelfIsLast
    <2>3. o \in Unfolded(g) /\ g.bet[o] = g.current
        BY <1>0, <1>1, <1>11 DEF Ups, Unfolded
    <2> QED
        BY <1>1, <1>2, <1>3, <1>6, <1>8, <1>9, <1>12, <1>13, <2>2, <2>3 DEF MoveOK
<1> QED
    BY <1>10, <1>11 DEF Allowed

\* A move that submit_action lets through, or the fold of a timeout.
Legal(h, m, x) ==
    /\ m \in Moves /\ x \in Nat
    /\ m = TimeoutMove \/ (m \in ValidActions(h, h.on) /\ Applies(h, h.on, m, x))

\* Whoever is still in and has matched the bet with its last chip had as much as
\* the bet.
LEMMA StackCovers ==
    ASSUME NEW h, HandOK(h), ~Terminal(h), NEW s \in Unfolded(h)
    PROVE  h.current <= h.stack[s] + h.bet[s]
<1>1. /\ h.stack \in [Seats -> Nat] /\ h.bet \in [Seats -> Nat] /\ h.current \in Nat
    BY HandTyped DEF HandOK
<1>2. PICK t \in Unfolded(h) : h.bet[t] = h.current
    BY DEF HandOK
<1>3. h.stack[s] + h.bet[s] = h.stack[t] + h.bet[t]
    BY DEF HandOK, Level
<1> QED
    BY <1>1, <1>2, <1>3 DEF Unfolded

\* Each of the six moves is an allowed one: it puts in more, folds, or leaves
\* nobody owing.
LEMMA MoveIs ==
    ASSUME NEW h, HandOK(h), ~Terminal(h), NEW m, NEW x, Legal(h, m, x)
    PROVE  \E k, st, c, a :
             /\ Moved(h, h.on, m, x) = Put(h, k, st, c, a) /\ Allowed(h, k, st, c, a)
             /\ BigBlind > 0 => k > 0 \/ st = "folded" \/ (Owing(h) = {} /\ c = h.current)
<1> DEFINE o == h.on
           k == Spent(h, o, m, x)
           st == StatusAfter(h, o, m, x)
           c == IF Raises(h, o, m, x) THEN h.bet[o] + k ELSE h.current
           a == IF Raises(h, o, m, x) THEN o ELSE h.aggressor
<1>0. /\ h.stack[o] \in Nat /\ h.bet[o] \in Nat /\ h.current \in Nat /\ o \in Seats /\ h.aggressor \in Seats
      /\ h.status[o] = "active" /\ h.stack[o] # 0 /\ h.bet[o] <= h.current /\ o \in Unfolded(h)
    BY HandTyped DEF HandOK, AllInOK, Active, Unfolded, Largest
<1>1. Moved(h, o, m, x) = Put(h, k, st, c, a)
    BY DEF Moved, Put
<1>2. ToCall(h, o) = h.current - h.bet[o]
    BY <1>0 DEF ToCall
<1>3. h.current <= h.stack[o] + h.bet[o]
    BY <1>0, StackCovers
<1>4. h.bet[o] = h.current => Owing(h) = {}
    BY <1>0 DEF HandOK, Order, Owing
<1>5. BigBlind \in Nat
    BY TableAssumption DEF BigBlind
<1>6. SUFFICES Allowed(h, k, st, c, a)
               /\ (BigBlind > 0 => k > 0 \/ st = "folded" \/ (Owing(h) = {} /\ c = h.current))
    BY <1>1
<1>7. CASE m = "fold"
    <2>1. k = 0 /\ st = "folded" /\ c = h.current /\ a = h.aggressor
        BY <1>7 DEF Spent, StatusAfter, Raises
    <2>2. a \in Seats
        BY <1>0, <2>1
    <2> HIDE DEF k, st, c, a
    <2> QED
        BY <1>0, <2>1, <2>2 DEF Allowed, Stays
<1>8. ASSUME m \in ValidActions(h, o), Applies(h, o, m, x), x \in Nat, m \in Moves, m # "fold"
      PROVE  Allowed(h, k, st, c, a)
             /\ (BigBlind > 0 => k > 0 \/ st = "folded" \/ (Owing(h) = {} /\ c = h.current))
    <2>1. CASE m = "check"
        <3>1. ToCall(h, o) = 0 /\ k = 0 /\ st = "active" /\ c = h.current /\ a = h.aggressor
            BY <1>0, <1>8, <2>1 DEF ValidActions, Spent, StatusAfter, Raises
        <3> QED
            BY <1>0, <1>2, <1>4, <3>1 DEF Allowed, Stays
    <2>2. CASE m = "call"
        <3>1. ToCall(h, o) > 0 /\ h.stack[o] > ToCall(h, o)
            BY <1>8, <2>2 DEF ValidActions
        <3>2. k = ToCall(h, o) /\ c = h.current /\ a = h.aggressor
            BY <1>0, <1>2, <2>2, <3>1 DEF Spent, Raises
        <3>3. st = "active"
            BY <1>0, <1>2, <2>2, <3>1, <3>2 DEF StatusAfter
        <3> QED
            BY <1>0, <1>2, <3>1, <3>2, <3>3 DEF Allowed, Stays
    <2>3. CASE m = "bet"
        <3>1. ToCall(h, o) = 0 /\ BigBlind <= x /\ x <= h.stack[o]
            BY <1>8, <2>3 DEF ValidActions, Applies
        <3>2. k = x /\ c = h.bet[o] + x /\ a = o
            BY <2>3 DEF Spent, Raises
        <3>3. st = IF x = h.stack[o] THEN "all_in" ELSE "active"
            BY <1>0, <2>3, <3>2 DEF StatusAfter
        <3> QED
            BY <1>0, <1>2, <1>5, <1>8, <3>1, <3>2, <3>3 DEF Allowed, Stays, Ups
    <2>4. CASE m = "raise"
        <3>1. ToCall(h, o) > 0 /\ h.current <= x /\ x <= h.stack[o]
            BY <1>8, <2>4 DEF ValidActions, Applies
        <3>2. k = x /\ c = h.bet[o] + x /\ a = o
            BY <2>4 DEF Spent, Raises
        <3>3. st = IF x = h.stack[o] THEN "all_in" ELSE "active"
            BY <1>0, <2>4, <3>2 DEF StatusAfter
        <3> QED
            BY <1>0, <1>2, <1>8, <3>1, <3>2, <3>3 DEF Allowed, Stays, Ups
    <2>5. CASE m = "all_in"
        <3>1. k = h.stack[o] /\ st = "all_in"
            BY <2>5 DEF Spent, StatusAfter
        <3>2. h.stack[o] <= ToCall(h, o)
            BY <1>8, <2>5 DEF ValidActions
        <3>3. h.bet[o] + h.stack[o] = h.current
            BY <1>0, <1>2, <1>3, <3>2
        <3>4. c = h.current /\ a \in Seats
            BY <1>0, <3>1, <3>3
        <3> QED
            BY <1>0, <3>1, <3>3, <3>4 DEF Allowed, Stays
    <2>6. m \in {"check", "call", "bet", "raise", "all_in"}
        BY <1>8 DEF Moves
    <2> HIDE DEF k, st, c, a
    <2> QED
        BY <2>1, <2>2, <2>3, <2>4, <2>5, <2>6
<1> QED
    BY <1>7, <1>8 DEF Legal, TimeoutMove

----------------------------------------------------------------------------
(* The action advances                                                     *)

\* When nobody owes, a player still in has matched the bet or is all-in, and
\* so has no more chips behind than anybody.
LEMMA NobodyOwes ==
    ASSUME NEW g, MoveOK(g), Owing(g) = {}
    PROVE  \A s \in Unfolded(g), t \in Seats : g.stack[s] <= g.stack[t]
<1>1. /\ g.stack \in [Seats -> Nat] /\ g.bet \in [Seats -> Nat] /\ g.current \in Nat
      /\ g.status \in [Seats -> {"active", "all_in", "folded"}]
    BY HandTyped DEF MoveOK
<1> SUFFICES ASSUME NEW s \in Unfolded(g), NEW t \in Seats PROVE g.stack[s] <= g.stack[t]
    OBVIOUS
<1>2. s \in Seats /\ g.status[s] \in {"active", "all_in"}
    BY <1>1 DEF Unfolded
<1>3. CASE g.status[s] = "all_in"
    BY <1>1, <1>2, <1>3 DEF MoveOK, AllInOK
<1>4. CASE g.status[s] = "active"
    <2>1. g.bet[s] = g.current
        BY <1>1, <1>2, <1>4 DEF Owing, Active, MoveOK, Largest
    <2>2. g.stack[s] + g.bet[s] <= g.stack[t] + g.current
        BY DEF MoveOK, Covered
    <2> QED
        BY <1>1, <1>2, <2>1, <2>2
<1> QED
    BY <1>2, <1>3, <1>4

\* On the next street everybody still in has the same stack and no bet.
LEMMA NextPhaseOK ==
    ASSUME NEW g, MoveOK(g), Owing(g) = {}, Cardinality(Unfolded(g)) # 1
    PROVE  HandOK(NextPhase(g))
<1> DEFINE p == Following(g.phase)
           n == NextPhase(g)
<1>0. /\ g \in Hands /\ g.phase \in Phases \ {"completed"} /\ g.deck \in Nat /\ g.community \in 0..5
      /\ g.stack \in [Seats -> Nat] /\ g.bet \in [Seats -> Nat]
      /\ g.status \in [Seats -> {"active", "all_in", "folded"}] /\ g.current \in Nat /\ g.on \in Seats
    BY HandTyped DEF MoveOK, Terminal
<1>1. N \in 2..9 /\ DealerSeat \in Seats
    BY TableAssumption DEF Seats, DealerSeat
<1>2. /\ n.phase = IF Active(g) = {} THEN "completed" ELSE p
      /\ n.bet = [s \in Seats |-> IF s \in Unfolded(g) THEN 0 ELSE g.bet[s]]
      /\ n.current = 0 /\ n.community = g.community + Dealt(p)
      /\ n.deck = g.deck - Dealt(p) - Burnt(p)
      /\ n.on = IF p = "completed" \/ Active(g) = {} THEN g.on ELSE NextActive(g, DealerSeat)
      /\ n.stack = g.stack /\ n.status = g.status
    BY <1>0 DEF NextPhase, Hands
<1>3. n.on \in Seats /\ (Active(g) # {} /\ p # "completed" => n.on \in Active(g))
    BY <1>0, <1>1, <1>2, NextActiveIs DEF Active
<1>4. /\ p = "flop" => n.community = 3 /\ n.deck = 48 - 2 * N
      /\ p = "turn" => n.community = 4 /\ n.deck = 46 - 2 * N
      /\ p = "river" => n.community = 5 /\ n.deck = 44 - 2 * N
      /\ p = "completed" => n.community = 5 /\ n.deck = 44 - 2 * N
      /\ p \in {"flop", "turn", "river", "completed"}
    BY <1>0, <1>1, <1>2 DEF MoveOK, Board, Phases, Following, Dealt, Burnt
<1>5. n \in Hands
    <2> DEFINE b == [g EXCEPT !.phase = n.phase]
               c == [b EXCEPT !.bet = n.bet]
               d == [c EXCEPT !.current = 0]
               e == [d EXCEPT !.community = n.community]
               f == [e EXCEPT !.deck = n.deck]
    <2>1. n = [f EXCEPT !.on = n.on]
        BY <1>0 DEF NextPhase, Hands
    <2>2. n.phase \in Phases /\ n.bet \in [Seats -> Nat] /\ n.community \in 0..5 /\ n.deck \in Nat
        BY <1>0, <1>1, <1>2, <1>4 DEF Phases
    <2> HIDE DEF n
    <2>3. b \in Hands
        BY <1>0, <2>2, FieldSet
    <2> HIDE DEF b
    <2>4. c \in Hands
        BY <2>2, <2>3, FieldSet
    <2> HIDE DEF c
    <2>5. d \in Hands
        BY <2>4, FieldSet
    <2> HIDE DEF d
    <2>6. e \in Hands
        BY <2>2, <2>5, FieldSet
    <2> HIDE DEF e
    <2>7. f \in Hands
        BY <2>2, <2>6, FieldSet
    <2> HIDE DEF f
    <2> QED
        BY <1>3, <2>1, <2>7, FieldSet
<1> SUFFICES HandOK(n)
    OBVIOUS
<1> HIDE DEF n, p
<1>6. Board(n) /\ Scored(n)
    BY <1>2, <1>4 DEF Board, Scored
<1>7. AllInOK(n) /\ Active(n) = Active(g) /\ Unfolded(n) = Unfolded(g)
    BY <1>2 DEF MoveOK, AllInOK, Active, Unfolded
<1>8. ASSUME ~Terminal(n)
      PROVE  /\ n.on \in Active(n) /\ \E t \in Unfolded(n) : t # n.on
             /\ Level(n) /\ Largest(n) /\ Order(n)
             /\ \E s \in Unfolded(n) : n.bet[s] = n.current
    <2>1. Active(g) # {} /\ n.on \in Active(g)
        BY <1>2, <1>3, <1>8 DEF Terminal
    <2>2. n.on \in Unfolded(g)
        BY <2>1 DEF Active, Unfolded
    <2>3. \E t \in Unfolded(g) : t # n.on
        BY <2>2, OneUnfolded
    <2>4. \A s \in Active(g) : g.bet[s] = g.current /\ s \in Unfolded(g) /\ g.stack[s] # 0
        BY <1>0 DEF MoveOK, Owing, Largest, Active, Unfolded, AllInOK
    <2>5. Unfolded(g) \subseteq Active(g)
        <3> SUFFICES ASSUME NEW s \in Unfolded(g), g.status[s] = "all_in" PROVE FALSE
            BY <1>0 DEF Active, Unfolded
        <3>1. g.stack[s] = 0 /\ g.bet[s] <= g.current /\ s \in Seats
            BY DEF MoveOK, AllInOK, Largest, Unfolded
        <3>2. g.stack[s] + g.bet[s] = g.stack[n.on] + g.bet[n.on]
            BY <2>2 DEF MoveOK, Level
        <3>3. n.on \in Seats /\ g.bet[n.on] = g.current /\ g.stack[n.on] # 0
            BY <2>1, <2>4 DEF Active
        <3> QED
            BY <1>0, <3>1, <3>2, <3>3
    <2>6. \A s \in Unfolded(n) : s \in Seats /\ n.bet[s] = 0 /\ n.stack[s] = g.stack[s]
        BY <1>2, <1>7 DEF Unfolded
    <2>7. Level(n)
        <3> SUFFICES ASSUME NEW s \in Unfolded(n), NEW t \in Unfolded(n)
                     PROVE  n.stack[s] + n.bet[s] = n.stack[t] + n.bet[t]
            BY DEF Level
        <3>1. g.stack[s] + g.bet[s] = g.stack[t] + g.bet[t]
            BY <1>7 DEF MoveOK, Level
        <3>2. g.bet[s] = g.current /\ g.bet[t] = g.current
            BY <1>7, <2>4, <2>5
        <3> QED
            BY <1>0, <2>6, <3>1, <3>2
    <2>8. Largest(n) /\ Owing(n) = {}
        BY <1>2, <2>6 DEF Largest, Owing, Active, Unfolded
    <2> QED
        BY <1>2, <1>7, <2>1, <2>2, <2>3, <2>6, <2>7, <2>8 DEF Order
<1>9. Covered(n)
    <2> SUFFICES ASSUME NEW s \in Unfolded(n), NEW t \in Seats
                 PROVE  IF Terminal(n) THEN n.stack[s] <= n.stack[t]
                        ELSE n.stack[s] + n.bet[s] <= n.stack[t] + n.current
        BY DEF Covered
    <2>1. s \in Unfolded(g) /\ s \in Seats
        BY <1>7 DEF Unfolded
    <2>2. g.stack[s] <= g.stack[t]
        BY <2>1, NobodyOwes
    <2>3. n.stack[s] = g.stack[s] /\ n.stack[t] = g.stack[t] /\ n.bet[s] = 0 /\ n.current = 0
        BY <1>2, <2>1
    <2> QED
        BY <1>0, <2>1, <2>2, <2>3
<1>10. Unfolded(n) # {}
    BY <1>7 DEF MoveOK
<1> QED
    BY <1>5, <1>6, <1>7, <1>8, <1>9, <1>10 DEF HandOK

\* The nearest player who is still active owes, and so the next in order.
LEMMA AskNextOK ==
    ASSUME NEW g, MoveOK(g), Owing(g) # {}, Cardinality(Unfolded(g)) # 1
    PROVE  HandOK([g EXCEPT !.on = NextActive(g, g.on)])
<1> DEFINE o == g.on
           q == NextActive(g, o)
           n == [g EXCEPT !.on = q]
<1>0. /\ g \in Hands /\ ~Terminal(g) /\ o \in Seats
      /\ g.stack \in [Seats -> Nat] /\ g.bet \in [Seats -> Nat] /\ g.current \in Nat
    BY HandTyped DEF MoveOK
<1>1. Owing(g) \subseteq Active(g) /\ Active(g) \subseteq Seats
    BY DEF Owing, Active
<1>2. q \in Active(g) /\ \A u \in Active(g) : Distance(o, q) <= Distance(o, u)
    BY <1>0, <1>1, NextActiveIs
<1> HIDE DEF q
<1>3. q \in Seats /\ q \in Unfolded(g)
    BY <1>2 DEF Active, Unfolded
<1>4. /\ n.phase = g.phase /\ n.deck = g.deck /\ n.community = g.community /\ n.on = q
      /\ n.stack = g.stack /\ n.bet = g.bet /\ n.status = g.status /\ n.current = g.current
    BY <1>0 DEF Hands
<1>5. n \in Hands
    BY <1>0, <1>3, FieldSet
<1> SUFFICES HandOK(n)
    BY DEF q
<1> HIDE DEF n
<1>6. Active(n) = Active(g) /\ Unfolded(n) = Unfolded(g) /\ Owing(n) = Owing(g)
    BY <1>4 DEF Active, Unfolded, Owing
<1>7. /\ Board(n) /\ AllInOK(n) /\ Level(n) /\ Largest(n) /\ ~Terminal(n)
      /\ Covered(n) /\ Unfolded(n) # {}
    BY <1>4, <1>6 DEF MoveOK, Board, AllInOK, Level, Largest, Terminal, Covered
<1>8. \A s, t \in Seats : Distance(s, t) \in Nat
    <2> SUFFICES ASSUME NEW s \in Seats, NEW t \in Seats PROVE Distance(s, t) \in Nat
        OBVIOUS
    <2>1. N \in 2..9 /\ s \in 1..N /\ t \in 1..N
        BY TableAssumption DEF Seats
    <2>2. Distance(s, t) = IF s < t THEN t - s - 1 ELSE t + N - s - 1
        BY DistanceIs
    <2> QED
        BY <2>1, <2>2
<1>9. \A s, t \in Seats : s # t => Distance(o, s) # Distance(o, t)
    <2> SUFFICES ASSUME NEW s \in Seats, NEW t \in Seats, s # t PROVE Distance(o, s) # Distance(o, t)
        OBVIOUS
    <2>1. N \in 2..9 /\ s \in 1..N /\ t \in 1..N /\ o \in 1..N
        BY <1>0, TableAssumption DEF Seats
    <2>2. Distance(o, s) = IF o < s THEN s - o - 1 ELSE s + N - o - 1
        BY <1>0, DistanceIs
    <2>3. Distance(o, t) = IF o < t THEN t - o - 1 ELSE t + N - o - 1
        BY <1>0, DistanceIs
    <2> QED
        BY <2>1, <2>2, <2>3
<1>10. \A s \in Owing(g), t \in Active(g) \ Owing(g) : Distance(o, s) < Distance(o, t)
    BY DEF MoveOK
<1>11. q \in Owing(g)
    <2> SUFFICES ASSUME q \notin Owing(g) PROVE FALSE
        OBVIOUS
    <2>1. PICK s \in Owing(g) : TRUE
        OBVIOUS
    <2>2. Distance(o, s) < Distance(o, q) /\ Distance(o, q) <= Distance(o, s)
        BY <1>1, <1>2, <1>10, <2>1
    <2>3. Distance(o, s) \in Nat /\ Distance(o, q) \in Nat
        BY <1>0, <1>1, <1>3, <1>8, <2>1
    <2> QED
        BY <2>2, <2>3
<1>12. ASSUME NEW s \in Owing(g), NEW t \in Active(g) \ Owing(g), s # q
       PROVE  Distance(q, s) < Distance(q, t)
    <2>1. s \in Seats /\ t \in Seats /\ t # q /\ s \in Active(g)
        BY <1>1, <1>11, <1>12
    <2>2. Distance(o, s) \in Nat /\ Distance(o, t) \in Nat /\ Distance(o, q) \in Nat
        BY <1>0, <1>3, <1>8, <2>1
    <2>3. Distance(o, q) # Distance(o, s) /\ Distance(o, q) # Distance(o, t)
        BY <1>3, <1>9, <1>12, <2>1
    <2>4. Distance(o, q) <= Distance(o, s) /\ Distance(o, q) <= Distance(o, t)
        BY <1>2, <2>1
    <2>5. Distance(o, q) < Distance(o, s) /\ Distance(o, q) < Distance(o, t)
        BY <2>2, <2>3, <2>4
    <2>6. Distance(q, s) = Distance(o, s) - Distance(o, q) - 1
        BY <1>0, <1>3, <2>1, <2>5, DistanceFromNearer
    <2>7. Distance(q, t) = Distance(o, t) - Distance(o, q) - 1
        BY <1>0, <1>3, <2>1, <2>5, DistanceFromNearer
    <2>8. Distance(o, s) < Distance(o, t)
        BY <1>10
    <2> QED
        BY <2>2, <2>6, <2>7, <2>8
<1>13. Order(n)
    BY <1>4, <1>6, <1>11, <1>12 DEF Order
<1>14. \E t \in Unfolded(g) : t # q
    BY <1>3, OneUnfolded
<1>15. \E s \in Unfolded(g) : g.bet[s] = g.current
    BY DEF MoveOK
<1> QED
    BY <1>2, <1>4, <1>5, <1>6, <1>7, <1>13, <1>14, <1>15 DEF HandOK

\* advance_action after a move.
LEMMA AdvancedOK ==
    ASSUME NEW g, MoveOK(g)
    PROVE  /\ HandOK(Advanced(g))
           /\ Advanced(g).pot = g.pot /\ Advanced(g).stack = g.stack
           /\ Active(Advanced(g)) = Active(g)
           /\ Advanced(g).phase # g.phase \/ Owing(g) # {}
           /\ Advanced(g).phase \in {g.phase, Following(g.phase), "completed"}
<1>0. /\ g \in Hands /\ ~Terminal(g) /\ g.phase \in Phases \ {"completed"}
      /\ g.bet \in [Seats -> Nat] /\ g.current \in Nat
    BY HandTyped DEF MoveOK, Terminal
<1>1. RoundComplete(g) <=> Owing(g) = {}
    BY <1>0 DEF RoundComplete, Owing, Active
<1>2. CASE Cardinality(Unfolded(g)) = 1
    <2> DEFINE n == [g EXCEPT !.phase = "completed"]
    <2>1. Advanced(g) = n
        BY <1>2 DEF Advanced
    <2>2. /\ n.phase = "completed" /\ n.stack = g.stack /\ n.status = g.status /\ n.pot = g.pot
        BY <1>0 DEF Hands
    <2>3. n \in Hands
        BY <1>0, FieldSet DEF Phases
    <2> HIDE DEF n
    <2>4. Active(n) = Active(g) /\ Unfolded(n) = Unfolded(g)
        BY <2>2 DEF Active, Unfolded
    <2>5. Owing(g) = {}
        <3> SUFFICES ASSUME NEW s \in Owing(g) PROVE FALSE
            OBVIOUS
        <3>1. PICK t \in Unfolded(g) : g.bet[t] = g.current
            BY DEF MoveOK
        <3>2. s \in Unfolded(g) /\ g.bet[s] < g.current
            BY DEF Owing, Active, Unfolded
        <3>3. s = t
            BY <1>2, <3>1, <3>2, OneUnfolded
        <3> QED
            BY <1>0, <3>1, <3>2, <3>3
    <2>6. Covered(n)
        BY <2>2, <2>4, <2>5, NobodyOwes DEF Covered, Terminal
    <2>7. HandOK(n)
        BY <1>2, <2>2, <2>3, <2>4, <2>6 DEF HandOK, MoveOK, Board, AllInOK, Terminal
    <2> QED
        BY <1>0, <2>1, <2>2, <2>4, <2>7
<1>3. CASE Cardinality(Unfolded(g)) # 1 /\ Owing(g) = {}
    <2> DEFINE n == NextPhase(g)
    <2>1. Advanced(g) = n
        BY <1>1, <1>3 DEF Advanced
    <2>2. HandOK(n)
        BY <1>3, NextPhaseOK
    <2>3. /\ n.phase = IF Active(g) = {} THEN "completed" ELSE Following(g.phase)
          /\ n.pot = g.pot /\ n.stack = g.stack /\ n.status = g.status
        BY <1>0 DEF NextPhase, Hands
    <2>4. Following(g.phase) # g.phase
        BY <1>0 DEF Phases, Following
    <2> HIDE DEF n
    <2>5. Active(n) = Active(g)
        BY <2>3 DEF Active
    <2> QED
        BY <1>0, <2>1, <2>2, <2>3, <2>4, <2>5
<1>4. CASE Cardinality(Unfolded(g)) # 1 /\ Owing(g) # {}
    <2> DEFINE n == [g EXCEPT !.on = NextActive(g, g.on)]
    <2>1. Advanced(g) = n
        BY <1>1, <1>4 DEF Advanced
    <2>2. HandOK(n)
        BY <1>4, AskNextOK
    <2>3. n.phase = g.phase /\ n.pot = g.pot /\ n.stack = g.stack /\ n.status = g.status
        BY <1>0 DEF Hands
    <2> HIDE DEF n
    <2>4. Active(n) = Active(g)
        BY <2>3 DEF Active
    <2> QED
        BY <1>4, <2>1, <2>2, <2>3, <2>4
<1> QED
    BY <1>2, <1>3, <1>4

\* A whole move: what it keeps, and how far it brings the hand.
LEMMA AppliedOK ==
    ASSUME NEW h, HandOK(h), ~Terminal(h), NEW m, NEW x, Legal(h, m, x)
    PROVE  LET n == Applied(h, h.on, m, x) IN
           /\ HandOK(n) /\ n.pot >= h.pot /\ Active(n) \subseteq Active(h)
           /\ Total(n.stack) + n.pot = Total(h.stack) + h.pot
           /\ n.phase \in {h.phase, Following(h.phase), "completed"}
           /\ BigBlind > 0 => n.pot > h.pot \/ Active(n) # Active(h) \/ n.phase # h.phase
<1>1. PICK k, st, c, a :
         /\ Moved(h, h.on, m, x) = Put(h, k, st, c, a) /\ Allowed(h, k, st, c, a)
         /\ BigBlind > 0 => k > 0 \/ st = "folded" \/ (Owing(h) = {} /\ c = h.current)
    BY MoveIs
<1> DEFINE g == Put(h, k, st, c, a)
           n == Applied(h, h.on, m, x)
<1>2. n = Advanced(g)
    BY <1>1 DEF Applied
<1>3. MoveOK(g)
    BY <1>1, PutOK
<1>4. /\ h.bet \in [Seats -> Nat] /\ h.pot \in Nat /\ h.current \in Nat /\ h.on \in Active(h) /\ h.on \in Seats
      /\ h \in Hands /\ h.stack \in [Seats -> Nat]
    BY HandTyped DEF HandOK
<1>5. k \in Nat
    BY <1>1 DEF Allowed
<1>6. /\ g.phase = h.phase /\ g.pot = h.pot + k /\ g.current = c
      /\ g \in Hands /\ \A s \in Seats : g.stack[s] = IF s = h.on THEN h.stack[s] - k ELSE h.stack[s]
      /\ \A s \in Seats : g.bet[s] = IF s = h.on THEN h.bet[s] + k ELSE h.bet[s]
      /\ \A s \in Seats : g.status[s] = IF s = h.on THEN st ELSE h.status[s]
    BY <1>1, <1>4, PutIs
<1> HIDE DEF g
<1>7. /\ HandOK(n) /\ n.pot = g.pot /\ n.stack = g.stack /\ Active(n) = Active(g)
      /\ n.phase # g.phase \/ Owing(g) # {}
      /\ n.phase \in {g.phase, Following(g.phase), "completed"}
    BY <1>2, <1>3, AdvancedOK
<1> HIDE DEF n
<1>8. Active(g) \subseteq Active(h) /\ (st = "folded" => Active(g) # Active(h))
    BY <1>4, <1>6 DEF Active
<1>9. Owing(h) = {} /\ c = h.current => Owing(g) = {}
    BY <1>4, <1>5, <1>6, <1>8 DEF Owing, Active
<1>11. Total(n.stack) + n.pot = Total(h.stack) + h.pot
    <2>1. g.stack \in [Seats -> Nat]
        BY <1>6, HandTyped
    <2>2. \A s \in Seats \ {h.on} : g.stack[s] = h.stack[s]
        BY <1>4, <1>6
    <2>3. /\ Total(g.stack) = Total(h.stack) + (g.stack[h.on] - h.stack[h.on])
          /\ Total(h.stack) \in Int
        BY <1>4, <2>1, <2>2, TotalChanges
    <2>4. g.stack[h.on] = h.stack[h.on] - k /\ h.stack[h.on] \in Nat
        BY <1>4, <1>6
    <2> QED
        BY <1>4, <1>5, <1>6, <1>7, <2>3, <2>4
<1>10. /\ HandOK(n) /\ n.pot >= h.pot /\ Active(n) \subseteq Active(h)
       /\ n.phase \in {h.phase, Following(h.phase), "completed"}
       /\ BigBlind > 0 => n.pot > h.pot \/ Active(n) # Active(h) \/ n.phase # h.phase
    BY <1>1, <1>4, <1>5, <1>6, <1>7, <1>8, <1>9
<1> QED
    BY <1>10, <1>11 DEF n

----------------------------------------------------------------------------
(* The specification                                                       *)

\* The hand that init leaves.
LEMMA InitialOK == HandOK(InitialHand)
<1> DEFINE h == InitialHand
<1>1. /\ N \in 2..9 /\ BuyIn \in Nat \ {0}
      /\ SmallBlind \in Nat /\ BigBlind \in Nat /\ SmallBlind <= BigBlind /\ BigBlind < BuyIn
      /\ SmallBlind < BigBlind \/ BigBlind = 0
    BY TableAssumption DEF SmallBlind, BigBlind
<1>2. \A s \in Seats : After(s) = (IF s = N THEN 1 ELSE s + 1) /\ After(s) \in Seats
    BY <1>1, AfterIs DEF Seats
<1>3. DealerSeat \in Seats /\ SmallBlindSeat \in Seats /\ BigBlindSeat \in Seats /\ After(BigBlindSeat) \in Seats
      /\ SmallBlindSeat # BigBlindSeat /\ After(BigBlindSeat) # BigBlindSeat
    BY <1>1, <1>2 DEF DealerSeat, SmallBlindSeat, BigBlindSeat, Seats
<1>4. \A s \in Seats : /\ Blind(s) \in Nat /\ Blind(s) <= BigBlind
                       /\ StackDealt(s) \in Nat \ {0} /\ StackDealt(s) + Blind(s) = BuyIn
                       /\ s # BigBlindSeat => Blind(s) < BigBlind \/ BigBlind = 0
    BY <1>1 DEF Blind, StackDealt
<1>5. Blind(BigBlindSeat) = BigBlind
    BY <1>3 DEF Blind
<1>6. /\ h.phase = "pre_flop" /\ h.deck = 52 - 2 * N /\ h.community = 0
      /\ h.stack = [s \in Seats |-> StackDealt(s)] /\ h.bet = [s \in Seats |-> Blind(s)]
      /\ h.status = [s \in Seats |-> "active"] /\ h.pot = SmallBlind + BigBlind /\ h.current = BigBlind
      /\ h.on = After(BigBlindSeat) /\ h.turn = 1 /\ h.aggressor = BigBlindSeat
    BY DEF InitialHand
<1>7. h \in Hands
    <2>1. /\ 52 - 2 * N \in Nat /\ [s \in Seats |-> StackDealt(s)] \in [Seats -> Nat]
          /\ [s \in Seats |-> Blind(s)] \in [Seats -> Nat]
          /\ [s \in Seats |-> "active"] \in [Seats -> {"active", "all_in", "folded"}]
          /\ SmallBlind + BigBlind \in Nat
        BY <1>1, <1>4
    <2> QED
        BY <1>1, <1>3, <2>1 DEF InitialHand, Hands, Phases
<1> SUFFICES HandOK(h)
    OBVIOUS
<1> HIDE DEF h
<1>8. Active(h) = Seats /\ Unfolded(h) = Seats
    BY <1>6 DEF Active, Unfolded
<1>9. Board(h) /\ AllInOK(h) /\ Level(h) /\ Largest(h) /\ ~Terminal(h)
    BY <1>4, <1>6, <1>8 DEF Board, AllInOK, Level, Largest, Terminal
<1>10. Owing(h) = IF BigBlind = 0 THEN {} ELSE Seats \ {BigBlindSeat}
    BY <1>1, <1>4, <1>5, <1>6, <1>8 DEF Owing
<1>11. Order(h)
    <2> SUFFICES ASSUME BigBlind # 0
                 PROVE  /\ h.on \in Owing(h)
                        /\ \A s \in Owing(h), t \in Active(h) \ Owing(h) :
                              s = h.on \/ Distance(h.on, s) < Distance(h.on, t)
        BY <1>10 DEF Order
    <2>1. h.on \in Owing(h)
        BY <1>3, <1>6, <1>10
    <2>2. ASSUME NEW s \in Owing(h), NEW t \in Active(h) \ Owing(h), s # h.on
          PROVE  Distance(h.on, s) < Distance(h.on, t)
        <3>1. t = BigBlindSeat /\ s \in Seats /\ s # t /\ t \in Seats /\ h.on \in Seats /\ h.on # t
            BY <1>3, <1>6, <1>8, <1>10, <2>2
        <3>2. h.on = IF t = N THEN 1 ELSE t + 1
            BY <1>2, <1>6, <3>1
        <3>3. Distance(h.on, s) = IF h.on < s THEN s - h.on - 1 ELSE s + N - h.on - 1
            BY <3>1, DistanceIs
        <3>4. Distance(h.on, t) = IF h.on < t THEN t - h.on - 1 ELSE t + N - h.on - 1
            BY <3>1, DistanceIs
        <3> QED
            BY <1>1, <2>2, <3>1, <3>2, <3>3, <3>4 DEF Seats
    <2> QED
        BY <2>1, <2>2
<1>12. /\ h.on \in Active(h) /\ \E t \in Unfolded(h) : t # h.on
       /\ \E s \in Unfolded(h) : h.bet[s] = h.current
    BY <1>3, <1>5, <1>6, <1>8
<1>13. Covered(h) /\ Unfolded(h) # {}
    <2> SUFFICES ASSUME NEW s \in Seats, NEW t \in Seats
                 PROVE  h.stack[s] + h.bet[s] <= h.stack[t] + h.current
        BY <1>3, <1>8, <1>9 DEF Covered
    <2>1. /\ h.stack[s] + h.bet[s] = BuyIn /\ h.stack[t] + Blind(t) = BuyIn /\ Blind(t) <= h.current
          /\ h.stack[t] \in Nat /\ Blind(t) \in Nat
        BY <1>4, <1>6
    <2> QED
        BY <1>1, <1>6, <2>1
<1> QED
    BY <1>7, <1>9, <1>11, <1>12, <1>13 DEF HandOK

\* The blinds are all that has left the stacks.
LEMMA InitialChips == Total(InitialHand.stack) + InitialHand.pot = Escrow
<1> DEFINE f == [s \in Seats |-> StackDealt(s)]
           b == [s \in Seats |-> Blind(s)]
           sm == [s \in Seats |-> IF s = SmallBlindSeat THEN SmallBlind ELSE 0]
           bg == [s \in Seats |-> IF s = BigBlindSeat THEN BigBlind ELSE 0]
           c == [s \in Seats |-> BuyIn]
<1>1. /\ N \in 2..9 /\ BuyIn \in Nat /\ SmallBlind \in Nat /\ BigBlind \in Nat
    BY TableAssumption DEF SmallBlind, BigBlind
<1>2. /\ SmallBlindSeat \in Seats /\ BigBlindSeat \in Seats /\ SmallBlindSeat # BigBlindSeat
    <2>1. \A s \in Seats : After(s) = (IF s = N THEN 1 ELSE s + 1) /\ After(s) \in Seats
        BY <1>1, AfterIs DEF Seats
    <2> QED
        BY <1>1, <2>1 DEF DealerSeat, SmallBlindSeat, BigBlindSeat, Seats
<1>3. /\ b \in [Seats -> Int] /\ sm \in [Seats -> Int] /\ bg \in [Seats -> Int]
      /\ f \in [Seats -> Int] /\ c \in [Seats -> Int]
    BY <1>1 DEF Blind, StackDealt
<1>4. \A s \in Seats : b[s] = sm[s] + bg[s]
    BY <1>1, <1>2 DEF Blind
<1>5. \A s \in Seats : c[s] = f[s] + b[s]
    BY <1>1 DEF Blind, StackDealt
<1>6. /\ \A s \in Seats \ {SmallBlindSeat} : sm[s] = 0
      /\ \A s \in Seats \ {BigBlindSeat} : bg[s] = 0
      /\ sm[SmallBlindSeat] = SmallBlind /\ bg[BigBlindSeat] = BigBlind
      /\ c[BigBlindSeat] = BuyIn /\ \A s \in Seats : c[s] = c[BigBlindSeat]
    BY <1>2
<1>7. InitialHand.stack = f /\ InitialHand.pot = SmallBlind + BigBlind
    BY DEF InitialHand
<1> HIDE DEF f, b, sm, bg, c
<1>8. IsFiniteSet(Seats) /\ Cardinality(Seats) = N
    BY SeatsFinite
<1> HIDE DEF Seats
<1>9. Total(sm) = SmallBlind /\ Total(bg) = BigBlind
    BY <1>2, <1>3, <1>6, <1>8, TotalSingle
<1>12. Total(b) = Total(sm) + Total(bg)
    BY <1>3, <1>4, <1>8, TotalAdds
<1>13. Total(c) = Total(f) + Total(b) /\ Total(f) \in Int
    BY <1>3, <1>5, <1>8, TotalAdds
<1>10. Total(c) = BuyIn * N
    BY <1>2, <1>3, <1>6, <1>8, TotalConstant
<1>11. BuyIn * N = N * BuyIn
    BY <1>1
<1> QED
    BY <1>1, <1>7, <1>9, <1>10, <1>11, <1>12, <1>13 DEF Escrow

\* What was paid is the payout of the completed hand.
PaidOK ==
    paid # NotPaid =>
        /\ Terminal(hand)
        /\ \E score \in [Unfolded(hand) -> Scores] : paid = Payout(hand, score)

Inv == HandOK(hand) /\ ChipsConserved /\ PaidOK

\* The rake is part of the pot, and what is left divides into amounts.
LEMMA PayoutTyped ==
    ASSUME NEW h \in Hands, NEW score
    PROVE  /\ DOMAIN Payout(h, score) \subseteq Seats
           /\ \A s \in DOMAIN Payout(h, score) : Payout(h, score)[s] \in Nat
<1> DEFINE w == Winners(h, score)
           left == h.pot - Rake(h.pot)
<1>1. w \subseteq Unfolded(h) /\ Unfolded(h) \subseteq Seats
    BY DEF Winners, Unfolded
<1>2. IsFiniteSet(w) /\ Cardinality(w) \in Nat
    BY <1>1, OneUnfolded, FS_Subset, FS_CardinalityType
<1>3. left \in Nat
    <2>1. h.pot \in Nat /\ RakeBps \in 0..1000
        BY HandTyped, TableAssumption
    <2>2. h.pot * RakeBps \in Nat /\ h.pot * RakeBps <= 10000 * h.pot
        BY <2>1
    <2>3. (h.pot * RakeBps) \div 10000 \in Nat /\ (h.pot * RakeBps) \div 10000 <= h.pot
        BY <2>1, <2>2
    <2> QED
        BY <2>1, <2>3 DEF Rake
<1> HIDE DEF w
<1>4. ASSUME NEW s \in w
      PROVE  left \div Cardinality(w) \in Nat /\ left % Cardinality(w) \in Nat
    <2>1. Cardinality(w) # 0
        BY <1>2, <1>4, FS_EmptySet
    <2>2. PICK n \in Nat : n = left
        BY <1>3
    <2>3. PICK k \in Nat \ {0} : k = Cardinality(w)
        BY <1>2, <2>1
    <2>4. n \div k \in Nat /\ n % k \in Nat
        BY <2>2, <2>3
    <2> QED
        BY <2>2, <2>3, <2>4
<1>5. PICK share, rest : share = left \div Cardinality(w) /\ rest = left % Cardinality(w)
    OBVIOUS
<1>6. PICK first : first = CHOOSE s \in w : \A t \in w : s <= t
    OBVIOUS
<1>7. Payout(h, score) = [s \in w |-> IF s = first THEN share + rest ELSE share]
    BY <1>5, <1>6 DEF Payout, w
<1> QED
    BY <1>1, <1>4, <1>5, <1>7 DEF w

\* The moves of submit_action and of the turn manager are legal.
LEMMA ActIsLegal ==
    ASSUME NEW s \in Seats, NEW m \in Moves, NEW x \in Amounts, Act(s, m, x)
    PROVE  ~Terminal(hand) /\ Legal(hand, m, x) /\ hand' = Applied(hand, hand.on, m, x) /\ paid' = paid
    BY TableAssumption DEF Act, ValidActions, Legal

LEMMA TimeOutIsLegal ==
    ASSUME TimeOut
    PROVE  /\ ~Terminal(hand) /\ Legal(hand, TimeoutMove, 0)
           /\ hand' = Applied(hand, hand.on, TimeoutMove, 0) /\ paid' = paid
    BY DEF TimeOut, Legal, TimeoutMove, Moves

LEMMA InvStep == Inv /\ [Next]_vars => Inv'
<1> SUFFICES ASSUME Inv, [Next]_vars PROVE Inv'
    OBVIOUS
<1>1. ASSUME NEW m, NEW x, ~Terminal(hand), Legal(hand, m, x), hand' = Applied(hand, hand.on, m, x), paid' = paid
      PROVE  Inv'
    <2>1. HandOK(hand')
        BY <1>1, AppliedOK DEF Inv
    <2>2. HandOK(hand)'
        BY <2>1 DEF HandOK, Board, AllInOK, Level, Largest, Order, Owing, Active, Unfolded, Terminal, Scored
    <2>3. Total(hand'.stack) + hand'.pot = Total(hand.stack) + hand.pot
        BY <1>1, AppliedOK DEF Inv
    <2>4. ChipsConserved'
        BY <2>3 DEF Inv, ChipsConserved, Escrow
    <2>5. paid = NotPaid
        BY <1>1 DEF Inv, PaidOK
    <2>6. PaidOK'
        BY <1>1, <2>5 DEF PaidOK, NotPaid
    <2> QED
        BY <2>2, <2>4, <2>6 DEF Inv
<1>2. ASSUME NEW s \in Seats, NEW m \in Moves, NEW x \in Amounts, Act(s, m, x) PROVE Inv'
    BY <1>1, <1>2, ActIsLegal
<1>3. CASE TimeOut
    BY <1>1, <1>3, TimeOutIsLegal
<1>4. CASE Pay
    <2>1. PICK score \in [Unfolded(hand) -> Scores] : paid' = Payout(hand, score) /\ hand' = hand
        BY <1>4 DEF Pay
    <2>2. HandOK(hand)'
        BY <2>1 DEF Inv, HandOK, Board, AllInOK, Level, Largest, Order, Owing, Active, Unfolded, Terminal, Scored
    <2>3. ChipsConserved'
        BY <2>1 DEF Inv, ChipsConserved, Escrow
    <2>4. PaidOK'
        BY <1>4, <2>1 DEF Pay, PaidOK, Terminal, Unfolded
    <2> QED
        BY <2>2, <2>3, <2>4 DEF Inv
<1>5. CASE UNCHANGED vars
    <2>1. hand' = hand /\ paid' = paid
        BY <1>5 DEF vars
    <2>2. HandOK(hand)'
        BY <2>1 DEF Inv, HandOK, Board, AllInOK, Level, Largest, Order, Owing, Active, Unfolded, Terminal, Scored
    <2>3. ChipsConserved' /\ PaidOK'
        BY <2>1 DEF Inv, ChipsConserved, Escrow, PaidOK, Terminal, Unfolded, NotPaid
    <2> QED
        BY <2>2, <2>3 DEF Inv
<1> QED
    BY <1>2, <1>3, <1>4, <1>5 DEF Next

LEMMA InvAlways == Spec => []Inv
<1>1. Init => Inv
    BY InitialOK, InitialChips DEF Init, Inv, PaidOK, ChipsConserved
<1> QED
    BY <1>1, InvStep, PTL DEF Spec

\* Every field of the hand and every payout keeps its type, the deck is never
\* overdrawn and the board never overfull, for two to nine players.
THEOREM TypeCorrect == Spec => []TypeOK
<1>1. Inv => TypeOK
    <2>1. Inv => hand \in Hands
        BY DEF Inv, HandOK
    <2>2. Inv => DOMAIN paid \subseteq Seats /\ \A s \in DOMAIN paid : paid[s] \in Nat
        BY <2>1, PayoutTyped DEF Inv, PaidOK, NotPaid
    <2> QED
        BY <2>1, <2>2 DEF TypeOK
<1> QED
    BY <1>1, InvAlways, PTL

\* For any buy-in and any sequence of moves, all-in is having no chips behind.
THEOREM AllInIsBroke == Spec => []AllInMeansNoChips
<1>1. Inv => AllInMeansNoChips
    BY DEF Inv, HandOK, AllInOK, AllInMeansNoChips
<1> QED
    BY <1>1, InvAlways, PTL

\* The bet to match is the largest bet of a player still in, and one of them has
\* put it in, whoever folds or is all-in.
THEOREM LargestBet == Spec => []CurrentBetIsLargest
<1>1. Inv => CurrentBetIsLargest
    BY DEF Inv, HandOK, Largest, CurrentBetIsLargest
<1> QED
    BY <1>1, InvAlways, PTL

\* A showdown of two or more always has a board of at least three cards.
THEOREM ShowdownHasBoard == Spec => []ShowdownCanBeScored
<1>1. Inv => ShowdownCanBeScored
    BY DEF Inv, HandOK, ShowdownCanBeScored
<1> QED
    BY <1>1, InvAlways, PTL

\* The player to act can check, call or go all-in, and a player alone with chips
\* behind is asked only while it owes.
THEOREM ActorStays == Spec => []ActorCanStay
<1>1. Inv => ActorCanStay
    <2> SUFFICES ASSUME HandOK(hand), ~Terminal(hand)
                 PROVE  /\ \E m \in ValidActions(hand, hand.on) \cap {"check", "call", "all_in"} :
                              Applies(hand, hand.on, m, 0)
                        /\ Cardinality(Active(hand)) = 1 => ToCall(hand, hand.on) > 0
        BY DEF Inv, ActorCanStay
    <2> DEFINE o == hand.on
    <2>1. /\ o \in Active(hand) /\ hand.stack[o] \in Nat \ {0} /\ hand.bet[o] \in Nat /\ hand.current \in Nat
          /\ hand.status[o] = "active" /\ hand.bet[o] <= hand.current /\ o \in Unfolded(hand)
          /\ hand.stack \in [Seats -> Nat] /\ hand.bet \in [Seats -> Nat]
        BY HandTyped DEF HandOK, AllInOK, Active, Unfolded, Largest
    <2>2. ToCall(hand, o) = hand.current - hand.bet[o]
        BY <2>1 DEF ToCall
    <2>3. ASSUME ToCall(hand, o) = 0
          PROVE  \E m \in ValidActions(hand, o) \cap {"check", "call", "all_in"} : Applies(hand, o, m, 0)
        <3>1. "check" \in ValidActions(hand, o) /\ Applies(hand, o, "check", 0)
            BY <2>1, <2>3 DEF ValidActions, Applies, Moves
        <3> HIDE DEF o
        <3> QED
            BY <3>1
    <2>4. ASSUME ToCall(hand, o) > 0 /\ hand.stack[o] <= ToCall(hand, o)
          PROVE  \E m \in ValidActions(hand, o) \cap {"check", "call", "all_in"} : Applies(hand, o, m, 0)
        <3>1. "all_in" \in ValidActions(hand, o) /\ Applies(hand, o, "all_in", 0)
            BY <2>1, <2>4 DEF ValidActions, Applies, Moves
        <3> HIDE DEF o
        <3> QED
            BY <3>1
    <2>5. ASSUME ToCall(hand, o) > 0 /\ hand.stack[o] > ToCall(hand, o)
          PROVE  \E m \in ValidActions(hand, o) \cap {"check", "call", "all_in"} : Applies(hand, o, m, 0)
        <3>1. "call" \in ValidActions(hand, o) /\ Applies(hand, o, "call", 0)
            BY <2>1, <2>5 DEF ValidActions, Applies, Moves
        <3> HIDE DEF o
        <3> QED
            BY <3>1
    <2>6. ASSUME Cardinality(Active(hand)) = 1, hand.bet[o] = hand.current PROVE FALSE
        <3>1. PICK t \in Unfolded(hand) : t # o
            BY DEF HandOK
        <3>2. IsFiniteSet(Active(hand))
            BY OneUnfolded, FS_Subset DEF Active, Unfolded
        <3>3. t \notin Active(hand)
            BY <2>1, <2>6, <3>1, <3>2, FS_Singleton
        <3>4. t \in Seats /\ hand.stack[t] = 0 /\ hand.bet[t] <= hand.current
            BY <3>1, <3>3, HandTyped DEF HandOK, AllInOK, Active, Unfolded, Largest
        <3>5. hand.stack[t] + hand.bet[t] = hand.stack[o] + hand.bet[o]
            BY <2>1, <3>1 DEF HandOK, Level
        <3> QED
            BY <2>1, <2>6, <3>4, <3>5
    <2> QED
        <3>1. \E m \in ValidActions(hand, o) \cap {"check", "call", "all_in"} : Applies(hand, o, m, 0)
            <4> HIDE DEF o
            <4> QED
                BY <2>1, <2>2, <2>3, <2>4, <2>5
        <3>2. Cardinality(Active(hand)) = 1 => ToCall(hand, o) > 0
            BY <2>1, <2>2, <2>6
        <3> QED
            BY <3>1, <3>2
<1> QED
    BY <1>1, InvAlways, PTL

\* No hand goes round in circles, for any buy-in that makes the big blind a chip:
\* below 50 wei a bet of nothing is accepted.
THEOREM MovesProgress ==
    ASSUME BigBlind > 0
    PROVE  Spec => EveryMoveProgresses
<1>1. /\ \A h : h.phase = "pre_flop" => Street(h) = 0
      /\ \A h : h.phase = "flop" => Street(h) = 1
      /\ \A h : h.phase = "turn" => Street(h) = 2
      /\ \A h : h.phase = "river" => Street(h) = 3
      /\ \A h : h.phase = "completed" => Street(h) = 4
    BY DEF Street
<1> DEFINE Progress ==
               /\ hand'.pot >= hand.pot
               /\ Active(hand') \subseteq Active(hand)
               /\ Street(hand') >= Street(hand)
               /\ \/ hand'.pot > hand.pot
                  \/ Active(hand') # Active(hand)
                  \/ Street(hand') > Street(hand)
<1>2. ASSUME BigBlind > 0, Inv, NEW m, NEW x, ~Terminal(hand), Legal(hand, m, x),
             hand' = Applied(hand, hand.on, m, x)
      PROVE  Progress
    <2>1. /\ hand'.pot >= hand.pot /\ Active(hand') \subseteq Active(hand)
          /\ hand'.phase \in {hand.phase, Following(hand.phase), "completed"}
          /\ hand'.pot > hand.pot \/ Active(hand') # Active(hand) \/ hand'.phase # hand.phase
        BY <1>2, AppliedOK DEF Inv
    <2>2. hand.phase \in {"pre_flop", "flop", "turn", "river"}
        BY <1>2, HandTyped DEF Inv, HandOK, Terminal, Phases
    <2>3. Street(hand') >= Street(hand) /\ (hand'.phase # hand.phase => Street(hand') > Street(hand))
        <3> HIDE DEF Street
        <3> QED
            BY <1>1, <2>1, <2>2 DEF Following
    <2> QED
        BY <2>1, <2>3
<1>3. BigBlind > 0 /\ Inv /\ [Next]_vars => [Progress]_hand
    <2> SUFFICES ASSUME BigBlind > 0, Inv, [Next]_vars PROVE [Progress]_hand
        OBVIOUS
    <2> HIDE DEF Progress
    <2>1. ASSUME NEW s \in Seats, NEW m \in Moves, NEW x \in Amounts, Act(s, m, x) PROVE Progress
        BY <1>2, <2>1, ActIsLegal
    <2>2. CASE TimeOut
        BY <1>2, <2>2, TimeOutIsLegal
    <2>3. CASE Pay \/ UNCHANGED vars
        BY <2>3 DEF Pay, vars
    <2> QED
        BY <2>1, <2>2, <2>3 DEF Next
<1>4. Inv /\ [Next]_vars => [Progress]_hand
    BY <1>3
<1> QED
    BY <1>4, InvAlways, PTL DEF Spec, EveryMoveProgresses

----------------------------------------------------------------------------
(* The chips and the pot                                                   *)

\* No sequence of moves creates or loses a chip, for any number of players and
\* any buy-in.
THEOREM ChipsKept == Spec => []ChipsConserved
<1>1. Inv => ChipsConserved
    BY DEF Inv
<1> QED
    BY <1>1, InvAlways, PTL

\* Dividing by at most nine winners.
LEMMA DivMod ==
    ASSUME NEW n \in Nat, NEW k \in 1..9
    PROVE  (n \div k) * k + (n % k) = n /\ n \div k \in Nat /\ n % k \in Nat
<1>1. CASE k = 1
    BY <1>1
<1>2. CASE k = 2
    BY <1>2
<1>3. CASE k = 3
    BY <1>3
<1>4. CASE k = 4
    BY <1>4
<1>5. CASE k = 5
    BY <1>5
<1>6. CASE k = 6
    BY <1>6
<1>7. CASE k = 7
    BY <1>7
<1>8. CASE k = 8
    BY <1>8
<1>9. CASE k = 9
    BY <1>9
<1> QED
    BY <1>1, <1>2, <1>3, <1>4, <1>5, <1>6, <1>7, <1>8, <1>9

\* The rake is no more than a tenth, and what a pot leaves after it is no more
\* than what a larger pot leaves.
LEMMA RakeIs ==
    ASSUME NEW p \in Nat, NEW e \in Nat, p <= e
    PROVE  /\ Rake(p) \in Nat /\ Rake(p) <= p
           /\ p - Rake(p) + Rake(e) <= e
<1>1. RakeBps \in 0..1000
    BY TableAssumption
<1>2. PICK a, b : a = p * RakeBps /\ b = e * RakeBps
    OBVIOUS
<1>3. /\ a \in Nat /\ b \in Nat /\ a <= 10000 * p
    BY <1>1, <1>2
<1>4. b <= a + 10000 * (e - p)
    <2>1. PICK d \in Nat : e = p + d
        <3>1. e - p \in Nat /\ e = p + (e - p)
            OBVIOUS
        <3> QED
            BY <3>1
    <2>2. b = a + d * RakeBps
        BY <1>1, <1>2, <2>1
    <2>3. d * RakeBps <= d * 10000
        BY <1>1
    <2> QED
        BY <1>1, <1>3, <2>1, <2>2, <2>3
<1>5. Rake(p) = a \div 10000 /\ Rake(e) = b \div 10000
    BY <1>2 DEF Rake
<1>6. /\ a \div 10000 \in Nat /\ a \div 10000 <= p
      /\ b \div 10000 <= a \div 10000 + (e - p) /\ b \div 10000 \in Nat
    BY <1>3, <1>4
<1> QED
    BY <1>5, <1>6

\* Whatever the scores, somebody wins.
LEMMA SomebodyWins ==
    ASSUME NEW h, Unfolded(h) # {}, NEW score \in [Unfolded(h) -> Scores]
    PROVE  Winners(h, score) # {}
<1> DEFINE U == Unfolded(h)
           f == [s \in U |-> 0 - score[s]]
<1>1. \A s \in U : score[s] \in Nat
    BY TableAssumption
<1>2. f \in [U -> Int] /\ \A s \in U : f[s] = 0 - score[s]
    BY <1>1
<1>3. IsFiniteSet(U)
    BY OneUnfolded
<1> HIDE DEF U, f
<1>4. PICK s \in U : \A t \in U : f[s] <= f[t]
    BY <1>2, <1>3, HasLeast DEF U
<1>5. \A t \in U : score[t] <= score[s]
    BY <1>1, <1>2, <1>4
<1> QED
    BY <1>4, <1>5 DEF Winners, U

\* The payout gives every winner an amount, to the sum of the pot less the rake.
LEMMA PayoutIs ==
    ASSUME NEW h \in Hands, Unfolded(h) # {}, NEW score \in [Unfolded(h) -> Scores]
    PROVE  LET p == Payout(h, score) IN
           /\ DOMAIN p = Winners(h, score) /\ Winners(h, score) \subseteq Unfolded(h)
           /\ Total(p) = h.pot - Rake(h.pot)
           /\ \A s \in DOMAIN p : p[s] \in Nat /\ p[s] <= h.pot
<1> DEFINE w == Winners(h, score)
           left == h.pot - Rake(h.pot)
           k == Cardinality(w)
           share == left \div k
           rest == left % k
           first == CHOOSE s \in w : \A t \in w : s <= t
           p == Payout(h, score)
<1>1. w \subseteq Unfolded(h) /\ w \subseteq Seats
    BY DEF Winners, Unfolded
<1>2. w # {}
    BY SomebodyWins
<1>3. IsFiniteSet(w) /\ k \in 1..9
    <2>1. IsFiniteSet(w) /\ k <= N
        BY <1>1, SeatsFinite, FS_Subset
    <2>2. k \in Nat /\ k # 0
        BY <1>2, <2>1, FS_CardinalityType, FS_EmptySet
    <2> QED
        BY <2>1, <2>2, TableAssumption
<1>4. h.pot \in Nat /\ left \in Nat /\ left <= h.pot
    <2>1. h.pot \in Nat
        BY HandTyped
    <2>2. Rake(h.pot) \in Nat /\ Rake(h.pot) <= h.pot
        BY <2>1, RakeIs
    <2> QED
        BY <2>1, <2>2
<1>5. p = [s \in w |-> IF s = first THEN share + rest ELSE share]
    BY DEF Payout
<1> HIDE DEF w, p, left
<1>6. share * k + rest = left /\ share \in Nat /\ rest \in Nat
    BY <1>3, <1>4, DivMod
<1> HIDE DEF k, share, rest
<1>7. first \in w
    <2> DEFINE f == [s \in w |-> s]
    <2>1. f \in [w -> Int] /\ \A s \in w : f[s] = s
        BY <1>1, TableAssumption DEF Seats
    <2> HIDE DEF f
    <2>2. \E s \in w : \A t \in w : f[s] <= f[t]
        BY <1>2, <1>3, <2>1, HasLeast
    <2>3. \E s \in w : \A t \in w : s <= t
        BY <2>1, <2>2
    <2> QED
        BY <2>3
<1> HIDE DEF first
<1>8. Total(p) = left
    <2> DEFINE c == [s \in w |-> share]
               d == [s \in w |-> IF s = first THEN rest ELSE 0]
    <2>1. c \in [w -> Int] /\ d \in [w -> Int] /\ p \in [w -> Int]
        BY <1>5, <1>6
    <2>2. \A s \in w : p[s] = c[s] + d[s]
        BY <1>5, <1>6
    <2>3. c[first] = share /\ \A s \in w : c[s] = c[first]
        BY <1>7
    <2>4. d[first] = rest /\ \A s \in w \ {first} : d[s] = 0
        BY <1>7
    <2> HIDE DEF c, d
    <2>5. Total(c) = share * k
        BY <1>3, <1>7, <2>1, <2>3, TotalConstant DEF k
    <2>6. Total(d) = rest
        BY <1>3, <1>7, <2>1, <2>4, TotalSingle
    <2>7. Total(p) = Total(c) + Total(d)
        BY <1>3, <2>1, <2>2, TotalAdds
    <2> QED
        BY <1>6, <2>5, <2>6, <2>7
<1>9. share + rest <= left
    <2>1. share <= share * k
        BY <1>3, <1>6
    <2>2. share * k \in Nat
        BY <1>3, <1>6
    <2> QED
        BY <1>4, <1>6, <2>1, <2>2
<1>10. \A s \in DOMAIN p : p[s] \in Nat /\ p[s] <= h.pot
    BY <1>4, <1>5, <1>6, <1>9
<1> QED
    BY <1>1, <1>5, <1>8, <1>10 DEF w, p, left

\* The pot is what the stacks lack of the escrow.
LEMMA PotIs ==
    ASSUME NEW h \in Hands, Chips(h) = Escrow
    PROVE  /\ h.pot \in Nat /\ Escrow \in Nat /\ h.pot <= Escrow
           /\ Total([t \in Seats |-> BuyIn - h.stack[t]]) = h.pot
<1> DEFINE f == h.stack
           in == [t \in Seats |-> BuyIn - h.stack[t]]
           c == [t \in Seats |-> BuyIn]
           z == [t \in Seats |-> 0]
<1>1. h.pot \in Nat /\ f \in [Seats -> Nat]
    BY HandTyped
<1>2. N \in 2..9 /\ BuyIn \in Nat /\ 1 \in Seats
    BY TableAssumption DEF Seats
<1>3. IsFiniteSet(Seats) /\ Cardinality(Seats) = N
    BY SeatsFinite
<1> HIDE DEF Seats
<1>4. f \in [Seats -> Int] /\ in \in [Seats -> Int] /\ c \in [Seats -> Int] /\ z \in [Seats -> Int]
    BY <1>1, <1>2
<1>5. \A t \in Seats : c[t] = in[t] + f[t]
    BY <1>1, <1>2
<1>6. /\ c[1] = BuyIn /\ \A t \in Seats : c[t] = c[1]
      /\ z[1] = 0 /\ \A t \in Seats : z[t] = z[1]
    BY <1>2
<1>7. \A t \in Seats : z[t] <= f[t]
    BY <1>1
<1>8. Total(f) + h.pot = N * BuyIn
    BY DEF Chips, Escrow
<1> HIDE DEF f, in, c, z
<1>9. Total(c) = Total(in) + Total(f) /\ Total(in) \in Int /\ Total(f) \in Int
    BY <1>3, <1>4, <1>5, TotalAdds
<1>10. Total(c) = BuyIn * N
    BY <1>2, <1>3, <1>4, <1>6, TotalConstant
<1>11. Total(z) = 0
    <2>1. Total(z) = z[1] * N
        BY <1>2, <1>3, <1>4, <1>6, TotalConstant
    <2> QED
        BY <1>2, <1>6, <2>1
<1>12. Total(z) <= Total(f)
    BY <1>3, <1>4, <1>7, TotalMonotone
<1>13. N * BuyIn \in Nat /\ BuyIn * N = N * BuyIn
    BY <1>2
<1>14. Total(in) = h.pot /\ h.pot <= Escrow /\ Escrow \in Nat
    BY <1>1, <1>8, <1>9, <1>10, <1>11, <1>12, <1>13 DEF Escrow
<1> QED
    BY <1>1, <1>14 DEF in

\* The winners share the pot less the rake to the wei, the escrow holds what they
\* get and its own rake, and no winner gets more of a player's chips than it put
\* in itself: at the end nobody has put in more than a player still in, so the
\* side pots result() does not know are never needed.
THEOREM PotPaidOut == Spec => []PotIsPaidOut
<1>1. Inv => PotIsPaidOut
    <2> SUFFICES ASSUME Inv, paid # NotPaid
                 PROVE  /\ Total(paid) + Rake(hand.pot) = hand.pot
                        /\ DOMAIN paid \subseteq Unfolded(hand)
                        /\ Total(paid) + Rake(Escrow) <= Escrow
                        /\ \A s \in DOMAIN paid : paid[s] <= Matched(s)
        BY DEF PotIsPaidOut
    <2>1. PICK score \in [Unfolded(hand) -> Scores] : paid = Payout(hand, score)
        BY DEF Inv, PaidOK
    <2>2. HandOK(hand) /\ ChipsConserved /\ Terminal(hand) /\ hand \in Hands /\ Unfolded(hand) # {}
        BY DEF Inv, PaidOK, HandOK
    <2>3. /\ hand.pot \in Nat /\ Escrow \in Nat /\ hand.pot <= Escrow
          /\ Total([t \in Seats |-> BuyIn - hand.stack[t]]) = hand.pot
        BY <2>2, PotIs DEF ChipsConserved, Chips
    <2>4. /\ DOMAIN paid \subseteq Unfolded(hand)
          /\ Total(paid) = hand.pot - Rake(hand.pot)
          /\ \A s \in DOMAIN paid : paid[s] \in Nat /\ paid[s] <= hand.pot
        BY <2>1, <2>2, PayoutIs
    <2>5. /\ Rake(hand.pot) \in Nat /\ Rake(hand.pot) <= hand.pot
          /\ hand.pot - Rake(hand.pot) + Rake(Escrow) <= Escrow
        BY <2>3, RakeIs
    <2>6. ASSUME NEW s \in DOMAIN paid PROVE Matched(s) = hand.pot
        <3>1. s \in Unfolded(hand) /\ s \in Seats
            BY <2>4, <2>6 DEF Unfolded
        <3>2. hand.stack \in [Seats -> Nat] /\ BuyIn \in Nat
            BY <2>2, HandTyped, TableAssumption
        <3>3. \A t \in Seats : hand.stack[s] <= hand.stack[t]
            BY <2>2, <3>1 DEF HandOK, Covered
        <3>4. \A t \in Seats : BuyIn - hand.stack[t] <= BuyIn - hand.stack[s]
            BY <3>1, <3>2, <3>3
        <3>5. [t \in Seats |-> IF BuyIn - hand.stack[t] <= BuyIn - hand.stack[s]
                               THEN BuyIn - hand.stack[t] ELSE BuyIn - hand.stack[s]]
                = [t \in Seats |-> BuyIn - hand.stack[t]]
            BY <3>4
        <3> QED
            BY <2>3, <3>5 DEF Matched
    <2> QED
        BY <2>3, <2>4, <2>5, <2>6
<1> QED
    BY <1>1, InvAlways, PTL

----------------------------------------------------------------------------
(* Served by the game service                                              *)

\* What any accepted move leaves, whoever makes it and whenever: the mover's
\* chips go into the pot, and the turn number counts it.
LEMMA MovedIs ==
    ASSUME NEW h \in Hands, NEW s \in Seats, NEW m \in Moves, NEW x \in Nat, Applies(h, s, m, x)
    PROVE  LET g == Moved(h, s, m, x) IN
           /\ g \in Hands /\ Chips(g) = Chips(h) /\ g.turn = h.turn + 1
           /\ g.phase = h.phase /\ g.deck = h.deck /\ g.community = h.community
<1> DEFINE g == Moved(h, s, m, x)
           k == Spent(h, s, m, x)
           st == StatusAfter(h, s, m, x)
           c == IF Raises(h, s, m, x) THEN h.bet[s] + k ELSE h.current
           a == IF Raises(h, s, m, x) THEN s ELSE h.aggressor
<1>0. /\ h.stack \in [Seats -> Nat] /\ h.bet \in [Seats -> Nat]
      /\ h.status \in [Seats -> {"active", "all_in", "folded"}]
      /\ h.pot \in Nat /\ h.current \in Nat /\ h.turn \in Nat \ {0} /\ h.aggressor \in Seats
    BY HandTyped
<1>1. k \in Nat /\ k <= h.stack[s]
    <2>1. ToCall(h, s) \in Nat
        BY <1>0 DEF ToCall
    <2> QED
        BY <1>0, <2>1 DEF Spent, Applies, Moves
<1>2. st \in {"active", "all_in", "folded"}
    BY <1>0 DEF StatusAfter
<1>3. c \in Nat /\ a \in Seats
    <2> HIDE DEF k
    <2> QED
        BY <1>0, <1>1
<1>4. g = [h EXCEPT !.stack = [h.stack EXCEPT ![s] = @ - k],
                    !.bet = [h.bet EXCEPT ![s] = @ + k],
                    !.pot = h.pot + k,
                    !.status = [h.status EXCEPT ![s] = st],
                    !.current = c, !.aggressor = a, !.turn = h.turn + 1]
    BY DEF Moved, Hands
<1> HIDE DEF k, st, c, a, g
<1>5. /\ g.phase = h.phase /\ g.deck = h.deck /\ g.community = h.community
      /\ g.pot = h.pot + k /\ g.turn = h.turn + 1
      /\ g.stack = [h.stack EXCEPT ![s] = @ - k]
    BY <1>4 DEF Hands
<1>6. h.stack[s] - k \in Nat
    BY <1>0, <1>1
<1>7. /\ [h.stack EXCEPT ![s] = @ - k] \in [Seats -> Nat]
      /\ [h.bet EXCEPT ![s] = @ + k] \in [Seats -> Nat]
      /\ [h.status EXCEPT ![s] = st] \in [Seats -> {"active", "all_in", "folded"}]
      /\ h.pot + k \in Nat /\ h.turn + 1 \in Nat \ {0}
    BY <1>0, <1>1, <1>2, <1>6
<1>8. g \in Hands
    <2> DEFINE b == [h EXCEPT !.stack = [h.stack EXCEPT ![s] = @ - k]]
               d == [b EXCEPT !.bet = [h.bet EXCEPT ![s] = @ + k]]
               e == [d EXCEPT !.pot = h.pot + k]
               f == [e EXCEPT !.status = [h.status EXCEPT ![s] = st]]
               i == [f EXCEPT !.current = c]
               j == [i EXCEPT !.aggressor = a]
    <2>1. g = [j EXCEPT !.turn = h.turn + 1]
        BY <1>4 DEF Hands
    <2>2. b \in Hands
        BY <1>7, FieldSet
    <2> HIDE DEF b
    <2>3. d \in Hands
        BY <1>7, <2>2, FieldSet
    <2> HIDE DEF d
    <2>4. e \in Hands
        BY <1>7, <2>3, FieldSet
    <2> HIDE DEF e
    <2>5. f \in Hands
        BY <1>7, <2>4, FieldSet
    <2> HIDE DEF f
    <2>6. i \in Hands
        BY <1>3, <2>5, FieldSet
    <2> HIDE DEF i
    <2>7. j \in Hands
        BY <1>3, <2>6, FieldSet
    <2> HIDE DEF j
    <2> QED
        BY <1>7, <2>1, <2>7, FieldSet
<1>9. Chips(g) = Chips(h)
    <2>1. /\ g.stack \in [Seats -> Nat] /\ \A t \in Seats \ {s} : g.stack[t] = h.stack[t]
          /\ g.stack[s] = h.stack[s] - k
        BY <1>0, <1>5, <1>7
    <2>2. /\ Total(g.stack) = Total(h.stack) + (g.stack[s] - h.stack[s])
          /\ Total(h.stack) \in Int
        BY <1>0, <2>1, TotalChanges
    <2>3. h.stack[s] \in Nat
        BY <1>0
    <2> QED
        BY <1>0, <1>1, <1>5, <2>1, <2>2, <2>3 DEF Chips
<1> QED
    BY <1>5, <1>8, <1>9 DEF g

\* advance_action keeps chips and turn number, and board and deck go together,
\* also when the hand was over already.
LEMMA AdvancedIs ==
    ASSUME NEW g \in Hands, Board(g)
    PROVE  LET n == Advanced(g) IN
           n \in Hands /\ Board(n) /\ Chips(n) = Chips(g) /\ n.turn = g.turn
<1> DEFINE p == Following(g.phase)
<1>0. /\ g.phase \in Phases /\ g.deck \in Nat /\ g.community \in 0..5
      /\ g.bet \in [Seats -> Nat] /\ g.current \in Nat /\ g.on \in Seats
    BY HandTyped
<1>1. N \in 2..9 /\ DealerSeat \in Seats
    BY TableAssumption DEF Seats, DealerSeat
<1>2. CASE Cardinality(Unfolded(g)) = 1
    <2> DEFINE n == [g EXCEPT !.phase = "completed"]
    <2>1. Advanced(g) = n
        BY <1>2 DEF Advanced
    <2>2. n \in Hands
        BY FieldSet DEF Phases
    <2>3. n.phase = "completed" /\ n.stack = g.stack /\ n.pot = g.pot /\ n.turn = g.turn
        BY DEF Hands
    <2> HIDE DEF n
    <2> QED
        BY <2>1, <2>2, <2>3 DEF Board, Chips
<1>3. CASE Cardinality(Unfolded(g)) # 1 /\ RoundComplete(g)
    <2> DEFINE n == NextPhase(g)
    <2>1. Advanced(g) = n
        BY <1>3 DEF Advanced
    <2>2. /\ n.phase = IF Active(g) = {} THEN "completed" ELSE p
          /\ n.bet = [s \in Seats |-> IF s \in Unfolded(g) THEN 0 ELSE g.bet[s]]
          /\ n.community = g.community + Dealt(p)
          /\ n.deck = g.deck - Dealt(p) - Burnt(p)
          /\ n.on = IF p = "completed" \/ Active(g) = {} THEN g.on ELSE NextActive(g, DealerSeat)
          /\ n.stack = g.stack /\ n.pot = g.pot /\ n.turn = g.turn
        BY DEF NextPhase, Hands
    <2>3. n.on \in Seats
        BY <1>0, <1>1, <2>2, NextActiveIs DEF Active
    <2>4. /\ p = "flop" => n.community = 3 /\ n.deck = 48 - 2 * N
          /\ p = "turn" => n.community = 4 /\ n.deck = 46 - 2 * N
          /\ p = "river" => n.community = 5 /\ n.deck = 44 - 2 * N
          /\ p = "completed" => n.community = g.community /\ n.deck = g.deck
          /\ p \in {"flop", "turn", "river", "completed"}
        BY <1>0, <1>1, <2>2 DEF Board, Phases, Following, Dealt, Burnt
    <2>5. n.phase \in Phases /\ n.bet \in [Seats -> Nat] /\ n.community \in 0..5 /\ n.deck \in Nat
        BY <1>0, <1>1, <2>2, <2>4 DEF Phases
    <2>6. n \in Hands
        <3> DEFINE b == [g EXCEPT !.phase = n.phase]
                   c == [b EXCEPT !.bet = n.bet]
                   d == [c EXCEPT !.current = 0]
                   e == [d EXCEPT !.community = n.community]
                   f == [e EXCEPT !.deck = n.deck]
        <3>1. n = [f EXCEPT !.on = n.on]
            BY <1>0 DEF NextPhase, Hands
        <3> HIDE DEF n
        <3>2. b \in Hands
            BY <2>5, FieldSet
        <3> HIDE DEF b
        <3>3. c \in Hands
            BY <2>5, <3>2, FieldSet
        <3> HIDE DEF c
        <3>4. d \in Hands
            BY <3>3, FieldSet
        <3> HIDE DEF d
        <3>5. e \in Hands
            BY <2>5, <3>4, FieldSet
        <3> HIDE DEF e
        <3>6. f \in Hands
            BY <2>5, <3>5, FieldSet
        <3> HIDE DEF f
        <3> QED
            BY <2>3, <3>1, <3>6, FieldSet
    <2> HIDE DEF n, p
    <2>7. Board(n) /\ Chips(n) = Chips(g)
        BY <2>2, <2>4 DEF Board, Chips
    <2> QED
        BY <2>1, <2>2, <2>6, <2>7
<1>4. CASE Cardinality(Unfolded(g)) # 1 /\ ~RoundComplete(g)
    <2> DEFINE q == NextActive(g, g.on)
               n == [g EXCEPT !.on = q]
    <2>1. Advanced(g) = n
        BY <1>4 DEF Advanced
    <2>2. Active(g) # {}
        BY <1>4 DEF RoundComplete
    <2>3. q \in Seats
        BY <1>0, <2>2, NextActiveIs DEF Active
    <2> HIDE DEF q
    <2>4. n \in Hands
        BY <2>3, FieldSet
    <2>5. /\ n.phase = g.phase /\ n.deck = g.deck /\ n.community = g.community
          /\ n.stack = g.stack /\ n.pot = g.pot /\ n.turn = g.turn
        BY DEF Hands
    <2> HIDE DEF n
    <2> QED
        BY <2>1, <2>4, <2>5 DEF Board, Chips
<1> QED
    BY <1>2, <1>3, <1>4

LEMMA ApplyTyped ==
    ASSUME NEW h \in Positions, NEW s \in Seats, NEW move \in Actions, Accepts(h, s, move)
    PROVE  Apply(h, s, move) \in Positions /\ TurnNumber(Apply(h, s, move)) = TurnNumber(h) + 1
<1> DEFINE m == move[1]
           x == move[2]
           g == Moved(h, s, m, x)
<1>1. m \in Moves /\ x \in Nat /\ Applies(h, s, m, x) /\ h \in Hands
    BY TableAssumption DEF Actions, Accepts, Positions
<1>2. /\ g \in Hands /\ Chips(g) = Chips(h) /\ g.turn = h.turn + 1
      /\ g.phase = h.phase /\ g.deck = h.deck /\ g.community = h.community
    BY <1>1, MovedIs
<1> HIDE DEF g
<1>3. Board(g)
    BY <1>2 DEF Positions, Board
<1>4. LET n == Advanced(g) IN n \in Hands /\ Board(n) /\ Chips(n) = Chips(g) /\ n.turn = g.turn
    BY <1>2, <1>3, AdvancedIs
<1>5. Apply(h, s, move) = Advanced(g)
    BY DEF Apply, Applied, g
<1> QED
    BY <1>2, <1>4, <1>5 DEF Positions, TurnNumber

\* Hold'em keeps the rules that the service asks of a game.
LEMMA RulesHold ==
    ASSUME MatchOK
    PROVE  Service!RulesAssumption
<1>1. 0 \notin Seats /\ N + 1 \notin Seats \cup {0}
    BY TableAssumption DEF Seats
<1>2. NotPaid \notin Positions
    <2> SUFFICES ASSUME NotPaid \in Hands PROVE FALSE
        BY DEF Positions
    <2>1. DOMAIN NotPaid = {}
        BY DEF NotPaid
    <2>2. "phase" \in DOMAIN NotPaid
        BY DEF Hands
    <2> QED
        BY <2>1, <2>2
<1>3. TimeoutAction \in Actions
    BY DEF MatchOK, TimeoutAction, Actions, TimeoutMove, Moves
<1>4. InitialHand \in Positions /\ TurnNumber(InitialHand) = 1
    BY InitialOK, InitialChips DEF Positions, Chips, HandOK, InitialHand, TurnNumber
<1>5. ASSUME NEW h \in Positions
      PROVE  /\ Actor(h) \in Seats \cup {0} /\ TurnNumber(h) \in Nat
             /\ Terminal(h) \in BOOLEAN /\ Pays(h) \in BOOLEAN /\ (Pays(h) => Terminal(h))
    BY HandTyped DEF Positions, Actor, TurnNumber, Terminal, Pays
<1>6. ASSUME NEW h \in Positions, NEW s \in Seats, NEW move \in Actions
      PROVE  /\ Valid(h, s, move) => ~Terminal(h)
             /\ Accepts(h, s, move) => /\ Apply(h, s, move) \in Positions
                                       /\ TurnNumber(Apply(h, s, move)) = TurnNumber(h) + 1
    BY ApplyTyped DEF Valid, ValidActions
<1> QED
    BY <1>1, <1>2, <1>3, <1>4, <1>5, <1>6 DEF MatchOK, Service!RulesAssumption

LEMMA FlagsHold ==
    ASSUME MatchOK
    PROVE  Service!FlagsAssumption
    BY DEF MatchOK, Service!FlagsAssumption

\* Whatever races, fails or times out, no position of a game of hold'em that
\* the service keeps has lost or gained a chip.
THEOREM ChipsAreServed ==
    ASSUME MatchOK
    PROVE  Service!Spec => []ChipsServed
<1>1. Service!Spec => []Service!TypeOK
    BY RulesHold, FlagsHold, Service!TypeCorrect, PTL
<1>2. Service!TypeOK => ChipsServed
    BY DEF Service!TypeOK, Service!Row, Service!Entry, ChipsServed, Positions
<1> QED
    BY <1>1, <1>2, PTL

\* Nor does any payout the service may decide on spend more than the pot of the
\* position it is taken from, or go to a player who is out of it, even where a
\* timeout that raced a request has put an unlogged position into the row.
THEOREM AnyPayoutIsCovered ==
    ASSUME MatchOK
    PROVE  Service!Spec => []PayoutCovered
<1>1. Service!Spec => [](Service!TypeOK /\ (result # NotPaid => Pays(result)))
    BY RulesHold, FlagsHold, Service!TypeCorrect, Service!ResultIsPayable, PTL
<1>2. Service!TypeOK /\ (result # NotPaid => Pays(result)) => PayoutCovered
    <2> SUFFICES ASSUME Service!TypeOK, Pays(result), result # NotPaid
                 PROVE  LET p == Payout(result, Verdict[result]) IN
                        /\ Total(p) + Rake(result.pot) = result.pot
                        /\ DOMAIN p \subseteq Unfolded(result)
                        /\ Total(p) + Rake(Escrow) <= Escrow
        BY DEF PayoutCovered
    <2>1. /\ result \in Hands /\ Chips(result) = Escrow /\ Unfolded(result) # {}
          /\ Verdict[result] \in [Unfolded(result) -> Scores]
        BY DEF Service!TypeOK, Positions, MatchOK, Pays
    <2>2. result.pot \in Nat /\ Escrow \in Nat /\ result.pot <= Escrow
        BY <2>1, PotIs
    <2>3. LET p == Payout(result, Verdict[result]) IN
          DOMAIN p \subseteq Unfolded(result) /\ Total(p) = result.pot - Rake(result.pot)
        BY <2>1, PayoutIs
    <2>4. /\ Rake(result.pot) \in Nat /\ Rake(Escrow) \in Nat
          /\ result.pot - Rake(result.pot) + Rake(Escrow) <= Escrow
        BY <2>2, RakeIs
    <2> QED
        BY <2>2, <2>3, <2>4
<1> QED
    BY <1>1, <1>2, PTL

\* Played counts the log when it has no gap.
LEMMA PlayedIs ==
    ASSUME NEW n \in Nat, DOMAIN log = 1..n
    PROVE  Played = n
<1>1. n \in {0} \cup DOMAIN log /\ \A k \in DOMAIN log : k <= n
    BY DEF Played
<1>2. ASSUME NEW i \in {0} \cup DOMAIN log, \A k \in DOMAIN log : k <= i
      PROVE  i = n
    BY <1>2
<1> QED
    BY <1>1, <1>2 DEF Played

\* A move of the ledger is a move of the hand.
LEMMA PlayActs ==
    ASSUME MatchOK, Service!TypeOK, Shows, Shows',
           NEW s \in Seats, NEW move \in Actions, Service!Ledger!Play(s, move)
    PROVE  Act(s, move[1], move[2])
<1>1. PICK n \in {0} \cup DOMAIN log :
          /\ DOMAIN log = 1..n
          /\ Valid(Service!Ledger!PositionAfter(n), s, move)
          /\ Accepts(Service!Ledger!PositionAfter(n), s, move)
          /\ log' = [k \in 1..(n + 1) |->
                        IF k <= n THEN log[k]
                        ELSE [agent |-> s, action |-> move,
                              state |-> Apply(Service!Ledger!PositionAfter(n), s, move)]]
          /\ UNCHANGED result
    BY DEF Service!Ledger!Play
<1>2. n \in Nat
    BY DEF Service!TypeOK
<1>3. Played = n /\ Service!Ledger!PositionAfter(n) = hand
    BY <1>1, <1>2, PlayedIs
       DEF Shows, Service!LoggedPosition, Service!Ledger!PositionAfter
<1>4. DOMAIN log' = 1..(n + 1) /\ log'[n + 1].state = Apply(hand, s, move)
    BY <1>1, <1>2, <1>3
<1>5. Played' = n + 1
    <2>1. n + 1 \in {0} \cup DOMAIN log' /\ \A k \in DOMAIN log' : k <= n + 1
        BY <1>2, <1>4
    <2>2. ASSUME NEW i \in {0} \cup DOMAIN log', \A k \in DOMAIN log' : k <= i
          PROVE  i = n + 1
        <3>1. n + 1 <= i /\ i \in {0} \cup 1..(n + 1)
            BY <1>2, <1>4, <2>2
        <3> QED
            BY <1>2, <3>1
    <2> QED
        BY <2>1, <2>2 DEF Played
<1>6. hand' = Apply(hand, s, move)
    BY <1>2, <1>4, <1>5 DEF Shows, Service!LoggedPosition
<1>7. UNCHANGED paid
    BY <1>1 DEF Shows
<1> QED
    BY <1>1, <1>3, <1>6, <1>7 DEF Act, Valid, Accepts, Apply

\* The ledger's payout is the hand's.
LEMMA PayPays ==
    ASSUME MatchOK, Service!TypeOK, Shows, Shows', Service!TypeOK',
           (result # NotPaid => Pays(result))', Service!Ledger!Pay
    PROVE  Pay
<1>1. PICK n \in {0} \cup DOMAIN log :
          /\ DOMAIN log = 1..n
          /\ result = NotPaid
          /\ Terminal(Service!Ledger!PositionAfter(n))
          /\ result' = Service!Ledger!PositionAfter(n)
          /\ UNCHANGED log
    BY DEF Service!Ledger!Pay
<1>2. n \in Nat
    BY DEF Service!TypeOK
<1>3. Played = n /\ Service!Ledger!PositionAfter(n) = hand
    BY <1>1, <1>2, PlayedIs
       DEF Shows, Service!LoggedPosition, Service!Ledger!PositionAfter
<1>4. hand \in Positions /\ hand # NotPaid
    <2>1. InitialHand \in Positions /\ NotPaid \notin Positions
        BY RulesHold DEF Service!RulesAssumption
    <2> QED
        BY <1>1, <1>2, <1>3, <2>1
           DEF Service!TypeOK, Service!Entry, Service!Ledger!PositionAfter
<1>5. Pays(hand)
    BY <1>1, <1>3, <1>4 DEF Pays
<1>6. UNCHANGED hand
    BY <1>1 DEF Shows, Played, Service!LoggedPosition
<1>7. paid = NotPaid /\ paid' = Payout(hand, Verdict[hand])
    BY <1>1, <1>3, <1>4 DEF Shows
<1>8. Verdict[hand] \in [Unfolded(hand) -> Scores]
    BY <1>4 DEF MatchOK
<1> QED
    BY <1>5, <1>6, <1>7, <1>8 DEF Pay, Pays

\* While no turn times out, what the service's log and result show is a hand of
\* hold'em as TexasHoldem specifies it: every await of every handler is a move of
\* the player it names, the payout, or nothing to the hand.
THEOREM MatchIsPlayed ==
    ASSUME MatchOK, ~TurnsTimeOut
    PROVE  Service!Spec /\ []Shows => Spec
<1> DEFINE Payable == result # NotPaid => Pays(result)
<1>1. Service!Spec => [](Service!TypeOK /\ Payable)
    BY RulesHold, FlagsHold, Service!TypeCorrect, Service!ResultIsPayable, PTL
<1>2. Service!Spec => Service!Ledger!Spec
    BY RulesHold, FlagsHold, Service!LedgerImplemented DEF Service!ImplementsLedger
<1>3. Service!Ledger!Init /\ Shows => Init
    <2> SUFFICES ASSUME Service!Ledger!Init, Shows PROVE Init
        OBVIOUS
    <2>1. DOMAIN log = 1..0 /\ result = NotPaid
        BY DEF Service!Ledger!Init
    <2>2. Played = 0
        BY <2>1, PlayedIs
    <2> QED
        BY <2>1, <2>2 DEF Shows, Init, Service!LoggedPosition
<1>4. ASSUME Service!TypeOK, Shows, Service!TypeOK', Shows', Payable',
             [Service!Ledger!Next]_(Service!Ledger!vars)
      PROVE  [Next]_<<hand, paid>>
    <2>1. ASSUME NEW s \in Seats, NEW move \in Actions, Service!Ledger!Play(s, move)
          PROVE  Next
        <3>1. move[1] \in Moves /\ move[2] \in Amounts
            BY DEF Actions
        <3> QED
            BY <1>4, <2>1, <3>1, PlayActs DEF Next
    <2>2. CASE Service!Ledger!Pay
        BY <1>4, <2>2, PayPays DEF Next
    <2>3. CASE UNCHANGED <<log, result>>
        BY <1>4, <2>3 DEF Shows, Played, Service!LoggedPosition
    <2> QED
        BY <1>4, <2>1, <2>2, <2>3 DEF Service!Ledger!Next, Service!Ledger!vars
<1> QED
    BY <1>1, <1>2, <1>3, <1>4, PTL DEF Spec, Service!Ledger!Spec, vars

\* What a hand that the service plays and pays out keeps while no turn times
\* out, whatever requests race, crash or fail: its chips, a player to act that
\* can stay, a showdown that can be scored, and a payout to the wei.
THEOREM MatchPaysThePot ==
    ASSUME MatchOK, ~TurnsTimeOut
    PROVE  Service!Spec /\ []Shows =>
               [](ChipsConserved /\ ActorCanStay /\ ShowdownCanBeScored /\ PotIsPaidOut)
    BY MatchIsPlayed, ChipsKept, ActorStays, ShowdownHasBoard, PotPaidOut, PTL

============================================================================
