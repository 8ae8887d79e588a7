--------------------------- MODULE HandEvaluator ---------------------------
(***************************************************************************)
(* The scoring of poker hands in games/texas_holdem_v1/hand_evaluator.rs:  *)
(* evaluate_five packs the category of five cards and their ranks into one *)
(* number, evaluate_best_hand takes the largest number of the fives among  *)
(* five to seven cards, and the winners of a pot are those with the        *)
(* largest.  A card is a pair of a rank, 2 to 14 (ace), and a suit.        *)
(*                                                                         *)
(* Hands are shown one after the other; what is compared with the rules of *)
(* poker, stated at the end without a score, is the hands shown so far.    *)
(***************************************************************************)
EXTENDS Integers, Sequences, FiniteSets, FiniteSetsExt

CONSTANT Hands      \* hands of five cards that may be shown

\* The enum HandRank, by its discriminants.
HighCard == 0
OnePair == 1
TwoPair == 2
ThreeOfAKind == 3
Straight == 4
Flush == 5
FullHouse == 6
FourOfAKind == 7
StraightFlush == 8
RoyalFlush == 9

Suits == {"h", "d", "c", "s"}
Deck == (2..14) \X Suits

ASSUME HandsAssumption ==
  \A hand \in Hands : hand \subseteq Deck /\ Cardinality(hand) = 5

VARIABLE shown      \* the hands shown, in order

----------------------------------------------------------------------------
(* evaluate_five                                                           *)

Ranks(hand) == {card[1] : card \in hand}
Count(hand, rank) == Cardinality({card \in hand : card[1] = rank})
\* How many ranks occur n times.
Groups(hand, n) == Cardinality({rank \in Ranks(hand) : Count(hand, rank) = n})

IsFlush(hand) == Cardinality({card[2] : card \in hand}) = 1
IsWheel(hand) == Ranks(hand) = {14, 5, 4, 3, 2}
IsStraight(hand) ==
  /\ ~IsWheel(hand)
  /\ Max(Ranks(hand)) - Min(Ranks(hand)) = 4
  /\ Cardinality(Ranks(hand)) = 5

\* What the branches of evaluate_five ask of a hand; they are tried from the
\* highest category down, so the hand gets the largest that it makes.
Makes(hand, category) ==
  LET runs == IsStraight(hand) \/ IsWheel(hand)
  IN  \/ category = RoyalFlush /\ IsFlush(hand) /\ IsStraight(hand) /\ 14 \in Ranks(hand)
      \/ category = StraightFlush /\ IsFlush(hand) /\ runs
      \/ category = FourOfAKind /\ Groups(hand, 4) = 1
      \/ category = FullHouse /\ Groups(hand, 3) = 1 /\ Groups(hand, 2) = 1
      \/ category = Flush /\ IsFlush(hand)
      \/ category = Straight /\ runs
      \/ category = ThreeOfAKind /\ Groups(hand, 3) = 1
      \/ category = TwoPair /\ Groups(hand, 2) = 2
      \/ category = OnePair /\ Groups(hand, 2) >= 1
      \/ category = HighCard

Category(hand) == Max({category \in HighCard..RoyalFlush : Makes(hand, category)})

\* Mutant: the ranks are packed by value alone, whatever their frequency.
AheadByValue(hand, rank) == {other \in Ranks(hand) : other > rank}

\* freq is sorted by frequency and then by value, the highest first.
Ahead(hand, rank) ==
  {other \in Ranks(hand) : \/ Count(hand, other) > Count(hand, rank)
                           \/ Count(hand, other) = Count(hand, rank) /\ other > rank}

\* priority_ranks[i], and the zero bits of a place that no rank takes.
Priority(hand, i) ==
  Max({0} \cup {rank \in Ranks(hand) : Cardinality(Ahead(hand, rank)) = i})

\* Four bits each from the top of twenty.
Kicker(hand) ==
  65536 * Priority(hand, 0) + 4096 * Priority(hand, 1) + 256 * Priority(hand, 2)
    + 16 * Priority(hand, 3) + Priority(hand, 4)

Score(hand) ==
  LET category == Category(hand)
      run == category \in {Straight, StraightFlush}
  IN  IF run /\ IsWheel(hand)
      THEN TwoPair * 10000000 + 6
      ELSE category * 10000000 + (IF run THEN Max(Ranks(hand)) ELSE Kicker(hand))

(* evaluate_best_hand                                                      *)

\* Mutant: the loops end before the last card.
BestButLast(cards) ==
  LET last == CHOOSE card \in cards : \A other \in cards : card[1] >= other[1]
  IN  Max({Score(five) : five \in kSubset(5, IF Cardinality(cards) > 5 THEN cards \ {last} ELSE cards)})

Best(cards) == Max({Score(five) : five \in kSubset(5, cards)})

----------------------------------------------------------------------------
Init == shown = <<>>

Show(hand) ==
  /\ Len(shown) < 2
  /\ shown' = Append(shown, hand)

Next == \E hand \in Hands : Show(hand)

Spec == Init /\ [][Next]_shown

----------------------------------------------------------------------------
(* Poker's own order of five cards, without scores: a category by the shape *)
(* of the hand, then the first group of ranks in which two hands differ.    *)

PokerCategory(hand) ==
  LET distinct == Cardinality(Ranks(hand))
      most == Max({Count(hand, rank) : rank \in Ranks(hand)})
      consecutive == distinct = 5 /\ (IsWheel(hand) \/ \E low \in 2..10 : Ranks(hand) = low..low + 4)
      oneSuit == \E suit \in Suits : hand \subseteq (2..14) \X {suit}
  IN  CASE oneSuit /\ Ranks(hand) = 10..14      -> RoyalFlush
        [] oneSuit /\ consecutive /\ Ranks(hand) # 10..14 -> StraightFlush
        [] distinct = 2 /\ most = 4             -> FourOfAKind
        [] distinct = 2 /\ most = 3             -> FullHouse
        [] oneSuit /\ ~consecutive              -> Flush
        [] ~oneSuit /\ consecutive              -> Straight
        [] distinct = 3 /\ most = 3             -> ThreeOfAKind
        [] distinct = 3 /\ most = 2             -> TwoPair
        [] distinct = 4                         -> OnePair
        [] distinct = 5 /\ ~oneSuit /\ ~consecutive -> HighCard

\* The ace of a wheel counts as one.
PlayedRanks(hand, n) ==
  IF IsWheel(hand) THEN IF n = 1 THEN 1..5 ELSE {}
  ELSE {rank \in Ranks(hand) : Count(hand, rank) = n}

Strength(hand) == [category |-> PokerCategory(hand), ranks |-> [n \in 1..4 |-> PlayedRanks(hand, n)]]

Beats(one, other) ==
  \/ one.category > other.category
  \/ /\ one.category = other.category
     /\ \E n \in 1..4 :
          /\ one.ranks[n] # other.ranks[n]
          /\ \A m \in n+1..4 : one.ranks[m] = other.ranks[m]
          /\ Max(SymDiff(one.ranks[n], other.ranks[n])) \in one.ranks[n]

----------------------------------------------------------------------------
(* Properties                                                              *)

\* The values of all hands, computed once.
Scores == [hand \in Hands |-> Score(hand)]
Strengths == [hand \in Hands |-> Strength(hand)]

\* One of two hands without a wheel scores higher exactly when poker says that
\* it beats the other, so the pot goes to the right players, and is split
\* exactly when the hands tie (hand_evaluator.rs:207, engine.rs:391).
OrderIsPokers ==
  (Len(shown) = 2 /\ \A i \in 1..2 : ~IsWheel(shown[i])) =>
     (Scores[shown[1]] > Scores[shown[2]] <=> Beats(Strengths[shown[1]], Strengths[shown[2]]))

\* Of six or seven cards that hold no wheel, the score is that of five cards
\* that no other five of them beat: no combination is missed and none is
\* counted that is not there (hand_evaluator.rs:64).
BestIsUnbeaten ==
  LET cards == shown[1] \union shown[2]
      fives == kSubset(5, cards)
      best == Best(cards)
      strengths == {Strength(five) : five \in {some \in fives : Score(some) = best}}
  IN  (Len(shown) = 2 /\ Cardinality(cards) \in 6..7 /\ ~({14, 5, 4, 3, 2} \subseteq Ranks(cards))) =>
        \E strength \in strengths : \A other \in fives : ~Beats(Strength(other), strength)

\* A wheel is scored above every hand of two pairs, as the comment on it says
\* (hand_evaluator.rs:217).
WheelBeatsTwoPair ==
  (Len(shown) = 2 /\ IsWheel(shown[1]) /\ PokerCategory(shown[2]) = TwoPair) =>
     Scores[shown[1]] > Scores[shown[2]]

=============================================================================
