-------------------------- MODULE MCHandEvaluator --------------------------
(* Hands over the ranks 2 to 6 and the ace, one hand for each multiset of   *)
(* ranks, with its flush if there is one, and three runs that end above 6.  *)
EXTENDS HandEvaluator

MCRanks == {2, 3, 4, 5, 6, 14}
SuitOrder == <<"h", "d", "c", "s">>

\* rank r occurs times[r] times; five different ranks are not of one suit
OffSuit(times) ==
  LET held == {r \in MCRanks : times[r] > 0}
      shift(r) == IF Cardinality(held) = 5 /\ r = Min(held) THEN 1 ELSE 0
  IN  UNION {{<<r, SuitOrder[n + shift(r)]>> : n \in 1..times[r]} : r \in held}

Times == {times \in [MCRanks -> 0..4] : MapThenSumSet(LAMBDA r : times[r], MCRanks) = 5}

MCHands ==
  {OffSuit(times) : times \in Times}
    \union {ranks \X {"h"} : ranks \in kSubset(5, MCRanks)}
    \union {(10..14) \X {"h"}, (9..13) \X {"s"},
            {<<10, "s">>, <<11, "h">>, <<12, "h">>, <<13, "h">>, <<14, "h">>}}

=============================================================================
