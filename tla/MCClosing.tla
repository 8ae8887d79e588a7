----------------------------- MODULE MCClosing -----------------------------
(* Two games that share two agents, who sit in different seats; g2 is       *)
(* hold'em and two handlers complete it, g1 a game with wallets in its      *)
(* positions, as the escrow adapter expects them.                           *)
EXTENDS Closing, TLC
CONSTANTS g1, g2, a1, a2, a3, c1, c2, c3

MCGame == (c1 :> g1) @@ (c2 :> g2) @@ (c3 :> g2)
MCPlayers == (g1 :> <<a1, a2>>) @@ (g2 :> <<a2, a3, a1>>)
MCWinners == (g1 :> {a1}) @@ (g2 :> {a1, a3})
MCFields == (g1 :> HoldemFields \union {"wallet_address"}) @@ (g2 :> HoldemFields)
HoldemOnly == [g \in Games |-> HoldemFields]
============================================================================
