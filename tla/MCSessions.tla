----------------------------- MODULE MCSessions -----------------------------
(* One wallet, as requests of different wallets share nothing.              *)
EXTENDS Sessions
CONSTANTS w1, r1, r2
=============================================================================
