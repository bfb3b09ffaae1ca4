----------------------------- MODULE ExchangeMC -----------------------------
(* Two threads of the main world and one of the isolated world, for TLC.   *)
EXTENDS Exchange

MCHome     == [m1 |-> "main", m2 |-> "main", s |-> "sub"]
MCMaxSends == [m1 |-> 2, m2 |-> 1, s |-> 3]
=============================================================================
