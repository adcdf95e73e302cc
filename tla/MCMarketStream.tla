---------------------------- MODULE MCMarketStream ----------------------------
(* Three clients, so that one can go and another come within a broadcast   *)
(* that has still a third to reach: the size of the dictionary is then the *)
(* same and only its entries tell.  With three earlier connections the     *)
(* third to come finds the table full.  A client asks for all symbols or   *)
(* none, so both of a tick's symbols have subscribers and bystanders.      *)
EXTENDS MarketStream
CONSTANTS c1, c2, c3, s1, s2
MCSockets == {c1, c2, c3}
MCWatched == <<s1, s2>>
MCTopics  == {{s1, s2}}
=============================================================================
