-------------------------- MODULE MCAccountBroadcast --------------------------
(* Two clients of one account, one of them of another too, an order and    *)
(* two ticks that overlap, and time for a second push of an account.       *)
EXTENDS AccountBroadcast, TLC
CONSTANTS c1, c2, a1, a2, o1, t1, t2
MCSockets  == {c1, c2}
MCAccounts == {a1, a2}
MCTicks    == {t1, t2}
MCShown    == [ws \in MCSockets |-> IF ws = c1 THEN {a1, a2} ELSE {a1}]
MCAccountOf == [j \in {o1} |-> a1]
AlikeTicks == Permutations(MCTicks)
=============================================================================
