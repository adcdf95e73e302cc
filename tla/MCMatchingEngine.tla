-------------------------- MODULE MCMatchingEngine --------------------------
(* Small books: up to three levels of at most two units at prices 1..3,    *)
(* best level first; quantities from below zero to beyond the whole book.  *)
EXTENDS MatchingEngine

MCLevel == [price : 1..3, quantity : 0..2]
MCBooks == UNION {[1..n -> MCLevel] : n \in 0..2}
             \union {<<l, m, [price |-> 2, quantity |-> 1]>> : l \in MCLevel, m \in MCLevel}

MCAsks == {b \in MCBooks : \A k \in 1..(Len(b) - 1) : b[k].price <= b[k + 1].price}
MCBids == {b \in MCBooks : \A k \in 1..(Len(b) - 1) : b[k].price >= b[k + 1].price}
MCQuantities == -1..6
=============================================================================
