----------------------------- MODULE MCInstantX -----------------------------
(* Transactions, alphanodes and votes small enough for TLC.                *)
EXTENDS InstantX

CONSTANTS r1, r2, o1, o2, m1, m2, m3

\* r2 spends one of the two inputs of r1.
MCInputs == [x \in Txs |-> IF x = r1 THEN {o1, o2} ELSE {o2}]
MCLockHeight == [x \in Txs |-> IF x = r1 THEN 1 ELSE 2]

\* The ranking is another one at every height.
MCScore == [h \in 0..2 |-> IF h = 2 THEN m1 :> 1 @@ m2 :> 2 @@ m3 :> 3
                           ELSE m1 :> 3 @@ m2 :> 2 @@ m3 :> 1]

VoteOf(a, x, h) == [alphanode |-> a, tx |-> x, height |-> h]
\* m1 is the first at the height of r1's lock and m3, this node, at that of r2's:
\* their votes there complete the locks.  m3 also votes for r1, once where it is
\* first only while m1 is not listed, and once at a height that is not the lock's.
MCVotes == {VoteOf(m1, r1, 1), VoteOf(m3, r1, 1), VoteOf(m3, r1, 2), VoteOf(m3, r2, 2)}

=============================================================================
