---------------------------- MODULE MCChainState ----------------------------
(* A block tree for TLC: branches of equal length and a fork off a branch. *)
EXTENDS ChainState, TLC

CONSTANTS g, x, a1, a2, a3, b1, b2, b3, c2, c0, ca, t1, t2, t3, s1, s2

\*   g - x - a1 - a2 - a3
\*        \     \ c2
\*         b1 - b2 - b3
\* Trust is height.  t1 is in a1 and in b3.  t2, in c2, spends the coinbase c0
\* that t1 has spent.  t3, in a2, spends the coinbase ca of a1, which the b
\* branch does not have.  a3 repeats t1.  a3 and b3 compete for one stake, as
\* do a1 and b1.
MCBlocks == {g, x, a1, a2, a3, b1, b2, b3, c2}
MCParent == x :> g @@ a1 :> x @@ a2 :> a1 @@ a3 :> a2 @@ b1 :> x @@ b2 :> b1
         @@ b3 :> b2 @@ c2 :> a1
MCChain ==
    LET up[b \in MCBlocks] == IF b = g THEN {g} ELSE {b} \cup up[MCParent[b]]
    IN  up
MCHeight == [b \in MCBlocks |-> Cardinality(MCChain[b]) - 1]

MCTxs == {c0, ca, t1, t2, t3}
MCInputs == c0 :> {} @@ ca :> {} @@ t1 :> {c0} @@ t2 :> {c0} @@ t3 :> {ca}
MCBlockTxs == [b \in MCBlocks |->
    CASE b = x -> <<c0>>
      [] b = a1 -> <<ca, t1>>
      [] b = a2 -> <<t3>>
      [] b = b3 -> <<t1>>
      [] b = a3 -> <<t1>>
      [] b = c2 -> <<t2>>
      [] OTHER -> <<>>]

MCStake == [b \in MCBlocks |->
    CASE b \in {a3, b3} -> s1 [] b \in {a1, b1} -> s2 [] OTHER -> NoStake]
MCLockable == {<<c0, t2>>}

=============================================================================
