------------------------------ MODULE MCWallet ------------------------------
(* A wallet with the coins c and d.  Own payments compete for c; its staking    *)
(* thread and a copy of the wallet elsewhere compete for d; an own payment      *)
(* spends what the staking gave.                                                *)
EXTENDS Wallet, TLC

CONSTANTS g, x, w, a1, a2, a3, a4, b1, b2, b3, c, d, pay1, pay2, pay3, stake, theft

\*   g - x - w - a1 - a2 - a3 - a4
\*            \
\*             b1 - b2 - b3
\* Trust is height.  Both branches confirm pay1; the a branch stakes d, and the
\* b branch holds the theft of it.  The a branch ends in a block that does not
\* connect.
MCBlocks == {g, x, w, a1, a2, a3, a4, b1, b2, b3}
MCParent == x :> g @@ w :> x @@ a1 :> w @@ a2 :> a1 @@ a3 :> a2 @@ a4 :> a3 @@ b1 :> w @@ b2 :> b1 @@ b3 :> b2
MCChain ==
    LET up[b \in MCBlocks] == IF b = g THEN {g} ELSE {b} \cup up[MCParent[b]]
    IN  up
MCHeight == [b \in MCBlocks |-> Cardinality(MCChain[b]) - 1]

MCTxs == {c, d, pay1, pay2, pay3, stake, theft}
MCInputs == c :> {} @@ d :> {} @@ pay1 :> {c} @@ pay2 :> {c} @@ stake :> {d}
         @@ theft :> {d} @@ pay3 :> {stake}
MCBlockTxs == [b \in MCBlocks |->
    CASE b = x -> <<c, d>>
      [] b = a1 -> <<pay1>>
      [] b = a2 -> <<stake>>
      [] b = b1 -> <<theft>>
      [] b = b2 -> <<pay1>>
      [] OTHER -> <<>>]

=============================================================================
