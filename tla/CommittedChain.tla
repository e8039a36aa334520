--------------------------- MODULE CommittedChain ---------------------------
(***************************************************************************)
(* What SetBestChain promises to whoever reads the database, the wallet    *)
(* and a restart among them: one chain at a time, its transaction index    *)
(* complete, and a new one only for more trust.  How many blocks one       *)
(* database transaction disconnects and connects is not visible here.      *)
(***************************************************************************)
EXTENDS Ledger

VARIABLES view, best

Init == view = EmptyView /\ best = Genesis

\* One committed transaction: the chain that ends in b.
Adopt(b) ==
    /\ Trust[b] > Trust[best]
    /\ best' = b
    /\ Replays(view', b)

Next == \E b \in Blocks : Adopt(b)

Spec == Init /\ [][Next]_<<view, best>>

=============================================================================
