------------------------------ MODULE LockTable ------------------------------
(***************************************************************************)
(* What the rest of the node may rely on of mapLockedInputs: an input is   *)
(* locked for one transaction that spends it, and the lock stays with that *)
(* transaction until it is given up.  AcceptToMemoryPool and CheckBlock    *)
(* refuse what conflicts with it; they would protect two transactions in   *)
(* turn if a lock could be handed on.                                      *)
(***************************************************************************)
CONSTANTS Txs, NoTx, Outpoints, Inputs

VARIABLE mapLockedInputs

Init == mapLockedInputs = [o \in Outpoints |-> NoTx]

\* t takes inputs of its own that are free.
Lock(t) ==
    \E taken \in SUBSET {o \in Inputs[t] : mapLockedInputs[o] = NoTx} :
        mapLockedInputs' =
            [o \in Outpoints |-> IF o \in taken THEN t ELSE mapLockedInputs[o]]

\* Locks are given up.
Unlock ==
    \E given \in SUBSET Outpoints :
        mapLockedInputs' =
            [o \in Outpoints |-> IF o \in given THEN NoTx ELSE mapLockedInputs[o]]

Next == Unlock \/ \E t \in Txs : Lock(t)

Spec == Init /\ [][Next]_mapLockedInputs

=============================================================================
