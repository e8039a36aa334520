------------------------------- MODULE TxPool -------------------------------
(***************************************************************************)
(* The memory pool: CTxMemPool's operations on its set of transactions     *)
(* (mapTx; mapNextTx is derived from it) and the admission test of         *)
(* AcceptToMemoryPool.                                                     *)
(***************************************************************************)
EXTENDS Ledger

Conflicting(t, u) == t # u /\ Inputs[t] \cap Inputs[u] # {}

\* remove(tx, true): roots and the transactions of pool that spend, directly or
\* through others of pool, an output of one of them: the least set of pool that
\* holds roots and whatever spends from it.
WithDescendants(pool, roots) ==
    LET Closed(s) == /\ roots \cap pool \subseteq s
                     /\ {t \in pool : Inputs[t] \cap s # {}} \subseteq s
    IN  {t \in pool : \A s \in SUBSET pool : Closed(s) => t \in s}

\* removeConflicts of every transaction of txs.
RemoveConflicts(pool, txs) ==
    pool \ WithDescendants(pool, {t \in pool : \E u \in txs : Conflicting(t, u)})

\* An InstantX lock on an input names another transaction (mapLockedInputs).
LockConflict(locks, t) == \E o \in Inputs[t] : locks[o] \notin {NoTx, t}

\* AcceptToMemoryPool: the inputs have to be indexed on disk - outputs of pool
\* transactions do not count.
MissingInputs(view, t) == \E o \in Inputs[t] : view.at[o] = NoBlock

PoolAccepts(pool, view, tip, locks, t) ==
    /\ t \notin Generated /\ t \notin pool
    /\ ~LockConflict(locks, t)
    /\ \A u \in pool : ~Conflicting(t, u)
    /\ view.at[t] = NoBlock
    /\ ~MissingInputs(view, t)
    /\ \A o \in Inputs[t] :
         /\ view.spent[o] = NoTx
         /\ o \in Generated => ~Immature(view.at[o], tip)

\* The pools AcceptToMemoryPool can leave when it is called for each of txs: all
\* that are acceptable, but of those that conflict only the first, in an order
\* that is not told here.
AcceptedEach(pool, view, tip, locks, txs) ==
    LET open == {t \in txs : PoolAccepts(pool, view, tip, locks, t)}
    IN  {pool \cup p : p \in {p \in SUBSET open :
            /\ \A t, u \in p : ~Conflicting(t, u)
            /\ \A t \in open \ p : \E u \in p : Conflicting(t, u)}}

=============================================================================
