------------------------------ MODULE TxRelay ------------------------------
(***************************************************************************)
(* Loose transactions between this node and its peers (main.cpp): the      *)
(* announcements and requests of "inv" and SendMessages, the "tx" handler, *)
(* the orphan transactions, and the two maps of CTxMemPool.                *)
(*                                                                         *)
(* Every action is a handler that holds cs_main from beginning to end.     *)
(* Time is relative: a due time says how many ticks are left, and the      *)
(* interval between two requests is Retry ticks.                           *)
(*                                                                         *)
(* Left out: the content of a transaction (a refusal for fees, scripts or  *)
(* the rate limit is a choice), "dstx", which differs by its signature,    *)
(* transactions of more than one output, and that setInventoryKnown        *)
(* forgets all but the last 1000 entries.                                  *)
(***************************************************************************)
EXTENDS Integers, FiniteSets

CONSTANTS
    Txs, NoTx,
    Inputs,     \* the transactions whose output a transaction spends
    Confirmed,  \* on disk in the beginning
    NullHash,   \* the hash an empty CInv holds
    Peers,
    Retry,      \* ticks in the 2 minutes of AskFor
    MaxDue,     \* bound: no request is put off further than this
    MAX_ORPHAN_TRANSACTIONS

ASSUME TxRelayAssumption ==
    /\ NoTx \notin Txs /\ NullHash \notin Txs /\ NullHash # NoTx
    /\ Inputs \in [Txs -> SUBSET Txs]
    /\ Confirmed \subseteq Txs
    /\ Retry \in Nat \ {0} /\ MaxDue \in Nat
    /\ MAX_ORPHAN_TRANSACTIONS \in Nat

VARIABLES
    \* CTxMemPool
    mapTx,
    mapNextTx,                    \* output -> the pool transaction spending it
    \* main.cpp
    mapOrphanTransactions,
    mapOrphanTransactionsByPrev,  \* previous transaction -> orphans
    disk,                         \* transactions in the index on disk
    \* CNode of every peer, and mapAlreadyAskedFor
    setInventoryKnown,
    vInventoryToSend,
    mapAskFor,                    \* set of [due, hash]
    mapAlreadyAskedFor,           \* the last time, requested or planned
    sinceGetData                  \* ticks since the last "getdata", to Retry

pool == <<mapTx, mapNextTx>>
orphans == <<mapOrphanTransactions, mapOrphanTransactionsByPrev>>
inventory == <<setInventoryKnown, vInventoryToSend>>
requests == <<mapAskFor, mapAlreadyAskedFor, sinceGetData>>
relayVars == <<pool, orphans, disk, inventory, requests>>

InvHashes == Txs \cup {NullHash}
Loose == {t \in Txs : Inputs[t] # {}}

RelayInit ==
    /\ mapTx = {} /\ mapNextTx = [o \in Txs |-> NoTx]
    /\ mapOrphanTransactions = {}
    /\ mapOrphanTransactionsByPrev = [o \in Txs |-> {}]
    /\ disk = Confirmed
    /\ setInventoryKnown = [p \in Peers |-> {}]
    /\ vInventoryToSend = [p \in Peers |-> {}]
    /\ mapAskFor = [p \in Peers |-> {}]
    /\ mapAlreadyAskedFor = [h \in InvHashes |-> -Retry]
    /\ sinceGetData = [h \in InvHashes |-> Retry]

-----------------------------------------------------------------------------
(* CTxMemPool *)

SpentOnDisk(onDisk, o) == \E u \in onDisk : o \in Inputs[u]

\* The tests of AcceptToMemoryPool up to the inputs on disk,
Candidate(t) == t \notin mapTx /\ t \notin disk /\ \A o \in Inputs[t] : mapNextTx[o] = NoTx
MissingInputs(t) == Candidate(t) /\ ~(Inputs[t] \subseteq disk)
\* and all of them.
Acceptable(t) ==
    /\ Candidate(t)
    /\ Inputs[t] \subseteq disk
    /\ \A o \in Inputs[t] : ~SpentOnDisk(disk, o)

addUnchecked(t) ==
    /\ mapTx' = mapTx \cup {t}
    /\ mapNextTx' = [o \in Txs |-> IF o \in Inputs[t] THEN t ELSE mapNextTx[o]]

\* roots, and what spends their outputs in turn.
Below(next, roots) ==
    LET within[n \in 0..Cardinality(Txs)] ==
          IF n = 0 THEN roots
          ELSE within[n - 1] \cup ({next[o] : o \in within[n - 1]} \ {NoTx})
    IN  within[Cardinality(Txs)]

RemoveUnasked(held, next, gone) == \* mutant: mapTx.count(hash) is not asked for
    /\ mapTx' = held \ gone
    /\ mapNextTx' = [o \in Txs |-> IF \E u \in gone : o \in Inputs[u]
                                   THEN NoTx ELSE next[o]]
\* remove of gone from a pool of held and next: nothing for what it lacks.
RemoveTxs(held, next, gone) ==
    /\ mapTx' = held \ gone
    /\ mapNextTx' = [o \in Txs |-> IF \E u \in gone \cap held : o \in Inputs[u]
                                   THEN NoTx ELSE next[o]]

-----------------------------------------------------------------------------
(* Orphan transactions *)

IndexUnerased(erased, t) == \* mutant: EraseOrphanTx leaves the index
    mapOrphanTransactionsByPrev' =
        [o \in Txs |-> mapOrphanTransactionsByPrev[o] \cup IF o \in Inputs[t] THEN {t} ELSE {}]
\* The index after AddOrphanTx of t and EraseOrphanTx of erased.
IndexOrphans(erased, t) ==
    mapOrphanTransactionsByPrev' =
        [o \in Txs |-> (mapOrphanTransactionsByPrev[o] \cup IF o \in Inputs[t] THEN {t} ELSE {})
                          \ {e \in erased : o \in Inputs[e]}]

\* LimitOrphanTxSize: random orphans, t itself perhaps, until they fit.
Evictions(held) ==
    {erased \in SUBSET held :
        Cardinality(erased) = IF Cardinality(held) > MAX_ORPHAN_TRANSACTIONS
                              THEN Cardinality(held) - MAX_ORPHAN_TRANSACTIONS ELSE 0}

AddOrphanTx(t) ==
    LET held == mapOrphanTransactions \cup {t}
    IN  \E erased \in Evictions(held) :
          /\ mapOrphanTransactions' = held \ erased
          /\ IndexOrphans(erased, t)

-----------------------------------------------------------------------------
(* Announcements and requests *)

AlreadyHave(h) == h \in mapTx \cup mapOrphanTransactions \cup disk

\* RelayTransaction, RelayInventory, PushInventory.
RelayTransaction(h) ==
    vInventoryToSend' = [p \in Peers |-> vInventoryToSend[p] \cup ({h} \ setInventoryKnown[p])]

\* When the next request of h may go out: at once, or Retry after the last.
NextRequest(h) == IF mapAlreadyAskedFor[h] + Retry > 0 THEN mapAlreadyAskedFor[h] + Retry ELSE 0

Reschedule(p, h) == \* mutant: an announcement moves the peer's earlier entry
    mapAskFor' = [mapAskFor EXCEPT ![p] =
        {e \in @ : e.hash # h} \cup {[due |-> NextRequest(h), hash |-> h]}]
Schedule(p, h) ==
    mapAskFor' = [mapAskFor EXCEPT ![p] = @ \cup {[due |-> NextRequest(h), hash |-> h]}]

\* Message "inv" with h.
Inv(p, h) ==
    /\ setInventoryKnown' = [setInventoryKnown EXCEPT ![p] = @ \cup {h}]
    /\ IF AlreadyHave(h)
       THEN UNCHANGED <<mapAskFor, mapAlreadyAskedFor>>
       ELSE /\ NextRequest(h) <= MaxDue
            /\ Schedule(p, h)
            /\ mapAlreadyAskedFor' = [mapAlreadyAskedFor EXCEPT ![h] = NextRequest(h)]
    /\ UNCHANGED <<pool, orphans, disk, vInventoryToSend, sinceGetData>>

\* What the next "getdata" to p asks for.
Asked(p) == {e.hash : e \in {e \in mapAskFor[p] : e.due = 0 /\ ~AlreadyHave(e.hash)}}

\* SendMessages: "inv" with what p does not know, some of it later, and
\* "getdata" with what is due.
SendInventory(p) ==
    \E vInvWait \in SUBSET (vInventoryToSend[p] \ setInventoryKnown[p]) :
        /\ vInventoryToSend' = [vInventoryToSend EXCEPT ![p] = vInvWait]
        /\ setInventoryKnown' = [setInventoryKnown EXCEPT ![p] =
                                    @ \cup (vInventoryToSend[p] \ vInvWait)]
        /\ mapAskFor' = [mapAskFor EXCEPT ![p] = {e \in @ : e.due > 0}]
        /\ mapAlreadyAskedFor' = [h \in InvHashes |-> IF h \in Asked(p) THEN 0
                                                   ELSE mapAlreadyAskedFor[h]]
        /\ sinceGetData' = [h \in InvHashes |-> IF h \in Asked(p) THEN 0 ELSE sinceGetData[h]]
        /\ UNCHANGED <<pool, orphans, disk>>

\* Message "tx".  The handler looks at AlreadyHave, mapAlreadyAskedFor and the
\* orphans with an inv of its own that never learns the transaction's hash:
\* none of them finds anything, and RelayTransaction announces NullHash.
Tx(t) ==
    \/ /\ Acceptable(t)
       /\ addUnchecked(t)
       /\ RelayTransaction(NullHash)
       /\ UNCHANGED <<orphans, disk, setInventoryKnown, requests>>
    \/ /\ MissingInputs(t)
       /\ t \notin mapOrphanTransactions
       /\ AddOrphanTx(t)
       /\ UNCHANGED <<pool, disk, inventory, requests>>

\* sendrawtransaction and CommitTransaction: a new transaction, or one of the
\* pool announced again.
SendRawTransaction(t) ==
    /\ \/ t \in mapTx /\ UNCHANGED pool
       \/ Acceptable(t) /\ addUnchecked(t)
    /\ RelayTransaction(t)
    /\ UNCHANGED <<orphans, disk, setInventoryKnown, requests>>

-----------------------------------------------------------------------------
(* The chain, peers and time *)

Connects(onDisk, t) ==
    /\ t \notin onDisk /\ Inputs[t] \subseteq onDisk
    /\ \A o \in Inputs[t] : ~SpentOnDisk(onDisk, o)

\* A block with t extends the best chain; conflicts stay in the pool.
ConnectBlock(t) ==
    /\ Connects(disk, t)
    /\ disk' = disk \cup {t}
    /\ RemoveTxs(mapTx, mapNextTx, {t})
    /\ UNCHANGED <<orphans, inventory, requests>>

\* Reorganize: a block with t gives way to one with the transactions of new.
\* t returns to the pool if it can, then new leaves it, with what conflicts
\* and what feeds on that.
Reorganize(t, new) ==
    LET left == disk \ {t}
        returns == /\ Connects(left \cup new, t) /\ t \notin mapTx
                   /\ \A o \in Inputs[t] : mapNextTx[o] = NoTx
        held == mapTx \cup IF returns THEN {t} ELSE {}
        next == [o \in Txs |-> IF returns /\ o \in Inputs[t] THEN t ELSE mapNextTx[o]]
        conflicts == {next[o] : o \in UNION {Inputs[u] : u \in new}} \ ({NoTx} \cup new)
    IN  /\ t \in disk \ Confirmed /\ ~SpentOnDisk(disk, t)
        /\ \A u \in new : Connects(left, u) /\ u # t
        /\ disk' = left \cup new
        /\ RemoveTxs(held, next, new \cup Below(next, conflicts))
        /\ UNCHANGED <<orphans, inventory, requests>>

\* The connection ends; another one takes its place.
Disconnect(p) ==
    /\ setInventoryKnown' = [setInventoryKnown EXCEPT ![p] = {}]
    /\ vInventoryToSend' = [vInventoryToSend EXCEPT ![p] = {}]
    /\ mapAskFor' = [mapAskFor EXCEPT ![p] = {}]
    /\ UNCHANGED <<pool, orphans, disk, mapAlreadyAskedFor, sinceGetData>>

RelayTick ==
    /\ mapAskFor' = [p \in Peers |->
            {[e EXCEPT !.due = IF @ > 0 THEN @ - 1 ELSE 0] : e \in mapAskFor[p]}]
    /\ mapAlreadyAskedFor' = [h \in InvHashes |->
            IF mapAlreadyAskedFor[h] > -Retry THEN mapAlreadyAskedFor[h] - 1 ELSE -Retry]
    /\ sinceGetData' = [h \in InvHashes |->
            IF sinceGetData[h] < Retry THEN sinceGetData[h] + 1 ELSE Retry]
    /\ UNCHANGED <<pool, orphans, disk, inventory>>

-----------------------------------------------------------------------------

PeerStep(p) ==
    \/ \E h \in Loose \cup {NullHash} : Inv(p, h)
    \/ SendInventory(p)
    \/ Disconnect(p)

TxStep(t) ==
    \/ Tx(t)
    \/ SendRawTransaction(t)
    \/ ConnectBlock(t)
    \/ \E new \in {{}} \cup {{u} : u \in Loose} : Reorganize(t, new)

RelayNext ==
    \/ \E p \in Peers : PeerStep(p)
    \/ \E t \in Loose : TxStep(t)
    \/ RelayTick

RelaySpec == RelayInit /\ [][RelayNext]_relayVars

\* The message thread comes round to every peer, and time passes.
RelayFairness == WF_relayVars(RelayTick) /\ \A p \in Peers : WF_relayVars(SendInventory(p))

RelayFairSpec == RelaySpec /\ RelayFairness

-----------------------------------------------------------------------------
(* Properties *)

\* Every variable holds a value of its type.
RelayTypeOK ==
    /\ mapTx \subseteq Loose
    /\ mapNextTx \in [Txs -> Txs \cup {NoTx}]
    /\ mapOrphanTransactions \subseteq Loose
    /\ mapOrphanTransactionsByPrev \in [Txs -> SUBSET Txs]
    /\ disk \subseteq Txs
    /\ setInventoryKnown \in [Peers -> SUBSET InvHashes]
    /\ vInventoryToSend \in [Peers -> SUBSET InvHashes]
    /\ mapAskFor \in [Peers -> SUBSET [due : 0..MaxDue, hash : InvHashes]]
    /\ mapAlreadyAskedFor \in [InvHashes -> -Retry..MaxDue]
    /\ sinceGetData \in [InvHashes -> 0..Retry]

\* mapNextTx is the index of the inputs of mapTx whatever is accepted, mined
\* and reorganised: no entry dangles, and no output is spent twice in the pool.
PoolIndexExact ==
    \A o, t \in Txs : mapNextTx[o] = t <=> t \in mapTx /\ o \in Inputs[t]

\* mapOrphanTransactionsByPrev is the index of mapOrphanTransactions also
\* after random orphans were evicted.
OrphanIndexExact ==
    \A o \in Txs :
        mapOrphanTransactionsByPrev[o] = {t \in mapOrphanTransactions : o \in Inputs[t]}

\* The orphans stay below their limit.
OrphanTransactionsBounded ==
    Cardinality(mapOrphanTransactions) <= MAX_ORPHAN_TRANSACTIONS

\* A transaction a peer announced is asked for in the end, unless the node
\* gets it or the peer leaves, however often it is announced meanwhile.
AnnouncedIsAsked ==
    \A p \in Peers, h \in InvHashes :
        (\E e \in mapAskFor[p] : e.hash = h) ~>
            \/ AlreadyHave(h) \/ sinceGetData[h] = 0
            \/ \A e \in mapAskFor[p] : e.hash # h

=============================================================================
