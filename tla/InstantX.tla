------------------------------ MODULE InstantX ------------------------------
(***************************************************************************)
(* InstantX (instantx.cpp): alphanodes vote on a transaction lock request  *)
(* and a transaction with enough votes locks its inputs against every      *)
(* other one, in the memory pool and in blocks, until the lock expires.    *)
(*                                                                         *)
(* Three kinds of threads meet here, and none of the maps has a lock of    *)
(* its own: the message thread (requests and votes), ThreadCheckDarkSend-  *)
(* Pool, which drops expired locks, and the wallet, which enters requests  *)
(* of its own.  cs_main is taken only inside a request, for                *)
(* AcceptToMemoryPool; blocks arrive before and after it.                  *)
(*                                                                         *)
(* Left out: what IsIXTXValid and IsNormalPaymentScript find out about a   *)
(* transaction (the ones of Txs pass), signatures (Votes holds the valid   *)
(* ones), the relay throttle mapUnknownVotes, and the two data races of a  *)
(* map iterator against CleanTransactionLocksList.                         *)
(***************************************************************************)
EXTENDS Naturals, Sequences, SequencesExt, FiniteSets

CONSTANTS
    Txs, NoTx,
    Outpoints,
    Inputs,       \* the outpoints a transaction spends, all of confirmed txs
    LockHeight,   \* what CreateNewLock computes: 4 above the input's block
    Alphanodes,
    Score,        \* CalculateScore of every alphanode at every height
    Self,         \* the alphanode this node runs (fAlphaNode), if any
    Votes,        \* the signed votes there are: alphanode, tx, height
    Required,     \* INSTANTX_SIGNATURES_REQUIRED (10)
    Total,        \* INSTANTX_SIGNATURES_TOTAL (15)
    Own           \* transactions this node's wallet sends as requests

Deep == 2  \* depth of an input: 0 not on disk, 1 confirmed, 2 nine deep or more

ASSUME InstantXAssumption ==
    /\ NoTx \notin Txs
    /\ Inputs \in [Txs -> SUBSET Outpoints]
    /\ LockHeight \in [Txs -> Nat \ {0}]
    /\ Votes \subseteq [alphanode : Alphanodes, tx : Txs, height : Nat]
    /\ Required \in Nat \ {0} /\ Total \in Nat
    /\ Own \subseteq Txs

VARIABLES
    \* instantx.cpp
    mapTxLockReq,         \* transactions accepted with a request
    mapTxLockReqRejected, \* and refused ones
    mapTxLockVote,        \* <<alphanode, tx>> of the votes received or cast
    mapTxLocks,           \* the transactions that have a CTransactionLock,
    nBlockHeight,         \* and its fields
    nExpiration,          \* "later", "now" once cancelled, "past"
    vecConsensusVotes,
    mapLockedInputs,
    invented,             \* those of mapTxLockReq that operator[] made up
    \* the message handler inside "txlreq", before AcceptToMemoryPool
    handling,             \* its transaction, or NoTx
    returned,             \* what CreateNewLock returned
    \* the rest of the node
    pool,                 \* mempool
    chain,                \* transactions of Txs in the best chain
    depth,                \* of the outpoints' transactions
    vAlphanodes,          \* enabled alphanodes this node knows
    unsent,               \* of Own, those the wallet has not sent yet
    running               \* FALSE: the process has aborted

requests == <<mapTxLockReq, mapTxLockReqRejected, invented>>
txlocks == <<mapTxLocks, nBlockHeight, nExpiration, vecConsensusVotes>>
handler == <<handling, returned>>
node == <<pool, chain, depth, vAlphanodes, unsent>>
vars == <<requests, mapTxLockVote, txlocks, mapLockedInputs, handler, node, running>>

EmptyMaps ==
    /\ mapTxLockReq = {} /\ mapTxLockReqRejected = {} /\ invented = {}
    /\ mapTxLockVote = {}
    /\ mapTxLocks = {}
    /\ nBlockHeight = [t \in Txs |-> 0]
    /\ nExpiration = [t \in Txs |-> "later"]
    /\ vecConsensusVotes = [t \in Txs |-> <<>>]
    /\ mapLockedInputs = [o \in Outpoints |-> NoTx]
    /\ handling = NoTx /\ returned = 0
    /\ pool = {}

Init ==
    /\ EmptyMaps
    /\ chain = {} /\ depth = [o \in Outpoints |-> 0]
    /\ vAlphanodes = {}
    /\ unsent = Own
    /\ running = TRUE

-----------------------------------------------------------------------------
(* The memory pool and the chain, as far as Txs are concerned *)

Conflicting(t, u) == t # u /\ Inputs[t] \cap Inputs[u] # {}

\* AcceptToMemoryPool and CheckBlock: an input is locked for another one.
LockConflict(t) == \E o \in Inputs[t] : mapLockedInputs[o] \notin {NoTx, t}

\* The inputs are on disk and no transaction of the chain cs spends them.
Connects(cs, t) ==
    /\ t \notin cs
    /\ \A o \in Inputs[t] : depth[o] > 0
    /\ \A u \in cs : ~Conflicting(t, u)

PoolAccepts(cs, t) ==
    /\ t \notin pool /\ ~LockConflict(t)
    /\ \A u \in pool : ~Conflicting(t, u)
    /\ Connects(cs, t)

-----------------------------------------------------------------------------
(* Locks and votes *)

\* GetAlphanodeRank: position by score among the alphanodes known.
Rank(a, h) == Cardinality({b \in vAlphanodes : Score[h][b] >= Score[h][a]})
InTop(a, h) == a \in vAlphanodes /\ Rank(a, h) <= Total

CountAllSignatures(votes, h) == Len(votes) \* mutant: heights are not compared
\* CountSignatures: votes for the lock's own height; none without a height.
CountSignatures(votes, h) ==
    IF h = 0 THEN 0
    ELSE Cardinality({i \in 1..Len(votes) : votes[i].height = h})

Complete(t) == CountSignatures(vecConsensusVotes[t], nBlockHeight[t]) >= Required

\* CreateNewLock: too new an input and there is no lock; a lock that votes
\* made before gets its height.
CreateNewLock(t) ==
    IF \A o \in Inputs[t] : depth[o] = Deep
    THEN /\ mapTxLocks' = mapTxLocks \cup {t}
         /\ nBlockHeight' = [nBlockHeight EXCEPT ![t] = LockHeight[t]]
         /\ UNCHANGED <<nExpiration, vecConsensusVotes>>
    ELSE UNCHANGED txlocks

LockHeightOrZero(t) ==
    IF \A o \in Inputs[t] : depth[o] = Deep THEN LockHeight[t] ELSE 0

\* mapTxLocks[...].nExpiration = GetTime(), for the locks that exist.
Cancel(ts) ==
    nExpiration' = [t \in Txs |->
        IF t \in ts \cap mapTxLocks' THEN "now" ELSE nExpiration[t]]

NoneTaken(ins, t) == {} \* mutant: conflicts are not looked for
\* CheckForConflictingLocks: the inputs that are another transaction's.
Taken(ins, t) == {o \in ins : mapLockedInputs[o] \notin {NoTx, t}}

LockStealing(ins, t) == \* mutant: the test for an existing lock is missing
    mapLockedInputs' = [o \in Outpoints |-> IF o \in ins THEN t ELSE mapLockedInputs[o]]
\* The inputs that are free go to t.
LockFree(ins, t) ==
    mapLockedInputs' = [o \in Outpoints |->
        IF o \in ins /\ mapLockedInputs[o] = NoTx THEN t ELSE mapLockedInputs[o]]

-----------------------------------------------------------------------------
(* Message "txlreq" *)

DecidedRefused(t) == t \in mapTxLockReqRejected \* mutant: one map is not asked
Decided(t) == t \in mapTxLockReq \cup mapTxLockReqRejected

\* The request is new: CreateNewLock, then the handler waits for cs_main.
TxLockRequest(t) ==
    /\ running /\ handling = NoTx
    /\ t \notin unsent
    /\ ~Decided(t)
    /\ CreateNewLock(t)
    /\ handling' = t /\ returned' = LockHeightOrZero(t)
    /\ UNCHANGED <<requests, mapTxLockVote, mapLockedInputs, node, running>>

\* DoConsensusVote: this node's own vote, if it is among the top alphanodes,
\* goes to the votes seen - and not to the lock.
DoConsensusVote(t) ==
    mapTxLockVote' = IF InTop(Self, returned) THEN mapTxLockVote \cup {<<Self, t>>}
                     ELSE mapTxLockVote

TxLockAccepted(t) ==
    /\ running /\ handling = t
    /\ PoolAccepts(chain, t)
    /\ pool' = pool \cup {t}
    /\ DoConsensusVote(t)
    /\ mapTxLockReq' = mapTxLockReq \cup {t}
    /\ handling' = NoTx /\ returned' = 0
    /\ UNCHANGED <<mapTxLockReqRejected, invented, txlocks, mapLockedInputs, chain,
                   depth, vAlphanodes, unsent, running>>

RecordRejected(t) == mapTxLockReqRejected' = mapTxLockReqRejected \cup {t}

\* AcceptToMemoryPool refuses it: the free inputs are locked for it all the
\* same, and if its votes were complete the conflict is to be resolved.
\* DisconnectBlock there gets a pindex nobody has set, and DisconnectInputs a
\* database opened read-only; a complete lock has inputs on disk, so
\* UpdateTxIndex is reached and its assertion ends the process.
TxLockRejected(t) ==
    /\ running /\ handling = t
    /\ ~PoolAccepts(chain, t)
    /\ RecordRejected(t)
    /\ LockFree(Inputs[t], t)
    /\ UNCHANGED <<mapTxLocks, nBlockHeight, vecConsensusVotes>>
    /\ IF t \in mapTxLocks /\ Complete(t)
       THEN \/ /\ \E o \in Taken(Inputs[t], t) : Cancel({t, mapLockedInputs[o]})
               /\ UNCHANGED running
            \/ /\ Taken(Inputs[t], t) = {}
               /\ running' = FALSE
               /\ UNCHANGED nExpiration
       ELSE UNCHANGED <<nExpiration, running>>
    /\ handling' = NoTx /\ returned' = 0
    /\ UNCHANGED <<mapTxLockReq, invented, mapTxLockVote, node>>

-----------------------------------------------------------------------------
(* Message "txlvote": ProcessConsensusVote *)

VoteUnseen(v) == UNCHANGED mapTxLockVote \* mutant: votes are not remembered
\* Noted as seen before any check, without its height.
SeeVote(v) == mapTxLockVote' = mapTxLockVote \cup {<<v.alphanode, v.tx>>}

\* The vote made t's lock complete.  mapTxLockReq[t] is read with operator[],
\* which inserts an empty transaction if there is none.  If t was refused, the
\* blocks in conflict with it were to be disconnected; as above this ends the
\* process, and the maps with it.
CompleteLock(t) ==
    LET ins == IF t \in mapTxLockReq \ invented THEN Inputs[t] ELSE {}
        taken == Taken(ins, t)
    IN  IF taken = {} /\ t \in mapTxLockReqRejected
        THEN /\ running' = FALSE
             /\ UNCHANGED <<mapTxLockReq, invented, nExpiration, mapLockedInputs>>
        ELSE /\ mapTxLockReq' = mapTxLockReq \cup {t}
             /\ invented' = IF t \in mapTxLockReq THEN invented ELSE invented \cup {t}
             /\ IF taken # {}
                THEN /\ \E o \in taken : Cancel({t, mapLockedInputs[o]})
                     /\ UNCHANGED mapLockedInputs
                ELSE LockFree(ins, t) /\ UNCHANGED nExpiration
             /\ UNCHANGED running

\* The alphanode is known and among the top Total of that height: the vote is
\* counted, for a lock that may only come to exist with it.
CountVote(v) ==
    LET t == v.tx
        votes == Append(vecConsensusVotes[t], v)
    IN  /\ mapTxLocks' = mapTxLocks \cup {t}
        /\ vecConsensusVotes' = [vecConsensusVotes EXCEPT ![t] = votes]
        /\ IF CountSignatures(votes, nBlockHeight[t]) >= Required
           THEN CompleteLock(t)
           ELSE UNCHANGED <<mapTxLockReq, invented, nExpiration, mapLockedInputs, running>>

Vote(v) ==
    /\ running /\ handling = NoTx
    /\ v.tx \notin unsent
    /\ <<v.alphanode, v.tx>> \notin mapTxLockVote
    /\ SeeVote(v)
    /\ IF InTop(v.alphanode, v.height)
       THEN CountVote(v)
       ELSE UNCHANGED <<mapTxLockReq, invented, mapTxLocks, vecConsensusVotes,
                        nExpiration, mapLockedInputs, running>>
    /\ UNCHANGED <<mapTxLockReqRejected, nBlockHeight, handler, node>>

-----------------------------------------------------------------------------
(* The wallet, time and CleanTransactionLocksList *)

\* CommitTransaction with "txlreq": AcceptToMemoryPool, then
\* RelayWalletTransaction enters the request and its lock.
WalletRequest(t) ==
    /\ running
    /\ t \in unsent /\ PoolAccepts(chain, t)
    /\ unsent' = unsent \ {t}
    /\ pool' = pool \cup {t}
    /\ mapTxLockReq' = mapTxLockReq \cup {t}
    /\ CreateNewLock(t)
    /\ UNCHANGED <<mapTxLockReqRejected, invented, mapTxLockVote, mapLockedInputs,
                   handler, chain, depth, vAlphanodes, running>>

\* Its 20 minutes are over, or the second it was cancelled in.
Expire(t) ==
    /\ running
    /\ t \in mapTxLocks /\ nExpiration[t] # "past"
    /\ nExpiration' = [nExpiration EXCEPT ![t] = "past"]
    /\ UNCHANGED <<requests, mapTxLockVote, mapTxLocks, nBlockHeight,
                   vecConsensusVotes, mapLockedInputs, handler, node, running>>

UnlockNothing(ins) == UNCHANGED mapLockedInputs \* mutant
\* mapLockedInputs.erase(in.prevout), whoever holds it.
UnlockInputs(ins) ==
    mapLockedInputs' = [o \in Outpoints |-> IF o \in ins THEN NoTx ELSE mapLockedInputs[o]]

\* One round of CleanTransactionLocksList's loop.
CleanLock(t) ==
    /\ running
    /\ t \in mapTxLocks /\ nExpiration[t] = "past"
    /\ IF t \in mapTxLockReq
       THEN /\ UnlockInputs(IF t \in invented THEN {} ELSE Inputs[t])
            /\ mapTxLockReq' = mapTxLockReq \ {t}
            /\ invented' = invented \ {t}
            /\ mapTxLockReqRejected' = mapTxLockReqRejected \ {t}
            /\ mapTxLockVote' = mapTxLockVote \
                    {<<v.alphanode, t>> : v \in ToSet(vecConsensusVotes[t])}
       ELSE UNCHANGED <<requests, mapTxLockVote, mapLockedInputs>>
    /\ mapTxLocks' = mapTxLocks \ {t}
    /\ nBlockHeight' = [nBlockHeight EXCEPT ![t] = 0]
    /\ nExpiration' = [nExpiration EXCEPT ![t] = "later"]
    /\ vecConsensusVotes' = [vecConsensusVotes EXCEPT ![t] = <<>>]
    /\ UNCHANGED <<handler, node, running>>

-----------------------------------------------------------------------------
(* The rest of the node *)

\* A loose transaction arrives as "tx".
AcceptToMemoryPool(t) ==
    /\ running /\ handling = NoTx /\ t \notin unsent
    /\ PoolAccepts(chain, t)
    /\ pool' = pool \cup {t}
    /\ UNCHANGED <<requests, mapTxLockVote, txlocks, mapLockedInputs, handler,
                   chain, depth, vAlphanodes, unsent, running>>

\* A block with t extends the best chain: CheckBlock asks for locks.
ConnectBlock(t) ==
    /\ running /\ t \notin unsent
    /\ ~LockConflict(t) /\ Connects(chain, t)
    /\ chain' = chain \cup {t}
    /\ pool' = pool \ {t}
    /\ UNCHANGED <<requests, mapTxLockVote, txlocks, mapLockedInputs, handler,
                   depth, vAlphanodes, unsent, running>>

\* Reorganize: a block with t gives way to one with u, or to empty ones.
Reorganize(t, u) ==
    /\ running /\ t \in chain
    /\ u # NoTx => u \notin unsent /\ ~LockConflict(u) /\ Connects(chain \ {t}, u)
    /\ chain' = (chain \ {t}) \cup ({u} \ {NoTx})
    /\ LET resurrected == IF PoolAccepts(chain', t) THEN pool \cup {t} ELSE pool
       IN  pool' = {w \in resurrected : u # NoTx => w # u /\ ~Conflicting(w, u)}
    /\ UNCHANGED <<requests, mapTxLockVote, txlocks, mapLockedInputs, handler,
                   depth, vAlphanodes, unsent, running>>

\* Blocks bury the transaction of o.
Bury(o) ==
    /\ running /\ depth[o] < Deep
    /\ depth' = [depth EXCEPT ![o] = @ + 1]
    /\ UNCHANGED <<requests, mapTxLockVote, txlocks, mapLockedInputs, handler,
                   pool, chain, vAlphanodes, unsent, running>>

\* The alphanode list changes (CAlphanodeMan::Add, CheckAndRemove).
AlphanodeList(a) ==
    /\ running
    /\ vAlphanodes' = IF a \in vAlphanodes THEN vAlphanodes \ {a} ELSE vAlphanodes \cup {a}
    /\ UNCHANGED <<requests, mapTxLockVote, txlocks, mapLockedInputs, handler,
                   pool, chain, depth, unsent, running>>

\* The process ends, by itself or not, and starts anew: none of the maps of
\* instantx.cpp is saved, nor is the pool.
Restart ==
    /\ mapTxLockReq' = {} /\ mapTxLockReqRejected' = {} /\ invented' = {}
    /\ mapTxLockVote' = {}
    /\ mapTxLocks' = {}
    /\ nBlockHeight' = [t \in Txs |-> 0]
    /\ nExpiration' = [t \in Txs |-> "later"]
    /\ vecConsensusVotes' = [t \in Txs |-> <<>>]
    /\ mapLockedInputs' = [o \in Outpoints |-> NoTx]
    /\ handling' = NoTx /\ returned' = 0
    /\ pool' = {}
    /\ running' = TRUE
    /\ UNCHANGED <<chain, depth, vAlphanodes, unsent>>

-----------------------------------------------------------------------------

TxStep(t) ==
    \/ TxLockRequest(t) \/ TxLockAccepted(t) \/ TxLockRejected(t)
    \/ WalletRequest(t)
    \/ Expire(t) \/ CleanLock(t)
    \/ AcceptToMemoryPool(t) \/ ConnectBlock(t)
    \/ \E u \in Txs \cup {NoTx} : Reorganize(t, u)

Next ==
    \/ \E t \in Txs : TxStep(t)
    \/ \E v \in Votes : Vote(v)
    \/ \E o \in Outpoints : Bury(o)
    \/ \E a \in Alphanodes : AlphanodeList(a)
    \/ Restart

Spec == Init /\ [][Next]_vars

\* Time passes and ThreadCheckDarkSendPool comes round every minute.  A process
\* that aborted is started again.
Fairness ==
    /\ \A t \in Txs : WF_vars(Expire(t)) /\ WF_vars(CleanLock(t))
    /\ WF_vars(~running /\ Restart)

FairSpec == Spec /\ Fairness

-----------------------------------------------------------------------------
(* Properties *)

\* Every variable holds a value of its type, a lock record that is not there
\* the values it would be made with.
TypeOK ==
    /\ mapTxLockReq \subseteq Txs /\ mapTxLockReqRejected \subseteq Txs
    /\ invented \subseteq Txs
    /\ mapTxLockVote \subseteq Alphanodes \X Txs
    /\ mapTxLocks \subseteq Txs
    /\ nBlockHeight \in [Txs -> Nat]
    /\ nExpiration \in [Txs -> {"later", "now", "past"}]
    /\ vecConsensusVotes \in [Txs -> Seq(Votes)]
    /\ mapLockedInputs \in [Outpoints -> Txs \cup {NoTx}]
    /\ handling \in Txs \cup {NoTx} /\ returned \in Nat
    /\ pool \subseteq Txs /\ chain \subseteq Txs
    /\ depth \in [Outpoints -> 0..Deep]
    /\ vAlphanodes \subseteq Alphanodes
    /\ unsent \subseteq Own
    /\ running \in BOOLEAN
    /\ \A t \in Txs \ mapTxLocks :
          nBlockHeight[t] = 0 /\ nExpiration[t] = "later" /\ vecConsensusVotes[t] = <<>>

\* The alphanodes whose votes count for t's lock.
Voters(t) ==
    {a \in Alphanodes : \E i \in 1..Len(vecConsensusVotes[t]) :
        /\ vecConsensusVotes[t][i].alphanode = a
        /\ vecConsensusVotes[t][i].height = nBlockHeight[t]}

\* No alphanode counts twice for a lock, however often and through whomever
\* its vote arrives, and also after the lock was dropped and made again.
VotesCountedOnce ==
    \A t \in Txs : \A i, j \in 1..Len(vecConsensusVotes[t]) :
        /\ <<vecConsensusVotes[t][i].alphanode, t>> \in mapTxLockVote
        /\ vecConsensusVotes[t][i].alphanode = vecConsensusVotes[t][j].alphanode => i = j

\* The operator[] of ProcessConsensusVote never makes up a request: a lock has
\* a height, without which it cannot complete, only with its transaction
\* accepted or refused.
NothingInvented == invented = {}

\* A request is decided once, although it arrives again and again and the
\* wallet enters its own past the handler.
DecidedOnce == mapTxLockReq \cap mapTxLockReqRejected = {}

\* An input locked for an accepted request is locked by the votes of Required
\* different alphanodes, and by a lock record that will expire.
AcceptedLockHasQuorum ==
    \A o \in Outpoints : mapLockedInputs[o] \in mapTxLockReq =>
        LET t == mapLockedInputs[o]
        IN  /\ o \in Inputs[t]
            /\ t \in mapTxLocks
            /\ nBlockHeight[t] # 0
            /\ Cardinality(Voters(t)) >= Required

\* When votes complete the lock of an accepted request it gets every input or,
\* if another transaction has one, none: two conflicting requests never share
\* the inputs between them.
CompletedLocksAll ==
    [][\A t \in mapTxLockReq : ~Complete(t) /\ Complete(t)' =>
         \/ \A o \in Inputs[t] : mapLockedInputs'[o] = t
         \/ nExpiration'[t] = "now" /\ mapLockedInputs' = mapLockedInputs]_vars

\* A lock never goes from one transaction to another: mapLockedInputs behaves
\* as the lock table the pool and the block checks rely on.
Locks == INSTANCE LockTable
    WITH Txs <- Txs, NoTx <- NoTx, Outpoints <- Outpoints, Inputs <- Inputs,
         mapLockedInputs <- mapLockedInputs
LocksAreATable == Locks!Spec

\* The inputs of an accepted request are free again in the end, all at once.
LockedFor(t) == {o \in Outpoints : mapLockedInputs[o] = t}
AcceptedLocksEnd ==
    \A t \in Txs : t \in mapTxLockReq /\ LockedFor(t) # {} ~> LockedFor(t) = {}

=============================================================================
