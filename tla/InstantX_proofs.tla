--------------------------- MODULE InstantX_proofs ---------------------------
(***************************************************************************)
(* The safety properties of InstantX, for any transactions, alphanodes,    *)
(* votes and quorum.                                                       *)
(*                                                                         *)
(* The inductive invariant has three parts besides the types: every vote   *)
(* counted was seen and is counted once (VotesCountedOnce); a transaction  *)
(* is decided once, and a lock has a height only once it is being decided  *)
(* (Decisions); and who holds a lock was decided, with enough votes if it  *)
(* was accepted (Holders).                                                 *)
(***************************************************************************)
EXTENDS InstantX, FiniteSetTheorems, TLAPS

\* A request is decided once; while it is handled, or not yet sent, it is
\* undecided; a lock with a height is decided or being handled.
Decisions ==
    /\ mapTxLockReq \cap mapTxLockReqRejected = {}
    /\ handling \notin mapTxLockReq \cup mapTxLockReqRejected \cup unsent
    /\ unsent \cap (mapTxLockReq \cup mapTxLockReqRejected) = {}
    /\ invented = {}
    /\ \A t \in Txs : nBlockHeight[t] # 0 =>
          t \in mapTxLockReq \cup mapTxLockReqRejected \cup {handling}

\* An input is locked for a decided transaction that spends it and, if that
\* was accepted, by a complete lock.
Holders ==
    \A o \in Outpoints, t \in Txs : mapLockedInputs[o] = t =>
        /\ t \in mapTxLockReq \cup mapTxLockReqRejected
        /\ o \in Inputs[t]
        /\ t \in mapTxLockReq => t \in mapTxLocks /\ nBlockHeight[t] # 0 /\ Complete(t)

IndInv == TypeOK /\ VotesCountedOnce /\ Decisions /\ Holders

\* The actions of the rest of the node, and time.
OtherStep ==
    \/ \E t \in Txs : Expire(t) \/ AcceptToMemoryPool(t) \/ ConnectBlock(t)
    \/ \E t \in Txs, u \in Txs \cup {NoTx} : Reorganize(t, u)
    \/ \E o \in Outpoints : Bury(o)
    \/ \E a \in Alphanodes : AlphanodeList(a)
    \/ UNCHANGED vars

-----------------------------------------------------------------------------
(* Counting votes *)

\* CountSignatures counts positions of a list, a finite set of them.
LEMMA CountedFinite ==
  ASSUME NEW votes \in Seq(Votes), NEW h
  PROVE  /\ IsFiniteSet({i \in 1..Len(votes) : votes[i].height = h})
         /\ CountSignatures(votes, h) \in Nat
<1>1. IsFiniteSet(1..Len(votes))
  BY FS_Interval
<1>2. IsFiniteSet({i \in 1..Len(votes) : votes[i].height = h})
  BY <1>1, FS_Subset
<1> QED BY <1>2, FS_CardinalityType DEF CountSignatures

\* Without a vote or without a height nothing is complete.
LEMMA CountEmpty ==
  /\ \A h : CountSignatures(<<>>, h) = 0
  /\ \A votes : CountSignatures(votes, 0) = 0
<1>1. \A h : {i \in 1..Len(<<>>) : <<>>[i].height = h} = {}
  OBVIOUS
<1> QED BY <1>1, FS_EmptySet DEF CountSignatures

\* Another vote does not lower the count.
LEMMA CountAppend ==
  ASSUME NEW votes \in Seq(Votes), NEW v \in Votes, NEW h
  PROVE  CountSignatures(Append(votes, v), h) >= CountSignatures(votes, h)
<1> DEFINE more == Append(votes, v)
           A == {i \in 1..Len(votes) : votes[i].height = h}
           B == {i \in 1..Len(more) : more[i].height = h}
<1>1. more \in Seq(Votes) /\ Len(more) = Len(votes) + 1
      /\ \A i \in 1..Len(votes) : more[i] = votes[i]
  OBVIOUS
<1>2. A \subseteq B
  BY <1>1
<1>3. IsFiniteSet(B) /\ IsFiniteSet(A)
  BY <1>1, CountedFinite
<1>4. Cardinality(A) <= Cardinality(B) /\ Cardinality(A) \in Nat /\ Cardinality(B) \in Nat
  BY <1>2, <1>3, FS_Subset, FS_CardinalityType
<1>5. CASE h = 0
  BY <1>5 DEF CountSignatures
<1>6. CASE h # 0
  <2>1. CountSignatures(votes, h) = Cardinality(A)
    BY <1>6 DEF CountSignatures
  <2>2. CountSignatures(more, h) = Cardinality(B)
    BY <1>6 DEF CountSignatures
  <2> HIDE DEF A, B, more
  <2>3. CountSignatures(more, h) >= CountSignatures(votes, h)
    BY <2>1, <2>2, <1>4
  <2> QED BY <2>3 DEF more
<1> QED BY <1>5, <1>6

\* When no alphanode votes twice, the votes counted are as many as the
\* alphanodes that cast them.
LEMMA CountIsVoters ==
  ASSUME TypeOK, VotesCountedOnce, NEW t \in Txs, nBlockHeight[t] # 0
  PROVE  Cardinality(Voters(t)) = CountSignatures(vecConsensusVotes[t], nBlockHeight[t])
<1> USE InstantXAssumption
<1> DEFINE votes == vecConsensusVotes[t]
           A == {i \in 1..Len(votes) : votes[i].height = nBlockHeight[t]}
           f == [i \in A |-> votes[i].alphanode]
<1>1. votes \in Seq(Votes)
  BY DEF TypeOK
<1>2. \A i \in A : votes[i] \in [alphanode : Alphanodes, tx : Txs, height : Nat]
  BY <1>1
<1>3. f \in [A -> Voters(t)]
  BY <1>2 DEF Voters
<1>4. \A i, j \in A : f[i] = f[j] => i = j
  BY DEF VotesCountedOnce
<1>5. \A a \in Voters(t) : \E i \in A : f[i] = a
  BY DEF Voters
<1>6. f \in Bijection(A, Voters(t))
  BY <1>3, <1>4, <1>5 DEF Bijection, Injection, Surjection, IsInjective
<1>7. IsFiniteSet(A)
  BY <1>1, CountedFinite
<1>8. Cardinality(Voters(t)) = Cardinality(A)
  BY <1>6, <1>7, FS_Bijection DEF ExistsBijection
<1> QED BY <1>8 DEF CountSignatures

-----------------------------------------------------------------------------
(* What a vote does *)

\* A vote that completes a lock finds its request decided.  If it was refused
\* the process ends; if it was accepted, it gets the inputs or cancels.
LEMMA VoteCompletes ==
  ASSUME IndInv, NEW v \in Votes, handling = NoTx, v.tx \in Txs,
         nBlockHeight[v.tx] # 0, CompleteLock(v.tx)
  PROVE  /\ mapTxLockReq' = mapTxLockReq /\ invented' = {}
         /\ running' \in BOOLEAN
         /\ \/ /\ v.tx \in mapTxLockReq
               /\ Taken(Inputs[v.tx], v.tx) = {}
               /\ LockFree(Inputs[v.tx], v.tx)
               /\ UNCHANGED nExpiration
            \/ /\ v.tx \in mapTxLockReq
               /\ UNCHANGED mapLockedInputs
               /\ \E o \in Outpoints : Cancel({v.tx, mapLockedInputs[o]})
            \/ /\ v.tx \notin mapTxLockReq
               /\ UNCHANGED <<mapLockedInputs, nExpiration>>
<1> USE InstantXAssumption
<1> DEFINE t == v.tx
<1>1. invented = {} /\ t \in mapTxLockReq \cup mapTxLockReqRejected /\ running \in BOOLEAN
  BY DEF IndInv, Decisions, TypeOK
<1>2. CASE t \in mapTxLockReq
  <2>1. t \notin mapTxLockReqRejected /\ t \in mapTxLockReq \ invented
    BY <1>1, <1>2 DEF IndInv, Decisions
  <2>2. Taken(Inputs[t], t) \subseteq Outpoints
    BY DEF Taken
  <2>3. /\ mapTxLockReq' = mapTxLockReq \cup {t} /\ invented' = invented
        /\ UNCHANGED running
        /\ IF Taken(Inputs[t], t) # {}
           THEN /\ \E o \in Taken(Inputs[t], t) : Cancel({t, mapLockedInputs[o]})
                /\ UNCHANGED mapLockedInputs
           ELSE LockFree(Inputs[t], t) /\ UNCHANGED nExpiration
    BY <1>2, <2>1 DEF CompleteLock
  <2> QED BY <1>1, <1>2, <2>2, <2>3
<1>3. CASE t \notin mapTxLockReq
  <2>1. t \in mapTxLockReqRejected /\ Taken({}, t) = {}
    BY <1>1, <1>3 DEF Taken
  <2>2. /\ running' = FALSE
        /\ UNCHANGED <<mapTxLockReq, invented, nExpiration, mapLockedInputs>>
    BY <1>3, <2>1 DEF CompleteLock
  <2> QED BY <1>1, <1>3, <2>2
<1> QED BY <1>2, <1>3

\* A vote counted is the last of its lock's votes.
VoteCounted(v) ==
    /\ mapTxLocks' = mapTxLocks \cup {v.tx}
    /\ vecConsensusVotes' =
          [vecConsensusVotes EXCEPT ![v.tx] = Append(vecConsensusVotes[v.tx], v)]

\* A vote that locks nothing changes the expiration of nothing.
LocksNothing == UNCHANGED <<mapLockedInputs, nExpiration>>

\* A vote completed an accepted request: it gets what it spends, or cancels.
LocksOrCancels(t) ==
    /\ t \in mapTxLockReq /\ t \in mapTxLocks' /\ Complete(t)'
    /\ \/ /\ Taken(Inputs[t], t) = {}
          /\ LockFree(Inputs[t], t)
          /\ UNCHANGED nExpiration
       \/ /\ UNCHANGED mapLockedInputs
          /\ \E o \in Outpoints : Cancel({t, mapLockedInputs[o]})

\* What a vote does, from any state of the invariant.
LEMMA VoteEffect ==
  ASSUME IndInv, NEW v \in Votes, Vote(v)
  PROVE  /\ v.tx \in Txs /\ v.alphanode \in Alphanodes
         /\ <<v.alphanode, v.tx>> \notin mapTxLockVote
         /\ mapTxLockVote' = mapTxLockVote \cup {<<v.alphanode, v.tx>>}
         /\ mapTxLockReq' = mapTxLockReq /\ invented' = {}
         /\ UNCHANGED <<mapTxLockReqRejected, nBlockHeight, handler, node>>
         /\ running' \in BOOLEAN
         /\ \/ UNCHANGED <<mapTxLocks, vecConsensusVotes>> /\ LocksNothing
            \/ VoteCounted(v)
               /\ (v.tx \in mapTxLockReq => ~Complete(v.tx)') /\ LocksNothing
            \/ VoteCounted(v) /\ v.tx \notin mapTxLockReq /\ LocksNothing
            \/ VoteCounted(v) /\ LocksOrCancels(v.tx)
<1> USE InstantXAssumption
<1> DEFINE t == v.tx
           votes == Append(vecConsensusVotes[t], v)
<1>1. v \in [alphanode : Alphanodes, tx : Txs, height : Nat]
  OBVIOUS
<1>2. /\ vecConsensusVotes \in [Txs -> Seq(Votes)] /\ invented = {}
      /\ running \in BOOLEAN
  BY DEF IndInv, TypeOK, Decisions
<1>3. /\ <<v.alphanode, t>> \notin mapTxLockVote
      /\ mapTxLockVote' = mapTxLockVote \cup {<<v.alphanode, t>>}
      /\ UNCHANGED <<mapTxLockReqRejected, nBlockHeight, handler, node>>
      /\ handling = NoTx
  BY DEF Vote, SeeVote
<1>4. CASE ~InTop(v.alphanode, v.height)
  BY <1>1, <1>2, <1>3, <1>4 DEF Vote, LocksNothing
<1>5. CASE InTop(v.alphanode, v.height)
  <2>1. VoteCounted(v) /\ vecConsensusVotes'[t] = votes
    BY <1>1, <1>2, <1>5 DEF Vote, CountVote, VoteCounted
  <2>2. Complete(t)' <=> CountSignatures(votes, nBlockHeight[t]) >= Required
    BY <1>3, <2>1 DEF Complete
  <2>3. CASE CountSignatures(votes, nBlockHeight[t]) >= Required
    <3>1. CompleteLock(t)
      BY <1>5, <2>3 DEF Vote, CountVote
    <3>2. nBlockHeight[t] # 0
      BY <2>3, CountEmpty
    <3>3. t \in mapTxLocks'
      BY <2>1 DEF VoteCounted
    <3>4. /\ mapTxLockReq' = mapTxLockReq /\ invented' = {}
          /\ running' \in BOOLEAN
          /\ \/ LocksOrCancels(t)
             \/ t \notin mapTxLockReq /\ LocksNothing
      BY <1>1, <1>3, <2>2, <2>3, <3>1, <3>2, <3>3, VoteCompletes
      DEF LocksOrCancels, LocksNothing
    <3> QED BY <1>1, <1>3, <2>1, <3>4
  <2>4. CASE ~(CountSignatures(votes, nBlockHeight[t]) >= Required)
    <3>1. UNCHANGED <<mapTxLockReq, invented, nExpiration, mapLockedInputs, running>>
      BY <1>5, <2>4 DEF Vote, CountVote
    <3> QED BY <1>1, <1>2, <1>3, <2>1, <2>2, <2>4, <3>1 DEF LocksNothing
  <2> QED BY <2>3, <2>4
<1> QED BY <1>4, <1>5

-----------------------------------------------------------------------------
(* The steps *)

\* What the other steps have in common.
LEMMA OtherEffect ==
  ASSUME OtherStep
  PROVE  UNCHANGED <<requests, mapTxLockVote, mapTxLocks, nBlockHeight,
                     vecConsensusVotes, mapLockedInputs, handler, unsent>>
BY DEF OtherStep, Expire, AcceptToMemoryPool, ConnectBlock, Reorganize, Bury,
       AlphanodeList, vars, txlocks, node, requests

\* Every step is of one of these kinds.
LEMMA StepKinds ==
  ASSUME [Next]_vars
  PROVE  \/ \E t \in Txs : TxLockRequest(t) \/ TxLockAccepted(t) \/ TxLockRejected(t)
                           \/ WalletRequest(t) \/ CleanLock(t)
         \/ \E v \in Votes : Vote(v)
         \/ Restart
         \/ OtherStep
BY DEF Next, TxStep, OtherStep

\* CreateNewLock touches the lock of its transaction only.
LEMMA CreateNewLockEffect ==
  ASSUME TypeOK, NEW t \in Txs, CreateNewLock(t)
  PROVE  /\ mapTxLocks \subseteq mapTxLocks' /\ mapTxLocks' \subseteq mapTxLocks \cup {t}
         /\ nBlockHeight' \in [Txs -> Nat]
         /\ \A u \in Txs \ {t} : nBlockHeight'[u] = nBlockHeight[u]
         /\ \A u \in Txs \ mapTxLocks' : nBlockHeight'[u] = nBlockHeight[u]
         /\ UNCHANGED <<nExpiration, vecConsensusVotes>>
BY InstantXAssumption DEF CreateNewLock, TypeOK, txlocks

\* Cancelling keeps the types.
LEMMA CancelEffect ==
  ASSUME TypeOK, NEW ts, Cancel(ts)
  PROVE  /\ nExpiration' \in [Txs -> {"later", "now", "past"}]
         /\ \A t \in Txs \ mapTxLocks' : nExpiration'[t] = nExpiration[t]
BY DEF TypeOK, Cancel

\* LockFree keeps the type, and gives t what it may have.
LEMMA LockFreeEffect ==
  ASSUME TypeOK, NEW t \in Txs, NEW ins, LockFree(ins, t)
  PROVE  /\ mapLockedInputs' \in [Outpoints -> Txs \cup {NoTx}]
         /\ \A o \in Outpoints : \/ mapLockedInputs'[o] = mapLockedInputs[o]
                                 \/ o \in ins /\ mapLockedInputs'[o] = t
BY DEF TypeOK, LockFree

\* The types, step by step.
LEMMA TypeStep ==
  ASSUME IndInv, [Next]_vars
  PROVE  TypeOK'
<1> USE InstantXAssumption
<1>0. TypeOK
  BY DEF IndInv
<1>1. CASE \E t \in Txs : TxLockRequest(t)
  <2>1. PICK t \in Txs : TxLockRequest(t)
    BY <1>1
  <2>2. CreateNewLock(t) /\ handling' = t /\ returned' \in Nat
    BY <2>1 DEF TxLockRequest, LockHeightOrZero
  <2> QED BY <1>0, <2>1, <2>2, CreateNewLockEffect, SMTT(30)
          DEF TypeOK, TxLockRequest, requests, node
<1>2. CASE \E t \in Txs : TxLockAccepted(t)
  <2>1. PICK t \in Txs : TxLockAccepted(t)
    BY <1>2
  <2>2. InTop(Self, returned) => Self \in Alphanodes
    BY <1>0 DEF InTop, TypeOK
  <2> QED BY <1>0, <2>1, <2>2 DEF TypeOK, TxLockAccepted, DoConsensusVote, txlocks
<1>3. CASE \E t \in Txs : TxLockRejected(t)
  <2>1. PICK t \in Txs : TxLockRejected(t)
    BY <1>3
  <2>2. mapLockedInputs' \in [Outpoints -> Txs \cup {NoTx}]
    BY <1>0, <2>1, LockFreeEffect DEF TxLockRejected
  <2>3. /\ nExpiration' \in [Txs -> {"later", "now", "past"}]
        /\ \A u \in Txs \ mapTxLocks' : nExpiration'[u] = nExpiration[u]
        /\ running' \in BOOLEAN
    <3>1. CASE t \in mapTxLocks /\ Complete(t) /\ Taken(Inputs[t], t) # {}
      BY <1>0, <2>1, <3>1, CancelEffect DEF TxLockRejected, TypeOK
    <3>2. CASE ~(t \in mapTxLocks /\ Complete(t)) \/ Taken(Inputs[t], t) = {}
      BY <1>0, <2>1, <3>2 DEF TxLockRejected, TypeOK
    <3> QED BY <3>1, <3>2
  <2> QED BY <1>0, <2>1, <2>2, <2>3 DEF TypeOK, TxLockRejected, RecordRejected, node
<1>4. CASE \E t \in Txs : WalletRequest(t)
  <2>1. PICK t \in Txs : WalletRequest(t)
    BY <1>4
  <2>2. CreateNewLock(t)
    BY <2>1 DEF WalletRequest
  <2> QED BY <1>0, <2>1, <2>2, CreateNewLockEffect DEF TypeOK, WalletRequest, handler
<1>5. CASE \E t \in Txs : CleanLock(t)
  <2>1. PICK t \in Txs : CleanLock(t)
    BY <1>5
  <2>2. /\ mapTxLockReq' \subseteq mapTxLockReq /\ invented' \subseteq invented
        /\ mapTxLockReqRejected' \subseteq mapTxLockReqRejected
        /\ mapTxLockVote' \subseteq mapTxLockVote
        /\ mapLockedInputs' \in [Outpoints -> Txs \cup {NoTx}]
    BY <1>0, <2>1 DEF TypeOK, CleanLock, UnlockInputs, requests
  <2>3. <<>> \in Seq(Votes)
    OBVIOUS
  <2>4. UNCHANGED <<handling, returned, pool, chain, depth, vAlphanodes, unsent, running>>
    BY <2>1 DEF CleanLock, handler, node
  <2>5. /\ mapTxLocks' = mapTxLocks \ {t}
        /\ nBlockHeight' = [nBlockHeight EXCEPT ![t] = 0]
        /\ nExpiration' = [nExpiration EXCEPT ![t] = "later"]
        /\ vecConsensusVotes' = [vecConsensusVotes EXCEPT ![t] = <<>>]
    BY <2>1 DEF CleanLock
  <2> QED BY <1>0, <2>2, <2>3, <2>4, <2>5 DEF TypeOK
<1>6. CASE \E v \in Votes : Vote(v)
  <2>1. PICK v \in Votes : Vote(v)
    BY <1>6
  <2>2. /\ v.tx \in Txs /\ v.alphanode \in Alphanodes
        /\ mapTxLockVote' = mapTxLockVote \cup {<<v.alphanode, v.tx>>}
        /\ mapTxLockReq' = mapTxLockReq /\ invented' = {} /\ running' \in BOOLEAN
        /\ UNCHANGED <<mapTxLockReqRejected, nBlockHeight, handler, node>>
    BY <2>1, VoteEffect
  <2>3. \/ UNCHANGED <<mapTxLocks, vecConsensusVotes>>
        \/ VoteCounted(v)
    BY <2>1, VoteEffect
  <2>4. LocksNothing \/ LocksOrCancels(v.tx)
    BY <2>1, VoteEffect
  <2>5. /\ mapTxLocks \subseteq mapTxLocks' /\ mapTxLocks' \subseteq Txs
        /\ vecConsensusVotes' \in [Txs -> Seq(Votes)]
        /\ \A u \in Txs \ mapTxLocks' : vecConsensusVotes'[u] = vecConsensusVotes[u]
    <3>1. Append(vecConsensusVotes[v.tx], v) \in Seq(Votes)
      BY <1>0, <2>2 DEF TypeOK
    <3>2. CASE VoteCounted(v)
      BY <1>0, <2>2, <3>1, <3>2 DEF TypeOK, VoteCounted
    <3>3. CASE UNCHANGED <<mapTxLocks, vecConsensusVotes>>
      BY <1>0, <3>3 DEF TypeOK
    <3> QED BY <2>3, <3>2, <3>3
  <2>6. /\ nExpiration' \in [Txs -> {"later", "now", "past"}]
        /\ \A u \in Txs \ mapTxLocks' : nExpiration'[u] = nExpiration[u]
    BY <1>0, <2>4, CancelEffect DEF LocksNothing, LocksOrCancels, TypeOK
  <2>7. mapLockedInputs' \in [Outpoints -> Txs \cup {NoTx}]
    BY <1>0, <2>2, <2>4, LockFreeEffect DEF LocksNothing, LocksOrCancels, TypeOK
  <2> QED BY <1>0, <2>2, <2>5, <2>6, <2>7 DEF TypeOK, handler, node
<1>7. CASE Restart
  BY <1>0, <1>7 DEF TypeOK, Restart
<1>8. CASE OtherStep
  <2>1. CASE \E t \in Txs : Expire(t)
    <3>1. PICK t \in Txs : Expire(t)
      BY <2>1
    <3>2. /\ t \in mapTxLocks /\ nExpiration' = [nExpiration EXCEPT ![t] = "past"]
          /\ UNCHANGED <<mapTxLocks, nBlockHeight, vecConsensusVotes>>
      BY <3>1 DEF Expire
    <3>3. /\ UNCHANGED <<mapTxLockReq, mapTxLockReqRejected, invented, mapTxLockVote>>
          /\ UNCHANGED <<mapLockedInputs, handling, returned>>
          /\ UNCHANGED <<pool, chain, depth, vAlphanodes, unsent, running>>
      BY <3>1 DEF Expire, requests, handler, node
    <3> QED BY <1>0, <3>2, <3>3 DEF TypeOK
  <2>2. CASE \E t \in Txs : AcceptToMemoryPool(t) \/ ConnectBlock(t)
    <3>1. PICK t \in Txs : AcceptToMemoryPool(t) \/ ConnectBlock(t)
      BY <2>2
    <3>2. /\ UNCHANGED <<requests, txlocks, handler, mapTxLockVote, mapLockedInputs>>
          /\ UNCHANGED <<depth, vAlphanodes, unsent, running>>
          /\ pool' \subseteq pool \cup {t} /\ chain' \subseteq chain \cup {t}
      BY <3>1 DEF AcceptToMemoryPool, ConnectBlock
    <3> QED BY <1>0, <3>2 DEF TypeOK, requests, txlocks, handler
  <2>3. CASE \E t \in Txs, u \in Txs \cup {NoTx} : Reorganize(t, u)
    <3>1. PICK t \in Txs, u \in Txs \cup {NoTx} : Reorganize(t, u)
      BY <2>3
    <3>2. /\ UNCHANGED <<requests, txlocks, handler, mapTxLockVote, mapLockedInputs>>
          /\ UNCHANGED <<depth, vAlphanodes, unsent, running>>
          /\ pool' \subseteq pool \cup {t}
          /\ chain' = (chain \ {t}) \cup ({u} \ {NoTx})
      BY <3>1 DEF Reorganize
    <3> QED BY <1>0, <3>2 DEF TypeOK, requests, txlocks, handler
  <2>4. CASE \E o \in Outpoints : Bury(o)
    <3>1. PICK o \in Outpoints : Bury(o)
      BY <2>4
    <3>2. /\ UNCHANGED <<requests, txlocks, handler, mapTxLockVote, mapLockedInputs>>
          /\ UNCHANGED <<pool, chain, vAlphanodes, unsent, running>>
          /\ depth[o] < Deep /\ depth' = [depth EXCEPT ![o] = depth[o] + 1]
      BY <3>1 DEF Bury
    <3>3. depth \in [Outpoints -> 0..Deep]
      BY <1>0 DEF TypeOK
    <3>4. depth[o] + 1 \in 0..Deep
      BY <3>2, <3>3 DEF Deep
    <3>5. depth' \in [Outpoints -> 0..Deep]
      BY <3>2, <3>3, <3>4
    <3> QED BY <1>0, <3>2, <3>5 DEF TypeOK, requests, txlocks, handler
  <2>5. CASE \E a \in Alphanodes : AlphanodeList(a)
    BY <1>0, <2>5 DEF TypeOK, AlphanodeList, requests, txlocks, handler
  <2>6. CASE UNCHANGED vars
    BY <1>0, <2>6 DEF TypeOK, vars, requests, txlocks, handler, node
  <2> QED BY <1>8, <2>1, <2>2, <2>3, <2>4, <2>5, <2>6 DEF OtherStep
<1> QED BY <1>1, <1>2, <1>3, <1>4, <1>5, <1>6, <1>7, <1>8, StepKinds

\* A vote is refused when its alphanode's vote was seen, and a lock forgets
\* the votes it forgets to have seen.
LEMMA VotesStep ==
  ASSUME IndInv, [Next]_vars
  PROVE  VotesCountedOnce'
<1> USE InstantXAssumption
<1>0. TypeOK /\ VotesCountedOnce
  BY DEF IndInv
<1>1. CASE mapTxLockVote \subseteq mapTxLockVote' /\ UNCHANGED vecConsensusVotes
  BY <1>0, <1>1 DEF VotesCountedOnce
<1>2. CASE \E t \in Txs : TxLockRequest(t) \/ TxLockAccepted(t) \/ TxLockRejected(t)
                          \/ WalletRequest(t)
  <2>1. mapTxLockVote \subseteq mapTxLockVote' /\ UNCHANGED vecConsensusVotes
    BY <1>2 DEF TxLockRequest, TxLockAccepted, TxLockRejected, WalletRequest,
                CreateNewLock, DoConsensusVote, txlocks
  <2> QED BY <2>1, <1>1
<1>3. CASE \E t \in Txs : CleanLock(t)
  <2>1. PICK t \in Txs : CleanLock(t)
    BY <1>3
  <2>2. vecConsensusVotes' = [vecConsensusVotes EXCEPT ![t] = <<>>]
    BY <2>1 DEF CleanLock
  <2>3. \A a, u : u # t /\ <<a, u>> \in mapTxLockVote => <<a, u>> \in mapTxLockVote'
    BY <2>1 DEF CleanLock
  <2>4. SUFFICES ASSUME NEW u \in Txs, NEW i \in 1..Len(vecConsensusVotes'[u]),
                        NEW j \in 1..Len(vecConsensusVotes'[u])
                 PROVE  /\ <<vecConsensusVotes'[u][i].alphanode, u>> \in mapTxLockVote'
                        /\ vecConsensusVotes'[u][i].alphanode
                                = vecConsensusVotes'[u][j].alphanode => i = j
    BY DEF VotesCountedOnce
  <2>5. u # t /\ vecConsensusVotes'[u] = vecConsensusVotes[u]
    BY <1>0, <2>2 DEF TypeOK
  <2> QED BY <1>0, <2>3, <2>5 DEF VotesCountedOnce
<1>4. CASE \E v \in Votes : Vote(v)
  <2>1. PICK v \in Votes : Vote(v)
    BY <1>4
  <2>2. /\ v.tx \in Txs
        /\ <<v.alphanode, v.tx>> \notin mapTxLockVote
        /\ mapTxLockVote' = mapTxLockVote \cup {<<v.alphanode, v.tx>>}
        /\ UNCHANGED vecConsensusVotes \/ VoteCounted(v)
    BY <2>1, VoteEffect
  <2>3. CASE VoteCounted(v)
    <3>1. SUFFICES ASSUME NEW u \in Txs, NEW i \in 1..Len(vecConsensusVotes'[u]),
                          NEW j \in 1..Len(vecConsensusVotes'[u])
                   PROVE  /\ <<vecConsensusVotes'[u][i].alphanode, u>> \in mapTxLockVote'
                          /\ vecConsensusVotes'[u][i].alphanode
                                  = vecConsensusVotes'[u][j].alphanode => i = j
      BY DEF VotesCountedOnce
    <3>2. CASE u # v.tx
      <4>1. vecConsensusVotes'[u] = vecConsensusVotes[u]
        BY <1>0, <2>3, <3>2 DEF TypeOK, VoteCounted
      <4> QED BY <1>0, <2>2, <4>1 DEF VotesCountedOnce
    <3>3. CASE u = v.tx
      <4> DEFINE votes == vecConsensusVotes[u]
                 more == Append(votes, v)
      <4>1. vecConsensusVotes'[u] = more /\ votes \in Seq(Votes)
        BY <1>0, <2>3, <3>3 DEF TypeOK, VoteCounted
      <4>2. /\ Len(more) = Len(votes) + 1 /\ more[Len(votes) + 1] = v
            /\ \A k \in 1..Len(votes) : more[k] = votes[k]
        BY <4>1
      <4>3. \A k \in 1..Len(votes) : /\ <<votes[k].alphanode, u>> \in mapTxLockVote
                                     /\ votes[k].alphanode # v.alphanode
        BY <1>0, <2>2, <3>3 DEF VotesCountedOnce
      <4>4. \A k, l \in 1..Len(votes) : votes[k].alphanode = votes[l].alphanode => k = l
        BY <1>0 DEF VotesCountedOnce
      <4> HIDE DEF votes, more
      <4>5. Len(votes) \in Nat
        BY <4>1
      <4>6. \A k \in 1..Len(more) : k \in 1..Len(votes) \/ k = Len(votes) + 1
        BY <4>2, <4>5
      <4>7. \A k \in 1..Len(more) : <<more[k].alphanode, u>> \in mapTxLockVote'
        BY <2>2, <3>3, <4>2, <4>3, <4>6
      <4>8. \A k, l \in 1..Len(more) : more[k].alphanode = more[l].alphanode => k = l
        BY <4>2, <4>3, <4>4, <4>6
      <4> QED BY <4>1, <4>7, <4>8
    <3> QED BY <3>2, <3>3
  <2> QED BY <1>1, <2>2, <2>3
<1>5. CASE Restart
  <2>1. \A u \in Txs : vecConsensusVotes'[u] = <<>>
    BY <1>5 DEF Restart
  <2> QED BY <2>1 DEF VotesCountedOnce
<1>6. CASE OtherStep
  BY <1>1, <1>6, OtherEffect
<1> QED BY <1>2, <1>3, <1>4, <1>5, <1>6, StepKinds

\* A request is decided by the handler that holds it or by the wallet that
\* sends it, and only then.
LEMMA DecisionsStep ==
  ASSUME IndInv, [Next]_vars
  PROVE  Decisions'
<1> USE InstantXAssumption
<1>0. TypeOK /\ Decisions
  BY DEF IndInv
<1>1. CASE \E t \in Txs : TxLockRequest(t)
  <2>1. PICK t \in Txs : TxLockRequest(t)
    BY <1>1
  <2>2. /\ ~Decided(t) /\ t \notin unsent /\ handling = NoTx /\ handling' = t
        /\ UNCHANGED <<mapTxLockReq, mapTxLockReqRejected, invented, unsent>>
        /\ CreateNewLock(t)
    BY <2>1 DEF TxLockRequest, requests, node
  <2>3. \A u \in Txs \ {t} : nBlockHeight'[u] = nBlockHeight[u]
    BY <1>0, <2>2, CreateNewLockEffect
  <2> QED BY <1>0, <2>2, <2>3 DEF Decisions, Decided
<1>2. CASE \E t \in Txs : TxLockAccepted(t)
  BY <1>0, <1>2 DEF Decisions, TypeOK, TxLockAccepted, txlocks
<1>3. CASE \E t \in Txs : TxLockRejected(t)
  BY <1>0, <1>3 DEF Decisions, TypeOK, TxLockRejected, RecordRejected, node
<1>4. CASE \E t \in Txs : WalletRequest(t)
  <2>1. PICK t \in Txs : WalletRequest(t)
    BY <1>4
  <2>2. /\ t \in unsent /\ unsent' = unsent \ {t}
        /\ mapTxLockReq' = mapTxLockReq \cup {t}
        /\ UNCHANGED <<mapTxLockReqRejected, invented, handling>>
        /\ CreateNewLock(t)
    BY <2>1 DEF WalletRequest, handler
  <2>3. \A u \in Txs \ {t} : nBlockHeight'[u] = nBlockHeight[u]
    BY <1>0, <2>2, CreateNewLockEffect
  <2> QED BY <1>0, <2>2, <2>3 DEF Decisions
<1>5. CASE \E t \in Txs : CleanLock(t)
  <2>1. PICK t \in Txs : CleanLock(t)
    BY <1>5
  <2>2. /\ mapTxLockReq' = mapTxLockReq \ {t} /\ invented' = {}
        /\ mapTxLockReqRejected' \subseteq mapTxLockReqRejected
        /\ mapTxLockReqRejected \subseteq mapTxLockReqRejected' \cup {t}
        /\ UNCHANGED <<handling, unsent>>
        /\ nBlockHeight' = [nBlockHeight EXCEPT ![t] = 0]
    BY <1>0, <2>1 DEF CleanLock, Decisions, requests, handler, node
  <2> QED BY <1>0, <2>2 DEF Decisions, TypeOK
<1>6. CASE \E v \in Votes : Vote(v)
  <2>1. /\ mapTxLockReq' = mapTxLockReq /\ invented' = {}
        /\ UNCHANGED <<mapTxLockReqRejected, nBlockHeight, handling, unsent>>
    BY <1>6, VoteEffect DEF handler, node
  <2> QED BY <1>0, <2>1 DEF Decisions
<1>7. CASE Restart
  BY <1>0, <1>7 DEF Decisions, TypeOK, Restart
<1>8. CASE OtherStep
  <2>1. UNCHANGED <<mapTxLockReq, mapTxLockReqRejected, invented, nBlockHeight,
                    handling, unsent>>
    BY <1>8, OtherEffect DEF requests, handler
  <2> QED BY <1>0, <2>1 DEF Decisions
<1> QED BY <1>1, <1>2, <1>3, <1>4, <1>5, <1>6, <1>7, <1>8, StepKinds

\* What holds a lock was decided; the votes of an accepted one only grow in
\* number until its lock record goes, and the inputs with it.
LEMMA HoldersStep ==
  ASSUME IndInv, [Next]_vars
  PROVE  Holders'
<1> USE InstantXAssumption
<1>0. TypeOK /\ Decisions /\ Holders
  BY DEF IndInv
<1>1. SUFFICES ASSUME NEW o \in Outpoints, NEW h \in Txs, mapLockedInputs'[o] = h
               PROVE  /\ h \in mapTxLockReq' \cup mapTxLockReqRejected'
                      /\ o \in Inputs[h]
                      /\ h \in mapTxLockReq' =>
                            h \in mapTxLocks' /\ nBlockHeight'[h] # 0 /\ Complete(h)'
  BY DEF Holders
\* It suffices that a holder stays decided, and does not lose votes.
<1>2. ASSUME mapLockedInputs[o] = h,
             h \in mapTxLockReq' <=> h \in mapTxLockReq,
             h \in mapTxLockReqRejected => h \in mapTxLockReqRejected',
             mapTxLocks \subseteq mapTxLocks', nBlockHeight'[h] = nBlockHeight[h],
             vecConsensusVotes'[h] = vecConsensusVotes[h]
      PROVE  /\ h \in mapTxLockReq' \cup mapTxLockReqRejected'
             /\ o \in Inputs[h]
             /\ h \in mapTxLockReq' =>
                   h \in mapTxLocks' /\ nBlockHeight'[h] # 0 /\ Complete(h)'
  BY <1>0, <1>2 DEF Holders, Complete
<1>3. CASE \E t \in Txs : TxLockRequest(t)
  <2>1. PICK t \in Txs : TxLockRequest(t)
    BY <1>3
  <2>2. /\ ~Decided(t) /\ CreateNewLock(t)
        /\ UNCHANGED <<mapTxLockReq, mapTxLockReqRejected, mapLockedInputs>>
    BY <2>1 DEF TxLockRequest, requests
  <2>3. mapLockedInputs[o] = h /\ h # t
    BY <1>0, <1>1, <2>2 DEF Holders, Decided
  <2> QED BY <1>0, <1>2, <2>2, <2>3, CreateNewLockEffect
<1>4. CASE \E t \in Txs : TxLockAccepted(t)
  <2>1. PICK t \in Txs : TxLockAccepted(t)
    BY <1>4
  <2>2. /\ handling = t /\ mapTxLockReq' = mapTxLockReq \cup {t}
        /\ UNCHANGED <<mapTxLockReqRejected, mapLockedInputs, txlocks>>
    BY <2>1 DEF TxLockAccepted
  <2>3. mapLockedInputs[o] = h /\ h # t
    BY <1>0, <1>1, <2>2 DEF Holders, Decisions
  <2> QED BY <1>2, <2>2, <2>3 DEF txlocks
<1>5. CASE \E t \in Txs : TxLockRejected(t)
  <2>1. PICK t \in Txs : TxLockRejected(t)
    BY <1>5
  <2>2. /\ handling = t /\ mapTxLockReqRejected' = mapTxLockReqRejected \cup {t}
        /\ LockFree(Inputs[t], t)
        /\ UNCHANGED <<mapTxLockReq, mapTxLocks, nBlockHeight, vecConsensusVotes>>
    BY <2>1 DEF TxLockRejected, RecordRejected
  <2>3. CASE mapLockedInputs[o] = h
    BY <1>2, <2>2, <2>3
  <2>4. CASE mapLockedInputs[o] # h
    <3>1. h = t /\ o \in Inputs[t]
      BY <1>0, <1>1, <2>2, <2>4, LockFreeEffect
    <3> QED BY <1>0, <2>2, <3>1 DEF Decisions
  <2> QED BY <2>3, <2>4
<1>6. CASE \E t \in Txs : WalletRequest(t)
  <2>1. PICK t \in Txs : WalletRequest(t)
    BY <1>6
  <2>2. /\ t \in unsent /\ mapTxLockReq' = mapTxLockReq \cup {t}
        /\ CreateNewLock(t)
        /\ UNCHANGED <<mapTxLockReqRejected, mapLockedInputs>>
    BY <2>1 DEF WalletRequest
  <2>3. mapLockedInputs[o] = h /\ h # t
    BY <1>0, <1>1, <2>2 DEF Holders, Decisions
  <2> QED BY <1>0, <1>2, <2>2, <2>3, CreateNewLockEffect
<1>7. CASE \E t \in Txs : CleanLock(t)
  <2>1. PICK t \in Txs : CleanLock(t)
    BY <1>7
  <2>2. /\ mapTxLocks' = mapTxLocks \ {t}
        /\ nBlockHeight' = [nBlockHeight EXCEPT ![t] = 0]
        /\ vecConsensusVotes' = [vecConsensusVotes EXCEPT ![t] = <<>>]
        /\ mapTxLockReq' = mapTxLockReq \ {t}
        /\ mapTxLockReqRejected \ {t} \subseteq mapTxLockReqRejected'
        /\ t \notin mapTxLockReq => mapTxLockReqRejected' = mapTxLockReqRejected
    BY <2>1 DEF CleanLock, requests
  <2>3. mapLockedInputs[o] = h
    BY <1>0, <1>1, <2>1, InstantXAssumption DEF CleanLock, UnlockInputs, TypeOK
  <2>4. CASE h # t
    BY <1>0, <1>1, <2>2, <2>3, <2>4 DEF Holders, Complete, TypeOK
  <2>5. CASE h = t
    <3>1. t \notin mapTxLockReq
      <4>1. SUFFICES ASSUME t \in mapTxLockReq PROVE FALSE
        OBVIOUS
      <4>2. UnlockInputs(Inputs[t])
        BY <1>0, <2>1, <4>1 DEF CleanLock, Decisions
      <4>3. o \in Inputs[t]
        BY <1>0, <2>3, <2>5 DEF Holders
      <4>4. mapLockedInputs'[o] = NoTx
        BY <4>2, <4>3 DEF UnlockInputs
      <4> QED BY <1>1, <4>4
    <3> QED BY <1>0, <2>2, <2>3, <2>5, <3>1 DEF Holders
  <2> QED BY <2>4, <2>5
<1>8. CASE \E v \in Votes : Vote(v)
  <2>1. PICK v \in Votes : Vote(v)
    BY <1>8
  <2>2. /\ v.tx \in Txs /\ mapTxLockReq' = mapTxLockReq
        /\ UNCHANGED <<mapTxLockReqRejected, nBlockHeight>>
        /\ UNCHANGED <<mapTxLocks, vecConsensusVotes>> \/ VoteCounted(v)
        /\ LocksNothing \/ LocksOrCancels(v.tx)
    BY <2>1, VoteEffect
  <2>3. mapTxLocks \subseteq mapTxLocks'
    BY <2>2 DEF VoteCounted
  <2>4. \A u \in Txs : Complete(u) => Complete(u)'
    <3>1. TAKE u \in Txs
    <3>2. CASE vecConsensusVotes'[u] = vecConsensusVotes[u]
      BY <2>2, <3>2 DEF Complete
    <3>3. CASE VoteCounted(v) /\ u = v.tx
      <4>1. /\ vecConsensusVotes[u] \in Seq(Votes) /\ nBlockHeight[u] \in Nat
            /\ vecConsensusVotes'[u] = Append(vecConsensusVotes[u], v)
        BY <1>0, <2>2, <3>3 DEF TypeOK, VoteCounted
      <4>2. Append(vecConsensusVotes[u], v) \in Seq(Votes)
        BY <4>1
      <4>3. /\ CountSignatures(vecConsensusVotes'[u], nBlockHeight[u])
                  >= CountSignatures(vecConsensusVotes[u], nBlockHeight[u])
            /\ CountSignatures(vecConsensusVotes'[u], nBlockHeight[u]) \in Nat
            /\ CountSignatures(vecConsensusVotes[u], nBlockHeight[u]) \in Nat
        BY <4>1, <4>2, CountAppend, CountedFinite
      <4> QED BY <2>2, <4>3 DEF Complete
    <3> QED BY <1>0, <2>2, <3>2, <3>3 DEF TypeOK, VoteCounted
  <2>5. CASE mapLockedInputs[o] = h
    BY <1>0, <2>2, <2>3, <2>4, <2>5 DEF Holders
  <2>6. CASE mapLockedInputs[o] # h
    <3>1. LocksOrCancels(v.tx) /\ h = v.tx /\ o \in Inputs[v.tx]
      BY <1>0, <1>1, <2>2, <2>6, LockFreeEffect DEF LocksNothing, LocksOrCancels
    <3>2. h \in mapTxLockReq /\ h \in mapTxLocks' /\ Complete(h)'
      BY <3>1 DEF LocksOrCancels
    <3>3. nBlockHeight'[h] # 0
      BY <3>2, CountEmpty DEF Complete
    <3> QED BY <2>2, <3>1, <3>2, <3>3
  <2> QED BY <2>5, <2>6
<1>9. CASE Restart
  BY <1>1, <1>9 DEF Restart
<1>10. CASE OtherStep
  <2>1. UNCHANGED <<mapTxLockReq, mapTxLockReqRejected, mapTxLocks, nBlockHeight,
                    vecConsensusVotes, mapLockedInputs>>
    BY <1>10, OtherEffect DEF requests
  <2> QED BY <1>1, <1>2, <2>1
<1> QED BY <1>3, <1>4, <1>5, <1>6, <1>7, <1>8, <1>9, <1>10, StepKinds

-----------------------------------------------------------------------------
(* The theorems *)

\* The inductive invariant holds of the specification.
THEOREM Invariance == Spec => []IndInv
<1> USE InstantXAssumption
<1>1. Init => IndInv
  <2>1. SUFFICES ASSUME Init PROVE IndInv
    OBVIOUS
  <2>2. <<>> \in Seq(Votes)
    OBVIOUS
  <2>3. TypeOK
    BY <2>1, <2>2 DEF Init, EmptyMaps, TypeOK, Deep
  <2>4. VotesCountedOnce
    BY <2>1 DEF Init, EmptyMaps, VotesCountedOnce
  <2>5. Decisions
    BY <2>1 DEF Init, EmptyMaps, Decisions
  <2>6. Holders
    BY <2>1 DEF Init, EmptyMaps, Holders
  <2> QED BY <2>3, <2>4, <2>5, <2>6 DEF IndInv
<1>2. IndInv /\ [Next]_vars => IndInv'
  BY TypeStep, VotesStep, DecisionsStep, HoldersStep DEF IndInv
<1> QED BY <1>1, <1>2, PTL DEF Spec

\* Every variable has its type, for any transactions, alphanodes and votes.
THEOREM TypeCorrect == Spec => []TypeOK
<1>1. IndInv => TypeOK
  BY DEF IndInv
<1> QED BY <1>1, Invariance, PTL

\* No alphanode's vote is ever counted twice for a lock (ProcessTXLockVote's
\* test of mapTxLockVote), also when locks are dropped and made anew.
THEOREM VotesCountedOnceCorrect == Spec => []VotesCountedOnce
<1>1. IndInv => VotesCountedOnce
  BY DEF IndInv
<1> QED BY <1>1, Invariance, PTL

\* ProcessConsensusVote's operator[] never inserts a request.
THEOREM NothingInventedCorrect == Spec => []NothingInvented
<1>1. IndInv => NothingInvented
  BY DEF IndInv, Decisions, NothingInvented
<1> QED BY <1>1, Invariance, PTL

\* No request is both accepted and refused.
THEOREM DecidedOnceCorrect == Spec => []DecidedOnce
<1>1. IndInv => DecidedOnce
  BY DEF IndInv, Decisions, DecidedOnce
<1> QED BY <1>1, Invariance, PTL

\* A lock held by an accepted request was voted for by Required different
\* alphanodes, whatever the number of alphanodes and the quorum.
THEOREM AcceptedLockHasQuorumCorrect == Spec => []AcceptedLockHasQuorum
<1>1. ASSUME IndInv PROVE AcceptedLockHasQuorum
  <2>0. TypeOK /\ VotesCountedOnce /\ Holders
    BY <1>1 DEF IndInv
  <2>1. SUFFICES ASSUME NEW o \in Outpoints, mapLockedInputs[o] \in mapTxLockReq
                 PROVE  /\ o \in Inputs[mapLockedInputs[o]]
                        /\ mapLockedInputs[o] \in mapTxLocks
                        /\ nBlockHeight[mapLockedInputs[o]] # 0
                        /\ Cardinality(Voters(mapLockedInputs[o])) >= Required
    BY DEF AcceptedLockHasQuorum
  <2>2. PICK t \in Txs : mapLockedInputs[o] = t
    BY <2>0, <2>1 DEF TypeOK
  <2>3. o \in Inputs[t] /\ t \in mapTxLocks /\ nBlockHeight[t] # 0 /\ Complete(t)
    BY <2>0, <2>1, <2>2 DEF Holders
  <2>4. Cardinality(Voters(t)) >= Required
    BY <2>0, <2>3, CountIsVoters DEF Complete
  <2> QED BY <2>2, <2>3, <2>4
<1> QED BY <1>1, Invariance, PTL

\* Votes that complete an accepted request's lock give it all its inputs, or
\* none and a cancelled lock.
THEOREM CompletedLocksAllCorrect == Spec => CompletedLocksAll
<1> DEFINE AllOrNone ==
      \A t \in mapTxLockReq : ~Complete(t) /\ Complete(t)' =>
         \/ \A o \in Inputs[t] : mapLockedInputs'[o] = t
         \/ nExpiration'[t] = "now" /\ mapLockedInputs' = mapLockedInputs
<1>1. ASSUME IndInv, [Next]_vars PROVE AllOrNone
  <2> USE InstantXAssumption
  <2>0. TypeOK /\ Decisions
    BY <1>1 DEF IndInv
  <2>1. SUFFICES ASSUME NEW t \in mapTxLockReq, ~Complete(t), Complete(t)'
                 PROVE  \/ \A o \in Inputs[t] : mapLockedInputs'[o] = t
                        \/ nExpiration'[t] = "now" /\ mapLockedInputs' = mapLockedInputs
    OBVIOUS
  <2>2. t \in Txs
    BY <2>0 DEF TypeOK
  <2>3. ~(nBlockHeight'[t] = nBlockHeight[t] /\ vecConsensusVotes'[t] = vecConsensusVotes[t])
    BY <2>1 DEF Complete
  <2>4. vecConsensusVotes'[t] # <<>>
    BY <2>1, CountEmpty DEF Complete
  <2>5. ASSUME NEW u \in Txs, TxLockRequest(u) \/ WalletRequest(u) PROVE FALSE
    <3>1. CreateNewLock(u) /\ u # t
      BY <2>0, <2>5 DEF TxLockRequest, WalletRequest, Decided, Decisions
    <3> QED BY <2>0, <2>2, <2>3, <3>1, CreateNewLockEffect
  <2>6. ASSUME NEW u \in Txs, TxLockAccepted(u) \/ TxLockRejected(u) PROVE FALSE
    BY <2>3, <2>6 DEF TxLockAccepted, TxLockRejected, txlocks
  <2>7. ASSUME NEW u \in Txs, CleanLock(u) PROVE FALSE
    BY <2>0, <2>2, <2>3, <2>4, <2>7 DEF CleanLock, TypeOK
  <2>8. CASE \E v \in Votes : Vote(v)
    <3>1. PICK v \in Votes : Vote(v)
      BY <2>8
    <3>2. v.tx = t /\ VoteCounted(v)
      <4>1. vecConsensusVotes'[t] # vecConsensusVotes[t]
        BY <1>1, <2>3, <3>1, VoteEffect
      <4>2. VoteCounted(v) /\ v.tx \in Txs
        BY <1>1, <3>1, <4>1, VoteEffect
      <4> QED BY <2>0, <2>2, <4>1, <4>2 DEF VoteCounted, TypeOK
    <3>3. LocksOrCancels(t)
      <4>1. vecConsensusVotes'[t] # vecConsensusVotes[t]
        BY <1>1, <2>3, <3>1, VoteEffect
      <4> QED BY <1>1, <2>1, <3>1, <3>2, <4>1, VoteEffect
    <3>4. CASE LockFree(Inputs[t], t) /\ Taken(Inputs[t], t) = {}
      <4>1. \A o \in Inputs[t] : o \in Outpoints /\ mapLockedInputs[o] \in {NoTx, t}
        BY <2>2, <3>4 DEF Taken
      <4> QED BY <3>4, <4>1 DEF LockFree
    <3>5. CASE UNCHANGED mapLockedInputs /\ \E o \in Outpoints : Cancel({t, mapLockedInputs[o]})
      <4>1. t \in mapTxLocks'
        BY <3>3 DEF LocksOrCancels
      <4> QED BY <2>2, <3>5, <4>1 DEF Cancel
    <3> QED BY <3>3, <3>4, <3>5 DEF LocksOrCancels
  <2>9. CASE Restart
    BY <2>2, <2>4, <2>9 DEF Restart
  <2>10. CASE OtherStep
    BY <2>3, <2>10, OtherEffect
  <2> QED BY <1>1, <2>5, <2>6, <2>7, <2>8, <2>9, <2>10, StepKinds
<1>2. IndInv /\ [Next]_vars => [AllOrNone]_vars
  BY <1>1
<1> QED BY <1>2, Invariance, PTL DEF Spec, CompletedLocksAll

\* mapLockedInputs implements the lock table: no lock is handed from one
\* transaction to another, whatever requests and votes arrive.
THEOREM LocksAreATableCorrect == Spec => LocksAreATable
<1> USE InstantXAssumption
<1>1. Init => Locks!Init
  BY DEF Init, EmptyMaps, Locks!Init
<1>2. ASSUME NEW t \in Txs, NEW ins, ins \subseteq Inputs[t], LockFree(ins, t)
      PROVE  Locks!Lock(t)
  <2> DEFINE taken == {o \in ins : mapLockedInputs[o] = NoTx}
  <2>1. taken \in SUBSET {o \in Inputs[t] : mapLockedInputs[o] = NoTx}
    BY <1>2
  <2>2. mapLockedInputs' = [o \in Outpoints |-> IF o \in taken THEN t ELSE mapLockedInputs[o]]
    BY <1>2 DEF LockFree
  <2> QED BY <2>1, <2>2 DEF Locks!Lock
<1>3. ASSUME NEW ins, ins \subseteq Outpoints, UnlockInputs(ins)
      PROVE  Locks!Unlock
  BY <1>3 DEF UnlockInputs, Locks!Unlock
<1>4. ASSUME IndInv, [Next]_vars
      PROVE  [Locks!Next]_mapLockedInputs
  <2>0. invented = {}
    BY <1>4 DEF IndInv, Decisions
  <2>1. CASE \E t \in Txs : TxLockRequest(t) \/ TxLockAccepted(t) \/ WalletRequest(t)
    BY <2>1 DEF TxLockRequest, TxLockAccepted, WalletRequest
  <2>2. CASE \E t \in Txs : TxLockRejected(t)
    BY <1>2, <2>2 DEF TxLockRejected, Locks!Next
  <2>3. CASE \E t \in Txs : CleanLock(t)
    <3>1. PICK t \in Txs : CleanLock(t)
      BY <2>3
    <3>2. UnlockInputs(Inputs[t]) \/ UNCHANGED mapLockedInputs
      BY <2>0, <3>1 DEF CleanLock
    <3> QED BY <1>3, <3>2 DEF Locks!Next
  <2>4. CASE \E v \in Votes : Vote(v)
    <3>1. PICK v \in Votes : Vote(v)
      BY <2>4
    <3>2. v.tx \in Txs /\ (LockFree(Inputs[v.tx], v.tx) \/ UNCHANGED mapLockedInputs)
      BY <1>4, <3>1, VoteEffect DEF LocksNothing, LocksOrCancels
    <3> QED BY <1>2, <3>2 DEF Locks!Next
  <2>5. CASE Restart
    <3>1. mapLockedInputs' =
            [o \in Outpoints |-> IF o \in Outpoints THEN NoTx ELSE mapLockedInputs[o]]
      BY <2>5 DEF Restart
    <3> QED BY <3>1 DEF Locks!Unlock, Locks!Next
  <2>6. CASE OtherStep
    BY <2>6, OtherEffect
  <2> QED BY <1>4, <2>1, <2>2, <2>3, <2>4, <2>5, <2>6, StepKinds
<1> QED BY <1>1, <1>4, Invariance, PTL DEF Spec, LocksAreATable, Locks!Spec

=============================================================================
