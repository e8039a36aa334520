-------------------------- MODULE ChainState_proofs --------------------------
(***************************************************************************)
(* Safety of the block chain and its database, for every block tree, every *)
(* set of transactions and every choice of what the checks refuse.         *)
(*                                                                         *)
(* Three layers.  TypeInv are the types.  CallInv says where a ProcessBlock*)
(* call may stand: what is known of cur, target and the committed chain at *)
(* each program point.  LedgerInv is the transaction index, of the database*)
(* and of the open transaction.  LedgerInv needs CallInv (which block is   *)
(* connected to which), CallInv needs TypeInv.  LinksInv is the same for   *)
(* the hashNext records.                                                   *)
(*                                                                         *)
(* What a call leaves behind rests on more: WaitingInv says where a parent *)
(* may be that an orphan still waits for, and HeaviestInv that only the    *)
(* block in hand may outweigh the best one.  The pool needs no invariant of*)
(* its own: it is inductive given those of the chain.                      *)
(***************************************************************************)
EXTENDS ChainState, Ledger_proofs, FiniteSetTheorems

-----------------------------------------------------------------------------
(* Types *)

MemoryTypes ==
    /\ index \subseteq Blocks
    /\ pnext \in [Blocks -> Blocks \cup {NoBlock}]
    /\ best \in Blocks
    /\ setStakeSeen \cup setStakeSeenOrphan
            \subseteq {Stake[b] : b \in Blocks} \ {NoStake}
    /\ orphans \subseteq Blocks

PoolTypes == mempool \subseteq Txs /\ locks \in [Txs -> Txs \cup {NoTx}]

DatabaseTypes ==
    /\ dbIndex \subseteq Blocks
    /\ dbNext \in [Blocks -> Blocks \cup {NoBlock}]
    /\ dbBest \in Blocks
    /\ ledger \in Views

\* The work queue is not empty while its head is looked at.
CallTypes ==
    /\ pc \in Stages /\ queue \in Seq(Blocks)
    /\ pc = "orphans" => queue # <<>>
    /\ cur \in Blocks /\ target \in Blocks /\ tip \in Blocks
    /\ batch \in Views
    /\ batchNext \in [Blocks -> Blocks \cup {NoBlock}]

HistoryTypes == refused \subseteq Blocks /\ halfAdopted \in BOOLEAN

TypeInv ==
    /\ MemoryTypes
    /\ PoolTypes
    /\ DatabaseTypes
    /\ CallTypes
    /\ HistoryTypes

LEMMA TypeInvMeaning == TypeInv => TypeOK
BY DEF TypeInv, MemoryTypes, PoolTypes, DatabaseTypes, CallTypes, HistoryTypes, TypeOK

\* The open transaction's variables after it was closed.
LEMMA ClosedTypes ==
  ASSUME TransactionClosed
  PROVE  /\ target' \in Blocks /\ tip' \in Blocks /\ batch' \in Views
         /\ batchNext' \in [Blocks -> Blocks \cup {NoBlock}]
BY TreeAssumption DEF TransactionClosed, EmptyView, Views

\* A return of AcceptBlock leaves well-typed call variables and a stage that is
\* either at rest or looking for orphans.
LEMMA ReturnTypes ==
  ASSUME CallTypes, NEW accepted \in BOOLEAN, Return(accepted)
  PROVE  CallTypes' /\ pc' \in {"idle", "orphans"}
<1> DEFINE q == IF accepted THEN Append(queue, cur) ELSE queue
<1>1. q \in Seq(Blocks)
  BY DEF CallTypes
<1>2. queue' = q /\ pc' = (IF q = <<>> THEN "idle" ELSE "orphans") /\ cur' = Genesis
  BY DEF Return
<1> HIDE DEF q
<1>3. TransactionClosed
  BY DEF Return
<1>4. CallTypes'
  BY <1>1, <1>2, <1>3, ClosedTypes, TreeAssumption DEF CallTypes, Stages
<1> QED BY <1>2, <1>4

LEMMA FailTypes ==
  ASSUME TypeInv, Fail
  PROVE  TypeInv' /\ pc' \in {"idle", "orphans"}
<1>1. CallTypes' /\ pc' \in {"idle", "orphans"}
  BY ReturnTypes DEF Fail, TypeInv
<1>2. MemoryTypes' /\ PoolTypes' /\ DatabaseTypes' /\ HistoryTypes'
  BY DEF Fail, TypeInv, MemoryTypes, PoolTypes, DatabaseTypes, HistoryTypes, CallTypes,
         memory, database
<1> QED BY <1>1, <1>2 DEF TypeInv

\* SetBestChainInner.
LEMMA CommitBlockTypes ==
  ASSUME TypeInv, NEW b \in Blocks \ {Genesis}, CommitBlock(b)
  PROVE  /\ DatabaseTypes' /\ mempool' \subseteq Txs
         /\ pnext' \in [Blocks -> Blocks \cup {NoBlock}]
<1>1. Parent[b] \in Blocks
  BY TreeAssumption
<1>2. ledger' \in Views
  BY ConnectType DEF CommitBlock, TypeInv, DatabaseTypes
<1>3. dbNext' \in [Blocks -> Blocks \cup {NoBlock}]
  BY <1>1 DEF CommitBlock, NextAfterConnect, TypeInv, DatabaseTypes, MemoryTypes
<1>4. pnext' \in [Blocks -> Blocks \cup {NoBlock}]
  BY <1>1 DEF CommitBlock, TypeInv, MemoryTypes
<1> QED BY <1>2, <1>3, <1>4 DEF CommitBlock, TypeInv, DatabaseTypes, PoolTypes

-----------------------------------------------------------------------------
(* Where a call may stand *)

\* The index is on disk and closed under hashPrevBlock.
IndexInv ==
    /\ index = dbIndex
    /\ Genesis \in index
    /\ \A b \in index \ {Genesis} : Parent[b] \in index
    /\ best \in index /\ dbBest \in index

\* SetBestChain only runs for a block with more trust than the best one, and
\* Reorganize's end has more as well: whatever is committed next outweighs what
\* was committed when the call began.
StageInv ==
    /\ pc \in {"setbest", "reorganize", "postponed"} =>
          cur \in index \ {Genesis} /\ Trust[cur] > Trust[best]
    /\ pc = "reorganize" => target \in Chain[cur] /\ Trust[target] > Trust[best]
    /\ pc = "postponed" => dbBest \in Chain[cur] /\ Trust[dbBest] > Trust[best]
    /\ ~halfAdopted /\ pc # "postponed" => best = dbBest

CallInv == TypeInv /\ IndexInv /\ StageInv

\* Outside SetBestChain there is only one thing to show.
LEMMA OutsideSetBestChain ==
  ASSUME TypeInv', IndexInv', pc' \in {"idle", "orphans", "accept"},
         ~halfAdopted' => best' = dbBest'
  PROVE  CallInv'
BY DEF CallInv, StageInv

\* Every block of the chain of an indexed block is indexed.
LEMMA IndexedChain ==
  ASSUME TypeInv, IndexInv, NEW c \in index
  PROVE  Chain[c] \subseteq index
BY ChainInClosedSet DEF TypeInv, MemoryTypes, IndexInv

LEMMA InitCall == Init => CallInv
<1> SUFFICES ASSUME Init PROVE CallInv
  OBVIOUS
<1>1. Genesis \in Blocks /\ EmptyView \in Views
  BY TreeAssumption DEF EmptyView, Views
<1>2. TypeInv
  <2>1. MemoryTypes /\ PoolTypes /\ DatabaseTypes
    BY <1>1 DEF Init, MemoryTypes, PoolTypes, DatabaseTypes
  <2>2. CallTypes
    BY <1>1 DEF Init, CallTypes, Stages
  <2>3. HistoryTypes
    BY DEF Init, HistoryTypes
  <2> QED BY <2>1, <2>2, <2>3 DEF TypeInv
<1>3. IndexInv /\ StageInv
  BY DEF Init, IndexInv, StageInv
<1> QED BY <1>2, <1>3 DEF CallInv

-----------------------------------------------------------------------------
(* Every action keeps it *)

LEMMA HoldOrphanCall ==
  ASSUME CallInv, NEW b \in Blocks, HoldOrphan(b)
  PROVE  CallInv'
<1>1. MemoryTypes'
  <2>1. PICK pruned \in Prunable :
          /\ orphans' = (orphans \ pruned) \cup {b}
          /\ setStakeSeenOrphan' =
                (setStakeSeenOrphan \ StakesOf(pruned)) \cup StakesOf({b})
    BY DEF HoldOrphan
  <2>2. StakesOf({b}) \subseteq {Stake[c] : c \in Blocks} \ {NoStake}
    BY DEF StakesOf
  <2> QED BY <2>1, <2>2 DEF HoldOrphan, CallInv, TypeInv, MemoryTypes
<1>2. TypeInv'
  BY <1>1 DEF HoldOrphan, CallInv, TypeInv, PoolTypes, DatabaseTypes, CallTypes,
              HistoryTypes, database, call, history
<1> QED BY <1>2 DEF HoldOrphan, CallInv, IndexInv, StageInv, database, call, history

LEMMA ProcessBlockCall ==
  ASSUME CallInv, NEW b \in Blocks, ProcessBlock(b)
  PROVE  CallInv'
<1>1. TypeInv'
  BY DEF ProcessBlock, CallInv, TypeInv, MemoryTypes, PoolTypes, DatabaseTypes,
         CallTypes, HistoryTypes, Stages, memory, database, history
<1> QED BY <1>1 DEF ProcessBlock, CallInv, IndexInv, StageInv, memory, database, history

LEMMA AcceptOrphanCall ==
  ASSUME CallInv, AcceptOrphan
  PROVE  CallInv'
<1>1. PICK o \in orphans : TakeOrphan(o) /\ cur' = o
  BY DEF AcceptOrphan
<1>2. MemoryTypes'
  BY <1>1 DEF TakeOrphan, AcceptOrphan, CallInv, TypeInv, MemoryTypes
<1>3. TypeInv'
  BY <1>1, <1>2 DEF AcceptOrphan, CallInv, TypeInv, MemoryTypes, PoolTypes,
       DatabaseTypes, CallTypes, HistoryTypes, Stages, database, history
<1> QED BY <1>3 DEF AcceptOrphan, CallInv, IndexInv, StageInv, database, history

LEMMA NextInQueueCall ==
  ASSUME CallInv, NextInQueue
  PROVE  CallInv'
<1>1. queue' = Tail(queue) /\ Tail(queue) \in Seq(Blocks)
  BY DEF NextInQueue, CallInv, TypeInv, CallTypes
<1>2. CallTypes'
  BY <1>1 DEF NextInQueue, CallInv, TypeInv, CallTypes, Stages
<1>3. TypeInv'
  BY <1>2 DEF NextInQueue, CallInv, TypeInv, MemoryTypes, PoolTypes, DatabaseTypes,
              HistoryTypes, memory, database, history
<1> QED BY <1>3 DEF NextInQueue, CallInv, IndexInv, StageInv, memory, database, history

LEMMA RejectBlockCall ==
  ASSUME CallInv, RejectBlock
  PROVE  CallInv'
<1>1. CallTypes' /\ pc' \in {"idle", "orphans"}
  BY ReturnTypes DEF RejectBlock, CallInv, TypeInv
<1>2. TypeInv'
  BY <1>1 DEF RejectBlock, CallInv, TypeInv, MemoryTypes, PoolTypes, DatabaseTypes,
              HistoryTypes, memory, database, history
<1> QED BY <1>1, <1>2
   DEF RejectBlock, CallInv, IndexInv, StageInv, memory, database, history

LEMMA FailCall ==
  ASSUME CallInv, Fail, pc # "postponed"
  PROVE  CallInv'
<1>1. TypeInv' /\ pc' \in {"idle", "orphans"}
  BY FailTypes DEF CallInv
<1> QED BY <1>1 DEF Fail, CallInv, IndexInv, StageInv, memory, database

LEMMA AddToBlockIndexCall ==
  ASSUME CallInv, AddToBlockIndex
  PROVE  CallInv'
<1>1. cur \in Blocks \ index /\ cur # Genesis /\ Parent[cur] \in index /\ Parent[cur] \in Blocks
  BY DEF AddToBlockIndex, AcceptBlockChecks, CallInv, TypeInv, MemoryTypes, CallTypes,
         IndexInv
<1>2. MemoryTypes'
  <2>1. StakesOf({cur}) \subseteq {Stake[b] : b \in Blocks} \ {NoStake}
    BY <1>1 DEF StakesOf
  <2>2. pnext' \in [Blocks -> Blocks \cup {NoBlock}]
    BY <1>1 DEF AddToBlockIndex, CallInv, TypeInv, MemoryTypes
  <2> QED BY <1>1, <2>1, <2>2 DEF AddToBlockIndex, CallInv, TypeInv, MemoryTypes
<1>3. PoolTypes' /\ DatabaseTypes' /\ HistoryTypes'
  BY <1>1 DEF AddToBlockIndex, CallInv, TypeInv, PoolTypes, DatabaseTypes, HistoryTypes,
              history
<1>4. IndexInv'
  BY <1>1 DEF AddToBlockIndex, CallInv, IndexInv
<1>5. CASE MoreTrust(cur)
  <2>1. pc' = "setbest" /\ UNCHANGED <<cur, queue, target, tip, batch, batchNext>>
    BY <1>5 DEF AddToBlockIndex
  <2>2. CallTypes'
    BY <2>1 DEF CallInv, TypeInv, CallTypes, Stages
  <2>3. StageInv'
    BY <1>1, <1>5, <2>1
       DEF AddToBlockIndex, MoreTrust, CallInv, StageInv, history
  <2> QED BY <1>2, <1>3, <1>4, <2>2, <2>3 DEF CallInv, TypeInv
<1>6. CASE ~MoreTrust(cur)
  <2>1. CallTypes' /\ pc' \in {"idle", "orphans"}
    BY <1>6, ReturnTypes DEF AddToBlockIndex, CallInv, TypeInv
  <2>2. ~halfAdopted' => best' = dbBest'
    BY DEF AddToBlockIndex, CallInv, StageInv, history
  <2> QED BY <1>2, <1>3, <1>4, <2>1, <2>2, OutsideSetBestChain DEF TypeInv
<1> QED BY <1>5, <1>6

LEMMA ExtendBestChainCall ==
  ASSUME CallInv, ExtendBestChain
  PROVE  CallInv'
<1>1. cur \in Blocks \ {Genesis} /\ cur \in index
  BY DEF ExtendBestChain, CallInv, StageInv, TypeInv, CallTypes
<1>2. CASE ConnectBlock(ledger, cur)
  <2>1. /\ CommitBlock(cur) /\ best' = cur /\ Return(TRUE)
        /\ UNCHANGED <<index, setStakeSeen, setStakeSeenOrphan, orphans, locks, history>>
    BY <1>2 DEF ExtendBestChain
  <2>2. CallTypes' /\ pc' \in {"idle", "orphans"}
    BY <2>1, ReturnTypes DEF CallInv, TypeInv
  <2>3. /\ DatabaseTypes' /\ mempool' \subseteq Txs
        /\ pnext' \in [Blocks -> Blocks \cup {NoBlock}]
    BY <1>1, <2>1, CommitBlockTypes DEF CallInv
  <2>4. TypeInv'
    BY <1>1, <2>1, <2>2, <2>3
       DEF CallInv, TypeInv, MemoryTypes, PoolTypes, HistoryTypes, history
  <2>5. IndexInv' /\ best' = dbBest'
    BY <1>1, <2>1 DEF CommitBlock, CallInv, IndexInv
  <2> QED BY <2>2, <2>4, <2>5, OutsideSetBestChain
<1>3. CASE ~ConnectBlock(ledger, cur)
  BY <1>3, FailCall DEF ExtendBestChain
<1> QED BY <1>2, <1>3

LEMMA BeginReorganizeCall ==
  ASSUME CallInv, BeginReorganize
  PROVE  CallInv'
<1>1. PICK x \in Chain[cur] : FirstHeavier(x) /\ target' = x
  BY DEF BeginReorganize
<1>2. x \in Blocks
  BY <1>1, ChainEnds DEF CallInv, TypeInv, CallTypes
<1>3. CallTypes'
  BY <1>1, <1>2 DEF BeginReorganize, CallInv, TypeInv, CallTypes, Stages, MemoryTypes,
                    DatabaseTypes
<1>4. TypeInv'
  BY <1>3 DEF BeginReorganize, CallInv, TypeInv, MemoryTypes, PoolTypes, DatabaseTypes,
              HistoryTypes, memory, database, history
<1>5. StageInv'
  BY <1>1 DEF BeginReorganize, FirstHeavier, CallInv, StageInv, memory, database, history
<1> QED BY <1>4, <1>5 DEF BeginReorganize, CallInv, IndexInv, memory, database

LEMMA DisconnectTipCall ==
  ASSUME CallInv, DisconnectTip
  PROVE  CallInv'
<1>1. tip \in Blocks \ {Genesis}
  BY ChainEnds DEF DisconnectTip, CallInv, TypeInv, CallTypes
<1>2. CASE CanDisconnect(batch, tip)
  <2>1. Parent[tip] \in Blocks /\ Disconnect(batch, tip) \in Views
    BY <1>1, ConnectType, TreeAssumption DEF CallInv, TypeInv, CallTypes
  <2>2. CallTypes'
    BY <1>2, <2>1 DEF DisconnectTip, CallInv, TypeInv, CallTypes
  <2>3. TypeInv'
    BY <1>2, <2>2 DEF DisconnectTip, CallInv, TypeInv, MemoryTypes, PoolTypes,
                      DatabaseTypes, HistoryTypes, memory, database, history
  <2> QED BY <1>2, <2>3
    DEF DisconnectTip, CallInv, IndexInv, StageInv, memory, database, history
<1>3. CASE ~CanDisconnect(batch, tip)
  BY <1>3, FailCall DEF DisconnectTip
<1> QED BY <1>2, <1>3

LEMMA ConnectNextCall ==
  ASSUME CallInv, ConnectNext
  PROVE  CallInv'
<1>1. PICK b \in Chain[target] \ {Genesis} :
        /\ Parent[b] = tip
        /\ IF ConnectBlock(batch, b)
           THEN /\ batch' = Connect(batch, b)
                /\ batchNext' = NextAfterConnect(batchNext, b)
                /\ tip' = b
                /\ UNCHANGED <<memory, mempool, locks, database, pc, cur,
                               queue, target, history>>
           ELSE Fail
  BY DEF ConnectNext
<1>2. b \in Blocks \ {Genesis} /\ Parent[b] \in Blocks
  BY <1>1, ChainEnds DEF CallInv, TypeInv, CallTypes
<1>3. CASE ConnectBlock(batch, b)
  <2>1. Connect(batch, b) \in Views
    BY <1>2, ConnectType DEF CallInv, TypeInv, CallTypes
  <2>2. NextAfterConnect(batchNext, b) \in [Blocks -> Blocks \cup {NoBlock}]
    BY <1>2 DEF NextAfterConnect, CallInv, TypeInv, CallTypes, MemoryTypes
  <2>3. CallTypes'
    BY <1>1, <1>2, <1>3, <2>1, <2>2 DEF CallInv, TypeInv, CallTypes
  <2>4. TypeInv'
    BY <1>1, <1>3, <2>3 DEF CallInv, TypeInv, MemoryTypes, PoolTypes,
                            DatabaseTypes, HistoryTypes, memory, database, history
  <2> QED BY <1>1, <1>3, <2>4
    DEF CallInv, IndexInv, StageInv, memory, database, history
<1>4. CASE ~ConnectBlock(batch, b)
  BY <1>1, <1>4, FailCall DEF ConnectNext
<1> QED BY <1>3, <1>4

LEMMA CommitReorganizeCall ==
  ASSUME CallInv, CommitReorganize
  PROVE  CallInv'
<1>1. pnext' \in [Blocks -> Blocks \cup {NoBlock}]
  BY RelinkedType DEF CommitReorganize, CallInv, TypeInv, MemoryTypes, CallTypes
<1>2. mempool' \subseteq Txs
  <2>1. PICK pool \in Resurrected : mempool' = Deleted(pool)
    BY DEF CommitReorganize
  <2>2. TxsOf(Disconnected) \subseteq Txs
    BY ChainEnds, TxSetType DEF TxsOf, Disconnected, CallInv, TypeInv, MemoryTypes
  <2>3. pool \subseteq Txs
    BY <2>1, <2>2, AcceptedFew DEF Resurrected, CallInv, TypeInv, PoolTypes
  <2> QED BY <2>1, <2>3 DEF Deleted, RemoveConflicts
<1>3. CallTypes'
  BY ClosedTypes DEF CommitReorganize, CallInv, TypeInv, CallTypes, Stages
<1>4. TypeInv'
  BY <1>1, <1>2, <1>3 DEF CommitReorganize, CallInv, TypeInv, MemoryTypes, PoolTypes,
                          DatabaseTypes, CallTypes, HistoryTypes, history
<1>5. target \in Chain[cur] /\ Trust[target] > Trust[best] /\ cur \in index
  BY DEF CommitReorganize, CallInv, StageInv
<1>6. target \in index
  BY <1>5, IndexedChain DEF CallInv
<1> QED BY <1>4, <1>5, <1>6 DEF CommitReorganize, CallInv, IndexInv, StageInv, history

\* The end of SetBestChain, however it is reached.
LEMMA AdoptCall ==
  ASSUME CallInv, pc = "postponed", Adopt, UNCHANGED <<pnext, mempool, database>>,
         HistoryTypes', ~halfAdopted' => dbBest = cur
  PROVE  CallInv'
<1>1. CallTypes' /\ pc' \in {"idle", "orphans"}
  BY ReturnTypes DEF Adopt, CallInv, TypeInv
<1>2. TypeInv'
  BY <1>1 DEF Adopt, CallInv, TypeInv, MemoryTypes, PoolTypes, DatabaseTypes, CallTypes,
              database
<1>3. IndexInv' /\ (~halfAdopted' => best' = dbBest')
  BY DEF Adopt, CallInv, IndexInv, StageInv, database
<1> QED BY <1>1, <1>2, <1>3, OutsideSetBestChain

LEMMA AllConnectedCall ==
  ASSUME CallInv, AllConnected
  PROVE  CallInv'
<1>1. HistoryTypes'
  BY DEF AllConnected, CallInv, TypeInv, HistoryTypes, history
<1> QED BY <1>1, AdoptCall DEF AllConnected

LEMMA ConnectPostponedCall ==
  ASSUME CallInv, ConnectPostponed
  PROVE  CallInv'
<1>1. PICK b \in Chain[cur] \ {Genesis} :
        /\ Parent[b] = dbBest
        /\ IF ConnectBlock(ledger, b)
           THEN /\ CommitBlock(b)
                /\ UNCHANGED <<index, best, setStakeSeen, setStakeSeenOrphan,
                               orphans, locks, call, history>>
           ELSE /\ Adopt
                /\ halfAdopted' = TRUE
                /\ UNCHANGED <<pnext, mempool, database, refused>>
  BY DEF ConnectPostponed
<1>2. /\ b \in Blocks \ {Genesis} /\ b \in index
      /\ Trust[b] > Trust[dbBest] /\ Trust[dbBest] > Trust[best]
      /\ {Trust[b], Trust[dbBest], Trust[best]} \subseteq Nat
  <2>1. b \in Chain[cur] /\ b # Genesis /\ Parent[b] = dbBest
    BY <1>1
  <2>2. cur \in index /\ cur \in Blocks /\ Trust[dbBest] > Trust[best]
    BY DEF ConnectPostponed, CallInv, TypeInv, CallTypes, StageInv
  <2>3. best \in Blocks /\ dbBest \in Blocks
    BY DEF CallInv, TypeInv, MemoryTypes, DatabaseTypes
  <2>4. b \in Blocks \ {Genesis}
    BY <2>1, <2>2, ChainEnds
  <2>5. b \in index
    BY <2>1, <2>2, IndexedChain DEF CallInv
  <2>6. Trust \in [Blocks -> Nat] /\ Trust[b] > Trust[Parent[b]]
    BY <2>4, TreeAssumption
  <2> QED BY <2>1, <2>2, <2>3, <2>4, <2>5, <2>6
<1>3. CASE ConnectBlock(ledger, b)
  <2>1. /\ DatabaseTypes' /\ mempool' \subseteq Txs
        /\ pnext' \in [Blocks -> Blocks \cup {NoBlock}]
    BY <1>1, <1>2, <1>3, CommitBlockTypes DEF CallInv
  <2>2. TypeInv'
    BY <1>1, <1>3, <2>1 DEF CallInv, TypeInv, MemoryTypes, PoolTypes, CallTypes,
                            HistoryTypes, call, history
  <2>3. dbBest' = b /\ dbIndex' = dbIndex
    BY <1>1, <1>3 DEF CommitBlock
  <2>4. IndexInv'
    BY <1>1, <1>2, <1>3, <2>3 DEF CallInv, IndexInv
  <2>5. StageInv'
    BY <1>1, <1>2, <1>3, <2>3 DEF ConnectPostponed, CallInv, StageInv, call, history
  <2> QED BY <2>2, <2>4, <2>5 DEF CallInv
<1>4. CASE ~ConnectBlock(ledger, b)
  <2>1. HistoryTypes'
    BY <1>1, <1>4 DEF CallInv, TypeInv, HistoryTypes
  <2> QED BY <1>1, <1>4, <2>1, AdoptCall DEF ConnectPostponed
<1> QED BY <1>3, <1>4

LEMMA CrashCall ==
  ASSUME CallInv, CrashAndRestart
  PROVE  CallInv'
<1>1. CallTypes'
  BY ClosedTypes, TreeAssumption DEF CrashAndRestart, CallTypes, Stages
<1>2. MemoryTypes' /\ PoolTypes'
  BY DEF CrashAndRestart, StakesOf, CallInv, TypeInv, MemoryTypes, PoolTypes, DatabaseTypes
<1>3. DatabaseTypes' /\ HistoryTypes'
  BY DEF CrashAndRestart, CallInv, TypeInv, DatabaseTypes, HistoryTypes, CallTypes, database
<1>4. IndexInv' /\ best' = dbBest' /\ pc' = "idle"
  BY DEF CrashAndRestart, CallInv, IndexInv, database
<1> QED BY <1>1, <1>2, <1>3, <1>4, OutsideSetBestChain DEF TypeInv

\* The pool and the locks are not part of it.
LEMMA PoolAndLocksCall ==
  ASSUME CallInv,
         \/ \E t \in Txs : AcceptToMemoryPool(t) \/ UnlockInput(t)
         \/ \E p \in Lockable : LockInput(p[1], p[2])
  PROVE  CallInv'
<1>1. PoolTypes'
  <2>1. CASE \E t \in Txs : AcceptToMemoryPool(t)
    BY <2>1 DEF AcceptToMemoryPool, CallInv, TypeInv, PoolTypes
  <2>2. CASE \E t \in Txs : UnlockInput(t)
    BY <2>2 DEF UnlockInput, CallInv, TypeInv, PoolTypes
  <2>3. CASE \E p \in Lockable : LockInput(p[1], p[2])
    <3>1. PICK p \in Lockable : LockInput(p[1], p[2])
      BY <2>3
    <3>2. p[1] \in Txs /\ p[2] \in Txs
      BY ChainAssumption
    <3> QED BY <3>1, <3>2 DEF LockInput, CallInv, TypeInv, PoolTypes
  <2> QED BY <2>1, <2>2, <2>3
<1>2. UNCHANGED <<memory, database, call, history>>
  BY DEF AcceptToMemoryPool, UnlockInput, LockInput
<1>3. TypeInv'
  BY <1>1, <1>2 DEF CallInv, TypeInv, MemoryTypes, DatabaseTypes, CallTypes, HistoryTypes,
                    memory, database, call, history
<1> QED BY <1>2, <1>3 DEF CallInv, IndexInv, StageInv, memory, database, call, history

LEMMA NextCall == CallInv /\ [Next]_vars => CallInv'
<1> SUFFICES ASSUME CallInv, [Next]_vars PROVE CallInv'
  OBVIOUS
<1>1. CASE Next
  BY <1>1, HoldOrphanCall, ProcessBlockCall, AcceptOrphanCall, NextInQueueCall,
     RejectBlockCall, AddToBlockIndexCall, ExtendBestChainCall, BeginReorganizeCall,
     DisconnectTipCall, ConnectNextCall, CommitReorganizeCall, ConnectPostponedCall,
     AllConnectedCall, CrashCall, PoolAndLocksCall
     DEF Next, CallStep
<1>2. CASE UNCHANGED vars
  BY <1>2 DEF CallInv, TypeInv, MemoryTypes, PoolTypes, DatabaseTypes, CallTypes,
              HistoryTypes, IndexInv, StageInv, vars, memory, database, call, history
<1> QED BY <1>1, <1>2

LEMMA CallInvariance == Spec => []CallInv
<1> QED BY InitCall, NextCall, PTL DEF Spec

\* Every variable of the block chain keeps its type.
THEOREM TypeCorrect == Spec => []TypeOK
<1>1. CallInv => TypeOK
  BY TypeInvMeaning DEF CallInv
<1> QED BY <1>1, CallInvariance, PTL

\* The memory structures and the database agree between calls, whatever block
\* arrives, whatever fails and wherever the program goes down.
THEOREM MemoryMatchesDatabaseCorrect == Spec => []MemoryMatchesDatabase
<1>1. CallInv => MemoryMatchesDatabase
  BY DEF CallInv, IndexInv, StageInv, MemoryMatchesDatabase
<1> QED BY <1>1, CallInvariance, PTL

-----------------------------------------------------------------------------
(* The transaction index *)

\* The database and the open transaction each hold the index of a sound chain.
LedgerInv ==
    ~halfAdopted =>
       /\ Replays(ledger, dbBest) /\ SoundChain(dbBest)
       /\ pc = "reorganize" => Replays(batch, tip) /\ SoundChain(tip)

\* One more block on top of a chain.
LEMMA ConnectOne ==
  ASSUME NEW b \in Blocks \ {Genesis}, NEW view, Replays(view, Parent[b]),
         SoundChain(Parent[b]), ConnectBlock(view, b)
  PROVE  Replays(Connect(view, b), b) /\ SoundChain(b)
BY ConnectReplays, ConnectSound DEF ConnectBlock

\* Steps that leave the database and an open transaction as they are.
LEMMA LedgerUnchanged ==
  ASSUME LedgerInv, UNCHANGED <<ledger, dbBest, halfAdopted>>,
         pc' = "reorganize" => pc = "reorganize" /\ UNCHANGED <<batch, tip>>
  PROVE  LedgerInv'
BY DEF LedgerInv

LEMMA FailLedger ==
  ASSUME CallInv, LedgerInv, Fail
  PROVE  LedgerInv'
<1>1. pc' \in {"idle", "orphans"}
  BY FailTypes DEF CallInv
<1> QED BY <1>1, LedgerUnchanged DEF Fail, database

LEMMA ExtendBestChainLedger ==
  ASSUME CallInv, LedgerInv, ExtendBestChain
  PROVE  LedgerInv'
<1>1. CASE ConnectBlock(ledger, cur)
  <2>1. CommitBlock(cur) /\ Return(TRUE) /\ halfAdopted' = halfAdopted
    BY <1>1 DEF ExtendBestChain, history
  <2>2. pc' \in {"idle", "orphans"}
    BY <2>1, ReturnTypes DEF CallInv, TypeInv
  <2>3. cur \in Blocks \ {Genesis}
    BY DEF ExtendBestChain, CallInv, StageInv, TypeInv, CallTypes
  <2>4. ASSUME ~halfAdopted
        PROVE  Replays(ledger', dbBest') /\ SoundChain(dbBest')
    <3>1. Parent[cur] = dbBest
      BY <2>4 DEF ExtendBestChain, CallInv, StageInv
    <3> QED BY <1>1, <2>1, <2>3, <2>4, <3>1, ConnectOne DEF LedgerInv, CommitBlock
  <2> QED BY <2>1, <2>2, <2>4 DEF LedgerInv
<1>2. CASE ~ConnectBlock(ledger, cur)
  BY <1>2, FailLedger DEF ExtendBestChain
<1> QED BY <1>1, <1>2

LEMMA BeginReorganizeLedger ==
  ASSUME CallInv, LedgerInv, BeginReorganize
  PROVE  LedgerInv'
BY DEF CallInv, StageInv, LedgerInv, BeginReorganize, database, history

LEMMA DisconnectTipLedger ==
  ASSUME CallInv, LedgerInv, DisconnectTip
  PROVE  LedgerInv'
<1>1. tip \in Blocks \ {Genesis}
  BY ChainEnds DEF DisconnectTip, CallInv, TypeInv, CallTypes
<1>2. CASE CanDisconnect(batch, tip)
  <2>1. /\ batch' = Disconnect(batch, tip) /\ tip' = Parent[tip] /\ pc = "reorganize"
        /\ UNCHANGED <<ledger, dbBest, halfAdopted>>
    BY <1>2 DEF DisconnectTip, database, history
  <2> QED BY <1>1, <2>1, DisconnectReplays, SoundParent DEF LedgerInv
<1>3. CASE ~CanDisconnect(batch, tip)
  BY <1>3, FailLedger DEF DisconnectTip
<1> QED BY <1>2, <1>3

LEMMA ConnectNextLedger ==
  ASSUME CallInv, LedgerInv, ConnectNext
  PROVE  LedgerInv'
<1>1. PICK b \in Chain[target] \ {Genesis} :
        /\ Parent[b] = tip
        /\ IF ConnectBlock(batch, b)
           THEN /\ batch' = Connect(batch, b) /\ tip' = b
                /\ UNCHANGED <<database, history>>
           ELSE Fail
  BY DEF ConnectNext
<1>2. b \in Blocks \ {Genesis} /\ pc = "reorganize"
  BY <1>1, ChainEnds DEF ConnectNext, CallInv, TypeInv, CallTypes
<1>3. CASE ConnectBlock(batch, b)
  <2>1. /\ batch' = Connect(batch, b) /\ tip' = b
        /\ UNCHANGED <<ledger, dbBest, halfAdopted>>
    BY <1>1, <1>3 DEF database, history
  <2> QED BY <1>1, <1>2, <1>3, <2>1, ConnectOne DEF LedgerInv
<1>4. CASE ~ConnectBlock(batch, b)
  BY <1>1, <1>4, FailLedger
<1> QED BY <1>3, <1>4

LEMMA CommitReorganizeLedger ==
  ASSUME CallInv, LedgerInv, CommitReorganize
  PROVE  LedgerInv'
BY DEF LedgerInv, CommitReorganize, history

LEMMA ConnectPostponedLedger ==
  ASSUME CallInv, LedgerInv, ConnectPostponed
  PROVE  LedgerInv'
<1>1. PICK b \in Chain[cur] \ {Genesis} :
        /\ Parent[b] = dbBest
        /\ IF ConnectBlock(ledger, b)
           THEN CommitBlock(b) /\ UNCHANGED <<call, history>>
           ELSE halfAdopted' = TRUE
  BY DEF ConnectPostponed
<1>2. b \in Blocks \ {Genesis} /\ pc = "postponed"
  BY <1>1, ChainEnds DEF ConnectPostponed, CallInv, TypeInv, CallTypes
<1>3. CASE ConnectBlock(ledger, b)
  <2>1. /\ ledger' = Connect(ledger, b) /\ dbBest' = b
        /\ pc' = pc /\ halfAdopted' = halfAdopted
    BY <1>1, <1>3 DEF CommitBlock, call, history
  <2> QED BY <1>1, <1>2, <1>3, <2>1, ConnectOne DEF LedgerInv
<1>4. CASE ~ConnectBlock(ledger, b)
  BY <1>1, <1>4 DEF LedgerInv
<1> QED BY <1>3, <1>4

LEMMA OtherCallsLedger ==
  ASSUME CallInv, LedgerInv,
         \/ \E b \in Blocks : HoldOrphan(b) \/ ProcessBlock(b)
         \/ AcceptOrphan \/ NextInQueue \/ RejectBlock \/ AddToBlockIndex
         \/ AllConnected \/ CrashAndRestart
  PROVE  LedgerInv'
<1>1. CASE \E b \in Blocks : HoldOrphan(b) \/ ProcessBlock(b)
  BY <1>1, LedgerUnchanged DEF HoldOrphan, ProcessBlock, database, call, history
<1>2. CASE AcceptOrphan \/ NextInQueue
  BY <1>2, LedgerUnchanged DEF AcceptOrphan, NextInQueue, database, history
<1>3. CASE RejectBlock
  <2>1. pc' \in {"idle", "orphans"}
    BY <1>3, ReturnTypes DEF RejectBlock, CallInv, TypeInv
  <2> QED BY <1>3, <2>1, LedgerUnchanged DEF RejectBlock, database, history
<1>4. CASE AddToBlockIndex
  <2>1. pc' \in {"setbest", "idle", "orphans"}
    BY <1>4, ReturnTypes DEF AddToBlockIndex, CallInv, TypeInv
  <2> QED BY <1>4, <2>1, LedgerUnchanged DEF AddToBlockIndex, history
<1>5. CASE AllConnected
  <2>1. pc' \in {"idle", "orphans"}
    BY <1>5, ReturnTypes DEF AllConnected, Adopt, CallInv, TypeInv
  <2> QED BY <1>5, <2>1, LedgerUnchanged DEF AllConnected, database, history
<1>6. CASE CrashAndRestart
  BY <1>6, LedgerUnchanged DEF CrashAndRestart, database
<1> QED BY <1>1, <1>2, <1>3, <1>4, <1>5, <1>6

LEMMA NextLedger == CallInv /\ LedgerInv /\ [Next]_vars => LedgerInv'
<1> SUFFICES ASSUME CallInv, LedgerInv, [Next]_vars PROVE LedgerInv'
  OBVIOUS
<1>1. CASE \/ \E t \in Txs : AcceptToMemoryPool(t) \/ UnlockInput(t)
           \/ \E p \in Lockable : LockInput(p[1], p[2])
           \/ UNCHANGED vars
  <2>1. UNCHANGED <<database, call, history>>
    BY <1>1 DEF AcceptToMemoryPool, UnlockInput, LockInput, vars
  <2> QED BY <2>1, LedgerUnchanged DEF database, call, history
<1> QED BY <1>1, OtherCallsLedger, ExtendBestChainLedger, BeginReorganizeLedger,
     DisconnectTipLedger, ConnectNextLedger, CommitReorganizeLedger,
     ConnectPostponedLedger
     DEF Next, CallStep

LEMMA LedgerInvariance == Spec => []LedgerInv
<1>1. Init => LedgerInv
  BY GenesisReplays DEF Init, LedgerInv
<1> QED BY <1>1, NextLedger, CallInvariance, PTL DEF Spec

\* After every database transaction, on every tree of blocks, the transaction
\* index is the one connecting the committed chain from the genesis block
\* gives: nothing spent twice, nothing lost or left over by a reorganisation.
THEOREM LedgerReplaysBestChainCorrect == Spec => []LedgerReplaysBestChain
<1>1. LedgerInv => LedgerReplaysBestChain
  BY DEF LedgerInv, LedgerReplaysBestChain
<1> QED BY <1>1, LedgerInvariance, PTL

\* No transaction is confirmed twice on the committed chain, although no test
\* of ConnectBlock asks for it.
THEOREM EveryTxOnceCorrect == Spec => []EveryTxOnce
<1>1. LedgerInv => EveryTxOnce
  BY DEF LedgerInv, EveryTxOnce
<1> QED BY <1>1, LedgerInvariance, PTL

-----------------------------------------------------------------------------
(* The hashNext records *)

\* Those of the database and of the open transaction lead up the chain.
LinksInv ==
    ~halfAdopted =>
       /\ Follows(dbNext, dbBest)
       /\ pc = "reorganize" => Follows(batchNext, tip)

LEMMA LinksUnchanged ==
  ASSUME LinksInv, UNCHANGED <<dbNext, dbBest, halfAdopted>>,
         pc' = "reorganize" => pc = "reorganize" /\ UNCHANGED <<batchNext, tip>>
  PROVE  LinksInv'
BY DEF LinksInv

\* One more block on top of a chain: its own record and its parent's change.
LEMMA ConnectOneLinks ==
  ASSUME NEW b \in Blocks \ {Genesis}, NEW next \in [Blocks -> Blocks \cup {NoBlock}],
         Follows(next, Parent[b])
  PROVE  Follows(NextAfterConnect(next, b), b)
<1> DEFINE new == NextAfterConnect(next, b)
<1>1. Parent[b] \in Blocks /\ b \notin Chain[Parent[b]]
  BY TreeAssumption
<1>2. /\ new[Parent[b]] = b
      /\ \A c \in Blocks \ {b, Parent[b]} : new[c] = next[c]
  BY <1>1 DEF NextAfterConnect
<1>3. Follows(new, Parent[b])
  BY <1>1, <1>2, FollowsElsewhere, ChainEnds
<1> QED BY <1>2, <1>3, FollowsChild

LEMMA FailLinks ==
  ASSUME CallInv, LinksInv, Fail
  PROVE  LinksInv'
<1>1. pc' \in {"idle", "orphans"}
  BY FailTypes DEF CallInv
<1> QED BY <1>1, LinksUnchanged DEF Fail, database

LEMMA ExtendBestChainLinks ==
  ASSUME CallInv, LinksInv, ExtendBestChain
  PROVE  LinksInv'
<1>1. CASE ConnectBlock(ledger, cur)
  <2>1. CommitBlock(cur) /\ Return(TRUE) /\ halfAdopted' = halfAdopted
    BY <1>1 DEF ExtendBestChain, history
  <2>2. pc' \in {"idle", "orphans"}
    BY <2>1, ReturnTypes DEF CallInv, TypeInv
  <2>3. cur \in Blocks \ {Genesis}
    BY DEF ExtendBestChain, CallInv, StageInv, TypeInv, CallTypes
  <2>4. ASSUME ~halfAdopted
        PROVE  Follows(dbNext', dbBest')
    <3>1. Parent[cur] = dbBest
      BY <2>4 DEF ExtendBestChain, CallInv, StageInv
    <3>2. dbNext \in [Blocks -> Blocks \cup {NoBlock}]
      BY DEF CallInv, TypeInv, DatabaseTypes
    <3> QED BY <2>1, <2>3, <2>4, <3>1, <3>2, ConnectOneLinks DEF LinksInv, CommitBlock
  <2> QED BY <2>1, <2>2, <2>4 DEF LinksInv
<1>2. CASE ~ConnectBlock(ledger, cur)
  BY <1>2, FailLinks DEF ExtendBestChain
<1> QED BY <1>1, <1>2

LEMMA DisconnectTipLinks ==
  ASSUME CallInv, LinksInv, DisconnectTip
  PROVE  LinksInv'
<1>1. tip \in Blocks \ {Genesis} /\ pc = "reorganize"
  BY ChainEnds DEF DisconnectTip, CallInv, TypeInv, CallTypes
<1>2. CASE CanDisconnect(batch, tip)
  <2>1. /\ batchNext' = [batchNext EXCEPT ![Parent[tip]] = NoBlock]
        /\ tip' = Parent[tip]
        /\ UNCHANGED <<dbNext, dbBest, halfAdopted>>
    BY <1>2 DEF DisconnectTip, database, history
  <2>2. ASSUME ~halfAdopted
        PROVE  Follows(batchNext', tip')
    <3>1. Parent[tip] \in Blocks /\ batchNext \in [Blocks -> Blocks \cup {NoBlock}]
      BY <1>1, TreeAssumption DEF CallInv, TypeInv, CallTypes
    <3>2. Follows(batchNext, Parent[tip])
      BY <1>1, <2>2, FollowsChild DEF LinksInv
    <3>3. \A c \in Chain[Parent[tip]] \ {Parent[tip]} : batchNext'[c] = batchNext[c]
      BY <2>1, <3>1, ChainEnds
    <3> QED BY <2>1, <3>1, <3>2, <3>3, FollowsElsewhere
  <2> QED BY <2>1, <2>2 DEF LinksInv
<1>3. CASE ~CanDisconnect(batch, tip)
  BY <1>3, FailLinks DEF DisconnectTip
<1> QED BY <1>2, <1>3

LEMMA ConnectNextLinks ==
  ASSUME CallInv, LinksInv, ConnectNext
  PROVE  LinksInv'
<1>1. PICK b \in Chain[target] \ {Genesis} :
        /\ Parent[b] = tip
        /\ IF ConnectBlock(batch, b)
           THEN /\ batchNext' = NextAfterConnect(batchNext, b) /\ tip' = b
                /\ UNCHANGED <<database, history>>
           ELSE Fail
  BY DEF ConnectNext
<1>2. b \in Blocks \ {Genesis} /\ pc = "reorganize"
  BY <1>1, ChainEnds DEF ConnectNext, CallInv, TypeInv, CallTypes
<1>3. CASE ConnectBlock(batch, b)
  <2>1. /\ batchNext' = NextAfterConnect(batchNext, b) /\ tip' = b
        /\ UNCHANGED <<dbNext, dbBest, halfAdopted>>
    BY <1>1, <1>3 DEF database, history
  <2>2. batchNext \in [Blocks -> Blocks \cup {NoBlock}]
    BY DEF CallInv, TypeInv, CallTypes
  <2> QED BY <1>1, <1>2, <2>1, <2>2, ConnectOneLinks DEF LinksInv
<1>4. CASE ~ConnectBlock(batch, b)
  BY <1>1, <1>4, FailLinks
<1> QED BY <1>3, <1>4

LEMMA ConnectPostponedLinks ==
  ASSUME CallInv, LinksInv, ConnectPostponed
  PROVE  LinksInv'
<1>1. PICK b \in Chain[cur] \ {Genesis} :
        /\ Parent[b] = dbBest
        /\ IF ConnectBlock(ledger, b)
           THEN CommitBlock(b) /\ UNCHANGED <<call, history>>
           ELSE halfAdopted' = TRUE
  BY DEF ConnectPostponed
<1>2. b \in Blocks \ {Genesis} /\ pc = "postponed"
  BY <1>1, ChainEnds DEF ConnectPostponed, CallInv, TypeInv, CallTypes
<1>3. CASE ConnectBlock(ledger, b)
  <2>1. /\ dbNext' = NextAfterConnect(dbNext, b) /\ dbBest' = b
        /\ pc' = pc /\ halfAdopted' = halfAdopted
    BY <1>1, <1>3 DEF CommitBlock, call, history
  <2>2. dbNext \in [Blocks -> Blocks \cup {NoBlock}]
    BY DEF CallInv, TypeInv, DatabaseTypes
  <2> QED BY <1>1, <1>2, <2>1, <2>2, ConnectOneLinks DEF LinksInv
<1>4. CASE ~ConnectBlock(ledger, b)
  BY <1>1, <1>4 DEF LinksInv
<1> QED BY <1>3, <1>4

\* The record of a block that is new to the index is not on the way to any
\* indexed one.
LEMMA AddToBlockIndexLinks ==
  ASSUME CallInv, LinksInv, AddToBlockIndex
  PROVE  LinksInv'
<1>1. /\ cur \notin index /\ dbNext' = [dbNext EXCEPT ![cur] = NoBlock]
      /\ dbBest' = dbBest /\ halfAdopted' = halfAdopted
  BY DEF AddToBlockIndex, AcceptBlockChecks, history
<1>2. pc' \in {"setbest", "idle", "orphans"}
  BY ReturnTypes DEF AddToBlockIndex, CallInv, TypeInv
<1>3. cur \notin Chain[dbBest] /\ dbBest \in Blocks
  BY <1>1, IndexedChain DEF CallInv, IndexInv, TypeInv, DatabaseTypes
<1>4. \A c \in Chain[dbBest] \ {dbBest} : dbNext'[c] = dbNext[c]
  BY <1>1, <1>3, ChainEnds DEF CallInv, TypeInv, DatabaseTypes
<1>5. ~halfAdopted => Follows(dbNext', dbBest')
  BY <1>1, <1>3, <1>4, FollowsElsewhere DEF LinksInv
<1> QED BY <1>1, <1>2, <1>5 DEF LinksInv

LEMMA OtherCallsLinks ==
  ASSUME CallInv, LinksInv,
         \/ \E b \in Blocks : HoldOrphan(b) \/ ProcessBlock(b)
         \/ AcceptOrphan \/ NextInQueue \/ RejectBlock
         \/ BeginReorganize \/ CommitReorganize \/ AllConnected \/ CrashAndRestart
  PROVE  LinksInv'
<1>1. CASE \E b \in Blocks : HoldOrphan(b) \/ ProcessBlock(b)
  BY <1>1, LinksUnchanged DEF HoldOrphan, ProcessBlock, database, call, history
<1>2. CASE AcceptOrphan \/ NextInQueue
  BY <1>2, LinksUnchanged DEF AcceptOrphan, NextInQueue, database, history
<1>3. CASE RejectBlock
  <2>1. pc' \in {"idle", "orphans"}
    BY <1>3, ReturnTypes DEF RejectBlock, CallInv, TypeInv
  <2> QED BY <1>3, <2>1, LinksUnchanged DEF RejectBlock, database, history
<1>4. CASE BeginReorganize
  BY <1>4 DEF CallInv, StageInv, LinksInv, BeginReorganize, database, history
<1>5. CASE CommitReorganize
  BY <1>5 DEF LinksInv, CommitReorganize, history
<1>6. CASE AllConnected
  <2>1. pc' \in {"idle", "orphans"}
    BY <1>6, ReturnTypes DEF AllConnected, Adopt, CallInv, TypeInv
  <2> QED BY <1>6, <2>1, LinksUnchanged DEF AllConnected, database, history
<1>7. CASE CrashAndRestart
  BY <1>7, LinksUnchanged DEF CrashAndRestart, database
<1> QED BY <1>1, <1>2, <1>3, <1>4, <1>5, <1>6, <1>7

LEMMA NextLinks == CallInv /\ LinksInv /\ [Next]_vars => LinksInv'
<1> SUFFICES ASSUME CallInv, LinksInv, [Next]_vars PROVE LinksInv'
  OBVIOUS
<1>1. CASE \/ \E t \in Txs : AcceptToMemoryPool(t) \/ UnlockInput(t)
           \/ \E p \in Lockable : LockInput(p[1], p[2])
           \/ UNCHANGED vars
  <2>1. UNCHANGED <<database, call, history>>
    BY <1>1 DEF AcceptToMemoryPool, UnlockInput, LockInput, vars
  <2> QED BY <2>1, LinksUnchanged DEF database, call, history
<1> QED BY <1>1, OtherCallsLinks, ExtendBestChainLinks, DisconnectTipLinks,
     ConnectNextLinks, ConnectPostponedLinks, AddToBlockIndexLinks
     DEF Next, CallStep

\* On every tree of blocks, after every database transaction, the hashNext
\* records lead from the genesis block up the committed chain: what is read of
\* them after a crash is the chain hashBestChain names, whatever branches were
\* left or only half connected.
THEOREM LinksFollowChainCorrect == Spec => []LinksFollowChain
<1>1. Init => LinksInv
  BY TreeAssumption DEF Init, LinksInv, Follows
<1>2. LinksInv => LinksFollowChain
  BY DEF LinksInv, LinksFollowChain
<1> QED BY <1>1, <1>2, NextLinks, CallInvariance, PTL DEF Spec

-----------------------------------------------------------------------------
(* What a step may never do *)

\* The steps of DatabaseTrustGrows.
TrustGrows ==
    ~halfAdopted' => /\ Trust[dbBest'] >= Trust[dbBest]
                     /\ Trust[best'] >= Trust[best]
                     /\ Chain[dbBest'] \subseteq dbIndex'

LEMMA StepsGrow == CallInv /\ CallInv' /\ [Next]_vars => TrustGrows
<1> SUFFICES ASSUME CallInv, CallInv', [Next]_vars, ~halfAdopted'
             PROVE  /\ Trust[dbBest'] >= Trust[dbBest]
                    /\ Trust[best'] >= Trust[best]
                    /\ Chain[dbBest'] \subseteq dbIndex'
  BY DEF TrustGrows
<1>1. Chain[dbBest'] \subseteq dbIndex'
  <2>1. dbBest' \in Blocks /\ dbBest' \in index' /\ index' = dbIndex'
        /\ \A b \in index' \ {Genesis} : Parent[b] \in index'
    BY DEF CallInv, TypeInv, DatabaseTypes, IndexInv
  <2> QED BY <2>1, ChainInClosedSet
<1>2. {Trust[best], Trust[dbBest], Trust[best'], Trust[dbBest']} \subseteq Nat
  BY TreeAssumption DEF CallInv, TypeInv, MemoryTypes, DatabaseTypes
<1>3. CASE UNCHANGED <<best, dbBest>>
  BY <1>1, <1>2, <1>3
<1>4. CASE ExtendBestChain
  <2>1. CASE ConnectBlock(ledger, cur)
    <3>1. /\ best' = cur /\ dbBest' = cur /\ halfAdopted' = halfAdopted
          /\ pc = "setbest"
      BY <1>4, <2>1 DEF ExtendBestChain, CommitBlock, history
    <3>2. Trust[cur] > Trust[best] /\ best = dbBest
      BY <3>1 DEF CallInv, StageInv
    <3> QED BY <1>1, <1>2, <3>1, <3>2
  <2>2. CASE ~ConnectBlock(ledger, cur)
    BY <1>3, <1>4, <2>2 DEF ExtendBestChain, Fail, memory, database
  <2> QED BY <2>1, <2>2
<1>5. CASE CommitReorganize
  <2>1. /\ dbBest' = target /\ best' = best /\ halfAdopted' = halfAdopted
        /\ pc = "reorganize"
    BY <1>5 DEF CommitReorganize, history
  <2>2. Trust[target] > Trust[best] /\ best = dbBest
    BY <2>1 DEF CallInv, StageInv
  <2> QED BY <1>1, <1>2, <2>1, <2>2
<1>6. CASE ConnectPostponed
  <2>1. PICK b \in Chain[cur] \ {Genesis} :
          Parent[b] = dbBest /\ CommitBlock(b) /\ best' = best
    BY <1>6 DEF ConnectPostponed
  <2>2. b \in Blocks \ {Genesis}
    BY <2>1, ChainEnds DEF CallInv, TypeInv, CallTypes
  <2>3. dbBest' = b /\ Trust[b] > Trust[dbBest]
    BY <2>1, <2>2, TreeAssumption DEF CommitBlock
  <2> QED BY <1>1, <1>2, <2>1, <2>3
<1>7. CASE AllConnected
  <2>1. best' = cur /\ dbBest' = dbBest /\ pc = "postponed"
    BY <1>7 DEF AllConnected, Adopt, database
  <2>2. Trust[cur] > Trust[best]
    BY <2>1 DEF CallInv, StageInv
  <2> QED BY <1>1, <1>2, <2>1, <2>2
<1>8. CASE CrashAndRestart
  <2>1. best' = dbBest /\ dbBest' = dbBest /\ halfAdopted' = halfAdopted
    BY <1>8 DEF CrashAndRestart, database
  <2>2. best = dbBest \/ Trust[dbBest] > Trust[best]
    BY <2>1 DEF CallInv, StageInv
  <2> QED BY <1>1, <1>2, <2>1, <2>2
<1>9. CASE \/ AddToBlockIndex \/ RejectBlock \/ AcceptOrphan \/ NextInQueue
           \/ \E b \in Blocks : HoldOrphan(b) \/ ProcessBlock(b)
           \/ BeginReorganize \/ UNCHANGED vars
           \/ \E t \in Txs : AcceptToMemoryPool(t) \/ UnlockInput(t)
           \/ \E p \in Lockable : LockInput(p[1], p[2])
  BY <1>3, <1>9 DEF AddToBlockIndex, RejectBlock, AcceptOrphan, NextInQueue,
     HoldOrphan, ProcessBlock, BeginReorganize, AcceptToMemoryPool, UnlockInput,
     LockInput, vars, memory, database
<1>10. CASE DisconnectTip \/ ConnectNext
  BY <1>3, <1>10 DEF DisconnectTip, ConnectNext, Fail, memory, database
<1> QED BY <1>4, <1>5, <1>6, <1>7, <1>8, <1>9, <1>10 DEF Next, CallStep

\* Neither a reorganisation, nor a failed one, nor a crash in the middle makes
\* the node fall back to a chain with less trust.
THEOREM DatabaseTrustGrowsCorrect == Spec => DatabaseTrustGrows
<1>1. CallInv /\ CallInv' /\ [Next]_vars => [TrustGrows]_vars
  BY StepsGrow
<1> QED BY <1>1, CallInvariance, PTL DEF Spec, DatabaseTrustGrows, TrustGrows

-----------------------------------------------------------------------------
(* Refinement *)

\* CommittedChain's step, in terms of the database.
LEMMA CommittedStep ==
  ASSUME NEW b \in Blocks, Trust[b] > Trust[dbBest], dbBest' = b, Replays(ledger', b)
  PROVE  Committed!Next
<1>1. Committed!Replays(ledger', b)
  BY DEF Replays, Confirmed, SpendersOn, TxSet, Committed!Replays,
         Committed!Confirmed, Committed!SpendersOn, Committed!TxSet, ToSet, Committed!ToSet
<1>2. Committed!Adopt(b)
  BY <1>1 DEF Committed!Adopt
<1> QED BY <1>2 DEF Committed!Next, Committed!Adopt

\* A transaction of the database that changes anything adopts a heavier chain.
LEMMA StepsCommit ==
  ASSUME CallInv, CallInv', LedgerInv', [Next]_vars, ~halfAdopted'
  PROVE  Committed!Next \/ UNCHANGED <<ledger, dbBest>>
<1>1. dbBest' \in Blocks /\ Replays(ledger', dbBest')
  BY DEF CallInv, TypeInv, DatabaseTypes, LedgerInv
<1>2. CASE UNCHANGED database
  BY <1>2 DEF database
<1>3. CASE ExtendBestChain
  <2>1. CASE ConnectBlock(ledger, cur)
    <3>1. dbBest' = cur /\ halfAdopted' = halfAdopted /\ pc = "setbest"
      BY <1>3, <2>1 DEF ExtendBestChain, CommitBlock, history
    <3>2. Trust[cur] > Trust[best] /\ best = dbBest
      BY <3>1 DEF CallInv, StageInv
    <3> QED BY <1>1, <3>1, <3>2, CommittedStep
  <2>2. CASE ~ConnectBlock(ledger, cur)
    BY <1>2, <1>3, <2>2 DEF ExtendBestChain, Fail
  <2> QED BY <2>1, <2>2
<1>4. CASE CommitReorganize
  <2>1. dbBest' = target /\ halfAdopted' = halfAdopted /\ pc = "reorganize"
    BY <1>4 DEF CommitReorganize, history
  <2>2. Trust[target] > Trust[best] /\ best = dbBest
    BY <2>1 DEF CallInv, StageInv
  <2> QED BY <1>1, <2>1, <2>2, CommittedStep
<1>5. CASE ConnectPostponed
  <2>1. PICK b \in Chain[cur] \ {Genesis} : Parent[b] = dbBest /\ CommitBlock(b)
    BY <1>5 DEF ConnectPostponed
  <2>2. b \in Blocks \ {Genesis}
    BY <2>1, ChainEnds DEF CallInv, TypeInv, CallTypes
  <2>3. dbBest' = b /\ Trust[b] > Trust[dbBest]
    BY <2>1, <2>2, TreeAssumption DEF CommitBlock
  <2> QED BY <1>1, <2>2, <2>3, CommittedStep
<1>6. CASE AddToBlockIndex
  BY <1>6 DEF AddToBlockIndex
<1>7. CASE \/ AllConnected \/ CrashAndRestart \/ RejectBlock \/ AcceptOrphan
           \/ NextInQueue
           \/ \E b \in Blocks : HoldOrphan(b) \/ ProcessBlock(b)
           \/ BeginReorganize \/ UNCHANGED vars
           \/ \E t \in Txs : AcceptToMemoryPool(t) \/ UnlockInput(t)
           \/ \E p \in Lockable : LockInput(p[1], p[2])
  BY <1>2, <1>7 DEF AllConnected, CrashAndRestart, RejectBlock, AcceptOrphan,
     NextInQueue, HoldOrphan, ProcessBlock, BeginReorganize, AcceptToMemoryPool,
     UnlockInput, LockInput, vars
<1>8. CASE DisconnectTip \/ ConnectNext
  BY <1>2, <1>8 DEF DisconnectTip, ConnectNext, Fail
<1> QED BY <1>3, <1>4, <1>5, <1>6, <1>7, <1>8 DEF Next, CallStep

\* The block chain implements CommittedChain up to the first postponed reconnect
\* that fails: each write to the database is a whole, heavier chain.
THEOREM CommitsOneChainCorrect == Spec => CommitsOneChain
<1>1. Init => Committed!Init
  BY DEF Init, Committed!Init, EmptyView, Committed!EmptyView
<1>2. CallInv /\ CallInv' /\ LedgerInv' /\ [Next]_vars
        => [Committed!Next \/ halfAdopted']_<<ledger, dbBest>>
  BY StepsCommit
<1> QED BY <1>1, <1>2, CallInvariance, LedgerInvariance, PTL DEF Spec, CommitsOneChain

-----------------------------------------------------------------------------
(* The orphans *)

OrphanInv ==
    /\ IsFiniteSet(orphans)
    /\ OrphansBounded
    /\ OrphanStakesLive

\* An orphan that leaves takes its stake along.
LEMMA TakeOrphanKeeps ==
  ASSUME OrphanInv, NEW o \in orphans, TakeOrphan(o)
  PROVE  OrphanInv'
<1>1. /\ IsFiniteSet(orphans') /\ Cardinality(orphans') = Cardinality(orphans) - 1
      /\ Cardinality(orphans) \in Nat
  BY FS_RemoveElement, FS_CardinalityType DEF OrphanInv, TakeOrphan
<1>2. MaxOrphans \in Nat
  BY ChainAssumption
<1>3. OrphansBounded'
  BY <1>1, <1>2 DEF OrphanInv, OrphansBounded
<1>4. OrphanStakesLive'
  BY DEF TakeOrphan, OrphanInv, OrphanStakesLive, StakesOf
<1> QED BY <1>1, <1>3, <1>4 DEF OrphanInv

LEMMA HoldOrphanKeeps ==
  ASSUME OrphanInv, NEW b \in Blocks, HoldOrphan(b)
  PROVE  OrphanInv'
<1>1. PICK pruned \in Prunable :
        /\ orphans' = (orphans \ pruned) \cup {b}
        /\ setStakeSeenOrphan' =
              (setStakeSeenOrphan \ StakesOf(pruned)) \cup StakesOf({b})
  BY DEF HoldOrphan
<1>2. /\ IsFiniteSet(orphans) /\ Cardinality(orphans) \in Nat /\ MaxOrphans \in Nat
      /\ Cardinality(orphans) <= MaxOrphans + 1
  BY FS_CardinalityType, ChainAssumption DEF OrphanInv, OrphansBounded
<1>3. IsFiniteSet(orphans \ pruned) /\ Cardinality(orphans \ pruned) <= MaxOrphans
  <2>1. CASE Cardinality(orphans) <= MaxOrphans
    <3>1. orphans \ pruned = orphans
      BY <2>1 DEF Prunable
    <3> QED BY <1>2, <2>1, <3>1
  <2>2. CASE ~(Cardinality(orphans) <= MaxOrphans)
    <3>1. PICK o \in orphans : pruned = {o}
      BY <2>2 DEF Prunable
    <3>2. IsFiniteSet(orphans \ {o}) /\ Cardinality(orphans \ {o}) = Cardinality(orphans) - 1
      BY <1>2, FS_RemoveElement
    <3> QED BY <1>2, <3>1, <3>2
  <2> QED BY <2>1, <2>2
<1>4. b \notin orphans \ pruned
  BY DEF HoldOrphan, PassesProcessBlock
<1>5. /\ IsFiniteSet(orphans')
      /\ Cardinality(orphans') = Cardinality(orphans \ pruned) + 1
      /\ Cardinality(orphans \ pruned) \in Nat
  BY <1>1, <1>3, <1>4, FS_AddElement, FS_CardinalityType
<1>6. OrphansBounded'
  BY <1>2, <1>3, <1>5 DEF OrphansBounded
<1>7. OrphanStakesLive'
  BY <1>1 DEF OrphanInv, OrphanStakesLive, StakesOf
<1> QED BY <1>5, <1>6, <1>7 DEF OrphanInv

LEMMA NextOrphans == OrphanInv /\ [Next]_vars => OrphanInv'
<1> SUFFICES ASSUME OrphanInv, [Next]_vars PROVE OrphanInv'
  OBVIOUS
<1>1. UNCHANGED <<orphans, setStakeSeenOrphan>> => OrphanInv'
  BY DEF OrphanInv, OrphansBounded, OrphanStakesLive
<1>2. CASE \E b \in Blocks : HoldOrphan(b)
  BY <1>2, HoldOrphanKeeps
<1>3. CASE AcceptOrphan
  BY <1>3, TakeOrphanKeeps DEF AcceptOrphan
<1>4. CASE CrashAndRestart
  <2>1. orphans' = {} /\ setStakeSeenOrphan' = {} /\ MaxOrphans \in Nat
    BY <1>4, ChainAssumption DEF CrashAndRestart
  <2> QED BY <2>1, FS_EmptySet DEF OrphanInv, OrphansBounded, OrphanStakesLive
<1>5. CASE \/ \E b \in Blocks : ProcessBlock(b)
           \/ NextInQueue \/ RejectBlock \/ AddToBlockIndex \/ ExtendBestChain
           \/ BeginReorganize \/ DisconnectTip \/ ConnectNext
           \/ \E t \in Txs : AcceptToMemoryPool(t) \/ UnlockInput(t)
           \/ \E p \in Lockable : LockInput(p[1], p[2])
           \/ UNCHANGED vars
  BY <1>1, <1>5 DEF ProcessBlock, NextInQueue, RejectBlock, AddToBlockIndex,
     ExtendBestChain, BeginReorganize, DisconnectTip, ConnectNext, Fail,
     AcceptToMemoryPool, UnlockInput, LockInput, vars, memory
<1>6. CASE CommitReorganize \/ ConnectPostponed \/ AllConnected
  BY <1>1, <1>6 DEF CommitReorganize, ConnectPostponed, AllConnected, Adopt
<1> QED BY <1>2, <1>3, <1>4, <1>5, <1>6 DEF Next, CallStep

LEMMA OrphanInvariance == Spec => []OrphanInv
<1>1. Init => OrphanInv
  <2> SUFFICES ASSUME Init PROVE OrphanInv
    OBVIOUS
  <2>1. orphans = {} /\ setStakeSeenOrphan = {} /\ MaxOrphans \in Nat
    BY ChainAssumption DEF Init
  <2> QED BY <2>1, FS_EmptySet DEF OrphanInv, OrphansBounded, OrphanStakesLive
<1> QED BY <1>1, NextOrphans, PTL DEF Spec

\* However many blocks arrive before their parents, the orphans stay within one
\* above -maxorphanblocks ...
THEOREM OrphansBoundedCorrect == Spec => []OrphansBounded
<1>1. OrphanInv => OrphansBounded
  BY DEF OrphanInv
<1> QED BY <1>1, OrphanInvariance, PTL

\* ... and no stake stays reserved for an orphan that was dropped or accepted.
THEOREM OrphanStakesLiveCorrect == Spec => []OrphanStakesLive
<1>1. OrphanInv => OrphanStakesLive
  BY DEF OrphanInv
<1> QED BY <1>1, OrphanInvariance, PTL

-----------------------------------------------------------------------------
(* The orphans that wait *)

Connecting == pc \in {"setbest", "reorganize", "postponed"}

\* During a call an orphan may wait for an indexed block, but then the block is
\* in the work queue or about to join it.
WaitingInv ==
    /\ pc = "idle" => queue = <<>>
    /\ orphans \cap index = {}
    /\ pc = "accept" => cur \notin orphans
    /\ \A o \in orphans : Parent[o] \in index \ refused =>
          \/ Parent[o] \in ToSet(queue)
          \/ Connecting /\ Parent[o] = cur

\* A sequence and what it holds.
LEMMA QueueSets ==
  ASSUME NEW q \in Seq(Blocks), NEW c \in Blocks
  PROVE  /\ ToSet(Append(q, c)) = ToSet(q) \cup {c}
         /\ q # <<>> => ToSet(q) \subseteq {Head(q)} \cup ToSet(Tail(q))
<1>1. ToSet(Append(q, c)) = ToSet(q) \cup {c}
  <2>1. /\ DOMAIN Append(q, c) = 1..(Len(q) + 1) /\ DOMAIN q = 1..Len(q)
        /\ \A i \in 1..Len(q) : Append(q, c)[i] = q[i]
        /\ Append(q, c)[Len(q) + 1] = c /\ Len(q) \in Nat
    OBVIOUS
  <2>2. \A i : i \in 1..(Len(q) + 1) <=> i \in 1..Len(q) \/ i = Len(q) + 1
    BY <2>1
  <2> QED BY <2>1, <2>2 DEF ToSet
<1>2. ASSUME q # <<>>, NEW i \in DOMAIN q, i # 1
      PROVE  q[i] \in ToSet(Tail(q))
  <2>1. i - 1 \in DOMAIN Tail(q) /\ Tail(q)[i - 1] = q[i]
    BY <1>2
  <2> QED BY <2>1 DEF ToSet
<1>3. q # <<>> => Head(q) = q[1]
  OBVIOUS
<1> QED BY <1>1, <1>2, <1>3 DEF ToSet

\* The return of AcceptBlock.
LEMMA ReturnKeepsWaiting ==
  ASSUME CallInv, NEW accepted \in BOOLEAN, Return(accepted),
         orphans \cap index' = {}, orphans' = orphans,
         \A o \in orphans : Parent[o] \in index' \ refused' =>
            Parent[o] \in ToSet(queue) \/ (accepted /\ Parent[o] = cur)
  PROVE  WaitingInv'
<1> DEFINE q == IF accepted THEN Append(queue, cur) ELSE queue
<1>1. queue \in Seq(Blocks) /\ cur \in Blocks
  BY DEF CallInv, TypeInv, CallTypes
<1>2. ToSet(q) = IF accepted THEN ToSet(queue) \cup {cur} ELSE ToSet(queue)
  BY <1>1, QueueSets
<1>3. queue' = q /\ pc' = (IF q = <<>> THEN "idle" ELSE "orphans")
  BY DEF Return
<1> HIDE DEF q
<1>4. ASSUME NEW o \in orphans', Parent[o] \in index' \ refused'
      PROVE  Parent[o] \in ToSet(queue')
  BY <1>2, <1>3, <1>4
<1> QED BY <1>3, <1>4 DEF WaitingInv

\* SetBestChain gave up cur.
LEMMA FailKeepsWaiting ==
  ASSUME CallInv, WaitingInv, Fail
  PROVE  WaitingInv'
<1>1. Return(FALSE) /\ UNCHANGED <<index, orphans>> /\ refused' = refused \cup {cur}
  BY DEF Fail, memory
<1>2. \A o \in orphans : Parent[o] \in index' \ refused' => Parent[o] \in ToSet(queue)
  BY <1>1 DEF WaitingInv
<1> QED BY <1>1, <1>2, ReturnKeepsWaiting DEF WaitingInv

\* SetBestChain is done with cur.
LEMMA AdoptKeepsWaiting ==
  ASSUME CallInv, WaitingInv, Return(TRUE), UNCHANGED <<index, orphans, refused>>
  PROVE  WaitingInv'
BY ReturnKeepsWaiting DEF WaitingInv

\* The steps inside SetBestChain that do not return.
LEMMA ConnectingKeepsWaiting ==
  ASSUME WaitingInv, Connecting, Connecting',
         UNCHANGED <<index, orphans, refused, queue, cur>>
  PROVE  WaitingInv'
BY DEF WaitingInv, Connecting

LEMMA ArrivalKeepsWaiting ==
  ASSUME CallInv, WaitingInv, NEW b \in Blocks, HoldOrphan(b) \/ ProcessBlock(b)
  PROVE  WaitingInv'
<1>1. CASE HoldOrphan(b)
  <2>1. /\ orphans' \subseteq orphans \cup {b} /\ b \notin index /\ Parent[b] \notin index
        /\ pc = "idle" /\ UNCHANGED <<index, refused, pc, queue, cur>>
    BY <1>1 DEF HoldOrphan, PassesProcessBlock, call, history
  <2> QED BY <2>1 DEF WaitingInv, Connecting
<1>2. CASE ProcessBlock(b)
  <2>1. /\ pc = "idle" /\ pc' = "accept" /\ cur' = b /\ b \notin orphans
        /\ UNCHANGED <<index, orphans, refused, queue>>
    BY <1>2 DEF ProcessBlock, PassesProcessBlock, memory, history
  <2> QED BY <2>1 DEF WaitingInv, Connecting
<1> QED BY <1>1, <1>2

LEMMA QueueKeepsWaiting ==
  ASSUME CallInv, WaitingInv, AcceptOrphan \/ NextInQueue
  PROVE  WaitingInv'
<1>1. CASE AcceptOrphan
  <2>1. /\ pc = "orphans" /\ pc' = "accept" /\ cur' \in orphans
        /\ orphans' = orphans \ {cur'} /\ UNCHANGED <<index, refused, queue>>
    BY <1>1 DEF AcceptOrphan, TakeOrphan, history
  <2> QED BY <2>1 DEF WaitingInv, Connecting
<1>2. CASE NextInQueue
  <2>1. /\ pc = "orphans" /\ queue \in Seq(Blocks) /\ queue # <<>>
        /\ queue' = Tail(queue)
        /\ pc' = IF Tail(queue) = <<>> THEN "idle" ELSE "orphans"
        /\ UNCHANGED <<index, orphans, refused, cur>>
    BY <1>2 DEF NextInQueue, memory, history, CallInv, TypeInv, CallTypes
  <2>2. \A o \in orphans : Parent[o] # Head(queue)
    BY <1>2 DEF NextInQueue, OrphanWaitsFor
  <2>3. ToSet(queue) \subseteq {Head(queue)} \cup ToSet(Tail(queue))
    BY <2>1, QueueSets, TreeAssumption
  <2> QED BY <2>1, <2>2, <2>3 DEF WaitingInv, Connecting
<1> QED BY <1>1, <1>2

LEMMA AcceptKeepsWaiting ==
  ASSUME CallInv, WaitingInv, RejectBlock \/ AddToBlockIndex
  PROVE  WaitingInv'
<1>1. CASE RejectBlock
  <2>1. pc = "accept" /\ Return(FALSE) /\ UNCHANGED <<index, orphans, refused>>
    BY <1>1 DEF RejectBlock, memory, history
  <2> QED BY <2>1, ReturnKeepsWaiting DEF WaitingInv, Connecting
<1>2. CASE AddToBlockIndex
  <2>1. /\ pc = "accept" /\ index' = index \cup {cur} /\ UNCHANGED <<orphans, refused>>
        /\ \/ pc' = "setbest" /\ UNCHANGED <<cur, queue>>
           \/ Return(TRUE)
    BY <1>2 DEF AddToBlockIndex, history
  <2>2. /\ orphans \cap index' = {}
        /\ \A o \in orphans : Parent[o] \in index' \ refused' =>
              Parent[o] \in ToSet(queue) \/ Parent[o] = cur
    BY <2>1 DEF WaitingInv, Connecting
  <2>3. CASE Return(TRUE)
    BY <2>1, <2>2, <2>3, ReturnKeepsWaiting
  <2>4. CASE pc' = "setbest" /\ UNCHANGED <<cur, queue>>
    BY <2>1, <2>2, <2>4 DEF WaitingInv, Connecting
  <2> QED BY <2>1, <2>3, <2>4
<1> QED BY <1>1, <1>2

LEMMA SetBestChainKeepsWaiting ==
  ASSUME CallInv, WaitingInv,
         \/ ExtendBestChain \/ BeginReorganize \/ DisconnectTip \/ ConnectNext
         \/ CommitReorganize \/ ConnectPostponed \/ AllConnected
  PROVE  WaitingInv'
<1>1. CASE ExtendBestChain
  <2>1. Fail \/ (Return(TRUE) /\ UNCHANGED <<index, orphans, refused>>)
    BY <1>1 DEF ExtendBestChain, history
  <2> QED BY <2>1, FailKeepsWaiting, AdoptKeepsWaiting
<1>2. CASE BeginReorganize \/ CommitReorganize
  <2>1. Connecting /\ Connecting' /\ UNCHANGED <<index, orphans, refused, queue, cur>>
    BY <1>2 DEF BeginReorganize, CommitReorganize, Connecting, memory, history
  <2> QED BY <2>1, ConnectingKeepsWaiting
<1>3. CASE DisconnectTip \/ ConnectNext
  <2>1. \/ Fail
        \/ Connecting /\ Connecting' /\ UNCHANGED <<index, orphans, refused, queue, cur>>
    BY <1>3 DEF DisconnectTip, ConnectNext, Connecting, memory, history
  <2> QED BY <2>1, FailKeepsWaiting, ConnectingKeepsWaiting
<1>4. CASE ConnectPostponed
  <2>1. \/ Return(TRUE) /\ UNCHANGED <<index, orphans, refused>>
        \/ Connecting /\ Connecting' /\ UNCHANGED <<index, orphans, refused, queue, cur>>
    BY <1>4 DEF ConnectPostponed, Adopt, Connecting, call, history
  <2> QED BY <2>1, AdoptKeepsWaiting, ConnectingKeepsWaiting
<1>5. CASE AllConnected
  BY <1>5, AdoptKeepsWaiting DEF AllConnected, Adopt, history
<1> QED BY <1>1, <1>2, <1>3, <1>4, <1>5

LEMMA NextWaiting == CallInv /\ WaitingInv /\ [Next]_vars => WaitingInv'
<1> SUFFICES ASSUME CallInv, WaitingInv, [Next]_vars PROVE WaitingInv'
  OBVIOUS
<1>1. CASE CrashAndRestart
  BY <1>1 DEF CrashAndRestart, WaitingInv
<1>2. CASE \/ \E t \in Txs : AcceptToMemoryPool(t) \/ UnlockInput(t)
           \/ \E p \in Lockable : LockInput(p[1], p[2])
           \/ UNCHANGED vars
  <2>1. UNCHANGED <<memory, call, history>>
    BY <1>2 DEF AcceptToMemoryPool, UnlockInput, LockInput, vars
  <2> QED BY <2>1 DEF WaitingInv, Connecting, memory, call, history
<1> QED BY <1>1, <1>2, ArrivalKeepsWaiting, QueueKeepsWaiting, AcceptKeepsWaiting,
     SetBestChainKeepsWaiting DEF Next, CallStep

\* However blocks arrive, fail and are pruned, no orphan is left behind by the call
\* that brought its parent into the index.
THEOREM NoStuckOrphanCorrect == Spec => []NoStuckOrphan
<1>1. Init => WaitingInv
  BY DEF Init, WaitingInv
<1>2. CallInv /\ WaitingInv => NoStuckOrphan
  BY DEF WaitingInv, NoStuckOrphan, Connecting, ToSet
<1> QED BY <1>1, <1>2, NextWaiting, CallInvariance, PTL DEF Spec

-----------------------------------------------------------------------------
(* The heaviest block *)

\* During a call only the block being connected may outweigh the best one.
HeaviestInv ==
    ~halfAdopted =>
        \A b \in index \ refused :
            Trust[b] <= Trust[best] \/ (Connecting /\ b = cur)

\* cur is given up, or it becomes the best block.
LEMMA EndOfCallHeaviest ==
  ASSUME CallInv, HeaviestInv, Connecting, index' = index, halfAdopted' = halfAdopted,
         \/ best' = best /\ refused' = refused \cup {cur}
         \/ best' = cur /\ refused' = refused
  PROVE  HeaviestInv'
<1>1. Trust[cur] > Trust[best] /\ {Trust[b] : b \in index \cup {cur, best}} \subseteq Nat
  BY SMTT(30), TreeAssumption DEF CallInv, StageInv, TypeInv, MemoryTypes, CallTypes, Connecting
<1>2. CASE best' = best /\ refused' = refused \cup {cur}
  BY <1>2 DEF HeaviestInv
<1>3. CASE best' = cur /\ refused' = refused
  BY <1>1, <1>3 DEF HeaviestInv
<1> QED BY <1>2, <1>3

LEMMA CrashHeaviest ==
  ASSUME CallInv, HeaviestInv, CrashAndRestart
  PROVE  HeaviestInv'
<1>1. /\ index' = index /\ best' = dbBest /\ halfAdopted' = halfAdopted
      /\ refused' = refused \cup (IF Connecting THEN {cur} ELSE {})
  BY DEF CrashAndRestart, CallInv, IndexInv, Connecting
<1>2. ~halfAdopted => best = dbBest \/ Trust[dbBest] > Trust[best]
  BY DEF CallInv, StageInv
<1>3. {Trust[b] : b \in index \cup {dbBest, best}} \subseteq Nat
  BY TreeAssumption DEF CallInv, TypeInv, MemoryTypes, DatabaseTypes
<1>4. ASSUME ~halfAdopted, NEW b \in index \ refused'
      PROVE  Trust[b] <= Trust[dbBest]
  <2>1. Trust[b] <= Trust[best]
    BY <1>1, <1>4 DEF HeaviestInv
  <2> QED BY <1>2, <1>3, <1>4, <2>1
<1> QED BY <1>1, <1>4 DEF HeaviestInv

LEMMA NextHeaviest == CallInv /\ HeaviestInv /\ [Next]_vars => HeaviestInv'
<1> SUFFICES ASSUME CallInv, HeaviestInv, [Next]_vars PROVE HeaviestInv'
  OBVIOUS
<1>1. CASE \/ \E b \in Blocks : HoldOrphan(b) \/ ProcessBlock(b)
           \/ AcceptOrphan \/ NextInQueue \/ RejectBlock
  <2>1. UNCHANGED <<index, best, halfAdopted, refused>> /\ ~Connecting
    BY <1>1 DEF HoldOrphan, ProcessBlock, AcceptOrphan, NextInQueue, RejectBlock,
       Connecting, memory, history
  <2> QED BY <2>1 DEF HeaviestInv
<1>2. CASE AddToBlockIndex
  <2>1. /\ UNCHANGED <<best, halfAdopted, refused>> /\ index' = index \cup {cur}
        /\ ~Connecting /\ (MoreTrust(cur) => Connecting' /\ cur' = cur)
    BY <1>2 DEF AddToBlockIndex, Connecting, history
  <2>2. Trust[cur] \in Nat /\ Trust[best] \in Nat
    BY TreeAssumption DEF CallInv, TypeInv, MemoryTypes, CallTypes
  <2> QED BY <2>1, <2>2 DEF HeaviestInv, MoreTrust
<1>3. CASE ExtendBestChain
  <2>1. /\ Connecting /\ index' = index /\ halfAdopted' = halfAdopted
        /\ \/ best' = best /\ refused' = refused \cup {cur}
           \/ best' = cur /\ refused' = refused
    BY <1>3 DEF ExtendBestChain, Fail, Connecting, memory, history
  <2> QED BY <2>1, EndOfCallHeaviest
<1>4. CASE BeginReorganize \/ CommitReorganize
  <2>1. UNCHANGED <<index, best, halfAdopted, refused, cur>> /\ Connecting'
    BY <1>4 DEF BeginReorganize, CommitReorganize, Connecting, memory, history
  <2> QED BY <2>1 DEF HeaviestInv
<1>5. CASE DisconnectTip \/ ConnectNext
  <2>1. CASE Fail
    BY <1>5, <2>1, EndOfCallHeaviest
       DEF DisconnectTip, ConnectNext, Fail, Connecting, memory
  <2>2. CASE ~Fail
    <3>1. UNCHANGED <<index, best, halfAdopted, refused, cur, pc>>
      BY <1>5, <2>2 DEF DisconnectTip, ConnectNext, memory, history
    <3> QED BY <3>1 DEF HeaviestInv, Connecting
  <2> QED BY <2>1, <2>2
<1>6. CASE ConnectPostponed
  <2>1. \/ halfAdopted'
        \/ UNCHANGED <<index, best, halfAdopted, refused, cur, pc>>
    BY <1>6 DEF ConnectPostponed, call, history
  <2> QED BY <2>1 DEF HeaviestInv, Connecting
<1>7. CASE AllConnected
  BY <1>7, EndOfCallHeaviest DEF AllConnected, Adopt, Connecting, history
<1>8. CASE \/ \E t \in Txs : AcceptToMemoryPool(t) \/ UnlockInput(t)
           \/ \E p \in Lockable : LockInput(p[1], p[2])
           \/ UNCHANGED vars
  <2>1. UNCHANGED <<memory, call, history>>
    BY <1>8 DEF AcceptToMemoryPool, UnlockInput, LockInput, vars
  <2> QED BY <2>1 DEF HeaviestInv, Connecting, memory, call, history
<1> QED BY <1>1, <1>2, <1>3, <1>4, <1>5, <1>6, <1>7, <1>8, CrashHeaviest DEF Next, CallStep

\* At rest the best chain is the heaviest the index has, whatever order the blocks
\* came in, except for those whose adoption failed or was cut off.
THEOREM HeaviestIsBestCorrect == Spec => []HeaviestIsBest
<1>1. Init => HeaviestInv
  <2>1. Trust[Genesis] \in Nat
    BY TreeAssumption
  <2> QED BY <2>1 DEF Init, HeaviestInv
<1>2. HeaviestInv => HeaviestIsBest
  BY DEF HeaviestInv, HeaviestIsBest, Connecting
<1> QED BY <1>1, <1>2, NextHeaviest, CallInvariance, PTL DEF Spec

-----------------------------------------------------------------------------
(* The memory pool *)

\* Steps that take nothing into the pool and leave the transaction index alone.
LEMMA PoolUnchanged ==
  ASSUME PoolConsistent, mempool' \subseteq mempool, ledger' = ledger,
         halfAdopted => halfAdopted'
  PROVE  PoolConsistent'
BY DEF PoolConsistent

\* A block on top of the committed chain takes its transactions out of the pool.
LEMMA CommitBlockPool ==
  ASSUME PoolConsistent, mempool \subseteq Txs, NEW b, CommitBlock(b),
         halfAdopted' = halfAdopted
  PROVE  PoolConsistent'
BY DEF PoolConsistent, CommitBlock, Connect

LEMMA AcceptToMemoryPoolKeeps ==
  ASSUME PoolConsistent, NEW t \in Txs, AcceptToMemoryPool(t)
  PROVE  PoolConsistent'
<1>1. /\ mempool' = mempool \cup {t} /\ ledger' = ledger /\ halfAdopted' = halfAdopted
      /\ ledger.at[t] = NoBlock /\ \A u \in mempool : ~Conflicting(t, u)
  BY DEF AcceptToMemoryPool, PoolAccepts, database, history
<1>2. \A u \in mempool : ~Conflicting(u, t)
  BY <1>1 DEF Conflicting
<1>3. ~Conflicting(t, t)
  BY DEF Conflicting
<1> QED BY <1>1, <1>2, <1>3 DEF PoolConsistent

\* What the open transaction has confirmed and the disk has not is in vDelete.
LEMMA NewlyConfirmed ==
  ASSUME CallInv, LedgerInv, ~halfAdopted, pc = "reorganize", tip = target,
         NEW t \in Txs, batch.at[t] # NoBlock, ledger.at[t] = NoBlock
  PROVE  t \in TxsOf(Connected)
<1>1. Replays(batch, target) /\ Replays(ledger, best)
  BY DEF LedgerInv, CallInv, StageInv
<1>2. t \in Confirmed(target) /\ t \notin Confirmed(best)
  BY <1>1 DEF Replays
<1> QED BY <1>2 DEF Confirmed, TxsOf, Connected

\* The pool between vResurrect and vDelete: what came back is not confirmed on
\* the new branch, and what was there before, if it is, will be deleted.
LEMMA ResurrectedPool ==
  ASSUME CallInv, LedgerInv, PoolConsistent, pc = "reorganize", tip = target,
         NEW pool \in Resurrected
  PROVE  /\ pool \subseteq Txs
         /\ \A t, u \in pool : ~Conflicting(t, u)
         /\ ~halfAdopted =>
               \A t \in pool : batch.at[t] = NoBlock \/ t \in TxsOf(Connected)
<1>1. mempool \subseteq Txs /\ TxsOf(Disconnected) \subseteq Txs
  BY ChainEnds, TxSetType DEF TxsOf, Disconnected, CallInv, TypeInv, MemoryTypes, PoolTypes
<1>2. /\ pool \subseteq mempool \cup TxsOf(Disconnected)
      /\ \A t \in pool \ mempool : PoolAccepts(mempool, batch, best, locks, t)
      /\ (\A t, u \in mempool : ~Conflicting(t, u)) => \A t, u \in pool : ~Conflicting(t, u)
  BY AcceptedFew DEF Resurrected
<1>3. \A t, u \in pool : ~Conflicting(t, u)
  BY <1>2 DEF PoolConsistent
<1>4. ASSUME ~halfAdopted, NEW t \in pool, batch.at[t] # NoBlock
      PROVE  t \in TxsOf(Connected)
  <2>1. t \in mempool
    BY <1>2, <1>4 DEF PoolAccepts
  <2>2. ledger.at[t] = NoBlock /\ t \in Txs
    BY <1>1, <1>4, <2>1 DEF PoolConsistent
  <2> QED BY <1>4, <2>2, NewlyConfirmed
<1> QED BY <1>1, <1>2, <1>3, <1>4

LEMMA CommitReorganizePool ==
  ASSUME CallInv, LedgerInv, PoolConsistent, CommitReorganize
  PROVE  PoolConsistent'
<1>1. /\ pc = "reorganize" /\ tip = target
      /\ ledger' = batch /\ halfAdopted' = halfAdopted
  BY DEF CommitReorganize, history
<1>2. PICK pool \in Resurrected : mempool' = Deleted(pool)
  BY DEF CommitReorganize
<1>3. mempool' \subseteq pool \ TxsOf(Connected)
  BY <1>2, RemovedFew DEF Deleted
<1>4. /\ \A t, u \in pool : ~Conflicting(t, u)
      /\ ~halfAdopted => \A t \in pool : batch.at[t] = NoBlock \/ t \in TxsOf(Connected)
  BY <1>1, <1>2, ResurrectedPool
<1> QED BY <1>1, <1>3, <1>4 DEF PoolConsistent

LEMMA NextPool == CallInv /\ LedgerInv /\ PoolConsistent /\ [Next]_vars => PoolConsistent'
<1> SUFFICES ASSUME CallInv, LedgerInv, PoolConsistent, [Next]_vars
             PROVE  PoolConsistent'
  OBVIOUS
<1>1. mempool \subseteq Txs
  BY DEF CallInv, TypeInv, PoolTypes
<1>2. CASE \/ \E b \in Blocks : HoldOrphan(b) \/ ProcessBlock(b)
           \/ AcceptOrphan \/ NextInQueue \/ RejectBlock \/ AddToBlockIndex
           \/ BeginReorganize \/ UNCHANGED vars
           \/ \E t \in Txs : UnlockInput(t)
           \/ \E p \in Lockable : LockInput(p[1], p[2])
  <2>1. UNCHANGED <<mempool, ledger, halfAdopted>>
    BY <1>2 DEF HoldOrphan, ProcessBlock, AcceptOrphan, NextInQueue, RejectBlock,
       AddToBlockIndex, BeginReorganize, UnlockInput, LockInput, vars, database, history
  <2> QED BY <2>1, PoolUnchanged
<1>3. CASE DisconnectTip \/ ConnectNext
  BY <1>3, PoolUnchanged DEF DisconnectTip, ConnectNext, Fail, database, history
<1>4. CASE ExtendBestChain
  <2>1. CASE ConnectBlock(ledger, cur)
    BY <1>1, <1>4, <2>1, CommitBlockPool DEF ExtendBestChain, history
  <2>2. CASE ~ConnectBlock(ledger, cur)
    BY <1>4, <2>2, PoolUnchanged DEF ExtendBestChain, Fail, database
  <2> QED BY <2>1, <2>2
<1>5. CASE ConnectPostponed
  <2>1. PICK b \in Chain[cur] \ {Genesis} :
          IF ConnectBlock(ledger, b)
          THEN CommitBlock(b) /\ UNCHANGED history
          ELSE halfAdopted' = TRUE /\ UNCHANGED <<pnext, mempool, database, refused>>
    BY <1>5 DEF ConnectPostponed
  <2>2. CASE ConnectBlock(ledger, b)
    BY <1>1, <2>1, <2>2, CommitBlockPool DEF history
  <2>3. CASE ~ConnectBlock(ledger, b)
    BY <2>1, <2>3, PoolUnchanged DEF database
  <2> QED BY <2>2, <2>3
<1>6. CASE AllConnected \/ CrashAndRestart
  BY <1>6, PoolUnchanged DEF AllConnected, CrashAndRestart, database, history
<1> QED BY <1>2, <1>3, <1>4, <1>5, <1>6, AcceptToMemoryPoolKeeps, CommitReorganizePool
     DEF Next, CallStep

\* Whatever is extended, reorganised or put back, the pool has nothing that is
\* confirmed and no two transactions that spend the same output.
THEOREM PoolConsistentCorrect == Spec => []PoolConsistent
<1>1. Init => PoolConsistent
  BY DEF Init, PoolConsistent
<1> QED BY <1>1, NextPool, CallInvariance, LedgerInvariance, PTL DEF Spec

\* The steps of Resurrection.
Resurrects ==
    dbBest' # dbBest /\ dbBest \notin Chain[dbBest'] /\ ~halfAdopted =>
         \A t \in Confirmed(dbBest) \ Generated :
            \/ t \in mempool'
            \/ ledger'.at[t] # NoBlock
            \/ \E o \in Inputs[t] : ledger'.at[o] = NoBlock \/ ledger'.spent[o] # NoTx
            \/ \E u \in mempool \cup mempool' : Conflicting(t, u)
            \/ LockConflict(locks, t)
            \/ \E o \in Inputs[t] \cap Generated : Immature(ledger'.at[o], best)

\* A sound index: nothing on a chain conflicts with anything else on it.
LEMMA ChainHasNoConflict ==
  ASSUME NEW v, NEW b \in Blocks, Replays(v, b),
         NEW t \in Confirmed(b), NEW u \in Confirmed(b)
  PROVE  ~Conflicting(t, u)
<1>1. t \in Txs /\ u \in Txs
  BY ConfirmedType
<1>2. ASSUME NEW o \in Inputs[t] \cap Inputs[u]
      PROVE  t = u
  <2>1. o \in Txs
    BY <1>1, TxAssumption
  <2>2. t \in SpendersOn(b, o) /\ u \in SpendersOn(b, o)
    BY DEF SpendersOn
  <2> QED BY <2>1, <2>2 DEF Replays
<1> QED BY <1>2 DEF Conflicting

\* What vResurrect took into the pool goes out of it with vDelete only if the
\* new branch confirmed it or spent an input of it.
LEMMA StaysResurrected ==
  ASSUME CallInv, LedgerInv, PoolConsistent, ~halfAdopted, pc = "reorganize", tip = target,
         NEW pool \in Resurrected, NEW t \in pool \ mempool
  PROVE  t \in Deleted(pool) \/ batch.at[t] # NoBlock
<1> SUFFICES ASSUME t \notin Deleted(pool), batch.at[t] = NoBlock PROVE FALSE
  OBVIOUS
<1> DEFINE left == pool \ TxsOf(Connected)
<1>1. PoolAccepts(mempool, batch, best, locks, t) /\ pool \subseteq Txs /\ t \in Txs
  BY AcceptedFew, ResurrectedPool DEF Resurrected
<1>2. Replays(batch, target) /\ target \in Blocks
  BY DEF LedgerInv, CallInv, TypeInv, CallTypes
<1>3. TxsOf(Connected) \subseteq Confirmed(target)
  BY DEF TxsOf, Connected, Confirmed
<1>4. t \in left
  BY <1>1, <1>2, <1>3 DEF Replays
<1>5. CASE \E u \in TxsOf(Connected) : Conflicting(t, u)
  <2>1. PICK u \in TxsOf(Connected) : Conflicting(t, u)
    BY <1>5
  <2>2. PICK o \in Inputs[t] \cap Inputs[u] : TRUE
    BY <2>1 DEF Conflicting
  <2>3. o \in Txs /\ u \in SpendersOn(target, o)
    BY <1>1, <1>3, <2>2, TxAssumption DEF SpendersOn
  <2> QED BY <1>1, <1>2, <2>2, <2>3 DEF Replays, PoolAccepts
<1>6. CASE Inputs[t] \cap left # {}
  <2>1. PICK w \in Inputs[t] : w \in pool /\ w \notin TxsOf(Connected)
    BY <1>6
  <2>2. batch.at[w] = NoBlock
    BY <2>1, ResurrectedPool
  <2> QED BY <1>1, <2>1, <2>2 DEF PoolAccepts, MissingInputs
<1> QED BY <1>4, <1>5, <1>6, RemovedFew DEF Deleted

LEMMA ReorganizeResurrects ==
  ASSUME CallInv, LedgerInv, PoolConsistent, CommitReorganize
  PROVE  Resurrects
<1> SUFFICES ASSUME ~halfAdopted, NEW t \in Confirmed(dbBest) \ Generated,
                    t \notin mempool', batch.at[t] = NoBlock,
                    \A o \in Inputs[t] : batch.at[o] # NoBlock /\ batch.spent[o] = NoTx,
                    \A u \in mempool : ~Conflicting(t, u),
                    ~LockConflict(locks, t),
                    \A o \in Inputs[t] \cap Generated : ~Immature(batch.at[o], best)
             PROVE  FALSE
  BY DEF Resurrects, CommitReorganize
<1>1. /\ pc = "reorganize" /\ tip = target /\ dbBest = best
      /\ best \in Blocks /\ target \in Blocks
      /\ Replays(batch, target) /\ Replays(ledger, best)
  BY DEF CommitReorganize, LedgerInv, CallInv, StageInv, TypeInv, MemoryTypes, CallTypes
<1>2. PICK pool \in Resurrected : mempool' = Deleted(pool)
  BY DEF CommitReorganize
<1>3. t \in Txs /\ t \in Confirmed(best) /\ t \notin Confirmed(target)
  BY <1>1, ConfirmedType DEF Replays
<1>4. t \in TxsOf(Disconnected)
  BY <1>3 DEF Confirmed, TxsOf, Disconnected
<1>5. ledger.at[t] # NoBlock
  BY <1>1, <1>3 DEF Replays
<1>6. t \notin mempool
  BY <1>5 DEF PoolConsistent
<1>7. PoolAccepts(mempool, batch, best, locks, t)
  BY <1>6 DEF PoolAccepts, MissingInputs
<1>8. t \notin pool
  BY <1>1, <1>2, <1>6, StaysResurrected
<1>9. PICK u \in TxsOf(Disconnected) : Conflicting(t, u)
  BY <1>4, <1>7, <1>8, AcceptedFew DEF Resurrected
<1>10. u \in Confirmed(best)
  BY DEF TxsOf, Disconnected, Confirmed
<1> QED BY <1>1, <1>3, <1>9, <1>10, ChainHasNoConflict

\* Any other step leaves the best chain in the database, perhaps longer.
LEMMA StepsResurrect ==
  ASSUME CallInv, LedgerInv, PoolConsistent, [Next]_vars
  PROVE  Resurrects
<1>1. dbBest' = dbBest => Resurrects
  BY DEF Resurrects
<1>2. ASSUME NEW b \in Blocks \ {Genesis}, Parent[b] = dbBest, CommitBlock(b)
      PROVE  Resurrects
  <2>1. dbBest \in Chain[dbBest']
    BY <1>2, ChainEnds, TreeAssumption DEF CommitBlock
  <2> QED BY <2>1 DEF Resurrects
<1>3. CASE ExtendBestChain
  <2>1. CASE ConnectBlock(ledger, cur)
    <3>1. cur \in Blocks \ {Genesis} /\ Parent[cur] = best /\ CommitBlock(cur)
          /\ (~halfAdopted => best = dbBest)
      BY <1>3, <2>1 DEF ExtendBestChain, CallInv, StageInv, TypeInv, CallTypes
    <3>2. CASE halfAdopted
      BY <3>2 DEF Resurrects
    <3>3. CASE ~halfAdopted
      BY <1>2, <3>1, <3>3
    <3> QED BY <3>2, <3>3
  <2>2. CASE ~ConnectBlock(ledger, cur)
    BY <1>1, <1>3, <2>2 DEF ExtendBestChain, Fail, database
  <2> QED BY <2>1, <2>2
<1>4. CASE ConnectPostponed
  <2>1. PICK b \in Chain[cur] \ {Genesis} :
          Parent[b] = dbBest /\ (CommitBlock(b) \/ UNCHANGED database)
    BY <1>4 DEF ConnectPostponed
  <2>2. b \in Blocks \ {Genesis}
    BY ChainEnds DEF CallInv, TypeInv, CallTypes
  <2> QED BY <1>1, <1>2, <2>1, <2>2 DEF database
<1>5. CASE \/ \E b \in Blocks : HoldOrphan(b) \/ ProcessBlock(b)
           \/ AcceptOrphan \/ NextInQueue \/ RejectBlock \/ AddToBlockIndex
           \/ BeginReorganize \/ AllConnected \/ CrashAndRestart \/ UNCHANGED vars
           \/ \E t \in Txs : AcceptToMemoryPool(t) \/ UnlockInput(t)
           \/ \E p \in Lockable : LockInput(p[1], p[2])
  BY <1>1, <1>5 DEF HoldOrphan, ProcessBlock, AcceptOrphan, NextInQueue,
     RejectBlock, AddToBlockIndex, BeginReorganize, AllConnected, CrashAndRestart,
     AcceptToMemoryPool, UnlockInput, LockInput, vars, database
<1>6. CASE DisconnectTip \/ ConnectNext
  BY <1>1, <1>6 DEF DisconnectTip, ConnectNext, Fail, database
<1> QED BY <1>3, <1>4, <1>5, <1>6, ReorganizeResurrects DEF Next, CallStep

\* A reorganisation loses no transaction silently: each one of the old branch is
\* in the pool again or on the new branch, or AcceptToMemoryPool had its reason.
THEOREM ResurrectionCorrect == Spec => Resurrection
<1>1. CallInv /\ LedgerInv /\ PoolConsistent /\ [Next]_vars => [Resurrects]_vars
  BY StepsResurrect
<1> QED BY <1>1, CallInvariance, LedgerInvariance, PoolConsistentCorrect, PTL
     DEF Spec, Resurrection, Resurrects

=============================================================================
