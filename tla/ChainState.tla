----------------------------- MODULE ChainState -----------------------------
(***************************************************************************)
(* The block chain of main.cpp and its database: ProcessBlock, the orphan  *)
(* blocks, AcceptBlock, AddToBlockIndex, SetBestChain with Reorganize and  *)
(* the postponed reconnects, and the restart from disk (LoadBlockIndex).   *)
(*                                                                         *)
(* Everything runs under cs_main, so between two ProcessBlock calls the    *)
(* state is quiescent ("idle").  Within one call the steps are the         *)
(* database transactions and, inside Reorganize's transaction, the single  *)
(* blocks disconnected and connected: the program may crash between any    *)
(* two of them and then finds on disk what was committed.                  *)
(***************************************************************************)
EXTENDS TxPool

CONSTANTS
    Malformed,     \* blocks CheckBlock refuses, whatever the state
    Unacceptable,  \* blocks AcceptBlock refuses: time, bits, kernel, version
    WrongPayee,    \* blocks that pay another alphanode than the one due
    Stake,         \* GetProofOfStake() of every block
    NoStake,       \* that of a proof-of-work block
    BlockTime,     \* GetBlockTime()
    Span,          \* nCheckpointSpan: depth of the synchronised checkpoint
    MaxOrphans,    \* -maxorphanblocks
    Lockable       \* the <<outpoint, transaction>> pairs InstantX may lock

ASSUME ChainAssumption ==
    /\ Malformed \cup Unacceptable \cup WrongPayee \subseteq Blocks \ {Genesis}
    /\ BlockTime \in [Blocks -> Nat] /\ Span \in Nat /\ MaxOrphans \in Nat
    /\ Lockable \subseteq Txs \X Txs
    /\ Stake[Genesis] = NoStake

VARIABLES
    \* in memory
    index,           \* mapBlockIndex
    pnext,           \* CBlockIndex::pnext
    best,            \* pindexBest, hashBestChain
    setStakeSeen, setStakeSeenOrphan,
    orphans,         \* mapOrphanBlocks, mapOrphanBlocksByPrev
    mempool,         \* CTxMemPool::mapTx
    locks,           \* mapLockedInputs, kept by instantx.cpp
    \* in the database
    dbIndex,         \* the block index records
    dbNext,          \* their hashNext
    dbBest,          \* the record hashBestChain
    ledger,          \* the transaction index
    \* the ProcessBlock call in progress
    pc,              \* where it is
    cur,             \* the block being accepted
    queue,           \* vWorkQueue from its i-th element on
    target,          \* pindexIntermediate, the end of the new branch
    tip,             \* the block the open transaction stands at
    batch,           \* that transaction's view of the transaction index
    batchNext,       \* and of the hashNext
    \* history
    refused,         \* blocks indexed but not adopted: SetBestChain failed
                     \* or the program went down before it was done
    halfAdopted      \* a postponed reconnect failed and best moved all the same

memory == <<index, pnext, best, setStakeSeen, setStakeSeenOrphan, orphans>>
database == <<dbIndex, dbNext, dbBest, ledger>>
call == <<pc, cur, queue, target, tip, batch, batchNext>>
history == <<refused, halfAdopted>>
vars == <<memory, mempool, locks, database, call, history>>

Init ==
    /\ index = {Genesis} /\ dbIndex = {Genesis}
    /\ pnext = [b \in Blocks |-> NoBlock] /\ dbNext = pnext
    /\ best = Genesis /\ dbBest = Genesis
    /\ setStakeSeen = {} /\ setStakeSeenOrphan = {}
    /\ orphans = {}
    /\ mempool = {}
    /\ locks = [t \in Txs |-> NoTx]
    /\ ledger = EmptyView
    /\ pc = "idle" /\ queue = <<>>
    /\ cur = Genesis /\ target = Genesis /\ tip = Genesis
    /\ batch = EmptyView /\ batchNext = pnext
    /\ refused = {} /\ halfAdopted = FALSE

-----------------------------------------------------------------------------
(* Checks *)

\* Checkpoints::AutoSelectSyncCheckpoint: the ancestor of pindexBest Span
\* blocks back, or the genesis block.
SyncHeight == IF Height[best] > Span THEN Height[best] - Span ELSE 0
SyncCheckpoint == CHOOSE b \in Chain[best] : Height[b] = SyncHeight

\* CheckBlock.  Two of its rules depend on the state: a transaction must not
\* spend an input InstantX locked for another one, and a block on top of
\* pindexBest - and only there - has to pay the alphanode that is due.
CheckBlock(b) ==
    /\ b \notin Malformed
    /\ \A t \in TxSet(b) : ~LockConflict(locks, t)
    /\ Parent[b] = best => b \notin WrongPayee

\* ConnectBlock: CheckBlock once more, then the inputs.
ConnectBlock(view, b) == CheckBlock(b) /\ CanConnect(view, b)

\* AcceptBlock's own checks, up to the one of the synchronised checkpoint.
AcceptBlockChecks(b) ==
    /\ b \notin index /\ Parent[b] \in index
    /\ b \notin Unacceptable
    /\ Height[b] > SyncHeight

\* The stake limit of ProcessBlock: a stake seen before is let through only
\* for a block some orphan waits for.
OrphanWaitsFor(b) == \E o \in orphans : Parent[o] = b
DuplicateStake(seen, b) == Stake[b] \in seen /\ ~OrphanWaitsFor(b)

\* Only proof-of-stake blocks have one.
StakesOf(bs) == {Stake[b] : b \in bs} \ {NoStake}

-----------------------------------------------------------------------------
(* ProcessBlock *)

\* ProcessBlock up to the question whether the parent is known.
PassesProcessBlock(b) ==
    /\ b \notin index /\ b \notin orphans
    /\ ~DuplicateStake(setStakeSeen, b)
    /\ Parent[b] # best => BlockTime[b] >= BlockTime[SyncCheckpoint]
    /\ CheckBlock(b)

\* PruneOrphanBlocks: above the limit one orphan goes that no other waits for.
Prunable ==
    IF Cardinality(orphans) <= MaxOrphans THEN {{}}
    ELSE {{o} : o \in {p \in orphans : ~OrphanWaitsFor(p)}}

\* The parent is unknown: the block is held back.
HoldOrphan(b) ==
    /\ pc = "idle"
    /\ PassesProcessBlock(b) /\ Parent[b] \notin index
    /\ ~DuplicateStake(setStakeSeenOrphan, b)
    /\ \E pruned \in Prunable :
         /\ orphans' = (orphans \ pruned) \cup {b}
         /\ setStakeSeenOrphan' =
                (setStakeSeenOrphan \ StakesOf(pruned)) \cup StakesOf({b})
    /\ UNCHANGED <<index, pnext, best, setStakeSeen, mempool, locks, database,
                   call, history>>

\* The parent is known: AcceptBlock.
ProcessBlock(b) ==
    /\ pc = "idle"
    /\ PassesProcessBlock(b) /\ Parent[b] \in index
    /\ pc' = "accept" /\ cur' = b
    /\ UNCHANGED <<memory, mempool, locks, database, queue, target, tip, batch,
                   batchNext, history>>

\* No database transaction is open: its variables have no value.
TransactionClosed ==
    /\ target' = Genesis /\ tip' = Genesis
    /\ batch' = EmptyView /\ batchNext' = [b \in Blocks |-> NoBlock]

ReturnFirstOnly(accepted) == \* mutant: orphans of an orphan are not looked for
    LET q == IF accepted /\ queue = <<>> THEN <<cur>> ELSE queue
    IN  /\ queue' = q
        /\ pc' = IF q = <<>> THEN "idle" ELSE "orphans"
        /\ cur' = Genesis
        /\ TransactionClosed

\* What ProcessBlock does when AcceptBlock of cur returns: a block accepted
\* joins the work queue, one that failed does not.
Return(accepted) ==
    LET q == IF accepted THEN Append(queue, cur) ELSE queue
    IN  /\ queue' = q
        /\ pc' = IF q = <<>> THEN "idle" ELSE "orphans"
        /\ cur' = Genesis
        /\ TransactionClosed

TakeOrphanLeavingStake(o) == \* mutant: its stake stays seen
    orphans' = orphans \ {o} /\ UNCHANGED setStakeSeenOrphan
\* The next orphan that waits for the head of the queue.  It leaves the
\* orphans whether AcceptBlock likes it or not.
TakeOrphan(o) ==
    /\ orphans' = orphans \ {o}
    /\ setStakeSeenOrphan' = setStakeSeenOrphan \ {Stake[o]}

AcceptOrphan ==
    /\ pc = "orphans"
    /\ \E o \in orphans :
         /\ Parent[o] = Head(queue)
         /\ TakeOrphan(o)
         /\ cur' = o /\ pc' = "accept"
    /\ UNCHANGED <<index, pnext, best, setStakeSeen, mempool, locks, database,
                   queue, target, tip, batch, batchNext, history>>

NextInQueue ==
    /\ pc = "orphans" /\ ~OrphanWaitsFor(Head(queue))
    /\ queue' = Tail(queue)
    /\ pc' = IF Tail(queue) = <<>> THEN "idle" ELSE "orphans"
    /\ UNCHANGED <<memory, mempool, locks, database, cur, target, tip, batch,
                   batchNext, history>>

-----------------------------------------------------------------------------
(* AcceptBlock and AddToBlockIndex *)

\* A check fails, or the block cannot be written: nothing was changed.
RejectBlock ==
    /\ pc = "accept"
    /\ Return(FALSE)
    /\ UNCHANGED <<memory, mempool, locks, database, history>>

MoreTrustOnTop(b) == Trust[b] > Trust[best] /\ Parent[b] = best \* mutant: no reorganisation
MoreTrust(b) == Trust[b] > Trust[best]

\* The block joins mapBlockIndex and, in a transaction of its own, the index
\* on disk.  Its parent's pnext is turned to it whether or not it is going to
\* be on the best chain.
AddToBlockIndex ==
    /\ pc = "accept"
    /\ AcceptBlockChecks(cur)
    /\ index' = index \cup {cur}
    /\ pnext' = [pnext EXCEPT ![Parent[cur]] = cur, ![cur] = NoBlock]
    /\ setStakeSeen' = setStakeSeen \cup StakesOf({cur})
    /\ dbIndex' = dbIndex \cup {cur}
    /\ dbNext' = [dbNext EXCEPT ![cur] = NoBlock]
    /\ IF MoreTrust(cur)
       THEN pc' = "setbest" /\ UNCHANGED <<cur, queue, target, tip, batch, batchNext>>
       ELSE Return(TRUE)
    /\ UNCHANGED <<best, setStakeSeenOrphan, orphans, mempool, locks, dbBest,
                   ledger, history>>

-----------------------------------------------------------------------------
(* SetBestChain *)

NextFromMemory(next, b) == \* mutant: the parent's record keeps the pnext in memory
    [next EXCEPT ![b] = pnext[b], ![Parent[b]] = pnext[Parent[b]]]

\* ConnectBlock writes pindex with the pnext it has in memory, then the record
\* of its parent with hashNext = pindex.
NextAfterConnect(next, b) == [next EXCEPT ![b] = pnext[b], ![Parent[b]] = b]

CommitWithoutHash(b) == \* mutant: WriteHashBestChain is missing
    /\ ledger' = Connect(ledger, b)
    /\ dbNext' = NextAfterConnect(dbNext, b)
    /\ pnext' = [pnext EXCEPT ![Parent[b]] = b]
    /\ mempool' = mempool \ TxSet(b)
    /\ UNCHANGED <<dbIndex, dbBest>>

\* SetBestChainInner, with b on top of the committed chain.
CommitBlock(b) ==
    /\ ledger' = Connect(ledger, b)
    /\ dbNext' = NextAfterConnect(dbNext, b)
    /\ dbBest' = b
    /\ pnext' = [pnext EXCEPT ![Parent[b]] = b]
    /\ mempool' = mempool \ TxSet(b)
    /\ UNCHANGED dbIndex

Fail ==
    /\ refused' = refused \cup {cur}
    /\ Return(FALSE)
    /\ UNCHANGED <<memory, mempool, locks, database, halfAdopted>>

\* hashPrevBlock == hashBestChain.
ExtendBestChain ==
    /\ pc = "setbest" /\ Parent[cur] = best
    /\ IF ConnectBlock(ledger, cur)
       THEN /\ CommitBlock(cur)
            /\ best' = cur
            /\ Return(TRUE)
            /\ UNCHANGED <<index, setStakeSeen, setStakeSeenOrphan, orphans,
                           locks, history>>
       ELSE Fail

FirstOfBranch(x) == \* mutant: the first block after the fork
    x \notin Chain[best] /\ Parent[x] \in Chain[best]
FirstHeavier(x) ==
    Trust[x] > Trust[best] /\ (x # Genesis => Trust[Parent[x]] <= Trust[best])

\* Otherwise pindexIntermediate is the first block of the new branch with more
\* trust than the best one; the blocks after it are postponed.
BeginReorganize ==
    /\ pc = "setbest" /\ Parent[cur] # best
    /\ \E x \in Chain[cur] : FirstHeavier(x) /\ target' = x
    /\ pc' = "reorganize"
    /\ tip' = best /\ batch' = ledger /\ batchNext' = dbNext
    /\ UNCHANGED <<memory, mempool, locks, database, cur, queue, history>>

\* Reorganize, disconnecting back to the fork.
DisconnectTip ==
    /\ pc = "reorganize" /\ tip \notin Chain[target]
    /\ IF CanDisconnect(batch, tip)
       THEN /\ batch' = Disconnect(batch, tip)
            /\ batchNext' = [batchNext EXCEPT ![Parent[tip]] = NoBlock]
            /\ tip' = Parent[tip]
            /\ UNCHANGED <<memory, mempool, locks, database, pc, cur, queue,
                           target, history>>
       ELSE Fail

\* Reorganize, connecting the new branch; a block that fails aborts it all.
ConnectNext ==
    /\ pc = "reorganize" /\ tip \in Chain[target] /\ tip # target
    /\ \E b \in Chain[target] \ {Genesis} :
         /\ Parent[b] = tip
         /\ IF ConnectBlock(batch, b)
            THEN /\ batch' = Connect(batch, b)
                 /\ batchNext' = NextAfterConnect(batchNext, b)
                 /\ tip' = b
                 /\ UNCHANGED <<memory, mempool, locks, database, pc, cur,
                                queue, target, history>>
            ELSE Fail

\* Reorganize's commit, then the memory structures: pnext along both branches,
\* the transactions of the old branch back into the pool (pindexBest is still
\* the old tip), those of the new branch and their conflicts out of it.
Disconnected == Chain[best] \ Chain[target]
Connected == Chain[target] \ Chain[best]
TxsOf(bs) == UNION {TxSet(b) : b \in bs}

ResurrectNone == {mempool} \* mutant: vResurrect stays empty
\* The pool with vResurrect accepted.
Resurrected == AcceptedEach(mempool, batch, best, locks, TxsOf(Disconnected))

Undeleted(pool) == pool \* mutant: vDelete is not worked off
\* vDelete: what the new branch confirms and what conflicts with it.
Deleted(pool) == RemoveConflicts(pool \ TxsOf(Connected), TxsOf(Connected))

CommitReorganize ==
    /\ pc = "reorganize" /\ tip = target
    /\ ledger' = batch /\ dbNext' = batchNext /\ dbBest' = target
    /\ pnext' = Relinked(pnext, best, target)
    /\ \E pool \in Resurrected : mempool' = Deleted(pool)
    /\ pc' = "postponed"
    /\ TransactionClosed
    /\ UNCHANGED <<index, best, setStakeSeen, setStakeSeenOrphan, orphans, locks,
                   dbIndex, cur, queue, history>>

\* The end of SetBestChain.  best moves to cur even when a postponed reconnect
\* failed and the loop was left ("errors now are not fatal").
Adopt ==
    /\ best' = cur
    /\ Return(TRUE)
    /\ UNCHANGED <<index, setStakeSeen, setStakeSeenOrphan, orphans, locks>>

\* The postponed reconnects, each in a transaction of its own.
ConnectPostponed ==
    /\ pc = "postponed" /\ dbBest # cur
    /\ \E b \in Chain[cur] \ {Genesis} :
         /\ Parent[b] = dbBest
         /\ IF ConnectBlock(ledger, b)
            THEN /\ CommitBlock(b)
                 /\ UNCHANGED <<index, best, setStakeSeen, setStakeSeenOrphan,
                                orphans, locks, call, history>>
            ELSE /\ Adopt
                 /\ halfAdopted' = TRUE
                 /\ UNCHANGED <<pnext, mempool, database, refused>>

AllConnected ==
    /\ pc = "postponed" /\ dbBest = cur
    /\ Adopt
    /\ UNCHANGED <<pnext, mempool, database, history>>

-----------------------------------------------------------------------------
(* Restart, and the rest of the node *)

\* The process ends at any point and LoadBlockIndex rebuilds the memory from
\* the database; an open transaction is lost.
CrashAndRestart ==
    /\ index' = dbIndex
    /\ pnext' = dbNext
    /\ best' = dbBest
    /\ setStakeSeen' = StakesOf(dbIndex)
    /\ setStakeSeenOrphan' = {} /\ orphans' = {} /\ mempool' = {}
    /\ locks' = [t \in Txs |-> NoTx]
    /\ pc' = "idle" /\ queue' = <<>> /\ cur' = Genesis
    /\ TransactionClosed
    /\ refused' = refused \cup
         (IF pc \in {"setbest", "reorganize", "postponed"} THEN {cur} ELSE {})
    /\ UNCHANGED <<database, halfAdopted>>

\* AcceptToMemoryPool of a loose transaction.
AcceptToMemoryPool(t) ==
    /\ pc = "idle"
    /\ PoolAccepts(mempool, ledger, best, locks, t)
    /\ mempool' = mempool \cup {t}
    /\ UNCHANGED <<memory, locks, database, call, history>>

\* instantx.cpp completes a lock on an input, in a message handler, or lets it
\* expire, in a thread of its own.  Neither takes cs_main, so both may fall into
\* a ProcessBlock call of the staking or the import thread.
LockInput(o, t) ==
    /\ locks[o] = NoTx
    /\ <<o, t>> \in Lockable
    /\ locks' = [locks EXCEPT ![o] = t]
    /\ UNCHANGED <<memory, mempool, database, call, history>>

UnlockInput(o) ==
    /\ locks[o] # NoTx
    /\ locks' = [locks EXCEPT ![o] = NoTx]
    /\ UNCHANGED <<memory, mempool, database, call, history>>

-----------------------------------------------------------------------------

\* A ProcessBlock call.
CallStep ==
    \/ AcceptOrphan \/ NextInQueue
    \/ RejectBlock \/ AddToBlockIndex
    \/ ExtendBestChain
    \/ BeginReorganize \/ DisconnectTip \/ ConnectNext \/ CommitReorganize
    \/ ConnectPostponed \/ AllConnected

Next ==
    \/ \E b \in Blocks \ {Genesis} : HoldOrphan(b) \/ ProcessBlock(b)
    \/ CallStep
    \/ CrashAndRestart
    \/ \E t \in Txs : AcceptToMemoryPool(t) \/ UnlockInput(t)
    \/ \E p \in Lockable : LockInput(p[1], p[2])

Spec == Init /\ [][Next]_vars

-----------------------------------------------------------------------------
(* Properties *)

Stages == {"idle", "accept", "orphans", "setbest", "reorganize", "postponed"}

\* Every variable holds a value of its type.
TypeOK ==
    /\ index \subseteq Blocks /\ dbIndex \subseteq Blocks
    /\ pnext \in [Blocks -> Blocks \cup {NoBlock}]
    /\ dbNext \in [Blocks -> Blocks \cup {NoBlock}]
    /\ best \in Blocks /\ dbBest \in Blocks
    /\ orphans \subseteq Blocks
    /\ setStakeSeen \cup setStakeSeenOrphan
            \subseteq {Stake[b] : b \in Blocks} \ {NoStake}
    /\ mempool \subseteq Txs
    /\ locks \in [Txs -> Txs \cup {NoTx}]
    /\ ledger \in Views /\ batch \in Views
    /\ pc \in Stages /\ queue \in Seq(Blocks)
    /\ cur \in Blocks /\ target \in Blocks /\ tip \in Blocks
    /\ batchNext \in [Blocks -> Blocks \cup {NoBlock}]
    /\ refused \subseteq Blocks /\ halfAdopted \in BOOLEAN

\* After every committed transaction - so wherever a crash may fall - the
\* transaction index on disk is exactly the one of the chain hashBestChain
\* names: no double spend, no transaction lost or left over by a
\* reorganisation.  So is the one an open transaction sees.  (SetBestChain
\* breaks it once it moves best past a failed postponed reconnect.)
LedgerReplaysBestChain ==
    ~halfAdopted =>
        /\ Replays(ledger, dbBest)
        /\ pc = "reorganize" => Replays(batch, tip)

\* After every committed transaction the hashNext records, from which
\* LoadBlockIndex takes pnext, lead from the genesis block up the chain that
\* hashBestChain names: whoever walks up the chain after a restart (the wallet's
\* scan, getblocks, getheaders) does not end on a branch that was left.  The
\* same holds in an open transaction.  It does not hold in memory, where a new
\* block on a fork turns its parent's pnext to itself.
LinksFollowChain ==
    ~halfAdopted =>
        /\ Follows(dbNext, dbBest)
        /\ pc = "reorganize" => Follows(batchNext, tip)

\* No transaction is confirmed twice and none spends an output the best chain
\* did not create before it.  ConnectBlock has no test for a repeated one: it
\* fails because the earlier one spent its inputs.
EveryTxOnce == ~halfAdopted => SoundChain(dbBest)

\* Between two calls the memory agrees with the database, as long as no
\* postponed reconnect failed: pindexBest is the committed chain, and every
\* indexed block is on disk with its parent.
MemoryMatchesDatabase ==
    /\ index = dbIndex
    /\ \A b \in index \ {Genesis} : Parent[b] \in index
    /\ ~halfAdopted /\ pc # "postponed" => best = dbBest
    /\ {best, dbBest} \subseteq index

\* At rest no indexed block has more trust than the best one, unless adopting
\* it was tried and failed or was cut off by a crash.
HeaviestIsBest ==
    pc = "idle" /\ ~halfAdopted =>
        \A b \in index \ refused : Trust[b] <= Trust[best]

\* At rest no orphan waits for a block that is in the index, unless that block
\* was indexed by a call that failed or was cut off.
NoStuckOrphan ==
    pc = "idle" => \A o \in orphans : o \notin index /\ Parent[o] \notin index \ refused

\* setStakeSeenOrphan names only stakes of orphans that are there: a stake is
\* not blocked by an orphan that left.
OrphanStakesLive == setStakeSeenOrphan \subseteq StakesOf(orphans)

\* The orphans stay bounded: one above -maxorphanblocks.
OrphansBounded == Cardinality(orphans) <= MaxOrphans + 1

\* The pool and the chain are disjoint, and the pool has no two transactions
\* that spend the same output - also after a reorganisation put some back.
PoolConsistent ==
    \A t \in mempool :
        /\ ~halfAdopted => ledger.at[t] = NoBlock
        /\ \A u \in mempool : ~Conflicting(t, u)

\* The committed chain never changes for one with less trust, not even by a
\* crash, and a step that moves it forward keeps or replaces its end by
\* blocks of the index.
DatabaseTrustGrows ==
    [][~halfAdopted' => /\ Trust[dbBest'] >= Trust[dbBest]
                        /\ Trust[best'] >= Trust[best]
                        /\ Chain[dbBest'] \subseteq dbIndex']_vars

\* A confirmed transaction whose block is off the new best chain is in the
\* pool again, confirmed by the new branch, or could not be accepted: what the
\* comment above the loop of Reorganize promises, but for one case.  What the
\* pool held against it may itself go out with the new branch right after.
Resurrection ==
    [][dbBest' # dbBest /\ dbBest \notin Chain[dbBest'] /\ ~halfAdopted =>
         \A t \in Confirmed(dbBest) \ Generated :
            \/ t \in mempool'
            \/ ledger'.at[t] # NoBlock
            \/ \E o \in Inputs[t] : ledger'.at[o] = NoBlock \/ ledger'.spent[o] # NoTx
            \/ \E u \in mempool \cup mempool' : Conflicting(t, u)
            \/ LockConflict(locks, t)
            \/ \E o \in Inputs[t] \cap Generated : Immature(ledger'.at[o], best)]_vars

\* As long as no postponed reconnect failed the database behaves as
\* CommittedChain says: every write to it is a whole chain with more trust.
Committed == INSTANCE CommittedChain WITH view <- ledger, best <- dbBest
CommitsOneChain ==
    Committed!Init /\ [][Committed!Next \/ halfAdopted']_<<ledger, dbBest>>

(* What the documentation says *)

\* main.cpp:2382 "errors now are not fatal, we still did a reorganisation to a
\* new chain in a valid way": the best chain in memory is the connected one.
BestIsConnected == pc = "idle" => best = dbBest

=============================================================================
