------------------------------- MODULE Wallet -------------------------------
(***************************************************************************)
(* The wallet (wallet.cpp) on top of a chain that is reorganised: which    *)
(* transactions it records, the block it believes each of them to be in,   *)
(* and the outputs it believes to be spent.                                *)
(*                                                                         *)
(* SetBestChain tells the wallet of every transaction while the database   *)
(* transaction of the block is still open; it may be aborted afterwards,   *)
(* or the process may end.  The wallet's own file is written at once, so   *)
(* a restart finds the wallet as it was.  CommitTransaction, the staking   *)
(* thread and the RPC calls hold cs_main and cs_wallet, as SetBestChain    *)
(* does: none of them sees a transaction of the database half done.        *)
(*                                                                         *)
(* Left out: amounts, keys, accounts, times, cached balances, encryption,  *)
(* the depth InstantX adds, and postponed blocks of SetBestChain that fail *)
(* to connect (ChainState has them).                                       *)
(***************************************************************************)
EXTENDS TxPool

CONSTANTS
    Mine,      \* transactions whose output pays this wallet
    Own,       \* those CreateTransaction makes
    Stakes,    \* coinstakes, of Generated
    Invalid,   \* blocks that fail ConnectBlock for other reasons than inputs
    Period     \* blocks between two calls of the wallet's SetBestChain (144)

ASSUME WalletAssumption ==
    /\ Mine \subseteq Txs
    /\ Own \subseteq Txs \ Generated
    /\ \A t \in Own : Inputs[t] # {} /\ Inputs[t] \subseteq Mine
    /\ Stakes \subseteq Generated
    /\ Invalid \subseteq Blocks \ {Genesis}
    /\ Period \in Nat \ {0}

VARIABLES
    \* the database and what SetBestChain has done to it
    mapBlockIndex,  \* blocks whose index record is on disk
    dbNext,         \* their hashNext
    view,           \* the committed transaction index
    best,           \* hashBestChain
    goal,           \* SetBestChain is connecting it, or NoBlock
    target,         \* where the open database transaction leads
    reached,        \* the block it has reached
    working,        \* the transaction index as it sees it
    workingNext,    \* and the hashNext
    pnext,          \* CBlockIndex::pnext, in memory
    pool,           \* mempool
    \* CWallet
    mapWallet,      \* transactions it has
    hashBlock,      \* CMerkleTx::hashBlock of each, or NoBlock
    vfSpent,        \* outputs marked as spent
    locator,        \* the best block the wallet's file names
    \* history
    adopted,        \* blocks that were once on the best chain
    astray,         \* told last of a block that is not on the best chain
    sent,           \* of Own, what was in the pool once
    released,       \* outputs whose mark was taken back since they were last marked
    exposed         \* outputs others spent in blocks since FixSpentCoins or a restart

database == <<mapBlockIndex, dbNext, view, best>>
call == <<goal, target, reached, working, workingNext>>
wallet == <<mapWallet, hashBlock, vfSpent, locator>>
history == <<adopted, astray, sent, released, exposed>>
vars == <<database, call, pnext, pool, wallet, history>>

NoLocks == [o \in Txs |-> NoTx]

Init ==
    /\ mapBlockIndex = {Genesis} /\ view = EmptyView /\ best = Genesis
    /\ goal = NoBlock /\ target = Genesis /\ reached = Genesis /\ working = EmptyView
    /\ dbNext = [b \in Blocks |-> NoBlock] /\ workingNext = dbNext
    /\ pnext = dbNext /\ pool = {}
    /\ mapWallet = {} /\ hashBlock = [t \in Txs |-> NoBlock]
    /\ vfSpent = {} /\ locator = Genesis
    /\ adopted = {Genesis} /\ astray = {} /\ sent = {} /\ released = {} /\ exposed = {}

Idle == goal = NoBlock

\* The marks become new.
Mark(new) ==
    /\ vfSpent' = new
    /\ released' = (released \cup vfSpent) \ new

-----------------------------------------------------------------------------
(* What the wallet is told *)

\* IsFromMe: it spends an output of the wallet.
IsFromMe(known, t) == Inputs[t] \cap known \cap Mine # {}
Involved(known, t) == t \in known \cup Mine \/ IsFromMe(known, t)

\* The wallet's transactions after it was told of those of a sequence, in order:
\* what pays it is recorded, and then what spends something recorded.
Learned(known, txs) ==
    LET earlier(i) == {txs[j] : j \in 1..(i - 1)}
    IN  known \cup {txs[i] : i \in {i \in 1..Len(txs) :
                                  Involved(known \cup (Mine \cap earlier(i)), txs[i])}}

FirstBlockKept(known, b) == \* mutant: AddToWallet does not merge hashBlock
    hashBlock' = [t \in Txs |-> IF t \in TxSet(b) \cap known /\ hashBlock[t] = NoBlock
                                THEN b ELSE hashBlock[t]]
\* AddToWallet with a block merges it over what was recorded.
Merged(known, b) ==
    hashBlock' = [t \in Txs |-> IF t \in TxSet(b) \cap known THEN b ELSE hashBlock[t]]

\* SyncTransaction for all transactions of b, connected or disconnected: a
\* disconnected coinstake of this wallet gives its inputs back.
SyncBlock(b, fConnect) ==
    LET known == Learned(mapWallet, BlockTxs[b])
    IN  /\ mapWallet' = known
        /\ Merged(known, b)
        /\ Mark(IF fConnect THEN vfSpent
                ELSE vfSpent \ UNION {Inputs[t] \cap known \cap Mine :
                                        t \in TxSet(b) \cap Stakes})
        /\ UNCHANGED <<locator, adopted, astray, sent, exposed>>

-----------------------------------------------------------------------------
(* SetBestChain *)

\* The block from which on the new chain outweighs the best one: Reorganize
\* goes there in one database transaction.
Intermediate(b) ==
    CHOOSE i \in Chain[b] \ {Genesis} :
        /\ Trust[i] > Trust[best] /\ Trust[Parent[i]] <= Trust[best]

\* AddToBlockIndex writes the record of b and, in memory alone, turns pnext of
\* its parent to it; SetBestChain starts if b has the most trust.  A postponed
\* block that could fail is left to ChainState.
AddToBlockIndex(b) ==
    /\ Idle
    /\ b \in Invalid => Trust[Parent[b]] <= Trust[best]
    /\ b \notin mapBlockIndex /\ Parent[b] \in mapBlockIndex
    /\ TxSet(b) \cap Own \subseteq sent
    /\ mapBlockIndex' = mapBlockIndex \cup {b}
    /\ IF Trust[b] > Trust[best]
       THEN /\ goal' = b
            /\ target' = IF Parent[b] = best THEN b ELSE Intermediate(b)
            /\ reached' = best /\ working' = view /\ workingNext' = dbNext
       ELSE UNCHANGED call
    /\ pnext' = [pnext EXCEPT ![Parent[b]] = b]
    /\ UNCHANGED <<dbNext, view, best, pool, wallet, history>>

\* DisconnectBlock inside Reorganize.
DisconnectBlock ==
    /\ ~Idle /\ reached \notin Chain[target]
    /\ CanDisconnect(working, reached)
    /\ working' = Disconnect(working, reached)
    /\ workingNext' = [workingNext EXCEPT ![Parent[reached]] = NoBlock]
    /\ reached' = Parent[reached]
    /\ SyncBlock(reached, FALSE)
    /\ UNCHANGED <<database, goal, target, pnext, pool>>

NextBlock == CHOOSE b \in Chain[target] \ {Genesis} : Parent[b] = reached
Connectable(b) == b \notin Invalid /\ CanConnect(working, b)

\* ConnectBlock: the wallet is told although nothing is committed yet.  The
\* record of the block is written with the pnext it has in memory.
ConnectBlock ==
    /\ ~Idle /\ reached \in Chain[target] /\ reached # target
    /\ Connectable(NextBlock)
    /\ working' = Connect(working, NextBlock)
    /\ workingNext' = [workingNext EXCEPT ![NextBlock] = pnext[NextBlock],
                                          ![reached] = NextBlock]
    /\ reached' = NextBlock
    /\ SyncBlock(NextBlock, TRUE)
    /\ UNCHANGED <<database, goal, target, pnext, pool>>

\* What the wallet was told of blocks that are not on the disk's chain.
Told == UNION {TxSet(b) : b \in (Chain[reached] \ Chain[best])
                                  \cup (Chain[best] \ Chain[reached])}

\* ConnectBlock fails: the transaction is aborted, and nobody tells the wallet.
AbortReorganize ==
    /\ ~Idle /\ reached \in Chain[target] /\ reached # target
    /\ ~Connectable(NextBlock)
    /\ goal' = NoBlock
    /\ astray' = astray \cup Told
    /\ UNCHANGED <<database, target, reached, working, workingNext, pnext, pool,
                   wallet, adopted, sent, released, exposed>>

\* Transactions of the disconnected blocks return to the pool, while pindexBest
\* is still the old tip.  The wallet hears of them; it knows them.
Resurrected == AcceptedEach(pool, working, best, NoLocks,
                            UNION {TxSet(b) : b \in Chain[best] \ Chain[target]})

\* TxnCommit, then the memory: pnext, the pool, and the wallet's locator now and
\* then; then the next postponed block, each in a transaction of its own.
\* Reorganize is also what runs when a crash left blocks between the best one
\* and the new one: its target may then be the block on top of the best one, as
\* that of SetBestChainInner is, and both are possible here.
CommitBest ==
    /\ ~Idle /\ reached = target
    /\ view' = working /\ dbNext' = workingNext /\ best' = target
    /\ pnext' = Relinked(pnext, best, target)
    /\ LET new == UNION {TxSet(b) : b \in Chain[target] \ Chain[best]}
       IN  /\ \/ Parent[target] = best /\ pool' = pool \ new
              \/ Parent[goal] # best /\ \E p \in Resurrected :
                                           pool' = RemoveConflicts(p \ new, new)
           /\ astray' = astray \ new
           /\ exposed' = exposed \cup UNION {Inputs[t] : t \in new \ Own}
    /\ adopted' = adopted \cup Chain[target]
    /\ IF target = goal
       THEN /\ goal' = NoBlock
            /\ locator' = IF Height[goal] % Period = 0 THEN goal ELSE locator
            /\ UNCHANGED target
       ELSE /\ target' = CHOOSE b \in Chain[goal] \ {Genesis} : Parent[b] = target
            /\ UNCHANGED <<goal, locator>>
    /\ UNCHANGED <<mapBlockIndex, reached, working, workingNext, mapWallet, hashBlock,
                   vfSpent, sent, released>>

-----------------------------------------------------------------------------
(* Transactions of this wallet and of others *)

\* IsInMainChain: a block with a pnext, whatever chain it is on, or the best one.
InMainChain(next, b) == next[b] # NoBlock \/ b = best

\* GetDepthInMainChain > 0.
InChain(t) ==
    /\ hashBlock[t] \in mapBlockIndex /\ InMainChain(pnext, hashBlock[t])
    /\ Height[hashBlock[t]] <= Height[best]

\* AvailableCoins: confirmed, not marked as spent, and if generated at least
\* Maturity blocks deep (GetBlocksToMaturity).
AvailableCoins ==
    {o \in mapWallet \cap Mine :
        /\ InChain(o)
        /\ o \notin vfSpent
        /\ o \in Generated => Height[hashBlock[o]] + Maturity <= Height[best] + 1}

MarkItself(t) == vfSpent \cup {t} \* mutant: MarkSpent on the new transaction
\* txin.prevout.n of every coin's transaction.
MarkSpent(t) == vfSpent \cup Inputs[t]

\* CommitTransaction of what CreateTransaction has just made: recorded, its
\* coins marked, then offered to the pool.
CommitTransaction(t) ==
    /\ Idle
    /\ t \in Own \ mapWallet /\ Inputs[t] \subseteq AvailableCoins
    /\ mapWallet' = mapWallet \cup {t}
    /\ Mark(MarkSpent(t))
    /\ pool' = IF PoolAccepts(pool, view, best, NoLocks, t) THEN pool \cup {t} ELSE pool
    /\ sent' = sent \cup (pool' \ pool)
    /\ UNCHANGED <<database, call, pnext, hashBlock, locator, adopted, astray, exposed>>

\* A transaction from a peer, a darksend session or sendrawtransaction enters
\* the pool, and the wallet is told.
AcceptToMemoryPool(t) ==
    /\ Idle
    /\ t \notin Own /\ PoolAccepts(pool, view, best, NoLocks, t)
    /\ pool' = pool \cup {t}
    /\ mapWallet' = Learned(mapWallet, <<t>>)
    /\ UNCHANGED <<database, call, pnext, hashBlock, vfSpent, locator, history>>

\* FixSpentCoins: the marks of indexed transactions follow the index.
Fixed(idx) ==
    {o \in vfSpent : idx.at[o] = NoBlock}
        \cup {o \in mapWallet \cap Mine : idx.at[o] # NoBlock /\ idx.spent[o] # NoTx}

\* repairwallet, and the staking thread after every block of its own.
FixSpentCoins ==
    /\ Idle
    /\ Mark(Fixed(view))
    /\ exposed' = {}
    /\ UNCHANGED <<database, call, pnext, pool, mapWallet, hashBlock, locator, adopted,
                   astray, sent>>

-----------------------------------------------------------------------------
(* Restart *)

\* The blocks one passes from a block on along the pnext read from the disk.
Followed(from) ==
    {b \in Blocks : /\ from \in Chain[b]
                    /\ \A c \in Chain[b] \ Chain[from] : dbNext[Parent[c]] = c}

\* The highest block of the locator that seems to be in the main chain.
LocatedFrom ==
    LET have == {b \in Chain[locator] : InMainChain(dbNext, b)} \cup {Genesis}
    IN  CHOOSE b \in have : \A c \in have : Height[c] <= Height[b]

\* What start-up scans.
Scanned == IF Height[best] > Height[LocatedFrom] THEN Followed(LocatedFrom) ELSE {}

\* The last block of a path that holds a transaction, and the first one.
LastWith(path, t) == CHOOSE b \in path :
    t \in TxSet(b) /\ \A c \in path : t \in TxSet(c) => Height[c] <= Height[b]
FirstWith(path, t) == CHOOSE b \in path :
    t \in TxSet(b) /\ \A c \in path : t \in TxSet(c) => Height[b] <= Height[c]

\* Learned over the blocks of a path, from the lowest to the highest.
LearnedFrom(known, blocks) ==
    LET below(b) == UNION {TxSet(c) : c \in {c \in blocks : Height[c] < Height[b]}}
    IN  known \cup UNION {Learned(known \cup (Mine \cap below(b)), BlockTxs[b]) : b \in blocks}

\* ReacceptWalletTransactions offers every transaction that is neither in a
\* block nor in the pool, in the order of their hashes.
Reaccepted(known) == AcceptedEach({}, view, best, NoLocks, known)

UnspentOnDisk(known) == {o \in known \cap Mine : view.spent[o] = NoTx} \* mutant: IsNull inverted
\* The outputs whose CTxIndex names a spender.
SpentOnDisk(known) == {o \in known \cap Mine : view.spent[o] # NoTx}

\* The wallet after the scan of a path, which places all it finds anew, and
\* after ReacceptWalletTransactions, which scanned from the genesis block on for
\* what was missed if a coin turned out to be spent.
Rescanned(scanned, known, all) ==
    LET found == known \cap UNION {TxSet(b) : b \in scanned}
        missed == all \ known
    IN  /\ mapWallet' = all
        /\ hashBlock' = [t \in Txs |->
               IF t \in found THEN LastWith(scanned, t)
               ELSE IF t \in missed THEN FirstWith(Followed(Genesis), t)
               ELSE hashBlock[t]]
        /\ Mark(vfSpent \cup SpentOnDisk(all))
        /\ pool' \in Reaccepted(all)
        /\ locator' = IF scanned = {} THEN locator ELSE best
        /\ astray' = ((IF Idle THEN astray ELSE astray \cup Told) \ found)
                \cup {t \in found \cup missed : hashBlock'[t] \notin Chain[best]}

\* The process ends, at any step, and starts again: LoadBlockIndex, the scan
\* from the locator on, ReacceptWalletTransactions.
Restart ==
    /\ \E scanned \in {Scanned} : \E known \in {LearnedFrom(mapWallet, scanned)} :
       \E all \in {IF SpentOnDisk(known) \subseteq vfSpent THEN known
                   ELSE LearnedFrom(known, Followed(Genesis))} :
          Rescanned(scanned, known, all)
    /\ goal' = NoBlock
    /\ pnext' = dbNext
    /\ sent' = sent \cup (pool' \cap Own)
    /\ exposed' = {}
    /\ UNCHANGED <<database, target, reached, working, workingNext, adopted>>

Next ==
    \/ \E b \in Blocks \ {Genesis} : AddToBlockIndex(b)
    \/ DisconnectBlock \/ ConnectBlock \/ AbortReorganize \/ CommitBest
    \/ \E t \in Txs : CommitTransaction(t) \/ AcceptToMemoryPool(t)
    \/ FixSpentCoins
    \/ Restart

Spec == Init /\ [][Next]_vars

-----------------------------------------------------------------------------
(* Properties *)

\* Every variable holds a value of its type.
TypeOK ==
    /\ mapBlockIndex \subseteq Blocks /\ view \in Views /\ best \in Blocks
    /\ goal \in Blocks \cup {NoBlock} /\ target \in Blocks /\ reached \in Blocks
    /\ working \in Views
    /\ {pnext, dbNext, workingNext} \subseteq [Blocks -> Blocks \cup {NoBlock}]
    /\ adopted \subseteq Blocks
    /\ pool \subseteq Txs /\ mapWallet \subseteq Txs
    /\ hashBlock \in [Txs -> Blocks \cup {NoBlock}]
    /\ vfSpent \subseteq Txs /\ locator \in Blocks
    /\ astray \subseteq Txs /\ sent \subseteq Own /\ released \subseteq Txs /\ exposed \subseteq Txs

\* Between two calls of SetBestChain the wallet has every transaction of the
\* best chain that concerns it, and places it in its block of that chain,
\* whatever was disconnected, connected again or interrupted; except what it
\* was told of last by a reorganisation that did not happen, or by a scan that
\* followed pnext off the best chain.
RecordsFollowChain ==
    Idle => \A t \in Txs \ astray :
        view.at[t] # NoBlock /\ (t \in Mine \/ Inputs[t] \cap Mine # {})
            => t \in mapWallet /\ hashBlock[t] = view.at[t]

\* What the wallet counts as confirmed is in that block of the best chain, or in
\* a block off it that has a child nobody ever connected: indexing the child
\* alone made its parent look connected.  A block that was connected and
\* disconnected again confirms nothing by the blocks that once followed it,
\* also after an aborted reorganisation, a crash in the middle of one, or a scan.
ConfirmedIsOnChain ==
    Idle => \A t \in mapWallet : InChain(t) =>
        \/ hashBlock[t] = view.at[t]
        \/ hashBlock[t] \notin Chain[best] /\ pnext[hashBlock[t]] \notin adopted

\* A coin that an own transaction spends, in the pool or in the chain, is
\* offered again only if its mark was taken back: by FixSpentCoins while the
\* transaction was not in a block, or for a disconnected coinstake.
OfferedOnce ==
    \A o \in AvailableCoins, t \in Own :
        o \in Inputs[t] /\ (t \in pool \/ view.at[t] # NoBlock) => o \in released

\* A coin the chain has spent is offered only if others spent it in a block
\* since FixSpentCoins or the last restart, or its mark was taken back and
\* neither of them has put it back: both find what the wallet missed.
OfferedIsUnspent ==
    Idle => \A o \in AvailableCoins :
        view.spent[o] # NoTx => o \in exposed \cup released

=============================================================================
