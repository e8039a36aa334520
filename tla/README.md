# Tao core: a TLA+ verification project

This directory holds TLA+ specifications of parts of the Tao full node (`src/`),
TLC configurations that model-check them, and TLAPS proofs about them. Paths
below are relative to the repository (`src/src/main.cpp` is written `main.cpp`).

Tao 0.9.0 is a C++ full node in the Bitcoin / PPCoin / Blackcoin line:
proof-of-stake blocks, a leveldb block and transaction index, a wallet, and the
Dash-style services: alphanodes (masternodes), their payments, darksend mixing and
InstantX transaction locks.

## 1. Inventory

| Component | State it keeps | Operations | Hard behaviour | Correct when | Status |
|---|---|---|---|---|---|
| Block chain and its database (`main.cpp` 1423-3035, `txdb-leveldb.cpp`, `checkpoints.cpp`) | `mapBlockIndex`, `pnext`, `pindexBest`, `mapOrphanBlocks`, `setStakeSeen*`; on disk the block index, `hashBestChain` and the transaction index | `ProcessBlock`, `AcceptBlock`, `AddToBlockIndex`, `SetBestChain`, `Reorganize`, `ConnectBlock`, `DisconnectBlock`, `LoadBlockIndex` | one reorganisation is several database transactions; a crash or a failed connect between any two; orphans; ties of trust | the index on disk is that of the committed chain, the heaviest block is best, memory and disk agree | `Ledger`, `ChainState` |
| Memory pool (`txmempool.cpp`, `AcceptToMemoryPool`) | `mapTx`, `mapNextTx` | `addUnchecked`, `remove`, `removeConflicts` | two maps with pointers from one into the other; reorganisations put transactions back | no two conflicting transactions, nothing confirmed, the index exact | `TxPool`, `TxRelay` |
| Block download (`main.cpp` 100-302, 4555-4671) | `CNodeState` of every peer, `mapBlocksToDownload`, `mapBlocksInFlight`, the blocks in `mapAskFor` | `AddBlockToQueue`, `MarkBlockAsInFlight`, `MarkBlockAsReceived`, `FinalizeNode`, the stall test | list iterators stored in global maps, peers that vanish or stall | no dangling entry, the queue asks one peer for a block, everything queued is served | `BlockDownload` |
| InstantX (`instantx.cpp`) | `mapTxLockReq`, `mapTxLockReqRejected`, `mapTxLockVote`, `mapTxLocks`, `mapLockedInputs` | messages `txlreq` and `txlvote`, `DoConsensusVote`, `ProcessConsensusVote`, `CleanTransactionLocksList` | two locks and four threads; votes before requests; conflicts; expiry | votes count once, locks need a quorum, no input changes hands | `InstantX`, `LockTable` |
| Transaction relay (`main.cpp` 343-411, 3972-4098, `net.h` 440-476) | orphan transactions, `mapAlreadyAskedFor`, inventory sets of every peer | messages `inv`, `tx`, `SendMessages`, `AskFor`, `RelayTransaction` | retries across peers, random eviction, orphans whose parent arrives later | indexes exact and bounded, what was announced is asked for | `TxRelay` |
| Wallet (`wallet.cpp`, `walletdb.cpp`, `init.cpp` 895-925) | `mapWallet`, `hashBlock` and `vfSpent` of its transactions, the locator in its file | `SyncTransaction`, `CommitTransaction`, `AvailableCoins`, `FixSpentCoins`, rescan, `ReacceptWalletTransactions` | told of transactions before the database commits, and never of an abort; its file is written at once, its locator now and then | records and confirmations follow the chain, a spent coin is not offered | `Wallet`, `CommittedChain` |
| Alphanodes (`alphanode.cpp`, `alphanodeman.cpp`, `activealphanode.cpp`) | the list of every node; the state of an own alphanode | `dsee`, `dseep`, `dseg`, `Check`, `CheckAndRemove`, `ManageStatus`, `Register`, stop | relay throttles that add up along a path, dropped messages, entries asked for again | who pings stays or comes back, who is silent leaves | `Alphanodes` |
| Alphanode payments (`alphanode-payments.cpp`) | `vWinning`, `mapSeenAlphanodeVotes`, `nLastBlockHeight` | `ProcessBlock`, `mnw`, `AddWinningAlphanode`, `GetBlockPayee` | votes in any order or lost, best blocks that go back, a changing list | nodes that know a payee of a height know the same one, everybody is elected in turn | `Payments` |
| Darksend mixing (`darksend.cpp`, `wallet.cpp` 3745-3867) | the pool's session; the session, entry and locked coins of each client | `dsa`, `dsq`, `dsi`, `dsf`, `dss`, `dsc`, `dssu`, `CheckTimeout`, `ChargeFees` | timeouts on both sides, silent ends, two threads of a client without a common lock | sessions end, coins come back, only who failed is charged | `Darksend` |
| Peer-to-peer network (`net.cpp`, `addrman.cpp`) | `vNodes`, reference counts, bans, addresses | socket, message and open-connection threads | counting and deletion by different threads | no use after deletion | not modelled: sockets and randomised tables; what other components see of it is in theirs |
| Sporks, alerts (`spork.cpp`, `alert.cpp`) | signed values | `ProcessSpork`, `ProcessAlert` | order of arrival | newest wins | not modelled: nothing outside `spork.cpp` asks for a spork |
| Network time (`timedata.cpp`) | offsets | `AddTimeData` | - | median | not modelled: one function |
| Stake kernel, mining (`kernel.cpp`, `miner.cpp`) | stake modifiers | `ComputeNextStakeModifier`, `CreateNewBlock` | arithmetic | deterministic | not modelled: hash arithmetic; its verdict is a constant of `ChainState` |
| Secure messaging (`smessage.cpp`) | buckets on disk | bucket exchange, scan | expiry, locks of peers | no message lost before its time | not modelled: nothing else reads it |
| Script, keys, encoding, RPC, GUI, start-up, vendored libraries | - | - | pure functions, I/O, third-party code | - | not modelled |

How they interact. `ThreadMessageHandler` takes the peers one after the other and
calls `ProcessMessages` and `SendMessages` (`net.cpp` 1415-1490). Almost every
handler holds `cs_main` throughout, and that lock is what makes it one action.
`ThreadSocketHandler` disconnects peers and deletes them without it. `ThreadCheckDarkSendPool`
cleans the InstantX tables. InstantX runs mostly outside `cs_main`: the block
checks and the pool read `mapLockedInputs` while InstantX changes it. The wallet
enters transactions through the pool and InstantX requests through `mapTxLockReq`;
`SetBestChain` calls it for every transaction it connects or disconnects.
`ProcessBlock` runs the election of the payments, which reads the alphanode list
of `ThreadCheckDarkSendPool`, and `CheckBlock` asks the payments for the payee. Darksend
uses the list to find an alphanode and the wallet's `LockCoin` for its coins.

## 2. Plan

1. `ChainState` over `Ledger` and `TxPool`, and the abstract `CommittedChain` its database
   implements; proofs. Done.
2. `BlockDownload`, proofs. Done.
3. `InstantX` and the abstract `LockTable` it implements, proofs. Done.
4. `TxRelay`, proofs. Done.
5. `Wallet` on a reorganising chain, proofs. Done.
6. `Alphanodes` and `Payments`, proofs. Done.
7. `Darksend`, proofs. Done.
8. Every safety property of the passing runs as a theorem. Done.
9. Not begun: `Payments` over the lists of `Alphanodes` instead of a list that
   changes at will; reference counts of peers; secure messaging.

Abstract specifications: `LockTable`, what a reader of `mapLockedInputs` relies on, and
`CommittedChain`, what a reader of the database relies on.

## 3. Modules

**`Ledger`** - blocks, transactions and the transaction index, `CTxIndex`:
`at[t]` is the block of `t`, `spent[o]` the spender of `o`. A transaction has one
output, so an outpoint is the transaction it is of. `Connect` and `Disconnect`
are `ConnectBlock` and `DisconnectBlock` on such a view; `Replays(view, b)` says
that a view is what connecting the chain of `b` from the genesis block leaves. `Relinked` is
what the commit of `Reorganize` does to `pnext`, and `Follows(next, b)` says that such links lead
from the genesis block up the chain of `b`.

**`TxPool`** - what `AcceptToMemoryPool`, `remove` and `removeConflicts` decide,
as operators on a set of transactions. It derives `mapNextTx` from `mapTx`;
`PoolIndexExact` of `TxRelay` is the reason this may be done. `AcceptedEach` is the loop that
offers transactions to the pool one by one, as a reorganisation and a restarted wallet
do: the set of the pools it can leave. A removal takes the descendants along; they are the
least set that holds the transaction and is closed under spending.

**`ChainState`** - the whole of a `ProcessBlock` call, a step for every database
transaction and, inside the transaction of `Reorganize`, for every block:

| Action | Code |
|---|---|
| `ProcessBlock`, `HoldOrphan` | the checks of `ProcessBlock`, orphan storage with `PruneOrphanBlocks` |
| `RejectBlock`, `AddToBlockIndex` | `AcceptBlock`, which refuses or writes the index record |
| `ExtendBestChain` | `SetBestChain` with `hashPrevBlock == hashBestChain` |
| `BeginReorganize`, `DisconnectTip`, `ConnectNext`, `CommitReorganize` | the choice of `pindexIntermediate`, then `Reorganize` |
| `ConnectPostponed`, `AllConnected` | the postponed blocks, then the new `pindexBest` |
| `NextInQueue`, `AcceptOrphan` | the work queue of orphans |
| `CrashAndRestart` | the process ends; `LoadBlockIndex` reads what was committed |
| `AcceptToMemoryPool` | a loose transaction, between two calls |
| `LockInput`, `UnlockInput` | InstantX, at any time: steps of `LockTable` |

`refused` and `halfAdopted` are history: the blocks whose adoption failed or was
cut off, and that `pindexBest` was moved past a failed reconnect.

**`BlockDownload`** - the anonymous namespace of `main.cpp`. A stored list
iterator is the position of the hash in the list; an entry that outlives its list
element would be a dangling iterator, an entry that outlives its peer a NULL
`State()`. `SendMessages`, `RequestBlock` and `SendMessagesDone` split the getdata
loop, because the socket thread can set `fDisconnect` between two iterations
(`csMain` says who is in the loop). The stall test compares differences of clock
readings; a reading is kept as an age and as its distance from
`nLastBlockProcess`, saturated at `MaxAge` = 3, which is above every threshold.
A block can be asked for in a second way: when a block becomes an orphan, `ProcessBlock` puts
what it wants into `mapAskFor` of the peer that sent it (`wantedByOrphan`), and the second getdata
loop of `SendMessages` (`RequestWanted`) looks neither at the queue nor at what is in flight.
Two entries of one block count as one, and which are due is open: their times are those
of `TxRelay`. `askedFromQueue` and `askedForOrphan` are history: who was sent a getdata by which loop
since the block last came.

**`LockTable`** - what a reader of `mapLockedInputs` relies on: an input is taken
when free, may be released, and never passes from one transaction to another.

**`InstantX`** - requests, votes and locks. The handling of `txlreq` is two
actions, because it votes first and then waits for `cs_main`
(`TxLockRequest`, then `TxLockAccepted` or `TxLockRejected`); votes, the wallet and
the clean-up may come between. `Vote` is a `txlvote` with everything it causes:
counting, completion, locking, cancelling a conflict. A `txlvote` that meets
the branch with an unset block index (`instantx.cpp` 386-392) ends the process.
`AlphanodeList`, `Bury`, `ConnectBlock` and `Reorganize` are the environment. Heights of votes and of
locks are compared, as the code does; the ranking is a constant.

**`TxRelay`** - `Inv`, `SendInventory` (the `inv` and `getdata` parts of `SendMessages`) and `Tx` are the three handlers;
`SendRawTransaction` is the RPC and the wallet; `ConnectBlock`, `Reorganize` change
pool and disk as `SetBestChainInner` and `Reorganize` do. The handler of `tx`
declares `inv` twice: what it looks up and announces is an empty hash
(`NullHash`), and that is what the model does.

**`CommittedChain`** - what a reader of the database relies on: it holds one complete
chain and its transaction index, and every change adopts a whole chain of more
trust. `ChainState` implements it (`CommitsOneChain`), up to the first postponed reconnect
that fails: the finding `chain_adopted` is that this does happen.

**`Wallet`** - the wallet on such a chain. A block is a call of `SetBestChain` in steps,
because `SyncWithWallets` runs inside `ConnectBlock` and `DisconnectBlock`:

| Action | Code |
|---|---|
| `AddToBlockIndex` | the index record; `SetBestChain` starts if the block has the most trust |
| `DisconnectBlock`, `ConnectBlock` | a block of `Reorganize`, and the wallet told of it; a disconnected coinstake takes its marks back |
| `AbortReorganize` | `ConnectBlock` fails, `TxnAbort`; nobody tells the wallet |
| `CommitBest` | `TxnCommit`, the pool, the locator at every `Period`-th block |
| `CommitTransaction` | an own payment: recorded, its coins marked, offered to the pool, which may refuse it |
| `AcceptToMemoryPool` | a transaction of others |
| `FixSpentCoins` | `repairwallet` and the staking thread |
| `Restart` | the scan from the locator, then `ReacceptWalletTransactions` |

What the wallet takes for the main chain is `InMainChain`, a block with a `pnext` or the best one,
as in `main.h` 1144-1147, and not the best chain: `pnext` turns to every block that enters the index, and
`hashNext` on disk (`dbNext`, `workingNext` in an open transaction) is what `ConnectBlock` and `DisconnectBlock`
write. A restart reads `pnext` from there, looks for the locator with it (`LocatedFrom`), scans
the blocks it leads to (`Followed`), and scans again from the genesis block if a coin turns out to be spent
(`Rescanned`).

`adopted`, `astray`, `sent`, `released` and `exposed` are history: the blocks that were once on
the best chain, the transactions whose last news was of a block off it (an aborted reorganisation, or a scan that
followed `pnext` off the chain), which payments left the wallet, which marks were taken back,
and which coins others spent.

**`Alphanodes`** - one alphanode in the list of every node. `UpdateEntry`, `AcceptEntry`, `DropEntry`
are a `dsee` for a known entry, a new one, and one that is refused or meets a busy `cs_main`;
`TakePing`, `AskForEntry` a `dseep` with and without the entry; `AnswerDseg` the question for it.
`CheckAndRemove`, `ManageStatus` and `NotReady` are `ThreadCheckDarkSendPool`; `Start`, `StopAlphaNode`,
`Shutdown`, `Restart`, `SpendCollateral` what happens to the owner. `RemoveOwn` may hang: `Remove`
(`alphanodeman.cpp` 955-967) does not advance its iterator past the entry of another. A tick is
the time between two pings; all messages arrive in the tick they are sent in, in any
order across connections. `quiet` and `steady` are history: the ticks since the owner
signed something, and the ticks in a row in which it pinged and every node had it enabled;
a stop, a shutdown or a minute that `NotReady` spends without a ping ends the row.

**`Payments`** - `NewBlock` is `ProcessBlock` with the election at the node with the key, `Mnw` a
vote, `Lose` and `Restart` the faults, `AlphanodeList` the list changing at will (it is
`Alphanodes` that says how). Who was paid longest ago is a choice: `nLastPaid` is
reset whenever an entry of the list is copied.

**`Darksend`** - the alphanode (`Dsa`, `CheckForCompleteQueue`, `Dsi`, `DsiRefused`, `Dss`, `PoolTimeout` with
`ChargeFees`) and its clients (`Start`, `StatusUpdate`, `Prepare`, `DropReady`, `ListCoins`,
`SendDarksendDenominate`, `SignFinalTransaction`, `CompletedTransaction`, `TimeoutUnlock`, `TimeoutNull`,
`Restart`). A client has two threads: the message thread is in `PrepareDarksendDenominate`
and `SendDarksendDenominate` (`submit` says where) while `CheckTimeout` of the other is between
`UnlockCoins` and `SetNull` (`reset`); they have no common lock. With `Preemption` they
interrupt each other; without it a routine of one ends before the other starts,
which is how they behave but for that race. `asked`: the other thread asks for a session at
most once in a tick (every 15 seconds, `darksend.cpp` 2300). `failed` and `overtaken` are history:
clients that refused to sign, lost a coin or were restarted; and clients that had not yet answered a ready
`dsq`, or whose answer was still on its way, when the alphanode began another session. Neither
the `dsq` nor the `dsi` names its session, so the alphanode takes such an entry into the new one,
the client is never asked to sign what it knows of, and in the end it is charged.

**`MC...`** give `Chain`, `Inputs`, votes, trees and networks for TLC. `..._proofs` hold the theorems.
Definitions commented `mutant` are plausible slips of the code, written
beside the operator they would replace; nothing uses them in a run.

## 4. What the runs check

Passing runs (states are distinct states):

| Run | Instance | Checked |
|---|---|---|
| `download` (644,000) | 2 peers, one local and so never banned; 2 blocks, one below the other, 1 in transit, queue limit 1, ban at 2 penalties | `Bookkeeping`, `NoDoubleRequest`, `WantedUntilReceived` |
| `download_live` (34,600) | 1 peer, 3 blocks, 2 in transit | `QueuedIsServed`, `StallerIsDropped` |
| `chain` (231,000) | 9 blocks in 3 branches, 5 transactions | `LedgerReplaysBestChain`, `EveryTxOnce`, `MemoryMatchesDatabase`, `HeaviestIsBest`, `NoStuckOrphan`, `OrphanStakesLive`, `PoolConsistent`, `Resurrection`, `LinksFollowChain`, `CommitsOneChain` |
| `instantx` (522,000) | 2 conflicting requests, 2 inputs, 2 alphanodes, one is this node, one not among the top; quorum 1; a vote for another height | `VotesCountedOnce`, `DecidedOnce`, `AcceptedLockHasQuorum`, `CompletedLocksAll`, `LocksAreATable`, `AcceptedLocksEnd` |
| `relay` (385) | no peers, 7 transactions, 2 orphans at most | `PoolIndexExact`, `OrphanIndexExact` |
| `relay_live` (62,700) | 2 peers, 1 loose transaction and the empty hash, time | `AnnouncedIsAsked` |
| `wallet` (49,100) | 10 blocks in 2 branches, 2 own payments for one coin, a coinstake and a theft of the other, a payment of what it gave | `RecordsFollowChain`, `ConfirmedIsOnChain`, `OfferedOnce`, `OfferedIsUnspent` |
| `alphanodes` (123,000) | the owner, a peer of it, a peer of that one; 2 faults | `NeverFresherThanSigned`, `LiveNeverExpires`, `SilentLeaves`, `LiveIsKnown` |
| `darksend` (753,000) | 3 clients, sessions of 2, 3 starts, 1 fault | `TypeOK`, `SignedMeansLocked`, `HonestNotCharged`, `SessionsEnd`, `CoinsComeBack` |
| `payments` (2,829,000) | 2 nodes, 2 alphanodes, one with donations, 4 heights, 2 faults | `WinnerIsFurthest`, `PayeesAgree`, `NobodyForgotten` |

Why the bounds are enough. *download*: every list can be empty, full and above its
limit; a block can be wanted from either peer, by the queue and by an orphan at once; two blocks make position and
counter differ. *chain*: branches tie and overtake each other at lengths two
and three, one fork is off a branch, the sync checkpoint (span 1) refuses old
forks, one orphan more than the limit arrives, a reconnect can be postponed and
fail (an InstantX lock or the payee check turns the block invalid after it was
indexed), transactions conflict inside and across branches and one is
repeated on its own chain. *instantx*: the two requests share one of two inputs,
so half a lock is possible; votes arrive before, during and after. With quorum 1 a single
vote completes a lock, and the proofs cover every quorum. *relay*: a
chain of three loose transactions, a double spend with a descendant of its own,
and more orphans than fit. *relay_live* puts off a request by at most `MaxDue`.
Other named bounds: `MaxInTransit`, `MaxQueue`, `BanScore` stand for 128, 5000 and 100;
`Maturity` and `Span` for confirmations and checkpoint depth; `Required` and `Total` for the
10 votes of the top 15; `Retry` for the 2 minutes of `AskFor`.

*wallet*: two branches, of length four and three, that overtake each other; both confirm the same
payment, each spends the other coin in its own way, and the longer one ends in a block that does not connect, so
that a reorganisation is aborted after the wallet was told, by when its blocks have children that were and
children that were not connected; `Period` 2 (144 in the code)
leaves the locator behind; `Maturity` 1 lets the wallet offer a coin one block before the pool would take its spending.
*alphanodes*: the line of three is the shortest path on which throttles add up, and
the far node depends on the middle one's answers. `MinDsee` 1, `MinDseep` 2, `Expiration` 7 and `Removal` 8 keep the order of the
real 5, 30, 65 and 70 minutes, and their ratios where it matters: two throttles in a row
stay below the expiration. `LiveNeverExpires` depends on that line being short: every hop holds
back a ping for up to `MinDseep`, so that on a line of four TLC finds a node that lets the
alphanode expire although it pinged every minute (three times 30 minutes are more than 65).
`MaxFaults` bounds stops, starts, restarts and
spends together; every pair of them occurs. *darksend*: `PoolMax` is 2 instead of 3, so that a third client
can come between the two of a session, be refused, or be in the next one; the timeouts
keep their order (30 and 15 seconds, 10 more for a client) in ticks of 10 to 15 seconds;
`MaxStarts` 3 is a session and a half, enough for a client to be overtaken. The run has two
constraints. `InOrder` says in which order the
clients ask for the first time: they are alike, so this leaves out only renamings.
`FailsInCompany` is a bound: the one fault comes after a second client has asked; what it leaves out
is a client that fails while no other has turned to the alphanode yet, with at most two starts to come.
The three invariants need neither constraint, since they are proved (section 5). *payments*: heights up to `MaxHeight` 4 and one
`Ahead` (10 in the code) give five elections, ties and reversals of score; `Behind` and `Further` let a node
be too far behind for a vote. `MaxArriving` 0: the master elects again when the votes of the last
election have arrived or are lost - votes travel in seconds, blocks take minutes -
while nodes may still hear of them in any order. `NobodyForgotten` is said of a master that
keeps its memory: one that was restarted learns of winners from votes of others for heights
it did not elect at, and its window of recent winners then moves on without an election.

Fairness. Safety needs none. The liveness properties assume what the threads do:
the message thread comes round to every connected peer again and again
(`net.cpp` 1415-1490; `SF` in `BlockDownload`, because another peer's getdata loop
may hold `cs_main` whenever this one would be served, and the loop is one call that ends),
disconnected peers are deleted by the socket thread, time passes, the clean-up thread visits every
lock each minute (`darksend.cpp` 2287-2293), and the node is started again when it is down.
`BlockDownload` also assumes that a peer which stays connected answers the pings
of `SendMessages`: its readings are only compared with `nLastBlockProcess`, so a
peer that is silent altogether is left to the inactivity timeout of the socket
thread; it does not need what an orphan wants to be asked for. `Alphanodes` assumes that minutes pass, that messages arrive and threads come by (`WF`), and that
`TRY_LOCK(cs_main)` does not fail at every single new entry (`SF` on `AcceptEntry`: each
try is another message, and the lock is free most of the time). `Darksend` only assumes that some
thread goes on (`WF_vars(Progress)`): a tick waits until every message of it is handled, and the
number of messages within a tick is finite. `Wallet` and `Payments` state no liveness. `BlockDownload` and `TxRelay` never assume that a peer delivers, and
`InstantX` never assumes that a vote arrives.

Runs that find a disagreement between code and comment, each a finding:

| Run | Says | Does |
|---|---|---|
| `chain_adopted` | `main.cpp` 2382 "errors now are not fatal, we still did a reorganisation to a new chain in a valid way" | `pindexBest` becomes the block that failed to connect |
| `darksend_race` | `darksend.h` 446 "Charge fees to bad actors" | with the threads of a client interrupting each other, one that refused nothing is charged |

Other places where comment and code part, met while modelling and part of the
models' behaviour, but without a run of their own: `pnext` turns to every newly accepted
block, also on a side branch (`main.h` 1008, `main.cpp` 2513), so that `IsInMainChain` (`main.h` 1144) holds of any block with
such a child: after an aborted reorganisation its transactions count as confirmed and their coins are offered,
and a rescan after a restart may follow it off the best chain and place transactions there
(`ConfirmedIsOnChain` and `RecordsFollowChain` state what is left); the wallet offers a generated coin one block before
the pool accepts its spending (`main.cpp` 1210, 1621); what an orphan wants is asked of its sender
although the block is queued or in flight from another peer (`main.cpp` 2958-2959, 4651; `NoDoubleRequest` states
what is left); one orphan block
above `-maxorphanblocks` is held (`main.h` 57, `main.cpp` 1426; `OrphansBounded` states the
real limit); a resurrected transaction's descendants are not resurrected
(`main.cpp` 2282), nor is one that conflicts with a pool transaction which the new branch
itself removes right after (2286); inputs of a refused request may have no lock record that
expires (`instantx.cpp` 242) and cancel an approved lock (404); the shadowed
`inv` also defeats the existence check and the relay of `tx` (`main.cpp` 3988, 4046); two
requests can follow at less than 2 minutes (`net.h` 472); a block that extends the chain leaves
conflicting transactions in the pool, which "stores valid-according-to-the-current-best-chain
transactions" (`txmempool.h` 11, `main.cpp` 2317); a refused request locks its inputs without any
vote, while "only reject blocks when it's based on complete consensus" (`main.cpp` 2614,
`instantx.cpp` 102); votes that come before their transaction complete its lock but lock no
input (`instantx.cpp` 143, 77, 362); orphans are not processed "recursively" because the
work queue starts with an empty hash (`main.cpp` 4050, 3983, 4048); the pool may refuse what
`CommitTransaction` recorded, under the comment "This must not fail" (`wallet.cpp` 3648); `alphanode
stop` reports success (`rpcdarksend.cpp` 194) only when `Remove` returns at all; `vecLastPayments` holds
one winner more than there are alphanodes (`alphanode-payments.cpp` 245); `mnget` is answered
and never sent, so a restarted node does not learn of winners again; a node that lost a vote picks a payee of its own
when it stakes (`wallet.cpp` 3531), and those who know the winner refuse its block and penalise who sent it
(`main.cpp` 2674); a darksend client whose entry is taken into a later session is charged like one that refused
(`darksend.cpp` 125, 158: neither message names its session); a node three or more hops
away from an alphanode may expire it although it pings (`alphanode.cpp` 187, `alphanodeman.cpp` 825), because each hop
relays only the pings that find its entry older than `ALPHANODE_MIN_DSEEP_SECONDS`.

## 5. What is proved

TLAPS proves for every value of the constants, under the assumptions the modules
name: `TreeAssumption` (parents, chains, heights and trust form a tree), `AncestorsAssumption`,
`TxAssumption`, `CoinbaseAssumption`, `ChainAssumption`, `NodesAssumption`, `LimitsAssumption`,
`InstantXAssumption`, `TxRelayAssumption`, `WalletAssumption`, `AlphanodeAssumption`, `PaymentsAssumption`,
`DarksendAssumption`. TLC evaluates each on the instances.
Where a type invariant or a bound (`InFlightLimit`, `OrphansBounded`, `DatabaseTrustGrows`, `NothingInvented`,
`OrphanTransactionsBounded`) is proved, no run repeats it.

- **`Peers_proofs`**, of `BlockDownload`: type correctness, `Bookkeeping`, `InFlightLimit`,
  `NoDoubleRequest`, `WantedUntilReceived`. The invariant is the types, that
  list, counter and map of the queue are `Consistent`, the same of the lists in flight,
  that owners are connected, that no block is both queued and in flight, and that what the first
  loop has asked for is exactly what is in flight. `NoDoubleRequest` follows from the last; it needs
  the one before, without which `MarkBlockAsInFlight` could move a request. Lemmas on removing from and appending to a duplicate-free list carry
  it; `FinalizeNode` needs that a list names only entries that are its own.
- **`Ledger_proofs`** (lemmas): `TreeInduction`, from the block of least height outside
  a set; a connectable block on a sound chain gives a sound chain
  (`ConnectSound`), and `Connect`, `Disconnect` take a replay of one chain to that of the next;
  what `AcceptedEach` and a removal leave of a pool (`AcceptedFew`, `RemovedFew`); what `Relinked` and the
  links of one more or one less block do to `Follows`.
- **`ChainState_proofs`**: type correctness; `MemoryMatchesDatabase` from `CallInv`
  (types, the index closed under parents, and for every stage of a call what its
  variables must be); `LedgerReplaysBestChain` and `EveryTxOnce` from `LedgerInv`, which adds
  that the committed chain and the one of the open transaction are sound: without soundness a
  disconnect could clear a `spent` mark that belongs to another block; `DatabaseTrustGrows` from
  both, and from it that the database implements `CommittedChain`, the refinement mapping being
  the committed index and the committed best block; `LinksFollowChain` from the same for the open transaction,
  along the blocks that are disconnected and connected; `OrphansBounded` and `OrphanStakesLive` from `OrphanInv`.
  `NoStuckOrphan` is only true between calls; `WaitingInv` says where a parent may be that an
  orphan waits for while the work queue is served: in the queue, or the block in hand.
  `HeaviestIsBest` from `HeaviestInv`: only the block being connected may outweigh the
  best one, and it is given up or becomes it. `PoolConsistent` is inductive once the chain is
  known to be sound: what a new branch confirms leaves the pool with all that conflicts with it,
  and what was taken off conflicts with nothing the old chain held (`ChainHasNoConflict`).
  `Resurrection` follows a transaction of the old chain through the loop that offers them
  (`StaysResurrected`): once it is in, out for a reason, or confirmed, it stays so.
- **`InstantX_proofs`**: type correctness, `VotesCountedOnce`, `NothingInvented`,
  `DecidedOnce`, `AcceptedLockHasQuorum`, `CompletedLocksAll`, and that `InstantX` implements
  `LockTable`. `CountIsVoters` turns the number of counted votes into a number of
  different voters, by a bijection from positions to voters that rests on `VotesCountedOnce`;
  `VoteEffect` says once what a vote can change. `Decisions` and `Holders` say what is known of a
  transaction with a height, and of one that holds an input.
- **`Peers_proofs`**, of `TxRelay` (whose names begin with `Relay` where `BlockDownload` has the same one):
  type correctness, `PoolIndexExact`, `OrphanIndexExact`, `OrphanTransactionsBounded`. `Candidate` is needed for the exactness of the index: only a
  transaction whose outputs are free in it is entered. Removal keeps exactness for any
  set of transactions, so the recursion of `remove` need not be followed.
- **`Wallet_proofs`**: type correctness and `ConfirmedIsOnChain`. `CallInv` says where a call of `SetBestChain`
  can be, `LedgerInv` that both the committed and the open index replay a
  chain, and `RecordInv` that a `hashBlock` only ever names a block the transaction is in.
  A transaction is in one block of a chain at most (`OneBlock`), so a recorded block on the
  best chain is the one the index names, whatever was aborted in between. `LinkInv` is about what is not
  on it: a `pnext` or `hashNext` leads to an indexed child (`Proper`), and to one that was ever adopted only
  between two blocks of the chain (`Apart`), since a commit clears the links along the branch that was left
  and an open transaction does the same on disk; so a block beside the chain is confirmed
  only by a child that was never connected. The same three say that what a restart scans is indexed, and
  that it places what it finds in a block that holds it (`FollowedIndexed`, `ScannedIndexed`, `RestartFinds`).
  `RecordsFollowChain` is the converse and needs all of a call: `PathInv`, that `SetBestChain` never
  leaves what the old and the new chain share; `KnownInv`, that the wallet has whatever concerns it
  and is indexed; `FollowInv`, that what is connected so far is recorded as it will be on disk and
  that what differs from the disk is what the wallet was told of (`Unsettled`). `OfferedOnce` and
  `OfferedIsUnspent` come from what is known of the marks: a payment leaves the wallet only
  after its coins were marked (`OwnInv`), and a coin the disk has as spent is marked unless others
  spent it or the mark was taken back (`SpentInv`).
- **`Alphanodes_proofs`**: type correctness and `NeverFresherThanSigned`. The entries are fresh only if the
  messages are: `Allowed` says which times a message in flight may carry, given when the owner
  last signed, and is kept because a tick waits for all messages; both are one inductive invariant.
  `LiveNeverExpires` is proved for networks in which every node is a peer of the owner or of one
  of its peers and two throttles in a row are less than the expiration (`Near`, the
  hypothesis of that theorem; the constants of the code satisfy its second part, and further away
  the property is false, see section 4). `LiveInv` follows a row of steady ticks: while the owner
  pings in each, whoever passes on a ping or answers a question has just been told (`Steady`), a
  peer of the owner ends every tick with an entry no older than one throttle (`PeersSteady`), and a
  peer of it is never more than another throttle behind, from the tick on in which the first peer
  has taken a ping within the row, which is at most `MinDseep` + 2 ticks after its
  start (`OthersSteady`). `Passing` is what every step between two ticks does to the entries and
  links, so that each action is looked at once and the invariant once.
- **`Payments_proofs`**: type correctness; `WinnerIsFurthest` from `Known`, that each vote seen is at most as far as
  the winner kept for its height; `PayeesAgree` from `Ours`, that every vote on its way or held anywhere
  is the one the master holds for the height, as long as the master keeps its memory, with
  `nLastBlockHeight` above all of them. `NobodyForgotten` from `Turns`: the last winners of the master's
  list, as many as an alphanode has waited for, were each elected from the present list and are
  somebody else. There cannot be more of them than alphanodes (`NoLongWait`): of one more, two have
  the same winner, the later one was elected because everybody was in its window, and that
  window would have to hold all others and the one left out in one place too few.

- **`Darksend_proofs`**: type correctness, and `SignedMeansLocked` and `HonestNotCharged` under the
  hypothesis `~Preemption`, without which the second one is false (`darksend_race`). What keeps them
  true is that each side counts its own time and both count the same: `IndInv` says so for one client
  (`ClientInv`) and the pool (`PoolInv`), with everything on its connection. Three
  phases are told apart. Clients answer a ready `dsq` in the tick in which the pool begins to take
  entries, and nothing that follows it on the connection makes them give up before
  (`AnsweringInv`, `SuffixInv`, `UncommittedInv`). Once the entry is in the pool and not expired (`Committed`),
  the client's own is as old, its clock no older, its coins are locked, and only what belongs
  to the session is on its way (`CommittedInv`); so its timeout, ten seconds longer, is never
  the first. While the alphanode takes signatures, a client that has not signed is still to be asked or
  has its signature on its way, in the tick in which that began; after that tick all `Good` ones have signed
  (`SigningInv`). `Good(c)`, neither failed nor overtaken, is what makes them inductive. `OfTail`, `OfConcat`
  and `OfAppend` say what happens to the elements, their order and the last one of a connection; each action is
  looked at for the client it is of (`Untouched` for the others), and `TickStep` for all. That nobody is
  charged unduly is then a property of the two steps that charge (`ChargedStep`).

Only model-checked: the liveness properties `QueuedIsServed`, `StallerIsDropped`,
`AcceptedLocksEnd`, `AnnouncedIsAsked`, `SilentLeaves`, `LiveIsKnown`, `SessionsEnd`,
`CoinsComeBack` (liveness and `ENABLED` are out of the prover's reach). Every
invariant and action property of the passing runs is a theorem; `LiveNeverExpires` for the networks
it is true of, `SignedMeansLocked` and `HonestNotCharged` for threads that do not interrupt each other.

## 6. What is left out

- *Chain*: failure of the disk itself (`TxnCommit`, file writes) and power failures that lose
  leveldb's last batches; header, kernel and script verification (the constants
  `Malformed` and `Unacceptable`); amounts; `-reindex` and import; the clause of
  `GetTotalBlocksEstimate` in the resurrection (the chain is past the last
  hard-coded checkpoint); orphans without a peer; what `ProcessBlock` passes to darksend
  and payments once it accepted a block (2993-3030); `bnBestInvalidTrust`.
- *InstantX*: `IsIXTXValid`, signatures, the throttle `mapUnknownVotes`, races on the map containers
  themselves (`mapTxLocks` is used by two threads without a common lock).
- *Relay*: `dstx`, fees, the rate limit and standardness (a refusal may always
  happen), `mapRelay` (`ProcessGetData` no longer reads it), transactions of several outputs, the forgetting
  of `setInventoryKnown` after its last 1000 entries.
- *Wallet*: amounts, coin selection, keys, accounts, encryption, `lockunspent`, the depth InstantX adds; postponed
  blocks that fail to connect (`ChainState` has them); the gaps of a locator, which names fewer blocks the
  further it goes back (`main.h` 1375-1390): here it names every one, so a scan may start
  later than in the code.
- *Alphanodes*: addresses, changed keys, collaterals that are too young, several alphanodes of
  one list (each entry is handled by itself, but for `Remove`), votes, ranks, the whole-list `dseg`.
- *Payments*: signatures, `CleanPaymentList`, the input age, the cache of block hashes.
- *Darksend*: amounts and denominations, queues that are not ready, what limits how often an
  alphanode may queue, random fees after a success, a final transaction that is not the one
  entered (`SignFinalTransaction` refuses it), a second alphanode that answers.
- The components marked *not modelled* above, with reasons in
  `PROJECT.json`.
