------------------------------- MODULE Ledger -------------------------------
(***************************************************************************)
(* Blocks, transactions and the transaction index (CTxIndex records of     *)
(* txleveldb): what connecting and disconnecting one block does to it.     *)
(*                                                                         *)
(* A view of the transaction index is a record                             *)
(*    [at    |-> the block holding each indexed transaction (CDiskTxPos),  *)
(*     spent |-> the transaction that spends it (CTxIndex::vSpent)]        *)
(* Every transaction has one output, so an outpoint is the transaction     *)
(* that creates it.  Amounts, fees, scripts and signatures are left out.   *)
(***************************************************************************)
EXTENDS Naturals, Sequences, SequencesExt

CONSTANTS
    Blocks, Genesis, NoBlock,
    Parent,     \* hashPrevBlock of every block but Genesis
    Chain,      \* a block and all its ancestors
    Height,     \* CBlockIndex::nHeight
    Trust,      \* CBlockIndex::nChainTrust
    Txs, NoTx,
    BlockTxs,   \* CBlock::vtx
    Inputs,     \* the outpoints a transaction spends
    Generated,  \* coinbase and coinstake transactions
    Maturity    \* Params().CoinbaseMaturity()

\* The block tree: hashPrevBlock makes every block a child of one block and
\* nChainTrust grows along every edge (GetBlockTrust is positive).
ASSUME TreeAssumption ==
    /\ Genesis \in Blocks /\ NoBlock \notin Blocks
    /\ Parent \in [Blocks \ {Genesis} -> Blocks]
    /\ Chain \in [Blocks -> SUBSET Blocks]
    /\ Height \in [Blocks -> Nat] /\ Trust \in [Blocks -> Nat]
    /\ Chain[Genesis] = {Genesis} /\ Height[Genesis] = 0
    /\ \A b \in Blocks \ {Genesis} :
          /\ b \notin Chain[Parent[b]]
          /\ Chain[b] = Chain[Parent[b]] \cup {b}
          /\ Height[b] = Height[Parent[b]] + 1
          /\ Trust[b] > Trust[Parent[b]]

ASSUME TxAssumption ==
    /\ NoTx \notin Txs /\ Generated \subseteq Txs /\ Maturity \in Nat
    /\ Inputs \in [Txs -> SUBSET Txs]
    /\ BlockTxs \in [Blocks -> Seq(Txs)]
    /\ BlockTxs[Genesis] = <<>>

Views == [at : [Txs -> Blocks \cup {NoBlock}], spent : [Txs -> Txs \cup {NoTx}]]
EmptyView == [at |-> [t \in Txs |-> NoBlock], spent |-> [t \in Txs |-> NoTx]]

TxSet(b) == ToSet(BlockTxs[b])
Before(b, i) == {BlockTxs[b][j] : j \in 1..(i - 1)}
SpendersIn(b, o) == {t \in TxSet(b) : o \in Inputs[t]}

\* IsConfirmedInNPrevBlocks: where is one of the Maturity last blocks of the
\* chain that ends in tip.
Immature(where, tip) ==
    where \in Chain[tip] /\ Height[tip] - Height[where] < Maturity

-----------------------------------------------------------------------------
(* CBlock::ConnectBlock *)

\* mutant: the vSpent test is missing
InputsConnectRespending(view, b, i) ==
    \A o \in Inputs[BlockTxs[b][i]] : o \in Before(b, i) \/ view.at[o] # NoBlock

\* FetchInputs and ConnectInputs for the i-th transaction of b: every input is
\* indexed (on disk, or earlier in the block: mapQueuedChanges), not spent on
\* disk or earlier in the block, and mature if it was generated.
InputsConnect(view, b, i) ==
    LET t == BlockTxs[b][i]
        spentBefore == UNION {Inputs[u] : u \in Before(b, i)}
    IN  \A o \in Inputs[t] :
          /\ o \notin spentBefore
          /\ o \in Before(b, i) \/ (view.at[o] # NoBlock /\ view.spent[o] = NoTx)
          /\ o \in Generated =>
               ~Immature(IF o \in Before(b, i) THEN b ELSE view.at[o], b)

CanConnect(view, b) == \A i \in 1..Len(BlockTxs[b]) : InputsConnect(view, b, i)

\* The queued CTxIndex records: the block's transactions are indexed with
\* their outputs unspent, then their inputs are marked.
Connect(view, b) ==
    [at |-> [t \in Txs |-> IF t \in TxSet(b) THEN b ELSE view.at[t]],
     spent |-> [o \in Txs |->
        IF SpendersIn(b, o) # {} THEN CHOOSE t \in SpendersIn(b, o) : TRUE
        ELSE IF o \in TxSet(b) THEN NoTx ELSE view.spent[o]]]

-----------------------------------------------------------------------------
(* CBlock::DisconnectBlock *)

\* DisconnectInputs reads the CTxIndex of every input.
CanDisconnect(view, b) ==
    \A t \in TxSet(b) : \A o \in Inputs[t] : view.at[o] # NoBlock

\* mutant: the inputs stay marked as spent
DisconnectKeepingSpent(view, b) ==
    [at |-> [t \in Txs |-> IF t \in TxSet(b) THEN NoBlock ELSE view.at[t]],
     spent |-> [o \in Txs |-> IF o \in TxSet(b) THEN NoTx ELSE view.spent[o]]]

\* The inputs are relinquished and the transactions erased, in reverse order.
Disconnect(view, b) ==
    [at |-> [t \in Txs |-> IF t \in TxSet(b) THEN NoBlock ELSE view.at[t]],
     spent |-> [o \in Txs |->
        IF SpendersIn(b, o) # {} \/ o \in TxSet(b) THEN NoTx ELSE view.spent[o]]]

-----------------------------------------------------------------------------
(* CBlockIndex::pnext *)

\* mutant: the links of the branch that is left stay
RelinkedForward(next, old, new) ==
    [b \in Blocks |->
        IF \E c \in Chain[new] \ Chain[old] : Parent[c] = b
        THEN CHOOSE c \in Chain[new] \ Chain[old] : Parent[c] = b
        ELSE next[b]]

\* pnext after the best chain moved from old to new: cleared along the branch
\* that was left, set along the one that was taken.
Relinked(next, old, new) ==
    [b \in Blocks |->
        IF \E c \in Chain[new] \ Chain[old] : Parent[c] = b
        THEN CHOOSE c \in Chain[new] \ Chain[old] : Parent[c] = b
        ELSE IF \E d \in Chain[old] \ Chain[new] : Parent[d] = b THEN NoBlock
        ELSE next[b]]

-----------------------------------------------------------------------------
(* What the index should hold *)

\* The transactions a chain confirms and what each of them is spent by.
Confirmed(tip) == UNION {TxSet(b) : b \in Chain[tip]}
SpendersOn(tip, o) == {t \in Confirmed(tip) : o \in Inputs[t]}

\* AcceptBlock: the coinbase script starts with the height, so two blocks of a
\* chain do not have the same coinbase.  All else that creates money has inputs.
ASSUME CoinbaseAssumption ==
    \A b \in Blocks \ {Genesis} : \A t \in TxSet(b) :
        Inputs[t] = {} => t \notin Confirmed(Parent[b])

\* Every transaction of the chain spends outputs the chain has created by then,
\* and no transaction is in it twice.
SoundChain(tip) ==
    \A b \in Chain[tip] :
      /\ \A t \in TxSet(b) : Inputs[t] \subseteq Confirmed(b)
      /\ b # Genesis => TxSet(b) \cap Confirmed(Parent[b]) = {}

\* The view is the one obtained by connecting the chain that ends in tip to
\* the empty index: no output spent twice, nothing missing, nothing left over.
Replays(view, tip) ==
    \A t \in Txs :
      /\ view.at[t] # NoBlock <=> t \in Confirmed(tip)
      /\ view.at[t] # NoBlock => view.at[t] \in Chain[tip] /\ t \in TxSet(view.at[t])
      /\ SpendersOn(tip, t) = IF view.spent[t] = NoTx THEN {} ELSE {view.spent[t]}

\* The hashNext records lead from the genesis block to tip along its chain.
Follows(next, tip) == \A b \in Chain[tip] \ {Genesis} : next[Parent[b]] = b

=============================================================================
