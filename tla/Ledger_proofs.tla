---------------------------- MODULE Ledger_proofs ----------------------------
(***************************************************************************)
(* Facts about the block tree, the two about the transaction index         *)
(* everything else rests on - connecting a block to a view that replays    *)
(* its parent's chain gives one that replays its own, and disconnecting    *)
(* takes it back - and what the operations of the memory pool leave in it. *)
(***************************************************************************)
EXTENDS TxPool, WellFoundedInduction, TLAPS

-----------------------------------------------------------------------------
(* The tree *)

\* The least-number principle, for sets.
LEMMA LeastOfNaturals ==
  ASSUME NEW T, T \subseteq Nat, T # {}
  PROVE  \E m \in T : \A k \in T : m <= k
<1>1. \E m \in T : \A k \in T : ~(<<k, m>> \in OpToRel(<, Nat))
  BY NatLessThanWellFounded, WFMin
<1>2. \A k, m \in Nat : ~(<<k, m>> \in OpToRel(<, Nat)) => m <= k
  BY DEF OpToRel
<1> QED BY <1>1, <1>2

\* Induction from the genesis block upwards: a set of blocks that holds the
\* genesis block and every child of its members holds all blocks.
LEMMA TreeInduction ==
  ASSUME NEW S, Genesis \in S,
         \A b \in Blocks \ {Genesis} : Parent[b] \in S => b \in S
  PROVE  Blocks \subseteq S
<1> SUFFICES ASSUME Blocks \ S # {} PROVE FALSE
  OBVIOUS
<1> DEFINE heights == {Height[b] : b \in Blocks \ S}
<1>1. heights \subseteq Nat /\ heights # {}
  BY TreeAssumption
<1>2. PICK m \in heights : \A k \in heights : m <= k
  BY <1>1, LeastOfNaturals
<1>3. PICK b \in Blocks \ S : Height[b] = m
  BY <1>2
<1>4. b # Genesis /\ Parent[b] \in Blocks \ S
  BY <1>3, TreeAssumption
<1>5. /\ Height[Parent[b]] \in heights /\ Height[b] = Height[Parent[b]] + 1
      /\ Height[Parent[b]] \in Nat
  BY <1>4, TreeAssumption
<1>6. m <= Height[Parent[b]]
  BY <1>2, <1>5
<1> HIDE DEF heights
<1> QED BY <1>3, <1>5, <1>6

\* A block and the genesis block are on its chain.
LEMMA ChainEnds ==
  ASSUME NEW b \in Blocks
  PROVE  b \in Chain[b] /\ Genesis \in Chain[b] /\ Chain[b] \subseteq Blocks
<1> DEFINE S == {c \in Blocks : c \in Chain[c] /\ Genesis \in Chain[c]}
<1>1. Blocks \subseteq S
  <2>1. Genesis \in S
    BY TreeAssumption
  <2>2. \A c \in Blocks \ {Genesis} : Parent[c] \in S => c \in S
    BY TreeAssumption
  <2> HIDE DEF S
  <2> QED BY <2>1, <2>2, TreeInduction
<1> QED BY <1>1, TreeAssumption

\* The chain of an ancestor is part of the chain, and trust grows along it.
LEMMA ChainBelow ==
  ASSUME NEW c \in Blocks, NEW b \in Chain[c]
  PROVE  Chain[b] \subseteq Chain[c] /\ Trust[b] <= Trust[c]
<1> DEFINE S == {d \in Blocks : \A a \in Chain[d] :
                    Chain[a] \subseteq Chain[d] /\ Trust[a] <= Trust[d]}
<1>1. Blocks \subseteq S
  <2>1. Genesis \in S
    BY TreeAssumption
  <2>2. ASSUME NEW d \in Blocks \ {Genesis}, Parent[d] \in S
        PROVE  d \in S
    <3>1. /\ Chain[d] = Chain[Parent[d]] \cup {d} /\ Trust[d] > Trust[Parent[d]]
          /\ Trust[d] \in Nat /\ Trust[Parent[d]] \in Nat
      BY TreeAssumption
    <3>2. ASSUME NEW a \in Chain[d]
          PROVE  Chain[a] \subseteq Chain[d] /\ Trust[a] <= Trust[d]
      <4>1. CASE a = d
        BY <3>1, <4>1
      <4>2. CASE a \in Chain[Parent[d]]
        <5>1. Chain[a] \subseteq Chain[Parent[d]] /\ Trust[a] <= Trust[Parent[d]]
          BY <2>2, <4>2
        <5>2. Trust[a] \in Nat
          BY <4>2, TreeAssumption
        <5> QED BY <3>1, <5>1, <5>2
      <4> QED BY <3>1, <4>1, <4>2
    <3> QED BY <3>2
  <2> HIDE DEF S
  <2> QED BY <2>1, <2>2, TreeInduction
<1> QED BY <1>1

\* A set of blocks closed under Parent holds the chains of its members.
LEMMA ChainInClosedSet ==
  ASSUME NEW I, \A b \in I \ {Genesis} : Parent[b] \in I,
         NEW c \in I, c \in Blocks
  PROVE  Chain[c] \subseteq I
<1> DEFINE S == {d \in Blocks : d \in I => Chain[d] \subseteq I}
<1>1. Blocks \subseteq S
  <2>1. Genesis \in S
    BY TreeAssumption
  <2>2. \A d \in Blocks \ {Genesis} : Parent[d] \in S => d \in S
    BY TreeAssumption
  <2> HIDE DEF S
  <2> QED BY <2>1, <2>2, TreeInduction
<1> QED BY <1>1

\* The parent of a block of a chain is on it, and is not its end.
LEMMA ParentOnChain ==
  ASSUME NEW p \in Blocks, NEW c \in Chain[p] \ {Genesis}
  PROVE  Parent[c] \in Chain[p] \ {p}
<1>1. c \in Blocks \ {Genesis}
  BY ChainEnds
<1>2. Parent[c] \in Blocks /\ c \notin Chain[Parent[c]]
  BY <1>1, TreeAssumption
<1>3. Parent[c] \in Chain[c]
  BY <1>1, <1>2, ChainEnds, TreeAssumption
<1> QED BY <1>2, <1>3, ChainBelow

\* Links that lead up a chain still do when those of its end and of blocks
\* that are not on it change.
LEMMA FollowsElsewhere ==
  ASSUME NEW p \in Blocks, NEW next, NEW new, Follows(next, p),
         \A c \in Chain[p] \ {p} : new[c] = next[c]
  PROVE  Follows(new, p)
BY ParentOnChain DEF Follows

\* They lead to a block when they lead to its parent and from there to it, and
\* only then.
LEMMA FollowsChild ==
  ASSUME NEW b \in Blocks \ {Genesis}, NEW next
  PROVE  Follows(next, b) <=> Follows(next, Parent[b]) /\ next[Parent[b]] = b
BY TreeAssumption DEF Follows

\* A link set when the best chain moved leads to a child on the new chain alone; one
\* that was kept is that of a block without a child on one of the two alone.
LEMMA RelinkedTo ==
  ASSUME NEW old, NEW new, NEW next, NEW b \in Blocks,
         Relinked(next, old, new)[b] # NoBlock
  PROVE  \/ /\ Relinked(next, old, new)[b] \in Chain[new] \ Chain[old]
            /\ Parent[Relinked(next, old, new)[b]] = b
         \/ /\ Relinked(next, old, new)[b] = next[b]
            /\ \A d \in (Chain[old] \ Chain[new]) \cup (Chain[new] \ Chain[old]) : Parent[d] # b
BY DEF Relinked

LEMMA RelinkedType ==
  ASSUME NEW old, NEW new \in Blocks, NEW next \in [Blocks -> Blocks \cup {NoBlock}]
  PROVE  Relinked(next, old, new) \in [Blocks -> Blocks \cup {NoBlock}]
BY ChainEnds DEF Relinked

-----------------------------------------------------------------------------
(* What a chain confirms *)

LEMMA TxSetType ==
  ASSUME NEW b \in Blocks
  PROVE  /\ TxSet(b) \subseteq Txs
         /\ \A t \in TxSet(b) : \E i \in 1..Len(BlockTxs[b]) : BlockTxs[b][i] = t
         /\ \A i \in 1..Len(BlockTxs[b]) : BlockTxs[b][i] \in TxSet(b)
         /\ \A i \in 1..Len(BlockTxs[b]) : Before(b, i) \subseteq TxSet(b)
BY TxAssumption DEF TxSet, ToSet, Before

LEMMA ConfirmedChild ==
  ASSUME NEW b \in Blocks \ {Genesis}
  PROVE  /\ Confirmed(b) = Confirmed(Parent[b]) \cup TxSet(b)
         /\ \A o : SpendersOn(b, o) = SpendersOn(Parent[b], o) \cup SpendersIn(b, o)
<1>1. Chain[b] = Chain[Parent[b]] \cup {b}
  BY TreeAssumption
<1>2. Confirmed(b) = Confirmed(Parent[b]) \cup TxSet(b)
  BY <1>1 DEF Confirmed
<1> QED BY <1>2 DEF SpendersOn, SpendersIn

LEMMA ConfirmedType ==
  ASSUME NEW c \in Blocks
  PROVE  Confirmed(c) \subseteq Txs
BY ChainEnds, TxSetType DEF Confirmed

\* On a sound chain the inputs of every confirmed transaction are confirmed.
LEMMA InputsConfirmed ==
  ASSUME NEW c \in Blocks, SoundChain(c), NEW t \in Confirmed(c)
  PROVE  Inputs[t] \subseteq Confirmed(c)
<1>1. PICK b \in Chain[c] : t \in TxSet(b)
  BY DEF Confirmed
<1>2. Inputs[t] \subseteq Confirmed(b)
  BY <1>1 DEF SoundChain
<1>3. Confirmed(b) \subseteq Confirmed(c)
  BY ChainBelow DEF Confirmed
<1> QED BY <1>2, <1>3

\* Soundness is passed down a chain, and up when one more block is sound.
LEMMA SoundParent ==
  ASSUME NEW b \in Blocks \ {Genesis}, SoundChain(b)
  PROVE  SoundChain(Parent[b])
BY TreeAssumption DEF SoundChain

LEMMA SoundChild ==
  ASSUME NEW b \in Blocks \ {Genesis}, SoundChain(Parent[b]),
         \A t \in TxSet(b) : Inputs[t] \subseteq Confirmed(b),
         TxSet(b) \cap Confirmed(Parent[b]) = {}
  PROVE  SoundChain(b)
BY TreeAssumption DEF SoundChain

-----------------------------------------------------------------------------
(* Connecting a block *)

\* A transaction that could be connected is not in the chain already: its
\* inputs would be spent, by itself.  (There is no explicit test for it.)
LEMMA ConnectedIsNew ==
  ASSUME NEW b \in Blocks \ {Genesis}, NEW view,
         SoundChain(Parent[b]), Replays(view, Parent[b]), CanConnect(view, b)
  PROVE  TxSet(b) \cap Confirmed(Parent[b]) = {}
<1> DEFINE p == Parent[b]
           n == Len(BlockTxs[b])
           again == {i \in 1..n : BlockTxs[b][i] \in Confirmed(p)}
<1> SUFFICES ASSUME TxSet(b) \cap Confirmed(p) # {} PROVE FALSE
  OBVIOUS
<1>0. p \in Blocks /\ n \in Nat
  BY TreeAssumption, TxAssumption
<1>1. again \subseteq Nat /\ again # {}
  BY <1>0, TxSetType
<1>2. PICK i \in again : \A j \in again : i <= j
  BY <1>1, LeastOfNaturals
<1> DEFINE t == BlockTxs[b][i]
<1>3. i \in 1..n /\ t \in Confirmed(p) /\ t \in TxSet(b) /\ t \in Txs
  BY <1>2, TxSetType
<1>4. PICK o \in Inputs[t] : TRUE
  BY <1>3, CoinbaseAssumption
<1>5. o \in Confirmed(p) /\ o \in Txs
  BY <1>0, <1>3, InputsConfirmed, ConfirmedType
<1>6. o \notin Before(b, i)
  BY <1>0, <1>2, <1>3, <1>5 DEF Before
<1>7. view.spent[o] = NoTx
  BY <1>3, <1>6 DEF CanConnect, InputsConnect
<1>8. SpendersOn(p, o) = {}
  BY <1>5, <1>7 DEF Replays
<1>9. t \in SpendersOn(p, o)
  BY <1>3, <1>4 DEF SpendersOn
<1> QED BY <1>8, <1>9

\* An input that passes is confirmed, by the block itself or before it, and
\* spent by nothing of the chain; and only one transaction of b spends it.
LEMMA ConnectedInputs ==
  ASSUME NEW b \in Blocks \ {Genesis}, NEW view,
         SoundChain(Parent[b]), Replays(view, Parent[b]), CanConnect(view, b),
         NEW t \in TxSet(b), NEW o \in Inputs[t]
  PROVE  /\ o \in Confirmed(b)
         /\ SpendersOn(Parent[b], o) = {}
         /\ \A u \in TxSet(b) : o \in Inputs[u] => u = t
<1> DEFINE p == Parent[b]
           n == Len(BlockTxs[b])
<1>1. PICK i \in 1..n : BlockTxs[b][i] = t
  BY TxSetType
<1>2. InputsConnect(view, b, i)
  BY <1>1 DEF CanConnect
<1>3. p \in Blocks /\ o \in Txs /\ n \in Nat
  BY TreeAssumption, TxAssumption, TxSetType
<1>4. \/ o \in Before(b, i)
      \/ view.at[o] # NoBlock /\ view.spent[o] = NoTx
  BY <1>1, <1>2 DEF InputsConnect
<1>5. o \in Confirmed(b)
  BY <1>3, <1>4, <1>1, TxSetType, ConfirmedChild DEF Replays
<1>6. SpendersOn(p, o) = {}
  <2>1. CASE o \in Before(b, i)
    <3>1. o \notin Confirmed(p)
      BY <1>1, <2>1, TxSetType, ConnectedIsNew
    <3> QED BY <1>3, <3>1, InputsConfirmed DEF SpendersOn
  <2>2. CASE view.spent[o] = NoTx
    BY <1>3, <2>2 DEF Replays
  <2> QED BY <1>4, <2>1, <2>2
<1>7. ASSUME NEW u \in TxSet(b), o \in Inputs[u], u # t PROVE FALSE
  <2>1. PICK j \in 1..n : BlockTxs[b][j] = u
    BY TxSetType
  <2>2. InputsConnect(view, b, j)
    BY <2>1 DEF CanConnect
  <2>3. CASE i < j
    <3>1. t \in Before(b, j)
      BY <1>1, <1>3, <2>1, <2>3 DEF Before
    <3> QED BY <1>7, <2>1, <2>2, <3>1 DEF InputsConnect
  <2>4. CASE j < i
    <3>1. u \in Before(b, i)
      BY <1>1, <1>3, <2>1, <2>4 DEF Before
    <3> QED BY <1>1, <1>2, <1>7, <3>1 DEF InputsConnect
  <2>5. i # j
    BY <1>1, <1>7, <2>1
  <2> QED BY <1>3, <2>3, <2>4, <2>5
<1> QED BY <1>5, <1>6, <1>7

LEMMA ConnectSound ==
  ASSUME NEW b \in Blocks \ {Genesis}, NEW view,
         SoundChain(Parent[b]), Replays(view, Parent[b]), CanConnect(view, b)
  PROVE  SoundChain(b)
<1>1. \A t \in TxSet(b) : Inputs[t] \subseteq Confirmed(b)
  BY ConnectedInputs
<1> QED BY <1>1, ConnectedIsNew, SoundChild

\* ConnectBlock keeps the transaction index in step with the chain.
LEMMA ConnectReplays ==
  ASSUME NEW b \in Blocks \ {Genesis}, NEW view,
         SoundChain(Parent[b]), Replays(view, Parent[b]), CanConnect(view, b)
  PROVE  Replays(Connect(view, b), b)
<1> DEFINE p == Parent[b]
           after == Connect(view, b)
<1>1. p \in Blocks /\ b \in Chain[b] /\ Chain[b] = Chain[p] \cup {b} /\ NoBlock \notin Blocks
  BY TreeAssumption, ChainEnds
<1> SUFFICES ASSUME NEW t \in Txs
             PROVE  /\ after.at[t] # NoBlock <=> t \in Confirmed(b)
                    /\ after.at[t] # NoBlock =>
                          after.at[t] \in Chain[b] /\ t \in TxSet(after.at[t])
                    /\ SpendersOn(b, t) =
                          IF after.spent[t] = NoTx THEN {} ELSE {after.spent[t]}
  BY DEF Replays
<1>2. /\ view.at[t] # NoBlock <=> t \in Confirmed(p)
      /\ view.at[t] # NoBlock => view.at[t] \in Chain[p] /\ t \in TxSet(view.at[t])
      /\ SpendersOn(p, t) = IF view.spent[t] = NoTx THEN {} ELSE {view.spent[t]}
  BY DEF Replays
<1>3. after.at[t] = IF t \in TxSet(b) THEN b ELSE view.at[t]
  BY DEF Connect
<1>4. after.spent[t] =
        IF SpendersIn(b, t) # {} THEN CHOOSE u \in SpendersIn(b, t) : TRUE
        ELSE IF t \in TxSet(b) THEN NoTx ELSE view.spent[t]
  BY DEF Connect
<1>5. /\ Confirmed(b) = Confirmed(p) \cup TxSet(b)
      /\ SpendersOn(b, t) = SpendersOn(p, t) \cup SpendersIn(b, t)
  BY ConfirmedChild
<1> HIDE DEF after
<1>6. /\ after.at[t] # NoBlock <=> t \in Confirmed(b)
      /\ after.at[t] # NoBlock => after.at[t] \in Chain[b] /\ t \in TxSet(after.at[t])
  BY <1>1, <1>2, <1>3, <1>5
<1>7. SpendersOn(b, t) = IF after.spent[t] = NoTx THEN {} ELSE {after.spent[t]}
  <2>1. CASE SpendersIn(b, t) # {}
    <3>1. PICK u \in SpendersIn(b, t) : TRUE
      BY <2>1
    <3>2. u \in TxSet(b) /\ t \in Inputs[u]
      BY <3>1 DEF SpendersIn
    <3>3. SpendersIn(b, t) = {u} /\ SpendersOn(p, t) = {}
      BY <3>1, <3>2, ConnectedInputs DEF SpendersIn
    <3>4. after.spent[t] = u /\ u \in Txs /\ NoTx \notin Txs
      BY <1>4, <3>2, <3>3, TxSetType, TxAssumption
    <3> QED BY <1>5, <3>3, <3>4
  <2>2. CASE SpendersIn(b, t) = {} /\ t \in TxSet(b)
    <3>1. t \notin Confirmed(p)
      BY <2>2, ConnectedIsNew
    <3>2. SpendersOn(p, t) = {}
      BY <1>1, <3>1, InputsConfirmed DEF SpendersOn
    <3> QED BY <1>4, <1>5, <2>2, <3>2
  <2>3. CASE SpendersIn(b, t) = {} /\ t \notin TxSet(b)
    BY <1>2, <1>4, <1>5, <2>3
  <2> QED BY <2>1, <2>2, <2>3
<1> QED BY <1>6, <1>7

-----------------------------------------------------------------------------
(* Disconnecting a block *)

\* DisconnectBlock of the end of a sound chain restores the index of the rest:
\* a reorganisation leaves nothing behind and takes nothing with it.
LEMMA DisconnectReplays ==
  ASSUME NEW b \in Blocks \ {Genesis}, NEW view, SoundChain(b), Replays(view, b)
  PROVE  Replays(Disconnect(view, b), Parent[b])
<1> DEFINE p == Parent[b]
           after == Disconnect(view, b)
<1>1. p \in Blocks /\ b \in Chain[b] /\ Chain[b] = Chain[p] \cup {b} /\ NoBlock \notin Blocks
  BY TreeAssumption, ChainEnds
<1>2. SoundChain(p) /\ TxSet(b) \cap Confirmed(p) = {}
  BY <1>1, SoundParent DEF SoundChain
<1> SUFFICES ASSUME NEW t \in Txs
             PROVE  /\ after.at[t] # NoBlock <=> t \in Confirmed(p)
                    /\ after.at[t] # NoBlock =>
                          after.at[t] \in Chain[p] /\ t \in TxSet(after.at[t])
                    /\ SpendersOn(p, t) =
                          IF after.spent[t] = NoTx THEN {} ELSE {after.spent[t]}
  BY DEF Replays
<1>3. /\ view.at[t] # NoBlock <=> t \in Confirmed(b)
      /\ view.at[t] # NoBlock => view.at[t] \in Chain[b] /\ t \in TxSet(view.at[t])
      /\ SpendersOn(b, t) = IF view.spent[t] = NoTx THEN {} ELSE {view.spent[t]}
  BY DEF Replays
<1>4. after.at[t] = IF t \in TxSet(b) THEN NoBlock ELSE view.at[t]
  BY DEF Disconnect
<1>5. after.spent[t] =
        IF SpendersIn(b, t) # {} \/ t \in TxSet(b) THEN NoTx ELSE view.spent[t]
  BY DEF Disconnect
<1>6. /\ Confirmed(b) = Confirmed(p) \cup TxSet(b)
      /\ SpendersOn(b, t) = SpendersOn(p, t) \cup SpendersIn(b, t)
  BY ConfirmedChild
<1> HIDE DEF after
<1>7. /\ after.at[t] # NoBlock <=> t \in Confirmed(p)
      /\ after.at[t] # NoBlock => after.at[t] \in Chain[p] /\ t \in TxSet(after.at[t])
  BY <1>1, <1>2, <1>3, <1>4, <1>6
<1>8. SpendersOn(p, t) = IF after.spent[t] = NoTx THEN {} ELSE {after.spent[t]}
  <2>1. CASE SpendersIn(b, t) # {}
    <3>1. SpendersOn(p, t) \cap SpendersIn(b, t) = {}
      BY <1>2 DEF SpendersOn, SpendersIn
    <3>2. SpendersOn(p, t) = {}
      BY <1>3, <1>6, <2>1, <3>1
    <3> QED BY <1>5, <2>1, <3>2
  <2>2. CASE SpendersIn(b, t) = {} /\ t \in TxSet(b)
    <3>1. t \notin Confirmed(p)
      BY <1>2, <2>2
    <3>2. SpendersOn(p, t) = {}
      BY <1>1, <1>2, <3>1, InputsConfirmed DEF SpendersOn
    <3> QED BY <1>5, <2>2, <3>2
  <2>3. CASE SpendersIn(b, t) = {} /\ t \notin TxSet(b)
    BY <1>3, <1>5, <1>6, <2>3
  <2> QED BY <2>1, <2>2, <2>3
<1> QED BY <1>7, <1>8

\* The empty index is the one of the genesis block, whose transaction is never
\* indexed.
LEMMA GenesisReplays == Replays(EmptyView, Genesis) /\ SoundChain(Genesis)
<1>1. Confirmed(Genesis) = {} /\ TxSet(Genesis) = {}
  BY TreeAssumption, TxAssumption DEF Confirmed, TxSet, ToSet
<1>2. SoundChain(Genesis)
  BY <1>1, TreeAssumption DEF SoundChain
<1>3. Replays(EmptyView, Genesis)
  BY <1>1, TreeAssumption DEF Replays, EmptyView, SpendersOn
<1> QED BY <1>2, <1>3

-----------------------------------------------------------------------------
(* Types, and which block a transaction is in *)

\* Connecting and disconnecting give views.
LEMMA ConnectType ==
  ASSUME NEW view \in Views, NEW b \in Blocks
  PROVE  Connect(view, b) \in Views /\ Disconnect(view, b) \in Views
<1>1. \A o : SpendersIn(b, o) \subseteq Txs
  BY TxSetType DEF SpendersIn
<1>2. ASSUME NEW o \in Txs
      PROVE  (IF SpendersIn(b, o) # {} THEN CHOOSE t \in SpendersIn(b, o) : TRUE
              ELSE IF o \in TxSet(b) THEN NoTx ELSE view.spent[o]) \in Txs \cup {NoTx}
  <2>1. CASE SpendersIn(b, o) # {}
    <3>1. (CHOOSE t \in SpendersIn(b, o) : TRUE) \in SpendersIn(b, o)
      BY <2>1
    <3> QED BY <1>1, <2>1, <3>1
  <2>2. CASE SpendersIn(b, o) = {}
    BY <2>2 DEF Views
  <2> QED BY <2>1, <2>2
<1>3. Connect(view, b) \in Views
  BY <1>2 DEF Connect, Views
<1>4. Disconnect(view, b) \in Views
  BY DEF Disconnect, Views
<1> QED BY <1>3, <1>4

\* On a sound chain a transaction is in one block.
LEMMA OneBlock ==
  ASSUME NEW c \in Blocks, SoundChain(c), NEW a \in Chain[c], NEW b \in Chain[c],
         NEW t \in TxSet(a), t \in TxSet(b)
  PROVE  a = b
<1> DEFINE Once(d) == \A x, y \in Chain[d] : TxSet(x) \cap TxSet(y) # {} => x = y
           S == {d \in Blocks : SoundChain(d) => Once(d)}
<1>1. Genesis \in S
  BY TreeAssumption
<1>2. ASSUME NEW d \in Blocks \ {Genesis}, Parent[d] \in S
      PROVE  d \in S
  <2> SUFFICES ASSUME SoundChain(d) PROVE Once(d)
    OBVIOUS
  <2>1. Once(Parent[d])
    BY <1>2, SoundParent
  <2>2. Chain[d] = Chain[Parent[d]] \cup {d} /\ d \in Chain[d]
    BY TreeAssumption
  <2>3. \A x \in Chain[Parent[d]] : TxSet(x) \cap TxSet(d) = {}
    BY <2>2 DEF SoundChain, Confirmed
  <2> QED BY <2>1, <2>2, <2>3
<1> HIDE DEF S
<1>3. Blocks \subseteq S
  BY <1>1, <1>2, TreeInduction
<1> QED BY <1>3 DEF S

-----------------------------------------------------------------------------
(* The memory pool *)

\* AcceptToMemoryPool, one transaction after the other: what was in the pool
\* stays, what joins was acceptable, what was acceptable and did not join
\* conflicts with something that did, and no conflict comes in.
LEMMA AcceptedFew ==
  ASSUME NEW pool, NEW view, NEW tip, NEW lk, NEW txs,
         NEW p \in AcceptedEach(pool, view, tip, lk, txs)
  PROVE  /\ pool \subseteq p /\ p \subseteq pool \cup txs
         /\ \A t \in p \ pool : PoolAccepts(pool, view, tip, lk, t)
         /\ \A t \in txs \ p : PoolAccepts(pool, view, tip, lk, t)
                                => \E u \in p \cap txs : Conflicting(t, u)
         /\ (\A t, u \in pool : ~Conflicting(t, u)) => \A t, u \in p : ~Conflicting(t, u)
<1> DEFINE open == {t \in txs : PoolAccepts(pool, view, tip, lk, t)}
<1>1. PICK q \in SUBSET open :
        /\ p = pool \cup q
        /\ \A t, u \in q : ~Conflicting(t, u)
        /\ \A t \in open \ q : \E u \in q : Conflicting(t, u)
  BY DEF AcceptedEach
<1>2. ASSUME NEW t \in q, NEW u \in pool
      PROVE  ~Conflicting(t, u) /\ ~Conflicting(u, t)
  BY <1>1 DEF PoolAccepts, Conflicting
<1>3. (\A t, u \in pool : ~Conflicting(t, u)) => \A t, u \in p : ~Conflicting(t, u)
  BY <1>1, <1>2
<1>4. \A t \in txs \ p : PoolAccepts(pool, view, tip, lk, t)
                        => \E u \in p \cap txs : Conflicting(t, u)
  BY <1>1
<1> QED BY <1>1, <1>3, <1>4

\* removeConflicts takes nothing but what conflicts and what spends from the pool.
LEMMA RemovedFew ==
  ASSUME NEW pool, NEW txs
  PROVE  /\ RemoveConflicts(pool, txs) \subseteq pool
         /\ \A t \in pool \ RemoveConflicts(pool, txs) :
               (\E u \in txs : Conflicting(t, u)) \/ Inputs[t] \cap pool # {}
<1> DEFINE roots == {t \in pool : \E u \in txs : Conflicting(t, u)}
<1> SUFFICES ASSUME NEW t \in pool, t \in WithDescendants(pool, roots), t \notin roots,
                    Inputs[t] \cap pool = {}
             PROVE  FALSE
  BY DEF RemoveConflicts
<1> DEFINE others == pool \ {t}
<1>1. others \in SUBSET pool /\ roots \cap pool \subseteq others
      /\ {r \in pool : Inputs[r] \cap others # {}} \subseteq others
  OBVIOUS
<1>2. t \in others
  BY <1>1 DEF WithDescendants
<1> QED BY <1>2

=============================================================================
