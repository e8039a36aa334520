--------------------------- MODULE Wallet_proofs ---------------------------
(***************************************************************************)
(* What the wallet records, shows as confirmed and offers, for every block *)
(* tree, every set of transactions, every reorganisation, aborted or not,  *)
(* and a restart at any step.                                              *)
(*                                                                         *)
(* CallInv says how far SetBestChain has come, PathInv where in the tree,  *)
(* LinkInv what pnext and hashNext may still point to; what a restart scans*)
(* needs all three.  LedgerInv says that the index on disk replays the best*)
(* chain, and the one of the open database transaction the chain it has    *)
(* reached.  RecordInv says that hashBlock names a block that holds the    *)
(* transaction: in the middle of a reorganisation never more is true of    *)
(* it, and with LinkInv it is enough for ConfirmedIsOnChain.               *)
(*                                                                         *)
(* RecordsFollowChain also needs that nothing on disk or connected is      *)
(* unknown to the wallet (KnownInv), and FollowInv: what the open          *)
(* transaction has connected is recorded as it will be on disk, and what   *)
(* it has touched is unsettled until it commits or is aborted.  What the   *)
(* wallet offers follows from the marks (OwnInv, SpentInv).                *)
(***************************************************************************)
EXTENDS Wallet, Ledger_proofs

-----------------------------------------------------------------------------
(* Types *)

ChainTypes ==
    /\ mapBlockIndex \subseteq Blocks /\ view \in Views /\ best \in Blocks
    /\ goal \in Blocks \cup {NoBlock} /\ target \in Blocks /\ reached \in Blocks
    /\ working \in Views
    /\ {pnext, dbNext, workingNext} \subseteq [Blocks -> Blocks \cup {NoBlock}]
WalletTypes ==
    /\ pool \subseteq Txs /\ mapWallet \subseteq Txs
    /\ hashBlock \in [Txs -> Blocks \cup {NoBlock}]
    /\ vfSpent \subseteq Txs /\ locator \in Blocks
HistoryTypes ==
    /\ adopted \subseteq Blocks /\ astray \subseteq Txs /\ sent \subseteq Own
    /\ released \subseteq Txs /\ exposed \subseteq Txs

\* SetBestChain connects towards an indexed block whose chain holds the target.
CallInv ==
    /\ ChainTypes /\ WalletTypes /\ HistoryTypes
    /\ goal # NoBlock => target \in Chain[goal]

LEMMA CallInvTypes == CallInv => TypeOK
BY DEF CallInv, ChainTypes, WalletTypes, HistoryTypes, TypeOK

LEMMA LearnedType ==
  ASSUME NEW known, known \subseteq Txs, NEW txs \in Seq(Txs)
  PROVE  Learned(known, txs) \subseteq Txs
<1>1. \A i \in 1..Len(txs) : txs[i] \in Txs
  OBVIOUS
<1> QED BY <1>1 DEF Learned

LEMMA LearnedFromType ==
  ASSUME NEW known, known \subseteq Txs, NEW blocks, blocks \subseteq Blocks
  PROVE  LearnedFrom(known, blocks) \subseteq Txs
<1>1. ASSUME NEW b \in blocks, NEW more
      PROVE  Learned(known \cup (Mine \cap more), BlockTxs[b]) \subseteq Txs
  <2>1. known \cup (Mine \cap more) \subseteq Txs
    BY WalletAssumption
  <2> QED BY <2>1, LearnedType, TxAssumption
<1> QED BY <1>1 DEF LearnedFrom

LEMMA MarkTypes ==
  ASSUME vfSpent \subseteq Txs, released \subseteq Txs, NEW new, new \subseteq Txs, Mark(new)
  PROVE  vfSpent' \subseteq Txs /\ released' \subseteq Txs
BY DEF Mark

LEMMA SyncTypes ==
  ASSUME WalletTypes, HistoryTypes, NEW b \in Blocks, NEW fConnect \in BOOLEAN,
         SyncBlock(b, fConnect), pool' = pool
  PROVE  WalletTypes' /\ HistoryTypes'
<1> DEFINE known == Learned(mapWallet, BlockTxs[b])
           gone == UNION {Inputs[t] \cap known \cap Mine : t \in TxSet(b) \cap Stakes}
           new == IF fConnect THEN vfSpent ELSE vfSpent \ gone
<1>1. mapWallet' = known /\ known \subseteq Txs
  BY LearnedType, TxAssumption DEF SyncBlock, WalletTypes
<1>2. vfSpent' \subseteq Txs /\ released' \subseteq Txs
  <2>1. Mark(new)
    BY DEF SyncBlock
  <2>2. new \subseteq Txs
    BY DEF WalletTypes
  <2> HIDE DEF new
  <2> QED BY <2>1, <2>2, MarkTypes DEF WalletTypes, HistoryTypes
<1>3. hashBlock' \in [Txs -> Blocks \cup {NoBlock}]
  BY DEF SyncBlock, Merged, WalletTypes
<1> QED BY <1>1, <1>2, <1>3 DEF SyncBlock, WalletTypes, HistoryTypes

-----------------------------------------------------------------------------
(* The steps of SetBestChain lead somewhere *)

\* On the way from a block to one that holds it there is a next one.
LEMMA NextOnChain ==
  ASSUME NEW c \in Blocks, NEW r \in Chain[c], r # c
  PROVE  \E b \in Chain[c] \ {Genesis} : Parent[b] = r
<1> DEFINE Goes(d) == \A x \in Chain[d] \ {d} : \E b \in Chain[d] \ {Genesis} : Parent[b] = x
           S == {d \in Blocks : Goes(d)}
<1>1. Genesis \in S
  BY TreeAssumption
<1>2. ASSUME NEW d \in Blocks \ {Genesis}, Parent[d] \in S
      PROVE  d \in S
  <2> SUFFICES ASSUME NEW x \in Chain[d] \ {d}
               PROVE  \E b \in Chain[d] \ {Genesis} : Parent[b] = x
    OBVIOUS
  <2>1. Chain[d] = Chain[Parent[d]] \cup {d}
    BY TreeAssumption
  <2>2. CASE x = Parent[d]
    BY <2>1, <2>2
  <2>3. CASE x # Parent[d]
    BY <1>2, <2>1, <2>3
  <2> QED BY <2>2, <2>3
<1> HIDE DEF S
<1>3. Blocks \subseteq S
  BY <1>1, <1>2, TreeInduction
<1> QED BY <1>3 DEF S

\* A chain that ends in more trust than the best block passes it somewhere.
LEMMA SomeIntermediate ==
  ASSUME best \in Blocks, NEW c \in Blocks, Trust[c] > Trust[best]
  PROVE  Intermediate(c) \in Chain[c] \ {Genesis}
<1> DEFINE Passes(i) == Trust[i] > Trust[best] /\ Trust[Parent[i]] <= Trust[best]
           S == {d \in Blocks : Trust[d] > Trust[best] =>
                                  \E i \in Chain[d] \ {Genesis} : Passes(i)}
<1>0. Trust \in [Blocks -> Nat]
  BY TreeAssumption
<1>1. Genesis \in S
  <2>1. Genesis \in Blocks /\ Trust[Genesis] <= Trust[best]
    BY ChainEnds, ChainBelow, TreeAssumption
  <2> QED BY <1>0, <2>1
<1>2. ASSUME NEW d \in Blocks \ {Genesis}, Parent[d] \in S
      PROVE  d \in S
  <2> SUFFICES ASSUME Trust[d] > Trust[best]
               PROVE  \E i \in Chain[d] \ {Genesis} : Passes(i)
    OBVIOUS
  <2>1. Chain[d] = Chain[Parent[d]] \cup {d} /\ Parent[d] \in Blocks
    BY TreeAssumption
  <2>2. CASE Trust[Parent[d]] > Trust[best]
    BY <1>2, <2>1, <2>2
  <2>3. CASE ~(Trust[Parent[d]] > Trust[best])
    <3>1. Passes(d)
      BY <1>0, <2>1, <2>3
    <3> QED BY <2>1, <3>1
  <2> QED BY <2>2, <2>3
<1> HIDE DEF S
<1>3. Blocks \subseteq S
  BY <1>1, <1>2, TreeInduction
<1>4. \E i \in Chain[c] \ {Genesis} : Passes(i)
  BY <1>3 DEF S
<1> QED BY <1>4 DEF Intermediate

\* NextBlock is a child of what has been reached, on the way to the target.
LEMMA NextBlockFacts ==
  ASSUME target \in Blocks, reached \in Chain[target], reached # target
  PROVE  /\ NextBlock \in Chain[target] /\ NextBlock \in Blocks \ {Genesis}
         /\ Parent[NextBlock] = reached
<1>1. \E b \in Chain[target] \ {Genesis} : Parent[b] = reached
  BY NextOnChain
<1>2. NextBlock \in Chain[target] \ {Genesis} /\ Parent[NextBlock] = reached
  BY <1>1 DEF NextBlock
<1> QED BY <1>2, ChainEnds

-----------------------------------------------------------------------------
(* Where SetBestChain stands in the tree *)

\* The index is closed under hashPrevBlock and bounded in height, the locator is in
\* it, and on its way from the best block to the target SetBestChain never leaves
\* what both chains share.
PathInv ==
    /\ Genesis \in mapBlockIndex /\ best \in mapBlockIndex
    /\ locator \in mapBlockIndex
    /\ \A b \in mapBlockIndex \ {Genesis} : Parent[b] \in mapBlockIndex
    /\ \E n \in Nat : \A b \in mapBlockIndex : Height[b] <= n
    /\ ~Idle => /\ goal \in mapBlockIndex
                /\ reached \in Chain[best] \/ reached \in Chain[target]
                /\ Chain[target] \cap Chain[best] \subseteq Chain[reached]

LEMMA IndexedChain ==
  ASSUME PathInv, NEW c \in mapBlockIndex, c \in Blocks
  PROVE  Chain[c] \subseteq mapBlockIndex
BY ChainInClosedSet DEF PathInv

\* What SetBestChain works on is indexed.
LEMMA IndexedPath ==
  ASSUME CallInv, PathInv
  PROVE  /\ Chain[best] \subseteq mapBlockIndex
         /\ ~Idle => reached \in mapBlockIndex /\ Chain[target] \subseteq mapBlockIndex
<1>1. Chain[best] \subseteq mapBlockIndex
  BY IndexedChain DEF CallInv, ChainTypes, PathInv
<1>2. ASSUME ~Idle
      PROVE  reached \in mapBlockIndex /\ Chain[target] \subseteq mapBlockIndex
  <2>1. goal \in mapBlockIndex /\ goal \in Blocks /\ target \in Chain[goal]
    BY <1>2 DEF CallInv, ChainTypes, PathInv, Idle
  <2>2. Chain[goal] \subseteq mapBlockIndex
    BY <2>1, IndexedChain
  <2>3. Chain[target] \subseteq Chain[goal]
    BY <2>1, ChainBelow
  <2> QED BY <1>1, <1>2, <2>2, <2>3 DEF PathInv
<1> QED BY <1>1, <1>2

\* While it disconnects it stands on the best chain, and the block it connects
\* is none of that chain's.
LEMMA WhereItStands ==
  ASSUME CallInv, PathInv, ~Idle
  PROVE  /\ reached \notin Chain[target] =>
               reached \in Chain[best] /\ reached \in Blocks \ {Genesis}
         /\ reached \in Chain[target] /\ reached # target =>
               /\ NextBlock \in Chain[target] \ Chain[best]
               /\ NextBlock \in Blocks \ {Genesis} /\ Parent[NextBlock] = reached
               /\ Chain[NextBlock] = Chain[reached] \cup {NextBlock}
<1>1. ASSUME reached \notin Chain[target]
      PROVE  reached \in Chain[best] /\ reached \in Blocks \ {Genesis}
  BY <1>1, ChainEnds DEF PathInv, CallInv, ChainTypes
<1>2. ASSUME reached \in Chain[target], reached # target
      PROVE  /\ NextBlock \in Chain[target] \ Chain[best]
             /\ NextBlock \in Blocks \ {Genesis} /\ Parent[NextBlock] = reached
             /\ Chain[NextBlock] = Chain[reached] \cup {NextBlock}
  <2>1. /\ NextBlock \in Chain[target] /\ NextBlock \in Blocks \ {Genesis}
        /\ Parent[NextBlock] = reached
    BY <1>2, NextBlockFacts DEF CallInv, ChainTypes
  <2>2. NextBlock \notin Chain[reached] /\ Chain[NextBlock] = Chain[reached] \cup {NextBlock}
    BY <2>1, TreeAssumption
  <2> QED BY <2>1, <2>2 DEF PathInv
<1> QED BY <1>1, <1>2

-----------------------------------------------------------------------------
(* The links *)

\* A link leads to an indexed child.
Proper(next) ==
    \A b \in Blocks : next[b] # NoBlock =>
        next[b] \in mapBlockIndex \ {Genesis} /\ Parent[next[b]] = b

\* A link to a block that was once on the best chain is one between two blocks
\* of the chain that ends in tip: those along a chain that was left were cleared.
Apart(next, tip) == \A b \in Blocks : next[b] \in adopted => b \in Chain[tip] \ {tip}

\* It holds in memory, on disk, and in the open transaction for what it reached.
LinkInv ==
    /\ adopted \subseteq mapBlockIndex /\ Chain[best] \subseteq adopted
    /\ Proper(pnext) /\ Apart(pnext, best)
    /\ Proper(dbNext) /\ Apart(dbNext, best)
    /\ ~Idle => Proper(workingNext) /\ Apart(workingNext, reached)

-----------------------------------------------------------------------------
(* What a restart scans *)

\* Some block of a set with an element of a kind is the last of that kind, and
\* some is the first, when the set is indexed.
LEMMA SomeHighest ==
  ASSUME PathInv, mapBlockIndex \subseteq Blocks, NEW S, S \subseteq mapBlockIndex, S # {}
  PROVE  /\ \E b \in S : \A c \in S : Height[c] <= Height[b]
         /\ \E b \in S : \A c \in S : Height[b] <= Height[c]
<1>1. PICK n \in Nat : \A b \in mapBlockIndex : Height[b] <= n
  BY DEF PathInv
<1>2. \A b \in S : Height[b] \in Nat /\ n - Height[b] \in Nat
  BY <1>1, TreeAssumption
<1> DEFINE T == {n - Height[b] : b \in S}
           U == {Height[b] : b \in S}
<1>3. T \subseteq Nat /\ T # {} /\ U \subseteq Nat /\ U # {}
  BY <1>2
<1>4. PICK k \in T : \A l \in T : k <= l
  BY <1>3, LeastOfNaturals
<1>5. PICK h \in U : \A l \in U : h <= l
  BY <1>3, LeastOfNaturals
<1>6. PICK b \in S : k = n - Height[b]
  BY <1>4
<1>7. ASSUME NEW c \in S
      PROVE  Height[c] <= Height[b]
  <2>1. n - Height[b] <= n - Height[c]
    BY <1>4, <1>6
  <2>2. Height[b] \in Nat /\ Height[c] \in Nat
    BY <1>2
  <2> QED BY <2>1, <2>2
<1>8. \E c \in S : \A d \in S : Height[c] <= Height[d]
  BY <1>5
<1> QED BY <1>7, <1>8

\* Following the links of the disk one meets indexed blocks only.
LEMMA FollowedIndexed ==
  ASSUME CallInv, PathInv, LinkInv, NEW from \in mapBlockIndex
  PROVE  Followed(from) \subseteq mapBlockIndex
<1> SUFFICES ASSUME NEW b \in Followed(from) PROVE b \in mapBlockIndex
  OBVIOUS
<1>1. b \in Blocks /\ from \in Blocks
  BY DEF Followed, CallInv, ChainTypes
<1>2. CASE b \in Chain[from]
  BY <1>1, <1>2, IndexedChain
<1>3. CASE b \notin Chain[from]
  <2>1. dbNext[Parent[b]] = b
    BY <1>1, <1>3, ChainEnds DEF Followed
  <2>2. b \in Blocks \ {Genesis} /\ b # NoBlock
    BY <1>1, <1>3, ChainEnds, TreeAssumption
  <2>3. Parent[b] \in Blocks
    BY <2>2, TreeAssumption
  <2> QED BY <2>1, <2>2, <2>3 DEF LinkInv, Proper
<1> QED BY <1>2, <1>3

LEMMA ScannedIndexed ==
  ASSUME CallInv, PathInv, LinkInv
  PROVE  Scanned \subseteq mapBlockIndex /\ Followed(Genesis) \subseteq mapBlockIndex
<1> DEFINE have == {b \in Chain[locator] : InMainChain(dbNext, b)} \cup {Genesis}
<1>1. have \subseteq mapBlockIndex /\ have # {}
  BY IndexedChain DEF PathInv, CallInv, WalletTypes
<1>2. \E b \in have : \A c \in have : Height[c] <= Height[b]
  <2> HIDE DEF have
  <2> QED BY <1>1, SomeHighest DEF CallInv, ChainTypes
<1>3. LocatedFrom \in have
  BY <1>2 DEF LocatedFrom
<1> HIDE DEF have
<1>4. LocatedFrom \in mapBlockIndex /\ Genesis \in mapBlockIndex
  BY <1>1, <1>3 DEF PathInv
<1> QED BY <1>4, FollowedIndexed DEF Scanned

\* What the wallet learns from a block, or from those of a chain.
LEMMA LearnedFew ==
  ASSUME NEW known, NEW b
  PROVE  /\ known \subseteq Learned(known, BlockTxs[b])
         /\ b \in Blocks => Learned(known, BlockTxs[b]) \subseteq known \cup TxSet(b)
BY TxSetType DEF Learned

LEMMA LearnedFromFew ==
  ASSUME NEW known, NEW blocks, blocks \subseteq Blocks
  PROVE  /\ known \subseteq LearnedFrom(known, blocks)
         /\ LearnedFrom(known, blocks) \subseteq known \cup UNION {TxSet(b) : b \in blocks}
<1>1. ASSUME NEW b \in blocks, NEW more
      PROVE  Learned(known \cup (Mine \cap more), BlockTxs[b])
                \subseteq known \cup Mine \cup TxSet(b)
  BY <1>1, LearnedFew
<1>2. ASSUME NEW b \in blocks,
             NEW t \in Learned(known \cup (Mine \cap
                         UNION {TxSet(c) : c \in {c \in blocks : Height[c] < Height[b]}}),
                         BlockTxs[b])
      PROVE  t \in known \cup UNION {TxSet(c) : c \in blocks}
  BY <1>2, LearnedFew
<1> QED BY <1>2 DEF LearnedFrom

\* A restart forgets nothing and learns from indexed blocks only; what it finds
\* it places in one of them that holds it, and the rest stays where it was.
LEMMA RestartFinds ==
  ASSUME CallInv, PathInv, LinkInv, Restart
  PROVE  \E placed \in SUBSET Txs :
           /\ mapWallet \subseteq mapWallet' /\ mapWallet' \subseteq Txs
           /\ mapWallet' \subseteq mapWallet \cup UNION {TxSet(b) : b \in mapBlockIndex}
           /\ hashBlock' \in [Txs -> Blocks \cup {NoBlock}]
           /\ \A t \in placed : hashBlock'[t] \in mapBlockIndex /\ t \in TxSet(hashBlock'[t])
           /\ \A t \in Txs \ placed : hashBlock'[t] = hashBlock[t]
           /\ (IF Idle THEN astray ELSE astray \cup Told) \ placed \subseteq astray'
           /\ astray' \subseteq (IF Idle THEN astray ELSE astray \cup Told) \cup placed
           /\ \A t \in placed : t \notin astray' => hashBlock'[t] \in Chain[best]
           /\ locator' \in {locator, best}
           /\ pool' \in Reaccepted(mapWallet')
           /\ Mark(vfSpent \cup SpentOnDisk(mapWallet'))
<1> DEFINE scanned == Scanned
           whole == Followed(Genesis)
<1>1. PICK known, all :
        /\ known = LearnedFrom(mapWallet, scanned)
        /\ all \in {known, LearnedFrom(known, whole)}
        /\ Rescanned(scanned, known, all)
  BY DEF Restart
<1> DEFINE found == known \cap UNION {TxSet(b) : b \in scanned}
           missed == all \ known
           placed == found \cup missed
           lost == IF Idle THEN astray ELSE astray \cup Told
<1>2. /\ mapBlockIndex \subseteq Blocks /\ mapWallet \subseteq Txs
      /\ hashBlock \in [Txs -> Blocks \cup {NoBlock}]
  BY DEF CallInv, ChainTypes, WalletTypes
<1>3. scanned \subseteq mapBlockIndex /\ whole \subseteq mapBlockIndex
  BY ScannedIndexed
<1>4. /\ mapWallet' = all
      /\ hashBlock' = [t \in Txs |-> IF t \in found THEN LastWith(scanned, t)
                                     ELSE IF t \in missed THEN FirstWith(whole, t)
                                     ELSE hashBlock[t]]
      /\ Mark(vfSpent \cup SpentOnDisk(all)) /\ pool' \in Reaccepted(all)
      /\ locator' \in {locator, best}
      /\ astray' = (lost \ found) \cup {t \in found \cup missed : hashBlock'[t] \notin Chain[best]}
  BY <1>1 DEF Rescanned
<1> HIDE DEF scanned, whole
<1>5. mapWallet \subseteq known /\ known \subseteq Txs
  BY <1>1, <1>2, <1>3, LearnedFromFew, LearnedFromType
<1>6. known \subseteq mapWallet \cup UNION {TxSet(b) : b \in scanned}
  BY <1>1, <1>2, <1>3, LearnedFromFew
<1>7. known \subseteq all /\ all \subseteq Txs
  <2>1. known \subseteq LearnedFrom(known, whole) /\ LearnedFrom(known, whole) \subseteq Txs
    BY <1>2, <1>3, <1>5, LearnedFromFew, LearnedFromType
  <2> QED BY <1>1, <1>5, <2>1
<1>8. all \subseteq known \cup UNION {TxSet(b) : b \in whole}
  <2>1. LearnedFrom(known, whole) \subseteq known \cup UNION {TxSet(b) : b \in whole}
    BY <1>2, <1>3, LearnedFromFew
  <2> QED BY <1>1, <2>1
<1>9. ASSUME NEW t \in found
      PROVE  LastWith(scanned, t) \in mapBlockIndex /\ t \in TxSet(LastWith(scanned, t))
  <2> DEFINE S == {b \in scanned : t \in TxSet(b)}
  <2>1. S \subseteq mapBlockIndex /\ S # {}
    BY <1>3, <1>9
  <2>2. \E b \in S : \A c \in S : Height[c] <= Height[b]
    <3> HIDE DEF S
    <3> QED BY <1>2, <2>1, SomeHighest
  <2> QED BY <1>3, <2>2 DEF LastWith
<1>10. ASSUME NEW t \in missed
       PROVE  FirstWith(whole, t) \in mapBlockIndex /\ t \in TxSet(FirstWith(whole, t))
  <2> DEFINE S == {b \in whole : t \in TxSet(b)}
  <2>1. S \subseteq mapBlockIndex /\ S # {}
    BY <1>3, <1>8, <1>10
  <2>2. \E b \in S : \A c \in S : Height[b] <= Height[c]
    <3> HIDE DEF S
    <3> QED BY <1>2, <2>1, SomeHighest
  <2> QED BY <1>3, <2>2 DEF FirstWith
<1>11. placed \in SUBSET Txs
  <2>1. found \subseteq known /\ missed \subseteq all
    OBVIOUS
  <2> HIDE DEF found, missed
  <2> QED BY <1>5, <1>7, <2>1
<1>12. \A t \in placed : hashBlock'[t] \in mapBlockIndex /\ t \in TxSet(hashBlock'[t])
  <2> HIDE DEF found, missed
  <2> QED BY <1>4, <1>9, <1>10, <1>11
<1>13. \A t \in Txs \ placed : hashBlock'[t] = hashBlock[t]
  BY <1>4
<1>14. hashBlock' \in [Txs -> Blocks \cup {NoBlock}]
  <2> HIDE DEF found, missed
  <2> QED BY <1>2, <1>4, <1>9, <1>10
<1>15. all \subseteq mapWallet \cup UNION {TxSet(b) : b \in mapBlockIndex}
  BY <1>3, <1>6, <1>8
<1>16. /\ lost \ placed \subseteq astray' /\ astray' \subseteq lost \cup placed
       /\ \A t \in placed : t \notin astray' => hashBlock'[t] \in Chain[best]
  <2> HIDE DEF found, missed, lost
  <2> QED BY <1>4
<1>17. mapWallet \subseteq all
  BY <1>5, <1>7
<1> HIDE DEF placed, lost
<1> QED BY <1>4, <1>7, <1>11, <1>12, <1>13, <1>14, <1>15, <1>16, <1>17 DEF lost

-----------------------------------------------------------------------------
(* CallInv is inductive *)

LEMMA InitCall == Init => CallInv
BY TreeAssumption
   DEF Init, EmptyView, Views, CallInv, ChainTypes, WalletTypes, HistoryTypes

LEMMA AddToBlockIndexCall ==
  ASSUME CallInv, NEW b \in Blocks \ {Genesis}, AddToBlockIndex(b)
  PROVE  CallInv'
<1>1. WalletTypes' /\ HistoryTypes'
  BY DEF AddToBlockIndex, CallInv, WalletTypes, HistoryTypes, wallet, history
<1>4. pnext' \in [Blocks -> Blocks \cup {NoBlock}]
  BY DEF AddToBlockIndex, CallInv, ChainTypes
<1>2. CASE Trust[b] > Trust[best]
  <2>1. Intermediate(b) \in Chain[b] /\ b \in Chain[b] /\ Chain[b] \subseteq Blocks
    BY <1>2, SomeIntermediate, ChainEnds DEF CallInv, ChainTypes
  <2>2. goal' = b /\ target' \in {b, Intermediate(b)} /\ reached' = best /\ working' = view
    BY <1>2 DEF AddToBlockIndex
  <2>3. ChainTypes' /\ target' \in Chain[goal']
    BY <1>4, <2>1, <2>2, <1>2 DEF AddToBlockIndex, CallInv, ChainTypes
  <2> QED BY <1>1, <2>3 DEF CallInv
<1>3. CASE ~(Trust[b] > Trust[best])
  BY <1>1, <1>3, <1>4 DEF AddToBlockIndex, CallInv, ChainTypes, call
<1> QED BY <1>2, <1>3

LEMMA DisconnectBlockCall ==
  ASSUME CallInv, DisconnectBlock
  PROVE  CallInv'
<1>1. reached \in Blocks \ {Genesis}
  BY ChainEnds DEF DisconnectBlock, CallInv, ChainTypes
<1>2. WalletTypes' /\ HistoryTypes'
  BY <1>1, SyncTypes DEF DisconnectBlock, CallInv
<1>3. ChainTypes'
  <2>1. Parent[reached] \in Blocks
    BY <1>1, TreeAssumption
  <2>2. Disconnect(working, reached) \in Views
    BY <1>1, ConnectType DEF CallInv, ChainTypes
  <2>3. workingNext' \in [Blocks -> Blocks \cup {NoBlock}]
    BY <2>1 DEF DisconnectBlock, CallInv, ChainTypes
  <2> QED BY <2>1, <2>2, <2>3 DEF DisconnectBlock, CallInv, ChainTypes, database
<1> QED BY <1>2, <1>3 DEF DisconnectBlock, CallInv

LEMMA ConnectBlockCall ==
  ASSUME CallInv, ConnectBlock
  PROVE  CallInv'
<1>1. NextBlock \in Blocks
  BY NextBlockFacts DEF ConnectBlock, CallInv, ChainTypes
<1>2. WalletTypes' /\ HistoryTypes'
  <2>1. SyncBlock(NextBlock, TRUE) /\ pool' = pool
    BY DEF ConnectBlock
  <2> QED BY <1>1, <2>1, SyncTypes DEF CallInv
<1>3. ChainTypes'
  <2>1. Connect(working, NextBlock) \in Views
    BY <1>1, ConnectType DEF CallInv, ChainTypes
  <2>2. workingNext' \in [Blocks -> Blocks \cup {NoBlock}]
    BY <1>1 DEF ConnectBlock, CallInv, ChainTypes
  <2> QED BY <1>1, <2>1, <2>2 DEF ConnectBlock, CallInv, ChainTypes, database
<1> QED BY <1>2, <1>3 DEF ConnectBlock, CallInv

\* What the wallet was told of are transactions.
LEMMA ToldType ==
  ASSUME ChainTypes
  PROVE  Told \subseteq Txs
BY ChainEnds, TxSetType DEF Told, ChainTypes

LEMMA AbortReorganizeCall ==
  ASSUME CallInv, AbortReorganize
  PROVE  CallInv'
BY ToldType DEF AbortReorganize, CallInv, ChainTypes, WalletTypes, HistoryTypes, database,
                wallet

\* So are those of the blocks a reorganisation leaves behind.
LEMMA DisconnectedType ==
  ASSUME CallInv
  PROVE  UNION {TxSet(b) : b \in Chain[best] \ Chain[target]} \subseteq Txs
BY ChainEnds, TxSetType DEF CallInv, ChainTypes

LEMMA CommitBestCall ==
  ASSUME CallInv, CommitBest
  PROVE  CallInv'
<1> DEFINE new == UNION {TxSet(b) : b \in Chain[target] \ Chain[best]}
<1>1. new \subseteq Txs
  BY ChainEnds, TxSetType DEF CallInv, ChainTypes
<1>2. pool' \subseteq Txs
  <2>1. \A p \in Resurrected : p \subseteq Txs
    BY AcceptedFew, DisconnectedType DEF Resurrected, CallInv, WalletTypes
  <2>2. \/ pool' = pool \ new
        \/ \E p \in Resurrected : pool' = RemoveConflicts(p \ new, new)
    BY DEF CommitBest
  <2> QED BY <2>1, <2>2 DEF RemoveConflicts, CallInv, WalletTypes
<1>3. exposed' \subseteq Txs /\ astray' \subseteq Txs
  <2>1. exposed' = exposed \cup UNION {Inputs[t] : t \in new \ Own} /\ astray' = astray \ new
    BY DEF CommitBest
  <2> HIDE DEF new
  <2> QED BY <1>1, <2>1, TxAssumption DEF CallInv, HistoryTypes
<1>4. WalletTypes' /\ HistoryTypes'
  <2>1. locator' \in {locator, goal} /\ goal \in Blocks
    BY DEF CommitBest, CallInv, ChainTypes, Idle
  <2>2. adopted' \subseteq Blocks
    BY ChainEnds DEF CommitBest, CallInv, ChainTypes, HistoryTypes
  <2> QED BY <1>2, <1>3, <2>1, <2>2 DEF CommitBest, CallInv, WalletTypes, HistoryTypes
<1>5. target' \in Blocks /\ (goal' # NoBlock => target' \in Chain[goal'])
      /\ goal' \in Blocks \cup {NoBlock}
  <2>1. CASE target = goal
    BY <2>1 DEF CommitBest, CallInv, ChainTypes
  <2>2. CASE target # goal
    <3>1. goal \in Blocks /\ target \in Chain[goal]
      BY DEF CommitBest, CallInv, ChainTypes, Idle
    <3>2. \E b \in Chain[goal] \ {Genesis} : Parent[b] = target
      BY <2>2, <3>1, NextOnChain
    <3>3. goal' = goal /\ target' = CHOOSE b \in Chain[goal] \ {Genesis} : Parent[b] = target
      BY <2>2 DEF CommitBest
    <3>4. target' \in Chain[goal]
      BY <3>2, <3>3
    <3> QED BY <3>1, <3>3, <3>4, ChainEnds
  <2> QED BY <2>1, <2>2
<1>6. ChainTypes'
  <2>1. pnext' \in [Blocks -> Blocks \cup {NoBlock}]
    BY RelinkedType DEF CommitBest, CallInv, ChainTypes
  <2> QED BY <1>5, <2>1 DEF CommitBest, CallInv, ChainTypes
<1> QED BY <1>4, <1>5, <1>6 DEF CallInv

LEMMA CommitTransactionCall ==
  ASSUME CallInv, NEW t \in Txs, CommitTransaction(t)
  PROVE  CallInv'
<1>1. t \in Own /\ pool' \in {pool, pool \cup {t}} /\ sent' = sent \cup (pool' \ pool)
  BY DEF CommitTransaction
<1>2. vfSpent' \subseteq Txs /\ released' \subseteq Txs
  <2>1. Mark(MarkSpent(t))
    BY DEF CommitTransaction
  <2>2. MarkSpent(t) \subseteq Txs
    BY TxAssumption DEF MarkSpent, CallInv, WalletTypes
  <2> QED BY <2>1, <2>2, MarkTypes DEF CallInv, WalletTypes, HistoryTypes
<1> QED BY <1>1, <1>2
   DEF CommitTransaction, CallInv, ChainTypes, WalletTypes, HistoryTypes, database, call

LEMMA AcceptToMemoryPoolCall ==
  ASSUME CallInv, NEW t \in Txs, AcceptToMemoryPool(t)
  PROVE  CallInv'
<1>1. mapWallet' \subseteq Txs
  <2>1. <<t>> \in Seq(Txs)
    OBVIOUS
  <2> QED BY <2>1, LearnedType DEF AcceptToMemoryPool, CallInv, WalletTypes
<1> QED BY <1>1
   DEF AcceptToMemoryPool, CallInv, ChainTypes, WalletTypes, HistoryTypes, database, call,
       history

LEMMA FixSpentCoinsCall ==
  ASSUME CallInv, FixSpentCoins
  PROVE  CallInv'
<1>1. vfSpent' \subseteq Txs /\ released' \subseteq Txs
  <2>1. Mark(Fixed(view))
    BY DEF FixSpentCoins
  <2>2. Fixed(view) \subseteq Txs
    BY DEF Fixed, CallInv, WalletTypes
  <2> QED BY <2>1, <2>2, MarkTypes DEF CallInv, WalletTypes, HistoryTypes
<1> QED BY <1>1
   DEF FixSpentCoins, CallInv, ChainTypes, WalletTypes, HistoryTypes, database, call

LEMMA RestartCall ==
  ASSUME CallInv, PathInv, LinkInv, Restart
  PROVE  CallInv'
<1>1. /\ mapWallet' \subseteq Txs /\ hashBlock' \in [Txs -> Blocks \cup {NoBlock}]
      /\ locator' \in {locator, best} /\ pool' \in Reaccepted(mapWallet')
      /\ Mark(vfSpent \cup SpentOnDisk(mapWallet'))
      /\ astray' \subseteq (IF Idle THEN astray ELSE astray \cup Told) \cup Txs
  BY RestartFinds
<1>2. vfSpent' \subseteq Txs /\ released' \subseteq Txs
  <2>1. vfSpent \cup SpentOnDisk(mapWallet') \subseteq Txs
    BY <1>1 DEF SpentOnDisk, CallInv, WalletTypes
  <2> QED BY <1>1, <2>1, MarkTypes DEF CallInv, WalletTypes, HistoryTypes
<1>3. astray' \subseteq Txs
  BY <1>1, ToldType DEF CallInv, HistoryTypes
<1>4. pool' \subseteq Txs /\ sent' \subseteq Own
  <2>1. pool' \subseteq mapWallet'
    BY <1>1, AcceptedFew DEF Reaccepted
  <2> QED BY <1>1, <2>1 DEF Restart, CallInv, HistoryTypes
<1>5. WalletTypes' /\ HistoryTypes'
  BY <1>1, <1>2, <1>3, <1>4 DEF Restart, CallInv, ChainTypes, WalletTypes, HistoryTypes
<1> QED BY <1>5 DEF Restart, CallInv, ChainTypes, database

LEMMA NextCall == CallInv /\ PathInv /\ LinkInv /\ [Next]_vars => CallInv'
<1> SUFFICES ASSUME CallInv, PathInv, LinkInv, [Next]_vars PROVE CallInv'
  OBVIOUS
<1>1. CASE \E b \in Blocks \ {Genesis} : AddToBlockIndex(b)
  BY <1>1, AddToBlockIndexCall
<1>2. CASE DisconnectBlock
  BY <1>2, DisconnectBlockCall
<1>3. CASE ConnectBlock
  BY <1>3, ConnectBlockCall
<1>4. CASE AbortReorganize
  BY <1>4, AbortReorganizeCall
<1>5. CASE CommitBest
  BY <1>5, CommitBestCall
<1>6. CASE \E t \in Txs : CommitTransaction(t) \/ AcceptToMemoryPool(t)
  BY <1>6, CommitTransactionCall, AcceptToMemoryPoolCall
<1>7. CASE FixSpentCoins
  BY <1>7, FixSpentCoinsCall
<1>8. CASE Restart
  BY <1>8, RestartCall
<1>9. CASE UNCHANGED vars
  BY <1>9 DEF vars, database, call, wallet, history, CallInv, ChainTypes, WalletTypes,
              HistoryTypes
<1> QED BY <1>1, <1>2, <1>3, <1>4, <1>5, <1>6, <1>7, <1>8, <1>9 DEF Next

-----------------------------------------------------------------------------
(* Where it stands, after every step *)

LEMMA CommitBestPath ==
  ASSUME CallInv, PathInv, CommitBest
  PROVE  PathInv'
<1>1. /\ ~Idle /\ best' = target /\ reached' = target /\ mapBlockIndex' = mapBlockIndex
      /\ target \in Blocks
  BY DEF CommitBest, CallInv, ChainTypes
<1>2. target \in mapBlockIndex
  BY <1>1, IndexedPath, ChainEnds
<1>3. goal' \in {goal, NoBlock} /\ (goal' = NoBlock => Idle')
  BY DEF CommitBest, Idle
<1>4. reached' \in Chain[best']
  BY <1>1, ChainEnds
<1>5. locator' \in {locator, goal}
  BY DEF CommitBest
<1> QED BY <1>1, <1>2, <1>3, <1>4, <1>5 DEF PathInv, Idle

LEMMA NextPath == CallInv /\ PathInv /\ LinkInv /\ [Next]_vars => PathInv'
<1> SUFFICES ASSUME CallInv, PathInv, LinkInv, [Next]_vars PROVE PathInv'
  OBVIOUS
<1>1. ASSUME NEW b \in Blocks \ {Genesis}, AddToBlockIndex(b)
      PROVE  PathInv'
  <2>1. /\ mapBlockIndex' = mapBlockIndex \cup {b} /\ Parent[b] \in mapBlockIndex
        /\ best' = best /\ best \in Chain[best]
        /\ (goal' = b /\ reached' = best) \/ (goal' = goal /\ Idle)
    BY <1>1, ChainEnds DEF AddToBlockIndex, call, CallInv, ChainTypes
  <2>2. locator' = locator
    BY <1>1 DEF AddToBlockIndex, wallet
  <2>3. \E n \in Nat : \A c \in mapBlockIndex' : Height[c] <= n
    <3>1. PICK n \in Nat : \A c \in mapBlockIndex : Height[c] <= n
      BY DEF PathInv
    <3>2. Height[b] \in Nat /\ \A c \in mapBlockIndex : Height[c] \in Nat
      BY TreeAssumption DEF CallInv, ChainTypes
    <3>3. n + Height[b] \in Nat /\ \A c \in mapBlockIndex' : Height[c] <= n + Height[b]
      BY <2>1, <3>1, <3>2
    <3> QED BY <3>3
  <2> QED BY <2>1, <2>2, <2>3 DEF PathInv, Idle
<1>2. CASE DisconnectBlock
  <2>1. /\ reached \in Chain[best] /\ reached \in Blocks \ {Genesis} /\ best \in Blocks
        /\ reached \notin Chain[target]
    BY <1>2, WhereItStands DEF DisconnectBlock, CallInv, ChainTypes
  <2>2. Chain[reached] = Chain[Parent[reached]] \cup {reached} /\ Parent[reached] \in Blocks
    BY <2>1, TreeAssumption
  <2>3. Parent[reached] \in Chain[best]
    BY <2>1, <2>2, ChainBelow, ChainEnds
  <2>4. /\ ~Idle /\ reached' = Parent[reached]
        /\ UNCHANGED <<mapBlockIndex, best, goal, target, locator>>
    BY <1>2 DEF DisconnectBlock, SyncBlock, database
  <2> QED BY <2>1, <2>2, <2>3, <2>4 DEF PathInv, Idle
<1>3. CASE ConnectBlock
  <2>1. /\ NextBlock \in Chain[target] /\ Chain[NextBlock] = Chain[reached] \cup {NextBlock}
        /\ ~Idle /\ reached' = NextBlock
        /\ UNCHANGED <<mapBlockIndex, best, goal, target, locator>>
    BY <1>3, WhereItStands DEF ConnectBlock, SyncBlock, database
  <2> QED BY <2>1 DEF PathInv, Idle
<1>4. CASE AbortReorganize \/ Restart
  <2>1. Idle' /\ UNCHANGED <<mapBlockIndex, best>>
    BY <1>4 DEF AbortReorganize, Restart, Idle, database
  <2>2. locator' \in {locator, best}
    BY <1>4, RestartFinds DEF AbortReorganize, wallet
  <2> QED BY <2>1, <2>2 DEF PathInv
<1>5. CASE \/ \E t \in Txs : CommitTransaction(t) \/ AcceptToMemoryPool(t)
           \/ FixSpentCoins \/ UNCHANGED vars
  <2>1. UNCHANGED <<database, call, locator>>
    BY <1>5 DEF CommitTransaction, AcceptToMemoryPool, FixSpentCoins, vars, wallet
  <2> QED BY <2>1 DEF PathInv, Idle, database, call
<1> QED BY <1>1, <1>2, <1>3, <1>4, <1>5, CommitBestPath DEF Next

-----------------------------------------------------------------------------
(* The links are inductive *)

LEMMA AddToBlockIndexLinks ==
  ASSUME CallInv, LinkInv, NEW b \in Blocks \ {Genesis}, AddToBlockIndex(b)
  PROVE  LinkInv'
<1>1. /\ Idle /\ UNCHANGED <<dbNext, best, adopted>> /\ b \notin mapBlockIndex
      /\ mapBlockIndex' = mapBlockIndex \cup {b}
      /\ pnext' = [pnext EXCEPT ![Parent[b]] = b]
      /\ (workingNext' = dbNext /\ reached' = best) \/ Idle'
  BY DEF AddToBlockIndex, call, history, Idle
<1>2. Parent[b] \in Blocks /\ pnext \in [Blocks -> Blocks \cup {NoBlock}]
  BY TreeAssumption DEF CallInv, ChainTypes
<1>3. Proper(pnext)' /\ Apart(pnext, best)'
  BY <1>1, <1>2 DEF LinkInv, Proper, Apart
<1>4. Proper(dbNext)' /\ Apart(dbNext, best)'
  BY <1>1 DEF LinkInv, Proper, Apart
<1>5. ~Idle' => Proper(workingNext)' /\ Apart(workingNext, reached)'
  BY <1>1, <1>4 DEF Proper, Apart
<1> QED BY <1>1, <1>3, <1>4, <1>5 DEF LinkInv

LEMMA DisconnectBlockLinks ==
  ASSUME CallInv, PathInv, LinkInv, DisconnectBlock
  PROVE  LinkInv'
<1>1. /\ ~Idle /\ UNCHANGED <<pnext, dbNext, best, adopted, mapBlockIndex>>
      /\ workingNext' = [workingNext EXCEPT ![Parent[reached]] = NoBlock]
      /\ reached' = Parent[reached] /\ reached \notin Chain[target]
  BY DEF DisconnectBlock, SyncBlock, database
<1>2. /\ reached \in Blocks \ {Genesis} /\ Parent[reached] \in Blocks
      /\ Chain[reached] = Chain[Parent[reached]] \cup {reached}
      /\ workingNext \in [Blocks -> Blocks \cup {NoBlock}]
      /\ NoBlock \notin adopted
  BY <1>1, WhereItStands, TreeAssumption DEF CallInv, ChainTypes, HistoryTypes
<1>3. Proper(workingNext') /\ Apart(workingNext', Parent[reached])
  BY <1>1, <1>2 DEF LinkInv, Proper, Apart
<1> QED BY <1>1, <1>3 DEF LinkInv, Proper, Apart

LEMMA ConnectBlockLinks ==
  ASSUME CallInv, PathInv, LinkInv, ConnectBlock
  PROVE  LinkInv'
<1> DEFINE b == NextBlock
<1>1. /\ ~Idle /\ UNCHANGED <<pnext, dbNext, best, adopted, mapBlockIndex>>
      /\ workingNext' = [workingNext EXCEPT ![b] = pnext[b], ![reached] = b]
      /\ reached' = b /\ reached \in Chain[target] /\ reached # target
  BY DEF ConnectBlock, SyncBlock, database
<1>2. /\ b \in Blocks \ {Genesis} /\ Parent[b] = reached /\ reached \in Blocks
      /\ b \in mapBlockIndex /\ b \notin Chain[best]
      /\ Chain[b] = Chain[reached] \cup {b} /\ b \notin Chain[reached]
      /\ reached \in Chain[reached]
      /\ workingNext \in [Blocks -> Blocks \cup {NoBlock}]
  BY <1>1, WhereItStands, IndexedPath, ChainEnds, TreeAssumption DEF CallInv, ChainTypes
<1> HIDE DEF b
<1>3. ASSUME NEW c \in Blocks
      PROVE  workingNext'[c] = IF c = reached THEN b ELSE
                               IF c = b THEN pnext[b] ELSE workingNext[c]
  BY <1>1, <1>2
<1>4. Proper(workingNext')
  BY <1>1, <1>2, <1>3 DEF LinkInv, Proper
<1>5. Apart(workingNext', b)
  BY <1>1, <1>2, <1>3 DEF LinkInv, Apart
<1> QED BY <1>1, <1>4, <1>5 DEF LinkInv, Proper, Apart

\* Along the chain that was left the links are cleared, but for what both share.
LEMMA CommitBestLinks ==
  ASSUME CallInv, PathInv, LinkInv, CommitBest
  PROVE  LinkInv'
<1>1. /\ ~Idle /\ reached = target /\ reached' = target /\ best' = target
      /\ dbNext' = workingNext /\ workingNext' = workingNext
      /\ pnext' = Relinked(pnext, best, target)
      /\ adopted' = adopted \cup Chain[target] /\ mapBlockIndex' = mapBlockIndex
      /\ target \in Blocks /\ best \in Blocks
      /\ pnext \in [Blocks -> Blocks \cup {NoBlock}]
  BY DEF CommitBest, CallInv, ChainTypes
<1>2. Chain[target] \subseteq mapBlockIndex
  BY <1>1, IndexedPath
<1>3. Proper(workingNext) /\ Apart(workingNext, target)
  BY <1>1 DEF LinkInv
<1>4. ASSUME NEW b \in Blocks, workingNext[b] \in adopted \cup Chain[target]
      PROVE  b \in Chain[target] \ {target}
  <2>1. CASE workingNext[b] \in adopted
    BY <1>3, <2>1 DEF Apart
  <2>2. CASE workingNext[b] \in Chain[target]
    <3>1. workingNext[b] # NoBlock
      BY <1>1, <2>2, ChainEnds, TreeAssumption
    <3>2. workingNext[b] \in Chain[target] \ {Genesis} /\ Parent[workingNext[b]] = b
      BY <1>3, <2>2, <3>1 DEF Proper
    <3> QED BY <1>1, <3>2, ParentOnChain
  <2> QED BY <1>4, <2>1, <2>2
<1>5. ASSUME NEW b \in Blocks, pnext'[b] # NoBlock
      PROVE  /\ pnext'[b] \in mapBlockIndex \ {Genesis} /\ Parent[pnext'[b]] = b
             /\ pnext'[b] \in adopted \cup Chain[target] => b \in Chain[target] \ {target}
  <2>1. CASE pnext'[b] \in Chain[target] \ Chain[best] /\ Parent[pnext'[b]] = b
    <3>1. pnext'[b] \in Chain[target] \ {Genesis}
      BY <1>1, <2>1, ChainEnds
    <3> QED BY <1>1, <1>2, <2>1, <3>1, ParentOnChain
  <2>2. CASE /\ pnext'[b] = pnext[b]
             /\ \A d \in (Chain[best] \ Chain[target]) \cup (Chain[target] \ Chain[best]) :
                   Parent[d] # b
    <3>1. pnext[b] \in mapBlockIndex \ {Genesis} /\ Parent[pnext[b]] = b
      BY <1>5, <2>2 DEF LinkInv, Proper
    <3>2. CASE pnext[b] \in Chain[target]
      BY <1>1, <2>2, <3>1, <3>2, ParentOnChain
    <3>3. CASE pnext[b] \in adopted
      <4>1. b \in Chain[best] /\ b # best
        BY <3>3 DEF LinkInv, Apart
      <4>2. PICK e \in Chain[best] \ {Genesis} : Parent[e] = b
        BY <1>1, <4>1, NextOnChain
      <4>3. e \in Chain[target] \ {Genesis}
        BY <2>2, <4>2
      <4> QED BY <1>1, <2>2, <3>1, <4>2, <4>3, ParentOnChain
    <3> QED BY <2>2, <3>1, <3>2, <3>3
  <2> QED BY <1>1, <1>5, <2>1, <2>2, RelinkedTo
<1>6. NoBlock \notin adopted \cup Chain[target]
  BY <1>1, ChainEnds, TreeAssumption DEF CallInv, HistoryTypes
<1>7. Proper(pnext)' /\ Apart(pnext, best)'
  BY <1>1, <1>5, <1>6 DEF Proper, Apart
<1>8. /\ Proper(dbNext)' /\ Apart(dbNext, best)'
      /\ Proper(workingNext)' /\ Apart(workingNext, reached)'
  BY <1>1, <1>3, <1>4 DEF Proper, Apart
<1> QED BY <1>1, <1>2, <1>7, <1>8 DEF LinkInv

LEMMA NextLinks == CallInv /\ PathInv /\ LinkInv /\ [Next]_vars => LinkInv'
<1> SUFFICES ASSUME CallInv, PathInv, LinkInv, [Next]_vars PROVE LinkInv'
  OBVIOUS
<1>1. CASE \E b \in Blocks \ {Genesis} : AddToBlockIndex(b)
  BY <1>1, AddToBlockIndexLinks
<1>2. CASE AbortReorganize \/ Restart
  <2>1. /\ Idle' /\ UNCHANGED <<dbNext, best, adopted, mapBlockIndex>>
        /\ pnext' \in {pnext, dbNext}
    BY <1>2 DEF AbortReorganize, Restart, Idle, database
  <2> QED BY <2>1 DEF LinkInv, Proper, Apart
<1>3. CASE \/ \E t \in Txs : CommitTransaction(t) \/ AcceptToMemoryPool(t)
           \/ FixSpentCoins \/ UNCHANGED vars
  <2>1. UNCHANGED <<database, call, pnext, adopted>>
    BY <1>3 DEF CommitTransaction, AcceptToMemoryPool, FixSpentCoins, vars, history
  <2> QED BY <2>1 DEF LinkInv, Proper, Apart, Idle, database, call
<1> QED BY <1>1, <1>2, <1>3, DisconnectBlockLinks, ConnectBlockLinks, CommitBestLinks DEF Next

\* The three support each other: what a restart scans and what the open transaction links
\* is indexed, and where it leads is known.
LEMMA BaseInvariance == Spec => [](CallInv /\ PathInv /\ LinkInv)
<1>1. Init => PathInv /\ LinkInv
  BY TreeAssumption DEF Init, PathInv, LinkInv, Proper, Apart, Idle
<1> QED BY <1>1, InitCall, NextCall, NextPath, NextLinks, PTL DEF Spec

LEMMA CallInvariance == Spec => []CallInv
BY BaseInvariance, PTL

LEMMA PathInvariance == Spec => []PathInv
BY BaseInvariance, PTL

LEMMA LinkInvariance == Spec => []LinkInv
BY BaseInvariance, PTL

\* Type correctness, for any blocks and transactions.
THEOREM TypeCorrect == Spec => []TypeOK
BY CallInvariance, CallInvTypes, PTL

-----------------------------------------------------------------------------
(* The transaction index *)

LedgerInv ==
    /\ SoundChain(best) /\ Replays(view, best)
    /\ goal # NoBlock => SoundChain(reached) /\ Replays(working, reached)

LEMMA NextLedger == CallInv /\ LedgerInv /\ [Next]_vars => LedgerInv'
<1> SUFFICES ASSUME CallInv, LedgerInv, [Next]_vars PROVE LedgerInv'
  OBVIOUS
<1>1. ASSUME NEW b \in Blocks \ {Genesis}, AddToBlockIndex(b)
      PROVE  LedgerInv'
  BY <1>1 DEF AddToBlockIndex, LedgerInv, call, Idle
<1>2. CASE DisconnectBlock
  <2>1. reached \in Blocks \ {Genesis} /\ SoundChain(reached) /\ Replays(working, reached)
    BY <1>2, ChainEnds DEF DisconnectBlock, CallInv, ChainTypes, LedgerInv, Idle
  <2>2. SoundChain(Parent[reached]) /\ Replays(Disconnect(working, reached), Parent[reached])
    BY <2>1, SoundParent, DisconnectReplays
  <2> QED BY <1>2, <2>2 DEF DisconnectBlock, LedgerInv, database
<1>3. CASE ConnectBlock
  <2>1. NextBlock \in Blocks \ {Genesis} /\ Parent[NextBlock] = reached
    BY <1>3, NextBlockFacts DEF ConnectBlock, CallInv, ChainTypes
  <2>2. SoundChain(reached) /\ Replays(working, reached) /\ CanConnect(working, NextBlock)
    BY <1>3 DEF ConnectBlock, Connectable, LedgerInv, Idle
  <2>3. SoundChain(NextBlock) /\ Replays(Connect(working, NextBlock), NextBlock)
    BY <2>1, <2>2, ConnectSound, ConnectReplays
  <2> QED BY <1>3, <2>3 DEF ConnectBlock, LedgerInv, database
<1>4. CASE AbortReorganize
  BY <1>4 DEF AbortReorganize, LedgerInv, database
<1>5. CASE CommitBest
  BY <1>5 DEF CommitBest, LedgerInv, Idle
<1>6. ASSUME NEW t \in Txs, CommitTransaction(t) \/ AcceptToMemoryPool(t)
      PROVE  LedgerInv'
  BY <1>6 DEF CommitTransaction, AcceptToMemoryPool, LedgerInv, database, call
<1>7. CASE FixSpentCoins
  BY <1>7 DEF FixSpentCoins, LedgerInv, database, call
<1>8. CASE Restart
  BY <1>8 DEF Restart, LedgerInv, database
<1>9. CASE UNCHANGED vars
  BY <1>9 DEF vars, LedgerInv, database, call
<1> QED BY <1>1, <1>2, <1>3, <1>4, <1>5, <1>6, <1>7, <1>8, <1>9 DEF Next

LEMMA LedgerInvariance == Spec => []LedgerInv
<1>1. Init => LedgerInv
  BY GenesisReplays DEF Init, LedgerInv
<1> QED BY <1>1, NextLedger, CallInvariance, PTL DEF Spec

-----------------------------------------------------------------------------
(* The wallet's records *)

\* hashBlock names a block that holds the transaction.
RecordInv == \A t \in Txs : hashBlock[t] # NoBlock => t \in TxSet(hashBlock[t])

LEMMA SyncRecords ==
  ASSUME RecordInv, NEW b, NEW fConnect, SyncBlock(b, fConnect)
  PROVE  RecordInv'
BY DEF RecordInv, SyncBlock, Merged

LEMMA RestartRecords ==
  ASSUME CallInv, PathInv, LinkInv, RecordInv, Restart
  PROVE  RecordInv'
BY RestartFinds DEF RecordInv

LEMMA NextRecords ==
    CallInv /\ PathInv /\ LinkInv /\ RecordInv /\ [Next]_vars => RecordInv'
<1> SUFFICES ASSUME CallInv, PathInv, LinkInv, RecordInv, [Next]_vars PROVE RecordInv'
  OBVIOUS
<1>1. CASE DisconnectBlock \/ ConnectBlock
  BY <1>1, SyncRecords DEF DisconnectBlock, ConnectBlock
<1>2. CASE Restart
  BY <1>2, RestartRecords
<1>3. CASE hashBlock' = hashBlock
  BY <1>3 DEF RecordInv
<1>4. ASSUME NEW b \in Blocks \ {Genesis}, AddToBlockIndex(b)
      PROVE  hashBlock' = hashBlock
  BY <1>4 DEF AddToBlockIndex, wallet
<1>5. ASSUME NEW t \in Txs, CommitTransaction(t) \/ AcceptToMemoryPool(t)
      PROVE  hashBlock' = hashBlock
  BY <1>5 DEF CommitTransaction, AcceptToMemoryPool
<1>6. ASSUME AbortReorganize \/ CommitBest \/ FixSpentCoins \/ UNCHANGED vars
      PROVE  hashBlock' = hashBlock
  BY <1>6 DEF AbortReorganize, CommitBest, FixSpentCoins, vars, wallet
<1> QED BY <1>1, <1>2, <1>3, <1>4, <1>5, <1>6 DEF Next

LEMMA RecordInvariance == Spec => []RecordInv
<1>1. Init => RecordInv
  BY DEF Init, RecordInv
<1> QED BY <1>1, NextRecords, BaseInvariance, PTL DEF Spec

\* What the wallet counts as confirmed is confirmed by that block of the best chain,
\* or by a block beside it whose indexed child was never connected, whatever the
\* wallet was told of in reorganisations that were aborted or cut off.
THEOREM ConfirmedIsOnChainCorrect == Spec => []ConfirmedIsOnChain
<1>1. CallInv /\ LinkInv /\ LedgerInv /\ RecordInv => ConfirmedIsOnChain
  <2> SUFFICES ASSUME CallInv, LinkInv, LedgerInv, RecordInv, NEW t \in mapWallet, InChain(t)
               PROVE  \/ hashBlock[t] = view.at[t]
                      \/ hashBlock[t] \notin Chain[best] /\ pnext[hashBlock[t]] \notin adopted
    BY DEF ConfirmedIsOnChain
  <2>1. t \in Txs /\ best \in Blocks /\ hashBlock[t] \in Blocks
    BY DEF CallInv, ChainTypes, WalletTypes, InChain
  <2>2. CASE hashBlock[t] \in Chain[best]
    <3>1. t \in TxSet(hashBlock[t])
      BY <2>1, TreeAssumption DEF RecordInv
    <3>2. view.at[t] \in Chain[best] /\ t \in TxSet(view.at[t])
      BY <2>1, <2>2, <3>1 DEF LedgerInv, Replays, Confirmed
    <3> QED BY <2>1, <2>2, <3>1, <3>2, OneBlock DEF LedgerInv
  <2>3. CASE hashBlock[t] \notin Chain[best]
    BY <2>1, <2>3 DEF LinkInv, Apart
  <2> QED BY <2>2, <2>3
<1> QED BY <1>1, CallInvariance, LinkInvariance, LedgerInvariance, RecordInvariance, PTL

-----------------------------------------------------------------------------
(* What the wallet knows *)

\* It pays the wallet or spends a coin of it.
Concerns(t) == t \in Mine \/ Inputs[t] \cap Mine # {}

\* The wallet has every transaction that concerns it and is indexed, on disk or
\* in the open database transaction: it forgets nothing, so whatever a chain
\* confirms before a transaction has been told before it.
KnownInv ==
    /\ \A t \in Txs : Concerns(t) /\ view.at[t] # NoBlock => t \in mapWallet
    /\ ~Idle => \A t \in Txs : Concerns(t) /\ working.at[t] # NoBlock => t \in mapWallet

\* A restart forgets nothing, learns from indexed blocks only, offers the pool
\* what it knows and marks what the index says is spent.
LEMMA RestartKnows ==
  ASSUME CallInv, PathInv, LinkInv, Restart
  PROVE  /\ mapWallet \subseteq mapWallet'
         /\ mapWallet' \subseteq mapWallet \cup UNION {TxSet(b) : b \in mapBlockIndex}
         /\ pool' \subseteq mapWallet' /\ sent' = sent \cup (pool' \cap Own)
         /\ SpentOnDisk(mapWallet') \subseteq vfSpent'
         /\ vfSpent \cup released \subseteq vfSpent' \cup released'
<1>1. /\ mapWallet \subseteq mapWallet'
      /\ mapWallet' \subseteq mapWallet \cup UNION {TxSet(b) : b \in mapBlockIndex}
      /\ pool' \in Reaccepted(mapWallet') /\ Mark(vfSpent \cup SpentOnDisk(mapWallet'))
  BY RestartFinds
<1>2. pool' \subseteq mapWallet'
  BY <1>1, AcceptedFew DEF Reaccepted
<1>3. sent' = sent \cup (pool' \cap Own)
  BY DEF Restart
<1> QED BY <1>1, <1>2, <1>3 DEF Mark

\* The wallet hears of everything in the block that concerns it.
LEMMA ConnectBlockKnown ==
  ASSUME CallInv, PathInv, KnownInv, ConnectBlock
  PROVE  KnownInv'
<1> DEFINE b == NextBlock
<1>1. /\ mapWallet' = Learned(mapWallet, BlockTxs[b]) /\ b \in Blocks /\ ~Idle
      /\ CanConnect(working, b) /\ working' = Connect(working, b)
      /\ UNCHANGED <<view, goal>>
  BY WhereItStands DEF ConnectBlock, SyncBlock, Connectable, database
<1>2. mapWallet \subseteq mapWallet'
  BY <1>1, LearnedFew
<1>3. ASSUME NEW t \in TxSet(b), Concerns(t)
      PROVE  t \in mapWallet'
  <2>1. PICK i \in 1..Len(BlockTxs[b]) : BlockTxs[b][i] = t
    BY <1>1, TxSetType
  <2> DEFINE before == mapWallet \cup (Mine \cap Before(b, i))
  <2>2. CASE t \in Mine
    BY <1>1, <2>1, <2>2 DEF Learned, Involved
  <2>3. CASE Inputs[t] \cap Mine # {}
    <3>1. PICK o \in Inputs[t] : o \in Mine
      BY <2>3
    <3>2. o \in Before(b, i) \/ working.at[o] # NoBlock
      BY <1>1, <2>1 DEF CanConnect, InputsConnect
    <3>3. o \in before
      BY <1>1, <3>1, <3>2, WalletAssumption DEF KnownInv, Concerns
    <3>4. Involved(before, t)
      BY <3>1, <3>3 DEF Involved, IsFromMe
    <3> QED BY <1>1, <2>1, <3>4 DEF Learned, Before
  <2> QED BY <1>3, <2>2, <2>3 DEF Concerns
<1> HIDE DEF b
<1> QED BY <1>1, <1>2, <1>3 DEF KnownInv, Connect, Idle

LEMMA DisconnectBlockKnown ==
  ASSUME KnownInv, DisconnectBlock
  PROVE  KnownInv'
<1>1. mapWallet \subseteq mapWallet'
  BY LearnedFew DEF DisconnectBlock, SyncBlock
<1>2. /\ ~Idle /\ working' = Disconnect(working, reached) /\ UNCHANGED <<view, goal>>
  BY DEF DisconnectBlock, database
<1> QED BY <1>1, <1>2 DEF KnownInv, Disconnect, Idle

LEMMA NextKnown == CallInv /\ PathInv /\ LinkInv /\ KnownInv /\ [Next]_vars => KnownInv'
<1> SUFFICES ASSUME CallInv, PathInv, LinkInv, KnownInv, [Next]_vars PROVE KnownInv'
  OBVIOUS
<1>1. ASSUME NEW b \in Blocks \ {Genesis}, AddToBlockIndex(b)
      PROVE  KnownInv'
  BY <1>1 DEF AddToBlockIndex, KnownInv, Idle, call, wallet
<1>2. CASE AbortReorganize \/ CommitBest
  BY <1>2 DEF AbortReorganize, CommitBest, KnownInv, Idle, database, wallet
<1>3. ASSUME NEW t \in Txs, CommitTransaction(t) \/ AcceptToMemoryPool(t)
      PROVE  KnownInv'
  <2>1. mapWallet \subseteq mapWallet' /\ UNCHANGED <<database, call>>
    BY <1>3 DEF CommitTransaction, AcceptToMemoryPool, Learned
  <2> QED BY <2>1 DEF KnownInv, Idle, database, call
<1>4. CASE FixSpentCoins \/ UNCHANGED vars
  BY <1>4 DEF FixSpentCoins, vars, KnownInv, Idle, database, call, wallet
<1>5. CASE Restart
  BY <1>5, RestartKnows DEF Restart, KnownInv, Idle, database
<1> QED BY <1>1, <1>2, <1>3, <1>4, <1>5, ConnectBlockKnown, DisconnectBlockKnown DEF Next

LEMMA KnownInvariance == Spec => []KnownInv
<1>1. Init => KnownInv
  BY DEF Init, KnownInv, EmptyView, Idle
<1> QED BY <1>1, NextKnown, BaseInvariance, PTL DEF Spec

\* What was told while the open transaction has not been committed.
Unsettled == IF Idle THEN astray ELSE astray \cup Told

\* The records agree with the disk but for what is unsettled, and what the open
\* transaction has connected is recorded as it will be on disk.
FollowInv ==
    /\ \A t \in Txs \ Unsettled :
          Concerns(t) /\ view.at[t] # NoBlock => hashBlock[t] = view.at[t]
    /\ ~Idle => \A b \in Chain[reached] \ Chain[best] : \A t \in TxSet(b) :
          Concerns(t) => hashBlock[t] = b

\* Until it is back on the best chain, what SetBestChain passes is unsettled.
LEMMA ToldGrows ==
  ASSUME CallInv, PathInv, DisconnectBlock \/ ConnectBlock
  PROVE  /\ Told \subseteq Told'
         /\ DisconnectBlock => TxSet(reached) \subseteq Told' /\ Chain[reached'] \subseteq Chain[best]
         /\ ConnectBlock => TxSet(NextBlock) \subseteq Told'
<1>1. CASE DisconnectBlock
  <2>1. /\ reached \in Chain[best] /\ reached \in Blocks \ {Genesis} /\ best \in Blocks
        /\ reached' = Parent[reached] /\ best' = best /\ reached \notin Chain[target]
    BY <1>1, WhereItStands DEF DisconnectBlock, CallInv, ChainTypes, database
  <2>2. Chain[reached] = Chain[reached'] \cup {reached} /\ reached \notin Chain[reached']
    BY <2>1, TreeAssumption
  <2>3. Chain[reached] \subseteq Chain[best]
    BY <2>1, ChainBelow
  <2>4. ~ConnectBlock
    BY <2>1 DEF ConnectBlock
  <2> QED BY <2>1, <2>2, <2>3, <2>4 DEF Told
<1>2. CASE ConnectBlock
  <2>1. /\ NextBlock \in Chain[target] \ Chain[best] /\ reached \in Chain[target]
        /\ Chain[NextBlock] = Chain[reached] \cup {NextBlock}
        /\ reached' = NextBlock /\ best' = best
    BY <1>2, WhereItStands DEF ConnectBlock, database
  <2>2. ~DisconnectBlock
    BY <2>1 DEF DisconnectBlock
  <2>3. Chain[NextBlock] \ Chain[best] = (Chain[reached] \ Chain[best]) \cup {NextBlock}
        /\ Chain[best] \ Chain[NextBlock] = Chain[best] \ Chain[reached]
    BY <2>1
  <2>4. Told' = Told \cup TxSet(NextBlock)
    BY <2>1, <2>3 DEF Told
  <2> QED BY <2>2, <2>4
<1> QED BY <1>1, <1>2

LEMMA SyncFollows ==
  ASSUME CallInv, PathInv, LedgerInv', KnownInv', FollowInv, DisconnectBlock \/ ConnectBlock
  PROVE  FollowInv'
<1> DEFINE b == IF DisconnectBlock THEN reached ELSE NextBlock
<1>1. /\ hashBlock' = [t \in Txs |-> IF t \in TxSet(b) \cap mapWallet' THEN b ELSE hashBlock[t]]
      /\ ~Idle /\ UNCHANGED <<view, best, goal, astray>>
  BY DEF DisconnectBlock, ConnectBlock, SyncBlock, Merged, database
<1>2. Told \subseteq Told' /\ TxSet(b) \subseteq Told'
  BY ToldGrows
<1>3. Unsettled = astray \cup Told /\ Unsettled' = astray \cup Told'
  BY <1>1 DEF Unsettled, Idle
<1>4. ASSUME NEW t \in Txs \ Unsettled', Concerns(t), view.at[t] # NoBlock
      PROVE  hashBlock'[t] = view.at[t]
  BY <1>1, <1>2, <1>3, <1>4 DEF FollowInv
<1>5. ASSUME NEW c \in Chain[reached'] \ Chain[best], NEW t \in TxSet(c), Concerns(t)
      PROVE  hashBlock'[t] = c
  <2>1. ConnectBlock /\ ~DisconnectBlock
    BY <1>5, ToldGrows
  <2>2. /\ b = NextBlock /\ b \in Blocks \ {Genesis} /\ reached' = b
        /\ Chain[b] = Chain[reached] \cup {b} /\ best \in Blocks /\ reached \in Blocks
    BY <1>1, <2>1, WhereItStands DEF ConnectBlock, CallInv, ChainTypes
  <2>3. t \in Txs
    BY <2>2, TxSetType, ChainEnds
  <2>4. CASE t \in TxSet(b)
    <3>1. working'.at[t] = b /\ b # NoBlock
      BY <2>1, <2>2, <2>3, <2>4, TreeAssumption DEF ConnectBlock, Connect
    <3>2. t \in mapWallet'
      BY <1>1, <1>5, <2>3, <3>1 DEF KnownInv, Idle
    <3>3. c = b
      <4>1. SoundChain(b) /\ b \in Chain[b] /\ c \in Chain[b]
        BY <1>1, <1>5, <2>2, ChainEnds DEF LedgerInv, Idle
      <4> QED BY <1>5, <2>2, <2>4, <4>1, OneBlock
    <3> QED BY <1>1, <2>3, <2>4, <3>2, <3>3
  <2>5. CASE t \notin TxSet(b)
    BY <1>1, <1>5, <2>2, <2>3, <2>5 DEF FollowInv
  <2> QED BY <2>4, <2>5
<1> HIDE DEF b
<1> QED BY <1>1, <1>4, <1>5 DEF FollowInv, Idle

LEMMA CommitBestFollows ==
  ASSUME CallInv, LedgerInv, FollowInv, CommitBest
  PROVE  FollowInv'
<1> DEFINE new == UNION {TxSet(c) : c \in Chain[target] \ Chain[best]}
<1>1. /\ ~Idle /\ reached = target /\ reached' = target /\ best' = target
      /\ view' = working /\ hashBlock' = hashBlock /\ astray' = astray \ new
      /\ target \in Blocks /\ best \in Blocks
  BY DEF CommitBest, CallInv, ChainTypes
<1>2. /\ SoundChain(target) /\ Replays(working, target)
      /\ SoundChain(best) /\ Replays(view, best)
  BY <1>1 DEF LedgerInv, Idle
<1>3. Told' = {}
  BY <1>1 DEF Told
<1>4. ASSUME NEW t \in Txs, t \notin Unsettled', Concerns(t), working.at[t] # NoBlock
      PROVE  hashBlock[t] = working.at[t]
  <2> DEFINE c == working.at[t]
  <2>1. c \in Chain[target] /\ t \in TxSet(c)
    BY <1>2, <1>4 DEF Replays
  <2>2. CASE c \notin Chain[best]
    BY <1>1, <1>4, <2>1, <2>2 DEF FollowInv
  <2>3. CASE c \in Chain[best]
    <3>1. \A d \in Chain[target] \cup Chain[best] : t \in TxSet(d) => d = c
      BY <1>1, <1>2, <2>1, <2>3, OneBlock
    <3>2. t \notin new /\ t \notin Told
      BY <1>1, <2>1, <2>3, <3>1 DEF Told
    <3>3. t \notin Unsettled
      BY <1>1, <1>3, <1>4, <3>2 DEF Unsettled
    <3>4. view.at[t] # NoBlock /\ view.at[t] \in Chain[best] /\ t \in TxSet(view.at[t])
      BY <1>2, <2>1, <2>3 DEF Replays, Confirmed
    <3>5. view.at[t] = c
      BY <3>1, <3>4
    <3> QED BY <1>4, <3>3, <3>4, <3>5 DEF FollowInv
  <2> QED BY <2>2, <2>3
<1>5. Chain[reached'] \ Chain[best'] = {}
  BY <1>1
<1> HIDE DEF new
<1> QED BY <1>1, <1>4, <1>5 DEF FollowInv

\* What it places on the best chain it places where the index has it, and the rest
\* of what it places is astray.
LEMMA RestartFollows ==
  ASSUME CallInv, PathInv, LinkInv, LedgerInv, FollowInv, Restart
  PROVE  FollowInv'
<1>1. PICK placed \in SUBSET Txs :
        /\ \A t \in placed : t \in TxSet(hashBlock'[t])
        /\ \A t \in Txs \ placed : hashBlock'[t] = hashBlock[t]
        /\ Unsettled \ placed \subseteq astray'
        /\ \A t \in placed : t \notin astray' => hashBlock'[t] \in Chain[best]
  BY RestartFinds DEF Unsettled
<1>2. view' = view /\ Idle' /\ Unsettled' = astray' /\ best \in Blocks
  BY DEF Restart, Unsettled, database, Idle, CallInv, ChainTypes
<1>3. ASSUME NEW t \in Txs, t \notin astray', Concerns(t), view.at[t] # NoBlock
      PROVE  hashBlock'[t] = view.at[t]
  <2>1. CASE t \in placed
    <3>1. view.at[t] \in Chain[best] /\ t \in TxSet(view.at[t])
      BY <1>3 DEF LedgerInv, Replays
    <3> QED BY <1>1, <1>2, <1>3, <2>1, <3>1, OneBlock DEF LedgerInv
  <2>2. CASE t \notin placed
    BY <1>1, <1>3, <2>2 DEF FollowInv
  <2> QED BY <2>1, <2>2
<1> QED BY <1>2, <1>3 DEF FollowInv

LEMMA NextFollows ==
    /\ CallInv /\ LedgerInv /\ PathInv /\ LinkInv /\ KnownInv /\ FollowInv
    /\ LedgerInv' /\ KnownInv'
    /\ [Next]_vars
    => FollowInv'
<1> SUFFICES ASSUME CallInv, LedgerInv, PathInv, LinkInv, KnownInv, FollowInv, LedgerInv',
                    KnownInv', [Next]_vars
             PROVE  FollowInv'
  OBVIOUS
<1>1. ASSUME NEW b \in Blocks \ {Genesis}, AddToBlockIndex(b)
      PROVE  FollowInv'
  <2>1. /\ Idle /\ UNCHANGED <<view, best, hashBlock, astray>>
        /\ reached' = best \/ UNCHANGED call
    BY <1>1 DEF AddToBlockIndex, wallet, history
  <2>2. CASE reached' = best
    <3>1. Told' = {} /\ Unsettled = astray
      BY <2>1, <2>2 DEF Told, Unsettled
    <3> QED BY <2>1, <2>2, <3>1 DEF FollowInv, Unsettled
  <2>3. CASE UNCHANGED call
    BY <2>1, <2>3 DEF FollowInv, Unsettled, Idle, call
  <2> QED BY <2>1, <2>2, <2>3
<1>2. CASE AbortReorganize
  <2>1. /\ Idle' /\ astray' = Unsettled /\ UNCHANGED <<view, hashBlock>>
    BY <1>2 DEF AbortReorganize, Idle, Unsettled, database, wallet
  <2> QED BY <2>1 DEF FollowInv, Unsettled
<1>3. CASE \/ \E t \in Txs : CommitTransaction(t) \/ AcceptToMemoryPool(t)
           \/ FixSpentCoins \/ UNCHANGED vars
  <2>1. UNCHANGED <<database, call, hashBlock, astray>>
    BY <1>3 DEF CommitTransaction, AcceptToMemoryPool, FixSpentCoins, vars, wallet, history
  <2> QED BY <2>1 DEF FollowInv, Unsettled, Told, Idle, database, call
<1> QED BY <1>1, <1>2, <1>3, SyncFollows, CommitBestFollows, RestartFollows DEF Next

LEMMA FollowInvariance == Spec => []FollowInv
<1>1. Init => FollowInv
  BY DEF Init, FollowInv, EmptyView, Idle
<1> QED BY <1>1, NextFollows, BaseInvariance, LedgerInvariance, KnownInvariance, PTL DEF Spec

\* Through reorganisations, aborted or not, and restarts at any step the wallet has
\* what concerns it and knows the block it is in.
THEOREM RecordsFollowChainCorrect == Spec => []RecordsFollowChain
<1>1. KnownInv /\ FollowInv => RecordsFollowChain
  BY DEF KnownInv, FollowInv, RecordsFollowChain, Unsettled, Concerns
<1> QED BY <1>1, KnownInvariance, FollowInvariance, PTL

-----------------------------------------------------------------------------
(* What the wallet offers *)

\* A transaction of this wallet reaches others, and so a block, only after its
\* coins were marked.
OwnInv ==
    /\ sent \subseteq mapWallet /\ pool \cap Own \subseteq sent
    /\ \A b \in mapBlockIndex : TxSet(b) \cap Own \subseteq sent
    /\ \A t \in Own \cap mapWallet : Inputs[t] \subseteq vfSpent \cup released

\* A mark is only ever traded for a place among the released.
LEMMA MarkKeeps ==
  ASSUME NEW new, Mark(new)
  PROVE  vfSpent \cup released \subseteq vfSpent' \cup released' /\ new \subseteq vfSpent'
BY DEF Mark

\* What OwnInv asks of a step: nothing own is learned or pooled that was not sent.
LEMMA OwnStep ==
  ASSUME OwnInv, mapWallet \subseteq mapWallet', mapBlockIndex' = mapBlockIndex,
         sent \subseteq sent', sent' \subseteq mapWallet', pool' \cap Own \subseteq sent',
         mapWallet' \cap Own \subseteq mapWallet,
         vfSpent \cup released \subseteq vfSpent' \cup released'
  PROVE  OwnInv'
BY DEF OwnInv

LEMMA SyncOwn ==
  ASSUME CallInv, PathInv, OwnInv, DisconnectBlock \/ ConnectBlock
  PROVE  OwnInv'
<1>1. PICK b \in mapBlockIndex, fConnect \in BOOLEAN : SyncBlock(b, fConnect) /\ b \in Blocks
  <2>1. CASE DisconnectBlock
    <3>1. reached \in mapBlockIndex /\ reached \in Blocks /\ SyncBlock(reached, FALSE)
      BY <2>1, IndexedPath DEF DisconnectBlock, CallInv, ChainTypes
    <3> QED BY <3>1
  <2>2. CASE ConnectBlock
    <3>1. ~Idle /\ reached \in Chain[target] /\ reached # target /\ SyncBlock(NextBlock, TRUE)
      BY <2>2 DEF ConnectBlock
    <3>2. NextBlock \in mapBlockIndex /\ NextBlock \in Blocks
      BY <3>1, IndexedPath, WhereItStands
    <3> QED BY <3>1, <3>2
  <2> QED BY <2>1, <2>2
<1>2. /\ mapWallet \subseteq mapWallet' /\ mapWallet' \subseteq mapWallet \cup TxSet(b)
      /\ sent' = sent
  BY <1>1, LearnedFew DEF SyncBlock
<1>3. vfSpent \cup released \subseteq vfSpent' \cup released'
  BY <1>1, MarkKeeps DEF SyncBlock
<1>4. pool' = pool /\ mapBlockIndex' = mapBlockIndex
  BY DEF DisconnectBlock, ConnectBlock, database
<1>5. mapWallet' \cap Own \subseteq mapWallet
  BY <1>1, <1>2 DEF OwnInv
<1> QED BY <1>2, <1>3, <1>4, <1>5, OwnStep DEF OwnInv

LEMMA CommitBestOwn ==
  ASSUME CallInv, PathInv, OwnInv, CommitBest
  PROVE  OwnInv'
<1> DEFINE new == UNION {TxSet(b) : b \in Chain[target] \ Chain[best]}
           old == UNION {TxSet(b) : b \in Chain[best] \ Chain[target]}
<1>1. old \cap Own \subseteq sent
  BY IndexedPath DEF OwnInv
<1>2. \/ pool' = pool \ new
      \/ \E p \in Resurrected : pool' = RemoveConflicts(p \ new, new)
  BY DEF CommitBest
<1>3. \A p \in Resurrected : p \subseteq pool \cup old
  BY AcceptedFew DEF Resurrected
<1> HIDE DEF old, new
<1>4. pool' \subseteq pool \cup old
  BY <1>2, <1>3, RemovedFew
<1>5. UNCHANGED <<mapBlockIndex, mapWallet, vfSpent, released, sent>>
  BY DEF CommitBest
<1> QED BY <1>1, <1>4, <1>5 DEF OwnInv

LEMMA NextOwn == CallInv /\ PathInv /\ LinkInv /\ OwnInv /\ [Next]_vars => OwnInv'
<1> SUFFICES ASSUME CallInv, PathInv, LinkInv, OwnInv, [Next]_vars PROVE OwnInv'
  OBVIOUS
<1>1. ASSUME NEW b \in Blocks \ {Genesis}, AddToBlockIndex(b)
      PROVE  OwnInv'
  BY <1>1 DEF AddToBlockIndex, OwnInv, wallet, history
<1>2. CASE AbortReorganize \/ UNCHANGED vars
  BY <1>2 DEF AbortReorganize, vars, OwnInv, database, wallet, history
<1>3. ASSUME NEW t \in Txs, CommitTransaction(t)
      PROVE  OwnInv'
  <2>1. /\ mapWallet' = mapWallet \cup {t} /\ mapBlockIndex' = mapBlockIndex
        /\ sent' = sent \cup (pool' \ pool) /\ pool' \subseteq pool \cup {t}
        /\ Mark(MarkSpent(t))
    BY <1>3 DEF CommitTransaction, database
  <2>2. /\ vfSpent \cup released \subseteq vfSpent' \cup released'
        /\ Inputs[t] \subseteq vfSpent'
    BY <2>1, MarkKeeps DEF MarkSpent
  <2> QED BY <2>1, <2>2 DEF OwnInv
<1>4. ASSUME NEW t \in Txs, AcceptToMemoryPool(t)
      PROVE  OwnInv'
  <2>1. /\ mapWallet \subseteq mapWallet' /\ mapWallet' \subseteq mapWallet \cup {t}
        /\ pool' = pool \cup {t} /\ t \notin Own
        /\ UNCHANGED <<mapBlockIndex, vfSpent, released, sent>>
    <3>1. /\ mapWallet' = Learned(mapWallet, <<t>>) /\ pool' = pool \cup {t} /\ t \notin Own
          /\ UNCHANGED <<mapBlockIndex, vfSpent, released, sent>>
      BY <1>4 DEF AcceptToMemoryPool, database, history
    <3>2. Learned(mapWallet, <<t>>) \subseteq mapWallet \cup {t}
      <4>1. \A i \in 1..Len(<<t>>) : <<t>>[i] = t
        OBVIOUS
      <4> QED BY <4>1 DEF Learned
    <3>3. mapWallet \subseteq Learned(mapWallet, <<t>>)
      BY DEF Learned
    <3> QED BY <3>1, <3>2, <3>3
  <2> QED BY <2>1 DEF OwnInv
<1>5. CASE FixSpentCoins
  <2>1. /\ UNCHANGED <<mapBlockIndex, pool, mapWallet, sent>>
        /\ vfSpent \cup released \subseteq vfSpent' \cup released'
    BY <1>5, MarkKeeps DEF FixSpentCoins, database
  <2> QED BY <2>1 DEF OwnInv
<1>6. CASE Restart
  <2>1. Own \cap UNION {TxSet(b) : b \in mapBlockIndex} \subseteq mapWallet
    BY DEF OwnInv
  <2>2. /\ mapWallet \subseteq mapWallet' /\ mapWallet' \cap Own \subseteq mapWallet
        /\ sent \subseteq sent' /\ sent' \subseteq mapWallet' /\ pool' \cap Own \subseteq sent'
        /\ vfSpent \cup released \subseteq vfSpent' \cup released'
    BY <1>6, <2>1, RestartKnows DEF OwnInv
  <2>3. mapBlockIndex' = mapBlockIndex
    BY <1>6 DEF Restart, database
  <2> QED BY <2>2, <2>3, OwnStep
<1> QED BY <1>1, <1>2, <1>3, <1>4, <1>5, <1>6, SyncOwn, CommitBestOwn DEF Next

LEMMA OwnInvariance == Spec => []OwnInv
<1>1. Init => OwnInv
  BY TxAssumption DEF Init, OwnInv, TxSet, ToSet
<1> QED BY <1>1, NextOwn, BaseInvariance, PTL DEF Spec

\* A coin that a payment of this wallet spends is not offered for a second one,
\* unless its mark was taken back.
THEOREM OfferedOnceCorrect == Spec => []OfferedOnce
<1>1. CallInv /\ LedgerInv /\ PathInv /\ OwnInv => OfferedOnce
  <2> SUFFICES ASSUME CallInv, LedgerInv, PathInv, OwnInv, NEW o \in AvailableCoins,
                      NEW t \in Own, o \in Inputs[t], t \in pool \/ view.at[t] # NoBlock
               PROVE  o \in released
    BY DEF OfferedOnce
  <2>1. t \in Txs
    BY WalletAssumption
  <2>2. t \in sent
    <3>1. CASE t \in pool
      BY <3>1 DEF OwnInv
    <3>2. CASE view.at[t] # NoBlock
      <4>1. view.at[t] \in Chain[best] /\ t \in TxSet(view.at[t])
        BY <2>1, <3>2 DEF LedgerInv, Replays
      <4> QED BY <4>1, IndexedPath DEF OwnInv
    <3> QED BY <3>1, <3>2
  <2>3. o \notin vfSpent
    BY DEF AvailableCoins
  <2> QED BY <2>2, <2>3 DEF OwnInv
<1> QED BY <1>1, CallInvariance, LedgerInvariance, PathInvariance, OwnInvariance, PTL

\* A coin spent on disk is marked, unless its mark was taken back or others spent it.
SpentInv ==
    \A o \in Mine : view.spent[o] # NoTx => o \in vfSpent \cup exposed \cup released

\* A coin that is spent on disk is indexed, and the wallet has it.
LEMMA SpentIsKnown ==
  ASSUME CallInv, LedgerInv, KnownInv, NEW o \in Mine, view.spent[o] # NoTx
  PROVE  o \in mapWallet /\ view.at[o] # NoBlock
<1>1. o \in Txs /\ best \in Blocks /\ Replays(view, best) /\ SoundChain(best)
  BY WalletAssumption DEF CallInv, ChainTypes, LedgerInv
<1>2. view.spent[o] \in Confirmed(best) /\ o \in Inputs[view.spent[o]]
  BY <1>1 DEF Replays, SpendersOn
<1>3. o \in Confirmed(best)
  BY <1>1, <1>2, InputsConfirmed
<1> QED BY <1>1, <1>3 DEF Replays, KnownInv, Concerns

\* A block that is committed spends coins of the wallet by payments it has marked
\* them for, or by others.
LEMMA CommitBestSpent ==
  ASSUME CallInv, LedgerInv, PathInv, OwnInv, SpentInv, CommitBest
  PROVE  SpentInv'
<1>1. /\ ~Idle /\ reached = target /\ view' = working
      /\ UNCHANGED <<vfSpent, released>>
      /\ exposed \subseteq exposed'
      /\ \A c \in Chain[target] \ Chain[best] : \A s \in TxSet(c) \ Own : Inputs[s] \subseteq exposed'
  BY DEF CommitBest
<1>2. Replays(working, target) /\ Replays(view, best) /\ Chain[target] \subseteq mapBlockIndex
  BY <1>1, IndexedPath DEF LedgerInv, Idle
<1>3. ASSUME NEW o \in Mine, working.spent[o] # NoTx
      PROVE  o \in vfSpent \cup exposed' \cup released
  <2> DEFINE s == working.spent[o]
  <2>1. o \in Txs
    BY WalletAssumption
  <2>2. s \in Confirmed(target) /\ o \in Inputs[s]
    BY <1>2, <1>3, <2>1 DEF Replays, SpendersOn
  <2>3. PICK c \in Chain[target] : s \in TxSet(c)
    BY <2>2 DEF Confirmed
  <2>4. CASE c \in Chain[best]
    <3>1. view.spent[o] # NoTx
      BY <1>2, <2>1, <2>2, <2>3, <2>4 DEF Replays, SpendersOn, Confirmed
    <3> QED BY <1>1, <3>1 DEF SpentInv
  <2>5. CASE c \notin Chain[best] /\ s \in Own
    BY <1>2, <2>2, <2>3, <2>5 DEF OwnInv
  <2>6. CASE c \notin Chain[best] /\ s \notin Own
    BY <1>1, <2>2, <2>3, <2>6
  <2> QED BY <2>4, <2>5, <2>6
<1> QED BY <1>1, <1>3 DEF SpentInv

LEMMA NextSpent ==
    /\ CallInv /\ LedgerInv /\ PathInv /\ LinkInv /\ KnownInv /\ OwnInv /\ SpentInv
    /\ [Next]_vars
    => SpentInv'
<1> SUFFICES ASSUME CallInv, LedgerInv, PathInv, LinkInv, KnownInv, OwnInv, SpentInv,
                    [Next]_vars
             PROVE  SpentInv'
  OBVIOUS
<1>1. ASSUME view' = view, exposed' = exposed,
             vfSpent \cup released \subseteq vfSpent' \cup released'
      PROVE  SpentInv'
  BY <1>1 DEF SpentInv
<1>2. ASSUME NEW b \in Blocks \ {Genesis}, AddToBlockIndex(b)
      PROVE  SpentInv'
  BY <1>1, <1>2 DEF AddToBlockIndex, wallet, history
<1>3. CASE DisconnectBlock \/ ConnectBlock
  <2>1. view' = view /\ exposed' = exposed /\ \E new : Mark(new)
    BY <1>3 DEF DisconnectBlock, ConnectBlock, SyncBlock, database
  <2> QED BY <1>1, <2>1, MarkKeeps
<1>4. ASSUME NEW t \in Txs, CommitTransaction(t)
      PROVE  SpentInv'
  <2>1. view' = view /\ exposed' = exposed /\ Mark(MarkSpent(t))
    BY <1>4 DEF CommitTransaction, database
  <2> QED BY <1>1, <2>1, MarkKeeps
<1>5. ASSUME AbortReorganize \/ UNCHANGED vars \/ \E t \in Txs : AcceptToMemoryPool(t)
      PROVE  SpentInv'
  BY <1>1, <1>5 DEF AbortReorganize, AcceptToMemoryPool, vars, database, wallet, history
<1>6. CASE FixSpentCoins
  <2>1. view' = view /\ Mark(Fixed(view))
    BY <1>6 DEF FixSpentCoins, database
  <2>2. \A o \in Mine : view.spent[o] # NoTx => o \in Fixed(view)
    BY SpentIsKnown DEF Fixed
  <2> QED BY <2>1, <2>2, MarkKeeps DEF SpentInv
<1>7. CASE Restart
  <2>1. /\ view' = view /\ mapWallet \subseteq mapWallet'
        /\ SpentOnDisk(mapWallet') \subseteq vfSpent'
    BY <1>7, RestartKnows DEF Restart, database
  <2>2. \A o \in Mine : view.spent[o] # NoTx => o \in SpentOnDisk(mapWallet')
    BY <2>1, SpentIsKnown DEF SpentOnDisk
  <2> QED BY <2>1, <2>2 DEF SpentInv
<1> QED BY <1>2, <1>3, <1>4, <1>5, <1>6, <1>7, CommitBestSpent DEF Next

\* A coin the chain has spent is not offered, but for what others spent since the
\* wallet last looked it up, and marks that were taken back.
THEOREM OfferedIsUnspentCorrect == Spec => []OfferedIsUnspent
<1>1. Init => SpentInv
  BY WalletAssumption DEF Init, SpentInv, EmptyView
<1>2. SpentInv => OfferedIsUnspent
  BY DEF SpentInv, OfferedIsUnspent, AvailableCoins
<1> QED BY <1>1, <1>2, NextSpent, BaseInvariance, LedgerInvariance, KnownInvariance,
     OwnInvariance, PTL DEF Spec

=============================================================================
