---------------------------- MODULE Peers_proofs ----------------------------
(***************************************************************************)
(* The safety of what the message handler keeps for every peer: the blocks *)
(* asked of it (BlockDownload) and the transactions announced by it        *)
(* (TxRelay), for any peers, hashes, transactions and limits.  The two     *)
(* modules share no variable, and each has its own specification.          *)
(*                                                                         *)
(* BlockDownload.  Bookkeeping is inductive together with TypeOK: the      *)
(* counters stay natural numbers only because they are the lengths of the  *)
(* lists, and erasing at an iterator is defined only because the list      *)
(* holds the hash the map says it holds.  The proof splits the invariant   *)
(* by the structure it is about: the queues, the blocks in flight, and     *)
(* what relates them; what the first getdata loop has asked for is what is *)
(* in flight, whatever an orphan made the second one ask for besides.      *)
(*                                                                         *)
(* TxRelay.  The two indexes are exact and the orphans bounded; this is    *)
(* inductive with the types and the finiteness of the set of orphans.      *)
(***************************************************************************)
EXTENDS BlockDownload, TxRelay, SequenceTheorems, FiniteSetTheorems, TLAPS

-----------------------------------------------------------------------------
(* Lists *)

\* Erasing a hash from a list that holds it once leaves the others, each once.
LEMMA EraseHashProperties ==
  ASSUME NEW S, NEW list \in Seq(S), NEW h, Contains(list, h), IsInjective(list)
  PROVE  /\ EraseHash(list, h) \in Seq(S)
         /\ Len(list) > 0
         /\ Len(EraseHash(list, h)) = Len(list) - 1
         /\ IsInjective(EraseHash(list, h))
         /\ \A g : Contains(EraseHash(list, h), g) <=> Contains(list, g) /\ g # h
<1> DEFINE i == IteratorOf(list, h)
           rest == EraseHash(list, h)
<1>1. i \in 1..Len(list) /\ list[i] = h
  BY DEF Contains, IteratorOf
<1>2. \A j \in 1..Len(list) : list[j] = h => j = i
  BY <1>1 DEF IsInjective
<1> HIDE DEF i
<1> DEFINE front == SubSeq(list, 1, i - 1)
           back == SubSeq(list, i + 1, Len(list))
<1>3. /\ front \in Seq(S) /\ Len(front) = i - 1
      /\ \A j \in 1..(i - 1) : front[j] = list[j]
  BY <1>1
<1>4. /\ back \in Seq(S) /\ Len(back) = Len(list) - i
      /\ \A j \in 1..(Len(list) - i) : back[j] = list[i + j]
  BY <1>1
<1>5. rest = front \o back
  BY DEF EraseHash, RemoveAt, i
<1> HIDE DEF front, back, rest
<1>6. rest \in Seq(S) /\ Len(rest) = Len(list) - 1 /\ Len(list) > 0
  <2>1. rest \in Seq(S)
    BY <1>3, <1>4, <1>5
  <2>2. Len(rest) = Len(front) + Len(back)
    BY <1>3, <1>4, <1>5, ConcatProperties
  <2> QED BY <1>1, <1>3, <1>4, <2>1, <2>2
<1>7. /\ \A j \in 1..(i - 1) : rest[j] = list[j]
      /\ \A j \in i..(Len(list) - 1) : rest[j] = list[j + 1]
  BY <1>1, <1>3, <1>4, <1>5
<1>8. IsInjective(rest)
  <2> SUFFICES ASSUME NEW j \in 1..Len(rest), NEW k \in 1..Len(rest),
                      rest[j] = rest[k]
               PROVE  j = k
    BY <1>6 DEF IsInjective
  <2>1. \A m, n \in 1..Len(list) : list[m] = list[n] => m = n
    BY DEF IsInjective
  <2>2. j < i \/ (j >= i /\ j + 1 \in 1..Len(list))
    BY <1>1, <1>6
  <2>3. k < i \/ (k >= i /\ k + 1 \in 1..Len(list))
    BY <1>1, <1>6
  <2> QED BY <1>1, <1>6, <1>7, <2>1, <2>2, <2>3
<1>9. ASSUME NEW g PROVE Contains(rest, g) <=> Contains(list, g) /\ g # h
  <2>1. ASSUME NEW j \in 1..Len(rest), rest[j] = g
        PROVE  Contains(list, g) /\ g # h
    <3>1. CASE j < i
      BY <1>1, <1>2, <1>6, <1>7, <2>1, <3>1 DEF Contains
    <3>2. CASE j >= i
      <4>1. j + 1 \in 1..Len(list) /\ list[j + 1] = g /\ j + 1 # i
        BY <1>1, <1>6, <1>7, <2>1, <3>2
      <4> QED BY <1>2, <4>1 DEF Contains
    <3> QED BY <1>1, <1>6, <3>1, <3>2
  <2>2. ASSUME NEW j \in 1..Len(list), list[j] = g, g # h
        PROVE  Contains(rest, g)
    <3>1. CASE j < i
      BY <1>1, <1>6, <1>7, <2>2, <3>1 DEF Contains
    <3>2. CASE j > i
      <4>1. j - 1 \in 1..Len(rest) /\ rest[j - 1] = g
        BY <1>1, <1>6, <1>7, <2>2, <3>2
      <4> QED BY <4>1 DEF Contains
    <3> QED BY <1>1, <2>2, <3>1, <3>2
  <2> QED BY <2>1, <2>2 DEF Contains
<1> QED BY <1>6, <1>8, <1>9 DEF rest

\* Appending a hash a list does not hold.
LEMMA AppendHashProperties ==
  ASSUME NEW S, NEW list \in Seq(S), NEW h \in S,
         ~Contains(list, h), IsInjective(list)
  PROVE  /\ Append(list, h) \in Seq(S)
         /\ Len(Append(list, h)) = Len(list) + 1
         /\ IsInjective(Append(list, h))
         /\ \A g : Contains(Append(list, h), g) <=> Contains(list, g) \/ g = h
<1> DEFINE more == Append(list, h)
<1>1. /\ more \in Seq(S) /\ Len(more) = Len(list) + 1
      /\ \A i \in 1..Len(list) : more[i] = list[i]
      /\ more[Len(list) + 1] = h
  OBVIOUS
<1> HIDE DEF more
<1>2. \A i \in 1..Len(more) : i \in 1..Len(list) \/ i = Len(list) + 1
  BY <1>1
<1>3. IsInjective(more)
  <2>1. \A i, j \in 1..Len(list) : list[i] = list[j] => i = j
    BY DEF IsInjective
  <2>2. \A i \in 1..Len(list) : list[i] # h
    BY DEF Contains
  <2> SUFFICES ASSUME NEW i \in 1..Len(more), NEW j \in 1..Len(more),
                      more[i] = more[j]
               PROVE  i = j
    BY <1>1 DEF IsInjective
  <2> QED BY <1>1, <1>2, <2>1, <2>2
<1>4. ASSUME NEW g PROVE Contains(more, g) <=> Contains(list, g) \/ g = h
  <2>1. Contains(list, g) => Contains(more, g)
    BY <1>1 DEF Contains
  <2>2. g = h => Contains(more, g)
    BY <1>1 DEF Contains
  <2>3. Contains(more, g) => Contains(list, g) \/ g = h
    BY <1>1, <1>2 DEF Contains
  <2> QED BY <2>1, <2>2, <2>3
<1> QED BY <1>1, <1>3, <1>4 DEF more

\* The front of a list that is not empty is in it.
LEMMA HeadProperties ==
  ASSUME NEW S, NEW list \in Seq(S), Len(list) > 0
  PROVE  Head(list) \in S /\ Contains(list, Head(list))
BY DEF Contains

\* The empty list.
LEMMA EmptyProperties ==
  ASSUME NEW S
  PROVE  /\ <<>> \in Seq(S) /\ Len(<<>>) = 0 /\ IsInjective(<<>>)
         /\ \A g : ~Contains(<<>>, g)
BY DEF IsInjective, Contains

-----------------------------------------------------------------------------
(* One picture: lists, counters and the map into them *)

\* What the queues and the blocks in flight have in common.
Consistent(list, count, map) ==
    /\ list \in [Nodes -> Seq(Hashes)]
    /\ count \in [Nodes -> Nat]
    /\ map \in [Hashes -> Nodes \cup {NoNode}]
    /\ \A n \in Nodes :
         /\ count[n] = Len(list[n])
         /\ IsInjective(list[n])
         /\ \A h \in Hashes : map[h] = n <=> Contains(list[n], h)

\* A hash leaves the list the map names for it, as in MarkBlockAsReceived.
LEMMA EraseKeepsConsistent ==
  ASSUME NEW list, NEW count, NEW map, Consistent(list, count, map),
         NEW h \in Hashes, map[h] # NoNode
  PROVE  Consistent([list EXCEPT ![map[h]] = EraseHash(@, h)],
                    [count EXCEPT ![map[h]] = @ - 1],
                    [map EXCEPT ![h] = NoNode])
<1> DEFINE o == map[h]
           old == list[o]
           rest == EraseHash(old, h)
           list2 == [list EXCEPT ![o] = rest]
           count2 == [count EXCEPT ![o] = @ - 1]
           map2 == [map EXCEPT ![h] = NoNode]
<1>1. o \in Nodes /\ NoNode \notin Nodes
  BY NodesAssumption DEF Consistent
<1>2. old \in Seq(Hashes) /\ Contains(old, h) /\ IsInjective(old)
  BY <1>1 DEF Consistent
<1>3. /\ rest \in Seq(Hashes) /\ Len(old) > 0 /\ Len(rest) = Len(old) - 1
      /\ IsInjective(rest)
      /\ \A g : Contains(rest, g) <=> Contains(old, g) /\ g # h
  BY <1>2, EraseHashProperties
<1> HIDE DEF rest
<1>4. list2 \in [Nodes -> Seq(Hashes)] /\ map2 \in [Hashes -> Nodes \cup {NoNode}]
  BY <1>1, <1>3 DEF Consistent
<1>5. count[o] = Len(old) /\ count[o] \in Nat
  BY <1>1 DEF Consistent
<1>6. count2 \in [Nodes -> Nat]
  BY <1>1, <1>2, <1>3, <1>5 DEF Consistent
<1>7. ASSUME NEW n \in Nodes
      PROVE  /\ count2[n] = Len(list2[n])
             /\ IsInjective(list2[n])
             /\ \A g \in Hashes : map2[g] = n <=> Contains(list2[n], g)
  <2>1. CASE n = o
    BY <1>1, <1>3, <1>5, <2>1 DEF Consistent
  <2>2. CASE n # o
    BY <1>1, <2>2 DEF Consistent
  <2> QED BY <2>1, <2>2
<1>8. Consistent(list2, count2, map2)
  BY <1>4, <1>6, <1>7 DEF Consistent
<1> QED BY <1>8 DEF rest

\* A hash no list holds joins the end of one.
LEMMA AppendKeepsConsistent ==
  ASSUME NEW list, NEW count, NEW map, Consistent(list, count, map),
         NEW h \in Hashes, map[h] = NoNode, NEW n \in Nodes
  PROVE  Consistent([list EXCEPT ![n] = Append(@, h)],
                    [count EXCEPT ![n] = @ + 1],
                    [map EXCEPT ![h] = n])
<1> DEFINE old == list[n]
           more == Append(old, h)
           list2 == [list EXCEPT ![n] = more]
           count2 == [count EXCEPT ![n] = @ + 1]
           map2 == [map EXCEPT ![h] = n]
<1>1. NoNode \notin Nodes
  BY NodesAssumption
<1>2. old \in Seq(Hashes) /\ ~Contains(old, h) /\ IsInjective(old)
  BY <1>1 DEF Consistent
<1>3. /\ more \in Seq(Hashes) /\ Len(more) = Len(old) + 1
      /\ IsInjective(more)
      /\ \A g : Contains(more, g) <=> Contains(old, g) \/ g = h
  BY <1>2, AppendHashProperties
<1> HIDE DEF more
<1>4. /\ list2 \in [Nodes -> Seq(Hashes)] /\ count2 \in [Nodes -> Nat]
      /\ map2 \in [Hashes -> Nodes \cup {NoNode}]
  BY <1>3 DEF Consistent
<1>5. ASSUME NEW k \in Nodes
      PROVE  /\ count2[k] = Len(list2[k])
             /\ IsInjective(list2[k])
             /\ \A g \in Hashes : map2[g] = k <=> Contains(list2[k], g)
  <2>1. CASE k = n
    BY <1>1, <1>3, <2>1 DEF Consistent
  <2>2. CASE k # n
    BY <1>1, <2>2 DEF Consistent
  <2> QED BY <2>1, <2>2
<1>6. Consistent(list2, count2, map2)
  BY <1>4, <1>5 DEF Consistent
<1> QED BY <1>6 DEF more

\* map2 is map without the entries of the hashes on n's list: without those of n.
Cleared(list, map, map2, n) ==
    /\ map2 \in [Hashes -> Nodes \cup {NoNode}]
    /\ \A h \in Hashes : map2[h] = IF Contains(list[n], h) THEN NoNode ELSE map[h]

Freed(map, map2, n) ==
    \A h \in Hashes : map2[h] = IF map[h] = n THEN NoNode ELSE map[h]

\* A peer's list is dropped together with the map entries it holds, as in
\* FinalizeNode.
LEMMA ClearKeepsConsistent ==
  ASSUME NEW list, NEW count, NEW map, Consistent(list, count, map), NEW n \in Nodes,
         NEW map2, Cleared(list, map, map2, n)
  PROVE  /\ Consistent([list EXCEPT ![n] = <<>>], [count EXCEPT ![n] = 0], map2)
         /\ Freed(map, map2, n)
<1> DEFINE list2 == [list EXCEPT ![n] = <<>>]
           count2 == [count EXCEPT ![n] = 0]
<1>1. NoNode \notin Nodes
  BY NodesAssumption
<1>2. \A h \in Hashes : map2[h] = IF map[h] = n THEN NoNode ELSE map[h]
  BY DEF Consistent, Cleared
<1>3. /\ list2 \in [Nodes -> Seq(Hashes)] /\ count2 \in [Nodes -> Nat]
      /\ map2 \in [Hashes -> Nodes \cup {NoNode}]
  BY EmptyProperties DEF Consistent, Cleared
<1>4. ASSUME NEW k \in Nodes
      PROVE  /\ count2[k] = Len(list2[k])
             /\ IsInjective(list2[k])
             /\ \A g \in Hashes : map2[g] = k <=> Contains(list2[k], g)
  <2>1. CASE k = n
    BY <1>1, <1>2, <2>1, EmptyProperties DEF Consistent
  <2>2. CASE k # n
    BY <1>1, <1>2, <2>2 DEF Consistent
  <2> QED BY <2>1, <2>2
<1>5. Consistent(list2, count2, map2)
  BY <1>3, <1>4 DEF Consistent
<1> QED BY <1>2, <1>5 DEF Freed

-----------------------------------------------------------------------------
(* The invariant *)

QueueInv == Consistent(vBlocksToDownload, nBlocksToDownload, mapBlocksToDownload)
FlightInv == Consistent(vBlocksInFlight, nBlocksInFlight, mapBlocksInFlight)

\* The types of everything that is not a list, a counter or a map.
PeerTypes ==
    /\ nodes \subseteq Nodes
    /\ fDisconnect \in [Nodes -> BOOLEAN]
    /\ nMisbehavior \in [Nodes -> 0..BanScore]
    /\ fShouldBan \in [Nodes -> BOOLEAN]
    /\ have \subseteq Hashes
    /\ csMain \in Nodes \cup {NoNode}

ClockTypes ==
    /\ recvAge \in [Nodes -> 0..MaxAge] /\ recvLag \in [Nodes -> 0..MaxAge]
    /\ reqAge \in [Hashes -> 0..MaxAge] /\ reqLag \in [Hashes -> 0..MaxAge]

AskTypes ==
    /\ wantedByOrphan \in [Nodes -> SUBSET Hashes]
    /\ askedFromQueue \in [Hashes -> SUBSET Nodes]
    /\ askedForOrphan \in [Hashes -> SUBSET Nodes]

\* The peer a block is in flight from, and no other, was asked by the first loop.
InFlightIsAsked ==
    \A h \in Hashes : \A n \in Nodes : n \in askedFromQueue[h] <=> mapBlocksInFlight[h] = n

\* A peer that exists holds the getdata loops.
LoopOwner == csMain \in nodes \cup {NoNode}

IndInv ==
    /\ QueueInv
    /\ FlightInv
    /\ OwnersConnected
    /\ NotQueuedAndInFlight
    /\ PeerTypes
    /\ ClockTypes
    /\ AskTypes
    /\ InFlightIsAsked
    /\ LoopOwner

\* IndInv contains the two invariants of the runs.
LEMMA IndInvMeaning == IndInv => TypeOK /\ Bookkeeping
BY DEF IndInv, QueueInv, FlightInv, Consistent, PeerTypes, ClockTypes, AskTypes,
       TypeOK, Bookkeeping, CountersExact, QueueIterators, FlightIterators

\* MarkBlockAsReceived, in terms of one picture each.
LEMMA RemoveFromQueueKeeps ==
  ASSUME NEW h \in Hashes, QueueInv, RemoveFromQueue(h)
  PROVE  /\ QueueInv'
         /\ mapBlocksToDownload' = [mapBlocksToDownload EXCEPT ![h] = NoNode]
<1>1. CASE mapBlocksToDownload[h] = NoNode
  BY <1>1 DEF QueueInv, Consistent, RemoveFromQueue
<1>2. CASE mapBlocksToDownload[h] # NoNode
  BY <1>2, EraseKeepsConsistent DEF QueueInv, RemoveFromQueue
<1> QED BY <1>1, <1>2

LEMMA RemoveFromFlightKeeps ==
  ASSUME NEW h \in Hashes, FlightInv, RemoveFromFlight(h)
  PROVE  /\ FlightInv'
         /\ mapBlocksInFlight' = [mapBlocksInFlight EXCEPT ![h] = NoNode]
<1>1. CASE mapBlocksInFlight[h] = NoNode
  BY <1>1 DEF FlightInv, Consistent, RemoveFromFlight
<1>2. CASE mapBlocksInFlight[h] # NoNode
  BY <1>2, EraseKeepsConsistent DEF FlightInv, RemoveFromFlight
<1> QED BY <1>1, <1>2

-----------------------------------------------------------------------------
(* Init and every action *)

LEMMA InitInv == Init => IndInv
<1> SUFFICES ASSUME Init PROVE IndInv
  OBVIOUS
<1>1. QueueInv /\ FlightInv
  BY NodesAssumption, EmptyProperties DEF Init, QueueInv, FlightInv, Consistent
<1>2. OwnersConnected /\ NotQueuedAndInFlight /\ LoopOwner
  BY DEF Init, OwnersConnected, NotQueuedAndInFlight, LoopOwner
<1>3. PeerTypes /\ ClockTypes
  BY LimitsAssumption DEF Init, PeerTypes, ClockTypes, NoAges, MaxAge
<1>4. AskTypes /\ InFlightIsAsked
  BY NodesAssumption DEF Init, AskTypes, InFlightIsAsked
<1> QED BY <1>1, <1>2, <1>3, <1>4 DEF IndInv

\* Misbehaving keeps the peers' types.
LEMMA MisbehavingKeeps ==
  ASSUME NEW n \in Nodes, NEW howmuch \in Nat, PeerTypes, Misbehaving(n, howmuch)
  PROVE  /\ nMisbehavior' \in [Nodes -> 0..BanScore]
         /\ fShouldBan' \in [Nodes -> BOOLEAN]
         /\ UNCHANGED <<nodes, fDisconnect>>
<1>1. nMisbehavior[n] + howmuch \in Nat /\ BanScore \in Nat
  BY LimitsAssumption DEF PeerTypes
<1>2. nMisbehavior' \in [Nodes -> 0..BanScore]
  BY <1>1 DEF PeerTypes, Misbehaving
<1>3. fShouldBan' \in [Nodes -> BOOLEAN]
  BY DEF PeerTypes, Misbehaving
<1> QED BY <1>2, <1>3 DEF Misbehaving

\* Actions that leave the lists alone and let no peer go.
LEMMA ListsUnchangedKeeps ==
  ASSUME IndInv, UNCHANGED <<lists, askedFromQueue>>, nodes \subseteq nodes',
         PeerTypes', ClockTypes', AskTypes', LoopOwner'
  PROVE  IndInv'
<1>1. QueueInv' /\ FlightInv'
  BY DEF IndInv, QueueInv, FlightInv, lists
<1>2. OwnersConnected' /\ NotQueuedAndInFlight' /\ InFlightIsAsked'
  BY DEF IndInv, OwnersConnected, NotQueuedAndInFlight, InFlightIsAsked, lists
<1> QED BY <1>1, <1>2 DEF IndInv

\* Actions that ask nobody and make no block wanted.
LEMMA UnaskedKeeps ==
  ASSUME IndInv, UNCHANGED <<wantedByOrphan, asked>>
  PROVE  AskTypes' /\ UNCHANGED askedFromQueue
BY DEF IndInv, AskTypes, asked

LEMMA InitializeNodeKeeps ==
  ASSUME IndInv, NEW n \in Nodes, InitializeNode(n)
  PROVE  IndInv'
<1>1. PeerTypes' /\ ClockTypes' /\ LoopOwner'
  BY DEF IndInv, InitializeNode, PeerTypes, ClockTypes, LoopOwner, clocks
<1> QED BY <1>1, UnaskedKeeps, ListsUnchangedKeeps DEF InitializeNode

LEMMA CloseSocketKeeps ==
  ASSUME IndInv, NEW n \in Nodes, CloseSocketDisconnect(n)
  PROVE  IndInv'
<1>1. PeerTypes' /\ ClockTypes' /\ LoopOwner'
  BY DEF IndInv, CloseSocketDisconnect, PeerTypes, ClockTypes, LoopOwner, clocks
<1> QED BY <1>1, UnaskedKeeps, ListsUnchangedKeeps DEF CloseSocketDisconnect

LEMMA OtherMessageKeeps ==
  ASSUME IndInv, NEW n \in Nodes, NEW howmuch \in Nat, OtherMessage(n, howmuch)
  PROVE  IndInv'
<1>1. PeerTypes' /\ nodes' = nodes
  BY MisbehavingKeeps DEF IndInv, OtherMessage, PeerTypes
<1>2. ClockTypes' /\ LoopOwner'
  BY <1>1 DEF IndInv, OtherMessage, TouchLastBlockProcess, ClockTypes, LoopOwner
<1> QED BY <1>1, <1>2, UnaskedKeeps, ListsUnchangedKeeps DEF OtherMessage

LEMMA SendMessagesKeeps ==
  ASSUME IndInv, NEW n \in Nodes, SendMessages(n)
  PROVE  IndInv'
<1>1. PeerTypes' /\ ClockTypes' /\ LoopOwner'
  BY DEF IndInv, SendMessages, CanProcess, Stalling, PeerTypes, ClockTypes,
         LoopOwner, clocks
<1> QED BY <1>1, UnaskedKeeps, ListsUnchangedKeeps DEF SendMessages

LEMMA SendMessagesDoneKeeps ==
  ASSUME IndInv, NEW n \in Nodes, SendMessagesDone(n)
  PROVE  IndInv'
<1>1. PeerTypes' /\ ClockTypes' /\ LoopOwner' /\ nodes' = nodes
  BY DEF IndInv, SendMessagesDone, PeerTypes, ClockTypes, LoopOwner, clocks, peer
<1> QED BY <1>1, UnaskedKeeps, ListsUnchangedKeeps DEF SendMessagesDone

LEMMA TickKeeps ==
  ASSUME IndInv, Tick
  PROVE  IndInv'
<1>1. \A age \in 0..MaxAge : Older(age) \in 0..MaxAge
  BY DEF Older, MaxAge
<1>2. PeerTypes' /\ ClockTypes' /\ LoopOwner' /\ nodes' = nodes
  BY <1>1 DEF IndInv, Tick, PeerTypes, ClockTypes, LoopOwner, peer, MaxAge
<1> QED BY <1>2, UnaskedKeeps, ListsUnchangedKeeps DEF Tick

LEMMA FinalizeNodeKeeps ==
  ASSUME IndInv, NEW n \in Nodes, FinalizeNode(n)
  PROVE  IndInv'
<1>1. QueueInv' /\ Freed(mapBlocksToDownload, mapBlocksToDownload', n)
  <2>1. Consistent(vBlocksToDownload, nBlocksToDownload, mapBlocksToDownload)
    BY DEF IndInv, QueueInv
  <2>2. Cleared(vBlocksToDownload, mapBlocksToDownload, mapBlocksToDownload', n)
    BY DEF IndInv, QueueInv, Consistent, FinalizeNode, EraseEntriesOf, Cleared
  <2>3. /\ vBlocksToDownload' = [vBlocksToDownload EXCEPT ![n] = <<>>]
        /\ nBlocksToDownload' = [nBlocksToDownload EXCEPT ![n] = 0]
    BY DEF FinalizeNode
  <2> QED BY <2>1, <2>2, <2>3, ClearKeepsConsistent DEF QueueInv
<1>2. FlightInv' /\ Freed(mapBlocksInFlight, mapBlocksInFlight', n)
  <2>1. Consistent(vBlocksInFlight, nBlocksInFlight, mapBlocksInFlight)
    BY DEF IndInv, FlightInv
  <2>2. Cleared(vBlocksInFlight, mapBlocksInFlight, mapBlocksInFlight', n)
    BY DEF IndInv, FlightInv, Consistent, FinalizeNode, EraseEntriesOf, Cleared
  <2>3. /\ vBlocksInFlight' = [vBlocksInFlight EXCEPT ![n] = <<>>]
        /\ nBlocksInFlight' = [nBlocksInFlight EXCEPT ![n] = 0]
    BY DEF FinalizeNode
  <2> QED BY <2>1, <2>2, <2>3, ClearKeepsConsistent DEF FlightInv
<1>3. OwnersConnected' /\ NotQueuedAndInFlight'
  BY <1>1, <1>2 DEF IndInv, FinalizeNode, OwnersConnected, NotQueuedAndInFlight, Freed
<1>4. PeerTypes' /\ LoopOwner'
  BY LimitsAssumption DEF IndInv, FinalizeNode, PeerTypes, LoopOwner
<1>5. ClockTypes'
  BY DEF IndInv, FinalizeNode, ForgetReadings, ClockTypes, MaxAge
<1>6. AskTypes'
  BY DEF IndInv, FinalizeNode, AskTypes
<1>7. InFlightIsAsked'
  BY <1>2, NodesAssumption DEF IndInv, FinalizeNode, AskTypes, InFlightIsAsked, Freed
<1> QED BY <1>1, <1>2, <1>3, <1>4, <1>5, <1>6, <1>7 DEF IndInv

LEMMA InvMessageKeeps ==
  ASSUME IndInv, NEW n \in Nodes, NEW h \in Hashes, InvMessage(n, h)
  PROVE  IndInv'
<1>1. ClockTypes' /\ AskTypes' /\ UNCHANGED askedFromQueue
  BY UnaskedKeeps DEF IndInv, InvMessage, TouchLastBlockProcess, ClockTypes
<1>2. CASE h \in have \/ Assigned(h)
  <2>1. UNCHANGED <<lists, peer, have, csMain>>
    BY <1>2 DEF InvMessage, AddBlockToQueue
  <2>2. PeerTypes' /\ LoopOwner' /\ nodes' = nodes
    BY <2>1 DEF IndInv, PeerTypes, LoopOwner, peer
  <2> QED BY <1>1, <2>1, <2>2, ListsUnchangedKeeps
<1>3. CASE h \notin have /\ ~Assigned(h)
  <2>1. /\ AddBlockToQueue(n, h)
        /\ n \in nodes /\ have' = have /\ csMain' = csMain
        /\ mapBlocksToDownload[h] = NoNode /\ mapBlocksInFlight[h] = NoNode
    BY <1>3 DEF InvMessage, CanProcess, Assigned
  <2>2. /\ QueueInv'
        /\ mapBlocksToDownload' = [mapBlocksToDownload EXCEPT ![h] = n]
    BY <1>3, <2>1, AppendKeepsConsistent DEF IndInv, QueueInv, AddBlockToQueue
  <2>3. FlightInv' /\ mapBlocksInFlight' = mapBlocksInFlight
    BY <1>3, <2>1 DEF IndInv, FlightInv, AddBlockToQueue
  <2>4. PeerTypes' /\ LoopOwner' /\ nodes' = nodes
    BY <1>3, <2>1, MisbehavingKeeps DEF IndInv, AddBlockToQueue, PeerTypes, LoopOwner
  <2>5. OwnersConnected' /\ NotQueuedAndInFlight' /\ InFlightIsAsked'
    BY <1>1, <2>1, <2>2, <2>3, <2>4
       DEF IndInv, OwnersConnected, NotQueuedAndInFlight, InFlightIsAsked,
           QueueInv, Consistent
  <2> QED BY <1>1, <2>2, <2>3, <2>4, <2>5 DEF IndInv
<1> QED BY <1>2, <1>3

LEMMA BlockMessageKeeps ==
  ASSUME IndInv, NEW n \in Nodes, NEW h \in Hashes, NEW howmuch \in Nat,
         NEW haveAfter \in SUBSET Hashes, NEW wanted \in SUBSET Hashes,
         BlockMessage(n, h, haveAfter, wanted, howmuch)
  PROVE  IndInv'
<1>1. /\ QueueInv'
      /\ mapBlocksToDownload' = [mapBlocksToDownload EXCEPT ![h] = NoNode]
  BY RemoveFromQueueKeeps DEF IndInv, BlockMessage
<1>2. /\ FlightInv'
      /\ mapBlocksInFlight' = [mapBlocksInFlight EXCEPT ![h] = NoNode]
  BY RemoveFromFlightKeeps DEF IndInv, BlockMessage
<1>3. PeerTypes' /\ LoopOwner' /\ nodes' = nodes
  BY MisbehavingKeeps DEF IndInv, BlockMessage, PeerTypes, LoopOwner
<1>4. OwnersConnected' /\ NotQueuedAndInFlight'
  BY <1>1, <1>2, <1>3
     DEF IndInv, OwnersConnected, NotQueuedAndInFlight, QueueInv, FlightInv, Consistent
<1>5. ClockTypes'
  BY DEF IndInv, BlockMessage, ClockTypes, MaxAge
<1>6. AskTypes'
  BY DEF IndInv, BlockMessage, AskTypes
<1>7. InFlightIsAsked'
  BY <1>2, NodesAssumption
     DEF IndInv, BlockMessage, AskTypes, InFlightIsAsked, FlightInv, Consistent
<1> QED BY <1>1, <1>2, <1>3, <1>4, <1>5, <1>6, <1>7 DEF IndInv

\* The hash at the front of the queue is in flight from no one, so the call of
\* MarkBlockAsReceived in MarkBlockAsInFlight only takes it off the queue.
LEMMA RequestBlockEffect ==
  ASSUME IndInv, NEW n \in Nodes, RequestBlock(n)
  PROVE  LET h == Head(vBlocksToDownload[n])
         IN  /\ h \in Hashes
             /\ mapBlocksToDownload[h] = n /\ mapBlocksInFlight[h] = NoNode
             /\ vBlocksInFlight' = [vBlocksInFlight EXCEPT ![n] = Append(@, h)]
             /\ nBlocksInFlight' = [nBlocksInFlight EXCEPT ![n] = @ + 1]
             /\ mapBlocksInFlight' = [mapBlocksInFlight EXCEPT ![h] = n]
<1> DEFINE h == Head(vBlocksToDownload[n])
<1>1. vBlocksToDownload[n] \in Seq(Hashes) /\ Len(vBlocksToDownload[n]) > 0
  BY DEF RequestBlock, MayRequest, IndInv, QueueInv, Consistent
<1>2. h \in Hashes /\ mapBlocksToDownload[h] = n
  BY <1>1, HeadProperties DEF IndInv, QueueInv, Consistent
<1>3. mapBlocksInFlight[h] = NoNode
  BY <1>2, NodesAssumption DEF IndInv, NotQueuedAndInFlight
<1> QED BY <1>2, <1>3 DEF RequestBlock

LEMMA RequestBlockKeeps ==
  ASSUME IndInv, NEW n \in Nodes, RequestBlock(n)
  PROVE  IndInv'
<1> DEFINE h == Head(vBlocksToDownload[n])
<1>1. /\ h \in Hashes
      /\ mapBlocksToDownload[h] = n /\ mapBlocksInFlight[h] = NoNode
      /\ vBlocksInFlight' = [vBlocksInFlight EXCEPT ![n] = Append(@, h)]
      /\ nBlocksInFlight' = [nBlocksInFlight EXCEPT ![n] = @ + 1]
      /\ mapBlocksInFlight' = [mapBlocksInFlight EXCEPT ![h] = n]
  BY RequestBlockEffect
<1>2. /\ RemoveFromQueue(h) /\ UNCHANGED <<peer, have, csMain>> /\ csMain = n
      /\ UNCHANGED <<wantedByOrphan, askedForOrphan>>
      /\ askedFromQueue' = [askedFromQueue EXCEPT ![h] = @ \cup {n}]
      /\ reqAge' = [reqAge EXCEPT ![h] = 0] /\ reqLag' = [reqLag EXCEPT ![h] = 0]
  BY DEF RequestBlock
<1> HIDE DEF h
<1>3. ClockTypes'
  <2>2. \/ UNCHANGED <<recvAge, recvLag>>
        \/ recvAge' = [recvAge EXCEPT ![n] = 0] /\ recvLag' = [recvLag EXCEPT ![n] = 0]
    BY DEF RequestBlock
  <2>3. reqAge' \in [Hashes -> 0..MaxAge] /\ reqLag' \in [Hashes -> 0..MaxAge]
    BY <1>1, <1>2 DEF IndInv, ClockTypes, MaxAge
  <2>4. recvAge' \in [Nodes -> 0..MaxAge] /\ recvLag' \in [Nodes -> 0..MaxAge]
    BY <2>2 DEF IndInv, ClockTypes, MaxAge
  <2> QED BY <2>3, <2>4 DEF ClockTypes
<1>4. /\ QueueInv'
      /\ mapBlocksToDownload' = [mapBlocksToDownload EXCEPT ![h] = NoNode]
  BY <1>1, <1>2, RemoveFromQueueKeeps DEF IndInv
<1>5. FlightInv'
  BY <1>1, AppendKeepsConsistent DEF IndInv, FlightInv
<1>6. PeerTypes' /\ LoopOwner' /\ nodes' = nodes
  BY <1>2 DEF IndInv, PeerTypes, LoopOwner, peer
<1>7. OwnersConnected' /\ NotQueuedAndInFlight'
  BY <1>1, <1>2, <1>4, <1>6, NodesAssumption
     DEF IndInv, OwnersConnected, NotQueuedAndInFlight, LoopOwner,
         QueueInv, FlightInv, Consistent
<1>8. AskTypes'
  BY <1>1, <1>2 DEF IndInv, AskTypes
<1>9. InFlightIsAsked'
  BY <1>1, <1>2, NodesAssumption
     DEF IndInv, AskTypes, InFlightIsAsked, FlightInv, Consistent
<1> QED BY <1>3, <1>4, <1>5, <1>6, <1>7, <1>8, <1>9 DEF IndInv

LEMMA RequestWantedKeeps ==
  ASSUME IndInv, NEW n \in Nodes, NEW h \in Hashes, RequestWanted(n, h)
  PROVE  IndInv'
<1>1. PeerTypes' /\ ClockTypes' /\ LoopOwner' /\ nodes' = nodes
  BY DEF IndInv, RequestWanted, PeerTypes, ClockTypes, LoopOwner, clocks, peer
<1>2. AskTypes'
  BY DEF IndInv, RequestWanted, AskTypes
<1> QED BY <1>1, <1>2, ListsUnchangedKeeps DEF RequestWanted

LEMMA StutterKeeps == ASSUME IndInv, UNCHANGED vars PROVE IndInv'
BY DEF IndInv, QueueInv, FlightInv, OwnersConnected, NotQueuedAndInFlight,
       PeerTypes, ClockTypes, AskTypes, InFlightIsAsked, LoopOwner,
       vars, lists, clocks, peer, asked

-----------------------------------------------------------------------------
(* The theorems *)

\* Case distinction over the actions.
LEMMA NextCases ==
  ASSUME Next, NEW P,
         Tick => P,
         \A n \in Nodes :
           /\ InitializeNode(n) => P
           /\ CloseSocketDisconnect(n) => P
           /\ FinalizeNode(n) => P
           /\ SendMessages(n) => P
           /\ RequestBlock(n) => P
           /\ SendMessagesDone(n) => P
           /\ \A howmuch \in Nat : OtherMessage(n, howmuch) => P
           /\ \A h \in Hashes : InvMessage(n, h) => P
           /\ \A h \in Hashes : RequestWanted(n, h) => P
           /\ \A h \in Hashes, haveAfter, wanted \in SUBSET Hashes, howmuch \in Nat :
                 BlockMessage(n, h, haveAfter, wanted, howmuch) => P,
         have \subseteq Hashes
  PROVE  P
<1>1. 0 \in Nat /\ BanScore \in Nat /\ 0..1 \subseteq Nat
  BY LimitsAssumption
<1>2. \A h \in Hashes : /\ ProcessBlockOutcomes(h) \subseteq SUBSET Hashes
                         /\ \A after : MissingBelow(h, after) \subseteq SUBSET Hashes
  BY AncestorsAssumption DEF ProcessBlockOutcomes, MissingBelow
<1>3. {} \in SUBSET Hashes
  OBVIOUS
<1> QED BY <1>1, <1>2, <1>3 DEF Next, NodeStep

\* IndInv is inductive.
LEMMA NextInv == IndInv /\ [Next]_vars => IndInv'
<1> SUFFICES ASSUME IndInv, [Next]_vars PROVE IndInv'
  OBVIOUS
<1>1. CASE Next
  <2>1. Tick => IndInv'
    BY TickKeeps
  <2>2. ASSUME NEW n \in Nodes
        PROVE  /\ InitializeNode(n) => IndInv'
               /\ CloseSocketDisconnect(n) => IndInv'
               /\ FinalizeNode(n) => IndInv'
               /\ SendMessages(n) => IndInv'
               /\ RequestBlock(n) => IndInv'
               /\ SendMessagesDone(n) => IndInv'
               /\ \A howmuch \in Nat : OtherMessage(n, howmuch) => IndInv'
               /\ \A h \in Hashes : InvMessage(n, h) => IndInv'
               /\ \A h \in Hashes : RequestWanted(n, h) => IndInv'
               /\ \A h \in Hashes, haveAfter, wanted \in SUBSET Hashes, howmuch \in Nat :
                     BlockMessage(n, h, haveAfter, wanted, howmuch) => IndInv'
    BY InitializeNodeKeeps, CloseSocketKeeps, FinalizeNodeKeeps, SendMessagesKeeps,
       RequestBlockKeeps, RequestWantedKeeps, SendMessagesDoneKeeps, OtherMessageKeeps, InvMessageKeeps,
       BlockMessageKeeps
  <2>3. have \subseteq Hashes
    BY DEF IndInv, PeerTypes
  <2> QED BY <1>1, <2>1, <2>2, <2>3, NextCases
<1>2. CASE UNCHANGED vars
  BY <1>2, StutterKeeps
<1> QED BY <1>1, <1>2

LEMMA Invariance == Spec => []IndInv
<1> QED BY InitInv, NextInv, PTL DEF Spec

\* Every variable of the download bookkeeping keeps its type; for the counters
\* this rests on Bookkeeping.
THEOREM TypeCorrect == Spec => []TypeOK
<1>1. IndInv => TypeOK
  BY IndInvMeaning
<1> QED BY <1>1, Invariance, PTL

\* Whatever the peers send and whenever connections close, the maps and the
\* lists agree: MarkBlockAsReceived and FinalizeNode never follow a dangling
\* iterator nor a NULL CNodeState, and no block is both queued and in flight.
THEOREM BookkeepingCorrect == Spec => []Bookkeeping
<1>1. IndInv => Bookkeeping
  BY IndInvMeaning
<1> QED BY <1>1, Invariance, PTL

-----------------------------------------------------------------------------
(* The limit on the blocks in flight *)

\* Erasing one hash does not lengthen any list in flight.
LEMMA RemoveFromFlightShortens ==
  ASSUME IndInv, NEW h \in Hashes, RemoveFromFlight(h), InFlightLimit
  PROVE  InFlightLimit'
<1> DEFINE o == mapBlocksInFlight[h]
<1>1. CASE o = NoNode
  BY <1>1 DEF RemoveFromFlight, InFlightLimit
<1>2. CASE o # NoNode
  <2>1. /\ o \in Nodes /\ vBlocksInFlight[o] \in Seq(Hashes)
        /\ Contains(vBlocksInFlight[o], h) /\ IsInjective(vBlocksInFlight[o])
    BY <1>2 DEF IndInv, FlightInv, Consistent
  <2>2. /\ EraseHash(vBlocksInFlight[o], h) \in Seq(Hashes)
        /\ Len(EraseHash(vBlocksInFlight[o], h)) = Len(vBlocksInFlight[o]) - 1
    BY <2>1, EraseHashProperties
  <2>3. vBlocksInFlight' =
            [vBlocksInFlight EXCEPT ![o] = EraseHash(vBlocksInFlight[o], h)]
    BY <1>2 DEF RemoveFromFlight
  <2>4. vBlocksInFlight \in [Nodes -> Seq(Hashes)] /\ MaxInTransit \in Nat
    BY LimitsAssumption DEF IndInv, FlightInv, Consistent
  <2> HIDE DEF o
  <2>5. ASSUME NEW n \in Nodes
        PROVE  Len(vBlocksInFlight'[n]) <= MaxInTransit
    <3>1. Len(vBlocksInFlight[n]) <= MaxInTransit /\ Len(vBlocksInFlight[n]) \in Nat
      BY <2>4 DEF InFlightLimit
    <3> QED BY <2>1, <2>2, <2>3, <2>4, <3>1
  <2> QED BY <2>5 DEF InFlightLimit
<1> QED BY <1>1, <1>2

LEMMA LimitKept == IndInv /\ InFlightLimit /\ [Next]_vars => InFlightLimit'
<1> SUFFICES ASSUME IndInv, InFlightLimit, [Next]_vars PROVE InFlightLimit'
  OBVIOUS
<1>1. UNCHANGED vBlocksInFlight => InFlightLimit'
  BY DEF InFlightLimit
<1>2. CASE Next
  <2>1. Tick => InFlightLimit'
    BY <1>1 DEF Tick, lists
  <2>2. ASSUME NEW n \in Nodes
        PROVE  /\ InitializeNode(n) => InFlightLimit'
               /\ CloseSocketDisconnect(n) => InFlightLimit'
               /\ FinalizeNode(n) => InFlightLimit'
               /\ SendMessages(n) => InFlightLimit'
               /\ RequestBlock(n) => InFlightLimit'
               /\ SendMessagesDone(n) => InFlightLimit'
               /\ \A howmuch \in Nat : OtherMessage(n, howmuch) => InFlightLimit'
               /\ \A h \in Hashes : InvMessage(n, h) => InFlightLimit'
               /\ \A h \in Hashes : RequestWanted(n, h) => InFlightLimit'
               /\ \A h \in Hashes, haveAfter, wanted \in SUBSET Hashes, howmuch \in Nat :
                     BlockMessage(n, h, haveAfter, wanted, howmuch) => InFlightLimit'
    <3>1. /\ InitializeNode(n) => InFlightLimit'
          /\ CloseSocketDisconnect(n) => InFlightLimit'
          /\ SendMessages(n) => InFlightLimit'
          /\ SendMessagesDone(n) => InFlightLimit'
          /\ \A howmuch \in Nat : OtherMessage(n, howmuch) => InFlightLimit'
          /\ \A h \in Hashes : RequestWanted(n, h) => InFlightLimit'
      BY <1>1 DEF InitializeNode, CloseSocketDisconnect, SendMessages,
                  SendMessagesDone, OtherMessage, RequestWanted, lists
    <3>2. \A h \in Hashes : InvMessage(n, h) => InFlightLimit'
      BY <1>1 DEF InvMessage, AddBlockToQueue, lists
    <3>3. \A h \in Hashes, haveAfter, wanted \in SUBSET Hashes, howmuch \in Nat :
             BlockMessage(n, h, haveAfter, wanted, howmuch) => InFlightLimit'
      BY RemoveFromFlightShortens DEF BlockMessage
    <3>4. ASSUME FinalizeNode(n) PROVE InFlightLimit'
      <4>1. /\ vBlocksInFlight' = [vBlocksInFlight EXCEPT ![n] = <<>>]
            /\ Len(<<>>) <= MaxInTransit
        BY <3>4, LimitsAssumption DEF FinalizeNode
      <4> QED BY <4>1 DEF InFlightLimit, IndInv, FlightInv, Consistent
    <3>5. ASSUME RequestBlock(n) PROVE InFlightLimit'
      <4> DEFINE h == Head(vBlocksToDownload[n])
      <4>1. h \in Hashes /\ vBlocksInFlight' = [vBlocksInFlight EXCEPT ![n] = Append(@, h)]
        BY <3>5, RequestBlockEffect
      <4> HIDE DEF h
      <4>2. /\ vBlocksInFlight \in [Nodes -> Seq(Hashes)]
            /\ Len(vBlocksInFlight[n]) < MaxInTransit
            /\ MaxInTransit \in Nat
        BY <3>5, LimitsAssumption
           DEF RequestBlock, MayRequest, IndInv, FlightInv, Consistent
      <4>3. Len(Append(vBlocksInFlight[n], h)) = Len(vBlocksInFlight[n]) + 1
        BY <4>1, <4>2
      <4>4. Len(Append(vBlocksInFlight[n], h)) <= MaxInTransit
        BY <4>2, <4>3
      <4> QED BY <4>1, <4>2, <4>4 DEF InFlightLimit
    <3> QED BY <3>1, <3>2, <3>3, <3>4, <3>5
  <2>3. have \subseteq Hashes
    BY DEF IndInv, PeerTypes
  <2> QED BY <1>2, <2>1, <2>2, <2>3, NextCases
<1>3. CASE UNCHANGED vars
  BY <1>1, <1>3 DEF vars, lists
<1> QED BY <1>2, <1>3

\* At no time is a peer asked for more than MAX_BLOCKS_IN_TRANSIT_PER_PEER
\* blocks: the loop tests the counter, which Bookkeeping ties to the list.
THEOREM LimitCorrect == Spec => []InFlightLimit
<1>1. Init => InFlightLimit
  BY LimitsAssumption, EmptyProperties DEF Init, InFlightLimit
<1> QED BY <1>1, LimitKept, Invariance, PTL DEF Spec

-----------------------------------------------------------------------------
(* What a step may never do *)

\* The steps of WantedUntilReceived.
StaysWanted ==
    \A h \in Hashes :
       Assigned(h) /\ ~Assigned(h)' =>
          \/ \E n \in nodes, after, wanted \in SUBSET Hashes, k \in {0, BanScore} :
                  BlockMessage(n, h, after, wanted, k)
          \/ \E n \in nodes \ nodes' : n \in {mapBlocksToDownload[h], mapBlocksInFlight[h]}

LEMMA UnchangedKeepsWanted ==
  ASSUME UNCHANGED <<mapBlocksToDownload, mapBlocksInFlight>>
  PROVE  StaysWanted
BY DEF StaysWanted, Assigned

LEMMA StepsKeepWanted ==
  IndInv /\ [Next]_vars => StaysWanted
<1> DEFINE P == StaysWanted
<1> SUFFICES ASSUME IndInv, [Next]_vars PROVE P
  OBVIOUS
<1>1. CASE Next
  <2>1. Tick => P
    BY UnchangedKeepsWanted DEF Tick, lists
  <2>2. ASSUME NEW n \in Nodes
        PROVE  /\ InitializeNode(n) => P
               /\ CloseSocketDisconnect(n) => P
               /\ SendMessages(n) => P
               /\ SendMessagesDone(n) => P
               /\ \A howmuch \in Nat : OtherMessage(n, howmuch) => P
               /\ \A h \in Hashes : RequestWanted(n, h) => P
    BY UnchangedKeepsWanted
       DEF InitializeNode, CloseSocketDisconnect, SendMessages, SendMessagesDone,
           OtherMessage, RequestWanted, lists
  <2>3. ASSUME NEW n \in Nodes, FinalizeNode(n)
        PROVE  P
    <3>1. /\ Freed(mapBlocksToDownload, mapBlocksToDownload', n)
          /\ Freed(mapBlocksInFlight, mapBlocksInFlight', n)
      BY <2>3 DEF FinalizeNode, EraseEntriesOf, IndInv, QueueInv, FlightInv,
                  Consistent, Freed
    <3>2. n \in nodes \ nodes'
      BY <2>3 DEF FinalizeNode
    <3> QED BY <3>1, <3>2 DEF StaysWanted, Assigned, Freed
  <2>4. ASSUME NEW n \in Nodes, RequestBlock(n)
        PROVE  P
    <3> DEFINE h == Head(vBlocksToDownload[n])
    <3>1. /\ h \in Hashes /\ mapBlocksInFlight[h] = NoNode
          /\ mapBlocksInFlight' = [mapBlocksInFlight EXCEPT ![h] = n]
          /\ mapBlocksInFlight \in [Hashes -> Nodes \cup {NoNode}]
      BY <2>4, RequestBlockEffect DEF IndInv, FlightInv, Consistent
    <3>2. mapBlocksToDownload' = [mapBlocksToDownload EXCEPT ![h] = NoNode]
      BY <2>4, <3>1, RemoveFromQueueKeeps DEF RequestBlock, IndInv
    <3>3. mapBlocksToDownload \in [Hashes -> Nodes \cup {NoNode}] /\ n # NoNode
      BY NodesAssumption DEF IndInv, QueueInv, Consistent
    <3> HIDE DEF h
    <3> QED BY <3>1, <3>2, <3>3 DEF StaysWanted, Assigned
  <2>5. ASSUME NEW n \in Nodes, NEW h \in Hashes, InvMessage(n, h)
        PROVE  P
    <3>1. CASE h \in have \/ Assigned(h)
      BY <2>5, <3>1, UnchangedKeepsWanted DEF InvMessage, AddBlockToQueue, lists
    <3>2. CASE h \notin have /\ ~Assigned(h)
      <4>1. /\ mapBlocksToDownload' = [mapBlocksToDownload EXCEPT ![h] = n]
            /\ mapBlocksInFlight' = mapBlocksInFlight
            /\ mapBlocksToDownload \in [Hashes -> Nodes \cup {NoNode}]
            /\ n # NoNode
        BY <2>5, <3>2, NodesAssumption
           DEF InvMessage, AddBlockToQueue, IndInv, QueueInv, Consistent
      <4> QED BY <4>1 DEF StaysWanted, Assigned
    <3> QED BY <3>1, <3>2
  <2>6. ASSUME NEW n \in Nodes, NEW h \in Hashes, NEW haveAfter \in SUBSET Hashes,
               NEW wanted \in SUBSET Hashes, NEW howmuch \in {0, BanScore},
               BlockMessage(n, h, haveAfter, wanted, howmuch)
        PROVE  P
    <3>1. /\ mapBlocksToDownload' = [mapBlocksToDownload EXCEPT ![h] = NoNode]
          /\ mapBlocksInFlight' = [mapBlocksInFlight EXCEPT ![h] = NoNode]
          /\ mapBlocksToDownload \in [Hashes -> Nodes \cup {NoNode}]
          /\ mapBlocksInFlight \in [Hashes -> Nodes \cup {NoNode}]
      BY <2>6, RemoveFromQueueKeeps, RemoveFromFlightKeeps
         DEF BlockMessage, IndInv, QueueInv, FlightInv, Consistent
    <3>2. n \in nodes
      BY <2>6 DEF BlockMessage, CanProcess
    <3> SUFFICES ASSUME NEW g \in Hashes, Assigned(g), ~Assigned(g)'
                 PROVE  g = h
      BY <2>6, <3>2 DEF StaysWanted
    <3> QED BY <3>1 DEF Assigned
  <2>7. /\ \A h \in Hashes : /\ ProcessBlockOutcomes(h) \subseteq SUBSET Hashes
                             /\ \A after : MissingBelow(h, after) \subseteq SUBSET Hashes
        /\ have \in SUBSET Hashes /\ {} \in SUBSET Hashes /\ 0..1 \subseteq Nat
    BY AncestorsAssumption DEF ProcessBlockOutcomes, MissingBelow, IndInv, PeerTypes
  <2> HIDE DEF P
  <2> QED BY <1>1, <2>1, <2>2, <2>3, <2>4, <2>5, <2>6, <2>7 DEF Next, NodeStep
<1>2. CASE UNCHANGED vars
  BY <1>2, UnchangedKeepsWanted DEF vars, lists
<1> QED BY <1>1, <1>2

\* Of two peers that owe the same block, one at least was asked only because
\* an orphan it sent wanted that block: what the first loop asked for is what
\* is in flight, and the block at the front of a queue is not in flight.
THEOREM NoDoubleRequestCorrect == Spec => []NoDoubleRequest
<1>1. IndInv => NoDoubleRequest
  BY DEF IndInv, AskTypes, InFlightIsAsked, NoDoubleRequest
<1> QED BY <1>1, Invariance, PTL

\* A wanted block stops being wanted only by arriving or with its peer:
\* no other message, no ban and no other peer's disconnect can lose it.
THEOREM WantedUntilReceivedCorrect == Spec => WantedUntilReceived
<1>1. IndInv /\ [Next]_vars => [StaysWanted]_vars
  BY StepsKeepWanted
<1> QED BY <1>1, Invariance, PTL DEF Spec, WantedUntilReceived, StaysWanted


-----------------------------------------------------------------------------
(* Loose transactions: TxRelay *)


FiniteOrphans == IsFiniteSet(mapOrphanTransactions)

RelayInv ==
    /\ RelayTypeOK /\ PoolIndexExact /\ OrphanIndexExact
    /\ FiniteOrphans /\ OrphanTransactionsBounded

-----------------------------------------------------------------------------
(* The pool *)

\* next is the index of held.
Exact(held, next) == \A o, t \in Txs : next[o] = t <=> t \in held /\ o \in Inputs[t]

\* Whatever remove takes away, the index stays exact.
LEMMA RemoveExact ==
  ASSUME NEW held \in SUBSET Loose, NEW next \in [Txs -> Txs \cup {NoTx}], NEW gone,
         Exact(held, next), RemoveTxs(held, next, gone)
  PROVE  /\ PoolIndexExact'
         /\ mapTx' \subseteq Loose
         /\ mapNextTx' \in [Txs -> Txs \cup {NoTx}]
<1> USE TxRelayAssumption
<1>1. /\ mapTx' = held \ gone
      /\ mapNextTx' = [o \in Txs |-> IF \E u \in gone \cap held : o \in Inputs[u]
                                     THEN NoTx ELSE next[o]]
  BY DEF RemoveTxs
<1>2. mapTx' \subseteq Loose /\ mapNextTx' \in [Txs -> Txs \cup {NoTx}]
  BY <1>1
<1>3. ASSUME NEW o \in Txs, NEW t \in Txs
      PROVE  mapNextTx'[o] = t <=> t \in mapTx' /\ o \in Inputs[t]
  <2>1. CASE \E u \in gone \cap held : o \in Inputs[u]
    <3>1. PICK u \in gone \cap held : o \in Inputs[u]
      BY <2>1
    <3>2. u \in Txs /\ next[o] = u
      BY <3>1 DEF Exact, Loose
    <3>3. mapNextTx'[o] = NoTx
      BY <1>1, <2>1
    <3>4. ~(t \in mapTx' /\ o \in Inputs[t])
      BY <1>1, <3>1, <3>2 DEF Exact
    <3> QED BY <3>3, <3>4
  <2>2. CASE ~\E u \in gone \cap held : o \in Inputs[u]
    <3>1. mapNextTx'[o] = next[o]
      BY <1>1, <2>2
    <3> QED BY <1>1, <2>2, <3>1 DEF Exact
  <2> QED BY <2>1, <2>2
<1> QED BY <1>2, <1>3 DEF PoolIndexExact

\* The index next with t entered as the spender of its inputs.
SpentBy(next, t) == [o \in Txs |-> IF o \in Inputs[t] THEN t ELSE next[o]]

\* A transaction whose inputs nothing in the pool spends may be added.
LEMMA AddExact ==
  ASSUME NEW held \in SUBSET Loose, NEW next \in [Txs -> Txs \cup {NoTx}],
         NEW t \in Loose, Exact(held, next), \A o \in Inputs[t] : next[o] = NoTx
  PROVE  /\ held \cup {t} \in SUBSET Loose
         /\ SpentBy(next, t) \in [Txs -> Txs \cup {NoTx}]
         /\ Exact(held \cup {t}, SpentBy(next, t))
BY TxRelayAssumption DEF Exact, Loose, SpentBy

\* The pool, step by step.
LEMMA PoolStep ==
  ASSUME RelayInv, [RelayNext]_relayVars
  PROVE  /\ PoolIndexExact'
         /\ mapTx' \subseteq Loose
         /\ mapNextTx' \in [Txs -> Txs \cup {NoTx}]
<1> USE TxRelayAssumption
<1>0. /\ mapTx \in SUBSET Loose /\ mapNextTx \in [Txs -> Txs \cup {NoTx}]
      /\ Exact(mapTx, mapNextTx)
  BY DEF RelayInv, RelayTypeOK, PoolIndexExact, Exact
<1>1. CASE UNCHANGED pool
  BY <1>0, <1>1 DEF pool, PoolIndexExact, Exact
<1>2. ASSUME NEW t \in Loose, addUnchecked(t), Candidate(t)
      PROVE  /\ PoolIndexExact'
             /\ mapTx' \subseteq Loose
             /\ mapNextTx' \in [Txs -> Txs \cup {NoTx}]
  <2>1. /\ mapTx' = mapTx \cup {t}
        /\ mapNextTx' = [o \in Txs |-> IF o \in Inputs[t] THEN t ELSE mapNextTx[o]]
        /\ \A o \in Inputs[t] : mapNextTx[o] = NoTx
    BY <1>2 DEF addUnchecked, Candidate
  <2>2. Exact(mapTx', mapNextTx') /\ mapTx' \in SUBSET Loose
        /\ mapNextTx' \in [Txs -> Txs \cup {NoTx}]
    <3>1. mapNextTx' = SpentBy(mapNextTx, t)
      BY <2>1 DEF SpentBy
    <3>2. \A o \in Inputs[t] : mapNextTx[o] = NoTx
      BY <2>1
    <3>3. /\ mapTx \cup {t} \in SUBSET Loose
          /\ SpentBy(mapNextTx, t) \in [Txs -> Txs \cup {NoTx}]
          /\ Exact(mapTx \cup {t}, SpentBy(mapNextTx, t))
      BY <1>0, <3>2, AddExact
    <3>4. mapTx' = mapTx \cup {t}
      BY <2>1
    <3> QED BY <3>1, <3>3, <3>4
  <2> QED BY <2>2 DEF PoolIndexExact, Exact
<1>3. CASE \E t \in Loose : Tx(t) \/ SendRawTransaction(t)
  BY <1>1, <1>2, <1>3 DEF Tx, SendRawTransaction, Acceptable
<1>4. CASE \E t \in Loose : ConnectBlock(t)
  BY <1>0, <1>4, RemoveExact DEF ConnectBlock
<1>5. CASE \E t \in Loose, new \in {{}} \cup {{u} : u \in Loose} : Reorganize(t, new)
  <2>1. PICK t \in Loose, new \in {{}} \cup {{u} : u \in Loose} : Reorganize(t, new)
    BY <1>5
  <2> DEFINE left == disk \ {t}
             returns == /\ Connects(left \cup new, t) /\ t \notin mapTx
                        /\ \A o \in Inputs[t] : mapNextTx[o] = NoTx
             held == mapTx \cup IF returns THEN {t} ELSE {}
             next == [o \in Txs |-> IF returns /\ o \in Inputs[t] THEN t ELSE mapNextTx[o]]
  <2>2. PICK gone : RemoveTxs(held, next, gone)
    BY <2>1 DEF Reorganize
  <2>3. held \in SUBSET Loose /\ next \in [Txs -> Txs \cup {NoTx}] /\ Exact(held, next)
    <3>1. CASE returns
      <4>1. held = mapTx \cup {t} /\ next = SpentBy(mapNextTx, t)
        BY <3>1 DEF SpentBy
      <4>2. \A o \in Inputs[t] : mapNextTx[o] = NoTx
        BY <3>1
      <4> HIDE DEF held, next, returns
      <4> QED BY <1>0, <4>1, <4>2, AddExact
    <3>2. CASE ~returns
      <4>1. held = mapTx /\ next = mapNextTx
        BY <1>0, <3>2
      <4> QED BY <1>0, <4>1
    <3> QED BY <3>1, <3>2
  <2> HIDE DEF held, next
  <2> QED BY <2>2, <2>3, RemoveExact
<1>6. CASE (\E p \in Peers : PeerStep(p)) \/ RelayTick \/ UNCHANGED relayVars
  BY <1>1, <1>6 DEF PeerStep, Inv, SendInventory, Disconnect, RelayTick, relayVars
<1> QED BY <1>3, <1>4, <1>5, <1>6 DEF RelayNext, TxStep

-----------------------------------------------------------------------------
(* The orphans *)

\* AddOrphanTx is the only step that touches them.
LEMMA OrphanSteps ==
  ASSUME [RelayNext]_relayVars
  PROVE  UNCHANGED orphans \/ \E t \in Loose : AddOrphanTx(t)
BY DEF RelayNext, PeerStep, TxStep, Inv, SendInventory, Disconnect, Tx, SendRawTransaction,
       ConnectBlock, Reorganize, RelayTick, relayVars

\* The orphans, step by step.
LEMMA OrphanStep ==
  ASSUME RelayInv, [RelayNext]_relayVars
  PROVE  /\ OrphanIndexExact' /\ FiniteOrphans' /\ OrphanTransactionsBounded'
         /\ mapOrphanTransactions' \subseteq Loose
         /\ mapOrphanTransactionsByPrev' \in [Txs -> SUBSET Txs]
<1> USE TxRelayAssumption
<1>0. /\ mapOrphanTransactions \subseteq Loose
      /\ mapOrphanTransactionsByPrev \in [Txs -> SUBSET Txs]
      /\ OrphanIndexExact /\ FiniteOrphans /\ OrphanTransactionsBounded
  BY DEF RelayInv, RelayTypeOK
<1>1. CASE UNCHANGED orphans
  BY <1>0, <1>1 DEF orphans, OrphanIndexExact, FiniteOrphans, OrphanTransactionsBounded
<1>2. CASE \E t \in Loose : AddOrphanTx(t)
  <2>1. PICK t \in Loose : AddOrphanTx(t)
    BY <1>2
  <2> DEFINE held == mapOrphanTransactions \cup {t}
  <2>2. PICK erased \in Evictions(held) :
              /\ mapOrphanTransactions' = held \ erased
              /\ IndexOrphans(erased, t)
    BY <2>1 DEF AddOrphanTx
  <2>3. OrphanIndexExact' /\ mapOrphanTransactionsByPrev' \in [Txs -> SUBSET Txs]
    BY <1>0, <2>2 DEF IndexOrphans, OrphanIndexExact, Loose
  <2>4. IsFiniteSet(held) /\ mapOrphanTransactions' \subseteq held
    BY <1>0, <2>2, FS_AddElement DEF FiniteOrphans
  <2>5. FiniteOrphans'
    BY <2>4, FS_Subset DEF FiniteOrphans
  <2>6. OrphanTransactionsBounded'
    <3>1. /\ erased \subseteq held
          /\ Cardinality(erased) = IF Cardinality(held) > MAX_ORPHAN_TRANSACTIONS
                                   THEN Cardinality(held) - MAX_ORPHAN_TRANSACTIONS ELSE 0
      BY <2>2 DEF Evictions
    <3>2. held \cap erased = erased
      BY <3>1
    <3>3. Cardinality(held \ erased) = Cardinality(held) - Cardinality(erased)
      BY <2>4, <3>2, FS_Difference
    <3>4. Cardinality(held) \in Nat
      BY <2>4, FS_CardinalityType
    <3>5. Cardinality(mapOrphanTransactions') <= MAX_ORPHAN_TRANSACTIONS
      <4> HIDE DEF held
      <4> QED BY <2>2, <3>1, <3>3, <3>4
    <3> QED BY <3>5 DEF OrphanTransactionsBounded
  <2> QED BY <1>0, <2>3, <2>4, <2>5, <2>6
<1> QED BY <1>1, <1>2, OrphanSteps

-----------------------------------------------------------------------------
(* The peers *)

\* When a request may go out is not later than MaxDue, if Inv lets it.
LEMMA NextRequestType ==
  ASSUME RelayTypeOK, NEW h \in InvHashes
  PROVE  NextRequest(h) \in Nat
<1>1. mapAlreadyAskedFor[h] \in Int /\ Retry \in Nat
  BY TxRelayAssumption DEF RelayTypeOK
<1> QED BY <1>1 DEF NextRequest

\* The requests of the peers, step by step.
LEMMA RequestStep ==
  ASSUME RelayTypeOK, [RelayNext]_relayVars
  PROVE  /\ mapAskFor' \in [Peers -> SUBSET [due : 0..MaxDue, hash : InvHashes]]
         /\ mapAlreadyAskedFor' \in [InvHashes -> -Retry..MaxDue]
         /\ sinceGetData' \in [InvHashes -> 0..Retry]
<1> USE TxRelayAssumption
<1>0. /\ mapAskFor \in [Peers -> SUBSET [due : 0..MaxDue, hash : InvHashes]]
      /\ mapAlreadyAskedFor \in [InvHashes -> -Retry..MaxDue]
      /\ sinceGetData \in [InvHashes -> 0..Retry]
  BY DEF RelayTypeOK
<1>1. CASE UNCHANGED requests
  BY <1>0, <1>1 DEF requests
<1>2. ASSUME NEW p \in Peers, NEW h \in Loose \cup {NullHash}, Inv(p, h)
      PROVE  /\ mapAskFor' \in [Peers -> SUBSET [due : 0..MaxDue, hash : InvHashes]]
             /\ mapAlreadyAskedFor' \in [InvHashes -> -Retry..MaxDue]
             /\ sinceGetData' \in [InvHashes -> 0..Retry]
  <2>1. CASE AlreadyHave(h)
    BY <1>0, <1>2, <2>1 DEF Inv
  <2>2. CASE ~AlreadyHave(h)
    <3>1. h \in InvHashes
      BY DEF InvHashes, Loose
    <3>2. NextRequest(h) \in Nat
      BY <3>1, NextRequestType
    <3>3. /\ NextRequest(h) <= MaxDue /\ Schedule(p, h)
          /\ mapAlreadyAskedFor' = [mapAlreadyAskedFor EXCEPT ![h] = NextRequest(h)]
          /\ UNCHANGED sinceGetData
      BY <1>2, <2>2 DEF Inv
    <3>4. NextRequest(h) \in 0..MaxDue /\ NextRequest(h) \in -Retry..MaxDue
      BY <3>2, <3>3
    <3>5. [due |-> NextRequest(h), hash |-> h] \in [due : 0..MaxDue, hash : InvHashes]
      BY <3>1, <3>4
    <3>6. mapAskFor' = [mapAskFor EXCEPT ![p] =
                           mapAskFor[p] \cup {[due |-> NextRequest(h), hash |-> h]}]
      BY <3>3 DEF Schedule
    <3>7. mapAskFor' \in [Peers -> SUBSET [due : 0..MaxDue, hash : InvHashes]]
      BY <1>0, <3>5, <3>6
    <3> QED BY <1>0, <3>3, <3>4, <3>7
  <2> QED BY <2>1, <2>2
<1>3. ASSUME NEW p \in Peers, SendInventory(p)
      PROVE  /\ mapAskFor' \in [Peers -> SUBSET [due : 0..MaxDue, hash : InvHashes]]
             /\ mapAlreadyAskedFor' \in [InvHashes -> -Retry..MaxDue]
             /\ sinceGetData' \in [InvHashes -> 0..Retry]
  <2>1. /\ mapAskFor' = [mapAskFor EXCEPT ![p] = {e \in mapAskFor[p] : e.due > 0}]
        /\ mapAlreadyAskedFor' = [h \in InvHashes |-> IF h \in Asked(p) THEN 0
                                                   ELSE mapAlreadyAskedFor[h]]
        /\ sinceGetData' = [h \in InvHashes |-> IF h \in Asked(p) THEN 0 ELSE sinceGetData[h]]
    BY <1>3 DEF SendInventory
  <2>2. 0 \in -Retry..MaxDue /\ 0 \in 0..Retry
    OBVIOUS
  <2> QED BY <1>0, <2>1, <2>2
<1>4. ASSUME NEW p \in Peers, Disconnect(p)
      PROVE  /\ mapAskFor' \in [Peers -> SUBSET [due : 0..MaxDue, hash : InvHashes]]
             /\ mapAlreadyAskedFor' \in [InvHashes -> -Retry..MaxDue]
             /\ sinceGetData' \in [InvHashes -> 0..Retry]
  BY <1>0, <1>4 DEF Disconnect
<1>5. CASE RelayTick
  <2>1. /\ mapAskFor' = [p \in Peers |->
                {[e EXCEPT !.due = IF e.due > 0 THEN e.due - 1 ELSE 0] : e \in mapAskFor[p]}]
        /\ mapAlreadyAskedFor' = [h \in InvHashes |->
                IF mapAlreadyAskedFor[h] > -Retry THEN mapAlreadyAskedFor[h] - 1 ELSE -Retry]
        /\ sinceGetData' = [h \in InvHashes |->
                IF sinceGetData[h] < Retry THEN sinceGetData[h] + 1 ELSE Retry]
    BY <1>5 DEF RelayTick
  <2>2. \A e \in [due : 0..MaxDue, hash : InvHashes] :
            [e EXCEPT !.due = IF e.due > 0 THEN e.due - 1 ELSE 0]
                \in [due : 0..MaxDue, hash : InvHashes]
    OBVIOUS
  <2>3. mapAskFor' \in [Peers -> SUBSET [due : 0..MaxDue, hash : InvHashes]]
    BY <1>0, <2>1, <2>2
  <2>4. \A i \in -Retry..MaxDue : (IF i > -Retry THEN i - 1 ELSE -Retry) \in -Retry..MaxDue
    OBVIOUS
  <2>5. \A i \in 0..Retry : (IF i < Retry THEN i + 1 ELSE Retry) \in 0..Retry
    OBVIOUS
  <2> QED BY <1>0, <2>1, <2>3, <2>4, <2>5
<1>6. CASE (\E t \in Loose : TxStep(t)) \/ UNCHANGED relayVars
  BY <1>1, <1>6 DEF TxStep, Tx, SendRawTransaction, ConnectBlock, Reorganize, relayVars
<1> QED BY <1>2, <1>3, <1>4, <1>5, <1>6 DEF RelayNext, PeerStep

\* The announcements and the index on disk, step by step.
LEMMA InventoryStep ==
  ASSUME RelayTypeOK, [RelayNext]_relayVars
  PROVE  /\ setInventoryKnown' \in [Peers -> SUBSET InvHashes]
         /\ vInventoryToSend' \in [Peers -> SUBSET InvHashes]
         /\ disk' \subseteq Txs
<1> USE TxRelayAssumption DEF InvHashes
<1>0. /\ setInventoryKnown \in [Peers -> SUBSET InvHashes]
      /\ vInventoryToSend \in [Peers -> SUBSET InvHashes]
      /\ disk \subseteq Txs
  BY DEF RelayTypeOK
<1>1. ASSUME NEW h \in InvHashes, RelayTransaction(h)
      PROVE  vInventoryToSend' \in [Peers -> SUBSET InvHashes]
  BY <1>0, <1>1 DEF RelayTransaction
<1>2. CASE \E t \in Loose : Tx(t)
  BY <1>0, <1>1, <1>2 DEF Tx, inventory
<1>3. CASE \E t \in Loose : SendRawTransaction(t)
  BY <1>0, <1>1, <1>3 DEF SendRawTransaction, Loose
<1>4. CASE \E t \in Loose : ConnectBlock(t)
  BY <1>0, <1>4 DEF ConnectBlock, inventory, Loose
<1>5. CASE \E t \in Loose, new \in {{}} \cup {{u} : u \in Loose} : Reorganize(t, new)
  BY <1>0, <1>5 DEF Reorganize, inventory, Loose
<1>6. CASE \E p \in Peers, h \in Loose \cup {NullHash} : Inv(p, h)
  BY <1>0, <1>6 DEF Inv, Loose
<1>7. CASE \E p \in Peers : SendInventory(p)
  BY <1>0, <1>7 DEF SendInventory
<1>8. CASE \E p \in Peers : Disconnect(p)
  BY <1>0, <1>8 DEF Disconnect
<1>9. CASE RelayTick \/ UNCHANGED relayVars
  BY <1>0, <1>9 DEF RelayTick, relayVars, inventory
<1> QED BY <1>2, <1>3, <1>4, <1>5, <1>6, <1>7, <1>8, <1>9 DEF RelayNext, PeerStep, TxStep

-----------------------------------------------------------------------------
(* The theorems *)

\* The inductive invariant holds of the specification.
THEOREM RelayInvariance == RelaySpec => []RelayInv
<1> USE TxRelayAssumption
<1>1. RelayInit => RelayInv
  <2>1. SUFFICES ASSUME RelayInit PROVE RelayInv
    OBVIOUS
  <2>2. RelayTypeOK
    BY <2>1 DEF RelayInit, RelayTypeOK, InvHashes
  <2>3. PoolIndexExact /\ OrphanIndexExact
    BY <2>1 DEF RelayInit, PoolIndexExact, OrphanIndexExact
  <2>4. FiniteOrphans /\ OrphanTransactionsBounded
    BY <2>1, FS_EmptySet DEF RelayInit, FiniteOrphans, OrphanTransactionsBounded
  <2> QED BY <2>2, <2>3, <2>4 DEF RelayInv
<1>2. RelayInv /\ [RelayNext]_relayVars => RelayInv'
  BY PoolStep, OrphanStep, RequestStep, InventoryStep DEF RelayInv, RelayTypeOK
<1> QED BY <1>1, <1>2, PTL DEF RelaySpec

\* Every variable has its type, for any transactions, peers and bounds.
THEOREM RelayTypeCorrect == RelaySpec => []RelayTypeOK
<1>1. RelayInv => RelayTypeOK
  BY DEF RelayInv
<1> QED BY <1>1, RelayInvariance, PTL

\* CTxMemPool's mapNextTx never dangles, and no output is spent twice in the
\* pool, whatever is accepted, mined and reorganised.
THEOREM PoolIndexExactCorrect == RelaySpec => []PoolIndexExact
<1>1. RelayInv => PoolIndexExact
  BY DEF RelayInv
<1> QED BY <1>1, RelayInvariance, PTL

\* The orphans and their index by previous transaction agree.
THEOREM OrphanIndexExactCorrect == RelaySpec => []OrphanIndexExact
<1>1. RelayInv => OrphanIndexExact
  BY DEF RelayInv
<1> QED BY <1>1, RelayInvariance, PTL

\* There are never more orphans than MAX_ORPHAN_TRANSACTIONS.
THEOREM OrphanTransactionsBoundedCorrect == RelaySpec => []OrphanTransactionsBounded
<1>1. RelayInv => OrphanTransactionsBounded
  BY DEF RelayInv
<1> QED BY <1>1, RelayInvariance, PTL

=============================================================================
