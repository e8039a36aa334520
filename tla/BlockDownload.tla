--------------------------- MODULE BlockDownload ---------------------------
(***************************************************************************)
(* The block-download bookkeeping of main.cpp: which peer was asked, or is *)
(* about to be asked, for which block.  The state is the anonymous         *)
(* namespace of main.cpp (CNodeState, mapBlocksToDownload,                 *)
(* mapBlocksInFlight), all of it guarded by cs_main.                       *)
(*                                                                         *)
(* Two redundant pictures are kept.  Every peer has two lists with a       *)
(* counter each, and two global maps send a block hash to the peer and to  *)
(* an iterator into that peer's list.  A map entry that outlives the list  *)
(* element, or the peer, is a dangling iterator or a NULL CNodeState.      *)
(*                                                                         *)
(* Beside them a block is asked for a second way: ProcessBlock puts what a *)
(* new orphan wants into its sender's mapAskFor, whose entries the second  *)
(* getdata loop sends when they are due.  Two entries for one block count  *)
(* as one here, and which are due is open: TxRelay has their times.        *)
(*                                                                         *)
(* Time: the stall test of SendMessages only compares differences of three *)
(* kinds of clock readings, so a reading is kept as an age (how long ago,  *)
(* in units of BLOCK_DOWNLOAD_TIMEOUT, saturated) and as its distance from *)
(* the peer's nLastBlockProcess (its lag).                                 *)
(***************************************************************************)
EXTENDS Naturals, Sequences, SequencesExt

CONSTANTS
    Nodes,       \* connection slots; a NodeId is one of them while connected
    LocalNodes,  \* the slots whose address IsLocal(): never banned
    Hashes,      \* block hashes
    Ancestors,   \* by hash, those of the blocks below it
    NoNode,      \* "no map entry" for a hash
    MaxInTransit,\* MAX_BLOCKS_IN_TRANSIT_PER_PEER (128 in the code)
    MaxQueue,    \* queue length above which a peer is penalised (5000)
    BanScore     \* -banscore (100), in units of one penalty of 10

ASSUME NodesAssumption == LocalNodes \subseteq Nodes /\ NoNode \notin Nodes
ASSUME AncestorsAssumption == Ancestors \in [Hashes -> SUBSET Hashes]
ASSUME LimitsAssumption == /\ MaxInTransit \in Nat \ {0}
                           /\ MaxQueue \in Nat
                           /\ BanScore \in Nat \ {0}

VARIABLES
    \* mapNodeState and the CNode it belongs to
    nodes,          \* the domain of mapNodeState
    fDisconnect,    \* CNode::fDisconnect
    nMisbehavior,   \* CNodeState::nMisbehavior, saturated at BanScore
    fShouldBan,     \* CNodeState::fShouldBan
    \* the per-peer lists and their counters
    vBlocksToDownload, nBlocksToDownload,
    vBlocksInFlight, nBlocksInFlight,
    \* the global maps: hash -> peer.  The stored iterator is the position
    \* of the hash in that peer's list.
    mapBlocksToDownload, mapBlocksInFlight,
    \* clock readings
    recvAge, recvLag,     \* CNodeState::nLastBlockReceive, per peer
    reqAge, reqLag,       \* QueuedBlock::nTime, per block in flight
    \* CNode::mapAskFor, beside all of the above
    wantedByOrphan, \* the blocks in it, per peer
    \* the rest of the node
    have,           \* mapBlockIndex and mapOrphanBlocks: AlreadyHave(MSG_BLOCK)
    csMain,         \* the peer whose getdata loops hold cs_main, or NoNode
    \* history: the peers sent a getdata for a block that has not come since
    askedFromQueue, \* by the first loop, per hash
    askedForOrphan  \* by the second one, per hash

lists == <<vBlocksToDownload, nBlocksToDownload, vBlocksInFlight,
           nBlocksInFlight, mapBlocksToDownload, mapBlocksInFlight>>
clocks == <<recvAge, recvLag, reqAge, reqLag>>
peer == <<nodes, fDisconnect, nMisbehavior, fShouldBan>>
asked == <<askedFromQueue, askedForOrphan>>
vars == <<lists, clocks, peer, wantedByOrphan, have, csMain, asked>>

-----------------------------------------------------------------------------
(* Lists, iterators and clock readings *)

\* Saturation: every comparison below is with a lag of 1 or 2.
MaxAge == 3
Older(age) == IF age < MaxAge THEN age + 1 ELSE MaxAge
NoAges == [h \in Hashes |-> 0]

\* A reading nothing can compare before it is taken anew is kept as 0: those
\* of a peer without requests and those of a block not in flight.
ForgetReadings(n, hs) ==
    /\ recvAge' = [recvAge EXCEPT ![n] = 0]
    /\ recvLag' = [recvLag EXCEPT ![n] = 0]
    /\ reqAge' = [h \in Hashes |-> IF h \in hs THEN 0 ELSE reqAge[h]]
    /\ reqLag' = [h \in Hashes |-> IF h \in hs THEN 0 ELSE reqLag[h]]

\* std::list::erase at the iterator a map stores for a hash: it points to the
\* position of the hash in the list.
IteratorOf(list, h) == CHOOSE i \in 1..Len(list) : list[i] = h
EraseHash(list, h) == RemoveAt(list, IteratorOf(list, h))

Init ==
    /\ nodes = {}
    /\ fDisconnect = [n \in Nodes |-> FALSE]
    /\ nMisbehavior = [n \in Nodes |-> 0]
    /\ fShouldBan = [n \in Nodes |-> FALSE]
    /\ vBlocksToDownload = [n \in Nodes |-> <<>>]
    /\ nBlocksToDownload = [n \in Nodes |-> 0]
    /\ vBlocksInFlight = [n \in Nodes |-> <<>>]
    /\ nBlocksInFlight = [n \in Nodes |-> 0]
    /\ mapBlocksToDownload = [h \in Hashes |-> NoNode]
    /\ mapBlocksInFlight = [h \in Hashes |-> NoNode]
    /\ recvAge = [n \in Nodes |-> 0] /\ recvLag = [n \in Nodes |-> 0]
    /\ reqAge = NoAges /\ reqLag = NoAges
    /\ wantedByOrphan = [n \in Nodes |-> {}]
    /\ have = {}
    /\ csMain = NoNode
    /\ askedFromQueue = [h \in Hashes |-> {}]
    /\ askedForOrphan = [h \in Hashes |-> {}]

-----------------------------------------------------------------------------
(* Connections *)

\* InitializeNode, from the CNode constructor: a fresh CNodeState, as Init and
\* FinalizeNode leave it.
InitializeNode(n) ==
    /\ csMain = NoNode
    /\ n \notin nodes
    /\ nodes' = nodes \cup {n}
    /\ UNCHANGED <<lists, clocks, fDisconnect, nMisbehavior, fShouldBan,
                   wantedByOrphan, have, csMain, asked>>

\* CloseSocketDisconnect, by the socket thread and without cs_main: it may
\* fall between two iterations of the getdata loop.
CloseSocketDisconnect(n) ==
    /\ n \in nodes /\ ~fDisconnect[n]
    /\ fDisconnect' = [fDisconnect EXCEPT ![n] = TRUE]
    /\ UNCHANGED <<lists, clocks, nodes, nMisbehavior, fShouldBan,
                   wantedByOrphan, have, csMain, asked>>

\* The two loops of FinalizeNode over the peer's lists.
EraseFlightEntriesOnly(n) == \* mutant: the queue's loop is missing
    /\ mapBlocksInFlight' = [h \in Hashes |->
            IF Contains(vBlocksInFlight[n], h) THEN NoNode ELSE mapBlocksInFlight[h]]
    /\ UNCHANGED mapBlocksToDownload

EraseAllEntries(n) == \* mutant: the maps are cleared
    /\ mapBlocksInFlight' = [h \in Hashes |-> NoNode]
    /\ mapBlocksToDownload' = [h \in Hashes |-> NoNode]

EraseEntriesOf(n) ==
    /\ mapBlocksInFlight' = [h \in Hashes |->
            IF Contains(vBlocksInFlight[n], h) THEN NoNode ELSE mapBlocksInFlight[h]]
    /\ mapBlocksToDownload' = [h \in Hashes |->
            IF Contains(vBlocksToDownload[n], h) THEN NoNode ELSE mapBlocksToDownload[h]]

\* FinalizeNode, from the CNode destructor: the peer's entries leave both
\* maps, and its CNodeState and its mapAskFor go.
FinalizeNode(n) ==
    /\ csMain = NoNode
    /\ n \in nodes /\ fDisconnect[n]
    /\ EraseEntriesOf(n)
    /\ nodes' = nodes \ {n}
    /\ fDisconnect' = [fDisconnect EXCEPT ![n] = FALSE]
    /\ nMisbehavior' = [nMisbehavior EXCEPT ![n] = 0]
    /\ fShouldBan' = [fShouldBan EXCEPT ![n] = FALSE]
    /\ vBlocksToDownload' = [vBlocksToDownload EXCEPT ![n] = <<>>]
    /\ nBlocksToDownload' = [nBlocksToDownload EXCEPT ![n] = 0]
    /\ vBlocksInFlight' = [vBlocksInFlight EXCEPT ![n] = <<>>]
    /\ nBlocksInFlight' = [nBlocksInFlight EXCEPT ![n] = 0]
    /\ ForgetReadings(n, {h \in Hashes : Contains(vBlocksInFlight[n], h)})
    /\ wantedByOrphan' = [wantedByOrphan EXCEPT ![n] = {}]
    /\ askedFromQueue' = [h \in Hashes |-> askedFromQueue[h] \ {n}]
    /\ askedForOrphan' = [h \in Hashes |-> askedForOrphan[h] \ {n}]
    /\ UNCHANGED <<have, csMain>>

-----------------------------------------------------------------------------
(* Messages *)

\* ProcessMessages hands a message of n to ProcessMessage, under cs_main.
CanProcess(n) == csMain = NoNode /\ n \in nodes /\ ~fDisconnect[n]

\* Misbehaving(n, 10 * howmuch).
Misbehaving(n, howmuch) ==
    LET score == nMisbehavior[n] + howmuch
    IN  /\ nMisbehavior' = [nMisbehavior EXCEPT
                ![n] = IF score < BanScore THEN score ELSE BanScore]
        /\ fShouldBan' = [fShouldBan EXCEPT
                ![n] = IF howmuch > 0 /\ score >= BanScore THEN TRUE ELSE @]
        /\ UNCHANGED <<nodes, fDisconnect>>

\* nLastBlockProcess = GetTimeMicros(): lags are measured from it.
TouchLastBlockProcess(n) ==
    /\ recvLag' = [recvLag EXCEPT ![n] = recvAge[n]]
    /\ reqLag' = [h \in Hashes |->
            IF mapBlocksInFlight[h] = n THEN reqAge[h] ELSE reqLag[h]]

AssignedInQueue(h) == mapBlocksToDownload[h] # NoNode \* mutant: in flight forgotten
Assigned(h) == mapBlocksToDownload[h] # NoNode \/ mapBlocksInFlight[h] # NoNode

\* AddBlockToQueue, for one entry of the inv vector: a hash that any peer
\* already has queued or in flight is left where it is.
AddBlockToQueue(n, h) ==
    IF Assigned(h)
    THEN UNCHANGED <<lists, peer>>
    ELSE /\ vBlocksToDownload' =
                [vBlocksToDownload EXCEPT ![n] = Append(@, h)]
         /\ nBlocksToDownload' = [nBlocksToDownload EXCEPT ![n] = @ + 1]
         /\ mapBlocksToDownload' = [mapBlocksToDownload EXCEPT ![h] = n]
         /\ Misbehaving(n, IF nBlocksToDownload[n] + 1 > MaxQueue THEN 1 ELSE 0)
         /\ UNCHANGED <<vBlocksInFlight, nBlocksInFlight, mapBlocksInFlight>>

InvMessage(n, h) ==
    /\ CanProcess(n)
    /\ TouchLastBlockProcess(n)
    /\ IF h \in have THEN UNCHANGED <<lists, peer>> ELSE AddBlockToQueue(n, h)
    /\ UNCHANGED <<recvAge, reqAge, wantedByOrphan, have, csMain, asked>>

\* MarkBlockAsReceived: the hash leaves both maps and the lists of whichever
\* peers they name.
RemoveFromQueue(h) ==
    LET o == mapBlocksToDownload[h]
    IN  IF o = NoNode
        THEN UNCHANGED <<vBlocksToDownload, nBlocksToDownload, mapBlocksToDownload>>
        ELSE /\ vBlocksToDownload' =
                    [vBlocksToDownload EXCEPT ![o] = EraseHash(@, h)]
             /\ nBlocksToDownload' = [nBlocksToDownload EXCEPT ![o] = @ - 1]
             /\ mapBlocksToDownload' = [mapBlocksToDownload EXCEPT ![h] = NoNode]

RemoveFromFlight(h) ==
    LET o == mapBlocksInFlight[h]
    IN  IF o = NoNode
        THEN UNCHANGED <<vBlocksInFlight, nBlocksInFlight, mapBlocksInFlight>>
        ELSE /\ vBlocksInFlight' = [vBlocksInFlight EXCEPT ![o] = EraseHash(@, h)]
             /\ nBlocksInFlight' = [nBlocksInFlight EXCEPT ![o] = @ - 1]
             /\ mapBlocksInFlight' = [mapBlocksInFlight EXCEPT ![h] = NoNode]

\* The "block" handler.  nLastBlockReceive moves only if the block had been
\* requested from the peer that sends it.  ProcessBlock is seen from here as
\* its effect on have, and on mapAskFor of the sender, of which it may want
\* some blocks.
BlockMessage(n, h, haveAfter, wanted, howmuch) ==
    /\ CanProcess(n)
    /\ RemoveFromQueue(h)
    /\ RemoveFromFlight(h)
    /\ IF mapBlocksInFlight[h] = n
       THEN /\ recvAge' = [recvAge EXCEPT ![n] = 0]
            /\ recvLag' = [recvLag EXCEPT ![n] = 0]
       ELSE /\ recvLag' = [recvLag EXCEPT ![n] = recvAge[n]]
            /\ UNCHANGED recvAge
    /\ reqLag' = [g \in Hashes |->
            IF g = h THEN 0 ELSE IF mapBlocksInFlight[g] = n THEN reqAge[g] ELSE reqLag[g]]
    /\ reqAge' = [reqAge EXCEPT ![h] = 0]
    /\ have' = haveAfter
    /\ wantedByOrphan' = [wantedByOrphan EXCEPT ![n] = @ \cup wanted]
    /\ askedFromQueue' = [askedFromQueue EXCEPT ![h] = {}]
    /\ askedForOrphan' = [askedForOrphan EXCEPT ![h] = {}]
    /\ Misbehaving(n, howmuch)
    /\ UNCHANGED csMain

\* The block is kept or not, and if it becomes an orphan PruneOrphanBlocks may
\* drop another one.
ProcessBlockOutcomes(h) ==
    {have, have \cup {h}} \cup {(have \cup {h}) \ {g} : g \in have \ {h}}

\* WantedByOrphan of a new orphan, for AskFor outside the initial download: a
\* block below it that is missing.  Whoever was asked for that one, and whether
\* it is in flight, is not looked at.
MissingBelow(h, haveAfter) ==
    IF h \in haveAfter \ have THEN {{w} : w \in Ancestors[h] \ haveAfter} ELSE {}

\* Any other message: only nLastBlockProcess and the score can move.
OtherMessage(n, howmuch) ==
    /\ CanProcess(n)
    /\ TouchLastBlockProcess(n)
    /\ Misbehaving(n, howmuch)
    /\ UNCHANGED <<lists, recvAge, reqAge, wantedByOrphan, have, csMain, asked>>

-----------------------------------------------------------------------------
(* SendMessages *)

StallingNever(n) == FALSE \* mutant: no stall test
StallingWhenQueueEmpty(n) == \* mutant: a peer with work left is spared
    /\ nBlocksInFlight[n] > 0 /\ nBlocksToDownload[n] = 0
    /\ recvLag[n] > 1
    /\ reqLag[Head(vBlocksInFlight[n])] > 2

\* Requested blocks are in flight, none came for a unit, and the oldest
\* request is more than two units old - all seen from nLastBlockProcess.
Stalling(n) ==
    /\ nBlocksInFlight[n] > 0
    /\ recvLag[n] > 1
    /\ reqLag[Head(vBlocksInFlight[n])] > 2

MayRequest(n) ==
    /\ ~fDisconnect[n]
    /\ nBlocksToDownload[n] > 0
    /\ nBlocksInFlight[n] < MaxInTransit

\* SendMessages up to its getdata loop: the ban decision, then the stall test.
SendMessages(n) ==
    /\ CanProcess(n)
    /\ fDisconnect' = [fDisconnect EXCEPT
            ![n] = (fShouldBan[n] /\ n \notin LocalNodes) \/ Stalling(n)]
    /\ fShouldBan' = [fShouldBan EXCEPT ![n] = FALSE]
    /\ csMain' = n
    /\ UNCHANGED <<lists, clocks, nodes, nMisbehavior, wantedByOrphan, have, asked>>

\* One iteration of the first loop: MarkBlockAsInFlight of the front of the queue,
\* which first calls MarkBlockAsReceived for it.
RequestBlock(n) ==
    /\ csMain = n /\ MayRequest(n)
    /\ LET h == Head(vBlocksToDownload[n])
           o == mapBlocksInFlight[h]
           cleared == IF o = NoNode THEN vBlocksInFlight
                      ELSE [vBlocksInFlight EXCEPT ![o] = EraseHash(@, h)]
           count == IF o = NoNode THEN nBlocksInFlight
                    ELSE [nBlocksInFlight EXCEPT ![o] = @ - 1]
       IN  /\ RemoveFromQueue(h)
           /\ vBlocksInFlight' = [cleared EXCEPT ![n] = Append(@, h)]
           /\ nBlocksInFlight' = [count EXCEPT ![n] = @ + 1]
           /\ mapBlocksInFlight' = [mapBlocksInFlight EXCEPT ![h] = n]
           /\ reqAge' = [reqAge EXCEPT ![h] = 0]
           /\ reqLag' = [reqLag EXCEPT ![h] = 0]
           /\ IF count[n] = 0
              THEN /\ recvAge' = [recvAge EXCEPT ![n] = 0]
                   /\ recvLag' = [recvLag EXCEPT ![n] = 0]
              ELSE UNCHANGED <<recvAge, recvLag>>
           /\ askedFromQueue' = [askedFromQueue EXCEPT ![h] = @ \cup {n}]
    /\ UNCHANGED <<peer, wantedByOrphan, have, csMain, askedForOrphan>>

\* One iteration of the second loop, over the entries of mapAskFor that are
\* due: the only test is AlreadyHave, and nothing is marked as in flight.
RequestWanted(n, h) ==
    /\ csMain = n /\ ~MayRequest(n) /\ ~fDisconnect[n]
    /\ h \in wantedByOrphan[n]
    /\ wantedByOrphan' = [wantedByOrphan EXCEPT ![n] = @ \ {h}]
    /\ askedForOrphan' = IF h \in have THEN askedForOrphan
                         ELSE [askedForOrphan EXCEPT ![h] = @ \cup {n}]
    /\ UNCHANGED <<lists, clocks, peer, have, csMain, askedFromQueue>>

\* The rest of mapAskFor is not due yet.
SendMessagesDone(n) ==
    /\ csMain = n /\ ~MayRequest(n)
    /\ csMain' = NoNode
    /\ UNCHANGED <<lists, clocks, peer, wantedByOrphan, have, asked>>

\* One unit of time passes.
Tick ==
    /\ recvAge' = [n \in Nodes |->
            IF nBlocksInFlight[n] > 0 THEN Older(recvAge[n]) ELSE 0]
    /\ reqAge' = [h \in Hashes |->
            IF mapBlocksInFlight[h] # NoNode THEN Older(reqAge[h]) ELSE 0]
    /\ UNCHANGED <<lists, recvLag, reqLag, peer, wantedByOrphan, have, csMain, asked>>

-----------------------------------------------------------------------------

NodeStep(n) ==
    \/ InitializeNode(n)
    \/ CloseSocketDisconnect(n)
    \/ FinalizeNode(n)
    \/ \E h \in Hashes : InvMessage(n, h)
    \/ \E h \in Hashes :
         \/ \E haveAfter \in ProcessBlockOutcomes(h) :
              \E wanted \in {{}} \cup MissingBelow(h, haveAfter) :
                 BlockMessage(n, h, haveAfter, wanted, 0)
         \/ BlockMessage(n, h, have, {}, BanScore)
    \/ \E howmuch \in 0..1 : OtherMessage(n, howmuch)
    \/ SendMessages(n)
    \/ RequestBlock(n)
    \/ \E h \in Hashes : RequestWanted(n, h)
    \/ SendMessagesDone(n)

Next == Tick \/ \E n \in Nodes : NodeStep(n)

\* The message-handler thread visits every peer over and over, the socket
\* thread deletes the disconnected ones, time passes, and a live peer keeps
\* answering the pings SendMessages sends it.
Fairness ==
    /\ WF_vars(Tick)
    /\ \A n \in Nodes : /\ SF_vars(FinalizeNode(n))
                        /\ SF_vars(SendMessages(n))
                        /\ WF_vars(RequestBlock(n))
                        /\ WF_vars(SendMessagesDone(n))
                        /\ SF_vars(OtherMessage(n, 0))

Spec == Init /\ [][Next]_vars
FairSpec == Spec /\ Fairness

-----------------------------------------------------------------------------
(* Properties *)

\* Every variable holds a value of its type.
TypeOK ==
    /\ nodes \subseteq Nodes
    /\ fDisconnect \in [Nodes -> BOOLEAN]
    /\ nMisbehavior \in [Nodes -> 0..BanScore]
    /\ fShouldBan \in [Nodes -> BOOLEAN]
    /\ vBlocksToDownload \in [Nodes -> Seq(Hashes)]
    /\ nBlocksToDownload \in [Nodes -> Nat]
    /\ vBlocksInFlight \in [Nodes -> Seq(Hashes)]
    /\ nBlocksInFlight \in [Nodes -> Nat]
    /\ mapBlocksToDownload \in [Hashes -> Nodes \cup {NoNode}]
    /\ mapBlocksInFlight \in [Hashes -> Nodes \cup {NoNode}]
    /\ recvAge \in [Nodes -> 0..MaxAge] /\ recvLag \in [Nodes -> 0..MaxAge]
    /\ reqAge \in [Hashes -> 0..MaxAge] /\ reqLag \in [Hashes -> 0..MaxAge]
    /\ wantedByOrphan \in [Nodes -> SUBSET Hashes]
    /\ have \subseteq Hashes
    /\ csMain \in Nodes \cup {NoNode}
    /\ askedFromQueue \in [Hashes -> SUBSET Nodes]
    /\ askedForOrphan \in [Hashes -> SUBSET Nodes]

\* A map names a peer for a hash exactly when that peer's list holds it, and
\* holds it once, so the stored iterator is valid: MarkBlockAsReceived and
\* FinalizeNode never follow a dangling one.
QueueIterators ==
    \A n \in Nodes :
      /\ IsInjective(vBlocksToDownload[n])
      /\ \A h \in Hashes :
           mapBlocksToDownload[h] = n <=> Contains(vBlocksToDownload[n], h)

FlightIterators ==
    \A n \in Nodes :
      /\ IsInjective(vBlocksInFlight[n])
      /\ \A h \in Hashes :
           mapBlocksInFlight[h] = n <=> Contains(vBlocksInFlight[n], h)

\* The counters the getdata loop and the stall test branch on are the lengths
\* of the lists they stand for: front() is never taken of an empty list.
CountersExact ==
    \A n \in Nodes : /\ nBlocksToDownload[n] = Len(vBlocksToDownload[n])
                     /\ nBlocksInFlight[n] = Len(vBlocksInFlight[n])

\* State(mapBlocks...[h].first), which MarkBlockAsReceived dereferences
\* unchecked, is never NULL: a peer that went left nothing behind.
OwnersConnected ==
    \A h \in Hashes : /\ mapBlocksToDownload[h] \in nodes \cup {NoNode}
                      /\ mapBlocksInFlight[h] \in nodes \cup {NoNode}

\* No block is wanted twice: queued for one peer while in flight from another.
NotQueuedAndInFlight ==
    \A h \in Hashes : mapBlocksToDownload[h] = NoNode \/ mapBlocksInFlight[h] = NoNode

\* The whole consistency of the two pictures.
Bookkeeping ==
    /\ QueueIterators
    /\ FlightIterators
    /\ CountersExact
    /\ OwnersConnected
    /\ NotQueuedAndInFlight

\* No peer is asked for more than MAX_BLOCKS_IN_TRANSIT_PER_PEER at a time.
InFlightLimit == \A n \in Nodes : Len(vBlocksInFlight[n]) <= MaxInTransit

\* Of two peers that owe the same block, one at least was asked only because
\* an orphan it sent wanted that block: whatever is announced, sent or closed in
\* between, the queue asks nobody for a block it has asked another peer for,
\* until that block came or that peer went.  (What an orphan wants is asked of
\* its sender in any case: AskFor knows nothing of the blocks in flight.)
NoDoubleRequest ==
    \A h \in Hashes : \A n, m \in askedFromQueue[h] \cup askedForOrphan[h] :
        n # m => n \notin askedFromQueue[h] \/ m \notin askedFromQueue[h]

\* A wanted block stops being wanted only by being received, or with the peer
\* it was assigned to.
WantedUntilReceived ==
    [][\A h \in Hashes :
         Assigned(h) /\ ~Assigned(h)' =>
            \/ \E n \in nodes, after, wanted \in SUBSET Hashes, k \in {0, BanScore} :
                    BlockMessage(n, h, after, wanted, k)
            \/ \E n \in nodes \ nodes' : n \in {mapBlocksToDownload[h], mapBlocksInFlight[h]}]_vars

\* A queued block is requested, received or given up with its peer: no queue
\* entry waits for ever behind a peer that delivers nothing.
QueuedIsServed ==
    \A h \in Hashes : mapBlocksToDownload[h] # NoNode ~> mapBlocksToDownload[h] = NoNode

\* A peer that always has requests outstanding keeps delivering them:
\* otherwise the stall test drops it.
StallerIsDropped ==
    \A n \in Nodes : <>[](nBlocksInFlight[n] > 0) => []<>(recvAge[n] = 0)

=============================================================================
