------------------------------ MODULE Payments ------------------------------
(***************************************************************************)
(* Who is paid with a block (alphanode-payments.cpp).  One node holds the  *)
(* payments key.  Whenever it has processed a block it elects the          *)
(* alphanode of the block Ahead of its best one and announces the signed   *)
(* winner ("mnw"); every node keeps the winners it hears of, and CheckBlock*)
(* refuses a block that pays somebody else than the winner it knows.       *)
(*                                                                         *)
(* Heights count from one.  Which alphanode has waited longest is left     *)
(* open: nLastPaid becomes the time of copying whenever an entry of the    *)
(* list is copied, so an addition or a removal shuffles it.                *)
(*                                                                         *)
(* Left out: signatures, "mnget", which nothing sends, the input age of a  *)
(* collateral (all are older than the alphanodes are many), a block hash   *)
(* that cannot be found 576 blocks back, and CleanPaymentList, which drops *)
(* a winner when its block is 1000 blocks old.                             *)
(***************************************************************************)
EXTENDS Integers, Sequences, FiniteSets

CONSTANTS
    Nodes,
    Master,      \* the node with the payments key
    Alphanodes,
    Donors,      \* those that give a share of their payments away
    Score,       \* CalculateScore by height and alphanode
    Ahead,       \* the 10 blocks an election is ahead of the best block
    Behind,       \* the 10 blocks before, and Further the 20 after the best
    Further,     \* block a vote may be for
    MaxHeight,   \* bound: the best block of a node
    MaxArriving, \* bound: an election waits while more votes are on their way
    MaxFaults    \* bound: restarts, lost votes and changes of the list

ASSUME PaymentsAssumption ==
    /\ Master \in Nodes
    /\ Donors \subseteq Alphanodes /\ IsFiniteSet(Alphanodes)
    /\ {Ahead, Behind, Further, MaxHeight, MaxArriving, MaxFaults} \subseteq Nat
    /\ Ahead > 0 /\ Ahead <= Further /\ MaxHeight > 0
    /\ Score \in [1..(MaxHeight + Ahead) -> [Alphanodes -> Nat]]

VARIABLES
    nHeight,                \* of pindexBest, by node
    vWinning,               \* by node, in the order they came in
    mapSeenAlphanodeVotes,  \* by node
    nLastBlockHeight,       \* the last election of the master
    enabled,                \* alphanodes enabled in its list
    arriving,               \* votes on their way to a node
    faults,
    restarted,              \* history: the master has been
    waited                  \* history: elections of this list without it

votes == <<vWinning, mapSeenAlphanodeVotes, arriving>>
vars == <<nHeight, votes, nLastBlockHeight, enabled, faults, restarted, waited>>

Heights == 1..(MaxHeight + Ahead)
\* CAlphanodePaymentWinner: payee is the alphanode's own or its donation address.
Winners == [height : Heights, vin : Alphanodes, payee : {"own", "donation"}]

Init ==
    /\ nHeight = [n \in Nodes |-> 1]
    /\ vWinning = [n \in Nodes |-> <<>>]
    /\ mapSeenAlphanodeVotes = [n \in Nodes |-> {}]
    /\ nLastBlockHeight = 0
    /\ enabled = Alphanodes
    /\ arriving = [n \in Nodes |-> {}]
    /\ faults = 0 /\ restarted = FALSE
    /\ waited = [a \in Alphanodes |-> 0]

-----------------------------------------------------------------------------
(* Winners *)

ScoreOf(w) == Score[w.height][w.vin]

\* Two votes are the same by GetHash if height and alphanode are: it leaves
\* the payee out.
Seen(n, w) == \E s \in mapSeenAlphanodeVotes[n] : s.height = w.height /\ s.vin = w.vin
Remembered(n, w) == mapSeenAlphanodeVotes[n] \cup IF Seen(n, w) THEN {} ELSE {w}

\* Where vWinning has the winner of w's height, or zero.
At(list, height) ==
    IF \E i \in 1..Len(list) : list[i].height = height
    THEN CHOOSE i \in 1..Len(list) : list[i].height = height ELSE 0

Better(list, w) ==
    LET i == At(list, w.height) IN i = 0 \/ ScoreOf(list[i]) < ScoreOf(w)

AddedAtEnd(list, w) == IF Better(list, w) THEN Append(list, w) ELSE list \* mutant
\* AddWinningAlphanode: the winner of its height, if its score is higher.
AddWinningAlphanode(list, w) ==
    IF ~Better(list, w) THEN list
    ELSE IF At(list, w.height) = 0 THEN Append(list, w)
    ELSE [list EXCEPT ![At(list, w.height)] = w]

\* GetBlockPayee, as a set of at most one winner: the first.
GetBlockPayee(n, height) ==
    IF At(vWinning[n], height) = 0 THEN {} ELSE {vWinning[n][At(vWinning[n], height)]}

Relay(n, w) ==
    [o \in Nodes |-> IF o = n THEN arriving[o] \ {w}
                     ELSE IF Better(vWinning[n], w) THEN arriving[o] \cup {w} ELSE arriving[o]]

-----------------------------------------------------------------------------
(* The election: CAlphanodePayments::ProcessBlock *)

\* vecLastPayments: one more of the last winners than there are alphanodes.
LastPayments ==
    LET list == vWinning[Master]
        size == Cardinality(enabled) + 1
    IN  SubSeq(list, IF Len(list) > size THEN Len(list) - size + 1 ELSE 1, Len(list))

Paid == {LastPayments[i].vin : i \in 1..Len(LastPayments)}

\* Who may be elected: an alphanode that was not paid lately, and if all were,
\* the one that was longest ago.
NewestPaid == \* mutant: counting from the other end
    {LastPayments[i].vin : i \in {i \in 1..Len(LastPayments) :
        /\ LastPayments[i].vin \in enabled
        /\ \A j \in (i + 1)..Len(LastPayments) : LastPayments[j].vin \notin enabled}}
OldestPaid ==
    {LastPayments[i].vin : i \in {i \in 1..Len(LastPayments) :
        /\ LastPayments[i].vin \in enabled
        /\ \A j \in 1..(i - 1) : LastPayments[j].vin \notin enabled}}
Electable == IF enabled \subseteq Paid THEN OldestPaid ELSE enabled \ Paid

\* The payee depends on the hash of the best block.
Elect(height, a) ==
    [height : {height}, vin : {a}, payee : IF a \in Donors THEN {"own", "donation"} ELSE {"own"}]

AlwaysElects(height) == Electable # {} \* mutant: no nLastBlockHeight
Elects(height) == height > nLastBlockHeight /\ Electable # {}

Waited(a) == [b \in Alphanodes |-> IF b = a \/ b \notin enabled THEN 0 ELSE waited[b] + 1]

\* A block was processed and pindexBest has this height: one more, the same
\* after a block of a side branch, or one less after a reorganisation.
NewBlock(n, height) ==
    /\ height \in 1..MaxHeight
    /\ nHeight' = [nHeight EXCEPT ![n] = height]
    /\ n = Master => \A o \in Nodes : Cardinality(arriving[o]) <= MaxArriving
    /\ IF n = Master /\ Elects(height + Ahead)
       THEN \E a \in Electable : \E w \in Elect(height + Ahead, a) :
              /\ vWinning' = [vWinning EXCEPT ![n] = AddWinningAlphanode(@, w)]
              /\ IF Better(vWinning[n], w)
                 THEN /\ mapSeenAlphanodeVotes' =
                            [mapSeenAlphanodeVotes EXCEPT ![n] = Remembered(n, w)]
                      /\ nLastBlockHeight' = height + Ahead
                      /\ waited' = Waited(a)
                 ELSE UNCHANGED <<mapSeenAlphanodeVotes, nLastBlockHeight, waited>>
              /\ arriving' = Relay(n, w)
       ELSE UNCHANGED <<votes, nLastBlockHeight, waited>>
    /\ UNCHANGED <<enabled, faults, restarted>>

-----------------------------------------------------------------------------
(* The votes *)

InRange(n, height) == height >= nHeight[n] - Behind /\ height <= nHeight[n] + Further

\* Message "mnw".  A vote out of range is forgotten, one in range is noted as
\* seen, and relayed if it changes the winner.
Mnw(n, w) ==
    /\ w \in arriving[n]
    /\ IF Seen(n, w) \/ ~InRange(n, w.height)
       THEN /\ arriving' = [arriving EXCEPT ![n] = @ \ {w}]
            /\ UNCHANGED <<vWinning, mapSeenAlphanodeVotes>>
       ELSE /\ mapSeenAlphanodeVotes' = [mapSeenAlphanodeVotes EXCEPT ![n] = @ \cup {w}]
            /\ vWinning' = [vWinning EXCEPT ![n] = AddWinningAlphanode(@, w)]
            /\ arriving' = Relay(n, w)
    /\ waited' = IF n = Master /\ vWinning'[n] # vWinning[n]
                 THEN [waited EXCEPT ![w.vin] = 0] ELSE waited
    /\ UNCHANGED <<nHeight, nLastBlockHeight, enabled, faults, restarted>>

\* The process of a node starts again: nothing of all this is saved.
Restart(n) ==
    /\ faults < MaxFaults /\ faults' = faults + 1
    /\ vWinning' = [vWinning EXCEPT ![n] = <<>>]
    /\ mapSeenAlphanodeVotes' = [mapSeenAlphanodeVotes EXCEPT ![n] = {}]
    /\ arriving' = [arriving EXCEPT ![n] = {}]
    /\ IF n = Master
       THEN /\ nLastBlockHeight' = 0 /\ restarted' = TRUE
            /\ waited' = [a \in Alphanodes |-> 0]
       ELSE UNCHANGED <<nLastBlockHeight, restarted, waited>>
    /\ UNCHANGED <<nHeight, enabled>>

\* A connection breaks while it brings a vote.
Lose(n, w) ==
    /\ w \in arriving[n]
    /\ faults < MaxFaults /\ faults' = faults + 1
    /\ arriving' = [arriving EXCEPT ![n] = @ \ {w}]
    /\ UNCHANGED <<nHeight, vWinning, mapSeenAlphanodeVotes, nLastBlockHeight, enabled,
                   restarted, waited>>

\* An alphanode is added, expires or comes back (CAlphanode::Check).
AlphanodeList(a) ==
    /\ faults < MaxFaults /\ faults' = faults + 1
    /\ enabled' = IF a \in enabled THEN enabled \ {a} ELSE enabled \cup {a}
    /\ waited' = [b \in Alphanodes |-> 0]
    /\ UNCHANGED <<nHeight, votes, nLastBlockHeight, restarted>>

-----------------------------------------------------------------------------

NodeStep(n) ==
    \/ \E height \in (nHeight[n] - 1)..(nHeight[n] + 1) : NewBlock(n, height)
    \/ \E w \in arriving[n] : Mnw(n, w) \/ Lose(n, w)
    \/ Restart(n)

Next ==
    \/ \E n \in Nodes : NodeStep(n)
    \/ \E a \in Alphanodes : AlphanodeList(a)

Spec == Init /\ [][Next]_vars

-----------------------------------------------------------------------------
(* Properties *)

\* Every variable holds a value of its type.
TypeOK ==
    /\ nHeight \in [Nodes -> 1..MaxHeight]
    /\ vWinning \in [Nodes -> Seq(Winners)]
    /\ mapSeenAlphanodeVotes \in [Nodes -> SUBSET Winners]
    /\ nLastBlockHeight \in Nat
    /\ enabled \subseteq Alphanodes
    /\ arriving \in [Nodes -> SUBSET Winners]
    /\ faults \in 0..MaxFaults /\ restarted \in BOOLEAN
    /\ waited \in [Alphanodes -> Nat]

\* A node knows one winner for a height, and it is the furthest of all it has
\* seen, in whatever order they came and whatever was forgotten in between.
WinnerIsFurthest ==
    \A n \in Nodes : \A i \in 1..Len(vWinning[n]) :
        LET w == vWinning[n][i]
        IN  /\ At(vWinning[n], w.height) = i
            /\ \A s \in mapSeenAlphanodeVotes[n] :
                  s.height = w.height => ScoreOf(s) <= ScoreOf(w)

\* Nodes that both know a winner of a height know the same alphanode and payee,
\* whatever was lost or reorganised on the way: the master elects once for a
\* height, as long as it is not started again.  A node that knows none pays one
\* it picks itself, and the others may refuse its block: nothing is said of it.
PayeesAgree ==
    ~restarted => \A n, o \in Nodes, height \in Heights :
        GetBlockPayee(n, height) # {} /\ GetBlockPayee(o, height) # {} =>
            GetBlockPayee(n, height) = GetBlockPayee(o, height)

\* While the list does not change nobody in it is passed over in more than as
\* many elections as it has alphanodes, whatever was elected before.  A master
\* that was started again is not held to this: old votes of its own come back
\* to it and push whom it has paid out of its window.
NobodyForgotten ==
    ~restarted => \A a \in enabled : waited[a] <= Cardinality(enabled)

=============================================================================
