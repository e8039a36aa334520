--------------------------- MODULE Payments_proofs ---------------------------
(***************************************************************************)
(* What every node knows of the winners and whose turn it is, for any      *)
(* number of nodes and alphanodes, any scores and any votes lost.          *)
(*                                                                         *)
(* WinnerIsFurthest needs to know that vWinning has every height once, and *)
(* that whoever was seen has left a winner of its height.  PayeesAgree     *)
(* follows from where votes come from: all there is anywhere is a copy of  *)
(* what the master has in its own list, which only grows.  NobodyForgotten *)
(* follows from how each of the last winners of that list was elected, and *)
(* from counting the places of a window.                                   *)
(***************************************************************************)
EXTENDS Payments, FiniteSetTheorems, NaturalsInduction, WellFoundedInduction, TLAPS

-----------------------------------------------------------------------------
(* vWinning *)

\* A height has one winner at most.
OneForEach(list) ==
    \A i, j \in 1..Len(list) : list[i].height = list[j].height => i = j

Has(list, w) == \E i \in 1..Len(list) : list[i] = w
HasHeight(list, h) == \E i \in 1..Len(list) : list[i].height = h

\* At finds the winner of a height, if there is one.
LEMMA AtProperties ==
  ASSUME NEW list, NEW h
  PROVE  /\ ~HasHeight(list, h) => At(list, h) = 0
         /\ HasHeight(list, h) => At(list, h) \in 1..Len(list) /\ list[At(list, h)].height = h
<1>1. ~HasHeight(list, h) => At(list, h) = 0
  BY DEF At, HasHeight
<1>2. ASSUME HasHeight(list, h)
      PROVE  At(list, h) \in 1..Len(list) /\ list[At(list, h)].height = h
  BY <1>2 DEF At, HasHeight
<1> QED BY <1>1, <1>2

LEMMA ScoreType == \A w \in Winners : ScoreOf(w) \in Nat
  BY PaymentsAssumption DEF ScoreOf, Winners, Heights

\* What AddWinningAlphanode leaves: the winners of the other heights, and for
\* the height of the vote one that is as far as any of both.
LEMMA AddProperties ==
  ASSUME NEW list \in Seq(Winners), NEW w \in Winners, OneForEach(list)
  PROVE  LET new == AddWinningAlphanode(list, w)
         IN  /\ new \in Seq(Winners)
             /\ OneForEach(new)
             /\ Len(list) <= Len(new)
             /\ \A i \in 1..Len(list) : new[i].height = list[i].height
             /\ HasHeight(new, w.height)
             /\ \A i \in 1..Len(new) :
                  \/ new[i] = w /\ Better(list, w)
                  \/ i \in 1..Len(list) /\ new[i] = list[i]
             /\ \A i \in 1..Len(new) : new[i].height = w.height =>
                  /\ ScoreOf(w) <= ScoreOf(new[i])
                  /\ \A j \in 1..Len(list) : list[j].height = w.height =>
                        ScoreOf(list[j]) <= ScoreOf(new[i])
<1> DEFINE new == AddWinningAlphanode(list, w)
           at == At(list, w.height)
<1>0. /\ ScoreOf(w) \in Nat
      /\ \A i \in 1..Len(list) : list[i] \in Winners /\ ScoreOf(list[i]) \in Nat
  BY ScoreType
<1>1. CASE ~HasHeight(list, w.height)
  <2>1. at = 0 /\ Better(list, w) /\ new = Append(list, w)
    BY <1>1, AtProperties DEF Better, AddWinningAlphanode
  <2>2. /\ new \in Seq(Winners) /\ Len(new) = Len(list) + 1
        /\ \A i \in 1..Len(list) : new[i] = list[i]
        /\ new[Len(list) + 1] = w
    BY <2>1
  <2> HIDE DEF new, at
  <2>3. \A i \in 1..Len(new) : i \in 1..Len(list) \/ i = Len(list) + 1
    BY <2>2
  <2>4. OneForEach(new)
    BY <1>1, <2>2, <2>3 DEF OneForEach, HasHeight
  <2>5. HasHeight(new, w.height)
    BY <2>2 DEF HasHeight
  <2>6. \A i \in 1..Len(new) : new[i].height = w.height => i = Len(list) + 1
    BY <1>1, <2>2, <2>3 DEF HasHeight
  <2>7. \A j \in 1..Len(list) : list[j].height # w.height
    BY <1>1 DEF HasHeight
  <2> QED BY <1>0, <2>1, <2>2, <2>3, <2>4, <2>5, <2>6, <2>7 DEF new
<1>2. CASE HasHeight(list, w.height)
  <2>1. at \in 1..Len(list) /\ list[at].height = w.height
    BY <1>2, AtProperties
  <2>2. \A j \in 1..Len(list) : list[j].height = w.height => j = at
    BY <2>1 DEF OneForEach
  <2>3. CASE Better(list, w)
    <3>1. new = [list EXCEPT ![at] = w]
      BY <2>1, <2>3 DEF AddWinningAlphanode
    <3>2. ScoreOf(list[at]) < ScoreOf(w)
      BY <2>1, <2>3 DEF Better
    <3> HIDE DEF at
    <3>3. /\ new \in Seq(Winners) /\ Len(new) = Len(list)
          /\ new[at] = w /\ \A i \in 1..Len(list) : i # at => new[i] = list[i]
      BY <2>1, <3>1
    <3> HIDE DEF new
    <3>4. \A i \in 1..Len(list) : new[i].height = list[i].height
      BY <2>1, <3>3
    <3>5. OneForEach(new)
      BY <3>3, <3>4 DEF OneForEach
    <3>6. HasHeight(new, w.height)
      BY <2>1, <3>3 DEF HasHeight
    <3>7. \A i \in 1..Len(new) : new[i].height = w.height => i = at
      BY <2>2, <3>3, <3>4
    <3> QED BY <1>0, <2>1, <2>2, <2>3, <3>2, <3>3, <3>4, <3>5, <3>6, <3>7 DEF new
  <2>4. CASE ~Better(list, w)
    <3>1. new = list
      BY <2>4 DEF AddWinningAlphanode
    <3>2. ~(ScoreOf(list[at]) < ScoreOf(w))
      BY <2>1, <2>4 DEF Better
    <3>3. ScoreOf(w) <= ScoreOf(list[at])
      BY <1>0, <2>1, <3>2
    <3> HIDE DEF at, new
    <3> QED BY <1>0, <1>2, <2>1, <2>2, <3>1, <3>3 DEF new
  <2> QED BY <2>3, <2>4
<1> QED BY <1>1, <1>2

-----------------------------------------------------------------------------
(* Types *)

\* Who can be elected is an alphanode, and the vote is one for the height.
LEMMA ElectType ==
  ASSUME TypeOK, NEW height \in 1..MaxHeight, NEW a \in Electable,
         NEW w \in Elect(height + Ahead, a)
  PROVE  a \in Alphanodes /\ w \in Winners /\ w.height = height + Ahead
<1>1. a \in enabled
  BY DEF Electable, OldestPaid
<1>2. a \in Alphanodes
  BY <1>1 DEF TypeOK
<1>3. height + Ahead \in Heights
  BY PaymentsAssumption DEF Heights
<1> QED BY <1>2, <1>3 DEF Elect, Winners

\* Every height of a winner is a number.
LEMMA HeightType ==
  \A w \in Winners : w.height \in Heights /\ w.height \in Nat /\ w.vin \in Alphanodes
  BY DEF Winners, Heights

Known(n) ==
    /\ OneForEach(vWinning[n])
    /\ \A s \in mapSeenAlphanodeVotes[n] : HasHeight(vWinning[n], s.height)
    /\ \A i \in 1..Len(vWinning[n]), s \in mapSeenAlphanodeVotes[n] :
          s.height = vWinning[n][i].height => ScoreOf(s) <= ScoreOf(vWinning[n][i])

IndInv == TypeOK /\ \A n \in Nodes : Known(n)

\* A node that gives a vote to AddWinningAlphanode and sees at most this vote
\* stays in order.
LEMMA AddKeepsKnown ==
  ASSUME IndInv, NEW n \in Nodes, NEW w \in Winners,
         vWinning' = [vWinning EXCEPT ![n] = AddWinningAlphanode(@, w)],
         NEW more \in SUBSET {w},
         mapSeenAlphanodeVotes' =
            [mapSeenAlphanodeVotes EXCEPT ![n] = @ \cup more]
  PROVE  /\ vWinning' \in [Nodes -> Seq(Winners)]
         /\ mapSeenAlphanodeVotes' \in [Nodes -> SUBSET Winners]
         /\ \A o \in Nodes : Known(o)'
<1> DEFINE list == vWinning[n]
           new == AddWinningAlphanode(list, w)
           seen == mapSeenAlphanodeVotes[n]
<1>1. list \in Seq(Winners) /\ seen \subseteq Winners /\ OneForEach(list)
  BY DEF IndInv, TypeOK, Known
<1>2. vWinning'[n] = new /\ mapSeenAlphanodeVotes'[n] = seen \cup more
  BY DEF IndInv, TypeOK
<1>3. \A o \in Nodes \ {n} : /\ vWinning'[o] = vWinning[o]
                             /\ mapSeenAlphanodeVotes'[o] = mapSeenAlphanodeVotes[o]
  BY DEF IndInv, TypeOK
<1>4. /\ new \in Seq(Winners) /\ OneForEach(new) /\ Len(list) <= Len(new)
      /\ \A i \in 1..Len(list) : new[i].height = list[i].height
      /\ HasHeight(new, w.height)
      /\ \A i \in 1..Len(new) : new[i] = w \/ (i \in 1..Len(list) /\ new[i] = list[i])
      /\ \A i \in 1..Len(new) : new[i].height = w.height =>
            /\ ScoreOf(w) <= ScoreOf(new[i])
            /\ \A j \in 1..Len(list) : list[j].height = w.height =>
                  ScoreOf(list[j]) <= ScoreOf(new[i])
  BY <1>1, AddProperties
<1>5. /\ \A s \in seen : HasHeight(list, s.height)
      /\ \A i \in 1..Len(list), s \in seen :
            s.height = list[i].height => ScoreOf(s) <= ScoreOf(list[i])
  BY DEF IndInv, Known
<1>6. Known(n)'
  <2> HIDE DEF new, list, seen
  <2>1. \A s \in seen \cup more : HasHeight(new, s.height)
    <3>1. \A s \in seen : HasHeight(new, s.height)
      BY <1>1, <1>4, <1>5 DEF HasHeight
    <3> QED BY <1>4, <3>1
  <2>2. ASSUME NEW i \in 1..Len(new), NEW s \in seen \cup more, s.height = new[i].height
        PROVE  ScoreOf(s) <= ScoreOf(new[i])
    <3>1. CASE new[i].height # w.height
      BY <1>1, <1>4, <1>5, <2>2, <3>1
    <3>2. CASE new[i].height = w.height /\ s = w
      BY <1>4, <3>2
    <3>3. CASE new[i].height = w.height /\ s # w
      <4>1. s \in seen /\ s \in Winners
        BY <1>1, <3>3
      <4>2. PICK j \in 1..Len(list) : list[j].height = s.height
        BY <1>5, <4>1 DEF HasHeight
      <4>3. ScoreOf(s) <= ScoreOf(list[j]) /\ ScoreOf(list[j]) <= ScoreOf(new[i])
        BY <1>4, <1>5, <2>2, <3>3, <4>1, <4>2
      <4>4. list[j] \in Winners /\ new[i] \in Winners
        BY <1>1, <1>4
      <4> QED BY <4>1, <4>3, <4>4, ScoreType
    <3> QED BY <3>1, <3>2, <3>3
  <2> QED BY <1>2, <1>4, <2>1, <2>2 DEF Known
<1>7. \A o \in Nodes \ {n} : Known(o)'
  BY <1>3 DEF IndInv, Known
<1>8. vWinning' \in [Nodes -> Seq(Winners)]
  BY <1>1, <1>4 DEF IndInv, TypeOK
<1>9. mapSeenAlphanodeVotes' \in [Nodes -> SUBSET Winners]
  BY <1>1 DEF IndInv, TypeOK
<1> QED BY <1>6, <1>7, <1>8, <1>9

\* Votes passed on are votes.
LEMMA RelayType ==
  ASSUME TypeOK, NEW n \in Nodes, NEW w \in Winners
  PROVE  Relay(n, w) \in [Nodes -> SUBSET Winners]
  BY DEF TypeOK, Relay

\* Every step keeps the types and what each node knows in order.
LEMMA Invariance == IndInv /\ [Next]_vars => IndInv'
<1> SUFFICES ASSUME IndInv, [Next]_vars PROVE IndInv'
  OBVIOUS
<1> USE DEF votes
<1>1. CASE UNCHANGED vars
  BY <1>1 DEF IndInv, TypeOK, Known, vars
<1>2. ASSUME NEW n \in Nodes, NEW height, NewBlock(n, height) PROVE IndInv'
  <2>1. /\ nHeight' \in [Nodes -> 1..MaxHeight]
        /\ enabled' = enabled /\ faults' = faults /\ restarted' = restarted
        /\ height \in 1..MaxHeight
    BY <1>2 DEF IndInv, TypeOK, NewBlock
  <2>2. CASE ~(n = Master /\ Elects(height + Ahead))
    BY <1>2, <2>1, <2>2 DEF IndInv, TypeOK, Known, NewBlock
  <2>3. CASE n = Master /\ Elects(height + Ahead)
    <3>a. PICK a \in Electable : \E w \in Elect(height + Ahead, a) :
              /\ vWinning' = [vWinning EXCEPT ![n] = AddWinningAlphanode(@, w)]
              /\ IF Better(vWinning[n], w)
                 THEN /\ mapSeenAlphanodeVotes' =
                            [mapSeenAlphanodeVotes EXCEPT ![n] = Remembered(n, w)]
                      /\ nLastBlockHeight' = height + Ahead
                      /\ waited' = Waited(a)
                 ELSE UNCHANGED <<mapSeenAlphanodeVotes, nLastBlockHeight, waited>>
              /\ arriving' = Relay(n, w)
      BY <1>2, <2>3 DEF NewBlock
    <3>1. PICK w \in Elect(height + Ahead, a) :
              /\ vWinning' = [vWinning EXCEPT ![n] = AddWinningAlphanode(@, w)]
              /\ IF Better(vWinning[n], w)
                 THEN /\ mapSeenAlphanodeVotes' =
                            [mapSeenAlphanodeVotes EXCEPT ![n] = Remembered(n, w)]
                      /\ nLastBlockHeight' = height + Ahead
                      /\ waited' = Waited(a)
                 ELSE UNCHANGED <<mapSeenAlphanodeVotes, nLastBlockHeight, waited>>
              /\ arriving' = Relay(n, w)
      BY <3>a
    <3>2. w \in Winners /\ w.height = height + Ahead
      BY <2>1, ElectType DEF IndInv
    <3>3. PICK more \in SUBSET {w} :
            mapSeenAlphanodeVotes' = [mapSeenAlphanodeVotes EXCEPT ![n] = @ \cup more]
      <4>1. CASE Better(vWinning[n], w)
        BY <3>1, <4>1 DEF Remembered
      <4>2. CASE ~Better(vWinning[n], w)
        <5>1. mapSeenAlphanodeVotes' = [mapSeenAlphanodeVotes EXCEPT ![n] = @ \cup {}]
          BY <3>1, <4>2 DEF IndInv, TypeOK
        <5> QED BY <5>1
      <4> QED BY <4>1, <4>2
    <3>4. /\ vWinning' \in [Nodes -> Seq(Winners)]
          /\ mapSeenAlphanodeVotes' \in [Nodes -> SUBSET Winners]
          /\ \A o \in Nodes : Known(o)'
      BY <3>1, <3>2, <3>3, AddKeepsKnown
    <3>5. arriving' \in [Nodes -> SUBSET Winners]
      BY <3>1, <3>2, RelayType DEF IndInv
    <3>6. nLastBlockHeight' \in Nat
      BY <2>1, <3>1, PaymentsAssumption DEF IndInv, TypeOK
    <3>7. waited' \in [Alphanodes -> Nat]
      <4>1. waited' \in {waited, Waited(a)}
        BY <3>1
      <4>2. Waited(a) \in [Alphanodes -> Nat]
        BY DEF IndInv, TypeOK, Waited
      <4> QED BY <4>1, <4>2 DEF IndInv, TypeOK
    <3> QED BY <2>1, <3>4, <3>5, <3>6, <3>7 DEF IndInv, TypeOK
  <2> QED BY <2>2, <2>3
<1>3. ASSUME NEW n \in Nodes, NEW w, Mnw(n, w) PROVE IndInv'
  <2>1. /\ w \in Winners /\ w \in arriving[n]
        /\ UNCHANGED <<nHeight, nLastBlockHeight, enabled, faults, restarted>>
    BY <1>3 DEF IndInv, TypeOK, Mnw
  <2>2. waited' \in [Alphanodes -> Nat]
    BY <1>3 DEF IndInv, TypeOK, Mnw
  <2>3. CASE Seen(n, w) \/ ~InRange(n, w.height)
    <3>1. /\ arriving' = [arriving EXCEPT ![n] = @ \ {w}]
          /\ UNCHANGED <<vWinning, mapSeenAlphanodeVotes>>
      BY <1>3, <2>3 DEF Mnw
    <3> QED BY <2>1, <2>2, <3>1 DEF IndInv, TypeOK, Known
  <2>4. CASE ~(Seen(n, w) \/ ~InRange(n, w.height))
    <3>1. /\ mapSeenAlphanodeVotes' = [mapSeenAlphanodeVotes EXCEPT ![n] = @ \cup {w}]
          /\ vWinning' = [vWinning EXCEPT ![n] = AddWinningAlphanode(@, w)]
          /\ arriving' = Relay(n, w)
      BY <1>3, <2>4 DEF Mnw
    <3>2. /\ vWinning' \in [Nodes -> Seq(Winners)]
          /\ mapSeenAlphanodeVotes' \in [Nodes -> SUBSET Winners]
          /\ \A o \in Nodes : Known(o)'
      BY <2>1, <3>1, AddKeepsKnown
    <3>3. arriving' \in [Nodes -> SUBSET Winners]
      BY <2>1, <3>1, RelayType DEF IndInv
    <3> QED BY <2>1, <2>2, <3>2, <3>3 DEF IndInv, TypeOK
  <2> QED BY <2>3, <2>4
<1>4. ASSUME NEW n \in Nodes, Restart(n) PROVE IndInv'
  <2>1. TypeOK'
    <3>1. faults' \in 0..MaxFaults
      BY <1>4, PaymentsAssumption DEF IndInv, TypeOK, Restart
    <3>2. /\ nLastBlockHeight' \in Nat /\ restarted' \in BOOLEAN
          /\ waited' \in [Alphanodes -> Nat]
      <4>1. CASE n = Master
        BY <1>4, <4>1 DEF Restart
      <4>2. CASE n # Master
        BY <1>4, <4>2 DEF IndInv, TypeOK, Restart
      <4> QED BY <4>1, <4>2
    <3>3. /\ vWinning' \in [Nodes -> Seq(Winners)]
          /\ mapSeenAlphanodeVotes' \in [Nodes -> SUBSET Winners]
          /\ arriving' \in [Nodes -> SUBSET Winners]
      BY <1>4 DEF IndInv, TypeOK, Restart
    <3> QED BY <1>4, <3>1, <3>2, <3>3 DEF IndInv, TypeOK, Restart
  <2>2. Known(n)'
    BY <1>4 DEF IndInv, TypeOK, Known, Restart, OneForEach, HasHeight
  <2>3. \A o \in Nodes \ {n} : Known(o)'
    BY <1>4 DEF IndInv, TypeOK, Known, Restart
  <2> QED BY <2>1, <2>2, <2>3 DEF IndInv
<1>5. ASSUME NEW n \in Nodes, NEW w, Lose(n, w) PROVE IndInv'
  <2>1. TypeOK'
    BY <1>5, PaymentsAssumption DEF IndInv, TypeOK, Lose
  <2>2. \A o \in Nodes : Known(o)'
    BY <1>5 DEF IndInv, Known, Lose
  <2> QED BY <2>1, <2>2 DEF IndInv
<1>6. ASSUME NEW a \in Alphanodes, AlphanodeList(a) PROVE IndInv'
  <2>1. TypeOK'
    BY <1>6, PaymentsAssumption DEF IndInv, TypeOK, AlphanodeList
  <2>2. \A o \in Nodes : Known(o)'
    BY <1>6 DEF IndInv, Known, AlphanodeList
  <2> QED BY <2>1, <2>2 DEF IndInv
<1> QED BY <1>1, <1>2, <1>3, <1>4, <1>5, <1>6 DEF Next, NodeStep

LEMMA Initially == Init => IndInv
<1> SUFFICES ASSUME Init PROVE IndInv
  OBVIOUS
<1>1. TypeOK
  <2>1. 1 \in 1..MaxHeight /\ 0 \in 0..MaxFaults
    BY PaymentsAssumption
  <2>2. <<>> \in Seq(Winners)
    OBVIOUS
  <2>3. /\ nHeight \in [Nodes -> 1..MaxHeight] /\ vWinning \in [Nodes -> Seq(Winners)]
        /\ waited \in [Alphanodes -> Nat]
    BY <2>1, <2>2 DEF Init
  <2>4. /\ mapSeenAlphanodeVotes \in [Nodes -> SUBSET Winners]
        /\ arriving \in [Nodes -> SUBSET Winners] /\ enabled \subseteq Alphanodes
    BY DEF Init
  <2>5. nLastBlockHeight \in Nat /\ faults \in 0..MaxFaults /\ restarted \in BOOLEAN
    BY <2>1 DEF Init
  <2> QED BY <2>3, <2>4, <2>5 DEF TypeOK
<1>2. \A n \in Nodes : Known(n)
  BY DEF Init, Known, OneForEach, HasHeight
<1> QED BY <1>1, <1>2 DEF IndInv

LEMMA Inductive == Spec => []IndInv
<1> QED BY Initially, Invariance, PTL DEF Spec

\* Every variable always holds a value of its type.
THEOREM TypeCorrect == Spec => []TypeOK
<1>1. IndInv => TypeOK
  BY DEF IndInv
<1> QED BY <1>1, Inductive, PTL

\* A node knows one winner for a height, the furthest of all it has seen, for
\* any scores and any order of votes.
THEOREM WinnerIsFurthestCorrect == Spec => []WinnerIsFurthest
<1>1. ASSUME IndInv, NEW n \in Nodes, NEW i \in 1..Len(vWinning[n])
      PROVE  LET w == vWinning[n][i]
             IN  /\ At(vWinning[n], w.height) = i
                 /\ \A s \in mapSeenAlphanodeVotes[n] :
                       s.height = w.height => ScoreOf(s) <= ScoreOf(w)
  <2>1. HasHeight(vWinning[n], vWinning[n][i].height)
    BY DEF HasHeight
  <2>2. At(vWinning[n], vWinning[n][i].height) = i
    BY <1>1, <2>1, AtProperties DEF IndInv, Known, OneForEach
  <2> QED BY <1>1, <2>2 DEF IndInv, Known
<1>2. IndInv => WinnerIsFurthest
  BY <1>1 DEF WinnerIsFurthest
<1> QED BY <1>2, Inductive, PTL

-----------------------------------------------------------------------------
(* All votes are the master's *)

\* As long as the master was not started again it is past every height it has
\* elected for, has seen all its own votes, and nobody has another.
Ours ==
    LET list == vWinning[Master]
    IN  /\ \A i \in 1..Len(list) : list[i].height <= nLastBlockHeight /\ Seen(Master, list[i])
        /\ \A n \in Nodes : \A w \in arriving[n] : Has(list, w)
        /\ \A n \in Nodes : \A i \in 1..Len(vWinning[n]) : Has(list, vWinning[n][i])

OursInv == IndInv /\ (~restarted => Ours)

\* While the list of the master stays, every vote taken from those on their way
\* is one of its own.
LEMMA OthersKeepOurs ==
  ASSUME OursInv, ~restarted, vWinning'[Master] = vWinning[Master],
         nLastBlockHeight' = nLastBlockHeight,
         mapSeenAlphanodeVotes[Master] \subseteq mapSeenAlphanodeVotes'[Master],
         \A n \in Nodes : \A w \in arriving'[n] : Has(vWinning[Master], w),
         \A n \in Nodes : \A i \in 1..Len(vWinning'[n]) : Has(vWinning[Master], vWinning'[n][i])
  PROVE  Ours'
  BY DEF OursInv, Ours, Seen

\* The master hears only what it has seen.
LEMMA MasterHeard ==
  ASSUME OursInv, ~restarted, NEW w \in arriving[Master]
  PROVE  Seen(Master, w)
<1>1. Has(vWinning[Master], w)
  BY PaymentsAssumption DEF OursInv, Ours
<1> QED BY <1>1 DEF Has, OursInv, Ours

\* It has no winner yet for a height past its last election.
LEMMA NothingYet ==
  ASSUME OursInv, ~restarted, NEW w \in Winners, w.height > nLastBlockHeight
  PROVE  LET list == vWinning[Master]
         IN  Better(list, w) /\ AddWinningAlphanode(list, w) = Append(list, w)
<1> DEFINE list == vWinning[Master]
<1>1. list \in Seq(Winners) /\ nLastBlockHeight \in Nat
  BY PaymentsAssumption DEF OursInv, IndInv, TypeOK
<1>2. \A i \in 1..Len(list) : list[i].height \in Nat /\ list[i].height <= nLastBlockHeight
  BY <1>1, HeightType DEF OursInv, Ours
<1>3. ~HasHeight(list, w.height)
  BY <1>1, <1>2, HeightType DEF HasHeight
<1>4. At(list, w.height) = 0
  BY <1>3, AtProperties
<1> QED BY <1>4 DEF Better, AddWinningAlphanode

LEMMA OursInvariance == OursInv /\ [Next]_vars => OursInv'
<1> SUFFICES ASSUME OursInv, [Next]_vars, ~restarted' PROVE Ours'
  BY Invariance DEF OursInv
<1> USE DEF votes
<1>0. IndInv /\ TypeOK /\ Master \in Nodes
  BY PaymentsAssumption DEF OursInv, IndInv
<1>1. CASE UNCHANGED vars
  BY <1>1 DEF OursInv, Ours, vars, Seen
<1>2. ASSUME NEW n \in Nodes, NEW height, NewBlock(n, height) PROVE Ours'
  <2>1. ~restarted /\ height \in 1..MaxHeight
    BY <1>2 DEF NewBlock
  <2>2. CASE ~(n = Master /\ Elects(height + Ahead))
    <3>1. UNCHANGED <<vWinning, mapSeenAlphanodeVotes, arriving, nLastBlockHeight>>
      BY <1>2, <2>2 DEF NewBlock
    <3> QED BY <2>1, <3>1 DEF OursInv, Ours, Seen
  <2>3. CASE n = Master /\ Elects(height + Ahead)
    <3>a. PICK a \in Electable : \E w \in Elect(height + Ahead, a) :
              /\ vWinning' = [vWinning EXCEPT ![n] = AddWinningAlphanode(@, w)]
              /\ IF Better(vWinning[n], w)
                 THEN /\ mapSeenAlphanodeVotes' =
                            [mapSeenAlphanodeVotes EXCEPT ![n] = Remembered(n, w)]
                      /\ nLastBlockHeight' = height + Ahead
                      /\ waited' = Waited(a)
                 ELSE UNCHANGED <<mapSeenAlphanodeVotes, nLastBlockHeight, waited>>
              /\ arriving' = Relay(n, w)
      BY <1>2, <2>3 DEF NewBlock
    <3>b. PICK w \in Elect(height + Ahead, a) :
              /\ vWinning' = [vWinning EXCEPT ![n] = AddWinningAlphanode(@, w)]
              /\ IF Better(vWinning[n], w)
                 THEN /\ mapSeenAlphanodeVotes' =
                            [mapSeenAlphanodeVotes EXCEPT ![n] = Remembered(n, w)]
                      /\ nLastBlockHeight' = height + Ahead
                      /\ waited' = Waited(a)
                 ELSE UNCHANGED <<mapSeenAlphanodeVotes, nLastBlockHeight, waited>>
              /\ arriving' = Relay(n, w)
      BY <3>a
    <3> DEFINE list == vWinning[Master]
    <3>1. w \in Winners /\ w.height = height + Ahead
      BY <1>0, <2>1, ElectType
    <3>2. list \in Seq(Winners) /\ nLastBlockHeight \in Nat /\ height + Ahead \in Nat
      BY <1>0, <2>1, PaymentsAssumption DEF TypeOK
    <3>3. Better(list, w) /\ AddWinningAlphanode(list, w) = Append(list, w)
      <4>1. w.height > nLastBlockHeight
        BY <2>3, <3>1 DEF Elects
      <4> QED BY <2>1, <3>1, <4>1, NothingYet
    <3>6. /\ vWinning'[Master] = Append(list, w)
          /\ \A o \in Nodes \ {Master} : vWinning'[o] = vWinning[o]
          /\ mapSeenAlphanodeVotes'[Master] = Remembered(Master, w)
          /\ nLastBlockHeight' = height + Ahead
      BY <1>0, <2>3, <3>b, <3>3 DEF TypeOK
    <3>7. \A x : Has(list, x) \/ x = w => Has(Append(list, w), x)
      BY <3>2 DEF Has
    <3>8. \A i \in 1..Len(Append(list, w)) :
            /\ Append(list, w)[i].height <= height + Ahead
            /\ \E s \in Remembered(Master, w) : /\ s.height = Append(list, w)[i].height
                                                /\ s.vin = Append(list, w)[i].vin
      <4> SUFFICES ASSUME NEW i \in 1..Len(Append(list, w))
                   PROVE  /\ Append(list, w)[i].height <= height + Ahead
                          /\ \E s \in Remembered(Master, w) :
                               /\ s.height = Append(list, w)[i].height
                               /\ s.vin = Append(list, w)[i].vin
        OBVIOUS
      <4>1. CASE i \in 1..Len(list)
        <5>1. Append(list, w)[i] = list[i] /\ list[i].height \in Nat
          BY <3>2, <4>1, HeightType
        <5>2. list[i].height <= nLastBlockHeight /\ Seen(Master, list[i])
          BY <2>1, <4>1 DEF OursInv, Ours
        <5>3. height + Ahead > nLastBlockHeight
          BY <2>3 DEF Elects
        <5>4. list[i].height <= height + Ahead
          BY <3>2, <5>1, <5>2, <5>3
        <5>5. PICK s \in mapSeenAlphanodeVotes[Master] :
                s.height = list[i].height /\ s.vin = list[i].vin
          BY <5>2 DEF Seen
        <5>6. s \in Remembered(Master, w)
          BY <5>5 DEF Remembered
        <5> QED BY <5>1, <5>4, <5>5, <5>6
      <4>2. CASE i = Len(list) + 1
        <5>1. Append(list, w)[i] = w
          BY <3>2, <4>2
        <5>2. CASE Seen(Master, w)
          <6>1. PICK s \in mapSeenAlphanodeVotes[Master] : s.height = w.height /\ s.vin = w.vin
            BY <5>2 DEF Seen
          <6>2. s \in Remembered(Master, w)
            BY <6>1 DEF Remembered
          <6> QED BY <3>1, <3>2, <5>1, <6>1, <6>2
        <5>3. CASE ~Seen(Master, w)
          <6>1. w \in Remembered(Master, w)
            BY <5>3 DEF Remembered
          <6> QED BY <3>1, <3>2, <5>1, <6>1
        <5> QED BY <5>2, <5>3
      <4> QED BY <3>2, <4>1, <4>2
    <3>9. \A o \in Nodes : \A x \in arriving'[o] : Has(vWinning'[Master], x)
      <4>1. \A o \in Nodes : \A x \in arriving'[o] : x \in arriving[o] \/ x = w
        BY <3>b DEF Relay
      <4>2. \A o \in Nodes : \A x \in arriving[o] : Has(list, x)
        BY <2>1 DEF OursInv, Ours
      <4> QED BY <3>6, <3>7, <4>1, <4>2
    <3>10. \A o \in Nodes : \A i \in 1..Len(vWinning'[o]) : Has(vWinning'[Master], vWinning'[o][i])
      <4>1. \A o \in Nodes \ {Master} : \A i \in 1..Len(vWinning'[o]) : Has(list, vWinning'[o][i])
        BY <2>1, <3>6 DEF OursInv, Ours
      <4>2. \A i \in 1..Len(vWinning'[Master]) : Has(vWinning'[Master], vWinning'[Master][i])
        BY DEF Has
      <4> QED BY <3>6, <3>7, <4>1, <4>2
    <3> HIDE DEF list
    <3>11. \A i \in 1..Len(vWinning'[Master]) :
             /\ vWinning'[Master][i].height <= nLastBlockHeight'
             /\ \E s \in mapSeenAlphanodeVotes'[Master] :
                   s.height = vWinning'[Master][i].height /\ s.vin = vWinning'[Master][i].vin
      BY <3>6, <3>8
    <3> QED BY <3>9, <3>10, <3>11 DEF Ours, Seen
  <2> QED BY <2>2, <2>3
<1>3. ASSUME NEW n \in Nodes, NEW w \in arriving[n], Mnw(n, w) PROVE Ours'
  <2>1. ~restarted /\ nLastBlockHeight' = nLastBlockHeight
    BY <1>3 DEF Mnw
  <2>2. Has(vWinning[Master], w)
    BY <1>3, <2>1 DEF OursInv, Ours
  <2>3. CASE Seen(n, w) \/ ~InRange(n, w.height)
    <3>1. /\ arriving' = [arriving EXCEPT ![n] = @ \ {w}]
          /\ UNCHANGED <<vWinning, mapSeenAlphanodeVotes>>
      BY <1>3, <2>3 DEF Mnw
    <3>2. \A o \in Nodes : arriving'[o] \subseteq arriving[o]
      BY <1>0, <3>1 DEF TypeOK
    <3> QED BY <2>1, <3>1, <3>2, OthersKeepOurs DEF OursInv, Ours
  <2>4. CASE ~(Seen(n, w) \/ ~InRange(n, w.height))
    <3>1. /\ mapSeenAlphanodeVotes' = [mapSeenAlphanodeVotes EXCEPT ![n] = @ \cup {w}]
          /\ vWinning' = [vWinning EXCEPT ![n] = AddWinningAlphanode(@, w)]
          /\ arriving' = Relay(n, w)
      BY <1>3, <2>4 DEF Mnw
    <3>2. n # Master
      BY <1>3, <2>1, <2>4, MasterHeard
    <3>3. /\ vWinning'[n] = AddWinningAlphanode(vWinning[n], w)
          /\ \A o \in Nodes \ {n} : vWinning'[o] = vWinning[o]
          /\ vWinning'[Master] = vWinning[Master]
          /\ mapSeenAlphanodeVotes'[Master] = mapSeenAlphanodeVotes[Master]
      BY <1>0, <3>1, <3>2 DEF TypeOK
    <3>4. \A i \in 1..Len(vWinning'[n]) : Has(vWinning[Master], vWinning'[n][i])
      <4>1. vWinning[n] \in Seq(Winners) /\ OneForEach(vWinning[n]) /\ w \in Winners
        BY <1>0 DEF IndInv, Known, TypeOK
      <4>2. \A i \in 1..Len(vWinning'[n]) :
              vWinning'[n][i] = w \/ (i \in 1..Len(vWinning[n]) /\ vWinning'[n][i] = vWinning[n][i])
        <5> DEFINE list == vWinning[n]
                   new == AddWinningAlphanode(list, w)
        <5>1. \A i \in 1..Len(new) : new[i] = w \/ (i \in 1..Len(list) /\ new[i] = list[i])
          BY <4>1, AddProperties
        <5> QED BY <3>3, <5>1
      <4>3. \A i \in 1..Len(vWinning[n]) : Has(vWinning[Master], vWinning[n][i])
        BY <2>1 DEF OursInv, Ours
      <4> QED BY <2>2, <4>2, <4>3
    <3>5. \A o \in Nodes : \A i \in 1..Len(vWinning'[o]) : Has(vWinning[Master], vWinning'[o][i])
      BY <2>1, <3>3, <3>4 DEF OursInv, Ours
    <3>6. \A o \in Nodes : \A x \in arriving'[o] : Has(vWinning[Master], x)
      <4>1. \A o \in Nodes : \A x \in arriving'[o] : x \in arriving[o] \/ x = w
        BY <3>1 DEF Relay
      <4> QED BY <2>1, <2>2, <4>1 DEF OursInv, Ours
    <3> QED BY <2>1, <3>3, <3>5, <3>6, OthersKeepOurs
  <2> QED BY <2>3, <2>4
<1>4. ASSUME NEW n \in Nodes, Restart(n) PROVE Ours'
  <2>1. n # Master /\ ~restarted /\ nLastBlockHeight' = nLastBlockHeight
    BY <1>4 DEF Restart
  <2>2. /\ vWinning' = [vWinning EXCEPT ![n] = <<>>]
        /\ mapSeenAlphanodeVotes' = [mapSeenAlphanodeVotes EXCEPT ![n] = {}]
        /\ arriving' = [arriving EXCEPT ![n] = {}]
    BY <1>4 DEF Restart
  <2>3. /\ vWinning'[Master] = vWinning[Master]
        /\ mapSeenAlphanodeVotes'[Master] = mapSeenAlphanodeVotes[Master]
        /\ vWinning'[n] = <<>> /\ arriving'[n] = {}
        /\ \A o \in Nodes \ {n} : vWinning'[o] = vWinning[o] /\ arriving'[o] = arriving[o]
    BY <1>0, <2>1, <2>2 DEF TypeOK
  <2>4. \A o \in Nodes : \A x \in arriving'[o] : Has(vWinning[Master], x)
    BY <2>1, <2>3 DEF OursInv, Ours
  <2>5. \A o \in Nodes : \A i \in 1..Len(vWinning'[o]) : Has(vWinning[Master], vWinning'[o][i])
    BY <2>1, <2>3 DEF OursInv, Ours
  <2> QED BY <2>1, <2>3, <2>4, <2>5, OthersKeepOurs
<1>5. ASSUME NEW n \in Nodes, NEW w \in arriving[n], Lose(n, w) PROVE Ours'
  <2>1. /\ ~restarted
        /\ UNCHANGED <<vWinning, mapSeenAlphanodeVotes, nLastBlockHeight>>
        /\ arriving' = [arriving EXCEPT ![n] = @ \ {w}]
    BY <1>5 DEF Lose
  <2>2. \A o \in Nodes : arriving'[o] \subseteq arriving[o]
    BY <1>0, <2>1 DEF TypeOK
  <2> QED BY <2>1, <2>2, OthersKeepOurs DEF OursInv, Ours
<1>6. ASSUME NEW a \in Alphanodes, AlphanodeList(a) PROVE Ours'
  BY <1>6 DEF OursInv, Ours, AlphanodeList, Seen
<1> QED BY <1>1, <1>2, <1>3, <1>4, <1>5, <1>6 DEF Next, NodeStep

LEMMA OursInitially == Init => OursInv
  BY Initially, PaymentsAssumption DEF Init, OursInv, Ours

\* Two nodes never know different winners of a height, for any number of nodes
\* and whatever is lost, as long as the master keeps running.
THEOREM PayeesAgreeCorrect == Spec => []PayeesAgree
<1>1. OursInv => PayeesAgree
  <2> SUFFICES ASSUME OursInv, ~restarted, NEW n \in Nodes, NEW o \in Nodes,
                      NEW height \in Heights,
                      GetBlockPayee(n, height) # {}, GetBlockPayee(o, height) # {}
               PROVE  GetBlockPayee(n, height) = GetBlockPayee(o, height)
    BY DEF PayeesAgree
  <2> DEFINE list == vWinning[Master]
             wOf(m) == vWinning[m][At(vWinning[m], height)]
  <2>1. ASSUME NEW m \in {n, o}
        PROVE  GetBlockPayee(m, height) = {wOf(m)} /\ wOf(m).height = height /\ Has(list, wOf(m))
    <3>1. At(vWinning[m], height) # 0 /\ GetBlockPayee(m, height) = {wOf(m)}
      BY DEF GetBlockPayee
    <3>2. At(vWinning[m], height) \in 1..Len(vWinning[m]) /\ wOf(m).height = height
      BY <3>1, AtProperties
    <3> QED BY <3>1, <3>2 DEF OursInv, Ours
  <2>2. OneForEach(list)
    BY PaymentsAssumption DEF OursInv, IndInv, Known
  <2> HIDE DEF wOf
  <2>3. wOf(n) = wOf(o)
    BY <2>1, <2>2 DEF Has, OneForEach
  <2> QED BY <2>1, <2>3
<1> QED BY <1>1, OursInitially, OursInvariance, PTL DEF Spec

-----------------------------------------------------------------------------
(* The turns *)

\* The positions the election of position j looked back on.
Window(j, size) == {k \in 1..(j - 1) : k >= j - 1 - size}

\* How position j was elected among who is enabled: not one of those it looked
\* back on, or all were there and it is the first of them that is still enabled.
ElectedAt(who, list, j) ==
    LET back == Window(j, Cardinality(who))
    IN  /\ list[j].vin \in who
        /\ \/ \A k \in back : list[k].vin # list[j].vin
           \/ /\ \A a \in who : \E k \in back : list[k].vin = a
              /\ \E k \in back : /\ list[k].vin = list[j].vin
                               /\ \A m \in back : m < k => list[m].vin \notin who

\* An alphanode that has waited for some elections is in none of the last so
\* many of the list, and each of these was elected from the present enabled.
Turns ==
    LET list == vWinning[Master]
    IN  \A a \in enabled :
          /\ waited[a] <= Len(list)
          /\ \A j \in (Len(list) - waited[a] + 1)..Len(list) :
                ElectedAt(enabled, list, j) /\ list[j].vin # a

TurnsInv == OursInv /\ (~restarted => Turns)

\* A set of numbers up to some bound has a largest.
LEMMA GreatestOf ==
  ASSUME NEW b \in Int, NEW T, T \subseteq Int, T # {}, \A t \in T : t <= b
  PROVE  \E m \in T : \A t \in T : t <= m
<1> DEFINE D == {b - t : t \in T}
<1>0. \A t \in T : b - t \in Nat
  OBVIOUS
<1>1. D \subseteq Nat /\ D # {}
  BY <1>0
<1>2. \E m \in D : \A k \in D : ~(<<k, m>> \in OpToRel(<, Nat))
  BY <1>1, NatLessThanWellFounded, WFMin
<1>3. \A k, m \in Nat : ~(<<k, m>> \in OpToRel(<, Nat)) => m <= k
  BY DEF OpToRel
<1>4. PICK d \in D : \A k \in D : d <= k
  BY <1>1, <1>2, <1>3
<1>5. PICK m \in T : d = b - m
  BY <1>4
<1>6. \A t \in T : b - t \in D
  OBVIOUS
<1> HIDE DEF D
<1>7. ASSUME NEW t \in T PROVE t <= m
  <2>1. d <= b - t
    BY <1>4, <1>6
  <2> QED BY <1>5, <2>1
<1> QED BY <1>7

\* Nobody can be left out of one election more than there are alphanodes.  Of so
\* many in a row two have the same winner; take the last that has won before, at
\* j.  It was elected because all had been in its window, and everyone who comes
\* after it, with the one left out, is in this window after the winner and
\* before the row: one place too few.
LEMMA NoLongWait ==
  ASSUME NEW list, NEW L \in Nat, IsFiniteSet(enabled), NEW a \in enabled,
         L > Cardinality(enabled),
         \A j \in (L - Cardinality(enabled))..L :
            ElectedAt(enabled, list, j) /\ list[j].vin # a
  PROVE  FALSE
<1> DEFINE N == Cardinality(enabled)
           Row == (L - N)..L
           Again == {j \in Row : \E i \in Row : i < j /\ list[i].vin = list[j].vin}
<1>1. N \in Nat
  BY FS_CardinalityType
<1>2. Again # {}
  <2> DEFINE f == [j \in Row |-> list[j].vin]
  <2>1. f \in [Row -> enabled]
    BY DEF ElectedAt
  <2>2. IsFiniteSet(Row) /\ Cardinality(Row) = N + 1
    <3>1. L - N \in Int /\ L \in Int /\ ~(L - N > L) /\ L - (L - N) + 1 = N + 1
      BY <1>1
    <3> HIDE DEF N
    <3> QED BY <3>1, FS_Interval
  <2> HIDE DEF f, N
  <2>3. Cardinality(enabled) < Cardinality(Row)
    BY <1>1, <2>2 DEF N
  <2>4. \E x, y \in Row : x # y /\ f[x] = f[y]
    BY <2>1, <2>2, <2>3, FS_PigeonHole
  <2>5. PICK x \in Row, y \in Row : x # y /\ list[x].vin = list[y].vin
    BY <2>4 DEF f
  <2>6. x < y \/ y < x
    BY <1>1, <2>5
  <2> QED BY <2>5, <2>6
<1>3. PICK j \in Again : \A t \in Again : t <= j
  <2>1. Again \subseteq Int /\ \A t \in Again : t <= L
    BY <1>1
  <2>2. L \in Int
    OBVIOUS
  <2> HIDE DEF Again
  <2> QED BY <1>2, <2>1, <2>2, GreatestOf
<1>4. PICK i \in Row : i < j /\ list[i].vin = list[j].vin
  BY <1>3
<1>5. j \in Row /\ j \in Int /\ i \in Int /\ i >= L - N /\ j <= L /\ i >= 1
  BY <1>1, <1>3, <1>4
<1> DEFINE back == Window(j, N)
<1>6. i \in back
  BY <1>1, <1>4, <1>5 DEF Window
<1>7. PICK k \in back : /\ list[k].vin = list[j].vin
                        /\ \A m \in back : m < k => list[m].vin \notin enabled
                        /\ \A e \in enabled : \E m \in back : list[m].vin = e
  BY <1>4, <1>5, <1>6 DEF ElectedAt
<1>8. k \in Int /\ k >= j - 1 - N /\ k < j
  BY <1>1, <1>5, <1>7 DEF Window
<1> DEFINE v(p) == IF p = L + 1 THEN a ELSE list[p].vin
           After == (j + 1)..(L + 1)
           Between == (k + 1)..(L - N - 1)
           g == [p \in After |-> CHOOSE m \in Between : list[m].vin = v(p)]
<1>9. ASSUME NEW p \in After
      PROVE  v(p) \in enabled /\ \A q \in Row : q < p => list[q].vin # v(p)
  <2>1. CASE p = L + 1
    BY <2>1
  <2>2. CASE p # L + 1
    <3>1. p \in Row /\ p > j
      BY <1>1, <1>5, <2>2
    <3>2. p \notin Again
      BY <1>3, <1>5, <3>1
    <3>3. v(p) = list[p].vin
      BY <2>2
    <3> QED BY <3>1, <3>2, <3>3 DEF ElectedAt
  <2> QED BY <2>1, <2>2
<1>10. ASSUME NEW p \in After
       PROVE  \E m \in Between : list[m].vin = v(p)
  <2>1. PICK m \in back : list[m].vin = v(p)
    BY <1>7, <1>9
  <2>2. m \in Int /\ m < j /\ m < p
    BY <1>1, <1>5, <2>1 DEF Window
  <2>3. m >= k
    BY <1>7, <1>8, <1>9, <2>1, <2>2
  <2>4. j < p
    BY <1>5
  <2>5. m # k
    BY <1>5, <1>7, <1>9, <2>1, <2>4
  <2>6. m \notin Row
    BY <1>9, <2>1, <2>2
  <2>7. m < L - N
    BY <1>1, <1>5, <2>2, <2>6
  <2> QED BY <1>1, <1>8, <2>1, <2>2, <2>3, <2>5, <2>7
<1>11. g \in [After -> Between] /\ \A p \in After : list[g[p]].vin = v(p)
  BY <1>10
<1>12. /\ IsFiniteSet(After) /\ IsFiniteSet(Between)
       /\ Cardinality(Between) < Cardinality(After)
  <2>1. /\ j + 1 \in Int /\ L + 1 \in Int /\ k + 1 \in Int /\ L - N - 1 \in Int
    BY <1>1, <1>5, <1>8
  <2>2. /\ IsFiniteSet(After) /\ IsFiniteSet(Between)
        /\ Cardinality(After) = IF j + 1 > L + 1 THEN 0 ELSE (L + 1) - (j + 1) + 1
        /\ Cardinality(Between) = IF k + 1 > L - N - 1 THEN 0 ELSE (L - N - 1) - (k + 1) + 1
    BY <2>1, FS_Interval
  <2> HIDE DEF N, After, Between
  <2> QED BY <1>1, <1>5, <1>8, <2>2
<1> HIDE DEF g, v
<1>13. PICK p \in After, q \in After : p # q /\ g[p] = g[q]
  <2> HIDE DEF After, Between
  <2> QED BY <1>11, <1>12, FS_PigeonHole
<1>14. v(p) = v(q)
  BY <1>11, <1>13
<1>15. ASSUME NEW x \in After, NEW y \in After, x < y PROVE v(x) # v(y)
  <2>1. x \in Row /\ x # L + 1
    BY <1>1, <1>5, <1>15
  <2>2. v(x) = list[x].vin
    BY <2>1 DEF v
  <2> QED BY <1>9, <1>15, <2>1, <2>2
<1>16. p < q \/ q < p
  BY <1>13, <1>5
<1> QED BY <1>14, <1>15, <1>16

\* Who is electable is elected as ElectedAt says.
LEMMA ElectableTurn ==
  ASSUME TypeOK, NEW a \in Electable, NEW w \in Winners, w.vin = a
  PROVE  ElectedAt(enabled, Append(vWinning[Master], w), Len(vWinning[Master]) + 1)
<1> DEFINE list == vWinning[Master]
           L == Len(list)
           N == Cardinality(enabled)
           first == IF L > N + 1 THEN L - (N + 1) + 1 ELSE 1
           new == Append(list, w)
           back == Window(L + 1, N)
<1>1. list \in Seq(Winners) /\ L \in Nat /\ N \in Nat
  <2>1. IsFiniteSet(enabled)
    BY PaymentsAssumption, FS_Subset DEF TypeOK
  <2> QED BY <2>1, FS_CardinalityType, PaymentsAssumption DEF TypeOK
<1>2. LastPayments = SubSeq(list, first, L)
  BY DEF LastPayments
<1>3. first \in Nat /\ first >= 1 /\ first <= L + 1
  BY <1>1
<1>4. back = first..L
  BY <1>1 DEF Window
<1>5. /\ Len(LastPayments) = L - first + 1
      /\ \A i \in 1..Len(LastPayments) : LastPayments[i] = list[first + i - 1]
  <2> HIDE DEF list, L, first
  <2> QED BY <1>1, <1>2, <1>3
<1>6. new[L + 1] = w /\ \A k \in 1..L : new[k] = list[k]
  BY <1>1
<1> HIDE DEF list, L, N, first, new, back
<1>7. \A k \in back : k \in 1..L /\ new[k] = list[k]
  BY <1>1, <1>3, <1>4, <1>6
<1>8. \A k \in back : /\ k - first + 1 \in 1..Len(LastPayments)
                      /\ LastPayments[k - first + 1] = new[k]
  <2> SUFFICES ASSUME NEW k \in back
               PROVE  /\ k - first + 1 \in 1..Len(LastPayments)
                      /\ LastPayments[k - first + 1] = new[k]
    OBVIOUS
  <2>1. k - first + 1 \in 1..Len(LastPayments)
    BY <1>1, <1>3, <1>4, <1>5
  <2>2. LastPayments[k - first + 1] = list[first + (k - first + 1) - 1]
    BY <1>5, <2>1
  <2>3. first + (k - first + 1) - 1 = k
    BY <1>1, <1>3, <1>4
  <2> QED BY <1>7, <2>1, <2>2, <2>3
<1>9. \A i \in 1..Len(LastPayments) : /\ first + i - 1 \in back
                                     /\ LastPayments[i] = new[first + i - 1]
  <2>1. \A i \in 1..Len(LastPayments) : first + i - 1 \in back
    BY <1>1, <1>3, <1>4, <1>5
  <2> QED BY <1>5, <1>7, <2>1
<1>10. a \in enabled
  BY DEF Electable, OldestPaid
<1>11. CASE enabled \subseteq Paid
  <2>1. \A e \in enabled : \E k \in back : new[k].vin = e
    BY <1>9, <1>11 DEF Paid
  <2>2. a \in OldestPaid
    BY <1>11 DEF Electable
  <2>3. PICK i \in 1..Len(LastPayments) :
          /\ LastPayments[i].vin = a
          /\ \A j \in 1..(i - 1) : LastPayments[j].vin \notin enabled
    BY <2>2 DEF OldestPaid
  <2>4. first + i - 1 \in back /\ new[first + i - 1].vin = a
    BY <1>9, <2>3
  <2>5. ASSUME NEW m \in back, m < first + i - 1 PROVE new[m].vin \notin enabled
    <3>1. m - first + 1 \in 1..(i - 1)
      BY <1>1, <1>3, <1>4, <2>3, <2>5
    <3> QED BY <1>8, <2>3, <3>1
  <2> QED BY <1>6, <1>10, <2>1, <2>4, <2>5 DEF ElectedAt, back, N, L, new, list
<1>12. CASE ~(enabled \subseteq Paid)
  <2>1. a \notin Paid
    BY <1>12 DEF Electable
  <2>2. \A k \in back : new[k].vin # a
    BY <1>8, <2>1 DEF Paid
  <2> QED BY <1>6, <1>10, <2>2 DEF ElectedAt, back, N, L, new, list
<1> QED BY <1>11, <1>12

LEMMA TurnsInvariance == TurnsInv /\ [Next]_vars => TurnsInv'
<1> SUFFICES ASSUME TurnsInv, [Next]_vars, ~restarted' PROVE Turns'
  BY OursInvariance DEF TurnsInv
<1> USE DEF votes
<1>0. OursInv /\ IndInv /\ TypeOK /\ Master \in Nodes
  BY PaymentsAssumption DEF TurnsInv, OursInv, IndInv
<1>1. ASSUME ~restarted, vWinning'[Master] = vWinning[Master], UNCHANGED <<enabled, waited>>
      PROVE  Turns'
  BY <1>1 DEF TurnsInv, Turns
<1>2. CASE UNCHANGED vars
  BY <1>1, <1>2 DEF vars
<1>3. ASSUME NEW n \in Nodes, NEW height, NewBlock(n, height) PROVE Turns'
  <2>1. ~restarted /\ height \in 1..MaxHeight /\ enabled' = enabled
    BY <1>3 DEF NewBlock
  <2>2. CASE ~(n = Master /\ Elects(height + Ahead))
    BY <1>1, <1>3, <2>1, <2>2 DEF NewBlock
  <2>3. CASE n = Master /\ Elects(height + Ahead)
    <3>1. PICK a \in Electable : \E w \in Elect(height + Ahead, a) :
              /\ vWinning' = [vWinning EXCEPT ![n] = AddWinningAlphanode(@, w)]
              /\ IF Better(vWinning[n], w)
                 THEN /\ mapSeenAlphanodeVotes' =
                            [mapSeenAlphanodeVotes EXCEPT ![n] = Remembered(n, w)]
                      /\ nLastBlockHeight' = height + Ahead
                      /\ waited' = Waited(a)
                 ELSE UNCHANGED <<mapSeenAlphanodeVotes, nLastBlockHeight, waited>>
              /\ arriving' = Relay(n, w)
      BY <1>3, <2>3 DEF NewBlock
    <3>2. PICK w \in Elect(height + Ahead, a) :
              /\ vWinning' = [vWinning EXCEPT ![n] = AddWinningAlphanode(@, w)]
              /\ Better(vWinning[n], w) => waited' = Waited(a)
      BY <3>1
    <3> DEFINE list == vWinning[Master]
               L == Len(list)
               new == Append(list, w)
    <3>3. w \in Winners /\ w.vin = a /\ w.height > nLastBlockHeight
      BY <1>0, <2>1, <2>3, ElectType DEF Elect, Elects
    <3>4. list \in Seq(Winners) /\ L \in Nat
      BY <1>0 DEF TypeOK
    <3>5. Better(list, w) /\ AddWinningAlphanode(list, w) = new
      BY <1>0, <2>1, <3>3, NothingYet
    <3>6. vWinning'[Master] = new /\ waited' = Waited(a)
      BY <1>0, <2>3, <3>2, <3>5 DEF TypeOK
    <3>7. Len(new) = L + 1 /\ new[L + 1] = w /\ \A k \in 1..L : new[k] = list[k]
      BY <3>4
    <3>8. ElectedAt(enabled, new, L + 1)
      BY <1>0, <3>3, ElectableTurn
    <3> HIDE DEF list, L, new
    <3>9. ASSUME NEW j \in 1..L, ElectedAt(enabled, list, j) PROVE ElectedAt(enabled, new, j)
      <4>1. \A k \in Window(j, Cardinality(enabled)) : k \in 1..L /\ new[k] = list[k]
        BY <3>4, <3>7 DEF Window
      <4> QED BY <3>7, <3>9, <4>1 DEF ElectedAt
    <3>10. ASSUME NEW b \in enabled
           PROVE  /\ waited'[b] <= L + 1
                  /\ \A j \in (L + 1 - waited'[b] + 1)..(L + 1) :
                        ElectedAt(enabled, new, j) /\ new[j].vin # b
      <4>1. b \in Alphanodes /\ waited[b] \in Nat
        BY <1>0 DEF TypeOK
      <4>2. CASE b = a
        <5>1. waited'[b] = 0
          BY <3>6, <4>1, <4>2 DEF Waited
        <5> QED BY <3>4, <5>1
      <4>3. CASE b # a
        <5>1. waited'[b] = waited[b] + 1
          BY <3>6, <4>1, <4>3 DEF Waited
        <5>2. /\ waited[b] <= L
              /\ \A j \in (L - waited[b] + 1)..L : ElectedAt(enabled, list, j) /\ list[j].vin # b
          BY <2>1 DEF TurnsInv, Turns, list, L
        <5>3. ASSUME NEW j \in (L + 1 - waited'[b] + 1)..(L + 1)
              PROVE  ElectedAt(enabled, new, j) /\ new[j].vin # b
          <6>1. CASE j = L + 1
            BY <3>3, <3>7, <3>8, <4>3, <6>1
          <6>2. CASE j # L + 1
            <7>1. j \in (L - waited[b] + 1)..L /\ j \in 1..L
              BY <3>4, <4>1, <5>1, <5>2, <6>2
            <7> QED BY <3>7, <3>9, <5>2, <7>1
          <6> QED BY <6>1, <6>2
        <5> QED BY <3>4, <4>1, <5>1, <5>2, <5>3
      <4> QED BY <4>2, <4>3
    <3>11. ASSUME NEW b \in enabled'
           PROVE  /\ waited'[b] <= Len(vWinning'[Master])
                  /\ \A j \in (Len(vWinning'[Master]) - waited'[b] + 1)..Len(vWinning'[Master]) :
                        /\ ElectedAt(enabled', vWinning'[Master], j)
                        /\ vWinning'[Master][j].vin # b
      <4>1. b \in enabled
        BY <2>1
      <4>2. /\ waited'[b] <= L + 1
            /\ \A j \in (L + 1 - waited'[b] + 1)..(L + 1) :
                  ElectedAt(enabled, new, j) /\ new[j].vin # b
        BY <3>10, <4>1
      <4>3. waited'[b] \in Nat
        BY <1>0, <3>6, <4>1 DEF TypeOK, Waited
      <4>4. vWinning'[Master] = new /\ enabled' = enabled /\ Len(new) = L + 1
        BY <2>1, <3>6, <3>7
      <4> QED BY <3>4, <4>2, <4>3, <4>4
    <3> QED BY <3>11 DEF Turns
  <2> QED BY <2>2, <2>3
<1>4. ASSUME NEW n \in Nodes, NEW w \in arriving[n], Mnw(n, w) PROVE Turns'
  <2>1. ~restarted /\ enabled' = enabled
    BY <1>4 DEF Mnw
  <2>2. vWinning'[Master] = vWinning[Master]
    <3>1. CASE n # Master
      BY <1>0, <1>4, <3>1 DEF Mnw, TypeOK
    <3>2. CASE n = Master
      <4>1. Seen(Master, w)
        BY <1>0, <1>4, <2>1, <3>2, MasterHeard
      <4> QED BY <1>4, <3>2, <4>1 DEF Mnw
    <3> QED BY <3>1, <3>2
  <2>3. waited' = waited
    BY <1>4, <2>2 DEF Mnw
  <2> QED BY <1>1, <2>1, <2>2, <2>3
<1>5. ASSUME NEW n \in Nodes, Restart(n) PROVE Turns'
  <2>1. n # Master /\ ~restarted /\ UNCHANGED <<enabled, waited>>
    BY <1>5 DEF Restart
  <2>2. vWinning'[Master] = vWinning[Master]
    BY <1>0, <1>5, <2>1 DEF Restart, TypeOK
  <2> QED BY <1>1, <2>1, <2>2
<1>6. ASSUME NEW n \in Nodes, NEW w \in arriving[n], Lose(n, w) PROVE Turns'
  BY <1>1, <1>6 DEF Lose
<1>7. ASSUME NEW a \in Alphanodes, AlphanodeList(a) PROVE Turns'
  <2>1. enabled' \subseteq Alphanodes
    BY <1>0, <1>7 DEF AlphanodeList, TypeOK
  <2>2. \A b \in enabled' : waited'[b] = 0
    BY <1>7, <2>1 DEF AlphanodeList
  <2>3. Len(vWinning'[Master]) \in Nat
    BY <1>0, <1>7 DEF AlphanodeList, TypeOK
  <2> QED BY <2>2, <2>3 DEF Turns
<1> QED BY <1>2, <1>3, <1>4, <1>5, <1>6, <1>7 DEF Next, NodeStep

\* However many alphanodes there are, whatever their scores and whatever is
\* lost or reorganised, nobody is passed over in more elections than there are
\* alphanodes as long as the list and the master stay.
THEOREM NobodyForgottenCorrect == Spec => []NobodyForgotten
<1>1. Init => TurnsInv
  <2> SUFFICES ASSUME Init PROVE Turns
    BY Initially, OursInitially DEF TurnsInv
  <2>1. Len(vWinning[Master]) = 0 /\ \A a \in enabled : waited[a] = 0
    BY PaymentsAssumption DEF Init
  <2> QED BY <2>1 DEF Turns
<1>2. TurnsInv => NobodyForgotten
  <2> SUFFICES ASSUME TurnsInv, ~restarted, NEW a \in enabled, waited[a] > Cardinality(enabled)
               PROVE  FALSE
    <3>0. ASSUME TurnsInv PROVE TypeOK
      BY <3>0 DEF TurnsInv, OursInv, IndInv
    <3>1. ASSUME TurnsInv PROVE IsFiniteSet(enabled) /\ \A b \in enabled : waited[b] \in Nat
      BY <3>0, <3>1, PaymentsAssumption, FS_Subset DEF TypeOK
    <3>2. ASSUME TurnsInv PROVE Cardinality(enabled) \in Nat
      BY <3>1, <3>2, FS_CardinalityType
    <3> QED BY <3>1, <3>2 DEF NobodyForgotten
  <2> DEFINE list == vWinning[Master]
             L == Len(list)
             N == Cardinality(enabled)
  <2>1. IsFiniteSet(enabled) /\ N \in Nat
    <3>1. TypeOK
      BY DEF TurnsInv, OursInv, IndInv
    <3> QED BY <3>1, PaymentsAssumption, FS_Subset, FS_CardinalityType DEF TypeOK
  <2>2. L \in Nat /\ waited[a] \in Nat
    BY PaymentsAssumption DEF TurnsInv, OursInv, IndInv, TypeOK
  <2>3. /\ waited[a] <= L
        /\ \A j \in (L - waited[a] + 1)..L : ElectedAt(enabled, list, j) /\ list[j].vin # a
    BY DEF TurnsInv, Turns
  <2>4. L > N /\ \A j \in (L - N)..L : j \in (L - waited[a] + 1)..L
    BY <2>1, <2>2, <2>3
  <2>5. \A j \in (L - N)..L : ElectedAt(enabled, list, j) /\ list[j].vin # a
    BY <2>3, <2>4
  <2> HIDE DEF list, L
  <2> QED BY <2>1, <2>2, <2>4, <2>5, NoLongWait
<1> QED BY <1>1, <1>2, TurnsInvariance, PTL DEF Spec

=============================================================================
