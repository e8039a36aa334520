-------------------------- MODULE Alphanodes_proofs --------------------------
(***************************************************************************)
(* The alphanode list, for any network, any number of faults and any       *)
(* timeouts.                                                               *)
(*                                                                         *)
(* An entry is never fresher than what the owner signed last: for that the *)
(* messages on their way must not be either, and a ping or a registration  *)
(* has to be of this very tick.  Allowed collects what may be on its way,  *)
(* so that the types of the links and this are kept by one argument.       *)
(*                                                                         *)
(* An alphanode that keeps pinging does not expire: by LiveInv a peer of   *)
(* the owner is told in every tick, and has an entry no older than the     *)
(* throttle of the pings when the tick ends; a peer of such a peer is told *)
(* whenever that one takes a ping, and is at most another throttle behind. *)
(* Passing is what every step between two ticks does to entries and links. *)
(***************************************************************************)
EXTENDS Alphanodes, TLAPS

-----------------------------------------------------------------------------
(* Links *)

LEMMA ConnectionProperties ==
  ASSUME NEW c \in Connections
  PROVE  c[1] \in Nodes /\ c[2] \in Nodes /\ c = <<c[1], c[2]>> /\ <<c[2], c[1]>> \in Connections
  BY AlphanodeAssumption DEF Connections

LEMMA MoreMessages ==
  ASSUME NEW S, NEW T, S \subseteq T, NEW lnk \in [Connections -> Seq(S)]
  PROVE  lnk \in [Connections -> Seq(T)]
  OBVIOUS

\* Taking a message leaves messages of the same kind.
LEMMA TakingOne ==
  ASSUME NEW S, link \in [Connections -> Seq(S)], NEW c \in Connections, link[c] # <<>>
  PROVE  Without(c) \in [Connections -> Seq(S)] /\ Head(link[c]) \in S
  BY DEF Without

LEMMA Relaying ==
  ASSUME NEW S, NEW lnk \in [Connections -> Seq(S)], NEW n, NEW m \in S
  PROVE  Relayed(lnk, n, m) \in [Connections -> Seq(S)]
  BY DEF Relayed

LEMMA Answering ==
  ASSUME NEW S, NEW lnk \in [Connections -> Seq(S)], NEW c \in Connections, NEW m \in S
  PROVE  [lnk EXCEPT ![c] = Append(@, m)] \in [Connections -> Seq(S)]
  OBVIOUS

LEMMA MessageKinds ==
  ASSUME NEW m \in Messages
  PROVE  /\ m.type = "dsee" => m.new \in BOOLEAN /\ m.seen \in Seen /\ m.sig \in Nat
         /\ m.type = "dseep" => m.stop \in BOOLEAN
  BY DEF Messages, Dseg

LEMMA MessageTypes ==
  /\ \A new \in BOOLEAN, seen \in Seen, sig \in Nat : Dsee(new, seen, sig) \in Messages
  /\ \A stop \in BOOLEAN : Dseep(stop) \in Messages
  /\ Dseg \in Messages
  BY DEF Messages, Dsee, Dseep, Dseg

-----------------------------------------------------------------------------
(* The invariant *)

\* What may be on its way, unless an entry without a time was passed on: no
\* registration and no ping of an earlier tick, and no entry that is fresher
\* than the last of them.
Allowed ==
    {m \in Messages : ~revived =>
        /\ m.type = "dsee" => (m.new => quiet = 0) /\ (m.seen # Zero => m.seen >= quiet)
        /\ m.type = "dseep" => (~m.stop => quiet = 0)}

FreshEntries ==
    ~revived => \A n \in Nodes :
        Listed(n) /\ lastTimeSeen[n] # Zero => lastTimeSeen[n] >= quiet

Types ==
    /\ activeState \in [Nodes -> States] /\ lastTimeSeen \in [Nodes -> Seen]
    /\ sigTime \in [Nodes -> Nat] /\ lastDseep \in [Nodes -> BOOLEAN]
    /\ askAgain \in [Nodes -> 0..MinDseep]
    /\ status \in Stati /\ registered \in Nat
    /\ {up, vin, lockedCoin, spent, managed, hung, revived} \subseteq BOOLEAN
    /\ faults \in 0..MaxFaults /\ quiet \in 0..(Removal + 1) /\ steady \in 0..Expiration

IndInv ==
    /\ Types
    /\ link \in [Connections -> Seq(Allowed)]
    /\ FreshEntries

\* What is allowed stays allowed until a tick passes.
LEMMA AllowedGrows ==
  ASSUME Types, quiet' \in {quiet, 0}, revived => revived'
  PROVE  Allowed \subseteq Allowed'
<1> SUFFICES ASSUME NEW m \in Allowed PROVE m \in Allowed'
  OBVIOUS
<1>1. m.type = "dsee" => m.seen \in Seen
  BY MessageKinds DEF Allowed
<1>2. m.type = "dsee" /\ m.seen # Zero => m.seen \in Nat /\ m.seen >= 0
  BY <1>1 DEF Seen
<1> QED BY <1>2 DEF Allowed, Types

LEMMA LinkStays ==
  ASSUME IndInv, quiet' \in {quiet, 0}, revived => revived'
  PROVE  link \in [Connections -> Seq(Allowed')]
  BY AllowedGrows, MoreMessages DEF IndInv

LEMMA CheckedStates ==
  ASSUME NEW state \in States, NEW seen
  PROVE  Checked(state, seen) \subseteq States
  BY DEF Checked, Verdict, States

-----------------------------------------------------------------------------
(* Messages *)

\* What is taken from a link is allowed, and so is what is left on it.
LEMMA TakenAllowed ==
  ASSUME IndInv, NEW c \in Connections, NEW type, Received(c, type)
  PROVE  /\ Without(c) \in [Connections -> Seq(Allowed)]
         /\ Head(link[c]) \in Allowed /\ Head(link[c]) \in Messages
         /\ Head(link[c]).type = type
<1>1. link \in [Connections -> Seq(Allowed)] /\ link[c] # <<>> /\ Head(link[c]).type = type
  BY DEF IndInv, Received
<1>2. Without(c) \in [Connections -> Seq(Allowed)] /\ Head(link[c]) \in Allowed
  BY <1>1, TakingOne
<1> QED BY <1>1, <1>2 DEF Allowed

LEMMA UpdateEntryStep ==
  ASSUME IndInv, NEW c \in Connections, UpdateEntry(c)
  PROVE  IndInv'
<1> DEFINE n == c[2]
           m == Head(link[c])
<1>1. /\ n \in Nodes /\ Received(c, "dsee")
      /\ UNCHANGED <<askAgain, owner, history>>
  BY ConnectionProperties DEF UpdateEntry
<1>2. /\ Without(c) \in [Connections -> Seq(Allowed)] /\ m \in Allowed
      /\ m \in Messages /\ m.type = "dsee"
  BY <1>1, TakenAllowed
<1>3. m.new \in BOOLEAN /\ m.seen \in Seen /\ m.sig \in Nat
  BY <1>2, MessageKinds
<1>4. Allowed' = Allowed
  BY <1>1 DEF Allowed, history
<1>5. Relayed(Without(c), n, m) \in [Connections -> Seq(Allowed)]
  BY <1>2, Relaying
<1>6. link' \in {Without(c), Relayed(Without(c), n, m)}
  BY DEF UpdateEntry
<1>7. link' \in [Connections -> Seq(Allowed')]
  BY <1>2, <1>4, <1>5, <1>6
<1>8. \/ UNCHANGED entry
      \/ /\ m.new
         /\ lastTimeSeen' = [lastTimeSeen EXCEPT ![n] = 0] /\ lastDseep' = lastDseep
         /\ \/ /\ sigTime' = [sigTime EXCEPT ![n] = m.sig]
               /\ \E state \in Checked(activeState[n], 0) :
                     activeState' = [activeState EXCEPT ![n] = state]
            \/ UNCHANGED <<activeState, sigTime>>
  <2>1. PICK recent \in IF m.new THEN UpdatedWithin(lastTimeSeen[n], MinDsee) ELSE {TRUE} :
             IF recent
             THEN /\ link' = Without(c)
                  /\ UNCHANGED entry
             ELSE /\ lastTimeSeen' = [lastTimeSeen EXCEPT ![n] = 0]
                  /\ UNCHANGED lastDseep
                  /\ IF sigTime[n] < m.sig
                     THEN /\ sigTime' = [sigTime EXCEPT ![n] = m.sig]
                          /\ \E state \in Checked(activeState[n], 0) :
                               /\ activeState' = [activeState EXCEPT ![n] = state]
                               /\ link' = IF state = "ENABLED"
                                          THEN Relayed(Without(c), n, m) ELSE Without(c)
                     ELSE /\ link' = Without(c)
                          /\ UNCHANGED <<activeState, sigTime>>
    BY DEF UpdateEntry
  <2>2. ~m.new => recent
    BY <2>1
  <2> QED BY <2>1, <2>2, <1>3
<1>9. CASE UNCHANGED entry
  BY <1>1, <1>7, <1>9 DEF IndInv, Types, FreshEntries, Listed, entry, owner, history
<1>10. CASE ~UNCHANGED entry
  <2>1. activeState' \in [Nodes -> States]
    <3>1. activeState[n] \in States
      BY <1>1 DEF IndInv, Types
    <3>2. Checked(activeState[n], 0) \subseteq States
      BY <3>1, CheckedStates
    <3> QED BY <1>8, <1>10, <3>2 DEF IndInv, Types
  <2>2. /\ lastTimeSeen' \in [Nodes -> Seen] /\ lastTimeSeen'[n] = 0
        /\ \A k \in Nodes \ {n} : lastTimeSeen'[k] = lastTimeSeen[k] /\ activeState'[k] = activeState[k]
        /\ lastDseep' = lastDseep
    <3>1. lastTimeSeen' = [lastTimeSeen EXCEPT ![n] = 0] /\ lastDseep' = lastDseep
      BY <1>8, <1>10
    <3>2. activeState' = activeState \/ \E state : activeState' = [activeState EXCEPT ![n] = state]
      BY <1>8, <1>10
    <3>3. 0 \in Seen
      BY AlphanodeAssumption DEF Seen
    <3>4. lastTimeSeen' \in [Nodes -> Seen] /\ lastTimeSeen'[n] = 0
      BY <1>1, <3>1, <3>3 DEF IndInv, Types
    <3>5. \A k \in Nodes \ {n} : lastTimeSeen'[k] = lastTimeSeen[k]
      BY <3>1 DEF IndInv, Types
    <3>6. \A k \in Nodes \ {n} : activeState'[k] = activeState[k]
      BY <3>2 DEF IndInv, Types
    <3> QED BY <3>1, <3>4, <3>5, <3>6
  <2>3. sigTime' \in [Nodes -> Nat]
    BY <1>3, <1>8, <1>10 DEF IndInv, Types
  <2>4. ~revived => quiet = 0
    BY <1>2, <1>8, <1>10 DEF Allowed
  <2>5. FreshEntries'
    BY <1>1, <2>2, <2>4 DEF FreshEntries, IndInv, Listed, history
  <2> QED BY <1>1, <1>7, <2>1, <2>2, <2>3, <2>5 DEF IndInv, Types, owner, history
<1> QED BY <1>9, <1>10

LEMMA AcceptEntryStep ==
  ASSUME IndInv, NEW c \in Connections, AcceptEntry(c)
  PROVE  IndInv'
<1> DEFINE n == c[2]
           m == Head(link[c])
<1>1. /\ n \in Nodes /\ Received(c, "dsee")
      /\ status' \in {"REMOTELY_ENABLED", status} /\ vin' \in {TRUE, vin}
      /\ link' \in {Relayed(Without(c), n, m), Without(c)}
      /\ revived' \in {revived, revived \/ m.seen = Zero}
      /\ UNCHANGED <<askAgain, up, lockedCoin, spent, managed, registered, hung,
                     faults, quiet, steady>>
  BY ConnectionProperties DEF AcceptEntry
<1>0. \/ UNCHANGED <<entry, revived>>
      \/ /\ activeState' = [activeState EXCEPT ![n] = "ENABLED"]
         /\ lastTimeSeen' = [lastTimeSeen EXCEPT ![n] = LastUpdated(m.seen)]
         /\ sigTime' = [sigTime EXCEPT ![n] = m.sig]
         /\ lastDseep' = [lastDseep EXCEPT ![n] = FALSE]
         /\ revived' = (revived \/ m.seen = Zero)
  BY DEF AcceptEntry
<1>2. /\ Without(c) \in [Connections -> Seq(Allowed)] /\ m \in Allowed
      /\ m \in Messages /\ m.type = "dsee"
  BY <1>1, TakenAllowed
<1>3. m.new \in BOOLEAN /\ m.seen \in Seen /\ m.sig \in Nat
  BY <1>2, MessageKinds
<1>4. Allowed \subseteq Allowed'
  BY <1>1, AllowedGrows DEF IndInv
<1>5. Relayed(Without(c), n, m) \in [Connections -> Seq(Allowed)]
  BY <1>2, Relaying
<1>6. link' \in [Connections -> Seq(Allowed')]
  <2>1. link' \in [Connections -> Seq(Allowed)]
    BY <1>1, <1>2, <1>5
  <2> QED BY <1>4, <2>1, MoreMessages
<1>7. LastUpdated(m.seen) \in Seen /\ (m.seen # Zero => LastUpdated(m.seen) = m.seen)
  BY <1>3, AlphanodeAssumption DEF LastUpdated, Seen
<1>8. Types'
  <2>1. activeState' \in [Nodes -> States]
    BY <1>0 DEF IndInv, Types, States, entry
  <2>2. lastTimeSeen' \in [Nodes -> Seen] /\ sigTime' \in [Nodes -> Nat]
    <3>1. /\ lastTimeSeen \in [Nodes -> Seen] /\ LastUpdated(m.seen) \in Seen
          /\ lastTimeSeen' \in {lastTimeSeen, [lastTimeSeen EXCEPT ![n] = LastUpdated(m.seen)]}
      BY <1>0, <1>7 DEF IndInv, Types, entry
    <3>2. /\ sigTime \in [Nodes -> Nat] /\ sigTime' \in {sigTime, [sigTime EXCEPT ![n] = m.sig]}
      BY <1>0 DEF IndInv, Types, entry
    <3> QED BY <1>3, <3>1, <3>2
  <2>3. revived' \in BOOLEAN /\ vin' \in BOOLEAN
    BY <1>1 DEF IndInv, Types
  <2>4. lastDseep' \in [Nodes -> BOOLEAN]
    BY <1>0 DEF IndInv, Types, entry
  <2>5. status' \in Stati
    BY <1>1 DEF IndInv, Types, Stati
  <2> QED BY <1>1, <2>1, <2>2, <2>3, <2>4, <2>5 DEF IndInv, Types
<1>9. FreshEntries'
  <2> SUFFICES ASSUME ~revived', NEW k \in Nodes, activeState'[k] # "none",
                      lastTimeSeen'[k] # Zero
               PROVE  lastTimeSeen'[k] >= quiet'
    BY DEF FreshEntries, Listed
  <2>1. ~revived /\ quiet' = quiet
    BY <1>1
  <2>2. CASE UNCHANGED <<entry, revived>>
    BY <2>1, <2>2 DEF IndInv, FreshEntries, Listed, entry
  <2>3. CASE ~UNCHANGED <<entry, revived>>
    <3>0. /\ activeState' = [activeState EXCEPT ![n] = "ENABLED"]
          /\ lastTimeSeen' = [lastTimeSeen EXCEPT ![n] = LastUpdated(m.seen)]
          /\ m.seen # Zero
      BY <1>0, <2>3
    <3>1. CASE k = n
      <4>1. lastTimeSeen'[k] = m.seen
        BY <1>7, <3>0, <3>1 DEF IndInv, Types
      <4>2. m.seen >= quiet
        BY <1>2, <2>1, <3>0 DEF Allowed
      <4> QED BY <2>1, <4>1, <4>2
    <3>2. CASE k # n
      BY <2>1, <3>0, <3>2 DEF IndInv, Types, FreshEntries, Listed
    <3> QED BY <3>1, <3>2
  <2> QED BY <2>2, <2>3
<1> QED BY <1>6, <1>8, <1>9 DEF IndInv

LEMMA TakePingStep ==
  ASSUME IndInv, NEW c \in Connections, TakePing(c)
  PROVE  IndInv'
<1> DEFINE n == c[2]
           m == Head(link[c])
<1>1. /\ n \in Nodes /\ Received(c, "dseep")
      /\ UNCHANGED <<askAgain, owner, history>>
  BY ConnectionProperties DEF TakePing
<1>2. /\ Without(c) \in [Connections -> Seq(Allowed)] /\ m \in Allowed
      /\ m \in Messages /\ m.type = "dseep"
  BY <1>1, TakenAllowed
<1>3. Allowed' = Allowed
  BY <1>1 DEF Allowed, history
<1>4. Relayed(Without(c), n, m) \in [Connections -> Seq(Allowed)]
  BY <1>2, Relaying
<1>5. link' \in {Without(c), Relayed(Without(c), n, m)}
  BY DEF TakePing
<1>6. link' \in [Connections -> Seq(Allowed')]
  BY <1>2, <1>3, <1>4, <1>5
<1>7. /\ UNCHANGED sigTime
      /\ lastDseep' \in {lastDseep, [lastDseep EXCEPT ![n] = TRUE]}
      /\ \/ UNCHANGED <<activeState, lastTimeSeen>>
         \/ lastTimeSeen' = [lastTimeSeen EXCEPT ![n] = Zero] /\ UNCHANGED activeState
         \/ /\ ~m.stop
            /\ lastTimeSeen' = [lastTimeSeen EXCEPT ![n] = 0]
            /\ \E state \in Checked(activeState[n], 0) :
                  activeState' = [activeState EXCEPT ![n] = state]
  BY DEF TakePing, entry
<1>8. lastDseep' \in [Nodes -> BOOLEAN] /\ sigTime' \in [Nodes -> Nat]
  BY <1>7 DEF IndInv, Types
<1>9. CASE UNCHANGED <<activeState, lastTimeSeen>>
  BY <1>1, <1>6, <1>7, <1>8, <1>9 DEF IndInv, Types, FreshEntries, Listed, owner, history
<1>10. CASE lastTimeSeen' = [lastTimeSeen EXCEPT ![n] = Zero] /\ UNCHANGED activeState
  <2>1. lastTimeSeen' \in [Nodes -> Seen]
    BY <1>10 DEF IndInv, Types, Seen
  <2>2. FreshEntries'
    BY <1>1, <1>10 DEF IndInv, Types, FreshEntries, Listed, history
  <2> QED BY <1>1, <1>6, <1>8, <1>10, <2>1, <2>2 DEF IndInv, Types, owner, history
<1>11. CASE /\ ~m.stop
            /\ lastTimeSeen' = [lastTimeSeen EXCEPT ![n] = 0]
            /\ \E state \in Checked(activeState[n], 0) :
                  activeState' = [activeState EXCEPT ![n] = state]
  <2>1. activeState' \in [Nodes -> States]
    <3>1. activeState[n] \in States
      BY <1>1 DEF IndInv, Types
    <3>2. Checked(activeState[n], 0) \subseteq States
      BY <3>1, CheckedStates
    <3> QED BY <1>11, <3>2 DEF IndInv, Types
  <2>2. /\ lastTimeSeen' \in [Nodes -> Seen] /\ lastTimeSeen'[n] = 0
        /\ \A k \in Nodes \ {n} : lastTimeSeen'[k] = lastTimeSeen[k] /\ activeState'[k] = activeState[k]
    BY <1>1, <1>11, AlphanodeAssumption DEF IndInv, Types, Seen
  <2>3. ~revived => quiet = 0
    BY <1>2, <1>11 DEF Allowed
  <2>4. FreshEntries'
    BY <1>1, <2>2, <2>3 DEF FreshEntries, IndInv, Listed, history
  <2> QED BY <1>1, <1>6, <1>8, <2>1, <2>2, <2>4 DEF IndInv, Types, owner, history
<1> QED BY <1>7, <1>9, <1>10, <1>11

\* The other three messages leave the entries alone.
LEMMA OtherMessageStep ==
  ASSUME IndInv, NEW c \in Connections, DropEntry(c) \/ AskForEntry(c) \/ AnswerDseg(c)
  PROVE  IndInv'
<1> DEFINE n == c[2]
           back == <<n, c[1]>>
<1>1. n \in Nodes /\ back \in Connections
  BY ConnectionProperties
<1>2. UNCHANGED <<entry, owner, history>>
  BY DEF DropEntry, AskForEntry, AnswerDseg
<1>3. Allowed' = Allowed
  BY <1>2 DEF Allowed, history
<1>4. Without(c) \in [Connections -> Seq(Allowed)]
  BY TakenAllowed DEF DropEntry, AskForEntry, AnswerDseg
<1>5. /\ askAgain' \in [Nodes -> 0..MinDseep]
      /\ link' \in [Connections -> Seq(Allowed)]
  <2>1. CASE DropEntry(c)
    BY <1>4, <2>1 DEF DropEntry, IndInv, Types
  <2>2. CASE AskForEntry(c)
    <3>1. Dseg \in Allowed
      BY MessageTypes DEF Allowed, Dseg
    <3>2. [Without(c) EXCEPT ![back] = Append(@, Dseg)] \in [Connections -> Seq(Allowed)]
      BY <1>1, <1>4, <3>1, Answering
    <3>3. link' \in {Without(c), [Without(c) EXCEPT ![back] = Append(@, Dseg)]}
      <4>1. [Without(c) EXCEPT ![back] = @] = Without(c)
        BY <1>4
      <4> QED BY <2>2, <4>1 DEF AskForEntry
    <3>4. askAgain' \in [Nodes -> 0..MinDseep]
      <4>1. askAgain' \in {askAgain, [askAgain EXCEPT ![n] = MinDseep]}
        BY <2>2 DEF AskForEntry
      <4>2. MinDseep \in 0..MinDseep
        BY AlphanodeAssumption
      <4> QED BY <4>1, <4>2 DEF IndInv, Types
    <3> QED BY <1>4, <3>2, <3>3, <3>4
  <2>3. CASE AnswerDseg(c)
    <3> DEFINE answer == Dsee(FALSE, lastTimeSeen[n], sigTime[n])
    <3>1. CASE activeState[n] = "ENABLED" /\ Alive(c[1])
      <4>1. answer \in Messages
        BY <1>1, MessageTypes DEF IndInv, Types
      <4>2. ~revived /\ lastTimeSeen[n] # Zero => lastTimeSeen[n] >= quiet
        BY <1>1, <3>1 DEF IndInv, FreshEntries, Listed
      <4>3. answer \in Allowed
        BY <4>1, <4>2 DEF Allowed, Dsee
      <4>4. [Without(c) EXCEPT ![back] = Append(@, answer)] \in [Connections -> Seq(Allowed)]
        BY <1>1, <1>4, <4>3, Answering
      <4> QED BY <2>3, <3>1, <4>4 DEF AnswerDseg, IndInv, Types
    <3>2. CASE ~(activeState[n] = "ENABLED" /\ Alive(c[1]))
      <4>1. [Without(c) EXCEPT ![back] = @] = Without(c)
        BY <1>4
      <4> QED BY <1>4, <2>3, <3>2, <4>1 DEF AnswerDseg, IndInv, Types
    <3> QED BY <3>1, <3>2
  <2> QED BY <2>1, <2>2, <2>3
<1> QED BY <1>2, <1>3, <1>5 DEF IndInv, Types, FreshEntries, Listed, entry, owner, history

-----------------------------------------------------------------------------
(* Threads and the owner *)

LEMMA EraseType ==
  ASSUME Types, NEW n \in Nodes, Erase(n)
  PROVE  /\ activeState' \in [Nodes -> States] /\ lastTimeSeen' \in [Nodes -> Seen]
         /\ sigTime' \in [Nodes -> Nat] /\ lastDseep' \in [Nodes -> BOOLEAN]
         /\ activeState'[n] = "none"
         /\ \A k \in Nodes \ {n} : lastTimeSeen'[k] = lastTimeSeen[k] /\ activeState'[k] = activeState[k]
<1>1. "none" \in States /\ Zero \in Seen /\ 0 \in Nat /\ FALSE \in BOOLEAN
  BY DEF States, Seen
<1> QED BY <1>1 DEF Erase, Types

LEMMA CheckAndRemoveStep ==
  ASSUME IndInv, NEW n \in Nodes, CheckAndRemove(n)
  PROVE  IndInv'
<1>1. /\ UNCHANGED <<askAgain, owner, link, history>>
      /\ \/ Erase(n)
         \/ /\ \E state \in Checked(activeState[n], lastTimeSeen[n]) :
                  activeState' = [activeState EXCEPT ![n] = state]
            /\ UNCHANGED <<lastTimeSeen, sigTime, lastDseep>>
            /\ Listed(n)
  BY DEF CheckAndRemove
<1>2. Allowed' = Allowed
  BY <1>1 DEF Allowed, history
<1>3. CASE Erase(n)
  <2>1. /\ activeState' \in [Nodes -> States] /\ lastTimeSeen' \in [Nodes -> Seen]
        /\ sigTime' \in [Nodes -> Nat] /\ lastDseep' \in [Nodes -> BOOLEAN]
        /\ activeState'[n] = "none"
        /\ \A k \in Nodes \ {n} : lastTimeSeen'[k] = lastTimeSeen[k] /\ activeState'[k] = activeState[k]
    BY <1>3, EraseType DEF IndInv
  <2>2. FreshEntries'
    BY <1>1, <2>1 DEF IndInv, FreshEntries, Listed, history
  <2> QED BY <1>1, <1>2, <2>1, <2>2 DEF IndInv, Types, owner, history
<1>4. CASE /\ \E state \in Checked(activeState[n], lastTimeSeen[n]) :
                  activeState' = [activeState EXCEPT ![n] = state]
           /\ UNCHANGED <<lastTimeSeen, sigTime, lastDseep>>
           /\ Listed(n)
  <2>1. Checked(activeState[n], lastTimeSeen[n]) \subseteq States
    BY CheckedStates DEF IndInv, Types
  <2>2. PICK state \in States : activeState' = [activeState EXCEPT ![n] = state]
    BY <1>4, <2>1
  <2>3. activeState' \in [Nodes -> States]
    BY <2>2 DEF IndInv, Types
  <2>4. \A k \in Nodes : activeState'[k] # "none" => activeState[k] # "none"
    BY <1>4, <2>2 DEF IndInv, Types, Listed
  <2>5. FreshEntries'
    BY <1>1, <1>4, <2>4 DEF IndInv, FreshEntries, Listed, history
  <2> QED BY <1>1, <1>2, <1>4, <2>3, <2>5 DEF IndInv, Types, owner, history
<1> QED BY <1>1, <1>3, <1>4

\* What a registration changes.
LEMMA RegisterEffect ==
  ASSUME IndInv, Register, revived' = revived
  PROVE  /\ activeState' \in [Nodes -> States] /\ lastTimeSeen' \in [Nodes -> Seen]
         /\ sigTime' \in [Nodes -> Nat] /\ lastDseep' \in [Nodes -> BOOLEAN]
         /\ registered' \in Nat /\ quiet' = 0
         /\ link' \in [Connections -> Seq(Allowed')]
<1>1. quiet' = 0 /\ registered' \in Nat
  BY DEF Register, IndInv, Types
<1>2. link \in [Connections -> Seq(Allowed')]
  BY <1>1, LinkStays
<1>3. Dsee(TRUE, 0, registered') \in Allowed'
  <2>1. 0 \in Seen
    BY AlphanodeAssumption DEF Seen
  <2>2. Dsee(TRUE, 0, registered') \in Messages
    BY <1>1, <2>1, MessageTypes
  <2> QED BY <1>1, <2>2 DEF Allowed, Dsee
<1>4. link' \in [Connections -> Seq(Allowed')]
  BY <1>2, <1>3, Relaying DEF Register
<1>5. /\ activeState' \in [Nodes -> States] /\ lastTimeSeen' \in [Nodes -> Seen]
      /\ sigTime' \in [Nodes -> Nat] /\ lastDseep' \in [Nodes -> BOOLEAN]
  <2>1. CASE Listed(Owner)
    BY <2>1 DEF Register, entry, IndInv, Types
  <2>2. CASE ~Listed(Owner)
    <3>1. "ENABLED" \in States /\ 0 \in Seen
      BY AlphanodeAssumption DEF States, Seen
    <3> QED BY <1>1, <2>2, <3>1 DEF Register, IndInv, Types
  <2> QED BY <2>1, <2>2
<1> QED BY <1>1, <1>4, <1>5

\* The owner's clock starts anew: no entry is fresher than nothing.
LEMMA FreshAgain ==
  ASSUME quiet' = 0, lastTimeSeen' \in [Nodes -> Seen]
  PROVE  FreshEntries'
<1>1. \A n \in Nodes : lastTimeSeen'[n] # Zero => lastTimeSeen'[n] >= 0
  BY DEF Seen, Zero
<1> QED BY <1>1 DEF FreshEntries

LEMMA ActivateEffect ==
  ASSUME IndInv, Activate, revived' = revived
  PROVE  /\ activeState' \in [Nodes -> States] /\ lastTimeSeen' \in [Nodes -> Seen]
         /\ sigTime' \in [Nodes -> Nat] /\ lastDseep' \in [Nodes -> BOOLEAN]
         /\ registered' \in Nat /\ quiet' \in 0..(Removal + 1) /\ status' \in Stati
         /\ lockedCoin' \in BOOLEAN /\ vin' \in BOOLEAN
         /\ link' \in [Connections -> Seq(Allowed')]
         /\ FreshEntries'
<1>1. CASE CollateralFound
  <2>1. Register /\ status' = "IS_CAPABLE" /\ vin' = TRUE /\ lockedCoin' = TRUE
    BY <1>1 DEF Activate
  <2>2. /\ activeState' \in [Nodes -> States] /\ lastTimeSeen' \in [Nodes -> Seen]
        /\ sigTime' \in [Nodes -> Nat] /\ lastDseep' \in [Nodes -> BOOLEAN]
        /\ registered' \in Nat /\ quiet' = 0
        /\ link' \in [Connections -> Seq(Allowed')]
    BY <2>1, RegisterEffect
  <2>3. FreshEntries'
    BY <2>2, FreshAgain
  <2> QED BY <2>1, <2>2, <2>3, AlphanodeAssumption DEF Stati
<1>2. CASE ~CollateralFound
  <2>1. /\ status' = "NOT_CAPABLE"
        /\ UNCHANGED <<entry, link, vin, lockedCoin, registered, quiet>>
    BY <1>2 DEF Activate
  <2>2. link' \in [Connections -> Seq(Allowed')]
    BY <2>1, LinkStays
  <2> QED BY <2>1, <2>2 DEF IndInv, Types, FreshEntries, Listed, entry, Stati
<1> QED BY <1>1, <1>2

LEMMA PingEffect ==
  ASSUME IndInv, Ping, revived' = revived
  PROVE  /\ activeState' \in [Nodes -> States] /\ lastTimeSeen' \in [Nodes -> Seen]
         /\ sigTime' \in [Nodes -> Nat] /\ lastDseep' \in [Nodes -> BOOLEAN]
         /\ registered' \in Nat /\ quiet' \in 0..(Removal + 1) /\ status' \in Stati
         /\ lockedCoin' \in BOOLEAN /\ vin' \in BOOLEAN
         /\ link' \in [Connections -> Seq(Allowed')]
         /\ FreshEntries'
<1>1. CASE Listed(Owner)
  <2>1. /\ lastTimeSeen' = [lastTimeSeen EXCEPT ![Owner] = 0]
        /\ link' = Relayed(link, Owner, Dseep(FALSE))
        /\ quiet' = 0
        /\ UNCHANGED <<activeState, sigTime, lastDseep, status, vin, lockedCoin, registered>>
    BY <1>1 DEF Ping
  <2>2. link \in [Connections -> Seq(Allowed')]
    BY <2>1, LinkStays
  <2>3. Dseep(FALSE) \in Allowed'
    BY <2>1, MessageTypes DEF Allowed, Dseep
  <2>4. link' \in [Connections -> Seq(Allowed')]
    BY <2>1, <2>2, <2>3, Relaying
  <2>5. lastTimeSeen' \in [Nodes -> Seen]
    BY <2>1, AlphanodeAssumption DEF IndInv, Types, Seen
  <2>6. FreshEntries'
    BY <2>1, <2>5, FreshAgain
  <2>7. quiet' \in 0..(Removal + 1)
    BY <2>1, AlphanodeAssumption
  <2>8. /\ activeState' \in [Nodes -> States] /\ sigTime' \in [Nodes -> Nat]
        /\ lastDseep' \in [Nodes -> BOOLEAN] /\ registered' \in Nat
        /\ status' \in Stati /\ lockedCoin' \in BOOLEAN /\ vin' \in BOOLEAN
    BY <2>1 DEF IndInv, Types
  <2> QED BY <2>4, <2>5, <2>6, <2>7, <2>8
<1>2. CASE ~Listed(Owner)
  <2>1. /\ status' = "NOT_CAPABLE"
        /\ UNCHANGED <<entry, link, vin, lockedCoin, registered, quiet>>
    BY <1>2 DEF Ping
  <2>2. link' \in [Connections -> Seq(Allowed')]
    BY <2>1, LinkStays
  <2> QED BY <2>1, <2>2 DEF IndInv, Types, FreshEntries, Listed, entry, Stati
<1> QED BY <1>1, <1>2

LEMMA OwnerStep ==
  ASSUME IndInv, ManageStatus \/ NotReady \/ Start \/ Restart \/ SpendCollateral
  PROVE  IndInv'
<1>1. CASE ManageStatus
  <2>1. /\ managed' = TRUE
        /\ UNCHANGED <<askAgain, up, spent, hung, faults, steady, revived>>
    BY <1>1 DEF ManageStatus
  <2>2. CASE Activate
    BY <2>1, <2>2, ActivateEffect DEF IndInv, Types
  <2>3. CASE Ping
    BY <2>1, <2>3, PingEffect DEF IndInv, Types
  <2>4. CASE UNCHANGED <<entry, link, status, vin, lockedCoin, registered, quiet>>
    <3>1. link' \in [Connections -> Seq(Allowed')]
      BY <2>1, <2>4, LinkStays
    <3> QED BY <2>1, <2>4, <3>1 DEF IndInv, Types, FreshEntries, Listed, entry
  <2> QED BY <1>1, <2>2, <2>3, <2>4 DEF ManageStatus
<1>2. CASE NotReady
  <2>1. /\ managed' = TRUE /\ status' \in {"SYNC_IN_PROCESS", "NOT_CAPABLE"}
        /\ faults' \in 0..MaxFaults /\ steady' = 0
        /\ UNCHANGED <<entry, askAgain, up, vin, lockedCoin, spent, registered, hung, link,
                       quiet, revived>>
    BY <1>2, AlphanodeAssumption DEF NotReady, Fault, IndInv, Types
  <2>2. link' \in [Connections -> Seq(Allowed')]
    BY <2>1, LinkStays
  <2> QED BY <2>1, <2>2, AlphanodeAssumption DEF IndInv, Types, FreshEntries, Listed, entry, Stati
<1>3. CASE Start
  <2>1. /\ Activate /\ faults' \in 0..MaxFaults
        /\ UNCHANGED <<askAgain, up, spent, managed, hung, steady, revived>>
    BY <1>3, AlphanodeAssumption DEF Start, Fault, IndInv, Types
  <2> QED BY <2>1, ActivateEffect DEF IndInv, Types
<1>4. CASE Restart
  <2>1. /\ up' = TRUE
        /\ UNCHANGED <<askAgain, status, vin, lockedCoin, spent, managed, registered, hung,
                       link, history>>
    BY <1>4 DEF Restart
  <2>2. link' \in [Connections -> Seq(Allowed')]
    BY <2>1, LinkStays DEF history
  <2>3. CASE Erase(Owner)
    <3>1. /\ activeState' \in [Nodes -> States] /\ lastTimeSeen' \in [Nodes -> Seen]
          /\ sigTime' \in [Nodes -> Nat] /\ lastDseep' \in [Nodes -> BOOLEAN]
          /\ activeState'[Owner] = "none"
          /\ \A k \in Nodes \ {Owner} : lastTimeSeen'[k] = lastTimeSeen[k] /\ activeState'[k] = activeState[k]
      BY <2>3, EraseType, AlphanodeAssumption DEF IndInv
    <3>2. FreshEntries'
      BY <2>1, <3>1 DEF IndInv, FreshEntries, Listed, history
    <3> QED BY <2>1, <2>2, <3>1, <3>2 DEF IndInv, Types, history
  <2>4. CASE UNCHANGED entry
    <3> QED BY <2>1, <2>2, <2>4 DEF IndInv, Types, FreshEntries, Listed, entry, history
  <2> QED BY <1>4, <2>3, <2>4 DEF Restart
<1>5. CASE SpendCollateral
  <2>1. /\ spent' = TRUE /\ faults' \in 0..MaxFaults
        /\ UNCHANGED <<entry, askAgain, up, status, vin, lockedCoin, managed, registered, hung,
                       link, quiet, steady, revived>>
    BY <1>5, AlphanodeAssumption DEF SpendCollateral, Fault, IndInv, Types
  <2>2. link' \in [Connections -> Seq(Allowed')]
    BY <2>1, LinkStays
  <2> QED BY <2>1, <2>2 DEF IndInv, Types, FreshEntries, Listed, entry
<1> QED BY <1>1, <1>2, <1>3, <1>4, <1>5

\* Emptying some links leaves allowed messages.
LEMMA StopAndShutdownStep ==
  ASSUME IndInv, StopAlphaNode \/ Shutdown
  PROVE  IndInv'
<1> DEFINE Emptied(P) == [c \in Connections |-> IF c \in P THEN <<>> ELSE link[c]]
<1>0. quiet' = quiet /\ revived' = revived /\ faults' \in 0..MaxFaults /\ steady' \in 0..Expiration
  <2>1. Fault /\ quiet' = quiet /\ revived' = revived /\ steady' = 0
    BY DEF StopAlphaNode, Shutdown
  <2> QED BY <2>1, AlphanodeAssumption DEF Fault, IndInv, Types
<1>1. link \in [Connections -> Seq(Allowed')]
  BY <1>0, LinkStays
<1>2. \A P : Emptied(P) \in [Connections -> Seq(Allowed')]
  BY <1>1
<1>3. CASE Shutdown
  <2>1. link' = Emptied({c \in Connections : Owner \in {c[1], c[2]}})
    BY <1>3 DEF Shutdown
  <2>2. link' \in [Connections -> Seq(Allowed')]
    BY <1>2, <2>1
  <2>3. /\ up' = FALSE /\ hung' = FALSE /\ status' = "NOT_PROCESSED" /\ vin' = FALSE /\ lockedCoin' = FALSE
        /\ UNCHANGED <<entry, askAgain, spent, managed, registered>>
    BY <1>3 DEF Shutdown
  <2>4. status' \in Stati /\ {up', vin', lockedCoin', spent', managed', hung', revived'} \subseteq BOOLEAN
    BY <1>0, <2>3 DEF IndInv, Types, Stati
  <2> QED BY <1>0, <2>2, <2>3, <2>4 DEF IndInv, Types, FreshEntries, Listed, entry
<1>4. CASE StopAlphaNode
  <2>1. /\ managed' = TRUE /\ lockedCoin' = FALSE
        /\ status' \in {"STOPPED", "NOT_CAPABLE"}
        /\ UNCHANGED <<askAgain, up, vin, spent, registered>>
    BY <1>4 DEF StopAlphaNode
  <2>2. link' \in [Connections -> Seq(Allowed')]
    <3>1. Dseep(TRUE) \in Allowed'
      BY MessageTypes DEF Allowed, Dseep
    <3>2. Relayed(link, Owner, Dseep(TRUE)) \in [Connections -> Seq(Allowed')]
      BY <1>1, <3>1, Relaying
    <3>3. \/ link' = link
          \/ link' = Relayed(link, Owner, Dseep(TRUE))
          \/ link' = Emptied({c \in Connections : c[2] = Owner})
      BY <1>4 DEF StopAlphaNode
    <3> QED BY <1>1, <1>2, <3>2, <3>3
  <2>3. hung' \in BOOLEAN
    BY <1>4 DEF StopAlphaNode, RemoveOwn, IndInv, Types
  <2>0. status' \in Stati /\ {up', vin', lockedCoin', spent', managed', hung', revived'} \subseteq BOOLEAN
    BY <1>0, <2>1, <2>3 DEF IndInv, Types, Stati
  <2>4. CASE Erase(Owner)
    <3>1. /\ activeState' \in [Nodes -> States] /\ lastTimeSeen' \in [Nodes -> Seen]
          /\ sigTime' \in [Nodes -> Nat] /\ lastDseep' \in [Nodes -> BOOLEAN]
          /\ activeState'[Owner] = "none"
          /\ \A k \in Nodes \ {Owner} : lastTimeSeen'[k] = lastTimeSeen[k] /\ activeState'[k] = activeState[k]
      BY <2>4, EraseType, AlphanodeAssumption DEF IndInv
    <3>2. FreshEntries'
      BY <1>0, <3>1 DEF IndInv, FreshEntries, Listed
    <3> QED BY <1>0, <2>1, <2>2, <2>0, <3>1, <3>2 DEF IndInv, Types
  <2>5. CASE UNCHANGED entry
    BY <1>0, <2>1, <2>2, <2>0, <2>5 DEF IndInv, Types, FreshEntries, Listed, entry
  <2> QED BY <1>4, <2>4, <2>5 DEF StopAlphaNode, RemoveOwn
<1> QED BY <1>3, <1>4

\* A tick makes everything older, the owner's last signature too.
LEMMA TickStep ==
  ASSUME IndInv, Tick
  PROVE  IndInv'
<1>1. link' \in [Connections -> Seq(Allowed')]
  <2>1. link' = link /\ \A c \in Connections : link[c] = <<>>
    BY DEF Tick
  <2>2. link = [c \in Connections |-> <<>>]
    BY <2>1 DEF IndInv
  <2>3. <<>> \in Seq(Allowed')
    OBVIOUS
  <2> QED BY <2>1, <2>2, <2>3
<1>2. /\ quiet' = Older(quiet)
      /\ lastTimeSeen' = [n \in Nodes |-> Older(lastTimeSeen[n])]
      /\ UNCHANGED <<activeState, sigTime, up, status, vin, lockedCoin, spent, registered,
                     hung, faults, revived>>
      /\ managed' = FALSE /\ lastDseep' = [n \in Nodes |-> FALSE]
      /\ askAgain' = [n \in Nodes |-> IF askAgain[n] = 0 THEN 0 ELSE askAgain[n] - 1]
  BY DEF Tick
<1>3. \A seen \in Seen : Older(seen) \in Seen
  BY AlphanodeAssumption DEF Older, Seen, Zero
<1>4. quiet' \in 0..(Removal + 1)
  BY <1>2, AlphanodeAssumption DEF Older, Zero, IndInv, Types
<1>5. steady' \in 0..Expiration
  <2>1. steady' \in {0, steady} \/ (steady < Expiration /\ steady' = steady + 1)
    BY DEF Tick
  <2> QED BY <2>1, AlphanodeAssumption DEF IndInv, Types
<1>6. askAgain' \in [Nodes -> 0..MinDseep]
  BY <1>2, AlphanodeAssumption DEF IndInv, Types
<1>7. lastTimeSeen' \in [Nodes -> Seen]
  BY <1>2, <1>3 DEF IndInv, Types
<1>8. FreshEntries'
  <2> SUFFICES ASSUME ~revived, NEW n \in Nodes, activeState[n] # "none",
                      Older(lastTimeSeen[n]) # Zero
               PROVE  Older(lastTimeSeen[n]) >= Older(quiet)
    BY <1>2 DEF FreshEntries, Listed
  <2>1. lastTimeSeen[n] \in Seen /\ quiet \in 0..(Removal + 1)
    BY DEF IndInv, Types
  <2>2. lastTimeSeen[n] # Zero
    BY DEF Older
  <2>3. lastTimeSeen[n] >= quiet
    BY <2>2 DEF IndInv, FreshEntries, Listed
  <2> QED BY <2>1, <2>2, <2>3, AlphanodeAssumption DEF Older, Seen, Zero
<1> QED BY <1>1, <1>2, <1>4, <1>5, <1>6, <1>7, <1>8 DEF IndInv, Types

LEMMA Invariance == IndInv /\ [Next]_vars => IndInv'
<1> SUFFICES ASSUME IndInv, [Next]_vars PROVE IndInv'
  OBVIOUS
<1>1. CASE UNCHANGED vars
  BY <1>1 DEF IndInv, Types, FreshEntries, Listed, Allowed, vars, entry, owner, history
<1>2. ASSUME NEW c \in Connections, Handle(c) PROVE IndInv'
  BY <1>2, UpdateEntryStep, AcceptEntryStep, TakePingStep, OtherMessageStep DEF Handle
<1>3. ASSUME NEW n \in Nodes, CheckAndRemove(n) PROVE IndInv'
  BY <1>3, CheckAndRemoveStep
<1>4. CASE ManageStatus \/ NotReady \/ Start \/ Restart \/ SpendCollateral
  BY <1>4, OwnerStep
<1>5. CASE StopAlphaNode \/ Shutdown
  BY <1>5, StopAndShutdownStep
<1>6. CASE Tick
  BY <1>6, TickStep
<1> QED BY <1>1, <1>2, <1>3, <1>4, <1>5, <1>6 DEF Next

LEMMA Initially == Init => IndInv
<1> SUFFICES ASSUME Init PROVE IndInv
  OBVIOUS
<1>1. /\ "none" \in States /\ Zero \in Seen /\ "NOT_PROCESSED" \in Stati
      /\ 0 \in 0..MinDseep /\ 0 \in 0..MaxFaults /\ 0 \in 0..(Removal + 1) /\ 0 \in 0..Expiration
  BY AlphanodeAssumption DEF States, Seen, Stati
<1>2. Types
  BY <1>1 DEF Init, Types
<1>3. FreshEntries
  BY DEF Init, FreshEntries, Listed
<1>4. link \in [Connections -> Seq(Allowed)]
  <2>1. <<>> \in Seq(Allowed)
    OBVIOUS
  <2> QED BY <2>1 DEF Init
<1> QED BY <1>2, <1>3, <1>4 DEF IndInv

LEMMA Inductive == Spec => []IndInv
<1> QED BY Initially, Invariance, PTL DEF Spec

\* Every variable always holds a value of its type.
THEOREM TypeCorrect == Spec => []TypeOK
<1>1. ASSUME IndInv PROVE TypeOK
  <2>1. link \in [Connections -> Seq(Messages)]
    <3>1. Allowed \subseteq Messages
      BY DEF Allowed
    <3> QED BY <1>1, <3>1, MoreMessages DEF IndInv
  <2>2. quiet \in Seen
    BY <1>1 DEF IndInv, Types, Seen
  <2> QED BY <1>1, <2>1, <2>2 DEF IndInv, Types, TypeOK
<1> QED BY <1>1, Inductive, PTL

\* No node of any network takes the alphanode for fresher than the last thing
\* it signed, unless an entry without a time was passed on.
THEOREM NeverFresherThanSignedCorrect == Spec => []NeverFresherThanSigned
<1>1. IndInv => NeverFresherThanSigned
  BY DEF IndInv, FreshEntries, NeverFresherThanSigned
<1> QED BY <1>1, Inductive, PTL

-----------------------------------------------------------------------------
(* An alphanode that keeps pinging *)

\* Nobody is further from the owner than a peer of a peer, and two throttles in
\* a row stay below the expiration: 30, 30 and 65 minutes in the code.
Near ==
    /\ \A n \in Nodes \ {Owner} :
          n \in Peers[Owner] \/ \E p \in Peers[Owner] : n \in Peers[p]
    /\ 2 * MinDseep + 1 < Expiration

RunningStati == {"IS_CAPABLE", "REMOTELY_ENABLED"}

Fresh(n, age) == lastTimeSeen[n] \in 0..age
Now(n) == Listed(n) /\ lastTimeSeen[n] = 0
Kept(n, age) == activeState[n] = "ENABLED" /\ Fresh(n, age)

\* What is on its way from one node to another while the owner pings in every
\* tick: who passes on a ping or is asked for its entry has just been told.
Steady(c) ==
    {m \in Messages :
        /\ m.type = "dseep" => ~m.stop /\ Now(c[1])
        /\ m.type = "dsee" => m.seen = 0 /\ (steady >= 2 => ~m.new)
        /\ m.type = "dseg" => Now(c[2])}

\* What makes its receiver's entry fresh; one of them is on its way.
Telling(m) == m.type = "dseep" \/ (m.type = "dsee" /\ m.new)
Due(messages) == \E i \in 1..Len(messages) : Telling(messages[i])

LinksSteady ==
    /\ quiet \in {0, 1}
    /\ quiet = 1 => \A c \in Connections : link[c] = <<>>
    /\ \A c \in Connections : link[c] \in Seq(Steady(c))
    /\ \A n \in Nodes : lastDseep[n] => Fresh(n, MinDseep)

OwnerSteady ==
    /\ up /\ ~hung
    /\ quiet = 0 => Now(Owner)
    /\ quiet = 1 /\ status \notin RunningStati => ~Listed(Owner)
    /\ steady >= 2 => status \in RunningStati /\ Kept(Owner, 1)

\* A peer of the owner is told in every tick.
PeersSteady ==
    \A p \in Peers[Owner] :
        /\ quiet = 0 => Due(link[<<Owner, p>>]) \/ ~Listed(p) \/ Fresh(p, MinDseep)
        /\ steady >= 2 => Kept(p, MinDseep + 1)

\* A peer of a peer is told whenever the peer takes a ping, at the latest when
\* all entries have been enabled for MinDseep + 2 ticks.
OthersSteady ==
    /\ steady >= 2 => \A p \in Peers[Owner] : \A n \in Peers[p] \ {Owner} :
          \/ lastTimeSeen[p] >= steady - 1
          \/ Due(link[<<p, n>>]) \/ ~Listed(n) \/ Fresh(n, lastTimeSeen[p] + MinDseep)
    /\ steady >= MinDseep + 3 => \A n \in Nodes : Kept(n, 2 * MinDseep + 1)

\* An entry is dropped when its time has come, and only then.
EntryStates ==
    \A n \in Nodes : activeState[n] # "REMOVE" /\ (activeState[n] = "VIN_SPENT" => spent)

AllSteady == LinksSteady /\ OwnerSteady /\ PeersSteady /\ OthersSteady

LiveInv ==
    /\ EntryStates
    /\ steady >= 1 /\ ~spent => AllSteady

\* What a check may make of an entry: never spent while the coin is not, never
\* removed or expired before its time.
LEMMA ListedStates ==
  ASSUME NEW state \in States \ {"REMOVE"}, NEW seen \in Seen
  PROVE  /\ \A s \in Checked(state, seen) : s = "VIN_SPENT" => state = "VIN_SPENT" \/ spent
         /\ seen = 0 => "REMOVE" \notin Checked(state, seen)
         /\ seen \in 0..(Removal - 1) => "REMOVE" \notin Checked(state, seen)
         /\ seen \in 0..(Expiration - 1) /\ ~spent /\ state # "VIN_SPENT"
               => Checked(state, seen) \subseteq {state, "ENABLED"}
<1>0. ASSUME NEW ticks, seen # Zero, ~(seen > ticks), seen # ticks
      PROVE  UpdatedWithin(seen, ticks) = {TRUE}
  BY <1>0, Zenon DEF UpdatedWithin
<1>9. \A s \in Checked(state, seen) :
         \/ s = state
         \/ /\ state # "VIN_SPENT"
            /\ \E kept \in UpdatedWithin(seen, Removal), fresh \in UpdatedWithin(seen, Expiration) :
                  s = Verdict(kept, fresh)
  BY DEF Checked
<1>1. seen \in 0..(Removal - 1) => UpdatedWithin(seen, Removal) = {TRUE}
  <2>1. seen \in 0..(Removal - 1) => seen # Zero /\ ~(seen > Removal) /\ seen # Removal
    BY AlphanodeAssumption DEF Zero
  <2> QED BY <1>0, <2>1
<1>2. seen \in 0..(Expiration - 1) => seen \in 0..(Removal - 1) /\ UpdatedWithin(seen, Expiration) = {TRUE}
  <2>1. seen \in 0..(Expiration - 1) => seen # Zero /\ ~(seen > Expiration) /\ seen # Expiration
    BY AlphanodeAssumption DEF Zero
  <2>2. seen \in 0..(Expiration - 1) => seen \in 0..(Removal - 1)
    BY AlphanodeAssumption
  <2> QED BY <1>0, <2>1, <2>2
<1>3. seen = 0 => seen \in 0..(Removal - 1)
  BY AlphanodeAssumption
<1>4. seen \in 0..(Removal - 1) => "REMOVE" \notin Checked(state, seen)
  <2>1. \A fresh : Verdict(TRUE, fresh) # "REMOVE"
    BY Zenon DEF Verdict
  <2> QED BY <1>1, <1>9, <2>1, Zenon
<1>5. \A s \in Checked(state, seen) : s = "VIN_SPENT" => state = "VIN_SPENT" \/ spent
  BY DEF Checked, Verdict
<1>6. seen \in 0..(Expiration - 1) /\ ~spent /\ state # "VIN_SPENT"
         => Checked(state, seen) \subseteq {state, "ENABLED"}
  <2>1. ~spent => Verdict(TRUE, TRUE) = "ENABLED"
    BY Zenon DEF Verdict
  <2> QED BY <1>1, <1>2, <1>9, <2>1, Zenon
<1> QED BY <1>3, <1>4, <1>5, <1>6

\* Taking a message off a link takes at most one thing that was due.
LEMMA DueMessages ==
  ASSUME NEW s \in Seq(Messages), NEW m \in Messages
  PROVE  /\ Due(s) => Due(Append(s, m))
         /\ Telling(m) => Due(Append(s, m))
         /\ s # <<>> /\ Due(s) => Telling(Head(s)) \/ Due(Tail(s))
         /\ ~Due(<<>>)
<1>1. Due(s) => Due(Append(s, m))
  BY DEF Due
<1>2. Telling(m) => Due(Append(s, m))
  <2>1. Append(s, m)[Len(s) + 1] = m /\ Len(s) + 1 \in 1..Len(Append(s, m))
    OBVIOUS
  <2> QED BY <2>1 DEF Due
<1>3. ASSUME s # <<>>, Due(s) PROVE Telling(Head(s)) \/ Due(Tail(s))
  <2>1. PICK i \in 1..Len(s) : Telling(s[i])
    BY <1>3 DEF Due
  <2>2. CASE i = 1
    BY <2>1, <2>2
  <2>3. CASE i # 1
    <3>1. i - 1 \in 1..Len(Tail(s)) /\ Tail(s)[i - 1] = s[i]
      BY <1>3, <2>3
    <3> QED BY <2>1, <3>1 DEF Due
  <2> QED BY <2>2, <2>3
<1>4. ~Due(<<>>)
  BY DEF Due
<1> QED BY <1>1, <1>2, <1>3, <1>4

-----------------------------------------------------------------------------
(* A step within a steady tick *)

\* What it may do to an entry: keep its time, make it now, or drop it when its
\* time has come.
Stays(k) ==
    /\ lastTimeSeen'[k] = lastTimeSeen[k] /\ (activeState'[k] # "none") = Listed(k)
    /\ Kept(k, Expiration - 1) => activeState'[k] = "ENABLED"
Renewed(k) ==
    /\ lastTimeSeen'[k] = 0 /\ activeState'[k] # "none"
    /\ activeState[k] = "ENABLED" => activeState'[k] = "ENABLED"
Dropped(k) == activeState'[k] = "none" /\ Listed(k) /\ ~Fresh(k, Removal - 1)

\* What it may do to the entries and the links together: who was to be told has
\* been or still is, and a node other than the owner that is told tells its peers.
Passing ==
    /\ steady' = steady /\ spent' = spent
    /\ \A k \in Nodes : Stays(k) \/ Renewed(k) \/ Dropped(k)
    /\ \A c \in Connections :
          Due(link[c]) => Due(link'[c]) \/ activeState'[c[2]] = "none" \/ lastTimeSeen'[c[2]] \in 0..MinDseep
    /\ steady >= 2 => \A k \in Nodes \ {Owner} :
          activeState[k] = "ENABLED" => \/ lastTimeSeen'[k] = lastTimeSeen[k]
                         \/ \A n \in Peers[k] \ {Owner} : Due(link'[<<k, n>>])
                         \/ Dropped(k)
    /\ \A k \in Nodes : lastDseep'[k] => lastDseep[k] \/ lastTimeSeen'[k] \in 0..MinDseep

\* An entry that is now stays so, and no entry gets older within a tick.
LEMMA PassingTimes ==
  ASSUME IndInv, Passing, NEW k \in Nodes
  PROVE  /\ Now(k) => Now(k)'
         /\ ~Listed(k) => ~Listed(k)' \/ Now(k)'
         /\ \A age \in 0..(Removal - 1) : Fresh(k, age) => Fresh(k, age)'
         /\ \A age \in 0..(Expiration - 1) : Kept(k, age) => Kept(k, age)'
<1>1. Stays(k) \/ Renewed(k) \/ Dropped(k)
  BY DEF Passing
<1>2. lastTimeSeen[k] \in Seen
  BY DEF IndInv, Types
<1>3. Now(k) => Now(k)'
  BY <1>1, AlphanodeAssumption DEF Stays, Renewed, Dropped, Now, Listed, Fresh
<1>4. ~Listed(k) => ~Listed(k)' \/ Now(k)'
  BY <1>1 DEF Stays, Renewed, Dropped, Now, Listed
<1>5. ASSUME NEW age \in 0..(Removal - 1), Fresh(k, age) PROVE Fresh(k, age)' /\ ~Dropped(k)
  <2>1. Fresh(k, Removal - 1)
    BY <1>5, AlphanodeAssumption DEF Fresh
  <2>2. ~Dropped(k)
    BY <2>1 DEF Dropped
  <2>3. lastTimeSeen'[k] \in {lastTimeSeen[k], 0}
    BY <1>1, <2>2 DEF Stays, Renewed
  <2> QED BY <1>5, <2>2, <2>3 DEF Fresh
<1>6. ASSUME NEW age \in 0..(Expiration - 1), Kept(k, age) PROVE Kept(k, age)'
  <2>1. age \in 0..(Removal - 1) /\ Kept(k, Expiration - 1) /\ Fresh(k, age)
    BY <1>6, AlphanodeAssumption DEF Fresh, Kept
  <2>2. Fresh(k, age)' /\ ~Dropped(k)
    BY <1>5, <2>1
  <2>3. activeState'[k] = "ENABLED"
    BY <1>1, <2>1, <2>2, <1>6 DEF Stays, Renewed, Kept
  <2> QED BY <2>2, <2>3 DEF Kept
<1> QED BY <1>3, <1>4, <1>5, <1>6

\* The ages the invariant speaks of are below the limits.
LEMMA NearLimits ==
  ASSUME Near
  PROVE  /\ {0, 1, MinDseep, MinDseep + 1, 2 * MinDseep + 1} \subseteq 0..(Expiration - 1)
         /\ 0..(Expiration - 1) \subseteq 0..(Removal - 1)
         /\ MinDseep \in Nat /\ MinDseep >= 2 /\ MinDseep + 3 <= Expiration /\ Expiration \in Nat
  BY AlphanodeAssumption DEF Near

LEMMA Neighbours ==
  /\ Owner \in Nodes
  /\ \A n \in Nodes : \A p \in Peers[n] : p \in Nodes /\ p # n /\ n \in Peers[p] /\ <<n, p>> \in Connections
  BY AlphanodeAssumption DEF Connections

\* What is true of the ages and of what is due survives such a step.
LEMMA PassingKeeps ==
  ASSUME Near, IndInv, AllSteady, steady >= 1, Passing
  PROVE  /\ \A n \in Nodes : lastDseep'[n] => Fresh(n, MinDseep)'
         /\ OthersSteady'
         /\ \A p \in Peers[Owner] : steady >= 2 => Kept(p, MinDseep + 1)'
         /\ \A p \in Peers[Owner] : quiet = 0 =>
               Due(link'[<<Owner, p>>]) \/ ~Listed(p)' \/ Fresh(p, MinDseep)'
         /\ steady >= 2 => Kept(Owner, 1)'
         /\ quiet = 0 => Now(Owner)'
<1>0. steady' = steady
  BY DEF Passing
<1>1. \A n \in Nodes : lastDseep'[n] => Fresh(n, MinDseep)'
  BY PassingTimes, NearLimits DEF AllSteady, LinksSteady, Passing, Fresh
<1>2. /\ \A p \in Peers[Owner] : steady >= 2 => Kept(p, MinDseep + 1)'
      /\ steady >= 2 => Kept(Owner, 1)'
      /\ quiet = 0 => Now(Owner)'
  BY PassingTimes, NearLimits, Neighbours DEF AllSteady, PeersSteady, OwnerSteady
<1>4. ASSUME NEW p \in Peers[Owner], quiet = 0
      PROVE  Due(link'[<<Owner, p>>]) \/ ~Listed(p)' \/ Fresh(p, MinDseep)'
  <2>1. p \in Nodes /\ <<Owner, p>> \in Connections /\ <<Owner, p>>[2] = p
    BY Neighbours
  <2>2. CASE Due(link[<<Owner, p>>])
    BY <2>1, <2>2 DEF Passing, Listed, Fresh
  <2>3. CASE ~Listed(p)
    <3>1. ~Listed(p)' \/ Now(p)'
      BY <2>1, <2>3, PassingTimes
    <3> QED BY <3>1, NearLimits DEF Now, Fresh
  <2>4. CASE Fresh(p, MinDseep)
    BY <2>1, <2>4, PassingTimes, NearLimits
  <2> QED BY <1>4, <2>2, <2>3, <2>4 DEF AllSteady, PeersSteady
<1>5. ASSUME NEW p \in Peers[Owner], NEW n \in Peers[p] \ {Owner}, steady >= 2
      PROVE  \/ lastTimeSeen'[p] >= steady - 1
             \/ Due(link'[<<p, n>>]) \/ ~Listed(n)' \/ lastTimeSeen'[n] \in 0..(lastTimeSeen'[p] + MinDseep)
  <2>1. p \in Nodes /\ n \in Nodes /\ <<p, n>> \in Connections /\ <<p, n>>[2] = n /\ p # Owner
    BY Neighbours
  <2>2. Kept(p, MinDseep + 1) /\ Kept(p, MinDseep + 1)'
    BY <1>2, <1>5 DEF AllSteady, PeersSteady
  <2>3. CASE lastTimeSeen'[p] # lastTimeSeen[p]
    <3>1. ~Dropped(p)
      BY <2>2 DEF Dropped, Kept
    <3> QED BY <1>5, <2>1, <2>2, <2>3, <3>1 DEF Passing, Kept
  <2>4. CASE lastTimeSeen'[p] = lastTimeSeen[p]
    <3>0. lastTimeSeen[p] \in 0..(MinDseep + 1) /\ MinDseep \in Nat /\ lastTimeSeen[p] + MinDseep \in 0..(Expiration - 1)
      BY <2>2, NearLimits, AlphanodeAssumption DEF Kept, Fresh, Near
    <3>1. CASE lastTimeSeen[p] >= steady - 1
      BY <2>4, <3>1
    <3>2. CASE Due(link[<<p, n>>])
      <4>1. Due(link'[<<p, n>>]) \/ activeState'[n] = "none" \/ lastTimeSeen'[n] \in 0..MinDseep
        BY <2>1, <3>2 DEF Passing
      <4>2. 0..MinDseep \subseteq 0..(lastTimeSeen[p] + MinDseep)
        BY <3>0
      <4> QED BY <2>4, <4>1, <4>2 DEF Listed
    <3>3. CASE ~Listed(n)
      <4>1. ~Listed(n)' \/ lastTimeSeen'[n] = 0
        BY <2>1, <3>3, PassingTimes DEF Now
      <4>2. 0 \in 0..(lastTimeSeen[p] + MinDseep)
        BY <3>0
      <4> QED BY <2>4, <4>1, <4>2
    <3>4. CASE Fresh(n, lastTimeSeen[p] + MinDseep)
      <4>1. Stays(n) \/ Renewed(n) \/ Dropped(n)
        BY <2>1 DEF Passing
      <4>2. Fresh(n, Removal - 1)
        BY <3>0, <3>4, NearLimits DEF Fresh
      <4>3. lastTimeSeen'[n] \in {0, lastTimeSeen[n]}
        BY <4>1, <4>2 DEF Stays, Renewed, Dropped
      <4>4. 0 \in 0..(lastTimeSeen[p] + MinDseep)
        BY <3>0
      <4> QED BY <2>4, <3>4, <4>3, <4>4 DEF Fresh
    <3> QED BY <1>5, <3>1, <3>2, <3>3, <3>4 DEF AllSteady, OthersSteady
  <2> QED BY <2>3, <2>4
<1>6. steady >= MinDseep + 3 => \A n \in Nodes : Kept(n, 2 * MinDseep + 1)'
  BY PassingTimes, NearLimits DEF AllSteady, OthersSteady
<1>7. OthersSteady'
  BY <1>0, <1>5, <1>6 DEF OthersSteady, Fresh
<1> QED BY <1>1, <1>2, <1>4, <1>7

-----------------------------------------------------------------------------
(* Messages of a steady tick *)

LEMMA Untouched ==
  ASSUME NEW k, activeState'[k] = activeState[k], lastTimeSeen'[k] = lastTimeSeen[k]
  PROVE  Stays(k)
  BY DEF Stays, Listed, Kept

\* Who may take an entry for recent has seen it within that time.
LEMMA SeenWithin ==
  ASSUME NEW seen \in Seen, NEW ticks \in Nat, ticks < MinDseep \/ ticks = MinDseep,
         TRUE \in UpdatedWithin(seen, ticks)
  PROVE  seen \in 0..MinDseep
<1>1. ASSUME seen = Zero \/ seen > ticks PROVE FALSE
  <2>1. seen # ticks
    BY <1>1 DEF Zero, Seen
  <2>2. UpdatedWithin(seen, ticks) = {FALSE}
    BY <1>1, <2>1, Zenon DEF UpdatedWithin
  <2> QED BY <2>2, Zenon
<1> QED BY <1>1, AlphanodeAssumption DEF Seen, Zero

LEMMA LinksTyped == IndInv => link \in [Connections -> Seq(Messages)]
  BY MoreMessages DEF IndInv, Allowed

\* A message of a steady tick, and what taking it leaves.
LEMMA SteadyTaken ==
  ASSUME IndInv, AllSteady, NEW c \in Connections, NEW type, Received(c, type)
  PROVE  /\ quiet = 0
         /\ Head(link[c]) \in Steady(c) /\ Head(link[c]) \in Messages /\ Head(link[c]).type = type
         /\ Without(c) \in [Connections -> Seq(Messages)]
         /\ \A d \in Connections :
              /\ Without(c)[d] \in Seq(Steady(d))
              /\ Due(link[d]) => Due(Without(c)[d]) \/ (d = c /\ Telling(Head(link[c])))
<1>1. /\ link[c] # <<>> /\ Head(link[c]).type = type
      /\ link \in [Connections -> Seq(Messages)] /\ \A d \in Connections : link[d] \in Seq(Steady(d))
  BY LinksTyped DEF Received, AllSteady, LinksSteady
<1>2. quiet = 0
  BY <1>1 DEF AllSteady, LinksSteady
<1>3. Head(link[c]) \in Steady(c) /\ Head(link[c]) \in Messages
  BY <1>1
<1>4. /\ Without(c) \in [Connections -> Seq(Messages)]
      /\ Without(c)[c] = Tail(link[c]) /\ \A d \in Connections \ {c} : Without(c)[d] = link[d]
  BY <1>1, TakingOne DEF Without
<1>5. \A d \in Connections : Without(c)[d] \in Seq(Steady(d))
  <2>1. Tail(link[c]) \in Seq(Steady(c))
    BY <1>1
  <2> QED BY <1>1, <1>4, <2>1
<1>6. \A d \in Connections : Due(link[d]) => Due(Without(c)[d]) \/ (d = c /\ Telling(Head(link[c])))
  <2>1. link[c] \in Seq(Messages) /\ link[c] # <<>>
    BY <1>1
  <2>2. Due(link[c]) => Telling(Head(link[c])) \/ Due(Tail(link[c]))
    BY <1>3, <2>1, DueMessages
  <2> QED BY <1>4, <2>2
<1> QED BY <1>1, <1>2, <1>3, <1>4, <1>5, <1>6

LEMMA AppendTyped ==
  ASSUME NEW S, NEW s \in Seq(S), NEW m \in S
  PROVE  Append(s, m) \in Seq(S)
  OBVIOUS

\* What relaying does to one link.
LEMMA RelayedOne ==
  ASSUME NEW lnk \in [Connections -> Seq(Messages)], NEW n, NEW m \in Messages, NEW d \in Connections
  PROVE  /\ Relayed(lnk, n, m)[d] = IF d[1] = n /\ Alive(d[2]) THEN Append(lnk[d], m) ELSE lnk[d]
         /\ Due(lnk[d]) => Due(Relayed(lnk, n, m)[d])
         /\ \A S : lnk[d] \in Seq(S) /\ (d[1] = n => m \in S) => Relayed(lnk, n, m)[d] \in Seq(S)
<1>1. Relayed(lnk, n, m)[d] = IF d[1] = n /\ Alive(d[2]) THEN Append(lnk[d], m) ELSE lnk[d]
  BY DEF Relayed
<1>2. lnk[d] \in Seq(Messages)
  OBVIOUS
<1>3. Due(lnk[d]) => Due(Append(lnk[d], m))
  BY <1>2, DueMessages
<1>4. ASSUME NEW S, lnk[d] \in Seq(S), d[1] = n => m \in S
      PROVE  Relayed(lnk, n, m)[d] \in Seq(S)
  BY <1>1, <1>4
<1> QED BY <1>1, <1>3, <1>4

\* What may be on its way may still be after such a step.
LEMMA SteadyGrows ==
  ASSUME IndInv, Passing, NEW d \in Connections
  PROVE  Steady(d) \subseteq Steady(d)' /\ Seq(Steady(d)) \subseteq Seq(Steady(d)')
<1>1. d[1] \in Nodes /\ d[2] \in Nodes /\ steady' = steady
  BY ConnectionProperties DEF Passing
<1>2. Now(d[1]) => Now(d[1])'
  BY <1>1, PassingTimes
<1>3. Now(d[2]) => Now(d[2])'
  BY <1>1, PassingTimes
<1>4. Steady(d) \subseteq Steady(d)'
  BY <1>1, <1>2, <1>3 DEF Steady
<1> QED BY <1>4

\* A registration that is no news was preceded by something recent; a new one
\* is only on its way in the first steady tick.
LEMMA SteadyUpdateEntry ==
  ASSUME Near, IndInv, EntryStates, AllSteady, steady >= 1, ~spent, NEW c \in Connections, UpdateEntry(c)
  PROVE  Passing /\ \A d \in Connections : link'[d] \in Seq(Steady(d)')
<1> DEFINE n == c[2]
           m == Head(link[c])
<1>1. n \in Nodes /\ Received(c, "dsee") /\ Updatable(n) /\ UNCHANGED <<askAgain, owner, history>>
  BY ConnectionProperties DEF UpdateEntry
<1>2. /\ quiet = 0 /\ m \in Steady(c) /\ m \in Messages /\ m.type = "dsee"
      /\ Without(c) \in [Connections -> Seq(Messages)]
      /\ \A d \in Connections :
           /\ Without(c)[d] \in Seq(Steady(d))
           /\ Due(link[d]) => Due(Without(c)[d]) \/ (d = c /\ Telling(m))
  BY <1>1, SteadyTaken
<1>3. m.new \in BOOLEAN /\ (steady >= 2 => ~m.new) /\ m.seen = 0 /\ (Telling(m) => m.new)
  BY <1>2, MessageKinds DEF Steady, Telling
<1>4. steady' = steady /\ spent' = spent /\ lastDseep' = lastDseep
  BY <1>1 DEF UpdateEntry, history, owner, entry
<1>5. PICK recent \in IF m.new THEN UpdatedWithin(lastTimeSeen[n], MinDsee) ELSE {TRUE} :
             IF recent
             THEN /\ link' = Without(c)
                  /\ UNCHANGED entry
             ELSE /\ lastTimeSeen' = [lastTimeSeen EXCEPT ![n] = 0]
                  /\ UNCHANGED lastDseep
                  /\ IF sigTime[n] < m.sig
                     THEN /\ sigTime' = [sigTime EXCEPT ![n] = m.sig]
                          /\ \E state \in Checked(activeState[n], 0) :
                               /\ activeState' = [activeState EXCEPT ![n] = state]
                               /\ link' = IF state = "ENABLED"
                                          THEN Relayed(Without(c), n, m) ELSE Without(c)
                     ELSE /\ link' = Without(c)
                          /\ UNCHANGED <<activeState, sigTime>>
  BY DEF UpdateEntry
<1>6. CASE recent
  <2>1. link' = Without(c) /\ UNCHANGED entry
    BY <1>5, <1>6
  <2>2. m.new => lastTimeSeen[n] \in 0..MinDseep
    <3> SUFFICES ASSUME m.new PROVE lastTimeSeen[n] \in 0..MinDseep
      OBVIOUS
    <3>1. TRUE \in UpdatedWithin(lastTimeSeen[n], MinDsee)
      <4>1. recent \in UpdatedWithin(lastTimeSeen[n], MinDsee)
        BY <1>5
      <4> QED BY <1>6, <4>1
    <3> QED BY <1>1, <3>1, SeenWithin, AlphanodeAssumption DEF IndInv, Types
  <2>3. \A k \in Nodes : Stays(k)
    BY <2>1, Untouched DEF entry
  <2>4. \A d \in Connections :
          Due(link[d]) => Due(link'[d]) \/ activeState'[d[2]] = "none" \/ lastTimeSeen'[d[2]] \in 0..MinDseep
    BY <1>2, <1>3, <2>1, <2>2 DEF entry
  <2>5. Passing
    BY <1>4, <2>1, <2>3, <2>4 DEF Passing, entry
  <2> QED BY <1>2, <2>1, <2>5, SteadyGrows
<1>7. CASE ~recent
  <2>1. steady < 2
    <3>1. m.new
      BY <1>5, <1>7, Zenon
    <3> QED BY <1>3, <3>1 DEF IndInv, Types
  <2>2. PICK state \in Checked(activeState[n], 0) :
           /\ activeState' = [activeState EXCEPT ![n] = state]
           /\ link' \in {Without(c), Relayed(Without(c), n, m)}
    <3>1. CASE sigTime[n] < m.sig
      BY <1>5, <1>7, <3>1
    <3>2. CASE ~(sigTime[n] < m.sig)
      <4>1. activeState' = activeState /\ link' = Without(c)
        BY <1>5, <1>7, <3>2
      <4>2. activeState' = [activeState EXCEPT ![n] = activeState[n]]
        BY <4>1 DEF IndInv, Types
      <4>3. activeState[n] \in Checked(activeState[n], 0)
        BY DEF Checked
      <4> QED BY <4>1, <4>2, <4>3
    <3> QED BY <3>1, <3>2
  <2>3. lastTimeSeen' = [lastTimeSeen EXCEPT ![n] = 0]
    BY <1>5, <1>7
  <2>4. state \in {activeState[n], "ENABLED"}
    <3>1. activeState[n] \in States \ {"REMOVE"} /\ activeState[n] # "VIN_SPENT" /\ 0 \in Seen
      BY <1>1, AlphanodeAssumption DEF EntryStates, IndInv, Types, Seen
    <3>2. 0 \in 0..(Expiration - 1)
      BY NearLimits
    <3> QED BY <2>2, <3>1, <3>2, ListedStates
  <2>5. /\ activeState'[n] = state /\ lastTimeSeen'[n] = 0
        /\ \A k \in Nodes \ {n} : activeState'[k] = activeState[k] /\ lastTimeSeen'[k] = lastTimeSeen[k]
    BY <1>1, <2>2, <2>3 DEF IndInv, Types
  <2>6. Renewed(n) /\ \A k \in Nodes \ {n} : Stays(k)
    BY <1>1, <2>4, <2>5, Untouched DEF Renewed, Updatable, Listed
  <2>7. \A d \in Connections : Due(Without(c)[d]) => Due(link'[d])
    BY <1>2, <2>2, RelayedOne
  <2>8. Passing
    <3>1. \A d \in Connections :
          Due(link[d]) => Due(link'[d]) \/ activeState'[d[2]] = "none" \/ lastTimeSeen'[d[2]] \in 0..MinDseep
      BY <1>2, <2>5, <2>7, NearLimits
    <3> QED BY <1>4, <2>1, <2>6, <3>1 DEF Passing, IndInv, Types
  <2>9. ASSUME NEW d \in Connections PROVE link'[d] \in Seq(Steady(d)')
    <3>1. Without(c)[d] \in Seq(Steady(d)')
      BY <1>2, <2>8, SteadyGrows
    <3>2. m \in Steady(d)'
      BY <1>2, <1>3, <1>4 DEF Steady
    <3> QED BY <1>2, <2>2, <3>1, <3>2, RelayedOne
  <2> QED BY <2>8, <2>9
<1> QED BY <1>6, <1>7

\* A ping makes the entry now, or found it recent; a peer passes it on.
LEMMA SteadyTakePing ==
  ASSUME Near, IndInv, EntryStates, AllSteady, steady >= 1, ~spent, NEW c \in Connections, TakePing(c)
  PROVE  Passing /\ \A d \in Connections : link'[d] \in Seq(Steady(d)')
<1> DEFINE n == c[2]
           m == Head(link[c])
<1>1. n \in Nodes /\ Received(c, "dseep") /\ Listed(n) /\ UNCHANGED <<askAgain, owner, history>>
  BY ConnectionProperties DEF TakePing
<1>2. /\ quiet = 0 /\ m \in Steady(c) /\ m \in Messages /\ m.type = "dseep"
      /\ Without(c) \in [Connections -> Seq(Messages)]
      /\ \A d \in Connections :
           /\ Without(c)[d] \in Seq(Steady(d))
           /\ Due(link[d]) => Due(Without(c)[d]) \/ (d = c /\ Telling(m))
  BY <1>1, SteadyTaken
<1>3. ~m.stop /\ Telling(m)
  BY <1>2 DEF Steady, Telling
<1>4. steady' = steady /\ spent' = spent
  BY <1>1 DEF history, owner
<1>5. CASE UNCHANGED <<activeState, lastTimeSeen>> /\ link' = Without(c) /\ lastTimeSeen[n] \in 0..MinDseep
           /\ \A k \in Nodes : lastDseep'[k] => lastDseep[k] \/ k = n
  <2>1. \A k \in Nodes : Stays(k)
    BY <1>5, Untouched
  <2>2. \A d \in Connections :
          Due(link[d]) => Due(link'[d]) \/ activeState'[d[2]] = "none" \/ lastTimeSeen'[d[2]] \in 0..MinDseep
    BY <1>2, <1>5
  <2>3. Passing
    BY <1>4, <1>5, <2>1, <2>2 DEF Passing
  <2> QED BY <1>2, <1>5, <2>3, SteadyGrows
<1>6. ASSUME NEW state \in Checked(activeState[n], 0),
             activeState' = [activeState EXCEPT ![n] = state],
             lastTimeSeen' = [lastTimeSeen EXCEPT ![n] = 0],
             lastDseep' = [lastDseep EXCEPT ![n] = TRUE],
             link' = IF state = "ENABLED" THEN Relayed(Without(c), n, m) ELSE Without(c)
      PROVE  Passing /\ \A d \in Connections : link'[d] \in Seq(Steady(d)')
  <2>1. state \in {activeState[n], "ENABLED"}
    <3>1. activeState[n] \in States \ {"REMOVE"} /\ activeState[n] # "VIN_SPENT" /\ 0 \in Seen
      BY <1>1, AlphanodeAssumption DEF EntryStates, IndInv, Types, Seen
    <3>2. 0 \in 0..(Expiration - 1)
      BY NearLimits
    <3> QED BY <1>6, <3>1, <3>2, ListedStates
  <2>2. /\ activeState'[n] = state /\ lastTimeSeen'[n] = 0
        /\ \A k \in Nodes \ {n} : /\ activeState'[k] = activeState[k] /\ lastTimeSeen'[k] = lastTimeSeen[k]
                                  /\ lastDseep'[k] = lastDseep[k]
    BY <1>1, <1>6 DEF IndInv, Types
  <2>3. Renewed(n) /\ \A k \in Nodes \ {n} : Stays(k)
    BY <1>1, <2>1, <2>2, Untouched DEF Renewed, Listed
  <2>4. \A d \in Connections : Due(Without(c)[d]) => Due(link'[d])
    BY <1>2, <1>6, RelayedOne
  <2>5. ASSUME n # Owner, activeState[n] = "ENABLED", NEW k \in Peers[n] \ {Owner}
        PROVE  Due(link'[<<n, k>>])
    <3>1. <<n, k>> \in Connections /\ <<n, k>>[1] = n /\ <<n, k>>[2] = k /\ Alive(k)
      BY <1>1, <2>5, Neighbours DEF Alive
    <3>2. link' = Relayed(Without(c), n, m)
      BY <1>6, <2>1, <2>5
    <3> DEFINE d == <<n, k>>
    <3>3. Without(c)[d] \in Seq(Messages)
      BY <1>2, <3>1
    <3>4. Relayed(Without(c), n, m)[d] = IF d[1] = n /\ Alive(d[2]) THEN Append(Without(c)[d], m) ELSE Without(c)[d]
      BY <1>2, <3>1, RelayedOne
    <3>5. link'[d] = Append(Without(c)[d], m)
      BY <3>1, <3>2, <3>4
    <3> QED BY <1>2, <1>3, <3>3, <3>5, DueMessages
  <2>6. Passing
    <3>1. \A d \in Connections :
          Due(link[d]) => Due(link'[d]) \/ activeState'[d[2]] = "none" \/ lastTimeSeen'[d[2]] \in 0..MinDseep
      BY <1>2, <2>2, <2>4, NearLimits
    <3>2. \A k \in Nodes : lastDseep'[k] => lastDseep[k] \/ lastTimeSeen'[k] \in 0..MinDseep
      BY <2>2, NearLimits
    <3>3. \A k \in Nodes \ {Owner} : activeState[k] = "ENABLED" =>
             \/ lastTimeSeen'[k] = lastTimeSeen[k]
             \/ \A j \in Peers[k] \ {Owner} : Due(link'[<<k, j>>])
      BY <2>2, <2>5
    <3> QED BY <1>4, <2>3, <3>1, <3>2, <3>3 DEF Passing
  <2>7. ASSUME NEW d \in Connections PROVE link'[d] \in Seq(Steady(d)')
    <3>1. Without(c)[d] \in Seq(Steady(d)')
      BY <1>2, <2>6, SteadyGrows
    <3>2. d[1] = n => m \in Steady(d)'
      BY <1>2, <1>3, <1>1, <2>1, <2>2 DEF Steady, Now, Listed
    <3> QED BY <1>2, <1>6, <3>1, <3>2, RelayedOne
  <2> QED BY <2>6, <2>7
<1>7. CASE lastDseep[n]
  <2>1. link' = Without(c) /\ UNCHANGED entry
    BY <1>7 DEF TakePing
  <2>2. lastTimeSeen[n] \in 0..MinDseep
    BY <1>1, <1>7 DEF AllSteady, LinksSteady, Fresh
  <2> QED BY <1>5, <2>1, <2>2 DEF entry
<1>8. CASE ~lastDseep[n]
  <2>1. PICK recent \in UpdatedWithin(lastTimeSeen[n], MinDseep) :
                     IF recent
                     THEN link' = Without(c) /\ UNCHANGED <<activeState, lastTimeSeen>>
                     ELSE IF m.stop
                     THEN /\ lastTimeSeen' = [lastTimeSeen EXCEPT ![n] = Zero]
                          /\ link' = Relayed(Without(c), n, m)
                          /\ UNCHANGED activeState
                     ELSE /\ lastTimeSeen' = [lastTimeSeen EXCEPT ![n] = 0]
                          /\ \E state \in Checked(activeState[n], 0) :
                               /\ activeState' = [activeState EXCEPT ![n] = state]
                               /\ link' = IF state = "ENABLED"
                                          THEN Relayed(Without(c), n, m) ELSE Without(c)
    BY <1>8 DEF TakePing
  <2>2. lastDseep' = [lastDseep EXCEPT ![n] = TRUE]
    BY <1>8 DEF TakePing
  <2>3. CASE recent
    <3>1. TRUE \in UpdatedWithin(lastTimeSeen[n], MinDseep)
      <4>1. recent \in UpdatedWithin(lastTimeSeen[n], MinDseep)
        BY <2>1
      <4> QED BY <2>3, <4>1
    <3>2. lastTimeSeen[n] \in 0..MinDseep
      BY <1>1, <3>1, SeenWithin, AlphanodeAssumption DEF IndInv, Types
    <3>3. \A k \in Nodes : lastDseep'[k] => lastDseep[k] \/ k = n
      BY <2>2 DEF IndInv, Types
    <3> QED BY <1>5, <2>1, <2>3, <3>2, <3>3
  <2>4. CASE ~recent
    BY <1>3, <1>6, <2>1, <2>2, <2>4
  <2> QED BY <2>3, <2>4
<1> QED BY <1>7, <1>8

\* An entry that is asked for comes from a node that was just told.
LEMMA SteadyAcceptEntry ==
  ASSUME Near, IndInv, EntryStates, AllSteady, steady >= 1, ~spent, NEW c \in Connections, AcceptEntry(c)
  PROVE  Passing /\ \A d \in Connections : link'[d] \in Seq(Steady(d)')
<1> DEFINE n == c[2]
           m == Head(link[c])
<1>1. n \in Nodes /\ Received(c, "dsee") /\ ~Updatable(n)
  BY ConnectionProperties DEF AcceptEntry
<1>2. /\ quiet = 0 /\ m \in Steady(c) /\ m \in Messages /\ m.type = "dsee"
      /\ Without(c) \in [Connections -> Seq(Messages)]
      /\ \A d \in Connections :
           /\ Without(c)[d] \in Seq(Steady(d))
           /\ Due(link[d]) => Due(Without(c)[d]) \/ (d = c /\ Telling(m))
  BY <1>1, SteadyTaken
<1>3. m.new \in BOOLEAN /\ (steady >= 2 => ~m.new) /\ m.seen = 0
  BY <1>2, MessageKinds DEF Steady
<1>4. steady' = steady /\ spent' = spent /\ link' \in {Without(c), Relayed(Without(c), n, m)}
  BY DEF AcceptEntry
<1>5. lastTimeSeen'[n] = 0 /\ Renewed(n)
  <2>1. CASE Listed(n)
    <3>1. n = Owner /\ UNCHANGED entry
      BY <1>1, <2>1 DEF AcceptEntry, Updatable
    <3> QED BY <1>2, <3>1 DEF AllSteady, OwnerSteady, Now, Listed, Renewed, entry
  <2>2. CASE ~Listed(n)
    <3>1. activeState'[n] = "ENABLED" /\ lastTimeSeen'[n] = LastUpdated(m.seen)
      BY <1>1, <2>2 DEF AcceptEntry, IndInv, Types
    <3> QED BY <1>3, <3>1 DEF LastUpdated, Zero, Renewed
  <2> QED BY <2>1, <2>2
<1>6. \A k \in Nodes \ {n} : /\ activeState'[k] = activeState[k] /\ lastTimeSeen'[k] = lastTimeSeen[k]
                             /\ lastDseep'[k] = lastDseep[k]
  <2>1. CASE Listed(n)
    BY <2>1 DEF AcceptEntry, entry
  <2>2. CASE ~Listed(n)
    BY <2>2 DEF AcceptEntry, IndInv, Types
  <2> QED BY <2>1, <2>2
<1>7. \A d \in Connections : Due(Without(c)[d]) => Due(link'[d])
  BY <1>2, <1>4, RelayedOne
<1>8. Passing
  <2>1. \A k \in Nodes \ {n} : Stays(k)
    BY <1>6, Untouched
  <2>2. \A d \in Connections :
          Due(link[d]) => Due(link'[d]) \/ activeState'[d[2]] = "none" \/ lastTimeSeen'[d[2]] \in 0..MinDseep
    BY <1>2, <1>5, <1>7, NearLimits
  <2>3. \A k \in Nodes : lastDseep'[k] => lastDseep[k] \/ lastTimeSeen'[k] \in 0..MinDseep
    BY <1>5, <1>6, NearLimits
  <2>4. \A k \in Nodes \ {Owner} : activeState[k] = "ENABLED" => lastTimeSeen'[k] = lastTimeSeen[k]
    <3>1. n # Owner => activeState[n] = "none"
      BY <1>1 DEF Updatable, Listed
    <3> QED BY <1>6, <3>1
  <2> QED BY <1>4, <1>5, <2>1, <2>2, <2>3, <2>4 DEF Passing
<1>9. ASSUME NEW d \in Connections PROVE link'[d] \in Seq(Steady(d)')
  <2>1. Without(c)[d] \in Seq(Steady(d)')
    BY <1>2, <1>8, SteadyGrows
  <2>2. m \in Steady(d)'
    BY <1>2, <1>3, <1>4 DEF Steady
  <2> QED BY <1>2, <1>4, <2>1, <2>2, RelayedOne
<1> QED BY <1>8, <1>9

\* The other messages change no entry; what the answer to one carries is of now.
LEMMA SteadyOtherMessage ==
  ASSUME Near, IndInv, EntryStates, AllSteady, steady >= 1, ~spent,
         NEW c \in Connections, DropEntry(c) \/ AskForEntry(c) \/ AnswerDseg(c)
  PROVE  Passing /\ \A d \in Connections : link'[d] \in Seq(Steady(d)')
<1> DEFINE n == c[2]
           m == Head(link[c])
           back == <<n, c[1]>>
<1>1. /\ n \in Nodes /\ c[1] \in Nodes /\ back \in Connections /\ back[1] = n /\ back[2] = c[1]
      /\ UNCHANGED <<entry, owner, history>>
  BY ConnectionProperties DEF DropEntry, AskForEntry, AnswerDseg
<1>2. PICK type : Received(c, type) /\ type = m.type
  BY DEF DropEntry, AskForEntry, AnswerDseg, Received
<1>3. /\ quiet = 0 /\ m \in Steady(c) /\ m \in Messages /\ m.type = type
      /\ Without(c) \in [Connections -> Seq(Messages)]
      /\ \A d \in Connections :
           /\ Without(c)[d] \in Seq(Steady(d))
           /\ Due(link[d]) => Due(Without(c)[d]) \/ (d = c /\ Telling(m))
  BY <1>2, SteadyTaken
<1>4. steady' = steady /\ spent' = spent /\ activeState' = activeState
      /\ lastTimeSeen' = lastTimeSeen /\ lastDseep' = lastDseep
  BY <1>1 DEF entry, owner, history
<1>5. Telling(m) => activeState[n] = "none" \/ lastTimeSeen[n] = 0
  <2>1. quiet = 0 => Now(Owner)
    BY DEF AllSteady, OwnerSteady
  <2>2. CASE DropEntry(c)
    BY <1>3, <2>1, <2>2 DEF DropEntry, Updatable, Listed, Now
  <2>3. CASE AskForEntry(c)
    BY <2>3 DEF AskForEntry, Listed
  <2>4. CASE AnswerDseg(c)
    BY <2>4 DEF AnswerDseg, Received, Telling
  <2> QED BY <2>2, <2>3, <2>4
<1>6. PICK x \in Messages : /\ ~Telling(x) /\ x \in Steady(back)
                            /\ link' \in {Without(c), [Without(c) EXCEPT ![back] = Append(@, x)]}
  <2>0. Dseg.type = "dseg" /\ Dseg \in Messages
    BY MessageTypes DEF Dseg
  <2>1. CASE DropEntry(c)
    <3>1. link' = Without(c)
      BY <2>1 DEF DropEntry
    <3>2. LET x == Dsee(FALSE, 0, 0) IN x \in Messages /\ ~Telling(x) /\ x \in Steady(back)
      <4>1. 0 \in Seen
        BY AlphanodeAssumption DEF Seen
      <4>2. Dsee(FALSE, 0, 0) \in Messages
        BY <4>1, MessageTypes
      <4> QED BY <4>2 DEF Dsee, Telling, Steady
    <3> QED BY <3>1, <3>2
  <2>2. CASE AskForEntry(c)
    <3>1. Now(c[1])
      BY <1>3, <2>2 DEF AskForEntry, Received, Steady
    <3>2. Dseg \in Steady(back) /\ ~Telling(Dseg)
      BY <1>1, <2>0, <3>1 DEF Steady, Telling
    <3>3. link' \in {Without(c), [Without(c) EXCEPT ![back] = Append(@, Dseg)]}
      <4>1. [Without(c) EXCEPT ![back] = @] = Without(c)
        BY <1>3
      <4> QED BY <2>2, <4>1 DEF AskForEntry
    <3> QED BY <2>0, <3>2, <3>3
  <2>3. CASE AnswerDseg(c)
    <3>1. Now(n)
      BY <1>3, <2>3 DEF AnswerDseg, Received, Steady
    <3>2. lastTimeSeen[n] \in Seen /\ sigTime[n] \in Nat /\ lastTimeSeen[n] = 0
      BY <1>1, <3>1 DEF IndInv, Types, Now
    <3> DEFINE x == Dsee(FALSE, lastTimeSeen[n], sigTime[n])
    <3>3. x \in Messages
      BY <3>2, MessageTypes
    <3>4. x \in Steady(back) /\ ~Telling(x)
      BY <3>2, <3>3 DEF Steady, Telling, Dsee
    <3>5. link' \in {Without(c), [Without(c) EXCEPT ![back] = Append(@, x)]}
      <4>1. [Without(c) EXCEPT ![back] = @] = Without(c)
        BY <1>3
      <4> QED BY <2>3, <4>1 DEF AnswerDseg
    <3> QED BY <3>3, <3>4, <3>5
  <2> QED BY <2>1, <2>2, <2>3
<1>7. ASSUME NEW d \in Connections
      PROVE  link'[d] = Without(c)[d] \/ (d = back /\ link'[d] = Append(Without(c)[d], x))
  BY <1>1, <1>3, <1>6
<1>8. Passing
  <2>1. \A k \in Nodes : Stays(k)
    BY <1>4, Untouched
  <2>2. \A d \in Connections : Due(Without(c)[d]) => Due(link'[d])
    <3> SUFFICES ASSUME NEW d \in Connections, Due(Without(c)[d]) PROVE Due(link'[d])
      OBVIOUS
    <3>1. Without(c)[d] \in Seq(Messages)
      BY <1>3
    <3>2. Due(Append(Without(c)[d], x))
      BY <1>6, <3>1, DueMessages
    <3> QED BY <1>7, <3>2
  <2>3. \A d \in Connections :
          Due(link[d]) => Due(link'[d]) \/ activeState'[d[2]] = "none" \/ lastTimeSeen'[d[2]] \in 0..MinDseep
    BY <1>3, <1>4, <1>5, <2>2, NearLimits
  <2> QED BY <1>4, <2>1, <2>3 DEF Passing
<1>9. ASSUME NEW d \in Connections PROVE link'[d] \in Seq(Steady(d)')
  <2>1. Without(c)[d] \in Seq(Steady(d)')
    BY <1>3, <1>8, SteadyGrows
  <2>2. d = back => x \in Steady(d)'
    BY <1>1, <1>6, <1>8, SteadyGrows
  <2>3. CASE link'[d] = Without(c)[d]
    BY <2>1, <2>3
  <2>4. CASE d = back /\ link'[d] = Append(Without(c)[d], x)
    BY <2>1, <2>2, <2>4, AppendTyped
  <2> QED BY <1>7, <2>3, <2>4
<1> QED BY <1>8, <1>9

-----------------------------------------------------------------------------
(* States *)

LEMMA OneState ==
  ASSUME IndInv, EntryStates, spent => spent', NEW n \in Nodes, NEW state,
         activeState' = [activeState EXCEPT ![n] = state],
         state # "REMOVE", state = "VIN_SPENT" => spent'
  PROVE  EntryStates'
<1>1. activeState'[n] = state /\ \A k \in Nodes \ {n} : activeState'[k] = activeState[k]
  BY DEF IndInv, Types
<1> QED BY <1>1 DEF EntryStates

LEMMA StatesKept ==
  ASSUME EntryStates, spent => spent', activeState' = activeState
  PROVE  EntryStates'
  BY DEF EntryStates

\* No entry waits to be removed, or is marked as spent before the coin is.
LEMMA EntryStatesStep ==
  ASSUME IndInv, EntryStates, [Next]_vars
  PROVE  EntryStates'
<1>0. Owner \in Nodes
  BY AlphanodeAssumption
<1>1. ASSUME NEW n \in Nodes, NEW seen \in Seen, NEW state \in Checked(activeState[n], seen)
      PROVE  (state = "VIN_SPENT" => spent) /\ (seen = 0 => state # "REMOVE")
  <2>1. activeState[n] \in States \ {"REMOVE"}
    BY DEF IndInv, Types, EntryStates
  <2>2. activeState[n] = "VIN_SPENT" => spent
    BY DEF EntryStates
  <2> QED BY <1>1, <2>1, <2>2, ListedStates
<1>2. 0 \in Seen
  BY AlphanodeAssumption DEF Seen
<1>3. ASSUME NEW c \in Connections, Handle(c) PROVE EntryStates'
  <2>1. spent' = spent /\ c[2] \in Nodes
    BY <1>3, ConnectionProperties DEF Handle, UpdateEntry, AcceptEntry, DropEntry, TakePing, AskForEntry, AnswerDseg, owner
  <2>2. \/ activeState' = activeState
        \/ activeState' = [activeState EXCEPT ![c[2]] = "ENABLED"]
        \/ \E state \in Checked(activeState[c[2]], 0) : activeState' = [activeState EXCEPT ![c[2]] = state]
    <3>1. CASE UpdateEntry(c)
      BY <3>1 DEF UpdateEntry, entry
    <3>2. CASE AcceptEntry(c)
      BY <3>2 DEF AcceptEntry, entry
    <3>3. CASE TakePing(c)
      BY <3>3 DEF TakePing, entry
    <3>4. CASE DropEntry(c) \/ AskForEntry(c) \/ AnswerDseg(c)
      BY <3>4 DEF DropEntry, AskForEntry, AnswerDseg, entry
    <3> QED BY <1>3, <3>1, <3>2, <3>3, <3>4 DEF Handle
  <2>3. CASE activeState' = activeState
    BY <2>1, <2>3, StatesKept
  <2>4. CASE activeState' = [activeState EXCEPT ![c[2]] = "ENABLED"]
    <3>1. \A k \in Nodes : activeState'[k] \in {"ENABLED", activeState[k]}
      BY <2>4 DEF IndInv, Types
    <3> QED BY <2>1, <3>1 DEF EntryStates
  <2>5. ASSUME NEW state \in Checked(activeState[c[2]], 0), activeState' = [activeState EXCEPT ![c[2]] = state]
        PROVE  EntryStates'
    <3>1. state # "REMOVE" /\ (state = "VIN_SPENT" => spent)
      BY <1>1, <1>2, <2>1, <2>5
    <3> QED BY <2>1, <2>5, <3>1, OneState
  <2> QED BY <2>2, <2>3, <2>4, <2>5
<1>4. ASSUME NEW n \in Nodes, CheckAndRemove(n) PROVE EntryStates'
  <2>1. spent' = spent
    BY <1>4 DEF CheckAndRemove, owner
  <2>2. PICK state \in Checked(activeState[n], lastTimeSeen[n]) :
           IF state \in {"REMOVE", "VIN_SPENT"} THEN Erase(n)
           ELSE activeState' = [activeState EXCEPT ![n] = state]
    BY <1>4 DEF CheckAndRemove
  <2>3. CASE state \in {"REMOVE", "VIN_SPENT"}
    <3>1. activeState' = [activeState EXCEPT ![n] = "none"]
      BY <2>2, <2>3 DEF Erase
    <3> QED BY <2>1, <3>1, OneState
  <2>4. CASE state \notin {"REMOVE", "VIN_SPENT"}
    BY <2>1, <2>2, <2>4, OneState
  <2> QED BY <2>3, <2>4
<1>5. ASSUME ManageStatus \/ NotReady \/ Start \/ StopAlphaNode \/ Shutdown \/ Restart \/ SpendCollateral \/ Tick
      PROVE  EntryStates'
  <2>1. spent => spent'
    BY <1>5 DEF ManageStatus, NotReady, Start, StopAlphaNode, Shutdown, Restart, SpendCollateral, Tick
  <2>2. \/ activeState' = activeState
        \/ activeState' = [activeState EXCEPT ![Owner] = "ENABLED"]
        \/ activeState' = [activeState EXCEPT ![Owner] = "none"]
    <3>1. Activate => \/ activeState' = activeState
                      \/ activeState' = [activeState EXCEPT ![Owner] = "ENABLED"]
      BY DEF Activate, Register, entry
    <3>2. Ping => activeState' = activeState
      BY DEF Ping, entry
    <3>3. CASE ManageStatus \/ Start
      BY <3>1, <3>2, <3>3 DEF ManageStatus, Start, entry
    <3>4. CASE NotReady \/ Shutdown \/ SpendCollateral \/ Tick
      BY <3>4 DEF NotReady, Shutdown, SpendCollateral, Tick, entry
    <3>5. CASE StopAlphaNode \/ Restart
      BY <3>5 DEF StopAlphaNode, Restart, RemoveOwn, Erase, entry
    <3> QED BY <1>5, <3>3, <3>4, <3>5
  <2>3. CASE activeState' = activeState
    BY <2>1, <2>3, StatesKept
  <2>4. CASE activeState' = [activeState EXCEPT ![Owner] = "ENABLED"]
    BY <1>0, <2>1, <2>4, OneState
  <2>5. CASE activeState' = [activeState EXCEPT ![Owner] = "none"]
    BY <1>0, <2>1, <2>5, OneState
  <2> QED BY <2>2, <2>3, <2>4, <2>5
<1>6. CASE UNCHANGED vars
  BY <1>6, StatesKept DEF vars, entry, owner
<1> QED BY <1>3, <1>4, <1>5, <1>6 DEF Next

-----------------------------------------------------------------------------
(* A step of a steady tick keeps everything steady *)

\* The parts of the invariant follow from what a step leaves.
LEMMA StillSteady ==
  ASSUME Near, IndInv, AllSteady, steady >= 1, Passing,
         \A d \in Connections : link'[d] \in Seq(Steady(d)'),
         up' /\ ~hung', quiet' \in {quiet, 0},
         quiet' = 1 => link' = link,
         quiet = 1 /\ quiet' = 0 => Now(Owner)' /\ \A p \in Peers[Owner] : Due(link'[<<Owner, p>>]),
         quiet' = 1 /\ status' \notin RunningStati => ~Listed(Owner)',
         steady >= 2 => status' \in RunningStati
  PROVE  AllSteady'
<1>1. /\ \A n \in Nodes : lastDseep'[n] => Fresh(n, MinDseep)'
      /\ OthersSteady'
      /\ \A p \in Peers[Owner] : steady >= 2 => Kept(p, MinDseep + 1)'
      /\ \A p \in Peers[Owner] : quiet = 0 =>
            Due(link'[<<Owner, p>>]) \/ ~Listed(p)' \/ Fresh(p, MinDseep)'
      /\ steady >= 2 => Kept(Owner, 1)'
      /\ quiet = 0 => Now(Owner)'
  BY PassingKeeps
<1>2. quiet \in {0, 1} /\ (quiet = 1 => \A c \in Connections : link[c] = <<>>) /\ steady' = steady
  BY DEF AllSteady, LinksSteady, Passing
<1>3. LinksSteady'
  <2>1. quiet' \in {0, 1}
    BY <1>2
  <2>2. quiet' = 1 => \A c \in Connections : link'[c] = <<>>
    BY <1>2
  <2> QED BY <1>1, <2>1, <2>2 DEF LinksSteady
<1>4. OwnerSteady'
  BY <1>1, <1>2 DEF OwnerSteady
<1>5. PeersSteady'
  BY <1>1, <1>2 DEF PeersSteady
<1> QED BY <1>1, <1>3, <1>4, <1>5 DEF AllSteady

\* Handling any message keeps everything steady.
LEMMA HandleSteady ==
  ASSUME Near, IndInv, EntryStates, AllSteady, steady >= 1, ~spent, NEW c \in Connections, Handle(c)
  PROVE  AllSteady'
<1>1. Passing /\ \A d \in Connections : link'[d] \in Seq(Steady(d)')
  BY SteadyUpdateEntry, SteadyAcceptEntry, SteadyTakePing, SteadyOtherMessage DEF Handle
<1>2. \E type : Received(c, type)
  BY DEF Handle, UpdateEntry, AcceptEntry, DropEntry, TakePing, AskForEntry, AnswerDseg
<1>3. quiet = 0
  BY <1>2, SteadyTaken
<1>4. quiet' = quiet /\ up' = up /\ hung' = hung /\ status' \in {status, "REMOTELY_ENABLED"}
  BY DEF Handle, UpdateEntry, AcceptEntry, DropEntry, TakePing, AskForEntry, AnswerDseg, owner, history
<1>5. up /\ ~hung /\ (steady >= 2 => status \in RunningStati)
  BY DEF AllSteady, OwnerSteady
<1> QED BY <1>1, <1>3, <1>4, <1>5, StillSteady DEF RunningStati

\* The check of a list drops no entry of a steady tick before its time.
LEMMA CheckSteady ==
  ASSUME Near, IndInv, EntryStates, AllSteady, steady >= 1, ~spent, NEW n \in Nodes, CheckAndRemove(n)
  PROVE  AllSteady'
<1>1. /\ Listed(n) /\ UNCHANGED <<askAgain, owner, link, history>>
  BY DEF CheckAndRemove
<1>2. PICK state \in Checked(activeState[n], lastTimeSeen[n]) :
         IF state \in {"REMOVE", "VIN_SPENT"} THEN Erase(n)
         ELSE /\ activeState' = [activeState EXCEPT ![n] = state]
              /\ UNCHANGED <<lastTimeSeen, sigTime, lastDseep>>
  BY DEF CheckAndRemove
<1>3. /\ activeState[n] \in States \ {"REMOVE"} /\ activeState[n] # "VIN_SPENT" /\ lastTimeSeen[n] \in Seen
  BY DEF EntryStates, IndInv, Types
<1>4. state # "VIN_SPENT"
  BY <1>2, <1>3, ListedStates
<1>5. \A k \in Nodes \ {n} : Stays(k) /\ lastDseep'[k] = lastDseep[k] /\ lastTimeSeen'[k] = lastTimeSeen[k]
  <2>1. \A k \in Nodes \ {n} : /\ activeState'[k] = activeState[k] /\ lastTimeSeen'[k] = lastTimeSeen[k]
                               /\ lastDseep'[k] = lastDseep[k]
    BY <1>2 DEF Erase, IndInv, Types
  <2> QED BY <2>1, Untouched
<1>6. \/ Dropped(n) /\ ~lastDseep'[n]
      \/ Stays(n) /\ lastDseep'[n] = lastDseep[n] /\ lastTimeSeen'[n] = lastTimeSeen[n]
  <2>1. CASE state = "REMOVE"
    <3>1. activeState'[n] = "none" /\ ~lastDseep'[n]
      BY <1>2, <2>1 DEF Erase, IndInv, Types
    <3>2. lastTimeSeen[n] \notin 0..(Removal - 1)
      BY <1>2, <1>3, <2>1, ListedStates
    <3> QED BY <1>1, <3>1, <3>2 DEF Dropped, Fresh
  <2>2. CASE state # "REMOVE"
    <3>1. activeState'[n] = state /\ lastTimeSeen'[n] = lastTimeSeen[n] /\ lastDseep'[n] = lastDseep[n]
      BY <1>2, <1>4, <2>2 DEF IndInv, Types
    <3>2. state # "none"
      BY <1>1, <1>2 DEF Checked, Verdict, Listed
    <3>3. Kept(n, Expiration - 1) => state = "ENABLED"
      BY <1>2, <1>3, ListedStates DEF Kept, Fresh
    <3> QED BY <1>1, <3>1, <3>2, <3>3 DEF Stays, Listed
  <2> QED BY <2>1, <2>2
<1>7. steady' = steady /\ spent' = spent /\ link' = link
      /\ quiet' = quiet /\ up' = up /\ hung' = hung /\ status' = status
  BY <1>1 DEF owner, history
<1>8. Passing
  BY <1>5, <1>6, <1>7 DEF Passing
<1>9. \A d \in Connections : link'[d] \in Seq(Steady(d)')
  BY <1>7, <1>8, SteadyGrows DEF AllSteady, LinksSteady
<1>10. ~Listed(Owner) => ~Listed(Owner)'
  BY <1>5, <1>6, AlphanodeAssumption DEF Stays, Dropped, Listed
<1> QED BY <1>7, <1>8, <1>9, <1>10, StillSteady DEF AllSteady, OwnerSteady, LinksSteady

\* What the owner tells its peers is on its way to each of them.
LEMMA OwnerTells ==
  ASSUME IndInv, NEW m \in Messages, Telling(m), link' = Relayed(link, Owner, m)
  PROVE  \A p \in Peers[Owner] : Due(link'[<<Owner, p>>])
<1> SUFFICES ASSUME NEW p \in Peers[Owner] PROVE Due(link'[<<Owner, p>>])
  OBVIOUS
<1> DEFINE d == <<Owner, p>>
<1>1. d \in Connections /\ d[1] = Owner /\ d[2] = p /\ Alive(p)
  BY Neighbours DEF Alive
<1>2. link \in [Connections -> Seq(Messages)]
  BY LinksTyped
<1>3. Relayed(link, Owner, m)[d] = IF d[1] = Owner /\ Alive(d[2]) THEN Append(link[d], m) ELSE link[d]
  BY <1>1, <1>2, RelayedOne
<1>4. link'[d] = Append(link[d], m) /\ link[d] \in Seq(Messages)
  BY <1>1, <1>2, <1>3
<1> QED BY <1>4, DueMessages

\* The owner's ping is due at each of its peers; an owner whose entry is gone
\* had none in this tick.
LEMMA PingSteady ==
  ASSUME Near, IndInv, EntryStates, AllSteady, steady >= 1, ~spent,
         Ping, status \in RunningStati, UNCHANGED <<up, hung, steady, spent>>
  PROVE  AllSteady'
<1>1. up' /\ ~hung' /\ steady' = steady /\ spent' = spent /\ Owner \in Nodes /\ quiet \in {0, 1}
  BY AlphanodeAssumption DEF AllSteady, OwnerSteady, LinksSteady
<1>2. CASE ~Listed(Owner)
  <2>1. status' = "NOT_CAPABLE" /\ UNCHANGED <<entry, link, quiet>>
    BY <1>2 DEF Ping
  <2>2. steady < 2 /\ quiet = 1
    BY <1>1, <1>2 DEF AllSteady, OwnerSteady, Kept, Listed, Now, IndInv, Types
  <2>3. \A k \in Nodes : Stays(k)
    BY <2>1, Untouched DEF entry
  <2>4. Passing
    BY <1>1, <2>1, <2>2, <2>3 DEF Passing, entry, IndInv, Types
  <2>5. \A d \in Connections : link'[d] \in Seq(Steady(d)')
    BY <2>1, <2>4, SteadyGrows DEF AllSteady, LinksSteady
  <2>6. ~Listed(Owner)'
    BY <1>2, <2>1 DEF Listed, entry
  <2>7. steady >= 2 => status' \in RunningStati
    BY <2>2 DEF IndInv, Types
  <2> QED BY <1>1, <2>1, <2>4, <2>5, <2>6, <2>7, StillSteady
<1>3. CASE Listed(Owner)
  <2> DEFINE m == Dseep(FALSE)
  <2>1. /\ lastTimeSeen' = [lastTimeSeen EXCEPT ![Owner] = 0] /\ link' = Relayed(link, Owner, m)
        /\ quiet' = 0 /\ UNCHANGED <<activeState, lastDseep, status>>
    BY <1>3 DEF Ping
  <2>2. lastTimeSeen'[Owner] = 0 /\ \A k \in Nodes \ {Owner} : lastTimeSeen'[k] = lastTimeSeen[k]
    BY <1>1, <2>1 DEF IndInv, Types
  <2>3. Renewed(Owner) /\ Now(Owner)' /\ \A k \in Nodes \ {Owner} : Stays(k)
    BY <1>3, <2>1, <2>2, Untouched DEF Renewed, Now, Listed
  <2>4. m \in Messages /\ m.type = "dseep" /\ ~m.stop /\ Telling(m)
    BY MessageTypes DEF Dseep, Telling
  <2>5. link \in [Connections -> Seq(Messages)]
    BY LinksTyped
  <2>6. Passing
    <3>1. \A d \in Connections : Due(link[d]) => Due(link'[d])
      BY <2>1, <2>4, <2>5, RelayedOne
    <3> QED BY <1>1, <2>1, <2>2, <2>3, <3>1 DEF Passing
  <2>7. ASSUME NEW d \in Connections PROVE link'[d] \in Seq(Steady(d)')
    <3>1. link[d] \in Seq(Steady(d)')
      BY <2>6, SteadyGrows DEF AllSteady, LinksSteady
    <3>2. d[1] = Owner => m \in Steady(d)'
      BY <2>3, <2>4 DEF Steady
    <3> QED BY <2>1, <2>4, <2>5, <3>1, <3>2, RelayedOne
  <2>8. \A p \in Peers[Owner] : Due(link'[<<Owner, p>>])
    BY <2>1, <2>4, OwnerTells
  <2>9. /\ quiet' \in {quiet, 0} /\ (quiet' = 1 => link' = link)
        /\ (quiet' = 1 /\ status' \notin RunningStati => ~Listed(Owner)')
        /\ (steady >= 2 => status' \in RunningStati)
    BY <2>1
  <2> QED BY <1>1, <2>3, <2>6, <2>7, <2>8, <2>9, StillSteady
<1> QED BY <1>2, <1>3

\* An owner that is not running registers anew, or stays quiet.
LEMMA ActivateSteady ==
  ASSUME Near, IndInv, EntryStates, AllSteady, steady >= 1, ~spent,
         Activate, status \notin RunningStati, UNCHANGED <<up, hung, steady, spent>>
  PROVE  AllSteady'
<1>1. up' /\ ~hung' /\ steady' = steady /\ spent' = spent /\ Owner \in Nodes /\ quiet \in {0, 1} /\ steady < 2
  BY AlphanodeAssumption DEF AllSteady, OwnerSteady, LinksSteady, IndInv, Types
<1>2. CASE ~CollateralFound
  <2>1. status' = "NOT_CAPABLE" /\ UNCHANGED <<entry, link, quiet>>
    BY <1>2 DEF Activate
  <2>2. \A k \in Nodes : Stays(k)
    BY <2>1, Untouched DEF entry
  <2>3. Passing
    BY <1>1, <2>1, <2>2 DEF Passing, entry, IndInv, Types
  <2>4. \A d \in Connections : link'[d] \in Seq(Steady(d)')
    BY <2>1, <2>3, SteadyGrows DEF AllSteady, LinksSteady
  <2>5. quiet' = 1 => ~Listed(Owner)'
    BY <2>1 DEF AllSteady, OwnerSteady, Listed, entry
  <2>6. ~(steady >= 2)
    BY <1>1 DEF IndInv, Types
  <2> QED BY <1>1, <2>1, <2>3, <2>4, <2>5, <2>6, StillSteady
<1>3. CASE CollateralFound
  <2> DEFINE m == Dsee(TRUE, 0, registered')
  <2>1. Register /\ status' = "IS_CAPABLE"
    BY <1>3 DEF Activate
  <2>2. quiet' = 0 /\ registered' \in Nat /\ link' = Relayed(link, Owner, m)
    BY <2>1 DEF Register, IndInv, Types
  <2>3. \A k \in Nodes \ {Owner} : /\ activeState'[k] = activeState[k] /\ lastTimeSeen'[k] = lastTimeSeen[k]
                                   /\ lastDseep'[k] = lastDseep[k]
    BY <2>1 DEF Register, IndInv, Types, entry
  <2>4. Renewed(Owner) /\ Now(Owner)'
    <3>1. CASE Listed(Owner)
      <4>1. Now(Owner)
        BY <1>1, <3>1 DEF AllSteady, OwnerSteady
      <4>2. UNCHANGED entry
        BY <2>1, <3>1 DEF Register
      <4> QED BY <4>1, <4>2 DEF Renewed, Now, Listed, entry
    <3>2. CASE ~Listed(Owner)
      BY <1>1, <2>1, <3>2 DEF Register, Renewed, Now, Listed, IndInv, Types
    <3> QED BY <3>1, <3>2
  <2>5. m \in Messages /\ m.type = "dsee" /\ m.new /\ m.seen = 0 /\ Telling(m)
    <3>1. 0 \in Seen
      BY AlphanodeAssumption DEF Seen
    <3>2. m \in Messages
      BY <2>2, <3>1, MessageTypes
    <3> QED BY <3>2 DEF Dsee, Telling
  <2>6. link \in [Connections -> Seq(Messages)]
    BY LinksTyped
  <2>7. Passing
    <3>1. \A d \in Connections : Due(link[d]) => Due(link'[d])
      BY <2>2, <2>5, <2>6, RelayedOne
    <3>2. \A k \in Nodes \ {Owner} : Stays(k)
      BY <2>3, Untouched
    <3>3. ~(steady >= 2)
      BY <1>1 DEF IndInv, Types
    <3>4. \A k \in Nodes : lastDseep'[k] => lastDseep[k] \/ lastTimeSeen'[k] \in 0..MinDseep
      BY <2>3, <2>4, NearLimits DEF Now
    <3> QED BY <1>1, <2>4, <3>1, <3>2, <3>3, <3>4 DEF Passing
  <2>8. ASSUME NEW d \in Connections PROVE link'[d] \in Seq(Steady(d)')
    <3>1. link[d] \in Seq(Steady(d)')
      BY <2>7, SteadyGrows DEF AllSteady, LinksSteady
    <3>2. ~(steady' >= 2)
      BY <1>1 DEF IndInv, Types
    <3>3. m \in Steady(d)'
      BY <2>5, <3>2 DEF Steady
    <3> QED BY <2>2, <2>5, <2>6, <3>1, <3>3, RelayedOne
  <2>9. \A p \in Peers[Owner] : Due(link'[<<Owner, p>>])
    BY <2>2, <2>5, OwnerTells
  <2>10. /\ quiet' \in {quiet, 0} /\ (quiet' = 1 => link' = link)
         /\ (quiet' = 1 /\ status' \notin RunningStati => ~Listed(Owner)')
         /\ (steady >= 2 => status' \in RunningStati)
    BY <2>1, <2>2 DEF RunningStati
  <2> QED BY <1>1, <2>4, <2>7, <2>8, <2>9, <2>10, StillSteady
<1> QED BY <1>2, <1>3

\* The owner's thread and its user: pinging, starting, being started.
LEMMA OwnerSteadyStep ==
  ASSUME Near, IndInv, EntryStates, AllSteady, steady >= 1, ~spent, ManageStatus \/ Start
  PROVE  AllSteady'
<1>1. UNCHANGED <<up, hung, steady, spent>>
  BY DEF ManageStatus, Start
<1>2. CASE Start
  <2>1. Activate /\ status \notin RunningStati
    BY <1>2 DEF Start, Running, RunningStati
  <2> QED BY <1>1, <2>1, ActivateSteady
<1>3. CASE ManageStatus
  <2>1. CASE status \in {"NOT_PROCESSED", "NOT_CAPABLE", "SYNC_IN_PROCESS"} /\ Activate
    BY <1>1, <2>1, ActivateSteady DEF RunningStati
  <2>2. CASE status \in {"IS_CAPABLE", "REMOTELY_ENABLED"} /\ Ping
    BY <1>1, <2>2, PingSteady DEF RunningStati
  <2>3. CASE status = "STOPPED" /\ UNCHANGED <<entry, link, status, vin, lockedCoin, registered, quiet>>
    <3>1. \A k \in Nodes : Stays(k)
      BY <2>3, Untouched DEF entry
    <3>2. Passing
      BY <1>1, <2>3, <3>1 DEF Passing, entry, IndInv, Types
    <3>3. \A d \in Connections : link'[d] \in Seq(Steady(d)')
      BY <2>3, <3>2, SteadyGrows DEF AllSteady, LinksSteady
    <3>4. quiet' = quiet /\ status' = status /\ link' = link /\ (Listed(Owner)' = Listed(Owner)) /\ up' = up /\ hung' = hung
      BY <1>1, <2>3 DEF Listed, entry
    <3> QED BY <3>2, <3>3, <3>4, StillSteady DEF AllSteady, OwnerSteady, LinksSteady
  <2> QED BY <1>3, <2>1, <2>2, <2>3 DEF ManageStatus
<1> QED BY <1>2, <1>3

\* A minute passes.
LEMMA TickSteady ==
  ASSUME Near, IndInv, Tick, ~spent, steady >= 1 => AllSteady, steady' >= 1
  PROVE  AllSteady'
<1>1. /\ \A c \in Connections : link[c] = <<>>
      /\ quiet = 0 /\ Running /\ EnabledEverywhere
      /\ steady' = IF steady < Expiration THEN steady + 1 ELSE steady
  <2>1. steady' = IF quiet > 0 \/ ~Running \/ ~EnabledEverywhere THEN 0
                  ELSE IF steady < Expiration THEN steady + 1 ELSE steady
    BY DEF Tick
  <2>2. ~(quiet > 0 \/ ~Running \/ ~EnabledEverywhere)
    BY <2>1
  <2> QED BY <2>1, <2>2 DEF Tick, IndInv, Types
<1>2. steady \in 0..Expiration /\ Expiration \in Nat \ {0} /\ Removal \in Nat /\ Expiration < Removal /\ MinDseep \in Nat
  BY AlphanodeAssumption DEF IndInv, Types
<1>3. /\ activeState' = activeState /\ link' = link /\ up' = up /\ hung' = hung /\ status' = status
      /\ \A n \in Nodes : lastTimeSeen'[n] = Older(lastTimeSeen[n]) /\ ~lastDseep'[n]
      /\ quiet' = 1
  BY <1>1, AlphanodeAssumption DEF Tick, Older, Zero
<1>4. \A n \in Nodes : \A age \in 0..(Removal - 1) :
         Fresh(n, age) => lastTimeSeen'[n] = lastTimeSeen[n] + 1 /\ Fresh(n, age + 1)'
  BY <1>2, <1>3 DEF Older, Fresh, Zero
<1>5. \A n \in Nodes : activeState'[n] = "ENABLED" /\ Listed(n)
  BY <1>1, <1>3 DEF EnabledEverywhere, Listed
<1>6. LinksSteady'
  <2>1. \A c \in Connections : link'[c] = <<>> /\ link'[c] \in Seq(Steady(c)')
    <3>1. \A S : <<>> \in Seq(S)
      OBVIOUS
    <3> QED BY <1>1, <1>3, <3>1
  <2> QED BY <1>3, <2>1 DEF LinksSteady
<1>7. CASE steady = 0
  <2>1. ~(steady' >= 2) /\ ~(steady' >= MinDseep + 3)
    BY <1>1, <1>2, <1>7
  <2>2. OwnerSteady'
    BY <1>1, <1>3, <2>1 DEF OwnerSteady, Running, RunningStati
  <2>3. PeersSteady' /\ OthersSteady'
    BY <1>3, <2>1 DEF PeersSteady, OthersSteady
  <2> QED BY <1>6, <2>2, <2>3 DEF AllSteady
<1>8. CASE steady >= 1
  <2>1. LinksSteady /\ OwnerSteady /\ PeersSteady /\ OthersSteady
    BY <1>8 DEF AllSteady
  <2>2. \A c \in Connections : ~Due(link[c])
    BY <1>1 DEF Due
  <2>3. Kept(Owner, 1)'
    <3>1. Fresh(Owner, 0) /\ 0 \in 0..(Removal - 1) /\ 0 + 1 = 1
      BY <1>1, <1>2, <2>1 DEF OwnerSteady, Now, Fresh
    <3> QED BY <1>4, <1>5, <3>1, Neighbours DEF Kept
  <2>4. \A p \in Peers[Owner] : Fresh(p, MinDseep) /\ Kept(p, MinDseep + 1)'
    <3> SUFFICES ASSUME NEW p \in Peers[Owner] PROVE Fresh(p, MinDseep) /\ Kept(p, MinDseep + 1)'
      OBVIOUS
    <3>1. p \in Nodes /\ <<Owner, p>> \in Connections
      BY Neighbours
    <3>2. Fresh(p, MinDseep)
      BY <1>1, <1>5, <2>1, <2>2, <3>1 DEF PeersSteady
    <3>3. MinDseep \in 0..(Removal - 1)
      BY NearLimits
    <3> QED BY <1>4, <1>5, <3>1, <3>2, <3>3 DEF Kept
  <2>5. OwnerSteady'
    BY <1>1, <1>3, <2>3 DEF OwnerSteady, Running, RunningStati
  <2>6. PeersSteady'
    BY <1>3, <2>4 DEF PeersSteady
  <2>7. ASSUME NEW p \in Peers[Owner], NEW n \in Peers[p] \ {Owner}, steady >= 2
        PROVE  lastTimeSeen[p] >= steady - 1 \/ Fresh(n, lastTimeSeen[p] + MinDseep)
    <3>1. n \in Nodes /\ <<p, n>> \in Connections
      BY Neighbours
    <3> QED BY <1>5, <2>1, <2>2, <2>7, <3>1 DEF OthersSteady
  <2>8. ASSUME NEW p \in Peers[Owner], NEW n \in Peers[p] \ {Owner}
        PROVE  \/ lastTimeSeen'[p] >= steady' - 1
               \/ lastTimeSeen'[n] \in 0..(lastTimeSeen'[p] + MinDseep)
    <3>1. p \in Nodes /\ n \in Nodes /\ Fresh(p, MinDseep)
      BY <2>4, Neighbours
    <3>2. lastTimeSeen[p] \in 0..MinDseep /\ lastTimeSeen'[p] = lastTimeSeen[p] + 1
      BY <1>4, <3>1, NearLimits DEF Fresh
    <3>3. CASE steady < 2
      <4>1. lastTimeSeen'[p] >= 1 /\ steady' - 1 <= 1
        BY <1>1, <1>2, <3>2, <3>3
      <4> QED BY <1>1, <1>2, <3>2, <4>1
    <3>4. CASE steady >= 2 /\ lastTimeSeen[p] >= steady - 1
      BY <1>1, <1>2, <3>2, <3>4
    <3>5. CASE steady >= 2 /\ Fresh(n, lastTimeSeen[p] + MinDseep)
      <4>1. lastTimeSeen[p] + MinDseep \in 0..(Removal - 1)
        BY <3>2, NearLimits DEF Near
      <4>2. lastTimeSeen'[n] \in 0..(lastTimeSeen[p] + MinDseep + 1)
        BY <1>4, <3>1, <3>5, <4>1 DEF Fresh
      <4> QED BY <1>2, <3>2, <4>2
    <3> QED BY <1>2, <2>7, <3>3, <3>4, <3>5
  <2>9. ASSUME steady' >= MinDseep + 3, NEW n \in Nodes PROVE Kept(n, 2 * MinDseep + 1)'
    <3>1. steady >= MinDseep + 2 /\ steady >= 2
      BY <1>1, <1>2, <2>9
    <3>2. CASE n = Owner
      BY <1>2, <2>3, <3>2, NearLimits DEF Kept, Fresh
    <3>3. CASE n \in Peers[Owner]
      BY <1>2, <2>4, <3>3, NearLimits DEF Kept, Fresh
    <3>4. CASE n # Owner /\ n \notin Peers[Owner]
      <4>1. PICK p \in Peers[Owner] : n \in Peers[p]
        BY <3>4 DEF Near
      <4>2. lastTimeSeen[p] \in 0..MinDseep
        BY <2>4 DEF Fresh
      <4>3. Fresh(n, lastTimeSeen[p] + MinDseep)
        BY <1>2, <2>7, <3>1, <3>4, <4>1, <4>2
      <4>4. Fresh(n, 2 * MinDseep)
        BY <1>2, <4>2, <4>3 DEF Fresh
      <4>5. 2 * MinDseep \in 0..(Removal - 1)
        BY <1>2 DEF Near
      <4> QED BY <1>4, <1>5, <4>4, <4>5 DEF Kept
    <3> QED BY <3>2, <3>3, <3>4
  <2>10. OthersSteady'
    BY <2>8, <2>9 DEF OthersSteady, Fresh
  <2> QED BY <1>6, <2>5, <2>6, <2>10 DEF AllSteady
<1> QED BY <1>2, <1>7, <1>8

LEMMA LiveInvariance ==
  ASSUME Near, IndInv, LiveInv, [Next]_vars
  PROVE  LiveInv'
<1>1. EntryStates /\ EntryStates'
  BY EntryStatesStep DEF LiveInv
<1> SUFFICES ASSUME steady' >= 1, ~spent' PROVE AllSteady'
  BY <1>1 DEF LiveInv
<1>2. ~(steady' = 0) /\ ~(spent' = TRUE)
  OBVIOUS
<1>3. ~spent
  BY <1>2 DEF Next, Handle, UpdateEntry, AcceptEntry, DropEntry, TakePing, AskForEntry, AnswerDseg,
              CheckAndRemove, ManageStatus, NotReady, Start, StopAlphaNode, Shutdown, Restart,
              SpendCollateral, Tick, vars, owner
<1>4. CASE Tick
  BY <1>3, <1>4, TickSteady DEF LiveInv
<1>5. CASE NotReady \/ StopAlphaNode \/ Shutdown
  BY <1>2, <1>5 DEF NotReady, StopAlphaNode, Shutdown
<1>6. CASE SpendCollateral
  BY <1>2, <1>6 DEF SpendCollateral
<1>7. ASSUME steady' = steady PROVE steady >= 1 /\ AllSteady
  BY <1>3, <1>7 DEF LiveInv
<1>8. ASSUME NEW c \in Connections, Handle(c) PROVE AllSteady'
  <2>1. steady' = steady
    BY <1>8 DEF Handle, UpdateEntry, AcceptEntry, DropEntry, TakePing, AskForEntry, AnswerDseg, history
  <2> QED BY <1>1, <1>3, <1>7, <1>8, <2>1, HandleSteady
<1>9. ASSUME NEW n \in Nodes, CheckAndRemove(n) PROVE AllSteady'
  <2>1. steady' = steady
    BY <1>9 DEF CheckAndRemove, history
  <2> QED BY <1>1, <1>3, <1>7, <1>9, <2>1, CheckSteady
<1>10. CASE ManageStatus \/ Start
  <2>1. steady' = steady
    BY <1>10 DEF ManageStatus, Start
  <2> QED BY <1>1, <1>3, <1>7, <1>10, <2>1, OwnerSteadyStep
<1>11. CASE Restart
  <2>1. steady' = steady /\ ~up
    BY <1>11 DEF Restart, history
  <2> QED BY <1>7, <2>1 DEF AllSteady, OwnerSteady
<1>12. CASE UNCHANGED vars
  <2>1. AllSteady
    BY <1>7, <1>12 DEF vars, history
  <2> QED BY <1>12, <2>1 DEF AllSteady, LinksSteady, OwnerSteady, PeersSteady, OthersSteady, Steady,
                            Due, Fresh, Kept, Now, Listed, vars, entry, owner, history
<1> QED BY <1>4, <1>5, <1>6, <1>8, <1>9, <1>10, <1>11, <1>12 DEF Next

\* In every network whose nodes are the owner's peers or peers of those, an
\* alphanode that has pinged for as many minutes as it takes to expire is enabled
\* in every list, although every hop holds back the pings it finds too early.
THEOREM LiveNeverExpiresCorrect == Near => (Spec => []LiveNeverExpires)
<1> SUFFICES ASSUME Near PROVE Spec => []LiveNeverExpires
  OBVIOUS
<1>1. Init => LiveInv
  BY DEF Init, LiveInv, EntryStates
<1>2. IndInv /\ LiveInv /\ [Next]_vars => LiveInv'
  BY LiveInvariance
<1>3. IndInv /\ LiveInv => LiveNeverExpires
  <2> SUFFICES ASSUME IndInv, LiveInv, steady = Expiration, ~spent, NEW n \in Nodes
               PROVE  activeState[n] = "ENABLED"
    BY DEF LiveNeverExpires, EnabledEverywhere
  <2>1. steady >= 1 /\ steady >= MinDseep + 3
    BY NearLimits
  <2> QED BY <2>1 DEF LiveInv, AllSteady, OthersSteady, Kept
<1> QED BY <1>1, <1>2, <1>3, Inductive, PTL DEF Spec

=============================================================================
