----------------------------- MODULE Alphanodes -----------------------------
(***************************************************************************)
(* The alphanode list (alphanodeman.cpp) of several nodes and the life of  *)
(* one alphanode in it (activealphanode.cpp): registration by "dsee", the  *)
(* pings "dseep" every minute, the questions "dseg" of those who miss the  *)
(* entry, its expiration and removal, stop, start and restart.             *)
(*                                                                         *)
(* A tick is ALPHANODE_PING_SECONDS.  A message arrives in the tick it was *)
(* sent, in the order of its connection; what happens within one tick      *)
(* happens in any order, so an age equal to a limit may be on either side. *)
(* lastDseep is compared with pings of the same tick only: the owner signs *)
(* one in each.  All nodes but the owner have other keys.                  *)
(*                                                                         *)
(* Left out: addresses, scores, votes, donations, changed keys, addresses  *)
(* of private networks, collaterals too young, and the whole-list "dseg",  *)
(* which the code answers and never sends.                                 *)
(***************************************************************************)
EXTENDS Integers, Sequences

CONSTANTS
    Nodes, Owner,
    Peers,       \* vNodes of every node
    MinDsee,     \* ALPHANODE_MIN_DSEE_SECONDS, in ticks like the next three
    MinDseep,    \* ALPHANODE_MIN_DSEEP_SECONDS
    Expiration,  \* ALPHANODE_EXPIRATION_SECONDS
    Removal,     \* ALPHANODE_REMOVAL_SECONDS
    MaxFaults    \* stops, starts, restarts and other events, together

ASSUME AlphanodeAssumption ==
    /\ Owner \in Nodes
    /\ Peers \in [Nodes -> SUBSET Nodes]
    /\ \A n \in Nodes : n \notin Peers[n] /\ \A m \in Peers[n] : n \in Peers[m]
    /\ {MinDsee, MinDseep, Expiration, Removal} \subseteq Nat \ {0}
    /\ MinDsee < MinDseep /\ MinDseep < Expiration /\ Expiration < Removal
    /\ MaxFaults \in Nat

VARIABLES
    \* each node's entry of the alphanode
    activeState,  \* its state, or "none"
    lastTimeSeen, \* ticks since then, or Zero
    sigTime,      \* the registration it holds
    lastDseep,    \* a ping of this tick was taken
    askAgain,     \* ticks until mWeAskedForAlphanodeListEntry lets it ask
    \* the owner
    up,           \* its process runs
    status,       \* CActiveAlphanode::status
    vin,          \* whether CActiveAlphanode::vin names the collateral
    lockedCoin,   \* the wallet holds the collateral back
    spent,        \* the collateral is spent
    managed,      \* ThreadCheckDarkSendPool came by in this tick
    registered,   \* registrations so far
    hung,         \* CAlphanodeMan::Remove does not return
    \* the network
    link,         \* messages in flight on each connection
    \* history
    faults,
    quiet,        \* ticks since the owner signed a ping or a registration
    steady,       \* ticks in a row with a ping and with every node holding it enabled
    revived       \* an entry whose time is zero was sent

entry == <<activeState, lastTimeSeen, sigTime, lastDseep>>
owner == <<up, status, vin, lockedCoin, spent, managed, registered, hung>>
history == <<faults, quiet, steady, revived>>
vars == <<entry, askAgain, owner, link, history>>

Zero == -1                  \* lastTimeSeen == 0
Seen == {Zero} \cup 0..(Removal + 1)
Connections == {c \in Nodes \X Nodes : c[2] \in Peers[c[1]]}

Dsee(new, seen, sig) == [type |-> "dsee", new |-> new, seen |-> seen, sig |-> sig]
PlainPing(stop) == [type |-> "dseep", stop |-> FALSE] \* mutant: the stop flag is not sent
Dseep(stop) == [type |-> "dseep", stop |-> stop]
Dseg == [type |-> "dseg"]

Running == up /\ ~hung /\ status \in {"IS_CAPABLE", "REMOTELY_ENABLED"}
Alive(n) == n # Owner \/ (up /\ ~hung)

Init ==
    /\ activeState = [n \in Nodes |-> "none"]
    /\ lastTimeSeen = [n \in Nodes |-> Zero]
    /\ sigTime = [n \in Nodes |-> 0]
    /\ lastDseep = [n \in Nodes |-> FALSE]
    /\ askAgain = [n \in Nodes |-> 0]
    /\ up = TRUE /\ status = "NOT_PROCESSED" /\ vin = FALSE
    /\ lockedCoin = FALSE /\ spent = FALSE /\ managed = FALSE
    /\ registered = 0 /\ hung = FALSE
    /\ link = [c \in Connections |-> <<>>]
    /\ faults = 0 /\ quiet = 0 /\ steady = 0 /\ revived = FALSE

-----------------------------------------------------------------------------
(* An entry *)

Listed(n) == activeState[n] # "none"

\* An entry that "dsee" updates: an owner that does not know its collateral
\* skips its own.
Updatable(n) == Listed(n) /\ (n = Owner => vin)

\* UpdatedWithin, of an entry last seen that many ticks ago.
UpdatedWithin(seen, ticks) ==
    CASE seen = Zero \/ seen > ticks -> {FALSE}
      [] seen = ticks -> BOOLEAN
      [] OTHER -> {TRUE}

NeverRemoved(kept, fresh) == IF fresh THEN "ENABLED" ELSE "EXPIRED" \* mutant: no removal
Verdict(kept, fresh) ==
    CASE ~kept -> "REMOVE" [] ~fresh -> "EXPIRED" [] spent -> "VIN_SPENT"
      [] OTHER -> "ENABLED"

\* CAlphanode::Check: what it may leave.  It does nothing while another thread
\* holds cs_main.
Checked(state, seen) ==
    {state} \cup
    IF state = "VIN_SPENT" THEN {}
    ELSE {Verdict(kept, fresh) : kept \in UpdatedWithin(seen, Removal),
                                 fresh \in UpdatedWithin(seen, Expiration)}

PingsStay(lnk, n, m) == \* mutant: only the owner sends pings
    [c \in Connections |->
        IF c[1] = n /\ Alive(c[2]) /\ (m.type = "dsee" \/ n = Owner)
        THEN Append(lnk[c], m) ELSE lnk[c]]
\* RelayAlphanodeEntry, RelayAlphanodeEntryPing: to every peer, also the one
\* it came from; lnk is link without the message being handled.
Relayed(lnk, n, m) ==
    [c \in Connections |->
        IF c[1] = n /\ Alive(c[2]) THEN Append(lnk[c], m) ELSE lnk[c]]

Without(c) == [link EXCEPT ![c] = Tail(@)]
Received(c, type) == link[c] # <<>> /\ Head(link[c]).type = type /\ Alive(c[2])

-----------------------------------------------------------------------------
(* Messages *)

\* "dsee" for an entry the node has: only a new registration counts, and one
\* that is not newer is not relayed.
UpdateEntry(c) ==
    LET n == c[2]
        m == Head(link[c])
    IN  /\ Received(c, "dsee") /\ Updatable(n)
        /\ \E recent \in IF m.new THEN UpdatedWithin(lastTimeSeen[n], MinDsee) ELSE {TRUE} :
             IF recent
             THEN /\ link' = Without(c)
                  /\ UNCHANGED entry
             ELSE /\ lastTimeSeen' = [lastTimeSeen EXCEPT ![n] = 0]
                  /\ UNCHANGED lastDseep
                  /\ IF sigTime[n] < m.sig
                     THEN /\ sigTime' = [sigTime EXCEPT ![n] = m.sig]
                          /\ \E state \in Checked(activeState[n], 0) :
                               /\ activeState' = [activeState EXCEPT ![n] = state]
                               /\ link' = IF state = "ENABLED"
                                          THEN Relayed(Without(c), n, m) ELSE Without(c)
                     ELSE /\ link' = Without(c)
                          /\ UNCHANGED <<activeState, sigTime>>
        /\ UNCHANGED <<askAgain, owner, history>>

\* UpdateLastSeen(lastUpdated): a time of zero stands for now.
LastUpdated(seen) == IF seen = Zero THEN 0 ELSE seen

\* "dsee" for an entry the node has not: Add, with the time its sender had.
\* Its owner takes it as having been activated remotely, also if it was there.
AcceptEntry(c) ==
    LET n == c[2]
        m == Head(link[c])
    IN  /\ Received(c, "dsee") /\ ~Updatable(n) /\ ~spent
        /\ IF Listed(n) THEN UNCHANGED <<entry, revived>>
           ELSE /\ activeState' = [activeState EXCEPT ![n] = "ENABLED"]
                /\ lastTimeSeen' = [lastTimeSeen EXCEPT ![n] = LastUpdated(m.seen)]
                /\ sigTime' = [sigTime EXCEPT ![n] = m.sig]
                /\ lastDseep' = [lastDseep EXCEPT ![n] = FALSE]
                /\ revived' = (revived \/ m.seen = Zero)
        /\ IF n = Owner THEN status' = "REMOTELY_ENABLED" /\ vin' = TRUE
           ELSE UNCHANGED <<status, vin>>
        /\ link' = IF m.new THEN Relayed(Without(c), n, m) ELSE Without(c)
        /\ UNCHANGED <<askAgain, up, lockedCoin, spent, managed, registered, hung,
                       faults, quiet, steady>>

\* The collateral is spent, or cs_main is taken and the entry is dropped.
DropEntry(c) ==
    /\ Received(c, "dsee") /\ ~Updatable(c[2])
    /\ link' = Without(c)
    /\ UNCHANGED <<entry, askAgain, owner, history>>

\* "dseep" for an entry the node has: the time changes only if it is old
\* enough, and only then the ping goes on to the peers.
TakePing(c) ==
    LET n == c[2]
        m == Head(link[c])
    IN  /\ Received(c, "dseep") /\ Listed(n)
        /\ IF lastDseep[n]
           THEN link' = Without(c) /\ UNCHANGED entry
           ELSE /\ lastDseep' = [lastDseep EXCEPT ![n] = TRUE]
                /\ UNCHANGED sigTime
                /\ \E recent \in UpdatedWithin(lastTimeSeen[n], MinDseep) :
                     IF recent
                     THEN link' = Without(c) /\ UNCHANGED <<activeState, lastTimeSeen>>
                     ELSE IF m.stop
                     THEN /\ lastTimeSeen' = [lastTimeSeen EXCEPT ![n] = Zero]
                          /\ link' = Relayed(Without(c), n, m)
                          /\ UNCHANGED activeState
                     ELSE /\ lastTimeSeen' = [lastTimeSeen EXCEPT ![n] = 0]
                          /\ \E state \in Checked(activeState[n], 0) :
                               /\ activeState' = [activeState EXCEPT ![n] = state]
                               /\ link' = IF state = "ENABLED"
                                          THEN Relayed(Without(c), n, m) ELSE Without(c)
        /\ UNCHANGED <<askAgain, owner, history>>

IgnorePing(c) == \* mutant: a ping of an unknown alphanode is dropped
    /\ Received(c, "dseep") /\ ~Listed(c[2])
    /\ link' = Without(c)
    /\ UNCHANGED <<entry, askAgain, owner, history>>

\* "dseep" for an entry the node has not: it asks the sender, not too often.
AskForEntry(c) ==
    LET n == c[2]
    IN  /\ Received(c, "dseep") /\ ~Listed(n)
        /\ IF askAgain[n] = 0
           THEN /\ askAgain' = [askAgain EXCEPT ![n] = MinDseep]
                /\ link' = [Without(c) EXCEPT ![<<n, c[1]>>] =
                              IF Alive(c[1]) THEN Append(@, Dseg) ELSE @]
           ELSE link' = Without(c) /\ UNCHANGED askAgain
        /\ UNCHANGED <<entry, owner, history>>

\* "dseg": an enabled entry is sent as it is, without a new check.
AnswerDseg(c) ==
    LET n == c[2]
    IN  /\ Received(c, "dseg")
        /\ link' = [Without(c) EXCEPT ![<<n, c[1]>>] =
                      IF activeState[n] = "ENABLED" /\ Alive(c[1])
                      THEN Append(@, Dsee(FALSE, lastTimeSeen[n], sigTime[n])) ELSE @]
        /\ UNCHANGED <<entry, askAgain, owner, history>>

\* The entry leaves n's list.
Erase(n) ==
    /\ activeState' = [activeState EXCEPT ![n] = "none"]
    /\ lastTimeSeen' = [lastTimeSeen EXCEPT ![n] = Zero]
    /\ sigTime' = [sigTime EXCEPT ![n] = 0]
    /\ lastDseep' = [lastDseep EXCEPT ![n] = FALSE]

\* ThreadCheckDarkSendPool, every minute: CAlphanodeMan::CheckAndRemove.
CheckAndRemove(n) ==
    /\ Alive(n) /\ Listed(n)
    /\ \E state \in Checked(activeState[n], lastTimeSeen[n]) :
         IF state \in {"REMOVE", "VIN_SPENT"} THEN Erase(n)
         ELSE /\ activeState' = [activeState EXCEPT ![n] = state]
              /\ UNCHANGED <<lastTimeSeen, sigTime, lastDseep>>
    /\ UNCHANGED <<askAgain, owner, link, history>>

-----------------------------------------------------------------------------
(* The owner *)

\* AvailableCoinsMN leaves locked coins out.
CollateralFound == ~lockedCoin /\ ~spent

\* Register: the own entry is added if it is not there, and told to all.
Register ==
    /\ registered' = registered + 1
    /\ IF Listed(Owner) THEN UNCHANGED entry
       ELSE /\ activeState' = [activeState EXCEPT ![Owner] = "ENABLED"]
            /\ lastTimeSeen' = [lastTimeSeen EXCEPT ![Owner] = 0]
            /\ sigTime' = [sigTime EXCEPT ![Owner] = registered']
            /\ lastDseep' = [lastDseep EXCEPT ![Owner] = FALSE]
    /\ link' = Relayed(link, Owner, Dsee(TRUE, 0, registered'))
    /\ quiet' = 0

\* ManageStatus, not running and not stopped: find the collateral, lock it and
\* register.
Activate ==
    IF CollateralFound
    THEN /\ status' = "IS_CAPABLE" /\ vin' = TRUE /\ lockedCoin' = TRUE
         /\ Register
    ELSE /\ status' = "NOT_CAPABLE"
         /\ UNCHANGED <<entry, link, vin, lockedCoin, registered, quiet>>

\* Dseep: an owner whose entry is gone stops pinging.
Ping ==
    IF Listed(Owner)
    THEN /\ lastTimeSeen' = [lastTimeSeen EXCEPT ![Owner] = 0]
         /\ link' = Relayed(link, Owner, Dseep(FALSE))
         /\ quiet' = 0
         /\ UNCHANGED <<activeState, sigTime, lastDseep, status, vin, lockedCoin, registered>>
    ELSE /\ status' = "NOT_CAPABLE"
         /\ UNCHANGED <<entry, link, vin, lockedCoin, registered, quiet>>

\* ManageStatus, once a minute.
ManageStatus ==
    /\ up /\ ~hung /\ ~managed
    /\ managed' = TRUE
    /\ \/ status \in {"NOT_PROCESSED", "NOT_CAPABLE", "SYNC_IN_PROCESS"} /\ Activate
       \/ status \in {"IS_CAPABLE", "REMOTELY_ENABLED"} /\ Ping
       \/ /\ status = "STOPPED"
          /\ UNCHANGED <<entry, link, status, vin, lockedCoin, registered, quiet>>
    /\ UNCHANGED <<askAgain, up, spent, hung, faults, steady, revived>>

Fault == faults < MaxFaults /\ faults' = faults + 1

\* ManageStatus finds itself in the initial download, or gets no connection to
\* its own address.
NotReady ==
    /\ up /\ ~hung /\ ~managed
    /\ Fault
    /\ managed' = TRUE
    /\ \/ status' = "SYNC_IN_PROCESS"
       \/ status \in {"NOT_PROCESSED", "NOT_CAPABLE", "SYNC_IN_PROCESS"}
          /\ status' = "NOT_CAPABLE"
    /\ steady' = 0
    /\ UNCHANGED <<entry, askAgain, up, vin, lockedCoin, spent, registered, hung, link,
                   quiet, revived>>

\* The RPC call "alphanode start".
Start ==
    /\ up /\ ~hung /\ ~Running
    /\ Fault
    /\ Activate
    /\ UNCHANGED <<askAgain, up, spent, managed, hung, steady, revived>>

\* Remove does not get past an entry that is another one's: if there is one
\* before its own it loops, under cs and with cs_main held by the RPC call.
RemoveOwn ==
    \/ Erase(Owner) /\ UNCHANGED hung
    \/ hung' = TRUE /\ UNCHANGED entry

\* "alphanode stop", in a minute that had no ping yet.
StopAlphaNode ==
    /\ Running /\ ~managed
    /\ Fault
    /\ managed' = TRUE /\ lockedCoin' = FALSE
    /\ IF Listed(Owner)
       THEN /\ status' = "STOPPED"
            /\ RemoveOwn
            /\ link' = IF hung' THEN [c \in Connections |->
                                        IF c[2] = Owner THEN <<>> ELSE link[c]]
                       ELSE Relayed(link, Owner, Dseep(TRUE))
       ELSE /\ status' = "NOT_CAPABLE"
            /\ UNCHANGED <<entry, link, hung>>
    /\ steady' = 0
    /\ UNCHANGED <<askAgain, up, vin, spent, registered, quiet, revived>>

\* The owner's process ends.  Messages to and from it are lost.
Shutdown ==
    /\ up /\ Fault
    /\ up' = FALSE /\ hung' = FALSE
    /\ status' = "NOT_PROCESSED" /\ vin' = FALSE /\ lockedCoin' = FALSE
    /\ link' = [c \in Connections |-> IF Owner \in {c[1], c[2]} THEN <<>> ELSE link[c]]
    /\ steady' = 0
    /\ UNCHANGED <<entry, askAgain, spent, managed, registered, quiet, revived>>

\* It is started again and reads alphacache.dat, if there is one.
Restart ==
    /\ ~up
    /\ up' = TRUE
    /\ Erase(Owner) \/ UNCHANGED entry
    /\ UNCHANGED <<askAgain, status, vin, lockedCoin, spent, managed, registered, hung,
                   link, history>>

\* Another wallet with the keys, or this one while the coin is not locked.
SpendCollateral ==
    /\ ~spent /\ Fault
    /\ spent' = TRUE
    /\ UNCHANGED <<entry, askAgain, up, status, vin, lockedCoin, managed, registered, hung,
                   link, quiet, steady, revived>>

-----------------------------------------------------------------------------

Older(seen) == IF seen = Zero \/ seen > Removal THEN seen ELSE seen + 1

\* Only who holds the entry enabled passes pings on.
EnabledEverywhere == \A n \in Nodes : activeState[n] = "ENABLED"

\* A minute passes: all messages have arrived, and the owner's thread came by.
Tick ==
    /\ \A c \in Connections : link[c] = <<>>
    /\ managed \/ ~up \/ hung
    /\ lastTimeSeen' = [n \in Nodes |-> Older(lastTimeSeen[n])]
    /\ lastDseep' = [n \in Nodes |-> FALSE]
    /\ askAgain' = [n \in Nodes |-> IF askAgain[n] = 0 THEN 0 ELSE askAgain[n] - 1]
    /\ managed' = FALSE
    /\ quiet' = Older(quiet)
    /\ steady' = IF quiet > 0 \/ ~Running \/ ~EnabledEverywhere THEN 0
                 ELSE IF steady < Expiration THEN steady + 1 ELSE steady
    /\ UNCHANGED <<activeState, sigTime, up, status, vin, lockedCoin, spent, registered,
                   hung, link, faults, revived>>

Handle(c) ==
    \/ UpdateEntry(c) \/ AcceptEntry(c) \/ DropEntry(c)
    \/ TakePing(c) \/ AskForEntry(c) \/ AnswerDseg(c)

Next ==
    \/ \E c \in Connections : Handle(c)
    \/ \E n \in Nodes : CheckAndRemove(n)
    \/ ManageStatus \/ NotReady \/ Start \/ StopAlphaNode
    \/ Shutdown \/ Restart \/ SpendCollateral
    \/ Tick

Spec == Init /\ [][Next]_vars

\* Time passes, messages arrive, the threads come by; and cs_main is not taken
\* at every moment a new entry or a check needs it.
FairSpec ==
    /\ Spec
    /\ WF_vars(Tick) /\ WF_vars(ManageStatus)
    /\ \A c \in Connections : WF_vars(Handle(c)) /\ SF_vars(AcceptEntry(c))
    /\ \A n \in Nodes : WF_vars(CheckAndRemove(n))

-----------------------------------------------------------------------------
(* Properties *)

States == {"none", "ENABLED", "EXPIRED", "VIN_SPENT", "REMOVE"}
Stati == {"NOT_PROCESSED", "IS_CAPABLE", "NOT_CAPABLE", "STOPPED", "SYNC_IN_PROCESS",
          "REMOTELY_ENABLED"}
Messages == [type : {"dsee"}, new : BOOLEAN, seen : Seen, sig : Nat]
            \cup [type : {"dseep"}, stop : BOOLEAN] \cup {Dseg}

\* Every variable holds a value of its type.
TypeOK ==
    /\ activeState \in [Nodes -> States] /\ lastTimeSeen \in [Nodes -> Seen]
    /\ sigTime \in [Nodes -> Nat] /\ lastDseep \in [Nodes -> BOOLEAN]
    /\ askAgain \in [Nodes -> 0..MinDseep]
    /\ status \in Stati /\ registered \in Nat
    /\ {up, vin, lockedCoin, spent, managed, hung, revived} \subseteq BOOLEAN
    /\ link \in [Connections -> Seq(Messages)]
    /\ faults \in 0..MaxFaults /\ quiet \in Seen /\ steady \in 0..Expiration

\* No node takes the alphanode for fresher than the last thing it signed,
\* however often the entry is dropped, asked for and passed on.
NeverFresherThanSigned ==
    ~revived => \A n \in Nodes :
        Listed(n) /\ lastTimeSeen[n] # Zero => lastTimeSeen[n] >= quiet

\* An alphanode that keeps pinging does not expire and is not removed, although
\* every node passes on only the pings that find its entry old enough.  Each hop
\* adds MinDseep to the age an entry can reach: with the constants of the code
\* this is true of the owner's peers and of theirs, and of nobody further away.
LiveNeverExpires == steady = Expiration /\ Running /\ ~spent => EnabledEverywhere

\* An alphanode that pings no more - stopped, down, stuck or without collateral
\* - leaves the list of every other node for good.
SilentLeaves ==
    <>[]~Running => <>[](\A n \in Nodes \ {Owner} : activeState[n] = "none")

\* One that pings is known to every node again and again, whichever entry was
\* lost, whichever question remained without an answer.
LiveIsKnown ==
    <>[](Running /\ ~spent) => \A n \in Nodes : []<>(activeState[n] = "ENABLED")

=============================================================================
