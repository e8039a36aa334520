------------------------------ MODULE Darksend ------------------------------
(***************************************************************************)
(* A darksend pool (darksend.cpp): an alphanode and clients that mix coins *)
(* of one denomination with it.  The alphanode collects users ("dsa"),     *)
(* tells them that it is ready ("dsq"), takes their entries ("dsi"), sends *)
(* the final transaction ("dsf"), takes the signatures ("dss"), and tells  *)
(* the end ("dsc"); "dssu" carries its state.  Each side has timeouts.     *)
(*                                                                         *)
(* A tick is ten to fifteen seconds.  A message arrives in its tick, in    *)
(* the order of its connection; ThreadCheckDarkSendPool comes by every     *)
(* second, so what is due in a tick happens in it, before or after any of  *)
(* its messages.                                                           *)
(*                                                                         *)
(* Left out: amounts, denominations that differ, scripts, queues that are  *)
(* not ready, the limits on how often an alphanode may queue, random fees  *)
(* after a success; another alphanode a client turns to does not answer.   *)
(***************************************************************************)
EXTENDS Integers, Sequences, SequencesExt, FiniteSets

CONSTANTS
    Clients,
    PoolMax,         \* PoolMaxTransactions
    QueueTimeout,    \* DARKSEND_QUEUE_TIMEOUT, in ticks like the next two
    SigningTimeout,  \* DARKSEND_SIGNING_TIMEOUT
    Lag,             \* the ten seconds more of a client, and those of an error
    Preemption,      \* the threads of a client interrupt each other
    MaxStarts,       \* sessions the clients ask for, together
    MaxFaults        \* failures of any kind, together

ASSUME DarksendAssumption ==
    /\ IsFiniteSet(Clients)
    /\ {PoolMax, QueueTimeout, SigningTimeout, Lag} \subseteq Nat \ {0}
    /\ PoolMax > 1 /\ SigningTimeout <= QueueTimeout
    /\ Preemption \in BOOLEAN
    /\ {MaxStarts, MaxFaults} \subseteq Nat

VARIABLES
    pool,      \* darkSendPool of the alphanode
    client,    \* darkSendPool of each client
    submit,    \* where its message thread is in PrepareDarksendDenominate
    reset,     \* where its other thread is in CheckTimeout
    asked,     \* clients whose other thread has asked for a session in this tick
    toPool,    \* messages to the alphanode
    toClient,  \* messages from it
    started,   \* clients that have asked it once
    starts, faults,
    sessions,  \* sessions of the alphanode so far
    failed,    \* clients that did not do their part
    overtaken, \* clients on which another session began before they had answered
    charged    \* clients whose collateral ChargeFees has spent

threads == <<submit, reset, asked>>
links == <<toPool, toClient>>
history == <<started, starts, faults, sessions, failed, overtaken, charged>>
vars == <<pool, client, threads, links, history>>

None == -1                           \* no entry
Ages == 0..(QueueTimeout + Lag)
Waiting == {"QUEUE", "ACCEPTING"}

EmptyPool == [state |-> "IDLE", session |-> 0, users |-> 0,
              entries |-> [c \in Clients |-> None], signed |-> {}, age |-> 0]
NewClient == [state |-> "IDLE", session |-> 0, found |-> FALSE, submitted |-> FALSE,
              entry |-> None, locked |-> FALSE, listed |-> FALSE, age |-> 0]

Init ==
    /\ pool = EmptyPool
    /\ client = [c \in Clients |-> NewClient]
    /\ submit = [c \in Clients |-> "none"] /\ reset = [c \in Clients |-> "none"]
    /\ asked = {}
    /\ toPool = [c \in Clients |-> <<>>] /\ toClient = [c \in Clients |-> <<>>]
    /\ started = {} /\ starts = 0 /\ faults = 0 /\ sessions = 0
    /\ failed = {} /\ overtaken = {} /\ charged = {}

-----------------------------------------------------------------------------
(* CDarksendPool *)

UpdateState(p, s) == IF p.state = s THEN p ELSE [p EXCEPT !.state = s, !.age = 0]

\* Of a client.  pSubmittedToAlphanode and the coins stay.
SetNull(p) ==
    [p EXCEPT !.state = "IDLE", !.session = 0, !.found = FALSE, !.entry = None, !.age = 0]

ListCleared(p) == [p EXCEPT !.listed = FALSE] \* mutant: the wallet is not asked
\* Only what is in lockedCoins is unlocked in the wallet.
UnlockCoins(p) == IF p.listed THEN [p EXCEPT !.locked = FALSE, !.listed = FALSE] ELSE p

Entered == {c \in Clients : pool.entries[c] # None}

Status(p, accepted) ==
    [type |-> "dssu", session |-> p.session, state |-> p.state, accepted |-> accepted]
Reset(p) == Status(p, None)
Dsf(p, txs) == [type |-> "dsf", session |-> p.session, txs |-> txs]
Dsc(p) == [type |-> "dsc", session |-> p.session]
Ready == [type |-> "dsq"]

\* UpdateState of an alphanode tells the state it leaves.
Left(p, s) == IF p.state = s THEN <<>> ELSE <<Reset(p)>>

\* Who is not submitted to this alphanode ignores whatever it sends.
Told(all) ==
    [c \in Clients |-> IF client[c].submitted THEN toClient[c] \o all ELSE toClient[c]]
Received(c, type) == toPool[c] # <<>> /\ Head(toPool[c]) = type
Taken(c) == toPool' = [toPool EXCEPT ![c] = Tail(@)]

Fault == faults < MaxFaults /\ faults' = faults + 1
NoFault == UNCHANGED faults

-----------------------------------------------------------------------------
(* The alphanode *)

OneTooMany == pool.state \in Waiting /\ pool.users <= PoolMax \* mutant: > for >=
Compatible == pool.state \in Waiting /\ pool.users < PoolMax

\* A client that still has to answer a "dsq", or whose answer is on its way.
Answering(c) ==
    Contains(toClient[c], Ready) \/ submit[c] # "none" \/ Contains(toPool[c], "dsi")

\* "dsa": the first user starts a session, others join while they are few.
Dsa(c) ==
    /\ Received(c, "dsa")
    /\ \/ /\ pool.users = 0
          /\ sessions' = sessions + 1
          /\ LET new == [pool EXCEPT !.session = sessions']
                 p == [UpdateState(new, "QUEUE") EXCEPT
                         !.users = 1, !.age = 0]
             IN  /\ pool' = p
                 /\ toClient' = [Told(Left(new, "QUEUE")) EXCEPT ![c] = Append(@, Status(p, 1))]
          /\ overtaken' = overtaken \cup {d \in Clients : Answering(d)}
          /\ NoFault
       \/ /\ pool.users # 0 /\ Compatible
          /\ pool' = [pool EXCEPT !.users = @ + 1, !.age = 0]
          /\ toClient' = [toClient EXCEPT ![c] = Append(@, Status(pool', 1))]
          /\ UNCHANGED <<sessions, overtaken>> /\ NoFault
       \/ /\ \/ pool.users # 0 /\ ~Compatible /\ NoFault
             \/ Fault  \* the collateral, or a "dsq" too recent
          /\ toClient' = [toClient EXCEPT ![c] = Append(@, Status(pool, 0))]
          /\ UNCHANGED <<pool, sessions, overtaken>>
    /\ Taken(c)
    /\ UNCHANGED <<client, threads, started, starts, failed, charged>>

QueueComplete == pool.state = "QUEUE" /\ pool.users = PoolMax

\* CheckForCompleteQueue.
CheckForCompleteQueue ==
    /\ QueueComplete
    /\ pool' = UpdateState(pool, "ACCEPTING")
    /\ toClient' = Told(<<Reset(pool), Ready>>)
    /\ UNCHANGED <<client, threads, toPool, history>>

IsSessionReady == pool.users >= PoolMax

BuiltBefore(c) == Entered \* mutant: Check before entries.push_back
\* The entries of the final transaction.
FinalTransaction(c) == Entered \cup {c}

\* "dsi" that AddEntry takes, and Check.
Dsi(c) ==
    /\ Received(c, "dsi") /\ IsSessionReady
    /\ Cardinality(Entered) < PoolMax /\ pool.entries[c] = None
    /\ LET p == [pool EXCEPT !.entries[c] = 0]
           f == UpdateState(p, "FINALIZE")
           s == UpdateState(f, "SIGNING")
           final == p.state = "ACCEPTING" /\ Cardinality(Entered \cup {c}) >= PoolMax
           all == IF final
                  THEN <<Reset(p), Reset(f), Dsf(s, FinalTransaction(c)), Reset(s)>>
                  ELSE <<Reset(p)>>
       IN  /\ pool' = IF final THEN s ELSE p
           /\ toClient' = [Told(all) EXCEPT ![c] = toClient[c] \o <<Status(p, 1)>> \o all]
    /\ Taken(c)
    /\ UNCHANGED <<client, threads, history>>

\* "dsi" that is refused: by AddEntry, which takes it for the user who leaves,
\* or before it.
DsiRefused(c) ==
    /\ Received(c, "dsi")
    /\ \/ /\ ~IsSessionReady
          /\ UNCHANGED pool /\ NoFault
       \/ /\ IsSessionReady
          /\ \/ (Cardinality(Entered) >= PoolMax \/ pool.entries[c] # None) /\ NoFault
             \/ Fault  \* the collateral is not valid any more
          /\ pool' = [pool EXCEPT !.users = @ - 1]
       \/ Fault /\ UNCHANGED pool  \* the inputs are not acceptable
    /\ toClient' = [toClient EXCEPT ![c] = Append(@, Status(pool', 0))]
    /\ Taken(c)
    /\ UNCHANGED <<client, threads, started, starts, sessions, failed, overtaken, charged>>

\* "dss", Check and CheckFinalTransaction: SetNull comes before a failure is
\* told, so that it is told to session zero.
Dss(c) ==
    /\ Received(c, "dss")
    /\ IF pool.entries[c] = None \/ c \in pool.signed
       THEN UNCHANGED <<pool, toClient, faults>>
       ELSE LET p == [pool EXCEPT !.signed = @ \cup {c}]
                failure == UpdateState(EmptyPool, "ACCEPTING")
            IN  IF p.state = "SIGNING" /\ Entered \subseteq p.signed
                THEN \/ /\ pool' = EmptyPool
                        /\ toClient' = Told(<<Reset(p), Dsc(p), Reset(pool'), Reset(pool')>>)
                        /\ NoFault
                     \/ /\ pool' = failure
                        /\ toClient' = Told(<<Reset(p), Reset(EmptyPool), Dsc(failure),
                                              Reset(failure)>>)
                        /\ Fault
                ELSE /\ pool' = p
                     /\ toClient' = Told(<<Reset(p)>>)
                     /\ NoFault
    /\ Taken(c)
    /\ UNCHANGED <<client, threads, started, starts, sessions, failed, overtaken, charged>>

Expired(age) == age # None /\ age >= QueueTimeout
EntriesDue == \* mutant: entries expire, the queue itself does not
    \/ pool.state \in Waiting /\ \E c \in Clients : Expired(pool.entries[c])
    \/ pool.state = "SIGNING" /\ pool.age >= SigningTimeout
PoolDue ==
    \/ pool.state \in Waiting
       /\ (pool.age >= QueueTimeout \/ \E c \in Clients : Expired(pool.entries[c]))
    \/ pool.state = "SIGNING" /\ pool.age >= SigningTimeout

\* ChargeFees: at most one of those who did not sign, and none if nobody did.
Offenders == Entered \ pool.signed
ChargeFees ==
    \/ UNCHANGED charged
    \/ /\ Cardinality(Offenders) < PoolMax
       /\ \E c \in Offenders : charged' = charged \cup {c}

\* CheckTimeout.  Nobody is told that a session is over.
PoolTimeout ==
    /\ PoolDue
    /\ \/ /\ pool.state \in Waiting
          /\ LET kept == [c \in Clients |-> IF Expired(pool.entries[c]) THEN None
                                            ELSE pool.entries[c]]
                 erased == Cardinality({c \in Entered : kept[c] = None})
                 p == IF kept = EmptyPool.entries /\ Entered # {} THEN EmptyPool
                      ELSE [pool EXCEPT !.entries = kept]
             IN  /\ pool' = IF p.age >= QueueTimeout THEN EmptyPool ELSE p
                 /\ toClient' = Told([i \in 1..erased |-> Reset(IF i < erased THEN pool ELSE p)])
          /\ UNCHANGED charged
       \/ /\ pool.state = "SIGNING"
          /\ ChargeFees
          /\ pool' = EmptyPool
          /\ UNCHANGED toClient
    /\ UNCHANGED <<client, threads, toPool, started, starts, faults, sessions, failed,
                   overtaken>>

-----------------------------------------------------------------------------
(* A client *)

\* The thread of messages and the other one are in no routine of theirs.
Undisturbed(c) == submit[c] = "none" /\ reset[c] = "none"
Calm(c) == submit[c] = "none" /\ (Preemption \/ reset[c] = "none")

\* DoAutomaticDenominating asks this alphanode: it comes by every 15 seconds.
Start(c) ==
    /\ Undisturbed(c) /\ c \notin asked
    /\ asked' = asked \cup {c}
    /\ client[c].state = "IDLE" /\ client[c].entry = None /\ ~client[c].found
    /\ starts < MaxStarts /\ starts' = starts + 1
    /\ started' = started \cup {c}
    /\ client' = [client EXCEPT ![c] =
                     [UpdateState(SetNull(UnlockCoins(@)), "ACCEPTING") EXCEPT !.submitted = TRUE]]
    /\ toPool' = [toPool EXCEPT ![c] = Append(@, "dsa")]
    /\ UNCHANGED <<pool, submit, reset, toClient, faults, sessions, failed, overtaken, charged>>

Message(c) == Head(toClient[c])
Arrived(c, type) == toClient[c] # <<>> /\ Message(c).type = type /\ Calm(c)
Ignored(c) == toClient' = [toClient EXCEPT ![c] = Tail(@)]

Pending(p) == p.entry # None

\* StatusUpdate with the answer to "dsa" or "dsi": a client that has no session
\* turns to another alphanode if this one takes entries and it sent it none.
Accepted(p, m) ==
    LET q == [UpdateState(p, m.state) EXCEPT !.session = m.session, !.found = TRUE]
    IN  IF m.state = "ACCEPTING" THEN UpdateState(q, "QUEUE") ELSE q
Rejected(p, m) ==
    LET q == UpdateState(UpdateState(p, m.state), "ERROR")
    IN  IF m.state = "ACCEPTING" /\ p.session = 0 /\ ~p.found
        THEN [UpdateState(UnlockCoins(q), "ACCEPTING") EXCEPT !.submitted = Pending(p)]
        ELSE q

\* "dssu" and StatusUpdate.
StatusUpdate(c) ==
    LET p == client[c]
        m == Message(c)
    IN  /\ Arrived(c, "dssu")
        /\ client' = [client EXCEPT ![c] =
             IF ~p.submitted \/ p.state = "ERROR" THEN p
             ELSE CASE m.accepted = None ->
                         IF m.session = p.session THEN UpdateState(p, m.state) ELSE p
                    [] m.accepted = 1 -> Accepted(p, m)
                    [] m.accepted = 0 -> Rejected(p, m)]
        /\ Ignored(c)
        /\ UNCHANGED <<pool, threads, toPool, history>>

\* "dsq" of a queue that is ready: PrepareDarksendDenominate locks the coins.
Prepare(c) ==
    LET p == client[c]
    IN  /\ Arrived(c, "dsq")
        /\ p.submitted /\ p.state = "QUEUE" /\ ~Pending(p)
        /\ client' = [client EXCEPT ![c].locked = TRUE]
        /\ submit' = [submit EXCEPT ![c] = "locked"]
        /\ Ignored(c)
        /\ UNCHANGED <<pool, reset, asked, toPool, history>>

\* It is for others, or it is dropped: cs_darksend is taken, the wallet is
\* locked or has no coins for it.
DropReady(c) ==
    LET p == client[c]
    IN  /\ Arrived(c, "dsq")
        /\ IF p.submitted /\ p.state = "QUEUE" /\ ~Pending(p) THEN Fault ELSE NoFault
        /\ Ignored(c)
        /\ UNCHANGED <<pool, client, threads, toPool, started, starts, sessions, failed,
                       overtaken, charged>>

Step(c, at) == submit[c] = at /\ (Preemption \/ reset[c] = "none")

\* SendDarksendDenominate lists the coins, and gives up if the session is gone.
ListCoins(c) ==
    LET p == [client[c] EXCEPT !.listed = TRUE]
    IN  /\ Step(c, "locked")
        /\ IF p.found
           THEN /\ client' = [client EXCEPT ![c] = p]
                /\ submit' = [submit EXCEPT ![c] = "listed"]
           ELSE /\ client' = [client EXCEPT ![c] = SetNull(UnlockCoins(p))]
                /\ submit' = [submit EXCEPT ![c] = "none"]
        /\ UNCHANGED <<pool, reset, asked, links, history>>

\* Then it stores the entry and sends it, if the collateral is still good.
SendDarksendDenominate(c) ==
    LET p == UpdateState(client[c], "ACCEPTING")
    IN  /\ Step(c, "listed")
        /\ submit' = [submit EXCEPT ![c] = "none"]
        /\ \/ /\ client' = [client EXCEPT ![c] = [p EXCEPT !.entry = 0]]
              /\ toPool' = [toPool EXCEPT ![c] = Append(@, "dsi")]
              /\ NoFault
           \/ /\ client' = [client EXCEPT ![c] = SetNull(UnlockCoins(p))]
              /\ UNCHANGED toPool
              /\ Fault
        /\ UNCHANGED <<pool, reset, asked, toClient, started, starts, sessions, failed, overtaken,
                       charged>>

\* "dsf" and SignFinalTransaction: the client signs its own entry.
SignFinalTransaction(c) ==
    LET p == client[c]
        m == Message(c)
        mine == p.submitted /\ p.session = m.session /\ Pending(p) /\ c \in m.txs
    IN  /\ Arrived(c, "dsf")
        /\ \/ /\ toPool' = IF mine THEN [toPool EXCEPT ![c] = Append(@, "dss")] ELSE toPool
              /\ UNCHANGED failed /\ NoFault
           \/ /\ mine /\ Fault  \* the wallet cannot sign
              /\ failed' = failed \cup {c}
              /\ UNCHANGED toPool
        /\ Ignored(c)
        /\ UNCHANGED <<pool, client, threads, started, starts, sessions, overtaken, charged>>

\* "dsc": either way the client starts afresh.
CompletedTransaction(c) ==
    LET p == client[c]
    IN  /\ Arrived(c, "dsc")
        /\ client' = [client EXCEPT ![c] =
                         IF p.submitted /\ p.session = Message(c).session
                         THEN SetNull(UnlockCoins(p)) ELSE p]
        /\ Ignored(c)
        /\ UNCHANGED <<pool, threads, toPool, history>>

DueAtOnce(p) == \* mutant: addLagTime is zero for a client
    CASE p.state = "ERROR" -> IF p.age >= Lag THEN "IDLE" ELSE "none"
      [] p.state = "SIGNING" -> IF p.age >= SigningTimeout THEN "ERROR" ELSE "none"
      [] p.state \in Waiting -> IF p.age >= QueueTimeout THEN "IDLE" ELSE "none"
      [] OTHER -> IF p.age >= QueueTimeout THEN "ERROR" ELSE "none"
\* What CheckTimeout has to do: the state it ends in, or "none".
Due(p) ==
    CASE p.state = "ERROR" -> IF p.age >= Lag THEN "IDLE" ELSE "none"
      [] p.state \in Waiting -> IF Expired(p.entry) \/ p.age >= QueueTimeout + Lag
                                THEN "IDLE" ELSE "none"
      [] p.state = "SIGNING" -> IF p.age >= SigningTimeout + Lag THEN "ERROR" ELSE "none"
      [] OTHER -> IF p.age >= QueueTimeout + Lag THEN "ERROR" ELSE "none"

TimedOut(p, s) == UpdateState(SetNull(p), s)

\* CheckTimeout unlocks the coins ...
TimeoutUnlock(c) ==
    /\ reset[c] = "none" /\ (Preemption \/ submit[c] = "none")
    /\ Due(client[c]) # "none"
    /\ reset' = [reset EXCEPT ![c] = Due(client[c])]
    /\ client' = [client EXCEPT ![c] = UnlockCoins(@)]
    /\ UNCHANGED <<pool, submit, asked, links, history>>

\* ... and sets everything else to null.
TimeoutNull(c) ==
    /\ reset[c] # "none"
    /\ reset' = [reset EXCEPT ![c] = "none"]
    /\ client' = [client EXCEPT ![c] = TimedOut(@, reset[c])]
    /\ UNCHANGED <<pool, submit, asked, links, history>>

\* The client's process is started again: the locks were in memory only.
Restart(c) ==
    /\ client[c] # NewClient
    /\ Fault
    /\ failed' = failed \cup {c}
    /\ client' = [client EXCEPT ![c] = NewClient]
    /\ submit' = [submit EXCEPT ![c] = "none"]
    /\ reset' = [reset EXCEPT ![c] = "none"]
    /\ toPool' = [toPool EXCEPT ![c] = <<>>] /\ toClient' = [toClient EXCEPT ![c] = <<>>]
    /\ UNCHANGED <<pool, asked, started, starts, sessions, overtaken, charged>>

-----------------------------------------------------------------------------

Older(age) == IF age = None \/ age = QueueTimeout + Lag THEN age ELSE age + 1

\* A tick passes: all messages have been handled, and what was due was done.
Tick ==
    /\ ~QueueComplete /\ ~PoolDue
    /\ \A c \in Clients :
          /\ toPool[c] = <<>> /\ toClient[c] = <<>>
          /\ Undisturbed(c) /\ Due(client[c]) = "none"
    /\ pool' = [pool EXCEPT
                   !.age = IF pool.state = "IDLE" THEN 0 ELSE Older(@),
                   !.entries = [c \in Clients |-> Older(@[c])]]
    /\ client' = [c \in Clients |-> [client[c] EXCEPT !.age = Older(@), !.entry = Older(@)]]
    /\ asked' = {}
    /\ UNCHANGED <<submit, reset, links, history>>

PoolStep(c) == Dsa(c) \/ Dsi(c) \/ DsiRefused(c) \/ Dss(c)
MessageStep(c) ==
    \/ StatusUpdate(c) \/ Prepare(c) \/ DropReady(c)
    \/ ListCoins(c) \/ SendDarksendDenominate(c)
    \/ SignFinalTransaction(c) \/ CompletedTransaction(c)
TimeoutStep(c) == TimeoutUnlock(c) \/ TimeoutNull(c)

Progress ==
    \/ \E c \in Clients : PoolStep(c) \/ MessageStep(c) \/ TimeoutStep(c)
    \/ CheckForCompleteQueue \/ PoolTimeout
    \/ Tick

Next ==
    \/ \E c \in Clients : Start(c) \/ Restart(c)
    \/ Progress

Spec == Init /\ [][Next]_vars

\* Messages are handled, timeouts come due, and time passes when all is done:
\* no thread needs more than that some thread goes on.
FairSpec == Spec /\ WF_vars(Progress)

-----------------------------------------------------------------------------
(* Properties *)

States == {"IDLE", "QUEUE", "ACCEPTING", "FINALIZE", "SIGNING", "ERROR"}
Messages ==
    [type : {"dssu"}, session : Nat, state : States, accepted : {None, 0, 1}]
    \cup [type : {"dsf"}, session : Nat, txs : SUBSET Clients]
    \cup [type : {"dsc"}, session : Nat] \cup {Ready}

\* Every variable holds a value of its type.
TypeOK ==
    /\ pool \in [state : States \ {"ERROR", "FINALIZE"}, session : Nat, users : 0..PoolMax,
                 entries : [Clients -> Ages \cup {None}], signed : SUBSET Clients, age : Ages]
    /\ client \in [Clients -> [state : States, session : Nat, found : BOOLEAN,
                               submitted : BOOLEAN, entry : Ages \cup {None},
                               locked : BOOLEAN, listed : BOOLEAN, age : Ages]]
    /\ submit \in [Clients -> {"none", "locked", "listed"}]
    /\ reset \in [Clients -> {"none", "IDLE", "ERROR"}]
    /\ toPool \in [Clients -> Seq({"dsa", "dsi", "dss"})]
    /\ toClient \in [Clients -> Seq(Messages)]
    /\ starts \in 0..MaxStarts /\ faults \in 0..MaxFaults /\ sessions \in Nat
    /\ {asked, started, failed, overtaken, charged} \subseteq SUBSET Clients

\* Whose signature the alphanode holds, to complete a transaction with it, has
\* its coins locked and waits for this session, whatever timed out before.  The
\* ready "dsq" and "dsi" name no session: who was overtaken may have entered
\* another one than it thinks.
SignedMeansLocked ==
    \A c \in pool.signed \ (failed \cup overtaken) :
        client[c].locked /\ client[c].session = pool.session

\* ChargeFees takes the collateral only of clients that did not do their part,
\* though the alphanode never hears what the client gave up for another reason.
\* Who was overtaken does not sign what it did not ask for, and is charged too.
HonestNotCharged == charged \subseteq failed \cup overtaken

\* The alphanode becomes free again and again, although every user who joins
\* starts its timeout anew and sessions break up without a word.
SessionsEnd == []<>(pool.users = 0)

\* Coins that are locked for a session are unlocked again.
CoinsComeBack == \A c \in Clients : []<>~client[c].locked

=============================================================================
