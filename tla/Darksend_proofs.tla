--------------------------- MODULE Darksend_proofs ---------------------------
(***************************************************************************)
(* Proofs about Darksend: its types, and, while the threads of a client do *)
(* not interrupt each other, what a signature and a charge mean.           *)
(*                                                                         *)
(* The invariant follows one client and what is on its connection.  It has *)
(* three phases: before the alphanode has its entry nothing but an answer  *)
(* may be under way; with the entry in the pool both sides count the same  *)
(* age, so that neither gives up alone; while the alphanode takes the      *)
(* signatures each is on its way, arrived or asked for.                    *)
(***************************************************************************)
EXTENDS Darksend, SequenceTheorems, FiniteSetTheorems, TLAPS

PoolType == [state : States \ {"ERROR", "FINALIZE"}, session : Nat, users : 0..PoolMax,
             entries : [Clients -> Ages \cup {None}], signed : SUBSET Clients, age : Ages]
ClientType == [state : States, session : Nat, found : BOOLEAN, submitted : BOOLEAN,
               entry : Ages \cup {None}, locked : BOOLEAN, listed : BOOLEAN, age : Ages]

\* The constants, as the arithmetic of the proofs needs them.
LEMMA Bounds ==
  /\ PoolMax \in Nat /\ PoolMax > 1 /\ QueueTimeout \in Nat /\ QueueTimeout > 0
  /\ SigningTimeout \in Nat /\ SigningTimeout > 0 /\ SigningTimeout <= QueueTimeout
  /\ Lag \in Nat /\ Lag > 0 /\ MaxStarts \in Nat /\ MaxFaults \in Nat
  /\ None = -1 /\ 0 \in Ages /\ None \notin Ages /\ Ages \subseteq Nat
  /\ IsFiniteSet(Clients)
BY DarksendAssumption DEF None, Ages

\* A message that carries a state of the alphanode, or ends its session.
LEMMA MessageTypes ==
  ASSUME NEW p, p.session \in Nat, p.state \in States
  PROVE  /\ \A a \in {None, 0, 1} : Status(p, a) \in Messages
         /\ Reset(p) \in Messages /\ Dsc(p) \in Messages /\ Ready \in Messages
         /\ \A txs \in SUBSET Clients : Dsf(p, txs) \in Messages
BY DEF Status, Reset, Dsc, Dsf, Ready, Messages

\* The updates of the pool keep its type.
LEMMA PoolUpdates ==
  ASSUME NEW p \in PoolType
  PROVE  /\ \A n \in Nat : [p EXCEPT !.session = n] \in PoolType
         /\ \A n \in 0..PoolMax : /\ [p EXCEPT !.users = n] \in PoolType
                                  /\ [p EXCEPT !.users = n, !.age = 0] \in PoolType
         /\ \A c \in Clients : /\ [p EXCEPT !.entries[c] = 0] \in PoolType
                               /\ [p EXCEPT !.signed = @ \cup {c}] \in PoolType
         /\ \A s \in States \ {"ERROR", "FINALIZE"} : UpdateState(p, s) \in PoolType
<1>1. \A n \in Nat : [p EXCEPT !.session = n] \in PoolType
  BY DEF PoolType
<1>2. \A n \in 0..PoolMax : [p EXCEPT !.users = n] \in PoolType
  BY DEF PoolType
<1>3. \A n \in 0..PoolMax : [p EXCEPT !.users = n, !.age = 0] \in PoolType
  BY Bounds DEF PoolType
<1>4. \A c \in Clients : [p EXCEPT !.entries[c] = 0] \in PoolType
  BY Bounds DEF PoolType
<1>5. \A c \in Clients : [p EXCEPT !.signed = @ \cup {c}] \in PoolType
  BY DEF PoolType
<1>6. ASSUME NEW s \in States \ {"ERROR", "FINALIZE"}
      PROVE  UpdateState(p, s) \in PoolType
  <2>1. [p EXCEPT !.state = s, !.age = 0] \in PoolType
    BY Bounds DEF PoolType
  <2> QED BY <2>1 DEF UpdateState
<1> QED BY <1>1, <1>2, <1>3, <1>4, <1>5, <1>6

\* UpdateState of a client keeps its type.
LEMMA ClientUpdateState ==
  ASSUME NEW p \in ClientType, NEW s \in States
  PROVE  UpdateState(p, s) \in ClientType
<1>1. [p EXCEPT !.state = s, !.age = 0] \in ClientType
  BY Bounds DEF ClientType
<1> QED BY <1>1 DEF UpdateState

\* What is told to all is well typed on every connection.
LEMMA ToldType ==
  ASSUME TypeOK, NEW all \in Seq(Messages)
  PROVE  Told(all) \in [Clients -> Seq(Messages)]
BY DEF Told, TypeOK

\* The operations on a client keep its type.
LEMMA ClientOps ==
  ASSUME NEW p \in ClientType
  PROVE  /\ SetNull(p) \in ClientType
         /\ UnlockCoins(p) \in ClientType
         /\ \A s \in States : TimedOut(p, s) \in ClientType
         /\ \A m \in Messages : m.type = "dssu" =>
               Accepted(p, m) \in ClientType /\ Rejected(p, m) \in ClientType
<1>1. SetNull(p) \in ClientType
  BY Bounds DEF SetNull, ClientType, States
<1>2. UnlockCoins(p) \in ClientType
  BY DEF UnlockCoins, ClientType
<1>3. \A s \in States : TimedOut(p, s) \in ClientType
  BY <1>1, ClientUpdateState DEF TimedOut
<1>4. ASSUME NEW m \in Messages, m.type = "dssu"
      PROVE  Accepted(p, m) \in ClientType /\ Rejected(p, m) \in ClientType
  <2>1. m.state \in States /\ m.session \in Nat
    BY <1>4 DEF Messages, Ready
  <2>2. UpdateState(p, m.state) \in ClientType
    BY <2>1, ClientUpdateState
  <2>3. [UpdateState(p, m.state) EXCEPT !.session = m.session, !.found = TRUE] \in ClientType
    BY <2>1, <2>2 DEF ClientType
  <2>4. Accepted(p, m) \in ClientType
    BY <2>3, ClientUpdateState DEF Accepted, States
  <2>5. UpdateState(UpdateState(p, m.state), "ERROR") \in ClientType
    BY <2>2, ClientUpdateState DEF States
  <2>6. UnlockCoins(UpdateState(UpdateState(p, m.state), "ERROR")) \in ClientType
    BY <2>5 DEF UnlockCoins, ClientType
  <2>7. UpdateState(UnlockCoins(UpdateState(UpdateState(p, m.state), "ERROR")), "ACCEPTING")
          \in ClientType
    BY <2>6, ClientUpdateState DEF States
  <2>8. Rejected(p, m) \in ClientType
    BY <2>5, <2>7 DEF Rejected, ClientType, Pending
  <2> QED BY <2>4, <2>8
<1> QED BY <1>1, <1>2, <1>3, <1>4

\* A step fails or does not.
LEMMA FaultType ==
  ASSUME TypeOK, Fault \/ NoFault
  PROVE  faults' \in 0..MaxFaults
<1>1. faults \in 0..MaxFaults /\ MaxFaults \in Nat
  BY Bounds DEF TypeOK
<1> QED BY <1>1 DEF Fault, NoFault

\* The initial values have their types.
LEMMA InitType == Init => TypeOK
<1> SUFFICES ASSUME Init PROVE TypeOK
  OBVIOUS
<1> USE DEF Init
<1>1. pool \in PoolType
  BY Bounds DEF PoolType, EmptyPool, States
<1>2. client \in [Clients -> ClientType]
  BY Bounds DEF ClientType, NewClient, States
<1>3. /\ toPool \in [Clients -> Seq({"dsa", "dsi", "dss"})]
      /\ toClient \in [Clients -> Seq(Messages)]
  OBVIOUS
<1> QED BY <1>1, <1>2, <1>3, Bounds DEF TypeOK, PoolType, ClientType

\* What the type says of the parts.
LEMMA Types ==
  ASSUME TypeOK
  PROVE  /\ pool \in PoolType /\ client \in [Clients -> ClientType]
         /\ pool.session \in Nat /\ pool.state \in States /\ pool.users \in 0..PoolMax
         /\ pool.age \in Ages /\ pool.entries \in [Clients -> Ages \cup {None}]
         /\ pool.signed \in SUBSET Clients
         /\ \A c \in Clients : client[c] \in ClientType
         /\ toPool \in [Clients -> Seq({"dsa", "dsi", "dss"})]
         /\ toClient \in [Clients -> Seq(Messages)]
BY DEF TypeOK, PoolType, ClientType

\* The pool of SetNull has its type.
LEMMA EmptyPoolType == EmptyPool \in PoolType
BY Bounds DEF EmptyPool, PoolType, States

\* The messages of type "dssu" are statuses, and so on.
LEMMA HeadType ==
  ASSUME TypeOK, NEW c \in Clients, NEW type, Arrived(c, type)
  PROVE  /\ Message(c) \in Messages /\ Message(c).type = type
         /\ Tail(toClient[c]) \in Seq(Messages)
         /\ [toClient EXCEPT ![c] = Tail(@)] \in [Clients -> Seq(Messages)]
BY DEF TypeOK, Arrived, Message

\* A message less on a connection.
LEMMA TakenType ==
  ASSUME TypeOK, NEW c \in Clients, NEW type, Received(c, type), Taken(c)
  PROVE  toPool' \in [Clients -> Seq({"dsa", "dsi", "dss"})]
BY DEF TypeOK, Received, Taken

\* "dsa" keeps the types.
LEMMA DsaType ==
  ASSUME TypeOK, NEW c \in Clients, Dsa(c)
  PROVE  TypeOK'
<1> USE Bounds
<1>0. toPool' \in [Clients -> Seq({"dsa", "dsi", "dss"})]
  BY TakenType DEF Dsa
<1>1. CASE /\ pool.users = 0
          /\ sessions' = sessions + 1
          /\ LET new == [pool EXCEPT !.session = sessions']
                 p == [UpdateState(new, "QUEUE") EXCEPT
                         !.users = 1, !.age = 0]
             IN  /\ pool' = p
                 /\ toClient' = [Told(Left(new, "QUEUE")) EXCEPT ![c] = Append(@, Status(p, 1))]
          /\ overtaken' = overtaken \cup {d \in Clients : Answering(d)}
          /\ NoFault
  <2> DEFINE new == [pool EXCEPT !.session = sessions']
             p == [UpdateState(new, "QUEUE") EXCEPT !.users = 1, !.age = 0]
  <2>1. new \in PoolType
    <3>1. sessions' \in Nat
      <4>1. sessions \in Nat
        BY DEF TypeOK
      <4>2. sessions' = sessions + 1
        BY <1>1
      <4> QED BY <4>1, <4>2
    <3> QED BY <3>1, Types, PoolUpdates
  <2>2. UpdateState(new, "QUEUE") \in PoolType
    BY <2>1, PoolUpdates DEF States
  <2> HIDE DEF new
  <2>3. p \in PoolType
    <3>1. 1 \in 0..PoolMax
      OBVIOUS
    <3> QED BY <2>2, <3>1, PoolUpdates
  <2> HIDE DEF p
  <2>4. Left(new, "QUEUE") \in Seq(Messages)
    <3>1. Reset(new) \in Messages
      BY <2>1, MessageTypes DEF PoolType
    <3> QED BY <3>1 DEF Left
  <2>5. Status(p, 1) \in Messages
    BY <2>3, MessageTypes DEF PoolType
  <2>6. toClient' \in [Clients -> Seq(Messages)]
    <3>1. Told(Left(new, "QUEUE")) \in [Clients -> Seq(Messages)]
      BY <2>4, ToldType
    <3>2. toClient' = [Told(Left(new, "QUEUE")) EXCEPT ![c] = Append(@, Status(p, 1))]
      BY <1>1 DEF new, p
    <3> QED BY <3>1, <3>2, <2>5
  <2>7. pool' = p
    BY <1>1 DEF new, p
  <2>8. /\ UNCHANGED <<client, submit, reset, asked, started, starts, failed, charged, faults>>
        /\ overtaken' = overtaken \cup {d \in Clients : Answering(d)} /\ sessions' = sessions + 1
    BY <1>1 DEF Dsa, threads, NoFault
  <2>9. overtaken' \subseteq Clients
    <3>1. overtaken \subseteq Clients
      BY DEF TypeOK
    <3> QED BY <2>8, <3>1
  <2>10. sessions' \in Nat
    <3>1. sessions \in Nat
      BY DEF TypeOK
    <3> QED BY <2>8, <3>1
  <2>11. pool' \in PoolType
    BY <2>3, <2>7
  <2>12. UNCHANGED <<client, submit, reset, asked, started, starts, failed, charged, faults>>
    BY <2>8
  <2> QED BY <1>0, <2>6, <2>9, <2>10, <2>11, <2>12 DEF TypeOK, PoolType
<1>2. CASE /\ pool.users # 0 /\ Compatible
          /\ pool' = [pool EXCEPT !.users = @ + 1, !.age = 0]
          /\ toClient' = [toClient EXCEPT ![c] = Append(@, Status(pool', 1))]
          /\ UNCHANGED <<sessions, overtaken>> /\ NoFault
  <2>1. pool' \in PoolType
    <3>1. pool.users + 1 \in 0..PoolMax
      <4>1. pool.users \in 0..PoolMax
        BY Types
      <4>2. pool.users < PoolMax
        BY <1>2 DEF Compatible
      <4> QED BY <4>1, <4>2
    <3> QED BY <1>2, <3>1, Types, PoolUpdates
  <2>2. Status(pool', 1) \in Messages
    BY <2>1, MessageTypes DEF PoolType
  <2>3. toClient' \in [Clients -> Seq(Messages)]
    BY <1>2, <2>2 DEF TypeOK
  <2> QED BY <1>0, <1>2, <2>1, <2>3 DEF TypeOK, PoolType, Dsa, threads, NoFault
<1>3. CASE /\ \/ pool.users # 0 /\ ~Compatible /\ NoFault
             \/ Fault  \* the collateral, or a "dsq" too recent
          /\ toClient' = [toClient EXCEPT ![c] = Append(@, Status(pool, 0))]
          /\ UNCHANGED <<pool, sessions, overtaken>>
  <2>1. Status(pool, 0) \in Messages
    BY MessageTypes, Types
  <2>2. toClient' \in [Clients -> Seq(Messages)]
    BY <1>3, <2>1 DEF TypeOK
  <2>3. faults' \in 0..MaxFaults
    BY <1>3, FaultType
  <2>4. UNCHANGED <<client, submit, reset, asked, started, starts, failed, charged>>
    BY DEF Dsa, threads
  <2>5. UNCHANGED <<pool, sessions, overtaken>>
    BY <1>3
  <2> QED BY <1>0, <2>2, <2>3, <2>4, <2>5 DEF TypeOK
<1> QED BY <1>1, <1>2, <1>3 DEF Dsa

\* CheckForCompleteQueue keeps the types.
LEMMA CheckForCompleteQueueType == TypeOK /\ CheckForCompleteQueue => TypeOK'
<1> SUFFICES ASSUME TypeOK, CheckForCompleteQueue PROVE TypeOK'
  OBVIOUS
<1>1. pool' \in PoolType
  BY Types, PoolUpdates DEF CheckForCompleteQueue, States
<1>2. <<Reset(pool), Ready>> \in Seq(Messages)
  BY Types, MessageTypes
<1>3. toClient' \in [Clients -> Seq(Messages)]
  BY <1>2, ToldType DEF CheckForCompleteQueue
<1> QED BY <1>1, <1>3 DEF TypeOK, PoolType, CheckForCompleteQueue, threads, history

\* "dsi" keeps the types.
LEMMA DsiType ==
  ASSUME TypeOK, NEW c \in Clients, Dsi(c)
  PROVE  TypeOK'
<1> USE Bounds
<1> DEFINE p == [pool EXCEPT !.entries[c] = 0]
           f == UpdateState(p, "FINALIZE")
           s == UpdateState(f, "SIGNING")
           final == p.state = "ACCEPTING" /\ Cardinality(Entered \cup {c}) >= PoolMax
           all == IF final
                  THEN <<Reset(p), Reset(f), Dsf(s, FinalTransaction(c)), Reset(s)>>
                  ELSE <<Reset(p)>>
<1>1. p \in PoolType
  BY Types, PoolUpdates
<1>2. /\ f.session \in Nat /\ f.state \in States
      /\ s \in PoolType
  <2>1. /\ f = [p EXCEPT !.state = "FINALIZE", !.age = 0]
        /\ s = [[p EXCEPT !.state = "FINALIZE", !.age = 0] EXCEPT !.state = "SIGNING", !.age = 0]
    BY <1>1 DEF PoolType, UpdateState
  <2>2. "SIGNING" \in States \ {"ERROR", "FINALIZE"} /\ "FINALIZE" \in States
    BY DEF States
  <2> HIDE DEF p, f, s
  <2> QED BY <1>1, <2>1, <2>2 DEF PoolType
<1>3. FinalTransaction(c) \in SUBSET Clients
  BY DEF FinalTransaction, Entered
<1>4. all \in Seq(Messages) /\ Status(p, 1) \in Messages
  <2>1. /\ Reset(p) \in Messages /\ Reset(f) \in Messages /\ Reset(s) \in Messages
        /\ Dsf(s, FinalTransaction(c)) \in Messages /\ Status(p, 1) \in Messages
    BY <1>1, <1>2, <1>3, MessageTypes DEF PoolType
  <2> QED BY <2>1
<1>5. /\ pool' = IF final THEN s ELSE p
      /\ toClient' = [Told(all) EXCEPT ![c] = toClient[c] \o <<Status(p, 1)>> \o all]
  BY DEF Dsi
<1> HIDE DEF p, f, s, final, all
<1>6. toClient' \in [Clients -> Seq(Messages)]
  <2>1. toClient[c] \o <<Status(p, 1)>> \o all \in Seq(Messages)
    BY <1>4, Types
  <2> QED BY <1>4, <1>5, <2>1, ToldType
<1>7. toPool' \in [Clients -> Seq({"dsa", "dsi", "dss"})]
  BY TakenType DEF Dsi
<1>8. pool' \in PoolType
  BY <1>1, <1>2, <1>5
<1> QED BY <1>6, <1>7, <1>8 DEF TypeOK, PoolType, Dsi, threads, history

\* A refused "dsi" keeps the types.
LEMMA DsiRefusedType ==
  ASSUME TypeOK, NEW c \in Clients, DsiRefused(c)
  PROVE  TypeOK'
<1> USE Bounds
<1>1. pool' \in PoolType
  <2>1. CASE pool' = [pool EXCEPT !.users = @ - 1] /\ IsSessionReady
    <3>1. pool.users - 1 \in 0..PoolMax
      <4>1. pool.users \in 0..PoolMax
        BY Types
      <4>2. pool.users > 0
        BY <2>1, <4>1 DEF IsSessionReady
      <4> QED BY <4>1, <4>2
    <3> QED BY <2>1, <3>1, Types, PoolUpdates
  <2> QED BY <2>1, Types DEF DsiRefused
<1>2. Status(pool', 0) \in Messages
  BY <1>1, MessageTypes DEF PoolType
<1>3. toClient' \in [Clients -> Seq(Messages)]
  BY <1>2, Types DEF DsiRefused
<1>4. toPool' \in [Clients -> Seq({"dsa", "dsi", "dss"})]
  BY TakenType DEF DsiRefused
<1>5. faults' \in 0..MaxFaults
  BY FaultType DEF DsiRefused
<1> QED BY <1>1, <1>3, <1>4, <1>5 DEF TypeOK, PoolType, DsiRefused, threads

\* "dss" keeps the types.
LEMMA DssType ==
  ASSUME TypeOK, NEW c \in Clients, Dss(c)
  PROVE  TypeOK'
<1> USE Bounds
<1> DEFINE p == [pool EXCEPT !.signed = @ \cup {c}]
           failure == UpdateState(EmptyPool, "ACCEPTING")
<1>1. p \in PoolType
  BY Types, PoolUpdates
<1>2. failure \in PoolType
  BY EmptyPoolType, PoolUpdates DEF States
<1>3. /\ Reset(p) \in Messages /\ Dsc(p) \in Messages /\ Reset(EmptyPool) \in Messages
      /\ Dsc(failure) \in Messages /\ Reset(failure) \in Messages
  BY <1>1, <1>2, EmptyPoolType, MessageTypes DEF PoolType
<1>4. /\ pool' \in {pool, p, EmptyPool, failure}
      /\ \/ toClient' = toClient
         \/ \E all \in Seq(Messages) : toClient' = Told(all)
      /\ Fault \/ NoFault
  <2>1. CASE pool.entries[c] = None \/ c \in pool.signed
    BY <2>1 DEF Dss, NoFault
  <2>2. CASE ~(pool.entries[c] = None \/ c \in pool.signed)
                /\ p.state = "SIGNING" /\ Entered \subseteq p.signed
    <3>1. CASE pool' = EmptyPool /\ NoFault
                  /\ toClient' = Told(<<Reset(p), Dsc(p), Reset(pool'), Reset(pool')>>)
      <4>1. <<Reset(p), Dsc(p), Reset(pool'), Reset(pool')>> \in Seq(Messages)
        BY <1>3, <3>1
      <4> QED BY <3>1, <4>1
    <3>2. CASE pool' = failure /\ Fault
                  /\ toClient' = Told(<<Reset(p), Reset(EmptyPool), Dsc(failure), Reset(failure)>>)
      <4>1. <<Reset(p), Reset(EmptyPool), Dsc(failure), Reset(failure)>> \in Seq(Messages)
        BY <1>3
      <4> QED BY <3>2, <4>1
    <3> QED BY <2>2, <3>1, <3>2 DEF Dss
  <2>3. CASE ~(pool.entries[c] = None \/ c \in pool.signed)
                /\ ~(p.state = "SIGNING" /\ Entered \subseteq p.signed)
    <3>1. pool' = p /\ toClient' = Told(<<Reset(p)>>) /\ NoFault
      BY <2>3 DEF Dss
    <3>2. <<Reset(p)>> \in Seq(Messages)
      BY <1>3
    <3> QED BY <3>1, <3>2
  <2> QED BY <2>1, <2>2, <2>3
<1> HIDE DEF p, failure
<1>5. toClient' \in [Clients -> Seq(Messages)]
  BY <1>4, ToldType, Types
<1>6. pool' \in PoolType
  BY <1>1, <1>2, <1>4, Types, EmptyPoolType
<1>7. toPool' \in [Clients -> Seq({"dsa", "dsi", "dss"})]
  BY TakenType DEF Dss
<1> QED BY <1>4, <1>5, <1>6, <1>7, FaultType DEF TypeOK, PoolType, Dss, threads

\* CheckTimeout of the alphanode keeps the types.
LEMMA PoolTimeoutType == TypeOK /\ PoolTimeout => TypeOK'
<1> SUFFICES ASSUME TypeOK, PoolTimeout PROVE TypeOK'
  OBVIOUS
<1> USE Bounds
<1>1. CASE pool.state \in Waiting
  <2> DEFINE kept == [c \in Clients |-> IF Expired(pool.entries[c]) THEN None
                                        ELSE pool.entries[c]]
             erased == Cardinality({c \in Entered : kept[c] = None})
             p == IF kept = EmptyPool.entries /\ Entered # {} THEN EmptyPool
                  ELSE [pool EXCEPT !.entries = kept]
  <2>1. kept \in [Clients -> Ages \cup {None}]
    BY Types
  <2>2. erased \in Nat
    <3>1. {c \in Entered : kept[c] = None} \subseteq Clients
      BY DEF Entered
    <3> QED BY <3>1, FS_Subset, FS_CardinalityType
  <2>3. [pool EXCEPT !.entries = kept] \in PoolType
    BY <2>1, Types DEF PoolType
  <2> HIDE DEF kept
  <2>4. p \in PoolType
    BY <2>3, EmptyPoolType
  <2> HIDE DEF p, erased
  <2>5. [i \in 1..erased |-> Reset(IF i < erased THEN pool ELSE p)] \in Seq(Messages)
    <3>1. Reset(pool) \in Messages /\ Reset(p) \in Messages
      BY <2>4, MessageTypes, Types DEF PoolType
    <3>2. \A i \in 1..erased : Reset(IF i < erased THEN pool ELSE p) \in Messages
      BY <3>1
    <3> QED BY <2>2, <3>2
  <2>6. /\ pool' = IF p.age >= QueueTimeout THEN EmptyPool ELSE p
        /\ toClient' = Told([i \in 1..erased |-> Reset(IF i < erased THEN pool ELSE p)])
        /\ UNCHANGED charged
    BY <1>1 DEF PoolTimeout, Waiting, p, kept, erased
  <2>7. toClient' \in [Clients -> Seq(Messages)]
    BY <2>5, <2>6, ToldType
  <2>8. pool' \in PoolType
    BY <2>4, <2>6, EmptyPoolType
  <2> QED BY <2>6, <2>7, <2>8 DEF TypeOK, PoolType, PoolTimeout, threads
<1>2. CASE pool.state = "SIGNING"
  <2>1. ChargeFees /\ pool' = EmptyPool /\ UNCHANGED toClient
    BY <1>2 DEF PoolTimeout, Waiting
  <2>2. charged' \subseteq Clients
    BY <2>1 DEF ChargeFees, Offenders, Entered, TypeOK
  <2>3. pool' \in PoolType
    BY <2>1, EmptyPoolType
  <2>4. UNCHANGED <<client, threads, toPool, started, starts, faults, sessions, failed, overtaken>>
    BY DEF PoolTimeout
  <2> QED BY <2>1, <2>2, <2>3, <2>4 DEF TypeOK, PoolType, threads
<1> QED BY <1>1, <1>2 DEF PoolTimeout

\* Start keeps the types.
LEMMA StartType ==
  ASSUME TypeOK, NEW c \in Clients, Start(c)
  PROVE  TypeOK'
<1> USE Bounds
<1>1. UpdateState(SetNull(UnlockCoins(client[c])), "ACCEPTING") \in ClientType
  BY ClientOps, ClientUpdateState, Types DEF States
<1>2. [UpdateState(SetNull(UnlockCoins(client[c])), "ACCEPTING") EXCEPT !.submitted = TRUE]
         \in ClientType
  BY <1>1 DEF ClientType
<1>3. client' \in [Clients -> ClientType]
  BY <1>2, Types DEF Start
<1>4. toPool' \in [Clients -> Seq({"dsa", "dsi", "dss"})]
  BY Types DEF Start
<1>5. /\ asked' = asked \cup {c} /\ starts < MaxStarts /\ starts' = starts + 1
      /\ started' = started \cup {c}
      /\ UNCHANGED <<pool, submit, reset, toClient, faults, sessions, failed, overtaken, charged>>
  BY DEF Start
<1>6. starts' \in 0..MaxStarts
  BY <1>5 DEF TypeOK
<1> QED BY <1>3, <1>4, <1>5, <1>6 DEF TypeOK, ClientType

\* "dssu" keeps the types.
LEMMA StatusUpdateType ==
  ASSUME TypeOK, NEW c \in Clients, StatusUpdate(c)
  PROVE  TypeOK'
<1>1. Arrived(c, "dssu") /\ Ignored(c) /\ UNCHANGED <<pool, threads, toPool, history>>
  BY DEF StatusUpdate
<1>2. Message(c) \in Messages /\ Message(c).type = "dssu"
  BY <1>1, HeadType
<1>3. Message(c).state \in States /\ Message(c).accepted \in {None, 0, 1}
  BY <1>2 DEF Messages, Ready
<1> DEFINE p == client[c]
           m == Message(c)
           q == IF ~p.submitted \/ p.state = "ERROR" THEN p
                ELSE CASE m.accepted = None ->
                            IF m.session = p.session THEN UpdateState(p, m.state) ELSE p
                       [] m.accepted = 1 -> Accepted(p, m)
                       [] m.accepted = 0 -> Rejected(p, m)
<1>4. q \in ClientType
  <2>1. /\ p \in ClientType /\ UpdateState(p, m.state) \in ClientType
        /\ Accepted(p, m) \in ClientType /\ Rejected(p, m) \in ClientType
    BY <1>2, <1>3, Types, ClientOps, ClientUpdateState
  <2> HIDE DEF m, p
  <2> QED BY <1>3, <2>1, Bounds DEF m
<1>5. client' = [client EXCEPT ![c] = q]
  BY DEF StatusUpdate
<1> HIDE DEF q
<1>6. client' \in [Clients -> ClientType]
  <2>1. client \in [Clients -> ClientType]
    BY Types
  <2> QED BY <1>4, <1>5, <2>1
<1>7. toClient' \in [Clients -> Seq(Messages)]
  BY <1>1, HeadType DEF Ignored
<1> QED BY <1>1, <1>6, <1>7 DEF TypeOK, ClientType, threads, history

\* "dsq" keeps the types, answered or not.
LEMMA ReadyType ==
  ASSUME TypeOK, NEW c \in Clients, Prepare(c) \/ DropReady(c)
  PROVE  TypeOK'
<1>1. toClient' \in [Clients -> Seq(Messages)]
  BY HeadType DEF Prepare, DropReady, Ignored
<1>2. CASE Prepare(c)
  <2>1. client' \in [Clients -> ClientType]
    <3> DEFINE p == [client[c] EXCEPT !.locked = TRUE]
    <3>1. p \in ClientType
      BY Types DEF ClientType
    <3>2. client' = [client EXCEPT ![c] = p]
      BY <1>2 DEF Prepare
    <3> HIDE DEF p
    <3> QED BY <3>1, <3>2, Types
  <2> QED BY <1>1, <1>2, <2>1 DEF Prepare, TypeOK, ClientType, history
<1>3. CASE DropReady(c)
  <2>1. Fault \/ NoFault
    BY <1>3 DEF DropReady
  <2> QED BY <1>1, <1>3, <2>1, FaultType DEF DropReady, TypeOK, threads
<1> QED BY <1>2, <1>3

\* Listing the coins keeps the types.
LEMMA ListCoinsType ==
  ASSUME TypeOK, NEW c \in Clients, ListCoins(c)
  PROVE  TypeOK'
<1> DEFINE p == [client[c] EXCEPT !.listed = TRUE]
<1>1. p \in ClientType
  BY Types DEF ClientType
<1>2. SetNull(UnlockCoins(p)) \in ClientType
  BY <1>1, ClientOps
<1>3. /\ client' \in [Clients -> ClientType]
      /\ submit' \in [Clients -> {"none", "locked", "listed"}]
      /\ UNCHANGED <<pool, reset, asked, links, history>>
  <2>1. submit \in [Clients -> {"none", "locked", "listed"}]
    BY DEF TypeOK
  <2>2. /\ \/ client' = [client EXCEPT ![c] = p]
           \/ client' = [client EXCEPT ![c] = SetNull(UnlockCoins(p))]
        /\ \/ submit' = [submit EXCEPT ![c] = "listed"]
           \/ submit' = [submit EXCEPT ![c] = "none"]
        /\ UNCHANGED <<pool, reset, asked, links, history>>
    BY DEF ListCoins
  <2> HIDE DEF p
  <2> QED BY <1>1, <1>2, <2>1, <2>2, Types
<1> QED BY <1>3 DEF TypeOK, ClientType, links, history

\* Sending the entry keeps the types.
LEMMA SendType ==
  ASSUME TypeOK, NEW c \in Clients, SendDarksendDenominate(c)
  PROVE  TypeOK'
<1> DEFINE p == UpdateState(client[c], "ACCEPTING")
<1>1. p \in ClientType
  BY Types, ClientUpdateState DEF States
<1>2. SetNull(UnlockCoins(p)) \in ClientType /\ [p EXCEPT !.entry = 0] \in ClientType
  <2>1. [p EXCEPT !.entry = 0] \in ClientType
    BY <1>1, Bounds DEF ClientType
  <2> QED BY <1>1, <2>1, ClientOps
<1>3. /\ client' \in [Clients -> ClientType]
      /\ toPool' \in [Clients -> Seq({"dsa", "dsi", "dss"})]
      /\ submit' = [submit EXCEPT ![c] = "none"]
      /\ Fault \/ NoFault
      /\ UNCHANGED <<pool, reset, asked, toClient, started, starts, sessions, failed, overtaken,
                     charged>>
  <2>1. /\ \/ /\ client' = [client EXCEPT ![c] = [p EXCEPT !.entry = 0]]
              /\ toPool' = [toPool EXCEPT ![c] = Append(@, "dsi")]
              /\ NoFault
           \/ /\ client' = [client EXCEPT ![c] = SetNull(UnlockCoins(p))]
              /\ toPool' = toPool
              /\ Fault
        /\ submit' = [submit EXCEPT ![c] = "none"]
        /\ UNCHANGED <<pool, reset, asked, toClient, started, starts, sessions, failed, overtaken,
                     charged>>
    BY DEF SendDarksendDenominate
  <2> HIDE DEF p
  <2>2. [toPool EXCEPT ![c] = Append(@, "dsi")] \in [Clients -> Seq({"dsa", "dsi", "dss"})]
    BY Types
  <2>3. client' \in [Clients -> ClientType]
    BY <1>2, <2>1, Types
  <2> QED BY <2>1, <2>2, <2>3, Types
<1> HIDE DEF p
<1>4. faults' \in 0..MaxFaults
  BY <1>3, FaultType
<1> QED BY <1>3, <1>4 DEF TypeOK, ClientType

\* "dsf" keeps the types.
LEMMA SignType ==
  ASSUME TypeOK, NEW c \in Clients, SignFinalTransaction(c)
  PROVE  TypeOK'
<1>1. toClient' \in [Clients -> Seq(Messages)]
  BY HeadType DEF SignFinalTransaction, Ignored
<1>2. /\ \/ toPool' = toPool
         \/ toPool' = [toPool EXCEPT ![c] = Append(@, "dss")]
      /\ failed' \in {failed, failed \cup {c}}
      /\ Fault \/ NoFault
      /\ UNCHANGED <<pool, client, threads, started, starts, sessions, overtaken, charged>>
  BY DEF SignFinalTransaction
<1>3. toPool' \in [Clients -> Seq({"dsa", "dsi", "dss"})]
  <2>1. [toPool EXCEPT ![c] = Append(@, "dss")] \in [Clients -> Seq({"dsa", "dsi", "dss"})]
    BY Types
  <2> QED BY <1>2, <2>1, Types
<1>4. faults' \in 0..MaxFaults
  BY <1>2, FaultType
<1> QED BY <1>1, <1>2, <1>3, <1>4 DEF TypeOK, threads

\* "dsc" keeps the types.
LEMMA CompletedType ==
  ASSUME TypeOK, NEW c \in Clients, CompletedTransaction(c)
  PROVE  TypeOK'
<1>1. toClient' \in [Clients -> Seq(Messages)]
  BY HeadType DEF CompletedTransaction, Ignored
<1>2. SetNull(UnlockCoins(client[c])) \in ClientType /\ client[c] \in ClientType
  BY Types, ClientOps
<1>3. client' \in [Clients -> ClientType]
  BY <1>2, Types DEF CompletedTransaction
<1> QED BY <1>1, <1>3 DEF TypeOK, ClientType, CompletedTransaction, threads, history

\* CheckTimeout of a client keeps the types.
LEMMA TimeoutType ==
  ASSUME TypeOK, NEW c \in Clients, TimeoutUnlock(c) \/ TimeoutNull(c)
  PROVE  TypeOK'
<1>1. CASE TimeoutUnlock(c)
  <2>1. client' \in [Clients -> ClientType]
    BY <1>1, Types, ClientOps DEF TimeoutUnlock
  <2>2. reset' \in [Clients -> {"none", "IDLE", "ERROR"}]
    BY <1>1 DEF TimeoutUnlock, Due, TypeOK
  <2> QED BY <1>1, <2>1, <2>2 DEF TypeOK, ClientType, TimeoutUnlock, links, history
<1>2. CASE TimeoutNull(c)
  <2>1. reset[c] \in States
    BY <1>2 DEF TimeoutNull, TypeOK, States
  <2>2. client' \in [Clients -> ClientType]
    BY <1>2, <2>1, Types, ClientOps DEF TimeoutNull
  <2> QED BY <1>2, <2>2 DEF TypeOK, ClientType, TimeoutNull, links, history
<1> QED BY <1>1, <1>2

\* A restart keeps the types.
LEMMA RestartType ==
  ASSUME TypeOK, NEW c \in Clients, Restart(c)
  PROVE  TypeOK'
<1>1. NewClient \in ClientType
  BY Bounds DEF NewClient, ClientType, States
<1>2. client' \in [Clients -> ClientType]
  BY <1>1, Types DEF Restart
<1>3. /\ toPool' \in [Clients -> Seq({"dsa", "dsi", "dss"})]
      /\ toClient' \in [Clients -> Seq(Messages)]
  BY Types DEF Restart
<1>4. faults' \in 0..MaxFaults
  BY FaultType DEF Restart
<1> QED BY <1>2, <1>3, <1>4 DEF TypeOK, ClientType, Restart

\* Ages are saturated.
LEMMA OlderType == \A age \in Ages \cup {None} :
   /\ Older(age) \in Ages \cup {None}
   /\ age \in Ages => Older(age) \in Ages
BY Bounds DEF Older, Ages

\* Tick keeps the types.
LEMMA TickType == TypeOK /\ Tick => TypeOK'
<1> SUFFICES ASSUME TypeOK, Tick PROVE TypeOK'
  OBVIOUS
<1>1. pool' \in PoolType
  <2> DEFINE a == IF pool.state = "IDLE" THEN 0 ELSE Older(pool.age)
             e == [c \in Clients |-> Older(pool.entries[c])]
  <2>1. a \in Ages /\ e \in [Clients -> Ages \cup {None}]
    BY Types, OlderType, Bounds
  <2>2. pool' = [pool EXCEPT !.age = a, !.entries = e]
    BY DEF Tick
  <2> HIDE DEF a, e
  <2> QED BY <2>1, <2>2, Types DEF PoolType
<1>2. client' \in [Clients -> ClientType]
  <2>1. ASSUME NEW c \in Clients
        PROVE  [client[c] EXCEPT !.age = Older(@), !.entry = Older(@)] \in ClientType
    <3>1. Older(client[c].age) \in Ages /\ Older(client[c].entry) \in Ages \cup {None}
      BY Types, OlderType DEF ClientType
    <3> QED BY <3>1, Types DEF ClientType
  <2> QED BY <2>1 DEF Tick
<1>3. asked' = {} /\ UNCHANGED <<submit, reset, links, history>>
  BY DEF Tick
<1> QED BY <1>1, <1>2, <1>3 DEF TypeOK, PoolType, ClientType, links, history

-----------------------------------------------------------------------------
(* Sequences, as what is in them and in which order *)

Before(q, m, n) == \E i, j \in 1..Len(q) : i < j /\ q[i] = m /\ q[j] = n

\* The elements, the last one and the order in the tail of a sequence.
LEMMA OfTail ==
  ASSUME NEW S, NEW q \in Seq(S), q # <<>>
  PROVE  /\ Head(q) \in ToSet(q) /\ ToSet(q) = {Head(q)} \cup ToSet(Tail(q))
         /\ \A m, n : Before(Tail(q), m, n) => Before(q, m, n)
         /\ \A n \in ToSet(Tail(q)) : Before(q, Head(q), n)
         /\ Tail(q) # <<>> => Last(Tail(q)) = Last(q)
         /\ Tail(q) = <<>> => Head(q) = Last(q)
<1> DEFINE t == Tail(q)
<1>1. /\ t \in Seq(S) /\ Len(t) = Len(q) - 1 /\ Len(q) \in Nat \ {0}
      /\ \A i \in 1..Len(t) : t[i] = q[i + 1]
      /\ Head(q) = q[1] /\ DOMAIN q = 1..Len(q) /\ DOMAIN t = 1..Len(t)
  OBVIOUS
<1> HIDE DEF t
<1>0. Len(t) = Len(q) - 1 /\ Len(q) \in Nat /\ Len(q) > 0
  BY <1>1
<1>2. \A i \in 1..Len(q) : i = 1 \/ (i - 1 \in 1..Len(t) /\ t[i - 1] = q[i])
  BY <1>1
<1>3. Head(q) \in ToSet(q) /\ ToSet(q) = {Head(q)} \cup ToSet(t)
  <2>1. ToSet(q) = {q[i] : i \in 1..Len(q)} /\ ToSet(t) = {t[i] : i \in 1..Len(t)}
    BY <1>1 DEF ToSet
  <2>2. 1 \in 1..Len(q) /\ \A i \in 1..Len(t) : i + 1 \in 1..Len(q)
    BY <1>0
  <2>3. Head(q) \in ToSet(q)
    BY <1>1, <2>1, <2>2
  <2>4. \A x \in ToSet(q) : x = Head(q) \/ x \in ToSet(t)
    BY <1>1, <1>2, <2>1
  <2>5. \A x \in ToSet(t) : x \in ToSet(q)
    BY <1>1, <2>1, <2>2
  <2> QED BY <2>3, <2>4, <2>5
<1>4. ASSUME NEW m, NEW n, Before(t, m, n)
      PROVE  Before(q, m, n)
  <2>1. PICK i, j \in 1..Len(t) : i < j /\ t[i] = m /\ t[j] = n
    BY <1>4 DEF Before
  <2>2. i + 1 \in 1..Len(q) /\ j + 1 \in 1..Len(q) /\ i + 1 < j + 1
    BY <1>0, <2>1
  <2> QED BY <1>1, <2>1, <2>2 DEF Before
<1>5. ASSUME NEW n \in ToSet(t)
      PROVE  Before(q, Head(q), n)
  <2>1. PICK j \in 1..Len(t) : t[j] = n
    BY <1>1 DEF ToSet
  <2>2. 1 \in 1..Len(q) /\ j + 1 \in 1..Len(q) /\ 1 < j + 1
    BY <1>0
  <2> QED BY <1>1, <2>1, <2>2 DEF Before
<1>6. t # <<>> => Last(t) = Last(q)
  BY <1>1 DEF Last
<1>7. t = <<>> => Head(q) = Last(q)
  BY <1>1 DEF Last
<1> QED BY <1>3, <1>4, <1>5, <1>6, <1>7 DEF t

\* The elements, the last one and the order in a concatenation.
LEMMA OfConcat ==
  ASSUME NEW S, NEW q \in Seq(S), NEW s \in Seq(S)
  PROVE  /\ q \o s \in Seq(S)
         /\ ToSet(q \o s) = ToSet(q) \cup ToSet(s)
         /\ \A m, n : Before(q \o s, m, n) =>
               \/ Before(q, m, n) \/ Before(s, m, n)
               \/ m \in ToSet(q) /\ n \in ToSet(s)
         /\ s # <<>> => q \o s # <<>> /\ Last(q \o s) = Last(s)
<1> DEFINE t == q \o s
<1>1. /\ t \in Seq(S) /\ Len(t) = Len(q) + Len(s) /\ Len(q) \in Nat /\ Len(s) \in Nat
      /\ \A i \in 1..Len(q) : t[i] = q[i]
      /\ \A i \in 1..Len(s) : t[Len(q) + i] = s[i]
      /\ DOMAIN q = 1..Len(q) /\ DOMAIN t = 1..Len(t) /\ DOMAIN s = 1..Len(s)
      /\ s # <<>> => Len(s) > 0
  OBVIOUS
<1> HIDE DEF t
<1>0. Len(q) \in Nat /\ Len(s) \in Nat /\ Len(t) = Len(q) + Len(s)
  BY <1>1
<1>2. \A i \in 1..Len(t) : i \in 1..Len(q) \/ i - Len(q) \in 1..Len(s)
  BY <1>1
<1>3. \A i \in 1..Len(t) : \/ i \in 1..Len(q) /\ t[i] = q[i]
                           \/ i - Len(q) \in 1..Len(s) /\ t[i] = s[i - Len(q)]
  BY <1>1
<1>4. ToSet(t) = ToSet(q) \cup ToSet(s)
  <2>1. \A i \in 1..Len(q) : i \in 1..Len(t)
    BY <1>1
  <2>2. \A i \in 1..Len(s) : Len(q) + i \in 1..Len(t)
    BY <1>1
  <2>3. /\ ToSet(q) = {q[i] : i \in 1..Len(q)} /\ ToSet(s) = {s[i] : i \in 1..Len(s)}
        /\ ToSet(t) = {t[i] : i \in 1..Len(t)}
    BY <1>1 DEF ToSet
  <2>4. \A x \in ToSet(t) : x \in ToSet(q) \/ x \in ToSet(s)
    BY <1>3, <2>3
  <2>5. \A x \in ToSet(q) : x \in ToSet(t)
    BY <1>1, <2>1, <2>3
  <2>6. \A x \in ToSet(s) : x \in ToSet(t)
    BY <1>1, <2>2, <2>3
  <2> QED BY <2>4, <2>5, <2>6
<1>5. ASSUME NEW m, NEW n, Before(t, m, n)
      PROVE  \/ Before(q, m, n) \/ Before(s, m, n)
             \/ m \in ToSet(q) /\ n \in ToSet(s)
  <2>1. PICK i, j \in 1..Len(t) : i < j /\ t[i] = m /\ t[j] = n
    BY <1>5 DEF Before
  <2>2. CASE i \in 1..Len(q) /\ j \in 1..Len(q)
    BY <1>1, <2>1, <2>2 DEF Before
  <2>3. CASE i \in 1..Len(q) /\ j - Len(q) \in 1..Len(s)
    <3>1. t[i] = q[i] /\ t[Len(q) + (j - Len(q))] = s[j - Len(q)]
      BY <1>1, <2>3
    <3>2. Len(q) + (j - Len(q)) = j
      BY <1>0
    <3>3. m = q[i] /\ n = s[j - Len(q)]
      BY <2>1, <3>1, <3>2
    <3>4. DOMAIN q = 1..Len(q) /\ DOMAIN s = 1..Len(s)
      BY <1>1
    <3> QED BY <2>3, <3>3, <3>4 DEF ToSet
  <2>4. CASE i - Len(q) \in 1..Len(s) /\ j - Len(q) \in 1..Len(s)
    <3>1. /\ t[Len(q) + (i - Len(q))] = s[i - Len(q)]
          /\ t[Len(q) + (j - Len(q))] = s[j - Len(q)]
      BY <1>1, <2>4
    <3>2. Len(q) + (i - Len(q)) = i /\ Len(q) + (j - Len(q)) = j /\ i - Len(q) < j - Len(q)
      BY <1>0, <2>1
    <3>3. s[i - Len(q)] = m /\ s[j - Len(q)] = n
      BY <2>1, <3>1, <3>2
    <3> QED BY <2>4, <3>2, <3>3 DEF Before
  <2>5. /\ i \in 1..Len(q) \/ i - Len(q) \in 1..Len(s)
        /\ j \in 1..Len(q) \/ j - Len(q) \in 1..Len(s)
        /\ j \in 1..Len(q) => i \in 1..Len(q)
    BY <1>0, <1>2, <2>1
  <2> QED BY <2>2, <2>3, <2>4, <2>5
<1>6. s # <<>> => t # <<>> /\ Last(t) = Last(s)
  BY <1>1 DEF Last
<1> QED BY <1>1, <1>4, <1>5, <1>6 DEF t

\* The same of none, one and two elements.
LEMMA OfTuples ==
  /\ ToSet(<<>>) = {}
  /\ \A m, n : ~Before(<<>>, m, n)
  /\ \A a : /\ ToSet(<<a>>) = {a} /\ Last(<<a>>) = a
            /\ \A m, n : ~Before(<<a>>, m, n)
  /\ \A a, b : /\ ToSet(<<a, b>>) = {a, b} /\ Last(<<a, b>>) = b
               /\ \A m, n : Before(<<a, b>>, m, n) => m = a /\ n = b
<1>1. /\ ToSet(<<>>) = {}
      /\ \A m, n : ~Before(<<>>, m, n)
  BY DEF ToSet, Before
<1>2. ASSUME NEW a
      PROVE  /\ ToSet(<<a>>) = {a} /\ Last(<<a>>) = a
             /\ \A m, n : ~Before(<<a>>, m, n)
  <2>1. Len(<<a>>) = 1 /\ <<a>>[1] = a /\ DOMAIN <<a>> = 1..1
    OBVIOUS
  <2>2. \A i, j \in 1..1 : ~(i < j)
    OBVIOUS
  <2>3. 1..1 = {1}
    OBVIOUS
  <2> QED BY <2>1, <2>2, <2>3 DEF ToSet, Last, Before
<1>3. ASSUME NEW a, NEW b
      PROVE  /\ ToSet(<<a, b>>) = {a, b} /\ Last(<<a, b>>) = b
             /\ \A m, n : Before(<<a, b>>, m, n) => m = a /\ n = b
  <2>1. Len(<<a, b>>) = 2 /\ <<a, b>>[1] = a /\ <<a, b>>[2] = b /\ DOMAIN <<a, b>> = 1..2
    OBVIOUS
  <2>2. \A i, j \in 1..2 : i < j => i = 1 /\ j = 2
    OBVIOUS
  <2>3. 1..2 = {1, 2}
    OBVIOUS
  <2> QED BY <2>1, <2>2, <2>3 DEF ToSet, Last, Before
<1> QED BY <1>1, <1>2, <1>3

\* The same when one element is appended.
LEMMA OfAppend ==
  ASSUME NEW S, NEW q \in Seq(S), NEW a \in S
  PROVE  /\ Append(q, a) \in Seq(S)
         /\ ToSet(Append(q, a)) = ToSet(q) \cup {a}
         /\ \A m, n : Before(Append(q, a), m, n) => Before(q, m, n) \/ (m \in ToSet(q) /\ n = a)
         /\ Append(q, a) # <<>> /\ Last(Append(q, a)) = a
<1>1. Append(q, a) = q \o <<a>> /\ <<a>> \in Seq(S) /\ <<a>> # <<>>
  BY AppendIsConcat
<1> HIDE DEF ToSet, Before, Last
<1>2. ToSet(<<a>>) = {a} /\ Last(<<a>>) = a /\ \A m, n : ~Before(<<a>>, m, n)
  BY OfTuples
<1> DEFINE t == <<a>>
<1> HIDE DEF t
<1>3. /\ q \o t \in Seq(S) /\ ToSet(q \o t) = ToSet(q) \cup ToSet(t)
      /\ \A m, n : Before(q \o t, m, n) =>
               \/ Before(q, m, n) \/ Before(t, m, n)
               \/ m \in ToSet(q) /\ n \in ToSet(t)
      /\ q \o t # <<>> /\ Last(q \o t) = Last(t)
  BY <1>1, OfConcat DEF t
<1> QED BY <1>1, <1>2, <1>3 DEF t

-----------------------------------------------------------------------------
(* The invariant *)

\* A client whose alphanode hears of what it does in time.
Good(c) == c \notin failed \cup overtaken
\* Its entry counts: it waits in the pool, not expired, or is to be signed.
Committed(c) ==
    pool.entries[c] # None /\ (pool.state = "SIGNING" \/ pool.entries[c] < QueueTimeout)
\* Who does not listen to what the alphanode says of its state.
Deaf(p) == ~p.submitted \/ p.state = "ERROR"

Answer(m) == m.type = "dssu" /\ m.accepted # None
Yes(m) == m.type = "dssu" /\ m.accepted = 1
Mine(c, m) == m.type = "dsf" /\ c \in m.txs

Idle == {"IDLE", "ACCEPTING"}

\* The pool by itself: free, or in a session.
PoolInv ==
    /\ pool.users = 0 => /\ pool.session = 0 /\ pool.state \in Idle
                         /\ pool.signed = {} /\ \A c \in Clients : pool.entries[c] = None
    /\ pool.users # 0 => pool.session # 0 /\ pool.state # "IDLE"
    /\ pool.state = "SIGNING" => Cardinality(Entered) >= PoolMax /\ pool.age <= SigningTimeout

\* Session zero is never one that is ready, and nobody is accepted in it.
WireInv(c) ==
    \A m \in ToSet(toClient[c]) :
        m.type = "dssu" /\ m.session = 0 => m.state \in Idle /\ m.accepted # 1

\* One thread at a time, and what a client in session zero cannot be.
ThreadInv(c) ==
    /\ submit[c] = "none" \/ reset[c] = "none"
    /\ client[c].session = 0 => client[c].state # "QUEUE" /\ client[c].entry = None
    /\ submit[c] # "none" => client[c].state = "QUEUE" /\ client[c].entry = None

\* Clients answer a "dsq" in the tick in which the pool begins to take entries.
AnsweringInv(c) ==
    /\ Good(c) /\ Answering(c) /\ pool.users # 0
         => pool.state \in {"ACCEPTING", "SIGNING"} /\ pool.age = 0
    /\ Answering(c) /\ pool.state = "ACCEPTING"
         => \A d \in Clients : Good(d) => pool.entries[d] \in {None, 0}

\* Entries are held while they are taken or signed, and are all of one age then.
EntryInv(c) == Good(c) =>
    /\ pool.entries[c] # None => pool.state \in {"ACCEPTING", "SIGNING"}
    /\ pool.entries[c] # None /\ pool.state = "SIGNING" => pool.entries[c] = pool.age
    /\ c \in pool.signed => pool.state = "SIGNING" /\ pool.entries[c] # None

\* What a client may have on its way to the alphanode.
RequestInv(c) == Good(c) =>
    /\ toPool[c] \in {<<>>, <<"dsa">>, <<"dsi">>, <<"dsi", "dsa">>, <<"dss">>}
    /\ Contains(toPool[c], "dsa") =>
          c \in asked /\ client[c].entry = None /\ submit[c] = "none"
    /\ Contains(toPool[c], "dsi") =>
          /\ submit[c] = "none"
          /\ \A m \in ToSet(toClient[c]) : ~Answer(m)
          /\ client[c].entry = None => pool.users = 0
          /\ client[c].entry # None =>
               /\ client[c].entry = 0 /\ client[c].age = 0
               /\ client[c].submitted /\ client[c].locked /\ reset[c] = "none"
               /\ pool.users # 0 /\ pool.state = "ACCEPTING" => client[c].state = "ACCEPTING"

\* What comes after a "dsq" while its session lasts.
AfterReady(m) ==
    /\ m.type # "dsc"
    /\ pool.state = "ACCEPTING" => m = Reset(pool) \/ Answer(m)
SuffixInv(c) == Good(c) /\ pool.users # 0 =>
    /\ \A m \in ToSet(toClient[c]) : Before(toClient[c], Ready, m) => AfterReady(m)
    /\ submit[c] # "none" \/ Contains(toPool[c], "dsi")
         => \A m \in ToSet(toClient[c]) : AfterReady(m)

Outstanding(c) == toPool[c] # <<>> \/ \E m \in ToSet(toClient[c]) : Answer(m)
\* A client whose entry does not count has nothing to sign.
UncommittedInv(c) == Good(c) /\ ~Committed(c) =>
    /\ toPool[c] # <<"dss">>
    /\ \A m \in ToSet(toClient[c]) : ~Mine(c, m)
    /\ Outstanding(c) =>
          /\ submit[c] = "none"
          /\ client[c].entry # None \/ client[c].session = 0 \/ Deaf(client[c])
    /\ submit[c] # "none" => client[c].submitted /\ client[c].locked
    /\ \A m \in ToSet(toClient[c]) : Yes(m) =>
          /\ toPool[c] = <<>> /\ c \in asked
          /\ \A n \in ToSet(toClient[c]) : Before(toClient[c], m, n) => ~Answer(n)

\* What the alphanode may have sent to a client whose entry counts.
Expected(m) ==
    \/ /\ m.type = "dssu" /\ m.session = pool.session
       /\ m.accepted = None \/ (m.accepted = 1 /\ m.state = "ACCEPTING")
       /\ m.state \in {"ACCEPTING", "FINALIZE", "SIGNING"}
       /\ pool.state = "ACCEPTING" => m.state = "ACCEPTING"
    \/ m.type = "dsf" /\ m.session = pool.session /\ pool.state = "SIGNING"
\* Both sides have the same entry, and neither has given up.
CommittedInv(c) == Good(c) /\ Committed(c) =>
    /\ client[c].entry = pool.entries[c] /\ client[c].age <= client[c].entry
    /\ client[c].submitted /\ client[c].locked /\ client[c].state # "ERROR"
    /\ submit[c] = "none" /\ reset[c] = "none"
    /\ toPool[c] \in {<<>>, <<"dss">>}
    /\ client[c].session = pool.session \/ \E m \in ToSet(toClient[c]) : Yes(m)
    /\ \A m \in ToSet(toClient[c]) : Expected(m)
    /\ \A m \in ToSet(toClient[c]) : Answer(m) => pool.entries[c] = 0 /\ pool.age = 0
    /\ pool.state = "ACCEPTING" => client[c].state \in Waiting /\ toPool[c] = <<>>

\* Every signature is asked for, on its way or there.
SigningInv(c) == Good(c) /\ pool.state = "SIGNING" /\ pool.entries[c] # None =>
    /\ \A m \in ToSet(toClient[c]) : Mine(c, m) =>
          /\ pool.age = 0 /\ toPool[c] = <<>> /\ c \notin pool.signed
          /\ \A n \in ToSet(toClient[c]) : Before(toClient[c], m, n) => ~Mine(c, n) /\ ~Answer(n)
    /\ toPool[c] = <<"dss">> => pool.age = 0 /\ c \notin pool.signed
    /\ toPool[c] = <<"dss">> \/ c \in pool.signed => \A m \in ToSet(toClient[c]) : ~Answer(m)
    /\ c \notin pool.signed =>
          pool.age = 0 /\ (toPool[c] = <<"dss">> \/ \E m \in ToSet(toClient[c]) : Mine(c, m))
    /\ toClient[c] = <<>> => client[c].state = "SIGNING"
    /\ toClient[c] # <<>> => Last(toClient[c]) = Reset(pool)
    /\ pool.age > 0 =>
          client[c].state = "SIGNING" /\ \A m \in ToSet(toClient[c]) : m = Reset(pool)

ClientInv(c) ==
    /\ WireInv(c) /\ ThreadInv(c) /\ AnsweringInv(c) /\ EntryInv(c) /\ RequestInv(c)
    /\ SuffixInv(c) /\ UncommittedInv(c) /\ CommittedInv(c) /\ SigningInv(c)

IndInv == TypeOK /\ PoolInv /\ \A c \in Clients : ClientInv(c)

-----------------------------------------------------------------------------
(* Steps of one client *)

\* What nobody touches stays as it is.
LEMMA Untouched ==
  ASSUME NEW c \in Clients, ClientInv(c), pool' = pool,
         client'[c] = client[c], submit'[c] = submit[c], reset'[c] = reset[c],
         toPool'[c] = toPool[c], toClient'[c] = toClient[c], c \in asked => c \in asked',
         failed \subseteq failed', overtaken \subseteq overtaken'
  PROVE  ClientInv(c)'
<1>1. Good(c)' => Good(c)
  BY DEF Good
<1>2. /\ Committed(c)' <=> Committed(c)
      /\ Answering(c)' <=> Answering(c)
      /\ Outstanding(c)' <=> Outstanding(c)
  BY DEF Committed, Answering, Outstanding
<1>3. WireInv(c)' /\ ThreadInv(c)'
  BY DEF ClientInv, WireInv, ThreadInv
<1>4. AnsweringInv(c)'
  <2>1. \A d \in Clients : Good(d)' => Good(d)
    BY DEF Good
  <2> QED BY <1>2, <2>1 DEF ClientInv, AnsweringInv
<1>5. EntryInv(c)' /\ RequestInv(c)'
  BY <1>1 DEF ClientInv, EntryInv, RequestInv
<1>6. SuffixInv(c)'
  BY <1>1 DEF ClientInv, SuffixInv, AfterReady
<1>7. UncommittedInv(c)'
  BY <1>1, <1>2 DEF ClientInv, UncommittedInv
<1>8. CommittedInv(c)'
  BY <1>1, <1>2 DEF ClientInv, CommittedInv, Expected
<1>9. SigningInv(c)'
  BY <1>1 DEF ClientInv, SigningInv
<1> QED BY <1>3, <1>4, <1>5, <1>6, <1>7, <1>8, <1>9 DEF ClientInv

\* What UpdateState changes.
LEMMA UpdateStateFields ==
  ASSUME NEW p \in ClientType, NEW s \in States
  PROVE  LET u == UpdateState(p, s)
         IN  /\ u \in ClientType /\ u.state = s
             /\ u.age = (IF p.state = s THEN p.age ELSE 0)
             /\ u.session = p.session /\ u.entry = p.entry /\ u.submitted = p.submitted
             /\ u.locked = p.locked
<1>1. UpdateState(p, s) \in ClientType
  BY ClientUpdateState
<1> QED BY <1>1 DEF UpdateState, ClientType

\* What SetNull changes.
LEMMA SetNullFields ==
  ASSUME NEW p \in ClientType
  PROVE  LET u == SetNull(p)
         IN  /\ u \in ClientType /\ u.state = "IDLE" /\ u.age = 0 /\ u.session = 0 /\ u.entry = None
             /\ u.submitted = p.submitted /\ u.locked = p.locked
<1>1. SetNull(p) \in ClientType
  BY ClientOps
<1> QED BY <1>1 DEF SetNull, ClientType

\* What UnlockCoins changes.
LEMMA UnlockCoinsFields ==
  ASSUME NEW p \in ClientType
  PROVE  LET u == UnlockCoins(p)
         IN  /\ u \in ClientType /\ u.state = p.state /\ u.age = p.age /\ u.session = p.session
             /\ u.entry = p.entry /\ u.submitted = p.submitted
<1>1. UnlockCoins(p) \in ClientType
  BY ClientOps
<1> QED BY <1>1 DEF UnlockCoins, ClientType

\* What is in a sequence with one more element.
LEMMA ContainsAppend ==
  ASSUME NEW S, NEW q \in Seq(S), NEW a \in S
  PROVE  \A x : Contains(Append(q, a), x) <=> Contains(q, x) \/ x = a
<1>1. /\ Len(q) \in Nat /\ Len(Append(q, a)) = Len(q) + 1
      /\ \A i \in 1..Len(q) : Append(q, a)[i] = q[i]
      /\ Append(q, a)[Len(q) + 1] = a
  OBVIOUS
<1>2. \A i \in 1..(Len(q) + 1) : i \in 1..Len(q) \/ i = Len(q) + 1
  BY <1>1
<1>3. Len(q) + 1 \in 1..(Len(q) + 1) /\ \A i \in 1..Len(q) : i \in 1..(Len(q) + 1)
  BY <1>1
<1> QED BY <1>1, <1>2, <1>3 DEF Contains

\* What is in the tail was in the sequence.
LEMMA ContainsTail ==
  ASSUME NEW S, NEW q \in Seq(S), q # <<>>
  PROVE  \A x : Contains(q, x) <=> Contains(Tail(q), x) \/ x = Head(q)
<1>1. /\ Len(q) \in Nat \ {0} /\ Len(Tail(q)) = Len(q) - 1 /\ Head(q) = q[1]
      /\ \A i \in 1..Len(Tail(q)) : Tail(q)[i] = q[i + 1]
  OBVIOUS
<1> DEFINE t == Tail(q)
<1> HIDE DEF t
<1>0. Len(q) \in Nat /\ Len(q) > 0 /\ Len(t) = Len(q) - 1
  BY <1>1 DEF t
<1>2. /\ \A i \in 1..Len(t) : i + 1 \in 1..Len(q)
      /\ 1 \in 1..Len(q)
      /\ \A i \in 1..Len(q) : i = 1 \/ (i - 1 \in 1..Len(t) /\ (i - 1) + 1 = i)
  BY <1>0
<1>3. \A i \in 1..Len(t) : t[i] = q[i + 1]
  BY <1>1 DEF t
<1>4. \A i \in 1..Len(q) : i = 1 \/ (i - 1 \in 1..Len(t) /\ t[i - 1] = q[i])
  BY <1>2, <1>3
<1> QED BY <1>1, <1>2, <1>3, <1>4 DEF Contains, t

\* What a client may have on its way, request by request.
LEMMA Requests ==
  /\ ~Contains(<<>>, "dsa") /\ ~Contains(<<>>, "dsi")
  /\ Contains(<<"dsa">>, "dsa") /\ ~Contains(<<"dsa">>, "dsi")
  /\ ~Contains(<<"dsi">>, "dsa") /\ Contains(<<"dsi">>, "dsi")
  /\ Contains(<<"dsi", "dsa">>, "dsa") /\ Contains(<<"dsi", "dsa">>, "dsi")
  /\ ~Contains(<<"dss">>, "dsa") /\ ~Contains(<<"dss">>, "dsi")
  /\ <<"dsi">> # <<>> /\ <<"dsa">> # <<>> /\ <<"dss">> # <<>> /\ <<"dsi", "dsa">> # <<>>
  /\ <<"dsi">> # <<"dss">> /\ <<"dsa">> # <<"dss">> /\ <<"dsi", "dsa">> # <<"dss">>
  /\ Append(<<>>, "dsa") = <<"dsa">> /\ Append(<<>>, "dsi") = <<"dsi">>
  /\ Append(<<>>, "dss") = <<"dss">> /\ Append(<<"dsi">>, "dsa") = <<"dsi", "dsa">>
  /\ Tail(<<"dsa">>) = <<>> /\ Tail(<<"dsi">>) = <<>> /\ Tail(<<"dss">>) = <<>>
  /\ Tail(<<"dsi", "dsa">>) = <<"dsa">>
  /\ Head(<<"dsa">>) = "dsa" /\ Head(<<"dsi">>) = "dsi" /\ Head(<<"dss">>) = "dss"
  /\ Head(<<"dsi", "dsa">>) = "dsi"
<1>1. ~Contains(<<>>, "dsa") /\ ~Contains(<<>>, "dsi")
  BY DEF Contains
<1>2. 1..1 = {1} /\ 1..2 = {1, 2}
  OBVIOUS
<1>3. \A x, y : Contains(<<x>>, y) <=> x = y
  BY <1>2 DEF Contains
<1>4. \A x, y, z : Contains(<<x, y>>, z) <=> x = z \/ y = z
  BY <1>2 DEF Contains
<1>5. /\ <<"dsi">> # <<>> /\ <<"dsa">> # <<>> /\ <<"dss">> # <<>> /\ <<"dsi", "dsa">> # <<>>
      /\ <<"dsi">> # <<"dss">> /\ <<"dsa">> # <<"dss">>
  OBVIOUS
<1>6. <<"dsi", "dsa">> # <<"dss">>
  <2>1. Len(<<"dsi", "dsa">>) = 2 /\ Len(<<"dss">>) = 1
    OBVIOUS
  <2> QED BY <2>1
<1>7. /\ Append(<<>>, "dsa") = <<"dsa">> /\ Append(<<>>, "dsi") = <<"dsi">>
      /\ Append(<<>>, "dss") = <<"dss">> /\ Append(<<"dsi">>, "dsa") = <<"dsi", "dsa">>
  <2>1. ASSUME NEW x PROVE Append(<<>>, x) = <<x>>
    <3>1. <<>> \in Seq({x}) /\ Append(<<>>, x) \in Seq({x}) /\ <<x>> \in Seq({x})
      OBVIOUS
    <3>2. Len(Append(<<>>, x)) = 1 /\ Len(<<x>>) = 1 /\ Append(<<>>, x)[1] = x /\ <<x>>[1] = x
      OBVIOUS
    <3> QED BY <1>2, <3>1, <3>2, SeqEqual
  <2>2. ASSUME NEW x, NEW y PROVE Append(<<x>>, y) = <<x, y>>
    <3>1. <<x>> \in Seq({x, y}) /\ Append(<<x>>, y) \in Seq({x, y}) /\ <<x, y>> \in Seq({x, y})
      OBVIOUS
    <3>2. /\ Len(Append(<<x>>, y)) = 2 /\ Len(<<x, y>>) = 2
          /\ Append(<<x>>, y)[1] = x /\ <<x, y>>[1] = x
          /\ Append(<<x>>, y)[2] = y /\ <<x, y>>[2] = y
      OBVIOUS
    <3> QED BY <1>2, <3>1, <3>2, SeqEqual
  <2> QED BY <2>1, <2>2
<1>8. Tail(<<"dsa">>) = <<>> /\ Tail(<<"dsi">>) = <<>> /\ Tail(<<"dss">>) = <<>>
  OBVIOUS
<1>9. Tail(<<"dsi", "dsa">>) = <<"dsa">>
  OBVIOUS
<1>10. /\ Head(<<"dsa">>) = "dsa" /\ Head(<<"dsi">>) = "dsi" /\ Head(<<"dss">>) = "dss"
       /\ Head(<<"dsi", "dsa">>) = "dsi"
  OBVIOUS
<1> QED BY <1>1, <1>3, <1>4, <1>5, <1>6, <1>7, <1>8, <1>9, <1>10

\* The steps of a client leave the other clients and the pool alone.
LEMMA OneClient ==
  ASSUME NEW a \in Clients, PoolInv, \A c \in Clients : ClientInv(c), pool' = pool,
         \A c \in Clients \ {a} :
            /\ client'[c] = client[c] /\ submit'[c] = submit[c] /\ reset'[c] = reset[c]
            /\ toPool'[c] = toPool[c] /\ toClient'[c] = toClient[c],
         asked \subseteq asked', failed \subseteq failed', overtaken \subseteq overtaken',
         ClientInv(a)'
  PROVE  PoolInv' /\ \A c \in Clients : ClientInv(c)'
<1>1. PoolInv'
  BY DEF PoolInv, Entered
<1>2. ASSUME NEW c \in Clients \ {a} PROVE ClientInv(c)'
  BY Untouched
<1> QED BY <1>1, <1>2

\* Start keeps the invariant.
LEMMA StartStep ==
  ASSUME IndInv, NEW a \in Clients, Start(a)
  PROVE  PoolInv' /\ \A c \in Clients : ClientInv(c)'
<1> DEFINE p == client[a]
           u == [UpdateState(SetNull(UnlockCoins(p)), "ACCEPTING") EXCEPT !.submitted = TRUE]
<1>1. /\ submit[a] = "none" /\ reset[a] = "none" /\ a \notin asked /\ asked' = asked \cup {a}
      /\ p.state = "IDLE" /\ p.entry = None
      /\ client' = [client EXCEPT ![a] = u]
      /\ toPool' = [toPool EXCEPT ![a] = Append(@, "dsa")]
      /\ UNCHANGED <<pool, submit, reset, toClient, failed, overtaken>>
  BY DEF Start, Undisturbed
<1>2. u \in ClientType /\ u.state = "ACCEPTING" /\ u.session = 0 /\ u.entry = None /\ u.submitted
  <2>1. p \in ClientType
    BY Types DEF IndInv
  <2>2. "ACCEPTING" \in States
    BY DEF States
  <2> DEFINE n == SetNull(UnlockCoins(p))
             v == UpdateState(n, "ACCEPTING")
  <2>3. n \in ClientType /\ n.session = 0 /\ n.entry = None
    <3>1. UnlockCoins(p) \in ClientType
      BY <2>1, UnlockCoinsFields
    <3> QED BY <3>1, SetNullFields
  <2> HIDE DEF n
  <2>4. v \in ClientType /\ v.state = "ACCEPTING" /\ v.session = 0 /\ v.entry = None
    BY <2>2, <2>3, UpdateStateFields
  <2> HIDE DEF v
  <2>5. [v EXCEPT !.submitted = TRUE] \in ClientType
    BY <2>4 DEF ClientType
  <2>6. u = [v EXCEPT !.submitted = TRUE]
    BY DEF v, n
  <2> HIDE DEF u
  <2> QED BY <2>4, <2>5, <2>6 DEF ClientType
<1> HIDE DEF u
<1>3. /\ client'[a] = u /\ toPool'[a] = Append(toPool[a], "dsa")
      /\ \A c \in Clients \ {a} : client'[c] = client[c] /\ toPool'[c] = toPool[c]
  BY <1>1, Types DEF IndInv
<1>4. ClientInv(a)
  BY DEF IndInv
<1>5. ~(Good(a) /\ Committed(a))
  BY <1>1, <1>4 DEF ClientInv, CommittedInv, Committed
<1>6. \A x : Contains(toPool'[a], x) <=> Contains(toPool[a], x) \/ x = "dsa"
  <2>1. toPool[a] \in Seq({"dsa", "dsi", "dss"})
    BY Types DEF IndInv
  <2> QED BY <1>3, <2>1, ContainsAppend
<1>7. Good(a) => toPool[a] \in {<<>>, <<"dsi">>}
  BY <1>1, <1>4, <1>5, Requests DEF ClientInv, RequestInv, UncommittedInv
<1>8. Good(a)' <=> Good(a)
  BY <1>1 DEF Good
<1>9. WireInv(a)' /\ ThreadInv(a)' /\ EntryInv(a)'
  BY <1>1, <1>2, <1>3, <1>4, <1>8 DEF ClientInv, WireInv, ThreadInv, EntryInv
<1>10. Answering(a)' <=> Answering(a)
  BY <1>1, <1>6 DEF Answering
<1>11. AnsweringInv(a)'
  <2>1. \A d \in Clients : Good(d)' => Good(d)
    BY <1>1 DEF Good
  <2> QED BY <1>1, <1>4, <1>10, <2>1 DEF ClientInv, AnsweringInv
<1>12. RequestInv(a)'
  BY <1>1, <1>2, <1>3, <1>4, <1>6, <1>7, <1>8, Requests DEF ClientInv, RequestInv
<1>13. SuffixInv(a)'
  BY <1>1, <1>4, <1>6, <1>8 DEF ClientInv, SuffixInv, AfterReady
<1>14. UncommittedInv(a)'
  <2>1. Good(a) => \A m \in ToSet(toClient[a]) : ~Yes(m)
    BY <1>1, <1>4, <1>5 DEF ClientInv, UncommittedInv
  <2>2. Good(a) => toPool'[a] # <<"dss">>
    BY <1>3, <1>7, Requests
  <2> QED BY <1>1, <1>2, <1>3, <1>4, <1>5, <1>8, <2>1, <2>2
          DEF ClientInv, UncommittedInv, Committed, Outstanding
<1>15. CommittedInv(a)' /\ SigningInv(a)'
  BY <1>1, <1>5, <1>8 DEF CommittedInv, SigningInv, Committed
<1>16. ClientInv(a)'
  BY <1>9, <1>11, <1>12, <1>13, <1>14, <1>15 DEF ClientInv
<1> QED BY <1>1, <1>3, <1>16, OneClient DEF IndInv

\* A message is taken off the link of a client whose threads are at rest.
LEMMA HeadOff ==
  ASSUME TypeOK, ~Preemption, NEW a \in Clients, NEW type, Arrived(a, type), Ignored(a)
  PROVE  /\ submit[a] = "none" /\ reset[a] = "none"
         /\ toClient[a] \in Seq(Messages) /\ toClient[a] # <<>>
         /\ toClient'[a] = Tail(toClient[a])
         /\ \A c \in Clients \ {a} : toClient'[c] = toClient[c]
         /\ Message(a) \in Messages /\ Message(a).type = type
         /\ ToSet(toClient[a]) = {Message(a)} \cup ToSet(toClient'[a])
         /\ \A m, n : Before(toClient'[a], m, n) => Before(toClient[a], m, n)
         /\ \A n \in ToSet(toClient'[a]) : Before(toClient[a], Message(a), n)
         /\ toClient'[a] # <<>> => Last(toClient'[a]) = Last(toClient[a])
         /\ toClient'[a] = <<>> => Message(a) = Last(toClient[a]) /\ ToSet(toClient[a]) = {Message(a)}
         /\ Contains(toClient'[a], Ready) => Contains(toClient[a], Ready)
         /\ Message(a) = Ready => Contains(toClient[a], Ready)
<1>1. /\ submit[a] = "none" /\ reset[a] = "none" /\ toClient[a] # <<>>
      /\ Message(a) = Head(toClient[a]) /\ Message(a).type = type
  BY DEF Arrived, Calm, Message
<1>2. toClient[a] \in Seq(Messages) /\ toClient \in [Clients -> Seq(Messages)]
  BY Types
<1>3. /\ toClient'[a] = Tail(toClient[a])
      /\ \A c \in Clients \ {a} : toClient'[c] = toClient[c]
  BY <1>2 DEF Ignored
<1>4. Message(a) \in Messages
  BY <1>1, <1>2
<1>5. /\ ToSet(toClient[a]) = {Message(a)} \cup ToSet(toClient'[a])
      /\ \A m, n : Before(toClient'[a], m, n) => Before(toClient[a], m, n)
      /\ \A n \in ToSet(toClient'[a]) : Before(toClient[a], Message(a), n)
      /\ toClient'[a] # <<>> => Last(toClient'[a]) = Last(toClient[a])
      /\ toClient'[a] = <<>> => Message(a) = Last(toClient[a])
  BY <1>1, <1>2, <1>3, OfTail
<1>6. /\ Contains(toClient'[a], Ready) => Contains(toClient[a], Ready)
      /\ Message(a) = Ready => Contains(toClient[a], Ready)
  BY <1>1, <1>2, <1>3, ContainsTail
<1>7. toClient'[a] = <<>> => ToSet(toClient[a]) = {Message(a)}
  BY <1>5, OfTuples
<1> QED BY <1>1, <1>2, <1>3, <1>4, <1>5, <1>6, <1>7

\* What that does not disturb.
LEMMA HeadOffInv ==
  ASSUME TypeOK, ~Preemption, NEW a \in Clients, NEW type, Arrived(a, type), Ignored(a), ClientInv(a),
         pool' = pool, submit'[a] = submit[a], toPool'[a] = toPool[a],
         failed \subseteq failed', overtaken \subseteq overtaken'
  PROVE  WireInv(a)' /\ AnsweringInv(a)' /\ EntryInv(a)' /\ SuffixInv(a)'
<1> DEFINE q == toClient[a]
<1>1. /\ submit[a] = "none"
      /\ ToSet(q') \subseteq ToSet(q)
      /\ \A m, n : Before(q', m, n) => Before(q, m, n)
      /\ Contains(q', Ready) => Contains(q, Ready)
  BY HeadOff
<1>2. \A d \in Clients : Good(d)' => Good(d)
  BY DEF Good
<1>3. Answering(a)' => Answering(a)
  BY <1>1 DEF Answering
<1>4. WireInv(a)' /\ EntryInv(a)'
  BY <1>1, <1>2 DEF ClientInv, WireInv, EntryInv
<1>5. AnsweringInv(a)'
  BY <1>2, <1>3 DEF ClientInv, AnsweringInv
<1>6. SuffixInv(a)'
  BY <1>1, <1>2 DEF ClientInv, SuffixInv, AfterReady
<1> QED BY <1>4, <1>5, <1>6

\* What a status update changes.
LEMMA StatusUpdateFields ==
  ASSUME TypeOK, NEW a \in Clients, StatusUpdate(a), Message(a) \in Messages,
         client[a].session = 0 => client[a].entry = None
  PROVE  LET p == client[a]
             m == Message(a)
             u == client'[a]
         IN  /\ p \in ClientType /\ u \in ClientType
             /\ u.entry = p.entry /\ u.age \in {0, p.age}
             /\ m.type = "dssu" /\ m.state \in States /\ m.session \in Nat
             /\ \/ u = p /\ (Deaf(p) \/ (m.accepted = None /\ m.session # p.session))
                \/ /\ ~Deaf(p) /\ m.accepted = None /\ m.session = p.session
                   /\ u.state = m.state /\ u.session = p.session /\ u.submitted
                   /\ u.locked = p.locked
                \/ /\ ~Deaf(p) /\ m.accepted = 1
                   /\ u.state = (IF m.state = "ACCEPTING" THEN "QUEUE" ELSE m.state)
                   /\ u.session = m.session /\ u.submitted /\ u.locked = p.locked
                \/ /\ ~Deaf(p) /\ m.accepted = 0 /\ Deaf(u)
                   /\ u.session = p.session /\ u.state \in {"ERROR", "ACCEPTING"}
             /\ \A c \in Clients \ {a} : client'[c] = client[c]
<1> DEFINE p == client[a]
           m == Message(a)
           u == client'[a]
<1>1. m.type = "dssu"
  BY DEF StatusUpdate, Arrived
<1>2. m.state \in States /\ m.session \in Nat /\ m.accepted \in {None, 0, 1}
  BY <1>1 DEF Messages, Ready
<1>3. p \in ClientType /\ client \in [Clients -> ClientType]
  BY Types
<1>4. /\ u = IF ~p.submitted \/ p.state = "ERROR" THEN p
             ELSE CASE m.accepted = None ->
                         IF m.session = p.session THEN UpdateState(p, m.state) ELSE p
                    [] m.accepted = 1 -> Accepted(p, m)
                    [] m.accepted = 0 -> Rejected(p, m)
      /\ \A c \in Clients \ {a} : client'[c] = client[c]
  BY <1>3 DEF StatusUpdate
<1> HIDE DEF p, m, u
<1> DEFINE v == UpdateState(p, m.state)
<1>5. v \in ClientType /\ v.state = m.state /\ v.session = p.session /\ v.entry = p.entry
      /\ v.age \in {0, p.age} /\ v.submitted = p.submitted /\ v.locked = p.locked
  BY <1>2, <1>3, UpdateStateFields
<1>6. CASE Deaf(p)
  <2>1. u = p
    BY <1>4, <1>6 DEF Deaf
  <2>2. p.age \in {0, p.age}
    OBVIOUS
  <2> HIDE DEF Deaf
  <2> QED BY <1>1, <1>2, <1>3, <1>4, <1>6, <2>1, <2>2 DEF p, m, u
<1>7. CASE ~Deaf(p) /\ m.accepted = None
  <2>1. u = IF m.session = p.session THEN v ELSE p
    <3>1. ~(~p.submitted \/ p.state = "ERROR")
      BY <1>7 DEF Deaf
    <3> HIDE DEF v
    <3>2. UpdateState(p, m.state) = v
      BY DEF v
    <3>3. u = IF m.session = p.session THEN UpdateState(p, m.state) ELSE p
      BY <1>4, <1>7, <3>1, Bounds
    <3> QED BY <3>2, <3>3
  <2> HIDE DEF v
  <2>2. p.submitted
    BY <1>7 DEF Deaf
  <2> HIDE DEF Deaf
  <2>3. CASE m.session = p.session
    <3>1. u = v
      BY <2>1, <2>3
    <3> QED BY <1>1, <1>2, <1>3, <1>4, <1>5, <1>7, <2>2, <2>3, <3>1 DEF p, m, u
  <2>4. CASE m.session # p.session
    <3>1. u = p /\ p.age \in {0, p.age}
      BY <2>1, <2>4
    <3> QED BY <1>1, <1>2, <1>3, <1>4, <1>7, <2>4, <3>1 DEF p, m, u
  <2> QED BY <2>3, <2>4
<1>8. CASE ~Deaf(p) /\ m.accepted = 1
  <2>1. u = Accepted(p, m)
    BY <1>4, <1>8, Bounds DEF Deaf
  <2> HIDE DEF v
  <2> DEFINE w == [v EXCEPT !.session = m.session, !.found = TRUE]
  <2>2. w \in ClientType /\ w.state = m.state /\ w.session = m.session /\ w.entry = p.entry
        /\ w.age \in {0, p.age} /\ w.submitted = p.submitted /\ w.locked = p.locked
    BY <1>2, <1>5 DEF ClientType
  <2>3. u = IF m.state = "ACCEPTING" THEN UpdateState(w, "QUEUE") ELSE w
    BY <2>1 DEF Accepted, v
  <2> HIDE DEF w
  <2>4. /\ u \in ClientType /\ u.state = (IF m.state = "ACCEPTING" THEN "QUEUE" ELSE m.state)
        /\ u.session = m.session /\ u.entry = p.entry
        /\ u.age \in {0, p.age} /\ u.submitted = p.submitted /\ u.locked = p.locked
    BY <2>2, <2>3, UpdateStateFields DEF States
  <2>5. u.submitted
    BY <1>8, <2>4 DEF Deaf
  <2> HIDE DEF Deaf
  <2> QED BY <1>1, <1>2, <1>3, <1>4, <1>8, <2>4, <2>5 DEF p, m, u
<1>9. CASE ~Deaf(p) /\ m.accepted = 0
  <2>1. u = Rejected(p, m)
    BY <1>4, <1>9, Bounds DEF Deaf
  <2> HIDE DEF v
  <2> DEFINE w == UpdateState(v, "ERROR")
  <2>2. w \in ClientType /\ w.state = "ERROR" /\ w.session = p.session /\ w.entry = p.entry
        /\ w.age \in {0, p.age}
    BY <1>3, <1>5, UpdateStateFields DEF States
  <2>3. u = IF m.state = "ACCEPTING" /\ p.session = 0 /\ ~p.found
            THEN [UpdateState(UnlockCoins(w), "ACCEPTING") EXCEPT !.submitted = Pending(p)]
            ELSE w
    BY <2>1 DEF Rejected, v
  <2> HIDE DEF w
  <2>4. CASE u = w
    BY <1>1, <1>2, <1>3, <1>4, <1>9, <2>2, <2>4 DEF p, m, u, Deaf
  <2>5. CASE /\ p.session = 0
             /\ u = [UpdateState(UnlockCoins(w), "ACCEPTING") EXCEPT !.submitted = Pending(p)]
    <3>1. ~Pending(p) /\ Pending(p) \in BOOLEAN
      BY <2>5 DEF Pending, p
    <3> DEFINE x == UpdateState(UnlockCoins(w), "ACCEPTING")
    <3>2. UnlockCoins(w) \in ClientType /\ UnlockCoins(w).session = p.session
          /\ UnlockCoins(w).entry = p.entry /\ UnlockCoins(w).age \in {0, p.age}
      BY <2>2, UnlockCoinsFields
    <3>3. x \in ClientType /\ x.state = "ACCEPTING" /\ x.session = p.session /\ x.entry = p.entry
          /\ x.age \in {0, p.age}
      BY <3>2, UpdateStateFields DEF States
    <3> HIDE DEF x
    <3>4. u = [x EXCEPT !.submitted = FALSE]
      BY <2>5, <3>1 DEF x
    <3>5. u \in ClientType /\ u.state = "ACCEPTING" /\ u.session = p.session /\ u.entry = p.entry
          /\ u.age \in {0, p.age} /\ ~u.submitted
      BY <3>3, <3>4 DEF ClientType
    <3>6. Deaf(u)
      BY <3>5 DEF Deaf
    <3> HIDE DEF Deaf
    <3> QED BY <1>1, <1>2, <1>3, <1>4, <1>9, <3>5, <3>6 DEF p, m, u
  <2> QED BY <2>3, <2>4, <2>5
<1> QED BY <1>2, <1>6, <1>7, <1>8, <1>9

\* The kinds of messages.
LEMMA Kinds ==
  /\ \A p, x : /\ Status(p, x).type = "dssu" /\ Status(p, x).session = p.session
               /\ Status(p, x).state = p.state /\ Status(p, x).accepted = x
  /\ \A p : /\ Reset(p).type = "dssu" /\ Reset(p).session = p.session
            /\ Reset(p).state = p.state /\ Reset(p).accepted = None
            /\ ~Answer(Reset(p)) /\ ~Yes(Reset(p))
  /\ \A c, m : Mine(c, m) => m.type = "dsf"
  /\ \A m : (Answer(m) \/ Yes(m)) => m.type = "dssu"
  /\ \A m : Yes(m) => Answer(m)
BY Bounds DEF Status, Reset, Answer, Yes, Mine

\* A status update keeps the invariant.
LEMMA StatusUpdateStep ==
  ASSUME IndInv, ~Preemption, NEW a \in Clients, StatusUpdate(a)
  PROVE  PoolInv' /\ \A c \in Clients : ClientInv(c)'
<1> DEFINE p == client[a]
           u == client'[a]
           m == Message(a)
           q == toClient[a]
<1>1. /\ Arrived(a, "dssu") /\ Ignored(a)
      /\ UNCHANGED <<pool, submit, reset, asked, toPool, failed, overtaken>>
  BY DEF StatusUpdate, threads, history
<1>2. TypeOK /\ ClientInv(a) /\ pool.age \in Ages /\ pool.entries \in [Clients -> Ages \cup {None}]
  BY Types DEF IndInv
<1>3. /\ submit[a] = "none" /\ reset[a] = "none"
      /\ \A c \in Clients \ {a} : toClient'[c] = toClient[c]
      /\ m \in Messages
      /\ ToSet(q) = {m} \cup ToSet(q')
      /\ \A x, y : Before(q', x, y) => Before(q, x, y)
      /\ \A n \in ToSet(q') : Before(q, m, n)
      /\ q' # <<>> => Last(q') = Last(q)
      /\ q' = <<>> => m = Last(q) /\ ToSet(q) = {m}
      /\ q # <<>>
  BY <1>1, <1>2, HeadOff
<1>4. /\ p \in ClientType /\ u \in ClientType
      /\ u.entry = p.entry /\ u.age \in {0, p.age}
      /\ m.type = "dssu" /\ m.state \in States /\ m.session \in Nat
      /\ \/ u = p /\ (Deaf(p) \/ (m.accepted = None /\ m.session # p.session))
         \/ /\ ~Deaf(p) /\ m.accepted = None /\ m.session = p.session
            /\ u.state = m.state /\ u.session = p.session /\ u.submitted
            /\ u.locked = p.locked
         \/ /\ ~Deaf(p) /\ m.accepted = 1
            /\ u.state = (IF m.state = "ACCEPTING" THEN "QUEUE" ELSE m.state)
            /\ u.session = m.session /\ u.submitted /\ u.locked = p.locked
         \/ /\ ~Deaf(p) /\ m.accepted = 0 /\ Deaf(u)
            /\ u.session = p.session /\ u.state \in {"ERROR", "ACCEPTING"}
      /\ \A c \in Clients \ {a} : client'[c] = client[c]
  <2>1. client[a].session = 0 => client[a].entry = None
    BY <1>2 DEF ClientInv, ThreadInv
  <2> QED BY <1>2, <1>3, <2>1, StatusUpdateFields
<1>5. Good(a)' <=> Good(a)
  BY <1>1 DEF Good
<1>6. Committed(a)' <=> Committed(a)
  BY <1>1 DEF Committed
<1> HIDE DEF p, u, m, q
<1>7. WireInv(a)' /\ AnsweringInv(a)' /\ EntryInv(a)' /\ SuffixInv(a)'
  BY <1>1, <1>2, HeadOffInv
<1>8. m \in ToSet(q) /\ \A n \in ToSet(q') : n \in ToSet(q)
  BY <1>3
<1>9. ThreadInv(a)'
  <2>1. ThreadInv(a) /\ (m.type = "dssu" /\ m.session = 0 => m.state \in Idle /\ m.accepted # 1)
    BY <1>2, <1>8 DEF ClientInv, WireInv, q
  <2>2. u.session = 0 => u.state # "QUEUE" /\ u.entry = None
    BY <1>4, <2>1 DEF ThreadInv, Idle, p
  <2> QED BY <1>1, <1>3, <2>2 DEF ThreadInv, u
<1>10. RequestInv(a)'
  <2> SUFFICES ASSUME Good(a) PROVE RequestInv(a)'
    BY <1>5 DEF RequestInv
  <2>1. Contains(toPool[a], "dsi") => ~Answer(m) /\ \A n \in ToSet(q') : ~Answer(n)
    BY <1>2, <1>8 DEF ClientInv, RequestInv, q
  <2>2. Contains(toPool[a], "dsi") /\ pool.users # 0 /\ pool.state = "ACCEPTING" => m.state = "ACCEPTING"
    <3>1. Contains(toPool[a], "dsi") /\ pool.users # 0 => AfterReady(m)
      BY <1>2, <1>8 DEF ClientInv, SuffixInv, q
    <3> QED BY <2>1, <3>1, Kinds DEF AfterReady
  <2>3. Contains(toPool[a], "dsi") => m.accepted = None
    BY <1>4, <2>1 DEF Answer
  <2>4. Contains(toPool[a], "dsi") =>
          /\ u.entry = None => pool.users = 0
          /\ u.entry # None =>
               /\ u.entry = 0 /\ u.age = 0
               /\ u.submitted /\ u.locked /\ reset[a] = "none"
               /\ pool.users # 0 /\ pool.state = "ACCEPTING" => u.state = "ACCEPTING"
    <3>1. Contains(toPool[a], "dsi") =>
          /\ p.entry = None => pool.users = 0
          /\ p.entry # None =>
               /\ p.entry = 0 /\ p.age = 0
               /\ p.submitted /\ p.locked /\ reset[a] = "none"
               /\ pool.users # 0 /\ pool.state = "ACCEPTING" => p.state = "ACCEPTING"
      BY <1>2 DEF ClientInv, RequestInv, p
    <3>2. 1 # None /\ 0 # None
      BY Bounds
    <3> QED BY <1>4, <2>2, <2>3, <3>1, <3>2
  <2>5. /\ toPool[a] \in {<<>>, <<"dsa">>, <<"dsi">>, <<"dsi", "dsa">>, <<"dss">>}
        /\ Contains(toPool[a], "dsa") => a \in asked /\ u.entry = None /\ submit[a] = "none"
    <3>1. /\ toPool[a] \in {<<>>, <<"dsa">>, <<"dsi">>, <<"dsi", "dsa">>, <<"dss">>}
          /\ Contains(toPool[a], "dsa") => a \in asked /\ p.entry = None /\ submit[a] = "none"
      BY <1>2 DEF ClientInv, RequestInv, p
    <3> QED BY <1>4, <3>1
  <2> QED BY <1>1, <1>3, <2>1, <2>4, <2>5 DEF RequestInv, u, q
<1>11. UncommittedInv(a)'
  <2> SUFFICES ASSUME Good(a), ~Committed(a) PROVE UncommittedInv(a)'
    BY <1>5, <1>6 DEF UncommittedInv
  <2>1. UncommittedInv(a)
    BY <1>2 DEF ClientInv
  <2>2. Outstanding(a)' => Outstanding(a)
    BY <1>1, <1>8 DEF Outstanding, q
  <2>3. Outstanding(a)' => ~Yes(m)
    <3>1. Yes(m) => toPool[a] = <<>> /\ \A n \in ToSet(q') : ~Answer(n)
      BY <1>3, <1>8, <2>1 DEF UncommittedInv, q
    <3> QED BY <1>1, <3>1 DEF Outstanding, q
  <2>4. Outstanding(a)' => u.entry # None \/ u.session = 0 \/ Deaf(u)
    <3>1. Outstanding(a) => p.entry # None \/ p.session = 0 \/ Deaf(p)
      BY <2>1 DEF UncommittedInv, p
    <3>2. Yes(m) <=> m.accepted = 1
      BY <1>4 DEF Yes
    <3> QED BY <1>4, <2>2, <2>3, <3>1, <3>2
  <2>5. toPool[a] # <<"dss">> /\ \A n \in ToSet(q') : ~Mine(a, n)
    BY <1>8, <2>1 DEF UncommittedInv, q
  <2>6. \A n \in ToSet(q') : Yes(n) =>
          /\ toPool[a] = <<>> /\ a \in asked
          /\ \A x \in ToSet(q') : Before(q', n, x) => ~Answer(x)
    <3>1. \A n \in ToSet(q) : Yes(n) =>
          /\ toPool[a] = <<>> /\ a \in asked
          /\ \A x \in ToSet(q) : Before(q, n, x) => ~Answer(x)
      BY <2>1 DEF UncommittedInv, q
    <3> QED BY <1>3, <1>8, <3>1
  <2> QED BY <1>1, <1>3, <2>4, <2>5, <2>6 DEF UncommittedInv, u, q
<1>12. CommittedInv(a)'
  <2> SUFFICES ASSUME Good(a), Committed(a) PROVE CommittedInv(a)'
    BY <1>5, <1>6 DEF CommittedInv
  <2>1. CommittedInv(a)
    BY <1>2 DEF ClientInv
  <2>2. /\ p.entry = pool.entries[a] /\ p.age <= p.entry
        /\ p.submitted /\ p.locked /\ p.state # "ERROR"
        /\ toPool[a] \in {<<>>, <<"dss">>}
        /\ p.session = pool.session \/ \E n \in ToSet(q) : Yes(n)
        /\ \A n \in ToSet(q) : Expected(n)
        /\ \A n \in ToSet(q) : Answer(n) => pool.entries[a] = 0 /\ pool.age = 0
        /\ pool.state = "ACCEPTING" => p.state \in Waiting /\ toPool[a] = <<>>
    BY <2>1 DEF CommittedInv, p, q
  <2>3. ~Deaf(p)
    BY <2>2 DEF Deaf
  <2>4. /\ m.session = pool.session
        /\ m.accepted = None \/ (m.accepted = 1 /\ m.state = "ACCEPTING")
        /\ m.state \in {"ACCEPTING", "FINALIZE", "SIGNING"}
        /\ pool.state = "ACCEPTING" => m.state = "ACCEPTING"
    BY <1>4, <1>8, <2>2 DEF Expected
  <2>5. 1 # None /\ 0 # None /\ 1 # 0
    BY Bounds
  <2>6. /\ u.submitted /\ u.locked /\ u.state # "ERROR"
        /\ pool.state = "ACCEPTING" => u.state \in Waiting
    BY <1>4, <2>2, <2>3, <2>4, <2>5 DEF Waiting
  <2>7. u.age <= u.entry
    <3>1. p.entry \in Nat
      <4>1. pool.entries[a] # None
        BY DEF Committed
      <4> QED BY <1>2, <2>2, <4>1, Bounds
    <3> QED BY <1>4, <2>2, <3>1
  <2>8. u.session = pool.session \/ \E n \in ToSet(q') : Yes(n)
    <3>1. Yes(m) <=> m.accepted = 1
      BY <1>4 DEF Yes
    <3> QED BY <1>3, <1>4, <2>2, <2>3, <2>4, <2>5, <3>1
  <2>9. \A n \in ToSet(q') : Expected(n)'
    BY <1>1, <1>8, <2>2 DEF Expected
  <2>10. /\ u.entry = pool.entries[a] /\ toPool[a] \in {<<>>, <<"dss">>}
         /\ \A n \in ToSet(q') : Answer(n) => pool.entries[a] = 0 /\ pool.age = 0
         /\ pool.state = "ACCEPTING" => toPool[a] = <<>>
    BY <1>4, <1>8, <2>2
  <2> QED BY <1>1, <1>3, <2>6, <2>7, <2>8, <2>9, <2>10 DEF CommittedInv, u, q
<1>13. SigningInv(a)'
  <2> SUFFICES ASSUME Good(a), pool.state = "SIGNING", pool.entries[a] # None PROVE SigningInv(a)'
    BY <1>1, <1>5 DEF SigningInv
  <2>1. SigningInv(a) /\ CommittedInv(a) /\ Committed(a)
    BY <1>2 DEF ClientInv, Committed
  <2>2. ~Mine(a, m)
    BY <1>4, Kinds
  <2>3. /\ p.session = pool.session \/ \E n \in ToSet(q) : Yes(n)
        /\ ~Deaf(p)
    BY <2>1 DEF CommittedInv, Deaf, p, q
  <2>4. /\ \A n \in ToSet(q) : Mine(a, n) =>
            /\ pool.age = 0 /\ toPool[a] = <<>> /\ a \notin pool.signed
            /\ \A x \in ToSet(q) : Before(q, n, x) => ~Mine(a, x) /\ ~Answer(x)
        /\ toPool[a] = <<"dss">> => pool.age = 0 /\ a \notin pool.signed
        /\ toPool[a] = <<"dss">> \/ a \in pool.signed => \A n \in ToSet(q) : ~Answer(n)
        /\ a \notin pool.signed =>
              pool.age = 0 /\ (toPool[a] = <<"dss">> \/ \E n \in ToSet(q) : Mine(a, n))
        /\ q # <<>> => Last(q) = Reset(pool)
        /\ pool.age > 0 => p.state = "SIGNING" /\ \A n \in ToSet(q) : n = Reset(pool)
    BY <2>1 DEF SigningInv, p, q
  <2>5. m = Reset(pool) =>
          m.accepted = None /\ m.session = pool.session /\ m.state = "SIGNING" /\ ~Yes(m)
    BY Kinds
  <2>6. q' = <<>> => u.state = "SIGNING"
    <3> SUFFICES ASSUME q' = <<>> PROVE u.state = "SIGNING"
      OBVIOUS
    <3>1. m = Reset(pool) /\ ToSet(q) = {m}
      BY <1>3, <2>4
    <3>2. p.session = pool.session
      BY <2>3, <2>5, <3>1
    <3> QED BY <1>4, <2>3, <2>5, <3>1, <3>2, Bounds
  <2>7. pool.age > 0 => u.state = "SIGNING" /\ \A n \in ToSet(q') : n = Reset(pool)
    <3> SUFFICES ASSUME pool.age > 0 PROVE u.state = "SIGNING" /\ \A n \in ToSet(q') : n = Reset(pool)
      OBVIOUS
    <3>1. m = Reset(pool) /\ p.state = "SIGNING" /\ \A n \in ToSet(q') : n = Reset(pool)
      BY <1>8, <2>4
    <3> QED BY <1>4, <2>5, <3>1, Bounds
  <2>8. a \notin pool.signed =>
           pool.age = 0 /\ (toPool[a] = <<"dss">> \/ \E n \in ToSet(q') : Mine(a, n))
    BY <1>3, <2>2, <2>4
  <2>9. \A n \in ToSet(q') : Mine(a, n) =>
            /\ pool.age = 0 /\ toPool[a] = <<>> /\ a \notin pool.signed
            /\ \A x \in ToSet(q') : Before(q', n, x) => ~Mine(a, x) /\ ~Answer(x)
    BY <1>3, <1>8, <2>4
  <2>10. /\ toPool[a] = <<"dss">> => pool.age = 0 /\ a \notin pool.signed
         /\ toPool[a] = <<"dss">> \/ a \in pool.signed => \A n \in ToSet(q') : ~Answer(n)
         /\ q' # <<>> => Last(q') = Reset(pool)
    BY <1>3, <1>8, <2>4
  <2> QED BY <1>1, <2>6, <2>7, <2>8, <2>9, <2>10 DEF SigningInv, u, q
<1>14. ClientInv(a)'
  BY <1>7, <1>9, <1>10, <1>11, <1>12, <1>13 DEF ClientInv
<1> QED BY <1>1, <1>3, <1>4, <1>14, OneClient DEF IndInv

\* Nothing that ends or precedes a session reaches whose entry counts.
LEMMA CommittedMessages ==
  ASSUME NEW a \in Clients, ClientInv(a), Good(a), Committed(a), NEW m \in ToSet(toClient[a])
  PROVE  m.type \in {"dssu", "dsf"} /\ m.session = pool.session
BY DEF ClientInv, CommittedInv, Expected

\* Nothing is claimed of a client that failed or that the pool does not count on.
LEMMA NotSigning ==
  ASSUME NEW c \in Clients, ~(Good(c) /\ Committed(c))
  PROVE  CommittedInv(c) /\ SigningInv(c)
BY DEF CommittedInv, SigningInv, Committed

\* A message that is no answer and asks for no signature is taken off the link.
LEMMA Unread ==
  ASSUME IndInv, ~Preemption, NEW a \in Clients, NEW type, Arrived(a, type), Ignored(a),
         type # "dssu", ~(Good(a) /\ Mine(a, Message(a))),
         client'[a] = client[a], submit'[a] = submit[a], reset'[a] = reset[a],
         toPool'[a] = toPool[a], UNCHANGED <<pool, asked, failed, overtaken>>
  PROVE  ClientInv(a)'
<1> DEFINE m == Message(a)
           q == toClient[a]
<1>1. TypeOK /\ ClientInv(a)
  BY DEF IndInv
<1>2. /\ m.type # "dssu"
      /\ ToSet(q) = {m} \cup ToSet(q')
      /\ \A x, y : Before(q', x, y) => Before(q, x, y)
      /\ q' # <<>> => Last(q') = Last(q)
      /\ q' = <<>> => m = Last(q)
      /\ q # <<>>
  BY <1>1, HeadOff
<1>3. /\ Good(a)' <=> Good(a)
      /\ Committed(a)' <=> Committed(a)
  BY DEF Good, Committed
<1>4. WireInv(a)' /\ AnsweringInv(a)' /\ EntryInv(a)' /\ SuffixInv(a)'
  BY <1>1, HeadOffInv
<1> HIDE DEF m, q
<1>5. m \in ToSet(q) /\ \A n \in ToSet(q') : n \in ToSet(q)
  BY <1>2
<1>6. ThreadInv(a)' /\ RequestInv(a)'
  BY <1>1, <1>3, <1>5 DEF ClientInv, ThreadInv, RequestInv, q
<1>7. UncommittedInv(a)'
  <2>1. Outstanding(a)' => Outstanding(a)
    BY <1>5 DEF Outstanding, q
  <2> QED BY <1>1, <1>2, <1>3, <1>5, <2>1 DEF ClientInv, UncommittedInv, q
<1>8. CommittedInv(a)'
  <2>1. ~Yes(m)
    BY <1>2, Kinds
  <2>2. \A n \in ToSet(q') : Expected(n) => Expected(n)'
    BY DEF Expected
  <2> QED BY <1>1, <1>2, <1>3, <1>5, <2>1, <2>2 DEF ClientInv, CommittedInv, q
<1>9. SigningInv(a)'
  <2> SUFFICES ASSUME Good(a), pool.state = "SIGNING", pool.entries[a] # None PROVE SigningInv(a)'
    BY <1>3 DEF SigningInv
  <2>1. SigningInv(a)
    BY <1>1 DEF ClientInv
  <2>2. ~Mine(a, m) /\ m # Reset(pool)
    BY <1>2, Kinds DEF m
  <2>3. q' # <<>>
    BY <1>2, <2>1, <2>2 DEF SigningInv, q
  <2>4. \A n \in ToSet(q) : Mine(a, n) => n \in ToSet(q')
    BY <1>2, <2>2
  <2> QED BY <1>2, <1>5, <2>1, <2>3, <2>4 DEF SigningInv, q
<1> QED BY <1>4, <1>6, <1>7, <1>8, <1>9 DEF ClientInv

\* A "dsq" for others, or one that is dropped.
LEMMA DropReadyStep ==
  ASSUME IndInv, ~Preemption, NEW a \in Clients, DropReady(a)
  PROVE  PoolInv' /\ \A c \in Clients : ClientInv(c)'
<1>1. /\ Arrived(a, "dsq") /\ Ignored(a)
      /\ UNCHANGED <<pool, client, submit, reset, asked, toPool, failed, overtaken>>
  BY DEF DropReady, threads
<1>2. TypeOK /\ ~Mine(a, Message(a))
  BY <1>1, HeadOff, Kinds DEF IndInv
<1>3. ClientInv(a)'
  BY <1>1, <1>2, Unread
<1>4. \A c \in Clients \ {a} : toClient'[c] = toClient[c]
  BY <1>1, <1>2, HeadOff
<1> QED BY <1>1, <1>3, <1>4, OneClient DEF IndInv

\* Preparing the entry keeps the invariant.
LEMMA PrepareStep ==
  ASSUME IndInv, ~Preemption, NEW a \in Clients, Prepare(a)
  PROVE  PoolInv' /\ \A c \in Clients : ClientInv(c)'
<1> DEFINE p == client[a]
           u == client'[a]
           m == Message(a)
           q == toClient[a]
<1>1. /\ Arrived(a, "dsq") /\ Ignored(a)
      /\ p.submitted /\ p.state = "QUEUE" /\ p.entry = None
      /\ client' = [client EXCEPT ![a].locked = TRUE]
      /\ submit' = [submit EXCEPT ![a] = "locked"]
      /\ UNCHANGED <<pool, reset, asked, toPool, failed, overtaken>>
  BY DEF Prepare, history, Pending
<1>2. TypeOK /\ ClientInv(a) /\ p \in ClientType /\ client \in [Clients -> ClientType]
      /\ submit \in [Clients -> {"none", "locked", "listed"}]
  BY Types DEF IndInv, TypeOK
<1>3. /\ submit[a] = "none" /\ reset[a] = "none"
      /\ \A c \in Clients \ {a} : toClient'[c] = toClient[c]
      /\ m \in Messages /\ m.type = "dsq"
      /\ ToSet(q) = {m} \cup ToSet(q')
      /\ \A x, y : Before(q', x, y) => Before(q, x, y)
      /\ \A n \in ToSet(q') : Before(q, m, n)
      /\ Contains(q', Ready) => Contains(q, Ready)
      /\ m = Ready => Contains(q, Ready)
  BY <1>1, <1>2, HeadOff
<1>4. m = Ready
  BY <1>3 DEF Messages, Ready
<1>5. /\ u.state = "QUEUE" /\ u.entry = None /\ u.submitted /\ u.locked /\ u.session = p.session
      /\ u.age = p.age
      /\ submit'[a] = "locked"
      /\ \A c \in Clients \ {a} : client'[c] = client[c] /\ submit'[c] = submit[c]
  <2>1. u = [p EXCEPT !.locked = TRUE] /\ \A c \in Clients \ {a} : client'[c] = client[c]
    BY <1>1, <1>2
  <2>2. submit'[a] = "locked" /\ \A c \in Clients \ {a} : submit'[c] = submit[c]
    BY <1>1, <1>2
  <2> HIDE DEF p, u
  <2> QED BY <1>1, <1>2, <2>1, <2>2 DEF ClientType, p
<1>6. /\ Good(a)' <=> Good(a)
      /\ Committed(a)' <=> Committed(a)
  BY <1>1 DEF Good, Committed
<1> HIDE DEF p, u, m, q
<1>7. m \in ToSet(q) /\ \A n \in ToSet(q') : n \in ToSet(q)
  BY <1>3
<1>8. ~(Good(a) /\ Committed(a))
  BY <1>2, <1>3, <1>7, CommittedMessages DEF q
<1>9. ThreadInv(a) /\ p.session # 0
  BY <1>1, <1>2 DEF ClientInv, ThreadInv, p
<1>10. Good(a) => toPool[a] = <<>> /\ \A n \in ToSet(q) : ~Answer(n)
  BY <1>1, <1>2, <1>8, <1>9 DEF ClientInv, UncommittedInv, Outstanding, Deaf, p, q
<1>11. WireInv(a)' /\ EntryInv(a)' /\ ThreadInv(a)'
  BY <1>1, <1>2, <1>3, <1>5, <1>6, <1>7, <1>9 DEF ClientInv, WireInv, EntryInv, ThreadInv, u, q
<1>12. AnsweringInv(a)'
  <2>1. Answering(a)
    BY <1>3, <1>4 DEF Answering, q
  <2>2. \A d \in Clients : Good(d)' => Good(d)
    BY <1>1 DEF Good
  <2> QED BY <1>1, <1>2, <2>1, <2>2 DEF ClientInv, AnsweringInv
<1>13. RequestInv(a)'
  BY <1>1, <1>6, <1>10, Requests DEF RequestInv
<1>14. SuffixInv(a)'
  <2>1. Good(a) /\ pool.users # 0 => \A n \in ToSet(q') : AfterReady(n)
    BY <1>2, <1>3, <1>4, <1>7 DEF ClientInv, SuffixInv, q
  <2> QED BY <1>1, <1>6, <2>1 DEF SuffixInv, AfterReady, q
<1>15. UncommittedInv(a)'
  <2>1. UncommittedInv(a)
    BY <1>2 DEF ClientInv
  <2>2. Good(a) => ~Outstanding(a)'
    BY <1>1, <1>7, <1>10 DEF Outstanding, q
  <2>3. Good(a) => \A n \in ToSet(q') : ~Yes(n) /\ ~Mine(a, n)
    BY <1>7, <1>8, <1>10, <2>1, Kinds DEF UncommittedInv, q
  <2> QED BY <1>1, <1>5, <1>6, <1>10, <2>2, <2>3, Requests DEF UncommittedInv, u, q
<1>16. CommittedInv(a)' /\ SigningInv(a)'
  BY <1>6, <1>8 DEF CommittedInv, SigningInv, Committed
<1>17. ClientInv(a)'
  BY <1>11, <1>12, <1>13, <1>14, <1>15, <1>16 DEF ClientInv
<1> QED BY <1>1, <1>3, <1>5, <1>17, OneClient DEF IndInv

\* A client that submits gives up.
LEMMA GivesUp ==
  ASSUME NEW a \in Clients, ClientInv(a), submit[a] # "none", pool' = pool,
         client'[a].session = 0, client'[a].entry = None, client'[a].state = "IDLE",
         submit'[a] = "none", reset'[a] = reset[a],
         UNCHANGED <<toPool, toClient, asked, failed, overtaken>>
  PROVE  ClientInv(a)'
<1>1. ~(Good(a) /\ Committed(a))
  BY DEF ClientInv, CommittedInv
<1>2. /\ Good(a)' <=> Good(a)
      /\ Committed(a)' <=> Committed(a)
  BY DEF Good, Committed
<1>3. WireInv(a)' /\ EntryInv(a)' /\ ThreadInv(a)'
  BY <1>2 DEF ClientInv, WireInv, EntryInv, ThreadInv
<1>4. AnsweringInv(a)'
  <2>1. Answering(a)' => Answering(a)
    BY DEF Answering
  <2>2. \A d \in Clients : Good(d)' => Good(d)
    BY DEF Good
  <2> QED BY <2>1, <2>2 DEF ClientInv, AnsweringInv
<1>5. RequestInv(a)'
  BY <1>2 DEF ClientInv, RequestInv
<1>6. SuffixInv(a)'
  BY <1>2 DEF ClientInv, SuffixInv, AfterReady
<1>7. UncommittedInv(a)'
  BY <1>2 DEF ClientInv, UncommittedInv, Outstanding
<1>8. CommittedInv(a)' /\ SigningInv(a)'
  BY <1>1, <1>2 DEF CommittedInv, SigningInv, Committed
<1> QED BY <1>3, <1>4, <1>5, <1>6, <1>7, <1>8 DEF ClientInv

\* Listing the coins keeps the invariant.
LEMMA ListCoinsStep ==
  ASSUME IndInv, ~Preemption, NEW a \in Clients, ListCoins(a)
  PROVE  PoolInv' /\ \A c \in Clients : ClientInv(c)'
<1> DEFINE p == client[a]
           l == [p EXCEPT !.listed = TRUE]
<1>1. /\ submit[a] = "locked"
      /\ \/ /\ client' = [client EXCEPT ![a] = l]
            /\ submit' = [submit EXCEPT ![a] = "listed"]
         \/ /\ client' = [client EXCEPT ![a] = SetNull(UnlockCoins(l))]
            /\ submit' = [submit EXCEPT ![a] = "none"]
      /\ UNCHANGED <<pool, reset, asked, toPool, toClient, failed, overtaken>>
  BY DEF ListCoins, Step, links, history
<1>2. /\ TypeOK /\ ClientInv(a) /\ p \in ClientType /\ client \in [Clients -> ClientType]
      /\ submit \in [Clients -> {"none", "locked", "listed"}]
  BY Types DEF IndInv, TypeOK
<1>3. /\ l \in ClientType /\ l.state = p.state /\ l.entry = p.entry /\ l.session = p.session
      /\ l.submitted = p.submitted /\ l.locked = p.locked /\ l.age = p.age
  BY <1>2 DEF ClientType
<1>4. /\ \/ client'[a] = l /\ submit'[a] = "listed"
         \/ client'[a] = SetNull(UnlockCoins(l)) /\ submit'[a] = "none"
      /\ \A c \in Clients \ {a} : client'[c] = client[c] /\ submit'[c] = submit[c]
  <2> HIDE DEF l
  <2> QED BY <1>1, <1>2
<1> HIDE DEF p, l
<1>5. CASE client'[a] = l /\ submit'[a] = "listed"
  <2>1. /\ Good(a)' <=> Good(a)
        /\ Committed(a)' <=> Committed(a)
        /\ Answering(a)' <=> Answering(a)
        /\ Outstanding(a)' <=> Outstanding(a)
    BY <1>1, <1>5 DEF Good, Committed, Answering, Outstanding
  <2>2. ~(Good(a) /\ Committed(a))
    BY <1>1, <1>2 DEF ClientInv, CommittedInv
  <2>3. WireInv(a)' /\ EntryInv(a)' /\ ThreadInv(a)'
    BY <1>1, <1>2, <1>3, <1>5, <2>1 DEF ClientInv, WireInv, EntryInv, ThreadInv, p
  <2>4. AnsweringInv(a)'
    <3>1. \A d \in Clients : Good(d)' => Good(d)
      BY <1>1 DEF Good
    <3> QED BY <1>1, <1>2, <2>1, <3>1 DEF ClientInv, AnsweringInv
  <2>5. RequestInv(a)'
    BY <1>1, <1>2, <1>3, <1>5, <2>1 DEF ClientInv, RequestInv, p
  <2>6. SuffixInv(a)'
    BY <1>1, <1>2, <1>5, <2>1 DEF ClientInv, SuffixInv, AfterReady
  <2>7. UncommittedInv(a)'
    <3>1. Good(a) => ~Outstanding(a)
      BY <1>1, <1>2, <2>2 DEF ClientInv, UncommittedInv
    <3> QED BY <1>1, <1>2, <1>3, <1>5, <2>1, <2>2, <3>1 DEF ClientInv, UncommittedInv, p
  <2>8. CommittedInv(a)' /\ SigningInv(a)'
    BY <2>1, <2>2 DEF CommittedInv, SigningInv, Committed
  <2>9. ClientInv(a)'
    BY <2>3, <2>4, <2>5, <2>6, <2>7, <2>8 DEF ClientInv
  <2> QED BY <1>1, <1>4, <2>9, OneClient DEF IndInv
<1>6. CASE client'[a] = SetNull(UnlockCoins(l)) /\ submit'[a] = "none"
  <2>1. client'[a].session = 0 /\ client'[a].entry = None /\ client'[a].state = "IDLE"
    <3>1. UnlockCoins(l) \in ClientType
      BY <1>3, UnlockCoinsFields
    <3> QED BY <1>6, <3>1, SetNullFields
  <2>2. ClientInv(a)'
    BY <1>1, <1>2, <1>6, <2>1, GivesUp
  <2> QED BY <1>1, <1>4, <2>2, OneClient DEF IndInv
<1> QED BY <1>4, <1>5, <1>6

\* Sending the entry keeps the invariant.
LEMMA SendStep ==
  ASSUME IndInv, ~Preemption, NEW a \in Clients, SendDarksendDenominate(a)
  PROVE  PoolInv' /\ \A c \in Clients : ClientInv(c)'
<1> DEFINE p == client[a]
           v == UpdateState(p, "ACCEPTING")
           e == [v EXCEPT !.entry = 0]
           q == toClient[a]
<1>1. /\ submit[a] = "listed"
      /\ submit' = [submit EXCEPT ![a] = "none"]
      /\ \/ /\ client' = [client EXCEPT ![a] = e]
            /\ toPool' = [toPool EXCEPT ![a] = Append(@, "dsi")]
         \/ /\ client' = [client EXCEPT ![a] = SetNull(UnlockCoins(v))]
            /\ UNCHANGED toPool
      /\ UNCHANGED <<pool, reset, asked, toClient, failed, overtaken>>
  BY DEF SendDarksendDenominate, Step
<1>2. /\ TypeOK /\ ClientInv(a) /\ p \in ClientType /\ client \in [Clients -> ClientType]
      /\ submit \in [Clients -> {"none", "locked", "listed"}]
      /\ toPool \in [Clients -> Seq({"dsa", "dsi", "dss"})] /\ reset[a] = "none"
  BY <1>1, Types DEF IndInv, TypeOK, ClientInv, ThreadInv
<1>3. p.state = "QUEUE" /\ p.entry = None /\ p.session # 0
  BY <1>1, <1>2 DEF ClientInv, ThreadInv
<1>4. /\ v \in ClientType /\ v.state = "ACCEPTING" /\ v.age = 0 /\ v.session = p.session
      /\ v.submitted = p.submitted /\ v.locked = p.locked
  BY <1>2, <1>3, UpdateStateFields DEF States
<1> HIDE DEF v
<1>5. /\ e.state = "ACCEPTING" /\ e.entry = 0 /\ e.age = 0 /\ e.session = p.session
      /\ e.submitted = p.submitted /\ e.locked = p.locked
  BY <1>4 DEF ClientType
<1> HIDE DEF e
<1>6. /\ submit'[a] = "none"
      /\ \/ client'[a] = e /\ toPool'[a] = Append(toPool[a], "dsi")
         \/ client'[a] = SetNull(UnlockCoins(v)) /\ toPool' = toPool
      /\ \A c \in Clients \ {a} :
            client'[c] = client[c] /\ submit'[c] = submit[c] /\ toPool'[c] = toPool[c]
  BY <1>1, <1>2
<1> HIDE DEF p, q
<1>7. CASE client'[a] = e /\ toPool'[a] = Append(toPool[a], "dsi")
  <2>1. /\ Good(a)' <=> Good(a)
        /\ Committed(a)' <=> Committed(a)
    BY <1>1 DEF Good, Committed
  <2>2. ~(Good(a) /\ Committed(a))
    BY <1>1, <1>2 DEF ClientInv, CommittedInv
  <2>3. Good(a) => /\ toPool[a] = <<>> /\ \A n \in ToSet(q) : ~Answer(n)
                   /\ p.submitted /\ p.locked
                   /\ \A m \in ToSet(q) : ~Mine(a, m)
    BY <1>1, <1>2, <2>2 DEF ClientInv, UncommittedInv, Outstanding, p, q
  <2>4. Good(a) => toPool'[a] = <<"dsi">>
    BY <1>7, <2>3, Requests
  <2>5. Answering(a) /\ \A d \in Clients : Good(d)' => Good(d)
    BY <1>1 DEF Answering, Good
  <2>6. 0 # None
    BY Bounds
  <2>7. WireInv(a)' /\ EntryInv(a)' /\ ThreadInv(a)'
    BY <1>1, <1>2, <1>3, <1>5, <1>6, <1>7, <2>1 DEF ClientInv, WireInv, EntryInv, ThreadInv
  <2>8. AnsweringInv(a)'
    BY <1>1, <1>2, <2>5 DEF ClientInv, AnsweringInv
  <2>9. RequestInv(a)'
    BY <1>1, <1>2, <1>5, <1>6, <1>7, <2>1, <2>3, <2>4, <2>6, Requests DEF RequestInv, q
  <2>10. SuffixInv(a)'
    BY <1>1, <1>2, <2>1 DEF ClientInv, SuffixInv, AfterReady
  <2>11. UncommittedInv(a)'
    BY <1>1, <1>5, <1>6, <1>7, <2>1, <2>3, <2>4, <2>6, Requests, Kinds DEF UncommittedInv, q
  <2>12. CommittedInv(a)' /\ SigningInv(a)'
    BY <2>1, <2>2 DEF CommittedInv, SigningInv, Committed
  <2>13. ClientInv(a)'
    BY <2>7, <2>8, <2>9, <2>10, <2>11, <2>12 DEF ClientInv
  <2> QED BY <1>1, <1>6, <2>13, OneClient DEF IndInv
<1>8. CASE client'[a] = SetNull(UnlockCoins(v)) /\ toPool' = toPool
  <2>1. client'[a].session = 0 /\ client'[a].entry = None /\ client'[a].state = "IDLE"
    <3>1. UnlockCoins(v) \in ClientType
      BY <1>4, UnlockCoinsFields
    <3> QED BY <1>8, <3>1, SetNullFields
  <2>2. ClientInv(a)'
    BY <1>1, <1>2, <1>6, <1>8, <2>1, GivesUp
  <2> QED BY <1>1, <1>6, <2>2, OneClient DEF IndInv
<1> QED BY <1>6, <1>7, <1>8

\* "dsc" keeps the invariant.
LEMMA CompletedStep ==
  ASSUME IndInv, ~Preemption, NEW a \in Clients, CompletedTransaction(a)
  PROVE  PoolInv' /\ \A c \in Clients : ClientInv(c)'
<1> DEFINE p == client[a]
           m == Message(a)
           q == toClient[a]
           n == SetNull(UnlockCoins(p))
<1>1. /\ Arrived(a, "dsc") /\ Ignored(a)
      /\ \/ client' = [client EXCEPT ![a] = p]
         \/ client' = [client EXCEPT ![a] = n]
      /\ UNCHANGED <<pool, submit, reset, asked, toPool, failed, overtaken>>
  BY DEF CompletedTransaction, threads, history
<1>2. TypeOK /\ ClientInv(a) /\ p \in ClientType /\ client \in [Clients -> ClientType]
  BY Types DEF IndInv
<1>3. /\ submit[a] = "none" /\ reset[a] = "none"
      /\ \A c \in Clients \ {a} : toClient'[c] = toClient[c]
      /\ m.type = "dsc"
      /\ ToSet(q) = {m} \cup ToSet(q')
      /\ \A x, y : Before(q', x, y) => Before(q, x, y)
  BY <1>1, <1>2, HeadOff
<1>4. /\ Good(a)' <=> Good(a)
      /\ Committed(a)' <=> Committed(a)
  BY <1>1 DEF Good, Committed
<1>5. n.session = 0 /\ n.entry = None /\ n.state = "IDLE"
  <2>1. UnlockCoins(p) \in ClientType
    BY <1>2, UnlockCoinsFields
  <2> QED BY <2>1, SetNullFields
<1> HIDE DEF n
<1>6. /\ client'[a] = p \/ client'[a] = n
      /\ \A c \in Clients \ {a} : client'[c] = client[c]
  BY <1>1, <1>2
<1>7. CASE client'[a] = p
  <2>1. ~Mine(a, m)
    BY <1>3, Kinds
  <2>2. ClientInv(a)'
    BY <1>1, <1>7, <2>1, Unread
  <2> QED BY <1>1, <1>3, <1>6, <2>2, OneClient DEF IndInv
<1> HIDE DEF p, m, q
<1>8. CASE client'[a] = n
  <2>1. m \in ToSet(q) /\ \A x \in ToSet(q') : x \in ToSet(q)
    BY <1>3
  <2>2. WireInv(a)' /\ AnsweringInv(a)' /\ EntryInv(a)' /\ SuffixInv(a)'
    BY <1>1, <1>2, HeadOffInv
  <2>3. ~(Good(a) /\ Committed(a))
    BY <1>2, <1>3, <2>1, CommittedMessages DEF q
  <2>4. ThreadInv(a)'
    BY <1>1, <1>3, <1>5, <1>8 DEF ThreadInv
  <2>5. RequestInv(a)'
    <3>1. Good(a) /\ Contains(toPool[a], "dsi") => pool.users = 0
      BY <1>2, <1>3, <2>1 DEF ClientInv, SuffixInv, AfterReady, q
    <3> QED BY <1>1, <1>2, <1>3, <1>4, <1>5, <1>8, <2>1, <3>1 DEF ClientInv, RequestInv, q
  <2>6. UncommittedInv(a)'
    BY <1>1, <1>2, <1>3, <1>4, <1>5, <1>8, <2>1 DEF ClientInv, UncommittedInv, q
  <2>7. CommittedInv(a)' /\ SigningInv(a)'
    BY <1>4, <2>3 DEF CommittedInv, SigningInv, Committed
  <2>8. ClientInv(a)'
    BY <2>2, <2>4, <2>5, <2>6, <2>7 DEF ClientInv
  <2> QED BY <1>1, <1>3, <1>6, <2>8, OneClient DEF IndInv
<1> QED BY <1>6, <1>7, <1>8

\* Signing keeps the invariant.
LEMMA SignStep ==
  ASSUME IndInv, ~Preemption, NEW a \in Clients, SignFinalTransaction(a)
  PROVE  PoolInv' /\ \A c \in Clients : ClientInv(c)'
<1> DEFINE p == client[a]
           m == Message(a)
           q == toClient[a]
           mine == p.submitted /\ p.session = m.session /\ Pending(p) /\ a \in m.txs
<1>1. /\ Arrived(a, "dsf") /\ Ignored(a)
      /\ \/ /\ toPool' = IF mine THEN [toPool EXCEPT ![a] = Append(@, "dss")] ELSE toPool
            /\ failed' = failed
         \/ toPool' = toPool /\ failed' = failed \cup {a}
      /\ UNCHANGED <<pool, client, submit, reset, asked, overtaken>>
  BY DEF SignFinalTransaction, threads
<1>2. /\ TypeOK /\ ClientInv(a) /\ p \in ClientType
      /\ toPool \in [Clients -> Seq({"dsa", "dsi", "dss"})]
  BY Types DEF IndInv
<1>3. /\ submit[a] = "none" /\ reset[a] = "none"
      /\ \A c \in Clients \ {a} : toClient'[c] = toClient[c]
      /\ m.type = "dsf"
      /\ ToSet(q) = {m} \cup ToSet(q')
      /\ \A x, y : Before(q', x, y) => Before(q, x, y)
      /\ \A n \in ToSet(q') : Before(q, m, n)
      /\ q' # <<>> => Last(q') = Last(q)
      /\ q' = <<>> => m = Last(q)
      /\ q # <<>>
  BY <1>1, <1>2, HeadOff
<1>4. \A c \in Clients \ {a} : toPool'[c] = toPool[c]
  BY <1>1, <1>2
<1>5. CASE toPool' = toPool /\ failed' = failed \cup {a}
  <2>1. ~Good(a)'
    BY <1>5 DEF Good
  <2>2. WireInv(a)' /\ AnsweringInv(a)'
    BY <1>1, <1>2, <1>5, HeadOffInv
  <2>3. ThreadInv(a)'
    BY <1>1, <1>2 DEF ClientInv, ThreadInv
  <2>4. /\ EntryInv(a)' /\ RequestInv(a)' /\ SuffixInv(a)'
        /\ UncommittedInv(a)' /\ CommittedInv(a)' /\ SigningInv(a)'
    BY <2>1 DEF EntryInv, RequestInv, SuffixInv, UncommittedInv, CommittedInv, SigningInv
  <2>5. ClientInv(a)'
    BY <2>2, <2>3, <2>4 DEF ClientInv
  <2> QED BY <1>1, <1>3, <1>4, <1>5, <2>5, OneClient DEF IndInv
<1>6. CASE ~mine /\ toPool' = toPool /\ failed' = failed
  <2>1. ~(Good(a) /\ Mine(a, m))
    <3> SUFFICES ASSUME Good(a), Mine(a, m) PROVE FALSE
      OBVIOUS
    <3> HIDE DEF q
    <3>1. m \in ToSet(q) /\ a \in m.txs
      BY <1>3 DEF Mine
    <3>2. Committed(a)
      BY <1>2, <3>1 DEF ClientInv, UncommittedInv, q
    <3>3. pool.state = "SIGNING" /\ m.session = pool.session
      BY <1>2, <1>3, <3>1, <3>2 DEF ClientInv, CommittedInv, Expected, q
    <3>4. \A n \in ToSet(q) : ~Answer(n)
      <4>1. \A n \in ToSet(q) : Before(q, m, n) => ~Answer(n)
        BY <1>2, <3>1, <3>2, <3>3 DEF ClientInv, SigningInv, Committed, q
      <4> HIDE DEF m
      <4> QED BY <1>3, <4>1, Kinds
    <3>5. p.session = pool.session /\ p.submitted /\ p.entry # None
      BY <1>2, <3>2, <3>4, Kinds DEF ClientInv, CommittedInv, Committed, q
    <3> QED BY <1>6, <3>1, <3>3, <3>5 DEF Pending
  <2>2. ClientInv(a)'
    BY <1>1, <1>6, <2>1, Unread
  <2> QED BY <1>1, <1>3, <1>4, <1>6, <2>2, OneClient DEF IndInv
<1>7. CASE mine /\ toPool' = [toPool EXCEPT ![a] = Append(@, "dss")] /\ failed' = failed
  <2>1. toPool'[a] = Append(toPool[a], "dss") /\ toPool[a] \in Seq({"dsa", "dsi", "dss"})
    BY <1>2, <1>7
  <2>2. \A x : Contains(toPool'[a], x) <=> Contains(toPool[a], x) \/ x = "dss"
    BY <2>1, ContainsAppend
  <2>3. /\ Good(a)' <=> Good(a)
        /\ Committed(a)' <=> Committed(a)
    BY <1>1, <1>7 DEF Good, Committed
  <2>4. Mine(a, m) /\ m \in ToSet(q) /\ \A n \in ToSet(q') : n \in ToSet(q)
    BY <1>3, <1>7 DEF Mine
  <2> HIDE DEF m, q, p
  <2>5. Good(a) =>
          /\ Committed(a) /\ pool.state = "SIGNING" /\ pool.entries[a] # None
          /\ pool.age = 0 /\ toPool[a] = <<>> /\ a \notin pool.signed
          /\ \A n \in ToSet(q') : ~Mine(a, n) /\ ~Answer(n)
    <3> SUFFICES ASSUME Good(a)
                 PROVE  /\ Committed(a) /\ pool.state = "SIGNING" /\ pool.entries[a] # None
                        /\ pool.age = 0 /\ toPool[a] = <<>> /\ a \notin pool.signed
                        /\ \A n \in ToSet(q') : ~Mine(a, n) /\ ~Answer(n)
      OBVIOUS
    <3>1. Committed(a)
      BY <1>2, <2>4 DEF ClientInv, UncommittedInv, q
    <3>2. pool.state = "SIGNING"
      BY <1>2, <1>3, <2>4, <3>1 DEF ClientInv, CommittedInv, Expected, q
    <3>3. pool.entries[a] # None
      BY <3>1 DEF Committed
    <3>4. /\ pool.age = 0 /\ toPool[a] = <<>> /\ a \notin pool.signed
          /\ \A n \in ToSet(q) : Before(q, m, n) => ~Mine(a, n) /\ ~Answer(n)
      BY <1>2, <2>4, <3>2, <3>3 DEF ClientInv, SigningInv, q
    <3> QED BY <1>3, <2>4, <3>1, <3>2, <3>3, <3>4
  <2>6. Good(a) => toPool'[a] = <<"dss">>
    BY <2>1, <2>5, Requests
  <2>7. WireInv(a)' /\ ThreadInv(a)' /\ EntryInv(a)'
    BY <1>1, <1>2, <2>3, <2>4 DEF ClientInv, WireInv, ThreadInv, EntryInv, q
  <2>8. AnsweringInv(a)'
    <3>1. Contains(q', Ready) => Contains(q, Ready)
      BY <1>1, <1>2, HeadOff DEF q
    <3>2. Answering(a)' => Answering(a)
      BY <1>1, <2>2, <3>1 DEF Answering, q
    <3>3. \A d \in Clients : Good(d)' => Good(d)
      BY <1>1, <1>7 DEF Good
    <3> QED BY <1>1, <1>2, <3>2, <3>3 DEF ClientInv, AnsweringInv
  <2>9. RequestInv(a)'
    BY <2>3, <2>6, Requests DEF RequestInv
  <2>10. SuffixInv(a)'
    BY <1>1, <1>2, <1>3, <2>2, <2>3, <2>4 DEF ClientInv, SuffixInv, AfterReady, q
  <2>11. UncommittedInv(a)'
    BY <2>3, <2>5 DEF UncommittedInv
  <2>12. CommittedInv(a)'
    <3> SUFFICES ASSUME Good(a) PROVE CommittedInv(a)'
      BY <2>3 DEF CommittedInv
    <3>1. CommittedInv(a) /\ \A n \in ToSet(q) : ~Yes(n)
      <4>1. ~Yes(m)
        BY <1>3, Kinds
      <4> QED BY <1>2, <1>3, <2>5, <4>1, Kinds DEF ClientInv
    <3>2. \A n \in ToSet(q') : Expected(n) => Expected(n)'
      BY <1>1 DEF Expected
    <3> QED BY <1>1, <2>4, <2>5, <2>6, <3>1, <3>2 DEF CommittedInv, q
  <2>13. SigningInv(a)'
    <3> SUFFICES ASSUME Good(a) PROVE SigningInv(a)'
      BY <2>3 DEF SigningInv
    <3>1. SigningInv(a)
      BY <1>2 DEF ClientInv
    <3>2. q' # <<>> /\ Last(q') = Reset(pool)
      <4>1. m # Reset(pool)
        BY <1>3, Kinds
      <4> QED BY <1>3, <2>5, <3>1, <4>1 DEF SigningInv, q
    <3> QED BY <1>1, <2>5, <2>6, <3>2 DEF SigningInv, q
  <2>14. ClientInv(a)'
    BY <2>7, <2>8, <2>9, <2>10, <2>11, <2>12, <2>13 DEF ClientInv
  <2> QED BY <1>1, <1>3, <1>4, <1>7, <2>14, OneClient DEF IndInv, q
<1> QED BY <1>1, <1>5, <1>6, <1>7

\* The timeouts of a client leave one alone that waits for its session to end.
LEMMA NotDue ==
  ASSUME TypeOK, PoolInv, NEW c \in Clients, ClientInv(c), Good(c), Committed(c)
  PROVE  Due(client[c]) = "none"
<1> DEFINE p == client[c]
<1>1. /\ p.entry = pool.entries[c] /\ p.age <= p.entry /\ p.state # "ERROR"
      /\ pool.state = "ACCEPTING" => p.state \in Waiting
      /\ pool.entries[c] # None
      /\ pool.state # "SIGNING" => pool.entries[c] < QueueTimeout
  BY DEF ClientInv, CommittedInv, Committed
<1>2. p \in ClientType /\ pool.entries[c] \in Ages /\ pool.age \in Ages
  BY <1>1, Types
<1>3. p.age \in Nat /\ p.entry \in Nat /\ p.state \in States /\ pool.age \in Nat
  BY <1>1, <1>2, Bounds DEF ClientType
<1>4. CASE pool.state = "ACCEPTING"
  <2>1. ~Expired(p.entry) /\ ~(p.age >= QueueTimeout + Lag) /\ p.state \in Waiting
    BY <1>1, <1>3, <1>4, Bounds DEF Expired
  <2> QED BY <2>1 DEF Due, Waiting
<1>5. CASE pool.state = "SIGNING"
  <2>1. p.entry = pool.age /\ pool.age <= SigningTimeout /\ (pool.age > 0 => p.state = "SIGNING")
    BY <1>1, <1>5 DEF PoolInv, ClientInv, EntryInv, SigningInv
  <2>2. ~(p.age >= SigningTimeout + Lag) /\ ~(p.age >= QueueTimeout + Lag)
    BY <1>1, <1>3, <2>1, Bounds
  <2>3. p.state \in Waiting => ~Expired(p.entry)
    BY <1>3, <2>1, Bounds DEF Expired, Waiting
  <2> HIDE DEF p
  <2>4. Due(p) = "none"
    BY <1>1, <2>2, <2>3 DEF Due, Waiting
  <2> QED BY <2>4 DEF p
<1>6. pool.state \in {"ACCEPTING", "SIGNING"}
  BY <1>1 DEF ClientInv, EntryInv
<1> QED BY <1>4, <1>5, <1>6

\* The first half of a timeout of a client keeps the invariant.
LEMMA TimeoutUnlockStep ==
  ASSUME IndInv, ~Preemption, NEW a \in Clients, TimeoutUnlock(a)
  PROVE  PoolInv' /\ \A c \in Clients : ClientInv(c)'
<1> DEFINE p == client[a]
           u == UnlockCoins(p)
           q == toClient[a]
<1>1. /\ reset[a] = "none" /\ submit[a] = "none" /\ Due(p) # "none"
      /\ reset' = [reset EXCEPT ![a] = Due(p)]
      /\ client' = [client EXCEPT ![a] = u]
      /\ UNCHANGED <<pool, submit, asked, toPool, toClient, failed, overtaken>>
  BY DEF TimeoutUnlock, links, history
<1>2. /\ TypeOK /\ PoolInv /\ ClientInv(a) /\ p \in ClientType /\ client \in [Clients -> ClientType]
      /\ reset \in [Clients -> {"none", "IDLE", "ERROR"}]
  BY Types DEF IndInv, TypeOK
<1>3. /\ u.state = p.state /\ u.session = p.session /\ u.entry = p.entry
      /\ u.submitted = p.submitted
  BY <1>2, UnlockCoinsFields
<1> HIDE DEF u
<1>4. client'[a] = u /\ \A c \in Clients \ {a} : client'[c] = client[c] /\ reset'[c] = reset[c]
  BY <1>1, <1>2
<1>5. /\ Good(a)' <=> Good(a)
      /\ Committed(a)' <=> Committed(a)
      /\ Answering(a)' <=> Answering(a)
  BY <1>1 DEF Good, Committed, Answering
<1>6. ~(Good(a) /\ Committed(a))
  BY <1>1, <1>2, NotDue
<1>7. Good(a) /\ Contains(toPool[a], "dsi") => p.entry = None
  <2> SUFFICES ASSUME Good(a), Contains(toPool[a], "dsi"), p.entry # None PROVE FALSE
    OBVIOUS
  <2>1. p.entry = 0 /\ p.age = 0
    BY <1>2 DEF ClientInv, RequestInv
  <2> HIDE DEF p
  <2>2. Due(p) = "none"
    BY <2>1, Bounds DEF Due, Expired
  <2> QED BY <1>1, <2>2
<1> HIDE DEF p, q
<1>8. WireInv(a)' /\ EntryInv(a)' /\ ThreadInv(a)' /\ SuffixInv(a)'
  BY <1>1, <1>2, <1>3, <1>4, <1>5 DEF ClientInv, WireInv, EntryInv, ThreadInv, SuffixInv, AfterReady, p
<1>9. AnsweringInv(a)'
  <2>1. \A d \in Clients : Good(d)' => Good(d)
    BY <1>1 DEF Good
  <2> QED BY <1>1, <1>2, <1>5, <2>1 DEF ClientInv, AnsweringInv
<1>10. RequestInv(a)'
  BY <1>1, <1>2, <1>3, <1>4, <1>5, <1>7 DEF ClientInv, RequestInv, p
<1>11. UncommittedInv(a)'
  BY <1>1, <1>2, <1>3, <1>4, <1>5 DEF ClientInv, UncommittedInv, Outstanding, Deaf, p
<1>12. CommittedInv(a)' /\ SigningInv(a)'
  BY <1>5, <1>6 DEF CommittedInv, SigningInv, Committed
<1>13. ClientInv(a)'
  BY <1>8, <1>9, <1>10, <1>11, <1>12 DEF ClientInv
<1> QED BY <1>1, <1>4, <1>13, OneClient DEF IndInv

\* The second half of a timeout of a client keeps the invariant.
LEMMA TimeoutNullStep ==
  ASSUME IndInv, ~Preemption, NEW a \in Clients, TimeoutNull(a)
  PROVE  PoolInv' /\ \A c \in Clients : ClientInv(c)'
<1> DEFINE p == client[a]
           u == TimedOut(p, reset[a])
<1>1. /\ reset[a] # "none"
      /\ reset' = [reset EXCEPT ![a] = "none"]
      /\ client' = [client EXCEPT ![a] = u]
      /\ UNCHANGED <<pool, submit, asked, toPool, toClient, failed, overtaken>>
  BY DEF TimeoutNull, links, history
<1>2. /\ TypeOK /\ PoolInv /\ ClientInv(a) /\ p \in ClientType /\ client \in [Clients -> ClientType]
      /\ reset \in [Clients -> {"none", "IDLE", "ERROR"}]
  BY Types DEF IndInv, TypeOK
<1>3. u.session = 0 /\ u.entry = None /\ u.state \in {"IDLE", "ERROR"}
  <2>1. reset[a] \in {"IDLE", "ERROR"} /\ reset[a] \in States
    BY <1>1, <1>2 DEF States
  <2>2. SetNull(p) \in ClientType /\ SetNull(p).session = 0 /\ SetNull(p).entry = None
    BY <1>2, SetNullFields
  <2> HIDE DEF p
  <2> QED BY <2>1, <2>2, UpdateStateFields DEF TimedOut
<1> HIDE DEF u
<1>4. /\ client'[a] = u /\ reset'[a] = "none"
      /\ \A c \in Clients \ {a} : client'[c] = client[c] /\ reset'[c] = reset[c]
  BY <1>1, <1>2
<1>5. /\ Good(a)' <=> Good(a)
      /\ Committed(a)' <=> Committed(a)
      /\ Answering(a)' <=> Answering(a)
  BY <1>1 DEF Good, Committed, Answering
<1>6. ~(Good(a) /\ Committed(a)) /\ submit[a] = "none"
  BY <1>1, <1>2 DEF ClientInv, CommittedInv, ThreadInv
<1>7. Good(a) /\ Contains(toPool[a], "dsi") => pool.users = 0
  BY <1>1, <1>2 DEF ClientInv, RequestInv
<1> HIDE DEF p
<1>8. WireInv(a)' /\ EntryInv(a)' /\ ThreadInv(a)' /\ SuffixInv(a)'
  BY <1>1, <1>2, <1>3, <1>4, <1>5, <1>6 DEF ClientInv, WireInv, EntryInv, ThreadInv, SuffixInv, AfterReady
<1>9. AnsweringInv(a)'
  <2>1. \A d \in Clients : Good(d)' => Good(d)
    BY <1>1 DEF Good
  <2> QED BY <1>1, <1>2, <1>5, <2>1 DEF ClientInv, AnsweringInv
<1>10. RequestInv(a)'
  BY <1>1, <1>2, <1>3, <1>4, <1>5, <1>6, <1>7 DEF ClientInv, RequestInv
<1>11. UncommittedInv(a)'
  BY <1>1, <1>2, <1>3, <1>4, <1>5, <1>6 DEF ClientInv, UncommittedInv, Outstanding
<1>12. CommittedInv(a)' /\ SigningInv(a)'
  BY <1>5, <1>6 DEF CommittedInv, SigningInv, Committed
<1>13. ClientInv(a)'
  BY <1>8, <1>9, <1>10, <1>11, <1>12 DEF ClientInv
<1> QED BY <1>1, <1>4, <1>13, OneClient DEF IndInv

\* A restart of a client keeps the invariant.
LEMMA RestartStep ==
  ASSUME IndInv, NEW a \in Clients, Restart(a)
  PROVE  PoolInv' /\ \A c \in Clients : ClientInv(c)'
<1>1. /\ failed' = failed \cup {a}
      /\ client' = [client EXCEPT ![a] = NewClient]
      /\ submit' = [submit EXCEPT ![a] = "none"]
      /\ reset' = [reset EXCEPT ![a] = "none"]
      /\ toPool' = [toPool EXCEPT ![a] = <<>>] /\ toClient' = [toClient EXCEPT ![a] = <<>>]
      /\ UNCHANGED <<pool, asked, overtaken>>
  BY DEF Restart
<1>2. /\ client \in [Clients -> ClientType]
      /\ submit \in [Clients -> {"none", "locked", "listed"}]
      /\ reset \in [Clients -> {"none", "IDLE", "ERROR"}]
      /\ toPool \in [Clients -> Seq({"dsa", "dsi", "dss"})]
      /\ toClient \in [Clients -> Seq(Messages)]
  BY DEF IndInv, TypeOK, ClientType
<1>3. /\ client'[a] = NewClient /\ submit'[a] = "none" /\ reset'[a] = "none"
      /\ toPool'[a] = <<>> /\ toClient'[a] = <<>>
      /\ \A c \in Clients \ {a} :
            /\ client'[c] = client[c] /\ submit'[c] = submit[c] /\ reset'[c] = reset[c]
            /\ toPool'[c] = toPool[c] /\ toClient'[c] = toClient[c]
  BY <1>1, <1>2
<1>4. ~Good(a)'
  BY <1>1 DEF Good
<1>5. NewClient.session = 0 /\ NewClient.state = "IDLE" /\ NewClient.entry = None
  BY DEF NewClient
<1>6. WireInv(a)' /\ ThreadInv(a)'
  BY <1>3, <1>5, OfTuples DEF WireInv, ThreadInv
<1>7. AnsweringInv(a)'
  <2>1. ~Answering(a)'
    <3>1. \A x : ~Contains(<<>>, x)
      BY DEF Contains
    <3> QED BY <1>3, <3>1 DEF Answering
  <2> QED BY <2>1 DEF AnsweringInv
<1>8. /\ EntryInv(a)' /\ RequestInv(a)' /\ SuffixInv(a)'
      /\ UncommittedInv(a)' /\ CommittedInv(a)' /\ SigningInv(a)'
  BY <1>4 DEF EntryInv, RequestInv, SuffixInv, UncommittedInv, CommittedInv, SigningInv
<1>9. ClientInv(a)'
  BY <1>6, <1>7, <1>8 DEF ClientInv
<1> QED BY <1>1, <1>3, <1>9, OneClient DEF IndInv

-----------------------------------------------------------------------------
(* Steps of the alphanode *)

\* Contains says what is in the set of the elements.
LEMMA OfContains ==
  ASSUME NEW S, NEW q \in Seq(S), NEW x
  PROVE  Contains(q, x) <=> x \in ToSet(q)
<1>1. DOMAIN q = 1..Len(q)
  OBVIOUS
<1> QED BY <1>1 DEF Contains, ToSet

\* A client that neither is told anything nor has its entry touched.
LEMMA Onlooker ==
  ASSUME NEW c \in Clients, ClientInv(c),
         pool'.session = pool.session, pool'.state = pool.state, pool'.entries = pool.entries,
         pool'.signed = pool.signed, pool'.users = 0 <=> pool.users = 0,
         pool'.age = pool.age \/ (pool.state # "SIGNING" /\ pool'.age = 0),
         UNCHANGED <<client, submit, reset, asked, failed, overtaken>>,
         toPool'[c] = toPool[c], toClient'[c] = toClient[c]
  PROVE  ClientInv(c)'
<1>1. Good(c)' <=> Good(c)
  BY DEF Good
<1>2. /\ Committed(c)' <=> Committed(c)
      /\ Answering(c)' <=> Answering(c)
      /\ Outstanding(c)' <=> Outstanding(c)
      /\ Reset(pool)' = Reset(pool)
      /\ \A m : Expected(m)' <=> Expected(m)
      /\ \A m : AfterReady(m)' <=> AfterReady(m)
  BY DEF Committed, Answering, Outstanding, Expected, AfterReady, Reset, Status
<1>3. WireInv(c)' /\ ThreadInv(c)'
  BY DEF ClientInv, WireInv, ThreadInv
<1>4. AnsweringInv(c)'
  <2>1. \A d \in Clients : Good(d)' => Good(d)
    BY DEF Good
  <2> QED BY <1>2, <2>1 DEF ClientInv, AnsweringInv
<1>5. EntryInv(c)'
  BY <1>1 DEF ClientInv, EntryInv
<1>6. RequestInv(c)'
  BY <1>1 DEF ClientInv, RequestInv
<1>7. SuffixInv(c)'
  BY <1>1, <1>2 DEF ClientInv, SuffixInv
<1>8. UncommittedInv(c)'
  BY <1>1, <1>2 DEF ClientInv, UncommittedInv
<1>9. CommittedInv(c)'
  BY <1>1, <1>2 DEF ClientInv, CommittedInv
<1>10. SigningInv(c)'
  BY <1>1, <1>2 DEF ClientInv, SigningInv
<1> QED BY <1>3, <1>4, <1>5, <1>6, <1>7, <1>8, <1>9, <1>10 DEF ClientInv

\* What a client has on its way, when the alphanode takes a "dsa" or "dsi" of it.
LEMMA Request ==
  ASSUME NEW a \in Clients, ClientInv(a), Good(a),
         toPool[a] # <<>>, Head(toPool[a]) \in {"dsa", "dsi"}
  PROVE  /\ ~Committed(a) /\ submit[a] = "none"
         /\ \A m \in ToSet(toClient[a]) : ~Yes(m)
         /\ Head(toPool[a]) = "dsa" => toPool[a] = <<"dsa">> /\ Tail(toPool[a]) = <<>> /\ a \in asked
         /\ Head(toPool[a]) = "dsi" => Contains(toPool[a], "dsi")
         /\ Tail(toPool[a]) \in {<<>>, <<"dsa">>}
         /\ Tail(toPool[a]) = <<"dsa">> => Contains(toPool[a], "dsa")
<1>1. toPool[a] \in {<<"dsa">>, <<"dsi">>, <<"dsi", "dsa">>}
  BY Requests DEF ClientInv, RequestInv
<1>2. ~Committed(a)
  BY <1>1, Requests DEF ClientInv, CommittedInv
<1>3. submit[a] = "none" /\ \A m \in ToSet(toClient[a]) : ~Yes(m)
  BY <1>1, <1>2, Requests DEF ClientInv, UncommittedInv, Outstanding
<1> QED BY <1>1, <1>2, <1>3, Requests DEF ClientInv, RequestInv

\* A client whose request is answered: "dsa" or "dsi" with a no, or "dsa" with
\* a yes of a session.
LEMMA Answered ==
  ASSUME TypeOK, PoolInv, NEW a \in Clients, ClientInv(a), NEW x \in {0, 1},
         pool'.session = pool.session, pool'.state = pool.state, pool'.entries = pool.entries,
         pool'.signed = pool.signed, pool'.users = 0 <=> pool.users = 0,
         pool'.age = pool.age \/ (pool.state # "SIGNING" /\ pool'.age = 0),
         pool' \in PoolType,
         UNCHANGED <<client, submit, reset, asked, failed, overtaken>>,
         toPool[a] # <<>>, Head(toPool[a]) \in {"dsa", "dsi"},
         x = 1 => Head(toPool[a]) = "dsa" /\ pool.users # 0,
         toPool'[a] = Tail(toPool[a]), toClient'[a] = Append(toClient[a], Status(pool', x))
  PROVE  ClientInv(a)'
<1> DEFINE q == toClient[a]
           new == Status(pool', x)
<1>1. /\ toClient[a] \in Seq(Messages) /\ toPool[a] \in Seq({"dsa", "dsi", "dss"})
  BY Types
<1>2. /\ new.type = "dssu" /\ new.session = pool.session /\ new.state = pool.state
      /\ new.accepted = x /\ Answer(new) /\ (Yes(new) => x = 1) /\ \A c : ~Mine(c, new)
      /\ new # Ready
  BY Bounds DEF Status, Answer, Yes, Mine, Ready
<1>3. new \in Messages
  <2>1. pool'.session \in Nat /\ pool'.state \in States
    BY DEF PoolType
  <2> QED BY <2>1, Bounds DEF Status, Messages
<1> HIDE DEF new
<1>4. /\ ToSet(q') = ToSet(q) \cup {new}
      /\ \A m, n : Before(q', m, n) => Before(q, m, n) \/ (m \in ToSet(q) /\ n = new)
      /\ q' \in Seq(Messages)
  BY <1>1, <1>3, OfAppend DEF new
<1> HIDE DEF q
<1>5. Good(a)' <=> Good(a)
  BY DEF Good
<1>6. /\ Committed(a)' <=> Committed(a)
      /\ Reset(pool)' = Reset(pool)
      /\ \A m : AfterReady(m)' <=> AfterReady(m)
  BY DEF Committed, AfterReady, Reset, Status
<1>7. /\ Contains(toPool'[a], "dsi") => Contains(toPool[a], "dsi")
      /\ Contains(toPool'[a], "dsa") => Contains(toPool[a], "dsa")
  BY <1>1, ContainsTail
<1>8. Answering(a)' => Answering(a)
  <2>1. Contains(q', Ready) => Contains(q, Ready)
    BY <1>1, <1>2, <1>4, OfContains DEF q
  <2> QED BY <1>7, <2>1 DEF Answering, q
<1>9. Good(a) => ~Committed(a)
  BY Request
<1>10. WireInv(a)'
  <2>1. pool.session = 0 => pool.state \in Idle /\ x # 1
    BY DEF PoolInv
  <2> QED BY <1>2, <1>4, <2>1 DEF ClientInv, WireInv, q
<1>11. ThreadInv(a)' /\ EntryInv(a)'
  BY <1>5 DEF ClientInv, ThreadInv, EntryInv
<1>12. AnsweringInv(a)'
  <2>1. \A d \in Clients : Good(d)' => Good(d)
    BY DEF Good
  <2> QED BY <1>8, <2>1 DEF ClientInv, AnsweringInv
<1>13. RequestInv(a)'
  <2> SUFFICES ASSUME Good(a) PROVE RequestInv(a)'
    BY <1>5 DEF RequestInv
  <2>1. toPool'[a] \in {<<>>, <<"dsa">>} /\ (toPool'[a] = <<"dsa">> => Contains(toPool[a], "dsa"))
    BY Request
  <2> QED BY <2>1, Requests DEF ClientInv, RequestInv
<1>14. SuffixInv(a)'
  <2> SUFFICES ASSUME Good(a), pool.users # 0 PROVE SuffixInv(a)'
    BY <1>5 DEF SuffixInv
  <2>1. AfterReady(new)
    BY <1>2 DEF AfterReady
  <2> QED BY <1>4, <1>5, <1>6, <1>7, <2>1 DEF ClientInv, SuffixInv, q
<1>15. UncommittedInv(a)'
  <2> SUFFICES ASSUME Good(a) PROVE UncommittedInv(a)'
    BY <1>5 DEF UncommittedInv
  <2>1. UncommittedInv(a) /\ Outstanding(a)
    BY DEF ClientInv, Outstanding
  <2>2. toPool'[a] # <<"dss">>
    BY Request, Requests
  <2>3. \A m \in ToSet(q') : Yes(m) =>
          /\ toPool'[a] = <<>> /\ a \in asked
          /\ \A n \in ToSet(q') : Before(q', m, n) => ~Answer(n)
    <3>1. \A m \in ToSet(q) : ~Yes(m)
      BY Request DEF q
    <3>2. \A m \in ToSet(q') : Yes(m) => m = new /\ m \notin ToSet(q) /\ x = 1
      BY <1>2, <1>4, <3>1
    <3>3. \A m \in ToSet(q') : Yes(m) => \A n : ~Before(q', m, n)
      <4>1. \A m, n : Before(q, m, n) => m \in ToSet(q)
        <5>1. DOMAIN q = 1..Len(q)
          BY <1>1 DEF q
        <5> QED BY <5>1 DEF Before, ToSet
      <4> QED BY <1>4, <3>2, <4>1
    <3>4. x = 1 => toPool'[a] = <<>> /\ a \in asked
      BY Request
    <3> QED BY <3>2, <3>3, <3>4
  <2>4. \A m \in ToSet(q') : ~Mine(a, m)
    BY <1>2, <1>4, <1>9, <2>1 DEF UncommittedInv, q
  <2> QED BY <1>9, <2>1, <2>2, <2>3, <2>4 DEF UncommittedInv, q
<1>16. CommittedInv(a)' /\ SigningInv(a)'
  BY <1>5, <1>6, <1>9 DEF CommittedInv, SigningInv, Committed
<1> QED BY <1>10, <1>11, <1>12, <1>13, <1>14, <1>15, <1>16 DEF ClientInv

\* A client that hears, or does not hear, what the state of the alphanode is.
LEMMA HearsReset ==
  ASSUME TypeOK, PoolInv, NEW c \in Clients, ClientInv(c),
         pool'.session = pool.session, pool'.state = pool.state, pool'.users = pool.users,
         pool'.age = pool.age, c \in pool'.signed <=> c \in pool.signed,
         \/ pool'.entries[c] = pool.entries[c]
         \/ pool'.entries[c] = None /\ pool.state # "SIGNING" /\ ~Committed(c),
         \A d \in Clients : pool'.entries[d] \in {pool.entries[d], None, 0},
         UNCHANGED <<client, submit, reset, asked, failed, overtaken>>,
         toPool'[c] = toPool[c], NEW s \in Seq(Messages), \A m \in ToSet(s) : m = Reset(pool),
         toClient'[c] \in {toClient[c], toClient[c] \o s}
  PROVE  ClientInv(c)'
<1> DEFINE q == toClient[c]
           r == Reset(pool)
<1>1. q \in Seq(Messages) /\ s \in Seq(Messages)
  BY Types
<1>2. /\ r.type = "dssu" /\ r.session = pool.session /\ r.state = pool.state
      /\ r.accepted = None /\ ~Answer(r) /\ ~Yes(r) /\ \A x : ~Mine(x, r)
      /\ r # Ready
  BY Kinds DEF Mine, Ready
<1>3. /\ \A m \in ToSet(q') : m \in ToSet(q) \/ m = r
      /\ \A m \in ToSet(q) : m \in ToSet(q')
      /\ \A m, n : Before(q', m, n) => n = r \/ Before(q, m, n)
      /\ q' \in Seq(Messages)
      /\ q' = <<>> => q = <<>>
      /\ q' # <<>> => Last(q') = r \/ (q # <<>> /\ Last(q') = Last(q))
  <2> HIDE DEF r
  <2>1. CASE q' = q
    BY <1>1, <2>1
  <2>2. CASE q' = q \o s
    <3>1. /\ ToSet(q \o s) = ToSet(q) \cup ToSet(s) /\ q \o s \in Seq(Messages)
          /\ \A m, n : Before(q \o s, m, n) =>
               \/ Before(q, m, n) \/ Before(s, m, n)
               \/ m \in ToSet(q) /\ n \in ToSet(s)
          /\ s # <<>> => q \o s # <<>> /\ Last(q \o s) = Last(s)
      <4> HIDE DEF q
      <4> QED BY <1>1, OfConcat
    <3>2. \A m, n : Before(s, m, n) => n \in ToSet(s)
      <4>1. DOMAIN s = 1..Len(s)
        BY <1>1
      <4> QED BY <4>1 DEF Before, ToSet
    <3>3. s # <<>> => Last(s) \in ToSet(s)
      <4>1. DOMAIN s = 1..Len(s) /\ Len(s) \in Nat /\ (s # <<>> => Len(s) \in 1..Len(s))
        BY <1>1
      <4> QED BY <4>1 DEF Last, ToSet
    <3>4. s = <<>> => q \o s = q
      <4> HIDE DEF q
      <4> QED BY <1>1
    <3>5. \A m \in ToSet(s) : m = r
      BY DEF r
    <3> HIDE DEF q
    <3> QED BY <1>1, <2>2, <3>1, <3>2, <3>3, <3>4, <3>5
  <2> QED BY <2>1, <2>2
<1>4. Good(c)' <=> Good(c)
  BY DEF Good
<1>5. /\ Committed(c)' <=> Committed(c)
      /\ Reset(pool)' = r
      /\ \A m : AfterReady(m)' <=> AfterReady(m)
      /\ \A m : Expected(m)' <=> Expected(m)
  BY DEF Committed, AfterReady, Expected, Reset, Status
<1>6. /\ Answering(c)' => Answering(c)
      /\ Outstanding(c)' => Outstanding(c)
  <2>1. Contains(q', Ready) => Contains(q, Ready)
    BY <1>1, <1>2, <1>3, OfContains
  <2> HIDE DEF r
  <2> QED BY <1>2, <1>3, <2>1 DEF Answering, Outstanding
<1> HIDE DEF q, r
<1>7. WireInv(c)'
  <2>1. pool.session = 0 => pool.state \in Idle
    BY DEF PoolInv
  <2> QED BY <1>2, <1>3, <2>1, Bounds DEF ClientInv, WireInv, q
<1>8. ThreadInv(c)'
  BY DEF ClientInv, ThreadInv
<1>9. EntryInv(c)'
  BY <1>4 DEF ClientInv, EntryInv
<1>10. AnsweringInv(c)'
  <2>1. \A d \in Clients : Good(d)' => Good(d)
    BY DEF Good
  <2> QED BY <1>6, <2>1 DEF ClientInv, AnsweringInv
<1>11. RequestInv(c)'
  BY <1>2, <1>3, <1>4 DEF ClientInv, RequestInv, q
<1>12. SuffixInv(c)'
  <2>1. AfterReady(r)
    BY <1>2 DEF AfterReady, r
  <2> QED BY <1>3, <1>4, <1>5, <2>1 DEF ClientInv, SuffixInv, q
<1>13. UncommittedInv(c)'
  BY <1>2, <1>3, <1>4, <1>5, <1>6 DEF ClientInv, UncommittedInv, q
<1>14. CommittedInv(c)'
  <2> SUFFICES ASSUME Good(c), Committed(c) PROVE CommittedInv(c)'
    BY <1>4, <1>5 DEF CommittedInv
  <2>1. CommittedInv(c)
    BY DEF ClientInv
  <2>2. Expected(r)
    <3>1. pool.state \in {"ACCEPTING", "SIGNING"}
      BY DEF ClientInv, EntryInv, Committed
    <3> QED BY <1>2, <3>1 DEF Expected
  <2>3. pool'.entries[c] = pool.entries[c]
    OBVIOUS
  <2> QED BY <1>2, <1>3, <1>5, <2>1, <2>2, <2>3 DEF CommittedInv, q
<1>15. SigningInv(c)'
  <2> SUFFICES ASSUME Good(c), pool.state = "SIGNING", pool'.entries[c] # None PROVE SigningInv(c)'
    BY <1>4 DEF SigningInv
  <2>1. SigningInv(c) /\ pool.entries[c] # None
    BY DEF ClientInv
  <2> QED BY <1>2, <1>3, <1>5, <2>1 DEF SigningInv, q, r
<1> QED BY <1>7, <1>8, <1>9, <1>10, <1>11, <1>12, <1>13, <1>14, <1>15 DEF ClientInv

\* A client whose alphanode has ended its session, with or without a word.
LEMMA Ended ==
  ASSUME TypeOK, NEW c \in Clients, ClientInv(c),
         pool'.users = 0, pool'.session = 0, pool'.state \in Idle, pool'.signed = {},
         \A d \in Clients : pool'.entries[d] = None,
         UNCHANGED <<client, submit, reset, asked, failed, overtaken>>,
         Good(c) /\ ~Committed(c) => toPool'[c] = toPool[c],
         Good(c) /\ Committed(c) =>
            toPool'[c] = <<>> /\ \A m \in ToSet(toClient[c]) : ~Mine(c, m) /\ ~Answer(m),
         Contains(toPool'[c], "dsi") => Contains(toPool[c], "dsi"),
         NEW s \in Seq(Messages),
         \A m \in ToSet(s) : /\ m.type # "dsf" /\ m # Ready /\ ~Answer(m)
                             /\ m.type = "dssu" /\ m.session = 0 => m.state \in Idle /\ m.accepted # 1,
         toClient'[c] \in {toClient[c], toClient[c] \o s}
  PROVE  ClientInv(c)'
<1> DEFINE q == toClient[c]
<1>1. q \in Seq(Messages) /\ s \in Seq(Messages)
  BY Types
<1>2. /\ \A m \in ToSet(q') : m \in ToSet(q) \/ m \in ToSet(s)
      /\ \A m, n : Before(q', m, n) => n \in ToSet(s) \/ Before(q, m, n)
      /\ q' \in Seq(Messages)
  <2>1. CASE q' = q
    BY <1>1, <2>1
  <2>2. CASE q' = q \o s
    <3>1. /\ ToSet(q \o s) = ToSet(q) \cup ToSet(s) /\ q \o s \in Seq(Messages)
          /\ \A m, n : Before(q \o s, m, n) =>
               \/ Before(q, m, n) \/ Before(s, m, n)
               \/ m \in ToSet(q) /\ n \in ToSet(s)
      <4> HIDE DEF q
      <4> QED BY <1>1, OfConcat
    <3>2. \A m, n : Before(s, m, n) => n \in ToSet(s)
      <4>1. DOMAIN s = 1..Len(s)
        BY <1>1
      <4> QED BY <4>1 DEF Before, ToSet
    <3> HIDE DEF q
    <3> QED BY <2>2, <3>1, <3>2
  <2> QED BY <2>1, <2>2
<1> HIDE DEF q
<1>3. \A m \in ToSet(s) : ~Mine(c, m) /\ ~Yes(m) /\ ~Answer(m)
  BY Kinds
<1>4. Good(c)' <=> Good(c)
  BY DEF Good
<1>5. ~Committed(c)'
  BY DEF Committed
<1>6. WireInv(c)' /\ ThreadInv(c)'
  BY <1>2 DEF ClientInv, WireInv, ThreadInv, q
<1>7. EntryInv(c)' /\ AnsweringInv(c)' /\ SuffixInv(c)'
  BY DEF EntryInv, AnsweringInv, SuffixInv
<1>8. RequestInv(c)'
  <2>1. CASE Good(c) /\ Committed(c)
    BY <1>4, <2>1, Requests DEF RequestInv
  <2>2. CASE Good(c) /\ ~Committed(c)
    BY <1>2, <1>3, <1>4, <2>2 DEF ClientInv, RequestInv, q
  <2> QED BY <1>4, <2>1, <2>2 DEF RequestInv
<1>9. UncommittedInv(c)'
  <2>1. CASE Good(c) /\ Committed(c)
    <3>1. submit[c] = "none"
      BY <2>1 DEF ClientInv, CommittedInv
    <3>2. \A m \in ToSet(q') : ~Mine(c, m) /\ ~Answer(m) /\ ~Yes(m)
      BY <1>2, <1>3, <2>1, Kinds DEF q
    <3> QED BY <2>1, <3>1, <3>2, Requests DEF UncommittedInv, Outstanding, q
  <2>2. CASE Good(c) /\ ~Committed(c)
    <3>1. Outstanding(c)' => Outstanding(c)
      BY <1>2, <1>3, <2>2 DEF Outstanding, q
    <3> QED BY <1>2, <1>3, <2>2, <3>1 DEF ClientInv, UncommittedInv, q
  <2> QED BY <1>4, <2>1, <2>2 DEF UncommittedInv
<1>10. CommittedInv(c)' /\ SigningInv(c)'
  BY <1>5 DEF CommittedInv, SigningInv, Committed
<1> QED BY <1>6, <1>7, <1>8, <1>9, <1>10 DEF ClientInv

\* What is told reaches whom it is told, after what is on the way.
LEMMA ToldIs ==
  ASSUME TypeOK, NEW s \in Seq(Messages), NEW c \in Clients
  PROVE  /\ Told(s)[c] \in {toClient[c], toClient[c] \o s}
         /\ client[c].submitted => Told(s)[c] = toClient[c] \o s
BY Types DEF Told

\* The first user: whoever still answers for a session before is overtaken.
LEMMA DsaFirstStep ==
  ASSUME IndInv, NEW a \in Clients, Received(a, "dsa"), Taken(a), pool.users = 0,
         LET new == [pool EXCEPT !.session = sessions']
             p == [UpdateState(new, "QUEUE") EXCEPT !.users = 1, !.age = 0]
         IN  /\ pool' = p
             /\ toClient' = [Told(Left(new, "QUEUE")) EXCEPT ![a] = Append(@, Status(p, 1))],
         sessions' = sessions + 1, overtaken' = overtaken \cup {d \in Clients : Answering(d)},
         UNCHANGED <<client, submit, reset, asked, failed>>
  PROVE  PoolInv' /\ \A c \in Clients : ClientInv(c)'
<1>1. TypeOK /\ PoolInv /\ pool \in PoolType /\ sessions' \in Nat /\ sessions' # 0
  BY Types DEF IndInv, TypeOK
<1>2. pool.session = 0 /\ pool.state \in Idle /\ pool.signed = {}
      /\ \A c \in Clients : pool.entries[c] = None
  BY <1>1 DEF PoolInv
<1>3. PICK r, yes, t :
        /\ r.type = "dssu" /\ r.session # 0 /\ ~Answer(r) /\ r # Ready
        /\ yes.type = "dssu" /\ yes.session # 0 /\ Yes(yes) /\ Answer(yes) /\ yes # Ready
        /\ r \in Messages /\ yes \in Messages
        /\ t \in [Clients -> Seq(Messages)]
        /\ \A c \in Clients : t[c] \in {toClient[c], toClient[c] \o <<r>>}
        /\ toClient' = [t EXCEPT ![a] = Append(@, yes)]
        /\ pool'.session # 0 /\ pool'.state = "QUEUE" /\ pool'.users = 1 /\ pool'.age = 0
        /\ pool'.signed = {} /\ pool'.entries = pool.entries
  <2> DEFINE new == [pool EXCEPT !.session = sessions']
             o == UpdateState(new, "QUEUE")
             p == [o EXCEPT !.users = 1, !.age = 0]
             r == Reset(new)
             yes == Status(p, 1)
             t == Told(Left(new, "QUEUE"))
  <2>1. /\ new \in PoolType /\ new.session = sessions' /\ new.state = pool.state
        /\ new.signed = {} /\ new.entries = pool.entries
    BY <1>1, <1>2, PoolUpdates DEF PoolType
  <2>2. pool' = p /\ toClient' = [t EXCEPT ![a] = Append(@, yes)]
    OBVIOUS
  <2> HIDE DEF new
  <2>3. o = [new EXCEPT !.state = "QUEUE", !.age = 0] /\ o \in PoolType
    BY <1>2, <2>1, PoolUpdates DEF UpdateState, Idle, States
  <2>4. o.session = sessions' /\ o.state = "QUEUE" /\ o.signed = {} /\ o.entries = pool.entries
    BY <2>1, <2>3 DEF PoolType
  <2> HIDE DEF o
  <2>5. p \in PoolType
    <3>1. 1 \in 0..PoolMax
      BY Bounds
    <3> QED BY <2>3, <3>1, PoolUpdates
  <2>6. /\ p.session = sessions' /\ p.state = "QUEUE" /\ p.users = 1 /\ p.age = 0
        /\ p.signed = {} /\ p.entries = pool.entries
    BY <2>3, <2>4 DEF PoolType
  <2> HIDE DEF p
  <2>7. r \in Messages /\ yes \in Messages
    BY <2>1, <2>5, MessageTypes DEF PoolType
  <2>8. Left(new, "QUEUE") = <<r>>
    BY <1>2, <2>1 DEF Left, Idle
  <2>9. t \in [Clients -> Seq(Messages)] /\ \A c \in Clients : t[c] \in {toClient[c], toClient[c] \o <<r>>}
    <3>1. <<r>> \in Seq(Messages)
      BY <2>7
    <3> HIDE DEF r
    <3> QED BY <1>1, <2>8, <3>1, ToldType, ToldIs
  <2>10. r.type = "dssu" /\ r.session # 0 /\ ~Answer(r) /\ r # Ready
    BY <1>1, <2>1, Kinds DEF Ready
  <2>11. yes.type = "dssu" /\ yes.session # 0 /\ Yes(yes) /\ Answer(yes) /\ yes # Ready
    BY <1>1, <2>6, Kinds, Bounds DEF Ready, Answer, Yes
  <2>12. pool'.session # 0 /\ pool'.state = "QUEUE" /\ pool'.users = 1 /\ pool'.age = 0
         /\ pool'.signed = {} /\ pool'.entries = pool.entries
    BY <1>1, <2>2, <2>6
  <2> HIDE DEF r, yes, t
  <2> QED BY <2>2, <2>7, <2>9, <2>10, <2>11, <2>12
<1>9. PoolInv'
  BY <1>3 DEF PoolInv
<1>10. /\ toPool[a] # <<>> /\ Head(toPool[a]) = "dsa" /\ toPool'[a] = Tail(toPool[a])
       /\ toPool[a] \in Seq({"dsa", "dsi", "dss"})
       /\ \A c \in Clients \ {a} : toPool'[c] = toPool[c]
  BY <1>1, Types DEF Received, Taken
<1>11. ASSUME NEW c \in Clients PROVE ClientInv(c)'
  <2> DEFINE q == toClient[c]
  <2>1. ClientInv(c) /\ q \in Seq(Messages) /\ t[c] \in {q, q \o <<r>>}
    BY <1>1, <1>3, Types DEF IndInv
  <2>0. /\ c # a => toClient'[c] = t[c]
        /\ c = a => toClient'[c] = Append(t[c], yes)
    <3>1. t \in [Clients -> Seq(Messages)] /\ toClient' = [t EXCEPT ![a] = Append(@, yes)]
      BY <1>3
    <3> QED BY ONLY <3>1, a \in Clients, c \in Clients
  <2>2. /\ c # a => q' = t[c]
        /\ c = a => q' = Append(t[c], yes)
    BY <2>0
  <2> HIDE DEF q
  <2>3. /\ t[c] \in Seq(Messages)
        /\ \A m \in ToSet(t[c]) : m \in ToSet(q) \/ m = r
        /\ \A m, n : Before(t[c], m, n) => Before(q, m, n) \/ n = r
    <3>1. CASE t[c] = q
      BY <2>1, <3>1
    <3>2. CASE t[c] = q \o <<r>>
      <4> DEFINE e == <<r>>
      <4>1. e \in Seq(Messages) /\ ToSet(e) = {r} /\ \A m, n : ~Before(e, m, n)
        BY <1>3, OfTuples
      <4> HIDE DEF e
      <4>2. /\ q \o e \in Seq(Messages) /\ ToSet(q \o e) = ToSet(q) \cup ToSet(e)
            /\ \A m, n : Before(q \o e, m, n) =>
                  \/ Before(q, m, n) \/ Before(e, m, n)
                  \/ m \in ToSet(q) /\ n \in ToSet(e)
        BY <2>1, <4>1, OfConcat
      <4>3. t[c] = q \o e
        BY <3>2 DEF e
      <4> QED BY <4>1, <4>2, <4>3
    <3>3. t[c] = q \/ t[c] = q \o <<r>>
      BY <2>1
    <3> QED BY <3>1, <3>2, <3>3, Zenon
  <2> DEFINE l == q'
  <2>4. /\ l \in Seq(Messages)
        /\ \A m \in ToSet(l) : m \in ToSet(q) \/ m = r \/ (c = a /\ m = yes)
        /\ \A m, n : Before(l, m, n) =>
              Before(q, m, n) \/ n = r \/ (c = a /\ m \in ToSet(q) \cup {r})
    <3>1. CASE c # a
      BY <2>2, <2>3, <3>1
    <3>2. CASE c = a
      <4> DEFINE b == Append(t[c], yes)
      <4>1. /\ b \in Seq(Messages)
            /\ ToSet(b) = ToSet(t[c]) \cup {yes}
            /\ \A m, n : Before(b, m, n) =>
                  Before(t[c], m, n) \/ (m \in ToSet(t[c]) /\ n = yes)
        BY <1>3, <2>3, OfAppend
      <4>2. l = b
        BY <2>2, <3>2
      <4> HIDE DEF b, l
      <4> QED BY <2>3, <3>2, <4>1, <4>2
    <3> HIDE DEF l
    <3> QED BY <3>1, <3>2, Zenon
  <2>5. /\ Contains(toPool'[c], "dsi") => Contains(toPool[c], "dsi")
        /\ Contains(toPool'[c], "dsa") => Contains(toPool[c], "dsa")
    BY <1>10, ContainsTail
  <2>6. Contains(q', Ready) => Contains(q, Ready)
    BY <1>3, <2>1, <2>4, OfContains
  <2>7. Answering(c)' => Answering(c)
    BY <2>5, <2>6 DEF Answering, q
  <2>8. Good(c)' => Good(c) /\ ~Answering(c)
    BY DEF Good
  <2>9. Good(c)' => /\ ~Contains(q', Ready) /\ submit[c] = "none" /\ ~Contains(toPool[c], "dsi")
                    /\ ~Contains(toPool'[c], "dsi")
    BY <2>5, <2>6, <2>8 DEF Answering, q
  <2>10. ~Committed(c) /\ ~Committed(c)'
    BY <1>2, <1>3 DEF Committed
  <2>11. WireInv(c)' /\ ThreadInv(c)'
    BY <1>3, <2>1, <2>4 DEF ClientInv, WireInv, ThreadInv, q
  <2>12. AnsweringInv(c)' /\ EntryInv(c)'
    BY <1>2, <1>3, <2>7, <2>8 DEF AnsweringInv, EntryInv
  <2>13. RequestInv(c)'
    <3> SUFFICES ASSUME Good(c)' PROVE RequestInv(c)'
      BY DEF RequestInv
    <3>1. c = a => toPool'[c] = <<>>
      BY <1>10, <2>1, <2>8, Request
    <3> QED BY <1>10, <2>1, <2>8, <2>9, <3>1, Requests DEF ClientInv, RequestInv
  <2>14. SuffixInv(c)'
    <3>1. \A m : ~Before(q', Ready, m) \/ Contains(q', Ready)
      <4>1. DOMAIN q' = 1..Len(q')
        BY <2>4
      <4> QED BY <4>1 DEF Before, Contains
    <3> QED BY <2>9, <3>1 DEF SuffixInv, q
  <2>15. UncommittedInv(c)'
    <3> SUFFICES ASSUME Good(c)' PROVE UncommittedInv(c)'
      BY DEF UncommittedInv
    <3>1. UncommittedInv(c) /\ Good(c)
      BY <2>1, <2>8 DEF ClientInv
    <3>2. Outstanding(c)' => Outstanding(c)
      <4>1. toPool'[c] # <<>> => toPool[c] # <<>>
        BY <1>10
      <4>2. c = a => toPool[c] # <<>>
        BY <1>10
      <4>3. \A m \in ToSet(q') : Answer(m) => m \in ToSet(q) \/ c = a
        BY <1>3, <2>4
      <4> QED BY ONLY <4>1, <4>2, <4>3 DEF Outstanding, q
    <3>3. \A m \in ToSet(q') : ~Mine(c, m)
      <4>1. ~Mine(c, r) /\ ~Mine(c, yes)
        BY <1>3, Kinds
      <4>2. \A m \in ToSet(q) : ~Mine(c, m)
        BY <2>10, <3>1 DEF UncommittedInv, q
      <4> QED BY <2>4, <4>1, <4>2
    <3>4. toPool'[c] # <<"dss">>
      <4>1. c = a => toPool'[c] = <<>>
        BY <1>10, <2>1, <2>8, Request
      <4> QED BY <1>10, <2>10, <3>1, <4>1, Requests DEF UncommittedInv
    <3>5. \A m \in ToSet(q') : Yes(m) =>
            /\ toPool'[c] = <<>> /\ c \in asked
            /\ \A n \in ToSet(q') : Before(q', m, n) => ~Answer(n)
      <4>1. CASE c # a
        <5>1. ASSUME NEW m \in ToSet(q'), Yes(m)
              PROVE  /\ m \in ToSet(q) /\ toPool[c] = <<>> /\ c \in asked
                     /\ \A n \in ToSet(q) : Before(q, m, n) => ~Answer(n)
          <6>1. m \in ToSet(q)
            BY <1>3, <2>4, <4>1, <5>1, Kinds
          <6> QED BY <2>10, <3>1, <5>1, <6>1 DEF UncommittedInv, q
        <5>2. \A n \in ToSet(q') : ~Answer(n) \/ n \in ToSet(q)
          BY <1>3, <2>4, <4>1
        <5> QED BY <1>3, <1>10, <2>4, <4>1, <5>1, <5>2
      <4>2. CASE c = a
        <5>1. toPool'[c] = <<>> /\ c \in asked /\ \A m \in ToSet(q) : ~Yes(m)
          BY <1>10, <2>1, <3>1, <4>2, Request DEF q
        <5>2. ASSUME NEW m, NEW n, Yes(m), Before(q', m, n) PROVE n = r
          <6>1. \A x, y : Before(q, x, y) => x \in ToSet(q)
            <7>1. DOMAIN q = 1..Len(q)
              BY <2>1
            <7> QED BY <7>1 DEF Before, ToSet
          <6> QED BY <1>3, <2>4, <5>1, <5>2, <6>1, Kinds
        <5> QED BY <1>3, <5>1, <5>2
      <4> QED BY <4>1, <4>2
    <3> QED BY <2>9, <2>10, <3>1, <3>2, <3>3, <3>4, <3>5 DEF UncommittedInv, q
  <2>16. CommittedInv(c)' /\ SigningInv(c)'
    BY <2>10 DEF CommittedInv, SigningInv, Committed
  <2> QED BY <2>11, <2>12, <2>13, <2>14, <2>15, <2>16 DEF ClientInv
<1> QED BY <1>9, <1>11

\* A request is answered and the session goes on as it was.
LEMMA AnswerStep ==
  ASSUME IndInv, TypeOK', NEW a \in Clients, NEW x \in {0, 1}, NEW type \in {"dsa", "dsi"},
         Received(a, type), Taken(a),
         pool'.session = pool.session, pool'.state = pool.state, pool'.entries = pool.entries,
         pool'.signed = pool.signed, pool'.users = 0 <=> pool.users = 0,
         pool'.age = pool.age \/ (pool.state # "SIGNING" /\ pool'.age = 0),
         UNCHANGED <<client, submit, reset, asked, failed, overtaken>>,
         x = 1 => type = "dsa" /\ pool.users # 0,
         toClient' = [toClient EXCEPT ![a] = Append(@, Status(pool', x))]
  PROVE  PoolInv' /\ \A c \in Clients : ClientInv(c)'
<1>1. TypeOK /\ PoolInv /\ pool' \in PoolType /\ \A c \in Clients : ClientInv(c)
  BY DEF IndInv, TypeOK, PoolType
<1>2. /\ toClient'[a] = Append(toClient[a], Status(pool', x))
      /\ \A c \in Clients \ {a} : toClient'[c] = toClient[c]
  BY <1>1, Types
<1>3. /\ toPool[a] # <<>> /\ Head(toPool[a]) = type /\ toPool'[a] = Tail(toPool[a])
      /\ \A c \in Clients \ {a} : toPool'[c] = toPool[c]
  BY <1>1, Types DEF Received, Taken
<1>4. PoolInv'
  BY <1>1 DEF PoolInv, Entered
<1>5. ClientInv(a)'
  BY <1>1, <1>2, <1>3, Answered
<1>6. ASSUME NEW c \in Clients \ {a} PROVE ClientInv(c)'
  BY <1>1, <1>2, <1>3, Onlooker
<1> QED BY <1>4, <1>5, <1>6

\* "dsa" keeps the invariant.
LEMMA DsaStep ==
  ASSUME IndInv, TypeOK', NEW a \in Clients, Dsa(a)
  PROVE  PoolInv' /\ \A c \in Clients : ClientInv(c)'
<1>1. /\ Received(a, "dsa") /\ Taken(a) /\ UNCHANGED <<client, submit, reset, asked, failed>>
  BY DEF Dsa, threads
<1>2. pool \in PoolType
  BY Types DEF IndInv
<1>3. CASE /\ pool.users = 0
           /\ sessions' = sessions + 1
           /\ LET new == [pool EXCEPT !.session = sessions']
                  p == [UpdateState(new, "QUEUE") EXCEPT !.users = 1, !.age = 0]
              IN  /\ pool' = p
                  /\ toClient' = [Told(Left(new, "QUEUE")) EXCEPT ![a] = Append(@, Status(p, 1))]
           /\ overtaken' = overtaken \cup {d \in Clients : Answering(d)}
  BY <1>1, <1>3, DsaFirstStep
<1>4. CASE /\ pool.users # 0 /\ Compatible
           /\ pool' = [pool EXCEPT !.users = @ + 1, !.age = 0]
           /\ toClient' = [toClient EXCEPT ![a] = Append(@, Status(pool', 1))]
           /\ UNCHANGED <<sessions, overtaken>>
  <2>1. /\ pool'.session = pool.session /\ pool'.state = pool.state /\ pool'.entries = pool.entries
        /\ pool'.signed = pool.signed /\ pool'.users # 0 /\ pool'.age = 0 /\ pool.state # "SIGNING"
    BY <1>2, <1>4, Bounds DEF PoolType, Compatible, Waiting
  <2> QED BY <1>1, <1>4, <2>1, AnswerStep
<1>5. CASE /\ toClient' = [toClient EXCEPT ![a] = Append(@, Status(pool, 0))]
           /\ UNCHANGED <<pool, sessions, overtaken>>
  <2>1. toClient' = [toClient EXCEPT ![a] = Append(@, Status(pool', 0))]
    BY <1>5
  <2>2. 0 \in {0, 1} /\ 0 # 1
    OBVIOUS
  <2> QED BY <1>1, <1>5, <2>1, <2>2, AnswerStep
<1> QED BY <1>3, <1>4, <1>5 DEF Dsa

\* A refused "dsi" keeps the invariant.
LEMMA DsiRefusedStep ==
  ASSUME IndInv, TypeOK', NEW a \in Clients, DsiRefused(a)
  PROVE  PoolInv' /\ \A c \in Clients : ClientInv(c)'
<1>1. /\ Received(a, "dsi") /\ Taken(a) /\ UNCHANGED <<client, submit, reset, asked, failed, overtaken>>
      /\ toClient' = [toClient EXCEPT ![a] = Append(@, Status(pool', 0))]
  BY DEF DsiRefused, threads
<1>2. pool \in PoolType
  BY Types DEF IndInv
<1>3. /\ pool'.session = pool.session /\ pool'.state = pool.state /\ pool'.entries = pool.entries
      /\ pool'.signed = pool.signed /\ (pool'.users = 0 <=> pool.users = 0) /\ pool'.age = pool.age
  <2>1. CASE IsSessionReady /\ pool' = [pool EXCEPT !.users = @ - 1]
    BY <1>2, <2>1, Bounds DEF PoolType, IsSessionReady
  <2>2. CASE pool' = pool
    BY <2>2
  <2> QED BY <2>1, <2>2 DEF DsiRefused
<1>4. 0 \in {0, 1} /\ 0 # 1 /\ "dsi" \in {"dsa", "dsi"}
  OBVIOUS
<1> QED BY <1>1, <1>3, <1>4, AnswerStep

\* What is added to what is on the way.
LEMMA OfAdded ==
  ASSUME NEW S, NEW q \in Seq(S), NEW s \in Seq(S), NEW l, l \in {q, q \o s}
  PROVE  /\ l \in Seq(S)
         /\ \A m \in ToSet(l) : m \in ToSet(q) \/ m \in ToSet(s)
         /\ \A m, n : Before(l, m, n) =>
               \/ Before(q, m, n) \/ Before(s, m, n)
               \/ m \in ToSet(q) /\ n \in ToSet(s)
<1>1. /\ q \o s \in Seq(S) /\ ToSet(q \o s) = ToSet(q) \cup ToSet(s)
      /\ \A m, n : Before(q \o s, m, n) =>
            \/ Before(q, m, n) \/ Before(s, m, n)
            \/ m \in ToSet(q) /\ n \in ToSet(s)
  BY OfConcat
<1>2. CASE l = q
  BY <1>2
<1> DEFINE b == q \o s
<1>3. CASE l = q \o s
  <2>1. l = b /\ b \in Seq(S) /\ ToSet(b) = ToSet(q) \cup ToSet(s)
        /\ \A m, n : Before(b, m, n) =>
              \/ Before(q, m, n) \/ Before(s, m, n)
              \/ m \in ToSet(q) /\ n \in ToSet(s)
    BY <1>1, <1>3
  <2> HIDE DEF b
  <2> QED BY <2>1
<1> QED BY <1>2, <1>3

\* What is ordered by Before is in the sequence.
LEMMA OfBefore ==
  ASSUME NEW S, NEW q \in Seq(S), NEW m, NEW n, Before(q, m, n)
  PROVE  m \in ToSet(q) /\ n \in ToSet(q)
<1>1. DOMAIN q = 1..Len(q)
  OBVIOUS
<1> QED BY <1>1 DEF Before, ToSet

\* CheckForCompleteQueue keeps the invariant.
LEMMA CheckForCompleteQueueStep ==
  ASSUME IndInv, CheckForCompleteQueue
  PROVE  PoolInv' /\ \A c \in Clients : ClientInv(c)'
<1> DEFINE r == Reset(pool)
           s == <<r, Ready>>
<1>1. TypeOK /\ PoolInv /\ pool \in PoolType /\ \A c \in Clients : ClientInv(c)
  BY Types DEF IndInv
<1>2. pool.state = "QUEUE" /\ pool.users # 0 /\ pool.session # 0
  BY <1>1, Bounds DEF CheckForCompleteQueue, QueueComplete, PoolInv
<1>3. /\ pool'.state = "ACCEPTING" /\ pool'.age = 0 /\ pool'.session = pool.session
      /\ pool'.users = pool.users /\ pool'.entries = pool.entries /\ pool'.signed = pool.signed
  <2>1. pool' = [pool EXCEPT !.state = "ACCEPTING", !.age = 0]
    BY <1>2 DEF CheckForCompleteQueue, UpdateState
  <2> QED BY <1>1, <2>1 DEF PoolType
<1>4. UNCHANGED <<client, submit, reset, asked, toPool, failed, overtaken>>
  BY DEF CheckForCompleteQueue, threads, history
<1>5. PoolInv'
  BY <1>2, <1>3 DEF PoolInv
<1>6. /\ r.type = "dssu" /\ r.session = pool.session /\ ~Answer(r) /\ r # Ready
      /\ Ready.type = "dsq" /\ ~Answer(Ready)
      /\ \A c : ~Mine(c, r) /\ ~Mine(c, Ready)
      /\ r \in Messages /\ Ready \in Messages
  BY <1>1, Types, MessageTypes, Kinds DEF Ready, Answer, Mine
<1>7. \A c \in Clients : toClient'[c] \in {toClient[c], toClient[c] \o s} /\ s \in Seq(Messages)
  <2>1. s \in Seq(Messages)
    <3> HIDE DEF r
    <3> QED BY <1>6
  <2>2. toClient' = Told(s)
    BY DEF CheckForCompleteQueue
  <2> HIDE DEF s
  <2> QED BY <1>1, <2>1, <2>2, ToldIs
<1>8. ToSet(s) = {r, Ready} /\ \A m, n : Before(s, m, n) => n = Ready /\ m = r
  BY OfTuples
<1> HIDE DEF s, r
<1>9. \A c \in Clients : Good(c) => ~Answering(c) /\ pool.entries[c] = None
  BY <1>1, <1>2 DEF ClientInv, AnsweringInv, EntryInv
<1>10. ASSUME NEW c \in Clients PROVE ClientInv(c)'
  <2> DEFINE q == toClient[c]
  <2>1. q \in Seq(Messages)
    BY <1>1, Types
  <2>2. /\ q' \in Seq(Messages)
        /\ \A m \in ToSet(q') : m \in ToSet(q) \/ m \in {r, Ready}
        /\ \A m, n : Before(q', m, n) => Before(q, m, n) \/ n \in {r, Ready}
    <3> DEFINE l == q'
    <3>1. l \in {q, q \o s}
      BY <1>7
    <3> HIDE DEF l, q
    <3>2. /\ l \in Seq(Messages)
          /\ \A m \in ToSet(l) : m \in ToSet(q) \/ m \in ToSet(s)
          /\ \A m, n : Before(l, m, n) =>
               \/ Before(q, m, n) \/ Before(s, m, n)
               \/ m \in ToSet(q) /\ n \in ToSet(s)
      BY <1>7, <2>1, <3>1, OfAdded
    <3>3. /\ l \in Seq(Messages)
          /\ \A m \in ToSet(l) : m \in ToSet(q) \/ m \in {r, Ready}
          /\ \A m, n : Before(l, m, n) => Before(q, m, n) \/ n \in {r, Ready}
      BY <1>8, <3>2
    <3> QED BY <3>3 DEF l
  <2>3. Good(c) => \A m : ~Before(q', Ready, m)
    <3> SUFFICES ASSUME Good(c), NEW m, Before(q', Ready, m) PROVE FALSE
      OBVIOUS
    <3>1. Ready \notin ToSet(q)
      BY <1>9, <2>1, OfContains DEF Answering
    <3> DEFINE l == q'
    <3>2. l \in {q, q \o s} /\ Before(l, Ready, m)
      BY <1>7
    <3> HIDE DEF l, q
    <3>3. \/ Before(q, Ready, m) \/ Before(s, Ready, m)
          \/ Ready \in ToSet(q) /\ m \in ToSet(s)
      BY <1>7, <2>1, <3>2, OfAdded
    <3>4. ~Before(q, Ready, m)
      BY <2>1, <3>1, OfBefore
    <3> QED BY <1>6, <1>8, <3>1, <3>3, <3>4
  <2> HIDE DEF q
  <2>4. ClientInv(c) /\ (Good(c)' <=> Good(c))
    BY <1>1, <1>4 DEF Good
  <2>5. Good(c) => ~Contains(toPool[c], "dsi") /\ submit[c] = "none"
                   /\ ~Committed(c) /\ ~Committed(c)'
    BY <1>3, <1>9 DEF Answering, Committed
  <2>6. WireInv(c)' /\ ThreadInv(c)'
    BY <1>2, <1>4, <1>6, <2>2, <2>4 DEF ClientInv, WireInv, ThreadInv, q
  <2>7. AnsweringInv(c)' /\ EntryInv(c)'
    <3>1. \A d \in Clients : Good(d)' => Good(d)
      BY <1>4 DEF Good
    <3>2. Good(c) => c \notin pool.signed
      BY <1>2, <2>4 DEF ClientInv, EntryInv
    <3>3. AnsweringInv(c)'
      BY <1>3, <1>9, <3>1 DEF AnsweringInv
    <3>4. EntryInv(c)'
      BY <1>3, <1>9, <2>4, <3>2 DEF EntryInv
    <3> QED BY <3>3, <3>4
  <2>8. RequestInv(c)'
    BY <1>4, <2>4, <2>5 DEF ClientInv, RequestInv
  <2>9. SuffixInv(c)'
    BY <1>4, <2>3, <2>4, <2>5 DEF SuffixInv, q
  <2>10. UncommittedInv(c)'
    <3>1. Outstanding(c)' => Outstanding(c)
      BY <1>4, <1>6, <2>2 DEF Outstanding, q
    <3>2. \A m \in ToSet(q') : Yes(m) => m \in ToSet(q)
      BY <1>6, <2>2, Kinds
    <3> QED BY <1>4, <1>6, <2>2, <2>4, <2>5, <3>1, <3>2 DEF ClientInv, UncommittedInv, q
  <2>11. CommittedInv(c)' /\ SigningInv(c)'
    BY <2>4, <2>5 DEF CommittedInv, SigningInv, Committed
  <2> QED BY <2>6, <2>7, <2>8, <2>9, <2>10, <2>11 DEF ClientInv
<1> QED BY <1>5, <1>10

\* Time passing keeps the invariant.
LEMMA TickStep ==
  ASSUME IndInv, Tick
  PROVE  PoolInv' /\ \A c \in Clients : ClientInv(c)'
<1>1. TypeOK /\ PoolInv /\ pool \in PoolType /\ \A c \in Clients : ClientInv(c) /\ client[c] \in ClientType
  BY Types DEF IndInv
<1>2. /\ pool'.state = pool.state /\ pool'.session = pool.session /\ pool'.users = pool.users
      /\ pool'.signed = pool.signed
      /\ pool'.age = (IF pool.state = "IDLE" THEN 0 ELSE Older(pool.age))
      /\ \A c \in Clients : pool'.entries[c] = Older(pool.entries[c])
  <2> DEFINE a == IF pool.state = "IDLE" THEN 0 ELSE Older(pool.age)
             e == [c \in Clients |-> Older(pool.entries[c])]
  <2>1. pool' = [pool EXCEPT !.age = a, !.entries = e]
    BY DEF Tick
  <2>2. \A c \in Clients : e[c] = Older(pool.entries[c])
    OBVIOUS
  <2> HIDE DEF a, e
  <2>3. /\ pool'.state = pool.state /\ pool'.session = pool.session /\ pool'.users = pool.users
        /\ pool'.signed = pool.signed /\ pool'.age = a /\ pool'.entries = e
    BY <1>1, <2>1 DEF PoolType
  <2> QED BY <2>2, <2>3 DEF a
<1>3. \A c \in Clients :
         /\ client'[c].age = Older(client[c].age) /\ client'[c].entry = Older(client[c].entry)
         /\ client'[c].state = client[c].state /\ client'[c].session = client[c].session
         /\ client'[c].submitted = client[c].submitted /\ client'[c].locked = client[c].locked
  <2> TAKE c \in Clients
  <2> DEFINE p == client[c]
             u == [p EXCEPT !.age = Older(p.age), !.entry = Older(p.entry)]
  <2>1. client'[c] = u
    BY DEF Tick
  <2>2. p \in ClientType
    BY <1>1
  <2> HIDE DEF p
  <2>3. u.age = Older(p.age) /\ u.entry = Older(p.entry) /\ u.state = p.state
        /\ u.session = p.session /\ u.submitted = p.submitted /\ u.locked = p.locked
    BY <2>2 DEF ClientType
  <2> HIDE DEF u
  <2> QED BY <2>1, <2>3 DEF p
<1>4. /\ \A c \in Clients : /\ toPool[c] = <<>> /\ toClient[c] = <<>>
                            /\ submit[c] = "none" /\ reset[c] = "none"
      /\ UNCHANGED <<submit, reset, toPool, toClient, failed, overtaken>>
  BY DEF Tick, Undisturbed, links, history
<1>5. \A x \in Ages \cup {None} : Older(x) = None <=> x = None
  BY Bounds DEF Older
<1>6. \A x, y \in Ages : x <= y => Older(x) <= Older(y)
  <2>1. ASSUME NEW x \in Ages, NEW y \in Ages, x <= y PROVE Older(x) <= Older(y)
    <3>1. /\ x \in Nat /\ y \in Nat /\ x # None /\ y # None /\ QueueTimeout + Lag \in Nat
          /\ x <= QueueTimeout + Lag /\ y <= QueueTimeout + Lag
      BY Bounds DEF Ages
    <3> QED BY <2>1, <3>1 DEF Older
  <2> QED BY <2>1
<1>7. \A x \in Ages : x \in Nat /\ Older(x) \in Nat /\ x <= Older(x) /\ Older(x) <= x + 1
  BY Bounds DEF Older, Ages
<1>8. pool.age \in Ages /\ \A c \in Clients : pool.entries[c] \in Ages \cup {None}
  BY <1>1, Types
<1>9. PoolInv'
  <2>1. pool.state = "SIGNING" => pool'.age <= SigningTimeout
    <3> SUFFICES ASSUME pool.state = "SIGNING" PROVE pool'.age <= SigningTimeout
      OBVIOUS
    <3>1. ~(pool.age >= SigningTimeout)
      BY DEF Tick, PoolDue
    <3>2. pool'.age = Older(pool.age) /\ Older(pool.age) \in Ages
      BY <1>2, <1>8, OlderType
    <3>3. pool.age \in Nat /\ Older(pool.age) <= pool.age + 1 /\ Older(pool.age) \in Nat
      BY <1>7, <1>8
    <3> QED BY <3>1, <3>2, <3>3, Bounds
  <2>2. Entered' = Entered
    BY <1>2, <1>5, <1>8 DEF Entered
  <2> QED BY <1>1, <1>2, <1>5, <1>8, <2>1, <2>2 DEF PoolInv
<1>10. ASSUME NEW c \in Clients PROVE ClientInv(c)'
  <2>1. /\ toPool'[c] = <<>> /\ toClient'[c] = <<>> /\ submit'[c] = "none" /\ reset'[c] = "none"
        /\ ToSet(toClient'[c]) = {} /\ (Good(c)' <=> Good(c)) /\ ClientInv(c)
        /\ ToSet(toClient[c]) = {}
    BY <1>1, <1>4, OfTuples DEF Good
  <2>2. client[c].entry \in Ages \cup {None} /\ client[c].age \in Ages
    BY <1>1 DEF ClientType
  <2>3. WireInv(c)' /\ ThreadInv(c)'
    BY <1>3, <1>5, <2>1, <2>2 DEF ClientInv, WireInv, ThreadInv
  <2>4. ~Answering(c)' /\ ~Outstanding(c)'
    BY <2>1, Requests DEF Answering, Outstanding, Contains
  <2>5. AnsweringInv(c)' /\ SuffixInv(c)'
    <3>1. AnsweringInv(c)'
      BY <2>4 DEF AnsweringInv
    <3> QED BY <2>1, <3>1, Requests DEF SuffixInv
  <2>6. EntryInv(c)'
    <3>1. pool.state = "SIGNING" => pool'.age = Older(pool.age)
      BY <1>2
    <3> QED BY <1>2, <1>5, <1>8, <2>1, <3>1 DEF ClientInv, EntryInv
  <2>7. RequestInv(c)'
    BY <2>1, Requests DEF RequestInv
  <2>8. Committed(c)' => Committed(c)
    <3> SUFFICES ASSUME Committed(c)' PROVE Committed(c)
      OBVIOUS
    <3>1. pool.entries[c] # None /\ pool.entries[c] \in Ages
      BY <1>2, <1>5, <1>8 DEF Committed
    <3>2. pool.state = "SIGNING" \/ Older(pool.entries[c]) < QueueTimeout
      BY <1>2 DEF Committed
    <3>3. Older(pool.entries[c]) \in Ages
      BY <3>1, OlderType
    <3>4. Older(pool.entries[c]) < QueueTimeout => pool.entries[c] < QueueTimeout
      <4>1. /\ pool.entries[c] \in Nat /\ Older(pool.entries[c]) \in Nat
            /\ pool.entries[c] <= Older(pool.entries[c])
        BY <1>7, <3>1
      <4> QED BY <4>1, Bounds
    <3> QED BY <3>1, <3>2, <3>4 DEF Committed
  <2>9. UncommittedInv(c)'
    BY <2>1, <2>4, Requests DEF UncommittedInv
  <2>10. CommittedInv(c)'
    <3> SUFFICES ASSUME Good(c), Committed(c) PROVE CommittedInv(c)'
      BY <2>1, <2>8 DEF CommittedInv
    <3>1. /\ client[c].entry = pool.entries[c] /\ client[c].age <= client[c].entry
          /\ client[c].submitted /\ client[c].locked /\ client[c].state # "ERROR"
          /\ client[c].session = pool.session
          /\ pool.state = "ACCEPTING" => client[c].state \in Waiting
          /\ pool.entries[c] \in Ages
      BY <1>8, <2>1 DEF ClientInv, CommittedInv, Committed
    <3>2. Older(client[c].age) <= Older(client[c].entry)
      BY <1>6, <2>2, <3>1
    <3> QED BY <1>2, <1>3, <2>1, <3>1, <3>2 DEF CommittedInv
  <2>11. SigningInv(c)'
    <3> SUFFICES ASSUME Good(c), pool.state = "SIGNING", pool.entries[c] # None PROVE SigningInv(c)'
      BY <1>2, <1>5, <1>8, <2>1 DEF SigningInv
    <3>1. c \in pool.signed /\ client[c].state = "SIGNING"
      BY <1>4, <2>1, Requests DEF ClientInv, SigningInv
    <3> QED BY <1>2, <1>3, <2>1, <3>1, Requests DEF SigningInv
  <2> QED BY <2>3, <2>5, <2>6, <2>7, <2>9, <2>10, <2>11 DEF ClientInv
<1> QED BY <1>9, <1>10

\* A client whose entry arrives while the alphanode takes entries.
LEMMA Sender ==
  ASSUME IndInv, NEW a \in Clients, Good(a), Received(a, "dsi"), pool.users # 0, pool.state # "SIGNING"
  PROVE  /\ pool.state = "ACCEPTING" /\ pool.age = 0 /\ Tail(toPool[a]) = <<>>
         /\ client[a].entry = 0 /\ client[a].age = 0 /\ client[a].submitted /\ client[a].locked
         /\ client[a].state = "ACCEPTING" /\ submit[a] = "none" /\ reset[a] = "none"
         /\ \A m \in ToSet(toClient[a]) : m = Reset(pool)
<1>1. ClientInv(a) /\ toPool[a] # <<>> /\ Head(toPool[a]) = "dsi"
  BY DEF IndInv, Received
<1>2. /\ Contains(toPool[a], "dsi") /\ submit[a] = "none" /\ Tail(toPool[a]) \in {<<>>, <<"dsa">>}
      /\ Tail(toPool[a]) = <<"dsa">> => Contains(toPool[a], "dsa")
  BY <1>1, Request
<1>3. pool.state = "ACCEPTING" /\ pool.age = 0
  BY <1>1, <1>2 DEF ClientInv, AnsweringInv, Answering
<1>4. /\ client[a].entry # None
      /\ client[a].entry = 0 /\ client[a].age = 0 /\ client[a].submitted /\ client[a].locked
      /\ client[a].state = "ACCEPTING" /\ reset[a] = "none"
  BY <1>1, <1>2, <1>3 DEF ClientInv, RequestInv
<1>5. Tail(toPool[a]) = <<>>
  BY <1>1, <1>2, <1>4 DEF ClientInv, RequestInv
<1>6. \A m \in ToSet(toClient[a]) : m = Reset(pool)
  BY <1>1, <1>2, <1>3 DEF ClientInv, SuffixInv, RequestInv, AfterReady
<1> QED BY <1>2, <1>3, <1>4, <1>5, <1>6

\* An entry that does not complete the transaction.
LEMMA EntryStep ==
  ASSUME IndInv, NEW a \in Clients, Received(a, "dsi"), Taken(a), IsSessionReady,
         pool.state # "SIGNING", pool.entries[a] = None,
         LET p == [pool EXCEPT !.entries[a] = 0]
         IN  /\ pool' = p
             /\ toClient' = [Told(<<Reset(p)>>) EXCEPT
                               ![a] = toClient[a] \o <<Status(p, 1)>> \o <<Reset(p)>>],
         UNCHANGED <<client, submit, reset, asked, failed, overtaken>>
  PROVE  PoolInv' /\ \A c \in Clients : ClientInv(c)'
<1> DEFINE r == Reset(pool)
           yes == Status(pool, 1)
           s == <<r>>
           y == <<yes>>
           b == toClient[a] \o y
<1>1. TypeOK /\ PoolInv /\ pool \in PoolType /\ \A c \in Clients : ClientInv(c)
  BY Types DEF IndInv
<1>2. pool.users # 0 /\ pool.session # 0 /\ pool.state # "IDLE"
  BY <1>1, Bounds DEF IsSessionReady, PoolInv, PoolType
<1>3. /\ pool'.state = pool.state /\ pool'.age = pool.age /\ pool'.session = pool.session
      /\ pool'.users = pool.users /\ pool'.signed = pool.signed /\ pool'.entries[a] = 0
      /\ \A c \in Clients \ {a} : pool'.entries[c] = pool.entries[c]
      /\ Reset([pool EXCEPT !.entries[a] = 0]) = r
      /\ Status([pool EXCEPT !.entries[a] = 0], 1) = yes
  BY <1>1 DEF PoolType, Reset, Status
<1>4. /\ r.type = "dssu" /\ r.session = pool.session /\ r.state = pool.state /\ r.accepted = None
      /\ ~Answer(r) /\ r # Ready
      /\ yes.type = "dssu" /\ yes.session = pool.session /\ yes.state = pool.state
      /\ yes.accepted = 1 /\ Yes(yes) /\ Answer(yes) /\ yes # Ready
      /\ r \in Messages /\ yes \in Messages
  BY <1>1, Types, MessageTypes, Kinds, Bounds DEF Ready, Answer, Yes
<1> HIDE DEF r, yes
<1>5. /\ s \in Seq(Messages) /\ y \in Seq(Messages) /\ ToSet(s) = {r} /\ ToSet(y) = {yes}
  <2>1. s \in Seq(Messages) /\ y \in Seq(Messages)
    BY <1>4
  <2>2. ToSet(s) = {r} /\ ToSet(y) = {yes}
    BY OfTuples
  <2> QED BY <2>1, <2>2
<1> HIDE DEF s, y
<1>6. /\ \A c \in Clients \ {a} : toClient'[c] \in {toClient[c], toClient[c] \o s}
      /\ toClient'[a] = b \o s
  <2>1. toClient' = [Told(s) EXCEPT ![a] = b \o s]
    BY <1>3 DEF s, y
  <2>2. Told(s) \in [Clients -> Seq(Messages)]
    BY <1>1, <1>5, ToldType
  <2>3. /\ toClient'[a] = b \o s
        /\ \A c \in Clients \ {a} : toClient'[c] = Told(s)[c]
    BY <2>1, <2>2
  <2> QED BY <1>1, <1>5, <2>3, ToldIs
<1>7. /\ toPool[a] # <<>> /\ Head(toPool[a]) = "dsi" /\ toPool'[a] = Tail(toPool[a])
      /\ \A c \in Clients \ {a} : toPool'[c] = toPool[c]
  BY <1>1, Types DEF Received, Taken
<1>8. PoolInv'
  BY <1>2, <1>3 DEF PoolInv
<1>9. ASSUME NEW c \in Clients \ {a} PROVE ClientInv(c)'
  <2>1. \A d \in Clients : pool'.entries[d] \in {pool.entries[d], None, 0}
    BY <1>3
  <2>2. \A m \in ToSet(s) : m = Reset(pool)
    BY <1>5 DEF r
  <2> QED BY <1>1, <1>3, <1>5, <1>6, <1>7, <2>1, <2>2, HearsReset
<1>10. ClientInv(a)'
  <2> DEFINE q == toClient[a]
             l == q'
  <2>1. q \in Seq(Messages)
    BY <1>1, Types
  <2>2. /\ l \in Seq(Messages) /\ yes \in ToSet(l)
        /\ \A m \in ToSet(l) : m \in ToSet(q) \/ m = yes \/ m = r
    <3> DEFINE o == q \o y
    <3>0. l = o \o s
      BY <1>6
    <3> HIDE DEF q, l
    <3>1. o \in Seq(Messages) /\ ToSet(o) = ToSet(q) \cup {yes}
      BY <1>5, <2>1, OfConcat
    <3> HIDE DEF o
    <3>2. o \o s \in Seq(Messages) /\ ToSet(o \o s) = ToSet(o) \cup {r}
      BY <1>5, <3>1, OfConcat
    <3> QED BY <3>0, <3>1, <3>2
  <2>3. ClientInv(a) /\ (Good(a)' <=> Good(a))
    BY <1>1 DEF Good
  <2>4. /\ Reset(pool)' = r
        /\ \A m : AfterReady(m)' <=> AfterReady(m)
        /\ \A m : Expected(m)' <=> Expected(m)
    BY <1>3 DEF AfterReady, Expected, Reset, Status, r
  <2> HIDE DEF q, l
  <2>5. WireInv(a)' /\ ThreadInv(a)'
    BY <1>2, <1>4, <2>2, <2>3 DEF ClientInv, WireInv, ThreadInv, q, l
  <2>6. Answering(a)
    <3>1. toPool[a] \in Seq({"dsa", "dsi", "dss"})
      BY <1>1, Types
    <3>2. Contains(toPool[a], "dsi")
      BY <1>7, <3>1, ContainsTail
    <3> QED BY <3>2 DEF Answering
  <2>7. AnsweringInv(a)'
    <3>1. \A d \in Clients : Good(d)' => Good(d)
      BY DEF Good
    <3> QED BY <1>3, <2>3, <2>6, <3>1 DEF ClientInv, AnsweringInv
  <2>8. CASE ~Good(a)
    <3>1. /\ EntryInv(a)' /\ RequestInv(a)' /\ SuffixInv(a)'
          /\ UncommittedInv(a)' /\ CommittedInv(a)' /\ SigningInv(a)'
      BY <2>3, <2>8 DEF EntryInv, RequestInv, SuffixInv, UncommittedInv, CommittedInv, SigningInv
    <3> QED BY <2>5, <2>7, <3>1 DEF ClientInv
  <2>9. CASE Good(a)
    <3>1. /\ pool.state = "ACCEPTING" /\ pool.age = 0 /\ toPool'[a] = <<>>
          /\ client[a].entry = 0 /\ client[a].age = 0 /\ client[a].submitted /\ client[a].locked
          /\ client[a].state = "ACCEPTING" /\ submit[a] = "none" /\ reset[a] = "none"
          /\ \A m \in ToSet(q) : m = r
      BY <1>2, <1>7, <2>9, Sender DEF q, r
    <3>2. EntryInv(a)'
      BY <1>3, <2>3, <2>9, <3>1 DEF ClientInv, EntryInv
    <3>3. RequestInv(a)'
      BY <3>1, Requests DEF RequestInv
    <3>4. \A m \in ToSet(l) : AfterReady(m) /\ Expected(m)
      <4>1. AfterReady(r) /\ AfterReady(yes) /\ Expected(r) /\ Expected(yes)
        BY <1>4, <3>1 DEF AfterReady, Expected, r
      <4> QED BY <2>2, <3>1, <4>1
    <3>5. SuffixInv(a)'
      BY <2>4, <3>4 DEF SuffixInv, q, l
    <3>6. Committed(a)'
      BY <1>3, Bounds DEF Committed
    <3>7. UncommittedInv(a)'
      BY <3>6 DEF UncommittedInv
    <3>8. CommittedInv(a)'
      <4>1. \E m \in ToSet(l) : Yes(m)
        BY <1>4, <2>2
      <4> QED BY <1>3, <2>4, <3>1, <3>4, <4>1 DEF CommittedInv, Waiting, q, l
    <3>9. SigningInv(a)'
      BY <1>3 DEF SigningInv
    <3> QED BY <2>5, <2>7, <3>2, <3>3, <3>5, <3>7, <3>8, <3>9 DEF ClientInv
  <2> QED BY <2>8, <2>9
<1> QED BY <1>8, <1>9, <1>10

\* The four messages of a final transaction, the last but one of which is it.
LEMMA OfFinal ==
  ASSUME NEW S, NEW m1 \in S, NEW m2 \in S, NEW m3 \in S, NEW m4 \in S, m3 # m1, m3 # m2, m3 # m4,
         NEW s, s = <<m1, m2, m3, m4>>
  PROVE  /\ s \in Seq(S) /\ ToSet(s) = {m1, m2, m3, m4} /\ s # <<>> /\ Last(s) = m4
         /\ \A n : Before(s, m3, n) => n = m4
<1> DEFINE x == <<m1, m2>>
           y == <<m3, m4>>
<1>1. s = x \o y
  OBVIOUS
<1>2. x \in Seq(S) /\ y \in Seq(S) /\ y # <<>>
  OBVIOUS
<1>3. /\ ToSet(x) = {m1, m2} /\ ToSet(y) = {m3, m4} /\ Last(y) = m4
      /\ \A m, n : Before(x, m, n) => m = m1 /\ n = m2
      /\ \A m, n : Before(y, m, n) => m = m3 /\ n = m4
  BY OfTuples
<1> HIDE DEF x, y
<1>4. /\ x \o y \in Seq(S) /\ ToSet(x \o y) = ToSet(x) \cup ToSet(y)
      /\ \A m, n : Before(x \o y, m, n) =>
            \/ Before(x, m, n) \/ Before(y, m, n)
            \/ m \in ToSet(x) /\ n \in ToSet(y)
      /\ x \o y # <<>> /\ Last(x \o y) = Last(y)
  BY <1>2, OfConcat
<1> DEFINE o == x \o y
<1>5. s = o /\ ToSet(o) = ToSet(x) \cup ToSet(y)
  BY <1>1, <1>4
<1>6. /\ o \in Seq(S) /\ o # <<>> /\ Last(o) = m4
      /\ \A m, n : Before(o, m, n) =>
            \/ Before(x, m, n) \/ Before(y, m, n)
            \/ m \in ToSet(x) /\ n \in ToSet(y)
  BY <1>3, <1>4
<1> HIDE DEF o
<1>7. \A n : Before(o, m3, n) => n = m4
  BY <1>3, <1>6
<1> QED BY <1>3, <1>5, <1>6, <1>7

\* The entry that completes the transaction: everybody is asked to sign it.
LEMMA FinalStep ==
  ASSUME IndInv, NEW a \in Clients, Received(a, "dsi"), Taken(a), IsSessionReady,
         pool.state = "ACCEPTING", pool.entries[a] = None, Cardinality(Entered \cup {a}) >= PoolMax,
         LET p == [pool EXCEPT !.entries[a] = 0]
             f == UpdateState(p, "FINALIZE")
             s == UpdateState(f, "SIGNING")
             all == <<Reset(p), Reset(f), Dsf(s, FinalTransaction(a)), Reset(s)>>
         IN  /\ pool' = s
             /\ toClient' = [Told(all) EXCEPT ![a] = toClient[a] \o <<Status(p, 1)>> \o all],
         UNCHANGED <<client, submit, reset, asked, failed, overtaken>>
  PROVE  PoolInv' /\ \A c \in Clients : ClientInv(c)'
<1>1. TypeOK /\ PoolInv /\ pool \in PoolType /\ \A c \in Clients : ClientInv(c)
  BY Types DEF IndInv
<1>2. pool.users # 0 /\ pool.session # 0
  BY <1>1, Bounds DEF IsSessionReady, PoolInv, PoolType
<1> DEFINE p == [pool EXCEPT !.entries[a] = 0]
           f == UpdateState(p, "FINALIZE")
           s == UpdateState(f, "SIGNING")
<1>21. PICK yes : yes = Status(p, 1)
  OBVIOUS
<1>22. PICK r1 : r1 = Reset(p)
  OBVIOUS
<1>23. PICK r2 : r2 = Reset(f)
  OBVIOUS
<1>24. PICK d : d = Dsf(s, FinalTransaction(a))
  OBVIOUS
<1>25. PICK r3 : r3 = Reset(s)
  OBVIOUS
<1>26. PICK all : all = <<r1, r2, d, r3>>
  OBVIOUS
<1>30. /\ pool' = s /\ toClient' = [Told(all) EXCEPT ![a] = toClient[a] \o <<yes>> \o all]
      /\ yes = Status(p, 1) /\ r1 = Reset(p) /\ r2 = Reset(f) /\ r3 = Reset(s)
      /\ d = Dsf(s, FinalTransaction(a))
  BY <1>21, <1>22, <1>23, <1>24, <1>25, <1>26
<1>3. /\ all = <<r1, r2, d, r3>>
      /\ toClient' = [Told(all) EXCEPT ![a] = toClient[a] \o <<yes>> \o all]
      /\ yes \in Messages /\ r1 \in Messages /\ r2 \in Messages /\ d \in Messages /\ r3 \in Messages
      /\ yes.type = "dssu" /\ yes.session = pool.session
      /\ yes.accepted = 1 /\ yes.state = "ACCEPTING"
      /\ r1.type = "dssu" /\ r1.session = pool.session /\ r1.accepted = None
      /\ r2.type = "dssu" /\ r2.session = pool.session /\ r2.accepted = None
      /\ r3.type = "dssu" /\ r3.session = pool.session /\ r3.accepted = None
      /\ r1.state = "ACCEPTING" /\ r2.state = "FINALIZE" /\ r3.state = "SIGNING"
      /\ d.type = "dsf" /\ d.session = pool.session /\ d.txs = Entered \cup {a}
      /\ pool'.state = "SIGNING" /\ pool'.age = 0 /\ pool'.session = pool.session
      /\ pool'.users = pool.users /\ pool'.signed = pool.signed /\ pool'.entries[a] = 0
      /\ \A c \in Clients \ {a} : pool'.entries[c] = pool.entries[c]
      /\ r3 = Reset(pool')
  <2>2. /\ p \in PoolType /\ p.state = "ACCEPTING" /\ p.session = pool.session
        /\ p.users = pool.users /\ p.signed = pool.signed /\ p.entries[a] = 0
        /\ \A c \in Clients \ {a} : p.entries[c] = pool.entries[c]
    <3>1. p \in PoolType
      BY <1>1, PoolUpdates
    <3> QED BY <1>1, <3>1 DEF PoolType
  <2> HIDE DEF p
  <2> DEFINE Core(x) == /\ x.session = p.session /\ x.users = p.users /\ x.signed = p.signed
                        /\ x.entries = p.entries
  <2>3. f = [p EXCEPT !.state = "FINALIZE", !.age = 0]
    BY <2>2 DEF UpdateState
  <2>4. f.state = "FINALIZE" /\ f.age = 0 /\ Core(f)
    BY <2>2, <2>3 DEF PoolType
  <2>5. f \in [state : {"FINALIZE"}, session : Nat, users : 0..PoolMax,
               entries : [Clients -> Ages \cup {None}], signed : SUBSET Clients, age : Ages]
    BY <2>2, <2>3, Bounds DEF PoolType
  <2> HIDE DEF f
  <2>6. s = [f EXCEPT !.state = "SIGNING", !.age = 0]
    BY <2>4 DEF UpdateState
  <2>7. s.state = "SIGNING" /\ s.age = 0 /\ Core(s)
    BY <2>4, <2>5, <2>6
  <2> HIDE DEF s
  <2>8. p.session \in Nat /\ {"ACCEPTING", "FINALIZE", "SIGNING"} \subseteq States
        /\ FinalTransaction(a) \in SUBSET Clients
    BY <2>2 DEF PoolType, States, FinalTransaction, Entered
  <2>9. yes \in Messages /\ r1 \in Messages /\ r2 \in Messages /\ d \in Messages /\ r3 \in Messages
    BY <1>30, <2>2, <2>4, <2>7, <2>8, MessageTypes
  <2>10. /\ yes.type = "dssu" /\ yes.session = pool.session
         /\ yes.accepted = 1 /\ yes.state = "ACCEPTING"
         /\ r1.type = "dssu" /\ r1.session = pool.session /\ r1.accepted = None
         /\ r2.type = "dssu" /\ r2.session = pool.session /\ r2.accepted = None
         /\ r3.type = "dssu" /\ r3.session = pool.session /\ r3.accepted = None
         /\ r1.state = "ACCEPTING" /\ r2.state = "FINALIZE" /\ r3.state = "SIGNING"
    BY <1>30, <2>2, <2>4, <2>7, Kinds
  <2>11. d.type = "dsf" /\ d.session = pool.session /\ d.txs = Entered \cup {a}
    BY <1>30, <2>2, <2>7 DEF Dsf, FinalTransaction
  <2>12. /\ pool'.state = "SIGNING" /\ pool'.age = 0 /\ pool'.session = pool.session
         /\ pool'.users = pool.users /\ pool'.signed = pool.signed /\ pool'.entries[a] = 0
         /\ \A c \in Clients \ {a} : pool'.entries[c] = pool.entries[c]
         /\ r3 = Reset(pool')
    BY <1>30, <2>2, <2>7
  <2> QED BY <1>26, <1>30, <2>9, <2>10, <2>11, <2>12
<1> HIDE DEF p, f, s
<1>4. /\ r1 # Ready /\ r2 # Ready /\ d # Ready /\ r3 # Ready /\ yes # Ready
      /\ ~Answer(r1) /\ ~Answer(r2) /\ ~Answer(d) /\ ~Answer(r3)
      /\ ~Yes(r1) /\ ~Yes(r2) /\ ~Yes(d) /\ ~Yes(r3)
      /\ Yes(yes) /\ Answer(yes)
      /\ \A c : ~Mine(c, yes) /\ ~Mine(c, r1) /\ ~Mine(c, r2) /\ ~Mine(c, r3)
      /\ \A c \in Clients : Mine(c, d) <=> c \in Entered \cup {a}
      /\ d # r1 /\ d # r2 /\ d # r3
  <2>1. r1 # Ready /\ r2 # Ready /\ d # Ready /\ r3 # Ready /\ yes # Ready
    BY <1>3 DEF Ready
  <2>2. /\ ~Answer(r1) /\ ~Answer(r2) /\ ~Answer(d) /\ ~Answer(r3)
        /\ ~Yes(r1) /\ ~Yes(r2) /\ ~Yes(d) /\ ~Yes(r3)
    <3>1. None # 1
      BY Bounds
    <3> QED BY <1>3, <3>1 DEF Answer, Yes
  <2>3. Yes(yes) /\ Answer(yes)
    <3>1. None # 1
      BY Bounds
    <3> QED BY <1>3, <3>1 DEF Answer, Yes
  <2>4. \A c : ~Mine(c, yes) /\ ~Mine(c, r1) /\ ~Mine(c, r2) /\ ~Mine(c, r3)
    BY <1>3 DEF Mine
  <2>5. \A c \in Clients : Mine(c, d) <=> c \in Entered \cup {a}
    BY <1>3 DEF Mine
  <2>6. d # r1 /\ d # r2 /\ d # r3
    BY <1>3
  <2> QED BY <2>1, <2>2, <2>3, <2>4, <2>5, <2>6
<1>5. /\ all \in Seq(Messages) /\ ToSet(all) = {r1, r2, d, r3} /\ all # <<>> /\ Last(all) = r3
      /\ \A n : Before(all, d, n) => n = r3
  <2>1. r1 \in Messages /\ r2 \in Messages /\ d \in Messages /\ r3 \in Messages
    BY <1>3
  <2>2. d # r1 /\ d # r2 /\ d # r3
    BY <1>4
  <2>3. all = <<r1, r2, d, r3>>
    BY <1>3
  <2> QED BY <2>1, <2>2, <2>3, OfFinal
<1>6. /\ \A c \in Clients \ {a} : /\ toClient'[c] \in {toClient[c], toClient[c] \o all}
                                  /\ client[c].submitted => toClient'[c] = toClient[c] \o all
      /\ toClient'[a] = toClient[a] \o <<yes>> \o all
  <2>1. Told(all) \in [Clients -> Seq(Messages)]
    BY <1>1, <1>5, ToldType
  <2>2. /\ toClient'[a] = toClient[a] \o <<yes>> \o all
        /\ \A c \in Clients \ {a} : toClient'[c] = Told(all)[c]
    BY <1>3, <2>1
  <2> QED BY <1>1, <1>5, <2>2, ToldIs
<1>7. /\ toPool[a] # <<>> /\ Head(toPool[a]) = "dsi" /\ toPool'[a] = Tail(toPool[a])
      /\ toPool[a] \in Seq({"dsa", "dsi", "dss"})
      /\ \A c \in Clients \ {a} : toPool'[c] = toPool[c]
  BY <1>1, Types DEF Received, Taken
<1>8. PoolInv'
  <2>1. Entered' = Entered \cup {a}
    <3>1. pool'.entries[a] # None
      BY <1>3, Bounds
    <3>2. ASSUME NEW c \in Clients
          PROVE  pool'.entries[c] # None <=> pool.entries[c] # None \/ c = a
      BY <1>3, <3>1
    <3> QED BY <3>2 DEF Entered
  <2> QED BY <1>2, <1>3, <2>1, Bounds DEF PoolInv
<1>9. Answering(a)
  BY <1>7, ContainsTail DEF Answering
<1>10. ASSUME NEW c \in Clients PROVE ClientInv(c)'
  <2> DEFINE q == toClient[c]
             l == q'
             y == <<yes>>
             b == IF c = a THEN q \o y ELSE q
  <2>1. q \in Seq(Messages) /\ y \in Seq(Messages) /\ ToSet(y) = {yes}
    <3>1. y \in Seq(Messages) /\ q \in Seq(Messages)
      BY <1>1, <1>3, Types
    <3>2. ToSet(y) = {yes}
      BY OfTuples
    <3> QED BY <3>1, <3>2
  <2>2. /\ l \in {b, b \o all}
        /\ c = a \/ client[c].submitted => l = b \o all
    BY <1>6
  <2>3. /\ c = a => b = q \o y
        /\ c # a => b = q
    OBVIOUS
  <2> HIDE DEF q, l, y, b
  <2>4. /\ b \in Seq(Messages)
        /\ \A m \in ToSet(b) : m \in ToSet(q) \/ (c = a /\ m = yes)
        /\ c = a => yes \in ToSet(b)
        /\ \A m, n : Before(b, m, n) => Before(q, m, n) \/ n = yes
    <3>1. CASE c # a
      BY <2>1, <2>3, <3>1
    <3>2. CASE c = a
      <4> DEFINE o == q \o y
      <4>0. b = o
        BY <2>3, <3>2
      <4>1. /\ o \in Seq(Messages) /\ ToSet(o) = ToSet(q) \cup ToSet(y)
            /\ \A m, n : Before(o, m, n) =>
                  \/ Before(q, m, n) \/ Before(y, m, n)
                  \/ m \in ToSet(q) /\ n \in ToSet(y)
        BY <2>1, OfConcat
      <4> HIDE DEF o
      <4>2. \A m, n : Before(y, m, n) => n \in ToSet(y)
        BY <2>1, OfBefore
      <4> QED BY <2>1, <3>2, <4>0, <4>1, <4>2
    <3> QED BY <3>1, <3>2, Zenon
  <2>5. /\ l \in Seq(Messages)
        /\ \A m \in ToSet(l) : m \in ToSet(b) \/ m \in {r1, r2, d, r3}
        /\ \A m, n : Before(l, m, n) =>
              Before(b, m, n) \/ Before(all, m, n) \/ (m \in ToSet(b) /\ n \in {r1, r2, d, r3})
    <3>1. /\ l \in Seq(Messages)
          /\ \A m \in ToSet(l) : m \in ToSet(b) \/ m \in ToSet(all)
          /\ \A m, n : Before(l, m, n) =>
                Before(b, m, n) \/ Before(all, m, n) \/ (m \in ToSet(b) /\ n \in ToSet(all))
      <4>1. all \in Seq(Messages) /\ b \in Seq(Messages) /\ l \in {b, b \o all}
        BY <1>5, <2>2, <2>4
      <4> QED BY <4>1, OfAdded
    <3> QED BY <1>5, <3>1
  <2>6. c = a \/ client[c].submitted =>
           /\ d \in ToSet(l) /\ l # <<>> /\ Last(l) = r3
           /\ \A m \in ToSet(b) : m \in ToSet(l)
    <3>1. /\ ToSet(b \o all) = ToSet(b) \cup ToSet(all) /\ b \o all # <<>> /\ Last(b \o all) = Last(all)
      BY <1>5, <2>4, OfConcat
    <3>2. c = a \/ client[c].submitted =>
             /\ ToSet(l) = ToSet(b) \cup ToSet(all) /\ l # <<>> /\ Last(l) = Last(all)
      BY <2>2, <3>1
    <3> QED BY <1>5, <3>2
  <2>7. \A m, n : Before(all, m, n) => n \in {r1, r2, d, r3}
    BY <1>5, OfBefore
  <2>8. ClientInv(c) /\ (Good(c)' <=> Good(c)) /\ \A x \in Clients : Good(x)' => Good(x)
    BY <1>1 DEF Good
  <2>9. WireInv(c)' /\ ThreadInv(c)'
    <3>1. /\ WireInv(c) /\ ThreadInv(c) /\ yes.session # 0 /\ r1.session # 0 /\ r2.session # 0
          /\ r3.session # 0 /\ d.type # "dssu"
      BY <1>2, <1>3, <2>8 DEF ClientInv
    <3>2. \A m \in ToSet(l) : m.type = "dssu" /\ m.session = 0 => m \in ToSet(q)
      BY <2>4, <2>5, <3>1
    <3>3. WireInv(c)'
      BY <3>1, <3>2 DEF WireInv, q, l
    <3> QED BY <3>1, <3>3 DEF ThreadInv
  <2>10. AnsweringInv(c)'
    BY <1>3 DEF AnsweringInv
  <2>11. Good(c) /\ pool.entries[c] # None => pool.entries[c] = 0 /\ Committed(c)
    <3>1. Good(c) /\ pool.entries[c] # None => pool.entries[c] = 0
      BY <1>1, <1>9 DEF ClientInv, AnsweringInv
    <3> QED BY <3>1, Bounds DEF Committed
  <2>12. CASE ~Good(c)
    <3>1. /\ EntryInv(c)' /\ RequestInv(c)' /\ SuffixInv(c)'
          /\ UncommittedInv(c)' /\ CommittedInv(c)' /\ SigningInv(c)'
      BY <2>8, <2>12 DEF EntryInv, RequestInv, SuffixInv, UncommittedInv, CommittedInv, SigningInv
    <3> QED BY <2>9, <2>10, <3>1 DEF ClientInv
  <2>13. CASE Good(c)
    <3>1. c = a => /\ pool.age = 0 /\ toPool'[c] = <<>>
                   /\ client[c].entry = 0 /\ client[c].age = 0 /\ client[c].submitted
                   /\ client[c].locked /\ client[c].state = "ACCEPTING"
                   /\ submit[c] = "none" /\ reset[c] = "none"
                   /\ \A m \in ToSet(q) : m = Reset(pool)
      BY <1>2, <1>7, <2>13, Sender DEF q
    <3>2. c \notin pool.signed
      BY <2>8, <2>13 DEF ClientInv, EntryInv
    <3>3. EntryInv(c)'
      <4>1. pool'.entries[c] # None => pool'.entries[c] = 0
        BY <1>3, <2>11, <2>13
      <4> QED BY <1>3, <3>2, <4>1 DEF EntryInv
    <3>4. RequestInv(c)'
      <4>1. CASE c = a
        BY <3>1, <4>1, Requests DEF RequestInv
      <4>2. CASE c # a
        <5>1. Contains(toPool[c], "dsi") => \A m \in ToSet(l) : ~Answer(m)
          BY <1>4, <2>4, <2>5, <2>8, <2>13, <4>2 DEF ClientInv, RequestInv, q
        <5>2. RequestInv(c) /\ toPool'[c] = toPool[c]
          BY <1>7, <2>8, <4>2 DEF ClientInv
        <5> QED BY <1>2, <1>3, <2>8, <2>13, <5>1, <5>2 DEF RequestInv, l, q
      <4> QED BY <4>1, <4>2
    <3>5. SuffixInv(c)'
      <4>1. \A m : AfterReady(m)' <=> m.type # "dsc"
        BY <1>3 DEF AfterReady
      <4>2. \A m \in {yes, r1, r2, d, r3} : m.type # "dsc"
        BY <1>3
      <4>3. ASSUME NEW m \in ToSet(l), Before(l, Ready, m) PROVE m.type # "dsc"
        <5>1. Before(q, Ready, m) \/ m \in {yes, r1, r2, d, r3}
          BY <2>4, <2>5, <2>7, <4>3
        <5>2. Before(q, Ready, m) => m \in ToSet(q)
          BY <2>1, OfBefore
        <5> QED BY <1>2, <2>8, <2>13, <4>2, <5>1, <5>2 DEF ClientInv, SuffixInv, AfterReady, q
      <4>4. submit[c] # "none" \/ Contains(toPool'[c], "dsi") => \A m \in ToSet(l) : m.type # "dsc"
        <5>1. Contains(toPool'[c], "dsi") => Contains(toPool[c], "dsi")
          BY <1>7, ContainsTail
        <5>2. submit[c] # "none" \/ Contains(toPool[c], "dsi") => \A m \in ToSet(q) : m.type # "dsc"
          BY <1>2, <2>8, <2>13 DEF ClientInv, SuffixInv, AfterReady, q
        <5> QED BY <2>4, <2>5, <4>2, <5>1, <5>2
      <4> QED BY <4>1, <4>3, <4>4 DEF SuffixInv, q, l
    <3>6. CASE pool'.entries[c] = None
      <4>1. c # a /\ pool.entries[c] = None /\ ~Committed(c) /\ ~Committed(c)'
        BY <1>3, <3>6, Bounds DEF Committed
      <4>2. ~Mine(c, d)
        BY <1>4, <4>1 DEF Entered
      <4>3. \A m \in ToSet(l) : m \in ToSet(q) \/ (~Answer(m) /\ ~Yes(m) /\ ~Mine(c, m))
        BY <1>4, <2>4, <2>5, <4>1, <4>2
      <4>4. \A m, n : Before(l, m, n) => Before(q, m, n) \/ n \in {r1, r2, d, r3} \/ n = yes
        BY <2>4, <2>5, <2>7
      <4>5. \A m, n : Before(l, m, n) => Before(q, m, n) \/ ~Answer(n)
        <5>1. CASE yes \in ToSet(l) /\ yes \in ToSet(q)
          <6>1. b = q
            BY <2>3, <4>1
          <6> QED BY <1>4, <2>5, <2>7, <6>1
        <5>2. CASE ~(yes \in ToSet(l) /\ yes \in ToSet(q))
          <6>1. b = q
            BY <2>3, <4>1
          <6> QED BY <1>4, <2>5, <2>7, <6>1
        <5> QED BY <5>1, <5>2
      <4>6. Outstanding(c)' => Outstanding(c)
        BY <1>7, <4>1, <4>3 DEF Outstanding, q, l
      <4>7. UncommittedInv(c)'
        <5>1. \A m \in ToSet(l) : Yes(m) =>
                /\ toPool[c] = <<>> /\ c \in asked
                /\ \A n \in ToSet(l) : Before(l, m, n) => ~Answer(n)
          <6>1. \A m \in ToSet(q) : Yes(m) =>
                  /\ toPool[c] = <<>> /\ c \in asked
                  /\ \A n \in ToSet(q) : Before(q, m, n) => ~Answer(n)
            BY <2>8, <2>13, <4>1 DEF ClientInv, UncommittedInv, q
          <6> QED BY <4>3, <4>5, <6>1
        <5>2. UncommittedInv(c)
          BY <2>8 DEF ClientInv
        <5>3. \A m \in ToSet(l) : ~Mine(c, m)
          BY <2>13, <4>1, <4>3, <5>2 DEF UncommittedInv, q
        <5> QED BY <1>7, <2>8, <2>13, <4>1, <4>6, <5>1, <5>2, <5>3 DEF UncommittedInv, q, l
      <4>8. CommittedInv(c)' /\ SigningInv(c)'
        BY <3>6, <4>1 DEF CommittedInv, SigningInv
      <4> QED BY <2>9, <2>10, <3>3, <3>4, <3>5, <4>7, <4>8 DEF ClientInv
    <3>7. CASE pool'.entries[c] # None
      <4>1. /\ pool'.entries[c] = 0 /\ c \in Entered \cup {a}
            /\ client[c].entry = 0 /\ client[c].age <= 0 /\ client[c].submitted /\ client[c].locked
            /\ client[c].state # "ERROR"
            /\ submit[c] = "none" /\ reset[c] = "none" /\ toPool'[c] = <<>>
            /\ \A m \in ToSet(q) : m.type = "dssu" /\ Expected(m)
        <5>1. CASE c = a
          <6>1. \A m \in ToSet(q) : m.type = "dssu" /\ Expected(m)
            BY <3>1, <5>1, Kinds DEF Expected
          <6> QED BY <1>3, <3>1, <5>1, <6>1
        <5>2. CASE c # a
          <6>1. pool.entries[c] = 0 /\ Committed(c) /\ c \in Entered
            BY <1>3, <2>11, <2>13, <3>7, <5>2 DEF Entered
          <6>2. CommittedInv(c)
            BY <2>8 DEF ClientInv
          <6>3. \A m \in ToSet(q) : Expected(m) /\ m.type = "dssu"
            BY <2>13, <6>1, <6>2 DEF CommittedInv, Expected, q
          <6>4. /\ client[c].entry = 0 /\ client[c].age <= 0 /\ client[c].submitted
                /\ client[c].locked /\ client[c].state # "ERROR"
                /\ submit[c] = "none" /\ reset[c] = "none" /\ toPool[c] = <<>>
            BY <2>13, <6>1, <6>2 DEF CommittedInv
          <6>5. pool'.entries[c] = 0
            <7>1. \A x \in Clients : pool'.entries[x] = IF x = a THEN 0 ELSE pool.entries[x]
              BY <1>3
            <7> QED BY ONLY <7>1, <5>2, <6>1, c \in Clients
          <6>6. toPool'[c] = toPool[c]
            BY <1>7, <5>2
          <6> QED BY <6>1, <6>3, <6>4, <6>5, <6>6
        <5> QED BY <5>1, <5>2
      <4>2. Committed(c)'
        BY <1>3, <3>7 DEF Committed
      <4>3. \A m \in ToSet(l) : Expected(m)'
        <5>1. \A m : Expected(m) => Expected(m)'
          BY <1>3 DEF Expected
        <5>2. Expected(yes)' /\ Expected(r1)' /\ Expected(r2)' /\ Expected(d)' /\ Expected(r3)'
          BY <1>3 DEF Expected
        <5> QED BY <2>4, <2>5, <4>1, <5>1, <5>2
      <4>4. client[c].session = pool.session \/ \E m \in ToSet(l) : Yes(m)
        <5>1. CASE c = a
          BY <1>4, <2>4, <2>6, <5>1
        <5>2. CASE c # a
          <6>1. b = q /\ Committed(c)
            BY <1>3, <2>3, <2>11, <2>13, <3>7, <5>2
          <6>2. client[c].session = pool.session \/ \E m \in ToSet(q) : Yes(m)
            BY <2>8, <2>13, <6>1 DEF ClientInv, CommittedInv, q
          <6> QED BY <2>6, <4>1, <6>1, <6>2
        <5> QED BY <5>1, <5>2
      <4>5. CommittedInv(c)'
        BY <1>3, <4>1, <4>3, <4>4 DEF CommittedInv, q, l
      <4>6. UncommittedInv(c)'
        BY <4>2 DEF UncommittedInv
      <4>7. d \in ToSet(l) /\ l # <<>> /\ Last(l) = r3 /\ Mine(c, d)
        BY <1>4, <2>6, <4>1
      <4>8. \A m \in ToSet(l) : Mine(c, m) => m = d
        <5>1. \A m \in ToSet(q) : ~Mine(c, m)
          BY <4>1, Kinds
        <5> QED BY <1>4, <2>4, <2>5, <5>1
      <4>9. \A n : Before(l, d, n) => n \in {r1, r2, d, r3} /\ ~Answer(n) /\ n # d
        <5> SUFFICES ASSUME NEW n, Before(l, d, n) PROVE n = r3
          BY <1>4
        <5>1. d \notin ToSet(b)
          BY <1>3, <2>4, <4>1
        <5>2. ~Before(b, d, n)
          BY <2>4, <5>1, OfBefore
        <5> QED BY <1>5, <2>5, <5>1, <5>2
      <4>10. SigningInv(c)'
        <5>1. \A m \in ToSet(l) : Mine(c, m) =>
                 \A n \in ToSet(l) : Before(l, m, n) => ~Mine(c, n) /\ ~Answer(n)
          BY <4>8, <4>9
        <5>2. toPool'[c] = <<>> /\ c \notin pool'.signed /\ pool'.age = 0
          BY <1>3, <3>2, <4>1
        <5>3. l = toClient[c]' /\ toPool'[c] # <<"dss">>
          BY <5>2, Requests DEF q, l
        <5>4. Last(l) = Reset(pool)'
          BY <1>3, <4>7
        <5>5. /\ \E m \in ToSet(l) : Mine(c, m)
              /\ \A m \in ToSet(l) : Mine(c, m) =>
                    \A n \in ToSet(l) : Before(l, m, n) => ~Mine(c, n) /\ ~Answer(n)
          BY <4>7, <5>1
        <5>6. l # <<>>
          BY <4>7
        <5> HIDE DEF l
        <5> QED BY ONLY <5>2, <5>3, <5>4, <5>5, <5>6 DEF SigningInv
      <4> QED BY <2>9, <2>10, <3>3, <3>4, <3>5, <4>5, <4>6, <4>10 DEF ClientInv
    <3> QED BY <3>6, <3>7
  <2> QED BY <2>12, <2>13
<1> QED BY <1>8, <1>10

\* "dsi" keeps the invariant.
LEMMA DsiStep ==
  ASSUME IndInv, NEW a \in Clients, Dsi(a)
  PROVE  PoolInv' /\ \A c \in Clients : ClientInv(c)'
<1> DEFINE p == [pool EXCEPT !.entries[a] = 0]
           final == p.state = "ACCEPTING" /\ Cardinality(Entered \cup {a}) >= PoolMax
<1>1. /\ Received(a, "dsi") /\ Taken(a) /\ IsSessionReady
      /\ Cardinality(Entered) < PoolMax /\ pool.entries[a] = None
      /\ UNCHANGED <<client, submit, reset, asked, failed, overtaken>>
  BY DEF Dsi, threads, history
<1>2. pool.state # "SIGNING" /\ p.state = pool.state
  <2>1. pool \in PoolType /\ PoolInv
    BY Types DEF IndInv
  <2>2. p.state = pool.state
    BY <2>1 DEF PoolType
  <2>3. Cardinality(Entered) \in Nat
    <3>1. IsFiniteSet(Entered)
      BY Bounds, FS_Subset DEF Entered
    <3> QED BY <3>1, FS_CardinalityType
  <2> QED BY <1>1, <2>1, <2>2, <2>3, Bounds DEF PoolInv
<1>3. CASE final
  <2>1. LET f == UpdateState(p, "FINALIZE")
            s == UpdateState(f, "SIGNING")
            all == <<Reset(p), Reset(f), Dsf(s, FinalTransaction(a)), Reset(s)>>
        IN  /\ pool' = s
            /\ toClient' = [Told(all) EXCEPT ![a] = toClient[a] \o <<Status(p, 1)>> \o all]
    BY <1>3 DEF Dsi
  <2> QED BY <1>1, <1>2, <1>3, <2>1, FinalStep
<1>4. CASE ~final
  <2>1. /\ pool' = p
        /\ toClient' = [Told(<<Reset(p)>>) EXCEPT
                          ![a] = toClient[a] \o <<Status(p, 1)>> \o <<Reset(p)>>]
    BY <1>4 DEF Dsi
  <2> QED BY <1>1, <1>2, <2>1, EntryStep
<1> QED BY <1>3, <1>4

\* Messages of an alphanode that has ended a session.
Farewell(m) ==
    /\ m.type # "dsf" /\ m # Ready /\ ~Answer(m)
    /\ m.type = "dssu" /\ m.session = 0 => m.state \in Idle /\ m.accepted # 1

\* The elements of a sequence of four.
LEMMA OfFour ==
  ASSUME NEW S, NEW m1 \in S, NEW m2 \in S, NEW m3 \in S, NEW m4 \in S
  PROVE  /\ <<m1, m2, m3, m4>> \in Seq(S)
         /\ \A m \in ToSet(<<m1, m2, m3, m4>>) : m \in {m1, m2, m3, m4}
<1> DEFINE x == <<m1, m2>>
           y == <<m3, m4>>
           o == x \o y
<1>1. <<m1, m2, m3, m4>> = o
  OBVIOUS
<1>2. x \in Seq(S) /\ y \in Seq(S)
  OBVIOUS
<1>3. ToSet(x) = {m1, m2} /\ ToSet(y) = {m3, m4}
  BY OfTuples
<1> HIDE DEF x, y
<1>4. o \in Seq(S) /\ ToSet(o) = ToSet(x) \cup ToSet(y)
  BY <1>2, OfConcat
<1> HIDE DEF o
<1> QED BY <1>1, <1>3, <1>4

\* A client whose signature arrives.
LEMMA Signer ==
  ASSUME IndInv, NEW a \in Clients, Good(a), Received(a, "dss")
  PROVE  /\ toPool[a] = <<"dss">> /\ Tail(toPool[a]) = <<>>
         /\ Committed(a) /\ pool.state = "SIGNING" /\ pool.entries[a] # None
         /\ a \notin pool.signed /\ pool.age = 0
         /\ \A m \in ToSet(toClient[a]) : ~Mine(a, m) /\ ~Answer(m)
<1>1. ClientInv(a) /\ toPool[a] # <<>> /\ Head(toPool[a]) = "dss"
  BY DEF IndInv, Received
<1>2. toPool[a] = <<"dss">> /\ Tail(toPool[a]) = <<>>
  BY <1>1, Requests DEF ClientInv, RequestInv
<1>3. Committed(a)
  BY <1>1, <1>2 DEF ClientInv, UncommittedInv
<1>4. pool.entries[a] # None
  BY <1>3 DEF Committed
<1>5. pool.state = "SIGNING"
  BY <1>1, <1>2, <1>3, <1>4, Requests DEF ClientInv, CommittedInv, EntryInv
<1>6. SigningInv(a)
  BY <1>1 DEF ClientInv
<1>7. a \notin pool.signed /\ pool.age = 0 /\ \A m \in ToSet(toClient[a]) : ~Answer(m)
  BY <1>2, <1>4, <1>5, <1>6 DEF SigningInv
<1>8. \A m \in ToSet(toClient[a]) : ~Mine(a, m)
  BY <1>1, <1>4, <1>5, <1>6 DEF SigningInv
<1> QED BY <1>2, <1>3, <1>4, <1>5, <1>7, <1>8

\* What is taken from a client that did not do its part.
LEMMA TakenFields ==
  ASSUME TypeOK, NEW a \in Clients, NEW type, Received(a, type), Taken(a)
  PROVE  /\ toPool[a] # <<>> /\ toPool'[a] = Tail(toPool[a])
         /\ \A x : Contains(toPool'[a], x) => Contains(toPool[a], x)
         /\ \A c \in Clients \ {a} : toPool'[c] = toPool[c]
<1>1. /\ toPool[a] # <<>> /\ toPool'[a] = Tail(toPool[a])
      /\ toPool[a] \in Seq({"dsa", "dsi", "dss"})
      /\ \A c \in Clients \ {a} : toPool'[c] = toPool[c]
  BY Types DEF Received, Taken
<1> QED BY <1>1, ContainsTail

\* A signature that is one of several.
LEMMA SignatureStep ==
  ASSUME IndInv, NEW a \in Clients, Received(a, "dss"), Taken(a), pool.entries[a] # None,
         pool' = [pool EXCEPT !.signed = @ \cup {a}],
         toClient' = Told(<<Reset([pool EXCEPT !.signed = @ \cup {a}])>>),
         UNCHANGED <<client, submit, reset, asked, failed, overtaken>>
  PROVE  PoolInv' /\ \A c \in Clients : ClientInv(c)'
<1> DEFINE r == Reset(pool)
           s == <<r>>
<1>1. TypeOK /\ PoolInv /\ pool \in PoolType /\ \A c \in Clients : ClientInv(c)
  BY Types DEF IndInv
<1>2. /\ pool'.state = pool.state /\ pool'.age = pool.age /\ pool'.session = pool.session
      /\ pool'.users = pool.users /\ pool'.entries = pool.entries
      /\ pool'.signed = pool.signed \cup {a}
      /\ Reset([pool EXCEPT !.signed = @ \cup {a}]) = r
  BY <1>1 DEF PoolType, Reset, Status
<1>3. pool.users # 0 /\ pool.session # 0
  BY <1>1 DEF PoolInv
<1>4. r \in Messages
  BY <1>1, Types, MessageTypes
<1>5. /\ r.type = "dssu" /\ r.session = pool.session /\ r.state = pool.state /\ r.accepted = None
      /\ ~Answer(r) /\ ~Yes(r) /\ \A c : ~Mine(c, r)
      /\ r # Ready /\ r = Reset(pool) /\ r = Reset(pool)'
  BY <1>2, Kinds DEF Mine, Ready, Reset, Status
<1> HIDE DEF r
<1>6. s \in Seq(Messages) /\ ToSet(s) = {r} /\ s # <<>> /\ Last(s) = r
  <2>1. s \in Seq(Messages) /\ s # <<>>
    BY <1>4
  <2>2. ToSet(s) = {r} /\ Last(s) = r
    BY OfTuples
  <2> QED BY <2>1, <2>2
<1>7. toClient' = Told(s)
  BY <1>2
<1> HIDE DEF s
<1>8. \A c \in Clients : /\ toClient'[c] \in {toClient[c], toClient[c] \o s}
                         /\ client[c].submitted => toClient'[c] = toClient[c] \o s
  BY <1>1, <1>6, <1>7, ToldIs
<1>9. PoolInv'
  BY <1>1, <1>2, <1>3 DEF PoolInv, Entered
<1>10. /\ toPool'[a] = Tail(toPool[a])
       /\ \A x : Contains(toPool'[a], x) => Contains(toPool[a], x)
       /\ \A c \in Clients \ {a} : toPool'[c] = toPool[c]
  BY <1>1, TakenFields
<1>11. ASSUME NEW c \in Clients \ {a} PROVE ClientInv(c)'
  <2>1. \A m \in ToSet(s) : m = Reset(pool)
    BY <1>5, <1>6
  <2>2. c \in pool'.signed <=> c \in pool.signed
    BY <1>2
  <2>3. /\ \A d \in Clients : pool'.entries[d] \in {pool.entries[d], None, 0}
        /\ pool'.entries[c] = pool.entries[c] /\ c \in Clients
    BY <1>2
  <2> QED BY <1>1, <1>2, <1>6, <1>8, <1>10, <2>1, <2>2, <2>3, HearsReset
<1>12. ClientInv(a)'
  <2> DEFINE q == toClient[a]
             l == q'
  <2>1. q \in Seq(Messages) /\ l \in {q, q \o s}
    BY <1>1, <1>8, Types
  <2>2. client[a].submitted => l = q \o s
    BY <1>8
  <2> HIDE DEF q, l
  <2>3. /\ l \in Seq(Messages)
        /\ \A m \in ToSet(l) : m \in ToSet(q) \/ m = r
        /\ \A m, n : Before(l, m, n) => Before(q, m, n) \/ n = r
    <3>1. /\ l \in Seq(Messages)
          /\ \A m \in ToSet(l) : m \in ToSet(q) \/ m \in ToSet(s)
          /\ \A m, n : Before(l, m, n) =>
               \/ Before(q, m, n) \/ Before(s, m, n)
               \/ m \in ToSet(q) /\ n \in ToSet(s)
      <4>1. q \in Seq(Messages) /\ s \in Seq(Messages) /\ l \in {q, q \o s}
        BY <1>6, <2>1
      <4> QED BY <4>1, OfAdded
    <3>2. \A m, n : Before(s, m, n) => n \in ToSet(s)
      BY <1>6, OfBefore
    <3> QED BY <1>6, <3>1, <3>2
  <2>4. client[a].submitted => l # <<>> /\ Last(l) = r /\ \A m \in ToSet(q) : m \in ToSet(l)
    <3>1. q \o s # <<>> /\ Last(q \o s) = Last(s) /\ ToSet(q \o s) = ToSet(q) \cup ToSet(s)
      BY <1>6, <2>1, OfConcat
    <3> QED BY <1>6, <2>2, <3>1
  <2>5. ClientInv(a) /\ (Good(a)' <=> Good(a)) /\ (Committed(a)' <=> Committed(a))
        /\ \A m : (AfterReady(m)' <=> AfterReady(m)) /\ (Expected(m)' <=> Expected(m))
    BY <1>1, <1>2 DEF Good, Committed, AfterReady, Expected, Reset, Status
  <2>6. WireInv(a)' /\ ThreadInv(a)'
    <3>1. WireInv(a)'
      BY <1>3, <1>5, <2>3, <2>5 DEF ClientInv, WireInv, q, l
    <3> QED BY <2>5, <3>1 DEF ClientInv, ThreadInv
  <2>7. AnsweringInv(a)'
    <3>1. Contains(l, Ready) => Contains(q, Ready)
      BY <1>5, <2>1, <2>3, OfContains
    <3>2. Answering(a)' => Answering(a)
      BY <1>10, <3>1 DEF Answering, q, l
    <3>3. \A d \in Clients : Good(d)' => Good(d)
      BY DEF Good
    <3> QED BY <1>2, <2>5, <3>2, <3>3 DEF ClientInv, AnsweringInv
  <2>8. CASE ~Good(a)
    <3>1. /\ EntryInv(a)' /\ RequestInv(a)' /\ SuffixInv(a)'
          /\ UncommittedInv(a)' /\ CommittedInv(a)' /\ SigningInv(a)'
      BY <2>5, <2>8 DEF EntryInv, RequestInv, SuffixInv, UncommittedInv, CommittedInv, SigningInv
    <3> QED BY <2>6, <2>7, <3>1 DEF ClientInv
  <2>9. CASE Good(a)
    <3>1. /\ toPool'[a] = <<>> /\ Committed(a) /\ pool.state = "SIGNING" /\ pool.age = 0
          /\ \A m \in ToSet(q) : ~Mine(a, m) /\ ~Answer(m)
      BY <1>10, <2>9, Signer DEF q
    <3>2. EntryInv(a)' /\ RequestInv(a)'
      <4>1. EntryInv(a)'
        BY <1>2, <2>5, <2>9, <3>1 DEF ClientInv, EntryInv
      <4> QED BY <3>1, <4>1, Requests DEF RequestInv
    <3>3. CommittedInv(a)
      BY <2>5 DEF ClientInv
    <3>4. SuffixInv(a)'
      <4>1. AfterReady(r)
        BY <1>5, <3>1 DEF AfterReady
      <4>2. SuffixInv(a)
        BY <2>5 DEF ClientInv
      <4>3. \A m \in ToSet(l) : Before(l, Ready, m) => AfterReady(m)
        <5> SUFFICES ASSUME NEW m \in ToSet(l), Before(l, Ready, m) PROVE AfterReady(m)
          OBVIOUS
        <5>1. Before(q, Ready, m) => m \in ToSet(q)
          BY <2>1, OfBefore
        <5> QED BY <1>3, <2>3, <2>9, <4>1, <4>2, <5>1 DEF SuffixInv, q
      <4>4. submit[a] = "none" /\ ~Contains(toPool'[a], "dsi")
        BY <2>9, <3>1, <3>3, Requests DEF CommittedInv
      <4> QED BY <2>5, <4>3, <4>4 DEF SuffixInv, q, l
    <3>5. UncommittedInv(a)'
      BY <2>5, <3>1 DEF UncommittedInv
    <3>6. \A m \in ToSet(l) : Expected(m) /\ ~Mine(a, m) /\ ~Answer(m)
      <4>1. Expected(r)
        BY <1>5, <3>1 DEF Expected
      <4> QED BY <1>5, <2>3, <2>9, <3>1, <3>3, <4>1 DEF CommittedInv, q
    <3>7. CommittedInv(a)'
      <4>1. client[a].session = pool.session
        BY <2>9, <3>1, <3>3, Kinds DEF CommittedInv, q
      <4> QED BY <1>2, <2>5, <2>9, <3>1, <3>3, <3>6, <4>1 DEF CommittedInv, q, l
    <3>8. SigningInv(a)'
      <4>1. client[a].submitted
        BY <2>9, <3>1, <3>3 DEF CommittedInv
      <4>2. l # <<>> /\ Last(l) = Reset(pool)'
        BY <1>5, <2>4, <4>1
      <4>3. a \in pool'.signed /\ pool'.age = 0 /\ toPool'[a] # <<"dss">>
        BY <1>2, <3>1, Requests
      <4>4. \A m \in ToSet(l) : ~Mine(a, m) /\ ~Answer(m)
        BY <3>6
      <4>5. ~(pool'.age > 0)
        BY <4>3
      <4> QED BY <4>2, <4>3, <4>4, <4>5 DEF SigningInv, q, l
    <3> QED BY <2>6, <2>7, <3>2, <3>4, <3>5, <3>7, <3>8 DEF ClientInv
  <2> QED BY <2>8, <2>9
<1> QED BY <1>9, <1>11, <1>12

\* The last signature: whether the transaction is good or not, it is over.
LEMMA LastSignatureStep ==
  ASSUME IndInv, NEW a \in Clients, Received(a, "dss"), Taken(a), pool.entries[a] # None,
         Entered \subseteq pool.signed \cup {a},
         pool'.users = 0, pool'.session = 0, pool'.state \in Idle, pool'.signed = {},
         \A d \in Clients : pool'.entries[d] = None,
         NEW s \in Seq(Messages), \A m \in ToSet(s) : Farewell(m), toClient' = Told(s),
         UNCHANGED <<client, submit, reset, asked, failed, overtaken>>
  PROVE  PoolInv' /\ \A c \in Clients : ClientInv(c)'
<1>1. TypeOK /\ \A c \in Clients : ClientInv(c)
  BY DEF IndInv
<1>2. PoolInv'
  BY DEF PoolInv, Idle
<1>3. /\ toPool'[a] = Tail(toPool[a])
      /\ \A x : Contains(toPool'[a], x) => Contains(toPool[a], x)
      /\ \A c \in Clients \ {a} : toPool'[c] = toPool[c]
  BY <1>1, TakenFields
<1>4. \A c \in Clients : toClient'[c] \in {toClient[c], toClient[c] \o s}
  BY <1>1, ToldIs
<1>5. ASSUME NEW c \in Clients PROVE ClientInv(c)'
  <2>1. Good(c) /\ ~Committed(c) => toPool'[c] = toPool[c]
    BY <1>3, Signer
  <2>2. ASSUME Good(c), Committed(c)
        PROVE  toPool'[c] = <<>> /\ \A m \in ToSet(toClient[c]) : ~Mine(c, m) /\ ~Answer(m)
    <3>1. CASE c = a
      BY <1>3, <2>2, <3>1, Signer
    <3>2. CASE c # a
      <4>1. c \in pool.signed /\ pool.entries[c] # None
        BY <2>2, <3>2 DEF Committed, Entered
      <4>2. /\ pool.state = "SIGNING" /\ SigningInv(c) /\ toPool[c] \in {<<>>, <<"dss">>}
        BY <1>1, <2>2, <4>1 DEF ClientInv, EntryInv, CommittedInv
      <4>3. /\ toPool[c] = <<>>
            /\ \A m \in ToSet(toClient[c]) : ~Mine(c, m) /\ ~Answer(m)
        BY <2>2, <4>1, <4>2 DEF SigningInv
      <4> QED BY <1>3, <3>2, <4>3
    <3> QED BY <3>1, <3>2
  <2>3. Contains(toPool'[c], "dsi") => Contains(toPool[c], "dsi")
    BY <1>3
  <2>4. \A m \in ToSet(s) : /\ m.type # "dsf" /\ m # Ready /\ ~Answer(m)
                            /\ m.type = "dssu" /\ m.session = 0 => m.state \in Idle /\ m.accepted # 1
    BY DEF Farewell
  <2> QED BY <1>1, <1>4, <2>1, <2>2, <2>3, <2>4, Ended
<1> QED BY <1>2, <1>5

\* A message that the alphanode drops.
LEMMA DroppedSignatureStep ==
  ASSUME IndInv, NEW a \in Clients, Received(a, "dss"), Taken(a),
         pool.entries[a] = None \/ a \in pool.signed,
         UNCHANGED <<pool, client, submit, reset, asked, toClient, failed, overtaken>>
  PROVE  PoolInv' /\ \A c \in Clients : ClientInv(c)'
<1>1. TypeOK /\ ClientInv(a) /\ ~Good(a) /\ (Good(a)' <=> Good(a))
  BY Signer DEF IndInv, Good
<1>2. /\ \A x : Contains(toPool'[a], x) => Contains(toPool[a], x)
      /\ \A c \in Clients \ {a} : toPool'[c] = toPool[c]
  BY <1>1, TakenFields
<1>3. WireInv(a)' /\ ThreadInv(a)'
  BY <1>1 DEF ClientInv, WireInv, ThreadInv
<1>4. AnsweringInv(a)'
  <2>1. Answering(a)' => Answering(a)
    BY <1>2 DEF Answering
  <2>2. \A d \in Clients : Good(d)' => Good(d)
    BY DEF Good
  <2> QED BY <1>1, <2>1, <2>2 DEF ClientInv, AnsweringInv
<1>5. /\ EntryInv(a)' /\ RequestInv(a)' /\ SuffixInv(a)'
      /\ UncommittedInv(a)' /\ CommittedInv(a)' /\ SigningInv(a)'
  BY <1>1 DEF EntryInv, RequestInv, SuffixInv, UncommittedInv, CommittedInv, SigningInv
<1>6. ClientInv(a)'
  BY <1>3, <1>4, <1>5 DEF ClientInv
<1> QED BY <1>2, <1>6, OneClient DEF IndInv

\* "dss" keeps the invariant.
LEMMA DssStep ==
  ASSUME IndInv, NEW a \in Clients, Dss(a)
  PROVE  PoolInv' /\ \A c \in Clients : ClientInv(c)'
<1> DEFINE p == [pool EXCEPT !.signed = @ \cup {a}]
           failure == UpdateState(EmptyPool, "ACCEPTING")
<1>1. /\ Received(a, "dss") /\ Taken(a) /\ UNCHANGED <<client, submit, reset, asked, failed, overtaken>>
  BY DEF Dss, threads
<1>2. TypeOK /\ pool \in PoolType /\ PoolInv
  BY Types DEF IndInv
<1>3. CASE pool.entries[a] = None \/ a \in pool.signed
  BY <1>1, <1>3, DroppedSignatureStep DEF Dss
<1>4. CASE /\ ~(pool.entries[a] = None \/ a \in pool.signed)
           /\ ~(p.state = "SIGNING" /\ Entered \subseteq p.signed)
  <2>1. pool' = p /\ toClient' = Told(<<Reset(p)>>)
    BY <1>4 DEF Dss
  <2> QED BY <1>1, <1>4, <2>1, SignatureStep
<1>5. CASE /\ ~(pool.entries[a] = None \/ a \in pool.signed)
           /\ p.state = "SIGNING" /\ Entered \subseteq p.signed
  <2>1. \/ /\ pool' = EmptyPool
           /\ toClient' = Told(<<Reset(p), Dsc(p), Reset(EmptyPool), Reset(EmptyPool)>>)
        \/ /\ pool' = failure
           /\ toClient' = Told(<<Reset(p), Reset(EmptyPool), Dsc(failure), Reset(failure)>>)
    BY <1>5 DEF Dss
  <2>2. /\ p.session = pool.session /\ p.signed = pool.signed \cup {a} /\ p.state \in States
    BY <1>2 DEF PoolType
  <2>3. pool.session # 0 /\ pool.session \in Nat
    BY <1>2, <1>5, Types DEF PoolInv
  <2> HIDE DEF p
  <2>4. /\ EmptyPool.users = 0 /\ EmptyPool.session = 0 /\ EmptyPool.state = "IDLE"
        /\ EmptyPool.signed = {} /\ \A d \in Clients : EmptyPool.entries[d] = None
    BY DEF EmptyPool
  <2>5. /\ failure.users = 0 /\ failure.session = 0 /\ failure.state = "ACCEPTING"
        /\ failure.signed = {} /\ \A d \in Clients : failure.entries[d] = None
    <3>1. failure = [EmptyPool EXCEPT !.state = "ACCEPTING", !.age = 0]
      BY <2>4 DEF UpdateState
    <3> QED BY <2>4, <3>1, EmptyPoolType DEF PoolType
  <2> HIDE DEF failure
  <2>6. ASSUME NEW x, x.session \in Nat, x.session = 0 => x.state \in Idle, x.state \in States
        PROVE  Reset(x) \in Messages /\ Dsc(x) \in Messages /\ Farewell(Reset(x)) /\ Farewell(Dsc(x))
    <3>1. Reset(x) \in Messages /\ Dsc(x) \in Messages
      BY <2>6, MessageTypes
    <3>2. Farewell(Reset(x))
      <4>1. Reset(x).accepted # 1
        BY Kinds, Bounds
      <4>2. Reset(x) # Ready
        BY Kinds DEF Ready
      <4> QED BY <2>6, <4>1, <4>2, Kinds DEF Farewell
    <3>3. Farewell(Dsc(x))
      BY DEF Farewell, Dsc, Ready, Answer
    <3> QED BY <3>1, <3>2, <3>3
  <2>7. "IDLE" \in States /\ "ACCEPTING" \in States /\ "IDLE" \in Idle /\ "ACCEPTING" \in Idle
    BY DEF States, Idle
  <2>8. /\ Reset(p) \in Messages /\ Dsc(p) \in Messages /\ Farewell(Reset(p)) /\ Farewell(Dsc(p))
        /\ Reset(EmptyPool) \in Messages /\ Farewell(Reset(EmptyPool))
        /\ Reset(failure) \in Messages /\ Dsc(failure) \in Messages
        /\ Farewell(Reset(failure)) /\ Farewell(Dsc(failure))
    BY <2>2, <2>3, <2>4, <2>5, <2>6, <2>7
  <2>9. PICK s \in Seq(Messages) :
          toClient' = Told(s) /\ \A m \in ToSet(s) : Farewell(m)
    <3> DEFINE s1 == <<Reset(p), Dsc(p), Reset(EmptyPool), Reset(EmptyPool)>>
               s2 == <<Reset(p), Reset(EmptyPool), Dsc(failure), Reset(failure)>>
    <3>1. s1 \in Seq(Messages) /\ \A m \in ToSet(s1) : m \in {Reset(p), Dsc(p), Reset(EmptyPool)}
      BY <2>8, OfFour
    <3>2. s2 \in Seq(Messages)
          /\ \A m \in ToSet(s2) : m \in {Reset(p), Reset(EmptyPool), Dsc(failure), Reset(failure)}
      BY <2>8, OfFour
    <3>3. toClient' = Told(s1) \/ toClient' = Told(s2)
      BY <2>1
    <3> HIDE DEF s1, s2
    <3>4. /\ \A m \in ToSet(s1) : Farewell(m)
          /\ \A m \in ToSet(s2) : Farewell(m)
      BY <2>8, <3>1, <3>2
    <3> QED BY <3>1, <3>2, <3>3, <3>4
  <2>10. /\ pool'.users = 0 /\ pool'.session = 0 /\ pool'.state \in Idle /\ pool'.signed = {}
         /\ \A d \in Clients : pool'.entries[d] = None
    BY <2>1, <2>4, <2>5, <2>7
  <2> QED BY <1>1, <1>5, <2>2, <2>9, <2>10, LastSignatureStep
<1> QED BY <1>3, <1>4, <1>5

\* Entries that expire, or all of them.
LEMMA WaitingTimeoutStep ==
  ASSUME IndInv, pool.state \in Waiting,
         LET kept == [c \in Clients |-> IF Expired(pool.entries[c]) THEN None
                                        ELSE pool.entries[c]]
             erased == Cardinality({c \in Entered : kept[c] = None})
             p == IF kept = EmptyPool.entries /\ Entered # {} THEN EmptyPool
                  ELSE [pool EXCEPT !.entries = kept]
         IN  /\ pool' = IF p.age >= QueueTimeout THEN EmptyPool ELSE p
             /\ toClient' = Told([i \in 1..erased |-> Reset(IF i < erased THEN pool ELSE p)]),
         UNCHANGED <<client, submit, reset, asked, toPool, failed, overtaken>>
  PROVE  PoolInv' /\ \A c \in Clients : ClientInv(c)'
<1> DEFINE kept == [c \in Clients |-> IF Expired(pool.entries[c]) THEN None
                                      ELSE pool.entries[c]]
           erased == Cardinality({c \in Entered : kept[c] = None})
           left == [pool EXCEPT !.entries = kept]
           p == IF kept = EmptyPool.entries /\ Entered # {} THEN EmptyPool ELSE left
           s == [i \in 1..erased |-> Reset(IF i < erased THEN pool ELSE p)]
<1>1. TypeOK /\ PoolInv /\ pool \in PoolType /\ \A c \in Clients : ClientInv(c)
  BY Types DEF IndInv
<1>2. /\ pool' = IF p.age >= QueueTimeout THEN EmptyPool ELSE p
      /\ toClient' = Told(s)
  OBVIOUS
<1>3. /\ left.state = pool.state /\ left.session = pool.session /\ left.users = pool.users
      /\ left.signed = pool.signed /\ left.age = pool.age /\ left.entries = kept
  BY <1>1 DEF PoolType
<1>4. Reset(left) = Reset(pool)
  BY <1>3 DEF Reset, Status
<1>5. /\ EmptyPool.users = 0 /\ EmptyPool.session = 0 /\ EmptyPool.state = "IDLE" /\ EmptyPool.age = 0
      /\ EmptyPool.signed = {} /\ \A d \in Clients : EmptyPool.entries[d] = None
      /\ EmptyPool.entries = [d \in Clients |-> None]
  BY DEF EmptyPool
<1>6. erased \in Nat
  <2>1. IsFiniteSet({c \in Entered : kept[c] = None})
    BY Bounds, FS_Subset DEF Entered
  <2> QED BY <2>1, FS_CardinalityType
<1>7. \A c \in Clients : kept[c] = IF Expired(pool.entries[c]) THEN None ELSE pool.entries[c]
  OBVIOUS
<1> HIDE DEF kept, erased, left
<1>8. p \in {EmptyPool, left}
  OBVIOUS
<1>9. s \in Seq(Messages) /\ \A m \in ToSet(s) : m \in {Reset(pool), Reset(p)}
  <2>1. Reset(pool) \in Messages /\ Reset(EmptyPool) \in Messages
    <3>1. /\ pool.session \in Nat /\ pool.state \in States
          /\ EmptyPool.session \in Nat /\ EmptyPool.state \in States
      BY <1>1, <1>5, Types DEF States
    <3> QED BY <3>1, MessageTypes
  <2>2. Reset(p) \in Messages
    BY <1>4, <1>8, <2>1
  <2> HIDE DEF p
  <2>3. \A i \in 1..erased : Reset(IF i < erased THEN pool ELSE p) \in {Reset(pool), Reset(p)}
    OBVIOUS
  <2>4. \A i \in 1..erased : s[i] \in {Reset(pool), Reset(p)}
    BY <2>3
  <2>5. \A i \in 1..erased : s[i] \in Messages
    BY <2>1, <2>2, <2>4
  <2>6. DOMAIN s = 1..erased /\ s = [i \in 1..erased |-> s[i]]
    OBVIOUS
  <2> HIDE DEF s
  <2>7. s \in [1..erased -> Messages]
    BY <2>5, <2>6
  <2>8. s \in Seq(Messages)
    BY <1>6, <2>7
  <2> QED BY <2>4, <2>6, <2>8 DEF ToSet
<1> HIDE DEF s
<1>10. \A c \in Clients : toClient'[c] \in {toClient[c], toClient[c] \o s}
  BY <1>1, <1>2, <1>9, ToldIs
<1>11. \A c \in Clients : Committed(c) => kept[c] # None
  <2> SUFFICES ASSUME NEW c \in Clients, Committed(c) PROVE kept[c] # None
    OBVIOUS
  <2>1. pool.entries[c] # None /\ pool.entries[c] < QueueTimeout
    BY DEF Committed, Waiting
  <2>2. pool.entries[c] \in Nat
    BY <1>1, <2>1, Types, Bounds
  <2> QED BY <1>7, <2>1, <2>2, Bounds DEF Expired
<1>12. CASE pool' = EmptyPool
  <2>1. PoolInv'
    BY <1>5, <1>12 DEF PoolInv, Idle
  <2>2. \A m \in ToSet(s) : Farewell(m)
    <3>1. pool.session = 0 => pool.state \in Idle
      BY <1>1 DEF PoolInv
    <3>2. ASSUME NEW x, x.session = 0 => x.state \in Idle PROVE Farewell(Reset(x))
      <4>1. Reset(x).accepted # 1
        BY Kinds, Bounds
      <4>2. Reset(x) # Ready
        BY Kinds DEF Ready
      <4> QED BY <3>2, <4>1, <4>2, Kinds DEF Farewell
    <3>3. Farewell(Reset(pool)) /\ Farewell(Reset(EmptyPool))
      BY <1>5, <3>1, <3>2 DEF Idle
    <3> QED BY <1>4, <1>8, <1>9, <3>3
  <2>3. ASSUME NEW c \in Clients, Good(c), Committed(c)
        PROVE  toPool'[c] = <<>> /\ \A m \in ToSet(toClient[c]) : ~Mine(c, m) /\ ~Answer(m)
    <3>1. kept # EmptyPool.entries
      BY <1>5, <1>11, <2>3
    <3>2. p = left
      BY <3>1
    <3>3. left.age >= QueueTimeout
      <4>1. left # EmptyPool
        BY <1>3, <3>1
      <4> QED BY <1>2, <1>12, <3>2, <4>1
    <3>4. pool.age # 0
      BY <1>3, <3>3, Bounds
    <3>5. CommittedInv(c) /\ EntryInv(c)
      BY <1>1 DEF ClientInv
    <3>6. pool.state = "ACCEPTING"
      BY <2>3, <3>5 DEF EntryInv, Committed, Waiting
    <3>7. toPool[c] = <<>> /\ \A m \in ToSet(toClient[c]) : ~Answer(m) /\ Expected(m)
      BY <2>3, <3>4, <3>5, <3>6 DEF CommittedInv
    <3>8. \A m \in ToSet(toClient[c]) : ~Mine(c, m)
      BY <3>6, <3>7 DEF Expected, Mine
    <3> QED BY <3>7, <3>8
  <2>4. ASSUME NEW c \in Clients PROVE ClientInv(c)'
    <3>1. \A m \in ToSet(s) : /\ m.type # "dsf" /\ m # Ready /\ ~Answer(m)
                              /\ m.type = "dssu" /\ m.session = 0 => m.state \in Idle /\ m.accepted # 1
      BY <2>2 DEF Farewell
    <3>2. /\ pool'.users = 0 /\ pool'.session = 0 /\ pool'.state \in Idle /\ pool'.signed = {}
          /\ \A d \in Clients : pool'.entries[d] = None
      BY <1>5, <1>12 DEF Idle
    <3> QED BY <1>1, <1>9, <1>10, <2>3, <3>1, <3>2, Ended
  <2> QED BY <2>1, <2>4
<1>13. CASE pool' # EmptyPool
  <2>1. pool' = left /\ p = left
    BY <1>2, <1>8, <1>13
  <2>2. PoolInv'
    BY <1>1, <1>3, <1>7, <2>1, Bounds DEF PoolInv, Waiting
  <2>3. \A m \in ToSet(s) : m = Reset(pool)
    BY <1>4, <1>9, <2>1
  <2>4. /\ pool'.session = pool.session /\ pool'.state = pool.state /\ pool'.users = pool.users
        /\ pool'.age = pool.age /\ pool'.signed = pool.signed
        /\ \A d \in Clients : pool'.entries[d] \in {pool.entries[d], None, 0}
    BY <1>3, <1>7, <2>1
  <2>5. ASSUME NEW c \in Clients PROVE ClientInv(c)'
    <3>1. \/ pool'.entries[c] = pool.entries[c]
          \/ pool'.entries[c] = None /\ pool.state # "SIGNING" /\ ~Committed(c)
      BY <1>3, <1>7, <1>11, <2>1 DEF Waiting
    <3>2. c \in pool'.signed <=> c \in pool.signed
      BY <2>4
    <3> QED BY <1>1, <1>9, <1>10, <2>3, <2>4, <3>1, <3>2, HearsReset
  <2> QED BY <2>2, <2>5
<1> QED BY <1>12, <1>13

\* Nobody that did its part is left when the signatures are due.
LEMMA NobodyLeft ==
  ASSUME IndInv, pool.state = "SIGNING", pool.age >= SigningTimeout,
         NEW c \in Clients, Good(c), pool.entries[c] # None
  PROVE  /\ c \in pool.signed /\ toPool[c] = <<>>
         /\ \A m \in ToSet(toClient[c]) : ~Mine(c, m) /\ ~Answer(m)
<1>1. ClientInv(c) /\ Committed(c)
  BY DEF IndInv, Committed
<1>2. pool.age # 0
  BY Bounds
<1>3. SigningInv(c) /\ CommittedInv(c)
  BY <1>1 DEF ClientInv
<1>4. toPool[c] \in {<<>>, <<"dss">>} /\ \A m \in ToSet(toClient[c]) : ~Answer(m)
  BY <1>1, <1>2, <1>3 DEF CommittedInv
<1>5. c \in pool.signed /\ toPool[c] # <<"dss">> /\ \A m \in ToSet(toClient[c]) : ~Mine(c, m)
  BY <1>2, <1>3 DEF SigningInv
<1> QED BY <1>4, <1>5

\* Giving up the signatures keeps the invariant.
LEMMA SigningTimeoutStep ==
  ASSUME IndInv, pool.state = "SIGNING", pool.age >= SigningTimeout, pool' = EmptyPool,
         UNCHANGED <<client, submit, reset, asked, toPool, toClient, failed, overtaken>>
  PROVE  PoolInv' /\ \A c \in Clients : ClientInv(c)'
<1>1. /\ pool'.users = 0 /\ pool'.session = 0 /\ pool'.state \in Idle /\ pool'.signed = {}
      /\ \A d \in Clients : pool'.entries[d] = None
  BY DEF EmptyPool, Idle
<1>2. PoolInv'
  BY <1>1 DEF PoolInv, Idle
<1>3. ASSUME NEW c \in Clients PROVE ClientInv(c)'
  <2>1. TypeOK /\ ClientInv(c)
    BY DEF IndInv
  <2>2. Good(c) /\ Committed(c) =>
           toPool'[c] = <<>> /\ \A m \in ToSet(toClient[c]) : ~Mine(c, m) /\ ~Answer(m)
    BY NobodyLeft DEF Committed
  <2> DEFINE s == <<>>
  <2>3. s \in Seq(Messages)
    OBVIOUS
  <2>4. \A m \in ToSet(s) : FALSE
    BY OfTuples
  <2>5. toClient'[c] \in {toClient[c], toClient[c] \o s}
    OBVIOUS
  <2> HIDE DEF s
  <2> QED BY <1>1, <2>1, <2>2, <2>3, <2>4, <2>5, Ended
<1> QED BY <1>2, <1>3

\* A timeout of the alphanode keeps the invariant.
LEMMA PoolTimeoutStep ==
  ASSUME IndInv, PoolTimeout
  PROVE  PoolInv' /\ \A c \in Clients : ClientInv(c)'
<1>1. UNCHANGED <<client, submit, reset, asked, toPool, failed, overtaken>>
  BY DEF PoolTimeout, threads
<1>2. CASE pool.state \in Waiting
  <2>1. LET kept == [c \in Clients |-> IF Expired(pool.entries[c]) THEN None
                                       ELSE pool.entries[c]]
            erased == Cardinality({c \in Entered : kept[c] = None})
            p == IF kept = EmptyPool.entries /\ Entered # {} THEN EmptyPool
                 ELSE [pool EXCEPT !.entries = kept]
        IN  /\ pool' = IF p.age >= QueueTimeout THEN EmptyPool ELSE p
            /\ toClient' = Told([i \in 1..erased |-> Reset(IF i < erased THEN pool ELSE p)])
    BY <1>2, Zenon DEF PoolTimeout, Waiting
  <2> QED BY <1>1, <1>2, <2>1, WaitingTimeoutStep
<1>3. CASE pool.state \notin Waiting
  <2>1. /\ pool.state = "SIGNING" /\ pool.age >= SigningTimeout /\ pool' = EmptyPool
        /\ UNCHANGED toClient
    BY <1>3 DEF PoolTimeout, PoolDue
  <2> QED BY <1>1, <2>1, SigningTimeoutStep
<1> QED BY <1>2, <1>3

-----------------------------------------------------------------------------

\* The invariant holds initially.
LEMMA InitInv == Init => IndInv
<1> SUFFICES ASSUME Init PROVE IndInv
  OBVIOUS
<1>1. TypeOK
  BY InitType
<1>2. /\ pool.users = 0 /\ pool.session = 0 /\ pool.state = "IDLE" /\ pool.signed = {}
      /\ \A c \in Clients : pool.entries[c] = None
  BY DEF Init, EmptyPool
<1>3. PoolInv
  BY <1>2 DEF PoolInv, Idle
<1>4. ASSUME NEW c \in Clients PROVE ClientInv(c)
  <2>1. /\ toPool[c] = <<>> /\ toClient[c] = <<>> /\ submit[c] = "none" /\ reset[c] = "none"
        /\ ToSet(toClient[c]) = {}
        /\ client[c].state = "IDLE" /\ client[c].entry = None
    BY OfTuples DEF Init, NewClient
  <2>2. ~Answering(c) /\ ~Outstanding(c) /\ ~Committed(c)
    BY <1>2, <2>1, Requests DEF Answering, Outstanding, Committed, Contains
  <2>3. WireInv(c) /\ ThreadInv(c) /\ AnsweringInv(c) /\ EntryInv(c) /\ SuffixInv(c)
    BY <1>2, <2>1, <2>2 DEF WireInv, ThreadInv, AnsweringInv, EntryInv, SuffixInv
  <2>4. RequestInv(c) /\ UncommittedInv(c)
    BY <2>1, <2>2, Requests DEF RequestInv, UncommittedInv
  <2>5. CommittedInv(c) /\ SigningInv(c)
    BY <1>2, <2>2 DEF CommittedInv, SigningInv
  <2> QED BY <2>3, <2>4, <2>5 DEF ClientInv
<1> QED BY <1>1, <1>3, <1>4 DEF IndInv

\* Every step keeps the types.
LEMMA TypeStep == TypeOK /\ [Next]_vars => TypeOK'
<1> SUFFICES ASSUME TypeOK, [Next]_vars PROVE TypeOK'
  OBVIOUS
<1>1. ASSUME NEW c \in Clients, PoolStep(c) PROVE TypeOK'
  BY <1>1, DsaType, DsiType, DsiRefusedType, DssType DEF PoolStep
<1>2. ASSUME NEW c \in Clients, MessageStep(c) PROVE TypeOK'
  BY <1>2, StatusUpdateType, ReadyType, ListCoinsType, SendType, SignType, CompletedType
     DEF MessageStep
<1>3. ASSUME NEW c \in Clients, TimeoutStep(c) PROVE TypeOK'
  BY <1>3, TimeoutType DEF TimeoutStep
<1>4. ASSUME NEW c \in Clients, Start(c) \/ Restart(c) PROVE TypeOK'
  BY <1>4, StartType, RestartType
<1>5. CASE UNCHANGED vars
  BY <1>5 DEF vars, threads, links, history, TypeOK
<1> QED BY <1>1, <1>2, <1>3, <1>4, <1>5, CheckForCompleteQueueType, PoolTimeoutType, TickType
        DEF Next, Progress

\* Every step keeps the invariant.
LEMMA InvariantStep ==
  ASSUME ~Preemption
  PROVE  IndInv /\ [Next]_vars => IndInv'
<1> SUFFICES ASSUME IndInv, [Next]_vars PROVE IndInv'
  OBVIOUS
<1>1. TypeOK'
  BY TypeStep DEF IndInv
<1> DEFINE Rest == PoolInv' /\ \A c \in Clients : ClientInv(c)'
<1>2. ASSUME NEW c \in Clients, PoolStep(c) PROVE Rest
  BY <1>1, <1>2, DsaStep, DsiStep, DsiRefusedStep, DssStep DEF PoolStep
<1>3. ASSUME NEW c \in Clients, MessageStep(c) PROVE Rest
  BY <1>3, StatusUpdateStep, PrepareStep, DropReadyStep, ListCoinsStep, SendStep, SignStep,
     CompletedStep DEF MessageStep
<1>4. ASSUME NEW c \in Clients, TimeoutStep(c) PROVE Rest
  BY <1>4, TimeoutUnlockStep, TimeoutNullStep DEF TimeoutStep
<1>5. ASSUME NEW c \in Clients, Start(c) \/ Restart(c) PROVE Rest
  BY <1>5, StartStep, RestartStep
<1>6. ASSUME UNCHANGED vars PROVE Rest
  <2>1. PoolInv'
    BY <1>6 DEF vars, IndInv, PoolInv, Entered
  <2>2. ASSUME NEW c \in Clients PROVE ClientInv(c)'
    BY <1>6, Untouched DEF vars, threads, links, history, IndInv
  <2> QED BY <2>1, <2>2
<1>7. ASSUME CheckForCompleteQueue \/ PoolTimeout \/ Tick PROVE Rest
  BY <1>7, CheckForCompleteQueueStep, PoolTimeoutStep, TickStep
<1> HIDE DEF Rest
<1>8. Rest
  BY <1>2, <1>3, <1>4, <1>5, <1>6, <1>7 DEF Next, Progress
<1> QED BY <1>1, <1>8 DEF IndInv, Rest

\* Who failed or was overtaken stays so; only CheckTimeout charges.
LEMMA HistoryStep ==
  ASSUME [Next]_vars
  PROVE  /\ failed \subseteq failed' /\ overtaken \subseteq overtaken'
         /\ charged' = charged \/ PoolTimeout
<1>1. ASSUME NEW c \in Clients, PoolStep(c)
      PROVE  failed' = failed /\ overtaken \subseteq overtaken' /\ charged' = charged
  BY <1>1 DEF PoolStep, Dsa, Dsi, DsiRefused, Dss, history
<1>2. ASSUME NEW c \in Clients, MessageStep(c)
      PROVE  failed \subseteq failed' /\ overtaken' = overtaken /\ charged' = charged
  BY <1>2 DEF MessageStep, StatusUpdate, Prepare, DropReady, ListCoins, SendDarksendDenominate,
              SignFinalTransaction, CompletedTransaction, history
<1>3. ASSUME NEW c \in Clients, TimeoutStep(c) \/ Start(c) \/ Restart(c)
      PROVE  failed \subseteq failed' /\ overtaken' = overtaken /\ charged' = charged
  BY <1>3 DEF TimeoutStep, TimeoutUnlock, TimeoutNull, Start, Restart, history
<1>4. ASSUME CheckForCompleteQueue \/ Tick \/ UNCHANGED vars
      PROVE  failed' = failed /\ overtaken' = overtaken /\ charged' = charged
  BY <1>4 DEF CheckForCompleteQueue, Tick, vars, history
<1>5. ASSUME PoolTimeout PROVE failed' = failed /\ overtaken' = overtaken
  BY <1>5 DEF PoolTimeout
<1> QED BY <1>1, <1>2, <1>3, <1>4, <1>5 DEF Next, Progress

\* Every step charges only those that did not do their part.
LEMMA ChargedStep == IndInv /\ HonestNotCharged /\ [Next]_vars => HonestNotCharged'
<1> SUFFICES ASSUME IndInv, HonestNotCharged, [Next]_vars PROVE HonestNotCharged'
  OBVIOUS
<1>1. /\ failed \subseteq failed' /\ overtaken \subseteq overtaken'
      /\ charged' = charged \/ PoolTimeout
  BY HistoryStep
<1>2. CASE charged' = charged
  BY <1>1, <1>2 DEF HonestNotCharged
<1>3. CASE PoolTimeout /\ charged' # charged
  <2>1. pool.state = "SIGNING" /\ pool.age >= SigningTimeout /\ ChargeFees
    BY <1>3 DEF PoolTimeout, PoolDue, Waiting
  <2>2. PICK c \in Offenders : charged' = charged \cup {c}
    BY <1>3, <2>1 DEF ChargeFees
  <2>3. c \in Clients /\ pool.entries[c] # None /\ c \notin pool.signed
    BY DEF Offenders, Entered
  <2>4. ~Good(c)
    BY <2>1, <2>3, NobodyLeft
  <2> QED BY <1>1, <2>2, <2>4 DEF HonestNotCharged, Good
<1> QED BY <1>1, <1>2, <1>3

\* The invariant implies SignedMeansLocked.
LEMMA SignedLocked == IndInv => SignedMeansLocked
<1> SUFFICES ASSUME IndInv, NEW c \in pool.signed, Good(c)
             PROVE  client[c].locked /\ client[c].session = pool.session
  BY DEF SignedMeansLocked, Good
<1>1. c \in Clients /\ ClientInv(c)
  BY Types DEF IndInv
<1>2. pool.state = "SIGNING" /\ pool.entries[c] # None
  BY <1>1 DEF ClientInv, EntryInv
<1>3. Committed(c)
  BY <1>2 DEF Committed
<1>4. \A m \in ToSet(toClient[c]) : ~Answer(m)
  BY <1>1, <1>2 DEF ClientInv, SigningInv
<1> QED BY <1>1, <1>3, <1>4, Kinds DEF ClientInv, CommittedInv

\* The invariant holds while the threads of a client do not interrupt each
\* other between two steps of theirs.
THEOREM Invariance ==
  ASSUME ~Preemption
  PROVE  Spec => []IndInv
<1>1. IndInv /\ [Next]_vars => IndInv'
  BY InvariantStep
<1> QED BY <1>1, InitInv, PTL DEF Spec

\* Whose signature the alphanode holds has its coins locked and waits for this
\* session: the timeouts of both sides, and what is on its way, allow nothing
\* else to a client that did its part and was not overtaken.
THEOREM SignedMeansLockedCorrect ==
  ASSUME ~Preemption
  PROVE  Spec => []SignedMeansLocked
BY Invariance, SignedLocked, PTL

\* CheckTimeout and ChargeFees take the collateral of nobody that did its part.
THEOREM HonestNotChargedCorrect ==
  ASSUME ~Preemption
  PROVE  Spec => []HonestNotCharged
<1>1. Init => HonestNotCharged
  BY DEF Init, HonestNotCharged
<1>2. Spec => []IndInv
  BY Invariance
<1> QED BY <1>1, <1>2, ChargedStep, PTL DEF Spec

\* Every variable of Darksend holds a value of its type, whatever the threads
\* of a client do to each other.
THEOREM TypeCorrect == Spec => []TypeOK
BY InitType, TypeStep, PTL DEF Spec

=============================================================================
