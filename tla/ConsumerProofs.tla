----------------------------- MODULE ConsumerProofs -----------------------------
(***************************************************************************)
(* Theorems about Consumer for any threads, aircraft, prefetch, numbers of *)
(* messages and faults, and any kinds of fault.  What the repository keeps *)
(* comes from FlightRepositoryProofs, which applies because every step of  *)
(* the consumer is a step of the repository or leaves it alone.            *)
(***************************************************************************)
EXTENDS Consumer, TLAPS, FiniteSetTheorems, WellFoundedInduction

R == INSTANCE FlightRepositoryProofs

LEMMA RepoAssumptions == R!NoWorkerAssumption /\ R!NoFlightAssumption
BY ConsumerAssumption DEF R!Flight, Stamps, R!NoWorkerAssumption, R!NoFlightAssumption

(* Repo and R are two instances of one module.                             *)
LEMMA SameRepository ==
  /\ Repo!Init => R!Init
  /\ [Repo!Next]_Repo!vars => [R!Next]_R!vars
  /\ R!TypeOK => Repo!TypeOK
  /\ R!TypeOK' => Repo!TypeOK'
  /\ R!Flight = Message
BY DEF Message, Repo!Init, R!Init, Repo!Next, R!Next, Repo!vars, R!vars,
   Repo!Connect, R!Connect, Repo!Enter, R!Enter, Repo!Step, R!Step, Repo!Fault, R!Fault,
   Repo!Return, R!Return, Repo!Disconnect, R!Disconnect, Repo!Vanish, R!Vanish,
   Repo!Acquire, R!Acquire, Repo!AcquireClosed, R!AcquireClosed, Repo!Upsert, R!Upsert,
   Repo!Insert, R!Insert, Repo!Commit, R!Commit, Repo!RefusedInError, R!RefusedInError,
   Repo!UseClosed, R!UseClosed, Repo!BindFails, R!BindFails,
   Repo!StatementFails, R!StatementFails, Repo!CommitUnanswered, R!CommitUnanswered,
   Repo!Goto, R!Goto, Repo!Raise, R!Raise, Repo!Flight, R!Flight, Repo!Holding, R!Holding,
   Repo!UpsertFlight, R!UpsertFlight, Repo!InsertHistory, R!InsertHistory,
   Repo!EmptyTables, R!EmptyTables, Repo!TypeOK, R!TypeOK, Repo!ConnStates, R!ConnStates,
   Repo!CallStates, R!CallStates, Repo!Tables, R!Tables

(* The CHOOSE of Oldest has something to choose: stamps are well ordered.  *)
LEMMA OldestIn ==
  ASSUME NEW S, S \subseteq Message, S # {}
  PROVE  Oldest(S) \in S /\ \A n \in S : Oldest(S).fetched_at <= n.fetched_at
<1> DEFINE T == {m.fetched_at : m \in S}
<1>1. T \subseteq Nat /\ T # {}
  BY DEF Message, Repo!Flight, Stamps
<1>2. \E x \in T : \A y \in T : ~ (<<y, x>> \in OpToRel(<, Nat))
  BY <1>1, NatLessThanWellFounded, WFMin
<1>3. PICK x \in T : \A y \in T : ~ (y < x)
  BY <1>1, <1>2 DEF OpToRel
<1>4. PICK m \in S : m.fetched_at = x
  BY <1>3
<1>5. ASSUME NEW n \in S PROVE m.fetched_at <= n.fetched_at
  <2>1. n.fetched_at \in T /\ n.fetched_at \in Nat /\ x \in Nat
    BY <1>1
  <2>2. ~ (n.fetched_at < x)
    BY <1>3, <2>1
  <2> HIDE DEF T
  <2> QED BY <1>4, <2>1, <2>2
<1> HIDE DEF T
<1> QED BY <1>4, <1>5 DEF Oldest

-----------------------------------------------------------------------------

(* What a thread is inside upsert_flight with is what it is processing.    *)
CallsOK == \A w \in Workers : call[w] # "idle" => cur[w] # NoFlight /\ arg[w] = cur[w]

(* Where the process is tells what can be in its memory.                   *)
MemoryOK ==
  /\ proc \notin {"running", "draining", "lost"} =>
       tasks = {} /\ \A w \in Workers : cur[w] = NoFlight
  /\ proc \notin Connected => unacked = {} /\ callbacks = <<>>

(* What is acknowledged, or about to be, is stored.                        *)
StoredOK ==
  /\ AckedWasStored
  /\ \A i \in DOMAIN callbacks : callbacks[i].ok => db.history[callbacks[i].msg] > 0

RepoOK == R!IInv /\ R!OkIsStored

IInv == TypeOK /\ RepoOK /\ CallsOK /\ MemoryOK
        /\ MessagesConserved /\ OneOwner /\ WindowAccounted /\ StoredOK

-----------------------------------------------------------------------------
(* The consumer and the repository *)

LEMMA InitRefines == Init => Repo!Init
BY DEF Init

(* Every step of the consumer is a step of the repository, or none.        *)
LEMMA NextRefines == TypeOK /\ [Next]_vars => [Repo!Next]_Repo!vars
<1> SUFFICES ASSUME TypeOK, [Next]_vars PROVE [Repo!Next]_Repo!vars
  OBVIOUS
<1> USE DEF repo, Repo!vars
<1>1. ASSUME NEW a \in Aircraft, Publish(a) PROVE UNCHANGED Repo!vars
  BY <1>1 DEF Publish
<1>2. CASE Deliver \/ AckOrNack \/ LoseAmqp \/ StartProcess \/ ConnectRabbitmq \/ Stop
  BY <1>2 DEF Deliver, AckOrNack, LoseAmqp, StartProcess, ConnectRabbitmq, Stop
<1>3. CASE Heartbeat \/ UNCHANGED vars
  BY <1>3 DEF Heartbeat, vars
<1>4. CASE ConnectPostgres
  BY <1>4 DEF ConnectPostgres, Repo!Next
<1>5. CASE ConnectFails
  BY <1>5 DEF ConnectFails, ProcessGone, Repo!Next
<1>6. CASE Exit \/ Crash
  BY <1>6 DEF Exit, Crash, ProcessGone, Repo!Next
<1>7. ASSUME NEW w \in Workers, Take(w) \/ EnrichFails(w) PROVE UNCHANGED Repo!vars
  BY <1>7 DEF Take, EnrichFails
<1>8. ASSUME NEW w \in Workers, Enrich(w) PROVE Repo!Next
  <2>1. cur[w] \in Repo!Flight
    BY <1>8 DEF Enrich, TypeOK, Message
  <2> QED BY <1>8, <2>1 DEF Enrich, Repo!Next
<1>9. ASSUME NEW w \in Workers, StoreStep(w) \/ Finish(w) \/ StoreFails(w) PROVE Repo!Next
  BY <1>9 DEF StoreStep, Finish, StoreFails, Repo!Next, Repo!Fault
<1>10. CASE LosePostgres
  BY <1>10 DEF LosePostgres, Repo!Next
<1> QED BY <1>1, <1>2, <1>3, <1>4, <1>5, <1>6, <1>7, <1>8, <1>9, <1>10 DEF Next, WorkerStep

LEMMA InitRepoOK == Init => RepoOK
<1> SUFFICES ASSUME Init PROVE RepoOK
  OBVIOUS
<1>1. R!Init
  BY InitRefines, SameRepository
<1>2. R!IInv
  BY <1>1, R!InitIInv, RepoAssumptions DEF R!NoWorkerAssumption, R!NoFlightAssumption
<1>3. R!OkIsStored
  BY <1>1 DEF R!Init, R!OkIsStored
<1> QED BY <1>2, <1>3 DEF RepoOK

LEMMA NextRepoOK == TypeOK /\ RepoOK /\ [Next]_vars => RepoOK'
<1> SUFFICES ASSUME TypeOK, RepoOK, [Next]_vars PROVE RepoOK'
  OBVIOUS
<1>1. R!IInv /\ R!OkIsStored /\ [R!Next]_R!vars
  BY NextRefines, SameRepository DEF RepoOK
<1>2. R!IInv'
  BY <1>1, R!NextIInv, RepoAssumptions DEF R!NoWorkerAssumption, R!NoFlightAssumption
<1>3. R!OkIsStored'
  BY <1>1, R!NextOkIsStored, RepoAssumptions DEF R!NoWorkerAssumption, R!NoFlightAssumption
<1> QED BY <1>2, <1>3 DEF RepoOK

(* What is stored stays stored.                                            *)
LEMMA StoredStays ==
  TypeOK /\ RepoOK /\ [Next]_vars =>
    \A m \in Message : db.history[m] > 0 => db'.history[m] > 0
<1> SUFFICES ASSUME TypeOK, RepoOK, [Next]_vars
             PROVE  \A m \in Message : db.history[m] > 0 => db'.history[m] > 0
  OBVIOUS
<1>1. R!IInv /\ [R!Next]_R!vars
  BY NextRefines, SameRepository DEF RepoOK
<1>2. \A m \in R!Flight : db.history[m] > 0 => db'.history[m] > 0
  BY <1>1, R!HistoryGrows, RepoAssumptions DEF R!NoWorkerAssumption, R!NoFlightAssumption
<1> QED BY <1>2, SameRepository

-----------------------------------------------------------------------------
(* Types and calls *)

LEMMA CallbackTail ==
  callbacks \in Seq(Callback) /\ callbacks # <<>> =>
    /\ Head(callbacks) \in Callback /\ Head(callbacks) = callbacks[1]
    /\ 1 \in DOMAIN callbacks
    /\ Tail(callbacks) \in Seq(Callback)
    /\ \A i \in DOMAIN Tail(callbacks) :
         i + 1 \in DOMAIN callbacks /\ Tail(callbacks)[i] = callbacks[i + 1]
    /\ \A i \in DOMAIN callbacks : i # 1 =>
         i - 1 \in DOMAIN Tail(callbacks) /\ Tail(callbacks)[i - 1] = callbacks[i]
OBVIOUS

LEMMA CallbackAppend ==
  ASSUME callbacks \in Seq(Callback), NEW c \in Callback
  PROVE  /\ Append(callbacks, c) \in Seq(Callback)
         /\ Len(callbacks) + 1 \in DOMAIN Append(callbacks, c)
         /\ Append(callbacks, c)[Len(callbacks) + 1] = c
         /\ \A i \in DOMAIN callbacks :
              i \in DOMAIN Append(callbacks, c) /\ Append(callbacks, c)[i] = callbacks[i]
         /\ \A i \in DOMAIN Append(callbacks, c) :
              i \in DOMAIN callbacks \/ i = Len(callbacks) + 1
         /\ Len(callbacks) + 1 \notin DOMAIN callbacks
OBVIOUS

LEMMA NextCallsOK == TypeOK /\ RepoOK /\ CallsOK /\ MemoryOK /\ [Next]_vars => CallsOK'
<1> SUFFICES ASSUME TypeOK, RepoOK, CallsOK, MemoryOK, [Next]_vars PROVE CallsOK'
  OBVIOUS
<1> USE DEF CallsOK, repo, pool
<1>1. ASSUME NEW a \in Aircraft, Publish(a) PROVE CallsOK'
  BY <1>1 DEF Publish
<1>2. CASE Deliver \/ AckOrNack \/ LoseAmqp \/ StartProcess \/ ConnectRabbitmq \/ Stop
  BY <1>2 DEF Deliver, AckOrNack, LoseAmqp, StartProcess, ConnectRabbitmq, Stop
<1>3. CASE Heartbeat \/ UNCHANGED vars
  BY <1>3 DEF Heartbeat, vars
<1>4. CASE ConnectPostgres \/ LosePostgres
  BY <1>4 DEF ConnectPostgres, LosePostgres, Repo!Connect, Repo!Disconnect
<1>5. CASE ConnectFails
  BY <1>5 DEF ConnectFails, ProcessGone, Repo!Vanish
<1>6. CASE Exit \/ Crash
  BY <1>6 DEF Exit, Crash, ProcessGone, Repo!Vanish
<1>7. ASSUME NEW w \in Workers, Take(w) PROVE CallsOK'
  BY <1>7 DEF Take, TypeOK
<1>8. ASSUME NEW w \in Workers, EnrichFails(w) PROVE CallsOK'
  BY <1>8 DEF EnrichFails, Answer, TypeOK
<1>9. ASSUME NEW w \in Workers, Enrich(w) PROVE CallsOK'
  BY <1>9 DEF Enrich, Repo!Enter, Repo!Goto, TypeOK, Repo!TypeOK
<1>10. ASSUME NEW w \in Workers, Finish(w) PROVE CallsOK'
  BY <1>10 DEF Finish, Answer, Repo!Return, Repo!Goto, TypeOK, Repo!TypeOK
<1>11. ASSUME NEW w \in Workers, StoreStep(w) PROVE CallsOK'
  BY <1>11 DEF StoreStep, TypeOK, Repo!TypeOK, Repo!Step, Repo!Acquire, Repo!AcquireClosed,
     Repo!Upsert, Repo!Insert, Repo!Commit, Repo!RefusedInError, Repo!UseClosed,
     Repo!Goto, Repo!Raise, Repo!Holding
<1>12. ASSUME NEW w \in Workers, StoreFails(w) PROVE CallsOK'
  BY <1>12 DEF StoreFails, TypeOK, Repo!TypeOK, Repo!BindFails, Repo!StatementFails,
     Repo!CommitUnanswered, Repo!Goto, Repo!Raise, Repo!Holding
<1> QED BY <1>1, <1>2, <1>3, <1>4, <1>5, <1>6, <1>7, <1>8, <1>9, <1>10, <1>11, <1>12
        DEF Next, WorkerStep

LEMMA NextType == TypeOK /\ RepoOK /\ CallsOK /\ [Next]_vars => TypeOK'
<1> SUFFICES ASSUME TypeOK, RepoOK, CallsOK, [Next]_vars PROVE TypeOK'
  OBVIOUS
<1>0. Repo!TypeOK'
  BY NextRepoOK, SameRepository DEF RepoOK, R!IInv
<1> DEFINE Own ==
      /\ next \in 1..(MaxMessages + 1)
      /\ ready \subseteq Message
      /\ unacked \subseteq Message
      /\ acked \subseteq Message
      /\ dropped \subseteq Message
      /\ proc \in ProcStates
      /\ attempts \in 0..ConnectAttempts
      /\ tasks \subseteq Message
      /\ cur \in [Workers -> Message \cup {NoFlight}]
      /\ callbacks \in Seq(Callback)
      /\ faults \in 0..MaxFaults
<1>a. Own
  BY DEF TypeOK
<1> SUFFICES Own'
  BY <1>0 DEF TypeOK
<1>b. <<>> \in Seq(Callback) /\ "lost" \in ProcStates /\ "down" \in ProcStates
  BY DEF ProcStates
<1>c. ASSUME NEW kind, Fault(kind) PROVE faults' \in 0..MaxFaults
  BY <1>a, <1>c, ConsumerAssumption DEF Fault
<1> USE <1>a, ConsumerAssumption DEF broker, pool
<1>1. ASSUME NEW a \in Aircraft, Publish(a) PROVE Own'
  BY <1>1 DEF Publish, Message, Repo!Flight, Stamps
<1>2. CASE Deliver
  BY <1>2, OldestIn DEF Deliver
<1>3. CASE AckOrNack
  BY <1>3, CallbackTail DEF AckOrNack, Callback
<1>4. CASE LoseAmqp \/ Stop
  <2>1. CASE LoseAmqp
    BY <1>b, <1>c, <2>1 DEF LoseAmqp, Requeue
  <2>2. CASE Stop
    BY <1>c, <2>2 DEF Stop, ProcStates
  <2> QED BY <1>4, <2>1, <2>2
<1>5. CASE StartProcess \/ ConnectPostgres \/ ConnectRabbitmq
  BY <1>5 DEF StartProcess, ConnectPostgres, ConnectRabbitmq, ProcStates
<1>d. ASSUME ProcessGone, faults' \in 0..MaxFaults PROVE Own'
  <2>1. cur' \in [Workers -> Message \cup {NoFlight}]
    BY <1>d DEF ProcessGone
  <2> QED BY <1>b, <1>d, <2>1 DEF ProcessGone, Requeue
<1>6. CASE ConnectFails
  <2>1. CASE attempts + 1 < ConnectAttempts
    BY <1>6, <1>c, <2>1 DEF ConnectFails
  <2>2. CASE ~(attempts + 1 < ConnectAttempts)
    BY <1>6, <1>c, <1>d, <2>2 DEF ConnectFails
  <2> QED BY <2>1, <2>2
<1>7. CASE Heartbeat \/ UNCHANGED vars
  BY <1>7 DEF Heartbeat, vars
<1>8. CASE Exit \/ Crash
  BY <1>8, <1>c, <1>d DEF Exit, Crash
<1>9. ASSUME NEW w \in Workers, Take(w) PROVE Own'
  <2>1. Oldest(tasks) \in tasks
    BY <1>9, OldestIn DEF Take
  <2> QED BY <1>9, <2>1 DEF Take
<1>10. ASSUME NEW w \in Workers, NEW ok \in BOOLEAN, Answer(w, ok), cur[w] # NoFlight,
              faults' \in 0..MaxFaults
       PROVE  Own'
  <2>1. [msg |-> cur[w], ok |-> ok] \in Callback
    BY <1>10 DEF Callback
  <2>2. callbacks' \in Seq(Callback)
    BY <1>10, <2>1 DEF Answer
  <2> QED BY <1>10, <2>2 DEF Answer
<1>11. ASSUME NEW w \in Workers, EnrichFails(w) PROVE Own'
  <2>1. faults' \in 0..MaxFaults /\ Answer(w, FALSE) /\ cur[w] # NoFlight
    BY <1>c, <1>11 DEF EnrichFails
  <2> QED BY <1>10, <2>1
<1>12. ASSUME NEW w \in Workers, Finish(w) PROVE Own'
  <2>1. cur[w] # NoFlight /\ Answer(w, call[w] = "ok") /\ faults' = faults
    BY <1>12 DEF Finish, Repo!Return, CallsOK
  <2> QED BY <1>10, <2>1
<1>13. ASSUME NEW w \in Workers, Enrich(w) \/ StoreStep(w) PROVE Own'
  BY <1>13 DEF Enrich, StoreStep
<1>14. ASSUME NEW w \in Workers, StoreFails(w) PROVE Own'
  BY <1>14, <1>c DEF StoreFails
<1>15. CASE LosePostgres
  BY <1>15, <1>c DEF LosePostgres
<1> QED BY <1>1, <1>2, <1>3, <1>4, <1>5, <1>6, <1>7, <1>8, <1>9, <1>11, <1>12, <1>13, <1>14,
           <1>15 DEF Next, WorkerStep

LEMMA InitIInv == Init => IInv
<1> SUFFICES ASSUME Init PROVE IInv
  OBVIOUS
<1>1. RepoOK
  BY InitRepoOK
<1>2. Repo!TypeOK
  BY <1>1, SameRepository DEF RepoOK, R!IInv
<1>3. TypeOK
  BY <1>2, ConsumerAssumption DEF Init, TypeOK, ProcStates
<1>4. CallsOK
  BY DEF Init, Repo!Init, CallsOK
<1>5. MemoryOK
  BY DEF Init, MemoryOK, Connected
<1>6. MessagesConserved
  BY DEF Init, MessagesConserved, Published, Stamps
<1>7. OneOwner /\ WindowAccounted
  BY DEF Init, OneOwner, WindowAccounted, Held, Answered, Connected
<1>8. StoredOK
  BY DEF Init, StoredOK, AckedWasStored
<1> QED BY <1>1, <1>3, <1>4, <1>5, <1>6, <1>7, <1>8 DEF IInv

-----------------------------------------------------------------------------
(* The broker's bookkeeping *)

(* What the process's end leaves of its memory.                            *)
LEMMA GoneMemory ==
  ASSUME ProcessGone
  PROVE  /\ proc' = "down" /\ tasks' = {} /\ callbacks' = <<>> /\ unacked' = {}
         /\ \A w \in Workers : cur'[w] = NoFlight
BY DEF ProcessGone, Requeue

LEMMA NextMemoryOK == TypeOK /\ CallsOK /\ MemoryOK /\ [Next]_vars => MemoryOK'
<1> SUFFICES ASSUME TypeOK, CallsOK, MemoryOK, [Next]_vars PROVE MemoryOK'
  OBVIOUS
<1> USE DEF MemoryOK, Connected, broker, pool
<1>1. ASSUME NEW a \in Aircraft, Publish(a) PROVE MemoryOK'
  BY <1>1 DEF Publish
<1>2. CASE Deliver \/ AckOrNack \/ Stop \/ StartProcess \/ ConnectPostgres \/ ConnectRabbitmq
  BY <1>2 DEF Deliver, AckOrNack, Stop, StartProcess, ConnectPostgres, ConnectRabbitmq
<1>3. CASE LoseAmqp
  BY <1>3 DEF LoseAmqp, Requeue
<1>4. CASE ConnectFails \/ Exit \/ Crash
  BY <1>4, GoneMemory DEF ConnectFails, Exit, Crash
<1>5. CASE Heartbeat \/ LosePostgres \/ UNCHANGED vars
  BY <1>5 DEF Heartbeat, LosePostgres, vars
<1>6. ASSUME NEW w \in Workers, Take(w) PROVE MemoryOK'
  BY <1>6 DEF Take
<1>7. ASSUME NEW w \in Workers, Enrich(w) \/ StoreStep(w) \/ StoreFails(w) PROVE MemoryOK'
  BY <1>7 DEF Enrich, StoreStep, StoreFails
<1>8. ASSUME NEW w \in Workers, NEW ok \in BOOLEAN, Answer(w, ok) PROVE MemoryOK'
  BY <1>8 DEF Answer, TypeOK
<1>9. ASSUME NEW w \in Workers, EnrichFails(w) \/ Finish(w) PROVE MemoryOK'
  BY <1>8, <1>9 DEF EnrichFails, Finish
<1> QED BY <1>1, <1>2, <1>3, <1>4, <1>5, <1>6, <1>7, <1>9 DEF Next, WorkerStep

(***************************************************************************)
(* An acknowledged or rejected message was unacknowledged, which is what   *)
(* the window's accounting says of every scheduled callback.               *)
(***************************************************************************)
LEMMA CallbackPending ==
  TypeOK /\ WindowAccounted /\ proc = "running" /\ callbacks # <<>> =>
    Head(callbacks).msg \in unacked
<1> SUFFICES ASSUME TypeOK, WindowAccounted, proc = "running", callbacks # <<>>
             PROVE  Head(callbacks).msg \in unacked
  OBVIOUS
<1>1. 1 \in DOMAIN callbacks /\ Head(callbacks) = callbacks[1]
  BY CallbackTail DEF TypeOK
<1>2. Head(callbacks).msg \in Answered
  BY <1>1 DEF Answered
<1> QED BY <1>2 DEF WindowAccounted, Connected

LEMMA NextConserved ==
  TypeOK /\ MessagesConserved /\ WindowAccounted /\ [Next]_vars => MessagesConserved'
<1> SUFFICES ASSUME TypeOK, MessagesConserved, WindowAccounted, [Next]_vars
             PROVE  MessagesConserved'
  OBVIOUS
<1>a. ASSUME UNCHANGED broker PROVE MessagesConserved'
  BY <1>a DEF broker, MessagesConserved, Published, Stamps
<1>b. ASSUME Requeue PROVE MessagesConserved'
  <2>1. Published' = Published /\ next' = next
    BY <1>b DEF Requeue, Published
  <2>2. (\A s \in Stamps : s < next <=> \E m \in Published : m.fetched_at = s)'
    BY <2>1 DEF MessagesConserved, Stamps
  <2> QED BY <1>b, <2>1, <2>2 DEF Requeue, MessagesConserved
<1>1. ASSUME NEW a \in Aircraft, Publish(a) PROVE MessagesConserved'
  <2> DEFINE new == [icao24 |-> a, fetched_at |-> next]
  <2>1. /\ Published' = Published \cup {new} /\ next' = next + 1 /\ next \in Stamps
        /\ ready' = ready \cup {new}
        /\ UNCHANGED <<unacked, acked, dropped>>
    BY <1>1, ConsumerAssumption DEF Publish, Published, TypeOK, Stamps
  <2>2. \A m \in Published : m.fetched_at \in Stamps /\ m.fetched_at < next
    BY DEF TypeOK, Message, Repo!Flight, MessagesConserved, Published
  <2>3. (\A s \in Stamps : s < next <=> \E m \in Published : m.fetched_at = s)'
    <3> SUFFICES ASSUME NEW s \in Stamps
                 PROVE  s < next + 1 <=> \E m \in Published \cup {new} : m.fetched_at = s
      BY <2>1 DEF Stamps
    <3>1. s < next + 1 <=> (s < next \/ s = next)
      BY <2>1, ConsumerAssumption DEF Stamps
    <3>2. new.fetched_at = next
      OBVIOUS
    <3> QED BY <3>1, <3>2 DEF MessagesConserved
  <2>4. \A m \in Published : m.fetched_at # next /\ m # new
    BY <2>1, <2>2, ConsumerAssumption DEF Stamps
  <2>5. new.fetched_at = next
    OBVIOUS
  <2>6. (\A m, n \in Published : m.fetched_at = n.fetched_at => m = n)'
    BY <2>1, <2>4, <2>5 DEF MessagesConserved
  <2>7. new \notin unacked \cup acked \cup dropped
    BY <2>4 DEF Published
  <2> HIDE DEF new
  <2> QED BY <2>1, <2>3, <2>6, <2>7 DEF MessagesConserved
<1>2. CASE Deliver
  <2>1. PICK m \in ready : /\ ready' = ready \ {m} /\ unacked' = unacked \cup {m}
                           /\ UNCHANGED <<next, acked, dropped>>
    BY <1>2, OldestIn DEF Deliver, TypeOK
  <2>2. Published' = Published
    BY <2>1 DEF Published
  <2>3. (\A s \in Stamps : s < next <=> \E n \in Published : n.fetched_at = s)'
    BY <2>1, <2>2 DEF MessagesConserved, Stamps
  <2> QED BY <2>1, <2>2, <2>3 DEF MessagesConserved
<1>3. CASE AckOrNack
  <2>1. PICK m \in unacked : /\ unacked' = unacked \ {m}
                             /\ \/ acked' = acked \cup {m} /\ dropped' = dropped
                                \/ acked' = acked /\ dropped' = dropped \cup {m}
                             /\ UNCHANGED <<next, ready>>
    BY <1>3, CallbackPending DEF AckOrNack
  <2>2. Published' = Published
    BY <2>1 DEF Published
  <2>3. (\A s \in Stamps : s < next <=> \E n \in Published : n.fetched_at = s)'
    BY <2>1, <2>2 DEF MessagesConserved, Stamps
  <2> QED BY <2>1, <2>2, <2>3 DEF MessagesConserved
<1>4. CASE LoseAmqp \/ ConnectFails \/ Exit \/ Crash
  BY <1>4, <1>a, <1>b DEF LoseAmqp, ConnectFails, Exit, Crash, ProcessGone
<1>5. CASE \/ StartProcess \/ ConnectPostgres \/ ConnectRabbitmq \/ Stop
           \/ Heartbeat \/ LosePostgres \/ UNCHANGED vars
  BY <1>5, <1>a DEF StartProcess, ConnectPostgres, ConnectRabbitmq, Stop, Heartbeat,
     LosePostgres, vars, broker
<1>6. ASSUME NEW w \in Workers, WorkerStep(w) \/ EnrichFails(w) \/ StoreFails(w)
      PROVE  MessagesConserved'
  BY <1>6, <1>a DEF WorkerStep, Take, Enrich, StoreStep, Finish, EnrichFails, StoreFails,
     Answer, broker
<1> QED BY <1>1, <1>2, <1>3, <1>4, <1>5, <1>6 DEF Next

-----------------------------------------------------------------------------
(* The prefetch window *)

(* The two parts depend on each other: a callback whose message were also  *)
(* held by a worker would take it out of the window from under it.         *)
WindowOK == OneOwner /\ WindowAccounted

(* A worker that answers moves its message from its hands to a callback.   *)
LEMMA AnswerWindow ==
  ASSUME TypeOK, MemoryOK, WindowOK, NEW w \in Workers, NEW ok \in BOOLEAN,
         cur[w] # NoFlight, Answer(w, ok)
  PROVE  WindowOK'
<1>1. /\ cur' = [cur EXCEPT ![w] = NoFlight] /\ cur \in [Workers -> Message \cup {NoFlight}]
      /\ UNCHANGED <<unacked, proc, tasks>> /\ callbacks \in Seq(Callback)
      /\ cur[w] \in Message
  BY DEF Answer, TypeOK, broker
<1>2. Held' = Held \ {cur[w]}
  BY <1>1 DEF Held, WindowOK, OneOwner
<1>3. tasks' \cap Held' = {} /\ \A u, v \in Workers : cur'[u] = cur'[v] => u = v \/ cur'[u] = NoFlight
  BY <1>1, <1>2 DEF WindowOK, OneOwner
<1>4. CASE proc \in Connected
  <2> DEFINE c == [msg |-> cur[w], ok |-> ok]
  <2>1. callbacks' = Append(callbacks, c) /\ c \in Callback /\ c.msg = cur[w]
    BY <1>1, <1>4 DEF Answer, Callback
  <2> HIDE DEF c
  <2>2. Answered' = Answered \cup {cur[w]}
    BY <1>1, <2>1, CallbackAppend DEF Answered
  <2>3. cur[w] \in Held /\ cur[w] \notin Answered /\ cur[w] \notin tasks
    BY <1>1 DEF Held, WindowOK, OneOwner
  <2>4. (tasks' \cup Held') \cap Answered' = {}
    BY <1>1, <1>2, <2>2, <2>3 DEF WindowOK, OneOwner
  <2>5. \A i, j \in DOMAIN callbacks' : callbacks'[i].msg = callbacks'[j].msg => i = j
    <3> SUFFICES ASSUME NEW i \in DOMAIN callbacks', NEW j \in DOMAIN callbacks',
                        callbacks'[i].msg = callbacks'[j].msg
                 PROVE  i = j
      OBVIOUS
    <3>1. \A k \in DOMAIN callbacks : callbacks'[k] = callbacks[k] /\ callbacks[k].msg # cur[w]
      BY <1>1, <2>1, <2>3, CallbackAppend DEF Answered
    <3>2. i \in DOMAIN callbacks \/ i = Len(callbacks) + 1
      BY <1>1, <2>1, CallbackAppend
    <3>3. j \in DOMAIN callbacks \/ j = Len(callbacks) + 1
      BY <1>1, <2>1, CallbackAppend
    <3>4. callbacks'[Len(callbacks) + 1].msg = cur[w]
      BY <1>1, <2>1, CallbackAppend
    <3> QED BY <3>1, <3>2, <3>3, <3>4 DEF WindowOK, OneOwner
  <2>6. (proc \in Connected => unacked = tasks \cup Held \cup Answered)'
    BY <1>1, <1>2, <1>4, <2>2, <2>3 DEF WindowOK, WindowAccounted
  <2> QED BY <1>3, <2>4, <2>5, <2>6 DEF WindowOK, OneOwner, WindowAccounted
<1>5. CASE proc \notin Connected
  <2>1. callbacks' = callbacks /\ Answered' = Answered
    BY <1>5 DEF Answer, Answered
  <2> QED BY <1>1, <1>2, <1>3, <1>5, <2>1 DEF WindowOK, OneOwner, WindowAccounted
<1> QED BY <1>4, <1>5

LEMMA NextWindow ==
  TypeOK /\ CallsOK /\ MemoryOK /\ MessagesConserved /\ WindowOK /\ [Next]_vars => WindowOK'
<1> SUFFICES ASSUME TypeOK, CallsOK, MemoryOK, MessagesConserved, WindowOK, [Next]_vars
             PROVE  WindowOK'
  OBVIOUS
<1>a. ASSUME UNCHANGED <<unacked, proc, pool>> PROVE WindowOK'
  BY <1>a DEF pool, WindowOK, OneOwner, WindowAccounted, Held, Answered
<1>b. ASSUME ProcessGone PROVE WindowOK'
  <2>1. Held' = {} /\ Answered' = {} /\ tasks' = {} /\ proc' \notin Connected
    BY <1>b, GoneMemory DEF Held, Answered, Connected
  <2>2. callbacks' = <<>> /\ \A v \in Workers : cur'[v] = NoFlight
    BY <1>b, GoneMemory
  <2> QED BY <2>1, <2>2 DEF WindowOK, OneOwner, WindowAccounted
<1>1. ASSUME NEW a \in Aircraft, Publish(a) PROVE WindowOK'
  BY <1>1, <1>a DEF Publish
<1>2. CASE Deliver
  <2>1. PICK m \in ready : /\ unacked' = unacked \cup {m} /\ tasks' = tasks \cup {m}
                           /\ UNCHANGED <<proc, cur, callbacks>> /\ proc \in Connected
    BY <1>2, OldestIn DEF Deliver, TypeOK, Connected
  <2>2. Held' = Held /\ Answered' = Answered
    BY <2>1 DEF Held, Answered
  <2>3. m \notin unacked
    BY DEF MessagesConserved
  <2>4. m \notin Held /\ m \notin Answered
    BY <2>1, <2>3 DEF WindowOK, WindowAccounted
  <2>5. tasks' \cap Held' = {} /\ (tasks' \cup Held') \cap Answered' = {}
    BY <2>1, <2>2, <2>4 DEF WindowOK, OneOwner
  <2>6. unacked' = tasks' \cup Held' \cup Answered'
    BY <2>1, <2>2 DEF WindowOK, WindowAccounted
  <2> QED BY <2>1, <2>5, <2>6 DEF WindowOK, OneOwner, WindowAccounted
<1>3. CASE AckOrNack
  <2> DEFINE h == Head(callbacks)
  <2>1. /\ callbacks \in Seq(Callback) /\ callbacks # <<>> /\ proc \in Connected
        /\ unacked' = unacked \ {h.msg} /\ callbacks' = Tail(callbacks)
        /\ UNCHANGED <<proc, tasks, cur>>
    BY <1>3 DEF AckOrNack, TypeOK, Connected
  <2>2. Held' = Held
    BY <2>1 DEF Held
  <2>3. Answered' = Answered \ {h.msg}
    <3>1. \A i \in DOMAIN callbacks' : i + 1 \in DOMAIN callbacks /\ callbacks'[i] = callbacks[i + 1]
                                       /\ i + 1 # 1
      BY <2>1, CallbackTail
    <3>2. h = callbacks[1] /\ 1 \in DOMAIN callbacks
      BY <2>1, CallbackTail
    <3>3. \A i \in DOMAIN callbacks' : callbacks'[i].msg \in Answered \ {h.msg}
      BY <3>1, <3>2 DEF Answered, WindowOK, OneOwner
    <3>4. \A i \in DOMAIN callbacks : callbacks[i].msg # h.msg =>
                                       \E k \in DOMAIN callbacks' : callbacks'[k] = callbacks[i]
      BY <2>1, <3>2, CallbackTail
    <3>5. Answered' = {callbacks'[i].msg : i \in DOMAIN callbacks'}
      BY DEF Answered
    <3> HIDE DEF h
    <3> QED BY <3>3, <3>4, <3>5 DEF Answered
  <2>4. h.msg \in Answered
    BY <2>1, CallbackTail DEF Answered
  <2>5. h.msg \notin tasks \cup Held
    BY <2>4 DEF WindowOK, OneOwner
  <2>6. \A i, j \in DOMAIN callbacks' : callbacks'[i].msg = callbacks'[j].msg => i = j
    <3> SUFFICES ASSUME NEW i \in DOMAIN callbacks', NEW j \in DOMAIN callbacks',
                        callbacks'[i].msg = callbacks'[j].msg
                 PROVE  i = j
      OBVIOUS
    <3>1. /\ i + 1 \in DOMAIN callbacks /\ callbacks'[i] = callbacks[i + 1]
          /\ j + 1 \in DOMAIN callbacks /\ callbacks'[j] = callbacks[j + 1]
      BY <2>1, CallbackTail
    <3>2. i + 1 = j + 1
      BY <3>1 DEF WindowOK, OneOwner
    <3>3. i \in Int /\ j \in Int
      BY <2>1
    <3> QED BY <3>2, <3>3
  <2> HIDE DEF h
  <2>7. unacked' = tasks' \cup Held' \cup Answered'
    BY <2>1, <2>2, <2>3, <2>5 DEF WindowOK, WindowAccounted
  <2>8. tasks' \cap Held' = {} /\ (tasks' \cup Held') \cap Answered' = {}
    BY <2>1, <2>2, <2>3 DEF WindowOK, OneOwner
  <2> QED BY <2>1, <2>6, <2>7, <2>8 DEF WindowOK, OneOwner, WindowAccounted
<1>4. CASE LoseAmqp
  <2>1. /\ proc' \notin Connected /\ callbacks' = <<>> /\ UNCHANGED <<tasks, cur>>
    BY <1>4 DEF LoseAmqp, Connected
  <2>2. Held' = Held /\ Answered' = {}
    BY <2>1 DEF Held, Answered
  <2> QED BY <2>1, <2>2 DEF WindowOK, OneOwner, WindowAccounted
<1>5. CASE ConnectFails \/ Exit \/ Crash
  BY <1>5, <1>a, <1>b DEF ConnectFails, Exit, Crash, broker
<1>6. CASE StartProcess \/ ConnectPostgres \/ ConnectRabbitmq
  <2>1. /\ proc \notin Connected /\ UNCHANGED <<unacked, tasks, cur, callbacks>>
        /\ proc \notin {"running", "draining", "lost"}
    BY <1>6 DEF StartProcess, ConnectPostgres, ConnectRabbitmq, Connected, broker, pool
  <2>2. /\ unacked = {} /\ callbacks = <<>> /\ tasks = {}
        /\ \A v \in Workers : cur[v] = NoFlight
    BY <2>1 DEF MemoryOK
  <2>3. Held' = {} /\ Answered' = {} /\ tasks' = {} /\ unacked' = {}
    BY <2>1, <2>2 DEF Held, Answered
  <2> QED BY <2>1, <2>2, <2>3 DEF WindowOK, OneOwner, WindowAccounted
<1>7. CASE Stop
  <2>1. proc \in Connected /\ UNCHANGED <<unacked, tasks, cur, callbacks>>
    BY <1>7 DEF Stop, Connected, broker, pool
  <2> QED BY <2>1 DEF WindowOK, OneOwner, WindowAccounted, Held, Answered
<1>8. CASE Heartbeat \/ LosePostgres \/ UNCHANGED vars
  BY <1>8, <1>a DEF Heartbeat, LosePostgres, vars, broker
<1>9. ASSUME NEW w \in Workers, Take(w) PROVE WindowOK'
  <2>1. PICK m \in tasks : /\ tasks' = tasks \ {m} /\ cur' = [cur EXCEPT ![w] = m]
                           /\ cur[w] = NoFlight
                           /\ UNCHANGED <<unacked, proc, callbacks>>
    BY <1>9, OldestIn DEF Take, TypeOK, broker
  <2>2. m # NoFlight /\ m \notin Held /\ m \notin Answered
    BY ConsumerAssumption DEF TypeOK, Message, Repo!Flight, Stamps, WindowOK, OneOwner
  <2>3. Held' = Held \cup {m}
    BY <2>1, <2>2 DEF Held, TypeOK
  <2>4. Answered' = Answered
    BY <2>1 DEF Answered
  <2>5. \A u, v \in Workers : cur'[u] = cur'[v] => u = v \/ cur'[u] = NoFlight
    BY <2>1, <2>2 DEF WindowOK, OneOwner, Held, TypeOK
  <2>6. tasks' \cap Held' = {} /\ (tasks' \cup Held') \cap Answered' = {}
    BY <2>1, <2>2, <2>3, <2>4 DEF WindowOK, OneOwner
  <2>7. tasks' \cup Held' \cup Answered' = tasks \cup Held \cup Answered
    BY <2>1, <2>3, <2>4
  <2>8. WindowAccounted'
    BY <2>1, <2>7 DEF WindowOK, WindowAccounted
  <2> QED BY <2>1, <2>5, <2>6, <2>8 DEF WindowOK, OneOwner
<1>10. ASSUME NEW w \in Workers, Enrich(w) \/ StoreStep(w) \/ StoreFails(w) PROVE WindowOK'
  BY <1>10, <1>a DEF Enrich, StoreStep, StoreFails, broker
<1>11. ASSUME NEW w \in Workers, EnrichFails(w) PROVE WindowOK'
  BY <1>11, AnswerWindow DEF EnrichFails
<1>12. ASSUME NEW w \in Workers, Finish(w) PROVE WindowOK'
  <2>1. cur[w] # NoFlight /\ Answer(w, call[w] = "ok")
    BY <1>12 DEF Finish, Repo!Return, CallsOK
  <2> QED BY <2>1, AnswerWindow
<1> QED BY <1>1, <1>2, <1>3, <1>4, <1>5, <1>6, <1>7, <1>8, <1>9, <1>10, <1>11, <1>12
        DEF Next, WorkerStep

-----------------------------------------------------------------------------
(* What is acknowledged is stored *)

(* A callback that says so belongs to a call that returned, and a call     *)
(* returns only what the repository has committed.                         *)
LEMMA NextStored ==
  TypeOK /\ RepoOK /\ CallsOK /\ StoredOK /\ [Next]_vars => StoredOK'
<1> SUFFICES ASSUME TypeOK, RepoOK, CallsOK, StoredOK, [Next]_vars PROVE StoredOK'
  OBVIOUS
<1>0. /\ \A m \in Message : db.history[m] > 0 => db'.history[m] > 0
      /\ acked \subseteq Message
      /\ callbacks \in Seq(Callback)
      /\ \A i \in DOMAIN callbacks : callbacks[i].msg \in Message
  <2>1. \A m \in Message : db.history[m] > 0 => db'.history[m] > 0
    BY StoredStays
  <2>2. acked \subseteq Message /\ callbacks \in Seq(Callback)
    BY DEF TypeOK
  <2>3. \A i \in DOMAIN callbacks : callbacks[i] \in Callback
    BY <2>2
  <2>4. \A c \in Callback : c.msg \in Message
    BY DEF Callback
  <2> QED BY <2>1, <2>2, <2>3, <2>4
<1>a. ASSUME acked' = acked, callbacks' \in {<<>>, callbacks} PROVE StoredOK'
  BY <1>0, <1>a DEF StoredOK, AckedWasStored
<1>b. ASSUME ProcessGone PROVE StoredOK'
  BY <1>a, <1>b DEF ProcessGone, Requeue
<1>c. ASSUME NEW w \in Workers, NEW ok \in BOOLEAN, Answer(w, ok), cur[w] # NoFlight,
             ok => db'.history[cur[w]] > 0
      PROVE  StoredOK'
  <2>1. acked' = acked /\ cur[w] \in Message
    BY <1>c DEF Answer, broker, TypeOK
  <2>2. CASE callbacks' = callbacks
    BY <1>a, <2>1, <2>2
  <2>3. CASE callbacks' = Append(callbacks, [msg |-> cur[w], ok |-> ok])
    <3> DEFINE c == [msg |-> cur[w], ok |-> ok]
    <3>1. c \in Callback /\ c.msg = cur[w] /\ c.ok = ok
      BY <2>1 DEF Callback
    <3> HIDE DEF c
    <3>2. \A i \in DOMAIN callbacks' :
            \/ i \in DOMAIN callbacks /\ callbacks'[i] = callbacks[i]
            \/ callbacks'[i] = c
      BY <1>0, <2>3, <3>1, CallbackAppend DEF c
    <3>3. \A i \in DOMAIN callbacks' : callbacks'[i].ok => db'.history[callbacks'[i].msg] > 0
      BY <1>0, <1>c, <3>1, <3>2 DEF StoredOK
    <3> QED BY <1>0, <2>1, <3>3 DEF StoredOK, AckedWasStored
  <2> QED BY <1>c, <2>2, <2>3 DEF Answer
<1>1. ASSUME NEW a \in Aircraft, Publish(a) PROVE StoredOK'
  BY <1>1, <1>a DEF Publish, pool
<1>2. CASE AckOrNack
  <2>1. /\ acked' \in {acked, acked \cup {Head(callbacks).msg}}
        /\ acked' # acked => Head(callbacks).ok
        /\ callbacks' = Tail(callbacks) /\ callbacks # <<>>
    BY <1>2 DEF AckOrNack
  <2>2. \A m \in acked' : db'.history[m] > 0
    BY <1>0, <2>1, CallbackTail DEF StoredOK, AckedWasStored
  <2>3. \A i \in DOMAIN callbacks' : callbacks'[i].ok => db'.history[callbacks'[i].msg] > 0
    BY <1>0, <2>1, CallbackTail DEF StoredOK
  <2> QED BY <2>2, <2>3 DEF StoredOK, AckedWasStored
<1>3. CASE Deliver \/ LoseAmqp
  BY <1>3, <1>a DEF Deliver, LoseAmqp, Requeue
<1>4. CASE ConnectFails \/ Exit \/ Crash
  BY <1>4, <1>a, <1>b DEF ConnectFails, Exit, Crash, broker, pool
<1>5. CASE \/ StartProcess \/ ConnectPostgres \/ ConnectRabbitmq \/ Stop
           \/ Heartbeat \/ LosePostgres \/ UNCHANGED vars
  BY <1>5, <1>a DEF StartProcess, ConnectPostgres, ConnectRabbitmq, Stop, Heartbeat,
     LosePostgres, vars, broker, pool
<1>6. ASSUME NEW w \in Workers, Take(w) \/ Enrich(w) \/ StoreStep(w) \/ StoreFails(w)
      PROVE  StoredOK'
  BY <1>6, <1>a DEF Take, Enrich, StoreStep, StoreFails, broker, pool
<1>7. ASSUME NEW w \in Workers, EnrichFails(w) PROVE StoredOK'
  BY <1>7, <1>c DEF EnrichFails
<1>8. ASSUME NEW w \in Workers, Finish(w) PROVE StoredOK'
  <2>1. cur[w] # NoFlight /\ Answer(w, call[w] = "ok") /\ db' = db /\ arg[w] = cur[w]
    BY <1>8 DEF Finish, Repo!Return, CallsOK
  <2>2. call[w] = "ok" => db'.history[cur[w]] > 0
    BY <2>1 DEF RepoOK, R!OkIsStored
  <2> QED BY <1>c, <2>1, <2>2
<1> QED BY <1>1, <1>2, <1>3, <1>4, <1>5, <1>6, <1>7, <1>8 DEF Next, WorkerStep

-----------------------------------------------------------------------------

(* The invariant is inductive: its parts lean on each other, so they are   *)
(* carried together.                                                       *)
LEMMA NextIInv == IInv /\ [Next]_vars => IInv'
<1> SUFFICES ASSUME IInv, [Next]_vars PROVE IInv'
  OBVIOUS
<1>1. /\ TypeOK /\ RepoOK /\ CallsOK /\ MemoryOK /\ MessagesConserved
      /\ OneOwner /\ WindowAccounted /\ WindowOK /\ StoredOK
  BY DEF IInv, WindowOK
<1>2. TypeOK' /\ RepoOK'
  BY <1>1, NextType, NextRepoOK
<1>3. CallsOK' /\ MemoryOK'
  BY <1>1, NextCallsOK, NextMemoryOK
<1>4. MessagesConserved' /\ WindowOK'
  BY <1>1, NextConserved, NextWindow
<1>5. StoredOK'
  BY <1>1, NextStored
<1> QED BY <1>2, <1>3, <1>4, <1>5 DEF IInv, WindowOK

LEMMA Invariance == Spec => []IInv
BY InitIInv, NextIInv, PTL DEF Spec

(***************************************************************************)
(* The broker, the process, its threads and the repository keep their      *)
(* types, for any number of threads, messages and faults.                  *)
(***************************************************************************)
THEOREM TypeCorrect == Spec => []TypeOK
<1>1. IInv => TypeOK
  BY DEF IInv
<1> QED BY <1>1, Invariance, PTL

(***************************************************************************)
(* Each published message is in exactly one place on the broker, through   *)
(* every delivery, ack, nack, lost connection, shutdown and crash.         *)
(***************************************************************************)
THEOREM Conservation == Spec => []MessagesConserved
<1>1. IInv => MessagesConserved
  BY DEF IInv
<1> QED BY <1>1, Invariance, PTL

(***************************************************************************)
(* While the connection is open, each unacknowledged message has a place   *)
(* in the process from which an answer will come,                          *)
(***************************************************************************)
THEOREM WindowNeverLeaks == Spec => []WindowAccounted
<1>1. IInv => WindowAccounted
  BY DEF IInv
<1> QED BY <1>1, Invariance, PTL

(***************************************************************************)
(* ... and no more than one.                                               *)
(***************************************************************************)
THEOREM AnsweredOnce == Spec => []OneOwner
<1>1. IInv => OneOwner
  BY DEF IInv
<1> QED BY <1>1, Invariance, PTL

(***************************************************************************)
(* At-least-once: a message is acknowledged only when both tables already  *)
(* have it durably, whatever fails and however often.                      *)
(***************************************************************************)
THEOREM AckedMeansStored == Spec => []AckedWasStored
<1>1. IInv => AckedWasStored
  BY DEF IInv, StoredOK
<1> QED BY <1>1, Invariance, PTL

-----------------------------------------------------------------------------
(* The queue in front of the tables *)

(* Only a publish and an answer show on the broker.                        *)
LEMMA BrokerSteps ==
  IInv /\ [Next]_vars =>
    \/ \E m \in Message : Queue!Publish(m) \/ Queue!Settle(m) \/ Queue!Drop(m)
    \/ (ready \cup unacked)' = ready \cup unacked /\ UNCHANGED <<acked, dropped>>
<1> SUFFICES ASSUME IInv, [Next]_vars
             PROVE  \/ \E m \in Message : Queue!Publish(m) \/ Queue!Settle(m) \/ Queue!Drop(m)
                    \/ (ready \cup unacked)' = ready \cup unacked /\ UNCHANGED <<acked, dropped>>
  OBVIOUS
<1> USE DEF broker, pool, repo
<1>1. ASSUME NEW a \in Aircraft, Publish(a) PROVE \E m \in Message : Queue!Publish(m)
  <2> DEFINE new == [icao24 |-> a, fetched_at |-> next]
  <2>1. new \in Message /\ ready' = ready \cup {new} /\ UNCHANGED <<unacked, acked, dropped, db>>
    BY <1>1, ConsumerAssumption DEF Publish, Message, Repo!Flight, Stamps, IInv, TypeOK
  <2>2. \A m \in Published : m.fetched_at \in Stamps /\ m.fetched_at < next
    BY DEF IInv, TypeOK, Message, Repo!Flight, MessagesConserved, Published
  <2>3. new \notin Published
    BY <2>2, ConsumerAssumption DEF Stamps
  <2> HIDE DEF new
  <2> QED BY <2>1, <2>3 DEF Queue!Publish, Queue!Known, Published
<1>2. CASE Deliver
  <2>1. PICK m \in ready : ready' = ready \ {m} /\ unacked' = unacked \cup {m}
    BY <1>2, OldestIn DEF Deliver, IInv, TypeOK
  <2> QED BY <1>2, <2>1 DEF Deliver
<1>3. CASE AckOrNack
  <2> DEFINE c == Head(callbacks)
  <2>1. c.msg \in unacked /\ c.msg \in Message /\ c.msg \notin ready
    BY <1>3, CallbackPending DEF AckOrNack, IInv, TypeOK, MessagesConserved
  <2>2. (ready \cup unacked)' = (ready \cup unacked) \ {c.msg}
    BY <1>3, <2>1 DEF AckOrNack
  <2>3. c.ok => db.history[c.msg] > 0
    BY <1>3, CallbackTail DEF AckOrNack, IInv, TypeOK, StoredOK
  <2>4. CASE c.ok
    BY <1>3, <2>1, <2>2, <2>3, <2>4 DEF AckOrNack, Queue!Settle
  <2>5. CASE ~c.ok
    BY <1>3, <2>1, <2>2, <2>5 DEF AckOrNack, Queue!Drop
  <2> QED BY <2>1, <2>4, <2>5
<1>4. CASE LoseAmqp \/ ConnectFails \/ Exit \/ Crash
  BY <1>4 DEF LoseAmqp, ConnectFails, Exit, Crash, ProcessGone, Requeue
<1>5. CASE \/ StartProcess \/ ConnectPostgres \/ ConnectRabbitmq \/ Stop
           \/ Heartbeat \/ LosePostgres \/ UNCHANGED vars
  BY <1>5 DEF StartProcess, ConnectPostgres, ConnectRabbitmq, Stop, Heartbeat, LosePostgres, vars
<1>6. ASSUME NEW w \in Workers, WorkerStep(w) \/ EnrichFails(w) \/ StoreFails(w)
      PROVE  (ready \cup unacked)' = ready \cup unacked /\ UNCHANGED <<acked, dropped>>
  BY <1>6 DEF WorkerStep, Take, Enrich, StoreStep, Finish, EnrichFails, StoreFails, Answer
<1> QED BY <1>1, <1>2, <1>3, <1>4, <1>5, <1>6 DEF Next

(* What the process works on was published, even if its delivery is void.  *)
KnownOK == tasks \cup Held \subseteq Published

LEMMA NextKnownOK == IInv /\ KnownOK /\ [Next]_vars => KnownOK'
<1> SUFFICES ASSUME IInv, KnownOK, [Next]_vars PROVE KnownOK'
  OBVIOUS
<1>0. Published \subseteq Published'
  BY BrokerSteps DEF Published, Queue!Publish, Queue!Settle, Queue!Drop
<1> USE DEF broker, pool, repo, KnownOK, Held
<1>a. ASSUME UNCHANGED <<tasks, cur>> PROVE KnownOK'
  BY <1>0, <1>a
<1>b. ASSUME ProcessGone PROVE KnownOK'
  BY <1>b, GoneMemory
<1>1. CASE Deliver
  <2>1. PICK m \in ready : tasks' = tasks \cup {m} /\ cur' = cur
    BY <1>1, OldestIn DEF Deliver, IInv, TypeOK
  <2> QED BY <1>0, <2>1 DEF Published
<1>2. ASSUME NEW a \in Aircraft, Publish(a) PROVE KnownOK'
  BY <1>2, <1>a DEF Publish
<1>3. CASE AckOrNack \/ LoseAmqp \/ StartProcess \/ ConnectPostgres \/ ConnectRabbitmq \/ Stop
           \/ Heartbeat \/ LosePostgres \/ UNCHANGED vars
  BY <1>3, <1>a DEF AckOrNack, LoseAmqp, StartProcess, ConnectPostgres, ConnectRabbitmq, Stop,
     Heartbeat, LosePostgres, vars
<1>4. CASE ConnectFails \/ Exit \/ Crash
  BY <1>4, <1>a, <1>b DEF ConnectFails, Exit, Crash
<1>5. ASSUME NEW w \in Workers, Take(w) PROVE KnownOK'
  <2>1. PICK m \in tasks : tasks' = tasks \ {m} /\ cur' = [cur EXCEPT ![w] = m]
    BY <1>5, OldestIn DEF Take, IInv, TypeOK
  <2>2. Held' \subseteq Held \cup {m}
    BY <2>1 DEF IInv, TypeOK
  <2> QED BY <1>0, <2>1, <2>2
<1>6. ASSUME NEW w \in Workers, NEW ok, Answer(w, ok) PROVE KnownOK'
  <2>1. tasks' = tasks /\ Held' \subseteq Held
    BY <1>6 DEF Answer, IInv, TypeOK
  <2> QED BY <1>0, <2>1
<1>7. ASSUME NEW w \in Workers, WorkerStep(w) \/ EnrichFails(w) \/ StoreFails(w) PROVE KnownOK'
  BY <1>5, <1>6, <1>7, <1>a DEF WorkerStep, Enrich, StoreStep, Finish, EnrichFails, StoreFails
<1> QED BY <1>1, <1>2, <1>3, <1>4, <1>7 DEF Next

(* The tables change by whole upserts of known messages, and by nothing    *)
(* else than the steps that leave the broker as it is.                     *)
LEMMA TableSteps ==
  IInv /\ KnownOK /\ [Next]_vars =>
    \/ UNCHANGED db
    \/ /\ \E m \in Published : db' = Queue!Both(db, m)
       /\ (ready \cup unacked)' = ready \cup unacked /\ UNCHANGED <<acked, dropped>>
<1> SUFFICES ASSUME IInv, KnownOK, [Next]_vars, db' # db
             PROVE  /\ \E m \in Published : db' = Queue!Both(db, m)
                    /\ (ready \cup unacked)' = ready \cup unacked /\ UNCHANGED <<acked, dropped>>
  OBVIOUS
<1>1. R!IInv /\ [R!Next]_R!vars
  BY NextRefines, SameRepository DEF IInv, RepoOK
<1>2. PICK w \in Workers : call[w] = "commit" /\ db' = R!Both(db, arg[w])
  BY <1>1, R!TablesChange, RepoAssumptions DEF R!NoWorkerAssumption, R!NoFlightAssumption
<1>3. arg[w] \in Published
  BY <1>2 DEF IInv, CallsOK, KnownOK, Held
<1>4. db' = Queue!Both(db, arg[w])
  BY <1>2 DEF R!Both, R!InsertHistory, R!UpsertFlight,
     Queue!Both, Queue!InsertHistory, Queue!UpsertFlight
<1>5. ~ \E m \in Message : Queue!Publish(m) \/ Queue!Settle(m) \/ Queue!Drop(m)
  BY DEF Queue!Publish, Queue!Settle, Queue!Drop
<1> QED BY <1>3, <1>4, <1>5, BrokerSteps

LEMMA QueueStep == IInv /\ KnownOK /\ [Next]_vars => [Queue!Next]_Queue!vars
<1> SUFFICES ASSUME IInv, KnownOK, [Next]_vars PROVE [Queue!Next]_Queue!vars
  OBVIOUS
<1>0. Message = Queue!Flight /\ Published \subseteq Message
  BY DEF Message, Repo!Flight, Queue!Flight, IInv, TypeOK, Published
<1>1. CASE \E m \in Message : Queue!Publish(m) \/ Queue!Settle(m) \/ Queue!Drop(m)
  BY <1>0, <1>1 DEF Queue!Next
<1>2. CASE /\ \E m \in Published : db' = Queue!Both(db, m)
           /\ (ready \cup unacked)' = ready \cup unacked /\ UNCHANGED <<acked, dropped>>
  BY <1>0, <1>2 DEF Queue!Next, Queue!Store, Queue!Known, Published
<1>3. CASE (ready \cup unacked)' = ready \cup unacked /\ UNCHANGED <<acked, dropped, db>>
  BY <1>3 DEF Queue!vars
<1> QED BY <1>1, <1>2, <1>3, BrokerSteps, TableSteps

LEMMA InitQueue == Init => Queue!Init /\ KnownOK
<1> SUFFICES ASSUME Init PROVE Queue!Init /\ KnownOK
  OBVIOUS
<1>1. db = Queue!EmptyTables
  BY DEF Init, Repo!Init, Repo!EmptyTables, Queue!EmptyTables, Repo!Flight, Queue!Flight
<1> QED BY <1>1 DEF Init, Queue!Init, KnownOK, Held

(***************************************************************************)
(* Broker, threads and repository implement a queue in front of the        *)
(* tables, for any threads, messages and faults: whole upserts of          *)
(* published messages only, settled only when stored.                      *)
(***************************************************************************)
THEOREM RefinesQueue == Spec => ImplementsQueue
<1>1. Init => IInv /\ KnownOK /\ Queue!Init
  BY InitIInv, InitQueue
<1>2. IInv /\ KnownOK /\ [Next]_vars => IInv' /\ KnownOK'
  BY NextIInv, NextKnownOK
<1> QED BY <1>1, <1>2, QueueStep, PTL DEF Spec, ImplementsQueue, Queue!Spec

-----------------------------------------------------------------------------
(* Nothing is dropped while the database answers *)

DatabaseUp == Faults \cap {"enrich", "dberror", "dblost"} = {}

Smooth ==
  /\ proc \in {"down", "postgres"} => conn = "none"
  /\ proc \notin {"down", "postgres"} => conn \in {"idle", "intrans"}
  /\ \A w \in Workers : call[w] # "failed"
  /\ \A i \in DOMAIN callbacks : callbacks[i].ok
  /\ dropped = {}

LEMMA NextSmooth == ASSUME DatabaseUp PROVE IInv /\ Smooth /\ [Next]_vars => Smooth'
<1> SUFFICES ASSUME IInv, Smooth, [Next]_vars PROVE Smooth'
  OBVIOUS
<1> USE DEF Smooth, broker, pool, repo
<1>0. TypeOK /\ Repo!TypeOK /\ CallsOK /\ MemoryOK
  BY DEF IInv, TypeOK
<1>1. CASE \/ Deliver \/ StartProcess \/ ConnectRabbitmq \/ Stop \/ Heartbeat \/ UNCHANGED vars
           \/ \E a \in Aircraft : Publish(a)
  BY <1>1 DEF Deliver, StartProcess, ConnectRabbitmq, Stop, Heartbeat, vars, Publish
<1>2. CASE AckOrNack
  BY <1>0, <1>2, CallbackTail DEF AckOrNack, TypeOK
<1>3. CASE LoseAmqp
  BY <1>3 DEF LoseAmqp, Connected, Requeue
<1>4. CASE ConnectPostgres
  BY <1>4 DEF ConnectPostgres, Repo!Connect
<1>5. CASE ConnectFails \/ Exit \/ Crash
  BY <1>5 DEF ConnectFails, Exit, Crash, ProcessGone, Requeue, Repo!Vanish
<1>6. ASSUME NEW w \in Workers, Take(w) \/ EnrichFails(w) \/ StoreFails(w) PROVE Smooth'
  BY <1>6 DEF Take, EnrichFails, StoreFails, Fault, DatabaseUp
<1>7. ASSUME NEW w \in Workers, Enrich(w) PROVE Smooth'
  <2>1. conn # "none"
    BY <1>0, <1>7 DEF Enrich, MemoryOK
  <2> QED BY <1>0, <1>7, <2>1 DEF Enrich, Repo!Enter, Repo!Goto, Repo!TypeOK
<1>8. ASSUME NEW w \in Workers, StoreStep(w) PROVE Smooth'
  <2>1. cur[w] # NoFlight /\ proc \notin {"down", "postgres"}
    BY <1>0, <1>8 DEF StoreStep, CallsOK, MemoryOK, Repo!Step, Repo!Acquire, Repo!AcquireClosed,
       Repo!Upsert, Repo!Insert, Repo!Commit, Repo!RefusedInError, Repo!UseClosed, Repo!Holding
  <2> QED BY <1>0, <1>8, <2>1 DEF StoreStep, Repo!TypeOK, Repo!Step, Repo!Acquire,
          Repo!AcquireClosed, Repo!Upsert, Repo!Insert, Repo!Commit, Repo!RefusedInError,
          Repo!UseClosed, Repo!Goto
<1>9. ASSUME NEW w \in Workers, Finish(w) PROVE Smooth'
  <2>1. call[w] = "ok" /\ cur[w] \in Message
    BY <1>0, <1>9 DEF Finish, Repo!Return, CallsOK, TypeOK
  <2> DEFINE c == [msg |-> cur[w], ok |-> call[w] = "ok"]
  <2>2. c \in Callback /\ c.ok /\ callbacks \in Seq(Callback)
    BY <1>0, <2>1 DEF Callback, TypeOK
  <2>3. callbacks' = callbacks \/ callbacks' = Append(callbacks, c)
    BY <1>9 DEF Finish, Answer
  <2> HIDE DEF c
  <2>4. \A i \in DOMAIN callbacks' : callbacks'[i].ok
    BY <2>2, <2>3, CallbackAppend
  <2> QED BY <1>0, <1>9, <2>4 DEF Finish, Answer, Repo!Return, Repo!Goto, Repo!TypeOK
<1>10. CASE LosePostgres
  BY <1>10 DEF LosePostgres, Fault, DatabaseUp
<1> QED BY <1>1, <1>2, <1>3, <1>4, <1>5, <1>6, <1>7, <1>8, <1>9, <1>10 DEF Next, WorkerStep

(***************************************************************************)
(* Crashes, shutdowns, lost broker connections and failed starts drop no   *)
(* message, however many there are: only a database fault or an answer     *)
(* that cannot be parsed does.                                             *)
(***************************************************************************)
THEOREM OnlyTheDatabaseDrops == Spec => [](DatabaseUp => NothingDropped)
<1>1. Init => (DatabaseUp => Smooth)
  BY DEF Init, Repo!Init, Smooth
<1>2. Smooth => NothingDropped
  BY DEF Smooth, NothingDropped
<1>3. IInv /\ (DatabaseUp => Smooth) /\ [Next]_vars => (DatabaseUp => Smooth)'
  BY NextSmooth DEF DatabaseUp
<1>4. Spec => [](DatabaseUp => Smooth)
  BY <1>1, <1>3, Invariance, PTL DEF Spec
<1> QED BY <1>2, <1>4, PTL

-----------------------------------------------------------------------------
(* Duplicates *)

(* A message may still be stored once by whoever has it, once more if it   *)
(* is in the queue, and once more if a stop will put it back there.        *)
Unstored == {"idle", "lock", "upsert", "insert", "commit"}
Live == tasks \cup {cur[w] : w \in {v \in Workers : call[v] \in Unstored}}
Copies(m) ==
    (IF m \in ready THEN 1 ELSE 0)
  + (IF m \in Live THEN 1 ELSE 0)
  + (IF proc = "draining" /\ m \in unacked THEN 1 ELSE 0)

Counted   == \A m \in Message : db.history[m] + Copies(m) <= faults + 1
OnlyKnown == \A m \in Message : db.history[m] > 0 => m \in Published

(* A step that changes the tables stores what one thread was committing.   *)
LEMMA StoredBy ==
  IInv /\ [Next]_vars =>
    \/ db' = db
    \/ \E w \in Workers :
         /\ call[w] = "commit" /\ cur[w] \in Message
         /\ db'.history[cur[w]] = db.history[cur[w]] + 1
         /\ \A m \in Message \ {cur[w]} : db'.history[m] = db.history[m]
<1> SUFFICES ASSUME IInv, [Next]_vars, db' # db
             PROVE  \E w \in Workers :
                      /\ call[w] = "commit" /\ cur[w] \in Message
                      /\ db'.history[cur[w]] = db.history[cur[w]] + 1
                      /\ \A m \in Message \ {cur[w]} : db'.history[m] = db.history[m]
  OBVIOUS
<1>1. R!IInv /\ [R!Next]_R!vars
  BY NextRefines, SameRepository DEF IInv, RepoOK
<1>2. PICK w \in Workers : call[w] = "commit" /\ db' = R!Both(db, arg[w])
  BY <1>1, R!TablesChange, RepoAssumptions DEF R!NoWorkerAssumption, R!NoFlightAssumption
<1>3. arg[w] = cur[w] /\ cur[w] \in Message /\ db \in R!Tables
  BY <1>1, <1>2 DEF IInv, CallsOK, TypeOK, R!IInv, R!TypeOK
<1>4. /\ db'.history[cur[w]] = db.history[cur[w]] + 1
      /\ \A m \in R!Flight \ {cur[w]} : db'.history[m] = db.history[m]
  BY <1>2, <1>3, SameRepository, R!BothHistory, RepoAssumptions
     DEF R!NoWorkerAssumption, R!NoFlightAssumption
<1> QED BY <1>2, <1>3, <1>4, SameRepository

LEMMA NextOnlyKnown == IInv /\ KnownOK /\ OnlyKnown /\ [Next]_vars => OnlyKnown'
<1> SUFFICES ASSUME IInv, KnownOK, OnlyKnown, [Next]_vars PROVE OnlyKnown'
  OBVIOUS
<1>1. Published \subseteq Published'
  BY BrokerSteps DEF Published, Queue!Publish, Queue!Settle, Queue!Drop
<1>2. \A w \in Workers : cur[w] \in Message => cur[w] \in Published
  <2>1. NoFlight \notin Message
    BY ConsumerAssumption DEF Message, Repo!Flight, Stamps
  <2> QED BY <2>1 DEF KnownOK, Held
<1> QED BY <1>1, <1>2, StoredBy DEF OnlyKnown

LEMMA NextCounted == IInv /\ KnownOK /\ OnlyKnown /\ Counted /\ [Next]_vars => Counted'
<1> SUFFICES ASSUME IInv, KnownOK, OnlyKnown, Counted, [Next]_vars, NEW m \in Message
             PROVE  db'.history[m] + Copies(m)' <= faults' + 1
  BY DEF Counted
<1> DEFINE h == db.history[m]
           H == db'.history[m]
<1> SUFFICES H + Copies(m)' <= faults' + 1
  OBVIOUS
<1>0. /\ TypeOK /\ CallsOK /\ MemoryOK /\ OneOwner
      /\ m # NoFlight /\ faults \in Nat /\ h \in Nat /\ h + Copies(m) <= faults + 1
  <2>1. h \in Nat
    BY SameRepository DEF IInv, TypeOK, Repo!TypeOK, Repo!Tables, Message
  <2> QED BY <2>1, ConsumerAssumption
          DEF IInv, TypeOK, Counted, Message, Repo!Flight, Stamps
(* One row more at most, of a message that was live and in a commit.       *)
<1>a. H = h \/ (H = h + 1 /\ \E w \in Workers : call[w] = "commit" /\ cur[w] = m /\ m \in Live)
  <2>1. h = H \/ \E w \in Workers : call[w] = "commit" /\ cur[w] = m /\ H = h + 1
    BY StoredBy
  <2>2. \A w \in Workers : call[w] = "commit" => cur[w] \in Live
    BY DEF Live, Unstored
  <2> QED BY <2>1, <2>2
<1> HIDE DEF h, H
<1> USE DEF broker, pool, repo
<1>b. ASSUME m \in Live' => m \in Live, UNCHANGED <<ready, unacked, proc>>, H = h, faults' >= faults,
             faults' \in Nat
      PROVE  H + Copies(m)' <= faults' + 1
  <2>1. Copies(m)' <= Copies(m) /\ Copies(m) \in Nat /\ Copies(m)' \in Nat
    BY <1>b DEF Copies
  <2> QED BY <1>0, <1>b, <2>1
(* A fault pays for one copy more.                                         *)
<1>c. ASSUME m \in Live' => m \in Live, UNCHANGED <<ready, unacked, proc>>, faults' = faults + 1
      PROVE  H + Copies(m)' <= faults' + 1
  BY <1>0, <1>a, <1>c DEF Copies
<1>d. ASSUME UNCHANGED <<tasks, cur, call>> PROVE m \in Live' => m \in Live
  BY <1>d DEF Live
<1>e. ASSUME UNCHANGED db PROVE H = h
  BY <1>e DEF H, h
<1>f. ASSUME ProcessGone PROVE m \notin Live' /\ proc' = "down" /\ ready' = ready \cup unacked
  BY <1>0, <1>f, GoneMemory DEF Live, ProcessGone, Requeue
<1>1. ASSUME NEW a \in Aircraft, Publish(a) PROVE H + Copies(m)' <= faults' + 1
  <2> DEFINE new == [icao24 |-> a, fetched_at |-> next]
  <2>1. ready' = ready \cup {new} /\ UNCHANGED <<unacked, proc, tasks, cur, call, db, faults>>
    BY <1>1 DEF Publish
  <2>2. m \in Live' => m \in Live
    BY <2>1, <1>d
  <2>3. CASE m = new
    <3>1. \A n \in Published : n.fetched_at < next
      BY <1>0 DEF IInv, TypeOK, Message, Repo!Flight, MessagesConserved, Published
    <3>2. m \notin Published
      BY <1>0, <2>3, <3>1, ConsumerAssumption DEF TypeOK, Stamps
    <3>3. m \notin Live /\ h = 0 /\ m \notin unacked
      BY <1>0, <3>2 DEF OnlyKnown, KnownOK, Held, Live, Published, h
    <3> QED BY <1>0, <1>e, <2>1, <2>2, <3>3 DEF Copies
  <2>4. CASE m # new
    BY <1>0, <1>e, <2>1, <2>2, <2>4 DEF Copies
  <2> QED BY <2>3, <2>4
<1>2. CASE Deliver
  <2>1. PICK n \in ready : ready' = ready \ {n} /\ tasks' = tasks \cup {n}
                           /\ unacked' = unacked \cup {n}
    BY <1>0, <1>2, OldestIn DEF Deliver, TypeOK
  <2>2. proc' = proc /\ proc # "draining" /\ UNCHANGED <<cur, call, db, faults>>
    BY <1>2 DEF Deliver
  <2>3. CASE m = n
    BY <1>0, <1>e, <2>1, <2>2, <2>3 DEF Copies
  <2>4. CASE m # n
    <3>1. m \in Live' => m \in Live
      BY <2>1, <2>2, <2>4 DEF Live
    <3> QED BY <1>0, <1>e, <2>1, <2>2, <2>4, <3>1 DEF Copies
  <2> QED BY <2>3, <2>4
<1>3. CASE AckOrNack
  BY <1>0, <1>d, <1>e, <1>3 DEF AckOrNack, Copies
<1>4. CASE StartProcess \/ ConnectPostgres \/ ConnectRabbitmq
  BY <1>0, <1>d, <1>e, <1>4 DEF StartProcess, ConnectPostgres, ConnectRabbitmq, Repo!Connect, Copies
<1>5. CASE LoseAmqp \/ Stop
  BY <1>0, <1>d, <1>e, <1>5 DEF LoseAmqp, Stop, Fault, Connected, Requeue, Copies
<1>6. CASE Crash
  BY <1>0, <1>a, <1>f, <1>6 DEF Crash, Fault, Copies
<1>7. CASE ConnectFails
  <2>1. faults' = faults + 1
    BY <1>7 DEF ConnectFails, Fault
  <2>2. CASE ProcessGone
    BY <1>0, <1>a, <1>f, <2>1, <2>2 DEF Copies
  <2>3. CASE UNCHANGED <<broker, proc, pool, repo>>
    BY <1>c, <1>d, <2>1, <2>3
  <2> QED BY <1>7, <2>2, <2>3 DEF ConnectFails
<1>8. CASE Exit
  <2>1. m \notin Live /\ H = h /\ faults' = faults /\ proc \in {"draining", "lost"} /\ ProcessGone
    BY <1>0, <1>a, <1>8 DEF Exit, Live
  <2>2. proc = "lost" => unacked = {}
    BY <1>0 DEF MemoryOK, Connected
  <2> QED BY <1>0, <1>f, <2>1, <2>2 DEF Copies
<1>9. CASE Heartbeat \/ UNCHANGED vars
  BY <1>0, <1>b, <1>d, <1>e, <1>9 DEF Heartbeat, vars
<1>10. ASSUME NEW w \in Workers, Take(w) PROVE H + Copies(m)' <= faults' + 1
  <2>1. PICK n \in tasks : tasks' = tasks \ {n} /\ cur' = [cur EXCEPT ![w] = n]
    BY <1>0, <1>10, OldestIn DEF Take, TypeOK
  <2>2. m \in Live' => m \in Live
    BY <1>0, <1>10, <2>1 DEF Take, Live, TypeOK
  <2> QED BY <1>0, <1>b, <1>e, <1>10, <2>2 DEF Take
<1>11. ASSUME NEW w \in Workers, Enrich(w) PROVE H + Copies(m)' <= faults' + 1
  <2>1. m \in Live' => m \in Live
    BY <1>0, <1>11 DEF Enrich, Repo!Enter, Repo!Goto, Live, Unstored, TypeOK, Repo!TypeOK
  <2> QED BY <1>0, <1>b, <1>e, <1>11, <2>1 DEF Enrich, Repo!Enter
<1>12. ASSUME NEW w \in Workers, EnrichFails(w) \/ Finish(w) PROVE H + Copies(m)' <= faults' + 1
  <2>1. m \in Live' => m \in Live
    BY <1>0, <1>12 DEF EnrichFails, Finish, Answer, Repo!Return, Repo!Goto, Live, Unstored,
       TypeOK, Repo!TypeOK
  <2> QED BY <1>0, <1>b, <1>e, <1>12, <2>1 DEF EnrichFails, Finish, Answer, Repo!Return, Fault
<1>13. ASSUME NEW w \in Workers, StoreStep(w) PROVE H + Copies(m)' <= faults' + 1
  <2>1. /\ UNCHANGED <<broker, proc, pool, faults>>
        /\ \A v \in Workers : call'[v] \in Unstored => call[v] \in Unstored
        /\ db' # db => call[w] = "commit" /\ call'[w] = "ok"
    BY <1>0, <1>13 DEF StoreStep, TypeOK, Repo!TypeOK, Repo!Step, Repo!Acquire,
       Repo!AcquireClosed, Repo!Upsert, Repo!Insert, Repo!Commit, Repo!RefusedInError,
       Repo!UseClosed, Repo!Goto, Repo!Raise, Repo!Holding, Unstored
  <2>2. m \in Live' => m \in Live
    BY <2>1 DEF Live
  <2>3. CASE H = h
    BY <1>0, <1>b, <2>1, <2>2, <2>3
  <2>4. CASE H # h
    <3>1. PICK v \in Workers : H = h + 1 /\ call[v] = "commit" /\ cur[v] = m /\ m \in Live
      BY <1>a, <2>4
    <3>2. v = w /\ call'[v] = "ok"
      <4>1. \A u \in Workers : call[u] \in R!Holding <=> lock = u
        BY DEF IInv, RepoOK, R!IInv, R!OneTransaction
      <4>2. call[w] = "commit" /\ call'[w] = "ok"
        BY <1>e, <2>1, <2>4
      <4> QED BY <3>1, <4>1, <4>2 DEF R!Holding
    <3>3. m \notin Live'
      BY <1>0, <2>1, <3>1, <3>2 DEF Live, OneOwner, Held, Unstored
    <3> QED BY <1>0, <2>1, <3>1, <3>3 DEF Copies
  <2> QED BY <2>3, <2>4
<1>14. ASSUME NEW w \in Workers, StoreFails(w) PROVE H + Copies(m)' <= faults' + 1
  <2>1. /\ UNCHANGED <<broker, proc, pool>> /\ faults' = faults + 1
        /\ \A v \in Workers : call'[v] \in Unstored => call[v] \in Unstored
    BY <1>0, <1>14 DEF StoreFails, Fault, TypeOK, Repo!TypeOK, Repo!BindFails,
       Repo!StatementFails, Repo!CommitUnanswered, Repo!Goto, Repo!Raise, Unstored
  <2>2. m \in Live' => m \in Live
    BY <2>1 DEF Live
  <2> QED BY <1>c, <2>1, <2>2
<1>15. CASE LosePostgres
  BY <1>c, <1>d, <1>15 DEF LosePostgres, Fault, Repo!Disconnect
<1> QED BY <1>1, <1>2, <1>3, <1>4, <1>5, <1>6, <1>7, <1>8, <1>9, <1>10, <1>11, <1>12, <1>13,
           <1>14, <1>15 DEF Next, WorkerStep

(***************************************************************************)
(* Without a fault no message is stored twice, and every crash, stop, lost *)
(* connection or lost answer adds one row of a message at most.            *)
(***************************************************************************)
THEOREM FaultsBoundDuplicates == Spec => []DuplicatesNeedFaults
<1>1. Init => IInv /\ KnownOK /\ OnlyKnown /\ Counted
  <2> SUFFICES ASSUME Init PROVE OnlyKnown /\ Counted
    BY InitIInv, InitQueue
  <2>1. \A m \in Message : db.history[m] = 0
    BY DEF Init, Repo!Init, Repo!EmptyTables, Message
  <2>2. \A m \in Message : m # NoFlight
    BY ConsumerAssumption DEF Message, Repo!Flight, Stamps
  <2> QED BY <2>1, <2>2 DEF Init, OnlyKnown, Counted, Copies, Live
<1>2. IInv /\ KnownOK /\ OnlyKnown /\ Counted /\ [Next]_vars
        => IInv' /\ KnownOK' /\ OnlyKnown' /\ Counted'
  BY NextIInv, NextKnownOK, NextOnlyKnown, NextCounted
<1>3. IInv /\ Counted => DuplicatesNeedFaults
  <2> SUFFICES ASSUME IInv, Counted, NEW m \in Message PROVE db.history[m] <= faults + 1
    BY DEF DuplicatesNeedFaults
  <2>1. db.history[m] \in Nat /\ faults \in Nat
    BY ConsumerAssumption DEF IInv, TypeOK, Repo!TypeOK, Repo!Tables, Message
  <2> QED BY <2>1 DEF Counted, Copies
<1> QED BY <1>1, <1>2, <1>3, PTL DEF Spec

-----------------------------------------------------------------------------
(* One worker *)

SingleWorker == \A v, w \in Workers : v = w

Earlier(S, T) == \A m \in S, n \in T : m.fetched_at <= n.fetched_at

(* With one worker everything happens in the order of publication: what is *)
(* acknowledged is no newer than what is delivered, that no newer than     *)
(* what is ready; and inside the process the callbacks, the message in     *)
(* hand and the tasks follow each other the same way.                      *)
OrderOK ==
  /\ tasks \cup Held \subseteq ready \cup unacked
  /\ Earlier(acked, ready \cup unacked)
  /\ Earlier(unacked, ready)
  /\ Earlier(Answered, tasks \cup Held)
  /\ Earlier(Held, tasks)
  /\ \A i, j \in DOMAIN callbacks :
       i <= j => callbacks[i].msg.fetched_at <= callbacks[j].msg.fetched_at

(* What is stored and acknowledged, or about to be, is no newer than the   *)
(* row of its aircraft.                                                    *)
Returned == {cur[w] : w \in {v \in Workers : call[v] = "ok"}}
Praised  == {callbacks[i].msg : i \in {j \in DOMAIN callbacks : callbacks[j].ok}}
FreshOK  ==
  \A m \in acked \cup Praised \cup Returned :
    db.flights[m.icao24] \in Message /\ db.flights[m.icao24].fetched_at >= m.fetched_at

LEMMA NextOrderOK ==
  SingleWorker /\ IInv /\ OrderOK /\ [Next]_vars => OrderOK'
<1> SUFFICES ASSUME SingleWorker, IInv, OrderOK, [Next]_vars PROVE OrderOK'
  OBVIOUS
<1>0. /\ ready \subseteq Message /\ unacked \subseteq Message /\ acked \subseteq Message
      /\ tasks \subseteq Message /\ Held \subseteq Message
      /\ cur \in [Workers -> Message \cup {NoFlight}]
      /\ callbacks \in Seq(Callback)
      /\ \A m \in Message : m.fetched_at \in Nat
  BY DEF IInv, TypeOK, Held, Message, Repo!Flight, Stamps
<1>a. ASSUME UNCHANGED <<broker, pool>> PROVE OrderOK'
  BY <1>a DEF broker, pool, OrderOK, Earlier, Held, Answered
<1>b. ASSUME ProcessGone PROVE OrderOK'
  <2>1. /\ tasks' = {} /\ callbacks' = <<>> /\ unacked' = {}
        /\ ready' = ready \cup unacked /\ acked' = acked
        /\ Held' = {} /\ Answered' = {}
    BY <1>b, GoneMemory DEF ProcessGone, Requeue, Held, Answered
  <2> QED BY <2>1 DEF OrderOK, Earlier
<1>1. ASSUME NEW a \in Aircraft, Publish(a) PROVE OrderOK'
  <2> DEFINE new == [icao24 |-> a, fetched_at |-> next]
  <2>1. /\ ready' = ready \cup {new} /\ new.fetched_at = next /\ next \in Nat
        /\ UNCHANGED <<unacked, acked, tasks, cur, callbacks>>
        /\ Held' = Held /\ Answered' = Answered
    BY <1>1 DEF Publish, pool, IInv, TypeOK, Held, Answered
  <2>2. \A m \in acked \cup unacked : m.fetched_at <= next
    BY <1>0, <2>1 DEF IInv, MessagesConserved, Published, Message, Repo!Flight, Stamps
  <2> HIDE DEF new
  <2> QED BY <2>1, <2>2 DEF OrderOK, Earlier
<1>2. CASE Deliver
  <2>1. PICK m \in ready : /\ ready' = ready \ {m} /\ unacked' = unacked \cup {m}
                           /\ tasks' = tasks \cup {m} /\ Earlier({m}, ready)
                           /\ UNCHANGED <<acked, cur, callbacks>> /\ proc \in Connected
    BY <1>0, <1>2, OldestIn DEF Deliver, Connected, Earlier
  <2>2. Held' = Held /\ Answered' = Answered
    BY <2>1 DEF Held, Answered
  <2>3. Answered \cup Held \subseteq unacked
    BY <2>1 DEF IInv, WindowAccounted
  <2> QED BY <2>1, <2>2, <2>3 DEF OrderOK, Earlier
<1>3. CASE AckOrNack
  <2> DEFINE h == Head(callbacks)
  <2>1. /\ callbacks # <<>> /\ proc \in Connected
        /\ unacked' = unacked \ {h.msg} /\ acked' \subseteq acked \cup {h.msg}
        /\ callbacks' = Tail(callbacks)
        /\ UNCHANGED <<ready, proc, tasks, cur>>
    BY <1>3 DEF AckOrNack, Connected
  <2>2. h = callbacks[1] /\ 1 \in DOMAIN callbacks /\ h.msg \in Answered
    BY <1>0, <2>1, CallbackTail DEF Answered
  <2>3. /\ \A i \in DOMAIN callbacks' :
             i + 1 \in DOMAIN callbacks /\ callbacks'[i] = callbacks[i + 1] /\ i \in Nat
        /\ \A i \in DOMAIN callbacks : 1 <= i
    BY <1>0, <2>1, CallbackTail
  <2>4. Held' = Held /\ Answered' \subseteq Answered
    BY <2>1, <2>3 DEF Held, Answered
  <2>5. unacked = tasks \cup Held \cup Answered
    BY <2>1 DEF IInv, WindowAccounted
  <2>6. Earlier({h.msg}, unacked)
    <3>1. Earlier({h.msg}, Answered)
      BY <2>2, <2>3 DEF OrderOK, Earlier, Answered
    <3> QED BY <2>2, <2>5, <3>1 DEF OrderOK, Earlier
  <2>7. Earlier({h.msg}, ready)
    BY <2>2, <2>5 DEF OrderOK, Earlier
  <2>8. h.msg \notin tasks \cup Held
    BY <2>2 DEF IInv, OneOwner
  <2>9. \A i, j \in DOMAIN callbacks' :
          i <= j => callbacks'[i].msg.fetched_at <= callbacks'[j].msg.fetched_at
    BY <2>3 DEF OrderOK
  <2> HIDE DEF h
  <2> QED BY <2>1, <2>4, <2>6, <2>7, <2>8, <2>9 DEF OrderOK, Earlier
<1>4. CASE LoseAmqp
  <2>1. /\ ready' = ready \cup unacked /\ unacked' = {} /\ callbacks' = <<>>
        /\ UNCHANGED <<acked, tasks, cur>> /\ Held' = Held /\ Answered' = {}
    BY <1>4 DEF LoseAmqp, Requeue, Held, Answered
  <2> QED BY <2>1 DEF OrderOK, Earlier
<1>5. CASE \/ StartProcess \/ ConnectPostgres \/ ConnectRabbitmq \/ Stop
           \/ Heartbeat \/ LosePostgres \/ UNCHANGED vars
  BY <1>5, <1>a DEF StartProcess, ConnectPostgres, ConnectRabbitmq, Stop, Heartbeat,
     LosePostgres, vars
<1>6. CASE ConnectFails \/ Exit \/ Crash
  BY <1>6, <1>a, <1>b DEF ConnectFails, Exit, Crash
<1>7. ASSUME NEW w \in Workers, Take(w) PROVE OrderOK'
  <2>1. PICK m \in tasks : /\ tasks' = tasks \ {m} /\ cur' = [cur EXCEPT ![w] = m]
                           /\ Earlier({m}, tasks)
                           /\ UNCHANGED <<ready, unacked, acked, callbacks>>
    BY <1>0, <1>7, OldestIn DEF Take, broker, Earlier
  <2>2. Held' = {m} /\ Answered' = Answered
    BY <1>0, <2>1, ConsumerAssumption DEF SingleWorker, Held, Answered, Message, Repo!Flight, Stamps
  <2> QED BY <2>1, <2>2 DEF OrderOK, Earlier
<1>8. ASSUME NEW w \in Workers, NEW ok \in BOOLEAN, Answer(w, ok), cur[w] # NoFlight
      PROVE  OrderOK'
  <2>1. Held = {cur[w]} /\ Held' = {} /\ UNCHANGED <<ready, unacked, acked, tasks, proc>>
    BY <1>0, <1>8 DEF Answer, SingleWorker, Held, broker
  <2>2. CASE callbacks' = callbacks
    BY <2>1, <2>2 DEF OrderOK, Earlier, Answered
  <2>3. CASE callbacks' = Append(callbacks, [msg |-> cur[w], ok |-> ok])
    <3> DEFINE c == [msg |-> cur[w], ok |-> ok]
    <3>1. c \in Callback /\ c.msg = cur[w] /\ cur[w] \in Held
      BY <1>0, <1>8, <2>1 DEF Callback
    <3> HIDE DEF c
    <3>2. /\ \A i \in DOMAIN callbacks' :
               \/ i \in DOMAIN callbacks /\ callbacks'[i] = callbacks[i]
               \/ i = Len(callbacks) + 1 /\ callbacks'[i] = c
          /\ \A i \in DOMAIN callbacks : i \in Nat /\ i < Len(callbacks) + 1
      BY <1>0, <2>3, <3>1, CallbackAppend DEF c
    <3>3. \A i \in DOMAIN callbacks : callbacks[i].msg.fetched_at <= c.msg.fetched_at
      BY <3>1 DEF OrderOK, Earlier, Answered
    <3>4. Answered' \subseteq Answered \cup {c.msg}
      BY <3>2 DEF Answered
    <3>5. Earlier(Answered', tasks')
      BY <2>1, <3>1, <3>4 DEF OrderOK, Earlier
    <3>6. c.msg.fetched_at \in Nat /\ Len(callbacks) \in Nat
      BY <1>0, <3>1
    <3>7. \A i, j \in DOMAIN callbacks' :
            i <= j => callbacks'[i].msg.fetched_at <= callbacks'[j].msg.fetched_at
      <4> SUFFICES ASSUME NEW i \in DOMAIN callbacks', NEW j \in DOMAIN callbacks', i <= j
                   PROVE  callbacks'[i].msg.fetched_at <= callbacks'[j].msg.fetched_at
        OBVIOUS
      <4>1. CASE i \in DOMAIN callbacks /\ j \in DOMAIN callbacks
        BY <3>2, <3>6, <4>1 DEF OrderOK
      <4>2. CASE i \in DOMAIN callbacks /\ j = Len(callbacks) + 1
        BY <3>2, <3>3, <3>6, <4>2
      <4>3. CASE i = Len(callbacks) + 1 /\ j = i
        BY <3>2, <3>6, <4>3
      <4> QED BY <3>2, <3>6, <4>1, <4>2, <4>3
    <3> QED BY <2>1, <3>5, <3>7 DEF OrderOK, Earlier
  <2> QED BY <1>8, <2>2, <2>3 DEF Answer
<1>9. ASSUME NEW w \in Workers, Enrich(w) \/ StoreStep(w) \/ StoreFails(w) PROVE OrderOK'
  BY <1>9, <1>a DEF Enrich, StoreStep, StoreFails
<1>10. ASSUME NEW w \in Workers, EnrichFails(w) PROVE OrderOK'
  BY <1>8, <1>10 DEF EnrichFails
<1>11. ASSUME NEW w \in Workers, Finish(w) PROVE OrderOK'
  <2>1. cur[w] # NoFlight /\ Answer(w, call[w] = "ok")
    BY <1>11 DEF Finish, Repo!Return, IInv, CallsOK
  <2> QED BY <1>8, <2>1
<1> QED BY <1>1, <1>2, <1>3, <1>4, <1>5, <1>6, <1>7, <1>9, <1>10, <1>11 DEF Next, WorkerStep

(* A worker's commit is no older than what was stored before it.           *)
LEMMA NextFreshOK ==
  SingleWorker /\ IInv /\ OrderOK /\ FreshOK /\ [Next]_vars => FreshOK'
<1> SUFFICES ASSUME SingleWorker, IInv, OrderOK, FreshOK, [Next]_vars PROVE FreshOK'
  OBVIOUS
<1> DEFINE Fresh(t, m) == t.flights[m.icao24] \in Message
                          /\ t.flights[m.icao24].fetched_at >= m.fetched_at
<1>0. /\ ready \subseteq Message /\ unacked \subseteq Message /\ acked \subseteq Message
      /\ cur \in [Workers -> Message \cup {NoFlight}] /\ NoFlight \notin Message
      /\ callbacks \in Seq(Callback) /\ Praised \subseteq Answered
      /\ \A m \in Message : m.fetched_at \in Nat /\ m.icao24 \in Aircraft
  BY ConsumerAssumption DEF IInv, TypeOK, Message, Repo!Flight, Stamps, Praised, Answered
<1>1. /\ R!IInv /\ [R!Next]_R!vars /\ R!NoWorkerAssumption /\ R!NoFlightAssumption
      /\ db \in R!Tables
  BY NextRefines, SameRepository, RepoAssumptions DEF IInv, RepoOK, R!IInv, R!TypeOK
<1>2. \/ db' = db
      \/ \E w \in Workers : call[w] = "commit" /\ db' = R!Both(db, arg[w])
  BY <1>1, R!TablesChange DEF R!NoWorkerAssumption, R!NoFlightAssumption
(* What a commit does to the rows that are as new as promised.             *)
<1>3. ASSUME NEW w \in Workers, call[w] = "commit", db' = R!Both(db, arg[w])
      PROVE  /\ cur[w] \in Held /\ Fresh(db', cur[w])
             /\ \A m \in Message : m.fetched_at <= cur[w].fetched_at /\ Fresh(db, m) => Fresh(db', m)
  <2> DEFINE c == cur[w]
  <2>1. arg[w] = c /\ c \in Message /\ c \in Held
    BY <1>0, <1>3 DEF IInv, CallsOK, Held
  <2>2. db'.flights = [db.flights EXCEPT ![c.icao24] = c]
    BY <1>1, <1>3, <2>1 DEF R!Both, R!InsertHistory, R!UpsertFlight, R!Tables
  <2>3. db.flights \in [Aircraft -> Message \cup {NoFlight}]
    BY <1>1, SameRepository DEF R!Tables
  <2> HIDE DEF c
  <2>4. Fresh(db', c)
    BY <1>0, <2>1, <2>2, <2>3
  <2>5. ASSUME NEW m \in Message, m.fetched_at <= c.fetched_at, Fresh(db, m) PROVE Fresh(db', m)
    <3>1. CASE m.icao24 = c.icao24
      BY <1>0, <2>1, <2>2, <2>3, <2>5, <3>1
    <3>2. CASE m.icao24 # c.icao24
      BY <1>0, <2>1, <2>2, <2>3, <2>5, <3>2
    <3> QED BY <3>1, <3>2
  <2> QED BY <2>1, <2>4, <2>5 DEF c
(* What was promised of stays so: it is no newer than what is in hand.     *)
<1>4. \A m \in acked \cup Praised \cup Returned : m \in Message /\ Fresh(db', m)
  <2> SUFFICES ASSUME NEW m \in acked \cup Praised \cup Returned
               PROVE  m \in Message /\ Fresh(db', m)
    OBVIOUS
  <2>1. m \in Message
    <3>1. CASE m \in acked
      BY <1>0, <3>1
    <3>2. CASE m \in Praised
      <4>1. PICK i \in DOMAIN callbacks : m = callbacks[i].msg
        BY <3>2 DEF Praised
      <4>2. callbacks[i] \in Callback
        BY <1>0
      <4> QED BY <4>1, <4>2 DEF Callback
    <3>3. CASE m \in Returned
      BY <1>0, <3>3 DEF Returned, IInv, CallsOK
    <3> QED BY <3>1, <3>2, <3>3
  <2>2. Fresh(db, m)
    BY DEF FreshOK
  <2>3. CASE db' = db
    BY <2>1, <2>2, <2>3
  <2>4. ASSUME NEW w \in Workers, call[w] = "commit", db' = R!Both(db, arg[w]) PROVE Fresh(db', m)
    <3>1. cur[w] \in Held
      BY <1>3, <2>4
    <3>2. Returned = {}
      BY <2>4 DEF Returned, SingleWorker
    <3>3. m.fetched_at <= cur[w].fetched_at
      BY <1>0, <3>1, <3>2 DEF OrderOK, Earlier
    <3> QED BY <1>3, <2>1, <2>2, <2>4, <3>3
  <2> QED BY <1>2, <2>1, <2>3, <2>4
(* What is promised of anew was promised of before, or is just committed.  *)
<1>5. ASSUME NEW w \in Workers, call'[w] = "ok" PROVE cur'[w] = cur[w]
  <2>1. arg'[w] = arg[w] /\ call[w] # "idle"
    BY <1>1, <1>5, R!OkSteps DEF R!NoWorkerAssumption, R!NoFlightAssumption
  <2>2. CallsOK'
    BY NextIInv DEF IInv
  <2> QED BY <1>5, <2>1, <2>2 DEF IInv, CallsOK
<1>6. \A m \in Returned' : m \in Returned \/ Fresh(db', m)
  <2> SUFFICES ASSUME NEW w \in Workers, call'[w] = "ok"
               PROVE  cur'[w] \in Returned \/ Fresh(db', cur'[w])
    BY DEF Returned
  <2>1. cur'[w] = cur[w]
    BY <1>5
  <2>2. call[w] = "ok" \/ (call[w] = "commit" /\ db' = R!Both(db, arg[w]))
    BY <1>1, R!OkSteps DEF R!NoWorkerAssumption, R!NoFlightAssumption
  <2> QED BY <1>3, <2>1, <2>2 DEF Returned
<1>7. acked' \subseteq acked \cup Praised /\ Praised' \subseteq Praised \cup Returned
  <2>a. ASSUME acked' = acked, callbacks' \in {<<>>, callbacks}
        PROVE  acked' \subseteq acked \cup Praised /\ Praised' \subseteq Praised \cup Returned
    BY <2>a DEF Praised
  <2>b. ASSUME NEW w \in Workers, NEW ok \in BOOLEAN, Answer(w, ok), cur[w] # NoFlight,
               ok => call[w] = "ok"
        PROVE  acked' \subseteq acked \cup Praised /\ Praised' \subseteq Praised \cup Returned
    <3>1. acked' = acked
      BY <2>b DEF Answer, broker
    <3>2. CASE callbacks' = callbacks
      BY <2>a, <3>1, <3>2
    <3>3. CASE callbacks' = Append(callbacks, [msg |-> cur[w], ok |-> ok])
      <4> DEFINE c == [msg |-> cur[w], ok |-> ok]
      <4>1. c \in Callback /\ c.msg = cur[w] /\ c.ok = ok
        BY <1>0, <2>b DEF Callback
      <4> HIDE DEF c
      <4>2. \A i \in DOMAIN callbacks' :
               \/ i \in DOMAIN callbacks /\ callbacks'[i] = callbacks[i]
               \/ callbacks'[i] = c
        BY <1>0, <3>3, <4>1, CallbackAppend DEF c
      <4>3. ok => cur[w] \in Returned
        BY <2>b DEF Returned
      <4> QED BY <3>1, <4>1, <4>2, <4>3 DEF Praised
    <3> QED BY <2>b, <3>2, <3>3 DEF Answer
  <2>1. CASE AckOrNack
    <3>1. /\ acked' \subseteq acked \cup {Head(callbacks).msg}
          /\ acked' # acked => Head(callbacks).ok
          /\ callbacks' = Tail(callbacks) /\ callbacks # <<>>
      BY <2>1 DEF AckOrNack
    <3>2. Head(callbacks) = callbacks[1] /\ 1 \in DOMAIN callbacks
          /\ \A i \in DOMAIN callbacks' :
               i + 1 \in DOMAIN callbacks /\ callbacks'[i] = callbacks[i + 1]
      BY <1>0, <3>1, CallbackTail
    <3>3. Head(callbacks).ok => Head(callbacks).msg \in Praised
      BY <3>2 DEF Praised
    <3> QED BY <3>1, <3>2, <3>3 DEF Praised
  <2>2. ASSUME NEW w \in Workers, EnrichFails(w)
        PROVE  acked' \subseteq acked \cup Praised /\ Praised' \subseteq Praised \cup Returned
    BY <2>2, <2>b DEF EnrichFails
  <2>3. ASSUME NEW w \in Workers, Finish(w)
        PROVE  acked' \subseteq acked \cup Praised /\ Praised' \subseteq Praised \cup Returned
    <3>1. cur[w] # NoFlight /\ Answer(w, call[w] = "ok")
      BY <2>3 DEF Finish, Repo!Return, IInv, CallsOK
    <3> QED BY <2>b, <3>1
  <2>4. ASSUME NEW a \in Aircraft, Publish(a)
        PROVE  acked' \subseteq acked \cup Praised /\ Praised' \subseteq Praised \cup Returned
    BY <2>4, <2>a DEF Publish, pool
  <2>5. CASE Deliver \/ LoseAmqp \/ ConnectFails \/ Exit \/ Crash
    BY <2>5, <2>a DEF Deliver, LoseAmqp, ConnectFails, Exit, Crash, ProcessGone, Requeue,
       broker, pool
  <2>6. CASE \/ StartProcess \/ ConnectPostgres \/ ConnectRabbitmq \/ Stop
             \/ Heartbeat \/ LosePostgres \/ UNCHANGED vars
    BY <2>6, <2>a DEF StartProcess, ConnectPostgres, ConnectRabbitmq, Stop, Heartbeat,
       LosePostgres, vars, broker, pool
  <2>7. ASSUME NEW w \in Workers, Take(w) \/ Enrich(w) \/ StoreStep(w) \/ StoreFails(w)
        PROVE  acked' \subseteq acked \cup Praised /\ Praised' \subseteq Praised \cup Returned
    BY <2>7, <2>a DEF Take, Enrich, StoreStep, StoreFails, broker, pool
  <2> QED BY <2>1, <2>2, <2>3, <2>4, <2>5, <2>6, <2>7 DEF Next, WorkerStep
<1>8. \A m \in acked' \cup Praised' \cup Returned' : Fresh(db', m)
  BY <1>4, <1>6, <1>7
<1> QED BY <1>8 DEF FreshOK

(***************************************************************************)
(* Two workers can overtake each other and leave an older row in flights   *)
(* (SnapshotIsLatest fails there).  One cannot: however the process is     *)
(* stopped, killed, cut off or refused, and whatever is redelivered, the   *)
(* snapshot is as new as anything acknowledged (main.py:98-100, a pool of  *)
(* consumer_worker_threads).                                               *)
(***************************************************************************)
THEOREM OneWorkerKeepsOrder ==
  ASSUME SingleWorker
  PROVE  Spec => []SnapshotIsLatest
<1>1. Init => OrderOK /\ FreshOK
  BY DEF Init, OrderOK, FreshOK, Earlier, Held, Answered, Praised, Returned, Repo!Init
<1>2. IInv /\ OrderOK /\ FreshOK /\ [Next]_vars => (OrderOK /\ FreshOK)'
  BY NextOrderOK, NextFreshOK
<1>3. FreshOK => SnapshotIsLatest
  BY DEF FreshOK, SnapshotIsLatest
<1> QED BY <1>1, <1>2, <1>3, Invariance, PTL DEF Spec

-----------------------------------------------------------------------------
(* What is left to do *)

(* Steps a worker still takes at most for the message it holds: it is      *)
(* enriched, stored and answered.                                          *)
Left(w) ==
  CASE cur[w] = NoFlight                    -> 0
    [] cur[w] # NoFlight /\ call[w] = "idle"  -> 6
    [] cur[w] # NoFlight /\ call[w] # "idle"  -> R!CallLeft(w)

(* All the steps ahead, those for a message in the executor one more.      *)
Ahead ==
  {p \in (tasks \cup Held) \X (1..7) :
     p[1] \in tasks \/ \E w \in Workers : cur[w] = p[1] /\ p[2] <= Left(w)}
StepsAhead == Cardinality(Ahead)

(* The executor's queue has no limit of its own.                           *)
WindowFits ==
  /\ IsFiniteSet(unacked) /\ Cardinality(unacked) <= Prefetch
  /\ IsFiniteSet(tasks \cup Held) /\ Cardinality(tasks \cup Held) <= Prefetch

DrainBounded == StepsAhead \in 0..(7 * Prefetch)

WorkRunsOut ==
  /\ ~Deliver => StepsAhead' <= StepsAhead
  /\ \A w \in Workers :
       WorkerStep(w) \/ EnrichFails(w) \/ StoreFails(w) => StepsAhead' < StepsAhead

(* The guards of WorkerStep.                                               *)
MayWork(w) ==
  \/ cur[w] = NoFlight /\ tasks # {}
  \/ cur[w] # NoFlight /\ (call[w] = "idle" \/ R!MayGo(w))

SomebodyWorks == tasks \cup Held = {} \/ \E w \in Workers : MayWork(w)

LEMMA SameSteps ==
  \A w \in Workers :
    /\ Repo!Step(w) => R!Step(w)
    /\ Repo!Return(w) => R!Return(w)
    /\ Repo!BindFails(w) \/ Repo!StatementFails(w) \/ Repo!CommitUnanswered(w) => R!Fault(w)
BY DEF Repo!Step, R!Step, R!Fault, Repo!Return, R!Return,
   Repo!Acquire, R!Acquire, Repo!AcquireClosed, R!AcquireClosed, Repo!Upsert, R!Upsert,
   Repo!Insert, R!Insert, Repo!Commit, R!Commit, Repo!RefusedInError, R!RefusedInError,
   Repo!UseClosed, R!UseClosed, Repo!BindFails, R!BindFails,
   Repo!StatementFails, R!StatementFails, Repo!CommitUnanswered, R!CommitUnanswered,
   Repo!Goto, R!Goto, Repo!Raise, R!Raise, Repo!Holding, R!Holding,
   Repo!UpsertFlight, R!UpsertFlight, Repo!InsertHistory, R!InsertHistory

LeftOK == \A w \in Workers : Left(w) \in 0..6 /\ (Left(w) = 0 <=> cur[w] = NoFlight)

LEMMA LeftType == TypeOK => LeftOK
<1> SUFFICES ASSUME TypeOK, NEW w \in Workers
             PROVE  Left(w) \in 0..6 /\ (Left(w) = 0 <=> cur[w] = NoFlight)
  BY DEF LeftOK
<1>1. call[w] \in {"idle", "lock", "upsert", "insert", "commit", "ok", "failed"}
  BY DEF TypeOK, Repo!TypeOK, Repo!CallStates, Repo!Holding
<1> QED BY <1>1 DEF Left, R!CallLeft

(* Deliveries only add to the window ...                                   *)
LEMMA NoneAdded ==
  IInv /\ [Next]_vars =>
    \/ Deliver /\ \E m \in ready : unacked' = unacked \cup {m} /\ proc' \in Connected
    \/ /\ unacked' \subseteq unacked
       /\ (tasks \cup Held)' \subseteq tasks \cup Held
       /\ tasks' \subseteq tasks
<1> SUFFICES ASSUME IInv, [Next]_vars
             PROVE  \/ Deliver /\ \E m \in ready : unacked' = unacked \cup {m} /\ proc' \in Connected
                    \/ /\ unacked' \subseteq unacked
                       /\ (tasks \cup Held)' \subseteq tasks \cup Held
                       /\ tasks' \subseteq tasks
  OBVIOUS
<1> DEFINE Fewer == /\ unacked' \subseteq unacked
                    /\ (tasks \cup Held)' \subseteq tasks \cup Held
                    /\ tasks' \subseteq tasks
<1> USE DEF broker, pool, repo, Held
<1>a. ASSUME UNCHANGED <<tasks, cur>>, unacked' \subseteq unacked PROVE Fewer
  BY <1>a
<1>b. ASSUME ProcessGone PROVE Fewer
  BY <1>b, GoneMemory
<1>1. CASE Deliver
  BY <1>1, OldestIn DEF Deliver, IInv, TypeOK, Connected
<1>2. CASE \/ StartProcess \/ ConnectPostgres \/ ConnectRabbitmq \/ Stop \/ Heartbeat
           \/ LosePostgres \/ UNCHANGED vars \/ AckOrNack \/ \E a \in Aircraft : Publish(a)
  BY <1>2, <1>a DEF StartProcess, ConnectPostgres, ConnectRabbitmq, Stop, Heartbeat,
     LosePostgres, vars, AckOrNack, Publish
<1>3. CASE LoseAmqp
  BY <1>3, <1>a DEF LoseAmqp, Requeue
<1>4. CASE ConnectFails \/ Exit \/ Crash
  BY <1>4, <1>a, <1>b DEF ConnectFails, Exit, Crash
<1>5. ASSUME NEW w \in Workers, Take(w) PROVE Fewer
  <2>1. PICK m \in tasks : tasks' = tasks \ {m} /\ cur' = [cur EXCEPT ![w] = m] /\ unacked' = unacked
    BY <1>5, OldestIn DEF Take, IInv, TypeOK
  <2>2. Held' \subseteq Held \cup {m}
    BY <2>1 DEF IInv, TypeOK
  <2> QED BY <2>1, <2>2
<1>6. ASSUME NEW w \in Workers, NEW ok, Answer(w, ok) PROVE Fewer
  <2>1. tasks' = tasks /\ Held' \subseteq Held /\ unacked' = unacked
    BY <1>6 DEF Answer, IInv, TypeOK
  <2> QED BY <2>1
<1>7. ASSUME NEW w \in Workers, WorkerStep(w) \/ EnrichFails(w) \/ StoreFails(w) PROVE Fewer
  BY <1>5, <1>6, <1>7, <1>a DEF WorkerStep, Enrich, StoreStep, Finish, EnrichFails, StoreFails
<1> QED BY <1>1, <1>2, <1>3, <1>4, <1>7 DEF Next

(* ... and only as far as the prefetch allows, in the executor as well.    *)
LEMMA NextFits == IInv /\ WindowFits /\ IInv' /\ [Next]_vars => WindowFits'
<1> SUFFICES ASSUME IInv, WindowFits, IInv', [Next]_vars PROVE WindowFits'
  OBVIOUS
<1> HIDE DEF IInv
<1>1. CASE \E m \in ready : Deliver /\ unacked' = unacked \cup {m} /\ proc' \in Connected
  <2>1. PICK m \in ready : Deliver /\ unacked' = unacked \cup {m} /\ proc' \in Connected
    BY <1>1
  <2>2. IsFiniteSet(unacked') /\ Cardinality(unacked') <= Cardinality(unacked) + 1
    <3>1. IsFiniteSet(unacked) /\ Cardinality(unacked) \in Nat
      BY FS_CardinalityType DEF WindowFits
    <3>2. /\ IsFiniteSet(unacked \cup {m})
          /\ Cardinality(unacked \cup {m}) = IF m \in unacked THEN Cardinality(unacked) ELSE Cardinality(unacked) + 1
      BY <3>1, FS_AddElement
    <3> QED BY <2>1, <3>1, <3>2
  <2>3. Cardinality(unacked) < Prefetch /\ Prefetch \in Nat
    BY <2>1, ConsumerAssumption DEF Deliver
  <2>4. Cardinality(unacked') \in Nat /\ Cardinality(unacked) \in Nat
    BY <2>2, FS_CardinalityType DEF WindowFits
  <2>5. Cardinality(unacked') <= Prefetch
    BY <2>2, <2>3, <2>4
  <2>6. (tasks \cup Held)' \subseteq unacked'
    BY <2>1 DEF IInv, WindowAccounted
  <2>7. IsFiniteSet((tasks \cup Held)') /\ Cardinality((tasks \cup Held)') <= Cardinality(unacked')
    BY <2>2, <2>6, FS_Subset
  <2>8. Cardinality((tasks \cup Held)') \in Nat
    BY <2>7, FS_CardinalityType
  <2> QED BY <2>2, <2>3, <2>4, <2>5, <2>7, <2>8 DEF WindowFits
<1>2. CASE unacked' \subseteq unacked /\ (tasks \cup Held)' \subseteq tasks \cup Held
  <2>1. IsFiniteSet(unacked') /\ Cardinality(unacked') <= Cardinality(unacked)
    BY <1>2, FS_Subset DEF WindowFits
  <2>2. /\ IsFiniteSet((tasks \cup Held)')
        /\ Cardinality((tasks \cup Held)') <= Cardinality(tasks \cup Held)
    BY <1>2, FS_Subset DEF WindowFits
  <2>3. /\ Cardinality(unacked') \in Nat /\ Cardinality((tasks \cup Held)') \in Nat
        /\ Cardinality(unacked) \in Nat /\ Cardinality(tasks \cup Held) \in Nat
        /\ Prefetch \in Nat
    BY <2>1, <2>2, FS_CardinalityType, ConsumerAssumption DEF WindowFits
  <2> QED BY <2>1, <2>2, <2>3 DEF WindowFits
<1> QED BY <1>1, <1>2, NoneAdded

LEMMA AheadBounded == WindowFits => IsFiniteSet(Ahead) /\ DrainBounded
<1> SUFFICES ASSUME WindowFits PROVE IsFiniteSet(Ahead) /\ DrainBounded
  OBVIOUS
<1> DEFINE U == tasks \cup Held
<1>1. IsFiniteSet(U) /\ Cardinality(U) <= Prefetch /\ Cardinality(U) \in Nat /\ Prefetch \in Nat
  BY FS_CardinalityType, ConsumerAssumption DEF WindowFits
<1>2. IsFiniteSet(1..7) /\ Cardinality(1..7) = 7
  <2>1. IsFiniteSet(1..7) /\ Cardinality(1..7) = IF 1 > 7 THEN 0 ELSE 7 - 1 + 1
    BY FS_Interval, 1 \in Int, 7 \in Int
  <2> QED BY <2>1
<1>3. IsFiniteSet(U \X (1..7)) /\ Cardinality(U \X (1..7)) = Cardinality(U) * 7
  BY <1>1, <1>2, FS_Product
<1>4. Ahead \in SUBSET (U \X (1..7))
  BY DEF Ahead
<1>5. IsFiniteSet(Ahead) /\ Cardinality(Ahead) <= Cardinality(U) * 7
  <2> HIDE DEF U
  <2> QED BY <1>3, <1>4, FS_Subset
<1>6. Cardinality(Ahead) \in Nat
  BY <1>5, FS_CardinalityType
<1> HIDE DEF U
<1>7. Cardinality(Ahead) <= 7 * Prefetch
  BY <1>1, <1>5, <1>6
<1> QED BY <1>1, <1>5, <1>6, <1>7 DEF DrainBounded, StepsAhead

(* A step that takes something off the set of steps ahead counts.          *)
LEMMA FewerAhead ==
  IsFiniteSet(Ahead) /\ Ahead' \subseteq Ahead =>
    StepsAhead' <= StepsAhead /\ (Ahead' # Ahead => StepsAhead' < StepsAhead)
<1> SUFFICES ASSUME IsFiniteSet(Ahead), Ahead' \subseteq Ahead
             PROVE  StepsAhead' <= StepsAhead /\ (Ahead' # Ahead => StepsAhead' < StepsAhead)
  OBVIOUS
<1>1. /\ IsFiniteSet(Ahead') /\ Cardinality(Ahead') <= Cardinality(Ahead)
      /\ Cardinality(Ahead) = Cardinality(Ahead') => Ahead = Ahead'
  BY FS_Subset
<1>2. Cardinality(Ahead) \in Nat /\ Cardinality(Ahead') \in Nat
  BY <1>1, FS_CardinalityType
<1> QED BY <1>1, <1>2 DEF StepsAhead

(* A worker gets on with its message, or is done with it.                  *)
LEMMA WorkerAhead ==
  ASSUME TypeOK, OneOwner, NEW w \in Workers,
         tasks' = tasks, cur[w] \in Message, cur'[w] \in {cur[w], NoFlight},
         Left(w)' \in 0..6, Left(w)' < Left(w),
         \A v \in Workers \ {w} : cur'[v] = cur[v] /\ Left(v)' = Left(v)
  PROVE  Ahead' \subseteq Ahead /\ Ahead' # Ahead
<1> DEFINE p == <<cur[w], Left(w)>>
<1>0. cur[w] # NoFlight
  BY ConsumerAssumption DEF Message, Repo!Flight, Stamps
<1>1. Left(w) \in 1..7
  BY <1>0, LeftType DEF LeftOK
<1>2. p \in Ahead
  BY <1>0, <1>1 DEF Ahead, Held
<1>3. p \notin Ahead'
  <2>1. cur[w] \notin tasks'
    BY <1>0 DEF OneOwner, Held
  <2>2. \A v \in Workers \ {w} : cur'[v] # cur[w]
    BY <1>0 DEF OneOwner
  <2>3. ~ (Left(w) <= Left(w)')
    BY <1>1
  <2> HIDE DEF Left
  <2> QED BY <2>1, <2>2, <2>3 DEF Ahead
<1>4. Held' \subseteq Held
  BY <1>0 DEF Held
<1>5. \A v \in Workers, i \in 1..7 : cur'[v] # NoFlight /\ i <= Left(v)' => cur'[v] = cur[v] /\ i <= Left(v)
  BY <1>1
<1>6. NoFlight \notin tasks \cup Held
  BY ConsumerAssumption DEF TypeOK, Message, Repo!Flight, Stamps, Held
<1>7. Ahead' \subseteq Ahead
  <2> SUFFICES ASSUME NEW q \in Ahead' PROVE q \in Ahead
    OBVIOUS
  <2> HIDE DEF Left
  <2>1. q \in (tasks \cup Held) \X (1..7)
    BY <1>4 DEF Ahead
  <2>2. CASE q[1] \in tasks
    BY <2>1, <2>2 DEF Ahead
  <2>3. ASSUME NEW v \in Workers, cur'[v] = q[1], q[2] <= Left(v)' PROVE q \in Ahead
    <3>1. q[1] \in tasks \cup Held /\ q[2] \in 1..7
      BY <2>1
    <3>2. cur[v] = q[1] /\ q[2] <= Left(v)
      BY <1>5, <1>6, <2>3, <3>1
    <3> QED BY <2>1, <3>2 DEF Ahead
  <2> QED BY <2>2, <2>3 DEF Ahead
<1> QED BY <1>2, <1>3, <1>7

LEMMA NextWorkRunsOut ==
  IInv /\ WindowFits /\ LeftOK /\ LeftOK' /\ [Next]_vars => WorkRunsOut
<1> SUFFICES ASSUME IInv, WindowFits, LeftOK, LeftOK', [Next]_vars PROVE WorkRunsOut
  OBVIOUS
<1>0. /\ TypeOK /\ CallsOK /\ OneOwner /\ Repo!TypeOK /\ R!TypeOK
      /\ IsFiniteSet(Ahead) /\ [R!Next]_R!vars
  BY AheadBounded, NextRefines, SameRepository DEF IInv, TypeOK, RepoOK, R!IInv
<1>1. R!CallsRunOut
  BY <1>0, R!NextRunsOut, RepoAssumptions DEF R!NoWorkerAssumption, R!NoFlightAssumption
<1> DEFINE Shrinks == Ahead' \subseteq Ahead /\ Ahead' # Ahead
<1> HIDE DEF IInv
<1>a. ASSUME UNCHANGED <<tasks, cur>>, call' = call PROVE Ahead' = Ahead
  <2>1. \A w \in Workers : Left(w)' = Left(w)
    BY <1>a DEF Left, R!CallLeft
  <2> QED BY <1>a, <2>1 DEF Ahead, Held
<1>b. ASSUME ProcessGone PROVE Ahead' \subseteq Ahead
  <2>1. (tasks \cup Held)' = {}
    BY <1>b, GoneMemory DEF Held
  <2>2. Ahead' = {}
    BY <2>1 DEF Ahead
  <2> QED BY <2>2
<1>2. ASSUME NEW w \in Workers, Take(w) PROVE Shrinks
  <2>1. PICK m \in tasks : /\ tasks' = tasks \ {m} /\ cur' = [cur EXCEPT ![w] = m]
                           /\ cur[w] = NoFlight /\ call' = call /\ m \in Message
    BY <1>0, <1>2, OldestIn DEF Take, TypeOK, repo
  <2>2. m # NoFlight /\ m \notin Held
    BY <1>0, <2>1, ConsumerAssumption DEF Message, Repo!Flight, Stamps, OneOwner
  <2>3. /\ cur'[w] = m /\ \A v \in Workers \ {w} : cur'[v] = cur[v] /\ cur[v] # m
        /\ Held' = Held \cup {m}
    BY <1>0, <2>1, <2>2 DEF TypeOK, Held
  <2>4. \A v \in Workers \ {w} : Left(v)' = Left(v)
    BY <2>1, <2>3 DEF Left, R!CallLeft
  <2>5. Left(w)' \in 0..6
    BY DEF LeftOK
  <2> HIDE DEF Left
  <2>6. <<m, 7>> \in Ahead
    BY <2>1 DEF Ahead
  <2>7. <<m, 7>> \notin Ahead'
    BY <2>1, <2>2, <2>3, <2>5 DEF Ahead
  <2>8. (tasks \cup Held)' = tasks \cup Held
    BY <2>1, <2>3
  <2>9. Ahead' \subseteq Ahead
    BY <2>1, <2>3, <2>4, <2>8 DEF Ahead
  <2> QED BY <2>6, <2>7, <2>9
<1>3. ASSUME NEW w \in Workers, cur[w] # NoFlight, UNCHANGED <<tasks, cur>>,
             \A v \in Workers \ {w} : call'[v] = call[v],
             Left(w)' < Left(w)
      PROVE  Shrinks
  <2>1. \A v \in Workers \ {w} : cur'[v] = cur[v] /\ Left(v)' = Left(v)
    BY <1>3 DEF Left, R!CallLeft
  <2>2. cur[w] \in Message /\ Left(w)' \in 0..6
    BY <1>0, <1>3 DEF TypeOK, LeftOK
  <2> HIDE DEF Left
  <2> QED BY <1>0, <1>3, <2>1, <2>2, WorkerAhead
<1>4. ASSUME NEW w \in Workers, Enrich(w) PROVE Shrinks
  <2>1. /\ call[w] = "idle" /\ call' = [call EXCEPT ![w] = call'[w]] /\ call'[w] \in {"lock", "failed"}
        /\ cur[w] # NoFlight /\ UNCHANGED <<tasks, cur>>
    BY <1>0, <1>4 DEF Enrich, Repo!Enter, Repo!Goto, Repo!TypeOK, pool
  <2>2. \A v \in Workers \ {w} : call'[v] = call[v]
    BY <1>0, <2>1 DEF Repo!TypeOK
  <2>3. Left(w)' < Left(w)
    BY <2>1 DEF Left, R!CallLeft
  <2> QED BY <1>3, <2>1, <2>2, <2>3
<1>5. ASSUME NEW w \in Workers, StoreStep(w) PROVE Shrinks
  <2>1. /\ UNCHANGED <<tasks, cur>> /\ R!Step(w)
        /\ R!CallLeft(w)' < R!CallLeft(w)
    BY <1>1, <1>5, SameSteps DEF StoreStep, pool, R!CallsRunOut
  <2>2. /\ call[w] # "idle" /\ call'[w] # "idle" /\ cur[w] # NoFlight
        /\ \A v \in Workers \ {w} : call'[v] = call[v]
    BY <1>0, <2>1 DEF CallsOK, R!TypeOK, R!Step, R!Acquire, R!AcquireClosed, R!Upsert, R!Insert,
       R!Commit, R!RefusedInError, R!UseClosed, R!Goto, R!Raise, R!Holding
  <2>3. Left(w)' < Left(w)
    BY <2>1, <2>2 DEF Left
  <2> QED BY <1>3, <2>1, <2>2, <2>3
<1>6. ASSUME NEW w \in Workers, StoreFails(w) PROVE Shrinks
  <2>1. /\ UNCHANGED <<tasks, cur>> /\ R!Fault(w)
        /\ R!CallLeft(w)' < R!CallLeft(w)
    BY <1>1, <1>6, SameSteps DEF StoreFails, pool, R!CallsRunOut
  <2>2. /\ call[w] # "idle" /\ call'[w] # "idle" /\ cur[w] # NoFlight
        /\ \A v \in Workers \ {w} : call'[v] = call[v]
    BY <1>0, <2>1 DEF CallsOK, R!TypeOK, R!Fault, R!BindFails, R!StatementFails,
       R!CommitUnanswered, R!Goto, R!Raise, R!Holding
  <2>3. Left(w)' < Left(w)
    BY <2>1, <2>2 DEF Left
  <2> QED BY <1>3, <2>1, <2>2, <2>3
<1>7. ASSUME NEW w \in Workers, NEW ok, Answer(w, ok), cur[w] # NoFlight,
             \A v \in Workers \ {w} : call'[v] = call[v]
      PROVE  Shrinks
  <2>1. /\ tasks' = tasks /\ cur'[w] = NoFlight /\ cur[w] \in Message
        /\ \A v \in Workers \ {w} : cur'[v] = cur[v]
    BY <1>0, <1>7 DEF Answer, TypeOK
  <2>2. \A v \in Workers \ {w} : Left(v)' = Left(v)
    BY <1>7, <2>1 DEF Left, R!CallLeft
  <2>3. Left(w)' = 0 /\ Left(w) \in 0..6 /\ Left(w) # 0
    BY <1>7, <2>1 DEF LeftOK
  <2> HIDE DEF Left
  <2>4. Left(w)' \in 0..6 /\ Left(w)' < Left(w)
    BY <2>3
  <2> QED BY <1>0, <2>1, <2>2, <2>4, WorkerAhead
<1>8. ASSUME NEW w \in Workers, EnrichFails(w) \/ Finish(w) PROVE Shrinks
  <2>1. cur[w] # NoFlight /\ \A v \in Workers \ {w} : call'[v] = call[v]
    BY <1>0, <1>8 DEF EnrichFails, Finish, Repo!Return, Repo!Goto, Repo!TypeOK, CallsOK, repo
  <2> QED BY <1>7, <1>8, <2>1 DEF EnrichFails, Finish
<1>9. \A w \in Workers : WorkerStep(w) \/ EnrichFails(w) \/ StoreFails(w) => Shrinks
  BY <1>2, <1>4, <1>5, <1>6, <1>8 DEF WorkerStep
<1>10. ~Deliver => Ahead' \subseteq Ahead
  <2> SUFFICES ASSUME ~Deliver PROVE Ahead' \subseteq Ahead
    OBVIOUS
  <2>1. CASE \/ StartProcess \/ ConnectPostgres \/ ConnectRabbitmq \/ Stop \/ Heartbeat \/ LoseAmqp
             \/ LosePostgres \/ UNCHANGED vars \/ AckOrNack \/ \E a \in Aircraft : Publish(a)
    BY <2>1, <1>a DEF StartProcess, ConnectPostgres, ConnectRabbitmq, Stop, Heartbeat,
       LosePostgres, vars, AckOrNack, Publish, LoseAmqp, Repo!Connect, Repo!Disconnect, pool, repo
  <2>2. CASE ConnectFails \/ Exit \/ Crash
    BY <2>2, <1>a, <1>b DEF ConnectFails, Exit, Crash, pool, repo
  <2> QED BY <2>1, <2>2, <1>9 DEF Next
<1>11. \A w \in Workers :
         WorkerStep(w) \/ EnrichFails(w) \/ StoreFails(w) => StepsAhead' < StepsAhead
  BY <1>0, <1>9, FewerAhead
<1>12. ~Deliver => StepsAhead' <= StepsAhead
  BY <1>0, <1>10, FewerAhead
<1> QED BY <1>11, <1>12 DEF WorkRunsOut

LEMMA NextHolder == IInv /\ R!HolderOK /\ [Next]_vars => R!HolderOK'
<1> SUFFICES ASSUME IInv, R!HolderOK, [Next]_vars PROVE R!HolderOK'
  OBVIOUS
<1>1. R!IInv /\ [R!Next]_R!vars
  BY NextRefines, SameRepository DEF IInv, RepoOK
<1> QED BY <1>1, R!NextHolderOK, RepoAssumptions DEF R!NoWorkerAssumption, R!NoFlightAssumption

LEMMA OneMayWork == ASSUME Workers # {} PROVE IInv /\ R!HolderOK => SomebodyWorks
<1> SUFFICES ASSUME IInv, R!HolderOK, tasks \cup Held # {} PROVE \E w \in Workers : MayWork(w)
  BY DEF SomebodyWorks
<1>0. CallsOK
  BY DEF IInv
<1>1. R!NobodyStuck
  BY R!HolderGoes, RepoAssumptions DEF IInv, RepoOK, R!NoWorkerAssumption, R!NoFlightAssumption
<1>2. ASSUME NEW w \in Workers, cur[w] # NoFlight PROVE \E v \in Workers : MayWork(v)
  <2>1. CASE call[w] = "idle" \/ R!MayGo(w)
    BY <1>2, <2>1 DEF MayWork
  <2>2. CASE lock \in Workers /\ R!MayGo(lock)
    <3>1. call[lock] # "idle"
      BY <2>2 DEF R!MayGo
    <3>2. cur[lock] # NoFlight
      BY <1>0, <2>2, <3>1 DEF CallsOK
    <3> QED BY <2>2, <3>2 DEF MayWork
  <2> QED BY <1>1, <2>1, <2>2 DEF R!NobodyStuck
<1>3. CASE \A w \in Workers : cur[w] = NoFlight
  <2>1. Held = {} /\ tasks # {}
    BY <1>3 DEF Held
  <2> QED BY <1>3, <2>1 DEF MayWork
<1> QED BY <1>2, <1>3

(***************************************************************************)
(* A shutdown waits only for what the prefetch let in (main.py:170,        *)
(* executor.shutdown(wait=True)): once deliveries stop, every step of a    *)
(* worker, a failing one included, is one of at most seven for each of     *)
(* Prefetch messages, and nothing else adds any, crashes, lost connections *)
(* and a lost broker included ...                                          *)
(***************************************************************************)
THEOREM DrainIsShort == Spec => [](WindowFits /\ DrainBounded) /\ [][WorkRunsOut]_vars
<1>1. Init => WindowFits
  <2> SUFFICES ASSUME Init PROVE WindowFits
    OBVIOUS
  <2>1. unacked = {} /\ tasks \cup Held = {}
    BY DEF Init, Held
  <2>2. IsFiniteSet({}) /\ Cardinality({}) = 0
    BY FS_EmptySet
  <2>3. Prefetch \in Nat /\ Prefetch >= 0
    BY ConsumerAssumption
  <2> QED BY <2>1, <2>2, <2>3, Zenon DEF WindowFits
<1>2. IInv /\ WindowFits /\ IInv' /\ [Next]_vars => WindowFits'
  BY NextFits
<1>3. WindowFits => DrainBounded
  BY AheadBounded
<1>4. IInv => LeftOK
  BY LeftType DEF IInv
<1>5. IInv /\ WindowFits /\ LeftOK /\ LeftOK' /\ [Next]_vars => WorkRunsOut
  BY NextWorkRunsOut
<1> QED BY <1>1, <1>2, <1>3, <1>4, <1>5, Invariance, PTL DEF Spec

(***************************************************************************)
(* ... and until they are all done some worker has one to take: workers    *)
(* never wait for each other in a circle, nor for a connection that is     *)
(* aborted or gone.  (A pool has at least one worker: ThreadPoolExecutor   *)
(* refuses to be made without.)                                            *)
(***************************************************************************)
THEOREM DrainNeverStalls == ASSUME Workers # {} PROVE Spec => []SomebodyWorks
<1>1. Init => R!HolderOK
  BY DEF Init, Repo!Init, R!HolderOK
<1>2. IInv /\ R!HolderOK /\ [Next]_vars => R!HolderOK'
  BY NextHolder
<1>3. IInv /\ R!HolderOK => SomebodyWorks
  BY OneMayWork
<1> QED BY <1>1, <1>2, <1>3, Invariance, PTL DEF Spec

=============================================================================
