------------------------------- MODULE Consumer -------------------------------
(***************************************************************************)
(* consumer/main.py: one process with an IO thread that owns the RabbitMQ  *)
(* connection, a pool of worker threads, and the FlightRepository the      *)
(* workers share.  The IO thread hands every delivery to the pool; a       *)
(* worker enriches and stores it and then schedules an ack or a nack back  *)
(* onto the IO thread, the only one that may touch the channel.            *)
(*                                                                         *)
(* RabbitMQ is external: one durable queue, prefetch, acks, and requeueing *)
(* at the original position of what was unacknowledged when a connection   *)
(* ended.  A message's fetched_at is also its place in the queue.          *)
(***************************************************************************)
EXTENDS Naturals, Sequences, FiniteSets

CONSTANTS
  Aircraft,         \* ICAO24 addresses
  NoFlight,         \* no message
  Workers,          \* threads of the pool (consumer_worker_threads)
  NoWorker,         \* the repository's lock is free
  Prefetch,         \* consumer_prefetch_count
  ConnectAttempts,  \* stop_after_attempt of the two connects
  MaxMessages,      \* bound: how many messages are ever published
  MaxFaults,        \* bound: how many faults ever happen
  Faults            \* which kinds of fault may happen

FaultKinds == {"crash", "stop", "mqlost", "startfail", "enrich", "dberror", "dblost"}

ASSUME ConsumerAssumption ==
  /\ Prefetch \in Nat \ {0}
  /\ ConnectAttempts \in Nat \ {0}
  /\ MaxMessages \in Nat
  /\ MaxFaults \in Nat
  /\ Faults \subseteq FaultKinds
  /\ NoWorker \notin Workers
  /\ NoFlight \notin [icao24 : Aircraft, fetched_at : 1..MaxMessages]

Stamps == 1..MaxMessages

VARIABLES
  next,       \* fetched_at of the next message
  ready,      \* in the queue, not delivered
  unacked,    \* delivered, neither acknowledged nor rejected
  acked,      \* acknowledged: gone from the queue
  dropped,    \* rejected without requeue: gone for good
  proc,       \* where the process is in run()
  attempts,   \* failed attempts of the connect under way
  tasks,      \* submitted to the executor, not started
  cur,        \* the message each worker is processing
  callbacks,  \* acks and nacks scheduled onto the IO thread
  faults,     \* faults so far
  conn, lock, call, arg, work, db   \* the repository's

broker == <<next, ready, unacked, acked, dropped>>
pool   == <<tasks, cur, callbacks>>
repo   == <<conn, lock, call, arg, work, db>>
vars   == <<broker, proc, attempts, pool, faults, repo>>

Repo == INSTANCE FlightRepository

(* What readers of the tables see of all this.                             *)
Queue == INSTANCE FlightQueue WITH pending <- ready \cup unacked, settled <- acked

Message  == Repo!Flight
Callback == [msg : Message, ok : BOOLEAN]

(* "draining": the IO loop has stopped and the main thread waits for the   *)
(* workers with the connection still open; "lost": the same without it.    *)
ProcStates == {"down", "postgres", "rabbitmq", "running", "draining", "lost"}
Connected  == {"running", "draining"}

TypeOK ==
  /\ next \in 1..(MaxMessages + 1)
  /\ ready \subseteq Message
  /\ unacked \subseteq Message
  /\ acked \subseteq Message
  /\ dropped \subseteq Message
  /\ proc \in ProcStates
  /\ attempts \in 0..ConnectAttempts
  /\ tasks \subseteq Message
  /\ cur \in [Workers -> Message \cup {NoFlight}]
  /\ callbacks \in Seq(Callback)
  /\ faults \in 0..MaxFaults
  /\ Repo!TypeOK

Init ==
  /\ next = 1
  /\ ready = {} /\ unacked = {} /\ acked = {} /\ dropped = {}
  /\ proc = "down"
  /\ attempts = 0
  /\ tasks = {}
  /\ cur = [w \in Workers |-> NoFlight]
  /\ callbacks = <<>>
  /\ faults = 0
  /\ Repo!Init

Oldest(S) == CHOOSE m \in S : \A n \in S : m.fetched_at <= n.fetched_at

Fault(kind) ==
  /\ kind \in Faults
  /\ faults < MaxFaults
  /\ faults' = faults + 1

-----------------------------------------------------------------------------
(* The broker's side *)

Publish(a) ==
  /\ next <= MaxMessages
  /\ next' = next + 1
  /\ ready' = ready \cup {[icao24 |-> a, fetched_at |-> next]}
  /\ UNCHANGED <<unacked, acked, dropped, proc, attempts, pool, faults, repo>>

(* Broker and on_message in one step: what sits in the client's buffer     *)
(* counts as ready until the IO thread submits it to the executor.         *)
Deliver ==
  /\ proc = "running"
  /\ ready # {}
  /\ Cardinality(unacked) < Prefetch
  /\ LET m == Oldest(ready)
     IN /\ ready' = ready \ {m}
        /\ unacked' = unacked \cup {m}
        /\ tasks' = tasks \cup {m}
  /\ UNCHANGED <<next, acked, dropped, proc, attempts, cur, callbacks, faults, repo>>

(* Slip: deliveries acknowledged on arrival, so that none is requeued.     *)
RequeueNothing ==
  /\ unacked' = {}
  /\ UNCHANGED <<next, ready, acked, dropped>>

Requeue ==
  /\ ready' = ready \cup unacked
  /\ unacked' = {}
  /\ UNCHANGED <<next, acked, dropped>>

(* start_consuming raises; callbacks queued on the dead connection never   *)
(* run.                                                                    *)
LoseAmqp ==
  /\ proc \in Connected
  /\ Fault("mqlost")
  /\ proc' = "lost"
  /\ callbacks' = <<>>
  /\ Requeue
  /\ UNCHANGED <<attempts, tasks, cur, repo>>

-----------------------------------------------------------------------------
(* The main thread: run() *)

StartProcess ==
  /\ proc = "down"
  /\ proc' = "postgres"
  /\ UNCHANGED <<broker, attempts, pool, faults, repo>>

ConnectPostgres ==
  /\ proc = "postgres"
  /\ Repo!Connect
  /\ proc' = "rabbitmq"
  /\ attempts' = 0
  /\ UNCHANGED <<broker, pool, faults>>

(* Topology, qos, consumer, signal handlers and the first heartbeat.       *)
ConnectRabbitmq ==
  /\ proc = "rabbitmq"
  /\ proc' = "running"
  /\ attempts' = 0
  /\ UNCHANGED <<broker, pool, faults, repo>>

(* The process and its memory are gone; the broker notices and requeues.   *)
ProcessGone ==
  /\ proc' = "down"
  /\ attempts' = 0
  /\ tasks' = {}
  /\ cur' = [w \in Workers |-> NoFlight]
  /\ callbacks' = <<>>
  /\ Requeue
  /\ Repo!Vanish

(* Slip: no stop_after_attempt.                                            *)
ConnectFailsForEver ==
  /\ proc \in {"postgres", "rabbitmq"}
  /\ Fault("startfail")
  /\ attempts' = attempts + 1
  /\ UNCHANGED <<broker, proc, pool, repo>>

ConnectFails ==
  /\ proc \in {"postgres", "rabbitmq"}
  /\ Fault("startfail")
  /\ IF attempts + 1 < ConnectAttempts
     THEN attempts' = attempts + 1 /\ UNCHANGED <<broker, proc, pool, repo>>
     ELSE ProcessGone

(* Slip: the two answers swapped.                                          *)
AckOrNackSwapped ==
  /\ proc = "running"
  /\ callbacks # <<>>
  /\ LET c == Head(callbacks)
     IN /\ unacked' = unacked \ {c.msg}
        /\ acked' = IF c.ok THEN acked ELSE acked \cup {c.msg}
        /\ dropped' = IF c.ok THEN dropped \cup {c.msg} ELSE dropped
  /\ callbacks' = Tail(callbacks)
  /\ UNCHANGED <<next, ready, proc, attempts, tasks, cur, faults, repo>>

(* Slip: basic_ack with multiple=True acknowledges what was delivered      *)
(* before as well, the messages still being processed included.            *)
AckMultiple ==
  /\ proc = "running"
  /\ callbacks # <<>>
  /\ LET c == Head(callbacks)
         upTo == {m \in unacked : m.fetched_at <= c.msg.fetched_at}
     IN /\ unacked' = unacked \ (IF c.ok THEN upTo ELSE {c.msg})
        /\ acked' = IF c.ok THEN acked \cup upTo ELSE acked
        /\ dropped' = IF c.ok THEN dropped ELSE dropped \cup {c.msg}
  /\ callbacks' = Tail(callbacks)
  /\ UNCHANGED <<next, ready, proc, attempts, tasks, cur, faults, repo>>

(* The IO thread runs one scheduled _ack_or_nack.                          *)
AckOrNack ==
  /\ proc = "running"
  /\ callbacks # <<>>
  /\ LET c == Head(callbacks)
     IN /\ unacked' = unacked \ {c.msg}
        /\ acked' = IF c.ok THEN acked \cup {c.msg} ELSE acked
        /\ dropped' = IF c.ok THEN dropped ELSE dropped \cup {c.msg}
  /\ callbacks' = Tail(callbacks)
  /\ UNCHANGED <<next, ready, proc, attempts, tasks, cur, faults, repo>>

(* The timer on the IO thread touches the heartbeat file, whatever the     *)
(* workers are doing.                                                      *)
Healthy == proc = "running"
Heartbeat == Healthy /\ UNCHANGED vars

(* SIGTERM: stop_consuming() ends the IO loop.                             *)
Stop ==
  /\ proc = "running"
  /\ Fault("stop")
  /\ proc' = "draining"
  /\ UNCHANGED <<broker, attempts, pool, repo>>

(* executor.shutdown(wait=True) returns, both connections are closed and   *)
(* the process ends.  Callbacks scheduled since the loop stopped are lost. *)
Exit ==
  /\ proc \in {"draining", "lost"}
  /\ tasks = {}
  /\ \A w \in Workers : cur[w] = NoFlight
  /\ ProcessGone
  /\ UNCHANGED faults

Crash ==
  /\ proc # "down"
  /\ Fault("crash")
  /\ ProcessGone

-----------------------------------------------------------------------------
(* A worker thread: _process_message *)

(* Slip: the task stays in the executor's queue.                           *)
TakeAndLeave(w) ==
  /\ cur[w] = NoFlight
  /\ tasks # {}
  /\ cur' = [cur EXCEPT ![w] = Oldest(tasks)]
  /\ UNCHANGED <<broker, proc, attempts, tasks, callbacks, faults, repo>>

Take(w) ==
  /\ cur[w] = NoFlight
  /\ tasks # {}
  /\ LET m == Oldest(tasks)
     IN /\ tasks' = tasks \ {m}
        /\ cur' = [cur EXCEPT ![w] = m]
  /\ UNCHANGED <<broker, proc, attempts, callbacks, faults, repo>>

(* get_weather returned a reading or None; upsert_flight is called.        *)
Enrich(w) ==
  /\ cur[w] # NoFlight
  /\ Repo!Enter(w, cur[w])
  /\ UNCHANGED <<broker, proc, attempts, pool, faults>>

(* Slips: a failure schedules nothing; the callback is scheduled twice.    *)
AnswerSuccessOnly(w, ok) ==
  /\ cur' = [cur EXCEPT ![w] = NoFlight]
  /\ callbacks' = IF proc \in Connected /\ ok
                  THEN Append(callbacks, [msg |-> cur[w], ok |-> ok])
                  ELSE callbacks
  /\ UNCHANGED <<broker, proc, attempts, tasks>>
AnswerTwice(w, ok) ==
  /\ cur' = [cur EXCEPT ![w] = NoFlight]
  /\ callbacks' = IF proc \in Connected
                  THEN callbacks \o << [msg |-> cur[w], ok |-> ok], [msg |-> cur[w], ok |-> TRUE] >>
                  ELSE callbacks
  /\ UNCHANGED <<broker, proc, attempts, tasks>>

(* add_callback_threadsafe raises once the connection is closed, and the   *)
(* exception ends up in a future nobody reads.                             *)
Answer(w, ok) ==
  /\ cur' = [cur EXCEPT ![w] = NoFlight]
  /\ callbacks' = IF proc \in Connected
                  THEN Append(callbacks, [msg |-> cur[w], ok |-> ok])
                  ELSE callbacks
  /\ UNCHANGED <<broker, proc, attempts, tasks>>

(* Parsing or get_weather raised before the repository was called.         *)
EnrichFails(w) ==
  /\ cur[w] # NoFlight
  /\ call[w] = "idle"
  /\ Fault("enrich")
  /\ Answer(w, FALSE)
  /\ UNCHANGED repo

(* Slip: acknowledged whatever upsert_flight did.                          *)
FinishAlwaysOk(w) ==
  /\ Repo!Return(w)
  /\ Answer(w, TRUE)
  /\ UNCHANGED faults

Finish(w) ==
  /\ Repo!Return(w)
  /\ Answer(w, call[w] = "ok")
  /\ UNCHANGED faults

StoreStep(w) ==
  /\ Repo!Step(w)
  /\ UNCHANGED <<broker, proc, attempts, pool, faults>>

StoreFails(w) ==
  /\ \/ Fault("dberror") /\ (Repo!BindFails(w) \/ Repo!StatementFails(w))
     \/ Fault("dblost") /\ Repo!CommitUnanswered(w)
  /\ UNCHANGED <<broker, proc, attempts, pool>>

LosePostgres ==
  /\ Fault("dblost")
  /\ Repo!Disconnect
  /\ UNCHANGED <<broker, proc, attempts, pool>>

WorkerStep(w) == Take(w) \/ Enrich(w) \/ StoreStep(w) \/ Finish(w)

-----------------------------------------------------------------------------

Next ==
  \/ \E a \in Aircraft : Publish(a)
  \/ Deliver \/ AckOrNack \/ LoseAmqp
  \/ StartProcess \/ ConnectPostgres \/ ConnectRabbitmq \/ ConnectFails
  \/ Heartbeat \/ Stop \/ Exit \/ Crash
  \/ \E w \in Workers : WorkerStep(w) \/ EnrichFails(w) \/ StoreFails(w)
  \/ LosePostgres

Spec == Init /\ [][Next]_vars

(* The IO loop and the threads keep running, the connects succeed in the   *)
(* end, and Compose restarts the process (restart: unless-stopped).  That  *)
(* a thread inside a statement goes on is an assumption on PostgreSQL and  *)
(* the network: psycopg.connect sets no timeout, so each statement must be *)
(* answered or its connection break.  The faults and the publisher owe     *)
(* nothing.                                                                *)
Fairness ==
  /\ WF_vars(StartProcess)
  /\ WF_vars(ConnectPostgres)
  /\ WF_vars(ConnectRabbitmq)
  /\ WF_vars(Deliver)
  /\ WF_vars(AckOrNack)
  /\ WF_vars(Exit)
  /\ \A w \in Workers : WF_vars(WorkerStep(w))

FairSpec == Spec /\ Fairness

-----------------------------------------------------------------------------
(* Who has what *)

Published == ready \cup unacked \cup acked \cup dropped
Held      == {cur[w] : w \in Workers} \ {NoFlight}
Answered  == {callbacks[i].msg : i \in DOMAIN callbacks}

(***************************************************************************)
(* The broker never forgets or forks a message on its way through          *)
(* deliveries, acks, nacks, lost connections and crashes: each published   *)
(* message is in exactly one place.                                        *)
(***************************************************************************)
MessagesConserved ==
  /\ \A s \in Stamps : s < next <=> \E m \in Published : m.fetched_at = s
  /\ \A m, n \in Published : m.fetched_at = n.fetched_at => m = n
  /\ ready \cap unacked = {}
  /\ (ready \cup unacked) \cap (acked \cup dropped) = {}
  /\ acked \cap dropped = {}

(***************************************************************************)
(* While the connection is open, every unacknowledged message is waiting   *)
(* in the executor, held by a worker, or on its way back as a callback:    *)
(* none can hang in the prefetch window with nobody left to answer it.     *)
(***************************************************************************)
WindowAccounted == proc \in Connected => unacked = tasks \cup Held \cup Answered

(***************************************************************************)
(* ... and it has one owner only, so no delivery is processed or answered  *)
(* twice (a second ack of one delivery tag closes the channel).            *)
(***************************************************************************)
OneOwner ==
  /\ tasks \cap Held = {}
  /\ (tasks \cup Held) \cap Answered = {}
  /\ \A v, w \in Workers : cur[v] = cur[w] => v = w \/ cur[v] = NoFlight
  /\ \A i, j \in DOMAIN callbacks : callbacks[i].msg = callbacks[j].msg => i = j

(***************************************************************************)
(* A message leaves the queue as processed only after both tables have it  *)
(* durably, through every crash, lost connection and shutdown.             *)
(***************************************************************************)
AckedWasStored == \A m \in acked : db.history[m] > 0

(***************************************************************************)
(* Redelivery is the only source of duplicates: without a fault a message  *)
(* is stored at most once, and each fault adds at most one more row.       *)
(***************************************************************************)
DuplicatesNeedFaults == \A m \in Message : db.history[m] <= faults + 1

(***************************************************************************)
(* Broker, threads and repository together are a queue in front of the     *)
(* tables: whatever is redelivered, overtaken, refused or cut off, a       *)
(* message is stored whole or not at all, only after it was published, and *)
(* settled only after it was stored.                                       *)
(***************************************************************************)
ImplementsQueue == Queue!Spec

(***************************************************************************)
(* Nothing published is ever lost (README.md:49, "either side can be down  *)
(* or slow without losing data").                                          *)
(***************************************************************************)
NothingDropped == dropped = {}

(***************************************************************************)
(* flights is the current snapshot (db/init.sql:5): once everything has    *)
(* been processed, an aircraft's row is its newest observation.            *)
(***************************************************************************)
SnapshotIsLatest ==
  ready \cup unacked = {} =>
    \A m \in acked : db.flights[m.icao24].fetched_at >= m.fetched_at

(***************************************************************************)
(* A failure costs the message it happened to ("Failed to process message; *)
(* dropping it", consumer/main.py:121) and no other.                       *)
(***************************************************************************)
FailureCostsOneMessage == Cardinality(dropped) <= faults

(***************************************************************************)
(* Every message in the queue is stored in the end or was rejected,        *)
(* however often the process is stopped, killed or cut off from the broker *)
(* on the way, and whatever the database does under it: none is left with  *)
(* a worker, in a callback or in the queue for ever.                       *)
(***************************************************************************)
EveryMessageStored ==
  \A m \in Message : m \in ready ~> db.history[m] > 0 \/ m \in dropped

(***************************************************************************)
(* A shutdown, or a lost connection, ends the process: executor.shutdown   *)
(* never waits for a worker that waits for ever, not even for the lock of  *)
(* a thread whose statement raised or whose connection is gone.            *)
(***************************************************************************)
DrainEnds == proc \in {"draining", "lost"} ~> proc = "down"

(***************************************************************************)
(* A consumer that can no longer store anything does not stay healthy: the *)
(* heartbeat is touched "on every successful work cycle"                   *)
(* (common/heartbeat.py:5, README.md:141-142).                             *)
(***************************************************************************)
BrokenTurnsUnhealthy == (Healthy /\ conn = "closed") ~> ~Healthy

=============================================================================
