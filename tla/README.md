# A verification of the flight data hub

TLA+ models of the services that carry flights from OpenSky into PostgreSQL,
the TLC runs that check them and theorems checked by TLAPS. Paths are relative
to the repository's root; the Python sources are under `src/`.

## 1. The system

| Component | State it keeps | Operations | Interacts with |
|---|---|---|---|
| Ingestion loop (`src/ingestion/main.py`, `opensky_client.py`) | `_shutdown_requested`, the cycle under way | poll, publish each state, touch the heartbeat, sleep, stop | OpenSky over HTTP; calls the publisher |
| Token cache (`src/ingestion/opensky_auth.py`) | `_token`, `_expires_at` | `get_token`, `_fetch_token` | called by each poll; token server over HTTP |
| Publisher (`src/ingestion/publisher.py`) | `_connection`, `_channel` | `connect` (10 attempts), `publish` (reconnect, second attempt), `close` | RabbitMQ |
| RabbitMQ (external) | one durable queue, unacknowledged deliveries | take, deliver, ack, nack, requeue | publisher and consumer |
| Consumer process (`src/consumer/main.py`) | IO thread, executor of 8 threads, scheduled callbacks, prefetch window of 40 | deliver, process, ack or nack, heartbeat timer, stop, exit | RabbitMQ; weather client; repository |
| Weather client (`src/consumer/weather.py`) | `_cache` under `_cache_lock` | `get_weather` | called by all worker threads; Open-Meteo over HTTP |
| Repository (`src/consumer/db.py`, `db/init.sql`) | one connection under `_lock`; tables `flights`, `flight_history` | `connect`, `upsert_flight`, `close` | called by all worker threads; PostgreSQL |
| Dashboard (`src/dashboard/app.py`) | `session_state`, the script's run under way, the live fragment's timer | sign in, redraw the map, three button panels | reads PostgreSQL; calls the AI layer |
| AI layer (`src/ai`) | none | summary, anomaly rules, text to SQL, providers with a fallback | called by the panels; LLM APIs; PostgreSQL |
| Models, configuration, logging, heartbeat (`src/common`) | none | parse, convert, touch a file | everyone |

What is hard here: eight threads share one database connection and one weather
cache; only the IO thread may touch the channel, so acks are scheduled from
other threads onto a loop that may have ended; redelivery makes every step
repeatable; connections break between a commit and its answer; the publisher
uses no confirms; processes are stopped, killed and restarted. The dashboard
reads what they write in several short connections, its script can be
interrupted and restarted by any click while a timer redraws part of the page,
and each of its calls to PostgreSQL or to an LLM may fail.

What makes each component correct:

- *Repository*: an upsert is one indivisible step; a failure leaves nothing
  behind that another thread might commit.
- *Consumer*: a message leaves the queue as processed only after it is stored,
  and unprocessed only after a failed call; no slot of the prefetch window leaks
  and none is answered twice; a stop ends.
- *Weather client*: no reading older than the TTL, none for another cell.
- *Publisher*: one fault of a kind it catches does not cost a publish; at most
  one duplicate; no error it has seen is swallowed; no send on an outdated
  channel; connections it forgets do not pile up.
- *Ingestion loop*: healthy only after whole cycles; only a signal ends it, and
  a signal does end it.
- *Token cache*: a token served from the cache outlives the request it is for.
- *Dashboard and AI layer*: an aircraft that left leaves the map; what two reads
  return fits together; a vendor's outage costs no panel; the quota is spent on
  clicks of authenticated sessions only.

## 2. Modules

| Module | Models | Uses |
|---|---|---|
| `FlightTables` | the two tables, the two statements and their combination | |
| `FlightStore` | what `upsert_flight` promises: the abstract specification | extends `FlightTables` |
| `FlightRepository` | `FlightRepository`, statement by statement | extends `FlightTables`; `Store == INSTANCE FlightStore` for the refinement |
| `FlightQueue` | what queue, consumer and tables promise to whoever reads the tables: the abstract specification | extends `FlightTables` |
| `Consumer` | `run()` of the consumer, its threads, the queue | `Repo == INSTANCE FlightRepository`; every store goes through its actions. `Queue == INSTANCE FlightQueue` for the refinement |
| `WeatherCache` | `WeatherClient.get_weather` | |
| `Publisher` | `RabbitMQPublisher` | |
| `Ingestion` | `run()` of ingestion, `fetch_states` | `Pub == INSTANCE Publisher`; every publish goes through its actions |
| `OpenSkyAuth` | `OpenSkyAuth` | |
| `LLMProvider`, `TextToSQL`, `Anomalies` | operators: which vendors a call tries, which queries are accepted, what is flagged | |
| `Dashboard` | a session of `app.py`, and `summary.py` | extends the three and `FlightTables`; `Queue == INSTANCE FlightQueue` fills its tables |
| `MC...` | instances for TLC: one bound on rows, the fixes of the observations, runs in which the database serves every call | extend their component |
| `...Proofs` | theorems | extend their component |

Definitions introduced as *Slip* are mistakes the code does not make (a dropped
guard, a missing reset, an off-by-one). No specification uses them: each one
can be put in the place of the action it imitates to see that a property of the
runs below notices it. `PROJECT.json` says which slip belongs to which property
and which source lines each definition stands for.

### How state and actions correspond to the code

**FlightRepository.** `conn` is psycopg's transaction status of `self._conn`
(`none` before `connect()`, `closed` when it is gone). `lock` is `self._lock`,
`call[w]` the point of thread `w` inside `upsert_flight`, `work` the tables as
the open transaction sees them, `db` the committed ones. `Acquire`, `Upsert`,
`Insert`, `Commit` are the four steps of the `with` block; `BindFails` (the
client cannot convert a parameter), `StatementFails` (the server rejects),
`RefusedInError` (the transaction is already aborted), `UseClosed`,
`AcquireClosed` and `CommitUnanswered` are the exceptions it may raise, all of
which release the lock and none of which rolls back. The server may reject the
COMMIT as well; it has then ended the transaction. `Vanish` is the end of the
process; a COMMIT under way may or may not be executed then. `flights` holds
one observation per aircraft, `flight_history` counts rows per observation;
the columns that follow from the observation are left out.

**Consumer.** `ready`, `unacked`, `acked`, `dropped` are the broker's view of
each message. `proc` says where `run()` is. `tasks` is the executor's queue,
`cur[w]` the message of thread `w`, `callbacks` what
`add_callback_threadsafe` has scheduled. `Deliver` is the broker's delivery and
`on_message` in one step: until the IO thread submits it, a delivery in the
client's buffer counts as ready (it has the same fate if the connection ends).
`Take`, `Enrich`, `StoreStep`, `Finish` are `_process_message`;
`Answer` is the scheduling of its ack or nack, which raises, unnoticed, when the
connection is closed. `Stop` is the signal; `Exit` is `executor.shutdown`, both
`close()` calls and the end of the process in one step, since nothing but the
end follows the last worker. That callbacks scheduled after the loop ended are
never run rests on pika: `close()` flushes the connection and does not dispatch
events. `fetched_at` numbers the messages in the order of the queue.
`Heartbeat` is a step without effect on the rest: it is there because a
consumer with nothing to do is alive, not deadlocked, and its being enabled is
what the health check sees.

**FlightQueue.** Consumer implements it with `pending <- ready \cup unacked` and
`settled <- acked`. A message may be stored in any state, even after it was
settled or dropped: a worker may still hold a copy whose delivery is void. The
dashboard then reads tables that do whatever `FlightQueue` allows, the
consumer's lag included, without a model of the consumer.

**WeatherCache.** `pc[t]` walks through `get_weather`: the read under the lock,
the unlocked request with up to three attempts, the write under the lock.
A reading is identified by its cell and by the time the server gave it
(`seen`), which the code does not keep and the properties need. `Tick` may
happen anywhere, so a request may take any time. `GridKey` is `_grid_key` along
one coordinate, the two being rounded independently: to the nearest multiple of
the cell width, an exact half to the even one. The second `round(..., 4)`, which
hides the error of the multiplication, is left out.

**Publisher.** `conn` and `chan` are what pika believes of `_connection` and
`_channel`, `far` the channel at the broker's end: open, closed by the broker,
or gone with the link. pika reads what the broker sends only inside its own
calls, so `CloseChannel` and `LoseLink` change `far` alone. `pub` says where the
call under way is: in one of the three places `connect()` is called from, at the
first or the second send, or returned: `ok`, `failed` (one of the errors
`publish` catches left it) or `chanclosed` (a `ChannelClosedByBroker`, which it
does not catch). A write whose far end is not open may return normally and be
discarded (`SentIntoTheVoid`); it may raise because the link is dead
(`SendRaises`) or because it made pika read the channel's closing
(`SendMeetsClose`); after that the channel is known to be closed and the next
write raises the `ChannelWrongStateError` that `publish` catches
(`SendOnClosedChannel`). A write that raises may have been received
(`SendTakenRaises`). Two numbers the code does not keep: `unclosed` counts the
open connections that `connect()` has overwritten, which nothing closes before
the process ends; `since` counts the faults since the publisher was last known
whole, by a send that was taken or a fresh connection.

**Ingestion.** `stage` is the place in `run()`; `polled`, `states`, `sent` are
this cycle's aircraft, the ones left to publish and the messages for which
`publish` has returned. `Signal` sets the flag at any moment; `Loop` is the
`while` condition, the only place it is read.

**OpenSkyAuth.** The server issues a token between `Ask` and `Arrive` and the
token's life begins then; the expiry is computed from the clock at `Arrive`.
A request takes at most `Latency`. The answer may leave out `expires_in`
(`ExpiresIn` gives the default), carry a null token, which is stored and returned
like any other (`Arrive`), or none at all (`ArriveMalformed`: the new expiry is
already assigned when the `KeyError` is raised). Lives and default are any
numbers, so a token may live shorter than the buffer or than the default says.
`own` is history: the expiry was stated for the token it is kept with. Time does
not pass between the assignment and the return. Without credentials `get_token`
returns None at once and keeps no state: that case is left out.

**Dashboard.** `pc` is the place in `main()` or how the run ended: `idle` (to
its end), `nodb` (the live panel could not read), `pgerror`, `llmerror` and
`keyerror` (an uncaught exception of PostgreSQL, of a vendor, of pandas). `Run`
is the script from the top; `click` the button it is for. Streamlit stops a run
at the next call into it when somebody clicks: `Click` and `Close` are possible
in `Yields`, the places where the script makes such a call. `Refresh` is the
fragment alone, run by its timer after the script is over. The summary, anomaly
and question panels are `FetchSummary`; `FetchSnapshot`, `FetchHistory`,
`Report`; and `RunQuery` between two completions, `EndQuery` after them.
`Complete` is one vendor's answer to the `complete()` under way, `todo` the
vendors it may still try. `PanelFails` is any other error: the question panel
catches it, the others end the run. After a run that failed in a panel the page
keeps the buttons down to that panel's own (`Remaining`). A query is what
sqlparse finds in its text and, apart from that, what PostgreSQL does with it
(`TextToSQL!Query`): `Accepted` sees only the former. What an accepted query has
written is rolled back when the script is interrupted or the block raises, and
committed when the block of the connection ends normally (`EndQuery`); a write
is taken to empty the history or both tables. `written` remembers it. Whoever
has no provider sees no button but "Detect anomalies" (`Click`). `fetched_at`
and `updated_at` are on one clock; `Store` sets `touched` however old the
observation is.

**Anomalies.** Both rules, over integers. Positions are kilometres along a
meridian. A radius and a standard deviation are compared after multiplying by the
number of points, so nothing is rounded. `rows` is a count per observation, as
in `flight_history`: a repeated row is a repeated point.

## 3. Runs

| Run | Question | Bounds | States |
|---|---|---|---|
| `repository` | Is an upsert atomic whatever fails? Does it implement `FlightStore`? | 2 threads, 2 aircraft, each observation stored at most `MaxRows` times | 11 thousand |
| `consumer` | Conservation, window, owners, at-least-once, duplicates, drops. Is every message stored or dropped in the end? Does a stop end? Does it all implement `FlightQueue`? | 2 workers, 1 aircraft, prefetch 2, 3 messages, 3 faults of 7 kinds, with the database failing at will and with it serving every call | 257 thousand |
| `weather` | Are readings fresh and from nearby? Does every lookup return? | 2 threads, 2 cells 4 wide, positions exactly between them and beside that, TTL 2, 2 attempts, clock to 3 | 629 thousand |
| `ingestion` | What does a publish survive, duplicate, lose, leave open? What does the heartbeat mean? Does a signal end the process? | 2 aircraft, 3 messages, 2 attempts, 3 faults of 7 kinds | 182 thousand |
| `auth` | Does a cached token outlive its request? | lives 2 and 5, default 6, buffer 3, latency up to 2, clock to 15 | 79 thousand |
| `dashboard` | Do the panels read what fits together? What do clicks, failures and proposed queries cost? Do ghosts vanish? | 1 aircraft, age limit 1, lookback 3, clock to 3, 2 observations of up to 2 rows, every set of keys, any number of clicks and failures | 676 thousand |

Why the bounds are enough: each hazard of the shared connection, the window and
the cache needs two threads; redelivery while an old copy is in process needs
one message and one lost connection, overtaking needs two messages of one
aircraft, and a third message and a third fault let a failure follow a recovery
from another. A second aircraft would only give the statements, which touch one
aircraft each, fewer rows in common; `repository` has two. Three faults of the
publisher cover a failed first attempt, a failed reconnect and a failed second
attempt, and a fault after another one was survived. The clocks run past a
whole lifetime, so that entries and tokens expire and are renewed; in `auth` one
life is shorter than the buffer and both are shorter than the default. In
`dashboard` one aircraft is enough, as no panel compares two; its fixes
(`MCDashboard`) are such that repeated rows of one or two observations meet the
number of points and the radius, so that the spread of headings decides, either
way. The clock runs past both limits; clicks and failures are not bounded. No run
uses symmetry. Deadlock is checked in every run.

### What the code does not keep

These runs end in a counterexample to something the repository says of itself.

| Run | Said | What happens |
|---|---|---|
| `auth_split` | "Return a valid bearer token" (`src/ingestion/opensky_auth.py:47`) | an answer without `access_token` sets the expiry (74) before it raises (76); the old token is served from the cache after it has expired, until the new expiry |
| `consumer_reordered` | `flights` is the "Current snapshot" (`db/init.sql:5`) | two workers store two observations of one aircraft in the wrong order, no fault needed; the upsert does not compare `fetched_at` |
| `consumer_db_fault` | "dropping it" (`src/consumer/main.py:121`), one message | without a rollback the aborted transaction refuses every later message, and a lost connection is never reopened: each one is rejected without requeue, although "either side can be down or slow without losing data" (`README.md:49`) |
| `consumer_health` | the heartbeat means "every successful work cycle" (`src/common/heartbeat.py:5`) | the timer touches it while nothing can be stored |
| `dashboard_empty` | "No aircraft with a known position to display." (`src/dashboard/app.py:161`) | without current flights the frame has no columns, `dropna` (159) raises a `KeyError`, nobody catches it, and the page ends there, panels included |
| `ingestion_silent_loss` | "persisted to disk by the broker" (`src/ingestion/publisher.py:67`) | without confirms a write into a dead link, or to a channel the broker has closed and pika has not read of, returns normally |

The models also show behaviours that no run is spent on. On SIGTERM the IO loop
ends before the workers do, their acks are lost and the messages stored again
(`Exit`). Threads that miss one cell together each request it (`ReadMiss`). A
malformed weather body leaves `get_weather` as an exception, and the flight is
dropped (`HttpMalformed`). A channel closed by the broker costs the publish that
reads of it (`SendMeetsClose`): `ChannelClosedByBroker` is not among the errors
`publish` catches, and `SingleFaultSurvived` does not speak of it. A null token
is returned as if it were one (`Arrive`), and a token whose lifetime the server
did not state may expire before the default says (`ExpiresIn`). A query that
sqlparse takes for a harmless SELECT is executed and committed whatever
PostgreSQL makes of it (`EndQuery`). Two observations that redelivery stored
twice each are the four points of a holding pattern, though the two alone are
not (`Holding`). A body that is no JSON and a null text raise errors that
`FallbackLLMProvider` does not catch, although they are an "unexpected response
shape" (`src/ai/llm_provider.py:98-99`): `Falls` leaves out `other`, and
`OutageSurvived` says so. With the key of the other vendor alone there is no
provider (`Chain`), although the panels ask for either key
(`src/dashboard/app.py:210`). A live panel that fails in a timer's run has no
handler (`Refresh`). Headings around due north spread like a holding pattern's
(`Turns`). The prompt speaks of "currently tracked aircraft"
(`src/ai/anomalies.py:40`) and the holding rule looks at every aircraft of the
last twenty minutes (`NothingFlagged`).

### Fairness

`Consumer` assumes weak fairness of the IO loop (`Deliver`, `AckOrNack`), of
each worker's own steps, of `Exit`, of the connects and of the restart. The
threads are preemptive, a waiting thread gets a lock that was released
(`DrainEnds` checks that it is, through every fault), requests to the weather
service end by the client's timeout, and Compose restarts the process (`restart:
unless-stopped`). That each statement is answered, or its connection breaks, is
an assumption on PostgreSQL and the network: neither `psycopg.connect`
(`src/consumer/db.py:95`) nor the DSN (`src/common/config.py:82-86`) sets a
timeout, and where a statement waits for ever, so do the lock and a shutdown.
Faults and the publisher are owed nothing, and their number is bounded.
`WeatherCache` assumes that threads run and requests end by the client's 15
seconds; `Ingestion` that its only thread runs and its calls into pika end,
although `blocked_connection_timeout` is not set: a broker that blocks its
publishers blocks the loop. In `WeatherCache` a request may fail any number of
times up to the limit; in `Ingestion` every poll may fail. `Dashboard` assumes
that a run goes on until it is over (`ScriptStep`: a vendor's call has a
timeout, PostgreSQL is assumed to answer or to refuse) and that the browser's
timer keeps firing (`Refresh`); a user need never click.

## 4. Proofs

Theorems hold for every value of the constants that satisfies the `ASSUME`s;
these only say that numbers are numbers, that attempts and prefetch are at
least one, that the null values are none of the values they stand in for, that
a poll sees finitely many aircraft (`IngestionAssumption`), that the grid has a
cell for every position (`GridAssumption`: a set given explicitly only so that
TLC can run; the integers satisfy it), that the dashboard's observations are
stamped by its clock and each have a position (`DashboardAssumption`), that
headings are integers and the thresholds of the rules natural numbers
(`AnomaliesAssumption`). Three theorems say under which further
hypothesis something holds that fails without it: `OneWorkerKeepsOrder`
(`SingleWorker`, a pool of one thread), `DrainNeverStalls` (a pool of at least
one) and `NoSilentLoss` (`NothingUnread`: no link dies and no channel is closed
by the broker without pika reading of it before its next write; every other fault
stays possible).

| Module | Theorems |
|---|---|
| `FlightTablesProofs` | lemmas only: what the two statements do to both tables |
| `FlightRepositoryProofs` | `TypeCorrect`; `MutualExclusion` (`OneTransaction`); `NothingLeftBehind` (`NoResidue`); `CommitsOwnWork` (`OwnWritesOnly`); `SnapshotAndHistoryAgree` (`SnapshotFromHistory`); `Atomic` (`Spec => ImplementsStore`); `EveryCallEnds` |
| `ConsumerProofs` | `TypeCorrect`; `Conservation` (`MessagesConserved`); `WindowNeverLeaks` (`WindowAccounted`); `AnsweredOnce` (`OneOwner`); `AckedMeansStored` (`AckedWasStored`); `FaultsBoundDuplicates` (`DuplicatesNeedFaults`); `OnlyTheDatabaseDrops` (`NothingDropped` unless the database fails); `RefinesQueue` (`ImplementsQueue`); `OneWorkerKeepsOrder`; `DrainIsShort`; `DrainNeverStalls` |
| `WeatherCacheProofs` | `TypeCorrect`; `EntriesExpireInTime` (`EntriesHonest`); `ReadingsAreFresh` (`ServedFresh`); `ReadingsAreNear` (`ServedNearby`); `LookupsAreShort`; `OneCellEach` |
| `OpenSkyAuthProofs` | `TypeCorrect`; `TokensOutliveRequests` (`TokenOutlivesRequest`) |
| `IngestionProofs` | `TypeCorrect`; `OneChannelAtATime` (`SendsOnCurrent`); `SecondAttemptSuffices` (`SingleFaultSurvived`); `ForgottenAreFew` (`ForgottenNeedFaults`); `NoThirdCopy` (`TwoCopiesAtMost`); `NoKnownLoss` (`LostOnlyUnnoticed`); `HeartbeatsAreHonest` (`BeatsAfterWholeCycle`); `ErrorsNeverStop` (`OnlySignalStops`); `NoSilentLoss`; `SignalIsObeyed` |
| `DashboardProofs` | `TypeCorrect`; `QuotaIsGuarded` (`QuotaGuarded`); `OneOutageIsSurvived` (`OutageSurvived`); `SnapshotHasItsHistory` (`SnapshotCovered`) |
| `AnomaliesProofs` | `HoldingTurns`; `TwoHeadingsTurn` |

*Repository.* The inductive invariant adds to the types that a thread inside a
call has an observation to store (`ArgOK`), mutual exclusion, that a free lock
means no uncommitted writes, and that an open transaction holds exactly its own
thread's statements. The last one gives the refinement: at `Commit` the
committed tables become the old ones with both statements applied, which is
`FlightStore`'s single step; every other step is a call, a return or a stutter.
`SnapshotFromHistory` follows because only whole upserts reach `db`.

*Consumer.* Every step is a step of the repository or leaves its variables
alone (`NextRefines`), so the repository's invariant and the fact that an
`ok` call is committed (`OkIsStored`) carry over. The invariant adds that a
thread inside the repository stores the message it is processing (`CallsOK`),
which parts of the memory are empty in which state of the process
(`MemoryOK`), and that every scheduled ack is of a stored message
(`StoredOK`). Conservation needs the window's accounting, because an ack must
be of an unacknowledged message; the accounting needs conservation, because a
delivered message must be new to the process; both are therefore carried in one
invariant. That `Oldest` picks a member of its set uses that the natural
numbers are well founded. For the refinement of `FlightQueue` each step is split
into what it does to the broker (`BrokerSteps`) and to the tables
(`TableSteps`): at most one of the two is more than a stutter, and whatever a
worker holds was published (`KnownOK`). `NothingDropped` holds while no call in
the process has failed and no scheduled answer is a rejection (`Smooth`), which
only the three database faults end. `DuplicatesNeedFaults` is not inductive:
`Counted` charges each message its rows plus one for a copy that is waiting or
on the way to its COMMIT, against the faults plus one. A redelivery adds a copy
and takes a fault; a commit turns a copy into a row.

*Weather.* The invariant says of each thread between read and write that what it
is about to store is for its cell and not older than the start of its call
(`InFlight`). `ServedNearby` then follows from the cell of a position being no
further than half its width (`GridKeyNear`).

*Tokens.* The invariant relates the cached expiry to the moment the server
stops accepting the token, as long as the server stated the one for the other
(`ExpiryOK`), and a request under way to the time it was sent (`RequestOK`): the
token was issued after that and no more than `Latency` before its arrival.
`auth_split` shows why `own` is needed.

*Ingestion.* The invariant has a part per question: where the publisher's call
is, given the loop's place (`CallOK`); which of connection and channel can be
closed at that point (`LinkOK`); that whatever is wrong with them took a fault
since they were last whole, and after the reconnect another one (`FaultsOK`, where
`Stale` charges an open connection with a closed channel, the one that will be
forgotten); that a
message is not in the queue before its first attempt (`CopiesOK`); and that
every polled aircraft is still to come, under way or sent (`CycleOK`).

*Dashboard.* The invariant says which button a place of the script belongs to and
that only an authenticated session gets there (`RunOK`), that calls made and
calls left stay within one per key and completion (`CallsOK`), that every vendor
with a key is yet to be tried or has failed (`TriedOK`), and that the snapshot
was read with its rows in the history (`ReadOK`): stores only add rows, and the
tables agree with each other because `FlightQueue` stores whole messages, until a
query has written (`written`).

*Order.* Two workers can overtake each other (`consumer_reordered`); one cannot.
`SingleWorker` restricts the pool alone: faults, restarts and redelivery stay.
`OrderOK` says that everything happens in the order of publication: what is
acknowledged is no newer than what is delivered, that no newer than what is
ready, and inside the process callbacks, message in hand and tasks follow each
other the same way. A redelivered message goes back to its place in the queue
(`Oldest`), which keeps this across a lost connection. `FreshOK` says that the
snapshot is as new as anything acknowledged or about to be, because what is
stored again after a redelivery is stored before anything later is acknowledged.

*Holding patterns.* `HoldingTurns` is about sums over any finite number of points.
The sums are folds, so there is no induction theorem to cite: a smallest set for
which a bound on the sum fails is shown not to exist. With n points, sum t and sum
of squares q, a variance of at least d squared is `n * q - t * t >= d * d * n * n`,
and headings within less than 2d of each other cannot reach that.
`TwoHeadingsTurn` is the converse for evenly divided points: with the limit of 60
degrees, the two headings 359 and 1 of a flight that keeps straight north are a
turn, the price of what the comment above `pstdev` calls "good enough"
(`src/ai/anomalies.py:126-129`), and so are two such observations of any flight
that redelivery has repeated equally often.

*Why things end.* Liveness is out of the prover's reach, since it rests on
fairness and on ENABLED. What it rests on besides can be proved for every value
of the constants: that somebody can always move and that moves run out.

- `EveryCallEnds`: where the holder of the repository's lock is, the connection is
  in a state in which its next statement runs or raises (`HolderOK`), so whoever
  waits for the lock waits for a thread that can move (`NobodyStuck`); and each
  step of a call lessens the statements it still has to go through, `CallLeft`,
  and nobody else's (`CallsRunOut`).
- `DrainIsShort`, `DrainNeverStalls` for `DrainEnds`: executor and workers
  hold at most `Prefetch` messages (`WindowFits`, from `WindowAccounted`), each
  with at most seven steps ahead of it; every step of a worker takes one away and
  only `Deliver` adds any. As long as there are steps some worker can take one:
  where all wait, the lock's holder does not.
- `LookupsAreShort` for `LookupReturns`: `Attempts` requests and three steps
  around them.
- `SignalIsObeyed` for `ShutdownEnds`: once the flag is set, `ToGo` counts what
  may still come before the `while` condition is next read: the poll's attempts,
  then for each aircraft left a publish with two rounds of connecting. It is at
  most 7 + n * (4 + 2c) + p + 2c for n aircraft, c connect and p poll attempts.
  Each step of the loop or the publisher lessens it, and no fault adds to it.

`MayGo` and `MayWork`, which stand for "can take a step" in these theorems, are
written as state predicates, because the prover does not treat ENABLED; on the
small instances TLC found them equivalent to ENABLED of the steps they name (no
run keeps that comparison).

*Silent loss.* `SentIsQueued` fails in `ingestion_silent_loss`. `NoKnownLoss` says
that no error which has come up is swallowed; what is lost behind a normal return was
written to a link or a channel whose end had not been read. `LiveOK` shows these two
to be the only ways: under `NothingUnread` a message is in the queue once
`publish` has returned, through refused connects, rejected declarations, broken
connects and lost answers. Only a broker's confirmation could tell them apart
from a success.

`ServedMeansNothingDropped` is `NothingDropped` in behaviours where the database
and the weather service serve every call; `OnlyTheDatabaseDrops` has it until
the first call fails. `NoResidue` and `EntriesHonest` are parts of these
invariants and are checked by no run: `OwnWritesOnly` and `ServedFresh` are what
they are for. `SnapshotIsLatest` and `SentIsQueued` are checked by runs in which
they fail. What `AnomaliesProofs` shows is about an operator, for any number of
points; the runs reach it through `Report`.

Only model-checked: every liveness property (`EveryMessageStored`, `DrainEnds`,
`LookupReturns`, `ShutdownEnds`, `GhostsVanish`), since the prover does not treat
fairness; the bounds above are the parts of the argument it does. Every invariant and
every refinement a passing run checks has a theorem.

## 5. Not modelled

- Configuration, logging, Dockerfiles, CI and deployment scripts: constants and
  surroundings of the models. Rendering of the dashboard: output only.
- `StateVector.from_array`: a malformed vector is an aircraft missing from a poll.
- The averages of the situational summary; prompts, answers and payloads.
- Text to SQL's row limit (`_ensure_row_limit`): a LIMIT in a subquery counts as
  one and a LIMIT after a trailing comment is none, but what a LIMIT means is
  PostgreSQL's grammar. Tokenising is sqlparse's, and whether an accepted text
  writes is PostgreSQL's: the model has it either way and proves nothing of it.
- Great-circle distances and colour interpolation: real arithmetic.
- Statements and writes without an end: every call to PostgreSQL or RabbitMQ is
  answered, refused or cut off.
- The number of PostgreSQL connections: the question panel holds one during both
  of its LLM calls.
- Whether a failed live panel shows `main()`'s message or a traceback depends on
  the version of Streamlit; either way the run is over.
- A signal handler that interrupts pika in the middle of its own work.

## 6. Plan

Done: repository, consumer, weather, ingestion with its publisher, token cache,
`FlightQueue`, dashboard with the AI layer, and the theorems of section 4.

Left, in this order:

1. *Pipeline*: ingestion in front of `FlightQueue`: the stamp of a message
   against the time of its observation (`src/common/models.py:99`), which no
   module relates yet; the end-to-end bound on rows of one observation.
2. *A second session*, sharing the HTTP client, once its state is worth a model.
