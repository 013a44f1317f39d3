------------------------------ MODULE Ingestion ------------------------------
(***************************************************************************)
(* ingestion/main.py: one thread that polls OpenSky (opensky_client.py),   *)
(* publishes every state it got (Publisher), touches the heartbeat file,   *)
(* sleeps, and stops between two cycles once a signal has asked it to.     *)
(* OpenSky is external: a poll may yield any set of aircraft, be rate      *)
(* limited, or fail (the token request included).                          *)
(***************************************************************************)
EXTENDS Naturals, FiniteSets

CONSTANTS
  Aircraft,
  NoMessage,
  PollAttempts,      \* stop_after_attempt of fetch_states()
  ConnectAttempts,   \* stop_after_attempt of connect()
  MaxMessages,       \* bound: how many messages are ever made
  MaxFaults,         \* bound: how many faults ever happen
  Faults             \* which kinds of fault may happen

Messages == [icao24 : Aircraft, fetched_at : 1..MaxMessages]

VARIABLES
  stage,      \* where run() is
  shutdown,   \* _shutdown_requested
  tries,      \* rate-limited attempts of the poll under way
  polled,     \* the aircraft of this cycle's poll
  states,     \* those of them not yet handed to publish()
  sent,       \* messages of this cycle for which publish() has returned
  next,       \* fetched_at of the next message
  conn, chan, far, pub, attempts, msg, queued, unclosed, faults, since   \* the publisher's

control   == <<stage, shutdown, tries>>
cycle     == <<polled, states, sent, next>>
publisher == <<conn, chan, far, pub, attempts, msg, queued, unclosed, faults, since>>
vars      == <<control, cycle, publisher>>

Pub == INSTANCE Publisher

ASSUME IngestionAssumption ==
  /\ IsFiniteSet(Aircraft)
  /\ PollAttempts \in Nat \ {0}
  /\ ConnectAttempts \in Nat \ {0}
  /\ MaxMessages \in Nat
  /\ MaxFaults \in Nat
  /\ Faults \subseteq Pub!FaultKinds
  /\ NoMessage \notin Messages

Stages == {"down", "connecting", "polling", "publishing", "touching", "sleeping", "stopped"}

TypeOK ==
  /\ stage \in Stages
  /\ shutdown \in BOOLEAN
  /\ tries \in 0..PollAttempts
  /\ polled \subseteq Aircraft
  /\ states \subseteq Aircraft
  /\ sent \subseteq Messages
  /\ next \in 1..(MaxMessages + 1)
  /\ Pub!TypeOK

Init ==
  /\ stage = "down"
  /\ shutdown = FALSE
  /\ tries = 0
  /\ polled = {}
  /\ states = {}
  /\ sent = {}
  /\ next = 1
  /\ Pub!Init

-----------------------------------------------------------------------------

(* Handlers are installed first, so a signal may come while connecting.    *)
Start ==
  /\ stage = "down"
  /\ stage' = "connecting"
  /\ Pub!BeginConnect
  /\ UNCHANGED <<shutdown, tries, cycle>>

(* Slip: the flag is not looked at again.                                  *)
LoopAlways == stage' = "polling" /\ tries' = 0

(* while not _shutdown_requested                                           *)
Loop ==
  /\ stage' = IF shutdown THEN "stopped" ELSE "polling"
  /\ tries' = 0

(* connect() fails before the try block: the process ends.                 *)
Connected ==
  /\ stage = "connecting"
  /\ IF pub = "ok"
     THEN Loop /\ Pub!Return /\ UNCHANGED <<shutdown, cycle>>
     ELSE /\ pub \in {"failed", "chanclosed"}
          /\ stage' = "down"
          /\ shutdown' = FALSE
          /\ Pub!Gone
          /\ UNCHANGED <<tries, cycle, faults>>

PollOk ==
  /\ stage = "polling"
  /\ \E S \in SUBSET Aircraft :
       /\ Cardinality(S) <= MaxMessages + 1 - next
       /\ polled' = S
       /\ states' = S
  /\ sent' = {}
  /\ stage' = "publishing"
  /\ UNCHANGED <<shutdown, tries, next, publisher>>

(* 429: waits and tries again, the last one ends the cycle.                *)
RateLimited ==
  /\ stage = "polling"
  /\ tries' = tries + 1
  /\ stage' = IF tries + 1 < PollAttempts THEN stage ELSE "sleeping"
  /\ UNCHANGED <<shutdown, cycle, publisher>>

(* Anything else ends the cycle at once.                                   *)
PollFails ==
  /\ stage = "polling"
  /\ stage' = "sleeping"
  /\ UNCHANGED <<shutdown, tries, cycle, publisher>>

(* FlightMessage(state=state) stamps the message; then publish().          *)
PublishNext ==
  /\ stage = "publishing"
  /\ \E a \in states :
       /\ states' = states \ {a}
       /\ Pub!BeginPublish([icao24 |-> a, fetched_at |-> next])
  /\ next' = next + 1
  /\ UNCHANGED <<control, polled, sent>>

PublishStep ==
  /\ pub # "idle"
  /\ Pub!Step
  /\ UNCHANGED <<control, cycle>>

(* Slips: a failed message is skipped; the loop ends with the error.       *)
PublishReturnsSkip ==
  /\ stage = "publishing"
  /\ Pub!Return
  /\ sent' = IF pub = "ok" THEN sent \cup {msg} ELSE sent
  /\ UNCHANGED <<stage, polled, states, shutdown, tries, next>>
PublishReturnsFatal ==
  /\ stage = "publishing"
  /\ Pub!Return
  /\ IF pub = "ok"
     THEN sent' = sent \cup {msg} /\ UNCHANGED <<stage, states>>
     ELSE stage' = "stopped" /\ states' = {} /\ UNCHANGED sent
  /\ UNCHANGED <<shutdown, polled, tries, next>>

(* An exception abandons the rest of the cycle.                            *)
PublishReturns ==
  /\ stage = "publishing"
  /\ Pub!Return
  /\ IF pub = "ok"
     THEN sent' = sent \cup {msg} /\ UNCHANGED <<stage, states>>
     ELSE stage' = "sleeping" /\ states' = {} /\ UNCHANGED sent
  /\ UNCHANGED <<shutdown, polled, tries, next>>

CycleDone ==
  /\ stage = "publishing"
  /\ states = {} /\ pub = "idle"
  /\ stage' = "touching"
  /\ UNCHANGED <<shutdown, tries, cycle, publisher>>

TouchHeartbeat ==
  /\ stage = "touching"
  /\ stage' = "sleeping"
  /\ UNCHANGED <<shutdown, tries, cycle, publisher>>

(* Sleeps the interval out, signal or not.                                 *)
Wake ==
  /\ stage = "sleeping"
  /\ Loop
  /\ UNCHANGED <<shutdown, cycle, publisher>>

Signal ==
  /\ stage \notin {"down", "stopped"}
  /\ shutdown' = TRUE
  /\ UNCHANGED <<stage, tries, cycle, publisher>>

(* publisher.close() and the end of the process; then a new `up`.          *)
Close ==
  /\ stage = "stopped"
  /\ stage' = "down"
  /\ shutdown' = FALSE
  /\ tries' = 0
  /\ Pub!Gone
  /\ UNCHANGED <<cycle, faults>>

(* Killed (docker stop waits ten seconds only) or crashed.                 *)
Crash ==
  /\ stage # "down"
  /\ Pub!Crash
  /\ stage' = "down"
  /\ shutdown' = FALSE
  /\ tries' = 0
  /\ polled' = {}
  /\ states' = {}
  /\ sent' = {}
  /\ UNCHANGED next

LinkFault ==
  /\ Pub!FaultStep
  /\ UNCHANGED <<control, cycle>>

MainStep ==
  \/ Start \/ Connected \/ PollOk \/ RateLimited \/ PollFails
  \/ PublishNext \/ PublishStep \/ PublishReturns \/ CycleDone \/ TouchHeartbeat
  \/ Wake \/ Close

Next == MainStep \/ Signal \/ Crash \/ LinkFault

Spec == Init /\ [][Next]_vars

(* The thread runs: every request, send and sleep ends.  For the sends     *)
(* that is an assumption on RabbitMQ, since blocked_connection_timeout is  *)
(* not set; the requests carry a timeout.                                  *)
FairSpec == Spec /\ WF_vars(MainStep)

-----------------------------------------------------------------------------

(***************************************************************************)
(* Over any sequence of cycles and reconnects, connection and channel stay *)
(* a pair: no message goes out on the channel of an older connection.      *)
(***************************************************************************)
SendsOnCurrent == Pub!SendsOnCurrent

(***************************************************************************)
(* After every recovery the next broken connection, known closed channel   *)
(* or lost answer is survived again by the reconnect and the second        *)
(* attempt (publisher.py:69-73, 84-91).  Only a ChannelClosedByBroker is   *)
(* not caught.                                                             *)
(***************************************************************************)
SingleFaultSurvived == Pub!SingleFaultSurvived

(***************************************************************************)
(* However the cycles go, the second attempt is the only source of         *)
(* duplicates: two copies of a message at most, and only after a fault.    *)
(***************************************************************************)
TwoCopiesAtMost == Pub!TwoCopiesAtMost

(***************************************************************************)
(* No error that publish() has seen ends in a message lost without a word: *)
(* a loss behind a normal return is one that nothing has shown yet.        *)
(***************************************************************************)
LostOnlyUnnoticed == Pub!LostOnlyUnnoticed

(***************************************************************************)
(* Connections replaced without a close() do not pile up: each one takes a *)
(* fault of its own.                                                       *)
(***************************************************************************)
ForgottenNeedFaults == Pub!ForgottenNeedFaults

(***************************************************************************)
(* The heartbeat is touched only at the end of a cycle in which every      *)
(* polled aircraft was published without an error (main.py:97-106).        *)
(***************************************************************************)
BeatsAfterWholeCycle == stage = "touching" => {m.icao24 : m \in sent} = polled

(***************************************************************************)
(* No failure of a poll or a publish ends the service: "will retry next    *)
(* interval" (main.py:105-106).  Only a signal does.                       *)
(***************************************************************************)
OnlySignalStops == stage = "stopped" => shutdown

(***************************************************************************)
(* What publish() returned for is in the queue (publisher.py:67,           *)
(* "persisted to disk by the broker").                                     *)
(***************************************************************************)
SentIsQueued == \A m \in sent : queued[m] > 0

(***************************************************************************)
(* "shutting down after current cycle" (main.py:31): a signal ends the     *)
(* process, whatever OpenSky and RabbitMQ do meanwhile.                    *)
(***************************************************************************)
ShutdownEnds == shutdown ~> stage = "down"

=============================================================================
