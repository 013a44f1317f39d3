------------------------------- MODULE Publisher -------------------------------
(***************************************************************************)
(* ingestion/publisher.py: RabbitMQPublisher.  publish() reconnects first  *)
(* if the connection is known to be closed, and reconnects and sends once  *)
(* more if the first attempt raises.                                       *)
(*                                                                         *)
(* RabbitMQ and pika are external.  pika reads what the broker sends only  *)
(* inside its own calls, so it learns that a connection is gone or that    *)
(* the broker has closed the channel when it next writes, or later:        *)
(* without publisher confirms such a write may return normally, and a      *)
(* write that raises may have been received.                               *)
(***************************************************************************)
EXTENDS Naturals

CONSTANTS
  Messages,
  NoMessage,
  ConnectAttempts,   \* stop_after_attempt of connect()
  MaxFaults,         \* bound: how many faults ever happen
  Faults             \* which kinds of fault may happen

FaultKinds ==
  {"link", "late", "channel", "refused", "broken", "rejected", "crash"}

VARIABLES
  conn,       \* self._connection as pika sees it
  chan,       \* self._channel as pika sees it
  far,        \* the channel at the broker's end, "gone" with the link
  pub,        \* where the call under way is
  attempts,   \* failed attempts of the connect() under way
  msg,        \* the message being published
  queued,     \* how many copies of each message the broker has taken
  unclosed,   \* open connections replaced without a close()
  faults,     \* faults so far
  since       \* history: faults since the publisher was last known whole

vars == <<conn, chan, far, pub, attempts, msg, queued, unclosed, faults, since>>

(* connect() is called by run(), by publish() before the first attempt and *)
(* by publish() between the two.                                           *)
Connecting == {"connect", "reconnect", "again"}
Sending    == {"send", "resend"}

(* "failed": an exception of those that publish() catches left it;         *)
(* "chanclosed": a ChannelClosedByBroker, which it does not catch.         *)
Returned == {"ok", "failed", "chanclosed"}

TypeOK ==
  /\ conn \in {"none", "open", "closed"}
  /\ chan \in {"none", "open", "closed"}
  /\ far \in {"open", "closed", "gone"}
  /\ pub \in {"idle"} \cup Connecting \cup Sending \cup Returned
  /\ attempts \in 0..ConnectAttempts
  /\ msg \in Messages \cup {NoMessage}
  /\ queued \in [Messages -> Nat]
  /\ unclosed \in Nat
  /\ faults \in 0..MaxFaults
  /\ since \in 0..faults

Init ==
  /\ conn = "none"
  /\ chan = "none"
  /\ far = "gone"
  /\ pub = "idle"
  /\ attempts = 0
  /\ msg = NoMessage
  /\ queued = [m \in Messages |-> 0]
  /\ unclosed = 0
  /\ faults = 0
  /\ since = 0

Fault(kind) ==
  /\ kind \in Faults
  /\ faults < MaxFaults
  /\ faults' = faults + 1

(* A fault of the link, the broker or the network under this publisher.    *)
Hit(kind) == Fault(kind) /\ since' = since + 1

Take == queued' = [queued EXCEPT ![msg] = queued[msg] + 1]

-----------------------------------------------------------------------------
(* connect() *)

(* Called by run(), once, before anything else.                            *)
BeginConnect ==
  /\ pub = "idle"
  /\ conn = "none"
  /\ pub' = "connect"
  /\ attempts' = 0
  /\ UNCHANGED <<conn, chan, far, msg, queued, unclosed, faults, since>>

(* self._connection is overwritten, whatever it was.                       *)
Replace(c) ==
  /\ conn' = c
  /\ unclosed' = IF conn = "open" THEN unclosed + 1 ELSE unclosed

ConnectOk ==
  /\ pub \in Connecting
  /\ Replace("open")
  /\ chan' = "open"
  /\ far' = "open"
  /\ pub' = CASE pub = "connect" -> "ok" [] pub = "reconnect" -> "send" [] pub = "again" -> "resend"
  /\ since' = IF pub = "again" THEN since ELSE 0
  /\ UNCHANGED <<attempts, msg, queued, faults>>

(* Slip: tried for ever.                                                   *)
TryAgainForEver == attempts' = attempts + 1 /\ UNCHANGED pub

(* AMQPConnectionError: after the last attempt it leaves connect() and     *)
(* publish().                                                              *)
TryAgain ==
  /\ attempts' = attempts + 1
  /\ IF attempts + 1 < ConnectAttempts THEN UNCHANGED pub ELSE pub' = "failed"

ConnectRefused ==
  /\ pub \in Connecting
  /\ Hit("refused")
  /\ TryAgain
  /\ UNCHANGED <<conn, chan, far, msg, queued, unclosed>>

(* The new connection breaks before the topology is declared: connection   *)
(* and perhaps channel are already the new, dead ones.                     *)
ConnectBreaks ==
  /\ pub \in Connecting
  /\ Hit("broken")
  /\ Replace("closed")
  /\ chan' \in {chan, "closed"}
  /\ far' = "gone"
  /\ TryAgain
  /\ UNCHANGED <<msg, queued>>

(* The broker closes the channel over a declaration: that is no            *)
(* AMQPConnectionError and not retried.                                    *)
ConnectRejected ==
  /\ pub \in Connecting
  /\ Hit("rejected")
  /\ Replace("open")
  /\ chan' = "closed"
  /\ far' = "closed"
  /\ pub' = "chanclosed"
  /\ UNCHANGED <<attempts, msg, queued>>

-----------------------------------------------------------------------------
(* publish() *)

(* Slip: no look at the connection, no reconnect.                          *)
BeginPublishBlind(m) ==
  /\ pub = "idle"
  /\ msg' = m
  /\ attempts' = 0
  /\ pub' = IF chan = "none" THEN "failed" ELSE "resend"
  /\ UNCHANGED <<conn, chan, far, queued, unclosed, faults, since>>

(* Slip: a new connection for every message.                               *)
BeginPublishFresh(m) ==
  /\ pub = "idle"
  /\ msg' = m
  /\ attempts' = 0
  /\ pub' = IF chan = "none" THEN "failed" ELSE "reconnect"
  /\ UNCHANGED <<conn, chan, far, queued, unclosed, faults, since>>

BeginPublish(m) ==
  /\ pub = "idle"
  /\ msg' = m
  /\ attempts' = 0
  /\ pub' = IF chan = "none" THEN "failed"
            ELSE IF conn # "open" THEN "reconnect"
            ELSE "send"
  /\ UNCHANGED <<conn, chan, far, queued, unclosed, faults, since>>

Sent ==
  /\ pub \in Sending
  /\ chan = "open" /\ far = "open"
  /\ Take
  /\ pub' = "ok"
  /\ since' = 0
  /\ UNCHANGED <<conn, chan, far, attempts, msg, unclosed, faults>>

(* Written to a broker that is out of reach, or that has closed the        *)
(* channel and discards what still arrives on it: no error yet.            *)
SentIntoTheVoid ==
  /\ pub \in Sending
  /\ chan = "open" /\ far # "open"
  /\ pub' = "ok"
  /\ UNCHANGED <<conn, chan, far, attempts, msg, queued, unclosed, faults, since>>

(* Slips: never a second attempt; any number of them; errors swallowed.    *)
CatchNever ==
  /\ pub' = "failed"
  /\ attempts' = 0
CatchAlways ==
  /\ pub' = "again"
  /\ attempts' = 0
CatchSilently ==
  /\ pub' = IF pub = "send" THEN "again" ELSE "ok"
  /\ attempts' = 0

(* The first failure leads to the second attempt, the second one out.      *)
Catch ==
  /\ pub' = IF pub = "send" THEN "again" ELSE "failed"
  /\ attempts' = 0

SendRaises ==
  /\ pub \in Sending
  /\ chan = "open" /\ far = "gone"
  /\ conn' = "closed"
  /\ chan' = "closed"
  /\ Catch
  /\ UNCHANGED <<far, msg, queued, unclosed, faults, since>>

(* The write makes pika read that the broker has closed the channel: a     *)
(* ChannelClosedByBroker.                                                  *)
SendMeetsClose ==
  /\ pub \in Sending
  /\ chan = "open" /\ far = "closed"
  /\ chan' = "closed"
  /\ pub' = "chanclosed"
  /\ attempts' = 0
  /\ UNCHANGED <<conn, far, msg, queued, unclosed, faults, since>>

(* Slip: ChannelWrongStateError is not among the caught ones.              *)
SendOnClosedChannelUncaught ==
  /\ pub \in Sending
  /\ chan = "closed"
  /\ pub' = "failed"
  /\ attempts' = 0
  /\ UNCHANGED <<conn, chan, far, msg, queued, unclosed, faults, since>>

(* ChannelWrongStateError: an earlier call has met the channel's closing.  *)
SendOnClosedChannel ==
  /\ pub \in Sending
  /\ chan = "closed"
  /\ Catch
  /\ UNCHANGED <<conn, chan, far, msg, queued, unclosed, faults, since>>

(* The broker takes the message and then the connection breaks.            *)
SendTakenRaises ==
  /\ pub \in Sending
  /\ chan = "open" /\ far = "open"
  /\ Hit("late")
  /\ Take
  /\ conn' = "closed"
  /\ chan' = "closed"
  /\ far' = "gone"
  /\ Catch
  /\ UNCHANGED <<msg, unclosed>>

Return ==
  /\ pub \in Returned
  /\ pub' = "idle"
  /\ msg' = NoMessage
  /\ attempts' = 0
  /\ UNCHANGED <<conn, chan, far, queued, unclosed, faults, since>>

-----------------------------------------------------------------------------
(* What happens to the connection, and its end *)

LoseLink ==
  /\ conn = "open" /\ far # "gone"
  /\ Hit("link")
  /\ far' = "gone"
  /\ UNCHANGED <<conn, chan, pub, attempts, msg, queued, unclosed>>

(* Nobody has read it yet: pika still takes the channel for open.          *)
CloseChannel ==
  /\ chan = "open" /\ far = "open"
  /\ Hit("channel")
  /\ far' = "closed"
  /\ UNCHANGED <<conn, chan, pub, attempts, msg, queued, unclosed>>

(* close() by run()'s finally, or the end of the process.                  *)
Gone ==
  /\ conn' = "none"
  /\ chan' = "none"
  /\ far' = "gone"
  /\ pub' = "idle"
  /\ attempts' = 0
  /\ msg' = NoMessage
  /\ unclosed' = 0
  /\ since' = 0
  /\ UNCHANGED queued

Crash == Fault("crash") /\ Gone

Step ==
  \/ ConnectOk
  \/ Sent \/ SentIntoTheVoid \/ SendRaises \/ SendMeetsClose \/ SendOnClosedChannel

FaultStep ==
  \/ ConnectRefused \/ ConnectBreaks \/ ConnectRejected
  \/ SendTakenRaises \/ LoseLink \/ CloseChannel

Next ==
  \/ BeginConnect \/ (\E m \in Messages : BeginPublish(m))
  \/ Step \/ Return \/ FaultStep
  \/ (Gone /\ UNCHANGED faults) \/ Crash

Spec == Init /\ [][Next]_vars

-----------------------------------------------------------------------------

(***************************************************************************)
(* What pika believes is consistent at every send: connection and channel  *)
(* are open together, so the message goes out on the connection that       *)
(* connect() opened last.                                                  *)
(***************************************************************************)
SendsOnCurrent ==
  /\ chan = "open" => conn = "open"
  /\ pub \in Sending => conn = "open"

(***************************************************************************)
(* One fault of a publisher that was whole is survived by the reconnect    *)
(* and the second attempt (publisher.py:69-73), however many faults it has *)
(* survived before: a connection found broken, a channel known to be       *)
(* closed, a lost answer.  The exception is a ChannelClosedByBroker, which *)
(* publish() does not catch.                                               *)
(***************************************************************************)
SingleFaultSurvived == pub = "failed" /\ msg # NoMessage => since > 1

(***************************************************************************)
(* The second attempt is the only source of duplicates: a call to publish  *)
(* makes two copies at most, and a second one only after a fault.          *)
(***************************************************************************)
TwoCopiesAtMost ==
  \A m \in Messages : queued[m] <= 2 /\ (queued[m] = 2 => faults > 0)

(***************************************************************************)
(* connect() never closes the connection it replaces; that this one was    *)
(* still open takes a closed channel each time, so a process holds no more *)
(* forgotten connections than it had faults.                               *)
(***************************************************************************)
ForgottenNeedFaults == unclosed <= faults

(***************************************************************************)
(* A loss is never one that publish() knew of: when it returns without the *)
(* broker having the message, no error has come up on the channel it wrote *)
(* to.  One that has is raised, or the message is sent again.              *)
(***************************************************************************)
LostOnlyUnnoticed ==
  pub = "ok" /\ msg # NoMessage => queued[msg] > 0 \/ (chan = "open" /\ far # "open")

=============================================================================
