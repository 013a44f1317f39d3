---------------------------- MODULE IngestionProofs ----------------------------
(***************************************************************************)
(* Theorems about Ingestion, and about Publisher as Ingestion uses it, for *)
(* any aircraft, numbers of attempts and faults, and length of run.        *)
(***************************************************************************)
EXTENDS Ingestion, FiniteSetTheorems, TLAPS

(* The loop: what is left of the cycle fits the bound on messages.         *)
LoopOK ==
  /\ stage = "polling" => tries < PollAttempts
  /\ stage # "publishing" => states = {}
  /\ Cardinality(states) + next <= MaxMessages + 1
  /\ OnlySignalStops
  /\ stage = "down" => ~shutdown

(* The call under way is the one the loop is at.                           *)
CallOK ==
  /\ stage \notin {"connecting", "publishing"} => pub = "idle"
  /\ stage = "connecting" => pub \in {"connect", "ok", "failed", "chanclosed"}
  /\ stage = "publishing" => pub # "connect"
  /\ msg = NoMessage <=> pub = "idle" \/ stage = "connecting"
  /\ pub \in Pub!Connecting => attempts < ConnectAttempts

(* Connection and channel, as far as the call has come.                    *)
LinkOK ==
  /\ SendsOnCurrent
  /\ stage = "down" => conn = "none"
  /\ conn = "none" => chan = "none"
  /\ pub \in {"connect", "reconnect"} => conn # "open"
  /\ pub = "again" => chan = "closed"
  /\ stage \notin {"down", "connecting"} \/ pub = "ok" => chan # "none"

(* Whatever is wrong with them took a fault, and after a reconnect another.*)
Stale == IF conn = "open" /\ (chan = "closed" \/ far = "closed") THEN 1 ELSE 0
FaultsOK ==
  /\ conn = "closed" \/ chan = "closed" \/ (conn = "open" /\ far # "open") => since > 0
  /\ pub \in {"again", "resend"} => since > 0
  /\ pub = "resend" /\ (chan = "closed" \/ far # "open") => since > 1
  /\ SingleFaultSurvived
  /\ unclosed + Stale <= faults

(* A message is handed over once, and not taken before its first attempt.  *)
CopiesOK ==
  /\ \A m \in Messages : m.fetched_at >= next => queued[m] = 0
  /\ msg # NoMessage => msg.fetched_at < next
  /\ pub \in {"reconnect", "send"} => queued[msg] = 0
  /\ pub \in {"again", "resend"} => queued[msg] <= 1
  /\ TwoCopiesAtMost
  /\ LostOnlyUnnoticed

(* Every polled aircraft is still to come, under way, or sent.             *)
UnderWay == {msg} \ {NoMessage}
CycleOK ==
  /\ stage = "publishing" => polled = {m.icao24 : m \in sent \cup UnderWay} \cup states
  /\ BeatsAfterWholeCycle

IInv == TypeOK /\ LoopOK /\ CallOK /\ LinkOK /\ FaultsOK /\ CopiesOK /\ CycleOK

LEMMA InitIInv == Init => IInv
<1> SUFFICES ASSUME Init PROVE IInv
  OBVIOUS
<1> USE DEF Init, Pub!Init
<1>1. TypeOK
  <2>1. shutdown \in BOOLEAN
    OBVIOUS
  <2> QED BY <2>1, IngestionAssumption DEF TypeOK, Pub!TypeOK, Stages
<1>2. LoopOK
  BY IngestionAssumption, FS_EmptySet DEF LoopOK, OnlySignalStops
<1>3. CallOK /\ LinkOK
  BY DEF CallOK, LinkOK, SendsOnCurrent, Pub!SendsOnCurrent, Pub!Connecting, Pub!Sending
<1>4. FaultsOK
  BY DEF FaultsOK, SingleFaultSurvived, Pub!SingleFaultSurvived, Stale
<1>5. CopiesOK /\ CycleOK
  BY DEF CopiesOK, CycleOK, TwoCopiesAtMost, Pub!TwoCopiesAtMost, LostOnlyUnnoticed,
     Pub!LostOnlyUnnoticed, BeatsAfterWholeCycle
<1> QED BY <1>1, <1>2, <1>3, <1>4, <1>5 DEF IInv

-----------------------------------------------------------------------------
(* The loop and the publisher *)

(* The next message is in bounds: there is room for what is left.          *)
LEMMA RoomForNext ==
  ASSUME TypeOK, LoopOK, NEW a \in states
  PROVE  /\ next <= MaxMessages
         /\ [icao24 |-> a, fetched_at |-> next] \in Messages
         /\ Cardinality(states \ {a}) + (next + 1) <= MaxMessages + 1
<1>1. IsFiniteSet(states)
  BY IngestionAssumption, FS_Subset DEF TypeOK
<1>2. Cardinality(states \ {a}) = Cardinality(states) - 1
  BY <1>1, FS_RemoveElement
<1>3. Cardinality(states) \in Nat /\ Cardinality(states \ {a}) \in Nat
  BY <1>1, FS_CardinalityType, FS_RemoveElement
<1>4. next \in Nat /\ next > 0 /\ MaxMessages \in Nat /\ a \in Aircraft
  BY IngestionAssumption DEF TypeOK
<1>5. next <= MaxMessages /\ Cardinality(states \ {a}) + (next + 1) <= MaxMessages + 1
  BY <1>2, <1>3, <1>4 DEF LoopOK
<1> QED BY <1>4, <1>5 DEF Messages

-----------------------------------------------------------------------------
(* Each part of the invariant is kept *)

LEMMA NextType == TypeOK /\ LoopOK /\ CallOK /\ [Next]_vars => TypeOK'
<1> SUFFICES ASSUME TypeOK, LoopOK, CallOK, [Next]_vars PROVE TypeOK'
  OBVIOUS
<1> USE IngestionAssumption, RoomForNext DEF TypeOK, Pub!TypeOK, CallOK, LoopOK,
     Stages, publisher, control, cycle, Pub!Connecting, Pub!Sending, Pub!Returned
<1>1. CASE Start
  BY <1>1 DEF Start, Pub!BeginConnect
<1>2. CASE Connected
  <2>1. shutdown' \in BOOLEAN
    BY Zenon, <1>2 DEF Connected, Loop, Pub!Return, Pub!Gone, Pub!Returned
  <2> QED BY <2>1, <1>2 DEF Connected, Loop, Pub!Return, Pub!Gone, Pub!Returned
<1>3. CASE PollOk
  BY <1>3 DEF PollOk
<1>4. CASE RateLimited \/ PollFails
  BY <1>4 DEF RateLimited, PollFails
<1>5. CASE PublishNext
  BY <1>5 DEF PublishNext, Pub!BeginPublish
<1>6. CASE PublishStep
  <2>1. shutdown' \in BOOLEAN
    BY Zenon, <1>6 DEF PublishStep, Pub!Step, Pub!ConnectOk, Pub!Sent, Pub!SentIntoTheVoid,
       Pub!SendRaises, Pub!SendMeetsClose, Pub!SendOnClosedChannel, Pub!Replace, Pub!Catch, Pub!Take
  <2> QED BY <2>1, <1>6 DEF PublishStep, Pub!Step, Pub!ConnectOk, Pub!Sent, Pub!SentIntoTheVoid,
       Pub!SendRaises, Pub!SendMeetsClose, Pub!SendOnClosedChannel, Pub!Replace, Pub!Catch, Pub!Take
<1>7. CASE PublishReturns
  BY <1>7 DEF PublishReturns, Pub!Return, Pub!Returned
<1>8. CASE CycleDone \/ TouchHeartbeat
  BY <1>8 DEF CycleDone, TouchHeartbeat
<1>9. CASE Wake
  BY <1>9 DEF Wake, Loop
<1>10. CASE Close
  <2>1. shutdown' \in BOOLEAN
    BY Zenon, <1>10 DEF Close, Pub!Gone
  <2> QED BY <2>1, <1>10 DEF Close, Pub!Gone
<1>11. CASE Signal
  BY <1>11 DEF Signal
<1>12. CASE Crash
  <2>1. shutdown' \in BOOLEAN
    BY Zenon, <1>12 DEF Crash, Pub!Crash, Pub!Fault, Pub!Hit, Pub!Gone
  <2> QED BY <2>1, <1>12 DEF Crash, Pub!Crash, Pub!Fault, Pub!Hit, Pub!Gone
<1>13. CASE LinkFault
  <2>1. shutdown' \in BOOLEAN
    BY Zenon, <1>13 DEF LinkFault, Pub!FaultStep, Pub!ConnectRefused, Pub!ConnectBreaks,
       Pub!ConnectRejected, Pub!SendTakenRaises, Pub!LoseLink,
       Pub!CloseChannel, Pub!Fault, Pub!Hit, Pub!Replace, Pub!TryAgain, Pub!Catch, Pub!Take
  <2> QED BY <2>1, <1>13 DEF LinkFault, Pub!FaultStep, Pub!ConnectRefused, Pub!ConnectBreaks,
       Pub!ConnectRejected, Pub!SendTakenRaises, Pub!LoseLink,
       Pub!CloseChannel, Pub!Fault, Pub!Hit, Pub!Replace, Pub!TryAgain, Pub!Catch, Pub!Take
<1>14. CASE UNCHANGED vars
  BY <1>14 DEF vars
<1> QED BY <1>1, <1>2, <1>3, <1>4, <1>5, <1>6, <1>7, <1>8, <1>9, <1>10, <1>11, <1>12, <1>13, <1>14
       DEF Next, MainStep

LEMMA NextLoop == TypeOK /\ LoopOK /\ [Next]_vars => LoopOK'
<1> SUFFICES ASSUME TypeOK, LoopOK, [Next]_vars PROVE LoopOK'
  OBVIOUS
<1> USE IngestionAssumption, RoomForNext, FS_EmptySet DEF TypeOK, LoopOK, OnlySignalStops,
     publisher, control, cycle, Pub!Connecting, Pub!Sending
<1>1. CASE Start
  BY <1>1 DEF Start, Pub!BeginConnect
<1>2. CASE Connected
  BY <1>2 DEF Connected, Loop, Pub!Return, Pub!Gone, Pub!Returned
<1>3. CASE PollOk
  <2>1. states' \subseteq Aircraft /\ Cardinality(states') <= MaxMessages + 1 - next
    BY <1>3 DEF PollOk
  <2>2. Cardinality(states') \in Nat
    BY <2>1, FS_Subset, FS_CardinalityType
  <2> QED BY <1>3, <2>1, <2>2 DEF PollOk
<1>4. CASE RateLimited \/ PollFails
  BY <1>4 DEF RateLimited, PollFails
<1>5. CASE PublishNext
  <2>1. PICK a \in states : states' = states \ {a}
    BY <1>5 DEF PublishNext
  <2>2. next' = next + 1 /\ stage' = stage /\ stage = "publishing"
    BY <1>5 DEF PublishNext
  <2> QED BY <2>1, <2>2, RoomForNext
<1>6. CASE PublishStep
  BY <1>6 DEF PublishStep, Pub!Step, Pub!ConnectOk, Pub!Sent, Pub!SentIntoTheVoid,
     Pub!SendRaises, Pub!SendMeetsClose, Pub!SendOnClosedChannel, Pub!Replace, Pub!Catch, Pub!Take
<1>7. CASE PublishReturns
  BY <1>7 DEF PublishReturns, Pub!Return, Pub!Returned
<1>8. CASE CycleDone \/ TouchHeartbeat
  BY <1>8 DEF CycleDone, TouchHeartbeat
<1>9. CASE Wake
  BY <1>9 DEF Wake, Loop
<1>10. CASE Close
  BY <1>10 DEF Close, Pub!Gone
<1>11. CASE Signal
  BY <1>11 DEF Signal
<1>12. CASE Crash
  BY <1>12 DEF Crash, Pub!Crash, Pub!Fault, Pub!Hit, Pub!Gone
<1>13. CASE LinkFault
  BY <1>13 DEF LinkFault, Pub!FaultStep, Pub!ConnectRefused, Pub!ConnectBreaks,
     Pub!ConnectRejected, Pub!SendTakenRaises, Pub!LoseLink,
     Pub!CloseChannel, Pub!Fault, Pub!Hit, Pub!Replace, Pub!TryAgain, Pub!Catch, Pub!Take
<1>14. CASE UNCHANGED vars
  BY <1>14 DEF vars
<1> QED BY <1>1, <1>2, <1>3, <1>4, <1>5, <1>6, <1>7, <1>8, <1>9, <1>10, <1>11, <1>12, <1>13, <1>14
       DEF Next, MainStep

LEMMA NextCall == TypeOK /\ LoopOK /\ CallOK /\ [Next]_vars => CallOK'
<1> SUFFICES ASSUME TypeOK, LoopOK, CallOK, [Next]_vars PROVE CallOK'
  OBVIOUS
<1> USE IngestionAssumption, RoomForNext DEF CallOK, publisher, control, cycle,
     Pub!Connecting, Pub!Sending
<1>1. CASE Start
  BY <1>1 DEF Start, Pub!BeginConnect
<1>2. CASE Connected
  BY <1>2 DEF Connected, Loop, Pub!Return, Pub!Gone, Pub!Returned
<1>3. CASE PollOk
  BY <1>3 DEF PollOk
<1>4. CASE RateLimited \/ PollFails
  BY <1>4 DEF RateLimited, PollFails
<1>5. CASE PublishNext
  BY <1>5 DEF PublishNext, Pub!BeginPublish
<1>6. CASE PublishStep
  BY <1>6 DEF PublishStep, Pub!Step, Pub!ConnectOk, Pub!Sent, Pub!SentIntoTheVoid,
     Pub!SendRaises, Pub!SendMeetsClose, Pub!SendOnClosedChannel, Pub!Replace, Pub!Catch, Pub!Take
<1>7. CASE PublishReturns
  BY <1>7 DEF PublishReturns, Pub!Return, Pub!Returned
<1>8. CASE CycleDone \/ TouchHeartbeat
  BY <1>8 DEF CycleDone, TouchHeartbeat
<1>9. CASE Wake
  BY <1>9 DEF Wake, Loop
<1>10. CASE Close
  BY <1>10 DEF Close, Pub!Gone
<1>11. CASE Signal
  BY <1>11 DEF Signal
<1>12. CASE Crash
  BY <1>12 DEF Crash, Pub!Crash, Pub!Fault, Pub!Hit, Pub!Gone
<1>13. CASE LinkFault
  BY <1>13 DEF LinkFault, Pub!FaultStep, Pub!ConnectRefused, Pub!ConnectBreaks,
     Pub!ConnectRejected, Pub!SendTakenRaises, Pub!LoseLink,
     Pub!CloseChannel, Pub!Fault, Pub!Hit, Pub!Replace, Pub!TryAgain, Pub!Catch, Pub!Take
<1>14. CASE UNCHANGED vars
  BY <1>14 DEF vars
<1> QED BY <1>1, <1>2, <1>3, <1>4, <1>5, <1>6, <1>7, <1>8, <1>9, <1>10, <1>11, <1>12, <1>13, <1>14
       DEF Next, MainStep

LEMMA NextLink == TypeOK /\ CallOK /\ LinkOK /\ [Next]_vars => LinkOK'
<1> SUFFICES ASSUME TypeOK, CallOK, LinkOK, [Next]_vars PROVE LinkOK'
  OBVIOUS
<1> USE DEF LinkOK, CallOK, TypeOK, Pub!TypeOK, Stages, SendsOnCurrent,
     Pub!SendsOnCurrent, publisher, control, cycle, Pub!Connecting, Pub!Sending
<1>1. CASE Start
  BY <1>1 DEF Start, Pub!BeginConnect
<1>2. CASE Connected
  BY <1>2 DEF Connected, Loop, Pub!Return, Pub!Gone, Pub!Returned
<1>3. CASE PollOk
  BY <1>3 DEF PollOk
<1>4. CASE RateLimited \/ PollFails
  BY <1>4 DEF RateLimited, PollFails
<1>5. CASE PublishNext
  BY <1>5 DEF PublishNext, Pub!BeginPublish
<1>6. CASE PublishStep
  BY <1>6 DEF PublishStep, Pub!Step, Pub!ConnectOk, Pub!Sent, Pub!SentIntoTheVoid,
     Pub!SendRaises, Pub!SendMeetsClose, Pub!SendOnClosedChannel, Pub!Replace, Pub!Catch, Pub!Take
<1>7. CASE PublishReturns
  BY <1>7 DEF PublishReturns, Pub!Return, Pub!Returned
<1>8. CASE CycleDone \/ TouchHeartbeat
  BY <1>8 DEF CycleDone, TouchHeartbeat
<1>9. CASE Wake
  BY <1>9 DEF Wake, Loop
<1>10. CASE Close
  BY <1>10 DEF Close, Pub!Gone
<1>11. CASE Signal
  BY <1>11 DEF Signal
<1>12. CASE Crash
  BY <1>12 DEF Crash, Pub!Crash, Pub!Fault, Pub!Hit, Pub!Gone
<1>13. CASE LinkFault
  BY <1>13 DEF LinkFault, Pub!FaultStep, Pub!ConnectRefused, Pub!ConnectBreaks,
     Pub!ConnectRejected, Pub!SendTakenRaises, Pub!LoseLink,
     Pub!CloseChannel, Pub!Fault, Pub!Hit, Pub!Replace, Pub!TryAgain, Pub!Catch, Pub!Take
<1>14. CASE UNCHANGED vars
  BY <1>14 DEF vars
<1> QED BY <1>1, <1>2, <1>3, <1>4, <1>5, <1>6, <1>7, <1>8, <1>9, <1>10, <1>11, <1>12, <1>13, <1>14
       DEF Next, MainStep

LEMMA NextFaults == TypeOK /\ CallOK /\ LinkOK /\ FaultsOK /\ [Next]_vars => FaultsOK'
<1> SUFFICES ASSUME TypeOK, CallOK, LinkOK, FaultsOK, [Next]_vars PROVE FaultsOK'
  OBVIOUS
<1> USE DEF FaultsOK, LinkOK, CallOK, TypeOK, Pub!TypeOK, Stages, SendsOnCurrent,
     Pub!SendsOnCurrent, SingleFaultSurvived, Pub!SingleFaultSurvived, Stale,
     publisher, control, cycle, Pub!Connecting, Pub!Sending
<1>1. CASE Start
  BY <1>1 DEF Start, Pub!BeginConnect
<1>2. CASE Connected
  BY <1>2 DEF Connected, Loop, Pub!Return, Pub!Gone, Pub!Returned
<1>3. CASE PollOk
  BY <1>3 DEF PollOk
<1>4. CASE RateLimited \/ PollFails
  BY <1>4 DEF RateLimited, PollFails
<1>5. CASE PublishNext
  BY <1>5 DEF PublishNext, Pub!BeginPublish
<1>6. CASE PublishStep
  BY <1>6 DEF PublishStep, Pub!Step, Pub!ConnectOk, Pub!Sent, Pub!SentIntoTheVoid,
     Pub!SendRaises, Pub!SendMeetsClose, Pub!SendOnClosedChannel, Pub!Replace, Pub!Catch, Pub!Take
<1>7. CASE PublishReturns
  BY <1>7 DEF PublishReturns, Pub!Return, Pub!Returned
<1>8. CASE CycleDone \/ TouchHeartbeat
  BY <1>8 DEF CycleDone, TouchHeartbeat
<1>9. CASE Wake
  BY <1>9 DEF Wake, Loop
<1>10. CASE Close
  BY <1>10 DEF Close, Pub!Gone
<1>11. CASE Signal
  BY <1>11 DEF Signal
<1>12. CASE Crash
  BY <1>12 DEF Crash, Pub!Crash, Pub!Fault, Pub!Hit, Pub!Gone
<1>13. CASE LinkFault
  BY <1>13 DEF LinkFault, Pub!FaultStep, Pub!ConnectRefused, Pub!ConnectBreaks,
     Pub!ConnectRejected, Pub!SendTakenRaises, Pub!LoseLink,
     Pub!CloseChannel, Pub!Fault, Pub!Hit, Pub!Replace, Pub!TryAgain, Pub!Catch, Pub!Take
<1>14. CASE UNCHANGED vars
  BY <1>14 DEF vars
<1> QED BY <1>1, <1>2, <1>3, <1>4, <1>5, <1>6, <1>7, <1>8, <1>9, <1>10, <1>11, <1>12, <1>13, <1>14
       DEF Next, MainStep

LEMMA NextCopies == TypeOK /\ LoopOK /\ CallOK /\ LinkOK /\ FaultsOK /\ CopiesOK /\ [Next]_vars => CopiesOK'
<1> SUFFICES ASSUME TypeOK, LoopOK, CallOK, LinkOK, FaultsOK, CopiesOK, [Next]_vars PROVE CopiesOK'
  OBVIOUS
<1> USE DEF CopiesOK, TypeOK, Pub!TypeOK, CallOK, TwoCopiesAtMost,
     Pub!TwoCopiesAtMost, LostOnlyUnnoticed, Pub!LostOnlyUnnoticed, publisher,
     control, cycle, Pub!Connecting, Pub!Sending
<1>1. CASE Start
  BY <1>1 DEF Start, Pub!BeginConnect
<1>2. CASE Connected
  BY <1>2 DEF Connected, Loop, Pub!Return, Pub!Gone, Pub!Returned
<1>3. CASE PollOk
  BY <1>3 DEF PollOk
<1>4. CASE RateLimited \/ PollFails
  BY <1>4 DEF RateLimited, PollFails
<1>5. CASE PublishNext
  <2>1. PICK a \in states : Pub!BeginPublish([icao24 |-> a, fetched_at |-> next])
    BY <1>5 DEF PublishNext
  <2>2. msg' \in Messages /\ msg'.fetched_at = next /\ next' = next + 1 /\ queued[msg'] = 0
    BY <1>5, <2>1, RoomForNext DEF PublishNext, Pub!BeginPublish, Messages
  <2> QED BY <2>1, <2>2 DEF Pub!BeginPublish, Messages
<1>6. CASE PublishStep
  <2>0. UNCHANGED <<control, cycle>>
    BY <1>6 DEF PublishStep
  <2>1. CASE Pub!ConnectOk
    BY <2>0, <2>1 DEF Pub!ConnectOk, Pub!Catch, Pub!Take
  <2>2. CASE Pub!Sent
    <3>1. msg \in Messages /\ queued[msg] \in Nat
      BY <2>2 DEF Pub!Sent
    <3>2. /\ queued'[msg] = queued[msg] + 1
          /\ \A m \in Messages \ {msg} : queued'[m] = queued[m]
      BY <2>2, <3>1 DEF Pub!Sent, Pub!Take
    <3>3. \A m \in Messages : m.fetched_at >= next => queued'[m] = 0
      <4>1. msg.fetched_at \in Int /\ msg.fetched_at < next /\ next \in Int
        BY <2>2, <3>1, IngestionAssumption DEF Messages, Pub!Sent
      <4>2. \A m \in Messages : m.fetched_at >= next => m # msg
        BY <4>1
      <4> QED BY <3>2, <4>2
    <3>4. queued'[msg] \in {1, 2} /\ (queued'[msg] = 2 => faults' > 0)
      BY <2>2, <3>1, <3>2 DEF Pub!Sent, Pub!Fault, Pub!Hit, FaultsOK
    <3>5. \A m \in Messages : queued'[m] <= 2 /\ (queued'[m] = 2 => faults' > 0)
      BY <2>2, <3>2, <3>4 DEF Pub!Sent, Pub!Fault, Pub!Hit
    <3>6. pub' \in {"again", "resend"} => queued'[msg] <= 1
      BY <2>2, <3>2, <3>4 DEF Pub!Sent, Pub!Catch
    <3> QED BY <2>0, <2>2, <3>3, <3>4, <3>5, <3>6 DEF Pub!Sent, Pub!Catch
  <2>3. CASE Pub!SentIntoTheVoid
    BY <2>0, <2>3 DEF Pub!SentIntoTheVoid, Pub!Catch, Pub!Take
  <2>4. CASE Pub!SendRaises
    BY <2>0, <2>4 DEF Pub!SendRaises, Pub!Catch, Pub!Take
  <2>5. CASE Pub!SendOnClosedChannel
    BY <2>0, <2>5 DEF Pub!SendOnClosedChannel, Pub!Catch, Pub!Take
  <2>6. CASE Pub!SendMeetsClose
    BY <2>0, <2>6 DEF Pub!SendMeetsClose
  <2> QED BY <1>6, <2>1, <2>2, <2>3, <2>4, <2>5, <2>6 DEF PublishStep, Pub!Step
<1>7. CASE PublishReturns
  BY <1>7 DEF PublishReturns, Pub!Return, Pub!Returned
<1>8. CASE CycleDone \/ TouchHeartbeat
  BY <1>8 DEF CycleDone, TouchHeartbeat
<1>9. CASE Wake
  BY <1>9 DEF Wake, Loop
<1>10. CASE Close
  BY <1>10 DEF Close, Pub!Gone
<1>11. CASE Signal
  BY <1>11 DEF Signal
<1>12. CASE Crash
  BY <1>12 DEF Crash, Pub!Crash, Pub!Fault, Pub!Hit, Pub!Gone
<1>13. CASE LinkFault
  <2>0. UNCHANGED <<control, cycle>>
    BY <1>13 DEF LinkFault
  <2>1. CASE Pub!ConnectRefused
    BY <2>0, <2>1 DEF Pub!ConnectRefused, Pub!Fault, Pub!Hit, Pub!TryAgain, Pub!Catch, Pub!Take
  <2>2. CASE Pub!ConnectBreaks
    BY <2>0, <2>2 DEF Pub!ConnectBreaks, Pub!Fault, Pub!Hit, Pub!TryAgain, Pub!Catch, Pub!Take
  <2>3. CASE Pub!ConnectRejected
    BY <2>0, <2>3 DEF Pub!ConnectRejected, Pub!Fault, Pub!Hit, Pub!TryAgain, Pub!Catch, Pub!Take
  <2>4. CASE Pub!SendTakenRaises
    <3>1. msg \in Messages /\ queued[msg] \in Nat
      BY <2>4 DEF Pub!SendTakenRaises
    <3>2. /\ queued'[msg] = queued[msg] + 1
          /\ \A m \in Messages \ {msg} : queued'[m] = queued[m]
      BY <2>4, <3>1 DEF Pub!SendTakenRaises, Pub!Take
    <3>3. \A m \in Messages : m.fetched_at >= next => queued'[m] = 0
      <4>1. msg.fetched_at \in Int /\ msg.fetched_at < next /\ next \in Int
        BY <2>4, <3>1, IngestionAssumption DEF Messages, Pub!SendTakenRaises
      <4>2. \A m \in Messages : m.fetched_at >= next => m # msg
        BY <4>1
      <4> QED BY <3>2, <4>2
    <3>4. queued'[msg] \in {1, 2} /\ (queued'[msg] = 2 => faults' > 0)
      BY <2>4, <3>1, <3>2 DEF Pub!SendTakenRaises, Pub!Fault, Pub!Hit, FaultsOK
    <3>5. \A m \in Messages : queued'[m] <= 2 /\ (queued'[m] = 2 => faults' > 0)
      BY <2>4, <3>2, <3>4 DEF Pub!SendTakenRaises, Pub!Fault, Pub!Hit
    <3>6. pub' \in {"again", "resend"} => queued'[msg] <= 1
      BY <2>4, <3>2, <3>4 DEF Pub!SendTakenRaises, Pub!Catch
    <3> QED BY <2>0, <2>4, <3>3, <3>4, <3>5, <3>6 DEF Pub!SendTakenRaises, Pub!Fault, Pub!Hit, Pub!Catch
  <2>6. CASE Pub!LoseLink
    BY <2>0, <2>6 DEF Pub!LoseLink, Pub!Fault, Pub!Hit, Pub!TryAgain, Pub!Catch, Pub!Take
  <2>7. CASE Pub!CloseChannel
    BY <2>0, <2>7 DEF Pub!CloseChannel, Pub!Fault, Pub!Hit, Pub!TryAgain, Pub!Catch, Pub!Take
  <2> QED BY <1>13, <2>1, <2>2, <2>3, <2>4, <2>6, <2>7 DEF LinkFault, Pub!FaultStep
<1>14. CASE UNCHANGED vars
  BY <1>14 DEF vars
<1> QED BY <1>1, <1>2, <1>3, <1>4, <1>5, <1>6, <1>7, <1>8, <1>9, <1>10, <1>11, <1>12, <1>13, <1>14
       DEF Next, MainStep

LEMMA NextCycle == TypeOK /\ LoopOK /\ CallOK /\ CycleOK /\ [Next]_vars => CycleOK'
<1> SUFFICES ASSUME TypeOK, LoopOK, CallOK, CycleOK, [Next]_vars PROVE CycleOK'
  OBVIOUS
<1> USE DEF CycleOK, CallOK, BeatsAfterWholeCycle, UnderWay, publisher, control,
     cycle, Pub!Connecting, Pub!Sending
<1>1. CASE Start
  BY <1>1 DEF Start, Pub!BeginConnect
<1>2. CASE Connected
  BY <1>2 DEF Connected, Loop, Pub!Return, Pub!Gone, Pub!Returned
<1>3. CASE PollOk
  BY <1>3 DEF PollOk
<1>4. CASE RateLimited \/ PollFails
  BY <1>4 DEF RateLimited, PollFails
<1>5. CASE PublishNext
  <2>1. PICK a \in states : states' = states \ {a} /\ msg' = [icao24 |-> a, fetched_at |-> next]
    BY <1>5 DEF PublishNext, Pub!BeginPublish
  <2>2. msg = NoMessage /\ msg' # NoMessage /\ msg'.icao24 = a
    BY <1>5, <2>1, RoomForNext, IngestionAssumption DEF PublishNext, Pub!BeginPublish
  <2>3. {m.icao24 : m \in (sent \cup UnderWay)'} = {m.icao24 : m \in sent} \cup {a}
    BY <1>5, <2>2 DEF PublishNext
  <2>4. {m.icao24 : m \in sent \cup UnderWay} = {m.icao24 : m \in sent}
    BY <2>2
  <2>5. polled = {m.icao24 : m \in sent} \cup states
    BY <1>5, <2>4 DEF PublishNext
  <2> QED BY <1>5, <2>1, <2>3, <2>5 DEF PublishNext
<1>6. CASE PublishStep
  BY <1>6 DEF PublishStep, Pub!Step, Pub!ConnectOk, Pub!Sent, Pub!SentIntoTheVoid,
     Pub!SendRaises, Pub!SendMeetsClose, Pub!SendOnClosedChannel, Pub!Replace, Pub!Catch, Pub!Take
<1>7. CASE PublishReturns
  BY <1>7 DEF PublishReturns, Pub!Return, Pub!Returned
<1>8. CASE CycleDone \/ TouchHeartbeat
  BY <1>8 DEF CycleDone, TouchHeartbeat
<1>9. CASE Wake
  BY <1>9 DEF Wake, Loop
<1>10. CASE Close
  BY <1>10 DEF Close, Pub!Gone
<1>11. CASE Signal
  BY <1>11 DEF Signal
<1>12. CASE Crash
  BY <1>12 DEF Crash, Pub!Crash, Pub!Fault, Pub!Hit, Pub!Gone
<1>13. CASE LinkFault
  BY <1>13 DEF LinkFault, Pub!FaultStep, Pub!ConnectRefused, Pub!ConnectBreaks,
     Pub!ConnectRejected, Pub!SendTakenRaises, Pub!LoseLink,
     Pub!CloseChannel, Pub!Fault, Pub!Hit, Pub!Replace, Pub!TryAgain, Pub!Catch, Pub!Take
<1>14. CASE UNCHANGED vars
  BY <1>14 DEF vars
<1> QED BY <1>1, <1>2, <1>3, <1>4, <1>5, <1>6, <1>7, <1>8, <1>9, <1>10, <1>11, <1>12, <1>13, <1>14
       DEF Next, MainStep

LEMMA NextIInv == IInv /\ [Next]_vars => IInv'
BY NextType, NextLoop, NextCall, NextLink, NextFaults, NextCopies, NextCycle DEF IInv

LEMMA Invariance == Spec => []IInv
BY InitIInv, NextIInv, PTL DEF Spec

-----------------------------------------------------------------------------

(***************************************************************************)
(* Type correctness of the loop and of the publisher.                      *)
(***************************************************************************)
THEOREM TypeCorrect == Spec => []TypeOK
<1>1. IInv => TypeOK
  BY DEF IInv
<1> QED BY <1>1, Invariance, PTL

(***************************************************************************)
(* Every message goes out on the channel of the connection opened last.    *)
(***************************************************************************)
THEOREM OneChannelAtATime == Spec => []SendsOnCurrent
<1>1. IInv => SendsOnCurrent
  BY DEF IInv, LinkOK
<1> QED BY <1>1, Invariance, PTL

(***************************************************************************)
(* However many faults a publisher has recovered from, a publish fails     *)
(* with an error it catches only after two more.                           *)
(***************************************************************************)
THEOREM SecondAttemptSuffices == Spec => []SingleFaultSurvived
<1>1. IInv => SingleFaultSurvived
  BY DEF IInv, FaultsOK
<1> QED BY <1>1, Invariance, PTL

(***************************************************************************)
(* Each connection that is replaced while open cost a fault of its own:    *)
(* the faults not yet spent on one cover the channel found closed.         *)
(***************************************************************************)
THEOREM ForgottenAreFew == Spec => []ForgottenNeedFaults
<1>1. IInv => ForgottenNeedFaults
  BY DEF IInv, FaultsOK, Stale, TypeOK, Pub!TypeOK, ForgottenNeedFaults, Pub!ForgottenNeedFaults
<1> QED BY <1>1, Invariance, PTL

(***************************************************************************)
(* A message is published once, in two copies at most, the second one      *)
(* after a fault.                                                          *)
(***************************************************************************)
THEOREM NoThirdCopy == Spec => []TwoCopiesAtMost
<1>1. IInv => TwoCopiesAtMost
  BY DEF IInv, CopiesOK
<1> QED BY <1>1, Invariance, PTL

(***************************************************************************)
(* publish() returns for a message the broker took, or wrote to a channel  *)
(* of whose end nothing had been read.                                     *)
(***************************************************************************)
THEOREM NoKnownLoss == Spec => []LostOnlyUnnoticed
<1>1. IInv => LostOnlyUnnoticed
  BY DEF IInv, CopiesOK
<1> QED BY <1>1, Invariance, PTL

(***************************************************************************)
(* The heartbeat is touched only after everything polled was published.    *)
(***************************************************************************)
THEOREM HeartbeatsAreHonest == Spec => []BeatsAfterWholeCycle
<1>1. IInv => BeatsAfterWholeCycle
  BY DEF IInv, CycleOK
<1> QED BY <1>1, Invariance, PTL

(***************************************************************************)
(* No failure of a poll or a publish ends the loop.                        *)
(***************************************************************************)
THEOREM ErrorsNeverStop == Spec => []OnlySignalStops
<1>1. IInv => OnlySignalStops
  BY DEF IInv, LoopOK
<1> QED BY <1>1, Invariance, PTL

-----------------------------------------------------------------------------
(* Where nothing happens behind pika's back *)

(* The faults left are those that show in the call they happen in.         *)
NothingUnread == Faults \cap {"link", "channel"} = {}

(* An open channel reaches the broker; a write that succeeds is taken.     *)
LiveOK ==
  /\ chan = "open" => far = "open"
  /\ pub = "ok" /\ msg # NoMessage => queued[msg] > 0
  /\ SentIsQueued

(* The broker gives nothing back.                                          *)
LEMMA NothingUnqueued ==
  TypeOK /\ [Next]_vars => \A m \in Messages : queued'[m] >= queued[m]
<1> SUFFICES ASSUME TypeOK, [Next]_vars PROVE \A m \in Messages : queued'[m] >= queued[m]
  OBVIOUS
<1> USE DEF TypeOK, Pub!TypeOK, publisher, control, cycle
<1>1. CASE PublishStep
  BY <1>1 DEF PublishStep, Pub!Step, Pub!ConnectOk, Pub!Sent, Pub!SentIntoTheVoid,
     Pub!SendRaises, Pub!SendMeetsClose, Pub!SendOnClosedChannel, Pub!Replace, Pub!Catch, Pub!Take
<1>2. CASE LinkFault
  BY <1>2 DEF LinkFault, Pub!FaultStep, Pub!ConnectRefused, Pub!ConnectBreaks,
     Pub!ConnectRejected, Pub!SendTakenRaises, Pub!LoseLink,
     Pub!CloseChannel, Pub!Take
<1>3. CASE Start \/ Connected \/ PublishNext \/ PublishReturns \/ Close \/ Crash
  BY <1>3 DEF Start, Connected, PublishNext, PublishReturns, Close, Crash, Pub!BeginConnect,
     Pub!BeginPublish, Pub!Return, Pub!Gone, Pub!Crash
<1>4. CASE PollOk \/ RateLimited \/ PollFails \/ CycleDone \/ TouchHeartbeat \/ Wake \/ Signal
  BY <1>4 DEF PollOk, RateLimited, PollFails, CycleDone, TouchHeartbeat, Wake, Signal
<1>5. CASE UNCHANGED vars
  BY <1>5 DEF vars
<1> QED BY <1>1, <1>2, <1>3, <1>4, <1>5 DEF Next, MainStep

LEMMA NextLive == NothingUnread /\ IInv /\ LiveOK /\ [Next]_vars => LiveOK'
<1> SUFFICES ASSUME NothingUnread, IInv, LiveOK, [Next]_vars PROVE LiveOK'
  OBVIOUS
<1>0. TypeOK /\ LoopOK /\ CallOK /\ LinkOK
  BY DEF IInv
<1>1. \A m \in Messages : queued[m] > 0 => queued'[m] > 0
  <2>1. \A m \in Messages : queued[m] \in Nat /\ queued'[m] \in Nat
    BY <1>0, NextType DEF TypeOK, Pub!TypeOK
  <2>2. \A m \in Messages : queued'[m] >= queued[m]
    BY <1>0, NothingUnqueued
  <2> QED BY <2>1, <2>2
<1> HIDE DEF IInv
<1> USE <1>0 DEF LinkOK, CallOK, TypeOK, Pub!TypeOK, SendsOnCurrent, Pub!SendsOnCurrent,
     publisher, control, cycle, Pub!Connecting, Pub!Sending, NothingUnread
<1>2. (chan = "open" => far = "open")'
  <2>1. CASE PublishStep
    BY <2>1 DEF LiveOK, PublishStep, Pub!Step, Pub!ConnectOk, Pub!Sent, Pub!SentIntoTheVoid,
       Pub!SendRaises, Pub!SendMeetsClose, Pub!SendOnClosedChannel, Pub!Replace, Pub!Catch, Pub!Take
  <2>2. CASE LinkFault
    BY <2>2 DEF LiveOK, LinkFault, Pub!FaultStep, Pub!ConnectRefused, Pub!ConnectBreaks,
       Pub!ConnectRejected, Pub!SendTakenRaises, Pub!LoseLink,
       Pub!CloseChannel, Pub!Fault, Pub!Hit, Pub!Replace, Pub!TryAgain, Pub!Catch, Pub!Take
  <2>3. CASE Start \/ Connected \/ PublishNext \/ PublishReturns \/ Close \/ Crash
    BY <2>3 DEF LiveOK, Start, Connected, PublishNext, PublishReturns, Close, Crash,
       Pub!BeginConnect, Pub!BeginPublish, Pub!Return, Pub!Gone, Pub!Crash
  <2>4. CASE PollOk \/ RateLimited \/ PollFails \/ CycleDone \/ TouchHeartbeat \/ Wake \/ Signal
    BY <2>4 DEF LiveOK, PollOk, RateLimited, PollFails, CycleDone, TouchHeartbeat, Wake, Signal
  <2>5. CASE UNCHANGED vars
    BY <2>5 DEF LiveOK, vars
  <2> QED BY <2>1, <2>2, <2>3, <2>4, <2>5 DEF Next, MainStep
<1>3. (pub = "ok" /\ msg # NoMessage => queued[msg] > 0)'
  <2>1. CASE PublishStep
    BY <2>1 DEF LiveOK, PublishStep, Pub!Step, Pub!ConnectOk, Pub!Sent, Pub!SentIntoTheVoid,
       Pub!SendRaises, Pub!SendMeetsClose, Pub!SendOnClosedChannel, Pub!Replace, Pub!Catch, Pub!Take
  <2>2. CASE LinkFault
    BY <2>2, <1>1 DEF LiveOK, LinkFault, Pub!FaultStep, Pub!ConnectRefused, Pub!ConnectBreaks,
       Pub!ConnectRejected, Pub!SendTakenRaises, Pub!LoseLink,
       Pub!CloseChannel, Pub!TryAgain, Pub!Catch
  <2>3. CASE Start \/ Connected \/ PublishNext \/ PublishReturns \/ Close \/ Crash
    BY <2>3 DEF LiveOK, Start, Connected, PublishNext, PublishReturns, Close, Crash,
       Pub!BeginConnect, Pub!BeginPublish, Pub!Return, Pub!Gone, Pub!Crash
  <2>4. CASE PollOk \/ RateLimited \/ PollFails \/ CycleDone \/ TouchHeartbeat \/ Wake \/ Signal
    BY <2>4 DEF LiveOK, PollOk, RateLimited, PollFails, CycleDone, TouchHeartbeat, Wake, Signal
  <2>5. CASE UNCHANGED vars
    BY <2>5 DEF LiveOK, vars
  <2> QED BY <2>1, <2>2, <2>3, <2>4, <2>5 DEF Next, MainStep
<1>4. SentIsQueued'
  <2>1. CASE PublishReturns
    <3>1. sent' \subseteq sent \cup UnderWay /\ (msg \in sent' \ sent => pub = "ok")
      BY <2>1 DEF PublishReturns, UnderWay
    <3>2. \A m \in sent' : queued[m] > 0
      BY <3>1 DEF LiveOK, SentIsQueued, UnderWay
    <3>3. sent' \subseteq Messages
      BY <3>1 DEF UnderWay
    <3> QED BY <3>2, <3>3, <1>1 DEF SentIsQueued
  <2>2. CASE PublishNext
    <3>1. sent' = sent
      BY <2>2 DEF PublishNext
    <3> QED BY <3>1, <1>1 DEF LiveOK, SentIsQueued
  <2>3. CASE ~PublishReturns /\ ~PublishNext
    <3>1. sent' \subseteq sent
      BY <2>3 DEF Next, MainStep, vars, Start, Connected, PollOk, RateLimited, PollFails,
         PublishStep, CycleDone, TouchHeartbeat, Wake, Close, Signal, Crash, LinkFault
    <3> QED BY <3>1, <1>1 DEF LiveOK, SentIsQueued
  <2> QED BY <2>1, <2>2, <2>3
<1> QED BY <1>2, <1>3, <1>4 DEF LiveOK

(***************************************************************************)
(* A link that dies and a channel that the broker closes, before pika has  *)
(* read of it, are the only faults behind which publish() breaks its word  *)
(* (publisher.py:67): without them, whatever refused connects,             *)
(* rejected declarations, connections that break while they are opened,    *)
(* lost answers, crashes and restarts do, a message for which it returned  *)
(* was taken.                                                              *)
(***************************************************************************)
THEOREM NoSilentLoss == ASSUME NothingUnread PROVE Spec => []SentIsQueued
<1>1. Init => LiveOK
  BY DEF Init, Pub!Init, LiveOK, SentIsQueued
<1>2. LiveOK => SentIsQueued
  BY DEF LiveOK
<1>3. IInv /\ LiveOK /\ [Next]_vars => LiveOK'
  BY NextLive
<1> QED BY <1>1, <1>2, <1>3, Invariance, PTL DEF Spec

-----------------------------------------------------------------------------
(* Once asked to stop, the loop runs out of steps *)

(* Steps a call of the publisher still takes at most: the attempts to      *)
(* connect that are left, for each of the two attempts to send.            *)
CallLeft ==
  CASE pub = "idle"            -> 0
    [] pub \in Pub!Returned -> 1
    [] pub = "connect"         -> 1 + (ConnectAttempts - attempts)
    [] pub = "resend"          -> 2
    [] pub = "again"           -> 2 + (ConnectAttempts - attempts)
    [] pub = "send"            -> 3 + ConnectAttempts
    [] pub = "reconnect"       -> 3 + ConnectAttempts + (ConnectAttempts - attempts)

(* And the loop, once it has been asked to stop: the messages of one poll  *)
(* at most, each with the steps of a call and the one that makes it.       *)
PerMessage == 4 + 2 * ConnectAttempts
StepsFor(S) == Cardinality(S) * PerMessage
ToGo ==
  CASE stage = "down"       -> 0
    [] stage = "stopped"    -> 1
    [] stage = "sleeping"   -> 2
    [] stage = "touching"   -> 3
    [] stage = "connecting" -> 2 + CallLeft
    [] stage = "publishing" -> 4 + StepsFor(states) + CallLeft
    [] stage = "polling"    -> 5 + StepsFor(Aircraft) + (PollAttempts - tries)
MostSteps ==
  7 + StepsFor(Aircraft) + PollAttempts + 2 * ConnectAttempts

StepsLeft == ToGo \in 0..MostSteps
CallBounded ==
  /\ CallLeft \in 0..(3 + 2 * ConnectAttempts)
  /\ CallLeft = 0 <=> pub = "idle"

StepsRunOut == shutdown => (MainStep => ToGo' < ToGo) /\ ToGo' <= ToGo

LEMMA Products ==
  \A n, m, k \in Nat :
    /\ n * k \in Nat
    /\ (n + 1) * k = n * k + k
    /\ n <= m => n * k <= m * k
<1> SUFFICES ASSUME NEW n \in Nat, NEW m \in Nat, NEW k \in Nat
             PROVE  /\ n * k \in Nat
                    /\ (n + 1) * k = n * k + k
                    /\ n <= m => n * k <= m * k
  OBVIOUS
<1>1. n * k \in Nat /\ (n + 1) * k = n * k + k
  OBVIOUS
<1>2. ASSUME n <= m PROVE n * k <= m * k
  <2>1. m = n + (m - n) /\ m - n \in Nat
    BY <1>2
  <2>2. m * k = n * k + (m - n) * k /\ (m - n) * k \in Nat
    BY <2>1
  <2> QED BY <1>1, <2>2
<1> QED BY <1>1, <1>2

LEMMA CallLeftBound == TypeOK /\ CallOK => CallBounded
<1> SUFFICES ASSUME TypeOK, CallOK PROVE CallBounded
  OBVIOUS
<1>1. ConnectAttempts \in Nat /\ attempts \in Nat /\ attempts <= ConnectAttempts
  BY IngestionAssumption DEF TypeOK, Pub!TypeOK
<1>2. pub \in {"idle", "ok", "failed", "chanclosed", "connect", "resend", "again", "send", "reconnect"}
  BY DEF TypeOK, Pub!TypeOK, Pub!Connecting, Pub!Sending, Pub!Returned
<1> HIDE DEF TypeOK, CallOK
<1> QED BY <1>1, <1>2 DEF CallBounded, CallLeft, Pub!Returned

LEMMA StepsForPoll ==
  \A S \in SUBSET Aircraft :
    /\ StepsFor(S) \in Nat
    /\ StepsFor(S) <= StepsFor(Aircraft)
    /\ \A a \in S : StepsFor(S \ {a}) = StepsFor(S) - PerMessage
<1> SUFFICES ASSUME NEW S \in SUBSET Aircraft
             PROVE  /\ StepsFor(S) \in Nat
                    /\ StepsFor(S) <= StepsFor(Aircraft)
                    /\ \A a \in S : StepsFor(S \ {a}) = StepsFor(S) - PerMessage
  OBVIOUS
<1>1. PerMessage \in Nat
  BY IngestionAssumption DEF PerMessage
<1>2. /\ IsFiniteSet(S) /\ Cardinality(S) \in Nat /\ Cardinality(Aircraft) \in Nat
      /\ Cardinality(S) <= Cardinality(Aircraft)
  BY IngestionAssumption, FS_Subset, FS_CardinalityType
<1>3. ASSUME NEW a \in S
      PROVE  Cardinality(S \ {a}) * PerMessage = Cardinality(S) * PerMessage - PerMessage
  <2>1. Cardinality(S \ {a}) = Cardinality(S) - 1 /\ Cardinality(S \ {a}) \in Nat
    BY <1>2, FS_RemoveElement, FS_CardinalityType
  <2>2. Cardinality(S) = Cardinality(S \ {a}) + 1
    BY <1>2, <2>1
  <2>3. /\ Cardinality(S) * PerMessage = Cardinality(S \ {a}) * PerMessage + PerMessage
        /\ Cardinality(S \ {a}) * PerMessage \in Nat
    BY <1>1, <2>1, <2>2, Products
  <2> QED BY <1>1, <2>3
<1> QED BY <1>1, <1>2, <1>3, Products DEF StepsFor

LEMMA ToGoBound == TypeOK /\ CallOK => StepsLeft
<1> SUFFICES ASSUME TypeOK, CallOK PROVE StepsLeft
  OBVIOUS
<1>1. /\ StepsFor(states) \in Nat
      /\ StepsFor(Aircraft) \in Nat
      /\ StepsFor(states) <= StepsFor(Aircraft)
  BY StepsForPoll DEF TypeOK
<1>2. CallLeft \in Nat /\ CallLeft <= 3 + 2 * ConnectAttempts /\ ConnectAttempts \in Nat
  BY CallLeftBound, IngestionAssumption DEF CallBounded
<1>3. PollAttempts \in Nat /\ tries \in Nat /\ tries <= PollAttempts
  BY IngestionAssumption DEF TypeOK
<1>4. stage \in Stages
  BY DEF TypeOK
<1> HIDE DEF TypeOK, CallOK, PerMessage, CallLeft
<1>5. MostSteps \in Nat
  BY <1>1, <1>2, <1>3 DEF MostSteps
<1>6. ToGo \in Nat /\ ToGo <= MostSteps
  <2>1. CASE stage \in {"down", "stopped", "sleeping", "touching"}
    BY <2>1, <1>1, <1>2, <1>3 DEF ToGo, MostSteps
  <2>2. CASE stage = "connecting"
    BY <2>2, <1>1, <1>2, <1>3 DEF ToGo, MostSteps
  <2>3. CASE stage = "publishing"
    BY <2>3, <1>1, <1>2, <1>3 DEF ToGo, MostSteps
  <2>4. CASE stage = "polling"
    BY <2>4, <1>1, <1>2, <1>3 DEF ToGo, MostSteps
  <2> QED BY <1>4, <2>1, <2>2, <2>3, <2>4 DEF Stages
<1> QED BY <1>5, <1>6 DEF StepsLeft

(* What is left of a call, step by step.                                   *)
LEMMA NextCallLeft ==
  TypeOK /\ CallOK =>
    /\ Pub!Step \/ Pub!ConnectRefused \/ Pub!ConnectBreaks \/ Pub!ConnectRejected
         \/ Pub!SendTakenRaises => CallLeft' < CallLeft
    /\ Pub!LoseLink \/ Pub!CloseChannel => CallLeft' = CallLeft
    /\ Pub!Return => CallLeft' = 0 /\ CallLeft = 1
    /\ \A m \in Messages : Pub!BeginPublish(m) => CallLeft' < PerMessage
<1> SUFFICES ASSUME TypeOK, CallOK
             PROVE  /\ Pub!Step \/ Pub!ConnectRefused \/ Pub!ConnectBreaks \/ Pub!ConnectRejected
                         \/ Pub!SendTakenRaises => CallLeft' < CallLeft
                    /\ Pub!LoseLink \/ Pub!CloseChannel => CallLeft' = CallLeft
                    /\ Pub!Return => CallLeft' = 0 /\ CallLeft = 1
                    /\ \A m \in Messages : Pub!BeginPublish(m) => CallLeft' < PerMessage
  OBVIOUS
<1>1. /\ ConnectAttempts \in Nat /\ attempts \in Nat /\ attempts <= ConnectAttempts
      /\ pub \in {"connect", "reconnect", "again"} => attempts < ConnectAttempts
  BY IngestionAssumption DEF TypeOK, Pub!TypeOK, CallOK, Pub!Connecting
<1> HIDE DEF TypeOK, CallOK
<1> USE <1>1 DEF CallLeft, Pub!Connecting, Pub!Sending, Pub!Returned
<1>2. Pub!Step => CallLeft' < CallLeft
  <2>1. Pub!ConnectOk => CallLeft' < CallLeft
    BY DEF Pub!ConnectOk
  <2>2. Pub!Sent \/ Pub!SentIntoTheVoid => CallLeft' < CallLeft
    BY DEF Pub!Sent, Pub!SentIntoTheVoid
  <2>3. Pub!SendRaises \/ Pub!SendMeetsClose \/ Pub!SendOnClosedChannel => CallLeft' < CallLeft
    BY DEF Pub!SendRaises, Pub!SendMeetsClose, Pub!SendOnClosedChannel, Pub!Catch
  <2> QED BY <2>1, <2>2, <2>3 DEF Pub!Step
<1>3. Pub!ConnectRefused \/ Pub!ConnectBreaks => CallLeft' < CallLeft
  BY DEF Pub!ConnectRefused, Pub!ConnectBreaks, Pub!TryAgain
<1>4. Pub!ConnectRejected => CallLeft' < CallLeft
  BY DEF Pub!ConnectRejected
<1>5. Pub!SendTakenRaises => CallLeft' < CallLeft
  BY DEF Pub!SendTakenRaises, Pub!Catch
<1>6. Pub!LoseLink \/ Pub!CloseChannel => CallLeft' = CallLeft
  BY DEF Pub!LoseLink, Pub!CloseChannel
<1>7. Pub!Return => CallLeft' = 0 /\ CallLeft = 1
  BY DEF Pub!Return
<1>8. ASSUME NEW m \in Messages, Pub!BeginPublish(m) PROVE CallLeft' < PerMessage
  BY <1>8 DEF Pub!BeginPublish, PerMessage
<1> QED BY <1>2, <1>3, <1>4, <1>5, <1>6, <1>7, <1>8

LEMMA NextStepsRunOut ==
  IInv /\ StepsLeft /\ CallBounded /\ StepsLeft' /\ CallBounded' /\ [Next]_vars => StepsRunOut
<1> SUFFICES ASSUME IInv, StepsLeft, CallBounded, StepsLeft', CallBounded', [Next]_vars, shutdown
             PROVE  (MainStep => ToGo' < ToGo) /\ ToGo' <= ToGo
  BY DEF StepsRunOut
<1>1. TypeOK /\ LoopOK /\ CallOK
  BY DEF IInv
<1>2. /\ ToGo \in Nat /\ ToGo' \in Nat
      /\ CallLeft \in Nat /\ CallLeft' \in Nat
      /\ CallLeft = 0 <=> pub = "idle"
      /\ CallLeft' = 0 <=> pub' = "idle"
  BY IngestionAssumption DEF StepsLeft, CallBounded
<1>3. StepsFor(states) \in Nat /\ StepsFor(Aircraft) \in Nat
  BY <1>1, StepsForPoll DEF TypeOK
<1>4. /\ tries \in Nat /\ PollAttempts \in Nat /\ tries <= PollAttempts
      /\ PerMessage \in Nat
  BY <1>1, IngestionAssumption DEF TypeOK, PerMessage
<1> USE <1>2, <1>3, <1>4 DEF ToGo
<1>5. stage # "down" /\ ~Start
  BY <1>1 DEF LoopOK, Start
<1>0. Loop => stage' = "stopped"
  BY Zenon DEF Loop
<1>6. Connected \/ RateLimited \/ PollFails \/ CycleDone \/ TouchHeartbeat \/ Wake \/ Close
        => ToGo' < ToGo
  <2> HIDE DEF PerMessage, CallLeft, IInv, StepsLeft, CallBounded
  <2>1. Connected => ToGo' < ToGo
    <3> SUFFICES ASSUME Connected PROVE ToGo' < ToGo
      OBVIOUS
    <3>1. stage = "connecting" /\ pub # "idle" /\ stage' \in {"stopped", "down"}
      BY <1>0 DEF Connected
    <3> QED BY <3>1
  <2>2. RateLimited => ToGo' < ToGo
    BY <1>1 DEF RateLimited, publisher, cycle, LoopOK
  <2>3. /\ PollFails => ToGo' < ToGo
        /\ TouchHeartbeat => ToGo' < ToGo
        /\ Close => ToGo' < ToGo
    <3>1. PollFails => ToGo' < ToGo
      BY DEF PollFails
    <3>2. TouchHeartbeat => ToGo' < ToGo
      BY DEF TouchHeartbeat
    <3>3. Close => ToGo' < ToGo
      BY DEF Close
    <3> QED BY <3>1, <3>2, <3>3
  <2>4. Wake => ToGo' < ToGo
    BY <1>0 DEF Wake
  <2>5. CycleDone => ToGo' < ToGo
    BY DEF CycleDone
  <2> QED BY <2>1, <2>2, <2>3, <2>4, <2>5
<1>7. PollOk => ToGo' < ToGo
  <2> SUFFICES ASSUME PollOk PROVE ToGo' < ToGo
    OBVIOUS
  <2>1. /\ states' \subseteq Aircraft /\ stage = "polling" /\ stage' = "publishing"
        /\ pub' = pub
    BY DEF PollOk, publisher
  <2>2. pub = "idle"
    BY <2>1, <1>1 DEF CallOK
  <2>3. StepsFor(states') \in Nat /\ StepsFor(states') <= StepsFor(Aircraft)
    BY <2>1, StepsForPoll
  <2>4. CallLeft' = 0 /\ PerMessage' = PerMessage
    BY <2>1, <2>2 DEF PerMessage, CallLeft
  <2>5. ToGo' = 4 + StepsFor(states')
    BY <2>1, <2>3, <2>4
  <2>6. ToGo = 5 + StepsFor(Aircraft) + (PollAttempts - tries)
    BY <2>1
  <2> HIDE DEF PerMessage, ToGo
  <2> QED BY <2>3, <2>5, <2>6
<1>8. PublishNext => ToGo' < ToGo
  <2> SUFFICES ASSUME PublishNext PROVE ToGo' < ToGo
    OBVIOUS
  <2>1. PICK a \in states : states' = states \ {a} /\ Pub!BeginPublish([icao24 |-> a, fetched_at |-> next])
    BY DEF PublishNext
  <2>2. stage = "publishing" /\ stage' = stage /\ pub = "idle"
    BY <2>1 DEF PublishNext, control, Pub!BeginPublish
  <2>3. CallLeft' < PerMessage
    BY <2>1, <1>1, RoomForNext, NextCallLeft
  <2>4. StepsFor(states') = StepsFor(states) - PerMessage
    BY <2>1, <1>1, StepsForPoll DEF TypeOK
  <2>5. ToGo = 4 + StepsFor(states) + CallLeft
    BY <2>2
  <2>6. ToGo' = 4 + (StepsFor(states) - PerMessage) + CallLeft'
    BY <2>2, <2>4
  <2> HIDE DEF PerMessage, ToGo, CallLeft
  <2> QED BY <2>3, <2>5, <2>6
<1>9. ASSUME stage' = stage, states' = states, pub # "idle"
      PROVE  ToGo' - ToGo = CallLeft' - CallLeft
  <2>1. stage \in {"connecting", "publishing"} /\ StepsFor(states') = StepsFor(states)
    BY <1>1, <1>9 DEF CallOK, TypeOK, Stages
  <2> HIDE DEF PerMessage, CallLeft, IInv, StepsLeft, CallBounded
  <2> QED BY <1>9, <2>1
<1>10. PublishStep => ToGo' < ToGo
  <2> SUFFICES ASSUME PublishStep PROVE ToGo' < ToGo
    OBVIOUS
  <2>1. CallLeft' < CallLeft
    BY <1>1, NextCallLeft DEF PublishStep
  <2>2. ToGo' - ToGo = CallLeft' - CallLeft
    BY <1>9 DEF PublishStep, control, cycle
  <2> HIDE DEF ToGo, CallLeft
  <2> QED BY <2>1, <2>2
<1>11. PublishReturns => ToGo' < ToGo
  <2> SUFFICES ASSUME PublishReturns PROVE ToGo' < ToGo
    OBVIOUS
  <2>1. CallLeft' = 0 /\ CallLeft = 1 /\ pub # "idle" /\ stage = "publishing"
    BY <1>1, NextCallLeft DEF PublishReturns, Pub!Return, Pub!Returned
  <2>2. CASE stage' = stage /\ states' = states
    <3>1. ToGo' - ToGo = CallLeft' - CallLeft
      BY <1>9, <2>1, <2>2
    <3>2. CallLeft' < CallLeft
      BY <2>1
    <3> HIDE DEF ToGo, CallLeft
    <3> QED BY <3>1, <3>2
  <2>3. CASE stage' = "sleeping"
    <3> HIDE DEF CallLeft
    <3> QED BY <2>1, <2>3
  <2> QED BY <2>2, <2>3 DEF PublishReturns
<1>12. LinkFault => ToGo' <= ToGo
  <2> SUFFICES ASSUME LinkFault PROVE ToGo' <= ToGo
    OBVIOUS
  <2>1. stage' = stage /\ states' = states /\ tries' = tries
    BY DEF LinkFault, control, cycle
  <2>2. CASE Pub!LoseLink \/ Pub!CloseChannel
    <3>1. CallLeft' = CallLeft
      BY <1>1, <2>2, NextCallLeft
    <3>2. ToGo' = ToGo
      BY <2>1, <3>1, Zenon
    <3> HIDE DEF ToGo
    <3> QED BY <3>2
  <2>3. CASE Pub!ConnectRefused \/ Pub!ConnectBreaks \/ Pub!ConnectRejected
               \/ Pub!SendTakenRaises
    <3>1. CallLeft' < CallLeft
      BY <1>1, <2>3, NextCallLeft
    <3>2. pub # "idle"
      BY <2>3 DEF Pub!ConnectRefused, Pub!ConnectBreaks, Pub!ConnectRejected,
         Pub!SendTakenRaises, Pub!Connecting, Pub!Sending
    <3>3. ToGo' - ToGo = CallLeft' - CallLeft
      BY <1>9, <2>1, <3>2
    <3> HIDE DEF ToGo, CallLeft
    <3> QED BY <3>1, <3>3
  <2> QED BY <2>2, <2>3 DEF LinkFault, Pub!FaultStep
<1>13. Signal => ToGo' <= ToGo
  <2> SUFFICES ASSUME Signal PROVE ToGo' <= ToGo
    OBVIOUS
  <2>1. stage' = stage /\ states' = states /\ tries' = tries /\ CallLeft' = CallLeft
    BY DEF Signal, publisher, cycle, CallLeft
  <2>2. ToGo' = ToGo
    BY <2>1, Zenon
  <2> HIDE DEF ToGo
  <2> QED BY <2>2
<1>14. Crash => ToGo' <= ToGo
  <2> SUFFICES ASSUME Crash PROVE ToGo' <= ToGo
    OBVIOUS
  <2>1. stage' = "down"
    BY DEF Crash
  <2>2. ToGo' = 0
    BY <2>1
  <2> HIDE DEF ToGo
  <2> QED BY <2>2
<1>15. UNCHANGED vars => ToGo' = ToGo
  <2> SUFFICES ASSUME UNCHANGED vars PROVE ToGo' = ToGo
    OBVIOUS
  <2>1. stage' = stage /\ states' = states /\ tries' = tries /\ CallLeft' = CallLeft
    BY DEF vars, control, cycle, publisher, CallLeft
  <2> HIDE DEF CallLeft
  <2> QED BY <2>1
<1>16. MainStep => ToGo' < ToGo
  <2> HIDE DEF ToGo
  <2> QED BY <1>5, <1>6, <1>7, <1>8, <1>10, <1>11 DEF MainStep
<1>17. ToGo' <= ToGo
  <2> HIDE DEF ToGo
  <2> QED BY <1>12, <1>13, <1>14, <1>15, <1>16 DEF Next
<1> QED BY <1>16, <1>17

(***************************************************************************)
(* A signal ends the process in a bounded number of steps                  *)
(* (ingestion/main.py:31): once it is noted, every step of the loop and of *)
(* the call it is in, an error included, is one of at most MostSteps,      *)
(* whatever is polled and whatever RabbitMQ does.  With the fairness of    *)
(* FairSpec this is why ShutdownEnds holds.                                *)
(***************************************************************************)
THEOREM SignalIsObeyed == Spec => [](StepsLeft /\ CallBounded) /\ [][StepsRunOut]_vars
<1>1. IInv => StepsLeft /\ CallBounded
  BY CallLeftBound, ToGoBound DEF IInv
<1>2. IInv /\ (StepsLeft /\ CallBounded) /\ (StepsLeft /\ CallBounded)' /\ [Next]_vars => StepsRunOut
  BY NextStepsRunOut
<1> QED BY <1>1, <1>2, Invariance, PTL DEF Spec

=============================================================================
