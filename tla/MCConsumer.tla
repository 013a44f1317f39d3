------------------------------ MODULE MCConsumer ------------------------------
(***************************************************************************)
(* Consumer under every kind of fault at once, liveness included.  A       *)
(* behaviour is either one in which the database and the weather service   *)
(* serve every call (served), or one in which they may fail as well; the   *)
(* other bounds are MaxMessages, MaxFaults and ConnectAttempts.            *)
(***************************************************************************)
EXTENDS Consumer

VARIABLE served

MCInit == Init /\ served \in BOOLEAN

MCNext ==
  /\ UNCHANGED served
  /\ \/ \E a \in Aircraft : Publish(a)
     \/ Deliver \/ AckOrNack \/ LoseAmqp
     \/ StartProcess \/ ConnectPostgres \/ ConnectRabbitmq \/ ConnectFails
     \/ Heartbeat \/ Stop \/ Exit \/ Crash
     \/ \E w \in Workers : WorkerStep(w) \/ (~served /\ (EnrichFails(w) \/ StoreFails(w)))
     \/ ~served /\ LosePostgres

MCSpec == MCInit /\ [][MCNext]_<<vars, served>> /\ Fairness

(***************************************************************************)
(* While the database and the weather service serve every call, nothing    *)
(* published is lost (README.md:49): crashes, shutdowns, lost connections  *)
(* and redelivery never end in a nack.                                     *)
(***************************************************************************)
ServedMeansNothingDropped == served => NothingDropped

=============================================================================
