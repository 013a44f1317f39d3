----------------------------- MODULE FlightStore -----------------------------
(***************************************************************************)
(* What FlightRepository.upsert_flight promises to the threads that call   *)
(* it: a call changes both tables in one indivisible step or neither; a    *)
(* call that returns has changed them exactly once; a call that raises has *)
(* changed them at most once (the answer to a COMMIT may be lost).         *)
(***************************************************************************)
EXTENDS FlightTables

CONSTANT Workers

VARIABLES
  db,      \* the committed tables
  phase,   \* where each thread is with its call
  arg      \* what each thread's call is to store

vars == <<db, phase, arg>>

Phases == {"idle", "pending", "ok", "failed"}

TypeOK ==
  /\ db \in Tables
  /\ phase \in [Workers -> Phases]
  /\ arg \in [Workers -> Flight \cup {NoFlight}]

Init ==
  /\ db = EmptyTables
  /\ phase = [w \in Workers |-> "idle"]
  /\ arg = [w \in Workers |-> NoFlight]

Submit(w, f) ==
  /\ phase[w] = "idle"
  /\ phase' = [phase EXCEPT ![w] = "pending"]
  /\ arg' = [arg EXCEPT ![w] = f]
  /\ UNCHANGED db

Store(w) ==
  /\ phase[w] = "pending"
  /\ db' = Both(db, arg[w])
  /\ phase' = [phase EXCEPT ![w] = "ok"]
  /\ UNCHANGED arg

StoreUnanswered(w) ==
  /\ phase[w] = "pending"
  /\ db' = Both(db, arg[w])
  /\ phase' = [phase EXCEPT ![w] = "failed"]
  /\ UNCHANGED arg

Refuse(w) ==
  /\ phase[w] = "pending"
  /\ phase' = [phase EXCEPT ![w] = "failed"]
  /\ UNCHANGED <<db, arg>>

(* Called before connect(): nothing is ever pending.                       *)
Reject(w, f) ==
  /\ phase[w] = "idle"
  /\ phase' = [phase EXCEPT ![w] = "failed"]
  /\ arg' = [arg EXCEPT ![w] = f]
  /\ UNCHANGED db

Return(w) ==
  /\ phase[w] \in {"ok", "failed"}
  /\ phase' = [phase EXCEPT ![w] = "idle"]
  /\ arg' = [arg EXCEPT ![w] = NoFlight]
  /\ UNCHANGED db

(* The process is gone.  Of the calls it leaves behind at most one may     *)
(* still have taken effect.                                                *)
Vanish ==
  /\ phase' = [w \in Workers |-> "idle"]
  /\ arg' = [w \in Workers |-> NoFlight]
  /\ \/ UNCHANGED db
     \/ \E w \in Workers : phase[w] = "pending" /\ db' = Both(db, arg[w])

Next ==
  \/ \E w \in Workers :
       \/ \E f \in Flight : Submit(w, f) \/ Reject(w, f)
       \/ Store(w)
       \/ StoreUnanswered(w)
       \/ Refuse(w)
       \/ Return(w)
  \/ Vanish

Spec == Init /\ [][Next]_vars

=============================================================================
