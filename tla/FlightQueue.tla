----------------------------- MODULE FlightQueue -----------------------------
(***************************************************************************)
(* What the broker and the consumer promise to whoever reads the tables:   *)
(* nothing reaches them that was not published, and both of them at once;  *)
(* nothing is ever taken out of them; a message leaves the queue as        *)
(* processed only when they have it.  A message may be stored any number   *)
(* of times, even after it was settled or dropped: a copy whose delivery   *)
(* is void may still be with a worker.                                     *)
(***************************************************************************)
EXTENDS FlightTables

VARIABLES
  pending,   \* published, neither settled nor dropped
  settled,   \* left the queue as processed
  dropped,   \* left the queue unprocessed
  db         \* the committed tables

vars == <<pending, settled, dropped, db>>

Known == pending \cup settled \cup dropped

Init ==
  /\ pending = {} /\ settled = {} /\ dropped = {}
  /\ db = EmptyTables

Publish(f) ==
  /\ f \notin Known
  /\ pending' = pending \cup {f}
  /\ UNCHANGED <<settled, dropped, db>>

Store(f) ==
  /\ f \in Known
  /\ db' = Both(db, f)
  /\ UNCHANGED <<pending, settled, dropped>>

Settle(f) ==
  /\ f \in pending
  /\ db.history[f] > 0
  /\ pending' = pending \ {f}
  /\ settled' = settled \cup {f}
  /\ UNCHANGED <<dropped, db>>

Drop(f) ==
  /\ f \in pending
  /\ pending' = pending \ {f}
  /\ dropped' = dropped \cup {f}
  /\ UNCHANGED <<settled, db>>

Next == \E f \in Flight : Publish(f) \/ Store(f) \/ Settle(f) \/ Drop(f)

Spec == Init /\ [][Next]_vars

=============================================================================
