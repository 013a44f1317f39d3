-------------------------- MODULE MCFlightRepository --------------------------
(***************************************************************************)
(* Bounds for TLC: an observation is stored at most MaxRows times, counted *)
(* with the calls still under way.                                         *)
(***************************************************************************)
EXTENDS FlightRepository, FiniteSets

CONSTANT MaxRows

MCStamps == 1..2

Rows(f) == db.history[f] + Cardinality({w \in Workers : arg[w] = f /\ call[w] # "failed"})

MCNext ==
  \/ Connect
  \/ \E w \in Workers :
       \/ \E f \in Flight : Rows(f) < MaxRows /\ Enter(w, f)
       \/ Step(w) \/ Fault(w) \/ Return(w)
  \/ Disconnect
  \/ Vanish

MCSpec == Init /\ [][MCNext]_vars

=============================================================================
