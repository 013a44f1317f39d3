----------------------------- MODULE MCDashboard -----------------------------
(***************************************************************************)
(* Instances of Dashboard for TLC.  The fixes of one aircraft: it stays    *)
(* close; at first its heading hardly changes, then it reverses, low,      *)
(* fast and sinking, and in the end it stands on the ground.               *)
(***************************************************************************)
EXTENDS Dashboard

At(km, track, altitude, rate) ==
  [on_ground |-> FALSE, km |-> km, true_track |-> track, altitude |-> altitude,
   velocity |-> 90, vertical_rate |-> rate]

MCFix ==
  [f \in Flight |->
     CASE f.fetched_at = 0 -> At(0, 10, 2000, 5)
       [] f.fetched_at = 1 -> At(4, 40, 2000, Missing)
       [] f.fetched_at = 2 -> At(8, 200, 100, -20)
       [] OTHER            -> [At(Missing, 220, 0, 0) EXCEPT !.on_ground = TRUE]]

MCStamps == 0..MaxTime

=============================================================================
