------------------------------ MODULE Anomalies ------------------------------
(***************************************************************************)
(* ai/anomalies.py: the deterministic rules.  A fix is what an observation *)
(* says of the aircraft's position and motion; positions are kilometres    *)
(* along one meridian, so that distances need no haversine, and both the   *)
(* radius and the standard deviation are compared as integers: with n      *)
(* points of sum s, |x - s/n| <= r is |n*x - s| <= r*n, and a standard     *)
(* deviation of at least d is n*sum(x^2) - s^2 >= d^2*n^2.                 *)
(***************************************************************************)
EXTENDS Integers, FiniteSetsExt

CONSTANTS
  Missing,          \* a field OpenSky left null
  Fix,              \* the fix of each observation
  HoldingRadius,    \* HOLDING_MAX_RADIUS_KM
  HoldingStddev,    \* HOLDING_MIN_TRACK_STDDEV_DEG
  HoldingPoints     \* HOLDING_MIN_POINTS

ASSUME AnomaliesAssumption ==
  /\ HoldingStddev \in Nat
  /\ HoldingPoints \in Nat \ {0}
  /\ \A f \in DOMAIN Fix : Fix[f].true_track \in Int \cup {Missing}

LowAltitude  == 150   \* LOW_ALTITUDE_M
LowVelocity  == 30    \* LOW_ALTITUDE_MIN_VELOCITY_MS
RapidRate    == 15    \* RAPID_VERTICAL_RATE_MS

Low(f) ==
  /\ ~Fix[f].on_ground
  /\ Fix[f].altitude # Missing /\ Fix[f].altitude < LowAltitude
  /\ Fix[f].velocity # Missing /\ Fix[f].velocity > LowVelocity

Rapid(f) ==
  /\ Fix[f].vertical_rate # Missing
  /\ Fix[f].vertical_rate >= RapidRate \/ -Fix[f].vertical_rate >= RapidRate

(* detect_anomalies on a snapshot.                                         *)
SnapshotFlags(S) ==
       {[icao24 |-> f.icao24, kind |-> "low_altitude"] : f \in {g \in S : Low(g)}}
  \cup {[icao24 |-> f.icao24, kind |-> "rapid_vertical_rate"] : f \in {g \in S : Rapid(g)}}

(* rows[f] copies of observation f count as as many points.                *)
Points(rows, a)   == {f \in DOMAIN rows : rows[f] > 0 /\ f.icao24 = a /\ ~Fix[f].on_ground}
Located(rows, a)  == {f \in Points(rows, a) : Fix[f].km # Missing}
Headed(rows, a)   == {f \in Points(rows, a) : Fix[f].true_track # Missing}
Count(rows, S)    == MapThenSumSet(LAMBDA f : rows[f], S)
Weighed(rows, S, x(_)) == MapThenSumSet(LAMBDA f : rows[f] * x(f), S)

Km(f)      == Fix[f].km
Track(f)   == Fix[f].true_track

InRadius(rows, S) ==
  LET n == Count(rows, S)
      s == Weighed(rows, S, Km)
  IN \A f \in S : n * Km(f) - s <= HoldingRadius * n /\ s - n * Km(f) <= HoldingRadius * n

Turns(rows, S) ==
  LET n == Count(rows, S)
      s == Weighed(rows, S, Track)
  IN n * Weighed(rows, S, LAMBDA f : Track(f) * Track(f)) - s * s
       >= HoldingStddev * HoldingStddev * n * n

(* detect_holding_pattern on the history of one aircraft.                  *)
Holding(rows, a) ==
  /\ Count(rows, Located(rows, a)) >= HoldingPoints
  /\ Count(rows, Headed(rows, a)) >= HoldingPoints
  /\ InRadius(rows, Located(rows, a))
  /\ Turns(rows, Headed(rows, a))

=============================================================================
