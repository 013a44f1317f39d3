---------------------------- MODULE FlightTables ----------------------------
(***************************************************************************)
(* The two PostgreSQL tables of db/init.sql and the two statements that    *)
(* consumer/db.py runs against them.  An observation of an aircraft is     *)
(* what one FlightMessage carries: which aircraft (icao24) and when it was *)
(* seen (fetched_at); the other twenty columns follow from these two and   *)
(* are left out.                                                           *)
(***************************************************************************)
EXTENDS Naturals

CONSTANTS
  Aircraft,   \* ICAO24 addresses
  Stamps,     \* values of fetched_at
  NoFlight    \* "no row" in flights, "no argument" of a call

Flight == [icao24 : Aircraft, fetched_at : Stamps]

ASSUME NoFlightAssumption == NoFlight \notin Flight

(***************************************************************************)
(* flights has at most one row per aircraft (PRIMARY KEY icao24).          *)
(* flight_history has a surrogate key only, so one observation may have    *)
(* any number of rows: history counts them.                                *)
(***************************************************************************)
Tables == [flights : [Aircraft -> Flight \cup {NoFlight}],
           history : [Flight -> Nat]]

EmptyTables == [flights |-> [a \in Aircraft |-> NoFlight],
                history |-> [f \in Flight |-> 0]]

(* Slip: a conflict target of (icao24, fetched_at), which a new            *)
(* observation never meets: the aircraft gets a second row.                *)
UpsertFlightAppends(t, f) ==
  [t EXCEPT !.flights = [t.flights EXCEPT
     ![f.icao24] = IF t.flights[f.icao24] \in {NoFlight, f}
                   THEN f ELSE [rows |-> {t.flights[f.icao24], f}]]]

(* INSERT ... ON CONFLICT (icao24) DO UPDATE, whatever row was there.      *)
UpsertFlight(t, f) ==
  [t EXCEPT !.flights = [t.flights EXCEPT ![f.icao24] = f]]

(* INSERT INTO flight_history.                                             *)
InsertHistory(t, f) ==
  [t EXCEPT !.history = [t.history EXCEPT ![f] = t.history[f] + 1]]

(* A whole upsert_flight.                                                  *)
Both(t, f) == InsertHistory(UpsertFlight(t, f), f)

(* A row of flights is the aircraft's own and one of those in              *)
(* flight_history; an aircraft without a row there has no history.         *)
SnapshotInHistory(t) ==
  \A a \in Aircraft :
    IF t.flights[a] = NoFlight
    THEN \A f \in Flight : f.icao24 = a => t.history[f] = 0
    ELSE t.flights[a].icao24 = a /\ t.history[t.flights[a]] > 0

=============================================================================
