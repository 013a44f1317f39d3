-------------------------- MODULE FlightTablesProofs --------------------------
(***************************************************************************)
(* Lemmas about the two statements on the tables of FlightTables.          *)
(***************************************************************************)
EXTENDS FlightTables, TLAPS

(* The two statements keep the tables well formed.                         *)
LEMMA StatementsType ==
  ASSUME NEW t \in Tables, NEW f \in Flight
  PROVE  /\ UpsertFlight(t, f) \in Tables
         /\ InsertHistory(t, f) \in Tables
<1>1. f.icao24 \in Aircraft
  BY DEF Flight
<1>2. UpsertFlight(t, f) \in Tables
  BY <1>1 DEF UpsertFlight, Tables
<1>3. InsertHistory(t, f) \in Tables
  BY DEF InsertHistory, Tables
<1> QED BY <1>2, <1>3

(* The empty tables the database starts with are well formed.              *)
LEMMA EmptyType == EmptyTables \in Tables
BY DEF EmptyTables, Tables

(* What both statements together do to the history.                        *)
LEMMA BothHistory ==
  ASSUME NEW t \in Tables, NEW f \in Flight
  PROVE  /\ Both(t, f) \in Tables
         /\ Both(t, f).history[f] = t.history[f] + 1
         /\ \A g \in Flight \ {f} : Both(t, f).history[g] = t.history[g]
<1>1. UpsertFlight(t, f) \in Tables /\ UpsertFlight(t, f).history = t.history
  BY StatementsType DEF UpsertFlight, Tables
<1>2. Both(t, f) \in Tables
  BY <1>1, StatementsType DEF Both
<1>3. Both(t, f).history = [t.history EXCEPT ![f] = t.history[f] + 1]
  BY <1>1 DEF Both, InsertHistory, Tables
<1>4. t.history \in [Flight -> Nat]
  BY DEF Tables
<1> QED BY <1>2, <1>3, <1>4

(* Both statements together keep the snapshot and the history in agreement.*)
LEMMA BothSnapshot ==
  ASSUME NEW t \in Tables, NEW f \in Flight, SnapshotInHistory(t)
  PROVE  SnapshotInHistory(Both(t, f))
<1> DEFINE u == Both(t, f)
<1>1. u.flights = [t.flights EXCEPT ![f.icao24] = f]
  BY DEF Both, InsertHistory, UpsertFlight, Tables
<1>2. f.icao24 \in Aircraft /\ t.flights \in [Aircraft -> Flight \cup {NoFlight}]
      /\ t.history \in [Flight -> Nat] /\ u.history \in [Flight -> Nat]
  BY BothHistory DEF Tables, Flight
<1>3. /\ u.history[f] = t.history[f] + 1
      /\ \A g \in Flight \ {f} : u.history[g] = t.history[g]
  BY BothHistory
<1> HIDE DEF u
<1>4. ASSUME NEW a \in Aircraft
      PROVE  IF u.flights[a] = NoFlight
             THEN \A g \in Flight : g.icao24 = a => u.history[g] = 0
             ELSE u.flights[a].icao24 = a /\ u.history[u.flights[a]] > 0
  <2>1. CASE a = f.icao24
    BY <1>1, <1>2, <1>3, <2>1, NoFlightAssumption
  <2>2. CASE a # f.icao24
    BY <1>1, <1>2, <1>3, <2>2 DEF SnapshotInHistory
  <2> QED BY <2>1, <2>2
<1> QED BY <1>4 DEF SnapshotInHistory, u

=============================================================================
