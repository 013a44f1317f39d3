------------------------------ MODULE Dashboard ------------------------------
(***************************************************************************)
(* dashboard/app.py with ai/summary.py: one browser session.  Streamlit    *)
(* runs main() from the top at every click; the live panel is a fragment   *)
(* that a timer runs again between the runs.  A click during a run ends it *)
(* at the next call into Streamlit and starts another.  Sessions share     *)
(* nothing but the tables, which FlightQueue fills meanwhile, and the HTTP *)
(* client.  PostgreSQL and the LLM vendors may fail at every call.         *)
(***************************************************************************)
EXTENDS FlightTables, Integers, Sequences, FiniteSets, LLMProvider, TextToSQL, Anomalies

CONSTANTS
  Primary,       \* llm_provider
  MaxAge,        \* CURRENT_SNAPSHOT_MAX_AGE_SECONDS
  Lookback,      \* HISTORY_LOOKBACK_MINUTES
  MaxTime,       \* bound: the clock
  MaxMessages,   \* bound: how many observations are ever published
  MaxRows        \* bound: rows of flight_history per observation

ASSUME DashboardAssumption ==
  /\ Primary \in Vendors
  /\ MaxAge \in Nat /\ Lookback \in Nat /\ MaxTime \in Nat
  /\ Stamps = 0..MaxTime
  /\ DOMAIN Fix = Flight

VARIABLES
  now,         \* the clock; fetched_at and updated_at are times on it
  published,   \* observations given to the queue
  db,          \* the committed tables
  touched,     \* updated_at of each aircraft's row
  keys,        \* vendors with an API key
  password,    \* whether dashboard_password is set
  pc,          \* where the run is, or how it ended
  click,       \* the button this run is for
  authed,      \* st.session_state["authenticated"]
  shown,       \* the rows on the live map
  snap, hist,  \* what the anomalies panel has read
  todo,        \* vendors the complete() under way may still try
  tried,       \* calls of this run: vendor and outcome
  query,       \* the SQL proposed
  written      \* history: a query of this dashboard has written to the tables

tables == <<now, published, db, touched, written>>
read   == <<snap, hist>>
calls  == <<todo, tried, query>>
settings == <<keys, password>>
vars   == <<tables, settings, pc, click, authed, shown, read, calls>>

Queue == INSTANCE FlightQueue WITH pending <- published, settled <- {}, dropped <- {}

Buttons  == {"none", "summary", "detect", "ask"}
(* The script is inside a provider's complete().                           *)
Calling  == {"summarise", "explain", "generate", "answer"}
Over     == {"idle", "nodb", "pgerror", "llmerror", "keyerror"}
(* Where the script calls into Streamlit and may be interrupted.           *)
Yields   == {"idle", "live", "summary", "snapshot", "report", "commit"}
NoRows   == [f \in Flight |-> 0]
Provider == Chain(Primary, keys)

(* In particular no panel calls complete() of no provider.                 *)
TypeOK ==
  /\ now \in 0..MaxTime
  /\ published \subseteq Flight
  /\ db \in Tables
  /\ touched \in [Aircraft -> 0..MaxTime]
  /\ keys \subseteq Vendors
  /\ password \in BOOLEAN
  /\ pc \in {"closed", "gate", "live", "summary", "snapshot", "history", "report", "query", "commit"}
            \cup Calling \cup Over
  /\ click \in Buttons
  /\ authed \in BOOLEAN
  /\ shown \subseteq Flight
  /\ snap \subseteq Flight
  /\ hist \in [Flight -> Nat]
  /\ todo \in Seq(Vendors)
  /\ pc \in Calling => todo # <<>>
  /\ tried \in Seq(Vendors \X Outcomes)
  /\ query \in Proposals
  /\ written \in BOOLEAN

Init ==
  /\ now = 0
  /\ published = {}
  /\ db = EmptyTables
  /\ touched = [a \in Aircraft |-> 0]
  /\ keys \in SUBSET Vendors
  /\ password \in BOOLEAN
  /\ pc = "closed" /\ click = "none" /\ authed = FALSE
  /\ shown = {}
  /\ snap = {} /\ hist = NoRows
  /\ todo = <<>> /\ tried = <<>> /\ query = NoQuery
  /\ written = FALSE

-----------------------------------------------------------------------------
(* Meanwhile *)

Tick ==
  /\ now < MaxTime
  /\ now' = now + 1
  /\ UNCHANGED <<published, db, touched, written, settings, pc, click, authed, shown, read, calls>>

Publish(a) ==
  /\ Cardinality(published) < MaxMessages
  /\ Queue!Publish([icao24 |-> a, fetched_at |-> now])
  /\ UNCHANGED <<now, touched, written, settings, pc, click, authed, shown, read, calls>>

(* However long after it was published.                                    *)
Store(f) ==
  /\ db.history[f] < MaxRows
  /\ Queue!Store(f)
  /\ touched' = [touched EXCEPT ![f.icao24] = now]
  /\ UNCHANGED <<now, published, written, settings, pc, click, authed, shown, read, calls>>

-----------------------------------------------------------------------------
(* The session *)

Clear ==
  /\ snap' = {} /\ hist' = NoRows
  /\ todo' = <<>> /\ tried' = <<>> /\ query' = NoQuery

(* main() from the top.                                                    *)
Run(b) ==
  /\ click' = b
  /\ pc' = "live"
  /\ Clear

Open ==
  /\ pc = "closed"
  /\ IF password
     THEN pc' = "gate" /\ UNCHANGED <<click, read, calls>>
     ELSE Run("none")
  /\ UNCHANGED <<tables, settings, authed, shown>>

(* Slip: an incorrect password is reported and let through.                *)
SignInAnyway ==
  /\ pc = "gate"
  /\ \E right \in BOOLEAN : authed' = right
  /\ Run("none")
  /\ UNCHANGED <<tables, settings, shown>>

(* An incorrect password changes nothing.                                  *)
SignIn ==
  /\ pc = "gate"
  /\ authed' = TRUE
  /\ Run("none")
  /\ UNCHANGED <<tables, settings, shown>>

(* Where a panel has failed, its own button is the last on the page.       *)
Remaining == IF click = "detect" THEN {"summary", "detect"} ELSE {"summary"}

(* Without a provider there is no button but "Detect anomalies".  "none"   *)
(* is a rerun.  A click before the commit rolls the query back.            *)
Click(b) ==
  /\ \/ pc \in Yields
     \/ pc \in Over /\ b = "none"
     \/ pc \in {"pgerror", "llmerror"} /\ b \in Remaining
  /\ b \in {"summary", "ask"} => Provider # <<>>
  /\ Run(b)
  /\ UNCHANGED <<tables, settings, authed, shown>>

Close ==
  /\ pc \in Yields \cup Over \cup {"gate"}
  /\ pc' = "closed" /\ click' = "none"
  /\ authed' = FALSE
  /\ shown' = {}
  /\ Clear
  /\ UNCHANGED <<tables, settings>>

-----------------------------------------------------------------------------
(* The live panel *)

(* Slip: no condition on updated_at.                                       *)
EveryFlight == {db.flights[a] : a \in {b \in Aircraft : db.flights[b] # NoFlight}}

(* _fetch_current_flights                                                  *)
CurrentFlights ==
  {db.flights[a] : a \in {b \in Aircraft : db.flights[b] # NoFlight /\ now - touched[b] < MaxAge}}

Goto(label) == pc' = label /\ UNCHANGED <<tables, settings, click, authed>>

(* A frame made of no records has no columns: dropna raises a KeyError,    *)
(* which main() does not catch.                                            *)
Live ==
  /\ pc = "live"
  /\ shown' = CurrentFlights
  /\ Goto(CASE CurrentFlights = {} -> "keyerror"
            [] OTHER -> CASE click = "none"    -> "idle"
                          [] click = "summary" -> "summary"
                          [] click = "detect"  -> "snapshot"
                          [] click = "ask"     -> "generate")
  /\ todo' = IF pc' = "generate" THEN Provider ELSE <<>>
  /\ UNCHANGED <<read, tried, query>>

LiveFails ==
  /\ pc = "live"
  /\ shown' = {}
  /\ Goto("nodb")
  /\ UNCHANGED <<read, calls>>

(* The timer runs the fragment alone; an error takes the place of the map. *)
Refresh ==
  /\ pc \in Over
  /\ shown' \in {CurrentFlights, {}}
  /\ Goto(pc)
  /\ UNCHANGED <<read, calls>>

-----------------------------------------------------------------------------
(* The panels behind the buttons *)

(* generate_situational_summary says itself that there are no aircraft.    *)
FetchSummary ==
  /\ pc = "summary"
  /\ Goto(IF CurrentFlights = {} THEN "idle" ELSE "summarise")
  /\ todo' = IF CurrentFlights = {} THEN <<>> ELSE Provider
  /\ UNCHANGED <<shown, read, tried, query>>

FetchSnapshot ==
  /\ pc = "snapshot"
  /\ snap' = CurrentFlights
  /\ Goto("history")
  /\ UNCHANGED <<shown, hist, calls>>

(* Slip: the age limit of the snapshot.                                    *)
RowsOfTheSnapshotsAge ==
  [f \in Flight |-> IF now - f.fetched_at < MaxAge THEN db.history[f] ELSE 0]

(* _fetch_recent_history                                                   *)
RecentRows ==
  [f \in Flight |-> IF now - f.fetched_at < Lookback THEN db.history[f] ELSE 0]

(* In a second connection, later.                                          *)
FetchHistory ==
  /\ pc = "history"
  /\ hist' = RecentRows
  /\ Goto("report")
  /\ UNCHANGED <<shown, snap, calls>>

NothingFlagged ==
  SnapshotFlags(snap) = {} /\ \A a \in Aircraft : ~Holding(hist, a)

(* Slip: not asking whether there is a provider.                           *)
ReportUnchecked ==
  /\ pc = "report"
  /\ Goto(IF NothingFlagged THEN "idle" ELSE "explain")
  /\ todo' = IF NothingFlagged THEN <<>> ELSE Provider
  /\ UNCHANGED <<shown, read, tried, query>>

Report ==
  /\ pc = "report"
  /\ Goto(IF NothingFlagged \/ Provider = <<>> THEN "idle" ELSE "explain")
  /\ todo' = IF NothingFlagged THEN <<>> ELSE Provider
  /\ UNCHANGED <<shown, read, tried, query>>

(* One vendor's answer to complete().                                      *)
Complete ==
  /\ pc \in Calling
  /\ \E outcome \in Outcomes :
       /\ tried' = Append(tried, <<Head(todo), outcome>>)
       /\ IF outcome = "text"
          THEN /\ Goto(CASE pc = "generate" -> "query"
                         [] pc = "answer"   -> "commit"
                         [] OTHER           -> "idle")
               /\ IF pc = "generate" THEN query' \in Proposals ELSE UNCHANGED query
               /\ todo' = <<>>
          ELSE IF Falls(outcome) /\ Len(todo) > 1
          THEN Goto(pc) /\ todo' = Tail(todo) /\ UNCHANGED query
          ELSE /\ Goto(IF pc \in {"generate", "answer"} THEN "idle" ELSE "llmerror")
               /\ todo' = <<>> /\ query' = NoQuery
  /\ UNCHANGED <<shown, read>>

(* answer_question between its two calls.  The transaction stays open over *)
(* the second one: what a query has written nobody else sees as yet.       *)
RunQuery ==
  /\ pc = "query"
  /\ Goto(IF Accepted(query) THEN "answer" ELSE "idle")
  /\ todo' = IF Accepted(query) THEN Provider ELSE <<>>
  /\ query' = IF Accepted(query) THEN query ELSE NoQuery
  /\ UNCHANGED <<shown, read, tried>>

(* External: what a query that writes leaves.                              *)
Rewritten == {EmptyTables, [db EXCEPT !.history = NoRows]}

(* The connection's block ends normally, which commits.                    *)
EndQuery ==
  /\ pc = "commit"
  /\ pc' = "idle"
  /\ db' \in IF query.writes THEN Rewritten ELSE {db}
  /\ written' = (written \/ query.writes)
  /\ query' = NoQuery
  /\ UNCHANGED <<now, published, touched, settings, click, authed, shown, read, todo, tried>>

(* The Q&A panel catches everything, the others nothing.                   *)
PanelFails ==
  /\ \/ pc \in {"summary", "snapshot", "history"} /\ Goto("pgerror")
     \/ (pc \in {"query", "commit"} \/ (pc = "generate" /\ tried = <<>>)) /\ Goto("idle")
  /\ todo' = <<>> /\ query' = NoQuery
  /\ UNCHANGED <<shown, read, tried>>

ScriptStep ==
  \/ Live \/ LiveFails
  \/ FetchSummary \/ FetchSnapshot \/ FetchHistory \/ Report
  \/ Complete \/ RunQuery \/ EndQuery \/ PanelFails

Next ==
  \/ Tick \/ (\E a \in Aircraft : Publish(a)) \/ (\E f \in Flight : Store(f))
  \/ Open \/ SignIn \/ (\E b \in Buttons : Click(b)) \/ Close
  \/ ScriptStep \/ Refresh

Spec == Init /\ [][Next]_vars

(* A run goes on until it is over and the timer keeps firing: calls to the *)
(* vendors time out, and PostgreSQL answers or refuses.                    *)
FairSpec == Spec /\ WF_vars(ScriptStep) /\ WF_vars(Refresh)

-----------------------------------------------------------------------------

(***************************************************************************)
(* The anomalies panel reads snapshot and history in two connections       *)
(* (app.py:223, 226), with stores in between: still no row of the snapshot *)
(* is without its history, because the consumer fills both tables at once  *)
(* and the snapshot is read first.  A query that writes may undo that.     *)
(***************************************************************************)
SnapshotCovered ==
  pc = "report" /\ ~written =>
    \A f \in snap : now - f.fetched_at < Lookback => hist[f] > 0

(***************************************************************************)
(* "a single vendor's outage or quota exhaustion doesn't take down the AI  *)
(* panels" (llm_provider.py:13-14): a run ends with a vendor's error only  *)
(* when every vendor with a key has failed in it, or by an error that is   *)
(* neither HTTP's nor a body of another shape.                             *)
(***************************************************************************)
OutageSurvived ==
  pc = "llmerror" =>
    \/ \A v \in keys : \E i \in DOMAIN tried : tried[i][1] = v /\ tried[i][2] # "text"
    \/ \E i \in DOMAIN tried : tried[i][2] = "other"

(***************************************************************************)
(* The quota is spent only by whoever knows the password, only by a click  *)
(* (app.py:8-10, 274-276), and a click costs each vendor no more than one  *)
(* call per completion: two for a question, one for the other panels.      *)
(***************************************************************************)
QuotaGuarded ==
  tried # <<>> =>
    /\ password => authed
    /\ click # "none"
    /\ Len(tried) <= Cardinality(keys) * (IF click = "ask" THEN 2 ELSE 1)

(***************************************************************************)
(* An aircraft that is no longer stored leaves the map (app.py:102-105),   *)
(* whatever is clicked and however often PostgreSQL fails.                 *)
(***************************************************************************)
Ghost(a) == \E f \in shown : f.icao24 = a /\ now - touched[a] >= MaxAge
GhostsVanish == \A a \in Aircraft : Ghost(a) ~> ~Ghost(a)

(***************************************************************************)
(* Without aircraft the page says so: "No aircraft with a known position   *)
(* to display." (app.py:161).  It does not end in an error.                *)
(***************************************************************************)
EmptySkyShown == pc # "keyerror"

=============================================================================
