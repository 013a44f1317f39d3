---------------------------- MODULE DashboardProofs ----------------------------
(***************************************************************************)
(* Theorems about Dashboard for any aircraft, observations, age limits,    *)
(* keys and length of the session.                                         *)
(***************************************************************************)
EXTENDS Dashboard, FlightTablesProofs, AnomaliesProofs, FiniteSetTheorems, TLAPS

Asking == {"generate", "query", "answer", "commit"}

(* Where the run is fits its button, and the session what it is let do.    *)
RunOK ==
  /\ pc \in {"closed", "gate"} \/ (password => authed)
  /\ pc \in {"summary", "summarise"} => click = "summary"
  /\ pc \in {"snapshot", "history", "report", "explain"} => click = "detect"
  /\ pc \in Asking => click = "ask"
  /\ pc \in {"closed", "gate"} => click = "none"
  /\ click \in {"summary", "ask"} => Provider # <<>>

(* The calls made and those to come stay within one per key and completion.*)
Fresh == {"closed", "gate", "live", "summary", "snapshot", "history", "report"}
CallsOK ==
  /\ pc \in Fresh => tried = <<>>
  /\ pc \in Calling \ {"answer"} => Len(tried) + Len(todo) <= Cardinality(keys)
  /\ pc = "query" => Len(tried) <= Cardinality(keys)
  /\ pc = "answer" => Len(tried) + Len(todo) <= Cardinality(keys) * 2
  /\ QuotaGuarded

(* A vendor with a key is still to be tried or has failed.                 *)
Failed(v) == \E i \in DOMAIN tried : tried[i][1] = v /\ tried[i][2] # "text"
ToTry(v)  == \E i \in DOMAIN todo : todo[i] = v
TriedOK ==
  /\ pc \in {"summarise", "explain"} => \A v \in keys : ToTry(v) \/ Failed(v)
  /\ OutageSurvived

(* The snapshot was read with its history in the tables.                   *)
ReadOK ==
  /\ ~written => SnapshotInHistory(db)
  /\ pc = "history" /\ ~written => \A f \in snap : db.history[f] > 0
  /\ SnapshotCovered

IInv == TypeOK /\ RunOK /\ CallsOK /\ TriedOK /\ ReadOK

(* What the panels read from the tables.                                   *)
LEMMA WhatIsRead ==
  ASSUME TypeOK
  PROVE  CurrentFlights \subseteq Flight /\ RecentRows \in [Flight -> Nat]
BY DEF TypeOK, Tables, CurrentFlights, RecentRows

(* No query is one that may be proposed.                                   *)
LEMMA NoQueryType == NoQuery \in Proposals
BY DEF NoQuery, Proposals, Query

(* The tables of FlightQueue are these tables.                             *)
LEMMA SameTables ==
  /\ Queue!Flight = Flight
  /\ Queue!EmptyTables = EmptyTables
  /\ \A t, f : Queue!Both(t, f) = Both(t, f)
BY DEF Queue!Flight, Flight, Queue!EmptyTables, EmptyTables, Queue!Both, Both,
   Queue!InsertHistory, InsertHistory, Queue!UpsertFlight, UpsertFlight

(* All vendors of a chain but its head stay in its tail.                   *)
LEMMA TailKeeps ==
  ASSUME NEW S, NEW q \in Seq(S), NEW i \in DOMAIN q
  PROVE  q[i] = Head(q) \/ \E j \in DOMAIN Tail(q) : Tail(q)[j] = q[i]
<1>1. CASE i = 1
  BY <1>1
<1>2. CASE i # 1
  <2>1. i - 1 \in DOMAIN Tail(q) /\ Tail(q)[i - 1] = q[i]
    BY <1>2
  <2> QED BY <2>1
<1> QED BY <1>1, <1>2

(* Where the live panel leads.                                             *)
LEMMA LiveLeads ==
  ASSUME TypeOK, Live
  PROVE  /\ UNCHANGED <<now, published, db, touched, written, keys, password, click, authed>>
         /\ UNCHANGED <<snap, hist, tried, query>>
         /\ pc = "live"
         /\ shown' = CurrentFlights
         /\ \/ pc' \in {"keyerror", "idle"} /\ todo' = <<>>
            \/ pc' = "summary" /\ click = "summary" /\ todo' = <<>>
            \/ pc' = "snapshot" /\ click = "detect" /\ todo' = <<>>
            \/ pc' = "generate" /\ click = "ask" /\ todo' = Provider
<1>1. CASE CurrentFlights = {}
  BY <1>1 DEF Live, Goto, tables, settings, read
<1>2. CASE CurrentFlights # {} /\ click = "none"
  BY <1>2 DEF Live, Goto, tables, settings, read
<1>3. CASE CurrentFlights # {} /\ click = "summary"
  BY <1>3 DEF Live, Goto, tables, settings, read
<1>4. CASE CurrentFlights # {} /\ click = "detect"
  BY <1>4 DEF Live, Goto, tables, settings, read
<1>5. CASE CurrentFlights # {} /\ click = "ask"
  BY <1>5 DEF Live, Goto, tables, settings, read
<1> QED BY <1>1, <1>2, <1>3, <1>4, <1>5 DEF TypeOK, Buttons

(* The vendors of a provider are those with a key, each of them once.      *)
LEMMA ProviderVendors ==
  ASSUME keys \subseteq Vendors
  PROVE  /\ Provider \in Seq(Vendors)
         /\ Cardinality(keys) \in Nat
         /\ Len(Provider) <= Cardinality(keys)
         /\ Provider # <<>> => \A v \in keys : \E i \in DOMAIN Provider : Provider[i] = v
<1>1. Other("gemini") = "groq" /\ Other("groq") = "gemini"
  BY DEF Other, Vendors
<1>2. Primary \in Vendors
  BY DashboardAssumption
<1>3. CASE Primary \notin keys
  <2>1. IsFiniteSet({"gemini"} \cup {"groq"})
    BY FS_AddElement, FS_Singleton
  <2>2. IsFiniteSet(keys)
    BY <2>1, FS_Subset, Vendors = {"gemini"} \cup {"groq"} DEF Vendors
  <2>3. Cardinality(keys) \in Nat
    BY <2>2, FS_CardinalityType
  <2> QED BY <1>3, <2>3 DEF Provider, Chain
<1>4. CASE Primary \in keys /\ Other(Primary) \in keys
  <2>1. keys = {"gemini", "groq"} /\ Provider = <<Primary, Other(Primary)>>
    BY <1>1, <1>2, <1>4 DEF Vendors, Provider, Chain
  <2>2. Cardinality({"gemini", "groq"}) = 2
    <3>1. Cardinality({"gemini"}) = 1 /\ IsFiniteSet({"gemini"})
      BY FS_Singleton
    <3>2. {"gemini", "groq"} = {"gemini"} \cup {"groq"} /\ "groq" \notin {"gemini"}
      OBVIOUS
    <3> QED BY <3>1, <3>2, FS_AddElement
  <2>3. Provider[1] = Primary /\ Provider[2] = Other(Primary) /\ DOMAIN Provider = 1..2
        /\ Len(Provider) = 2 /\ Provider \in Seq(Vendors)
    BY <1>4, <2>1
  <2> QED BY <1>1, <1>2, <2>1, <2>2, <2>3 DEF Vendors
<1>5. CASE Primary \in keys /\ Other(Primary) \notin keys
  <2>1. keys = {Primary} /\ Provider = <<Primary>>
    BY <1>1, <1>2, <1>5 DEF Vendors, Provider, Chain
  <2>2. Cardinality({Primary}) = 1
    BY FS_Singleton
  <2> QED BY <1>2, <2>1, <2>2
<1> QED BY <1>3, <1>4, <1>5

LEMMA InitIInv == Init => IInv
<1> SUFFICES ASSUME Init PROVE IInv
  OBVIOUS
<1> USE DEF Init
<1>1. TypeOK
  <2>1. password \in BOOLEAN /\ authed \in BOOLEAN /\ written \in BOOLEAN
    BY Zenon
  <2>3. todo \in Seq(Vendors) /\ tried \in Seq(Vendors \X Outcomes)
    OBVIOUS
  <2>4. now \in 0..MaxTime /\ touched \in [Aircraft -> 0..MaxTime] /\ hist \in [Flight -> Nat]
    BY DashboardAssumption DEF NoRows
  <2> QED BY <2>1, <2>3, <2>4, EmptyType, NoQueryType DEF TypeOK, Buttons, Calling
<1>2. RunOK
  BY DEF RunOK, Asking
<1>3. CallsOK /\ TriedOK
  BY DEF CallsOK, TriedOK, QuotaGuarded, OutageSurvived, Calling
<1>4. SnapshotInHistory(EmptyTables)
  BY DEF SnapshotInHistory, EmptyTables
<1>5. ReadOK
  BY <1>4 DEF ReadOK, SnapshotCovered
<1> QED BY <1>1, <1>2, <1>3, <1>5 DEF IInv

-----------------------------------------------------------------------------
(* Each part of the invariant is kept *)

LEMMA NextType == TypeOK /\ RunOK /\ [Next]_vars => TypeOK'
<1> SUFFICES ASSUME TypeOK, RunOK, [Next]_vars PROVE TypeOK'
  OBVIOUS
<1> USE DashboardAssumption, WhatIsRead, ProviderVendors, NoQueryType DEF TypeOK, RunOK, Asking,
     Over, Calling, Buttons, NoRows, tables, settings, read, calls
<1>1. CASE Tick
  BY <1>1 DEF Tick
<1>2. ASSUME NEW a \in Aircraft, Publish(a) PROVE TypeOK'
  <2>1. [icao24 |-> a, fetched_at |-> now] \in Flight
    BY DashboardAssumption DEF Flight
  <2> QED BY <1>2, <2>1 DEF Publish, Queue!Publish
<1>3. ASSUME NEW f \in Flight, Store(f) PROVE TypeOK'
  <2>1. db' = Both(db, f) /\ f.icao24 \in Aircraft
    BY <1>3, SameTables DEF Store, Queue!Store, Flight
  <2>2. db' \in Tables
    BY <2>1, BothHistory
  <2> QED BY <1>3, <2>1, <2>2 DEF Store, Queue!Store
<1>4. CASE Open \/ SignIn \/ Close
  <2>1. password' \in BOOLEAN /\ authed' \in BOOLEAN
    BY Zenon, <1>4 DEF Open, SignIn, Close, Run, Clear
  <2>2. NoRows \in [Flight -> Nat]
        /\ <<>> \in Seq(Vendors) /\ <<>> \in Seq(Vendors \X Outcomes)
    BY DEF NoRows
  <2> HIDE DEF NoRows
  <2> QED BY <2>1, <2>2, <1>4 DEF Open, SignIn, Close, Run, Clear
<1>5. ASSUME NEW b \in Buttons, Click(b) PROVE TypeOK'
  <2>1. password' \in BOOLEAN /\ authed' \in BOOLEAN
    BY Zenon, <1>5 DEF Click, Run, Clear
  <2>2. NoRows \in [Flight -> Nat]
        /\ <<>> \in Seq(Vendors) /\ <<>> \in Seq(Vendors \X Outcomes)
    BY DEF NoRows
  <2> HIDE DEF NoRows
  <2> QED BY <2>1, <2>2, <1>5 DEF Click, Run, Clear
<1>6. CASE Live
  <2>1. shown' \subseteq Flight
    BY <1>6, LiveLeads, WhatIsRead
  <2>2. <<>> \in Seq(Vendors) /\ Provider \in Seq(Vendors)
    BY ProviderVendors
  <2>3. /\ todo' \in Seq(Vendors)
        /\ pc' \in {"keyerror", "idle", "summary", "snapshot", "generate"}
    BY <1>6, <2>2, LiveLeads
  <2> QED BY <1>6, <2>1, <2>3 DEF Live, Goto
<1>7. CASE LiveFails \/ Refresh
  BY <1>7 DEF LiveFails, Refresh, Goto, Over
<1>8. CASE FetchSummary
  BY <1>8 DEF FetchSummary, Goto
<1>9. CASE FetchSnapshot
  BY <1>9 DEF FetchSnapshot, Goto
<1>10. CASE FetchHistory
  BY <1>10 DEF FetchHistory, Goto
<1>11. CASE Report
  BY <1>11 DEF Report, Goto
<1>12. CASE Complete
  <2>1. PICK o \in Outcomes : tried' = Append(tried, <<Head(todo), o>>)
    BY <1>12 DEF Complete
  <2>2. todo # <<>> /\ Head(todo) \in Vendors /\ Tail(todo) \in Seq(Vendors)
    BY <1>12 DEF Complete
  <2>3. tried' \in Seq(Vendors \X Outcomes)
    BY <2>1, <2>2
  <2>4. todo' \in {<<>>, Tail(todo)}
    BY <1>12 DEF Complete
  <2>5. pc' \in Calling \cup {"query", "commit", "idle", "llmerror"} /\ query' \in Proposals
    BY <1>12 DEF Complete, Goto
  <2>6. <<>> \in Seq(Vendors)
    OBVIOUS
  <2>7. todo' \in Seq(Vendors)
    BY Zenon, <2>2, <2>4, <2>6
  <2>8. pc' \in Calling => todo' # <<>>
    BY <1>12 DEF Complete, Goto
  <2> QED BY <1>12, <2>3, <2>5, <2>7, <2>8 DEF Complete, Goto
<1>13. CASE RunQuery
  BY <1>13 DEF RunQuery, Goto
<1>14. CASE EndQuery
  <2>1. EmptyTables \in Tables /\ [db EXCEPT !.history = NoRows] \in Tables
    BY EmptyType DEF Tables
  <2>2. db' \in Tables
    BY <1>14, <2>1 DEF EndQuery, Rewritten
  <2>3. written' \in BOOLEAN /\ password' \in BOOLEAN /\ authed' \in BOOLEAN
    BY Zenon, <1>14 DEF EndQuery
  <2> QED BY <1>14, <2>2, <2>3 DEF EndQuery
<1>15. CASE PanelFails
  BY <1>15 DEF PanelFails, Goto
<1>16. CASE UNCHANGED vars
  BY <1>16 DEF vars
<1> QED BY <1>1, <1>2, <1>3, <1>4, <1>5, <1>6, <1>7, <1>8,
           <1>9, <1>10, <1>11, <1>12, <1>13, <1>14, <1>15, <1>16
       DEF Next, ScriptStep

LEMMA NextRun == TypeOK /\ RunOK /\ [Next]_vars => RunOK'
<1> SUFFICES ASSUME TypeOK, RunOK, [Next]_vars PROVE RunOK'
  OBVIOUS
<1> USE DEF RunOK, Calling, Asking, Provider, tables, settings, read, calls
<1>1. CASE Tick
  BY <1>1 DEF Tick
<1>2. ASSUME NEW a \in Aircraft, Publish(a) PROVE RunOK'
  BY <1>2 DEF Publish, Queue!Publish
<1>3. ASSUME NEW f \in Flight, Store(f) PROVE RunOK'
  BY <1>3 DEF Store, Queue!Store
<1>4. CASE Open \/ SignIn \/ Close
  BY <1>4 DEF Open, SignIn, Close, Run, Clear
<1>5. ASSUME NEW b \in Buttons, Click(b) PROVE RunOK'
  BY <1>5 DEF Click, Run, Clear, Over, Buttons, Yields, Remaining
<1>6. CASE Live
  <2>1. /\ UNCHANGED <<tables, settings, click, authed, tried>> /\ pc = "live"
        /\ pc' \in {"keyerror", "idle", "summary", "snapshot", "generate"}
    BY <1>6, LiveLeads DEF Live, Goto
  <2>2. /\ pc' = "summary" => click = "summary"
        /\ pc' = "snapshot" => click = "detect"
        /\ pc' = "generate" => click = "ask" /\ todo' = Provider
    BY <1>6, LiveLeads
  <2> QED BY <2>1, <2>2
<1>7. CASE LiveFails \/ Refresh
  BY <1>7 DEF LiveFails, Refresh, Goto, Over
<1>8. CASE FetchSummary
  BY <1>8 DEF FetchSummary, Goto
<1>9. CASE FetchSnapshot
  BY <1>9 DEF FetchSnapshot, Goto
<1>10. CASE FetchHistory
  BY <1>10 DEF FetchHistory, Goto
<1>11. CASE Report
  BY <1>11 DEF Report, Goto
<1>12. CASE Complete
  BY <1>12 DEF Complete, Goto
<1>13. CASE RunQuery
  BY <1>13 DEF RunQuery, Goto
<1>14. CASE EndQuery
  BY <1>14 DEF EndQuery
<1>15. CASE PanelFails
  BY <1>15 DEF PanelFails, Goto
<1>16. CASE UNCHANGED vars
  BY <1>16 DEF vars
<1> QED BY <1>1, <1>2, <1>3, <1>4, <1>5, <1>6, <1>7, <1>8,
           <1>9, <1>10, <1>11, <1>12, <1>13, <1>14, <1>15, <1>16
       DEF Next, ScriptStep

LEMMA NextCalls == TypeOK /\ RunOK /\ CallsOK /\ [Next]_vars => CallsOK'
<1> SUFFICES ASSUME TypeOK, RunOK, CallsOK, [Next]_vars PROVE CallsOK'
  OBVIOUS
<1> USE ProviderVendors DEF TypeOK, RunOK, CallsOK, QuotaGuarded, Calling, Fresh,
     Asking, tables, settings, read, calls
<1>1. CASE Tick
  BY <1>1 DEF Tick
<1>2. ASSUME NEW a \in Aircraft, Publish(a) PROVE CallsOK'
  BY <1>2 DEF Publish, Queue!Publish
<1>3. ASSUME NEW f \in Flight, Store(f) PROVE CallsOK'
  BY <1>3 DEF Store, Queue!Store
<1>4. CASE Open \/ SignIn \/ Close
  BY <1>4 DEF Open, SignIn, Close, Run, Clear
<1>5. ASSUME NEW b \in Buttons, Click(b) PROVE CallsOK'
  BY <1>5 DEF Click, Run, Clear, Over, Buttons, Yields, Remaining
<1>6. CASE Live
  <2>1. /\ UNCHANGED <<tables, settings, click, authed, tried>> /\ pc = "live"
        /\ pc' \in {"keyerror", "idle", "summary", "snapshot", "generate"}
    BY <1>6, LiveLeads DEF Live, Goto
  <2>2. /\ pc' = "summary" => click = "summary"
        /\ pc' = "snapshot" => click = "detect"
        /\ pc' = "generate" => click = "ask" /\ todo' = Provider
    BY <1>6, LiveLeads
  <2> QED BY <2>1, <2>2
<1>7. CASE LiveFails \/ Refresh
  BY <1>7 DEF LiveFails, Refresh, Goto, Over
<1>8. CASE FetchSummary
  BY <1>8 DEF FetchSummary, Goto
<1>9. CASE FetchSnapshot
  BY <1>9 DEF FetchSnapshot, Goto
<1>10. CASE FetchHistory
  BY <1>10 DEF FetchHistory, Goto
<1>11. CASE Report
  BY <1>11 DEF Report, Goto
<1>12. CASE Complete
  <2>1. /\ UNCHANGED <<password, authed, click, keys>>
        /\ pc' \in {"query", "commit", "idle", "llmerror"} \/ pc' = pc
        /\ pc' = "query" => pc = "generate"
        /\ pc' = pc => todo' = Tail(todo)
    BY Zenon, <1>12 DEF Complete, Goto
  <2>2. /\ todo # <<>> /\ Len(todo) \in Nat /\ Len(tried) \in Nat
        /\ Len(Tail(todo)) = Len(todo) - 1 /\ Len(todo) >= 1
        /\ Len(tried') = Len(tried) + 1
    <3>1. PICK o \in Outcomes : tried' = Append(tried, <<Head(todo), o>>)
      BY <1>12 DEF Complete
    <3>2. todo # <<>> /\ <<Head(todo), o>> \in Vendors \X Outcomes
      BY <1>12 DEF Complete
    <3> QED BY <3>1, <3>2
  <2>3. Len(tried') <= Cardinality(keys) * (IF click = "ask" THEN 2 ELSE 1)
    <3>1. CASE pc = "answer"
      BY <2>2, <3>1
    <3>2. CASE pc # "answer"
      BY <1>12, <2>2, <3>2 DEF Complete
    <3> QED BY <3>1, <3>2
  <2>4. password => authed
    BY <1>12 DEF Complete
  <2>5. click # "none"
    BY <1>12 DEF Complete
  <2>6. QuotaGuarded'
    BY <2>1, <2>3, <2>4, <2>5
  <2>7. CASE pc' = pc
    <3>1. Len(tried') + Len(todo') = Len(tried) + Len(todo)
      <4> DEFINE c == Len(tried)
                 d == Len(todo)
      <4>1. c \in Nat /\ d \in Nat /\ Len(tried') = c + 1 /\ Len(todo') = d - 1
        BY Zenon, <2>1, <2>2, <2>7
      <4> HIDE DEF c, d
      <4>2. Len(tried') + Len(todo') = c + d
        BY <4>1
      <4> QED BY <4>2 DEF c, d
    <3>2. pc' \in Calling
      BY <1>12, <2>7 DEF Complete
    <3>3. pc' \in Calling \ {"answer"} => Len(tried') + Len(todo') <= Cardinality(keys')
      BY <2>1, <2>7, <3>1, <3>2
    <3>4. pc' = "answer" => Len(tried') + Len(todo') <= Cardinality(keys') * 2
      BY <2>1, <2>7, <3>1
    <3> QED BY <2>6, <3>2, <3>3, <3>4
  <2>8. CASE pc' # pc
    <3>1. pc' = "query" => Len(tried') <= Cardinality(keys')
      BY <2>1, <2>3, <1>12 DEF Complete
    <3>2. pc' \notin Calling \cup (Fresh \ {"query"})
      BY <2>1, <2>8
    <3> QED BY <2>6, <3>1, <3>2
  <2> QED BY <2>7, <2>8
<1>13. CASE RunQuery
  BY <1>13 DEF RunQuery, Goto
<1>14. CASE EndQuery
  BY <1>14 DEF EndQuery
<1>15. CASE PanelFails
  BY <1>15 DEF PanelFails, Goto
<1>16. CASE UNCHANGED vars
  BY <1>16 DEF vars
<1> QED BY <1>1, <1>2, <1>3, <1>4, <1>5, <1>6, <1>7, <1>8,
           <1>9, <1>10, <1>11, <1>12, <1>13, <1>14, <1>15, <1>16
       DEF Next, ScriptStep

LEMMA NextTried == TypeOK /\ RunOK /\ CallsOK /\ TriedOK /\ [Next]_vars => TriedOK'
<1> SUFFICES ASSUME TypeOK, RunOK, CallsOK, TriedOK, [Next]_vars PROVE TriedOK'
  OBVIOUS
<1> USE ProviderVendors DEF TypeOK, RunOK, TriedOK, ToTry, Failed, OutageSurvived,
     tables, settings, read, calls
<1>1. CASE Tick
  BY <1>1 DEF Tick
<1>2. ASSUME NEW a \in Aircraft, Publish(a) PROVE TriedOK'
  BY <1>2 DEF Publish, Queue!Publish
<1>3. ASSUME NEW f \in Flight, Store(f) PROVE TriedOK'
  BY <1>3 DEF Store, Queue!Store
<1>4. CASE Open \/ SignIn \/ Close
  BY <1>4 DEF Open, SignIn, Close, Run, Clear
<1>5. ASSUME NEW b \in Buttons, Click(b) PROVE TriedOK'
  BY <1>5 DEF Click, Run, Clear, Over, Buttons, Yields, Remaining
<1>6. CASE Live
  BY <1>6, LiveLeads
<1>7. CASE LiveFails \/ Refresh
  BY <1>7 DEF LiveFails, Refresh, Goto, Over
<1>8. CASE FetchSummary
  BY <1>8 DEF FetchSummary, Goto
<1>9. CASE FetchSnapshot
  BY <1>9 DEF FetchSnapshot, Goto
<1>10. CASE FetchHistory
  BY <1>10 DEF FetchHistory, Goto
<1>11. CASE Report
  BY <1>11 DEF Report, Goto
<1>12. CASE Complete
  <2>1. PICK o \in Outcomes : tried' = Append(tried, <<Head(todo), o>>)
                             /\ (o = "text" => pc' \in {"query", "commit", "idle"})
                             /\ (o # "text" /\ Falls(o) /\ Len(todo) > 1
                                   => pc' = pc /\ todo' = Tail(todo))
                             /\ (o # "text" /\ ~(Falls(o) /\ Len(todo) > 1)
                                   => pc' \in {"idle", "llmerror"}
                                      /\ (pc' = "llmerror" => pc \in {"summarise", "explain"}))
    BY <1>12 DEF Complete, Goto, Calling
  <2>2. keys' = keys
    BY <1>12 DEF Complete, Goto
  <2>3. todo # <<>> /\ Head(todo) \in Vendors /\ Head(todo) = todo[1] /\ todo \in Seq(Vendors)
    BY <1>12 DEF Complete
  <2>a. <<Head(todo), o>> \in Vendors \X Outcomes /\ tried \in Seq(Vendors \X Outcomes)
    BY <2>3
  <2>4. /\ \A i \in DOMAIN tried : i \in DOMAIN tried' /\ tried'[i] = tried[i]
        /\ \E i \in DOMAIN tried' : tried'[i] = <<Head(todo), o>>
    <3> DEFINE e == <<Head(todo), o>>
    <3> HIDE DEF e
    <3>1. e \in Vendors \X Outcomes
      BY <2>a DEF e
    <3>2. /\ \A i \in DOMAIN tried : i \in DOMAIN Append(tried, e) /\ Append(tried, e)[i] = tried[i]
          /\ \E i \in DOMAIN Append(tried, e) : Append(tried, e)[i] = e
      <4>1. /\ Len(tried) + 1 \in DOMAIN Append(tried, e)
            /\ Append(tried, e)[Len(tried) + 1] = e
        BY <2>a, <3>1
      <4>2. \A i \in DOMAIN tried : i \in DOMAIN Append(tried, e) /\ Append(tried, e)[i] = tried[i]
        BY <2>a, <3>1
      <4> QED BY <4>1, <4>2
    <3> QED BY Zenon, <2>1, <3>2 DEF e
  <2>5. \A v \in keys : Failed(v) => Failed(v)'
    BY <2>4 DEF Failed
  <2>6. \A v \in keys : v = Head(todo) /\ o # "text" => Failed(v)'
    BY <2>4 DEF Failed
  <2>7. CASE o = "text"
    BY <2>1, <2>7
  <2>8. CASE o # "text" /\ Falls(o) /\ Len(todo) > 1
    <3>1. \A v \in keys : ToTry(v) => v = Head(todo) \/ ToTry(v)'
      BY <2>1, <2>3, <2>8, TailKeeps DEF ToTry
    <3>2. pc \in {"summarise", "explain"} => \A v \in keys : ToTry(v)' \/ Failed(v)'
      BY <2>5, <2>6, <2>8, <3>1 DEF TriedOK
    <3> QED BY <1>12, <2>1, <2>2, <2>8, <3>2 DEF Complete, Calling
  <2>9. CASE o # "text" /\ ~(Falls(o) /\ Len(todo) > 1)
    <3>1. CASE ~Falls(o)
      <4>1. o = "other"
        BY <2>9, <3>1 DEF Falls, Outcomes
      <4> QED BY <2>1, <2>4, <2>9, <4>1
    <3>2. CASE Len(todo) <= 1
      <4>1. \A v \in keys : ToTry(v) => v = Head(todo)
        BY <2>3, <3>2 DEF ToTry
      <4> QED BY <2>1, <2>2, <2>5, <2>6, <2>9, <4>1 DEF Failed
    <3> QED BY <2>3, <2>9, <3>1, <3>2
  <2> QED BY <2>7, <2>8, <2>9
<1>13. CASE RunQuery
  BY <1>13 DEF RunQuery, Goto
<1>14. CASE EndQuery
  BY <1>14 DEF EndQuery
<1>15. CASE PanelFails
  BY <1>15 DEF PanelFails, Goto
<1>16. CASE UNCHANGED vars
  BY <1>16 DEF vars
<1> QED BY <1>1, <1>2, <1>3, <1>4, <1>5, <1>6, <1>7, <1>8,
           <1>9, <1>10, <1>11, <1>12, <1>13, <1>14, <1>15, <1>16
       DEF Next, ScriptStep

LEMMA NextRead == TypeOK /\ ReadOK /\ [Next]_vars => ReadOK'
<1> SUFFICES ASSUME TypeOK, ReadOK, [Next]_vars PROVE ReadOK'
  OBVIOUS
<1> USE DashboardAssumption DEF TypeOK, ReadOK, SnapshotCovered, tables, settings,
     read, calls
<1>1. CASE Tick
  <2>1. \A f \in snap : now' - f.fetched_at < Lookback => now - f.fetched_at < Lookback
    BY <1>1, DashboardAssumption DEF Tick, Flight
  <2> QED BY <1>1, <2>1 DEF Tick
<1>2. ASSUME NEW a \in Aircraft, Publish(a) PROVE ReadOK'
  BY <1>2 DEF Publish, Queue!Publish
<1>3. ASSUME NEW f \in Flight, Store(f) PROVE ReadOK'
  <2>1. db' = Both(db, f) /\ UNCHANGED <<now, pc, snap, hist, written>>
    BY <1>3, SameTables DEF Store, Queue!Store
  <2>2. SnapshotInHistory(db) => SnapshotInHistory(db')
    BY <2>1, BothSnapshot
  <2>3. \A g \in Flight : db.history[g] > 0 => db'.history[g] > 0
    <3>1. db.history[f] \in Nat
      BY DEF Tables
    <3> QED BY <2>1, <3>1, BothHistory
  <2> QED BY <2>1, <2>2, <2>3
<1>4. CASE Open \/ SignIn \/ Close
  BY <1>4 DEF Open, SignIn, Close, Run, Clear
<1>5. ASSUME NEW b \in Buttons, Click(b) PROVE ReadOK'
  BY <1>5 DEF Click, Run, Clear, Over, Buttons, Yields, Remaining
<1>6. CASE Live
  BY <1>6, LiveLeads
<1>7. CASE LiveFails \/ Refresh
  BY <1>7 DEF LiveFails, Refresh, Goto, Over
<1>8. CASE FetchSummary
  BY <1>8 DEF FetchSummary, Goto
<1>9. CASE FetchSnapshot
  <2>1. ~written => \A f \in CurrentFlights : f \in Flight /\ db.history[f] > 0
    BY DEF CurrentFlights, SnapshotInHistory, Tables
  <2> QED BY <1>9, <2>1 DEF FetchSnapshot, Goto
<1>10. CASE FetchHistory
  <2>1. \A f \in snap : now - f.fetched_at < Lookback => RecentRows[f] = db.history[f]
    BY DEF RecentRows
  <2> QED BY <1>10, <2>1 DEF FetchHistory, Goto
<1>11. CASE Report
  BY <1>11 DEF Report, Goto
<1>12. CASE Complete
  BY <1>12 DEF Complete, Goto
<1>13. CASE RunQuery
  BY <1>13 DEF RunQuery, Goto
<1>14. CASE EndQuery
  <2>1. ~written' => ~written /\ db' = db
    BY Zenon, <1>14 DEF EndQuery
  <2> QED BY <1>14, <2>1 DEF EndQuery
<1>15. CASE PanelFails
  BY <1>15 DEF PanelFails, Goto
<1>16. CASE UNCHANGED vars
  BY <1>16 DEF vars
<1> QED BY <1>1, <1>2, <1>3, <1>4, <1>5, <1>6, <1>7, <1>8,
           <1>9, <1>10, <1>11, <1>12, <1>13, <1>14, <1>15, <1>16
       DEF Next, ScriptStep

LEMMA NextIInv == IInv /\ [Next]_vars => IInv'
BY NextType, NextRun, NextCalls, NextTried, NextRead DEF IInv

LEMMA Invariance == Spec => []IInv
BY InitIInv, NextIInv, PTL DEF Spec

-----------------------------------------------------------------------------

(***************************************************************************)
(* Type correctness of the session and of what it has read.                *)
(***************************************************************************)
THEOREM TypeCorrect == Spec => []TypeOK
<1>1. IInv => TypeOK
  BY DEF IInv
<1> QED BY <1>1, Invariance, PTL

(***************************************************************************)
(* No call to an LLM is made without the password and a click, and none    *)
(* beyond one per key and completion.                                      *)
(***************************************************************************)
THEOREM QuotaIsGuarded == Spec => []QuotaGuarded
<1>1. IInv => QuotaGuarded
  BY DEF IInv, CallsOK
<1> QED BY <1>1, Invariance, PTL

(***************************************************************************)
(* A run fails for the vendors' sake only after each of them that has a    *)
(* key has failed, or by an error that no fallback catches.                *)
(***************************************************************************)
THEOREM OneOutageIsSurvived == Spec => []OutageSurvived
<1>1. IInv => OutageSurvived
  BY DEF IInv, TriedOK
<1> QED BY <1>1, Invariance, PTL

(***************************************************************************)
(* However many stores come between the two connections, the history read  *)
(* second covers the snapshot read first, as long as no query has written. *)
(***************************************************************************)
THEOREM SnapshotHasItsHistory == Spec => []SnapshotCovered
<1>1. IInv => SnapshotCovered
  BY DEF IInv, ReadOK
<1> QED BY <1>1, Invariance, PTL

=============================================================================
