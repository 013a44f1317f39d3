------------------------ MODULE FlightRepositoryProofs ------------------------
(***************************************************************************)
(* Theorems about FlightRepository for any threads, aircraft and stamps:   *)
(* type correctness, the invariants of the shared transaction, and the     *)
(* refinement of FlightStore.                                              *)
(***************************************************************************)
EXTENDS FlightRepository, FlightTablesProofs, TLAPS

(* A thread inside a call has an observation to store.                     *)
ArgOK == \A w \in Workers : call[w] # "idle" => arg[w] \in Flight

IInv == TypeOK /\ ArgOK /\ OneTransaction /\ NoResidue /\ OwnWritesOnly

LEMMA InitIInv == Init => IInv
<1> SUFFICES ASSUME Init PROVE IInv
  OBVIOUS
<1>1. TypeOK
  BY EmptyType DEF Init, TypeOK, ConnStates, CallStates, Holding
<1>2. ArgOK /\ OneTransaction /\ NoResidue /\ OwnWritesOnly
  BY NoWorkerAssumption DEF Init, ArgOK, OneTransaction, NoResidue, OwnWritesOnly, Holding
<1> QED BY <1>1, <1>2 DEF IInv

(* Every step of the repository preserves the types.                       *)
LEMMA NextType == TypeOK /\ ArgOK /\ [Next]_vars => TypeOK'
<1> SUFFICES ASSUME TypeOK, ArgOK, [Next]_vars PROVE TypeOK'
  OBVIOUS
<1> USE DEF TypeOK, ConnStates, CallStates, Holding, Goto, Raise
<1>1. CASE Connect
  BY <1>1 DEF Connect
<1>2. ASSUME NEW w \in Workers, NEW f \in Flight, Enter(w, f) PROVE TypeOK'
  BY <1>2 DEF Enter
<1>3. ASSUME NEW w \in Workers, Step(w) PROVE TypeOK'
  <2>1. CASE Acquire(w) \/ AcquireClosed(w) \/ RefusedInError(w) \/ UseClosed(w)
    BY <2>1 DEF Acquire, AcquireClosed, RefusedInError, UseClosed
  <2>2. CASE Upsert(w)
    BY <2>2, StatementsType DEF Upsert, ArgOK
  <2>3. CASE Insert(w)
    BY <2>3, StatementsType DEF Insert, ArgOK
  <2>4. CASE Commit(w)
    BY <2>4 DEF Commit
  <2> QED BY <1>3, <2>1, <2>2, <2>3, <2>4 DEF Step
<1>4. ASSUME NEW w \in Workers, Fault(w) PROVE TypeOK'
  BY <1>4 DEF Fault, BindFails, StatementFails, CommitUnanswered
<1>5. ASSUME NEW w \in Workers, Return(w) PROVE TypeOK'
  BY <1>5 DEF Return
<1>6. CASE Disconnect
  BY <1>6 DEF Disconnect
<1>7. CASE Vanish
  BY <1>7 DEF Vanish
<1>8. CASE UNCHANGED vars
  BY <1>8 DEF vars
<1> QED BY <1>1, <1>2, <1>3, <1>4, <1>5, <1>6, <1>7, <1>8 DEF Next

(***************************************************************************)
(* The invariant is inductive.  One step per action; the interesting ones  *)
(* are the failures, which must leave work equal to db as they free the    *)
(* lock.                                                                   *)
(***************************************************************************)
LEMMA NextIInv == IInv /\ [Next]_vars => IInv'
<1> SUFFICES ASSUME IInv, [Next]_vars PROVE IInv'
  OBVIOUS
<1>0. TypeOK'
  BY NextType DEF IInv
<1> DEFINE Rest == ArgOK /\ OneTransaction /\ NoResidue /\ OwnWritesOnly
<1> SUFFICES Rest'
  BY <1>0 DEF IInv
<1> USE NoWorkerAssumption DEF IInv, TypeOK, ConnStates, CallStates, Holding, Goto, Raise,
        ArgOK, OneTransaction, NoResidue, OwnWritesOnly
<1>1. CASE Connect
  BY <1>1 DEF Connect
<1>2. ASSUME NEW w \in Workers, NEW f \in Flight, Enter(w, f) PROVE Rest'
  BY <1>2 DEF Enter
<1>3. ASSUME NEW w \in Workers, Step(w) PROVE Rest'
  <2>1. CASE Acquire(w)
    BY <2>1 DEF Acquire
  <2>2. CASE AcquireClosed(w)
    BY <2>2 DEF AcquireClosed
  <2>3. CASE Upsert(w)
    BY <2>3 DEF Upsert
  <2>4. CASE Insert(w)
    BY <2>4 DEF Insert
  <2>5. CASE Commit(w)
    BY <2>5 DEF Commit
  <2>6. CASE RefusedInError(w)
    BY <2>6 DEF RefusedInError
  <2>7. CASE UseClosed(w)
    BY <2>7 DEF UseClosed
  <2> QED BY <1>3, <2>1, <2>2, <2>3, <2>4, <2>5, <2>6, <2>7 DEF Step
<1>4. ASSUME NEW w \in Workers, Fault(w) PROVE Rest'
  <2>1. CASE BindFails(w)
    BY <2>1 DEF BindFails
  <2>2. CASE StatementFails(w)
    BY <2>2 DEF StatementFails
  <2>3. CASE CommitUnanswered(w)
    BY <2>3 DEF CommitUnanswered
  <2> QED BY <1>4, <2>1, <2>2, <2>3 DEF Fault
<1>5. ASSUME NEW w \in Workers, Return(w) PROVE Rest'
  BY <1>5 DEF Return
<1>6. CASE Disconnect
  BY <1>6 DEF Disconnect
<1>7. CASE Vanish
  BY <1>7 DEF Vanish
<1>8. CASE UNCHANGED vars
  BY <1>8 DEF vars
<1> QED BY <1>1, <1>2, <1>3, <1>4, <1>5, <1>6, <1>7, <1>8 DEF Next

(***************************************************************************)
(* The tables change by whole calls only.                                  *)
(***************************************************************************)
LEMMA TablesChange ==
  IInv /\ [Next]_vars =>
    UNCHANGED db \/ \E w \in Workers : call[w] = "commit" /\ db' = Both(db, arg[w])
<1> SUFFICES ASSUME IInv, [Next]_vars
             PROVE  UNCHANGED db \/ \E w \in Workers : call[w] = "commit" /\ db' = Both(db, arg[w])
  OBVIOUS
<1>1. ASSUME NEW w \in Workers, call[w] = "commit", conn = "intrans", db' = work
      PROVE  db' = Both(db, arg[w])
  BY <1>1 DEF IInv, OwnWritesOnly, Both
<1>2. ASSUME NEW w \in Workers, Step(w)
      PROVE  UNCHANGED db \/ (call[w] = "commit" /\ db' = Both(db, arg[w]))
  BY <1>1, <1>2 DEF Step, Acquire, AcquireClosed, Upsert, Insert, Commit, RefusedInError, UseClosed
<1>3. ASSUME NEW w \in Workers, Fault(w)
      PROVE  UNCHANGED db \/ (call[w] = "commit" /\ db' = Both(db, arg[w]))
  BY <1>1, <1>3 DEF Fault, BindFails, StatementFails, CommitUnanswered
<1>4. CASE Vanish
  BY <1>1, <1>4 DEF Vanish
<1>5. CASE \/ Connect \/ Disconnect \/ UNCHANGED vars
           \/ \E w \in Workers : (\E f \in Flight : Enter(w, f)) \/ Return(w)
  BY <1>5 DEF Connect, Disconnect, Enter, Return, vars
<1> QED BY <1>2, <1>3, <1>4, <1>5 DEF Next

(* Rows of flight_history are never deleted.                               *)
LEMMA HistoryGrows ==
  IInv /\ [Next]_vars => \A f \in Flight : db.history[f] > 0 => db'.history[f] > 0
<1> SUFFICES ASSUME IInv, [Next]_vars, NEW f \in Flight, db.history[f] > 0
             PROVE  db'.history[f] > 0
  OBVIOUS
<1>1. db \in Tables /\ db.history[f] \in Nat
  BY DEF IInv, TypeOK, Tables
<1>2. CASE UNCHANGED db
  BY <1>2
<1>3. ASSUME NEW w \in Workers, call[w] = "commit", db' = Both(db, arg[w])
      PROVE  db'.history[f] > 0
  <2>1. arg[w] \in Flight
    BY <1>3 DEF IInv, ArgOK
  <2> QED BY <1>1, <1>3, <2>1, BothHistory
<1> QED BY <1>2, <1>3, TablesChange

(* A call that came to its end without an exception has stored its flight. *)
OkIsStored == \A w \in Workers : call[w] = "ok" => db.history[arg[w]] > 0

(* A call returns like that only by its own commit.                        *)
LEMMA OkSteps ==
  IInv /\ [Next]_vars =>
    \A w \in Workers : call'[w] = "ok" =>
      /\ arg'[w] = arg[w]
      /\ call[w] = "ok" \/ (call[w] = "commit" /\ db' = Both(db, arg[w]))
<1> SUFFICES ASSUME IInv, [Next]_vars, NEW w \in Workers, call'[w] = "ok"
             PROVE  /\ arg'[w] = arg[w]
                    /\ call[w] = "ok" \/ (call[w] = "commit" /\ db' = Both(db, arg[w]))
  OBVIOUS
<1> USE DEF IInv, TypeOK, ArgOK
<1>1. CASE call[w] = "ok" /\ arg'[w] = arg[w]
  BY <1>1
<1>2. CASE Commit(w)
  BY <1>2 DEF Commit, OwnWritesOnly, Both
<1>3. ASSUME NEW v \in Workers, Step(v) PROVE (call[w] = "ok" /\ arg'[w] = arg[w]) \/ Commit(w)
  BY <1>3 DEF Step, Acquire, AcquireClosed, Upsert, Insert, Commit, RefusedInError, UseClosed,
     Goto, Raise
<1>4. ASSUME NEW v \in Workers, Fault(v) PROVE call[w] = "ok" /\ arg'[w] = arg[w]
  BY <1>4 DEF Fault, BindFails, StatementFails, CommitUnanswered, Goto, Raise
<1>5. ASSUME \/ Connect \/ Disconnect \/ Vanish \/ UNCHANGED vars
             \/ \E v \in Workers : (\E f \in Flight : Enter(v, f)) \/ Return(v)
      PROVE  call[w] = "ok" /\ arg'[w] = arg[w]
  BY <1>5 DEF Connect, Disconnect, Vanish, Enter, Return, vars, Goto
<1> QED BY <1>1, <1>2, <1>3, <1>4, <1>5 DEF Next

LEMMA NextOkIsStored == IInv /\ OkIsStored /\ [Next]_vars => OkIsStored'
<1> SUFFICES ASSUME IInv, OkIsStored, [Next]_vars, NEW w \in Workers, call'[w] = "ok"
             PROVE  db'.history[arg'[w]] > 0
  BY DEF OkIsStored
<1>1. arg'[w] = arg[w] /\ arg[w] \in Flight /\ db \in Tables
  <2>1. arg'[w] = arg[w] /\ call[w] \in {"ok", "commit"}
    BY OkSteps
  <2> QED BY <2>1 DEF IInv, TypeOK, ArgOK
<1>2. CASE call[w] = "ok"
  BY <1>1, <1>2, HistoryGrows DEF OkIsStored
<1>3. CASE db' = Both(db, arg[w])
  <2>1. db.history[arg[w]] \in Nat
    BY <1>1 DEF Tables
  <2> QED BY <1>1, <1>3, <2>1, BothHistory
<1> QED BY <1>2, <1>3, OkSteps

(***************************************************************************)
(* Type correctness of the repository: its variables never leave their     *)
(* sets, whatever fails under upsert_flight.                               *)
(***************************************************************************)
THEOREM TypeCorrect == Spec => []TypeOK
<1>1. IInv => TypeOK
  BY DEF IInv
<1> QED BY InitIInv, NextIInv, <1>1, PTL DEF Spec

(***************************************************************************)
(* Only the thread that holds self._lock executes statements or commits.   *)
(***************************************************************************)
THEOREM MutualExclusion == Spec => []OneTransaction
<1>1. IInv => OneTransaction
  BY DEF IInv
<1> QED BY InitIInv, NextIInv, <1>1, PTL DEF Spec

(***************************************************************************)
(* A failed upsert_flight leaves nothing behind for the next commit,       *)
(***************************************************************************)
THEOREM NothingLeftBehind == Spec => []NoResidue
<1>1. IInv => NoResidue
  BY DEF IInv
<1> QED BY InitIInv, NextIInv, <1>1, PTL DEF Spec

(***************************************************************************)
(* ... and what is uncommitted is exactly what the running call wrote.     *)
(***************************************************************************)
THEOREM CommitsOwnWork == Spec => []OwnWritesOnly
<1>1. IInv => OwnWritesOnly
  BY DEF IInv
<1> QED BY InitIInv, NextIInv, <1>1, PTL DEF Spec

(***************************************************************************)
(* The row in flights is always one of the aircraft's rows in              *)
(* flight_history, and both tables know the same aircraft.                 *)
(***************************************************************************)
THEOREM SnapshotAndHistoryAgree == Spec => []SnapshotFromHistory
<1>1. Init => SnapshotFromHistory
  <2>1. /\ EmptyTables.flights = [a \in Aircraft |-> NoFlight]
        /\ EmptyTables.history = [f \in Flight |-> 0]
    BY DEF EmptyTables
  <2>2. \A a \in Aircraft : EmptyTables.flights[a] = NoFlight
    BY <2>1
  <2>3. \A f \in Flight : EmptyTables.history[f] = 0
    BY <2>1
  <2> QED BY <2>2, <2>3 DEF Init, SnapshotFromHistory, SnapshotInHistory
<1>2. IInv /\ SnapshotFromHistory /\ [Next]_vars => SnapshotFromHistory'
  <2> SUFFICES ASSUME IInv, SnapshotFromHistory, [Next]_vars PROVE SnapshotFromHistory'
    OBVIOUS
  <2>1. CASE UNCHANGED db
    BY <2>1 DEF SnapshotFromHistory
  <2>2. ASSUME NEW w \in Workers, call[w] = "commit", db' = Both(db, arg[w])
        PROVE  SnapshotFromHistory'
    <3>1. db \in Tables /\ arg[w] \in Flight
      BY <2>2 DEF IInv, TypeOK, ArgOK
    <3> QED BY <2>2, <3>1, BothSnapshot DEF SnapshotFromHistory
  <2> QED BY <2>1, <2>2, TablesChange
<1> QED BY InitIInv, NextIInv, <1>1, <1>2, PTL DEF Spec

-----------------------------------------------------------------------------

(* The tables of the abstract store are the tables of the repository.      *)
LEMMA InitRefines == Init => Store!Init
BY DEF Init, Store!Init, Phase, Store!EmptyTables, EmptyTables, Store!Flight, Flight, Holding

(***************************************************************************)
(* Every step of the repository is a step of the store or none at all:     *)
(* Commit and CommitUnanswered store, the failures refuse, Vanish vanishes.*)
(***************************************************************************)
LEMMA NextRefines == IInv /\ [Next]_vars => [Store!Next]_Store!vars
<1> SUFFICES ASSUME IInv, [Next]_vars PROVE [Store!Next]_Store!vars
  OBVIOUS
<1> USE DEF IInv, TypeOK, ConnStates, CallStates, Holding, Goto, Raise, Phase, Store!vars
<1>1. CASE Connect
  BY <1>1 DEF Connect
<1>2. ASSUME NEW w \in Workers, NEW f \in Flight, Enter(w, f) PROVE Store!Next
  <2>1. f \in Store!Flight
    BY DEF Flight, Store!Flight
  <2>2. CASE conn = "none"
    <3>1. Store!Reject(w, f)
      BY <1>2, <2>2 DEF Enter, Store!Reject
    <3> QED BY <3>1, <2>1 DEF Store!Next
  <2>3. CASE conn # "none"
    <3>1. Store!Submit(w, f)
      BY <1>2, <2>3 DEF Enter, Store!Submit
    <3> QED BY <3>1, <2>1 DEF Store!Next
  <2> QED BY <2>2, <2>3
<1>3. ASSUME NEW w \in Workers, Commit(w) PROVE Store!Store(w)
  BY <1>3 DEF Commit, Store!Store, Store!Both, OwnWritesOnly,
     UpsertFlight, InsertHistory, Store!UpsertFlight, Store!InsertHistory
<1>4. ASSUME NEW w \in Workers, CommitUnanswered(w) PROVE Store!StoreUnanswered(w)
  BY <1>4 DEF CommitUnanswered, Store!StoreUnanswered, Store!Both, OwnWritesOnly,
     UpsertFlight, InsertHistory, Store!UpsertFlight, Store!InsertHistory
<1>5. ASSUME NEW w \in Workers, Raise(w), UNCHANGED db, call[w] \in Holding \cup {"lock"}
      PROVE Store!Refuse(w)
  BY <1>5 DEF Store!Refuse
<1>6. ASSUME NEW w \in Workers, Step(w) PROVE [Store!Next]_Store!vars
  <2>1. CASE Acquire(w) \/ Upsert(w) \/ Insert(w)
    BY <2>1 DEF Acquire, Upsert, Insert
  <2>2. CASE AcquireClosed(w) \/ RefusedInError(w) \/ UseClosed(w)
    <3>1. Store!Refuse(w)
      BY <1>5, <2>2 DEF AcquireClosed, RefusedInError, UseClosed
    <3> QED BY <3>1 DEF Store!Next
  <2>3. CASE Commit(w)
    BY <2>3, <1>3 DEF Store!Next
  <2> QED BY <1>6, <2>1, <2>2, <2>3 DEF Step
<1>7. ASSUME NEW w \in Workers, Fault(w) PROVE Store!Next
  <2>1. CASE BindFails(w) \/ StatementFails(w)
    <3>1. Store!Refuse(w)
      BY <1>5, <2>1 DEF BindFails, StatementFails
    <3> QED BY <3>1 DEF Store!Next
  <2>2. CASE CommitUnanswered(w)
    BY <2>2, <1>4 DEF Store!Next
  <2> QED BY <1>7, <2>1, <2>2 DEF Fault
<1>8. ASSUME NEW w \in Workers, Return(w) PROVE Store!Next
  <2>1. Store!Return(w)
    BY <1>8 DEF Return, Store!Return
  <2> QED BY <2>1 DEF Store!Next
<1>9. CASE Disconnect
  BY <1>9 DEF Disconnect
<1>10. CASE Vanish
  <2>1. Store!Vanish
    <3>1. CASE UNCHANGED db
      BY <1>10, <3>1 DEF Vanish, Store!Vanish
    <3>2. CASE conn = "intrans" /\ (\E w \in Workers : call[w] = "commit") /\ db' = work
      <4>1. PICK w \in Workers : call[w] = "commit"
        BY <3>2
      <4>2. db' = Store!Both(db, arg[w])
        BY <3>2, <4>1 DEF OwnWritesOnly, Store!Both, UpsertFlight, InsertHistory,
           Store!UpsertFlight, Store!InsertHistory
      <4> QED BY <1>10, <4>1, <4>2 DEF Vanish, Store!Vanish
    <3> QED BY <1>10, <3>1, <3>2 DEF Vanish
  <2> QED BY <2>1 DEF Store!Next
<1>11. CASE UNCHANGED vars
  BY <1>11 DEF vars
<1> QED BY <1>1, <1>2, <1>6, <1>7, <1>8, <1>9, <1>10, <1>11 DEF Next

(***************************************************************************)
(* upsert_flight is atomic for its callers: the repository implements      *)
(* FlightStore, where both tables change in one step or neither does.      *)
(***************************************************************************)
THEOREM Atomic == Spec => ImplementsStore
BY InitIInv, NextIInv, InitRefines, NextRefines, PTL DEF Spec, ImplementsStore, Store!Spec

-----------------------------------------------------------------------------
(* Nobody waits for ever *)

(* The connection is as the thread that holds the lock needs it.           *)
HolderOK ==
  \A w \in Workers :
    /\ call[w] \in {"lock", "upsert"} => conn # "none"
    /\ call[w] \in {"insert", "commit"} => conn \in {"intrans", "closed"}

(* The guards of Step and Return: what a thread in a call may do next.     *)
MayGo(w) ==
  \/ call[w] = "lock" /\ lock = NoWorker
  \/ call[w] = "upsert" /\ conn # "none"
  \/ call[w] \in {"insert", "commit"} /\ conn \in {"intrans", "closed"}
  \/ call[w] \in {"ok", "failed"}

(* A thread that has to wait waits for one that need not.                  *)
NobodyStuck ==
  \A w \in Workers :
    call[w] # "idle" => MayGo(w) \/ (call[w] = "lock" /\ lock \in Workers /\ MayGo(lock))

(* Steps a call still takes at most.                                       *)
CallLeft(w) ==
  CASE call[w] = "idle"           -> 0
    [] call[w] \in {"ok", "failed"} -> 1
    [] call[w] = "commit"         -> 2
    [] call[w] = "insert"         -> 3
    [] call[w] = "upsert"         -> 4
    [] call[w] = "lock"           -> 5

CallsRunOut ==
  \A w \in Workers : Step(w) \/ Fault(w) \/ Return(w) =>
    CallLeft(w)' < CallLeft(w) /\ \A v \in Workers \ {w} : CallLeft(v)' = CallLeft(v)

LEMMA NextHolderOK == IInv /\ HolderOK /\ [Next]_vars => HolderOK'
<1> SUFFICES ASSUME IInv, HolderOK, [Next]_vars PROVE HolderOK'
  OBVIOUS
<1> USE NoWorkerAssumption DEF IInv, TypeOK, ConnStates, CallStates, Holding, Goto, Raise,
        OneTransaction, HolderOK
<1>1. CASE Connect
  BY <1>1 DEF Connect
<1>2. ASSUME NEW w \in Workers, NEW f \in Flight, Enter(w, f) PROVE HolderOK'
  BY <1>2 DEF Enter
<1>3. ASSUME NEW w \in Workers, Step(w) PROVE HolderOK'
  BY <1>3 DEF Step, Acquire, AcquireClosed, Upsert, Insert, Commit, RefusedInError, UseClosed
<1>4. ASSUME NEW w \in Workers, Fault(w) PROVE HolderOK'
  BY <1>4 DEF Fault, BindFails, StatementFails, CommitUnanswered
<1>5. ASSUME NEW w \in Workers, Return(w) PROVE HolderOK'
  BY <1>5 DEF Return
<1>6. CASE Disconnect \/ Vanish \/ UNCHANGED vars
  BY <1>6 DEF Disconnect, Vanish, vars
<1> QED BY <1>1, <1>2, <1>3, <1>4, <1>5, <1>6 DEF Next

LEMMA HolderGoes == IInv /\ HolderOK => NobodyStuck
BY NoWorkerAssumption DEF IInv, TypeOK, CallStates, Holding, OneTransaction, HolderOK, NobodyStuck,
   MayGo

LEMMA NextRunsOut == TypeOK /\ [Next]_vars => CallsRunOut
<1> SUFFICES ASSUME TypeOK, NEW w \in Workers, Step(w) \/ Fault(w) \/ Return(w)
             PROVE  CallLeft(w)' < CallLeft(w) /\ \A v \in Workers \ {w} : CallLeft(v)' = CallLeft(v)
  BY DEF CallsRunOut
<1> USE DEF TypeOK, CallStates, Holding, Goto, Raise
<1>1. \A v \in Workers \ {w} : call'[v] = call[v]
  BY DEF Step, Fault, Return, Acquire, AcquireClosed, Upsert, Insert, Commit, RefusedInError,
     UseClosed, BindFails, StatementFails, CommitUnanswered
<1>2. \/ call[w] = "lock" /\ call'[w] \in {"upsert", "failed"}
      \/ call[w] = "upsert" /\ call'[w] \in {"insert", "failed"}
      \/ call[w] = "insert" /\ call'[w] \in {"commit", "failed"}
      \/ call[w] = "commit" /\ call'[w] \in {"ok", "failed"}
      \/ call[w] \in {"ok", "failed"} /\ call'[w] = "idle"
  <2>1. CASE Step(w)
    BY <2>1 DEF Step, Acquire, AcquireClosed, Upsert, Insert, Commit, RefusedInError, UseClosed
  <2>2. CASE Fault(w) \/ Return(w)
    BY <2>2 DEF Fault, BindFails, StatementFails, CommitUnanswered, Return
  <2> QED BY <2>1, <2>2
<1>3. CallLeft(w)' < CallLeft(w)
  BY <1>2 DEF CallLeft
<1> QED BY <1>1, <1>3 DEF CallLeft

(***************************************************************************)
(* The lock never blocks for good (db.py): the connection under it may be  *)
(* idle, in a transaction, aborted or lost, yet whoever holds the lock has *)
(* a next step, and a call takes five steps at most, failures included.    *)
(***************************************************************************)
THEOREM EveryCallEnds == Spec => []NobodyStuck /\ [][CallsRunOut]_vars
<1>1. Init => HolderOK
  BY DEF Init, HolderOK
<1>2. IInv => TypeOK
  BY DEF IInv
<1> QED BY <1>1, <1>2, InitIInv, NextIInv, NextHolderOK, HolderGoes, NextRunsOut, PTL DEF Spec

=============================================================================
