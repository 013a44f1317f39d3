--------------------------- MODULE FlightRepository ---------------------------
(***************************************************************************)
(* consumer/db.py: FlightRepository, one psycopg connection shared by the  *)
(* consumer's worker threads under one threading.Lock.  upsert_flight runs *)
(* two statements and a commit while it holds the lock.                    *)
(*                                                                         *)
(* The connection opens a transaction implicitly at the first statement.   *)
(* An error raised by the server aborts the transaction: the server then   *)
(* refuses every statement until a ROLLBACK, which this code never sends.  *)
(* A lost connection stays lost, since only connect() opens one.           *)
(***************************************************************************)
EXTENDS FlightTables

CONSTANTS
  Workers,    \* the threads of the consumer's pool
  NoWorker    \* the lock is free

ASSUME NoWorkerAssumption == NoWorker \notin Workers

VARIABLES
  conn,   \* self._conn: none, or psycopg's transaction status of it
  lock,   \* self._lock: the thread that holds it
  call,   \* where each thread is inside upsert_flight
  arg,    \* the observation each thread is storing
  work,   \* the tables as the connection's open transaction sees them
  db      \* the committed tables

vars == <<conn, lock, call, arg, work, db>>

ConnStates == {"none", "idle", "intrans", "inerror", "closed"}
Holding    == {"upsert", "insert", "commit"}
CallStates == {"idle", "lock", "ok", "failed"} \cup Holding

TypeOK ==
  /\ conn \in ConnStates
  /\ lock \in Workers \cup {NoWorker}
  /\ call \in [Workers -> CallStates]
  /\ arg \in [Workers -> Flight \cup {NoFlight}]
  /\ work \in Tables
  /\ db \in Tables

Init ==
  /\ conn = "none"
  /\ lock = NoWorker
  /\ call = [w \in Workers |-> "idle"]
  /\ arg = [w \in Workers |-> NoFlight]
  /\ work = EmptyTables
  /\ db = EmptyTables

Goto(w, c) == call' = [call EXCEPT ![w] = c]

(* Slip: acquire() and release() instead of the with block: an exception   *)
(* leaves the lock taken.                                                  *)
RaiseKeepsLock(w) ==
  /\ Goto(w, "failed")
  /\ UNCHANGED <<lock, arg>>

(* The statement or the commit raised: the with block releases the lock,   *)
(* the exception leaves upsert_flight, and nobody calls rollback().        *)
Raise(w) ==
  /\ Goto(w, "failed")
  /\ lock' = NoWorker
  /\ UNCHANGED arg

-----------------------------------------------------------------------------

Connect ==
  /\ conn = "none"
  /\ conn' = "idle"
  /\ UNCHANGED <<lock, call, arg, work, db>>

(* upsert_flight is entered: waits for the lock, or raises if connect()    *)
(* has not been called.                                                    *)
Enter(w, f) ==
  /\ call[w] = "idle"
  /\ Goto(w, IF conn = "none" THEN "failed" ELSE "lock")
  /\ arg' = [arg EXCEPT ![w] = f]
  /\ UNCHANGED <<conn, lock, work, db>>

(* Slip: no lock.                                                          *)
AcquireUnlocked(w) ==
  /\ call[w] = "lock"
  /\ conn # "closed"
  /\ lock' = w
  /\ Goto(w, "upsert")
  /\ UNCHANGED <<conn, arg, work, db>>

Acquire(w) ==
  /\ call[w] = "lock"
  /\ lock = NoWorker
  /\ conn # "closed"
  /\ lock' = w
  /\ Goto(w, "upsert")
  /\ UNCHANGED <<conn, arg, work, db>>

(* cursor() of a closed connection raises; the lock is taken and released. *)
AcquireClosed(w) ==
  /\ call[w] = "lock"
  /\ lock = NoWorker
  /\ conn = "closed"
  /\ Raise(w)
  /\ UNCHANGED <<conn, work, db>>

(* Slip: the connection is in autocommit mode.                             *)
UpsertAutocommit(w) ==
  /\ call[w] = "upsert"
  /\ conn \in {"idle", "intrans"}
  /\ conn' = "intrans"
  /\ work' = UpsertFlight(work, arg[w])
  /\ db' = work'
  /\ Goto(w, "insert")
  /\ UNCHANGED <<lock, arg>>

Upsert(w) ==
  /\ call[w] = "upsert"
  /\ conn \in {"idle", "intrans"}
  /\ conn' = "intrans"
  /\ work' = UpsertFlight(work, arg[w])
  /\ Goto(w, "insert")
  /\ UNCHANGED <<lock, arg, db>>

Insert(w) ==
  /\ call[w] = "insert"
  /\ conn = "intrans"
  /\ work' = InsertHistory(work, arg[w])
  /\ Goto(w, "commit")
  /\ UNCHANGED <<conn, lock, arg, db>>

Commit(w) ==
  /\ call[w] = "commit"
  /\ conn = "intrans"
  /\ conn' = "idle"
  /\ db' = work
  /\ Goto(w, "ok")
  /\ lock' = NoWorker
  /\ UNCHANGED <<arg, work>>

(* Slip: the history row's parameters are converted between the            *)
(* statements, and an error there leaves the upsert in the transaction.    *)
BindFailsLate(w) ==
  /\ call[w] = "insert"
  /\ conn = "intrans"
  /\ Raise(w)
  /\ UNCHANGED <<conn, work, db>>

(* The parameters cannot be converted: raised by the client after BEGIN    *)
(* went out and before the statement did.                                  *)
BindFails(w) ==
  /\ call[w] = "upsert"
  /\ conn \in {"idle", "intrans"}
  /\ conn' = "intrans"
  /\ Raise(w)
  /\ UNCHANGED <<work, db>>

(* Slip: a failed statement leaves the transaction open.                   *)
StatementFailsOpen(w) ==
  /\ call[w] \in {"upsert", "insert"}
  /\ conn \in {"idle", "intrans"}
  /\ conn' = "intrans"
  /\ Raise(w)
  /\ UNCHANGED <<work, db>>

(* The server rejects a statement and aborts the transaction, or rejects   *)
(* the COMMIT and ends it.                                                 *)
StatementFails(w) ==
  /\ call[w] \in Holding
  /\ conn \in {"idle", "intrans"}
  /\ conn' = IF call[w] = "commit" THEN "idle" ELSE "inerror"
  /\ work' = db
  /\ Raise(w)
  /\ UNCHANGED db

(* The transaction is already aborted: InFailedSqlTransaction.             *)
RefusedInError(w) ==
  /\ call[w] = "upsert"
  /\ conn = "inerror"
  /\ Raise(w)
  /\ UNCHANGED <<conn, work, db>>

(* The connection went away under a thread that was using it.              *)
UseClosed(w) ==
  /\ call[w] \in Holding
  /\ conn = "closed"
  /\ Raise(w)
  /\ UNCHANGED <<conn, work, db>>

(* The server commits, but the connection breaks before it says so.        *)
CommitUnanswered(w) ==
  /\ call[w] = "commit"
  /\ conn = "intrans"
  /\ conn' = "closed"
  /\ db' = work
  /\ Raise(w)
  /\ UNCHANGED work

Return(w) ==
  /\ call[w] \in {"ok", "failed"}
  /\ Goto(w, "idle")
  /\ arg' = [arg EXCEPT ![w] = NoFlight]
  /\ UNCHANGED <<conn, lock, work, db>>

(* PostgreSQL goes away, or close() is called: what the open transaction   *)
(* wrote is rolled back by the server.                                     *)
Disconnect ==
  /\ conn \in {"idle", "intrans", "inerror"}
  /\ conn' = "closed"
  /\ work' = db
  /\ UNCHANGED <<lock, call, arg, db>>

(* The process ends and everything it kept in memory with it.  A COMMIT    *)
(* that was already on its way may still be executed.                      *)
Vanish ==
  /\ conn' = "none"
  /\ lock' = NoWorker
  /\ call' = [w \in Workers |-> "idle"]
  /\ arg' = [w \in Workers |-> NoFlight]
  /\ \/ UNCHANGED db
     \/ /\ conn = "intrans"
        /\ \E w \in Workers : call[w] = "commit"
        /\ db' = work
  /\ work' = db'

(* What the thread does next on its own, and what can go wrong under it.   *)
Step(w) == \/ Acquire(w) \/ AcquireClosed(w) \/ Upsert(w) \/ Insert(w) \/ Commit(w)
           \/ RefusedInError(w) \/ UseClosed(w)
Fault(w) == BindFails(w) \/ StatementFails(w) \/ CommitUnanswered(w)

Next ==
  \/ Connect
  \/ \E w \in Workers : (\E f \in Flight : Enter(w, f)) \/ Step(w) \/ Fault(w) \/ Return(w)
  \/ Disconnect
  \/ Vanish

Spec == Init /\ [][Next]_vars

-----------------------------------------------------------------------------

(***************************************************************************)
(* Mutual exclusion: exactly the thread that holds the lock is between the *)
(* first statement and the end of the commit, so two threads never write   *)
(* in the same transaction (db.py, the lock of the class docstring).       *)
(***************************************************************************)
OneTransaction == \A w \in Workers : call[w] \in Holding <=> lock = w

(***************************************************************************)
(* No residue: while the lock is free the open transaction, if there is    *)
(* one, has written nothing.  Otherwise the next thread's commit would     *)
(* make half of a failed upsert durable.                                   *)
(***************************************************************************)
NoResidue == lock = NoWorker => work = db

(***************************************************************************)
(* Outside a transaction nothing is uncommitted; inside one, the open      *)
(* transaction is exactly the statements its own thread has executed so    *)
(* far over the committed tables, whatever failed before it.               *)
(***************************************************************************)
OwnWritesOnly ==
  /\ conn # "intrans" => work = db
  /\ conn = "intrans" =>
       \A w \in Workers :
         /\ call[w] = "upsert" => work = db
         /\ call[w] = "insert" => work = UpsertFlight(db, arg[w])
         /\ call[w] = "commit" => work = InsertHistory(UpsertFlight(db, arg[w]), arg[w])

(***************************************************************************)
(* The current snapshot and the history never disagree: an aircraft has a  *)
(* row in flights exactly if it has one in flight_history, and the former  *)
(* is one of the latter, whatever failed between the two statements.       *)
(***************************************************************************)
SnapshotFromHistory == SnapshotInHistory(db)

(***************************************************************************)
(* The repository implements FlightStore: the lock, the two statements and *)
(* the commit together act as one indivisible step (db.py:99, "Update the  *)
(* current snapshot and append a history row, atomically").                *)
(***************************************************************************)
Phase == [w \in Workers |->
            IF call[w] \in Holding \cup {"lock"} THEN "pending" ELSE call[w]]

Store == INSTANCE FlightStore WITH phase <- Phase

ImplementsStore == Store!Spec

=============================================================================
