----------------------------- MODULE ProbeStore -----------------------------
(***************************************************************************)
(* The probe's Store and the life of the process that owns it: collector   *)
(* threads insert rows into SQLite (one connection, one lock) and then     *)
(* append them to the archive outside the lock; the prune thread deletes   *)
(* old rows; HTTP handlers export snapshots; the main thread stops and     *)
(* closes it; the process can die between any two steps.                   *)
(*                                                                         *)
(* A block under the lock is one step.  A failed statement or commit may   *)
(* leave the connection's transaction open, or SQLite may roll it back.    *)
(***************************************************************************)
EXTENDS Integers, Sequences, FiniteSets

CONSTANTS
  Collectors,  \* threads that insert measurements
  Main,        \* the main thread, which inserts the life-cycle markers
  TABLES,      \* the tables, in the order prune visits them
  TableOf,     \* the table each thread inserts into
  RetainDays,  \* Store.retain_days; 0 keeps everything
  MaxRows,     \* bound: rows ever made
  MaxDays      \* bound: days that pass

ASSUME StoreAssumption ==
  /\ Main \notin Collectors
  /\ RetainDays \in Nat /\ MaxRows \in Nat /\ MaxDays \in Nat
  /\ TABLES \in Seq(STRING) /\ TableOf \in [Collectors \cup {Main} -> STRING]

Threads == Collectors \cup {Main}
Row == [id : Nat, table : STRING, ts : Nat]

VARIABLES
  phase,     \* the process: down, starting, up, stopping, joining, closed
  today,     \* the date
  made,      \* rows made so far
  pc,        \* where each thread is inside Store.insert
  row,       \* the row each thread is inserting
  db,        \* committed rows
  txn,       \* rows added and deleted by a transaction left open
  archive,   \* rows in the NDJSON files
  inserted,  \* history: rows whose insert returned
  dbFailed,  \* history: rows whose SQLite insert logged an error
  archiveFailed, \* history: rows whose archive write failed
  orphaned   \* history: rows whose process died inside their insert

history == <<inserted, dbFailed, archiveFailed, orphaned>>
vars == <<phase, today, made, pc, row, db, txn, archive, history>>

NoTxn == [add |-> {}, del |-> {}]

Init ==
  /\ phase = "down" /\ today = 0 /\ made = 0
  /\ pc = [t \in Threads |-> "idle"] /\ row = [t \in Threads |-> [id |-> 0, table |-> TableOf[t], ts |-> 0]]
  /\ db = {} /\ txn = NoTxn /\ archive = {}
  /\ inserted = {} /\ dbFailed = {} /\ archiveFailed = {} /\ orphaned = {}

Expired(r) == RetainDays > 0 /\ r.ts < today - RetainDays

-----------------------------------------------------------------------------
(* Store.insert, thread by thread.                                         *)

\* Variant: the statement is executed and not committed.
Uncommitted(add, del) == (db \cup txn.add) \ (txn.del \cup del)

\* What a commit leaves in the database.
Committed(add, del) == (db \cup txn.add \cup add) \ (txn.del \cup del)

NextRow(t) == [id |-> made + 1, table |-> TableOf[t], ts |-> today]

\* A thread takes the timestamp of its next row and calls insert.
Make(t) ==
  /\ pc[t] = "idle" /\ made < MaxRows
  /\ row' = [row EXCEPT ![t] = NextRow(t)]
  /\ made' = made + 1
  /\ pc' = [pc EXCEPT ![t] = "db"]

\* Collectors insert from the start until the process is gone: run_once only
\* looks at stop when it waits.
CollectorInserts(t) ==
  /\ phase \in {"up", "stopping", "joining", "closed"}
  /\ Make(t)
  /\ UNCHANGED <<phase, today, db, txn, archive, history>>

InsertCommits(t) ==
  /\ pc[t] = "db" /\ phase # "closed"
  /\ db' = Committed({row[t]}, {})
  /\ txn' = NoTxn
  /\ pc' = [pc EXCEPT ![t] = "archive"]
  /\ UNCHANGED <<phase, today, made, row, archive, history>>

\* What an error leaves of the transaction: the statement had no effect, or
\* it had and the commit failed, or SQLite rolled everything back.
AfterError(add, del) ==
  IF phase = "closed" THEN {txn}
  ELSE {txn, NoTxn, [add |-> txn.add \cup add, del |-> txn.del \cup del]}

\* Variant: the error ends the insert.
GivesUp == "idle"

\* The error is swallowed and the row still goes to the archive.
GoesOn == "archive"

\* sqlite3.Error is logged and insert goes on to the archive; a closed
\* connection is such an error.
InsertFails(t) ==
  /\ pc[t] = "db"
  /\ txn' \in AfterError({row[t]}, {})
  /\ dbFailed' = dbFailed \cup {row[t]}
  /\ pc' = [pc EXCEPT ![t] = GoesOn]
  /\ UNCHANGED <<phase, today, made, row, db, archive, inserted,
                 archiveFailed, orphaned>>

\* Variant: the file is opened for writing, not for appending.
Overwritten(r) == {r}

Appended(r) == archive \cup {r}

\* _archive appends the row, outside the lock ...
Archives(t) ==
  /\ pc[t] = "archive"
  /\ archive' = Appended(row[t])
  /\ inserted' = inserted \cup {row[t]}
  /\ pc' = [pc EXCEPT ![t] = "idle"]
  /\ UNCHANGED <<phase, today, made, row, db, txn, dbFailed,
                 archiveFailed, orphaned>>

\* ... or logs an OSError and insert returns.
ArchiveFails(t) ==
  /\ pc[t] = "archive"
  /\ archiveFailed' = archiveFailed \cup {row[t]}
  /\ inserted' = inserted \cup {row[t]}
  /\ pc' = [pc EXCEPT ![t] = "idle"]
  /\ UNCHANGED <<phase, today, made, row, db, txn, archive, dbFailed,
                 orphaned>>

Insert(t) ==
  InsertCommits(t) \/ InsertFails(t) \/ Archives(t) \/ ArchiveFails(t)

-----------------------------------------------------------------------------
(* Prune, meta and snapshots.                                              *)

\* Variant: the cutoff day itself is deleted too.
OldOrOnTheDay(k) ==
  {r \in db \cup txn.add :
     r.ts <= today - RetainDays /\ \E i \in 1..k : r.table = TABLES[i]}

\* Rows of the first k tables that prune deletes, pending ones included.
Old(k) ==
  {r \in db \cup txn.add :
     r.ts < today - RetainDays /\ \E i \in 1..k : r.table = TABLES[i]}

prune ==
  /\ phase \in {"up", "stopping", "joining"}
  /\ RetainDays > 0
  /\ db' = Committed({}, Old(Len(TABLES)))
  /\ txn' = NoTxn
  /\ UNCHANGED <<phase, today, made, pc, row, archive, history>>

\* prune fails at some table or at the commit.
pruneFails ==
  /\ phase \in {"up", "stopping", "joining"}
  /\ RetainDays > 0
  /\ \E k \in 0..Len(TABLES) : txn' \in AfterError({}, Old(k))
  /\ UNCHANGED <<phase, today, made, pc, row, db, archive, history>>

\* set_meta commits whatever the transaction holds, or logs an error.
set_meta ==
  /\ phase \in {"up", "stopping", "joining"}
  /\ \/ db' = Committed({}, {}) /\ txn' = NoTxn
     \/ txn' \in AfterError({}, {}) /\ UNCHANGED db
  /\ UNCHANGED <<phase, today, made, pc, row, archive, history>>

\* Variant: the last day asked for is left out.
WithinOpen(r, lo, hi) == lo <= r.ts /\ r.ts < hi

\* The dates asked for, both included.
Within(r, lo, hi) == lo <= r.ts /\ r.ts <= hi

\* What snapshot hands out: VACUUM INTO copies the committed rows, and the
\* copy is cut to the dates.  (Inside an open transaction it hands out none.)
Snapshot(lo, hi) == {r \in db : Within(r, lo, hi)}

-----------------------------------------------------------------------------
(* The process: Daemon.run, its shutdown, and its death.                   *)

\* The store is opened and the main thread inserts the probe_start marker.
Start ==
  /\ phase = "down"
  /\ Make(Main)
  /\ phase' = "starting"
  /\ UNCHANGED <<today, db, txn, archive, history>>

\* The collectors and the prune thread start.
Run ==
  /\ phase = "starting" /\ pc[Main] = "idle"
  /\ phase' = "up"
  /\ UNCHANGED <<today, made, pc, row, db, txn, archive, history>>

\* A signal sets stop and the main thread inserts the probe_stop marker.
Stop ==
  /\ phase = "up"
  /\ Make(Main)
  /\ phase' = "stopping"
  /\ UNCHANGED <<today, db, txn, archive, history>>

\* It then shuts the server down and joins the collectors.
Join ==
  /\ phase = "stopping" /\ pc[Main] = "idle"
  /\ phase' = "joining"
  /\ UNCHANGED <<today, made, pc, row, db, txn, archive, history>>

\* Variant: the join has no deadline.
AllJoined == \A t \in Collectors : pc[t] = "idle"

\* All collectors have ended, or the deadline has passed.
Joined == TRUE

\* The store is closed whether or not every collector has ended; SQLite rolls
\* an open transaction back.
Close ==
  /\ phase = "joining" /\ Joined
  /\ phase' = "closed"
  /\ txn' = NoTxn
  /\ UNCHANGED <<today, made, pc, row, db, archive, history>>

\* run returns, or the process dies: its threads and its transaction go.
Die ==
  /\ phase # "down"
  /\ phase' = "down"
  /\ txn' = NoTxn
  /\ orphaned' = orphaned \cup {row[t] : t \in {u \in Threads : pc[u] # "idle"}}
  /\ pc' = [t \in Threads |-> "idle"]
  /\ UNCHANGED <<today, made, row, db, archive, inserted, dbFailed,
                 archiveFailed>>

NewDay ==
  /\ today < MaxDays
  /\ today' = today + 1
  /\ UNCHANGED <<phase, made, pc, row, db, txn, archive, history>>

-----------------------------------------------------------------------------
MainNext == Run \/ Join \/ Close \/ Insert(Main) \/ (phase = "closed" /\ Die)

Next ==
  \/ \E t \in Collectors : CollectorInserts(t) \/ Insert(t)
  \/ prune \/ pruneFails \/ set_meta
  \/ Start \/ Stop \/ MainNext \/ Die \/ NewDay

\* Only the main thread is sure to go on: a collector may hang in a probe.
Spec == Init /\ [][Next]_vars /\ WF_vars(MainNext)

-----------------------------------------------------------------------------
(* Properties.                                                             *)

TypeOK ==
  /\ phase \in {"down", "starting", "up", "stopping", "joining", "closed"}
  /\ today \in Nat /\ made \in Nat
  /\ pc \in [Threads -> {"idle", "db", "archive"}]
  /\ row \in [Threads -> Row]
  /\ txn \in [add : SUBSET Row, del : SUBSET Row]
  /\ db \in SUBSET Row /\ archive \in SUBSET Row
  /\ inserted \in SUBSET Row /\ dbFailed \in SUBSET Row
  /\ archiveFailed \in SUBSET Row /\ orphaned \in SUBSET Row

\* A row whose insert returned with no SQLite error stays in the database
\* until it is older than the retention: no later failed write, rolled back
\* transaction, half-done prune, crash or restart takes it away.
AcknowledgedRowsStay == \A r \in inserted \ dbFailed : r \in db \/ Expired(r)

\* The two sinks fail apart: a row is missing from the archive only if its own
\* append failed, or it is on its way, or the process died in between.
ArchiveMissesOnlyItsFailures ==
  inserted \cup db \subseteq
    archive \cup archiveFailed \cup orphaned
      \cup {row[t] : t \in {u \in Threads : pc[u] = "archive"}}

\* Nothing younger than the retention ever leaves the database, and with
\* retain_days = 0 nothing at all (Store.prune).
YoungRowsStay == [][\A r \in db \ db' : Expired(r)]_vars

\* A snapshot holds every row of the days asked for whose insert had returned
\* with no error, unless it is past the retention (Store.snapshot).
SnapshotIsComplete ==
  \A lo, hi \in 0..MaxDays : \A r \in inserted \ dbFailed :
    r.ts \in lo..hi /\ ~Expired(r) => r \in Snapshot(lo, hi)

\* The record over both sinks loses rows to the retention alone.
Record == INSTANCE Evidence WITH evidence <- db \cup archive
KeepsEvidence == Record!Spec

\* A probe told to stop is gone in the end, even if a collector hangs: the
\* join has a deadline (Daemon.run).
StopEnds == phase = "stopping" ~> phase = "down"
=============================================================================
