---------------------------- MODULE Store_proofs ----------------------------
(***************************************************************************)
(* Proofs about the probe's store and what is handed out of it: ProbeStore *)
(* for any threads, tables and retention, and Export for any clients and   *)
(* lengths of the database and the archive.                                *)
(***************************************************************************)
EXTENDS ProbeStore, Export, TLAPS

\* The initial state is well typed.
LEMMA InitTyped == Init => TypeOK
BY StoreAssumption DEF Init, TypeOK, NoTxn, Row, Threads

\* Every variable keeps its type.
THEOREM TypeCorrect == Spec => []TypeOK
<1> USE StoreAssumption DEF TypeOK, Row, Threads, NoTxn, history
<1>2. TypeOK /\ [Next]_vars => TypeOK'
  <2> SUFFICES ASSUME TypeOK, [Next]_vars PROVE TypeOK'
    OBVIOUS
  <2>1. ASSUME NEW t \in Threads, Make(t)
        PROVE  /\ made' \in Nat
               /\ pc' \in [Threads -> {"idle", "db", "archive"}]
               /\ row' \in [Threads -> Row]
    BY <2>1 DEF Make, NextRow
  <2>2. ASSUME NEW t \in Collectors, CollectorInserts(t) PROVE TypeOK'
    BY <2>1, <2>2 DEF CollectorInserts
  <2>3. ASSUME NEW t \in Threads, Insert(t) PROVE TypeOK'
    <3>1. row[t] \in Row
      OBVIOUS
    <3>2. CASE InsertCommits(t)
      BY <3>1, <3>2 DEF InsertCommits, Committed
    <3>3. CASE InsertFails(t)
      <4>1. txn' \in [add : SUBSET Row, del : SUBSET Row]
        BY <3>1, <3>3 DEF InsertFails, AfterError
      <4> QED
        BY <3>1, <3>3, <4>1 DEF InsertFails, GoesOn
    <3>4. CASE Archives(t) \/ ArchiveFails(t)
      BY <3>1, <3>4 DEF Archives, ArchiveFails, Appended
    <3> QED
      BY <2>3, <3>2, <3>3, <3>4 DEF Insert
  <2>4. CASE prune \/ pruneFails \/ set_meta
    BY <2>4 DEF prune, pruneFails, set_meta, Committed, AfterError, Old
  <2>5. CASE Start \/ Stop
    BY <2>1, <2>5 DEF Start, Stop
  <2>6. CASE Run \/ Join \/ Close \/ NewDay
    BY <2>6 DEF Run, Join, Close, NewDay
  <2>7. CASE Die
    BY <2>7 DEF Die
  <2>8. CASE UNCHANGED vars
    BY <2>8 DEF vars
  <2> QED
    BY <2>2, <2>3, <2>4, <2>5, <2>6, <2>7, <2>8 DEF Next, MainNext
<1> QED
  BY InitTyped, <1>2, PTL DEF Spec

-----------------------------------------------------------------------------
(* What leaves the database.                                               *)

\* What a transaction left open may delete is past the retention already.
PendingIsOld == \A r \in txn.del : Expired(r)

\* An acknowledged row stays, from its commit on.
CommittedStay ==
  \A t \in Threads :
    pc[t] = "archive" /\ row[t] \notin dbFailed => row[t] \in db \/ Expired(row[t])

StoreInv == TypeOK /\ PendingIsOld /\ AcknowledgedRowsStay /\ CommittedStay

\* Past the retention once, past it for ever.
LEMMA ExpiredForGood ==
  ASSUME TypeOK, TypeOK', [Next]_vars, NEW r \in Row, Expired(r)
  PROVE  Expired(r)'
<1>1. today' \in {today, today + 1}
  BY DEF Next, MainNext, CollectorInserts, Insert, InsertCommits, InsertFails,
     Archives, ArchiveFails, prune, pruneFails, set_meta, Start, Stop, Run,
     Join, Close, Die, NewDay, vars
<1> QED
  BY <1>1, StoreAssumption DEF Expired, TypeOK, Row

\* Whatever prune selects is past the retention.
LEMMA OldIsExpired ==
  ASSUME RetainDays > 0, NEW k, NEW r \in Old(k)
  PROVE  Expired(r)
BY DEF Old, Expired

\* A step takes out of the database only rows past the retention, and an open
\* transaction goes on holding only such deletions.
LEMMA StepDeletes ==
  ASSUME StoreInv, [Next]_vars
  PROVE  /\ \A r \in db \ db' : Expired(r)
         /\ \A r \in txn'.del : Expired(r)
<1> USE DEF StoreInv, PendingIsOld
<1>1. CASE \E t \in Threads : InsertCommits(t)
  BY <1>1 DEF InsertCommits, Committed, NoTxn, TypeOK
<1>2. CASE \E t \in Threads : InsertFails(t)
  BY <1>2 DEF InsertFails, AfterError, NoTxn, TypeOK
<1>3. CASE prune
  BY <1>3, OldIsExpired DEF prune, Committed, NoTxn
<1>4. CASE pruneFails
  BY <1>4, OldIsExpired DEF pruneFails, AfterError, NoTxn
<1>5. CASE set_meta
  BY <1>5 DEF set_meta, Committed, AfterError, NoTxn
<1>6. CASE UNCHANGED <<db, txn>>
  BY <1>6
<1>7. CASE Close \/ Die
  BY <1>7 DEF Close, Die, NoTxn
<1> QED
  BY <1>1, <1>2, <1>3, <1>4, <1>5, <1>6, <1>7
  DEF Next, MainNext, Insert, CollectorInserts, Archives, ArchiveFails, Start,
      Stop, Run, Join, NewDay, vars, Threads

\* A row acknowledged with no error stays until it is past the retention,
\* whatever fails and however often the process dies.
THEOREM StoreInvariant == Spec => []StoreInv
<1>1. Init => StoreInv
  BY InitTyped DEF Init, StoreInv, PendingIsOld,
     AcknowledgedRowsStay, CommittedStay, NoTxn
<1>2. StoreInv /\ TypeOK' /\ [Next]_vars => StoreInv'
  <2> SUFFICES ASSUME StoreInv, TypeOK', [Next]_vars PROVE StoreInv'
    OBVIOUS
  <2>1. /\ \A r \in db \ db' : Expired(r)
        /\ \A r \in txn'.del : Expired(r)
    BY StepDeletes
  <2>2. \A r \in Row : Expired(r) => Expired(r)'
    BY ExpiredForGood DEF StoreInv
  <2>3. PendingIsOld'
    BY <2>1, <2>2 DEF PendingIsOld, TypeOK
  <2>4. CommittedStay'
    <3> SUFFICES ASSUME NEW t \in Threads, pc'[t] = "archive",
                        row'[t] \notin dbFailed'
                 PROVE  (row[t] \in db \/ Expired(row[t]))'
      BY DEF CommittedStay
    <3>1. CASE InsertCommits(t)
      <4>1. row[t] \in Row /\ row' = row
        BY <3>1 DEF InsertCommits, StoreInv, TypeOK
      <4>2. row[t] \in db' \/ Expired(row[t])
        BY <3>1 DEF InsertCommits, Committed, StoreInv, PendingIsOld
      <4> QED
        BY <4>1, <4>2, <2>2
    <3>2. CASE ~InsertCommits(t)
      <4>1. pc[t] = "archive" /\ row'[t] = row[t] /\ row[t] \notin dbFailed
        BY <3>2 DEF Next, MainNext, Insert, CollectorInserts, InsertCommits,
           InsertFails, Archives, ArchiveFails, Make, prune, pruneFails,
           set_meta, Start, Stop, Run, Join, Close, Die, NewDay, vars, history,
           GoesOn, StoreInv, TypeOK
      <4> QED
        <5>1. row[t] \in Row /\ (row[t] \in db \/ Expired(row[t]))
          BY <4>1 DEF StoreInv, CommittedStay, TypeOK
        <5> QED
          BY <4>1, <5>1, <2>1, <2>2
    <3> QED
      BY <3>1, <3>2
  <2>5. AcknowledgedRowsStay'
    <3> SUFFICES ASSUME NEW r \in inserted' \ dbFailed'
                 PROVE  r \in db' \/ Expired(r)'
      BY DEF AcknowledgedRowsStay
    <3>1. r \in db \/ Expired(r)
      <4>1. CASE \E t \in Threads : Archives(t) \/ ArchiveFails(t)
        BY <4>1 DEF Archives, ArchiveFails, StoreInv, CommittedStay,
           AcknowledgedRowsStay
      <4>2. CASE UNCHANGED inserted
        <5>1. r \in inserted /\ r \notin dbFailed
          BY <4>2 DEF Next, MainNext, Insert, CollectorInserts, InsertCommits,
             InsertFails, Archives, ArchiveFails, prune, pruneFails, set_meta,
             Start, Stop, Run, Join, Close, Die, NewDay, vars, history
        <5> QED
          BY <5>1 DEF StoreInv, AcknowledgedRowsStay
      <4> QED
        BY <4>1, <4>2 DEF Next, MainNext, Insert, CollectorInserts,
           InsertCommits, InsertFails, prune, pruneFails, set_meta, Start, Stop,
           Run, Join, Close, Die, NewDay, vars, history, Threads
    <3> QED
      BY <3>1, <2>1, <2>2 DEF TypeOK
  <2> QED
    BY <2>3, <2>4, <2>5 DEF StoreInv
<1> QED
  BY <1>1, <1>2, TypeCorrect, PTL DEF Spec

\* The part of the invariant the runs check.
THEOREM Acknowledged == Spec => []AcknowledgedRowsStay
BY StoreInvariant, PTL DEF StoreInv

\* A snapshot of any days holds every acknowledged row of them that is not past
\* the retention.
THEOREM SnapshotsComplete == Spec => []SnapshotIsComplete
<1>1. TypeOK /\ AcknowledgedRowsStay => SnapshotIsComplete
  <2> SUFFICES ASSUME TypeOK, AcknowledgedRowsStay, NEW lo \in 0..MaxDays,
                      NEW hi \in 0..MaxDays, NEW r \in inserted \ dbFailed,
                      r.ts \in lo..hi, ~Expired(r)
               PROVE  r \in Snapshot(lo, hi)
    BY DEF SnapshotIsComplete
  <2>1. r \in db
    BY DEF AcknowledgedRowsStay
  <2>2. Within(r, lo, hi)
    BY DEF Within
  <2> QED
    BY <2>1, <2>2 DEF Snapshot
<1> QED
  BY <1>1, TypeCorrect, Acknowledged, PTL

\* Nothing younger than the retention leaves the database in any step.
THEOREM YoungStay == Spec => YoungRowsStay
<1>1. StoreInv /\ [Next]_vars => [\A r \in db \ db' : Expired(r)]_vars
  BY StepDeletes
<1> QED
  BY <1>1, StoreInvariant, PTL DEF Spec, YoungRowsStay

-----------------------------------------------------------------------------
(* The archive, and the record over both sinks.                            *)

Underway == {row[t] : t \in {u \in Threads : pc[u] = "archive"}}

\* Together with the rows a transaction left open still holds, so that a later
\* commit of them adds nothing the archive was not given.
ArchiveInv ==
  inserted \cup db \cup txn.add \subseteq
    archive \cup archiveFailed \cup orphaned \cup Underway

\* A row is missing from the archive only if its own append failed, or it is
\* on its way, or the process died in between.
THEOREM ArchiveComplete == Spec => []ArchiveMissesOnlyItsFailures
<1>1. Init => ArchiveInv
  BY DEF Init, ArchiveInv, NoTxn
<1>2. TypeOK /\ ArchiveInv /\ [Next]_vars => ArchiveInv'
  <2> SUFFICES ASSUME TypeOK, ArchiveInv, [Next]_vars PROVE ArchiveInv'
    OBVIOUS
  <2> USE DEF ArchiveInv, Underway
  <2>1. ASSUME NEW t \in Threads, InsertCommits(t) \/ InsertFails(t)
        PROVE  ArchiveInv'
    <3>1. Underway' = Underway \cup {row[t]}
      BY <2>1 DEF InsertCommits, InsertFails, GoesOn, TypeOK
    <3>2. inserted' \cup db' \cup txn'.add
            \subseteq inserted \cup db \cup txn.add \cup {row[t]}
      <4>1. txn'.add \subseteq txn.add \cup {row[t]}
        BY <2>1 DEF InsertCommits, InsertFails, AfterError, NoTxn
      <4>2. inserted' = inserted /\ db' \subseteq db \cup txn.add \cup {row[t]}
        BY <2>1 DEF InsertCommits, InsertFails, Committed, history
      <4> QED
        BY <4>1, <4>2
    <3>3. UNCHANGED <<archive, archiveFailed, orphaned>>
      BY <2>1 DEF InsertCommits, InsertFails, history
    <3> QED
      BY <3>1, <3>2, <3>3
  <2>2. ASSUME NEW t \in Threads, Archives(t) \/ ArchiveFails(t)
        PROVE  ArchiveInv'
    <3>1. Underway \subseteq Underway' \cup {row[t]}
      BY <2>2 DEF Archives, ArchiveFails, TypeOK
    <3>2. archive' \cup archiveFailed' = archive \cup archiveFailed \cup {row[t]}
      BY <2>2 DEF Archives, ArchiveFails, Appended
    <3>3. /\ inserted' = inserted \cup {row[t]}
          /\ UNCHANGED <<db, txn, orphaned>>
      BY <2>2 DEF Archives, ArchiveFails
    <3> QED
      BY <3>1, <3>2, <3>3
  <2>3. ASSUME NEW t \in Threads, Make(t),
               UNCHANGED <<db, txn, archive, history>>
        PROVE  ArchiveInv'
    <3>1. Underway' = Underway
      BY <2>3 DEF Make, TypeOK
    <3> QED
      BY <2>3, <3>1 DEF history
  <2>4. CASE prune \/ pruneFails \/ set_meta
    <3>1. db' \cup txn'.add \subseteq db \cup txn.add
      BY <2>4 DEF prune, pruneFails, set_meta, Committed, AfterError, NoTxn
    <3> QED
      BY <2>4, <3>1 DEF prune, pruneFails, set_meta, history
  <2>5. CASE Die
    <3>1. Underway \subseteq orphaned'
      BY <2>5 DEF Die
    <3>2. orphaned \subseteq orphaned' /\ txn'.add = {}
      BY <2>5 DEF Die, NoTxn
    <3>3. UNCHANGED <<db, archive, inserted, archiveFailed>>
      BY <2>5 DEF Die
    <3> QED
      BY <3>1, <3>2, <3>3
  <2>6. CASE Run \/ Join \/ Close \/ NewDay \/ UNCHANGED vars
    BY <2>6 DEF Run, Join, Close, NewDay, NoTxn, vars, history
  <2> QED
    BY <2>1, <2>2, <2>3, <2>4, <2>5, <2>6
    DEF Next, MainNext, Insert, CollectorInserts, Start, Stop, Threads
<1>3. ArchiveInv => ArchiveMissesOnlyItsFailures
  BY DEF ArchiveInv, Underway, ArchiveMissesOnlyItsFailures
<1> QED
  BY <1>1, <1>2, <1>3, TypeCorrect, PTL DEF Spec

\* The store implements Evidence: over both sinks, only the retention ever
\* takes a row away.
THEOREM KeepsTheEvidence == Spec => KeepsEvidence
<1>1. Init => Record!Init
  BY DEF Init, Record!Init
<1>2. StoreInv /\ TypeOK' /\ [Next]_vars
        => [Record!Next]_<<db \cup archive, today>>
  <2> SUFFICES ASSUME StoreInv, TypeOK', [Next]_vars
               PROVE  [Record!Next]_<<db \cup archive, today>>
    OBVIOUS
  <2>1. \A r \in db \ db' : Expired(r)
    BY StepDeletes
  <2>2. archive \subseteq archive'
    BY DEF Next, MainNext, CollectorInserts, Insert, InsertCommits, InsertFails,
       Archives, ArchiveFails, Appended, prune, pruneFails, set_meta, Start,
       Stop, Run, Join, Close, Die, NewDay, vars
  <2>3. CASE NewDay
    BY <2>3 DEF NewDay, Record!Next, Record!NewDay
  <2>4. CASE ~NewDay
    <3>1. UNCHANGED today
      BY <2>4 DEF Next, MainNext, CollectorInserts, Insert, InsertCommits,
         InsertFails, Archives, ArchiveFails, prune, pruneFails, set_meta, Start,
         Stop, Run, Join, Close, Die, vars
    <3>2. (db \cup archive)' \in SUBSET Row
      BY DEF TypeOK
    <3> QED
      BY <2>1, <2>2, <3>1, <3>2 DEF Record!Next, Record!Keep, Record!Expired,
         Expired
  <2> QED
    BY <2>3, <2>4
<1> QED
  BY <1>1, <1>2, StoreInvariant, TypeCorrect, PTL
  DEF Spec, KeepsEvidence, Record!Spec

-----------------------------------------------------------------------------
(* Export: where a handler is in its request, where its client is, and     *)
(* what has gone from the one to the other.                                *)


\* Where a handler is, its directory and its open file fit its request.
Handled(c) ==
  /\ tmp[c] # None =>
       route[c] = "sqlite" /\ stage[c] \in {"stat", "open", "copy", "error", "finally"}
  /\ stage[c] = "snapshot" => route[c] = "sqlite"
  /\ stage[c] \in {"stat", "open", "copy"} /\ route[c] = "sqlite" => tmp[c] # None
  /\ stage[c] \in {"open", "copy"} => route[c] # "head"
  /\ stage[c] \in {"idle", "snapshot", "stat", "open"} => sent[c] = 0
  /\ stage[c] = "copy" /\ route[c] = "sqlite" => fh[c] = tmp[c]

\* What a client has of the copy or the archive after n pages or lines.
Part(c, n) ==
  IF ask[c] = "sqlite" THEN [i \in 1 .. n |-> <<tmp[c], i>>] ELSE Archive(n)

\* The length a client was told, and what there was when it asked.
Announced(c) ==
  IF ask[c] = "sqlite"
  THEN due[c] <= tmp[c] /\ want[c] = tmp[c] + 1
  ELSE /\ due[c] <= want[c] /\ want[c] <= Lines(ask[c])
       /\ ask[c] = "past" => want[c] = PastLines

\* The body comes as it is read.
Receiving(c) ==
  /\ ask[c] = route[c] /\ sent[c] < want[c] /\ got[c] = Part(c, sent[c]) /\ Announced(c)

\* Nothing is left to be read, unless the file grows.
Over(c) ==
  \/ route[c] = "today"
  \/ route[c] = "past" /\ sent[c] >= PastLines
  \/ route[c] = "sqlite" /\ sent[c] > tmp[c]

\* Where the client of an open connection is in its request fits where the
\* handler is.
Served(c) ==
  /\ stage[c] \in {"snapshot", "stat"} => client[c] = "waits" /\ ask[c] = route[c]
  /\ stage[c] = "stat" /\ ask[c] = "sqlite" => due[c] <= tmp[c]
  /\ stage[c] = "open" => client[c] = "reads" /\ Receiving(c)
  /\ stage[c] = "copy" => IF client[c] = "reads" THEN Receiving(c) ELSE Over(c)

\* What a client that has no reply yet, or a whole one, knows.
Asked(c) ==
  /\ client[c] \in {"asked", "waits"} =>
       due[c] <= IF ask[c] = "sqlite" THEN rows ELSE Lines(ask[c])
  /\ client[c] \in {"idle", "asked", "waits"} => got[c] = <<>>
  /\ client[c] = "done" /\ ask[c] # "head" =>
       IF ask[c] = "sqlite" THEN \E v \in due[c] .. rows : got[c] = Copy(v)
       ELSE got[c] = Archive(want[c]) /\ want[c] >= due[c]

\* A connection of which an end is closed has no client that waits while its
\* handler is at work.
Settled(c) ==
  /\ Handled(c) /\ Asked(c) /\ extra[c] \in {"nothing", "today"}
  /\ c \in open => Served(c)
  /\ c \notin open /\ stage[c] # "idle" => client[c] = "idle"

ExportInv == ExportTypeOK /\ DOMAIN got = Clients /\ \A c \in Clients : Settled(c)

\* How long a copy and an archive are, and what is in them.
LEMMA Lengths ==
  /\ \A v \in Nat : /\ Len(Copy(v)) = v + 1
                    /\ \A i \in 1 .. v + 1 : Copy(v)[i] = <<v, i>>
  /\ \A n \in Nat : Len(Archive(n)) = n /\ \A i \in 1 .. n : Archive(n)[i] = i
  /\ Archive(0) = <<>>
<1>1. ASSUME NEW v \in Nat
      PROVE  Len(Copy(v)) = v + 1 /\ \A i \in 1 .. v + 1 : Copy(v)[i] = <<v, i>>
  <2>1. Copy(v) \in Seq(Nat \X Nat) /\ DOMAIN Copy(v) = 1 .. v + 1
    BY DEF Copy
  <2> QED
    BY <2>1 DEF Copy
<1>2. ASSUME NEW n \in Nat
      PROVE  Len(Archive(n)) = n /\ \A i \in 1 .. n : Archive(n)[i] = i
  <2>1. Archive(n) \in Seq(Nat) /\ DOMAIN Archive(n) = 1 .. n
    BY DEF Archive
  <2> QED
    BY <2>1 DEF Archive
<1>3. Archive(0) = <<>>
  BY DEF Archive
<1> QED
  BY <1>1, <1>2, <1>3

\* A body grows by what is read next.
LEMMA OneMore ==
  ASSUME NEW n \in Nat
  PROVE  /\ \A v \in Nat : Append([i \in 1 .. n |-> <<v, i>>], <<v, n + 1>>)
                             = [i \in 1 .. n + 1 |-> <<v, i>>]
         /\ Append(Archive(n), n + 1) = Archive(n + 1)
<1>1. ASSUME NEW v \in Nat
      PROVE  Append([i \in 1 .. n |-> <<v, i>>], <<v, n + 1>>)
               = [i \in 1 .. n + 1 |-> <<v, i>>]
  <2> DEFINE s == [i \in 1 .. n |-> <<v, i>>]  t == [i \in 1 .. n + 1 |-> <<v, i>>]
             x == <<v, n + 1>>
  <2>1. s \in Seq(Nat \X Nat) /\ t \in Seq(Nat \X Nat) /\ x \in Nat \X Nat
    OBVIOUS
  <2>2. Len(s) = n /\ Len(t) = n + 1 /\ \A i \in 1 .. n : s[i] = t[i]
    OBVIOUS
  <2>3. t[n + 1] = x
    OBVIOUS
  <2> HIDE DEF s, t, x
  <2>4. /\ Append(s, x) \in Seq(Nat \X Nat) /\ Len(Append(s, x)) = n + 1
        /\ \A i \in 1 .. n + 1 : Append(s, x)[i] = t[i]
    BY <2>1, <2>2, <2>3
  <2>5. Append(s, x) = t
    BY <2>1, <2>2, <2>4
  <2> QED
    BY <2>5 DEF s, t, x
<1>2. Append(Archive(n), n + 1) = Archive(n + 1)
  <2> DEFINE s == Archive(n)  t == Archive(n + 1)
  <2>1. s \in Seq(Nat) /\ t \in Seq(Nat)
    BY DEF Archive
  <2>0. n + 1 \in Nat /\ n + 1 \in 1 .. n + 1 /\ \A i \in 1 .. n : i \in 1 .. n + 1
    OBVIOUS
  <2>2. Len(s) = n /\ \A i \in 1 .. n : s[i] = i
    BY Lengths
  <2>3. Len(t) = n + 1 /\ \A i \in 1 .. n + 1 : t[i] = i
    BY <2>0, Lengths
  <2> HIDE DEF s, t
  <2>4. /\ Append(s, n + 1) \in Seq(Nat) /\ Len(Append(s, n + 1)) = n + 1
        /\ \A i \in 1 .. n + 1 : Append(s, n + 1)[i] = t[i]
    BY <2>0, <2>1, <2>2, <2>3
  <2>5. Append(s, n + 1) = t
    BY <2>0, <2>1, <2>3, <2>4
  <2> QED
    BY <2>5 DEF s, t
<1> QED
  BY <1>1, <1>2

\* A step leaves a client, its connection and its handler alone.
Same(d) ==
  /\ tmp'[d] = tmp[d] /\ stage'[d] = stage[d] /\ route'[d] = route[d]
  /\ fh'[d] = fh[d] /\ sent'[d] = sent[d] /\ (d \in open' <=> d \in open)
  /\ client'[d] = client[d] /\ ask'[d] = ask[d] /\ due'[d] = due[d]
  /\ want'[d] = want[d] /\ got'[d] = got[d] /\ extra'[d] = extra[d]

\* What others do leaves a client settled: the probe only ever adds.
LEMMA Undisturbed ==
  ASSUME ExportTypeOK, rows' \in Nat, lines' \in Nat, rows <= rows', lines <= lines',
         NEW d \in Clients, Same(d), Settled(d)
  PROVE  Settled(d)'
<1>1. /\ rows \in Nat /\ lines \in Nat /\ PastLines \in Nat /\ sent[d] \in Nat
      /\ due[d] \in Nat /\ want[d] \in Nat
  BY ExportAssumption DEF ExportTypeOK
<1>2. \A r : Lines(r) \in Nat /\ Lines(r)' \in Nat /\ Lines(r) <= Lines(r)'
  BY <1>1 DEF Lines
<1>3. Handled(d)' /\ extra'[d] \in {"nothing", "today"}
  BY DEF Settled, Handled, Same
<1>4. Asked(d)'
  BY <1>1, <1>2 DEF Settled, Asked, Same
<1>5. Receiving(d) => Receiving(d)'
  BY <1>1, <1>2 DEF Receiving, Announced, Part, Same
<1>6. Over(d) => Over(d)'
  BY DEF Over, Same
<1>7. d \in open' => Served(d)'
  BY <1>5, <1>6 DEF Settled, Served, Same
<1> QED
  BY <1>3, <1>4, <1>7 DEF Settled, Same

\* In the beginning nobody asks.
LEMMA ExportInitInv == ExportInit => ExportInv
<1> SUFFICES ASSUME ExportInit PROVE ExportInv
  OBVIOUS
<1>1. ExportTypeOK /\ DOMAIN got = Clients
  BY ExportAssumption DEF ExportInit, ExportTypeOK, Routes, None, Waiting
<1>2. \A c \in Clients : Settled(c)
  BY DEF ExportInit, Settled, Handled, Asked, None
<1> QED
  BY <1>1, <1>2 DEF ExportInv

\* The probe records on.
LEMMA RecordedInv == ExportInv /\ (Commit \/ AppendLine) => ExportInv'
<1> SUFFICES ASSUME ExportInv, Commit \/ AppendLine PROVE ExportInv'
  OBVIOUS
<1>1. ExportTypeOK' /\ got' = got
  BY ExportAssumption
  DEF ExportInv, ExportTypeOK, Commit, AppendLine, serving, asking, None
<1>2. rows' \in Nat /\ lines' \in Nat /\ rows <= rows' /\ lines <= lines'
  BY ExportAssumption
  DEF ExportInv, ExportTypeOK, Commit, AppendLine, serving, asking
<1>3. \A d \in Clients : Same(d)
  BY DEF Same, Commit, AppendLine, serving, asking
<1> QED
  BY <1>1, <1>2, <1>3, Undisturbed DEF ExportInv

\* It is enough to look at the client a step is about.
LEMMA OneClient ==
  ASSUME ExportInv, UNCHANGED recording, NEW c \in Clients,
         \A d \in Clients \ {c} : Same(d),
         ExportTypeOK', DOMAIN got' = Clients, Settled(c)'
  PROVE  ExportInv'
<1>1. rows' \in Nat /\ lines' \in Nat /\ rows <= rows' /\ lines <= lines'
  BY ExportAssumption DEF ExportInv, ExportTypeOK, recording
<1> QED
  BY <1>1, Undisturbed DEF ExportInv

-----------------------------------------------------------------------------
(* Step by step.                                                           *)

LEMMA AskInv ==
  ASSUME ExportInv, NEW c \in Clients, NEW r \in Routes, Ask(c, r)
  PROVE  ExportInv'
<1> USE DEF Ask, recording, serving
<1>1. ExportTypeOK' /\ DOMAIN got' = Clients
  BY ExportAssumption DEF ExportInv, ExportTypeOK, Lines, Waiting, None
<1>2. \A d \in Clients \ {c} : Same(d)
  BY DEF ExportInv, ExportTypeOK, Same
<1>3. /\ c \in open' /\ client'[c] = "asked" /\ ask'[c] = r
      /\ due'[c] = IF r = "sqlite" THEN rows ELSE Lines(r)
      /\ client[c] = "idle" /\ Settled(c) /\ (c \in open \/ stage[c] = "idle")
  BY DEF ExportInv, ExportTypeOK
<1>4. Handled(c)' /\ extra'[c] \in {"nothing", "today"}
  BY <1>3 DEF Settled, Handled
<1>5. Asked(c)'
  BY <1>3, ExportAssumption DEF Settled, Asked, Lines, ExportInv, ExportTypeOK
<1>6. Served(c)'
  BY <1>3 DEF Settled, Served, Over
<1> QED
  BY <1>1, <1>2, <1>3, <1>4, <1>5, <1>6, OneClient DEF Settled

\* The client's end of a request.
LEMMA EndsInv ==
  ASSUME ExportInv, NEW c \in Clients, NEW closes \in BOOLEAN, Ends(c, closes),
         closes \/ client[c] \in {"done", "refused"}
  PROVE  ExportInv'
<1> USE DEF Ends, recording, serving
<1>1. ExportTypeOK' /\ DOMAIN got' = Clients
  BY DEF ExportInv, ExportTypeOK, Waiting, Routes, None
<1>2. \A d \in Clients \ {c} : Same(d)
  BY DEF ExportInv, ExportTypeOK, Same
<1>3. /\ client'[c] = "idle" /\ got'[c] = <<>>
      /\ (c \in open' => ~closes /\ c \in open) /\ Settled(c)
      /\ extra'[c] \in {"nothing", extra[c]}
  BY DEF ExportInv, ExportTypeOK
<1>4. Handled(c)' /\ extra'[c] \in {"nothing", "today"} /\ Asked(c)'
  BY <1>3 DEF Settled, Handled, Asked
<1>5. c \in open' => Served(c)'
  BY <1>3 DEF Settled, Served, Over
<1> QED
  BY <1>1, <1>2, <1>3, <1>4, <1>5, OneClient DEF Settled

\* The handler takes the request up: nothing is read yet.
LEMMA AcceptInv ==
  ASSUME ExportInv, NEW c \in Clients, Accept(c) PROVE ExportInv'
<1> USE DEF Accept, recording, Goes
<1>1. ExportTypeOK' /\ DOMAIN got' = Clients
  BY DEF ExportInv, ExportTypeOK, Waiting
<1>2. \A d \in Clients \ {c} : Same(d)
  BY DEF ExportInv, ExportTypeOK, Same
<1>3. /\ route'[c] = ask[c] /\ client'[c] = "waits" /\ Settled(c)
      /\ stage'[c] = IF ask[c] = "sqlite" THEN "snapshot" ELSE "stat"
  BY DEF ExportInv, ExportTypeOK
<1>4. Handled(c)' /\ extra'[c] \in {"nothing", "today"}
  BY <1>3 DEF Settled, Handled
<1>5. Asked(c)'
  BY <1>3 DEF Settled, Asked, Lines
<1>6. Served(c)'
  BY <1>3 DEF Served
<1> QED
  BY <1>1, <1>2, <1>3, <1>4, <1>5, <1>6, OneClient DEF Settled

\* The copy is made: as many rows as there are now, no fewer than were due.
LEMMA TakeCopyInv ==
  ASSUME ExportInv, NEW c \in Clients, TakeCopy(c) PROVE ExportInv'
<1> USE DEF TakeCopy, recording, asking, Goes, Place, Copied
<1>1. ExportTypeOK' /\ DOMAIN got' = Clients
  BY ExportAssumption DEF ExportInv, ExportTypeOK, None
<1>2. \A d \in Clients \ {c} : Same(d)
  BY DEF ExportInv, ExportTypeOK, Same
<1>3. /\ tmp'[c] = rows /\ stage'[c] = "stat" /\ Settled(c) /\ rows \in Nat
      /\ stage[c] = "snapshot" /\ route[c] = "sqlite"
  BY ExportAssumption DEF ExportInv, ExportTypeOK, Settled, Handled
<1>4. Handled(c)' /\ extra'[c] \in {"nothing", "today"} /\ Asked(c)'
  BY <1>3 DEF Settled, Handled, Asked, Lines, None
<1>5. c \in open' => Served(c)'
  BY <1>3 DEF Settled, Served, Asked
<1> QED
  BY <1>1, <1>2, <1>3, <1>4, <1>5, OneClient DEF Settled

\* There is nothing to send.
LEMMA RefuseInv ==
  ASSUME ExportInv, NEW c \in Clients, Refuse(c) PROVE ExportInv'
<1> USE DEF Refuse, ReceivesError, recording, Goes
<1>1. ExportTypeOK' /\ DOMAIN got' = Clients
  BY DEF ExportInv, ExportTypeOK, Waiting
<1>2. \A d \in Clients \ {c} : Same(d)
  BY DEF ExportInv, ExportTypeOK, Same
<1>3. /\ stage'[c] = "finally" /\ Settled(c) /\ c \in open
      /\ client'[c] \in {"refused", "torn"}
  BY DEF ExportInv, ExportTypeOK
<1>4. Handled(c)' /\ extra'[c] \in {"nothing", "today"} /\ Asked(c)' /\ Served(c)'
  BY <1>3 DEF Settled, Handled, Asked, Served
<1> QED
  BY <1>1, <1>2, <1>3, <1>4, OneClient DEF Settled

LEMMA SendHeadersInv ==
  ASSUME ExportInv, NEW c \in Clients, SendHeaders(c) PROVE ExportInv'
<1> USE DEF SendHeaders, ReceivesReply, recording, Goes, Place
<1>0. /\ Settled(c) /\ c \in open /\ client[c] = "waits" /\ ask[c] = route[c]
      /\ tmp[c] \in None .. rows /\ rows \in Nat /\ lines \in Nat /\ PastLines \in Nat
      /\ route[c] \in Routes /\ sent[c] = 0 /\ got[c] = <<>> /\ due[c] \in Nat
  BY ExportAssumption
  DEF ExportInv, ExportTypeOK, Settled, Served, Handled, Asked
<1>1. Size(c) \in Nat \ {0}
  BY <1>0 DEF Size, Found, Lines, None
<1>2. ExportTypeOK' /\ DOMAIN got' = Clients
  BY <1>1 DEF ExportInv, ExportTypeOK, Waiting
<1>3. \A d \in Clients \ {c} : Same(d)
  BY DEF ExportInv, ExportTypeOK, Same
<1>4. /\ client'[c] = IF ask[c] = "head" THEN "done" ELSE "reads"
      /\ want'[c] = Size(c)
      /\ stage'[c] = IF route[c] = "head" THEN "finally" ELSE "open"
  BY DEF ExportInv, ExportTypeOK, Bodyless
<1>5. Handled(c)' /\ extra'[c] \in {"nothing", "today"} /\ Asked(c)'
  BY <1>0, <1>4 DEF Settled, Handled, Asked, Found
<1>6. Part(c, 0)' = <<>>
  BY Lengths DEF Part, Archive
<1>7. Announced(c)'
  BY <1>0, <1>4 DEF Announced, Settled, Served, Asked, Size, Lines
<1>8. Served(c)'
  BY <1>0, <1>1, <1>4, <1>6, <1>7 DEF Served, Receiving
<1> QED
  BY <1>0, <1>2, <1>3, <1>5, <1>8, OneClient DEF Settled

LEMMA OpenFileInv ==
  ASSUME ExportInv, NEW c \in Clients, OpenFile(c) PROVE ExportInv'
<1> USE DEF OpenFile, recording, asking, Goes, Place
<1>1. ExportTypeOK' /\ DOMAIN got' = Clients
  BY DEF ExportInv, ExportTypeOK, None
<1>2. \A d \in Clients \ {c} : Same(d)
  BY DEF ExportInv, ExportTypeOK, Same
<1>3. /\ stage'[c] = "copy" /\ Settled(c)
      /\ fh'[c] = IF route[c] = "sqlite" THEN tmp[c] ELSE None
  BY DEF ExportInv, ExportTypeOK
<1>4. Handled(c)' /\ extra'[c] \in {"nothing", "today"} /\ Asked(c)'
  BY <1>3 DEF Settled, Handled, Asked, Lines
<1>5. c \in open' => Served(c)'
  BY <1>3 DEF Settled, Served, Receiving, Announced, Part, Lines
<1> QED
  BY <1>1, <1>2, <1>3, <1>4, <1>5, OneClient DEF Settled

\* The part a client has grows by one page or line, until it has it all.
LEMMA PartGrows ==
  ASSUME ExportTypeOK, NEW c \in Clients, Handled(c), Receiving(c), stage[c] = "copy",
         NEW unit, unit = File(c)[sent[c] + 1]
  PROVE  /\ Len(got[c]) = sent[c]
         /\ Append(got[c], unit) = Part(c, sent[c] + 1)
         /\ ask[c] = "sqlite" => Part(c, want[c]) = Copy(tmp[c])
         /\ ask[c] # "sqlite" => Part(c, want[c]) = Archive(want[c])
<1>1. /\ sent[c] \in Nat /\ want[c] \in Nat /\ PastLines \in Nat
      /\ lines \in Nat /\ rows \in Nat /\ tmp[c] \in None .. rows
  BY ExportAssumption DEF ExportTypeOK
<1>2. CASE ask[c] = "sqlite"
  <2>1. tmp[c] \in Nat /\ fh[c] = tmp[c] /\ want[c] = tmp[c] + 1 /\ route[c] = "sqlite"
    BY <1>1, <1>2 DEF Handled, Receiving, Announced, None
  <2>2. sent[c] + 1 \in 1 .. tmp[c] + 1
    BY <1>1, <2>1 DEF Receiving
  <2>3. unit = <<tmp[c], sent[c] + 1>>
    BY <2>1, <2>2, Lengths DEF File
  <2>4. got[c] = [i \in 1 .. sent[c] |-> <<tmp[c], i>>]
    BY <1>2 DEF Receiving, Part
  <2>5. Len([i \in 1 .. sent[c] |-> <<tmp[c], i>>]) = sent[c]
    BY <1>1, <2>1
  <2>n. PICK v, n : v = tmp[c] /\ n = sent[c]
    OBVIOUS
  <2>6. Append(got[c], unit) = [i \in 1 .. sent[c] + 1 |-> <<tmp[c], i>>]
    <3>0. v \in Nat /\ n \in Nat
      BY <1>1, <2>1, <2>n
    <3>1. Append([i \in 1 .. n |-> <<v, i>>], <<v, n + 1>>) = [i \in 1 .. n + 1 |-> <<v, i>>]
      BY <3>0, OneMore, Zenon
    <3>2. /\ got[c] = [i \in 1 .. n |-> <<v, i>>] /\ unit = <<v, n + 1>>
          /\ [i \in 1 .. sent[c] + 1 |-> <<tmp[c], i>>] = [i \in 1 .. n + 1 |-> <<v, i>>]
      BY <2>3, <2>4, <2>n
    <3> QED
      BY <3>1, <3>2
  <2> QED
    BY <1>2, <2>1, <2>4, <2>5, <2>6 DEF Part, Copy
<1>3. CASE ask[c] # "sqlite"
  <2>1. Lines(route[c]) \in Nat /\ sent[c] + 1 \in 1 .. Lines(route[c])
    BY <1>1, <1>3 DEF Receiving, Announced, Lines
  <2>2. unit = sent[c] + 1
    BY <1>3, <2>1, Lengths DEF File, Receiving
  <2>3. got[c] = Archive(sent[c])
    BY <1>3 DEF Receiving, Part
  <2> QED
    BY <1>1, <1>3, <2>2, <2>3, Lengths, OneMore DEF Part
<1> QED
  BY <1>2, <1>3

LEMMA CopyChunkInv ==
  ASSUME ExportInv, NEW c \in Clients, CopyChunk(c) PROVE ExportInv'
<1> USE DEF recording
<1>0. PICK unit : unit = File(c)[sent[c] + 1]
  OBVIOUS
<1>1. /\ stage[c] = "copy" /\ Rest(c) /\ c \in open /\ Settled(c)
      /\ sent' = [sent EXCEPT ![c] = sent[c] + 1]
      /\ UNCHANGED <<rows, lines, tmp, stage, route, fh, open, ask, due, want>>
      /\ ExportTypeOK /\ DOMAIN got = Clients /\ route[c] \in Routes
      /\ sent[c] \in Nat /\ want[c] \in Nat /\ PastLines \in Nat
      /\ lines \in Nat /\ rows \in Nat /\ tmp[c] \in None .. rows /\ due[c] \in Nat
  BY ExportAssumption DEF ExportInv, CopyChunk, ReceivesUnit, ExportTypeOK
<1>2. ReceivesUnit(c, unit)
  BY <1>0 DEF CopyChunk
<1>3. \A d \in Clients \ {c} : Same(d)
  BY <1>1, <1>2 DEF ExportTypeOK, Same, ReceivesUnit
<1>4. sent'[c] = sent[c] + 1 /\ sent' \in [Clients -> Nat]
  BY <1>1 DEF ExportTypeOK
<1>5. CASE client[c] = "reads"
  <2>1. /\ got' = [got EXCEPT ![c] = Append(got[c], unit)] /\ extra' = extra
        /\ client' = [client EXCEPT ![c] =
                        IF Len(got[c]) + 1 = want[c] THEN "done" ELSE "reads"]
    BY <1>2, <1>5 DEF ReceivesUnit
  <2>2. Receiving(c) /\ Handled(c)
    BY <1>1, <1>5 DEF Settled, Served
  <2>3. /\ Len(got[c]) = sent[c]
        /\ Append(got[c], unit) = Part(c, sent[c] + 1)
        /\ ask[c] = "sqlite" => Part(c, want[c]) = Copy(tmp[c])
        /\ ask[c] # "sqlite" => Part(c, want[c]) = Archive(want[c])
    BY <1>0, <1>1, <2>2, PartGrows
  <2>4. ExportTypeOK' /\ DOMAIN got' = Clients
    BY <1>1, <1>4, <2>1 DEF ExportTypeOK, Waiting
  <2>5. /\ got'[c] = Part(c, sent[c] + 1)
        /\ client'[c] = IF sent[c] + 1 = want[c] THEN "done" ELSE "reads"
    BY <1>1, <2>1, <2>3 DEF ExportTypeOK
  <2>6. Handled(c)' /\ extra'[c] \in {"nothing", "today"}
    BY <1>1, <2>1, <2>2 DEF Handled, Settled
  <2>7. CASE sent[c] + 1 = want[c]
    <3>1. client'[c] = "done" /\ got'[c] = Part(c, want[c])
      BY <2>5, <2>7
    <3>2. Asked(c)'
      BY <1>1, <2>2, <2>3, <3>1 DEF Asked, Receiving, Announced
    <3>3. Over(c)'
      BY <1>1, <1>4, <2>2, <2>7 DEF Over, Receiving, Announced, Handled, Routes, None
    <3> QED
      BY <1>1, <1>3, <2>4, <2>6, <3>1, <3>2, <3>3, OneClient DEF Settled, Served
  <2>8. CASE sent[c] + 1 # want[c]
    <3>1. client'[c] = "reads" /\ Asked(c)'
      BY <2>5, <2>8 DEF Asked
    <3>2. (\A n : Part(c, n)' = Part(c, n)) /\ Announced(c)'
      BY <1>1, <2>2 DEF Part, Announced, Receiving, Lines
    <3>n. PICK n : n = sent[c] + 1
      OBVIOUS
    <3>3. sent'[c] < want'[c] /\ sent'[c] = n /\ got'[c] = Part(c, n)'
      BY <1>1, <1>4, <2>2, <2>5, <2>8, <3>2, <3>n DEF Receiving
    <3>4. Receiving(c)'
      BY <1>1, <2>2, <3>2, <3>3 DEF Receiving
    <3> QED
      BY <1>1, <1>3, <2>4, <2>6, <3>1, <3>4, OneClient DEF Settled, Served
  <2> QED
    BY <2>7, <2>8
<1>6. CASE client[c] # "reads"
  <2>1. /\ extra' = [extra EXCEPT ![c] = route[c]] /\ UNCHANGED <<client, got>>
    BY <1>2, <1>6 DEF ReceivesUnit
  <2>2. Over(c) /\ Handled(c)
    BY <1>1, <1>6 DEF Settled, Served
  <2>3. route[c] = "today"
    <3>1. CASE route[c] = "past"
      <4>1. Len(File(c)) = PastLines
        BY <1>1, <3>1, Lengths DEF File, Lines
      <4> QED
        BY <1>1, <2>2, <3>1, <4>1 DEF Rest, Over
    <3>2. CASE route[c] = "sqlite"
      <4>1. tmp[c] \in Nat /\ fh[c] = tmp[c]
        BY <1>1, <2>2, <3>2 DEF Handled, None
      <4>2. Len(File(c)) = tmp[c] + 1
        BY <3>2, <4>1, Lengths DEF File
      <4> QED
        BY <1>1, <2>2, <3>2, <4>1, <4>2 DEF Rest, Over
    <3> QED
      BY <2>2, <3>1, <3>2 DEF Over
  <2>4. ExportTypeOK' /\ DOMAIN got' = Clients
    BY <1>1, <1>4, <2>1 DEF ExportTypeOK
  <2>5. extra'[c] = "today"
    BY <1>1, <2>1, <2>3 DEF ExportTypeOK
  <2>6. Handled(c)' /\ Asked(c)' /\ Over(c)'
    BY <1>1, <2>1, <2>2, <2>3 DEF Handled, Asked, Settled, Lines, Over
  <2> QED
    BY <1>1, <1>3, <1>6, <2>1, <2>4, <2>5, <2>6, OneClient DEF Settled, Served
<1> QED
  BY <1>5, <1>6

LEMMA FailsInv ==
  ASSUME ExportInv, NEW c \in Clients, Fails(c) PROVE ExportInv'
<1> USE DEF Fails, recording, asking, Goes
<1>1. ExportTypeOK' /\ DOMAIN got' = Clients
  BY DEF ExportInv, ExportTypeOK
<1>2. \A d \in Clients \ {c} : Same(d)
  BY DEF ExportInv, ExportTypeOK, Same
<1>3. /\ stage'[c] = IF route[c] = "sqlite" THEN "error" ELSE "close"
      /\ Settled(c) /\ stage[c] # "idle"
  BY DEF ExportInv, ExportTypeOK
<1>4. Handled(c)' /\ extra'[c] \in {"nothing", "today"} /\ Asked(c)' /\ Served(c)'
  BY <1>3 DEF Settled, Handled, Asked, Lines, Served
<1> QED
  BY <1>1, <1>2, <1>3, <1>4, OneClient DEF Settled

LEMMA SendErrorInv ==
  ASSUME ExportInv, NEW c \in Clients, SendError(c) PROVE ExportInv'
<1> USE DEF SendError, ReceivesError, recording, asking, Goes
<1>1. ExportTypeOK' /\ DOMAIN got' = Clients
  BY DEF ExportInv, ExportTypeOK, Waiting
<1>2. \A d \in Clients \ {c} : Same(d)
  BY DEF ExportInv, ExportTypeOK, Same
<1>3. /\ stage'[c] = "finally" /\ stage[c] = "error" /\ Settled(c) /\ open' = open
      /\ client'[c] \in {"refused", "torn"} \/ (client' = client /\ c \notin open)
  BY DEF ExportInv, ExportTypeOK
<1>4. Handled(c)' /\ extra'[c] \in {"nothing", "today"} /\ Asked(c)' /\ Served(c)'
  BY <1>3 DEF Settled, Handled, Asked, Lines, Served
<1>5. c \notin open' => client'[c] = "idle"
  BY <1>3 DEF Settled
<1> QED
  BY <1>1, <1>2, <1>4, <1>5, OneClient DEF Settled

LEMMA FinallyInv ==
  ASSUME ExportInv, NEW c \in Clients, Finally(c) PROVE ExportInv'
<1> USE DEF Finally, recording, asking, Goes, Place, Swept, After
<1>1. ExportTypeOK' /\ DOMAIN got' = Clients
  BY DEF ExportInv, ExportTypeOK, None, Routes
<1>2. \A d \in Clients \ {c} : Same(d)
  BY DEF ExportInv, ExportTypeOK, Same
<1>3. /\ stage'[c] \in {"idle", "close"} /\ stage[c] # "idle" /\ Settled(c)
      /\ tmp'[c] = IF route[c] = "sqlite" THEN None ELSE tmp[c]
      /\ sent'[c] = 0 /\ open' = open
  BY DEF ExportInv, ExportTypeOK
<1>4. Handled(c)' /\ extra'[c] \in {"nothing", "today"} /\ Asked(c)' /\ Served(c)'
  BY <1>3 DEF Settled, Handled, Asked, Lines, Served
<1> QED
  BY <1>1, <1>2, <1>3, <1>4, OneClient DEF Settled

LEMMA CloseConnectionInv ==
  ASSUME ExportInv, NEW c \in Clients, CloseConnection(c) PROVE ExportInv'
<1> USE DEF CloseConnection, recording, Goes
<1>1. ExportTypeOK' /\ DOMAIN got' = Clients
  BY DEF ExportInv, ExportTypeOK, Routes
<1>2. \A d \in Clients \ {c} : Same(d)
  BY DEF ExportInv, ExportTypeOK, Same
<1>3. /\ stage'[c] = "idle" /\ stage[c] = "close" /\ Settled(c) /\ c \notin open'
      /\ extra'[c] = "nothing" /\ sent'[c] = 0
  BY DEF ExportInv, ExportTypeOK
<1>4. Handled(c)' /\ Asked(c)'
  BY <1>3 DEF Settled, Handled, Asked, Lines
<1> QED
  BY <1>1, <1>2, <1>3, <1>4, OneClient DEF Settled

LEMMA ServerDiesInv == ExportInv /\ ServerDies => ExportInv'
<1> SUFFICES ASSUME ExportInv, ServerDies PROVE ExportInv'
  OBVIOUS
<1>1. ExportTypeOK' /\ DOMAIN got' = Clients
  BY DEF ExportInv, ExportTypeOK, ServerDies, recording, None, Routes
<1>2. ASSUME NEW c \in Clients PROVE Settled(c)'
  <2>1. /\ Settled(c) /\ stage'[c] = "idle" /\ tmp'[c] = None /\ sent'[c] = 0
        /\ open' = {} /\ extra'[c] = "nothing"
    BY DEF ExportInv, ServerDies
  <2>2. Asked(c)'
    BY <2>1 DEF Settled, Asked, Lines, ServerDies, recording
  <2> QED
    BY <2>1, <2>2 DEF Settled, Handled
<1> QED
  BY <1>1, <1>2 DEF ExportInv

\* ExportInv, the inductive strengthening, is an invariant of the handlers and
\* their clients.  (Handler._export, _stream_file.)
THEOREM ExportInvariant == ExportSpec => []ExportInv
<1>1. ExportInv /\ [ExportNext]_exportVars => ExportInv'
  <2> SUFFICES ASSUME ExportInv, [ExportNext]_exportVars PROVE ExportInv'
    OBVIOUS
  <2>1. ASSUME NEW c \in Clients, Handler(c) PROVE ExportInv'
    BY <2>1, AcceptInv, TakeCopyInv, RefuseInv, SendHeadersInv, OpenFileInv,
       CopyChunkInv, FailsInv, SendErrorInv, FinallyInv, CloseConnectionInv
    DEF Handler
  <2>2. ASSUME NEW c \in Clients, Reading(c) \/ Leaves(c) PROVE ExportInv'
    <3>1. (c \in Closing) \in BOOLEAN
      OBVIOUS
    <3>2. CASE client[c] \in {"done", "refused"} /\ Ends(c, c \in Closing)
      BY <3>1, <3>2, EndsInv
    <3>3. CASE Ends(c, TRUE)
      BY <3>3, EndsInv
    <3> QED
      BY <2>2, <3>2, <3>3 DEF Reading, Leaves
  <2>3. ASSUME NEW c \in Clients, NEW r \in Routes, Ask(c, r) PROVE ExportInv'
    BY <2>3, AskInv
  <2>4. CASE UNCHANGED exportVars
    <3>1. ExportTypeOK' /\ DOMAIN got' = Clients
      BY <2>4 DEF ExportInv, ExportTypeOK, exportVars, recording, serving, asking
    <3>2. /\ rows' \in Nat /\ lines' \in Nat /\ rows <= rows' /\ lines <= lines'
          /\ \A d \in Clients : Same(d)
      BY <2>4, ExportAssumption
      DEF ExportInv, ExportTypeOK, exportVars, recording, serving, asking, Same
    <3> QED
      BY <3>1, <3>2, Undisturbed DEF ExportInv
  <2> QED
    BY <2>1, <2>2, <2>3, <2>4, RecordedInv, ServerDiesInv DEF ExportNext
<1> QED
  BY <1>1, ExportInitInv, PTL DEF ExportSpec

\* Handlers, connections and clients stay within their types, and a copy holds
\* only what was committed, for any clients and lengths.
THEOREM ExportTypeCorrect == ExportSpec => []ExportTypeOK
<1>1. ExportInv => ExportTypeOK
  BY DEF ExportInv
<1> QED
  BY <1>1, ExportInvariant, PTL

\* However a request ends, its directory is gone when its handler is through.
\* (_export's finally.)
THEOREM Sweeps == ExportSpec => []CopiesAreSwept
<1>1. ExportInv => CopiesAreSwept
  BY DEF ExportInv, Settled, Handled, CopiesAreSwept
<1> QED
  BY <1>1, ExportInvariant, PTL

\* A body of the announced length is the export that was asked for, with all that
\* was recorded by then, for any number of clients, rows and lines.  (_export.)
THEOREM FullBodies == ExportSpec => []FullBodyIsTheExport
<1>1. ExportInv => FullBodyIsTheExport
  BY DEF ExportInv, Settled, Asked, FullBodyIsTheExport
<1> QED
  BY <1>1, ExportInvariant, PTL

\* What a reply leaves in its connection are lines of today's archive and nothing
\* else.  (_stream_file.)
THEOREM RepliesApart == ExportSpec => []RepliesStayApart
<1>1. ExportInv => RepliesStayApart
  BY DEF ExportInv, Settled, RepliesStayApart
<1> QED
  BY <1>1, ExportInvariant, PTL
=============================================================================
