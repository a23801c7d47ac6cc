------------------------------- MODULE Fetch -------------------------------
(***************************************************************************)
(* The report side: processes that build a report download each probe's    *)
(* database into one data directory, analyse the files found there and     *)
(* publish.  `Loop' is the rebuild thread of `ispbust serve'; the others   *)
(* are `ispbust report' and `summary' run by hand in the same container,   *)
(* with or without --no-fetch.                                             *)
(*                                                                         *)
(* A directory entry names a file; a file keeps its content as long as     *)
(* somebody has it open, whatever happens to its name.  A file consists of *)
(* chunks, each tagged with the export it came from.  Probes with a local  *)
(* `db:' path, which are copied and not downloaded, are left out.          *)
(***************************************************************************)
EXTENDS Integers, FiniteSets

CONSTANTS
  Probes,     \* the probes of the site configuration
  UnderTest,  \* the one without which there is no report
  First,      \* the first of a set of probes, in the site file's order
  Builders,   \* processes that build reports
  Loop,       \* serve's rebuild thread
  Size,       \* chunks of a whole export
  MaxExports  \* bound: exports ever handed out

ASSUME FetchAssumption ==
  /\ UnderTest \in Probes /\ Loop \in Builders
  /\ \A S \in SUBSET Probes : S # {} => First[S] \in S
  /\ Size \in Nat \ {0} /\ MaxExports \in Nat

VARIABLES
  exported,  \* exports the probes have handed out so far
  dest,      \* the file under <probe>.sqlite
  part,      \* the file under <probe>.sqlite.part
  content,   \* the chunks of each file
  pc,        \* where each builder is
  fh,        \* the file it has open for writing
  pos,       \* chunks it has written
  ver,       \* the export it receives
  todo,      \* probes not yet visited in the present round
  databases, \* probes fetch_all has a path for
  since,     \* history: exports handed out when the build began
  con,       \* the file behind each connection of analyse
  read,      \* history: contents its queries have seen, by probe
  hashed,    \* history: contents it printed the hash of, by probe
  clash      \* history: two downloads of one probe have overlapped

directory == <<dest, part, content>>
download == <<fh, pos, ver>>
analysis == <<con, read, hashed>>
vars == <<exported, directory, pc, download, todo, databases, since, analysis, clash>>

Files == 1 .. MaxExports
NoFile == 0
Chunks == 1 .. Size
Absent == -1
Hole == 0
Content == [Chunks -> Absent .. MaxExports]
Nothing == [p \in Probes |-> {}]
Closed == [p \in Probes |-> NoFile]

Init ==
  /\ exported = 0 /\ clash = FALSE
  /\ dest = Closed /\ part = Closed
  /\ content = [f \in Files |-> [j \in Chunks |-> Absent]]
  /\ pc = [b \in Builders |-> "idle"]
  /\ fh = [b \in Builders |-> NoFile]
  /\ pos = [b \in Builders |-> 0] /\ ver = [b \in Builders |-> 0]
  /\ todo = [b \in Builders |-> {}] /\ databases = [b \in Builders |-> {}]
  /\ since = [b \in Builders |-> 0]
  /\ con = [b \in Builders |-> Closed]
  /\ read = [b \in Builders |-> Nothing] /\ hashed = [b \in Builders |-> Nothing]

\* The probe a builder is at.
Probe(b) == First[todo[b]]

Downloading(b) == pc[b] \in {"copy", "replace"}

-----------------------------------------------------------------------------
(* Ends of a build.                                                        *)

\* Variant: a build that failed is tried again without fetching.
TriesAgain(b) == "open"

\* rebuild_loop catches every exception and waits for the next build; a
\* command ends and can be given again.
Afterwards(b) == "idle"

NoDownload(b) ==
  /\ fh' = [fh EXCEPT ![b] = NoFile]
  /\ pos' = [pos EXCEPT ![b] = 0]
  /\ ver' = [ver EXCEPT ![b] = 0]

\* Files are closed and what the builder knew is forgotten.
Forget(b) ==
  /\ NoDownload(b)
  /\ todo' = [todo EXCEPT ![b] = {}]
  /\ databases' = [databases EXCEPT ![b] = {}]
  /\ since' = [since EXCEPT ![b] = 0]
  /\ con' = [con EXCEPT ![b] = Closed]
  /\ read' = [read EXCEPT ![b] = Nothing]
  /\ hashed' = [hashed EXCEPT ![b] = Nothing]
  /\ UNCHANGED <<exported, clash>>

BuildFails(b) ==
  /\ pc' = [pc EXCEPT ![b] = Afterwards(b)]
  /\ Forget(b)

\* The process dies and its container is started again.
Die(b) ==
  /\ pc[b] # "idle"
  /\ pc' = [pc EXCEPT ![b] = "idle"]
  /\ Forget(b)
  /\ UNCHANGED directory

-----------------------------------------------------------------------------
(* fetch_all, one fetch_probe after the other.                             *)

StartBuild(b) ==
  /\ pc[b] = "idle"
  /\ pc' = [pc EXCEPT ![b] = "request"]
  /\ todo' = [todo EXCEPT ![b] = Probes]
  /\ since' = [since EXCEPT ![b] = exported]
  /\ UNCHANGED <<exported, directory, download, databases, analysis, clash>>

\* --no-fetch: whatever lies in the data directory.
StartNoFetch(b) ==
  /\ pc[b] = "idle" /\ b # Loop
  /\ pc' = [pc EXCEPT ![b] = "open"]
  /\ databases' = [databases EXCEPT ![b] = {p \in Probes : dest[p] # NoFile}]
  /\ todo' = [todo EXCEPT ![b] = {p \in Probes : dest[p] # NoFile}]
  /\ UNCHANGED <<exported, directory, download, since, analysis, clash>>

\* An error of the request or of the copy: the part file is unlinked, and
\* only the link under test is worth failing for.
Lost(b) ==
  /\ part' = [part EXCEPT ![Probe(b)] = NoFile]
  /\ UNCHANGED <<dest, content>>
  /\ \/ /\ Probe(b) = UnderTest
        /\ BuildFails(b)
     \/ /\ Probe(b) # UnderTest
        /\ pc' = [pc EXCEPT ![b] = "request"]
        /\ todo' = [todo EXCEPT ![b] = @ \ {Probe(b)}]
        /\ NoDownload(b)
        /\ UNCHANGED <<exported, databases, since, analysis, clash>>

RequestFails(b) ==
  /\ pc[b] = "request" /\ todo[b] # {}
  /\ Lost(b)

\* Variant: the part file is opened without truncating it.
Kept(c) == c

\* tmp.open("wb").
Emptied(c) == [j \in Chunks |-> Absent]

\* The probe answers, with a snapshot of its own taken for this request, and
\* the part file is opened: the one that is there, or a new one.
Request(b) ==
  LET p == Probe(b)
      f == IF part[p] = NoFile THEN exported + 1 ELSE part[p]
  IN  /\ pc[b] = "request" /\ todo[b] # {} /\ exported < MaxExports
      /\ exported' = exported + 1
      /\ ver' = [ver EXCEPT ![b] = exported + 1]
      /\ fh' = [fh EXCEPT ![b] = f]
      /\ pos' = [pos EXCEPT ![b] = 0]
      /\ part' = [part EXCEPT ![p] = f]
      /\ content' = [content EXCEPT ![f] = Emptied(@)]
      /\ pc' = [pc EXCEPT ![b] = "copy"]
      /\ clash' = (clash \/ \E o \in Builders : Downloading(o) /\ Probe(o) = p)
      /\ UNCHANGED <<dest, todo, databases, since, analysis>>

\* Chunk n of export v written into content c; what lies before it and was
\* never written reads as zeros.
Written(c, n, v) ==
  [j \in Chunks |-> IF j = n THEN v
                    ELSE IF j < n /\ c[j] = Absent THEN Hole ELSE c[j]]

More(b) == pos[b] < Size

CopyChunk(b) ==
  /\ pc[b] = "copy" /\ More(b)
  /\ content' = [content EXCEPT ![fh[b]] = Written(@, pos[b] + 1, ver[b])]
  /\ pos' = [pos EXCEPT ![b] = @ + 1]
  /\ UNCHANGED <<exported, dest, part, pc, fh, ver, todo, databases,
                 since, analysis, clash>>

CopyFails(b) ==
  /\ pc[b] = "copy"
  /\ Lost(b)

\* A connection closed early ends the copy like a whole body does.
CopyEnds(b) ==
  /\ pc[b] = "copy"
  /\ pc' = [pc EXCEPT ![b] = "replace"]
  /\ UNCHANGED <<exported, directory, download, todo, databases, since, analysis, clash>>

\* tmp.replace(dest) moves whatever file has the name by now.
Replace(b) ==
  LET p == Probe(b)
  IN  /\ pc[b] = "replace" /\ part[p] # NoFile
      /\ dest' = [dest EXCEPT ![p] = part[p]]
      /\ part' = [part EXCEPT ![p] = NoFile]
      /\ NoDownload(b)
      /\ databases' = [databases EXCEPT ![b] = @ \cup {p}]
      /\ todo' = [todo EXCEPT ![b] = @ \ {p}]
      /\ pc' = [pc EXCEPT ![b] = "request"]
      /\ UNCHANGED <<exported, content, since, analysis, clash>>

\* Nothing has the name: FileNotFoundError is not a RetrievalError and ends
\* the build, for a control probe too.
ReplaceFails(b) ==
  /\ pc[b] = "replace" /\ part[Probe(b)] = NoFile
  /\ BuildFails(b)
  /\ UNCHANGED directory

\* Variant: every database found in the directory, as --no-fetch takes them.
OnDisk(b) == {p \in Probes : dest[p] # NoFile}

Results(b) == databases[b]

FetchDone(b) ==
  /\ pc[b] = "request" /\ todo[b] = {}
  /\ pc' = [pc EXCEPT ![b] = "open"]
  /\ databases' = [databases EXCEPT ![b] = Results(b)]
  /\ todo' = [todo EXCEPT ![b] = Results(b)]
  /\ UNCHANGED <<exported, directory, download, since, analysis, clash>>

-----------------------------------------------------------------------------
(* analyse.                                                                *)

Whole(c) == \E v \in Files : \A j \in Chunks : c[j] = v

\* A connection to each database, and the ICMP rows.
OpenDatabase(b) ==
  LET p == Probe(b)
  IN  /\ pc[b] = "open" /\ todo[b] # {}
      /\ con' = [con EXCEPT ![b][p] = dest[p]]
      /\ read' = [read EXCEPT ![b][p] = @ \cup {content[dest[p]]}]
      /\ todo' = [todo EXCEPT ![b] = @ \ {p}]
      /\ UNCHANGED <<exported, directory, pc, download, databases, since,
                     hashed, clash>>

\* SQLite may refuse a file that is not one whole database.
DatabaseMalformed(b) ==
  /\ \/ pc[b] = "open" /\ todo[b] # {} /\ ~Whole(content[dest[Probe(b)]])
     \/ pc[b] = "query" /\ \E p \in databases[b] : ~Whole(content[con[b][p]])
  /\ BuildFails(b)
  /\ UNCHANGED directory

\* No data for the link under test.
NothingToReport(b) ==
  /\ pc[b] = "open" /\ todo[b] = {} /\ UnderTest \notin databases[b]
  /\ BuildFails(b)
  /\ UNCHANGED directory

AllOpen(b) ==
  /\ pc[b] = "open" /\ todo[b] = {} /\ UnderTest \in databases[b]
  /\ pc' = [pc EXCEPT ![b] = "query"]
  /\ UNCHANGED <<exported, directory, download, todo, databases, since, analysis, clash>>

\* The remaining queries: DNS, traces, markers, egress, reachability.
Query(b) ==
  /\ pc[b] = "query"
  /\ read' = [read EXCEPT ![b] = [p \in Probes |->
                 IF p \in databases[b] THEN @[p] \cup {content[con[b][p]]} ELSE @[p]]]
  /\ pc' = [pc EXCEPT ![b] = "hash"]
  /\ todo' = [todo EXCEPT ![b] = databases[b]]
  /\ UNCHANGED <<exported, directory, download, databases, since, con, hashed, clash>>

\* sha256_of opens the path again.
HashFile(b) ==
  LET p == Probe(b)
  IN  /\ pc[b] = "hash" /\ todo[b] # {}
      /\ hashed' = [hashed EXCEPT ![b][p] = @ \cup {content[dest[p]]}]
      /\ todo' = [todo EXCEPT ![b] = @ \ {p}]
      /\ UNCHANGED <<exported, directory, pc, download, databases, since,
                     con, read, clash>>

Analysed(b) ==
  /\ pc[b] = "hash" /\ todo[b] = {}
  /\ pc' = [pc EXCEPT ![b] = "publish"]
  /\ con' = [con EXCEPT ![b] = Closed]
  /\ UNCHANGED <<exported, directory, download, todo, databases, since,
                 read, hashed, clash>>

\* The report is written, or writing it fails.
Publish(b) ==
  /\ pc[b] = "publish"
  /\ BuildFails(b)
  /\ UNCHANGED directory

-----------------------------------------------------------------------------
Step(b) ==
  \/ StartBuild(b) \/ StartNoFetch(b) \/ Request(b) \/ RequestFails(b)
  \/ CopyChunk(b) \/ CopyFails(b) \/ CopyEnds(b)
  \/ Replace(b) \/ ReplaceFails(b) \/ FetchDone(b)
  \/ OpenDatabase(b) \/ DatabaseMalformed(b) \/ NothingToReport(b) \/ AllOpen(b)
  \/ Query(b) \/ HashFile(b) \/ Analysed(b) \/ Publish(b)

Next == \E b \in Builders : Step(b) \/ Die(b)

\* Requests and reads of the body time out, and rebuild_loop waits a bounded
\* time; a command is given whenever somebody likes.
Spec == Init /\ [][Next]_vars /\ WF_vars(Step(Loop))

-----------------------------------------------------------------------------
\* Types: a file is under a name, in a hand or behind a connection only if it
\* was made; a download never writes past the export.
TypeOK ==
  /\ exported \in 0 .. MaxExports /\ clash \in BOOLEAN
  /\ dest \in [Probes -> 0 .. exported] /\ part \in [Probes -> 0 .. exported]
  /\ content \in [Files -> Content]
  /\ pc \in [Builders -> {"idle", "request", "copy", "replace", "open",
                          "query", "hash", "publish"}]
  /\ fh \in [Builders -> 0 .. exported]
  /\ pos \in [Builders -> 0 .. Size] /\ ver \in [Builders -> 0 .. exported]
  /\ todo \in [Builders -> SUBSET Probes] /\ databases \in [Builders -> SUBSET Probes]
  /\ since \in [Builders -> 0 .. exported]
  /\ con \in [Builders -> [Probes -> 0 .. exported]]
  /\ read \in [Builders -> [Probes -> SUBSET Content]]
  /\ hashed \in [Builders -> [Probes -> SUBSET Content]]

OneExport(c) == \A i, j \in Chunks : c[i] # Absent /\ c[j] # Absent => c[i] = c[j]

\* Unless two downloads of one probe overlapped, everything a build read from
\* a probe's database comes from one export, however downloads, truncated
\* ones too, crashes and other builds fell between its queries.  (Part file,
\* rename, connections kept open: retrieve.py fetch_probe, analysis.py analyse.)
ReadsOneSnapshot ==
  clash \/ \A b \in Builders, p \in Probes :
             \A c, d \in read[b][p] : c = d /\ OneExport(c)

\* A report built with a fetch rests on the link under test, and on nothing
\* exported before the build began: no database left by an earlier fetch
\* stands in for a control that could not be reached.
ReportIsFresh ==
  clash \/ \A b \in Builders : pc[b] = "publish" =>
             /\ read[b][UnderTest] # {}
             /\ \A p \in Probes : \A c \in read[b][p], j \in Chunks :
                  c[j] # Absent => c[j] > since[b]

\* Every hash printed in a report is of what the report was built from
\* (README: "SHA-256 hashes of the exact raw files it was built from"), even
\* where no two downloads overlapped.
HashIsOfDataRead ==
  clash \/ \A b \in Builders, p \in Probes : hashed[b][p] \subseteq read[b][p]

\* The rebuild loop starts a build again and again, whatever failed.
LoopGoesOn == []<>(pc[Loop] = "request")
=============================================================================
