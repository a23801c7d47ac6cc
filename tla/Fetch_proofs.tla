---------------------------- MODULE Fetch_proofs ----------------------------
(***************************************************************************)
(* Proofs about Fetch, for any probes, builders, size and number of        *)
(* exports.                                                                *)
(***************************************************************************)
EXTENDS Fetch, TLAPS

\* What each place in a build says about what the builder holds.
PlaceOf(b) ==
  /\ Downloading(b) => todo[b] # {} /\ fh[b] # NoFile /\ ver[b] > since[b]
  /\ pc[b] = "idle" => databases[b] = {} /\ since[b] = 0
  /\ \A p \in databases[b] : dest[p] # NoFile
  /\ pc[b] \in {"idle", "request", "copy", "replace"} =>
       \A p \in Probes : read[b][p] = {} /\ con[b][p] = NoFile
  /\ pc[b] \in {"open", "hash"} => todo[b] \subseteq databases[b]
  /\ pc[b] = "open" =>
       \A p \in Probes : IF p \in todo[b] THEN read[b][p] = {} /\ con[b][p] = NoFile
                         ELSE p \in databases[b] => con[b][p] # NoFile
  /\ pc[b] = "query" => /\ UnderTest \in databases[b]
                        /\ \A p \in databases[b] : con[b][p] # NoFile
  /\ \A p \in Probes : con[b][p] # NoFile => read[b][p] # {}
  /\ pc[b] \in {"hash", "publish"} => read[b][UnderTest] # {}

Places == \A b \in Builders : PlaceOf(b)

\* Files somebody may read: they have a database's name or are behind a
\* connection.
Readable == {dest[p] : p \in Probes} \cup {con[b][p] : b \in Builders, p \in Probes}

\* Unless downloads overlapped, a file being written is one download's own.
Apart ==
  /\ \A p \in Probes : part[p] # NoFile => part[p] \notin Readable
  /\ \A p, q \in Probes : part[p] # NoFile /\ part[p] = part[q] => p = q
  /\ \A b \in Builders : Downloading(b) =>
       /\ fh[b] \notin Readable
       /\ part[Probe(b)] \in {NoFile, fh[b]}
       /\ \A p \in Probes : part[p] = fh[b] => p = Probe(b)
       /\ \A o \in Builders : Downloading(o) /\ o # b =>
            fh[o] # fh[b] /\ Probe(o) # Probe(b)

\* A download's file holds what it has received so far, and a readable file
\* a beginning of one export.
Contents ==
  /\ \A b \in Builders : Downloading(b) =>
       \A j \in Chunks : content[fh[b]][j] = IF j <= pos[b] THEN ver[b] ELSE Absent
  /\ \A f \in Files : f \in Readable =>
       OneExport(content[f]) /\ \A j \in Chunks : content[f][j] # Hole

\* What was read is what the connection still shows.
Reads ==
  \A b \in Builders, p \in Probes :
    /\ pc[b] # "publish" /\ pc[b] # "hash" => \A c \in read[b][p] :
         con[b][p] # NoFile /\ c = content[con[b][p]]
    /\ \A c, d \in read[b][p] : c = d /\ OneExport(c)

After(c, n) == \A j \in Chunks : c[j] # Absent => c[j] > n

\* Everything a build takes, may still take or has read is newer than its
\* beginning.
Newer ==
  \A b \in Builders, p \in Probes :
    /\ p \in databases[b] => After(content[dest[p]], since[b])
    /\ con[b][p] # NoFile => After(content[con[b][p]], since[b])
    /\ \A c \in read[b][p] : After(c, since[b])
    /\ \A o \in Builders :
         Downloading(o) /\ Probe(o) \in databases[b] => ver[o] > since[b]

FetchInv ==
  /\ TypeOK /\ Places
  /\ clash \/ (Apart /\ Contents /\ Reads /\ Newer)

-----------------------------------------------------------------------------
(* The ways a build can end, in one.                                       *)

\* A builder is back at the beginning; at most one part file has lost its
\* name.
Quits(b) ==
  /\ pc' = [pc EXCEPT ![b] = "idle"]
  /\ Forget(b)
  /\ UNCHANGED <<dest, content>>
  /\ \/ part' = part
     \/ \E p \in Probes : part' = [part EXCEPT ![p] = NoFile]

\* A control is given up.
Skips(b) ==
  /\ pc[b] \in {"request", "copy"} /\ todo[b] # {}
  /\ pc' = [pc EXCEPT ![b] = "request"]
  /\ todo' = [todo EXCEPT ![b] = @ \ {Probe(b)}]
  /\ part' = [part EXCEPT ![Probe(b)] = NoFile]
  /\ NoDownload(b)
  /\ UNCHANGED <<exported, dest, content, databases, since, analysis, clash>>

LEMMA ProbeIsProbe ==
  ASSUME TypeOK, NEW b \in Builders, todo[b] # {}
  PROVE  Probe(b) \in todo[b] /\ Probe(b) \in Probes
  BY FetchAssumption DEF Probe, TypeOK

LEMMA MadeFiles ==
  ASSUME TypeOK
  PROVE  \A x \in 0 .. exported : x # NoFile => x \in Files
  BY FetchAssumption DEF TypeOK, Files, NoFile

\* What comes from the directory is a file, and what a download writes to is.
LEMMA FilesAreFiles ==
  ASSUME TypeOK, Places, NEW b \in Builders
  PROVE  /\ \A p \in databases[b] : dest[p] \in Files
         /\ pc[b] = "query" => \A p \in databases[b] : con[b][p] \in Files
         /\ Downloading(b) => fh[b] \in Files /\ todo[b] # {}
         /\ pc[b] \in {"open", "hash"} => todo[b] \subseteq databases[b]
  <1>1. \A x \in 0 .. exported : x # NoFile => x \in Files
    BY MadeFiles
  <1>2. \A p \in databases[b] : dest[p] # NoFile /\ dest[p] \in 0 .. exported
    BY DEF Places, PlaceOf, TypeOK
  <1>3. pc[b] = "query" => \A p \in databases[b] :
          con[b][p] # NoFile /\ con[b][p] \in 0 .. exported
    BY DEF Places, PlaceOf, TypeOK
  <1>4. Downloading(b) => fh[b] # NoFile /\ fh[b] \in 0 .. exported /\ todo[b] # {}
    BY DEF Places, PlaceOf, TypeOK
  <1> QED BY <1>1, <1>2, <1>3, <1>4 DEF Places, PlaceOf

LEMMA WrittenIsContent ==
  ASSUME NEW c \in Content, NEW n \in Nat, NEW v \in 0 .. MaxExports
  PROVE  Written(c, n, v) \in Content
  BY FetchAssumption DEF Written, Content, Absent, Hole, Chunks

\* Every step is one of these.
LEMMA Kinds ==
  ASSUME TypeOK, Places, NEW b \in Builders, Step(b) \/ Die(b)
  PROVE  \/ Quits(b) \/ Skips(b) \/ StartBuild(b) \/ StartNoFetch(b) \/ Request(b)
         \/ CopyChunk(b) \/ CopyEnds(b) \/ Replace(b) \/ FetchDone(b)
         \/ OpenDatabase(b) \/ AllOpen(b) \/ Query(b) \/ HashFile(b) \/ Analysed(b)
  <1>1. ASSUME BuildFails(b), UNCHANGED directory PROVE Quits(b)
    BY <1>1 DEF BuildFails, Afterwards, Quits, directory
  <1>2. ASSUME Lost(b), pc[b] \in {"request", "copy"}, todo[b] # {}
        PROVE  Quits(b) \/ Skips(b)
    <2>1. Probe(b) \in Probes
      BY <1>2, ProbeIsProbe
    <2> QED BY <1>2, <2>1 DEF Lost, BuildFails, Afterwards, Quits, Skips
  <1>3. CASE Die(b)
    BY <1>3 DEF Die, Quits, directory
  <1>4. CASE RequestFails(b)
    BY <1>4, <1>2 DEF RequestFails
  <1>5. CASE CopyFails(b)
    BY <1>5, <1>2 DEF CopyFails, Places, PlaceOf, Downloading
  <1>6. CASE ReplaceFails(b) \/ DatabaseMalformed(b) \/ NothingToReport(b) \/ Publish(b)
    BY <1>6, <1>1 DEF ReplaceFails, DatabaseMalformed, NothingToReport, Publish
  <1> QED BY <1>3, <1>4, <1>5, <1>6 DEF Step

-----------------------------------------------------------------------------
(* Types.                                                                  *)

\* Each step keeps the types.
LEMMA StepTyped ==
  ASSUME TypeOK, Places, NEW b \in Builders, Step(b) \/ Die(b)
  PROVE  TypeOK'
  <1>z. 0 \in 0 .. exported /\ 0 \in 0 .. Size /\ Size \in Nat
    BY FetchAssumption DEF TypeOK
  <1>1. CASE Quits(b)
    <2>1. /\ pc' \in [Builders -> {"idle", "request", "copy", "replace",
                                   "open", "query", "hash", "publish"}]
          /\ todo' \in [Builders -> SUBSET Probes]
          /\ databases' \in [Builders -> SUBSET Probes]
      BY <1>1, <1>z DEF Quits, Forget, NoDownload, TypeOK
    <2>2. /\ fh' \in [Builders -> 0 .. exported]
          /\ ver' \in [Builders -> 0 .. exported]
          /\ pos' \in [Builders -> 0 .. Size]
          /\ since' \in [Builders -> 0 .. exported]
      BY <1>1, <1>z DEF Quits, Forget, NoDownload, TypeOK, NoFile
    <2>3. con' \in [Builders -> [Probes -> 0 .. exported]]
      BY <1>1, <1>z DEF Quits, Forget, NoDownload, TypeOK, NoFile, Closed
    <2>4. /\ read' \in [Builders -> [Probes -> SUBSET Content]]
          /\ hashed' \in [Builders -> [Probes -> SUBSET Content]]
      BY <1>1, <1>z DEF Quits, Forget, NoDownload, TypeOK, Nothing
    <2>5. part' \in [Probes -> 0 .. exported]
      BY <1>1, <1>z DEF Quits, Forget, NoDownload, TypeOK, NoFile
    <2> QED BY <1>1, <2>1, <2>2, <2>3, <2>4, <2>5 DEF Quits, Forget,
               NoDownload, TypeOK, directory, download, analysis
  <1>2. CASE Skips(b)
    <2>1. /\ pc' \in [Builders -> {"idle", "request", "copy", "replace",
                                   "open", "query", "hash", "publish"}]
          /\ todo' \in [Builders -> SUBSET Probes]
      BY <1>2, <1>z, ProbeIsProbe DEF Skips, NoDownload, TypeOK
    <2>2. /\ fh' \in [Builders -> 0 .. exported]
          /\ ver' \in [Builders -> 0 .. exported]
          /\ pos' \in [Builders -> 0 .. Size]
      BY <1>2, <1>z, ProbeIsProbe DEF Skips, NoDownload, TypeOK, NoFile
    <2>3. part' \in [Probes -> 0 .. exported]
      BY <1>2, <1>z, ProbeIsProbe DEF Skips, NoDownload, TypeOK, NoFile
    <2> QED BY <1>2, <2>1, <2>2, <2>3 DEF Skips, NoDownload, TypeOK, directory,
               download, analysis
  <1>3. CASE StartBuild(b)
    <2>1. /\ pc' \in [Builders -> {"idle", "request", "copy", "replace",
                                   "open", "query", "hash", "publish"}]
          /\ todo' \in [Builders -> SUBSET Probes]
      BY <1>3, <1>z DEF StartBuild, TypeOK
    <2>2. since' \in [Builders -> 0 .. exported]
      BY <1>3, <1>z DEF StartBuild, TypeOK
    <2> QED BY <1>3, <2>1, <2>2 DEF StartBuild, TypeOK, directory, download,
               analysis
  <1>4. CASE StartNoFetch(b)
    <2>1. /\ pc' \in [Builders -> {"idle", "request", "copy", "replace",
                                   "open", "query", "hash", "publish"}]
          /\ todo' \in [Builders -> SUBSET Probes]
          /\ databases' \in [Builders -> SUBSET Probes]
      BY <1>4, <1>z DEF StartNoFetch, TypeOK
    <2> QED BY <1>4, <2>1 DEF StartNoFetch, TypeOK, directory, download,
               analysis
  <1>5. CASE Request(b)
    <2>1. exported' = exported + 1 /\ exported' \in 0 .. MaxExports /\ exported \in Nat
      BY <1>5, FetchAssumption DEF Request, TypeOK
    <2>2. PICK f \in 1 .. exported' :
             /\ fh' = [fh EXCEPT ![b] = f] /\ part' = [part EXCEPT ![Probe(b)] = f]
             /\ content' = [content EXCEPT ![f] = Emptied(@)]
      <3> DEFINE g == IF part[Probe(b)] = NoFile THEN exported + 1 ELSE part[Probe(b)]
      <3>1. Probe(b) \in Probes
        BY <1>5, ProbeIsProbe DEF Request
      <3>2. part[Probe(b)] \in 0 .. exported
        BY <3>1 DEF TypeOK
      <3>3. g \in 1 .. exported'
        BY <2>1, <3>2 DEF NoFile
      <3> QED BY <1>5, <3>3 DEF Request
    <2>3. 0 .. exported \subseteq 0 .. exported' /\ f \in Files /\ f \in 0 .. exported'
      BY <2>1, FetchAssumption DEF Files
    <2>4. content' \in [Files -> Content]
      <3>1. Emptied(content[f]) \in Content
        BY FetchAssumption DEF Emptied, Content, Absent
      <3> QED BY <2>2, <3>1 DEF TypeOK
    <2>5. fh' \in [Builders -> 0 .. exported'] /\ part' \in [Probes -> 0 .. exported']
      <3>1. fh \in [Builders -> 0 .. exported'] /\ part \in [Probes -> 0 .. exported']
        BY <2>3 DEF TypeOK
      <3> QED BY <2>2, <2>3, <3>1
    <2>6. /\ pos' \in [Builders -> 0 .. Size] /\ ver' \in [Builders -> 0 .. exported']
          /\ pc' \in [Builders -> {"idle", "request", "copy", "replace", "open",
                                  "query", "hash", "publish"}]
      BY <1>5, <1>z, <2>1, <2>3 DEF Request, TypeOK
    <2>7. since' \in [Builders -> 0 .. exported'] /\ dest' \in [Probes -> 0 .. exported']
      BY <1>5, <2>3 DEF Request, TypeOK
    <2>8. con' \in [Builders -> [Probes -> 0 .. exported']]
      BY <1>5, <2>3 DEF Request, TypeOK, analysis
    <2>9. clash' \in BOOLEAN
      BY <1>5 DEF Request
    <2> QED BY <1>5, <2>1, <2>4, <2>5, <2>6, <2>7, <2>8, <2>9 DEF Request,
               TypeOK, analysis
  <1>6. CASE CopyChunk(b)
    <2>1. /\ fh[b] \in Files /\ pos[b] \in 0 .. Size
          /\ pos[b] + 1 \in Nat /\ pos[b] + 1 \in 0 .. Size
      BY <1>6, FilesAreFiles, FetchAssumption DEF CopyChunk, More, Downloading,
         TypeOK
    <2>2. Written(content[fh[b]], pos[b] + 1, ver[b]) \in Content
      <3>1. content[fh[b]] \in Content /\ ver[b] \in 0 .. MaxExports
        BY <2>1, FetchAssumption DEF TypeOK
      <3> QED BY <2>1, <3>1, WrittenIsContent
    <2>3. pos' \in [Builders -> 0 .. Size] /\ content' \in [Files -> Content]
      BY <1>6, <2>1, <2>2 DEF CopyChunk, TypeOK
    <2> QED BY <1>6, <2>3 DEF CopyChunk, TypeOK, directory, download, analysis
  <1>7. CASE CopyEnds(b)
    <2>1. pc' \in [Builders -> {"idle", "request", "copy", "replace",
                                "open", "query", "hash", "publish"}]
      BY <1>7, <1>z DEF CopyEnds, TypeOK
    <2> QED BY <1>7, <2>1 DEF CopyEnds, TypeOK, directory, download, analysis
  <1>8. CASE Replace(b)
    <2>1. todo[b] # {} /\ Probe(b) \in Probes
      BY <1>8, FilesAreFiles, ProbeIsProbe DEF Replace, Downloading
    <2>2. /\ todo' \in [Builders -> SUBSET Probes]
          /\ databases' \in [Builders -> SUBSET Probes]
          /\ pc' \in [Builders -> {"idle", "request", "copy", "replace", "open",
                                  "query", "hash", "publish"}]
      BY <1>8, <2>1 DEF Replace, TypeOK
    <2>3. /\ fh' \in [Builders -> 0 .. exported] /\ ver' \in [Builders -> 0 .. exported]
          /\ pos' \in [Builders -> 0 .. Size]
      BY <1>8, <1>z DEF Replace, NoDownload, NoFile, TypeOK
    <2>4. dest' \in [Probes -> 0 .. exported] /\ part' \in [Probes -> 0 .. exported]
      BY <1>8, <1>z, <2>1 DEF Replace, NoFile, TypeOK
    <2> QED BY <1>8, <2>2, <2>3, <2>4 DEF Replace, TypeOK, analysis
  <1>9. CASE FetchDone(b)
    <2>1. /\ pc' \in [Builders -> {"idle", "request", "copy", "replace",
                                   "open", "query", "hash", "publish"}]
          /\ todo' \in [Builders -> SUBSET Probes]
          /\ databases' \in [Builders -> SUBSET Probes]
      BY <1>9, <1>z DEF FetchDone, Results, TypeOK
    <2> QED BY <1>9, <2>1 DEF FetchDone, Results, TypeOK, directory, download,
               analysis
  <1>10. CASE OpenDatabase(b)
    <2>1. Probe(b) \in Probes /\ content[dest[Probe(b)]] \in Content
      BY <1>10, FilesAreFiles, ProbeIsProbe DEF OpenDatabase, TypeOK
    <2>2. todo' \in [Builders -> SUBSET Probes]
      BY <1>10 DEF OpenDatabase, TypeOK
    <2>3. con' \in [Builders -> [Probes -> 0 .. exported]]
      BY <1>10, <2>1 DEF OpenDatabase, TypeOK
    <2>4. read' \in [Builders -> [Probes -> SUBSET Content]]
      BY <1>10, <2>1 DEF OpenDatabase, TypeOK
    <2> QED BY <1>10, <2>2, <2>3, <2>4 DEF OpenDatabase, TypeOK, directory,
               download
  <1>11. CASE AllOpen(b)
    <2>1. pc' \in [Builders -> {"idle", "request", "copy", "replace",
                                "open", "query", "hash", "publish"}]
      BY <1>11, <1>z DEF AllOpen, TypeOK
    <2> QED BY <1>11, <2>1 DEF AllOpen, TypeOK, directory, download, analysis
  <1>12. CASE Query(b)
    <2>1. todo' \in [Builders -> SUBSET Probes]
      BY <1>12 DEF Query, TypeOK
    <2>2. \A p \in databases[b] : content[con[b][p]] \in Content
      BY <1>12, FilesAreFiles DEF Query, TypeOK
    <2>3. [p \in Probes |-> IF p \in databases[b] THEN read[b][p] \cup {content[con[b][p]]}
                            ELSE read[b][p]] \in [Probes -> SUBSET Content]
      BY <2>2 DEF TypeOK
    <2>4. read' \in [Builders -> [Probes -> SUBSET Content]]
      BY <1>12, <2>3 DEF Query, TypeOK
    <2> QED BY <1>12, <2>1, <2>4 DEF Query, TypeOK, directory, download
  <1>13. CASE HashFile(b)
    <2>1. Probe(b) \in Probes /\ content[dest[Probe(b)]] \in Content
      BY <1>13, FilesAreFiles, ProbeIsProbe DEF HashFile, TypeOK
    <2>2. todo' \in [Builders -> SUBSET Probes]
      BY <1>13 DEF HashFile, TypeOK
    <2>3. hashed' \in [Builders -> [Probes -> SUBSET Content]]
      BY <1>13, <2>1 DEF HashFile, TypeOK
    <2> QED BY <1>13, <2>2, <2>3 DEF HashFile, TypeOK, directory, download
  <1>14. CASE Analysed(b)
    <2>1. pc' \in [Builders -> {"idle", "request", "copy", "replace",
                                "open", "query", "hash", "publish"}]
      BY <1>14, <1>z DEF Analysed, TypeOK
    <2>2. con' \in [Builders -> [Probes -> 0 .. exported]]
      BY <1>14, <1>z DEF Analysed, TypeOK, NoFile, Closed
    <2> QED BY <1>14, <2>1, <2>2 DEF Analysed, TypeOK, directory, download,
               analysis
  <1> QED BY Kinds, <1>1, <1>2, <1>3, <1>4, <1>5, <1>6, <1>7, <1>8, <1>9,
             <1>10, <1>11, <1>12, <1>13, <1>14

-----------------------------------------------------------------------------
(* Places.                                                                 *)

\* A step leaves the other builders as they are.
LEMMA OthersStay ==
  ASSUME TypeOK, Places, NEW b \in Builders, Step(b) \/ Die(b),
         NEW o \in Builders, o # b
  PROVE  /\ pc'[o] = pc[o] /\ fh'[o] = fh[o] /\ pos'[o] = pos[o] /\ ver'[o] = ver[o]
         /\ todo'[o] = todo[o] /\ databases'[o] = databases[o] /\ since'[o] = since[o]
         /\ con'[o] = con[o] /\ read'[o] = read[o]
  <1>1. CASE Quits(b)
    BY <1>1 DEF Quits, Forget, NoDownload, TypeOK
  <1>2. CASE Skips(b)
    BY <1>2 DEF Skips, NoDownload, TypeOK, directory, download, analysis
  <1>3. CASE StartBuild(b)
    BY <1>3 DEF StartBuild, TypeOK, directory, download, analysis
  <1>4. CASE StartNoFetch(b)
    BY <1>4 DEF StartNoFetch, TypeOK, directory, download, analysis
  <1>5. CASE Request(b)
    BY <1>5 DEF Request, TypeOK, directory, download, analysis
  <1>6. CASE CopyChunk(b)
    BY <1>6 DEF CopyChunk, TypeOK, directory, download, analysis
  <1>7. CASE CopyEnds(b)
    BY <1>7 DEF CopyEnds, TypeOK, directory, download, analysis
  <1>8. CASE Replace(b)
    BY <1>8 DEF Replace, NoDownload, TypeOK, directory, download, analysis
  <1>9. CASE FetchDone(b)
    BY <1>9 DEF FetchDone, Results, TypeOK, directory, download, analysis
  <1>10. CASE OpenDatabase(b)
    BY <1>10 DEF OpenDatabase, TypeOK, directory, download, analysis
  <1>11. CASE AllOpen(b)
    BY <1>11 DEF AllOpen, TypeOK, directory, download, analysis
  <1>12. CASE Query(b)
    BY <1>12 DEF Query, TypeOK, directory, download, analysis
  <1>13. CASE HashFile(b)
    BY <1>13 DEF HashFile, TypeOK, directory, download, analysis
  <1>14. CASE Analysed(b)
    BY <1>14 DEF Analysed, TypeOK, directory, download, analysis
  <1> QED BY Kinds, <1>1, <1>2, <1>3, <1>4, <1>5, <1>6, <1>7, <1>8, <1>9,
             <1>10, <1>11, <1>12, <1>13, <1>14

\* A database that is there stays there.
LEMMA DatabasesStay ==
  ASSUME TypeOK, Places, NEW b \in Builders, Step(b) \/ Die(b),
         NEW p \in Probes, dest[p] # NoFile
  PROVE  dest'[p] # NoFile
  <1>1. CASE Quits(b)
    BY <1>1 DEF Quits, Forget, NoDownload, TypeOK, directory
  <1>2. CASE Skips(b)
    BY <1>2 DEF Skips, NoDownload, TypeOK, directory
  <1>3. CASE StartBuild(b)
    BY <1>3 DEF StartBuild, TypeOK, directory
  <1>4. CASE StartNoFetch(b)
    BY <1>4 DEF StartNoFetch, TypeOK, directory
  <1>5. CASE Request(b)
    BY <1>5 DEF Request, TypeOK, directory
  <1>6. CASE CopyChunk(b)
    BY <1>6 DEF CopyChunk, TypeOK, directory
  <1>7. CASE CopyEnds(b)
    BY <1>7 DEF CopyEnds, TypeOK, directory
  <1>8. CASE Replace(b)
    BY <1>8 DEF Replace, NoDownload, TypeOK, directory
  <1>9. CASE FetchDone(b)
    BY <1>9 DEF FetchDone, Results, TypeOK, directory
  <1>10. CASE OpenDatabase(b)
    BY <1>10 DEF OpenDatabase, TypeOK, directory
  <1>11. CASE AllOpen(b)
    BY <1>11 DEF AllOpen, TypeOK, directory
  <1>12. CASE Query(b)
    BY <1>12 DEF Query, TypeOK, directory
  <1>13. CASE HashFile(b)
    BY <1>13 DEF HashFile, TypeOK, directory
  <1>14. CASE Analysed(b)
    BY <1>14 DEF Analysed, TypeOK, directory
  <1> QED BY Kinds, <1>1, <1>2, <1>3, <1>4, <1>5, <1>6, <1>7, <1>8, <1>9,
             <1>10, <1>11, <1>12, <1>13, <1>14

\* The builder that steps is where it should be.
LEMMA OwnPlace ==
  ASSUME TypeOK, TypeOK', Places, NEW b \in Builders, Step(b) \/ Die(b)
  PROVE  PlaceOf(b)'
  <1>p. PlaceOf(b)
    BY DEF Places
  <1>d. \A p \in Probes : dest[p] # NoFile => dest'[p] # NoFile
    BY DatabasesStay
  <1>1. CASE Quits(b)
    BY <1>1, <1>p, <1>d, ProbeIsProbe, FetchAssumption DEF Quits, Forget,
       NoDownload, PlaceOf, TypeOK, Downloading, directory, download, analysis,
       Closed, Nothing
  <1>2. CASE Skips(b)
    BY <1>2, <1>p, <1>d, ProbeIsProbe, FetchAssumption DEF Skips, NoDownload,
       PlaceOf, TypeOK, Downloading, directory, download, analysis, Closed,
       Nothing
  <1>3. CASE StartBuild(b)
    BY <1>3, <1>p, <1>d, ProbeIsProbe, FetchAssumption DEF StartBuild, PlaceOf,
       TypeOK, Downloading, directory, download, analysis, Closed, Nothing
  <1>4. CASE StartNoFetch(b)
    BY <1>4, <1>p, <1>d, ProbeIsProbe, FetchAssumption DEF StartNoFetch,
       PlaceOf, TypeOK, Downloading, directory, download, analysis, Closed,
       Nothing
  <1>5. CASE Request(b)
    BY <1>5, <1>p, <1>d, ProbeIsProbe, FetchAssumption DEF Request, PlaceOf,
       TypeOK, Downloading, directory, download, analysis, Closed, Nothing
  <1>6. CASE CopyChunk(b)
    BY <1>6, <1>p, <1>d, ProbeIsProbe, FetchAssumption DEF CopyChunk, PlaceOf,
       TypeOK, Downloading, directory, download, analysis, Closed, Nothing
  <1>7. CASE CopyEnds(b)
    BY <1>7, <1>p, <1>d, ProbeIsProbe, FetchAssumption DEF CopyEnds, PlaceOf,
       TypeOK, Downloading, directory, download, analysis, Closed, Nothing
  <1>8. CASE Replace(b)
    BY <1>8, <1>p, <1>d, ProbeIsProbe, FetchAssumption DEF Replace, NoDownload,
       PlaceOf, TypeOK, Downloading, directory, download, analysis, Closed,
       Nothing
  <1>9. CASE FetchDone(b)
    BY <1>9, <1>p, <1>d, ProbeIsProbe, FetchAssumption DEF FetchDone, Results,
       PlaceOf, TypeOK, Downloading, directory, download, analysis, Closed,
       Nothing
  <1>10. CASE OpenDatabase(b)
    <2> DEFINE p == Probe(b)
    <2>1. p \in Probes /\ p \in todo[b] /\ p \in databases[b] /\ dest[p] # NoFile
      BY <1>10, <1>p, ProbeIsProbe DEF OpenDatabase, PlaceOf
    <2>2. /\ pc'[b] = "open" /\ pc[b] = "open" /\ databases' = databases /\ dest' = dest
          /\ todo'[b] = todo[b] \ {p}
      BY <1>10 DEF OpenDatabase, TypeOK, directory
    <2>3. con'[b] = [con[b] EXCEPT ![p] = dest[p]]
      BY <1>10 DEF OpenDatabase, TypeOK
    <2>4. read'[b] = [read[b] EXCEPT ![p] = @ \cup {content[dest[p]]}]
      BY <1>10 DEF OpenDatabase, TypeOK
    <2>5. read[b] \in [Probes -> SUBSET Content] /\ con[b] \in [Probes -> 0 .. exported]
      BY DEF TypeOK
    <2>6. con'[b][p] = dest[p] /\ read'[b][p] # {}
      BY <2>1, <2>3, <2>4, <2>5
    <2>7. \A q \in Probes : q # p => con'[b][q] = con[b][q] /\ read'[b][q] = read[b][q]
      BY <2>3, <2>4, <2>5
    <2> HIDE DEF p
    <2> QED BY <1>p, <2>1, <2>2, <2>6, <2>7 DEF PlaceOf, Downloading
  <1>11. CASE AllOpen(b)
    BY <1>11, <1>p, <1>d, ProbeIsProbe, FetchAssumption DEF AllOpen, PlaceOf,
       TypeOK, Downloading, directory, download, analysis, Closed, Nothing
  <1>12. CASE Query(b)
    BY <1>12, <1>p, <1>d, ProbeIsProbe, FetchAssumption DEF Query, PlaceOf,
       TypeOK, Downloading, directory, download, analysis, Closed, Nothing
  <1>13. CASE HashFile(b)
    BY <1>13, <1>p, <1>d, ProbeIsProbe, FetchAssumption DEF HashFile, PlaceOf,
       TypeOK, Downloading, directory, download, analysis, Closed, Nothing
  <1>14. CASE Analysed(b)
    BY <1>14, <1>p, <1>d, ProbeIsProbe, FetchAssumption DEF Analysed, PlaceOf,
       TypeOK, Downloading, directory, download, analysis, Closed, Nothing
  <1> QED BY Kinds, <1>1, <1>2, <1>3, <1>4, <1>5, <1>6, <1>7, <1>8, <1>9,
             <1>10, <1>11, <1>12, <1>13, <1>14

LEMMA StepPlaces ==
  ASSUME TypeOK, TypeOK', Places, NEW b \in Builders, Step(b) \/ Die(b)
  PROVE  Places'
  <1> SUFFICES ASSUME NEW o \in Builders PROVE PlaceOf(o)'
    BY DEF Places
  <1>1. CASE o = b
    BY <1>1, OwnPlace
  <1>2. CASE o # b
    <2>1. PlaceOf(o) /\ databases[o] \subseteq Probes
      BY DEF Places, TypeOK
    <2>2. \A p \in Probes : dest[p] # NoFile => dest'[p] # NoFile
      BY DatabasesStay
    <2> QED BY <1>2, <2>1, <2>2, OthersStay DEF PlaceOf, Downloading
  <1> QED BY <1>1, <1>2

-----------------------------------------------------------------------------
(* Files: who writes them and who can read them.                           *)

\* A request opens a file nobody reads and no other download writes.
LEMMA RequestOpens ==
  ASSUME TypeOK, Places, Apart, NEW b \in Builders, Request(b), ~clash'
  PROVE  \E f \in Files :
           /\ fh'[b] = f /\ pos'[b] = 0 /\ ver'[b] = exported + 1 /\ Downloading(b)'
           /\ part' = [part EXCEPT ![Probe(b)] = f] /\ Probe(b) \in Probes
           /\ content' = [content EXCEPT ![f] = Emptied(@)]
           /\ f \notin Readable
           /\ \A q \in Probes : part[q] = f => q = Probe(b)
           /\ \A o \in Builders : Downloading(o) => fh[o] # f /\ Probe(o) # Probe(b)
  <1> DEFINE f == IF part[Probe(b)] = NoFile THEN exported + 1 ELSE part[Probe(b)]
  <1>1. Probe(b) \in Probes
    BY ProbeIsProbe DEF Request
  <1>2. exported \in Nat /\ exported < MaxExports /\ part[Probe(b)] \in 0 .. exported
    BY <1>1, FetchAssumption DEF TypeOK, Request
  <1>3. f \in Files
    BY <1>2, FetchAssumption DEF Files, NoFile
  <1>4. /\ fh'[b] = f /\ pos'[b] = 0 /\ ver'[b] = exported + 1 /\ pc'[b] = "copy"
        /\ part' = [part EXCEPT ![Probe(b)] = f]
        /\ content' = [content EXCEPT ![f] = Emptied(@)]
    BY DEF Request, TypeOK
  <1>5. \A o \in Builders : Downloading(o) => Probe(o) # Probe(b)
    BY DEF Request
  <1>6. CASE part[Probe(b)] = NoFile
    <2>1. \A g : g \in Readable => g \in 0 .. exported
      BY DEF Readable, TypeOK
    <2>2. f \notin 0 .. exported
      BY <1>2, <1>6
    <2>3. \A q \in Probes : part[q] \in 0 .. exported
      BY DEF TypeOK
    <2>4. \A o \in Builders : fh[o] \in 0 .. exported
      BY DEF TypeOK
    <2> HIDE DEF f
    <2> QED BY <1>1, <1>3, <1>4, <1>5, <2>1, <2>2, <2>3, <2>4 DEF Downloading
  <1>7. CASE part[Probe(b)] # NoFile
    <2>1. f = part[Probe(b)]
      BY <1>7
    <2>2. f \notin Readable /\ \A q \in Probes : part[q] = f => q = Probe(b)
      BY <1>1, <1>7, <2>1 DEF Apart
    <2>3. \A o \in Builders : Downloading(o) => fh[o] # f
      BY <1>1, <1>5, <2>1 DEF Apart
    <2> HIDE DEF f
    <2> QED BY <1>1, <1>3, <1>4, <1>5, <2>2, <2>3 DEF Downloading
  <1> QED BY <1>6, <1>7

\* A rename publishes the builder's own file.
LEMMA ReplaceMoves ==
  ASSUME TypeOK, Places, Apart, NEW b \in Builders, Replace(b)
  PROVE  /\ Downloading(b) /\ ~Downloading(b)' /\ Probe(b) \in Probes
         /\ part[Probe(b)] = fh[b] /\ fh[b] \in Files
         /\ dest' = [dest EXCEPT ![Probe(b)] = fh[b]]
         /\ part' = [part EXCEPT ![Probe(b)] = NoFile]
         /\ content' = content /\ con' = con /\ read' = read /\ since' = since
         /\ databases'[b] = databases[b] \cup {Probe(b)}
  <1>1. /\ Downloading(b) /\ pc'[b] = "request"
        /\ databases'[b] = databases[b] \cup {Probe(b)}
    BY DEF Replace, Downloading, TypeOK
  <1>2. fh[b] \in Files /\ Probe(b) \in Probes
    BY <1>1, FilesAreFiles, ProbeIsProbe
  <1>3. part[Probe(b)] = fh[b]
    BY <1>1 DEF Apart, Replace
  <1> QED BY <1>1, <1>2, <1>3 DEF Replace, Downloading, analysis

\* Every other step only takes names, connections and downloads away.
Shrinks ==
  /\ dest' = dest
  /\ \A p \in Probes : part'[p] \in {part[p], NoFile}
  /\ \A f \in Files : f \in Readable' => f \in Readable
  /\ \A o \in Builders : Downloading(o)' =>
       Downloading(o) /\ fh'[o] = fh[o] /\ ver'[o] = ver[o] /\ Probe(o)' = Probe(o)

LEMMA OtherStepsShrink ==
  ASSUME TypeOK, TypeOK', Places, NEW b \in Builders, Step(b) \/ Die(b),
         ~Request(b), ~Replace(b)
  PROVE  Shrinks
  <1>1. dest' = dest /\ \A p \in Probes : part'[p] \in {part[p], NoFile}
    <2>1. CASE Quits(b)
      BY <2>1 DEF Quits, Forget, NoDownload, TypeOK, directory
    <2>2. CASE Skips(b)
      BY <2>2 DEF Skips, NoDownload, TypeOK, directory
    <2>3. CASE StartBuild(b)
      BY <2>3 DEF StartBuild, TypeOK, directory
    <2>4. CASE StartNoFetch(b)
      BY <2>4 DEF StartNoFetch, TypeOK, directory
    <2>5. CASE CopyChunk(b)
      BY <2>5 DEF CopyChunk, TypeOK, directory
    <2>6. CASE CopyEnds(b)
      BY <2>6 DEF CopyEnds, TypeOK, directory
    <2>7. CASE FetchDone(b)
      BY <2>7 DEF FetchDone, Results, TypeOK, directory
    <2>8. CASE OpenDatabase(b)
      BY <2>8 DEF OpenDatabase, TypeOK, directory
    <2>9. CASE AllOpen(b)
      BY <2>9 DEF AllOpen, TypeOK, directory
    <2>10. CASE Query(b)
      BY <2>10 DEF Query, TypeOK, directory
    <2>11. CASE HashFile(b)
      BY <2>11 DEF HashFile, TypeOK, directory
    <2>12. CASE Analysed(b)
      BY <2>12 DEF Analysed, TypeOK, directory
    <2> QED BY Kinds, <2>1, <2>2, <2>3, <2>4, <2>5, <2>6, <2>7, <2>8, <2>9,
               <2>10, <2>11, <2>12
  <1>2. \A p \in Probes : con'[b][p] \in {NoFile, con[b][p], dest[p]}
    <2>1. CASE Quits(b)
      BY <2>1, ProbeIsProbe DEF Quits, Forget, NoDownload, TypeOK, analysis,
         Closed
    <2>2. CASE Skips(b)
      BY <2>2, ProbeIsProbe DEF Skips, NoDownload, TypeOK, analysis, Closed
    <2>3. CASE StartBuild(b)
      BY <2>3, ProbeIsProbe DEF StartBuild, TypeOK, analysis, Closed
    <2>4. CASE StartNoFetch(b)
      BY <2>4, ProbeIsProbe DEF StartNoFetch, TypeOK, analysis, Closed
    <2>5. CASE CopyChunk(b)
      BY <2>5, ProbeIsProbe DEF CopyChunk, TypeOK, analysis, Closed
    <2>6. CASE CopyEnds(b)
      BY <2>6, ProbeIsProbe DEF CopyEnds, TypeOK, analysis, Closed
    <2>7. CASE FetchDone(b)
      BY <2>7, ProbeIsProbe DEF FetchDone, Results, TypeOK, analysis, Closed
    <2>8. CASE OpenDatabase(b)
      BY <2>8, ProbeIsProbe DEF OpenDatabase, TypeOK, analysis, Closed
    <2>9. CASE AllOpen(b)
      BY <2>9, ProbeIsProbe DEF AllOpen, TypeOK, analysis, Closed
    <2>10. CASE Query(b)
      BY <2>10, ProbeIsProbe DEF Query, TypeOK, analysis, Closed
    <2>11. CASE HashFile(b)
      BY <2>11, ProbeIsProbe DEF HashFile, TypeOK, analysis, Closed
    <2>12. CASE Analysed(b)
      BY <2>12, ProbeIsProbe DEF Analysed, TypeOK, analysis, Closed
    <2> QED BY Kinds, <2>1, <2>2, <2>3, <2>4, <2>5, <2>6, <2>7, <2>8, <2>9,
               <2>10, <2>11, <2>12
  <1>3. Downloading(b)' => /\ Downloading(b) /\ fh'[b] = fh[b]
                           /\ ver'[b] = ver[b] /\ todo'[b] = todo[b]
    <2>1. CASE Quits(b)
      BY <2>1 DEF Quits, Forget, NoDownload, TypeOK, Downloading, download
    <2>2. CASE Skips(b)
      BY <2>2 DEF Skips, NoDownload, TypeOK, Downloading, download
    <2>3. CASE StartBuild(b)
      BY <2>3 DEF StartBuild, TypeOK, Downloading, download
    <2>4. CASE StartNoFetch(b)
      BY <2>4 DEF StartNoFetch, TypeOK, Downloading, download
    <2>5. CASE CopyChunk(b)
      BY <2>5 DEF CopyChunk, TypeOK, Downloading, download
    <2>6. CASE CopyEnds(b)
      BY <2>6 DEF CopyEnds, TypeOK, Downloading, download
    <2>7. CASE FetchDone(b)
      BY <2>7 DEF FetchDone, Results, TypeOK, Downloading, download
    <2>8. CASE OpenDatabase(b)
      BY <2>8 DEF OpenDatabase, TypeOK, Downloading, download
    <2>9. CASE AllOpen(b)
      BY <2>9 DEF AllOpen, TypeOK, Downloading, download
    <2>10. CASE Query(b)
      BY <2>10 DEF Query, TypeOK, Downloading, download
    <2>11. CASE HashFile(b)
      BY <2>11 DEF HashFile, TypeOK, Downloading, download
    <2>12. CASE Analysed(b)
      BY <2>12 DEF Analysed, TypeOK, Downloading, download
    <2> QED BY Kinds, <2>1, <2>2, <2>3, <2>4, <2>5, <2>6, <2>7, <2>8, <2>9,
               <2>10, <2>11, <2>12
  <1>4. \A f \in Files : f \in Readable' => f \in Readable
    <2> SUFFICES ASSUME NEW f \in Files, f \in Readable' PROVE f \in Readable
      OBVIOUS
    <2>1. f # NoFile
      BY FetchAssumption DEF Files, NoFile
    <2>2. CASE \E p \in Probes : dest'[p] = f
      BY <1>1, <2>2 DEF Readable
    <2>3. CASE \E o \in Builders, p \in Probes : con'[o][p] = f
      <3>1. PICK o \in Builders, p \in Probes : con'[o][p] = f
        BY <2>3
      <3>2. CASE o = b
        BY <1>2, <2>1, <3>1, <3>2 DEF Readable
      <3>3. CASE o # b
        BY <3>1, <3>3, OthersStay DEF Readable
      <3> QED BY <3>2, <3>3
    <2> QED BY <2>2, <2>3 DEF Readable
  <1>5. \A o \in Builders : Downloading(o)' =>
          Downloading(o) /\ fh'[o] = fh[o] /\ ver'[o] = ver[o] /\ Probe(o)' = Probe(o)
    BY <1>3, OthersStay DEF Downloading, Probe
  <1> QED BY <1>1, <1>4, <1>5 DEF Shrinks

\* Files stay apart.
LEMMA StepApart ==
  ASSUME TypeOK, TypeOK', Places, Places', Apart,
         NEW b \in Builders, Step(b) \/ Die(b), ~clash'
  PROVE  Apart'
  <1>1. CASE Request(b)
    <2>1. PICK f \in Files :
           /\ fh'[b] = f /\ Downloading(b)'
           /\ part' = [part EXCEPT ![Probe(b)] = f] /\ Probe(b) \in Probes
           /\ f \notin Readable
           /\ \A q \in Probes : part[q] = f => q = Probe(b)
           /\ \A o \in Builders : Downloading(o) => fh[o] # f /\ Probe(o) # Probe(b)
      BY <1>1, RequestOpens
    <2>2. \A g : g \in Readable' <=> g \in Readable
      BY <1>1 DEF Request, Readable, analysis
    <2>3. \A o \in Builders : Probe(o)' = Probe(o)
      BY <1>1 DEF Request, Probe
    <2>4. \A o \in Builders : o # b =>
            (Downloading(o)' <=> Downloading(o)) /\ fh'[o] = fh[o]
      BY OthersStay DEF Downloading
    <2>5. \A q \in Probes : part'[q] = IF q = Probe(b) THEN f ELSE part[q]
      BY <2>1 DEF TypeOK
    <2>6. \A p \in Probes : part'[p] # NoFile => part'[p] \notin Readable'
      BY <2>1, <2>2, <2>5 DEF Apart
    <2>7. \A p, q \in Probes : part'[p] # NoFile /\ part'[p] = part'[q] => p = q
      BY <2>1, <2>5 DEF Apart
    <2>8. ASSUME NEW o \in Builders, Downloading(o)'
          PROVE  /\ fh'[o] \notin Readable'
                 /\ part'[Probe(o)'] \in {NoFile, fh'[o]}
                 /\ \A p \in Probes : part'[p] = fh'[o] => p = Probe(o)'
                 /\ \A d \in Builders : Downloading(d)' /\ d # o =>
                      fh'[d] # fh'[o] /\ Probe(d)' # Probe(o)'
      <3>1. CASE o = b
        BY <2>1, <2>2, <2>3, <2>4, <2>5, <3>1 DEF Apart
      <3>2. CASE o # b
        <4>1. Downloading(o) /\ todo[o] # {} /\ Probe(o) \in Probes
          BY <2>4, <2>8, <3>2, FilesAreFiles, ProbeIsProbe
        <4> QED BY <2>1, <2>2, <2>3, <2>4, <2>5, <3>2, <4>1 DEF Apart
      <3> QED BY <3>1, <3>2
    <2> QED BY <2>6, <2>7, <2>8 DEF Apart
  <1>2. CASE Replace(b)
    <2>1. /\ Downloading(b) /\ ~Downloading(b)' /\ Probe(b) \in Probes
          /\ part[Probe(b)] = fh[b] /\ fh[b] \in Files
          /\ dest' = [dest EXCEPT ![Probe(b)] = fh[b]]
          /\ part' = [part EXCEPT ![Probe(b)] = NoFile]
          /\ con' = con
      BY <1>2, ReplaceMoves
    <2>2. \A g : g \in Readable' => g \in Readable \/ g = fh[b]
      BY <2>1 DEF Readable, TypeOK
    <2>3. \A q \in Probes : part'[q] = IF q = Probe(b) THEN NoFile ELSE part[q]
      BY <2>1 DEF TypeOK
    <2>4. \A o \in Builders : Downloading(o)' =>
            /\ o # b /\ Downloading(o) /\ fh'[o] = fh[o] /\ Probe(o)' = Probe(o)
            /\ Probe(o) \in Probes
      BY <2>1, OthersStay, FilesAreFiles, ProbeIsProbe DEF Downloading, Probe
    <2>5. \A p \in Probes : part'[p] # NoFile => part'[p] \notin Readable'
      BY <2>1, <2>2, <2>3 DEF Apart
    <2>6. \A p, q \in Probes : part'[p] # NoFile /\ part'[p] = part'[q] => p = q
      BY <2>3 DEF Apart
    <2>7. \A o \in Builders : Downloading(o)' =>
            /\ fh'[o] \notin Readable'
            /\ part'[Probe(o)'] \in {NoFile, fh'[o]}
            /\ \A p \in Probes : part'[p] = fh'[o] => p = Probe(o)'
            /\ \A d \in Builders : Downloading(d)' /\ d # o =>
                 fh'[d] # fh'[o] /\ Probe(d)' # Probe(o)'
      <3> SUFFICES ASSUME NEW o \in Builders, Downloading(o)'
                   PROVE  /\ fh'[o] \notin Readable'
                          /\ part'[Probe(o)'] \in {NoFile, fh'[o]}
                          /\ \A p \in Probes : part'[p] = fh'[o] => p = Probe(o)'
                          /\ \A d \in Builders : Downloading(d)' /\ d # o =>
                               fh'[d] # fh'[o] /\ Probe(d)' # Probe(o)'
        OBVIOUS
      <3>1. fh'[o] # NoFile
        BY DEF Places, PlaceOf
      <3> QED BY <2>1, <2>2, <2>3, <2>4, <3>1 DEF Apart
    <2> QED BY <2>5, <2>6, <2>7 DEF Apart
  <1>3. CASE ~Request(b) /\ ~Replace(b)
    <2>1. Shrinks
      BY <1>3, OtherStepsShrink
    <2>2. \A p \in Probes : part'[p] # NoFile => part'[p] = part[p] /\ part[p] \in Files
      <3>1. \A p \in Probes : part[p] # NoFile => part[p] \in Files
        BY MadeFiles DEF TypeOK
      <3> QED BY <2>1, <3>1 DEF Shrinks
    <2>3. \A o \in Builders : Downloading(o)' =>
            /\ Downloading(o) /\ fh'[o] = fh[o] /\ Probe(o)' = Probe(o)
            /\ Probe(o) \in Probes /\ fh[o] \in Files /\ fh[o] # NoFile
      BY <2>1, FilesAreFiles, ProbeIsProbe DEF Shrinks, Places, PlaceOf
    <2>4. \A f \in Files : f \in Readable' => f \in Readable
      BY <2>1 DEF Shrinks
    <2>5. \A p \in Probes : part'[p] # NoFile => part'[p] \notin Readable'
      BY <2>2, <2>4 DEF Apart
    <2>6. \A p, q \in Probes : part'[p] # NoFile /\ part'[p] = part'[q] => p = q
      BY <2>2 DEF Apart
    <2>7. ASSUME NEW o \in Builders, Downloading(o)'
          PROVE  /\ fh'[o] \notin Readable'
                 /\ part'[Probe(o)'] \in {NoFile, fh'[o]}
                 /\ \A p \in Probes : part'[p] = fh'[o] => p = Probe(o)'
                 /\ \A d \in Builders : Downloading(d)' /\ d # o =>
                      fh'[d] # fh'[o] /\ Probe(d)' # Probe(o)'
      BY <2>2, <2>3, <2>4, <2>7 DEF Apart
    <2> QED BY <2>5, <2>6, <2>7 DEF Apart
  <1> QED BY <1>1, <1>2, <1>3

-----------------------------------------------------------------------------
(* Contents.                                                               *)

\* A file somebody may read is not written to.
LEMMA ReadableStays ==
  ASSUME TypeOK, Places, Apart, NEW b \in Builders, Step(b) \/ Die(b), ~clash',
         NEW f \in Files, f \in Readable
  PROVE  content'[f] = content[f]
  <1>1. CASE Request(b)
    BY <1>1, RequestOpens DEF TypeOK
  <1>2. CASE CopyChunk(b)
    BY <1>2 DEF CopyChunk, Downloading, Apart, TypeOK
  <1>3. CASE ~Request(b) /\ ~CopyChunk(b)
    <2>1. content' = content
      BY <1>3, Kinds DEF Quits, Skips, StartBuild, StartNoFetch, CopyEnds,
         Replace,
         FetchDone, OpenDatabase, AllOpen, Query, HashFile, Analysed, directory
    <2> QED BY <2>1
  <1> QED BY <1>1, <1>2, <1>3

\* What a download has received, after n chunks.
Received(c, n, v) == \A j \in Chunks : c[j] = IF j <= n THEN v ELSE Absent

LEMMA ReceivedNext ==
  ASSUME NEW c \in Content, NEW n \in Nat, NEW v \in Nat, Received(c, n, v)
  PROVE  Received(Written(c, n + 1, v), n + 1, v)
  <1> DEFINE w == Written(c, n + 1, v)
  <1>1. \A j \in Chunks : w[j] = IF j = n + 1 THEN v
                               ELSE IF j < n + 1 /\ c[j] = Absent THEN Hole ELSE c[j]
    BY DEF Written
  <1>2. SUFFICES ASSUME NEW j \in Chunks
                 PROVE  w[j] = IF j <= n + 1 THEN v ELSE Absent
    BY DEF Received
  <1>3. j \in Int /\ c[j] = IF j <= n THEN v ELSE Absent
    BY FetchAssumption DEF Chunks, Received
  <1>4. CASE j = n + 1
    BY <1>1, <1>4
  <1>5. CASE j < n + 1
    BY <1>1, <1>3, <1>5 DEF Hole, Absent
  <1>6. CASE j > n + 1
    BY <1>1, <1>3, <1>6
  <1> QED BY <1>3, <1>4, <1>5, <1>6

LEMMA ReceivedIsOneExport ==
  ASSUME NEW c, NEW n, NEW v \in Nat \ {0}, Received(c, n, v)
  PROVE  /\ OneExport(c) /\ \A j \in Chunks : c[j] # Hole
         /\ \A m : v > m => After(c, m)
  BY DEF Received, OneExport, After, Hole, Absent

\* A download's file keeps holding what it has received.
LEMMA StepReceived ==
  ASSUME TypeOK, TypeOK', Places, Places', Apart, Contents,
         NEW b \in Builders, Step(b) \/ Die(b), ~clash',
         NEW o \in Builders, Downloading(o)'
  PROVE  Received(content'[fh'[o]], pos'[o], ver'[o])
  <1>0. \A d \in Builders : Downloading(d) => Received(content[fh[d]], pos[d], ver[d])
    BY DEF Contents, Received
  <1>1. CASE Request(b)
    <2>1. PICK f \in Files :
            /\ fh'[b] = f /\ pos'[b] = 0
            /\ content' = [content EXCEPT ![f] = Emptied(@)]
            /\ \A d \in Builders : Downloading(d) => fh[d] # f
      BY <1>1, RequestOpens
    <2>2. /\ content'[f] = Emptied(content[f])
          /\ \A g \in Files : g # f => content'[g] = content[g]
      BY <2>1 DEF TypeOK
    <2>3. CASE o = b
      <3>1. \A j \in Chunks : ~(j <= 0)
        BY FetchAssumption DEF Chunks
      <3> QED BY <2>1, <2>2, <2>3, <3>1 DEF Received, Emptied
    <2>4. CASE o # b
      <3>1. /\ Downloading(o) /\ fh'[o] = fh[o] /\ pos'[o] = pos[o] /\ ver'[o] = ver[o]
        BY <2>4, OthersStay DEF Downloading
      <3>2. fh[o] \in Files /\ fh[o] # f
        BY <2>1, <3>1, FilesAreFiles
      <3> QED BY <1>0, <2>2, <3>1, <3>2
    <2> QED BY <2>3, <2>4
  <1>2. CASE CopyChunk(b)
    <2>1. /\ Downloading(b) /\ fh' = fh /\ ver' = ver /\ pos'[b] = pos[b] + 1
          /\ content' = [content EXCEPT ![fh[b]] = Written(@, pos[b] + 1, ver[b])]
      BY <1>2 DEF CopyChunk, Downloading, TypeOK
    <2>2. fh[b] \in Files /\ pos[b] \in Nat /\ content[fh[b]] \in Content
      BY <2>1, FilesAreFiles DEF TypeOK
    <2>3. CASE o = b
      BY <1>0, <2>1, <2>2, <2>3, ReceivedNext DEF TypeOK
    <2>4. CASE o # b
      <3>1. Downloading(o) /\ fh[o] # fh[b] /\ pos'[o] = pos[o]
        BY <2>1, <2>4, OthersStay DEF Downloading, Apart
      <3> QED BY <1>0, <2>1, <2>2, <3>1
    <2> QED BY <2>3, <2>4
  <1>3. CASE ~Request(b) /\ ~CopyChunk(b)
    <2>1. content' = content
      BY <1>3, Kinds DEF Quits, Skips, StartBuild, StartNoFetch, CopyEnds,
         Replace,
         FetchDone, OpenDatabase, AllOpen, Query, HashFile, Analysed, directory
    <2>2. Downloading(o) /\ fh'[o] = fh[o] /\ pos'[o] = pos[o] /\ ver'[o] = ver[o]
      <3>1. CASE o # b
        BY <3>1, OthersStay DEF Downloading
      <3>2. CASE o = b
        <4>0. pc'[b] \in {"copy", "replace"}
          BY <3>2 DEF Downloading
        <4>1. ~Quits(b) /\ ~Skips(b) /\ ~StartBuild(b) /\ ~StartNoFetch(b)
          BY <4>0 DEF Quits, Skips, StartBuild, StartNoFetch, TypeOK
        <4>2. ~Replace(b) /\ ~FetchDone(b) /\ ~AllOpen(b) /\ ~Query(b) /\ ~Analysed(b)
          BY <4>0 DEF Replace, FetchDone, AllOpen, Query, Analysed, TypeOK
        <4>3. ~OpenDatabase(b) /\ ~HashFile(b)
          BY <4>0 DEF OpenDatabase, HashFile
        <4>4. CopyEnds(b)
          BY <1>3, <4>1, <4>2, <4>3, Kinds
        <4> QED BY <3>2, <4>4 DEF CopyEnds, Downloading, download
      <3> QED BY <3>1, <3>2
    <2> QED BY <1>0, <2>1, <2>2
  <1> QED BY <1>1, <1>2, <1>3

\* What becomes readable is a finished download.
LEMMA StepReadable ==
  ASSUME TypeOK, TypeOK', Places, Apart, Contents,
         NEW b \in Builders, Step(b) \/ Die(b), ~clash',
         NEW f \in Files, f \in Readable'
  PROVE  OneExport(content'[f]) /\ \A j \in Chunks : content'[f][j] # Hole
  <1>1. CASE f \in Readable
    <2>1. content'[f] = content[f]
      BY <1>1, ReadableStays
    <2> QED BY <1>1, <2>1 DEF Contents
  <1>2. CASE f \notin Readable
    <2>1. Replace(b)
      <3>1. ASSUME Request(b) PROVE FALSE
        BY <1>2, <3>1 DEF Request, Readable, analysis
      <3> QED BY <1>2, <3>1, OtherStepsShrink DEF Shrinks
    <2>2. /\ Downloading(b) /\ dest' = [dest EXCEPT ![Probe(b)] = fh[b]]
          /\ content' = content /\ con' = con
      BY <2>1, ReplaceMoves
    <2>3. f = fh[b]
      BY <1>2, <2>2 DEF Readable, TypeOK
    <2>4. Received(content[fh[b]], pos[b], ver[b])
      BY <2>2 DEF Contents, Received
    <2>5. ver[b] \in Nat \ {0}
      BY <2>2 DEF Places, PlaceOf, TypeOK
    <2> QED BY <2>2, <2>3, <2>4, <2>5, ReceivedIsOneExport
  <1> QED BY <1>1, <1>2

LEMMA StepContents ==
  ASSUME TypeOK, TypeOK', Places, Places', Apart, Contents,
         NEW b \in Builders, Step(b) \/ Die(b), ~clash'
  PROVE  Contents'
  <1>1. \A o \in Builders : Downloading(o)' =>
          \A j \in Chunks : content'[fh'[o]][j] = IF j <= pos'[o] THEN ver'[o] ELSE Absent
    BY StepReceived DEF Received
  <1>2. \A f \in Files : f \in Readable' =>
          OneExport(content'[f]) /\ \A j \in Chunks : content'[f][j] # Hole
    BY StepReadable
  <1> QED BY <1>1, <1>2 DEF Contents, OneExport

-----------------------------------------------------------------------------
(* What builds have read.                                                  *)

\* A connection goes on showing what was read through it.
LEMMA StepReads ==
  ASSUME TypeOK, TypeOK', Places, Places', Apart, Contents, Reads,
         NEW b \in Builders, Step(b) \/ Die(b), ~clash'
  PROVE  Reads'
  <1> DEFINE Tied(c, o, p) == con[o][p] # NoFile /\ c = content[con[o][p]]
             Same(o, p) == \A c, d \in read[o][p] : c = d /\ OneExport(c)
             ReadsOf(o, p) == /\ pc[o] # "publish" /\ pc[o] # "hash" =>
                                   \A c \in read[o][p] : Tied(c, o, p)
                              /\ Same(o, p)
  <1>1. \A o \in Builders, p \in Probes : con[o][p] # NoFile =>
          con[o][p] \in Files /\ content'[con[o][p]] = content[con[o][p]]
    <2> SUFFICES ASSUME NEW o \in Builders, NEW p \in Probes, con[o][p] # NoFile
                 PROVE  con[o][p] \in Files /\ content'[con[o][p]] = content[con[o][p]]
      OBVIOUS
    <2>1. con[o][p] \in Files /\ con[o][p] \in Readable
      BY MadeFiles DEF TypeOK, Readable
    <2> QED BY <2>1, ReadableStays
  <1>2. \A p \in Probes : dest[p] # NoFile =>
          /\ dest[p] \in Files /\ content'[dest[p]] = content[dest[p]]
          /\ OneExport(content[dest[p]])
    <2> SUFFICES ASSUME NEW p \in Probes, dest[p] # NoFile
                 PROVE  /\ dest[p] \in Files /\ content'[dest[p]] = content[dest[p]]
                        /\ OneExport(content[dest[p]])
      OBVIOUS
    <2>1. dest[p] \in Files /\ dest[p] \in Readable
      BY MadeFiles DEF TypeOK, Readable
    <2> QED BY <2>1, ReadableStays DEF Contents
  <1>3. SUFFICES ASSUME NEW o \in Builders, NEW p \in Probes
                 PROVE  /\ pc'[o] # "publish" /\ pc'[o] # "hash" => \A c \in read'[o][p] :
                             con'[o][p] # NoFile /\ c = content'[con'[o][p]]
                        /\ \A c, d \in read'[o][p] : c = d /\ OneExport(c)
    BY DEF Reads, OneExport
  <1>4. ReadsOf(o, p)
    BY DEF Reads
  <1>5. CASE read'[o][p] = read[o][p] /\ con'[o][p] = con[o][p]
             /\ (pc'[o] \in {"publish", "hash"} \/ pc[o] \notin {"publish", "hash"})
    BY <1>1, <1>4, <1>5
  <1>6. CASE read'[o][p] = {}
    BY <1>6
  <1>7. CASE o = b /\ OpenDatabase(b)
    <2>1. Probe(b) \in todo[b] /\ Probe(b) \in databases[b] /\ Probe(b) \in Probes
      BY <1>7, FilesAreFiles, ProbeIsProbe DEF OpenDatabase
    <2>2. read[b][Probe(b)] = {} /\ dest[Probe(b)] # NoFile
      BY <1>7, <2>1 DEF Places, PlaceOf, OpenDatabase
    <2>3. CASE p = Probe(b)
      <3>1. read'[b][p] = {content[dest[p]]} /\ con'[b][p] = dest[p]
        BY <1>7, <2>2, <2>3 DEF OpenDatabase, TypeOK
      <3> QED BY <1>2, <1>7, <2>2, <2>3, <3>1
    <2>4. CASE p # Probe(b)
      <3>1. read'[b][p] = read[b][p] /\ con'[b][p] = con[b][p] /\ pc' = pc
        BY <1>7, <2>1, <2>4 DEF OpenDatabase, TypeOK
      <3> QED BY <1>5, <1>7, <3>1 DEF OpenDatabase
    <2> QED BY <2>3, <2>4
  <1>8. CASE o = b /\ Query(b)
    <2>1. read'[b][p] = IF p \in databases[b] THEN read[b][p] \cup {content[con[b][p]]}
                                              ELSE read[b][p]
      BY <1>8 DEF Query, TypeOK
    <2>2. pc[b] = "query" /\ pc'[b] = "hash" /\ (p \in databases[b] => con[b][p] # NoFile)
      BY <1>8 DEF Query, Places, PlaceOf, TypeOK
    <2>3. \A c \in read[b][p] : Tied(c, b, p)
      BY <1>4, <1>8, <2>2
    <2>4. con[b][p] # NoFile => OneExport(content[con[b][p]])
      BY <1>1 DEF Contents, Readable
    <2> QED BY <1>4, <1>8, <2>1, <2>2, <2>3, <2>4
  <1>9. CASE o = b /\ ~OpenDatabase(b) /\ ~Query(b)
    <2>1. CASE Quits(b)
      <3>1. read'[b][p] = {}
        BY <2>1 DEF Quits, Forget, Nothing, TypeOK
      <3> QED BY <1>6, <1>9, <3>1
    <2>2. CASE Analysed(b)
      <3>1. read' = read /\ pc'[b] = "publish"
        BY <2>2 DEF Analysed, TypeOK
      <3> QED BY <1>4, <1>9, <3>1
    <2>3. CASE HashFile(b)
      BY <1>5, <1>9, <2>3 DEF HashFile
    <2>4. CASE ~Quits(b) /\ ~Analysed(b) /\ ~HashFile(b)
      <3>1. read' = read /\ con' = con
        BY <1>9, <2>4, Kinds DEF Skips, StartBuild, StartNoFetch, Request,
           CopyChunk,
           CopyEnds, Replace, FetchDone, AllOpen, analysis
      <3>2. pc[b] \notin {"publish", "hash"}
        BY <1>9, <2>4, Kinds DEF Skips, StartBuild, StartNoFetch, Request,
           CopyChunk,
           CopyEnds, Replace, FetchDone, AllOpen
      <3> QED BY <1>5, <1>9, <3>1, <3>2
    <2> QED BY <2>1, <2>2, <2>3, <2>4
  <1>10. CASE o # b
    <2>1. pc'[o] = pc[o] /\ con'[o] = con[o] /\ read'[o] = read[o]
      BY <1>10, OthersStay
    <2> QED BY <1>5, <1>6, <1>4, <1>1, <2>1
  <1> QED BY <1>7, <1>8, <1>9, <1>10

-----------------------------------------------------------------------------
(* How old the data of a report can be.                                    *)

\* What a step does to the set a builder has fetched and to its beginning.
LEMMA FetchedSoFar ==
  ASSUME TypeOK, TypeOK', Places, Places', NEW b \in Builders, Step(b) \/ Die(b),
         NEW o \in Builders
  PROVE  \/ /\ databases'[o] = {}
            /\ \A p \in Probes : con'[o][p] = NoFile /\ read'[o][p] = {}
         \/ since'[o] = since[o] /\ databases'[o] = databases[o]
         \/ since'[o] = since[o] /\ o = b /\ Replace(b)
         \/ since'[o] = 0 /\ since[o] = 0 /\ o = b /\ StartNoFetch(b)
  <1>1. CASE o # b
    BY <1>1, OthersStay
  <1>2. CASE o = b /\ (Quits(b) \/ StartBuild(b))
    <2>1. pc'[b] \in {"idle", "request"}
      BY <1>2 DEF Quits, StartBuild, TypeOK
    <2>2. databases'[b] = {}
      BY <1>2 DEF Quits, Forget, StartBuild, Places, PlaceOf, TypeOK
    <2>3. \A p \in Probes : con'[b][p] = NoFile /\ read'[b][p] = {}
      BY <2>1 DEF Places, PlaceOf
    <2> QED BY <1>2, <2>2, <2>3
  <1>3. CASE o = b /\ StartNoFetch(b)
    BY <1>3 DEF StartNoFetch, Places, PlaceOf
  <1>4. CASE o = b /\ Replace(b)
    BY <1>4 DEF Replace
  <1>5. CASE o = b /\ FetchDone(b)
    BY <1>5 DEF FetchDone, Results, TypeOK
  <1>6. CASE /\ o = b /\ ~Quits(b) /\ ~StartBuild(b) /\ ~StartNoFetch(b)
             /\ ~Replace(b) /\ ~FetchDone(b)
    <2>1. since' = since /\ databases' = databases
      BY <1>6, Kinds DEF Skips, Request, CopyChunk, CopyEnds, OpenDatabase,
         AllOpen,
         Query, HashFile, Analysed
    <2> QED BY <2>1
  <1> QED BY <1>1, <1>2, <1>3, <1>4, <1>5, <1>6

\* The database of a fetched probe stays newer than the build's beginning.
LEMMA StepFetchedNewer ==
  ASSUME TypeOK, TypeOK', Places, Places', Apart, Contents, Newer,
         NEW b \in Builders, Step(b) \/ Die(b), ~clash',
         NEW o \in Builders, NEW p \in Probes, p \in databases'[o]
  PROVE  After(content'[dest'[p]], since'[o])
  <1>1. CASE Replace(b) /\ p = Probe(b)
    <2>1. /\ Downloading(b) /\ dest'[p] = fh[b] /\ content' = content /\ since' = since
          /\ databases'[b] = databases[b] \cup {p}
      BY <1>1, ReplaceMoves DEF TypeOK
    <2>2. /\ Received(content[fh[b]], pos[b], ver[b])
          /\ ver[b] \in Nat \ {0} /\ ver[b] > since[b]
      BY <2>1 DEF Contents, Received, Places, PlaceOf, TypeOK
    <2>3. ver[b] > since[o]
      <3>1. CASE o = b
        BY <2>2, <3>1
      <3>2. CASE o # b
        BY <1>1, <2>1, <3>2, OthersStay DEF Newer
      <3> QED BY <3>1, <3>2
    <2> QED BY <2>1, <2>2, <2>3, ReceivedIsOneExport
  <1>2. CASE ~(Replace(b) /\ p = Probe(b))
    <2>1. dest'[p] = dest[p]
      <3>1. CASE Replace(b)
        BY <1>2, <3>1, ReplaceMoves DEF TypeOK
      <3>2. CASE Request(b)
        BY <3>2 DEF Request
      <3>3. CASE ~Replace(b) /\ ~Request(b)
        BY <3>3, OtherStepsShrink DEF Shrinks
      <3> QED BY <3>1, <3>2, <3>3
    <2>2. dest'[p] # NoFile
      BY DEF Places, PlaceOf
    <2>3. dest[p] \in Files /\ dest[p] \in Readable
      BY <2>1, <2>2, MadeFiles DEF TypeOK, Readable
    <2>4. content'[dest'[p]] = content[dest[p]]
      BY <2>1, <2>3, ReadableStays
    <2>5. After(content[dest[p]], 0)
      <3>1. content[dest[p]] \in Content /\ \A j \in Chunks : content[dest[p]][j] # Hole
        BY <2>3 DEF Contents, TypeOK
      <3>2. \A j \in Chunks : content[dest[p]][j] \in Absent .. MaxExports
        BY <3>1 DEF Content
      <3> QED BY <3>1, <3>2, FetchAssumption DEF After, Hole, Absent
    <2>6. CASE since'[o] = since[o] /\ p \in databases[o]
      BY <2>4, <2>6 DEF Newer
    <2>7. CASE since'[o] = 0
      BY <2>4, <2>5, <2>7
    <2>8. CASE o = b /\ Replace(b)
      BY <1>2, <2>6, <2>8, ReplaceMoves
    <2> QED BY <2>6, <2>7, <2>8, FetchedSoFar
  <1> QED BY <1>1, <1>2

\* What is behind a connection and what was read were newer when taken.
LEMMA StepReadNewer ==
  ASSUME TypeOK, TypeOK', Places, Places', Apart, Contents, Newer,
         NEW b \in Builders, Step(b) \/ Die(b), ~clash',
         NEW o \in Builders, NEW p \in Probes
  PROVE  /\ con'[o][p] # NoFile => After(content'[con'[o][p]], since'[o])
         /\ \A c \in read'[o][p] : After(c, since'[o])
  <1>1. con[o][p] # NoFile => content'[con[o][p]] = content[con[o][p]]
    <2> SUFFICES ASSUME con[o][p] # NoFile PROVE content'[con[o][p]] = content[con[o][p]]
      OBVIOUS
    <2>1. con[o][p] \in Files /\ con[o][p] \in Readable
      BY MadeFiles DEF TypeOK, Readable
    <2> QED BY <2>1, ReadableStays
  <1>2. \/ con'[o][p] = NoFile /\ read'[o][p] = {}
        \/ since'[o] = since[o]
    <2>1. CASE o = b /\ StartNoFetch(b)
      BY <2>1 DEF StartNoFetch
    <2> QED BY <2>1, FetchedSoFar
  <1>3. CASE con'[o][p] = NoFile /\ read'[o][p] = {}
    BY <1>3
  <1>4. CASE since'[o] = since[o]
    <2>1. CASE con'[o][p] \in {NoFile, con[o][p]} /\ read'[o][p] = read[o][p]
      BY <1>1, <1>4, <2>1 DEF Newer
    <2>2. CASE o = b /\ OpenDatabase(b)
      <3>1. Probe(b) \in databases[b] /\ Probe(b) \in Probes
        BY <2>2, FilesAreFiles, ProbeIsProbe DEF OpenDatabase
      <3>2. CASE p = Probe(b)
        <4>1. /\ con'[b][p] = dest[p] /\ content' = content
              /\ read'[b][p] = read[b][p] \cup {content[dest[p]]}
          BY <2>2, <3>2 DEF OpenDatabase, TypeOK, directory
        <4>2. After(content[dest[p]], since[b])
          BY <3>1, <3>2 DEF Newer
        <4> QED BY <1>4, <2>2, <4>1, <4>2 DEF Newer
      <3>3. CASE p # Probe(b)
        BY <2>1, <2>2, <3>1, <3>3 DEF OpenDatabase, TypeOK
      <3> QED BY <3>2, <3>3
    <2>3. CASE o = b /\ Query(b)
      <3>1. /\ con' = con /\ content' = content
            /\ read'[b][p] = IF p \in databases[b] THEN read[b][p] \cup {content[con[b][p]]}
                                                   ELSE read[b][p]
        BY <2>3 DEF Query, TypeOK, directory
      <3>2. p \in databases[b] => con[b][p] # NoFile
        BY <2>3 DEF Query, Places, PlaceOf
      <3> QED BY <1>4, <2>3, <3>1, <3>2 DEF Newer
    <2>4. CASE o = b /\ ~OpenDatabase(b) /\ ~Query(b)
      <3>1. CASE Quits(b)
        BY <2>4, <3>1 DEF Quits, Forget, Nothing, Closed, TypeOK
      <3>2. CASE Analysed(b)
        BY <2>1, <2>4, <3>2 DEF Analysed, Closed, TypeOK
      <3>3. CASE ~Quits(b) /\ ~Analysed(b)
        <4>1. read' = read /\ con' = con
          BY <2>4, <3>3, Kinds DEF Skips, StartBuild, StartNoFetch, Request,
             CopyChunk,
             CopyEnds, Replace, FetchDone, AllOpen, HashFile, analysis
        <4> QED BY <2>1, <4>1
      <3> QED BY <3>1, <3>2, <3>3
    <2>5. CASE o # b
      BY <2>1, <2>5, OthersStay
    <2> QED BY <2>2, <2>3, <2>4, <2>5
  <1> QED BY <1>2, <1>3, <1>4

\* A download of a probe already fetched was requested after the beginning.
LEMMA StepRequestedAfter ==
  ASSUME TypeOK, TypeOK', Places, Places', Apart, Newer,
         NEW b \in Builders, Step(b) \/ Die(b), ~clash',
         NEW o \in Builders, NEW d \in Builders,
         Downloading(d)', Probe(d)' \in databases'[o]
  PROVE  ver'[d] > since'[o]
  <1>1. CASE Request(b) /\ d = b
    <2>1. ver'[d] = exported + 1 /\ since' = since
      BY <1>1 DEF Request, TypeOK
    <2>2. since[o] \in 0 .. exported /\ exported \in Nat
      BY FetchAssumption DEF TypeOK
    <2> QED BY <2>1, <2>2
  <1>2. CASE ~(Request(b) /\ d = b)
    <2>1. /\ Downloading(d) /\ ver'[d] = ver[d] /\ Probe(d)' = Probe(d)
      <3>1. CASE d # b
        BY <3>1, OthersStay DEF Downloading, Probe
      <3>2. CASE d = b /\ ~Request(b)
        <4>1. ~Replace(b)
          BY <3>2, ReplaceMoves
        <4> QED BY <3>2, <4>1, OtherStepsShrink DEF Shrinks
      <3> QED BY <1>2, <3>1, <3>2
    <2>2. ver[d] > since[d] /\ since[d] \in Nat /\ ver[d] \in Nat
      BY <2>1 DEF Places, PlaceOf, TypeOK
    <2>3. CASE since'[o] = since[o] /\ databases'[o] = databases[o]
      <3>1. todo[d] # {} /\ Probe(d) \in Probes
        BY <2>1, FilesAreFiles, ProbeIsProbe
      <3> QED BY <2>1, <2>3, <3>1 DEF Newer
    <2>4. CASE since'[o] = since[o] /\ o = b /\ Replace(b)
      <3>1. /\ Downloading(b) /\ ~Downloading(b)'
            /\ databases'[b] = databases[b] \cup {Probe(b)}
        BY <2>4, ReplaceMoves
      <3>2. d # b /\ Probe(d) # Probe(b)
        BY <2>1, <3>1 DEF Apart
      <3>3. todo[d] # {} /\ Probe(d) \in Probes
        BY <2>1, FilesAreFiles, ProbeIsProbe
      <3>4. Probe(d) \in databases[o]
        BY <2>1, <2>4, <3>1, <3>2
      <3>5. ver[d] > since[o]
        BY <2>1, <3>3, <3>4 DEF Newer
      <3> QED BY <2>1, <2>4, <3>5
    <2>5. CASE since'[o] = 0
      BY <2>1, <2>2, <2>5
    <2> QED BY <2>3, <2>4, <2>5, FetchedSoFar
  <1> QED BY <1>1, <1>2

LEMMA StepNewer ==
  ASSUME TypeOK, TypeOK', Places, Places', Apart, Contents, Newer,
         NEW b \in Builders, Step(b) \/ Die(b), ~clash'
  PROVE  Newer'
  <1> SUFFICES ASSUME NEW o \in Builders, NEW p \in Probes
               PROVE  /\ p \in databases'[o] => After(content'[dest'[p]], since'[o])
                      /\ con'[o][p] # NoFile => After(content'[con'[o][p]], since'[o])
                      /\ \A c \in read'[o][p] : After(c, since'[o])
                      /\ \A d \in Builders :
                           Downloading(d)' /\ Probe(d)' \in databases'[o] =>
                           ver'[d] > since'[o]
    BY DEF Newer, After
  <1> QED BY StepFetchedNewer, StepReadNewer, StepRequestedAfter

-----------------------------------------------------------------------------
(* The theorems.                                                           *)

LEMMA InitFetchInv == Init => FetchInv
  <1> SUFFICES ASSUME Init PROVE FetchInv
    OBVIOUS
  <1>1. TypeOK
    <2>1. 0 \in 0 .. Size /\ 0 \in 0 .. exported /\ exported \in 0 .. MaxExports
      BY FetchAssumption DEF Init
    <2>2. content \in [Files -> Content]
      BY FetchAssumption DEF Init, Content, Absent
    <2>3. Closed \in [Probes -> 0 .. exported] /\ Nothing \in [Probes -> SUBSET Content]
      BY <2>1 DEF Closed, Nothing, NoFile
    <2> QED BY <2>1, <2>2, <2>3 DEF Init, TypeOK, NoFile
  <1>2. Places
    BY DEF Init, Places, PlaceOf, Downloading, Closed, Nothing
  <1>3. \A b \in Builders : ~Downloading(b)
    BY DEF Init, Downloading
  <1>4. Apart
    BY <1>3 DEF Init, Apart, Closed
  <1>5. Contents
    <2>1. \A f \in Files : f # NoFile
      BY FetchAssumption DEF Files, NoFile
    <2> QED BY <1>3, <2>1 DEF Init, Contents, Readable, Closed
  <1>6. Reads
    BY DEF Init, Reads, Nothing
  <1>7. Newer
    BY <1>3 DEF Init, Newer, Nothing, Closed
  <1> QED BY <1>1, <1>2, <1>4, <1>5, <1>6, <1>7 DEF FetchInv

LEMMA NextFetchInv == FetchInv /\ [Next]_vars => FetchInv'
  <1> SUFFICES ASSUME FetchInv, [Next]_vars PROVE FetchInv'
    OBVIOUS
  <1>1. ASSUME NEW b \in Builders, Step(b) \/ Die(b) PROVE FetchInv'
    <2>1. TypeOK /\ Places
      BY DEF FetchInv
    <2>2. TypeOK'
      BY <1>1, <2>1, StepTyped
    <2>3. Places'
      BY <1>1, <2>1, <2>2, StepPlaces
    <2>4. CASE clash'
      BY <2>2, <2>3, <2>4 DEF FetchInv
    <2>5. CASE ~clash'
      <3>1. ~clash
        BY <1>1, <2>1, <2>5, Kinds DEF Quits, Forget, Skips, StartBuild,
           StartNoFetch,
           Request, CopyChunk, CopyEnds, Replace, FetchDone, OpenDatabase, AllOpen,
           Query, HashFile, Analysed
      <3>2. Apart /\ Contents /\ Reads /\ Newer
        BY <3>1 DEF FetchInv
      <3>3. Apart'
        BY <1>1, <2>1, <2>2, <2>3, <2>5, <3>2, StepApart
      <3>4. Contents'
        BY <1>1, <2>1, <2>2, <2>3, <2>5, <3>2, StepContents
      <3>5. Reads'
        BY <1>1, <2>1, <2>2, <2>3, <2>5, <3>2, StepReads
      <3>6. Newer'
        BY <1>1, <2>1, <2>2, <2>3, <2>5, <3>2, StepNewer
      <3> QED BY <2>2, <2>3, <3>3, <3>4, <3>5, <3>6 DEF FetchInv
    <2> QED BY <2>4, <2>5
  <1>2. CASE UNCHANGED vars
    <2>1. /\ exported' = exported /\ dest' = dest /\ part' = part /\ content' = content
          /\ pc' = pc /\ fh' = fh /\ pos' = pos /\ ver' = ver /\ todo' = todo
          /\ databases' = databases /\ since' = since /\ con' = con /\ read' = read
          /\ hashed' = hashed /\ clash' = clash
      BY <1>2 DEF vars, directory, download, analysis
    <2>2. TypeOK => TypeOK'
      BY <2>1 DEF TypeOK
    <2>3. Places => Places'
      BY <2>1 DEF Places, PlaceOf, Downloading
    <2>4. Apart => Apart'
      BY <2>1 DEF Apart, Readable, Downloading, Probe
    <2>5. Contents => Contents'
      BY <2>1 DEF Contents, Readable, Downloading
    <2>6. Reads => Reads'
      BY <2>1 DEF Reads
    <2>7. Newer => Newer'
      BY <2>1 DEF Newer, Downloading, Probe
    <2> QED BY <2>1, <2>2, <2>3, <2>4, <2>5, <2>6, <2>7 DEF FetchInv
  <1> QED BY <1>1, <1>2 DEF Next

\* FetchInv, the inductive strengthening, is an invariant.
THEOREM FetchInvariant == Spec => []FetchInv
  BY InitFetchInv, NextFetchInv, PTL DEF Spec

\* The files, connections and places of every build stay within their types.
THEOREM TypeCorrect == Spec => []TypeOK
  <1>1. FetchInv => TypeOK
    BY DEF FetchInv
  <1> QED BY <1>1, FetchInvariant, PTL

\* As long as no two downloads of one probe overlap, a build reads one export
\* of each probe, through truncated downloads, crashes and other builds.
THEOREM ReadsOne == Spec => []ReadsOneSnapshot
  <1>1. FetchInv => ReadsOneSnapshot
    BY DEF FetchInv, Reads, ReadsOneSnapshot
  <1> QED BY <1>1, FetchInvariant, PTL

\* As long as no two downloads of one probe overlap, a report built with a
\* fetch holds the link under test and nothing older than the build.
THEOREM Fresh == Spec => []ReportIsFresh
  <1>1. FetchInv => ReportIsFresh
    BY DEF FetchInv, Places, PlaceOf, Newer, After, ReportIsFresh
  <1> QED BY <1>1, FetchInvariant, PTL
=============================================================================
