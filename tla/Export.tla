------------------------------- MODULE Export -------------------------------
(***************************************************************************)
(* The probe's HTTP exports: the handler thread of a connection takes a    *)
(* copy of the database, or a day's archive file, announces its size and   *)
(* streams it, while the probe goes on recording.  A client has its        *)
(* connection closed after the reply, as urllib does for fetch_probe, or   *)
(* keeps it for its next request, as HTTP/1.1 lets it.                     *)
(*                                                                         *)
(* What is sent is counted in pages and lines, and a client has it as soon *)
(* as it is written.  The text of an error reply is shorter than a page of *)
(* a database, so that it never makes up for a page that is due.           *)
(***************************************************************************)
EXTENDS Integers, Sequences

CONSTANTS
  Clients,   \* each with a connection at a time and its handler thread
  Closing,   \* those that ask for their connection to be closed
  PastLines, \* lines in the archive of a day that is over
  MaxRecorded \* bound: rows recorded today

ASSUME ExportAssumption ==
  Closing \subseteq Clients /\ PastLines \in Nat /\ MaxRecorded \in Nat

VARIABLES
  rows,    \* rows in the database
  lines,   \* lines in today's archive file
  tmp,     \* by temporary directory: the rows in the copy it holds, or None
  stage,   \* where each handler is
  route,   \* what it is asked for
  fh,      \* the copy it has open: its rows, or None
  sent,    \* pages or lines it has read of its file
  open,    \* connections neither side has closed
  client,  \* where each client is
  ask,     \* what it asked for last
  due,     \* the rows or lines there were when it did
  want,    \* the length it was told
  got,     \* what it has of the body
  extra    \* what lies in its connection beyond the replies it asked for

recording == <<rows, lines>>
serving == <<tmp, stage, route, fh, sent>>
asking == <<client, ask, due, want, got, extra>>
exportVars == <<recording, serving, open, asking>>

None == -1

\* /export/sqlite, /export/ndjson for today and for an earlier day, and the
\* latter with HEAD.
Routes == {"sqlite", "today", "past", "head"}

\* A copy of v rows, and the first n lines of an archive file.
Copy(v) == [i \in 1 .. v + 1 |-> <<v, i>>]
Archive(n) == [i \in 1 .. n |-> i]

ExportInit ==
  /\ rows = 0 /\ lines = 0
  /\ tmp = [c \in Clients |-> None]
  /\ stage = [c \in Clients |-> "idle"] /\ route = [c \in Clients |-> "past"]
  /\ fh = [c \in Clients |-> None] /\ sent = [c \in Clients |-> 0]
  /\ open = {}
  /\ client = [c \in Clients |-> "idle"]
  /\ ask = [c \in Clients |-> "past"] /\ due = [c \in Clients |-> 0]
  /\ want = [c \in Clients |-> 0] /\ got = [c \in Clients |-> <<>>]
  /\ extra = [c \in Clients |-> "nothing"]

-----------------------------------------------------------------------------
(* The probe goes on recording: Store.insert commits a row, then appends   *)
(* its line.                                                               *)

Commit ==
  /\ rows < MaxRecorded
  /\ rows' = rows + 1
  /\ UNCHANGED <<lines, serving, open, asking>>

AppendLine ==
  /\ lines < rows
  /\ lines' = lines + 1
  /\ UNCHANGED <<rows, serving, open, asking>>

Lines(r) == IF r = "today" THEN lines ELSE PastLines

-----------------------------------------------------------------------------
(* The clients.                                                            *)

\* A request, on the connection there is or on a new one.
Ask(c, r) ==
  /\ client[c] = "idle" /\ extra[c] = "nothing"
  /\ c \in open \/ stage[c] = "idle"
  /\ open' = open \cup {c}
  /\ client' = [client EXCEPT ![c] = "asked"] /\ ask' = [ask EXCEPT ![c] = r]
  /\ due' = [due EXCEPT ![c] = IF r = "sqlite" THEN rows ELSE Lines(r)]
  /\ UNCHANGED <<recording, serving, want, got, extra>>

\* The client has a status line, headers and the length they announce.
ReceivesReply(c, length) ==
  /\ client' = [client EXCEPT ![c] =
                  IF ask[c] = "head" THEN "done" ELSE "reads"]
  /\ want' = [want EXCEPT ![c] = length]
  /\ UNCHANGED <<open, ask, due, got, extra>>

\* A page or line is counted as the body while that is short, and is left in
\* the connection from then on.
ReceivesUnit(c, unit) ==
  /\ IF client[c] = "reads"
     THEN /\ got' = [got EXCEPT ![c] = Append(@, unit)]
          /\ client' = [client EXCEPT ![c] =
                          IF Len(got[c]) + 1 = want[c] THEN "done" ELSE "reads"]
          /\ UNCHANGED extra
     ELSE /\ extra' = [extra EXCEPT ![c] = route[c]]
          /\ UNCHANGED <<client, got>>
  /\ UNCHANGED <<open, ask, due, want>>

\* An error is what the client reads where it waits for a reply; in a body it
\* is a part that leaves it short.
ReceivesError(c) ==
  /\ client' = [client EXCEPT ![c] = IF @ = "waits" THEN "refused" ELSE "torn"]
  /\ UNCHANGED <<open, ask, due, want, got, extra>>

\* The client is through with its request; its end is closed or not.
Ends(c, closes) ==
  /\ client' = [client EXCEPT ![c] = "idle"]
  /\ ask' = [ask EXCEPT ![c] = "past"] /\ due' = [due EXCEPT ![c] = 0]
  /\ want' = [want EXCEPT ![c] = 0] /\ got' = [got EXCEPT ![c] = <<>>]
  /\ open' = IF closes THEN open \ {c} ELSE open
  /\ extra' = IF closes THEN [extra EXCEPT ![c] = "nothing"] ELSE extra
  /\ UNCHANGED <<recording, serving>>

Waiting == {"asked", "waits", "reads", "torn"}

\* The reply is there, or the connection ends before it is.
Reading(c) ==
  \/ client[c] \in {"done", "refused"} /\ Ends(c, c \in Closing)
  \/ client[c] \in Waiting /\ c \notin open /\ Ends(c, TRUE)

\* The client waits no longer, or drops a connection it has no use for.
Leaves(c) == c \in open /\ Ends(c, TRUE)

-----------------------------------------------------------------------------
(* The handler of a connection: do_GET, _export, _stream_file.             *)

Goes(c, to) == stage' = [stage EXCEPT ![c] = to]

\* It takes the next request of its connection.
Accept(c) ==
  /\ stage[c] = "idle" /\ client[c] = "asked" /\ c \in open
  /\ route' = [route EXCEPT ![c] = ask[c]]
  /\ client' = [client EXCEPT ![c] = "waits"]
  /\ Goes(c, IF ask[c] = "sqlite" THEN "snapshot" ELSE "stat")
  /\ UNCHANGED <<recording, tmp, fh, sent, open, ask, due, want, got, extra>>

\* Variant: the copies of all requests have one place.
OnePlace(c) == CHOOSE d \in Clients : TRUE

\* mkdtemp: a directory of the request's own.
Place(c) == c

\* Variant: with a row whose commit is still to come.
WithPending == rows + 1

Copied == rows

\* Store.snapshot, the copying itself under the store's lock.
TakeCopy(c) ==
  /\ stage[c] = "snapshot"
  /\ tmp' = [tmp EXCEPT ![Place(c)] = Copied]
  /\ Goes(c, "stat")
  /\ UNCHANGED <<recording, route, fh, sent, open, asking>>

\* There is a copy, or an archive of that day.
Found(c) ==
  IF route[c] = "sqlite" THEN tmp[Place(c)] # None ELSE Lines(route[c]) > 0

Size(c) == IF route[c] = "sqlite" THEN tmp[Place(c)] + 1 ELSE Lines(route[c])

\* Variant: a body follows the headers whatever the request.
NeverBodyless(c) == FALSE

Bodyless(c) == route[c] = "head"

\* No archive for that day: a reply of its own.
Refuse(c) ==
  /\ stage[c] = "stat" /\ route[c] # "sqlite" /\ ~Found(c) /\ c \in open
  /\ ReceivesError(c)
  /\ Goes(c, "finally")
  /\ UNCHANGED <<recording, tmp, route, fh, sent>>

SendHeaders(c) ==
  /\ stage[c] = "stat" /\ Found(c) /\ c \in open
  /\ ReceivesReply(c, Size(c))
  /\ Goes(c, IF Bodyless(c) THEN "finally" ELSE "open")
  /\ UNCHANGED <<recording, tmp, route, fh, sent>>

OpenFile(c) ==
  /\ stage[c] = "open" /\ Found(c)
  /\ fh' = [fh EXCEPT ![c] = IF route[c] = "sqlite" THEN tmp[Place(c)] ELSE None]
  /\ Goes(c, "copy")
  /\ UNCHANGED <<recording, tmp, route, sent, open, asking>>

\* What there is to read in the open file by now.
File(c) == IF route[c] = "sqlite" THEN Copy(fh[c]) ELSE Archive(Lines(route[c]))

Rest(c) == sent[c] < Len(File(c))

CopyChunk(c) ==
  /\ stage[c] = "copy" /\ Rest(c) /\ c \in open
  /\ ReceivesUnit(c, File(c)[sent[c] + 1])
  /\ sent' = [sent EXCEPT ![c] = @ + 1]
  /\ UNCHANGED <<recording, tmp, stage, route, fh>>

\* snapshot, stat, open, a read, or a write to a client that has left: _export
\* catches the exception for a copy and answers with an error; for an archive
\* file it ends the connection.
Fails(c) ==
  /\ stage[c] \in {"snapshot", "stat", "open", "copy"} /\ (stage[c] = "copy" => Rest(c))
  /\ Goes(c, IF route[c] = "sqlite" THEN "error" ELSE "close")
  /\ UNCHANGED <<recording, tmp, route, fh, sent, open, asking>>

SendError(c) ==
  /\ stage[c] = "error"
  /\ IF c \in open THEN ReceivesError(c) ELSE UNCHANGED <<open, asking>>
  /\ Goes(c, "finally")
  /\ UNCHANGED <<recording, tmp, route, fh, sent>>

\* Variant: the connection is kept though the client asked to have it closed.
AlwaysKept(c) == "idle"

After(c) == IF c \in Closing \/ c \notin open THEN "close" ELSE "idle"

\* Variant: the directory is removed after a reply that went well.
SweptIfSent(c) == [tmp EXCEPT ![Place(c)] = IF stage[c] = "copy" THEN None ELSE @]

\* rmtree.
Swept(c) == [tmp EXCEPT ![Place(c)] = None]

\* The directory is removed; the connection is closed or waits for a request.
Finally(c) ==
  /\ stage[c] \in {"copy", "finally"} /\ (stage[c] = "copy" => ~Rest(c))
  /\ tmp' = IF route[c] = "sqlite" THEN Swept(c) ELSE tmp
  /\ fh' = [fh EXCEPT ![c] = None]
  /\ sent' = [sent EXCEPT ![c] = 0] /\ route' = [route EXCEPT ![c] = "past"]
  /\ Goes(c, After(c))
  /\ UNCHANGED <<recording, open, asking>>

CloseConnection(c) ==
  /\ stage[c] = "close"
  /\ open' = open \ {c} /\ extra' = [extra EXCEPT ![c] = "nothing"]
  /\ sent' = [sent EXCEPT ![c] = 0] /\ route' = [route EXCEPT ![c] = "past"]
  /\ Goes(c, "idle")
  /\ UNCHANGED <<recording, tmp, fh, client, ask, due, want, got>>

Handler(c) ==
  \/ Accept(c) \/ TakeCopy(c) \/ Refuse(c) \/ SendHeaders(c) \/ OpenFile(c)
  \/ CopyChunk(c) \/ Fails(c) \/ SendError(c) \/ Finally(c) \/ CloseConnection(c)

\* The process dies, and its handlers and connections with it.
ServerDies ==
  /\ stage' = [c \in Clients |-> "idle"] /\ fh' = [c \in Clients |-> None]
  /\ tmp' = [c \in Clients |-> None] /\ sent' = [c \in Clients |-> 0]
  /\ route' = [c \in Clients |-> "past"]
  /\ open' = {} /\ extra' = [c \in Clients |-> "nothing"]
  /\ UNCHANGED <<recording, client, ask, due, want, got>>

-----------------------------------------------------------------------------
ExportNext ==
  \/ Commit \/ AppendLine \/ ServerDies
  \/ \E c \in Clients :
       Handler(c) \/ Reading(c) \/ Leaves(c) \/ \E r \in Routes : Ask(c, r)

ExportSpec ==
  /\ ExportInit /\ [][ExportNext]_exportVars
  /\ \A c \in Clients : WF_exportVars(Handler(c)) /\ WF_exportVars(Reading(c))

-----------------------------------------------------------------------------
(* Properties.                                                             *)

\* Types; a copy holds rows that were committed.
ExportTypeOK ==
  /\ rows \in 0 .. MaxRecorded /\ lines \in 0 .. rows
  /\ tmp \in [Clients -> None .. rows] /\ fh \in [Clients -> None .. rows]
  /\ stage \in [Clients -> {"idle", "snapshot", "stat", "open", "copy", "error",
                          "finally", "close"}]
  /\ route \in [Clients -> Routes] /\ ask \in [Clients -> Routes]
  /\ open \subseteq Clients
  /\ client \in [Clients -> {"idle", "done", "refused"} \cup Waiting]
  /\ extra \in [Clients -> Routes \cup {"nothing"}]
  /\ sent \in [Clients -> Nat] /\ due \in [Clients -> Nat] /\ want \in [Clients -> Nat]

\* A request leaves no copy of the database behind, however it ended, as long as
\* the process lives.  (_export's finally.)
CopiesAreSwept ==
  \A c \in Clients : tmp[c] # None => stage[c] \in {"stat", "open", "copy", "error", "finally"}

\* A client that has a body of the announced length has the export it asked for,
\* and nothing recorded before it asked is missing: one whole copy of the
\* database, never parts of two requests' copies or the text of an error, or the
\* first lines of the archive.  (_export, _stream_file; an error after the
\* headers goes into the body.)
FullBodyIsTheExport ==
  \A c \in Clients : client[c] = "done" /\ ask[c] # "head" =>
    IF ask[c] = "sqlite" THEN \E v \in due[c] .. rows : got[c] = Copy(v)
    ELSE got[c] = Archive(want[c]) /\ want[c] >= due[c]

\* What a reply leaves in a connection beyond its announced length, to be taken
\* for the next reply, is never more than lines appended to today's archive since
\* its size was taken.  (_stream_file: st_size, then a copy up to the end.)
RepliesStayApart == \A c \in Clients : extra[c] \in {"nothing", "today"}

\* A client that asks for its connection to be closed, as fetch_probe does, comes
\* to the end of its request: with the reply, with a short body or with none,
\* whatever fails in the handler.  (_export's except and finally.)
RequestsEnd ==
  \A c \in Closing : client[c] \in Waiting ~> client[c] \notin Waiting
=============================================================================
