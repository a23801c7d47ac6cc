---------------------------- MODULE EgressReport ----------------------------
(***************************************************************************)
(* The report's side of the egress check: egress_summary turns the rows    *)
(* the probe recorded into counts and leak windows.  A row is [kind, ts,   *)
(* family, address, ok], with ok "yes", "no" or "unknown"; ts is its place *)
(* in time.  What else the probe recorded is in other tables.              *)
(***************************************************************************)
EXTENDS Integers, Sequences, SequencesExt

\* A row of the egress table.
IsCheck(e) == e.kind = "egress"

\* The loop's state: the rows of each kind, the windows that are complete, and
\* the open one, if there is one.
Summary(counted, windows, current) ==
  [counted |-> counted, windows |-> windows, current |-> current]

Nothing == Summary([ok \in {"yes", "no", "unknown"} |-> 0], <<>>, <<>>)

\* The window a leaked row opens, extends; the one a confirmed row ends.
Opened(r) == <<[start |-> r.ts, end |-> r.ts, address |-> r.address, checks |-> 1]>>

Extended(w, r) ==
  <<[start |-> w.start, end |-> r.ts, address |-> w.address, checks |-> w.checks + 1]>>

Ended(current, r) ==
  IF current = <<>> THEN <<>> ELSE <<[current[1] EXCEPT !.end = r.ts]>>

\* The open window is of the row's address.
Continues(current, r) == current # <<>> /\ current[1].address = r.address

\* A row extends the open window, closes it or leaves it as it is.
Graded(s, r) ==
  LET counted == [s.counted EXCEPT ![r.ok] = @ + 1]
  IN  IF r.ok = "unknown" THEN Summary(counted, s.windows, s.current)
      ELSE IF r.ok = "yes"
        THEN Summary(counted, s.windows \o Ended(s.current, r), <<>>)
      ELSE IF Continues(s.current, r)
        THEN Summary(counted, s.windows, Extended(s.current[1], r))
      ELSE Summary(counted, s.windows \o s.current, Opened(r))

Count(s, e) == IF IsCheck(e) THEN Graded(s, e) ELSE s

\* Variant: the window still open at the end is forgotten.
Closed(s) == s.windows

Finished(s) == s.windows \o s.current

\* The rows of each kind, and the windows.
egress_summary(log) ==
  LET read == FoldLeft(Count, Nothing, log)
  IN  [counted |-> read.counted, windows |-> Finished(read)]
=============================================================================
