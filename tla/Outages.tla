------------------------------ MODULE Outages ------------------------------
(***************************************************************************)
(* From windows to outages: the ICMP collector's loop starts a window and  *)
(* writes its rows under the time it began; the report adds the rows up by *)
(* minute and walks the minutes once, joining degraded ones to outages.    *)
(* As configured a minute has several windows, or a window takes a little  *)
(* more than a minute, so that undisturbed measuring skips minutes.        *)
(***************************************************************************)
EXTENDS Integers, FiniteSets

CONSTANTS
  LastMinute,  \* bound: minutes the report covers
  Starts,      \* seconds of the first minute measuring may begin at
  Periods,     \* seconds from one window's beginning to the next one's
  Gaps,        \* seconds without the probe
  Packets,     \* packets a window sends
  Lost,        \* numbers of them that may be lost
  Degraded     \* threshold of a degraded minute, a fraction

ASSUME OutagesAssumption ==
  /\ LastMinute \in Nat /\ Starts \subseteq 0 .. 59
  /\ Periods \subseteq 1 .. 120 /\ Gaps \subseteq Nat \ {0}
  /\ Packets \in Nat \ {0} /\ Lost \subseteq 0 .. Packets
  /\ Degraded \in [num : Nat \ {0}, den : Nat \ {0}]

VARIABLES
  pc,        \* "measure", "scan" or "done"
  ts,        \* second the next window begins at
  sent,      \* packets sent, by minute
  lost,      \* packets lost, by minute
  previous,  \* minute looked at last
  current,   \* minutes of the run that is open
  runs,      \* outages found
  latest,    \* history: minute of the window before, if it was written
  consecutive \* history: the minutes of a window and of the one after it

measuring == <<ts, sent, lost, latest, consecutive>>
scanning == <<previous, current, runs>>
vars == <<pc, measuring, scanning>>

Minutes == 0 .. LastMinute
Never == -3

\* outages()'s default, the only one it is called with.
MinMinutes == 2

\* minute_key.
MinuteOf(t) == t \div 60

Init ==
  /\ pc = "measure" /\ ts \in Starts
  /\ sent = [m \in Minutes |-> 0] /\ lost = [m \in Minutes |-> 0]
  /\ previous = Never /\ current = {} /\ runs = {}
  /\ latest = Never /\ consecutive = {}

-----------------------------------------------------------------------------
(* Collector.loop around IcmpCollector.run_once.                           *)

Added(n) == n + Packets

Window ==
  LET m == MinuteOf(ts)
  IN  /\ pc = "measure" /\ m \in Minutes
      /\ sent' = [sent EXCEPT ![m] = Added(@)]
      /\ \E l \in Lost : lost' = [lost EXCEPT ![m] = @ + l]
      /\ \E p \in Periods : ts' = ts + p
      /\ latest' = m
      /\ consecutive' = consecutive \cup
           IF latest = Never THEN {} ELSE {<<latest, m>>}
      /\ UNCHANGED <<pc, scanning>>

\* fping did not end in time, or printed nothing.
WindowWithoutRows ==
  /\ pc = "measure" /\ MinuteOf(ts) \in Minutes
  /\ \E p \in Periods : ts' = ts + p
  /\ latest' = Never
  /\ UNCHANGED <<pc, sent, lost, consecutive, scanning>>

\* The probe is down, or its store keeps it waiting.
Down ==
  /\ pc = "measure" /\ MinuteOf(ts) \in Minutes
  /\ \E g \in Gaps : ts' = ts + g
  /\ latest' = Never
  /\ UNCHANGED <<pc, sent, lost, consecutive, scanning>>

-----------------------------------------------------------------------------
(* LinkData.outages.                                                       *)

StartReport ==
  /\ pc = "measure"
  /\ pc' = "scan"
  /\ UNCHANGED <<measuring, scanning>>

Measured == {m \in Minutes : sent[m] > 0}

IsBad(m) == lost[m] * Degraded.den >= Degraded.num * sent[m]

Bad == {m \in Measured : IsBad(m)}

\* The minute the loop is at.
IsNext(m) == /\ m \in Measured /\ m > previous
             /\ \A n \in Measured : n > previous => m <= n

\* Variant: consecutive is taken by the clock.
ContiguousStrictly(m) == previous # Never /\ m - previous <= 1

Contiguous(m) == previous # Never /\ m - previous <= 2

\* Variant: a run has to be longer than the minimum.
LongerRuns(run) == IF Cardinality(run) > MinMinutes THEN runs \cup {run} ELSE runs

\* close(run).
Closed(run) == IF Cardinality(run) >= MinMinutes THEN runs \cup {run} ELSE runs

ScanJoins(m) ==
  /\ IsNext(m) /\ IsBad(m) /\ current # {} /\ Contiguous(m)
  /\ current' = current \cup {m}
  /\ runs' = runs

ScanOpens(m) ==
  /\ IsNext(m) /\ IsBad(m) /\ ~(current # {} /\ Contiguous(m))
  /\ runs' = Closed(current)
  /\ current' = {m}

ScanCloses(m) ==
  /\ IsNext(m) /\ ~IsBad(m)
  /\ runs' = Closed(current)
  /\ current' = {}

Scan(m) ==
  /\ pc = "scan"
  /\ ScanJoins(m) \/ ScanOpens(m) \/ ScanCloses(m)
  /\ previous' = m
  /\ UNCHANGED <<pc, measuring>>

\* close(current) after the loop.
ScanEnds ==
  /\ pc = "scan" /\ \A m \in Measured : m <= previous
  /\ runs' = Closed(current)
  /\ pc' = "done"
  /\ UNCHANGED <<measuring, previous, current>>

-----------------------------------------------------------------------------
Next ==
  \/ Window \/ WindowWithoutRows \/ Down \/ StartReport
  \/ \E m \in Minutes : Scan(m)
  \/ ScanEnds

Spec == Init /\ [][Next]_vars

-----------------------------------------------------------------------------
\* Types: no minute has lost more than it sent, windows come in order, and
\* runs are of degraded minutes.
TypeOK ==
  /\ pc \in {"measure", "scan", "done"} /\ ts \in Nat
  /\ sent \in [Minutes -> Nat] /\ lost \in [Minutes -> Nat]
  /\ \A m \in Minutes : lost[m] <= sent[m]
  /\ previous \in Minutes \cup {Never} /\ latest \in Minutes \cup {Never}
  /\ consecutive \subseteq Minutes \X Minutes
  /\ current \subseteq Bad /\ runs \subseteq SUBSET Bad

\* Nothing between two minutes ends an outage: no good minute, and no two
\* minutes on end in which nothing was measured.
Unbroken(a, b) ==
  /\ \A c \in a .. b : c \in Measured => c \in Bad
  /\ \A c \in a .. b - 1 : c \in Measured \/ c + 1 \in Measured

\* The degraded minutes around a with nothing between.
Around(a) == {b \in Bad : Unbroken(a, b) /\ Unbroken(b, a)}

\* The report's outages are the longest unbroken groups of two degraded
\* minutes or more, each once and none left out.  (outages(), one pass with an
\* open run that is closed in three places.)
OutagesAreGroups ==
  pc = "done" => runs = {r \in {Around(a) : a \in Bad} : Cardinality(r) >= MinMinutes}

\* Two windows measured one after the other, in two degraded minutes, lie in
\* one outage, although a minute may have passed between their beginnings
\* in which no window began.
WindowsStayTogether ==
  pc = "done" => \A p \in consecutive :
    p[1] # p[2] /\ p[1] \in Bad /\ p[2] \in Bad =>
      \E r \in runs : p[1] \in r /\ p[2] \in r
=============================================================================
