------------------------------- MODULE Egress -------------------------------
(***************************************************************************)
(* The probe's egress collector: one thread that asks, family by family,   *)
(* which address its traffic leaves by, compares it with what is expected  *)
(* and raises events; the learned baseline survives a restart in the meta  *)
(* table, what was reported does not.  The process can die between any two *)
(* writes, and a meta read or write can fail (it is logged and swallowed). *)
(***************************************************************************)
EXTENDS EgressReport

CONSTANTS
  FAMILIES,    \* conf.families, in the order they are checked
  Addresses,   \* family -> the addresses it may be seen leaving by
  Net,         \* address -> the network it lies in
  Expected,    \* family -> the networks of expected_prefixes of that version
  None,        \* no address, no network
  MaxLog       \* bound: the length of the log

Families == {FAMILIES[i] : i \in DOMAIN FAMILIES}
Networks == {Net[a] : a \in DOMAIN Net} \cup UNION {Expected[f] : f \in Families}

ASSUME EgressAssumption ==
  /\ FAMILIES \in Seq(STRING) /\ Len(FAMILIES) > 0
  /\ \A f \in Families : Addresses[f] \subseteq DOMAIN Net
  /\ None \notin DOMAIN Net \cup Networks

VARIABLES
  baseline,  \* meta: family -> network learned, or None
  reported,  \* EgressCollector.reported: family -> address, or None
  turn,      \* which of FAMILIES run_once is at
  pc,        \* where check is
  address,   \* what observe returned
  networks,  \* what expected_networks returned
  log        \* rows, events and restarts, in the order they were written

vars == <<baseline, reported, turn, pc, address, networks, log>>

Init ==
  /\ baseline \in [Families -> Networks \cup {None}]
  /\ \A f \in Families : baseline[f] \in {Net[a] : a \in Addresses[f]} \cup {None}
  /\ reported = [f \in Families |-> None]
  /\ turn = 1 /\ pc = "idle" /\ address = None /\ networks = {}
  /\ log = <<>>

family == FAMILIES[turn]

\* The bound on the log: at it the system stops.
Room == Len(log) < MaxLog

Row(ok) == [kind |-> "egress", ts |-> Len(log) + 1, family |-> family,
            address |-> address', ok |-> ok]
Event(kind) == [kind |-> kind, ts |-> Len(log) + 1, family |-> family,
                address |-> address]

\* run_once goes on to the next family.
NextFamily == turn' = IF turn = Len(FAMILIES) THEN 1 ELSE turn + 1

\* Variant: the learned baseline beats the configured prefixes.
LearnedFirst(f) ==
  IF baseline[f] # None THEN {{baseline[f]}} ELSE {Expected[f]}

\* What expected_networks can return: the configured prefixes; else the
\* baseline, or nothing if there is none or get_meta failed.
expected_networks(f) ==
  IF Expected[f] # {} THEN {Expected[f]}
  ELSE IF baseline[f] = None THEN {{}} ELSE {{baseline[f]}, {}}

\* No endpoint gave a clean answer: an unknown row, and nothing else.
CheckUnknown ==
  /\ pc = "idle" /\ Room
  /\ address' = None
  /\ log' = Append(log, Row("unknown"))
  /\ NextFamily
  /\ UNCHANGED <<baseline, reported, pc, networks>>

\* The first clean answer wins; the expectation is looked up.
CheckAnswered ==
  /\ pc = "idle" /\ Room
  /\ address' \in Addresses[family]
  /\ networks' \in expected_networks(family)
  /\ pc' = IF networks' = {} THEN "learn" ELSE "judge"
  /\ UNCHANGED <<baseline, reported, turn, log>>

\* learn: set_meta succeeds, or fails and is swallowed.
learn ==
  /\ pc = "learn" /\ Room
  /\ \/ baseline' = [baseline EXCEPT ![family] = Net[address]]
     \/ UNCHANGED baseline
  /\ pc' = "reread"
  /\ UNCHANGED <<reported, turn, address, networks, log>>

\* The marker of the baseline, written whether or not set_meta was, and the
\* expectation looked up again.
Reread ==
  /\ pc = "reread" /\ Room
  /\ log' = Append(log, Event("egress_baseline"))
  /\ networks' \in expected_networks(family)
  /\ pc' = "judge"
  /\ UNCHANGED <<baseline, reported, turn, address>>

Inside == Net[address] \in networks

\* The row and the gauges.
Judge ==
  /\ pc = "judge" /\ Room
  /\ address' = address
  /\ log' = Append(log, Row(IF Inside THEN "yes" ELSE "no"))
  /\ pc' = "event"
  /\ UNCHANGED <<baseline, reported, turn, networks>>

\* Variant: every leaked check is reported.
NewLeakAlways == ~Inside

\* Variant: only the first address of a leak is reported.
FirstLeakOnly == ~Inside /\ reported[family] = None

\* A leak by an address other than the one reported last.
NewLeak == ~Inside /\ reported[family] # address

Recovered == [reported EXCEPT ![family] = None]

\* The event, if the check changed what is known, and the end of the check.
Report ==
  /\ pc = "event" /\ Room
  /\ \/ /\ NewLeak
        /\ reported' = [reported EXCEPT ![family] = address]
        /\ log' = Append(log, Event("egress_unexpected"))
     \/ /\ Inside /\ reported[family] # None
        /\ reported' = Recovered
        /\ log' = Append(log, Event("egress_restored"))
     \/ /\ ~NewLeak /\ ~(Inside /\ reported[family] # None)
        /\ UNCHANGED <<reported, log>>
  /\ pc' = "idle"
  /\ NextFamily
  /\ UNCHANGED <<baseline, address, networks>>

\* The process dies and starts again; what it had reported is forgotten.
Restart ==
  /\ Room
  /\ log' = Append(log, [kind |-> "restart", ts |-> Len(log) + 1,
                         family |-> family, address |-> None])
  /\ reported' = [f \in Families |-> None]
  /\ turn' = 1 /\ pc' = "idle" /\ address' = None /\ networks' = {}
  /\ UNCHANGED baseline

Next ==
  \/ CheckUnknown \/ CheckAnswered \/ learn \/ Reread \/ Judge \/ Report
  \/ Restart

Spec == Init /\ [][Next]_vars

-----------------------------------------------------------------------------
(* Properties.                                                             *)

summary == egress_summary(log)

Entry ==
  [kind : {"egress"}, ts : Nat, family : Families,
   address : DOMAIN Net \cup {None}, ok : {"yes", "no", "unknown"}]
  \cup
  [kind : {"egress_unexpected", "egress_restored", "egress_baseline", "restart"},
   ts : Nat, family : Families, address : DOMAIN Net \cup {None}]

TypeOK ==
  /\ baseline \in [Families -> Networks \cup {None}]
  /\ reported \in [Families -> DOMAIN Net \cup {None}]
  /\ \A f \in Families : reported[f] \in Addresses[f] \cup {None}
  /\ turn \in DOMAIN FAMILIES
  /\ pc \in {"idle", "learn", "reread", "judge", "event"}
  /\ address \in DOMAIN Net \cup {None}
  /\ pc # "idle" => address \in Addresses[family]
  /\ networks \in SUBSET Networks
  /\ log \in Seq(Entry)

\* Where prefixes are configured they alone decide, whatever was learned
\* before they were, and no failed meta access turns a check into a leak.
ConfiguredPrefixesDecide ==
  \A i \in DOMAIN log :
    /\ IsCheck(log[i]) /\ log[i].ok # "unknown"
    /\ Expected[log[i].family] # {}
    => (log[i].ok = "yes" <=> Net[log[i].address] \in Expected[log[i].family])

\* Events of the family at or before place i since the process last started.
Told(f, i) ==
  {j \in 1..i : /\ log[j].kind \in {"egress_unexpected", "egress_restored"}
                /\ log[j].family = f
                /\ \A k \in j..i : log[k].kind # "restart"}

\* Place i's family was last told to leave by address a.
ToldOf(f, a, i) ==
  \E j \in Told(f, i) :
    /\ log[j].kind = "egress_unexpected" /\ log[j].address = a
    /\ \A k \in Told(f, i) : k <= j

\* In one run of the process each event tells a change: a leak by an address
\* is raised once until something else is told, over any number of unknown
\* checks, and a recovery is told only after a leak was.
EventsTellChanges ==
  \A i \in DOMAIN log :
    LET f == log[i].family  a == log[i].address IN
      /\ log[i].kind = "egress_unexpected" => ~ToldOf(f, a, i - 1)
      /\ log[i].kind = "egress_restored" =>
           \E b \in Addresses[f] : ToldOf(f, b, i - 1)

\* Every leak window of the report has its event: when its first check was
\* over the leak had been told, unless the process died in that check.
WindowsAnnounced ==
  \A n \in DOMAIN summary.windows :
    LET i == summary.windows[n].start IN
      \/ ToldOf(log[i].family, summary.windows[n].address, i)
      \/ i = Len(log)
      \/ ToldOf(log[i].family, summary.windows[n].address, i + 1)
      \/ log[i + 1].kind = "restart"

\* The leaked checks from one place of the log to another.
Leaked(from, to) == {i \in from..to : IsCheck(log[i]) /\ log[i].ok = "no"}

\* The windows account for every leaked check, each in one window of its
\* address, come one after the other, and hold no check that was confirmed.
WindowsCoverLeaks ==
  LET ws == summary.windows IN
    /\ \A i \in Leaked(1, Len(log)) :
         \E n \in DOMAIN ws : /\ ws[n].address = log[i].address
                              /\ i \in ws[n].start..ws[n].end
    /\ \A n \in DOMAIN ws :
         /\ ws[n].checks = Cardinality(Leaked(ws[n].start, ws[n].end))
         /\ \A i \in ws[n].start..(ws[n].end - 1) :
              ~(IsCheck(log[i]) /\ log[i].ok = "yes")
    /\ \A n \in DOMAIN ws : n + 1 \in DOMAIN ws => ws[n].end <= ws[n + 1].start
=============================================================================
