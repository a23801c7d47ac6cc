------------------------------- MODULE Reach -------------------------------
(***************************************************************************)
(* Real connections to real sites, once per address family: the collector  *)
(* writes a row per family and tells of a family that fails while another  *)
(* works; the report counts the same rows over the period and lists the    *)
(* families that are broken.  A family a site has no record for is no      *)
(* fault.                                                                  *)
(***************************************************************************)
EXTENDS Integers, FiniteSets, Sequences

CONSTANTS
  Hosts,      \* configured sites
  Families,   \* configured address families
  Published,  \* <<host, family>> there is a record for
  MaxCycles   \* bound: cycles measured

ASSUME ReachAssumption ==
  /\ "none" \notin Hosts /\ "reach" \notin Families
  /\ Published \subseteq Hosts \X Families /\ MaxCycles \in Nat

VARIABLES
  cycle,     \* run_once's that have begun
  site,      \* the host under test, or None between two
  sites,     \* hosts left in this cycle
  outcomes,  \* families tested of this host, with what came of it
  rows,      \* the reach table
  raised     \* events of kind address_family_broken and site_unreachable

reachVars == <<cycle, site, sites, outcomes, rows, raised>>

None == "none"
Outcomes == {"unresolved", "ok", "failed"}
Rows == [cycle : 1 .. MaxCycles, host : Hosts, family : Families, outcome : Outcomes]

ReachInit ==
  /\ cycle = 0 /\ site = None /\ sites = {} /\ outcomes = {}
  /\ rows = {} /\ raised = {}

-----------------------------------------------------------------------------
(* ReachCollector.                                                         *)

\* run_once.
BeginCycle ==
  /\ site = None /\ sites = {} /\ cycle < MaxCycles
  /\ cycle' = cycle + 1 /\ sites' = Hosts
  /\ UNCHANGED <<site, outcomes, rows, raised>>

Left(h) == sites \ {h}

\* Targets and families are taken in the order of the configuration.
First(S) == CHOOSE x \in S : TRUE

\* check_target.
BeginSite ==
  /\ site = None /\ sites # {}
  /\ site' = First(sites) /\ sites' = Left(First(sites))
  /\ UNCHANGED <<cycle, outcomes, rows, raised>>

Tested == {o.family : o \in outcomes}

\* resolve and what follows: without a record nothing is tried, and a lookup
\* that fails is not told from one.
check_family(h, f) ==
  IF <<h, f>> \in Published THEN Outcomes ELSE {"unresolved"}

CheckFamily ==
  /\ site # None /\ Tested # Families
  /\ LET f == First(Families \ Tested)
     IN  \E o \in check_family(site, f) :
           LET row == [cycle |-> cycle, host |-> site, family |-> f, outcome |-> o]
           IN  /\ rows' = rows \cup {row}
               /\ outcomes' = outcomes \cup {row}
  /\ UNCHANGED <<cycle, site, sites, raised>>

Event(kind, f) == [cycle |-> cycle, kind |-> kind, host |-> site, family |-> f]

\* compare_families: families that fail while another works, and a site no
\* family reaches.
Asymmetric ==
  {f \in Tested : \E o, p \in outcomes :
     o.family = f /\ o.outcome = "failed" /\ p.family # f /\ p.outcome = "ok"}

Attempted == {o \in outcomes : o.outcome # "unresolved"}

\* Variant: nothing was attempted, so everything attempted failed.
AllFailed == \A o \in Attempted : o.outcome = "failed"

Unreachable == Attempted # {} /\ \A o \in Attempted : o.outcome = "failed"

CompareFamilies ==
  /\ site # None /\ Tested = Families
  /\ raised' = raised \cup {Event("address_family_broken", f) : f \in Asymmetric}
                      \cup IF Unreachable THEN {Event("site_unreachable", "reach")} ELSE {}
  /\ site' = None /\ outcomes' = {}
  /\ UNCHANGED <<cycle, sites, rows>>

\* The probe is stopped, or dies, between two families or two sites.
Stop ==
  /\ site # None \/ sites # {}
  /\ site' = None /\ sites' = {} /\ outcomes' = {}
  /\ UNCHANGED <<cycle, rows, raised>>

ReachNext ==
  BeginCycle \/ BeginSite \/ CheckFamily \/ CompareFamilies \/ Stop

ReachSpec == ReachInit /\ [][ReachNext]_reachVars

-----------------------------------------------------------------------------
(* reach_summary and broken_families.                                      *)

RowsOf(h, f) == {r \in rows : r.host = h /\ r.family = f}

\* Variant: a lookup without an answer is an attempt.
EveryRow(h, f) == RowsOf(h, f)

Attempts(h, f) == {r \in RowsOf(h, f) : r.outcome # "unresolved"}

Failed(h, f) == {r \in Attempts(h, f) : r.outcome # "ok"}

\* fail_ratio at or above one half, and below it.
Broken(h, f) ==
  Attempts(h, f) # {} /\ 2 * Cardinality(Failed(h, f)) >= Cardinality(Attempts(h, f))

\* Variant: a family never attempted has a fail_ratio of nought.
WorksUntried(h, f) ==
  \/ Attempts(h, f) = {}
  \/ 2 * Cardinality(Failed(h, f)) < Cardinality(Attempts(h, f))

Works(h, f) ==
  Attempts(h, f) # {} /\ 2 * Cardinality(Failed(h, f)) < Cardinality(Attempts(h, f))

\* <<host, family>>.
broken_families ==
  {b \in Hosts \X Families : Broken(b[1], b[2]) /\ \E f \in Families : Works(b[1], f)}

-----------------------------------------------------------------------------
\* Types; what was tested of a site is in the table, and its turn in the cycle
\* is over once it has begun.
ReachTypeOK ==
  /\ cycle \in 0 .. MaxCycles
  /\ site \in Hosts \cup {None} /\ sites \subseteq Hosts /\ site \notin sites
  /\ rows \subseteq Rows /\ outcomes \subseteq rows
  /\ \A o \in outcomes : o.cycle = cycle /\ o.host = site
  /\ raised \subseteq [cycle : 1 .. MaxCycles, host : Hosts,
                       kind : {"address_family_broken", "site_unreachable"},
                       family : Families \cup {"reach"}]

\* A family a site has no record for is never told of as broken, in an event or
\* in the report.  (check_family and reach_summary leave it out on both sides.)
NoRecordIsNoFault ==
  \A h \in Hosts, f \in Families : <<h, f>> \notin Published =>
    /\ <<h, f>> \notin broken_families
    /\ \A e \in raised : ~(e.host = h /\ e.family = f)

\* A family is told of as broken only at a site that another family reached: a
\* site that is down, or has no second family, accuses none.  (broken_families:
\* `working` asks for attempts.)
AnotherFamilyConnected ==
  \A b \in broken_families :
    \E r \in rows : r.host = b[1] /\ r.family # b[2] /\ r.outcome = "ok"

\* Behind every event there are rows of its own cycle and site that show it: the
\* family failing and another one working, or nothing working at all.
\* (check_target's outcomes, with cycles cut short by a stop.)
EventsAreBacked ==
  \A e \in raised :
    LET shown == {r \in rows : r.cycle = e.cycle /\ r.host = e.host}
    IN  IF e.kind = "site_unreachable"
        THEN /\ \E r \in shown : r.outcome = "failed"
             /\ \A r \in shown : r.outcome # "ok"
        ELSE /\ \E r \in shown : r.family = e.family /\ r.outcome = "failed"
             /\ \E r \in shown : r.family # e.family /\ r.outcome = "ok"
=============================================================================
