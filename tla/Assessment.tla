----------------------------- MODULE Assessment -----------------------------
(***************************************************************************)
(* From measurements to findings: the minutes measured on the link under   *)
(* test and on the control, the egress checks and the rows of the reach    *)
(* table grow; analyse and assess are functions of them.                   *)
(*                                                                         *)
(* Minutes come in batches of one kind, spread evenly over a part of the   *)
(* day, every minute with the same number of pings; a loss is in per mille *)
(* and rounded down to it.  Lookups come a hundred cycles at a time, with  *)
(* one resolver in each role.                                              *)
(***************************************************************************)
EXTENDS Reach, SequencesExt

CONSTANTS
  Kinds,     \* kinds of minute: [at, primary, control, first_hop]
  Batches,   \* minutes that come at once
  Failures,  \* of a hundred lookups, those that failed
  MaxData    \* bound: cycles, batches, lookups and checks together

NotMeasured == -1

\* Hours of the day: those within twelve of the nightly restart, those after
\* them up to the next one, and the evening peak, which is among these.
Hours == [after |-> 12, later |-> 6, peak |-> 6]
Parts == DOMAIN Hours

ASSUME AssessmentAssumption ==
  /\ IsFiniteSet(Kinds)
  /\ Kinds \subseteq [at : Parts, primary : 0 .. 1000,
                      control : {NotMeasured} \cup 0 .. 1000,
                      first_hop : {NotMeasured} \cup 0 .. 1000]
  /\ Batches \subseteq Nat \ {0} /\ Failures \subseteq 0 .. 100 /\ MaxData \in Nat

VARIABLES
  minutes,  \* by kind: minutes measured
  batches,  \* batches of minutes and of lookups
  egress,   \* the egress table's rows, by `ok`
  dns       \* by role of the resolver: lookups, and those that failed

vars == <<reachVars, minutes, batches, egress, dns>>

Verdicts == {"confirmed", "leaked", "unknown"}
Roles == {"isp_resolver", "public_control"}

Init ==
  /\ ReachInit
  /\ minutes = [k \in Kinds |-> 0] /\ batches = 0
  /\ egress = [v \in Verdicts |-> 0]
  /\ dns = [r \in Roles |-> [total |-> 0, failed |-> 0]]

Checks(e) == e["confirmed"] + e["leaked"] + e["unknown"]

Room == cycle + batches + Checks(egress) < MaxData

Measure(k, n) ==
  /\ Room
  /\ minutes' = [minutes EXCEPT ![k] = @ + n] /\ batches' = batches + 1
  /\ UNCHANGED <<reachVars, egress, dns>>

CheckEgress(v) ==
  /\ Room
  /\ egress' = [egress EXCEPT ![v] = @ + 1]
  /\ UNCHANGED <<reachVars, minutes, batches, dns>>

\* DnsCollector.run_once, a hundred times: it asks both resolvers, or one of them
\* where an exception or the stop ends its cycles.
LookUp(asked, n) ==
  /\ Room
  /\ dns' = [r \in Roles |->
               IF r \in asked
               THEN [total |-> dns[r].total + 100, failed |-> dns[r].failed + n[r]]
               ELSE dns[r]]
  /\ batches' = batches + 1
  /\ UNCHANGED <<reachVars, minutes, egress>>

Reaching ==
  /\ ReachNext
  /\ Room \/ cycle' = cycle
  /\ UNCHANGED <<minutes, batches, egress, dns>>

Next ==
  \/ \E k \in Kinds, n \in Batches : Measure(k, n)
  \/ \E v \in Verdicts : CheckEgress(v)
  \/ \E asked \in (SUBSET Roles) \ {{}} : \E n \in [asked -> Failures] : LookUp(asked, n)
  \/ Reaching

Spec == Init /\ [][Next]_vars

-----------------------------------------------------------------------------
(* LinkData, paired_comparison and the profiles.  `m` gives the minutes of *)
(* each kind.                                                              *)

Total(m, K) == SumFunctionOnSet(m, K)

\* loss_ratio of the minutes in K; nothing measured is no loss.
Ratio(m, link, K) ==
  LET lost == SumFunctionOnSet([k \in K |-> m[k] * k[link]], K)
  IN  IF Total(m, K) = 0 THEN 0 ELSE lost \div Total(m, K)

degraded_loss == 50

Bad(link) == {k \in Kinds : k[link] >= degraded_loss}
On(link) == {k \in Kinds : k[link] # NotMeasured}

Compared(m, both, primary, control) ==
  [common_minutes |-> Total(m, On("control")), both_bad |-> Total(m, both),
   primary_only_bad |-> Total(m, primary), control_only_bad |-> Total(m, control)]

Both == Bad("primary") \cap Bad("control")
PrimaryOnly == (On("control") \cap Bad("primary")) \ Bad("control")
ControlOnly == Bad("control") \ Bad("primary")

\* Variant: the two links are taken for each other.
Swapped(m) == Compared(m, Both, ControlOnly, PrimaryOnly)

\* Variant: every bad minute of the link, the control's bad ones with it.
AllBad(m) == Compared(m, Both, On("control") \cap Bad("primary"), ControlOnly)

paired_comparison(m) == Compared(m, Both, PrimaryOnly, ControlOnly)

\* hour_of_day_profile and cycle_profile, whose hours are alike within a part:
\* the parts that were measured, and the loss in each.
During(part) == {k \in Kinds : k.at = part}

profile(m) ==
  [part \in {p \in Parts : Total(m, During(p)) > 0} |-> Ratio(m, "primary", During(part))]

analyse(m, e, d, broken) ==
  [minutes |-> Total(m, Kinds), loss |-> Ratio(m, "primary", Kinds),
   first_hop_minutes |-> Total(m, On("first_hop")),
   first_hop_loss |-> Ratio(m, "first_hop", On("first_hop")),
   comparison |-> paired_comparison(m), profile |-> profile(m),
   egress |-> e, dns |-> d, reach_broken |-> broken]

-----------------------------------------------------------------------------
(* The rules, on an analysis `a`.  A finding is [key, severity, about].    *)

Finding(key, severity) == <<[key |-> key, severity |-> severity, about |-> ""]>>

_integrity(a) ==
  IF Checks(a.egress) = 0 THEN Finding("integrity_unverified", "warning")
  ELSE IF a.egress["leaked"] > 0 THEN Finding("integrity_leaked", "critical")
  ELSE Finding("integrity_confirmed", "good")

_sufficiency(a) ==
  IF a.minutes < 60 THEN Finding("too_little_data", "warning")
  ELSE IF a.minutes < 1440 THEN Finding("short_period", "warning")
  ELSE <<>>

_headline_loss(a) ==
  IF a.loss >= 50 THEN Finding("loss_severe", "critical")
  ELSE IF a.loss >= 10 THEN Finding("loss_degraded", "critical")
  ELSE IF a.loss >= 1 THEN Finding("loss_minor", "warning")
  ELSE Finding("loss_clean", "good")

\* more > max(3 * fewer, 3).
FarMore(more, fewer) == more > 3 * fewer /\ more > 3

_isolation(a) ==
  LET c == a.comparison
  IN  IF c.common_minutes = 0 THEN Finding("no_control", "warning")
      ELSE IF c.primary_only_bad >= 10 /\ FarMore(c.primary_only_bad, c.control_only_bad)
        THEN Finding("isolated_to_link", "critical")
      ELSE IF FarMore(c.control_only_bad, c.primary_only_bad)
        THEN Finding("control_worse", "neutral")
      ELSE IF c.both_bad >= 10 /\ c.both_bad > 3 * c.primary_only_bad
        THEN Finding("both_links_bad", "warning")
      ELSE Finding("no_isolation_signal", "neutral")

_operator_network(a) ==
  IF a.first_hop_loss >= 10 THEN Finding("operator_network_loss", "critical")
  ELSE IF a.first_hop_minutes > 0 /\ a.loss >= 10 THEN Finding("beyond_first_hop", "neutral")
  ELSE <<>>

HoursOf(parts) == SumFunctionOnSet(Hours, parts)

\* Mean of the hours measured in these parts; of none it is nought.
Mean(prof, parts) ==
  LET P == parts \cap DOMAIN prof
  IN  IF P = {} THEN 0
      ELSE SumFunctionOnSet([p \in P |-> Hours[p] * prof[p]], P) \div HoursOf(P)

TwelveHours(prof) == HoursOf(DOMAIN prof) >= 12

_time_of_day(a) ==
  LET peak == Mean(a.profile, {"peak"})
      rest == Mean(a.profile, {"after", "later"})
  IN  IF ~TwelveHours(a.profile) \/ a.loss < 5 THEN <<>>
      ELSE IF peak >= 10 /\ peak >= 2 * rest THEN Finding("congestion_pattern", "warning")
      ELSE IF rest > 0 /\ 2 * peak <= 3 * rest THEN Finding("constant_pattern", "critical")
      ELSE <<>>

\* One for each family that is broken at a site.
_address_family(a) ==
  SetToSeq({[key |-> "family_broken", severity |-> "critical", about |-> b[2]] :
              b \in a.reach_broken})

fail_ratio(b) == (1000 * b.failed) \div b.total

_resolvers(a) ==
  IF \E r \in Roles : a.dns[r].total = 0 THEN <<>>
  ELSE LET isp == fail_ratio(a.dns["isp_resolver"])
           public == fail_ratio(a.dns["public_control"])
       IN  IF isp >= 20 /\ isp >= 3 * public THEN Finding("resolver_fault", "critical")
           ELSE IF isp >= 20 /\ public >= 20 THEN Finding("dns_both_bad", "warning")
           ELSE <<>>

_restart_cycle(a) ==
  LET after == Mean(a.profile, {"after"})
      later == Mean(a.profile, {"later", "peak"})
  IN  IF ~TwelveHours(a.profile) THEN <<>>
      ELSE IF after >= 10 /\ 2 * after >= 3 * later THEN Finding("restart_harmful", "critical")
      ELSE IF later >= 10 /\ 2 * later >= 3 * after THEN Finding("restart_helpful", "warning")
      ELSE <<>>

\* Variant: a check without an answer counts as one that was graded.
FewOfAll(e) == e["leaked"] > 0 /\ 2 * e["confirmed"] < Checks(e)

\* Variant: any confirmation will do.
NoneConfirmed(e) == e["leaked"] > 0 /\ e["confirmed"] = 0

\* A leak, and confirmed_ratio below one half.
Withheld(e) == e["leaked"] > 0 /\ e["confirmed"] < e["leaked"]

\* The findings of a severity, in the order they were listed.
Kept(severity, findings) ==
  LET keep(kept, f) == IF f.severity = severity THEN Append(kept, f) ELSE kept
  IN  FoldLeft(keep, <<>>, findings)

\* findings.sort on severity, which keeps the order of equals.
Sorted(findings) ==
  Kept("critical", findings) \o Kept("warning", findings)
    \o Kept("neutral", findings) \o Kept("good", findings)

\* What the rules say of the line and of the record, in the order they are asked.
Conclusions(a) ==
  IF Withheld(a.egress) THEN Finding("conclusions_withheld", "critical") \o _sufficiency(a)
  ELSE _sufficiency(a) \o _headline_loss(a) \o _isolation(a) \o _operator_network(a)
         \o _time_of_day(a) \o _address_family(a) \o _resolvers(a) \o _restart_cycle(a)

Listed(a) == _integrity(a) \o Conclusions(a)

assess(a) == Sorted(Listed(a))

-----------------------------------------------------------------------------
Findings == assess(analyse(minutes, egress, dns, broken_families))

\* Sorting takes no finding away.
Keys(findings) == {f.key : f \in ToSet(findings)}
Told == Keys(Listed(analyse(minutes, egress, dns, broken_families)))

\* What the report says before and after a step.
Before ==
  UNION {Keys(Listed(a)) : a \in {analyse(minutes, egress, dns, broken_families)}}
After ==
  UNION {Keys(Listed(a)) : a \in {analyse(minutes', egress', dns', broken_families')}}

\* Types; what is measured stays within the bound.
TypeOK ==
  /\ ReachTypeOK
  /\ minutes \in [Kinds -> Nat] /\ batches \in 0 .. MaxData
  /\ egress \in [Verdicts -> 0 .. MaxData]
  /\ \A r \in Roles : dns[r].failed \in 0 .. dns[r].total
  /\ cycle + batches + Checks(egress) <= MaxData

\* While more checks saw another uplink than saw the right one, the report draws
\* no conclusion about the line, whatever else was measured, and the leak comes
\* first.  (assess: "Saying nothing is the honest outcome".)
SilentOnWrongUplink ==
  egress["leaked"] > egress["confirmed"] =>
    /\ Findings[1].key = "integrity_leaked"
    /\ Told \subseteq {"integrity_leaked", "conclusions_withheld",
                       "too_little_data", "short_period"}

Integrity == {"integrity_unverified", "integrity_leaked", "integrity_confirmed"}

\* A check that got no answer moves no conclusion: what the report says of the
\* line after it is what it said before.  (egress_summary: "an outage rather than
\* a pin failure, so it is counted apart from both"; assess, confirmed_ratio.)
UnknownCheckConcludesNothing ==
  [][egress'["unknown"] # egress["unknown"] => After \ Integrity = Before \ Integrity]_vars

\* What is told of the line follows what was measured: a finding that this link is
\* at fault arises from minutes that say so or from a check that lifts the
\* withholding, and goes with minutes that say otherwise or with a leak.
EvidenceFollowed ==
  <<minutes, egress, dns>>' # <<minutes, egress, dns>> =>
    LET more(K) == \E k \in K : minutes'[k] > minutes[k]
    IN  \A before \in {"isolated_to_link" \in Before},
           after \in {"isolated_to_link" \in After} :
          /\ after => \/ before
                      \/ more({k \in Kinds : k.primary >= 50 /\ k.control \in 0 .. 49})
                      \/ egress'["confirmed"] > egress["confirmed"]
          /\ before => \/ after
                       \/ more({k \in Kinds : k.primary < 50 /\ k.control >= 50})
                       \/ egress'["leaked"] > egress["leaked"]

\* The fault is told to follow this link because of minutes in which this link
\* was bad and the control was not: no other minutes, checks or lookups bring that
\* finding about, save a check that lifts the withholding; and only minutes in
\* which the control alone was bad, or a leak, take it back.  (_isolation and paired_comparison.)
IsolationFollowsEvidence == [][EvidenceFollowed]_vars

\* A line that lost nothing is accused of nothing: with no loss to the anchors or
\* the first hop, no connection and no lookup of the operator's resolver failed,
\* the one critical finding there can be is that of the uplink, whatever the
\* control and the public resolver did.  (assess and its rules.)
CleanLineNotAccused ==
  (/\ \A k \in Kinds : minutes[k] > 0 => k.primary = 0 /\ k.first_hop <= 0
   /\ \A r \in rows : r.outcome # "failed"
   /\ dns["isp_resolver"].failed = 0) =>
     \A f \in ToSet(Findings) : f.severity = "critical" =>
       f.key \in {"integrity_leaked", "conclusions_withheld"}
=============================================================================
