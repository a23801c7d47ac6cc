---------------------------- MODULE UpstreamHop ----------------------------
(***************************************************************************)
(* The operator's first hop in one probe process: the discovery thread     *)
(* adopts and revalidates it, the ICMP thread measures it beside the       *)
(* configured targets and drops it when its loss is an artefact.           *)
(*                                                                         *)
(* The two threads share ProbeContext.dynamic_targets (lock held for one   *)
(* read or one write) and ProbeContext.first_hop (no lock).  Every step    *)
(* below makes at most one access to that shared state, with the local     *)
(* work beside it.  Only the measure() call of the hop's own address       *)
(* family is modelled: the other family's window holds no first hop.       *)
(***************************************************************************)
EXTENDS Integers, FiniteSets, FiniteSetsExt

CONSTANTS
  Hops,     \* addresses a router on the path can show
  Anchors,  \* configured ICMP targets whose role is an anchor role
  Others,   \* configured ICMP targets of any other role
  Via,      \* discovery.via, the destination of the traceroute
  None      \* no address

ASSUME HopsAssumption ==
  /\ IsFiniteSet(Hops) /\ IsFiniteSet(Anchors) /\ IsFiniteSet(Others)
  /\ Hops \cap (Anchors \cup Others) = {}
  /\ Anchors \cap Others = {}
  /\ Via \notin Hops
  /\ None \notin Hops \cup Anchors \cup Others \cup {Via}

Configured == Anchors \cup Others
Hosts == Hops \cup Configured \cup {Via}
Roles == {"anchor", "other", "hop"}

\* Loss ratios in tenths, as far as the thresholds tell them apart: a clean
\* window, one above event_loss_ratio, and one of at least 99.9 %.
Loss == {0, 5, 10}
ANCHOR_CLEAN_RATIO == 5
TOTAL_LOSS == 10
EVENT_LOSS == 5
FIRST_HOP_STRIKES == 3

VARIABLES
  dynamic_targets,    \* probe.dynamic_targets: the hosts adopted, role "hop"
  first_hop,          \* probe.first_hop
  pcI,                \* where the ICMP thread is
  targets,            \* its snapshot of the targets: host -> role
  window,             \* the window just measured: host -> loss
  first_hop_strikes,  \* IcmpCollector.first_hop_strikes
  first_hop_dropped,  \* IcmpCollector.first_hop_dropped
  icmp_series,        \* hosts with ICMP gauges under the role "hop"
  pcD,                \* where the discovery thread is
  candidate,          \* the address its run_once works on
  current,            \* DiscoveryCollector.current
  silent,             \* DiscoveryCollector.silent
  hop_info,           \* addresses with an upstream_hop_info series
  reported,           \* hosts with a loss event in the latest window
  badWindows          \* history: windows that lost all of a host beside clean
                      \* anchors, since the last such window it answered in

shared == <<dynamic_targets, first_hop>>
icmpLocal == <<pcI, targets, window, first_hop_strikes, first_hop_dropped,
               icmp_series, reported, badWindows>>
discoveryLocal == <<pcD, candidate, current, silent, hop_info>>
vars == <<shared, icmpLocal, discoveryLocal>>

EmptyWindow == [h \in {} |-> 0]

Init ==
  /\ dynamic_targets = {} /\ first_hop = None
  /\ pcI = "idle" /\ targets = EmptyWindow /\ window = EmptyWindow
  /\ first_hop_strikes = [h \in Hosts |-> 0] /\ first_hop_dropped = {}
  /\ icmp_series = {} /\ reported = {}
  /\ badWindows = [h \in Hosts |-> 0]
  /\ pcD = "idle" /\ candidate = None /\ current = None /\ silent = {}
  /\ hop_info = {}

-----------------------------------------------------------------------------
(* The ICMP collector's thread.                                            *)

ConfiguredRole(h) == IF h \in Anchors THEN "anchor" ELSE "other"

\* by_host: the configured targets, then the dynamic ones, later ones winning.
RoleOf(h) == IF h \in dynamic_targets THEN "hop" ELSE ConfiguredRole(h)

\* run_once reads the target list under the lock and starts the window.
StartWindow ==
  /\ pcI = "idle"
  /\ Configured \cup dynamic_targets # {}
  /\ targets' = [h \in Configured \cup dynamic_targets |-> RoleOf(h)]
  /\ window' = EmptyWindow
  /\ reported' = {}
  /\ pcI' = "ping"
  /\ UNCHANGED <<shared, discoveryLocal, first_hop_strikes, first_hop_dropped,
                 icmp_series, badWindows>>

\* fping is missing: nothing is recorded.
PingFails ==
  /\ pcI = "ping"
  /\ pcI' = "idle"
  /\ UNCHANGED <<shared, discoveryLocal, targets, window, first_hop_strikes,
                 first_hop_dropped, icmp_series, reported, badWindows>>

AnchorsIn(w) == {h \in DOMAIN w : targets[h] = "anchor"}
FirstHopsIn(w) == {h \in DOMAIN w : targets[h] = "hop"}

\* The anchors' mean loss is below ANCHOR_CLEAN_RATIO, and there is an anchor.
AnchorsClean(w) ==
  /\ AnchorsIn(w) # {}
  /\ SumFunctionOnSet(w, AnchorsIn(w))
       < ANCHOR_CLEAN_RATIO * Cardinality(AnchorsIn(w))

\* First hops that lost everything in a window whose anchors were clean.
Artefacts(w) ==
  IF AnchorsClean(w) THEN {h \in FirstHopsIn(w) : w[h] >= TOTAL_LOSS} ELSE {}

\* First hops that answered in a window whose anchors were clean.
Answered(w) ==
  IF AnchorsClean(w) THEN {h \in FirstHopsIn(w) : w[h] < TOTAL_LOSS} ELSE {}

\* Variant: an answer does not clear the strikes.
StruckForGood(w) ==
  [h \in Hosts |->
     IF h \in Artefacts(w) /\ first_hop_strikes[h] < FIRST_HOP_STRIKES
     THEN first_hop_strikes[h] + 1 ELSE first_hop_strikes[h]]

\* Variant: a window with bad anchors clears the strikes.
StruckInARow(w) ==
  [h \in Hosts |->
     IF h \notin Artefacts(w) THEN 0
     ELSE IF first_hop_strikes[h] < FIRST_HOP_STRIKES
          THEN first_hop_strikes[h] + 1
     ELSE first_hop_strikes[h]]

\* The strikes after a window; they stop at FIRST_HOP_STRIKES, the only value
\* they are compared with.
Struck(w) ==
  [h \in Hosts |->
     IF h \in Answered(w) THEN 0
     ELSE IF h \in Artefacts(w) /\ first_hop_strikes[h] < FIRST_HOP_STRIKES
          THEN first_hop_strikes[h] + 1
     ELSE first_hop_strikes[h]]

\* History: what the window adds to badWindows.
Judged(w) ==
  [h \in Hosts |->
     IF ~AnchorsClean(w) \/ h \notin FirstHopsIn(w) THEN badWindows[h]
     ELSE IF w[h] < TOTAL_LOSS THEN 0
     ELSE IF badWindows[h] < FIRST_HOP_STRIKES THEN badWindows[h] + 1
     ELSE badWindows[h]]

\* fping ends; hosts it printed no line for are not in the window (all of
\* them, if it was killed).  The rows and gauges of the window are written.
Measure(w) ==
  /\ pcI = "ping"
  /\ window' = w
  /\ icmp_series' = icmp_series \cup FirstHopsIn(w)
  /\ badWindows' = Judged(w)
  /\ pcI' = "audit"
  /\ UNCHANGED <<shared, discoveryLocal, targets, first_hop_strikes,
                 first_hop_dropped, reported>>

EndWindow ==
  \E measured \in SUBSET DOMAIN targets :
    \E w \in [measured -> Loss] : Measure(w)

\* Hops that audit_first_hop drops in this window: suspect often enough, and
\* not dropped before.
Offenders ==
  {h \in Artefacts(window) : Struck(window)[h] >= FIRST_HOP_STRIKES}
    \ first_hop_dropped

\* audit_first_hop finds no hop to drop.
AuditKeeps ==
  /\ pcI = "audit"
  /\ Offenders = {}
  /\ first_hop_strikes' = Struck(window)
  /\ pcI' = "report"
  /\ UNCHANGED <<shared, discoveryLocal, targets, window, first_hop_dropped,
                 icmp_series, reported, badWindows>>

\* audit_first_hop drops a hop: marker, event, gauges, target list.
AuditDrops ==
  /\ pcI = "audit"
  /\ Offenders # {}
  /\ first_hop_strikes' = Struck(window)
  /\ first_hop_dropped' = first_hop_dropped \cup Offenders
  /\ icmp_series' = icmp_series \ Offenders
  /\ dynamic_targets' = {}
  /\ pcI' = "forget"
  /\ UNCHANGED <<first_hop, discoveryLocal, targets, window, reported, badWindows>>

\* ... and then forgets the first hop, whichever it is by now.
AuditForgets ==
  /\ pcI = "forget"
  /\ first_hop' = None
  /\ pcI' = "report"
  /\ UNCHANGED <<dynamic_targets, discoveryLocal, targets, window,
                 first_hop_strikes, first_hop_dropped, icmp_series, reported,
                 badWindows>>

\* Variant: suspect hosts are checked like the others.
CheckedAll(w) == DOMAIN w

\* The hosts of the window that are not suspect.
Checked(w) == DOMAIN w \ Artefacts(w)

\* check_event for every host of the window that is not suspect.
ReportEvents ==
  /\ pcI = "report"
  /\ reported' = {h \in Checked(window) : window[h] >= EVENT_LOSS}
  /\ pcI' = "idle"
  /\ UNCHANGED <<shared, discoveryLocal, targets, window, first_hop_strikes,
                 first_hop_dropped, icmp_series, badWindows>>

-----------------------------------------------------------------------------
(* The discovery collector's thread.                                       *)

\* revalidate reads probe.first_hop; with none it goes straight to mtr.
RevalidateReads ==
  /\ pcD = "idle"
  /\ candidate' = first_hop
  /\ pcD' = IF first_hop = None THEN "mtr" ELSE "recheck"
  /\ UNCHANGED <<shared, icmpLocal, current, silent, hop_info>>

\* The hop in use still answers on its own.
RevalidateKeeps ==
  /\ pcD = "recheck"
  /\ pcD' = "mtr"
  /\ UNCHANGED <<shared, icmpLocal, candidate, current, silent, hop_info>>

\* It no longer does: marker, event, target list ...
RevalidateDrops ==
  /\ pcD = "recheck"
  /\ dynamic_targets' = {}
  /\ pcD' = "forget"
  /\ UNCHANGED <<first_hop, icmpLocal, candidate, current, silent, hop_info>>

\* ... then the first hop.  `current` stays as it is.
RevalidateForgets ==
  /\ pcD = "forget"
  /\ first_hop' = None
  /\ silent' = silent \cup {candidate}
  /\ pcD' = "mtr"
  /\ UNCHANGED <<dynamic_targets, icmpLocal, candidate, current, hop_info>>

\* Variant: a configured address will do.
acceptsConfigured(ip) == ip # Via

acceptable(ip) == ip # Via /\ ip \notin Configured

\* mtr shows no usable address at the hop's position, or one there is
\* nothing to do about: the hop in use already, or one not acceptable.
TraceShowsNothingNew ==
  /\ pcD = "mtr"
  /\ \E ip \in Hosts \cup {None} : ip = None \/ ip = current \/ ~acceptable(ip)
  /\ candidate' = None
  /\ pcD' = "idle"
  /\ UNCHANGED <<shared, icmpLocal, current, silent, hop_info>>

TraceShowsCandidate ==
  /\ pcD = "mtr"
  /\ \E ip \in Hosts :
       /\ ip # current
       /\ acceptable(ip)
       /\ candidate' = ip
  /\ pcD' = "validate"
  /\ UNCHANGED <<shared, icmpLocal, current, silent, hop_info>>

\* usable_as_target says no: too few of ten replies, or no fping.
CandidateUnusable ==
  /\ pcD = "validate"
  /\ silent' = silent \cup {candidate}
  /\ candidate' = None
  /\ pcD' = "idle"
  /\ UNCHANGED <<shared, icmpLocal, current, hop_info>>

\* Variant: the old address keeps its series.
AdvertisedToo == hop_info \cup {candidate}

\* drop_upstream_hop(current), then the new address's series.
Advertised == (hop_info \ {current}) \cup {candidate}

\* Variant: the address stays on the list of silent ones.
StillSilent == silent

NoLongerSilent == silent \ {candidate}

\* It says yes: the hop becomes current and the one dynamic target ...
Adopt ==
  /\ pcD = "validate"
  /\ silent' = NoLongerSilent
  /\ hop_info' = Advertised
  /\ current' = candidate
  /\ dynamic_targets' = {candidate}
  /\ pcD' = "publish"
  /\ UNCHANGED <<first_hop, icmpLocal, candidate>>

\* ... and then the first hop.
Publish ==
  /\ pcD = "publish"
  /\ first_hop' = candidate
  /\ candidate' = None
  /\ pcD' = "idle"
  /\ UNCHANGED <<dynamic_targets, icmpLocal, current, silent, hop_info>>

-----------------------------------------------------------------------------
IcmpNext ==
  \/ StartWindow \/ PingFails \/ EndWindow
  \/ AuditKeeps \/ AuditDrops \/ AuditForgets \/ ReportEvents

DiscoveryNext ==
  \/ RevalidateReads \/ RevalidateKeeps \/ RevalidateDrops \/ RevalidateForgets
  \/ TraceShowsNothingNew \/ TraceShowsCandidate
  \/ CandidateUnusable \/ Adopt \/ Publish

Next == IcmpNext \/ DiscoveryNext

\* Each collector's loop runs again after every run_once, whatever it raised.
Fairness == WF_vars(IcmpNext) /\ WF_vars(DiscoveryNext)

Spec == Init /\ [][Next]_vars /\ Fairness
-----------------------------------------------------------------------------
(* Properties.                                                             *)

TypeOK ==
  /\ dynamic_targets \in SUBSET Hops
  /\ first_hop \in Hops \cup {None}
  /\ pcI \in {"idle", "ping", "audit", "forget", "report"}
  /\ DOMAIN targets \subseteq Hosts
  /\ targets \in [DOMAIN targets -> Roles]
  /\ DOMAIN window \subseteq Hosts
  /\ window \in [DOMAIN window -> Loss]
  /\ first_hop_strikes \in [Hosts -> 0..FIRST_HOP_STRIKES]
  /\ first_hop_dropped \in SUBSET Hosts
  /\ icmp_series \in SUBSET Hosts
  /\ pcD \in {"idle", "recheck", "forget", "mtr", "validate", "publish"}
  /\ candidate \in Hops \cup {None}
  /\ pcD \notin {"idle", "mtr"} => candidate \in Hops
  /\ current \in Hops \cup {None}
  /\ silent \in SUBSET Hops
  /\ hop_info \in SUBSET Hops
  /\ reported \in SUBSET Hosts
  /\ badWindows \in [Hosts -> 0..FIRST_HOP_STRIKES]

\* A discovered hop never takes over the role of a configured target, so no
\* anchor drops out of the headline figure (DiscoveryCollector.acceptable).
ConfiguredRolesKept ==
  \A h \in DOMAIN targets \cap Configured : targets[h] = ConfiguredRole(h)

\* Total loss to the first hop beside clean anchors is never reported as an
\* event, not even in the windows before the hop is dropped (audit_first_hop).
NoArtefactReported ==
  pcI = "idle" =>
    \A h \in reported :
      ~(targets[h] = "hop" /\ window[h] = TOTAL_LOSS /\ AnchorsClean(window))

\* The hop measured is the one advertised as the upstream hop, and once
\* adopted it is the one revalidated, whatever the two threads interleave.
HopViewsAgree ==
  /\ dynamic_targets \subseteq {current}
  /\ hop_info = {current} \ {None}
  /\ pcD # "publish" => first_hop \in {None, current}

\* A hop listed as impossible to measure is neither measured nor kept as the
\* first hop: its loss would be an artefact (revalidate, usable_as_target).
SilentHopNotInUse ==
  silent \cap (dynamic_targets \cup {first_hop}) = {}

\* The audit drops a hop only after three windows, with no window between in
\* which it answered beside clean anchors (FIRST_HOP_STRIKES).
DropTakesThreeBadWindows ==
  [][\A h \in first_hop_dropped' \ first_hop_dropped :
       badWindows[h] >= FIRST_HOP_STRIKES]_vars

IsArtefact(h) == pcI = "audit" /\ h \in Artefacts(window)
HasAnswered(h) == pcI = "audit" /\ h \in Answered(window)

\* A hop that keeps losing everything beside clean anchors and never answers
\* there is dropped once, however many windows with bad anchors lie between.
ArtefactHopIsDropped ==
  \A h \in Hops :
    []<>IsArtefact(h) /\ <>[]~HasAnswered(h) => <>(h \in first_hop_dropped)

-----------------------------------------------------------------------------
(* What the code's comments promise and the code does not keep.            *)

\* "a hop that does it repeatedly is dropped rather than left to contribute
\* a false figure" (audit_first_hop): no hop is measured for ever at total
\* loss beside clean anchors.
RepeatOffenderLeaves ==
  \A h \in Hops :
    []<>IsArtefact(h) /\ <>[]~HasAnswered(h) => []<>(h \notin dynamic_targets)

\* The audit takes out of the target list the hop that its marker and its
\* event name, and no other.
AuditDropsTheHopItNames ==
  [][pcI = "audit" /\ pcI' = "forget" =>
       dynamic_targets \subseteq first_hop_dropped' \ first_hop_dropped]_vars
=============================================================================
