----------------------------- MODULE Icmp_proofs -----------------------------
(***************************************************************************)
(* Proofs about the two models of the ICMP collector's threads:            *)
(* UpstreamHop, for every set of hops and configured targets, and Windows, *)
(* for any families, cooldown and numbers of hosts.                        *)
(***************************************************************************)
EXTENDS UpstreamHop, Windows, TLAPS


\* The initial state is well typed.
LEMMA InitTyped == Init => TypeOK
BY HopsAssumption DEF Init, TypeOK, Hosts, FIRST_HOP_STRIKES, EmptyWindow

\* Every reachable state has the types that TypeOK gives its variables; in
\* particular discovery only ever adopts one of Hops.
THEOREM TypeCorrect == Spec => []TypeOK
<1> USE HopsAssumption DEF TypeOK, Hosts, Configured, Roles, Loss,
          FIRST_HOP_STRIKES, EmptyWindow
<1>2. TypeOK /\ [Next]_vars => TypeOK'
  <2> SUFFICES ASSUME TypeOK, [Next]_vars PROVE TypeOK'
    OBVIOUS
  <2> USE DEF vars, shared, icmpLocal, discoveryLocal
  <2>1. CASE StartWindow
    BY <2>1 DEF StartWindow, RoleOf, ConfiguredRole
  <2>2. CASE PingFails
    BY <2>2 DEF PingFails
  <2>3. CASE EndWindow
    <3>0. PICK measured \in SUBSET DOMAIN targets :
            \E w \in [measured -> Loss] : Measure(w)
      BY <2>3 DEF EndWindow
    <3>1. PICK w \in [measured -> Loss] : Measure(w)
      BY <3>0
    <3>2. FirstHopsIn(w) \subseteq Hosts
      BY <3>1 DEF FirstHopsIn
    <3> QED
      BY <3>1, <3>2 DEF Measure, Judged
  <2>4. CASE AuditKeeps
    BY <2>4 DEF AuditKeeps, Struck
  <2>5. CASE AuditDrops
    <3>1. Offenders \subseteq Hosts
      BY DEF Offenders, Artefacts, FirstHopsIn
    <3>2. /\ first_hop_dropped' \in SUBSET Hosts
          /\ icmp_series' \in SUBSET Hosts
      BY <2>5, <3>1 DEF AuditDrops
    <3>3. first_hop_strikes' \in [Hosts -> 0..FIRST_HOP_STRIKES]
      BY <2>5 DEF AuditDrops, Struck
    <3> QED
      BY <2>5, <3>2, <3>3 DEF AuditDrops
  <2>6. CASE AuditForgets
    BY <2>6 DEF AuditForgets
  <2>7. CASE ReportEvents
    BY <2>7 DEF ReportEvents, Checked
  <2>8. CASE DiscoveryNext
    <3>1. UNCHANGED icmpLocal
      BY <2>8 DEF DiscoveryNext, RevalidateReads, RevalidateKeeps,
         RevalidateDrops, RevalidateForgets, TraceShowsNothingNew,
         TraceShowsCandidate, CandidateUnusable, Adopt, Publish
    <3>2. CASE RevalidateReads \/ RevalidateKeeps \/ RevalidateDrops
               \/ RevalidateForgets
      BY <3>1, <3>2 DEF RevalidateReads, RevalidateKeeps, RevalidateDrops,
         RevalidateForgets
    <3>3. CASE TraceShowsNothingNew \/ TraceShowsCandidate \/ CandidateUnusable
      BY <3>1, <3>3 DEF TraceShowsNothingNew, TraceShowsCandidate,
         CandidateUnusable, acceptable
    <3>4. CASE Adopt \/ Publish
      BY <3>1, <3>4 DEF Adopt, Publish, Advertised, NoLongerSilent
    <3> QED
      BY <2>8, <3>2, <3>3, <3>4 DEF DiscoveryNext
  <2>9. CASE UNCHANGED vars
    BY <2>9
  <2> QED
    BY <2>1, <2>2, <2>3, <2>4, <2>5, <2>6, <2>7, <2>8, <2>9 DEF Next, IcmpNext
<1> QED
  BY InitTyped, <1>2, PTL DEF Spec

\* A discovered hop never takes over a configured target's role: only
\* addresses of Hops are adopted, and those are configured nowhere.
THEOREM RolesKept == Spec => []ConfiguredRolesKept
<1> USE HopsAssumption DEF ConfiguredRolesKept, Configured
<1>1. Init => ConfiguredRolesKept
  BY DEF Init, EmptyWindow
<1>2. TypeOK /\ ConfiguredRolesKept /\ [Next]_vars => ConfiguredRolesKept'
  <2> SUFFICES ASSUME TypeOK, ConfiguredRolesKept, [Next]_vars
               PROVE  ConfiguredRolesKept'
    OBVIOUS
  <2>1. CASE StartWindow
    BY <2>1 DEF StartWindow, RoleOf, ConfiguredRole, TypeOK
  <2>2. CASE targets' = targets
    BY <2>2 DEF ConfiguredRole
  <2>3. ~StartWindow => targets' = targets
    BY DEF Next, IcmpNext, DiscoveryNext, PingFails, EndWindow, Measure,
       AuditKeeps, AuditDrops, AuditForgets, ReportEvents, RevalidateReads,
       RevalidateKeeps, RevalidateDrops, RevalidateForgets,
       TraceShowsNothingNew, TraceShowsCandidate, CandidateUnusable, Adopt,
       Publish, vars, icmpLocal
  <2> QED
    BY <2>1, <2>2, <2>3
<1> QED
  BY <1>1, <1>2, TypeCorrect, PTL DEF Spec

-----------------------------------------------------------------------------
(* What discovery knows of the hop in use.                                 *)

\* HopViewsAgree and SilentHopNotInUse are inductive together with what the
\* discovery thread's program counter says of its candidate.
HopInv ==
  /\ TypeOK
  /\ HopViewsAgree
  /\ SilentHopNotInUse
  /\ pcD = "validate" => candidate # current
  /\ pcD \in {"publish", "recheck", "forget"} => candidate = current
  /\ pcD = "publish" => candidate \notin silent
  /\ pcD = "forget" => dynamic_targets = {}

\* HopInv holds in every reachable state: the ICMP thread can only empty the
\* target list and the first hop, and discovery writes both itself.
THEOREM HopInvariant == Spec => []HopInv
<1> USE HopsAssumption DEF HopInv, HopViewsAgree, SilentHopNotInUse, TypeOK
<1>1. Init => HopInv
  BY InitTyped DEF Init
<1>2. HopInv /\ TypeOK' /\ [Next]_vars => HopInv'
  <2> SUFFICES ASSUME HopInv, TypeOK', [Next]_vars PROVE HopInv'
    OBVIOUS
  <2> USE DEF vars, shared, icmpLocal, discoveryLocal
  <2>1. CASE IcmpNext
    <3>1. UNCHANGED discoveryLocal
      BY <2>1 DEF IcmpNext, StartWindow, PingFails, EndWindow, Measure,
         AuditKeeps, AuditDrops, AuditForgets, ReportEvents
    <3>2. /\ dynamic_targets' \in {dynamic_targets, {}}
          /\ first_hop' \in {first_hop, None}
      BY <2>1 DEF IcmpNext, StartWindow, PingFails, EndWindow, Measure,
         AuditKeeps, AuditDrops, AuditForgets, ReportEvents
    <3> QED
      BY <3>1, <3>2
  <2>2. CASE RevalidateReads
    BY <2>2 DEF RevalidateReads
  <2>3. CASE RevalidateKeeps
    BY <2>3 DEF RevalidateKeeps
  <2>4. CASE RevalidateDrops
    BY <2>4 DEF RevalidateDrops
  <2>5. CASE RevalidateForgets
    BY <2>5 DEF RevalidateForgets
  <2>6. CASE TraceShowsNothingNew
    BY <2>6 DEF TraceShowsNothingNew
  <2>7. CASE TraceShowsCandidate
    BY <2>7 DEF TraceShowsCandidate, Hosts, Configured
  <2>8. CASE CandidateUnusable
    BY <2>8 DEF CandidateUnusable
  <2>9. CASE Adopt
    BY <2>9 DEF Adopt, Advertised, NoLongerSilent
  <2>10. CASE Publish
    BY <2>10 DEF Publish
  <2>11. CASE UNCHANGED vars
    BY <2>11
  <2> QED
    BY <2>1, <2>2, <2>3, <2>4, <2>5, <2>6, <2>7, <2>8, <2>9, <2>10, <2>11
    DEF Next, DiscoveryNext
<1> QED
  BY <1>1, <1>2, TypeCorrect, PTL DEF Spec

\* The hop measured is the hop advertised, and the first hop when there is one.
THEOREM ViewsAgree == Spec => []HopViewsAgree
BY HopInvariant, PTL DEF HopInv

\* A hop known to be impossible to measure is not in use.
THEOREM SilentNotInUse == Spec => []SilentHopNotInUse
BY HopInvariant, PTL DEF HopInv

-----------------------------------------------------------------------------
(* What the audit drops and what is reported.                              *)

\* The strikes the audit keeps are the history of bad windows; between a
\* window's measurement and its audit they lag behind by that window.
StrikesMatch ==
  IF pcI = "audit" THEN badWindows = Struck(window)
                   ELSE badWindows = first_hop_strikes

\* The history and the audit judge a window alike.
LEMMA JudgedAsStruck ==
  ASSUME badWindows = first_hop_strikes, NEW m, NEW w \in [m -> Loss]
  PROVE  Judged(w) = Struck(w)
BY DEF FirstHopsIn, Judged, Struck, Answered, Artefacts, TOTAL_LOSS, Loss

\* The audit counts every bad window once, whatever discovery does meanwhile.
THEOREM StrikesInvariant == Spec => []StrikesMatch
<1>1. Init => StrikesMatch
  BY DEF Init, StrikesMatch
<1>2. TypeOK /\ StrikesMatch /\ [Next]_vars => StrikesMatch'
  <2> SUFFICES ASSUME TypeOK, StrikesMatch, [Next]_vars PROVE StrikesMatch'
    OBVIOUS
  <2> USE DEF StrikesMatch, vars, icmpLocal
  <2>1. CASE EndWindow
    <3>0. PICK measured \in SUBSET DOMAIN targets :
            \E w \in [measured -> Loss] : Measure(w)
      BY <2>1 DEF EndWindow
    <3>1. PICK w \in [measured -> Loss] : Measure(w)
      BY <3>0
    <3>2. badWindows' = Struck(w)
      BY <3>1, JudgedAsStruck DEF Measure
    <3>3. Struck(w) = Struck(window)'
      BY <3>1 DEF Measure, Struck, Answered, Artefacts, AnchorsClean,
         AnchorsIn, FirstHopsIn
    <3> QED
      BY <3>1, <3>2, <3>3 DEF Measure
  <2>2. CASE AuditKeeps \/ AuditDrops
    BY <2>2 DEF AuditKeeps, AuditDrops
  <2>3. CASE StartWindow \/ PingFails \/ AuditForgets \/ ReportEvents
    BY <2>3 DEF StartWindow, PingFails, AuditForgets, ReportEvents
  <2>4. CASE UNCHANGED icmpLocal
    BY <2>4 DEF Struck, Answered, Artefacts, AnchorsClean, AnchorsIn,
       FirstHopsIn
  <2>5. DiscoveryNext => UNCHANGED icmpLocal
    BY DEF DiscoveryNext, RevalidateReads, RevalidateKeeps, RevalidateDrops,
       RevalidateForgets, TraceShowsNothingNew, TraceShowsCandidate,
       CandidateUnusable, Adopt, Publish
  <2> QED
    BY <2>1, <2>2, <2>3, <2>4, <2>5 DEF Next, IcmpNext
<1> QED
  BY <1>1, <1>2, TypeCorrect, PTL DEF Spec

\* A hop is dropped by the audit only after three bad windows.
THEOREM DropsAreEarned == Spec => DropTakesThreeBadWindows
<1>1. StrikesMatch /\ [Next]_vars =>
        [\A h \in first_hop_dropped' \ first_hop_dropped :
            badWindows[h] >= FIRST_HOP_STRIKES]_vars
  <2> SUFFICES ASSUME StrikesMatch, Next,
                      NEW h \in first_hop_dropped' \ first_hop_dropped
               PROVE  badWindows[h] >= FIRST_HOP_STRIKES
    OBVIOUS
  <2>1. AuditDrops
    BY DEF Next, IcmpNext, DiscoveryNext, StartWindow, PingFails, EndWindow,
       Measure, AuditKeeps, AuditForgets, ReportEvents, RevalidateReads,
       RevalidateKeeps, RevalidateDrops, RevalidateForgets,
       TraceShowsNothingNew, TraceShowsCandidate, CandidateUnusable, Adopt,
       Publish, icmpLocal
  <2> QED
    BY <2>1 DEF AuditDrops, Offenders, StrikesMatch
<1> QED
  BY <1>1, StrikesInvariant, PTL DEF Spec, DropTakesThreeBadWindows

\* Nothing is held as reported before check_event has run for the window.
ReportInv ==
  /\ pcI # "idle" => reported = {}
  /\ pcI = "idle" => reported \subseteq Checked(window)

\* An artefact is never reported as an outage.
THEOREM ArtefactsUnreported == Spec => []NoArtefactReported
<1>1. Init => ReportInv
  BY DEF Init, ReportInv
<1>2. ReportInv /\ [Next]_vars => ReportInv'
  <2> SUFFICES ASSUME ReportInv, [Next]_vars PROVE ReportInv'
    OBVIOUS
  <2> USE DEF ReportInv, vars, icmpLocal
  <2>1. CASE StartWindow \/ EndWindow \/ AuditKeeps \/ AuditDrops
             \/ AuditForgets \/ PingFails
    BY <2>1 DEF StartWindow, EndWindow, Measure, AuditKeeps, AuditDrops,
       AuditForgets, PingFails
  <2>2. CASE ReportEvents
    BY <2>2 DEF ReportEvents, Checked, Artefacts, AnchorsClean, AnchorsIn,
       FirstHopsIn
  <2>3. CASE UNCHANGED icmpLocal
    BY <2>3 DEF Checked, Artefacts, AnchorsClean, AnchorsIn, FirstHopsIn
  <2>4. DiscoveryNext => UNCHANGED icmpLocal
    BY DEF DiscoveryNext, RevalidateReads, RevalidateKeeps, RevalidateDrops,
       RevalidateForgets, TraceShowsNothingNew, TraceShowsCandidate,
       CandidateUnusable, Adopt, Publish
  <2> QED
    BY <2>1, <2>2, <2>3, <2>4 DEF Next, IcmpNext
<1>3. ReportInv => NoArtefactReported
  BY DEF ReportInv, NoArtefactReported, Checked, Artefacts, FirstHopsIn,
     TOTAL_LOSS
<1> QED
  BY <1>1, <1>2, <1>3, PTL DEF Spec

-----------------------------------------------------------------------------
(* Windows: what two threads can and cannot do to the unlocked             *)
(* last_event_trace.                                                       *)


Young(c) == c.age < Cooldown

\* What the spacing of the captures rests on: none is younger than
\* last_event_trace; as long as a thread is between reading that and writing it,
\* the captures within the cooldown are other threads' and of this moment.
SinceIsLeast == \A c \in captures : Young(c) => since <= c.age

DueTogether ==
  \A t \in Threads : pc[t] = "due" =>
    enabled /\ \A c \in captures : Young(c) => c.age = 0 /\ c.by # t

WindowsInv ==
  /\ WindowsTypeOK /\ TracesAreSpaced /\ CooldownHasATrace
  /\ SinceIsLeast /\ DueTogether

USE DEF Young, Goes

\* Capture records have number ages.
LEMMA CapturesTyped ==
  ASSUME WindowsTypeOK, NEW c \in captures
  PROVE  c.by \in Threads /\ c.age \in Nat /\ c.running \in BOOLEAN
  BY DEF WindowsTypeOK

LEMMA WindowsInitInv == WindowsInit => WindowsInv
  BY WindowsAssumption
  DEF WindowsInit, WindowsInv, WindowsTypeOK, TracesAreSpaced, CooldownHasATrace,
      SinceIsLeast,
      DueTogether, Slots

\* A step that adds no thread to those between reading and writing, and leaves
\* the captures and the age alone, keeps the invariant.
LEMMA QuietInv ==
  ASSUME WindowsInv, WindowsTypeOK', UNCHANGED <<enabled, since, captures>>,
         \A t \in Threads : pc'[t] = "due" => pc[t] = "due"
  PROVE  WindowsInv'
  BY DEF WindowsInv, TracesAreSpaced, CooldownHasATrace, SinceIsLeast, DueTogether

LEMMA StartThreadsInv ==
  ASSUME WindowsInv, NEW G \in SUBSET Families, StartThreads(G) PROVE WindowsInv'
<1>1. WindowsTypeOK'
  BY WindowsAssumption DEF WindowsInv, WindowsTypeOK, StartThreads, Other, Slots, Threads
<1>2. \A t \in Threads : pc'[t] = "due" => pc[t] = "due"
  BY DEF StartThreads
<1> QED
  BY <1>1, <1>2, QuietInv DEF StartThreads

LEMMA JoinThreadsInv == WindowsInv /\ JoinThreads => WindowsInv'
<1> SUFFICES ASSUME WindowsInv, JoinThreads PROVE WindowsInv'
  OBVIOUS
<1>1. WindowsTypeOK'
  BY DEF WindowsInv, WindowsTypeOK, JoinThreads
<1> QED
  BY <1>1, QuietInv DEF JoinThreads

\* The thread's steps that touch neither last_event_trace nor the captures.
LEMMA MeasuringInv ==
  ASSUME WindowsInv, NEW t \in Threads,
         \/ NothingMeasured(t) \/ MeasureEnds(t)
         \/ \E n \in 0 .. MaxHosts : Measured(t, n)
  PROVE  WindowsInv'
<1>1. WindowsTypeOK' /\ UNCHANGED <<enabled, since, captures>>
  BY DEF WindowsInv, WindowsTypeOK, NothingMeasured, MeasureEnds, Measured
<1>2. \A u \in Threads : pc'[u] = "due" => pc[u] = "due"
  BY DEF WindowsInv, WindowsTypeOK, NothingMeasured, MeasureEnds, Measured
<1> QED
  BY <1>1, <1>2, QuietInv

LEMMA CheckEventInv ==
  ASSUME WindowsInv, NEW t \in Threads, CheckEvent(t) PROVE WindowsInv'
<1>1. WindowsTypeOK'
  BY WindowsAssumption DEF WindowsInv, WindowsTypeOK, CheckEvent
<1>2. TracesAreSpaced' /\ CooldownHasATrace' /\ SinceIsLeast'
  BY DEF WindowsInv, TracesAreSpaced, CooldownHasATrace, SinceIsLeast, CheckEvent
<1>3. DueTogether'
  <2> SUFFICES ASSUME NEW u \in Threads, pc'[u] = "due"
               PROVE  enabled /\ \A c \in captures : Young(c) => c.age = 0 /\ c.by # u
    BY DEF DueTogether, CheckEvent
  <2>1. CASE pc[u] = "due"
    BY <2>1 DEF WindowsInv, DueTogether
  <2>2. CASE pc[u] # "due"
    <3>1. Due
      BY <2>2 DEF WindowsInv, WindowsTypeOK, CheckEvent
    <3>2. \A c \in captures : ~Young(c)
      BY <3>1, CapturesTyped, WindowsAssumption DEF WindowsInv, WindowsTypeOK, SinceIsLeast, Due
    <3> QED
      BY <3>1, <3>2 DEF Due
  <2> QED
    BY <2>1, <2>2
<1> QED
  BY <1>1, <1>2, <1>3 DEF WindowsInv

LEMMA StartTraceInv ==
  ASSUME WindowsInv, NEW t \in Threads, StartTrace(t) PROVE WindowsInv'
<1> DEFINE new == [by |-> t, age |-> 0, running |-> TRUE]
<1>0. /\ new \in [by : Threads, age : Nat, running : BOOLEAN]
      /\ new.by = t /\ new.age = 0
  OBVIOUS
<1>2. captures' = captures \cup {new} /\ since' = 0 /\ enabled' = enabled
  BY DEF StartTrace, Marked
<1> HIDE DEF new
<1>1. WindowsTypeOK'
  <2>1. captures' \subseteq [by : Threads, age : Nat, running : BOOLEAN]
    BY <1>0, <1>2 DEF WindowsInv, WindowsTypeOK
  <2>2. pc' \in [Threads -> {"off", "ping", "check", "due"}]
    BY DEF WindowsInv, WindowsTypeOK, StartTrace
  <2>3. since' \in 0 .. Cooldown
    BY <1>2, WindowsAssumption
  <2> QED
    BY <2>1, <2>2, <2>3 DEF WindowsInv, WindowsTypeOK, StartTrace
<1>3. enabled /\ \A c \in captures : Young(c) => c.age = 0 /\ c.by # t
  BY DEF WindowsInv, DueTogether, StartTrace
<1>4. TracesAreSpaced'
  <2> SUFFICES ASSUME NEW c \in captures', NEW d \in captures', c # d,
                      Young(c), Young(d)
               PROVE  c.age = d.age /\ c.by # d.by
    BY DEF TracesAreSpaced
  <2>1. CASE c = new
    BY <1>0, <1>2, <1>3, <2>1
  <2>2. CASE d = new
    BY <1>0, <1>2, <1>3, <2>2
  <2>3. CASE c # new /\ d # new
    BY <1>2, <2>3 DEF WindowsInv, TracesAreSpaced
  <2> QED
    BY <2>1, <2>2, <2>3
<1>5. CooldownHasATrace'
  <2>1. new \in captures' /\ new.age = since' /\ enabled'
    BY <1>0, <1>2, <1>3
  <2> QED
    BY <2>1 DEF CooldownHasATrace
<1>6. SinceIsLeast'
  BY <1>0, <1>2, CapturesTyped DEF WindowsInv, SinceIsLeast
<1>7. DueTogether'
  <2> SUFFICES ASSUME NEW u \in Threads, pc'[u] = "due"
               PROVE  enabled' /\ \A c \in captures' : Young(c) => c.age = 0 /\ c.by # u
    BY DEF DueTogether
  <2>1. u # t /\ pc[u] = "due"
    BY DEF WindowsInv, WindowsTypeOK, StartTrace
  <2> QED
    BY <1>0, <1>2, <2>1 DEF WindowsInv, DueTogether
<1> QED
  BY <1>1, <1>4, <1>5, <1>6, <1>7 DEF WindowsInv

\* Fewer captures of the same age and thread, and none within the cooldown lost,
\* keep the invariant.
LEMMA FewerInv ==
  ASSUME WindowsInv, WindowsTypeOK', UNCHANGED <<enabled, pc, since>>,
         \A d \in captures' : \E c \in captures : c.age = d.age /\ c.by = d.by,
         \A c \in captures : Young(c) => \E d \in captures' : c.age = d.age
  PROVE  CooldownHasATrace' /\ SinceIsLeast' /\ DueTogether'
<1>1. CooldownHasATrace'
  <2>1. CASE since < Cooldown
    BY <2>1 DEF WindowsInv, CooldownHasATrace
  <2>2. CASE ~(since < Cooldown)
    BY <2>2 DEF WindowsInv, CooldownHasATrace
  <2> QED
    BY <2>1, <2>2
<1>2. SinceIsLeast' /\ DueTogether'
  BY DEF WindowsInv, SinceIsLeast, DueTogether
<1> QED
  BY <1>1, <1>2

LEMMA CaptureEndsInv ==
  ASSUME WindowsInv, NEW c \in captures, CaptureEnds(c) PROVE WindowsInv'
<1> DEFINE ended == [c EXCEPT !.running = FALSE]
<1>1. /\ ended \in [by : Threads, age : Nat, running : BOOLEAN]
      /\ ended.by = c.by /\ ended.age = c.age
  BY DEF WindowsInv, WindowsTypeOK
<1>2. captures' = Followed((captures \ {c}) \cup {ended})
  BY DEF CaptureEnds
<1> HIDE DEF ended
<1>3. WindowsTypeOK'
  <2>1. captures' \subseteq [by : Threads, age : Nat, running : BOOLEAN]
    BY <1>1, <1>2 DEF WindowsInv, WindowsTypeOK, Followed
  <2> QED
    BY <2>1 DEF WindowsInv, WindowsTypeOK, CaptureEnds
<1>4. \A d \in captures' : \E b \in captures : b.age = d.age /\ b.by = d.by
  BY <1>1, <1>2 DEF Followed
<1>5. \A b \in captures : Young(b) => \E d \in captures' : b.age = d.age
  BY <1>1, <1>2 DEF Followed
<1>6. TracesAreSpaced'
  <2> SUFFICES ASSUME NEW d \in captures', NEW e \in captures', d # e,
                      Young(d), Young(e)
               PROVE  d.age = e.age /\ d.by # e.by
    BY DEF TracesAreSpaced
  <2>1. PICK a \in captures, b \in captures :
          /\ a # b /\ a.age = d.age /\ a.by = d.by
          /\ b.age = e.age /\ b.by = e.by
    BY <1>1, <1>2 DEF Followed
  <2> QED
    BY <2>1 DEF WindowsInv, TracesAreSpaced
<1> QED
  BY <1>3, <1>4, <1>5, <1>6, FewerInv DEF WindowsInv, CaptureEnds

\* What a tick makes of a capture.
LEMMA AgedTyped ==
  ASSUME WindowsTypeOK, NEW c \in captures
  PROVE  LET d == [c EXCEPT !.age = @ + 1]
         IN  /\ d \in [by : Threads, age : Nat, running : BOOLEAN]
             /\ d.age = c.age + 1 /\ d.by = c.by
  BY DEF WindowsTypeOK

LEMMA TickInv == WindowsInv /\ Tick => WindowsInv'
<1> SUFFICES ASSUME WindowsInv, Tick PROVE WindowsInv'
  OBVIOUS
<1> DEFINE aged(c) == [c EXCEPT !.age = @ + 1]
<1>1. \A c \in captures :
        /\ aged(c) \in [by : Threads, age : Nat, running : BOOLEAN]
        /\ aged(c).age = c.age + 1 /\ aged(c).by = c.by /\ c.age \in Nat
  BY AgedTyped, CapturesTyped DEF WindowsInv
<1>2. captures' = Followed({aged(c) : c \in captures}) /\ enabled' = enabled
  BY DEF Tick
<1>3. /\ since \in 0 .. Cooldown /\ since' \in 0 .. Cooldown
      /\ since < Cooldown => since' = since + 1
      /\ since = Cooldown => since' = Cooldown
  BY WindowsAssumption DEF WindowsInv, WindowsTypeOK, Tick, Older
<1> HIDE DEF aged
<1>4. \A d \in captures' : \E c \in captures : d = aged(c)
  BY <1>2 DEF Followed
<1>5. WindowsTypeOK'
  <2>1. captures' \subseteq [by : Threads, age : Nat, running : BOOLEAN]
    BY <1>1, <1>4
  <2> QED
    BY <1>3, <2>1 DEF WindowsInv, WindowsTypeOK, Tick
<1>6. TracesAreSpaced'
  <2> SUFFICES ASSUME NEW d \in captures', NEW e \in captures', d # e,
                      Young(d), Young(e)
               PROVE  d.age = e.age /\ d.by # e.by
    BY DEF TracesAreSpaced
  <2>1. PICK a \in captures, b \in captures : d = aged(a) /\ e = aged(b)
    BY <1>4
  <2>2. a # b /\ Young(a) /\ Young(b)
    BY <1>1, <2>1, WindowsAssumption
  <2> QED
    BY <1>1, <2>1, <2>2 DEF WindowsInv, TracesAreSpaced
<1>7. CooldownHasATrace'
  <2>1. ASSUME since' < Cooldown PROVE \E d \in captures' : d.age = since'
    <3>1. since < Cooldown /\ since' = since + 1
      BY <1>3, <2>1, WindowsAssumption
    <3>2. PICK c \in captures : c.age = since
      BY <3>1 DEF WindowsInv, CooldownHasATrace
    <3>3. aged(c).age = since' /\ aged(c) \in {aged(b) : b \in captures}
      BY <1>1, <3>1, <3>2
    <3> QED
      BY <1>2, <2>1, <3>3 DEF Followed
  <2>2. ~enabled' => captures' = {}
    BY <1>2, <1>4 DEF WindowsInv, CooldownHasATrace
  <2> QED
    BY <2>1, <2>2 DEF CooldownHasATrace
<1>8. SinceIsLeast'
  <2> SUFFICES ASSUME NEW d \in captures', Young(d) PROVE since' <= d.age
    BY DEF SinceIsLeast
  <2>1. PICK c \in captures : d = aged(c)
    BY <1>4
  <2>2. Young(c) /\ since <= c.age
    BY <1>1, <2>1, WindowsAssumption DEF WindowsInv, SinceIsLeast
  <2> QED
    BY <1>1, <1>3, <2>1, <2>2, WindowsAssumption
<1>9. DueTogether'
  BY DEF DueTogether, Tick
<1> QED
  BY <1>5, <1>6, <1>7, <1>8, <1>9 DEF WindowsInv

-----------------------------------------------------------------------------
\* WindowsInv, the inductive strengthening, is an invariant.  (measure, check_event.)
THEOREM WindowsInvariant == WindowsSpec => []WindowsInv
<1>1. WindowsInv /\ [WindowsNext]_windowsVars => WindowsInv'
  <2> SUFFICES ASSUME WindowsInv, [WindowsNext]_windowsVars PROVE WindowsInv'
    OBVIOUS
  <2>1. ASSUME NEW t \in Threads, Thread(t) PROVE WindowsInv'
    BY <2>1, MeasuringInv, CheckEventInv, StartTraceInv DEF Thread
  <2>2. ASSUME LoopNext PROVE WindowsInv'
    BY <2>1, <2>2, StartThreadsInv, JoinThreadsInv DEF LoopNext, Measuring
  <2>3. CASE UNCHANGED windowsVars
    BY <2>3, QuietInv DEF WindowsInv, WindowsTypeOK, windowsVars
  <2> QED
    BY <2>1, <2>2, <2>3, CaptureEndsInv, TickInv DEF WindowsNext
<1> QED
  BY WindowsInitInv, <1>1, PTL DEF WindowsSpec

\* Every behaviour of the loop, its threads and the captures is of its types.
THEOREM WindowsTypeCorrect == WindowsSpec => []WindowsTypeOK
<1>1. WindowsInv => WindowsTypeOK
  BY DEF WindowsInv
<1> QED
  BY <1>1, WindowsInvariant, PTL

\* Two captures within a cooldown are of one moment and of two threads, for any
\* families, cooldown and numbers of hosts.  (check_event's unlocked check.)
THEOREM Spaced == WindowsSpec => []TracesAreSpaced
<1>1. WindowsInv => TracesAreSpaced
  BY DEF WindowsInv
<1> QED
  BY <1>1, WindowsInvariant, PTL

\* An event that captures no path finds one captured within the cooldown.
\* (check_event.)
THEOREM CooldownTraced == WindowsSpec => []CooldownHasATrace
<1>1. WindowsInv => CooldownHasATrace
  BY DEF WindowsInv
<1> QED
  BY <1>1, WindowsInvariant, PTL
=============================================================================
