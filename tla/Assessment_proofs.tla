------------------------- MODULE Assessment_proofs -------------------------
(***************************************************************************)
(* Proofs about Reach, for any sites, families and records, carried over   *)
(* to Assessment by the fact that it implements Reach; and about what the  *)
(* report concludes from any figures the collectors can have gathered.     *)
(***************************************************************************)
EXTENDS Assessment, Folding

\* A cycle under way has begun, and the table is finite.
Begun ==
  /\ IsFiniteSet(rows)
  /\ site # None \/ sites # {} => cycle >= 1

\* Rows are of cycles begun, and say something only of what is published; those
\* of this cycle are of hosts whose turn has come.
RowsInPlace ==
  /\ \A r \in rows : r.cycle <= cycle
  /\ \A r \in rows : r.outcome # "unresolved" => <<r.host, r.family>> \in Published
  /\ \A r \in rows : r.cycle = cycle =>
       /\ r.host \notin sites
       /\ r.host = site => r \in outcomes

\* A host is told of once in a cycle, when its turn is over.
EventsInPlace ==
  \A e \in raised :
    /\ e.cycle <= cycle
    /\ e.cycle = cycle => e.host \notin sites /\ e.host # site
    /\ e.kind = "address_family_broken" => <<e.host, e.family>> \in Published
    /\ e.kind = "site_unreachable" => e.family = "reach"

ReachInv == ReachTypeOK /\ Begun /\ RowsInPlace /\ EventsInPlace /\ EventsAreBacked

-----------------------------------------------------------------------------
\* CHOOSE takes an element.
LEMMA FirstIsElement ==
  ASSUME NEW S, S # {}
  PROVE  First(S) \in S
  BY DEF First

LEMMA ReachInitInv == ReachInit => ReachInv
  BY ReachAssumption, FS_EmptySet
  DEF ReachInit, ReachInv, ReachTypeOK, Begun, RowsInPlace, EventsInPlace,
      EventsAreBacked, None

LEMMA CyclesAreNumbers ==
  ASSUME ReachTypeOK
  PROVE  cycle \in Int /\ \A e \in raised : e.cycle \in Int
  <1>1. cycle \in Int
    BY ReachAssumption DEF ReachTypeOK
  <1>2. ASSUME NEW e \in raised
        PROVE  e.cycle \in Int
    <2>1. e.cycle \in 1 .. MaxCycles
      BY DEF ReachTypeOK
    <2> QED BY <2>1, ReachAssumption
  <1> QED BY <1>1, <1>2

LEMMA BeginCycleInv == ReachInv /\ BeginCycle => ReachInv'
  <1> SUFFICES ASSUME ReachInv, BeginCycle
               PROVE  ReachInv'
    OBVIOUS
  <1> USE ReachAssumption DEF ReachInv, BeginCycle
  <1>1. ReachTypeOK'
    BY DEF ReachTypeOK, Rows, None
  <1>2. Begun'
    BY DEF Begun, ReachTypeOK
  <1>3. RowsInPlace'
    BY DEF RowsInPlace, ReachTypeOK, Rows
  <1>4. EventsInPlace'
    <2>1. cycle \in Int /\ \A e \in raised : e.cycle \in Int /\ e.cycle <= cycle
      BY CyclesAreNumbers DEF EventsInPlace
    <2>2. cycle' = cycle + 1 /\ raised' = raised
      OBVIOUS
    <2> HIDE DEF ReachInv, BeginCycle
    <2>3. \A e \in raised' : e.cycle <= cycle' /\ e.cycle # cycle'
      BY <2>1, <2>2
    <2> QED BY <2>2, <2>3 DEF ReachInv, EventsInPlace
  <1>5. EventsAreBacked'
    BY DEF EventsAreBacked
  <1> QED BY <1>1, <1>2, <1>3, <1>4, <1>5

LEMMA BeginSiteInv == ReachInv /\ BeginSite => ReachInv'
  <1> SUFFICES ASSUME ReachInv, BeginSite
               PROVE  ReachInv'
    OBVIOUS
  <1>1. First(sites) \in sites
    BY FirstIsElement DEF BeginSite
  <1> USE ReachAssumption DEF ReachInv, BeginSite, Left
  <1>2. ReachTypeOK'
    <2>1. outcomes = {}
      BY DEF ReachTypeOK, Rows, None
    <2> QED BY <1>1, <2>1 DEF ReachTypeOK, None
  <1>3. Begun' /\ RowsInPlace'
    BY <1>1 DEF Begun, RowsInPlace
  <1>4. EventsInPlace' /\ EventsAreBacked'
    BY <1>1 DEF EventsInPlace, EventsAreBacked
  <1> QED BY <1>2, <1>3, <1>4

LEMMA CheckFamilyInv == ReachInv /\ CheckFamily => ReachInv'
  <1> SUFFICES ASSUME ReachInv, CheckFamily
               PROVE  ReachInv'
    OBVIOUS
  <1> DEFINE f == First(Families \ Tested)
             Row(o) == [cycle |-> cycle, host |-> site, family |-> f, outcome |-> o]
  <1>1. f \in Families
    BY FirstIsElement DEF ReachInv, ReachTypeOK, Rows, Tested, CheckFamily
  <1>2. PICK o \in check_family(site, f) :
          rows' = rows \cup {Row(o)} /\ outcomes' = outcomes \cup {Row(o)}
    BY DEF CheckFamily
  <1>3. /\ o \in Outcomes
        /\ o # "unresolved" => <<site, f>> \in Published
    BY <1>2 DEF check_family, Outcomes
  <1>4. /\ site \in Hosts /\ cycle \in 1 .. MaxCycles
        /\ UNCHANGED <<cycle, site, sites, raised>>
    BY ReachAssumption DEF ReachInv, ReachTypeOK, Begun, CheckFamily
  <1> HIDE DEF f
  <1>5. ReachTypeOK' /\ Begun'
    <2>1. Row(o) \in Rows
      BY <1>1, <1>3, <1>4 DEF Rows
    <2>2. IsFiniteSet(rows')
      BY <1>2, FS_AddElement DEF ReachInv, Begun
    <2> QED BY <1>2, <1>4, <2>1, <2>2 DEF ReachInv, ReachTypeOK, Begun
  <1>6. RowsInPlace'
    <2>1. Row(o).cycle = cycle /\ Row(o).host = site /\ Row(o).family = f /\ Row(o).outcome = o
      OBVIOUS
    <2>2. cycle <= cycle /\ site \notin sites
      BY <1>4 DEF ReachInv, ReachTypeOK
    <2> HIDE DEF Row
    <2> QED BY <1>2, <1>3, <1>4, <2>1, <2>2 DEF ReachInv, RowsInPlace
  <1>7. EventsInPlace'
    BY <1>4 DEF ReachInv, EventsInPlace
  <1>8. EventsAreBacked'
    <2> SUFFICES ASSUME NEW e \in raised
                 PROVE  EventsAreBacked!(e)'
      BY <1>4 DEF EventsAreBacked
    <2>1. \A r \in rows' : r \in rows \/ (r.cycle = cycle /\ r.host = site)
      BY <1>2
    <2>2. ~(e.cycle = cycle /\ e.host = site)
      BY DEF ReachInv, EventsInPlace
    <2>3. {r \in rows' : r.cycle = e.cycle /\ r.host = e.host}
            = {r \in rows : r.cycle = e.cycle /\ r.host = e.host}
      BY <1>2, <2>1, <2>2
    <2> QED BY <2>3 DEF ReachInv, EventsAreBacked
  <1> QED BY <1>5, <1>6, <1>7, <1>8 DEF ReachInv

LEMMA CompareFamiliesInv == ReachInv /\ CompareFamilies => ReachInv'
  <1> SUFFICES ASSUME ReachInv, CompareFamilies
               PROVE  ReachInv'
    OBVIOUS
  <1>1. /\ site \in Hosts /\ cycle \in 1 .. MaxCycles
        /\ site' = None /\ outcomes' = {} /\ UNCHANGED <<cycle, sites, rows>>
    BY ReachAssumption DEF ReachInv, ReachTypeOK, Begun, CompareFamilies
  <1>2. ASSUME NEW e \in raised', e \notin raised
        PROVE  /\ e.cycle = cycle /\ e.host = site
               /\ \/ /\ e.kind = "address_family_broken" /\ e.family \in Asymmetric
                     /\ e = Event("address_family_broken", e.family)
                  \/ /\ e.kind = "site_unreachable" /\ e.family = "reach" /\ Unreachable
                     /\ e = Event("site_unreachable", "reach")
    BY <1>2 DEF CompareFamilies, Event
  <1>3. Asymmetric \subseteq Families
    BY DEF ReachInv, ReachTypeOK, Rows, Asymmetric, Tested
  <1>4. ReachTypeOK'
    <2>1. ASSUME NEW e \in raised', e \notin raised
          PROVE  e \in [cycle : 1 .. MaxCycles, host : Hosts,
                        kind : {"address_family_broken", "site_unreachable"},
                        family : Families \cup {"reach"}]
      BY <1>1, <1>2, <1>3, <2>1 DEF Event
    <2> QED BY <1>1, <2>1, ReachAssumption DEF ReachInv, ReachTypeOK, None
  <1>5. Begun'
    BY <1>1 DEF ReachInv, Begun
  <1>6. RowsInPlace'
    <2>1. \A r \in rows : r.host # None
      BY ReachAssumption DEF ReachInv, ReachTypeOK, Rows, None
    <2> QED BY <1>1, <2>1 DEF ReachInv, RowsInPlace
  <1>7. EventsInPlace'
    <2>1. \A e \in raised' : e.host # None
      BY <1>4, ReachAssumption DEF ReachTypeOK, None
    <2>2. ASSUME NEW g \in Asymmetric
          PROVE  <<site, g>> \in Published
      BY DEF ReachInv, ReachTypeOK, RowsInPlace, Asymmetric
    <2>3. ASSUME NEW e \in raised', e \notin raised
          PROVE  /\ e.cycle <= cycle /\ e.host \notin sites
                 /\ e.kind = "address_family_broken" => <<e.host, e.family>> \in Published
                 /\ e.kind = "site_unreachable" => e.family = "reach"
      BY <1>1, <1>2, <2>2, <2>3 DEF ReachInv, ReachTypeOK
    <2> QED BY <1>1, <2>1, <2>3 DEF ReachInv, EventsInPlace
  <1>8. EventsAreBacked'
    <2> SUFFICES ASSUME NEW e \in raised'
                 PROVE  EventsAreBacked!(e)'
      BY DEF EventsAreBacked
    <2>1. CASE e \in raised
      BY <1>1, <2>1 DEF ReachInv, EventsAreBacked
    <2>2. CASE e \notin raised
      <3> DEFINE shown == {r \in rows : r.cycle = e.cycle /\ r.host = e.host}
      <3>1. shown = outcomes
        BY <1>1, <1>2, <2>2 DEF ReachInv, ReachTypeOK, RowsInPlace
      <3>2. CASE e.kind = "site_unreachable"
        <4>1. Unreachable
          BY <1>2, <2>2, <3>2
        <4>2. /\ \E r \in shown : r.outcome = "failed"
              /\ \A r \in shown : r.outcome # "ok"
          BY <3>1, <4>1 DEF Unreachable, Attempted
        <4> QED BY <1>1, <3>2, <4>2
      <3>3. CASE e.kind # "site_unreachable"
        <4>1. e.family \in Asymmetric
          BY <1>2, <2>2, <3>3
        <4>2. /\ \E r \in shown : r.family = e.family /\ r.outcome = "failed"
              /\ \E r \in shown : r.family # e.family /\ r.outcome = "ok"
          BY <3>1, <4>1 DEF Asymmetric
        <4> QED BY <1>1, <3>3, <4>2
      <3> QED BY <3>2, <3>3
    <2> QED BY <2>1, <2>2
  <1> QED BY <1>4, <1>5, <1>6, <1>7, <1>8 DEF ReachInv

LEMMA StopInv == ReachInv /\ Stop => ReachInv'
  <1> SUFFICES ASSUME ReachInv, Stop
               PROVE  ReachInv'
    OBVIOUS
  <1> USE ReachAssumption DEF ReachInv, Stop
  <1>1. \A x \in rows \cup raised : x.host # None
    BY DEF ReachTypeOK, Rows, None
  <1>2. ReachTypeOK' /\ Begun'
    BY DEF ReachTypeOK, Begun, None
  <1>3. RowsInPlace' /\ EventsInPlace' /\ EventsAreBacked'
    BY <1>1 DEF RowsInPlace, EventsInPlace, EventsAreBacked
  <1> QED BY <1>2, <1>3

\* The inductive invariant of the collector.
THEOREM ReachInvariant == ReachSpec => []ReachInv
  <1>1. ReachInv /\ UNCHANGED reachVars => ReachInv'
    BY DEF ReachInv, ReachTypeOK, Begun, RowsInPlace, EventsInPlace, EventsAreBacked,
           reachVars
  <1>2. ReachInv /\ [ReachNext]_reachVars => ReachInv'
    BY <1>1, BeginCycleInv, BeginSiteInv, CheckFamilyInv, CompareFamiliesInv, StopInv
    DEF ReachNext
  <1> QED BY <1>2, ReachInitInv, PTL DEF ReachSpec

-----------------------------------------------------------------------------
LEMMA PublishedOnly == ReachInv => NoRecordIsNoFault
  <1> SUFFICES ASSUME ReachInv, NEW h \in Hosts, NEW f \in Families,
                      <<h, f>> \notin Published
               PROVE  /\ <<h, f>> \notin broken_families
                      /\ \A e \in raised : ~(e.host = h /\ e.family = f)
    BY DEF NoRecordIsNoFault
  <1>1. Attempts(h, f) = {}
    BY DEF ReachInv, RowsInPlace, Attempts, RowsOf
  <1>2. <<h, f>> \notin broken_families
    BY <1>1 DEF broken_families, Broken
  <1>3. ASSUME NEW e \in raised, e.host = h, e.family = f
        PROVE  FALSE
    <2>1. e.kind \in {"address_family_broken", "site_unreachable"} /\ f # "reach"
      BY ReachAssumption DEF ReachInv, ReachTypeOK
    <2> QED BY <1>3, <2>1 DEF ReachInv, EventsInPlace
  <1> QED BY <1>2, <1>3

\* Fewer than half of the attempts failed, so one did not.
LEMMA WorkingFamilyConnected ==
  ASSUME ReachInv, NEW h, NEW f, Works(h, f)
  PROVE  \E r \in rows : r.host = h /\ r.family = f /\ r.outcome = "ok"
  <1>1. Failed(h, f) # Attempts(h, f)
    <2>1. IsFiniteSet(Attempts(h, f))
      BY FS_Subset DEF ReachInv, Begun, Attempts, RowsOf
    <2>2. Cardinality(Attempts(h, f)) \in Nat
      BY <2>1, FS_CardinalityType
    <2> QED BY <2>2 DEF Works
  <1> QED BY <1>1 DEF Failed, Attempts, RowsOf

LEMMA BrokenNextToWorking == ReachInv => AnotherFamilyConnected
  <1> SUFFICES ASSUME ReachInv, NEW b \in broken_families
               PROVE  \E r \in rows : r.host = b[1] /\ r.family # b[2] /\ r.outcome = "ok"
    BY DEF AnotherFamilyConnected
  <1>1. PICK f \in Families : Works(b[1], f)
    BY DEF broken_families
  <1>2. f # b[2]
    <2>1. Broken(b[1], b[2])
      BY DEF broken_families
    <2>2. /\ Cardinality(Attempts(b[1], b[2])) \in Nat
          /\ Cardinality(Failed(b[1], b[2])) \in Nat
      BY FS_Subset, FS_CardinalityType DEF ReachInv, Begun, Attempts, Failed, RowsOf
    <2> QED BY <1>1, <2>1, <2>2 DEF Broken, Works
  <1> QED BY <1>1, <1>2, WorkingFamilyConnected

-----------------------------------------------------------------------------
\* What grows beside it leaves the collector alone: the composition implements it.
THEOREM AssessmentImplementsReach == Spec => ReachSpec
  <1>1. Init => ReachInit
    BY DEF Init
  <1>2. [Next]_vars => [ReachNext]_reachVars
    BY DEF Next, Measure, CheckEgress, LookUp, Reaching, vars
  <1> QED BY <1>1, <1>2, PTL DEF Spec, ReachSpec

\* Types of the collector's state, whatever is configured.
THEOREM ReachTypeCorrect == Spec => []ReachTypeOK
  <1>1. ReachInv => ReachTypeOK
    BY DEF ReachInv
  <1> QED BY <1>1, ReachInvariant, AssessmentImplementsReach, PTL

\* A family without a record is told of nowhere as broken.
THEOREM UnpublishedIsNoFault == Spec => []NoRecordIsNoFault
  BY PublishedOnly, ReachInvariant, AssessmentImplementsReach, PTL

\* A family is called broken only beside one that connected.
THEOREM BrokenFamilyHasWorkingOne == Spec => []AnotherFamilyConnected
  BY BrokenNextToWorking, ReachInvariant, AssessmentImplementsReach, PTL

\* Events of the collector rest on rows of their own cycle.
THEOREM EventsRestOnRows == Spec => []EventsAreBacked
  <1>1. ReachInv => EventsAreBacked
    BY DEF ReachInv
  <1> QED BY <1>1, ReachInvariant, AssessmentImplementsReach, PTL

-----------------------------------------------------------------------------
(* What comes in from the other collectors.                                *)

Lookups == [total : Nat, failed : Nat]
DnsTyped == dns \in [Roles -> Lookups]

DataInv == TypeOK /\ DnsTyped

\* One more check, batch or cycle fits where there was room.
LEMMA RoomForOne ==
  ASSUME TypeOK
  PROVE  /\ cycle \in Nat /\ batches \in Nat /\ MaxData \in Nat
         /\ \A v \in Verdicts : egress[v] \in Nat /\ egress[v] <= Checks(egress)
         /\ Checks(egress) \in Nat
         /\ Room <=> cycle + batches + Checks(egress) < MaxData
  <1>1. \A v \in Verdicts : egress[v] \in Nat
    BY AssessmentAssumption DEF TypeOK
  <1> QED
    BY <1>1, ReachAssumption, AssessmentAssumption
    DEF TypeOK, ReachTypeOK, Checks, Verdicts, Room

\* The data are well typed in the beginning.
LEMMA DataInitInv == Init => DataInv
  <1> SUFFICES ASSUME Init PROVE DataInv
    OBVIOUS
  <1>1. ReachTypeOK /\ cycle = 0
    BY ReachInitInv DEF Init, ReachInv, ReachInit
  <1>2. DnsTyped /\ \A r \in Roles : dns[r].failed \in 0 .. dns[r].total
    BY DEF Init, DnsTyped, Lookups
  <1>3. Checks(egress) = 0 /\ egress \in [Verdicts -> 0 .. MaxData]
    BY AssessmentAssumption DEF Init, Checks, Verdicts
  <1> QED
    BY <1>1, <1>2, <1>3, AssessmentAssumption DEF Init, DataInv, TypeOK

\* A batch of minutes keeps them so.
LEMMA MeasureInv ==
  ASSUME DataInv, NEW k \in Kinds, NEW n \in Batches, Measure(k, n) PROVE DataInv'
  <1>1. minutes' \in [Kinds -> Nat]
    BY AssessmentAssumption DEF DataInv, TypeOK, Measure
  <1>2. /\ batches' \in 0 .. MaxData
        /\ cycle' + batches' + Checks(egress') <= MaxData
    BY RoomForOne DEF DataInv, Measure, reachVars
  <1>3. ReachTypeOK'
    BY DEF DataInv, TypeOK, ReachTypeOK, Measure, reachVars
  <1> QED
    BY <1>1, <1>2, <1>3 DEF DataInv, TypeOK, DnsTyped, Measure

LEMMA CheckEgressInv ==
  ASSUME DataInv, NEW v \in Verdicts, CheckEgress(v) PROVE DataInv'
  <1>1. egress' = [egress EXCEPT ![v] = egress[v] + 1] /\ Room
    BY DEF CheckEgress
  <1>2. Checks(egress') = Checks(egress) + 1
    BY <1>1, RoomForOne DEF DataInv, TypeOK, Checks, Verdicts
  <1>3. egress' \in [Verdicts -> 0 .. MaxData]
    <2>1. egress[v] + 1 \in 0 .. MaxData
      BY <1>1, RoomForOne DEF DataInv
    <2> QED
      BY <1>1, <2>1 DEF DataInv, TypeOK
  <1>4. cycle' + batches' + Checks(egress') <= MaxData
    BY <1>1, <1>2, RoomForOne DEF DataInv, CheckEgress, reachVars
  <1>5. ReachTypeOK'
    BY DEF DataInv, TypeOK, ReachTypeOK, CheckEgress, reachVars
  <1> QED
    BY <1>3, <1>4, <1>5 DEF DataInv, TypeOK, DnsTyped, CheckEgress

LEMMA LookUpInv ==
  ASSUME DataInv, NEW asked \in (SUBSET Roles) \ {{}}, NEW n \in [asked -> Failures],
         LookUp(asked, n)
  PROVE  DataInv'
  <1>1. DnsTyped' /\ \A r \in Roles : dns'[r].failed \in 0 .. dns'[r].total
    <2>1. ASSUME NEW r \in Roles
          PROVE  dns'[r] \in Lookups /\ dns'[r].failed \in 0 .. dns'[r].total
      <3>1. /\ dns[r] \in Lookups /\ dns[r].total \in Nat /\ dns[r].failed \in Nat
            /\ dns[r].failed <= dns[r].total
        BY DEF DataInv, TypeOK, DnsTyped, Lookups
      <3>2. CASE r \in asked
        <4>0. n[r] \in 0 .. 100
          <5>1. n[r] \in Failures
            BY <3>2
          <5>2. Failures \subseteq 0 .. 100
            BY AssessmentAssumption
          <5> QED
            BY <5>1, <5>2, Zenon
        <4>1. n[r] \in Nat /\ n[r] <= 100
          BY <4>0
        <4>2. dns'[r] = [total |-> dns[r].total + 100, failed |-> dns[r].failed + n[r]]
          BY <3>2 DEF LookUp
        <4> QED
          BY <3>1, <4>1, <4>2 DEF Lookups
      <3>3. CASE r \notin asked
        BY <3>1, <3>3 DEF LookUp
      <3> QED
        BY <3>2, <3>3
    <2> QED
      BY <2>1 DEF DnsTyped, LookUp
  <1>2. /\ batches' \in 0 .. MaxData
        /\ cycle' + batches' + Checks(egress') <= MaxData
    BY RoomForOne DEF DataInv, LookUp, reachVars
  <1>3. ReachTypeOK'
    BY DEF DataInv, TypeOK, ReachTypeOK, LookUp, reachVars
  <1> QED
    BY <1>1, <1>2, <1>3 DEF DataInv, TypeOK, LookUp

LEMMA ReachingInv == ASSUME DataInv, ReachTypeOK', Reaching PROVE DataInv'
  <1>1. \/ cycle' = cycle
        \/ cycle' = cycle + 1 /\ Room
    BY DEF Reaching, ReachNext, BeginCycle, BeginSite, CheckFamily, CompareFamilies, Stop
  <1>2. cycle' + batches' + Checks(egress') <= MaxData
    BY <1>1, RoomForOne DEF DataInv, TypeOK, Reaching
  <1> QED
    BY <1>2 DEF DataInv, TypeOK, DnsTyped, Reaching

LEMMA DataHolds == Spec => []DataInv
  <1>1. DataInv /\ ReachTypeOK' /\ [Next]_vars => DataInv'
    <2> SUFFICES ASSUME DataInv, ReachTypeOK', [Next]_vars PROVE DataInv'
      OBVIOUS
    <2>1. CASE UNCHANGED vars
      BY <2>1 DEF DataInv, TypeOK, DnsTyped, vars, reachVars, Checks
    <2> QED
      BY <2>1, MeasureInv, CheckEgressInv, LookUpInv, ReachingInv DEF Next
  <1> QED
    BY <1>1, DataInitInv, ReachTypeCorrect, PTL DEF Spec

\* Types of the whole, and no more data than the bound lets in.
THEOREM TypeCorrect == Spec => []TypeOK
  <1>1. DataInv => TypeOK
    BY DEF DataInv
  <1> QED
    BY <1>1, DataHolds, PTL

-----------------------------------------------------------------------------
(* Findings as sequences, and the checks nobody answered.                  *)

IsSeq(s) == s \in Seq(ToSet(s))

\* A sequence of any elements is one of its own.
LEMMA SeqsAre ==
  ASSUME NEW S, NEW s \in Seq(S)
  PROVE  IsSeq(s)
  <1>1. Len(s) \in Nat /\ DOMAIN s = 1 .. Len(s) /\ s \in [1 .. Len(s) -> S]
    OBVIOUS
  <1>2. s \in [1 .. Len(s) -> ToSet(s)]
    BY <1>1 DEF ToSet
  <1> QED BY <1>1, <1>2 DEF IsSeq

\* Two sequences joined are one.
LEMMA Joined ==
  ASSUME NEW s, NEW t, IsSeq(s), IsSeq(t)
  PROVE  IsSeq(s \o t)
  <1> DEFINE S == ToSet(s) \cup ToSet(t)
  <1>1. s \in Seq(S) /\ t \in Seq(S)
    BY DEF IsSeq
  <1> HIDE DEF S
  <1>2. s \o t \in Seq(S)
    BY <1>1
  <1> QED BY <1>2, SeqsAre

\* The sequence of a finite set is one of its members.
LEMMA SetToSeqIsSeq ==
  ASSUME NEW S, IsFiniteSet(S)
  PROVE  SetToSeq(S) \in Seq(S)
  <1>1. PICK n \in Nat : n = Cardinality(S)
    BY FS_CardinalityType
  <1>2. \E f \in [1 .. n -> S] : IsInjective(f)
    BY <1>1, FS_CardinalityType DEF ExistsBijection, Bijection, Injection
  <1>3. SetToSeq(S) \in [1 .. n -> S]
    BY <1>1, <1>2 DEF SetToSeq
  <1> QED BY <1>3

\* A family that is called broken has a row in the table, and that is finite.
LEMMA BrokenIsFinite ==
  ASSUME ReachInv
  PROVE  IsFiniteSet(broken_families) /\ broken_families \subseteq Hosts \X Families
  <1> DEFINE Seen == {<<r.host, r.family>> : r \in rows}
             seen == [r \in rows |-> <<r.host, r.family>>]
  <1>1. IsFiniteSet(rows)
    BY DEF ReachInv, Begun
  <1>2. seen \in Surjection(rows, Seen)
    BY DEF Surjection
  <1>3. IsFiniteSet(Seen)
    BY <1>1, <1>2, FS_Surjection
  <1>4. broken_families \subseteq Seen
    <2> SUFFICES ASSUME NEW b \in broken_families PROVE b \in Seen
      OBVIOUS
    <2>1. b \in Hosts \X Families /\ Broken(b[1], b[2])
      BY DEF broken_families
    <2>2. Attempts(b[1], b[2]) # {}
      BY <2>1, FS_EmptySet DEF Broken
    <2>3. PICK r \in rows : r.host = b[1] /\ r.family = b[2]
      BY <2>2 DEF Attempts, RowsOf
    <2> QED BY <2>1, <2>3
  <1> QED BY <1>3, <1>4, FS_Subset DEF broken_families

LEMMA FindingIsSeq == \A key, severity : IsSeq(Finding(key, severity))
  <1> TAKE key, severity
  <1> DEFINE f == [key |-> key, severity |-> severity, about |-> ""]
  <1>1. <<f>> \in Seq({f})
    OBVIOUS
  <1> QED BY <1>1, SeqsAre DEF Finding

\* g keeps the findings of a severity at any of the places 1 .. n.
Keeping(g, v, sq, n) ==
  /\ g \in [SUBSET (1..n) -> Seq(ToSet(sq))]
  /\ \A s \in SUBSET (1..n) :
       g[s] = IF s = {} THEN <<>>
              ELSE IF sq[Max(s)].severity = v
                THEN Append(g[s \ {Max(s)}], sq[Max(s)]) ELSE g[s \ {Max(s)}]

\* Such a function exists: the recursion has a solution.
LEMMA KeepingSolved ==
  ASSUME NEW n \in Nat, NEW sq, DOMAIN sq = 1..n, NEW v
  PROVE  \E g : Keeping(g, v, sq, n)
<1> DEFINE S == 1..n
           R == Seq(ToSet(sq))
           c == [s \in SUBSET S |-> Max(s)]
           kept(r, i) == IF sq[i].severity = v THEN Append(r, sq[i]) ELSE r
           h == [s \in SUBSET S |->
                  [r \in R |-> IF s = {} THEN r ELSE kept(r, c[s])]]
<1>1. \A s \in SUBSET S : s # {} => c[s] \in s /\ c[s] = Max(s)
  BY MaxTaken
<1>2. IsFiniteSet(S) /\ \A i \in S : sq[i] \in ToSet(sq)
  <2>1. IsFiniteSet(S)
    BY FS_Interval
  <2>2. \A i \in S : sq[i] \in ToSet(sq)
    BY DEF ToSet
  <2> QED
    BY <2>1, <2>2
<1>3. Takes(c, S)
  BY <1>1 DEF Takes
<1>4. <<>> \in R
  OBVIOUS
<1>5. \A i \in S, r \in R : kept(r, i) \in R
  BY <1>2
<1>6. Keeps(h, S, R)
  <2> HIDE DEF c, kept, R
  <2> QED
    BY <1>1, <1>5 DEF Keeps
<1>7. \A s \in SUBSET S, r \in R : s # {} => h[s][r] = kept(r, Max(s))
  BY <1>1
<1>8. \A s \in SUBSET S : s # {} => s \ {Max(s)} \in SUBSET S
  OBVIOUS
<1> HIDE DEF c, h, S, R, kept
<1>9. PICK g \in [SUBSET S -> R] : Solution(g, S, c, <<>>, h)
  BY <1>2, <1>3, <1>4, <1>6, RecursionSolved
<1>10. \A s \in SUBSET S :
         g[s] = IF s = {} THEN <<>> ELSE kept(g[s \ {Max(s)}], Max(s))
  BY <1>1, <1>7, <1>8, <1>9 DEF Solution
<1> QED
  BY <1>9, <1>10 DEF Keeping, S, R, kept

\* Kept is what it has of all places.
LEMMA KeptIsKeeping ==
  ASSUME NEW n \in Nat, NEW sq, DOMAIN sq = 1..n, NEW v, NEW g, Keeping(g, v, sq, n)
  PROVE  Kept(v, sq) = g[1..n]
<1> DEFINE step(k) ==
             [s \in SUBSET (1..n) |->
                IF s = {} THEN <<>>
                ELSE IF sq[Max(s)].severity = v
                  THEN Append(k[s \ {Max(s)}], sq[Max(s)]) ELSE k[s \ {Max(s)}]]
           f == CHOOSE k : k = step(k)
<1>1. Kept(v, sq) = f[1..n]
  BY DEF Kept, FoldLeft, MapThenFoldSet
<1>2. g = step(g)
  BY DEF Keeping
<1>3. f = step(f)
  BY <1>2
<1> HIDE DEF f
<1>4. \A s \in SUBSET (1..n) :
        f[s] = IF s = {} THEN <<>>
               ELSE IF sq[Max(s)].severity = v
                 THEN Append(f[s \ {Max(s)}], sq[Max(s)]) ELSE f[s \ {Max(s)}]
  BY <1>3
<1>5. \A s \in SUBSET (1..n) : f[s] = g[s]
  <2> DEFINE Apart == {s \in SUBSET (1..n) : f[s] # g[s]}
  <2> SUFFICES ASSUME Apart # {} PROVE FALSE
    OBVIOUS
  <2>0. IsFiniteSet(1..n) /\ Apart \subseteq SUBSET (1..n)
    BY FS_Interval
  <2>1. PICK s \in Apart : \A x \in s : s \ {x} \notin Apart
    <3> HIDE DEF Apart
    <3> QED
      BY <2>0, SmallestSubset
  <2>2. s # {}
    BY <1>4 DEF Keeping
  <2>3. f[s \ {Max(s)}] = g[s \ {Max(s)}]
    BY <2>1, <2>2, MaxTaken
  <2> QED
    BY <1>4, <2>2, <2>3 DEF Keeping
<1> QED
  BY <1>1, <1>5

\* Findings of one severity are among the findings, and the first finding of
\* all is the first of its own severity.
LEMMA KeptAre ==
  ASSUME NEW sq, IsSeq(sq), NEW v
  PROVE  /\ Kept(v, sq) \in Seq(ToSet(sq))
         /\ sq # <<>> /\ sq[1].severity = v =>
              Kept(v, sq) # <<>> /\ Kept(v, sq)[1] = sq[1]
<1> DEFINE n == Len(sq)
<1>1. n \in Nat /\ DOMAIN sq = 1..n /\ (sq # <<>> => 1 \in 1..n)
  BY DEF IsSeq
<1> HIDE DEF n
<1>2. PICK g : Keeping(g, v, sq, n)
  BY <1>1, KeepingSolved
<1>3. Kept(v, sq) = g[1..n]
  BY <1>1, <1>2, KeptIsKeeping
<1>4. Kept(v, sq) \in Seq(ToSet(sq))
  <2> DEFINE S == 1..n
             R == Seq(ToSet(sq))
  <2>1. g \in [SUBSET S -> R] /\ S \in SUBSET S /\ Kept(v, sq) = g[S]
    BY <1>2, <1>3 DEF Keeping
  <2> HIDE DEF S, R
  <2>2. Kept(v, sq) \in R
    BY <2>1
  <2> QED
    BY <2>2 DEF R
<1>5. ASSUME sq[1].severity = v
      PROVE  \A s \in SUBSET (1..n) : 1 \in s => g[s] # <<>> /\ g[s][1] = sq[1]
  <2> DEFINE Apart == {s \in SUBSET (1..n) :
                         1 \in s /\ ~(g[s] # <<>> /\ g[s][1] = sq[1])}
  <2> SUFFICES ASSUME Apart # {} PROVE FALSE
    OBVIOUS
  <2>0. IsFiniteSet(1..n) /\ Apart \subseteq SUBSET (1..n)
    BY <1>1, FS_Interval
  <2>1. PICK s \in Apart : \A x \in s : s \ {x} \notin Apart
    <3> HIDE DEF Apart
    <3> QED
      BY <2>0, SmallestSubset
  <2>2. /\ s \in SUBSET (1..n) /\ 1 \in s /\ Max(s) \in s
        /\ ~(g[s] # <<>> /\ g[s][1] = sq[1])
    BY <1>1, <2>1, MaxTaken
  <2> DEFINE r == s \ {Max(s)}
  <2>3. g[r] \in Seq(ToSet(sq)) /\ sq[Max(s)] \in ToSet(sq)
    BY <1>1, <1>2, <2>2 DEF Keeping, ToSet
  <2>4. g[s] = IF sq[Max(s)].severity = v THEN Append(g[r], sq[Max(s)]) ELSE g[r]
    BY <1>2, <2>2 DEF Keeping
  <2>5. CASE Max(s) = 1
    <3>1. \A i \in s : i <= 1
      BY <1>1, <2>2, <2>5, MaxTaken
    <3>2. r = {}
      BY <1>1, <2>2, <2>5, <3>1
    <3>3. g[r] = <<>>
      BY <1>2, <3>2 DEF Keeping
    <3>4. g[s] = Append(<<>>, sq[1])
      BY <1>5, <2>4, <2>5, <3>3
    <3> HIDE DEF r
    <3> QED
      BY <2>2, <2>3, <2>5, <3>4
  <2>6. CASE Max(s) # 1
    <3>1. 1 \in r /\ r \in SUBSET (1..n) /\ r \notin Apart
      BY <2>1, <2>2, <2>6
    <3>2. g[r] # <<>> /\ g[r][1] = sq[1]
      BY <3>1
    <3>3. \A t \in Seq(ToSet(sq)), x \in ToSet(sq) :
            t # <<>> => Append(t, x) # <<>> /\ Append(t, x)[1] = t[1]
      OBVIOUS
    <3> HIDE DEF r
    <3> QED
      BY <2>2, <2>3, <2>4, <3>2, <3>3
  <2> QED
    BY <2>5, <2>6
<1>6. 1..n \in SUBSET (1..n)
  OBVIOUS
<1> QED
  BY <1>1, <1>3, <1>4, <1>5, <1>6

-----------------------------------------------------------------------------
(* What is found in a list put together from others.                       *)

LEMMA FoundInBoth ==
  ASSUME NEW s, NEW t, IsSeq(s), IsSeq(t)
  PROVE  ToSet(s \o t) = ToSet(s) \cup ToSet(t)
<1> DEFINE S == ToSet(s) \cup ToSet(t)
           all == s \o t
<1>1. s \in Seq(S) /\ t \in Seq(S)
  BY DEF IsSeq
<1> HIDE DEF S
<1>2. /\ Len(s) \in Nat /\ Len(t) \in Nat
      /\ DOMAIN s = 1..Len(s) /\ DOMAIN t = 1..Len(t)
      /\ DOMAIN all = 1..(Len(s) + Len(t))
      /\ \A i \in 1..(Len(s) + Len(t)) :
           all[i] = IF i <= Len(s) THEN s[i] ELSE t[i - Len(s)]
  BY <1>1
<1> HIDE DEF all
<1>3. ASSUME NEW x \in ToSet(s) PROVE x \in ToSet(all)
  <2>1. PICK i \in 1..Len(s) : x = s[i]
    BY <1>2 DEF ToSet
  <2>2. i \in 1..(Len(s) + Len(t)) /\ all[i] = x
    BY <1>2, <2>1
  <2> QED
    BY <1>2, <2>2 DEF ToSet
<1>4. ASSUME NEW x \in ToSet(t) PROVE x \in ToSet(all)
  <2>1. PICK i \in 1..Len(t) : x = t[i]
    BY <1>2 DEF ToSet
  <2> DEFINE j == Len(s) + i
  <2>2. j \in 1..(Len(s) + Len(t)) /\ ~(j <= Len(s)) /\ j - Len(s) = i
    BY <1>2
  <2>3. all[j] = x
    BY <1>2, <2>1, <2>2
  <2> QED
    BY <1>2, <2>2, <2>3 DEF ToSet
<1>5. ASSUME NEW x \in ToSet(all) PROVE x \in ToSet(s) \/ x \in ToSet(t)
  <2>1. PICK i \in 1..(Len(s) + Len(t)) : x = all[i]
    BY <1>2 DEF ToSet
  <2>2. CASE i <= Len(s)
    <3>1. i \in 1..Len(s) /\ x = s[i]
      BY <1>2, <2>1, <2>2
    <3> QED
      BY <1>2, <3>1 DEF ToSet
  <2>3. CASE ~(i <= Len(s))
    <3>1. i - Len(s) \in 1..Len(t) /\ x = t[i - Len(s)]
      BY <1>2, <2>1, <2>3
    <3> QED
      BY <1>2, <3>1 DEF ToSet
  <2> QED
    BY <2>2, <2>3
<1> QED
  BY <1>3, <1>4, <1>5 DEF all

\* A rule that is silent returns a sequence, too.
LEMMA NothingFound == IsSeq(<<>>) /\ ToSet(<<>>) = {}
<1>1. <<>> \in Seq({}) /\ DOMAIN <<>> = {}
  OBVIOUS
<1>2. IsSeq(<<>>)
  BY <1>1, SeqsAre
<1>3. ToSet(<<>>) = {}
  BY <1>1 DEF ToSet
<1> QED
  BY <1>2, <1>3

\* One finding, spelled out.
LEMMA OneFound ==
  ASSUME NEW key, NEW severity
  PROVE  /\ IsSeq(Finding(key, severity)) /\ Len(Finding(key, severity)) = 1
         /\ ToSet(Finding(key, severity)) =
              {[key |-> key, severity |-> severity, about |-> ""]}
         /\ Finding(key, severity)[1] =
              [key |-> key, severity |-> severity, about |-> ""]
<1> DEFINE f == [key |-> key, severity |-> severity, about |-> ""]
<1>1. Finding(key, severity) = <<f>>
  BY DEF Finding
<1> HIDE DEF f
<1>2. IsSeq(<<f>>)
  BY <1>1, FindingIsSeq DEF f
<1>3. Len(<<f>>) = 1 /\ ToSet(<<f>>) = {f} /\ <<f>>[1] = f
  <2>1. DOMAIN <<f>> = {1} /\ <<f>>[1] = f /\ Len(<<f>>) = 1
    OBVIOUS
  <2> QED
    BY <2>1 DEF ToSet
<1> QED
  BY <1>1, <1>2, <1>3 DEF f

\* The rules one after the other.
Rules(a) ==
  <<_sufficiency(a), _headline_loss(a), _isolation(a), _operator_network(a),
    _time_of_day(a), _address_family(a), _resolvers(a), _restart_cycle(a)>>

\* Whatever the figures, every rule returns a sequence.
LEMMA RulesAreSeqs ==
  ASSUME NEW a, IsFiniteSet(a.reach_broken)
  PROVE  \A i \in 1..8 : IsSeq(Rules(a)[i])
<1> DEFINE accused(b) == [key |-> "family_broken", severity |-> "critical",
                          about |-> b[2]]
           Accused == {accused(b) : b \in a.reach_broken}
<1>1. IsFiniteSet(Accused)
  <2>1. [b \in a.reach_broken |-> accused(b)] \in Surjection(a.reach_broken, Accused)
    BY DEF Surjection
  <2> QED
    BY <2>1, FS_Surjection
<1>2. IsSeq(_address_family(a))
  BY <1>1, SetToSeqIsSeq, SeqsAre DEF _address_family
<1> HIDE DEF Accused
<1>3. IsSeq(_sufficiency(a)) /\ IsSeq(_headline_loss(a)) /\ IsSeq(_isolation(a))
  BY NothingFound, FindingIsSeq DEF _sufficiency, _headline_loss, _isolation
<1>4. IsSeq(_operator_network(a)) /\ IsSeq(_time_of_day(a))
  BY NothingFound, FindingIsSeq DEF _operator_network, _time_of_day
<1>5. IsSeq(_resolvers(a)) /\ IsSeq(_restart_cycle(a))
  BY NothingFound, FindingIsSeq DEF _resolvers, _restart_cycle
<1> QED
  BY <1>2, <1>3, <1>4, <1>5 DEF Rules

\* What the conclusions hold is what one of the rules found, or that they are
\* withheld.
LEMMA ConclusionsFound ==
  ASSUME NEW a, IsFiniteSet(a.reach_broken)
  PROVE  /\ IsSeq(Conclusions(a))
         /\ Withheld(a.egress) =>
              ToSet(Conclusions(a)) =
                {[key |-> "conclusions_withheld", severity |-> "critical", about |-> ""]}
                  \cup ToSet(_sufficiency(a))
         /\ ~Withheld(a.egress) =>
              ToSet(Conclusions(a)) =
                ToSet(_sufficiency(a)) \cup ToSet(_headline_loss(a))
                  \cup ToSet(_isolation(a)) \cup ToSet(_operator_network(a))
                  \cup ToSet(_time_of_day(a)) \cup ToSet(_address_family(a))
                  \cup ToSet(_resolvers(a)) \cup ToSet(_restart_cycle(a))
<1>1. /\ IsSeq(_sufficiency(a)) /\ IsSeq(_headline_loss(a)) /\ IsSeq(_isolation(a))
      /\ IsSeq(_operator_network(a)) /\ IsSeq(_time_of_day(a))
      /\ IsSeq(_address_family(a)) /\ IsSeq(_resolvers(a)) /\ IsSeq(_restart_cycle(a))
  BY RulesAreSeqs DEF Rules
<1>2. PICK r1, r2, r3, r4, r5, r6, r7, r8 :
        /\ r1 = _sufficiency(a) /\ r2 = _headline_loss(a) /\ r3 = _isolation(a)
        /\ r4 = _operator_network(a) /\ r5 = _time_of_day(a)
        /\ r6 = _address_family(a) /\ r7 = _resolvers(a) /\ r8 = _restart_cycle(a)
  OBVIOUS
<1>3. /\ IsSeq(r1 \o r2 \o r3 \o r4 \o r5 \o r6 \o r7 \o r8)
      /\ ToSet(r1 \o r2 \o r3 \o r4 \o r5 \o r6 \o r7 \o r8) =
           ToSet(r1) \cup ToSet(r2) \cup ToSet(r3) \cup ToSet(r4) \cup ToSet(r5)
             \cup ToSet(r6) \cup ToSet(r7) \cup ToSet(r8)
  <2>0. /\ IsSeq(r1) /\ IsSeq(r2) /\ IsSeq(r3) /\ IsSeq(r4) /\ IsSeq(r5) /\ IsSeq(r6)
        /\ IsSeq(r7) /\ IsSeq(r8)
    BY <1>1, <1>2
  <2>2. IsSeq(r1 \o r2) /\ ToSet(r1 \o r2) = ToSet(r1) \cup ToSet(r2)
    BY <2>0, Joined, FoundInBoth
  <2>3. /\ IsSeq(r1 \o r2 \o r3)
        /\ ToSet(r1 \o r2 \o r3) = ToSet(r1 \o r2) \cup ToSet(r3)
    BY <2>0, <2>2, Joined, FoundInBoth
  <2>4. /\ IsSeq(r1 \o r2 \o r3 \o r4)
        /\ ToSet(r1 \o r2 \o r3 \o r4) = ToSet(r1 \o r2 \o r3) \cup ToSet(r4)
    BY <2>0, <2>3, Joined, FoundInBoth
  <2>5. /\ IsSeq(r1 \o r2 \o r3 \o r4 \o r5)
        /\ ToSet(r1 \o r2 \o r3 \o r4 \o r5) = ToSet(r1 \o r2 \o r3 \o r4) \cup ToSet(r5)
    BY <2>0, <2>4, Joined, FoundInBoth
  <2>6. /\ IsSeq(r1 \o r2 \o r3 \o r4 \o r5 \o r6)
        /\ ToSet(r1 \o r2 \o r3 \o r4 \o r5 \o r6) =
             ToSet(r1 \o r2 \o r3 \o r4 \o r5) \cup ToSet(r6)
    BY <2>0, <2>5, Joined, FoundInBoth
  <2>7. /\ IsSeq(r1 \o r2 \o r3 \o r4 \o r5 \o r6 \o r7)
        /\ ToSet(r1 \o r2 \o r3 \o r4 \o r5 \o r6 \o r7) =
             ToSet(r1 \o r2 \o r3 \o r4 \o r5 \o r6) \cup ToSet(r7)
    BY <2>0, <2>6, Joined, FoundInBoth
  <2>8. /\ IsSeq(r1 \o r2 \o r3 \o r4 \o r5 \o r6 \o r7 \o r8)
        /\ ToSet(r1 \o r2 \o r3 \o r4 \o r5 \o r6 \o r7 \o r8) =
             ToSet(r1 \o r2 \o r3 \o r4 \o r5 \o r6 \o r7) \cup ToSet(r8)
    BY <2>0, <2>7, Joined, FoundInBoth
  <2> QED
    BY <2>2, <2>3, <2>4, <2>5, <2>6, <2>7, <2>8
<1>4. CASE ~Withheld(a.egress)
  <2>1. Conclusions(a) = r1 \o r2 \o r3 \o r4 \o r5 \o r6 \o r7 \o r8
    BY <1>2, <1>4 DEF Conclusions
  <2> QED
    BY <1>2, <1>3, <1>4, <2>1
<1>5. CASE Withheld(a.egress)
  <2>1. Conclusions(a) = Finding("conclusions_withheld", "critical") \o _sufficiency(a)
    BY <1>5 DEF Conclusions
  <2> QED
    BY <1>1, <1>5, <2>1, OneFound, Joined, FoundInBoth
<1> QED
  BY <1>4, <1>5

\* What is found in a sequence with an element put before it.
LEMMA InFront ==
  ASSUME NEW f, NEW rest, IsSeq(rest)
  PROVE  ToSet(<<f>> \o rest) = {f} \cup ToSet(rest)
  <1> DEFINE S == {f} \cup ToSet(rest)  all == <<f>> \o rest
  <1>1. rest \in Seq(S) /\ <<f>> \in Seq(S) /\ f \in S
    BY DEF IsSeq
  <1> HIDE DEF S
  <1>2. /\ Len(rest) \in Nat /\ DOMAIN rest = 1 .. Len(rest)
        /\ all \in Seq(S) /\ DOMAIN all = 1 .. 1 + Len(rest)
        /\ \A i \in 1 .. 1 + Len(rest) : all[i] = IF i = 1 THEN f ELSE rest[i - 1]
    BY <1>1
  <1> HIDE DEF all
  <1>3. ASSUME NEW g, g = f \/ g \in ToSet(rest) PROVE g \in ToSet(all)
    <2>1. CASE g = f
      BY <1>2, <2>1 DEF ToSet
    <2>2. CASE g \in ToSet(rest)
      <3>1. PICK i \in 1 .. Len(rest) : g = rest[i]
        BY <1>2, <2>2 DEF ToSet
      <3>2. i + 1 \in 1 .. 1 + Len(rest) /\ all[i + 1] = g
        BY <1>2, <3>1
      <3> QED BY <1>2, <3>2 DEF ToSet
    <2> QED BY <1>3, <2>1, <2>2
  <1>4. ASSUME NEW g \in ToSet(all) PROVE g = f \/ g \in ToSet(rest)
    <2>1. PICK i \in 1 .. 1 + Len(rest) : g = all[i]
      BY <1>2 DEF ToSet
    <2>2. i = 1 \/ i - 1 \in 1 .. Len(rest)
      BY <1>2
    <2> QED BY <1>2, <2>1, <2>2 DEF ToSet
  <1> QED BY <1>3, <1>4 DEF all

\* The uplink's own finding is one, and no conclusion about the line.
LEMMA UplinkIsApart ==
  ASSUME NEW a, IsSeq(Conclusions(a))
  PROVE  Keys(Listed(a)) \ Integrity = Keys(Conclusions(a)) \ Integrity
  <1> DEFINE found(key, severity) == [key |-> key, severity |-> severity, about |-> ""]
  <1>1. PICK f : _integrity(a) = <<f>> /\ f.key \in Integrity
    <2>1. \/ _integrity(a) = <<found("integrity_unverified", "warning")>>
          \/ _integrity(a) = <<found("integrity_leaked", "critical")>>
          \/ _integrity(a) = <<found("integrity_confirmed", "good")>>
      BY DEF _integrity, Finding
    <2>2. /\ found("integrity_unverified", "warning").key \in Integrity
          /\ found("integrity_leaked", "critical").key \in Integrity
          /\ found("integrity_confirmed", "good").key \in Integrity
      BY DEF Integrity
    <2> HIDE DEF found
    <2> QED BY <2>1, <2>2
  <1>2. ToSet(Listed(a)) = {f} \cup ToSet(Conclusions(a))
    BY <1>1, InFront DEF Listed
  <1> QED BY <1>1, <1>2 DEF Keys

\* A check that got no answer moves no conclusion, whatever else was measured.
THEOREM UnansweredConcludesNothing == Spec => UnknownCheckConcludesNothing
  <1> DEFINE before == analyse(minutes, egress, dns, broken_families)
             after == analyse(minutes', egress', dns', broken_families')
  <1>1. ASSUME TypeOK, ReachInv, ReachInv', [Next]_vars,
               egress'["unknown"] # egress["unknown"]
        PROVE  After \ Integrity = Before \ Integrity
    <2>1. CheckEgress("unknown")
      <3>1. PICK v \in Verdicts : CheckEgress(v)
        BY <1>1 DEF Next, Measure, LookUp, Reaching, vars
      <3> QED BY <1>1, <3>1 DEF CheckEgress, TypeOK, Verdicts
    <2>2. /\ UNCHANGED <<minutes, dns, rows>>
          /\ egress'["leaked"] = egress["leaked"]
          /\ egress'["confirmed"] = egress["confirmed"]
      BY <1>1, <2>1 DEF CheckEgress, reachVars, TypeOK, Verdicts
    <2>3. broken_families' = broken_families
      BY <2>2 DEF broken_families, Broken, Works, Attempts, Failed, RowsOf
    <2>4. Before = Keys(Listed(before)) /\ After = Keys(Listed(after))
      BY DEF Before, After
    <2>5. /\ before.reach_broken = broken_families /\ after.reach_broken = broken_families
          /\ before.egress = egress /\ after.egress = egress'
      BY <2>3 DEF analyse
    <2>6. Conclusions(after) = Conclusions(before)
      BY <2>2, <2>3 DEF Conclusions, analyse, Withheld, _sufficiency, _headline_loss,
         _isolation, _operator_network, _time_of_day, _address_family, _resolvers,
         _restart_cycle
    <2> HIDE DEF before, after
    <2>7. IsSeq(Conclusions(before))
      BY <1>1, <2>5, BrokenIsFinite, ConclusionsFound
    <2> QED BY <2>4, <2>6, <2>7, UplinkIsApart
  <1> QED
    BY <1>1, TypeCorrect, ReachInvariant, AssessmentImplementsReach, PTL
    DEF UnknownCheckConcludesNothing, Spec

\* The report sorts what is listed, and leaves a critical finding that comes
\* first in its place.
LEMMA ListedFound ==
  ASSUME NEW a, IsFiniteSet(a.reach_broken)
  PROVE  \E f : /\ IsSeq(Listed(a)) /\ Listed(a)[1] = f /\ Listed(a) # <<>>
                /\ ToSet(Listed(a)) = {f} \cup ToSet(Conclusions(a))
                /\ f.about = ""
                /\ \/ f.key = "integrity_unverified" /\ f.severity = "warning"
                      /\ Checks(a.egress) = 0
                   \/ f.key = "integrity_leaked" /\ f.severity = "critical"
                      /\ Checks(a.egress) # 0 /\ a.egress["leaked"] > 0
                   \/ f.key = "integrity_confirmed" /\ f.severity = "good"
                      /\ ~(a.egress["leaked"] > 0)
<1> DEFINE found(key, severity) == [key |-> key, severity |-> severity, about |-> ""]
<1>1. PICK f : /\ _integrity(a) = <<f>>
               /\ f.about = ""
               /\ \/ f.key = "integrity_unverified" /\ f.severity = "warning"
                     /\ Checks(a.egress) = 0
                  \/ f.key = "integrity_leaked" /\ f.severity = "critical"
                     /\ Checks(a.egress) # 0 /\ a.egress["leaked"] > 0
                  \/ f.key = "integrity_confirmed" /\ f.severity = "good"
                     /\ ~(a.egress["leaked"] > 0)
  <2>1. \/ _integrity(a) = <<found("integrity_unverified", "warning")>>
           /\ Checks(a.egress) = 0
        \/ _integrity(a) = <<found("integrity_leaked", "critical")>>
           /\ Checks(a.egress) # 0 /\ a.egress["leaked"] > 0
        \/ _integrity(a) = <<found("integrity_confirmed", "good")>>
           /\ ~(a.egress["leaked"] > 0)
    BY DEF _integrity, Finding
  <2>2. CASE _integrity(a) = <<found("integrity_unverified", "warning")>>
             /\ Checks(a.egress) = 0
    <3>1. PICK f : f = found("integrity_unverified", "warning")
      OBVIOUS
    <3>2. f.key = "integrity_unverified" /\ f.severity = "warning" /\ f.about = ""
      BY <3>1
    <3> HIDE DEF found
    <3> QED
      BY <2>2, <3>1, <3>2
  <2>3. CASE _integrity(a) = <<found("integrity_leaked", "critical")>>
             /\ Checks(a.egress) # 0 /\ a.egress["leaked"] > 0
    <3>1. PICK f : f = found("integrity_leaked", "critical")
      OBVIOUS
    <3>2. f.key = "integrity_leaked" /\ f.severity = "critical" /\ f.about = ""
      BY <3>1
    <3> HIDE DEF found
    <3> QED
      BY <2>3, <3>1, <3>2
  <2>4. CASE _integrity(a) = <<found("integrity_confirmed", "good")>>
             /\ ~(a.egress["leaked"] > 0)
    <3>1. PICK f : f = found("integrity_confirmed", "good")
      OBVIOUS
    <3>2. f.key = "integrity_confirmed" /\ f.severity = "good" /\ f.about = ""
      BY <3>1
    <3> HIDE DEF found
    <3> QED
      BY <2>4, <3>1, <3>2
  <2> QED
    BY <2>1, <2>2, <2>3, <2>4
<1>2. PICK rest : rest = Conclusions(a) /\ IsSeq(rest)
  BY ConclusionsFound
<1>3. IsSeq(<<f>>) /\ Listed(a) = <<f>> \o rest
  <2>1. <<f>> \in Seq({f})
    OBVIOUS
  <2> QED
    BY <1>1, <1>2, <2>1, SeqsAre DEF Listed
<1>4. (<<f>> \o rest)[1] = f /\ <<f>> \o rest # <<>>
  <2> DEFINE S == {f} \cup ToSet(rest)
  <2>1. <<f>> \in Seq(S) /\ rest \in Seq(S)
    BY <1>2 DEF IsSeq
  <2> HIDE DEF S
  <2>2. Len(<<f>> \o rest) = 1 + Len(rest) /\ Len(rest) \in Nat
    BY <2>1
  <2> QED
    BY <2>1, <2>2
<1>5. IsSeq(Listed(a)) /\ ToSet(Listed(a)) = {f} \cup ToSet(Conclusions(a))
  BY <1>2, <1>3, InFront, Joined
<1> QED
  BY <1>1, <1>3, <1>4, <1>5

\* Sorting adds no finding, and leaves a critical one that comes first there.
LEMMA SortedFound ==
  ASSUME NEW l, IsSeq(l)
  PROVE  /\ ToSet(Sorted(l)) \subseteq ToSet(l)
         /\ l # <<>> /\ l[1].severity = "critical" => Sorted(l)[1] = l[1]
<1> DEFINE S == ToSet(l)
<1>1. PICK c, w, m, g :
        /\ c = Kept("critical", l) /\ w = Kept("warning", l)
        /\ m = Kept("neutral", l) /\ g = Kept("good", l)
  OBVIOUS
<1>2. c \in Seq(S) /\ w \in Seq(S) /\ m \in Seq(S) /\ g \in Seq(S)
  BY <1>1, KeptAre
<1>3. Sorted(l) = c \o w \o m \o g
  BY <1>1 DEF Sorted
<1> HIDE DEF S
<1>4. c \o w \o m \o g \in Seq(S)
  BY <1>2
<1>5. ToSet(c \o w \o m \o g) \subseteq S
  <2>1. PICK t \in Seq(S) : t = c \o w \o m \o g
    BY <1>4
  <2>2. \A i \in DOMAIN t : t[i] \in S
    OBVIOUS
  <2> QED
    BY <2>1, <2>2 DEF ToSet
<1>6. c # <<>> => (c \o w \o m \o g)[1] = c[1]
  <2>1. \A s, t \in Seq(S) : s # <<>> => s \o t # <<>> /\ (s \o t)[1] = s[1]
    OBVIOUS
  <2>2. c \o w \in Seq(S) /\ c \o w \o m \in Seq(S)
    BY <1>2
  <2> QED
    BY <1>2, <2>1, <2>2
<1> QED
  BY <1>1, <1>3, <1>5, <1>6, KeptAre DEF S

\* What one finding says.
LEMMA FoundIs ==
  ASSUME NEW key, NEW severity, NEW f \in ToSet(Finding(key, severity))
  PROVE  f.key = key /\ f.severity = severity
<1> DEFINE found == [key |-> key, severity |-> severity, about |-> ""]
<1>1. found.key = key /\ found.severity = severity
  OBVIOUS
<1>2. ToSet(Finding(key, severity)) = {found}
  BY OneFound
<1> HIDE DEF found
<1> QED
  BY <1>1, <1>2

\* The lengths of record the analysis allows for.
LEMMA SufficiencyFound ==
  ASSUME NEW a
  PROVE  \A f \in ToSet(_sufficiency(a)) :
           f.key \in {"too_little_data", "short_period"} /\ f.severity = "warning"
<1>1. \/ _sufficiency(a) = Finding("too_little_data", "warning")
      \/ _sufficiency(a) = Finding("short_period", "warning")
      \/ _sufficiency(a) = <<>>
  BY DEF _sufficiency
<1> QED
  BY <1>1, NothingFound, FoundIs

\* More checks on the wrong uplink than on the right one: nothing is concluded
\* about the line (SilentOnWrongUplink).
THEOREM WrongUplinkIsSilent == Spec => []SilentOnWrongUplink
<1>1. TypeOK /\ ReachInv => SilentOnWrongUplink
  <2> SUFFICES ASSUME TypeOK, ReachInv, egress["leaked"] > egress["confirmed"]
               PROVE  /\ Findings[1].key = "integrity_leaked"
                      /\ Told \subseteq {"integrity_leaked", "conclusions_withheld",
                                         "too_little_data", "short_period"}
    BY DEF SilentOnWrongUplink
  <2>1. PICK a : a = analyse(minutes, egress, dns, broken_families)
    OBVIOUS
  <2>2. a.egress = egress /\ IsFiniteSet(a.reach_broken)
    BY <2>1, BrokenIsFinite DEF analyse
  <2>3. \A v \in Verdicts : egress[v] \in Nat
    BY RoomForOne
  <2>4. egress["leaked"] > 0 /\ Checks(egress) # 0 /\ Withheld(egress)
    BY <2>3 DEF Checks, Withheld, Verdicts
  <2>5. PICK f : /\ IsSeq(Listed(a)) /\ Listed(a)[1] = f /\ Listed(a) # <<>>
                 /\ ToSet(Listed(a)) = {f} \cup ToSet(Conclusions(a))
                 /\ f.key = "integrity_leaked" /\ f.severity = "critical"
    BY <2>2, <2>4, ListedFound
  <2>6. Findings[1].key = "integrity_leaked"
    BY <2>1, <2>5, SortedFound DEF Findings, assess
  <2>7. ToSet(Conclusions(a)) =
          {[key |-> "conclusions_withheld", severity |-> "critical", about |-> ""]}
            \cup ToSet(_sufficiency(a))
    BY <2>2, <2>4, ConclusionsFound
  <2>8. \A g \in ToSet(Conclusions(a)) :
          g.key \in {"conclusions_withheld", "too_little_data", "short_period"}
    <3> DEFINE w == [key |-> "conclusions_withheld", severity |-> "critical",
                     about |-> ""]
    <3>1. w.key = "conclusions_withheld"
      OBVIOUS
    <3>2. \A g \in ToSet(Conclusions(a)) : g = w \/ g \in ToSet(_sufficiency(a))
      BY <2>7
    <3> HIDE DEF w
    <3> QED
      BY <3>1, <3>2, SufficiencyFound
  <2> QED
    BY <2>1, <2>5, <2>6, <2>8 DEF Told, Keys
<1> QED
  BY <1>1, TypeCorrect, ReachInvariant, AssessmentImplementsReach, PTL

-----------------------------------------------------------------------------
(* The rules on a line that lost nothing.                                  *)

\* Minutes with nothing lost on a link make a loss of nought.
LEMMA NoLoss ==
  ASSUME NEW m \in [Kinds -> Nat], NEW link, NEW K \in SUBSET Kinds,
         \A k \in K : k[link] \in Int /\ (m[k] > 0 => k[link] = 0)
  PROVE  Ratio(m, link, K) = 0 /\ Total(m, K) \in Nat
<1> DEFINE lost == [k \in K |-> m[k] * k[link]]
<1>1. IsFiniteSet(K)
  BY AssessmentAssumption, FS_Subset
<1>2. \A k \in K : lost[k] = 0
  <2> TAKE k \in K
  <2>1. m[k] \in Nat /\ k[link] \in Int
    OBVIOUS
  <2>2. CASE m[k] = 0
    BY <2>1, <2>2
  <2>3. CASE m[k] # 0
    BY <2>1, <2>3
  <2> QED
    BY <2>2, <2>3
<1>3. SumFunctionOnSet(lost, K) = 0
  <2>1. \A k \in K : lost[k] \in Nat /\ lost[k] = 0
    BY <1>2
  <2> HIDE DEF lost
  <2> QED
    BY <1>1, <2>1, SumIsNought
<1>4. Total(m, K) \in Nat
  BY <1>1, SumIsNat DEF Total
<1>5. \A n \in Nat : n # 0 => 0 \div n = 0
  OBVIOUS
<1> QED
  BY <1>3, <1>4, <1>5 DEF Ratio

\* Hours in which nothing was lost have a mean of nought.
LEMMA NoMean ==
  ASSUME NEW prof, NEW parts, \A p \in DOMAIN prof : p \in Parts /\ prof[p] = 0
  PROVE  Mean(prof, parts) = 0
<1> DEFINE P == parts \cap DOMAIN prof
           weighed == [p \in P |-> Hours[p] * prof[p]]
<1>1. IsFiniteSet(Parts) /\ P \subseteq Parts
  <2>1. Parts = {"after", "later", "peak"}
    BY DEF Parts, Hours
  <2>2. IsFiniteSet({"after"}) /\ IsFiniteSet({"after"} \cup {"later"})
    BY FS_Singleton, FS_AddElement
  <2>3. IsFiniteSet({"after"} \cup {"later"} \cup {"peak"})
    BY <2>2, FS_AddElement
  <2>4. Parts = {"after"} \cup {"later"} \cup {"peak"}
    BY <2>1
  <2> QED
    BY <2>3, <2>4
<1>2. IsFiniteSet(P)
  BY <1>1, FS_Subset
<1>3. \A p \in Parts : Hours[p] \in Nat /\ Hours[p] # 0
  BY DEF Parts, Hours
<1>4. \A p \in P : weighed[p] = 0
  BY <1>1, <1>3
<1>5. SumFunctionOnSet(weighed, P) = 0
  <2>1. \A p \in P : weighed[p] \in Nat /\ weighed[p] = 0
    BY <1>4
  <2> HIDE DEF P, weighed
  <2> QED
    BY <1>2, <2>1, SumIsNought
<1>6. HoursOf(P) \in Nat /\ (P # {} => HoursOf(P) # 0)
  <2>1. \A p \in P : Hours[p] \in Nat /\ Hours[p] # 0
    BY <1>1, <1>3
  <2> HIDE DEF P
  <2> QED
    BY <1>2, <2>1, SumIsNat, SumIsNought DEF HoursOf
<1>7. \A n \in Nat : n # 0 => 0 \div n = 0
  OBVIOUS
<1> QED
  BY <1>5, <1>6, <1>7 DEF Mean

\* A line to which nothing was lost.
CleanLine ==
  /\ \A k \in Kinds : minutes[k] > 0 => k.primary = 0 /\ k.first_hop <= 0
  /\ \A r \in rows : r.outcome # "failed"
  /\ dns["isp_resolver"].failed = 0

\* Where no connection failed no family is broken.
LEMMA NothingBroken ==
  ASSUME ReachInv, \A r \in rows : r.outcome # "failed"
  PROVE  broken_families = {}
<1> SUFFICES ASSUME NEW h \in Hosts, NEW f \in Families, Broken(h, f) PROVE FALSE
  BY DEF broken_families
<1>1. Failed(h, f) = {}
  BY DEF ReachInv, ReachTypeOK, Rows, Outcomes, Failed, Attempts, RowsOf
<1>2. IsFiniteSet(Attempts(h, f)) /\ Attempts(h, f) # {}
  BY FS_Subset DEF ReachInv, Begun, Attempts, RowsOf, Broken
<1>3. Cardinality(Failed(h, f)) = 0
  BY <1>1, FS_EmptySet
<1>4. Cardinality(Attempts(h, f)) \in Nat /\ Cardinality(Attempts(h, f)) # 0
  BY <1>2, FS_CardinalityType, FS_EmptySet
<1> QED
  BY <1>3, <1>4 DEF Broken

\* What the analysis says of such a line.
LEMMA CleanAnalysis ==
  ASSUME TypeOK, DnsTyped, ReachInv, CleanLine,
         NEW a, a = analyse(minutes, egress, dns, broken_families)
  PROVE  /\ a.loss = 0 /\ a.first_hop_loss = 0 /\ a.reach_broken = {}
         /\ a.comparison.primary_only_bad = 0
         /\ \A parts : Mean(a.profile, parts) = 0
         /\ \A r \in Roles : a.dns[r].total # 0 /\ r = "isp_resolver" =>
              fail_ratio(a.dns[r]) = 0
<1>1. minutes \in [Kinds -> Nat]
  BY DEF TypeOK
<1>2. \A k \in Kinds : /\ k.primary \in 0 .. 1000 /\ k.at \in Parts
                       /\ k.first_hop \in {NotMeasured} \cup 0 .. 1000
                       /\ k.control \in {NotMeasured} \cup 0 .. 1000
  BY AssessmentAssumption
<1>3. \A k \in Kinds : /\ k["primary"] \in Int
                       /\ minutes[k] > 0 => k["primary"] = 0
  <2> TAKE k \in Kinds
  <2>1. k.primary \in Int /\ k["primary"] = k.primary
    BY <1>2
  <2>2. minutes[k] > 0 => k.primary = 0
    BY DEF CleanLine
  <2> QED
    BY <2>1, <2>2
<1>4. a.loss = 0
  <2>1. Ratio(minutes, "primary", Kinds) = 0
    BY <1>1, <1>3, NoLoss
  <2> QED
    BY <2>1 DEF analyse
<1>5. a.first_hop_loss = 0
  <2>1. On("first_hop") \in SUBSET Kinds
    BY DEF On
  <2>2. \A k \in On("first_hop") : /\ k["first_hop"] \in Int
                                   /\ minutes[k] > 0 => k["first_hop"] = 0
    <3> TAKE k \in On("first_hop")
    <3>1. k \in Kinds /\ k["first_hop"] = k.first_hop /\ k.first_hop # -1
      BY DEF On, NotMeasured
    <3>2. k.first_hop \in Int /\ k.first_hop >= 0
      BY <1>2, <3>1 DEF NotMeasured
    <3>3. minutes[k] > 0 => k.first_hop <= 0
      BY <3>1 DEF CleanLine
    <3> QED
      BY <3>1, <3>2, <3>3
  <2>3. Ratio(minutes, "first_hop", On("first_hop")) = 0
    BY <1>1, <2>1, <2>2, NoLoss
  <2> QED
    BY <2>3 DEF analyse
<1>6. a.reach_broken = {}
  BY NothingBroken DEF CleanLine, analyse
<1>7. a.comparison.primary_only_bad = 0
  <2>1. PrimaryOnly \in SUBSET Kinds /\ IsFiniteSet(PrimaryOnly)
    BY AssessmentAssumption, FS_Subset DEF PrimaryOnly, On, Bad
  <2>2. \A k \in PrimaryOnly : minutes[k] \in Nat /\ minutes[k] = 0
    BY <1>1, <1>3 DEF PrimaryOnly, On, Bad, degraded_loss
  <2>3. Total(minutes, PrimaryOnly) = 0
    BY <2>1, <2>2, SumIsNought DEF Total
  <2> QED
    BY <2>3 DEF analyse, paired_comparison, Compared
<1>8. \A parts : Mean(a.profile, parts) = 0
  <2>1. \A p \in Parts : Ratio(minutes, "primary", During(p)) = 0
    <3> TAKE p \in Parts
    <3>1. During(p) \in SUBSET Kinds
      BY DEF During
    <3> QED
      BY <1>1, <1>3, <3>1, NoLoss
  <2>2. \A p \in DOMAIN profile(minutes) : p \in Parts /\ profile(minutes)[p] = 0
    BY <2>1 DEF profile
  <2>3. a.profile = profile(minutes)
    BY DEF analyse
  <2> QED
    BY <2>2, <2>3, NoMean
<1>9. \A r \in Roles : a.dns[r].total # 0 /\ r = "isp_resolver" =>
              fail_ratio(a.dns[r]) = 0
  <2>1. a.dns = dns /\ dns["isp_resolver"].failed = 0
    BY DEF analyse, CleanLine
  <2>2. \A r \in Roles : dns[r].total \in Nat
    BY DEF DnsTyped, Lookups
  <2>3. \A n \in Nat : n # 0 => (1000 * 0) \div n = 0
    OBVIOUS
  <2> QED
    BY <2>1, <2>2, <2>3 DEF fail_ratio
<1> QED
  BY <1>4, <1>5, <1>6, <1>7, <1>8, <1>9

\* The rules accuse no line of which the analysis says this.
LEMMA CleanRules ==
  ASSUME NEW a, IsFiniteSet(a.reach_broken), ~Withheld(a.egress),
         a.loss = 0, a.first_hop_loss = 0, a.reach_broken = {},
         a.comparison.primary_only_bad = 0,
         \A parts : Mean(a.profile, parts) = 0,
         \A r \in Roles : a.dns[r].total # 0 /\ r = "isp_resolver" =>
              fail_ratio(a.dns[r]) = 0
  PROVE  \A f \in ToSet(Conclusions(a)) : f.severity # "critical"
<1>1. \A f \in ToSet(_sufficiency(a)) : f.severity # "critical"
  BY SufficiencyFound
<1>2. \A f \in ToSet(_headline_loss(a)) : f.severity # "critical"
  <2>1. _headline_loss(a) = Finding("loss_clean", "good")
    BY DEF _headline_loss
  <2> QED
    BY <2>1, FoundIs
<1>3. \A f \in ToSet(_isolation(a)) : f.severity # "critical"
  <2>1. \/ _isolation(a) = Finding("no_control", "warning")
        \/ _isolation(a) = Finding("control_worse", "neutral")
        \/ _isolation(a) = Finding("both_links_bad", "warning")
        \/ _isolation(a) = Finding("no_isolation_signal", "neutral")
    BY DEF _isolation
  <2> QED
    BY <2>1, FoundIs
<1>4. \A f \in ToSet(_operator_network(a)) : f.severity # "critical"
  <2>1. _operator_network(a) = <<>>
    BY DEF _operator_network
  <2> QED
    BY <2>1, NothingFound
<1>5. \A f \in ToSet(_time_of_day(a)) : f.severity # "critical"
  <2>1. _time_of_day(a) = <<>>
    BY DEF _time_of_day
  <2> QED
    BY <2>1, NothingFound
<1>6. \A f \in ToSet(_address_family(a)) : f.severity # "critical"
  <2>1. _address_family(a) = SetToSeq({})
    BY DEF _address_family
  <2>2. SetToSeq({}) \in Seq({})
    BY SetToSeqIsSeq, FS_EmptySet
  <2>3. ToSet(SetToSeq({})) = {}
    BY <2>2 DEF ToSet
  <2> QED
    BY <2>1, <2>3
<1>7. \A f \in ToSet(_resolvers(a)) : f.severity # "critical"
  <2>1. _resolvers(a) = <<>>
    <3>1. CASE \E r \in Roles : a.dns[r].total = 0
      BY <3>1 DEF _resolvers
    <3>2. CASE ~ \E r \in Roles : a.dns[r].total = 0
      <4>1. fail_ratio(a.dns["isp_resolver"]) = 0
        BY <3>2 DEF Roles
      <4> QED
        BY <3>2, <4>1 DEF _resolvers
    <3> QED
      BY <3>1, <3>2
  <2> QED
    BY <2>1, NothingFound
<1>8. \A f \in ToSet(_restart_cycle(a)) : f.severity # "critical"
  <2>1. _restart_cycle(a) = <<>>
    BY DEF _restart_cycle
  <2> QED
    BY <2>1, NothingFound
<1> QED
  BY <1>1, <1>2, <1>3, <1>4, <1>5, <1>6, <1>7, <1>8, ConclusionsFound

\* A line that lost nothing is accused of nothing (CleanLineNotAccused).
THEOREM CleanLineIsNotAccused == Spec => []CleanLineNotAccused
<1>1. TypeOK /\ DnsTyped /\ ReachInv => CleanLineNotAccused
  <2> SUFFICES ASSUME TypeOK, DnsTyped, ReachInv, CleanLine,
                      NEW f \in ToSet(Findings), f.severity = "critical"
               PROVE  f.key \in {"integrity_leaked", "conclusions_withheld"}
    BY DEF CleanLineNotAccused, CleanLine
  <2>1. PICK a : a = analyse(minutes, egress, dns, broken_families)
    OBVIOUS
  <2>2. a.egress = egress /\ IsFiniteSet(a.reach_broken)
    BY <2>1, BrokenIsFinite DEF analyse
  <2>3. PICK g : /\ IsSeq(Listed(a)) /\ ToSet(Listed(a)) = {g} \cup ToSet(Conclusions(a))
                 /\ g.severity = "critical" => g.key = "integrity_leaked"
    BY <2>2, ListedFound
  <2>4. f = g \/ f \in ToSet(Conclusions(a))
    BY <2>1, <2>3, SortedFound DEF Findings, assess
  <2>5. CASE ~Withheld(a.egress)
    <3>1. \A h \in ToSet(Conclusions(a)) : h.severity # "critical"
      BY <2>1, <2>2, <2>5, CleanAnalysis, CleanRules
    <3> QED
      BY <2>3, <2>4, <3>1
  <2>6. CASE Withheld(a.egress)
    <3> DEFINE w == [key |-> "conclusions_withheld", severity |-> "critical",
                     about |-> ""]
    <3>1. w.key = "conclusions_withheld"
      OBVIOUS
    <3>2. \A h \in ToSet(Conclusions(a)) : h = w \/ h \in ToSet(_sufficiency(a))
      BY <2>2, <2>6, ConclusionsFound
    <3> HIDE DEF w
    <3> QED
      BY <2>3, <2>4, <3>1, <3>2, SufficiencyFound
  <2> QED
    BY <2>5, <2>6
<1> QED
  BY <1>1, DataHolds, ReachInvariant, AssessmentImplementsReach, PTL DEF DataInv

-----------------------------------------------------------------------------
(* The finding that the fault follows this link.                           *)

Isolated(c) ==
  /\ c.common_minutes # 0 /\ c.primary_only_bad >= 10
  /\ FarMore(c.primary_only_bad, c.control_only_bad)

\* It is listed if and only if the comparison says so and nothing is withheld.
LEMMA IsolationTold ==
  ASSUME NEW a, IsFiniteSet(a.reach_broken)
  PROVE  "isolated_to_link" \in Keys(Listed(a)) <=>
           ~Withheld(a.egress) /\ Isolated(a.comparison)
<1>1. PICK g : /\ ToSet(Listed(a)) = {g} \cup ToSet(Conclusions(a))
               /\ g.key # "isolated_to_link"
  BY ListedFound
<1>2. "isolated_to_link" \in Keys(Listed(a)) <=>
        \E f \in ToSet(Conclusions(a)) : f.key = "isolated_to_link"
  BY <1>1 DEF Keys
<1>3. \A f \in ToSet(_sufficiency(a)) : f.key # "isolated_to_link"
  BY SufficiencyFound
<1>4. CASE Withheld(a.egress)
  <2> DEFINE w == [key |-> "conclusions_withheld", severity |-> "critical",
                   about |-> ""]
  <2>1. w.key = "conclusions_withheld"
    OBVIOUS
  <2>2. \A h \in ToSet(Conclusions(a)) : h = w \/ h \in ToSet(_sufficiency(a))
    BY <1>4, ConclusionsFound
  <2> HIDE DEF w
  <2> QED
    BY <1>2, <1>3, <1>4, <2>1, <2>2
<1>5. CASE ~Withheld(a.egress)
  <2>1. \A f \in ToSet(_headline_loss(a)) : f.key # "isolated_to_link"
    <3>1. \E k, s : k # "isolated_to_link" /\ _headline_loss(a) = Finding(k, s)
      BY DEF _headline_loss
    <3> QED
      BY <3>1, FoundIs
  <2>2. \A f \in ToSet(_operator_network(a)) : f.key # "isolated_to_link"
    <3>1. \/ _operator_network(a) = <<>>
          \/ \E k, s : k # "isolated_to_link" /\ _operator_network(a) = Finding(k, s)
      BY DEF _operator_network
    <3> QED
      BY <3>1, FoundIs, NothingFound
  <2>3. \A f \in ToSet(_time_of_day(a)) : f.key # "isolated_to_link"
    <3>1. \/ _time_of_day(a) = <<>>
          \/ \E k, s : k # "isolated_to_link" /\ _time_of_day(a) = Finding(k, s)
      BY DEF _time_of_day
    <3> QED
      BY <3>1, FoundIs, NothingFound
  <2>4. \A f \in ToSet(_address_family(a)) : f.key # "isolated_to_link"
    <3> DEFINE accused(b) == [key |-> "family_broken", severity |-> "critical",
                              about |-> b[2]]
               Accused == {accused(b) : b \in a.reach_broken}
    <3>1. IsFiniteSet(Accused)
      <4>1. [b \in a.reach_broken |-> accused(b)] \in Surjection(a.reach_broken, Accused)
        BY DEF Surjection
      <4> QED
        BY <4>1, FS_Surjection
    <3>2. \A f \in Accused : f.key = "family_broken"
      OBVIOUS
    <3>3. _address_family(a) = SetToSeq(Accused)
      BY DEF _address_family
    <3> HIDE DEF Accused
    <3>4. SetToSeq(Accused) \in Seq(Accused)
      BY <3>1, SetToSeqIsSeq
    <3>5. ToSet(SetToSeq(Accused)) \subseteq Accused
      BY <3>4 DEF ToSet
    <3> QED
      BY <3>2, <3>3, <3>5
  <2>5. \A f \in ToSet(_resolvers(a)) : f.key # "isolated_to_link"
    <3>1. \/ _resolvers(a) = <<>>
          \/ \E k, s : k # "isolated_to_link" /\ _resolvers(a) = Finding(k, s)
      BY DEF _resolvers
    <3> QED
      BY <3>1, FoundIs, NothingFound
  <2>6. \A f \in ToSet(_restart_cycle(a)) : f.key # "isolated_to_link"
    <3>1. \/ _restart_cycle(a) = <<>>
          \/ \E k, s : k # "isolated_to_link" /\ _restart_cycle(a) = Finding(k, s)
      BY DEF _restart_cycle
    <3> QED
      BY <3>1, FoundIs, NothingFound
  <2>7. (\E f \in ToSet(_isolation(a)) : f.key = "isolated_to_link")
          <=> Isolated(a.comparison)
    <3>1. CASE Isolated(a.comparison)
      <4>1. _isolation(a) = Finding("isolated_to_link", "critical")
        BY <3>1 DEF _isolation, Isolated
      <4>2. \E f : f \in ToSet(_isolation(a))
        BY <4>1, OneFound
      <4> QED
        BY <3>1, <4>1, <4>2, FoundIs
    <3>2. CASE ~Isolated(a.comparison)
      <4>1. \E k, s : k # "isolated_to_link" /\ _isolation(a) = Finding(k, s)
        BY <3>2 DEF _isolation, Isolated
      <4> QED
        BY <3>2, <4>1, FoundIs
    <3> QED
      BY <3>1, <3>2
  <2>8. \A f : f \in ToSet(Conclusions(a)) <=>
           \/ f \in ToSet(_sufficiency(a)) \/ f \in ToSet(_headline_loss(a))
           \/ f \in ToSet(_isolation(a)) \/ f \in ToSet(_operator_network(a))
           \/ f \in ToSet(_time_of_day(a)) \/ f \in ToSet(_address_family(a))
           \/ f \in ToSet(_resolvers(a)) \/ f \in ToSet(_restart_cycle(a))
    BY <1>5, ConclusionsFound
  <2> QED
    BY <1>2, <1>3, <1>5, <2>1, <2>2, <2>3, <2>4, <2>5, <2>6, <2>7, <2>8
<1> QED
  BY <1>4, <1>5

\* The totals after minutes of a kind came in: that of kinds it is not among is
\* what it was, and none is less.
LEMMA TotalsGrow ==
  ASSUME TypeOK, NEW k \in Kinds, NEW n \in Batches, Measure(k, n)
  PROVE  /\ \A j \in Kinds : minutes[j] \in Nat /\ minutes'[j] \in Nat
         /\ \A j \in Kinds : j # k => minutes'[j] = minutes[j]
         /\ minutes'[k] > minutes[k]
         /\ \A K \in SUBSET Kinds :
              /\ Total(minutes, K) \in Nat /\ Total(minutes', K) \in Nat
              /\ Total(minutes, K) <= Total(minutes', K)
              /\ k \notin K => Total(minutes', K) = Total(minutes, K)
<1>1. minutes \in [Kinds -> Nat] /\ n \in Nat /\ n # 0
  BY AssessmentAssumption DEF TypeOK
<1>2. minutes' = [minutes EXCEPT ![k] = minutes[k] + n]
  BY DEF Measure
<1>3. /\ \A j \in Kinds : minutes[j] \in Nat /\ minutes'[j] \in Nat
      /\ \A j \in Kinds : j # k => minutes'[j] = minutes[j]
      /\ minutes'[k] > minutes[k]
      /\ \A j \in Kinds : minutes[j] <= minutes'[j]
  BY <1>1, <1>2
<1>4. ASSUME NEW K \in SUBSET Kinds
      PROVE  /\ Total(minutes, K) \in Nat /\ Total(minutes', K) \in Nat
             /\ Total(minutes, K) <= Total(minutes', K)
             /\ k \notin K => Total(minutes', K) = Total(minutes, K)
  <2>1. IsFiniteSet(K) /\ \A j \in K : j \in Kinds
    BY AssessmentAssumption, FS_Subset
  <2>2. PICK m, mm : m = minutes /\ mm = minutes'
    OBVIOUS
  <2>3. \A j \in K : m[j] \in Nat /\ mm[j] \in Nat /\ m[j] <= mm[j]
    BY <1>3, <2>1, <2>2
  <2>4. k \notin K => \A j \in K : m[j] \in Nat /\ mm[j] = m[j]
    BY <1>3, <2>1, <2>2
  <2>5. SumFunctionOnSet(m, K) \in Nat /\ SumFunctionOnSet(mm, K) \in Nat
    BY <2>1, <2>3, SumIsNat
  <2>6. SumFunctionOnSet(m, K) <= SumFunctionOnSet(mm, K)
    BY <2>1, <2>3, SumGrows
  <2>7. k \notin K => SumFunctionOnSet(mm, K) = SumFunctionOnSet(m, K)
    BY <2>1, <2>4, SumSame
  <2>8. Total(minutes, K) = SumFunctionOnSet(m, K)
        /\ Total(minutes', K) = SumFunctionOnSet(mm, K)
    BY <2>2 DEF Total
  <2> QED
    BY <2>5, <2>6, <2>7, <2>8
<1> QED
  BY <1>3, <1>4

\* One link bad and the control not, and the control alone bad.
LEMMA KindsCompared ==
  /\ PrimaryOnly = {k \in Kinds : k.primary >= 50 /\ k.control \in 0 .. 49}
  /\ ControlOnly = {k \in Kinds : k.primary < 50 /\ k.control >= 50}
  /\ PrimaryOnly \in SUBSET Kinds /\ ControlOnly \in SUBSET Kinds
  /\ On("control") \in SUBSET Kinds /\ PrimaryOnly \subseteq On("control")
<1>1. \A k \in Kinds : /\ k["primary"] = k.primary /\ k["control"] = k.control
                       /\ k.primary \in 0 .. 1000
                       /\ k.control \in {NotMeasured} \cup 0 .. 1000
  BY AssessmentAssumption
<1>2. \A k \in Kinds : k.primary \in Int /\ k.control \in Int
                       /\ (k.control = -1 \/ k.control >= 0)
  <2> TAKE k \in Kinds
  <2>1. k.primary \in 0 .. 1000 /\ k.control \in {NotMeasured} \cup 0 .. 1000
    BY <1>1
  <2>2. PICK p, c : p = k.primary /\ c = k.control
    OBVIOUS
  <2>3. p \in 0 .. 1000 /\ c \in {-1} \cup 0 .. 1000
    BY <2>1, <2>2 DEF NotMeasured
  <2>4. p \in Int /\ c \in Int /\ (c = -1 \/ c >= 0)
    BY <2>3
  <2> QED
    BY <2>2, <2>4
<1>3. \A k \in Kinds : k \in PrimaryOnly <=> k.primary >= 50 /\ k.control \in 0 .. 49
  BY <1>1, <1>2 DEF PrimaryOnly, On, Bad, degraded_loss, NotMeasured
<1>4. \A k \in Kinds : k \in ControlOnly <=> k.primary < 50 /\ k.control >= 50
  BY <1>1, <1>2 DEF ControlOnly, Bad, degraded_loss
<1>5. /\ PrimaryOnly \in SUBSET Kinds /\ ControlOnly \in SUBSET Kinds
      /\ On("control") \in SUBSET Kinds /\ PrimaryOnly \subseteq On("control")
  BY DEF PrimaryOnly, ControlOnly, On, Bad
<1> QED
  BY <1>3, <1>4, <1>5

\* What a batch of minutes does to the comparison.
LEMMA MeasuredIsolation ==
  ASSUME TypeOK, NEW k \in Kinds, NEW n \in Batches, Measure(k, n)
  PROVE  LET c == paired_comparison(minutes)  d == paired_comparison(minutes')
         IN  /\ Isolated(d) /\ ~Isolated(c) => k \in PrimaryOnly
             /\ Isolated(c) /\ ~Isolated(d) => k \in ControlOnly
<1> DEFINE c == paired_comparison(minutes)
           d == paired_comparison(minutes')
<1>1. /\ c.common_minutes = Total(minutes, On("control"))
      /\ c.primary_only_bad = Total(minutes, PrimaryOnly)
      /\ c.control_only_bad = Total(minutes, ControlOnly)
      /\ d.common_minutes = Total(minutes', On("control"))
      /\ d.primary_only_bad = Total(minutes', PrimaryOnly)
      /\ d.control_only_bad = Total(minutes', ControlOnly)
  BY DEF paired_comparison, Compared
<1> HIDE DEF c, d
<1>2. PICK i, x, y, j, u, v :
        /\ i = c.common_minutes /\ x = c.primary_only_bad /\ y = c.control_only_bad
        /\ j = d.common_minutes /\ u = d.primary_only_bad /\ v = d.control_only_bad
  OBVIOUS
<1>3. /\ i \in Nat /\ x \in Nat /\ y \in Nat /\ j \in Nat /\ u \in Nat /\ v \in Nat
      /\ i <= j /\ x <= u /\ y <= v
      /\ k \notin PrimaryOnly => u = x
      /\ k \notin ControlOnly => v = y
  BY <1>1, <1>2, TotalsGrow, KindsCompared
<1>4. i = 0 => x = 0
  <2>1. IsFiniteSet(On("control")) /\ IsFiniteSet(PrimaryOnly)
    BY AssessmentAssumption, KindsCompared, FS_Subset
  <2>2. \A l \in On("control") : minutes[l] \in Nat
    BY KindsCompared, TotalsGrow
  <2>3. i = 0 => \A l \in On("control") : minutes[l] = 0
    BY <1>1, <1>2, <2>1, <2>2, SumIsNought DEF Total
  <2>4. i = 0 => \A l \in PrimaryOnly : minutes[l] \in Nat /\ minutes[l] = 0
    BY <2>2, <2>3, KindsCompared
  <2> QED
    BY <1>1, <1>2, <2>1, <2>4, SumIsNought DEF Total
<1>5. Isolated(c) <=> i # 0 /\ x >= 10 /\ x > 3 * y /\ x > 3
  BY <1>2 DEF Isolated, FarMore
<1>6. Isolated(d) <=> j # 0 /\ u >= 10 /\ u > 3 * v /\ u > 3
  BY <1>2 DEF Isolated, FarMore
<1>7. k \notin PrimaryOnly => (Isolated(d) => Isolated(c))
  BY <1>3, <1>4, <1>5, <1>6
<1>8. k \notin ControlOnly => (Isolated(c) => Isolated(d))
  BY <1>3, <1>5, <1>6
<1> QED
  BY <1>7, <1>8 DEF c, d

\* What a check does to the withholding.
LEMMA CheckedWithholding ==
  ASSUME TypeOK, NEW v \in Verdicts, CheckEgress(v)
  PROVE  /\ Withheld(egress) /\ ~Withheld(egress') =>
              egress'["confirmed"] > egress["confirmed"]
         /\ ~Withheld(egress) /\ Withheld(egress') =>
              egress'["leaked"] > egress["leaked"]
<1>1. \A u \in Verdicts : /\ egress[u] \in Nat
                          /\ egress'[u] = IF u = v THEN egress[u] + 1 ELSE egress[u]
  BY RoomForOne DEF CheckEgress, TypeOK
<1> QED
  BY <1>1 DEF Withheld, Verdicts

\* At any time only so many (host, family) pairs are broken.
BrokenFew == IsFiniteSet(broken_families)
\* It is part of the invariant of Reach.
LEMMA BrokenStayFew == Spec => []BrokenFew
<1>1. ReachInv => BrokenFew
  BY BrokenIsFinite DEF BrokenFew
<1> QED
  BY <1>1, ReachInvariant, AssessmentImplementsReach, PTL

\* The fault follows this link because of the minutes that say so, and no longer
\* because of those that say otherwise (IsolationFollowsEvidence).
THEOREM IsolationRestsOnEvidence == Spec => IsolationFollowsEvidence
<1> DEFINE told == "isolated_to_link" \in Before
           telling == "isolated_to_link" \in After
           more(K) == \E k \in K : minutes'[k] > minutes[k]
<1>1. ASSUME TypeOK, BrokenFew, BrokenFew', [Next]_vars,
             <<minutes, egress, dns>>' # <<minutes, egress, dns>>
      PROVE  /\ telling => \/ told
                           \/ more({k \in Kinds : k.primary >= 50 /\ k.control \in 0 .. 49})
                           \/ egress'["confirmed"] > egress["confirmed"]
             /\ told => \/ telling
                        \/ more({k \in Kinds : k.primary < 50 /\ k.control >= 50})
                        \/ egress'["leaked"] > egress["leaked"]
  <2>1. PICK a, b : /\ a = analyse(minutes, egress, dns, broken_families)
                    /\ b = analyse(minutes', egress', dns', broken_families')
    OBVIOUS
  <2>2. /\ told <=> "isolated_to_link" \in Keys(Listed(a))
        /\ telling <=> "isolated_to_link" \in Keys(Listed(b))
    BY <2>1 DEF Before, After
  <2>3. IsFiniteSet(broken_families) /\ IsFiniteSet(broken_families')
    BY <1>1 DEF BrokenFew
  <2>4. /\ a.reach_broken = broken_families /\ b.reach_broken = broken_families'
        /\ a.egress = egress /\ b.egress = egress'
        /\ a.comparison = paired_comparison(minutes)
        /\ b.comparison = paired_comparison(minutes')
    BY <2>1 DEF analyse
  <2>5. /\ told <=> ~Withheld(egress) /\ Isolated(paired_comparison(minutes))
        /\ telling <=> ~Withheld(egress') /\ Isolated(paired_comparison(minutes'))
    BY <2>2, <2>3, <2>4, IsolationTold
  <2> HIDE DEF told, telling
  <2>6. CASE \E k \in Kinds, n \in Batches : Measure(k, n)
    <3>1. PICK k \in Kinds, n \in Batches : Measure(k, n)
      BY <2>6
    <3>2. egress' = egress /\ minutes'[k] > minutes[k]
      BY <1>1, <3>1, TotalsGrow DEF Measure
    <3>3. /\ Isolated(paired_comparison(minutes')) /\ ~Isolated(paired_comparison(minutes))
               => k \in PrimaryOnly
          /\ Isolated(paired_comparison(minutes)) /\ ~Isolated(paired_comparison(minutes'))
               => k \in ControlOnly
      BY <1>1, <3>1, MeasuredIsolation
    <3> QED
      BY <2>5, <3>2, <3>3, KindsCompared
  <2>7. CASE \E v \in Verdicts : CheckEgress(v)
    <3>1. PICK v \in Verdicts : CheckEgress(v)
      BY <2>7
    <3>2. minutes' = minutes
      BY <3>1 DEF CheckEgress
    <3> QED
      BY <1>1, <2>5, <3>1, <3>2, CheckedWithholding
  <2>8. CASE \E asked \in (SUBSET Roles) \ {{}} :
               \E n \in [asked -> Failures] : LookUp(asked, n)
    <3>1. minutes' = minutes /\ egress' = egress
      BY <2>8 DEF LookUp
    <3> QED
      BY <2>5, <3>1
  <2>9. CASE Reaching \/ UNCHANGED vars
    BY <1>1, <2>9 DEF Reaching, vars
  <2> QED
    BY <1>1, <2>6, <2>7, <2>8, <2>9 DEF Next
<1>2. ASSUME TypeOK, BrokenFew, BrokenFew', [Next]_vars
      PROVE  EvidenceFollowed
  <2> SUFFICES ASSUME <<minutes, egress, dns>>' # <<minutes, egress, dns>>
               PROVE  EvidenceFollowed
    BY DEF EvidenceFollowed
  <2> HIDE DEF told, telling, more
  <2>1. /\ telling => \/ told
                      \/ more({k \in Kinds : k.primary >= 50 /\ k.control \in 0 .. 49})
                      \/ egress'["confirmed"] > egress["confirmed"]
        /\ told => \/ telling
                   \/ more({k \in Kinds : k.primary < 50 /\ k.control >= 50})
                   \/ egress'["leaked"] > egress["leaked"]
    BY <1>1, <1>2
  <2> SUFFICES \A before \in {told}, after \in {telling} :
               /\ after => \/ before
                           \/ more({k \in Kinds : k.primary >= 50 /\ k.control \in 0 .. 49})
                           \/ egress'["confirmed"] > egress["confirmed"]
               /\ before => \/ after
                            \/ more({k \in Kinds : k.primary < 50 /\ k.control >= 50})
                            \/ egress'["leaked"] > egress["leaked"]
    BY DEF EvidenceFollowed, told, telling, more
  <2> TAKE before \in {told}, after \in {telling}
  <2>2. before = told /\ after = telling
    OBVIOUS
  <2> QED
    BY <2>1, <2>2
<1> QED
  BY <1>2, TypeCorrect, BrokenStayFew, PTL
  DEF IsolationFollowsEvidence, Spec
=============================================================================
