---------------------------- MODULE Egress_proofs ----------------------------
(***************************************************************************)
(* What holds of the egress check for every list of families, every set of *)
(* addresses and networks, and every bound on the log.                     *)
(***************************************************************************)
EXTENDS Egress, Folding

-----------------------------------------------------------------------------
(* Types.                                                                  *)

\* The families are strings of the list, with addresses and networks known.
LEMMA FamilyIsListed ==
  ASSUME turn \in DOMAIN FAMILIES
  PROVE  family \in Families
  BY DEF family, Families

\* What is configured, and what addresses lie in, are networks.
LEMMA NetworksTyped ==
  /\ \A f \in Families : Expected[f] \in SUBSET Networks
  /\ \A f \in Families : Addresses[f] \subseteq DOMAIN Net
  /\ \A a \in DOMAIN Net : Net[a] \in Networks
  <1>1. \A f \in Families : Expected[f] \in SUBSET Networks
    BY DEF Networks
  <1>2. \A f \in Families : Addresses[f] \subseteq DOMAIN Net
    BY EgressAssumption
  <1>3. \A a \in DOMAIN Net : Net[a] \in Networks
    BY DEF Networks
  <1> QED BY <1>1, <1>2, <1>3

\* What expected_networks returns are networks.
LEMMA ExpectedTyped ==
  ASSUME NEW f \in Families, baseline \in [Families -> Networks \cup {None}],
         NEW ns \in expected_networks(f)
  PROVE  ns \in SUBSET Networks
  <1>1. CASE Expected[f] # {}
    BY <1>1, NetworksTyped DEF expected_networks
  <1>2. CASE Expected[f] = {}
    BY <1>2 DEF expected_networks
  <1> QED BY <1>1, <1>2

\* The initial states are typed.
LEMMA InitTyped == Init => TypeOK
  <1> SUFFICES ASSUME Init PROVE TypeOK
    OBVIOUS
  <1>1. turn \in DOMAIN FAMILIES
    BY EgressAssumption DEF Init
  <1>2. log \in Seq(Entry)
    BY DEF Init
  <1> QED BY <1>1, <1>2 DEF Init, TypeOK

\* The next family is one of the list.
LEMMA NextFamilyTyped ==
  ASSUME turn \in DOMAIN FAMILIES, NextFamily
  PROVE  turn' \in DOMAIN FAMILIES
  BY EgressAssumption DEF NextFamily

\* A record of either kind is an entry of the log.
LEMMA EntryTyped ==
  ASSUME TypeOK
  PROVE  /\ \A ok \in {"yes", "no", "unknown"} :
              address' \in DOMAIN Net \cup {None} => Row(ok) \in Entry
         /\ \A k \in {"egress_unexpected", "egress_restored", "egress_baseline"} :
              Event(k) \in Entry
         /\ [kind |-> "restart", ts |-> Len(log) + 1, family |-> family,
             address |-> None] \in Entry
  <1>1. family \in Families
    BY FamilyIsListed DEF TypeOK
  <1>2. Len(log) + 1 \in Nat
    BY DEF TypeOK
  <1>3. address \in DOMAIN Net \cup {None}
    BY DEF TypeOK
  <1> QED BY <1>1, <1>2, <1>3 DEF Row, Event, Entry

\* Every state of the collector is typed (TypeOK).
THEOREM TypeCorrect == Spec => []TypeOK
  <1>1. TypeOK /\ [Next]_vars => TypeOK'
    <2> SUFFICES ASSUME TypeOK, [Next]_vars PROVE TypeOK'
      OBVIOUS
    <2> USE DEF TypeOK
    <2>0. family \in Families
      BY FamilyIsListed
    <2>1. CASE CheckUnknown
      <3>1. log' \in Seq(Entry)
        BY <2>1, EntryTyped DEF CheckUnknown
      <3>2. turn' \in DOMAIN FAMILIES
        BY <2>1, NextFamilyTyped DEF CheckUnknown
      <3> QED BY <2>1, <3>1, <3>2 DEF CheckUnknown
    <2>2. CASE CheckAnswered
      <3>1. networks' \in SUBSET Networks
        BY <2>0, <2>2, ExpectedTyped DEF CheckAnswered
      <3>2. address' \in DOMAIN Net
        BY <2>0, <2>2, NetworksTyped DEF CheckAnswered
      <3>3. pc' \in {"learn", "judge"} /\ address' \in Addresses[family]'
        BY <2>2 DEF CheckAnswered, family
      <3> QED BY <2>2, <3>1, <3>2, <3>3 DEF CheckAnswered
    <2>3. CASE learn
      <3>1. Net[address] \in Networks
        BY <2>0, <2>3, NetworksTyped DEF learn
      <3>2. baseline' \in [Families -> Networks \cup {None}]
        BY <2>3, <3>1 DEF learn
      <3>3. address' \in Addresses[family]'
        BY <2>3 DEF learn, family
      <3> QED BY <2>3, <3>2, <3>3 DEF learn
    <2>4. CASE Reread
      <3>1. networks' \in SUBSET Networks
        BY <2>0, <2>4, ExpectedTyped DEF Reread
      <3>2. log' \in Seq(Entry)
        BY <2>4, EntryTyped DEF Reread
      <3>3. address' \in Addresses[family]'
        BY <2>4 DEF Reread, family
      <3> QED BY <2>4, <3>1, <3>2, <3>3 DEF Reread
    <2>5. CASE Judge
      <3>1. log' \in Seq(Entry)
        BY <2>5, EntryTyped DEF Judge
      <3>2. address' \in Addresses[family]'
        BY <2>5 DEF Judge, family
      <3> QED BY <2>5, <3>1, <3>2 DEF Judge
    <2>6. CASE Report
      <3>1. address \in Addresses[family]
        BY <2>6 DEF Report
      <3>2. address \in DOMAIN Net
        BY <2>0, <3>1, NetworksTyped
      <3>3. /\ reported' \in [Families -> DOMAIN Net \cup {None}]
            /\ \A f \in Families : reported'[f] \in Addresses[f] \cup {None}
        BY <2>0, <2>6, <3>1, <3>2 DEF Report, Recovered
      <3>4. log' \in Seq(Entry)
        BY <2>6, EntryTyped DEF Report
      <3>5. turn' \in DOMAIN FAMILIES
        BY <2>6, NextFamilyTyped DEF Report
      <3> QED BY <2>6, <3>3, <3>4, <3>5 DEF Report
    <2>7. CASE Restart
      <3>1. log' \in Seq(Entry)
        BY <2>7, EntryTyped DEF Restart
      <3>2. turn' \in DOMAIN FAMILIES
        BY <2>7, EgressAssumption DEF Restart
      <3> QED BY <2>7, <3>1, <3>2 DEF Restart
    <2>8. CASE UNCHANGED vars
      BY <2>8 DEF vars, family
    <2> QED BY <2>1, <2>2, <2>3, <2>4, <2>5, <2>6, <2>7, <2>8 DEF Next
  <1> QED BY <1>1, InitTyped, PTL DEF Spec

-----------------------------------------------------------------------------
(* Configured prefixes.                                                    *)

\* While a check is judged, configured prefixes are what it is held against.
JudgedAsConfigured ==
  pc = "judge" /\ Expected[family] # {} => networks = Expected[family]

ConfiguredInv == ConfiguredPrefixesDecide /\ JudgedAsConfigured

\* An entry that keeps to the configured prefixes may follow any such log.
LEMMA ConfiguredAppend ==
  ASSUME TypeOK, ConfiguredPrefixesDecide, NEW e \in Entry, log' = Append(log, e),
         IsCheck(e) /\ e.ok # "unknown" /\ Expected[e.family] # {}
           => (e.ok = "yes" <=> Net[e.address] \in Expected[e.family])
  PROVE  ConfiguredPrefixesDecide'
  <1>1. /\ \A i \in DOMAIN log : log'[i] = log[i]
        /\ log'[Len(log) + 1] = e
        /\ DOMAIN log' = DOMAIN log \cup {Len(log) + 1}
    BY DEF TypeOK
  <1> QED BY <1>1 DEF ConfiguredPrefixesDecide, IsCheck

\* Configured prefixes alone decide a check (ConfiguredPrefixesDecide).
THEOREM ConfiguredDecide == Spec => []ConfiguredPrefixesDecide
  <1>1. Init => ConfiguredInv
    BY DEF Init, ConfiguredInv, ConfiguredPrefixesDecide, JudgedAsConfigured
  <1>2. TypeOK /\ ConfiguredInv /\ [Next]_vars => ConfiguredInv'
    <2> SUFFICES ASSUME TypeOK, ConfiguredPrefixesDecide, JudgedAsConfigured,
                        [Next]_vars
                 PROVE  ConfiguredPrefixesDecide' /\ JudgedAsConfigured'
      BY DEF ConfiguredInv
    <2>0. family \in Families
      BY FamilyIsListed DEF TypeOK
    <2>1. CASE CheckUnknown
      <3>1. Row("unknown") \in Entry /\ Row("unknown").ok = "unknown"
        BY <2>1, EntryTyped DEF CheckUnknown, Row
      <3>2. ConfiguredPrefixesDecide'
        BY <2>1, <3>1, ConfiguredAppend DEF CheckUnknown
      <3> QED BY <2>1, <3>2 DEF CheckUnknown, JudgedAsConfigured
    <2>2. CASE CheckAnswered
      BY <2>2 DEF CheckAnswered, ConfiguredPrefixesDecide, JudgedAsConfigured,
                  expected_networks, family
    <2>3. CASE learn
      BY <2>3 DEF learn, ConfiguredPrefixesDecide, JudgedAsConfigured
    <2>4. CASE Reread
      <3>1. Event("egress_baseline") \in Entry /\ ~IsCheck(Event("egress_baseline"))
        BY EntryTyped DEF Event, IsCheck
      <3>2. ConfiguredPrefixesDecide'
        BY <2>4, <3>1, ConfiguredAppend DEF Reread
      <3> QED BY <2>4, <3>2 DEF Reread, JudgedAsConfigured, expected_networks, family
    <2>5. CASE Judge
      <3> DEFINE ok == IF Inside THEN "yes" ELSE "no"
      <3>1. Row(ok) \in Entry
        BY <2>5, EntryTyped DEF Judge, TypeOK
      <3>2. /\ Row(ok).ok = "yes" <=> Net[address] \in networks
            /\ Row(ok).family = family /\ Row(ok).address = address
        BY <2>5 DEF Judge, Row, Inside
      <3>3. Expected[family] # {} => networks = Expected[family]
        BY <2>5 DEF Judge, JudgedAsConfigured
      <3>4. ConfiguredPrefixesDecide'
        BY <2>5, <3>1, <3>2, <3>3, ConfiguredAppend DEF Judge
      <3> QED BY <2>5, <3>4 DEF Judge, JudgedAsConfigured
    <2>6. CASE Report
      <3>1. \A k \in {"egress_unexpected", "egress_restored"} :
              Event(k) \in Entry /\ ~IsCheck(Event(k))
        BY EntryTyped DEF Event, IsCheck
      <3>2. ConfiguredPrefixesDecide'
        <4>1. CASE log' = log
          BY <4>1 DEF ConfiguredPrefixesDecide
        <4>2. CASE \E k \in {"egress_unexpected", "egress_restored"} :
                     log' = Append(log, Event(k))
          BY <3>1, <4>2, ConfiguredAppend
        <4> QED BY <2>6, <4>1, <4>2 DEF Report
      <3> QED BY <2>6, <3>2 DEF Report, JudgedAsConfigured
    <2>7. CASE Restart
      <3> DEFINE e == [kind |-> "restart", ts |-> Len(log) + 1,
                       family |-> family, address |-> None]
      <3>1. e \in Entry /\ ~IsCheck(e)
        BY EntryTyped DEF IsCheck
      <3>2. ConfiguredPrefixesDecide'
        BY <2>7, <3>1, ConfiguredAppend DEF Restart
      <3> QED BY <2>7, <3>2 DEF Restart, JudgedAsConfigured
    <2>8. CASE UNCHANGED vars
      BY <2>8 DEF vars, ConfiguredPrefixesDecide, JudgedAsConfigured, family
    <2> QED BY <2>1, <2>2, <2>3, <2>4, <2>5, <2>6, <2>7, <2>8 DEF Next
  <1>3. ConfiguredInv => ConfiguredPrefixesDecide
    BY DEF ConfiguredInv
  <1> QED BY <1>1, <1>2, <1>3, TypeCorrect, PTL DEF Spec

-----------------------------------------------------------------------------
(* Events.                                                                 *)

\* What was last told, read off the log, is what `reported` holds.
ReportedIsTold ==
  \A f \in Families, a \in DOMAIN Net :
    ToldOf(f, a, Len(log)) <=> reported[f] = a

EventsInv == EventsTellChanges /\ ReportedIsTold

IsEvent(e) == e.kind \in {"egress_unexpected", "egress_restored"}

\* An entry changes nothing that was told up to an earlier place.
LEMMA ToldStays ==
  ASSUME log \in Seq(Entry), NEW e \in Entry, log' = Append(log, e),
         NEW f, NEW a, NEW i \in Int, i <= Len(log)
  PROVE  ToldOf(f, a, i)' <=> ToldOf(f, a, i)
  <1>1. \A j \in 1..i : log'[j] = log[j]
    OBVIOUS
  <1>2. Told(f, i)' = Told(f, i)
    BY <1>1 DEF Told
  <1>3. \A j \in Told(f, i) : log'[j] = log[j]
    BY <1>1 DEF Told
  <1> QED BY <1>2, <1>3 DEF ToldOf

\* After a restart nothing has been told.
LEMMA RestartTellsNothing ==
  ASSUME log \in Seq(Entry), NEW e \in Entry, log' = Append(log, e),
         e.kind = "restart", NEW f, NEW a, NEW n \in Nat, n = Len(log) + 1
  PROVE  ~ToldOf(f, a, n)'
  <1>1. log'[n] = e
    OBVIOUS
  <1>2. Told(f, n)' = {}
    BY <1>1 DEF Told
  <1> QED BY <1>2 DEF ToldOf

\* An event of the family is what it was told last.
LEMMA EventTells ==
  ASSUME log \in Seq(Entry), NEW e \in Entry, log' = Append(log, e),
         IsEvent(e), NEW a, NEW n \in Nat, n = Len(log) + 1
  PROVE  ToldOf(e.family, a, n)' <=>
           e.kind = "egress_unexpected" /\ e.address = a
  <1>1. n >= 1 /\ log'[n] = e
    OBVIOUS
  <1>2. n \in Told(e.family, n)'
    BY <1>1 DEF Told, IsEvent
  <1>3. \A j \in Told(e.family, n)' : j \in 1..n
    BY DEF Told
  <1>4. \A j \in Told(e.family, n)' : (\A k \in Told(e.family, n)' : k <= j) <=> j = n
    BY <1>1, <1>2, <1>3
  <1> QED BY <1>1, <1>2, <1>4 DEF ToldOf

\* Any other entry leaves what a family was told as it is.
LEMMA OthersTellNothing ==
  ASSUME log \in Seq(Entry), NEW e \in Entry, log' = Append(log, e),
         e.kind # "restart", NEW f, ~(IsEvent(e) /\ e.family = f), NEW a,
         NEW n \in Nat, n = Len(log) + 1
  PROVE  ToldOf(f, a, n)' <=> ToldOf(f, a, n - 1)
  <1>1. /\ log'[n] = e /\ n - 1 = Len(log)
        /\ \A j \in 1..(n - 1) : log'[j] = log[j]
    OBVIOUS
  <1>2. ASSUME NEW j \in 1..(n - 1)
        PROVE  (\A k \in j..n : log'[k].kind # "restart") <=>
                 (\A k \in j..(n - 1) : log[k].kind # "restart")
    <2>1. j..n = (j..(n - 1)) \cup {n}
      OBVIOUS
    <2>2. \A k \in j..(n - 1) : log'[k] = log[k]
      BY <1>1
    <2> QED BY <1>1, <2>1, <2>2
  <1>3. Told(f, n)' = Told(f, n - 1)
    <2>1. n \notin Told(f, n)'
      BY <1>1 DEF Told, IsEvent
    <2>2. ASSUME NEW j \in 1..(n - 1)
          PROVE  j \in Told(f, n)' <=> j \in Told(f, n - 1)
      <3>1. j \in 1..n /\ log'[j] = log[j]
        BY <1>1
      <3> QED BY <1>2, <3>1 DEF Told
    <2>3. Told(f, n)' \subseteq 1..n /\ Told(f, n - 1) \subseteq 1..(n - 1)
      BY DEF Told
    <2>4. 1..n \subseteq (1..(n - 1)) \cup {n}
      OBVIOUS
    <2> QED BY <2>1, <2>2, <2>3, <2>4
  <1>4. \A j \in Told(f, n - 1) : log'[j] = log[j]
    BY <1>1 DEF Told
  <1> QED BY <1>3, <1>4 DEF ToldOf

\* An entry that tells a change, or tells nothing, may follow any such log.
LEMMA EventsAppend ==
  ASSUME TypeOK, EventsTellChanges, NEW e \in Entry, log' = Append(log, e),
         e.kind = "egress_unexpected" => ~ToldOf(e.family, e.address, Len(log)),
         e.kind = "egress_restored" =>
           \E b \in Addresses[e.family] : ToldOf(e.family, b, Len(log))
  PROVE  EventsTellChanges'
  <1> USE DEF TypeOK
  <1>1. /\ DOMAIN log' = DOMAIN log \cup {Len(log) + 1}
        /\ \A i \in DOMAIN log : log'[i] = log[i] /\ i \in Int /\ i - 1 <= Len(log)
        /\ log'[Len(log) + 1] = e
        /\ Len(log) \in Nat
    OBVIOUS
  <1>2. \A f, a : \A i \in Int : i <= Len(log) =>
          (ToldOf(f, a, i)' <=> ToldOf(f, a, i))
    BY ToldStays
  <1>3. ASSUME NEW i \in DOMAIN log', NEW f, NEW a, f = log'[i].family,
               a = log'[i].address
        PROVE  /\ log'[i].kind = "egress_unexpected" => ~ToldOf(f, a, i - 1)'
               /\ log'[i].kind = "egress_restored" =>
                    \E b \in Addresses[f] : ToldOf(f, b, i - 1)'
    <2>1. CASE i \in DOMAIN log
      <3>1. /\ i - 1 \in Int /\ i - 1 <= Len(log)
            /\ log'[i] = log[i]
        BY <1>1, <2>1
      <3>2. \A g, b : ToldOf(g, b, i - 1)' <=> ToldOf(g, b, i - 1)
        BY <1>2, <3>1
      <3>3. /\ log[i].kind = "egress_unexpected" => ~ToldOf(f, a, i - 1)
            /\ log[i].kind = "egress_restored" =>
                    \E b \in Addresses[f] : ToldOf(f, b, i - 1)
        BY <1>3, <2>1, <3>1 DEF EventsTellChanges
      <3> QED BY <3>1, <3>2, <3>3
    <2>2. CASE i = Len(log) + 1
      <3>1. i - 1 = Len(log) /\ log'[i] = e
        BY <1>1, <2>2
      <3>2. \A g, b : ToldOf(g, b, i - 1)' <=> ToldOf(g, b, i - 1)
        BY <1>1, <1>2, <3>1
      <3> QED BY <1>3, <3>1, <3>2
    <2> QED BY <1>1, <2>1, <2>2
  <1> QED BY <1>3 DEF EventsTellChanges

\* To know what is told at the new end of the log is to know ReportedIsTold.
LEMMA ReportedAtEnd ==
  ASSUME NEW n \in Nat, Len(log)' = n,
         \A f \in Families, a \in DOMAIN Net : ToldOf(f, a, n)' <=> reported'[f] = a
  PROVE  ReportedIsTold'
  BY DEF ReportedIsTold, ToldOf, Told

\* An entry that tells nothing keeps the invariant.
LEMMA QuietEntry ==
  ASSUME TypeOK, EventsInv, NEW e \in Entry, log' = Append(log, e),
         ~IsEvent(e), e.kind # "restart", UNCHANGED reported
  PROVE  EventsInv'
  <1> DEFINE n == Len(log) + 1
  <1>1. n \in Nat /\ Len(log)' = n /\ n - 1 = Len(log) /\ log \in Seq(Entry)
    BY DEF TypeOK
  <1> HIDE DEF n
  <1>2. EventsTellChanges'
    BY EventsAppend DEF EventsInv, IsEvent
  <1>3. ASSUME NEW m \in Nat, m = Len(log) + 1,
               NEW f \in Families, NEW a \in DOMAIN Net
        PROVE  ToldOf(f, a, m)' <=> reported'[f] = a
    <2>1. ToldOf(f, a, m)' <=> ToldOf(f, a, m - 1)
      BY <1>1, <1>3, OthersTellNothing
    <2>2. m - 1 = Len(log)
      BY <1>1, <1>3
    <2> QED BY <1>3, <2>1, <2>2 DEF EventsInv, ReportedIsTold
  <1>4. ReportedIsTold'
    BY <1>1, <1>3, ReportedAtEnd DEF n
  <1> QED BY <1>2, <1>4 DEF EventsInv

\* What was reported is always what was told.
LEMMA EventsHold == Spec => []EventsInv
  <1>1. Init => EventsInv
    <2> SUFFICES ASSUME Init PROVE EventsInv
      OBVIOUS
    <2>1. log = <<>> /\ \A f \in Families : reported[f] = None
      BY DEF Init
    <2>2. EventsTellChanges
      BY <2>1 DEF EventsTellChanges
    <2>3. \A f, a : ~ToldOf(f, a, Len(log))
      BY <2>1 DEF ToldOf, Told
    <2>4. ReportedIsTold
      BY <2>1, <2>3, EgressAssumption DEF ReportedIsTold
    <2> QED BY <2>2, <2>4 DEF EventsInv
  <1>2. TypeOK /\ EventsInv /\ [Next]_vars => EventsInv'
    <2> SUFFICES ASSUME TypeOK, EventsInv, [Next]_vars PROVE EventsInv'
      OBVIOUS
    <2>0. /\ family \in Families /\ log \in Seq(Entry)
          /\ reported \in [Families -> DOMAIN Net \cup {None}]
      BY FamilyIsListed DEF TypeOK
    <2>1. CASE CheckUnknown
      <3>1. Row("unknown") \in Entry /\ Row("unknown").kind = "egress"
        BY <2>1, EntryTyped DEF CheckUnknown, Row
      <3> QED BY <2>1, <3>1, QuietEntry DEF CheckUnknown, IsEvent
    <2>2. CASE UNCHANGED <<log, reported>>
      BY <2>2 DEF EventsInv, EventsTellChanges, ReportedIsTold, ToldOf, Told
    <2>3. CASE CheckAnswered \/ learn \/ UNCHANGED vars
      BY <2>2, <2>3 DEF CheckAnswered, learn, vars
    <2>4. CASE Reread
      <3>1. /\ Event("egress_baseline") \in Entry
            /\ Event("egress_baseline").kind = "egress_baseline"
        BY EntryTyped DEF Event
      <3> QED BY <2>4, <3>1, QuietEntry DEF Reread, IsEvent
    <2>5. CASE Judge
      <3> DEFINE ok == IF Inside THEN "yes" ELSE "no"
      <3>1. Row(ok) \in Entry /\ Row(ok).kind = "egress"
        BY <2>5, EntryTyped DEF Judge, Row, TypeOK
      <3> QED BY <2>5, <3>1, QuietEntry DEF Judge, IsEvent
    <2>6. CASE Report
      <3>1. /\ address \in Addresses[family]
            /\ Addresses[family] \subseteq DOMAIN Net /\ None \notin DOMAIN Net
        BY <2>0, <2>6, EgressAssumption DEF Report, TypeOK
      <3>2. ASSUME NEW e \in Entry, log' = Append(log, e), IsEvent(e),
                   e.family = family,
                   reported' = [reported EXCEPT ![family] =
                     IF e.kind = "egress_unexpected" THEN e.address ELSE None]
            PROVE  ReportedIsTold'
        <4>1. /\ Len(log) + 1 \in Nat /\ Len(log)' = Len(log) + 1
              /\ e.kind # "restart"
          BY <2>0, <3>2 DEF IsEvent
        <4>2. ASSUME NEW m \in Nat, m = Len(log) + 1,
                     NEW f \in Families, NEW a \in DOMAIN Net
              PROVE  ToldOf(f, a, m)' <=> reported'[f] = a
          <5>1. CASE f = family
            <6>1. ToldOf(e.family, a, m)' <=>
                    e.kind = "egress_unexpected" /\ e.address = a
              BY <2>0, <3>2, <4>2, EventTells
            <6>2. reported'[f] = IF e.kind = "egress_unexpected"
                                 THEN e.address ELSE None
              BY <2>0, <3>2, <5>1
            <6> QED BY <3>1, <3>2, <5>1, <6>1, <6>2
          <5>2. CASE f # family
            <6>1. ToldOf(f, a, m)' <=> ToldOf(f, a, m - 1)
              BY <2>0, <3>2, <4>1, <4>2, <5>2, OthersTellNothing
            <6>2. m - 1 = Len(log) /\ reported'[f] = reported[f]
              BY <2>0, <3>2, <4>2, <5>2
            <6> QED BY <4>2, <6>1, <6>2 DEF EventsInv, ReportedIsTold
          <5> QED BY <5>1, <5>2
        <4> QED BY <4>1, <4>2, ReportedAtEnd
      <3>3. \A k \in {"egress_unexpected", "egress_restored"} :
              /\ Event(k) \in Entry /\ IsEvent(Event(k))
              /\ Event(k).kind = k /\ Event(k).family = family
              /\ Event(k).address = address
        BY EntryTyped DEF Event, IsEvent
      <3>4. CASE /\ NewLeak
                 /\ reported' = [reported EXCEPT ![family] = address]
                 /\ log' = Append(log, Event("egress_unexpected"))
        <4>1. ReportedIsTold'
          BY <3>2, <3>3, <3>4
        <4>2. ~ToldOf(family, address, Len(log))
          BY <2>0, <3>1, <3>4 DEF EventsInv, ReportedIsTold, NewLeak
        <4>3. EventsTellChanges'
          BY <3>3, <3>4, <4>2, EventsAppend DEF EventsInv
        <4> QED BY <4>1, <4>3 DEF EventsInv
      <3>5. CASE /\ Inside /\ reported[family] # None
                 /\ reported' = Recovered
                 /\ log' = Append(log, Event("egress_restored"))
        <4>1. ReportedIsTold'
          BY <3>2, <3>3, <3>5 DEF Recovered
        <4>2. reported[family] \in Addresses[family]
          BY <2>0, <3>5 DEF TypeOK
        <4>3. ToldOf(family, reported[family], Len(log))
          BY <2>0, <3>1, <4>2 DEF EventsInv, ReportedIsTold
        <4>4. EventsTellChanges'
          BY <3>3, <3>5, <4>2, <4>3, EventsAppend DEF EventsInv
        <4> QED BY <4>1, <4>4 DEF EventsInv
      <3> QED BY <2>2, <2>6, <3>4, <3>5 DEF Report
    <2>7. CASE Restart
      <3> DEFINE e == [kind |-> "restart", ts |-> Len(log) + 1,
                       family |-> family, address |-> None]
      <3>1. e \in Entry /\ e.kind = "restart"
        BY EntryTyped
      <3> HIDE DEF e
      <3>2. log' = Append(log, e) /\ \A f \in Families : reported'[f] = None
        BY <2>7 DEF Restart, e
      <3>3. EventsTellChanges'
        BY <3>1, <3>2, EventsAppend DEF EventsInv
      <3>4. Len(log) + 1 \in Nat /\ Len(log)' = Len(log) + 1
        BY <2>0, <3>1, <3>2
      <3>5. ASSUME NEW m \in Nat, m = Len(log) + 1,
                   NEW f \in Families, NEW a \in DOMAIN Net
            PROVE  ToldOf(f, a, m)' <=> reported'[f] = a
        <4>1. ~ToldOf(f, a, m)'
          BY <2>0, <3>1, <3>2, <3>5, RestartTellsNothing
        <4> QED BY <3>2, <4>1, EgressAssumption
      <3>6. ReportedIsTold'
        BY <3>4, <3>5, ReportedAtEnd
      <3> QED BY <3>3, <3>6 DEF EventsInv
    <2> QED BY <2>1, <2>3, <2>4, <2>5, <2>6, <2>7 DEF Next
  <1> QED BY <1>1, <1>2, TypeCorrect, PTL DEF Spec

\* In one run of the process each event tells a change (EventsTellChanges).
THEOREM ChangesAreTold == Spec => []EventsTellChanges
  <1>1. EventsInv => EventsTellChanges
    BY DEF EventsInv
  <1> QED BY <1>1, EventsHold, PTL

-----------------------------------------------------------------------------
(* How the report reads the log.                                           *)

Window == [start : Nat, end : Nat, address : DOMAIN Net \cup {None}, checks : Nat]
Open == {<<>>} \cup {<<w>> : w \in Window}
Summaries ==
  [counted : [{"yes", "no", "unknown"} -> Nat], windows : Seq(Window), current : Open]

\* The open window is none or one.
LEMMA OpenTyped ==
  /\ <<>> \in Open
  /\ \A c \in Open : c \in Seq(Window)
  /\ \A c \in Open : c # <<>> => c[1] \in Window /\ c = <<c[1]>>
  /\ \A w \in Window : <<w>> \in Open
<1>1. \A w \in Window : <<w>> \in Seq(Window) /\ <<w>>[1] = w
  OBVIOUS
<1>2. <<>> \in Seq(Window)
  OBVIOUS
<1>3. <<>> \in Open /\ \A w \in Window : <<w>> \in Open
  BY DEF Open
<1>4. ASSUME NEW c \in Open
      PROVE  c \in Seq(Window) /\ (c # <<>> => c[1] \in Window /\ c = <<c[1]>>)
  <2>1. c = <<>> \/ \E w \in Window : c = <<w>>
    BY DEF Open
  <2> QED
    BY <1>1, <1>2, <2>1
<1> QED
  BY <1>3, <1>4

\* A row more leaves the report a report.
LEMMA CountTyped ==
  ASSUME NEW s \in Summaries, NEW e \in Entry
  PROVE  Count(s, e) \in Summaries
<1>0. /\ s.counted \in [{"yes", "no", "unknown"} -> Nat]
      /\ s.windows \in Seq(Window) /\ s.current \in Open
  BY DEF Summaries
<1>1. CASE ~IsCheck(e)
  BY <1>1 DEF Count
<1>2. CASE IsCheck(e)
  <2>1. /\ e.ts \in Nat /\ e.address \in DOMAIN Net \cup {None}
        /\ e.ok \in {"yes", "no", "unknown"}
    BY <1>2 DEF Entry, IsCheck
  <2> DEFINE counted == [s.counted EXCEPT ![e.ok] = @ + 1]
  <2>2. counted \in [{"yes", "no", "unknown"} -> Nat]
    BY <1>0, <2>1
  <2> HIDE DEF counted
  <2>3. \A ws \in Seq(Window), c \in Open : Summary(counted, ws, c) \in Summaries
    BY <2>2 DEF Summary, Summaries
  <2>4. Opened(e) \in Open
    BY <2>1, OpenTyped DEF Opened, Window
  <2>5. s.windows \o s.current \in Seq(Window)
    BY <1>0, OpenTyped
  <2>6. Ended(s.current, e) \in Open
    <3>1. \A w \in Window : [w EXCEPT !.end = e.ts] \in Window
      BY <2>1 DEF Window
    <3> QED
      BY <1>0, <3>1, OpenTyped DEF Ended
  <2>7. s.windows \o Ended(s.current, e) \in Seq(Window)
    BY <1>0, <2>6, OpenTyped
  <2>8. Continues(s.current, e) => Extended(s.current[1], e) \in Open
    <3>1. \A w \in Window : Extended(w, e) \in Open
      BY <2>1, OpenTyped DEF Extended, Window
    <3> QED
      BY <1>0, <3>1, OpenTyped DEF Continues
  <2>9. Count(s, e) = Graded(s, e)
    BY <1>2 DEF Count
  <2> QED
    BY <1>0, <2>1, <2>3, <2>4, <2>5, <2>7, <2>8, <2>9, OpenTyped DEF Graded, counted
<1> QED
  BY <1>1, <1>2

\* g reads the entries of sq at any of the places 1 .. n, in their order.
Reads(g, sq, n) ==
  /\ g \in [SUBSET (1..n) -> Summaries]
  /\ \A s \in SUBSET (1..n) :
       g[s] = IF s = {} THEN Nothing ELSE Count(g[s \ {Max(s)}], sq[Max(s)])

\* Such a function exists: the recursion has a solution.
LEMMA ReadsSolved ==
  ASSUME NEW n \in Nat, NEW sq, \A i \in 1..n : sq[i] \in Entry
  PROVE  \E g : Reads(g, sq, n)
<1> DEFINE S == 1..n
           c == [s \in SUBSET S |-> Max(s)]
           h == [s \in SUBSET S |->
                  [r \in Summaries |-> IF s = {} THEN r ELSE Count(r, sq[c[s]])]]
<1>1. \A s \in SUBSET S : s # {} => c[s] \in s /\ c[s] = Max(s)
  BY MaxTaken
<1>2. IsFiniteSet(S)
  BY FS_Interval
<1>3. Takes(c, S)
  BY <1>1 DEF Takes
<1>4. Nothing \in Summaries
  BY OpenTyped DEF Nothing, Summary, Summaries
<1>5. Keeps(h, S, Summaries)
  <2>1. \A s \in SUBSET S, r \in Summaries : s # {} => sq[c[s]] \in Entry
    BY <1>1
  <2> HIDE DEF c
  <2> QED
    BY <2>1, CountTyped DEF Keeps
<1>6. \A s \in SUBSET S, r \in Summaries : s # {} => h[s][r] = Count(r, sq[Max(s)])
  BY <1>1
<1>7. \A s \in SUBSET S : s # {} => s \ {Max(s)} \in SUBSET S
  OBVIOUS
<1> HIDE DEF c, h, S
<1>8. PICK g \in [SUBSET S -> Summaries] : Solution(g, S, c, Nothing, h)
  BY <1>2, <1>3, <1>4, <1>5, RecursionSolved
<1>9. \A s \in SUBSET S :
        g[s] = IF s = {} THEN Nothing ELSE Count(g[s \ {Max(s)}], sq[Max(s)])
  BY <1>1, <1>6, <1>7, <1>8 DEF Solution
<1> QED
  BY <1>8, <1>9 DEF Reads, S

\* The report is what it has of all places.
LEMMA ReadsFold ==
  ASSUME NEW n \in Nat, NEW sq, DOMAIN sq = 1..n, NEW g, Reads(g, sq, n)
  PROVE  FoldLeft(Count, Nothing, sq) = g[1..n]
<1> DEFINE step(k) ==
             [s \in SUBSET (1..n) |->
                IF s = {} THEN Nothing ELSE Count(k[s \ {Max(s)}], sq[Max(s)])]
           f == CHOOSE k : k = step(k)
<1>1. FoldLeft(Count, Nothing, sq) = f[1..n]
  BY DEF FoldLeft, MapThenFoldSet
<1>2. g = step(g)
  BY DEF Reads
<1>3. f = step(f)
  BY <1>2
<1> HIDE DEF f
<1>4. \A s \in SUBSET (1..n) :
        f[s] = IF s = {} THEN Nothing ELSE Count(f[s \ {Max(s)}], sq[Max(s)])
  BY <1>3
<1>5. \A s \in SUBSET (1..n) : f[s] = g[s]
  <2> DEFINE Apart == {s \in SUBSET (1..n) : f[s] # g[s]}
  <2> SUFFICES ASSUME Apart # {} PROVE FALSE
    OBVIOUS
  <2>0. IsFiniteSet(1..n) /\ Apart \subseteq SUBSET (1..n)
    BY FS_Interval
  <2>1. PICK s \in Apart : \A x \in s : s \ {x} \notin Apart
    <3> HIDE DEF Apart
    <3> QED
      BY <2>0, SmallestSubset
  <2>2. s # {}
    BY <1>4 DEF Reads
  <2>3. f[s \ {Max(s)}] = g[s \ {Max(s)}]
    BY <2>1, <2>2, MaxTaken
  <2> QED
    BY <1>4, <2>2, <2>3 DEF Reads
<1> QED
  BY <1>1, <1>5

\* The report of a log with one more entry is that of the log and the entry.
LEMMA ReadAppend ==
  ASSUME NEW sq \in Seq(Entry), NEW e \in Entry
  PROVE  /\ FoldLeft(Count, Nothing, sq) \in Summaries
         /\ FoldLeft(Count, Nothing, Append(sq, e)) =
              Count(FoldLeft(Count, Nothing, sq), e)
<1> DEFINE n == Len(sq)
           tq == Append(sq, e)
<1>1. /\ n \in Nat /\ DOMAIN sq = 1..n /\ DOMAIN tq = 1..(n + 1)
      /\ tq[n + 1] = e /\ \A i \in 1..n : tq[i] = sq[i]
      /\ \A i \in 1..(n + 1) : tq[i] \in Entry
  OBVIOUS
<1> HIDE DEF n, tq
<1>2. PICK g : Reads(g, tq, n + 1)
  BY <1>1, ReadsSolved
<1> DEFINE k == [s \in SUBSET (1..n) |-> g[s]]
<1>3. SUBSET (1..n) \subseteq SUBSET (1..(n + 1))
  BY <1>1
<1>4. Reads(k, sq, n)
  <2>1. k \in [SUBSET (1..n) -> Summaries]
    BY <1>2, <1>3 DEF Reads
  <2>2. ASSUME NEW s \in SUBSET (1..n)
        PROVE  k[s] = IF s = {} THEN Nothing ELSE Count(k[s \ {Max(s)}], sq[Max(s)])
    <3>1. s # {} => Max(s) \in 1..n
      BY <1>1, MaxTaken
    <3>2. s # {} => tq[Max(s)] = sq[Max(s)]
      BY <1>1, <3>1
    <3> QED
      BY <1>2, <1>3, <3>2 DEF Reads
  <2> QED
    BY <2>1, <2>2 DEF Reads
<1>5. FoldLeft(Count, Nothing, sq) = g[1..n]
  BY <1>1, <1>4, ReadsFold
<1>6. FoldLeft(Count, Nothing, tq) = g[1..(n + 1)]
  BY <1>1, <1>2, ReadsFold
<1>7. Max(1..(n + 1)) = n + 1 /\ (1..(n + 1)) \ {n + 1} = 1..n /\ 1..(n + 1) # {}
  <2>1. n + 1 \in 1..(n + 1) /\ (1..(n + 1)) \ {n + 1} = 1..n
    BY <1>1
  <2>2. /\ Max(1..(n + 1)) \in 1..(n + 1)
        /\ \A i \in 1..(n + 1) : i <= Max(1..(n + 1))
    <3> DEFINE m == n + 1
    <3>0. m \in Nat /\ 1 <= m
      BY <1>1
    <3> HIDE DEF m
    <3>1. m \in 1..m
      BY <3>0
    <3>2. 1..m \in SUBSET (1..m) /\ 1..m # {}
      BY <3>1
    <3>3. Max(1..m) \in 1..m /\ \A i \in 1..m : i <= Max(1..m)
      BY <3>0, <3>2, MaxTaken
    <3> QED
      BY <3>3 DEF m
  <2>3. \A x \in 1..(n + 1) : n + 1 <= x => x = n + 1
    BY <1>1
  <2> QED
    BY <2>1, <2>2, <2>3
<1>8. g[1..(n + 1)] = Count(g[1..n], e)
  BY <1>1, <1>2, <1>7 DEF Reads
<1>9. g[1..n] \in Summaries
  BY <1>2, <1>3 DEF Reads
<1> QED
  BY <1>5, <1>6, <1>8, <1>9 DEF tq

\* Of an empty log nothing is read.
LEMMA ReadNothing == FoldLeft(Count, Nothing, <<>>) = Nothing
<1>1. PICK g : Reads(g, <<>>, 0)
  BY ReadsSolved
<1>2. FoldLeft(Count, Nothing, <<>>) = g[1..0]
  BY <1>1, ReadsFold
<1>3. 1..0 = {}
  OBVIOUS
<1> QED
  BY <1>1, <1>2, <1>3 DEF Reads

-----------------------------------------------------------------------------
(* Leak windows.                                                           *)

Reading == FoldLeft(Count, Nothing, log)

IsLeak(i) == IsCheck(log[i]) /\ log[i].ok = "no"
IsClean(i) == IsCheck(log[i]) /\ log[i].ok = "yes"

\* A row's time is its place.
Stamped == \A i \in DOMAIN log : log[i].ts = i

\* A window is of the rows from its first leaked one on, and counts them.
Exact(w) ==
  /\ w.start \in DOMAIN log /\ w.end \in w.start..Len(log)
  /\ IsLeak(w.start) /\ log[w.start].address = w.address
  /\ w.checks = Cardinality(Leaked(w.start, w.end))
  /\ \A i \in w.start..(w.end - 1) : ~IsClean(i)

Ordered(ws) == \A n \in DOMAIN ws : n + 1 \in DOMAIN ws => ws[n].end <= ws[n + 1].start

Covered(ws) ==
  \A i \in Leaked(1, Len(log)) :
    \E n \in DOMAIN ws : ws[n].address = log[i].address /\ i \in ws[n].start..ws[n].end

\* Nothing confirmed since the open window began, no leak since its last.
StillOpen(w) ==
  /\ \A i \in w.start..Len(log) : ~IsClean(i)
  /\ \A i \in (w.end + 1)..Len(log) : ~IsLeak(i)

\* Windows that are what the report promises of the log.
Fit(ws) == (\A n \in DOMAIN ws : Exact(ws[n])) /\ Ordered(ws) /\ Covered(ws)

CoverInv ==
  /\ Stamped
  /\ Fit(Finished(Reading))
  /\ Reading.current # <<>> => StillOpen(Reading.current[1])

\* A leaked row has been told when its check is over, unless the process died.
AnnouncedAt(i, f, a) ==
  \/ ToldOf(f, a, i)
  \/ i = Len(log) /\ pc = "event" /\ family = f /\ address = a /\ ~Inside
  \/ i < Len(log) /\ (ToldOf(f, a, i + 1) \/ log[i + 1].kind = "restart")

AnnounceInv ==
  \A i \in DOMAIN log : IsLeak(i) => AnnouncedAt(i, log[i].family, log[i].address)

\* A step of the collector adds at most one entry, stamped with its place.
LEMMA LogGrows ==
  ASSUME TypeOK, [Next]_vars
  PROVE  \/ log' = log
         \/ \E e \in Entry : e.ts = Len(log) + 1 /\ log' = Append(log, e)
<1>1. CASE CheckUnknown
  <2>1. Row("unknown") \in Entry /\ Row("unknown").ts = Len(log) + 1
    BY <1>1, EntryTyped DEF CheckUnknown, Row
  <2> QED
    BY <1>1, <2>1 DEF CheckUnknown
<1>2. CASE CheckAnswered \/ learn \/ UNCHANGED vars
  BY <1>2 DEF CheckAnswered, learn, vars
<1>3. \A k \in {"egress_unexpected", "egress_restored", "egress_baseline"} :
        Event(k) \in Entry /\ Event(k).ts = Len(log) + 1
  BY EntryTyped DEF Event
<1>4. CASE Reread
  BY <1>3, <1>4 DEF Reread
<1>5. CASE Judge
  <2>1. \A ok \in {"yes", "no"} : Row(ok) \in Entry /\ Row(ok).ts = Len(log) + 1
    BY <1>5, EntryTyped DEF Judge, Row, TypeOK
  <2> QED
    BY <1>5, <2>1 DEF Judge
<1>6. CASE Report
  BY <1>3, <1>6 DEF Report
<1>7. CASE Restart
  BY <1>7, EntryTyped DEF Restart
<1> QED
  BY <1>1, <1>2, <1>4, <1>5, <1>6, <1>7 DEF Next

\* The log with an entry more.
LEMMA Longer ==
  ASSUME log \in Seq(Entry), NEW e \in Entry, log' = Append(log, e)
  PROVE  /\ Len(log) \in Nat /\ Len(log)' = Len(log) + 1
         /\ DOMAIN log = 1..Len(log) /\ DOMAIN log' = 1..(Len(log) + 1)
         /\ log'[Len(log) + 1] = e /\ \A i \in 1..Len(log) : log'[i] = log[i]
  OBVIOUS

\* What is leaked up to a place stays so; the new entry is leaked or not.
LEMMA LeakedGrows ==
  ASSUME log \in Seq(Entry), NEW e \in Entry, log' = Append(log, e),
         NEW n \in Nat, n = Len(log) + 1, NEW from \in 1..n
  PROVE  /\ \A to \in 0..Len(log) : Leaked(from, to)' = Leaked(from, to)
         /\ Leaked(from, n)' =
              Leaked(from, n - 1) \cup (IF IsCheck(e) /\ e.ok = "no" THEN {n} ELSE {})
<1>1. /\ log'[n] = e /\ \A i \in 1..(n - 1) : log'[i] = log[i]
      /\ Len(log) = n - 1
  BY Longer
<1>2. \A to \in 0..(n - 1) : Leaked(from, to)' = Leaked(from, to)
  BY <1>1 DEF Leaked
<1>3. ASSUME NEW i
      PROVE  i \in Leaked(from, n)' <=>
               i \in Leaked(from, n - 1) \/ (i = n /\ IsCheck(e) /\ e.ok = "no")
  <2>1. i \in from..n <=> i \in from..(n - 1) \/ i = n
    OBVIOUS
  <2>2. i \in from..(n - 1) => log'[i] = log[i] /\ i # n
    BY <1>1
  <2> QED
    BY <1>1, <2>1, <2>2 DEF Leaked
<1> QED
  BY <1>1, <1>2, <1>3

\* A window of the log remains one.
LEMMA ExactStays ==
  ASSUME log \in Seq(Entry), NEW e \in Entry, log' = Append(log, e),
         NEW w \in Window, Exact(w)
  PROVE  Exact(w)'
<1>1. /\ w.start \in 1..Len(log) /\ w.end \in w.start..Len(log)
      /\ Len(log) \in Nat
  BY Longer DEF Exact
<1>2. Leaked(w.start, w.end)' = Leaked(w.start, w.end)
  <2> DEFINE n == Len(log) + 1
  <2>1. n \in Nat /\ w.start \in 1..n /\ w.end \in 0..Len(log)
    BY <1>1
  <2> HIDE DEF n
  <2> QED
    BY <2>1, LeakedGrows DEF n
<1>3. \A i \in w.start..w.end : log'[i] = log[i]
  BY <1>1, Longer
<1>4. w.start \in w.start..w.end
  BY <1>1
<1>5. w.start \in DOMAIN log' /\ w.end \in w.start..Len(log')
  BY <1>1, Longer
<1> QED
  BY <1>1, <1>2, <1>3, <1>4, <1>5 DEF Exact, IsLeak, IsClean

\* The windows with one more.
LEMMA OneMore ==
  ASSUME NEW ws \in Seq(Window), NEW w \in Window
  PROVE  /\ ws \o <<w>> \in Seq(Window) /\ Len(ws) \in Nat
         /\ DOMAIN ws = 1..Len(ws) /\ DOMAIN (ws \o <<w>>) = 1..(Len(ws) + 1)
         /\ (ws \o <<w>>)[Len(ws) + 1] = w
         /\ \A n \in 1..Len(ws) : ws[n] \in Window /\ (ws \o <<w>>)[n] = ws[n]
  OBVIOUS

\* The windows still fit when the new entry is no leak.
LEMMA FitKept ==
  ASSUME log \in Seq(Entry), NEW e \in Entry, log' = Append(log, e),
         ~(IsCheck(e) /\ e.ok = "no"), NEW ws \in Seq(Window), Fit(ws)
  PROVE  Fit(ws)'
<1>1. \A n \in DOMAIN ws : Exact(ws[n])'
  BY ExactStays DEF Fit
<1>2. Ordered(ws)'
  BY DEF Fit, Ordered
<1>3. Covered(ws)'
  <2> SUFFICES ASSUME NEW i \in Leaked(1, Len(log))'
               PROVE  \E n \in DOMAIN ws : ws[n].address = log'[i].address
                                           /\ i \in ws[n].start..ws[n].end
    BY DEF Covered
  <2>1. i \in 1..Len(log) /\ log'[i] = log[i]
    <3>1. i \in 1..(Len(log) + 1) /\ IsLeak(i)'
      BY Longer DEF Leaked, IsLeak
    <3> QED
      BY <3>1, Longer DEF IsLeak
  <2>2. i \in Leaked(1, Len(log))
    BY <2>1 DEF Leaked
  <2> QED
    BY <2>1, <2>2 DEF Fit, Covered
<1> QED
  BY <1>1, <1>2, <1>3 DEF Fit

\* They fit when the last is replaced by one that starts where it did, ends
\* at the new entry, and is of the entry's address if that is leaked.
LEMMA FitReplaced ==
  ASSUME log \in Seq(Entry), NEW e \in Entry, log' = Append(log, e),
         NEW ws \in Seq(Window), NEW w \in Window, NEW v \in Window,
         Fit(ws \o <<w>>), Exact(v)', v.start = w.start, v.address = w.address,
         v.end = Len(log) + 1, IsCheck(e) /\ e.ok = "no" => e.address = v.address
  PROVE  Fit(ws \o <<v>>)'
<1> DEFINE old == ws \o <<w>>
           new == ws \o <<v>>
           m == Len(ws) + 1
<1>0. /\ Len(ws) \in Nat /\ DOMAIN old = 1..m /\ DOMAIN new = 1..m
      /\ old[m] = w /\ new[m] = v
      /\ \A n \in 1..Len(ws) : ws[n] \in Window /\ old[n] = ws[n] /\ new[n] = ws[n]
  BY OneMore
<1>1. \A n \in 1..m : n # m => n \in 1..Len(ws)
  BY <1>0
<1>m. m \in 1..m
  BY <1>0
<1> HIDE DEF m
<1>2. \A n \in DOMAIN new : new[n].start = old[n].start /\ new[n].address = old[n].address
  BY <1>0, <1>1
<1>3. \A n \in DOMAIN new : Exact(new[n])'
  <2> SUFFICES ASSUME NEW n \in DOMAIN new, n # m PROVE Exact(new[n])'
    BY <1>0
  <2>1. Exact(old[n]) /\ old[n] \in Window /\ new[n] = old[n]
    BY <1>0, <1>1 DEF Fit
  <2> QED
    BY <2>1, ExactStays
<1>4. Ordered(new)'
  <2> SUFFICES ASSUME NEW n \in DOMAIN new, n + 1 \in DOMAIN new
               PROVE  new[n].end <= new[n + 1].start
    BY DEF Ordered
  <2>1. n # m
    BY <1>0
  <2>2. old[n].end <= old[n + 1].start
    BY <1>0 DEF Fit, Ordered
  <2> QED
    BY <1>0, <1>1, <1>2, <2>1, <2>2
<1>5. Covered(new)'
  <2> SUFFICES ASSUME NEW i \in Leaked(1, Len(log))'
               PROVE  \E n \in DOMAIN new : new[n].address = log'[i].address
                                            /\ i \in new[n].start..new[n].end
    BY DEF Covered
  <2>0. /\ Len(log) \in Nat /\ v.start \in 1..(Len(log) + 1)
        /\ w.end <= Len(log) /\ w.end \in Int
    <3>1. Exact(w)
      BY <1>0, <1>m DEF Fit
    <3> QED
      BY <3>1, Longer DEF Exact
  <2>1. i \in 1..(Len(log) + 1) /\ IsLeak(i)'
    BY Longer DEF Leaked, IsLeak
  <2>2. CASE i = Len(log) + 1
    <3>1. log'[i] = e
      BY <2>2, Longer
    <3>2. v.address = log'[i].address
      BY <2>1, <3>1 DEF IsLeak
    <3>3. i \in v.start..v.end
      BY <2>0, <2>2
    <3> QED
      BY <1>0, <1>m, <3>2, <3>3
  <2>3. CASE i # Len(log) + 1
    <3>1. i \in 1..Len(log) /\ log'[i] = log[i]
      BY <2>0, <2>1, <2>3, Longer
    <3>2. i \in Leaked(1, Len(log))
      BY <2>1, <3>1 DEF Leaked, IsLeak
    <3>3. PICK n \in DOMAIN old : /\ old[n].address = log[i].address
                                  /\ i \in old[n].start..old[n].end
      BY <3>2 DEF Fit, Covered
    <3>4. CASE n # m
      BY <1>0, <1>1, <3>1, <3>3, <3>4
    <3>5. CASE n = m
      <4>1. i \in w.start..w.end /\ w.address = log'[i].address
        BY <1>0, <3>1, <3>3, <3>5
      <4>2. i \in v.start..v.end
        BY <2>0, <4>1
      <4> QED
        BY <1>0, <1>m, <4>1, <4>2
    <3> QED
      BY <3>4, <3>5
  <2> QED
    BY <2>2, <2>3
<1> QED
  BY <1>3, <1>4, <1>5 DEF Fit

\* They fit with one more, of the new entry.
LEMMA FitAppended ==
  ASSUME log \in Seq(Entry), NEW e \in Entry, log' = Append(log, e),
         NEW ws \in Seq(Window), NEW v \in Window, Fit(ws), Exact(v)',
         v.start = Len(log) + 1, v.end = Len(log) + 1, v.address = e.address
  PROVE  Fit(ws \o <<v>>)'
<1> DEFINE new == ws \o <<v>>
           m == Len(ws) + 1
<1>0. /\ Len(ws) \in Nat /\ DOMAIN ws = 1..Len(ws) /\ DOMAIN new = 1..m
      /\ new[m] = v
      /\ \A n \in 1..Len(ws) : ws[n] \in Window /\ new[n] = ws[n]
  BY OneMore
<1>1. \A n \in 1..m : n # m => n \in 1..Len(ws)
  BY <1>0
<1>m. m \in 1..m /\ \A n \in 1..Len(ws) : n \in 1..m
  BY <1>0
<1>2. Len(log) \in Nat /\ \A n \in 1..Len(ws) : Exact(ws[n]) /\ ws[n].end <= Len(log)
  <2>1. Len(log) \in Nat /\ DOMAIN log = 1..Len(log)
    BY Longer
  <2>2. \A n \in 1..Len(ws) : Exact(ws[n])
    BY <1>0 DEF Fit
  <2>3. \A w : Exact(w) => w.end <= Len(log)
    BY <2>1 DEF Exact
  <2> QED
    BY <2>1, <2>2, <2>3
<1>3. \A n \in DOMAIN new : Exact(new[n])'
  BY <1>0, <1>1, <1>2, ExactStays
<1>4. Ordered(new)'
  <2> SUFFICES ASSUME NEW n \in DOMAIN new, n + 1 \in DOMAIN new
               PROVE  new[n].end <= new[n + 1].start
    BY DEF Ordered
  <2>1. n \in 1..Len(ws)
    BY <1>0
  <2>2. CASE n + 1 = m
    <3>1. new[n + 1].start = Len(log) + 1 /\ new[n].end <= Len(log)
      BY <1>0, <1>2, <2>1, <2>2
    <3>2. new[n].end \in Nat
      BY <1>0, <2>1 DEF Window
    <3> QED
      BY <1>2, <3>1, <3>2
  <2>3. CASE n + 1 # m
    <3>1. n + 1 \in 1..Len(ws)
      BY <1>0, <1>1, <2>3
    <3> QED
      BY <1>0, <2>1, <3>1 DEF Fit, Ordered
  <2> QED
    BY <2>2, <2>3
<1>5. Covered(new)'
  <2> SUFFICES ASSUME NEW i \in Leaked(1, Len(log))'
               PROVE  \E n \in DOMAIN new : new[n].address = log'[i].address
                                            /\ i \in new[n].start..new[n].end
    BY DEF Covered
  <2>1. i \in 1..(Len(log) + 1) /\ IsLeak(i)'
    BY Longer DEF Leaked, IsLeak
  <2>2. CASE i = Len(log) + 1
    <3>1. log'[i] = e
      BY <2>2, Longer
    <3>2. i \in v.start..v.end
      BY <1>2, <2>2
    <3> QED
      BY <1>0, <1>m, <3>1, <3>2
  <2>3. CASE i # Len(log) + 1
    <3>1. i \in 1..Len(log) /\ log'[i] = log[i]
      BY <2>1, <2>3, Longer
    <3>2. i \in Leaked(1, Len(log))
      BY <2>1, <3>1 DEF Leaked, IsLeak
    <3>3. PICK n \in DOMAIN ws : /\ ws[n].address = log[i].address
                                 /\ i \in ws[n].start..ws[n].end
      BY <3>2 DEF Fit, Covered
    <3>4. n \in DOMAIN new /\ new[n] = ws[n]
      BY <1>0, <1>m, <3>3
    <3> QED
      BY <3>1, <3>3, <3>4
  <2> QED
    BY <2>2, <2>3
<1> QED
  BY <1>3, <1>4, <1>5 DEF Fit

\* The report of a log that fits it fits it after one more entry.
LEMMA CoverAppend ==
  ASSUME log \in Seq(Entry), CoverInv, NEW e \in Entry, e.ts = Len(log) + 1,
         log' = Append(log, e)
  PROVE  CoverInv'
<1>n. PICK n \in Nat : n = Len(log) + 1
  BY Longer
<1>s. PICK s : s = Reading
  OBVIOUS
<1>0. /\ n \in Nat /\ n - 1 = Len(log) /\ Len(log)' = n /\ log'[n] = e
      /\ DOMAIN log = 1..Len(log) /\ DOMAIN log' = 1..n
      /\ \A i \in 1..Len(log) : log'[i] = log[i]
  BY <1>n, Longer
<1>1. s \in Summaries /\ Reading' = Count(s, e)
  BY <1>s, ReadAppend DEF Reading
<1>2. /\ s.windows \in Seq(Window) /\ s.current \in Open
      /\ Fit(s.windows \o s.current)
      /\ s.current # <<>> => StillOpen(s.current[1])
  BY <1>1, <1>s DEF Summaries, CoverInv, Finished
<1>3. s.current # <<>> =>
        /\ s.current[1] \in Window /\ s.current = <<s.current[1]>>
        /\ Exact(s.current[1])
  <2>1. s.current # <<>> =>
          s.current[1] \in Window /\ s.current = <<s.current[1]>>
    BY <1>2, OpenTyped
  <2> SUFFICES ASSUME s.current # <<>> PROVE Exact(s.current[1])
    BY <2>1
  <2>2. /\ Len(s.windows) + 1 \in DOMAIN (s.windows \o <<s.current[1]>>)
        /\ (s.windows \o <<s.current[1]>>)[Len(s.windows) + 1] = s.current[1]
    <3>1. Len(s.windows) + 1 \in 1..(Len(s.windows) + 1)
      BY <1>2
    <3> QED
      BY <1>2, <2>1, <3>1, OneMore
  <2> QED
    BY <1>2, <2>1, <2>2 DEF Fit
<1>4. Stamped'
  <2>1. \A i \in 1..Len(log) : log[i].ts = i
    BY <1>0 DEF CoverInv, Stamped
  <2>2. \A i \in 1..n : i \in 1..Len(log) \/ i = n
    BY <1>0
  <2> QED
    BY <1>0, <2>1, <2>2 DEF Stamped
<1>5. ASSUME ~(IsCheck(e) /\ e.ok \in {"yes", "no"})
      PROVE  Fit(Finished(Reading))' /\ (Reading'.current # <<>> =>
                                            StillOpen(Reading.current[1])')
  <2>1. Reading'.windows = s.windows /\ Reading'.current = s.current
    <3>1. IsCheck(e) => e.ok = "unknown"
      BY <1>5 DEF Entry, IsCheck
    <3> QED
      BY <1>1, <3>1 DEF Count, Graded, Summary
  <2>2. s.windows \o s.current \in Seq(Window)
    BY <1>2, OpenTyped
  <2>3. Fit(s.windows \o s.current)'
    BY <1>2, <1>5, <2>2, FitKept
  <2>4. ASSUME s.current # <<>> PROVE StillOpen(s.current[1])'
    <3> DEFINE w == s.current[1]
    <3>1. StillOpen(w) /\ w.start \in Nat /\ w.end \in Nat
      BY <1>2, <1>3, <2>4 DEF Window
    <3> HIDE DEF w
    <3>2. \A k \in Nat : \A i \in k..n : i = n \/ i \in k..Len(log)
      BY <1>0
    <3>3. ~IsClean(n)' /\ ~IsLeak(n)'
      BY <1>0, <1>5 DEF IsClean, IsLeak
    <3>4. w.start >= 1
      BY <1>0, <1>3, <2>4 DEF Exact, w
    <3>5. w.end >= 1
      BY <1>0, <1>3, <2>4, <3>1, <3>4 DEF Exact, w
    <3>6. \A i \in w.start..Len(log) : log'[i] = log[i]
      BY <1>0, <3>1, <3>4
    <3>7. \A i \in (w.end + 1)..Len(log) : log'[i] = log[i]
      BY <1>0, <3>1, <3>5
    <3>8. \A i \in w.start..n : ~IsClean(i)'
      BY <3>1, <3>2, <3>3, <3>6 DEF StillOpen, IsClean
    <3>9. \A i \in (w.end + 1)..n : ~IsLeak(i)'
      BY <3>1, <3>2, <3>3, <3>7 DEF StillOpen, IsLeak
    <3> QED
      BY <1>0, <3>8, <3>9 DEF StillOpen, w
  <2> QED
    BY <2>1, <2>3, <2>4 DEF Finished
<1>6. ASSUME IsCheck(e), e.ok = "yes"
      PROVE  Fit(Finished(Reading))' /\ Reading'.current = <<>>
  <2>1. Reading'.windows = s.windows \o Ended(s.current, e) /\ Reading'.current = <<>>
    BY <1>1, <1>6 DEF Count, Graded, Summary
  <2>2. CASE s.current = <<>>
    <3>1. /\ Finished(Reading)' = s.windows
          /\ s.windows \o s.current = s.windows
      BY <1>2, <2>1, <2>2 DEF Finished, Ended
    <3> QED
      BY <1>2, <1>6, <2>1, <3>1, FitKept
  <2>3. CASE s.current # <<>>
    <3> DEFINE w == s.current[1]
               v == [w EXCEPT !.end = e.ts]
    <3>1. w \in Window /\ Exact(w) /\ StillOpen(w) /\ s.current = <<w>>
      BY <1>2, <1>3, <2>3
    <3>2. /\ v \in Window /\ v.start = w.start /\ v.address = w.address
          /\ v.end = n /\ v.checks = w.checks
      BY <1>0, <3>1 DEF Window
    <3>3. Finished(Reading)' = s.windows \o <<v>>
      <4>1. <<v>> \in Seq(Window)
        BY <3>2
      <4>2. (s.windows \o <<v>>) \o <<>> = s.windows \o <<v>>
        BY <1>2, <4>1
      <4> QED
        BY <2>1, <2>3, <4>2 DEF Finished, Ended
    <3> HIDE DEF v, w
    <3>4. /\ w.start \in 1..Len(log) /\ w.end \in w.start..Len(log)
          /\ IsLeak(w.start) /\ log[w.start].address = w.address
          /\ w.checks = Cardinality(Leaked(w.start, w.end))
      BY <1>0, <3>1 DEF Exact
    <3>5. Leaked(w.start, n)' = Leaked(w.start, w.end)
      <4>1. w.start \in 1..n
        BY <1>0, <3>4
      <4>2. Leaked(w.start, n)' = Leaked(w.start, n - 1)
        <5>1. Leaked(w.start, n)' =
                Leaked(w.start, n - 1) \cup
                  (IF IsCheck(e) /\ e.ok = "no" THEN {n} ELSE {})
          BY <1>n, <4>1, LeakedGrows
        <5> QED
          BY <1>6, <5>1
      <4>3. \A i : i \in w.start..(n - 1) <=>
                     i \in w.start..w.end \/ i \in (w.end + 1)..(n - 1)
        BY <1>0, <3>4
      <4>4. \A i \in (w.end + 1)..(n - 1) : ~IsLeak(i)
        BY <1>0, <3>1 DEF StillOpen
      <4> QED
        BY <4>2, <4>3, <4>4 DEF Leaked, IsLeak
    <3>6. Exact(v)'
      <4>1. log'[w.start] = log[w.start] /\ w.start \in 1..n /\ n \in w.start..n
        BY <1>0, <3>4
      <4>2. \A i \in w.start..(n - 1) : log'[i] = log[i] /\ ~IsClean(i)
        BY <1>0, <3>1, <3>4 DEF StillOpen
      <4> QED
        BY <1>0, <3>2, <3>4, <3>5, <4>1, <4>2 DEF Exact, IsLeak, IsClean
    <3>7. Fit(s.windows \o <<w>>)
      BY <1>2, <3>1
    <3>8. Fit(s.windows \o <<v>>)'
      BY <1>0, <1>2, <1>6, <3>1, <3>2, <3>6, <3>7, <1>n, FitReplaced
    <3> QED
      BY <2>1, <3>3, <3>8
  <2> QED
    BY <2>2, <2>3
<1>7. ASSUME IsCheck(e), e.ok = "no", Continues(s.current, e)
      PROVE  /\ Fit(Finished(Reading))'
             /\ Reading'.current # <<>> => StillOpen(Reading.current[1])'
  <2> DEFINE w == s.current[1]
             v == [start |-> w.start, end |-> e.ts, address |-> w.address,
                   checks |-> w.checks + 1]
  <2>1. Reading'.windows = s.windows /\ Reading'.current = <<v>>
    BY <1>1, <1>7 DEF Count, Graded, Summary, Extended
  <2>2. /\ w \in Window /\ Exact(w) /\ StillOpen(w) /\ s.current = <<w>>
        /\ w.address = e.address
    BY <1>2, <1>3, <1>7 DEF Continues
  <2>3. /\ v \in Window /\ v.start = w.start /\ v.address = w.address
        /\ v.end = n /\ v.checks = w.checks + 1
    BY <1>0, <2>2 DEF Window
  <2>4. Finished(Reading)' = s.windows \o <<v>> /\ Reading'.current[1] = v
    BY <2>1 DEF Finished
  <2> HIDE DEF v, w
  <2>5. /\ w.start \in 1..Len(log) /\ w.end \in w.start..Len(log)
        /\ IsLeak(w.start) /\ log[w.start].address = w.address
        /\ w.checks = Cardinality(Leaked(w.start, w.end))
    BY <1>0, <2>2 DEF Exact
  <2>6. Leaked(w.start, n)' = Leaked(w.start, w.end) \cup {n}
    <3>1. w.start \in 1..n
      BY <1>0, <2>5
    <3>2. Leaked(w.start, n)' = Leaked(w.start, n - 1) \cup {n}
      BY <1>0, <1>7, <3>1, <1>n, LeakedGrows
    <3>3. \A i : i \in w.start..(n - 1) <=>
                   i \in w.start..w.end \/ i \in (w.end + 1)..(n - 1)
      BY <1>0, <2>5
    <3>4. \A i \in (w.end + 1)..(n - 1) : ~IsLeak(i)
      BY <1>0, <2>2 DEF StillOpen
    <3>5. Leaked(w.start, n - 1) = Leaked(w.start, w.end)
      BY <3>3, <3>4 DEF Leaked, IsLeak
    <3> QED
      BY <3>2, <3>5
  <2>7. Cardinality(Leaked(w.start, n)') = w.checks + 1
    <3>1. IsFiniteSet(Leaked(w.start, w.end))
      <4>1. IsFiniteSet(w.start..w.end)
        <5>1. w.start \in Int /\ w.end \in Int
          BY <1>0, <2>5
        <5> QED
          BY <5>1, FS_Interval
      <4>2. Leaked(w.start, w.end) \subseteq w.start..w.end
        BY DEF Leaked
      <4> QED
        BY <4>1, <4>2, FS_Subset
    <3>2. n \notin Leaked(w.start, w.end)
      BY <1>0, <2>5 DEF Leaked
    <3> QED
      BY <2>5, <2>6, <3>1, <3>2, FS_AddElement
  <2>8. \A i \in w.start..(n - 1) : log'[i] = log[i] /\ ~IsClean(i)
    BY <1>0, <2>2, <2>5 DEF StillOpen
  <2>9. Exact(v)'
    <3>1. log'[w.start] = log[w.start] /\ w.start \in 1..n /\ n \in w.start..n
      BY <1>0, <2>5
    <3> QED
      BY <1>0, <2>3, <2>5, <2>7, <2>8, <3>1 DEF Exact, IsLeak, IsClean
  <2>10. Fit(s.windows \o <<v>>)'
    <3>1. Fit(s.windows \o <<w>>)
      BY <1>2, <2>2
    <3> QED
      BY <1>0, <1>2, <2>2, <2>3, <2>9, <3>1, <1>n, FitReplaced
  <2>11. StillOpen(v)'
    <3>1. \A i \in w.start..n : i = n \/ i \in w.start..(n - 1)
      BY <1>0, <2>5
    <3>2. ~IsClean(n)'
      BY <1>0, <1>7 DEF IsClean
    <3>3. \A i \in w.start..n : ~IsClean(i)'
      BY <2>8, <3>1, <3>2 DEF IsClean
    <3>4. (n + 1)..n = {}
      BY <1>0
    <3> QED
      BY <1>0, <2>3, <3>3, <3>4 DEF StillOpen
  <2> QED
    BY <2>4, <2>10, <2>11
<1>8. ASSUME IsCheck(e), e.ok = "no", ~Continues(s.current, e)
      PROVE  /\ Fit(Finished(Reading))'
             /\ Reading'.current # <<>> => StillOpen(Reading.current[1])'
  <2> DEFINE v == [start |-> e.ts, end |-> e.ts, address |-> e.address, checks |-> 1]
             ws == s.windows \o s.current
  <2>1. Reading'.windows = ws /\ Reading'.current = <<v>>
    BY <1>1, <1>8 DEF Count, Graded, Summary, Opened
  <2>2. /\ v \in Window /\ v.start = n /\ v.end = n /\ v.address = e.address
        /\ v.checks = 1
    BY <1>0, <1>8 DEF Window, Entry, IsCheck
  <2>3. Finished(Reading)' = ws \o <<v>> /\ Reading'.current[1] = v
    BY <2>1 DEF Finished
  <2>4. ws \in Seq(Window) /\ Fit(ws)
    BY <1>2, OpenTyped
  <2> HIDE DEF v, ws
  <2>5. Leaked(n, n)' = {n}
    BY <1>0, <1>8 DEF Leaked
  <2>6. Exact(v)'
    <3>1. n \in 1..n /\ n \in n..n /\ n..(n - 1) = {}
      BY <1>0
    <3> QED
      BY <1>0, <1>8, <2>2, <2>5, <3>1, FS_Singleton DEF Exact, IsLeak
  <2>7. Fit(ws \o <<v>>)'
    BY <2>2, <2>4, <2>6, <1>n, FitAppended
  <2>8. StillOpen(v)'
    <3>1. (n + 1)..n = {} /\ \A i \in n..n : i = n
      BY <1>0
    <3> QED
      BY <1>0, <1>8, <2>2, <3>1 DEF StillOpen, IsClean
  <2> QED
    BY <2>3, <2>7, <2>8
<1>9. Fit(Finished(Reading))' /\ (Reading'.current # <<>> =>
                                     StillOpen(Reading.current[1])')
  BY <1>5, <1>6, <1>7, <1>8
<1> QED
  BY <1>4, <1>9 DEF CoverInv

\* The windows of the report always fit the log.
LEMMA CoverHolds == Spec => []CoverInv
<1>1. Init => CoverInv
  <2> SUFFICES ASSUME Init PROVE CoverInv
    OBVIOUS
  <2>1. log = <<>> /\ Reading = Nothing
    BY ReadNothing DEF Init, Reading
  <2>2. Finished(Reading) = <<>> /\ Reading.current = <<>>
    BY <2>1 DEF Finished, Nothing, Summary
  <2>3. Leaked(1, Len(log)) = {}
    BY <2>1 DEF Leaked
  <2> QED
    BY <2>1, <2>2, <2>3 DEF CoverInv, Stamped, Fit, Ordered, Covered
<1>2. TypeOK /\ CoverInv /\ [Next]_vars => CoverInv'
  <2> SUFFICES ASSUME TypeOK, CoverInv, [Next]_vars PROVE CoverInv'
    OBVIOUS
  <2>1. CASE log' = log
    BY <2>1 DEF CoverInv, Stamped, Fit, Ordered, Covered, Exact, StillOpen, Leaked,
                IsLeak, IsClean, Reading
  <2>2. CASE \E e \in Entry : e.ts = Len(log) + 1 /\ log' = Append(log, e)
    BY <2>2, CoverAppend DEF TypeOK
  <2> QED
    BY <2>1, <2>2, LogGrows
<1> QED
  BY <1>1, <1>2, TypeCorrect, PTL DEF Spec

\* The windows account for every leaked check (WindowsCoverLeaks).
THEOREM LeaksAreCovered == Spec => []WindowsCoverLeaks
<1>1. CoverInv => WindowsCoverLeaks
  <2> SUFFICES ASSUME CoverInv PROVE WindowsCoverLeaks
    OBVIOUS
  <2>1. summary.windows = Finished(Reading)
    BY DEF summary, egress_summary, Reading
  <2>2. Fit(Finished(Reading))
    BY DEF CoverInv
  <2> HIDE DEF CoverInv
  <2> QED
    BY <2>1, <2>2 DEF WindowsCoverLeaks, Fit, Exact, Ordered, Covered, IsClean
<1> QED
  BY <1>1, CoverHolds, PTL

-----------------------------------------------------------------------------
(* Announcements.                                                          *)

\* What is announced stays so, whatever entry follows and wherever the check is
\* by then, unless the check was still to report it.
LEMMA AnnouncedStays ==
  ASSUME log \in Seq(Entry), AnnounceInv, NEW e \in Entry, log' = Append(log, e),
         NEW i \in DOMAIN log, IsLeak(i),
         ~(i = Len(log) /\ pc = "event" /\ family = log[i].family
             /\ address = log[i].address /\ ~Inside)
  PROVE  AnnouncedAt(i, log[i].family, log[i].address)'
<1>1. /\ Len(log) \in Nat /\ Len(log)' = Len(log) + 1 /\ i \in 1..Len(log)
      /\ \A j \in 1..Len(log) : log'[j] = log[j]
  BY Longer
<1>2. PICK f, a : f = log[i].family /\ a = log[i].address
  OBVIOUS
<1>3. ToldOf(f, a, i) => ToldOf(f, a, i)'
  BY <1>1, ToldStays
<1>4. i < Len(log) => /\ i + 1 \in 1..Len(log)
                      /\ ToldOf(f, a, i + 1) => ToldOf(f, a, i + 1)'
  BY <1>1, ToldStays
<1>5. ToldOf(f, a, i) \/ (i < Len(log) /\ (ToldOf(f, a, i + 1) \/
                                             log[i + 1].kind = "restart"))
  BY <1>2 DEF AnnounceInv, AnnouncedAt
<1>6. AnnouncedAt(i, f, a)'
  BY <1>1, <1>3, <1>4, <1>5 DEF AnnouncedAt
<1> QED
  BY <1>1, <1>2, <1>6

\* An entry more keeps AnnounceInv if the last leak before it, and the entry
\* itself when it is one, are accounted for.
LEMMA AnnounceAppend ==
  ASSUME log \in Seq(Entry), AnnounceInv, NEW e \in Entry, log' = Append(log, e),
         NEW n \in Nat, n = Len(log) + 1,
         \A i \in DOMAIN log : i = n - 1 /\ IsLeak(i) =>
           \/ ~(pc = "event" /\ family = log[i].family
                  /\ address = log[i].address /\ ~Inside)
           \/ AnnouncedAt(i, log[i].family, log[i].address)',
         IsCheck(e) /\ e.ok = "no" => AnnouncedAt(n, e.family, e.address)'
  PROVE  AnnounceInv'
<1>1. /\ n - 1 = Len(log) /\ log'[n] = e /\ DOMAIN log = 1..(n - 1)
      /\ DOMAIN log' = 1..n /\ \A j \in 1..(n - 1) : log'[j] = log[j]
  BY Longer
<1>2. ASSUME NEW i \in 1..n, IsLeak(i)'
      PROVE  AnnouncedAt(i, log[i].family, log[i].address)'
  <2>1. CASE i = n
    BY <1>1, <1>2, <2>1 DEF IsLeak
  <2>2. CASE i \in 1..(n - 1)
    <3>1. IsLeak(i)
      BY <1>1, <1>2, <2>2 DEF IsLeak
    <3> QED
      BY <1>1, <2>2, <3>1, AnnouncedStays
  <2> QED
    BY <2>1, <2>2
<1> QED
  BY <1>1, <1>2 DEF AnnounceInv

\* Every leak window has its event when its first check is over
\* (WindowsAnnounced).
THEOREM LeaksAreAnnounced == Spec => []WindowsAnnounced
<1>1. Init => AnnounceInv
  BY DEF Init, AnnounceInv
<1>2. TypeOK /\ EventsInv /\ AnnounceInv /\ [Next]_vars => AnnounceInv'
  <2> SUFFICES ASSUME TypeOK, EventsInv, AnnounceInv, [Next]_vars PROVE AnnounceInv'
    OBVIOUS
  <2>n. PICK n \in Nat : n = Len(log) + 1
    BY DEF TypeOK
  <2>0. log \in Seq(Entry) /\ family \in Families
    BY FamilyIsListed DEF TypeOK
  <2>1. CASE CheckUnknown
    <3>1. Row("unknown") \in Entry /\ Row("unknown").ok = "unknown"
      BY <2>1, EntryTyped DEF CheckUnknown, Row
    <3> QED
      BY <2>0, <2>1, <2>n, <3>1, AnnounceAppend DEF CheckUnknown
  <2>2. CASE pc # "event" /\ log' = log
    <3>0. \A i \in DOMAIN log : i \in Int /\ i + 1 \in Int
      BY <2>0
    <3>1. \A i \in Int : \A f, a : ToldOf(f, a, i)' <=> ToldOf(f, a, i)
      BY <2>2 DEF ToldOf, Told
    <3> QED
      BY <2>2, <3>0, <3>1 DEF AnnounceInv, AnnouncedAt, IsLeak
  <2>3. CASE CheckAnswered \/ learn
    BY <2>2, <2>3 DEF CheckAnswered, learn
  <2>4. CASE Reread
    <3>1. /\ Event("egress_baseline") \in Entry
          /\ Event("egress_baseline").kind = "egress_baseline"
      BY EntryTyped DEF Event
    <3> QED
      BY <2>0, <2>4, <2>n, <3>1, AnnounceAppend DEF Reread, IsCheck
  <2>5. CASE Judge
    <3> DEFINE e == Row(IF Inside THEN "yes" ELSE "no")
    <3>1. /\ e \in Entry /\ e.family = family /\ e.address = address
          /\ e.ok = "no" => ~Inside
      BY <2>5, EntryTyped DEF Judge, Row, TypeOK
    <3>2. Len(log)' = n /\ Inside' = Inside /\ family' = family /\ pc' = "event"
          /\ address' = address
      BY <2>0, <2>5, <2>n, <3>1, Longer DEF Judge, Inside, family
    <3>3. PICK d \in Entry : d = e
      BY <3>1
    <3> HIDE DEF e
    <3>4. IsCheck(d) /\ d.ok = "no" => AnnouncedAt(n, d.family, d.address)'
      BY <3>1, <3>2, <3>3 DEF AnnouncedAt
    <3>5. log' = Append(log, d) /\ pc # "event"
      BY <2>5, <3>3 DEF Judge, e
    <3> QED
      BY <2>0, <2>n, <3>4, <3>5, AnnounceAppend
  <2>6. CASE Report
    <3>1. address \in Addresses[family] /\ address \in DOMAIN Net /\ pc = "event"
      BY <2>0, <2>6, EgressAssumption DEF Report, TypeOK
    <3>2. CASE log' = log
      <4>1. \A i \in Int : \A f, a : ToldOf(f, a, i)' <=> ToldOf(f, a, i)
        BY <3>2 DEF ToldOf, Told
      <4>2. ~Inside => ToldOf(family, address, Len(log))
        <5>1. ~Inside => reported[family] = address
          <6>1. \A k : Append(log, k) # log
            BY <2>0
          <6> QED
            BY <2>6, <3>2, <6>1 DEF Report, NewLeak
        <5> QED
          BY <2>0, <3>1, <5>1 DEF EventsInv, ReportedIsTold
      <4> QED
        BY <3>2, <4>1, <4>2 DEF AnnounceInv, AnnouncedAt, IsLeak
    <3>3. ASSUME NEW k \in {"egress_unexpected", "egress_restored"},
                 log' = Append(log, Event(k)), k = "egress_restored" => Inside
          PROVE  AnnounceInv'
      <4>1. PICK e \in Entry : /\ e = Event(k) /\ e.kind = k /\ e.family = family
                               /\ e.address = address
        BY EntryTyped DEF Event
      <4>2. ~Inside => ToldOf(e.family, address, n)'
        <5>1. IsEvent(e) /\ log' = Append(log, e)
          BY <3>3, <4>1 DEF IsEvent
        <5>2. PICK a : a = address
          OBVIOUS
        <5>3. ToldOf(e.family, a, n)' <=> k = "egress_unexpected" /\ e.address = a
          BY <2>0, <2>n, <4>1, <5>1, EventTells
        <5> QED
          BY <2>6, <3>3, <4>1, <5>2, <5>3 DEF Report
      <4>3. ASSUME NEW i \in DOMAIN log, i = n - 1, IsLeak(i), ~Inside,
                   family = log[i].family, address = log[i].address
            PROVE  AnnouncedAt(i, log[i].family, log[i].address)'
        <5>1. /\ log'[i] = log[i] /\ i < Len(log)' /\ i + 1 = n
          BY <2>0, <2>n, <3>3, <4>1, <4>3, Longer
        <5>2. address' = address
          BY <2>6 DEF Report
        <5> QED
          BY <4>1, <4>2, <4>3, <5>1, <5>2 DEF AnnouncedAt
      <4>4. ~IsCheck(e)
        BY <3>3, <4>1 DEF IsCheck
      <4>5. log' = Append(log, e)
        BY <3>3, <4>1
      <4> QED
        BY <2>0, <2>n, <4>3, <4>4, <4>5, AnnounceAppend
    <3> QED
      BY <2>6, <3>2, <3>3 DEF Report
  <2>7. CASE Restart
    <3>1. PICK e \in Entry : log' = Append(log, e) /\ e.kind = "restart"
      BY <2>7, EntryTyped DEF Restart
    <3>2. ASSUME NEW i \in DOMAIN log, i = n - 1
          PROVE  AnnouncedAt(i, log[i].family, log[i].address)'
      <4>1. i < Len(log)' /\ i + 1 = n /\ log'[n] = e
        BY <2>0, <2>n, <3>1, <3>2, Longer
      <4> QED
        BY <3>1, <4>1 DEF AnnouncedAt
    <3>3. ~IsCheck(e)
      BY <3>1 DEF IsCheck
    <3> QED
      BY <2>0, <2>n, <3>1, <3>2, <3>3, AnnounceAppend
  <2>8. CASE UNCHANGED vars
    <3>1. \A i \in Int : \A f, a : ToldOf(f, a, i)' <=> ToldOf(f, a, i)
      BY <2>8 DEF ToldOf, Told, vars
    <3> QED
      BY <2>8, <3>1 DEF AnnounceInv, AnnouncedAt, IsLeak, Inside, family, vars
  <2> QED
    BY <2>1, <2>3, <2>4, <2>5, <2>6, <2>7, <2>8 DEF Next
<1>3. CoverInv /\ AnnounceInv => WindowsAnnounced
  <2> SUFFICES ASSUME CoverInv, AnnounceInv,
                      NEW k \in DOMAIN Finished(Reading)
               PROVE  LET w == Finished(Reading)[k]  i == w.start IN
                        \/ ToldOf(log[i].family, w.address, i)
                        \/ i = Len(log)
                        \/ ToldOf(log[i].family, w.address, i + 1)
                        \/ log[i + 1].kind = "restart"
    BY DEF WindowsAnnounced, summary, egress_summary, Reading
  <2>1. Exact(Finished(Reading)[k])
    BY DEF CoverInv, Fit
  <2> HIDE DEF CoverInv
  <2>2. PICK w : w = Finished(Reading)[k]
    OBVIOUS
  <2> QED
    BY <2>1, <2>2 DEF Exact, AnnounceInv, AnnouncedAt
<1> QED
  BY <1>1, <1>2, <1>3, TypeCorrect, EventsHold, CoverHolds, PTL DEF Spec
=============================================================================
