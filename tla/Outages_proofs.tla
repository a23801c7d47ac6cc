--------------------------- MODULE Outages_proofs ---------------------------
(***************************************************************************)
(* Proofs about Outages, for any number of minutes, packets and any        *)
(* threshold.                                                              *)
(***************************************************************************)
EXTENDS Outages, FiniteSetTheorems, TLAPS

\* Windows come in order, at most two minutes apart while nothing disturbs
\* the loop, and no window lies between two consecutive ones.
InOrder ==
  /\ \A m \in Measured : m <= MinuteOf(ts)
  /\ latest # Never => /\ latest \in Measured
                       /\ MinuteOf(ts) - latest \in 0 .. 2
                       /\ \A m \in Measured : m <= latest
  /\ \A p \in consecutive :
       /\ p[1] \in Measured /\ p[2] \in Measured /\ p[2] - p[1] \in 0 .. 2
       /\ \A m \in Measured : ~(p[1] < m /\ m < p[2])

\* The open run at minute n, and the runs closed before it.
OpenAt(n) == {b \in Bad : n \in Bad /\ b <= n /\ Unbroken(b, n)}
ClosedAt(n) == {r \in {Around(a) : a \in {b \in Bad : b <= n} \ OpenAt(n)} :
                  Cardinality(r) >= MinMinutes}

\* Where the walk over the minutes stands.
Walk ==
  /\ pc = "measure" => previous = Never
  /\ previous # Never => previous \in Measured
  /\ pc \in {"measure", "scan"} => current = OpenAt(previous) /\ runs = ClosedAt(previous)
  /\ OutagesAreGroups

OutagesInv == TypeOK /\ InOrder /\ Walk

-----------------------------------------------------------------------------
(* Unbroken.                                                               *)

LEMMA BadIsMinute ==
  Bad \subseteq Measured /\ Measured \subseteq Minutes /\ Minutes \subseteq Nat
  BY OutagesAssumption DEF Bad, Measured, Minutes

LEMMA UnbrokenJoins ==
  ASSUME NEW a \in Int, NEW b \in Int, NEW c \in Int, a <= b, b <= c,
         Unbroken(a, b), Unbroken(b, c)
  PROVE  Unbroken(a, c)
  <1>1. ASSUME NEW x \in a .. c, x \in Measured PROVE x \in Bad
    <2>1. x \in a .. b \/ x \in b .. c
      OBVIOUS
    <2> QED BY <1>1, <2>1 DEF Unbroken
  <1>2. ASSUME NEW x \in a .. c - 1 PROVE x \in Measured \/ x + 1 \in Measured
    <2>1. x \in a .. b - 1 \/ x \in b .. c - 1
      OBVIOUS
    <2> QED BY <2>1 DEF Unbroken
  <1> QED BY <1>1, <1>2 DEF Unbroken

LEMMA UnbrokenSplits ==
  ASSUME NEW a \in Int, NEW b \in Int, NEW c \in Int, a <= b, b <= c, Unbroken(a, c)
  PROVE  Unbroken(a, b) /\ Unbroken(b, c)
  <1>1. a .. b \subseteq a .. c /\ b .. c \subseteq a .. c
    OBVIOUS
  <1>2. a .. b - 1 \subseteq a .. c - 1 /\ b .. c - 1 \subseteq a .. c - 1
    OBVIOUS
  <1> QED BY <1>1, <1>2 DEF Unbroken

LEMMA UnbrokenBackwards ==
  ASSUME NEW a \in Int, NEW b \in Int, b < a
  PROVE  Unbroken(a, b)
  <1>1. a .. b = {} /\ a .. b - 1 = {}
    OBVIOUS
  <1> QED BY <1>1 DEF Unbroken

LEMMA UnbrokenAlone ==
  ASSUME NEW a \in Bad
  PROVE  Unbroken(a, a)
  <1>1. a \in Int
    BY BadIsMinute
  <1>2. a .. a = {a} /\ a .. a - 1 = {}
    BY <1>1
  <1> QED BY <1>2 DEF Unbroken

\* Two degraded minutes with nothing measured between are unbroken exactly if
\* they are at most two apart.
LEMMA UnbrokenNeighbours ==
  ASSUME NEW a \in Bad, NEW b \in Bad, a < b,
         \A m \in Measured : ~(a < m /\ m < b)
  PROVE  Unbroken(a, b) <=> b - a <= 2
  <1>1. a \in Nat /\ b \in Nat /\ a \in Measured /\ b \in Measured
    BY BadIsMinute
  <1>2. ASSUME b - a <= 2 PROVE Unbroken(a, b)
    <2>1. ASSUME NEW c \in a .. b, c \in Measured PROVE c \in Bad
      <3>1. c = a \/ c = b
        BY <1>1, <2>1
      <3> QED BY <3>1
    <2>2. ASSUME NEW c \in a .. b - 1 PROVE c \in Measured \/ c + 1 \in Measured
      <3>1. c = a \/ c + 1 = b
        BY <1>1, <1>2
      <3> QED BY <1>1, <3>1
    <2> QED BY <2>1, <2>2 DEF Unbroken
  <1>3. ASSUME b - a > 2 PROVE ~Unbroken(a, b)
    <2>1. a + 1 \in a .. b - 1 /\ a + 1 \notin Measured /\ a + 1 + 1 \notin Measured
      BY <1>1, <1>3
    <2> QED BY <2>1 DEF Unbroken
  <1> QED BY <1>1, <1>2, <1>3

-----------------------------------------------------------------------------
(* Runs.                                                                   *)

\* A minute with nothing unbroken after it closes the open run as a group.
LEMMA OpenIsGroup ==
  ASSUME NEW n \in Minutes, NEW a \in OpenAt(n),
         \A b \in Bad : b > n => ~Unbroken(n, b)
  PROVE  Around(a) = OpenAt(n)
  <1>1. a \in Bad /\ n \in Bad /\ a <= n /\ Unbroken(a, n) /\ a \in Int /\ n \in Int
    BY BadIsMinute DEF OpenAt
  <1>2. ASSUME NEW b \in OpenAt(n) PROVE b \in Around(a)
    <2>1. b \in Bad /\ b <= n /\ Unbroken(b, n) /\ b \in Int
      BY BadIsMinute DEF OpenAt
    <2>2. CASE a <= b
      <3>1. Unbroken(a, b)
        BY <1>1, <2>1, <2>2, UnbrokenSplits
      <3>2. Unbroken(b, a)
        BY <1>1, <2>1, <2>2, UnbrokenBackwards, UnbrokenAlone
      <3> QED BY <2>1, <3>1, <3>2 DEF Around
    <2>3. CASE b < a
      <3>1. Unbroken(b, a)
        BY <1>1, <2>1, <2>3, UnbrokenSplits
      <3>2. Unbroken(a, b)
        BY <1>1, <2>1, <2>3, UnbrokenBackwards
      <3> QED BY <2>1, <3>1, <3>2 DEF Around
    <2> QED BY <1>1, <2>1, <2>2, <2>3
  <1>3. ASSUME NEW b \in Around(a) PROVE b \in OpenAt(n)
    <2>1. b \in Bad /\ Unbroken(a, b) /\ Unbroken(b, a) /\ b \in Int
      BY BadIsMinute DEF Around
    <2>2. b <= n
      <3> SUFFICES ASSUME b > n PROVE FALSE
        BY <1>1, <2>1
      <3>1. Unbroken(n, b)
        BY <1>1, <2>1, UnbrokenSplits
      <3> QED BY <2>1, <3>1
    <2>3. Unbroken(b, n)
      <3>1. CASE b <= a
        BY <1>1, <2>1, <3>1, UnbrokenJoins
      <3>2. CASE a < b
        BY <1>1, <2>1, <2>2, <3>2, UnbrokenSplits
      <3> QED BY <1>1, <2>1, <3>1, <3>2
    <2> QED BY <1>1, <2>1, <2>2, <2>3 DEF OpenAt
  <1> QED BY <1>2, <1>3

\* The groups of the minutes up to n.
Groups(n) ==
  {r \in {Around(a) : a \in {b \in Bad : b <= n}} : Cardinality(r) >= MinMinutes}

LEMMA ClosedRuns ==
  ASSUME NEW n \in Minutes \cup {Never}, n # Never => n \in Measured,
         \A b \in Bad : n # Never /\ b > n => ~Unbroken(n, b),
         runs = ClosedAt(n)
  PROVE  Closed(OpenAt(n)) = Groups(n)
  <1>0. Never \notin Nat /\ \A b \in Bad : b \in Nat
    BY BadIsMinute DEF Never
  <1>1. CASE n \in Bad
    <2>1. n \in Minutes /\ n # Never /\ n \in Int
      BY <1>0, <1>1, BadIsMinute
    <2>2. \A a \in OpenAt(n) : Around(a) = OpenAt(n)
      BY <2>1, OpenIsGroup
    <2>3. n \in OpenAt(n) /\ OpenAt(n) \subseteq {b \in Bad : b <= n}
      BY <1>1, <2>1, UnbrokenAlone DEF OpenAt
    <2>4. {Around(a) : a \in {b \in Bad : b <= n}} =
            {Around(a) : a \in {b \in Bad : b <= n} \ OpenAt(n)} \cup {OpenAt(n)}
      BY <2>2, <2>3
    <2> QED BY <2>4 DEF Closed, Groups, ClosedAt
  <1>2. CASE n \notin Bad
    <2>1. OpenAt(n) = {}
      BY <1>2 DEF OpenAt
    <2>2. ~(Cardinality({}) >= MinMinutes)
      BY FS_EmptySet DEF MinMinutes
    <2> QED BY <2>1, <2>2 DEF Closed, Groups, ClosedAt
  <1> QED BY <1>1, <1>2

-----------------------------------------------------------------------------
(* Steps.                                                                  *)

LEMMA NothingYet ==
  OpenAt(Never) = {} /\ ClosedAt(Never) = {}
  <1>1. \A b \in Bad : b \in Nat /\ b # Never /\ ~(b <= Never)
    BY BadIsMinute DEF Never
  <1>2. Never \notin Bad
    BY <1>1
  <1> QED BY <1>1, <1>2 DEF OpenAt, ClosedAt

\* While nothing is measured the groups stay what they are.
LEMMA SameMinutes ==
  ASSUME UNCHANGED <<sent, lost>>
  PROVE  /\ Measured' = Measured /\ Bad' = Bad
         /\ \A n : OpenAt(n)' = OpenAt(n) /\ ClosedAt(n)' = ClosedAt(n)
         /\ \A a : Around(a)' = Around(a)
  <1>1. Measured' = Measured
    BY DEF Measured
  <1>2. \A m : IsBad(m)' <=> IsBad(m)
    BY DEF IsBad
  <1>3. Bad' = Bad
    BY <1>1, <1>2 DEF Bad
  <1>4. \A a, b : Unbroken(a, b)' <=> Unbroken(a, b)
    BY <1>1, <1>3 DEF Unbroken
  <1>5. \A a : Around(a)' = Around(a)
    BY <1>3, <1>4 DEF Around
  <1>6. \A n : OpenAt(n)' = OpenAt(n)
    BY <1>3, <1>4 DEF OpenAt
  <1> QED BY <1>1, <1>3, <1>5, <1>6 DEF ClosedAt

\* The minute a loop of undisturbed windows is at next.
LEMMA Later ==
  ASSUME NEW t \in Nat
  PROVE  /\ MinuteOf(t) \in Nat
         /\ \A p \in Periods : t + p \in Nat /\ MinuteOf(t + p) - MinuteOf(t) \in 0 .. 2
         /\ \A g \in Gaps : t + g \in Nat /\ MinuteOf(t + g) >= MinuteOf(t)
  <1>1. Periods \subseteq 1 .. 120 /\ Gaps \subseteq Nat
    BY OutagesAssumption
  <1>2. t \div 60 \in Nat
    OBVIOUS
  <1>3. \A p \in 1 .. 120 : t + p \in Nat /\ (t + p) \div 60 - t \div 60 \in 0 .. 2
    OBVIOUS
  <1>4. \A g \in Nat : t + g \in Nat /\ (t + g) \div 60 >= t \div 60
    OBVIOUS
  <1> QED BY <1>1, <1>2, <1>3, <1>4 DEF MinuteOf

LEMMA WindowInv == OutagesInv /\ Window => OutagesInv'
  <1> SUFFICES ASSUME OutagesInv, Window PROVE OutagesInv'
    OBVIOUS
  <1> DEFINE m == MinuteOf(ts)
  <1>1. /\ TypeOK /\ InOrder /\ Walk /\ ts \in Nat
        /\ pc = "measure" /\ pc' = "measure" /\ m \in Minutes
        /\ UNCHANGED <<previous, current, runs>>
    BY DEF OutagesInv, Window, scanning, TypeOK
  <1>2. PICK l \in Lost : lost' = [lost EXCEPT ![m] = @ + l]
    BY DEF Window
  <1>3. PICK p \in Periods : ts' = ts + p
    BY DEF Window
  <1>4. /\ sent' = [sent EXCEPT ![m] = @ + Packets]
        /\ latest' = m
        /\ consecutive' = consecutive \cup IF latest = Never THEN {} ELSE {<<latest, m>>}
    BY DEF Window, Added
  <1>5. Packets \in Nat /\ Packets > 0 /\ l \in Nat /\ l <= Packets
    BY <1>2, OutagesAssumption
  <1>6. ts' \in Nat /\ MinuteOf(ts') - m \in 0 .. 2
    BY <1>1, <1>3, Later
  <1>7. Measured' = Measured \cup {m}
    BY <1>1, <1>4, <1>5 DEF TypeOK, Measured
  <1>8. previous' = Never /\ current' = {} /\ runs' = {}
    BY <1>1, NothingYet DEF Walk
  <1>9. TypeOK'
    <2>1. /\ sent' \in [Minutes -> Nat] /\ lost' \in [Minutes -> Nat]
          /\ \A x \in Minutes : lost'[x] <= sent'[x]
      BY <1>1, <1>2, <1>4, <1>5 DEF TypeOK
    <2>2. consecutive' \subseteq Minutes \X Minutes
      BY <1>1, <1>4 DEF TypeOK
    <2>3. latest' \in Minutes
      BY <1>1, <1>4
    <2> QED BY <1>1, <1>6, <1>8, <2>1, <2>2, <2>3 DEF TypeOK
  <1>10. InOrder'
    <2>1. \A x \in Measured' : x \in Nat /\ x <= m
      BY <1>1, <1>7, BadIsMinute DEF InOrder
    <2>2. \A x \in Measured' : x <= MinuteOf(ts')
      <3>1. m \in Nat /\ MinuteOf(ts') \in Nat /\ m <= MinuteOf(ts')
        BY <1>1, <1>6, Later
      <3> HIDE DEF m
      <3> QED BY <2>1, <3>1
    <2>3. ASSUME NEW q \in consecutive'
          PROVE  /\ q[1] \in Measured' /\ q[2] \in Measured' /\ q[2] - q[1] \in 0 .. 2
                 /\ \A x \in Measured' : ~(q[1] < x /\ x < q[2])
      <3>1. CASE q \in consecutive
        <4>1. /\ q[1] \in Measured /\ q[2] \in Measured /\ q[2] - q[1] \in 0 .. 2
              /\ \A x \in Measured : ~(q[1] < x /\ x < q[2])
          BY <1>1, <3>1 DEF InOrder
        <4>2. q[2] <= m
          BY <1>1, <4>1 DEF InOrder
        <4>3. ~(m < q[2])
          <5>1. m \in Nat /\ q[2] \in Nat
            BY <1>1, <4>1, BadIsMinute
          <5> HIDE DEF m
          <5> QED BY <4>2, <5>1
        <4> QED BY <1>7, <4>1, <4>3
      <3>2. CASE latest # Never /\ q = <<latest, m>>
        <4>1. latest \in Measured /\ m - latest \in 0 .. 2
              /\ \A x \in Measured : x <= latest
          BY <1>1, <3>2 DEF InOrder
        <4>2. latest \in Nat /\ m \in Nat
          BY <1>1, <4>1, BadIsMinute
        <4>3. \A x \in Measured' : ~(latest < x /\ x < m)
          BY <1>7, <4>1, <4>2, BadIsMinute
        <4> QED BY <1>7, <3>2, <4>1, <4>3
      <3> QED BY <1>4, <3>1, <3>2
    <2>4. latest' \in Measured' /\ MinuteOf(ts') - latest' \in 0 .. 2
      BY <1>4, <1>6, <1>7
    <2>5. \A x \in Measured' : x <= latest'
      BY <1>4, <2>1
    <2>6. MinuteOf(ts)' = MinuteOf(ts')
      BY DEF MinuteOf
    <2> HIDE DEF m
    <2> QED BY <2>2, <2>3, <2>4, <2>5, <2>6 DEF InOrder
  <1>11. Walk'
    <2>1. \A b \in Bad' : b \in Nat /\ b # Never /\ ~(b <= Never)
      BY <1>1, <1>7, BadIsMinute DEF Bad, Never
    <2>2. pc' = "measure" /\ previous' = Never /\ current' = {} /\ runs' = {}
      BY <1>1, <1>8
    <2>3. OpenAt(previous)' = {} /\ ClosedAt(previous)' = {}
      BY <2>1, <2>2 DEF OpenAt, ClosedAt
    <2> QED BY <2>2, <2>3 DEF Walk, OutagesAreGroups
  <1> QED BY <1>9, <1>10, <1>11 DEF OutagesInv

\* Steps that measure nothing and look at nothing.
LEMMA WaitInv ==
  ASSUME OutagesInv, WindowWithoutRows \/ Down \/ StartReport \/ UNCHANGED vars
  PROVE  OutagesInv'
  <1>1. /\ UNCHANGED <<sent, lost, consecutive, previous, current, runs>>
        /\ TypeOK /\ InOrder /\ Walk /\ ts \in Nat
    BY DEF OutagesInv, WindowWithoutRows, Down, StartReport, vars, measuring, scanning,
           TypeOK
  <1>2. \/ latest' = latest /\ ts' = ts
        \/ latest' = Never /\ ts' \in Nat /\ MinuteOf(ts') >= MinuteOf(ts)
    BY <1>1, Later DEF WindowWithoutRows, Down, StartReport, vars, measuring
  <1>3. /\ pc' \in {"measure", "scan", "done"}
        /\ pc' = pc \/ (pc = "measure" /\ pc' = "scan")
    BY <1>1 DEF WindowWithoutRows, Down, StartReport, vars, TypeOK
  <1>4. Measured' = Measured /\ Bad' = Bad
    BY <1>1, SameMinutes
  <1>5. TypeOK'
    BY <1>1, <1>2, <1>3, <1>4 DEF TypeOK
  <1>6. InOrder'
    <2>1. MinuteOf(ts)' = MinuteOf(ts')
      BY DEF MinuteOf
    <2>2. \A x \in Measured : x <= MinuteOf(ts')
      BY <1>1, <1>2, Later, BadIsMinute DEF InOrder
    <2> QED BY <1>1, <1>2, <1>4, <2>1, <2>2 DEF InOrder
  <1>7. Walk'
    <2>1. /\ OpenAt(previous)' = OpenAt(previous)
          /\ ClosedAt(previous)' = ClosedAt(previous)
          /\ \A a : Around(a)' = Around(a)
      BY <1>1, SameMinutes DEF OpenAt, ClosedAt
    <2>2. OutagesAreGroups'
      BY <1>1, <1>3, <1>4, <2>1 DEF Walk, OutagesAreGroups
    <2> QED BY <1>1, <1>3, <1>4, <2>1, <2>2 DEF Walk
  <1> QED BY <1>5, <1>6, <1>7 DEF OutagesInv

\* A step of the walk: the open run at the next minute, and the closed ones.
LEMMA ScanInv ==
  ASSUME OutagesInv, NEW m \in Minutes, Scan(m)
  PROVE  OutagesInv'
  <1> DEFINE n == previous
  <1>1. /\ TypeOK /\ InOrder /\ Walk /\ pc = "scan" /\ pc' = "scan" /\ previous' = m
        /\ UNCHANGED <<ts, sent, lost, latest, consecutive>>
        /\ IsNext(m)
    BY DEF OutagesInv, Scan, ScanJoins, ScanOpens, ScanCloses, measuring
  <1>2. /\ m \in Measured /\ m > n /\ \A x \in Measured : x <= n \/ m <= x
    BY <1>1, BadIsMinute DEF IsNext, TypeOK, Never
  <1>3. n \in Minutes \cup {Never} /\ (n # Never => n \in Measured)
        /\ current = OpenAt(n) /\ runs = ClosedAt(n)
    BY <1>1 DEF Walk, TypeOK
  <1>4. m \in Int /\ n \in Int /\ (n # Never => n \in Nat)
    BY <1>3, BadIsMinute DEF Never
  <1>5. m \in Bad <=> IsBad(m)
    BY <1>2 DEF Bad
  <1> HIDE DEF n
  <1>6. {b \in Bad : b <= m} = {b \in Bad : b <= n} \cup IF m \in Bad THEN {m} ELSE {}
    <2>1. ASSUME NEW b \in Bad PROVE b <= m <=> (b <= n \/ b = m)
      <3>1. b \in Int /\ (b <= n \/ m <= b)
        BY <1>2, BadIsMinute
      <3> QED BY <1>2, <1>4, <3>1
    <2> QED BY <2>1
  <1>7. n \in Bad => n \in OpenAt(n) /\ n # Never
    BY <1>4, UnbrokenAlone, BadIsMinute DEF OpenAt, Never
  <1>8. \A x \in Measured : ~(n < x /\ x < m)
    BY <1>2, <1>4, BadIsMinute
  <1>9. current' = OpenAt(m) /\ runs' = ClosedAt(m)
    <2>1. CASE ScanJoins(m)
      <3>1. /\ m \in Bad /\ OpenAt(n) # {} /\ m - n <= 2
            /\ current' = OpenAt(n) \cup {m} /\ runs' = ClosedAt(n)
        BY <1>3, <1>5, <2>1 DEF ScanJoins, Contiguous, n
      <3>2. n \in Bad /\ Unbroken(n, m)
        <4>1. n \in Bad
          BY <3>1 DEF OpenAt
        <4> QED BY <1>2, <1>4, <1>8, <3>1, <4>1, UnbrokenNeighbours
      <3>3. ASSUME NEW b \in Bad, b <= n PROVE Unbroken(b, m) <=> Unbroken(b, n)
        <4>1. b \in Int
          BY BadIsMinute
        <4>2. Unbroken(b, n) => Unbroken(b, m)
          BY <1>2, <1>4, <3>2, <3>3, <4>1, UnbrokenJoins
        <4>3. Unbroken(b, m) => Unbroken(b, n)
          BY <1>2, <1>4, <3>3, <4>1, UnbrokenSplits
        <4> QED BY <4>2, <4>3
      <3>4. OpenAt(m) = OpenAt(n) \cup {m}
        <4>1. Unbroken(m, m)
          BY <3>1, UnbrokenAlone
        <4>2. \A b \in Bad : b <= m <=> (b <= n \/ b = m)
          BY <1>6, <3>1
        <4>3. m <= m
          BY <1>4
        <4> QED BY <3>1, <3>2, <3>3, <4>1, <4>2 DEF OpenAt
      <3>5. {b \in Bad : b <= m} \ OpenAt(m) = {b \in Bad : b <= n} \ OpenAt(n)
        <4>1. m \notin {b \in Bad : b <= n}
          BY <1>2, <1>4
        <4> QED BY <1>6, <3>1, <3>4, <4>1
      <3> QED BY <3>1, <3>4, <3>5 DEF ClosedAt
    <2>2. CASE ScanOpens(m) \/ ScanCloses(m)
      <3>1. n \in Bad /\ m \in Bad => ~Unbroken(n, m)
        <4>1. ASSUME n \in Bad, m \in Bad PROVE ~(m - n <= 2)
          <5>1. ScanOpens(m) /\ current # {}
            BY <1>3, <1>5, <1>7, <2>2, <4>1 DEF ScanCloses
          <5> QED BY <1>7, <4>1, <5>1 DEF ScanOpens, Contiguous, n
        <4> QED BY <1>2, <1>4, <1>8, <4>1, UnbrokenNeighbours
      <3>2. ASSUME NEW b \in Bad, n # Never, b > n PROVE ~Unbroken(n, b)
        <4> SUFFICES ASSUME Unbroken(n, b) PROVE FALSE
          OBVIOUS
        <4>1. b \in Int /\ m <= b /\ n <= b /\ n <= m
          BY <1>2, <1>4, <3>2, BadIsMinute
        <4>2. n \in n .. b /\ m \in n .. b /\ n \in Measured
          BY <1>3, <1>4, <3>2, <4>1
        <4>3. n \in Bad /\ m \in Bad
          BY <1>2, <4>2 DEF Unbroken
        <4>4. Unbroken(n, m)
          BY <1>4, <4>1, UnbrokenSplits
        <4> QED BY <3>1, <4>3, <4>4
      <3>3. runs' = Groups(n)
        <4>1. Closed(OpenAt(n)) = Groups(n)
          BY <1>3, <3>2, ClosedRuns
        <4> QED BY <1>3, <2>2, <4>1 DEF ScanOpens, ScanCloses
      <3>4. current' = IF m \in Bad THEN {m} ELSE {}
        BY <1>5, <2>2 DEF ScanOpens, ScanCloses
      <3>5. OpenAt(m) = IF m \in Bad THEN {m} ELSE {}
        <4>1. CASE m \in Bad
          <5>1. ASSUME NEW b \in Bad, b <= m, Unbroken(b, m) PROVE b = m
            <6> SUFFICES ASSUME b # m PROVE FALSE
              OBVIOUS
            <6>1. b <= n /\ b \in Int /\ b \in Measured
              BY <1>6, <4>1, <5>1, BadIsMinute
            <6>2. n # Never
              BY <6>1, BadIsMinute DEF Never
            <6>3. n \in b .. m /\ n \in Measured
              BY <1>2, <1>3, <1>4, <6>1, <6>2
            <6>4. n \in Bad
              BY <5>1, <6>3 DEF Unbroken
            <6>5. Unbroken(n, m)
              BY <1>2, <1>4, <5>1, <6>1, UnbrokenSplits
            <6> QED BY <3>1, <4>1, <6>4, <6>5
          <5>2. Unbroken(m, m) /\ m <= m
            BY <1>4, <4>1, UnbrokenAlone
          <5> QED BY <4>1, <5>1, <5>2 DEF OpenAt
        <4>2. CASE m \notin Bad
          BY <4>2 DEF OpenAt
        <4> QED BY <4>1, <4>2
      <3>6. {b \in Bad : b <= m} \ OpenAt(m) = {b \in Bad : b <= n}
        <4>1. m \notin {b \in Bad : b <= n}
          BY <1>2, <1>4
        <4> QED BY <1>6, <3>5, <4>1
      <3> QED BY <3>3, <3>4, <3>5, <3>6 DEF ClosedAt, Groups
    <2> QED BY <2>1, <2>2 DEF Scan
  <1>10. /\ Measured' = Measured /\ Bad' = Bad
         /\ \A x : OpenAt(x)' = OpenAt(x) /\ ClosedAt(x)' = ClosedAt(x)
    BY <1>1, SameMinutes
  <1>11. TypeOK'
    <2>1. current' \subseteq Bad /\ runs' \subseteq SUBSET Bad
      BY <1>9 DEF OpenAt, ClosedAt, Around
    <2> QED BY <1>1, <1>10, <2>1 DEF TypeOK
  <1>12. InOrder'
    BY <1>1, <1>10 DEF InOrder, MinuteOf
  <1>13. Walk'
    <2>1. OpenAt(previous)' = OpenAt(m) /\ ClosedAt(previous)' = ClosedAt(m)
      <3>1. OpenAt(previous)' = OpenAt(m)' /\ ClosedAt(previous)' = ClosedAt(m)'
        BY <1>1 DEF OpenAt, ClosedAt
      <3> QED BY <1>10, <3>1
    <2> QED BY <1>1, <1>2, <1>9, <1>10, <2>1 DEF Walk, OutagesAreGroups
  <1> QED BY <1>11, <1>12, <1>13 DEF OutagesInv

\* The walk ends with every group closed.
LEMMA ScanEndsInv == OutagesInv /\ ScanEnds => OutagesInv'
  <1> SUFFICES ASSUME OutagesInv, ScanEnds PROVE OutagesInv'
    OBVIOUS
  <1>1. /\ TypeOK /\ InOrder /\ Walk /\ pc = "scan" /\ pc' = "done"
        /\ UNCHANGED <<ts, sent, lost, latest, consecutive, previous, current>>
        /\ \A m \in Measured : m <= previous
        /\ runs' = Closed(current)
    BY DEF OutagesInv, ScanEnds, measuring
  <1>2. /\ previous \in Minutes \cup {Never}
        /\ previous # Never => previous \in Measured
        /\ current = OpenAt(previous) /\ runs = ClosedAt(previous)
    BY <1>1 DEF Walk, TypeOK
  <1>3. \A b \in Bad : b <= previous
    BY <1>1, BadIsMinute
  <1>4. \A b \in Bad : previous # Never /\ b > previous => ~Unbroken(previous, b)
    BY <1>2, <1>3, BadIsMinute
  <1>5. runs' = Groups(previous)
    BY <1>1, <1>2, <1>4, ClosedRuns
  <1>6. Groups(previous) = {r \in {Around(a) : a \in Bad} : Cardinality(r) >= MinMinutes}
    <2>1. {b \in Bad : b <= previous} = Bad
      BY <1>3
    <2> QED BY <2>1 DEF Groups
  <1>7. Measured' = Measured /\ Bad' = Bad /\ \A a : Around(a)' = Around(a)
    BY <1>1, SameMinutes
  <1>8. TypeOK'
    <2>1. runs' \subseteq SUBSET Bad
      BY <1>5, <1>6 DEF Around
    <2> QED BY <1>1, <1>7, <2>1 DEF TypeOK
  <1>9. InOrder'
    BY <1>1, <1>7 DEF InOrder, MinuteOf
  <1>10. Walk'
    BY <1>1, <1>2, <1>5, <1>6, <1>7 DEF Walk, OutagesAreGroups
  <1> QED BY <1>8, <1>9, <1>10 DEF OutagesInv

LEMMA InitInv == Init => OutagesInv
  <1> SUFFICES ASSUME Init PROVE OutagesInv
    OBVIOUS
  <1>1. Measured = {} /\ Bad = {}
    BY DEF Init, Measured, Bad
  <1>2. TypeOK
    BY <1>1, OutagesAssumption DEF Init, TypeOK
  <1>3. InOrder
    BY <1>1 DEF Init, InOrder
  <1>4. Walk
    BY <1>1, NothingYet DEF Init, Walk, OutagesAreGroups
  <1> QED BY <1>2, <1>3, <1>4 DEF OutagesInv

-----------------------------------------------------------------------------
(* The theorems.                                                           *)

\* OutagesInv, the inductive strengthening, is an invariant.
THEOREM OutagesInvariant == Spec => []OutagesInv
  <1>1. OutagesInv /\ [Next]_vars => OutagesInv'
    BY WindowInv, WaitInv, ScanInv, ScanEndsInv DEF Next
  <1> QED BY InitInv, <1>1, PTL DEF Spec

\* Minutes, windows and runs stay within their types.
THEOREM TypeCorrect == Spec => []TypeOK
  <1>1. OutagesInv => TypeOK
    BY DEF OutagesInv
  <1> QED BY <1>1, OutagesInvariant, PTL

\* One pass with an open run finds the longest unbroken groups, and all of
\* them.
THEOREM FindsGroups == Spec => []OutagesAreGroups
  <1>1. OutagesInv => OutagesAreGroups
    BY DEF OutagesInv, Walk
  <1> QED BY <1>1, OutagesInvariant, PTL

\* Windows of undisturbed measuring are never torn into two outages.
THEOREM StayTogether == Spec => []WindowsStayTogether
  <1>1. ASSUME OutagesInv PROVE WindowsStayTogether
    <2> SUFFICES ASSUME pc = "done", NEW p \in consecutive,
                        p[1] # p[2], p[1] \in Bad, p[2] \in Bad
                 PROVE  \E r \in runs : p[1] \in r /\ p[2] \in r
      BY DEF WindowsStayTogether
    <2> DEFINE a == p[1]  b == p[2]
    <2>1. b - a \in 0 .. 2 /\ \A m \in Measured : ~(a < m /\ m < b)
      BY <1>1 DEF OutagesInv, InOrder
    <2>0. a \in Bad /\ b \in Bad
      OBVIOUS
    <2>6. p[1] # p[2]
      OBVIOUS
    <2>7. a # b
      BY <2>6
    <2> HIDE DEF a, b
    <2>2. a \in Int /\ b \in Int /\ a < b /\ b - a <= 2
      <3>1. a \in Nat /\ b \in Nat
        BY <2>0, BadIsMinute
      <3> QED BY <2>1, <2>7, <3>1
    <2>3. a \in Around(a) /\ b \in Around(a)
      <3>1. Unbroken(a, b)
        BY <2>0, <2>1, <2>2, UnbrokenNeighbours
      <3>2. Unbroken(b, a) /\ Unbroken(a, a)
        BY <2>0, <2>2, UnbrokenBackwards, UnbrokenAlone
      <3> QED BY <2>0, <3>1, <3>2 DEF Around
    <2>4. Cardinality(Around(a)) >= MinMinutes
      <3>1. Around(a) \subseteq 0 .. LastMinute /\ IsFiniteSet(0 .. LastMinute)
        <4>1. Around(a) \subseteq Bad
          BY DEF Around
        <4>2. 0 \in Int /\ LastMinute \in Int
          BY OutagesAssumption
        <4>3. IsFiniteSet(0 .. LastMinute)
          BY <4>2, FS_Interval
        <4> QED BY <4>1, <4>3, BadIsMinute DEF Minutes
      <3>2. IsFiniteSet(Around(a)) /\ {a, b} \subseteq Around(a)
        BY <2>3, <3>1, FS_Subset
      <3>3. Cardinality({a, b}) = 2
        <4>1. IsFiniteSet({b}) /\ Cardinality({b}) = 1
          BY FS_Singleton
        <4>0. a \notin {b}
          BY <2>2
        <4>2. Cardinality({b} \cup {a}) = Cardinality({b}) + 1
          BY <4>0, <4>1, FS_AddElement
        <4>3. {b} \cup {a} = {a, b}
          OBVIOUS
        <4> QED BY <4>1, <4>2, <4>3
      <3>4. /\ Cardinality({a, b}) <= Cardinality(Around(a))
            /\ Cardinality(Around(a)) \in Nat
        BY <3>2, FS_Subset, FS_CardinalityType
      <3> QED BY <3>3, <3>4 DEF MinMinutes
    <2>5. Around(a) \in runs
      BY <1>1, <2>0, <2>4 DEF OutagesInv, Walk, OutagesAreGroups
    <2> QED BY <2>3, <2>5 DEF a, b
  <1> QED BY <1>1, OutagesInvariant, PTL
=============================================================================
