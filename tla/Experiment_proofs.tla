------------------------- MODULE Experiment_proofs -------------------------
(***************************************************************************)
(* Proofs about Experiment, for any number of nights, any division of the  *)
(* day and any seed.                                                       *)
(***************************************************************************)
EXTENDS Experiment, FiniteSetTheorems, TLAPS

\* What a run may rely on where it is.
Places ==
  /\ NightOf(now) \in Nights
  /\ pc # "idle" => today \in Nights
  /\ pc = "control" => arm_for(today) = CONTROL
  /\ pc = "marker only" => arm_for(today) = REBOOT /\ ~plug
  /\ pc \in {"begin", "off", "on", "recover", "night"} => arm_for(today) = REBOOT
  /\ pc \in {"on", "recover", "night"} => cycle = "running"
  /\ pc \in {"begin", "off", "on"} => late = {}
  /\ pc = "recover" => ~ok

\* A modem that is off, or may yet be switched off, is one of a run that is
\* not over or was not a success.
Dark ==
  /\ pc \notin {"on", "recover", "night"} /\ (~powered \/ "off" \in late)
       => cycle \in {"failed", "died"}
  /\ pc = "night" /\ ok => powered /\ "off" \notin late /\ today \in answered

\* Markers and answered calls are of the arms of their nights.
Marked ==
  /\ \A n \in answered : arm_for(n) = REBOOT
  /\ \A n \in Nights :
       /\ plug /\ <<n, "ab_reboot_night">> \in markers => n \in answered
       /\ <<n, "ab_control_night">> \in markers => arm_for(n) = CONTROL

ExperimentInv == TypeOK /\ Places /\ Dark /\ Marked

-----------------------------------------------------------------------------
LEMMA ConstantsAreNumbers ==
  /\ LastNight \in Nat /\ MinutesPerHour \in Nat /\ Hour \in Nat
  /\ \A t \in Int : DateOf(t) \in Int
  BY ExperimentAssumption DEF DateOf

LEMMA InitInv == Init => ExperimentInv
  <1> SUFFICES ASSUME Init PROVE ExperimentInv
    OBVIOUS
  <1>1. NightOf(now) = 0 /\ 0 \in Nights
    BY ExperimentAssumption DEF Init, NightOf, DateOf, Nights
  <1>2. minutes[REBOOT] + minutes[CONTROL] = 0 /\ MinutesPerHour * (now - Hour) = 0
    BY ConstantsAreNumbers DEF Init, Arms
  <1>3. TypeOK
    BY <1>2, ConstantsAreNumbers DEF Init, TypeOK
  <1> QED BY <1>1, <1>3 DEF Init, ExperimentInv, Places, Dark, Marked

\* The arm of a night is fixed with the seed.
LEMMA ArmsStay ==
  ASSUME UNCHANGED coin
  PROVE  \A n : arm_for(n)' = arm_for(n)
  BY DEF arm_for

LEMMA ArmIsOne == \A n : arm_for(n) \in Arms /\ REBOOT # CONTROL
  BY DEF arm_for, Arms, REBOOT, CONTROL

-----------------------------------------------------------------------------
(* Nights and dates.                                                       *)

\* A date's night begins at its intervention hour.
LEMMA DateIsNight ==
  ASSUME NEW t \in Nat, HourOf(t) >= Hour
  PROVE  NightOf(t) = DateOf(t)
  BY ExperimentAssumption DEF NightOf, DateOf, HourOf

\* Nights change at the intervention hour only.
LEMMA NightEndsAtHour ==
  ASSUME NEW t \in Nat, HourOf(t + 1) # Hour
  PROVE  NightOf(t + 1) = NightOf(t)
  <1> DEFINE D == HoursPerDay  u == t - Hour
  <1>1. D \in Nat /\ D > 0 /\ Hour \in 0 .. D - 1 /\ u \in Int /\ u + 1 = t + 1 - Hour
    BY ExperimentAssumption
  <1>2. (t + 1) % D # Hour
    BY DEF HourOf
  <1> HIDE DEF D
  <1>3. (u + 1) % D # 0
    <2> SUFFICES ASSUME (u + 1) % D = 0 PROVE FALSE
      OBVIOUS
    <2> DEFINE q == (u + 1) \div D
    <2>1. (u + 1) % D = (u + 1) - D * q
      BY <1>1, Z3
    <2>2. q \in Int
      BY <1>1
    <2> HIDE DEF q
    <2>3. t + 1 = D * q + Hour
      BY <1>1, <2>1, <2>2
    <2>4. (D * q + Hour) % D = Hour
      BY <1>1, <2>2
    <2> QED BY <1>2, <2>3, <2>4
  <1> HIDE DEF u
  <1>4. (u + 1) \div D = u \div D
    BY <1>1, <1>3
  <1> QED BY <1>1, <1>4 DEF NightOf, DateOf, D, u

-----------------------------------------------------------------------------
(* Steps.                                                                  *)

LEMMA StartInv == ASSUME ExperimentInv, StartRun PROVE ExperimentInv'
  <1>1. /\ TypeOK /\ Places /\ Dark /\ Marked
        /\ pc = "idle" /\ today' \in Nights /\ begun' = now /\ late' = {}
        /\ UNCHANGED <<now, coin, plug, ok, markers, powered, cycle, answered, nights,
                       minutes>>
    BY DEF ExperimentInv, StartRun, data
  <1>2. \A n : arm_for(n)' = arm_for(n) /\ arm_for(n) \in Arms
    BY <1>1, ArmsStay, ArmIsOne
  <1>3. \/ pc' = "control" /\ arm_for(today') = CONTROL
        \/ pc' = "begin" /\ arm_for(today') = REBOOT
        \/ pc' = "marker only" /\ arm_for(today') = REBOOT /\ ~plug
    BY <1>1, <1>2 DEF StartRun, Arms
  <1>4. TypeOK'
    BY <1>1, <1>3 DEF TypeOK
  <1>5. arm_for(today)' = arm_for(today')
    BY <1>1 DEF arm_for
  <1>6. Places'
    BY <1>1, <1>3, <1>5 DEF Places, NightOf
  <1>7. Dark'
    BY <1>1, <1>3 DEF Dark
  <1>8. Marked'
    BY <1>1, <1>2 DEF Marked
  <1> QED BY <1>4, <1>6, <1>7, <1>8 DEF ExperimentInv

LEMMA MarkerInv == ASSUME ExperimentInv, MarkerOnly PROVE ExperimentInv'
  <1>1. /\ TypeOK /\ Places /\ Dark /\ Marked
        /\ pc \in {"control", "marker only"} /\ pc' = "idle" /\ today \in Nights
        /\ UNCHANGED <<now, coin, plug, today, ok, powered, late, cycle, answered, begun,
                       nights, minutes>>
    BY DEF ExperimentInv, MarkerOnly, power, data, Places
  <1>2. \A n : arm_for(n)' = arm_for(n)
    BY <1>1, ArmsStay
  <1>3. \/ markers' = markers
        \/ pc = "control" /\ markers' = markers \cup {<<today, "ab_control_night">>}
        \/ pc = "marker only" /\ markers' = markers \cup {<<today, "ab_reboot_night">>}
    BY <1>1 DEF MarkerOnly, Written, NotWritten
  <1>4. TypeOK'
    <2>1. \A k \in Kinds : <<today, k>> \in Nights \X Kinds
      BY <1>1
    <2>2. "ab_control_night" \in Kinds /\ "ab_reboot_night" \in Kinds
      BY DEF Kinds
    <2>3. markers \subseteq Nights \X Kinds
      BY <1>1 DEF TypeOK
    <2>4. markers' \subseteq Nights \X Kinds
      BY <1>3, <2>1, <2>2, <2>3
    <2> QED BY <1>1, <2>4 DEF TypeOK
  <1>5. Places'
    BY <1>1 DEF Places, NightOf
  <1>6. Dark'
    BY <1>1 DEF Dark
  <1>7. Marked'
    BY <1>1, <1>2, <1>3 DEF Marked, Places
  <1> QED BY <1>4, <1>5, <1>6, <1>7 DEF ExperimentInv

LEMMA BeginInv == ASSUME ExperimentInv, Begin PROVE ExperimentInv'
  <1>1. /\ TypeOK /\ Places /\ Dark /\ Marked
        /\ pc = "begin" /\ pc' = "off" /\ today \in Nights
        /\ UNCHANGED <<now, coin, plug, today, ok, powered, late, cycle, answered, begun,
                       nights, minutes>>
    BY DEF ExperimentInv, Begin, power, data, Places
  <1>2. \A n : arm_for(n)' = arm_for(n)
    BY <1>1, ArmsStay
  <1>3. \/ markers' = markers
        \/ markers' = markers \cup {<<today, "ab_reboot_begin">>}
    BY <1>1 DEF Begin, Written, NotWritten
  <1>4. TypeOK'
    BY <1>1, <1>3 DEF TypeOK, Kinds
  <1>5. Places'
    BY <1>1, <1>2 DEF Places, NightOf
  <1>6. Dark'
    BY <1>1 DEF Dark
  <1>7. Marked'
    BY <1>1, <1>2, <1>3 DEF Marked
  <1> QED BY <1>4, <1>5, <1>6, <1>7 DEF ExperimentInv

\* A call without an answer changes nothing but the power and what is late.
LEMMA FailsIsTyped ==
  ASSUME TypeOK, NEW c \in Calls, Fails(c) \/ Answers(c)
  PROVE  powered' \in BOOLEAN /\ late' \subseteq Calls
  BY DEF TypeOK, Fails, Answers

LEMMA CallOffInv == ASSUME ExperimentInv, CallOff PROVE ExperimentInv'
  <1>1. /\ TypeOK /\ Places /\ Dark /\ Marked
        /\ pc = "off" /\ today \in Nights /\ late = {} /\ cycle' = "running"
        /\ UNCHANGED <<now, coin, plug, today, markers, answered, begun, nights, minutes>>
    BY DEF ExperimentInv, CallOff, data, Places
  <1>2. \A n : arm_for(n)' = arm_for(n)
    BY <1>1, ArmsStay
  <1>3. \/ pc' = "on" /\ ok' = ok /\ late' = late
        \/ pc' = "recover" /\ ok' = FALSE
    BY DEF CallOff, Answers
  <1>4. TypeOK'
    <2>1. powered' \in BOOLEAN /\ late' \subseteq Calls
      BY <1>1, FailsIsTyped DEF CallOff, Calls
    <2> QED BY <1>1, <1>3, <2>1 DEF TypeOK
  <1>5. Places'
    BY <1>1, <1>2, <1>3 DEF Places, NightOf
  <1>6. Dark'
    BY <1>3 DEF Dark
  <1>7. Marked'
    BY <1>1, <1>2 DEF Marked
  <1> QED BY <1>4, <1>5, <1>6, <1>7 DEF ExperimentInv

LEMMA CallOnInv == ASSUME ExperimentInv, CallOn PROVE ExperimentInv'
  <1>1. /\ TypeOK /\ Places /\ Dark /\ Marked
        /\ pc = "on" /\ today \in Nights /\ late = {} /\ cycle = "running"
        /\ arm_for(today) = REBOOT
        /\ UNCHANGED <<now, coin, plug, today, markers, cycle, begun, nights, minutes>>
    BY DEF ExperimentInv, CallOn, data, Places
  <1>2. \A n : arm_for(n)' = arm_for(n)
    BY <1>1, ArmsStay
  <1>3. \/ /\ pc' = "night" /\ ok' = ok /\ powered' = TRUE /\ late' = late
           /\ answered' = answered \cup {today}
        \/ pc' = "recover" /\ ok' = FALSE /\ answered' = answered
    BY DEF CallOn, Answers
  <1>4. TypeOK'
    <2>1. powered' \in BOOLEAN /\ late' \subseteq Calls
      BY <1>1, FailsIsTyped DEF CallOn, Calls
    <2> QED BY <1>1, <1>3, <2>1 DEF TypeOK
  <1>5. Places'
    BY <1>1, <1>2, <1>3 DEF Places, NightOf
  <1>6. Dark'
    BY <1>1, <1>3 DEF Dark
  <1>7. Marked'
    BY <1>1, <1>2, <1>3 DEF Marked
  <1> QED BY <1>4, <1>5, <1>6, <1>7 DEF ExperimentInv

LEMMA RecoverInv == ASSUME ExperimentInv, Recover PROVE ExperimentInv'
  <1>1. /\ TypeOK /\ Places /\ Dark /\ Marked
        /\ pc = "recover" /\ pc' = "night" /\ today \in Nights /\ ~ok
        /\ UNCHANGED <<now, coin, plug, today, ok, markers, cycle, answered, begun,
                       nights, minutes>>
    BY DEF ExperimentInv, Recover, data, Places
  <1>2. \A n : arm_for(n)' = arm_for(n)
    BY <1>1, ArmsStay
  <1>3. powered' \in BOOLEAN /\ late' \subseteq Calls
    BY <1>1, FailsIsTyped DEF Recover, Calls
  <1>4. TypeOK'
    BY <1>1, <1>3 DEF TypeOK
  <1>5. Places'
    BY <1>1, <1>2 DEF Places, NightOf
  <1>6. Dark'
    BY <1>1 DEF Dark
  <1>7. Marked'
    BY <1>1, <1>2 DEF Marked
  <1> QED BY <1>4, <1>5, <1>6, <1>7 DEF ExperimentInv

LEMMA EndInv == ASSUME ExperimentInv, EndRun PROVE ExperimentInv'
  <1>1. /\ TypeOK /\ Places /\ Dark /\ Marked
        /\ pc = "night" /\ pc' = "idle" /\ ok' = TRUE /\ today \in Nights
        /\ cycle' = IF ok THEN "done" ELSE "failed"
        /\ UNCHANGED <<now, coin, plug, today, powered, late, answered, begun,
                       nights, minutes>>
    BY DEF ExperimentInv, EndRun, data, Places, ExitCode
  <1>2. \A n : arm_for(n)' = arm_for(n)
    BY <1>1, ArmsStay
  <1>3. \/ markers' = markers
        \/ ok /\ markers' = markers \cup {<<today, "ab_reboot_night">>}
        \/ ~ok /\ markers' = markers \cup {<<today, "ab_reboot_failed">>}
    BY <1>1 DEF EndRun, Written, NotWritten, NightMarker
  <1>4. TypeOK'
    BY <1>1, <1>3 DEF TypeOK, Kinds
  <1>5. Places'
    BY <1>1 DEF Places, NightOf
  <1>6. Dark'
    BY <1>1 DEF Dark
  <1>7. Marked'
    BY <1>1, <1>2, <1>3 DEF Marked, Dark
  <1> QED BY <1>4, <1>5, <1>6, <1>7 DEF ExperimentInv

LEMMA DiesInv == ASSUME ExperimentInv, DiesAt PROVE ExperimentInv'
  <1>1. /\ TypeOK /\ Places /\ Dark /\ Marked
        /\ pc # "idle" /\ pc' = "idle" /\ ok' = TRUE
        /\ UNCHANGED <<now, coin, plug, today, markers, answered, begun, nights, minutes>>
    BY DEF ExperimentInv, DiesAt, data
  <1>2. \A n : arm_for(n)' = arm_for(n)
    BY <1>1, ArmsStay
  <1>3. \/ cycle' = "died"
        \/ /\ pc \notin {"on", "recover", "night"}
           /\ UNCHANGED <<powered, late, cycle>>
    BY DEF DiesAt
  <1>4. TypeOK'
    <2>1. powered' \in BOOLEAN /\ late' \subseteq Calls
      BY <1>1, FailsIsTyped DEF DiesAt, Calls, TypeOK
    <2> QED BY <1>1, <1>3, <2>1 DEF TypeOK
  <1>5. Places'
    BY <1>1 DEF Places, NightOf
  <1>6. Dark'
    BY <1>1, <1>3 DEF Dark
  <1>7. Marked'
    BY <1>1, <1>2 DEF Marked
  <1> QED BY <1>4, <1>5, <1>6, <1>7 DEF ExperimentInv

LEMMA LateInv ==
  ASSUME ExperimentInv, NEW c \in Calls, PlugActsLate(c) PROVE ExperimentInv'
  <1>1. /\ TypeOK /\ Places /\ Dark /\ Marked
        /\ c \in late /\ late' = late \ {c} /\ powered' = (c = "on")
        /\ UNCHANGED <<now, coin, plug, pc, today, ok, markers, cycle, answered, begun,
                       nights, minutes>>
    BY DEF ExperimentInv, PlugActsLate, run, data
  <1>2. \A n : arm_for(n)' = arm_for(n)
    BY <1>1, ArmsStay
  <1>3. c \in {"off", "on"} /\ (~powered' => c = "off")
    BY <1>1 DEF Calls
  <1>4. TypeOK'
    BY <1>1 DEF TypeOK
  <1>5. Places'
    BY <1>1, <1>2 DEF Places, NightOf
  <1>6. Dark'
    BY <1>1, <1>3 DEF Dark
  <1>7. Marked'
    BY <1>1, <1>2 DEF Marked
  <1> QED BY <1>4, <1>5, <1>6, <1>7 DEF ExperimentInv

LEMMA HourInv == ASSUME ExperimentInv, HourPasses PROVE ExperimentInv'
  <1> DEFINE arm == arm_for(NightOf(now))
  <1>1. /\ TypeOK /\ Places /\ Dark /\ Marked
        /\ pc = "idle" /\ now' = now + 1 /\ late' = {} /\ NightOf(now + 1) \in Nights
        /\ UNCHANGED <<coin, plug, pc, today, ok, markers, powered, cycle, answered,
                       begun>>
    BY DEF ExperimentInv, HourPasses, run
  <1>2. \A n : arm_for(n)' = arm_for(n)
    BY <1>1, ArmsStay
  <1>3. NightOf(now)' = NightOf(now + 1)
    BY <1>1 DEF NightOf
  <1>4. now \in Nat /\ now' \in Nat /\ NightOf(now) \in Nights /\ arm \in Arms
    BY <1>1, ArmIsOne DEF TypeOK, Places
  <1>5. /\ nights \in [Arms -> SUBSET Nights] /\ minutes \in [Arms -> Nat]
        /\ REBOOT \in Arms /\ CONTROL \in Arms /\ REBOOT # CONTROL
        /\ minutes[REBOOT] + minutes[CONTROL] <= MinutesPerHour * (now - Hour)
    BY <1>1, ArmIsOne DEF TypeOK, Arms
  <1>6. MinutesPerHour * (now' - Hour) = MinutesPerHour * (now - Hour) + MinutesPerHour
    BY <1>1, <1>4, ConstantsAreNumbers
  <1>7. MinutesPerHour * (now - Hour) \in Int /\ MinutesPerHour \in Nat
    BY <1>4, ConstantsAreNumbers
  <1>8. /\ nights' \in [Arms -> SUBSET Nights] /\ minutes' \in [Arms -> Nat]
        /\ minutes'[REBOOT] + minutes'[CONTROL] <= MinutesPerHour * (now' - Hour)
    <2>1. CASE UNCHANGED data
      BY <1>5, <1>6, <1>7, <2>1 DEF data
    <2>2. CASE /\ nights' = [nights EXCEPT ![arm] = @ \cup {NightOf(now)}]
               /\ minutes' = [minutes EXCEPT ![arm] = @ + MinutesPerHour]
      <3>1. nights' \in [Arms -> SUBSET Nights]
        BY <1>4, <1>5, <2>2
      <3>2. minutes' \in [Arms -> Nat]
        BY <1>4, <1>5, <1>7, <2>2
      <3>3. minutes'[REBOOT] + minutes'[CONTROL] =
              minutes[REBOOT] + minutes[CONTROL] + MinutesPerHour
        <4>1. arm = REBOOT \/ arm = CONTROL
          BY <1>4 DEF Arms
        <4> HIDE DEF arm
        <4> QED BY <1>4, <1>5, <1>7, <2>2, <4>1
      <3>4. minutes[REBOOT] + minutes[CONTROL] \in Nat
        BY <1>5
      <3> QED BY <1>5, <1>6, <1>7, <3>1, <3>2, <3>3, <3>4
    <2> QED BY <2>1, <2>2 DEF HourPasses, Counted
  <1>9. TypeOK'
    BY <1>1, <1>4, <1>8 DEF TypeOK
  <1>10. Places'
    BY <1>1, <1>2, <1>3 DEF Places
  <1>11. Dark'
    BY <1>1 DEF Dark
  <1>12. Marked'
    BY <1>1, <1>2 DEF Marked
  <1> QED BY <1>9, <1>10, <1>11, <1>12 DEF ExperimentInv

LEMMA FetchedInv ==
  ASSUME ExperimentInv, Fetched \/ UNCHANGED vars PROVE ExperimentInv'
  <1>1. /\ TypeOK /\ Places /\ Dark /\ Marked
        /\ markers' \subseteq markers
        /\ UNCHANGED <<now, coin, plug, pc, today, ok, powered, late, cycle, answered,
                       begun, nights, minutes>>
    BY DEF ExperimentInv, Fetched, vars, run, power, data
  <1>2. \A n : arm_for(n)' = arm_for(n)
    BY <1>1, ArmsStay
  <1>3. TypeOK'
    BY <1>1 DEF TypeOK
  <1>4. Places'
    BY <1>1, <1>2 DEF Places, NightOf
  <1>5. Dark'
    BY <1>1 DEF Dark
  <1>6. Marked'
    BY <1>1, <1>2 DEF Marked
  <1> QED BY <1>3, <1>4, <1>5, <1>6 DEF ExperimentInv

-----------------------------------------------------------------------------
(* Theorems.                                                               *)

\* The inductive invariant: what a run may rely on at each of its calls, whose
\* a modem without power is, and what markers rest on.
THEOREM ExperimentInvariant == Spec => []ExperimentInv
  <1>1. ExperimentInv /\ [Next]_vars => ExperimentInv'
    BY StartInv, MarkerInv, BeginInv, CallOffInv, CallOnInv, RecoverInv, EndInv, DiesInv,
       LateInv, HourInv, FetchedInv DEF Next
  <1> QED BY InitInv, <1>1, PTL DEF Spec

\* Types, and that no more minutes are counted than have passed.
THEOREM TypeCorrect == Spec => []TypeOK
  <1>1. ExperimentInv => TypeOK
    BY DEF ExperimentInv
  <1> QED BY <1>1, ExperimentInvariant, PTL

\* A modem left without power is always told of.
THEOREM DarkTold == Spec => []DarkIsTold
  <1>1. ExperimentInv => DarkIsTold
    BY DEF ExperimentInv, Dark, DarkIsTold
  <1> QED BY <1>1, ExperimentInvariant, PTL

\* Markers never tell what was not.
THEOREM MarkersTold == Spec => []MarkersTellTheNight
  <1>1. ExperimentInv => MarkersTellTheNight
    BY ArmIsOne DEF ExperimentInv, Marked, MarkersTellTheNight
  <1> QED BY <1>1, ExperimentInvariant, PTL

\* No seed gives an arm three nights on end.
THEOREM NeverThreeAlike == Spec => []NoThreeAlike
  <1>1. ASSUME NEW n \in Nat, n % 2 = 0, coin[n \div 2] \in BOOLEAN
        PROVE  arm_for(n) # arm_for(n + 1)
    <2>1. (n + 1) \div 2 = n \div 2 /\ (n + 1) % 2 = 1
      BY <1>1
    <2> QED BY <1>1, <2>1 DEF arm_for, REBOOT, CONTROL
  <1>2. ASSUME TypeOK, NEW n \in Nights, n + 2 \in Nights
        PROVE  ~(arm_for(n) = arm_for(n + 1) /\ arm_for(n + 1) = arm_for(n + 2))
    <2>1. n \in Nat /\ n + 1 \in Nat /\ n + 1 + 1 = n + 2
      BY <1>2, ConstantsAreNumbers DEF Nights
    <2>2. n \div 2 \in Pairs /\ (n + 1) \div 2 \in Pairs
      BY <1>2, ConstantsAreNumbers DEF Nights, Pairs
    <2>3. coin[n \div 2] \in BOOLEAN /\ coin[(n + 1) \div 2] \in BOOLEAN
      BY <1>2, <2>2 DEF TypeOK
    <2>4. n % 2 = 0 \/ (n + 1) % 2 = 0
      BY <2>1
    <2> QED BY <1>1, <2>1, <2>3, <2>4
  <1>3. TypeOK => NoThreeAlike
    BY <1>2 DEF NoThreeAlike
  <1> QED BY <1>3, TypeCorrect, PTL

\* Where the night of the last run stands.
RunNight ==
  today # -1 =>
    /\ begun <= now
    /\ \/ NightOf(now) = today
       \/ \E t \in begun + 1 .. now : HourOf(t) = Hour

\* The analysis counts a minute for the arm that was carried out last, up to
\* the next intervention hour.
THEOREM MinutesFollow == Spec => []MinutesFollowTheRun
  <1>1. Init => RunNight
    BY DEF Init, RunNight
  <1>2. TypeOK /\ RunNight /\ [Next]_vars => RunNight'
    <2> SUFFICES ASSUME TypeOK, RunNight, [Next]_vars PROVE RunNight'
      OBVIOUS
    <2>1. now \in Nat /\ begun \in Nat
      BY DEF TypeOK
    <2>2. CASE StartRun
      <3>1. now' = now /\ begun' = now /\ today' = DateOf(now) /\ HourOf(now) >= Hour
        BY <2>2 DEF StartRun
      <3>2. NightOf(now)' = today'
        BY <2>1, <3>1, DateIsNight DEF NightOf
      <3> QED BY <2>1, <3>1, <3>2 DEF RunNight
    <2>3. CASE HourPasses
      <3>1. now' = now + 1 /\ begun' = begun /\ today' = today
        BY <2>3 DEF HourPasses, run
      <3>2. NightOf(now)' = NightOf(now + 1)
        BY <3>1 DEF NightOf
      <3> SUFFICES ASSUME today # -1
                   PROVE  \/ NightOf(now + 1) = today
                          \/ \E t \in begun + 1 .. now + 1 : HourOf(t) = Hour
        BY <2>1, <3>1, <3>2 DEF RunNight, HourOf
      <3>3. begun <= now
        BY DEF RunNight
      <3>4. CASE HourOf(now + 1) = Hour
        <4>1. now + 1 \in begun + 1 .. now + 1
          BY <2>1, <3>3
        <4> QED BY <3>4, <4>1
      <3>5. CASE HourOf(now + 1) # Hour /\ NightOf(now) = today
        BY <2>1, <3>5, NightEndsAtHour
      <3>6. CASE \E t \in begun + 1 .. now : HourOf(t) = Hour
        <4>1. begun + 1 .. now \subseteq begun + 1 .. now + 1
          BY <2>1
        <4> QED BY <3>6, <4>1
      <3> QED BY <3>4, <3>5, <3>6 DEF RunNight
    <2>4. CASE UNCHANGED <<now, begun, today>>
      BY <2>4 DEF RunNight, NightOf, HourOf
    <2> QED BY <2>2, <2>3, <2>4 DEF Next, Fetched, MarkerOnly, Begin, CallOff, CallOn,
              Recover, EndRun, DiesAt, PlugActsLate, run, vars
  <1>3. RunNight => MinutesFollowTheRun
    BY DEF RunNight, MinutesFollowTheRun
  <1> QED BY <1>1, <1>2, <1>3, TypeCorrect, PTL DEF Spec
-----------------------------------------------------------------------------
(* The verdict.                                                            *)

Passed(n) == now - Hour - HoursPerDay * n

\* An arm with one night has no more minutes than that night has had so far, and
\* no more than a night has.
OneNightsMinutes ==
  \A a \in Arms :
    /\ nights[a] = {} => minutes[a] = 0
    /\ \A n \in Nights : nights[a] = {n} =>
         /\ minutes[a] <= MinutesPerHour * Passed(n)
         /\ minutes[a] <= MinutesPerHour * HoursPerDay

\* An hour adds its minutes to what may have passed of any night.
LEMMA HourAdds ==
  ASSUME NEW m \in Nat, NEW h \in Int
  PROVE  m * (h + 1) = m * h + m
  OBVIOUS

LEMMA MoreHours ==
  ASSUME NEW m \in Nat, NEW h \in Int, NEW k \in Int, h <= k
  PROVE  m * h <= m * k
  OBVIOUS

\* A night under way has begun and is not over.
LEMMA WithinNight ==
  ASSUME NEW t \in Nat
  PROVE  t - Hour - HoursPerDay * NightOf(t) \in 0 .. HoursPerDay - 1
  <1> DEFINE u == t - Hour  D == HoursPerDay
  <1>1. D \in Nat /\ D > 0 /\ u \in Int
    BY ExperimentAssumption
  <1> HIDE DEF u, D
  <1>2. u % D = u - D * (u \div D) /\ u % D \in 0 .. D - 1
    BY <1>1, Z3
  <1> QED BY <1>2 DEF NightOf, DateOf, u, D

LEMMA HourCounts ==
  ASSUME TypeOK, Places, OneNightsMinutes, HourPasses
  PROVE  OneNightsMinutes'
  <1> DEFINE M == MinutesPerHour  D == HoursPerDay  arm == arm_for(NightOf(now))
             n0 == NightOf(now)
  <1>1. /\ now \in Nat /\ M \in Nat /\ D \in Nat /\ D > 0 /\ Hour \in Nat
        /\ nights \in [Arms -> SUBSET Nights] /\ minutes \in [Arms -> Nat]
        /\ now' = now + 1 /\ arm \in Arms /\ n0 \in Nights
    BY ExperimentAssumption, ArmIsOne DEF TypeOK, Places, HourPasses
  <1>2. Nights \subseteq Int
    BY ConstantsAreNumbers DEF Nights
  <1>3. ASSUME NEW n \in Nights
        PROVE  /\ Passed(n) \in Int /\ Passed(n)' = Passed(n) + 1
               /\ M * Passed(n)' = M * Passed(n) + M
    <2>1. D * n \in Int
      BY <1>1, <1>2
    <2> HIDE DEF D, M
    <2>2. Passed(n) = now - Hour - D * n /\ Passed(n)' = now' - Hour - D * n
      BY DEF Passed, D
    <2>3. Passed(n) \in Int /\ Passed(n)' = Passed(n) + 1
      BY <1>1, <2>1, <2>2
    <2> QED BY <1>1, <2>3, HourAdds
  <1>4. /\ Passed(n0) \in 0 .. D - 1
        /\ M * Passed(n0) \in Nat /\ M * Passed(n0) + M <= M * D
    <2>1. Passed(n0) \in 0 .. D - 1
      BY <1>1, WithinNight DEF Passed
    <2> HIDE DEF D, M, n0
    <2>2. Passed(n0) + 1 <= D /\ Passed(n0) \in Nat
      BY <1>1, <2>1
    <2>3. M * (Passed(n0) + 1) <= M * D
      BY <1>1, <2>2, MoreHours
    <2>4. M * Passed(n0) \in Nat
      BY <1>1, <2>2
    <2> QED BY <1>1, <2>1, <2>2, <2>3, <2>4, HourAdds
  <1>5. \A n \in Nights : M * Passed(n) \in Int
    <2> SUFFICES ASSUME NEW n \in Nights PROVE M * Passed(n) \in Int
      OBVIOUS
    <2>1. Passed(n) \in Int
      BY <1>3
    <2> QED BY <1>1, <2>1
  <1>6. CASE UNCHANGED data
    <2> SUFFICES ASSUME NEW a \in Arms
                 PROVE  /\ nights[a] = {} => minutes[a] = 0
                        /\ \A n \in Nights : nights[a] = {n} =>
                             /\ minutes[a] <= M * Passed(n)'
                             /\ minutes[a] <= M * D
      BY <1>6 DEF OneNightsMinutes, data
    <2>1. minutes[a] \in Nat
      BY <1>1
    <2> QED BY <1>1, <1>3, <1>5, <2>1 DEF OneNightsMinutes
  <1>7. CASE /\ nights' = [nights EXCEPT ![arm] = @ \cup {n0}]
             /\ minutes' = [minutes EXCEPT ![arm] = @ + M]
    <2> SUFFICES ASSUME NEW a \in Arms
                 PROVE  /\ nights'[a] = {} => minutes'[a] = 0
                        /\ \A n \in Nights : nights'[a] = {n} =>
                             /\ minutes'[a] <= M * Passed(n)'
                             /\ minutes'[a] <= M * D
      BY DEF OneNightsMinutes
    <2>1. minutes[a] \in Nat /\ nights[a] \subseteq Nights
      BY <1>1
    <2>2. CASE a # arm
      <3>1. nights'[a] = nights[a] /\ minutes'[a] = minutes[a]
        BY <1>1, <1>7, <2>2
      <3> QED BY <1>1, <1>3, <1>5, <2>1, <3>1 DEF OneNightsMinutes
    <2>3. CASE a = arm
      <3>1. nights'[a] = nights[a] \cup {n0} /\ minutes'[a] = minutes[a] + M
        BY <1>1, <1>7, <2>3
      <3>2. SUFFICES ASSUME NEW n \in Nights, nights'[a] = {n}
                     PROVE  /\ minutes'[a] <= M * Passed(n)'
                            /\ minutes'[a] <= M * D
        BY <3>1
      <3>3. n = n0 /\ (nights[a] = {} \/ nights[a] = {n0})
        BY <3>1, <3>2
      <3>4. minutes[a] <= M * Passed(n0)
        BY <1>1, <1>4, <2>1, <3>3 DEF OneNightsMinutes
      <3>5. M * D \in Int
        BY <1>1
      <3>6. minutes'[a] <= M * Passed(n0) + M
        BY <1>1, <1>4, <2>1, <3>1, <3>4
      <3>7. M * Passed(n)' = M * Passed(n0) + M
        BY <1>3, <3>3
      <3>8. minutes'[a] \in Nat
        BY <1>1, <2>1, <3>1
      <3> HIDE DEF M, D, n0
      <3> QED BY <1>1, <1>4, <3>5, <3>6, <3>7, <3>8
    <2> QED BY <2>2, <2>3
  <1> QED BY <1>6, <1>7 DEF HourPasses, Counted

\* A verdict rests on two nights of each arm or more.
THEOREM VerdictTakesTwo == Spec => []VerdictTakesTwoNights
  <1>1. Init => OneNightsMinutes
    BY DEF Init, OneNightsMinutes
  <1>2. ExperimentInv /\ OneNightsMinutes /\ [Next]_vars => OneNightsMinutes'
    <2> SUFFICES ASSUME ExperimentInv, OneNightsMinutes, [Next]_vars
                 PROVE  OneNightsMinutes'
      OBVIOUS
    <2>1. CASE HourPasses
      BY <2>1, HourCounts DEF ExperimentInv
    <2>2. CASE UNCHANGED <<now, data>>
      BY <2>2 DEF OneNightsMinutes, Passed, data
    <2> QED BY <2>1, <2>2 DEF Next, vars, Fetched, StartRun, MarkerOnly, Begin,
              CallOff, CallOn, Recover, EndRun, DiesAt, PlugActsLate
  <1>3. ExperimentInv /\ OneNightsMinutes => VerdictTakesTwoNights
    <2> SUFFICES ASSUME ExperimentInv, OneNightsMinutes, Verdict, NEW a \in Arms
                 PROVE  Cardinality(nights[a]) >= 2
      BY DEF VerdictTakesTwoNights
    <2>1. /\ minutes[a] \in Nat /\ nights[a] \subseteq Nights
          /\ minutes[a] >= LeastMinutes
      BY DEF ExperimentInv, TypeOK, Verdict
    <2>2. LeastMinutes \in Nat /\ LeastMinutes > MinutesPerHour * HoursPerDay
          /\ MinutesPerHour * HoursPerDay \in Nat
      BY ExperimentAssumption
    <2>3. nights[a] # {}
      BY <2>1, <2>2 DEF OneNightsMinutes
    <2>4. \A n : nights[a] # {n}
      BY <2>1, <2>2 DEF OneNightsMinutes
    <2>5. IsFiniteSet(nights[a])
      <3>1. IsFiniteSet(0 .. LastNight)
        BY ConstantsAreNumbers, FS_Interval
      <3> QED BY <2>1, <3>1, FS_Subset DEF Nights
    <2>6. Cardinality(nights[a]) \in Nat
      BY <2>5, FS_CardinalityType
    <2>7. Cardinality(nights[a]) # 0 /\ Cardinality(nights[a]) # 1
      BY <2>3, <2>4, <2>5, FS_EmptySet, FS_Singleton
    <2> QED BY <2>6, <2>7
  <1> QED BY <1>1, <1>2, <1>3, ExperimentInvariant, PTL DEF Spec
=============================================================================
