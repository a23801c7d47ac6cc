----------------------------- MODULE Experiment -----------------------------
(***************************************************************************)
(* The nightly intervention: a run of `ispbust experiment run` looks up    *)
(* the arm of its date, switches the modem's plug off and on again over    *)
(* HTTP and writes markers; `experiment analyse` assigns every measured    *)
(* minute to the arm of its night.  A plug call may fail before or after   *)
(* the plug has acted, or reach the plug after its caller has given up; a  *)
(* run may be killed at any point.                                         *)
(***************************************************************************)
EXTENDS Integers, FiniteSets

CONSTANTS
  LastNight,      \* bound: nights the experiment lasts
  HoursPerDay,    \* bound: parts of a day that are told apart
  MinutesPerHour, \* minutes in such a part
  Hour,           \* the intervention hour
  LeastMinutes    \* comparable minutes a verdict needs

ASSUME ExperimentAssumption ==
  /\ LastNight \in Nat /\ HoursPerDay \in Nat \ {0} /\ MinutesPerHour \in Nat
  /\ Hour \in 0 .. HoursPerDay - 1
  /\ LeastMinutes \in Nat /\ LeastMinutes > HoursPerDay * MinutesPerHour

VARIABLES
  now,       \* local time, in hours
  coin,      \* the seed: a coin for every pair of nights
  plug,      \* are both of the plug's URLs configured
  pc,        \* "idle", or the call the run makes next
  today,     \* date of the run, the last one if none is under way
  ok,        \* no call of the run has failed
  markers,   \* <<night, kind>> in the database
  powered,   \* has the modem power
  late,      \* calls given up that the plug may still act on
  cycle,     \* history: how the last run that called the plug ended
  begun,     \* history: when it began
  answered,  \* history: nights in which off and on were both answered
  nights,    \* by arm: nights with a measured minute
  minutes    \* by arm: minutes measured

run == <<pc, today, ok>>
power == <<powered, late, cycle, answered>>
data == <<nights, minutes>>
vars == <<now, coin, plug, run, markers, power, begun, data>>

REBOOT == "reboot"
CONTROL == "no_reboot"
Arms == {REBOOT, CONTROL}
Nights == 0 .. LastNight
Pairs == 0 .. LastNight \div 2
Kinds == {"ab_control_night", "ab_reboot_begin", "ab_reboot_night", "ab_reboot_failed"}
Calls == {"off", "on"}

HourOf(t) == t % HoursPerDay
DateOf(t) == t \div HoursPerDay

arm_for(day) ==
  LET first_of_pair == day % 2 = 0
  IN  IF coin[day \div 2] = first_of_pair THEN REBOOT ELSE CONTROL

\* Measuring begins at the intervention hour of the first night.
Init ==
  /\ now = Hour
  /\ coin \in [Pairs -> BOOLEAN] /\ plug \in BOOLEAN
  /\ pc = "idle" /\ today = -1 /\ ok = TRUE
  /\ markers = {}
  /\ powered = TRUE /\ late = {} /\ cycle = "none" /\ answered = {}
  /\ begun = 0
  /\ nights = [a \in Arms |-> {}] /\ minutes = [a \in Arms |-> 0]

-----------------------------------------------------------------------------
(* write_marker.                                                           *)

Written(kind) == markers' = markers \cup {<<today, kind>>}

\* The database does not exist: a warning, and the run goes on.
NotWritten == markers' = markers

\* A fetch puts a download in the place of the database the markers are in.
Fetched ==
  /\ markers # {} /\ markers' = {}
  /\ UNCHANGED <<now, coin, plug, run, power, begun, data>>

-----------------------------------------------------------------------------
(* run_tonight, from cron at the intervention hour or later the same day.  *)
(* What the plug has not received by then, it does not act on any more.    *)

StartRun ==
  /\ pc = "idle" /\ HourOf(now) >= Hour /\ DateOf(now) \in Nights
  /\ today' = DateOf(now)
  /\ begun' = now
  /\ late' = {}
  /\ pc' = IF arm_for(DateOf(now)) = CONTROL THEN "control"
           ELSE IF plug THEN "begin" ELSE "marker only"
  /\ UNCHANGED <<now, coin, plug, ok, markers, powered, cycle, answered, data>>

\* Both write one marker and return.
MarkerOnly ==
  /\ pc \in {"control", "marker only"}
  /\ \/ Written(IF pc = "control" THEN "ab_control_night" ELSE "ab_reboot_night")
     \/ NotWritten
  /\ pc' = "idle"
  /\ UNCHANGED <<now, coin, plug, today, ok, power, begun, data>>

Begin ==
  /\ pc = "begin"
  /\ Written("ab_reboot_begin") \/ NotWritten
  /\ pc' = "off"
  /\ UNCHANGED <<now, coin, plug, today, ok, power, begun, data>>

\* The plug answers call c.
Answers(c) == powered' = (c = "on") /\ late' = late

\* The caller gets no answer: the plug has acted, has not, or may act yet.
Fails(c) ==
  \/ powered' = (c = "on") /\ late' = late
  \/ powered' = powered /\ late' \in {late, late \cup {c}}

CallOff ==
  /\ pc = "off"
  /\ cycle' = "running"
  /\ \/ Answers("off") /\ pc' = "on" /\ ok' = ok
     \/ Fails("off") /\ pc' = "recover" /\ ok' = FALSE
  /\ UNCHANGED <<now, coin, plug, today, markers, answered, begun, data>>

\* After off_seconds.
CallOn ==
  /\ pc = "on"
  /\ \/ /\ Answers("on") /\ pc' = "night" /\ ok' = ok
        /\ answered' = answered \cup {today}
     \/ /\ Fails("on") /\ pc' = "recover" /\ ok' = FALSE
        /\ answered' = answered
  /\ UNCHANGED <<now, coin, plug, today, markers, cycle, begun, data>>

\* The second try, whatever went wrong, and whatever comes of it.
Recover ==
  /\ pc = "recover"
  /\ Answers("on") \/ Fails("on")
  /\ pc' = "night"
  /\ UNCHANGED <<now, coin, plug, today, ok, markers, cycle, answered, begun, data>>

\* Variant: the marker of a night that went as planned, whatever happened.
AsPlanned == "ab_reboot_night"

NightMarker == IF ok THEN "ab_reboot_night" ELSE "ab_reboot_failed"

\* Variant: a call that succeeds in the end makes the run a success.
SuccessAnyway == "done"

\* The exit code of the command.
ExitCode == IF ok THEN "done" ELSE "failed"

EndRun ==
  /\ pc = "night"
  /\ Written(NightMarker) \/ NotWritten
  /\ cycle' = ExitCode
  /\ pc' = "idle" /\ ok' = TRUE
  /\ UNCHANGED <<now, coin, plug, today, powered, late, answered, begun, data>>

\* write_marker raises, and so does the command; or the run is killed, in a
\* call perhaps.
DiesAt ==
  /\ pc # "idle"
  /\ pc' = "idle" /\ ok' = TRUE
  /\ \/ UNCHANGED <<powered, late>>
     \/ pc = "off" /\ Fails("off")
     \/ pc \in {"on", "recover"} /\ Fails("on")
  /\ cycle' = IF pc \in {"off", "on", "recover", "night"} THEN "died" ELSE cycle
  /\ UNCHANGED <<now, coin, plug, today, markers, answered, begun, data>>

PlugActsLate(c) ==
  /\ c \in late
  /\ late' = late \ {c} /\ powered' = (c = "on")
  /\ UNCHANGED <<now, coin, plug, run, markers, cycle, answered, begun, data>>

-----------------------------------------------------------------------------
(* The probe's minutes, as analyse assigns them.                           *)

\* Variant: a night is a calendar day.
CalendarDay(t) == DateOf(t)

\* cycle_day.
NightOf(t) == DateOf(t - Hour)

\* per_minute: the rows of a minute count once.
Counted(n) == n + MinutesPerHour

\* A run is over within the hour, and so are its calls.
HourPasses ==
  /\ pc = "idle" /\ NightOf(now + 1) \in Nights
  /\ now' = now + 1 /\ late' = {}
  /\ \/ UNCHANGED data
     \/ LET arm == arm_for(NightOf(now))
        IN  /\ nights' = [nights EXCEPT ![arm] = @ \cup {NightOf(now)}]
            /\ minutes' = [minutes EXCEPT ![arm] = Counted(@)]
  /\ UNCHANGED <<coin, plug, run, markers, powered, cycle, answered, begun>>

\* Variant: the minutes of both arms together.
OfBothArms == minutes[REBOOT] + minutes[CONTROL] >= LeastMinutes

\* _reading quotes a verdict.
Verdict == \A arm \in Arms : minutes[arm] >= LeastMinutes

-----------------------------------------------------------------------------
Next ==
  \/ Fetched \/ StartRun \/ MarkerOnly \/ Begin \/ CallOff \/ CallOn
  \/ Recover \/ EndRun \/ DiesAt \/ HourPasses
  \/ \E c \in Calls : PlugActsLate(c)

Spec == Init /\ [][Next]_vars

-----------------------------------------------------------------------------
\* Types: minutes belong to nights of the experiment, and no more of them are
\* counted than have passed.
TypeOK ==
  /\ now \in Nat /\ coin \in [Pairs -> BOOLEAN] /\ plug \in BOOLEAN
  /\ pc \in {"idle", "control", "marker only", "begin", "off", "on", "recover", "night"}
  /\ today \in Nights \cup {-1} /\ begun \in Nat /\ ok \in BOOLEAN
  /\ markers \subseteq Nights \X Kinds
  /\ powered \in BOOLEAN /\ late \subseteq Calls
  /\ cycle \in {"none", "running", "done", "failed", "died"}
  /\ answered \subseteq Nights
  /\ nights \in [Arms -> SUBSET Nights] /\ minutes \in [Arms -> Nat]
  /\ minutes[REBOOT] + minutes[CONTROL] <= MinutesPerHour * (now - Hour)

\* A modem is never left without power by a run that reported success: if it
\* is off and nothing is running, the last run that called the plug failed
\* visibly or died.  (run_tonight's second try and the command's exit code,
\* with calls that take effect unanswered or late.)
DarkIsTold ==
  pc = "idle" /\ ~powered => cycle \in {"failed", "died"}

\* What a marker says of a night happened: a reboot night with a plug had its
\* off and its on, both answered, and a control night had none.  (Markers may
\* be missing: their write may fail, and a fetch replaces them.)
MarkersTellTheNight ==
  \A n \in Nights :
    /\ plug /\ <<n, "ab_reboot_night">> \in markers => n \in answered
    /\ <<n, "ab_control_night">> \in markers => n \notin answered

\* A minute counts for the arm carried out last, if a run has begun since the
\* last intervention hour, past midnight as well.  (analyse's cycle_day and
\* run_tonight's date agree.)
MinutesFollowTheRun ==
  today # -1 /\ (\A t \in begun + 1 .. now : HourOf(t) # Hour)
    => arm_for(NightOf(now)) = arm_for(today)

\* No arm has three nights on end, whatever the seed.  (arm_for's pairs.)
NoThreeAlike ==
  \A n \in Nights : n + 2 \in Nights =>
    ~(arm_for(n) = arm_for(n + 1) /\ arm_for(n + 1) = arm_for(n + 2))

\* A verdict rests on two nights of each arm or more.  (_reading's 2000
\* minutes of the smaller arm, against the 1440 a night has.)
VerdictTakesTwoNights ==
  Verdict => \A arm \in Arms : Cardinality(nights[arm]) >= 2
=============================================================================
