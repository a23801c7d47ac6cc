------------------------------ MODULE Windows ------------------------------
(***************************************************************************)
(* The ICMP collector's windows and the path captures they start: its loop *)
(* runs one measuring thread per address family, waits for them no longer  *)
(* than a deadline, and goes on while one may still be at work; every      *)
(* measuring thread looks at ProbeContext.last_event_trace, without a      *)
(* lock, before it starts a traceroute.  The captures TraceCollector.loop  *)
(* makes on its own schedule share nothing with these but the store.       *)
(*                                                                         *)
(* Time is kept as ages, which stop growing at the cooldown, the only      *)
(* value they are compared with.  A thread that has outlived the window    *)
(* after its own is followed no further.                                   *)
(***************************************************************************)
EXTENDS Integers, FiniteSets

CONSTANTS
  Families,  \* address families of the configured targets
  Cooldown,  \* trace.on_event_cooldown_seconds, in ticks
  MtrLimit,  \* how long an mtr run can take, in ticks
  MaxHosts   \* bound: hosts of a family with an event in one window

ASSUME WindowsAssumption ==
  /\ IsFiniteSet(Families) /\ Families # {}
  /\ Cooldown \in Nat \ {0} /\ MtrLimit \in Nat /\ MaxHosts \in Nat

Slots == {0, 1}  \* windows, the latest one and the one before
Threads == Slots \X Families

VARIABLES
  enabled,  \* trace.enabled and trace.on_event
  loop,     \* where IcmpCollector's loop is
  slot,     \* the slot of its latest window
  groups,   \* the families of that window
  pc,       \* where each measuring thread is
  left,     \* hosts of its window with an event yet to be raised
  since,    \* age of ProbeContext.last_event_trace
  captures  \* triggered captures: those still running or within the cooldown

windowsVars == <<enabled, loop, slot, groups, pc, left, since, captures>>

WindowsInit ==
  /\ enabled \in BOOLEAN
  /\ loop = "wait" /\ slot = 0 /\ groups = {}
  /\ pc = [t \in Threads |-> "off"] /\ left = [t \in Threads |-> 0]
  /\ since = Cooldown /\ captures = {}

-----------------------------------------------------------------------------
(* IcmpCollector.run_once.                                                 *)

Other(s) == 1 - s

\* The targets of this window are grouped by family, and each family's thread
\* is started.
StartThreads(G) ==
  /\ loop = "wait"
  /\ loop' = "join" /\ slot' = Other(slot) /\ groups' = G
  /\ pc' = [t \in Threads |-> IF t[1] = slot THEN pc[t]
                              ELSE IF t[2] \in G THEN "ping" ELSE "off"]
  /\ left' = [t \in Threads |-> IF t[1] = slot THEN left[t] ELSE 0]
  /\ UNCHANGED <<enabled, since, captures>>

Measuring == {t \in Threads : t[1] = slot /\ pc[t] # "off"}

\* With one family, measure runs in the loop's own thread, without a deadline.
Inline == Cardinality(groups) = 1

\* Variant: the threads are waited for until they end.
WaitedFor == Measuring = {}

\* Every thread of the window has ended, or the deadline of its join has passed.
Joined == Measuring = {} \/ ~Inline

JoinThreads ==
  /\ loop = "join" /\ Joined
  /\ loop' = "wait"
  /\ UNCHANGED <<enabled, slot, groups, pc, left, since, captures>>

-----------------------------------------------------------------------------
(* IcmpCollector.measure and check_event, thread by thread.                *)

Goes(t, to) == pc' = [pc EXCEPT ![t] = to]

\* fping is missing, or was killed, or printed nothing for its hosts.
NothingMeasured(t) ==
  /\ pc[t] = "ping"
  /\ Goes(t, "off")
  /\ UNCHANGED <<enabled, loop, slot, groups, left, since, captures>>

\* The window's rows are inserted and audited; n hosts are lossy or slow.
Measured(t, n) ==
  /\ pc[t] = "ping"
  /\ Goes(t, "check") /\ left' = [left EXCEPT ![t] = n]
  /\ UNCHANGED <<enabled, loop, slot, groups, since, captures>>

\* Variant: a disabled trace collector is no matter.
EvenDisabled == since >= Cooldown

Due == enabled /\ since >= Cooldown

\* A host's events are recorded and last_event_trace is read.
CheckEvent(t) ==
  /\ pc[t] = "check" /\ left[t] > 0
  /\ left' = [left EXCEPT ![t] = @ - 1]
  /\ Goes(t, IF Due THEN "due" ELSE "check")
  /\ UNCHANGED <<enabled, loop, slot, groups, since, captures>>

\* Variant: the time is not written.
Unmarked == since

Marked == 0

\* last_event_trace is written and a capture started in a thread of its own.
StartTrace(t) ==
  /\ pc[t] = "due"
  /\ since' = Marked
  /\ captures' = captures \cup {[by |-> t, age |-> 0, running |-> TRUE]}
  /\ Goes(t, "check")
  /\ UNCHANGED <<enabled, loop, slot, groups, left>>

MeasureEnds(t) ==
  /\ pc[t] = "check" /\ left[t] = 0
  /\ Goes(t, "off")
  /\ UNCHANGED <<enabled, loop, slot, groups, left, since, captures>>

Thread(t) ==
  \/ NothingMeasured(t) \/ (\E n \in 0 .. MaxHosts : Measured(t, n))
  \/ CheckEvent(t) \/ StartTrace(t) \/ MeasureEnds(t)

-----------------------------------------------------------------------------
(* TraceCollector.                                                         *)

Followed(C) == {c \in C : c.running \/ c.age < Cooldown}

\* mtr ends, with hops for a row of trigger "event", or with none.
CaptureEnds(c) ==
  /\ c.running
  /\ captures' = Followed((captures \ {c}) \cup {[c EXCEPT !.running = FALSE]})
  /\ UNCHANGED <<enabled, loop, slot, groups, pc, left, since>>

-----------------------------------------------------------------------------
Older(n) == IF n < Cooldown THEN n + 1 ELSE n

\* Time passes; not between the reading of last_event_trace and its writing,
\* and mtr is killed at its limit.
Tick ==
  /\ \A t \in Threads : pc[t] # "due"
  /\ \A c \in captures : c.running => c.age < MtrLimit
  /\ since' = Older(since)
  /\ captures' = Followed({[c EXCEPT !.age = @ + 1] : c \in captures})
  /\ UNCHANGED <<enabled, loop, slot, groups, pc, left>>

\* The loop's own thread: run_once, and measure if it is called in place.
LoopNext ==
  \/ \E G \in (SUBSET Families) \ {{}} : StartThreads(G)
  \/ JoinThreads
  \/ Inline /\ \E t \in Measuring : Thread(t)

WindowsNext ==
  \/ LoopNext
  \/ \E t \in Threads : Thread(t)
  \/ \E c \in captures : CaptureEnds(c)
  \/ Tick

WindowsSpec == WindowsInit /\ [][WindowsNext]_windowsVars /\ WF_windowsVars(LoopNext)
-----------------------------------------------------------------------------
(* Properties.                                                             *)

\* Types.
WindowsTypeOK ==
  /\ enabled \in BOOLEAN /\ loop \in {"wait", "join"} /\ slot \in Slots
  /\ groups \in SUBSET Families
  /\ pc \in [Threads -> {"off", "ping", "check", "due"}]
  /\ left \in [Threads -> 0 .. MaxHosts]
  /\ since \in 0 .. Cooldown
  /\ captures \subseteq [by : Threads, age : Nat, running : BOOLEAN]

\* Two traceroutes within one cooldown were started at the same moment by two
\* threads that had both found it over: the unlocked last_event_trace lets no
\* other pair through, and no thread twice.  (check_event: "now -
\* self.probe.last_event_trace >= ...on_event_cooldown_seconds".)
TracesAreSpaced ==
  \A c, d \in captures :
    c # d /\ c.age < Cooldown /\ d.age < Cooldown =>
      c.age = d.age /\ c.by # d.by

\* Where an event finds the cooldown running, the path was captured within it,
\* at the very moment last_event_trace tells; and while traces are disabled no
\* event captures one.  (check_event: "`enabled: false` means no traceroutes at
\* all -- scheduled or triggered".)
CooldownHasATrace ==
  /\ since < Cooldown => \E c \in captures : c.age = since
  /\ ~enabled => captures = {}

\* The loop measures window after window, though a measuring thread may hang for
\* ever.  (run_once, the deadline of join; Collector.loop.)
WindowsGoOn == []<>(loop = "wait") /\ []<>(loop = "join")
=============================================================================
