------------------------------ MODULE Evidence ------------------------------
(***************************************************************************)
(* What a probe promises about its record: a row that has reached either   *)
(* sink stays there until it is older than the retention, whatever fails   *)
(* and however often the process dies.  With no retention it stays.        *)
(***************************************************************************)
EXTENDS Integers

CONSTANTS Row, RetainDays

VARIABLES evidence, today

Init == evidence = {} /\ today = 0

\* prune compares a row's timestamp with today's date less the retention.
Expired(r) == RetainDays > 0 /\ r.ts < today - RetainDays

\* Rows are recorded, and some of those past the retention are dropped.
Keep ==
  /\ evidence' \in SUBSET Row
  /\ \A r \in evidence \ evidence' : Expired(r)
  /\ UNCHANGED today

NewDay == today' = today + 1 /\ UNCHANGED evidence

Next == Keep \/ NewDay

Spec == Init /\ [][Next]_<<evidence, today>>
=============================================================================
