---------------------------- MODULE MCProbeStore ----------------------------
(***************************************************************************)
(* Instance of ProbeStore for TLC: one collector beside the main thread,   *)
(* two tables, and days enough for a row to pass the retention.            *)
(***************************************************************************)
EXTENDS ProbeStore, TLC

CONSTANTS main, c1

MCCollectors == {c1}
MCTables == <<"icmp", "markers">>
MCTableOf == (main :> "markers") @@ (c1 :> "icmp")
=============================================================================
