----------------------------- MODULE MCOutages -----------------------------
(* A threshold of one half of two packets.                                 *)
EXTENDS Outages

Half == [num |-> 1, den |-> 2]
=============================================================================
