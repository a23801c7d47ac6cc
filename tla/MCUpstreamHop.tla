---------------------------- MODULE MCUpstreamHop ----------------------------
(***************************************************************************)
(* Instance of UpstreamHop for TLC: two hops the path moves between, one   *)
(* anchor, and the traceroute's destination.                               *)
(***************************************************************************)
EXTENDS UpstreamHop, TLC

CONSTANTS h1, h2, a1, via

MCHops == {h1, h2}
MCAnchors == {a1}
MCOthers == {}
==============================================================================
