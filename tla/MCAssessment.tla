---------------------------- MODULE MCAssessment ----------------------------
(* A site with both families and one with IPv4 alone; minutes in which     *)
(* nothing, this link, the control, both or the first hop alone fails.     *)
EXTENDS Assessment

Sites == {"both", "ipv4_only"}
Records == {<<"both", "ipv4">>, <<"both", "ipv6">>, <<"ipv4_only", "ipv4">>}

Kind(at, p, c, f) == [at |-> at, primary |-> p, control |-> c, first_hop |-> f]

MinuteKinds ==
  {Kind("after", 0, 0, 0), Kind("after", 30, NotMeasured, 30), Kind("peak", 1000, 0, 0),
   Kind("later", 1000, 0, 0), Kind("later", 0, 1000, 0), Kind("peak", 1000, 1000, 1000),
   Kind("later", 0, NotMeasured, 1000)}
=============================================================================
