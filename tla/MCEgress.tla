------------------------------ MODULE MCEgress ------------------------------
(***************************************************************************)
(* Instance of Egress for TLC: IPv4 with a learned baseline, two addresses *)
(* of the primary uplink's network and one of the backup's; IPv6 with a    *)
(* configured prefix, one address inside it and one outside.               *)
(***************************************************************************)
EXTENDS Egress, TLC

CONSTANTS a1, a2, b1, p1, q1, netA, netB, netP, netQ

MCFamilies == <<"ipv4", "ipv6">>
MCAddresses == ("ipv4" :> {a1, a2, b1}) @@ ("ipv6" :> {p1, q1})
MCNet == (a1 :> netA) @@ (a2 :> netA) @@ (b1 :> netB) @@ (p1 :> netP) @@ (q1 :> netQ)
MCExpected == ("ipv4" :> {}) @@ ("ipv6" :> {netP})
=============================================================================
