------------------------------ MODULE MCFetch ------------------------------
(* A site of one link under test and one control, the rebuild loop and one *)
(* command run by hand.                                                    *)
EXTENDS Fetch

CONSTANTS wan_a, wan_b

SiteProbes == {wan_a, wan_b}
SiteFirst == [S \in SUBSET SiteProbes |-> IF wan_a \in S THEN wan_a ELSE wan_b]
=============================================================================
