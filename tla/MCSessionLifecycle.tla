------------------------- MODULE MCSessionLifecycle -------------------------
(* Times 1 to 3 for the vendors' activity, and long enough after that for an *)
(* idle time of one and a memory of two.                                     *)
EXTENDS SessionLifecycle

CONSTANTS s1, s2
=============================================================================
