-------------------------- MODULE MCTitleRefresher --------------------------
(* Two sessions, a queue of two and two retries, under either vendor's       *)
(* policy.                                                                   *)
EXTENDS TitleRefresher

CONSTANTS k1, k2
=============================================================================
