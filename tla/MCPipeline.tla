----------------------------- MODULE MCPipeline -----------------------------
(* Events with and without a session, in payloads that repeat an event the   *)
(* window has forgotten by then.                                             *)
EXTENDS Pipeline

CONSTANTS c1, c2, e1, e2, e3, h1, s1

InSession == [e \in Events |-> s1]
LastWithoutSession == [e \in Events |-> IF e = e3 THEN NoSession ELSE s1]

Repeats == {<<e1, e2, e3, e1>>, <<e2, e1>>, <<>>}
Workers == Permutations(Consumers)

One == {<<e1>>}
=============================================================================
