---------------------------- MODULE MCForwarder ----------------------------
(***************************************************************************)
(* Two payloads of one unit and one of two against a channel of one item   *)
(* and two units: either limit can be the one that is hit.  One more is    *)
(* of a signal the manifest keeps back, and one has an empty body.         *)
(***************************************************************************)
EXTENDS Forwarder

CONSTANTS p1, p2, p3, off, empty

MCPayload == {p1, p2, p3, off, empty}
MCSize == [p \in Payload |-> CASE p = p3 -> 2 [] p = empty -> 0 [] OTHER -> 1]
MCEnabled == Payload \ {off}

\* For the longer attempts of the finding.
MCFewPayloads == {p1, p3}
=============================================================================
