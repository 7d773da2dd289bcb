------------------------- MODULE MCCodexProvenance --------------------------
(* Two turns.  The first row of the file may be a prompt of either; the      *)
(* second is a prompt of t2 without a proven source.  Where no turn id       *)
(* helps, the second may be the same again, or a line that cannot be parsed  *)
(* may come first.                                                           *)
EXTENDS CodexProvenance

CONSTANTS t1, t2

Proven == [source |-> "client", turn |-> NoTurn]
Unproven == [source |-> "unsupported", turn |-> t2]
Broken == [source |-> "bad", turn |-> NoTurn]

Rows == <<{Proven}, {Unproven}>>
AfterBroken == <<{Proven, Broken}, {Proven}>>
=============================================================================
