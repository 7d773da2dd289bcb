------------------------------- MODULE MCScan -------------------------------
(* One session.  A file is either broken in its second line or fatal in its  *)
(* third; the user adds or overwrites ordinary rows.                         *)
EXTENDS CodexScan

CONSTANTS o1, p, q

Meta == [kind |-> "meta", owner |-> o1, at |-> 1]
Text == [kind |-> "text", owner |-> NoOwner, at |-> 1]
LaterText == [kind |-> "text", owner |-> NoOwner, at |-> 2]
BadLine == [kind |-> "bad", owner |-> NoOwner, at |-> 1]
Context == [kind |-> "context", owner |-> NoOwner, at |-> 1]

Appended == {Text}
Held == {<<Meta, BadLine>>, <<Meta, LaterText, Context>>}
=============================================================================
