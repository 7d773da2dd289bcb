------------------------------ MODULE MCDaemon ------------------------------
(***************************************************************************)
(* Two requests, one receiver worker and a channel of one body: a request  *)
(* can wait, be dropped, or outlive the server's deadline.                 *)
(***************************************************************************)
EXTENDS Daemon

CONSTANTS b1, b2, w1

MCBodies == {b1, b2}
MCWorkers == {w1}
=============================================================================
