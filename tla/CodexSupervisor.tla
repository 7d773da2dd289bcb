--------------------------- MODULE CodexSupervisor ---------------------------
(***************************************************************************)
(* The supervisor of the Codex worker, internal/codexsource/supervisor.go. *)
(*                                                                         *)
(* A worker may fail, panic or hang at any point.  The supervisor watches  *)
(* its heartbeats and the age of its job, cancels it, and starts the next  *)
(* only after it has seen the worker's end; one whose end it does not see  *)
(* in time ends the supervisor.  After too many restarts within a window   *)
(* of time it stops trying.                                                *)
(*                                                                         *)
(* Times are left out: a limit may pass whenever something is waited for,  *)
(* and any number of the restarts may be old enough not to count.  The     *)
(* worker's own steps are in CodexProvenance.                              *)
(***************************************************************************)
EXTENDS Naturals

CONSTANTS
    MaxRestarts,  \* restarts the window allows, five in the code
    MaxEpochs     \* bound: workers started

ASSUME SupervisorAssumption == MaxRestarts \in Nat /\ MaxEpochs \in Nat

VARIABLES
    cancelled,  \* the daemon's context, from which the supervisor's derives
    sup,        \* where Run stands
    epoch,      \* codex_worker_state.epoch: the worker it has started last
    alive,      \* the workers whose goroutines have not ended
    reported,   \* the end of the present worker is in its done channel
    restarts,   \* restarts within the window, as of the last one
    status,     \* codex_worker_state.status
    outcome     \* what Run has returned, once it has

supervisorVars == <<sup, epoch, alive, reported, restarts, status, outcome>>

SupervisorInit ==
    /\ sup = "none"
    /\ epoch = 0
    /\ alive = {}
    /\ reported = FALSE
    /\ restarts = 0
    /\ status \in {"running", "backoff", "degraded", "stopped"}  \* an earlier daemon's
    /\ outcome = "none"

StartSupervisor ==
    /\ sup' = "starting"
    /\ UNCHANGED <<epoch, alive, reported, restarts, status, outcome>>

\* SetCodexWorkerStatus, whose error is ignored.
SetStatus(s) == status' \in {s, status}

Return(result) == sup' = "gone" /\ outcome' = result

\* BeginCodexWorkerEpoch, and the goroutine.  Its done channel is a new one.
BeginEpoch ==
    /\ sup = "starting"
    /\ ~cancelled
    /\ epoch < MaxEpochs
    /\ epoch' = epoch + 1
    /\ alive' = alive \cup {epoch + 1}
    /\ reported' = FALSE
    /\ status' = "running"
    /\ sup' = "watching"
    /\ UNCHANGED <<restarts, outcome>>

\* The store's error counts only if the context is not the cause.
BeginFails ==
    /\ sup = "starting"
    /\ ~cancelled
    /\ Return("error")
    /\ UNCHANGED <<epoch, alive, reported, restarts, status>>

\* The watch: the daemon stops, the worker ends, or a check finds a heartbeat
\* or a job too old.
SeeCancelled ==
    /\ sup = "watching"
    /\ cancelled
    /\ sup' = "stopping"
    /\ UNCHANGED <<epoch, alive, reported, restarts, status, outcome>>

SeeEnd ==
    /\ sup = "watching"
    /\ reported
    /\ IF cancelled THEN Return("nil") ELSE sup' = "failed" /\ outcome' = outcome
    /\ UNCHANGED <<epoch, alive, reported, restarts, status>>

CheckFails ==
    /\ sup = "watching"
    /\ sup' = "reaping"
    /\ UNCHANGED <<epoch, alive, reported, restarts, status, outcome>>

\* The daemon stops: wait for the worker, but not for ever.
Stopped ==
    /\ sup = "stopping"
    /\ reported
    /\ SetStatus("stopped")
    /\ Return("nil")
    /\ UNCHANGED <<epoch, alive, reported, restarts>>

StopTimesOut ==
    /\ sup = "stopping"
    /\ Return("unresponsive")
    /\ UNCHANGED <<epoch, alive, reported, restarts, status>>

\* The cancelled worker's end, before there may be another one.
Reaped ==
    /\ sup = "reaping"
    /\ reported
    /\ sup' = "failed"
    /\ UNCHANGED <<epoch, alive, reported, restarts, status, outcome>>

\* Mutant: a worker that does not end gets a successor all the same.
ReapTimesOutOnward ==
    /\ sup = "reaping"
    /\ sup' = "failed"
    /\ UNCHANGED <<epoch, alive, reported, restarts, status, outcome>>

ReapTimesOut ==
    /\ sup = "reaping"
    /\ Return("unresponsive")
    /\ UNCHANGED <<epoch, alive, reported, restarts, status>>

\* kept of the earlier restarts are within the window.
Restart(kept) ==
    /\ sup = "failed"
    /\ kept < MaxRestarts
    /\ restarts' = kept + 1
    /\ SetStatus("backoff")
    /\ sup' = "backing off"
    /\ UNCHANGED <<epoch, alive, reported, outcome>>

Degrade(kept) ==
    /\ sup = "failed"
    /\ kept >= MaxRestarts
    /\ restarts' = kept
    /\ SetStatus("degraded")
    /\ sup' = "degraded"
    /\ UNCHANGED <<epoch, alive, reported, outcome>>

BackoffEnds ==
    /\ sup = "backing off"
    /\ sup' = "starting"
    /\ UNCHANGED <<epoch, alive, reported, restarts, status, outcome>>

\* The daemon stops while there is no worker.
LeaveIdle ==
    /\ sup \in {"starting", "backing off", "degraded"}
    /\ cancelled
    /\ Return("nil")
    /\ UNCHANGED <<epoch, alive, reported, restarts, status>>

\* A worker's goroutine ends: an error, a panic, a cancelled context, or a
\* heartbeat that its epoch no longer owns.  It puts that into its own channel.
WorkerEnds(e) ==
    /\ alive' = alive \ {e}
    /\ reported' = (reported \/ e = epoch)
    /\ UNCHANGED <<sup, epoch, restarts, status, outcome>>

Supervise ==
    \/ BeginEpoch \/ SeeCancelled \/ SeeEnd
    \/ Stopped \/ StopTimesOut \/ Reaped \/ ReapTimesOut
    \/ \E kept \in 0..restarts : Restart(kept) \/ Degrade(kept)
    \/ BackoffEnds \/ LeaveIdle

-----------------------------------------------------------------------------
SupervisorType ==
    /\ cancelled \in BOOLEAN
    /\ sup \in {"none", "starting", "watching", "stopping", "reaping", "failed",
                "backing off", "degraded", "gone"}
    /\ epoch \in 0..MaxEpochs
    /\ alive \subseteq 1..epoch
    /\ reported \in BOOLEAN
    /\ restarts \in 0..MaxRestarts
    /\ status \in {"running", "backoff", "degraded", "stopped"}
    /\ outcome \in {"none", "nil", "error", "unresponsive"}
=============================================================================
