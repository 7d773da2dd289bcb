------------------------------- MODULE Daemon -------------------------------
(***************************************************************************)
(* The daemon's start, loop and shutdown, internal/daemon/runner.go, with  *)
(* the receiver and the Codex supervisor it composes.                      *)
(*                                                                         *)
(* Of the other parts only what start and shutdown see of them is here:    *)
(* the pipeline takes batches until its end, and its owner ends after the  *)
(* last command (Pipeline); a title refresher ends once its context has    *)
(* (TitleRefresher, both refreshers in one); the forwarder is up or shut   *)
(* (Forwarder, whose Shutdown returns by its deadline).  Deadlines may     *)
(* pass whenever something is waited for under one.                        *)
(*                                                                         *)
(* Left out: the periodic work of the loop, the read-only query handle,    *)
(* the limits, the update check and the heartbeat reports.                 *)
(***************************************************************************)
EXTENDS Receiver, CodexSupervisor

VARIABLES
    pc,           \* where Run stands
    lease,        \* who holds the instance lock of the data directory
    file,         \* whose coordinates runtime.json holds
    db,           \* the store's handle
    titles,       \* the title refreshers
    fwd,          \* the forwarder
    pipe,         \* the pipeline's owner
    flushed,      \* what close has said of the pipeline
    sourceDone,   \* the supervisor's result is still to be taken
    sourceErr     \* codexSourceErr

runVars == <<lease, file, db, titles, fwd, pipe, flushed, sourceDone, sourceErr>>
vars == <<pc, cancelled, runVars, receiverVars, supervisorVars>>
parts == <<receiverVars, supervisorVars>>

Init ==
    /\ pc = "acquire"   \* the state file has been read, without the lease
    /\ cancelled = FALSE
    /\ lease = "free"
    /\ file = "none"
    /\ db = "none"
    /\ titles = "none"
    /\ fwd = "none"
    /\ pipe = "none"
    /\ flushed = TRUE
    /\ sourceDone = FALSE
    /\ sourceErr = "none"
    /\ ReceiverInit
    /\ SupervisorInit

Goto(from, to) == pc = from /\ pc' = to

-----------------------------------------------------------------------------
(* start: any failure leads to shutdown, which looks at what there is.     *)

AcquireLease ==
    /\ Goto("acquire", "recheck")
    /\ lease = "free"
    /\ lease' = "mine"
    /\ UNCHANGED <<cancelled, file, db, titles, fwd, pipe, flushed, sourceDone,
                   sourceErr, parts>>

\* Acquire does not wait.
LeaseTaken ==
    /\ Goto("acquire", "cancel")
    /\ lease # "free"
    /\ UNCHANGED <<cancelled, runVars, parts>>

\* The state has changed before the lease was there, the store cannot be
\* opened, or the forwarder cannot be made.
StartFails ==
    /\ \E at \in {"recheck", "forwarder"} : Goto(at, "cancel")
    /\ UNCHANGED <<cancelled, runVars, parts>>

OpenStore ==
    /\ Goto("recheck", "forwarder")
    /\ db' = "open"
    /\ titles' = "running"
    /\ UNCHANGED <<cancelled, lease, file, fwd, pipe, flushed, sourceDone, sourceErr,
                   parts>>

StartPipeline ==
    /\ Goto("forwarder", "listen")
    /\ fwd' = "running"
    /\ pipe' = "running"
    /\ sourceDone' = TRUE
    /\ StartSupervisor
    /\ UNCHANGED <<cancelled, lease, file, db, titles, flushed, sourceErr, receiverVars>>

StartReceiver ==
    /\ Goto("listen", "announce")
    /\ Listen
    /\ UNCHANGED <<cancelled, runVars, supervisorVars>>

ReceiverFails ==
    /\ Goto("listen", "cancel")
    /\ ListenFails
    /\ UNCHANGED <<cancelled, runVars, supervisorVars>>

\* A failure to write runtime.json is logged.
Announce ==
    /\ Goto("announce", "loop")
    /\ file' \in {file, "mine"}
    /\ UNCHANGED <<cancelled, lease, db, titles, fwd, pipe, flushed, sourceDone,
                   sourceErr, parts>>

-----------------------------------------------------------------------------
(* The loop *)

\* A signal, or the control API's request to stop.
Signal ==
    /\ ~cancelled
    /\ pc # "exited"
    /\ cancelled' = TRUE
    /\ UNCHANGED <<pc, runVars, parts>>

LoopEnds ==
    /\ Goto("loop", "cancel")
    /\ cancelled
    /\ UNCHANGED <<cancelled, runVars, parts>>

\* Mutant: the loop only notes the error.
SupervisorReturnedNoted ==
    /\ pc = "loop"
    /\ sourceDone
    /\ outcome # "none"
    /\ sourceDone' = FALSE
    /\ sourceErr' = IF outcome = "nil" THEN sourceErr ELSE outcome
    /\ UNCHANGED <<pc, cancelled, lease, file, db, titles, fwd, pipe, flushed, parts>>

\* A supervisor that returns an error takes the daemon with it.
SupervisorReturned ==
    /\ pc = "loop"
    /\ sourceDone
    /\ outcome # "none"
    /\ sourceDone' = FALSE
    /\ IF outcome = "nil" THEN pc' = pc /\ sourceErr' = sourceErr
                          ELSE pc' = "cancel" /\ sourceErr' = outcome
    /\ UNCHANGED <<cancelled, lease, file, db, titles, fwd, pipe, flushed, parts>>

-----------------------------------------------------------------------------
(* shutdown *)

CancelContext ==
    /\ Goto("cancel", IF http = "open" THEN "http" ELSE "pipeline")
    /\ cancelled' = TRUE
    /\ UNCHANGED <<runVars, parts>>

BeginHTTPShutdown ==
    /\ Goto("http", "handlers")
    /\ CloseListeners
    /\ UNCHANGED <<cancelled, runVars, supervisorVars>>

\* All handlers have returned, or the stage's deadline has passed.
CloseReceiver ==
    /\ Goto("handlers", "workers")
    /\ CloseQueue
    /\ UNCHANGED <<cancelled, runVars, supervisorVars>>

\* Close waits for the workers, without a deadline.
ReceiverClosed ==
    /\ Goto("workers", "pipeline")
    /\ WorkersGone
    /\ UNCHANGED <<cancelled, runVars, parts>>

NoPipeline ==
    /\ Goto("pipeline", "titles")
    /\ pipe = "none"
    /\ UNCHANGED <<cancelled, runVars, parts>>

SendLast ==
    /\ Goto("pipeline", "flush")
    /\ pipe = "running"
    /\ pipe' = "draining"
    /\ UNCHANGED <<cancelled, lease, file, db, titles, fwd, flushed, sourceDone,
                   sourceErr, parts>>

PipelineClosed ==
    /\ Goto("flush", "titles")
    /\ pipe = "done"
    /\ UNCHANGED <<cancelled, runVars, parts>>

\* The deadline, before the last command is in the channel or after.
PipelineLate ==
    /\ \/ Goto("pipeline", "titles") /\ pipe = "running"
       \/ Goto("flush", "titles")
    /\ flushed' = FALSE
    /\ UNCHANGED <<cancelled, lease, file, db, titles, fwd, pipe, sourceDone,
                   sourceErr, parts>>

\* Both Close calls wait for their goroutines.
TitlesClosed ==
    /\ Goto("titles", "source")
    /\ titles # "running"
    /\ UNCHANGED <<cancelled, runVars, parts>>

NoSource ==
    /\ Goto("source", "forwarder shutdown")
    /\ ~sourceDone
    /\ UNCHANGED <<cancelled, runVars, parts>>

TakeSourceResult ==
    /\ Goto("source", "forwarder shutdown")
    /\ sourceDone
    /\ outcome # "none"
    /\ sourceErr' = IF outcome = "nil" THEN sourceErr ELSE outcome
    /\ sourceDone' = FALSE
    /\ UNCHANGED <<cancelled, lease, file, db, titles, fwd, pipe, flushed, parts>>

\* A supervisor that does not return in time counts as an unresponsive worker.
SourceLate ==
    /\ Goto("source", "forwarder shutdown")
    /\ sourceDone
    /\ sourceErr' = "unresponsive"
    /\ sourceDone' = FALSE
    /\ UNCHANGED <<cancelled, lease, file, db, titles, fwd, pipe, flushed, parts>>

ShutForwarder ==
    /\ Goto("forwarder shutdown", "database")
    /\ fwd' = IF fwd = "none" THEN "none" ELSE "shut"
    /\ UNCHANGED <<cancelled, lease, file, db, titles, pipe, flushed, sourceDone,
                   sourceErr, parts>>

\* Mutant: the worker's state is not asked for.
CloseDatabaseIfFlushed ==
    /\ Goto("database", "file")
    /\ db' = IF db = "open" /\ flushed THEN "closed" ELSE db
    /\ UNCHANGED <<cancelled, lease, file, titles, fwd, pipe, flushed, sourceDone,
                   sourceErr, parts>>

\* Left open while somebody may still write: the log recovers it next time.
CloseDatabase ==
    /\ Goto("database", "file")
    /\ db' = IF db = "open" /\ flushed /\ sourceErr # "unresponsive"
             THEN "closed" ELSE db
    /\ UNCHANGED <<cancelled, lease, file, titles, fwd, pipe, flushed, sourceDone,
                   sourceErr, parts>>

\* Only a daemon that has written the file removes it.  That the removal may
\* fail, which is logged, is left out.
RemoveFile ==
    /\ Goto("file", "lease")
    /\ file' = IF file = "mine" THEN "none" ELSE file
    /\ UNCHANGED <<cancelled, lease, db, titles, fwd, pipe, flushed, sourceDone,
                   sourceErr, parts>>

\* The deferred end of shutdown.
ReleaseLease ==
    /\ Goto("lease", "exited")
    /\ lease' = IF lease = "mine" THEN "free" ELSE lease
    /\ UNCHANGED <<cancelled, file, db, titles, fwd, pipe, flushed, sourceDone,
                   sourceErr, parts>>

-----------------------------------------------------------------------------
(* The parts *)

ReceiverHandler(b) == Handler(b) /\ UNCHANGED <<pc, cancelled, runVars, supervisorVars>>

\* Consume comes back while the owner of the pipeline takes batches; what it
\* does afterwards is Pipeline's, and is not needed here.
ReceiverWorker(w) ==
    /\ \/ TakeBody(w) \/ DecodeFails(w) \/ Decoded(w) \/ WorkerLeaves(w)
       \/ HandOver(w) /\ pipe = "running"
    /\ UNCHANGED <<pc, cancelled, runVars, supervisorVars>>

PipelineEnds ==
    /\ pipe = "draining"
    /\ pipe' = "done"
    /\ UNCHANGED <<pc, cancelled, lease, file, db, titles, fwd, flushed, sourceDone,
                   sourceErr, parts>>

TitlesEnd ==
    /\ titles = "running"
    /\ cancelled
    /\ titles' = "gone"
    /\ UNCHANGED <<pc, cancelled, lease, file, db, fwd, pipe, flushed, sourceDone,
                   sourceErr, parts>>

Supervisor == Supervise /\ UNCHANGED <<pc, cancelled, runVars, receiverVars>>

SupervisorTrouble ==
    /\ BeginFails \/ CheckFails
    /\ UNCHANGED <<pc, cancelled, runVars, receiverVars>>

CodexWorker(e) ==
    /\ e \in alive
    /\ WorkerEnds(e)
    /\ UNCHANGED <<pc, cancelled, runVars, receiverVars>>

\* Another daemon, or uninstall, which both take the lease before the data.
RivalEnters ==
    /\ lease = "free"
    /\ lease' = "theirs"
    /\ UNCHANGED <<pc, cancelled, file, db, titles, fwd, pipe, flushed, sourceDone,
                   sourceErr, parts>>

RivalAnnounces ==
    /\ lease = "theirs"
    /\ file' = "theirs"
    /\ UNCHANGED <<pc, cancelled, lease, db, titles, fwd, pipe, flushed, sourceDone,
                   sourceErr, parts>>

RivalLeaves ==
    /\ lease = "theirs"
    /\ lease' = "free"
    /\ file' = "none"
    /\ UNCHANGED <<pc, cancelled, db, titles, fwd, pipe, flushed, sourceDone,
                   sourceErr, parts>>

-----------------------------------------------------------------------------
Start ==
    \/ AcquireLease \/ LeaseTaken \/ StartFails \/ OpenStore \/ StartPipeline
    \/ StartReceiver \/ ReceiverFails \/ Announce

Loop == LoopEnds \/ SupervisorReturned

Shutdown ==
    \/ CancelContext \/ BeginHTTPShutdown \/ CloseReceiver \/ ReceiverClosed
    \/ NoPipeline \/ SendLast \/ PipelineClosed \/ PipelineLate \/ TitlesClosed
    \/ NoSource \/ TakeSourceResult \/ SourceLate
    \/ ShutForwarder \/ CloseDatabase \/ RemoveFile \/ ReleaseLease

Rival == RivalEnters \/ RivalAnnounces \/ RivalLeaves

Next ==
    \/ Start \/ Loop \/ Shutdown \/ Signal
    \/ \E b \in Bodies : ReceiverHandler(b)
    \/ \E w \in ReceiverWorkers : ReceiverWorker(w)
    \/ PipelineEnds \/ TitlesEnd
    \/ Supervisor \/ SupervisorTrouble
    \/ \E e \in 1..MaxEpochs : CodexWorker(e)
    \/ Rival

Spec == Init /\ [][Next]_vars

\* Goroutines of the daemon go on, and its waits with a deadline end.  Nothing
\* is assumed of the clients, of the Codex worker, which may hang, of a rival,
\* or of the signal.
FairSpec ==
    /\ Spec
    /\ WF_vars(Start \/ Loop \/ Shutdown)
    /\ \A w \in ReceiverWorkers : WF_vars(ReceiverWorker(w))
    /\ WF_vars(PipelineEnds)
    /\ WF_vars(TitlesEnd)
    /\ WF_vars(Supervisor)

-----------------------------------------------------------------------------
(* Properties *)

\* Every variable of the daemon, the receiver and the supervisor keeps its type.
TypeOK ==
    /\ ReceiverType
    /\ SupervisorType
    /\ pc \in {"acquire", "recheck", "forwarder", "listen", "announce", "loop",
               "cancel", "http", "handlers", "workers", "pipeline", "flush", "titles",
               "source", "forwarder shutdown", "database", "file", "lease", "exited"}
    /\ lease \in {"free", "mine", "theirs"}
    /\ file \in {"none", "mine", "theirs"}
    /\ db \in {"none", "open", "closed"}
    /\ titles \in {"none", "running", "gone"}
    /\ fwd \in {"none", "running", "shut"}
    /\ pipe \in {"none", "running", "draining", "done"}
    /\ flushed \in BOOLEAN
    /\ sourceDone \in BOOLEAN
    /\ sourceErr \in {"none", "error", "unresponsive"}

\* There is never a second Codex worker: whatever the first is doing and
\* however often it fails, its successor starts after its end.  A status other
\* than running says that there is none.
OneWorker ==
    /\ \A d, e \in alive : d = e
    /\ status # "running" => alive = {}

\* A body the client was told is accepted has passed the receiver when the
\* pipeline gets its last command and when the forwarder is shut: neither turns
\* away what the receiver still holds, and requests that outlive the server's
\* deadline are dropped, not accepted.
AcceptedPassesReceiver ==
    pipe \in {"draining", "done"} \/ fwd = "shut" =>
        \A b \in Bodies : request[b] # "accepted"

Quiet ==
    /\ pipe \in {"none", "done"}
    /\ titles # "running"
    /\ alive = {}
    /\ WorkersGone

\* Nobody writes to a closed database.  A daemon without the lease has no
\* writer, unless its pipeline or its Codex worker was reported as late; and it
\* leaves no runtime.json behind, so it cannot remove its successor's.
NobodyLeftBehind ==
    /\ db = "closed" => Quiet
    /\ lease # "mine" =>
        /\ file # "mine"
        /\ WorkersGone /\ titles # "running" /\ fwd # "running"
        /\ http \notin {"open", "draining"}
        /\ Quiet \/ ~flushed \/ sourceErr = "unresponsive"

\* The order of the shutdown: the receiver is empty before what it feeds is
\* closed, and what everybody writes to is closed after they have ended.
OrderlyShutdown == AcceptedPassesReceiver /\ NobodyLeftBehind

\* A daemon that is told to stop, or whose supervisor has given up, exits,
\* whatever clients and the Codex worker do.
DaemonLeaves ==
    cancelled \/ outcome \in {"error", "unresponsive"} ~> pc = "exited"
=============================================================================
