---------------------------- MODULE DaemonProofs ----------------------------
(***************************************************************************)
(* What TLAPS proves of Daemon for every set of requests, every number of  *)
(* receiver workers, every channel size and every restart budget.          *)
(*                                                                         *)
(* The last part is about the Home screen, which the daemon answers while  *)
(* it stores: for any sessions, usages, price table, windows and number of *)
(* recent sessions, every total of the screen is the sum of its parts, and *)
(* a screen read in one transaction agrees with itself.                    *)
(***************************************************************************)
EXTENDS Daemon, HomeScreen, DataFacts, FiniteSetTheorems, TLAPS

(* The inductive invariant, part by part. *)

\* The supervisor: only the worker of the last epoch can be alive, and only
\* where Run watches it, waits for its end or has given that up.
SupervisorInv ==
    /\ alive \subseteq {epoch}
    /\ alive # {} =>
        /\ sup \in {"watching", "stopping", "reaping", "gone"}
        /\ ~reported
        /\ status = "running"
        /\ outcome \in {"none", "unresponsive"}
    /\ outcome # "none" <=> sup = "gone"

InQueue(b) == \E i \in 1..Len(rqueue) : rqueue[i] = b

WithWorker(b) ==
    \E w \in ReceiverWorkers :
        rworker[w].pc \in {"decoding", "consuming"} /\ rworker[w].body = b

\* The receiver: an accepted body is in the channel or with a worker, and a
\* worker leaves only a closed and empty channel.
ReceiverInv ==
    /\ \A b \in Bodies : request[b] = "accepted" => InQueue(b) \/ WithWorker(b)
    /\ http = "none" => rqueue = <<>> /\ \A b \in Bodies : request[b] = "none"
    /\ http = "none" =>
        \A w \in ReceiverWorkers : rworker[w].pc = IF rclosed THEN "gone" ELSE "none"
    /\ http # "none" => \A w \in ReceiverWorkers : rworker[w].pc # "none"
    /\ http \in {"open", "draining"} => ~rclosed
    /\ http = "closed" => rclosed
    /\ \A w \in ReceiverWorkers : rworker[w].pc = "gone" => rclosed /\ rqueue = <<>>

\* The stages of shutdown, as suffixes of its order.
FromLease == {"lease", "exited"}
FromFile == {"file"} \cup FromLease
FromDatabase == {"database"} \cup FromFile
FromForwarder == {"forwarder shutdown"} \cup FromDatabase
FromSource == {"source"} \cup FromForwarder
FromTitles == {"titles"} \cup FromSource
FromFlush == {"flush"} \cup FromTitles
FromPipeline == {"pipeline"} \cup FromFlush

\* The server against where Run stands.
ServerInv ==
    /\ pc \in {"acquire", "recheck", "forwarder", "listen"} => http = "none" /\ ~rclosed
    /\ pc \in {"announce", "loop", "http"} => http = "open"
    /\ pc = "cancel" => http \in {"none", "open"}
    /\ pc = "handlers" => http = "draining"
    /\ pc = "workers" => http = "closed"
    /\ pc \in FromPipeline => http \in {"none", "closed"} /\ WorkersGone

\* The other parts against where Run stands.
StageInv ==
    /\ pc \in {"acquire", "recheck"} => titles # "running"
    /\ pc \in FromSource => titles # "running"
    /\ pc \in {"acquire", "recheck", "forwarder"} =>
        pipe = "none" /\ fwd = "none" /\ sup = "none" /\ ~sourceDone
    /\ pipe \in {"draining", "done"} => pc \in FromFlush
    /\ pc \in FromTitles => pipe \in {"none", "done"} \/ ~flushed
    /\ fwd = "shut" => pc \in FromDatabase
    /\ pc \in FromDatabase => fwd # "running"
    /\ db = "closed" => pc \in FromFile /\ flushed /\ sourceErr # "unresponsive"

\* The result of the supervisor is taken once, by the loop or by shutdown.
SourceInv ==
    /\ pc \in FromForwarder => ~sourceDone
    /\ ~sourceDone =>
        sup = "none" \/ outcome \in {"nil", "error"} \/ sourceErr = "unresponsive"

Untouched ==
    /\ http = "none" /\ ~rclosed
    /\ pipe = "none" /\ fwd = "none" /\ titles # "running"
    /\ sup = "none" /\ ~sourceDone

\* Without the lease Run has not begun anything, or it is through.
LeaseInv ==
    /\ lease = "mine" => pc \notin {"acquire", "exited"}
    /\ pc \in {"recheck", "forwarder", "listen", "announce", "loop"} => lease = "mine"
    /\ lease # "mine" => file # "mine"
    /\ pc \in FromLease => file # "mine"
    /\ lease # "mine" /\ pc # "exited" => Untouched

RunInv == ServerInv /\ StageInv /\ SourceInv /\ LeaseInv

IInv == TypeOK /\ SupervisorInv /\ ReceiverInv /\ RunInv

-----------------------------------------------------------------------------
(* What the invariant says *)

\* Once the server is through, no accepted body is left in the receiver.
LEMMA NothingStranded ==
    ASSUME ReceiverInv, WorkersGone, http \in {"none", "closed"}
    PROVE  \A b \in Bodies : request[b] # "accepted"
<1>1. CASE http = "none"
  BY <1>1 DEF ReceiverInv
<1>2. CASE http = "closed"
  <2>1. \A w \in ReceiverWorkers : rworker[w].pc = "gone"
    BY <1>2 DEF ReceiverInv, WorkersGone
  <2>2. rqueue = <<>>
    BY <2>1, ReceiverAssumption DEF ReceiverInv
  <2>3. \A b \in Bodies : ~InQueue(b) /\ ~WithWorker(b)
    BY <2>1, <2>2 DEF InQueue, WithWorker
  <2>. QED
    BY <2>3 DEF ReceiverInv
<1>. QED
  BY <1>1, <1>2

LEMMA PassedReceiver == IInv => AcceptedPassesReceiver
<1>. SUFFICES ASSUME IInv, pipe \in {"draining", "done"} \/ fwd = "shut"
              PROVE  \A b \in Bodies : request[b] # "accepted"
  BY DEF AcceptedPassesReceiver
<1>1. pc \in FromPipeline
  BY DEF IInv, RunInv, StageInv, FromPipeline, FromFlush, FromTitles, FromSource,
         FromForwarder, FromDatabase
<1>2. WorkersGone /\ http \in {"none", "closed"}
  BY <1>1 DEF IInv, RunInv, ServerInv
<1>. QED
  BY <1>2, NothingStranded DEF IInv

LEMMA AtMostOne == IInv => OneWorker
  BY DEF IInv, SupervisorInv, OneWorker

\* A supervisor whose result is taken has no worker, or it is unresponsive.
LEMMA WorkerKnown ==
    ASSUME IInv, ~sourceDone, sourceErr # "unresponsive"
    PROVE  alive = {}
  BY DEF IInv, SupervisorInv, RunInv, SourceInv

LEMMA LeftBehind == IInv => NobodyLeftBehind
<1>. SUFFICES ASSUME IInv PROVE NobodyLeftBehind
  OBVIOUS
<1>1. ASSUME db = "closed" PROVE Quiet
  <2>1. pc \in FromFile /\ flushed /\ sourceErr # "unresponsive"
    BY <1>1 DEF IInv, RunInv, StageInv
  <2>2. pipe \in {"none", "done"} /\ titles # "running" /\ ~sourceDone /\ WorkersGone
    BY <2>1 DEF IInv, RunInv, StageInv, SourceInv, ServerInv, FromPipeline, FromFlush,
                FromTitles, FromSource, FromForwarder, FromDatabase
  <2>. QED
    BY <2>1, <2>2, WorkerKnown DEF Quiet
<1>2. ASSUME lease # "mine", pc = "exited"
      PROVE  /\ WorkersGone /\ titles # "running" /\ fwd # "running"
             /\ http \notin {"open", "draining"}
             /\ Quiet \/ ~flushed \/ sourceErr = "unresponsive"
  <2>1. /\ WorkersGone /\ titles # "running" /\ fwd # "running"
        /\ http \in {"none", "closed"}
        /\ pipe \in {"none", "done"} \/ ~flushed
        /\ ~sourceDone
    BY <1>2 DEF IInv, RunInv, StageInv, SourceInv, ServerInv, FromPipeline, FromFlush,
                FromTitles, FromSource, FromForwarder, FromDatabase, FromFile, FromLease
  <2>. QED
    BY <2>1, WorkerKnown DEF Quiet
<1>3. ASSUME lease # "mine", pc # "exited"
      PROVE  /\ WorkersGone /\ titles # "running" /\ fwd # "running"
             /\ http \notin {"open", "draining"}
             /\ Quiet
  <2>1. Untouched
    BY <1>3 DEF IInv, RunInv, LeaseInv
  <2>2. WorkersGone
    BY <2>1 DEF Untouched, IInv, ReceiverInv, WorkersGone
  <2>. QED
    BY <2>1, <2>2 DEF Untouched, IInv, SupervisorInv, Quiet
<1>4. lease # "mine" => file # "mine"
  BY DEF IInv, RunInv, LeaseInv
<1>. QED
  BY <1>1, <1>2, <1>3, <1>4 DEF NobodyLeftBehind

-----------------------------------------------------------------------------
(* The invariant holds at first *)

LEMMA Initially == Init => IInv
<1>. SUFFICES ASSUME Init PROVE IInv
  OBVIOUS
<1>1. TypeOK
  <2>1. ReceiverType
    <3>1. rworker \in [ReceiverWorkers -> [pc : {"none", "idle", "decoding", "consuming", "gone"},
                                          body : Bodies \cup {NoBody}]]
      BY DEF Init, ReceiverInit, At
    <3>2. request \in [Bodies -> Fates]
      BY DEF Init, ReceiverInit, Fates
    <3>3. rqueue \in Seq(Bodies)
      BY DEF Init, ReceiverInit
    <3>4. http \in {"none", "open", "draining", "closed"} /\ rclosed \in BOOLEAN
      BY DEF Init, ReceiverInit
    <3>. QED
      BY <3>1, <3>2, <3>3, <3>4 DEF ReceiverType
  <2>2. SupervisorType
    <3>1. epoch \in 0..MaxEpochs /\ restarts \in 0..MaxRestarts
      BY SupervisorAssumption DEF Init, SupervisorInit
    <3>. QED
      BY <3>1 DEF Init, SupervisorInit, SupervisorType
  <2>. QED
    BY <2>1, <2>2 DEF Init, TypeOK
<1>2. SupervisorInv
  BY DEF Init, SupervisorInit, SupervisorInv
<1>3. ReceiverInv
  BY DEF Init, ReceiverInit, ReceiverInv, At
<1>4. RunInv
  BY DEF Init, ReceiverInit, SupervisorInit, RunInv, ServerInv, StageInv, SourceInv, LeaseInv,
         Untouched, FromPipeline, FromFlush, FromTitles, FromSource, FromForwarder,
         FromDatabase, FromFile, FromLease
<1>. QED
  BY <1>1, <1>2, <1>3, <1>4 DEF IInv

-----------------------------------------------------------------------------
(* Which steps reach which part *)

LEMMA SupervisorFrame ==
    ASSUME [Next]_vars
    PROVE  \/ UNCHANGED supervisorVars
           \/ StartPipeline \/ Supervisor \/ SupervisorTrouble
           \/ \E e \in 1..MaxEpochs : CodexWorker(e)
<1>1. ASSUME Start PROVE UNCHANGED supervisorVars \/ StartPipeline
  BY <1>1 DEF Start, AcquireLease, LeaseTaken, StartFails, OpenStore, StartReceiver,
              ReceiverFails, Announce, parts
<1>2. ASSUME Loop \/ Shutdown \/ Signal PROVE UNCHANGED supervisorVars
  BY <1>2 DEF Loop, LoopEnds, SupervisorReturned, Signal, Shutdown, CancelContext,
              BeginHTTPShutdown, CloseReceiver, ReceiverClosed, NoPipeline, SendLast,
              PipelineClosed, PipelineLate, TitlesClosed, NoSource, TakeSourceResult,
              SourceLate, ShutForwarder, CloseDatabase, RemoveFile, ReleaseLease, parts
<1>3. ASSUME NEW b \in Bodies, ReceiverHandler(b) PROVE UNCHANGED supervisorVars
  BY <1>3 DEF ReceiverHandler
<1>4. ASSUME NEW w \in ReceiverWorkers, ReceiverWorker(w) PROVE UNCHANGED supervisorVars
  BY <1>4 DEF ReceiverWorker
<1>5. ASSUME PipelineEnds \/ TitlesEnd \/ Rival PROVE UNCHANGED supervisorVars
  BY <1>5 DEF PipelineEnds, TitlesEnd, Rival, RivalEnters, RivalAnnounces, RivalLeaves,
              parts
<1>6. UNCHANGED vars => UNCHANGED supervisorVars
  BY DEF vars
<1>. QED
  BY <1>1, <1>2, <1>3, <1>4, <1>5, <1>6 DEF Next

LEMMA ReceiverFrame ==
    ASSUME [Next]_vars
    PROVE  \/ UNCHANGED receiverVars
           \/ StartReceiver \/ ReceiverFails \/ BeginHTTPShutdown \/ CloseReceiver
           \/ \E b \in Bodies : ReceiverHandler(b)
           \/ \E w \in ReceiverWorkers : ReceiverWorker(w)
<1>1. ASSUME Start PROVE UNCHANGED receiverVars \/ StartReceiver \/ ReceiverFails
  BY <1>1 DEF Start, AcquireLease, LeaseTaken, StartFails, OpenStore, StartPipeline,
              Announce, parts
<1>2. ASSUME Loop \/ Shutdown \/ Signal
      PROVE  UNCHANGED receiverVars \/ BeginHTTPShutdown \/ CloseReceiver
  BY <1>2 DEF Loop, LoopEnds, SupervisorReturned, Signal, Shutdown, CancelContext,
              ReceiverClosed, NoPipeline, SendLast,
              PipelineClosed, PipelineLate, TitlesClosed, NoSource, TakeSourceResult,
              SourceLate, ShutForwarder, CloseDatabase, RemoveFile, ReleaseLease, parts
<1>3. ASSUME Supervisor \/ SupervisorTrouble PROVE UNCHANGED receiverVars
  BY <1>3 DEF Supervisor, SupervisorTrouble
<1>4. ASSUME NEW e \in 1..MaxEpochs, CodexWorker(e) PROVE UNCHANGED receiverVars
  BY <1>4 DEF CodexWorker
<1>5. ASSUME PipelineEnds \/ TitlesEnd \/ Rival PROVE UNCHANGED receiverVars
  BY <1>5 DEF PipelineEnds, TitlesEnd, Rival, RivalEnters, RivalAnnounces, RivalLeaves,
              parts
<1>6. UNCHANGED vars => UNCHANGED receiverVars
  BY DEF vars
<1>. QED
  BY <1>1, <1>2, <1>3, <1>4, <1>5, <1>6 DEF Next

-----------------------------------------------------------------------------
(* The supervisor *)

LEMMA SupervisorStep ==
    ASSUME IInv, [Next]_vars
    PROVE  SupervisorInv'
<1>1. CASE UNCHANGED supervisorVars
  BY <1>1 DEF IInv, SupervisorInv, supervisorVars
<1>2. CASE StartPipeline
  BY <1>2 DEF StartPipeline, StartSupervisor, Goto, IInv, RunInv, StageInv, SupervisorInv
<1>3. CASE BeginEpoch
  BY <1>3 DEF BeginEpoch, IInv, SupervisorInv
<1>4. CASE SeeCancelled \/ SeeEnd \/ CheckFails
  BY <1>4 DEF SeeCancelled, SeeEnd, CheckFails, Return, IInv, SupervisorInv
<1>5. CASE Stopped \/ StopTimesOut \/ Reaped \/ ReapTimesOut
  BY <1>5 DEF Stopped, StopTimesOut, Reaped, ReapTimesOut, Return, SetStatus, IInv,
              SupervisorInv
<1>6. CASE \E kept \in 0..restarts : Restart(kept) \/ Degrade(kept)
  BY <1>6 DEF Restart, Degrade, SetStatus, IInv, SupervisorInv
<1>7. CASE BackoffEnds \/ LeaveIdle \/ BeginFails
  BY <1>7 DEF BackoffEnds, LeaveIdle, BeginFails, Return, IInv, SupervisorInv
<1>8. ASSUME NEW e \in alive, WorkerEnds(e) PROVE SupervisorInv'
  BY <1>8 DEF WorkerEnds, IInv, SupervisorInv
<1>. QED
  BY <1>1, <1>2, <1>3, <1>4, <1>5, <1>6, <1>7, <1>8, SupervisorFrame
  DEF Supervisor, SupervisorTrouble, Supervise, CodexWorker

-----------------------------------------------------------------------------
(* The receiver *)

\* Where the server may be when a handler or a worker makes a step.
LEMMA Serving ==
    ASSUME ReceiverInv
    PROVE  /\ \A b \in Bodies : request[b] # "none" => http # "none"
           /\ \A w \in ReceiverWorkers : rworker[w].pc \notin {"none", "gone"} => http # "none"
  BY DEF ReceiverInv

\* What a worker does with the body it has: the queue stays as it is, and no
\* other body changes its place.
LEMMA WorkerKeepsOthers ==
    ASSUME TypeOK, ReceiverInv, NEW w \in ReceiverWorkers,
           rworker[w].pc \in {"decoding", "consuming"},
           NEW fate \in {"undecodable", "handed over"},
           request' = [request EXCEPT ![rworker[w].body] = fate],
           rworker' = [rworker EXCEPT ![w] = At("idle", NoBody)],
           UNCHANGED <<http, rqueue, rclosed>>
    PROVE  ReceiverInv'
<1>1. http # "none"
  BY Serving
<1>2. \A v \in ReceiverWorkers :
        rworker'[v] = IF v = w THEN At("idle", NoBody) ELSE rworker[v]
  BY DEF TypeOK, ReceiverType
<1>3. ASSUME NEW v \in ReceiverWorkers
      PROVE  rworker'[v].pc # "none" /\ (rworker'[v].pc = "gone" => rclosed /\ rqueue = <<>>)
  <2>1. CASE v = w
    <3>1. rworker'[v] = At("idle", NoBody)
      BY <2>1, <1>2
    <3>2. At("idle", NoBody).pc = "idle"
      BY DEF At
    <3>. QED
      BY <3>1, <3>2
  <2>2. CASE v # w
    BY <2>2, <1>1, <1>2 DEF ReceiverInv
  <2>. QED
    BY <2>1, <2>2
<1>4. ASSUME NEW b \in Bodies, request'[b] = "accepted"
      PROVE  InQueue(b)' \/ WithWorker(b)'
  <2>1. request[b] = "accepted" /\ b # rworker[w].body
    BY <1>4 DEF TypeOK, ReceiverType
  <2>2. CASE InQueue(b)
    BY <2>2 DEF InQueue
  <2>3. CASE WithWorker(b)
    <3>1. PICK v \in ReceiverWorkers :
            rworker[v].pc \in {"decoding", "consuming"} /\ rworker[v].body = b
      BY <2>3 DEF WithWorker
    <3>. QED
      BY <3>1, <2>1, <1>2 DEF WithWorker
  <2>. QED
    BY <2>1, <2>2, <2>3 DEF ReceiverInv
<1>. QED
  BY <1>1, <1>3, <1>4 DEF ReceiverInv

\* A handler ends without a place in the channel.
LEMMA HandlerKeepsOthers ==
    ASSUME TypeOK, ReceiverInv, NEW b \in Bodies, http # "none",
           NEW fate \in Fates \ {"accepted"},
           request' = [request EXCEPT ![b] = fate],
           UNCHANGED <<http, rqueue, rclosed, rworker>>
    PROVE  ReceiverInv'
<1>1. \A c \in Bodies : request'[c] = "accepted" => request[c] = "accepted"
  BY DEF TypeOK, ReceiverType
<1>. QED
  BY <1>1 DEF ReceiverInv, InQueue, WithWorker

LEMMA AcceptKeeps ==
    ASSUME TypeOK, ReceiverInv, NEW b \in Bodies, Accept(b)
    PROVE  ReceiverInv'
<1>1. http # "none" /\ ~rclosed
  BY Serving DEF Accept
<1>2. \A w \in ReceiverWorkers : rworker[w].pc # "gone"
  BY <1>1 DEF ReceiverInv
<1>3. /\ Len(rqueue') = Len(rqueue) + 1
      /\ Len(rqueue) \in Nat
      /\ \A i \in 1..Len(rqueue) : rqueue'[i] = rqueue[i]
      /\ rqueue'[Len(rqueue) + 1] = b
  <2>1. rqueue \in Seq(Bodies) /\ rqueue' = Append(rqueue, b)
    BY DEF Accept, TypeOK, ReceiverType
  <2>. QED
    BY <2>1
<1>4. ASSUME NEW c \in Bodies, request'[c] = "accepted"
      PROVE  InQueue(c)' \/ WithWorker(c)'
  <2>1. CASE c = b
    BY <2>1, <1>3 DEF InQueue
  <2>2. CASE c # b
    <3>1. request[c] = "accepted"
      BY <1>4, <2>2 DEF Accept, TypeOK, ReceiverType
    <3>2. CASE InQueue(c)
      BY <3>2, <1>3 DEF InQueue
    <3>3. CASE WithWorker(c)
      BY <3>3 DEF WithWorker, Accept
    <3>. QED
      BY <3>1, <3>2, <3>3 DEF ReceiverInv
  <2>. QED
    BY <2>1, <2>2
<1>. QED
  BY <1>1, <1>2, <1>4 DEF ReceiverInv, Accept

LEMMA TakeKeeps ==
    ASSUME TypeOK, ReceiverInv, NEW w \in ReceiverWorkers, TakeBody(w)
    PROVE  ReceiverInv'
<1>1. http # "none"
  BY Serving DEF TakeBody
<1>2. \A v \in ReceiverWorkers :
        rworker'[v] = IF v = w THEN At("decoding", Head(rqueue)) ELSE rworker[v]
  BY DEF TakeBody, TypeOK, ReceiverType
<1>3. \A v \in ReceiverWorkers : rworker'[v].pc \notin {"none", "gone"}
  BY <1>1, <1>2 DEF ReceiverInv, TakeBody, At
<1>4. /\ Len(rqueue) \in Nat /\ Len(rqueue) > 0
      /\ Head(rqueue) = rqueue[1]
      /\ Len(rqueue') = Len(rqueue) - 1
      /\ \A i \in 1..(Len(rqueue) - 1) : rqueue'[i] = rqueue[i + 1]
  <2>1. rqueue \in Seq(Bodies) /\ rqueue # <<>> /\ rqueue' = Tail(rqueue)
    BY DEF TakeBody, TypeOK, ReceiverType
  <2>. QED
    BY <2>1
<1>5. ASSUME NEW b \in Bodies, request[b] = "accepted"
      PROVE  InQueue(b)' \/ WithWorker(b)'
  <2>1. ASSUME NEW i \in 1..Len(rqueue), rqueue[i] = b
        PROVE  InQueue(b)' \/ WithWorker(b)'
    <3>1. CASE i = 1
      BY <3>1, <2>1, <1>2, <1>4 DEF WithWorker, At
    <3>2. CASE i # 1
      <4>1. i - 1 \in 1..(Len(rqueue) - 1) /\ (i - 1) + 1 = i
        BY <3>2, <1>4
      <4>. QED
        BY <4>1, <2>1, <1>4 DEF InQueue
    <3>. QED
      BY <3>1, <3>2
  <2>2. CASE WithWorker(b)
    <3>1. PICK v \in ReceiverWorkers :
            rworker[v].pc \in {"decoding", "consuming"} /\ rworker[v].body = b
      BY <2>2 DEF WithWorker
    <3>2. rworker'[v] = rworker[v]
      BY <3>1, <1>2 DEF TakeBody
    <3>. QED
      BY <3>1, <3>2 DEF WithWorker
  <2>. QED
    BY <2>1, <2>2, <1>5 DEF ReceiverInv, InQueue
<1>. QED
  BY <1>1, <1>3, <1>5 DEF ReceiverInv, TakeBody

LEMMA DecodedKeeps ==
    ASSUME TypeOK, ReceiverInv, NEW w \in ReceiverWorkers, Decoded(w)
    PROVE  ReceiverInv'
<1>1. http # "none"
  BY Serving DEF Decoded
<1>2. \A v \in ReceiverWorkers :
        /\ rworker'[v].body = rworker[v].body
        /\ v # w => rworker'[v].pc = rworker[v].pc
  BY DEF Decoded, TypeOK, ReceiverType
<1>3. rworker[w].pc = "decoding" /\ rworker'[w].pc = "consuming"
  BY DEF Decoded, TypeOK, ReceiverType
<1>4. ASSUME NEW b \in Bodies, WithWorker(b) PROVE WithWorker(b)'
  BY <1>2, <1>3, <1>4 DEF WithWorker
<1>5. \A b \in Bodies : InQueue(b)' <=> InQueue(b)
  BY DEF Decoded, InQueue
<1>6. \A v \in ReceiverWorkers :
        rworker'[v].pc # "none" /\ (rworker'[v].pc = "gone" => rworker[v].pc = "gone")
  BY <1>1, <1>2, <1>3 DEF ReceiverInv
<1>. QED
  BY <1>1, <1>4, <1>5, <1>6 DEF ReceiverInv, Decoded

LEMMA LeavesKeeps ==
    ASSUME TypeOK, ReceiverInv, NEW w \in ReceiverWorkers, WorkerLeaves(w)
    PROVE  ReceiverInv'
<1>1. http # "none"
  BY Serving DEF WorkerLeaves
<1>2. \A v \in ReceiverWorkers : v # w => rworker'[v] = rworker[v]
  BY DEF WorkerLeaves, TypeOK, ReceiverType
<1>3. rworker[w].pc = "idle" /\ rworker'[w].pc = "gone"
  BY DEF WorkerLeaves, At, TypeOK, ReceiverType
<1>4. ASSUME NEW b \in Bodies, WithWorker(b) PROVE WithWorker(b)'
  BY <1>2, <1>3, <1>4 DEF WithWorker
<1>5. \A b \in Bodies : InQueue(b)' <=> InQueue(b)
  BY DEF WorkerLeaves, InQueue
<1>6. \A v \in ReceiverWorkers : rworker'[v].pc # "none"
  BY <1>1, <1>2, <1>3 DEF ReceiverInv
<1>. QED
  BY <1>1, <1>4, <1>5, <1>6 DEF ReceiverInv, WorkerLeaves

LEMMA ReceiverStep ==
    ASSUME IInv, [Next]_vars
    PROVE  ReceiverInv'
<1>. TypeOK /\ ReceiverInv /\ ServerInv
  BY DEF IInv, RunInv
<1>1. CASE UNCHANGED receiverVars
  BY <1>1 DEF ReceiverInv, InQueue, WithWorker, receiverVars
<1>2. CASE StartReceiver
  <2>1. http = "none" /\ ~rclosed
    BY <1>2 DEF StartReceiver, Goto, ServerInv
  <2>2. \A w \in ReceiverWorkers : rworker'[w].pc = "idle"
    BY <1>2 DEF StartReceiver, Listen, At
  <2>. QED
    BY <1>2, <2>1, <2>2 DEF StartReceiver, Listen, ReceiverInv
<1>3. CASE ReceiverFails
  <2>1. http = "none" /\ ~rclosed
    BY <1>3 DEF ReceiverFails, Goto, ServerInv
  <2>2. \A w \in ReceiverWorkers : rworker'[w].pc = "gone"
    BY <1>3 DEF ReceiverFails, ListenFails, At
  <2>. QED
    BY <1>3, <2>1, <2>2 DEF ReceiverFails, ListenFails, ReceiverInv
<1>4. CASE BeginHTTPShutdown
  BY <1>4 DEF BeginHTTPShutdown, CloseListeners, Goto, ServerInv, ReceiverInv, InQueue,
              WithWorker
<1>5. CASE CloseReceiver
  BY <1>5 DEF CloseReceiver, CloseQueue, Goto, ServerInv, ReceiverInv, InQueue, WithWorker
<1>6. ASSUME NEW b \in Bodies, ReceiverHandler(b) PROVE ReceiverInv'
  <2>1. CASE Arrive(b)
    BY <2>1, HandlerKeepsOthers DEF Arrive, Fates
  <2>2. CASE TurnAway(b)
    BY <2>2, Serving, HandlerKeepsOthers DEF TurnAway, Fates
  <2>3. CASE Drop(b)
    BY <2>3, Serving, HandlerKeepsOthers DEF Drop, Fates
  <2>. QED
    BY <1>6, <2>1, <2>2, <2>3, AcceptKeeps DEF ReceiverHandler, Handler
<1>7. ASSUME NEW w \in ReceiverWorkers, ReceiverWorker(w) PROVE ReceiverInv'
  <2>1. CASE DecodeFails(w)
    BY <2>1, WorkerKeepsOthers DEF DecodeFails
  <2>2. CASE HandOver(w)
    BY <2>2, WorkerKeepsOthers DEF HandOver
  <2>. QED
    BY <1>7, <2>1, <2>2, TakeKeeps, DecodedKeeps, LeavesKeeps DEF ReceiverWorker
<1>. QED
  BY <1>1, <1>2, <1>3, <1>4, <1>5, <1>6, <1>7, ReceiverFrame

-----------------------------------------------------------------------------
(* Run *)

\* A server that does not exist has no worker at work.
LEMMA NoServerNoWorker == ReceiverInv /\ http = "none" => WorkersGone
  BY DEF ReceiverInv, WorkersGone

LEMMA StartStep ==
    ASSUME IInv, Start
    PROVE  RunInv'
<1>. /\ SupervisorInv /\ ReceiverInv /\ RunInv
  BY DEF IInv
<1>. USE DEF RunInv, ServerInv, StageInv, SourceInv, LeaseInv, Untouched, FromPipeline,
             FromFlush, FromTitles, FromSource, FromForwarder, FromDatabase, FromFile,
             FromLease, Goto, parts, receiverVars, supervisorVars, runVars
<1>1. CASE AcquireLease
  BY <1>1 DEF AcquireLease
<1>2. CASE LeaseTaken
  BY <1>2 DEF LeaseTaken
<1>3. CASE StartFails
  BY <1>3 DEF StartFails
<1>4. CASE OpenStore
  BY <1>4 DEF OpenStore
<1>5. CASE StartPipeline
  BY <1>5 DEF StartPipeline, StartSupervisor
<1>6. CASE StartReceiver
  BY <1>6 DEF StartReceiver, Listen
<1>7. CASE ReceiverFails
  BY <1>7 DEF ReceiverFails, ListenFails
<1>8. CASE Announce
  BY <1>8 DEF Announce
<1>. QED
  BY <1>1, <1>2, <1>3, <1>4, <1>5, <1>6, <1>7, <1>8 DEF Start

LEMMA ShutdownStep ==
    ASSUME IInv, Loop \/ Shutdown
    PROVE  RunInv'
<1>. SupervisorInv /\ ReceiverInv /\ RunInv
  BY DEF IInv
<1>1. ASSUME UNCHANGED receiverVars, WorkersGone PROVE WorkersGone'
  BY <1>1 DEF WorkersGone, receiverVars
<1>. USE DEF RunInv, ServerInv, StageInv, SourceInv, LeaseInv, Untouched, FromPipeline,
             FromFlush, FromTitles, FromSource, FromForwarder, FromDatabase, FromFile,
             FromLease, Goto, parts, receiverVars, supervisorVars, runVars
<1>2. CASE LoopEnds
  BY <1>2 DEF LoopEnds
<1>3. CASE SupervisorReturned
  BY <1>3 DEF SupervisorReturned, TypeOK, SupervisorType, IInv
<1>4. CASE CancelContext
  BY <1>4, <1>1, NoServerNoWorker DEF CancelContext
<1>5. CASE BeginHTTPShutdown
  BY <1>5 DEF BeginHTTPShutdown, CloseListeners
<1>6. CASE CloseReceiver
  BY <1>6 DEF CloseReceiver, CloseQueue
<1>7. CASE ReceiverClosed
  BY <1>7, <1>1 DEF ReceiverClosed
<1>8. CASE NoPipeline
  BY <1>8, <1>1 DEF NoPipeline
<1>9. CASE SendLast
  BY <1>9, <1>1 DEF SendLast
<1>10. CASE PipelineClosed
  BY <1>10, <1>1 DEF PipelineClosed
<1>11. CASE PipelineLate
  BY <1>11, <1>1 DEF PipelineLate
<1>12. CASE TitlesClosed
  BY <1>12, <1>1 DEF TitlesClosed
<1>13. CASE NoSource
  BY <1>13, <1>1 DEF NoSource
<1>14. CASE TakeSourceResult
  BY <1>14, <1>1, ZenonT(60) DEF TakeSourceResult, IInv, TypeOK, SupervisorType
<1>15. CASE SourceLate
  BY <1>15, <1>1 DEF SourceLate
<1>16. CASE ShutForwarder
  BY <1>16, <1>1 DEF ShutForwarder
<1>17. CASE CloseDatabase
  BY <1>17, <1>1 DEF CloseDatabase
<1>18. CASE RemoveFile
  BY <1>18, <1>1 DEF RemoveFile
<1>19. CASE ReleaseLease
  BY <1>19, <1>1 DEF ReleaseLease, IInv, TypeOK
<1>. QED
  BY <1>2, <1>3, <1>4, <1>5, <1>6, <1>7, <1>8, <1>9, <1>10, <1>11, <1>12, <1>13, <1>14,
     <1>15, <1>16, <1>17, <1>18, <1>19 DEF Loop, Shutdown

\* The parts move under a Run that stands still.
LEMMA PartsStep ==
    ASSUME IInv, UNCHANGED pc,
           \/ \E b \in Bodies : ReceiverHandler(b)
           \/ \E w \in ReceiverWorkers : ReceiverWorker(w)
           \/ PipelineEnds \/ TitlesEnd \/ Signal \/ Rival
           \/ UNCHANGED vars
    PROVE  RunInv'
<1>. SupervisorInv /\ ReceiverInv /\ RunInv
  BY DEF IInv
<1>1. ASSUME UNCHANGED receiverVars PROVE WorkersGone' <=> WorkersGone
  BY <1>1 DEF WorkersGone, receiverVars
<1>. USE DEF RunInv, ServerInv, StageInv, SourceInv, LeaseInv, Untouched, parts,
             receiverVars, supervisorVars, runVars
<1>2. ASSUME NEW b \in Bodies, ReceiverHandler(b) PROVE RunInv'
  <2>1. UNCHANGED <<http, rclosed, rworker>>
    BY <1>2 DEF ReceiverHandler, Handler, Arrive, TurnAway, Accept, Drop
  <2>2. WorkersGone' <=> WorkersGone
    BY <2>1 DEF WorkersGone
  <2>. QED
    BY <1>2, <2>1, <2>2 DEF ReceiverHandler
<1>3. ASSUME NEW w \in ReceiverWorkers, ReceiverWorker(w) PROVE RunInv'
  <2>1. UNCHANGED <<http, rclosed>> /\ rworker[w].pc \notin {"none", "gone"}
    BY <1>3 DEF ReceiverWorker, TakeBody, DecodeFails, Decoded, HandOver, WorkerLeaves
  <2>2. ~WorkersGone
    BY <2>1 DEF WorkersGone
  <2>. QED
    BY <1>3, <2>1, <2>2 DEF ReceiverWorker
<1>4. CASE PipelineEnds
  BY <1>4, <1>1 DEF PipelineEnds
<1>5. CASE TitlesEnd
  BY <1>5, <1>1 DEF TitlesEnd
<1>6. CASE Signal
  BY <1>6, <1>1 DEF Signal
<1>7. CASE Rival
  BY <1>7, <1>1 DEF Rival, RivalEnters, RivalAnnounces, RivalLeaves
<1>8. CASE UNCHANGED vars
  BY <1>8, <1>1 DEF vars
<1>. QED
  BY <1>2, <1>3, <1>4, <1>5, <1>6, <1>7, <1>8

LEMMA SourceStep ==
    ASSUME IInv,
           \/ Supervisor \/ SupervisorTrouble
           \/ \E e \in 1..MaxEpochs : CodexWorker(e)
    PROVE  RunInv'
<1>. SupervisorInv /\ RunInv
  BY DEF IInv
<1>1. /\ UNCHANGED <<pc, cancelled, runVars, receiverVars>>
      /\ WorkersGone' <=> WorkersGone
  BY DEF Supervisor, SupervisorTrouble, CodexWorker, WorkersGone, receiverVars
<1>2. /\ sup' = "none" <=> sup = "none"
      /\ outcome \in {"nil", "error"} => outcome' = outcome
  BY DEF Supervisor, SupervisorTrouble, CodexWorker, Supervise, BeginEpoch, SeeCancelled,
         SeeEnd, CheckFails, Stopped, StopTimesOut, Reaped, ReapTimesOut, Restart, Degrade,
         BackoffEnds, LeaveIdle, BeginFails, WorkerEnds, Return, SupervisorInv
<1>. QED
  BY <1>1, <1>2 DEF RunInv, ServerInv, StageInv, SourceInv, LeaseInv, Untouched, runVars,
             receiverVars

LEMMA RunStep ==
    ASSUME IInv, [Next]_vars
    PROVE  RunInv'
<1>1. ASSUME NEW b \in Bodies, ReceiverHandler(b) PROVE UNCHANGED pc
  BY <1>1 DEF ReceiverHandler
<1>2. ASSUME NEW w \in ReceiverWorkers, ReceiverWorker(w) PROVE UNCHANGED pc
  BY <1>2 DEF ReceiverWorker
<1>3. ASSUME PipelineEnds \/ TitlesEnd \/ Signal \/ Rival PROVE UNCHANGED pc
  BY <1>3 DEF PipelineEnds, TitlesEnd, Signal, Rival, RivalEnters, RivalAnnounces,
              RivalLeaves
<1>4. UNCHANGED vars => UNCHANGED pc
  BY DEF vars
<1>. QED
  BY <1>1, <1>2, <1>3, <1>4, StartStep, ShutdownStep, PartsStep, SourceStep DEF Next

-----------------------------------------------------------------------------
(* Types *)

LEMMA SupervisorTypes ==
    ASSUME IInv, [Next]_vars, cancelled' \in BOOLEAN
    PROVE  SupervisorType'
<1>. SupervisorType
  BY DEF IInv, TypeOK
<1>1. CASE UNCHANGED supervisorVars
  BY <1>1 DEF SupervisorType, supervisorVars
<1>2. CASE StartPipeline
  BY <1>2 DEF StartPipeline, StartSupervisor, SupervisorType
<1>3. CASE BeginEpoch
  <2>1. epoch' \in 0..MaxEpochs /\ alive' \subseteq 1..epoch'
    BY <1>3, SupervisorAssumption DEF BeginEpoch, SupervisorType
  <2>. QED
    BY <1>3, <2>1 DEF BeginEpoch, SupervisorType
<1>4. CASE SeeCancelled \/ SeeEnd \/ CheckFails
  BY <1>4 DEF SeeCancelled, SeeEnd, CheckFails, Return, SupervisorType
<1>5. CASE Stopped \/ StopTimesOut \/ Reaped \/ ReapTimesOut
  BY <1>5 DEF Stopped, StopTimesOut, Reaped, ReapTimesOut, Return, SetStatus, SupervisorType
<1>6. ASSUME NEW kept \in 0..restarts, Restart(kept) \/ Degrade(kept)
      PROVE  SupervisorType'
  <2>1. restarts' \in 0..MaxRestarts
    <3>1. restarts \in 0..MaxRestarts
      BY DEF SupervisorType
    <3>2. (kept < MaxRestarts /\ restarts' = kept + 1) \/ restarts' = kept
      BY <1>6 DEF Restart, Degrade
    <3>. QED
      BY <3>1, <3>2, SupervisorAssumption
  <2>. QED
    BY <1>6, <2>1 DEF Restart, Degrade, SetStatus, SupervisorType
<1>7. CASE BackoffEnds \/ LeaveIdle \/ BeginFails
  BY <1>7 DEF BackoffEnds, LeaveIdle, BeginFails, Return, SupervisorType
<1>8. ASSUME NEW e \in alive, WorkerEnds(e) PROVE SupervisorType'
  BY <1>8 DEF WorkerEnds, SupervisorType
<1>. QED
  BY <1>1, <1>2, <1>3, <1>4, <1>5, <1>6, <1>7, <1>8, SupervisorFrame
  DEF Supervisor, SupervisorTrouble, Supervise, CodexWorker

LEMMA ReceiverTypes ==
    ASSUME IInv, [Next]_vars
    PROVE  ReceiverType'
<1>. ReceiverType /\ ReceiverInv
  BY DEF IInv, TypeOK
<1>1. CASE UNCHANGED receiverVars
  BY <1>1 DEF ReceiverType, receiverVars
<1>2. CASE StartReceiver \/ ReceiverFails
  <2>1. \E place \in {"idle", "gone"} :
          rworker' = [w \in ReceiverWorkers |-> At(place, NoBody)]
    BY <1>2 DEF StartReceiver, ReceiverFails, Listen, ListenFails
  <2>2. rworker' \in [ReceiverWorkers -> [pc : {"none", "idle", "decoding", "consuming", "gone"},
                                         body : Bodies \cup {NoBody}]]
    BY <2>1 DEF At
  <2>. QED
    BY <1>2, <2>2 DEF StartReceiver, ReceiverFails, Listen, ListenFails, ReceiverType
<1>3. CASE BeginHTTPShutdown \/ CloseReceiver
  BY <1>3 DEF BeginHTTPShutdown, CloseReceiver, CloseListeners, CloseQueue, ReceiverType
<1>4. ASSUME NEW b \in Bodies, Handler(b) PROVE ReceiverType'
  <2>1. rqueue' \in Seq(Bodies)
    <3>1. rqueue \in Seq(Bodies) /\ (rqueue' = rqueue \/ rqueue' = Append(rqueue, b))
      BY <1>4 DEF Handler, Arrive, TurnAway, Accept, Drop, ReceiverType
    <3>. QED
      BY <3>1
  <2>2. request' \in [Bodies -> Fates]
    BY <1>4 DEF Handler, Arrive, TurnAway, Accept, Drop, ReceiverType, Fates
  <2>. QED
    BY <1>4, <2>1, <2>2 DEF Handler, Arrive, TurnAway, Accept, Drop, ReceiverType
<1>5. ASSUME NEW w \in ReceiverWorkers, ReceiverWorker(w) PROVE ReceiverType'
  <2>1. CASE TakeBody(w)
    <3>1. rqueue \in Seq(Bodies) /\ rqueue # <<>>
      BY <2>1 DEF TakeBody, ReceiverType
    <3>2. Head(rqueue) \in Bodies /\ Tail(rqueue) \in Seq(Bodies)
      BY <3>1
    <3>. QED
      BY <2>1, <3>2 DEF TakeBody, At, ReceiverType
  <2>2. CASE DecodeFails(w) \/ HandOver(w)
    <3>1. request' \in [Bodies -> Fates]
      BY <2>2 DEF DecodeFails, HandOver, ReceiverType, Fates
    <3>2. rworker' \in [ReceiverWorkers ->
                          [pc : {"none", "idle", "decoding", "consuming", "gone"},
                           body : Bodies \cup {NoBody}]]
      <4>1. At("idle", NoBody) \in [pc : {"none", "idle", "decoding", "consuming", "gone"},
                                   body : Bodies \cup {NoBody}]
        BY DEF At
      <4>. QED
        BY <2>2, <4>1 DEF DecodeFails, HandOver, ReceiverType
    <3>. QED
      BY <2>2, <3>1, <3>2 DEF DecodeFails, HandOver, ReceiverType
  <2>3. CASE Decoded(w)
    BY <2>3 DEF Decoded, ReceiverType
  <2>4. CASE WorkerLeaves(w)
    BY <2>4 DEF WorkerLeaves, At, ReceiverType
  <2>. QED
    BY <1>5, <2>1, <2>2, <2>3, <2>4 DEF ReceiverWorker
<1>. QED
  BY <1>1, <1>2, <1>3, <1>4, <1>5, ReceiverFrame DEF ReceiverHandler

\* The variables of Run itself.
RunType ==
    /\ cancelled \in BOOLEAN
    /\ pc \in {"acquire", "recheck", "forwarder", "listen", "announce", "loop",
               "cancel", "http", "handlers", "workers", "pipeline", "flush", "titles",
               "source", "forwarder shutdown", "database", "file", "lease", "exited"}
    /\ lease \in {"free", "mine", "theirs"}
    /\ file \in {"none", "mine", "theirs"}
    /\ db \in {"none", "open", "closed"}
    /\ titles \in {"none", "running", "gone"}
    /\ fwd \in {"none", "running", "shut"}
    /\ pipe \in {"none", "running", "draining", "done"}
    /\ flushed \in BOOLEAN
    /\ sourceDone \in BOOLEAN
    /\ sourceErr \in {"none", "error", "unresponsive"}

LEMMA RunTypes ==
    ASSUME TypeOK, [Next]_vars
    PROVE  RunType'
<1>. RunType /\ outcome \in {"none", "nil", "error", "unresponsive"}
  BY DEF TypeOK, SupervisorType, RunType
<1>. USE DEF RunType, Goto, runVars, parts
<1>1. CASE Start
  BY <1>1 DEF Start, AcquireLease, LeaseTaken, StartFails, OpenStore, StartPipeline,
              StartReceiver, ReceiverFails, Announce
<1>2. CASE LoopEnds \/ CancelContext \/ BeginHTTPShutdown \/ CloseReceiver
           \/ ReceiverClosed \/ NoPipeline \/ SendLast \/ PipelineClosed \/ PipelineLate
  BY <1>2 DEF LoopEnds, CancelContext, BeginHTTPShutdown, CloseReceiver, ReceiverClosed,
              NoPipeline, SendLast, PipelineClosed, PipelineLate
<1>3. CASE SupervisorReturned \/ TakeSourceResult \/ SourceLate
  BY <1>3 DEF SupervisorReturned, TakeSourceResult, SourceLate
<1>4. CASE TitlesClosed \/ NoSource \/ ShutForwarder \/ CloseDatabase \/ RemoveFile
           \/ ReleaseLease
  BY <1>4 DEF TitlesClosed, NoSource, ShutForwarder, CloseDatabase, RemoveFile,
              ReleaseLease
<1>5. CASE Signal \/ PipelineEnds \/ TitlesEnd \/ Rival
  BY <1>5 DEF Signal, PipelineEnds, TitlesEnd, Rival, RivalEnters, RivalAnnounces,
              RivalLeaves
<1>6. ASSUME UNCHANGED <<pc, cancelled, runVars>> PROVE RunType'
  <2>1. /\ pc' = pc /\ cancelled' = cancelled /\ lease' = lease /\ file' = file
        /\ db' = db /\ titles' = titles /\ fwd' = fwd /\ pipe' = pipe
        /\ flushed' = flushed /\ sourceDone' = sourceDone /\ sourceErr' = sourceErr
    BY <1>6
  <2>2. cancelled' \in BOOLEAN /\ flushed' \in BOOLEAN /\ sourceDone' \in BOOLEAN
    BY <2>1
  <2>3. /\ lease' \in {"free", "mine", "theirs"}
        /\ file' \in {"none", "mine", "theirs"}
        /\ db' \in {"none", "open", "closed"}
        /\ titles' \in {"none", "running", "gone"}
        /\ fwd' \in {"none", "running", "shut"}
        /\ pipe' \in {"none", "running", "draining", "done"}
        /\ sourceErr' \in {"none", "error", "unresponsive"}
    BY <2>1, ZenonT(60)
  <2>4. pc' = pc
    BY <2>1
  <2>. QED
    BY <2>2, <2>3, <2>4
<1>7. \/ \E b \in Bodies : ReceiverHandler(b)
      \/ \E w \in ReceiverWorkers : ReceiverWorker(w)
      \/ \E e \in 1..MaxEpochs : CodexWorker(e)
      \/ Supervisor \/ SupervisorTrouble \/ UNCHANGED vars
      => UNCHANGED <<pc, cancelled, runVars>>
  BY DEF ReceiverHandler, ReceiverWorker, CodexWorker, Supervisor, SupervisorTrouble, vars
<1>. QED
  BY <1>1, <1>2, <1>3, <1>4, <1>5, <1>6, <1>7 DEF Next, Loop, Shutdown

LEMMA TypeStep ==
    ASSUME IInv, [Next]_vars
    PROVE  TypeOK'
<1>1. RunType'
  BY RunTypes DEF IInv
<1>2. SupervisorType'
  BY <1>1, SupervisorTypes DEF RunType
<1>. QED
  BY <1>1, <1>2, ReceiverTypes DEF TypeOK, RunType

-----------------------------------------------------------------------------
(* The theorems *)

LEMMA Invariant == Spec => []IInv
<1>1. IInv /\ [Next]_vars => IInv'
  BY TypeStep, SupervisorStep, ReceiverStep, RunStep DEF IInv
<1>. QED
  BY <1>1, Initially, PTL DEF Spec

\* Every variable of the daemon and its two parts keeps its type: in particular
\* the restarts of the Codex worker stay within their budget.
THEOREM TypeCorrect == Spec => []TypeOK
<1>1. IInv => TypeOK
  BY DEF IInv
<1>. QED
  BY <1>1, Invariant, PTL

\* There is at most one Codex worker, however often workers fail, panic or hang.
THEOREM SingleWorker == Spec => []OneWorker
  BY AtMostOne, Invariant, PTL

\* No accepted body is left in the receiver when the pipeline gets its last
\* command or the forwarder is shut.
THEOREM ReceiverDrains == Spec => []AcceptedPassesReceiver
  BY PassedReceiver, Invariant, PTL

\* The database and the lease outlive everybody who needs them.
THEOREM ResourcesOutlive == Spec => []NobodyLeftBehind
  BY LeftBehind, Invariant, PTL

\* Both together, the order of the shutdown.
THEOREM ShutdownInOrder == Spec => []OrderlyShutdown
  BY PassedReceiver, LeftBehind, Invariant, PTL DEF OrderlyShutdown

-----------------------------------------------------------------------------
(* The Home screen *)

\* The store, and what a query sees, stays whole.
LEMMA HomeBegins == HomeInit => HomeInv
<1>. SUFFICES ASSUME HomeInit PROVE HomeInv  OBVIOUS
<1>1. sessions \in [Session -> HomeRow \cup {NoSession}]  BY DEF HomeInit, StoredSessions
<1>2. calls \in SUBSET LLMCall /\ \A c \in calls : sessions[c.session] # NoSession  BY DEF HomeInit
<1>3. IsFiniteSet(calls)  BY DEF HomeInit
<1>4. WholeDb(Db)  BY <1>1, <1>2, <1>3 DEF WholeDb, Db, Database
<1>5. surface \in {"snapshot", "breakdown"} /\ saw = <<>>  BY DEF HomeInit
<1>6. surface \in DOMAIN Queries  BY <1>5 DEF Queries
<1>7. Len(Queries[surface]) \in Nat  BY <1>5 DEF Queries
<1>. QED  BY <1>4, <1>5, <1>6, <1>7 DEF HomeInv

\* There are two ways to read the screen, each with a number of queries.
LEMMA QueryNumbers ==
    ASSUME NEW s \in DOMAIN Queries
    PROVE  s \in {"snapshot", "breakdown"} /\ Len(Queries[s]) \in Nat
BY DEF Queries

\* A call is that of a session, at a time, and may have been made by it.
LEMMA CallIs ==
    ASSUME NEW c \in LLMCall
    PROVE  /\ c.session \in Session /\ c.at \in Int /\ c.usage \in Usages[c.session]
           /\ VendorOf[c.session] \in Range(Vendor)
BY HomeAssumption DEF LLMCall

\* A write leaves a whole store behind.
LEMMA WritesKeepHome ==
    ASSUME HomeInv, Write, WholeDb(Db)' PROVE HomeInv'
<1>1. UNCHANGED <<surface, saw>>  BY DEF Write
<1>. QED  BY <1>1 DEF HomeInv

\* Storing, ending or judging a session leaves every call with its session.
LEMMA StoreKeepsHome ==
    ASSUME HomeInv, NEW s \in Session, StoreSession(s) \/ EndSession(s) \/ JudgeTurn(s) PROVE HomeInv'
<1>1. WholeDb(Db)  BY DEF HomeInv
<1>2. sessions \in [Session -> HomeRow \cup {NoSession}] /\ calls \in SUBSET LLMCall /\ IsFiniteSet(calls)
  BY <1>1 DEF WholeDb, Db, Database
<1>3. \A c \in calls : sessions[c.session] # NoSession  BY <1>1 DEF WholeDb, Db
<1>0. \A r \in HomeRow : r # NoSession
  <2>1. \A r \in HomeRow : r.label \in Judged /\ r.ended \in BOOLEAN /\ r.start \in Starts  BY DEF HomeRow
  <2>. QED  BY <2>1, HomeAssumption DEF NoSession
<1>4. \E r \in HomeRow : sessions' = [sessions EXCEPT ![s] = r]
  <2>1. CASE StoreSession(s)
    <3>1. PICK t \in Starts :
            sessions' = [sessions EXCEPT ![s] =
               [start |-> IF sessions[s] = NoSession \/ t < sessions[s].start THEN t ELSE sessions[s].start,
                ended |-> FALSE, label |-> sessions[s].label]]
      BY <2>1 DEF StoreSession
    <3>2. sessions[s] \in HomeRow \/ sessions[s] = NoSession  BY <1>2
    <3>3. sessions[s].label \in Judged
      BY <3>2 DEF HomeRow, NoSession, Judged
    <3>4. (IF sessions[s] = NoSession \/ t < sessions[s].start THEN t ELSE sessions[s].start) \in Starts
      BY <3>2 DEF HomeRow
    <3>. QED  BY <3>1, <3>3, <3>4 DEF HomeRow
  <2>2. CASE EndSession(s)
    <3>1. sessions[s] \in HomeRow  BY <1>2, <2>2 DEF EndSession
    <3>2. [sessions[s] EXCEPT !.ended = TRUE] \in HomeRow  BY <3>1 DEF HomeRow
    <3>. QED  BY <2>2, <3>2 DEF EndSession
  <2>3. CASE JudgeTurn(s)
    <3>1. PICK l \in Judged : sessions' = [sessions EXCEPT ![s].label = l]  BY <2>3 DEF JudgeTurn
    <3>2. sessions[s] \in HomeRow  BY <1>2, <2>3 DEF JudgeTurn
    <3>3. [sessions[s] EXCEPT !.label = l] \in HomeRow  BY <3>2 DEF HomeRow
    <3>. QED  BY <3>1, <3>3
  <2>. QED  BY <2>1, <2>2, <2>3
<1>5. PICK r \in HomeRow : sessions' = [sessions EXCEPT ![s] = r]  BY <1>4
<1>6. sessions' \in [Session -> HomeRow \cup {NoSession}]  BY <1>2, <1>5
<1>7. \A t \in Session : sessions[t] # NoSession => sessions'[t] # NoSession
  BY <1>0, <1>2, <1>5
<1>8. calls' = calls /\ Write  BY DEF StoreSession, EndSession, JudgeTurn
<1>9. \A c \in calls : sessions'[c.session] # NoSession  BY <1>2, <1>3, <1>7, CallIs
<1>10. WholeDb(Db)'  BY <1>2, <1>6, <1>8, <1>9 DEF WholeDb, Db, Database
<1>. QED  BY <1>8, <1>10, WritesKeepHome

\* A call is stored for a session that is there.
LEMMA CallKeepsHome == ASSUME HomeInv, NEW s \in Session, StoreCall(s) PROVE HomeInv'
<1>1. WholeDb(Db)  BY DEF HomeInv
<1>2. PICK t \in CallTimes, u \in Usages[s] : calls' = calls \cup {NewCall(s, t, u)}
  BY DEF StoreCall
<1>3. NewCall(s, t, u) \in LLMCall
  <2>1. u \in UNION Range(Usages)  BY HomeAssumption DEF Range
  <2>. QED  BY <2>1 DEF NewCall, LLMCall
<1>4. IsFiniteSet(calls')  BY <1>1, <1>2, FS_AddElement DEF WholeDb, Db
<1>5. sessions' = sessions /\ sessions[s] # NoSession /\ Write  BY DEF StoreCall
<1>6. NewCall(s, t, u).session = s  BY DEF NewCall
<1>7. WholeDb(Db)'  BY <1>1, <1>2, <1>3, <1>4, <1>5, <1>6 DEF WholeDb, Db, Database
<1>. QED  BY <1>5, <1>7, WritesKeepHome

\* A session is pruned with its calls.
LEMMA PruningKeepsHome == ASSUME HomeInv, NEW s \in Session, PruneSession(s) PROVE HomeInv'
<1>1. WholeDb(Db)  BY DEF HomeInv
<1>2. sessions' = [sessions EXCEPT ![s] = NoSession] /\ calls' = {c \in calls : c.session # s} /\ Write
  BY DEF PruneSession
<1>3. IsFiniteSet(calls') /\ calls' \subseteq calls  BY <1>1, <1>2, FS_Subset DEF WholeDb, Db
<1>4. \A c \in calls' : sessions'[c.session] # NoSession
  BY <1>1, <1>2, CallIs DEF WholeDb, Db, Database
<1>5. WholeDb(Db)'  BY <1>1, <1>2, <1>3, <1>4 DEF WholeDb, Db, Database
<1>. QED  BY <1>2, <1>5, WritesKeepHome

\* What a query sees is the store, or what the first one saw.
LEMMA ReadingKeepsHome == ASSUME HomeInv, ReadQuery PROVE HomeInv'
<1>1. WholeDb(Db) /\ WholeDb(Visible)
  <2>1. WholeDb(Db) /\ \A i \in 1..Len(saw) : WholeDb(saw[i])  BY DEF HomeInv
  <2>2. saw # <<>> => 1 \in 1..Len(saw)  BY DEF HomeInv
  <2>. QED  BY <2>1, <2>2 DEF Visible
<1>2. Visible \in Database  BY <1>1 DEF WholeDb
<1>3. PICK d \in Database : d = Visible  BY <1>2
<1>4. saw \in Seq(Database) /\ saw' = Append(saw, d) /\ UNCHANGED <<sessions, calls, writes, surface>>
  BY <1>3 DEF ReadQuery, HomeInv
<1>5. /\ saw' \in Seq(Database) /\ Len(saw') = Len(saw) + 1 /\ saw'[Len(saw) + 1] = d
      /\ \A i \in 1..Len(saw) : saw'[i] = saw[i]
  BY <1>4
<1>6. Len(saw') <= Len(Queries[surface])
  <2>1. Len(Queries[surface]) \in Nat /\ Len(saw) \in Nat /\ Len(saw) <= Len(Queries[surface])
    BY <1>4, QueryNumbers DEF HomeInv
  <2>2. Len(saw) # Len(Queries[surface])  BY DEF ReadQuery, Answered
  <2>. QED  BY <1>5, <2>1, <2>2
<1>7. \A i \in 1..Len(saw') : WholeDb(saw'[i])
  <2>1. \A i \in 1..Len(saw) : WholeDb(saw[i])  BY DEF HomeInv
  <2>2. \A i \in 1..Len(saw') : i \in 1..Len(saw) \/ i = Len(saw) + 1  BY <1>4, <1>5
  <2>. QED  BY <1>1, <1>3, <1>5, <2>1, <2>2
<1>8. surface = "snapshot" => \A i \in 1..Len(saw') : saw'[i] = saw'[1]
  <2>. SUFFICES ASSUME surface = "snapshot" PROVE \A i \in 1..Len(saw') : saw'[i] = saw'[1]  OBVIOUS
  <2>1. \A i \in 1..Len(saw) : saw[i] = saw[1]  BY DEF HomeInv
  <2>2. saw # <<>> => d = saw[1]  BY <1>3 DEF Visible
  <2>3. CASE saw = <<>>  BY <1>5, <2>3
  <2>4. CASE saw # <<>>
    <3>1. 1 \in 1..Len(saw)  BY <1>4, <2>4
    <3>2. \A i \in 1..Len(saw') : i \in 1..Len(saw) \/ i = Len(saw) + 1  BY <1>4, <1>5
    <3>. QED  BY <1>5, <2>1, <2>2, <2>4, <3>1, <3>2
  <2>. QED  BY <2>3, <2>4
<1>9. surface' = surface /\ surface \in DOMAIN Queries /\ Db' = Db  BY <1>4 DEF HomeInv, Db
<1>10. WholeDb(Db)'  BY <1>1, <1>9 DEF WholeDb
<1>11. \A i \in 1..Len(saw') : WholeDb(saw[i])'  BY <1>7 DEF WholeDb
<1>. QED  BY <1>5, <1>6, <1>8, <1>9, <1>10, <1>11 DEF HomeInv

\* A database has no call without its session (llm_calls refers to sessions), and in one
\* transaction all queries see one and the same.
THEOREM HomeStaysWhole == HomeSpec => []HomeInv
<1>1. HomeInv /\ [HomeNext]_homeVars => HomeInv'
  <2>. SUFFICES ASSUME HomeInv, [HomeNext]_homeVars PROVE HomeInv'  OBVIOUS
  <2>1. CASE ReadQuery  BY <2>1, ReadingKeepsHome
  <2>2. ASSUME NEW s \in Session, StoreSession(s) \/ EndSession(s) \/ JudgeTurn(s) PROVE HomeInv'
    BY <2>2, StoreKeepsHome
  <2>3. ASSUME NEW s \in Session, StoreCall(s) PROVE HomeInv'  BY <2>3, CallKeepsHome
  <2>4. ASSUME NEW s \in Session, PruneSession(s) PROVE HomeInv'  BY <2>4, PruningKeepsHome
  <2>5. CASE UNCHANGED homeVars
    <3>1. UNCHANGED <<sessions, calls, surface, saw>>  BY <2>5 DEF homeVars
    <3>2. Db' = Db  BY <3>1 DEF Db
    <3>3. WholeDb(Db)'  BY <3>2 DEF HomeInv, WholeDb
    <3>4. \A i \in 1..Len(saw') : WholeDb(saw[i])'  BY <3>1 DEF HomeInv, WholeDb
    <3>. QED  BY <3>1, <3>3, <3>4 DEF HomeInv
  <2>. QED  BY <2>1, <2>2, <2>3, <2>4, <2>5 DEF HomeNext
<1>. QED  BY <1>1, HomeBegins, PTL DEF HomeSpec

-----------------------------------------------------------------------------
(* Prices *)

\* What may be missing counts as nothing.
LEMMA MissableIs ==
    ASSUME NEW S \in SUBSET Int, NEW o \in Missable(S)
    PROVE  /\ Or0(o) \in Int /\ Positive(o) \in Nat
           /\ S = Nat => Or0(o) \in Nat
<1>1. o \in Seq(S) /\ Len(o) <= 1  BY DEF Missable
<1>2. o # <<>> => o[1] \in S  BY <1>1
<1>3. Or0(o) \in Int /\ (S = Nat => Or0(o) \in Nat)
  <2>1. CASE o = <<>>  BY <2>1 DEF Or0
  <2>2. CASE o # <<>>
    <3>1. PICK n \in S : Or0(o) = n  BY <1>2, <2>2 DEF Or0
    <3>. QED  BY <3>1
  <2>. QED  BY <2>1, <2>2
<1>. QED  BY <1>3 DEF Positive

\* What a call used and what it cost are natural numbers, whatever is missing.
LEMMA FiguresAre ==
    ASSUME NEW s \in Session, NEW u \in Usages[s]
    PROVE  Tokens(u) \in Nat /\ Estimate(u).nano \in Nat
<1>1. /\ u.input \in Missable(Nat) /\ u.output \in Missable(Nat)
      /\ u.read \in Missable(Nat) /\ u.write \in Missable(Nat) /\ u.reported \in Missable(Int)
  BY HomeAssumption
<1>2. Or0(u.input) \in Nat /\ Or0(u.output) \in Nat /\ Or0(u.reported) \in Int  BY <1>1, MissableIs
<1>3. Tokens(u) \in Nat
  <2>1. \A m, n \in Nat : m + n \in Nat  OBVIOUS
  <2>. QED  BY <1>2, <2>1 DEF Tokens
<1>4. ASSUME u.model \in DOMAIN Rates, ~RateMissing(u, Rates[u.model])
      PROVE  SumFunction([f \in TokenFields |-> Positive(u[f]) * Rates[u.model][f]]) \in Nat
  <2>. DEFINE F == [f \in TokenFields |-> Positive(u[f]) * Rates[u.model][f]]
  <2>1. \A f \in TokenFields : Positive(u[f]) \in Nat /\ Rates[u.model][f] \in Int
    <3>1. Positive(u.input) \in Nat /\ Positive(u.output) \in Nat
          /\ Positive(u.read) \in Nat /\ Positive(u.write) \in Nat
      BY <1>1, MissableIs
    <3>2. /\ Rates[u.model].input \in Int /\ Rates[u.model].output \in Int
          /\ Rates[u.model].read \in Int /\ Rates[u.model].write \in Int
      BY <1>4, HomeAssumption
    <3>. QED  BY <3>1, <3>2 DEF TokenFields
  <2>2. \A f \in TokenFields : Positive(u[f]) > 0 => Rates[u.model][f] > 0
    BY <1>4, <2>1 DEF RateMissing
  <2>3. \A f \in TokenFields : F[f] \in Nat
    <3>1. \A m \in Nat, n \in Int : (m > 0 => n > 0) => m * n \in Nat
      <4>1. \A m, n \in Nat : m * n \in Nat  OBVIOUS
      <4>2. \A n \in Int : 0 * n = 0  OBVIOUS
      <4>. SUFFICES ASSUME NEW m \in Nat, NEW n \in Int, m > 0 => n > 0 PROVE m * n \in Nat  OBVIOUS
      <4>3. CASE m = 0  BY <4>2, <4>3
      <4>4. CASE m > 0
        <5>1. n \in Nat  BY <4>4
        <5>. QED  BY <4>1, <5>1
      <4>. QED  BY <4>3, <4>4
    <3>. QED  BY <2>1, <2>2, <3>1
  <2>4. IsFiniteSet(TokenFields)
    <3>1. IsFiniteSet({}) /\ IsFiniteSet({} \cup {"input"}) /\ IsFiniteSet({} \cup {"input"} \cup {"output"})
          /\ IsFiniteSet({} \cup {"input"} \cup {"output"} \cup {"read"})
          /\ IsFiniteSet({} \cup {"input"} \cup {"output"} \cup {"read"} \cup {"write"})
      BY FS_EmptySet, FS_AddElement
    <3>2. {} \cup {"input"} \cup {"output"} \cup {"read"} \cup {"write"} = TokenFields  BY DEF TokenFields
    <3>. QED  BY <3>1, <3>2
  <2>5. SumOver(F, TokenFields) \in Nat  BY <2>3, <2>4, SumOfNaturals
  <2>6. F \in [TokenFields -> Int]  BY <2>3
  <2>. QED  BY <2>5, <2>6, SumOfFunction
<1>5. Estimate(u).nano \in Nat
  <2>1. CASE u.reported # <<>> /\ Or0(u.reported) >= 0  BY <1>2, <2>1 DEF Estimate
  <2>2. CASE ~(u.reported # <<>> /\ Or0(u.reported) >= 0)
    <3>1. Unavailable.nano \in Nat  BY DEF Unavailable
    <3>. QED  BY <1>4, <2>2, <3>1 DEF Estimate
  <2>. QED  BY <2>1, <2>2
<1>. QED  BY <1>3, <1>5

\* The tokens and the costs of some calls, as one sum.
TokensOfCall == [c \in LLMCall |-> Tokens(c.usage)]
CostOfCall == [c \in LLMCall |-> Estimate(c.usage).nano]
Priced(S) == {c \in S : Countable(c.usage)}

\* The figures of a call are natural numbers.
LEMMA CallFigures ==
    ASSUME NEW c \in LLMCall PROVE TokensOfCall[c] \in Nat /\ CostOfCall[c] \in Nat
BY CallIs, FiguresAre DEF TokensOfCall, CostOfCall

\* The totals of a set of calls are sums over a part of all calls.
LEMMA SumsAre ==
    ASSUME NEW S \in SUBSET LLMCall
    PROVE  /\ TokensOf(S) = SumOver(TokensOfCall, S)
           /\ CostOf(S) = SumOver(CostOfCall, Priced(S))
<1>1. [c \in S |-> Tokens(c.usage)] = [c \in S |-> TokensOfCall[c]]  BY DEF TokensOfCall
<1>2. [c \in Priced(S) |-> Estimate(c.usage).nano] = [c \in Priced(S) |-> CostOfCall[c]]
  BY DEF CostOfCall, Priced
<1>3. CostOf(S) = SumFunction([c \in Priced(S) |-> Estimate(c.usage).nano])  BY DEF CostOf, Priced
<1>. QED  BY <1>1, <1>2, <1>3 DEF TokensOf, SumOver

-----------------------------------------------------------------------------
(* Sums along two ways *)

\* The cells of a table, whose rows and columns g and h give; their sums; the
\* sums of its columns.
Cells(S, g, K, h, L, C) ==
    \A l \in L, k \in K : \A x : x \in C[l][k] <=> x \in S /\ g[x] = k /\ h[x] = l
CellSums(F, C, D, K, L) == \A l \in L, k \in K : D[l][k] = SumOver(F, C[l][k])
ColumnSums(D, W, K, L) == \A l \in L : W[l] = SumOver(D[l], K)

\* The columns have the sum of the elements.
LEMMA SumByCells ==
    ASSUME NEW S, IsFiniteSet(S), NEW F, \A x \in S : F[x] \in Nat,
           NEW K, IsFiniteSet(K), NEW g, \A x \in S : g[x] \in K,
           NEW L, IsFiniteSet(L), NEW h, \A x \in S : h[x] \in L,
           NEW C, Cells(S, g, K, h, L, C), NEW D, CellSums(F, C, D, K, L),
           NEW W, ColumnSums(D, W, K, L)
    PROVE  SumOver(F, S) = SumOver(W, L) /\ \A l \in L : W[l] \in Nat
<1>. DEFINE Column == [l \in L |-> {x \in S : h[x] = l}]
<1>1. \A x \in S : F[x] \in Int  OBVIOUS
<1>2. ASSUME NEW l \in L PROVE W[l] = SumOver(F, Column[l]) /\ W[l] \in Nat
  <2>1. PICK T \in SUBSET S : T = Column[l]  OBVIOUS
  <2>2. IsFiniteSet(T) /\ (\A x \in T : F[x] \in Int) /\ \A x \in T : g[x] \in K  BY <1>1, FS_Subset
  <2>3. PICK G : G = C[l]  OBVIOUS
  <2>4. PICK E : E = D[l]  OBVIOUS
  <2>5. \A k \in K : \A x : x \in G[k] <=> x \in T /\ g[x] = k  BY <2>1, <2>3 DEF Cells
  <2>6. \A k \in K : E[k] = SumOver(F, G[k])  BY <2>3, <2>4 DEF CellSums
  <2>7. SumOver(F, T) = SumOver(E, K)  BY ONLY <2>2, <2>5, <2>6, IsFiniteSet(K), SumByGroups
  <2>8. \A x \in T : F[x] \in Nat  OBVIOUS
  <2>9. SumOver(F, T) \in Nat  BY ONLY <2>2, <2>8, SumOfNaturals
  <2>. QED  BY <2>1, <2>4, <2>7, <2>9 DEF ColumnSums
<1>3. PICK G : G = Column  OBVIOUS
<1>4. \A l \in L : \A x : x \in G[l] <=> x \in S /\ h[x] = l  BY <1>3
<1>5. \A l \in L : W[l] = SumOver(F, G[l])  BY <1>2, <1>3
<1>6. SumOver(F, S) = SumOver(W, L)  BY ONLY <1>1, <1>4, <1>5, IsFiniteSet(S), IsFiniteSet(L), \A x \in S : h[x] \in L, SumByGroups
<1>. QED  BY <1>2, <1>6

-----------------------------------------------------------------------------
(* What an answer is made from *)

UsageQueries == {"calls", "prompts", "starts", "costs"}

\* Every query saw a whole database, and in one transaction the same.
LEMMA SawWhole ==
    ASSUME HomeInv, Answered
    PROVE  /\ \A q \in UsageQueries : WholeDb(Saw(q))
           /\ surface = "snapshot" => \E d : /\ WholeDb(d)
                                             /\ \A q \in Range(Queries["snapshot"]) : Saw(q) = d
<1>1. \A i \in 1..Len(saw) : WholeDb(saw[i])  BY DEF HomeInv
<1>2. Len(saw) = Len(Queries[surface]) /\ surface \in {"snapshot", "breakdown"}
  BY QueryNumbers DEF HomeInv, Answered
<1>3. \A q \in UsageQueries : \E i \in 1..Len(saw) : Queries[surface][i] = q
  <2>0. Len(saw) \in {4, 10}
    <3>1. Len(Queries["snapshot"]) = 10 /\ Len(Queries["breakdown"]) = 4  BY DEF Queries
    <3>. QED  BY <1>2, <3>1
  <2>1. 1 \in 1..Len(saw) /\ 2 \in 1..Len(saw) /\ 3 \in 1..Len(saw) /\ 4 \in 1..Len(saw)
    BY ONLY <2>0
  <2>2. /\ Queries[surface][1] = "calls" /\ Queries[surface][2] = "prompts"
        /\ Queries[surface][3] = "starts" /\ Queries[surface][4] = "costs"
    BY <1>2 DEF Queries
  <2>. QED  BY <2>1, <2>2 DEF UsageQueries
<1>4. \A q : (\E i \in 1..Len(saw) : Queries[surface][i] = q) => \E i \in 1..Len(saw) : Saw(q) = saw[i]
  BY DEF Saw
<1>5. ASSUME surface = "snapshot"
      PROVE  \E d : WholeDb(d) /\ \A q \in Range(Queries["snapshot"]) : Saw(q) = d
  <2>1. \A i \in 1..Len(saw) : saw[i] = saw[1]  BY <1>5 DEF HomeInv
  <2>2. DOMAIN Queries["snapshot"] = 1..Len(saw) /\ 1 \in 1..Len(saw)  BY <1>2, <1>5 DEF Queries
  <2>3. \A q \in Range(Queries["snapshot"]) : \E i \in 1..Len(saw) : Queries[surface][i] = q
    BY <1>5, <2>2 DEF Range
  <2>4. \A q \in Range(Queries["snapshot"]) : Saw(q) = saw[1]  BY <1>4, <2>1, <2>3
  <2>. QED  BY <1>1, <2>2, <2>4
<1>. QED  BY <1>1, <1>3, <1>4, <1>5

\* A time is in one of the windows.
LEMMA WindowIs == ASSUME NEW t \in Int PROVE WindowOf(t) \in 1..NWindows
<1>1. NWindows \in Nat /\ NWindows > 0 /\ NWindows + 1 \in 1..Len(Boundary) /\ Boundary \in Seq(Int)
  BY HomeAssumption DEF NWindows
<1>2. CASE t >= Boundary[NWindows + 1]  BY <1>1, <1>2 DEF WindowOf
<1>3. CASE ~(t >= Boundary[NWindows + 1])
  <2>. DEFINE ends == {i \in 1..NWindows : Boundary[i + 1] > t}
  <2>1. Boundary[NWindows + 1] \in Int  BY <1>1
  <2>2. NWindows \in ends  BY <1>1, <1>3, <2>1
  <2>3. ends \in SUBSET Nat /\ ends # {}  BY <2>2
  <2>4. Min(ends) \in ends  BY <2>3, MinOfNaturals
  <2>. QED  BY <1>3, <2>4 DEF WindowOf
<1>. QED  BY <1>2, <1>3

\* There are two vendors.
LEMMA VendorsAre ==
    /\ Range(Vendor) = {"claude_code", "codex"} /\ IsFiniteSet(Range(Vendor))
    /\ IsFiniteSet(ListedVendors) /\ ListedVendors \in SUBSET Range(Vendor)
<1>1. Range(Vendor) = {"claude_code", "codex"}  BY DEF Range, Vendor
<1>2. IsFiniteSet({"claude_code", "codex"})
  <2>1. IsFiniteSet({} \cup {"claude_code"})  BY FS_EmptySet, FS_AddElement
  <2>2. IsFiniteSet({} \cup {"claude_code"} \cup {"codex"})  BY <2>1, FS_AddElement
  <2>3. {} \cup {"claude_code"} \cup {"codex"} = {"claude_code", "codex"}  OBVIOUS
  <2>. QED  BY <2>2, <2>3
<1>3. ListedVendors \in SUBSET Range(Vendor)  BY DEF ListedVendors
<1>. QED  BY <1>1, <1>2, <1>3, FS_Subset
\* The tokens of an answer, by vendor and by window.
LEMMA TokensAgree ==
    ASSUME HomeInv, Answered
    PROVE  /\ \A v \in ListedVendors : AggTotal(v) \in Nat
           /\ \A i \in 1..NWindows : WindowTokens(i) \in Nat
           /\ SumFunction([v \in ListedVendors |-> AggTotal(v)]) = TokensOf(CallsInRange(Saw("calls")))
           /\ SumFunction([i \in 1..NWindows |-> WindowTokens(i)]) = TokensOf(CallsInRange(Saw("calls")))
<1>. DEFINE S == CallsInRange(Saw("calls"))
            F == TokensOfCall
            V == ListedVendors
            I == 1..NWindows
            cells == [i \in I |-> [v \in V |-> {c \in AggCalls(v) : WindowOf(HourOf(c.at)) = i}]]
            sums == [i \in I |-> [v \in V |-> AggWindow(v, i)]]
            vendor == [c \in S |-> VendorOf[c.session]]
            window == [c \in S |-> WindowOf(HourOf(c.at))]
<1>1. WholeDb(Saw("calls"))  BY SawWhole DEF UsageQueries
<1>2. IsFiniteSet(S) /\ S \in SUBSET LLMCall  BY <1>1, FS_Subset DEF WholeDb, Database, CallsInRange
<1>3. \A c \in S : F[c] \in Nat /\ F[c] \in Int  BY <1>2, CallFigures
<1>4. IsFiniteSet(V) /\ V \in SUBSET Range(Vendor)  BY VendorsAre
<1>5. \A c \in S : vendor[c] \in V
  BY <1>2, CallIs DEF AggCalls, OfVendor, ListedVendors
<1>6. IsFiniteSet(I)
  <2>1. NWindows \in Int  BY HomeAssumption DEF NWindows
  <2>. QED  BY <2>1, FS_Interval
<1>7. \A c \in S : window[c] \in I
  <2>1. \A c \in S : HourOf(c.at) \in Int  BY <1>2, CallIs DEF HourOf
  <2>. QED  BY <2>1, WindowIs
<1>8. \A v \in V : AggTotal(v) = SumOver(F, AggCalls(v))
  BY <1>2, SumsAre DEF AggTotal, AggCalls, OfVendor
<1>9. \A i \in I, v \in V : sums[i][v] = SumOver(F, cells[i][v])
  <2>1. \A i \in I, v \in V : {c \in AggCalls(v) : WindowOf(HourOf(c.at)) = i} \in SUBSET LLMCall
    BY <1>2 DEF AggCalls, OfVendor
  <2>. QED  BY <2>1, SumsAre DEF AggWindow
<1>10. \A i \in I, v \in V : \A x : x \in cells[i][v] <=> x \in S /\ vendor[x] = v /\ window[x] = i
  BY DEF AggCalls, OfVendor
<1>11. \A i \in I : WindowTokens(i) = SumOver(sums[i], V)
  <2>1. \A i \in I : [v \in V |-> AggWindow(v, i)] = [v \in V |-> sums[i][v]]  OBVIOUS
  <2>. QED  BY <2>1 DEF WindowTokens, SumOver
<1>12. \A v \in V : \A x : x \in AggCalls(v) <=> x \in S /\ vendor[x] = v  BY DEF AggCalls, OfVendor
<1>13. TokensOf(S) = SumOver(F, S)  BY <1>2, SumsAre
<1>14. PICK A, C, D, G, L, W, f, g, h, k, s :
          /\ s = S /\ k = V /\ L = I /\ f = F /\ A = [v \in V |-> AggCalls(v)] /\ C = cells /\ D = sums
          /\ g = vendor /\ h = window
          /\ G = [v \in V |-> AggTotal(v)] /\ W = [i \in I |-> WindowTokens(i)]
  OBVIOUS
<1>15. \A v \in V : AggTotal(v) \in Nat
  <2>1. \A v \in V : IsFiniteSet(AggCalls(v)) /\ AggCalls(v) \in SUBSET S
    BY <1>2, FS_Subset DEF AggCalls, OfVendor
  <2>2. ASSUME NEW v \in V PROVE AggTotal(v) \in Nat
    <3>1. PICK T \in SUBSET S : T = AggCalls(v) /\ IsFiniteSet(T)  BY <2>1
    <3>2. \A c \in T : F[c] \in Nat  BY <1>3
    <3>3. SumOver(F, T) \in Nat  BY ONLY <3>1, <3>2, SumOfNaturals
    <3>. QED  BY <1>8, <3>1, <3>3
  <2>. QED  BY <2>2
<1>16. IsFiniteSet(s) /\ IsFiniteSet(k) /\ IsFiniteSet(L)  BY <1>2, <1>4, <1>6, <1>14
<1>17. (\A x \in s : f[x] \in Nat /\ f[x] \in Int) /\ (\A x \in s : g[x] \in k) /\ \A x \in s : h[x] \in L
  BY <1>3, <1>5, <1>7, <1>14
<1>18. SumOver(f, s) = SumOver(G, k)
  <2>1. \A v \in k : \A x : x \in A[v] <=> x \in s /\ g[x] = v  BY <1>12, <1>14
  <2>2. \A v \in k : G[v] = SumOver(f, A[v])  BY <1>8, <1>14
  <2>. QED  BY ONLY <1>16, <1>17, <2>1, <2>2, SumByGroups
<1>19. SumOver(f, s) = SumOver(W, L) /\ \A i \in L : W[i] \in Nat
  <2>1. Cells(s, g, k, h, L, C)
    <3>1. C = cells /\ s = S /\ g = vendor /\ h = window /\ L = I /\ k = V  BY <1>14
    <3>2. Cells(S, vendor, V, window, I, cells)
      <4>. HIDE DEF S, vendor, window, I, V, cells
      <4>. QED  BY <1>10 DEF Cells
    <3>. HIDE DEF S, vendor, window, I, V, cells
    <3>. QED  BY <3>1, <3>2
  <2>2. CellSums(f, C, D, k, L)
    <3>. HIDE DEF S, F, V, I, cells, sums
    <3>. QED  BY <1>9, <1>14 DEF CellSums
  <2>3. ColumnSums(D, W, k, L)  BY <1>11, <1>14 DEF ColumnSums
  <2>. QED  BY ONLY <1>16, <1>17, <2>1, <2>2, <2>3, SumByCells
<1>20. SumOver(G, V) = SumFunction(G) /\ SumOver(W, I) = SumFunction(W)
  <2>1. G \in [V -> Int]  BY <1>14, <1>15
  <2>2. W \in [I -> Int]  BY <1>14, <1>19
  <2>. QED  BY <2>1, <2>2, SumOfFunction
<1>. QED  BY <1>13, <1>14, <1>15, <1>18, <1>19, <1>20

\* The costs of an answer, by vendor and by window.
LEMMA CostsAgree ==
    ASSUME HomeInv, Answered
    PROVE  /\ \A v \in ListedVendors : CostOf(CostCalls(v)) \in Nat
           /\ \A i \in 1..NWindows : WindowCost(i) \in Nat
           /\ SumFunction([v \in ListedVendors |-> CostOf(CostCalls(v))])
                = CostOf(CallsInRange(Saw("costs")))
           /\ SumFunction([i \in 1..NWindows |-> WindowCost(i)]) = CostOf(CallsInRange(Saw("costs")))
<1>. DEFINE R == CallsInRange(Saw("costs"))
            S == Priced(R)
            F == CostOfCall
            V == ListedVendors
            I == 1..NWindows
            cells == [i \in I |-> [v \in V |-> Priced({c \in CostCalls(v) : WindowOf(c.at) = i})]]
            sums == [i \in I |-> [v \in V |-> CostWindow(v, i)]]
            vendor == [c \in S |-> VendorOf[c.session]]
            window == [c \in S |-> WindowOf(c.at)]
<1>1. WholeDb(Saw("costs"))  BY SawWhole DEF UsageQueries
<1>2. IsFiniteSet(S) /\ S \in SUBSET LLMCall /\ R \in SUBSET LLMCall
  BY <1>1, FS_Subset DEF WholeDb, Database, CallsInRange, Priced
<1>3. \A c \in S : F[c] \in Nat /\ F[c] \in Int  BY <1>2, CallFigures
<1>4. IsFiniteSet(V) /\ V \in SUBSET Range(Vendor)  BY VendorsAre
<1>5. \A c \in S : vendor[c] \in V
  BY <1>2, CallIs DEF CostCalls, OfVendor, ListedVendors, Priced
<1>6. IsFiniteSet(I)
  <2>1. NWindows \in Int  BY HomeAssumption DEF NWindows
  <2>. QED  BY <2>1, FS_Interval
<1>7. \A c \in S : window[c] \in I
  <2>1. \A c \in S : c.at \in Int  BY <1>2, CallIs
  <2>. QED  BY <2>1, WindowIs
<1>8. \A v \in V : CostOf(CostCalls(v)) = SumOver(F, Priced(CostCalls(v)))
  <2>1. \A v \in V : CostCalls(v) \in SUBSET LLMCall  BY <1>2 DEF CostCalls, OfVendor
  <2>. QED  BY <2>1, SumsAre
<1>9. \A i \in I, v \in V : sums[i][v] = SumOver(F, cells[i][v])
  <2>1. \A i \in I, v \in V : {c \in CostCalls(v) : WindowOf(c.at) = i} \in SUBSET LLMCall
    BY <1>2 DEF CostCalls, OfVendor
  <2>. QED  BY <2>1, SumsAre DEF CostWindow
<1>10. \A i \in I, v \in V : \A x : x \in cells[i][v] <=> x \in S /\ vendor[x] = v /\ window[x] = i
  BY DEF CostCalls, OfVendor, Priced
<1>11. \A i \in I : WindowCost(i) = SumOver(sums[i], V)
  <2>1. \A i \in I : [v \in V |-> CostWindow(v, i)] = [v \in V |-> sums[i][v]]  OBVIOUS
  <2>. QED  BY <2>1 DEF WindowCost, SumOver
<1>12. \A v \in V : \A x : x \in Priced(CostCalls(v)) <=> x \in S /\ vendor[x] = v
  BY DEF CostCalls, OfVendor, Priced
<1>13. CostOf(R) = SumOver(F, S)  BY <1>2, SumsAre
<1>14. PICK A, C, D, G, L, W, f, g, h, k, s :
          /\ s = S /\ k = V /\ L = I /\ f = F /\ A = [v \in V |-> Priced(CostCalls(v))] /\ C = cells /\ D = sums
          /\ g = vendor /\ h = window
          /\ G = [v \in V |-> CostOf(CostCalls(v))] /\ W = [i \in I |-> WindowCost(i)]
  OBVIOUS
<1>15. \A v \in V : CostOf(CostCalls(v)) \in Nat
  <2>1. \A v \in V : IsFiniteSet(Priced(CostCalls(v))) /\ Priced(CostCalls(v)) \in SUBSET S
    BY <1>2, FS_Subset DEF CostCalls, OfVendor, Priced
  <2>2. ASSUME NEW v \in V PROVE CostOf(CostCalls(v)) \in Nat
    <3>1. PICK T \in SUBSET S : T = Priced(CostCalls(v)) /\ IsFiniteSet(T)  BY <2>1
    <3>2. \A c \in T : F[c] \in Nat  BY <1>3
    <3>3. SumOver(F, T) \in Nat  BY ONLY <3>1, <3>2, SumOfNaturals
    <3>. QED  BY <1>8, <3>1, <3>3
  <2>. QED  BY <2>2
<1>16. IsFiniteSet(s) /\ IsFiniteSet(k) /\ IsFiniteSet(L)  BY <1>2, <1>4, <1>6, <1>14
<1>17. (\A x \in s : f[x] \in Nat /\ f[x] \in Int) /\ (\A x \in s : g[x] \in k) /\ \A x \in s : h[x] \in L
  BY <1>3, <1>5, <1>7, <1>14
<1>18. SumOver(f, s) = SumOver(G, k)
  <2>1. \A v \in k : \A x : x \in A[v] <=> x \in s /\ g[x] = v  BY <1>12, <1>14
  <2>2. \A v \in k : G[v] = SumOver(f, A[v])  BY <1>8, <1>14
  <2>. QED  BY ONLY <1>16, <1>17, <2>1, <2>2, SumByGroups
<1>19. SumOver(f, s) = SumOver(W, L) /\ \A i \in L : W[i] \in Nat
  <2>1. Cells(s, g, k, h, L, C)
    <3>1. C = cells /\ s = S /\ g = vendor /\ h = window /\ L = I /\ k = V  BY <1>14
    <3>2. Cells(S, vendor, V, window, I, cells)
      <4>. HIDE DEF S, vendor, window, I, V, cells
      <4>. QED  BY <1>10 DEF Cells
    <3>. HIDE DEF S, vendor, window, I, V, cells
    <3>. QED  BY <3>1, <3>2
  <2>2. CellSums(f, C, D, k, L)
    <3>. HIDE DEF S, F, V, I, cells, sums
    <3>. QED  BY <1>9, <1>14 DEF CellSums
  <2>3. ColumnSums(D, W, k, L)  BY <1>11, <1>14 DEF ColumnSums
  <2>. QED  BY ONLY <1>16, <1>17, <2>1, <2>2, <2>3, SumByCells
<1>20. SumOver(G, V) = SumFunction(G) /\ SumOver(W, I) = SumFunction(W)
  <2>1. G \in [V -> Int]  BY <1>14, <1>15
  <2>2. W \in [I -> Int]  BY <1>14, <1>19
  <2>. QED  BY <2>1, <2>2, SumOfFunction
<1>. QED  BY <1>13, <1>14, <1>15, <1>18, <1>19, <1>20

-----------------------------------------------------------------------------
(* Shares *)

\* What the division of two naturals is.
LEMMA DivisionIs ==
    ASSUME NEW a \in Nat, NEW b \in Nat, b > 0
    PROVE  a \div b \in Nat /\ a % b \in Nat /\ a % b < b /\ a = b * (a \div b) + (a % b)
OBVIOUS

\* The whole thousandths of two figures miss a thousand by one at most.
LEMMA WholeThousandths ==
    ASSUME NEW B \in Nat, NEW x \in Nat, NEW y \in Nat, x > 0, y > 0, B = x + y,
           NEW q \in Nat, NEW r \in Nat, r < B, x * 1000 = B * q + r,
           NEW p \in Nat, NEW s \in Nat, s < B, y * 1000 = B * p + s
    PROVE  /\ q + p \in {999, 1000}
           /\ x > y => q > p \/ (q = p /\ r > s)
<1>1. B * (1000 - (q + p)) = r + s
  <2>1. B * (1000 - (q + p)) = B * 1000 - (B * q + B * p)  OBVIOUS
  <2>2. B * 1000 = x * 1000 + y * 1000  OBVIOUS
  <2>3. B * q \in Nat /\ B * p \in Nat  OBVIOUS
  <2>. QED  BY <2>1, <2>2, <2>3
<1>2. \A m \in Int : /\ m >= 2 => B * m >= 2 * B
                     /\ m <= -1 => B * m <= -B
                     /\ m >= 1 => B * m >= B
  OBVIOUS
<1>3. 1000 - (q + p) \in {0, 1}
  <2>1. PICK m \in Int : m = 1000 - (q + p)  OBVIOUS
  <2>2. PICK z \in Int : z = B * m  OBVIOUS
  <2>3. z = r + s  BY <1>1, <2>1, <2>2
  <2>4. ~(m >= 2) /\ ~(m <= -1)  BY <1>2, <2>2, <2>3
  <2>. QED  BY <2>1, <2>4
<1>4. ASSUME x > y PROVE q > p \/ (q = p /\ r > s)
  <2>1. B * (p - q) = B * p - B * q  OBVIOUS
  <2>2. PICK m \in Int, u \in Nat, v \in Nat, z \in Int : m = p - q /\ u = B * p /\ v = B * q /\ z = B * m
    OBVIOUS
  <2>3. z = u - v  BY <2>1, <2>2
  <2>4. z < r - s  BY <1>4, <2>2, <2>3
  <2>5. ~(m >= 1)  BY <1>2, <2>2, <2>4
  <2>6. m = 0 => z = 0  BY <2>2
  <2>. QED  BY <2>2, <2>4, <2>5, <2>6
<1>. QED  BY <1>3, <1>4

\* Sums of one and of two.
LEMMA SumOfFew ==
    ASSUME NEW a, NEW b, a # b, NEW F, F[a] \in Int, F[b] \in Int
    PROVE  SumOver(F, {}) = 0 /\ SumOver(F, {a}) = F[a] /\ SumOver(F, {a, b}) = F[a] + F[b]
<1>1. IsFiniteSet({a, b}) /\ {a, b} = {a} \cup {b} /\ {a} = {} \cup {a}
  <2>1. IsFiniteSet({} \cup {a})  BY FS_EmptySet, FS_AddElement
  <2>2. IsFiniteSet({} \cup {a} \cup {b})  BY <2>1, FS_AddElement
  <2>3. {} \cup {a} \cup {b} = {a, b} /\ {a, b} = {a} \cup {b} /\ {a} = {} \cup {a}  OBVIOUS
  <2>. QED  BY <2>2, <2>3
<1>2. PICK S : S = {a, b}  OBVIOUS
<1>3. IsFiniteSet(S) /\ \A x \in S : F[x] \in Int  BY <1>1, <1>2
<1>4. SumOver(F, {}) = 0  BY ONLY <1>3, SumOverLaws
<1>5. SumOver(F, {} \cup {a}) = SumOver(F, {}) + F[a]
  <2>1. {} \in SUBSET S /\ a \in S /\ a \notin {}  BY <1>2
  <2>. QED  BY ONLY <1>3, <2>1, SumOverLaws
<1>6. SumOver(F, {a} \cup {b}) = SumOver(F, {a}) + F[b]
  <2>1. PICK T \in SUBSET S : T = {a}  BY <1>2
  <2>2. b \in S /\ b \notin T  BY <1>2, <2>1
  <2>3. SumOver(F, T \cup {b}) = SumOver(F, T) + F[b]  BY ONLY <1>3, <2>2, T \in SUBSET S, SumOverLaws
  <2>. QED  BY <2>1, <2>3
<1>7. SumOver(F, {a}) = F[a]  BY ONLY <1>1, <1>4, <1>5, F[a] \in Int
<1>. QED  BY <1>1, <1>4, <1>6, <1>7

\* Share in parts: who has a share, its whole thousandths and the rest of the
\* division, who comes before whom, how many thousandths are left over.
Held(value) == {v \in DOMAIN value : value[v] > 0}
WholeOf(value, v) == (value[v] * Permille) \div SumFunction(value)
RestOf(value, v) == (value[v] * Permille) % SumFunction(value)
LeftOf(value) == Permille - SumFunction([v \in Held(value) |-> WholeOf(value, v)])
Before(value, v, w) ==
    \/ RestOf(value, v) > RestOf(value, w)
    \/ RestOf(value, v) = RestOf(value, w) /\ VendorPlace(v) < VendorPlace(w)
RankOf(value, v) == Cardinality({w \in Held(value) : Before(value, w, v)})

\* The share of a figure by its parts.
LEMMA ShareIs ==
    ASSUME NEW value
    PROVE  Share(value) = [v \in DOMAIN value |->
               IF v \notin Held(value) THEN 0
               ELSE IF RankOf(value, v) < LeftOf(value) THEN WholeOf(value, v) + 1 ELSE WholeOf(value, v)]
BY DEF Share, Held, WholeOf, RestOf, LeftOf, Before, RankOf

\* No two vendors have one place in the order.
LEMMA PlacesAre ==
    ASSUME NEW a \in Range(Vendor), NEW b \in Range(Vendor), a # b
    PROVE  VendorPlace(a) \in Int /\ VendorPlace(b) \in Int /\ VendorPlace(a) # VendorPlace(b)
<1>1. \A v \in Range(Vendor) : \E i \in DOMAIN Vendor : Vendor[i] = v  BY DEF Range
<1>2. \A v \in Range(Vendor) : VendorPlace(v) \in DOMAIN Vendor /\ Vendor[VendorPlace(v)] = v
  BY <1>1 DEF VendorPlace
<1>3. DOMAIN Vendor \in SUBSET Int  BY DEF Vendor
<1>. QED  BY <1>2, <1>3

\* The only vendor with tokens has the whole.
LEMMA OneShare ==
    ASSUME NEW D, NEW value \in [D -> Nat], NEW a \in D, Held(value) = {a}, SumFunction(value) = value[a]
    PROVE  Share(value)[a] = 1000 /\ \A v \in D \ {a} : Share(value)[v] = 0
<1>1. PICK x \in Nat : x = value[a]  OBVIOUS
<1>2. x > 0  BY <1>1 DEF Held
<1>3. (x * 1000) \div x = 1000
  <2>1. x * 1000 \in Nat  BY <1>1
  <2>2. PICK q \in Nat, r \in Nat : q = (x * 1000) \div x /\ r < x /\ x * 1000 = x * q + r
    BY <1>2, <2>1, DivisionIs
  <2>3. x * (1000 - q) = r  BY <2>2
  <2>4. \A m \in Int : (m >= 1 => x * m >= x) /\ (m <= -1 => x * m <= -x)  BY <1>2
  <2>5. PICK m \in Int : m = 1000 - q  BY <2>2
  <2>6. ~(m >= 1) /\ ~(m <= -1)  BY <1>2, <2>2, <2>3, <2>4, <2>5
  <2>. QED  BY <2>2, <2>5, <2>6
<1>4. WholeOf(value, a) = 1000  BY <1>1, <1>3 DEF WholeOf, Permille
<1>5. LeftOf(value) = 0
  <2>1. PICK F : F = [v \in {a} |-> WholeOf(value, v)]  OBVIOUS
  <2>2. F[a] = 1000 /\ F \in [{a} -> Int]  BY <1>4, <2>1
  <2>3. SumFunction(F) = SumOver(F, {a})  BY <2>2, SumOfFunction
  <2>4. SumOver(F, {a}) = 1000
    <3>1. IsFiniteSet({a}) /\ \A x1 \in {a} : F[x1] \in Int
      <4>1. IsFiniteSet({} \cup {a}) /\ {} \cup {a} = {a}  BY FS_EmptySet, FS_AddElement
      <4>. QED  BY <2>2, <4>1
    <3>2. SumOver(F, {} \cup {a}) = SumOver(F, {}) + F[a] /\ SumOver(F, {}) = 0
      <4>1. {} \in SUBSET {a} /\ a \in {a} /\ a \notin {}  OBVIOUS
      <4>2. PICK S : S = {a}  OBVIOUS
      <4>. QED  BY <3>1, <4>1, <4>2, SumOverLaws
    <3>. QED  BY <2>2, <3>2
  <2>. QED  BY <2>1, <2>3, <2>4 DEF LeftOf, Permille
<1>6. RankOf(value, a) \in Nat
  <2>1. IsFiniteSet({} \cup {a}) /\ {} \cup {a} = {a}  BY FS_EmptySet, FS_AddElement
  <2>2. IsFiniteSet({w \in Held(value) : Before(value, w, a)})  BY <2>1, FS_Subset
  <2>. QED  BY <2>2, FS_CardinalityType DEF RankOf
<1>7. DOMAIN value = D  OBVIOUS
<1>. QED  BY <1>4, <1>5, <1>6, <1>7, ShareIs

\* Two vendors with tokens share the whole, the one with more has no less.
LEMMA TwoShares ==
    ASSUME NEW D, NEW value \in [D -> Nat], NEW a \in D, NEW b \in D, a # b, D \in SUBSET Range(Vendor),
           Held(value) = {a, b}, SumFunction(value) = value[a] + value[b]
    PROVE  /\ Share(value)[a] \in Nat /\ Share(value)[b] \in Nat
           /\ Share(value)[a] + Share(value)[b] = 1000
           /\ value[a] > value[b] => Share(value)[a] >= Share(value)[b]
<1>1. PICK x \in Nat, y \in Nat, B \in Nat : x = value[a] /\ y = value[b] /\ B = x + y  OBVIOUS
<1>2. x > 0 /\ y > 0 /\ B > 0 /\ SumFunction(value) = B
  <2>1. x > 0 /\ y > 0  BY <1>1 DEF Held
  <2>. QED  BY <1>1, <2>1
<1>3. PICK q \in Nat, r \in Nat : q = (x * 1000) \div B /\ r = (x * 1000) % B /\ r < B /\ x * 1000 = B * q + r
  <2>1. x * 1000 \in Nat  OBVIOUS
  <2>. QED  BY <1>2, <2>1, DivisionIs
<1>4. PICK p \in Nat, s \in Nat : p = (y * 1000) \div B /\ s = (y * 1000) % B /\ s < B /\ y * 1000 = B * p + s
  <2>1. y * 1000 \in Nat  OBVIOUS
  <2>. QED  BY <1>2, <2>1, DivisionIs
<1>5. q + p \in {999, 1000} /\ (x > y => q > p \/ (q = p /\ r > s))
  <2>1. x \in Nat /\ y \in Nat /\ B \in Nat /\ q \in Nat /\ r \in Nat /\ p \in Nat /\ s \in Nat  OBVIOUS
  <2>2. x > 0 /\ y > 0 /\ B = x + y /\ r < B /\ s < B  BY <1>1, <1>2, <1>3, <1>4
  <2>3. x * 1000 = B * q + r /\ y * 1000 = B * p + s  BY <1>3, <1>4
  <2>. QED  BY ONLY <2>1, <2>2, <2>3, WholeThousandths
<1>6. WholeOf(value, a) = q /\ RestOf(value, a) = r /\ WholeOf(value, b) = p /\ RestOf(value, b) = s
  BY <1>1, <1>2, <1>3, <1>4 DEF WholeOf, RestOf, Permille
<1>7. LeftOf(value) = 1000 - (q + p)
  <2>1. PICK F : F = [v \in {a, b} |-> WholeOf(value, v)]  OBVIOUS
  <2>2. F[a] = q /\ F[b] = p /\ F \in [{a, b} -> Int]  BY <1>6, <2>1
  <2>3. SumFunction(F) = SumOver(F, {a, b})  BY <2>2, SumOfFunction
  <2>4. F[a] \in Int /\ F[b] \in Int /\ a # b  BY <2>2
  <2>5. SumOver(F, {a, b}) = F[a] + F[b]  BY ONLY <2>4, SumOfFew
  <2>. QED  BY <2>1, <2>2, <2>3, <2>5 DEF LeftOf, Permille
<1>8. VendorPlace(a) \in Int /\ VendorPlace(b) \in Int /\ VendorPlace(a) # VendorPlace(b)  BY PlacesAre
<1>9. \/ Before(value, a, b) /\ ~Before(value, b, a)
      \/ Before(value, b, a) /\ ~Before(value, a, b)
  BY <1>6, <1>8 DEF Before
<1>10. ~Before(value, a, a) /\ ~Before(value, b, b)  BY <1>6, <1>8 DEF Before
<1>11. \A v, w \in {a, b} : v # w /\ Before(value, v, w) => RankOf(value, v) = 0 /\ RankOf(value, w) = 1
  <2>. SUFFICES ASSUME NEW v \in {a, b}, NEW w \in {a, b}, v # w, Before(value, v, w)
                PROVE  RankOf(value, v) = 0 /\ RankOf(value, w) = 1
    OBVIOUS
  <2>1. {u \in {a, b} : Before(value, u, v)} = {}  BY <1>9, <1>10
  <2>2. {u \in {a, b} : Before(value, u, w)} = {v}  BY <1>9, <1>10
  <2>. QED  BY <2>1, <2>2, FS_EmptySet, FS_Singleton DEF RankOf
<1>12. RankOf(value, a) \in {0, 1} /\ RankOf(value, b) = 1 - RankOf(value, a)
  BY <1>9, <1>11
<1>13. r > s => RankOf(value, a) = 0  BY <1>6, <1>11 DEF Before
<1>14. /\ Share(value)[a] = IF RankOf(value, a) < LeftOf(value) THEN q + 1 ELSE q
       /\ Share(value)[b] = IF RankOf(value, b) < LeftOf(value) THEN p + 1 ELSE p
  BY <1>6, ShareIs
<1>15. PICK k \in {0, 1}, e \in {0, 1} :
          /\ k = RankOf(value, a) /\ 1 - k = RankOf(value, b) /\ e = LeftOf(value) /\ e = 1000 - (q + p)
          /\ (r > s => k = 0)
  BY <1>5, <1>7, <1>12, <1>13
<1>16. /\ Share(value)[a] = (IF k < e THEN q + 1 ELSE q)
       /\ Share(value)[b] = (IF 1 - k < e THEN p + 1 ELSE p)
  BY <1>14, <1>15
<1>. QED  BY ONLY <1>1, <1>5, <1>15, <1>16, q \in Nat, p \in Nat, r \in Nat, s \in Nat

\* The shares are a whole, and follow the figures.
LEMMA SharesAgree ==
    ASSUME NEW D \in SUBSET Range(Vendor), IsFiniteSet(D), NEW value \in [D -> Nat]
    PROVE  /\ SumFunction(value) > 0 => SumFunction(Share(value)) = Permille
           /\ ~(SumFunction(value) > 0) => SumFunction(Share(value)) = 0
           /\ \A v, w \in D : value[v] > value[w] => Share(value)[v] >= Share(value)[w]
<1>. DEFINE held == Held(value)
<1>1. held \in SUBSET D /\ \A v \in D \ held : value[v] = 0  BY DEF Held
<1>2. PICK share : share = Share(value)  OBVIOUS
<1>3. DOMAIN share = D /\ share = [v \in D |-> share[v]] /\ \A v \in D \ held : share[v] = 0
  BY <1>2, ShareIs
<1>4. SumFunction(value) = SumOver(value, held)
  <2>1. value \in [D -> Int] /\ \A v \in held : value[v] \in Int  BY <1>1
  <2>2. SumFunction(value) = SumOver(value, D)  BY <2>1, SumOfFunction
  <2>3. PICK S \in SUBSET D : S = held  BY <1>1
  <2>4. SumOver(value, D) = SumOver(value, S)
    <3>1. (\A v \in S : value[v] \in Int) /\ \A v \in D \ S : value[v] = 0  BY <1>1, <2>1, <2>3
    <3>. QED  BY ONLY <2>3, <3>1, IsFiniteSet(D), SumOfZeros
  <2>. QED  BY <2>2, <2>3, <2>4
<1>5. ASSUME \A v \in held : share[v] \in Int PROVE SumFunction(share) = SumOver(share, held)
  <2>1. \A v \in D : share[v] \in Int  BY <1>1, <1>3, <1>5
  <2>2. share \in [D -> Int]  BY <1>3, <2>1
  <2>3. SumFunction(share) = SumOver(share, D)  BY <2>2, SumOfFunction
  <2>4. PICK S \in SUBSET D : S = held  BY <1>1
  <2>5. SumOver(share, D) = SumOver(share, S)
    <3>1. (\A v \in S : share[v] \in Int) /\ \A v \in D \ S : share[v] = 0  BY <1>3, <1>5, <2>4
    <3>. QED  BY ONLY <2>4, <3>1, IsFiniteSet(D), SumOfZeros
  <2>. QED  BY <2>3, <2>4, <2>5
<1>6. \A v \in held : value[v] > 0 /\ value[v] \in Nat  BY DEF Held
<1>7. CASE held = {}
  <2>1. SumOver(value, {}) = 0 /\ SumOver(share, {}) = 0
    <3>1. IsFiniteSet({}) /\ \A v \in {} : value[v] \in Int /\ share[v] \in Int  BY FS_EmptySet
    <3>2. PICK S : S = {}  OBVIOUS
    <3>. QED  BY <3>1, <3>2, SumOverLaws
  <2>2. \A v \in D : value[v] = 0  BY <1>1, <1>7
  <2>. QED  BY <1>2, <1>4, <1>5, <1>7, <2>1, <2>2
<1>8. ASSUME NEW a \in D, held = {a}
      PROVE  /\ SumFunction(value) > 0 /\ SumFunction(share) = 1000
             /\ \A v, w \in D : value[v] > value[w] => share[v] >= share[w]
  <2>1. value[a] \in Nat /\ value[a] > 0  BY <1>6, <1>8
  <2>2. ASSUME NEW F, F[a] \in Int PROVE SumOver(F, {a}) = F[a]
    <3>1. IsFiniteSet({a})  BY FS_Singleton
    <3>2. PICK S : S = {a}  OBVIOUS
    <3>3. IsFiniteSet(S) /\ (\A v \in S : F[v] \in Int) /\ {} \in SUBSET S /\ a \in S /\ a \notin {}
      BY <2>2, <3>1, <3>2
    <3>4. SumOver(F, {}) = 0 /\ SumOver(F, {} \cup {a}) = SumOver(F, {}) + F[a]
      BY ONLY <3>3, SumOverLaws
    <3>5. {} \cup {a} = {a}  OBVIOUS
    <3>. QED  BY <2>2, <3>4, <3>5
  <2>3. SumFunction(value) = value[a]  BY <1>4, <1>8, <2>1, <2>2
  <2>4. share[a] = 1000 /\ \A v \in D \ {a} : share[v] = 0  BY <1>2, <1>8, <2>3, OneShare
  <2>5. SumFunction(share) = 1000  BY <1>5, <1>8, <2>2, <2>4
  <2>6. \A v \in D \ {a} : value[v] = 0  BY <1>1, <1>8
  <2>. QED  BY <2>1, <2>3, <2>4, <2>5, <2>6
<1>9. ASSUME NEW a \in D, NEW b \in D, a # b, held = {a, b}
      PROVE  /\ SumFunction(value) > 0 /\ SumFunction(share) = 1000
             /\ \A v, w \in D : value[v] > value[w] => share[v] >= share[w]
  <2>1. value[a] \in Nat /\ value[a] > 0 /\ value[b] \in Nat /\ value[b] > 0  BY <1>6, <1>9
  <2>2. SumFunction(value) = value[a] + value[b]
    <3>1. value[a] \in Int /\ value[b] \in Int /\ a # b  BY <1>9, <2>1
    <3>2. SumOver(value, {a, b}) = value[a] + value[b]  BY ONLY <3>1, SumOfFew
    <3>. QED  BY <1>4, <1>9, <3>2
  <2>3. /\ share[a] \in Nat /\ share[b] \in Nat /\ share[a] + share[b] = 1000
        /\ value[a] > value[b] => share[a] >= share[b]
    BY <1>2, <1>9, <2>2, TwoShares
  <2>4. value[b] > value[a] => share[b] >= share[a]
    <3>1. held = {b, a} /\ SumFunction(value) = value[b] + value[a]  BY <1>9, <2>1, <2>2
    <3>. QED  BY <1>2, <1>9, <3>1, TwoShares
  <2>5. SumFunction(share) = 1000
    <3>1. share[a] \in Int /\ share[b] \in Int /\ a # b  BY <1>9, <2>3
    <3>2. SumOver(share, {a, b}) = share[a] + share[b]  BY ONLY <3>1, SumOfFew
    <3>. QED  BY <1>5, <1>9, <2>3, <3>1, <3>2
  <2>6. \A v \in D : v = a \/ v = b \/ (value[v] = 0 /\ share[v] = 0)  BY <1>1, <1>3, <1>9
  <2>7. \A v, w \in D : value[v] > value[w] => share[v] >= share[w]
    <3>. SUFFICES ASSUME NEW v \in D, NEW w \in D, value[v] > value[w] PROVE share[v] >= share[w]
      OBVIOUS
    <3>1. v = a \/ v = b  BY <2>1, <2>6
    <3>2. CASE w = a \/ w = b  BY <2>1, <2>3, <2>4, <3>1, <3>2
    <3>3. CASE ~(w = a \/ w = b)  BY <2>3, <2>6, <3>1, <3>3
    <3>. QED  BY <3>2, <3>3
  <2>. QED  BY <2>1, <2>2, <2>5, <2>7
<1>10. held = {} \/ (\E a \in D : held = {a}) \/ \E a, b \in D : a # b /\ held = {a, b}
  BY <1>1, VendorsAre
<1>. QED  BY <1>2, <1>7, <1>8, <1>9, <1>10 DEF Permille

-----------------------------------------------------------------------------
(* The busiest window *)

\* The greatest of finitely many integers.
LEMMA GreatestExists ==
    ASSUME NEW S, IsFiniteSet(S), S # {}, NEW F, \A x \in S : F[x] \in Int
    PROVE  \E x \in S : \A y \in S : F[x] >= F[y]
<1>. DEFINE U == {T \in SUBSET S : T = {} \/ \E x \in T : \A y \in T : F[x] >= F[y]}
<1>1. {} \in U  OBVIOUS
<1>2. ASSUME NEW T \in SUBSET S, NEW x \in S, T \in U, x \notin T PROVE T \cup {x} \in U
  <2>1. F[x] \in Int /\ \A y \in T : F[y] \in Int  OBVIOUS
  <2>2. CASE T = {}  BY <2>1, <2>2
  <2>3. CASE T # {}
    <3>1. PICK m \in T : \A y \in T : F[m] >= F[y]  BY <1>2, <2>3
    <3>2. CASE F[m] >= F[x]  BY <2>1, <3>1, <3>2
    <3>3. CASE ~(F[m] >= F[x])
      <4>1. \A y \in T : F[x] >= F[y]  BY <2>1, <3>1, <3>3
      <4>2. F[x] >= F[x]  BY <2>1
      <4>3. \A y \in T \cup {x} : F[x] >= F[y]  BY <4>1, <4>2
      <4>. QED  BY <4>3
    <3>. QED  BY <3>2, <3>3
  <2>. QED  BY <2>2, <2>3
<1>3. S \in U
  <2>. HIDE DEF U
  <2>. QED  BY <1>1, <1>2, SetGrowth
<1>. QED  BY <1>3
\* There is a busiest window, the first of those with the most tokens and, of
\* those, the highest cost.
LEMMA BusiestExists ==
    ASSUME NEW B \in SUBSET Nat, IsFiniteSet(B), B # {}, NEW T, \A i \in B : T[i] \in Int,
           NEW C, \A i \in B : C[i] \in Int
    PROVE  \E i \in B : \A j \in B \ {i} :
             \/ T[i] > T[j] \/ (T[i] = T[j] /\ C[i] > C[j])
             \/ ~(T[j] > T[i] \/ (T[j] = T[i] /\ C[j] > C[i])) /\ i < j
<1>. DEFINE most == {i \in B : \A j \in B : T[i] >= T[j]}
            dearest == {i \in most : \A j \in most : C[i] >= C[j]}
<1>1. most # {}  BY GreatestExists
<1>2. dearest # {}
  <2>1. PICK S \in SUBSET B : S = most  OBVIOUS
  <2>2. IsFiniteSet(S) /\ S # {} /\ \A i \in S : C[i] \in Int  BY <1>1, <2>1, FS_Subset
  <2>3. \E i \in S : \A j \in S : C[i] >= C[j]  BY ONLY <2>2, GreatestExists
  <2>. QED  BY <2>1, <2>3
<1>3. Min(dearest) \in dearest /\ \A j \in dearest : Min(dearest) <= j
  <2>1. dearest \in SUBSET Nat  OBVIOUS
  <2>. HIDE DEF dearest
  <2>. QED  BY <1>2, <2>1, MinOfNaturals
<1>4. PICK i \in B : /\ \A j \in B : T[i] >= T[j]
                     /\ \A j \in most : C[i] >= C[j]
                     /\ \A j \in dearest : i <= j
  BY <1>3
<1>5. ASSUME NEW j \in B \ {i}
      PROVE  \/ T[i] > T[j] \/ (T[i] = T[j] /\ C[i] > C[j])
             \/ ~(T[j] > T[i] \/ (T[j] = T[i] /\ C[j] > C[i])) /\ i < j
  <2>1. T[i] \in Int /\ T[j] \in Int /\ C[i] \in Int /\ C[j] \in Int /\ i \in Nat /\ j \in Nat  OBVIOUS
  <2>2. T[i] = T[j] => j \in most  BY <1>4
  <2>3. T[i] = T[j] => C[i] >= C[j]  BY <1>4, <2>2
  <2>4. T[i] = T[j] /\ C[i] = C[j] => j \in dearest  BY <1>4, <2>2
  <2>5. T[i] = T[j] /\ C[i] = C[j] => i < j  BY <1>4, <2>1, <2>4
  <2>6. T[i] >= T[j]  BY <1>4
  <2>. QED  BY ONLY <2>1, <2>3, <2>5, <2>6
<1>. QED  BY <1>5

\* No window is busiest exactly where nothing was used.
LEMMA PeakAgrees ==
    ASSUME HomeInv, Answered
    PROVE  Peak = 0 <=> \A i \in 1..NWindows : WindowTokens(i) = 0 /\ WindowCost(i) = 0
<1>1. \A i \in 1..NWindows : WindowTokens(i) \in Nat /\ WindowCost(i) \in Nat
  BY TokensAgree, CostsAgree
<1>2. Busy = {} <=> \A i \in 1..NWindows : WindowTokens(i) = 0 /\ WindowCost(i) = 0
  BY <1>1 DEF Busy
<1>3. Busy # {} => Peak \in Busy
  <2>. SUFFICES ASSUME Busy # {} PROVE Peak \in Busy  OBVIOUS
  <2>1. PICK B, T, C : B = Busy /\ T = [i \in Busy |-> WindowTokens(i)] /\ C = [i \in Busy |-> WindowCost(i)]
    OBVIOUS
  <2>2. B \in SUBSET Nat /\ IsFiniteSet(B) /\ B # {}
    <3>1. NWindows \in Int  BY HomeAssumption DEF NWindows
    <3>2. IsFiniteSet(1..NWindows) /\ Busy \subseteq 1..NWindows  BY <3>1, FS_Interval DEF Busy
    <3>3. IsFiniteSet(Busy)  BY <3>2, FS_Subset
    <3>. QED  BY <2>1, <3>2, <3>3
  <2>3. \A i \in B : T[i] = WindowTokens(i) /\ C[i] = WindowCost(i) /\ T[i] \in Int /\ C[i] \in Int
    BY <1>1, <2>1 DEF Busy
  <2>4. \E i \in B : \A j \in B \ {i} :
           \/ T[i] > T[j] \/ (T[i] = T[j] /\ C[i] > C[j])
           \/ ~(T[j] > T[i] \/ (T[j] = T[i] /\ C[j] > C[i])) /\ i < j
    BY ONLY <2>2, <2>3, BusiestExists
  <2>5. \E i \in Busy : \A j \in Busy \ {i} : BusierThan(i, j) \/ (~BusierThan(j, i) /\ i < j)
    BY <2>1, <2>3, <2>4 DEF BusierThan
  <2>. QED  BY <2>5 DEF Peak
<1>4. Busy = {} => Peak = 0  BY DEF Peak
<1>5. 0 \notin Busy  BY DEF Busy
<1>. QED  BY <1>2, <1>3, <1>4, <1>5

-----------------------------------------------------------------------------
(* The models of a vendor *)

\* A model is a number, and what was used of it are natural numbers that make
\* up the vendor's.
LEMMA ModelFigures ==
    ASSUME HomeInv, Answered, NEW v, NEW rows \in SUBSET ModelsOf(v)
    PROVE  /\ IsFiniteSet(ModelsOf(v)) /\ ModelsOf(v) \subseteq Int
           /\ \A m \in ModelsOf(v) : ModelTokens(v, m) \in Nat /\ ModelCost(v, m) \in Nat
           /\ SumFunction([m \in rows |-> ModelTokens(v, m)]) <= TokensOf(CostCalls(v))
           /\ SumFunction([m \in rows |-> ModelCost(v, m)]) <= CostOf(CostCalls(v))
           /\ rows = ModelsOf(v) =>
                /\ SumFunction([m \in rows |-> ModelTokens(v, m)]) = TokensOf(CostCalls(v))
                /\ SumFunction([m \in rows |-> ModelCost(v, m)]) = CostOf(CostCalls(v))
<1>. DEFINE S == CostCalls(v)
            D == Priced(S)
            M == ModelsOf(v)
            tokens == [m \in M |-> ModelTokens(v, m)]
            costs == [m \in M |-> ModelCost(v, m)]
            model == [c \in S |-> c.usage.model]
<1>1. WholeDb(Saw("costs"))  BY SawWhole DEF UsageQueries
<1>2. IsFiniteSet(S) /\ S \in SUBSET LLMCall /\ IsFiniteSet(D) /\ D \in SUBSET S
  BY <1>1, FS_Subset DEF WholeDb, Database, CallsInRange, CostCalls, OfVendor, Priced
<1>3. \A c \in S : TokensOfCall[c] \in Nat /\ CostOfCall[c] \in Nat  BY <1>2, CallFigures
<1>4. IsFiniteSet(M)
  <2>1. model \in Surjection(S, M)  BY DEF Surjection, ModelsOf
  <2>. QED  BY <1>2, <2>1, FS_Surjection
<1>5. M \subseteq Int
  <2>1. \A c \in S : c.usage \in Usages[c.session] /\ c.session \in Session  BY <1>2, CallIs
  <2>. QED  BY <2>1, HomeAssumption DEF ModelsOf
<1>6. (\A c \in S : model[c] \in M) /\ \A c \in D : model[c] \in M  BY <1>2 DEF ModelsOf
<1>7. \A m \in M : /\ tokens[m] = SumOver(TokensOfCall, {c \in S : model[c] = m})
                   /\ costs[m] = SumOver(CostOfCall, {c \in D : model[c] = m})
  <2>1. ASSUME NEW m \in M
        PROVE  /\ tokens[m] = SumOver(TokensOfCall, {c \in S : model[c] = m})
               /\ costs[m] = SumOver(CostOfCall, {c \in D : model[c] = m})
    <3>1. PICK G \in SUBSET S : G = {c \in S : model[c] = m}  OBVIOUS
    <3>2. ModelCalls(v, m) = G  BY <3>1 DEF ModelCalls
    <3>3. Priced(G) = {c \in D : model[c] = m}  BY <3>1 DEF Priced
    <3>4. G \in SUBSET LLMCall  BY <1>2
    <3>5. TokensOf(G) = SumOver(TokensOfCall, G) /\ CostOf(G) = SumOver(CostOfCall, Priced(G))
      BY <3>4, SumsAre
    <3>. QED  BY <3>1, <3>2, <3>3, <3>5 DEF ModelTokens, ModelCost
  <2>. QED  BY <2>1
<1>8. TokensOf(S) = SumOver(TokensOfCall, S) /\ CostOf(S) = SumOver(CostOfCall, D)  BY <1>2, SumsAre
<1>9. /\ \A m \in M : tokens[m] \in Nat
      /\ SumOver(tokens, rows) <= TokensOf(S)
      /\ rows = M => SumOver(tokens, rows) = TokensOf(S)
  <2>1. PICK s, k, f, g, G, H :
           /\ s = S /\ k = M /\ f = TokensOfCall /\ g = model /\ H = tokens
           /\ G = [m \in M |-> {c \in S : model[c] = m}]
    OBVIOUS
  <2>2. /\ IsFiniteSet(s) /\ IsFiniteSet(k) /\ rows \in SUBSET k
        /\ \A x \in s : f[x] \in Nat
        /\ \A x \in s : g[x] \in k
    BY <1>2, <1>3, <1>4, <1>6, <2>1
  <2>3. \A m \in k : \A x : x \in G[m] <=> x \in s /\ g[x] = m
    <3>. HIDE DEF S, D, M, model
    <3>. QED  BY <2>1
  <2>4. \A m \in k : H[m] = SumOver(f, G[m])  BY <1>7, <2>1
  <2>5. /\ \A m \in k : H[m] \in Nat
        /\ \A P \in SUBSET k : SumOver(H, P) <= SumOver(f, s)
        /\ SumOver(H, k) = SumOver(f, s)
    BY ONLY <2>2, <2>3, <2>4, SumOfSomeGroups
  <2>. QED  BY <1>8, <2>1, <2>2, <2>5
<1>10. /\ \A m \in M : costs[m] \in Nat
       /\ SumOver(costs, rows) <= CostOf(S)
       /\ rows = M => SumOver(costs, rows) = CostOf(S)
  <2>1. PICK s, k, f, g, G, H :
           /\ s = D /\ k = M /\ f = CostOfCall /\ g = model /\ H = costs
           /\ G = [m \in M |-> {c \in D : model[c] = m}]
    OBVIOUS
  <2>2. /\ IsFiniteSet(s) /\ IsFiniteSet(k) /\ rows \in SUBSET k
        /\ \A x \in s : f[x] \in Nat
        /\ \A x \in s : g[x] \in k
    BY <1>2, <1>3, <1>4, <1>6, <2>1
  <2>3. \A m \in k : \A x : x \in G[m] <=> x \in s /\ g[x] = m
    <3>. HIDE DEF S, D, M, model
    <3>. QED  BY <2>1
  <2>4. \A m \in k : H[m] = SumOver(f, G[m])  BY <1>7, <2>1
  <2>5. /\ \A m \in k : H[m] \in Nat
        /\ \A P \in SUBSET k : SumOver(H, P) <= SumOver(f, s)
        /\ SumOver(H, k) = SumOver(f, s)
    BY ONLY <2>2, <2>3, <2>4, SumOfSomeGroups
  <2>. QED  BY <1>8, <2>1, <2>2, <2>5
<1>11. /\ SumOver(tokens, rows) = SumFunction([m \in rows |-> ModelTokens(v, m)])
       /\ SumOver(costs, rows) = SumFunction([m \in rows |-> ModelCost(v, m)])
  <2>1. /\ [m \in rows |-> tokens[m]] = [m \in rows |-> ModelTokens(v, m)]
        /\ [m \in rows |-> costs[m]] = [m \in rows |-> ModelCost(v, m)]
    OBVIOUS
  <2>. QED  BY <2>1 DEF SumOver
<1>. QED  BY <1>4, <1>5, <1>9, <1>10, <1>11

\* The models are listed up to the limit.
LEMMA ModelsListed ==
    ASSUME HomeInv, Answered, NEW v
    PROVE  /\ ModelRows(v) \in SUBSET ModelsOf(v)
           /\ IF ModelsTruncated(v) THEN Cardinality(ModelRows(v)) = ModelLimit
              ELSE ModelRows(v) = ModelsOf(v) /\ Cardinality(ModelsOf(v)) <= ModelLimit
<1>. DEFINE M == ModelsOf(v)
            R == {p \in M \X M : ModelBefore(v, p[1], p[2])}
            C == [m \in M |-> ModelCost(v, m)]
            T == [m \in M |-> ModelTokens(v, m)]
<1>1. IsFiniteSet(M) /\ M \in SUBSET Int /\ \A m \in M : C[m] \in Int /\ T[m] \in Int
  <2>1. PICK rows \in SUBSET ModelsOf(v) : rows = {}  OBVIOUS
  <2>2. /\ IsFiniteSet(ModelsOf(v)) /\ ModelsOf(v) \subseteq Int
        /\ \A m \in ModelsOf(v) : ModelTokens(v, m) \in Nat /\ ModelCost(v, m) \in Nat
    BY <2>1, ModelFigures
  <2>. QED  BY <2>2
<1>2. \A m, n \in M : <<m, n>> \in R <=>
          C[m] > C[n] \/ (C[m] = C[n] /\ (T[m] > T[n] \/ (T[m] = T[n] /\ m < n)))
  BY DEF ModelBefore
<1>3. OrderedBy(R, M)
  <2>. HIDE DEF M, R, C, T
  <2>. QED  BY <1>1, <1>2, FiguresOrder
<1>4. ModelRows(v) = FirstElements(R, M, ModelLimit)
  <2>1. \A m, n \in M : <<n, m>> \in R <=> ModelBefore(v, n, m)  OBVIOUS
  <2>2. \A m \in M : {n \in M : <<n, m>> \in R} = {n \in M : ModelBefore(v, n, m)}
    <3>. HIDE DEF M, R
    <3>. QED  BY <2>1
  <2>3. \A m \in M : ElementsBefore(R, M, m) = {n \in M : ModelBefore(v, n, m)}
    <3>. HIDE DEF M, R
    <3>. QED  BY <2>2 DEF ElementsBefore
  <2>4. FirstElements(R, M, ModelLimit) = {m \in M : Cardinality({n \in M : ModelBefore(v, n, m)}) < ModelLimit}
    <3>. HIDE DEF M, R
    <3>. QED  BY <2>3 DEF FirstElements
  <2>. QED  BY <2>4 DEF ModelRows
<1>5. ModelLimit \in Nat  BY HomeAssumption
<1>6. IF ModelLimit < Cardinality(M) THEN Cardinality(ModelRows(v)) = ModelLimit
                                     ELSE ModelRows(v) = M
  <2>. HIDE DEF M, R
  <2>. QED  BY <1>1, <1>3, <1>4, <1>5, FirstsCount
<1>7. Cardinality(M) \in Nat  BY <1>1, FS_CardinalityType
<1>8. ModelRows(v) \in SUBSET M  BY DEF ModelRows
<1>9. ModelsTruncated(v) <=> Cardinality(M) > Cardinality(ModelRows(v))  BY DEF ModelsTruncated
<1>. QED  BY <1>5, <1>6, <1>7, <1>8, <1>9

\* A list of models that is not cut has the figures of its vendor.
LEMMA ModelsAgree ==
    ASSUME HomeInv, Answered, NEW v
    PROVE  /\ ListedOf(v, SumFunction([m \in ModelRows(v) |-> ModelTokens(v, m)]), TokensOf(CostCalls(v)))
           /\ ListedOf(v, SumFunction([m \in ModelRows(v) |-> ModelCost(v, m)]), CostOf(CostCalls(v)))
<1>1. ModelRows(v) \in SUBSET ModelsOf(v) /\ (~ModelsTruncated(v) => ModelRows(v) = ModelsOf(v))
  BY ModelsListed
<1>2. PICK rows \in SUBSET ModelsOf(v) : rows = ModelRows(v)  BY <1>1
<1>. QED  BY <1>1, <1>2, ModelFigures DEF ListedOf

-----------------------------------------------------------------------------
(* The figures of an answer *)

\* The totals, windows and shares of either way to read the screen.
LEMMA UsageIsWhole == ASSUME HomeInv, Answered PROVE UsageAgrees
<1>. DEFINE value == [v \in ListedVendors |-> AggTotal(v)]
            tokens == SumFunction(value)
            costs == SumFunction([v \in ListedVendors |-> CostOf(CostCalls(v))])
<1>1. value \in [ListedVendors -> Nat] /\ \A v \in ListedVendors : value[v] = AggTotal(v)  BY TokensAgree
<1>2. tokens = TokensOf(CallsInRange(Saw("calls"))) /\ tokens = SumFunction([i \in 1..NWindows |-> WindowTokens(i)])
  BY TokensAgree
<1>3. costs = CostOf(CallsInRange(Saw("costs"))) /\ costs = SumFunction([i \in 1..NWindows |-> WindowCost(i)])
  BY CostsAgree
<1>4. /\ tokens > 0 => SumFunction(Share(value)) = Permille
      /\ ~(tokens > 0) => SumFunction(Share(value)) = 0
      /\ \A v, w \in ListedVendors : value[v] > value[w] => Share(value)[v] >= Share(value)[w]
  <2>. HIDE DEF value
  <2>. QED  BY <1>1, VendorsAre, SharesAgree
<1>5. Peak = 0 <=> tokens = 0 /\ costs = 0
  <2>1. IsFiniteSet(1..NWindows)
    <3>1. NWindows \in Int  BY HomeAssumption DEF NWindows
    <3>. QED  BY <3>1, FS_Interval
  <2>2. PICK T, C, I : /\ I = 1..NWindows /\ T = [i \in 1..NWindows |-> WindowTokens(i)]
                       /\ C = [i \in 1..NWindows |-> WindowCost(i)]
    OBVIOUS
  <2>3. \A i \in I : T[i] \in Nat /\ C[i] \in Nat /\ T[i] = WindowTokens(i) /\ C[i] = WindowCost(i)
    BY <2>2, TokensAgree, CostsAgree
  <2>4. T \in [I -> Int] /\ C \in [I -> Int] /\ IsFiniteSet(I)  BY <2>1, <2>2, <2>3
  <2>5. SumFunction(T) = SumOver(T, I) /\ SumFunction(C) = SumOver(C, I)  BY ONLY <2>4, SumOfFunction
  <2>6. /\ SumOver(T, I) = 0 <=> \A i \in I : T[i] = 0
        /\ SumOver(C, I) = 0 <=> \A i \in I : C[i] = 0
    BY ONLY <2>3, <2>4, SumOfNaturals
  <2>7. tokens = SumFunction(T) /\ costs = SumFunction(C)  BY <1>2, <1>3, <2>2
  <2>8. Peak = 0 <=> \A i \in 1..NWindows : WindowTokens(i) = 0 /\ WindowCost(i) = 0  BY PeakAgrees
  <2>9. Peak = 0 <=> \A i \in I : T[i] = 0 /\ C[i] = 0  BY ONLY <2>2, <2>3, <2>8
  <2>. QED  BY <2>5, <2>6, <2>7, <2>9
<1>6. SumFunction(Share(value)) = (IF tokens > 0 THEN Permille ELSE 0)  BY <1>4
<1>7. \A v, w \in ListedVendors : AggTotal(v) > AggTotal(w) => Share(value)[v] >= Share(value)[w]
  BY <1>1, <1>4
<1>8. \A v \in ListedVendors :
         /\ ListedOf(v, SumFunction([m \in ModelRows(v) |-> ModelCost(v, m)]), CostOf(CostCalls(v)))
         /\ IF ModelsTruncated(v) THEN Cardinality(ModelRows(v)) = ModelLimit
                                  ELSE Cardinality(ModelsOf(v)) <= ModelLimit
  BY ModelsAgree, ModelsListed
<1>. QED  BY <1>2, <1>3, <1>5, <1>6, <1>7, <1>8 DEF UsageAgrees

-----------------------------------------------------------------------------
(* The parts of one screen *)

\* All queries of the Home screen saw one database.
LEMMA OneDatabase ==
    ASSUME HomeInv, Answered, surface = "snapshot"
    PROVE  \E d : /\ WholeDb(d)
                  /\ Saw("calls") = d /\ Saw("prompts") = d /\ Saw("starts") = d /\ Saw("costs") = d
                  /\ Saw("counts") = d /\ Saw("codex") = d /\ Saw("recent") = d /\ Saw("usage") = d
                  /\ Saw("agents") = d /\ Saw("running") = d
<1>1. PICK d : WholeDb(d) /\ \A q \in Range(Queries["snapshot"]) : Saw(q) = d  BY SawWhole
<1>2. \A i \in 1..10 : Queries["snapshot"][i] \in Range(Queries["snapshot"])
  <2>1. DOMAIN Queries["snapshot"] = 1..10  BY DEF Queries
  <2>. QED  BY <2>1 DEF Range
<1>3. {"calls", "prompts", "starts", "costs", "counts", "codex", "recent", "usage", "agents", "running"}
        \subseteq Range(Queries["snapshot"])
  <2>1. /\ Queries["snapshot"][1] = "calls" /\ Queries["snapshot"][2] = "prompts"
        /\ Queries["snapshot"][3] = "starts" /\ Queries["snapshot"][4] = "costs"
        /\ Queries["snapshot"][5] = "counts" /\ Queries["snapshot"][6] = "codex"
        /\ Queries["snapshot"][7] = "recent" /\ Queries["snapshot"][8] = "usage"
        /\ Queries["snapshot"][9] = "agents" /\ Queries["snapshot"][10] = "running"
    BY DEF Queries
  <2>. QED  BY <1>2, <2>1
<1>. QED  BY <1>1, <1>3

\* A list that is not cut is the whole of what is shown, and one that is cut
\* is as long as it may be.
LEMMA WholeList ==
    ASSUME NEW d, WholeDb(d), Saw("recent") = d
    PROVE  /\ IsFiniteSet(Shown(d)) /\ Recent \subseteq Shown(d)
           /\ IF Truncated THEN Cardinality(Recent) = RecentLimit ELSE Recent = Shown(d)
<1>. DEFINE newer(s, t) == \/ d.sessions[s].start > d.sessions[t].start
                           \/ d.sessions[s].start = d.sessions[t].start /\ s > t
<1>1. Shown(d) \in SUBSET Session /\ Shown(d) \in SUBSET Present(d)
  BY DEF Shown, BegunInRange, Present
<1>2. IsFiniteSet(Shown(d))  BY <1>1, FS_Subset, HomeAssumption
<1>3. Recent = {s \in Shown(d) : Cardinality({t \in Shown(d) : newer(t, s)}) < RecentLimit}  BY DEF Recent
<1>. DEFINE S == Shown(d)
            R == {p \in S \X S : newer(p[1], p[2])}
            C == [s \in S |-> d.sessions[s].start]
            T == [s \in S |-> s]
<1>4. S \in SUBSET Int /\ \A s \in S : C[s] \in Int /\ T[s] \in Int
  <2>1. \A s \in S : d.sessions[s] \in HomeRow /\ s \in Int
    BY <1>1, HomeAssumption DEF WholeDb, Database, Present
  <2>2. Starts \in SUBSET Int  BY HomeAssumption
  <2>3. \A r \in HomeRow : r.start \in Int  BY ONLY <2>2 DEF HomeRow
  <2>. QED  BY <2>1, <2>3
<1>5. \A s, t \in S : <<s, t>> \in R <=>
          C[s] > C[t] \/ (C[s] = C[t] /\ (T[s] > T[t] \/ (T[s] = T[t] /\ s < t)))
  <2>1. \A s, t \in Int : ~(s = t /\ s < t)  OBVIOUS
  <2>. QED  BY <1>4, <2>1
<1>6. OrderedBy(R, S)
  <2>. HIDE DEF S, R, C, T
  <2>. QED  BY <1>4, <1>5, FiguresOrder
<1>7. Recent = FirstElements(R, S, RecentLimit)
  <2>1. \A s, t \in S : <<t, s>> \in R <=> newer(t, s)  OBVIOUS
  <2>2. \A s \in S : {t \in S : <<t, s>> \in R} = {t \in S : newer(t, s)}
    <3>. HIDE DEF S, R, newer
    <3>. QED  BY <2>1
  <2>3. \A s \in S : ElementsBefore(R, S, s) = {t \in S : newer(t, s)}
    <3>. HIDE DEF S, R, newer
    <3>. QED  BY <2>2 DEF ElementsBefore
  <2>4. FirstElements(R, S, RecentLimit) = {s \in S : Cardinality({t \in S : newer(t, s)}) < RecentLimit}
    <3>. HIDE DEF S, R, newer
    <3>. QED  BY <2>3 DEF FirstElements
  <2>. QED  BY <1>3, <2>4
<1>8. RecentLimit \in Nat  BY HomeAssumption
<1>9. IF RecentLimit < Cardinality(S) THEN Cardinality(Recent) = RecentLimit ELSE Recent = S
  <2>. HIDE DEF S, R, newer
  <2>. QED  BY <1>2, <1>6, <1>7, <1>8, FirstsCount DEF S
<1>10. Truncated <=> RecentLimit < Cardinality(S)
  <2>1. Cardinality(S) \in Nat  BY <1>2, FS_CardinalityType
  <2>. QED  BY <1>8, <2>1 DEF Truncated
<1>11. Recent \subseteq S  BY <1>3
<1>. QED  BY <1>2, <1>9, <1>10, <1>11

\* The list has the tokens of a vendor whose calls and sessions are all inside
\* the range.
LEMMA ListAgrees ==
    ASSUME NEW d, WholeDb(d), Saw("calls") = d, Saw("usage") = d, NEW v, NEW within \in SUBSET Session,
           \A s \in Session : s \in within <=> s \in Shown(d) /\ VendorOf[s] = v,
           \A c \in d.calls : VendorOf[c.session] = v => InRange(c.at),
           \A s \in Present(d) : VendorOf[s] = v => s \in Shown(d)
    PROVE  SumFunction([s \in within |-> RecentTokens(s)]) = AggTotal(v)
<1>. DEFINE S == AggCalls(v)
            own == [s \in within |-> {c \in d.calls : c.session = s}]
            session == [c \in S |-> c.session]
<1>1. IsFiniteSet(S) /\ S \in SUBSET LLMCall /\ d.calls \in SUBSET LLMCall
  BY FS_Subset DEF WholeDb, Database, CallsInRange, AggCalls, OfVendor
<1>2. \A c \in S : TokensOfCall[c] \in Nat /\ TokensOfCall[c] \in Int  BY <1>1, CallFigures
<1>3. IsFiniteSet(within)  BY FS_Subset, HomeAssumption
<1>4. \A c \in S : session[c] \in within
  <2>1. \A c \in S : c \in d.calls /\ VendorOf[c.session] = v  BY DEF AggCalls, OfVendor, CallsInRange
  <2>2. \A c \in S : c.session \in Present(d)
    BY <1>1, <2>1, CallIs DEF WholeDb, Present
  <2>. QED  BY <1>1, <2>1, <2>2, CallIs
<1>5. \A s \in within : \A x : x \in own[s] <=> x \in S /\ session[x] = s
  BY DEF AggCalls, OfVendor, CallsInRange
<1>6. \A s \in within : RecentTokens(s) = SumOver(TokensOfCall, own[s])
  <2>1. \A s \in within : {c \in d.calls : c.session = s} \in SUBSET LLMCall  BY <1>1
  <2>. QED  BY <2>1, SumsAre DEF RecentTokens
<1>7. PICK s, k, f, g, G, H :
          /\ s = S /\ k = within /\ f = TokensOfCall /\ g = session /\ G = own
          /\ H = [t \in within |-> RecentTokens(t)]
  OBVIOUS
<1>8. IsFiniteSet(s) /\ IsFiniteSet(k) /\ (\A x \in s : f[x] \in Int) /\ \A x \in s : g[x] \in k
  BY <1>1, <1>2, <1>3, <1>4, <1>7
<1>9. \A t \in k : \A x : x \in G[t] <=> x \in s /\ g[x] = t
  <2>. HIDE DEF S, own, session
  <2>. QED  BY <1>5, <1>7
<1>10. \A t \in k : H[t] = SumOver(f, G[t])  BY <1>6, <1>7
<1>11. SumOver(f, s) = SumOver(H, k)  BY ONLY <1>8, <1>9, <1>10, SumByGroups
<1>12. \A t \in k : H[t] \in Int
  <2>1. \A T \in SUBSET s : SumOver(f, T) \in Int  BY ONLY <1>8, SumOverLaws
  <2>2. \A t \in k : G[t] \in SUBSET s  BY ONLY <1>9
  <2>. QED  BY <1>10, <2>1, <2>2
<1>13. SumFunction(H) = SumOver(H, k)
  <2>1. H \in [k -> Int]  BY <1>7, <1>12
  <2>. QED  BY <2>1, SumOfFunction
<1>14. AggTotal(v) = SumOver(TokensOfCall, S)  BY <1>1, SumsAre DEF AggTotal
<1>. QED  BY <1>7, <1>11, <1>13, <1>14

\* Turns are judged the user's or the client's own, or not yet.
LEMMA CodexAgrees ==
    ASSUME NEW d, WholeDb(d), Saw("codex") = d
    PROVE  CodexUser + CodexSystem <= CodexTotal
<1>. DEFINE S == CodexCalls
            own(labels) == {c \in S : d.sessions[c.session].label \in labels}
<1>1. IsFiniteSet(S) /\ S \in SUBSET LLMCall
  BY FS_Subset DEF WholeDb, Database, CallsInRange, CodexCalls, OfVendor
<1>2. PICK f : f = TokensOfCall  OBVIOUS
<1>3. \A c \in S : f[c] \in Nat /\ f[c] \in Int  BY <1>1, <1>2, CallFigures
<1>4. PICK s : s = S  OBVIOUS
<1>5. PICK U \in SUBSET s, I \in SUBSET s : U = own({"client"}) /\ I = own({"internal"})
  BY <1>4
<1>6. CodexUser = SumOver(f, U) /\ CodexSystem = SumOver(f, I) /\ CodexTotal = SumOver(f, s)
  <2>1. U \in SUBSET LLMCall /\ I \in SUBSET LLMCall /\ s \in SUBSET LLMCall  BY <1>1, <1>4, <1>5
  <2>2. TokensOf(U) = SumOver(f, U) /\ TokensOf(I) = SumOver(f, I) /\ TokensOf(s) = SumOver(f, s)
    BY <1>2, <2>1, SumsAre
  <2>. QED  BY <1>4, <1>5, <2>2 DEF CodexUser, CodexSystem, CodexTotal, JudgedTokens
<1>7. I \subseteq s \ U  BY <1>4, <1>5
<1>8. IsFiniteSet(s) /\ (\A x \in s : f[x] \in Int) /\ \A x \in s : f[x] \in Nat  BY <1>1, <1>3, <1>4
<1>9. SumOver(f, s) = SumOver(f, U) + SumOver(f, s \ U)  BY ONLY <1>8, U \in SUBSET s, SumInTwo
<1>10. PICK R : R = s \ U  OBVIOUS
<1>11. IsFiniteSet(R) /\ (\A x \in R : f[x] \in Int) /\ I \in SUBSET R  BY <1>7, <1>8, <1>10, FS_Subset
<1>12. SumOver(f, R) = SumOver(f, I) + SumOver(f, R \ I)  BY ONLY <1>11, SumInTwo
<1>13. \A T \in SUBSET s : SumOver(f, T) \in Nat
  <2>1. ASSUME NEW T \in SUBSET s PROVE SumOver(f, T) \in Nat
    <3>1. IsFiniteSet(T) /\ \A x \in T : f[x] \in Nat  BY <1>8, FS_Subset
    <3>. QED  BY ONLY <3>1, SumOfNaturals
  <2>. QED  BY <2>1
<1>14. PICK a \in Nat, b \in Nat, e \in Nat, t \in Nat :
          a = SumOver(f, U) /\ b = SumOver(f, I) /\ e = SumOver(f, R \ I) /\ t = SumOver(f, s)
  <2>1. R \ I \in SUBSET s  BY <1>10
  <2>. QED  BY <1>13, <2>1
<1>15. t = a + (b + e)  BY <1>9, <1>10, <1>12, <1>14
<1>. QED  BY <1>6, <1>14, <1>15

\* The rest of a screen that is read in one transaction.
LEMMA PartsAreWhole == ASSUME HomeInv, Answered, surface = "snapshot" PROVE PartsAgree
<1>1. PICK d : /\ WholeDb(d)
               /\ Saw("calls") = d /\ Saw("prompts") = d /\ Saw("starts") = d /\ Saw("costs") = d
               /\ Saw("counts") = d /\ Saw("codex") = d /\ Saw("recent") = d /\ Saw("usage") = d
               /\ Saw("agents") = d /\ Saw("running") = d
  BY OneDatabase
<1>2. /\ Shown(d) \in SUBSET Session /\ Shown(d) \subseteq Present(d)
      /\ \A s \in Shown(d) : s \in BegunInRange(d) /\ MayShow(d, s) /\ VendorOf[s] \in Range(Vendor)
  BY HomeAssumption DEF Shown, BegunInRange, Present
<1>3. /\ IsFiniteSet(Shown(d)) /\ Recent \subseteq Shown(d)
      /\ IF Truncated THEN Cardinality(Recent) = RecentLimit ELSE Recent = Shown(d)
  BY <1>1, WholeList
<1>4. \A s \in Shown(d) : VendorOf[s] \in ListedVendors  BY <1>1, <1>2 DEF ListedVendors
<1>5. ~CountsFail  BY <1>1, <1>4 DEF CountsFail
<1>6. UNION {CountedSessions(v) : v \in ListedVendors} = Shown(d)  BY <1>1, <1>4 DEF CountedSessions
<1>7. Truncated => Cardinality(Shown(d)) > RecentLimit  BY <1>1 DEF Truncated
<1>8. \A v \in ListedVendors :
         ListedOf(v, SumFunction([m \in ModelRows(v) |-> ModelTokens(v, m)]), AggTotal(v))
  <2>1. \A v : AggTotal(v) = TokensOf(CostCalls(v))  BY <1>1 DEF AggTotal, AggCalls, CostCalls
  <2>. QED  BY <2>1, ModelsAgree
<1>9. ~Truncated => RunningSessions = Cardinality(Running(Saw("recent"), Recent))
  BY <1>1, <1>3 DEF RunningSessions
<1>10. \A s \in Running(Saw("recent"), Recent) : VendorOf[s] \in ActiveAgents
  BY <1>1, <1>2, <1>3 DEF Running, ActiveAgents
<1>11. CodexTotal = AggTotal("codex")
  BY <1>1 DEF CodexTotal, CodexCalls, AggTotal, AggCalls
<1>12. CodexUser + CodexSystem <= CodexTotal  BY <1>1, CodexAgrees
<1>13. ASSUME NEW v \in ListedVendors, ~Truncated,
              \A c \in d.calls : VendorOf[c.session] = v => InRange(c.at),
              \A s \in Present(d) : VendorOf[s] = v => s \in Shown(d)
       PROVE  SumFunction([s \in {s \in Recent : VendorOf[s] = v} |-> RecentTokens(s)]) = AggTotal(v)
  <2>1. PICK W \in SUBSET Session : W = {s \in Recent : VendorOf[s] = v}  BY <1>2, <1>3
  <2>2. \A s \in Session : s \in W <=> s \in Shown(d) /\ VendorOf[s] = v  BY <1>3, <1>13, <2>1
  <2>3. SumFunction([s \in W |-> RecentTokens(s)]) = AggTotal(v)  BY <1>1, <1>13, <2>2, ListAgrees
  <2>. QED  BY <2>1, <2>3
<1>. QED  BY <1>1, <1>3, <1>5, <1>6, <1>7, <1>8, <1>9, <1>10, <1>11, <1>12, <1>13 DEF PartsAgree

\* Whatever the daemon stores between the queries of a screen, for all sessions,
\* calls, prices, windows and limits.
THEOREM HomeAlwaysAgrees == HomeSpec => []HomeAgrees
<1>1. HomeInv => HomeAgrees  BY UsageIsWhole, PartsAreWhole DEF HomeAgrees
<1>. QED  BY <1>1, HomeStaysWhole, PTL
=============================================================================
