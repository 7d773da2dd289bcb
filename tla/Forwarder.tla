------------------------------ MODULE Forwarder ------------------------------
(***************************************************************************)
(* The upstream forwarder, internal/forward: receiver workers call Enqueue *)
(* concurrently, one worker goroutine delivers, one caller shuts it down.  *)
(*                                                                         *)
(* A step is what other goroutines can see happen at once.  The two locks  *)
(* are not variables: closeMu is read-locked by the calls in "admitted",   *)
(* "reserved", "sent" and "overflow", statsMu is held by the calls in      *)
(* "reserved" and "sent".  Every other section under statsMu is one step,  *)
(* guarded by StatsFree.                                                   *)
(***************************************************************************)
EXTENDS Integers, Sequences

CONSTANTS
    Payload,        \* the payloads offered to Enqueue, one call each
    NoJob,          \* the worker has no payload in its hands
    Size,           \* the length of a payload's body
    Enabled,        \* the payloads whose signal the manifest lets through
    QueueSize,      \* the capacity of the channel
    MaxQueueBytes,  \* the bytes the channel may hold
    MaxAttempts     \* the attempts a payload is worth

ASSUME NoJobAssumption == NoJob \notin Payload
ASSUME SizeAssumption == Size \in [Payload -> Nat]
ASSUME EnabledAssumption == Enabled \subseteq Payload
\* New replaces anything that is not positive by a default.
ASSUME BudgetAssumption ==
    /\ QueueSize \in Nat \ {0}
    /\ MaxQueueBytes \in Nat \ {0}
    /\ MaxAttempts \in Nat \ {0}

VARIABLES
    call,           \* where each Enqueue call is
    closed,         \* Forwarder.closed, and the channel with it
    queue,          \* the channel
    queuedBytes,    \* the atomic byte count of the channel
    wpc,            \* where the worker goroutine is
    job,            \* the payload in the worker's hands
    attempt,        \* the attempt of send's loop
    authRefreshed,  \* send has already invalidated a token for this payload
    stopped,        \* stopCtx is cancelled
    shut,           \* where the Shutdown call is
    swept,          \* what discardQueued has taken from the channel so far
    stats,          \* the counters behind statsMu
    fate            \* history: what became of each payload

callVars   == <<call>>
queueVars  == <<closed, queue, queuedBytes>>
workerVars == <<wpc, job, attempt, authRefreshed>>
shutVars   == <<stopped, shut, swept>>
vars == <<call, closed, queue, queuedBytes, wpc, job, attempt, authRefreshed,
          stopped, shut, swept, stats, fate>>

Refusal == {"empty", "disabled", "closed", "full"}
Verdict == {"sent", "scrub", "discarded", "failed", "shutdown"}

\* Retries, TokenErrors and what Scrub removed only ever grow; they are left out.
Counter == {"enqueued", "sent", "queueFull", "signalDisabled", "scrub",
            "shutdown", "discarded", "failed"}

\* The counters a payload leaves through, as Stats subtracts them.
Pending ==
    stats.enqueued - stats.sent - stats.scrub - stats.shutdown
                   - stats.discarded - stats.failed

InEnqueue  == {"admitted", "reserved", "sent", "overflow"}
StatsFree  == \A p \in Payload : call[p] \notin {"reserved", "sent"}
NoReader   == \A p \in Payload : call[p] \notin InEnqueue
\* Mutant: Shutdown waits for a worker that was never started.
WorkerExited == wpc = "exited"
WorkerGone == wpc \in {"unstarted", "exited"}

Bump(counter) == stats' = [stats EXCEPT ![counter] = @ + 1]

Init ==
    /\ call = [p \in Payload |-> "new"]
    /\ closed = FALSE
    /\ queue = <<>>
    /\ queuedBytes = 0
    /\ wpc = "unstarted"
    /\ job = NoJob
    /\ attempt = 0
    /\ authRefreshed = FALSE
    /\ stopped = FALSE
    /\ shut = "idle"
    /\ swept = <<>>
    /\ stats = [c \in Counter |-> 0]
    /\ fate = [p \in Payload |-> "new"]

-----------------------------------------------------------------------------
(* Enqueue *)

\* The early returns that leave no trace in the counters.
RefuseEmpty(p) ==
    /\ call[p] = "new"
    /\ Size[p] = 0
    /\ call' = [call EXCEPT ![p] = "refused"]
    /\ fate' = [fate EXCEPT ![p] = "empty"]
    /\ UNCHANGED <<queueVars, workerVars, shutVars, stats>>

RefuseDisabled(p) ==
    /\ call[p] = "new"
    /\ Size[p] > 0
    /\ p \notin Enabled
    /\ StatsFree
    /\ call' = [call EXCEPT ![p] = "refused"]
    /\ fate' = [fate EXCEPT ![p] = "disabled"]
    /\ Bump("signalDisabled")
    /\ UNCHANGED <<queueVars, workerVars, shutVars>>

RefuseClosed(p) ==
    /\ call[p] = "new"
    /\ Size[p] > 0
    /\ p \in Enabled
    /\ closed
    /\ call' = [call EXCEPT ![p] = "refused"]
    /\ fate' = [fate EXCEPT ![p] = "closed"]
    /\ UNCHANGED <<queueVars, workerVars, shutVars, stats>>

\* closeMu is read-locked from here until the call returns.
Admit(p) ==
    /\ call[p] = "new"
    /\ Size[p] > 0
    /\ p \in Enabled
    /\ ~closed
    /\ call' = [call EXCEPT ![p] = "admitted"]
    /\ UNCHANGED <<queueVars, workerVars, shutVars, stats, fate>>

\* Mutant: the size of the new payload is not part of the check.
ReserveIgnoringSize(p) ==
    /\ call[p] = "admitted"
    /\ StatsFree
    /\ queuedBytes <= MaxQueueBytes
    /\ queuedBytes' = queuedBytes + Size[p]
    /\ call' = [call EXCEPT ![p] = "reserved"]
    /\ UNCHANGED <<closed, queue, workerVars, shutVars, stats, fate>>

\* statsMu is taken, and kept if the bytes fit.
Reserve(p) ==
    /\ call[p] = "admitted"
    /\ StatsFree
    /\ queuedBytes + Size[p] <= MaxQueueBytes
    /\ queuedBytes' = queuedBytes + Size[p]
    /\ call' = [call EXCEPT ![p] = "reserved"]
    /\ UNCHANGED <<closed, queue, workerVars, shutVars, stats, fate>>

RefuseBytes(p) ==
    /\ call[p] = "admitted"
    /\ StatsFree
    /\ queuedBytes + Size[p] > MaxQueueBytes
    /\ call' = [call EXCEPT ![p] = "overflow"]
    /\ fate' = [fate EXCEPT ![p] = "full"]
    /\ UNCHANGED <<queueVars, workerVars, shutVars, stats>>

Send(p) ==
    /\ call[p] = "reserved"
    /\ Len(queue) < QueueSize
    /\ queue' = Append(queue, p)
    /\ call' = [call EXCEPT ![p] = "sent"]
    /\ fate' = [fate EXCEPT ![p] = "pending"]
    /\ UNCHANGED <<closed, queuedBytes, workerVars, shutVars, stats>>

\* The default branch of the select: the reservation is rolled back.
RefuseItems(p) ==
    /\ call[p] = "reserved"
    /\ Len(queue) >= QueueSize
    /\ queuedBytes' = queuedBytes - Size[p]
    /\ call' = [call EXCEPT ![p] = "overflow"]
    /\ fate' = [fate EXCEPT ![p] = "full"]
    /\ UNCHANGED <<closed, queue, workerVars, shutVars, stats>>

CountEnqueued(p) ==
    /\ call[p] = "sent"
    /\ call' = [call EXCEPT ![p] = "accepted"]
    /\ Bump("enqueued")
    /\ UNCHANGED <<queueVars, workerVars, shutVars, fate>>

CountQueueFull(p) ==
    /\ call[p] = "overflow"
    /\ StatsFree
    /\ call' = [call EXCEPT ![p] = "refused"]
    /\ Bump("queueFull")
    /\ UNCHANGED <<queueVars, workerVars, shutVars, fate>>

Enqueue(p) ==
    \/ RefuseEmpty(p) \/ RefuseDisabled(p) \/ RefuseClosed(p)
    \/ Admit(p) \/ Reserve(p) \/ RefuseBytes(p)
    \/ Send(p) \/ RefuseItems(p)
    \/ CountEnqueued(p) \/ CountQueueFull(p)

-----------------------------------------------------------------------------
(* The worker: loop, deliver, send *)

Start ==
    /\ wpc = "unstarted"
    /\ shut = "idle"
    /\ wpc' = "idle"
    /\ UNCHANGED <<callVars, queueVars, job, attempt, authRefreshed, shutVars,
                   stats, fate>>

\* Go picks among ready cases at random: a cancelled stopCtx does not keep
\* the loop from taking one more payload.
Receive ==
    /\ wpc = "idle"
    /\ queue # <<>>
    /\ job' = Head(queue)
    /\ queue' = Tail(queue)
    /\ wpc' = "received"
    /\ UNCHANGED <<callVars, closed, queuedBytes, attempt, authRefreshed,
                   shutVars, stats, fate>>

ExitLoop ==
    /\ wpc = "idle"
    /\ stopped \/ (closed /\ queue = <<>>)
    /\ wpc' = "exited"
    /\ UNCHANGED <<callVars, queueVars, job, attempt, authRefreshed, shutVars,
                   stats, fate>>

ReleaseBytes ==
    /\ wpc = "received"
    /\ queuedBytes' = queuedBytes - Size[job]
    /\ wpc' = "scrub"
    /\ UNCHANGED <<callVars, closed, queue, job, attempt, authRefreshed,
                   shutVars, stats, fate>>

Scrubbed ==
    /\ wpc = "scrub"
    /\ StatsFree
    /\ wpc' = "token"
    /\ attempt' = 1
    /\ authRefreshed' = FALSE
    /\ UNCHANGED <<callVars, queueVars, job, shutVars, stats, fate>>

\* The payload gets its verdict and the worker goes back to the channel.
Settle(verdict) ==
    /\ StatsFree
    /\ Bump(verdict)
    /\ fate' = [fate EXCEPT ![job] = verdict]
    /\ wpc' = "idle"
    /\ job' = NoJob
    /\ attempt' = 0
    /\ authRefreshed' = FALSE
    /\ UNCHANGED <<callVars, queueVars, shutVars>>

ScrubFailure == wpc = "scrub" /\ Settle("scrub")

\* deliver recovers from a panic anywhere below it, at the price of the payload.
Panic == wpc \in {"scrub", "token", "inflight"} /\ Settle("failed")

\* The worker moves within one delivery.
Goto(pc, n) ==
    /\ wpc' = pc
    /\ attempt' = n
    /\ UNCHANGED <<callVars, queueVars, job, shutVars, fate>>

\* The next round of the loop, or its end.
NextAttempt ==
    IF attempt < MaxAttempts THEN Goto("token", attempt + 1)
                             ELSE Goto("giveup", attempt)

TokenReady ==
    /\ wpc = "token"
    /\ Goto("post", attempt)
    /\ UNCHANGED <<authRefreshed, stats>>

TokenFailure ==
    /\ wpc = "token"
    /\ StatsFree
    /\ Goto(IF attempt = MaxAttempts THEN "giveup" ELSE "tokenwait", attempt)
    /\ UNCHANGED <<authRefreshed, stats>>

Post ==
    /\ wpc = "post"
    /\ ~stopped
    /\ Goto("inflight", attempt)
    /\ UNCHANGED <<authRefreshed, stats>>

Retry ==
    /\ IF attempt < MaxAttempts
         THEN StatsFree /\ Goto("retrywait", attempt)
         ELSE Goto("giveup", attempt)
    /\ UNCHANGED <<authRefreshed, stats>>

\* A request derived from a cancelled stopCtx fails before it is sent.
PostCut == wpc = "post" /\ stopped /\ Retry

\* What classify makes of the answer to a request.
AnswerDone    == wpc = "inflight" /\ Settle("sent")
AnswerDiscard == wpc = "inflight" /\ Settle("discarded")
AnswerRetry   == wpc = "inflight" /\ Retry

\* Mutant: a rejected token is refreshed again and again.
AnswerAuthForever ==
    /\ wpc = "inflight"
    /\ Goto("token", attempt)
    /\ UNCHANGED <<authRefreshed, stats>>

AnswerAuthFirst ==
    /\ wpc = "inflight"
    /\ ~authRefreshed
    /\ authRefreshed' = TRUE
    /\ NextAttempt
    /\ UNCHANGED stats

AnswerAuthAgain ==
    /\ wpc = "inflight"
    /\ authRefreshed
    /\ Settle("discarded")

\* Mutant: a payload that waits for its retry goes back to the channel.
RetryThroughQueue ==
    /\ wpc = "retrywait"
    /\ queue' = Append(queue, job)
    /\ queuedBytes' = queuedBytes + Size[job]
    /\ wpc' = "idle"
    /\ job' = NoJob
    /\ UNCHANGED <<callVars, closed, attempt, authRefreshed, shutVars, stats, fate>>

\* waitBackoff: the timer fires, or stopCtx cuts the wait short.
BackoffElapsed ==
    /\ wpc \in {"tokenwait", "retrywait"}
    /\ NextAttempt
    /\ UNCHANGED <<authRefreshed, stats>>

TokenWaitCut ==
    /\ wpc = "tokenwait"
    /\ stopped
    /\ Goto("giveup", attempt)
    /\ UNCHANGED <<authRefreshed, stats>>

\* Mutant: the interrupted wait breaks out of the loop instead of returning.
RetryWaitCutFallsThrough ==
    /\ wpc = "retrywait"
    /\ stopped
    /\ StatsFree
    /\ Bump("shutdown")
    /\ Goto("giveup", attempt)
    /\ UNCHANGED authRefreshed

RetryWaitCut == wpc = "retrywait" /\ stopped /\ Settle("shutdown")

GiveUp == wpc = "giveup" /\ Settle("failed")

Answer == AnswerDone \/ AnswerDiscard \/ AnswerRetry \/ AnswerAuthFirst
             \/ AnswerAuthAgain

Deliver ==
    \/ ReleaseBytes \/ Scrubbed \/ ScrubFailure \/ Panic
    \/ TokenReady \/ TokenFailure \/ Post \/ PostCut \/ Answer
    \/ BackoffElapsed \/ TokenWaitCut \/ RetryWaitCut \/ GiveUp

Worker == Receive \/ ExitLoop \/ Deliver

-----------------------------------------------------------------------------
(* Shutdown *)

\* The write lock waits for every Enqueue call that holds the read lock.
Close ==
    /\ shut = "idle"
    /\ NoReader
    /\ closed' = TRUE
    /\ shut' = "draining"
    /\ UNCHANGED <<callVars, queue, queuedBytes, workerVars, stopped, swept,
                   stats, fate>>

DrainedInTime ==
    /\ shut = "draining"
    /\ WorkerGone
    /\ stopped' = TRUE
    /\ shut' = "sweeping"
    /\ UNCHANGED <<callVars, queueVars, workerVars, swept, stats, fate>>

Deadline ==
    /\ shut = "draining"
    /\ stopped' = TRUE
    /\ shut' = "hardstop"
    /\ UNCHANGED <<callVars, queueVars, workerVars, swept, stats, fate>>

\* Mutant: the queue is swept while the worker is still delivering.
DrainedLateAtOnce ==
    /\ shut = "hardstop"
    /\ shut' = "sweepinglate"
    /\ UNCHANGED <<callVars, queueVars, workerVars, stopped, swept, stats, fate>>

DrainedLate ==
    /\ shut = "hardstop"
    /\ WorkerGone
    /\ shut' = "sweepinglate"
    /\ UNCHANGED <<callVars, queueVars, workerVars, stopped, swept, stats, fate>>

\* discardQueued takes the payloads one by one and counts them at the end.
Sweep ==
    /\ shut \in {"sweeping", "sweepinglate"}
    /\ queue # <<>>
    /\ queue' = Tail(queue)
    /\ queuedBytes' = queuedBytes - Size[Head(queue)]
    /\ swept' = Append(swept, Head(queue))
    /\ UNCHANGED <<callVars, closed, workerVars, stopped, shut, stats, fate>>

CountSwept ==
    /\ shut \in {"sweeping", "sweepinglate"}
    /\ queue = <<>>
    /\ StatsFree
    /\ stats' = [stats EXCEPT !.shutdown = @ + Len(swept)]
    /\ fate' = [p \in Payload |->
                  IF \E i \in DOMAIN swept : swept[i] = p THEN "shutdown" ELSE fate[p]]
    /\ swept' = <<>>
    /\ shut' = IF shut = "sweeping" THEN "returned" ELSE "expired"
    /\ UNCHANGED <<callVars, queueVars, workerVars, stopped>>

ShutdownStep == DrainedInTime \/ Deadline \/ DrainedLate \/ Sweep \/ CountSwept

-----------------------------------------------------------------------------
Next ==
    \/ \E p \in Payload : Enqueue(p)
    \/ Start
    \/ Worker
    \/ Close
    \/ ShutdownStep

Spec == Init /\ [][Next]_vars

\* A call that is inside Enqueue runs on; nothing is said of the others.
CallerFairness == \A p \in Payload : WF_vars(call[p] \in InEnqueue /\ Enqueue(p))
\* The scheduler, the request timeout, the backoff timers and the deadline of
\* Shutdown's context: a goroutine that can move does.
WorkerFairness   == WF_vars(Worker) /\ WF_vars(Start)
ShutdownFairness == WF_vars(ShutdownStep)

FairSpec    == Spec /\ CallerFairness /\ WorkerFairness /\ ShutdownFairness

-----------------------------------------------------------------------------
(* Properties *)

\* Everything stays in its range.
TypeOK ==
    /\ call \in [Payload -> {"new", "refused", "accepted"} \cup InEnqueue]
    /\ closed \in BOOLEAN
    /\ queue \in Seq(Payload)
    /\ queuedBytes \in Int
    /\ wpc \in {"unstarted", "idle", "received", "scrub", "token", "tokenwait",
                "post", "inflight", "retrywait", "giveup", "exited"}
    /\ job \in Payload \cup {NoJob}
    /\ attempt \in 0 .. MaxAttempts
    /\ authRefreshed \in BOOLEAN
    /\ stopped \in BOOLEAN
    /\ shut \in {"idle", "draining", "hardstop", "sweeping", "sweepinglate",
                 "returned", "expired"}
    /\ swept \in Seq(Payload)
    /\ stats \in [Counter -> Int]
    /\ fate \in [Payload -> {"new", "pending"} \cup Refusal \cup Verdict]

Running == IF job = NoJob THEN <<>> ELSE <<job>>

\* Whoever takes a Stats snapshot sees Pending equal to what is really waiting
\* or in flight, although payloads are counted by the callers, by the worker
\* and by Shutdown; in particular Pending is never negative (Enqueue's comment
\* on counting before the worker can).
SnapshotConsistent ==
    StatsFree => Pending = Len(queue) + Len(Running) + Len(swept)

\* The sum of a sequence of numbers.
Total(s) ==
    LET upTo[n \in 0 .. Len(s)] == IF n = 0 THEN 0 ELSE upTo[n - 1] + s[n]
    IN  upTo[Len(s)]

BytesOf(q) == Total([i \in 1 .. Len(q) |-> Size[q[i]]])
QueueBytes == BytesOf(queue)

Done == shut \in {"returned", "expired"}

\* The channel never holds more bytes than MaxQueueBytes, although callers and
\* worker update the atomic counter outside any common lock: the counter may
\* run ahead of the channel, never behind it, and no reservation is leaked.
ByteBudget ==
    /\ QueueBytes <= queuedBytes
    /\ queuedBytes <= MaxQueueBytes
    /\ Done => queuedBytes = 0

\* closeMu's purpose: no caller is about to send when the channel is closed,
\* which would panic.
NoSendOnClosed == \A p \in Payload : call[p] \in {"admitted", "reserved"} => ~closed

\* After Shutdown has returned, in time or late, Stats reports nothing pending
\* for ever, and neither the worker nor a caller is at work any more.
QuietAfterShutdown == Done => Pending = 0 /\ WorkerGone /\ NoReader

\* The forwarder implements the bounded first-in first-out line: one verdict
\* per admitted payload, in the order of admission, and none dropped by a
\* Shutdown that came back in time with a worker at work.
Delivery ==
    INSTANCE BestEffortDelivery WITH
        pending <- swept \o Running \o queue,
        open <- ~closed,
        excused <- wpc = "unstarted" \/ shut \in {"hardstop", "sweepinglate", "expired"}
ImplementsDelivery == Delivery!Spec

\* Every admitted payload gets its verdict, whatever upstream answers and
\* whether or not Shutdown is ever called: retries are bounded.
EveryPayloadSettled ==
    \A p \in Payload : fate[p] = "pending" ~> fate[p] \in Verdict

\* Shutdown returns whatever upstream does.
ShutdownReturns == shut = "draining" ~> shut \in {"returned", "expired"}

=============================================================================
