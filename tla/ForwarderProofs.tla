--------------------------- MODULE ForwarderProofs ---------------------------
(***************************************************************************)
(* What TLAPS proves of Forwarder for every set of payloads, every queue   *)
(* size, byte limit and retry budget; and of Decoder, whose scrubbed copy  *)
(* is what is forwarded, for any attributes, records and limits.           *)
(***************************************************************************)
EXTENDS Forwarder, Decoder, DataFacts

Waiting == Len(queue) + Len(Running) + Len(swept)

\* A payload is in the channel before it is counted.
Uncounted == IF \E p \in Payload : call[p] = "sent" THEN 1 ELSE 0

\* statsMu is a mutex.
StatsExclusive ==
    \A p, q \in Payload :
        call[p] \in {"reserved", "sent"} /\ call[q] \in {"reserved", "sent"} => p = q

\* The lock and the flag that Close takes and sets.
ClosedInv ==
    /\ closed <=> shut # "idle"
    /\ closed => NoReader

WorkerInv ==
    /\ job = NoJob <=> wpc \in {"unstarted", "idle", "exited"}
    /\ shut \notin {"idle", "draining", "hardstop"} => WorkerGone

SweepInv ==
    /\ swept # <<>> => shut \in {"sweeping", "sweepinglate"}
    /\ Done => queue = <<>>

ControlInv == StatsExclusive /\ ClosedInv /\ WorkerInv /\ SweepInv

CountInv == Pending + Uncounted = Waiting

IInv ==
    /\ TypeOK
    /\ ControlInv
    /\ CountInv

-----------------------------------------------------------------------------
(* Types *)

\* A delivery ends with a known verdict, the loop variable stays in its range.
LEMMA SettleTypes ==
    ASSUME TypeOK, NEW v \in Verdict, job \in Payload, Settle(v)
    PROVE  TypeOK'
<1>1. stats' \in [Counter -> Int]
  <2>1. v \in Counter  BY DEF Verdict, Counter
  <2>. QED  BY <2>1 DEF TypeOK, Settle, Bump
<1>2. fate' \in [Payload -> {"new", "pending"} \cup Refusal \cup Verdict]
  BY DEF TypeOK, Settle
<1>3. 0 \in 0 .. MaxAttempts  BY BudgetAssumption
<1>. QED
  BY <1>1, <1>2, <1>3 DEF TypeOK, Settle, callVars, queueVars, shutVars

\* A step of the worker to another state of a delivery keeps the types.
LEMMA GotoTypes ==
    ASSUME TypeOK, NEW pc, NEW n, Goto(pc, n),
           pc \in {"token", "tokenwait", "post", "inflight", "retrywait", "giveup"},
           n \in 0 .. MaxAttempts, authRefreshed' \in BOOLEAN, stats' \in [Counter -> Int]
    PROVE  TypeOK'
  BY DEF TypeOK, Goto, callVars, queueVars, shutVars

\* So does the step to the next attempt, or past the last one.
LEMMA NextAttemptTypes ==
    ASSUME TypeOK, NextAttempt, authRefreshed' \in BOOLEAN, stats' = stats
    PROVE  TypeOK'
<1>1. CASE attempt < MaxAttempts
  <2>1. Goto("token", attempt + 1)  BY <1>1 DEF NextAttempt
  <2>2. attempt + 1 \in 0 .. MaxAttempts  BY <1>1, BudgetAssumption DEF TypeOK
  <2>. QED  BY <2>1, <2>2, GotoTypes DEF TypeOK
<1>2. CASE ~(attempt < MaxAttempts)
  BY <1>2, GotoTypes DEF NextAttempt, TypeOK
<1>. QED  BY <1>1, <1>2

\* So does the wait before a retry, or its refusal.
LEMMA RetryTypes ==
    ASSUME TypeOK, Retry
    PROVE  TypeOK'
<1>1. Goto("retrywait", attempt) \/ Goto("giveup", attempt)  BY DEF Retry
<1>. QED  BY <1>1, GotoTypes DEF Retry, TypeOK

\* Every step of a caller in enqueue keeps the types.
LEMMA EnqueueTypes ==
    ASSUME TypeOK, NEW p \in Payload, Enqueue(p)
    PROVE  TypeOK'
<1>. USE SizeAssumption DEF TypeOK, InEnqueue, Refusal, Verdict, callVars, queueVars, workerVars, shutVars
<1>1. CASE RefuseEmpty(p)  BY <1>1 DEF RefuseEmpty
<1>2. CASE RefuseDisabled(p)  BY <1>2, SMTT(30) DEF RefuseDisabled, Bump, Counter
<1>3. CASE RefuseClosed(p)  BY <1>3 DEF RefuseClosed
<1>4. CASE Admit(p)  BY <1>4 DEF Admit
<1>5. CASE Reserve(p)  BY <1>5 DEF Reserve
<1>6. CASE RefuseBytes(p)  BY <1>6 DEF RefuseBytes
<1>7. CASE Send(p)  BY <1>7 DEF Send
<1>8. CASE RefuseItems(p)  BY <1>8 DEF RefuseItems
<1>9. CASE CountEnqueued(p)  BY <1>9 DEF CountEnqueued, Bump, Counter
<1>10. CASE CountQueueFull(p)  BY <1>10 DEF CountQueueFull, Bump, Counter
<1>. QED
  BY <1>1, <1>2, <1>3, <1>4, <1>5, <1>6, <1>7, <1>8, <1>9, <1>10 DEF Enqueue

\* Every step of the worker keeps the types; it has a payload where it uses one.
LEMMA WorkerTypes ==
    ASSUME TypeOK, WorkerInv, Worker
    PROVE  TypeOK'
<1>. USE SizeAssumption DEF callVars, queueVars, shutVars
<1>a. wpc \notin {"unstarted", "idle", "exited"} => job \in Payload
  BY DEF TypeOK, WorkerInv
<1>1. CASE Receive
  <2>1. Head(queue) \in Payload /\ Tail(queue) \in Seq(Payload)
    BY <1>1 DEF Receive, TypeOK
  <2>. QED  BY <1>1, <2>1 DEF Receive, TypeOK
<1>2. CASE ExitLoop  BY <1>2 DEF ExitLoop, TypeOK
<1>3. CASE ReleaseBytes  BY <1>3, <1>a DEF ReleaseBytes, TypeOK
<1>4. CASE Scrubbed
  <2>1. 1 \in 0 .. MaxAttempts  BY BudgetAssumption
  <2>. QED  BY <1>4, <2>1 DEF Scrubbed, TypeOK
<1>5. CASE ScrubFailure  BY <1>5, <1>a, SettleTypes DEF ScrubFailure, Verdict
<1>6. CASE Panic  BY <1>6, <1>a, SettleTypes DEF Panic, Verdict
<1>7. CASE TokenReady  BY <1>7, GotoTypes DEF TokenReady, TypeOK
<1>8. CASE TokenFailure
  <2>1. Goto("giveup", attempt) \/ Goto("tokenwait", attempt)  BY <1>8 DEF TokenFailure
  <2>. QED  BY <1>8, <2>1, GotoTypes DEF TokenFailure, TypeOK
<1>9. CASE Post  BY <1>9, GotoTypes DEF Post, TypeOK
<1>10. CASE PostCut  BY <1>10, RetryTypes DEF PostCut
<1>11. CASE AnswerDone  BY <1>11, <1>a, SettleTypes DEF AnswerDone, Verdict
<1>12. CASE AnswerDiscard  BY <1>12, <1>a, SettleTypes DEF AnswerDiscard, Verdict
<1>13. CASE AnswerRetry  BY <1>13, RetryTypes DEF AnswerRetry
<1>14. CASE AnswerAuthFirst  BY <1>14, NextAttemptTypes DEF AnswerAuthFirst
<1>15. CASE AnswerAuthAgain  BY <1>15, <1>a, SettleTypes DEF AnswerAuthAgain, Verdict
<1>16. CASE BackoffElapsed  BY <1>16, NextAttemptTypes DEF BackoffElapsed, TypeOK
<1>17. CASE TokenWaitCut  BY <1>17, GotoTypes DEF TokenWaitCut, TypeOK
<1>18. CASE RetryWaitCut  BY <1>18, <1>a, SettleTypes DEF RetryWaitCut, Verdict
<1>19. CASE GiveUp  BY <1>19, <1>a, SettleTypes DEF GiveUp, Verdict
<1>. QED
  BY <1>1, <1>2, <1>3, <1>4, <1>5, <1>6, <1>7, <1>8, <1>9, <1>10, <1>11, <1>12,
     <1>13, <1>14, <1>15, <1>16, <1>17, <1>18, <1>19 DEF Worker, Deliver, Answer

\* Close and every step of Shutdown keep the types.
LEMMA ShutdownTypes ==
    ASSUME TypeOK, Close \/ ShutdownStep
    PROVE  TypeOK'
<1>. USE SizeAssumption DEF TypeOK, callVars, queueVars, workerVars
<1>1. CASE Close  BY <1>1 DEF Close
<1>2. CASE DrainedInTime  BY <1>2 DEF DrainedInTime
<1>3. CASE Deadline  BY <1>3 DEF Deadline
<1>4. CASE DrainedLate  BY <1>4 DEF DrainedLate
<1>5. CASE Sweep
  <2>1. Head(queue) \in Payload /\ Tail(queue) \in Seq(Payload)
    BY <1>5 DEF Sweep
  <2>. QED  BY <1>5, <2>1 DEF Sweep
<1>6. CASE CountSwept
  <2>1. stats' \in [Counter -> Int]
    <3>1. stats.shutdown + Len(swept) \in Int  BY DEF Counter
    <3>. QED  BY <1>6, <3>1 DEF CountSwept
  <2>2. fate' \in [Payload -> {"new", "pending"} \cup Refusal \cup Verdict]
    BY <1>6 DEF CountSwept, Verdict
  <2>3. swept' \in Seq(Payload)  BY <1>6 DEF CountSwept
  <2>. QED  BY <1>6, <2>1, <2>2, <2>3 DEF CountSwept
<1>. QED  BY <1>1, <1>2, <1>3, <1>4, <1>5, <1>6 DEF ShutdownStep

\* Every step keeps the types.
THEOREM TypesPreserved ==
    ASSUME TypeOK, WorkerInv, [Next]_vars
    PROVE  TypeOK'
<1>1. CASE \E p \in Payload : Enqueue(p)  BY <1>1, EnqueueTypes
<1>2. CASE Start  BY <1>2 DEF Start, TypeOK, callVars, queueVars, shutVars
<1>3. CASE Worker  BY <1>3, WorkerTypes
<1>4. CASE Close \/ ShutdownStep  BY <1>4, ShutdownTypes
<1>5. CASE UNCHANGED vars  BY <1>5 DEF vars, TypeOK
<1>. QED  BY <1>1, <1>2, <1>3, <1>4, <1>5 DEF Next

-----------------------------------------------------------------------------
(* The locks, the closing of the channel and the lives of the goroutines *)

\* A caller's step keeps the control: one caller at a time in the section under
\* statsMu, and none between admission and send once the channel is closed.
LEMMA EnqueueControl ==
    ASSUME TypeOK, ControlInv, NEW p \in Payload, Enqueue(p)
    PROVE  ControlInv'
<1>. USE DEF InEnqueue, callVars, queueVars, workerVars, shutVars
<1>1. StatsExclusive'
  BY DEF ControlInv, StatsExclusive, StatsFree, TypeOK, Enqueue, RefuseEmpty,
     RefuseDisabled, RefuseClosed, Admit, Reserve, RefuseBytes, Send, RefuseItems,
     CountEnqueued, CountQueueFull
<1>2. ClosedInv'
  BY DEF ControlInv, ClosedInv, NoReader, TypeOK, Enqueue, RefuseEmpty,
     RefuseDisabled, RefuseClosed, Admit, Reserve, RefuseBytes, Send, RefuseItems,
     CountEnqueued, CountQueueFull
<1>3. UNCHANGED <<workerVars, shutVars>>
  BY DEF Enqueue, RefuseEmpty, RefuseDisabled, RefuseClosed, Admit, Reserve,
     RefuseBytes, Send, RefuseItems, CountEnqueued, CountQueueFull
<1>4. WorkerInv'  BY <1>3 DEF ControlInv, WorkerInv, WorkerGone
<1>5. SweepInv'
  <2>1. Send(p) => ~Done
    BY DEF Send, Done, ControlInv, ClosedInv, NoReader, TypeOK
  <2>2. ~Send(p) => queue' = queue
    BY DEF Enqueue, RefuseEmpty, RefuseDisabled, RefuseClosed, Admit, Reserve,
       RefuseBytes, RefuseItems, CountEnqueued, CountQueueFull
  <2>. QED  BY <1>3, <2>1, <2>2 DEF ControlInv, SweepInv, Done
<1>. QED  BY <1>1, <1>2, <1>4, <1>5 DEF ControlInv

\* The worker touches neither the locks nor Shutdown's variables.
LEMMA WorkerFrame ==
    ASSUME Worker
    PROVE  /\ UNCHANGED <<call, closed, stopped, shut, swept>>
           /\ wpc \notin {"unstarted", "exited"}
           /\ wpc' # "unstarted"
<1>. USE DEF Settle, Goto, NextAttempt, Retry, callVars, queueVars, shutVars
<1>1. CASE Receive \/ ExitLoop  BY <1>1 DEF Receive, ExitLoop
<1>2. CASE ReleaseBytes \/ Scrubbed \/ ScrubFailure \/ Panic
  BY <1>2 DEF ReleaseBytes, Scrubbed, ScrubFailure, Panic
<1>3. CASE TokenReady \/ TokenFailure \/ Post \/ PostCut
  BY <1>3 DEF TokenReady, TokenFailure, Post, PostCut
<1>4. CASE Answer
  BY <1>4 DEF Answer, AnswerDone, AnswerDiscard, AnswerRetry, AnswerAuthFirst,
     AnswerAuthAgain
<1>5. CASE BackoffElapsed \/ TokenWaitCut \/ RetryWaitCut \/ GiveUp
  BY <1>5 DEF BackoffElapsed, TokenWaitCut, RetryWaitCut, GiveUp
<1>. QED  BY <1>1, <1>2, <1>3, <1>4, <1>5 DEF Worker, Deliver

\* The worker holds a payload exactly while it delivers.
LEMMA WorkerHolds ==
    ASSUME TypeOK, Worker, job = NoJob <=> wpc \in {"unstarted", "idle", "exited"}
    PROVE  job' = NoJob <=> wpc' \in {"unstarted", "idle", "exited"}
<1>. USE NoJobAssumption DEF Settle, Goto, NextAttempt, Retry
<1>1. CASE Receive \/ ExitLoop
  <2>1. queue # <<>> => Head(queue) \in Payload  BY DEF TypeOK
  <2>. QED  BY <1>1, <2>1 DEF Receive, ExitLoop
<1>2. CASE ReleaseBytes \/ Scrubbed \/ ScrubFailure \/ Panic
  BY <1>2 DEF ReleaseBytes, Scrubbed, ScrubFailure, Panic
<1>3. CASE TokenReady \/ TokenFailure \/ Post \/ PostCut
  BY <1>3 DEF TokenReady, TokenFailure, Post, PostCut
<1>4. CASE Answer
  BY <1>4 DEF Answer, AnswerDone, AnswerDiscard, AnswerRetry, AnswerAuthFirst,
     AnswerAuthAgain
<1>5. CASE BackoffElapsed \/ TokenWaitCut \/ RetryWaitCut \/ GiveUp
  BY <1>5 DEF BackoffElapsed, TokenWaitCut, RetryWaitCut, GiveUp
<1>. QED  BY <1>1, <1>2, <1>3, <1>4, <1>5 DEF Worker, Deliver

\* The worker's step touches no caller and no shutdown, and keeps its payload
\* while it works on one.
LEMMA WorkerControl ==
    ASSUME TypeOK, ControlInv, Worker
    PROVE  ControlInv'
<1>1. UNCHANGED <<call, closed, stopped, shut, swept>> /\ ~WorkerGone
  BY WorkerFrame DEF WorkerGone
<1>2. StatsExclusive' /\ ClosedInv'
  BY <1>1 DEF ControlInv, StatsExclusive, ClosedInv, NoReader
<1>3. shut \in {"idle", "draining", "hardstop"}
  BY <1>1 DEF ControlInv, WorkerInv, TypeOK
<1>4. WorkerInv'  BY <1>1, <1>3, WorkerHolds DEF ControlInv, WorkerInv
<1>5. SweepInv'  BY <1>1, <1>3 DEF ControlInv, SweepInv, Done
<1>. QED  BY <1>2, <1>4, <1>5 DEF ControlInv

\* Start, Close and Shutdown keep the control: the channel is closed when no
\* caller is on the way to it, and swept when the worker is gone.
LEMMA ShutdownControl ==
    ASSUME TypeOK, ControlInv, Start \/ Close \/ ShutdownStep
    PROVE  ControlInv'
<1>. USE DEF callVars, queueVars, workerVars, shutVars, ControlInv, StatsExclusive,
             ClosedInv, NoReader, WorkerInv, WorkerGone, SweepInv, Done
<1>1. CASE Start  BY <1>1 DEF Start
<1>2. CASE Close  BY <1>2 DEF Close
<1>3. CASE DrainedInTime  BY <1>3 DEF DrainedInTime
<1>4. CASE Deadline  BY <1>4 DEF Deadline
<1>5. CASE DrainedLate  BY <1>5 DEF DrainedLate
<1>6. CASE Sweep  BY <1>6 DEF Sweep
<1>7. CASE CountSwept  BY <1>7 DEF CountSwept
<1>. QED  BY <1>1, <1>2, <1>3, <1>4, <1>5, <1>6, <1>7 DEF ShutdownStep

\* Every step keeps the control.
THEOREM ControlPreserved ==
    ASSUME TypeOK, ControlInv, [Next]_vars
    PROVE  ControlInv'
<1>1. CASE \E p \in Payload : Enqueue(p)  BY <1>1, EnqueueControl
<1>2. CASE Worker  BY <1>2, WorkerControl
<1>3. CASE Start \/ Close \/ ShutdownStep  BY <1>3, ShutdownControl
<1>4. CASE UNCHANGED vars
  BY <1>4 DEF vars, ControlInv, StatsExclusive, ClosedInv, NoReader, WorkerInv,
     WorkerGone, SweepInv, Done
<1>. QED  BY <1>1, <1>2, <1>3, <1>4 DEF Next

-----------------------------------------------------------------------------
(* The counters *)

\* Raising a counter that payloads do not leave through changes nothing.
LEMMA SideCounter ==
    ASSUME TypeOK, NEW c \in {"queueFull", "signalDisabled"},
           Bump(c)
    PROVE  Pending' = Pending
  BY DEF TypeOK, Bump, Pending, Counter

\* The counters, and what Pending makes of them, are numbers.
LEMMA PendingIsInteger ==
    ASSUME TypeOK
    PROVE  /\ \A c \in {"enqueued", "sent", "scrub", "shutdown", "discarded", "failed"} :
                c \in Counter /\ stats[c] \in Int
           /\ Pending \in Int
  BY DEF TypeOK, Counter, Pending

\* A verdict takes one payload out of Pending.
LEMMA VerdictCounter ==
    ASSUME TypeOK, NEW v \in Verdict, Bump(v)
    PROVE  Pending' = Pending - 1
<1>1. v = "sent" \/ v = "scrub" \/ v = "discarded" \/ v = "failed" \/ v = "shutdown"
  BY DEF Verdict
<1>2. \A c \in Counter : stats'[c] = IF c = v THEN stats[c] + 1 ELSE stats[c]
  BY DEF Bump, TypeOK
<1>. QED  BY <1>1, <1>2, PendingIsInteger DEF Pending

\* A counted enqueue puts one in.
LEMMA EnqueuedCounter ==
    ASSUME TypeOK, Bump("enqueued")
    PROVE  Pending' = Pending + 1
<1>1. \A c \in Counter :
        stats'[c] = IF c = "enqueued" THEN stats[c] + 1 ELSE stats[c]
  BY DEF Bump, TypeOK
<1>. QED  BY <1>1, PendingIsInteger DEF Pending

\* The sweep takes all it found out at once.
LEMMA SweptCounter ==
    ASSUME TypeOK, NEW n \in Int, stats' = [stats EXCEPT !.shutdown = @ + n]
    PROVE  Pending' = Pending - n
<1>1. stats \in [Counter -> Int] /\ "shutdown" \in Counter  BY DEF TypeOK, Counter
<1>2. \A c \in Counter : stats'[c] = IF c = "shutdown" THEN stats[c] + n ELSE stats[c]
  BY <1>1
<1>. QED  BY <1>2, PendingIsInteger DEF Pending

\* A caller's step keeps the count: the send and its counter are apart, and the
\* invariant knows of the payload in between.
LEMMA EnqueueCount ==
    ASSUME TypeOK, ControlInv, CountInv, NEW p \in Payload, Enqueue(p)
    PROVE  CountInv'
<1>. USE DEF CountInv, Waiting, Running, callVars, queueVars, workerVars, shutVars
<1>1. CASE RefuseEmpty(p) \/ RefuseClosed(p) \/ Admit(p) \/ Reserve(p)
             \/ RefuseBytes(p) \/ RefuseItems(p)
  <2>1. Uncounted' = Uncounted
    BY <1>1 DEF Uncounted, TypeOK, RefuseEmpty, RefuseClosed, Admit, Reserve,
       RefuseBytes, RefuseItems
  <2>2. UNCHANGED <<stats, queue, job, swept>>
    BY <1>1 DEF RefuseEmpty, RefuseClosed, Admit, Reserve, RefuseBytes, RefuseItems
  <2>. QED  BY <2>1, <2>2 DEF Pending
<1>2. CASE RefuseDisabled(p) \/ CountQueueFull(p)
  <2>1. Uncounted' = Uncounted
    BY <1>2 DEF Uncounted, TypeOK, RefuseDisabled, CountQueueFull
  <2>2. UNCHANGED <<queue, job, swept>>
    BY <1>2 DEF RefuseDisabled, CountQueueFull
  <2>3. Pending' = Pending
    BY <1>2, SideCounter DEF RefuseDisabled, CountQueueFull
  <2>. QED  BY <2>1, <2>2, <2>3
<1>3. CASE Send(p)
  <2>1. Uncounted = 0
    BY <1>3 DEF Send, Uncounted, ControlInv, StatsExclusive
  <2>2. Uncounted' = 1  BY <1>3 DEF Send, Uncounted, TypeOK
  <2>3. Len(queue') = Len(queue) + 1  BY <1>3 DEF Send, TypeOK
  <2>4. UNCHANGED <<stats, job, swept>>  BY <1>3 DEF Send
  <2>5. Pending \in Int /\ Len(queue) \in Int /\ Len(swept) \in Int
    BY DEF TypeOK, Pending, Counter
  <2>. QED  BY <2>1, <2>2, <2>3, <2>4, <2>5 DEF Pending
<1>4. CASE CountEnqueued(p)
  <2>1. Uncounted = 1  BY <1>4 DEF CountEnqueued, Uncounted
  <2>2. Uncounted' = 0
    BY <1>4 DEF CountEnqueued, Uncounted, TypeOK, ControlInv, StatsExclusive
  <2>3. Pending' = Pending + 1  BY <1>4, EnqueuedCounter DEF CountEnqueued
  <2>4. UNCHANGED <<queue, job, swept>>  BY <1>4 DEF CountEnqueued
  <2>5. Pending \in Int  BY DEF TypeOK, Pending, Counter
  <2>. QED  BY <2>1, <2>2, <2>3, <2>4, <2>5
<1>. QED  BY <1>1, <1>2, <1>3, <1>4 DEF Enqueue

\* A verdict takes one payload out of Waiting and one out of Pending.
LEMMA SettleCount ==
    ASSUME TypeOK, CountInv, NEW v \in Verdict, job \in Payload, Settle(v)
    PROVE  CountInv'
<1>1. Uncounted = 0 /\ Uncounted' = 0
  BY DEF Settle, StatsFree, Uncounted, callVars
<1>2. Pending' = Pending - 1  BY VerdictCounter DEF Settle
<1>3. Len(Running) = 1 /\ Len(Running') = 0
  BY NoJobAssumption DEF Settle, Running
<1>4. UNCHANGED <<queue, swept>>  BY DEF Settle, queueVars, shutVars
<1>5. Pending \in Int /\ Len(queue) \in Int /\ Len(swept) \in Int
  BY DEF TypeOK, Pending, Counter
<1>. QED  BY <1>1, <1>2, <1>3, <1>4, <1>5 DEF CountInv, Waiting

\* Steps within a delivery raise side counters only.
LEMMA StaysCount ==
    ASSUME TypeOK, CountInv, UNCHANGED <<call, queue, job, swept>>, Pending' = Pending
    PROVE  CountInv'
  BY DEF CountInv, Waiting, Running, Uncounted

\* A step within a delivery keeps the count.
LEMMA GotoCount ==
    ASSUME TypeOK, CountInv, NEW pc, NEW n, Goto(pc, n), Pending' = Pending
    PROVE  CountInv'
  BY StaysCount DEF Goto, callVars, queueVars, shutVars

\* So does the decision to retry.
LEMMA RetryCount ==
    ASSUME TypeOK, CountInv, Retry
    PROVE  CountInv'
  BY GotoCount DEF Retry, Pending

\* So does the next attempt.
LEMMA NextAttemptCount ==
    ASSUME TypeOK, CountInv, NextAttempt, UNCHANGED stats
    PROVE  CountInv'
  BY GotoCount DEF NextAttempt, Pending

\* The worker counts what it takes, delivers or drops.
LEMMA WorkerCount ==
    ASSUME TypeOK, ControlInv, CountInv, Worker
    PROVE  CountInv'
<1>a. wpc \notin {"unstarted", "idle", "exited"} => job \in Payload
  BY DEF TypeOK, ControlInv, WorkerInv
<1>1. CASE Receive
  <2>1. Uncounted' = Uncounted  BY <1>1 DEF Receive, Uncounted, callVars
  <2>2. Head(queue) # NoJob  BY <1>1, NoJobAssumption DEF Receive, TypeOK
  <2>3. Len(Running) = 0 /\ Len(Running') = 1
    BY <1>1, <2>2 DEF Receive, Running, ControlInv, WorkerInv
  <2>4. Len(queue') = Len(queue) - 1  BY <1>1 DEF Receive, TypeOK
  <2>5. UNCHANGED <<stats, swept>>  BY <1>1 DEF Receive, shutVars
  <2>6. Len(queue) \in Int /\ Len(swept) \in Int  BY DEF TypeOK
  <2>. QED  BY <2>1, <2>3, <2>4, <2>5, <2>6 DEF CountInv, Waiting, Pending
<1>2. CASE ExitLoop \/ ReleaseBytes \/ Scrubbed
  BY <1>2, StaysCount DEF ExitLoop, ReleaseBytes, Scrubbed, callVars, queueVars,
     shutVars, Pending
<1>3. CASE ScrubFailure  BY <1>3, <1>a, SettleCount DEF ScrubFailure, Verdict
<1>4. CASE Panic  BY <1>4, <1>a, SettleCount DEF Panic, Verdict
<1>5. CASE TokenReady \/ Post \/ TokenWaitCut
  BY <1>5, GotoCount DEF TokenReady, Post, TokenWaitCut, Pending
<1>6. CASE TokenFailure  BY <1>6, GotoCount DEF TokenFailure, Pending
<1>7. CASE PostCut \/ AnswerRetry  BY <1>7, RetryCount DEF PostCut, AnswerRetry
<1>8. CASE AnswerDone  BY <1>8, <1>a, SettleCount DEF AnswerDone, Verdict
<1>9. CASE AnswerDiscard  BY <1>9, <1>a, SettleCount DEF AnswerDiscard, Verdict
<1>10. CASE AnswerAuthFirst \/ BackoffElapsed
  BY <1>10, NextAttemptCount DEF AnswerAuthFirst, BackoffElapsed
<1>11. CASE AnswerAuthAgain  BY <1>11, <1>a, SettleCount DEF AnswerAuthAgain, Verdict
<1>12. CASE RetryWaitCut  BY <1>12, <1>a, SettleCount DEF RetryWaitCut, Verdict
<1>13. CASE GiveUp  BY <1>13, <1>a, SettleCount DEF GiveUp, Verdict
<1>. QED
  BY <1>1, <1>2, <1>3, <1>4, <1>5, <1>6, <1>7, <1>8, <1>9, <1>10, <1>11, <1>12, <1>13
     DEF Worker, Deliver, Answer

\* Start, Close and the sweep keep the count.
LEMMA ShutdownCount ==
    ASSUME TypeOK, CountInv, Start \/ Close \/ ShutdownStep
    PROVE  CountInv'
<1>. USE DEF callVars, queueVars, workerVars, shutVars
<1>a. Pending \in Int /\ Len(queue) \in Int /\ Len(swept) \in Int
  BY PendingIsInteger DEF TypeOK
<1>b. Len(Running) \in Int /\ Uncounted \in Int  BY DEF Running, Uncounted
<1>1. CASE Start \/ Close \/ DrainedInTime \/ Deadline \/ DrainedLate
  BY <1>1, StaysCount DEF Start, Close, DrainedInTime, Deadline, DrainedLate, Pending
<1>2. CASE Sweep
  <2>1. Len(queue') = Len(queue) - 1 /\ Len(swept') = Len(swept) + 1
    BY <1>2 DEF Sweep, TypeOK
  <2>2. Uncounted' = Uncounted /\ Running' = Running
    BY <1>2 DEF Sweep, Uncounted, Running
  <2>3. Pending' = Pending  BY <1>2 DEF Sweep, Pending
  <2>. QED  BY <1>a, <1>b, <2>1, <2>2, <2>3 DEF CountInv, Waiting
<1>3. CASE CountSwept
  <2>1. Uncounted' = Uncounted /\ Running' = Running
    BY <1>3 DEF CountSwept, Uncounted, Running
  <2>2. Pending' = Pending - Len(swept)  BY <1>3, <1>a, SweptCounter DEF CountSwept
  <2>3. Len(swept') = 0 /\ Len(queue') = Len(queue)  BY <1>3 DEF CountSwept
  <2>. QED  BY <1>a, <1>b, <2>1, <2>2, <2>3 DEF CountInv, Waiting
<1>. QED  BY <1>1, <1>2, <1>3 DEF ShutdownStep

-----------------------------------------------------------------------------
(* The theorems *)

\* The invariant holds in a new forwarder.
THEOREM Initially == Init => IInv
<1>. SUFFICES ASSUME Init PROVE IInv  OBVIOUS
<1>1. TypeOK
  <2>1. attempt \in 0 .. MaxAttempts  BY BudgetAssumption DEF Init
  <2>2. queue \in Seq(Payload) /\ swept \in Seq(Payload)  BY DEF Init
  <2>3. stats \in [Counter -> Int]  BY DEF Init
  <2>4. /\ call \in [Payload -> {"new", "refused", "accepted"} \cup InEnqueue]
        /\ fate \in [Payload -> {"new", "pending"} \cup Refusal \cup Verdict]
    BY DEF Init
  <2>5. /\ wpc = "unstarted" /\ shut = "idle" /\ job = NoJob
        /\ closed = FALSE /\ authRefreshed = FALSE /\ stopped = FALSE
    BY DEF Init
  <2>6. queuedBytes \in Int  BY DEF Init
  <2>. QED  BY <2>1, <2>2, <2>3, <2>4, <2>5, <2>6, Zenon DEF TypeOK
<1>2. ControlInv
  BY DEF Init, ControlInv, StatsExclusive, ClosedInv, WorkerInv, SweepInv, Done
<1>3. CountInv
  BY DEF Init, CountInv, Waiting, Running, Uncounted, Pending, Counter
<1>. QED  BY <1>1, <1>2, <1>3 DEF IInv

\* Every step keeps the invariant.
THEOREM Inductive == IInv /\ [Next]_vars => IInv'
<1>. SUFFICES ASSUME IInv, [Next]_vars PROVE IInv'  OBVIOUS
<1>1. TypeOK' /\ ControlInv'
  BY TypesPreserved, ControlPreserved DEF IInv, ControlInv
<1>2. CountInv'
  <2>1. CASE \E p \in Payload : Enqueue(p)  BY <2>1, EnqueueCount DEF IInv
  <2>2. CASE Worker  BY <2>2, WorkerCount DEF IInv
  <2>3. CASE Start \/ Close \/ ShutdownStep  BY <2>3, ShutdownCount DEF IInv
  <2>4. CASE UNCHANGED vars  BY <2>4, StaysCount DEF vars, IInv, Pending
  <2>. QED  BY <2>1, <2>2, <2>3, <2>4 DEF Next
<1>. QED  BY <1>1, <1>2 DEF IInv

\* The invariant holds throughout.
THEOREM InvariantHolds == Spec => []IInv
  BY Initially, Inductive, PTL DEF Spec

\* Every variable of the forwarder keeps its type.
THEOREM TypeCorrect == Spec => []TypeOK
<1>1. IInv => TypeOK  BY DEF IInv
<1>. QED  BY <1>1, InvariantHolds, PTL

\* Pending, as a Stats snapshot computes it from six counters, is the number of
\* payloads that wait or are being delivered.
THEOREM SnapshotsConsistent == Spec => []SnapshotConsistent
<1>1. IInv => SnapshotConsistent
  <2>1. StatsFree => Uncounted = 0  BY DEF StatsFree, Uncounted
  <2>2. TypeOK => Pending \in Int  BY DEF TypeOK, Pending, Counter
  <2>. QED  BY <2>1, <2>2 DEF IInv, CountInv, Waiting, SnapshotConsistent
<1>. QED  BY <1>1, InvariantHolds, PTL

\* No Enqueue call is between its check of closed and its send when Shutdown
\* closes the channel.
THEOREM NeverSendsOnClosed == Spec => []NoSendOnClosed
<1>1. IInv => NoSendOnClosed
  BY DEF IInv, ControlInv, ClosedInv, NoReader, InEnqueue, NoSendOnClosed
<1>. QED  BY <1>1, InvariantHolds, PTL

\* When Shutdown has returned, every payload is accounted for and all is quiet.
THEOREM QuietOnceShutDown == Spec => []QuietAfterShutdown
<1>1. IInv => QuietAfterShutdown
  <2>. SUFFICES ASSUME IInv, Done PROVE Pending = 0 /\ WorkerGone /\ NoReader
    BY DEF QuietAfterShutdown
  <2>1. WorkerGone  BY DEF Done, IInv, ControlInv, WorkerInv
  <2>2. NoReader  BY DEF Done, IInv, ControlInv, ClosedInv
  <2>3. queue = <<>> /\ swept = <<>>  BY DEF Done, IInv, ControlInv, SweepInv
  <2>4. Len(Running) = 0
    BY <2>1 DEF IInv, ControlInv, WorkerInv, WorkerGone, Running
  <2>5. Uncounted = 0  BY <2>2 DEF NoReader, InEnqueue, Uncounted
  <2>6. Pending \in Int  BY DEF IInv, TypeOK, Pending, Counter
  <2>. QED  BY <2>1, <2>2, <2>3, <2>4, <2>5, <2>6 DEF IInv, CountInv, Waiting
<1>. QED  BY <1>1, InvariantHolds, PTL

-----------------------------------------------------------------------------
(* The bytes in the channel *)

\* Total is the last of the running sums.
LEMMA TotalIsLastSum ==
    ASSUME NEW s \in Seq(Int)
    PROVE  \E f : RunningSums(f, s) /\ Total(s) = f[Len(s)]
<1>1. PICK f : /\ RunningSums(f, s)
               /\ f = CHOOSE h : h = [n \in 0 .. Len(s) |-> IF n = 0 THEN 0 ELSE h[n - 1] + s[n]]
  BY SumsByRecursion
<1>2. Total(s) = f[Len(s)]  BY <1>1 DEF Total
<1>. QED  BY <1>1, <1>2

\* The sizes of a line of payloads.
Sizes(q) == [i \in 1 .. Len(q) |-> Size[q[i]]]

\* They are numbers, one for each payload.
LEMMA SizesOfLine ==
    ASSUME NEW q \in Seq(Payload)
    PROVE  /\ Sizes(q) \in Seq(Int) /\ Len(Sizes(q)) = Len(q)
           /\ \A i \in 1 .. Len(q) : Sizes(q)[i] = Size[q[i]]
           /\ BytesOf(q) = Total(Sizes(q))
<1>1. \A i \in 1 .. Len(q) : Size[q[i]] \in Int  BY SizeAssumption
<1>. QED  BY <1>1 DEF Sizes, BytesOf

\* A payload at the end adds its size.
LEMMA BytesAppend ==
    ASSUME NEW q \in Seq(Payload), NEW p \in Payload
    PROVE  BytesOf(Append(q, p)) = BytesOf(q) + Size[p]
<1>. DEFINE r == Append(q, p)
           n == Len(q)
           s == Sizes(r)
           t == Sizes(q)
<1>1. r \in Seq(Payload) /\ Len(r) = n + 1 /\ r[n + 1] = p /\ n \in Nat
      /\ \A i \in 1 .. n : r[i] = q[i]
  OBVIOUS
<1>2. /\ s \in Seq(Int) /\ Len(s) = n + 1 /\ BytesOf(r) = Total(s)
      /\ \A i \in 1 .. n + 1 : s[i] = Size[r[i]]
  <2>. HIDE DEF r, n
  <2>. QED  BY <1>1, SizesOfLine
<1>3. /\ t \in Seq(Int) /\ Len(t) = n /\ BytesOf(q) = Total(t)
      /\ \A i \in 1 .. n : t[i] = Size[q[i]]
  BY SizesOfLine
<1>. HIDE DEF r, n, s, t
<1>4. PICK f : RunningSums(f, s) /\ Total(s) = f[n + 1]  BY <1>2, TotalIsLastSum
<1>5. PICK g : RunningSums(g, t) /\ Total(t) = g[n]  BY <1>3, TotalIsLastSum
<1>6. f[n] = g[n]
  <2>1. n <= Len(s) /\ n <= Len(t)  BY <1>1, <1>2, <1>3
  <2>2. ASSUME NEW i \in 1 .. n PROVE t[i] = s[i]
    <3>1. i \in 1 .. n + 1  BY <1>1
    <3>. QED  BY <1>1, <1>2, <1>3, <3>1
  <2>. QED  BY <1>1, <1>2, <1>3, <1>4, <1>5, <2>1, <2>2, RunningSumsAgree
<1>7. f[n + 1] = f[n] + s[n + 1]  BY <1>1, <1>2, <1>4, RunningSumsStep
<1>8. s[n + 1] = Size[p]  BY <1>1, <1>2
<1>. QED  BY <1>2, <1>3, <1>4, <1>5, <1>6, <1>7, <1>8 DEF r

\* A line without its head lacks the head's size.
LEMMA BytesTail ==
    ASSUME NEW q \in Seq(Payload), q # <<>>
    PROVE  BytesOf(q) = Size[Head(q)] + BytesOf(Tail(q))
<1>. DEFINE r == Tail(q)
           n == Len(r)
           s == Sizes(q)
           t == Sizes(r)
<1>1. r \in Seq(Payload) /\ Len(q) = n + 1 /\ q[1] = Head(q) /\ n \in Nat
      /\ \A i \in 1 .. n : r[i] = q[i + 1]
  BY HeadTailProperties
<1>2. /\ s \in Seq(Int) /\ Len(s) = n + 1 /\ BytesOf(q) = Total(s)
      /\ \A i \in 1 .. n + 1 : s[i] = Size[q[i]]
  <2>. HIDE DEF n
  <2>. QED  BY <1>1, SizesOfLine
<1>3. /\ t \in Seq(Int) /\ Len(t) = n /\ BytesOf(r) = Total(t)
      /\ \A i \in 1 .. n : t[i] = Size[r[i]]
  BY <1>1, SizesOfLine
<1>. HIDE DEF r, n, s, t
<1>4. PICK f : RunningSums(f, s) /\ Total(s) = f[n + 1]  BY <1>2, TotalIsLastSum
<1>5. PICK g : RunningSums(g, t) /\ Total(t) = g[n]  BY <1>3, TotalIsLastSum
<1>6. f[n + 1] = f[1] + g[n]
  <2>1. \A i \in 1 .. n : t[i] = s[i + 1]
    <3>. SUFFICES ASSUME NEW i \in 1 .. n PROVE t[i] = s[i + 1]  OBVIOUS
    <3>1. i + 1 \in 1 .. n + 1  BY <1>1
    <3>. QED  BY <1>1, <1>2, <1>3, <3>1, ZenonT(60)
  <2>2. n + 1 <= Len(s) /\ n <= Len(t)  BY <1>1, <1>2, <1>3
  <2>. QED  BY <1>1, <1>2, <1>3, <1>4, <1>5, <2>1, <2>2, RunningSumsShift, SMTT(30)
<1>7. f[1] = Size[Head(q)]
  <2>1. 1 \in 1 .. Len(s) /\ 1 - 1 = 0  BY <1>1, <1>2
  <2>2. s[1] = Size[Head(q)] /\ s[1] \in Int  BY <1>1, <1>2, <2>1
  <2>3. f[0] = 0 /\ f[1] = f[1 - 1] + s[1]  BY <1>4, <2>1 DEF RunningSums
  <2>. QED  BY <2>1, <2>2, <2>3
<1>. QED  BY <1>2, <1>3, <1>4, <1>5, <1>6, <1>7 DEF r

\* Bytes are a natural number, none for an empty line.
LEMMA BytesAreInteger ==
    ASSUME NEW q \in Seq(Payload)
    PROVE  BytesOf(q) \in Int /\ (q = <<>> => BytesOf(q) = 0)
<1>1. PICK f : RunningSums(f, Sizes(q)) /\ Total(Sizes(q)) = f[Len(q)]
  BY SizesOfLine, TotalIsLastSum
<1>2. Len(q) \in 0 .. Len(Sizes(q))  BY SizesOfLine
<1>. QED  BY <1>1, <1>2, SizesOfLine DEF RunningSums

\* What the worker has taken from the channel and not subtracted yet.
ReceivedBytes == IF wpc = "received" THEN Size[job] ELSE 0

\* The counter is the channel, and the payload that is reserved or just taken.
ByteInv ==
    /\ queuedBytes <= MaxQueueBytes
    /\ \A p \in Payload :
          call[p] = "reserved" => queuedBytes = QueueBytes + Size[p] + ReceivedBytes
    /\ (\A p \in Payload : call[p] # "reserved") => queuedBytes = QueueBytes + ReceivedBytes

\* The sizes in play are numbers.
LEMMA BytesTypes ==
    ASSUME TypeOK, ControlInv
    PROVE  /\ QueueBytes \in Int /\ ReceivedBytes \in Nat
           /\ queuedBytes \in Int /\ MaxQueueBytes \in Int
           /\ \A p \in Payload : Size[p] \in Nat
<1>1. wpc = "received" => job \in Payload  BY DEF TypeOK, ControlInv, WorkerInv
<1>2. ReceivedBytes \in Nat  BY <1>1, SizeAssumption DEF ReceivedBytes
<1>3. QueueBytes \in Int  BY BytesAreInteger DEF QueueBytes, TypeOK
<1>. QED  BY <1>2, <1>3, SizeAssumption, BudgetAssumption DEF TypeOK

\* A step that moves no payload and no reservation keeps the bytes.
LEMMA ByteFrame ==
    ASSUME ByteInv, UNCHANGED <<queue, queuedBytes>>,
           \A p \in Payload : call'[p] = "reserved" <=> call[p] = "reserved",
           ReceivedBytes' = ReceivedBytes
    PROVE  ByteInv'
  BY DEF ByteInv, QueueBytes

\* A reservation, its use and its return.
LEMMA EnqueueBytes ==
    ASSUME TypeOK, ControlInv, ByteInv, NEW p \in Payload, Enqueue(p)
    PROVE  ByteInv'
<1>. USE DEF callVars, queueVars, workerVars, shutVars
<1>1. CASE RefuseEmpty(p) \/ RefuseDisabled(p) \/ RefuseClosed(p) \/ Admit(p)
             \/ RefuseBytes(p) \/ CountEnqueued(p) \/ CountQueueFull(p)
  <2>1. UNCHANGED <<queue, queuedBytes, wpc, job>>
    BY <1>1 DEF RefuseEmpty, RefuseDisabled, RefuseClosed, Admit, RefuseBytes,
       CountEnqueued, CountQueueFull
  <2>2. \A q \in Payload : call'[q] = "reserved" <=> call[q] = "reserved"
    BY <1>1 DEF TypeOK, RefuseEmpty, RefuseDisabled, RefuseClosed, Admit, RefuseBytes,
       CountEnqueued, CountQueueFull
  <2>. QED  BY <2>1, <2>2, ByteFrame DEF ReceivedBytes
<1>2. CASE Reserve(p)
  <2>1. \A q \in Payload : call[q] # "reserved"  BY <1>2 DEF Reserve, StatsFree
  <2>2. queuedBytes = QueueBytes + ReceivedBytes  BY <2>1 DEF ByteInv
  <2>3. \A q \in Payload : call'[q] = "reserved" <=> q = p
    BY <1>2, <2>1 DEF Reserve, TypeOK
  <2>4. /\ queuedBytes' = queuedBytes + Size[p] /\ queuedBytes' <= MaxQueueBytes
        /\ QueueBytes' = QueueBytes /\ ReceivedBytes' = ReceivedBytes
    BY <1>2 DEF Reserve, QueueBytes, ReceivedBytes
  <2>5. queuedBytes' = QueueBytes' + Size[p] + ReceivedBytes'
    BY <2>2, <2>4, BytesTypes
  <2>. QED  BY <2>3, <2>4, <2>5 DEF ByteInv
<1>3. CASE Send(p)
  <2>1. queuedBytes = QueueBytes + Size[p] + ReceivedBytes
    BY <1>3 DEF Send, ByteInv
  <2>2. \A q \in Payload : call'[q] # "reserved"
    BY <1>3 DEF Send, TypeOK, ControlInv, StatsExclusive
  <2>3. /\ queuedBytes' = queuedBytes /\ queuedBytes <= MaxQueueBytes
        /\ ReceivedBytes' = ReceivedBytes
    BY <1>3 DEF Send, ReceivedBytes, ByteInv
  <2>4. QueueBytes' = QueueBytes + Size[p]
    BY <1>3, BytesAppend DEF Send, QueueBytes, TypeOK
  <2>5. queuedBytes' = QueueBytes' + ReceivedBytes'
    BY <2>1, <2>3, <2>4, BytesTypes
  <2>. QED  BY <2>2, <2>3, <2>5 DEF ByteInv
<1>4. CASE RefuseItems(p)
  <2>1. queuedBytes = QueueBytes + Size[p] + ReceivedBytes
    BY <1>4 DEF RefuseItems, ByteInv
  <2>2. \A q \in Payload : call'[q] # "reserved"
    BY <1>4 DEF RefuseItems, TypeOK, ControlInv, StatsExclusive
  <2>3. /\ queuedBytes' = queuedBytes - Size[p] /\ QueueBytes' = QueueBytes
        /\ ReceivedBytes' = ReceivedBytes /\ queuedBytes <= MaxQueueBytes
    BY <1>4 DEF RefuseItems, QueueBytes, ReceivedBytes, ByteInv
  <2>4. queuedBytes' = QueueBytes' + ReceivedBytes' /\ queuedBytes' <= MaxQueueBytes
    BY <2>1, <2>3, BytesTypes
  <2>. QED  BY <2>2, <2>4 DEF ByteInv
<1>. QED  BY <1>1, <1>2, <1>3, <1>4 DEF Enqueue

\* A payload that leaves the channel for the worker keeps its bytes until they are
\* released.
LEMMA WorkerBytes ==
    ASSUME TypeOK, ControlInv, ByteInv, Worker
    PROVE  ByteInv'
<1>. USE DEF callVars, queueVars, shutVars
<1>a. UNCHANGED call  BY WorkerFrame
<1>1. CASE Receive
  <2>1. QueueBytes = Size[Head(queue)] + QueueBytes'
    BY <1>1, BytesTail DEF Receive, QueueBytes, TypeOK
  <2>2. ReceivedBytes = 0 /\ ReceivedBytes' = Size[Head(queue)]
    BY <1>1 DEF Receive, ReceivedBytes
  <2>3. Head(queue) \in Payload /\ Tail(queue) \in Seq(Payload)
    BY <1>1 DEF Receive, TypeOK
  <2>4. QueueBytes' \in Int  BY <1>1, <2>3, BytesAreInteger DEF Receive, QueueBytes
  <2>5. \A p \in Payload : QueueBytes + Size[p] + ReceivedBytes
                             = QueueBytes' + Size[p] + ReceivedBytes'
    BY <2>1, <2>2, <2>3, <2>4, BytesTypes
  <2>6. QueueBytes + ReceivedBytes = QueueBytes' + ReceivedBytes'
    BY <2>1, <2>2, <2>3, <2>4, BytesTypes
  <2>7. queuedBytes' = queuedBytes  BY <1>1 DEF Receive
  <2>. QED  BY <1>a, <2>5, <2>6, <2>7 DEF ByteInv
<1>2. CASE ReleaseBytes
  <2>1. /\ ReceivedBytes = Size[job] /\ ReceivedBytes' = 0
        /\ queuedBytes' = queuedBytes - Size[job] /\ QueueBytes' = QueueBytes
    BY <1>2 DEF ReleaseBytes, ReceivedBytes, QueueBytes
  <2>2. job \in Payload  BY <1>2 DEF ReleaseBytes, TypeOK, ControlInv, WorkerInv
  <2>3. queuedBytes' <= MaxQueueBytes
    BY <2>1, <2>2, BytesTypes DEF ByteInv
  <2>4. ASSUME NEW p \in Payload, call[p] = "reserved"
        PROVE  queuedBytes' = QueueBytes' + Size[p] + ReceivedBytes'
    <3>1. queuedBytes = QueueBytes + Size[p] + ReceivedBytes  BY <2>4 DEF ByteInv
    <3>. QED  BY <2>1, <2>2, <3>1, BytesTypes
  <2>5. ASSUME \A p \in Payload : call[p] # "reserved"
        PROVE  queuedBytes' = QueueBytes' + ReceivedBytes'
    <3>1. queuedBytes = QueueBytes + ReceivedBytes  BY <2>5 DEF ByteInv
    <3>. QED  BY <2>1, <2>2, <3>1, BytesTypes
  <2>. QED  BY <1>a, <2>3, <2>4, <2>5 DEF ByteInv
<1>3. CASE ~Receive /\ ~ReleaseBytes
  <2>1. UNCHANGED <<queue, queuedBytes>> /\ wpc # "received" /\ wpc' # "received"
    BY <1>3 DEF Worker, Deliver, ExitLoop, Scrubbed, ScrubFailure, Panic, TokenReady,
       TokenFailure, Post, PostCut, Answer, AnswerDone, AnswerDiscard, AnswerRetry,
       AnswerAuthFirst, AnswerAuthAgain, BackoffElapsed, TokenWaitCut, RetryWaitCut,
       GiveUp, Settle, Goto, NextAttempt, Retry
  <2>2. ReceivedBytes' = ReceivedBytes  BY <2>1 DEF ReceivedBytes
  <2>. QED  BY <1>a, <2>1, <2>2, ByteFrame
<1>. QED  BY <1>1, <1>2, <1>3

\* The sweep subtracts what it takes.
LEMMA ShutdownBytes ==
    ASSUME TypeOK, ControlInv, ByteInv, Start \/ Close \/ ShutdownStep
    PROVE  ByteInv'
<1>. USE DEF callVars, queueVars, workerVars, shutVars
<1>1. CASE Sweep
  <2>1. QueueBytes = Size[Head(queue)] + QueueBytes'
    BY <1>1, BytesTail DEF Sweep, QueueBytes, TypeOK
  <2>2. Head(queue) \in Payload /\ Tail(queue) \in Seq(Payload)
    BY <1>1 DEF Sweep, TypeOK
  <2>3. QueueBytes' \in Int  BY <1>1, <2>2, BytesAreInteger DEF Sweep, QueueBytes
  <2>4. /\ queuedBytes' = queuedBytes - Size[Head(queue)]
        /\ ReceivedBytes' = ReceivedBytes /\ call' = call
    BY <1>1 DEF Sweep, ReceivedBytes
  <2>5. \A p \in Payload : call[p] # "reserved"
    <3>1. shut # "idle"  BY <1>1 DEF Sweep
    <3>. QED  BY <3>1 DEF ControlInv, ClosedInv, NoReader, InEnqueue
  <2>6. queuedBytes = QueueBytes + ReceivedBytes /\ queuedBytes <= MaxQueueBytes
    BY <2>5 DEF ByteInv
  <2>7. Size[Head(queue)] \in Nat /\ ReceivedBytes \in Nat  BY <2>2, BytesTypes
  <2>8. queuedBytes' = QueueBytes' + ReceivedBytes'
    BY <2>1, <2>3, <2>4, <2>6, <2>7
  <2>9. queuedBytes' <= MaxQueueBytes  BY <2>4, <2>6, <2>7, BytesTypes
  <2>. QED  BY <2>4, <2>5, <2>8, <2>9 DEF ByteInv
<1>2. CASE ~Sweep
  <2>1. UNCHANGED <<call, queue, queuedBytes, job>>
    BY <1>2 DEF Start, Close, ShutdownStep, DrainedInTime, Deadline, DrainedLate, CountSwept
  <2>2. wpc' = "received" <=> wpc = "received"
    BY <1>2 DEF Start, Close, ShutdownStep, DrainedInTime, Deadline, DrainedLate, CountSwept
  <2>3. ReceivedBytes' = ReceivedBytes  BY <2>1, <2>2 DEF ReceivedBytes
  <2>. QED  BY <2>1, <2>3, ByteFrame
<1>. QED  BY <1>1, <1>2

\* The bytes of the channel stay within the limit, the counter runs ahead of it
\* only, and nothing is left of it after Shutdown.
THEOREM BytesStayInBudget == Spec => []ByteBudget
<1>1. Init => ByteInv
  <2>. SUFFICES ASSUME Init PROVE ByteInv  OBVIOUS
  <2>1. <<>> \in Seq(Payload)  OBVIOUS
  <2>2. QueueBytes = 0  BY <2>1, BytesAreInteger DEF Init, QueueBytes
  <2>3. ReceivedBytes = 0 /\ queuedBytes = 0  BY DEF Init, ReceivedBytes
  <2>4. \A p \in Payload : call[p] # "reserved"  BY DEF Init
  <2>. QED  BY <2>2, <2>3, <2>4, BudgetAssumption DEF ByteInv
<1>2. IInv /\ ByteInv /\ [Next]_vars => ByteInv'
  <2>. SUFFICES ASSUME IInv, ByteInv, [Next]_vars PROVE ByteInv'  OBVIOUS
  <2>1. CASE \E p \in Payload : Enqueue(p)  BY <2>1, EnqueueBytes DEF IInv
  <2>2. CASE Worker  BY <2>2, WorkerBytes DEF IInv
  <2>3. CASE Start \/ Close \/ ShutdownStep  BY <2>3, ShutdownBytes DEF IInv
  <2>4. CASE UNCHANGED vars  BY <2>4, ByteFrame DEF vars, ReceivedBytes
  <2>. QED  BY <2>1, <2>2, <2>3, <2>4 DEF Next
<1>3. IInv /\ ByteInv => ByteBudget
  <2>. SUFFICES ASSUME IInv, ByteInv PROVE ByteBudget  OBVIOUS
  <2>1. QueueBytes <= queuedBytes
    <3>1. CASE \E p \in Payload : call[p] = "reserved"
      BY <3>1, BytesTypes DEF ByteInv, IInv
    <3>2. CASE \A p \in Payload : call[p] # "reserved"
      BY <3>2, BytesTypes DEF ByteInv, IInv
    <3>. QED  BY <3>1, <3>2
  <2>2. ASSUME Done PROVE queuedBytes = 0
    <3>1. NoReader /\ WorkerGone /\ queue = <<>>
      BY <2>2 DEF Done, IInv, ControlInv, ClosedInv, WorkerInv, SweepInv
    <3>2. queuedBytes = QueueBytes + ReceivedBytes
      BY <3>1 DEF NoReader, InEnqueue, ByteInv
    <3>3. ReceivedBytes = 0  BY <3>1 DEF WorkerGone, ReceivedBytes
    <3>4. QueueBytes = 0  BY <3>1, BytesAreInteger DEF QueueBytes, IInv, TypeOK
    <3>. QED  BY <3>2, <3>3, <3>4
  <2>. QED  BY <2>1, <2>2 DEF ByteBudget, ByteInv
<1>. QED  BY <1>1, <1>2, <1>3, InvariantHolds, PTL DEF Spec

-----------------------------------------------------------------------------
(* The refinement *)

\* The payloads without a verdict, as the refinement mapping lines them up.
Line == swept \o Running \o queue

Excused == wpc = "unstarted" \/ shut \in {"hardstop", "sweepinglate", "expired"}

\* A payload waits in one place, exactly as long as it has no verdict.
LineInv ==
    /\ Distinct(Line)
    /\ \A p \in Payload : fate[p] = "pending" <=> Contains(Line, p)
    /\ \A p \in Payload : call[p] \in {"new", "admitted", "reserved"} => fate[p] = "new"

\* Nothing is left for the sweep of a Shutdown in time, if there was a worker, and
\* only Shutdown cuts a wait short.
StopInv ==
    /\ stopped => shut \notin {"idle", "draining"}
    /\ wpc = "exited" => shut # "idle"
    /\ wpc = "exited" /\ shut \in {"draining", "sweeping", "returned"} =>
          queue = <<>> /\ swept = <<>>

RefInv == LineInv /\ StopInv

\* The line is one sequence, and of two of its three parts at most.
LEMMA LineShape ==
    ASSUME TypeOK, ControlInv
    PROVE  /\ Line \in Seq(Payload)
           /\ job = NoJob => Line = swept \o queue
           /\ job # NoJob => swept = <<>> /\ Line = <<job>> \o queue
           /\ shut \in {"idle", "draining", "hardstop"} /\ job = NoJob => Line = queue
<1>1. Running \in Seq(Payload)  BY DEF Running, TypeOK
<1>2. swept \in Seq(Payload) /\ queue \in Seq(Payload)  BY DEF TypeOK
<1>3. job # NoJob => swept = <<>>  BY DEF ControlInv, WorkerInv, SweepInv, WorkerGone, TypeOK
<1>4. shut \in {"idle", "draining", "hardstop"} => swept = <<>>
  BY DEF ControlInv, SweepInv
<1>5. job = NoJob => Line = swept \o queue
  BY <1>2, ConcatEmptySeq DEF Line, Running
<1>6. job # NoJob => Line = <<job>> \o queue
  BY <1>1, <1>3, ConcatEmptySeq DEF Line, Running
<1>7. Line \in Seq(Payload)  BY <1>1, <1>2, ConcatProperties DEF Line
<1>. QED  BY <1>2, <1>3, <1>4, <1>5, <1>6, <1>7, ConcatEmptySeq

\* Steps that leave the line, the verdicts and the excuse alone are no steps of
\* the abstract line.
LEMMA Stutters ==
    ASSUME Line' = Line, fate' = fate, closed' = closed, Excused' = Excused
    PROVE  UNCHANGED Delivery!vars
  BY DEF Line, Excused, Delivery!vars

\* A caller refuses a payload, puts it at the end of the line, or does what the
\* line does not see.
LEMMA EnqueueRefines ==
    ASSUME TypeOK, ControlInv, RefInv, NEW p \in Payload, Enqueue(p)
    PROVE  [Delivery!Next]_(Delivery!vars)
<1>. USE DEF callVars, queueVars, workerVars, shutVars
<1>a. Excused' = Excused
  BY DEF Excused, Enqueue, RefuseEmpty, RefuseDisabled, RefuseClosed, Admit, Reserve,
     RefuseBytes, Send, RefuseItems, CountEnqueued, CountQueueFull
<1>1. CASE Admit(p) \/ Reserve(p) \/ CountEnqueued(p) \/ CountQueueFull(p)
  <2>1. Line' = Line /\ fate' = fate /\ closed' = closed
    BY <1>1 DEF Line, Running, Admit, Reserve, CountEnqueued, CountQueueFull
  <2>. QED  BY <1>a, <2>1, Stutters
<1>2. ASSUME NEW r \in Refusal, fate[p] = "new", fate' = [fate EXCEPT ![p] = r],
             Line' = Line, closed' = closed
      PROVE  Delivery!Next
  <2>1. Delivery!Refuse(p)
    BY <1>a, <1>2 DEF Delivery!Refuse, Line, Excused, Delivery!Refusal, Refusal
  <2>. QED  BY <2>1 DEF Delivery!Next
<1>3. CASE RefuseEmpty(p)
  BY <1>2, <1>3 DEF RefuseEmpty, Refusal, RefInv, LineInv, Line, Running
<1>4. CASE RefuseDisabled(p)
  BY <1>2, <1>4 DEF RefuseDisabled, Refusal, RefInv, LineInv, Line, Running
<1>5. CASE RefuseClosed(p)
  BY <1>2, <1>5 DEF RefuseClosed, Refusal, RefInv, LineInv, Line, Running
<1>6. CASE RefuseBytes(p)
  BY <1>2, <1>6 DEF RefuseBytes, Refusal, RefInv, LineInv, Line, Running
<1>7. CASE RefuseItems(p)
  BY <1>2, <1>7 DEF RefuseItems, Refusal, RefInv, LineInv, Line, Running
<1>8. CASE Send(p)
  <2>1. ~closed /\ shut = "idle"
    BY <1>8 DEF Send, ControlInv, ClosedInv, NoReader, InEnqueue
  <2>2. swept = <<>>  BY <2>1 DEF ControlInv, SweepInv
  <2>3. Line' = Append(Line, p)
    BY <1>8, <2>2 DEF Send, Line, Running, TypeOK
  <2>4. Len(Line) <= QueueSize
    BY <1>8, <2>2, BudgetAssumption DEF Send, Line, Running, TypeOK
  <2>5. fate[p] = "new"  BY <1>8 DEF Send, RefInv, LineInv
  <2>6. Delivery!Admit(p)
    BY <1>8, <1>a, <2>1, <2>3, <2>4, <2>5 DEF Send, Delivery!Admit, Line, Excused
  <2>. QED  BY <2>6 DEF Delivery!Next
<1>. QED
  BY <1>1, <1>3, <1>4, <1>5, <1>6, <1>7, <1>8 DEF Enqueue

\* The worker's verdict is the verdict on the head of the line.
LEMMA SettleRefines ==
    ASSUME TypeOK, ControlInv, NEW v \in Verdict, job \in Payload, Settle(v),
           wpc \notin {"unstarted", "exited"}, v = "shutdown" => Excused
    PROVE  [Delivery!Next]_(Delivery!vars)
<1>. USE DEF callVars, queueVars, shutVars
<1>1. job # NoJob  BY NoJobAssumption
<1>2. swept = <<>> /\ Line = <<job>> \o queue  BY <1>1, LineShape
<1>3. Line # <<>> /\ Head(Line) = job /\ Tail(Line) = queue
  BY <1>2 DEF TypeOK
<1>4. Line' = queue
  <2>1. swept' = <<>> /\ job' = NoJob /\ queue' = queue  BY <1>2 DEF Settle
  <2>. QED  BY <2>1 DEF Line, Running, TypeOK
<1>5. Excused' = Excused /\ closed' = closed  BY DEF Settle, Excused
<1>6. fate' = [fate EXCEPT ![Head(Line)] = v]  BY <1>3 DEF Settle
<1>7. v \in Delivery!Verdict  BY DEF Delivery!Verdict, Verdict
<1>8. Line' = Tail(Line)  BY <1>3, <1>4
<1>9. Delivery!Settle
  BY <1>3, <1>5, <1>6, <1>7, <1>8 DEF Delivery!Settle, Line, Excused
<1>. QED  BY <1>9 DEF Delivery!Next

\* A step within a delivery leaves the line alone.
LEMMA GotoRefines ==
    ASSUME NEW pc, NEW n, Goto(pc, n), pc # "unstarted", wpc # "unstarted"
    PROVE  [Delivery!Next]_(Delivery!vars)
<1>1. Line' = Line /\ fate' = fate /\ closed' = closed /\ Excused' = Excused
  BY DEF Goto, Line, Running, Excused, callVars, queueVars, shutVars
<1>. QED  BY <1>1, Stutters

\* The worker's steps are stutters, up to the one that has a verdict.
LEMMA WorkerRefines ==
    ASSUME TypeOK, ControlInv, RefInv, Worker
    PROVE  [Delivery!Next]_(Delivery!vars)
<1>. USE DEF callVars, queueVars, shutVars
<1>a. wpc \notin {"unstarted", "idle", "exited"} => job \in Payload
  BY DEF TypeOK, ControlInv, WorkerInv
<1>b. wpc \notin {"unstarted", "exited"}  BY WorkerFrame
<1>1. CASE Receive
  <2>1. job = NoJob /\ swept = <<>>
    BY <1>1 DEF Receive, ControlInv, WorkerInv, WorkerGone, SweepInv
  <2>2. job' = Head(queue) /\ queue' = Tail(queue) /\ swept' = <<>>
    BY <1>1, <2>1 DEF Receive
  <2>3. Head(queue) # NoJob  BY <1>1, NoJobAssumption DEF Receive, TypeOK
  <2>4. Line = queue  BY <2>1 DEF Line, Running, TypeOK
  <2>5. Line' = <<Head(queue)>> \o Tail(queue)
    <3>1. Running' = <<Head(queue)>>  BY <2>2, <2>3 DEF Running
    <3>. QED  BY <1>1, <2>2, <3>1 DEF Line, Receive, TypeOK
  <2>6. Line' = Line  BY <1>1, <2>4, <2>5 DEF Receive, TypeOK
  <2>7. fate' = fate /\ closed' = closed /\ Excused' = Excused
    BY <1>1 DEF Receive, Excused
  <2>. QED  BY <2>6, <2>7, Stutters
<1>2. CASE ExitLoop \/ ReleaseBytes \/ Scrubbed
  <2>1. Line' = Line /\ fate' = fate /\ closed' = closed /\ Excused' = Excused
    BY <1>2 DEF ExitLoop, ReleaseBytes, Scrubbed, Line, Running, Excused
  <2>. QED  BY <2>1, Stutters
<1>3. CASE ScrubFailure  BY <1>3, <1>a, <1>b, SettleRefines DEF ScrubFailure, Verdict
<1>4. CASE Panic  BY <1>4, <1>a, <1>b, SettleRefines DEF Panic, Verdict
<1>5. CASE TokenReady \/ Post \/ TokenWaitCut
  BY <1>5, <1>b, GotoRefines DEF TokenReady, Post, TokenWaitCut
<1>6. CASE TokenFailure
  <2>1. Goto("giveup", attempt) \/ Goto("tokenwait", attempt)  BY <1>6 DEF TokenFailure
  <2>. QED  BY <1>b, <2>1, GotoRefines
<1>7. CASE PostCut \/ AnswerRetry
  <2>1. Goto("giveup", attempt) \/ Goto("retrywait", attempt)
    BY <1>7 DEF PostCut, AnswerRetry, Retry
  <2>. QED  BY <1>b, <2>1, GotoRefines
<1>8. CASE AnswerDone  BY <1>8, <1>a, <1>b, SettleRefines DEF AnswerDone, Verdict
<1>9. CASE AnswerDiscard  BY <1>9, <1>a, <1>b, SettleRefines DEF AnswerDiscard, Verdict
<1>10. CASE AnswerAuthFirst \/ BackoffElapsed
  <2>1. Goto("token", attempt + 1) \/ Goto("giveup", attempt)
    BY <1>10 DEF AnswerAuthFirst, BackoffElapsed, NextAttempt
  <2>. QED  BY <1>b, <2>1, GotoRefines
<1>11. CASE AnswerAuthAgain  BY <1>11, <1>a, <1>b, SettleRefines DEF AnswerAuthAgain, Verdict
<1>12. CASE RetryWaitCut
  <2>1. Excused
    BY <1>12 DEF RetryWaitCut, Excused, RefInv, StopInv, ControlInv, WorkerInv, WorkerGone, TypeOK
  <2>. QED  BY <1>12, <1>a, <1>b, <2>1, SettleRefines DEF RetryWaitCut, Verdict
<1>13. CASE GiveUp  BY <1>13, <1>a, <1>b, SettleRefines DEF GiveUp, Verdict
<1>. QED
  BY <1>1, <1>2, <1>3, <1>4, <1>5, <1>6, <1>7, <1>8, <1>9, <1>10, <1>11, <1>12, <1>13
     DEF Worker, Deliver, Answer

\* Start begins, Close closes, the deadline expires, and what the sweep has found
\* is abandoned at once when it is counted.
LEMMA ShutdownRefines ==
    ASSUME TypeOK, ControlInv, RefInv, Start \/ Close \/ ShutdownStep
    PROVE  [Delivery!Next]_(Delivery!vars)
<1>. USE DEF callVars, queueVars, workerVars, shutVars
<1>1. CASE Start
  <2>1. Line' = Line /\ fate' = fate /\ closed' = closed /\ ~closed /\ ~Excused'
    BY <1>1 DEF Start, Line, Running, Excused, ControlInv, ClosedInv
  <2>2. Delivery!Begin  BY <2>1 DEF Delivery!Begin, Line, Excused
  <2>. QED  BY <2>2 DEF Delivery!Next
<1>2. CASE Close
  <2>1. Line' = Line /\ fate' = fate /\ closed' /\ ~closed /\ Excused' = Excused
    BY <1>2 DEF Close, Line, Running, Excused, ControlInv, ClosedInv
  <2>2. Delivery!Close  BY <2>1 DEF Delivery!Close, Line, Excused
  <2>. QED  BY <2>2 DEF Delivery!Next
<1>3. CASE Deadline
  <2>1. Line' = Line /\ fate' = fate /\ closed' = closed /\ closed /\ Excused'
    BY <1>3 DEF Deadline, Line, Running, Excused, ControlInv, ClosedInv
  <2>2. Delivery!Expire  BY <2>1 DEF Delivery!Expire, Line, Excused
  <2>. QED  BY <2>2 DEF Delivery!Next
<1>4. CASE DrainedInTime \/ DrainedLate
  <2>1. Line' = Line /\ fate' = fate /\ closed' = closed /\ Excused' = Excused
    BY <1>4 DEF DrainedInTime, DrainedLate, Line, Running, Excused
  <2>. QED  BY <2>1, Stutters
<1>5. CASE Sweep
  <2>1. job = NoJob /\ job' = job
    BY <1>5 DEF Sweep, ControlInv, WorkerInv, WorkerGone
  <2>2. Line = swept \o queue  BY <2>1, LineShape
  <2>3. Line' = Append(swept, Head(queue)) \o Tail(queue)
    BY <1>5, <2>1 DEF Sweep, Line, Running, TypeOK
  <2>4. Line' = Line  BY <1>5, <2>2, <2>3, SMTT(30) DEF Sweep, TypeOK
  <2>5. fate' = fate /\ closed' = closed /\ Excused' = Excused
    BY <1>5 DEF Sweep, Excused
  <2>. QED  BY <2>4, <2>5, Stutters
<1>6. CASE CountSwept
  <2>1. job = NoJob /\ job' = job /\ queue = <<>> /\ queue' = <<>> /\ swept' = <<>>
    BY <1>6 DEF CountSwept, ControlInv, WorkerInv, WorkerGone
  <2>2. Line = swept /\ Line' = <<>>
    BY <2>1 DEF Line, Running, TypeOK
  <2>3. closed' = closed /\ Excused' = Excused
    BY <1>6 DEF CountSwept, Excused
  <2>4. fate' = [p \in Payload |-> IF fate[p] = "pending" THEN "shutdown" ELSE fate[p]]
    <3>1. DOMAIN swept = 1 .. Len(swept)  BY DEF TypeOK
    <3>2. \A p \in Payload : (\E i \in DOMAIN swept : swept[i] = p) <=> fate[p] = "pending"
      BY <2>2, <3>1 DEF RefInv, LineInv, Contains
    <3>. QED  BY <1>6, <3>2 DEF CountSwept
  <2>5. CASE swept = <<>>
    <3>1. Line' = Line  BY <2>2, <2>5
    <3>2. fate' = fate  
      <4>1. \A p \in Payload : fate[p] # "pending"
        BY <2>2, <2>5 DEF RefInv, LineInv, Contains
      <4>. QED  BY <2>4, <4>1 DEF TypeOK
    <3>. QED  BY <2>3, <3>1, <3>2, Stutters
  <2>6. CASE swept # <<>>
    <3>1. closed  BY <1>6 DEF CountSwept, ControlInv, ClosedInv
    <3>2. Excused
      BY <1>6, <2>6 DEF CountSwept, RefInv, StopInv, ControlInv, WorkerInv, WorkerGone, Excused
    <3>3. Delivery!Abandon
      BY <2>2, <2>3, <2>4, <2>6, <3>1, <3>2 DEF Delivery!Abandon, Line, Excused
    <3>. QED  BY <3>3 DEF Delivery!Next
  <2>. QED  BY <2>5, <2>6
<1>. QED  BY <1>1, <1>2, <1>3, <1>4, <1>5, <1>6 DEF ShutdownStep

\* A step that moves no payload in or out of the line.
LEMMA LineStays ==
    ASSUME LineInv, Line' = Line, fate' = fate,
           \A p \in Payload : call'[p] \in {"new", "admitted", "reserved"}
                                 => call[p] \in {"new", "admitted", "reserved"}
    PROVE  LineInv'
  BY DEF LineInv

\* A refusal is a verdict on a payload outside the line.
LEMMA RefusalKeepsLine ==
    ASSUME TypeOK, LineInv, NEW p \in Payload, NEW r \in Refusal, Line' = Line,
           call[p] \in {"new", "admitted", "reserved"},
           NEW c \in {"refused", "overflow"}, call' = [call EXCEPT ![p] = c],
           fate' = [fate EXCEPT ![p] = r]
    PROVE  LineInv'
<1>1. fate[p] = "new" /\ r # "pending"  BY DEF LineInv, Refusal
<1>2. \A q \in Payload : fate'[q] = "pending" <=> fate[q] = "pending"
  BY <1>1 DEF TypeOK
<1>3. \A q \in Payload : call'[q] \in {"new", "admitted", "reserved"} =>
          call'[q] = call[q] /\ q # p
  BY DEF TypeOK
<1>4. \A q \in Payload : q # p => fate'[q] = fate[q]  BY DEF TypeOK
<1>. QED  BY <1>2, <1>3, <1>4 DEF LineInv

\* A caller joins the line once, or never.
LEMMA EnqueueLine ==
    ASSUME TypeOK, ControlInv, LineInv, NEW p \in Payload, Enqueue(p)
    PROVE  LineInv'
<1>. USE DEF callVars, queueVars, workerVars, shutVars
<1>1. CASE Admit(p) \/ Reserve(p) \/ CountEnqueued(p) \/ CountQueueFull(p)
  <2>1. Line' = Line /\ fate' = fate
    BY <1>1 DEF Line, Running, Admit, Reserve, CountEnqueued, CountQueueFull
  <2>2. \A q \in Payload : call'[q] \in {"new", "admitted", "reserved"}
                              => call[q] \in {"new", "admitted", "reserved"}
    BY <1>1 DEF TypeOK, Admit, Reserve, CountEnqueued, CountQueueFull
  <2>. QED  BY <2>1, <2>2, LineStays
<1>2. CASE RefuseEmpty(p) \/ RefuseDisabled(p) \/ RefuseClosed(p) \/ RefuseBytes(p)
             \/ RefuseItems(p)
  <2>1. Line' = Line
    BY <1>2 DEF Line, Running, RefuseEmpty, RefuseDisabled, RefuseClosed, RefuseBytes,
       RefuseItems
  <2>. QED
    BY <1>2, <2>1, RefusalKeepsLine DEF Refusal, RefuseEmpty, RefuseDisabled,
       RefuseClosed, RefuseBytes, RefuseItems
<1>3. CASE Send(p)
  <2>1. swept = <<>>
    BY <1>3 DEF Send, ControlInv, ClosedInv, NoReader, InEnqueue, SweepInv
  <2>2. Line' = Append(Line, p)
    BY <1>3, <2>1 DEF Send, Line, Running, TypeOK
  <2>3. fate[p] = "new" /\ ~Contains(Line, p)  BY <1>3 DEF Send, LineInv
  <2>4. Line \in Seq(Payload)  BY LineShape
  <2>5. Distinct(Line') /\ \A q : Contains(Line', q) <=> Contains(Line, q) \/ q = p
    BY <2>2, <2>3, <2>4, AppendContains DEF LineInv
  <2>6. \A q \in Payload : fate'[q] = IF q = p THEN "pending" ELSE fate[q]
    BY <1>3 DEF Send, TypeOK
  <2>7. \A q \in Payload : call'[q] = IF q = p THEN "sent" ELSE call[q]
    BY <1>3 DEF Send, TypeOK
  <2>. QED  BY <2>5, <2>6, <2>7 DEF LineInv
<1>. QED  BY <1>1, <1>2, <1>3 DEF Enqueue

\* The head leaves the line with its verdict.
LEMMA SettleLine ==
    ASSUME TypeOK, ControlInv, LineInv, NEW v \in Verdict, job \in Payload, Settle(v)
    PROVE  LineInv'
<1>. USE DEF callVars, queueVars, shutVars
<1>1. job # NoJob  BY NoJobAssumption
<1>2. swept = <<>> /\ Line = <<job>> \o queue  BY <1>1, LineShape
<1>3. Line # <<>> /\ Head(Line) = job /\ Tail(Line) = queue
  BY <1>2 DEF TypeOK
<1>4. Line' = queue
  <2>1. swept' = <<>> /\ job' = NoJob /\ queue' = queue  BY <1>2 DEF Settle
  <2>. QED  BY <2>1 DEF Line, Running, TypeOK
<1>5. Line \in Seq(Payload)  BY LineShape
<1>6. Distinct(Line') /\ \A q : Contains(Line', q) <=> Contains(Line, q) /\ q # job
  <2>1. Distinct(Tail(Line)) /\ \A q : Contains(Tail(Line), q) <=> Contains(Line, q) /\ q # Head(Line)
    BY <1>3, <1>5, TailContains DEF LineInv
  <2>. QED  BY <1>3, <1>4, <2>1
<1>7. fate[job] = "pending" /\ v # "pending"
  <2>1. 1 \in 1 .. Len(Line) /\ Line[1] = job  BY <1>3, <1>5
  <2>. QED  BY <2>1 DEF LineInv, Contains, Verdict
<1>8. \A q \in Payload : fate'[q] = IF q = job THEN v ELSE fate[q]
  BY DEF Settle, TypeOK
<1>9. call' = call  BY DEF Settle
<1>10. \A q \in Payload : call[q] \in {"new", "admitted", "reserved"} => q # job
  BY <1>7 DEF LineInv
<1>. QED  BY <1>6, <1>7, <1>8, <1>9, <1>10 DEF LineInv

\* A step within a delivery keeps the line.
LEMMA GotoLine ==
    ASSUME LineInv, NEW pc, NEW n, Goto(pc, n)
    PROVE  LineInv'
<1>1. Line' = Line /\ fate' = fate /\ call' = call
  BY DEF Goto, Line, Running, callVars, queueVars, shutVars
<1>. QED  BY <1>1, LineStays

\* So does everything else the worker does.
LEMMA WorkerLine ==
    ASSUME TypeOK, ControlInv, LineInv, Worker
    PROVE  LineInv'
<1>. USE DEF callVars, queueVars, shutVars
<1>a. wpc \notin {"unstarted", "idle", "exited"} => job \in Payload
  BY DEF TypeOK, ControlInv, WorkerInv
<1>1. CASE Receive
  <2>1. job = NoJob /\ swept = <<>>
    BY <1>1 DEF Receive, ControlInv, WorkerInv, WorkerGone, SweepInv
  <2>2. job' = Head(queue) /\ queue' = Tail(queue) /\ swept' = <<>>
    BY <1>1, <2>1 DEF Receive
  <2>3. Head(queue) # NoJob  BY <1>1, NoJobAssumption DEF Receive, TypeOK
  <2>4. Line = queue  BY <2>1 DEF Line, Running, TypeOK
  <2>5. Line' = <<Head(queue)>> \o Tail(queue)
    <3>1. Running' = <<Head(queue)>>  BY <2>2, <2>3 DEF Running
    <3>. QED  BY <1>1, <2>2, <3>1 DEF Line, Receive, TypeOK
  <2>6. Line' = Line  BY <1>1, <2>4, <2>5 DEF Receive, TypeOK
  <2>7. fate' = fate /\ call' = call  BY <1>1 DEF Receive
  <2>. QED  BY <2>6, <2>7, LineStays
<1>2. CASE ExitLoop \/ ReleaseBytes \/ Scrubbed
  <2>1. Line' = Line /\ fate' = fate /\ call' = call
    BY <1>2 DEF ExitLoop, ReleaseBytes, Scrubbed, Line, Running
  <2>. QED  BY <2>1, LineStays
<1>3. CASE ScrubFailure  BY <1>3, <1>a, SettleLine DEF ScrubFailure, Verdict
<1>4. CASE Panic  BY <1>4, <1>a, SettleLine DEF Panic, Verdict
<1>5. CASE TokenReady \/ Post \/ TokenWaitCut \/ TokenFailure
  BY <1>5, GotoLine DEF TokenReady, Post, TokenWaitCut, TokenFailure
<1>6. CASE PostCut \/ AnswerRetry
  <2>1. Goto("giveup", attempt) \/ Goto("retrywait", attempt)
    BY <1>6 DEF PostCut, AnswerRetry, Retry
  <2>. QED  BY <2>1, GotoLine
<1>7. CASE AnswerDone  BY <1>7, <1>a, SettleLine DEF AnswerDone, Verdict
<1>8. CASE AnswerDiscard  BY <1>8, <1>a, SettleLine DEF AnswerDiscard, Verdict
<1>9. CASE AnswerAuthFirst \/ BackoffElapsed
  <2>1. Goto("token", attempt + 1) \/ Goto("giveup", attempt)
    BY <1>9 DEF AnswerAuthFirst, BackoffElapsed, NextAttempt
  <2>. QED  BY <2>1, GotoLine
<1>10. CASE AnswerAuthAgain  BY <1>10, <1>a, SettleLine DEF AnswerAuthAgain, Verdict
<1>11. CASE RetryWaitCut  BY <1>11, <1>a, SettleLine DEF RetryWaitCut, Verdict
<1>12. CASE GiveUp  BY <1>12, <1>a, SettleLine DEF GiveUp, Verdict
<1>. QED
  BY <1>1, <1>2, <1>3, <1>4, <1>5, <1>6, <1>7, <1>8, <1>9, <1>10, <1>11, <1>12
     DEF Worker, Deliver, Answer

\* The sweep keeps the order, and empties the line when it counts.
LEMMA ShutdownLine ==
    ASSUME TypeOK, ControlInv, LineInv, Start \/ Close \/ ShutdownStep
    PROVE  LineInv'
<1>. USE DEF callVars, queueVars, workerVars, shutVars
<1>1. CASE Start \/ Close \/ Deadline \/ DrainedInTime \/ DrainedLate
  <2>1. Line' = Line /\ fate' = fate /\ call' = call
    BY <1>1 DEF Start, Close, Deadline, DrainedInTime, DrainedLate, Line, Running
  <2>. QED  BY <2>1, LineStays
<1>2. CASE Sweep
  <2>1. job = NoJob /\ job' = job
    BY <1>2 DEF Sweep, ControlInv, WorkerInv, WorkerGone
  <2>2. Line = swept \o queue  BY <2>1, LineShape
  <2>3. Line' = Append(swept, Head(queue)) \o Tail(queue)
    BY <1>2, <2>1 DEF Sweep, Line, Running, TypeOK
  <2>4. Line' = Line  BY <1>2, <2>2, <2>3, SMTT(30) DEF Sweep, TypeOK
  <2>5. fate' = fate /\ call' = call  BY <1>2 DEF Sweep
  <2>. QED  BY <2>4, <2>5, LineStays
<1>3. CASE CountSwept
  <2>1. job = NoJob /\ job' = job /\ queue = <<>> /\ queue' = <<>> /\ swept' = <<>>
    BY <1>3 DEF CountSwept, ControlInv, WorkerInv, WorkerGone
  <2>2. Line = swept /\ Line' = <<>>
    BY <2>1 DEF Line, Running, TypeOK
  <2>3. call' = call  BY <1>3 DEF CountSwept
  <2>4. \A p \in Payload : fate'[p] = IF Contains(Line, p) THEN "shutdown" ELSE fate[p]
    <3>1. DOMAIN swept = 1 .. Len(swept)  BY DEF TypeOK
    <3>. QED  BY <1>3, <2>2, <3>1 DEF CountSwept, Contains
  <2>5. \A p \in Payload : fate'[p] # "pending"  BY <2>4 DEF LineInv
  <2>6. \A p : ~Contains(<<>>, p)  BY DEF Contains
  <2>7. Distinct(<<>>)  BY DEF Distinct
  <2>8. \A p \in Payload : fate[p] = "new" => fate'[p] = "new"  BY <2>4 DEF LineInv
  <2>. QED  BY <2>2, <2>3, <2>5, <2>6, <2>7, <2>8 DEF LineInv
<1>. QED  BY <1>1, <1>2, <1>3 DEF ShutdownStep

\* No step leaves a payload behind for the sweep of a Shutdown in time.
LEMMA StopPreserved ==
    ASSUME TypeOK, ControlInv, StopInv, [Next]_vars
    PROVE  StopInv'
<1>. USE DEF callVars, queueVars, workerVars, shutVars, StopInv
<1>1. ASSUME NEW p \in Payload, Enqueue(p) PROVE StopInv'
  <2>1. UNCHANGED <<stopped, shut, wpc, swept>>
    BY <1>1 DEF Enqueue, RefuseEmpty, RefuseDisabled, RefuseClosed, Admit, Reserve,
       RefuseBytes, Send, RefuseItems, CountEnqueued, CountQueueFull
  <2>2. shut = "idle" \/ queue' = queue
    BY <1>1 DEF Enqueue, RefuseEmpty, RefuseDisabled, RefuseClosed, Admit, Reserve,
       RefuseBytes, Send, RefuseItems, CountEnqueued, CountQueueFull, ControlInv,
       ClosedInv, NoReader, InEnqueue
  <2>. QED  BY <2>1, <2>2
<1>2. CASE Worker
  <2>1. UNCHANGED <<call, closed, stopped, shut, swept>> /\ ~WorkerGone
    BY <1>2, WorkerFrame DEF WorkerGone
  <2>2. CASE ExitLoop
    <3>1. shut \in {"idle", "draining", "hardstop"} /\ swept = <<>>
      BY <2>1 DEF ControlInv, WorkerInv, SweepInv, TypeOK
    <3>2. queue' = queue  BY <2>2 DEF ExitLoop
    <3>3. stopped => shut = "hardstop"  BY <3>1
    <3>4. closed => shut # "idle"  BY DEF ControlInv, ClosedInv
    <3>. QED  BY <2>1, <2>2, <3>1, <3>2, <3>3, <3>4 DEF ExitLoop
  <2>3. CASE Receive \/ Deliver
    <3>1. wpc' # "exited"
      BY <2>3 DEF Receive, Deliver, ReleaseBytes, Scrubbed, ScrubFailure, Panic, TokenReady,
         TokenFailure, Post, PostCut, Answer, AnswerDone, AnswerDiscard, AnswerRetry,
         AnswerAuthFirst, AnswerAuthAgain, BackoffElapsed, TokenWaitCut, RetryWaitCut,
         GiveUp, Settle, Goto, NextAttempt, Retry
    <3>. QED  BY <2>1, <3>1
  <2>. QED  BY <1>2, <2>2, <2>3 DEF Worker
<1>3. CASE Start  BY <1>3 DEF Start
<1>4. CASE Close
  <2>1. ~closed  BY <1>4 DEF Close, ControlInv, ClosedInv
  <2>. QED  BY <1>4, <2>1 DEF Close
<1>5. CASE Deadline  BY <1>5 DEF Deadline
<1>6. CASE DrainedInTime \/ DrainedLate  BY <1>6 DEF DrainedInTime, DrainedLate
<1>7. CASE Sweep
  <2>1. wpc # "exited" \/ shut # "sweeping"  BY <1>7 DEF Sweep
  <2>. QED  BY <1>7, <2>1 DEF Sweep
<1>8. CASE CountSwept  BY <1>8 DEF CountSwept
<1>9. CASE UNCHANGED vars  BY <1>9 DEF vars
<1>. QED
  BY <1>1, <1>2, <1>3, <1>4, <1>5, <1>6, <1>7, <1>8, <1>9 DEF Next, ShutdownStep

\* No step loses or doubles a payload of the line.
LEMMA LinePreserved ==
    ASSUME TypeOK, ControlInv, LineInv, [Next]_vars
    PROVE  LineInv'
<1>1. CASE \E p \in Payload : Enqueue(p)  BY <1>1, EnqueueLine
<1>2. CASE Worker  BY <1>2, WorkerLine
<1>3. CASE Start \/ Close \/ ShutdownStep  BY <1>3, ShutdownLine
<1>4. CASE UNCHANGED vars
  <2>1. Line' = Line /\ fate' = fate /\ call' = call
    BY <1>4 DEF vars, Line, Running
  <2>. QED  BY <2>1, LineStays
<1>. QED  BY <1>1, <1>2, <1>3, <1>4 DEF Next

\* A new forwarder is an empty line.
LEMMA RefinesAtFirst ==
    ASSUME Init
    PROVE  RefInv /\ Delivery!Init
<1>1. Line = <<>>  BY DEF Init, Line, Running
<1>2. LineInv
  BY <1>1 DEF Init, LineInv, Contains, Distinct
<1>3. StopInv  BY DEF Init, StopInv
<1>4. Delivery!Init
  <2>1. swept \o Running \o queue = <<>>  BY <1>1 DEF Line
  <2>. QED  BY <2>1 DEF Init, Delivery!Init
<1>. QED  BY <1>2, <1>3, <1>4 DEF RefInv

\* Every step is one of the line, or none.
LEMMA StepRefines ==
    ASSUME TypeOK, ControlInv, RefInv, [Next]_vars
    PROVE  [Delivery!Next]_(Delivery!vars)
<1>1. CASE \E p \in Payload : Enqueue(p)  BY <1>1, EnqueueRefines
<1>2. CASE Worker  BY <1>2, WorkerRefines
<1>3. CASE Start \/ Close \/ ShutdownStep  BY <1>3, ShutdownRefines
<1>4. CASE UNCHANGED vars
  <2>1. Line' = Line /\ fate' = fate /\ closed' = closed /\ Excused' = Excused
    BY <1>4 DEF vars, Line, Running, Excused
  <2>. QED  BY <2>1, Stutters
<1>. QED  BY <1>1, <1>2, <1>3, <1>4 DEF Next

\* The forwarder is a bounded first-in first-out line: whatever its callers, its
\* worker and Shutdown do at once, each admitted payload gets exactly one verdict,
\* in the order of admission, and a Shutdown in time drops none.
THEOREM DeliveryImplemented == Spec => ImplementsDelivery
<1>1. Init => RefInv /\ Delivery!Init  BY RefinesAtFirst
<1>2. IInv /\ RefInv /\ [Next]_vars => RefInv' /\ [Delivery!Next]_(Delivery!vars)
  BY StepRefines, LinePreserved, StopPreserved DEF IInv, RefInv
<1>. QED
  BY <1>1, <1>2, InvariantHolds, PTL DEF Spec, ImplementsDelivery, Delivery!Spec

-----------------------------------------------------------------------------
(* Attributes *)

\* What one attribute says.
SaysOne(c, a, f) ==
    IF FieldOf(a.key) = f /\ Counts(a)
    THEN IF f = "tokens" /\ a.value \notin Usage THEN Unset ELSE a.value
    ELSE c.at[f]

LEMMA NoCarrierIs == NoCarrier \in Carrier /\ \A f \in Field : NoCarrier.at[f] = Unset
BY DEF NoCarrier, Carrier, Strings

\* apply takes an attribute as it says (attrs.go).
LEMMA ApplyTakes ==
    ASSUME NEW c \in Carrier, NEW a \in KeyValue
    PROVE  /\ Apply(c, a) \in Carrier
           /\ \A f \in Field \ {"target"} : Apply(c, a).at[f] = SaysOne(c, a, f)
           /\ \/ Apply(c, a).at["target"] = c.at["target"]
              \/ FieldOf(a.key) = "tool_input" /\ Apply(c, a).at["target"] = a.value
<1>. DEFINE f == FieldOf(a.key)
<1>1. a.value \in Strings /\ Unset \in Strings /\ c.at \in [Field -> Strings] /\ c.invalid \in Nat
      /\ c = [at |-> c.at, invalid |-> c.invalid]
  BY DEF KeyValue, Strings, Carrier
<1>2. f # "target"  BY DEF FieldOf
<1>3. ASSUME NEW d \in Carrier, NEW h, NEW v \in Strings
      PROVE  /\ Put(d, h, v) \in Carrier
             /\ \A k \in Field : Put(d, h, v).at[k] = IF k = h THEN v ELSE d.at[k]
  BY <1>3 DEF Put, Carrier
<1>4. f = "tokens" => Counts(a)  BY DEF Counts
<1>5. CASE f = "tokens" /\ a.value \notin Usage
  <2>1. Apply(c, a) = [Put(c, f, Unset) EXCEPT !.invalid = @ + 1]  BY <1>5 DEF Apply
  <2>2. Put(c, f, Unset) \in Carrier  BY <1>1, <1>3
  <2>3. Apply(c, a) \in Carrier /\ Apply(c, a).at = Put(c, f, Unset).at  BY <2>1, <2>2 DEF Carrier
  <2>4. \A k \in Field : Apply(c, a).at[k] = IF k = f THEN Unset ELSE c.at[k]  BY <1>1, <1>3, <2>3
  <2>5. "target" \in Field  BY DEF Field
  <2>. QED  BY <1>2, <1>4, <1>5, <2>3, <2>4, <2>5 DEF SaysOne
<1>6. CASE f = "tokens" /\ a.value \in Usage
  <2>1. Apply(c, a) = Put(c, f, a.value)  BY <1>6 DEF Apply
  <2>5. "target" \in Field  BY DEF Field
  <2>. QED  BY <1>1, <1>2, <1>3, <1>4, <1>6, <2>1, <2>5 DEF SaysOne
<1>7. CASE f \in {"arguments", "output"}
  <2>1. Apply(c, a) = IF a.value = "nil" THEN c ELSE Put(c, f, a.value)  BY <1>7 DEF Apply
  <2>2. a.key = f  BY <1>7 DEF FieldOf
  <2>3. Counts(a) <=> a.value # "nil"  BY <1>7, <2>2 DEF Counts
  <2>5. "target" \in Field  BY DEF Field
  <2>. QED  BY <1>1, <1>2, <1>3, <1>7, <2>1, <2>3, <2>5 DEF SaysOne
<1>8. CASE f = "tool_input" /\ a.value \in WithPath
  <2>1. Apply(c, a) = Put(Put(c, f, a.value), "target", a.value)  BY <1>8 DEF Apply
  <2>2. Put(c, f, a.value) \in Carrier  BY <1>1, <1>3
  <2>3. Counts(a)  BY <1>8 DEF Counts, WithPath
  <2>5. "target" \in Field  BY DEF Field
  <2>6. \A k \in Field : Apply(c, a).at[k] = IF k \in {f, "target"} THEN a.value ELSE c.at[k]
    BY <1>1, <1>3, <2>1, <2>2
  <2>7. Apply(c, a) \in Carrier  BY <1>1, <1>3, <2>1, <2>2
  <2>. QED  BY <1>8, <2>3, <2>5, <2>6, <2>7 DEF SaysOne
<1>9. CASE /\ f \notin {"tokens", "arguments", "output"} 
           /\ ~(f = "tool_input" /\ a.value \in WithPath)
  <2>1. Apply(c, a) = IF a.value \in {"", "nil"} THEN c ELSE Put(c, f, a.value)  BY <1>9 DEF Apply
  <2>2. a.key \notin {"arguments", "output"}  BY <1>9 DEF FieldOf
  <2>3. Counts(a) <=> a.value \notin {"", "nil"}  BY <1>9, <2>2 DEF Counts
  <2>5. "target" \in Field  BY DEF Field
  <2>6. CASE a.value \in {"", "nil"}
    <3>1. Apply(c, a) = c /\ ~Counts(a)  BY <2>1, <2>3, <2>6
    <3>. QED  BY <3>1 DEF SaysOne
  <2>7. CASE a.value \notin {"", "nil"}
    <3>1. Apply(c, a) = Put(c, f, a.value) /\ Counts(a)  BY <2>1, <2>3, <2>7
    <3>2. /\ Put(c, f, a.value) \in Carrier
          /\ \A k \in Field : Put(c, f, a.value).at[k] = IF k = f THEN a.value ELSE c.at[k]
      BY <1>1, <1>3
    <3>. QED  BY <1>2, <1>9, <2>5, <3>1, <3>2 DEF SaysOne
  <2>. QED  BY <2>6, <2>7
<1>. QED  BY <1>5, <1>6, <1>7, <1>8, <1>9

\* What is said with one attribute more.
LEMMA SaidAppend ==
    ASSUME NEW s \in Seq(KeyValue), NEW a \in KeyValue, NEW f
    PROVE  Said(Append(s, a), f) =
             IF FieldOf(a.key) = f /\ Counts(a)
             THEN IF f = "tokens" /\ a.value \notin Usage THEN Unset ELSE a.value
             ELSE Said(s, f)
<1>. DEFINE t == Append(s, a)
            At(u) == {n \in DOMAIN u : FieldOf(u[n].key) = f /\ Counts(u[n])}
            Latest(u) == IF At(u) = {} THEN Unset ELSE u[Max(At(u))].value
<1>1. /\ Len(s) \in Nat /\ DOMAIN s = 1 .. Len(s) /\ DOMAIN t = 1 .. Len(s) + 1 /\ t[Len(s) + 1] = a
      /\ \A i \in 1 .. Len(s) : t[i] = s[i]
  OBVIOUS
<1>2. \A u : Said(u, f) = IF f = "tokens" /\ Latest(u) \notin Usage THEN Unset ELSE Latest(u)
  BY DEF Said
<1>. HIDE DEF t
<1>3. CASE FieldOf(a.key) = f /\ Counts(a)
  <2>1. Len(s) + 1 \in At(t) /\ At(t) \subseteq 0 .. Len(s) + 1  BY <1>1, <1>3
  <2>2. Max(At(t)) \in At(t) /\ Len(s) + 1 <= Max(At(t))
    <3>. HIDE DEF At
    <3>1. Len(s) + 1 \in Nat /\ At(t) # {}  BY <1>1, <2>1
    <3>. QED  BY <2>1, <3>1, MaxOfBounded
  <2>3. Max(At(t)) = Len(s) + 1
    <3>. HIDE DEF At
    <3>. QED  BY <1>1, <2>1, <2>2
  <2>4. Latest(t) = a.value  BY <1>1, <2>1, <2>3
  <2>. HIDE DEF Latest
  <2>. QED  BY <1>2, <1>3, <2>4 DEF t
<1>4. CASE ~(FieldOf(a.key) = f /\ Counts(a))
  <2>1. At(t) = At(s)  BY <1>1, <1>4
  <2>2. At(s) # {} => Max(At(s)) \in 1 .. Len(s)
    <3>1. At(s) \subseteq 0 .. Len(s) /\ At(s) \subseteq 1 .. Len(s)  BY <1>1
    <3>. HIDE DEF At
    <3>. QED  BY <1>1, <3>1, MaxOfBounded
  <2>3. Latest(t) = Latest(s)
    <3>. HIDE DEF At
    <3>. QED  BY <1>1, <2>1, <2>2
  <2>. HIDE DEF Latest
  <2>. QED  BY <1>2, <1>4, <2>3 DEF t
<1>. QED  BY <1>3, <1>4

\* Nothing is said without attributes.
LEMMA SaidNothing ==
    ASSUME NEW f PROVE Said(<<>>, f) = Unset
BY DEF Said

\* A carrier that took another attribute.
LEMMA CarrierTakes ==
    ASSUME NEW c, NEW s \in Seq(KeyValue), NEW a \in KeyValue, CarrierSays(c, s)
    PROVE  CarrierSays(Apply(c, a), Append(s, a))
<1>1. c \in Carrier /\ \A f \in Field \ {"target"} : c.at[f] = Said(s, f)  BY DEF CarrierSays
<1>2. /\ Apply(c, a) \in Carrier
      /\ \A f \in Field \ {"target"} : Apply(c, a).at[f] = SaysOne(c, a, f)
      /\ \/ Apply(c, a).at["target"] = c.at["target"]
         \/ FieldOf(a.key) = "tool_input" /\ Apply(c, a).at["target"] = a.value
  BY <1>1, ApplyTakes
<1>3. \A f \in Field \ {"target"} : Apply(c, a).at[f] = Said(Append(s, a), f)
  BY <1>1, <1>2, SaidAppend DEF SaysOne
<1>4. Range(Append(s, a)) = Range(s) \cup {a}
  BY DEF Range
<1>5. \/ c.at["target"] = Unset
      \/ \E b \in Range(s) : FieldOf(b.key) = "tool_input" /\ b.value = c.at["target"]
  BY DEF CarrierSays
<1>6. \/ Apply(c, a).at["target"] = Unset
      \/ \E b \in Range(Append(s, a)) : FieldOf(b.key) = "tool_input" /\ b.value = Apply(c, a).at["target"]
  BY <1>2, <1>4, <1>5
<1>. QED  BY <1>2, <1>3, <1>6 DEF CarrierSays

\* What apply makes of a carrier, attribute by attribute (applyAll).
LEMMA ApplyAllByOne ==
    ASSUME NEW c \in Carrier, NEW s \in Seq(KeyValue)
    PROVE  \E f \in [0 .. Len(s) -> Carrier] :
             /\ f[0] = c /\ ApplyAll(c, s) = f[Len(s)]
             /\ \A i \in 1 .. Len(s) : f[i] = Apply(f[i - 1], s[i])
<1>. DEFINE Recursion(f) == f = [n \in 0 .. Len(s) |-> IF n = 0 THEN c ELSE Apply(f[n - 1], s[n])]
            step == [p \in Nat \X Carrier |-> IF p[1] \in 1 .. Len(s) THEN Apply(p[2], s[p[1]]) ELSE c]
            after == CHOOSE f : Recursion(f)
<1>1. Len(s) \in Nat /\ \A i \in 1 .. Len(s) : s[i] \in KeyValue  OBVIOUS
<1>2. \A d \in Carrier : \A i \in 1 .. Len(s) : Apply(d, s[i]) \in Carrier  BY <1>1, ApplyTakes
<1>3. step \in [Nat \X Carrier -> Carrier]
  <2>1. ASSUME NEW p \in Nat \X Carrier
        PROVE  (IF p[1] \in 1 .. Len(s) THEN Apply(p[2], s[p[1]]) ELSE c) \in Carrier
    BY <1>2
  <2>. QED  BY <2>1
<1>4. PICK g : Iterates(g, Len(s), Carrier, c, step)
  <2>. HIDE DEF step
  <2>. QED  BY <1>1, <1>3, Iteration
<1>5. g \in [0 .. Len(s) -> Carrier] /\ g[0] = c /\ \A i \in 1 .. Len(s) : g[i] = step[<<i, g[i - 1]>>]
  <2>. HIDE DEF step
  <2>. QED  BY <1>4 DEF Iterates
<1>6. \A i \in 1 .. Len(s) : g[i] = Apply(g[i - 1], s[i])
  <2>. SUFFICES ASSUME NEW i \in 1 .. Len(s) PROVE g[i] = Apply(g[i - 1], s[i])  OBVIOUS
  <2>1. g[i - 1] \in Carrier /\ i \in Nat  BY <1>5
  <2>2. step[<<i, g[i - 1]>>] = Apply(g[i - 1], s[i])  BY <2>1
  <2>. HIDE DEF step
  <2>. QED  BY <1>5, <2>2
<1>7. Recursion(g)
  <2>. HIDE DEF step
  <2>1. \A n \in 0 .. Len(s) : g[n] = IF n = 0 THEN c ELSE Apply(g[n - 1], s[n])
    <3>1. \A n \in 0 .. Len(s) : n # 0 => n \in 1 .. Len(s)  OBVIOUS
    <3>. QED  BY <1>5, <1>6, <3>1
  <2>2. g = [n \in 0 .. Len(s) |-> g[n]]  BY <1>5
  <2>3. [n \in 0 .. Len(s) |-> g[n]] = [n \in 0 .. Len(s) |-> IF n = 0 THEN c ELSE Apply(g[n - 1], s[n])]
    BY <2>1
  <2>. QED  BY <2>2, <2>3
<1>8. Recursion(after)
  <2>. HIDE DEF Recursion
  <2>. QED  BY <1>7
<1>9. ApplyAll(c, s) = after[Len(s)]  BY DEF ApplyAll
<1>. HIDE DEF step
<1>10. after[0] = c /\ DOMAIN after = 0 .. Len(s) /\ \A i \in 1 .. Len(s) : after[i] = Apply(after[i - 1], s[i])
  <2>. HIDE DEF after
  <2>. QED  BY <1>1, <1>8
<1>. HIDE DEF after, Recursion
<1>. DEFINE Same == {n \in Nat : n <= Len(s) => after[n] = g[n]}
<1>11. 0 \in Same  BY <1>5, <1>10
<1>12. ASSUME NEW n \in Nat, n \in Same PROVE n + 1 \in Same
  <2>. SUFFICES ASSUME n + 1 <= Len(s) PROVE after[n + 1] = g[n + 1]  OBVIOUS
  <2>1. n + 1 \in 1 .. Len(s) /\ n + 1 - 1 = n /\ after[n] = g[n]  BY <1>1, <1>12
  <2>. QED  BY <1>6, <1>10, <2>1
<1>13. \A n \in Nat : n \in Same
  <2>. HIDE DEF Same
  <2>. QED  BY <1>11, <1>12, SetInduction
<1>14. after[Len(s)] = g[Len(s)]  BY <1>1, <1>13
<1>. QED  BY <1>5, <1>6, <1>9, <1>14

\* A carrier that took more attributes.
LEMMA CarrierTakesAll ==
    ASSUME NEW c, NEW s \in Seq(KeyValue), NEW t \in Seq(KeyValue), CarrierSays(c, s)
    PROVE  CarrierSays(ApplyAll(c, t), s \o t)
<1>1. c \in Carrier  BY DEF CarrierSays
<1>2. PICK f \in [0 .. Len(t) -> Carrier] :
        /\ f[0] = c /\ ApplyAll(c, t) = f[Len(t)]
        /\ \A i \in 1 .. Len(t) : f[i] = Apply(f[i - 1], t[i])
  BY <1>1, ApplyAllByOne
<1>3. Len(t) \in Nat /\ \A i \in 1 .. Len(t) : t[i] \in KeyValue  OBVIOUS
<1>. DEFINE Reached == {n \in Nat : n <= Len(t) => CarrierSays(f[n], s \o SubSeq(t, 1, n))}
<1>4. 0 \in Reached
  <2>1. s \o SubSeq(t, 1, 0) = s  OBVIOUS
  <2>. QED  BY <1>2, <2>1
<1>5. ASSUME NEW n \in Nat, n \in Reached PROVE n + 1 \in Reached
  <2>. SUFFICES ASSUME n + 1 <= Len(t) PROVE CarrierSays(f[n + 1], s \o SubSeq(t, 1, n + 1))  OBVIOUS
  <2>1. n + 1 \in 1 .. Len(t) /\ n + 1 - 1 = n /\ n <= Len(t)  BY <1>3
  <2>2. f[n + 1] = Apply(f[n], t[n + 1]) /\ t[n + 1] \in KeyValue  BY <1>2, <1>3, <2>1
  <2>3. SubSeq(t, 1, n) \in Seq(KeyValue)  BY <2>1
  <2>4. s \o SubSeq(t, 1, n) \in Seq(KeyValue)  BY <2>3
  <2>5. SubSeq(t, 1, n + 1) = Append(SubSeq(t, 1, n), t[n + 1])  BY <2>1, <2>2
  <2>6. s \o Append(SubSeq(t, 1, n), t[n + 1]) = Append(s \o SubSeq(t, 1, n), t[n + 1])
    BY <2>2, <2>3
  <2>7. CarrierSays(f[n], s \o SubSeq(t, 1, n))  BY <1>5, <2>1
  <2>. QED  BY <2>2, <2>4, <2>5, <2>6, <2>7, CarrierTakes
<1>6. \A n \in Nat : n \in Reached
  <2>. HIDE DEF Reached
  <2>. QED  BY <1>4, <1>5, SetInduction
<1>7. SubSeq(t, 1, Len(t)) = t  BY <1>3
<1>. QED  BY <1>2, <1>3, <1>6, <1>7

\* A carrier without attributes says nothing.
LEMMA NoCarrierSays == CarrierSays(NoCarrier, <<>>)
BY NoCarrierIs, SaidNothing DEF CarrierSays, Field

\* What is in a sequence, with one element more and with others behind.
LEMMA RangeOfAppend ==
    ASSUME NEW S, NEW s \in Seq(S), NEW x \in S
    PROVE  Range(Append(s, x)) = Range(s) \cup {x}
<1>. DEFINE t == Append(s, x)
<1>1. /\ Len(s) \in Nat /\ DOMAIN s = 1 .. Len(s) /\ DOMAIN t = 1 .. Len(s) + 1 /\ t[Len(s) + 1] = x
      /\ \A i \in 1 .. Len(s) : t[i] = s[i]
  OBVIOUS
<1>. HIDE DEF t
<1>2. ASSUME NEW y \in Range(t) PROVE y \in Range(s) \cup {x}
  <2>1. PICK i \in 1 .. Len(s) + 1 : y = t[i]  BY <1>1 DEF Range
  <2>. QED  BY <1>1, <2>1 DEF Range
<1>3. ASSUME NEW y \in Range(s) PROVE y \in Range(t)
  <2>1. PICK i \in 1 .. Len(s) : y = s[i]  BY <1>1 DEF Range
  <2>. QED  BY <1>1, <2>1 DEF Range
<1>4. x \in Range(t)  BY <1>1 DEF Range
<1>. QED  BY <1>2, <1>3, <1>4 DEF t

LEMMA RangeOfConcat ==
    ASSUME NEW S, NEW s \in Seq(S), NEW r \in Seq(S)
    PROVE  Range(s \o r) = Range(s) \cup Range(r)
<1>. DEFINE t == s \o r
<1>1. /\ Len(s) \in Nat /\ Len(r) \in Nat /\ DOMAIN s = 1 .. Len(s) /\ DOMAIN r = 1 .. Len(r)
      /\ DOMAIN t = 1 .. Len(s) + Len(r)
      /\ \A i \in 1 .. Len(s) : t[i] = s[i]
      /\ \A i \in 1 .. Len(r) : t[Len(s) + i] = r[i]
  OBVIOUS
<1>. HIDE DEF t
<1>2. ASSUME NEW y \in Range(t) PROVE y \in Range(s) \cup Range(r)
  <2>1. PICK i \in 1 .. Len(s) + Len(r) : y = t[i]  BY <1>1 DEF Range
  <2>2. CASE i <= Len(s)  BY <1>1, <2>1, <2>2 DEF Range
  <2>3. CASE i > Len(s)
    <3>1. i - Len(s) \in 1 .. Len(r) /\ Len(s) + (i - Len(s)) = i  BY <1>1, <2>3
    <3>. QED  BY <1>1, <2>1, <3>1 DEF Range
  <2>. QED  BY <1>1, <2>2, <2>3
<1>3. ASSUME NEW y \in Range(s) PROVE y \in Range(t)
  <2>1. PICK i \in 1 .. Len(s) : y = s[i]  BY <1>1 DEF Range
  <2>. QED  BY <1>1, <2>1 DEF Range
<1>4. ASSUME NEW y \in Range(r) PROVE y \in Range(t)
  <2>1. PICK i \in 1 .. Len(r) : y = r[i]  BY <1>1 DEF Range
  <2>2. Len(s) + i \in 1 .. Len(s) + Len(r)  BY <1>1
  <2>. QED  BY <1>1, <2>1, <2>2 DEF Range
<1>. QED  BY <1>2, <1>3, <1>4 DEF t

\* What filterAttrs leaves (scrub.go).
LEMMA FilteredKeeps ==
    ASSUME NEW s \in Seq(KeyValue), NEW denied
    PROVE  /\ Filtered(s, denied) \in Seq(KeyValue)
           /\ Range(Filtered(s, denied)) = {a \in Range(s) : \A r \in denied : a.key \notin r.keys}
<1>. DEFINE Out(a) == \E r \in denied : a.key \in r.keys
            Y == Seq(KeyValue)
            Recursion(f) == f = [n \in 0 .. Len(s) |->
                                   IF n = 0 THEN <<>> ELSE IF Out(s[n]) THEN f[n - 1] ELSE Append(f[n - 1], s[n])]
            step == [p \in Nat \X Y |->
                       IF p[1] \in 1 .. Len(s) THEN IF Out(s[p[1]]) THEN p[2] ELSE Append(p[2], s[p[1]]) ELSE <<>>]
            left == CHOOSE f : Recursion(f)
<1>1. Len(s) \in Nat /\ \A i \in 1 .. Len(s) : s[i] \in KeyValue  OBVIOUS
<1>9. Filtered(s, denied) = left[Len(s)]  BY DEF Filtered
<1>. HIDE DEF Out
<1>2. \A d \in Y : \A i \in 1 .. Len(s) : Append(d, s[i]) \in Y  BY <1>1
<1>3. step \in [Nat \X Y -> Y]
  <2>1. ASSUME NEW p \in Nat \X Y
        PROVE  (IF p[1] \in 1 .. Len(s) THEN IF Out(s[p[1]]) THEN p[2] ELSE Append(p[2], s[p[1]]) ELSE <<>>) \in Y
    <3>1. p[2] \in Y /\ <<>> \in Y  OBVIOUS
    <3>. HIDE DEF Y
    <3>. QED  BY <1>2, <3>1
  <2>. QED  BY <2>1
<1>4. PICK g : Iterates(g, Len(s), Y, <<>>, step)
  <2>1. <<>> \in Y  OBVIOUS
  <2>. HIDE DEF step, Y
  <2>. QED  BY <1>1, <1>3, <2>1, Iteration
<1>5. g \in [0 .. Len(s) -> Y] /\ g[0] = <<>> /\ \A i \in 1 .. Len(s) : g[i] = step[<<i, g[i - 1]>>]
  <2>. HIDE DEF step, Y
  <2>. QED  BY <1>4 DEF Iterates
<1>6. \A i \in 1 .. Len(s) : g[i] = IF Out(s[i]) THEN g[i - 1] ELSE Append(g[i - 1], s[i])
  <2>. SUFFICES ASSUME NEW i \in 1 .. Len(s) PROVE g[i] = IF Out(s[i]) THEN g[i - 1] ELSE Append(g[i - 1], s[i])
    OBVIOUS
  <2>. HIDE DEF Y
  <2>1. g[i - 1] \in Y /\ i \in Nat  BY <1>5
  <2>2. step[<<i, g[i - 1]>>] = IF Out(s[i]) THEN g[i - 1] ELSE Append(g[i - 1], s[i])  BY <2>1
  <2>. HIDE DEF step
  <2>. QED  BY <1>5, <2>2
<1>. HIDE DEF step
<1>7. Recursion(g)
  <2>. HIDE DEF Y
  <2>1. \A n \in 0 .. Len(s) : g[n] = IF n = 0 THEN <<>> ELSE IF Out(s[n]) THEN g[n - 1] ELSE Append(g[n - 1], s[n])
    <3>1. \A n \in 0 .. Len(s) : n # 0 => n \in 1 .. Len(s)  OBVIOUS
    <3>. QED  BY <1>5, <1>6, <3>1
  <2>2. g = [n \in 0 .. Len(s) |-> g[n]]  BY <1>5
  <2>3. [n \in 0 .. Len(s) |-> g[n]] =
          [n \in 0 .. Len(s) |-> IF n = 0 THEN <<>> ELSE IF Out(s[n]) THEN g[n - 1] ELSE Append(g[n - 1], s[n])]
    BY <2>1
  <2>. QED  BY <2>2, <2>3
<1>8. Recursion(left)
  <2>. HIDE DEF Recursion
  <2>. QED  BY <1>7
<1>10. left[0] = <<>> /\ \A i \in 1 .. Len(s) : left[i] = IF Out(s[i]) THEN left[i - 1] ELSE Append(left[i - 1], s[i])
  <2>. HIDE DEF left, Y
  <2>1. \A n \in 0 .. Len(s) :
          left[n] = IF n = 0 THEN <<>> ELSE IF Out(s[n]) THEN left[n - 1] ELSE Append(left[n - 1], s[n])
    BY <1>8
  <2>2. 0 \in 0 .. Len(s) /\ \A i \in 1 .. Len(s) : i \in 0 .. Len(s) /\ i # 0  BY <1>1
  <2>. QED  BY <2>1, <2>2
<1>. HIDE DEF left, Recursion
<1>. DEFINE Kept(n) == {a \in Range(SubSeq(s, 1, n)) : ~Out(a)}
            Reached == {n \in Nat : n <= Len(s) => left[n] \in Y /\ Range(left[n]) = Kept(n)}
<1>11. 0 \in Reached
  <2>1. SubSeq(s, 1, 0) = <<>> /\ Range(<<>>) = {}  BY DEF Range
  <2>2. Kept(0) = {}  BY <2>1
  <2>3. left[0] \in Y /\ Range(left[0]) = {}
    <3>1. <<>> \in Y  OBVIOUS
    <3>. HIDE DEF Y
    <3>. QED  BY <1>10, <2>1, <3>1
  <2>. HIDE DEF Kept, Y
  <2>. QED  BY <2>2, <2>3
<1>12. ASSUME NEW n \in Nat, n \in Reached PROVE n + 1 \in Reached
  <2>. SUFFICES ASSUME n + 1 <= Len(s) PROVE left[n + 1] \in Y /\ Range(left[n + 1]) = Kept(n + 1)  OBVIOUS
  <2>1. n + 1 \in 1 .. Len(s) /\ n + 1 - 1 = n /\ left[n] \in Y /\ Range(left[n]) = Kept(n) /\ n <= Len(s)
    BY <1>1, <1>12
  <2>2. Range(SubSeq(s, 1, n + 1)) = Range(SubSeq(s, 1, n)) \cup {s[n + 1]}
    <3>. DEFINE p == SubSeq(s, 1, n)
                q == SubSeq(s, 1, n + 1)
    <3>1. q = Append(p, s[n + 1])  BY <2>1
    <3>2. p \in Seq(KeyValue) /\ s[n + 1] \in KeyValue  BY <1>1, <2>1
    <3>. HIDE DEF p, q
    <3>3. Range(q) = Range(p) \cup {s[n + 1]}  BY <3>1, <3>2, RangeOfAppend
    <3>. QED  BY <3>3 DEF p, q
  <2>3. CASE Out(s[n + 1])
    <3>1. left[n + 1] = left[n]  BY <1>10, <2>1, <2>3
    <3>. QED  BY <2>1, <2>2, <2>3, <3>1
  <2>4. CASE ~Out(s[n + 1])
    <3>0. s[n + 1] \in KeyValue  BY <1>1, <2>1
    <3>1. left[n + 1] = Append(left[n], s[n + 1]) /\ s[n + 1] \in KeyValue
      <4>1. PICK i \in 1 .. Len(s) : i = n + 1 /\ i - 1 = n  BY <2>1
      <4>2. left[i] = IF Out(s[i]) THEN left[i - 1] ELSE Append(left[i - 1], s[i])  BY <1>10
      <4>3. left[i] = Append(left[i - 1], s[i])  BY <2>4, <4>1, <4>2
      <4>4. left[n + 1] = Append(left[n], s[n + 1])  BY <4>1, <4>3
      <4>. QED  BY <3>0, <4>4
    <3>2. Range(left[n + 1]) = Range(left[n]) \cup {s[n + 1]}  BY <2>1, <3>1, RangeOfAppend
    <3>. QED  BY <2>1, <2>2, <2>4, <3>1, <3>2
  <2>. QED  BY <2>3, <2>4
<1>13. \A n \in Nat : n \in Reached
  <2>. HIDE DEF Reached
  <2>. QED  BY <1>11, <1>12, SetInduction
<1>14. SubSeq(s, 1, Len(s)) = s  BY <1>1
<1>15. left[Len(s)] \in Y /\ Range(left[Len(s)]) = Kept(Len(s))  BY <1>1, <1>13
<1>. QED  BY <1>9, <1>14, <1>15 DEF Out

-----------------------------------------------------------------------------
(* Events, texts and files *)

\* What is said was said by an attribute.
LEMMA SaidBySomeone ==
    ASSUME NEW s \in Seq(KeyValue), NEW f, f # "tokens", Said(s, f) # Unset
    PROVE  \E a \in Range(s) : FieldOf(a.key) = f /\ Counts(a) /\ Said(s, f) = a.value
<1>. DEFINE at == {n \in DOMAIN s : FieldOf(s[n].key) = f /\ Counts(s[n])}
<1>1. at # {} /\ Said(s, f) = s[Max(at)].value  BY DEF Said
<1>2. Len(s) \in Nat /\ at \subseteq 0 .. Len(s) /\ at \subseteq DOMAIN s  OBVIOUS
<1>3. Max(at) \in at
  <2>. HIDE DEF at
  <2>. QED  BY <1>1, <1>2, MaxOfBounded
<1>4. s[Max(at)] \in Range(s) /\ FieldOf(s[Max(at)].key) = f /\ Counts(s[Max(at)])  BY <1>3 DEF Range
<1>. QED  BY <1>1, <1>4

\* Where all attributes of a field have one value, that is what is said.
LEMMA SaidByAll ==
    ASSUME NEW s \in Seq(KeyValue), NEW f, f # "tokens", NEW v,
           \A a \in Range(s) : FieldOf(a.key) = f => a.value = v
    PROVE  Said(s, f) \in {Unset, v}
BY SaidBySomeone

\* Names of events are names.
LEMMA NameSaidIsName ==
    ASSUME NEW s \in Seq(KeyValue), Said(s, "event.name") # Unset
    PROVE  Said(s, "event.name") \in Names
<1>1. PICK a \in Range(s) : FieldOf(a.key) = "event.name" /\ Counts(a) /\ Said(s, "event.name") = a.value
  BY SaidBySomeone
<1>2. a \in KeyValue  BY DEF Range
<1>3. a.key \in {"event.name", "event_name"}  BY <1>1 DEF FieldOf
<1>4. a.value # "nil"  BY <1>1, <1>3 DEF Counts, FieldOf
<1>. QED  BY <1>1, <1>2, <1>3, <1>4 DEF KeyValue

\* The text of a body goes to one field (bodyContentKind).
LEMMA BodyTaken ==
    ASSUME NEW c \in Carrier, NEW name \in Names, NEW body \in STRING
    PROVE  /\ WithBody(c, name, body) \in Carrier
           /\ \A f \in Field \ {"prompt", "tool_result"} : WithBody(c, name, body).at[f] = c.at[f]
           /\ \A f \in {"prompt", "tool_result"} : WithBody(c, name, body).at[f] \in {c.at[f], body}
           /\ \A f \in {"prompt", "tool_result"} :
                EndsIn[name] # f \/ body = "" => WithBody(c, name, body).at[f] = c.at[f]
<1>1. EndsIn[name] \in {"", "prompt", "tool_result"}  BY DecoderAssumption
<1>2. body \in Strings  BY DEF Strings
<1>3. CASE WithBody(c, name, body) = c  BY <1>3
<1>4. CASE WithBody(c, name, body) = Put(c, EndsIn[name], body) /\ EndsIn[name] # "" /\ body # ""
  <2>1. /\ Put(c, EndsIn[name], body) \in Carrier
        /\ \A k \in Field : Put(c, EndsIn[name], body).at[k] = IF k = EndsIn[name] THEN body ELSE c.at[k]
    BY <1>2 DEF Put, Carrier
  <2>2. {"prompt", "tool_result"} \subseteq Field  BY DEF Field
  <2>. QED  BY <1>1, <1>4, <2>1, <2>2
<1>. QED  BY <1>3, <1>4 DEF WithBody

\* The texts of a call come from its own keys (emit).
LEMMA CallTexts ==
    ASSUME NEW c \in Carrier, NEW e
    PROVE  /\ \A f \in Field \ {"tool_input", "tool_result"} : WithCallTexts(c, e).at[f] = c.at[f]
           /\ WithCallTexts(c, e).at["tool_input"] \in {c.at["tool_input"], c.at["arguments"]}
           /\ WithCallTexts(c, e).at["tool_result"] \in {c.at["tool_result"], c.at["output"]}
           /\ ~IsCodexResult(e) => WithCallTexts(c, e) = c
<1>. DEFINE texts == [tool_input |-> c.at["arguments"], tool_result |-> c.at["output"]]
            at == [f \in Field |-> IF f \in DOMAIN texts /\ texts[f] # Unset THEN texts[f] ELSE c.at[f]]
<1>1. DOMAIN texts = {"tool_input", "tool_result"}  OBVIOUS
<1>2. texts["tool_input"] = c.at["arguments"] /\ texts["tool_result"] = c.at["output"]  OBVIOUS
<1>3. "tool_input" \in Field /\ "tool_result" \in Field  BY DEF Field
<1>4. CASE IsCodexResult(e)
  <2>1. WithCallTexts(c, e) = [c EXCEPT !.at = at]  BY <1>4 DEF WithCallTexts
  <2>2. WithCallTexts(c, e).at = at  BY <2>1 DEF Carrier
  <2>. HIDE DEF texts
  <2>3. \A f \in Field : at[f] = IF f \in {"tool_input", "tool_result"} /\ texts[f] # Unset THEN texts[f] ELSE c.at[f]
    BY <1>1
  <2>. HIDE DEF at
  <2>. QED  BY <1>2, <1>3, <1>4, <2>2, <2>3
<1>5. CASE ~IsCodexResult(e)
  <2>1. WithCallTexts(c, e) = c  BY <1>5 DEF WithCallTexts
  <2>. QED  BY <1>5, <2>1
<1>. QED  BY <1>4, <1>5

\* What an event says is what its carrier was told.
LEMMA EventSays ==
    ASSUME NEW g, g.attrs \in Seq(KeyValue), NEW c, CarrierSays(c, g.attrs), "name" \in DOMAIN g.record,
           NEW d \in Carrier, \A f \in Field \ {"prompt", "tool_result"} : d.at[f] = c.at[f],
           NEW signal, NEW e, NEW n, e = [Event(signal, NameSaid(g), TimeSaid(g), d) EXCEPT !.seq = n]
    PROVE  SaysOf(e, g) /\ e.seq = n
<1>1. \A f \in Field \ {"prompt", "tool_result", "target"} : d.at[f] = Said(g.attrs, f)  BY DEF CarrierSays
<1>2. {"service.name", "session.id", "conversation.id", "model", "request_id", "tokens"} \subseteq
      Field \ {"prompt", "tool_result", "target"}
  BY DEF Field
<1>3. /\ d.at["service.name"] = Said(g.attrs, "service.name")
      /\ d.at["session.id"] = Said(g.attrs, "session.id")
      /\ d.at["conversation.id"] = Said(g.attrs, "conversation.id")
      /\ d.at["model"] = Said(g.attrs, "model") /\ d.at["request_id"] = Said(g.attrs, "request_id")
      /\ d.at["tokens"] = Said(g.attrs, "tokens")
  BY <1>1, <1>2
<1>. DEFINE vendor == EventVendor(d.at["service.name"], NameSaid(g))
<1>4. e = [signal |-> signal, name |-> NameSaid(g), ts |-> TimeSaid(g), vendor |-> vendor,
           session |-> SessionIDFor(d, vendor), seq |-> n,
           model |-> d.at["model"], tool |-> d.at["tool_name"], decision |-> d.at["decision"],
           request |-> d.at["request_id"], success |-> d.at["success"],
           tokens |-> d.at["tokens"], diagnostic |-> d.invalid]
  BY DEF Event
<1>5. vendor = VendorSaid(g)  BY <1>3 DEF VendorSaid
<1>. HIDE DEF vendor
<1>6. SessionIDFor(d, vendor) = IF vendor = "codex" /\ Said(g.attrs, "conversation.id") # Unset
                                THEN Said(g.attrs, "conversation.id") ELSE Said(g.attrs, "session.id")
  BY <1>3 DEF SessionIDFor
<1>7. SaysOf(e, g)  BY <1>3, <1>4, <1>5, <1>6 DEF SaysOf
<1>. QED  BY <1>4, <1>7

\* The texts of an event are its record's.
LEMMA TextsAreItsOwn ==
    ASSUME NEW g, g.attrs \in Seq(KeyValue), NEW c, CarrierSays(c, g.attrs), "body" \in DOMAIN g.record,
           NEW d \in Carrier,
           \A f \in Field : d.at[f] = c.at[f] \/ (f \in {"prompt", "tool_result"} /\ d.at[f] = g.record.body),
           NEW e, NEW k \in {"prompt", "tool_input", "tool_result"}
    PROVE  WithCallTexts(d, e).at[k] \in TextsOf(g, k)
<1>1. {"prompt", "tool_input", "tool_result", "arguments", "output"} \subseteq Field \ {"target"}  BY DEF Field
<1>2. \A f \in Field \ {"target"} : d.at[f] \in {Said(g.attrs, f), g.record.body}  BY DEF CarrierSays
<1>3. d.at["arguments"] = Said(g.attrs, "arguments") /\ d.at["output"] = Said(g.attrs, "output")
  BY <1>1 DEF CarrierSays
<1>4. WithCallTexts(d, e).at[k] \in {d.at[k], d.at["arguments"], d.at["output"]}
  BY <1>1, CallTexts
<1>. QED  BY <1>1, <1>2, <1>3, <1>4 DEF TextsOf

\* So are its files.
LEMMA PathsAreItsOwn ==
    ASSUME NEW g, g.attrs \in Seq(KeyValue), NEW c, CarrierSays(c, g.attrs),
           NEW d \in Carrier, \A f \in Field \ {"prompt", "tool_result"} : d.at[f] = c.at[f], NEW e
    PROVE  /\ WithCallTexts(d, e).at["target"] \in PathsOf(g) \cup {Unset}
           /\ PatchOutcome(e, WithCallTexts(d, e)) = "applied" => Range(PatchFiles) \subseteq PathsOf(g)
<1>1. {"tool_input", "arguments"} \subseteq Field \ {"target", "prompt", "tool_result"}
      /\ "target" \in Field \ {"tool_input", "tool_result", "prompt"}
  BY DEF Field
<1>2. WithCallTexts(d, e).at["target"] = c.at["target"]  BY <1>1, CallTexts
<1>3. c.at["target"] = Unset \/ \E a \in Range(g.attrs) : a.value = c.at["target"]  BY DEF CarrierSays
<1>4. WithCallTexts(d, e).at["tool_input"] \in {Said(g.attrs, "tool_input"), Said(g.attrs, "arguments")}
  BY <1>1, CallTexts DEF CarrierSays
<1>5. ASSUME PatchOutcome(e, WithCallTexts(d, e)) = "applied" PROVE Range(PatchFiles) \subseteq PathsOf(g)
  <2>1. WithCallTexts(d, e).at["tool_input"] = Patch
    BY <1>5 DEF PatchOutcome
  <2>2. PICK f \in {"tool_input", "arguments"} : Said(g.attrs, f) = Patch  BY <1>4, <2>1
  <2>3. \E a \in Range(g.attrs) : a.value = Patch  BY <2>2, SaidBySomeone DEF Patch, Unset
  <2>. QED  BY <2>3 DEF PathsOf
<1>. QED  BY <1>2, <1>3, <1>5 DEF PathsOf

-----------------------------------------------------------------------------
(* Counts *)

\* The total of a sequence of numbers with one more.
LEMMA AddedMore ==
    ASSUME NEW s \in Seq(Int), NEW v \in Int
    PROVE  Added(Append(s, v)) = Added(s) + v /\ Added(s) \in Int
<1>. DEFINE t == Append(s, v)
<1>1. /\ t \in Seq(Int) /\ Len(s) \in Nat /\ Len(t) = Len(s) + 1 /\ t[Len(s) + 1] = v
      /\ \A i \in 1 .. Len(s) : t[i] = s[i]
  OBVIOUS
<1>. HIDE DEF t
<1>2. PICK f : RunningSums(f, s) /\ f = CHOOSE h : h = [n \in 0 .. Len(s) |-> IF n = 0 THEN 0 ELSE h[n - 1] + s[n]]
  BY SumsByRecursion
<1>3. PICK g : RunningSums(g, t) /\ g = CHOOSE h : h = [n \in 0 .. Len(t) |-> IF n = 0 THEN 0 ELSE h[n - 1] + t[n]]
  BY <1>1, SumsByRecursion
<1>4. Added(s) = f[Len(s)]  BY <1>2 DEF Added
<1>5. Added(t) = g[Len(t)]  BY <1>3 DEF Added
<1>a. RunningSums(f, s)  BY <1>2
<1>b. RunningSums(g, t)  BY <1>3
<1>6. f[Len(s)] = g[Len(s)]
  <2>. DEFINE n == Len(s)
  <2>1. n \in Nat /\ n <= Len(s) /\ n <= Len(t) /\ \A i \in 1 .. n : t[i] = s[i]  BY <1>1
  <2>. HIDE DEF n
  <2>2. f[n] = g[n]  BY <1>1, <1>a, <1>b, <2>1, RunningSumsAgree
  <2>. QED  BY <2>2 DEF n
<1>7. g[Len(s) + 1] = g[Len(s)] + t[Len(s) + 1]
  <2>1. Len(s) < Len(t)  BY <1>1
  <2>. QED  BY <1>1, <1>3, <2>1, RunningSumsStep
<1>8. f[Len(s)] \in Int
  <2>1. Len(s) \in 0 .. Len(s)  BY <1>1
  <2>. QED  BY <1>2, <2>1 DEF RunningSums
<1>. QED  BY <1>1, <1>4, <1>5, <1>6, <1>7, <1>8 DEF t

\* The points of the records, with one record more.
LEMMA PointsMore ==
    ASSUME NEW log \in Seq(Entry), NEW g \in Entry
    PROVE  /\ Added([n \in DOMAIN Append(log, g) |-> Append(log, g)[n].points]) =
                Added([n \in DOMAIN log |-> log[n].points]) + g.points
           /\ Added([n \in DOMAIN log |-> log[n].points]) \in Int
<1>. DEFINE s == [n \in DOMAIN log |-> log[n].points]
            t == [n \in DOMAIN Append(log, g) |-> Append(log, g)[n].points]
<1>1. /\ Len(log) \in Nat /\ DOMAIN log = 1 .. Len(log) /\ DOMAIN Append(log, g) = 1 .. Len(log) + 1
      /\ Append(log, g)[Len(log) + 1] = g /\ \A i \in 1 .. Len(log) : Append(log, g)[i] = log[i]
  OBVIOUS
<1>2. g.points \in Int /\ \A n \in 1 .. Len(log) : log[n].points \in Int
  <2>1. \A e \in Entry : e.points \in Int  BY DEF Entry
  <2>. QED  BY <1>1, <2>1
<1>3. s \in Seq(Int) /\ Len(s) = Len(log)  BY <1>1, <1>2
<1>4. t = Append(s, g.points)
  <2>1. t = [n \in 1 .. Len(log) + 1 |-> IF n = Len(log) + 1 THEN g.points ELSE log[n].points]
    <3>. DEFINE u == Append(log, g)
    <3>1. /\ DOMAIN u = 1 .. Len(log) + 1
          /\ \A n \in 1 .. Len(log) + 1 : u[n].points = IF n = Len(log) + 1 THEN g.points ELSE log[n].points
      BY <1>1
    <3>2. t = [n \in DOMAIN u |-> u[n].points]  OBVIOUS
    <3>. HIDE DEF u, t
    <3>. QED  BY <3>1, <3>2
  <2>2. Append(s, g.points) = [n \in 1 .. Len(s) + 1 |-> IF n = Len(s) + 1 THEN g.points ELSE s[n]]
    BY <1>2, <1>3
  <2>. QED  BY <1>1, <1>3, <2>1, <2>2
<1>. HIDE DEF s, t
<1>5. Added(t) = Added(s) + g.points /\ Added(s) \in Int  BY <1>2, <1>3, <1>4, AddedMore
<1>. QED  BY <1>5 DEF s, t

\* The sizes of the payloads, with one payload more.
LEMMA BytesMore ==
    ASSUME NEW S, NEW all \in Seq(S), NEW p \in S, \A q \in S : q.size \in Nat
    PROVE  Added([n \in DOMAIN Append(all, p) |-> Append(all, p)[n].size]) =
             Added([n \in DOMAIN all |-> all[n].size]) + p.size
<1>. DEFINE s == [n \in DOMAIN all |-> all[n].size]
            t == [n \in DOMAIN Append(all, p) |-> Append(all, p)[n].size]
<1>1. /\ Len(all) \in Nat /\ DOMAIN all = 1 .. Len(all) /\ DOMAIN Append(all, p) = 1 .. Len(all) + 1
      /\ Append(all, p)[Len(all) + 1] = p /\ \A i \in 1 .. Len(all) : Append(all, p)[i] = all[i]
  OBVIOUS
<1>2. p.size \in Int /\ \A n \in 1 .. Len(all) : all[n].size \in Int  OBVIOUS
<1>3. s \in Seq(Int) /\ Len(s) = Len(all)  BY <1>1, <1>2
<1>4. t = Append(s, p.size)
  <2>1. t = [n \in 1 .. Len(all) + 1 |-> IF n = Len(all) + 1 THEN p.size ELSE all[n].size]
    <3>. DEFINE u == Append(all, p)
    <3>1. /\ DOMAIN u = 1 .. Len(all) + 1
          /\ \A n \in 1 .. Len(all) + 1 : u[n].size = IF n = Len(all) + 1 THEN p.size ELSE all[n].size
      BY <1>1
    <3>2. t = [n \in DOMAIN u |-> u[n].size]  OBVIOUS
    <3>. HIDE DEF u, t
    <3>. QED  BY <3>1, <3>2
  <2>2. Append(s, p.size) = [n \in 1 .. Len(s) + 1 |-> IF n = Len(s) + 1 THEN p.size ELSE s[n]]
    BY <1>2, <1>3
  <2>. QED  BY <1>1, <1>3, <2>1, <2>2
<1>. HIDE DEF s, t
<1>5. Added(t) = Added(s) + p.size  BY <1>2, <1>3, <1>4, AddedMore
<1>. QED  BY <1>5 DEF s, t

\* The records that can be events, with one record more.
LEMMA SourcesMore ==
    ASSUME NEW log \in Seq(Entry), NEW g \in Entry
    PROVE  LET more == Append(log, g)
               of == SourcesIn(log, Len(log))
           IN  /\ Cardinality(of) \in Nat /\ Len(more) = Len(log) + 1
               /\ \A i : \A n \in DOMAIN log : IsSource(log, n, i) => IsSource(more, n, i) /\ more[n] = log[n]
               /\ DOMAIN log \subseteq DOMAIN more
               /\ Decodable(g) => /\ Cardinality(SourcesIn(more, Len(more))) = Cardinality(of) + 1
                                  /\ IsSource(more, Len(more), Cardinality(of) + 1)
                                  /\ Len(more) \in DOMAIN more /\ more[Len(more)] = g
               /\ ~Decodable(g) => Cardinality(SourcesIn(more, Len(more))) = Cardinality(of)
<1>. DEFINE more == Append(log, g)
            of == SourcesIn(log, Len(log))
            N == Len(log)
<1>1. /\ N \in Nat /\ DOMAIN log = 1 .. N /\ DOMAIN more = 1 .. N + 1 /\ Len(more) = N + 1
      /\ more[N + 1] = g /\ \A i \in 1 .. N : more[i] = log[i]
  OBVIOUS
<1>. HIDE DEF more
<1>2. ASSUME NEW n \in 0 .. N PROVE SourcesIn(more, n) = SourcesIn(log, n)
  <2>1. \A m \in 1 .. n : more[m] = log[m]  BY <1>1
  <2>. QED  BY <2>1 DEF SourcesIn
<1>3. SourcesIn(more, N + 1) = IF Decodable(g) THEN of \cup {N + 1} ELSE of
  <2>1. \A m \in 1 .. N + 1 : m \in 1 .. N \/ m = N + 1  BY <1>1
  <2>2. \A m \in 1 .. N : m \in 1 .. N + 1 /\ m # N + 1  BY <1>1
  <2>3. N + 1 \in 1 .. N + 1  BY <1>1
  <2>. QED  BY <1>1, <2>1, <2>2, <2>3 DEF SourcesIn
<1>4. IsFiniteSet(of) /\ N + 1 \notin of /\ of \subseteq 1 .. N
  <2>1. of \subseteq 1 .. N  BY DEF SourcesIn
  <2>2. IsFiniteSet(1 .. N)
    <3>1. N \in Int /\ 1 \in Int  BY <1>1
    <3>. QED  BY <3>1, FS_Interval
  <2>. QED  BY <1>1, <2>1, <2>2, FS_Subset
<1>5. Cardinality(of) \in Nat /\ Cardinality(of \cup {N + 1}) = Cardinality(of) + 1
  BY <1>4, FS_CardinalityType, FS_AddElement
<1>6. ASSUME NEW n \in 1 .. N, NEW i, IsSource(log, n, i) PROVE IsSource(more, n, i) /\ more[n] = log[n]
  <2>1. n \in 0 .. N  BY <1>1
  <2>2. SourcesIn(more, n) = SourcesIn(log, n) /\ more[n] = log[n]  BY <1>1, <1>2, <2>1
  <2>a. n \in of  BY <1>6 DEF IsSource
  <2>3. n \in SourcesIn(more, N + 1)
    <3>. HIDE DEF of
    <3>. QED  BY <1>3, <2>a
  <2>. QED  BY <1>1, <1>6, <2>2, <2>3 DEF IsSource
<1>7. Decodable(g) => IsSource(more, N + 1, Cardinality(of) + 1)
  BY <1>1, <1>3, <1>5 DEF IsSource
<1>8. N + 1 \in 1 .. N + 1 /\ 1 .. N \subseteq 1 .. N + 1  BY <1>1
<1>. HIDE DEF of
<1>9. /\ Cardinality(of) \in Nat /\ Len(more) = Len(log) + 1
      /\ \A i : \A n \in DOMAIN log : IsSource(log, n, i) => IsSource(more, n, i) /\ more[n] = log[n]
      /\ DOMAIN log \subseteq DOMAIN more
      /\ Decodable(g) => /\ Cardinality(SourcesIn(more, Len(more))) = Cardinality(of) + 1
                         /\ IsSource(more, Len(more), Cardinality(of) + 1)
                         /\ Len(more) \in DOMAIN more /\ more[Len(more)] = g
      /\ ~Decodable(g) => Cardinality(SourcesIn(more, Len(more))) = Cardinality(of)
  BY <1>1, <1>3, <1>5, <1>6, <1>7, <1>8
<1>. QED  BY <1>9 DEF more, of

-----------------------------------------------------------------------------
(* What becomes of a record *)

Counters == {"records", "points", "temporality", "type"}
Outcomes == {"unconfirmed", "missing", "truncated", "invalid"}

\* A record that becomes no event, and is counted.
Rejects(g, counter) ==
    /\ ~Decodable(g) /\ records' = Append(records, g)
    /\ rejected' = [rejected EXCEPT ![counter] = @ + g.points]
    /\ UNCHANGED <<decoded, contents, targets, payloads, unstored, patches>>

\* The texts, the files and the outcome of a patch that come with an event.
OwnTexts(g, e, i, texts) ==
    /\ IsSequence(texts)
    /\ \A t \in Range(texts) : t.event = i /\ t.key = DedupKey(e) /\ t.body \in TextsOf(g, t.kind)
OwnPaths(g, e, i, files) ==
    /\ IsSequence(files)
    /\ \A t \in Range(files) : t.event = i /\ t.key = DedupKey(e) /\ t.path \in PathsOf(g)
PatchTaken(e, i, files) ==
    \/ ~IsPatch(e) /\ patches' = patches
    \/ IsPatch(e) /\ patches' = patches /\ files = [n \in DOMAIN PatchFiles |-> Target(i, e, PatchFiles[n])]
    \/ IsPatch(e) /\ files = <<>> /\ \E o \in Outcomes : patches' = [patches EXCEPT ![o] = @ + 1]

\* A record that becomes an event.
Becomes(g, e, texts, files, size) ==
    /\ Decodable(g) /\ g.points = 1 /\ SaysOf(e, g)
    /\ e.seq = Cardinality({j \in DOMAIN decoded : SeqKey(decoded[j]) = SeqKey(e)})
    /\ OwnTexts(g, e, Len(decoded) + 1, texts) /\ OwnPaths(g, e, Len(decoded) + 1, files)
    /\ records' = Append(records, g) /\ decoded' = Append(decoded, e) /\ rejected' = rejected
    /\ contents' = contents \o texts /\ targets' = targets \o files
    /\ PatchTaken(e, Len(decoded) + 1, files)
    /\ size \in Nat /\ AppendPayload(Len(decoded) + 1, size)

\* A sequence is one with an element more, and with others behind it.
LEMMA SequenceOfMore ==
    ASSUME NEW s, IsSequence(s), NEW x
    PROVE  /\ IsSequence(Append(s, x)) /\ Range(Append(s, x)) = Range(s) \cup {x}
           /\ Len(s) \in Nat /\ Len(Append(s, x)) = Len(s) + 1
           /\ DOMAIN s = 1 .. Len(s) /\ DOMAIN Append(s, x) = 1 .. Len(s) + 1
           /\ Append(s, x)[Len(s) + 1] = x /\ \A i \in 1 .. Len(s) : Append(s, x)[i] = s[i]
<1>. DEFINE S == Range(s) \cup {x}
<1>1. s \in Seq(Range(s))  BY DEF IsSequence
<1>. HIDE DEF S
<1>2. s \in Seq(S) /\ x \in S
  <2>1. Range(s) \subseteq S /\ x \in S  BY DEF S
  <2>2. \A T : Range(s) \subseteq T => s \in Seq(T)
    <3>. DEFINE R == Range(s)
    <3>1. s \in Seq(R)  BY <1>1
    <3>. HIDE DEF R
    <3>2. \A T : R \subseteq T => s \in Seq(T)  BY <3>1
    <3>. QED  BY <3>2 DEF R
  <2>. QED  BY <2>1, <2>2
<1>3. Append(s, x) \in Seq(S)  BY <1>2
<1>4. Range(Append(s, x)) = S  BY <1>2, RangeOfAppend DEF S
<1>. QED  BY <1>2, <1>3, <1>4 DEF S, IsSequence

LEMMA SequenceOfBoth ==
    ASSUME NEW s, IsSequence(s), NEW r, IsSequence(r)
    PROVE  /\ IsSequence(s \o r) /\ Range(s \o r) = Range(s) \cup Range(r)
           /\ Len(s) \in Nat /\ Len(r) \in Nat
           /\ DOMAIN s = 1 .. Len(s) /\ DOMAIN r = 1 .. Len(r) /\ DOMAIN (s \o r) = 1 .. Len(s) + Len(r)
           /\ \A i \in 1 .. Len(s) : (s \o r)[i] = s[i]
           /\ \A i \in 1 .. Len(r) : (s \o r)[Len(s) + i] = r[i]
<1>. DEFINE S == Range(s) \cup Range(r)
<1>0. \A u, T : IsSequence(u) /\ Range(u) \subseteq T => u \in Seq(T)
  <2>. SUFFICES ASSUME NEW u, NEW T, IsSequence(u), Range(u) \subseteq T PROVE u \in Seq(T)  OBVIOUS
  <2>. DEFINE R == Range(u)
  <2>1. u \in Seq(R) /\ R \subseteq T  BY DEF IsSequence
  <2>. HIDE DEF R
  <2>. QED  BY <2>1
<1>1. s \in Seq(S) /\ r \in Seq(S)
  <2>1. Range(s) \subseteq S /\ Range(r) \subseteq S  OBVIOUS
  <2>. HIDE DEF S
  <2>. QED  BY <1>0, <2>1
<1>2. Range(s \o r) = S
  <2>. HIDE DEF S
  <2>1. Range(s \o r) = Range(s) \cup Range(r)  BY <1>1, RangeOfConcat
  <2>. QED  BY <2>1 DEF S
<1>. HIDE DEF S
<1>3. s \o r \in Seq(S)  BY <1>1
<1>. QED  BY <1>1, <1>2, <1>3 DEF S, IsSequence

\* Five counts with more in one of them.
LEMMA CountsMore ==
    ASSUME NEW a \in Int, NEW b \in Int, NEW c \in Int, NEW d \in Int, NEW x \in Int, NEW s \in Int, NEW m \in Int,
           a + b + c + d + x = s
    PROVE  /\ (a + m) + b + c + d + x = s + m
           /\ \A p, q, r, v \in Int : p + q + r + v = b + c + d + x + m => a + p + q + r + v = s + m
OBVIOUS

\* Rejected records are counted by their points.
LEMMA RejectedSays ==
    ASSUME EventsSayTheirRecord, IsSequence(decoded), records \in Seq(Entry), rejected \in [Counters -> Nat],
           NEW g \in Entry, NEW counter \in Counters, Rejects(g, counter)
    PROVE  EventsSayTheirRecord'
<1>1. /\ Len(decoded) = Cardinality(SourcesIn(records, Len(records)))
      /\ Len(decoded) + rejected.records + rejected.points + rejected.temporality + rejected.type
           = Added([n \in DOMAIN records |-> records[n].points])
      /\ \A i \in DOMAIN decoded : \E n \in DOMAIN records : IsSource(records, n, i) /\ SaysOf(decoded[i], records[n])
  BY DEF EventsSayTheirRecord
<1>2. records' = Append(records, g) /\ decoded' = decoded /\ ~Decodable(g)  BY DEF Rejects
<1>3. rejected' = [rejected EXCEPT ![counter] = @ + g.points]  BY DEF Rejects
<1>4. g.points \in Nat  BY DEF Entry
<1>5. Len(decoded) \in Nat  BY SequenceOfMore
<1>6. Cardinality(SourcesIn(records', Len(records'))) = Cardinality(SourcesIn(records, Len(records)))
  BY <1>2, SourcesMore
<1>7. rejected'.records + rejected'.points + rejected'.temporality + rejected'.type =
        rejected.records + rejected.points + rejected.temporality + rejected.type + g.points
  BY <1>3, <1>4 DEF Counters
<1>8. Added([n \in DOMAIN records' |-> records'[n].points]) =
        Added([n \in DOMAIN records |-> records[n].points]) + g.points
  BY <1>2, PointsMore
<1>9. rejected.records \in Nat /\ rejected.points \in Nat /\ rejected.temporality \in Nat /\ rejected.type \in Nat
      /\ rejected'.records \in Nat /\ rejected'.points \in Nat /\ rejected'.temporality \in Nat /\ rejected'.type \in Nat
  BY <1>3, <1>4 DEF Counters
<1>10. ASSUME NEW i \in DOMAIN decoded'
       PROVE  \E n \in DOMAIN records' : IsSource(records', n, i) /\ SaysOf(decoded'[i], records'[n])
  <2>1. PICK n \in DOMAIN records : IsSource(records, n, i) /\ SaysOf(decoded[i], records[n])  BY <1>1, <1>2
  <2>2. IsSource(records', n, i) /\ records'[n] = records[n] /\ n \in DOMAIN records'  BY <1>2, <2>1, SourcesMore
  <2>. QED  BY <1>2, <2>1, <2>2
<1>11. Len(decoded') + rejected'.records + rejected'.points + rejected'.temporality + rejected'.type
         = Added([n \in DOMAIN records' |-> records'[n].points])
  <2>. DEFINE s == Added([n \in DOMAIN records |-> records[n].points])
              t == Added([n \in DOMAIN records' |-> records'[n].points])
  <2>1. Len(decoded) + rejected.records + rejected.points + rejected.temporality + rejected.type = s  BY <1>1
  <2>2. t = s + g.points  BY <1>8
  <2>. HIDE DEF s, t
  <2>3. Len(decoded') = Len(decoded)  BY <1>2
  <2>4. Len(decoded') + rejected'.records + rejected'.points + rejected'.temporality + rejected'.type = t
    <3>1. s \in Int  BY PointsMore DEF s
    <3>. DEFINE n == Len(decoded)
                a == rejected.records
                b == rejected.points
                c == rejected.temporality
                d == rejected.type
                p == rejected'.records
                q == rejected'.points
                r == rejected'.temporality
                v == rejected'.type
                m == g.points
    <3>2. /\ n \in Int /\ a \in Int /\ b \in Int /\ c \in Int /\ d \in Int /\ m \in Int
          /\ p \in Int /\ q \in Int /\ r \in Int /\ v \in Int
      BY <1>4, <1>5, <1>9
    <3>3. p + q + r + v = a + b + c + d + m /\ n + a + b + c + d = s /\ t = s + m  BY <2>1, <2>2, <1>7
    <3>. HIDE DEF n, a, b, c, d, p, q, r, v, m
    <3>4. n + p + q + r + v = t  BY <3>1, <3>2, <3>3, CountsMore
    <3>. QED  BY <3>4, <2>3 DEF n, p, q, r, v
  <2>. QED  BY <2>4 DEF t
<1>12. Len(decoded') = Cardinality(SourcesIn(records', Len(records')))  BY <1>1, <1>2, <1>6
<1>. QED  BY <1>10, <1>11, <1>12 DEF EventsSayTheirRecord

\* An event says what its own record does.
LEMMA BecomesSays ==
    ASSUME EventsSayTheirRecord, IsSequence(decoded), records \in Seq(Entry), rejected \in [Counters -> Nat],
           NEW g \in Entry, NEW e, NEW texts, NEW files, NEW size, Becomes(g, e, texts, files, size)
    PROVE  EventsSayTheirRecord'
<1>1. /\ Len(decoded) = Cardinality(SourcesIn(records, Len(records)))
      /\ Len(decoded) + rejected.records + rejected.points + rejected.temporality + rejected.type
           = Added([n \in DOMAIN records |-> records[n].points])
      /\ \A i \in DOMAIN decoded : \E n \in DOMAIN records : IsSource(records, n, i) /\ SaysOf(decoded[i], records[n])
  BY DEF EventsSayTheirRecord
<1>2. records' = Append(records, g) /\ decoded' = Append(decoded, e) /\ Decodable(g) /\ SaysOf(e, g)
      /\ rejected' = rejected /\ g.points = 1
  BY DEF Becomes
<1>3. /\ Len(decoded) \in Nat /\ Len(decoded') = Len(decoded) + 1
      /\ DOMAIN decoded = 1 .. Len(decoded) /\ DOMAIN decoded' = 1 .. Len(decoded) + 1
      /\ decoded'[Len(decoded) + 1] = e /\ \A i \in 1 .. Len(decoded) : decoded'[i] = decoded[i]
  BY <1>2, SequenceOfMore
<1>4. /\ Cardinality(SourcesIn(records', Len(records'))) = Cardinality(SourcesIn(records, Len(records))) + 1
      /\ IsSource(records', Len(records'), Cardinality(SourcesIn(records, Len(records))) + 1)
      /\ Len(records') \in DOMAIN records' /\ records'[Len(records')] = g
  BY <1>2, SourcesMore
<1>5. Added([n \in DOMAIN records' |-> records'[n].points]) =
        Added([n \in DOMAIN records |-> records[n].points]) + 1
  BY <1>2, PointsMore
<1>6. rejected.records \in Nat /\ rejected.points \in Nat /\ rejected.temporality \in Nat /\ rejected.type \in Nat
  BY DEF Counters
<1>7. Len(decoded') + rejected'.records + rejected'.points + rejected'.temporality + rejected'.type
         = Added([n \in DOMAIN records' |-> records'[n].points])
  <2>. DEFINE s == Added([n \in DOMAIN records |-> records[n].points])
              t == Added([n \in DOMAIN records' |-> records'[n].points])
  <2>1. Len(decoded) + rejected.records + rejected.points + rejected.temporality + rejected.type = s  BY <1>1
  <2>2. t = s + 1  BY <1>5
  <2>. HIDE DEF s, t
  <2>3. rejected' = rejected  BY <1>2
  <2>4. Len(decoded) \in Nat /\ Len(decoded') = Len(decoded) + 1  BY <1>3
  <2>5. Len(decoded') + rejected'.records + rejected'.points + rejected'.temporality + rejected'.type = t
    <3>1. s \in Int  BY PointsMore DEF s
    <3>. DEFINE n == Len(decoded)
                a == rejected.records
                b == rejected.points
                c == rejected.temporality
                d == rejected.type
    <3>2. n \in Int /\ a \in Int /\ b \in Int /\ c \in Int /\ d \in Int /\ 1 \in Int  BY <1>3, <1>6
    <3>3. n + a + b + c + d = s /\ t = s + 1  BY <2>1, <2>2
    <3>. HIDE DEF n, a, b, c, d
    <3>4. (n + 1) + a + b + c + d = t  BY <3>1, <3>2, <3>3, CountsMore
    <3>. QED  BY <3>4, <2>3, <2>4 DEF n, a, b, c, d
  <2>. QED  BY <2>5 DEF t
<1>8. ASSUME NEW i \in DOMAIN decoded'
      PROVE  \E n \in DOMAIN records' : IsSource(records', n, i) /\ SaysOf(decoded'[i], records'[n])
  <2>1. CASE i = Len(decoded) + 1
    <3>1. IsSource(records', Len(records'), i) /\ SaysOf(decoded'[i], records'[Len(records')])
      BY <1>1, <1>2, <1>3, <1>4, <2>1
    <3>. QED  BY <1>4, <3>1
  <2>2. CASE i # Len(decoded) + 1
    <3>1. i \in DOMAIN decoded /\ decoded'[i] = decoded[i]  BY <1>3, <2>2
    <3>2. PICK n \in DOMAIN records : IsSource(records, n, i) /\ SaysOf(decoded[i], records[n])  BY <1>1, <3>1
    <3>3. IsSource(records', n, i) /\ records'[n] = records[n] /\ n \in DOMAIN records'  BY <1>2, <3>2, SourcesMore
    <3>. QED  BY <3>1, <3>2, <3>3
  <2>. QED  BY <2>1, <2>2
<1>9. Len(decoded') = Cardinality(SourcesIn(records', Len(records')))  BY <1>1, <1>3, <1>4
<1>. QED  BY <1>7, <1>8, <1>9 DEF EventsSayTheirRecord

\* Its number is that of the events like it that came before.
LEMMA BecomesNumbered ==
    ASSUME NumbersOK, IsSequence(decoded),
           NEW g, NEW e, NEW texts, NEW files, NEW size, Becomes(g, e, texts, files, size)
    PROVE  NumbersOK'
<1>1. decoded' = Append(decoded, e)
      /\ e.seq = Cardinality({j \in DOMAIN decoded : SeqKey(decoded[j]) = SeqKey(e)})
  BY DEF Becomes
<1>2. /\ Len(decoded) \in Nat /\ DOMAIN decoded = 1 .. Len(decoded) /\ DOMAIN decoded' = 1 .. Len(decoded) + 1
      /\ decoded'[Len(decoded) + 1] = e /\ \A i \in 1 .. Len(decoded) : decoded'[i] = decoded[i]
  BY <1>1, SequenceOfMore
<1>3. ASSUME NEW i \in DOMAIN decoded'
      PROVE  decoded'[i].seq = Cardinality({j \in 1..(i - 1) : SeqKey(decoded'[j]) = SeqKey(decoded'[i])})
  <2>1. \A j \in 1..(i - 1) : j \in 1 .. Len(decoded) /\ decoded'[j] = decoded[j]  BY <1>2
  <2>2. CASE i = Len(decoded) + 1
    <3>1. 1..(i - 1) = DOMAIN decoded /\ decoded'[i] = e  BY <1>2, <2>2
    <3>2. {j \in 1..(i - 1) : SeqKey(decoded'[j]) = SeqKey(decoded'[i])} =
            {j \in DOMAIN decoded : SeqKey(decoded[j]) = SeqKey(e)}
      BY <2>1, <3>1
    <3>. QED  BY <1>1, <3>1, <3>2
  <2>3. CASE i # Len(decoded) + 1
    <3>1. i \in DOMAIN decoded /\ decoded'[i] = decoded[i]  BY <1>2, <2>3
    <3>2. {j \in 1..(i - 1) : SeqKey(decoded'[j]) = SeqKey(decoded'[i])} =
            {j \in 1..(i - 1) : SeqKey(decoded[j]) = SeqKey(decoded[i])}
      BY <2>1, <3>1
    <3>. QED  BY <3>1, <3>2 DEF NumbersOK
  <2>. QED  BY <2>2, <2>3
<1>. QED  BY <1>3 DEF NumbersOK

\* With their numbers, keys tell events apart.
LEMMA NumbersTellApart ==
    ASSUME NumbersOK, IsSequence(decoded)
    PROVE  KeysTellApart
<1>. DEFINE Before(i) == {j \in 1..(i - 1) : SeqKey(decoded[j]) = SeqKey(decoded[i])}
<1>0. Len(decoded) \in Nat /\ DOMAIN decoded = 1 .. Len(decoded)  BY SequenceOfMore
<1>1. ASSUME NEW i \in DOMAIN decoded, NEW j \in DOMAIN decoded, i < j, SeqKey(decoded[i]) = SeqKey(decoded[j])
      PROVE  decoded[i].seq # decoded[j].seq
  <2>1. decoded[i].seq = Cardinality(Before(i)) /\ decoded[j].seq = Cardinality(Before(j))  BY DEF NumbersOK
  <2>2. i \in Nat /\ j \in Nat  BY <1>0
  <2>3. Before(i) \cup {i} \subseteq Before(j) /\ i \notin Before(i)  BY <1>0, <1>1, <2>2
  <2>4. IsFiniteSet(Before(j)) /\ IsFiniteSet(Before(i))
    <3>1. IsFiniteSet(1..(j - 1)) /\ IsFiniteSet(1..(i - 1))
      <4>1. 1 \in Int /\ i - 1 \in Int /\ j - 1 \in Int  BY <2>2
      <4>. QED  BY <4>1, FS_Interval
    <3>2. Before(j) \subseteq 1..(j - 1) /\ Before(i) \subseteq 1..(i - 1)  OBVIOUS
    <3>. QED  BY <3>1, <3>2, FS_Subset
  <2>. HIDE DEF Before
  <2>5. Cardinality(Before(i) \cup {i}) = Cardinality(Before(i)) + 1 /\ Cardinality(Before(i)) \in Nat
    BY <2>3, <2>4, FS_AddElement, FS_CardinalityType
  <2>6. Cardinality(Before(i) \cup {i}) <= Cardinality(Before(j)) /\ Cardinality(Before(j)) \in Nat
    BY <2>3, <2>4, FS_Subset, FS_CardinalityType
  <2>. QED  BY <2>1, <2>5, <2>6
<1>2. ASSUME NEW i \in DOMAIN decoded, NEW j \in DOMAIN decoded, i # j, DedupKey(decoded[i]) = DedupKey(decoded[j])
      PROVE  decoded[i].request # decoded[j].request
  <2>. SUFFICES ASSUME decoded[i].request = decoded[j].request PROVE FALSE  OBVIOUS
  <2>1. SeqKey(decoded[i]) = SeqKey(decoded[j])  BY <1>2 DEF DedupKey, SeqKey, Attr
  <2>2. decoded[i].seq = decoded[j].seq  BY <1>2 DEF DedupKey
  <2>3. i < j \/ j < i  BY <1>0, <1>2
  <2>. QED  BY <1>1, <2>1, <2>2, <2>3
<1>. QED  BY <1>2 DEF KeysTellApart

LEMMA TwoCounted ==
    ASSUME NEW x, NEW y, x # y PROVE Cardinality({x, y}) = 2
<1>1. IsFiniteSet({x}) /\ Cardinality({x}) = 1 /\ y \notin {x}  BY FS_Singleton
<1>2. Cardinality({x} \cup {y}) = 1 + 1  BY <1>1, FS_AddElement
<1>3. {x} \cup {y} = {x, y}  OBVIOUS
<1>. QED  BY <1>2, <1>3

\* The files of earlier events stay theirs; the new event has the new ones.
LEMMA FilesMore ==
    ASSUME IsSequence(targets), IsSequence(decoded), \A t \in Range(targets) : t.event \in DOMAIN decoded,
           NEW files, IsSequence(files), \A t \in Range(files) : t.event = Len(decoded) + 1
    PROVE  LET all == targets \o files
           IN  /\ \A i \in DOMAIN decoded : /\ FilesAt(all, i) = FilesAt(targets, i)
                                            /\ \A n \in FilesAt(all, i) : all[n] = targets[n]
               /\ FilesAt(all, Len(decoded) + 1) = (Len(targets) + 1) .. (Len(targets) + Len(files))
               /\ Len(targets) \in Nat /\ Len(files) \in Nat
               /\ \A k \in 1 .. Len(files) : all[Len(targets) + k] = files[k]
<1>. DEFINE all == targets \o files
            N == Len(decoded)
            L == Len(targets)
            M == Len(files)
<1>1. /\ L \in Nat /\ M \in Nat /\ N \in Nat
      /\ DOMAIN targets = 1 .. L /\ DOMAIN files = 1 .. M /\ DOMAIN all = 1 .. L + M /\ DOMAIN decoded = 1 .. N
      /\ \A i \in 1 .. L : all[i] = targets[i]
      /\ \A i \in 1 .. M : all[L + i] = files[i]
  BY SequenceOfBoth, SequenceOfMore
<1>2. \A i \in 1 .. L : targets[i].event \in 1 .. N  BY <1>1 DEF Range
<1>3. \A i \in 1 .. M : files[i].event = N + 1  BY <1>1 DEF Range
<1>. HIDE DEF all, N, L, M
<1>4. \A n \in DOMAIN all : n \in 1 .. L \/ (n \in (L + 1) .. (L + M) /\ n - L \in 1 .. M /\ all[n] = files[n - L])
  <2>1. ASSUME NEW n \in DOMAIN all, n \notin 1 .. L
        PROVE  n \in (L + 1) .. (L + M) /\ n - L \in 1 .. M /\ all[n] = files[n - L]
    <3>1. n \in (L + 1) .. (L + M) /\ n - L \in 1 .. M /\ n = L + (n - L)  BY <1>1, <2>1
    <3>. QED  BY <1>1, <3>1
  <2>. QED  BY <2>1
<1>5. \A n \in 1 .. L : all[n].event \in 1 .. N /\ n \in DOMAIN all  BY <1>1, <1>2
<1>6. \A n \in (L + 1) .. (L + M) : n \in DOMAIN all /\ n \notin 1 .. L  BY <1>1
<1>7. \A n \in (L + 1) .. (L + M) : all[n].event = N + 1  BY <1>3, <1>4, <1>6
<1>8. N + 1 \notin 1 .. N  BY <1>1
<1>9. ASSUME NEW i \in 1 .. N
      PROVE  FilesAt(all, i) = FilesAt(targets, i) /\ \A n \in FilesAt(all, i) : all[n] = targets[n]
  <2>1. i # N + 1  BY <1>8
  <2>2. \A n \in FilesAt(all, i) : n \in 1 .. L  BY <1>4, <1>7, <2>1 DEF FilesAt
  <2>3. \A n : n \in FilesAt(all, i) <=> n \in FilesAt(targets, i)  BY <1>1, <1>5, <2>2 DEF FilesAt
  <2>. QED  BY <1>1, <2>2, <2>3
<1>10. FilesAt(all, N + 1) = (L + 1) .. (L + M)
  <2>1. \A n \in FilesAt(all, N + 1) : n \in (L + 1) .. (L + M)  BY <1>4, <1>5, <1>8 DEF FilesAt
  <2>2. \A n \in (L + 1) .. (L + M) : n \in FilesAt(all, N + 1)  BY <1>6, <1>7 DEF FilesAt
  <2>. QED  BY <2>1, <2>2
<1>. QED  BY <1>1, <1>9, <1>10 DEF all, N, L, M

\* Every patch has its files or a reason for having none, after another event.
LEMMA BecomesPatched ==
    ASSUME PatchesAccountedFor, IsSequence(targets), IsSequence(decoded), patches \in [Outcomes -> Nat],
           \A t \in Range(targets) : t.event \in DOMAIN decoded,
           NEW g, NEW e, NEW texts, NEW files, NEW size, Becomes(g, e, texts, files, size)
    PROVE  PatchesAccountedFor' /\ patches' \in [Outcomes -> Nat]
<1>. DEFINE N == Len(decoded)
            L == Len(targets)
            Of(i) == IsPatch(decoded[i])
            None == {i \in {j \in DOMAIN decoded : IsPatch(decoded[j])} : FilesAt(targets, i) = {}}
            None2 == {i \in {j \in DOMAIN decoded' : IsPatch(decoded'[j])} : FilesAt(targets', i) = {}}
<1>1. /\ decoded' = Append(decoded, e) /\ targets' = targets \o files /\ IsSequence(files)
      /\ \A t \in Range(files) : t.event = Len(decoded) + 1
      /\ PatchTaken(e, Len(decoded) + 1, files)
  BY DEF Becomes, OwnPaths
<1>2. /\ N \in Nat /\ DOMAIN decoded = 1 .. N /\ DOMAIN decoded' = 1 .. N + 1
      /\ decoded'[N + 1] = e /\ \A i \in 1 .. N : decoded'[i] = decoded[i]
  BY <1>1, SequenceOfMore
<1>3. /\ \A i \in 1 .. N : /\ FilesAt(targets', i) = FilesAt(targets, i)
                           /\ \A n \in FilesAt(targets', i) : targets'[n] = targets[n]
      /\ FilesAt(targets', N + 1) = (L + 1) .. (L + Len(files))
      /\ L \in Nat /\ Len(files) \in Nat
      /\ \A k \in 1 .. Len(files) : targets'[L + k] = files[k]
  BY <1>1, <1>2, FilesMore
<1>4. /\ \A i \in {j \in DOMAIN decoded : IsPatch(decoded[j])} :
             \/ FilesAt(targets, i) = {}
             \/ /\ Cardinality(FilesAt(targets, i)) = Len(PatchFiles)
                /\ {targets[n].path : n \in FilesAt(targets, i)} = Range(PatchFiles)
      /\ Cardinality(None) = patches.unconfirmed + patches.missing + patches.truncated + patches.invalid
  BY DEF PatchesAccountedFor
<1>5. IsFiniteSet(None) /\ N + 1 \notin None /\ Cardinality(None) \in Nat
  <2>1. None \subseteq 1 .. N  BY <1>2
  <2>2. 1 \in Int /\ N \in Int /\ N + 1 \notin 1 .. N  BY <1>2
  <2>. HIDE DEF None
  <2>3. IsFiniteSet(1 .. N)  BY <2>2, FS_Interval
  <2>4. IsFiniteSet(None)  BY <2>1, <2>3, FS_Subset
  <2>. QED  BY <2>1, <2>2, <2>4, FS_CardinalityType
<1>6. ASSUME NEW i \in DOMAIN decoded', IsPatch(decoded'[i]), i # N + 1
      PROVE  \/ FilesAt(targets', i) = {}
             \/ /\ Cardinality(FilesAt(targets', i)) = Len(PatchFiles)
                /\ {targets'[n].path : n \in FilesAt(targets', i)} = Range(PatchFiles)
  <2>1. i \in 1 .. N /\ decoded'[i] = decoded[i] /\ i \in DOMAIN decoded  BY <1>2, <1>6
  <2>2. FilesAt(targets', i) = FilesAt(targets, i) /\ \A n \in FilesAt(targets', i) : targets'[n] = targets[n]
    BY <1>3, <2>1
  <2>3. {targets'[n].path : n \in FilesAt(targets', i)} = {targets[n].path : n \in FilesAt(targets, i)}  BY <2>2
  <2>. QED  BY <1>4, <1>6, <2>1, <2>2, <2>3
<1>7. \A i : i \in None2 <=> i \in None \/ (i = N + 1 /\ IsPatch(e) /\ FilesAt(targets', N + 1) = {})
  <2>1. \A i \in 1 .. N : FilesAt(targets', i) = FilesAt(targets, i) /\ decoded'[i] = decoded[i]  BY <1>2, <1>3
  <2>2. \A i : i \in DOMAIN decoded' <=> i \in DOMAIN decoded \/ i = N + 1  BY <1>2
  <2>3. N + 1 \notin DOMAIN decoded /\ decoded'[N + 1] = e /\ DOMAIN decoded = 1 .. N  BY <1>2
  <2>4. \A i : i \in None <=> i \in DOMAIN decoded /\ IsPatch(decoded[i]) /\ FilesAt(targets, i) = {}  OBVIOUS
  <2>5. \A i : i \in None2 <=> i \in DOMAIN decoded' /\ IsPatch(decoded'[i]) /\ FilesAt(targets', i) = {}  OBVIOUS
  <2>. HIDE DEF None, None2
  <2>. QED  BY <2>1, <2>2, <2>3, <2>4, <2>5
<1>8. ASSUME IsPatch(e)
      PROVE  \/ FilesAt(targets', N + 1) = {}
             \/ /\ Cardinality(FilesAt(targets', N + 1)) = Len(PatchFiles)
                /\ {targets'[n].path : n \in FilesAt(targets', N + 1)} = Range(PatchFiles)
  <2>1. CASE files = <<>>
    <3>1. Len(files) = 0  BY <2>1
    <3>. QED  BY <1>3, <3>1
  <2>2. CASE files = [n \in DOMAIN PatchFiles |-> Target(N + 1, e, PatchFiles[n])]
    <3>1. files = <<Target(N + 1, e, "p"), Target(N + 1, e, "q")>>  BY <2>2 DEF PatchFiles
    <3>2. Len(files) = 2 /\ files[1].path = "p" /\ files[2].path = "q"  BY <3>1 DEF Target
    <3>3. FilesAt(targets', N + 1) = {L + 1, L + 2}  BY <1>3, <3>2
    <3>4. targets'[L + 1] = files[1] /\ targets'[L + 2] = files[2]  BY <1>3, <3>2
    <3>5. Cardinality({L + 1, L + 2}) = 2
      <4>1. L + 1 # L + 2  BY <1>3
      <4>. QED  BY <4>1, TwoCounted
    <3>6. Range(PatchFiles) = {"p", "q"} /\ Len(PatchFiles) = 2
      <4>1. DOMAIN PatchFiles = {1, 2} /\ PatchFiles[1] = "p" /\ PatchFiles[2] = "q" /\ Len(PatchFiles) = 2
        BY DEF PatchFiles
      <4>. QED  BY <4>1 DEF Range
    <3>7. {targets'[n].path : n \in {L + 1, L + 2}} = {"p", "q"}  BY <3>2, <3>4
    <3>. QED  BY <3>3, <3>5, <3>6, <3>7
  <2>. QED  BY <1>1, <1>8, <2>1, <2>2 DEF PatchTaken
<1>9. /\ patches' \in [Outcomes -> Nat]
      /\ Cardinality(None2) = patches'.unconfirmed + patches'.missing + patches'.truncated + patches'.invalid
  <2>1. CASE patches' = patches /\ None2 = None  BY <1>4, <2>1
  <2>2. CASE \E o \in Outcomes : patches' = [patches EXCEPT ![o] = @ + 1] /\ None2 = None \cup {N + 1}
    <3>1. Cardinality(None \cup {N + 1}) = Cardinality(None) + 1
      <4>. HIDE DEF None, N
      <4>. QED  BY <1>5, FS_AddElement
    <3>2. PICK o \in Outcomes : patches' = [patches EXCEPT ![o] = @ + 1]  BY <2>2
    <3>3. patches'.unconfirmed + patches'.missing + patches'.truncated + patches'.invalid =
            patches.unconfirmed + patches.missing + patches.truncated + patches.invalid + 1
      BY <3>2 DEF Outcomes
    <3>4. patches' \in [Outcomes -> Nat]  BY <3>2 DEF Outcomes
    <3>. QED  BY <1>4, <2>2, <3>1, <3>3, <3>4
  <2>3. \/ patches' = patches /\ (~IsPatch(e) \/ FilesAt(targets', N + 1) # {})
        \/ /\ \E o \in Outcomes : patches' = [patches EXCEPT ![o] = @ + 1]
           /\ IsPatch(e) /\ FilesAt(targets', N + 1) = {}
    <3>1. CASE files = <<>>
      <4>1. Len(files) = 0  BY <3>1
      <4>2. FilesAt(targets', N + 1) = {}  BY <1>3, <4>1
      <4>3. files # [n \in DOMAIN PatchFiles |-> Target(N + 1, e, PatchFiles[n])]
        <5>1. [n \in DOMAIN PatchFiles |-> Target(N + 1, e, PatchFiles[n])] =
                <<Target(N + 1, e, "p"), Target(N + 1, e, "q")>>  BY DEF PatchFiles
        <5>2. <<Target(N + 1, e, "p"), Target(N + 1, e, "q")>> # <<>>  OBVIOUS
        <5>. QED  BY <3>1, <5>1, <5>2
      <4>. QED  BY <1>1, <4>2, <4>3 DEF PatchTaken
    <3>2. CASE files = [n \in DOMAIN PatchFiles |-> Target(N + 1, e, PatchFiles[n])]
      <4>1. files = <<Target(N + 1, e, "p"), Target(N + 1, e, "q")>>  BY <3>2 DEF PatchFiles
      <4>2. Len(files) = 2 /\ files # <<>>  BY <4>1
      <4>3. L + 1 \in FilesAt(targets', N + 1)  BY <1>3, <4>2
      <4>. QED  BY <1>1, <4>2, <4>3 DEF PatchTaken
    <3>. QED  BY <1>1, <3>1, <3>2 DEF PatchTaken
  <2>4. CASE ~IsPatch(e) \/ FilesAt(targets', N + 1) # {}
    <3>1. None2 = None  BY <1>7, <2>4
    <3>. QED  BY <2>1, <2>3, <2>4, <3>1
  <2>5. CASE IsPatch(e) /\ FilesAt(targets', N + 1) = {}
    <3>1. None2 = None \cup {N + 1}  BY <1>7, <2>5
    <3>. QED  BY <2>2, <2>3, <2>5, <3>1
  <2>. QED  BY <2>4, <2>5
<1>10. ASSUME NEW i \in DOMAIN decoded', IsPatch(decoded'[i])
       PROVE  \/ FilesAt(targets', i) = {}
              \/ /\ Cardinality(FilesAt(targets', i)) = Len(PatchFiles)
                 /\ {targets'[n].path : n \in FilesAt(targets', i)} = Range(PatchFiles)
  <2>1. CASE i = N + 1  BY <1>2, <1>8, <1>10, <2>1
  <2>2. CASE i # N + 1  BY <1>6, <1>10, <2>2
  <2>. QED  BY <2>1, <2>2
<1>. HIDE DEF N, L
<1>11. PatchesAccountedFor'  BY <1>9, <1>10 DEF PatchesAccountedFor
<1>. QED  BY <1>9, <1>11

\* A record that becomes no event leaves the parts of others where they were.
LEMMA RejectedParts ==
    ASSUME PartsPointHome, records \in Seq(Entry), skip' = skip,
           NEW g \in Entry, NEW counter, Rejects(g, counter)
    PROVE  PartsPointHome'
<1>1. records' = Append(records, g) /\ UNCHANGED <<decoded, contents, targets, payloads, unstored, patches, skip>>
  BY DEF Rejects
<1>2. \A i : \A n \in DOMAIN records :
        IsSource(records, n, i) => n \in DOMAIN records' /\ IsSource(records', n, i) /\ records'[n] = records[n]
  BY <1>1, SourcesMore
<1>3. \A n, i : IsSource(records, n, i) => n \in DOMAIN records  BY DEF IsSource, SourcesIn
<1>4. PayloadBytes' = PayloadBytes  BY <1>1 DEF PayloadBytes
<1>5. \A t \in Range(contents) :
         \E n \in DOMAIN records' : IsSource(records', n, t.event) /\ t.body \in TextsOf(records'[n], t.kind)
  BY <1>2 DEF PartsPointHome
<1>6. \A t \in Range(targets) :
         \E n \in DOMAIN records' : IsSource(records', n, t.event) /\ t.path \in PathsOf(records'[n])
  BY <1>2 DEF PartsPointHome
<1>7. \A p \in Range(payloads) : IsSource(records', p.of, p.event)  BY <1>2, <1>3 DEF PartsPointHome
<1>. QED  BY <1>1, <1>4, <1>5, <1>6, <1>7 DEF PartsPointHome

\* A payload goes with its event, or is counted, and no more than the budget is kept.
LEMMA PayloadsMore ==
    ASSUME IsSequence(payloads), \A p \in Range(payloads) : p.size \in Nat, unstored \in Nat,
           PayloadBytes <= Budget, IF skip THEN payloads = <<>> ELSE Len(payloads) + unstored = Len(decoded),
           Len(decoded) \in Nat, Len(decoded') = Len(decoded) + 1, skip \in BOOLEAN, skip' = skip,
           NEW i, NEW size \in Nat, AppendPayload(i, size)
    PROVE  /\ IsSequence(payloads') /\ \A p \in Range(payloads') : p.size \in Nat
           /\ unstored' \in Nat /\ PayloadBytes' <= Budget
           /\ IF skip' THEN payloads' = <<>> ELSE Len(payloads') + unstored' = Len(decoded')
           /\ \A p \in Range(payloads') : p \in Range(payloads) \/ (p.event = i /\ p.of = Len(records) + 1)
<1>. DEFINE p == [event |-> i, size |-> size, of |-> Len(records) + 1]
<1>1. CASE payloads' = payloads /\ unstored' = unstored /\ skip
  <2>1. PayloadBytes' = PayloadBytes  BY <1>1 DEF PayloadBytes
  <2>. QED  BY <1>1, <2>1
<1>2. CASE ~skip /\ unstored' = unstored + 1 /\ payloads' = payloads
  <2>1. PayloadBytes' = PayloadBytes  BY <1>2 DEF PayloadBytes
  <2>2. Len(payloads) \in Nat  BY SequenceOfMore
  <2>. QED  BY <1>2, <2>1, <2>2
<1>3. CASE ~skip /\ unstored' = unstored /\ payloads' = Append(payloads, p) /\ PayloadBytes + size <= Budget
  <2>1. /\ IsSequence(payloads') /\ Range(payloads') = Range(payloads) \cup {p}
        /\ Len(payloads) \in Nat /\ Len(payloads') = Len(payloads) + 1
    <3>. HIDE DEF p
    <3>. QED  BY <1>3, SequenceOfMore
  <2>2. p.size = size /\ p.event = i /\ p.of = Len(records) + 1  OBVIOUS
  <2>3. PayloadBytes' = PayloadBytes + size
    <3>. DEFINE S == Range(payloads) \cup {p}
    <3>1. payloads \in Seq(S)
      <4>. DEFINE R == Range(payloads)
      <4>1. payloads \in Seq(R) /\ R \subseteq S  BY DEF IsSequence
      <4>. HIDE DEF R, S
      <4>. QED  BY <4>1
    <3>2. p \in S /\ \A q \in S : q.size \in Nat  BY <2>2
    <3>. HIDE DEF S, p
    <3>3. Added([n \in DOMAIN Append(payloads, p) |-> Append(payloads, p)[n].size]) =
            Added([n \in DOMAIN payloads |-> payloads[n].size]) + p.size
      BY <3>1, <3>2, BytesMore
    <3>. QED  BY <1>3, <2>2, <3>3 DEF PayloadBytes
  <2>. HIDE DEF p
  <2>4. \A q \in Range(payloads') : q \in Range(payloads) \/ q = p  BY <2>1
  <2>5. \A q \in Range(payloads') : q.size \in Nat  BY <2>2, <2>4
  <2>6. \A q \in Range(payloads') : q \in Range(payloads) \/ (q.event = i /\ q.of = Len(records) + 1)
    BY <2>2, <2>4
  <2>7. PayloadBytes' <= Budget /\ unstored' \in Nat  BY <1>3, <2>3
  <2>8. ~skip' /\ Len(payloads') + unstored' = Len(decoded')  BY <1>3, <2>1
  <2>. QED  BY <2>1, <2>5, <2>6, <2>7, <2>8
<1>. QED  BY <1>1, <1>2, <1>3 DEF AppendPayload

\* The parts that come with an event are its own, and those of others stay.
LEMMA BecomesParts ==
    ASSUME PartsPointHome, ResultsOK, records \in Seq(Entry), skip \in BOOLEAN, skip' = skip,
           Len(decoded) = Cardinality(SourcesIn(records, Len(records))),
           NEW g \in Entry, NEW e, NEW texts, NEW files, NEW size, Becomes(g, e, texts, files, size)
    PROVE  /\ PartsPointHome'
           /\ IsSequence(decoded') /\ IsSequence(contents') /\ IsSequence(targets') /\ IsSequence(payloads')
           /\ \A p \in Range(payloads') : p.size \in Nat
           /\ unstored' \in Nat
<1>. DEFINE N == Len(decoded)
<1>1. /\ Decodable(g) /\ records' = Append(records, g) /\ decoded' = Append(decoded, e)
      /\ contents' = contents \o texts /\ targets' = targets \o files
      /\ OwnTexts(g, e, N + 1, texts) /\ OwnPaths(g, e, N + 1, files)
      /\ size \in Nat /\ AppendPayload(N + 1, size)
  BY DEF Becomes
<1>2. /\ IsSequence(decoded) /\ IsSequence(contents) /\ IsSequence(targets) /\ IsSequence(payloads)
      /\ \A p \in Range(payloads) : p.size \in Nat
      /\ unstored \in Nat
  BY DEF ResultsOK
<1>3. /\ IsSequence(decoded') /\ N \in Nat /\ Len(decoded') = N + 1
      /\ DOMAIN decoded = 1 .. N /\ DOMAIN decoded' = 1 .. N + 1
      /\ decoded'[N + 1] = e /\ \A i \in 1 .. N : decoded'[i] = decoded[i]
  BY <1>1, <1>2, SequenceOfMore
<1>4. IsSequence(texts) /\ IsSequence(files)  BY <1>1 DEF OwnTexts, OwnPaths
<1>5. /\ IsSequence(contents') /\ Range(contents') = Range(contents) \cup Range(texts)
      /\ IsSequence(targets') /\ Range(targets') = Range(targets) \cup Range(files)
  BY <1>1, <1>2, <1>4, SequenceOfBoth
<1>6. /\ \A i : \A n \in DOMAIN records :
           IsSource(records, n, i) => n \in DOMAIN records' /\ IsSource(records', n, i) /\ records'[n] = records[n]
      /\ Len(records') = Len(records) + 1
      /\ IsSource(records', Len(records'), N + 1) /\ Len(records') \in DOMAIN records' /\ records'[Len(records')] = g
  BY <1>1, SourcesMore
<1>7. \A n, i : IsSource(records, n, i) => n \in DOMAIN records
  <2>1. DOMAIN records = 1 .. Len(records)  OBVIOUS
  <2>. QED  BY <2>1 DEF IsSource, SourcesIn
<1>. HIDE DEF N
<1>8. ASSUME NEW t \in Range(contents')
      PROVE  /\ t.event \in DOMAIN decoded' /\ t.key = DedupKey(decoded'[t.event])
             /\ \E n \in DOMAIN records' : IsSource(records', n, t.event) /\ t.body \in TextsOf(records'[n], t.kind)
  <2>1. CASE t \in Range(contents)
    <3>1. t.event \in DOMAIN decoded /\ t.key = DedupKey(decoded[t.event])  BY <2>1 DEF PartsPointHome
    <3>2. PICK n \in DOMAIN records : IsSource(records, n, t.event) /\ t.body \in TextsOf(records[n], t.kind)
      BY <2>1 DEF PartsPointHome
    <3>3. t.event \in DOMAIN decoded' /\ decoded'[t.event] = decoded[t.event]  BY <1>3, <3>1
    <3>4. n \in DOMAIN records' /\ IsSource(records', n, t.event) /\ records'[n] = records[n]  BY <1>6, <3>2
    <3>. QED  BY <3>1, <3>2, <3>3, <3>4
  <2>2. CASE t \in Range(texts)
    <3>1. t.event = N + 1 /\ t.key = DedupKey(e) /\ t.body \in TextsOf(g, t.kind)  BY <1>1, <2>2 DEF OwnTexts
    <3>2. N + 1 \in DOMAIN decoded'  BY <1>3
    <3>. QED  BY <1>3, <1>6, <3>1, <3>2
  <2>. QED  BY <1>5, <2>1, <2>2
<1>9. ASSUME NEW t \in Range(targets')
      PROVE  /\ t.event \in DOMAIN decoded' /\ t.key = DedupKey(decoded'[t.event])
             /\ \E n \in DOMAIN records' : IsSource(records', n, t.event) /\ t.path \in PathsOf(records'[n])
  <2>1. CASE t \in Range(targets)
    <3>1. t.event \in DOMAIN decoded /\ t.key = DedupKey(decoded[t.event])  BY <2>1 DEF PartsPointHome
    <3>2. PICK n \in DOMAIN records : IsSource(records, n, t.event) /\ t.path \in PathsOf(records[n])
      BY <2>1 DEF PartsPointHome
    <3>3. t.event \in DOMAIN decoded' /\ decoded'[t.event] = decoded[t.event]  BY <1>3, <3>1
    <3>4. n \in DOMAIN records' /\ IsSource(records', n, t.event) /\ records'[n] = records[n]  BY <1>6, <3>2
    <3>. QED  BY <3>1, <3>2, <3>3, <3>4
  <2>2. CASE t \in Range(files)
    <3>1. t.event = N + 1 /\ t.key = DedupKey(e) /\ t.path \in PathsOf(g)  BY <1>1, <2>2 DEF OwnPaths
    <3>2. N + 1 \in DOMAIN decoded'  BY <1>3
    <3>. QED  BY <1>3, <1>6, <3>1, <3>2
  <2>. QED  BY <1>5, <2>1, <2>2
<1>10. /\ IsSequence(payloads') /\ \A p \in Range(payloads') : p.size \in Nat
       /\ unstored' \in Nat /\ PayloadBytes' <= Budget
       /\ IF skip' THEN payloads' = <<>> ELSE Len(payloads') + unstored' = Len(decoded')
       /\ \A p \in Range(payloads') : p \in Range(payloads) \/ (p.event = N + 1 /\ p.of = Len(records) + 1)
  <2>1. PayloadBytes <= Budget /\ IF skip THEN payloads = <<>> ELSE Len(payloads) + unstored = Len(decoded)
    BY DEF PartsPointHome
  <2>2. Len(decoded) \in Nat /\ Len(decoded') = Len(decoded) + 1  BY <1>3 DEF N
  <2>. QED  BY <1>1, <1>2, <2>1, <2>2, PayloadsMore
<1>11. ASSUME NEW p \in Range(payloads') PROVE IsSource(records', p.of, p.event)
  <2>1. CASE p \in Range(payloads)
    <3>1. IsSource(records, p.of, p.event)  BY <2>1 DEF PartsPointHome
    <3>. QED  BY <1>6, <1>7, <3>1
  <2>2. CASE p.event = N + 1 /\ p.of = Len(records) + 1  BY <1>6, <2>2
  <2>. QED  BY <1>10, <2>1, <2>2
<1>12. PartsPointHome'  BY <1>8, <1>9, <1>10, <1>11 DEF PartsPointHome
<1>. QED  BY <1>3, <1>5, <1>10, <1>12

\* A text, a file: none or one.
LEMMA OneOrNone ==
    /\ IsSequence(<<>>) /\ Range(<<>>) = {}
    /\ \A x : IsSequence(<<x>>) /\ Range(<<x>>) = {x}
    /\ \A x, y : IsSequence(<<x, y>>) /\ Range(<<x, y>>) = {x, y}
<1>1. Range(<<>>) = {}  BY DEF Range
<1>2. IsSequence(<<>>)
  <2>1. \A S : <<>> \in Seq(S)  OBVIOUS
  <2>. QED  BY <2>1 DEF IsSequence
<1>3. ASSUME NEW x PROVE IsSequence(<<x>>) /\ Range(<<x>>) = {x}
  <2>1. Range(<<x>>) = {x}
    <3>1. DOMAIN <<x>> = {1} /\ <<x>>[1] = x  OBVIOUS
    <3>. DEFINE s == <<x>>
    <3>. HIDE DEF s
    <3>2. DOMAIN s = {1} /\ s[1] = x  BY <3>1 DEF s
    <3>3. Range(s) = {x}  BY <3>2 DEF Range
    <3>. QED  BY <3>3 DEF s
  <2>2. <<x>> \in Seq({x})  OBVIOUS
  <2>. QED  BY <2>1, <2>2 DEF IsSequence
<1>4. ASSUME NEW x, NEW y PROVE IsSequence(<<x, y>>) /\ Range(<<x, y>>) = {x, y}
  <2>1. Range(<<x, y>>) = {x, y}
    <3>1. DOMAIN <<x, y>> = {1, 2} /\ <<x, y>>[1] = x /\ <<x, y>>[2] = y  OBVIOUS
    <3>. DEFINE s == <<x, y>>
    <3>. HIDE DEF s
    <3>2. DOMAIN s = {1, 2} /\ s[1] = x /\ s[2] = y  BY <3>1 DEF s
    <3>3. Range(s) = {x, y}  BY <3>2 DEF Range
    <3>. QED  BY <3>3 DEF s
  <2>2. <<x, y>> \in Seq({x, y})  OBVIOUS
  <2>. QED  BY <2>1, <2>2 DEF IsSequence
<1>. QED  BY <1>1, <1>2, <1>3, <1>4

LEMMA ContentsAreTheirs ==
    ASSUME NEW g, NEW e, NEW i, NEW c,
           \A k \in {"prompt", "tool_input", "tool_result"} : c.at[k] \in TextsOf(g, k)
    PROVE  OwnTexts(g, e, i, ContentsOf(i, e, c))
<1>. DEFINE Theirs(s) == /\ IsSequence(s)
                         /\ \A t \in Range(s) : t.event = i /\ t.key = DedupKey(e) /\ t.body \in TextsOf(g, t.kind)
<1>1. ASSUME NEW k \in {"prompt", "tool_input", "tool_result"} PROVE Theirs(ContentOf(i, e, c, k))
  <2>. DEFINE x == [event |-> i, key |-> DedupKey(e), kind |-> k, body |-> c.at[k]]
  <2>1. x.event = i /\ x.key = DedupKey(e) /\ x.body \in TextsOf(g, x.kind)  OBVIOUS
  <2>2. ContentOf(i, e, c, k) = <<>> \/ ContentOf(i, e, c, k) = <<x>>  BY DEF ContentOf
  <2>. HIDE DEF x
  <2>. QED  BY <2>1, <2>2, OneOrNone
<1>2. ASSUME NEW s, NEW r, Theirs(s), Theirs(r) PROVE Theirs(s \o r)
  <2>1. IsSequence(s \o r) /\ Range(s \o r) = Range(s) \cup Range(r)  BY <1>2, SequenceOfBoth
  <2>. QED  BY <1>2, <2>1
<1>. HIDE DEF Theirs
<1>3. Theirs(ContentOf(i, e, c, "prompt") \o ContentOf(i, e, c, "tool_input"))  BY <1>1, <1>2
<1>4. Theirs(ContentOf(i, e, c, "prompt") \o ContentOf(i, e, c, "tool_input") \o ContentOf(i, e, c, "tool_result"))
  BY <1>1, <1>2, <1>3
<1>. QED  BY <1>4 DEF Theirs, OwnTexts, ContentsOf

LEMMA FilesAreTheirs ==
    ASSUME NEW g, NEW e, NEW i, NEW c, c.at["target"] \in PathsOf(g) \cup {Unset},
           PatchOutcome(e, c) = "applied" => Range(PatchFiles) \subseteq PathsOf(g)
    PROVE  OwnPaths(g, e, i, IF IsPatch(e) THEN PatchTargets(i, e, c) ELSE TargetsOf(i, e, c))
<1>1. OwnPaths(g, e, i, <<>>)  BY OneOrNone DEF OwnPaths
<1>2. OwnPaths(g, e, i, TargetsOf(i, e, c))
  <2>1. CASE TargetsOf(i, e, c) = <<>>  BY <1>1, <2>1
  <2>2. CASE c.at["target"] # Unset
    <3>. DEFINE x == Target(i, e, c.at["target"])
    <3>1. x.event = i /\ x.key = DedupKey(e) /\ x.path \in PathsOf(g)  BY <2>2 DEF Target
    <3>2. TargetsOf(i, e, c) = <<x>>  BY <2>2 DEF TargetsOf
    <3>. HIDE DEF x
    <3>. QED  BY <3>1, <3>2, OneOrNone DEF OwnPaths
  <2>. QED  BY <2>1, <2>2 DEF TargetsOf
<1>3. OwnPaths(g, e, i, PatchTargets(i, e, c))
  <2>1. CASE PatchOutcome(e, c) # "applied"  BY <1>1, <2>1 DEF PatchTargets
  <2>2. CASE PatchOutcome(e, c) = "applied"
    <3>. DEFINE x == Target(i, e, "p")
                y == Target(i, e, "q")
    <3>1. DOMAIN PatchFiles = {1, 2} /\ PatchFiles[1] = "p" /\ PatchFiles[2] = "q"  BY DEF PatchFiles
    <3>2. PatchTargets(i, e, c) = <<x, y>>  BY <2>2 DEF PatchTargets, PatchFiles
    <3>3. {"p", "q"} \subseteq PathsOf(g)  BY <2>2, <3>1 DEF Range
    <3>4. x.event = i /\ x.key = DedupKey(e) /\ x.path \in PathsOf(g)  BY <3>3 DEF Target
    <3>5. y.event = i /\ y.key = DedupKey(e) /\ y.path \in PathsOf(g)  BY <3>3 DEF Target
    <3>. HIDE DEF x, y
    <3>. QED  BY <3>2, <3>4, <3>5, OneOrNone DEF OwnPaths
  <2>. QED  BY <2>1, <2>2
<1>. QED  BY <1>2, <1>3

\* emit makes an event of a record that can be one, and counts another.
LEMMA Emitted ==
    ASSUME NEW g \in Entry, NEW c, CarrierSays(c, g.attrs), g.record \in AnyRecord, g.points = 1,
           records' = Append(records, g), NEW counter, NEW signal, NEW d \in Carrier,
           \A f \in Field : d.at[f] = c.at[f] \/ (f \in {"prompt", "tool_result"} /\ d.at[f] = g.record.body),
           NEW size \in Nat, Emit(counter, signal, NameSaid(g), TimeSaid(g), d, size)
    PROVE  Rejects(g, counter) \/ \E e, texts, files : Becomes(g, e, texts, files, size)
<1>. DEFINE bare == Event(signal, NameSaid(g), TimeSaid(g), d)
            n == Cardinality({j \in DOMAIN decoded : SeqKey(decoded[j]) = SeqKey(bare)})
            e == [bare EXCEPT !.seq = n]
            c2 == WithCallTexts(d, bare)
            i == Len(decoded) + 1
            texts == ContentsOf(i, e, c2)
            files == IF IsPatch(e) THEN PatchTargets(i, e, c2) ELSE TargetsOf(i, e, c2)
<1>1. g.attrs \in Seq(KeyValue)  BY DEF Entry
<1>2. {"name", "body"} \subseteq DOMAIN g.record  BY DEF AnyRecord
<1>3. \A f \in Field \ {"prompt", "tool_result"} : d.at[f] = c.at[f]  OBVIOUS
<1>4. e = Numbered(bare)  BY DEF Numbered
<1>5. /\ SaysOf(e, g) /\ e.seq = n /\ (Valid(e) <=> Decodable(g))
  <2>1. e = [Event(signal, NameSaid(g), TimeSaid(g), d) EXCEPT !.seq = n]  OBVIOUS
  <2>2. "name" \in DOMAIN g.record  BY <1>2
  <2>3. CarrierSays(c, g.attrs) /\ d \in Carrier  OBVIOUS
  <2>. HIDE DEF n, e, bare
  <2>4. SaysOf(e, g)  BY ONLY <1>1, <1>3, <2>1, <2>2, <2>3, EventSays
  <2>5. e.seq = n  BY ONLY <1>1, <1>3, <2>1, <2>2, <2>3, EventSays
  <2>6. e.vendor = VendorSaid(g) /\ e.name = NameSaid(g) /\ e.ts = TimeSaid(g)  BY <2>4 DEF SaysOf
  <2>7. Valid(e) <=> VendorSaid(g) # "" /\ NameSaid(g) # "" /\ TimeSaid(g) \in Times  BY ONLY <2>6 DEF Valid
  <2>8. Decodable(g) <=> NameSaid(g) # "" /\ VendorSaid(g) # "" /\ TimeSaid(g) \in Times  BY <2>2, Zenon DEF Decodable
  <2>9. Valid(e) <=> Decodable(g)  BY ONLY <2>7, <2>8
  <2>. QED  BY <2>4, <2>5, <2>9
<1>6. /\ SeqKey(e) = SeqKey(bare) /\ WithCallTexts(d, e) = c2
  BY DEF SeqKey, Attr, Event, WithCallTexts, IsCodexResult
<1>7. \/ /\ ~Valid(e)
         /\ rejected' = [rejected EXCEPT ![counter] = @ + 1]
         /\ UNCHANGED <<decoded, contents, targets, payloads, unstored, patches>>
      \/ /\ Valid(e)
         /\ decoded' = Append(decoded, e)
         /\ contents' = contents \o texts
         /\ targets' = targets \o files
         /\ patches' = IF IsPatch(e) /\ PatchOutcome(e, c2) # "applied"
                       THEN [patches EXCEPT ![PatchOutcome(e, c2)] = @ + 1] ELSE patches
         /\ AppendPayload(i, size)
         /\ UNCHANGED rejected
  <2>. HIDE DEF e, bare
  <2>. QED  BY <1>4 DEF Emit, bare
<1>8. \A k \in {"prompt", "tool_input", "tool_result"} : c2.at[k] \in TextsOf(g, k)
  <2>. HIDE DEF e, bare
  <2>. QED  BY <1>1, <1>2, TextsAreItsOwn
<1>9. /\ c2.at["target"] \in PathsOf(g) \cup {Unset}
      /\ PatchOutcome(e, c2) = "applied" => Range(PatchFiles) \subseteq PathsOf(g)
  <2>. HIDE DEF e, bare
  <2>. QED  BY <1>1, <1>3, <1>6, PathsAreItsOwn
<1>10. PatchOutcome(e, c2) \in Outcomes \cup {"applied"}
  <2>. HIDE DEF e, c2
  <2>. QED  BY DEF PatchOutcome, Outcomes
<1>. HIDE DEF e, c2, bare, n
<1>11. OwnTexts(g, e, i, texts) /\ OwnPaths(g, e, i, files)  BY <1>8, <1>9, ContentsAreTheirs, FilesAreTheirs
<1>12. CASE ~Valid(e)  BY <1>5, <1>7, <1>12 DEF Rejects
<1>13. CASE Valid(e)
  <2>1. PatchTaken(e, i, files)
    <3>1. CASE ~IsPatch(e)  BY <1>7, <1>13, <3>1 DEF PatchTaken
    <3>2. CASE IsPatch(e) /\ PatchOutcome(e, c2) = "applied"  BY <1>7, <1>13, <3>2 DEF PatchTaken, PatchTargets
    <3>3. CASE IsPatch(e) /\ PatchOutcome(e, c2) # "applied"
      <4>1. files = <<>> /\ PatchOutcome(e, c2) \in Outcomes  BY <1>10, <3>3 DEF PatchTargets
      <4>2. patches' = [patches EXCEPT ![PatchOutcome(e, c2)] = @ + 1]  BY <1>7, <1>13, <3>3
      <4>. QED  BY <3>3, <4>1, <4>2 DEF PatchTaken
    <3>. QED  BY <3>1, <3>2, <3>3
  <2>2. e.seq = Cardinality({j \in DOMAIN decoded : SeqKey(decoded[j]) = SeqKey(e)})  BY <1>5, <1>6 DEF n
  <2>. HIDE DEF texts, files
  <2>3. Becomes(g, e, texts, files, size)  BY <1>5, <1>7, <1>11, <1>13, <2>1, <2>2 DEF Becomes
  <2>. QED  BY <2>3
<1>. QED  BY <1>12, <1>13

-----------------------------------------------------------------------------
(* The actions *)

\* The record a log record or a point leaves in the request.
EntryOf(record, points) ==
    [kind |-> kind, attrs |-> resource.attrs \o scope.attrs \o record.attrs, record |-> record, points |-> points]

\* Another record: the request stays one.
LEMMA RequestMore ==
    ASSUME RequestOK, scope.open, NEW record \in AnyRecord \cup {NoSum}, NEW points \in Nat,
           kind = "logs" => record \in AnyRecord,
           records' = Append(records, EntryOf(record, points)), UNCHANGED <<kind, skip, resource, scope>>
    PROVE  /\ RequestOK' /\ EntryOf(record, points) \in Entry
           /\ CarrierSays(ApplyAll(scope.carrier, record.attrs), EntryOf(record, points).attrs)
<1>. DEFINE g == EntryOf(record, points)
            before == resource.attrs \o scope.attrs
<1>1. /\ before \in Seq(KeyValue) /\ CarrierSays(scope.carrier, before)
      /\ kind \in {"logs", "metrics"} /\ records \in Seq(Entry)
  BY DEF RequestOK
<1>2. record.attrs \in Seq(KeyValue)
  <2>1. CASE record \in AnyRecord  BY <2>1 DEF AnyRecord
  <2>2. CASE record = NoSum
    <3>1. record.attrs = <<>> /\ <<>> \in Seq(KeyValue)  BY <2>2 DEF NoSum
    <3>. QED  BY <3>1
  <2>. QED  BY <2>1, <2>2
<1>3. /\ g.attrs = before \o record.attrs /\ g.record = record /\ g.points = points /\ g.kind = kind
      /\ g = [kind |-> kind, attrs |-> before \o record.attrs, record |-> record, points |-> points]
  BY DEF EntryOf
<1>. HIDE DEF before
<1>4. before \o record.attrs \in Seq(KeyValue)  BY <1>1, <1>2
<1>5. g \in Entry  BY <1>1, <1>3, <1>4 DEF Entry
<1>6. CarrierSays(ApplyAll(scope.carrier, record.attrs), g.attrs)  BY <1>1, <1>2, <1>3, CarrierTakesAll
<1>7. Range(g.record.attrs) \subseteq Range(g.attrs)  BY <1>1, <1>2, <1>3, RangeOfConcat
<1>8. g.kind = "logs" => g.record \in AnyRecord  BY <1>3
<1>. HIDE DEF g
<1>9. records' = Append(records, g)  BY DEF g
<1>10. records' \in Seq(Entry) /\ Range(records') = Range(records) \cup {g}  BY <1>1, <1>5, <1>9, RangeOfAppend
<1>11. RequestOK'
  <2>1. \A h \in Range(records') :
          /\ Range(h.record.attrs) \subseteq Range(h.attrs)
          /\ h.kind = "logs" => h.record \in AnyRecord
    BY <1>7, <1>8, <1>10 DEF RequestOK
  <2>. QED  BY <1>10, <2>1 DEF RequestOK
<1>. QED  BY <1>5, <1>6, <1>11 DEF g

\* What was decoded stays right, whatever becomes of the record.
LEMMA DecodedMore ==
    ASSUME DecoderInv, RequestOK', skip' = skip, NEW g \in Entry, NEW counter \in Counters,
           Rejects(g, counter) \/ \E e, texts, files : \E size \in Nat : Becomes(g, e, texts, files, size)
    PROVE  DecoderInv'
<1>1. /\ ResultsOK /\ NumbersOK /\ EventsSayTheirRecord /\ PartsPointHome /\ PatchesAccountedFor
      /\ records \in Seq(Entry) /\ skip \in BOOLEAN
      /\ rejected \in [Counters -> Nat] /\ patches \in [Outcomes -> Nat]
      /\ IsSequence(decoded) /\ IsSequence(targets)
      /\ Len(decoded) = Cardinality(SourcesIn(records, Len(records)))
      /\ \A t \in Range(targets) : t.event \in DOMAIN decoded
  BY DEF DecoderInv, RequestOK, ResultsOK, EventsSayTheirRecord, PartsPointHome, Counters, Outcomes
<1>2. CASE Rejects(g, counter)
  <2>1. /\ UNCHANGED <<decoded, contents, targets, payloads, unstored, patches>>
        /\ rejected' = [rejected EXCEPT ![counter] = @ + g.points]
    BY <1>2 DEF Rejects
  <2>2. EventsSayTheirRecord'  BY <1>1, <1>2, RejectedSays
  <2>3. PartsPointHome'  BY <1>1, <1>2, RejectedParts
  <2>4. PatchesAccountedFor'  BY <1>1, <2>1 DEF PatchesAccountedFor
  <2>5. NumbersOK'  BY <1>1, <2>1 DEF NumbersOK
  <2>6. rejected' \in [Counters -> Nat]
    <3>1. g.points \in Nat  BY DEF Entry
    <3>. QED  BY <1>1, <2>1, <3>1
  <2>7. ResultsOK'  BY <1>1, <2>1, <2>6 DEF ResultsOK, Counters
  <2>. QED  BY <2>2, <2>3, <2>4, <2>5, <2>7 DEF DecoderInv
<1>3. CASE \E e, texts, files : \E size \in Nat : Becomes(g, e, texts, files, size)
  <2>1. PICK e, texts, files, size : Becomes(g, e, texts, files, size)  BY <1>3
  <2>2. EventsSayTheirRecord'  BY <1>1, <2>1, BecomesSays
  <2>3. /\ PartsPointHome'
        /\ IsSequence(decoded') /\ IsSequence(contents') /\ IsSequence(targets') /\ IsSequence(payloads')
        /\ \A p \in Range(payloads') : p.size \in Nat
        /\ unstored' \in Nat
    BY <1>1, <2>1, BecomesParts
  <2>4. PatchesAccountedFor' /\ patches' \in [Outcomes -> Nat]  BY <1>1, <2>1, BecomesPatched
  <2>5. NumbersOK'  BY <1>1, <2>1, BecomesNumbered
  <2>6. rejected' \in [Counters -> Nat]  BY <1>1, <2>1 DEF Becomes
  <2>7. ResultsOK'  BY <2>3, <2>4, <2>6 DEF ResultsOK, Counters, Outcomes
  <2>. QED  BY <2>2, <2>3, <2>4, <2>5, <2>7 DEF DecoderInv
<1>. QED  BY <1>2, <1>3

\* OpenResource, OpenScope
LEMMA GroupsOpen ==
    ASSUME DecoderInv, NEW attrs \in Seq(KeyValue), OpenResource(attrs) \/ OpenScope(attrs)
    PROVE  DecoderInv'
<1>0. ResultsOK /\ NumbersOK /\ EventsSayTheirRecord /\ PartsPointHome /\ PatchesAccountedFor /\ RequestOK
  BY DEF DecoderInv
<1>1. UNCHANGED <<kind, skip, records, decoded, contents, targets, payloads, unstored, rejected, usageErrors, patches>>
  BY DEF OpenResource, OpenScope, results
<1>2. RequestOK'
  <2>1. CASE OpenResource(attrs)
    <3>1. resource' = OpenGroup(attrs, NoCarrier) /\ scope' = Closed  BY <2>1 DEF OpenResource
    <3>2. CarrierSays(ApplyAll(NoCarrier, attrs), <<>> \o attrs) /\ <<>> \o attrs = attrs
      <4>1. <<>> \in Seq(KeyValue) /\ <<>> \o attrs = attrs  OBVIOUS
      <4>. QED  BY <4>1, NoCarrierSays, CarrierTakesAll
    <3>3. resource'.attrs = attrs /\ resource'.carrier = ApplyAll(NoCarrier, attrs) /\ scope'.open = FALSE
      BY <3>1 DEF OpenGroup, Closed
    <3>. QED  BY <1>0, <1>1, <3>2, <3>3 DEF RequestOK
  <2>2. CASE OpenScope(attrs)
    <3>1. scope' = OpenGroup(attrs, resource.carrier) /\ resource' = resource  BY <2>2 DEF OpenScope
    <3>2. CarrierSays(ApplyAll(resource.carrier, attrs), resource.attrs \o attrs)
      BY <1>0, CarrierTakesAll DEF RequestOK
    <3>3. scope'.attrs = attrs /\ scope'.carrier = ApplyAll(resource.carrier, attrs)  BY <3>1 DEF OpenGroup
    <3>. QED  BY <1>0, <1>1, <3>1, <3>2, <3>3 DEF RequestOK
  <2>. QED  BY <2>1, <2>2
<1>3. EventsSayTheirRecord'  BY <1>0, <1>1 DEF EventsSayTheirRecord
<1>4. PartsPointHome'  BY <1>0, <1>1 DEF PartsPointHome, PayloadBytes
<1>5. PatchesAccountedFor' /\ NumbersOK' /\ ResultsOK'
  BY <1>0, <1>1 DEF PatchesAccountedFor, NumbersOK, ResultsOK
<1>. QED  BY <1>2, <1>3, <1>4, <1>5 DEF DecoderInv

LEMMA LogRecordDecoded ==
    ASSUME DecoderInv, NEW record \in LogRecords, LogRecord(record)
    PROVE  DecoderInv'
<1>. DEFINE g == EntryOf(record, 1)
            c == ApplyAll(scope.carrier, record.attrs)
            name == NameOf(c, record)
            d == WithBody(c, name, record.body)
            ts == FirstTime(<<record.time, record.observed, c.at["event.timestamp"]>>)
<1>1. record \in AnyRecord /\ record.name \in Names /\ record.body \in STRING /\ record.size \in Nat
  BY DecoderAssumption DEF AnyRecord
<1>2. /\ kind = "logs" /\ scope.open /\ records' = Append(records, g)
      /\ UNCHANGED <<kind, skip, resource, scope>>
      /\ Emit("records", "log", name, ts, d, record.size)
  BY DEF LogRecord, Given, Copied, EntryOf
<1>3. /\ RequestOK' /\ g \in Entry /\ CarrierSays(c, g.attrs)  BY <1>1, <1>2, RequestMore DEF DecoderInv
<1>4. g.record = record /\ g.kind = "logs" /\ g.points = 1 /\ g.attrs \in Seq(KeyValue)
  BY <1>2, <1>3 DEF EntryOf, Entry
<1>5. c \in Carrier /\ c.at["event.name"] = Said(g.attrs, "event.name")
      /\ c.at["event.timestamp"] = Said(g.attrs, "event.timestamp")
  BY <1>3 DEF CarrierSays, Field
<1>6. name = NameSaid(g) /\ ts = TimeSaid(g)  BY <1>4, <1>5 DEF NameOf, NameSaid, TimeSaid
<1>7. name \in Names  BY <1>1, <1>4, <1>5, NameSaidIsName DEF NameOf
<1>8. /\ d \in Carrier
      /\ \A f \in Field : d.at[f] = c.at[f] \/ (f \in {"prompt", "tool_result"} /\ d.at[f] = g.record.body)
  <2>. DEFINE b == record.body
  <2>1. b = g.record.body /\ b \in STRING  BY <1>1, <1>4
  <2>2. c \in Carrier /\ name \in Names /\ d = WithBody(c, name, b)  BY <1>5, <1>7
  <2>. HIDE DEF c, name, g, b, d
  <2>3. d \in Carrier  BY <2>1, <2>2, BodyTaken
  <2>4. \A f \in Field \ {"prompt", "tool_result"} : d.at[f] = c.at[f]  BY <2>1, <2>2, BodyTaken
  <2>5. \A f \in {"prompt", "tool_result"} : d.at[f] \in {c.at[f], b}  BY <2>1, <2>2, BodyTaken
  <2>. QED  BY <2>1, <2>3, <2>4, <2>5
<1>. HIDE DEF g, c, name, d, ts
<1>9. Emit("records", "log", NameSaid(g), TimeSaid(g), d, record.size)  BY <1>2, <1>6
<1>10. Rejects(g, "records") \/ \E e, texts, files : Becomes(g, e, texts, files, record.size)
  BY <1>1, <1>2, <1>3, <1>4, <1>8, <1>9, Emitted
<1>. QED  BY <1>1, <1>2, <1>3, <1>10, DecodedMore DEF Counters

LEMMA DataPointDecoded ==
    ASSUME DecoderInv, NEW record \in DataPoints, DataPoint(record)
    PROVE  DecoderInv'
<1>. DEFINE g == EntryOf(record, 1)
            c == ApplyAll(scope.carrier, record.attrs)
            ts == FirstTime(<<record.time, record.observed, c.at["event.timestamp"]>>)
<1>1. record \in AnyRecord /\ record.size \in Nat  BY DecoderAssumption DEF AnyRecord
<1>2. /\ kind = "metrics" /\ scope.open /\ records' = Append(records, g)
      /\ UNCHANGED <<kind, skip, resource, scope>>
      /\ Emit("points", "metric", record.name, ts, c, record.size)
  BY DEF DataPoint, Given, Copied, EntryOf
<1>3. /\ RequestOK' /\ g \in Entry /\ CarrierSays(c, g.attrs)  BY <1>1, <1>2, RequestMore DEF DecoderInv
<1>4. g.record = record /\ g.kind = "metrics" /\ g.points = 1 /\ g.attrs \in Seq(KeyValue)
  BY <1>2, <1>3 DEF EntryOf, Entry
<1>5. c \in Carrier /\ c.at["event.timestamp"] = Said(g.attrs, "event.timestamp")
  BY <1>3 DEF CarrierSays, Field
<1>6. record.name = NameSaid(g) /\ ts = TimeSaid(g)  BY <1>4, <1>5 DEF NameSaid, TimeSaid
<1>. HIDE DEF g, c, ts
<1>7. Emit("points", "metric", NameSaid(g), TimeSaid(g), c, record.size)  BY <1>2, <1>6
<1>8. Rejects(g, "points") \/ \E e, texts, files : Becomes(g, e, texts, files, record.size)
  BY <1>1, <1>2, <1>3, <1>4, <1>5, <1>7, Emitted
<1>. QED  BY <1>1, <1>2, <1>3, <1>8, DecodedMore DEF Counters

LEMMA OtherMetricCounted ==
    ASSUME DecoderInv, NEW counter \in {"temporality", "type"}, NEW points \in 0..2, NotASum(counter, points)
    PROVE  DecoderInv'
<1>. DEFINE g == EntryOf(NoSum, points)
<1>1. /\ kind = "metrics" /\ scope.open /\ records' = Append(records, g)
      /\ UNCHANGED <<kind, skip, resource, scope>>
      /\ rejected' = [rejected EXCEPT ![counter] = @ + points]
      /\ UNCHANGED <<decoded, contents, targets, payloads, unstored, patches>>
  BY DEF NotASum, Given, EntryOf, NoSum
<1>2. RequestOK' /\ g \in Entry
  <2>1. NoSum \in AnyRecord \cup {NoSum} /\ points \in Nat  OBVIOUS
  <2>. QED  BY <1>1, <2>1, RequestMore DEF DecoderInv
<1>3. g.record = NoSum /\ g.points = points  BY DEF EntryOf
<1>4. ~Decodable(g)
  <2>1. "name" \notin DOMAIN NoSum  BY DEF NoSum
  <2>. QED  BY <1>3, <2>1 DEF Decodable
<1>. HIDE DEF g
<1>5. Rejects(g, counter)  BY <1>1, <1>3, <1>4 DEF Rejects
<1>. QED  BY <1>1, <1>2, <1>5, DecodedMore DEF Counters

-----------------------------------------------------------------------------
(* The copy for the company, and the theorems *)

\* What is filtered out says nothing.
LEMMA DeniedSaysNothing ==
    ASSUME NEW s \in Seq(KeyValue), NEW denied, NEW r \in denied, NEW f, f # "tokens",
           \A key \in STRING : FieldOf(key) = f => key \in r.keys
    PROVE  /\ Said(Filtered(s, denied), f) = Unset
           /\ \A a \in Range(Filtered(s, denied)) : FieldOf(a.key) # f
<1>. DEFINE left == Filtered(s, denied)
<1>1. left \in Seq(KeyValue) /\ Range(left) = {a \in Range(s) : \A q \in denied : a.key \notin q.keys}
  BY FilteredKeeps
<1>2. Range(left) \subseteq KeyValue
  <2>. HIDE DEF left
  <2>. QED  BY <1>1 DEF Range
<1>3. \A a \in KeyValue : a.key \in STRING  BY DEF KeyValue
<1>4. \A a \in Range(left) : FieldOf(a.key) # f  BY <1>1, <1>2, <1>3
<1>. HIDE DEF left
<1>5. Said(left, f) = Unset  BY <1>1, <1>4, SaidBySomeone
<1>. QED  BY <1>4, <1>5 DEF left

\* The copy for the company has the name that scrubLogs judged it by, or none.
LEMMA CopyNamedAlike ==
    ASSUME NEW g, g.attrs \in Seq(KeyValue), g.record \in AnyRecord,
           Range(g.record.attrs) \subseteq Range(g.attrs), NamedOnce(g), NEW denied,
           NEW c, CarrierSays(c, Filtered(g.attrs, denied))
    PROVE  /\ NameOf(c, g.record) \in Names
           /\ NameOf(c, g.record) \in {"", ScrubName(g.record)}
<1>. DEFINE left == Filtered(g.attrs, denied)
            own == g.record.attrs
            said == Said(left, "event.name")
<1>1. left \in Seq(KeyValue) /\ Range(left) \subseteq Range(g.attrs)  BY FilteredKeeps
<1>2. c.at["event.name"] = said  BY DEF CarrierSays, Field
<1>3. NameOf(c, g.record) = IF said # Unset THEN said ELSE g.record.name  BY <1>2 DEF NameOf
<1>4. g.record.name \in Names /\ own \in Seq(KeyValue)  BY DEF AnyRecord
<1>5. NameOf(c, g.record) \in Names
  <2>. HIDE DEF left
  <2>. QED  BY <1>1, <1>3, <1>4, NameSaidIsName
<1>6. said # Unset => \E a \in Range(g.attrs) : FieldOf(a.key) = "event.name" /\ a.value = said
  <2>. SUFFICES ASSUME said # Unset
                PROVE  \E a \in Range(g.attrs) : FieldOf(a.key) = "event.name" /\ a.value = said
    OBVIOUS
  <2>. HIDE DEF left
  <2>1. PICK a \in Range(left) : FieldOf(a.key) = "event.name" /\ Counts(a) /\ said = a.value
    BY <1>1, SaidBySomeone
  <2>. QED  BY <1>1, <2>1
<1>7. CASE g.record.name # "" /\ NamesIn(g.attrs) = {}
  <2>1. \A a \in Range(g.attrs) : FieldOf(a.key) # "event.name"  BY <1>7 DEF NamesIn, Range
  <2>2. ScrubName(g.record) = g.record.name  BY <1>7 DEF ScrubName
  <2>. QED  BY <1>3, <1>5, <1>6, <2>1, <2>2
<1>8. CASE /\ g.record.name = "" /\ Cardinality(NamesIn(g.attrs)) = 1
           /\ \E n \in NamesIn(own) : own[n].key = "event.name"
  <2>. DEFINE named == {n \in DOMAIN own : own[n].key = "event.name"}
  <2>1. PICK n : NamesIn(g.attrs) = {n}
    <3>1. IsFiniteSet(NamesIn(g.attrs))
      <4>1. Len(g.attrs) \in Nat /\ NamesIn(g.attrs) \subseteq 1 .. Len(g.attrs)  BY DEF NamesIn
      <4>2. 1 \in Int /\ Len(g.attrs) \in Int  BY <4>1
      <4>3. IsFiniteSet(1 .. Len(g.attrs))  BY <4>2, FS_Interval
      <4>. QED  BY <4>1, <4>3, FS_Subset
    <3>. QED  BY <1>8, <3>1, FS_Singleton
  <2>2. \A a \in Range(g.attrs) : FieldOf(a.key) = "event.name" => a = g.attrs[n]  BY <2>1 DEF NamesIn, Range
  <2>3. named # {}  BY <1>8 DEF NamesIn
  <2>4. ScrubName(g.record) = own[Min(named)].value  BY <1>8, <2>3 DEF ScrubName
  <2>5. Min(named) \in named
    <3>1. named \subseteq Nat  BY <1>4
    <3>. HIDE DEF named
    <3>. QED  BY <2>3, <3>1, MinOfNaturals
  <2>6. own[Min(named)] \in Range(own) /\ own[Min(named)].key = "event.name"
    <3>. DEFINE m == Min(named)
    <3>1. m \in DOMAIN own /\ own[m].key = "event.name"  BY <2>5
    <3>. HIDE DEF m
    <3>2. own[m] \in Range(own)  BY <3>1 DEF Range
    <3>. QED  BY <3>1, <3>2 DEF m
  <2>7. FieldOf("event.name") = "event.name"  BY DEF FieldOf
  <2>8. said = Unset \/ said = ScrubName(g.record)
    <3>. DEFINE x == own[Min(named)]
    <3>1. x \in Range(g.attrs) /\ x.key = "event.name"  BY <2>6
    <3>. HIDE DEF x
    <3>2. x = g.attrs[n]  BY <2>2, <2>7, <3>1
    <3>3. ScrubName(g.record) = x.value  BY <2>4 DEF x
    <3>. QED  BY <1>6, <2>2, <3>2, <3>3
  <2>. QED  BY <1>3, <1>5, <1>8, <2>8
<1>. QED  BY <1>7, <1>8 DEF NamedOnce

\* Of what the company may not collect nothing is left in its copy.
LEMMA CopyHides ==
    ASSUME NEW g, g.attrs \in Seq(KeyValue), g.record \in AnyRecord,
           Range(g.record.attrs) \subseteq Range(g.attrs), NamedOnce(g),
           NEW denied \in SUBSET Rules, NEW r \in denied
    PROVE  /\ CompanySees(g, denied).at[r.about] = Unset
           /\ r.about = "tool_input" => CompanySees(g, denied).at["target"] = Unset
<1>. DEFINE left == Filtered(g.attrs, denied)
            c == ApplyAll(NoCarrier, left)
            name == NameOf(c, g.record)
            body == ScrubbedBody(g.record, denied)
            text == WithBody(c, name, body)
            e == Event("log", name, "t1", text)
<1>1. CarrierSays(c, left) /\ c \in Carrier
  <2>. HIDE DEF left
  <2>1. left \in Seq(KeyValue)  BY FilteredKeeps DEF left
  <2>2. <<>> \in Seq(KeyValue) /\ <<>> \o left = left  BY <2>1
  <2>3. CarrierSays(c, <<>> \o left)  BY <2>1, <2>2, NoCarrierSays, CarrierTakesAll
  <2>. QED  BY <2>2, <2>3 DEF CarrierSays
<1>2. name \in Names /\ name \in {"", ScrubName(g.record)}
  <2>. HIDE DEF c
  <2>. QED  BY <1>1, CopyNamedAlike
<1>3. body \in STRING /\ ((\E q \in denied : EndsIn[ScrubName(g.record)] = q.suffix) => body = "")
  <2>1. g.record.body \in STRING  BY DEF AnyRecord
  <2>2. CASE \E q \in denied : EndsIn[ScrubName(g.record)] = q.suffix
    <3>1. body = ""  BY <2>2 DEF ScrubbedBody
    <3>2. "" \in STRING  BY DecoderAssumption
    <3>. HIDE DEF body
    <3>3. body \in STRING  BY <3>1, <3>2
    <3>. QED  BY <3>1, <3>3, Zenon
  <2>3. CASE ~\E q \in denied : EndsIn[ScrubName(g.record)] = q.suffix
    <3>1. body = g.record.body  BY <2>3 DEF ScrubbedBody
    <3>. QED  BY <2>1, <2>3, <3>1
  <2>. QED  BY <2>2, <2>3
<1>4. \A f \in Field \ {"target"} : c.at[f] = Said(left, f)  BY <1>1 DEF CarrierSays
<1>5. \/ c.at["target"] = Unset
      \/ \E a \in Range(left) : FieldOf(a.key) = "tool_input" /\ a.value = c.at["target"]
  BY <1>1 DEF CarrierSays
<1>6. /\ CompanySees(g, denied) = WithCallTexts(text, e)
  BY DEF CompanySees
<1>. HIDE DEF name, body
<1>7. /\ text \in Carrier
      /\ \A f \in Field \ {"prompt", "tool_result"} : text.at[f] = c.at[f]
      /\ \A f \in {"prompt", "tool_result"} : EndsIn[name] # f \/ body = "" => text.at[f] = c.at[f]
  <2>. HIDE DEF c
  <2>. QED  BY <1>1, <1>2, <1>3, BodyTaken
<1>. HIDE DEF c, text, e, left
<1>8. /\ \A f \in Field \ {"tool_input", "tool_result"} : CompanySees(g, denied).at[f] = text.at[f]
      /\ CompanySees(g, denied).at["tool_input"] \in {text.at["tool_input"], text.at["arguments"]}
      /\ CompanySees(g, denied).at["tool_result"] \in {text.at["tool_result"], text.at["output"]}
  <2>. DEFINE z == WithCallTexts(text, e)
  <2>1. \A f \in Field \ {"tool_input", "tool_result"} : z.at[f] = text.at[f]  BY <1>7, CallTexts
  <2>2. z.at["tool_input"] \in {text.at["tool_input"], text.at["arguments"]}  BY <1>7, CallTexts
  <2>3. z.at["tool_result"] \in {text.at["tool_result"], text.at["output"]}  BY <1>7, CallTexts
  <2>. QED  BY <1>6, <2>1, <2>2, <2>3
<1>9. EndsIn[""] = ""  BY DecoderAssumption
<1>10. /\ {"prompt", "tool_input", "tool_result", "arguments", "output"} \subseteq Field \ {"target"}
       /\ "target" \in Field
  BY DEF Field
<1>11. CASE r.about = "prompt" /\ r.keys = {"prompt", "user_prompt"} /\ r.suffix = "prompt"
  <2>1. Said(left, "prompt") = Unset
    <3>1. \A key \in STRING : FieldOf(key) = "prompt" => key \in r.keys  BY <1>11 DEF FieldOf
    <3>. QED  BY <3>1, DeniedSaysNothing DEF left
  <2>2. EndsIn[name] # "prompt" \/ body = ""  BY <1>2, <1>3, <1>9, <1>11
  <2>. QED  BY <1>4, <1>7, <1>8, <1>10, <1>11, <2>1, <2>2
<1>12. CASE r.about = "tool_input" /\ r.keys = {"tool_input", "tool_parameters", "arguments"}
  <2>1. Said(left, "tool_input") = Unset /\ \A a \in Range(left) : FieldOf(a.key) # "tool_input"
    <3>1. \A key \in STRING : FieldOf(key) = "tool_input" => key \in r.keys  BY <1>12 DEF FieldOf
    <3>. QED  BY <3>1, DeniedSaysNothing DEF left
  <2>2. Said(left, "arguments") = Unset
    <3>1. \A key \in STRING : FieldOf(key) = "arguments" => key \in r.keys  BY <1>12 DEF FieldOf
    <3>. QED  BY <3>1, DeniedSaysNothing DEF left
  <2>3. c.at["target"] = Unset  BY <1>5, <2>1
  <2>. QED  BY <1>4, <1>7, <1>8, <1>10, <1>12, <2>1, <2>2, <2>3
<1>13. CASE r.about = "tool_result" /\ r.keys = {"tool_result", "output"} /\ r.suffix = "tool_result"
  <2>1. Said(left, "tool_result") = Unset
    <3>1. \A key \in STRING : FieldOf(key) = "tool_result" => key \in r.keys  BY <1>13 DEF FieldOf
    <3>. QED  BY <3>1, DeniedSaysNothing DEF left
  <2>2. Said(left, "output") = Unset
    <3>1. \A key \in STRING : FieldOf(key) = "output" => key \in r.keys  BY <1>13 DEF FieldOf
    <3>. QED  BY <3>1, DeniedSaysNothing DEF left
  <2>3. EndsIn[name] # "tool_result" \/ body = ""  BY <1>2, <1>3, <1>9, <1>13
  <2>. QED  BY <1>4, <1>7, <1>8, <1>10, <1>13, <2>1, <2>2, <2>3
<1>. QED  BY <1>11, <1>12, <1>13 DEF Rules

LEMMA RequestScrubbed ==
    ASSUME RequestOK PROVE ScrubHides
<1>1. \A g \in Range(records) : g \in Entry
  <2>1. records \in Seq(Entry)  BY DEF RequestOK
  <2>. QED  BY <2>1 DEF Range
<1>. SUFFICES ASSUME NEW g \in Range(records), NEW denied \in SUBSET Rules,
                     g.kind = "logs", NamedOnce(g), NEW r \in denied
              PROVE  /\ CompanySees(g, denied).at[r.about] = Unset
                     /\ r.about = "tool_input" => CompanySees(g, denied).at["target"] = Unset
  BY DEF ScrubHides
<1>2. g.attrs \in Seq(KeyValue)  BY <1>1 DEF Entry
<1>3. g.record \in AnyRecord /\ Range(g.record.attrs) \subseteq Range(g.attrs)  BY DEF RequestOK
<1>. QED  BY <1>2, <1>3, CopyHides

LEMMA NothingDecodedYet ==
    ASSUME DecoderInit PROVE DecoderInv
<1>1. /\ records = <<>> /\ decoded = <<>> /\ contents = <<>> /\ targets = <<>> /\ payloads = <<>> /\ unstored = 0
      /\ rejected = [c \in Counters |-> 0] /\ patches = [o \in Outcomes |-> 0]
      /\ kind \in {"logs", "metrics"} /\ skip \in BOOLEAN /\ resource = Closed /\ scope = Closed
  BY DEF DecoderInit, Counters, Outcomes
<1>2. DOMAIN <<>> = {} /\ Len(<<>>) = 0 /\ 1..0 = {}  OBVIOUS
<1>3. Range(<<>>) = {} /\ IsSequence(<<>>)  BY OneOrNone
<1>4. RequestOK
  <2>1. resource.attrs = <<>> /\ resource.carrier = NoCarrier /\ scope.open = FALSE  BY <1>1 DEF Closed
  <2>2. <<>> \in Seq(KeyValue) /\ <<>> \in Seq(Entry)  OBVIOUS
  <2>. QED  BY <1>1, <1>3, <2>1, <2>2, NoCarrierSays DEF RequestOK
<1>5. ResultsOK  BY <1>1, <1>3 DEF ResultsOK, Counters, Outcomes
<1>6. NumbersOK  BY <1>1, <1>2 DEF NumbersOK
<1>7. Cardinality({}) = 0  BY FS_EmptySet
<1>8. Added(<<>>) = 0
  <2>1. <<>> \in Seq(Int) /\ Len(<<>>) = 0  OBVIOUS
  <2>2. PICK f : /\ RunningSums(f, <<>>)
                 /\ f = CHOOSE h : h = [n \in 0 .. Len(<<>>) |-> IF n = 0 THEN 0 ELSE h[n - 1] + <<>>[n]]
    BY <2>1, SumsByRecursion
  <2>3. Added(<<>>) = f[Len(<<>>)]  BY <2>2 DEF Added
  <2>. QED  BY <2>1, <2>2, <2>3 DEF RunningSums
<1>9. Added([n \in DOMAIN records |-> records[n].points]) = 0 /\ PayloadBytes = 0
  <2>1. [n \in DOMAIN records |-> records[n].points] = <<>>  BY <1>1
  <2>2. [n \in DOMAIN payloads |-> payloads[n].size] = <<>>  BY <1>1
  <2>. QED  BY <1>8, <2>1, <2>2 DEF PayloadBytes
<1>10. EventsSayTheirRecord
  <2>1. SourcesIn(records, Len(records)) = {}  BY <1>1, <1>2 DEF SourcesIn
  <2>2. Len(decoded) = Cardinality(SourcesIn(records, Len(records)))  BY <1>1, <1>2, <1>7, <2>1
  <2>3. Len(decoded) + rejected.records + rejected.points + rejected.temporality + rejected.type = 0
    BY <1>1, <1>2 DEF Counters
  <2>. QED  BY <1>1, <1>2, <1>9, <2>2, <2>3 DEF EventsSayTheirRecord
<1>11. PartsPointHome
  <2>1. 0 <= Budget
    <3>1. {MaxPayload, Budget, MaxRecords, MaxGroups} \subseteq Nat  BY DecoderAssumption
    <3>2. Budget \in Nat  BY <3>1, Zenon
    <3>. QED  BY <3>2
  <2>. QED  BY <1>1, <1>2, <1>3, <1>9, <2>1 DEF PartsPointHome
<1>12. PatchesAccountedFor
  <2>1. {i \in {j \in DOMAIN decoded : IsPatch(decoded[j])} : FilesAt(targets, i) = {}} = {}  BY <1>1, <1>2
  <2>2. patches.unconfirmed + patches.missing + patches.truncated + patches.invalid = 0  BY <1>1 DEF Outcomes
  <2>. QED  BY <1>1, <1>2, <1>7, <2>1, <2>2 DEF PatchesAccountedFor
<1>. QED  BY <1>4, <1>5, <1>6, <1>10, <1>11, <1>12 DEF DecoderInv

LEMMA DecoderInvKept ==
    ASSUME DecoderInv, [DecoderNext]_decoderVars PROVE DecoderInv'
<1>1. CASE UNCHANGED decoderVars
  <2>1. UNCHANGED <<kind, skip, resource, scope, records, decoded, contents, targets, payloads, unstored, rejected, patches>>
    BY <1>1 DEF decoderVars
  <2>2. RequestOK'  BY <2>1 DEF DecoderInv, RequestOK
  <2>3. ResultsOK' /\ NumbersOK'  BY <2>1 DEF DecoderInv, ResultsOK, NumbersOK
  <2>4. EventsSayTheirRecord'  BY <2>1 DEF DecoderInv, EventsSayTheirRecord
  <2>5. PartsPointHome'  BY <2>1 DEF DecoderInv, PartsPointHome, PayloadBytes
  <2>6. PatchesAccountedFor'  BY <2>1 DEF DecoderInv, PatchesAccountedFor
  <2>. QED  BY <2>2, <2>3, <2>4, <2>5, <2>6 DEF DecoderInv
<1>2. ASSUME NEW attrs \in ResourceAttrs, OpenResource(attrs) PROVE DecoderInv'
  BY <1>2, GroupsOpen, DecoderAssumption
<1>3. ASSUME NEW attrs \in ScopeAttrs, OpenScope(attrs) PROVE DecoderInv'
  BY <1>3, GroupsOpen, DecoderAssumption
<1>4. ASSUME NEW record \in LogRecords, LogRecord(record) PROVE DecoderInv'  BY <1>4, LogRecordDecoded
<1>5. ASSUME NEW record \in DataPoints, DataPoint(record) PROVE DecoderInv'  BY <1>5, DataPointDecoded
<1>6. ASSUME NEW points \in 0..2, NotASum("temporality", points) \/ NotASum("type", points) PROVE DecoderInv'
  BY <1>6, OtherMetricCounted
<1>. QED  BY <1>1, <1>2, <1>3, <1>4, <1>5, <1>6 DEF DecoderNext

\* A request is decoded as far as it was read: the invariant (decode.go).
THEOREM DecoderInvIsInductive == DecoderSpec => []DecoderInv
<1>1. DecoderInit => DecoderInv  BY NothingDecodedYet
<1>2. DecoderInv /\ [DecoderNext]_decoderVars => DecoderInv'  BY DecoderInvKept
<1>. QED  BY <1>1, <1>2, PTL DEF DecoderSpec

\* Every event of a request says what applies to its own record, its texts,
\* files and payload are its own, every record is an event or counted, and of
\* what the company may not collect nothing is left in its copy.
THEOREM DecodingIsTrue == DecoderSpec => []DecodedTruly
<1>1. DecoderInv => DecodedTruly
  <2>. SUFFICES ASSUME DecoderInv PROVE DecodedTruly  OBVIOUS
  <2>1. NumbersOK /\ IsSequence(decoded) /\ RequestOK  BY DEF DecoderInv, ResultsOK
  <2>2. KeysTellApart  BY <2>1, NumbersTellApart
  <2>3. ScrubHides  BY <2>1, RequestScrubbed
  <2>. QED  BY <2>2, <2>3 DEF DecoderInv, DecodedTruly
<1>. QED  BY <1>1, DecoderInvIsInductive, PTL

=============================================================================
