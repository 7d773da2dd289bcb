------------------------------ MODULE Pipeline ------------------------------
(***************************************************************************)
(* The daemon's pipeline, internal/daemon/pipeline.go.                     *)
(*                                                                         *)
(* Receiver workers (Consume), the handlers of vendor hooks                *)
(* (SubmitLifecycle) and the daemon's own loop (submit, close) put         *)
(* commands into one channel; a single goroutine (run) owns everything     *)
(* else: the duplicate window, the session assembler, the events that are  *)
(* not stored yet, and all the writes.  A write is one transaction that    *)
(* may fail, and then its events are kept for the next attempt.            *)
(*                                                                         *)
(* An event is its duplicate key.  What a session holds is abstracted to   *)
(* whether the store has its present state; times are abstracted away, so  *)
(* the assembler may drop any session at a session tick.  Left to other    *)
(* modules or out: the payload's way to the forwarder (Forwarder), title   *)
(* requests (TitleRefresher), the wake-up of the Codex worker, the store's *)
(* retention and the counters no property here reads.                      *)
(***************************************************************************)
EXTENDS DedupWindow, FiniteSets, SequencesExt

CONSTANTS
    Consumers,       \* the receiver's workers
    Hooks,           \* lifecycle calls, each made at most once
    NoHook,
    Events,
    NoSession,
    SessionOf,       \* the session of each event, or NoSession
    Batches,         \* the contents a payload may have
    QueueSize,       \* pipelineQueue
    BatchEvents,     \* the size that forces a write
    MaxCarry,        \* maxCarryEvents
    ReceiverFirst,   \* the daemon closes the pipeline after the receiver
    MaxPayloads,     \* bound: payloads consumed
    MaxFailures,     \* bound: failed transactions
    MaxCrashes       \* bound: crashes of the daemon

ASSUME SizeAssumption ==
    QueueSize \in Nat \ {0} /\ BatchEvents \in Nat \ {0} /\ MaxCarry \in Nat
ASSUME NameAssumption == NoHook \notin Hooks
ASSUME BatchAssumption == Batches \subseteq Seq(Events) /\ ReceiverFirst \in BOOLEAN
ASSUME BoundAssumption == {MaxPayloads, MaxFailures, MaxCrashes} \subseteq Nat

VARIABLES
    consumer,  \* per worker: where Consume stands and its batch
    hook,      \* per lifecycle call: what the caller knows
    reply,     \* per lifecycle call: its done channel
    runner,    \* the daemon's loop and, later, its shutdown
    tick,      \* the command the loop is submitting
    cmds,      \* the channel of commands
    cur,       \* the command run is working on
    done,      \* run has returned
    window,    \* the duplicate window
    tracked,   \* the sessions the assembler holds
    unsaved,   \* those of them the store has an older state of
    pending,   \* events that are not stored yet
    dirty,     \* whether a flush tick has anything to do
    db,        \* the rows of the events table, in order of insertion
    applied,   \* the lifecycle calls the store has
    stats,     \* the counters of the shutdown summary
    payloads,  \* bound: payloads consumed so far
    failures,  \* bound: failed transactions so far
    crashes,   \* bound: crashes so far
    base,      \* history: rows the store had when the daemon started
    admitted,  \* history: events that passed the window, in order
    capped,    \* history: events that were dropped to bound pending
    skipped    \* history: events the store has no place for

callers == <<consumer, hook, runner, tick, payloads>>
owned == <<window, tracked, unsaved, pending, dirty, admitted, capped, skipped>>
store == <<db, applied, failures>>
bounds == <<crashes, base>>
vars == <<callers, owned, store, bounds, reply, cmds, cur, done, stats>>

Command(kind, batch, h) == [kind |-> kind, batch |-> batch, hook |-> h]
Idle == Command("none", <<>>, NoHook)

TickKinds == {"flush", "sessions", "prune"}

Counter == {"events", "duplicates", "stored", "folded"}

Resting == [pc |-> "idle", batch |-> <<>>]

\* The state a process starts with; the store outlives it.
Init ==
    /\ consumer = [c \in Consumers |-> Resting]
    /\ hook = [h \in Hooks |-> "idle"]
    /\ reply = [h \in Hooks |-> "none"]
    /\ runner = "submitting"   \* the loop begins with the retention
    /\ tick = "prune"
    /\ cmds = <<>>
    /\ cur = Idle
    /\ done = FALSE
    /\ window = EmptyWindow
    /\ tracked = {}
    /\ unsaved = {}
    /\ pending = <<>>
    /\ dirty = FALSE
    /\ db = <<>>
    /\ applied = {}
    /\ stats = [c \in Counter |-> 0]
    /\ payloads = 0
    /\ failures = 0
    /\ crashes = 0
    /\ base = 0
    /\ admitted = <<>>
    /\ capped = 0
    /\ skipped = 0

Room == Len(cmds) < QueueSize

Push(command) == Room /\ cmds' = Append(cmds, command)

-----------------------------------------------------------------------------
(* Consume.  Its context is the receiver's, which is cancelled only after  *)
(* the workers have returned, so the ctx branch of the select cannot run.  *)

\* An empty batch ends here: the payload only goes to the forwarder.
Consume(c, b) ==
    /\ consumer[c].pc = "idle"
    /\ payloads < MaxPayloads
    /\ ReceiverFirst => runner \in {"loop", "submitting", "stopping"}
    /\ payloads' = payloads + 1
    /\ consumer' = [consumer EXCEPT ![c] =
                        IF b = <<>> THEN Resting ELSE [pc |-> "checking", batch |-> b]]
    /\ UNCHANGED <<hook, reply, runner, tick, cmds, cur, done, owned, store, bounds, stats>>

\* The first select: whether the pipeline has ended.
CheckDone(c) ==
    /\ consumer[c].pc = "checking"
    /\ consumer' = [consumer EXCEPT ![c] =
                        IF done THEN Resting ELSE [@ EXCEPT !.pc = "sending"]]
    /\ UNCHANGED <<hook, reply, runner, tick, payloads, cmds, cur, done, owned,
                   store, bounds, stats>>

\* The second select: Consume returns nil.
SendBatch(c) ==
    /\ consumer[c].pc = "sending"
    /\ Push(Command("batch", consumer[c].batch, NoHook))
    /\ consumer' = [consumer EXCEPT ![c] = Resting]
    /\ UNCHANGED <<hook, reply, runner, tick, payloads, cur, done, owned, store,
                   bounds, stats>>

\* The second select: Consume returns an error.
SendRefused(c) ==
    /\ consumer[c].pc = "sending"
    /\ done
    /\ consumer' = [consumer EXCEPT ![c] = Resting]
    /\ UNCHANGED <<hook, reply, runner, tick, payloads, cmds, cur, done, owned,
                   store, bounds, stats>>

-----------------------------------------------------------------------------
(* SubmitLifecycle *)

SendHook(h) ==
    /\ hook[h] = "idle"
    /\ Push(Command("hook", <<>>, h))
    /\ hook' = [hook EXCEPT ![h] = "waiting"]
    /\ UNCHANGED <<consumer, reply, runner, tick, payloads, cur, done, owned,
                   store, bounds, stats>>

HookReturns(h) ==
    /\ hook[h] = "waiting"
    /\ reply[h] # "none"
    /\ hook' = [hook EXCEPT ![h] = reply[h]]
    /\ UNCHANGED <<consumer, reply, runner, tick, payloads, cmds, cur, done,
                   owned, store, bounds, stats>>

\* The pipeline has ended; a reply that is there at the same time may be left
\* unread, since select picks either.
HookRefused(h) ==
    /\ hook[h] \in {"idle", "waiting"}
    /\ done
    /\ hook' = [hook EXCEPT ![h] = "failed"]
    /\ UNCHANGED <<consumer, reply, runner, tick, payloads, cmds, cur, done,
                   owned, store, bounds, stats>>

\* The caller's context ends, whether or not the command will be applied.
HookGivesUp(h) ==
    /\ hook[h] \in {"idle", "waiting"}
    /\ hook' = [hook EXCEPT ![h] = "failed"]
    /\ UNCHANGED <<consumer, reply, runner, tick, payloads, cmds, cur, done,
                   owned, store, bounds, stats>>

-----------------------------------------------------------------------------
(* The daemon's loop submits the periodic commands; it is also the only    *)
(* caller of close, so no tick is submitted to a pipeline that has ended.  *)

Tick(k) ==
    /\ runner = "loop"
    /\ runner' = "submitting"
    /\ tick' = k
    /\ UNCHANGED <<consumer, hook, reply, payloads, cmds, cur, done, owned,
                   store, bounds, stats>>

\* submit does not watch the daemon's context: it waits for room.
SubmitTick ==
    /\ runner = "submitting"
    /\ Push(Command(tick, <<>>, NoHook))
    /\ runner' = "loop"
    /\ UNCHANGED <<consumer, hook, tick, payloads, reply, cur, done, owned,
                   store, bounds, stats>>

Stop ==
    /\ runner = "loop"
    /\ runner' = "stopping"
    /\ UNCHANGED <<consumer, hook, tick, payloads, reply, cmds, cur, done,
                   owned, store, bounds, stats>>

\* shutdown closes the receiver, which waits for its workers, and then the
\* pipeline.
BeginClose ==
    /\ runner = "stopping"
    /\ ReceiverFirst => \A c \in Consumers : consumer[c].pc = "idle"
    /\ runner' = "closing"
    /\ UNCHANGED <<consumer, hook, tick, payloads, reply, cmds, cur, done,
                   owned, store, bounds, stats>>

SendFinal ==
    /\ runner = "closing"
    /\ Push(Command("final", <<>>, NoHook))
    /\ runner' = "waiting"
    /\ UNCHANGED <<consumer, hook, tick, payloads, reply, cur, done, owned,
                   store, bounds, stats>>

\* close returns true.
Flushed ==
    /\ runner = "waiting"
    /\ done
    /\ runner' = "flushed"
    /\ UNCHANGED <<consumer, hook, tick, payloads, reply, cmds, cur, done,
                   owned, store, bounds, stats>>

\* The deadline passes, before the sentinel is in the channel or after.
CloseTimesOut ==
    /\ runner \in {"closing", "waiting"}
    /\ runner' = "late"
    /\ UNCHANGED <<consumer, hook, tick, payloads, reply, cmds, cur, done,
                   owned, store, bounds, stats>>

-----------------------------------------------------------------------------
(* run *)

Take ==
    /\ cur = Idle
    /\ ~done
    /\ cmds # <<>>
    /\ cur' = Head(cmds)
    /\ cmds' = Tail(cmds)
    /\ stats' = [stats EXCEPT !.events = @ + Len(Head(cmds).batch)]
    /\ UNCHANGED <<callers, reply, done, owned, store, bounds>>

Ingesting == cur.kind = "batch" /\ cur.batch # <<>>

IngestDuplicate ==
    /\ Ingesting
    /\ InWindow(window, Head(cur.batch))
    /\ stats' = [stats EXCEPT !.duplicates = @ + 1]
    /\ cur' = [cur EXCEPT !.batch = Tail(@)]
    /\ UNCHANGED <<callers, reply, cmds, done, owned, store, bounds>>

\* The assembler ignores an event without a session.
Touched(e) == {SessionOf[e]} \ {NoSession}

IngestNew ==
    /\ Ingesting
    /\ LET e == Head(cur.batch) IN
         /\ ~InWindow(window, e)
         /\ window' = Remember(window, e)
         /\ tracked' = tracked \cup Touched(e)
         /\ unsaved' = unsaved \cup Touched(e)
         /\ pending' = Append(pending, e)
         /\ admitted' = Append(admitted, e)
    /\ dirty' = TRUE
    /\ cur' = [cur EXCEPT !.batch = Tail(@)]
    /\ UNCHANGED <<callers, reply, cmds, done, store, bounds, stats, capped, skipped>>

-----------------------------------------------------------------------------
(* flush *)

\* ingest flushes by size, a flush tick if anything is new, a session tick
\* and the end always.
Writes ==
    \/ cur.kind = "batch" /\ cur.batch = <<>> /\ Len(pending) >= BatchEvents
    \/ cur.kind = "flush" /\ dirty
    \/ cur.kind \in {"sessions", "final"}

\* Mutant: a session tick writes the events alone.
SnapshotAtTheEnd == IF cur.kind = "final" THEN tracked ELSE {}

\* The assembler's snapshot goes with a session tick and with the end.
Snapshot == IF cur.kind \in {"sessions", "final"} THEN tracked ELSE {}

\* What is left of the command after its flush.
Flushless ==
    CASE cur.kind = "sessions" -> [cur EXCEPT !.kind = "clean"]
      [] cur.kind = "final" -> [cur EXCEPT !.kind = "last"]
      [] OTHER -> Idle

HasPlace(e) == SessionOf[e] # NoSession

\* The rows a write inserts, event by event: a turn to go to and no row yet.
RowsOf(events) ==
    LET rows[n \in 0 .. Len(events)] ==
            IF n = 0 THEN <<>>
            ELSE LET before == rows[n - 1]
                     e == events[n]
                 IN  IF HasPlace(e) /\ ~Contains(db, e) /\ ~Contains(before, e)
                     THEN Append(before, e) ELSE before
    IN  rows[Len(events)]

Placed(events) == Cardinality({i \in DOMAIN events : HasPlace(events[i])})

Empty == pending = <<>> /\ Snapshot = {}

FlushNothing ==
    /\ Writes
    /\ Empty
    /\ dirty' = FALSE
    /\ cur' = Flushless
    /\ UNCHANGED <<callers, reply, cmds, done, window, tracked, unsaved, pending,
                   admitted, capped, skipped, store, bounds, stats>>

Commit ==
    /\ Writes
    /\ ~Empty
    /\ LET rows == RowsOf(pending)
           placed == Placed(pending)
       IN  /\ db' = db \o rows
           /\ stats' = [stats EXCEPT !.stored = @ + Len(rows),
                                     !.folded = @ + (placed - Len(rows))]
           /\ skipped' = skipped + (Len(pending) - placed)
    /\ unsaved' = unsaved \ Snapshot
    /\ pending' = <<>>
    /\ dirty' = FALSE
    /\ cur' = Flushless
    /\ UNCHANGED <<callers, reply, cmds, done, window, tracked, admitted, capped,
                   applied, failures, bounds>>

CapTail(events) ==
    IF Len(events) <= MaxCarry THEN events
    ELSE SubSeq(events, Len(events) - MaxCarry + 1, Len(events))

\* Mutant: nothing is kept for the next attempt.
WriteFailsForGood ==
    /\ Writes
    /\ ~Empty
    /\ failures < MaxFailures
    /\ failures' = failures + 1
    /\ pending' = <<>>
    /\ dirty' = FALSE
    /\ cur' = Flushless
    /\ UNCHANGED <<callers, reply, cmds, done, window, tracked, unsaved, admitted,
                   capped, skipped, db, applied, bounds, stats>>

\* Mutant: the next flush tick is not told.
WriteFailsQuietly ==
    /\ Writes
    /\ ~Empty
    /\ failures < MaxFailures
    /\ failures' = failures + 1
    /\ pending' = CapTail(pending)
    /\ capped' = capped + (Len(pending) - Len(pending'))
    /\ dirty' = FALSE
    /\ cur' = Flushless
    /\ UNCHANGED <<callers, reply, cmds, done, window, tracked, unsaved, admitted,
                   skipped, db, applied, bounds, stats>>

\* The transaction leaves nothing behind; the events wait for the next one.
WriteFails ==
    /\ Writes
    /\ ~Empty
    /\ failures < MaxFailures
    /\ failures' = failures + 1
    /\ pending' = CapTail(pending)
    /\ capped' = capped + (Len(pending) - Len(pending'))
    /\ dirty' = (pending' # <<>>)
    /\ cur' = Flushless
    /\ UNCHANGED <<callers, reply, cmds, done, window, tracked, unsaved, admitted,
                   skipped, db, applied, bounds, stats>>

-----------------------------------------------------------------------------
(* What is left of the commands *)

\* A small batch, a flush tick with nothing new, the retention.
NoWrite ==
    /\ \/ cur.kind = "batch" /\ cur.batch = <<>> /\ Len(pending) < BatchEvents
       \/ cur.kind = "flush" /\ ~dirty
       \/ cur.kind = "prune"
    /\ cur' = Idle
    /\ UNCHANGED <<callers, reply, cmds, done, owned, store, bounds, stats>>

\* The end of closeSessions: the assembler forgets the sessions that have
\* been silent for long enough and whose titles can be forgotten.
ForgetSessions(gone) ==
    /\ cur.kind = "clean"
    /\ tracked' = tracked \ gone
    /\ unsaved' = unsaved \ gone
    /\ cur' = Idle
    /\ UNCHANGED <<callers, reply, cmds, done, window, pending, dirty, admitted,
                   capped, skipped, store, bounds, stats>>

Finish ==
    /\ cur.kind = "last"
    /\ done' = TRUE
    /\ cur' = Idle
    /\ UNCHANGED <<callers, reply, cmds, owned, store, bounds, stats>>

ApplyHook ==
    /\ cur.kind = "hook"
    /\ applied' = applied \cup {cur.hook}
    /\ reply' = [reply EXCEPT ![cur.hook] = "ok"]
    /\ cur' = Idle
    /\ UNCHANGED <<callers, cmds, done, owned, db, failures, bounds, stats>>

\* Mutant: the error stays in the log.
FailHookSilently ==
    /\ cur.kind = "hook"
    /\ failures < MaxFailures
    /\ failures' = failures + 1
    /\ reply' = [reply EXCEPT ![cur.hook] = "ok"]
    /\ cur' = Idle
    /\ UNCHANGED <<callers, cmds, done, owned, db, applied, bounds, stats>>

\* Mutant: a failure ends the command without an answer.
FailHookUnanswered ==
    /\ cur.kind = "hook"
    /\ failures < MaxFailures
    /\ failures' = failures + 1
    /\ cur' = Idle
    /\ UNCHANGED <<callers, reply, cmds, done, owned, db, applied, bounds, stats>>

FailHook ==
    /\ cur.kind = "hook"
    /\ failures < MaxFailures
    /\ failures' = failures + 1
    /\ reply' = [reply EXCEPT ![cur.hook] = "failed"]
    /\ cur' = Idle
    /\ UNCHANGED <<callers, cmds, done, owned, db, applied, bounds, stats>>

-----------------------------------------------------------------------------
\* The daemon dies or leaves, and another one starts on the same store.
Crash ==
    /\ crashes < MaxCrashes
    /\ crashes' = crashes + 1
    /\ base' = Len(db)
    /\ consumer' = [c \in Consumers |-> Resting]
    /\ hook' = [h \in Hooks |-> IF hook[h] = "waiting" THEN "failed" ELSE hook[h]]
    /\ reply' = [h \in Hooks |-> "none"]
    /\ runner' = "submitting"
    /\ tick' = "prune"
    /\ cmds' = <<>>
    /\ cur' = Idle
    /\ done' = FALSE
    /\ window' = EmptyWindow
    /\ tracked' = {}
    /\ unsaved' = {}
    /\ pending' = <<>>
    /\ dirty' = FALSE
    /\ stats' = [c \in Counter |-> 0]
    /\ admitted' = <<>>
    /\ capped' = 0
    /\ skipped' = 0
    /\ UNCHANGED <<db, applied, payloads, failures>>

Worker(c) == CheckDone(c) \/ SendBatch(c) \/ SendRefused(c)

Owner ==
    \/ Take \/ IngestDuplicate \/ IngestNew
    \/ FlushNothing \/ Commit \/ WriteFails \/ NoWrite
    \/ \E gone \in SUBSET tracked : ForgetSessions(gone)
    \/ Finish \/ ApplyHook \/ FailHook

Runner ==
    \/ \E k \in TickKinds : Tick(k)
    \/ SubmitTick \/ Stop \/ BeginClose \/ SendFinal \/ Flushed \/ CloseTimesOut

Next ==
    \/ \E c \in Consumers : Worker(c) \/ \E b \in Batches : Consume(c, b)
    \/ \E h \in Hooks : SendHook(h) \/ HookReturns(h) \/ HookRefused(h) \/ HookGivesUp(h)
    \/ Runner
    \/ Owner
    \/ Crash

Spec == Init /\ [][Next]_vars

\* Goroutines that can run do run.  The loop's select picks among the
\* tickers that have fired at random, so a flush tick is not passed over for
\* ever; nothing says that a deadline passes, or that anyone asks to stop.
FairSpec ==
    /\ Spec
    /\ WF_vars(Owner)
    /\ \A c \in Consumers : SF_vars(Worker(c))
    /\ WF_vars(SubmitTick)
    /\ SF_vars(Tick("flush"))
    /\ WF_vars(BeginClose) /\ WF_vars(SendFinal) /\ WF_vars(Flushed)
    /\ \A h \in Hooks : WF_vars(HookReturns(h) \/ HookRefused(h))

-----------------------------------------------------------------------------
(* Properties *)

\* The summary the daemon logs adds up: an event that was taken from the
\* channel is a duplicate, stored, folded by the store's unique hash, without
\* a place in the store, dropped by the cap, or still waiting.
Conserved ==
    stats.events = stats.duplicates + stats.stored + stats.folded
                     + skipped + capped + Len(pending) + Len(cur.batch)

\* s can be had from t by leaving out elements: what of s is matched, the
\* elements of t taken one after the other.
Embeds(s, t) ==
    LET matched[n \in 0 .. Len(t)] ==
            IF n = 0 THEN 0
            ELSE LET k == matched[n - 1]
                 IN  IF k < Len(s) /\ s[k + 1] = t[n] THEN k + 1 ELSE k
    IN  matched[Len(t)] = Len(s)

\* Rows are inserted in the order the events arrived in, whatever failed in
\* between (seq in internal/store/resolve.go is the order of arrival).
ArrivalOrder == Embeds(SubSeq(db, base + 1, Len(db)) \o RowsOf(pending), admitted)

\* Turning a duplicate away never loses an event: unless the cap has dropped
\* something, what the window knows is stored or about to be.
DuplicateIsBacked ==
    capped = 0 =>
        \A e \in window.seen : HasPlace(e) => Contains(db, e) \/ Contains(pending, e)

\* However long the store fails, what waits between two commands is bounded.
PendingBounded == cur = Idle => Len(pending) <= Max({MaxCarry, BatchEvents - 1})

\* close has returned true and no write has failed: everything that passed
\* the window is in the store, and with it the state of every session.
FlushedMeansStored ==
    runner = "flushed" /\ failures = 0 =>
        /\ pending = <<>> /\ unsaved = {} /\ cur = Idle
        /\ \A i \in 1..Len(admitted) : HasPlace(admitted[i]) => Contains(db, admitted[i])

\* Every event taken from the channel is accounted for: counted once, stored
\* once in the order of arrival or still waiting, and none is turned away as
\* a duplicate of one that was lost; what waits is bounded, and nothing waits
\* any more after a close that succeeded.
EventsAccountedFor ==
    Conserved /\ ArrivalOrder /\ DuplicateIsBacked /\ PendingBounded /\ FlushedMeansStored

\* A hook is told of success only if the store has applied it, whatever else
\* it may have been told.
HookAckIsTrue == \A h \in Hooks : hook[h] = "ok" => h \in applied

Kept == (tracked \ tracked') \cap unsaved = {}

\* As long as writes succeed, the assembler drops a session only when the
\* store has all it knows of it: the tick writes first and forgets after.
SnapshotBeforeForgotten == [][crashes' = crashes /\ failures = 0 => Kept]_vars

\* A failed write is no reason to keep its snapshot, because the assembler
\* still has the session and the next session tick writes a newer one
\* (internal/daemon/pipeline.go:597).
FailedSnapshotIsRetried == [][crashes' = crashes => Kept]_vars

Waiting(e) == HasPlace(e) /\ Contains(pending, e)

\* A failing write is tried again until the event is stored, or the cap drops
\* something, or the daemon's last write has failed or run out of time.
EventStored ==
    \A e \in Events : Waiting(e) ~> (Contains(db, e) \/ capped > 0 \/ done \/ runner = "late")

\* Nobody who waits for the pipeline waits for ever: the daemon's loop comes
\* out of a submit and its close comes back, a worker of the receiver leaves
\* Consume, except behind a close that ran out of time, and a lifecycle call
\* that is in the channel is answered or given up.
CallersReturn ==
    /\ runner = "stopping" ~> runner \in {"flushed", "late"}
    /\ \A c \in Consumers : consumer[c].pc # "idle" ~> consumer[c].pc = "idle"
    /\ \A h \in Hooks : hook[h] = "waiting" ~> hook[h] \in {"ok", "failed"}
=============================================================================
