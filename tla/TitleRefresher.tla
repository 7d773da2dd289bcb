--------------------------- MODULE TitleRefresher ---------------------------
(***************************************************************************)
(* The title refresher of one vendor, internal/daemon/session_title.go.    *)
(*                                                                         *)
(* The pipeline goroutine offers requests without ever waiting, one worker *)
(* owns the states and looks titles up, and every retry of a final lookup  *)
(* is a goroutine of its own that waits for a timer and then for room in   *)
(* the queue.  Neither a cancelled retry nor one of an earlier life of its *)
(* session may have an effect, although it may already be in the queue.    *)
(***************************************************************************)
EXTENDS Naturals, Sequences, FiniteSets

CONSTANTS
    Key,              \* the sessions
    NoState,          \* the worker knows nothing of the session
    QueueSize,        \* titleQueueSize
    MaxRetries,       \* the length of finalRetryDelays
    Policies,         \* whether a vendor's refresher stops after a success
    MaxOffers         \* bound: the requests the pipeline makes

\* titleState, with the id of its pending retry or 0.
TitleState ==
    [saved : BOOLEAN, ended : BOOLEAN, finalized : BOOLEAN, cooling : BOOLEAN,
     attempts : Nat, generation : Nat, pending : Nat]

ASSUME NoStateAssumption == NoState \notin Key \cup TitleState
ASSUME SizeAssumption == QueueSize \in Nat \ {0} /\ MaxRetries \in Nat
ASSUME PolicyAssumption == Policies \subseteq BOOLEAN /\ MaxOffers \in Nat

VARIABLES
    stopAfterSuccess, \* the vendor's policy: Claude Code's, or Codex's that polls on
    queue,      \* the channel of requests
    states,     \* what the worker knows of each session
    current,    \* the session the worker is looking up, or NoState
    retries,    \* the retry goroutines that have not ended
    cancelled,  \* the retries whose context was cancelled
    nextId,     \* the name of the next retry; 0 is no retry
    done,       \* the refresher's context is cancelled
    worker,     \* "running" or "exited"
    offers,     \* how many requests the pipeline has made
    lookups     \* history: lookups since the session ended, per session

vars == <<stopAfterSuccess, queue, states, current, retries, cancelled, nextId, done, worker,
          offers, lookups>>

Fresh(generation) ==
    [saved |-> FALSE, ended |-> FALSE, finalized |-> FALSE, cooling |-> FALSE,
     attempts |-> 0, generation |-> generation, pending |-> 0]

Known(k) == states[k] # NoState

RetryIds == {r.id : r \in retries}

Init ==
    /\ stopAfterSuccess \in Policies
    /\ queue = <<>>
    /\ states = [k \in Key |-> NoState]
    /\ current = NoState
    /\ retries = {}
    /\ cancelled = {}
    /\ nextId = 1
    /\ done = FALSE
    /\ worker = "running"
    /\ offers = 0
    /\ lookups = [k \in Key |-> 0]

-----------------------------------------------------------------------------
(* The pipeline's side: both calls return at once, whatever happens. *)

Request(k, kind) == [key |-> k, kind |-> kind, generation |-> 0, id |-> 0]

Offer(request) ==
    /\ offers < MaxOffers
    /\ offers' = offers + 1
    /\ \/ ~done /\ Len(queue) < QueueSize /\ queue' = Append(queue, request)
       \/ (done \/ Len(queue) >= QueueSize) /\ UNCHANGED queue
    /\ UNCHANGED <<states, current, retries, cancelled, nextId, done, worker, lookups>>

\* A session snapshot, or the lifecycle hook, with what it says of the end.
Enqueue(k, ended) == Offer(Request(k, IF ended THEN "ended" ELSE "live"))

TryForget(k) == Offer(Request(k, "forget"))

-----------------------------------------------------------------------------
(* The worker *)

\* Mutant: a reservation is recognised by its generation alone, and those
\* start again after a forget.
SameGeneration(req) ==
    Known(req.key) /\ req.generation = states[req.key].generation

\* The reservation belongs to the session's present life.
Reserved(req) ==
    /\ Known(req.key)
    /\ req.generation = states[req.key].generation
    /\ req.id \notin cancelled

Stale(req) == req.kind = "retry" /\ ~Reserved(req)

IsEnd(req) == req.kind \in {"ended", "retry"}

\* The retry that processing req cancels, as a set of ids.
\* Mutant: a resumed session keeps its retry.
CancelledByRetryOnly(req, s) == IF req.kind = "retry" THEN {s.pending} \ {0} ELSE {}

CancelledBy(req, s) ==
    IF req.kind = "retry" \/ (~IsEnd(req) /\ s.ended) THEN {s.pending} \ {0} ELSE {}

\* The state after the head of run's loop: a retry clears itself, a live
\* request after an end starts the session's next generation, the first
\* ended request starts the final lookups.
Advanced(req, s) ==
    CASE req.kind = "retry" -> [s EXCEPT !.pending = 0]
      [] req.kind = "live" /\ s.ended -> Fresh(s.generation + 1)
      [] req.kind = "ended" /\ ~s.ended ->
            [s EXCEPT !.ended = TRUE, !.generation = @ + 1]
      [] OTHER -> s

Enough(s) == stopAfterSuccess /\ s.saved

\* Whether the loop goes on to the lookup.
Due(s) == ~s.finalized /\ s.pending = 0 /\ (s.ended \/ ~s.cooling)

Ready == worker = "running" /\ current = NoState /\ ~done /\ queue # <<>>

Forget ==
    /\ Ready
    /\ LET req == Head(queue) IN
         /\ req.kind = "forget"
         /\ cancelled' = cancelled \cup
              (IF Known(req.key) THEN {states[req.key].pending} \ {0} ELSE {})
         /\ states' = [states EXCEPT ![req.key] = NoState]
         /\ lookups' = [lookups EXCEPT ![req.key] = 0]
    /\ queue' = Tail(queue)
    /\ UNCHANGED <<current, retries, nextId, done, worker, offers>>

DropStale ==
    /\ Ready
    /\ Stale(Head(queue))
    /\ queue' = Tail(queue)
    /\ UNCHANGED <<states, current, retries, cancelled, nextId, done, worker,
                   offers, lookups>>

SkipSaved ==
    /\ Ready
    /\ LET req == Head(queue) IN
         req.kind # "forget" /\ ~Stale(req) /\ Known(req.key) /\ Enough(states[req.key])
    /\ queue' = Tail(queue)
    /\ UNCHANGED <<states, current, retries, cancelled, nextId, done, worker,
                   offers, lookups>>

Process ==
    /\ Ready
    /\ LET req == Head(queue)
           old == IF Known(req.key) THEN states[req.key] ELSE Fresh(0)
           new == Advanced(req, old)
       IN /\ req.kind # "forget"
          /\ ~Stale(req)
          /\ ~Enough(old)
          /\ states' = [states EXCEPT ![req.key] = new]
          /\ cancelled' = cancelled \cup CancelledBy(req, old)
          /\ current' = IF Due(new) THEN req.key ELSE NoState
          /\ lookups' = [lookups EXCEPT ![req.key] =
                IF ~new.ended THEN 0
                ELSE (IF old.ended THEN @ ELSE 0) + (IF Due(new) THEN 1 ELSE 0)]
    /\ queue' = Tail(queue)
    /\ UNCHANGED <<retries, nextId, done, worker, offers>>

\* The lookup and the store both succeeded.
Found ==
    /\ worker = "running"
    /\ current # NoState
    /\ states' = [states EXCEPT ![current].saved = TRUE,
                                ![current].finalized = states[current].ended,
                                ![current].cooling = ~states[current].ended /\ ~stopAfterSuccess]
    /\ current' = NoState
    /\ UNCHANGED <<queue, retries, cancelled, nextId, done, worker, offers, lookups>>

NotFoundLive ==
    /\ worker = "running"
    /\ current # NoState
    /\ ~states[current].ended
    /\ states' = [states EXCEPT ![current].cooling = TRUE]
    /\ current' = NoState
    /\ UNCHANGED <<queue, retries, cancelled, nextId, done, worker, offers, lookups>>

\* Mutant: an exhausted session is not marked as final.
KeepsTrying ==
    /\ worker = "running"
    /\ current # NoState
    /\ states[current].ended
    /\ states[current].attempts = MaxRetries
    /\ states' = [states EXCEPT ![current].cooling = TRUE]
    /\ current' = NoState
    /\ UNCHANGED <<queue, retries, cancelled, nextId, done, worker, offers, lookups>>

Exhausted ==
    /\ worker = "running"
    /\ current # NoState
    /\ states[current].ended
    /\ states[current].attempts = MaxRetries
    /\ states' = [states EXCEPT ![current].cooling = TRUE, ![current].finalized = TRUE]
    /\ current' = NoState
    /\ UNCHANGED <<queue, retries, cancelled, nextId, done, worker, offers, lookups>>

\* schedule: a goroutine with a context of its own.
Schedule ==
    /\ worker = "running"
    /\ current # NoState
    /\ states[current].ended
    /\ states[current].attempts < MaxRetries
    /\ states' = [states EXCEPT ![current].cooling = TRUE,
                                ![current].attempts = @ + 1,
                                ![current].pending = nextId]
    /\ retries' = retries \cup
         {[id |-> nextId, key |-> current, phase |-> "waiting",
           generation |-> states[current].generation]}
    /\ nextId' = nextId + 1
    /\ current' = NoState
    /\ UNCHANGED <<queue, cancelled, done, worker, offers, lookups>>

Exit ==
    /\ worker = "running"
    /\ current = NoState
    /\ done
    /\ worker' = "exited"
    /\ UNCHANGED <<queue, states, current, retries, cancelled, nextId, done,
                   offers, lookups>>

Worker ==
    /\ \/ Forget \/ DropStale \/ SkipSaved \/ Process
       \/ Found \/ NotFoundLive \/ Exhausted \/ Schedule
       \/ Exit
    /\ UNCHANGED stopAfterSuccess

-----------------------------------------------------------------------------
(* Time, the retry goroutines, and the end *)

\* refreshInterval has passed for a live session.
Cooled(k) ==
    /\ Known(k)
    /\ states[k].cooling
    /\ current # k
    /\ states' = [states EXCEPT ![k].cooling = FALSE]
    /\ UNCHANGED <<queue, current, retries, cancelled, nextId, done, worker,
                   offers, lookups>>

Fire(r) ==
    /\ r.phase = "waiting"
    /\ retries' = (retries \ {r}) \cup {[r EXCEPT !.phase = "sending"]}
    /\ UNCHANGED <<queue, states, current, cancelled, nextId, done, worker,
                   offers, lookups>>

\* Go picks at random between a cancelled context and room in the queue.
Deliver(r) ==
    /\ r.phase = "sending"
    /\ Len(queue) < QueueSize
    /\ queue' = Append(queue, [key |-> r.key, kind |-> "retry",
                               generation |-> r.generation, id |-> r.id])
    /\ retries' = retries \ {r}
    /\ UNCHANGED <<states, current, cancelled, nextId, done, worker, offers, lookups>>

\* Mutant: the goroutine heeds its context only while the timer runs.
AbandonWaiting(r) ==
    /\ r.phase = "waiting"
    /\ done \/ r.id \in cancelled
    /\ retries' = retries \ {r}
    /\ UNCHANGED <<queue, states, current, cancelled, nextId, done, worker,
                   offers, lookups>>

Abandon(r) ==
    /\ done \/ r.id \in cancelled
    /\ retries' = retries \ {r}
    /\ UNCHANGED <<queue, states, current, cancelled, nextId, done, worker,
                   offers, lookups>>

RetryStep(r) == (Fire(r) \/ Deliver(r) \/ Abandon(r)) /\ UNCHANGED stopAfterSuccess

Retry == \E r \in retries : RetryStep(r)

\* The daemon's context, or Close, cancels the refresher's.
Cancel ==
    /\ ~done
    /\ done' = TRUE
    /\ UNCHANGED <<queue, states, current, retries, cancelled, nextId, worker,
                   offers, lookups>>

\* Close returns once the worker and every retry goroutine have ended.
Closed == done /\ worker = "exited" /\ retries = {}

Surroundings ==
    /\ \/ \E k \in Key : Enqueue(k, TRUE) \/ Enqueue(k, FALSE) \/ TryForget(k) \/ Cooled(k)
       \/ Cancel
    /\ UNCHANGED stopAfterSuccess

Next == Surroundings \/ Worker \/ Retry

Spec == Init /\ [][Next]_vars

\* The worker runs and its lookups end (they have a timeout); the timers fire.
FairSpec ==
    /\ Spec
    /\ WF_vars(Worker)
    /\ \A id \in 1 .. MaxOffers * MaxRetries :
         WF_vars(\E r \in retries : r.id = id /\ RetryStep(r))

-----------------------------------------------------------------------------
(* Properties *)

\* The retries that are still to come, in their goroutine or in the queue.
Underway ==
    RetryIds \cup {queue[i].id : i \in {j \in DOMAIN queue : queue[j].kind = "retry"}}

\* A session waits for a retry exactly as long as one is on its way that
\* nobody has cancelled: none is lost, and no second one runs beside it.
PendingMeansUnderway ==
    ~done => Underway \ cancelled = {states[k].pending : k \in {x \in Key : Known(x)}} \ {0}

\* "A reservation from before the removal or the resumption is not applied to
\* the same key": a retry that changes something is the one its session is
\* waiting for, in its present life.
OnlyOwnRetryApplied ==
    [][\A k \in Key :
         LET req == Head(queue) IN
         queue # <<>> /\ queue' = Tail(queue) /\ req.kind = "retry" /\ req.key = k
           /\ states'[k] # states[k]
         => Known(k) /\ states[k].pending = req.id]_vars

\* An ended session costs one lookup and at most MaxRetries more.
BoundedFinalLookups == \A k \in Key : lookups[k] <= 1 + MaxRetries

\* The lookups of an ended session are neither lost nor doubled nor too many,
\* over all of its ends, resumptions and retries.
FinalLookupsTracked == PendingMeansUnderway /\ BoundedFinalLookups

\* An ended session gets its final title or runs out of retries, unless it is
\* resumed or forgotten first or the refresher is closed.
EndedIsFinalized ==
    \A k \in Key : Known(k) /\ states[k].ended
                     ~> done \/ ~Known(k) \/ ~states[k].ended \/ states[k].finalized

\* Close comes back.
CloseReturns == done ~> Closed
=============================================================================
