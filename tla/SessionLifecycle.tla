-------------------------- MODULE SessionLifecycle --------------------------
(***************************************************************************)
(* When a session is open and when it has ended (ADR 0021).                *)
(*                                                                         *)
(* The store's row is the only authority: vendor hooks and an idle sweep   *)
(* end a session, and activity later than the end opens it again.  What    *)
(* may get in the way is everything around the row: events that arrive     *)
(* late and out of order, snapshots of an assembler that remembers only    *)
(* what it saw, hooks that are lost or come after the session was resumed, *)
(* writes that fail and a daemon that is restarted and has forgotten all.  *)
(*                                                                         *)
(* Sources: internal/store/resolve.go (writeSessions and its UPSERT),      *)
(* internal/store/lifecycle.go, internal/session (Assembler), and the      *)
(* commands of internal/daemon/pipeline.go that use them.  Its single      *)
(* goroutine runs one command at a time; a session tick is three steps,    *)
(* because the daemon may die between its two transactions.                *)
(***************************************************************************)
EXTENDS Naturals, Sequences, FiniteSets, SequencesExt, FiniteSetsExt

CONSTANTS
    Session,
    IdleTime,     \* DefaultIdleThreshold
    MemoryTime,   \* sessionMemoryTTL
    Horizon,      \* bound: the vendors are active up to this time
    MaxTime,      \* bound: the clock
    MaxPending,   \* bound: events waiting for a write
    MaxFailures,  \* bound: failed transactions
    MaxCrashes    \* bound: restarts of the daemon

ASSUME TimeAssumption ==
    /\ {IdleTime, MemoryTime, Horizon, MaxTime} \subseteq Nat \ {0}
    /\ IdleTime < MemoryTime /\ Horizon + IdleTime < MaxTime
ASSUME BoundAssumption == {MaxPending, MaxFailures, MaxCrashes} \subseteq Nat

VARIABLES
    now,      \* the clock of the machine; all parties share it
    asm,      \* the assembler's memory of each session
    pending,  \* events that are not stored yet
    row,      \* the sessions table
    phase,    \* what is left of a session tick: "none", "sweep" or "forget"
    tickAt,   \* the time the running session tick began with
    failures, \* bound: failed transactions so far
    crashes,  \* bound: restarts so far
    latest,   \* history: the last time a session is known to have been active
    stored    \* history: the time of the latest event stored of a session

memory == <<asm, pending>>
history == <<latest, stored>>
tick == <<phase, tickAt>>
vars == <<now, memory, row, tick, failures, crashes, history>>

\* Times begin with 1; 0 is NULL, as in nullSec.
Null == 0
Time == 1..MaxTime

Event == [session : Session, at : Time]

Unknown == [started |-> Null, last |-> Null]
NoRow == [known |-> FALSE, started |-> Null, last |-> Null, ended |-> Null]

Earliest(a, b) == IF a = Null THEN b ELSE IF b = Null THEN a ELSE Min({a, b})
Latest(a, b) == Max({a, b})

Tracked(s) == asm[s] # Unknown

Init ==
    /\ now = 1
    /\ asm = [s \in Session |-> Unknown]
    /\ pending = <<>>
    /\ row = [s \in Session |-> NoRow]
    /\ phase = "none"
    /\ tickAt = Null
    /\ failures = 0
    /\ crashes = 0
    /\ latest = [s \in Session |-> Null]
    /\ stored = [s \in Session |-> Null]

-----------------------------------------------------------------------------
(* The vendors are outside: an event or a lifecycle call may come at any    *)
(* time, in any order, or not at all.                                       *)

Clock ==
    /\ now < MaxTime
    /\ now' = now + 1
    /\ UNCHANGED <<memory, row, tick, failures, crashes, history>>

-----------------------------------------------------------------------------
(* The assembler *)

\* observe, for an event, and StartLifecycle, for a hook.
Observed(m, at) ==
    [started |-> Earliest(m.started, at), last |-> Latest(m.last, at)]

\* An event that a vendor recorded at some time until now arrives.
Ingest(s, at) ==
    /\ phase = "none"
    /\ at <= now
    /\ Len(pending) < MaxPending
    /\ asm' = [asm EXCEPT ![s] = Observed(@, at)]
    /\ pending' = Append(pending, [session |-> s, at |-> at])
    /\ latest' = [latest EXCEPT ![s] = Latest(@, at)]
    /\ UNCHANGED <<now, row, tick, failures, crashes, stored>>

\* PruneIf: longer silent than the memory lasts.
Forgotten(s) == Tracked(s) /\ asm[s].last + MemoryTime < tickAt

-----------------------------------------------------------------------------
(* The rows *)

\* Mutant: any activity opens the session, also the assembler's old news.
UpsertReopening(r, started, last) ==
    [known |-> TRUE, started |-> Earliest(r.started, started),
     last |-> Latest(r.last, last), ended |-> Null]

\* Mutant: the activity is recorded but does not open the session.
UpsertClosed(r, started, last) ==
    [r EXCEPT !.known = TRUE, !.started = Earliest(@, started), !.last = Latest(@, last)]

\* sessionUpsertHead
Upsert(r, started, last) ==
    [known |-> TRUE,
     started |-> Earliest(r.started, started),
     last |-> Latest(r.last, last),
     ended |-> IF r.ended # Null /\ last > r.ended THEN Null ELSE r.ended]

PendingOf(s) == {i \in 1..Len(pending) : pending[i].session = s}

\* The times a write takes for a session.  A snapshot's activity is raised to
\* the latest event of the same write; a session that is in no snapshot gets
\* the times of its first event in the write, since the others find its id
\* in the writer's cache.
Times(s, withSnapshot) ==
    IF withSnapshot /\ Tracked(s)
    THEN [started |-> asm[s].started,
          last |-> Max({asm[s].last} \cup {pending[i].at : i \in PendingOf(s)})]
    ELSE LET first == pending[Min(PendingOf(s))].at
         IN  [started |-> first, last |-> first]

Written(withSnapshot) ==
    {s \in Session : (withSnapshot /\ Tracked(s)) \/ PendingOf(s) # {}}

\* store.Write commits.
Store(withSnapshot) ==
    /\ row' = [s \in Session |->
                 IF s \in Written(withSnapshot)
                 THEN Upsert(row[s], Times(s, withSnapshot).started, Times(s, withSnapshot).last)
                 ELSE row[s]]
    /\ stored' = [s \in Session |->
                    Max({stored[s]} \cup {pending[i].at : i \in PendingOf(s)})]
    /\ pending' = <<>>

Fail == failures < MaxFailures /\ failures' = failures + 1

-----------------------------------------------------------------------------
(* The pipeline's commands *)

\* A flush tick, or a batch that is large enough.
Flush ==
    /\ phase = "none"
    /\ pending # <<>>
    /\ Store(FALSE)
    /\ UNCHANGED <<now, asm, tick, failures, crashes, latest>>

FlushFails ==
    /\ phase = "none"
    /\ pending # <<>>
    /\ Fail
    /\ UNCHANGED <<now, memory, row, tick, crashes, history>>

\* Mutant: the sweep has taken the place of the snapshot.
SessionTickUnwritten ==
    /\ phase = "none"
    /\ phase' = "sweep"
    /\ tickAt' = now
    /\ UNCHANGED <<now, memory, row, failures, crashes, history>>

SessionTick ==
    /\ phase = "none"
    /\ phase' = "sweep"
    /\ tickAt' = now
    /\ Store(TRUE)
    /\ UNCHANGED <<now, asm, failures, crashes, latest>>

\* The tick goes on when its write has failed.
SessionTickFails ==
    /\ phase = "none"
    /\ Written(TRUE) # {}
    /\ phase' = "sweep"
    /\ tickAt' = now
    /\ Fail
    /\ UNCHANGED <<now, memory, row, crashes, history>>

\* closeIdleSessionsSQL
Swept(r) ==
    IF r.ended = Null /\ r.last # Null /\ r.last + IdleTime < tickAt
    THEN [r EXCEPT !.ended = r.last] ELSE r

\* Mutant: only the sessions in the assembler's memory are swept.
SweepOfMemory ==
    /\ phase = "sweep"
    /\ phase' = "forget"
    /\ row' = [s \in Session |-> IF Tracked(s) THEN Swept(row[s]) ELSE row[s]]
    /\ UNCHANGED <<now, tickAt, memory, failures, crashes, history>>

Sweep ==
    /\ phase = "sweep"
    /\ phase' = "forget"
    /\ row' = [s \in Session |-> Swept(row[s])]
    /\ UNCHANGED <<now, tickAt, memory, failures, crashes, history>>

SweepFails ==
    /\ phase = "sweep"
    /\ phase' = "forget"
    /\ Fail
    /\ UNCHANGED <<now, tickAt, memory, row, crashes, history>>

\* A session whose title cannot be forgotten yet stays for the next tick.
Forget(kept) ==
    /\ phase = "forget"
    /\ phase' = "none"
    /\ tickAt' = Null
    /\ asm' = [s \in Session |-> IF Forgotten(s) /\ s \notin kept THEN Unknown ELSE asm[s]]
    /\ UNCHANGED <<now, pending, row, failures, crashes, history>>

\* startLifecycleSQL
Started(r) ==
    [known |-> TRUE, started |-> Earliest(r.started, now),
     last |-> Latest(r.last, now), ended |-> Null]

\* endLifecycleSQL: the first end stays.
Ended(r) == [r EXCEPT !.known = TRUE, !.ended = IF @ = Null THEN now ELSE @]

\* ApplyLifecycle, at the time the pipeline comes to it; only a session the
\* assembler knows is told to it.  A call that fails changes nothing.
ApplyStart(s) ==
    /\ phase = "none"
    /\ now <= Horizon
    /\ row' = [row EXCEPT ![s] = Started(@)]
    /\ asm' = [asm EXCEPT ![s] = IF Tracked(s) THEN Observed(@, now) ELSE @]
    /\ latest' = [latest EXCEPT ![s] = now]
    /\ UNCHANGED <<now, pending, tick, failures, crashes, stored>>

ApplyEnd(s) ==
    /\ phase = "none"
    /\ row' = [row EXCEPT ![s] = Ended(@)]
    /\ UNCHANGED <<now, memory, tick, failures, crashes, history>>

\* The daemon dies, and another one starts on the same database.  What was
\* in its memory is gone.
Crash ==
    /\ crashes < MaxCrashes
    /\ crashes' = crashes + 1
    /\ asm' = [s \in Session |-> Unknown]
    /\ pending' = <<>>
    /\ phase' = "none"
    /\ tickAt' = Null
    /\ UNCHANGED <<now, row, failures, history>>

Tick ==
    \/ SessionTick \/ Sweep
    \/ \E kept \in SUBSET Session : Forget(kept)

Daemon ==
    \/ \E s \in Session :
          \/ \E at \in 1..Horizon : Ingest(s, at)
          \/ ApplyStart(s) \/ ApplyEnd(s)
    \/ Flush \/ FlushFails \/ SessionTickFails \/ SweepFails
    \/ Tick

Next ==
    \/ Clock
    \/ Daemon
    \/ Crash

Spec == Init /\ [][Next]_vars

\* Time passes and the session ticker fires; failures and crashes are bounded.
\* Nothing says that any hook or any event arrives.
FairSpec == Spec /\ WF_vars(Clock) /\ WF_vars(Tick)

-----------------------------------------------------------------------------
(* Properties *)

RowType ==
    [known : BOOLEAN, started : Time \cup {Null}, last : Time \cup {Null},
     ended : Time \cup {Null}]

\* Every variable keeps its type, and a session without a row has no times.
TypeOK ==
    /\ now \in Time
    /\ asm \in [Session -> [started : Time \cup {Null}, last : Time \cup {Null}]]
    /\ pending \in Seq(Event) /\ Len(pending) <= MaxPending
    /\ row \in [Session -> RowType]
    /\ \A s \in Session : row[s].known \/ row[s] = NoRow
    /\ phase \in {"none", "sweep", "forget"} /\ tickAt \in Time \cup {Null}
    /\ phase = "none" <=> tickAt = Null
    /\ {failures, crashes} \subseteq Nat
    /\ {latest, stored} \subseteq [Session -> Time \cup {Null}]

\* An open row always has an activity time, so that the sweep can end it:
\* NULL is passed over by closeIdleSessionsSQL.
OpenIsSweepable ==
    \A s \in Session : row[s].known /\ row[s].ended = Null => row[s].last # Null

\* An ended session shows no activity after its end, and did not start after
\* it: the table's CHECK (internal/store/schema.go:38) would refuse such a row
\* and with it the whole write, again on every retry.
EndCoversActivity ==
    \A s \in Session : row[s].ended # Null =>
        row[s].last <= row[s].ended /\ row[s].started <= row[s].ended

\* The end of a session that has ended does not move, however often the
\* sweep passes or an end hook is repeated; only activity later than it, or a
\* start hook, takes it away, and no snapshot, late batch or restart does.
ReopenedByActivityOnly ==
    [][\A s \in Session :
        row[s].ended # Null /\ row'[s].ended # row[s].ended =>
            row'[s].ended = Null /\ (latest[s] > row[s].ended \/ ApplyStart(s))]_vars

\* As long as writes succeed the sweep ends no session the assembler has seen
\* active within the idle time.
SweepSparesActive ==
    [][failures = 0 =>
        \A s \in Session :
            Tracked(s) /\ asm[s].last + IdleTime >= tickAt /\ row[s].known
            /\ phase = "sweep" /\ row[s].ended = Null => row'[s].ended = Null]_vars

\* Whatever is lost or fails, once the vendors are silent for good every
\* session is ended and stays ended.
EverySessionEnds == <>[](\A s \in Session : row[s].known => row[s].ended # Null)

\* The row's times depend on no order of arrival: the activity is the latest
\* there was, of the events that are stored (internal/store/resolve.go:140).
ActivityCoversEvents == \A s \in Session : stored[s] <= row[s].last
=============================================================================
