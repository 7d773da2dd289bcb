--------------------------- MODULE CodexProvenance ---------------------------
(***************************************************************************)
(* Who submitted the prompt of a Codex turn (ADR 0032).                    *)
(*                                                                         *)
(* Telemetry opens the turns; a single worker reads the session file that  *)
(* Codex writes, and labels each turn with the source that the file's rows *)
(* prove.  Turns to judge are queued in the database.  The pipeline, which *)
(* stores telemetry, and `purge`, another process, write to the same       *)
(* tables while the worker is between listing a turn and committing its    *)
(* label, so a judgement may be out of date when it is made.               *)
(*                                                                         *)
(* One session, whose prompts and file rows all have the same text, since  *)
(* that is when only the turns' time windows tell them apart.  Sources:    *)
(* internal/store/codex_ingest.go, codex_worker.go, PurgeContent of        *)
(* retention.go, internal/codexsource worker.go and Classify.              *)
(***************************************************************************)
EXTENDS Integers, Sequences, FiniteSets, SequencesExt, FiniteSetsExt

CONSTANTS
    Turn,
    NoTurn,
    RowKinds,    \* what each row of the file may be: sets of [source, turn]
    OwnerSource, \* the source that the file's session_meta names
    BatchRows,   \* maxBatchRows
    MaxTime,     \* bound: the clock
    MaxTelemetry, \* bound: events of telemetry
    MaxTroubles   \* bound: purges and workers that fail

Source == {"client", "internal"}
Label == Source \cup {"unknown"}
Kind == [source : Source \cup {"unsupported", "bad"}, turn : Turn \cup {NoTurn}]

ASSUME CodexAssumption ==
    /\ NoTurn \notin Turn
    /\ RowKinds \in Seq(SUBSET Kind)
    /\ OwnerSource \in Label
    /\ {BatchRows, MaxTime} \subseteq Nat \ {0}
    /\ {MaxTelemetry, MaxTroubles} \subseteq Nat

VARIABLES
    now,       \* the clock; 0 is NULL in all times
    file,      \* the rows after the session_meta row that begins the file
    committed, \* rows of the file in the database, or NoFile
    turns,     \* the turns by turn_index
    start,     \* turns.started_at
    prompt,    \* the prompt evidence of a turn: "none", "stored", "conflict"
    purged,    \* turns.content_purged
    tombstone, \* codex_content_tombstones.before_at
    prov,      \* codex_turn_provenance
    queue,     \* codex_pending: "none", "due" or "later"
    pc,        \* the worker: "down", "idle", "scan", "judge", "decide"
    listed,    \* the rows ListCodexPending returned that are not judged yet
    verdict,   \* what Classify made of one of them
    counts,    \* bounds: events of telemetry, and purges and failed workers, so far
    overtaken  \* history: turns reopened after the worker listed them

source == <<file, committed>>
evidence == <<turns, start, prompt, purged, tombstone>>
judgement == <<prov, queue>>
worker == <<pc, listed, verdict>>
vars == <<now, source, evidence, judgement, worker, counts, overtaken>>

\* The codex_jsonl_files row is made by the first commit.
NoFile == -1
Committed == IF committed = NoFile THEN 0 ELSE committed

Stored == ToSet(turns)
Position(t) == CHOOSE i \in 1..Len(turns) : turns[i] = t

NoVerdict == [turn |-> NoTurn, label |-> "unknown", state |-> "pending"]

Init ==
    /\ now = 1
    /\ file = <<>>
    /\ committed = NoFile
    /\ turns = <<>>
    /\ start = [t \in Turn |-> 0]
    /\ prompt = [t \in Turn |-> "none"]
    /\ purged = [t \in Turn |-> FALSE]
    /\ tombstone = 0
    /\ prov = [t \in Turn |-> [label |-> "unknown", state |-> "pending"]]
    /\ queue = [t \in Turn |-> "none"]
    /\ pc = "down"
    /\ listed = <<>>
    /\ verdict = NoVerdict
    /\ counts = [events |-> 0, troubles |-> 0]
    /\ overtaken = {}

Known(t) == prov[t].state = "finalized" /\ prov[t].label # "unknown"

\* What `purge` has left: the text is gone, and the label is final.
Kept(t) == purged[t] /\ Known(t)

-----------------------------------------------------------------------------
(* Outside: time, and Codex writing its file *)

Clock ==
    /\ now < MaxTime
    /\ now' = now + 1
    /\ UNCHANGED <<source, evidence, judgement, worker, counts, overtaken>>

AppendRow ==
    /\ Len(file) < Len(RowKinds)
    /\ \E kind \in RowKinds[Len(file) + 1] :
          file' = Append(file, [at |-> now, source |-> kind.source, turn |-> kind.turn])
    /\ UNCHANGED <<now, committed, evidence, judgement, worker, counts, overtaken>>

-----------------------------------------------------------------------------
(* Telemetry: writeTurns and writeCodexEvidence in one transaction *)

Open(t, at) ==
    IF t \in Stored THEN UNCHANGED <<turns, start>>
    ELSE turns' = Append(turns, t) /\ start' = [start EXCEPT ![t] = at]

\* An event of a turn that is not there yet, other than the prompt.
OtherEvent(t, at) ==
    /\ at <= now
    /\ counts.events < MaxTelemetry
    /\ counts' = [counts EXCEPT !.events = @ + 1]
    /\ t \notin Stored
    /\ Open(t, at)
    /\ queue' = [queue EXCEPT ![t] = "due"]
    /\ UNCHANGED <<now, source, prompt, purged, tombstone, prov, worker, overtaken>>

\* The turn before t; a Codex turn's ended_at is never set.
Before(t) ==
    LET n == IF t \in Stored THEN Position(t) ELSE Len(turns) + 1
    IN  {turns[i] : i \in {n - 1} \cap 1..Len(turns)}

\* Mutant: only the turn itself is judged again.
ReopenedAlone(t) == {t} \ {u \in Turn : Kept(u)}

\* The turns a prompt event puts back in the queue: its own, and the one
\* whose time it ends.
Reopened(t) == ({t} \cup Before(t)) \ {u \in Turn : Kept(u)}

\* A state that was pending stays so; the previous turn is retrying always.
Retried(t, u) ==
    IF u = t /\ prov[u].state # "finalized" THEN prov[u] ELSE [prov[u] EXCEPT !.state = "retrying"]

\* A late prompt of a turn whose label is kept leaves everything as it is.
PromptEvent(t, at, clash) ==
    /\ at <= now
    /\ counts.events < MaxTelemetry
    /\ counts' = [counts EXCEPT !.events = @ + 1]
    /\ ~ Kept(t)
    /\ clash => prompt[t] # "none"
    /\ Open(t, at)
    /\ prompt' = [prompt EXCEPT ![t] = IF clash THEN "conflict" ELSE IF @ = "none" THEN "stored" ELSE @]
    /\ prov' = [u \in Turn |-> IF u \in Reopened(t) THEN Retried(t, u) ELSE prov[u]]
    /\ queue' = [u \in Turn |-> IF u \in Reopened(t) THEN "due" ELSE queue[u]]
    /\ overtaken' = overtaken \cup {u \in Reopened(t) : u \in DOMAIN listed \/ u = verdict.turn}
    /\ UNCHANGED <<now, source, purged, tombstone, worker>>

-----------------------------------------------------------------------------
(* `telemetryctl purge --content`, of all texts or of those before a time *)

\* Without a turn that is purged, now or before, nothing is changed.
Purge(of, before) ==
    /\ counts.troubles < MaxTroubles
    /\ counts' = [counts EXCEPT !.troubles = @ + 1]
    /\ purged' = [t \in Turn |-> purged[t] \/ t \in of]
    /\ \E t \in Turn : purged'[t]
    /\ tombstone' = Max({tombstone, before})
    /\ UNCHANGED <<now, source, turns, start, prompt, judgement, worker, overtaken>>

PurgeAll == Purge(Stored, now)
PurgeBefore(cutoff) == Purge({t \in Stored : start[t] < cutoff}, cutoff)

-----------------------------------------------------------------------------
(* The worker: reading the file *)

WorkerStarts ==
    /\ pc = "down"
    /\ pc' = "scan"
    \* BackfillCodexPending
    /\ queue' = [t \in Turn |->
                   IF t \in Stored /\ prov[t].state # "finalized" /\ queue[t] = "none"
                   THEN "due" ELSE queue[t]]
    /\ UNCHANGED <<now, source, evidence, prov, listed, verdict, counts, overtaken>>

\* A file whose session is not in the database is left for a later scan.
Unread == IF committed = NoFile THEN Stored # {} ELSE committed < Len(file)

Room == IF committed = NoFile THEN BatchRows - 1 ELSE BatchRows

\* The end of the last row that was read.
Checkpoint == Min({Len(file), Committed + Room})

\* Mutant: a label that purge keeps is judged again.
RejudgedAll == Stored

\* What a new row of the file puts in doubt.
Rejudged == {t \in Stored : ~ Kept(t)}

\* CommitCodexFile, on a ticker, a notification or at the start (a lost
\* notification costs only time): the rows, of which session_meta is the
\* first, the checkpoint and the queue in one transaction.
ScanBatch ==
    /\ pc \in {"idle", "scan"}
    /\ pc' = "scan"
    /\ Unread
    /\ committed' = Checkpoint
    /\ prov' = [t \in Turn |-> IF t \in Rejudged THEN [prov[t] EXCEPT !.state = "retrying"] ELSE prov[t]]
    /\ queue' = [t \in Turn |-> IF t \in Rejudged THEN "due" ELSE queue[t]]
    /\ UNCHANGED <<now, file, evidence, listed, verdict, counts, overtaken>>

-----------------------------------------------------------------------------
(* The worker: judging a turn *)

\* A row of ListCodexPending: what is known of a turn at this moment.
Row(t) ==
    LET later == {start[turns[i]] : i \in (Position(t) + 1)..Len(turns)}
    IN  [turn |-> t, start |-> start[t],
         next |-> IF later = {} THEN 0 ELSE Min(later),
         alone |-> \A u \in Stored \ {t} : start[u] # start[t],
         named |-> prompt[t] # "none",
         body |-> prompt[t] # "none" /\ ~ purged[t],
         conflict |-> prompt[t] = "conflict"]

\* Eligible by time, and a user message in form.
Eligible(p) ==
    {i \in 1..Committed :
        /\ file[i].source # "bad"
        /\ file[i].at >= p.start
        /\ p.next > p.start => file[i].at < p.next}

\* An explicit turn id goes before equal text.  Text counts only where the
\* turn's time is its own, and where purge has left any.
Matches(p) ==
    LET byTurn == {i \in Eligible(p) : p.named /\ file[i].turn = p.turn}
        byBody == {i \in Eligible(p) :
                     /\ p.body /\ p.alone /\ (p.next = 0 \/ p.next > p.start)
                     /\ file[i].at >= tombstone
                     /\ file[i].turn = NoTurn}
    IN  IF byTurn # {} THEN byTurn ELSE byBody

Classify(p) ==
    LET matches == Matches(p)
        found == {file[i].source : i \in matches}
        owner == IF committed = NoFile THEN "unknown" ELSE OwnerSource
        supported == \E s \in Source : found = {s}
        conflict == p.conflict \/ (supported /\ owner # "unknown" /\ found # {owner})
        internal == ~ conflict /\ owner = "internal"
        proven == supported /\ ~ conflict
        n == Cardinality(matches)
    IN  [turn |-> p.turn,
         label |-> IF proven THEN CHOOSE s \in found : TRUE
                   ELSE IF n <= 1 /\ internal THEN "internal" ELSE "unknown",
         state |-> IF n = 1 \/ proven \/ (n = 0 /\ internal) THEN "finalized" ELSE "pending"]

After(rest) == IF DOMAIN rest = {} THEN "idle" ELSE "judge"

Due == {t \in Turn : queue[t] = "due"}
Later == {t \in Turn : queue[t] = "later"}

\* A scan reads all there is before it lists; the pending ticker only lists.
MayList == pc = "idle" \/ (pc = "scan" /\ ~ Unread)

\* ListCodexPending, where the hour of some turns may have passed.  Its limit
\* of 64 turns is out of reach here.
List(hour) ==
    /\ MayList
    /\ listed' = [t \in Due \cup hour |-> Row(t)]
    /\ pc' = After(listed')
    /\ overtaken' = overtaken \ (Due \cup hour)
    /\ UNCHANGED <<now, source, evidence, judgement, verdict, counts>>

\* CodexCandidateRecords and Classify: today's rows for the next turn as it
\* was listed; the order, by next_check_at, is left open.  (A listed turn
\* whose label is kept would be dropped from the queue instead: QueueIsExact
\* says there is none.)
Judge(t) ==
    /\ pc = "judge"
    /\ t \in DOMAIN listed
    /\ listed' = [u \in DOMAIN listed \ {t} |-> listed[u]]
    /\ verdict' = Classify(listed[t])
    /\ pc' = "decide"
    /\ UNCHANGED <<now, source, evidence, judgement, counts, overtaken>>

Errors == \E i \in 1..Committed : file[i].source = "bad"
AllRead == committed # NoFile /\ committed = Len(file)

FinalState ==
    IF verdict.state # "pending" THEN verdict.state
    ELSE IF Errors THEN "retrying" ELSE IF AllRead THEN "finalized" ELSE "pending"

\* Mutant: a turn without a label is through as well.
CheckAgainUnfinished(label, state) == state # "finalized"

\* A turn without a proven source is looked at again in an hour.
CheckAgain(label, state) == label = "unknown" \/ state # "finalized"

\* CommitCodexDecision; a later check is an UPDATE of the queue's row.
Decide ==
    /\ pc = "decide"
    /\ LET t == verdict.turn
           again == CheckAgain(verdict.label, FinalState)
       IN  /\ prov' = [prov EXCEPT ![t] = [label |-> verdict.label, state |-> FinalState]]
           /\ queue' = [queue EXCEPT ![t] = IF again /\ @ # "none" THEN "later" ELSE "none"]
    /\ verdict' = NoVerdict
    /\ pc' = After(listed)
    /\ UNCHANGED <<now, source, evidence, listed, counts, overtaken>>

\* An error, a panic or a deadline; the supervisor starts the next worker
\* when this one is gone.  What is committed stays.
WorkerFails ==
    /\ pc # "down"
    /\ counts.troubles < MaxTroubles
    /\ counts' = [counts EXCEPT !.troubles = @ + 1]
    /\ pc' = "down"
    /\ listed' = <<>>
    /\ verdict' = NoVerdict
    /\ UNCHANGED <<now, source, evidence, judgement, overtaken>>

WorkerStep ==
    \/ WorkerStarts
    \/ ScanBatch
    \/ \E hour \in SUBSET Later : List(hour)
    \/ \E t \in Turn : Judge(t)
    \/ Decide

Environment ==
    \/ Clock
    \/ AppendRow
    \/ \E t \in Turn, at \in 1..MaxTime :
          OtherEvent(t, at) \/ \E clash \in BOOLEAN : PromptEvent(t, at, clash)
    \/ PurgeAll
    \/ \E cutoff \in 1..MaxTime : PurgeBefore(cutoff)

Next ==
    \/ WorkerStep
    \/ WorkerFails
    \/ Environment

Spec == Init /\ [][Next]_vars

-----------------------------------------------------------------------------
(* Properties *)

\* Every variable keeps its type.
TypeOK ==
    /\ now \in 1..MaxTime
    /\ file \in Seq([at : 1..MaxTime, source : Source \cup {"unsupported", "bad"},
                     turn : Turn \cup {NoTurn}])
    /\ committed = NoFile \/ committed \in 0..Len(file)
    /\ turns \in Seq(Turn) /\ IsInjective(turns)
    /\ start \in [Turn -> 0..MaxTime]
    /\ prompt \in [Turn -> {"none", "stored", "conflict"}]
    /\ purged \in [Turn -> BOOLEAN]
    /\ tombstone \in 0..MaxTime
    /\ prov \in [Turn -> [label : Label, state : {"pending", "retrying", "finalized"}]]
    /\ queue \in [Turn -> {"none", "due", "later"}]
    /\ pc \in {"down", "idle", "scan", "judge", "decide"}
    /\ DOMAIN listed \subseteq Stored
    /\ verdict.turn \in Turn <=> pc = "decide"

Settled(t) == t \in Stored /\ queue[t] = "none"

\* The queue holds exactly the turns without a final label, across every
\* order of telemetry, file rows, purges and failing workers: none is
\* forgotten, and none that `purge` keeps is judged again.
QueueIsExact == \A t \in Stored : queue[t] = "none" <=> Known(t)

\* Turns whose prompts are stored, in the order of their starts.
Orderly ==
    /\ \A t \in Stored : prompt[t] # "none"
    /\ \A i, j \in 1..Len(turns) : i < j => start[turns[i]] <= start[turns[j]]

\* A label that is final is the one the evidence in the database proves now,
\* unless a prompt came while the turn was being judged.
SettledIsCurrent ==
    Orderly => \A t \in Turn :
        Settled(t) /\ ~ purged[t] /\ t \notin overtaken =>
            prov[t].label = Classify(Row(t)).label

\* `purge` keeps final labels (docs/sqlite-schema/codex-provenance.md): no
\* later prompt, row or judgement takes one away, though the text that would
\* prove it is gone.
FinalLabelSurvivesPurge ==
    [][\A t \in Turn : Kept(t) => prov'[t] = prov[t]]_vars

\* A new turn ends the open time of the one before it, and the judgement of
\* that one is made again (internal/store/codex_ingest.go:118): also when it
\* was just being made.
PromptReopensJudgement ==
    Orderly => \A t \in Turn :
        Settled(t) /\ ~ purged[t] => prov[t].label = Classify(Row(t)).label
=============================================================================
