# TLA+ models of telemetryctl

`telemetryctl` runs a daemon on a developer's machine. Coding agents (Claude
Code, Codex) send it OpenTelemetry over the loopback interface; it stores what
they did in SQLite, forwards the payloads to the company's collector, and shows
the result in a GUI. The daemon must never slow down or stop the agents, it may
be killed at any time, and the upstream collector may be slow or gone.

This directory holds TLA+ models of the parts where that is hard to get right,
the TLC configurations that check them, and proofs checked by TLAPS. Comments in
the modules name the source files; paths below are relative to the repository.

    tlasany M.tla                        parse a module
    tlc -workers 2 -config X.cfg MCM.tla run a check
    tlapm SessionProofs.tla              check the proofs of a module

## 1. The system

    agents --OTLP--> receiver (queue, 2 workers) --decode, Consume--> pipeline --Write--> SQLite
       ^                  |                                             |  ^                 |
       |                  +--Enqueue--> forwarder --HTTP--> collector   |  |            dashboard
       |                                   `-- token source             |  |          (other process
    agents --hooks--> local API --SubmitLifecycle-----------------------+  |             or GUI)
       |                                            title refreshers <--+  |
    Codex's session files --> Codex worker --evidence, labels -------------+
    `telemetryctl purge` (another process) --deletes text -----------------+
    `telemetryctl enroll | local | reconnect | uninstall` --settings files of the agents, state, keyring

| Component | State | Operations | What is hard | Module |
|---|---|---|---|---|
| Receiver, HTTP server (`internal/receiver`) | queue of 256 bodies, closed flag, counters | serve, enqueue, work, Close, Shutdown | closing against requests; never blocks a client | `Receiver`, `Daemon` |
| Decoder (`internal/otlpdecode`) | the request being read | DecodeLogs, DecodeMetrics, Scrub, parsePatch, toolInputLines | attributes of three levels, parts that name their event by index and key | `Decoder`, `FileEdits` |
| Forwarder (`internal/forward`) | channel, byte count, counters, stop context | Enqueue, loop, deliver, send, Shutdown | retries against deadlines, accounting by three parties | `Forwarder` |
| Token source (`internal/forward/token.go`) | cached token | Token, Invalidate, exchange | an exchange under the lock, stale invalidation | `TokenSource` |
| Pipeline (`internal/daemon/pipeline.go`, `dedup.go`) | command channel, duplicate window, assembler, unsaved events, dirty flag | Consume, SubmitLifecycle, run, flush, ticks, close | failed writes, stop with full channel, forgetting | `Pipeline`, `DedupWindow` |
| Sessions (`internal/session`, `internal/store/resolve.go`, `lifecycle.go`) | times in the assembler and in the row | Add, writeSessions, start and end hooks, idle sweep, PruneIf | late events, restarts, two authorities on a session's time | `SessionLifecycle` |
| Turns, calls, figures, lines (`internal/session`, `internal/event/cumulative.go`, `internal/store/promote.go`) | open turn, numbers of calls, last counter values, unassigned lines | Assign, Step, apply, promote, lines.go | restarts of either side, order of arrival, missing ids | `ToolCalls`, `SessionFigures`, `LineLedger` |
| Title refresher (`internal/daemon/session_title.go`) | request queue, state per session, retry goroutines | Enqueue, TryForget, run, schedule, Close | cancelled and stale retries, full queue | `TitleRefresher` |
| Codex files (`internal/codexsource/worker.go`, `internal/store/codex_worker.go`) | path rows with checkpoint, generation, digest | scanFile, CommitCodexFile, quarantine, missing, Purge, Prune | files that are cut, rewritten, renamed, replaced | `CodexScan` |
| Codex provenance (`internal/codexsource`, `internal/store/codex_*.go`) | evidence of turns, pending queue, labels | writeCodexEvidence, ListCodexPending, Classify, CommitCodexDecision | judgements overtaken by telemetry or purge, dying workers | `CodexProvenance` |
| Codex supervisor (`internal/codexsource/supervisor.go`) | epoch, restart times, heartbeats | Run | unresponsive worker, restart budget | `CodexSupervisor`, `Daemon` |
| Retention (`internal/store/retention.go`) | rows older than 400 days, tombstones | Prune, PurgeContent | old sessions written again, texts read again | `CodexScan`, `CodexProvenance` |
| Daemon runner (`internal/daemon/runner.go`) | stages, lease, runtime.json | start, loop, shutdown, port fallback | order of the shutdown, a start that fails half-way, another daemon | `Daemon`, `Installer` |
| Vendor limits (`internal/vendorlimit`) | call in flight, cool-down, rows | RefreshAuto, RefreshManual | joiners, cancellation, failed vendors | `LimitRefresher` |
| Installer, vendor configuration (`internal/installer`, `internal/config`) | state file, record, vendors' files, keyring | enroll, enable, disable, reconnect, uninstall | four things that cannot be written together | `VendorConfig`, `Installer` |
| Dashboard (`internal/dashboard`, `internal/pricing`) | none: functions of what the queries saw | Home, HomeBreakdown, session screens, classification, list, search | many queries for one answer while the daemon stores; days of 23 and 25 hours | `Calendar`, `HomeScreen`, `Classification`, `SessionScreen`, `SessionPages` |
| Codex file parser, app server client, local API, autostart, GUI, command line, enrollment calls | little or none | | strings, single calls, the operating system | not modelled (section 7) |

`PROJECT.json` lists every component with its sources, and every hazard at its line.

What makes each of them correct:

* *Decoder*: every record becomes an event or is counted as rejected; every part
  of an event is its own; what may not leave the machine does not.
* *Forwarder*: a payload that was accepted has exactly one outcome and in order;
  its counters never lie; the byte budget holds; `Shutdown` comes back, and
  after it nothing is sent. A refused token is exchanged once.
* *Pipeline*: no event is lost unless the cap says so, none is stored twice or
  out of order; callers come back and are told the truth; a session is not
  forgotten before it is stored; what was accepted before the stop is written.
* *Sessions*: an ended session shows no activity after its end, is opened again
  only for a reason, and every session ends. Tool calls, active time and lines
  are neither lost nor counted twice, also over restarts.
* *Titles*: one retry at most per ended session, and only its own; a bounded
  number of lookups; `Close` comes back.
* *Receiver, supervisor, runner*: one Codex worker at a time; no accepted body is
  stranded in the receiver; the database and the lease are given up after
  everybody who needs them; a daemon that is told to stop exits.
* *Codex*: the evidence is what the files hold, less what was purged; a turn
  without a final label is queued, a final label is what the evidence proves, and
  purge takes the text but not the label.
* *Installer*: the vendors' files are what the state says; there is always a way
  back; uninstalling takes nothing that is the user's.
* *Limits*: who is told that the limits are fresh finds them fresh.
* *Dashboard*: the windows of a range tile it; the parts of one screen agree; the
  pages of a list show each session once.

## 2. Modules

Modules named `MC...` give values to constants and model nothing; they are also
where a sequence or a set is made that a .cfg cannot write down.

### Forwarder, BestEffortDelivery, ForwarderProofs

`Forwarder` follows `forward.go` at the granularity at which goroutines see each
other. An `Enqueue` call is a process that goes through checks, admission under
`closeMu`, the byte reservation and the send under `statsMu`; the worker goes
through scrubbing, the token, the post, `classify`'s verdict and its waits;
`Shutdown` closes the channel, waits for the worker, and at its deadline cancels
the context and empties the channel with `discardQueued`. The two locks are
predicates over where the callers are. Answers of the server and of the token
source are open choices.

`BestEffortDelivery` is what the receiver may rely on: a bounded line, in order,
one verdict for each payload. `ImplementsDelivery` maps what Shutdown has swept,
what the worker holds and the channel, in this order, to that line.

Left out: the counters `Retries`, `TokenErrors`, `AttributesRemoved` and
`BodiesCleared`, and what `Scrub` does to a body (that is in `Decoder`).

### TokenSource, RefresherProofs

The mutex of `token.go` is who holds it; whoever holds it waits for an exchange that
runs in a goroutine of its own and cannot be cancelled, or leaves it at the
deadline. A user sends with the token he got; a refusal makes him `Invalidate`
that token, which throws away the cached one only if it is the same. The server
may revoke any token at any time.

### TitleRefresher, RefresherProofs

One vendor's refresher: requests in the channel (live, ended, forget, retry), the
worker's state per session with its generation, and every retry as a goroutine
of its own that waits for a timer and then for room in the channel or for its
cancellation. The policies of Codex and of Claude Code differ in
`stopAfterSuccess`. The vendor's lookup is a choice of found or not; cool-down is
a flag that time may clear.

### DedupWindow, Pipeline, PipelineProofs

`DedupWindow` is the ring of `dedup.go`. `Pipeline` has the receiver's workers in
`Consume` (with its two selects), the lifecycle calls with their reply channel
and the caller that gives up, the runner's loop and its shutdown, and the one
goroutine of `run`: each command is handled step by step where something can
come between, ingest one event at a time, and a write is one transaction that
succeeds or fails as a whole (`store.Write`). A crash loses what is in memory.
`RowsOf` is what a write makes of the waiting events: those that have a place and are
not there yet, in their order.
Which session is too old is left open: a session tick may forget any of them.

Left out: what the payload's offer to the forwarder returns, the content of title
requests, retention, the notification of the Codex worker, and the cancelled
context in `Consume`.

### SessionLifecycle, SessionProofs

Time in whole units, 0 for NULL as in `nullSec`. The assembler's first and last
time of a session, the events that wait for a write, and the row. `Upsert` is the
ON CONFLICT clause of `sessionUpsertHead`; `Times` is how `writeSessions` finds
the times of a batch with and without a snapshot; the session tick is three steps
because the daemon can die between its transactions. Hooks may be lost (never
taken) or come late.

### ToolCalls, SessionFigures, LineLedger

`ToolCalls` follows one session's tool events from the vendor, which may or may
not give ids to its turns and calls, through any order of arrival, to `Assign`
and `callKeyFor` of the tracker, whose numbers start again when the daemon does,
and to the upsert of `promote.go` with its coalescing columns. A batch is written
when it is full or when something makes the pipeline write.

`SessionFigures` is one counter of a session: the vendor exports its points as
differences, cumulatively with a start time, or cumulatively without one; `Step`
turns them into differences, the assembler adds them up, and the row keeps the
highest total. The vendor's process may be restarted (a new period) and so may the
daemon; the points of a process arrive or are lost before its successor starts.

`LineLedger` is `lines.go`: numbers of lines that name no file and edits that name
no lines, in any order, against where the lines should go. What should be is told from
the history of what arrived, without the ledger's queue.

The proofs about all three are in `SessionProofs`.

### CodexScan, CodexProvenance, CodexProofs

`CodexScan` has files with an identity of the operating system, which the user and
Codex may append to, cut, rewrite, rename over one another, delete and replace, also
while a scan reads them; the scan reads row by row, commits batches with its
checkpoint, and has to tell what has grown from what has changed. A hash is the
sequence of what was hashed. `CommitCodexFile` is one transaction with its
checks of the row it continues, purge and prune come between any two steps.
What has to come out is stated for a file that rests: from the time a scan opens it
until it or its name changes (`still`).
Left out: byte limits, parent sessions, torn last lines, hard links and the
granularity of modification times; an empty file commits nothing.

`CodexProvenance` is one session. Prompts and file rows all have the same text,
because that is when only the time windows of the turns keep them apart. A prompt
event is one transaction (`writeCodexEvidence`), a file batch another
(`CommitCodexFile`); the worker then lists the due turns, and for each of them reads
the candidates and commits a decision later. Purge and telemetry may come between
any two of these steps, and a worker may fail at any of them. `Classify` is modelled
for the turn id, the text, the owner's source and conflicting evidence.
Left out: the epoch guard (with one worker at a time it always holds; that there
is one is `OneWorker` of `Daemon`), message ids and duplicate representations of a
row, byte limits, a session's end as an upper bound, and `DropCodexPending`
(`QueueIsExact` shows that its case does not arise).

### Receiver, CodexSupervisor, Daemon, DaemonProofs

`Receiver` has a handler per request and the workers of `receiver.go`; its channel
takes a body without waiting, or the body is lost with a success to the client.
`CodexSupervisor` is the loop of `supervisor.go`: start a worker in the next epoch,
watch it, wait for its end, count restarts, back off or give up. A worker may end
or hang whenever it likes, and a limit of time may pass whenever something is
waited for. A status that the store refuses to write stays as it was.

`Daemon` composes the two with `start`, `loop` and `shutdown` of `runner.go`, in
the order of the code, each stage of `start` with its failure. Of the pipeline,
the title refreshers and the forwarder it keeps what the stages ask of them:
whether the pipeline's owner has ended, the refreshers' goroutines are gone, the
forwarder is shut; their own modules hold the rest. A deadline may pass at each
stage that has one: http.Shutdown, the pipeline's close, the wait for the
supervisor. `Close` of the receiver and of the refreshers has none. A rival is
another daemon, or `uninstall`, for the same data directory.

Left out: why a request is turned away, the receiver's counters, the local API and
the loop's periodic work (heartbeat reports, vendor limits, the update check), the
read-only query handle, and a removal of runtime.json that fails. The rewiring
after a port fallback is in `Installer`.

### VendorConfig, Installer, InstallerProofs

`VendorConfig` is one vendor's settings file as its managed leaves, our hook, the
user's hooks and Codex's switch; the merge writes them and records what it wrote,
the removal takes back what still is as recorded. `Installer` runs a command of the
user and one of the daemon as processes with one write at a time over vendors'
files, `managed-settings.json`, `state.json` and two keyring entries. Each write may
fail, and the command rolls back as the code does; or the process is killed. The
history variable `spoiled` names what has happened that a property excepts: an edit
of the user, a kill in an enrolment or an uninstallation, two commands at once.
Left out: the server's side of an enrolment, discovery of agents, TOML and JSON.

### LimitRefresher, RefresherProofs

The calls of the timer and of the button, the flight they join, its vendors one by
one, the leader's context, the cool-down and the rows that are stored. Time passes
while a refresh is under way, but no longer than its timeout.

### Decoder, FileEdits, ForwarderProofs, PipelineProofs

`Decoder` reads a request record by record: a carrier takes the resource's attributes
and is copied for scope and record; `Apply` is the attribute table of `attrs.go`
for a representative of each kind of field (a name, an id, a time, a number, a text
of its own, a text of a call, an input that names a file); then the event, its
validity, its sequence number and key, texts, touched files, the payload within the
budget. `Filtered` and `ScrubbedBody` are what `Scrub` does to the same record, and
`CompanySees` is what the decoder then makes of it. `DecoderAssumption` says that
attributes and fields are strings and that one that names the event has one of `Names`; a name
ends in what announces a prompt or a result, or in neither, and the empty name in neither; a
payload is not empty. `FileEdits` has
`parsePatch` line by line as the state machine it is, and `toolInputLines`; its property
tells the grammar by the numbers of the lines of the text, without a reader.
The proofs about `Decoder` are in `ForwarderProofs`, those about `FileEdits` in
`PipelineProofs`. `EditAssumption` says that a patch is a sequence of lines with a kind and a path, that
an edit has a new text and at most one old one, and that the budget is a number.
Left out: protobuf and JSON syntax, truncation, CRLF, histograms' values, and most of
the attributes that are handled alike.

### Calendar, HomeScreen, Classification, SessionScreen, SessionPages

An answer of the dashboard is a function of what each of its queries saw. So the
state is the database, which the daemon writes to, and what the reader has seen;
the answer is defined from that. `HomeScreen` is `Builder.Snapshot` in one
transaction and `Reader.HomeBreakdown` without one, with the limits of their lists as
constants (7 sessions, and 5 models of a vendor or as many as the query asks for); `SessionScreen` the screen of a
session, its figures, its file changes and its classification; `Classification` the
pure rules of `classify.go` and `classify_phase.go`. `SessionPages` is the walk
through the list with its cursor and the search with its cap per source; a source is
a set of sessions, where the code counts the rows of files and prompts.
`Calendar` is the arithmetic of local days over zones with one transition, in hours.
The proofs about `HomeScreen` are in `DaemonProofs`, those about `Calendar` and
`SessionPages` in `SessionProofs`.
Left out: texts, the daily and the tray summary, the attachment to the database,
money beyond integers.

### MCParts

The run `parts` checks fourteen components that share no state. A variable `part`,
chosen in `Init`, says which one is under way; the others rest in an initial state
and their properties hold there. It is a sum of models and not a product: each part
has exactly the behaviours it would have on its own, and one run explores them one
after the other.

## 3. Runs

| Run | Instance | Shows |
|---|---|---|
| `forwarder` | 5 payloads, one of them empty and one of a disabled signal, a channel of 1 item and 2 units, 2 attempts; 68 000 states | the counters and the byte budget, the refinement of `BestEffortDelivery`; every payload is settled, Shutdown returns |
| `titles` | 2 sessions, both policies, queue of 2, 2 retries, 3 requests; 154 000 states | retries: at most one, only the own, a bounded number of lookups; final lookups end, Close returns |
| `pipeline` | 2 workers, 3 events in repeating payloads, window of 2, one failed write, one crash; 1.35 million states | nothing lost, doubled or out of order; orderly stop; nothing forgotten before it is stored |
| `pipeline_live` | 1 worker, 1 hook, channel of 1, one failed write; 58 000 states | hooks are told the truth; events, callers, loop and close come to their end |
| `pipeline_forget_failing` | 1 worker, one failed write | finding 1 |
| `sessions` | 1 session, activity up to time 3, clock to 5, one failure, one restart; 77 000 states | ends are consistent, stable and certain |
| `sessions_activity` | as above | finding 2 |
| `codex_reopened` | 2 turns, 2 file rows, one of them perhaps broken, 2 events of telemetry | finding 3 |
| `daemon` | 2 requests, 1 receiver worker, a channel of 1, 1 restart and 2 Codex workers, one rival at a time; 337 000 states | one worker, order of the shutdown, the daemon exits |
| `parts` | fourteen components one at a time, see below; 770 000 states | see below |
| `tool_calls_rejected` | 1 tool without call ids, 2 calls, one perhaps rejected | finding 4 |
| `decoder_folds` | the decoder's instance of `parts` | finding 5 |

The parts of `parts`, with their share of the states:

| Part | Instance | Shows |
|---|---|---|
| installer | 2 agents, 2 ports, 2 enrolments, 3 commands, 1 failing write or killed command, the user's edits of one of our keys and of Codex's switch; 48 000 | `FilesFollowState`, `WayBack`, `TakesOnlyItsOwn` |
| token | 3 users, 3 exchanges, 2 revocations; 7 000 | `OneExchangeEach` |
| limits | timer and button, 2 vendors, cool-down of 2 and timeout of 1, clock to 3; 47 000 | `FreshWhenTold` |
| scan | 2 paths, 2 files, 2 rows in a scan, 2 changes of the files; 29 000 | `EvidenceIsTrue` |
| provenance | 2 turns, 2 file rows, 2 events of telemetry, 1 trouble (a purge or a dead worker); 191 000 | `QueueIsExact`, `SettledIsCurrent`, `FinalLabelSurvivesPurge` |
| tools | 2 calls of one tool, with or without ids of turns and calls, 4 events sent, 1 restart; 83 000 | `CallsExact` |
| figures | the four temporalities, 2 points, 2 processes of the vendor, 1 stop of the daemon; 9 000 | `FiguresAreTrue` |
| calendar | 9 zones and shifts, ranges of 1 to 401 days from 4 dates; 30 000 | `WindowsTile` |
| home | 2 sessions of two vendors, one with 2 models, 2 calls at 2 times, lists of 1 model and 1 session, 1 write between the queries; 167 000 | `HomeAgrees` |
| screen | databases of 1 session with turns, calls, files and errors, 1 write between the queries; 23 000 | `ScreenAgrees` |
| pages | 3 sessions, pages of 1, sources asked for 1, 1 event while one is asking; 76 000 | `PagesComplete` |
| decoder | requests of 2 records in 3 groups of resource and scope; 11 000 | `DecodedTruly` |
| edits | 11 000 patches and edits, among them all sequences that nearly are a patch | `EditsReadTruly` |
| ledger | 5 arrivals of lines and edits of 2 files; 37 000 | `LinesReachTheirFiles` |

Why the bounds are enough. Capacities are set so that both limits of the
forwarder's channel, the receiver's and the pipeline's channel, the duplicate window (an event comes
again after two others have pushed it out), the carry cap, the titles' queue, the
decoder's payload budget, the limits of pages, lists and timelines and the budget of an
edit's comparison are all reached. One failure and one crash suffice for what they
can interrupt, because each handler has only one point to fail at and all orders
around it are explored; a second failure repeats the state after the first. Two
workers, two sessions in the refresher and two turns are the least at which they can
get in each other's way; three users of a token are the least at which a late
report meets the token after next. In `daemon` a second receiver worker would add
nothing that one body in the channel and one in hand do not show, and the proofs
cover any number; with one restart the budget is reached, and a mutant exceeds it;
sessions in `SessionLifecycle` do not interact, so there is one. Times are chosen so
that an idle time passes, a memory time passes, and an event can be older than
either. In the installer three commands are an enrolment, a second command that
fails, and one that has to cope with what it left; four commands pass as well, in
730 000 states. `provenance` passes with three events of telemetry (one million states), `tools` without the
bound on what is sent (360 000), and `figures` with three points (105 000).
`pipeline_live` has a smaller instance than `pipeline`, but with the full capacity
reached; the forwarder's and the titles' safety and liveness are one run each.
`pipeline` uses the symmetry of the receiver's workers; its properties do not tell
them apart. Deadlock is checked in `codex_reopened` alone: there a ticker may always
start another scan. The other systems stop, which is a deadlock to TLC: the daemon has
shut down, or the bounded requests are used up.

### Fairness

* *Forwarder*: weak fairness of each Enqueue call once begun, of the worker and
  of Shutdown. They are goroutines whose waits have timeouts: the request's, the
  back-off's and the shutdown context's. No fairness of the server: its answer
  or the timeout is a step of the worker. Shutdown need never be called.
* *TitleRefresher*: weak fairness of the worker and of each retry goroutine
  (a timer fires; a select with a ready case goes on). None of the pipeline's
  requests, of Close, or of the cool-down.
* *Pipeline* (`pipeline_live`): weak fairness of the goroutine that owns the state and of the
  runner's steps; strong fairness of a receiver's worker and of the flush ticker,
  whose sends to the channel compete with others: a Go channel serves waiting
  senders in order. A lifecycle call takes the answer, or sees that the pipeline is
  gone, when it is there; that it gives up is never relied on. Failures are bounded, crashes
  absent in this run.
* *Daemon*: weak fairness of Run's own steps, of each receiver worker, of the
  pipeline's owner once the last command is in, of the refreshers once the context
  has ended, and of the supervisor. They are goroutines, and each of these waits
  either has a deadline or waits for another of them. None of clients, of the
  Codex worker, which may hang for ever, of the rival, of a failure or of the signal.
* *SessionLifecycle*: weak fairness of the clock and of the session tick, which a
  ticker drives; none of events, hooks or flushes.
* `parts` assumes none: its properties are invariants and action properties.

## 4. Properties worth pointing out

* `ByteBudget`, `SnapshotConsistent`: the forwarder's counters are changed by
  callers, the worker and Shutdown under different locks.
* `ImplementsDelivery`: after the deadline the worker and `discardQueued` both take
  from the channel; still every payload has one verdict, in the order of its sending.
* `EventsAccountedFor`: an event turned away as a duplicate is stored or waiting, an
  acknowledged flush is in the store, and none is left in a channel nobody reads. It
  fails if a failed write drops what the window remembers, and without the daemon
  closing the receiver first, for `Consume`'s check of `done` and its select are
  two steps.
* `EndCoversActivity`: a CHECK constraint of the table; a violation would make
  every later write of the batch fail.
* `ReopenedByActivityOnly`, `EverySessionEnds`: the first rules out ends that
  come and go with old snapshots, the second sessions that stay open for ever.
* `OneWorker`: the worker may outlive the supervisor's patience, and then there must
  be no successor. It is what lets `CodexProvenance` do without an epoch guard.
* `OrderlyShutdown`: requests outlive the server's deadline, the pipeline or the
  Codex worker may outlive theirs, and `start` may fail at any stage; still no
  accepted body is stranded, and nobody finds the database closed.
* `DaemonLeaves`: holds although `Close` of the receiver has no deadline, because its
  workers wait only for a pipeline that still runs.
* `QueueIsExact`: five handlers change the queue and the labels.
* `SettledIsCurrent`: assumes `Orderly`, that turns are stored in the order of their
  starts and first by their prompts. Both halves are needed. A turn first stored
  by another event changes the upper bound of the turn before without queueing
  it, and a turn that arrives out of order queues only its predecessor by index.
  It also sets aside turns whose judgement was overtaken, which is finding 3.
* `EvidenceIsTrue`: the scan may only trust length, identity, time and digest, and the
  file changes while it is read. It excepts a path whose superseded row came to life
  again (`revived`, section 5). The row that holds the evidence of a sound file is active,
  or rotated when the file is back under a name that another had in between.
* `FilesFollowState`, `WayBack`: a failed write is taken back by writes that are
  steps like any other. They are stated for installations that nobody spoiled, and
  `spoiled` says by what; section 5 says what happens to the others.
* `OneExchangeEach`: a report of an old token must not cost the new one.
* `FreshWhenTold`: the cool-down has to count from a refresh that wrote every row, not
  from one that ended; and who joins gets a result that began before he asked.
* `CallsExact`: the number of a call without an id starts again with the daemon, so the
  property excepts a vendor without ids after a restart.
* `FiguresAreTrue`: the daemon's total starts from zero after a restart while the
  counter is heard from the beginning again; a counter without a start time cannot be
  told from one that restarted, and of such a row the property says only that it never
  falls.
* `DecodedTruly`: `EventsSayTheirRecord` is stated over the attributes of all three levels
  and not over the carrier, so it sees a copy that is shared between records. It also
  says why no batch fails for an invalid event: `writeTurns` validates with the same
  `Event.Validate` as the decoder.
* `WindowsTile`: days of 23 and 25 hours, and ranges that
  end a month with fewer days.
* `HomeAgrees`, `ScreenAgrees`: every part of a screen against the others, for the readers
  with a transaction; for those without, what must hold of each query alone. The lists of
  recent sessions and of a vendor's models (`ModelRows`) are cut at a limit. Their parts make
  up the whole exactly where the answer does not say so (`Truncated`, `ModelsTruncated`), and
  a list that is cut is as long as its limit.
* `PagesComplete`: a session that nothing happens to is neither skipped nor shown twice
  while others start, end and grow between the pages.

## 5. Findings

1. `pipeline_forget_failing`. `closeSessions` forgets old sessions whether or not
   the write before it succeeded (`pipeline.go:526`); the comment at
   `pipeline.go:597` relies on the assembler still having them.
2. `sessions_activity`. A batch without a snapshot takes a session's activity from
   its first event only (`resolve.go:276`); the comment at `resolve.go:140`
   says the order of arrival does not matter.
3. `codex_reopened`. A prompt stored while its turn is judged reopens the
   judgement, and `CommitCodexDecision` overwrites the reopening with the outcome
   of the older evidence (`codex_worker.go:494`).
4. `tool_calls_rejected`. A rejected decision without a call id waits for a result, and
   takes that of the next call of the tool (`turn.go:157`); `tool-calls.md:11`
   says a rejected call has none.
5. `decoder_folds`. Two records of a request that differ only in the id of the API
   request get one key, though `emit` numbers them apart (`event.go:157`);
   `dedup.go:36` says the key never folds two events.

Met while modelling, without a run of their own:

* `forward.go:511` and `:557`: a payload whose wait is cut by Shutdown counts as given up
  after all its attempts, which the comment at line 139 says of the budget only.
* `worker.go:366`: when a file is renamed and another takes its name, a row that was
  superseded becomes evidence again as rotated; `docs/sqlite-schema/codex-provenance.md:19`
  says superseded for good. After `Prune` the tombstone of a file is gone.
* `worker.go:399-406`: a file that is moved away and back, after another had its name, is
  found at its rotated row, and a scan that reads nothing new commits nothing, so the row
  stays rotated. Its evidence counts, but `ownerReady` (`worker.go:239`) asks for an active
  row, so turns of that session are settled only when the file grows again.
* After a restart the numbers of calls without ids start at 0, so two calls of one turn
  may be merged; decisions and results without ids are paired by arrival.
* A point of an old process that arrives after one of the new makes `Step` count
  the old one again; points without a start time that are reordered are counted too high.
* Installer: `apply.go:216-226` returns without rolling back when the old keys cannot be
  read; an enrolment over an old one that is killed between `managed-settings.json` and
  `state.json` leaves a record that `LoadManaged` refuses, and may lose the company's token; a
  first enrolment that is killed leaves wired files without a state; a user's command
  and the daemon's rewiring lose each other's updates, and `rewireAfterPortFallback`
  (`runner.go:588`) decides on a state that was read before the lease was taken.
* Calendar: in a zone west of Greenwich whose spring change removes midnight,
  `queryWindows` (`build.go:89-108`) appends one boundary for ever. Zones that skip midnight
  or a day are outside `Zones`.
* `Reader.Home`, `HomeBreakdown`, `Today`, `RecentActivity`, `Session`, `SessionMetrics`,
  `FileChanges` and the classifier run their queries without a transaction, so parts of
  their answers may be of different databases. A call of a turn that is not stored yet
  shows as a virtual turn. `turnDurationSec` cuts at the next turn only if its start is
  known and later. `session_retry` is always 0 today.
* The search may return a hit with empty fields when its session is pruned between two
  queries, applies the cap per source before the dates, and counts rows of files, not
  sessions. `Reader.Sessions` pages by OFFSET, which shifts when a session is inserted.
* `scrubLogs` takes a record's own name before its attribute, the decoder the attribute
  (of any level, and `event_name` as well as `event.name`) before the name. `ScrubHides` is
  stated for records that are named once, where `scrubLogs` looks.
* `ErrWorkerUnresponsive` leaves the status at `running`.
* `home_breakdown.go:198-199`: the models of a list that was cut have less than their vendor;
  as much, if the calls of those left out had neither tokens nor a cost.
* Comments that lag behind the code: `lifecycle.go:29-31`, `pipeline.go:141` and `:535-538`,
  `activity/types.go:13-14`, `session_title.go:136-139` against its ADR, and
  `server.go:116-117`, `runner.go:740` on a wait that has no deadline.

## 6. Proofs

The theorems hold for all values of the constants and rest on nothing but the
assumptions the models declare on them (`TimeAssumption`, `SizeAssumption` and
so on); `tlapm` on each of the modules below checks them. `ValueAssumption` of
`Installer` says only that what is not there, what the user writes and the receiver's
bearer differ from everything the program writes. `HomeAssumption` says that a call's
figures are missing or numbers, not negative where the table demands it
(`schema.go:175-180`), that the times and the boundaries of the windows are numbers,
that a row of the price table has a rate for each kind of token, and that models are
numbered in the order of their canonical names. `DataFacts` holds the facts on data
that the proofs cite: `Min` and `Max`, induction over the naturals as a statement about
sets, sums of sequences, sequences without repetitions, sequences within one another, and sums
over finite sets: in parts, by groups (`SumByGroups`), and under other names; and the first
elements of a finite set in an order.

| Module | Theorem | States |
|---|---|---|
| `ForwarderProofs` | `TypeCorrect` | `Spec => []TypeOK` |
| | `SnapshotsConsistent` | `Spec => []SnapshotConsistent` |
| | `NeverSendsOnClosed` | `Spec => []NoSendOnClosed` |
| | `QuietOnceShutDown` | `Spec => []QuietAfterShutdown` |
| | `BytesStayInBudget` | `Spec => []ByteBudget` |
| | `DeliveryImplemented` | `Spec => ImplementsDelivery` |
| | `DecoderInvIsInductive` | `DecoderSpec => []DecoderInv` |
| | `DecodingIsTrue` | `DecoderSpec => []DecodedTruly` |
| `PipelineProofs` | `PipelineInvariant` | `Spec => []PInv` |
| | `NoEventLost` | `Spec => []EventsAccountedFor` |
| | `HooksToldTruly` | `Spec => []HookAckIsTrue` |
| | `ForgottenIsStored` | `Spec => SnapshotBeforeForgotten` |
| | `EditInvIsInductive` | `EditSpec => []EditInv` |
| | `EditsAlwaysReadTruly` | `EditSpec => []EditsReadTruly` |
| `SessionProofs` | `TypeCorrect` | `Spec => []TypeOK` |
| | `OpenSessionsAreSweepable` | `Spec => []OpenIsSweepable` |
| | `EndsCoverActivity` | `Spec => []EndCoversActivity` |
| | `OnlyActivityReopens` | `Spec => ReopenedByActivityOnly` |
| | `SweepSpares` | `Spec => SweepSparesActive` |
| | `ToolInvariant` | `ToolSpec => []ToolInv` |
| | `CallsKeptApart` | `ToolSpec => []CallsExact` |
| | `PagesInvariant` | `PagesSpec => []PagesInv` |
| | `PagesAreComplete` | `PagesSpec => []PagesComplete` |
| | `FigureInvariant` | `FigureSpec => []FigureInv` |
| | `NoSecondTwice` | `FigureSpec => FiguresAreTrue` |
| | `CalendarInvariant` | `CalendarSpec => []CalendarInv`, if `AllBeginAtMidnight` |
| | `DaysAreTiled` | `CalendarSpec => []WindowsTile`, if `AllBeginAtMidnight` |
| | `LinesAlwaysReachTheirFiles` | `LedgerSpec => []LinesReachTheirFiles` |
| `CodexProofs` | `TypeCorrect` | `Spec => []TypeOK` |
| | `QueueExact` | `Spec => []QueueIsExact` |
| | `LabelsSurvivePurge` | `Spec => FinalLabelSurvivesPurge` |
| | `SettledLabelsCurrent` | `Spec => []SettledIsCurrent` |
| | `ScanInvariant` | `ScanSpec => []ScanInv` |
| | `EvidenceHolds` | `ScanSpec => []EvidenceIsTrue` |
| `DaemonProofs` | `TypeCorrect` | `Spec => []TypeOK` |
| | `SingleWorker` | `Spec => []OneWorker` |
| | `ReceiverDrains`, `ResourcesOutlive` | `Spec => []AcceptedPassesReceiver`, `Spec => []NobodyLeftBehind` |
| | `ShutdownInOrder` | `Spec => []OrderlyShutdown`, the two together |
| | `HomeStaysWhole` | `HomeSpec => []HomeInv` |
| | `HomeAlwaysAgrees` | `HomeSpec => []HomeAgrees` |
| `RefresherProofs` | `TitleInvariant` | `Spec => []TitleInv` |
| | `LookupsTracked` | `Spec => []FinalLookupsTracked` |
| | `RetriesKeepToTheirLife` | `Spec => OnlyOwnRetryApplied` |
| | `OneExchange` | `TokenSpec => []OneExchangeEach` |
| | `LimitInvariant` | `LimitSpec => []LimitInv` |
| | `Freshness` | `LimitSpec => FreshWhenTold` |
| `InstallerProofs` | `InstallerOrder` | `InstallerSpec => [](Orderly /\ LeaseInv)` |
| | `InstallerInvariant` | `InstallerSpec => []WholeInv` |
| | `RemovalIsModest` | `InstallerSpec => TakesOnlyItsOwn` |
| | `WayBackStaysOpen` | `InstallerSpec => []WayBack` |
| | `FilesAndStateAgree` | `InstallerSpec => []FilesFollowState` |

None of the properties is inductive; each module names its invariant (`IInv`, `RefInv`,
`CurrentInv`, `PInv`, `TitleInv`, `TokenInv`, `LimitInv`, `WholeInv`, `ScanInv`, `ToolInv`, `PagesInv`, `FigureInv`,
`CalendarInv`, `LedgerInv`, `HomeInv`, `EditInv`, `DecoderInv`) and proves that the
initial states satisfy it and that every action keeps it.

*Forwarder.* `ControlInv` ties the control states together: at most one caller is in
the section under `statsMu`, no caller is between admission and send once the
channel is closed, the worker has a payload exactly in the states in which it
works on one, and the sweep begins only when the worker is gone. `CountInv` says
that the counters' `Pending`, plus the payloads sent but not counted yet, is the
number of payloads in channel, worker and sweep. Each action has a lemma for the
types, one for the control and one for the count; the snapshot property is
`CountInv` where nobody is in the section, and quietness follows because the
channel is empty and the worker gone. `ByteInv` says how far the byte counter runs ahead
of the channel: by the payload that is reserved and not sent yet, or received and not
subtracted yet.

*The forwarder as a line.* `Line` is what the sweep has found, then what the worker has,
then the channel. `LineInv` says that a payload is there once, exactly as long as it has
no verdict, and that one still on its way in has none and is not there. `StopInv` keeps
the sweep of a Shutdown in time empty. Then every step of the worker up to its
verdict is a stutter of `BestEffortDelivery`, the verdict is the one on the head, and the sweep,
which takes one payload at a time, counts them all in the step that abandons the line.

*Pipeline.* `PInv` has one part for each question. `OrderInv`: the rows of this life,
followed by what waits, are the admitted events with some left out, and never in another
order; an embedding of one sequence in the other is extended, or composed with that of
`RowsOf`, step by step. `BackedInv`: whatever the window remembers was admitted, and what
was admitted is stored, waits, has no place, or was capped. `BoundInv`: only a payload
under way fills the buffer above its bound. `EndInv`: while no write has failed, nothing
is unsaved after a write, and nothing waits after the last one. A crash begins again with
whatever rows are there, which is why the order is that of one life (`base`).

*Sessions.* The danger is a time from somewhere else: an event that arrives after
the end it precedes, a snapshot of an assembler that remembers more or less than
the row. `IInv` keeps `started <= last <= ended` in a row, and everything that may
still be written to it (the assembler's memory, the events that wait) at or below
`latest`, the time the session was really active last, which is at or below the
clock. A row that is ended by a hook ends at the clock and hence covers its
activity; one that is opened by an UPSERT is opened by activity after its end,
which lies at or below `latest`. `SweepInv` adds what the order of write and sweep in
a tick is for: with no write failed, what the assembler knows is in the rows the
sweep reads.

*Tool calls.* Whether two calls share a row is decided when an event gets its key, and shows
when a later batch stores it. `UnsavedOnce` and `RowsStored` tie the events that wait and
those in rows to the ones that were received and stored, so that each is promoted once. If
the vendor identifies its calls, a key's id is its event's call (`Named`). If it does not,
`Counted` says of a tracker that was never lost what each of its keys stands for: a key in
a ledger, a batch or a row has a number that was opened; it waits in its ledger, once, as long as no result has
taken it, and no two results wait for the store under one key. A batch is a
recursion over its events; `Promotes` says what the table has after each, and is
kept by one more (`PromotesStep`).

*Pages.* The order by running, start and id is strict on the sessions that a query may
return, so the cursor of a page parts them: `WalkInv` says of a session to which nothing
happens that it was shown, once, exactly when it does not lie beyond the cursor. For a
search `FoundInv` says after each source that what it should have brought was found,
unless it had too many. What SQL leaves open, which of equally old sessions come first, is open
in `FirstRows` too.

*Seconds of activity.* That the total is at most what was earned is not inductive, since
the next point adds to it. `RoomInv` leaves room: the total, and what the running process
has counted and the state has not, are within what was earned; for differences `DeltaInv`
does so with the sum of the points on their way. `SeriesInv` and `PeriodsInv` say that the
state is the highest point of the latest process, so a point adds to the total what it adds
to the highest of its process (`DatedStep`), in whatever order the points come. The lemmas
on `Summed` say that a sum changes as much as the one element that does.

*Windows.* The arithmetic of a zone is used in one lemma, `DaysBegin`: in a zone that
`BeginsAtMidnight` the clock has reached a date exactly from the instant that Go gives as
its midnight. The condition lets a change skip or
repeat any hours but a midnight, and the clocks of `MCScreens` are checked to meet
it (`ClocksBeginAtMidnight`). From the lemma follow the order of the midnights and that a
date added to one gives another (`DatesFollow`, `MidnightsAdd`), and the rest uses only
these. `CutInv` says of the cutting in its middle what `WindowsTile` says of its end: it
lies within the range, no midnight that was passed is missing where the unit is hours, the
last boundary is a midnight where it is not, and where it is days the boundaries are the
midnights one by one. That every step advances, which the loop needs to end, is
`NextBoundGoes`.

*Line counts.* The queue of edited files forgets: an edit after numbers of lines throws away
what came before. `LedgerInv` says what it holds in terms of the history, the files of the
edits that the next numbers are meant for, and when it is spent: lines came after the last edit, or
had waited for it. An arrival then changes what the history says in one of three ways. Lines
add a point, whose shares are all of it (`HandedIsAll`, which is where the remainder of the
division goes to the first files); an edit extends the queue or begins a new one, and leaves what earlier
points were meant for alone; the first edit takes what waited, all points at once. The sums
over points, files and places in the queue change by what was added.

*Patches and edits.* The reader goes forward and keeps one open file and one block; the
grammar is about the whole text. `ReadSoFar` joins them: it says of the lines before the
next one, by their numbers alone, what the grammar says of the whole patch, so that at the
last line it is the property. Every file but the open one is well formed and was read as
`FileAt` says; of the open one `OpenIsRead` says that its counters are the numbers of lines
so far, and that the block is determined by the last of them, which may still be an `@@`
without its lines. `NotContinued` is there for the step in between: a file is closed before
the next line is read, and that line must not be one that would have belonged to it. A
line more extends the body of the last header and of no other; a header closes it for good.
Each `invalid` is then shown to refute the grammar however the text goes on. For an edit,
`commonLines` fills the rows of a table; that each place has the size of a largest common
part of the two beginnings is shown by induction over the columns of a row and then over
the rows, with the facts on recursions in `DataFacts`.

*Decoder.* A carrier forgets which attribute it has a value from; `DecoderInv` says that it
says what the sequence of attributes it was given says (`CarrierSays`), the last that counts of each
field. `CarrierTakes` is that for one attribute more, and `CarrierTakesAll` for any number, by an
induction over the places of the sequence; so the copy for a scope or a record says what
applies there, whatever was copied from it before. A record is then one of two things
(`Rejects`, `Becomes`): no event and counted by its points, or one event whose parts are its
own (`Emitted`). The old parts keep their event because records and events are only added
(`SourcesMore`, `SequenceOfMore`), and of a patch the new files are exactly those at
the end of the list (`FilesMore`). That keys tell events apart but for the id of the API
request follows from what an event's number is (`NumbersOK`): of two alike the later counts
the earlier. The scrubbed copy needs no invariant but that of the request (`CopyHides`):
what is filtered out says nothing, and the name it is judged by is the one the decoder takes,
or the decoder finds none (`CopyNamedAlike`).

*Codex.* `Decide` takes a turn whose label is final out of the queue and never puts
one in. So what the worker has listed, or is about to decide, must still be in
the queue (`InHand`), and a turn that telemetry opens must come without a final
label (`Untouched`). That a label is the one the evidence proves (`SettledIsCurrent`) is
harder, since what the worker has listed of a turn is out of date as soon as another turn
comes. `CurrentInv` says that whatever is listed, judged or settled of a turn was made from
a row that is `Current`: it has all that is known of the turn itself, and of the turns
after it at least the next one, or a next one that has no prompt yet, whose prompt will
put the turn back in the queue. Where all turns have their prompts and begin in
order, such a row is the one that would be listed now (`CurrentIsRow`). A purge
moves the tombstone only over rows that come before every turn that it leaves.

*The scan.* A commit is right or wrong by what the scan found when it opened the file, many
steps before. `Frame` holds always: names are of one file each, a row's records and texts
are of rows that were read, the batch is what lies between checkpoint and reader, and what
the worker remembers of its row is still what the row says unless `prune` has taken it
(`Seen`); that a purged text stays away is a part of it. `Truth` holds while nothing was revived. `RowTrue`: a row that counts has
exactly the evidence of the rows it was made from, and no fatal row among them but the
last of a quarantined one. `Generations`: each path numbers its rows, and only its last may be active.
`PriorTrue`, `PlanTrue`, `ReadTrue`: the scan's row is the last of the path or that of a file moved to
a path without rows, what was read continues that row's prefix, and the batch is the sound part of it.
`RestingFiles`: of a file that rests the scan has read a beginning and nothing else,
and its row was not pruned. Then a commit can only add sound rows to sound rows, and
at the end of the file the prefix is the file. The lemmas on `FirstFatal` and `Sound` say what
one more row does to them. Looking for this invariant showed that the property had
been too strong beyond the bounds of its run: it asked for an active row (section 5).

*Daemon.* `SupervisorInv`: a worker that is alive is the last epoch's, and Run watches
it, waits for it or has returned unresponsive. `ReceiverInv`: an accepted body is in
the channel or with a worker, and a worker leaves only a closed and empty channel;
so once the server is through and the workers are gone none is left. `RunInv` says for
each stage what is certain when Run is there (the sets `FromPipeline`, `FromFlush`
and so on are the rest of the shutdown from a stage), and `LeaseInv` that a Run
without the lease has not begun anything or is through. Two lemmas say which steps
reach the supervisor and the receiver at all, and spare the others a case.

*Home.* The invariant is short: what a query sees is a database of the store, whole with its
calls and sessions, and in one transaction always the same (`HomeInv`). The rest is that the screen's
answers agree, which is about finite sums. A total is a sum over the calls in the range, and each part of
the screen sums the same calls by another key: by vendor, by window (every call of the range
is in one, `WindowIs`), by model, by session; `SumByGroups` says that all are the
total, and `SumOfSomeGroups` that the groups of a list that was cut have no more. A list is
the elements with less than the limit before them in a strict order (`FiguresOrder`), of which there
are as many as the limit if there are more in all (`FirstsCount`). What makes them one set of calls is the store: every call has its session, and its vendor
is one of those listed. With two vendors the whole thousandths miss a thousand by one at
most, which goes to the greater remainder and does not change their order.

*Installer.* What makes it hard is that a command passes through states in which the files,
the record, the state and the keyring do not agree, and may end in any of them. `Orderly`
gives each stage its operations and types, and `LeaseInv` keeps the daemon's command and an
uninstallation apart; they suffice for `TakesOnlyItsOwn`, since what is released is
still as it was planned, and a plan takes away only what is as recorded. `WholeInv` adds,
for a command that is alone, `Half` (so many files written, the others as in the backup),
`Paper` (the record is that of the state, and between its two writes the old one is in
hand), `Way` (the token is in the keyring or still in a file, now and if the command is
taken back), `Follows` (what is backed up agrees with state and record, and what has
been written with what is about to be), and `Aim` (the installation is still the one that the command began
with). `Purposes` and `Tokens` say what a command is for and that only tokens of the
company's are kept for later. A rollback is then the same argument for every error:
`TakenBack` shows it once. Each part stands under the troubles that may break it, so the two
properties follow with exactly the exceptions that they state. The attempt to prove
`Recorded` found two guards of a `CASE` that overlapped, where TLA+ leaves the choice open;
they are an `IF` now.

*Titles.* A retry travels: it is a goroutine first and a request in the queue later.
`OneJourneyEach` says that no id is used for two journeys, `OwnerWaits` that one that is
not cancelled belongs to a session whose present life waits for it, and `AwaitedTravels`
that what a session waits for is not cancelled and on its way. A lemma for each kind of
step says what becomes of the journeys (one begins, changes from goroutine to queue, or
ends), and the steps of the worker are then three: the session keeps its life, waits for
a new retry, or begins a new life in which it waits for none (`NewLife`). `LookupsPaid`
bounds the lookups: every retry that was scheduled paid for the lookup before it.

*Token source.* An exchange that is under way is the last one that was started, and
somebody who holds the mutex waits for it or has left it at his deadline. A token
that a user holds is still cached unless it has been refused, so a user who asks
while the cached token is good gets that one and starts nothing.

*Limits.* There is one leader at most, and he runs the flight that the others have
joined (`OneLeads`). While nothing has failed, the rows of the vendors he
has been to bear the time at which the flight began (`WrittenSoFar`). And the cool-down counts from a refresh that
wrote every row, and from no more than `Timeout` after that refresh began
(`CooldownIsEarned`); so a caller who is turned away by the cool-down finds rows
as fresh as he is told, and so does one who was answered by the flight he joined.

Only model-checked:

* liveness under fairness, and deadlock freedom, which TLAPS does not do;
* `Classification` and `SessionScreen` (`ScreenAgrees`): functions that are checked against a
  second definition, over inputs chosen to reach every rule. They are folds over turns
  and rows, whose theorems in the library take an operator as a parameter, and what they
  compute for every input is an induction over data for each of them. The recursions of
  the proved modules are recursive functions (`RowsOf`, `Embeds`, `CommonLines`, `ApplyAll`,
  `Filtered`, sums), for which `DataFacts` and the lemmas on them do the induction over a set of
  naturals.

## 7. Not modelled

* The Codex file parser: what a row of JSON means. `CodexScan` and `CodexProvenance`
  take a row as what the parser makes of it.
* The Codex app server client: a child process that answers requests by their id, used
  for one lookup at a time; `TitleRefresher` has the outcome.
* The local API: handlers over the queries and over `SubmitLifecycle`, which
  `Pipeline` has with its deadline.
* Autostart, the GUI, the tray, desktop installation, and the command line:
  commands of the operating system, display, and printing.
* Enrollment, heartbeat, update check and credentials: single calls without a state
  of their own; `Installer` has their outcomes, and the keyring as two entries.

What each modelled part leaves out is said in section 2. The largest gaps: the
migrations and the secondary tables of the store; the queries of the daily and tray
summaries; the attributes that the decoder handles alike; the reader's attachment to
the database; sums of money, rounding, and percentiles.

What would come next: that a session's figures agree with its list of turns (`ScreenAgrees`)
for any rows; the migrations of the store from each earlier version.
