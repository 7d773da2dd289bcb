------------------------------ MODULE ToolCalls ------------------------------
(***************************************************************************)
(* How the decision and the result of a tool call become one row of        *)
(* tool_calls: session/turn.go gives each event of a session its turn and  *)
(* its call key in the order of arrival, store/promote.go merges what has  *)
(* the same key.  A vendor that identifies its calls and its turns is      *)
(* followed; for one that does not, the tracker counts, and a restart of   *)
(* the daemon makes it count from zero again.                              *)
(***************************************************************************)
EXTENDS Naturals, Sequences, FiniteSets

CONSTANTS
    Tool,        \* tools
    Answers,     \* what the user says of a call: "accept", "reject", or is not asked: "auto"
    NoEvent,     \* SQL's NULL in an event column
    BatchEvents, \* pipeline.batchEvents: a batch this long is stored at once
    MaxTurns,  \* bound: prompts of the session
    MaxCalls,    \* bound: tool calls of the session
    MaxSent,     \* bound: events the vendor exports
    MaxLives     \* bound: restarts of the daemon

SentEvent == [part : {"prompt", "decision", "result"}, of : Nat]

ASSUME ToolAssumption ==
    /\ {MaxTurns, MaxCalls, MaxSent, MaxLives} \subseteq Nat /\ BatchEvents \in Nat \ {0}
    /\ NoEvent \notin SentEvent

VARIABLES
    given,      \* what the vendor identifies: its calls (tool_use_id), its turns (prompt.id)
    prompts,    \* how many prompts the user has sent
    made,       \* the calls made: their tool, prompt and the user's decision
    sent,       \* the events the vendor has exported; any may be sent again
    window,     \* events this daemon has seen (the deduplication in front)
    open,       \* turnCursor.open
    ledgers,    \* turnCursor.ledgers: numbers opened and keys that wait for a result
    unsaved,    \* pipeline.pending: tool events with their turn and key
    lives,      \* restarts so far
    storedEvents, \* tool events the database has, by record_hash
    toolCalls,  \* the rows of tool_calls, by call_key
    changes     \* how many rows of file_changes each call's result has made

toolVars == <<given, prompts, made, sent, window, open, ledgers, unsaved, lives, storedEvents, toolCalls, changes>>
vendorVars == <<given, prompts, made, sent>>

Virtual == 0   \* the turn of what comes before the first prompt

Ev(part, n) == [part |-> part, of |-> n]
IsTool(e) == e.part \in {"decision", "result"}
FreshLedgers == [t \in (0..MaxTurns) \X Tool |-> [opened |-> 0, pending |-> <<>>]]

ToolInit ==
    /\ given \in [calls : BOOLEAN, turns : BOOLEAN]
    /\ given.calls => given.turns
    /\ prompts = 0
    /\ made = <<>>
    /\ sent = {}
    /\ window = {}
    /\ open = Virtual
    /\ ledgers = FreshLedgers
    /\ unsaved = <<>>
    /\ lives = 0
    /\ storedEvents = {}
    /\ toolCalls = <<>>
    /\ changes = [c \in 1..MaxCalls |-> 0]

-----------------------------------------------------------------------------
(* The vendor *)

SendOut(events) == Cardinality(sent \cup events) <= MaxSent /\ sent' = sent \cup events

Prompt ==
    /\ prompts < MaxTurns
    /\ prompts' = prompts + 1
    /\ SendOut({Ev("prompt", prompts + 1)})
    /\ UNCHANGED <<given, made, window, open, ledgers, unsaved, lives, storedEvents, toolCalls, changes>>

\* A call the user is asked about exports the decision; an automatic one does not.
Call(tool, asked) ==
    /\ Len(made) < MaxCalls
    /\ made' = Append(made, [tool |-> tool, prompt |-> prompts, asked |-> asked])
    /\ SendOut(IF asked = "auto" THEN {} ELSE {Ev("decision", Len(made) + 1)})
    /\ UNCHANGED <<given, prompts, window, open, ledgers, unsaved, lives, storedEvents, toolCalls, changes>>

\* A call that was not rejected ends, with a result that changes a file.
Return(c) ==
    /\ made[c].asked # "reject"
    /\ Ev("result", c) \notin sent
    /\ SendOut({Ev("result", c)})
    /\ UNCHANGED <<given, prompts, made, window, open, ledgers, unsaved, lives, storedEvents, toolCalls, changes>>

-----------------------------------------------------------------------------
(* The tracker *)

\* prompt.id of the prompt an event belongs to, or its DedupKey for a prompt.
TurnKey(e) ==
    IF e.part = "prompt" THEN e.of
    ELSE IF given.turns THEN made[e.of].prompt ELSE Virtual

\* Where an event goes: the turn the vendor names is the open one from now on.
TurnFor(e) == IF TurnKey(e) # Virtual THEN TurnKey(e) ELSE open

Identified(c) == [id |-> c, turn |-> Virtual, tool |-> made[c].tool, n |-> 0]
Synth(turn, tool, n) == [id |-> 0, turn |-> turn, tool |-> tool, n |-> n]

NextNumber(l) == [l EXCEPT !.opened = @ + 1]

Took(l) == [l EXCEPT !.pending = Tail(@)]

\* The key of an event and the ledger after it: a decision opens a number that
\* waits for a result, a result takes the number that waits the longest, or opens
\* its own.
CallKey(e, turn, l) ==
    LET tool == made[e.of].tool
        fresh == Synth(turn, tool, l.opened)
    IN  CASE given.calls -> [key |-> Identified(e.of), ledger |-> l]
          [] ~given.calls /\ e.part = "result" /\ l.pending # <<>> ->
               [key |-> Head(l.pending), ledger |-> Took(l)]
          [] ~given.calls /\ e.part = "result" /\ l.pending = <<>> ->
               [key |-> fresh, ledger |-> NextNumber(l)]
          [] ~given.calls /\ e.part = "decision" ->
               [key |-> fresh, ledger |-> [NextNumber(l) EXCEPT !.pending = Append(@, fresh)]]

Rec(e, turn, key) == [event |-> e, turn |-> turn, key |-> key]

\* TurnOf, for an event that passed the deduplication: a tool event
\* waits for the store with its turn and key.
Assign(e) ==
    LET turn == TurnFor(e) IN
    /\ open' = turn
    /\ IF IsTool(e)
       THEN LET at == <<turn, made[e.of].tool>>
                given2 == CallKey(e, turn, ledgers[at])
            IN  /\ ledgers' = [ledgers EXCEPT ![at] = given2.ledger]
                /\ unsaved' = Append(unsaved, Rec(e, turn, given2.key))
       ELSE UNCHANGED <<ledgers, unsaved>>

Receive(e) ==
    /\ Len(unsaved) < BatchEvents
    /\ e \notin window
    /\ window' = window \cup {e}
    /\ Assign(e)
    /\ UNCHANGED <<vendorVars, lives, storedEvents, toolCalls, changes>>

-----------------------------------------------------------------------------
(* The store *)

\* What a tool event contributes to its row; only a decision carries a choice.
Contribution(r) ==
    [turn |-> r.turn,
     decision |-> IF r.event.part = "decision" THEN r.event ELSE NoEvent,
     result |-> IF r.event.part = "result" THEN r.event ELSE NoEvent,
     choice |-> IF r.event.part = "decision" THEN made[r.event.of].asked ELSE "none"]

Coalesce(a, b) == IF a # NoEvent THEN a ELSE b

\* ON CONFLICT(call_key) DO UPDATE: what is there stays, but a result brings its turn.
MergedRow(old, new) ==
    [turn |-> IF new.result # NoEvent THEN new.turn ELSE old.turn,
     decision |-> Coalesce(old.decision, new.decision),
     result |-> Coalesce(old.result, new.result),
     choice |-> IF old.choice # "none" THEN old.choice ELSE new.choice]

UpsertCall(table, r) ==
    LET new == Contribution(r)
        row == IF r.key \in DOMAIN table THEN MergedRow(table[r.key], new) ELSE new
    IN  [k \in DOMAIN table \cup {r.key} |-> IF k = r.key THEN row ELSE table[k]]

\* Mutant: an event that the database already had is promoted again.
PromotedAgain(recs) == DOMAIN recs

\* promote: only the events this transaction has inserted.
Promoted(recs) == {n \in DOMAIN recs : recs[n].event \notin storedEvents}

\* The table after a batch, which is promoted event by event.
TableAfter(recs) ==
    LET table[n \in 0..Len(recs)] ==
            IF n = 0 THEN toolCalls
            ELSE IF n \in Promoted(recs) THEN UpsertCall(table[n - 1], recs[n]) ELSE table[n - 1]
    IN  table[Len(recs)]

ChangedBy(c, recs) == Cardinality({n \in Promoted(recs) : recs[n].event = Ev("result", c)})

FlushTools ==
    /\ unsaved # <<>>
    /\ storedEvents' = storedEvents \cup {unsaved[i].event : i \in DOMAIN unsaved}
    /\ toolCalls' = TableAfter(unsaved)
    /\ changes' = [c \in DOMAIN changes |-> changes[c] + ChangedBy(c, unsaved)]
    /\ unsaved' = <<>>
    /\ UNCHANGED <<vendorVars, window, open, ledgers, lives>>

\* The daemon dies: what it had not stored is lost, and the tracker starts anew.
Restart ==
    /\ lives < MaxLives
    /\ lives' = lives + 1
    /\ window' = {}
    /\ open' = Virtual
    /\ ledgers' = FreshLedgers
    /\ unsaved' = <<>>
    /\ UNCHANGED <<vendorVars, storedEvents, toolCalls, changes>>

ToolNext ==
    \/ Prompt
    \/ \E tool \in Tool, asked \in Answers : Call(tool, asked)
    \/ \E c \in DOMAIN made : Return(c)
    \/ \E e \in sent : Receive(e)
    \/ FlushTools
    \/ Restart

ToolSpec == ToolInit /\ [][ToolNext]_toolVars

-----------------------------------------------------------------------------
(* Properties *)

\* No call disappears in another one's row: every result the database has is the
\* result of a row of its own, whatever order the events came in.  It holds as long
\* as the vendor identifies its calls or the tracker has not been lost.
CallsKept ==
    (given.calls \/ lives = 0) =>
        \A e \in storedEvents : e.part = "result" =>
            \E k \in DOMAIN toolCalls : toolCalls[k].result = e

\* What is sent again after a restart, and gets another key from the new tracker,
\* is used once: no event is in two rows, which the UNIQUE columns would answer by
\* refusing the whole batch, and no result changes its files twice.
EventUsedOnce ==
    /\ \A k, l \in DOMAIN toolCalls : k # l =>
         /\ toolCalls[k].decision # NoEvent => toolCalls[k].decision # toolCalls[l].decision
         /\ toolCalls[k].result # NoEvent => toolCalls[k].result # toolCalls[l].result
    /\ \A c \in DOMAIN changes : changes[c] <= 1

\* The rows of tool calls and the events that made them are in step.
CallsExact == CallsKept /\ EventUsedOnce

\* docs/sqlite-schema/tool-calls.md: a call that was rejected has no result.
RejectedHasNoResult ==
    \A k \in DOMAIN toolCalls : toolCalls[k].choice = "reject" => toolCalls[k].result = NoEvent
=============================================================================
