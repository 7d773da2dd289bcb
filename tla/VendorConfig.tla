---------------------------- MODULE VendorConfig ----------------------------
(***************************************************************************)
(* What internal/config does to the settings files of Claude Code and of   *)
(* Codex: the merge of the managed keys and hooks, the record of what was  *)
(* written, and the removal that takes exactly that away again.            *)
(*                                                                         *)
(* A file is its managed leaves, the hook of ours, whether the user has    *)
(* hooks of his own, and Codex's switch for hooks.  The two lifecycle      *)
(* events behave alike and are one here; a digest is the value itself.     *)
(***************************************************************************)
EXTENDS Naturals, FiniteSets

CONSTANTS
    Absent,  \* a key, a hook or a record that is not there
    Edited,  \* whatever the user wrote in place of one of our values
    Touched  \* bound: the keys that the user changes himself

Tools == {"claude", "codex"}

\* A manifest with the token that goes with it: the company's, or the fixed
\* local profile for a port.
Company(token) == [local |-> FALSE, port |-> 0, token |-> token]

Local(port, token) == [local |-> TRUE, port |-> port, token |-> token]

-----------------------------------------------------------------------------
(* The keys.  Claude Code has one environment variable for each; Codex has   *)
(* one table for each exporter, and a local profile has more of them.        *)

Leaves(tool) ==
    IF tool = "claude" THEN {<<"endpoint", "url">>, <<"headers", "auth">>, <<"enhanced", "on">>}
    ELSE {<<"exporter", "url">>, <<"exporter", "auth">>,
          <<"trace_exporter", "url">>, <<"trace_exporter", "auth">>}

LocalOnly == {<<"enhanced", "on">>, <<"trace_exporter", "url">>, <<"trace_exporter", "auth">>}

\* The unit of removal: one variable, or one exporter's table.
GroupKey(leaf) == leaf[1]

AuthLeaf(tool) == IF tool = "claude" THEN <<"headers", "auth">> ELSE <<"exporter", "auth">>

\* claudeEnv, codexOTelTable
Wanted(tool, m, leaf) ==
    IF leaf \in LocalOnly /\ ~m.local THEN Absent
    ELSE CASE leaf[2] = "on" -> TRUE
           [] leaf[2] = "url" -> <<m.local, m.port>>
           [] OTHER -> m.token

\* Claude Code's hook posts to the port with the token; Codex's runs the
\* installed program, wherever it listens.
Hook(tool, m) == IF tool = "claude" THEN <<m.port, m.token>> ELSE "command"

\* The company's endpoint has no use for a hook.
HookFor(tool, m) == IF m.local THEN Hook(tool, m) ELSE Absent

Untouched(tool) ==
    [leaf |-> [l \in Leaves(tool) |-> Absent], ours |-> Absent, theirs |-> FALSE, switch |-> "none"]

\* ReadClaudeToken, ReadCodexToken: the bearer that is in the file now.
BearerIn(tool, f) == f.leaf[AuthLeaf(tool)]

-----------------------------------------------------------------------------
(* MergeClaude, MergeCodexWithExecutable and, with keepHooks, MergeCodexOTel *)

KeepsHooks(tool, keepHooks) == tool = "codex" /\ keepHooks

MergedSwitch(tool, f, m, keepHooks) ==
    IF tool = "claude" \/ keepHooks THEN f.switch
    ELSE IF m.local THEN "on" ELSE IF f.theirs THEN f.switch ELSE "none"

Merged(tool, f, m, keepHooks) ==
    [leaf |-> [l \in Leaves(tool) |-> Wanted(tool, m, l)],
     ours |-> IF KeepsHooks(tool, keepHooks) THEN f.ours ELSE HookFor(tool, m),
     theirs |-> f.theirs,
     switch |-> MergedSwitch(tool, f, m, keepHooks)]

\* captureManaged of the keys that the merge says it wrote, and for a merge
\* that kept the hooks, what saveManaged carries over from the old record.
\* Mutant: the record of the hooks is dropped with them.
RecordWithoutCarry(tool, m, keepHooks, old) ==
    [leaf |-> [l \in Leaves(tool) |-> Wanted(tool, m, l)],
     ours |-> IF KeepsHooks(tool, keepHooks) THEN Absent ELSE HookFor(tool, m),
     switch |-> tool = "codex" /\ m.local /\ ~keepHooks]

Recorded(tool, m, keepHooks, old) ==
    [leaf |-> [l \in Leaves(tool) |-> Wanted(tool, m, l)],
     ours |-> IF ~KeepsHooks(tool, keepHooks) THEN HookFor(tool, m)
              ELSE IF old = Absent THEN Absent ELSE old.ours,
     switch |-> IF KeepsHooks(tool, keepHooks) THEN old # Absent /\ old.switch
                ELSE tool = "codex" /\ m.local]

-----------------------------------------------------------------------------
(* PlanManagedRemoval *)

EntriesOf(rec) == {l \in DOMAIN rec.leaf : rec.leaf[l] # Absent}

Group(rec, g) == {l \in EntriesOf(rec) : GroupKey(l) = g}

\* One entry of the group has another value than was written.
GroupEdited(f, rec, g) == \E l \in Group(rec, g) : f.leaf[l] \notin {Absent, rec.leaf[l]}

Removable(f, rec) == {l \in EntriesOf(rec) : ~GroupEdited(f, rec, GroupKey(l))}

HookRemoved(f, rec) == rec.ours # Absent /\ f.ours = rec.ours

\* The switch goes only when no hook is left that may need it.
SwitchRemoved(f, rec) ==
    /\ rec.switch
    /\ f.switch = "on"
    /\ ~f.theirs
    /\ f.ours = Absent \/ HookRemoved(f, rec)

Removed(f, rec) ==
    [leaf |-> [l \in DOMAIN f.leaf |-> IF l \in Removable(f, rec) THEN Absent ELSE f.leaf[l]],
     ours |-> IF HookRemoved(f, rec) THEN Absent ELSE f.ours,
     theirs |-> f.theirs,
     switch |-> IF SwitchRemoved(f, rec) THEN "none" ELSE f.switch]

\* InspectManaged: every entry is there as it was written, and nothing that
\* pulsemetry writes is there without an entry.
NoDrift(f, rec) ==
    /\ \A l \in DOMAIN f.leaf : f.leaf[l] = rec.leaf[l]
    /\ f.ours = rec.ours
    /\ rec.switch => f.switch = "on"

-----------------------------------------------------------------------------
(* The user's own changes *)

EditsOf(f) ==
    {[f EXCEPT !.leaf[l] = v] : l \in {x \in DOMAIN f.leaf \cap Touched : f.leaf[x] # Absent}, v \in {Edited, Absent}}
      \cup {[f EXCEPT !.theirs = ~f.theirs]}
      \cup {[f EXCEPT !.ours = Edited] : x \in {f.ours} \ {Absent}}
=============================================================================
