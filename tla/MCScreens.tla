----------------------------- MODULE MCScreens ------------------------------
(* Instances of the screens: zones, sessions, prices and rows for TLC *)
EXTENDS Calendar, HomeScreen, SessionScreen, SessionPages

\* One zone far in the east, UTC, and zones whose clocks are moved forward or
\* back on date 5: at seven, at one, at midnight and an hour before it.
Midday == 5 * DayHours
UTC == [before |-> 0, after |-> 0, at |-> 0]
Clocks ==
    {UTC, [before |-> 9, after |-> 9, at |-> 0],
     [before |-> -5, after |-> -4, at |-> Midday + 7], [before |-> -4, after |-> -5, at |-> Midday + 6],
     [before |-> 0, after |-> 1, at |-> Midday + 1], [before |-> 1, after |-> 0, at |-> Midday + 1],
     [before |-> 2, after |-> 3, at |-> Midday], [before |-> 3, after |-> 2, at |-> Midday - 3],
     [before |-> -4, after |-> -5, at |-> Midday + 5]}

\* What the theorem about their windows asks of the zones.
ASSUME ClocksBeginAtMidnight == AllBeginAtMidnight

\* One session of each vendor; calls of Codex are priced by the table, which lacks
\* the one of its models with more tokens, those of Claude Code report their cost.
AgentOf == [s \in {1, 2} |-> IF s = 1 THEN "codex" ELSE "claude_code"]
PriceTable == [m \in {2} |-> [input |-> 1, output |-> 3, read |-> 1, write |-> 0]]
CallUsages ==
    <<{[model |-> 2, input |-> <<2>>, output |-> <<1>>, read |-> <<>>, write |-> <<>>, reported |-> <<>>],
       [model |-> 1, input |-> <<4>>, output |-> <<>>, read |-> <<>>, write |-> <<>>, reported |-> <<>>]},
      {[model |-> 2, input |-> <<1>>, output |-> <<>>, read |-> <<>>, write |-> <<3>>, reported |-> <<7>>]}>>
Cuts == <<1, 5, 9>>

\* The rows of one session: a turn without index is the virtual one.
TurnRow(id, index, start, label) == [id |-> id, index |-> index, start |-> start, label |-> label]
ToolLine(id, turn, at, kind, target, success, decision, error, mcp) ==
    [id |-> id, turn |-> turn, at |-> at, kind |-> kind, target |-> target, success |-> success,
     decision |-> decision, error |-> error, mcp |-> mcp]
ChangeRow(id, tool, path, op, added, removed, from) ==
    [id |-> id, tool |-> tool, path |-> path, operation |-> op, added |-> added,
     removed |-> removed, from |-> from]
EventRow(id, turn, at, error, retries) ==
    [id |-> id, turn |-> turn, at |-> at, error |-> error, retries |-> retries]
LLMRow(id, turn, tokens) == [id |-> id, turn |-> turn, tokens |-> tokens]

TurnSets ==
    {{TurnRow(1, <<1>>, 10, "client")},
     {TurnRow(1, <<1>>, 10, "client"), TurnRow(2, <<2>>, 20, "none")},
     {TurnRow(1, <<1>>, 10, "none"), TurnRow(2, <<2>>, 12, "client"), TurnRow(3, <<>>, 0, "none")}}
ToolLines ==
    {ToolLine(1, 1, 11, "write", "none", <<TRUE>>, "accept", FALSE, FALSE),
     ToolLine(2, 1, 15, "shell", "check", <<>>, "none", FALSE, FALSE),
     ToolLine(3, 2, 21, "other", "none", <<FALSE>>, "reject", TRUE, TRUE),
     ToolLine(4, 2, 22, "read", "none", <<TRUE>>, "none", FALSE, FALSE)}
ChangeRows ==
    {ChangeRow(1, 1, "a", "modify", <<3>>, <<1>>, <<>>), ChangeRow(2, 1, "a", "rename", <<>>, <<>>, <<"b">>),
     ChangeRow(3, 2, "b", "create", <<2>>, <<>>, <<>>)}
EventRows ==
    {EventRow(1, 1, 12, TRUE, {}),
     EventRow(2, 2, 25, FALSE, {[key |-> "attempt", n |-> 3], [key |-> "count", n |-> 2]})}
LLMRows == {LLMRow(1, 1, 5), LLMRow(2, 2, 7)}

\* Every call belongs to a turn and every change to a call.
WellStored(db) ==
    /\ \A r \in db.llm \cup db.tools \cup db.events : \E t \in db.turns : t.id = r.turn
    /\ \A f \in db.files : \E c \in db.tools : c.id = f.tool
SessionDatabases ==
    {db \in [vendor : {"codex", "claude"}, turns : TurnSets, llm : {LLMRows, {LLMRow(1, 1, 5)}},
             tools : {t \in SUBSET ToolLines : Cardinality(t) \in {1, 4}},
             files : {{}, {f \in ChangeRows : f.id # 1}, ChangeRows}, events : {EventRows}] :
       WellStored(db)}
LateRows ==
    {[table |-> "tools", row |-> ToolLine(5, 1, 16, "read", "none", <<FALSE>>, "none", FALSE, TRUE)],
     [table |-> "turns", row |-> TurnRow(4, <<4>>, 30, "none")],
     [table |-> "files", row |-> ChangeRow(4, 1, "c", "modify", <<1>>, <<1>>, <<>>)],
     [table |-> "llm", row |-> LLMRow(3, 1, 2)]}

\* Session 1 is found by two sources, session 2 by none; one source has more sessions
\* than it is asked for.
FoundBy == <<{"title", "content"}, {}, {"content"}>>
AllSessions == [kind |-> "list", status |-> "all", since |-> 0, text |-> FALSE]
=============================================================================
