---------------------------- MODULE SessionScreen ----------------------------
(***************************************************************************)
(* The screen of one session: activity/build.go reads the row and the      *)
(* lists of dashboard/sessions.go, the figures of session_detail.go and    *)
(* session_retry.go and the classification of classify_query.go in one     *)
(* read transaction.  The same queries also run without one: for the       *)
(* command line (Reader.Session), the figures alone (SessionMetrics), the  *)
(* classifier and the file changes of file_changes.go.                     *)
(*                                                                         *)
(* As on the Home screen the state of a reader is what each query saw.     *)
(* Costs are those of HomeScreen; of a call they are left out here.        *)
(***************************************************************************)
EXTENDS Classification

CONSTANTS
    Databases,      \* the databases a reader may find, records of sets of rows
    Arrivals,       \* the rows the daemon may store while it reads
    TurnLimit,      \* TurnLimit of a query of figures
    ToolLimit,      \* maxToolEvents
    TimelineLimit,  \* maxFileTimeline
    MaxStores       \* bound: the writes of the daemon while a screen is read

ASSUME ScreenAssumption ==
    /\ TurnLimit \in Nat \ {0} /\ ToolLimit \in Nat \ {0} /\ TimelineLimit \in Nat \ {0}
    /\ MaxStores \in Nat

VARIABLES
    sessionRows,    \* the rows of the session; none of its vendor when it is gone
    stores,
    screen,     \* which of the readers it is
    read        \* what its queries saw, in their order

screenVars == <<sessionRows, stores, screen, read>>

NoRows == [vendor |-> "none", turns |-> {}, llm |-> {}, tools |-> {}, files |-> {}, events |-> {}]
-----------------------------------------------------------------------------
(* Readers *)

Listing == <<"row", "files", "tools", "mcp">>
Figures == <<"head", "turns", "llm", "toolFigures", "retries">>
Classes == <<"classTurns", "classTools", "classFiles", "classEvents">>
Reads == [detail |-> Listing \o Figures \o Classes,
          session |-> Listing, metrics |-> Figures, classifier |-> Classes,
          changes |-> <<"exists", "entries">>]

PlaceOf(q) == CHOOSE i \in DOMAIN Reads[screen] : Reads[screen][i] = q
Has(q) == q \in Range(Reads[screen])
Answer(q) == read[PlaceOf(q)]

\* The first query of a reader looks for the session, and the rest are not
\* asked when it is gone; the classifier asks for no session.
Gone == read # <<>> /\ screen # "classifier" /\ read[1].vendor = "none"
FullyRead == Gone \/ Len(read) = Len(Reads[screen])
-----------------------------------------------------------------------------
(* Rows *)

VirtualTurn(t) == t.index = <<>>
PromptEligible(db, t) == ~VirtualTurn(t) /\ (db.vendor = "codex" => t.label = "client")
CallsOf(db, t) == {c \in db.tools : c.turn = t}
FilesOf(db, c) == {f \in db.files : f.tool = c.id}
Some(S, f(_)) == MapThenSumSet(LAMBDA x : IF f(x) = <<>> THEN 0 ELSE f(x)[1], S)
AnyOf(S, f(_)) == \E x \in S : f(x) # <<>>
LinesAdded(f) == f.added
LinesRemoved(f) == f.removed

\* SessionColumns
SessionRow ==
    LET db == Answer("row")
    IN [tokens |-> MapThenSumSet(LAMBDA c : c.tokens, db.llm), requests |-> Cardinality(db.llm),
        calls |-> Cardinality(db.tools), errors |-> Cardinality({c \in db.tools : Failed(c)}),
        rejects |-> Cardinality({c \in db.tools : Rejected(c)}),
        prompts |-> Cardinality({t \in db.turns : PromptEligible(db, t)}),
        added |-> Some(db.files, LinesAdded), removed |-> Some(db.files, LinesRemoved)]

\* sessionFiles: a sum over nothing but unknown numbers is unknown.
FileRows ==
    LET db == Answer("files")
        of(p) == {f \in db.files : f.path = p}
        sum(S, n(_)) == IF AnyOf(S, n) THEN <<Some(S, n)>> ELSE <<>>
    IN {[path |-> p, edits |-> Cardinality(of(p)), added |-> sum(of(p), LinesAdded),
         removed |-> sum(of(p), LinesRemoved)] : p \in {f.path : f \in db.files}}

ToolRows ==
    LET ordered == SetToSortSeq(Answer("tools").tools,
                                LAMBDA c, d : c.at < d.at \/ (c.at = d.at /\ c.id < d.id))
    IN SubSeq(ordered, 1, Min({ToolLimit, Len(ordered)}))
ToolsTruncated == Cardinality(Answer("tools").tools) > ToolLimit

MCPCalls == {c \in Answer("mcp").tools : c.mcp}
-----------------------------------------------------------------------------
(* Figures by turn: a call of a turn the reader has not seen makes one up *)

\* retriesInPayload: the largest of what an event says in its several keys.
RetriesIn(e) == Max({0} \cup {CASE r.key = "attempt" -> r.n - 1
                                [] r.key = "count" -> r.n
                                [] r.key = "flag" -> 1 : r \in e.retries})

SeenTurns == {t.id : t \in Answer("turns").turns}
IndexedTurns ==
    SeenTurns \cup {c.turn : c \in Answer("llm").llm \cup Answer("toolFigures").tools}
              \cup {e.turn : e \in {x \in Answer("retries").events : RetriesIn(x) > 0}}

TurnFigures(t) ==
    [tokens |-> MapThenSumSet(LAMBDA c : c.tokens, {c \in Answer("llm").llm : c.turn = t}),
     requests |-> Cardinality({c \in Answer("llm").llm : c.turn = t}),
     calls |-> Cardinality(CallsOf(Answer("toolFigures"), t)),
     errors |-> Cardinality({c \in CallsOf(Answer("toolFigures"), t) : Failed(c)}),
     rejects |-> Cardinality({c \in CallsOf(Answer("toolFigures"), t) : Rejected(c)}),
     retries |-> MapThenSumSet(RetriesIn, {e \in Answer("retries").events : e.turn = t})]

Figure == {"tokens", "requests", "calls", "errors", "rejects", "retries"}
SumOfTurns(T) == [f \in Figure |-> MapThenSumSet(LAMBDA t : TurnFigures(t)[f], T)]

\* foldTurns, over all turns; the list has the eligible ones of Codex.
Totals == SumOfTurns(IndexedTurns)
PromptTurns == {t \in Answer("turns").turns : PromptEligible(Answer("turns"), t)}
Unindexed(t) == t \notin {u.id : u \in {x \in Answer("turns").turns : ~VirtualTurn(x)}}
IndexOf(t) == (CHOOSE u \in Answer("turns").turns : u.id = t).index[1]
ListedBefore(t, u) ==
    CASE Unindexed(t) # Unindexed(u) -> Unindexed(u)
      [] ~Unindexed(t) /\ ~Unindexed(u) /\ IndexOf(t) # IndexOf(u) -> IndexOf(t) < IndexOf(u)
      [] OTHER -> t < u
Listable == IF Answer("head").vendor = "codex" THEN {t.id : t \in PromptTurns} ELSE IndexedTurns
ListedTurns ==
    LET ordered == SetToSortSeq(Listable, ListedBefore)
    IN SubSeq(ordered, 1, Min({TurnLimit, Len(ordered)}))
TurnsTruncated == Cardinality(Listable) > TurnLimit
-----------------------------------------------------------------------------
(* loadTurnSignals: what belongs to a turn or a call not seen is left out *)

LastSeen(db, t) ==
    Max({0} \cup {e.at : e \in {x \in db.events : x.turn = t.id}} \cup {c.at : c \in CallsOf(db, t.id)})

Signals ==
    {[id |-> t.id, index |-> t.index[1], start |-> t.start, end |-> 0,
      seen |-> LastSeen(Answer("classTurns"), t),
      calls |-> {[tool |-> c.kind, target |-> c.target, success |-> c.success, error |-> c.error,
                  decision |-> c.decision, mcp |-> c.mcp, id |-> c.id,
                  files |-> FilesOf(Answer("classFiles"), c)] : c \in CallsOf(Answer("classTools"), t.id)},
      errorEvents |-> {e \in Answer("classEvents").events : e.turn = t.id /\ e.error}]
     : t \in {u \in Answer("classTurns").turns : ~VirtualTurn(u)}}

Class == ClassifyTurns(Signals)
-----------------------------------------------------------------------------
(* foldFileChanges *)

Entries ==
    LET db == Answer("entries")
        at(f) == (CHOOSE c \in db.tools : c.id = f.tool).at
    IN SetToSortSeq(db.files, LAMBDA f, g : \/ at(f) < at(g)
                                            \/ at(f) = at(g) /\ f.tool < g.tool
                                            \/ f.tool = g.tool /\ f.id < g.id)

\* A LineCount is a sequence of at most one number.
Accumulate(sum, v) == IF v = <<>> THEN sum ELSE <<(IF sum = <<>> THEN 0 ELSE sum[1]) + v[1]>>

Fold(s) ==
    [changes |-> Len(s), last |-> IF s = <<>> THEN "none" ELSE Last(s).operation,
     added |-> FoldLeft(LAMBDA n, f : Accumulate(n, f.added), <<>>, s),
     removed |-> FoldLeft(LAMBDA n, f : Accumulate(n, f.removed), <<>>, s),
     unobserved |-> Len(SelectSeq(s, LAMBDA f : f.added = <<>>)),
     operations |-> [o \in {"create", "modify", "delete", "rename"} |->
                       Len(SelectSeq(s, LAMBDA f : f.operation = o))],
     from |-> {f.from[1] : f \in {x \in Range(s) : x.operation = "rename" /\ x.from # <<>>}},
     timeline |-> SubSeq(s, 1, Min({TimelineLimit, Len(s)}))]

ChangedPaths == {f.path : f \in Range(Entries)}
FileSummary(p) == Fold(SelectSeq(Entries, LAMBDA f : f.path = p))
ChangeTotals == Fold(Entries)
-----------------------------------------------------------------------------
(* Behaviours *)

ScreenInit ==
    /\ sessionRows \in Databases
    /\ stores = 0
    /\ screen \in DOMAIN Reads
    /\ read = <<>>

StoreWhileRead ==
    /\ stores < MaxStores /\ read # <<>> /\ ~FullyRead
    /\ stores' = stores + 1
    /\ UNCHANGED <<screen, read>>

\* A row is stored in the session, with the turn or the call it belongs to.
StoreRow ==
    /\ StoreWhileRead /\ sessionRows.vendor # "none"
    /\ \E a \in Arrivals :
         /\ a.row \notin sessionRows[a.table]
         /\ \A r \in sessionRows[a.table] : r.id # a.row.id
         /\ a.table = "files" => \E c \in sessionRows.tools : c.id = a.row.tool
         /\ a.table \in {"llm", "tools", "events"} => \E t \in sessionRows.turns : t.id = a.row.turn
         /\ sessionRows' = [sessionRows EXCEPT ![a.table] = @ \cup {a.row}]

\* The result of a call arrives and is merged into its row.
StoreResult ==
    /\ StoreWhileRead
    /\ \E c \in sessionRows.tools, ok \in BOOLEAN :
         /\ c.success = <<>>
         /\ sessionRows' = [sessionRows EXCEPT !.tools = (@ \ {c}) \cup {[c EXCEPT !.success = <<ok>>]}]

\* A turn of Codex is judged.
JudgeOnScreen ==
    /\ StoreWhileRead /\ sessionRows.vendor = "codex"
    /\ \E t \in sessionRows.turns, l \in {"none", "client", "internal"} :
         /\ t.label # l
         /\ sessionRows' = [sessionRows EXCEPT !.turns = (@ \ {t}) \cup {[t EXCEPT !.label = l]}]

\* Prune deletes the session with all of its rows.
PruneOnScreen ==
    /\ StoreWhileRead /\ sessionRows.vendor # "none"
    /\ sessionRows' = NoRows

\* ReadSnapshot: all queries see what the first one saw.
InSnapshot == IF screen = "detail" /\ read # <<>> THEN read[1] ELSE sessionRows

Query ==
    /\ ~FullyRead
    /\ read' = Append(read, InSnapshot)
    /\ UNCHANGED <<sessionRows, stores, screen>>

ScreenNext == Query \/ StoreRow \/ StoreResult \/ JudgeOnScreen \/ PruneOnScreen
ScreenSpec == ScreenInit /\ [][ScreenNext]_screenVars
-----------------------------------------------------------------------------
(* Properties *)

\* The lists are those of the row, and the figures are the row's.
ListsAgree ==
    /\ ToolsTruncated \/ Len(ToolRows) = SessionRow.calls
    /\ ~ToolsTruncated => MCPCalls \subseteq Range(ToolRows)
    /\ MapThenSumSet(LAMBDA f : IF f.added = <<>> THEN 0 ELSE f.added[1], FileRows) = SessionRow.added
    /\ MapThenSumSet(LAMBDA f : IF f.removed = <<>> THEN 0 ELSE f.removed[1], FileRows) = SessionRow.removed
    /\ \A f \in {"tokens", "requests", "calls", "errors", "rejects"} : SessionRow[f] = Totals[f]
    /\ SessionRow.prompts = Cardinality(PromptTurns)

\* A turn is judged by what its own line shows: a failure makes it debugging,
\* also when the call was rejected, and a call that left a changed file makes
\* it at least implementation.
ClassesAgree(class) ==
    /\ {class.turns[i].id : i \in DOMAIN class.turns} = {t \in IndexedTurns : ~Unindexed(t)}
    /\ \A i \in DOMAIN class.turns :
         LET c == class.turns[i]
             changed == \E r \in CallsOf(Answer("classTools"), c.id) :
                          ~Rejected(r) /\ FilesOf(Answer("files"), r) # {}
         IN /\ TurnFigures(c.id).errors > 0 => c.work = "debugging"
            /\ changed => c.work \in {"debugging", "implementation"}
            /\ TurnFigures(c.id).calls = 0 => c.work \in {"debugging", "unknown"}

\* The list of turns has the totals unless it is cut or leaves turns out.
TurnsMakeTotals ==
    LET listed == SumOfTurns(Range(ListedTurns))
    IN /\ Answer("head").vendor # "codex" /\ ~TurnsTruncated => listed = Totals
       /\ \A f \in Figure : listed[f] <= Totals[f]
       /\ Answer("head").vendor = "codex" => \A t \in Range(ListedTurns) : ~Unindexed(t)

\* The summaries of the files make up the totals, a number of lines is known
\* when one change has one, and changes without a number are counted.
SummariesMakeTotals ==
    LET total == ChangeTotals
        sum(f(_)) == MapThenSumSet(LAMBDA p : f(FileSummary(p)), ChangedPaths)
        lines(v) == IF v = <<>> THEN 0 ELSE v[1]
    IN /\ total.changes = sum(LAMBDA s : s.changes)
       /\ lines(total.added) = sum(LAMBDA s : lines(s.added))
       /\ total.unobserved = sum(LAMBDA s : s.unobserved)
       /\ total.changes = MapThenSumSet(LAMBDA o : total.operations[o], DOMAIN total.operations)
       /\ \A p \in ChangedPaths :
            LET s == FileSummary(p) IN
            /\ s.added = <<>> <=> s.unobserved = s.changes
            /\ Len(s.timeline) < s.changes \/ Last(s.timeline).operation = s.last

\* What one screen shows about a session agrees in all its parts, whatever
\* the daemon stores meanwhile, and each reader's answer is whole in itself.
ScreenAgrees ==
    FullyRead /\ ~Gone =>
      /\ screen = "detail" => ListsAgree
      /\ Has("turns") => TurnsMakeTotals
      /\ Has("classTurns") => \A class \in {Class} :
           /\ Consistent(class) /\ Disjoint(class)
           /\ screen = "detail" => ClassesAgree(class)
      /\ Has("entries") => SummariesMakeTotals
=============================================================================
