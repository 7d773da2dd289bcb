---------------------------- MODULE SessionPages ----------------------------
(***************************************************************************)
(* The list of sessions, page by page (dashboard/activity/list.go), and    *)
(* the search (dashboard/search.go) while the daemon goes on storing.  A   *)
(* page continues after the last line of the one before: running sessions  *)
(* first, the oldest on top, then the ended ones, the latest on top.       *)
(***************************************************************************)
EXTENDS Integers, Sequences, FiniteSetsExt

CONSTANTS
    Listed,     \* the sessions; their numbers are in the order of their storing
    Begins,     \* the times at which one may begin
    MatchOf,    \* by session, the sources in which the text is found
    PageLimit,  \* Limit of a query
    Factor,     \* perSourceFactor
    MaxEvents   \* bound: what happens to sessions while one is asking

SearchSources == <<"title", "workspace", "file", "content">>
NoLine == [start |-> 0, ended |-> FALSE, shown |-> FALSE]

ASSUME PagesAssumption ==
    /\ Listed \subseteq Nat \ {0} /\ IsFiniteSet(Listed) /\ Begins \subseteq Nat \ {0}
    /\ MatchOf \in [Listed -> SUBSET {SearchSources[i] : i \in DOMAIN SearchSources}]
    /\ PageLimit \in Nat \ {0} /\ Factor \in Nat \ {0} /\ MaxEvents \in Nat

VARIABLES
    lines,      \* the rows of sessions
    events,     \* what has happened meanwhile
    asking,     \* the query: kind, status and since
    cursor,     \* NextCursor of the last page; of one value or none
    more,       \* HasMore, or that queries of the search are left
    times,      \* how often a session was on a page
    found,      \* the accumulator of the search
    steady      \* history: sessions to which nothing happened since the first page

pageVars == <<lines, events, asking, cursor, more, times, found, steady>>
There(s) == lines[s] # NoLine

\* What ORDER BY ... LIMIT may return: of rows that the order does not tell apart
\* any may come first.
FirstRows(limit, S, order) ==
    {rows \in SUBSET S :
        /\ Cardinality(rows) = IF Cardinality(S) < limit THEN Cardinality(S) ELSE limit
        /\ rows \X (S \ rows) \subseteq order}
-----------------------------------------------------------------------------
(* activityOrderKey *)

\* Mutant: the ids of ended sessions run the wrong way.
KeyByRisingId(s) ==
    IF lines[s].ended THEN <<1, -lines[s].start, s>> ELSE <<0, lines[s].start, s>>

KeyOf(s) == IF lines[s].ended THEN <<1, -lines[s].start, -s>> ELSE <<0, lines[s].start, s>>
CursorKey(c) == IF c.running THEN <<0, c.sort, c.id>> ELSE <<1, -c.sort, -c.id>>

KeyLess(a, b) ==
    \/ a[1] < b[1]
    \/ a[1] = b[1] /\ a[2] < b[2]
    \/ a[1] = b[1] /\ a[2] = b[2] /\ a[3] < b[3]

\* activityWhere
Fits(s) ==
    /\ There(s) /\ lines[s].shown
    /\ asking.status # "all" => lines[s].ended = (asking.status = "completed")
    /\ lines[s].start >= asking.since
    /\ asking.text => MatchOf[s] # {}

Beyond(s) == cursor = <<>> \/ KeyLess(CursorKey(cursor[1]), KeyOf(s))

PageRows == {s \in Listed : Fits(s) /\ Beyond(s)}
PageOrder == {p \in Listed \X Listed : KeyLess(KeyOf(p[1]), KeyOf(p[2]))}

-----------------------------------------------------------------------------
(* Search *)

\* The newest sessions in which one source has the text, before the dates
\* are looked at and whether or not their content may be shown.  Files and prompts
\* have times of their own.
ScanLimit == PageLimit * Factor
SourceRows(source) == {s \in Listed : There(s) /\ source \in MatchOf[s]}
SourceOrder(source) ==
    {p \in Listed \X Listed :
        source \in {"title", "workspace"} => lines[p[1]].start >= lines[p[2]].start}

\* A session that is gone when the hits are resolved stays one, begun at 0.
Hits == {s \in found : lines[s].start >= asking.since}
HitOrder ==
    {p \in Listed \X Listed :
        \/ lines[p[1]].start > lines[p[2]].start
        \/ lines[p[1]].start = lines[p[2]].start /\ p[1] < p[2]}
-----------------------------------------------------------------------------
(* Behaviours *)

SessionLine == [start : Begins, ended : BOOLEAN, shown : BOOLEAN]

PagesInit ==
    /\ lines \in [Listed -> SessionLine \cup {NoLine}]
    /\ events = 0
    /\ asking \in [kind : {"list"}, status : {"all", "running", "completed"}, since : {0, Max(Begins)},
                   text : BOOLEAN]
                  \cup [kind : {"search"}, status : {"all"}, since : {0, Max(Begins)}, text : {TRUE}]
    /\ cursor = <<>> /\ more = TRUE
    /\ times = [s \in Listed |-> 0]
    /\ found = {}
    /\ steady = Listed

ListPage ==
    /\ asking.kind = "list" /\ more
    /\ more' = (Cardinality(PageRows) > PageLimit)
    /\ \E rows \in FirstRows(PageLimit, PageRows, PageOrder) :
         /\ times' = [s \in Listed |-> IF s \in rows THEN times[s] + 1 ELSE times[s]]
         /\ \/ rows = {} /\ cursor' = <<>>
            \/ \E last \in rows :
                 /\ (rows \ {last}) \X {last} \subseteq PageOrder
                 /\ cursor' = <<[running |-> ~lines[last].ended, sort |-> lines[last].start, id |-> last]>>
    /\ UNCHANGED <<lines, events, asking, found, steady>>

\* The sources one after the other; `cursor' is how many were asked.
Asked == IF cursor = <<>> THEN 0 ELSE cursor[1]
SearchSource ==
    /\ asking.kind = "search" /\ more /\ Asked < Len(SearchSources)
    /\ cursor' = <<Asked + 1>>
    /\ LET source == SearchSources[Asked + 1] IN
         \E rows \in FirstRows(ScanLimit, SourceRows(source), SourceOrder(source)) : found' = found \cup rows
    /\ UNCHANGED <<lines, events, asking, more, times, steady>>

ResolveHits ==
    /\ asking.kind = "search" /\ more /\ Asked = Len(SearchSources)
    /\ more' = FALSE
    /\ \E rows \in FirstRows(PageLimit, Hits, HitOrder) :
         times' = [s \in Listed |-> IF s \in rows THEN 1 ELSE 0]
    /\ UNCHANGED <<lines, events, asking, cursor, found, steady>>

Happens(s) ==
    /\ events < MaxEvents /\ more /\ cursor # <<>>
    /\ events' = events + 1
    /\ steady' = steady \ {s}
    /\ UNCHANGED <<asking, cursor, more, times, found>>

\* A new session, the start of one moved earlier, its end, its resumption, a
\* first turn that may be shown, and its deletion.
Begin(s) ==
    /\ Happens(s) /\ ~There(s)
    /\ \E t \in Begins, shown \in BOOLEAN :
         lines' = [lines EXCEPT ![s] = [start |-> t, ended |-> FALSE, shown |-> shown]]

MoveStart(s) ==
    /\ Happens(s) /\ There(s)
    /\ \E t \in Begins : t < lines[s].start /\ lines' = [lines EXCEPT ![s].start = t]

EndLine(s) ==
    /\ Happens(s) /\ There(s) /\ ~lines[s].ended
    /\ lines' = [lines EXCEPT ![s].ended = TRUE]

Resume(s) ==
    /\ Happens(s) /\ There(s) /\ lines[s].ended
    /\ lines' = [lines EXCEPT ![s].ended = FALSE]

Reveal(s) ==
    /\ Happens(s) /\ There(s)
    /\ lines' = [lines EXCEPT ![s].shown = ~@]

Vanish(s) ==
    /\ Happens(s) /\ There(s) /\ lines[s].ended
    /\ lines' = [lines EXCEPT ![s] = NoLine]

PagesNext ==
    \/ ListPage \/ SearchSource \/ ResolveHits
    \/ \E s \in Listed : Begin(s) \/ MoveStart(s) \/ EndLine(s) \/ Resume(s) \/ Reveal(s) \/ Vanish(s)

PagesSpec == PagesInit /\ [][PagesNext]_pageVars
-----------------------------------------------------------------------------
(* Properties *)

\* A walk through the pages shows every session that fits the query and to
\* which nothing happens meanwhile exactly once, and none before its turn is
\* passed a second time.
WalkIsComplete ==
    asking.kind = "list" =>
      \A s \in steady :
        /\ times[s] <= 1
        /\ ~more => times[s] = IF Fits(s) THEN 1 ELSE 0
        /\ more /\ Fits(s) => (times[s] = 0 <=> Beyond(s))

\* A search returns the newest of the sessions it should: a session that
\* matches, fits the dates and does not change is a hit unless the page is
\* full or a source had more sessions than it is asked for.
SearchIsComplete ==
    asking.kind = "search" /\ ~more =>
      \A s \in steady :
        LET source(x) == {t \in Listed : x \in MatchOf[t]}
            fits == There(s) /\ MatchOf[s] # {} /\ lines[s].start >= asking.since
        IN /\ times[s] = 1 => fits
           /\ fits /\ times[s] = 0 =>
                \/ Cardinality({t \in Listed : times[t] = 1}) = PageLimit
                \/ \A x \in MatchOf[s] : Cardinality(source(x)) > ScanLimit

PagesComplete == WalkIsComplete /\ SearchIsComplete
=============================================================================
