--------------------------- MODULE SessionFigures ---------------------------
(***************************************************************************)
(* How long the agent was active in a session: session/metric.go and       *)
(* event/cumulative.go turn the points of a counter, which the vendor      *)
(* exports cumulatively or as differences, into a total of the session,    *)
(* and store/resolve.go keeps the highest total as active_time_sec.  The   *)
(* vendor's process may be restarted, and so may the daemon.               *)
(***************************************************************************)
EXTENDS Integers, Sequences, FiniteSetsExt

CONSTANTS
    Spells,     \* seconds the agent may be active between two exports
    MaxPoints,  \* bound: points exported
    MaxPeriods, \* bound: processes of the vendor in the session
    MaxStops    \* bound: stops of the daemon, and sessions it forgets

ASSUME FigureAssumption ==
    Spells \subseteq Nat /\ {MaxPoints, MaxPeriods, MaxStops} \subseteq Nat /\ MaxPeriods > 0

VARIABLES
    temporality, \* Event.Temporality, and whether points have a StartTS
    instant,     \* orders the process starts and the exports; 0 is no time
    period,      \* the vendor's process, by number
    began,       \* when it started its counter
    value,       \* what its counter holds
    earned,      \* seconds the agent was active, in all processes
    points,      \* how many were exported
    onWay,       \* points exported and not received
    watchFrom,   \* Assembler.watchFrom: TS of the first event it saw, or 0
    series,      \* state.cumulative of the counter
    active,      \* state.activeSeconds of the session, or NoState
    column,      \* sessions.active_time_sec; 0 is NULL
    stops,       \* stops and forgotten sessions so far
    heard,       \* history: points the session's state has seen
    skipped      \* history: the value of the first of them, where not counted

figureVars == <<temporality, instant, period, began, value, earned, points, onWay,
                watchFrom, series, active, column, stops, heard, skipped>>
exporterVars == <<temporality, instant, period, began, value, earned, points>>

NoState == -1
Unheard == [known |-> FALSE, value |-> 0, start |-> 0]
Seen(p) == [known |-> TRUE, value |-> p.value, start |-> p.start]

Dated == temporality = "cumulative"

FigureInit ==
    /\ temporality \in {"delta", "cumulative", "undated", "unspecified"}
    /\ instant = 1
    /\ period = 1
    /\ began = 1
    /\ value = 0
    /\ earned = 0
    /\ points = 0
    /\ onWay = {}
    /\ watchFrom = 0
    /\ series = Unheard
    /\ active = NoState
    /\ column = 0
    /\ stops = 0
    /\ heard = {}
    /\ skipped = 0

-----------------------------------------------------------------------------
(* The vendor *)

\* The agent was active: a point with the counter's value, or with what is new.
Export(spell) ==
    /\ points < MaxPoints
    /\ points' = points + 1
    /\ instant' = instant + 1
    /\ value' = value + spell
    /\ earned' = earned + spell
    /\ onWay' = onWay \cup
         {[n |-> points', ts |-> instant', period |-> period,
           start |-> IF temporality = "undated" THEN 0 ELSE began,
           value |-> IF temporality = "delta" THEN spell ELSE value']}
    /\ UNCHANGED <<temporality, period, began, watchFrom, series, active, column, stops, heard, skipped>>

\* The user resumes the session in another process, whose counter starts at
\* zero.  What the old one sent has arrived by then, or never will.
StartAgain ==
    /\ period < MaxPeriods
    /\ points < MaxPoints
    /\ period' = period + 1
    /\ instant' = instant + 1
    /\ began' = instant'
    /\ value' = 0
    /\ onWay' = {}
    /\ UNCHANGED <<temporality, earned, points, watchFrom, series, active, column, stops, heard, skipped>>

-----------------------------------------------------------------------------
(* The session's state *)

\* The assembler sees its first event at watchFrom, and a session's state is made
\* by its first.
From(p) == IF watchFrom = 0 THEN p.ts ELSE watchFrom

StartedWhileWatching(p) == p.start > 0 /\ p.start >= From(p)

\* Mutant: in one period, a value that goes back counts as a restart.
StepByValue(s, p) ==
    CASE ~s.known -> [delta |-> IF StartedWhileWatching(p) THEN p.value ELSE 0, next |-> Seen(p)]
      [] s.known /\ p.start > s.start -> [delta |-> p.value, next |-> Seen(p)]
      [] s.known /\ p.start <= s.start /\ p.value < s.value -> [delta |-> p.value, next |-> Seen(p)]
      [] s.known /\ p.start <= s.start /\ p.value >= s.value -> [delta |-> p.value - s.value, next |-> Seen(p)]

\* CumulativeState.Step: what a point adds, and what is known after it.
Step(s, p) ==
    LET reset == p.start > 0 /\ s.start > 0 /\ p.start > s.start
        late == p.start > 0 /\ p.start = s.start /\ p.value < s.value
    IN  CASE ~s.known -> [delta |-> IF StartedWhileWatching(p) THEN p.value ELSE 0, next |-> Seen(p)]
          [] s.known /\ reset -> [delta |-> p.value, next |-> Seen(p)]
          [] s.known /\ ~reset /\ late -> [delta |-> 0, next |-> s]
          [] s.known /\ ~reset /\ ~late ->
               [delta |-> IF p.value < s.value THEN p.value ELSE p.value - s.value, next |-> Seen(p)]

\* metricDelta: the vendor says how its points are to be read; one that does not
\* say is not counted.
MetricDelta(p) ==
    CASE temporality = "delta" -> [delta |-> p.value, next |-> series]
      [] temporality \in {"cumulative", "undated"} -> Step(series, p)
      [] temporality = "unspecified" -> [delta |-> 0, next |-> series]

Total == IF active = NoState THEN 0 ELSE active

Add(p) ==
    /\ onWay' = onWay \ {p}
    /\ watchFrom' = From(p)
    /\ series' = MetricDelta(p).next
    /\ active' = Total + MetricDelta(p).delta
    /\ heard' = heard \cup {p}
    /\ skipped' = IF heard = {} /\ ~StartedWhileWatching(p) THEN p.value ELSE skipped
    /\ UNCHANGED <<exporterVars, column, stops>>

\* Any other event makes the assembler watch before the counter is heard of.
FirstEvent ==
    /\ watchFrom = 0
    /\ instant' = instant + 1
    /\ watchFrom' = instant'
    /\ UNCHANGED <<temporality, period, began, value, earned, points, onWay, series, active, column, stops, heard, skipped>>

\* upsertSessionSQL: the column never falls, and a total of zero leaves it alone.
Raised(old, new) == IF new > old THEN new ELSE old

Snapshot ==
    /\ active # NoState
    /\ column' = Raised(column, Total)
    /\ UNCHANGED <<exporterVars, onWay, watchFrom, series, active, stops, heard, skipped>>

StateGone ==
    /\ series' = Unheard
    /\ active' = NoState
    /\ heard' = {}
    /\ skipped' = 0
    /\ stops' = stops + 1

\* closeSessions: the snapshot is stored, then the session is pruned.
Close ==
    /\ stops < MaxStops
    /\ active # NoState
    /\ column' = Raised(column, Total)
    /\ StateGone
    /\ UNCHANGED <<exporterVars, onWay, watchFrom>>

\* The daemon dies: what was not in a snapshot is lost.
Stop ==
    /\ stops < MaxStops
    /\ watchFrom' = 0
    /\ StateGone
    /\ UNCHANGED <<exporterVars, onWay, column>>

FigureNext ==
    \/ \E spell \in Spells : Export(spell)
    \/ StartAgain
    \/ \E p \in onWay : Add(p)
    \/ FirstEvent
    \/ Snapshot
    \/ Close
    \/ Stop

FigureSpec == FigureInit /\ [][FigureNext]_figureVars

-----------------------------------------------------------------------------
(* Properties *)

\* The highest value in a set of points, or 0 if there are none.
Highest(S) == IF S = {} THEN 0 ELSE Max({p.value : p \in S})

OfPeriods(S) == [k \in 1 .. MaxPeriods |-> Highest({p \in S : p.period = k})]
OfPoints(S) == [k \in 1 .. MaxPoints |-> Highest({p \in S : p.n = k})]

Summed(s) ==
    LET sum[k \in 0 .. Len(s)] == IF k = 0 THEN 0 ELSE sum[k - 1] + s[k]
    IN  sum[Len(s)]

\* The total is what the points it has seen say, in whatever order those of one
\* process came: the sum of the highest of each process, less what the first one
\* had counted before the daemon watched.
TotalIsHeard ==
    /\ Dated => Total = Summed(OfPeriods(heard)) - skipped
    /\ temporality = "delta" => Total = Summed(OfPoints(heard))

\* The total is that of the points, and no second is counted twice, though the
\* daemon's totals start from zero and the counter is heard from the beginning
\* again; and what is stored stays.
FiguresAreTrue ==
    [][/\ TotalIsHeard'
       /\ column' >= column /\ (temporality # "undated" => column' <= earned)]_figureVars
=============================================================================
