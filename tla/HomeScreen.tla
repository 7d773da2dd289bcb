----------------------------- MODULE HomeScreen -----------------------------
(***************************************************************************)
(* The Home screen of internal/dashboard: one answer put together from     *)
(* many queries while the daemon goes on storing.  Builder.Snapshot        *)
(* (home/build.go) runs them in one read transaction, Reader.HomeBreakdown *)
(* (home_breakdown.go) one by one.                                         *)
(*                                                                         *)
(* An answer is a function of the databases its queries saw, so the state  *)
(* of a reader is what each query saw.  The sources of tool calls and file *)
(* changes in aggregate.go have the form of the source of calls and are    *)
(* left out.  Times are half hours, so that a zone may be half an hour off.*)
(***************************************************************************)
EXTENDS Integers, Sequences, FiniteSetsExt, Functions

CONSTANTS
    Session, VendorOf,  \* the sessions and their vendors
    Starts, CallTimes,  \* when a session may begin and a call be made
    Usages,             \* what a call of a session may report, records as Estimate reads them
    Rates,              \* the price table: a function of the known models
    Boundary,           \* the boundaries of the windows asked for
    RecentLimit,        \* sessions in the list of recent ones
    ModelLimit,         \* models in the list of a vendor
    FirstCalls,         \* calls stored before the first query
    MaxWrites           \* writes of the daemon while the screen is read

Vendor == <<"claude_code", "codex">>
\* Figures are never negative in the store; a row of the price table has a
\* rate for each of them.  A model is the place of its canonical name among
\* the names.
Missable(S) == {o \in Seq(S) : Len(o) <= 1}
ASSUME HomeAssumption ==
    /\ IsFiniteSet(Session) /\ Session \subseteq Int
    /\ VendorOf \in [Session -> Range(Vendor)]
    /\ Starts \subseteq Nat /\ CallTimes \subseteq Int
    /\ DOMAIN Usages = Session
    /\ \A s \in Session : \A u \in Usages[s] :
         /\ {u.input, u.output, u.read, u.write} \subseteq Missable(Nat)
         /\ u.reported \in Missable(Int) /\ u.model \in Int
    /\ \A m \in DOMAIN Rates :
         {Rates[m].input, Rates[m].output, Rates[m].read, Rates[m].write} \subseteq Int
    /\ Boundary \in Seq(Int) /\ Len(Boundary) > 1
    /\ RecentLimit \in Nat /\ ModelLimit \in Nat \ {0} /\ FirstCalls \in Nat

NoSession == [start |-> -1, ended |-> TRUE, label |-> "none"]
Judged == {"none", "client", "internal"}

VARIABLES
    sessions,   \* the rows: when begun, whether ended, how its turn is judged
    calls,      \* the rows of llm_calls
    writes,
    surface,    \* "snapshot" or "breakdown"
    saw         \* the databases the queries saw, in their order

homeVars == <<sessions, calls, writes, surface, saw>>
Db == [sessions |-> sessions, calls |-> calls]
-----------------------------------------------------------------------------
(* internal/pricing: what a call costs.  A value that may be missing is a  *)
(* sequence of at most one.                                                *)

TokenFields == {"input", "output", "read", "write"}

Or0(o) == IF o = <<>> THEN 0 ELSE o[1]
Positive(o) == IF Or0(o) > 0 THEN Or0(o) ELSE 0

Unavailable == [source |-> "unavailable", nano |-> 0]

RateMissing(u, rate) ==
    \E f \in TokenFields : Positive(u[f]) > 0 /\ rate[f] <= 0

Estimate(u) ==
    IF u.reported # <<>> /\ Or0(u.reported) >= 0
    THEN [source |-> "reported", nano |-> Or0(u.reported)]
    ELSE IF \/ u.model \notin DOMAIN Rates
            \/ \A f \in TokenFields : u[f] = <<>>
            \/ RateMissing(u, Rates[u.model])
    THEN Unavailable
    ELSE [source |-> "estimated",
          nano |-> SumFunction([f \in TokenFields |-> Positive(u[f]) * Rates[u.model][f]])]

Countable(u) == Estimate(u).source \in {"reported", "estimated"}
Tokens(u) == Or0(u.input) + Or0(u.output)
-----------------------------------------------------------------------------
(* Rows and their places *)

NWindows == Len(Boundary) - 1
InRange(t) == Boundary[1] <= t /\ t < Boundary[NWindows + 1]
HourOf(t) == (t \div 2) * 2

\* The first window that ends after t, the last one if none does.
WindowOf(t) ==
    IF t >= Boundary[NWindows + 1] THEN NWindows
    ELSE Min({i \in 1..NWindows : Boundary[i + 1] > t})

Present(db) == {s \in Session : db.sessions[s] # NoSession}
MayShow(db, s) == VendorOf[s] = "codex" => db.sessions[s].label = "client"

CallsInRange(db) == {c \in db.calls : InRange(c.at)}
BegunInRange(db) == {s \in Present(db) : InRange(db.sessions[s].start)}
Shown(db) == {s \in BegunInRange(db) : MayShow(db, s)}
PromptsInRange(db) == {s \in BegunInRange(db) : MayShow(db, s)}

OfVendor(S, v) == {c \in S : VendorOf[c.session] = v}
TokensOf(S) == SumFunction([c \in S |-> Tokens(c.usage)])
CostOf(S) == SumFunction([c \in {d \in S : Countable(d.usage)} |-> Estimate(c.usage).nano])
-----------------------------------------------------------------------------
(* What the queries of a surface saw *)

Queries == [snapshot |-> <<"calls", "prompts", "starts", "costs", "counts", "codex",
                           "recent", "usage", "agents", "running">>,
            breakdown |-> <<"calls", "prompts", "starts", "costs">>]

Answered == Len(saw) = Len(Queries[surface])
Saw(q) == saw[CHOOSE i \in 1..Len(saw) : Queries[surface][i] = q]

\* usageAcc: the aggregate by vendor and hour, and the costs call by call.
AggCalls(v) == OfVendor(CallsInRange(Saw("calls")), v)
AggTotal(v) == TokensOf(AggCalls(v))
AggWindow(v, i) == TokensOf({c \in AggCalls(v) : WindowOf(HourOf(c.at)) = i})
\* Mutant: the scan of the costs has no range.
CostCallsOfAllTime(v) == OfVendor(Saw("costs").calls, v)

CostCalls(v) == OfVendor(CallsInRange(Saw("costs")), v)
CostWindow(v, i) == CostOf({c \in CostCalls(v) : WindowOf(c.at) = i})

ListedVendors ==
    {v \in Range(Vendor) :
       \/ AggCalls(v) # {} \/ CostCalls(v) # {}
       \/ \E s \in PromptsInRange(Saw("prompts")) \cup BegunInRange(Saw("starts")) : VendorOf[s] = v}

\* modelRows: the models with the highest costs, of several those with the
\* most tokens, the first names first.
ModelsOf(v) == {c.usage.model : c \in CostCalls(v)}
ModelCalls(v, m) == {c \in CostCalls(v) : c.usage.model = m}
ModelTokens(v, m) == TokensOf(ModelCalls(v, m))
ModelCost(v, m) == CostOf(ModelCalls(v, m))
ModelBefore(v, m, n) ==
    \/ ModelCost(v, m) > ModelCost(v, n)
    \/ /\ ModelCost(v, m) = ModelCost(v, n)
       /\ \/ ModelTokens(v, m) > ModelTokens(v, n)
          \/ ModelTokens(v, m) = ModelTokens(v, n) /\ m < n
ModelRows(v) ==
    {m \in ModelsOf(v) : Cardinality({n \in ModelsOf(v) : ModelBefore(v, n, m)}) < ModelLimit}
ModelsTruncated(v) == Cardinality(ModelsOf(v)) > Cardinality(ModelRows(v))

WindowTokens(i) == SumFunction([v \in ListedVendors |-> AggWindow(v, i)])
WindowCost(i) == SumFunction([v \in ListedVendors |-> CostWindow(v, i)])

\* peakOf: the busiest window, the earliest of several.
Busy == {i \in 1..NWindows : WindowTokens(i) > 0 \/ WindowCost(i) > 0}
BusierThan(i, j) ==
    \/ WindowTokens(i) > WindowTokens(j)
    \/ WindowTokens(i) = WindowTokens(j) /\ WindowCost(i) > WindowCost(j)
Peak == IF Busy = {} THEN 0
        ELSE CHOOSE i \in Busy : \A j \in Busy \ {i} : BusierThan(i, j) \/ (~BusierThan(j, i) /\ i < j)

\* sharePermille: whole thousandths, what is left over to the largest
\* remainders, the first names first.
Permille == 1000
VendorPlace(v) == CHOOSE i \in DOMAIN Vendor : Vendor[i] = v
Share(value) ==
    LET base == SumFunction(value)
        held == {v \in DOMAIN value : value[v] > 0}
        whole(v) == (value[v] * Permille) \div base
        rest(v) == (value[v] * Permille) % base
        left == Permille - SumFunction([v \in held |-> whole(v)])
        before(v, w) == \/ rest(v) > rest(w)
                        \/ rest(v) = rest(w) /\ VendorPlace(v) < VendorPlace(w)
        rank(v) == Cardinality({w \in held : before(w, v)})
    IN [v \in DOMAIN value |->
          IF v \notin held THEN 0 ELSE IF rank(v) < left THEN whole(v) + 1 ELSE whole(v)]

\* replaceDashboardSessionCounts, which fails on a vendor the aggregate lacks.
CountedSessions(v) == {s \in Shown(Saw("counts")) : VendorOf[s] = v}
CountsFail == \E s \in Shown(Saw("counts")) : VendorOf[s] \notin ListedVendors

\* ReadCodexPromptUsage
CodexCalls == OfVendor(CallsInRange(Saw("codex")), "codex")
JudgedTokens(labels) ==
    TokensOf({c \in CodexCalls : Saw("codex").sessions[c.session].label \in labels})
CodexTotal == TokensOf(CodexCalls)
CodexUser == JudgedTokens({"client"})
CodexSystem == JudgedTokens({"internal"})

\* The list of recent sessions, and what they used in their whole life.
Recent ==
    LET db == Saw("recent")
        newer(s, t) == \/ db.sessions[s].start > db.sessions[t].start
                       \/ db.sessions[s].start = db.sessions[t].start /\ s > t
    IN {s \in Shown(db) : Cardinality({t \in Shown(db) : newer(t, s)}) < RecentLimit}
Truncated == Cardinality(Shown(Saw("recent"))) > RecentLimit
RecentTokens(s) == TokensOf({c \in Saw("usage").calls : c.session = s})

Running(db, S) == {s \in S : ~db.sessions[s].ended}
ActiveAgents == LET db == Saw("agents") IN
    {VendorOf[s] : s \in Running(db, {t \in Present(db) : MayShow(db, t)})}
RunningSessions == Cardinality(Running(Saw("running"), Shown(Saw("running"))))
-----------------------------------------------------------------------------
(* Behaviours *)

HomeRow == [start : Starts, ended : BOOLEAN, label : Judged]
StoredSessions ==
    {f \in [Session -> HomeRow \cup {NoSession}] :
       \A s \in Session :
         f[s].label \in IF VendorOf[s] = "codex" THEN {"none", "client"} ELSE {"none"}}
LLMCall == {c \in [session : Session, at : CallTimes, usage : UNION Range(Usages)] : c.usage \in Usages[c.session]}
NewCall(s, t, u) == [session |-> s, at |-> t, usage |-> u]

\* A database with at most FirstCalls calls.
HomeInit ==
    /\ sessions \in StoredSessions
    /\ calls \in {S \in SUBSET LLMCall : /\ IsFiniteSet(S) /\ Cardinality(S) <= FirstCalls
                                         /\ \A c \in S : sessions[c.session] # NoSession}
    /\ writes = 0
    /\ surface \in {"snapshot", "breakdown"}
    /\ saw = <<>>

\* What is stored before the first query is in HomeInit.
Write == writes < MaxWrites /\ saw # <<>> /\ ~Answered /\ writes' = writes + 1 /\ UNCHANGED <<surface, saw>>

\* The daemon stores an event: a session's first, one that is older than its
\* start, or activity that reopens it.
StoreSession(s) ==
    /\ Write
    /\ \E t \in Starts :
         sessions' = [sessions EXCEPT ![s] =
            [start |-> IF @ = NoSession \/ t < @.start THEN t ELSE @.start,
             ended |-> FALSE, label |-> @.label]]
    /\ sessions' # sessions
    /\ UNCHANGED calls

StoreCall(s) ==
    /\ Write /\ sessions[s] # NoSession
    /\ \E t \in CallTimes, u \in Usages[s] :
         NewCall(s, t, u) \notin calls /\ calls' = calls \cup {NewCall(s, t, u)}
    /\ UNCHANGED sessions

EndSession(s) ==
    /\ Write /\ sessions[s] # NoSession /\ ~sessions[s].ended
    /\ sessions' = [sessions EXCEPT ![s].ended = TRUE]
    /\ UNCHANGED calls

\* A turn of Codex is judged, or judged again.
JudgeTurn(s) ==
    /\ Write /\ sessions[s] # NoSession /\ VendorOf[s] = "codex"
    /\ \E l \in Judged \ {sessions[s].label} : sessions' = [sessions EXCEPT ![s].label = l]
    /\ UNCHANGED calls

PruneSession(s) ==
    /\ Write /\ sessions[s] # NoSession /\ sessions[s].ended
    /\ sessions' = [sessions EXCEPT ![s] = NoSession]
    /\ calls' = {c \in calls : c.session # s}

\* The database a query sees: that of the transaction's first read.
Visible == IF surface = "snapshot" /\ saw # <<>> THEN saw[1] ELSE Db

ReadQuery ==
    /\ ~Answered
    /\ saw' = Append(saw, Visible)
    /\ UNCHANGED <<sessions, calls, writes, surface>>

HomeNext ==
    \/ ReadQuery
    \/ \E s \in Session : \/ StoreSession(s) \/ StoreCall(s) \/ EndSession(s)
                          \/ JudgeTurn(s) \/ PruneSession(s)

HomeSpec == HomeInit /\ [][HomeNext]_homeVars
-----------------------------------------------------------------------------
(* Properties *)

\* What is true of the store and of every database a query saw.
Database == [sessions : [Session -> HomeRow \cup {NoSession}], calls : SUBSET LLMCall]
WholeDb(db) ==
    /\ db \in Database /\ IsFiniteSet(db.calls)
    /\ \A c \in db.calls : db.sessions[c.session] # NoSession

\* One transaction sees one database, and no query sees half a change.
HomeInv ==
    /\ WholeDb(Db)
    /\ surface \in DOMAIN Queries
    /\ saw \in Seq(Database) /\ Len(saw) <= Len(Queries[surface])
    /\ \A i \in 1..Len(saw) : WholeDb(saw[i])
    /\ surface = "snapshot" => \A i \in 1..Len(saw) : saw[i] = saw[1]

\* A list of models that is not cut has the whole of its vendor, one that is
\* cut no more than that.
ListedOf(v, part, whole) == IF ModelsTruncated(v) THEN part <= whole ELSE part = whole

\* The windows, the vendors and the day have the same tokens and the same
\* costs, the shares of the vendors are a whole, a busiest window is found
\* when anything was used, and a vendor's models have its costs unless there
\* are more than the limit, which the answer says, and as many are listed.
UsageAgrees ==
    LET tokens == SumFunction([v \in ListedVendors |-> AggTotal(v)])
        costs == SumFunction([v \in ListedVendors |-> CostOf(CostCalls(v))])
        share == Share([v \in ListedVendors |-> AggTotal(v)])
    IN /\ tokens = TokensOf(CallsInRange(Saw("calls")))
       /\ tokens = SumFunction([i \in 1..NWindows |-> WindowTokens(i)])
       /\ costs = CostOf(CallsInRange(Saw("costs")))
       /\ costs = SumFunction([i \in 1..NWindows |-> WindowCost(i)])
       /\ SumFunction(share) = IF tokens > 0 THEN Permille ELSE 0
       /\ \A v, w \in ListedVendors : AggTotal(v) > AggTotal(w) => share[v] >= share[w]
       /\ Peak = 0 <=> tokens = 0 /\ costs = 0
       /\ \A v \in ListedVendors :
            /\ ListedOf(v, SumFunction([m \in ModelRows(v) |-> ModelCost(v, m)]), CostOf(CostCalls(v)))
            /\ IF ModelsTruncated(v) THEN Cardinality(ModelRows(v)) = ModelLimit
                                     ELSE Cardinality(ModelsOf(v)) <= ModelLimit

\* The parts of one screen are about one database: the models of a vendor
\* have its tokens unless their list is cut, the numbers of sessions are those
\* of the list, a running session has an active agent, Codex's parts make up
\* its tokens, and a list that is whole has the tokens of the cards when no
\* session leaves the range.
PartsAgree ==
    LET counted == UNION {CountedSessions(v) : v \in ListedVendors}
        db == Saw("calls")
        within(v) == {s \in Recent : VendorOf[s] = v}
        inside(v) == /\ \A c \in db.calls : VendorOf[c.session] = v => InRange(c.at)
                     /\ \A s \in Present(db) : VendorOf[s] = v => s \in Shown(db)
    IN /\ ~CountsFail
       /\ \A v \in ListedVendors :
            ListedOf(v, SumFunction([m \in ModelRows(v) |-> ModelTokens(v, m)]), AggTotal(v))
       /\ IF Truncated THEN Cardinality(counted) > RecentLimit /\ Cardinality(Recent) = RecentLimit
                       ELSE counted = Recent
       /\ ~Truncated => RunningSessions = Cardinality(Running(Saw("recent"), Recent))
       /\ \A s \in Running(Saw("recent"), Recent) : VendorOf[s] \in ActiveAgents
       /\ CodexTotal = AggTotal("codex") /\ CodexUser + CodexSystem <= CodexTotal
       /\ \A v \in ListedVendors :
            ~Truncated /\ inside(v) =>
                SumFunction([s \in within(v) |-> RecentTokens(s)]) = AggTotal(v)

\* Every answer of either surface is whole in itself, and the parts of the
\* Home screen agree whatever the daemon stores between its queries.
HomeAgrees ==
    Answered => /\ UsageAgrees
                /\ surface = "snapshot" => PartsAgree
=============================================================================
