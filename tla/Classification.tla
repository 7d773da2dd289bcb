--------------------------- MODULE Classification ---------------------------
(***************************************************************************)
(* The kind of work of a turn and of a session: the rules of               *)
(* internal/dashboard/classify.go, the phases and shares of                *)
(* classify_phase.go and the rows of classify_query.go they are given.     *)
(*                                                                         *)
(* A tool stands for the table of names it is found in, a command for the  *)
(* table its words are found in, an event for whether its name is that of  *)
(* an error.  Texts of evidence are left out, its rules and counts kept.   *)
(***************************************************************************)
EXTENDS Integers, Sequences, FiniteSetsExt, SequencesExt

WorkTypes == <<"debugging", "implementation", "verification", "exploration", "unknown">>
WorkTypeRank(w) == CHOOSE i \in DOMAIN WorkTypes : WorkTypes[i] = w
-----------------------------------------------------------------------------
(* One turn *)

CommandRule(target) ==
    CASE target = "check" -> "test_or_build_command"
      [] target = "read" -> "read_command"
      [] OTHER -> "unknown_command"

ToolRule(c) ==
    CASE c.tool = "shell" -> CommandRule(c.target)
      [] c.tool = "write" -> "write_tool"
      [] c.tool = "read" -> "read_tool"
      [] c.tool = "plan" -> "plan_tool"
      [] c.mcp /\ c.tool = "other" -> "mcp_tool"
      [] OTHER -> "unknown_tool"

WorkOfRule ==
    [tool_failed |-> "debugging", tool_error_type |-> "debugging", error_event |-> "debugging",
     file_changed |-> "implementation", write_tool |-> "implementation",
     test_or_build_command |-> "verification",
     read_tool |-> "exploration", plan_tool |-> "exploration", mcp_tool |-> "exploration",
     read_command |-> "exploration",
     tool_rejected |-> "unknown", unknown_tool |-> "unknown", unknown_command |-> "unknown",
     no_signal |-> "unknown"]

Rejected(c) == c.decision = "reject"
Failed(c) == c.success = <<FALSE>>

\* classifyToolSignal: a call the user refused is evidence of nothing but of
\* its failure.
CallRules(c) ==
    {r \in {"tool_failed"} : Failed(c)} \cup {r \in {"tool_error_type"} : c.error}
      \cup IF Rejected(c) THEN {"tool_rejected"}
           ELSE {ToolRule(c)} \cup {r \in {"file_changed"} : c.files # {}}

\* turn: the record of loadTurnSignals with its calls and its error events.
Evidence(turn) ==
    LET rules == UNION {CallRules(c) : c \in turn.calls}
                   \cup {r \in {"error_event"} : turn.errorEvents # {}}
    IN IF rules = {} THEN {"no_signal"} ELSE rules

ClassifyTurn(turn) ==
    WorkTypes[Min({WorkTypeRank(WorkOfRule[r]) : r \in Evidence(turn)})]
-----------------------------------------------------------------------------
(* Durations; time 0 is an unknown one *)

\* Mutant: a turn lasts until its last event, also into the next turn.
DurationUncut(turn, next) ==
    LET end == Max({turn.end, turn.seen}) IN IF turn.start <= 0 \/ end <= turn.start THEN 0 ELSE end - turn.start

DurationOf(turn, next) ==
    LET end == IF turn.end > 0 THEN turn.end
               ELSE IF turn.seen > 0 THEN turn.seen
               ELSE IF next > turn.start THEN next ELSE 0
        cut == IF next > 0 /\ end > next THEN next ELSE end
    IN IF turn.start <= 0 \/ cut <= turn.start THEN 0 ELSE cut - turn.start

InTurnOrder(turns) ==
    SetToSortSeq(turns, LAMBDA t, u : t.index < u.index \/ (t.index = u.index /\ t.id < u.id))

ClassifiedTurns(ordered) ==
    [i \in DOMAIN ordered |->
        [id |-> ordered[i].id, work |-> ClassifyTurn(ordered[i]), start |-> ordered[i].start,
         duration |-> DurationOf(ordered[i],
                                 IF i < Len(ordered) THEN ordered[i + 1].start ELSE 0)]]

SumSeq(s) == FoldLeft(LAMBDA sum, n : sum + n, 0, s)
TotalDuration(turns) == SumSeq([i \in DOMAIN turns |-> turns[i].duration])
-----------------------------------------------------------------------------
(* Phases and shares *)

Thousandths(weights) ==
    LET total == SumSeq(weights)
        held == {i \in DOMAIN weights : weights[i] > 0}
        base(i) == (weights[i] * 1000) \div total
        rest(i) == (weights[i] * 1000) % total
        left == 1000 - MapThenSumSet(base, held)
        rank(i) == Cardinality({j \in held : rest(j) > rest(i) \/ (rest(j) = rest(i) /\ j < i)})
    IN [i \in DOMAIN weights |->
          IF i \notin held THEN 0 ELSE base(i) + (IF rank(i) < left THEN 1 ELSE 0)]

\* A phase is the interval of turns with the same kind of work, as long as
\* it can be.
PhaseStarts(turns) == {i \in DOMAIN turns : i = 1 \/ turns[i - 1].work # turns[i].work}
PhaseEnd(turns, i) ==
    CHOOSE j \in DOMAIN turns : j >= i /\ (j = Len(turns) \/ j + 1 \in PhaseStarts(turns))
                                /\ \A k \in (i + 1)..j : k \notin PhaseStarts(turns)
Phases(turns, known) ==
    LET starts == SetToSortSeq(PhaseStarts(turns), <)
        size(i) == PhaseEnd(turns, starts[i]) - starts[i] + 1
        length(i) == TotalDuration(SubSeq(turns, starts[i], PhaseEnd(turns, starts[i])))
        share == Thousandths([i \in DOMAIN starts |-> IF known THEN length(i) ELSE size(i)])
    IN [i \in DOMAIN starts |->
          [work |-> turns[starts[i]].work, first |-> starts[i], size |-> size(i),
           duration |-> length(i), share |-> share[i]]]

Shares(turns, phases, known) ==
    LET of(w) == SelectSeq(turns, LAMBDA t : t.work = w)
        kinds == SelectSeq(WorkTypes, LAMBDA w : of(w) # <<>>)
        weight == [i \in DOMAIN kinds |->
                     IF known THEN TotalDuration(of(kinds[i])) ELSE Len(of(kinds[i]))]
        share == Thousandths(weight)
    IN [i \in DOMAIN kinds |->
          [work |-> kinds[i], duration |-> TotalDuration(of(kinds[i])), turns |-> Len(of(kinds[i])),
           phases |-> Len(SelectSeq(phases, LAMBDA p : p.work = kinds[i])),
           weight |-> weight[i], share |-> share[i]]]

\* The heaviest kind, the first of several in the order of WorkTypes.
SessionWork(shares) ==
    IF shares = <<>> THEN "unknown"
    ELSE LET heaviest == {i \in DOMAIN shares : \A j \in DOMAIN shares : shares[j].weight <= shares[i].weight}
         IN shares[Min(heaviest)].work

ClassifyTurns(turns) ==
    LET classified == ClassifiedTurns(InTurnOrder(turns))
        known == TotalDuration(classified) > 0
        phases == Phases(classified, known)
        shares == Shares(classified, phases, known)
    IN [turns |-> classified, total |-> TotalDuration(classified), known |-> known,
        phases |-> phases, shares |-> shares, work |-> SessionWork(shares)]
-----------------------------------------------------------------------------
(* What holds of every classification *)

SumOf(s, f(_)) == SumSeq([i \in DOMAIN s |-> f(s[i])])

\* The phases are the turns, the shares are the phases and the turns, both
\* make a whole, and the session's kind of work is that of one of its turns.
Consistent(c) ==
    /\ SumOf(c.phases, LAMBDA p : p.size) = Len(c.turns)
    /\ SumOf(c.shares, LAMBDA s : s.turns) = Len(c.turns)
    /\ SumOf(c.shares, LAMBDA s : s.phases) = Len(c.phases)
    /\ SumOf(c.phases, LAMBDA p : p.duration) = c.total
    /\ SumOf(c.shares, LAMBDA s : s.duration) = c.total
    /\ \A i \in 1..(Len(c.phases) - 1) : c.phases[i].work # c.phases[i + 1].work
    /\ c.turns # <<>> =>
         /\ SumOf(c.shares, LAMBDA s : s.share) = 1000 /\ SumOf(c.phases, LAMBDA p : p.share) = 1000
         /\ \E i \in DOMAIN c.turns : c.turns[i].work = c.work

\* The turns do not overlap when they begin in their order and each has a
\* known beginning.
Disjoint(c) ==
    (\A i \in DOMAIN c.turns : /\ c.turns[i].start > 0
                               /\ i > 1 => c.turns[i - 1].start <= c.turns[i].start) =>
      \A i, j \in DOMAIN c.turns : i < j => c.turns[i].start + c.turns[i].duration <= c.turns[j].start
=============================================================================
