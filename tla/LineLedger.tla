----------------------------- MODULE LineLedger -----------------------------
(***************************************************************************)
(* Which file gets the lines of a session: the vendor exports how many it  *)
(* added and removed without naming a file, and its tool results name a    *)
(* file without the lines.  session/lines.go puts the two together in the  *)
(* order in which they arrive.                                             *)
(***************************************************************************)
EXTENDS Integers, Sequences, FiniteSetsExt, Functions

CONSTANTS
    EditedFile, \* hashes of paths
    LineCounts, \* lines in one point of the metric, after it was made a difference
    MaxArrivals \* bound: points and results

ASSUME LedgerAssumption == IsFiniteSet(EditedFile) /\ LineCounts \subseteq Int /\ MaxArrivals \in Nat

VARIABLES
    buckets,   \* lineLedger.added and .removed: total and unassigned
    editQueue, \* lineLedger.queue
    queueSpent,     \* lineLedger.spent
    assigned,  \* lineLedger.assigned
    edits,     \* state.files: how often each was edited
    arrivals   \* history: what arrived, in order

ledgerVars == <<buckets, editQueue, queueSpent, assigned, edits, arrivals>>

Sides == {"added", "removed"}

LedgerInit ==
    /\ buckets = [s \in Sides |-> [total |-> 0, unassigned |-> 0]]
    /\ editQueue = <<>>
    /\ queueSpent = FALSE
    /\ assigned = [f \in EditedFile |-> [s \in Sides |-> 0]]
    /\ edits = [f \in EditedFile |-> 0]
    /\ arrivals = <<>>

\* Mutant: what does not divide evenly is kept from everyone.
LineShareEven(lines, queue, position) == lines \div Len(queue)

\* distribute: evenly, and one more for the first in the queue, until nothing is
\* left.
LineShare(lines, queue, position) ==
    (lines \div Len(queue)) + (IF position <= lines % Len(queue) THEN 1 ELSE 0)

\* What a file gets, which may be in the queue more than once.
Portion(lines, queue, f) ==
    SumFunction([n \in {n \in DOMAIN queue : queue[n] = f} |-> LineShare(lines, queue, n)])

Handed(lines, queue) == SumFunction([n \in DOMAIN queue |-> LineShare(lines, queue, n)])

\* flush: from both buckets, to the edits in the queue.
HandOut(held, queue, used) ==
    /\ editQueue' = queue
    /\ IF queue = <<>>
       THEN buckets' = held /\ queueSpent' = used /\ UNCHANGED assigned
       ELSE /\ buckets' = [s \in Sides |->
                 [held[s] EXCEPT !.unassigned = IF @ > 0 THEN @ - Handed(@, queue) ELSE @]]
            /\ assigned' = [f \in EditedFile |-> [s \in Sides |->
                 assigned[f][s] + (IF held[s].unassigned > 0 THEN Portion(held[s].unassigned, queue, f) ELSE 0)]]
            /\ queueSpent' = (used \/ \E s \in Sides : held[s].unassigned > 0)

Arrives(what) == Len(arrivals) < MaxArrivals /\ arrivals' = Append(arrivals, what)

\* applyLines: what is not more than zero is ignored.
LinesCounted(side, n) ==
    /\ Arrives([kind |-> "lines", side |-> side, n |-> n])
    /\ \/ n <= 0 /\ UNCHANGED <<buckets, editQueue, queueSpent, assigned>>
       \/ n > 0 /\ HandOut([buckets EXCEPT ![side] = [total |-> @.total + n, unassigned |-> @.unassigned + n]],
                         editQueue, queueSpent)
    /\ UNCHANGED edits

\* applyToolResult, noteEdit: an edit that failed changed no file; the first one
\* after lines were handed out begins a new queue.
ToolResult(f, failed) ==
    /\ Arrives([kind |-> "edit", file |-> f, failed |-> failed])
    /\ \/ failed /\ UNCHANGED <<buckets, editQueue, queueSpent, assigned, edits>>
       \/ /\ ~failed
          /\ edits' = [edits EXCEPT ![f] = @ + 1]
          /\ HandOut(buckets, IF queueSpent THEN <<f>> ELSE Append(editQueue, f), FALSE)

LedgerNext ==
    \/ \E side \in Sides, n \in LineCounts : LinesCounted(side, n)
    \/ \E f \in EditedFile, failed \in BOOLEAN : ToolResult(f, failed)

LedgerSpec == LedgerInit /\ [][LedgerNext]_ledgerVars

-----------------------------------------------------------------------------
(* Properties *)

IsEdit(a) == a.kind = "edit" /\ ~a.failed
IsLines(a) == a.kind = "lines" /\ a.n > 0

\* What is said of a history h of arrivals.
PointsOf(h, side) == {n \in DOMAIN h : IsLines(h[n]) /\ h[n].side = side}
LineTotal(h, side) == SumFunction([n \in PointsOf(h, side) |-> h[n].n])
Assigned(side) == SumFunction([f \in EditedFile |-> assigned[f][side]])

EditsBefore(h, n) == {m \in 1..(n - 1) : IsEdit(h[m])}
LinesWithin(h, m, n) == \E k \in (m + 1)..(n - 1) : IsLines(h[k])
FirstEdit(h) == Min(EditsBefore(h, Len(h) + 1))

\* The edits that the lines of arrival n are put on: the last ones before it that
\* no other lines separate from each other, and the first edit of all where there
\* is none before.
LastEdit(h, n) == Max(EditsBefore(h, n))
WaitedFor(h, m) == EditsBefore(h, m) = {} /\ \E k \in 1..(m - 1) : IsLines(h[k])
MeantFor(h, n) ==
    IF EditsBefore(h, n) = {} THEN {FirstEdit(h)}
    ELSE {m \in EditsBefore(h, n) :
            /\ ~LinesWithin(h, m, LastEdit(h, n))
            /\ m # LastEdit(h, n) => ~WaitedFor(h, m)}

\* Their files, in the order of the edits.
Nth(S, k) == CHOOSE m \in S : Cardinality({j \in S : j <= m}) = k
QueueFor(h, n) == [k \in 1..Cardinality(MeantFor(h, n)) |-> h[Nth(MeantFor(h, n), k)].file]

Expected(h, f, side) == SumFunction([n \in PointsOf(h, side) |-> Portion(h[n].n, QueueFor(h, n), f)])

\* No line is lost or counted twice between the total of the session and its
\* files; once a file was edited none is left over, and each is put on the files
\* edited last before it, whatever the order in which results and points arrive.
LinesReachTheirFiles ==
    /\ \A side \in Sides :
         /\ buckets[side].total = LineTotal(arrivals, side)
         /\ Assigned(side) + buckets[side].unassigned = LineTotal(arrivals, side)
    /\ IF \E n \in DOMAIN arrivals : IsEdit(arrivals[n])
       THEN \A side \in Sides :
              /\ buckets[side].unassigned = 0
              /\ \A f \in EditedFile : assigned[f][side] = Expected(arrivals, f, side)
       ELSE \A f \in EditedFile, side \in Sides : assigned[f][side] = 0

-----------------------------------------------------------------------------
(* The inductive invariant *)

Arrival == [kind : {"lines"}, side : Sides, n : LineCounts]
           \cup [kind : {"edit"}, file : EditedFile, failed : BOOLEAN]

LedgerTypeOK ==
    /\ buckets \in [Sides -> [total : Nat, unassigned : Nat]]
    /\ editQueue \in Seq(EditedFile)
    /\ queueSpent \in BOOLEAN
    /\ assigned \in [EditedFile -> [Sides -> Int]]
    /\ arrivals \in Seq(Arrival)

\* The queue holds the files that the next lines are meant for, and is spent when
\* lines came after the last edit, or had waited for it.
LedgerInv ==
    LET next == Len(arrivals) + 1
        last == LastEdit(arrivals, next)
    IN
    /\ LedgerTypeOK
    /\ LinesReachTheirFiles
    /\ IF EditsBefore(arrivals, next) = {} THEN editQueue = <<>> /\ ~queueSpent
       ELSE /\ editQueue = QueueFor(arrivals, next)
            /\ queueSpent <=> (LinesWithin(arrivals, last, next) \/ WaitedFor(arrivals, last))
=============================================================================
