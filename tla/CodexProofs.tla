----------------------------- MODULE CodexProofs -----------------------------
(***************************************************************************)
(* Proofs about the Codex worker, for any turns, files, sessions and       *)
(* bounds.                                                                 *)
(*                                                                         *)
(* Of CodexProvenance: the queue of turns to judge is exact, and `purge`   *)
(* keeps final labels.  QueueIsExact is not inductive.  Decide takes a     *)
(* turn with a final label out of the queue and puts no turn in, so the    *)
(* turns the worker has in hand must be in the queue (InHand); and a turn  *)
(* that is opened must come without a label (Untouched).                   *)
(*                                                                         *)
(* And a final label is what the evidence proves (SettledIsCurrent).  A    *)
(* row that is listed goes out of date at once, when a turn comes after    *)
(* it; what makes that harmless is that the prompt of the next turn puts   *)
(* this one back in the queue.  So a row is Current while it has what is   *)
(* known of its turn, and either the next turn too or a next turn without  *)
(* a prompt; what is listed, judged and settled comes from such a row      *)
(* (JudgedTruly).                                                          *)
(*                                                                         *)
(* Of CodexScan: the evidence is the files' (EvidenceIsTrue).  What a scan *)
(* leaves depends on what it found when it began, so the invariant has two *)
(* parts.  Frame always holds: what the worker remembers of its row is     *)
(* what the row still says, unless `prune` took it.  Truth holds while no  *)
(* superseded row was revived: a row has the evidence of the rows it was   *)
(* read from (RowTrue), generations are numbered and only the last is      *)
(* active, the scan's plan fits the row it will replace or continue, and   *)
(* of a file that rests the scan has read nothing but the file.            *)
(***************************************************************************)
EXTENDS CodexProvenance, CodexScan, DataFacts, FiniteSetTheorems, TLAPS

State == {"pending", "retrying", "finalized"}

\* Nothing is known of a turn before telemetry opens it.
Untouched == \A t \in Turn \ Stored : queue[t] = "none" /\ prov[t].state # "finalized"

\* What is listed or being decided is in the queue, each turn once.
InHand ==
    /\ \A t \in DOMAIN listed : queue[t] # "none" /\ listed[t].turn = t
    /\ pc = "decide" =>
         verdict.turn \in Stored \ DOMAIN listed /\ queue[verdict.turn] # "none"

VerdictOK == verdict.label \in Label /\ verdict.state \in State

QueueInv == Untouched /\ QueueIsExact /\ InHand /\ VerdictOK

IInv == TypeOK /\ QueueInv

-----------------------------------------------------------------------------
(* The operators *)

\* Telemetry that names a turn stores it, once.
LEMMA OpenTurn ==
    ASSUME turns \in Seq(Turn), NEW t \in Turn, NEW at, Open(t, at)
    PROVE  /\ turns' \in Seq(Turn)
           /\ Stored' = Stored \cup {t}
           /\ IsInjective(turns) => IsInjective(turns')
<1>1. CASE t \in Stored
  BY <1>1 DEF Open, Stored
<1>2. CASE t \notin Stored
  <2>1. turns' = Append(turns, t)  BY <1>2 DEF Open
  <2>2. turns' \in Seq(Turn)  BY <2>1
  <2>3. /\ DOMAIN turns' = DOMAIN turns \cup {Len(turns) + 1}
        /\ turns'[Len(turns) + 1] = t
        /\ \A i \in DOMAIN turns : i # Len(turns) + 1 /\ turns'[i] = turns[i]
    BY <2>1
  <2>4. \A i \in DOMAIN turns : turns[i] # t  BY <1>2 DEF Stored, ToSet
  <2>5. Stored' = Stored \cup {t}  BY <2>3 DEF Stored, ToSet
  <2>6. IsInjective(turns) => IsInjective(turns')
    BY <2>3, <2>4 DEF IsInjective
  <2>. QED  BY <2>2, <2>5, <2>6
<1>. QED  BY <1>1, <1>2

\* The turns a prompt puts back in the queue are there, or are just opened.
LEMMA ReopenedStored ==
    ASSUME turns \in Seq(Turn), NEW t \in Turn
    PROVE  Reopened(t) \subseteq Stored \cup {t}
<1>1. Before(t) \subseteq Stored  BY DEF Before, Stored, ToSet
<1>. QED  BY <1>1 DEF Reopened

\* What is stored are turns.
LEMMA StoredTurns ==
    ASSUME turns \in Seq(Turn)
    PROVE  Stored \subseteq Turn
  BY DEF Stored, ToSet

\* A judgement is a label and a state of the right kind, of the turn it is about.
LEMMA ClassifyTypes ==
    ASSUME NEW p
    PROVE  /\ Classify(p).turn = p.turn
           /\ Classify(p).label \in Label
           /\ Classify(p).state \in State
<1>. DEFINE found == {file[i].source : i \in Matches(p)}
<1>1. ASSUME \E s \in Source : found = {s}
      PROVE  (CHOOSE s \in found : TRUE) \in Source
  BY <1>1
<1>2. Classify(p).turn = p.turn  BY DEF Classify
<1>3. Classify(p).label \in Label  BY <1>1 DEF Classify, Label, Source
<1>4. Classify(p).state \in State  BY DEF Classify, State
<1>. QED  BY <1>2, <1>3, <1>4

-----------------------------------------------------------------------------
(* Types *)

\* An empty store has the types.
LEMMA InitTypes ==
    ASSUME Init
    PROVE  TypeOK
<1>. USE CodexAssumption DEF Init
<1>1. now \in 1..MaxTime /\ tombstone \in 0..MaxTime /\ start \in [Turn -> 0..MaxTime]
  OBVIOUS
<1>2. file \in Seq([at : 1..MaxTime, source : Source \cup {"unsupported", "bad"},
                   turn : Turn \cup {NoTurn}])
  OBVIOUS
<1>3. turns \in Seq(Turn) /\ IsInjective(turns)  BY DEF IsInjective
<1>4. purged \in [Turn -> BOOLEAN] /\ prompt \in [Turn -> {"none", "stored", "conflict"}]
  OBVIOUS
<1>5. prov \in [Turn -> [label : Label, state : {"pending", "retrying", "finalized"}]]
  BY DEF Label
<1>6. DOMAIN listed \subseteq Stored  OBVIOUS
<1>7. verdict.turn \in Turn <=> pc = "decide"  BY DEF NoVerdict
<1>. QED  BY <1>1, <1>2, <1>3, <1>4, <1>5, <1>6, <1>7 DEF TypeOK

\* Codex appends a row of the right kind.
LEMMA AppendTypes ==
    ASSUME TypeOK, AppendRow
    PROVE  TypeOK'
<1>. DEFINE RowType == [at : 1..MaxTime, source : Source \cup {"unsupported", "bad"},
                        turn : Turn \cup {NoTurn}]
<1>1. PICK kind \in RowKinds[Len(file) + 1] :
        file' = Append(file, [at |-> now, source |-> kind.source, turn |-> kind.turn])
  BY DEF AppendRow
<1>2. kind \in Kind
  <2>1. Len(file) \in Nat /\ Len(file) < Len(RowKinds)  BY DEF AppendRow, TypeOK
  <2>2. RowKinds[Len(file) + 1] \in SUBSET Kind  BY <2>1, CodexAssumption
  <2>. QED  BY <1>1, <2>2
<1>3. [at |-> now, source |-> kind.source, turn |-> kind.turn] \in RowType
  BY <1>2 DEF Kind, TypeOK
<1>4. file \in Seq(RowType)  BY DEF TypeOK
<1>5. file' \in Seq(RowType) /\ Len(file') = Len(file) + 1  BY <1>1, <1>3, <1>4
<1>6. committed' = NoFile \/ committed' \in 0..Len(file')
  BY <1>4, <1>5 DEF TypeOK, AppendRow
<1>. QED
  BY <1>5, <1>6 DEF TypeOK, AppendRow, evidence, judgement, worker, Stored

\* An event that is no prompt keeps the types.
LEMMA OtherEventTypes ==
    ASSUME TypeOK, NEW t \in Turn, NEW at \in 1..MaxTime, OtherEvent(t, at)
    PROVE  TypeOK'
<1>1. turns' \in Seq(Turn) /\ Stored' = Stored \cup {t} /\ IsInjective(turns')
  BY OpenTurn DEF TypeOK, OtherEvent
<1>. QED  BY <1>1 DEF TypeOK, OtherEvent, Open, source, worker

\* A prompt event keeps the types.
LEMMA PromptTypes ==
    ASSUME TypeOK, NEW t \in Turn, NEW at \in 1..MaxTime, NEW clash \in BOOLEAN,
           PromptEvent(t, at, clash)
    PROVE  TypeOK'
<1>1. turns' \in Seq(Turn) /\ Stored' = Stored \cup {t} /\ IsInjective(turns')
  BY OpenTurn DEF TypeOK, PromptEvent
<1>2. start' \in [Turn -> 0..MaxTime]
  <2>1. at \in 0..MaxTime  BY CodexAssumption
  <2>. QED  BY <2>1 DEF TypeOK, PromptEvent, Open
<1>3. prompt' \in [Turn -> {"none", "stored", "conflict"}]  BY DEF TypeOK, PromptEvent
<1>4. prov' \in [Turn -> [label : Label, state : {"pending", "retrying", "finalized"}]]
  <2>1. \A u \in Turn : Retried(t, u) \in [label : Label, state : {"pending", "retrying", "finalized"}]
    BY DEF TypeOK, Retried
  <2>. QED  BY <2>1 DEF TypeOK, PromptEvent
<1>5. queue' \in [Turn -> {"none", "due", "later"}]  BY DEF TypeOK, PromptEvent
<1>6. DOMAIN listed \subseteq Stored'  BY <1>1 DEF TypeOK
<1>. QED
  BY <1>1, <1>2, <1>3, <1>4, <1>5, <1>6 DEF TypeOK, PromptEvent, source, worker

\* A purge keeps the types.
LEMMA PurgeTypes ==
    ASSUME TypeOK, NEW of, NEW before \in 1..MaxTime, Purge(of, before)
    PROVE  TypeOK'
<1>1. purged' \in [Turn -> BOOLEAN]
  <2>1. \A t \in Turn : (purged[t] \/ t \in of) \in BOOLEAN  OBVIOUS
  <2>. QED  BY <2>1, Zenon DEF Purge
<1>2. tombstone' \in 0..MaxTime
  <2>1. tombstone \in Int /\ before \in Int  BY CodexAssumption DEF TypeOK
  <2>2. Max({tombstone, before}) \in {tombstone, before}  BY <2>1, MaxOfTwo
  <2>3. tombstone' = Max({tombstone, before})  BY DEF Purge
  <2>. QED  BY <2>2, <2>3, CodexAssumption DEF TypeOK
<1>. QED  BY <1>1, <1>2 DEF TypeOK, Purge, source, judgement, worker, Stored

\* A batch of the file keeps the types; its checkpoint stays within the file.
LEMMA ScanTypes ==
    ASSUME TypeOK, ScanBatch
    PROVE  TypeOK'
<1>1. prov' \in [Turn -> [label : Label, state : {"pending", "retrying", "finalized"}]]
  BY DEF TypeOK, ScanBatch
<1>2. queue' \in [Turn -> {"none", "due", "later"}]  BY DEF TypeOK, ScanBatch
<1>3. committed' \in 0..Len(file)
  <2>1. Len(file) \in Nat  BY DEF TypeOK
  <2>2. Committed \in Nat /\ Room \in Nat
    BY <2>1, CodexAssumption DEF TypeOK, Committed, Room, NoFile
  <2>3. Committed + Room \in Nat  BY <2>2
  <2>4. Checkpoint \in {Len(file), Committed + Room} /\ Checkpoint <= Len(file)
    BY <2>1, <2>3, MinOfTwo DEF Checkpoint
  <2>. QED  BY <2>1, <2>3, <2>4 DEF ScanBatch
<1>. QED  BY <1>1, <1>2, <1>3 DEF TypeOK, ScanBatch, evidence, Stored

\* The start of a worker keeps the types.
LEMMA WorkerStartsTypes ==
    ASSUME TypeOK, WorkerStarts
    PROVE  TypeOK'
<1>1. queue' \in [Turn -> {"none", "due", "later"}]  BY DEF TypeOK, WorkerStarts
<1>. QED  BY <1>1 DEF TypeOK, WorkerStarts, source, evidence, Stored

\* The worker lists stored turns only, since the others are not in the queue.
LEMMA ListTypes ==
    ASSUME TypeOK, Untouched, NEW hour \in SUBSET Later, List(hour)
    PROVE  TypeOK'
<1>1. DOMAIN listed' \subseteq Stored
  BY DEF TypeOK, Untouched, List, Due, Later
<1>2. pc' \in {"idle", "judge"} /\ pc # "decide"  BY DEF List, After, MayList
<1>. QED  BY <1>1, <1>2 DEF TypeOK, List, source, evidence, judgement, Stored

\* A judgement is of the turn that was listed.
LEMMA JudgeTypes ==
    ASSUME TypeOK, InHand, NEW t \in Turn, Judge(t)
    PROVE  TypeOK'
<1>1. verdict'.turn = t  BY ClassifyTypes DEF Judge, InHand
<1>2. DOMAIN listed' \subseteq Stored  BY DEF TypeOK, Judge
<1>. QED  BY <1>1, <1>2 DEF TypeOK, Judge, source, evidence, judgement, Stored

\* The commit of a judgement keeps the types.
LEMMA DecideTypes ==
    ASSUME TypeOK, VerdictOK, Decide
    PROVE  TypeOK'
<1>1. FinalState \in State  BY DEF FinalState, VerdictOK, State
<1>2. prov' \in [Turn -> [label : Label, state : {"pending", "retrying", "finalized"}]]
  BY <1>1 DEF TypeOK, Decide, VerdictOK, State
<1>3. queue' \in [Turn -> {"none", "due", "later"}]  BY DEF TypeOK, Decide
<1>4. verdict'.turn \notin Turn /\ pc' # "decide" /\ pc' \in {"idle", "judge"}
  BY CodexAssumption DEF Decide, NoVerdict, After
<1>. QED  BY <1>2, <1>3, <1>4 DEF TypeOK, Decide, source, evidence, Stored

\* A worker that fails has nothing in hand.
LEMMA WorkerFailsTypes ==
    ASSUME TypeOK, WorkerFails
    PROVE  TypeOK'
<1>1. DOMAIN listed' = {}  BY DEF WorkerFails
<1>2. verdict'.turn \notin Turn  BY CodexAssumption DEF WorkerFails, NoVerdict
<1>. QED
  BY <1>1, <1>2 DEF TypeOK, WorkerFails, source, evidence, judgement, Stored

-----------------------------------------------------------------------------
(* The queue *)

\* What leaves turns, labels, queue and worker alone leaves the queue exact.
LEMMA QueueFrame ==
    ASSUME QueueInv, UNCHANGED <<turns, judgement, worker>>
    PROVE  QueueInv'
  BY DEF QueueInv, Untouched, QueueIsExact, InHand, VerdictOK, Stored, Known,
     judgement, worker

\* An empty store has an empty queue.
LEMMA InitQueue ==
    ASSUME Init
    PROVE  QueueInv
<1>1. Stored = {} /\ DOMAIN listed = {}  BY DEF Init, Stored, ToSet
<1>. QED
  BY <1>1 DEF Init, QueueInv, Untouched, QueueIsExact, InHand, VerdictOK, NoVerdict,
     Label, State

\* A turn that an event opens comes into the queue without a final label.
LEMMA OtherEventQueue ==
    ASSUME TypeOK, QueueInv, NEW t \in Turn, NEW at \in 1..MaxTime, OtherEvent(t, at)
    PROVE  QueueInv'
<1>1. Stored' = Stored \cup {t}  BY OpenTurn DEF TypeOK, OtherEvent
<1>2. Untouched'  BY <1>1 DEF TypeOK, QueueInv, Untouched, OtherEvent
<1>3. QueueIsExact'
  BY <1>1 DEF TypeOK, QueueInv, Untouched, QueueIsExact, Known, OtherEvent
<1>4. InHand' /\ VerdictOK'
  BY <1>1 DEF TypeOK, QueueInv, InHand, VerdictOK, OtherEvent, worker
<1>. QED  BY <1>2, <1>3, <1>4 DEF QueueInv

\* A prompt puts the turns it reopens back, and takes their final state away.
LEMMA PromptQueue ==
    ASSUME TypeOK, QueueInv, NEW t \in Turn, NEW at \in 1..MaxTime, NEW clash \in BOOLEAN,
           PromptEvent(t, at, clash)
    PROVE  QueueInv'
<1>1. Stored' = Stored \cup {t}  BY OpenTurn DEF TypeOK, PromptEvent
<1>2. Reopened(t) \subseteq Stored' /\ t \in Reopened(t)
  BY <1>1, ReopenedStored DEF TypeOK, PromptEvent, Reopened
<1>3. \A u \in Turn : Retried(t, u).state # "finalized"
  BY DEF TypeOK, Retried
<1>4. /\ \A u \in Reopened(t) : u \in Turn => queue'[u] = "due" /\ prov'[u].state # "finalized"
      /\ \A u \in Turn \ Reopened(t) : queue'[u] = queue[u] /\ prov'[u] = prov[u]
  BY <1>3 DEF PromptEvent
<1>5. Stored \subseteq Turn  BY StoredTurns DEF TypeOK
<1>6. Untouched'  BY <1>1, <1>2, <1>4 DEF QueueInv, Untouched
<1>7. QueueIsExact'
  BY <1>1, <1>2, <1>4, <1>5 DEF QueueInv, QueueIsExact, Known
<1>8. InHand' /\ VerdictOK'
  BY <1>1, <1>4, <1>5 DEF TypeOK, QueueInv, InHand, VerdictOK, PromptEvent, worker
<1>. QED  BY <1>6, <1>7, <1>8 DEF QueueInv

\* A batch of the file does the same with the turns it concerns.
LEMMA ScanQueue ==
    ASSUME TypeOK, QueueInv, ScanBatch
    PROVE  QueueInv'
<1>1. Stored' = Stored  BY DEF ScanBatch, evidence, Stored
<1>2. /\ \A u \in Rejudged : u \in Turn => queue'[u] = "due" /\ prov'[u].state = "retrying"
      /\ \A u \in Turn \ Rejudged : queue'[u] = queue[u] /\ prov'[u] = prov[u]
  BY DEF TypeOK, ScanBatch
<1>3. Rejudged \subseteq Stored /\ Stored \subseteq Turn
  BY StoredTurns DEF TypeOK, Rejudged
<1>4. Untouched'  BY <1>1, <1>2, <1>3 DEF QueueInv, Untouched
<1>5. QueueIsExact'  BY <1>1, <1>2, <1>3 DEF QueueInv, QueueIsExact, Known
<1>6. InHand' /\ VerdictOK'
  BY <1>1, <1>2, <1>3 DEF TypeOK, QueueInv, InHand, VerdictOK, ScanBatch
<1>. QED  BY <1>4, <1>5, <1>6 DEF QueueInv

\* BackfillCodexPending finds nothing to add.
LEMMA WorkerStartsQueue ==
    ASSUME TypeOK, QueueInv, WorkerStarts
    PROVE  QueueInv'
<1>1. Stored' = Stored /\ Stored \subseteq Turn
  BY StoredTurns DEF TypeOK, WorkerStarts, evidence, Stored
<1>2. \A u \in Turn : queue'[u] = queue[u]
  BY <1>1 DEF TypeOK, QueueInv, QueueIsExact, Known, WorkerStarts
<1>. QED
  BY <1>1, <1>2 DEF TypeOK, QueueInv, Untouched, QueueIsExact, InHand, VerdictOK, Known,
     WorkerStarts

\* What is listed is in the queue.
LEMMA ListQueue ==
    ASSUME TypeOK, QueueInv, NEW hour \in SUBSET Later, List(hour)
    PROVE  QueueInv'
<1>1. Stored' = Stored  BY DEF List, evidence, Stored
<1>2. \A u \in Due \cup hour : u \in Turn /\ queue[u] # "none"  BY DEF Due, Later
<1>3. /\ DOMAIN listed' = Due \cup hour
      /\ \A u \in Due \cup hour : listed'[u].turn = u
  BY DEF List, Row
<1>4. pc' # "decide"  BY DEF List, After
<1>. QED
  BY <1>1, <1>2, <1>3, <1>4 DEF QueueInv, Untouched, QueueIsExact, InHand, VerdictOK,
     Known, List, judgement

\* What is judged was listed.
LEMMA JudgeQueue ==
    ASSUME TypeOK, QueueInv, NEW t \in Turn, Judge(t)
    PROVE  QueueInv'
<1>1. Stored' = Stored  BY DEF Judge, evidence, Stored
<1>2. /\ verdict'.turn = t
      /\ verdict'.label \in Label /\ verdict'.state \in State
  BY ClassifyTypes DEF Judge, QueueInv, InHand
<1>3. /\ t \in DOMAIN listed
      /\ DOMAIN listed' = DOMAIN listed \ {t}
      /\ \A u \in DOMAIN listed' : listed'[u] = listed[u]
  BY DEF Judge
<1>4. t \in Stored /\ queue[t] # "none"
  BY <1>3 DEF TypeOK, QueueInv, InHand
<1>. QED
  BY <1>1, <1>2, <1>3, <1>4 DEF QueueInv, Untouched, QueueIsExact, InHand, VerdictOK,
     Known, Judge, judgement

\* The commit takes a turn out of the queue just when its label is final.
LEMMA DecideQueue ==
    ASSUME TypeOK, QueueInv, Decide
    PROVE  QueueInv'
<1>. DEFINE t == verdict.turn
<1>1. Stored' = Stored /\ Stored \subseteq Turn
  BY StoredTurns DEF TypeOK, Decide, evidence, Stored
<1>2. t \in Stored \ DOMAIN listed /\ queue[t] # "none"
  BY DEF QueueInv, InHand, Decide
<1>3. /\ queue'[t] = "none" <=> ~ CheckAgain(verdict.label, FinalState)
      /\ prov'[t] = [label |-> verdict.label, state |-> FinalState]
      /\ \A u \in Turn \ {t} : queue'[u] = queue[u] /\ prov'[u] = prov[u]
  BY <1>1, <1>2 DEF TypeOK, Decide
<1>4. Untouched'  BY <1>1, <1>2, <1>3 DEF QueueInv, Untouched
<1>5. QueueIsExact'
  BY <1>1, <1>2, <1>3 DEF QueueInv, QueueIsExact, Known, CheckAgain
<1>6. InHand'
  <2>1. pc' # "decide" /\ listed' = listed  BY DEF Decide, After
  <2>. QED  BY <1>1, <1>2, <1>3, <2>1 DEF TypeOK, QueueInv, InHand
<1>7. VerdictOK'  BY DEF Decide, VerdictOK, NoVerdict, Label, State
<1>. QED  BY <1>4, <1>5, <1>6, <1>7 DEF QueueInv

\* A worker that fails leaves the queue as it is.
LEMMA WorkerFailsQueue ==
    ASSUME TypeOK, QueueInv, WorkerFails
    PROVE  QueueInv'
<1>1. DOMAIN listed' = {} /\ pc' # "decide" /\ Stored' = Stored
  BY DEF WorkerFails, evidence, Stored
<1>2. VerdictOK'  BY DEF WorkerFails, VerdictOK, NoVerdict, Label, State
<1>. QED
  BY <1>1, <1>2 DEF QueueInv, Untouched, QueueIsExact, InHand, Known, WorkerFails,
     judgement

-----------------------------------------------------------------------------
(* Theorems *)

\* The invariant holds throughout.
THEOREM Invariance ==
    Spec => []IInv
<1>1. Init => IInv  BY InitTypes, InitQueue DEF IInv
<1>2. IInv /\ [Next]_vars => IInv'
  <2>. SUFFICES ASSUME IInv, [Next]_vars PROVE IInv'  OBVIOUS
  <2>. USE DEF IInv
  <2>1. CASE Clock
    <3>1. TypeOK'
      BY <2>1, CodexAssumption DEF TypeOK, Clock, source, evidence, judgement, worker, Stored
    <3>2. QueueInv'  BY <2>1, QueueFrame DEF Clock, evidence
    <3>. QED  BY <3>1, <3>2
  <2>2. CASE AppendRow
    BY <2>2, AppendTypes, QueueFrame DEF AppendRow, evidence
  <2>3. ASSUME NEW t \in Turn, NEW at \in 1..MaxTime, OtherEvent(t, at)
        PROVE  IInv'
    BY <2>3, OtherEventTypes, OtherEventQueue
  <2>4. ASSUME NEW t \in Turn, NEW at \in 1..MaxTime, NEW clash \in BOOLEAN,
               PromptEvent(t, at, clash)
        PROVE  IInv'
    BY <2>4, PromptTypes, PromptQueue
  <2>5. CASE PurgeAll
    <3>1. now \in 1..MaxTime  BY DEF TypeOK
    <3>. QED  BY <2>5, <3>1, PurgeTypes, QueueFrame DEF PurgeAll, Purge
  <2>6. ASSUME NEW before \in 1..MaxTime, PurgeBefore(before)
        PROVE  IInv'
    BY <2>6, PurgeTypes, QueueFrame DEF PurgeBefore, Purge
  <2>7. CASE WorkerStarts  BY <2>7, WorkerStartsTypes, WorkerStartsQueue
  <2>8. CASE ScanBatch  BY <2>8, ScanTypes, ScanQueue
  <2>9. ASSUME NEW hour \in SUBSET Later, List(hour)
        PROVE  IInv'
    BY <2>9, ListTypes, ListQueue DEF QueueInv
  <2>10. ASSUME NEW t \in Turn, Judge(t)
         PROVE  IInv'
    BY <2>10, JudgeTypes, JudgeQueue DEF QueueInv
  <2>11. CASE Decide  BY <2>11, DecideTypes, DecideQueue DEF QueueInv
  <2>12. CASE WorkerFails  BY <2>12, WorkerFailsTypes, WorkerFailsQueue
  <2>13. CASE UNCHANGED vars
    <3>1. TypeOK'
      BY <2>13 DEF vars, TypeOK, source, evidence, judgement, worker, Stored
    <3>2. QueueInv'  BY <2>13, QueueFrame DEF vars, evidence
    <3>. QED  BY <3>1, <3>2
  <2>. QED
    BY <2>1, <2>2, <2>3, <2>4, <2>5, <2>6, <2>7, <2>8, <2>9, <2>10, <2>11, <2>12, <2>13
       DEF Next, WorkerStep, Environment
<1>. QED  BY <1>1, <1>2, PTL DEF Spec

\* Every variable keeps its type, whatever telemetry, file, purge and failing
\* workers do.
THEOREM TypeCorrect ==
    Spec => []TypeOK
<1>1. IInv => TypeOK  BY DEF IInv
<1>. QED  BY <1>1, Invariance, PTL

\* The queue holds exactly the turns without a final label.
THEOREM QueueExact ==
    Spec => []QueueIsExact
<1>1. IInv => QueueIsExact  BY DEF IInv, QueueInv
<1>. QED  BY <1>1, Invariance, PTL

\* A step that is not a prompt of the turn, a file row or its judgement does
\* not touch its label; these three leave the labels that `purge` keeps.
LEMMA KeptLabels ==
    ASSUME IInv, [Next]_vars, NEW t \in Turn, Kept(t)
    PROVE  prov'[t] = prov[t]
<1>. USE DEF IInv, TypeOK
<1>1. ASSUME NEW u \in Turn, NEW at \in 1..MaxTime, NEW clash \in BOOLEAN,
             PromptEvent(u, at, clash)
      PROVE  prov'[t] = prov[t]
  <2>1. t \notin Reopened(u)  BY DEF Reopened
  <2>. QED  BY <1>1, <2>1 DEF PromptEvent
<1>2. CASE ScanBatch
  <2>1. t \notin Rejudged  BY DEF Rejudged
  <2>. QED  BY <1>2, <2>1 DEF ScanBatch
<1>3. CASE Decide
  <2>1. verdict.turn \in Stored /\ queue[verdict.turn] # "none"
    BY <1>3 DEF QueueInv, InHand, Decide
  <2>2. verdict.turn # t  BY <2>1 DEF QueueInv, QueueIsExact, Kept
  <2>. QED  BY <1>3, <2>2 DEF Decide
<1>4. CASE UNCHANGED prov  BY <1>4
<1>5. CASE Clock \/ AppendRow \/ PurgeAll \/ WorkerStarts \/ WorkerFails
  BY <1>5 DEF Clock, AppendRow, PurgeAll, Purge, WorkerStarts, WorkerFails, judgement
<1>6. ASSUME NEW u \in Turn, NEW at \in 1..MaxTime, OtherEvent(u, at)
      PROVE  prov' = prov
  BY <1>6 DEF OtherEvent
<1>7. ASSUME NEW before \in 1..MaxTime, PurgeBefore(before)
      PROVE  prov' = prov
  BY <1>7 DEF PurgeBefore, Purge, judgement
<1>8. ASSUME NEW hour \in SUBSET Later, List(hour)
      PROVE  prov' = prov
  BY <1>8 DEF List, judgement
<1>9. ASSUME NEW u \in Turn, Judge(u)
      PROVE  prov' = prov
  BY <1>9 DEF Judge, judgement
<1>10. CASE UNCHANGED vars  BY <1>10 DEF vars, judgement
<1>. QED
  BY <1>1, <1>2, <1>3, <1>4, <1>5, <1>6, <1>7, <1>8, <1>9, <1>10
     DEF Next, WorkerStep, Environment

\* No prompt, row or judgement takes a label away that `purge` keeps.
THEOREM LabelsSurvivePurge ==
    Spec => FinalLabelSurvivesPurge
<1>1. IInv /\ [Next]_vars => [\A t \in Turn : Kept(t) => prov'[t] = prov[t]]_vars
  <2>. SUFFICES ASSUME IInv, [Next]_vars
                PROVE  \A t \in Turn : Kept(t) => prov'[t] = prov[t]
    OBVIOUS
  <2>. QED  BY KeptLabels
<1>. QED  BY <1>1, Invariance, PTL DEF Spec, FinalLabelSurvivesPurge

-----------------------------------------------------------------------------
(* The labels *)

\* The row of ListCodexPending for the k-th turn, had only the first n turns
\* been there.
RowThen(k, n) ==
    LET t == turns[k]
        later == {start[turns[i]] : i \in (k + 1)..n}
    IN  [turn |-> t, start |-> start[t],
         next |-> IF later = {} THEN 0 ELSE Min(later),
         alone |-> \A i \in 1..n : i # k => start[turns[i]] # start[t],
         named |-> prompt[t] # "none",
         body |-> prompt[t] # "none" /\ ~ purged[t],
         conflict |-> prompt[t] = "conflict"]

\* The first n turns are enough to judge the k-th: the next one is among them,
\* or has yet to get its prompt.
Enough(k, n) ==
    /\ n \in k..Len(turns)
    /\ n = k /\ n < Len(turns) => prompt[turns[n + 1]] = "none"

\* The row p is still what a judgement of t may be made from.
Current(t, p) ==
    \E k \in DOMAIN turns, n \in DOMAIN turns :
        turns[k] = t /\ Enough(k, n) /\ p = RowThen(k, n)

\* What is listed, judged and settled of a turn comes from a current row.
JudgedTruly(t) ==
    /\ t \in DOMAIN listed => Current(t, listed[t])
    /\ verdict.turn = t => \E p : Current(t, p) /\ verdict = Classify(p)
    /\ Settled(t) => \E p : Current(t, p) /\ prov[t].label = Classify(p).label

\* A turn has no prompt before it is stored, and between two lists the worker
\* has nothing in hand.
CurrentInv ==
    /\ pc \notin {"judge", "decide"} => DOMAIN listed = {}
    /\ \A t \in Turn \ Stored : prompt[t] = "none"
    /\ \A t \in Turn : ~ purged[t] /\ t \notin overtaken => JudgedTruly(t)

\* What is listed now of a stored turn is current.
LEMMA RowIsThen ==
    ASSUME TypeOK, NEW t \in Stored
    PROVE  /\ Position(t) \in DOMAIN turns
           /\ turns[Position(t)] = t
           /\ Row(t) = RowThen(Position(t), Len(turns))
<1>. DEFINE k == Position(t)
<1>0. Len(turns) \in Nat /\ DOMAIN turns = 1..Len(turns)  BY DEF TypeOK
<1>1. k \in 1..Len(turns) /\ turns[k] = t
  BY <1>0 DEF Stored, ToSet, Position
<1>2. \A i \in 1..Len(turns) : turns[i] = t => i = k
  BY <1>0, <1>1 DEF TypeOK, IsInjective
<1>3. Stored = {turns[i] : i \in 1..Len(turns)}
  BY <1>0 DEF Stored, ToSet
<1>4. (\A u \in Stored \ {t} : start[u] # start[t])
        <=> (\A i \in 1..Len(turns) : i # k => start[turns[i]] # start[t])
  BY <1>1, <1>2, <1>3
<1>. HIDE DEF k
<1>5. Row(t) = RowThen(k, Len(turns))
  BY <1>1, <1>4 DEF Row, RowThen, k
<1>. QED  BY <1>0, <1>1, <1>5 DEF k

\* So it may be judged from.
LEMMA RowIsCurrent ==
    ASSUME TypeOK, NEW t \in Stored
    PROVE  Current(t, Row(t))
<1>0. Len(turns) \in Nat /\ DOMAIN turns = 1..Len(turns)  BY DEF TypeOK
<1>1. /\ Position(t) \in DOMAIN turns /\ turns[Position(t)] = t
      /\ Row(t) = RowThen(Position(t), Len(turns))
  BY RowIsThen
<1>2. Len(turns) \in DOMAIN turns /\ Enough(Position(t), Len(turns))
  BY <1>0, <1>1 DEF Enough
<1>. QED  BY <1>1, <1>2 DEF Current

\* Where every turn has its prompt and the turns are in the order of their
\* starts, the next turn says all that a row says of the others.
LEMMA CurrentIsRow ==
    ASSUME TypeOK, Orderly, NEW t \in Stored, NEW p, Current(t, p)
    PROVE  p = Row(t)
<1>0. Len(turns) \in Nat /\ DOMAIN turns = 1..Len(turns)  BY DEF TypeOK
<1>1. PICK k \in DOMAIN turns, n \in DOMAIN turns :
         turns[k] = t /\ Enough(k, n) /\ p = RowThen(k, n)
  BY DEF Current
<1>. DEFINE m == Len(turns)
<1>2. k \in 1..m /\ n \in k..m /\ m \in Nat  BY <1>0, <1>1 DEF Enough
<1>3. Position(t) = k
  BY <1>0, <1>1, RowIsThen DEF TypeOK, IsInjective
<1>4. Row(t) = RowThen(k, m)  BY <1>3, RowIsThen
<1>5. n = k => n = m
  <2>1. ASSUME n = k, n < m PROVE FALSE
    <3>1. turns[n + 1] \in Stored  BY <1>0, <1>2, <2>1 DEF Stored, ToSet
    <3>2. prompt[turns[n + 1]] = "none"  BY <1>1, <2>1 DEF Enough
    <3>. QED  BY <3>1, <3>2 DEF Orderly
  <2>. QED  BY <1>2, <2>1
<1>. DEFINE S == [i \in 1..m |-> start[turns[i]]]
<1>6. \A i \in 1..m : S[i] \in Nat
  <2>1. \A i \in 1..m : turns[i] \in Turn  BY <1>0 DEF TypeOK
  <2>. QED  BY <2>1, CodexAssumption DEF TypeOK
<1>7. \A i, j \in 1..m : i < j => S[i] <= S[j]  BY DEF Orderly
<1>8. CASE n = m  BY <1>1, <1>4, <1>8
<1>9. CASE n # m
  <2>1. k + 1 \in 1..n /\ n \in 1..m /\ k + 1 <= n  BY <1>2, <1>5, <1>9
  <2>. DEFINE next(q) == {start[turns[i]] : i \in (k + 1)..q}
  <2>2. ASSUME NEW q \in {n, m} PROVE next(q) # {} /\ Min(next(q)) = S[k + 1]
    <3>1. q \in 1..m /\ k + 1 <= q /\ k + 1 \in 1..m  BY <1>2, <2>1
    <3>2. S[k + 1] \in next(q)  BY <1>2, <3>1
    <3>3. \A x \in next(q) : x \in Nat /\ S[k + 1] <= x
      <4>1. ASSUME NEW i \in (k + 1)..q PROVE S[i] \in Nat /\ S[k + 1] <= S[i] /\ start[turns[i]] = S[i]
        <5>1. i \in 1..m /\ k + 1 \in 1..m  BY <1>2, <3>1
        <5>. HIDE DEF S
        <5>2. S[i] \in Nat /\ S[k + 1] \in Nat  BY <5>1, <1>6
        <5>3. S[k + 1] <= S[i]
          <6>1. CASE i = k + 1  BY <6>1, <5>2
          <6>2. CASE i # k + 1
            <7>1. k + 1 < i  BY <6>2, <1>2
            <7>. QED  BY <7>1, <5>1, <1>7
          <6>. QED  BY <6>1, <6>2
        <5>4. start[turns[i]] = S[i]  BY <5>1 DEF S
        <5>. QED  BY <5>2, <5>3, <5>4
      <4>. QED  BY <4>1
    <3>4. S[k + 1] \in Nat  BY <3>2, <3>3
    <3>. HIDE DEF S, next
    <3>5. Min(next(q)) = S[k + 1]  BY <3>2, <3>3, <3>4 DEF Min
    <3>. QED  BY <3>2, <3>5
  <2>3. ASSUME NEW q \in {n, m}
        PROVE  (\A i \in 1..q : i # k => start[turns[i]] # start[t])
                 <=> (S[k + 1] # S[k] /\ \A i \in 1..(k - 1) : S[i] # S[k])
    <3>1. q \in 1..m /\ k + 1 <= q /\ k + 1 \in 1..m /\ k \in 1..m  BY <1>2, <2>1
    <3>2. start[t] = S[k]  BY <1>1, <3>1
    <3>3. \A i \in 1..q : i \in 1..m /\ start[turns[i]] = S[i]  BY <1>2, <3>1
    <3>. HIDE DEF S
    <3>4. (\A i \in 1..q : i # k => S[i] # S[k]) => S[k + 1] # S[k] /\ \A i \in 1..(k - 1) : S[i] # S[k]
      BY <3>1, <1>2
    <3>5. ASSUME S[k + 1] # S[k], \A i \in 1..(k - 1) : S[i] # S[k],
                 NEW i \in 1..q, i # k
          PROVE  S[i] # S[k]
      <4>1. CASE i < k  BY <4>1, <3>5, <3>1
      <4>2. CASE i > k
        <5>1. i \in 1..m /\ (k + 1 < i \/ k + 1 = i)  BY <4>2, <3>1, <3>3
        <5>2. S[k + 1] <= S[i]  
          <6>1. CASE k + 1 = i  BY <6>1, <1>6, <3>1
          <6>2. CASE k + 1 < i  BY <6>2, <5>1, <3>1, <1>7
          <6>. QED  BY <5>1, <6>1, <6>2
        <5>3. S[k] <= S[k + 1]  BY <3>1, <1>7
        <5>. QED  BY <5>1, <5>2, <5>3, <3>5, <3>1, <1>6
      <4>. QED  BY <4>1, <4>2, <3>5, <3>1
    <3>. QED  BY <3>2, <3>3, <3>4, <3>5
  <2>. HIDE DEF S
  <2>4. RowThen(k, n).next = RowThen(k, m).next  BY <2>2 DEF RowThen
  <2>5. RowThen(k, n).alone = RowThen(k, m).alone  
    <3>1. (\A i \in 1..n : i # k => start[turns[i]] # start[t]) <=> (\A i \in 1..m : i # k => start[turns[i]] # start[t])
      BY <2>3
    <3>. QED  BY <1>1, <3>1 DEF RowThen
  <2>6. RowThen(k, n) = RowThen(k, m)  BY <2>4, <2>5 DEF RowThen
  <2>. QED  BY <1>1, <1>4, <2>6
<1>. QED  BY <1>8, <1>9

\* What leaves the turns, their starts and their prompts alone leaves a row
\* current, unless it is of a turn that is purged.
LEMMA CurrentStays ==
    ASSUME NEW t, NEW p, Current(t, p), UNCHANGED <<turns, start, prompt>>, purged'[t] = purged[t]
    PROVE  Current(t, p)'
<1>1. PICK k \in DOMAIN turns, n \in DOMAIN turns :
         turns[k] = t /\ Enough(k, n) /\ p = RowThen(k, n)
  BY DEF Current
<1>2. turns' = turns /\ start' = start /\ prompt' = prompt  OBVIOUS
<1>3. RowThen(k, n)' = RowThen(k, n)  BY <1>1, <1>2 DEF RowThen
<1>4. Enough(k, n)'  BY <1>1, <1>2 DEF Enough
<1>. QED  BY <1>1, <1>2, <1>3, <1>4 DEF Current

\* Telemetry of another turn leaves a row current, unless it brings the prompt
\* of the turn after.
LEMMA CurrentGrows ==
    ASSUME TypeOK, NEW t, NEW p, Current(t, p), NEW u \in Turn, u # t, NEW at, Open(u, at),
           purged' = purged, prompt' \in [Turn -> {"none", "stored", "conflict"}],
           \A v \in Turn \ {u} : prompt'[v] = prompt[v],
           prompt'[u] # "none" => t \notin Before(u)
    PROVE  Current(t, p)'
<1>1. PICK k \in DOMAIN turns, n \in DOMAIN turns :
         turns[k] = t /\ Enough(k, n) /\ p = RowThen(k, n)
  BY DEF Current
<1>. DEFINE m == Len(turns)
<1>2. m \in Nat /\ DOMAIN turns = 1..m /\ \A i \in 1..m : turns[i] \in Turn  BY DEF TypeOK
<1>3. k \in 1..m /\ n \in k..m  BY <1>1, <1>2 DEF Enough
<1>4. /\ turns' \in Seq(Turn) /\ Len(turns') \in {m, m + 1}
      /\ \A i \in 1..m : turns'[i] = turns[i] /\ start'[turns[i]] = start[turns[i]]
      /\ Len(turns') = m + 1 => turns'[m + 1] = u /\ u \notin Stored
  <2>1. CASE u \in Stored
    <3>1. turns' = turns /\ start' = start  BY <2>1 DEF Open
    <3>2. Len(turns') = m  BY <3>1, Zenon
    <3>3. m # m + 1
      <4>1. m \in Nat  BY <1>2
      <4>. HIDE DEF m
      <4>. QED  BY <4>1
    <3>. QED  BY <3>1, <3>2, <3>3 DEF TypeOK
  <2>2. CASE u \notin Stored
    <3>1. turns' = Append(turns, u) /\ start' = [start EXCEPT ![u] = at]  BY <2>2 DEF Open
    <3>2. \A i \in 1..m : turns[i] # u /\ turns[i] \in Turn  BY <2>2, <1>2 DEF Stored, ToSet
    <3>. QED  BY <3>1, <3>2, <1>2, <2>2 DEF TypeOK
  <2>. QED  BY <2>1, <2>2
<1>5. turns'[k] = t /\ k \in DOMAIN turns' /\ n \in DOMAIN turns' /\ t \in Turn
  BY <1>1, <1>2, <1>3, <1>4
<1>6. /\ start'[t] = start[t] /\ prompt'[t] = prompt[t] /\ purged'[t] = purged[t]
  BY <1>1, <1>3, <1>4, <1>5
<1>7. RowThen(k, n)' = RowThen(k, n)
  <2>1. \A i \in 1..n : i \in 1..m /\ turns'[i] = turns[i] /\ start'[turns[i]] = start[turns[i]]
    BY <1>2, <1>3, <1>4
  <2>2. \A i \in (k + 1)..n : i \in 1..n  BY <1>2, <1>3
  <2>3. {start[turns[i]] : i \in (k + 1)..n}' = {start[turns[i]] : i \in (k + 1)..n}
    BY <2>1, <2>2
  <2>4. (\A i \in 1..n : i # k => start[turns[i]] # start[t])'
          <=> (\A i \in 1..n : i # k => start[turns[i]] # start[t])
    BY <2>1, <1>6
  <2>. QED  BY <2>3, <2>4, <1>1, <1>5, <1>6, ZenonT(60) DEF RowThen
<1>8. Enough(k, n)'
  <2>1. n \in k..Len(turns')  BY <1>2, <1>3, <1>4
  <2>2. ASSUME n = k, n < Len(turns') PROVE prompt'[turns'[n + 1]] = "none"
    <3>1. CASE n < m
      <4>1. prompt[turns[n + 1]] = "none"  BY <1>1, <2>2, <3>1 DEF Enough
      <4>2. n + 1 \in 1..m /\ turns'[n + 1] = turns[n + 1] /\ turns[n + 1] \in Turn
        BY <1>2, <1>3, <1>4, <3>1
      <4>3. CASE turns[n + 1] # u  BY <4>1, <4>2, <4>3
      <4>4. CASE turns[n + 1] = u
        <5>1. u \in Stored  BY <4>4, <4>2, <1>2 DEF Stored, ToSet
        <5>2. Position(u) \in 1..m /\ turns[Position(u)] = u  BY <5>1, <1>2, RowIsThen
        <5>3. Position(u) = n + 1  BY <5>2, <4>2, <4>4, <1>2 DEF TypeOK, IsInjective
        <5>4. t \in Before(u)  BY <5>1, <5>3, <1>1, <1>2, <1>3, <2>2 DEF Before
        <5>5. prompt'[u] = "none"  BY <5>4
        <5>. QED  BY <5>5, <4>2, <4>4
      <4>. QED  BY <4>3, <4>4
    <3>2. CASE n = m
      <4>1. turns'[n + 1] = u /\ u \notin Stored  BY <1>2, <1>4, <2>2, <3>2
      <4>2. t \in Before(u)
        <5>1. m \in {(m + 1) - 1} \cap 1..m /\ turns[m] = t  BY <1>1, <1>2, <1>3, <2>2, <3>2
        <5>. QED  BY <4>1, <5>1 DEF Before
      <4>3. prompt'[u] = "none"  BY <4>2
      <4>. QED  BY <4>1, <4>3
    <3>. QED  BY <3>1, <3>2, <1>2, <1>3
  <2>. QED  BY <2>1, <2>2 DEF Enough
<1>. QED  BY <1>5, <1>7, <1>8, <1>1 DEF Current

\* The verdict on a row depends on the rows of the file that are committed and
\* that purge leaves.
LEMMA ClassifyStays ==
    ASSUME NEW p, UNCHANGED committed, \A i \in 1..Committed : file'[i] = file[i],
           \A i \in Eligible(p) : file[i].at >= tombstone' <=> file[i].at >= tombstone
    PROVE  Classify(p)' = Classify(p)
<1>0. Committed' = Committed  BY DEF Committed
<1>1. Eligible(p)' = Eligible(p)  BY <1>0 DEF Eligible
<1>2. \A i \in Eligible(p) : file'[i] = file[i]  BY DEF Eligible
<1>3. {i \in Eligible(p) : p.named /\ file[i].turn = p.turn}' = {i \in Eligible(p) : p.named /\ file[i].turn = p.turn}
  BY <1>1, <1>2
<1>. DEFINE byBody == {i \in Eligible(p) :
                     /\ p.body /\ p.alone /\ (p.next = 0 \/ p.next > p.start)
                     /\ file[i].at >= tombstone
                     /\ file[i].turn = NoTurn}
<1>4. byBody' = byBody  BY <1>1, <1>2
<1>. HIDE DEF byBody
<1>5. Matches(p)' = Matches(p)  BY <1>3, <1>4 DEF Matches, byBody
<1>6. Matches(p) \subseteq Eligible(p)  BY DEF Matches
<1>7. {file[i].source : i \in Matches(p)}' = {file[i].source : i \in Matches(p)}
  BY <1>2, <1>5, <1>6
<1>. QED  BY <1>5, <1>7 DEF Classify

\* Where rows stay current and the turn is in the same hands, its judgement is
\* true as before.
LEMMA JudgedStays ==
    ASSUME NEW t, JudgedTruly(t),
           \A p : Current(t, p) => Current(t, p)' /\ Classify(p)' = Classify(p),
           t \in DOMAIN listed' => t \in DOMAIN listed /\ listed'[t] = listed[t],
           verdict'.turn = t => verdict' = verdict,
           Settled(t)' => Settled(t) /\ prov'[t] = prov[t]
    PROVE  JudgedTruly(t)'
<1>1. (t \in DOMAIN listed => Current(t, listed[t]))'
  <2>. SUFFICES ASSUME t \in DOMAIN listed' PROVE Current(t, listed[t])'  OBVIOUS
  <2>1. t \in DOMAIN listed /\ listed'[t] = listed[t]  OBVIOUS
  <2>2. PICK p : p = listed[t]  OBVIOUS
  <2>3. Current(t, p)  BY <2>1, <2>2 DEF JudgedTruly
  <2>4. Current(t, p)'  BY <2>3
  <2>5. p = listed'[t]  BY <2>1, <2>2
  <2>. QED  BY <2>4, <2>5
<1>2. (verdict.turn = t => \E p : Current(t, p) /\ verdict = Classify(p))'
  <2>. SUFFICES ASSUME verdict'.turn = t
                PROVE  \E p : Current(t, p)' /\ verdict' = Classify(p)'
    OBVIOUS
  <2>1. verdict' = verdict  OBVIOUS
  <2>2. PICK p : Current(t, p) /\ verdict = Classify(p)  BY <2>1 DEF JudgedTruly
  <2>. QED  BY <2>1, <2>2
<1>3. (Settled(t) => \E p : Current(t, p) /\ prov[t].label = Classify(p).label)'
  <2>. SUFFICES ASSUME Settled(t)'
                PROVE  \E p : Current(t, p)' /\ prov'[t].label = Classify(p)'.label
    OBVIOUS
  <2>1. Settled(t) /\ prov'[t] = prov[t]  OBVIOUS
  <2>2. PICK p : Current(t, p) /\ prov[t].label = Classify(p).label  BY <2>1 DEF JudgedTruly
  <2>. QED  BY <2>1, <2>2
<1>. QED  BY <1>1, <1>2, <1>3 DEF JudgedTruly

\* A step that leaves the evidence of a turn that is not purged alone.
LEMMA EvidenceStays ==
    ASSUME NEW t, NEW p, Current(t, p), UNCHANGED <<turns, start, prompt, committed>>,
           purged'[t] = purged[t], \A i \in 1..Committed : file'[i] = file[i],
           tombstone' = tombstone
    PROVE  Current(t, p)' /\ Classify(p)' = Classify(p)
  BY CurrentStays, ClassifyStays

\* Time, new rows of the file, and workers that start or fail say nothing of
\* any turn.
LEMMA ClockCurrent ==
    ASSUME TypeOK, CurrentInv, Clock \/ AppendRow \/ WorkerStarts \/ WorkerFails \/ UNCHANGED vars
    PROVE  CurrentInv'
<1>1. /\ UNCHANGED <<turns, start, prompt, purged, tombstone, committed, prov, overtaken>>
      /\ UNCHANGED listed \/ DOMAIN listed' = {}
      /\ UNCHANGED verdict \/ verdict' = NoVerdict
      /\ \A t \in Turn : queue'[t] = "none" => queue[t] = "none"
      /\ pc' \notin {"judge", "decide"} => pc \notin {"judge", "decide"} \/ DOMAIN listed' = {}
  BY DEF Clock, AppendRow, WorkerStarts, WorkerFails, vars, source, evidence, judgement, worker, TypeOK
<1>2. \A i \in 1..Committed : file'[i] = file[i]
  <2>1. CASE AppendRow
    <3>1. PICK kind \in RowKinds[Len(file) + 1] :
            file' = Append(file, [at |-> now, source |-> kind.source, turn |-> kind.turn])
      BY <2>1 DEF AppendRow
    <3>2. Committed \in 0..Len(file) /\ Len(file) \in Nat  BY DEF TypeOK, Committed
    <3>. QED  BY <3>1, <3>2 DEF TypeOK
  <2>2. CASE UNCHANGED file  BY <2>2
  <2>. QED
    BY <2>1, <2>2 DEF Clock, WorkerStarts, WorkerFails, vars, source
<1>3. \A t \in Turn \ Stored' : prompt'[t] = "none"  BY <1>1 DEF CurrentInv, Stored
<1>4. ASSUME NEW t \in Turn, ~ purged'[t], t \notin overtaken'
      PROVE  JudgedTruly(t)'
  <2>1. JudgedTruly(t)  BY <1>1, <1>4 DEF CurrentInv
  <2>2. \A p : Current(t, p) => Current(t, p)' /\ Classify(p)' = Classify(p)
    BY <1>1, <1>2, EvidenceStays
  <2>3. NoVerdict.turn # t  BY CodexAssumption DEF NoVerdict
  <2>4. Settled(t)' => Settled(t)  BY <1>1 DEF Settled, Stored
  <2>. QED  BY <1>1, <2>1, <2>2, <2>3, <2>4, JudgedStays
<1>5. (pc \notin {"judge", "decide"} => DOMAIN listed = {})'  BY <1>1 DEF CurrentInv
<1>. QED  BY <1>3, <1>4, <1>5 DEF CurrentInv

\* What purge takes away was no evidence of the turns it leaves: it takes
\* the turns that begin before the time it names.
LEMMA PurgeCurrent ==
    ASSUME TypeOK, CurrentInv, NEW of, NEW before \in 1..MaxTime, Purge(of, before),
           \A t \in Stored \ of : start[t] >= before
    PROVE  CurrentInv'
<1>1. /\ UNCHANGED <<turns, start, prompt, committed, file, prov, queue, pc, listed, verdict, overtaken>>
      /\ \A t \in Turn : purged'[t] = (purged[t] \/ t \in of)
      /\ tombstone' = Max({tombstone, before})
  BY DEF Purge, source, judgement, worker
<1>2. tombstone \in Int /\ before \in Int  BY CodexAssumption DEF TypeOK
<1>3. tombstone' = IF tombstone <= before THEN before ELSE tombstone
  BY <1>1, <1>2, MaxOfTwo
<1>4. ASSUME NEW t \in Turn, ~ purged'[t], t \notin overtaken'
      PROVE  JudgedTruly(t)'
  <2>1. ~ purged[t] /\ t \notin of  BY <1>1, <1>4
  <2>2. JudgedTruly(t) /\ purged'[t] = purged[t]
    <3>1. JudgedTruly(t)  BY <1>1, <1>4, <2>1 DEF CurrentInv
    <3>2. purged[t] = FALSE  BY <2>1 DEF TypeOK
    <3>3. purged'[t] = FALSE
      <4>1. purged'[t] \in BOOLEAN  BY <1>1, Zenon
      <4>. QED  BY <4>1, <1>4
    <3>. QED  BY <3>1, <3>2, <3>3
  <2>3. ASSUME NEW p, Current(t, p)
        PROVE  Current(t, p)' /\ Classify(p)' = Classify(p)
    <3>1. Current(t, p)'  BY <1>1, <2>2, <2>3, CurrentStays
    <3>2. t \in Stored /\ p.start = start[t]
      BY <2>3 DEF Current, RowThen, Stored, ToSet
    <3>3. start[t] >= before /\ start[t] \in Int  BY <2>1, <3>2, CodexAssumption DEF TypeOK
    <3>4. Committed \in 0..Len(file)  BY DEF TypeOK, Committed
    <3>5. ASSUME NEW i \in Eligible(p)
          PROVE  file[i].at >= tombstone' <=> file[i].at >= tombstone
      <4>1. i \in 1..Committed /\ file[i].at >= start[t]  BY <3>2 DEF Eligible
      <4>2. file[i].at \in Int
        <5>. DEFINE R == [at : 1..MaxTime, source : Source \cup {"unsupported", "bad"},
                          turn : Turn \cup {NoTurn}]
        <5>1. file \in Seq(R)  BY DEF TypeOK
        <5>2. file[i] \in R
          <6>. HIDE DEF R
          <6>1. i \in 1..Len(file)  BY <3>4, <4>1, <5>1
          <6>. QED  BY <5>1, <6>1
        <5>. QED  BY <5>2, CodexAssumption
      <4>3. file[i].at >= before  BY <4>1, <4>2, <3>3, <1>2
      <4>. QED  BY <4>2, <4>3, <1>2, <1>3
    <3>6. Classify(p)' = Classify(p)  BY <1>1, <3>5, ClassifyStays
    <3>. QED  BY <3>1, <3>6
  <2>4. Settled(t)' => Settled(t)  BY <1>1 DEF Settled, Stored
  <2>. QED  BY <1>1, <2>2, <2>3, <2>4, JudgedStays
<1>. QED  BY <1>1, <1>4 DEF CurrentInv, Stored

\* A batch of the file puts all turns that are not kept back in the queue, and
\* the worker has none in hand.
LEMMA ScanCurrent ==
    ASSUME TypeOK, CurrentInv, ScanBatch
    PROVE  CurrentInv'
<1>1. DOMAIN listed = {} /\ UNCHANGED <<turns, prompt, purged, listed, verdict, overtaken>>
      /\ pc # "decide" /\ pc' = "scan"
  BY DEF CurrentInv, ScanBatch, evidence
<1>2. ASSUME NEW t \in Turn, ~ purged'[t], t \notin overtaken'
      PROVE  JudgedTruly(t)'
  <2>1. verdict'.turn # t /\ t \notin DOMAIN listed'  BY <1>1 DEF TypeOK
  <2>2. t \in Stored' => queue'[t] = "due"
    BY <1>1, <1>2 DEF ScanBatch, Rejudged, Kept, Stored
  <2>. QED  BY <2>1, <2>2 DEF JudgedTruly, Settled
<1>. QED  BY <1>1, <1>2 DEF CurrentInv, Stored

\* What is listed is what is known now.
LEMMA ListCurrent ==
    ASSUME TypeOK, QueueInv, CurrentInv, NEW hour \in SUBSET Later, List(hour)
    PROVE  CurrentInv'
<1>1. /\ UNCHANGED <<turns, start, prompt, purged, tombstone, file, committed, prov, queue, verdict>>
      /\ DOMAIN listed' = Due \cup hour
      /\ \A t \in Due \cup hour : listed'[t] = Row(t)
      /\ overtaken' = overtaken \ (Due \cup hour)
      /\ pc' = After(listed')
      /\ pc # "decide"
  BY DEF List, source, evidence, judgement, MayList
<1>2. Due \cup hour \subseteq Stored
  BY DEF QueueInv, Untouched, Due, Later
<1>3. ASSUME NEW t \in Turn, ~ purged'[t], t \notin overtaken'
      PROVE  JudgedTruly(t)'
  <2>1. verdict'.turn # t  BY <1>1 DEF TypeOK
  <2>2. CASE t \in Due \cup hour
    <3>1. PICK p : p = Row(t)  OBVIOUS
    <3>2. Current(t, p)  BY <1>2, <2>2, <3>1, RowIsCurrent
    <3>3. Current(t, p)'  BY <1>1, <3>2, CurrentStays
    <3>4. p = listed'[t]  BY <1>1, <2>2, <3>1
    <3>5. Current(t, listed[t])'  BY <3>3, <3>4
    <3>6. ~ Settled(t)'  BY <1>1, <2>2 DEF Settled, Due, Later
    <3>. QED  BY <2>1, <3>5, <3>6 DEF JudgedTruly
  <2>3. CASE t \notin Due \cup hour
    <3>1. JudgedTruly(t)  BY <1>1, <1>3, <2>3 DEF CurrentInv
    <3>2. \A p : Current(t, p) => Current(t, p)' /\ Classify(p)' = Classify(p)
      BY <1>1, EvidenceStays
    <3>3. Settled(t)' => Settled(t)  BY <1>1 DEF Settled, Stored
    <3>. QED  BY <1>1, <2>1, <2>3, <3>1, <3>2, <3>3, JudgedStays
  <2>. QED  BY <2>2, <2>3
<1>4. (pc \notin {"judge", "decide"} => DOMAIN listed = {})'  BY <1>1 DEF After
<1>. QED  BY <1>1, <1>3, <1>4 DEF CurrentInv, Stored

\* What is judged is what was listed.
LEMMA JudgeCurrent ==
    ASSUME TypeOK, QueueInv, CurrentInv, NEW t \in Turn, Judge(t)
    PROVE  CurrentInv'
<1>1. /\ UNCHANGED <<turns, start, prompt, purged, tombstone, file, committed, prov, queue, overtaken>>
      /\ t \in DOMAIN listed /\ DOMAIN listed' = DOMAIN listed \ {t}
      /\ \A u \in DOMAIN listed' : listed'[u] = listed[u]
      /\ verdict' = Classify(listed[t]) /\ pc' = "decide"
      /\ listed[t].turn = t
  BY DEF Judge, source, evidence, judgement, QueueInv, InHand
<1>2. verdict'.turn = t  BY <1>1, ClassifyTypes
<1>3. ASSUME NEW u \in Turn, ~ purged'[u], u \notin overtaken'
      PROVE  JudgedTruly(u)'
  <2>1. JudgedTruly(u)  BY <1>1, <1>3 DEF CurrentInv
  <2>2. \A p : Current(u, p) => Current(u, p)' /\ Classify(p)' = Classify(p)
    BY <1>1, EvidenceStays
  <2>3. Settled(u)' => Settled(u)  BY <1>1 DEF Settled, Stored
  <2>4. CASE u # t  BY <1>1, <1>2, <2>1, <2>2, <2>3, <2>4, JudgedStays
  <2>5. CASE u = t
    <3>1. PICK p : p = listed[t]  OBVIOUS
    <3>2. Current(t, p) /\ verdict' = Classify(p)  BY <1>1, <2>1, <2>5, <3>1 DEF JudgedTruly
    <3>3. Current(t, p)' /\ verdict' = Classify(p)'  BY <2>2, <2>5, <3>2
    <3>4. (\E q : Current(t, q) /\ verdict = Classify(q))'  BY <3>3
    <3>5. (Settled(t) => \E q : Current(t, q) /\ prov[t].label = Classify(q).label)'
      <4>. SUFFICES ASSUME Settled(t)'
                    PROVE  \E q : Current(t, q)' /\ prov'[t].label = Classify(q)'.label
        OBVIOUS
      <4>1. PICK q : Current(t, q) /\ prov[t].label = Classify(q).label
        BY <2>1, <2>3, <2>5 DEF JudgedTruly
      <4>. QED  BY <1>1, <2>2, <2>5, <4>1
    <3>. QED  BY <1>1, <2>5, <3>4, <3>5 DEF JudgedTruly
  <2>. QED  BY <2>4, <2>5
<1>. QED  BY <1>1, <1>3 DEF CurrentInv, Stored

\* What is committed is what was judged.
LEMMA DecideCurrent ==
    ASSUME TypeOK, QueueInv, CurrentInv, Decide
    PROVE  CurrentInv'
<1>. DEFINE v == verdict.turn
<1>1. /\ UNCHANGED <<turns, start, prompt, purged, tombstone, file, committed, listed, overtaken>>
      /\ verdict' = NoVerdict /\ pc' = After(listed)
      /\ \A t \in Turn \ {v} : prov'[t] = prov[t] /\ queue'[t] = queue[t]
      /\ v \in Turn => prov'[v].label = verdict.label
  BY DEF Decide, source, evidence, TypeOK
<1>2. ASSUME NEW t \in Turn, ~ purged'[t], t \notin overtaken'
      PROVE  JudgedTruly(t)'
  <2>1. JudgedTruly(t)  BY <1>1, <1>2 DEF CurrentInv
  <2>2. \A p : Current(t, p) => Current(t, p)' /\ Classify(p)' = Classify(p)
    BY <1>1, EvidenceStays
  <2>3. verdict'.turn # t  BY <1>1, CodexAssumption DEF NoVerdict
  <2>4. CASE t # v
    <3>1. Settled(t)' => Settled(t)  BY <1>1, <2>4 DEF Settled, Stored
    <3>. QED  BY <1>1, <2>1, <2>2, <2>3, <2>4, <3>1, JudgedStays
  <2>5. CASE t = v
    <3>1. t \notin DOMAIN listed'  BY <1>1, <2>5 DEF QueueInv, InHand, Decide
    <3>2. PICK p : Current(t, p) /\ verdict = Classify(p)  BY <2>1, <2>5 DEF JudgedTruly
    <3>3. Current(t, p)' /\ prov'[t].label = Classify(p)'.label  BY <1>1, <2>2, <2>5, <3>2
    <3>4. (\E q : Current(t, q) /\ prov[t].label = Classify(q).label)'  BY <3>3
    <3>. QED  BY <2>3, <3>1, <3>4 DEF JudgedTruly
  <2>. QED  BY <2>4, <2>5
<1>3. (pc \notin {"judge", "decide"} => DOMAIN listed = {})'  BY <1>1 DEF After
<1>. QED  BY <1>1, <1>2, <1>3 DEF CurrentInv, Stored

\* An event that opens a turn says nothing of the others until it has a prompt.
LEMMA OtherEventCurrent ==
    ASSUME TypeOK, QueueInv, CurrentInv, NEW u \in Turn, NEW at \in 1..MaxTime, OtherEvent(u, at)
    PROVE  CurrentInv'
<1>1. /\ UNCHANGED <<prompt, purged, tombstone, file, committed, prov, pc, listed, verdict, overtaken>>
      /\ u \notin Stored /\ Open(u, at) /\ queue'[u] = "due"
      /\ \A t \in Turn \ {u} : queue'[t] = queue[t]
  BY DEF OtherEvent, source, worker, TypeOK
<1>2. Stored' = Stored \cup {u}  BY <1>1, OpenTurn DEF TypeOK
<1>3. prompt' \in [Turn -> {"none", "stored", "conflict"}] /\ prompt'[u] = "none"
  BY <1>1 DEF TypeOK, CurrentInv
<1>4. ASSUME NEW t \in Turn, ~ purged'[t], t \notin overtaken'
      PROVE  JudgedTruly(t)'
  <2>1. JudgedTruly(t)  BY <1>1, <1>4 DEF CurrentInv
  <2>2. CASE t = u
    <3>1. t \notin DOMAIN listed'  BY <1>1, <2>2 DEF TypeOK
    <3>2. verdict'.turn # t  BY <1>1, <2>2 DEF TypeOK, QueueInv, InHand
    <3>3. ~ Settled(t)'  BY <1>1, <2>2 DEF Settled
    <3>. QED  BY <3>1, <3>2, <3>3 DEF JudgedTruly
  <2>3. CASE t # u
    <3>1. ASSUME NEW p, Current(t, p) PROVE Current(t, p)' /\ Classify(p)' = Classify(p)
      <4>1. Current(t, p)'  BY <1>1, <1>3, <2>3, <3>1, CurrentGrows
      <4>2. Classify(p)' = Classify(p)  BY <1>1, ClassifyStays
      <4>. QED  BY <4>1, <4>2
    <3>2. Settled(t)' => Settled(t)  BY <1>1, <1>2, <2>3 DEF Settled
    <3>. QED  BY <1>1, <2>1, <3>1, <3>2, JudgedStays
  <2>. QED  BY <2>2, <2>3
<1>. QED  BY <1>1, <1>2, <1>4 DEF CurrentInv

\* A prompt says something of its own turn and of the one before, and these are
\* judged again.
LEMMA PromptCurrent ==
    ASSUME TypeOK, QueueInv, CurrentInv, NEW u \in Turn, NEW at \in 1..MaxTime,
           NEW clash \in BOOLEAN, PromptEvent(u, at, clash), prompt' \in [Turn -> {"none", "stored", "conflict"}]
    PROVE  CurrentInv'
<1>1. /\ UNCHANGED <<purged, tombstone, file, committed, pc, listed, verdict>>
      /\ ~ Kept(u) /\ Open(u, at)
      /\ \A t \in Turn \ {u} : prompt'[t] = prompt[t]
      /\ \A t \in Turn \ Reopened(u) : queue'[t] = queue[t] /\ prov'[t] = prov[t]
      /\ \A t \in Turn : t \in Reopened(u) => queue'[t] = "due"
      /\ overtaken' = overtaken \cup {t \in Reopened(u) : t \in DOMAIN listed \/ t = verdict.turn}
  BY DEF PromptEvent, source, worker, TypeOK
<1>2. Stored' = Stored \cup {u}  BY <1>1, OpenTurn DEF TypeOK
<1>3. ASSUME NEW t \in Turn, ~ purged'[t], t \notin overtaken'
      PROVE  JudgedTruly(t)'
  <2>1. JudgedTruly(t) /\ ~ purged[t]  BY <1>1, <1>3 DEF CurrentInv
  <2>2. CASE t \in Reopened(u)
    <3>1. t \notin DOMAIN listed' /\ verdict'.turn # t  BY <1>1, <1>3, <2>2
    <3>2. ~ Settled(t)'  BY <1>1, <2>2 DEF Settled
    <3>. QED  BY <3>1, <3>2 DEF JudgedTruly
  <2>3. CASE t \notin Reopened(u)
    <3>1. t # u /\ t \notin Before(u)  BY <1>1, <2>1, <2>3 DEF Reopened, Kept
    <3>2. ASSUME NEW p, Current(t, p) PROVE Current(t, p)' /\ Classify(p)' = Classify(p)
      <4>1. Current(t, p)'  BY <1>1, <3>1, <3>2, CurrentGrows
      <4>2. Classify(p)' = Classify(p)  BY <1>1, ClassifyStays
      <4>. QED  BY <4>1, <4>2
    <3>3. Settled(t)' => Settled(t)  BY <1>1, <1>2, <2>3, <3>1 DEF Settled
    <3>. QED  BY <1>1, <2>1, <2>3, <3>2, <3>3, JudgedStays
  <2>. QED  BY <2>2, <2>3
<1>4. \A t \in Turn \ Stored' : prompt'[t] = "none"  BY <1>1, <1>2 DEF CurrentInv
<1>. QED  BY <1>1, <1>3, <1>4 DEF CurrentInv

\* Every judgement of a turn that is neither purged nor overtaken is made from
\* what is still so.
THEOREM JudgementInvariant ==
    Spec => []CurrentInv
<1>1. Init => CurrentInv
  <2>. SUFFICES ASSUME Init PROVE CurrentInv  OBVIOUS
  <2>1. Stored = {} /\ DOMAIN listed = {}  BY DEF Init, Stored, ToSet
  <2>2. \A t \in Turn : verdict.turn # t  BY CodexAssumption DEF Init, NoVerdict
  <2>3. \A t \in Turn : prompt[t] = "none"  BY DEF Init
  <2>. QED  BY <2>1, <2>2, <2>3 DEF CurrentInv, JudgedTruly, Settled
<1>2. IInv /\ IInv' /\ CurrentInv /\ [Next]_vars => CurrentInv'
  <2>. SUFFICES ASSUME TypeOK, TypeOK', QueueInv, CurrentInv, [Next]_vars PROVE CurrentInv'
    BY DEF IInv
  <2>1. CASE Clock \/ AppendRow \/ WorkerStarts \/ WorkerFails \/ UNCHANGED vars
    BY <2>1, ClockCurrent
  <2>2. ASSUME NEW t \in Turn, NEW at \in 1..MaxTime, OtherEvent(t, at) PROVE CurrentInv'
    BY <2>2, OtherEventCurrent
  <2>3. ASSUME NEW t \in Turn, NEW at \in 1..MaxTime, NEW clash \in BOOLEAN,
               PromptEvent(t, at, clash)
        PROVE  CurrentInv'
    <3>1. prompt' \in [Turn -> {"none", "stored", "conflict"}]  BY DEF TypeOK
    <3>. QED  BY <2>3, <3>1, PromptCurrent
  <2>4. CASE PurgeAll
    <3>1. now \in 1..MaxTime  BY DEF TypeOK
    <3>. QED  BY <2>4, <3>1, PurgeCurrent DEF PurgeAll
  <2>5. ASSUME NEW before \in 1..MaxTime, PurgeBefore(before) PROVE CurrentInv'
    <3>. DEFINE of == {t \in Stored : start[t] < before}
    <3>1. \A t \in Stored \ of : start[t] >= before
      <4>1. \A t \in Stored : start[t] \in Int  BY StoredTurns, CodexAssumption DEF TypeOK
      <4>. QED  BY <4>1, CodexAssumption
    <3>. HIDE DEF of
    <3>2. Purge(of, before)  BY <2>5 DEF PurgeBefore, of
    <3>. QED  BY <3>1, <3>2, PurgeCurrent
  <2>6. CASE ScanBatch  BY <2>6, ScanCurrent
  <2>7. ASSUME NEW hour \in SUBSET Later, List(hour) PROVE CurrentInv'
    BY <2>7, ListCurrent
  <2>8. ASSUME NEW t \in Turn, Judge(t) PROVE CurrentInv'
    BY <2>8, JudgeCurrent
  <2>9. CASE Decide  BY <2>9, DecideCurrent
  <2>. QED
    BY <2>1, <2>2, <2>3, <2>4, <2>5, <2>6, <2>7, <2>8, <2>9 DEF Next, WorkerStep, Environment
<1>. QED  BY <1>1, <1>2, Invariance, PTL DEF Spec

\* A label that is final is the one the evidence in the database proves now,
\* unless a prompt came while the turn was being judged.
THEOREM SettledLabelsCurrent ==
    Spec => []SettledIsCurrent
<1>1. IInv /\ CurrentInv => SettledIsCurrent
  <2>. SUFFICES ASSUME TypeOK, CurrentInv, Orderly, NEW t \in Turn,
                       Settled(t), ~ purged[t], t \notin overtaken
                PROVE  prov[t].label = Classify(Row(t)).label
    BY DEF IInv, SettledIsCurrent
  <2>1. JudgedTruly(t) /\ t \in Stored  BY DEF CurrentInv, Settled
  <2>2. PICK p : Current(t, p) /\ prov[t].label = Classify(p).label  BY <2>1 DEF JudgedTruly
  <2>3. p = Row(t)  BY <2>1, <2>2, CurrentIsRow
  <2>. QED  BY <2>2, <2>3
<1>. QED  BY <1>1, Invariance, JudgementInvariant, PTL

-----------------------------------------------------------------------------
(* The scan of the session files *)

(* The invariant *)

Status == {"active", "rotated", "superseded", "quarantined", "pruned"}
AnOwner == Owner \cup {NoOwner}
SomeRecords == UNION {[taken -> FileRow] : taken \in SUBSET (Nat \ {0})}

StoredRow ==
    [path : Path, os : FileId, owner : AnOwner, status : Status, gen : Nat \ {0},
     offset : Nat, prefix : Seq(FileRow), size : Nat, stamp : Nat,
     records : SomeRecords, texts : SUBSET Nat, errors : SUBSET Nat]

\* What the worker knows of a row while it checks the file.
Glance ==
    [path : Path, os : FileId, owner : AnOwner, status : Status, gen : Nat \ {0},
     offset : Nat, prefix : Seq(FileRow), size : Nat, stamp : Nat,
     records : {<<>>}, texts : {{}}, errors : {{}}]

Checking ==
    [step : {"check"}, path : Path, os : FileId, size : Nat, stamp : Nat, prior : Nat,
     moved : BOOLEAN, was : Glance \cup {NoRow}]

Collecting ==
    [step : {"read", "quarantine"}, path : Path, os : FileId, moved : BOOLEAN, prior : Nat,
     priorOffset : Nat, fresh : BOOLEAN, disposition : {"superseded", "rotated"},
     prefix : Seq(FileRow), owner : AnOwner, buffer : Seq(FileRow),
     batch : SUBSET (Nat \ {0}), errors : SUBSET (Nat \ {0})]

ScanTypeOK ==
    /\ names \in [Path -> FileId \cup {0}]
    /\ content \in [FileId -> Seq(FileRow)]
    /\ stamp \in [FileId -> Nat]
    /\ rows \in Seq(StoredRow)
    /\ present \subseteq Owner
    /\ cutoff \in [Owner -> Nat]
    /\ scan \in {Idle} \cup Checking \cup Collecting
    /\ still \subseteq Path
    /\ revived \in BOOLEAN

\* A file has one name at most.
OneName == \A p, q \in Path : names[p] = names[q] /\ names[p] # 0 => p = q

\* A row's texts are some of its records, which are of the rows it has read.
RowWithin(r) ==
    /\ r.offset = Len(r.prefix)
    /\ r.texts \subseteq DOMAIN r.records
    /\ DOMAIN r.records \subseteq 1..r.offset

RowsWithin == \A i \in DOMAIN rows : RowWithin(rows[i])

Collects == scan.step \in {"read", "quarantine"}

\* Where the scan began to read.
Base == IF scan.fresh THEN 0 ELSE scan.priorOffset

BatchWithin ==
    Collects =>
        /\ scan.prior = NoRow => scan.fresh
        /\ Base <= Len(scan.prefix)
        /\ scan.batch \cup scan.errors = (Base + 1)..Len(scan.prefix)

\* What was seen of the row is still so, unless prune has taken it.
Seen ==
    /\ scan.step # "idle" => scan.prior \in 0..Len(rows)
    /\ scan.step = "check" /\ scan.prior # NoRow =>
         LET r == rows[scan.prior]
         IN  /\ scan.was \in Glance /\ scan.was.offset = Len(scan.was.prefix)
             /\ r.status # "pruned" =>
                  scan.was = [r EXCEPT !.records = <<>>, !.texts = {}, !.errors = {}]

Frame == ScanTypeOK /\ OneName /\ RowsWithin /\ BatchWithin /\ Seen /\ PurgedStaysGone

-----------------------------------------------------------------------------

\* The evidence of rows: the sound ones.
Evidence(held) == [n \in Sound(held) |-> held[n]]

\* A row that counts holds the evidence of what was read of its file.
RowTrue(r) ==
    /\ r.status \in {"active", "rotated"} =>
         /\ FirstFatal(r.prefix) = 0 /\ r.prefix # <<>>
         /\ r.owner = r.prefix[1].owner /\ r.owner \in Owner
         /\ r.records = Evidence(r.prefix)
    /\ r.status = "quarantined" =>
         /\ FirstFatal(r.prefix) = Len(r.prefix) /\ r.prefix # <<>>
         /\ r.records = Evidence(r.prefix)

RowsTrue == \A i \in DOMAIN rows : RowTrue(rows[i])

\* The generations of a path are numbered, and only the last may be active.
Generations ==
    /\ \A i \in DOMAIN rows : rows[i].gen <= Len(rows)
    /\ \A i, j \in DOMAIN rows :
         rows[i].path = rows[j].path /\ rows[i].status # "pruned" /\ rows[j].status # "pruned" =>
            /\ rows[i].gen = rows[j].gen => i = j
            /\ rows[i].status = "active" => rows[j].gen <= rows[i].gen

\* The row that the scan began with has not been pruned.
Live == scan.prior # NoRow => rows[scan.prior].status # "pruned"

\* The row the scan began with is the last of its path, or of a file that was
\* moved to a path without one.
PriorTrue ==
    scan.step # "idle" /\ Live =>
        /\ scan.prior = NoRow \/ scan.moved => AtPath(scan.path) = {}
        /\ scan.moved =>
             /\ scan.prior # NoRow
             /\ rows[scan.prior].status \in {"active", "rotated"}
             /\ rows[scan.prior].os = scan.os
        /\ scan.prior # NoRow /\ ~ scan.moved => scan.prior \in AtPath(scan.path)

\* What is to be replaced or continued.
PlanTrue ==
    Collects /\ Live /\ scan.prior # NoRow =>
        LET r == rows[scan.prior]
        IN  /\ r.offset = scan.priorOffset
            /\ scan.fresh => (r.status = "quarantined" => scan.disposition = "superseded")
            /\ ~ scan.fresh =>
                 /\ r.status \in {"active", "rotated"}
                 /\ r.os = scan.os /\ r.owner = scan.owner
                 /\ r.offset <= Len(scan.prefix)
                 /\ r.prefix = SubSeq(scan.prefix, 1, r.offset)

\* What was read, and what it says.
ReadTrue ==
    /\ scan.step = "read" /\ Live =>
         /\ FirstFatal(scan.prefix) = 0
         /\ scan.prefix = <<>> => scan.owner = NoOwner
         /\ scan.prefix # <<>> => scan.owner = scan.prefix[1].owner /\ scan.owner \in Owner
    /\ scan.step = "quarantine" /\ Live =>
         FirstFatal(scan.prefix) = Len(scan.prefix) /\ scan.prefix # <<>>
    /\ Collects /\ Live => scan.batch = {n \in Sound(scan.prefix) : n > Base}

\* A file that rests has a name, and the scan of it has read nothing else.
RestingFiles ==
    /\ \A p \in still : names[p] # 0
    /\ scan.step # "idle" => \A p \in still : names[p] = scan.os => p = scan.path
    /\ scan.step # "idle" /\ scan.path \in still =>
         LET held == content[scan.os]
         IN  /\ names[scan.path] = scan.os /\ Live
             /\ scan.step = "check" => scan.size = Len(held) /\ scan.stamp = stamp[scan.os]
             /\ Collects =>
                  /\ Len(scan.prefix) + Len(scan.buffer) <= Len(held)
                  /\ scan.prefix = SubSeq(held, 1, Len(scan.prefix))
                  /\ scan.buffer = SubSeq(held, Len(scan.prefix) + 1, Len(scan.prefix) + Len(scan.buffer))

\* Row i is what a scan of path p should leave.
Exact(i, p) ==
    LET held == content[names[p]]
    IN  /\ rows[i].os = names[p]
        /\ rows[i].records = Evidence(held)
        /\ rows[i].status \in IF FirstFatal(held) = 0 THEN {"active", "rotated"} ELSE {"quarantined"}

AllExact ==
    \A p \in still :
        (scan.step = "idle" \/ scan.path # p) /\ HasSession(content[names[p]]) =>
            \E i \in AtPath(p) : Exact(i, p)

Truth == RowsTrue /\ Generations /\ PriorTrue /\ PlanTrue /\ ReadTrue /\ RestingFiles /\ AllExact

ScanInv == Frame /\ (~ revived => Truth)

(* The operators on rows *)

\* Row n of a file ends its reading.
FatalAt(held, n) == Fatal(held[n], IF n = 1 THEN NoOwner ELSE held[1].owner)

\* The first fatal row is the least of them.
LEMMA FirstFatalIs ==
    ASSUME NEW held \in Seq(FileRow)
    PROVE  \/ /\ FirstFatal(held) = 0
              /\ \A n \in DOMAIN held : ~ FatalAt(held, n)
           \/ /\ FirstFatal(held) \in DOMAIN held
              /\ FatalAt(held, FirstFatal(held))
              /\ \A n \in DOMAIN held : FatalAt(held, n) => FirstFatal(held) <= n
<1>. DEFINE fatal == {n \in DOMAIN held : FatalAt(held, n)}
<1>1. FirstFatal(held) = IF fatal = {} THEN 0 ELSE CHOOSE n \in fatal : \A m \in fatal : n <= m
  BY DEF FirstFatal, FatalAt
<1>2. CASE fatal = {}
  BY <1>1, <1>2
<1>3. CASE fatal # {}
  <2>1. fatal \in SUBSET Nat  OBVIOUS
  <2>2. Min(fatal) \in fatal /\ \A m \in fatal : Min(fatal) <= m
    <3>. HIDE DEF fatal
    <3>. QED  BY <1>3, <2>1, MinOfNaturals
  <2>3. /\ FirstFatal(held) \in fatal
        /\ \A m \in fatal : FirstFatal(held) <= m
    <3>. HIDE DEF fatal
    <3>. QED  BY <1>1, <1>3, <2>2
  <2>4. FirstFatal(held) \in DOMAIN held /\ FatalAt(held, FirstFatal(held))
    BY <2>3
  <2>5. \A n \in DOMAIN held : FatalAt(held, n) => FirstFatal(held) <= n
    BY <2>3
  <2>. QED  BY <2>4, <2>5
<1>. QED  BY <1>2, <1>3

\* The rows that count, in words of FatalAt.
LEMMA SoundIs ==
    ASSUME NEW held \in Seq(FileRow)
    PROVE  Sound(held) = {n \in DOMAIN held :
                /\ held[n].kind \in {"meta", "text"}
                /\ FirstFatal(held) # 0 => n < FirstFatal(held)}
BY DEF Sound

\* What is read of a file agrees with the file.
LEMMA PrefixAgrees ==
    ASSUME NEW held \in Seq(FileRow), NEW k \in Nat, k <= Len(held)
    PROVE  LET pre == SubSeq(held, 1, k)
           IN  /\ pre \in Seq(FileRow) /\ Len(pre) = k /\ DOMAIN pre = 1..k
               /\ DOMAIN held = 1..Len(held)
               /\ \A n \in 1..k : pre[n] = held[n]
               /\ \A n \in 1..k : FatalAt(pre, n) <=> FatalAt(held, n)
<1>. DEFINE pre == SubSeq(held, 1, k)
<1>1. pre \in Seq(FileRow) /\ Len(pre) = k /\ DOMAIN pre = 1..k
  BY SubSeqProperties
<1>2. \A n \in 1..k : pre[n] = held[n]
  BY SubSeqProperties
<1>3. \A n \in 1..k : FatalAt(pre, n) <=> FatalAt(held, n)
  <2>. SUFFICES ASSUME NEW n \in 1..k PROVE FatalAt(pre, n) <=> FatalAt(held, n)
    OBVIOUS
  <2>1. 1 \in 1..k  OBVIOUS
  <2>2. pre[n] = held[n] /\ pre[1] = held[1]  BY <1>2, <2>1
  <2>. HIDE DEF pre
  <2>. QED  BY <2>2 DEF FatalAt
<1>. QED  BY <1>1, <1>2, <1>3

\* A file that begins with rows of which the last is the first fatal one holds
\* the evidence of those rows.
LEMMA FatalPrefix ==
    ASSUME NEW held \in Seq(FileRow), NEW k \in Nat, k # 0, k <= Len(held),
           FirstFatal(SubSeq(held, 1, k)) = k
    PROVE  FirstFatal(held) = k /\ Evidence(held) = Evidence(SubSeq(held, 1, k))
<1>. DEFINE pre == SubSeq(held, 1, k)
<1>1. /\ pre \in Seq(FileRow) /\ Len(pre) = k /\ DOMAIN pre = 1..k
      /\ DOMAIN held = 1..Len(held)
      /\ \A n \in 1..k : pre[n] = held[n]
      /\ \A n \in 1..k : FatalAt(pre, n) <=> FatalAt(held, n)
  BY PrefixAgrees
<1>. HIDE DEF pre
<1>2. FirstFatal(pre) = k  BY DEF pre
<1>3. FatalAt(held, k) /\ \A n \in 1..k : FatalAt(held, n) => k <= n
  BY <1>1, <1>2, FirstFatalIs
<1>4. FirstFatal(held) = k
  BY <1>1, <1>3, FirstFatalIs
<1>5. Sound(held) = Sound(pre)
  <2>1. Sound(held) = {n \in 1..Len(held) : held[n].kind \in {"meta", "text"} /\ n < k}
    BY <1>1, <1>4, SoundIs
  <2>2. Sound(pre) = {n \in 1..k : pre[n].kind \in {"meta", "text"} /\ n < k}
    BY <1>1, <1>2, SoundIs
  <2>. QED  BY <1>1, <2>1, <2>2
<1>6. \A n \in Sound(pre) : pre[n] = held[n]
  BY <1>1, SoundIs
<1>7. Evidence(held) = Evidence(pre)  BY <1>5, <1>6 DEF Evidence
<1>. QED  BY <1>4, <1>7 DEF pre

\* The sound rows of a beginning without a fatal row are those of the file.
LEMMA SoundPrefix ==
    ASSUME NEW held \in Seq(FileRow), NEW k \in Nat, k <= Len(held),
           FirstFatal(SubSeq(held, 1, k)) = 0
    PROVE  /\ Sound(SubSeq(held, 1, k)) = {n \in Sound(held) : n <= k}
           /\ \A n \in 1..k : SubSeq(held, 1, k)[n] = held[n]
<1>. DEFINE pre == SubSeq(held, 1, k)
<1>1. /\ pre \in Seq(FileRow) /\ Len(pre) = k /\ DOMAIN pre = 1..k
      /\ DOMAIN held = 1..Len(held)
      /\ \A n \in 1..k : pre[n] = held[n]
      /\ \A n \in 1..k : FatalAt(pre, n) <=> FatalAt(held, n)
  BY PrefixAgrees
<1>. HIDE DEF pre
<1>2. FirstFatal(pre) = 0  BY DEF pre
<1>3. \A n \in 1..k : ~ FatalAt(held, n)
  BY <1>1, <1>2, FirstFatalIs
<1>4. FirstFatal(held) # 0 => FirstFatal(held) > k
  BY <1>1, <1>3, FirstFatalIs
<1>5. Sound(pre) = {n \in 1..k : held[n].kind \in {"meta", "text"}}
  BY <1>1, <1>2, SoundIs
<1>6. Sound(pre) = {n \in Sound(held) : n <= k}
  <2>1. FirstFatal(held) \in Nat  BY <1>1, FirstFatalIs
  <2>. QED  BY <1>1, <1>4, <1>5, <2>1, SoundIs
<1>. QED  BY <1>1, <1>6 DEF pre

\* The owner that the reader goes by once it has read some rows.
OwnerOf(held) == IF held = <<>> THEN NoOwner ELSE held[1].owner

\* One more row.
LEMMA RowAppended ==
    ASSUME NEW held \in Seq(FileRow), NEW row \in FileRow, FirstFatal(held) = 0
    PROVE  LET new == Append(held, row)
           IN  /\ Fatal(row, OwnerOf(held)) =>
                    FirstFatal(new) = Len(new) /\ Sound(new) = Sound(held)
               /\ ~ Fatal(row, OwnerOf(held)) =>
                    /\ FirstFatal(new) = 0
                    /\ row.kind = "bad" => Sound(new) = Sound(held)
                    /\ row.kind # "bad" => Sound(new) = Sound(held) \cup {Len(new)}
<1>. DEFINE new == Append(held, row)
            k == Len(held)
<1>1. /\ new \in Seq(FileRow) /\ Len(new) = k + 1 /\ DOMAIN new = 1..(k + 1)
      /\ DOMAIN held = 1..k /\ k \in Nat
      /\ new[k + 1] = row /\ \A n \in 1..k : new[n] = held[n]
  OBVIOUS
<1>2. SubSeq(new, 1, k) = held
  BY <1>1, SubSeqProperties
<1>. HIDE DEF new
<1>3. /\ \A n \in 1..k : FatalAt(held, n) <=> FatalAt(new, n)
      /\ Sound(held) = {n \in Sound(new) : n <= k}
  <2>1. k <= Len(new)  BY <1>1
  <2>2. FirstFatal(SubSeq(new, 1, k)) = 0  BY <1>2, Zenon
  <2>. HIDE DEF k
  <2>3. \A n \in 1..k : FatalAt(SubSeq(new, 1, k), n) <=> FatalAt(new, n)
    BY <1>1, <2>1, PrefixAgrees
  <2>4. Sound(SubSeq(new, 1, k)) = {n \in Sound(new) : n <= k}
    BY <1>1, <2>1, <2>2, SoundPrefix
  <2>. QED  BY <1>2, <2>3, <2>4, Zenon
<1>4. \A n \in 1..k : ~ FatalAt(new, n)
  BY <1>1, <1>3, FirstFatalIs
<1>5. FatalAt(new, k + 1) <=> Fatal(row, OwnerOf(held))
  <2>1. held = <<>> <=> k = 0  OBVIOUS
  <2>2. CASE k = 0
    BY <1>1, <2>1, <2>2 DEF FatalAt, OwnerOf
  <2>3. CASE k # 0
    <3>1. 1 \in 1..k /\ k + 1 # 1  BY <1>1, <2>3
    <3>2. new[1] = held[1]  BY <1>1, <3>1
    <3>. QED  BY <1>1, <2>1, <2>3, <3>1, <3>2 DEF FatalAt, OwnerOf
  <2>. QED  BY <2>2, <2>3
<1>6. CASE Fatal(row, OwnerOf(held))
  <2>1. FirstFatal(new) = k + 1
    BY <1>1, <1>4, <1>5, <1>6, FirstFatalIs
  <2>2. \A n \in Sound(new) : n \in 1..k
    BY <1>1, <2>1, SoundIs
  <2>3. Sound(new) = Sound(held)  BY <1>3, <2>2
  <2>. QED  BY <1>1, <1>6, <2>1, <2>3 DEF new
<1>7. CASE ~ Fatal(row, OwnerOf(held))
  <2>1. FirstFatal(new) = 0
    <3>1. \A n \in DOMAIN new : ~ FatalAt(new, n)
      BY <1>1, <1>4, <1>5, <1>7
    <3>. QED  BY <1>1, <3>1, FirstFatalIs
  <2>2. Sound(new) = {n \in 1..(k + 1) : new[n].kind \in {"meta", "text"}}
    BY <1>1, <2>1, SoundIs
  <2>3. row.kind \in {"meta", "text", "bad"}
    BY <1>7 DEF FileRow, Fatal
  <2>4. row.kind = "bad" => Sound(new) = Sound(held)
    <3>. SUFFICES ASSUME row.kind = "bad" PROVE Sound(new) = Sound(held)
      OBVIOUS
    <3>1. k + 1 \notin Sound(new)  BY <1>1, <2>2
    <3>2. \A n \in Sound(new) : n \in 1..k  BY <1>1, <2>2, <3>1
    <3>. QED  BY <1>3, <3>2
  <2>5. row.kind # "bad" => Sound(new) = Sound(held) \cup {k + 1}
    <3>. SUFFICES ASSUME row.kind # "bad" PROVE Sound(new) = Sound(held) \cup {k + 1}
      OBVIOUS
    <3>1. k + 1 \in Sound(new)  BY <1>1, <2>2, <2>3
    <3>2. \A n \in Sound(new) : n \in 1..k \/ n = k + 1  BY <1>1, <2>2
    <3>. QED  BY <1>1, <1>3, <3>1, <3>2
  <2>. QED  BY <1>1, <1>7, <2>1, <2>4, <2>5 DEF new
<1>. QED  BY <1>6, <1>7

(* Types *)

\* A scan that collects has the fields of one,
LEMMA CollectingType ==
    ASSUME ScanTypeOK, Collects
    PROVE  scan \in Collecting /\ scan.step # "idle" /\ scan.step # "check"
BY DEF ScanTypeOK, Collects, Idle, Checking

\* and so has one that checks;
LEMMA CheckingType ==
    ASSUME ScanTypeOK, scan.step = "check"
    PROVE  scan \in Checking /\ ~ Collects
BY DEF ScanTypeOK, Collects, Idle, Collecting

\* without a scan there are none.
LEMMA IdleType ==
    ASSUME ScanTypeOK, scan.step = "idle"
    PROVE  scan = Idle /\ ~ Collects
BY DEF ScanTypeOK, Collects, Collecting, Checking

\* A step that ends the scan and changes nothing else keeps the frame.
LEMMA EndFrame ==
    ASSUME Frame, scan' = Idle, UNCHANGED <<files, database>>, still' \subseteq still,
           revived' = revived
    PROVE  Frame'
<1>1. scan'.step = "idle" /\ ~ Collects'  BY DEF Idle, Collects
<1>2. ScanTypeOK'  BY DEF Frame, ScanTypeOK, files, database
<1>3. OneName' /\ RowsWithin' /\ PurgedStaysGone'
  BY DEF Frame, OneName, RowsWithin, RowWithin, PurgedStaysGone, Purged, files, database
<1>4. BatchWithin' /\ Seen'  BY <1>1 DEF BatchWithin, Seen
<1>. QED  BY <1>2, <1>3, <1>4 DEF Frame

\* A step that leaves the rows and the scan alone.
LEMMA FileFrame ==
    ASSUME Frame, UNCHANGED <<database, scan>>, still' \subseteq Path, revived' = revived,
           names' \in [Path -> FileId \cup {0}], content' \in [FileId -> Seq(FileRow)],
           stamp' \in [FileId -> Nat], OneName'
    PROVE  Frame'
<1>1. ScanTypeOK'  BY DEF Frame, ScanTypeOK, database
<1>2. RowsWithin' /\ PurgedStaysGone'
  BY DEF Frame, RowsWithin, RowWithin, PurgedStaysGone, Purged, database
<1>3. BatchWithin' /\ Seen'
  BY DEF Frame, BatchWithin, Seen, Collects, Base, database
<1>. QED  BY <1>1, <1>2, <1>3 DEF Frame

(* The steps of the files *)

\* Rows that are written into a file.
LEMMA FilledFrame ==
    ASSUME Frame, NEW p \in Path, NEW new \in Seq(FileRow), Filled(p, new)
    PROVE  Frame'
<1>1. names[p] \in FileId /\ UNCHANGED names
  BY DEF Filled, Frame, ScanTypeOK
<1>2. content' \in [FileId -> Seq(FileRow)] /\ stamp' \in [FileId -> Nat]
  BY <1>1 DEF Filled, Frame, ScanTypeOK
<1>3. OneName'  BY <1>1 DEF Frame, OneName
<1>4. UNCHANGED <<database, scan>> /\ still' \subseteq Path /\ revived' = revived
  BY DEF Filled, Written, Trouble, Frame, ScanTypeOK
<1>. QED  BY <1>1, <1>2, <1>3, <1>4, FileFrame DEF Frame, ScanTypeOK

\* What the steps fill a file with.
LEMMA FileRows ==
    ASSUME Frame, NEW p \in Path, names[p] # 0
    PROVE  /\ names[p] \in FileId /\ content[names[p]] \in Seq(FileRow)
           /\ \A row \in RowText : Append(content[names[p]], row) \in Seq(FileRow)
           /\ \A n \in 0..(Len(content[names[p]]) - 1) :
                SubSeq(content[names[p]], 1, n) \in Seq(FileRow)
           /\ \A i \in DOMAIN content[names[p]], row \in RowText :
                [content[names[p]] EXCEPT ![i] = row] \in Seq(FileRow)
<1>. DEFINE held == content[names[p]]
<1>1. names[p] \in FileId /\ held \in Seq(FileRow)
  BY DEF Frame, ScanTypeOK
<1>2. RowText \subseteq FileRow  BY CodexScanAssumption
<1>. HIDE DEF held
<1>3. \A row \in RowText : Append(held, row) \in Seq(FileRow)
  BY <1>1, <1>2
<1>4. \A n \in 0..(Len(held) - 1) : SubSeq(held, 1, n) \in Seq(FileRow)
  BY <1>1
<1>5. \A i \in DOMAIN held, row \in RowText : [held EXCEPT ![i] = row] \in Seq(FileRow)
  BY <1>1, <1>2
<1>. QED  BY <1>1, <1>3, <1>4, <1>5 DEF held

\* A file that gets another name, perhaps that of another file.
LEMMA RenameFrame ==
    ASSUME Frame, NEW p \in Path, NEW q \in Path, Rename(p, q)
    PROVE  Frame'
<1>1. names' \in [Path -> FileId \cup {0}] /\ UNCHANGED <<content, stamp>>
  BY DEF Rename, Frame, ScanTypeOK
<1>2. OneName'
  <2>. SUFFICES ASSUME NEW a \in Path, NEW b \in Path, names'[a] = names'[b], names'[a] # 0
       PROVE  a = b
    BY DEF OneName
  <2>1. \A c \in Path : names'[c] = IF c = p THEN 0 ELSE IF c = q THEN names[p] ELSE names[c]
    BY DEF Rename, Frame, ScanTypeOK
  <2>. QED  BY <2>1 DEF Frame, OneName
<1>3. UNCHANGED <<database, scan>> /\ still' \subseteq Path /\ revived' = revived
  BY DEF Rename, Written, Trouble, Frame, ScanTypeOK
<1>. QED  BY <1>1, <1>2, <1>3, FileFrame DEF Frame, ScanTypeOK

\* A name that is removed.
LEMMA DeleteFrame ==
    ASSUME Frame, NEW p \in Path, Delete(p)
    PROVE  Frame'
<1>1. names' \in [Path -> FileId \cup {0}] /\ UNCHANGED <<content, stamp>>
  BY DEF Delete, Frame, ScanTypeOK
<1>2. OneName'
  BY DEF Delete, Frame, OneName, ScanTypeOK
<1>3. UNCHANGED <<database, scan>> /\ still' \subseteq Path /\ revived' = revived
  BY DEF Delete, Written, Trouble, Frame, ScanTypeOK
<1>. QED  BY <1>1, <1>2, <1>3, FileFrame DEF Frame, ScanTypeOK

\* A created file has an id that no name has.
LEMMA CreatedFile ==
    ASSUME ScanTypeOK, NEW p \in Path, Create(p)
    PROVE  \E id \in FileId, held \in Contents :
             /\ \A q \in Path : names[q] # id
             /\ scan.step # "idle" => id # scan.os
             /\ names' = [names EXCEPT ![p] = id]
             /\ content' = [content EXCEPT ![id] = held]
             /\ stamp' = [stamp EXCEPT ![id] = @ + 1]
             /\ held \in Seq(FileRow) /\ id # 0
<1>1. PICK id \in FileId \ (Linked \cup HeldOpen), held \in Contents :
          /\ names' = [names EXCEPT ![p] = id]
          /\ content' = [content EXCEPT ![id] = held]
          /\ stamp' = [stamp EXCEPT ![id] = @ + 1]
  BY DEF Create
<1>2. id # 0 /\ held \in Seq(FileRow)  BY CodexScanAssumption
<1>3. \A q \in Path : names[q] # id  BY <1>2 DEF Linked
<1>4. scan.step # "idle" => id # scan.os  BY DEF HeldOpen
<1>. QED  BY <1>1, <1>2, <1>3, <1>4

\* A new file.
LEMMA CreateFrame ==
    ASSUME Frame, NEW p \in Path, Create(p)
    PROVE  Frame'
<1>1. PICK id \in FileId, held \in Contents :
             /\ \A q \in Path : names[q] # id
             /\ names' = [names EXCEPT ![p] = id]
             /\ content' = [content EXCEPT ![id] = held]
             /\ stamp' = [stamp EXCEPT ![id] = @ + 1]
             /\ held \in Seq(FileRow)
  BY CreatedFile DEF Frame
<1>2. names' \in [Path -> FileId \cup {0}]  BY <1>1 DEF Frame, ScanTypeOK
<1>3. content' \in [FileId -> Seq(FileRow)] /\ stamp' \in [FileId -> Nat]
  BY <1>1 DEF Frame, ScanTypeOK
<1>4. OneName'  BY <1>1 DEF Frame, OneName, ScanTypeOK
<1>5. UNCHANGED <<database, scan>> /\ still' \subseteq Path /\ revived' = revived
  BY DEF Create, Written, Trouble, Frame, ScanTypeOK
<1>. QED  BY <1>2, <1>3, <1>4, <1>5, FileFrame

\* What Codex and the tools of the user do keeps the frame.
LEMMA FileStepFrame ==
    ASSUME Frame, FileStep
    PROVE  Frame'
<1>1. ASSUME NEW p \in Path, AppendTo(p) PROVE Frame'
  BY <1>1, FileRows, FilledFrame DEF AppendTo
<1>2. ASSUME NEW p \in Path, CutTo(p) PROVE Frame'
  BY <1>2, FileRows, FilledFrame DEF CutTo
<1>3. ASSUME NEW p \in Path, RewriteIn(p) PROVE Frame'
  BY <1>3, FileRows, FilledFrame DEF RewriteIn
<1>. QED  BY <1>1, <1>2, <1>3, RenameFrame, DeleteFrame, CreateFrame DEF FileStep

(* The steps of the database *)

\* A row, but for its evidence.
Bare(r) == [r EXCEPT !.records = <<>>, !.texts = {}, !.errors = {}]

\* Rows that lose texts or are pruned are seen as they were, or pruned.
LEMMA RowsFrame ==
    ASSUME Frame, UNCHANGED <<files, scan>>, still' \subseteq Path, revived' = revived,
           present' \subseteq Owner, cutoff' \in [Owner -> Nat],
           rows' \in Seq(StoredRow), DOMAIN rows' = DOMAIN rows, Len(rows') = Len(rows),
           \A i \in DOMAIN rows :
                /\ RowWithin(rows'[i])
                /\ rows'[i].status # "pruned" =>
                     rows[i].status # "pruned" /\ Bare(rows'[i]) = Bare(rows[i]),
           PurgedStaysGone'
    PROVE  Frame'
<1>1. ScanTypeOK' /\ OneName'
  BY DEF Frame, ScanTypeOK, OneName, files
<1>2. RowsWithin'  BY DEF RowsWithin
<1>3. BatchWithin'  BY DEF Frame, BatchWithin, Collects, Base
<1>4. Seen'
  <2>1. ASSUME scan.step = "check", scan.prior # NoRow
        PROVE  /\ scan.was \in Glance /\ scan.was.offset = Len(scan.was.prefix)
               /\ rows'[scan.prior].status # "pruned" => scan.was = Bare(rows'[scan.prior])
    <3>1. scan.prior \in DOMAIN rows
      BY <2>1, CheckingType DEF Frame, Seen, ScanTypeOK, Checking, NoRow
    <3>. QED  BY <2>1, <3>1 DEF Frame, Seen, Bare
  <2>. QED  BY <2>1 DEF Frame, Seen, Bare
<1>. QED  BY <1>1, <1>2, <1>3, <1>4 DEF Frame

\* purge takes texts away and keeps the rows.
LEMMA PurgeFrame ==
    ASSUME Frame, NEW before \in Nat, PurgeTexts(before)
    PROVE  Frame'
<1>. DEFINE left(r) == {n \in r.texts : ~ Purged(cutoff', r.owner, r.records[n])}
<1>1. /\ rows' = [i \in DOMAIN rows |-> [rows[i] EXCEPT !.texts = left(rows[i])]]
      /\ UNCHANGED <<files, scan, present, still, revived>>
  BY DEF PurgeTexts, Cleaned, Trouble
<1>2. cutoff' \in [Owner -> Nat]
  BY DEF PurgeTexts, Frame, ScanTypeOK
<1>3. rows \in Seq(StoredRow) /\ DOMAIN rows = 1..Len(rows) /\ Len(rows) \in Nat
  BY DEF Frame, ScanTypeOK
<1>4. \A i \in DOMAIN rows : rows[i] \in StoredRow  BY <1>3
<1>5. \A i \in DOMAIN rows : left(rows[i]) \subseteq rows[i].texts  OBVIOUS
<1>. HIDE DEF left
<1>6. \A i \in DOMAIN rows :
        /\ rows'[i] = [rows[i] EXCEPT !.texts = left(rows[i])]
        /\ rows'[i] \in StoredRow
        /\ rows'[i].texts = left(rows[i]) /\ rows'[i].records = rows[i].records
        /\ rows'[i].offset = rows[i].offset /\ rows'[i].prefix = rows[i].prefix
        /\ rows'[i].status = rows[i].status /\ rows'[i].owner = rows[i].owner
        /\ Bare(rows'[i]) = Bare(rows[i])
  BY <1>1, <1>4, <1>5, ZenonT(60) DEF StoredRow, Bare
<1>7. rows' \in Seq(StoredRow) /\ DOMAIN rows' = DOMAIN rows /\ Len(rows') = Len(rows)
  <2>1. DOMAIN rows' = 1..Len(rows)  BY <1>1, <1>3
  <2>2. rows' = [i \in 1..Len(rows) |-> rows'[i]]  BY <1>1, <1>3
  <2>. QED  BY <1>3, <1>6, <2>1, <2>2
<1>8. \A i \in DOMAIN rows : RowWithin(rows'[i])
  BY <1>5, <1>6 DEF Frame, RowsWithin, RowWithin
<1>9. PurgedStaysGone'
  <2>. SUFFICES ASSUME NEW i \in DOMAIN rows, NEW n \in rows'[i].texts
       PROVE  ~ Purged(cutoff', rows'[i].owner, rows'[i].records[n])
    BY <1>7 DEF PurgedStaysGone
  <2>. QED  BY <1>6 DEF left
<1>10. present' \subseteq Owner /\ still' \subseteq Path
  BY <1>1 DEF Frame, ScanTypeOK
<1>. QED  BY <1>1, <1>2, <1>6, <1>7, <1>8, <1>9, <1>10, RowsFrame

\* What prune does to a row.
LEMMA PrunedRows ==
    ASSUME ScanTypeOK, NEW old \in SUBSET Owner, Prune(old)
    PROVE  /\ rows' \in Seq(StoredRow) /\ DOMAIN rows' = DOMAIN rows /\ Len(rows') = Len(rows)
           /\ \A i \in DOMAIN rows :
                /\ rows[i].owner \in present' => rows'[i] = rows[i]
                /\ rows[i].owner \notin present' =>
                     /\ rows'[i] = [rows[i] EXCEPT !.status = "pruned"]
                     /\ rows'[i].status = "pruned"
           /\ UNCHANGED <<files, scan, revived>> /\ still' = {}
<1>1. /\ rows' = [i \in DOMAIN rows |->
                  IF rows[i].owner \in present' THEN rows[i] ELSE [rows[i] EXCEPT !.status = "pruned"]]
      /\ UNCHANGED <<files, scan, revived>> /\ still' = {}
  BY DEF Prune, Cleaned, Trouble
<1>2. rows \in Seq(StoredRow) /\ DOMAIN rows = 1..Len(rows) /\ Len(rows) \in Nat
  BY DEF ScanTypeOK
<1>3. \A i \in DOMAIN rows : rows[i] \in StoredRow  BY <1>2
<1>4. \A i \in DOMAIN rows :
         /\ rows'[i] \in StoredRow
         /\ rows[i].owner \in present' => rows'[i] = rows[i]
         /\ rows[i].owner \notin present' =>
               /\ rows'[i] = [rows[i] EXCEPT !.status = "pruned"]
               /\ rows'[i].status = "pruned"
  BY <1>1, <1>3, ZenonT(60) DEF StoredRow, Status
<1>5. rows' \in Seq(StoredRow) /\ DOMAIN rows' = DOMAIN rows /\ Len(rows') = Len(rows)
  <2>1. DOMAIN rows' = 1..Len(rows)  BY <1>1, <1>2
  <2>2. rows' = [i \in 1..Len(rows) |-> rows'[i]]  BY <1>1, <1>2
  <2>. QED  BY <1>2, <1>4, <2>1, <2>2
<1>. QED  BY <1>1, <1>4, <1>5

\* prune marks rows and raises no cutoff of a row that stays.
LEMMA PruneFrame ==
    ASSUME Frame, NEW old \in SUBSET Owner, Prune(old)
    PROVE  Frame'
<1>1. ScanTypeOK  BY DEF Frame
<1>2. \A i \in DOMAIN rows : rows[i] \in StoredRow  BY <1>1 DEF ScanTypeOK
<1>3. present' \subseteq Owner /\ cutoff' \in [Owner -> Nat]
  BY <1>1 DEF Prune, ScanTypeOK
<1>4. \A i \in DOMAIN rows :
        /\ RowWithin(rows'[i])
        /\ rows'[i].status # "pruned" => rows'[i] = rows[i] /\ rows[i].owner \in present'
  <2>. SUFFICES ASSUME NEW i \in DOMAIN rows
       PROVE  /\ RowWithin(rows'[i])
              /\ rows'[i].status # "pruned" => rows'[i] = rows[i] /\ rows[i].owner \in present'
    OBVIOUS
  <2>1. CASE rows[i].owner \in present'
    BY <1>1, <2>1, PrunedRows DEF Frame, RowsWithin
  <2>2. CASE rows[i].owner \notin present'
    <3>1. rows'[i] = [rows[i] EXCEPT !.status = "pruned"] /\ rows'[i].status = "pruned"
      BY <1>1, <2>2, PrunedRows
    <3>2. /\ rows'[i].offset = rows[i].offset /\ rows'[i].prefix = rows[i].prefix
          /\ rows'[i].texts = rows[i].texts /\ rows'[i].records = rows[i].records
      BY <1>2, <3>1 DEF StoredRow
    <3>. QED  BY <3>1, <3>2 DEF Frame, RowsWithin, RowWithin
  <2>. QED  BY <2>1, <2>2
<1>5. PurgedStaysGone'
  <2>. SUFFICES ASSUME NEW i \in DOMAIN rows, rows'[i].status # "pruned", NEW n \in rows'[i].texts
       PROVE  ~ Purged(cutoff', rows'[i].owner, rows'[i].records[n])
    BY <1>1, PrunedRows DEF PurgedStaysGone
  <2>1. rows'[i] = rows[i] /\ rows[i].owner \in present'  BY <1>4
  <2>2. rows[i].owner \in Owner /\ cutoff'[rows[i].owner] = cutoff[rows[i].owner]
    BY <1>3, <2>1 DEF Prune
  <2>3. ~ Purged(cutoff, rows[i].owner, rows[i].records[n])
    BY <2>1 DEF Frame, PurgedStaysGone
  <2>. QED  BY <2>1, <2>2, <2>3 DEF Purged
<1>6. \A i \in DOMAIN rows :
        rows'[i].status # "pruned" => rows[i].status # "pruned" /\ Bare(rows'[i]) = Bare(rows[i])
  BY <1>4
<1>. QED  BY <1>1, <1>3, <1>4, <1>5, <1>6, PrunedRows, RowsFrame

\* A session that appears.
LEMMA SessionFrame ==
    ASSUME Frame, NEW o \in Owner, SessionStored(o)
    PROVE  Frame'
<1>1. /\ UNCHANGED <<files, rows, cutoff, scan, revived>>
      /\ present' \subseteq Owner /\ still' \subseteq Path
  BY DEF SessionStored, Frame, ScanTypeOK
<1>2. PurgedStaysGone'  BY <1>1 DEF Frame, PurgedStaysGone, Purged
<1>3. \A i \in DOMAIN rows : RowWithin(rows'[i]) /\ rows'[i] = rows[i]
  BY <1>1 DEF Frame, RowsWithin, RowWithin
<1>4. /\ rows' \in Seq(StoredRow) /\ DOMAIN rows' = DOMAIN rows /\ Len(rows') = Len(rows)
      /\ cutoff' \in [Owner -> Nat]
  BY <1>1 DEF Frame, ScanTypeOK
<1>5. \A i \in DOMAIN rows :
        /\ RowWithin(rows'[i])
        /\ rows'[i].status # "pruned" => rows[i].status # "pruned" /\ Bare(rows'[i]) = Bare(rows[i])
  BY <1>3
<1>. QED  BY <1>1, <1>2, <1>4, <1>5, RowsFrame

(* Opening, checking and reading a file *)

\* What CodexFile returns.
LEMMA RowsOfPath ==
    ASSUME NEW p
    PROVE  /\ AtPath(p) \subseteq DOMAIN rows
           /\ \A i \in AtPath(p) : rows[i].path = p /\ rows[i].status # "pruned"
           /\ \A i \in DOMAIN rows : i \in AtPath(p) <=>
                /\ rows[i].path = p /\ rows[i].status # "pruned"
                /\ \A j \in DOMAIN rows :
                     rows[j].path = p /\ rows[j].status # "pruned" => rows[j].gen <= rows[i].gen
BY DEF AtPath

\* What CodexFileByOSID returns.
LEMMA RowsOfFile ==
    ASSUME NEW f
    PROVE  /\ OfFile(f) \subseteq DOMAIN rows
           /\ \A i \in OfFile(f) : rows[i].os = f /\ rows[i].status \in {"active", "rotated"}
BY DEF OfFile

\* What the worker keeps of a row while it checks the file.
LEMMA BareRow ==
    ASSUME NEW r \in StoredRow
    PROVE  /\ Bare(r) \in Glance
           /\ Bare(r).path = r.path /\ Bare(r).os = r.os /\ Bare(r).owner = r.owner
           /\ Bare(r).status = r.status /\ Bare(r).gen = r.gen /\ Bare(r).offset = r.offset
           /\ Bare(r).prefix = r.prefix /\ Bare(r).size = r.size /\ Bare(r).stamp = r.stamp
BY DEF StoredRow, Glance, Bare

\* The ways to open a file: known, moved, new.
LEMMA Openings ==
    ASSUME ScanTypeOK, \E p \in Path : OpenKnown(p) \/ OpenMoved(p) \/ OpenNew(p)
    PROVE  \E p \in Path, moved \in BOOLEAN, prior \in DOMAIN rows \cup {NoRow} :
              /\ Free /\ names[p] # 0 /\ Opened(p, prior, moved)
              /\ prior # NoRow => rows[prior].status # "pruned"
              /\ prior = NoRow \/ moved => AtPath(p) = {}
              /\ moved => /\ prior # NoRow
                          /\ rows[prior].status \in {"active", "rotated"}
                          /\ rows[prior].os = names[p]
                          /\ names[rows[prior].path] # names[p]
              /\ prior # NoRow /\ ~ moved => prior \in AtPath(p)
<1>1. PICK p \in Path : OpenKnown(p) \/ OpenMoved(p) \/ OpenNew(p)
  OBVIOUS
<1>0. \A i \in DOMAIN rows : i # NoRow  BY DEF ScanTypeOK, NoRow
<1>2. CASE OpenKnown(p)
  <2>1. PICK i \in AtPath(p) : Opened(p, i, FALSE)  BY <1>2 DEF OpenKnown
  <2>2. i \in DOMAIN rows /\ rows[i].status # "pruned"  BY RowsOfPath
  <2>3. Free /\ names[p] # 0  BY <1>2 DEF OpenKnown
  <2>4. i # NoRow  BY <1>0, <2>2
  <2>. QED  BY <2>1, <2>2, <2>3, <2>4
<1>3. CASE OpenMoved(p)
  <2>1. PICK i \in OfFile(names[p]) : names[rows[i].path] # names[p] /\ Opened(p, i, TRUE)
    BY <1>3 DEF OpenMoved
  <2>2. Free /\ names[p] # 0 /\ AtPath(p) = {}  BY <1>3 DEF OpenMoved
  <2>3. i \in DOMAIN rows /\ rows[i].os = names[p] /\ rows[i].status \in {"active", "rotated"}
    BY RowsOfFile
  <2>4. i # NoRow /\ rows[i].status # "pruned"  BY <1>0, <2>3
  <2>. QED  BY <2>1, <2>2, <2>3, <2>4
<1>4. CASE OpenNew(p)
  BY <1>4 DEF OpenNew
<1>. QED  BY <1>1, <1>2, <1>3, <1>4

\* Opening a file keeps the frame.
LEMMA OpenFrame ==
    ASSUME Frame, \E p \in Path : OpenKnown(p) \/ OpenMoved(p) \/ OpenNew(p)
    PROVE  Frame'
<1>1. PICK p \in Path, moved \in BOOLEAN, prior \in DOMAIN rows \cup {NoRow} :
           /\ names[p] # 0 /\ Opened(p, prior, moved)
           /\ prior # NoRow => rows[prior].status # "pruned"
  BY Openings DEF Frame
<1>2. UNCHANGED <<files, database, revived>> /\ still' = still \cup {p}
  BY <1>1 DEF Opened
<1>3. names[p] \in FileId /\ content[names[p]] \in Seq(FileRow) /\ stamp[names[p]] \in Nat
  BY <1>1 DEF Frame, ScanTypeOK
<1>4. rows \in Seq(StoredRow) /\ DOMAIN rows = 1..Len(rows) /\ Len(rows) \in Nat
  BY DEF Frame, ScanTypeOK
<1>. DEFINE was == IF prior = NoRow THEN NoRow ELSE Bare(rows[prior])
<1>5. prior # NoRow => rows[prior] \in StoredRow /\ Bare(rows[prior]) \in Glance
  BY <1>1, <1>4, BareRow
<1>6. scan' = [step |-> "check", path |-> p, os |-> names[p],
               size |-> Len(content[names[p]]), stamp |-> stamp[names[p]],
               prior |-> prior, moved |-> moved, was |-> was]
  BY <1>1 DEF Opened, Bare
<1>7. was \in Glance \cup {NoRow} /\ prior \in Nat /\ prior \in 0..Len(rows)
  BY <1>4, <1>5 DEF NoRow
<1>. HIDE DEF was
<1>8. Len(content[names[p]]) \in Nat  BY <1>3
<1>9. scan' \in Checking
  BY <1>3, <1>6, <1>7, <1>8 DEF Checking
<1>10. scan'.step = "check" /\ scan'.prior = prior /\ scan'.was = was
  BY <1>6
<1>11. ScanTypeOK'
  BY <1>2, <1>9 DEF Frame, ScanTypeOK, files, database
<1>12. OneName' /\ RowsWithin' /\ PurgedStaysGone'
  BY <1>2 DEF Frame, OneName, RowsWithin, RowWithin, PurgedStaysGone, Purged, files, database
<1>13. BatchWithin'  BY <1>10 DEF BatchWithin, Collects
<1>14. prior # NoRow => was.offset = Len(was.prefix)
  <2>1. prior # NoRow => rows[prior].offset = Len(rows[prior].prefix)
    BY DEF Frame, RowsWithin, RowWithin
  <2>. QED  BY <1>5, <2>1, BareRow DEF was
<1>15. Seen'
  BY <1>2, <1>5, <1>7, <1>10, <1>14 DEF Seen, was, Bare, database
<1>. QED  BY <1>11, <1>12, <1>13, <1>15 DEF Frame

\* What a scan that begins to read has.
LEMMA ReadingIs ==
    ASSUME ScanTypeOK, scan.step = "check", NEW fresh \in BOOLEAN, NEW prefix \in Seq(FileRow),
           NEW owner \in AnOwner, NEW disposition \in {"superseded", "rotated"},
           scan.prior # NoRow => scan.was \in Glance,
           Reading(fresh, prefix, owner, disposition)
    PROVE  /\ scan' \in Collecting /\ scan'.step = "read" /\ Collects'
           /\ scan'.path = scan.path /\ scan'.os = scan.os /\ scan'.moved = scan.moved
           /\ scan'.prior = scan.prior /\ scan'.fresh = fresh /\ scan'.disposition = disposition
           /\ scan'.priorOffset = IF scan.prior = NoRow THEN 0 ELSE scan.was.offset
           /\ scan'.prefix = prefix /\ scan'.owner = owner /\ scan'.buffer = <<>>
           /\ scan'.batch = {} /\ scan'.errors = {}
<1>1. scan \in Checking  BY CheckingType
<1>2. scan.prior # NoRow => scan.was.offset \in Nat  BY DEF Glance
<1>3. scan.path \in Path /\ scan.os \in FileId /\ scan.moved \in BOOLEAN /\ scan.prior \in Nat
  BY <1>1 DEF Checking
<1>4. <<>> \in Seq(FileRow)  OBVIOUS
<1>. DEFINE new == [step |-> "read", path |-> scan.path, os |-> scan.os, moved |-> scan.moved,
             prior |-> scan.prior, priorOffset |-> IF scan.prior = NoRow THEN 0 ELSE scan.was.offset,
             fresh |-> fresh, disposition |-> disposition, prefix |-> prefix, owner |-> owner,
             buffer |-> <<>>, batch |-> {}, errors |-> {}]
<1>5. scan' = new  BY DEF Reading
<1>6. new \in Collecting  BY <1>2, <1>3, <1>4 DEF Collecting
<1>7. Collects'  BY <1>5 DEF Collects
<1>. QED  BY <1>5, <1>6, <1>7

\* The ways a check ends.
LEMMA Checks ==
    ASSUME Frame, Check
    PROVE  /\ UNCHANGED <<files, database, history>>
           /\ \/ scan' = Idle /\ scan.prior # NoRow /\ (SameAsQuarantined(scan.was) \/ Cut(scan.was))
              \/ /\ scan.prior # NoRow /\ Grown(scan.was)
                 /\ Reading(FALSE, scan.was.prefix, scan.was.owner, "rotated")
              \/ /\ Reading(TRUE, <<>>, NoOwner, "rotated") /\ scan.prior = NoRow
              \/ /\ Reading(TRUE, <<>>, NoOwner, Disposition(scan.was))
                 /\ scan.prior # NoRow
BY DEF Check, FromTheStart

\* Checking a file keeps the frame.
LEMMA CheckFrame ==
    ASSUME Frame, Check
    PROVE  Frame'
<1>1. scan.step = "check" /\ ScanTypeOK /\ Seen  BY DEF Check, Frame
<1>2. scan.prior # NoRow => scan.was \in Glance  BY <1>1 DEF Seen
<1>3. UNCHANGED <<files, database, still, revived>>  BY Checks DEF history
<1>4. CASE scan' = Idle
  BY <1>3, <1>4, EndFrame
<1>5. ASSUME NEW fresh \in BOOLEAN, NEW prefix \in Seq(FileRow), NEW owner \in AnOwner,
             NEW disposition \in {"superseded", "rotated"},
             Reading(fresh, prefix, owner, disposition),
             scan.prior = NoRow => fresh,
             ~ fresh => prefix = scan.was.prefix, fresh => prefix = <<>>
      PROVE  Frame'
  <2>1. /\ scan' \in Collecting /\ scan'.step = "read" /\ Collects'
        /\ scan'.prior = scan.prior /\ scan'.fresh = fresh
        /\ scan'.priorOffset = IF scan.prior = NoRow THEN 0 ELSE scan.was.offset
        /\ scan'.prefix = prefix
        /\ scan'.batch = {} /\ scan'.errors = {}
    BY <1>1, <1>2, <1>5, ReadingIs
  <2>2. ScanTypeOK'
    BY <1>3, <2>1 DEF Frame, ScanTypeOK, files, database
  <2>3. OneName' /\ RowsWithin' /\ PurgedStaysGone'
    BY <1>3 DEF Frame, OneName, RowsWithin, RowWithin, PurgedStaysGone, Purged, files, database
  <2>4. Seen'
    BY <1>1, <1>3, <2>1 DEF Seen, database
  <2>5. BatchWithin'
    <3>1. fresh => Len(prefix) = 0  BY <1>5
    <3>2. ~ fresh => Len(prefix) = scan.was.offset /\ scan.was.offset \in Nat
      BY <1>1, <1>2, <1>5 DEF Seen, Glance
    <3>3. Base' = Len(prefix)  BY <1>5, <2>1, <3>1, <3>2 DEF Base
    <3>4. Len(prefix) \in Nat  OBVIOUS
    <3>5. (Len(prefix) + 1)..Len(prefix) = {}  BY <3>4
    <3>. QED  BY <1>5, <2>1, <3>3, <3>5 DEF BatchWithin
  <2>. QED  BY <2>2, <2>3, <2>4, <2>5 DEF Frame
<1>6. <<>> \in Seq(FileRow) /\ NoOwner \in AnOwner  BY DEF AnOwner
<1>7. Disposition(scan.was) \in {"superseded", "rotated"}  BY DEF Disposition
<1>8. scan.prior # NoRow => scan.was.prefix \in Seq(FileRow) /\ scan.was.owner \in AnOwner
  BY <1>2 DEF Glance
<1>. QED  BY <1>4, <1>5, <1>6, <1>7, <1>8, Checks

\* The rows ahead of the reader.
LEMMA AheadIs ==
    ASSUME ScanTypeOK, Collects, NEW ahead \in Ahead
    PROVE  /\ ahead \in Seq(FileRow) /\ ahead # <<>>
           /\ Head(ahead) \in FileRow /\ Tail(ahead) \in Seq(FileRow)
           /\ Len(Tail(ahead)) = Len(ahead) - 1
           /\ scan.buffer # <<>> => ahead = scan.buffer
           /\ scan.buffer = <<>> => \E n \in (Offset + 1)..Len(content[scan.os]) :
                                        ahead = SubSeq(content[scan.os], Offset + 1, n)
<1>1. scan \in Collecting  BY CollectingType
<1>2. scan.buffer \in Seq(FileRow) /\ scan.prefix \in Seq(FileRow) /\ content[scan.os] \in Seq(FileRow)
  BY <1>1 DEF Collecting, ScanTypeOK
<1>3. ahead \in Seq(FileRow) /\ ahead # <<>>
  <2>1. CASE scan.buffer # <<>>
    BY <1>2, <2>1 DEF Ahead
  <2>2. CASE scan.buffer = <<>>
    <3>1. PICK n \in (Offset + 1)..Len(content[scan.os]) :
              ahead = SubSeq(content[scan.os], Offset + 1, n)
      BY <2>2 DEF Ahead
    <3>2. Offset \in Nat  BY <1>2 DEF Offset
    <3>3. ahead \in Seq(FileRow) /\ Len(ahead) = n - Offset
      BY <1>2, <3>1, <3>2, SubSeqProperties
    <3>. QED  BY <3>2, <3>3
  <2>. QED  BY <2>1, <2>2
<1>. QED  BY <1>3 DEF Ahead

\* What a row that is read may do.
LEMMA RowRead ==
    ASSUME ScanTypeOK, ReadRow
    PROVE  /\ Collects /\ scan.step = "read" /\ UNCHANGED <<files, database, history>>
           /\ \E ahead \in Ahead :
                LET row == Head(ahead)
                IN  \/ /\ scan' = Idle
                       /\ ~ Fatal(row, scan.owner) /\ scan.owner = NoOwner /\ row.owner \notin present
                    \/ /\ scan' \in Collecting
                       /\ scan'.path = scan.path /\ scan'.os = scan.os /\ scan'.moved = scan.moved
                       /\ scan'.prior = scan.prior /\ scan'.priorOffset = scan.priorOffset
                       /\ scan'.fresh = scan.fresh /\ scan'.disposition = scan.disposition
                       /\ scan'.prefix = Append(scan.prefix, row) /\ scan'.buffer = Tail(ahead)
                       /\ \/ /\ Fatal(row, scan.owner) /\ scan'.step = "quarantine"
                             /\ scan'.owner = scan.owner
                             /\ scan'.batch = scan.batch /\ scan'.errors = scan.errors \cup {Offset + 1}
                          \/ /\ ~ Fatal(row, scan.owner) /\ scan'.step = "read"
                             /\ row.kind = "bad" /\ scan'.owner = scan.owner
                             /\ scan.owner # NoOwner
                             /\ scan'.batch = scan.batch /\ scan'.errors = scan.errors \cup {Offset + 1}
                          \/ /\ ~ Fatal(row, scan.owner) /\ scan'.step = "read"
                             /\ row.kind # "bad"
                             /\ scan.owner = NoOwner => row.owner \in present /\ scan'.owner = row.owner
                             /\ scan.owner # NoOwner => scan'.owner = scan.owner
                             /\ scan'.batch = scan.batch \cup {Offset + 1} /\ scan'.errors = scan.errors
<1>1. scan.step = "read" /\ Collects /\ UNCHANGED <<files, database, history>>
  BY DEF ReadRow, Collects
<1>2. scan \in Collecting  BY <1>1, CollectingType
<1>. DEFINE owner(row) == IF scan.owner = NoOwner THEN row.owner ELSE scan.owner
            read(ahead) == [scan EXCEPT !.buffer = Tail(ahead), !.prefix = Append(@, Head(ahead))]
<1>3. PICK ahead \in Ahead :
        IF Fatal(Head(ahead), scan.owner)
        THEN scan' = [read(ahead) EXCEPT !.step = "quarantine", !.errors = @ \cup {Offset + 1}]
        ELSE IF scan.owner = NoOwner /\ owner(Head(ahead)) \notin present
        THEN scan' = Idle
        ELSE IF Head(ahead).kind = "bad"
        THEN scan' = [read(ahead) EXCEPT !.errors = @ \cup {Offset + 1}]
        ELSE scan' = [read(ahead) EXCEPT !.owner = owner(Head(ahead)), !.batch = @ \cup {Offset + 1}]
  BY DEF ReadRow
<1>. DEFINE row == Head(ahead)
<1>4. row \in FileRow /\ Tail(ahead) \in Seq(FileRow)  BY <1>1, AheadIs
<1>. HIDE DEF row
<1>5. row.owner \in AnOwner /\ present \subseteq AnOwner
  BY <1>4 DEF FileRow, AnOwner, ScanTypeOK
<1>6. Append(scan.prefix, row) \in Seq(FileRow) /\ Offset + 1 \in Nat \ {0}
  BY <1>2, <1>4 DEF Collecting, Offset
<1>7. CASE Fatal(row, scan.owner)
  <2>1. scan' = [scan EXCEPT !.buffer = Tail(ahead), !.prefix = Append(@, row),
                             !.step = "quarantine", !.errors = @ \cup {Offset + 1}]
    BY <1>2, <1>3, <1>7 DEF row, Collecting
  <2>. QED  BY <1>1, <1>2, <1>4, <1>6, <1>7, <2>1 DEF Collecting, row
<1>8. CASE ~ Fatal(row, scan.owner) /\ scan.owner = NoOwner /\ row.owner \notin present
  BY <1>1, <1>3, <1>8 DEF row
<1>9. CASE ~ Fatal(row, scan.owner) /\ ~ (scan.owner = NoOwner /\ row.owner \notin present) /\ row.kind = "bad"
  <2>1. scan' = [scan EXCEPT !.buffer = Tail(ahead), !.prefix = Append(@, row),
                             !.errors = @ \cup {Offset + 1}]
    BY <1>2, <1>3, <1>9 DEF row, Collecting
  <2>2. scan.owner # NoOwner  BY <1>9 DEF Fatal
  <2>. QED  BY <1>1, <1>2, <1>4, <1>6, <1>9, <2>1, <2>2 DEF Collecting, row
<1>10. CASE ~ Fatal(row, scan.owner) /\ ~ (scan.owner = NoOwner /\ row.owner \notin present) /\ row.kind # "bad"
  <2>1. scan' = [scan EXCEPT !.buffer = Tail(ahead), !.prefix = Append(@, row),
                             !.owner = owner(row), !.batch = @ \cup {Offset + 1}]
    BY <1>2, <1>3, <1>10 DEF row, Collecting
  <2>2. owner(row) \in AnOwner  BY <1>2, <1>5 DEF Collecting
  <2>. QED  BY <1>1, <1>2, <1>4, <1>6, <1>10, <2>1, <2>2 DEF Collecting, row
<1>. QED  BY <1>7, <1>8, <1>9, <1>10

\* Reading a row keeps the frame.
LEMMA ReadFrame ==
    ASSUME Frame, ReadRow
    PROVE  Frame'
<1>1. ScanTypeOK  BY DEF Frame
<1>2. Collects /\ scan.step = "read" /\ UNCHANGED <<files, database, still, revived>>
  BY <1>1, RowRead DEF history
<1>3. CASE scan' = Idle
  BY <1>2, <1>3, EndFrame
<1>4. CASE scan' # Idle
  <2>1. PICK ahead \in Ahead :
           /\ scan' \in Collecting
           /\ scan'.prior = scan.prior /\ scan'.priorOffset = scan.priorOffset
           /\ scan'.fresh = scan.fresh
           /\ scan'.prefix = Append(scan.prefix, Head(ahead))
           /\ scan'.step \in {"read", "quarantine"}
           /\ scan'.batch \cup scan'.errors = scan.batch \cup scan.errors \cup {Offset + 1}
    BY <1>1, <1>4, RowRead
  <2>2. ScanTypeOK'
    BY <1>2, <2>1 DEF Frame, ScanTypeOK, files, database
  <2>3. OneName' /\ RowsWithin' /\ PurgedStaysGone'
    BY <1>2 DEF Frame, OneName, RowsWithin, RowWithin, PurgedStaysGone, Purged, files, database
  <2>4. Seen'
    BY <1>2, <2>1 DEF Frame, Seen, database, Collects
  <2>5. BatchWithin'
    <3>1. /\ scan.prefix \in Seq(FileRow) /\ scan.priorOffset \in Nat /\ Offset = Len(scan.prefix)
          /\ Len(scan'.prefix) = Offset + 1 /\ Offset \in Nat
      BY <1>1, <1>2, <2>1, CollectingType DEF Collecting, Offset
    <3>2. Base' = Base /\ Base \in Nat  BY <2>1, <3>1 DEF Base
    <3>3. scan.batch \cup scan.errors = (Base + 1)..Offset
      BY <1>2, <3>1 DEF Frame, BatchWithin
    <3>4. Base <= Offset
      BY <1>2, <3>1 DEF Frame, BatchWithin
    <3>5. (Base + 1)..(Offset + 1) = ((Base + 1)..Offset) \cup {Offset + 1}
      BY <3>1, <3>2, <3>4
    <3>6. Base' <= Len(scan'.prefix)  BY <3>1, <3>2, <3>4
    <3>. QED  BY <1>2, <2>1, <3>1, <3>2, <3>3, <3>5, <3>6 DEF Frame, BatchWithin
  <2>. QED  BY <2>2, <2>3, <2>4, <2>5 DEF Frame
<1>. QED  BY <1>3, <1>4

(* Committing *)

\* The rows of a batch are those from where the scan began to where it is.
LEMMA BatchIs ==
    ASSUME Frame, Collects
    PROVE  /\ scan \in Collecting /\ Offset = Len(scan.prefix) /\ Offset \in Nat
           /\ Base \in Nat /\ Base <= Offset
           /\ scan.batch \cup scan.errors = (Base + 1)..Offset
           /\ \A n \in scan.batch : n \in Nat \ {0} /\ n > Base /\ n <= Offset /\ scan.prefix[n] \in FileRow
           /\ scan.os \in FileId /\ content[scan.os] \in Seq(FileRow) /\ stamp[scan.os] \in Nat
<1>1. scan \in Collecting  BY CollectingType DEF Frame
<1>2. /\ scan.prefix \in Seq(FileRow) /\ scan.priorOffset \in Nat
      /\ scan.os \in FileId /\ content[scan.os] \in Seq(FileRow) /\ stamp[scan.os] \in Nat
  BY <1>1 DEF Collecting, Frame, ScanTypeOK
<1>3. Offset = Len(scan.prefix) /\ Offset \in Nat /\ Base \in Nat
  BY <1>2 DEF Offset, Base
<1>4. Base <= Offset /\ scan.batch \cup scan.errors = (Base + 1)..Offset
  BY <1>3 DEF Frame, BatchWithin
<1>5. \A n \in scan.batch : n \in (Base + 1)..Offset  BY <1>4
<1>6. \A n \in scan.batch : n \in Nat \ {0} /\ n > Base /\ n <= Offset /\ scan.prefix[n] \in FileRow
  BY <1>2, <1>3, <1>5
<1>. QED  BY <1>1, <1>2, <1>3, <1>4, <1>6

\* The records with those of a batch.
LEMMA RecordsAre ==
    ASSUME Frame, Collects, NEW old \in SomeRecords
    PROVE  /\ Records(old) \in SomeRecords
           /\ DOMAIN Records(old) = scan.batch \cup DOMAIN old
           /\ \A n \in scan.batch : Records(old)[n] = scan.prefix[n]
           /\ \A n \in DOMAIN old \ scan.batch : Records(old)[n] = old[n]
<1>. DEFINE all == scan.batch \cup DOMAIN old
<1>1. PICK taken \in SUBSET (Nat \ {0}) : old \in [taken -> FileRow]
  BY DEF SomeRecords
<1>2. all \in SUBSET (Nat \ {0})  BY <1>1, BatchIs
<1>3. Records(old) \in [all -> FileRow]
  BY <1>1, BatchIs DEF Records
<1>4. Records(old) \in SomeRecords  BY <1>2, <1>3 DEF SomeRecords
<1>. QED  BY <1>4 DEF Records

\* A new row has had no records.
LEMMA NoRecords == <<>> \in SomeRecords /\ DOMAIN <<>> = {}
<1>1. <<>> \in [{} -> FileRow]  OBVIOUS
<1>2. {} \in SUBSET (Nat \ {0})  OBVIOUS
<1>. QED  BY <1>1, <1>2 DEF SomeRecords

\* The texts of a batch are of rows that no purge has dropped.
LEMMA TextsAre ==
    ASSUME Frame, Collects
    PROVE  /\ Texts \subseteq scan.batch
           /\ \A n \in Texts : ~ Purged(cutoff, scan.owner, scan.prefix[n])
BY DEF Texts, StoredText

\* The fields of a new generation.
LEMMA NewRowIs ==
    ASSUME Frame, Collects, NEW status \in {"active", "quarantined"}
    PROVE  LET r == NewRow(status)
           IN  /\ r \in StoredRow
               /\ r.path = scan.path /\ r.os = scan.os /\ r.owner = scan.owner /\ r.status = status
               /\ r.offset = Len(scan.prefix) /\ r.prefix = scan.prefix
               /\ r.texts = Texts /\ r.records = Records(<<>>)
               /\ AtPath(scan.path) = {} => r.gen = 1
               /\ AtPath(scan.path) # {} => \E i \in AtPath(scan.path) : r.gen = 1 + rows[i].gen
<1>1. /\ scan.path \in Path /\ scan.os \in FileId /\ scan.owner \in AnOwner
      /\ scan.prefix \in Seq(FileRow) /\ scan.errors \in SUBSET Nat
  BY BatchIs DEF Collecting
<1>2. Offset = Len(scan.prefix) /\ Offset \in Nat /\ Len(content[scan.os]) \in Nat /\ stamp[scan.os] \in Nat
  BY BatchIs
<1>3. Records(<<>>) \in SomeRecords  BY NoRecords, RecordsAre
<1>4. Texts \in SUBSET Nat  BY BatchIs, TextsAre
<1>. DEFINE ids == AtPath(scan.path)
            last == CHOOSE i \in ids : TRUE
            g == IF ids = {} THEN 1 ELSE 1 + rows[last].gen
<1>5. /\ g \in Nat \ {0} /\ (ids = {} => g = 1)
      /\ ids # {} => \E i \in ids : g = 1 + rows[i].gen
  <2>1. CASE ids = {}
    BY <2>1
  <2>2. CASE ids # {}
    <3>1. last \in ids  BY <2>2
    <3>2. last \in DOMAIN rows  BY <3>1, RowsOfPath
    <3>3. rows[last] \in StoredRow
      BY <3>2 DEF Frame, ScanTypeOK
    <3>4. rows[last].gen \in Nat \ {0}
      BY <3>3 DEF StoredRow
    <3>. HIDE DEF last, ids
    <3>5. g = 1 + rows[last].gen  BY <2>2
    <3>6. g \in Nat \ {0}  BY <3>4, <3>5
    <3>. QED  BY <2>2, <3>1, <3>5, <3>6
  <2>. QED  BY <2>1, <2>2
<1>6. NewRow(status) =
        [path |-> scan.path, os |-> scan.os, owner |-> scan.owner, status |-> status,
         gen |-> g,
         offset |-> Offset, prefix |-> scan.prefix, size |-> Len(content[scan.os]), stamp |-> stamp[scan.os],
         records |-> Records(<<>>), texts |-> Texts, errors |-> scan.errors]
  BY DEF NewRow
<1>7. status \in Status  BY DEF Status
<1>. HIDE DEF g, ids
<1>8. NewRow(status) \in StoredRow
  BY <1>1, <1>2, <1>3, <1>4, <1>5, <1>6, <1>7 DEF StoredRow
<1>. QED  BY <1>2, <1>5, <1>6, <1>8 DEF ids

\* The fields of a generation that is continued.
LEMMA ContinuedIs ==
    ASSUME Frame, Collects, NEW r \in StoredRow, NEW status \in {"active", "quarantined"}
    PROVE  LET c == Continued(r, status)
           IN  /\ c \in StoredRow
               /\ c.path = scan.path /\ c.os = r.os /\ c.owner = r.owner /\ c.status = status
               /\ c.gen = r.gen
               /\ c.offset = Len(scan.prefix) /\ c.prefix = scan.prefix
               /\ c.texts = r.texts \cup Texts /\ c.records = Records(r.records)
<1>1. /\ scan.path \in Path
      /\ scan.prefix \in Seq(FileRow) /\ scan.errors \in SUBSET Nat
  BY BatchIs DEF Collecting
<1>2. Offset = Len(scan.prefix) /\ Offset \in Nat /\ Len(content[scan.os]) \in Nat /\ stamp[scan.os] \in Nat
  BY BatchIs
<1>3. r.records \in SomeRecords  BY DEF StoredRow
<1>4. Records(r.records) \in SomeRecords  BY <1>3, RecordsAre
<1>5. Texts \in SUBSET Nat  BY BatchIs, TextsAre
<1>6. status \in Status  BY DEF Status
<1>7. Continued(r, status) =
        [r EXCEPT !.path = scan.path, !.status = status, !.offset = Offset, !.prefix = scan.prefix,
                  !.size = Len(content[scan.os]), !.stamp = stamp[scan.os],
                  !.records = Records(@), !.texts = @ \cup Texts, !.errors = @ \cup scan.errors]
  BY DEF Continued
<1>. DEFINE texts == r.texts \cup Texts
            errors == r.errors \cup scan.errors
<1>8. texts \in SUBSET Nat /\ errors \in SUBSET Nat
  BY <1>1, <1>5 DEF StoredRow
<1>9. Continued(r, status) =
        [r EXCEPT !.path = scan.path, !.status = status, !.offset = Offset, !.prefix = scan.prefix,
                  !.size = Len(content[scan.os]), !.stamp = stamp[scan.os],
                  !.records = Records(r.records), !.texts = texts, !.errors = errors]
  BY <1>7
<1>. HIDE DEF texts, errors
<1>10. Continued(r, status) \in StoredRow
  BY <1>1, <1>2, <1>4, <1>6, <1>8, <1>9, ZenonT(60) DEF StoredRow
<1>. QED  BY <1>2, <1>9, <1>10 DEF StoredRow, texts

Commits(status) == Collects /\ CanCommit /\ Commit(status)

\* A commit replaces the row it began with by a new generation,
Renewed(status) ==
    /\ scan.fresh
    /\ DOMAIN rows' = DOMAIN rows \cup {Len(rows) + 1} /\ Len(rows') = Len(rows) + 1
    /\ Len(rows) + 1 \notin DOMAIN rows
    /\ rows'[Len(rows) + 1] = NewRow(status)
    /\ \A i \in DOMAIN rows : i # scan.prior => rows'[i] = rows[i]
    /\ scan.prior # NoRow =>
         /\ scan.prior \in DOMAIN rows
         /\ rows[scan.prior].status # "pruned" /\ rows[scan.prior].offset = scan.priorOffset
         /\ rows'[scan.prior] = [rows[scan.prior] EXCEPT !.status = scan.disposition]

\* or continues it.
Extended(status) ==
    /\ ~ scan.fresh /\ scan.prior # NoRow /\ scan.prior \in DOMAIN rows
    /\ rows[scan.prior].status # "pruned" /\ rows[scan.prior].offset = scan.priorOffset
    /\ rows[scan.prior].os = scan.os /\ rows[scan.prior].owner = scan.owner
    /\ DOMAIN rows' = DOMAIN rows /\ Len(rows') = Len(rows)
    /\ rows'[scan.prior] = Continued(rows[scan.prior], status)
    /\ \A i \in DOMAIN rows : i # scan.prior => rows'[i] = rows[i]

\* A commit does one or the other, and leaves rows.
LEMMA CommitIs ==
    ASSUME Frame, NEW status \in {"active", "quarantined"}, Commits(status)
    PROVE  rows' \in Seq(StoredRow) /\ (Renewed(status) \/ Extended(status))
<1>1. rows \in Seq(StoredRow) /\ DOMAIN rows = 1..Len(rows) /\ Len(rows) \in Nat
  BY DEF Frame, ScanTypeOK
<1>2. scan \in Collecting /\ scan.step # "idle"  BY CollectingType DEF Frame, Commits
<1>3. scan.prior \in 0..Len(rows)  BY <1>2 DEF Frame, Seen
<1>4. scan.prior = NoRow => scan.fresh  BY DEF Frame, BatchWithin, Commits
<1>5. NewRow(status) \in StoredRow  BY NewRowIs DEF Commits
<1>6. scan.disposition \in Status  BY <1>2 DEF Collecting, Status
<1>7. CASE scan.prior = NoRow
  <2>1. rows' = Append(rows, NewRow(status))  BY <1>7 DEF Commits, Commit
  <2>2. rows' \in Seq(StoredRow)  BY <1>1, <1>5, <2>1
  <2>3. Renewed(status)  BY <1>1, <1>4, <1>5, <1>7, <2>1 DEF Renewed
  <2>. QED  BY <2>2, <2>3
<1>8. CASE scan.prior # NoRow /\ scan.fresh
  <2>1. scan.prior \in DOMAIN rows  BY <1>1, <1>3, <1>8 DEF NoRow
  <2>. DEFINE replaced == [rows[scan.prior] EXCEPT !.status = scan.disposition]
              old == [rows EXCEPT ![scan.prior] = replaced]
  <2>2. rows' = Append(old, NewRow(status))
    BY <1>8 DEF Commits, Commit
  <2>3. rows[scan.prior] \in StoredRow /\ replaced \in StoredRow
    <3>1. rows[scan.prior] \in StoredRow  BY <1>1, <2>1
    <3>2. ASSUME NEW r \in StoredRow PROVE [r EXCEPT !.status = scan.disposition] \in StoredRow
      BY <1>6 DEF StoredRow
    <3>. QED  BY <3>1, <3>2
  <2>. HIDE DEF replaced
  <2>4. /\ old \in Seq(StoredRow) /\ Len(old) = Len(rows) /\ DOMAIN old = DOMAIN rows
        /\ old[scan.prior] = replaced /\ \A i \in DOMAIN rows : i # scan.prior => old[i] = rows[i]
    BY <1>1, <2>1, <2>3
  <2>. HIDE DEF old
  <2>5. rows' \in Seq(StoredRow)  BY <1>5, <2>2, <2>4
  <2>6. /\ DOMAIN rows' = DOMAIN rows \cup {Len(rows) + 1} /\ Len(rows') = Len(rows) + 1
        /\ Len(rows) + 1 \notin DOMAIN rows
        /\ rows'[Len(rows) + 1] = NewRow(status)
        /\ \A i \in DOMAIN rows : rows'[i] = old[i]
    BY <1>1, <1>5, <2>2, <2>4
  <2>7. rows[scan.prior].status # "pruned" /\ rows[scan.prior].offset = scan.priorOffset
    BY <1>8 DEF Commits, CanCommit, Unmoved
  <2>. QED  BY <1>8, <2>1, <2>4, <2>5, <2>6, <2>7 DEF Renewed, replaced
<1>9. CASE scan.prior # NoRow /\ ~ scan.fresh
  <2>1. scan.prior \in DOMAIN rows  BY <1>1, <1>3, <1>9 DEF NoRow
  <2>2. rows' = [rows EXCEPT ![scan.prior] = Continued(rows[scan.prior], status)]
    BY <1>9 DEF Commits, Commit
  <2>3. rows[scan.prior] \in StoredRow  BY <1>1, <2>1
  <2>4. Continued(rows[scan.prior], status) \in StoredRow
    BY <2>3, ContinuedIs DEF Commits
  <2>5. rows' \in Seq(StoredRow) /\ DOMAIN rows' = DOMAIN rows /\ Len(rows') = Len(rows)
    BY <1>1, <2>1, <2>2, <2>4
  <2>6. /\ rows'[scan.prior] = Continued(rows[scan.prior], status)
        /\ \A i \in DOMAIN rows : i # scan.prior => rows'[i] = rows[i]
    BY <1>1, <2>1, <2>2
  <2>7. /\ rows[scan.prior].status # "pruned" /\ rows[scan.prior].offset = scan.priorOffset
        /\ rows[scan.prior].os = scan.os /\ rows[scan.prior].owner = scan.owner
    BY <1>9 DEF Commits, CanCommit, Unmoved
  <2>. QED  BY <1>9, <2>1, <2>5, <2>6, <2>7 DEF Extended
<1>. QED  BY <1>7, <1>8, <1>9

\* A row without a text that was purged.
Clean(r) == r.status # "pruned" => \A n \in r.texts : ~ Purged(cutoff, r.owner, r.records[n])

\* A new generation brings back no text that was purged,
LEMMA NewRowClean ==
    ASSUME Frame, Collects, NEW status \in {"active", "quarantined"}
    PROVE  RowWithin(NewRow(status)) /\ Clean(NewRow(status))
<1>. DEFINE r == NewRow(status)
<1>1. /\ r.owner = scan.owner /\ r.offset = Len(scan.prefix) /\ r.prefix = scan.prefix
      /\ r.texts = Texts /\ r.records = Records(<<>>)
  BY NewRowIs
<1>2. /\ DOMAIN Records(<<>>) = scan.batch
      /\ \A n \in scan.batch : Records(<<>>)[n] = scan.prefix[n]
  BY NoRecords, RecordsAre
<1>3. scan.batch \subseteq 1..Len(scan.prefix)  BY BatchIs
<1>. HIDE DEF r
<1>4. RowWithin(r)  BY <1>1, <1>2, <1>3, TextsAre DEF RowWithin
<1>5. Clean(r)  BY <1>1, <1>2, TextsAre DEF Clean
<1>. QED  BY <1>4, <1>5 DEF r

\* nor does one that is continued.
LEMMA ContinuedClean ==
    ASSUME Frame, Collects, NEW r \in StoredRow, NEW status \in {"active", "quarantined"},
           ~ scan.fresh, r.offset = scan.priorOffset, r.owner = scan.owner, r.status # "pruned",
           RowWithin(r), Clean(r)
    PROVE  RowWithin(Continued(r, status)) /\ Clean(Continued(r, status))
<1>. DEFINE c == Continued(r, status)
<1>1. /\ c.owner = scan.owner /\ c.offset = Len(scan.prefix) /\ c.prefix = scan.prefix
      /\ c.texts = r.texts \cup Texts /\ c.records = Records(r.records)
  BY ContinuedIs
<1>2. r.records \in SomeRecords /\ r.offset \in Nat  BY DEF StoredRow
<1>3. /\ DOMAIN Records(r.records) = scan.batch \cup DOMAIN r.records
      /\ \A n \in scan.batch : Records(r.records)[n] = scan.prefix[n]
      /\ \A n \in DOMAIN r.records \ scan.batch : Records(r.records)[n] = r.records[n]
  BY <1>2, RecordsAre
<1>4. Base = r.offset /\ Base <= Len(scan.prefix) /\ Len(scan.prefix) \in Nat
  BY BatchIs DEF Base
<1>5. DOMAIN r.records \subseteq 1..r.offset /\ r.texts \subseteq DOMAIN r.records
  BY DEF RowWithin
<1>6. \A n \in scan.batch : n \in 1..Len(scan.prefix) /\ n \notin DOMAIN r.records
  BY <1>2, <1>4, <1>5, BatchIs
<1>7. 1..r.offset \subseteq 1..Len(scan.prefix)  BY <1>2, <1>4
<1>. HIDE DEF c
<1>8. RowWithin(c)  BY <1>1, <1>3, <1>5, <1>6, <1>7, TextsAre DEF RowWithin
<1>9. Clean(c)
  <2>. SUFFICES ASSUME NEW n \in c.texts PROVE ~ Purged(cutoff, c.owner, c.records[n])
    BY DEF Clean
  <2>1. CASE n \in Texts
    BY <1>1, <1>3, <2>1, TextsAre
  <2>2. CASE n \in r.texts
    <3>1. n \in DOMAIN r.records \ scan.batch  BY <1>5, <1>6, <2>2
    <3>2. ~ Purged(cutoff, r.owner, r.records[n])  BY <2>2 DEF Clean
    <3>. QED  BY <1>1, <1>3, <3>1, <3>2
  <2>. QED  BY <1>1, <2>1, <2>2
<1>. QED  BY <1>8, <1>9 DEF c

\* The rows of a commit keep their part of the frame.
LEMMA CommitRows ==
    ASSUME Frame, NEW status \in {"active", "quarantined"}, Commits(status),
           UNCHANGED <<files, present, cutoff>>
    PROVE  RowsWithin' /\ PurgedStaysGone'
<1>1. \A i \in DOMAIN rows : rows[i] \in StoredRow /\ RowWithin(rows[i]) /\ Clean(rows[i])
  BY DEF Frame, ScanTypeOK, RowsWithin, PurgedStaysGone, Clean
<1>2. Collects /\ UNCHANGED cutoff  BY DEF Commits
<1>3. SUFFICES ASSUME NEW i \in DOMAIN rows' PROVE RowWithin(rows'[i]) /\ Clean(rows'[i])
  BY <1>2 DEF RowsWithin, PurgedStaysGone, Clean
<1>4. CASE Renewed(status)
  <2>1. CASE i = Len(rows) + 1
    BY <1>2, <1>4, <2>1, NewRowClean DEF Renewed
  <2>2. CASE i \in DOMAIN rows /\ i # scan.prior
    BY <1>1, <1>4, <2>2 DEF Renewed
  <2>3. CASE i \in DOMAIN rows /\ i = scan.prior
    <3>0. scan.prior # NoRow  BY <2>3 DEF NoRow, Frame, ScanTypeOK
    <3>1. /\ rows[i].status # "pruned"
          /\ rows'[i] = [rows[i] EXCEPT !.status = scan.disposition]
      BY <1>4, <2>3, <3>0 DEF Renewed
    <3>2. /\ rows'[i].offset = rows[i].offset /\ rows'[i].prefix = rows[i].prefix
          /\ rows'[i].texts = rows[i].texts /\ rows'[i].records = rows[i].records
          /\ rows'[i].owner = rows[i].owner
      BY <1>1, <2>3, <3>1 DEF StoredRow
    <3>. QED  BY <1>1, <2>3, <3>1, <3>2 DEF RowWithin, Clean
  <2>. QED  BY <1>4, <2>1, <2>2, <2>3 DEF Renewed
<1>5. CASE Extended(status)
  <2>1. CASE i = scan.prior
    BY <1>1, <1>2, <1>5, <2>1, ContinuedClean DEF Extended
  <2>2. CASE i # scan.prior
    BY <1>1, <1>5, <2>2 DEF Extended
  <2>. QED  BY <2>1, <2>2
<1>. QED  BY <1>4, <1>5, CommitIs

\* A commit that ends the scan keeps the frame,
LEMMA CommitEndFrame ==
    ASSUME Frame, NEW status \in {"active", "quarantined"}, Commits(status), scan' = Idle,
           UNCHANGED <<files, present, cutoff, troubles, still>>
    PROVE  Frame'
<1>1. RowsWithin' /\ PurgedStaysGone' /\ rows' \in Seq(StoredRow)
  BY CommitRows, CommitIs
<1>2. revived' \in BOOLEAN  BY DEF Commits, Commit, Frame, ScanTypeOK
<1>3. ScanTypeOK' /\ OneName'
  BY <1>1, <1>2 DEF Frame, ScanTypeOK, OneName, files
<1>4. scan'.step = "idle" /\ ~ Collects'  BY DEF Idle, Collects
<1>5. BatchWithin' /\ Seen'  BY <1>4 DEF BatchWithin, Seen
<1>. QED  BY <1>1, <1>3, <1>5 DEF Frame

\* The scan after a batch.
LEMMA AfterBatch ==
    ASSUME Frame, CommitBatch
    PROVE  /\ Commits("active") /\ scan.step = "read" /\ UNCHANGED <<files, present, cutoff, troubles, still>>
           /\ scan' \in Collecting /\ scan'.step = "read" /\ Collects' /\ scan'.path = scan.path /\ scan'.os = scan.os
           /\ scan'.prefix = scan.prefix /\ scan'.owner = scan.owner /\ scan'.buffer = scan.buffer
           /\ scan'.prior = Saved /\ scan'.priorOffset = Len(scan.prefix) /\ ~ scan'.fresh /\ ~ scan'.moved
           /\ scan'.batch = {} /\ scan'.errors = {}
           /\ Saved \in DOMAIN rows' /\ Saved # NoRow /\ Saved \in Nat
<1>1. /\ Commits("active") /\ scan.step = "read" /\ Collects
      /\ UNCHANGED <<files, present, cutoff, troubles, still>>
      /\ scan' = [scan EXCEPT !.prior = Saved, !.priorOffset = Offset, !.fresh = FALSE, !.moved = FALSE,
                            !.batch = {}, !.errors = {}]
  BY DEF CommitBatch, Commits, Collects
<1>2. scan \in Collecting /\ Offset = Len(scan.prefix) /\ Offset \in Nat  BY <1>1, BatchIs
<1>3. Len(rows) \in Nat /\ DOMAIN rows = 1..Len(rows)  BY DEF Frame, ScanTypeOK
<1>4. Saved \in DOMAIN rows' /\ Saved # NoRow /\ Saved \in Nat
  <2>1. scan.prior = NoRow => scan.fresh  BY <1>1 DEF Frame, BatchWithin
  <2>2. CASE Renewed("active")
    BY <1>3, <2>2 DEF Renewed, Saved, NoRow
  <2>3. CASE Extended("active")
    BY <1>3, <2>3 DEF Extended, Saved, NoRow
  <2>. QED  BY <1>1, <2>2, <2>3, CommitIs
<1>5. scan' \in Collecting  BY <1>1, <1>2, <1>4 DEF Collecting
<1>6. scan'.step = "read" /\ Collects'  BY <1>1, <1>2 DEF Collecting, Collects
<1>. QED  BY <1>1, <1>2, <1>4, <1>5, <1>6 DEF Collecting

\* and so does one in the middle of it.
LEMMA BatchFrame ==
    ASSUME Frame, CommitBatch
    PROVE  Frame'
<1>1. /\ Commits("active") /\ UNCHANGED <<files, present, cutoff, troubles, still>>
      /\ scan' \in Collecting /\ Collects' /\ scan'.step = "read"
      /\ scan'.prefix = scan.prefix
      /\ scan'.prior = Saved /\ scan'.priorOffset = Len(scan.prefix) /\ ~ scan'.fresh
      /\ scan'.batch = {} /\ scan'.errors = {}
      /\ Saved \in DOMAIN rows' /\ Saved # NoRow
  BY AfterBatch
<1>2. RowsWithin' /\ PurgedStaysGone' /\ rows' \in Seq(StoredRow)
  BY <1>1, CommitRows, CommitIs
<1>3. revived' \in BOOLEAN  BY <1>1 DEF Commits, Commit, Frame, ScanTypeOK
<1>4. ScanTypeOK' /\ OneName'
  BY <1>1, <1>2, <1>3 DEF Frame, ScanTypeOK, OneName, files
<1>5. BatchWithin'
  <2>1. Len(scan.prefix) \in Nat  BY <1>1, BatchIs DEF Commits
  <2>2. Base' = Len(scan.prefix)  BY <1>1 DEF Base
  <2>3. (Len(scan.prefix) + 1)..Len(scan.prefix) = {}  BY <2>1
  <2>. QED  BY <1>1, <2>1, <2>2, <2>3 DEF BatchWithin
<1>6. Seen'
  <2>1. DOMAIN rows' = 1..Len(rows') /\ Len(rows') \in Nat  BY <1>2
  <2>. QED  BY <1>1, <2>1 DEF Seen
<1>. QED  BY <1>2, <1>4, <1>5, <1>6 DEF Frame

\* The frame holds in the beginning.
LEMMA InitFrame ==
    ASSUME ScanInit
    PROVE  Frame
<1>. DEFINE id == CHOOSE f \in FileId : TRUE
<1>1. id \in FileId  BY CodexScanAssumption
<1>2. PICK held \in Contents :
        /\ names = [p \in Path |-> IF p = Home THEN id ELSE 0]
        /\ content = [f \in FileId |-> IF f = id THEN held ELSE <<>>]
  BY DEF ScanInit
<1>. HIDE DEF id
<1>3. held \in Seq(FileRow) /\ <<>> \in Seq(FileRow)  BY CodexScanAssumption
<1>4. names \in [Path -> FileId \cup {0}] /\ content \in [FileId -> Seq(FileRow)]
  BY <1>1, <1>2, <1>3
<1>5. /\ stamp \in [FileId -> Nat] /\ present \subseteq Owner /\ cutoff \in [Owner -> Nat]
      /\ scan = Idle /\ still \subseteq Path /\ revived \in BOOLEAN
  BY DEF ScanInit
<1>6. rows = <<>> /\ rows \in Seq(StoredRow) /\ DOMAIN rows = {}
  BY DEF ScanInit
<1>7. ScanTypeOK  BY <1>4, <1>5, <1>6 DEF ScanTypeOK
<1>8. OneName  BY <1>2 DEF OneName
<1>9. RowsWithin /\ PurgedStaysGone  BY <1>6 DEF RowsWithin, PurgedStaysGone
<1>10. scan.step = "idle" /\ ~ Collects  BY <1>5 DEF Idle, Collects
<1>11. BatchWithin /\ Seen  BY <1>10 DEF BatchWithin, Seen
<1>. QED  BY <1>7, <1>8, <1>9, <1>11 DEF Frame

\* The steps of the worker keep the frame.
LEMMA ScanStepFrame ==
    ASSUME Frame, ScanStep
    PROVE  Frame'
<1>1. CASE \E p \in Path : OpenKnown(p) \/ OpenMoved(p) \/ OpenNew(p)
  BY <1>1, OpenFrame
<1>2. CASE Check  BY <1>2, CheckFrame
<1>3. CASE ReadRow  BY <1>3, ReadFrame
<1>4. CASE CommitBatch  BY <1>4, BatchFrame
<1>5. CASE NothingToCommit  BY <1>5, EndFrame DEF NothingToCommit, history
<1>6. CASE CommitLast
  <2>1. /\ Commits("active") /\ scan' = Idle
        /\ UNCHANGED <<files, present, cutoff, troubles, still>>
    BY <1>6 DEF CommitLast, AtEnd, Commits, Collects
  <2>. QED  BY <2>1, CommitEndFrame
<1>7. CASE Quarantine
  <2>1. /\ Commits("quarantined") /\ scan' = Idle
        /\ UNCHANGED <<files, present, cutoff, troubles, still>>
    BY <1>7 DEF Quarantine, Commits, Collects
  <2>. QED  BY <2>1, CommitEndFrame
<1>8. CASE CommitRefused  BY <1>8, EndFrame DEF CommitRefused, history
<1>9. CASE ScanFails
  <2>1. /\ scan' = Idle /\ UNCHANGED <<files, database>> /\ revived' = revived
        /\ still' \subseteq still
    BY <1>9 DEF ScanFails, Trouble
  <2>. QED  BY <2>1, EndFrame
<1>. QED  BY <1>1, <1>2, <1>3, <1>4, <1>5, <1>6, <1>7, <1>8, <1>9 DEF ScanStep

\* Steps of others keep it.
LEMMA StutterFrame ==
    ASSUME Frame, UNCHANGED scanVars
    PROVE  Frame'
BY DEF Frame, ScanTypeOK, OneName, RowsWithin, RowWithin, BatchWithin, Seen, PurgedStaysGone,
       Collects, Base, Purged, scanVars

\* The frame is inductive.
LEMMA NextFrame ==
    ASSUME Frame, [ScanNext]_scanVars
    PROVE  Frame'
<1>1. ASSUME NEW row \in RowText, PurgeTexts(row.at + 1) PROVE Frame'
  <2>1. row.at + 1 \in Nat  BY CodexScanAssumption DEF FileRow
  <2>. QED  BY <1>1, <2>1, PurgeFrame
<1>. QED
  BY <1>1, ScanStepFrame, FileStepFrame, PruneFrame, SessionFrame, StutterFrame DEF ScanNext

(* What is true of the rows: steps that leave them as they are *)

\* A path that has a row has a last one.
LEMMA PathHasLast ==
    ASSUME Frame, Generations, NEW p, NEW k \in DOMAIN rows,
           rows[k].path = p, rows[k].status # "pruned"
    PROVE  AtPath(p) # {}
<1>. DEFINE ids == {i \in DOMAIN rows : rows[i].path = p /\ rows[i].status # "pruned"}
            gens == {rows[i].gen : i \in ids}
<1>1. \A i \in DOMAIN rows : rows[i].gen \in Nat /\ rows[i].gen <= Len(rows)
  <2>1. \A i \in DOMAIN rows : rows[i] \in StoredRow  BY DEF Frame, ScanTypeOK
  <2>2. \A i \in DOMAIN rows : rows[i].gen \in Nat  BY <2>1 DEF StoredRow
  <2>. QED  BY <2>2 DEF Generations
<1>2. Len(rows) \in Nat  BY DEF Frame, ScanTypeOK
<1>3. gens \in SUBSET (0..Len(rows))  BY <1>1, <1>2
<1>4. gens # {}  OBVIOUS
<1>5. Max(gens) \in gens /\ \A g \in gens : g <= Max(gens)
  <2>. HIDE DEF gens
  <2>. QED  BY <1>2, <1>3, <1>4, MaxOfBounded
<1>6. PICK i \in ids : rows[i].gen = Max(gens)  BY <1>5
<1>7. \A j \in ids : rows[j].gen <= rows[i].gen  BY <1>5, <1>6
<1>8. i \in AtPath(p)  BY <1>6, <1>7 DEF AtPath
<1>. QED  BY <1>8

\* The claims about the rows alone, and about the scan and the rows.
RowClaims == RowsTrue /\ Generations
ScanClaims == PriorTrue /\ PlanTrue /\ ReadTrue

\* Where the rows stay, so do the claims about them,
LEMMA SameRows ==
    ASSUME UNCHANGED rows
    PROVE  /\ \A p : AtPath(p)' = AtPath(p)
           /\ RowClaims => RowClaims'
BY DEF AtPath, RowClaims, RowsTrue, RowTrue, Generations

\* and where the scan stays too, all claims that no file has a part in.
LEMMA SameRowsAndScan ==
    ASSUME UNCHANGED <<rows, scan>>
    PROVE  /\ RowClaims => RowClaims'
           /\ ScanClaims => ScanClaims'
           /\ Live' = Live /\ Collects' = Collects
<1>1. \A p : AtPath(p)' = AtPath(p)  BY SameRows
<1>2. AtPath(scan.path)' = AtPath(scan.path)  BY DEF AtPath
<1>3. Live' = Live /\ Collects' = Collects  BY DEF Live, Collects
<1>4. PriorTrue => PriorTrue'  BY <1>2, <1>3 DEF PriorTrue
<1>5. PlanTrue => PlanTrue'  BY <1>3 DEF PlanTrue
<1>6. ReadTrue => ReadTrue'  BY <1>3 DEF ReadTrue, Base
<1>. QED  BY <1>3, <1>4, <1>5, <1>6, SameRows DEF ScanClaims

\* The end of a scan.
LEMMA EndTruth ==
    ASSUME Truth, scan' = Idle, UNCHANGED <<files, database>>, still' \subseteq still,
           scan.step # "idle" =>
             (scan.path \in still' /\ HasSession(content[names[scan.path]]) =>
                 \E i \in AtPath(scan.path) : Exact(i, scan.path))
    PROVE  Truth'
<1>1. scan'.step = "idle" /\ ~ Collects'  BY DEF Idle, Collects
<1>2. UNCHANGED <<names, content, stamp, rows, present>>  BY DEF files, database
<1>3. RowClaims'  BY <1>2, SameRows DEF Truth, RowClaims
<1>4. PriorTrue' /\ PlanTrue' /\ ReadTrue'
  BY <1>1 DEF PriorTrue, PlanTrue, ReadTrue, Collects
<1>5. RestingFiles'  BY <1>1, <1>2 DEF Truth, RestingFiles
<1>6. AllExact'
  <2>. SUFFICES ASSUME NEW p \in still', HasSession(content[names[p]])
       PROVE  \E i \in AtPath(p) : Exact(i, p)
    BY <1>2 DEF AllExact, HasSession, AtPath, Exact
  <2>1. CASE scan.step # "idle" /\ scan.path = p
    BY <2>1
  <2>2. CASE ~ (scan.step # "idle" /\ scan.path = p)
    BY <2>2 DEF Truth, AllExact
  <2>. QED  BY <2>1, <2>2
<1>. QED  BY <1>3, <1>4, <1>5, <1>6 DEF Truth, RowClaims

(* Files *)

\* Files that do not rest may change.
LEMMA FilesTruth ==
    ASSUME Truth, UNCHANGED <<database, scan>>, still' \subseteq still,
           \A p \in still' :
                /\ names'[p] = names[p]
                /\ content'[names[p]] = content[names[p]] /\ stamp'[names[p]] = stamp[names[p]]
    PROVE  Truth'
<1>1. UNCHANGED <<rows, present, scan>>  BY DEF database
<1>2. RowClaims' /\ ScanClaims' /\ Live' = Live /\ Collects' = Collects
  BY <1>1, SameRowsAndScan DEF Truth, RowClaims, ScanClaims
<1>3. RestingFiles'
  <2>1. \A p \in still' : names'[p] # 0  BY DEF Truth, RestingFiles
  <2>2. scan.step # "idle" => \A p \in still' : names'[p] = scan.os => p = scan.path
    BY DEF Truth, RestingFiles
  <2>3. ASSUME scan.step # "idle", scan.path \in still'
        PROVE  /\ names'[scan.path] = scan.os /\ Live
               /\ content'[scan.os] = content[scan.os] /\ stamp'[scan.os] = stamp[scan.os]
    BY <2>3 DEF Truth, RestingFiles
  <2>. QED  BY <1>1, <1>2, <2>1, <2>2, <2>3 DEF Truth, RestingFiles
<1>4. AllExact'
  <2>1. \A p \in still' : /\ HasSession(content[names[p]])' = HasSession(content[names[p]])
                          /\ AtPath(p)' = AtPath(p)
                          /\ \A i : Exact(i, p)' = Exact(i, p)
    BY <1>1 DEF HasSession, AtPath, Exact
  <2>. QED  BY <1>1, <2>1 DEF Truth, AllExact
<1>. QED  BY <1>2, <1>3, <1>4 DEF Truth, RowClaims, ScanClaims

\* Rows that are written into a file end its rest.
LEMMA FilledTruth ==
    ASSUME Frame, Truth, NEW p \in Path, NEW new, Filled(p, new)
    PROVE  Truth'
<1>1. /\ names[p] # 0 /\ UNCHANGED <<database, scan, names>> /\ still' = still \ {p}
      /\ content' = [content EXCEPT ![names[p]] = new]
      /\ stamp' = [stamp EXCEPT ![names[p]] = @ + 1]
  BY DEF Filled, Written
<1>2. \A q \in still' : q \in Path /\ names[q] # names[p] /\ names[q] \in FileId
  BY <1>1 DEF Frame, ScanTypeOK, OneName, Truth, RestingFiles
<1>3. \A q \in still' :
          /\ names'[q] = names[q]
          /\ content'[names[q]] = content[names[q]] /\ stamp'[names[q]] = stamp[names[q]]
  BY <1>1, <1>2 DEF Frame, ScanTypeOK
<1>. QED  BY <1>1, <1>3, FilesTruth

\* What Codex and the tools of the user do keeps the truth.
LEMMA FileStepTruth ==
    ASSUME Frame, Truth, FileStep
    PROVE  Truth'
<1>1. ASSUME NEW p \in Path, AppendTo(p) \/ CutTo(p) \/ RewriteIn(p) PROVE Truth'
  BY <1>1, FilledTruth DEF AppendTo, CutTo, RewriteIn
<1>2. ASSUME NEW p \in Path, NEW q \in Path, Rename(p, q) PROVE Truth'
  <2>1. /\ UNCHANGED <<database, scan, content, stamp>> /\ still' = still \ {p, q}
        /\ names' = [names EXCEPT ![q] = names[p], ![p] = 0]
    BY <1>2 DEF Rename, Written
  <2>2. \A a \in still' : names'[a] = names[a]
    BY <2>1 DEF Frame, ScanTypeOK
  <2>. QED  BY <2>1, <2>2, FilesTruth
<1>3. ASSUME NEW p \in Path, Delete(p) PROVE Truth'
  <2>1. /\ UNCHANGED <<database, scan, content, stamp>> /\ still' = still \ {p}
        /\ names' = [names EXCEPT ![p] = 0]
    BY <1>3 DEF Delete, Written
  <2>2. \A a \in still' : names'[a] = names[a]
    BY <2>1 DEF Frame, ScanTypeOK
  <2>. QED  BY <2>1, <2>2, FilesTruth
<1>4. ASSUME NEW p \in Path, Create(p) PROVE Truth'
  <2>1. PICK id \in FileId, held \in Contents :
             /\ \A q \in Path : names[q] # id
             /\ names' = [names EXCEPT ![p] = id]
             /\ content' = [content EXCEPT ![id] = held]
             /\ stamp' = [stamp EXCEPT ![id] = @ + 1]
    BY <1>4, CreatedFile DEF Frame
  <2>2. UNCHANGED <<database, scan>> /\ still' = still \ {p}
    BY <1>4 DEF Create, Written
  <2>3. \A a \in still' :
            /\ names'[a] = names[a]
            /\ content'[names[a]] = content[names[a]] /\ stamp'[names[a]] = stamp[names[a]]
    BY <2>1, <2>2 DEF Frame, ScanTypeOK
  <2>. QED  BY <2>2, <2>3, FilesTruth
<1>. QED  BY <1>1, <1>2, <1>3, <1>4 DEF FileStep

(* Purge, prune, sessions *)

\* A row that is pruned or has kept all but its texts.
KeptRow(i) ==
    rows'[i].status # "pruned" =>
        /\ rows'[i].path = rows[i].path /\ rows'[i].os = rows[i].os
        /\ rows'[i].owner = rows[i].owner /\ rows'[i].status = rows[i].status
        /\ rows'[i].gen = rows[i].gen /\ rows'[i].offset = rows[i].offset
        /\ rows'[i].prefix = rows[i].prefix /\ rows'[i].records = rows[i].records

\* purge and prune leave the claims about rows and scan.
LEMMA KeptRows ==
    ASSUME Frame, Frame', Truth, UNCHANGED <<files, scan>>,
           DOMAIN rows' = DOMAIN rows, Len(rows') = Len(rows),
           \A i \in DOMAIN rows : KeptRow(i) /\ rows'[i].gen = rows[i].gen
    PROVE  RowClaims' /\ ScanClaims'
<1>1. RowsTrue'
  BY DEF Truth, RowsTrue, RowTrue, KeptRow
<1>2. Generations'
  BY DEF Truth, Generations, KeptRow
<1>5. scan.step # "idle" /\ scan.prior # NoRow => scan.prior \in DOMAIN rows
  <2>1. scan.step # "idle" => scan.prior \in Nat /\ scan.prior \in 0..Len(rows)
    BY DEF Frame, Seen
  <2>. QED  BY <2>1 DEF NoRow, Frame, ScanTypeOK
<1>6. scan.step # "idle" /\ Live' => Live
  BY <1>5 DEF Live, KeptRow
<1>8. PriorTrue'
  <2>. SUFFICES ASSUME scan.step # "idle", Live'
       PROVE  /\ scan.prior = NoRow \/ scan.moved => AtPath(scan.path)' = {}
              /\ scan.moved =>
                 /\ scan.prior # NoRow
                 /\ rows'[scan.prior].status \in {"active", "rotated"}
                 /\ rows'[scan.prior].os = scan.os
              /\ scan.prior # NoRow /\ ~ scan.moved => scan.prior \in AtPath(scan.path)'
    BY DEF PriorTrue, AtPath
  <2>1. Live  BY <1>6
  <2>2. scan.prior = NoRow \/ scan.moved => AtPath(scan.path)' = {}
    <3>1. AtPath(scan.path) = {} =>
            \A i \in DOMAIN rows : rows[i].path = scan.path => rows[i].status = "pruned"
      BY PathHasLast DEF Truth
    <3>2. AtPath(scan.path) = {} => AtPath(scan.path)' = {}
      BY <3>1 DEF AtPath, KeptRow
    <3>. QED  BY <2>1, <3>2 DEF Truth, PriorTrue
  <2>3. scan.prior # NoRow => rows'[scan.prior].status # "pruned" /\ KeptRow(scan.prior)
    BY <1>5 DEF Live
  <2>4. scan.prior # NoRow /\ ~ scan.moved => scan.prior \in AtPath(scan.path)'
    <3>1. scan.prior # NoRow /\ ~ scan.moved => scan.prior \in AtPath(scan.path)
      BY <2>1 DEF Truth, PriorTrue
    <3>2. scan.prior \in AtPath(scan.path) /\ rows'[scan.prior].status # "pruned"
             => scan.prior \in AtPath(scan.path)'
      BY DEF AtPath, KeptRow
    <3>. QED  BY <2>3, <3>1, <3>2
  <2>. QED  BY <2>1, <2>2, <2>3, <2>4 DEF Truth, PriorTrue, KeptRow
<1>9. PlanTrue'
  <2>. SUFFICES ASSUME Collects, Live', scan.prior # NoRow PROVE PlanTrue'
    BY DEF PlanTrue, Collects
  <2>1. scan.step # "idle"  BY DEF Collects
  <2>2. Live /\ KeptRow(scan.prior) /\ rows'[scan.prior].status # "pruned"
    BY <1>5, <1>6, <2>1 DEF Live
  <2>. QED  BY <2>2 DEF Truth, PlanTrue, KeptRow, Collects
<1>10. ReadTrue'
  BY <1>6 DEF Truth, ReadTrue, Collects, Base
<1>. QED  BY <1>1, <1>2, <1>8, <1>9, <1>10 DEF RowClaims, ScanClaims

\* purge keeps the records.
LEMMA PurgeTruth ==
    ASSUME Frame, Frame', Truth, NEW before \in Nat, PurgeTexts(before)
    PROVE  Truth'
<1>. DEFINE left(r) == {n \in r.texts : ~ Purged(cutoff', r.owner, r.records[n])}
<1>1. /\ rows' = [i \in DOMAIN rows |-> [rows[i] EXCEPT !.texts = left(rows[i])]]
      /\ UNCHANGED <<files, scan, present, still>>
  BY DEF PurgeTexts, Cleaned
<1>2. \A i \in DOMAIN rows : rows[i] \in StoredRow
  BY DEF Frame, ScanTypeOK
<1>. HIDE DEF left
<1>3. \A i \in DOMAIN rows :
        /\ rows'[i].path = rows[i].path /\ rows'[i].os = rows[i].os
        /\ rows'[i].owner = rows[i].owner /\ rows'[i].status = rows[i].status
        /\ rows'[i].gen = rows[i].gen /\ rows'[i].offset = rows[i].offset
        /\ rows'[i].prefix = rows[i].prefix /\ rows'[i].records = rows[i].records
  BY <1>1, <1>2 DEF StoredRow
<1>4. DOMAIN rows' = DOMAIN rows  BY <1>1
<1>5. Len(rows') = Len(rows)
  BY <1>4 DEF Frame, ScanTypeOK
<1>6. RowClaims' /\ ScanClaims'
  BY <1>1, <1>3, <1>4, <1>5, KeptRows DEF KeptRow
<1>7. Live' = Live \/ scan.step = "idle"
  <2>1. scan.step # "idle" /\ scan.prior # NoRow => scan.prior \in DOMAIN rows
    BY DEF Frame, Seen, ScanTypeOK, NoRow
  <2>. QED  BY <1>1, <1>3, <2>1 DEF Live
<1>8. RestingFiles'
  BY <1>1, <1>7 DEF Truth, RestingFiles, files, Collects, Live
<1>9. AllExact'
  <2>1. \A p : AtPath(p)' = AtPath(p)
    BY <1>3, <1>4 DEF AtPath
  <2>2. \A p \in still : /\ HasSession(content[names[p]])' = HasSession(content[names[p]])
                         /\ AtPath(p)' = AtPath(p)
                         /\ \A i \in DOMAIN rows : Exact(i, p)' = Exact(i, p)
    BY <1>1, <1>3, <2>1 DEF HasSession, Exact, files, AtPath
  <2>. QED  BY <1>1, <2>2, RowsOfPath DEF Truth, AllExact
<1>. QED  BY <1>6, <1>8, <1>9 DEF Truth, RowClaims, ScanClaims

\* prune ends the rest of all files.
LEMMA PruneTruth ==
    ASSUME Frame, Frame', Truth, NEW old \in SUBSET Owner, Prune(old)
    PROVE  Truth'
<1>1. ScanTypeOK  BY DEF Frame
<1>2. \A i \in DOMAIN rows : rows[i] \in StoredRow  BY <1>1 DEF ScanTypeOK
<1>3. /\ UNCHANGED <<files, scan>> /\ still' = {}
      /\ DOMAIN rows' = DOMAIN rows /\ Len(rows') = Len(rows)
  BY <1>1, PrunedRows
<1>4. \A i \in DOMAIN rows : KeptRow(i) /\ rows'[i].gen = rows[i].gen
  <2>. SUFFICES ASSUME NEW i \in DOMAIN rows PROVE KeptRow(i) /\ rows'[i].gen = rows[i].gen
    OBVIOUS
  <2>1. CASE rows[i].owner \in present'
    BY <1>1, <2>1, PrunedRows DEF KeptRow
  <2>2. CASE rows[i].owner \notin present'
    <3>1. rows'[i] = [rows[i] EXCEPT !.status = "pruned"] /\ rows'[i].status = "pruned"
      BY <1>1, <2>2, PrunedRows
    <3>2. rows'[i].gen = rows[i].gen  BY <1>2, <3>1 DEF StoredRow
    <3>. QED  BY <3>1, <3>2 DEF KeptRow
  <2>. QED  BY <2>1, <2>2
<1>5. RowClaims' /\ ScanClaims'  BY <1>3, <1>4, KeptRows
<1>6. AllExact'  BY <1>3 DEF AllExact
<1>7. RestingFiles'  BY <1>3 DEF RestingFiles
<1>. QED  BY <1>5, <1>6, <1>7 DEF Truth, RowClaims, ScanClaims

\* So does a session that appears.
LEMMA SessionTruth ==
    ASSUME Truth, NEW o \in Owner, SessionStored(o)
    PROVE  Truth'
<1>1. UNCHANGED <<rows, scan>> /\ still' = {}  BY DEF SessionStored
<1>2. RowClaims' /\ ScanClaims'
  BY <1>1, SameRowsAndScan DEF Truth, RowClaims, ScanClaims
<1>3. AllExact'  BY <1>1 DEF AllExact
<1>4. RestingFiles'  BY <1>1 DEF RestingFiles
<1>. QED  BY <1>2, <1>3, <1>4 DEF Truth, RowClaims, ScanClaims

(* Opening a file *)

\* A scan begins with the last row of the path, or that of the file that was moved.
LEMMA OpenTruth ==
    ASSUME Frame, Truth, \E p \in Path : OpenKnown(p) \/ OpenMoved(p) \/ OpenNew(p)
    PROVE  Truth'
<1>1. PICK p \in Path, moved \in BOOLEAN, prior \in DOMAIN rows \cup {NoRow} :
              /\ Free /\ names[p] # 0 /\ Opened(p, prior, moved)
              /\ prior # NoRow => rows[prior].status # "pruned"
              /\ prior = NoRow \/ moved => AtPath(p) = {}
              /\ moved => /\ prior # NoRow
                          /\ rows[prior].status \in {"active", "rotated"}
                          /\ rows[prior].os = names[p]
                          /\ names[rows[prior].path] # names[p]
              /\ prior # NoRow /\ ~ moved => prior \in AtPath(p)
  BY Openings DEF Frame
<1>2. /\ UNCHANGED <<files, database>> /\ still' = still \cup {p}
      /\ scan'.step = "check" /\ scan'.path = p /\ scan'.os = names[p]
      /\ scan'.size = Len(content[names[p]]) /\ scan'.stamp = stamp[names[p]]
      /\ scan'.prior = prior /\ scan'.moved = moved
  BY <1>1 DEF Opened
<1>3. UNCHANGED <<names, content, stamp, rows, present>>  BY <1>2 DEF files, database
<1>4. ~ Collects' /\ scan.step = "idle"  BY <1>1, <1>2 DEF Collects, Free
<1>5. RowClaims'  BY <1>3, SameRows DEF Truth, RowClaims
<1>6. AtPath(p)' = AtPath(p)  BY <1>3 DEF AtPath
<1>7. AtPath(scan.path)' = AtPath(p)  BY <1>2, <1>3 DEF AtPath
<1>8. PriorTrue'  BY <1>1, <1>2, <1>3, <1>7 DEF PriorTrue
<1>9. PlanTrue' /\ ReadTrue'  BY <1>2, <1>4 DEF PlanTrue, ReadTrue
<1>10. Live'  BY <1>1, <1>2, <1>3 DEF Live
<1>11. RestingFiles'
  <2>1. \A q \in still' : names'[q] # 0  BY <1>1, <1>2, <1>3 DEF Truth, RestingFiles
  <2>2. \A q \in still' : names'[q] = scan'.os => q = scan'.path
    BY <1>1, <1>2, <1>3 DEF Frame, ScanTypeOK, OneName
  <2>. QED  BY <1>2, <1>3, <1>4, <1>10, <2>1, <2>2 DEF RestingFiles
<1>12. AllExact'
  <2>. SUFFICES ASSUME NEW q \in still', q # p, HasSession(content[names[q]])
       PROVE  \E i \in AtPath(q) : Exact(i, q)
    BY <1>2, <1>3 DEF AllExact, HasSession, AtPath, Exact
  <2>. QED  BY <1>2, <1>4 DEF Truth, AllExact
<1>. QED  BY <1>5, <1>8, <1>9, <1>11, <1>12 DEF Truth, RowClaims

(* Checking and reading a file *)

\* A step of the worker that stays with its file and its row.
LEMMA SameTarget ==
    ASSUME Truth, UNCHANGED <<files, database, still>>, scan.step # "idle", scan'.step # "idle",
           scan'.path = scan.path, scan'.os = scan.os, scan'.prior = scan.prior, scan'.moved = scan.moved
    PROVE  /\ RowClaims' /\ PriorTrue' /\ AllExact' /\ Live' = Live
           /\ \A p \in still : names[p] # 0 /\ (names[p] = scan.os => p = scan.path)
<1>1. UNCHANGED <<names, content, stamp, rows, present>>  BY DEF files, database
<1>2. RowClaims'  BY <1>1, SameRows DEF Truth, RowClaims
<1>3. Live' = Live  BY <1>1 DEF Live
<1>4. AtPath(scan.path)' = AtPath(scan.path)  BY <1>1 DEF AtPath
<1>5. PriorTrue'  BY <1>1, <1>3, <1>4 DEF Truth, PriorTrue
<1>6. AllExact'
  <2>. SUFFICES ASSUME NEW q \in still, q # scan.path, HasSession(content[names[q]])
       PROVE  \E i \in AtPath(q) : Exact(i, q)
    BY <1>1 DEF AllExact, HasSession, AtPath, Exact
  <2>. QED  BY DEF Truth, AllExact
<1>. QED  BY <1>2, <1>3, <1>5, <1>6 DEF Truth, RestingFiles

\* The row that the scan began with.
LEMMA PriorRow ==
    ASSUME Frame, scan.step # "idle", scan.prior # NoRow
    PROVE  /\ scan.prior \in DOMAIN rows /\ rows[scan.prior] \in StoredRow
           /\ RowWithin(rows[scan.prior])
           /\ Truth => RowTrue(rows[scan.prior])
<1>1. scan.prior \in DOMAIN rows  BY DEF Frame, Seen, ScanTypeOK, NoRow
<1>2. rows[scan.prior] \in StoredRow  BY <1>1 DEF Frame, ScanTypeOK
<1>. QED  BY <1>1, <1>2 DEF Frame, RowsWithin, Truth, RowsTrue

\* What the worker knows of the row is true of it while it is not pruned.
LEMMA WasRow ==
    ASSUME Frame, scan.step = "check", scan.prior # NoRow
    PROVE  LET r == rows[scan.prior]
               was == scan.was
           IN  /\ was \in Glance /\ was.offset = Len(was.prefix)
               /\ Live => /\ was.path = r.path /\ was.os = r.os /\ was.owner = r.owner
                          /\ was.status = r.status /\ was.offset = r.offset /\ was.prefix = r.prefix
                          /\ was.size = r.size /\ was.stamp = r.stamp
<1>1. rows[scan.prior] \in StoredRow  BY PriorRow
<1>2. scan.was \in Glance /\ scan.was.offset = Len(scan.was.prefix)
  BY DEF Frame, Seen
<1>3. Live => scan.was = Bare(rows[scan.prior])
  BY DEF Frame, Seen, Live, Bare
<1>. QED  BY <1>1, <1>2, <1>3, BareRow

\* A check that ends leaves a file alone whose rows are all known.
LEMMA LeftAlone ==
    ASSUME Frame, Truth, scan.step = "check", scan.prior # NoRow, scan.path \in still,
           SameAsQuarantined(scan.was) \/ Cut(scan.was)
    PROVE  \E i \in AtPath(scan.path) : Exact(i, scan.path)
<1>. DEFINE r == rows[scan.prior]
            held == content[scan.os]
            k == r.offset
<1>1. Live /\ names[scan.path] = scan.os /\ scan.size = Len(held)
  BY DEF Truth, RestingFiles
<1>2. /\ scan.was.os = r.os /\ scan.was.status = r.status /\ scan.was.offset = k
      /\ scan.was.prefix = r.prefix
  BY <1>1, WasRow
<1>3. scan.os \in FileId /\ held \in Seq(FileRow) /\ Len(held) \in Nat
  BY CheckingType DEF Frame, ScanTypeOK, Checking
<1>4. r \in StoredRow /\ RowWithin(r) /\ RowTrue(r)  BY PriorRow
<1>5. k \in Nat /\ k = Len(r.prefix) /\ r.prefix \in Seq(FileRow)
  BY <1>4 DEF StoredRow, RowWithin
<1>6. ~ Cut(scan.was)  BY <1>1, <1>2, <1>3, <1>5 DEF Cut, Shorter
<1>7. /\ r.status = "quarantined" /\ r.os = scan.os
      /\ ~ (Len(held) < k) /\ SubSeq(held, 1, k) = r.prefix
  BY <1>2, <1>6 DEF SameAsQuarantined, Shorter, Prefix
<1>8. FirstFatal(r.prefix) = k /\ k # 0 /\ r.records = Evidence(r.prefix)
  BY <1>4, <1>5, <1>7 DEF RowTrue
<1>9. k <= Len(held)  BY <1>3, <1>5, <1>7
<1>10. FirstFatal(SubSeq(held, 1, k)) = k  BY <1>7, <1>8, Zenon
<1>. HIDE DEF r, held, k
<1>11. FirstFatal(held) = k /\ Evidence(held) = Evidence(SubSeq(held, 1, k))
  BY <1>3, <1>5, <1>8, <1>9, <1>10, FatalPrefix
<1>12. r.records = Evidence(held)  BY <1>7, <1>8, <1>11, Zenon
<1>13. scan.prior \in AtPath(scan.path)
  BY <1>1, <1>7 DEF Truth, PriorTrue, r
<1>14. Exact(scan.prior, scan.path)
  BY <1>1, <1>7, <1>8, <1>11, <1>12 DEF Exact, r, held
<1>. QED  BY <1>13, <1>14

\* A file without rows.
LEMMA NoRows ==
    <<>> \in Seq(FileRow) /\ FirstFatal(<<>>) = 0 /\ Sound(<<>>) = {}
<1>1. <<>> \in Seq(FileRow) /\ DOMAIN <<>> = {}  OBVIOUS
<1>. QED  BY <1>1, FirstFatalIs, SoundIs

\* A check continues what is the beginning of the file and reads all else again.
LEMMA CheckTruth ==
    ASSUME Frame, Truth, Check
    PROVE  Truth'
<1>1. scan.step = "check" /\ ScanTypeOK /\ UNCHANGED <<files, database, still>>
  BY Checks DEF Check, Frame, history
<1>2. scan.prior # NoRow => scan.was \in Glance  BY <1>1, WasRow
<1>3. CASE scan' = Idle
  <2>1. scan.prior # NoRow /\ (SameAsQuarantined(scan.was) \/ Cut(scan.was))
    <3>1. Idle.step = "idle"  BY DEF Idle
    <3>2. \A fresh, prefix, owner, disposition :
             Reading(fresh, prefix, owner, disposition) => scan'.step = "read"
      BY DEF Reading
    <3>. QED  BY <1>3, <3>1, <3>2, Checks
  <2>. QED  BY <1>1, <1>3, <2>1, LeftAlone, EndTruth
<1>4. ASSUME NEW fresh \in BOOLEAN, NEW prefix \in Seq(FileRow), NEW owner \in AnOwner,
             NEW disposition \in {"superseded", "rotated"},
             Reading(fresh, prefix, owner, disposition),
             scan.prior = NoRow => fresh,
             fresh => prefix = <<>> /\ owner = NoOwner,
             fresh /\ scan.prior # NoRow => disposition = Disposition(scan.was),
             ~ fresh => prefix = scan.was.prefix /\ owner = scan.was.owner /\ Grown(scan.was)
      PROVE  Truth'
  <2>1. /\ scan' \in Collecting /\ scan'.step = "read" /\ Collects'
        /\ scan'.path = scan.path /\ scan'.os = scan.os /\ scan'.moved = scan.moved
        /\ scan'.prior = scan.prior /\ scan'.fresh = fresh /\ scan'.disposition = disposition
        /\ scan'.priorOffset = IF scan.prior = NoRow THEN 0 ELSE scan.was.offset
        /\ scan'.prefix = prefix /\ scan'.owner = owner /\ scan'.buffer = <<>>
        /\ scan'.batch = {} /\ scan'.errors = {}
    BY <1>1, <1>2, <1>4, ReadingIs
  <2>2. UNCHANGED <<names, content, stamp, rows, present>>  BY <1>1 DEF files, database
  <2>3. /\ RowClaims' /\ PriorTrue' /\ AllExact' /\ Live' = Live
        /\ \A p \in still : names[p] # 0 /\ (names[p] = scan.os => p = scan.path)
    BY <1>1, <2>1, SameTarget
  <2>4. ~ fresh => /\ scan.prior # NoRow /\ scan.was.offset = Len(prefix)
                   /\ scan.was.os = scan.os /\ scan.was.status \in {"active", "rotated"}
                   /\ scan.size >= Len(prefix) /\ SubSeq(content[scan.os], 1, Len(prefix)) = prefix
    BY <1>1, <1>4, WasRow DEF Grown, Prefix
  <2>5. Len(prefix) \in Nat  OBVIOUS
  <2>6. PlanTrue'
    <3>. SUFFICES ASSUME Live, scan.prior # NoRow
         PROVE  LET r == rows[scan.prior]
                IN  /\ r.offset = scan.was.offset
                    /\ fresh => (r.status = "quarantined" => disposition = "superseded")
                    /\ ~ fresh =>
                         /\ r.status \in {"active", "rotated"}
                         /\ r.os = scan.os /\ r.owner = owner
                         /\ r.offset <= Len(prefix)
                         /\ r.prefix = SubSeq(prefix, 1, r.offset)
      BY <2>1, <2>2, <2>3 DEF PlanTrue
    <3>1. fresh => (scan.was.status = "quarantined" => disposition = "superseded")
      BY <1>4 DEF Disposition
    <3>2. SubSeq(prefix, 1, Len(prefix)) = prefix  BY <2>5
    <3>3. /\ scan.was.os = rows[scan.prior].os /\ scan.was.owner = rows[scan.prior].owner
          /\ scan.was.status = rows[scan.prior].status /\ scan.was.offset = rows[scan.prior].offset
          /\ scan.was.prefix = rows[scan.prior].prefix
      BY <1>1, WasRow
    <3>4. ~ fresh => /\ scan.was.owner = owner /\ scan.was.prefix = SubSeq(prefix, 1, scan.was.offset)
                     /\ scan.was.offset <= Len(prefix)
      BY <1>4, <2>4, <2>5, <3>2
    <3>. QED  BY <2>4, <3>1, <3>3, <3>4
  <2>7. ReadTrue'
    <3>. SUFFICES ASSUME Live
         PROVE  /\ FirstFatal(prefix) = 0
                /\ prefix = <<>> => owner = NoOwner
                /\ prefix # <<>> => owner = prefix[1].owner /\ owner \in Owner
                /\ {} = {n \in Sound(prefix) : n > Base'}
      BY <2>1, <2>3 DEF ReadTrue
    <3>1. CASE fresh
      <4>1. prefix = <<>> /\ owner = NoOwner  BY <1>4, <3>1
      <4>2. Sound(prefix) = {}  BY <4>1, NoRows, Zenon
      <4>3. FirstFatal(prefix) = 0  BY <4>1, NoRows, Zenon
      <4>. QED  BY <4>1, <4>2, <4>3
    <3>2. CASE ~ fresh
      <4>. DEFINE r == rows[scan.prior]
      <4>1. r.prefix = prefix /\ r.owner = owner /\ r.status \in {"active", "rotated"} /\ RowTrue(r)
        BY <1>1, <1>4, <2>4, <3>2, WasRow, PriorRow
      <4>. HIDE DEF r
      <4>2. /\ FirstFatal(prefix) = 0 /\ prefix # <<>>
            /\ owner = prefix[1].owner /\ owner \in Owner
        BY <4>1 DEF RowTrue
      <4>3. Base' = Len(prefix)  BY <2>1, <2>4, <3>2 DEF Base
      <4>4. \A n \in Sound(prefix) : n \in 1..Len(prefix)  BY SoundIs
      <4>. QED  BY <2>5, <4>2, <4>3, <4>4
    <3>. QED  BY <3>1, <3>2
  <2>8. RestingFiles'
    <3>. SUFFICES ASSUME scan.path \in still
         PROVE  /\ names[scan.path] = scan.os /\ Live
                /\ Len(prefix) + Len(<<>>) <= Len(content[scan.os])
                /\ prefix = SubSeq(content[scan.os], 1, Len(prefix))
                /\ <<>> = SubSeq(content[scan.os], Len(prefix) + 1, Len(prefix) + Len(<<>>))
      BY <1>1, <2>1, <2>2, <2>3 DEF RestingFiles
    <3>1. names[scan.path] = scan.os /\ Live /\ scan.size = Len(content[scan.os])
      BY <1>1 DEF Truth, RestingFiles
    <3>2. content[scan.os] \in Seq(FileRow) /\ Len(content[scan.os]) \in Nat
      BY <1>1, CheckingType DEF ScanTypeOK, Checking
    <3>3. Len(prefix) <= Len(content[scan.os]) /\ prefix = SubSeq(content[scan.os], 1, Len(prefix))
      BY <1>4, <2>4, <2>5, <3>1, <3>2
    <3>. QED  BY <2>5, <3>1, <3>2, <3>3
  <2>. QED  BY <2>3, <2>6, <2>7, <2>8 DEF Truth, RowClaims
<1>5. <<>> \in Seq(FileRow) /\ NoOwner \in AnOwner  BY DEF AnOwner
<1>6. Disposition(scan.was) \in {"superseded", "rotated"}  BY DEF Disposition
<1>7. scan.prior # NoRow => scan.was.prefix \in Seq(FileRow) /\ scan.was.owner \in AnOwner
  BY <1>2 DEF Glance
<1>8. CASE scan.prior # NoRow /\ Grown(scan.was) /\ Reading(FALSE, scan.was.prefix, scan.was.owner, "rotated")
  BY <1>4, <1>7, <1>8
<1>9. CASE Reading(TRUE, <<>>, NoOwner, "rotated") /\ scan.prior = NoRow
  BY <1>4, <1>5, <1>9
<1>10. CASE Reading(TRUE, <<>>, NoOwner, Disposition(scan.was)) /\ scan.prior # NoRow
  BY <1>4, <1>5, <1>6, <1>10
<1>. QED  BY <1>3, <1>8, <1>9, <1>10, Checks

(* Reading a row *)

\* The next row of a file that rests is the file's next row.
LEMMA NextRow ==
    ASSUME NEW held \in Seq(FileRow), NEW a \in Nat, NEW n \in Nat, a + 1 <= n, n <= Len(held),
           NEW ahead, ahead = SubSeq(held, a + 1, n)
    PROVE  /\ ahead \in Seq(FileRow) /\ Len(ahead) = n - a /\ ahead # <<>>
           /\ Head(ahead) = held[a + 1] /\ Head(ahead) \in FileRow
           /\ Append(SubSeq(held, 1, a), Head(ahead)) = SubSeq(held, 1, a + 1)
           /\ a + 1 <= Len(held) /\ a + 1 + Len(Tail(ahead)) <= Len(held)
           /\ Tail(ahead) = SubSeq(held, a + 2, a + 1 + Len(Tail(ahead)))
<1>1. \A i \in 1..Len(held) : held[i] \in FileRow  OBVIOUS
<1>2. /\ ahead \in Seq(FileRow) /\ Len(ahead) = n - a
      /\ \A i \in 1..(n - a) : ahead[i] = held[a + i]
  <2>1. \A i \in (a + 1)..n : held[i] \in FileRow  BY <1>1
  <2>. QED  BY <2>1, SubSeqProperties
<1>3. ahead # <<>> /\ Head(ahead) = held[a + 1] /\ Head(ahead) \in FileRow
  BY <1>1, <1>2
<1>4. Append(SubSeq(held, 1, a), held[a + 1]) = SubSeq(held, 1, a + 1)
  BY PrefixGrows
<1>5. /\ Tail(ahead) \in Seq(FileRow) /\ Len(Tail(ahead)) = n - a - 1
      /\ \A i \in 1..(n - a - 1) : Tail(ahead)[i] = held[a + 1 + i]
  BY <1>2, <1>3
<1>6. /\ SubSeq(held, a + 2, n) \in Seq(FileRow) /\ Len(SubSeq(held, a + 2, n)) = n - a - 1
      /\ \A i \in 1..(n - a - 1) : SubSeq(held, a + 2, n)[i] = held[a + 1 + i]
  <2>1. \A i \in (a + 2)..n : held[i] \in FileRow  BY <1>1
  <2>2. a + 2 \in Int /\ n \in Int  OBVIOUS
  <2>. QED  BY <2>1, <2>2, SubSeqProperties
<1>7. Tail(ahead) = SubSeq(held, a + 2, n)
  <2>1. DOMAIN Tail(ahead) = 1..(n - a - 1)  BY <1>5
  <2>2. DOMAIN SubSeq(held, a + 2, n) = 1..(n - a - 1)  BY <1>6
  <2>. QED  BY <1>5, <1>6, <2>1, <2>2
<1>. DEFINE rest == Len(Tail(ahead))
<1>8. rest = n - a - 1  BY <1>5
<1>. HIDE DEF rest
<1>9. a + 1 + rest = n /\ a + 1 <= Len(held) /\ a + 1 + rest <= Len(held)
  BY <1>8
<1>10. Tail(ahead) = SubSeq(held, a + 2, a + 1 + rest)  BY <1>7, <1>9, Zenon
<1>. QED  BY <1>2, <1>3, <1>4, <1>9, <1>10, Zenon DEF rest

\* What the reader has of a file that rests, after one more row.
LEMMA RestingRead ==
    ASSUME Frame, Truth, Collects, scan.path \in still, NEW ahead \in Ahead
    PROVE  LET held == content[scan.os]
           IN  /\ held \in Seq(FileRow) /\ Len(held) \in Nat /\ Offset \in Nat
               /\ Offset + 1 <= Len(held) /\ Head(ahead) = held[Offset + 1]
               /\ Append(scan.prefix, Head(ahead)) = SubSeq(held, 1, Offset + 1)
               /\ Offset + 1 + Len(Tail(ahead)) <= Len(held)
               /\ Tail(ahead) = SubSeq(held, Offset + 2, Offset + 1 + Len(Tail(ahead)))
<1>. DEFINE held == content[scan.os]
            a == Offset
            b == Len(scan.buffer)
<1>1. scan \in Collecting /\ held \in Seq(FileRow) /\ Len(held) \in Nat /\ a = Len(scan.prefix) /\ a \in Nat
  BY BatchIs
<1>2. scan.buffer \in Seq(FileRow) /\ b \in Nat  BY <1>1 DEF Collecting
<1>3. /\ a + b <= Len(held) /\ scan.prefix = SubSeq(held, 1, a)
      /\ scan.buffer = SubSeq(held, a + 1, a + b)
  BY <1>1 DEF Truth, RestingFiles, Collects
<1>4. /\ ahead \in Seq(FileRow) /\ ahead # <<>>
      /\ scan.buffer # <<>> => ahead = scan.buffer
      /\ scan.buffer = <<>> => \E n \in (a + 1)..Len(held) : ahead = SubSeq(held, a + 1, n)
  BY AheadIs DEF Frame
<1>0. held \in Seq(FileRow) /\ Len(held) \in Nat /\ a \in Nat /\ b \in Nat  BY <1>1, <1>2
<1>. HIDE DEF held, a, b
<1>5. PICK n \in (a + 1)..Len(held) : ahead = SubSeq(held, a + 1, n)
  <2>1. CASE scan.buffer = <<>>
    BY <1>4, <2>1
  <2>2. CASE scan.buffer # <<>>
    <3>1. b # 0  BY <1>2, <2>2 DEF b
    <3>2. a + b \in (a + 1)..Len(held)  BY <1>0, <1>3, <3>1
    <3>3. ahead = SubSeq(held, a + 1, a + b)  BY <1>3, <1>4, <2>2
    <3>. QED  BY <3>2, <3>3
  <2>. QED  BY <2>1, <2>2
<1>6. n \in Nat /\ a + 1 <= n /\ n <= Len(held)  BY <1>0, <1>5
<1>7. /\ Head(ahead) = held[a + 1]
      /\ Append(SubSeq(held, 1, a), Head(ahead)) = SubSeq(held, 1, a + 1)
      /\ a + 1 <= Len(held) /\ a + 1 + Len(Tail(ahead)) <= Len(held)
      /\ Tail(ahead) = SubSeq(held, a + 2, a + 1 + Len(Tail(ahead)))
  BY <1>0, <1>5, <1>6, NextRow, SMTT(60)
<1>8. Append(scan.prefix, Head(ahead)) = SubSeq(held, 1, a + 1)
  BY <1>3, <1>7, Zenon
<1>. QED  BY <1>0, <1>7, <1>8, Zenon DEF held, a

\* The owner the reader goes by.
LEMMA ReadOwner ==
    ASSUME Frame, Truth, scan.step = "read", Live
    PROVE  /\ scan.owner = OwnerOf(scan.prefix)
           /\ scan.prefix = <<>> <=> scan.owner = NoOwner
           /\ FirstFatal(scan.prefix) = 0 /\ scan.prefix \in Seq(FileRow)
           /\ scan.batch = {n \in Sound(scan.prefix) : n > Base}
<1>1. Collects /\ scan.prefix \in Seq(FileRow)
  BY CollectingType DEF Collects, Frame, Collecting
<1>. QED  BY <1>1, CodexScanAssumption DEF Truth, ReadTrue, OwnerOf

\* A scan that stops at the first row has a file whose session is not there.
LEMMA NoSessionYet ==
    ASSUME Frame, Truth, scan.step = "read", scan.path \in still, NEW ahead \in Ahead,
           ~ Fatal(Head(ahead), scan.owner), scan.owner = NoOwner, Head(ahead).owner \notin present
    PROVE  ~ HasSession(content[names[scan.path]])
<1>. DEFINE held == content[scan.os]
<1>1. Collects /\ Live /\ names[scan.path] = scan.os
  BY DEF Collects, Truth, RestingFiles
<1>2. scan.prefix = <<>>  BY <1>1, ReadOwner
<1>3. Offset = 0  BY <1>2 DEF Offset
<1>4. held \in Seq(FileRow) /\ 1 <= Len(held) /\ Head(ahead) = held[1]
  BY <1>1, <1>3, RestingRead
<1>5. Head(ahead).kind = "meta"  BY DEF Fatal
<1>. QED  BY <1>1, <1>4, <1>5 DEF HasSession

\* Reading a row.
LEMMA ReadTruth ==
    ASSUME Frame, Truth, ReadRow
    PROVE  Truth'
<1>1. ScanTypeOK  BY DEF Frame
<1>2. Collects /\ scan.step = "read" /\ scan.step # "idle" /\ UNCHANGED <<files, database, still>>
  BY <1>1, RowRead DEF history, Collects
<1>3. CASE scan' = Idle
  <2>1. scan.path \in still => ~ HasSession(content[names[scan.path]])
    <3>1. Idle \notin Collecting  BY DEF Idle, Collecting
    <3>2. PICK ahead \in Ahead :
            ~ Fatal(Head(ahead), scan.owner) /\ scan.owner = NoOwner /\ Head(ahead).owner \notin present
      BY <1>1, <1>3, <3>1, RowRead
    <3>. QED  BY <1>2, <3>2, NoSessionYet
  <2>. QED  BY <1>2, <1>3, <2>1, EndTruth
<1>4. CASE scan' # Idle
  <2>1. PICK ahead \in Ahead :
           /\ scan' \in Collecting
           /\ scan'.path = scan.path /\ scan'.os = scan.os /\ scan'.moved = scan.moved
           /\ scan'.prior = scan.prior /\ scan'.priorOffset = scan.priorOffset
           /\ scan'.fresh = scan.fresh /\ scan'.disposition = scan.disposition
           /\ scan'.prefix = Append(scan.prefix, Head(ahead)) /\ scan'.buffer = Tail(ahead)
           /\ \/ /\ Fatal(Head(ahead), scan.owner) /\ scan'.step = "quarantine"
                 /\ scan'.owner = scan.owner /\ scan'.batch = scan.batch
              \/ /\ ~ Fatal(Head(ahead), scan.owner) /\ scan'.step = "read"
                 /\ Head(ahead).kind = "bad" /\ scan'.owner = scan.owner
                 /\ scan.owner # NoOwner /\ scan'.batch = scan.batch
              \/ /\ ~ Fatal(Head(ahead), scan.owner) /\ scan'.step = "read"
                 /\ Head(ahead).kind # "bad"
                 /\ scan.owner = NoOwner => Head(ahead).owner \in present /\ scan'.owner = Head(ahead).owner
                 /\ scan.owner # NoOwner => scan'.owner = scan.owner
                 /\ scan'.batch = scan.batch \cup {Offset + 1}
    BY <1>1, <1>4, RowRead
  <2>. DEFINE row1 == Head(ahead)
              new == Append(scan.prefix, row1)
  <2>2. /\ scan'.step # "idle" /\ Collects' /\ UNCHANGED <<names, content, stamp, rows, present>>
        /\ Collecting' = Collecting
    BY <1>2, <2>1 DEF Collects, files, database, Collecting
  <2>3. /\ RowClaims' /\ PriorTrue' /\ AllExact' /\ Live' = Live
        /\ \A p \in still : names[p] # 0 /\ (names[p] = scan.os => p = scan.path)
    BY <1>2, <2>1, <2>2, SameTarget
  <2>4. /\ scan.prefix \in Seq(FileRow) /\ Offset = Len(scan.prefix) /\ Offset \in Nat
        /\ row1 \in FileRow
    BY <1>1, <1>2, BatchIs, AheadIs DEF Collecting
  <2>5. /\ new \in Seq(FileRow) /\ Len(new) = Offset + 1 /\ new # <<>>
        /\ new[Offset + 1] = row1 /\ \A n \in 1..Offset : new[n] = scan.prefix[n]
        /\ \A n \in 0..Offset : SubSeq(new, 1, n) = SubSeq(scan.prefix, 1, n)
    <3>1. /\ new \in Seq(FileRow) /\ Len(new) = Offset + 1 /\ new # <<>>
          /\ new[Offset + 1] = row1 /\ \A n \in 1..Offset : new[n] = scan.prefix[n]
      <4>1. ASSUME NEW s \in Seq(FileRow), NEW e \in FileRow
            PROVE  /\ Append(s, e) \in Seq(FileRow) /\ Len(Append(s, e)) = Len(s) + 1
                   /\ Append(s, e) # <<>> /\ Append(s, e)[Len(s) + 1] = e
                   /\ \A n \in 1..Len(s) : Append(s, e)[n] = s[n]
        OBVIOUS
      <4>. HIDE DEF row1
      <4>. QED  BY <2>4, <4>1, Zenon
    <3>. HIDE DEF new, row1
    <3>2. ASSUME NEW n \in 0..Offset PROVE SubSeq(new, 1, n) = SubSeq(scan.prefix, 1, n)
      <4>1. n \in Nat /\ n <= Len(new) /\ n <= Len(scan.prefix)  BY <2>4, <3>1
      <4>2. /\ DOMAIN SubSeq(new, 1, n) = 1..n /\ Len(SubSeq(new, 1, n)) = n
            /\ SubSeq(new, 1, n) \in Seq(FileRow)
            /\ \A m \in 1..n : SubSeq(new, 1, n)[m] = new[m]
        BY <3>1, <4>1, PrefixAgrees
      <4>3. /\ DOMAIN SubSeq(scan.prefix, 1, n) = 1..n /\ Len(SubSeq(scan.prefix, 1, n)) = n
            /\ SubSeq(scan.prefix, 1, n) \in Seq(FileRow)
            /\ \A m \in 1..n : SubSeq(scan.prefix, 1, n)[m] = scan.prefix[m]
        BY <2>4, <4>1, PrefixAgrees
      <4>4. \A m \in 1..n : new[m] = scan.prefix[m]  BY <2>4, <3>1, <4>1
      <4>. QED  BY <4>2, <4>3, <4>4
    <3>. QED  BY <3>1, <3>2
  <2>6. ReadTrue'
    <3>. SUFFICES ASSUME Live
         PROVE  /\ scan'.step = "read" =>
                     /\ FirstFatal(new) = 0
                     /\ scan'.owner = new[1].owner /\ scan'.owner \in Owner
                /\ scan'.step = "quarantine" => FirstFatal(new) = Len(new)
                /\ scan'.batch = {n \in Sound(new) : n > Base}
      BY <2>1, <2>2, <2>3, <2>5 DEF ReadTrue, Base
    <3>1. /\ scan.owner = OwnerOf(scan.prefix)
          /\ scan.prefix = <<>> <=> scan.owner = NoOwner
          /\ FirstFatal(scan.prefix) = 0
          /\ scan.batch = {n \in Sound(scan.prefix) : n > Base}
      BY <1>2, ReadOwner
    <3>2. Base \in Nat /\ Base <= Offset  BY <1>2, BatchIs
    <3>. HIDE DEF new, row1
    <3>3. /\ Fatal(row1, scan.owner) => FirstFatal(new) = Len(new) /\ Sound(new) = Sound(scan.prefix)
          /\ ~ Fatal(row1, scan.owner) =>
                    /\ FirstFatal(new) = 0
                    /\ row1.kind = "bad" => Sound(new) = Sound(scan.prefix)
                    /\ row1.kind # "bad" => Sound(new) = Sound(scan.prefix) \cup {Offset + 1}
      <4>1. /\ Fatal(row1, OwnerOf(scan.prefix)) =>
                 FirstFatal(new) = Len(new) /\ Sound(new) = Sound(scan.prefix)
            /\ ~ Fatal(row1, OwnerOf(scan.prefix)) =>
                    /\ FirstFatal(new) = 0
                    /\ row1.kind = "bad" => Sound(new) = Sound(scan.prefix)
                    /\ row1.kind # "bad" => Sound(new) = Sound(scan.prefix) \cup {Len(new)}
        BY <2>4, <3>1, RowAppended, Zenon DEF new
      <4>. QED  BY <2>5, <3>1, <4>1, Zenon
    <3>4. scan'.step = "read" => scan'.owner = new[1].owner /\ scan'.owner \in Owner
      <4>1. CASE scan.prefix = <<>>
        <5>1. Offset = 0  BY <2>4, <4>1
        <5>2. new[1] = row1  BY <2>5, <5>1
        <5>. QED  BY <1>1, <2>1, <3>1, <4>1, <5>2 DEF row1, ScanTypeOK
      <4>2. CASE scan.prefix # <<>>
        <5>1. 1 \in 1..Offset  BY <2>4, <4>2
        <5>2. new[1] = scan.prefix[1]  BY <2>5, <5>1
        <5>3. scan.owner = scan.prefix[1].owner /\ scan.owner \in Owner /\ scan.owner # NoOwner
          BY <1>2, <3>1, <4>2 DEF Truth, ReadTrue
        <5>. QED  BY <2>1, <5>2, <5>3
      <4>. QED  BY <4>1, <4>2
    <3>5. scan'.batch = {n \in Sound(new) : n > Base}
      BY <2>1, <2>4, <3>1, <3>2, <3>3 DEF row1
    <3>. QED  BY <2>1, <3>3, <3>4, <3>5 DEF row1
  <2>7. PlanTrue'
    <3>. SUFFICES ASSUME Live, scan.prior # NoRow
         PROVE  LET r == rows[scan.prior]
                IN  /\ r.offset = scan.priorOffset
                    /\ scan.fresh => (r.status = "quarantined" => scan.disposition = "superseded")
                    /\ ~ scan.fresh =>
                         /\ r.status \in {"active", "rotated"}
                         /\ r.os = scan.os /\ r.owner = scan'.owner
                         /\ r.offset <= Len(new)
                         /\ r.prefix = SubSeq(new, 1, r.offset)
      BY <2>1, <2>2, <2>3 DEF PlanTrue
    <3>1. LET r == rows[scan.prior]
          IN  /\ r.offset = scan.priorOffset
              /\ scan.fresh => (r.status = "quarantined" => scan.disposition = "superseded")
              /\ ~ scan.fresh =>
                   /\ r.status \in {"active", "rotated"}
                   /\ r.os = scan.os /\ r.owner = scan.owner
                   /\ r.offset <= Len(scan.prefix)
                   /\ r.prefix = SubSeq(scan.prefix, 1, r.offset)
      BY <1>2 DEF Truth, PlanTrue
    <3>2. rows[scan.prior] \in StoredRow /\ RowTrue(rows[scan.prior])
      BY <1>2, PriorRow
    <3>3. rows[scan.prior].offset \in Nat  BY <3>2 DEF StoredRow
    <3>4. ~ scan.fresh => scan.owner # NoOwner /\ scan'.owner = scan.owner
      <4>1. ~ scan.fresh => scan.owner \in Owner  BY <3>1, <3>2 DEF RowTrue
      <4>. QED  BY <2>1, <4>1, CodexScanAssumption
    <3>5. ~ scan.fresh => rows[scan.prior].offset \in 0..Offset
      BY <2>4, <3>1, <3>3
    <3>. HIDE DEF new
    <3>6. Offset <= Len(new)  BY <2>4, <2>5
    <3>. QED  BY <2>4, <2>5, <3>1, <3>3, <3>4, <3>5, <3>6
  <2>8. RestingFiles'
    <3>. SUFFICES ASSUME scan.path \in still
         PROVE  /\ names[scan.path] = scan.os /\ Live
                /\ Len(new) + Len(Tail(ahead)) <= Len(content[scan.os])
                /\ new = SubSeq(content[scan.os], 1, Len(new))
                /\ Tail(ahead) = SubSeq(content[scan.os], Len(new) + 1, Len(new) + Len(Tail(ahead)))
      BY <1>2, <2>1, <2>2, <2>3 DEF RestingFiles, Collects
    <3>1. names[scan.path] = scan.os /\ Live
      BY <1>2 DEF Truth, RestingFiles
    <3>2. /\ new = SubSeq(content[scan.os], 1, Offset + 1)
          /\ Offset + 1 + Len(Tail(ahead)) <= Len(content[scan.os])
          /\ Tail(ahead) = SubSeq(content[scan.os], Offset + 2, Offset + 1 + Len(Tail(ahead)))
      BY <1>2, RestingRead
    <3>3. Len(new) = Offset + 1  BY <2>5
    <3>4. Offset + 2 = Len(new) + 1  BY <2>4, <3>3
    <3>. QED  BY <3>1, <3>2, <3>3, <3>4, Zenon
  <2>. QED  BY <2>3, <2>6, <2>7, <2>8 DEF Truth, RowClaims
<1>. QED  BY <1>3, <1>4

(* What a commit leaves *)

\* What has been read may become a row of this status.
Told(status) ==
    /\ scan.prefix # <<>>
    /\ scan.batch = {n \in Sound(scan.prefix) : n > Base}
    /\ status = "active" =>
         /\ FirstFatal(scan.prefix) = 0
         /\ scan.owner = scan.prefix[1].owner /\ scan.owner \in Owner
    /\ status = "quarantined" => FirstFatal(scan.prefix) = Len(scan.prefix)

\* A commit that can be made is of a row that is there.
LEMMA CommitLive ==
    ASSUME NEW status, Commits(status)
    PROVE  Live
BY DEF Commits, CanCommit, Unmoved, Live

\* The records of a new generation are the evidence of what was read.
LEMMA NewRecords ==
    ASSUME Frame, NEW status \in {"active", "quarantined"}, Commits(status), Told(status), scan.fresh
    PROVE  Records(<<>>) = Evidence(scan.prefix)
<1>1. Collects /\ scan.prefix \in Seq(FileRow)
  BY BatchIs DEF Commits, Collecting
<1>2. Base = 0  BY DEF Base
<1>3. \A n \in Sound(scan.prefix) : n \in 1..Len(scan.prefix)  BY <1>1, SoundIs
<1>4. scan.batch = Sound(scan.prefix)  BY <1>2, <1>3 DEF Told
<1>5. Records(<<>>) = [n \in scan.batch |-> scan.prefix[n]]
  BY NoRecords DEF Records
<1>. QED  BY <1>4, <1>5 DEF Evidence

\* So are those of a generation that is continued.
LEMMA MoreRecords ==
    ASSUME Frame, Truth, NEW status \in {"active", "quarantined"}, Commits(status), Told(status),
           ~ scan.fresh, scan.prior # NoRow
    PROVE  Records(rows[scan.prior].records) = Evidence(scan.prefix)
<1>. DEFINE r == rows[scan.prior]
            k == r.offset
<1>1. Collects /\ scan.prefix \in Seq(FileRow) /\ scan.step # "idle"
  BY BatchIs DEF Commits, Collecting, Collects
<1>2. Live  BY CommitLive
<1>3. /\ k = scan.priorOffset /\ r.status \in {"active", "rotated"}
      /\ k <= Len(scan.prefix) /\ r.prefix = SubSeq(scan.prefix, 1, k)
  BY <1>1, <1>2 DEF Truth, PlanTrue
<1>4. r \in StoredRow /\ RowTrue(r)  BY <1>1, PriorRow
<1>5. k \in Nat /\ FirstFatal(r.prefix) = 0 /\ r.records = Evidence(r.prefix)
  BY <1>3, <1>4 DEF StoredRow, RowTrue
<1>. DEFINE pre == SubSeq(scan.prefix, 1, k)
<1>6. FirstFatal(pre) = 0 /\ r.records = Evidence(pre)  BY <1>3, <1>5, Zenon
<1>. HIDE DEF r, k
<1>7. /\ Sound(pre) = {n \in Sound(scan.prefix) : n <= k}
      /\ \A n \in 1..k : pre[n] = scan.prefix[n]
  BY <1>1, <1>3, <1>5, <1>6, SoundPrefix
<1>. HIDE DEF pre
<1>8. \A n \in Sound(scan.prefix) : n \in Nat \ {0}  BY <1>1, SoundIs
<1>9. scan.batch = {n \in Sound(scan.prefix) : n > k}
  BY <1>3 DEF Told, Base
<1>10. DOMAIN r.records = Sound(pre) /\ \A n \in Sound(pre) : r.records[n] = pre[n]
  BY <1>6 DEF Evidence
<1>11. scan.batch \cup DOMAIN r.records = Sound(scan.prefix)
  BY <1>5, <1>7, <1>8, <1>9, <1>10
<1>12. \A n \in Sound(scan.prefix) \ scan.batch : r.records[n] = scan.prefix[n]
  <2>. SUFFICES ASSUME NEW n \in Sound(scan.prefix), n \notin scan.batch
       PROVE  r.records[n] = scan.prefix[n]
    OBVIOUS
  <2>1. n \in 1..k /\ n \in Sound(pre)  BY <1>5, <1>7, <1>8, <1>9
  <2>. QED  BY <1>7, <1>10, <2>1
<1>13. Records(r.records) = [n \in Sound(scan.prefix) |-> scan.prefix[n]]
  BY <1>11, <1>12 DEF Records
<1>. QED  BY <1>13 DEF Evidence, r

\* The row that a commit saves.
LEMMA SavedIs ==
    ASSUME Frame, Truth, NEW status \in {"active", "quarantined"}, Commits(status), Told(status)
    PROVE  LET r == rows'[Saved]
           IN  /\ Saved \in DOMAIN rows' /\ Saved # NoRow
               /\ r.path = scan.path /\ r.os = scan.os /\ r.owner = scan.owner /\ r.status = status
               /\ r.offset = Len(scan.prefix) /\ r.prefix = scan.prefix
               /\ r.records = Evidence(scan.prefix)
               /\ RowTrue(r)
<1>. DEFINE r == rows'[Saved]
<1>1. Collects /\ Len(rows) \in Nat /\ DOMAIN rows = 1..Len(rows)
  BY DEF Commits, Frame, ScanTypeOK
<1>2. /\ Saved \in DOMAIN rows' /\ Saved # NoRow
      /\ r.path = scan.path /\ r.os = scan.os /\ r.owner = scan.owner /\ r.status = status
      /\ r.offset = Len(scan.prefix) /\ r.prefix = scan.prefix
      /\ r.records = Evidence(scan.prefix)
  <2>1. CASE Renewed(status)
    <3>1. Saved = Len(rows) + 1 /\ r = NewRow(status) /\ Saved \in DOMAIN rows'
      BY <1>1, <2>1 DEF Renewed, Saved
    <3>2. Records(<<>>) = Evidence(scan.prefix)  BY <2>1, NewRecords DEF Renewed
    <3>3. Saved # NoRow  BY <1>1, <3>1 DEF NoRow
    <3>. HIDE DEF r
    <3>. QED  BY <1>1, <3>1, <3>2, <3>3, NewRowIs
  <2>2. CASE Extended(status)
    <3>1. Saved = scan.prior /\ r = Continued(rows[scan.prior], status) /\ Saved \in DOMAIN rows' /\ Saved # NoRow
      BY <1>1, <2>2 DEF Extended, Saved
    <3>2. Records(rows[scan.prior].records) = Evidence(scan.prefix)
      BY <2>2, MoreRecords DEF Extended
    <3>3. rows[scan.prior] \in StoredRow  BY <2>2 DEF Extended, Frame, ScanTypeOK
    <3>4. rows[scan.prior].os = scan.os /\ rows[scan.prior].owner = scan.owner
      BY <2>2 DEF Extended
    <3>. HIDE DEF r
    <3>. QED  BY <1>1, <3>1, <3>2, <3>3, <3>4, ContinuedIs
  <2>. QED  BY <2>1, <2>2, CommitIs
<1>. HIDE DEF r
<1>3. RowTrue(r)  BY <1>2 DEF RowTrue, Told
<1>. QED  BY <1>2, <1>3 DEF r

\* The row that a new generation replaces.
LEMMA Replaced ==
    ASSUME Frame, Truth, NEW status \in {"active", "quarantined"}, Renewed(status), Commits(status),
           ~ revived', scan.prior # NoRow
    PROVE  LET old == rows[scan.prior]
               new == rows'[scan.prior]
           IN  /\ new.path = old.path /\ new.os = old.os /\ new.owner = old.owner /\ new.gen = old.gen
               /\ new.prefix = old.prefix /\ new.records = old.records
               /\ old.status # "pruned" /\ new.status \in {"superseded", "rotated"}
               /\ RowTrue(new)
<1>. DEFINE old == rows[scan.prior]
            new == rows'[scan.prior]
<1>1. scan \in Collecting /\ scan.step # "idle" /\ Collects
  BY BatchIs DEF Commits, Collects
<1>2. old \in StoredRow /\ RowTrue(old)  BY <1>1, PriorRow
<1>3. old.status # "pruned" /\ new = [old EXCEPT !.status = scan.disposition]
  BY DEF Renewed
<1>4. scan.disposition \in {"superseded", "rotated"}  BY <1>1 DEF Collecting
<1>. HIDE DEF old, new
<1>5. /\ new.path = old.path /\ new.os = old.os /\ new.owner = old.owner /\ new.gen = old.gen
      /\ new.prefix = old.prefix /\ new.records = old.records /\ new.status = scan.disposition
  BY <1>2, <1>3 DEF StoredRow
<1>6. Live  BY CommitLive
<1>7. old.status = "quarantined" => scan.disposition = "superseded"
  BY <1>1, <1>6 DEF Truth, PlanTrue, Renewed, old
<1>8. old.status = "superseded" => scan.disposition # "rotated"
  BY DEF Commits, Commit, Revives, Renewed, old
<1>9. old.status \in Status  BY <1>2 DEF StoredRow
<1>10. scan.disposition = "rotated" => old.status \in {"active", "rotated"}
  BY <1>3, <1>7, <1>8, <1>9 DEF Status
<1>11. RowTrue(new)  BY <1>2, <1>4, <1>5, <1>10 DEF RowTrue
<1>. QED  BY <1>3, <1>4, <1>5, <1>11 DEF old, new

\* The scan's row is the last of its path, and the only one that may be active.
LEMMA LastOfPath ==
    ASSUME Frame, Truth, Live, scan.step # "idle", NEW j \in DOMAIN rows,
           rows[j].path = scan.path, rows[j].status # "pruned"
    PROVE  /\ scan.prior # NoRow /\ ~ scan.moved /\ scan.prior \in AtPath(scan.path)
           /\ j # scan.prior => rows[j].gen < rows[scan.prior].gen /\ rows[j].status # "active"
<1>1. AtPath(scan.path) # {}  BY PathHasLast DEF Truth
<1>2. scan.prior # NoRow /\ ~ scan.moved /\ scan.prior \in AtPath(scan.path)
  BY <1>1 DEF Truth, PriorTrue
<1>3. /\ scan.prior \in DOMAIN rows /\ rows[scan.prior].path = scan.path
      /\ rows[scan.prior].status # "pruned" /\ rows[j].gen <= rows[scan.prior].gen
  BY <1>2, RowsOfPath
<1>4. rows[j].gen \in Nat /\ rows[scan.prior].gen \in Nat
  <2>1. rows[j] \in StoredRow /\ rows[scan.prior] \in StoredRow
    BY <1>3 DEF Frame, ScanTypeOK
  <2>. QED  BY <2>1 DEF StoredRow
<1>5. /\ rows[j].gen = rows[scan.prior].gen => j = scan.prior
      /\ rows[j].status = "active" => rows[scan.prior].gen <= rows[j].gen
  BY <1>3 DEF Truth, Generations
<1>. QED  BY <1>2, <1>3, <1>4, <1>5

\* The rows that a commit does not save.
LEMMA OtherRows ==
    ASSUME Frame, Truth, NEW status \in {"active", "quarantined"}, Commits(status), ~ revived'
    PROVE  /\ DOMAIN rows \subseteq DOMAIN rows' /\ Len(rows) <= Len(rows')
           /\ \A i \in DOMAIN rows' : i # Saved =>
                /\ i \in DOMAIN rows
                /\ rows'[i].path = rows[i].path /\ rows'[i].os = rows[i].os /\ rows'[i].gen = rows[i].gen
                /\ rows'[i].status = "pruned" <=> rows[i].status = "pruned"
                /\ rows'[i].status = "active" => rows[i].status = "active" /\ i # scan.prior
                /\ i # scan.prior => rows'[i] = rows[i]
                /\ RowTrue(rows'[i])
<1>1. Len(rows) \in Nat /\ DOMAIN rows = 1..Len(rows)  BY DEF Frame, ScanTypeOK
<1>2. \A i \in DOMAIN rows : RowTrue(rows[i])  BY DEF Truth, RowsTrue
<1>3. CASE Renewed(status)
  <2>1. /\ Saved = Len(rows) + 1 /\ DOMAIN rows' = DOMAIN rows \cup {Saved} /\ Len(rows') = Len(rows) + 1
        /\ \A i \in DOMAIN rows : i # scan.prior => rows'[i] = rows[i]
    BY <1>3 DEF Renewed, Saved
  <2>2. scan.prior \in DOMAIN rows =>
          LET old == rows[scan.prior]
              new == rows'[scan.prior]
          IN  /\ new.path = old.path /\ new.os = old.os /\ new.gen = old.gen
              /\ old.status # "pruned" /\ new.status \in {"superseded", "rotated"}
              /\ RowTrue(new)
    <3>1. scan.prior \in DOMAIN rows => scan.prior # NoRow  BY <1>1 DEF NoRow
    <3>. QED  BY <1>3, <3>1, Replaced
  <2>3. Len(rows) <= Len(rows')  BY <1>1, <2>1
  <2>. QED  BY <1>2, <2>1, <2>2, <2>3
<1>4. CASE Extended(status)
  <2>1. /\ Saved = scan.prior /\ DOMAIN rows' = DOMAIN rows /\ Len(rows') = Len(rows)
        /\ \A i \in DOMAIN rows : i # scan.prior => rows'[i] = rows[i]
    BY <1>4 DEF Extended, Saved
  <2>2. Len(rows) <= Len(rows')  BY <1>1, <2>1
  <2>. QED  BY <1>2, <2>1, <2>2
<1>. QED  BY <1>3, <1>4, CommitIs

\* The row that is saved is the last of its path.
LEMMA SavedLast ==
    ASSUME Frame, Truth, NEW status \in {"active", "quarantined"}, Commits(status), ~ revived'
    PROVE  /\ rows'[Saved].gen <= Len(rows')
           /\ \A j \in DOMAIN rows' : j # Saved /\ rows'[j].path = scan.path /\ rows'[j].status # "pruned" =>
                rows'[j].gen < rows'[Saved].gen /\ rows'[j].status # "active"
<1>1. /\ Collects /\ scan.step # "idle" /\ Live /\ Len(rows) \in Nat
      /\ \A i \in DOMAIN rows : rows[i].gen \in Nat /\ rows[i].gen <= Len(rows)
  <2>1. \A i \in DOMAIN rows : rows[i] \in StoredRow  BY DEF Frame, ScanTypeOK
  <2>2. \A i \in DOMAIN rows : rows[i].gen \in Nat  BY <2>1 DEF StoredRow
  <2>. QED  BY <2>2, CommitLive DEF Commits, Collects, Frame, ScanTypeOK, Truth, Generations
<1>2. ASSUME NEW j \in DOMAIN rows', j # Saved, rows'[j].path = scan.path, rows'[j].status # "pruned"
      PROVE  /\ j \in DOMAIN rows /\ rows[j].path = scan.path /\ rows[j].status # "pruned"
             /\ rows'[j].gen = rows[j].gen
             /\ rows'[j].status = "active" => rows[j].status = "active" /\ j # scan.prior
  BY <1>2, OtherRows
<1>3. \A j \in DOMAIN rows' : j # Saved /\ rows'[j].path = scan.path /\ rows'[j].status # "pruned" =>
          rows'[j].status # "active"
  BY <1>1, <1>2, LastOfPath
<1>4. CASE Renewed(status)
  <2>1. rows'[Saved] = NewRow(status) /\ Len(rows') = Len(rows) + 1
    BY <1>4 DEF Renewed, Saved
  <2>2. CASE AtPath(scan.path) = {}
    <3>1. rows'[Saved].gen = 1  BY <1>1, <2>1, <2>2, NewRowIs
    <3>2. ASSUME NEW j \in DOMAIN rows', j # Saved, rows'[j].path = scan.path, rows'[j].status # "pruned"
          PROVE  FALSE
      <4>1. AtPath(scan.path) # {}  BY <1>2, <3>2, PathHasLast DEF Truth
      <4>. QED  BY <2>2, <4>1
    <3>. QED  BY <1>1, <2>1, <3>1, <3>2
  <2>3. CASE AtPath(scan.path) # {}
    <3>1. PICK l \in AtPath(scan.path) : rows'[Saved].gen = 1 + rows[l].gen
      BY <1>1, <2>1, <2>3, NewRowIs
    <3>2. l \in DOMAIN rows  BY RowsOfPath
    <3>3. ASSUME NEW j \in DOMAIN rows', j # Saved, rows'[j].path = scan.path, rows'[j].status # "pruned"
          PROVE  rows'[j].gen < rows'[Saved].gen
      <4>1. j \in DOMAIN rows /\ rows'[j].gen = rows[j].gen /\ rows[j].gen <= rows[l].gen
        BY <1>2, <3>3, RowsOfPath
      <4>. QED  BY <1>1, <3>1, <3>2, <4>1
    <3>. QED  BY <1>1, <1>3, <2>1, <3>1, <3>2, <3>3
  <2>. QED  BY <2>2, <2>3
<1>5. CASE Extended(status)
  <2>1. /\ Saved = scan.prior /\ scan.prior \in DOMAIN rows /\ Len(rows') = Len(rows)
        /\ rows'[Saved] = Continued(rows[scan.prior], status)
    BY <1>5 DEF Extended, Saved
  <2>2. rows[scan.prior] \in StoredRow  BY <2>1 DEF Frame, ScanTypeOK
  <2>3. rows'[Saved].gen = rows[scan.prior].gen  BY <1>1, <2>1, <2>2, ContinuedIs
  <2>4. ASSUME NEW j \in DOMAIN rows', j # Saved, rows'[j].path = scan.path, rows'[j].status # "pruned"
        PROVE  rows'[j].gen < rows'[Saved].gen
    BY <1>1, <1>2, <2>1, <2>3, <2>4, LastOfPath
  <2>. QED  BY <1>1, <1>3, <2>1, <2>3, <2>4
<1>. QED  BY <1>4, <1>5, CommitIs

\* A commit keeps the claims about the rows.
LEMMA CommitRowClaims ==
    ASSUME Frame, Truth, NEW status \in {"active", "quarantined"}, Commits(status), Told(status), ~ revived'
    PROVE  RowClaims' /\ \A p : p = scan.path => Saved \in AtPath(p)'
<1>1. /\ Saved \in DOMAIN rows' /\ rows'[Saved].path = scan.path /\ rows'[Saved].status = status
      /\ RowTrue(rows'[Saved])
  BY SavedIs
<1>2. RowsTrue'
  <2>1. \A i \in DOMAIN rows' : RowTrue(rows'[i])  BY <1>1, OtherRows
  <2>. QED  BY <2>1 DEF RowsTrue, RowTrue
<1>3. \A i \in DOMAIN rows' : rows'[i].gen \in Nat /\ rows'[i].gen <= Len(rows')
  <2>1. \A i \in DOMAIN rows' : rows'[i] \in StoredRow  BY CommitIs
  <2>2. \A i \in DOMAIN rows' : rows'[i].gen \in Nat  BY <2>1 DEF StoredRow
  <2>3. rows' \in Seq(StoredRow) /\ Len(rows') \in Nat /\ Len(rows) \in Nat /\ Len(rows) <= Len(rows')
    BY CommitIs, OtherRows DEF Frame, ScanTypeOK
  <2>4. ASSUME NEW i \in DOMAIN rows', i # Saved PROVE rows'[i].gen <= Len(rows')
    <3>1. i \in DOMAIN rows /\ rows'[i].gen = rows[i].gen  BY <2>4, OtherRows
    <3>2. rows[i].gen <= Len(rows)  BY <3>1 DEF Truth, Generations
    <3>. QED  BY <2>2, <2>3, <3>1, <3>2
  <2>. QED  BY <2>2, <2>4, SavedLast
<1>4. Generations'
  <2>. SUFFICES ASSUME NEW i \in DOMAIN rows', NEW j \in DOMAIN rows', rows'[i].path = rows'[j].path,
                       rows'[i].status # "pruned", rows'[j].status # "pruned"
       PROVE  /\ rows'[i].gen = rows'[j].gen => i = j
              /\ rows'[i].status = "active" => rows'[j].gen <= rows'[i].gen
    BY <1>3 DEF Generations
  <2>1. rows'[i].gen \in Nat /\ rows'[j].gen \in Nat  BY <1>3
  <2>2. CASE i = Saved /\ j = Saved
    BY <2>1, <2>2
  <2>3. CASE i = Saved /\ j # Saved
    <3>1. rows'[j].gen < rows'[i].gen  BY <1>1, <2>3, SavedLast
    <3>. QED  BY <2>1, <3>1
  <2>4. CASE i # Saved /\ j = Saved
    <3>1. rows'[i].gen < rows'[j].gen /\ rows'[i].status # "active"  BY <1>1, <2>4, SavedLast
    <3>. QED  BY <2>1, <3>1
  <2>5. CASE i # Saved /\ j # Saved
    <3>1. /\ i \in DOMAIN rows /\ j \in DOMAIN rows /\ rows[i].path = rows[j].path
          /\ rows[i].status # "pruned" /\ rows[j].status # "pruned"
          /\ rows'[i].gen = rows[i].gen /\ rows'[j].gen = rows[j].gen
          /\ rows'[i].status = "active" => rows[i].status = "active"
      BY <2>5, OtherRows
    <3>2. /\ rows[i].gen = rows[j].gen => i = j
          /\ rows[i].status = "active" => rows[j].gen <= rows[i].gen
      BY <3>1 DEF Truth, Generations
    <3>. QED  BY <3>1, <3>2
  <2>. QED  BY <2>2, <2>3, <2>4, <2>5
<1>5. \A p : p = scan.path => Saved \in AtPath(p)'
  <2>1. \A j \in DOMAIN rows' : rows'[j].path = scan.path /\ rows'[j].status # "pruned" =>
            rows'[j].gen <= rows'[Saved].gen
    <3>1. \A j \in DOMAIN rows' : j # Saved /\ rows'[j].path = scan.path /\ rows'[j].status # "pruned" =>
              rows'[j].gen < rows'[Saved].gen
      BY SavedLast
    <3>. QED  BY <1>1, <1>3, <3>1
  <2>. QED  BY <1>1, <2>1 DEF AtPath
<1>. QED  BY <1>2, <1>4, <1>5 DEF RowClaims

\* A commit leaves the rows of other files alone.
LEMMA CommitOthers ==
    ASSUME Frame, Truth, NEW status \in {"active", "quarantined"}, Commits(status), Told(status), ~ revived',
           UNCHANGED <<files, present, still>>,
           NEW q \in still, q # scan.path, HasSession(content[names[q]])
    PROVE  \E i \in AtPath(q)' : Exact(i, q)'
<1>1. Collects /\ scan.step # "idle" /\ Live /\ UNCHANGED <<names, content>>
  BY CommitLive DEF Commits, Collects, files
<1>2. PICK i \in AtPath(q) : Exact(i, q)  BY <1>1 DEF Truth, AllExact
<1>3. i \in DOMAIN rows /\ rows[i].path = q /\ rows[i].status # "pruned"
  BY RowsOfPath
<1>4. i # scan.prior
  <2>. SUFFICES ASSUME i = scan.prior PROVE FALSE  OBVIOUS
  <2>1. scan.prior # NoRow  BY <1>3 DEF NoRow, Frame, ScanTypeOK
  <2>2. CASE scan.moved
    <3>1. rows[i].os = scan.os  BY <1>1, <2>2 DEF Truth, PriorTrue
    <3>2. names[q] = scan.os  BY <1>2, <3>1 DEF Exact
    <3>. QED  BY <1>1, <3>2 DEF Truth, RestingFiles
  <2>3. CASE ~ scan.moved
    <3>1. i \in AtPath(scan.path)  BY <1>1, <2>1, <2>3 DEF Truth, PriorTrue
    <3>. QED  BY <1>3, <3>1, RowsOfPath
  <2>. QED  BY <2>2, <2>3
<1>5. i # Saved
  <2>1. i # Len(rows) + 1  BY <1>3 DEF Frame, ScanTypeOK
  <2>. QED  BY <1>4, <2>1 DEF Saved
<1>6. i \in DOMAIN rows' /\ rows'[i] = rows[i]  BY <1>3, <1>4, <1>5, OtherRows
<1>7. rows'[Saved].path # q  BY SavedIs
<1>8. \A j \in DOMAIN rows' : rows'[j].path = q /\ rows'[j].status # "pruned" => rows'[j].gen <= rows'[i].gen
  <2>. SUFFICES ASSUME NEW j \in DOMAIN rows', rows'[j].path = q, rows'[j].status # "pruned"
       PROVE  rows'[j].gen <= rows'[i].gen
    OBVIOUS
  <2>1. /\ j \in DOMAIN rows /\ rows[j].path = q /\ rows[j].status # "pruned" /\ rows'[j].gen = rows[j].gen
    BY <1>7, OtherRows
  <2>2. rows[j].gen <= rows[i].gen  BY <2>1, RowsOfPath
  <2>. QED  BY <1>6, <2>1, <2>2
<1>9. i \in AtPath(q)'  BY <1>3, <1>6, <1>8 DEF AtPath
<1>10. Exact(i, q)'  BY <1>1, <1>2, <1>6 DEF Exact
<1>. QED  BY <1>9, <1>10

(* The ends of a scan *)

\* A file whose rows are all read has been read whole.
LEMMA ReadWhole ==
    ASSUME Frame, Truth, AtEnd, scan.path \in still
    PROVE  /\ scan.prefix = content[scan.os] /\ names[scan.path] = scan.os
           /\ scan.prefix \in Seq(FileRow)
<1>. DEFINE held == content[scan.os]
            a == Offset
<1>1. scan.step = "read" /\ Collects /\ Ahead = {}  BY DEF AtEnd, Collects
<1>2. /\ scan \in Collecting /\ held \in Seq(FileRow) /\ a = Len(scan.prefix) /\ a \in Nat
  BY <1>1, BatchIs
<1>3. scan.buffer \in Seq(FileRow) /\ scan.prefix \in Seq(FileRow)  BY <1>2 DEF Collecting
<1>4. scan.buffer = <<>> /\ (a + 1)..Len(held) = {}
  BY <1>1 DEF Ahead
<1>5. /\ names[scan.path] = scan.os /\ a + Len(scan.buffer) <= Len(held)
      /\ scan.prefix = SubSeq(held, 1, a)
  BY <1>1, <1>2 DEF Truth, RestingFiles
<1>. HIDE DEF held, a
<1>6. Len(scan.buffer) = 0  BY <1>4
<1>7. Len(held) \in Nat  BY <1>2
<1>8. a <= Len(held)  BY <1>2, <1>5, <1>6, <1>7
<1>9. ~ (a + 1 <= Len(held))
  <2>. SUFFICES ASSUME a + 1 <= Len(held) PROVE FALSE  OBVIOUS
  <2>1. a + 1 \in (a + 1)..Len(held)  BY <1>2, <1>7
  <2>. QED  BY <1>4, <2>1
<1>10. a = Len(held)  BY <1>2, <1>7, <1>8, <1>9
<1>11. SubSeq(held, 1, Len(held)) = held  BY <1>2
<1>12. scan.prefix = held  BY <1>5, <1>10, <1>11, Zenon
<1>. QED  BY <1>3, <1>5, <1>12 DEF held

\* What was read when a batch, the last rows or a bad file are committed.
LEMMA ToldActive ==
    ASSUME Frame, Truth, Commits("active"), scan.step = "read", scan.prefix # <<>>
    PROVE  Told("active")
<1>1. Live  BY CommitLive
<1>. QED  BY <1>1 DEF Told, Commits, Truth, ReadTrue

\* A bad file is committed with all that came before the bad row.
LEMMA ToldQuarantined ==
    ASSUME Frame, Truth, Commits("quarantined"), scan.step = "quarantine"
    PROVE  Told("quarantined")
<1>1. Live  BY CommitLive
<1>. QED  BY <1>1 DEF Told, Commits, Truth, ReadTrue

\* No commit is empty.
LEMMA SomethingRead ==
    ASSUME Frame, Truth, Commits("active"), scan.step = "read",
           Full \/ scan.owner # NoOwner
    PROVE  scan.prefix # <<>>
<1>1. Live  BY CommitLive
<1>2. CASE scan.owner # NoOwner
  BY <1>1, <1>2, ReadOwner
<1>3. CASE Full
  <2>. SUFFICES ASSUME scan.prefix = <<>> PROVE FALSE  OBVIOUS
  <2>1. /\ scan.batch \cup scan.errors = (Base + 1)..Offset /\ Base \in Nat
        /\ Offset = Len(scan.prefix)
    BY BatchIs DEF Commits
  <2>2. Offset = 0  BY <2>1
  <2>3. scan.batch \cup scan.errors = {}  BY <2>1, <2>2
  <2>4. Cardinality(scan.batch \cup scan.errors) = 0  BY <2>3, FS_EmptySet
  <2>. QED  BY <1>3, <2>4, CodexScanAssumption DEF Full
<1>. QED  BY <1>2, <1>3

\* After a batch the scan goes on from the row it has saved.
LEMMA BatchTruth ==
    ASSUME Frame, Truth, CommitBatch, ~ revived'
    PROVE  Truth'
<1>1. /\ Commits("active") /\ scan.step = "read" /\ UNCHANGED <<files, present, cutoff, troubles, still>>
      /\ scan' \in Collecting /\ scan'.step = "read" /\ Collects' /\ scan'.path = scan.path /\ scan'.os = scan.os
      /\ scan'.prefix = scan.prefix /\ scan'.owner = scan.owner /\ scan'.buffer = scan.buffer
      /\ scan'.prior = Saved /\ scan'.priorOffset = Len(scan.prefix) /\ ~ scan'.fresh /\ ~ scan'.moved
      /\ scan'.batch = {} /\ scan'.errors = {}
      /\ Saved # NoRow
  BY AfterBatch
<1>2. Full /\ Collects /\ Live /\ UNCHANGED <<names, content, stamp>>
  BY <1>1, CommitLive DEF CommitBatch, Collects, files
<1>3. Told("active")
  <2>1. scan.prefix # <<>>  BY <1>1, <1>2, SomethingRead
  <2>. QED  BY <1>1, <2>1, ToldActive
<1>4. /\ rows'[Saved].path = scan.path /\ rows'[Saved].os = scan.os
      /\ rows'[Saved].owner = scan.owner /\ rows'[Saved].status = "active"
      /\ rows'[Saved].offset = Len(scan.prefix) /\ rows'[Saved].prefix = scan.prefix
  BY <1>1, <1>3, SavedIs
<1>5. RowClaims' /\ Saved \in AtPath(scan.path)'
  BY <1>1, <1>3, CommitRowClaims
<1>6. scan.prefix \in Seq(FileRow) /\ Len(scan.prefix) \in Nat /\ SubSeq(scan.prefix, 1, Len(scan.prefix)) = scan.prefix
  <2>1. scan.prefix \in Seq(FileRow)  BY <1>2, BatchIs DEF Collecting
  <2>. QED  BY <2>1
<1>7. Live'  BY <1>1, <1>4 DEF Live
<1>8. PriorTrue'  BY <1>1, <1>5 DEF PriorTrue
<1>9. PlanTrue'  BY <1>1, <1>4, <1>6 DEF PlanTrue
<1>10. ReadTrue'
  <2>1. Base' = Len(scan.prefix)  BY <1>1 DEF Base
  <2>2. \A n \in Sound(scan.prefix) : n \in 1..Len(scan.prefix)  BY <1>6, SoundIs
  <2>3. {} = {n \in Sound(scan.prefix) : n > Len(scan.prefix)}  BY <1>6, <2>2
  <2>4. /\ FirstFatal(scan.prefix) = 0
        /\ scan.prefix = <<>> => scan.owner = NoOwner
        /\ scan.prefix # <<>> => scan.owner = scan.prefix[1].owner /\ scan.owner \in Owner
    BY <1>1, <1>2 DEF Truth, ReadTrue
  <2>. QED  BY <1>1, <2>1, <2>3, <2>4 DEF ReadTrue
<1>11. RestingFiles'
  BY <1>1, <1>2, <1>7 DEF Truth, RestingFiles
<1>12. AllExact'
  <2>. SUFFICES ASSUME NEW q \in still, q # scan.path, HasSession(content[names[q]])
       PROVE  \E i \in AtPath(q)' : Exact(i, q)'
    BY <1>1, <1>2 DEF AllExact, HasSession
  <2>. QED  BY <1>1, <1>3, CommitOthers
<1>. QED  BY <1>5, <1>8, <1>9, <1>10, <1>11, <1>12 DEF Truth, RowClaims

\* A commit that ends the scan.
LEMMA LastTruth ==
    ASSUME Frame, Truth, NEW status \in {"active", "quarantined"}, Commits(status), Told(status), ~ revived',
           scan' = Idle, UNCHANGED <<files, present, cutoff, still>>,
           scan.path \in still =>
             LET held == content[scan.os]
             IN  /\ names[scan.path] = scan.os
                 /\ Evidence(scan.prefix) = Evidence(held)
                 /\ status = IF FirstFatal(held) = 0 THEN "active" ELSE "quarantined"
    PROVE  Truth'
<1>1. scan'.step = "idle" /\ ~ Collects'  BY DEF Idle, Collects
<1>2. UNCHANGED <<names, content, stamp, present>> /\ Collects  BY DEF files, Commits
<1>3. /\ rows'[Saved].os = scan.os /\ rows'[Saved].status = status
      /\ rows'[Saved].records = Evidence(scan.prefix)
  BY SavedIs
<1>4. RowClaims'  BY CommitRowClaims
<1>5. PriorTrue' /\ PlanTrue' /\ ReadTrue'
  BY <1>1 DEF PriorTrue, PlanTrue, ReadTrue, Collects
<1>6. RestingFiles'  BY <1>1, <1>2 DEF Truth, RestingFiles
<1>7. AllExact'
  <2>. SUFFICES ASSUME NEW q \in still, HasSession(content[names[q]])
       PROVE  \E i \in AtPath(q)' : Exact(i, q)'
    BY <1>2 DEF AllExact, HasSession
  <2>1. CASE q # scan.path
    BY <2>1, CommitOthers
  <2>2. CASE q = scan.path
    <3>1. PICK i : i = Saved  OBVIOUS
    <3>2. /\ rows'[i].os = names[q] /\ rows'[i].records = Evidence(content[names[q]])
          /\ rows'[i].status \in IF FirstFatal(content[names[q]]) = 0 THEN {"active", "rotated"} ELSE {"quarantined"}
      BY <1>3, <2>2, <3>1
    <3>3. Exact(i, q)'  BY <1>2, <3>2 DEF Exact
    <3>4. i \in AtPath(q)'  BY <2>2, <3>1, CommitRowClaims
    <3>. QED  BY <3>3, <3>4
  <2>. QED  BY <2>1, <2>2
<1>. QED  BY <1>4, <1>5, <1>6, <1>7 DEF Truth, RowClaims

\* The last rows: the row has the evidence of the whole file.
LEMMA CommitLastTruth ==
    ASSUME Frame, Truth, CommitLast, ~ revived'
    PROVE  Truth'
<1>1. /\ AtEnd /\ scan.step = "read" /\ Commits("active") /\ scan.owner # NoOwner /\ scan' = Idle
      /\ UNCHANGED <<files, present, cutoff, still>>
  BY DEF CommitLast, AtEnd, Nothing, Commits, Collects
<1>2. Told("active")
  <2>1. scan.prefix # <<>>  BY <1>1, SomethingRead
  <2>. QED  BY <1>1, <2>1, ToldActive
<1>3. ASSUME scan.path \in still
      PROVE  /\ names[scan.path] = scan.os
             /\ Evidence(scan.prefix) = Evidence(content[scan.os])
             /\ FirstFatal(content[scan.os]) = 0
  <2>1. scan.prefix = content[scan.os] /\ names[scan.path] = scan.os
    BY <1>1, <1>3, ReadWhole
  <2>2. FirstFatal(scan.prefix) = 0  BY <1>2 DEF Told
  <2>. QED  BY <2>1, <2>2, Zenon
<1>. QED  BY <1>1, <1>2, <1>3, LastTruth

\* A bad row: what comes after it in the file counts for nothing.
LEMMA QuarantineTruth ==
    ASSUME Frame, Truth, Quarantine, ~ revived'
    PROVE  Truth'
<1>1. /\ scan.step = "quarantine" /\ Commits("quarantined") /\ Collects /\ scan' = Idle
      /\ UNCHANGED <<files, present, cutoff, still>>
  BY DEF Quarantine, Commits, Collects
<1>2. Told("quarantined")  BY <1>1, ToldQuarantined
<1>3. ASSUME scan.path \in still
      PROVE  /\ names[scan.path] = scan.os
             /\ Evidence(scan.prefix) = Evidence(content[scan.os])
             /\ FirstFatal(content[scan.os]) # 0
  <2>. DEFINE held == content[scan.os]
              k == Len(scan.prefix)
  <2>1. scan \in Collecting /\ held \in Seq(FileRow)  BY <1>1, BatchIs
  <2>2. scan.prefix \in Seq(FileRow) /\ scan.buffer \in Seq(FileRow)  BY <2>1 DEF Collecting
  <2>3. /\ names[scan.path] = scan.os /\ k + Len(scan.buffer) <= Len(held)
        /\ scan.prefix = SubSeq(held, 1, k)
    BY <1>1, <1>3 DEF Truth, RestingFiles
  <2>4. k \in Nat /\ k # 0 /\ k <= Len(held)
    <3>1. k \in Nat /\ Len(scan.buffer) \in Nat /\ Len(held) \in Nat  BY <2>1, <2>2
    <3>2. k # 0  BY <1>2, <2>2 DEF Told
    <3>. HIDE DEF k, held
    <3>. QED  BY <2>3, <3>1, <3>2
  <2>5. FirstFatal(scan.prefix) = k  BY <1>2 DEF Told
  <2>. HIDE DEF k, held
  <2>6. FirstFatal(SubSeq(held, 1, k)) = k  BY <2>3, <2>5, Zenon
  <2>7. FirstFatal(held) = k /\ Evidence(held) = Evidence(SubSeq(held, 1, k))
    BY <2>1, <2>4, <2>6, FatalPrefix
  <2>8. Evidence(scan.prefix) = Evidence(held)  BY <2>3, <2>7, Zenon
  <2>. QED  BY <2>3, <2>4, <2>7, <2>8 DEF held
<1>. QED  BY <1>1, <1>2, <1>3, LastTruth

\* A scan that has nothing to commit leaves the row of a file it found unchanged.
LEMMA NothingTruth ==
    ASSUME Frame, Truth, NothingToCommit
    PROVE  Truth'
<1>1. /\ AtEnd /\ scan.step = "read" /\ Collects /\ Nothing /\ scan' = Idle
      /\ UNCHANGED <<files, database, still>>
  BY DEF NothingToCommit, AtEnd, Collects, history
<1>2. ASSUME scan.path \in still, HasSession(content[names[scan.path]])
      PROVE  \E i \in AtPath(scan.path) : Exact(i, scan.path)
  <2>1. scan.prefix = content[scan.os] /\ names[scan.path] = scan.os /\ scan.prefix \in Seq(FileRow)
    BY <1>1, <1>2, ReadWhole
  <2>2. Live  BY <1>1, <1>2 DEF Truth, RestingFiles
  <2>3. scan.prefix # <<>>  BY <1>2, <2>1 DEF HasSession
  <2>4. scan.owner # NoOwner  BY <1>1, <2>2, <2>3, ReadOwner
  <2>5. ~ scan.moved /\ scan.batch \cup scan.errors = {}  BY <1>1, <2>4 DEF Nothing
  <2>6. Base = Len(scan.prefix)
    <3>1. /\ scan.batch \cup scan.errors = (Base + 1)..Offset /\ Base \in Nat /\ Base <= Offset
          /\ Offset = Len(scan.prefix) /\ Offset \in Nat
      BY <1>1, BatchIs
    <3>2. ~ (Base + 1 <= Offset)
      <4>. SUFFICES ASSUME Base + 1 <= Offset PROVE FALSE  OBVIOUS
      <4>1. Base + 1 \in (Base + 1)..Offset  BY <3>1
      <4>. QED  BY <2>5, <3>1, <4>1
    <3>. QED  BY <3>1, <3>2
  <2>7. ~ scan.fresh /\ scan.prior # NoRow /\ scan.priorOffset = Len(scan.prefix)
    <3>1. Len(scan.prefix) # 0  BY <2>1, <2>3
    <3>. QED  BY <1>1, <2>6, <3>1 DEF Base, Frame, BatchWithin
  <2>. DEFINE r == rows[scan.prior]
  <2>8. /\ r.offset = Len(scan.prefix) /\ r.status \in {"active", "rotated"} /\ r.os = scan.os
        /\ r.prefix = SubSeq(scan.prefix, 1, r.offset)
    BY <1>1, <2>2, <2>7 DEF Truth, PlanTrue
  <2>9. scan.prior \in AtPath(scan.path)
    BY <1>1, <2>2, <2>5, <2>7 DEF Truth, PriorTrue
  <2>10. RowTrue(r)  BY <1>1, <2>7, PriorRow
  <2>11. SubSeq(scan.prefix, 1, Len(scan.prefix)) = scan.prefix  BY <2>1
  <2>. HIDE DEF r
  <2>12. r.prefix = content[scan.os]  BY <2>1, <2>8, <2>11, Zenon
  <2>13. FirstFatal(r.prefix) = 0 /\ r.records = Evidence(r.prefix)  BY <2>8, <2>10 DEF RowTrue
  <2>14. FirstFatal(content[scan.os]) = 0 /\ r.records = Evidence(content[scan.os])
    BY <2>12, <2>13, Zenon
  <2>15. Exact(scan.prior, scan.path)
    BY <2>1, <2>8, <2>14 DEF Exact, r
  <2>. QED  BY <2>9, <2>15
<1>. QED  BY <1>1, <1>2, EndTruth

\* A commit is refused only where the row was pruned.
LEMMA RefusedTruth ==
    ASSUME Frame, Truth, CommitRefused
    PROVE  Truth'
<1>1. /\ Collects /\ scan.step # "idle" /\ ~ CanCommit /\ scan' = Idle
      /\ UNCHANGED <<files, database, still>>
  BY DEF CommitRefused, Collects, history
<1>2. scan.path \notin still
  <2>. SUFFICES ASSUME scan.path \in still PROVE FALSE  OBVIOUS
  <2>1. Live  BY <1>1 DEF Truth, RestingFiles
  <2>2. scan.prior # NoRow  BY <1>1 DEF CanCommit
  <2>3. Unmoved  BY <1>1, <2>1, <2>2 DEF Truth, PlanTrue, Unmoved, Live
  <2>. QED  BY <1>1, <2>3 DEF CanCommit
<1>. QED  BY <1>1, <1>2, EndTruth

\* A worker that fails leaves the file for the next one.
LEMMA FailsTruth ==
    ASSUME Truth, ScanFails
    PROVE  Truth'
<1>1. /\ scan' = Idle /\ UNCHANGED <<files, database>>
      /\ still' \subseteq still /\ scan.path \notin still'
  BY DEF ScanFails
<1>. QED  BY <1>1, EndTruth

\* Nothing is known in the beginning.
LEMMA InitTruth ==
    ASSUME ScanInit
    PROVE  Truth
<1>1. rows = <<>> /\ DOMAIN rows = {} /\ scan.step = "idle" /\ ~ Collects /\ still = {}
  BY DEF ScanInit, Idle, Collects
<1>2. RowsTrue /\ Generations  BY <1>1 DEF RowsTrue, Generations
<1>3. PriorTrue /\ PlanTrue /\ ReadTrue  BY <1>1 DEF PriorTrue, PlanTrue, ReadTrue, Collects
<1>4. RestingFiles /\ AllExact  BY <1>1 DEF RestingFiles, AllExact
<1>. QED  BY <1>2, <1>3, <1>4 DEF Truth

\* Steps of others keep the truth.
LEMMA StutterTruth ==
    ASSUME Truth, UNCHANGED scanVars
    PROVE  Truth'
<1>1. UNCHANGED <<database, scan>> /\ UNCHANGED files /\ still' = still
  BY DEF scanVars, database, files
<1>2. \A p \in still' :
          /\ names'[p] = names[p]
          /\ content'[names[p]] = content[names[p]] /\ stamp'[names[p]] = stamp[names[p]]
  BY <1>1 DEF files
<1>. QED  BY <1>1, <1>2, FilesTruth

\* A step that revives no row follows one that had revived none.
LEMMA NotRevived ==
    ASSUME ScanNext, ~ revived'
    PROVE  ~ revived
<1>1. CASE ScanStep
  BY <1>1 DEF ScanStep, OpenKnown, OpenMoved, OpenNew, Opened, Check, ReadRow, CommitBatch, NothingToCommit,
       CommitLast, Quarantine, CommitRefused, ScanFails, Commit, Trouble, history
<1>2. CASE FileStep
  BY <1>2 DEF FileStep, AppendTo, CutTo, RewriteIn, Filled, Rename, Delete, Create, Written, Trouble
<1>. QED  BY <1>1, <1>2 DEF ScanNext, PurgeTexts, Prune, SessionStored, Cleaned, Trouble

\* The truth is kept while no superseded row is revived.
LEMMA NextTruth ==
    ASSUME Frame, Frame', Truth, ScanNext, ~ revived'
    PROVE  Truth'
<1>1. CASE ScanStep
  BY <1>1, OpenTruth, CheckTruth, ReadTruth, BatchTruth, NothingTruth, CommitLastTruth, QuarantineTruth,
     RefusedTruth, FailsTruth DEF ScanStep
<1>2. CASE FileStep
  BY <1>2, FileStepTruth
<1>3. ASSUME NEW row \in RowText, PurgeTexts(row.at + 1) PROVE Truth'
  <2>1. row.at + 1 \in Nat  BY CodexScanAssumption DEF FileRow
  <2>. QED  BY <1>3, <2>1, PurgeTruth
<1>4. ASSUME NEW old \in SUBSET Owner, Prune(old) PROVE Truth'
  BY <1>4, PruneTruth
<1>5. ASSUME NEW o \in Owner, SessionStored(o) PROVE Truth'
  BY <1>5, SessionTruth
<1>. QED  BY <1>1, <1>2, <1>3, <1>4, <1>5 DEF ScanNext

\* The invariant of the scan.  Reading, checking and committing are judged
\* by it for any files, sessions and rows, any size of a batch and any number
\* of changes (worker.go:scanFile, codex_worker.go:CommitCodexFile).
THEOREM ScanInvariant == ScanSpec => []ScanInv
<1>1. ScanInit => ScanInv
  BY InitFrame, InitTruth DEF ScanInv
<1>2. ScanInv /\ [ScanNext]_scanVars => ScanInv'
  <2>. SUFFICES ASSUME ScanInv, [ScanNext]_scanVars PROVE ScanInv'
    OBVIOUS
  <2>1. Frame /\ Frame'  BY NextFrame DEF ScanInv
  <2>2. ASSUME ~ revived' PROVE Truth'
    <3>1. CASE ScanNext
      BY <2>1, <2>2, <3>1, NotRevived, NextTruth DEF ScanInv
    <3>2. CASE UNCHANGED scanVars
      <4>1. ~ revived  BY <2>2, <3>2 DEF scanVars
      <4>. QED  BY <3>2, <4>1, StutterTruth DEF ScanInv
    <3>. QED  BY <3>1, <3>2
  <2>. QED  BY <2>1, <2>2 DEF ScanInv
<1>. QED  BY <1>1, <1>2, PTL DEF ScanSpec

\* A scan that ends with the file as it found it leaves exactly the evidence
\* of the file, and texts that were purged stay away.
THEOREM EvidenceHolds == ScanSpec => []EvidenceIsTrue
<1>1. ScanInv => EvidenceIsTrue
  <2>. SUFFICES ASSUME ScanInv PROVE EvidenceIsTrue
    OBVIOUS
  <2>1. Frame /\ PurgedStaysGone  BY DEF ScanInv, Frame
  <2>2. ScanIsExact
    <3>. SUFFICES ASSUME ~ revived, NEW p \in still, scan.step = "idle" \/ scan.path # p,
                         HasSession(content[names[p]])
         PROVE  \E i \in AtPath(p) :
                  LET held == content[names[p]]
                  IN  /\ rows[i].os = names[p]
                      /\ rows[i].records = [n \in Sound(held) |-> held[n]]
                      /\ rows[i].status \in IF FirstFatal(held) = 0 THEN {"active", "rotated"} ELSE {"quarantined"}
                      /\ \A j \in DOMAIN rows \ {i} : rows[j].path = p => rows[j].status # "active"
      BY DEF ScanIsExact
    <3>1. Truth  BY DEF ScanInv
    <3>2. PICK i \in AtPath(p) : Exact(i, p)  BY <3>1 DEF Truth, AllExact
    <3>3. ASSUME NEW j \in DOMAIN rows \ {i}, rows[j].path = p, rows[j].status = "active" PROVE FALSE
      <4>1. /\ i \in DOMAIN rows /\ rows[i].path = p /\ rows[i].status # "pruned"
            /\ rows[j].gen <= rows[i].gen
        BY <3>2, <3>3, RowsOfPath
      <4>2. rows[i].gen <= rows[j].gen /\ (rows[i].gen = rows[j].gen => i = j)
        BY <3>1, <3>3, <4>1 DEF Truth, Generations
      <4>3. rows[i].gen \in Nat /\ rows[j].gen \in Nat
        <5>1. rows[i] \in StoredRow /\ rows[j] \in StoredRow
          BY <2>1, <4>1 DEF Frame, ScanTypeOK
        <5>. QED  BY <5>1 DEF StoredRow
      <4>. QED  BY <3>3, <4>1, <4>2, <4>3
    <3>4. \A j \in DOMAIN rows \ {i} : rows[j].path = p => rows[j].status # "active"
      BY <3>3
    <3>. QED  BY <3>2, <3>4 DEF Exact, Evidence
  <2>. QED  BY <2>1, <2>2 DEF EvidenceIsTrue
<1>. QED  BY <1>1, ScanInvariant, PTL
=============================================================================
