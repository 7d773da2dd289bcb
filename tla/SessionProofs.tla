---------------------------- MODULE SessionProofs ----------------------------
(***************************************************************************)
(* Proofs about the session lifecycle, for any sessions, thresholds and    *)
(* bounds.  All the arithmetic is in lemmas about one row and about the    *)
(* times of one write; the actions then only say which rows they write.    *)
(*                                                                         *)
(* That a row's end covers its activity is not inductive: a late event may *)
(* come to an ended row, and a start hook to a row of any age.  So the     *)
(* invariant orders start, activity and end within a row, and holds rows,  *)
(* the assembler's memory and the events that wait below the time the      *)
(* session was really active last.                                         *)
(*                                                                         *)
(* The second part is about the rows of tool calls (ToolCalls): that no    *)
(* two calls share a row takes what every key in the tracker, in the batch *)
(* and in the table stands for.  The third is about the pages of the list  *)
(* of sessions, whose cursor must part what was shown from what was not;   *)
(* the fourth about the seconds of activity, which the points that are     *)
(* heard must leave room for in what was earned; the fifth about the       *)
(* windows of the dashboard, which the midnights of a zone order: a date   *)
(* is reached when its midnight is, and no other fact of a zone is used;   *)
(* the sixth about the line counts of a session, where what the queue of   *)
(* edited files holds is told from the history of what arrived.            *)
(***************************************************************************)
EXTENDS SessionLifecycle, ToolCalls, SessionPages, SessionFigures, Calendar, LineLedger,
        DataFacts, FiniteSetTheorems, TLAPS

MaybeTime == Time \cup {Null}

\* A row in order, of a session that was active until u.
Sound(r, u) ==
    /\ r.started <= r.last /\ r.last <= u
    /\ r.last # Null => r.started # Null
    /\ r.ended # Null => r.last <= r.ended
    /\ r.known /\ r.ended = Null => r.last # Null

\* The assembler's memory of a session is of activity there was.
MemoryInv ==
    \A s \in Session : Tracked(s) =>
        asm[s].started # Null /\ asm[s].started <= asm[s].last /\ asm[s].last <= latest[s]

\* So is every event that waits for its write.
PendingInv == \A i \in 1..Len(pending) : pending[i].at <= latest[pending[i].session]

LatestInv == \A s \in Session : latest[s] <= now

RowInv == \A s \in Session : Sound(row[s], latest[s])

\* What the assembler knew when the tick began is in the rows the sweep reads.
SweepInv ==
    phase = "sweep" /\ failures = 0 =>
        \A s \in Session : Tracked(s) => asm[s].last <= row[s].last

IInv == TypeOK /\ MemoryInv /\ PendingInv /\ LatestInv /\ RowInv /\ SweepInv

-----------------------------------------------------------------------------
(* Numbers *)

\* The constants are numbers.
LEMMA Constants ==
    /\ MaxTime \in Nat /\ Horizon \in Nat /\ Horizon < MaxTime
    /\ IdleTime \in Nat /\ MemoryTime \in Nat /\ 1 \in Time
    /\ MaxPending \in Nat /\ MaxFailures \in Nat /\ MaxCrashes \in Nat
<1>1. MaxTime \in Nat /\ Horizon \in Nat /\ MaxTime # 0 /\ IdleTime \in Nat /\ MemoryTime \in Nat
  BY TimeAssumption
<1>2. Horizon < MaxTime  BY <1>1, TimeAssumption
<1>3. 1 \in Time  BY <1>1 DEF Time
<1>. QED  BY <1>1, <1>2, <1>3, BoundAssumption

\* Times are numbers, and zero is none of them.
LEMMA TimeIsNat ==
    /\ MaybeTime \subseteq Nat /\ MaybeTime \subseteq 0..MaxTime
    /\ \A t \in MaybeTime : t # Null <=> t \in Time
    /\ \A t \in Time : t \in MaybeTime /\ t # Null
BY Constants DEF MaybeTime, Time, Null

\* Earliest is the smaller time, where there is one.
LEMMA EarliestOf ==
    ASSUME NEW a \in MaybeTime, NEW b \in MaybeTime
    PROVE  /\ Earliest(a, b) \in MaybeTime
           /\ b # Null => Earliest(a, b) # Null /\ Earliest(a, b) <= b
           /\ a # Null => Earliest(a, b) # Null /\ Earliest(a, b) <= a
<1>1. a \in Nat /\ b \in Nat  BY TimeIsNat
<1>2. Min({a, b}) = IF a <= b THEN a ELSE b  BY <1>1, MinOfTwo
<1>. QED  BY <1>1, <1>2 DEF Earliest, Null

\* Latest is the greater.
LEMMA LatestOf ==
    ASSUME NEW a \in MaybeTime, NEW b \in MaybeTime
    PROVE  /\ Latest(a, b) \in MaybeTime
           /\ Latest(a, b) = IF a <= b THEN b ELSE a
<1>1. a \in Nat /\ b \in Nat  BY TimeIsNat
<1>2. Max({a, b}) = IF a <= b THEN b ELSE a  BY <1>1, MaxOfTwo
<1>. QED  BY <1>2 DEF Latest

-----------------------------------------------------------------------------
(* One row *)

\* The UPSERT keeps a row in order, takes up the activity, and opens an ended
\* session only for activity after its end.
LEMMA UpsertSound ==
    ASSUME NEW u \in MaybeTime, NEW r \in RowType, Sound(r, u),
           NEW started \in Time, NEW last \in Time, started <= last, last <= u
    PROVE  LET w == Upsert(r, started, last)
           IN  /\ w \in RowType /\ w.known /\ Sound(w, u) /\ last <= w.last
               /\ r.ended # Null /\ w.ended # r.ended => w.ended = Null /\ last > r.ended
<1>. DEFINE w == Upsert(r, started, last)
<1>1. r.started \in MaybeTime /\ r.last \in MaybeTime /\ r.ended \in MaybeTime
  BY DEF RowType, MaybeTime
<1>2. started \in MaybeTime /\ last \in MaybeTime /\ started # Null /\ last # Null
  BY TimeIsNat
<1>3. /\ w.started = Earliest(r.started, started) /\ w.last = Latest(r.last, last)
      /\ w.ended = IF r.ended # Null /\ last > r.ended THEN Null ELSE r.ended
      /\ w.known
  BY DEF Upsert
<1>4. w.started \in MaybeTime /\ w.started # Null /\ w.started <= started
  BY <1>1, <1>2, <1>3, EarliestOf
<1>5. w.last \in MaybeTime /\ w.last = IF r.last <= last THEN last ELSE r.last
  BY <1>1, <1>2, <1>3, LatestOf
<1>6. w \in RowType
  <2>1. w.ended \in MaybeTime  BY <1>1, <1>3 DEF MaybeTime
  <2>. QED  BY <2>1, <1>3, <1>4, <1>5 DEF Upsert, RowType, MaybeTime
<1>7. /\ started \in Nat /\ last \in Nat /\ u \in Nat /\ w.started \in Nat
      /\ r.last \in Nat /\ r.ended \in Nat /\ last # 0
  BY <1>1, <1>2, <1>4, TimeIsNat DEF Null
<1>8. w.last \in Nat /\ last <= w.last /\ w.last <= u  BY <1>5, <1>7 DEF Sound
<1>9. w.ended # Null => w.last <= w.ended  BY <1>3, <1>5, <1>7 DEF Sound, Null
<1>10. Sound(w, u)
  <2>. HIDE DEF w
  <2>1. w.started <= w.last  BY <1>4, <1>7, <1>8
  <2>2. w.last # Null  BY <1>7, <1>8 DEF Null
  <2>. QED  BY <2>1, <2>2, <1>4, <1>8, <1>9 DEF Sound
<1>. QED  BY <1>3, <1>6, <1>8, <1>10

\* The sweep keeps a row in order and moves no end.
LEMMA SweptSound ==
    ASSUME NEW u \in MaybeTime, NEW r \in RowType, Sound(r, u)
    PROVE  /\ Swept(r) \in RowType /\ Sound(Swept(r), u) /\ Swept(r).last = r.last
           /\ r = NoRow => Swept(r) = NoRow
           /\ Swept(r).known = r.known
           /\ r.ended # Null => Swept(r) = r
<1>1. r.last \in Nat /\ r.last \in MaybeTime
  BY TimeIsNat DEF RowType, MaybeTime
<1>2. CASE r.ended = Null /\ r.last # Null /\ r.last + IdleTime < tickAt
  <2>1. Swept(r) = [r EXCEPT !.ended = r.last]  BY <1>2 DEF Swept
  <2>2. r # NoRow  BY <1>2 DEF NoRow
  <2>. QED  BY <2>1, <2>2, <1>1, <1>2 DEF Sound, RowType, MaybeTime, Null
<1>3. CASE ~(r.ended = Null /\ r.last # Null /\ r.last + IdleTime < tickAt)
  <2>1. Swept(r) = r  BY <1>3 DEF Swept
  <2>. QED  BY <2>1
<1>. QED  BY <1>2, <1>3

\* A start hook makes a row in order of a session that is active now.
LEMMA StartedSound ==
    ASSUME NEW u \in MaybeTime, NEW r \in RowType, Sound(r, u), now \in Time, u <= now
    PROVE  Started(r) \in RowType /\ Started(r).known /\ Sound(Started(r), now)
<1>1. /\ r.started \in MaybeTime /\ r.last \in MaybeTime /\ now \in MaybeTime /\ now # Null
      /\ r.last \in Nat /\ now \in Nat /\ u \in Nat
  BY TimeIsNat DEF RowType, MaybeTime
<1>2. /\ Started(r).started = Earliest(r.started, now) /\ Started(r).known
      /\ Started(r).last = Latest(r.last, now) /\ Started(r).ended = Null
  BY DEF Started
<1>3. Latest(r.last, now) = now  BY <1>1, LatestOf DEF Sound
<1>4. Earliest(r.started, now) \in MaybeTime /\ Earliest(r.started, now) # Null
      /\ Earliest(r.started, now) <= now
  BY <1>1, EarliestOf
<1>5. Started(r) \in RowType  BY <1>1, <1>3, <1>4 DEF Started, RowType, MaybeTime
<1>. QED  BY <1>1, <1>2, <1>3, <1>4, <1>5 DEF Sound

\* An end hook ends a session that was not active after it.
LEMMA EndedSound ==
    ASSUME NEW u \in MaybeTime, NEW r \in RowType, Sound(r, u), now \in Time, u <= now
    PROVE  /\ Ended(r) \in RowType /\ Ended(r).known /\ Sound(Ended(r), u)
           /\ r.ended # Null => Ended(r).ended = r.ended
<1>1. r.last \in Nat /\ now \in Nat /\ u \in Nat /\ now # Null
  BY TimeIsNat DEF RowType, MaybeTime
<1>2. /\ Ended(r).started = r.started /\ Ended(r).last = r.last /\ Ended(r).known
      /\ Ended(r).ended = IF r.ended = Null THEN now ELSE r.ended
  BY DEF Ended, RowType
<1>3. Ended(r) \in RowType  BY DEF Ended, RowType
<1>4. r.last <= now  BY <1>1 DEF Sound
<1>. QED  BY <1>1, <1>2, <1>3, <1>4 DEF Sound

-----------------------------------------------------------------------------
(* One write *)

\* In order of arrival, some event of a session is its first.
LEMMA FirstPending ==
    ASSUME NEW s \in Session, PendingOf(s) # {}, pending \in Seq(Event)
    PROVE  Min(PendingOf(s)) \in PendingOf(s)
<1>1. Len(pending) \in Nat  OBVIOUS
<1>2. PendingOf(s) \in SUBSET Nat  BY <1>1 DEF PendingOf
<1>. QED  BY <1>2, MinOfNaturals

\* The times a write takes for a session are of activity there was, and cover
\* what the assembler knows of it when its snapshot is part of the write.
LEMMA TimesSound ==
    ASSUME TypeOK, MemoryInv, PendingInv,
           NEW w \in BOOLEAN, NEW s \in Written(w)
    PROVE  /\ Times(s, w).started \in Time /\ Times(s, w).last \in Time
           /\ Times(s, w).started <= Times(s, w).last
           /\ Times(s, w).last <= latest[s]
           /\ w /\ Tracked(s) => asm[s].last <= Times(s, w).last
<1>. DEFINE ats == {pending[i].at : i \in PendingOf(s)}
<1>1. s \in Session  BY DEF Written
<1>2. pending \in Seq(Event) /\ Len(pending) \in Nat  BY DEF TypeOK
<1>3. latest[s] \in MaybeTime /\ latest[s] \in Nat
  BY <1>1, TimeIsNat DEF TypeOK, MaybeTime
<1>4. \A i \in PendingOf(s) : pending[i].at \in Time /\ pending[i].at <= latest[s]
  <2>. SUFFICES ASSUME NEW i \in PendingOf(s)
                PROVE  pending[i].at \in Time /\ pending[i].at <= latest[s]
    OBVIOUS
  <2>1. i \in 1..Len(pending) /\ pending[i].session = s  BY DEF PendingOf
  <2>2. pending[i] \in Event  BY <2>1, <1>2
  <2>. QED  BY <2>1, <2>2 DEF Event, PendingInv
<1>5. CASE w /\ Tracked(s)
  <2>1. /\ Times(s, w).started = asm[s].started
        /\ Times(s, w).last = Max({asm[s].last} \cup ats)
    BY <1>5 DEF Times
  <2>2. asm[s].started \in MaybeTime /\ asm[s].last \in MaybeTime
    BY <1>1 DEF TypeOK, MaybeTime
  <2>3. asm[s].started # Null /\ asm[s].started <= asm[s].last /\ asm[s].last <= latest[s]
    BY <1>1, <1>5 DEF MemoryInv
  <2>4. asm[s].started \in Time /\ asm[s].last \in Time
    BY <2>2, <2>3, TimeIsNat, Constants DEF MaybeTime, Time, Null
  <2>5. \A t \in {asm[s].last} \cup ats : t \in Time /\ t <= latest[s]
    BY <1>4, <2>3, <2>4
  <2>6. {asm[s].last} \cup ats \in SUBSET (0 .. MaxTime)
    BY <2>5, TimeIsNat
  <2>7. /\ Max({asm[s].last} \cup ats) \in {asm[s].last} \cup ats
        /\ \A t \in {asm[s].last} \cup ats : t <= Max({asm[s].last} \cup ats)
    <3>. HIDE DEF ats
    <3>. QED  BY <2>6, Constants, MaxOfBounded
  <2>8. asm[s].last <= Times(s, w).last  BY <2>1, <2>7
  <2>9. Times(s, w).last \in Time /\ Times(s, w).last <= latest[s]
    BY <2>1, <2>5, <2>7
  <2>10. Times(s, w).started <= Times(s, w).last
    <3>1. /\ asm[s].started \in Nat /\ asm[s].last \in Nat /\ Times(s, w).last \in Nat
      BY <2>4, <2>9, TimeIsNat
    <3>2. asm[s].started <= Times(s, w).last  BY <3>1, <2>3, <2>8
    <3>. QED  BY <3>2, <2>1
  <2>. QED  BY <2>1, <2>4, <2>8, <2>9, <2>10
<1>6. CASE ~(w /\ Tracked(s))
  <2>1. PendingOf(s) # {}  BY <1>6 DEF Written
  <2>2. Min(PendingOf(s)) \in PendingOf(s)  BY <1>1, <1>2, <2>1, FirstPending
  <2>3. /\ Times(s, w).started = pending[Min(PendingOf(s))].at
        /\ Times(s, w).last = pending[Min(PendingOf(s))].at
    BY <1>6 DEF Times
  <2>4. pending[Min(PendingOf(s))].at \in Time /\ pending[Min(PendingOf(s))].at <= latest[s]
    BY <1>4, <2>2
  <2>5. pending[Min(PendingOf(s))].at \in Nat  BY <2>4, TimeIsNat
  <2>6. Times(s, w).started <= Times(s, w).last  BY <2>3, <2>5
  <2>. QED  BY Zenon, <1>6, <2>3, <2>4, <2>6
<1>. QED  BY <1>5, <1>6

\* A write keeps types and rows, opens an ended session only for activity
\* after its end, and takes every snapshot it has up to the rows.
LEMMA StoreSound ==
    ASSUME TypeOK, MemoryInv, PendingInv, RowInv, NEW w \in BOOLEAN, Store(w)
    PROVE  /\ row' \in [Session -> RowType]
           /\ \A s \in Session : row'[s].known \/ row'[s] = NoRow
           /\ \A s \in Session : Sound(row'[s], latest[s])
           /\ \A s \in Session : row[s].ended # Null /\ row'[s].ended # row[s].ended =>
                  row'[s].ended = Null /\ latest[s] > row[s].ended
           /\ w => \A s \in Session : Tracked(s) => asm[s].last <= row'[s].last
           /\ stored' \in [Session -> MaybeTime]
           /\ pending' = <<>>
<1>1. \A s \in Session : row'[s] =
        IF s \in Written(w) THEN Upsert(row[s], Times(s, w).started, Times(s, w).last)
        ELSE row[s]
  BY DEF Store
<1>2. \A s \in Session : row[s] \in RowType /\ Sound(row[s], latest[s]) /\ latest[s] \in MaybeTime
                          /\ (row[s].known \/ row[s] = NoRow)
  BY DEF TypeOK, RowInv, MaybeTime
<1>3. \A s \in Session :
        /\ row'[s] \in RowType /\ Sound(row'[s], latest[s])
        /\ row'[s].known \/ row'[s] = NoRow
        /\ row[s].ended # Null /\ row'[s].ended # row[s].ended =>
              row'[s].ended = Null /\ latest[s] > row[s].ended
        /\ w /\ Tracked(s) => asm[s].last <= row'[s].last
  <2>. SUFFICES ASSUME NEW s \in Session
                PROVE  /\ row'[s] \in RowType /\ Sound(row'[s], latest[s])
                       /\ row'[s].known \/ row'[s] = NoRow
                       /\ row[s].ended # Null /\ row'[s].ended # row[s].ended =>
                             row'[s].ended = Null /\ latest[s] > row[s].ended
                       /\ w /\ Tracked(s) => asm[s].last <= row'[s].last
    OBVIOUS
  <2>1. CASE s \in Written(w)
    <3>. DEFINE st == Times(s, w).started
                la == Times(s, w).last
    <3>1. /\ st \in Time /\ la \in Time /\ st <= la /\ la <= latest[s]
          /\ w /\ Tracked(s) => asm[s].last <= la
      BY <2>1, TimesSound
    <3>2. row'[s] = Upsert(row[s], st, la)  BY <1>1, <2>1
    <3>3. /\ row'[s] \in RowType /\ row'[s].known /\ Sound(row'[s], latest[s])
          /\ la <= row'[s].last
          /\ row[s].ended # Null /\ row'[s].ended # row[s].ended =>
                row'[s].ended = Null /\ la > row[s].ended
      <4>. HIDE DEF st, la
      <4>. QED  BY <3>1, <3>2, <1>2, UpsertSound
    <3>4. row[s].ended \in Nat /\ row'[s].last \in Nat /\ latest[s] \in Nat /\ la \in Nat
          /\ asm[s].last \in Nat
      <4>1. row[s].ended \in MaybeTime /\ row'[s].last \in MaybeTime /\ asm[s].last \in MaybeTime
        BY <1>2, <3>3 DEF RowType, MaybeTime, TypeOK
      <4>. QED  BY <4>1, <1>2, <3>1, TimeIsNat
    <3>5. asm[s].last <= la => asm[s].last <= row'[s].last
      <4>. HIDE DEF la
      <4>. QED  BY <3>3, <3>4
    <3>6. la > row[s].ended => latest[s] > row[s].ended  BY <3>1, <3>4
    <3>7. w /\ Tracked(s) => asm[s].last <= row'[s].last  BY Zenon, <3>1, <3>5
    <3>. QED  BY Zenon, <3>3, <3>6, <3>7
  <2>2. CASE s \notin Written(w)
    <3>1. row'[s] = row[s]  BY <1>1, <2>2
    <3>2. ~(w /\ Tracked(s))  BY <2>2 DEF Written
    <3>. QED  BY <1>2, <3>1, <3>2
  <2>. QED  BY <2>1, <2>2
<1>4. row' \in [Session -> RowType]
  <2>1. row' = [s \in Session |-> row'[s]]  BY DEF Store
  <2>. QED  BY <2>1, <1>3
<1>5. stored' \in [Session -> MaybeTime]
  <2>1. stored' = [s \in Session |->
                     Max({stored[s]} \cup {pending[i].at : i \in PendingOf(s)})]
    BY DEF Store
  <2>. SUFFICES ASSUME NEW s \in Session
                PROVE  Max({stored[s]} \cup {pending[i].at : i \in PendingOf(s)}) \in MaybeTime
    BY <2>1
  <2>. DEFINE S == {stored[s]} \cup {pending[i].at : i \in PendingOf(s)}
  <2>2. \A i \in PendingOf(s) : pending[i].at \in Time
    <3>1. \A i \in PendingOf(s) : i \in 1..Len(pending)  BY DEF PendingOf
    <3>2. \A i \in 1..Len(pending) : pending[i] \in Event  BY DEF TypeOK
    <3>. QED  BY <3>1, <3>2 DEF Event
  <2>3. stored[s] \in MaybeTime  BY DEF TypeOK, MaybeTime
  <2>4. S \subseteq MaybeTime /\ S # {}  BY <2>2, <2>3, TimeIsNat
  <2>5. Max(S) \in S
    <3>. HIDE DEF S
    <3>1. S \in SUBSET (0 .. MaxTime)  BY <2>4, TimeIsNat
    <3>. QED  BY <3>1, <2>4, Constants, MaxOfBounded
  <2>. QED  BY <2>4, <2>5
<1>. QED  BY <1>3, <1>4, <1>5 DEF Store

-----------------------------------------------------------------------------
(* The steps *)

\* The daemon starts with nothing in memory and nothing in the table.
LEMMA InitHolds == Init => IInv
<1>. SUFFICES ASSUME Init PROVE IInv  OBVIOUS
<1>1. TypeOK
  <2>1. now \in Time  BY Constants DEF Init
  <2>2. asm \in [Session -> [started : Time \cup {Null}, last : Time \cup {Null}]]
    BY DEF Init, Unknown
  <2>3. pending \in Seq(Event) /\ Len(pending) <= MaxPending  BY Constants DEF Init
  <2>4. row \in [Session -> RowType] /\ \A s \in Session : row[s] = NoRow
    BY DEF Init, NoRow, RowType
  <2>5. {latest, stored} \subseteq [Session -> Time \cup {Null}]  BY DEF Init
  <2>. QED  BY <2>1, <2>2, <2>3, <2>4, <2>5 DEF TypeOK, Init
<1>2. MemoryInv /\ PendingInv /\ SweepInv  BY DEF Init, MemoryInv, PendingInv, SweepInv, Tracked
<1>3. LatestInv  BY DEF Init, LatestInv, Null
<1>4. RowInv  BY DEF Init, RowInv, Sound, NoRow, Null
<1>. QED  BY <1>1, <1>2, <1>3, <1>4 DEF IInv

\* Time passes.
LEMMA ClockKeeps == IInv /\ Clock => IInv'
<1>. SUFFICES ASSUME IInv, Clock PROVE IInv'  OBVIOUS
<1>. USE DEF Clock, memory, tick, history
<1>1. now' = now + 1 /\ now' \in Time /\ now \in Nat
  <2>1. now \in Time /\ now < MaxTime  BY DEF IInv, TypeOK
  <2>. QED  BY <2>1, Constants DEF Time
<1>2. TypeOK'  BY <1>1 DEF IInv, TypeOK
<1>3. LatestInv'
  <2>1. \A s \in Session : latest[s] \in Nat  BY TimeIsNat DEF IInv, TypeOK, MaybeTime
  <2>. QED  BY <1>1, <2>1 DEF IInv, LatestInv
<1>4. MemoryInv' /\ PendingInv' /\ RowInv' /\ SweepInv'
  BY DEF IInv, MemoryInv, PendingInv, RowInv, SweepInv, Tracked, Sound
<1>. QED  BY <1>2, <1>3, <1>4 DEF IInv

\* What the assembler observes of a session is still of activity there was.
LEMMA ObservedSound ==
    ASSUME NEW m, m \in [started : MaybeTime, last : MaybeTime],
           NEW at \in Time, NEW u \in MaybeTime,
           m # Unknown => m.started # Null /\ m.started <= m.last /\ m.last <= u
    PROVE  LET o == Observed(m, at)
           IN  /\ o \in [started : MaybeTime, last : MaybeTime]
               /\ o.started # Null /\ o.started <= o.last
               /\ o.last = Latest(m.last, at) /\ o.last <= Latest(u, at)
<1>. DEFINE o == Observed(m, at)
<1>1. m.started \in MaybeTime /\ m.last \in MaybeTime /\ at \in MaybeTime /\ at # Null
  BY TimeIsNat
<1>2. o.started = Earliest(m.started, at) /\ o.last = Latest(m.last, at)
  BY DEF Observed
<1>3. o.started \in MaybeTime /\ o.started # Null /\ o.started <= at
  BY <1>1, <1>2, EarliestOf
<1>4. o.last \in MaybeTime /\ o.last = IF m.last <= at THEN at ELSE m.last
  BY <1>1, <1>2, LatestOf
<1>5. Latest(u, at) = IF u <= at THEN at ELSE u  BY <1>1, LatestOf
<1>6. m.last <= u
  <2>1. m = Unknown => m.last = 0  BY DEF Unknown, Null
  <2>2. u \in Nat  BY TimeIsNat
  <2>. QED  BY <2>1, <2>2
<1>7. /\ at \in Nat /\ u \in Nat /\ m.last \in Nat /\ o.started \in Nat
  BY <1>1, <1>3, TimeIsNat
<1>8. o.started <= o.last  BY <1>3, <1>4, <1>7
<1>9. o.last <= Latest(u, at)  BY <1>4, <1>5, <1>6, <1>7
<1>10. o \in [started : MaybeTime, last : MaybeTime]  BY <1>2, <1>3, <1>4 DEF Observed
<1>. QED  BY <1>2, <1>3, <1>8, <1>9, <1>10

\* A session whose latest activity moves on keeps a row in order.
LEMMA SoundLater ==
    ASSUME NEW r \in RowType, NEW u \in MaybeTime, NEW v \in MaybeTime, u <= v, Sound(r, u)
    PROVE  Sound(r, v)
<1>1. r.last \in Nat /\ u \in Nat /\ v \in Nat  BY TimeIsNat DEF RowType, MaybeTime
<1>2. r.last <= v  BY <1>1 DEF Sound
<1>. QED  BY <1>2 DEF Sound

\* An event arrives.
LEMMA IngestKeeps ==
    ASSUME IInv, NEW e \in Session, NEW at \in 1..Horizon, Ingest(e, at)
    PROVE  IInv'
<1>. USE DEF Ingest, tick
<1>1. at \in Time /\ at \in Nat /\ at <= now /\ now \in Nat /\ at \in MaybeTime
  BY Constants, TimeIsNat DEF IInv, TypeOK, Time, MaybeTime
<1>2. /\ asm \in [Session -> [started : MaybeTime, last : MaybeTime]]
      /\ latest \in [Session -> MaybeTime]
  BY DEF IInv, TypeOK, MaybeTime
<1>3. \A s \in Session : asm'[s] = IF s = e THEN Observed(asm[s], at) ELSE asm[s]
  BY <1>2
<1>4. \A s \in Session : latest'[s] = IF s = e THEN Latest(latest[s], at) ELSE latest[s]
  BY <1>2
<1>5. /\ Latest(latest[e], at) \in MaybeTime
      /\ Latest(latest[e], at) = IF latest[e] <= at THEN at ELSE latest[e]
  BY <1>1, <1>2, LatestOf
<1>6. \A s \in Session : latest[s] \in Nat /\ latest'[s] \in Nat /\ latest'[s] \in MaybeTime
                          /\ latest[s] <= latest'[s]
  <2>1. \A s \in Session : latest[s] \in Nat  BY <1>2, TimeIsNat
  <2>. QED  BY <2>1, <1>1, <1>2, <1>4, <1>5, TimeIsNat
<1>7. \A s \in Session : Tracked(s) =>
        asm[s].started # Null /\ asm[s].started <= asm[s].last /\ asm[s].last <= latest[s]
  BY DEF IInv, MemoryInv
<1>8. LET o == Observed(asm[e], at)
      IN  /\ o \in [started : MaybeTime, last : MaybeTime]
          /\ o.started # Null /\ o.started <= o.last
          /\ o.last = Latest(asm[e].last, at) /\ o.last <= Latest(latest[e], at)
  <2>1. asm[e] # Unknown =>
          asm[e].started # Null /\ asm[e].started <= asm[e].last /\ asm[e].last <= latest[e]
    BY <1>7 DEF Tracked
  <2>. QED  BY <2>1, <1>1, <1>2, ObservedSound
<1>9. TypeOK'
  <2>1. asm' \in [Session -> [started : MaybeTime, last : MaybeTime]]  BY <1>2, <1>8
  <2>2. pending' \in Seq(Event) /\ Len(pending') <= MaxPending
    <3>1. pending \in Seq(Event) /\ [session |-> e, at |-> at] \in Event
      BY <1>1 DEF IInv, TypeOK, Event
    <3>. QED  BY <3>1, Constants
  <2>3. latest' \in [Session -> MaybeTime]  BY <1>2, <1>5
  <2>. QED  BY <2>1, <2>2, <2>3 DEF IInv, TypeOK, MaybeTime
<1>10. MemoryInv'
  <2>. SUFFICES ASSUME NEW s \in Session, Tracked(s)'
                PROVE  /\ asm'[s].started # Null /\ asm'[s].started <= asm'[s].last
                       /\ asm'[s].last <= latest'[s]
    BY DEF MemoryInv
  <2>1. CASE s = e  BY <2>1, <1>3, <1>4, <1>8
  <2>2. CASE s # e  BY <2>2, <1>3, <1>4, <1>7 DEF Tracked
  <2>. QED  BY <2>1, <2>2
<1>11. PendingInv'
  <2>. SUFFICES ASSUME NEW i \in 1..Len(pending')
                PROVE  pending'[i].at <= latest'[pending'[i].session]
    BY DEF PendingInv
  <2>1. pending \in Seq(Event)  BY DEF IInv, TypeOK
  <2>2. CASE i \in 1..Len(pending)
    <3>1. pending'[i] = pending[i]  BY <2>1, <2>2
    <3>2. pending[i] \in Event  BY <2>1, <2>2
    <3>3. pending[i].session \in Session /\ pending[i].at \in Nat
      BY <3>2, TimeIsNat DEF Event
    <3>4. pending[i].at <= latest[pending[i].session]  BY <2>2 DEF IInv, PendingInv
    <3>5. latest[pending[i].session] <= latest'[pending[i].session]
          /\ latest[pending[i].session] \in Nat /\ latest'[pending[i].session] \in Nat
      BY <3>3, <1>6
    <3>. QED  BY <3>1, <3>3, <3>4, <3>5
  <2>3. CASE i = Len(pending) + 1
    <3>1. pending'[i] = [session |-> e, at |-> at]  BY <2>1, <2>3
    <3>2. latest'[e] = Latest(latest[e], at)  BY <1>4
    <3>. QED  BY <3>1, <3>2, <1>1, <1>5, <1>6
  <2>. QED  BY <2>1, <2>2, <2>3
<1>12. LatestInv'
  <2>1. \A s \in Session : latest[s] <= now  BY DEF IInv, LatestInv
  <2>. QED  BY <2>1, <1>1, <1>4, <1>5, <1>6 DEF LatestInv
<1>13. RowInv'
  <2>1. \A s \in Session : row[s] \in RowType /\ Sound(row[s], latest[s]) /\ latest[s] \in MaybeTime
    BY <1>2 DEF IInv, RowInv, TypeOK
  <2>2. \A s \in Session : Sound(row[s], latest'[s])  BY <2>1, <1>6, SoundLater
  <2>. QED  BY <2>2 DEF RowInv
<1>14. SweepInv'  BY DEF SweepInv
<1>. QED  BY <1>9, <1>10, <1>11, <1>12, <1>13, <1>14 DEF IInv

\* A flush stores the events that wait; a tick stores the snapshots as well.
LEMMA StoreKeeps ==
    ASSUME IInv, Flush \/ SessionTick
    PROVE  IInv'
<1>. USE DEF tick
<1>1. PICK w \in BOOLEAN : Store(w) /\ (SessionTick => w)  BY DEF Flush, SessionTick
<1>2. UNCHANGED <<now, asm, failures, crashes, latest>>  BY DEF Flush, SessionTick
<1>3. /\ row' \in [Session -> RowType]
      /\ \A s \in Session : row'[s].known \/ row'[s] = NoRow
      /\ \A s \in Session : Sound(row'[s], latest[s])
      /\ w => \A s \in Session : Tracked(s) => asm[s].last <= row'[s].last
      /\ stored' \in [Session -> MaybeTime]
      /\ pending' = <<>>
  BY <1>1, StoreSound DEF IInv
<1>4. /\ phase' \in {"none", "sweep", "forget"} /\ tickAt' \in Time \cup {Null}
      /\ phase' = "none" <=> tickAt' = Null
      /\ phase' = "sweep" => SessionTick
  <2>1. now \in Time /\ now # Null  BY TimeIsNat DEF IInv, TypeOK
  <2>2. CASE Flush  BY <2>2 DEF Flush, IInv, TypeOK
  <2>3. CASE SessionTick  BY <2>1, <2>3 DEF SessionTick
  <2>. QED  BY <2>2, <2>3
<1>5. TypeOK'
  <2>1. pending' \in Seq(Event) /\ Len(pending') <= MaxPending  BY <1>3, Constants
  <2>. QED  BY <2>1, <1>2, <1>3, <1>4 DEF IInv, TypeOK, MaybeTime
<1>6. MemoryInv' /\ LatestInv'  BY <1>2 DEF IInv, MemoryInv, LatestInv, Tracked
<1>7. PendingInv'  BY <1>3 DEF PendingInv
<1>8. RowInv'  BY <1>2, <1>3 DEF RowInv
<1>9. SweepInv'  BY <1>1, <1>2, <1>3, <1>4 DEF SweepInv, Tracked
<1>. QED  BY <1>5, <1>6, <1>7, <1>8, <1>9 DEF IInv

\* A write or a sweep fails.
LEMMA FailureKeeps ==
    ASSUME IInv, FlushFails \/ SessionTickFails \/ SweepFails
    PROVE  IInv'
<1>. USE DEF tick, memory, history
<1>1. UNCHANGED <<now, asm, pending, row, crashes, latest, stored>>
  BY DEF FlushFails, SessionTickFails, SweepFails
<1>2. failures \in Nat /\ failures' = failures + 1
  BY DEF FlushFails, SessionTickFails, SweepFails, Fail, IInv, TypeOK
<1>3. /\ phase' \in {"none", "sweep", "forget"} /\ tickAt' \in Time \cup {Null}
      /\ phase' = "none" <=> tickAt' = Null
  <2>1. now \in Time /\ now # Null  BY TimeIsNat DEF IInv, TypeOK
  <2>2. CASE FlushFails  BY <2>2 DEF FlushFails, IInv, TypeOK
  <2>3. CASE SessionTickFails  BY <2>1, <2>3 DEF SessionTickFails
  <2>4. CASE SweepFails  BY <2>4 DEF SweepFails, IInv, TypeOK
  <2>. QED  BY <2>2, <2>3, <2>4
<1>4. TypeOK'
  <2>1. failures' \in Nat  BY <1>2
  <2>. QED  BY <2>1, <1>1, <1>3 DEF IInv, TypeOK
<1>5. MemoryInv' /\ PendingInv' /\ LatestInv' /\ RowInv'
  BY <1>1 DEF IInv, MemoryInv, PendingInv, LatestInv, RowInv, Tracked, Sound
<1>6. SweepInv'  BY <1>2 DEF SweepInv
<1>. QED  BY <1>4, <1>5, <1>6 DEF IInv

\* The sweep ends what is idle.
LEMMA SweepKeeps == IInv /\ Sweep => IInv'
<1>. SUFFICES ASSUME IInv, Sweep PROVE IInv'  OBVIOUS
<1>. USE DEF Sweep, memory, history
<1>1. \A s \in Session : row[s] \in RowType /\ Sound(row[s], latest[s]) /\ latest[s] \in MaybeTime
                          /\ (row[s].known \/ row[s] = NoRow)
  BY DEF IInv, TypeOK, RowInv, MaybeTime
<1>2. \A s \in Session : row'[s] = Swept(row[s])  OBVIOUS
<1>3. \A s \in Session : row'[s] \in RowType /\ Sound(row'[s], latest[s])
                          /\ (row'[s].known \/ row'[s] = NoRow)
  BY <1>1, <1>2, SweptSound
<1>4. TypeOK'
  <2>1. row' \in [Session -> RowType]  BY <1>2, <1>3
  <2>. QED  BY <2>1, <1>3 DEF IInv, TypeOK
<1>5. MemoryInv' /\ PendingInv' /\ LatestInv' /\ SweepInv'
  BY DEF IInv, MemoryInv, PendingInv, LatestInv, SweepInv, Tracked
<1>6. RowInv'  BY <1>3 DEF RowInv
<1>. QED  BY <1>4, <1>5, <1>6 DEF IInv

\* What the assembler forgets, the rows remember.
LEMMA ForgetKeeps ==
    ASSUME IInv, NEW kept \in SUBSET Session, Forget(kept)
    PROVE  IInv'
<1>. USE DEF Forget, history
<1>1. \A s \in Session : asm'[s] = Unknown \/ asm'[s] = asm[s]  OBVIOUS
<1>2. TypeOK'
  <2>1. Unknown \in [started : Time \cup {Null}, last : Time \cup {Null}]  BY DEF Unknown
  <2>2. asm' \in [Session -> [started : Time \cup {Null}, last : Time \cup {Null}]]
    BY <2>1 DEF IInv, TypeOK
  <2>. QED  BY <2>2 DEF IInv, TypeOK
<1>3. MemoryInv'  BY <1>1 DEF IInv, MemoryInv, Tracked
<1>4. PendingInv' /\ LatestInv' /\ RowInv' /\ SweepInv'
  BY DEF IInv, PendingInv, LatestInv, RowInv, SweepInv, Sound
<1>. QED  BY <1>2, <1>3, <1>4 DEF IInv

\* A start hook is activity.
LEMMA ApplyStartKeeps ==
    ASSUME IInv, NEW e \in Session, ApplyStart(e)
    PROVE  IInv'
<1>. USE DEF ApplyStart, tick
<1>1. now \in Time /\ now \in Nat /\ now \in MaybeTime  BY TimeIsNat DEF IInv, TypeOK
<1>2. /\ asm \in [Session -> [started : MaybeTime, last : MaybeTime]]
      /\ latest \in [Session -> MaybeTime] /\ row \in [Session -> RowType]
  BY DEF IInv, TypeOK, MaybeTime
<1>3. \A s \in Session : latest[s] \in Nat /\ latest[s] <= now
  BY <1>2, TimeIsNat DEF IInv, LatestInv
<1>4. \A s \in Session :
        latest'[s] = (IF s = e THEN now ELSE latest[s]) /\ latest[s] <= latest'[s]
        /\ latest'[s] \in MaybeTime
  BY <1>1, <1>2, <1>3
<1>5. \A s \in Session : Tracked(s) =>
        asm[s].started # Null /\ asm[s].started <= asm[s].last /\ asm[s].last <= latest[s]
  BY DEF IInv, MemoryInv
<1>6. \A s \in Session : asm'[s] = IF s = e /\ Tracked(s) THEN Observed(asm[s], now) ELSE asm[s]
  BY <1>2
<1>7. LET o == Observed(asm[e], now)
      IN  /\ o \in [started : MaybeTime, last : MaybeTime]
          /\ o.started # Null /\ o.started <= o.last /\ o.last <= now
  <2>1. asm[e] # Unknown =>
          asm[e].started # Null /\ asm[e].started <= asm[e].last /\ asm[e].last <= latest[e]
    BY <1>5 DEF Tracked
  <2>2. Latest(latest[e], now) = now  BY <1>1, <1>2, <1>3, LatestOf
  <2>. QED  BY <2>1, <2>2, <1>1, <1>2, ObservedSound, ZenonT(60)
<1>8. Started(row[e]) \in RowType /\ Started(row[e]).known /\ Sound(Started(row[e]), now)
  <2>1. row[e] \in RowType /\ Sound(row[e], latest[e]) /\ latest[e] \in MaybeTime /\ latest[e] <= now
    BY <1>2, <1>3 DEF IInv, RowInv
  <2>. QED  BY <2>1, <1>1, StartedSound
<1>9. \A s \in Session : row'[s] = IF s = e THEN Started(row[s]) ELSE row[s]  BY <1>2
<1>10. TypeOK'
  <2>1. asm' \in [Session -> [started : MaybeTime, last : MaybeTime]]  BY <1>2, <1>7
  <2>2. row' \in [Session -> RowType]  BY <1>2, <1>8
  <2>3. \A s \in Session : row'[s].known \/ row'[s] = NoRow
    BY <1>8, <1>9 DEF IInv, TypeOK
  <2>4. latest' \in [Session -> MaybeTime]  BY <1>1, <1>2
  <2>. QED  BY <2>1, <2>2, <2>3, <2>4 DEF IInv, TypeOK, MaybeTime
<1>11. MemoryInv'
  <2>. SUFFICES ASSUME NEW s \in Session, Tracked(s)'
                PROVE  /\ asm'[s].started # Null /\ asm'[s].started <= asm'[s].last
                       /\ asm'[s].last <= latest'[s]
    BY DEF MemoryInv
  <2>1. CASE s = e /\ Tracked(s)  BY <2>1, <1>4, <1>6, <1>7
  <2>2. CASE s = e /\ ~Tracked(s)  BY <2>2, <1>6 DEF Tracked
  <2>3. CASE s # e  BY <2>3, <1>4, <1>5, <1>6 DEF Tracked
  <2>. QED  BY <2>1, <2>2, <2>3
<1>12. PendingInv'
  <2>. SUFFICES ASSUME NEW i \in 1..Len(pending)
                PROVE  pending[i].at <= latest'[pending[i].session]
    BY DEF PendingInv
  <2>1. pending[i] \in Event  BY DEF IInv, TypeOK
  <2>2. pending[i].session \in Session /\ pending[i].at \in Nat  BY <2>1, TimeIsNat DEF Event
  <2>3. pending[i].at <= latest[pending[i].session]  BY DEF IInv, PendingInv
  <2>4. latest[pending[i].session] <= latest'[pending[i].session]
        /\ latest[pending[i].session] \in Nat /\ latest'[pending[i].session] \in Nat
    BY <2>2, <1>3, <1>4, TimeIsNat
  <2>. QED  BY <2>2, <2>3, <2>4
<1>13. LatestInv'  BY <1>1, <1>3, <1>4 DEF LatestInv
<1>14. RowInv'
  <2>. SUFFICES ASSUME NEW s \in Session PROVE Sound(row'[s], latest'[s])  BY DEF RowInv
  <2>1. CASE s = e  BY <2>1, <1>4, <1>8, <1>9
  <2>2. CASE s # e  BY <2>2, <1>4, <1>9 DEF IInv, RowInv
  <2>. QED  BY <2>1, <2>2
<1>15. SweepInv'  BY DEF SweepInv
<1>. QED  BY <1>10, <1>11, <1>12, <1>13, <1>14, <1>15 DEF IInv

\* An end hook ends the session at the time the pipeline comes to it.
LEMMA ApplyEndKeeps ==
    ASSUME IInv, NEW e \in Session, ApplyEnd(e)
    PROVE  IInv'
<1>. USE DEF ApplyEnd, tick, memory, history
<1>1. row[e] \in RowType /\ Sound(row[e], latest[e]) /\ latest[e] \in MaybeTime
      /\ now \in Time /\ latest[e] <= now
  BY DEF IInv, TypeOK, RowInv, LatestInv, MaybeTime
<1>2. Ended(row[e]) \in RowType /\ Ended(row[e]).known /\ Sound(Ended(row[e]), latest[e])
  BY <1>1, EndedSound
<1>3. \A s \in Session : row'[s] = IF s = e THEN Ended(row[s]) ELSE row[s]
  BY DEF IInv, TypeOK
<1>4. TypeOK'
  <2>1. row' \in [Session -> RowType]  BY <1>2 DEF IInv, TypeOK
  <2>2. \A s \in Session : row'[s].known \/ row'[s] = NoRow
    BY <1>2, <1>3 DEF IInv, TypeOK
  <2>. QED  BY <2>1, <2>2 DEF IInv, TypeOK
<1>5. RowInv'  BY <1>2, <1>3 DEF IInv, RowInv
<1>6. MemoryInv' /\ PendingInv' /\ LatestInv' /\ SweepInv'
  BY DEF IInv, MemoryInv, PendingInv, LatestInv, SweepInv, Tracked
<1>. QED  BY <1>4, <1>5, <1>6 DEF IInv

\* A restart leaves the rows.
LEMMA CrashKeeps == IInv /\ Crash => IInv'
<1>. SUFFICES ASSUME IInv, Crash PROVE IInv'  OBVIOUS
<1>. USE DEF Crash, history
<1>1. TypeOK'
  <2>1. asm' \in [Session -> [started : Time \cup {Null}, last : Time \cup {Null}]]
    BY DEF Unknown
  <2>2. pending' \in Seq(Event) /\ Len(pending') <= MaxPending  BY Constants
  <2>3. crashes' \in Nat  BY DEF IInv, TypeOK
  <2>4. phase' \in {"none", "sweep", "forget"} /\ tickAt' \in Time \cup {Null}
        /\ (phase' = "none" <=> tickAt' = Null)
    OBVIOUS
  <2>. QED  BY <2>1, <2>2, <2>3, <2>4 DEF IInv, TypeOK
<1>2. MemoryInv' /\ PendingInv' /\ LatestInv' /\ RowInv' /\ SweepInv'
  BY DEF IInv, MemoryInv, PendingInv, LatestInv, RowInv, SweepInv, Tracked, Sound
<1>. QED  BY <1>1, <1>2 DEF IInv

\* The invariant is kept by every step.
LEMMA NextKeeps == IInv /\ [Next]_vars => IInv'
<1>. SUFFICES ASSUME IInv, [Next]_vars PROVE IInv'  OBVIOUS
<1>1. CASE Clock  BY <1>1, ClockKeeps
<1>2. ASSUME NEW s \in Session, NEW at \in 1..Horizon, Ingest(s, at) PROVE IInv'
  BY <1>2, IngestKeeps
<1>3. ASSUME NEW s \in Session, ApplyStart(s) PROVE IInv'  BY <1>3, ApplyStartKeeps
<1>4. ASSUME NEW s \in Session, ApplyEnd(s) PROVE IInv'  BY <1>4, ApplyEndKeeps
<1>5. CASE Flush \/ SessionTick  BY <1>5, StoreKeeps
<1>6. CASE FlushFails \/ SessionTickFails \/ SweepFails  BY <1>6, FailureKeeps
<1>7. CASE Sweep  BY <1>7, SweepKeeps
<1>8. ASSUME NEW kept \in SUBSET Session, Forget(kept) PROVE IInv'  BY <1>8, ForgetKeeps
<1>9. CASE Crash  BY <1>9, CrashKeeps
<1>10. CASE UNCHANGED vars
  BY <1>10 DEF IInv, TypeOK, MemoryInv, PendingInv, LatestInv, RowInv, SweepInv, Tracked, Sound,
               vars, memory, tick, history
<1>. QED
  BY <1>1, <1>2, <1>3, <1>4, <1>5, <1>6, <1>7, <1>8, <1>9, <1>10 DEF Next, Daemon, Tick

\* IInv holds throughout.
THEOREM Invariance == Spec => []IInv
<1>. QED  BY InitHolds, NextKeeps, PTL DEF Spec

\* Every variable keeps its type: the rows, memories and times the daemon's
\* commands write are of the tables' form.
THEOREM TypeCorrect == Spec => []TypeOK
<1>1. IInv => TypeOK  BY DEF IInv
<1>. QED  BY <1>1, Invariance, PTL

-----------------------------------------------------------------------------
(* What the rows promise *)

\* An open row always has an activity time, so that the sweep can end it,
\* whatever came first of it: an event, a snapshot or a hook.
THEOREM OpenSessionsAreSweepable == Spec => []OpenIsSweepable
<1>1. IInv => OpenIsSweepable  BY DEF IInv, RowInv, Sound, OpenIsSweepable
<1>. QED  BY <1>1, Invariance, PTL

\* The table's CHECK never refuses a write: no row ends before its start or
\* its activity, in any order of events, snapshots, hooks and restarts.
THEOREM EndsCoverActivity == Spec => []EndCoversActivity
<1>1. IInv => EndCoversActivity
  <2>. SUFFICES ASSUME IInv, NEW s \in Session, row[s].ended # Null
                PROVE  row[s].last <= row[s].ended /\ row[s].started <= row[s].ended
    BY DEF EndCoversActivity
  <2>1. row[s] \in RowType  BY DEF IInv, TypeOK
  <2>2. row[s].last \in Nat /\ row[s].started \in Nat /\ row[s].ended \in Nat
    BY <2>1, TimeIsNat DEF RowType, MaybeTime
  <2>3. row[s].started <= row[s].last /\ row[s].last <= row[s].ended
    BY DEF IInv, RowInv, Sound
  <2>. QED  BY <2>2, <2>3
<1>. QED  BY <1>1, Invariance, PTL

\* The end of a session's row is changed, and with reason.
Moved(s) == row[s].ended # Null /\ row'[s].ended # row[s].ended
Justified(s) == row'[s].ended = Null /\ (latest[s] > row[s].ended \/ ApplyStart(s))

\* No snapshot, late batch, sweep, repeated hook or restart moves the end of an
\* ended session; only activity later than it, or a start hook, takes it away.
THEOREM OnlyActivityReopens == Spec => ReopenedByActivityOnly
<1>1. IInv /\ [Next]_vars => [\A s \in Session : Moved(s) => Justified(s)]_vars
  <2>. SUFFICES ASSUME IInv, Next, NEW s \in Session, Moved(s) PROVE Justified(s)
    OBVIOUS
  <2>. USE DEF Moved, Justified
  <2>1. row[s] \in RowType /\ Sound(row[s], latest[s]) /\ latest[s] \in MaybeTime /\ latest[s] <= now
        /\ now \in Time
    BY DEF IInv, TypeOK, RowInv, LatestInv, MaybeTime
  <2>2. row'[s] # row[s]  OBVIOUS
  <2>3. CASE Flush \/ SessionTick
    <3>1. PICK w \in BOOLEAN : Store(w)  BY <2>3 DEF Flush, SessionTick
    <3>. QED  BY <3>1, StoreSound DEF IInv
  <2>4. CASE Sweep
    <3>1. row'[s] = Swept(row[s])  BY <2>4 DEF Sweep
    <3>. QED  BY <3>1, <2>1, SweptSound
  <2>5. ASSUME NEW e \in Session, ApplyStart(e) PROVE Justified(s)
    <3>1. row'[s] = IF s = e THEN Started(row[s]) ELSE row[s]
      BY <2>5 DEF ApplyStart, IInv, TypeOK
    <3>2. s = e /\ row'[s].ended = Null  BY <3>1, <2>2 DEF Started
    <3>. QED  BY <2>5, <3>2
  <2>6. ASSUME NEW e \in Session, ApplyEnd(e) PROVE Justified(s)
    <3>1. row'[s] = IF s = e THEN Ended(row[s]) ELSE row[s]
      BY <2>6 DEF ApplyEnd, IInv, TypeOK
    <3>2. row'[s].ended = row[s].ended  BY <3>1, <2>1, EndedSound
    <3>. QED  BY <3>2
  <2>7. CASE \/ Clock \/ Crash \/ FlushFails \/ SessionTickFails \/ SweepFails
             \/ \E e \in Session : \E at \in 1..Horizon : Ingest(e, at)
             \/ \E kept \in SUBSET Session : Forget(kept)
    BY <2>7, <2>2 DEF Clock, Crash, FlushFails, SessionTickFails, SweepFails, Ingest, Forget
  <2>. QED  BY <2>3, <2>4, <2>5, <2>6, <2>7 DEF Next, Daemon, Tick
<1>. QED  BY <1>1, Invariance, PTL DEF Spec, ReopenedByActivityOnly, Moved, Justified

\* A session the sweep meets open, and the assembler has seen active of late.
SeenActive(s) ==
    Tracked(s) /\ asm[s].last + IdleTime >= tickAt /\ row[s].known
    /\ phase = "sweep" /\ row[s].ended = Null
Spared == failures = 0 => \A s \in Session : SeenActive(s) => row'[s].ended = Null

\* As long as writes succeed, the sweep of a tick ends no session the assembler
\* has seen active within the idle time: the tick has stored its snapshot.
THEOREM SweepSpares == Spec => SweepSparesActive
<1>1. IInv /\ [Next]_vars => [Spared]_vars
  <2>. SUFFICES ASSUME IInv, Next, failures = 0, NEW s \in Session, SeenActive(s)
                PROVE  row'[s].ended = Null
    BY DEF Spared
  <2>. USE DEF SeenActive
  <2>1. CASE Sweep
    <3>1. row'[s] = Swept(row[s])  BY <2>1 DEF Sweep
    <3>2. asm[s].last <= row[s].last  BY DEF IInv, SweepInv
    <3>3. row[s].last \in MaybeTime /\ asm[s].last \in MaybeTime /\ tickAt \in MaybeTime
      BY DEF IInv, TypeOK, RowType, MaybeTime
    <3>4. row[s].last \in Nat /\ asm[s].last \in Nat /\ tickAt \in Nat
      BY <3>3, TimeIsNat
    <3>5. ~(row[s].last + IdleTime < tickAt)  BY <3>2, <3>4, Constants
    <3>. QED  BY <3>1, <3>5 DEF Swept
  <2>2. CASE Clock \/ SweepFails \/ Crash  BY <2>2 DEF Clock, SweepFails, Crash
  <2>. QED
    BY <2>1, <2>2 DEF Next, Daemon, Tick, Ingest, ApplyStart, ApplyEnd, Flush, FlushFails,
                      SessionTick, SessionTickFails, Forget
<1>. QED  BY <1>1, Invariance, PTL DEF Spec, SweepSparesActive, Spared, SeenActive
-----------------------------------------------------------------------------
(* Tool calls (ToolCalls) *)

\* What identifies a call, and the events and rows made of it.
CallId == [id : Nat, turn : Nat, tool : Tool, n : Nat]
MaybeEvent == SentEvent \cup {NoEvent}
CallRow == [turn : Nat, decision : MaybeEvent, result : MaybeEvent, choice : Answers \cup {"none"}]
ToolTable == UNION {[keys -> CallRow] : keys \in SUBSET CallId}
Pended == [event : SentEvent, turn : 0..MaxTurns, key : CallId]
Ledger == [opened : Nat, pending : Seq(CallId)]

\* An event of the session: of a prompt or of a call that was made.
OfSession(e) ==
    /\ e \in SentEvent
    /\ IF IsTool(e) THEN e.of \in DOMAIN made ELSE e.of \in 1..MaxTurns

\* A call that was made.
MadeCall == [tool : Tool, prompt : 0..MaxTurns, asked : Answers]

\* The types, and where the events come from.
ToolTypes ==
    /\ given \in [calls : BOOLEAN, turns : BOOLEAN]
    /\ prompts \in 0..MaxTurns
    /\ made \in Seq(MadeCall)
    /\ \A e \in sent \cup window \cup storedEvents : OfSession(e)
    /\ open \in 0..MaxTurns
    /\ ledgers \in [(0..MaxTurns) \X Tool -> Ledger]
    /\ unsaved \in Seq(Pended)
    /\ \A i \in DOMAIN unsaved : IsTool(unsaved[i].event) /\ unsaved[i].event \in window
    /\ lives \in Nat
    /\ toolCalls \in ToolTable
    /\ changes \in [1..MaxCalls -> Nat]

\* The n-th table of a batch.
Tables(table, recs) ==
    /\ table \in [0..Len(recs) -> ToolTable]
    /\ table[0] = toolCalls
    /\ \A n \in 1..Len(recs) :
         table[n] = IF n \in Promoted(recs) THEN UpsertCall(table[n - 1], recs[n]) ELSE table[n - 1]

\* A row keeps the result and the decision it has, and gets one it had not.
LEMMA UpsertFacts ==
    ASSUME ToolTypes, NEW table \in ToolTable, NEW r \in Pended, IsTool(r.event), OfSession(r.event)
    PROVE  /\ UpsertCall(table, r) \in ToolTable
           /\ DOMAIN UpsertCall(table, r) = DOMAIN table \cup {r.key}
           /\ \A k \in DOMAIN table : k # r.key => UpsertCall(table, r)[k] = table[k]
           /\ UpsertCall(table, r)[r.key].result =
                IF r.key \in DOMAIN table /\ table[r.key].result # NoEvent THEN table[r.key].result
                ELSE IF r.event.part = "result" THEN r.event ELSE NoEvent
           /\ UpsertCall(table, r)[r.key].decision =
                IF r.key \in DOMAIN table /\ table[r.key].decision # NoEvent THEN table[r.key].decision
                ELSE IF r.event.part = "decision" THEN r.event ELSE NoEvent
<1>. DEFINE new == Contribution(r)
            merged == IF r.key \in DOMAIN table THEN MergedRow(table[r.key], new) ELSE new
<1>1. PICK keys \in SUBSET CallId : table \in [keys -> CallRow]  BY DEF ToolTable
<1>2. DOMAIN table = keys /\ r.key \in CallId /\ r.event \in SentEvent /\ r.turn \in 0..MaxTurns
  BY <1>1 DEF Pended
<1>3. r.turn \in Nat  BY <1>2, ToolAssumption
<1>4. new.result = (IF r.event.part = "result" THEN r.event ELSE NoEvent)
      /\ new.decision = (IF r.event.part = "decision" THEN r.event ELSE NoEvent)
      /\ new.turn = r.turn
  BY DEF Contribution
<1>5. new \in CallRow
  <2>1. made[r.event.of].asked \in Answers
    <3>1. r.event.of \in DOMAIN made  BY DEF OfSession
    <3>2. made \in Seq(MadeCall)  BY DEF ToolTypes
    <3>3. made[r.event.of] \in MadeCall  BY <3>1, <3>2
    <3>. QED  BY <3>3 DEF MadeCall
  <2>. QED  BY <2>1, <1>2, <1>3 DEF Contribution, CallRow, MaybeEvent
<1>6. ASSUME NEW old \in CallRow PROVE MergedRow(old, new) \in CallRow
  <2>. HIDE DEF new
  <2>. QED  BY <1>5 DEF MergedRow, CallRow, MaybeEvent, Coalesce
<1>7. merged \in CallRow
  <2>. HIDE DEF new
  <2>. QED  BY <1>1, <1>2, <1>5, <1>6
<1>8. UpsertCall(table, r) = [k \in DOMAIN table \cup {r.key} |-> IF k = r.key THEN merged ELSE table[k]]
  BY DEF UpsertCall
<1>9. UpsertCall(table, r) \in [keys \cup {r.key} -> CallRow]
  <2>. HIDE DEF merged
  <2>. QED  BY <1>1, <1>2, <1>7, <1>8
<1>10. UpsertCall(table, r) \in ToolTable
  <2>1. keys \cup {r.key} \in SUBSET CallId  BY <1>2
  <2>. QED  BY <1>9, <2>1 DEF ToolTable
<1>11. UpsertCall(table, r)[r.key] = merged
  <2>. HIDE DEF merged
  <2>. QED  BY <1>8
<1>12. /\ merged.result = IF r.key \in DOMAIN table /\ table[r.key].result # NoEvent THEN table[r.key].result
                       ELSE new.result
       /\ merged.decision = IF r.key \in DOMAIN table /\ table[r.key].decision # NoEvent THEN table[r.key].decision
                         ELSE new.decision
  <2>. HIDE DEF new
  <2>. QED  BY DEF MergedRow, Coalesce
<1>13. /\ DOMAIN UpsertCall(table, r) = DOMAIN table \cup {r.key}
       /\ \A k \in DOMAIN table : k # r.key => UpsertCall(table, r)[k] = table[k]
  <2>. HIDE DEF merged
  <2>. QED  BY <1>8
<1>. HIDE DEF merged, new
<1>. QED  BY <1>4, <1>10, <1>11, <1>12, <1>13

\* The tables of a batch exist, and the last is the one that TableAfter names.
LEMMA TablesExist ==
    ASSUME ToolTypes, NEW recs \in Seq(Pended),
           \A i \in DOMAIN recs : IsTool(recs[i].event) /\ OfSession(recs[i].event)
    PROVE  \E table : Tables(table, recs) /\ TableAfter(recs) = table[Len(recs)]
<1>. DEFINE Promote(n, before) == IF n \in Promoted(recs) THEN UpsertCall(before, recs[n]) ELSE before
            Recursion(f) == f = [n \in 0..Len(recs) |-> IF n = 0 THEN toolCalls ELSE Promote(n, f[n - 1])]
            step == [p \in Nat \X ToolTable |->
                       IF p[1] \in 1..Len(recs) THEN Promote(p[1], p[2]) ELSE p[2]]
            m == CHOOSE f : Recursion(f)
<1>0. Len(recs) \in Nat /\ DOMAIN recs = 1..Len(recs) /\ toolCalls \in ToolTable
  BY DEF ToolTypes
<1>1. \A n \in 1..Len(recs) : \A b \in ToolTable : Promote(n, b) \in ToolTable
  <2>. SUFFICES ASSUME NEW n \in 1..Len(recs), NEW b \in ToolTable
                PROVE  Promote(n, b) \in ToolTable
    OBVIOUS
  <2>1. recs[n] \in Pended /\ IsTool(recs[n].event) /\ OfSession(recs[n].event)
    BY <1>0
  <2>. QED  BY <2>1, UpsertFacts
<1>2. PICK f : Iterates(f, Len(recs), ToolTable, toolCalls, step)
  <2>1. step \in [Nat \X ToolTable -> ToolTable]
    <3>. HIDE DEF Promote
    <3>1. ASSUME NEW p \in Nat \X ToolTable
          PROVE  (IF p[1] \in 1..Len(recs) THEN Promote(p[1], p[2]) ELSE p[2]) \in ToolTable
      BY <1>1
    <3>. QED  BY <3>1
  <2>. HIDE DEF step
  <2>. QED  BY <1>0, <2>1, Iteration
<1>3. /\ f \in [0..Len(recs) -> ToolTable] /\ f[0] = toolCalls
      /\ \A i \in 1..Len(recs) : f[i] = step[<<i, f[i - 1]>>]
  <2>. HIDE DEF step
  <2>. QED  BY <1>2 DEF Iterates
<1>. HIDE DEF Promote
<1>4. \A i \in 1..Len(recs) : f[i] = Promote(i, f[i - 1])
  <2>. SUFFICES ASSUME NEW i \in 1..Len(recs) PROVE f[i] = Promote(i, f[i - 1])  OBVIOUS
  <2>1. i - 1 \in 0..Len(recs) /\ i \in Nat  BY <1>0
  <2>2. f[i - 1] \in ToolTable
    <3>. HIDE DEF step
    <3>. QED  BY <1>3, <2>1
  <2>3. step[<<i, f[i - 1]>>] = Promote(i, f[i - 1])  BY <2>1, <2>2
  <2>. HIDE DEF step
  <2>. QED  BY <1>3, <2>3
<1>5. \A i \in 0..Len(recs) : f[i] = IF i = 0 THEN toolCalls ELSE Promote(i, f[i - 1])
  <2>1. \A i \in 0..Len(recs) : i # 0 => i \in 1..Len(recs)  BY <1>0
  <2>. HIDE DEF step
  <2>. QED  BY <1>3, <1>4, <2>1
<1>6. Recursion(f)
  <2>. HIDE DEF step
  <2>. QED  BY <1>3, <1>5
<1>7. Recursion(m)
  <2>. HIDE DEF Recursion
  <2>. QED  BY <1>6
<1>8. TableAfter(recs) = m[Len(recs)]  BY DEF TableAfter, Promote
<1>. HIDE DEF step
<1>9. m[0] = toolCalls /\ \A n \in 1..Len(recs) : m[n] = Promote(n, m[n - 1])
  <2>. HIDE DEF m
  <2>. QED  BY <1>0, <1>7
<1>. HIDE DEF m
<1>10. \A n \in Nat : n \in {j \in Nat : j <= Len(recs) => m[j] \in ToolTable}
  <2>. DEFINE G == {j \in Nat : j <= Len(recs) => m[j] \in ToolTable}
  <2>1. 0 \in G  BY <1>0, <1>9
  <2>2. ASSUME NEW n \in Nat, n \in G PROVE n + 1 \in G
    <3>. SUFFICES ASSUME n + 1 <= Len(recs) PROVE m[n + 1] \in ToolTable  OBVIOUS
    <3>1. n + 1 \in 1..Len(recs) /\ (n + 1) - 1 = n /\ n <= Len(recs)  BY <1>0
    <3>2. m[n] \in ToolTable  BY <2>2, <3>1
    <3>3. m[n + 1] = Promote(n + 1, m[n])  BY <1>9, <3>1
    <3>. QED  BY <1>1, <3>1, <3>2, <3>3
  <2>. HIDE DEF G
  <2>3. \A n \in Nat : n \in G  BY <2>1, <2>2, SetInduction
  <2>. QED  BY <2>3 DEF G
<1>11. m = [n \in 0..Len(recs) |-> m[n]]
  <2>. DEFINE body(n) == IF n = 0 THEN toolCalls ELSE Promote(n, m[n - 1])
  <2>1. m = [n \in 0..Len(recs) |-> body(n)]  BY <1>7
  <2>. HIDE DEF body
  <2>. QED  BY <2>1
<1>12. m \in [0..Len(recs) -> ToolTable]
  <2>1. \A n \in 0..Len(recs) : m[n] \in ToolTable  BY <1>0, <1>10
  <2>. QED  BY <1>11, <2>1
<1>13. Tables(m, recs)  BY <1>9, <1>12 DEF Tables, Promote
<1>. QED  BY <1>8, <1>13

\* What the n-th table of a batch holds: the results and decisions from before,
\* and those of the events that were promoted.
Promotes(table, recs, n) ==
    /\ \A k \in DOMAIN table : k \in DOMAIN toolCalls \/ \E i \in 1..n : recs[i].key = k
    /\ \A k \in DOMAIN table : table[k].result # NoEvent =>
         \/ k \in DOMAIN toolCalls /\ toolCalls[k].result = table[k].result
         \/ \E i \in 1..n \cap Promoted(recs) :
              recs[i].key = k /\ recs[i].event = table[k].result /\ recs[i].event.part = "result"
    /\ \A k \in DOMAIN table : table[k].decision # NoEvent =>
         \/ k \in DOMAIN toolCalls /\ toolCalls[k].decision = table[k].decision
         \/ \E i \in 1..n \cap Promoted(recs) :
              recs[i].key = k /\ recs[i].event = table[k].decision /\ recs[i].event.part = "decision"
    /\ \A k \in DOMAIN toolCalls :
         k \in DOMAIN table /\ (toolCalls[k].result # NoEvent => table[k].result = toolCalls[k].result)
    /\ \A i \in 1..n \cap Promoted(recs) : recs[i].event.part = "result" =>
         recs[i].key \in DOMAIN table /\ table[recs[i].key].result # NoEvent

\* One event more: what was promoted before stays.
LEMMA PromotesStep ==
    ASSUME ToolTypes, NEW recs \in Seq(Pended),
           \A i \in DOMAIN recs : IsTool(recs[i].event) /\ OfSession(recs[i].event),
           NEW n \in Nat, n + 1 <= Len(recs), NEW old \in ToolTable, Promotes(old, recs, n),
           NEW table, table = IF n + 1 \in Promoted(recs) THEN UpsertCall(old, recs[n + 1]) ELSE old
    PROVE  Promotes(table, recs, n + 1)
<1>0. Len(recs) \in Nat /\ n + 1 \in DOMAIN recs /\ 1..(n + 1) = 1..n \cup {n + 1}
  OBVIOUS
<1>1. CASE n + 1 \notin Promoted(recs)
  <2>1. table = old /\ 1..(n + 1) \cap Promoted(recs) = 1..n \cap Promoted(recs)
    BY <1>0, <1>1
  <2>2. \A i \in 1..n : i \in 1..(n + 1)  BY <1>0
  <2>. QED  BY <2>1, <2>2 DEF Promotes
<1>2. CASE n + 1 \in Promoted(recs)
  <2>. DEFINE r == recs[n + 1]
  <2>0. r \in Pended /\ IsTool(r.event) /\ OfSession(r.event)  BY <1>0
  <2>1. table = UpsertCall(old, r)  BY <1>2
  <2>2. r.event # NoEvent /\ r.event.part \in {"decision", "result"}
    BY <2>0, ToolAssumption DEF Pended, IsTool
  <2>3. /\ DOMAIN table = DOMAIN old \cup {r.key}
        /\ \A k \in DOMAIN old : k # r.key => table[k] = old[k]
        /\ table[r.key].result =
             IF r.key \in DOMAIN old /\ old[r.key].result # NoEvent THEN old[r.key].result
             ELSE IF r.event.part = "result" THEN r.event ELSE NoEvent
        /\ table[r.key].decision =
             IF r.key \in DOMAIN old /\ old[r.key].decision # NoEvent THEN old[r.key].decision
             ELSE IF r.event.part = "decision" THEN r.event ELSE NoEvent
    <3>. HIDE DEF r
    <3>1. /\ DOMAIN UpsertCall(old, r) = DOMAIN old \cup {r.key}
          /\ \A k \in DOMAIN old : k # r.key => UpsertCall(old, r)[k] = old[k]
          /\ UpsertCall(old, r)[r.key].result =
               IF r.key \in DOMAIN old /\ old[r.key].result # NoEvent THEN old[r.key].result
               ELSE IF r.event.part = "result" THEN r.event ELSE NoEvent
          /\ UpsertCall(old, r)[r.key].decision =
               IF r.key \in DOMAIN old /\ old[r.key].decision # NoEvent THEN old[r.key].decision
               ELSE IF r.event.part = "decision" THEN r.event ELSE NoEvent
      BY <2>0, UpsertFacts
    <3>. QED  BY <2>1, <3>1
  <2>4. n + 1 \in 1..(n + 1) \cap Promoted(recs) /\ \A i \in 1..n : i \in 1..(n + 1)
    BY <1>0, <1>2
  <2>. DEFINE e == r.event
              key == r.key
  <2>5. recs[n + 1].key = key /\ recs[n + 1].event = e  OBVIOUS
  <2>. HIDE DEF e, key, r
  <2>6. \A k \in DOMAIN table : k \in DOMAIN toolCalls \/ \E i \in 1..(n + 1) : recs[i].key = k
    <3>. SUFFICES ASSUME NEW k \in DOMAIN table
                  PROVE  k \in DOMAIN toolCalls \/ \E i \in 1..(n + 1) : recs[i].key = k
      OBVIOUS
    <3>1. CASE k \in DOMAIN old  BY <2>4, <3>1 DEF Promotes
    <3>2. CASE k = key  BY <2>4, <2>5, <3>2
    <3>. QED  BY <2>3, <3>1, <3>2 DEF key
  <2>7. ASSUME NEW k \in DOMAIN table, table[k].result # NoEvent
        PROVE  \/ k \in DOMAIN toolCalls /\ toolCalls[k].result = table[k].result
               \/ \E i \in 1..(n + 1) \cap Promoted(recs) :
                    recs[i].key = k /\ recs[i].event = table[k].result /\ recs[i].event.part = "result"
    <3>1. CASE k \in DOMAIN old /\ old[k].result = table[k].result
      BY <2>4, <2>7, <3>1 DEF Promotes
    <3>2. CASE k = key /\ table[k].result = e /\ e.part = "result"
      BY <2>4, <2>5, <3>2
    <3>. QED  BY <2>3, <2>7, <3>1, <3>2 DEF key, e
  <2>8. ASSUME NEW k \in DOMAIN table, table[k].decision # NoEvent
        PROVE  \/ k \in DOMAIN toolCalls /\ toolCalls[k].decision = table[k].decision
               \/ \E i \in 1..(n + 1) \cap Promoted(recs) :
                    recs[i].key = k /\ recs[i].event = table[k].decision /\ recs[i].event.part = "decision"
    <3>1. CASE k \in DOMAIN old /\ old[k].decision = table[k].decision
      BY <2>4, <2>8, <3>1 DEF Promotes
    <3>2. CASE k = key /\ table[k].decision = e /\ e.part = "decision"
      BY <2>4, <2>5, <3>2
    <3>. QED  BY <2>3, <2>8, <3>1, <3>2 DEF key, e
  <2>9. \A k \in DOMAIN old : k \in DOMAIN table /\ (old[k].result # NoEvent => table[k].result = old[k].result)
    BY <2>3
  <2>10. \A k \in DOMAIN toolCalls :
           k \in DOMAIN table /\ (toolCalls[k].result # NoEvent => table[k].result = toolCalls[k].result)
    BY <2>9 DEF Promotes
  <2>11. ASSUME NEW i \in 1..(n + 1) \cap Promoted(recs), recs[i].event.part = "result"
         PROVE  recs[i].key \in DOMAIN table /\ table[recs[i].key].result # NoEvent
    <3>1. CASE i \in 1..n
      <4>1. recs[i].key \in DOMAIN old /\ old[recs[i].key].result # NoEvent
        BY <2>11, <3>1 DEF Promotes
      <4>. QED  BY <2>9, <4>1
    <3>2. CASE i = n + 1
      <4>1. key \in DOMAIN table  BY <2>3 DEF key
      <4>2. e.part = "result"  BY <2>5, <2>11, <3>2
      <4>3. table[key].result # NoEvent  BY <2>2, <2>3, <4>2 DEF key, e
      <4>. QED  BY <2>5, <3>2, <4>1, <4>3
    <3>. QED  BY <1>0, <3>1, <3>2
  <2>. QED  BY <2>6, <2>7, <2>8, <2>10, <2>11 DEF Promotes
<1>. QED  BY <1>1, <1>2

\* What a batch leaves.
LEMMA TableAfterFacts ==
    ASSUME ToolTypes, NEW recs \in Seq(Pended),
           \A i \in DOMAIN recs : IsTool(recs[i].event) /\ OfSession(recs[i].event)
    PROVE  TableAfter(recs) \in ToolTable /\ Promotes(TableAfter(recs), recs, Len(recs))
<1>0. Len(recs) \in Nat  OBVIOUS
<1>1. PICK table : Tables(table, recs) /\ TableAfter(recs) = table[Len(recs)]
  BY TablesExist
<1>2. /\ table \in [0..Len(recs) -> ToolTable]
      /\ table[0] = toolCalls
      /\ \A n \in 1..Len(recs) :
           table[n] = IF n \in Promoted(recs) THEN UpsertCall(table[n - 1], recs[n]) ELSE table[n - 1]
  BY <1>1 DEF Tables
<1>. DEFINE G == {n \in Nat : n <= Len(recs) => Promotes(table[n], recs, n)}
<1>3. 0 \in G
  <2>1. Promotes(toolCalls, recs, 0)  BY DEF Promotes
  <2>. QED  BY <1>2, <2>1
<1>4. ASSUME NEW n \in Nat, n \in G PROVE n + 1 \in G
  <2>. SUFFICES ASSUME n + 1 <= Len(recs) PROVE Promotes(table[n + 1], recs, n + 1)  OBVIOUS
  <2>1. n + 1 \in 1..Len(recs) /\ (n + 1) - 1 = n /\ n <= Len(recs) /\ n \in 0..Len(recs)  BY <1>0
  <2>2. Promotes(table[n], recs, n)  BY <1>4, <2>1
  <2>3. table[n] \in ToolTable  BY <1>2, <2>1
  <2>4. table[n + 1] = IF n + 1 \in Promoted(recs) THEN UpsertCall(table[n], recs[n + 1]) ELSE table[n]
    BY <1>2, <2>1
  <2>. QED  BY <2>2, <2>3, <2>4, PromotesStep
<1>5. \A n \in Nat : n \in G
  <2>. HIDE DEF G
  <2>. QED  BY <1>3, <1>4, SetInduction
<1>6. Promotes(table[Len(recs)], recs, Len(recs))  BY <1>0, <1>5
<1>7. table[Len(recs)] \in ToolTable  BY <1>0, <1>2
<1>. QED  BY <1>1, <1>6, <1>7

-----------------------------------------------------------------------------
(* The invariant of tool calls *)

\* No event waits twice.
UnsavedOnce == \A i, j \in DOMAIN unsaved : unsaved[i].event = unsaved[j].event => i = j

\* Rows are made of stored events, and a file is changed by a stored result.
RowsStored ==
    /\ \A k \in DOMAIN toolCalls :
         /\ toolCalls[k].result # NoEvent =>
              toolCalls[k].result \in storedEvents /\ toolCalls[k].result.part = "result"
         /\ toolCalls[k].decision # NoEvent =>
              toolCalls[k].decision \in storedEvents /\ toolCalls[k].decision.part = "decision"
    /\ \A c \in 1..MaxCalls : changes[c] > 0 => Ev("result", c) \in storedEvents

\* A vendor's own id names the call of every key.
Named ==
    /\ \A i \in DOMAIN unsaved : unsaved[i].key.id = unsaved[i].event.of
    /\ \A k \in DOMAIN toolCalls : toolCalls[k].result # NoEvent => k.id = toolCalls[k].result.of

\* The ledger of a key.
LedgerOf(k) == ledgers[<<k.turn, k.tool>>]

\* A key the tracker has counted, and one that waits for its result.
Numbered(k) == k.id = 0 /\ k.turn \in 0..MaxTurns /\ k.n < LedgerOf(k).opened
Waits(k) == Contains(LedgerOf(k).pending, k)

\* The keys of a tracker that was never lost: each has been given to one call,
\* and waits for a result as long as no event brought one.
Counted ==
    /\ \A at \in (0..MaxTurns) \X Tool :
         /\ Distinct(ledgers[at].pending)
         /\ \A k : Contains(ledgers[at].pending, k) => Numbered(k) /\ <<k.turn, k.tool>> = at
    /\ \A k \in DOMAIN toolCalls : Numbered(k) /\ (toolCalls[k].result # NoEvent => ~Waits(k))
    /\ \A i \in DOMAIN unsaved :
         \A k \in {unsaved[i].key} :
            /\ Numbered(k)
            /\ unsaved[i].event.part = "result" =>
                 /\ ~Waits(k)
                 /\ k \in DOMAIN toolCalls => toolCalls[k].result = NoEvent
                 /\ \A j \in DOMAIN unsaved :
                      unsaved[j].event.part = "result" /\ unsaved[j].key = k => i = j

\* The invariant: keys of the vendor name their call, keys of the tracker are given
\* to one call each, as long as the tracker was not lost.
ToolInv ==
    /\ ToolTypes
    /\ UnsavedOnce
    /\ RowsStored
    /\ given.calls => Named
    /\ ~given.calls /\ lives = 0 => Counted
    /\ CallsExact

-----------------------------------------------------------------------------
(* What the steps of tool calls keep *)

\* Nothing is known before the session.
LEMMA ToolBegins ==
    ASSUME ToolInit
    PROVE  ToolInv
<1>. USE DEF ToolInit
<1>1. DOMAIN toolCalls = {} /\ DOMAIN unsaved = {}  OBVIOUS
<1>2. ToolTypes
  <2>1. toolCalls \in ToolTable
    <3>1. toolCalls \in [{} -> CallRow]  OBVIOUS
    <3>2. {} \in SUBSET CallId  OBVIOUS
    <3>. QED  BY <3>1, <3>2 DEF ToolTable
  <2>2. ledgers \in [(0..MaxTurns) \X Tool -> Ledger]  BY DEF FreshLedgers, Ledger
  <2>3. unsaved \in Seq(Pended) /\ made \in Seq(MadeCall)  OBVIOUS
  <2>4. open \in 0..MaxTurns /\ prompts \in 0..MaxTurns  BY ToolAssumption DEF Virtual
  <2>5. changes \in [1..MaxCalls -> Nat]  OBVIOUS
  <2>. QED  BY <1>1, <2>1, <2>2, <2>3, <2>4, <2>5 DEF ToolTypes
<1>3. Counted
  <2>1. \A at \in (0..MaxTurns) \X Tool : ledgers[at].pending = <<>>  BY DEF FreshLedgers
  <2>2. Distinct(<<>>) /\ \A k : ~Contains(<<>>, k)  BY DEF Distinct, Contains
  <2>. QED  BY <1>1, <2>1, <2>2 DEF Counted
<1>4. UnsavedOnce /\ RowsStored /\ Named  BY <1>1 DEF UnsavedOnce, RowsStored, Named
<1>5. CallsExact  BY <1>1, ToolAssumption DEF CallsExact, CallsKept, EventUsedOnce
<1>. QED  BY <1>2, <1>3, <1>4, <1>5 DEF ToolInv

\* What the vendor does is not seen before it is received.
LEMMA VendorTypes ==
    ASSUME ToolTypes, Prompt \/ (\E tool \in Tool, asked \in Answers : Call(tool, asked))
                      \/ (\E c \in DOMAIN made : Return(c))
    PROVE  /\ ToolTypes'
           /\ UNCHANGED <<given, window, open, ledgers, unsaved, lives, storedEvents, toolCalls, changes>>
<1>1. UNCHANGED <<given, window, open, ledgers, unsaved, lives, storedEvents, toolCalls, changes>>
  BY DEF Prompt, Call, Return
<1>2. /\ prompts' \in 0..MaxTurns /\ made' \in Seq(MadeCall)
      /\ DOMAIN made \subseteq DOMAIN made'
      /\ \A e \in sent' : e \in sent \/ OfSession(e)'
  <2>0. Len(made) \in Nat /\ DOMAIN made = 1..Len(made) /\ made \in Seq(MadeCall)
        /\ MaxTurns \in Nat /\ prompts \in 0..MaxTurns
    BY ToolAssumption DEF ToolTypes
  <2>1. CASE Prompt
    <3>1. prompts + 1 \in 1..MaxTurns  BY <2>0, <2>1 DEF Prompt
    <3>2. PICK e : e = Ev("prompt", prompts + 1)  OBVIOUS
    <3>3. e \in SentEvent /\ ~IsTool(e) /\ e.of \in 1..MaxTurns
      BY <3>1, <3>2, <2>0 DEF Ev, SentEvent, IsTool
    <3>4. OfSession(e)'  BY <3>3 DEF OfSession, IsTool
    <3>5. sent' = sent \cup {e} /\ prompts' = prompts + 1 /\ made' = made
      BY <2>1, <3>2 DEF Prompt, SendOut
    <3>. QED  BY <2>0, <3>1, <3>4, <3>5
  <2>2. ASSUME NEW tool \in Tool, NEW asked \in Answers, Call(tool, asked)
        PROVE  /\ prompts' \in 0..MaxTurns /\ made' \in Seq(MadeCall)
               /\ DOMAIN made \subseteq DOMAIN made'
               /\ \A e \in sent' : e \in sent \/ OfSession(e)'
    <3>. DEFINE call == [tool |-> tool, prompt |-> prompts, asked |-> asked]
    <3>0. PICK e : e = Ev("decision", Len(made) + 1)  OBVIOUS
    <3>1. call \in MadeCall  BY <2>0 DEF MadeCall
    <3>2. made' = Append(made, call)  BY <2>2 DEF Call
    <3>. HIDE DEF call
    <3>3. made' \in Seq(MadeCall) /\ DOMAIN made' = 1..(Len(made) + 1)  BY <2>0, <3>1, <3>2
    <3>4. e \in SentEvent /\ IsTool(e) /\ e.of = Len(made) + 1
      BY <2>0, <3>0 DEF Ev, SentEvent, IsTool
    <3>5. OfSession(e)'  BY <2>0, <3>3, <3>4 DEF OfSession, IsTool
    <3>6. sent' \in {sent, sent \cup {e}} /\ prompts' = prompts  BY <2>2, <3>0 DEF Call, SendOut
    <3>. QED  BY <2>0, <3>3, <3>5, <3>6
  <2>3. ASSUME NEW c \in DOMAIN made, Return(c)
        PROVE  /\ prompts' \in 0..MaxTurns /\ made' \in Seq(MadeCall)
               /\ DOMAIN made \subseteq DOMAIN made'
               /\ \A e \in sent' : e \in sent \/ OfSession(e)'
    <3>0. PICK e : e = Ev("result", c)  OBVIOUS
    <3>1. e \in SentEvent /\ IsTool(e) /\ e.of = c
      BY <2>0, <3>0 DEF Ev, SentEvent, IsTool
    <3>2. made' = made /\ prompts' = prompts  BY <2>3 DEF Return
    <3>3. OfSession(e)'  BY <3>1, <3>2 DEF OfSession, IsTool
    <3>4. sent' = sent \cup {e}  BY <2>3, <3>0 DEF Return, SendOut
    <3>. QED  BY <2>0, <3>2, <3>3, <3>4
  <2>. QED  BY <2>1, <2>2, <2>3
<1>3. \A e : OfSession(e) => OfSession(e)'  BY <1>2 DEF OfSession, IsTool
<1>4. \A e \in sent' \cup window' \cup storedEvents' : OfSession(e)'
  BY <1>1, <1>2, <1>3 DEF ToolTypes
<1>. QED  BY <1>1, <1>2, <1>4 DEF ToolTypes

LEMMA VendorKeeps ==
    ASSUME ToolInv, Prompt \/ (\E tool \in Tool, asked \in Answers : Call(tool, asked))
                    \/ (\E c \in DOMAIN made : Return(c)) \/ UNCHANGED toolVars
    PROVE  ToolInv'
<1>1. UNCHANGED <<given, window, open, ledgers, unsaved, lives, storedEvents, toolCalls, changes>>
  BY VendorTypes DEF ToolInv, toolVars
<1>2. ToolTypes'
  <2>1. CASE UNCHANGED toolVars
    BY <2>1 DEF ToolInv, ToolTypes, toolVars, OfSession, IsTool
  <2>. QED  BY <2>1, VendorTypes DEF ToolInv
<1>3. UnsavedOnce' /\ RowsStored'
  BY <1>1 DEF ToolInv, UnsavedOnce, RowsStored
<1>4. Named => Named'  BY <1>1 DEF Named
<1>5. Counted => Counted'  BY <1>1 DEF Counted, Numbered, Waits, LedgerOf
<1>6. CallsExact'  BY <1>1 DEF ToolInv, CallsExact, CallsKept, EventUsedOnce
<1>. QED  BY <1>1, <1>2, <1>3, <1>4, <1>5, <1>6 DEF ToolInv

\* A new tracker: the database is as it was.
LEMMA RestartKeeps ==
    ASSUME ToolInv, Restart
    PROVE  ToolInv'
<1>1. /\ UNCHANGED <<given, prompts, made, sent, storedEvents, toolCalls, changes>>
      /\ window' = {} /\ open' = 0 /\ ledgers' = FreshLedgers /\ unsaved' = <<>> /\ lives' = lives + 1
  BY DEF Restart, vendorVars, Virtual
<1>2. DOMAIN unsaved' = {} /\ unsaved' \in Seq(Pended)  BY <1>1
<1>3. lives' \in Nat /\ lives' # 0  BY <1>1 DEF ToolInv, ToolTypes
<1>4. ToolTypes'
  <2>1. ledgers' \in [(0..MaxTurns) \X Tool -> Ledger]  BY <1>1 DEF FreshLedgers, Ledger
  <2>2. open' \in 0..MaxTurns  BY <1>1, ToolAssumption
  <2>3. \A e \in sent' \cup window' \cup storedEvents' : OfSession(e)'
    BY <1>1 DEF ToolInv, ToolTypes, OfSession, IsTool
  <2>. QED  BY <1>1, <1>2, <1>3, <2>1, <2>2, <2>3 DEF ToolInv, ToolTypes
<1>5. UnsavedOnce'  BY <1>2 DEF UnsavedOnce
<1>6. RowsStored'  BY <1>1 DEF ToolInv, RowsStored
<1>7. Named => Named'  BY <1>1, <1>2 DEF Named
<1>8. CallsExact'
  BY <1>1, <1>3 DEF ToolInv, CallsExact, CallsKept, EventUsedOnce
<1>. QED  BY <1>1, <1>3, <1>4, <1>5, <1>6, <1>7, <1>8 DEF ToolInv

\* A batch adds the events it stores to the rows.
LEMMA FlushKeeps ==
    ASSUME ToolInv, FlushTools
    PROVE  ToolInv'
<1>. DEFINE after == TableAfter(unsaved)
            n == Len(unsaved)
<1>1. /\ UNCHANGED <<given, prompts, made, sent, window, open, ledgers, lives>>
      /\ storedEvents' = storedEvents \cup {unsaved[i].event : i \in DOMAIN unsaved}
      /\ toolCalls' = after /\ unsaved' = <<>>
      /\ changes' = [c \in DOMAIN changes |-> changes[c] + ChangedBy(c, unsaved)]
  BY DEF FlushTools, vendorVars
<1>2. /\ ToolTypes /\ UnsavedOnce /\ RowsStored /\ CallsExact
      /\ given.calls => Named
      /\ ~given.calls /\ lives = 0 => Counted
  BY DEF ToolInv
<1>3. n \in Nat /\ DOMAIN unsaved = 1..n /\ unsaved \in Seq(Pended)  BY <1>2 DEF ToolTypes
<1>4. \A i \in DOMAIN unsaved : IsTool(unsaved[i].event) /\ OfSession(unsaved[i].event)
                                /\ unsaved[i] \in Pended
  BY <1>2, <1>3 DEF ToolTypes
<1>5. after \in ToolTable /\ Promotes(after, unsaved, n)
  BY <1>2, <1>3, <1>4, TableAfterFacts
<1>. HIDE DEF after, n
<1>6. DOMAIN unsaved' = {} /\ unsaved' \in Seq(Pended)  BY <1>1
<1>7. /\ Promoted(unsaved) \subseteq 1..n
      /\ \A i \in Promoted(unsaved) : unsaved[i].event \notin storedEvents
      /\ \A i \in 1..n : unsaved[i].event \in storedEvents'
      /\ storedEvents \subseteq storedEvents'
  BY <1>1, <1>3 DEF Promoted
<1>8. \A i \in 1..n : unsaved[i].event # NoEvent
  BY <1>3, <1>4, ToolAssumption DEF OfSession
<1>9. ASSUME NEW c \in 1..MaxCalls
      PROVE  /\ ChangedBy(c, unsaved) \in 0..1
             /\ ChangedBy(c, unsaved) = 1 =>
                  Ev("result", c) \in storedEvents' /\ Ev("result", c) \notin storedEvents
  <2>. DEFINE P == {i \in Promoted(unsaved) : unsaved[i].event = Ev("result", c)}
  <2>1. ChangedBy(c, unsaved) = Cardinality(P)  BY DEF ChangedBy
  <2>2. \A i, j \in P : i = j  BY <1>2, <1>3, <1>7 DEF UnsavedOnce
  <2>3. CASE P = {}  BY <2>1, <2>3, FS_EmptySet
  <2>4. CASE P # {}
    <3>1. PICK i \in P : TRUE  BY <2>4
    <3>2. P = {i}  BY <2>2, <3>1
    <3>3. Cardinality(P) = 1  BY <3>2, FS_Singleton
    <3>4. unsaved[i].event = Ev("result", c) /\ i \in Promoted(unsaved) /\ i \in 1..n  BY <1>7
    <3>. HIDE DEF P
    <3>. QED  BY <1>7, <2>1, <3>3, <3>4
  <2>. QED  BY <2>3, <2>4
<1>10. changes' \in [1..MaxCalls -> Nat] /\ \A c \in 1..MaxCalls : changes'[c] = changes[c] + ChangedBy(c, unsaved)
  <2>1. changes \in [1..MaxCalls -> Nat]  BY <1>2 DEF ToolTypes
  <2>. QED  BY <1>1, <1>9, <2>1
<1>11. ToolTypes'
  <2>1. \A e \in sent' \cup window' \cup storedEvents' : OfSession(e)'
    BY <1>1, <1>2, <1>4 DEF ToolTypes, OfSession, IsTool
  <2>. QED  BY <1>1, <1>2, <1>5, <1>6, <1>10, <2>1 DEF ToolTypes
<1>12. UnsavedOnce'  BY <1>6 DEF UnsavedOnce
<1>13. RowsStored'
  <2>1. ASSUME NEW k \in DOMAIN after, after[k].result # NoEvent
        PROVE  after[k].result \in storedEvents' /\ after[k].result.part = "result"
    <3>1. CASE k \in DOMAIN toolCalls /\ toolCalls[k].result = after[k].result
      <4>1. toolCalls[k].result \in storedEvents /\ toolCalls[k].result.part = "result"
        BY <1>2, <2>1, <3>1 DEF RowsStored
      <4>. QED  BY <1>7, <3>1, <4>1
    <3>2. ASSUME NEW i \in 1..n, unsaved[i].event = after[k].result, unsaved[i].event.part = "result"
          PROVE  after[k].result \in storedEvents' /\ after[k].result.part = "result"
      <4>1. unsaved[i].event \in storedEvents'  BY <1>7
      <4>. QED  BY <3>2, <4>1
    <3>. QED  BY <1>5, <2>1, <3>1, <3>2 DEF Promotes
  <2>2. ASSUME NEW k \in DOMAIN after, after[k].decision # NoEvent
        PROVE  after[k].decision \in storedEvents' /\ after[k].decision.part = "decision"
    <3>1. CASE k \in DOMAIN toolCalls /\ toolCalls[k].decision = after[k].decision
      <4>1. toolCalls[k].decision \in storedEvents /\ toolCalls[k].decision.part = "decision"
        BY <1>2, <2>2, <3>1 DEF RowsStored
      <4>. QED  BY <1>7, <3>1, <4>1
    <3>2. ASSUME NEW i \in 1..n, unsaved[i].event = after[k].decision, unsaved[i].event.part = "decision"
          PROVE  after[k].decision \in storedEvents' /\ after[k].decision.part = "decision"
      <4>1. unsaved[i].event \in storedEvents'  BY <1>7
      <4>. QED  BY <3>2, <4>1
    <3>. QED  BY <1>5, <2>2, <3>1, <3>2 DEF Promotes
  <2>3. ASSUME NEW c \in 1..MaxCalls, changes'[c] > 0 PROVE Ev("result", c)' \in storedEvents'
    <3>0. Ev("result", c)' = Ev("result", c)  BY DEF Ev
    <3>1. changes[c] \in Nat  BY <1>2 DEF ToolTypes
    <3>2. CASE changes[c] > 0
      <4>1. Ev("result", c) \in storedEvents  BY <1>2, <3>2 DEF RowsStored
      <4>. QED  BY <1>7, <3>0, <4>1
    <3>3. CASE ChangedBy(c, unsaved) = 1  BY <1>9, <3>0, <3>3
    <3>. QED  BY <1>9, <1>10, <2>3, <3>1, <3>2, <3>3
  <2>. QED  BY <1>1, <2>1, <2>2, <2>3 DEF RowsStored
<1>14. ASSUME given.calls PROVE Named'
  <2>1. Named  BY <1>2, <1>14
  <2>2. \A k \in DOMAIN after : after[k].result # NoEvent => k.id = after[k].result.of
    BY <1>3, <1>5, <2>1 DEF Promotes, Named
  <2>. QED  BY <1>1, <1>6, <2>2 DEF Named
<1>15. ASSUME ~given.calls, lives = 0 PROVE Counted'
  <2>1. Counted  BY <1>2, <1>15
  <2>2. \A k \in DOMAIN after : Numbered(k)
    BY <1>3, <1>5, <2>1 DEF Promotes, Counted
  <2>3. \A k \in DOMAIN after : after[k].result # NoEvent => ~Waits(k)
    BY <1>3, <1>5, <2>1 DEF Promotes, Counted
  <2>4. \A k : (Numbered(k) <=> Numbered(k)') /\ (Waits(k) <=> Waits(k)')
    BY <1>1 DEF Numbered, Waits, LedgerOf
  <2>5. \A at \in (0..MaxTurns) \X Tool :
          /\ Distinct(ledgers'[at].pending)
          /\ \A k : Contains(ledgers'[at].pending, k) => Numbered(k)' /\ <<k.turn, k.tool>> = at
    BY <1>1, <2>1, <2>4 DEF Counted
  <2>6. \A k \in DOMAIN toolCalls' : Numbered(k)' /\ (toolCalls'[k].result # NoEvent => ~Waits(k)')
    BY <1>1, <2>2, <2>3, <2>4
  <2>. QED  BY <1>6, <2>5, <2>6 DEF Counted
<1>16. EventUsedOnce'
  <2>1. ASSUME NEW k \in DOMAIN after, NEW l \in DOMAIN after, after[k].result # NoEvent,
               after[k].result = after[l].result
        PROVE  k = l
    <3>1. CASE k \in DOMAIN toolCalls /\ toolCalls[k].result = after[k].result
      <4>1. after[k].result \in storedEvents  BY <1>2, <2>1, <3>1 DEF RowsStored
      <4>2. l \in DOMAIN toolCalls /\ toolCalls[l].result = after[l].result
        BY <1>5, <1>7, <2>1, <4>1 DEF Promotes
      <4>. QED  BY <1>2, <2>1, <3>1, <4>2 DEF CallsExact, EventUsedOnce
    <3>2. ASSUME NEW i \in 1..n \cap Promoted(unsaved), unsaved[i].key = k,
                 unsaved[i].event = after[k].result
          PROVE  k = l
      <4>1. ~(l \in DOMAIN toolCalls /\ toolCalls[l].result = after[l].result)
        BY <1>2, <1>7, <2>1, <3>2 DEF RowsStored
      <4>2. PICK j \in 1..n \cap Promoted(unsaved) : unsaved[j].key = l /\ unsaved[j].event = after[l].result
        BY <1>5, <2>1, <4>1 DEF Promotes
      <4>3. i = j  BY <1>2, <1>3, <2>1, <3>2, <4>2 DEF UnsavedOnce
      <4>. QED  BY <3>2, <4>2, <4>3
    <3>. QED  BY <1>5, <2>1, <3>1, <3>2 DEF Promotes
  <2>2. ASSUME NEW k \in DOMAIN after, NEW l \in DOMAIN after, after[k].decision # NoEvent,
               after[k].decision = after[l].decision
        PROVE  k = l
    <3>1. CASE k \in DOMAIN toolCalls /\ toolCalls[k].decision = after[k].decision
      <4>1. after[k].decision \in storedEvents  BY <1>2, <2>2, <3>1 DEF RowsStored
      <4>2. l \in DOMAIN toolCalls /\ toolCalls[l].decision = after[l].decision
        BY <1>5, <1>7, <2>2, <4>1 DEF Promotes
      <4>. QED  BY <1>2, <2>2, <3>1, <4>2 DEF CallsExact, EventUsedOnce
    <3>2. ASSUME NEW i \in 1..n \cap Promoted(unsaved), unsaved[i].key = k,
                 unsaved[i].event = after[k].decision
          PROVE  k = l
      <4>1. ~(l \in DOMAIN toolCalls /\ toolCalls[l].decision = after[l].decision)
        BY <1>2, <1>7, <2>2, <3>2 DEF RowsStored
      <4>2. PICK j \in 1..n \cap Promoted(unsaved) : unsaved[j].key = l /\ unsaved[j].event = after[l].decision
        BY <1>5, <2>2, <4>1 DEF Promotes
      <4>3. i = j  BY <1>2, <1>3, <2>2, <3>2, <4>2 DEF UnsavedOnce
      <4>. QED  BY <3>2, <4>2, <4>3
    <3>. QED  BY <1>5, <2>2, <3>1, <3>2 DEF Promotes
  <2>3. \A c \in 1..MaxCalls : changes'[c] <= 1
    <3>. SUFFICES ASSUME NEW c \in 1..MaxCalls PROVE changes'[c] <= 1  OBVIOUS
    <3>1. changes[c] \in Nat /\ DOMAIN changes = 1..MaxCalls  BY <1>2 DEF ToolTypes
    <3>2. changes[c] <= 1  BY <1>2, <3>1 DEF CallsExact, EventUsedOnce
    <3>3. CASE changes[c] = 0  BY <1>9, <1>10, <3>3
    <3>4. CASE changes[c] = 1
      <4>1. Ev("result", c) \in storedEvents  BY <1>2, <3>4 DEF RowsStored
      <4>2. ChangedBy(c, unsaved) = 0  BY <1>9, <4>1
      <4>. QED  BY <1>10, <3>4, <4>2
    <3>. QED  BY <3>1, <3>2, <3>3, <3>4
  <2>4. DOMAIN changes' = 1..MaxCalls  BY <1>10
  <2>. QED  BY <1>1, <2>1, <2>2, <2>3, <2>4 DEF EventUsedOnce
<1>17. ASSUME given.calls \/ lives = 0, NEW e \in storedEvents', e.part = "result"
       PROVE  \E k \in DOMAIN after : after[k].result = e
  <2>1. CASE e \in storedEvents
    <3>1. PICK k \in DOMAIN toolCalls : toolCalls[k].result = e
      BY <1>2, <1>17, <2>1 DEF CallsExact, CallsKept
    <3>2. e # NoEvent  BY <1>2, <2>1, ToolAssumption DEF ToolTypes, OfSession
    <3>. QED  BY <1>5, <3>1, <3>2 DEF Promotes
  <2>2. CASE e \notin storedEvents
    <3>1. PICK i \in 1..n : unsaved[i].event = e  BY <1>1, <1>3, <2>2
    <3>2. i \in Promoted(unsaved)  BY <1>3, <2>2, <3>1 DEF Promoted
    <3>. DEFINE k == unsaved[i].key
    <3>3. k \in DOMAIN after /\ after[k].result # NoEvent
      BY <1>5, <1>17, <3>1, <3>2 DEF Promotes
    <3>4. ASSUME k \in DOMAIN toolCalls, toolCalls[k].result = after[k].result PROVE FALSE
      <4>1. CASE given.calls
        <5>1. k.id = e.of /\ k.id = after[k].result.of
          BY <1>2, <1>3, <3>1, <3>3, <3>4, <4>1 DEF Named
        <5>2. after[k].result \in storedEvents /\ after[k].result.part = "result"
          BY <1>2, <3>3, <3>4 DEF RowsStored
        <5>3. after[k].result \in SentEvent /\ e \in SentEvent
          BY <1>2, <1>3, <1>4, <3>1, <5>2 DEF ToolTypes, OfSession
        <5>4. after[k].result = e
          <6>. DEFINE o == after[k].result
          <6>1. o.part = e.part /\ o.of = e.of  BY <1>17, <5>1, <5>2
          <6>. HIDE DEF o
          <6>2. o \in SentEvent  BY <5>3 DEF o
          <6>. QED  BY <5>3, <6>1, <6>2 DEF SentEvent, o
        <5>. QED  BY <2>2, <5>2, <5>4
      <4>2. CASE ~given.calls
        <5>1. Counted  BY <1>2, <1>17, <4>2
        <5>. QED  BY <1>3, <1>17, <3>1, <3>3, <3>4, <5>1 DEF Counted
      <4>. QED  BY <4>1, <4>2
    <3>5. PICK j \in 1..n \cap Promoted(unsaved) :
             unsaved[j].key = k /\ unsaved[j].event = after[k].result /\ unsaved[j].event.part = "result"
      BY <1>5, <3>3, <3>4 DEF Promotes
    <3>6. unsaved[j].event = e
      <4>1. CASE given.calls
        <5>1. unsaved[j].event.of = e.of  BY <1>2, <1>3, <3>1, <3>5, <4>1 DEF Named
        <5>2. unsaved[j].event \in SentEvent /\ e \in SentEvent  BY <1>3, <1>4, <3>1 DEF OfSession
        <5>. QED  BY <1>17, <3>5, <5>1, <5>2 DEF SentEvent
      <4>2. CASE ~given.calls
        <5>1. Counted  BY <1>2, <1>17, <4>2
        <5>2. i = j  BY <1>3, <1>17, <3>1, <3>5, <5>1 DEF Counted
        <5>. QED  BY <3>1, <5>2
      <4>. QED  BY <4>1, <4>2
    <3>. QED  BY <3>3, <3>5, <3>6
  <2>. QED  BY <2>1, <2>2
<1>18. CallsKept'  BY <1>1, <1>17 DEF CallsKept
<1>. QED  BY <1>1, <1>11, <1>12, <1>13, <1>14, <1>15, <1>16, <1>18 DEF ToolInv, CallsExact

\* A ledger whose keys are of its turn and tool, each waiting once.
InOrder(l, turn, tool) ==
    /\ Distinct(l.pending)
    /\ \A k : Contains(l.pending, k) => k.id = 0 /\ k.turn = turn /\ k.tool = tool /\ k.n < l.opened

\* The key of an event: the vendor's own, or one that waited, or a new number.
LEMMA CallKeyFacts ==
    ASSUME ToolTypes, NEW e, OfSession(e), IsTool(e), NEW turn \in 0..MaxTurns,
           NEW l \in Ledger, NEW tool, tool = made[e.of].tool,
           NEW got, got = CallKey(e, turn, l)
    PROVE  /\ tool \in Tool /\ got.key \in CallId /\ got.ledger \in Ledger
           /\ given.calls => got.key.id = e.of
           /\ ~given.calls /\ InOrder(l, turn, tool) =>
                /\ InOrder(got.ledger, turn, tool)
                /\ l.opened <= got.ledger.opened
                /\ got.key.id = 0 /\ got.key.turn = turn /\ got.key.tool = tool
                /\ got.key.n < got.ledger.opened
                /\ Contains(l.pending, got.key) \/ ~(got.key.n < l.opened)
                /\ e.part = "result" => ~Contains(got.ledger.pending, got.key)
                /\ \A k : Contains(got.ledger.pending, k) =>
                     Contains(l.pending, k) \/ (k = got.key /\ ~(k.n < l.opened))
<1>0. e.of \in DOMAIN made /\ e \in SentEvent /\ e.part \in {"decision", "result"}
      /\ MaxTurns \in Nat /\ given.calls \in BOOLEAN
  BY ToolAssumption DEF OfSession, IsTool, ToolTypes
<1>1. tool \in Tool /\ e.of \in Nat
  <2>1. made \in Seq(MadeCall)  BY DEF ToolTypes
  <2>2. made[e.of] \in MadeCall  BY <1>0, <2>1
  <2>. QED  BY <1>0, <2>2 DEF MadeCall, SentEvent
<1>2. l.opened \in Nat /\ l.pending \in Seq(CallId) /\ DOMAIN l = {"opened", "pending"}
      /\ l = [opened |-> l.opened, pending |-> l.pending]
  BY DEF Ledger
<1>. DEFINE fresh == Synth(turn, tool, l.opened)
<1>3. fresh \in CallId /\ fresh.id = 0 /\ fresh.turn = turn /\ fresh.tool = tool /\ fresh.n = l.opened
  BY <1>0, <1>1, <1>2 DEF Synth, CallId
<1>4. CASE given.calls
  <2>1. got = [key |-> Identified(e.of), ledger |-> l]  BY <1>4 DEF CallKey
  <2>2. Identified(e.of) \in CallId /\ Identified(e.of).id = e.of
    BY <1>1 DEF Identified, CallId, Virtual
  <2>. QED  BY <1>1, <1>4, <2>1, <2>2
<1>5. CASE ~given.calls /\ e.part = "result" /\ l.pending # <<>>
  <2>. DEFINE key == Head(l.pending)
              rest == Tail(l.pending)
  <2>1. got = [key |-> key, ledger |-> Took(l)]  BY <1>5 DEF CallKey
  <2>2. got.key = key /\ got.ledger.pending = rest /\ got.ledger.opened = l.opened
        /\ got.ledger \in Ledger
    <3>1. rest \in Seq(CallId)  BY <1>2, <1>5
    <3>. HIDE DEF rest, key
    <3>2. Took(l) = [opened |-> l.opened, pending |-> rest]
      <4>1. Took(l) = [l EXCEPT !.pending = rest]  BY DEF Took, rest
      <4>. QED  BY <1>2, <4>1
    <3>3. got.key = key /\ got.ledger = [opened |-> l.opened, pending |-> rest]  BY <2>1, <3>2
    <3>. QED  BY <1>2, <3>1, <3>3 DEF Ledger
  <2>3. key \in CallId /\ Contains(l.pending, key)
    <3>1. key = l.pending[1] /\ 1 \in 1..Len(l.pending)  BY <1>2, <1>5
    <3>. QED  BY <1>2, <3>1 DEF Contains
  <2>4. InOrder(l, turn, tool) => Distinct(rest)
                                  /\ \A q : Contains(rest, q) <=> Contains(l.pending, q) /\ q # key
    BY <1>2, <1>5, TailContains DEF InOrder
  <2>. HIDE DEF key, rest
  <2>. QED  BY <1>1, <1>2, <1>5, <2>2, <2>3, <2>4 DEF InOrder
<1>6. CASE ~given.calls /\ e.part = "result" /\ l.pending = <<>>
  <2>1. got = [key |-> fresh, ledger |-> NextNumber(l)]
    <3>. HIDE DEF fresh
    <3>1. CallKey(e, turn, l) = [key |-> fresh, ledger |-> NextNumber(l)]
      BY <1>6 DEF CallKey, fresh
    <3>. QED  BY <3>1
  <2>. HIDE DEF fresh
  <2>2. got.key = fresh /\ got.ledger.pending = <<>> /\ got.ledger.opened = l.opened + 1
        /\ got.ledger \in Ledger
    <3>1. NextNumber(l) = [opened |-> l.opened + 1, pending |-> l.pending]  BY <1>2 DEF NextNumber
    <3>. QED  BY <1>2, <1>6, <2>1, <3>1 DEF Ledger
  <2>3. ~Contains(<<>>, fresh) /\ \A k : ~Contains(<<>>, k)  BY DEF Contains
  <2>4. Distinct(<<>>)  BY DEF Distinct
  <2>. QED  BY <1>1, <1>2, <1>3, <1>6, <2>2, <2>3, <2>4 DEF InOrder
<1>7. CASE ~given.calls /\ e.part = "decision"
  <2>. DEFINE longer == Append(l.pending, fresh)
  <2>1. got = [key |-> fresh, ledger |-> [NextNumber(l) EXCEPT !.pending = Append(@, fresh)]]
    <3>. HIDE DEF fresh
    <3>1. CallKey(e, turn, l) = [key |-> fresh, ledger |-> [NextNumber(l) EXCEPT !.pending = Append(@, fresh)]]
      BY <1>7 DEF CallKey, fresh
    <3>. QED  BY <3>1
  <2>. HIDE DEF fresh
  <2>2. got.key = fresh /\ got.ledger.pending = longer /\ got.ledger.opened = l.opened + 1
        /\ got.ledger \in Ledger
    <3>1. NextNumber(l) = [opened |-> l.opened + 1, pending |-> l.pending]  BY <1>2 DEF NextNumber
    <3>2. [NextNumber(l) EXCEPT !.pending = Append(@, fresh)] = [opened |-> l.opened + 1, pending |-> longer]
      BY <3>1, SMTT(30)
    <3>3. longer \in Seq(CallId)  BY <1>2, <1>3
    <3>4. got.key = fresh /\ got.ledger = [opened |-> l.opened + 1, pending |-> longer]
      BY <2>1, <3>2
    <3>. HIDE DEF longer
    <3>. QED  BY <1>2, <3>3, <3>4 DEF Ledger
  <2>3. InOrder(l, turn, tool) => ~Contains(l.pending, fresh)  BY <1>2, <1>3 DEF InOrder
  <2>4. InOrder(l, turn, tool) => Distinct(longer)
                                  /\ \A q : Contains(longer, q) <=> Contains(l.pending, q) \/ q = fresh
    BY <1>2, <1>3, <2>3, AppendContains DEF InOrder
  <2>. HIDE DEF longer
  <2>5. ASSUME InOrder(l, turn, tool)
        PROVE  InOrder(got.ledger, turn, tool)
    <3>1. ASSUME NEW k, Contains(longer, k)
          PROVE  k.id = 0 /\ k.turn = turn /\ k.tool = tool /\ k.n < l.opened + 1
      <4>1. CASE k = fresh  BY <1>2, <1>3, <4>1
      <4>2. CASE Contains(l.pending, k)
        <5>1. k.id = 0 /\ k.turn = turn /\ k.tool = tool /\ k.n < l.opened
          BY <2>5, <4>2 DEF InOrder
        <5>2. k \in CallId  BY <1>2, <4>2 DEF Contains
        <5>3. k.n \in Nat  BY <5>2 DEF CallId
        <5>. QED  BY <1>2, <5>1, <5>3
      <4>. QED  BY <2>4, <2>5, <3>1, <4>1, <4>2
    <3>. QED  BY <2>2, <2>4, <2>5, <3>1 DEF InOrder
  <2>. QED  BY <1>1, <1>2, <1>3, <1>7, <2>2, <2>4, <2>5
<1>. QED  BY <1>0, <1>4, <1>5, <1>6, <1>7

\* The turn of an event is one of the session.
LEMMA TurnForType ==
    ASSUME ToolTypes, NEW e, OfSession(e)
    PROVE  TurnFor(e) \in 0..MaxTurns
<1>0. MaxTurns \in Nat /\ open \in 0..MaxTurns /\ e \in SentEvent  BY ToolAssumption DEF ToolTypes, OfSession
<1>1. CASE e.part = "prompt"
  <2>1. ~IsTool(e)  BY <1>1 DEF IsTool
  <2>. QED  BY <1>0, <1>1, <2>1 DEF OfSession, TurnFor, TurnKey
<1>2. CASE e.part # "prompt"
  <2>1. IsTool(e)  BY <1>0, <1>2 DEF IsTool, SentEvent
  <2>2. made[e.of] \in MadeCall  BY <2>1 DEF ToolTypes, OfSession
  <2>3. made[e.of].prompt \in 0..MaxTurns  BY <2>2 DEF MadeCall
  <2>. QED  BY <1>0, <1>2, <2>3 DEF TurnFor, TurnKey, Virtual
<1>. QED  BY <1>1, <1>2

\* An event with a key behind the others.
LEMMA AssignedTool ==
    ASSUME ToolInv, NEW e \in sent, Receive(e), IsTool(e)
    PROVE  ToolInv'
<1>0. PICK turn, tool, l, n : turn = TurnFor(e) /\ tool = made[e.of].tool
                             /\ l = ledgers[<<turn, tool>>] /\ n = Len(unsaved)
  OBVIOUS
<1>00. PICK got : got = CallKey(e, turn, l)  OBVIOUS
<1>. DEFINE at == <<turn, tool>>
            key == got.key
            r == Rec(e, turn, key)
<1>1. /\ UNCHANGED <<given, prompts, made, sent, lives, storedEvents, toolCalls, changes>>
      /\ e \notin window /\ window' = window \cup {e} /\ open' = turn
      /\ ledgers' = [ledgers EXCEPT ![at] = got.ledger]
      /\ unsaved' = Append(unsaved, r)
  BY <1>0, <1>00 DEF Receive, Assign, vendorVars
<1>2. /\ ToolTypes /\ UnsavedOnce /\ RowsStored /\ CallsExact
      /\ given.calls => Named
      /\ ~given.calls /\ lives = 0 => Counted
  BY DEF ToolInv
<1>3. OfSession(e) /\ e \in SentEvent  BY <1>2 DEF ToolTypes, OfSession
<1>4. turn \in 0..MaxTurns  BY <1>0, <1>2, <1>3, TurnForType
<1>5. ledgers \in [(0..MaxTurns) \X Tool -> Ledger] /\ unsaved \in Seq(Pended)  BY <1>2 DEF ToolTypes
<1>6. tool \in Tool
  <2>1. made[e.of] \in MadeCall  BY <1>2, <1>3 DEF ToolTypes, OfSession
  <2>. QED  BY <1>0, <2>1 DEF MadeCall
<1>7. at \in (0..MaxTurns) \X Tool /\ l \in Ledger /\ l = ledgers[at]
  BY <1>0, <1>4, <1>5, <1>6
<1>. HIDE DEF at
<1>8. /\ key \in CallId /\ got.ledger \in Ledger
      /\ given.calls => key.id = e.of
      /\ ~given.calls /\ InOrder(l, turn, tool) =>
           /\ InOrder(got.ledger, turn, tool)
           /\ l.opened <= got.ledger.opened
           /\ key.id = 0 /\ key.turn = turn /\ key.tool = tool
           /\ key.n < got.ledger.opened
           /\ Contains(l.pending, key) \/ ~(key.n < l.opened)
           /\ e.part = "result" => ~Contains(got.ledger.pending, key)
           /\ \A k : Contains(got.ledger.pending, k) =>
                Contains(l.pending, k) \/ (k = key /\ ~(k.n < l.opened))
  BY <1>0, <1>00, <1>2, <1>3, <1>4, <1>7, CallKeyFacts
<1>9. r \in Pended /\ r.event = e /\ r.key = key  BY <1>3, <1>4, <1>8 DEF Rec, Pended
<1>. HIDE DEF r, key
<1>10. /\ n \in Nat /\ DOMAIN unsaved = 1..n /\ DOMAIN unsaved' = 1..n \cup {n + 1} /\ n + 1 \notin 1..n
       /\ unsaved' \in Seq(Pended)
       /\ \A i \in 1..n : unsaved'[i] = unsaved[i]
       /\ unsaved'[n + 1] = r
  BY <1>0, <1>1, <1>5, <1>9
<1>11. ToolTypes'
  <2>1. \A i \in DOMAIN unsaved' : IsTool(unsaved'[i].event) /\ unsaved'[i].event \in window'
    BY <1>1, <1>2, <1>9, <1>10 DEF ToolTypes
  <2>2. \A x \in sent' \cup window' \cup storedEvents' : OfSession(x)'
    BY <1>1, <1>2, <1>3 DEF ToolTypes, OfSession, IsTool
  <2>3. ledgers' \in [(0..MaxTurns) \X Tool -> Ledger]  BY <1>1, <1>5, <1>7, <1>8
  <2>. QED  BY <1>1, <1>2, <1>4, <1>10, <2>1, <2>2, <2>3 DEF ToolTypes, IsTool
<1>12. UnsavedOnce'
  <2>1. \A i \in 1..n : unsaved[i].event # e  BY <1>1, <1>2, <1>10 DEF ToolTypes
  <2>2. \A i, j \in DOMAIN unsaved' : unsaved'[i].event = unsaved'[j].event => i = j
    BY <1>2, <1>9, <1>10, <2>1 DEF UnsavedOnce
  <2>. QED  BY <2>2 DEF UnsavedOnce
<1>13. RowsStored'  BY <1>1, <1>2 DEF RowsStored, Ev
<1>14. ASSUME given.calls PROVE Named'
  <2>1. \A i \in DOMAIN unsaved' : unsaved'[i].key.id = unsaved'[i].event.of
    BY <1>2, <1>8, <1>9, <1>10, <1>14 DEF Named
  <2>. QED  BY <1>1, <1>2, <1>14, <2>1 DEF Named
<1>15. ASSUME ~given.calls, lives = 0 PROVE Counted'
  <2>1. Counted  BY <1>2, <1>15
  <2>3. ASSUME NEW k \in CallId, k.turn = turn, k.tool = tool
        PROVE  LedgerOf(k) = l /\ LedgerOf(k)' = got.ledger
    BY <1>1, <1>5, <1>7, <2>3 DEF LedgerOf, at
  <2>4. ASSUME NEW k, ~(k.turn = turn /\ k.tool = tool)
        PROVE  LedgerOf(k)' = LedgerOf(k)
    <3>1. <<k.turn, k.tool>> # at  BY <2>4 DEF at
    <3>. QED  BY <1>1, <1>5, <3>1 DEF LedgerOf
  <2>5. InOrder(l, turn, tool)
    <3>1. Distinct(l.pending)  BY <1>7, <2>1 DEF Counted
    <3>2. ASSUME NEW k, Contains(l.pending, k)
          PROVE  k.id = 0 /\ k.turn = turn /\ k.tool = tool /\ k.n < l.opened
      <4>1. Numbered(k) /\ <<k.turn, k.tool>> = at  BY <1>7, <2>1, <3>2 DEF Counted
      <4>. QED  BY <1>7, <4>1 DEF Numbered, LedgerOf, at
    <3>. QED  BY <3>1, <3>2 DEF InOrder
  <2>6. /\ InOrder(got.ledger, turn, tool)
        /\ l.opened <= got.ledger.opened /\ l.opened \in Nat /\ got.ledger.opened \in Nat
        /\ key.id = 0 /\ key.turn = turn /\ key.tool = tool
        /\ key.n < got.ledger.opened
        /\ Contains(l.pending, key) \/ ~(key.n < l.opened)
        /\ e.part = "result" => ~Contains(got.ledger.pending, key)
        /\ \A k : Contains(got.ledger.pending, k) =>
             Contains(l.pending, k) \/ (k = key /\ ~(k.n < l.opened))
    BY <1>7, <1>8, <1>15, <2>5 DEF Ledger
  <2>7. ASSUME NEW k \in CallId, Numbered(k)
        PROVE  Numbered(k)' /\ (Waits(k)' => Waits(k))
    <3>1. CASE k.turn = turn /\ k.tool = tool
      <4>1. LedgerOf(k) = l /\ LedgerOf(k)' = got.ledger  BY <2>3, <3>1
      <4>2. k.n \in Nat /\ k.n < l.opened /\ k.id = 0 /\ k.turn \in 0..MaxTurns
        BY <2>7, <4>1 DEF Numbered, CallId
      <4>3. k.n < got.ledger.opened  BY <2>6, <4>2
      <4>4. Numbered(k)'  BY <4>1, <4>2, <4>3 DEF Numbered
      <4>5. Waits(k)' => Waits(k)
        <5>. SUFFICES ASSUME Waits(k)' PROVE Waits(k)  OBVIOUS
        <5>1. Contains(got.ledger.pending, k)  BY <4>1 DEF Waits, Contains
        <5>2. Contains(l.pending, k)  BY <2>6, <4>2, <5>1
        <5>. QED  BY <4>1, <5>2 DEF Waits
      <4>. QED  BY <4>4, <4>5
    <3>2. CASE ~(k.turn = turn /\ k.tool = tool)
      <4>1. LedgerOf(k)' = LedgerOf(k)  BY <2>4, <3>2
      <4>. QED  BY <2>7, <4>1 DEF Numbered, Waits, Contains
    <3>. QED  BY <3>1, <3>2
  <2>8. LedgerOf(key) = l /\ LedgerOf(key)' = got.ledger  BY <1>8, <2>3, <2>6 DEF key
  <2>9. Waits(key) \/ ~Numbered(key)  BY <2>6, <2>8 DEF Waits, Numbered
  <2>10. Numbered(key)' /\ (e.part = "result" => ~Waits(key)')
    <3>1. Numbered(key)'  BY <1>4, <2>6, <2>8 DEF Numbered
    <3>2. ASSUME e.part = "result", Waits(key)' PROVE FALSE
      BY <2>6, <2>8, <3>2 DEF Waits, Contains
    <3>. QED  BY <3>1, <3>2
  <2>11. \A a \in (0..MaxTurns) \X Tool :
           /\ Distinct(ledgers'[a].pending)
           /\ \A k : Contains(ledgers'[a].pending, k) => Numbered(k)' /\ <<k.turn, k.tool>> = a
    <3>. SUFFICES ASSUME NEW a \in (0..MaxTurns) \X Tool
                  PROVE  /\ Distinct(ledgers'[a].pending)
                         /\ \A k : Contains(ledgers'[a].pending, k) => Numbered(k)' /\ <<k.turn, k.tool>> = a
      OBVIOUS
    <3>1. CASE a = at
      <4>1. ledgers'[a] = got.ledger  BY <1>1, <1>5, <3>1
      <4>2. Distinct(got.ledger.pending)  BY <2>6 DEF InOrder
      <4>3. ASSUME NEW k, Contains(got.ledger.pending, k)
            PROVE  Numbered(k)' /\ <<k.turn, k.tool>> = a
        <5>1. k.id = 0 /\ k.turn = turn /\ k.tool = tool /\ k.n < got.ledger.opened
          BY <2>6, <4>3 DEF InOrder
        <5>2. LedgerOf(k)' = got.ledger  BY <1>1, <1>5, <1>7, <5>1 DEF LedgerOf, at
        <5>. QED  BY <1>4, <3>1, <5>1, <5>2 DEF Numbered, at
      <4>. QED  BY <4>1, <4>2, <4>3
    <3>2. CASE a # at
      <4>1. ledgers'[a] = ledgers[a]  BY <1>1, <1>5, <3>2
      <4>2. \A k : Contains(ledgers[a].pending, k) => k \in CallId
        <5>1. ledgers[a].pending \in Seq(CallId)  BY <1>5 DEF Ledger
        <5>. QED  BY <5>1 DEF Contains
      <4>. QED  BY <2>1, <2>7, <4>1, <4>2 DEF Counted
    <3>. QED  BY <3>1, <3>2
  <2>12. DOMAIN toolCalls \subseteq CallId  BY <1>2 DEF ToolTypes, ToolTable
  <2>13. \A k \in DOMAIN toolCalls' :
           Numbered(k)' /\ (toolCalls'[k].result # NoEvent => ~Waits(k)')
    BY <1>1, <2>1, <2>7, <2>12 DEF Counted
  <2>14. ASSUME key \in DOMAIN toolCalls PROVE toolCalls[key].result = NoEvent
    BY <2>1, <2>9, <2>14 DEF Counted
  <2>15. \A i \in 1..n : unsaved[i].event.part = "result" => unsaved[i].key # key
    BY <1>10, <2>1, <2>9 DEF Counted
  <2>16. ASSUME NEW i \in DOMAIN unsaved',
              NEW k \in {unsaved'[i].key}
         PROVE  /\ Numbered(k)'
                /\ unsaved'[i].event.part = "result" =>
                     /\ ~Waits(k)'
                     /\ k \in DOMAIN toolCalls' => toolCalls'[k].result = NoEvent
                     /\ \A j \in DOMAIN unsaved' :
                          unsaved'[j].event.part = "result" /\ unsaved'[j].key = k => i = j
    <3>1. CASE i = n + 1
      <4>1. k = key /\ unsaved'[i].event = e  BY <1>9, <1>10, <3>1
      <4>2. \A j \in DOMAIN unsaved' : unsaved'[j].event.part = "result" /\ unsaved'[j].key = key => i = j
        BY <1>10, <2>15, <3>1
      <4>. QED  BY <1>1, <2>10, <2>14, <4>1, <4>2
    <3>2. CASE i \in 1..n
      <4>1. unsaved'[i] = unsaved[i] /\ i \in DOMAIN unsaved /\ k = unsaved[i].key  BY <1>10, <3>2
      <4>2. k \in CallId
        <5>1. unsaved[i] \in Pended  BY <1>5, <4>1
        <5>. QED  BY <4>1, <5>1 DEF Pended
      <4>3. Numbered(k) /\ (unsaved[i].event.part = "result" =>
              /\ ~Waits(k)
              /\ k \in DOMAIN toolCalls => toolCalls[k].result = NoEvent
              /\ \A j \in DOMAIN unsaved : unsaved[j].event.part = "result" /\ unsaved[j].key = k => i = j)
        BY <2>1, <4>1 DEF Counted
      <4>4. Numbered(k)' /\ (Waits(k)' => Waits(k))  BY <2>7, <4>2, <4>3
      <4>5. unsaved[i].event.part = "result" => k # key  BY <2>15, <3>2, <4>1
      <4>. QED  BY <1>1, <1>9, <1>10, <4>1, <4>3, <4>4, <4>5
    <3>. QED  BY <1>10, <3>1, <3>2
  <2>. QED  BY <2>11, <2>13, <2>16 DEF Counted
<1>16. CallsExact'  BY <1>1, <1>2 DEF CallsExact, CallsKept, EventUsedOnce
<1>. QED  BY <1>1, <1>11, <1>12, <1>13, <1>14, <1>15, <1>16 DEF ToolInv

\* A prompt opens its turn.
LEMMA AssignedPrompt ==
    ASSUME ToolInv, NEW e \in sent, Receive(e), ~IsTool(e)
    PROVE  ToolInv'
<1>1. /\ UNCHANGED <<given, prompts, made, sent, ledgers, unsaved, lives, storedEvents, toolCalls, changes>>
      /\ window' = window \cup {e} /\ open' = TurnFor(e)
  BY DEF Receive, Assign, vendorVars
<1>2. ToolTypes  BY DEF ToolInv
<1>3. OfSession(e)  BY <1>2 DEF ToolTypes
<1>4. TurnFor(e) \in 0..MaxTurns  BY <1>2, <1>3, TurnForType
<1>5. ToolTypes'
  <2>1. \A x \in sent' \cup window' \cup storedEvents' : OfSession(x)'
    BY <1>1, <1>2, <1>3 DEF ToolTypes, OfSession, IsTool
  <2>. QED  BY <1>1, <1>2, <1>4, <2>1 DEF ToolTypes, IsTool
<1>6. UnsavedOnce' /\ RowsStored'  BY <1>1 DEF ToolInv, UnsavedOnce, RowsStored, Ev
<1>7. Named => Named'  BY <1>1 DEF Named
<1>8. Counted => Counted'  BY <1>1 DEF Counted, Numbered, Waits, LedgerOf
<1>9. CallsExact'  BY <1>1 DEF ToolInv, CallsExact, CallsKept, EventUsedOnce
<1>. QED  BY <1>1, <1>5, <1>6, <1>7, <1>8, <1>9 DEF ToolInv

\* Every event is kept under a key that is its call's own, in a ledger, in what waits for
\* the store and in the table.
THEOREM ToolInvariant == ToolSpec => []ToolInv
<1>1. ToolInit => ToolInv  BY ToolBegins
<1>2. ToolInv /\ [ToolNext]_toolVars => ToolInv'
  <2>. SUFFICES ASSUME ToolInv, [ToolNext]_toolVars PROVE ToolInv'  OBVIOUS
  <2>1. CASE Prompt \/ (\E tool \in Tool, asked \in Answers : Call(tool, asked))
             \/ (\E c \in DOMAIN made : Return(c)) \/ UNCHANGED toolVars
    BY <2>1, VendorKeeps
  <2>2. ASSUME NEW e \in sent, Receive(e) PROVE ToolInv'
    BY <2>2, AssignedTool, AssignedPrompt
  <2>3. CASE FlushTools  BY <2>3, FlushKeeps
  <2>4. CASE Restart  BY <2>4, RestartKeeps
  <2>. QED  BY <2>1, <2>2, <2>3, <2>4 DEF ToolNext
<1>. QED  BY <1>1, <1>2, PTL DEF ToolSpec

\* For any tools and bounds, whatever the order of events, repeats and restarts: no stored
\* result disappears in another call's row while calls are identified or the tracker is not
\* lost, no event is in two rows, and no result changes its files twice.
THEOREM CallsKeptApart == ToolSpec => []CallsExact
<1>1. ToolInv => CallsExact  BY DEF ToolInv
<1>. QED  BY <1>1, ToolInvariant, PTL
-----------------------------------------------------------------------------
(* Pages and searches (SessionPages) *)

\* The keys that are compared.
Triple == Int \X Int \X Int

\* Keys are in one order.
LEMMA KeyOrder ==
    /\ \A a \in Triple : ~KeyLess(a, a)
    /\ \A a, b, c \in Triple : KeyLess(a, b) /\ KeyLess(b, c) => KeyLess(a, c)
<1>1. \A a \in Triple : ~KeyLess(a, a)
  <2>. TAKE a \in Triple
  <2>1. a[1] \in Int /\ a[2] \in Int /\ a[3] \in Int  BY DEF Triple
  <2>. QED  BY <2>1 DEF KeyLess
<1>2. \A a, b, c \in Triple : KeyLess(a, b) /\ KeyLess(b, c) => KeyLess(a, c)
  <2>. TAKE a, b, c \in Triple
  <2>1. /\ a[1] \in Int /\ a[2] \in Int /\ a[3] \in Int
        /\ b[1] \in Int /\ b[2] \in Int /\ b[3] \in Int
        /\ c[1] \in Int /\ c[2] \in Int /\ c[3] \in Int
    BY DEF Triple
  <2>. QED  BY <2>1 DEF KeyLess
<1>. QED  BY <1>1, <1>2

\* A cursor, and the types.
PageCursor == [running : BOOLEAN, sort : Nat, id : Nat]

PagesTypes ==
    /\ lines \in [Listed -> SessionLine \cup {NoLine}]
    /\ asking.kind \in {"list", "search"} /\ asking.text \in BOOLEAN
    /\ more \in BOOLEAN
    /\ times \in [Listed -> Nat]
    /\ found \subseteq Listed
    /\ steady \subseteq Listed
    /\ asking.kind = "list" => cursor = <<>> \/ \E c \in PageCursor : cursor = <<c>>
    /\ asking.kind = "search" => cursor = <<>> \/ \E n \in 1..4 : cursor = <<n>>

\* What was shown and what is still to come, of the sessions that keep still.
WalkInv ==
    asking.kind = "list" =>
        \A s \in steady :
            /\ times[s] <= 1
            /\ ~Fits(s) => times[s] = 0
            /\ Fits(s) /\ ~more => times[s] = 1
            /\ Fits(s) /\ more => (times[s] = 0 <=> Beyond(s))

\* All sessions that have the text in a source.
MatchesOf(source) == {t \in Listed : source \in MatchOf[t]}

\* What the sources that were asked have brought, of the sessions that keep still.
FoundInv ==
    asking.kind = "search" =>
        \A s \in steady :
            /\ s \in found => There(s) /\ MatchOf[s] # {}
            /\ There(s) => \A i \in 1..Asked : SearchSources[i] \in MatchOf[s] =>
                 s \in found \/ Cardinality(MatchesOf(SearchSources[i])) > ScanLimit

\* The invariant: a part for each kind of query.
PagesInv == PagesTypes /\ WalkInv /\ FoundInv /\ SearchIsComplete

\* The line of a session, and its key.
LEMMA LineFacts ==
    ASSUME PagesTypes, NEW s \in Listed
    PROVE  /\ lines[s].start \in Nat /\ lines[s].ended \in BOOLEAN /\ s \in Nat
           /\ KeyOf(s) \in Triple
<1>1. s \in Nat /\ Begins \subseteq Nat  BY PagesAssumption
<1>2. lines[s] \in SessionLine \cup {NoLine}  BY DEF PagesTypes
<1>3. lines[s].start \in Nat /\ lines[s].ended \in BOOLEAN
  <2>1. CASE lines[s] \in SessionLine
    <3>1. lines[s].start \in Begins /\ lines[s].ended \in BOOLEAN  BY <2>1 DEF SessionLine
    <3>. QED  BY <1>1, <3>1
  <2>2. CASE lines[s] = NoLine  BY <2>2 DEF NoLine
  <2>. QED  BY <1>2, <2>1, <2>2
<1>4. KeyOf(s) \in Triple  BY <1>1, <1>3 DEF KeyOf, Triple
<1>. QED  BY <1>1, <1>3, <1>4

\* What a limited query leaves out.
LEMMA FirstRowsFacts ==
    ASSUME NEW limit \in Nat \ {0}, NEW S \in SUBSET Listed, NEW order, NEW rows \in FirstRows(limit, S, order)
    PROVE  /\ rows \subseteq S
           /\ IsFiniteSet(S) /\ Cardinality(S) \in Nat /\ Cardinality(rows) \in Nat
           /\ Cardinality(rows) <= limit
           /\ \A s \in rows, t \in S \ rows : <<s, t>> \in order
           /\ \A t \in S \ rows : Cardinality(S) > limit /\ Cardinality(rows) = limit
           /\ rows = {} => S = {}
<1>1. rows \subseteq S
      /\ Cardinality(rows) = (IF Cardinality(S) < limit THEN Cardinality(S) ELSE limit)
      /\ rows \X (S \ rows) \subseteq order
  BY DEF FirstRows
<1>2. IsFiniteSet(S) /\ Cardinality(S) \in Nat
  BY PagesAssumption, FS_Subset, FS_CardinalityType
<1>3. IsFiniteSet(rows) /\ Cardinality(rows) \in Nat  BY <1>1, <1>2, FS_Subset, FS_CardinalityType
<1>4. ASSUME NEW t \in S \ rows PROVE Cardinality(rows) < Cardinality(S)
  <2>1. rows # S  OBVIOUS
  <2>. QED  BY <1>1, <1>2, <2>1, FS_Subset
<1>5. \A t \in S \ rows : Cardinality(S) > limit /\ Cardinality(rows) = limit
  BY <1>1, <1>2, <1>4
<1>6. ASSUME rows = {} PROVE S = {}
  <2>1. Cardinality(rows) = 0  BY <1>6, FS_EmptySet
  <2>. QED  BY <1>5, <1>6, <2>1
<1>. QED  BY <1>1, <1>2, <1>3, <1>5, <1>6

\* Nothing was asked.
LEMMA PagesBegin ==
    ASSUME PagesInit
    PROVE  PagesInv
<1>1. PagesTypes
  <2>1. times \in [Listed -> Nat]  BY DEF PagesInit
  <2>. QED  BY <2>1 DEF PagesInit, PagesTypes
<1>2. more = TRUE /\ cursor = <<>> /\ found = {} /\ \A s \in Listed : times[s] = 0  BY DEF PagesInit
<1>3. WalkInv  BY <1>1, <1>2 DEF WalkInv, Beyond, PagesTypes
<1>4. FoundInv  BY <1>2 DEF FoundInv, Asked
<1>. QED  BY <1>1, <1>2, <1>3, <1>4 DEF PagesInv, SearchIsComplete

\* A page shows what is on it once, and the cursor parts it from what comes later.
LEMMA ListPageKeeps ==
    ASSUME PagesInv, ListPage
    PROVE  PagesInv'
<1>1. /\ asking.kind = "list" /\ more /\ more' = (Cardinality(PageRows) > PageLimit)
      /\ UNCHANGED <<lines, events, asking, found, steady>>
  BY DEF ListPage
<1>2. PICK rows \in FirstRows(PageLimit, PageRows, PageOrder) :
         /\ times' = [s \in Listed |-> IF s \in rows THEN times[s] + 1 ELSE times[s]]
         /\ \/ rows = {} /\ cursor' = <<>>
            \/ \E last \in rows :
                 /\ (rows \ {last}) \X {last} \subseteq PageOrder
                 /\ cursor' = <<[running |-> ~lines[last].ended, sort |-> lines[last].start, id |-> last]>>
  BY DEF ListPage
<1>3. PageLimit \in Nat \ {0} /\ PageRows \subseteq Listed /\ PagesTypes /\ WalkInv
  BY PagesAssumption DEF PageRows, PagesInv
<1>4. /\ rows \subseteq PageRows
      /\ \A s \in rows, t \in PageRows \ rows : <<s, t>> \in PageOrder
      /\ \A t \in PageRows \ rows : more'
      /\ rows = {} => PageRows = {}
  <2>1. /\ rows \subseteq PageRows
        /\ \A s \in rows, t \in PageRows \ rows : <<s, t>> \in PageOrder
        /\ \A t \in PageRows \ rows : Cardinality(PageRows) > PageLimit
        /\ rows = {} => PageRows = {}
    <3>1. PageRows \in SUBSET Listed /\ PageLimit \in Nat \ {0}  BY <1>3
    <3>2. rows \in FirstRows(PageLimit, PageRows, PageOrder)  BY <1>2
    <3>. QED  BY ONLY <3>1, <3>2, FirstRowsFacts
  <2>2. more' = (Cardinality(PageRows) > PageLimit)  BY <1>1
  <2>. QED  BY ONLY <2>1, <2>2
<1>5. times \in [Listed -> Nat] /\ steady \subseteq Listed /\ found \subseteq Listed  BY <1>3 DEF PagesTypes
<1>6. times' \in [Listed -> Nat]  BY <1>2, <1>5
<1>7. \A s \in Listed : times'[s] = IF s \in rows THEN times[s] + 1 ELSE times[s]  BY <1>2
<1>8. \A s : Fits(s)' <=> Fits(s)  BY <1>1 DEF Fits, There
<1>9. ASSUME NEW s \in steady
      PROVE  /\ times[s] <= 1
             /\ ~Fits(s) => times[s] = 0
             /\ Fits(s) => (times[s] = 0 <=> Beyond(s))
             /\ times[s] \in Nat /\ s \in Listed
             /\ s \in PageRows <=> Fits(s) /\ Beyond(s)
  BY <1>1, <1>3, <1>5 DEF WalkInv, PageRows
<1>10. CASE rows = {} /\ cursor' = <<>>
  <2>1. ~more'
    <3>1. Cardinality(PageRows) = 0  BY <1>4, <1>10, FS_EmptySet
    <3>2. ~(Cardinality(PageRows) > PageLimit)  BY <1>3, <3>1
    <3>. QED  BY <1>1, <3>2
  <2>2. WalkInv'
    <3>1. \A s \in steady : times'[s] = IF Fits(s) THEN 1 ELSE 0
      <4>. TAKE s \in steady
      <4>1. s \notin PageRows  BY <1>4, <1>10
      <4>2. times'[s] = times[s]  BY <1>7, <1>9, <1>10
      <4>. QED  BY <1>9, <4>1, <4>2
    <3>. QED  BY <1>1, <1>8, <2>1, <3>1 DEF WalkInv
  <2>3. PagesTypes'  BY <1>1, <1>3, <1>6, <1>10, <2>1 DEF PagesTypes
  <2>. QED  BY <1>1, <2>2, <2>3 DEF PagesInv, FoundInv, SearchIsComplete
<1>11. ASSUME NEW last \in rows, (rows \ {last}) \X {last} \subseteq PageOrder,
              cursor' = <<[running |-> ~lines[last].ended, sort |-> lines[last].start, id |-> last]>>
       PROVE  PagesInv'
  <2>. DEFINE c == [running |-> ~lines[last].ended, sort |-> lines[last].start, id |-> last]
  <2>1. last \in Listed /\ Beyond(last)  BY <1>4 DEF PageRows
  <2>2. c \in PageCursor
    BY <1>3, <2>1, LineFacts DEF PageCursor
  <2>3. \A s \in Listed : Beyond(s)' <=> KeyLess(KeyOf(last), KeyOf(s))
    <3>1. CursorKey(c) = KeyOf(last)
      BY <1>3, <2>1, LineFacts DEF CursorKey, KeyOf
    <3>2. cursor'[1] = c /\ cursor' # <<>>  BY <1>11
    <3>. HIDE DEF c
    <3>3. \A s \in Listed : Beyond(s)' <=> KeyLess(CursorKey(c), KeyOf(s))
      BY <1>1, <3>2 DEF Beyond, KeyOf, CursorKey
    <3>. QED  BY <3>1, <3>3
  <2>4. \A s \in Listed : KeyOf(s) \in Triple  BY <1>3, LineFacts
  <2>5. \A s, t : <<s, t>> \in PageOrder => KeyLess(KeyOf(s), KeyOf(t))  BY DEF PageOrder
  <2>6. \A s \in rows : ~KeyLess(KeyOf(last), KeyOf(s))
    <3>. TAKE s \in rows
    <3>1. CASE s = last  BY <2>1, <2>4, <3>1, KeyOrder
    <3>2. CASE s # last
      <4>1. KeyLess(KeyOf(s), KeyOf(last))  BY <1>11, <2>5, <3>2
      <4>2. KeyOf(s) \in Triple /\ KeyOf(last) \in Triple  BY <1>3, <1>4, <2>1, <2>4
      <4>. QED  BY <4>1, <4>2, KeyOrder
    <3>. QED  BY <3>1, <3>2
  <2>7. \A s \in PageRows \ rows : KeyLess(KeyOf(last), KeyOf(s))  BY <1>4, <2>5
  <2>8. \A s \in Listed : ~Beyond(s) => ~KeyLess(KeyOf(last), KeyOf(s))
    <3>. SUFFICES ASSUME NEW s \in Listed, ~Beyond(s), KeyLess(KeyOf(last), KeyOf(s)) PROVE FALSE
      OBVIOUS
    <3>1. cursor # <<>> /\ ~KeyLess(CursorKey(cursor[1]), KeyOf(s))  BY DEF Beyond
    <3>2. PICK d \in PageCursor : cursor = <<d>>  BY <1>1, <1>3, <3>1 DEF PagesTypes
    <3>3. CursorKey(d) \in Triple  BY DEF PageCursor, CursorKey, Triple
    <3>4. cursor[1] = d  BY <3>2
    <3>5. KeyLess(CursorKey(d), KeyOf(last))  BY <2>1, <3>1, <3>4 DEF Beyond
    <3>. QED  BY <2>1, <2>4, <3>1, <3>3, <3>4, <3>5, KeyOrder
  <2>9. ASSUME NEW s \in steady
        PROVE  /\ times'[s] <= 1
               /\ ~Fits(s) => times'[s] = 0
               /\ Fits(s) /\ ~more' => times'[s] = 1
               /\ Fits(s) => (times'[s] = 0 <=> Beyond(s)')
    <3>1. CASE s \in rows
      <4>1. times[s] = 0 /\ Fits(s) /\ times'[s] = 1  BY <1>4, <1>7, <1>9, <3>1
      <4>. QED  BY <1>9, <2>3, <2>6, <3>1, <4>1
    <3>2. CASE s \in PageRows \ rows
      <4>1. times[s] = 0 /\ Fits(s) /\ times'[s] = 0 /\ more'  BY <1>4, <1>7, <1>9, <3>2
      <4>. QED  BY <1>9, <2>3, <2>7, <3>2, <4>1
    <3>3. CASE s \notin PageRows
      <4>1. times'[s] = times[s]  BY <1>4, <1>7, <1>9, <3>3
      <4>2. Fits(s) => ~Beyond(s) /\ ~Beyond(s)' /\ times[s] = 1  BY <1>9, <2>3, <2>8, <3>3
      <4>. QED  BY <1>9, <4>1, <4>2
    <3>. QED  BY <3>1, <3>2, <3>3
  <2>10. WalkInv'  BY <1>1, <1>8, <2>9 DEF WalkInv
  <2>11. PagesTypes'
    <3>1. more' \in BOOLEAN  BY <1>1
    <3>. HIDE DEF c
    <3>2. cursor' = <<c>>  BY <1>11 DEF c
    <3>. QED  BY <1>1, <1>3, <1>6, <2>2, <3>1, <3>2 DEF PagesTypes
  <2>. QED  BY <1>1, <2>10, <2>11 DEF PagesInv, FoundInv, SearchIsComplete
<1>. QED  BY <1>2, <1>10, <1>11

\* The next source brings the sessions in which it has the text, or as many as it may.
LEMMA SearchSourceKeeps ==
    ASSUME PagesInv, SearchSource
    PROVE  PagesInv'
<1>1. /\ asking.kind = "search" /\ more /\ Asked < 4 /\ cursor' = <<Asked + 1>>
      /\ UNCHANGED <<lines, events, asking, more, times, steady>>
  BY DEF SearchSource, SearchSources
<1>2. PagesTypes /\ FoundInv  BY DEF PagesInv
<1>3. Asked \in 0..3
  <2>1. cursor = <<>> \/ \E n \in 1..4 : cursor = <<n>>  BY <1>1, <1>2 DEF PagesTypes
  <2>. QED  BY <1>1, <2>1 DEF Asked
<1>4. PICK n \in 1..4 : n = Asked + 1  BY <1>3
<1>. DEFINE source == SearchSources[n]
<1>5. PICK rows \in FirstRows(ScanLimit, SourceRows(source), SourceOrder(source)) : found' = found \cup rows
  BY <1>4 DEF SearchSource
<1>6. ScanLimit \in Nat \ {0} /\ SourceRows(source) \subseteq Listed
  BY PagesAssumption DEF ScanLimit, SourceRows
<1>7. /\ rows \subseteq SourceRows(source)
      /\ Cardinality(SourceRows(source)) \in Nat
      /\ \A t \in SourceRows(source) \ rows : Cardinality(SourceRows(source)) > ScanLimit
  BY <1>5, <1>6, FirstRowsFacts
<1>8. Cardinality(SourceRows(source)) <= Cardinality(MatchesOf(source)) /\ Cardinality(MatchesOf(source)) \in Nat
  <2>1. MatchesOf(source) \subseteq Listed /\ SourceRows(source) \subseteq MatchesOf(source)
    BY DEF MatchesOf, SourceRows
  <2>2. IsFiniteSet(MatchesOf(source))  BY <2>1, PagesAssumption, FS_Subset
  <2>. QED  BY <2>1, <2>2, FS_Subset, FS_CardinalityType
<1>9. Asked' = n  BY <1>1, <1>4 DEF Asked
<1>10. PagesTypes'
  <2>1. found' \subseteq Listed  BY <1>2, <1>5, <1>6, <1>7 DEF PagesTypes
  <2>2. cursor' = <<n>>  BY <1>1, <1>4
  <2>. QED  BY <1>1, <1>2, <2>1, <2>2 DEF PagesTypes
<1>11. ASSUME NEW s \in steady
       PROVE  /\ s \in found' => There(s) /\ MatchOf[s] # {}
              /\ There(s) => \A i \in 1..n : SearchSources[i] \in MatchOf[s] =>
                   s \in found' \/ Cardinality(MatchesOf(SearchSources[i])) > ScanLimit
  <2>1. s \in Listed  BY <1>2 DEF PagesTypes
  <2>2. s \in rows => There(s) /\ MatchOf[s] # {}  BY <1>7 DEF SourceRows
  <2>3. s \in found => There(s) /\ MatchOf[s] # {}  BY <1>1, <1>2 DEF FoundInv
  <2>4. ASSUME There(s), NEW i \in 1..n, SearchSources[i] \in MatchOf[s], s \notin found'
        PROVE  Cardinality(MatchesOf(SearchSources[i])) > ScanLimit
    <3>1. CASE i = n
      <4>1. s \in SourceRows(source) \ rows  BY <1>5, <2>1, <2>4, <3>1 DEF SourceRows
      <4>. QED  BY <1>6, <1>7, <1>8, <3>1, <4>1
    <3>2. CASE i # n
      <4>1. i \in 1..Asked  BY <1>3, <1>4, <3>2
      <4>. QED  BY <1>1, <1>2, <1>5, <2>4, <4>1 DEF FoundInv
    <3>. QED  BY <3>1, <3>2
  <2>. QED  BY <1>5, <2>2, <2>3, <2>4
<1>12. FoundInv'
  <2>1. \A s : There(s)' <=> There(s)  BY <1>1 DEF There
  <2>2. ScanLimit' = ScanLimit /\ \A x : MatchesOf(x)' = MatchesOf(x)  BY DEF ScanLimit, MatchesOf
  <2>. QED  BY <1>1, <1>9, <1>11, <2>1 DEF FoundInv, ScanLimit, MatchesOf, SearchSources
<1>. QED  BY <1>1, <1>10, <1>12 DEF PagesInv, WalkInv, SearchIsComplete

\* The hits are the first of what was found in the dates.
LEMMA ResolveHitsKeeps ==
    ASSUME PagesInv, ResolveHits
    PROVE  PagesInv'
<1>1. /\ asking.kind = "search" /\ more /\ Asked = 4 /\ more' = FALSE
      /\ UNCHANGED <<lines, events, asking, cursor, found, steady>>
  BY DEF ResolveHits, SearchSources
<1>2. PagesTypes /\ FoundInv  BY DEF PagesInv
<1>3. PICK rows \in FirstRows(PageLimit, Hits, HitOrder) :
        times' = [s \in Listed |-> IF s \in rows THEN 1 ELSE 0]
  BY DEF ResolveHits
<1>4. PageLimit \in Nat \ {0} /\ Hits \subseteq Listed  BY <1>2, PagesAssumption DEF Hits, PagesTypes
<1>5. /\ rows \subseteq Hits
      /\ \A t \in Hits \ rows : Cardinality(Hits) > PageLimit /\ Cardinality(rows) = PageLimit
  <2>1. PICK hits, order : hits = Hits /\ order = HitOrder  OBVIOUS
  <2>2. hits \in SUBSET Listed /\ rows \in FirstRows(PageLimit, hits, order)  BY <1>3, <1>4, <2>1
  <2>3. /\ rows \subseteq hits
        /\ \A t \in hits \ rows : Cardinality(hits) > PageLimit /\ Cardinality(rows) = PageLimit
    BY ONLY <1>4, <2>2, FirstRowsFacts
  <2>. QED  BY <2>1, <2>3
<1>6. \A s \in Listed : times'[s] = IF s \in rows THEN 1 ELSE 0  BY <1>3
<1>7. {t \in Listed : times'[t] = 1} = rows  BY <1>4, <1>5, <1>6
<1>8. PagesTypes'
  <2>1. times' \in [Listed -> Nat]  BY <1>3
  <2>. QED  BY <1>1, <1>2, <2>1 DEF PagesTypes
<1>9. FoundInv'  BY <1>1, <1>2 DEF FoundInv, There, Asked
<1>10. ASSUME NEW s \in steady
       PROVE  LET fits == There(s) /\ MatchOf[s] # {} /\ lines[s].start >= asking.since IN
              /\ times'[s] = 1 => fits
              /\ fits /\ times'[s] = 0 =>
                   \/ Cardinality(rows) = PageLimit
                   \/ \A x \in MatchOf[s] : Cardinality(MatchesOf(x)) > ScanLimit
  <2>1. s \in Listed  BY <1>2 DEF PagesTypes
  <2>2. /\ s \in found => There(s) /\ MatchOf[s] # {}
        /\ There(s) => \A i \in 1..4 : SearchSources[i] \in MatchOf[s] =>
             s \in found \/ Cardinality(MatchesOf(SearchSources[i])) > ScanLimit
    BY <1>1, <1>2 DEF FoundInv
  <2>3. s \in rows => s \in found /\ lines[s].start >= asking.since  BY <1>5 DEF Hits
  <2>4. ASSUME There(s), lines[s].start >= asking.since, s \notin rows, s \in found
        PROVE  Cardinality(rows) = PageLimit
    <3>1. s \in Hits \ rows  BY <2>4 DEF Hits
    <3>. QED  BY <1>5, <3>1
  <2>5. ASSUME There(s), s \notin found, NEW x \in MatchOf[s]
        PROVE  Cardinality(MatchesOf(x)) > ScanLimit
    <3>1. x \in {SearchSources[i] : i \in DOMAIN SearchSources}  BY <2>1, PagesAssumption
    <3>2. PICK i \in 1..4 : x = SearchSources[i]  BY <3>1 DEF SearchSources
    <3>. QED  BY <2>2, <2>5, <3>2
  <2>. QED  BY <1>6, <2>1, <2>2, <2>3, <2>4, <2>5
<1>11. SearchIsComplete'
  <2>1. ASSUME NEW s \in steady'
        PROVE  (LET source(x) == {t \in Listed : x \in MatchOf[t]}
                    fits == There(s) /\ MatchOf[s] # {} /\ lines[s].start >= asking.since
                IN /\ times[s] = 1 => fits
                   /\ fits /\ times[s] = 0 =>
                        \/ Cardinality({t \in Listed : times[t] = 1}) = PageLimit
                        \/ \A x \in MatchOf[s] : Cardinality(source(x)) > ScanLimit)'
    BY <1>1, <1>7, <1>10 DEF There, MatchesOf, ScanLimit
  <2>. QED  BY <2>1 DEF SearchIsComplete
<1>. QED  BY <1>1, <1>8, <1>9, <1>11 DEF PagesInv, WalkInv

\* Whatever happens, it happens to a session that is not still any more.
LEMMA EventsKeep ==
    ASSUME PagesInv, NEW s \in Listed,
           Begin(s) \/ MoveStart(s) \/ EndLine(s) \/ Resume(s) \/ Reveal(s) \/ Vanish(s)
    PROVE  PagesInv'
<1>1. /\ more /\ steady' = steady \ {s}
      /\ UNCHANGED <<asking, cursor, more, times, found>>
  BY DEF Begin, MoveStart, EndLine, Resume, Reveal, Vanish, Happens
<1>2. PagesTypes  BY DEF PagesInv
<1>3. lines' \in [Listed -> SessionLine \cup {NoLine}] /\ \A t \in Listed \ {s} : lines'[t] = lines[t]
  <2>1. lines \in [Listed -> SessionLine \cup {NoLine}]  BY <1>2 DEF PagesTypes
  <2>2. ASSUME There(s) PROVE lines[s] \in SessionLine  BY <2>1, <2>2 DEF There
  <2>3. PICK line \in SessionLine \cup {NoLine} : lines' = [lines EXCEPT ![s] = line]
    <3>1. CASE Begin(s)
      <4>1. PICK t \in Begins, shown \in BOOLEAN :
               lines' = [lines EXCEPT ![s] = [start |-> t, ended |-> FALSE, shown |-> shown]]
        BY <3>1 DEF Begin
      <4>2. [start |-> t, ended |-> FALSE, shown |-> shown] \in SessionLine  BY DEF SessionLine
      <4>. QED  BY <4>1, <4>2
    <3>2. CASE MoveStart(s)
      <4>1. PICK t \in Begins : lines' = [lines EXCEPT ![s].start = t]  BY <3>2 DEF MoveStart
      <4>2. lines[s] \in SessionLine  BY <2>2, <3>2 DEF MoveStart
      <4>3. [lines[s] EXCEPT !.start = t] \in SessionLine  BY <4>2 DEF SessionLine
      <4>. QED  BY <2>1, <4>1, <4>3
    <3>3. CASE EndLine(s) \/ Resume(s)
      <4>1. PICK e \in BOOLEAN : lines' = [lines EXCEPT ![s].ended = e]  BY <3>3 DEF EndLine, Resume
      <4>2. lines[s] \in SessionLine  BY <2>2, <3>3 DEF EndLine, Resume
      <4>3. [lines[s] EXCEPT !.ended = e] \in SessionLine  BY <4>2 DEF SessionLine
      <4>. QED  BY <2>1, <4>1, <4>3
    <3>4. CASE Reveal(s)
      <4>1. lines[s] \in SessionLine  BY <2>2, <3>4 DEF Reveal
      <4>2. [lines[s] EXCEPT !.shown = ~@] \in SessionLine  BY <4>1 DEF SessionLine
      <4>3. lines' = [lines EXCEPT ![s] = [lines[s] EXCEPT !.shown = ~@]]  BY <2>1, <3>4 DEF Reveal
      <4>. QED  BY <4>2, <4>3
    <3>5. CASE Vanish(s)  BY <3>5 DEF Vanish
    <3>. QED  BY <3>1, <3>2, <3>3, <3>4, <3>5
  <2>. QED  BY <2>1, <2>3
<1>4. PagesTypes'  BY <1>1, <1>2, <1>3 DEF PagesTypes
<1>5. \A t \in steady' : t \in steady /\ lines'[t] = lines[t]  BY <1>1, <1>2, <1>3 DEF PagesTypes
<1>6. \A t \in steady' : (Fits(t)' <=> Fits(t)) /\ (There(t)' <=> There(t)) /\ (Beyond(t)' <=> Beyond(t))
  BY <1>1, <1>5 DEF Fits, There, Beyond, KeyOf
<1>7. WalkInv'  BY <1>1, <1>5, <1>6 DEF PagesInv, WalkInv
<1>8. FoundInv'  BY <1>1, <1>5, <1>6 DEF PagesInv, FoundInv, Asked
<1>. QED  BY <1>1, <1>4, <1>7, <1>8 DEF PagesInv, SearchIsComplete

\* What keeps still was shown once or is still to come, page after page, and was found
\* unless a source had too much, source after source.
THEOREM PagesInvariant == PagesSpec => []PagesInv
<1>1. PagesInit => PagesInv  BY PagesBegin
<1>2. PagesInv /\ [PagesNext]_pageVars => PagesInv'
  <2>. SUFFICES ASSUME PagesInv, [PagesNext]_pageVars PROVE PagesInv'  OBVIOUS
  <2>1. CASE UNCHANGED pageVars
    <3>1. PagesTypes'  BY <2>1, SMTT(30) DEF pageVars, PagesInv, PagesTypes
    <3>2. WalkInv'  BY <2>1, SMTT(30) DEF pageVars, PagesInv, WalkInv, Fits, There, Beyond, KeyOf
    <3>3. FoundInv'  BY <2>1, SMTT(30) DEF pageVars, PagesInv, FoundInv, Asked, There
    <3>4. SearchIsComplete'  BY <2>1, SMTT(30) DEF pageVars, PagesInv, SearchIsComplete, There
    <3>. QED  BY <3>1, <3>2, <3>3, <3>4 DEF PagesInv
  <2>. QED  BY <2>1, ListPageKeeps, SearchSourceKeeps, ResolveHitsKeeps, EventsKeep DEF PagesNext
<1>. QED  BY <1>1, <1>2, PTL DEF PagesSpec

\* For any sessions, limits and events: a walk through the pages shows each session that
\* fits and keeps still exactly once, whatever happens to the others, and a search misses
\* one only where its page is full or its sources had more than they are asked for.
THEOREM PagesAreComplete == PagesSpec => []PagesComplete
<1>1. PagesInv => PagesComplete
  <2>. SUFFICES ASSUME PagesInv PROVE WalkIsComplete /\ SearchIsComplete  BY DEF PagesComplete
  <2>1. WalkIsComplete
    BY DEF PagesInv, WalkInv, WalkIsComplete, PagesTypes
  <2>. QED  BY <2>1 DEF PagesInv
<1>. QED  BY <1>1, PagesInvariant, PTL
-----------------------------------------------------------------------------
(* The seconds of activity (SessionFigures) *)

\* Points that count no more than b seconds.
Point(b) == [n : 1 .. MaxPoints, ts : Nat, period : 1 .. MaxPeriods, start : Nat, value : 0 .. b]

\* The types.
FigureTypes ==
    /\ temporality \in {"delta", "cumulative", "undated", "unspecified"}
    /\ instant \in Nat \ {0}
    /\ period \in 1 .. MaxPeriods
    /\ began \in 1 .. instant
    /\ earned \in Nat
    /\ value \in 0 .. earned
    /\ points \in 0 .. MaxPoints
    /\ onWay \subseteq Point(earned)
    /\ heard \subseteq Point(earned)
    /\ watchFrom \in Nat
    /\ series \in [known : BOOLEAN, value : Nat, start : Nat]
    /\ active \in Nat \cup {NoState}
    /\ column \in Nat
    /\ skipped \in Nat

\* A point is heard once, and each has its number.
NumbersInv ==
    /\ \A p \in onWay : p.n <= points /\ p.period = period
    /\ \A p \in heard : p.n <= points
    /\ \A p, q \in onWay : p.n = q.n => p = q
    /\ \A p \in onWay, q \in heard : p.n # q.n

\* What is on its way is of the process that runs.
OnWayInv ==
    \A p \in onWay : p.start = began /\ p.value <= value

\* Only the process that runs started when it did.
PeriodsInv ==
    \A p \in heard : /\ p.start > 0 /\ p.start <= began /\ p.period <= period
                     /\ p.period = period <=> p.start = began

\* The state is the highest value of the latest process that was heard.
SeriesInv ==
    /\ series.known <=> heard # {}
    /\ series.known =>
         /\ \E p \in heard : p.start = series.start /\ p.value = series.value
         /\ \A p \in heard : p.start = series.start => p.value <= series.value
         /\ \A p \in heard : p.start <= series.start
    /\ ~series.known => skipped = 0 /\ Total = 0

\* What the state has of the running process.
CountedSoFar == IF series.known /\ series.start = began THEN series.value ELSE 0

\* What the total lacks of what was earned is at least what the running process has
\* counted and the state has not.
RoomInv == CountedSoFar <= value /\ Total + (value - CountedSoFar) <= earned

\* Cumulative points with a start, and differences.
DatedInv == OnWayInv /\ PeriodsInv /\ SeriesInv /\ RoomInv

DeltaInv == Total + Summed(OfPoints(onWay)) <= earned

\* The invariant: a part for each way to count.
FigureInv ==
    /\ FigureTypes
    /\ NumbersInv
    /\ TotalIsHeard
    /\ Dated => DatedInv
    /\ temporality = "delta" => DeltaInv
    /\ temporality = "unspecified" => Total = 0
    /\ temporality # "undated" => column <= earned

\* Summed is the last of the running sums.
LEMMA SumOfIsLast ==
    ASSUME NEW s \in Seq(Int)
    PROVE  \E f : RunningSums(f, s) /\ Summed(s) = f[Len(s)]
<1>1. PICK f : /\ RunningSums(f, s)
               /\ f = CHOOSE h : h = [n \in 0 .. Len(s) |-> IF n = 0 THEN 0 ELSE h[n - 1] + s[n]]
  BY SumsByRecursion
<1>2. Summed(s) = f[Len(s)]  BY <1>1 DEF Summed
<1>. QED  BY <1>1, <1>2

\* A sum changes as much as the one element that does.
LEMMA SumOfChange ==
    ASSUME NEW s \in Seq(Int), NEW t \in Seq(Int), Len(t) = Len(s), NEW k \in 1 .. Len(s),
           \A i \in 1 .. Len(s) : i # k => t[i] = s[i]
    PROVE  Summed(t) = Summed(s) + (t[k] - s[k])
<1>1. PICK f : RunningSums(f, s) /\ Summed(s) = f[Len(s)]  BY SumOfIsLast
<1>2. PICK g : RunningSums(g, t) /\ Summed(t) = g[Len(t)]  BY SumOfIsLast
<1>3. /\ f \in [0 .. Len(s) -> Int] /\ f[0] = 0
      /\ g \in [0 .. Len(s) -> Int] /\ g[0] = 0
      /\ \A i \in 1 .. Len(s) : f[i] = f[i - 1] + s[i] /\ g[i] = g[i - 1] + t[i]
  BY <1>1, <1>2 DEF RunningSums
<1>. DEFINE d == t[k] - s[k]
            S == {n \in Nat : n <= Len(s) => g[n] = IF n < k THEN f[n] ELSE f[n] + d}
<1>4. d \in Int /\ t[k] = s[k] + d /\ k \in Nat \ {0} /\ Len(s) \in Nat  OBVIOUS
<1>. HIDE DEF d
<1>5. 0 \in S  BY <1>3, <1>4
<1>6. ASSUME NEW n \in Nat, n \in S PROVE n + 1 \in S
  <2>. SUFFICES ASSUME n + 1 <= Len(s)
                PROVE g[n + 1] = IF n + 1 < k THEN f[n + 1] ELSE f[n + 1] + d
    OBVIOUS
  <2>1. n + 1 \in 1 .. Len(s) /\ n + 1 - 1 = n /\ n \in 0 .. Len(s)  OBVIOUS
  <2>2. f[n + 1] = f[n] + s[n + 1] /\ g[n + 1] = g[n] + t[n + 1]  BY <1>3, <2>1
  <2>3. f[n] \in Int /\ s[n + 1] \in Int
    <3>1. f[n] \in Int  BY <1>3, <2>1
    <3>2. s[n + 1] \in Int
      <4>. HIDE <1>6
      <4>1. s \in [1 .. Len(s) -> Int]  OBVIOUS
      <4>. QED  BY <2>1, <4>1
    <3>. QED  BY <3>1, <3>2
  <2>4. g[n] = IF n < k THEN f[n] ELSE f[n] + d  BY <1>6
  <2>5. t[n + 1] = IF n + 1 = k THEN s[n + 1] + d ELSE s[n + 1]  BY <1>4, <2>1
  <2>6. n \in Nat /\ k \in Nat  BY <1>4
  <2>7. CASE n + 1 < k
    <3>1. n < k /\ n + 1 # k  BY ONLY <2>6, <2>7
    <3>. QED  BY ONLY <2>2, <2>4, <2>5, <2>7, <3>1
  <2>8. CASE n + 1 = k
    <3>1. n < k /\ ~(n + 1 < k)  BY ONLY <2>6, <2>8
    <3>. QED  BY ONLY <1>4, <2>2, <2>3, <2>4, <2>5, <2>8, <3>1
  <2>9. CASE n + 1 > k
    <3>1. ~(n < k) /\ ~(n + 1 < k) /\ n + 1 # k  BY ONLY <2>6, <2>9
    <3>. QED  BY ONLY <1>4, <2>2, <2>3, <2>4, <2>5, <3>1, SMTT(30)
  <2>. QED  BY ONLY <2>6, <2>7, <2>8, <2>9
<1>7. \A n \in Nat : n \in S
  <2>. HIDE DEF S
  <2>. QED  BY <1>5, <1>6, SetInduction
<1>8. Len(s) \in S  BY <1>4, <1>7
<1>9. g[Len(s)] = f[Len(s)] + d  BY <1>4, <1>8
<1>. QED  BY <1>1, <1>2, <1>9 DEF d

\* The sum of numbers is a number, not below zero if none is, and that of zeros is zero.
LEMMA SumOfNumbers ==
    ASSUME NEW s \in Seq(Int)
    PROVE  /\ Summed(s) \in Int
           /\ (\A i \in 1 .. Len(s) : s[i] >= 0) => Summed(s) >= 0
           /\ (\A i \in 1 .. Len(s) : s[i] = 0) => Summed(s) = 0
<1>1. PICK f : RunningSums(f, s) /\ Summed(s) = f[Len(s)]  BY SumOfIsLast
<1>2. /\ f \in [0 .. Len(s) -> Int] /\ f[0] = 0 /\ Len(s) \in Nat
      /\ \A i \in 1 .. Len(s) : f[i] = f[i - 1] + s[i]
  BY <1>1 DEF RunningSums
<1>3. Summed(s) \in Int  BY <1>1, <1>2
<1>4. ASSUME \A i \in 1 .. Len(s) : s[i] = 0 PROVE Summed(s) = 0
  <2>. DEFINE S == {n \in Nat : n <= Len(s) => f[n] = 0}
  <2>1. 0 \in S  BY <1>2
  <2>2. ASSUME NEW n \in Nat, n \in S PROVE n + 1 \in S
    <3>. SUFFICES ASSUME n + 1 <= Len(s) PROVE f[n + 1] = 0  OBVIOUS
    <3>1. n + 1 \in 1 .. Len(s) /\ n + 1 - 1 = n  BY <1>2
    <3>2. f[n + 1] = f[n] + s[n + 1]  BY <1>2, <3>1
    <3>. QED  BY <1>4, <2>2, <3>1, <3>2
  <2>3. \A n \in Nat : n \in S
    <3>. HIDE DEF S
    <3>. QED  BY <2>1, <2>2, SetInduction
  <2>. QED  BY <1>1, <1>2, <2>3
<1>5. ASSUME \A i \in 1 .. Len(s) : s[i] >= 0 PROVE Summed(s) >= 0
  <2>. DEFINE S == {n \in Nat : n <= Len(s) => f[n] >= 0}
  <2>1. 0 \in S  BY <1>2
  <2>2. ASSUME NEW n \in Nat, n \in S PROVE n + 1 \in S
    <3>. SUFFICES ASSUME n + 1 <= Len(s) PROVE f[n + 1] >= 0  OBVIOUS
    <3>1. n + 1 \in 1 .. Len(s) /\ n + 1 - 1 = n /\ n \in 0 .. Len(s)  BY <1>2
    <3>2. f[n + 1] = f[n] + s[n + 1]  BY <1>2, <3>1
    <3>5. f[n] \in Int  BY <1>2, <3>1
    <3>3. s[n + 1] >= 0 /\ f[n] >= 0  BY <1>5, <2>2, <3>1
    <3>4. s[n + 1] \in Int
      <4>. HIDE <2>2
      <4>1. s \in [1 .. Len(s) -> Int]  OBVIOUS
      <4>. QED  BY <3>1, <4>1
    <3>. QED  BY <3>2, <3>3, <3>4, <3>5
  <2>3. \A n \in Nat : n \in S
    <3>. HIDE DEF S
    <3>. QED  BY <2>1, <2>2, SetInduction
  <2>. QED  BY <1>1, <1>2, <2>3
<1>. QED  BY <1>3, <1>4, <1>5

\* The highest value of a set of points, where one has it.
LEMMA HighestIs ==
    ASSUME NEW b \in Nat, NEW S \in SUBSET Point(b), NEW p \in S, \A q \in S : q.value <= p.value
    PROVE  Highest(S) = p.value
<1>. DEFINE V == {q.value : q \in S}
<1>1. p.value \in V /\ S # {} /\ V \subseteq 0 .. b  BY DEF Point
<1>2. \A v \in V : v <= p.value  OBVIOUS
<1>3. Max(V) = p.value
  <2>. HIDE DEF V
  <2>1. \E x \in V : \A y \in V : x >= y  BY <1>1, <1>2
  <2>2. Max(V) \in V /\ \A y \in V : Max(V) >= y  BY <2>1 DEF Max
  <2>3. PICK m : m = Max(V)  OBVIOUS
  <2>4. PICK x : x = p.value  OBVIOUS
  <2>5. m \in 0 .. b /\ x \in 0 .. b /\ m >= x /\ m <= x  BY <1>1, <1>2, <2>2, <2>3, <2>4
  <2>. QED  BY <2>3, <2>4, <2>5
<1>. QED  BY <1>1, <1>3 DEF Highest

\* It is a number.
LEMMA HighestType ==
    ASSUME NEW b \in Nat, NEW S \in SUBSET Point(b)
    PROVE  Highest(S) \in Int /\ Highest(S) >= 0 /\ (S = {} => Highest(S) = 0)
<1>1. CASE S = {}  BY <1>1 DEF Highest
<1>2. CASE S # {}
  <2>. DEFINE V == {q.value : q \in S}
  <2>1. V \in SUBSET (0 .. b) /\ V # {}  BY <1>2 DEF Point
  <2>2. Max(V) \in Int /\ Max(V) >= 0
    <3>. HIDE DEF V
    <3>1. Max(V) \in V  BY <2>1, MaxOfBounded
    <3>2. \A v \in V : v \in Int /\ v >= 0  BY <2>1
    <3>. QED  BY <3>1, <3>2
  <2>. QED  BY <1>2, <2>2 DEF Highest
<1>. QED  BY <1>1, <1>2

\* One number for each process, and for each point.
LEMMA HighestsType ==
    ASSUME NEW b \in Nat, NEW S \in SUBSET Point(b)
    PROVE  /\ OfPeriods(S) \in Seq(Int) /\ Len(OfPeriods(S)) = MaxPeriods
           /\ OfPoints(S) \in Seq(Int) /\ Len(OfPoints(S)) = MaxPoints
           /\ Summed(OfPeriods(S)) \in Int /\ Summed(OfPoints(S)) \in Int
           /\ Summed(OfPoints(S)) >= 0
           /\ S = {} => Summed(OfPeriods(S)) = 0 /\ Summed(OfPoints(S)) = 0
<1>1. MaxPeriods \in Nat /\ MaxPoints \in Nat  BY FigureAssumption
<1>2. ASSUME NEW k PROVE /\ Highest({p \in S : p.period = k}) \in Int
                         /\ Highest({p \in S : p.n = k}) \in Int
                         /\ Highest({p \in S : p.n = k}) >= 0
                         /\ S = {} => /\ Highest({p \in S : p.period = k}) = 0
                                      /\ Highest({p \in S : p.n = k}) = 0
  <2>1. {p \in S : p.period = k} \in SUBSET Point(b) /\ {p \in S : p.n = k} \in SUBSET Point(b)
    OBVIOUS
  <2>2. S = {} => {p \in S : p.period = k} = {} /\ {p \in S : p.n = k} = {}  OBVIOUS
  <2>. QED  BY <2>1, <2>2, HighestType
<1>3. OfPeriods(S) \in Seq(Int) /\ Len(OfPeriods(S)) = MaxPeriods
  <2>1. OfPeriods(S) \in [1 .. MaxPeriods -> Int]
    <3>1. \A k : Highest({p \in S : p.period = k}) \in Int  BY <1>2
    <3>. QED  BY <3>1 DEF OfPeriods
  <2>. QED  BY <1>1, <2>1
<1>4. OfPoints(S) \in Seq(Int) /\ Len(OfPoints(S)) = MaxPoints
  <2>1. OfPoints(S) \in [1 .. MaxPoints -> Int]
    <3>1. \A k : Highest({p \in S : p.n = k}) \in Int  BY <1>2
    <3>. QED  BY <3>1 DEF OfPoints
  <2>. QED  BY <1>1, <2>1
<1>5. ASSUME S = {} PROVE Summed(OfPeriods(S)) = 0 /\ Summed(OfPoints(S)) = 0
  <2>1. \A k \in 1 .. MaxPeriods : OfPeriods(S)[k] = 0  BY <1>2, <1>5 DEF OfPeriods
  <2>2. \A k \in 1 .. MaxPoints : OfPoints(S)[k] = 0  BY <1>2, <1>5 DEF OfPoints
  <2>. QED  BY <1>3, <1>4, <2>1, <2>2, SumOfNumbers
<1>6. Summed(OfPoints(S)) >= 0
  <2>1. \A k \in 1 .. MaxPoints : OfPoints(S)[k] >= 0  BY <1>2 DEF OfPoints
  <2>. QED  BY <1>4, <2>1, SumOfNumbers
<1>. QED  BY <1>3, <1>4, <1>5, <1>6, SumOfNumbers

\* One more point raises the highest of its process, and of itself.
LEMMA HeardMore ==
    ASSUME NEW b \in Nat, NEW S \in SUBSET Point(b), NEW p \in Point(b),
           NEW high \in Nat,
           (\A q \in S : q.period # p.period) => high = 0,
           \A q \in S : q.period = p.period => q.value <= high,
           (\A q \in S : q.period # p.period) \/ \E q \in S : q.period = p.period /\ q.value = high
    PROVE  Summed(OfPeriods(S \cup {p}))
             = Summed(OfPeriods(S)) + (IF p.value > high THEN p.value - high ELSE 0)
<1>. DEFINE T == S \cup {p}
            In(U, k) == {q \in U : q.period = k}
<1>1. T \in SUBSET Point(b) /\ p.period \in 1 .. MaxPeriods /\ p.value \in Nat  BY DEF Point
<1>2. \A k : k # p.period => In(T, k) = In(S, k)  OBVIOUS
<1>3. In(S, p.period) \in SUBSET Point(b) /\ In(T, p.period) \in SUBSET Point(b)  BY <1>1
<1>4. Highest(In(S, p.period)) = high
  <2>1. CASE \A q \in S : q.period # p.period
    <3>1. In(S, p.period) = {}  BY <2>1
    <3>. QED  BY <2>1, <3>1 DEF Highest
  <2>2. CASE \E q \in S : q.period = p.period /\ q.value = high
    <3>1. PICK q \in In(S, p.period) : q.value = high  BY <2>2
    <3>2. \A x \in In(S, p.period) : x.value <= q.value  BY <3>1
    <3>3. Highest(In(S, p.period)) = q.value
      <4>. HIDE DEF In
      <4>. QED  BY <1>3, <3>1, <3>2, HighestIs
    <3>. QED  BY <3>1, <3>3
  <2>. QED  BY <2>1, <2>2
<1>5. Highest(In(T, p.period)) = IF p.value > high THEN p.value ELSE high
  <2>1. In(T, p.period) = In(S, p.period) \cup {p}  OBVIOUS
  <2>2. \A q \in In(S, p.period) : q.value <= high  OBVIOUS
  <2>3. CASE p.value >= high
    <3>1. p \in In(T, p.period) /\ \A q \in In(T, p.period) : q.value <= p.value
      <4>1. \A q \in In(S, p.period) : q.value \in Nat  BY <1>3 DEF Point
      <4>. HIDE DEF In
      <4>2. PICK v \in Nat : v = p.value  BY <1>1
      <4>3. \A q \in In(S, p.period) : q.value <= v  BY <2>2, <2>3, <4>1, <4>2
      <4>4. p \in In(T, p.period)  BY <2>1
      <4>5. ASSUME NEW q \in In(T, p.period) PROVE q.value <= p.value
        <5>1. q = p \/ q \in In(S, p.period)  BY <2>1
        <5>2. p.value <= p.value  BY <4>2
        <5>. QED  BY <4>2, <4>3, <5>1, <5>2
      <4>. QED  BY <4>4, <4>5
    <3>2. Highest(In(T, p.period)) = p.value
      <4>. HIDE DEF In
      <4>. QED  BY <1>3, <3>1, HighestIs
    <3>. QED  BY <1>1, <2>3, <3>2
  <2>4. CASE p.value < high
    <3>0. high # 0  BY <1>1, <2>4
    <3>1. PICK q \in In(S, p.period) : q.value = high  BY <3>0
    <3>2. q \in In(T, p.period) /\ \A x \in In(T, p.period) : x.value <= q.value
      <4>. HIDE DEF In
      <4>1. q \in In(T, p.period)  BY <2>1, <3>1
      <4>2. ASSUME NEW x \in In(T, p.period) PROVE x.value <= q.value
        <5>1. x = p \/ x \in In(S, p.period)  BY <2>1
        <5>2. p.value <= high  BY <1>1, <2>4
        <5>. QED  BY <2>2, <3>1, <5>1, <5>2
      <4>. QED  BY <4>1, <4>2
    <3>3. Highest(In(T, p.period)) = q.value
      <4>. HIDE DEF In
      <4>. QED  BY <1>3, <3>2, HighestIs
    <3>. QED  BY <1>1, <2>4, <3>1, <3>3
  <2>. QED  BY <1>1, <2>3, <2>4
<1>6. /\ OfPeriods(S) \in Seq(Int) /\ Len(OfPeriods(S)) = MaxPeriods
      /\ OfPeriods(T) \in Seq(Int) /\ Len(OfPeriods(T)) = MaxPeriods
      /\ Summed(OfPeriods(S)) \in Int
  BY <1>1, HighestsType
<1>7. \A k \in 1 .. MaxPeriods : k # p.period => OfPeriods(T)[k] = OfPeriods(S)[k]
  BY <1>2 DEF OfPeriods
<1>8. OfPeriods(S)[p.period] = high /\ OfPeriods(T)[p.period] = IF p.value > high THEN p.value ELSE high
  BY <1>1, <1>4, <1>5 DEF OfPeriods
<1>9. Summed(OfPeriods(T)) = Summed(OfPeriods(S)) + (OfPeriods(T)[p.period] - OfPeriods(S)[p.period])
  <2>1. PICK s, t, k : s = OfPeriods(S) /\ t = OfPeriods(T) /\ k = p.period  OBVIOUS
  <2>. HIDE DEF T
  <2>2. /\ s \in Seq(Int) /\ t \in Seq(Int) /\ Len(t) = Len(s) /\ k \in 1 .. Len(s)
        /\ \A i \in 1 .. Len(s) : i # k => t[i] = s[i]
    BY <1>1, <1>6, <1>7, <2>1
  <2>3. Summed(t) = Summed(s) + (t[k] - s[k])  BY ONLY <2>2, SumOfChange
  <2>. QED  BY <2>1, <2>3
<1>. QED  BY <1>1, <1>6, <1>8, <1>9

\* A point that was not there adds its value.
LEMMA PointMore ==
    ASSUME NEW b \in Nat, NEW S \in SUBSET Point(b), NEW p \in Point(b),
           \A q \in S : q.n # p.n
    PROVE  Summed(OfPoints(S \cup {p})) = Summed(OfPoints(S)) + p.value
<1>. DEFINE T == S \cup {p}
            In(U, k) == {q \in U : q.n = k}
<1>1. T \in SUBSET Point(b) /\ p.n \in 1 .. MaxPoints /\ p.value \in Nat  BY DEF Point
<1>2. \A k : k # p.n => In(T, k) = In(S, k)  OBVIOUS
<1>3. In(S, p.n) = {} /\ In(T, p.n) = {p}  OBVIOUS
<1>4. Highest(In(S, p.n)) = 0  BY <1>3 DEF Highest
<1>5. Highest(In(T, p.n)) = p.value
  <2>1. {p} \in SUBSET Point(b) /\ p \in {p} /\ \A q \in {p} : q.value <= p.value  BY <1>1
  <2>2. Highest({p}) = p.value  BY ONLY <2>1, b \in Nat, HighestIs
  <2>. QED  BY <1>3, <2>2
<1>6. /\ OfPoints(S) \in Seq(Int) /\ Len(OfPoints(S)) = MaxPoints
      /\ OfPoints(T) \in Seq(Int) /\ Len(OfPoints(T)) = MaxPoints
      /\ Summed(OfPoints(S)) \in Int
  BY <1>1, HighestsType
<1>7. \A k \in 1 .. MaxPoints : k # p.n => OfPoints(T)[k] = OfPoints(S)[k]
  BY <1>2 DEF OfPoints
<1>8. OfPoints(S)[p.n] = 0 /\ OfPoints(T)[p.n] = p.value
  BY <1>1, <1>4, <1>5 DEF OfPoints
<1>9. Summed(OfPoints(T)) = Summed(OfPoints(S)) + (OfPoints(T)[p.n] - OfPoints(S)[p.n])
  <2>1. PICK s, t, k : s = OfPoints(S) /\ t = OfPoints(T) /\ k = p.n  OBVIOUS
  <2>. HIDE DEF T
  <2>2. /\ s \in Seq(Int) /\ t \in Seq(Int) /\ Len(t) = Len(s) /\ k \in 1 .. Len(s)
        /\ \A i \in 1 .. Len(s) : i # k => t[i] = s[i]
    BY <1>1, <1>6, <1>7, <2>1
  <2>3. Summed(t) = Summed(s) + (t[k] - s[k])  BY ONLY <2>2, SumOfChange
  <2>. QED  BY <2>1, <2>3
<1>. QED  BY <1>1, <1>6, <1>8, <1>9

\* The invariant at the start, and in each step.
LEMMA FiguresBegin == FigureInit => FigureInv
<1>. SUFFICES ASSUME FigureInit PROVE FigureInv  OBVIOUS
<1>. USE DEF FigureInit
<1>1. MaxPeriods \in Nat \ {0} /\ MaxPoints \in Nat  BY FigureAssumption
<1>2. FigureTypes  BY <1>1 DEF FigureTypes, NoState, Unheard
<1>3. {} \in SUBSET Point(0)  OBVIOUS
<1>4. Summed(OfPeriods({})) = 0 /\ Summed(OfPoints({})) = 0  BY <1>3, HighestsType
<1>5. Total = 0 /\ CountedSoFar = 0  BY DEF Total, CountedSoFar, Unheard
<1>6. TotalIsHeard  BY <1>4, <1>5 DEF TotalIsHeard
<1>7. DatedInv
  BY <1>5 DEF DatedInv, OnWayInv, PeriodsInv, SeriesInv, RoomInv, Unheard
<1>8. DeltaInv  BY <1>4, <1>5 DEF DeltaInv
<1>9. NumbersInv  BY DEF NumbersInv
<1>. QED  BY <1>2, <1>5, <1>6, <1>7, <1>8, <1>9 DEF FigureInv

\* A point may hold more where more was earned.
LEMMA PointGrows ==
    ASSUME NEW b \in Nat, NEW c \in Nat, b <= c
    PROVE  Point(b) \subseteq Point(c)
<1>1. 0 .. b \subseteq 0 .. c  OBVIOUS
<1>. QED  BY <1>1 DEF Point

\* Numbers.
LEMMA FigureNumbers ==
    ASSUME FigureTypes
    PROVE  /\ Total \in Nat /\ CountedSoFar \in Nat /\ value \in Nat /\ earned \in Nat /\ value <= earned
           /\ instant \in Nat \ {0} /\ began \in Nat \ {0} /\ began <= instant
           /\ period \in Nat \ {0} /\ points \in Nat
           /\ Summed(OfPoints(onWay)) \in Nat /\ Summed(OfPoints(heard)) \in Int
           /\ Summed(OfPeriods(heard)) \in Int /\ skipped \in Nat
<1>1. earned \in Nat /\ onWay \in SUBSET Point(earned) /\ heard \in SUBSET Point(earned)
  BY DEF FigureTypes
<1>2. Total \in Nat  BY DEF Total, FigureTypes, NoState
<1>3. CountedSoFar \in Nat  BY DEF CountedSoFar, FigureTypes
<1>4. Summed(OfPoints(onWay)) \in Nat /\ Summed(OfPoints(heard)) \in Int /\ Summed(OfPeriods(heard)) \in Int
  BY <1>1, HighestsType
<1>5. /\ value \in Nat /\ value <= earned
      /\ instant \in Nat \ {0} /\ began \in Nat \ {0} /\ began <= instant
      /\ period \in Nat \ {0} /\ points \in Nat /\ skipped \in Nat
  BY FigureAssumption DEF FigureTypes
<1>. QED  BY <1>1, <1>2, <1>3, <1>4, <1>5

LEMMA ExportKeeps ==
    ASSUME FigureInv, NEW spell \in Spells, Export(spell)
    PROVE  FigureInv'
<1>1. /\ points < MaxPoints /\ points' = points + 1 /\ instant' = instant + 1
      /\ value' = value + spell /\ earned' = earned + spell
      /\ UNCHANGED <<temporality, period, began, watchFrom, series, active, column, stops, heard, skipped>>
  BY DEF Export
<1>2. PICK p : /\ onWay' = onWay \cup {p}
               /\ p = [n |-> points', ts |-> instant', period |-> period,
                       start |-> IF temporality = "undated" THEN 0 ELSE began,
                       value |-> IF temporality = "delta" THEN spell ELSE value']
  BY DEF Export
<1>3. FigureTypes /\ NumbersInv /\ TotalIsHeard  BY DEF FigureInv
<1>4. /\ Total \in Nat /\ CountedSoFar \in Nat /\ value \in Nat /\ earned \in Nat /\ value <= earned
      /\ instant \in Nat \ {0} /\ began \in Nat \ {0} /\ began <= instant
      /\ period \in Nat \ {0} /\ points \in Nat
      /\ Summed(OfPoints(onWay)) \in Nat
  BY <1>3, FigureNumbers
<1>5. spell \in Nat /\ MaxPoints \in Nat /\ MaxPeriods \in Nat  BY FigureAssumption
<1>6. earned' \in Nat /\ Point(earned) \subseteq Point(earned') /\ p \in Point(earned')
  <2>1. earned' \in Nat /\ earned <= earned' /\ value' \in 0 .. earned' /\ spell \in 0 .. earned'
    BY <1>1, <1>4, <1>5
  <2>2. p.n \in 1 .. MaxPoints /\ p.ts \in Nat /\ p.period \in 1 .. MaxPeriods /\ p.start \in Nat
    BY <1>1, <1>2, <1>3, <1>4, <1>5 DEF FigureTypes
  <2>3. p \in Point(earned')  BY <1>2, <2>1, <2>2 DEF Point
  <2>. QED  BY <1>4, <2>1, <2>3, PointGrows
<1>7. FigureTypes'
  <2>1. onWay' \subseteq Point(earned') /\ heard' \subseteq Point(earned')
    BY <1>1, <1>2, <1>3, <1>6 DEF FigureTypes
  <2>2. points' \in 0 .. MaxPoints /\ value' \in 0 .. earned' /\ began' \in 1 .. instant'
        /\ instant' \in Nat \ {0}
    BY <1>1, <1>4, <1>5
  <2>. QED  BY <1>1, <1>3, <1>6, <2>1, <2>2 DEF FigureTypes
<1>8. NumbersInv'
  <2>1. p.n = points + 1 /\ p.period = period  BY <1>1, <1>2
  <2>2. \A q \in onWay \cup heard : q.n \in Nat /\ q.n <= points  BY <1>3 DEF NumbersInv, FigureTypes, Point
  <2>. QED  BY <1>1, <1>2, <1>3, <1>4, <2>1, <2>2 DEF NumbersInv
<1>9. Total' = Total /\ CountedSoFar' = CountedSoFar /\ (Dated' <=> Dated)  BY <1>1 DEF Total, CountedSoFar, Dated
<1>10. TotalIsHeard'  BY <1>1, <1>3, <1>9 DEF TotalIsHeard
<1>11. ASSUME Dated PROVE DatedInv'
  <2>1. DatedInv  BY <1>11 DEF FigureInv
  <2>2. p.start = began /\ p.value = value + spell  BY <1>1, <1>2, <1>11 DEF Dated
  <2>3. OnWayInv'
    <3>1. \A q \in onWay : q.value \in Nat /\ q.value <= value /\ q.start = began
      BY <1>3, <2>1 DEF DatedInv, OnWayInv, FigureTypes, Point
    <3>. QED  BY <1>1, <1>2, <1>4, <1>5, <2>2, <3>1 DEF OnWayInv
  <2>4. PeriodsInv' /\ SeriesInv'  BY <1>1, <1>9, <2>1 DEF DatedInv, PeriodsInv, SeriesInv
  <2>5. RoomInv'  BY <1>1, <1>4, <1>5, <1>9, <2>1 DEF DatedInv, RoomInv
  <2>. QED  BY <2>3, <2>4, <2>5 DEF DatedInv
<1>12. ASSUME temporality = "delta" PROVE DeltaInv'
  <2>1. p.value = spell /\ p.n = points + 1  BY <1>1, <1>2, <1>12
  <2>2. onWay \in SUBSET Point(earned')  BY <1>3, <1>6 DEF FigureTypes
  <2>3. \A q \in onWay : q.n # p.n
    <3>1. \A q \in onWay : q.n \in Nat /\ q.n <= points  BY <1>3 DEF NumbersInv, FigureTypes, Point
    <3>. QED  BY <1>4, <2>1, <3>1
  <2>4. Summed(OfPoints(onWay')) = Summed(OfPoints(onWay)) + spell
    <3>1. PICK b : b = earned'  OBVIOUS
    <3>2. Summed(OfPoints(onWay \cup {p})) = Summed(OfPoints(onWay)) + p.value
      BY <1>6, <2>2, <2>3, <3>1, PointMore
    <3>. QED  BY <1>2, <2>1, <3>2
  <2>5. Total + Summed(OfPoints(onWay)) <= earned  BY <1>12 DEF FigureInv, DeltaInv
  <2>6. Summed(OfPoints(onWay))' = Summed(OfPoints(onWay'))  BY DEF OfPoints, Summed, Highest
  <2>. QED  BY <1>1, <1>4, <1>5, <1>9, <2>4, <2>5, <2>6 DEF DeltaInv
<1>13. temporality' # "undated" => column' <= earned'
  <2>1. column \in Nat  BY <1>3 DEF FigureTypes
  <2>. QED  BY <1>1, <1>4, <1>5, <2>1 DEF FigureInv
<1>14. temporality' = "unspecified" => Total' = 0  BY <1>1, <1>9 DEF FigureInv
<1>. QED  BY <1>1, <1>7, <1>8, <1>9, <1>10, <1>11, <1>12, <1>13, <1>14 DEF FigureInv

LEMMA StartAgainKeeps ==
    ASSUME FigureInv, StartAgain
    PROVE  FigureInv'
<1>1. /\ period < MaxPeriods /\ period' = period + 1 /\ instant' = instant + 1 /\ began' = instant + 1
      /\ value' = 0 /\ onWay' = {}
      /\ UNCHANGED <<temporality, earned, points, watchFrom, series, active, column, stops, heard, skipped>>
  BY DEF StartAgain
<1>2. FigureTypes /\ NumbersInv /\ TotalIsHeard  BY DEF FigureInv
<1>3. /\ Total \in Nat /\ CountedSoFar \in Nat /\ value \in Nat /\ earned \in Nat /\ value <= earned
      /\ instant \in Nat \ {0} /\ began \in Nat \ {0} /\ began <= instant
      /\ period \in Nat \ {0} /\ points \in Nat
      /\ Summed(OfPoints(onWay)) \in Nat
  BY <1>2, FigureNumbers
<1>4. FigureTypes'
  <2>1. period' \in 1 .. MaxPeriods /\ value' \in 0 .. earned' /\ began' \in 1 .. instant'
        /\ instant' \in Nat \ {0}
    BY <1>1, <1>3, FigureAssumption
  <2>. QED  BY <1>1, <1>2, <2>1 DEF FigureTypes
<1>5. NumbersInv'  BY <1>1, <1>2 DEF NumbersInv
<1>6. Total' = Total /\ (Dated' <=> Dated)  BY <1>1 DEF Total, Dated
<1>7. TotalIsHeard'  BY <1>1, <1>2, <1>6 DEF TotalIsHeard
<1>8. ASSUME Dated PROVE DatedInv'
  <2>1. DatedInv  BY <1>8 DEF FigureInv
  <2>2. \A q \in heard : q.period \in Nat /\ q.start \in Nat  BY <1>2 DEF FigureTypes, Point
  <2>3. PeriodsInv'
    <3>. SUFFICES ASSUME NEW q \in heard
                  PROVE /\ q.start > 0 /\ q.start <= began' /\ q.period <= period'
                        /\ q.period = period' <=> q.start = began'
      BY <1>1 DEF PeriodsInv
    <3>1. q.start > 0 /\ q.start <= began /\ q.period <= period  BY <2>1 DEF DatedInv, PeriodsInv
    <3>. QED  BY <1>1, <1>3, <2>2, <3>1
  <2>4. SeriesInv'  BY <1>1, <1>6, <2>1 DEF DatedInv, SeriesInv
  <2>5. CountedSoFar' = 0
    <3>1. series.known => series.start <= began
      BY <2>1 DEF DatedInv, SeriesInv, PeriodsInv
    <3>2. series.start \in Nat  BY <1>2 DEF FigureTypes
    <3>3. ~(series.known /\ series.start = began')  BY <1>1, <1>3, <3>1, <3>2
    <3>. QED  BY <1>1, <3>3 DEF CountedSoFar
  <2>6. RoomInv'
    <3>1. CountedSoFar <= value /\ Total + (value - CountedSoFar) <= earned  BY <2>1 DEF DatedInv, RoomInv
    <3>2. Total <= earned  BY <1>3, <3>1
    <3>. QED  BY <1>1, <1>3, <1>6, <2>5, <3>2 DEF RoomInv
  <2>7. OnWayInv'  BY <1>1 DEF OnWayInv
  <2>. QED  BY <2>3, <2>4, <2>6, <2>7 DEF DatedInv
<1>9. ASSUME temporality = "delta" PROVE DeltaInv'
  <2>1. Summed(OfPoints({})) = 0
    <3>1. {} \in SUBSET Point(0)  OBVIOUS
    <3>. QED  BY <3>1, HighestsType
  <2>2. Total <= earned
    <3>1. Total + Summed(OfPoints(onWay)) <= earned  BY <1>9 DEF FigureInv, DeltaInv
    <3>. QED  BY <1>3, <3>1
  <2>. QED  BY <1>1, <1>3, <1>6, <2>1, <2>2 DEF DeltaInv
<1>10. temporality' # "undated" => column' <= earned'  BY <1>1 DEF FigureInv
<1>11. temporality' = "unspecified" => Total' = 0  BY <1>1, <1>6 DEF FigureInv
<1>. QED  BY <1>1, <1>4, <1>5, <1>6, <1>7, <1>8, <1>9, <1>10, <1>11 DEF FigureInv

\* What is known of a counter.
SeriesType == [known : BOOLEAN, value : Nat, start : Nat]

\* A point adds no less than nothing, whatever the vendor says it means.
LEMMA DeltaType ==
    ASSUME FigureTypes, NEW p \in onWay
    PROVE  MetricDelta(p).delta \in Nat /\ MetricDelta(p).next \in SeriesType
<1>1. series \in SeriesType /\ p.value \in Nat /\ p.start \in Nat
  BY DEF FigureTypes, SeriesType, Point
<1>2. Seen(p) \in SeriesType  BY <1>1 DEF Seen, SeriesType
<1>3. Step(series, p).delta \in Nat /\ Step(series, p).next \in SeriesType
  <2>. DEFINE reset == p.start > 0 /\ series.start > 0 /\ p.start > series.start
              late == p.start > 0 /\ p.start = series.start /\ p.value < series.value
  <2>1. series.known \in BOOLEAN /\ series.value \in Nat /\ series.start \in Nat
    BY <1>1 DEF SeriesType
  <2>2. CASE ~series.known
    <3>1. Step(series, p) = [delta |-> IF StartedWhileWatching(p) THEN p.value ELSE 0, next |-> Seen(p)]
      BY <2>2 DEF Step
    <3>. QED  BY <1>1, <1>2, <3>1
  <2>3. CASE series.known /\ reset
    <3>1. Step(series, p) = [delta |-> p.value, next |-> Seen(p)]  BY <2>3 DEF Step
    <3>. QED  BY <1>1, <1>2, <3>1
  <2>4. CASE series.known /\ ~reset /\ late
    <3>1. Step(series, p) = [delta |-> 0, next |-> series]  BY <2>4 DEF Step
    <3>. QED  BY <1>1, <3>1
  <2>5. CASE series.known /\ ~reset /\ ~late
    <3>1. Step(series, p) = [delta |-> IF p.value < series.value THEN p.value ELSE p.value - series.value,
                             next |-> Seen(p)]
      BY <2>5 DEF Step
    <3>2. (IF p.value < series.value THEN p.value ELSE p.value - series.value) \in Nat
      BY <1>1, <2>1
    <3>. QED  BY <1>2, <3>1, <3>2
  <2>. QED  BY <2>1, <2>2, <2>3, <2>4, <2>5
<1>4. temporality \in {"delta", "cumulative", "undated", "unspecified"}  BY DEF FigureTypes
<1>5. CASE temporality = "delta"
  <2>1. MetricDelta(p) = [delta |-> p.value, next |-> series]  BY <1>5 DEF MetricDelta
  <2>. QED  BY <1>1, <2>1
<1>6. CASE temporality \in {"cumulative", "undated"}
  <2>1. MetricDelta(p) = Step(series, p)  BY <1>6 DEF MetricDelta
  <2>. QED  BY <1>3, <2>1
<1>7. CASE temporality = "unspecified"
  <2>1. MetricDelta(p) = [delta |-> 0, next |-> series]  BY <1>7 DEF MetricDelta
  <2>. QED  BY <1>1, <2>1
<1>. QED  BY <1>4, <1>5, <1>6, <1>7

\* What a point has over the state.
Over(p) == IF p.value > CountedSoFar THEN p.value - CountedSoFar ELSE 0

\* What a dated point adds to the total is what it adds to the highest of its process.
LEMMA DatedStep ==
    ASSUME FigureInv, Dated, NEW p \in onWay
    PROVE  /\ p.value \in Nat /\ p.value <= value /\ p.start = began /\ p.period = period
           /\ MetricDelta(p).next.known /\ MetricDelta(p).next.start = began
           /\ MetricDelta(p).next.value = CountedSoFar + Over(p)
           /\ series.known => MetricDelta(p).delta = Over(p)
           /\ ~series.known => /\ heard = {} /\ CountedSoFar = 0
                               /\ MetricDelta(p).delta = IF StartedWhileWatching(p) THEN p.value ELSE 0
           /\ \A q \in heard : q.start <= began /\ (q.start = began => q.value <= CountedSoFar)
           /\ \/ MetricDelta(p).next.value = p.value
              \/ \E q \in heard : q.start = began /\ q.value = MetricDelta(p).next.value
           /\ Summed(OfPeriods(heard \cup {p})) = Summed(OfPeriods(heard)) + Over(p)
<1>1. FigureTypes /\ NumbersInv /\ DatedInv  BY DEF FigureInv
<1>2. p.value \in Nat /\ p.value <= value /\ p.start = began /\ p.period = period /\ p \in Point(earned)
  BY <1>1 DEF DatedInv, OnWayInv, NumbersInv, FigureTypes, Point
<1>3. /\ CountedSoFar \in Nat /\ began \in Nat \ {0} /\ earned \in Nat
      /\ series.known \in BOOLEAN /\ series.start \in Nat /\ series.value \in Nat
  BY <1>1, FigureNumbers DEF FigureTypes
<1>4. MetricDelta(p) = Step(series, p)  BY DEF MetricDelta, Dated
<1>5. heard \in SUBSET Point(earned) /\ \A q \in heard : q.start \in Nat /\ q.value \in Nat
  BY <1>1 DEF FigureTypes, Point
<1>6. \A q \in heard : /\ q.start > 0 /\ q.start <= began
                       /\ q.period = p.period <=> q.start = began
  BY <1>1, <1>2 DEF DatedInv, PeriodsInv
<1>7. series.known =>
        /\ \E q \in heard : q.start = series.start /\ q.value = series.value
        /\ \A q \in heard : q.start = series.start => q.value <= series.value
        /\ \A q \in heard : q.start <= series.start
  BY <1>1 DEF DatedInv, SeriesInv
<1>8. series.known <=> heard # {}  BY <1>1 DEF DatedInv, SeriesInv
<1>9. /\ (\A q \in heard : q.start # began) => CountedSoFar = 0
      /\ \A q \in heard : q.start = began => q.value <= CountedSoFar
      /\ (\A q \in heard : q.start # began) \/ \E q \in heard : q.start = began /\ q.value = CountedSoFar
  <2>1. CASE series.known /\ series.start = began
    <3>1. CountedSoFar = series.value  BY <2>1 DEF CountedSoFar
    <3>. QED  BY <1>7, <2>1, <3>1
  <2>2. CASE ~(series.known /\ series.start = began)
    <3>1. CountedSoFar = 0  BY <2>2 DEF CountedSoFar
    <3>2. ASSUME NEW q \in heard PROVE q.start # began
      <4>1. series.known  BY <1>8
      <4>2. PICK r \in heard : r.start = series.start  BY <1>7, <4>1
      <4>3. series.start <= began /\ q.start <= series.start /\ series.start # began
        BY <1>6, <1>7, <2>2, <4>1, <4>2
      <4>. QED  BY <1>3, <1>5, <4>3
    <3>. QED  BY <3>1, <3>2
  <2>. QED  BY <2>1, <2>2
<1>10. Summed(OfPeriods(heard \cup {p})) = Summed(OfPeriods(heard)) + Over(p)
  <2>1. PICK b, S, high : b = earned /\ S = heard /\ high = CountedSoFar  OBVIOUS
  <2>2. /\ b \in Nat /\ S \in SUBSET Point(b) /\ p \in Point(b) /\ high \in Nat
        /\ (\A q \in S : q.period # p.period) => high = 0
        /\ \A q \in S : q.period = p.period => q.value <= high
        /\ (\A q \in S : q.period # p.period) \/ \E q \in S : q.period = p.period /\ q.value = high
    BY <1>2, <1>3, <1>5, <1>6, <1>9, <2>1
  <2>3. Summed(OfPeriods(S \cup {p}))
          = Summed(OfPeriods(S)) + (IF p.value > high THEN p.value - high ELSE 0)
    BY ONLY <2>2, HeardMore
  <2>. QED  BY <2>1, <2>3 DEF Over
<1>11. Seen(p).known /\ Seen(p).start = began /\ Seen(p).value = p.value  BY <1>2 DEF Seen
<1>12. CASE ~series.known
  <2>1. MetricDelta(p) = [delta |-> IF StartedWhileWatching(p) THEN p.value ELSE 0, next |-> Seen(p)]
    BY <1>4, <1>12 DEF Step
  <2>2. heard = {} /\ CountedSoFar = 0  BY <1>8, <1>12 DEF CountedSoFar
  <2>3. Over(p) = p.value  BY <1>2, <2>2 DEF Over
  <2>. QED  BY <1>2, <1>6, <1>9, <1>10, <1>11, <1>12, <2>1, <2>2, <2>3
<1>13. CASE series.known
  <2>1. PICK r \in heard : r.start = series.start /\ r.value = series.value  BY <1>7, <1>13
  <2>2. series.start > 0 /\ series.start <= began  BY <1>6, <2>1
  <2>3. CASE series.start # began
    <3>1. p.start > 0 /\ series.start > 0 /\ p.start > series.start  BY <1>2, <1>3, <2>2, <2>3
    <3>2. MetricDelta(p) = [delta |-> p.value, next |-> Seen(p)]  BY <1>4, <1>13, <3>1 DEF Step
    <3>3. CountedSoFar = 0 /\ Over(p) = p.value  BY <1>2, <2>3 DEF CountedSoFar, Over
    <3>. QED  BY <1>2, <1>6, <1>9, <1>10, <1>11, <1>13, <3>2, <3>3
  <2>4. CASE series.start = began /\ p.value < series.value
    <3>1. p.start > 0 /\ p.start = series.start /\ ~(p.start > series.start)  BY <1>2, <1>3, <2>4
    <3>2. MetricDelta(p) = [delta |-> 0, next |-> series]  BY <1>4, <1>13, <2>4, <3>1 DEF Step
    <3>3. CountedSoFar = series.value /\ Over(p) = 0  BY <1>2, <1>3, <1>13, <2>4 DEF CountedSoFar, Over
    <3>4. CountedSoFar + Over(p) = series.value  BY <1>3, <3>3
    <3>. QED  BY <1>2, <1>6, <1>9, <1>10, <1>13, <2>1, <2>4, <3>2, <3>3, <3>4
  <2>5. CASE series.start = began /\ ~(p.value < series.value)
    <3>1. ~(p.start > series.start)  BY <1>2, <1>3, <2>5
    <3>2. MetricDelta(p) = [delta |-> p.value - series.value, next |-> Seen(p)]
      BY <1>4, <1>13, <2>5, <3>1 DEF Step
    <3>3. CountedSoFar = series.value /\ Over(p) = p.value - series.value
      BY <1>2, <1>3, <1>13, <2>5 DEF CountedSoFar, Over
    <3>4. CountedSoFar + Over(p) = p.value  BY <1>2, <1>3, <3>3
    <3>. QED  BY <1>2, <1>6, <1>9, <1>10, <1>11, <1>13, <3>2, <3>3, <3>4
  <2>. QED  BY <2>3, <2>4, <2>5
<1>. QED  BY <1>3, <1>12, <1>13

LEMMA AddKeeps ==
    ASSUME FigureInv, NEW p \in onWay, Add(p)
    PROVE  FigureInv'
<1>1. PICK m : m = MetricDelta(p)  OBVIOUS
<1>2. PICK w : w = StartedWhileWatching(p)  OBVIOUS
<1>3. /\ onWay' = onWay \ {p} /\ series' = m.next /\ active' = Total + m.delta
      /\ heard' = heard \cup {p} /\ skipped' = (IF heard = {} /\ ~w THEN p.value ELSE skipped)
      /\ watchFrom' = From(p)
      /\ UNCHANGED <<temporality, instant, period, began, value, earned, points, column, stops>>
  BY <1>1, <1>2 DEF Add, exporterVars
<1>4. FigureTypes /\ NumbersInv /\ TotalIsHeard  BY DEF FigureInv
<1>5. /\ Total \in Nat /\ CountedSoFar \in Nat /\ value \in Nat /\ earned \in Nat /\ value <= earned
      /\ Summed(OfPoints(onWay)) \in Nat /\ Summed(OfPoints(heard)) \in Int
      /\ Summed(OfPeriods(heard)) \in Int /\ skipped \in Nat
  BY <1>4, FigureNumbers
<1>6. m.delta \in Nat /\ m.next \in SeriesType  BY <1>1, <1>4, DeltaType
<1>7. p \in Point(earned) /\ p.value \in Nat /\ p.ts \in Nat  BY <1>4 DEF FigureTypes, Point
<1>8. FigureTypes'
  <2>1. watchFrom' \in Nat  BY <1>3, <1>4, <1>7 DEF FigureTypes, From
  <2>2. skipped' \in Nat  BY <1>3, <1>5, <1>7
  <2>3. active' \in Nat  BY <1>3, <1>5, <1>6
  <2>4. onWay' \subseteq Point(earned) /\ heard' \subseteq Point(earned)
    BY <1>3, <1>4, <1>7 DEF FigureTypes
  <2>. QED  BY <1>3, <1>4, <1>6, <2>1, <2>2, <2>3, <2>4 DEF FigureTypes, SeriesType
<1>9. NumbersInv'  BY <1>3, <1>4 DEF NumbersInv
<1>10. Total' = Total + m.delta
  <2>1. Total + m.delta # NoState  BY <1>5, <1>6 DEF NoState
  <2>. QED  BY <1>3, <2>1 DEF Total
<1>11. Dated' <=> Dated  BY <1>3 DEF Dated
<1>12. ASSUME Dated
       PROVE  Total' = Summed(OfPeriods(heard))' - skipped' /\ DatedInv'
  <2>1. DatedInv /\ Total = Summed(OfPeriods(heard)) - skipped
    BY <1>12 DEF FigureInv, TotalIsHeard
  <2>2. PICK o : o = Over(p)  OBVIOUS
  <2>3. /\ p.value <= value /\ p.start = began /\ p.period = period
        /\ m.next.known /\ m.next.start = began /\ m.next.value = CountedSoFar + o
        /\ series.known => m.delta = o
        /\ ~series.known => heard = {} /\ CountedSoFar = 0 /\ m.delta = IF w THEN p.value ELSE 0
        /\ \A q \in heard : q.start <= began /\ (q.start = began => q.value <= CountedSoFar)
        /\ \/ m.next.value = p.value
           \/ \E q \in heard : q.start = began /\ q.value = m.next.value
        /\ Summed(OfPeriods(heard \cup {p})) = Summed(OfPeriods(heard)) + o
    BY <1>1, <1>2, <1>12, <2>2, DatedStep
  <2>4. o = (IF p.value > CountedSoFar THEN p.value - CountedSoFar ELSE 0) /\ o \in Nat
    BY <1>5, <1>7, <2>2 DEF Over
  <2>5. ~series.known => skipped = 0 /\ Total = 0 /\ o = p.value
    BY <1>5, <1>7, <2>1, <2>3, <2>4 DEF DatedInv, SeriesInv
  <2>6. series.known => heard # {}  BY <2>1 DEF DatedInv, SeriesInv
  <2>7. Summed(OfPeriods(heard))' = Summed(OfPeriods(heard)) + o
    <3>1. Summed(OfPeriods(heard))' = Summed(OfPeriods(heard'))  BY DEF OfPeriods, Summed, Highest
    <3>. QED  BY <1>3, <2>3, <3>1
  <2>8. Total' = Summed(OfPeriods(heard))' - skipped'
    <3>1. CASE series.known
      <4>1. skipped' = skipped /\ m.delta = o  BY <1>3, <2>3, <2>6, <3>1
      <4>. QED  BY <1>5, <1>10, <2>1, <2>4, <2>7, <4>1
    <3>2. CASE ~series.known
      <4>1. /\ m.delta = (IF w THEN p.value ELSE 0) /\ skipped' = (IF w THEN 0 ELSE p.value)
            /\ Summed(OfPeriods(heard)) = 0
        BY <1>3, <1>5, <2>1, <2>3, <2>5, <3>2
      <4>2. Total' = (IF w THEN p.value ELSE 0) /\ Summed(OfPeriods(heard))' = p.value
        BY <1>7, <1>10, <2>5, <2>7, <3>2, <4>1
      <4>. QED  BY <1>7, <4>1, <4>2
    <3>. QED  BY <3>1, <3>2
  <2>9. OnWayInv' /\ PeriodsInv'
    <3>1. OnWayInv'  BY <1>3, <2>1 DEF DatedInv, OnWayInv
    <3>2. began > 0 /\ began <= began /\ period <= period  BY <1>4, FigureNumbers
    <3>3. PeriodsInv'  BY <1>3, <2>1, <2>3, <3>2 DEF DatedInv, PeriodsInv
    <3>. QED  BY <3>1, <3>3
  <2>10. CountedSoFar' = CountedSoFar + o  BY <1>3, <2>3 DEF CountedSoFar
  <2>11. SeriesInv'
    <3>1. \A q \in heard' : q.start <= began
      <4>1. began <= began  BY <1>4, FigureNumbers
      <4>. QED  BY <1>3, <2>3, <4>1
    <3>2. \A q \in heard' : q.start = began => q.value <= m.next.value
      <4>1. CountedSoFar <= CountedSoFar + o /\ p.value <= CountedSoFar + o  BY <1>5, <1>7, <2>4
      <4>2. ASSUME NEW q \in heard, q.start = began PROVE q.value <= m.next.value
        <5>1. q.value \in Nat  BY <1>4 DEF FigureTypes, Point
        <5>2. q.value <= CountedSoFar  BY <2>3, <4>2
        <5>. QED  BY <1>5, <2>3, <2>4, <4>1, <5>1, <5>2
      <4>. QED  BY <1>3, <2>3, <4>1, <4>2
    <3>3. \E q \in heard' : q.start = began /\ q.value = m.next.value  BY <1>3, <2>3
    <3>4. heard' # {}  BY <1>3
    <3>. QED  BY <1>3, <2>3, <3>1, <3>2, <3>3, <3>4 DEF SeriesInv
  <2>12. RoomInv'
    <3>1. CountedSoFar <= value /\ Total + (value - CountedSoFar) <= earned  BY <2>1 DEF DatedInv, RoomInv
    <3>2. CountedSoFar' <= value  BY <1>5, <1>7, <2>3, <2>4, <2>10, <3>1
    <3>3. Total' <= Total + o
      <4>1. m.delta <= o  BY <1>7, <2>3, <2>4, <2>5
      <4>. QED  BY <1>5, <1>6, <1>10, <2>4, <4>1
    <3>4. Total' \in Nat  BY <1>5, <1>6, <1>10
    <3>5. Total' + (value - CountedSoFar') <= earned
      <4>1. PICK u, l : u = Total' /\ l = CountedSoFar  OBVIOUS
      <4>2. u \in Nat /\ u <= Total + o /\ l \in Nat /\ Total + (value - l) <= earned
        BY <1>5, <3>1, <3>3, <3>4, <4>1
      <4>3. u + (value - (l + o)) <= earned  BY ONLY <1>5, <2>4, <4>2
      <4>. QED  BY <2>10, <4>1, <4>3
    <3>. QED  BY <1>3, <3>2, <3>5 DEF RoomInv
  <2>. QED  BY <2>8, <2>9, <2>11, <2>12 DEF DatedInv
<1>13. ASSUME temporality = "delta"
       PROVE  Total' = Summed(OfPoints(heard))' /\ DeltaInv'
  <2>1. Total = Summed(OfPoints(heard)) /\ Total + Summed(OfPoints(onWay)) <= earned
    BY <1>13 DEF FigureInv, TotalIsHeard, DeltaInv
  <2>2. m.delta = p.value  BY <1>1, <1>13 DEF MetricDelta
  <2>3. PICK b, S, R : b = earned /\ S = heard /\ R = onWay \ {p}  OBVIOUS
  <2>4. /\ b \in Nat /\ S \in SUBSET Point(b) /\ R \in SUBSET Point(b) /\ p \in Point(b)
        /\ \A q \in S : q.n # p.n
        /\ \A q \in R : q.n # p.n
    BY <1>4, <1>5, <1>7, <2>3 DEF NumbersInv, FigureTypes
  <2>5. Summed(OfPoints(S \cup {p})) = Summed(OfPoints(S)) + p.value  BY ONLY <2>4, PointMore
  <2>6. Summed(OfPoints(R \cup {p})) = Summed(OfPoints(R)) + p.value  BY ONLY <2>4, PointMore
  <2>7. R \cup {p} = onWay  BY <2>3
  <2>8. Summed(OfPoints(heard))' = Summed(OfPoints(heard')) /\ Summed(OfPoints(onWay))' = Summed(OfPoints(onWay'))
    BY DEF OfPoints, Summed, Highest
  <2>9. Summed(OfPoints(R)) \in Int  BY <2>4, HighestsType
  <2>10. Total' = Summed(OfPoints(heard))'  BY <1>3, <1>10, <2>1, <2>2, <2>3, <2>5, <2>8
  <2>11. Total' + Summed(OfPoints(onWay))' = Total + Summed(OfPoints(onWay))
    BY <1>3, <1>5, <1>7, <1>10, <2>2, <2>3, <2>6, <2>7, <2>8, <2>9
  <2>. QED  BY <1>3, <2>1, <2>10, <2>11 DEF DeltaInv
<1>14. ASSUME temporality = "unspecified" PROVE Total' = 0
  <2>1. m.delta = 0 /\ Total = 0  BY <1>1, <1>14 DEF MetricDelta, FigureInv
  <2>. QED  BY <1>10, <2>1
<1>15. TotalIsHeard'
  <2>1. temporality' = temporality  BY <1>3
  <2>. QED  BY <1>11, <1>12, <1>13, <2>1 DEF TotalIsHeard
<1>16. temporality' # "undated" => column' <= earned'  BY <1>3 DEF FigureInv
<1>. QED  BY <1>3, <1>8, <1>9, <1>11, <1>12, <1>13, <1>14, <1>15, <1>16 DEF FigureInv

LEMMA FirstEventKeeps ==
    ASSUME FigureInv, FirstEvent
    PROVE  FigureInv'
<1>1. /\ instant' = instant + 1 /\ watchFrom' = instant'
      /\ UNCHANGED <<temporality, period, began, value, earned, points, onWay, series, active,
                     column, stops, heard, skipped>>
  BY DEF FirstEvent
<1>2. FigureTypes  BY DEF FigureInv
<1>3. FigureTypes'
  <2>1. instant \in Nat \ {0} /\ began \in Nat \ {0} /\ began <= instant  BY <1>2, FigureNumbers
  <2>2. instant' \in Nat \ {0} /\ began' \in 1 .. instant' /\ watchFrom' \in Nat  BY <1>1, <2>1
  <2>. QED  BY <1>1, <1>2, <2>2 DEF FigureTypes
<1>4. Total' = Total /\ CountedSoFar' = CountedSoFar /\ (Dated' <=> Dated)  BY <1>1 DEF Total, CountedSoFar, Dated
<1>5. TotalIsHeard' /\ NumbersInv'  BY <1>1, <1>4 DEF FigureInv, TotalIsHeard, NumbersInv
<1>6. Dated => DatedInv'
  BY <1>1, <1>4 DEF FigureInv, DatedInv, OnWayInv, PeriodsInv, SeriesInv, RoomInv
<1>7. temporality = "delta" => DeltaInv'  BY <1>1, <1>4 DEF FigureInv, DeltaInv
<1>. QED  BY <1>1, <1>3, <1>4, <1>5, <1>6, <1>7 DEF FigureInv

\* What a row is raised to was earned.
LEMMA TotalWithinEarned ==
    ASSUME FigureInv
    PROVE  /\ Raised(column, Total) \in Nat /\ column <= Raised(column, Total)
           /\ temporality # "undated" => Raised(column, Total) <= earned
<1>1. FigureTypes  BY DEF FigureInv
<1>2. /\ Total \in Nat /\ CountedSoFar \in Nat /\ value \in Nat /\ earned \in Nat /\ column \in Nat
      /\ Summed(OfPoints(onWay)) \in Nat
      /\ temporality \in {"delta", "cumulative", "undated", "unspecified"}
  BY <1>1, FigureNumbers DEF FigureTypes
<1>3. temporality # "undated" => Total <= earned
  <2>1. CASE temporality = "cumulative"
    <3>1. CountedSoFar <= value /\ Total + (value - CountedSoFar) <= earned
      BY <2>1 DEF FigureInv, Dated, DatedInv, RoomInv
    <3>. QED  BY <1>2, <3>1
  <2>2. CASE temporality = "delta"
    <3>1. Total + Summed(OfPoints(onWay)) <= earned  BY <2>2 DEF FigureInv, DeltaInv
    <3>. QED  BY <1>2, <3>1
  <2>3. CASE temporality = "unspecified"
    <3>1. Total = 0  BY <2>3 DEF FigureInv
    <3>. QED  BY <1>2, <3>1
  <2>. QED  BY <1>2, <2>1, <2>2, <2>3
<1>4. temporality # "undated" => column <= earned  BY DEF FigureInv
<1>. QED  BY <1>2, <1>3, <1>4 DEF Raised

LEMMA SnapshotKeeps ==
    ASSUME FigureInv, Snapshot
    PROVE  FigureInv'
<1>1. /\ column' = Raised(column, Total)
      /\ UNCHANGED <<temporality, instant, period, began, value, earned, points, onWay, watchFrom,
                     series, active, stops, heard, skipped>>
  BY DEF Snapshot, exporterVars
<1>2. column' \in Nat /\ (temporality # "undated" => column' <= earned)  BY <1>1, TotalWithinEarned
<1>3. FigureTypes'  BY <1>1, <1>2 DEF FigureInv, FigureTypes
<1>4. Total' = Total /\ CountedSoFar' = CountedSoFar /\ (Dated' <=> Dated)  BY <1>1 DEF Total, CountedSoFar, Dated
<1>5. TotalIsHeard' /\ NumbersInv'  BY <1>1, <1>4 DEF FigureInv, TotalIsHeard, NumbersInv
<1>6. Dated => DatedInv'
  BY <1>1, <1>4 DEF FigureInv, DatedInv, OnWayInv, PeriodsInv, SeriesInv, RoomInv
<1>7. temporality = "delta" => DeltaInv'  BY <1>1, <1>4 DEF FigureInv, DeltaInv
<1>. QED  BY <1>1, <1>2, <1>3, <1>4, <1>5, <1>6, <1>7 DEF FigureInv

\* A session that is forgotten starts from nothing, and what it had earned is not heard again.
LEMMA StateGoneKeeps ==
    ASSUME FigureInv, StateGone, UNCHANGED exporterVars, onWay' = onWay, watchFrom' \in Nat,
           column' \in Nat, temporality # "undated" => column' <= earned
    PROVE  FigureInv'
<1>1. /\ series' = Unheard /\ active' = NoState /\ heard' = {} /\ skipped' = 0
      /\ UNCHANGED <<temporality, instant, period, began, value, earned, points, onWay>>
  BY DEF StateGone, exporterVars
<1>2. FigureTypes /\ NumbersInv  BY DEF FigureInv
<1>3. FigureTypes'  BY <1>1, <1>2 DEF FigureTypes, Unheard, NoState
<1>4. Total' = 0 /\ CountedSoFar' = 0  BY <1>1 DEF Total, CountedSoFar, Unheard
<1>5. Summed(OfPeriods({})) = 0 /\ Summed(OfPoints({})) = 0
  <2>1. {} \in SUBSET Point(0)  OBVIOUS
  <2>. QED  BY <2>1, HighestsType
<1>6. TotalIsHeard' /\ NumbersInv'
  <2>1. Summed(OfPeriods(heard))' = Summed(OfPeriods(heard')) /\ Summed(OfPoints(heard))' = Summed(OfPoints(heard'))
    BY DEF OfPeriods, OfPoints, Summed, Highest
  <2>2. TotalIsHeard'  BY <1>1, <1>4, <1>5, <2>1 DEF TotalIsHeard
  <2>. QED  BY <1>1, <1>2, <2>2 DEF NumbersInv
<1>7. /\ value \in Nat /\ earned \in Nat /\ value <= earned
      /\ Total \in Nat /\ Summed(OfPoints(onWay)) \in Nat
  BY <1>2, FigureNumbers
<1>8. ASSUME Dated PROVE DatedInv'
  <2>1. OnWayInv'  BY <1>1, <1>8 DEF FigureInv, DatedInv, OnWayInv
  <2>2. PeriodsInv' /\ SeriesInv'  BY <1>1, <1>4 DEF PeriodsInv, SeriesInv, Unheard
  <2>3. RoomInv'  BY <1>1, <1>4, <1>7 DEF RoomInv
  <2>. QED  BY <2>1, <2>2, <2>3 DEF DatedInv
<1>9. ASSUME temporality = "delta" PROVE DeltaInv'
  <2>1. Total + Summed(OfPoints(onWay)) <= earned  BY <1>9 DEF FigureInv, DeltaInv
  <2>2. Summed(OfPoints(onWay))' = Summed(OfPoints(onWay))  BY <1>1 DEF OfPoints, Summed, Highest
  <2>. QED  BY <1>1, <1>4, <1>7, <2>1, <2>2 DEF DeltaInv
<1>10. Dated' <=> Dated  BY <1>1 DEF Dated
<1>. QED  BY <1>1, <1>3, <1>4, <1>6, <1>8, <1>9, <1>10 DEF FigureInv

LEMMA EndsKeep ==
    ASSUME FigureInv, Close \/ Stop
    PROVE  FigureInv' /\ column <= column'
<1>1. column \in Nat /\ watchFrom \in Nat /\ (temporality # "undated" => column <= earned)
  BY DEF FigureInv, FigureTypes
<1>2. /\ Raised(column, Total) \in Nat /\ column <= Raised(column, Total)
      /\ temporality # "undated" => Raised(column, Total) <= earned
  BY TotalWithinEarned
<1>3. CASE Close
  <2>1. StateGone /\ UNCHANGED exporterVars /\ onWay' = onWay /\ watchFrom' \in Nat
        /\ column' = Raised(column, Total)
    BY <1>1, <1>3 DEF Close
  <2>. QED  BY <1>2, <2>1, StateGoneKeeps
<1>4. CASE Stop
  <2>1. StateGone /\ UNCHANGED exporterVars /\ onWay' = onWay /\ watchFrom' \in Nat /\ column' = column
    BY <1>4 DEF Stop
  <2>. QED  BY <1>1, <2>1, StateGoneKeeps
<1>. QED  BY <1>3, <1>4

\* Every step keeps the invariant, and no step lowers what is stored.
LEMMA FiguresStep ==
    ASSUME FigureInv, [FigureNext]_figureVars
    PROVE  FigureInv' /\ column <= column'
<1>. USE DEF exporterVars
<1>0. column \in Nat  BY DEF FigureInv, FigureTypes
<1>1. ASSUME NEW spell \in Spells, Export(spell) PROVE FigureInv' /\ column <= column'
  BY <1>0, <1>1, ExportKeeps DEF Export
<1>2. CASE StartAgain  BY <1>0, <1>2, StartAgainKeeps DEF StartAgain
<1>3. ASSUME NEW p \in onWay, Add(p) PROVE FigureInv' /\ column <= column'
  BY <1>0, <1>3, AddKeeps DEF Add
<1>4. CASE FirstEvent  BY <1>0, <1>4, FirstEventKeeps DEF FirstEvent
<1>5. CASE Snapshot  BY <1>0, <1>5, SnapshotKeeps, TotalWithinEarned DEF Snapshot
<1>6. CASE Close \/ Stop  BY <1>6, EndsKeep
<1>7. CASE UNCHANGED figureVars
  <2>1. /\ UNCHANGED <<temporality, instant, period, began, value, earned, points, onWay,
                       watchFrom, series, active, column, stops, heard, skipped>>
    BY <1>7 DEF figureVars
  <2>2. FigureTypes' /\ NumbersInv'  BY <2>1 DEF FigureInv, FigureTypes, NumbersInv
  <2>3. Total' = Total /\ CountedSoFar' = CountedSoFar /\ (Dated' <=> Dated)  BY <2>1 DEF Total, CountedSoFar, Dated
  <2>4. TotalIsHeard'  BY <2>1, <2>3 DEF FigureInv, TotalIsHeard
  <2>5. Dated => DatedInv'
    BY <2>1, <2>3 DEF FigureInv, DatedInv, OnWayInv, PeriodsInv, SeriesInv, RoomInv
  <2>6. temporality = "delta" => DeltaInv'  BY <2>1, <2>3 DEF FigureInv, DeltaInv
  <2>7. FigureInv'  BY <2>1, <2>2, <2>3, <2>4, <2>5, <2>6 DEF FigureInv
  <2>. QED  BY <1>0, <2>1, <2>7
<1>. QED  BY <1>1, <1>2, <1>3, <1>4, <1>5, <1>6, <1>7 DEF FigureNext

\* The invariant of the figures holds in every state.
THEOREM FigureInvariant == FigureSpec => []FigureInv
<1>1. FigureInv /\ [FigureNext]_figureVars => FigureInv'  BY FiguresStep
<1>. QED  BY <1>1, FiguresBegin, PTL DEF FigureSpec

\* For any spells, processes and restarts: the total is what the points that were heard
\* say, in whatever order those of a process came, no second is counted twice, and what
\* is stored stays.
THEOREM NoSecondTwice == FigureSpec => FiguresAreTrue
<1>1. ASSUME FigureInv, FigureInv', [FigureNext]_figureVars
      PROVE  [/\ TotalIsHeard'
              /\ column' >= column /\ (temporality # "undated" => column' <= earned)]_figureVars
  <2>1. column <= column' /\ column \in Nat /\ column' \in Nat
    BY <1>1, FiguresStep DEF FigureInv, FigureTypes
  <2>2. TotalIsHeard'  BY <1>1 DEF FigureInv
  <2>3. temporality # "undated" => column' <= earned
    <3>1. CASE Snapshot \/ Close
      <4>1. column' = Raised(column, Total)  BY <3>1 DEF Snapshot, Close
      <4>. QED  BY <1>1, <4>1, TotalWithinEarned
    <3>2. CASE ~(Snapshot \/ Close)
      <4>1. column' = column
        BY <1>1, <3>2 DEF FigureNext, figureVars, Export, StartAgain, Add, FirstEvent, Stop
      <4>. QED  BY <1>1, <4>1 DEF FigureInv
    <3>. QED  BY <3>1, <3>2
  <2>. QED  BY <2>1, <2>2, <2>3
<1>. QED  BY <1>1, FigureInvariant, PTL DEF FigureSpec, FiguresAreTrue
-----------------------------------------------------------------------------
(* Calendar: the windows tile the days *)

Zone == [before : Int, after : Int, at : Int]

\* The first instant of a date.
FirstOf(z, d) == GoDate(z, d, 0)

LEMMA DaysAndHours ==
    ASSUME NEW x \in Int
    PROVE  /\ x \div DayHours \in Int /\ (x % DayHours) \in 0 .. 23
           /\ DayHours * (x \div DayHours) <= x /\ x < DayHours * (x \div DayHours) + DayHours
           /\ x = DayHours * (x \div DayHours) + (x % DayHours)
  BY DEF DayHours

\* Where there is no midnight no date begins.
LEMMA NoneBetween ==
    ASSUME NEW from \in Int, NEW to \in Int, NoMidnight(from, to), NEW d \in Int
    PROVE  DayHours * d >= from => DayHours * d >= to
<1>. SUFFICES ASSUME DayHours * d >= from PROVE DayHours * d >= to  OBVIOUS
<1>1. PICK q \in Int : q = (from - 1) \div DayHours /\ q = (to - 1) \div DayHours
  BY DaysAndHours DEF NoMidnight, DayHours
<1>2. /\ 24 * q <= from - 1 /\ to - 1 < 24 * q + 24
  <2>1. from - 1 \in Int /\ to - 1 \in Int  OBVIOUS
  <2>. QED  BY <1>1, <2>1, DaysAndHours DEF DayHours
<1>3. d > q  BY <1>2 DEF DayHours
<1>4. 24 * d >= 24 * q + 24  BY <1>3
<1>. QED  BY <1>2, <1>4 DEF DayHours

\* A date is the first one that the clock shows at its midnight.
LEMMA DaysBegin ==
    ASSUME NEW z \in Zone, BeginsAtMidnight(z), NEW d \in Int
    PROVE  /\ FirstOf(z, d) \in Int
           /\ FirstOf(z, d) + ZoneOffset(z, FirstOf(z, d)) = DayHours * d
           /\ \A u \in Int : u + ZoneOffset(z, u) >= DayHours * d <=> u >= FirstOf(z, d)
<1>1. PICK b \in Int, a \in Int, t \in Int : z.before = b /\ z.after = a /\ z.at = t
  BY DEF Zone
<1>2. PICK n \in Int : n = DayHours * d  BY DEF DayHours
<1>3. /\ t + b < t + a => (n >= t + b => n >= t + a)
      /\ t + a < t + b => (n >= (IF a < 0 THEN t + a + 1 ELSE t + a) => n >= t + b)
  <2>1. CASE t + b < t + a
    <3>1. NoMidnight(t + b, t + a)  BY <1>1, <2>1 DEF BeginsAtMidnight
    <3>2. t + b \in Int /\ t + a \in Int  OBVIOUS
    <3>3. n >= t + b => n >= t + a  BY ONLY <1>2, <3>1, <3>2, d \in Int, NoneBetween
    <3>. QED  BY <2>1, <3>3
  <2>2. CASE t + a < t + b
    <3>1. PICK e : e = IF a < 0 THEN t + a + 1 ELSE t + a  OBVIOUS
    <3>2. NoMidnight(e, t + b)  BY <1>1, <2>2, <3>1 DEF BeginsAtMidnight
    <3>3. e \in Int /\ t + b \in Int  BY <3>1
    <3>4. n >= e => n >= t + b  BY ONLY <1>2, <3>2, <3>3, d \in Int, NoneBetween
    <3>. QED  BY <2>2, <3>1, <3>4
  <2>. QED  BY <2>1, <2>2
<1>4. FirstOf(z, d) = IF n < t + b /\ n <= t + a THEN n - b ELSE n - a
  <2>. DEFINE off(u) == IF u < t THEN b ELSE a
  <2>1. \A u : ZoneOffset(z, u) = off(u)  BY <1>1 DEF ZoneOffset
  <2>2. d * DayHours + 0 = n  BY <1>2 DEF DayHours
  <2>3. FirstOf(z, d) = IF ZoneOffset(z, n) = 0 \/ SameRegime(z, n, n - ZoneOffset(z, n))
                        THEN n - ZoneOffset(z, n) ELSE n - ZoneOffset(z, n - ZoneOffset(z, n))
    <3>. DEFINE m == d * DayHours + 0
    <3>2. FirstOf(z, d) = IF ZoneOffset(z, m) = 0 \/ SameRegime(z, m, m - ZoneOffset(z, m))
                          THEN m - ZoneOffset(z, m) ELSE m - ZoneOffset(z, m - ZoneOffset(z, m))
      BY Zenon DEF FirstOf, GoDate
    <3>3. m = n  BY <2>2
    <3>. HIDE DEF m
    <3>. QED  BY ONLY <3>2, <3>3
  <2>4. SameRegime(z, n, n - ZoneOffset(z, n)) <=> (n < t <=> n - off(n) < t)
    BY <1>1, <2>1 DEF SameRegime
  <2>5. CASE n < t
    <3>1. ZoneOffset(z, n) = b /\ ZoneOffset(z, n - b) = IF n - b < t THEN b ELSE a  BY <2>1, <2>5
    <3>. QED  BY <1>3, <2>3, <2>4, <2>5, <3>1
  <2>6. CASE ~(n < t)
    <3>1. ZoneOffset(z, n) = a /\ ZoneOffset(z, n - a) = IF n - a < t THEN b ELSE a  BY <2>1, <2>6
    <3>. QED  BY <1>3, <2>3, <2>4, <2>6, <3>1
  <2>. QED  BY <2>5, <2>6
<1>5. ASSUME NEW u \in Int PROVE ZoneOffset(z, u) = IF u < t THEN b ELSE a
  BY <1>1 DEF ZoneOffset
<1>6. FirstOf(z, d) \in Int  BY <1>4
<1>7. FirstOf(z, d) + ZoneOffset(z, FirstOf(z, d)) = n  BY <1>3, <1>4, <1>5, <1>6
<1>8. ASSUME NEW u \in Int PROVE u + ZoneOffset(z, u) >= n <=> u >= FirstOf(z, d)
  BY <1>3, <1>4, <1>5
<1>. QED  BY <1>2, <1>6, <1>7, <1>8

\* So the dates follow one another as their midnights do.
LEMMA DatesFollow ==
    ASSUME NEW z \in Zone, BeginsAtMidnight(z)
    PROVE  /\ \A u \in Int : DateOf(z, u) \in Int
           /\ \A d \in Int : /\ FirstOf(z, d) \in Int
                             /\ DateOf(z, FirstOf(z, d)) = d /\ ClockOf(z, FirstOf(z, d)) = 0
           /\ \A d \in Int, u \in Int : DateOf(z, u) >= d <=> u >= FirstOf(z, d)
           /\ \A d \in Int, e \in Int : d < e <=> FirstOf(z, d) < FirstOf(z, e)
<1>1. ASSUME NEW u \in Int
      PROVE  /\ DateOf(z, u) \in Int
             /\ \A d \in Int : DateOf(z, u) >= d <=> u + ZoneOffset(z, u) >= DayHours * d
  <2>1. PICK f \in Int : f = u + ZoneOffset(z, u)  BY DEF ZoneOffset, Zone
  <2>2. PICK q \in Int : q = f \div DayHours /\ 24 * q <= f /\ f < 24 * q + 24
    BY DaysAndHours DEF DayHours
  <2>3. \A d \in Int : q >= d <=> f >= 24 * d  BY <2>2
  <2>. QED  BY <2>1, <2>2, <2>3 DEF DateOf, DayHours
<1>2. ASSUME NEW d \in Int, NEW u \in Int PROVE DateOf(z, u) >= d <=> u >= FirstOf(z, d)
  BY <1>1, DaysBegin
<1>3. ASSUME NEW d \in Int
      PROVE  FirstOf(z, d) \in Int /\ DateOf(z, FirstOf(z, d)) = d /\ ClockOf(z, FirstOf(z, d)) = 0
  <2>1. FirstOf(z, d) \in Int /\ FirstOf(z, d) + ZoneOffset(z, FirstOf(z, d)) = DayHours * d
    BY DaysBegin
  <2>2. (DayHours * d) \div DayHours = d /\ (DayHours * d) % DayHours = 0
    <3>1. PICK x \in Int : x = 24 * d  OBVIOUS
    <3>2. PICK q \in Int : q = x \div 24 /\ x = 24 * q + (x % 24) /\ (x % 24) \in 0 .. 23
      BY DaysAndHours DEF DayHours
    <3>. QED  BY <3>1, <3>2 DEF DayHours
  <2>. QED  BY <2>1, <2>2 DEF DateOf, ClockOf
<1>4. ASSUME NEW d \in Int, NEW e \in Int PROVE d < e <=> FirstOf(z, d) < FirstOf(z, e)
  <2>1. /\ DateOf(z, FirstOf(z, d)) = d /\ FirstOf(z, d) \in Int /\ FirstOf(z, e) \in Int
    BY <1>3
  <2>2. d >= e <=> FirstOf(z, d) >= FirstOf(z, e)  BY <1>2, <2>1
  <2>. QED  BY <2>1, <2>2
<1>. QED  BY <1>1, <1>2, <1>3, <1>4

\* A date that is added to a midnight gives that date's midnight.
LEMMA MidnightsAdd ==
    ASSUME NEW z \in Zone, BeginsAtMidnight(z), NEW d \in Int, NEW n \in Int
    PROVE  AddDate(z, FirstOf(z, d), n) = FirstOf(z, d + n)
  BY DatesFollow DEF AddDate, FirstOf

\* A month ends after every date in it.
LEMMA MonthsEnd ==
    ASSUME NEW d \in Int
    PROVE  (d \div MonthDays + 1) * MonthDays \in Int /\ d < (d \div MonthDays + 1) * MonthDays
<1>1. PICK m \in Nat \ {0} : m = MonthDays  BY CalendarAssumption
<1>2. PICK q \in Int : q = d \div m  BY <1>1
<1>3. d = m * q + (d % m) /\ (d % m) \in 0 .. (m - 1)  BY <1>2
<1>4. d < (q + 1) * m  BY ONLY d \in Int, <1>1, <1>2, <1>3
<1>. QED  BY <1>1, <1>2, <1>4

CalendarTypes ==
    /\ zone \in Zones
    /\ range.first \in Int /\ range.last \in Int /\ range.first <= range.last
    /\ progress \in {"count", "cut", "done", "refused"}
    /\ days \in Nat \ {0}
    /\ bounds \in Seq(Int)

\* The days are counted by their midnights.
CountInv ==
    /\ day = FirstOf(zone, range.first + days - 1) /\ days <= range.last - range.first + 1
    /\ progress \in {"count", "refused"} => bounds = <<>>

IsMidnight(u) == \E d \in Int : u = FirstOf(zone, d)

\* What is cut lies in the range, and no midnight that was reached is missing.
CutInv ==
    progress \in {"cut", "done"} =>
      /\ days = range.last - range.first + 1
      /\ Len(bounds) >= 1 /\ bounds[1] = FirstOf(zone, range.first)
      /\ Last(bounds) <= RangeEnd
      /\ WindowsAdvance
      /\ Unit(days).unit = "hour" =>
           /\ \A i \in 1 .. Len(bounds) - 1 : bounds[i + 1] - bounds[i] <= Unit(days).size
           /\ \A d \in Int : range.first <= d /\ FirstOf(zone, d) <= Last(bounds) =>
                FirstOf(zone, d) \in Range(bounds)
      /\ Unit(days).unit # "hour" => IsMidnight(Last(bounds))
      /\ Unit(days).unit = "day" =>
           \A i \in 1 .. Len(bounds) : bounds[i] = FirstOf(zone, range.first + i - 1)

\* The invariant; the range is cut when its end is reached.
CalendarInv ==
    /\ CalendarTypes
    /\ CountInv
    /\ CutInv
    /\ progress = "done" => Last(bounds) = RangeEnd

\* The midnights of the query's zone.
LEMMA Midnights ==
    ASSUME AllBeginAtMidnight, CalendarTypes
    PROVE  /\ zone \in Zone /\ BeginsAtMidnight(zone)
           /\ \A u \in Int : DateOf(zone, u) \in Int
           /\ \A d \in Int : /\ FirstOf(zone, d) \in Int
                             /\ DateOf(zone, FirstOf(zone, d)) = d
           /\ \A d \in Int, u \in Int : DateOf(zone, u) >= d <=> u >= FirstOf(zone, d)
           /\ \A d \in Int, e \in Int : d < e <=> FirstOf(zone, d) < FirstOf(zone, e)
           /\ \A d \in Int, n \in Int : AddDate(zone, FirstOf(zone, d), n) = FirstOf(zone, d + n)
           /\ Start = FirstOf(zone, range.first) /\ LastStart = FirstOf(zone, range.last)
           /\ RangeEnd = FirstOf(zone, range.last + 1)
<1>1. zone \in Zone /\ BeginsAtMidnight(zone)
  BY CalendarAssumption DEF CalendarTypes, AllBeginAtMidnight, Zone
<1>2. \A d \in Int, n \in Int : AddDate(zone, FirstOf(zone, d), n) = FirstOf(zone, d + n)
  BY <1>1, MidnightsAdd
<1>3. Start = FirstOf(zone, range.first) /\ LastStart = FirstOf(zone, range.last)
  BY DEF Start, LastStart, FirstOf
<1>4. RangeEnd = FirstOf(zone, range.last + 1)
  <2>1. PICK last \in Int : range.last = last  BY DEF CalendarTypes
  <2>2. AddDate(zone, FirstOf(zone, last), 1) = FirstOf(zone, last + 1)
    BY <1>2, 1 \in Int
  <2>. QED  BY <1>3, <2>1, <2>2 DEF RangeEnd
<1>. QED  BY <1>1, <1>2, <1>3, <1>4, DatesFollow

\* What Unit gives.
LEMMA Units ==
    ASSUME NEW n \in Nat \ {0}
    PROVE  /\ Unit(n).unit \in {"hour", "day", "week", "month"} /\ Unit(n).size \in Nat \ {0}
           /\ Unit(n).unit = "day" => Unit(n).size = 1
           /\ Unit(n).unit = "hour" => n <= 2
<1>1. CASE n = 1  BY <1>1 DEF Unit
<1>2. CASE n = 2  BY <1>2 DEF Unit
<1>3. CASE n \in 3..31
  <2>1. n # 1 /\ n # 2  BY <1>3
  <2>2. ~(n \in 32..120)  BY <1>3
  <2>3. Unit(n) = [unit |-> "day", size |-> 1]  BY <1>3, <2>1, <2>2 DEF Unit
  <2>. QED  BY <2>3
<1>4. CASE n \in 32..120
  <2>1. n # 1 /\ n # 2 /\ ~(n \in 3..31)  BY <1>4
  <2>2. Unit(n) = [unit |-> "week", size |-> 7]  BY <1>4, <2>1 DEF Unit
  <2>. QED  BY <2>2
<1>5. CASE n # 1 /\ n # 2 /\ ~(n \in 3..31) /\ ~(n \in 32..120)
  <2>1. Unit(n) = [unit |-> "month", size |-> 1]  BY <1>5 DEF Unit
  <2>. QED  BY <2>1
<1>. QED  BY <1>1, <1>2, <1>3, <1>4, <1>5

\* The next boundary is later, in the range, and passes no midnight it should not.
LEMMA NextBoundGoes ==
    ASSUME AllBeginAtMidnight, CalendarTypes, NEW u \in Int, u < RangeEnd,
           Unit(days).unit # "hour" => IsMidnight(u)
    PROVE  /\ NextBound(u) \in Int /\ u < NextBound(u) /\ NextBound(u) <= RangeEnd
           /\ Unit(days).unit = "hour" =>
                /\ NextBound(u) - u <= Unit(days).size
                /\ \A d \in Int : FirstOf(zone, d) <= NextBound(u) =>
                     FirstOf(zone, d) <= u \/ FirstOf(zone, d) = NextBound(u)
           /\ Unit(days).unit # "hour" => IsMidnight(NextBound(u))
           /\ Unit(days).unit = "day" =>
                \A d \in Int : u = FirstOf(zone, d) => NextBound(u) = FirstOf(zone, d + 1)
<1>1. /\ \A v \in Int : DateOf(zone, v) \in Int
      /\ \A d \in Int : FirstOf(zone, d) \in Int /\ DateOf(zone, FirstOf(zone, d)) = d
      /\ \A d \in Int, v \in Int : DateOf(zone, v) >= d <=> v >= FirstOf(zone, d)
      /\ \A d \in Int, e \in Int : d < e <=> FirstOf(zone, d) < FirstOf(zone, e)
      /\ \A d \in Int, n \in Int : AddDate(zone, FirstOf(zone, d), n) = FirstOf(zone, d + n)
      /\ RangeEnd = FirstOf(zone, range.last + 1)
  BY Midnights
<1>2. range.last + 1 \in Int /\ days \in Nat \ {0}  BY DEF CalendarTypes
<1>3. PICK e \in Int : e = RangeEnd  BY <1>1, <1>2
<1>4. PICK w : w = Unit(days)  OBVIOUS
<1>5. /\ w.unit \in {"hour", "day", "week", "month"} /\ w.size \in Nat \ {0}
      /\ w.unit = "day" => w.size = 1
  BY <1>2, <1>4, Units
<1>6. \A x \in Int : Earlier(e, x) = (IF e < x THEN e ELSE x)  BY DEF Earlier
<1>7. CASE w.unit = "hour"
  <2>1. PICK d \in Int : d = DateOf(zone, u)  BY <1>1
  <2>2. PICK h \in Int : h = FirstOf(zone, d + 1) /\ u < h
    <3>1. d + 1 \in Int /\ ~(d >= d + 1)  OBVIOUS
    <3>2. PICK h \in Int : h = FirstOf(zone, d + 1)  BY <1>1, <3>1
    <3>3. DateOf(zone, u) >= d + 1 <=> u >= FirstOf(zone, d + 1)  BY <1>1, <3>1
    <3>4. ~(u >= h)  BY <2>1, <3>1, <3>2, <3>3
    <3>5. u < h  BY <3>4
    <3>. QED  BY <3>2, <3>5
  <2>3. PICK x \in Int : x = HourWindow(u, w.size) /\ x = IF u + w.size < h THEN u + w.size ELSE h
    BY <1>5, <2>1, <2>2 DEF HourWindow, Earlier, FirstOf
  <2>4. NextBound(u) = IF e < x THEN e ELSE x
    <3>1. NextBound(u) = Earlier(e, HourWindow(u, w.size))  BY <1>3, <1>4, <1>7 DEF NextBound
    <3>. QED  BY <1>6, <2>3, <3>1
  <2>5. ASSUME NEW c \in Int, FirstOf(zone, c) <= NextBound(u)
        PROVE  FirstOf(zone, c) <= u \/ FirstOf(zone, c) = NextBound(u)
    <3>1. PICK f \in Int : f = FirstOf(zone, c)  BY <1>1
    <3>2. CASE c <= d
      <4>1. u >= f  BY <1>1, <2>1, <3>1, <3>2
      <4>. QED  BY <3>1, <4>1
    <3>3. CASE c > d
      <4>1. c = d + 1 \/ d + 1 < c  BY <3>3
      <4>2. f >= h
        <5>1. d + 1 \in Int  OBVIOUS
        <5>2. d + 1 < c <=> FirstOf(zone, d + 1) < FirstOf(zone, c)  BY <1>1, <5>1
        <5>. QED  BY ONLY <2>2, <3>1, <4>1, <5>2
      <4>3. PICK y \in Int : y = NextBound(u) /\ y <= h  BY <1>3, <2>2, <2>3, <2>4
      <4>4. f <= y  BY <2>5, <3>1, <4>3
      <4>. QED  BY ONLY <3>1, <4>2, <4>3, <4>4
    <3>. QED  BY <3>2, <3>3
  <2>. QED  BY <1>3, <1>4, <1>5, <1>7, <2>2, <2>3, <2>4, <2>5
<1>8. CASE w.unit # "hour"
  <2>1. PICK d \in Int : u = FirstOf(zone, d)  BY <1>4, <1>8 DEF IsMidnight
  <2>2. d < range.last + 1  BY <1>1, <1>2, <2>1
  <2>3. PICK c \in Int : /\ d < c /\ NextBound(u) = Earlier(e, FirstOf(zone, c))
                         /\ w.unit = "day" => c = d + 1
    <3>1. CASE w.unit = "month"
      <4>1. PICK c \in Int : c = (d \div MonthDays + 1) * MonthDays /\ d < c  BY MonthsEnd
      <4>2. DateOf(zone, u) = d  BY <1>1, <2>1
      <4>3. MonthWindow(u) = FirstOf(zone, c)  BY <4>1, <4>2 DEF MonthWindow, FirstOf
      <4>4. NextBound(u) = Earlier(e, MonthWindow(u))  BY <1>3, <1>4, <3>1 DEF NextBound
      <4>. QED  BY <3>1, <4>1, <4>3, <4>4
    <3>2. CASE w.unit # "month"
      <4>1. NextBound(u) = Earlier(e, AddDate(zone, u, w.size))  BY <1>3, <1>4, <1>8, <3>2 DEF NextBound
      <4>2. PICK n \in Int : n = w.size /\ n > 0 /\ (w.unit = "day" => n = 1)  BY <1>5
      <4>3. AddDate(zone, FirstOf(zone, d), n) = FirstOf(zone, d + n)  BY <1>1, <4>2
      <4>4. d + n \in Int /\ d < d + n /\ (w.unit = "day" => d + n = d + 1)  BY <4>2
      <4>5. NextBound(u) = Earlier(e, FirstOf(zone, d + n))  BY <2>1, <4>1, <4>2, <4>3
      <4>. QED  BY <4>4, <4>5
    <3>. QED  BY <3>1, <3>2
  <2>4. PICK f \in Int : f = FirstOf(zone, c) /\ u < f  BY <1>1, <2>1, <2>3
  <2>5. NextBound(u) = IF e < f THEN e ELSE f  BY <1>6, <2>3, <2>4
  <2>6. IsMidnight(NextBound(u))
    <3>1. NextBound(u) = FirstOf(zone, range.last + 1) \/ NextBound(u) = FirstOf(zone, c)
      BY <1>1, <1>3, <2>4, <2>5
    <3>. QED  BY <1>2, <3>1 DEF IsMidnight
  <2>7. ASSUME w.unit = "day", NEW b \in Int, u = FirstOf(zone, b)
        PROVE  NextBound(u) = FirstOf(zone, b + 1)
    <3>1. b = d /\ c = d + 1  BY <1>1, <2>1, <2>3, <2>7
    <3>2. ~(range.last + 1 < c)  BY <1>2, <2>2, <3>1
    <3>3. ~(e < f)  BY <1>1, <1>2, <1>3, <2>4, <3>2
    <3>. QED  BY <2>4, <2>5, <3>1, <3>3
  <2>. QED  BY <1>3, <1>4, <1>8, <2>4, <2>5, <2>6, <2>7
<1>. QED  BY <1>7, <1>8

\* Every range begins with nothing cut and its first day counted.
LEMMA CalendarBegins == AllBeginAtMidnight /\ CalendarInit => CalendarInv
<1>. SUFFICES ASSUME AllBeginAtMidnight, CalendarInit PROVE CalendarInv  OBVIOUS
<1>1. PICK f \in Int, n \in Int : n >= 1 /\ range = [first |-> f, last |-> f + n - 1]
  <2>1. PICK f \in FirstDates, n \in Lengths : range = [first |-> f, last |-> f + n - 1]
    <3>1. range \in {[first |-> f, last |-> f + n - 1] : f \in FirstDates, n \in Lengths}
      BY DEF CalendarInit
    <3>. QED  BY ONLY <3>1
  <2>2. f \in Int /\ n \in Int /\ n >= 1  BY CalendarAssumption
  <2>. QED  BY <2>1, <2>2
<1>2. /\ range.first = f /\ range.last = f + n - 1
  BY <1>1
<1>3. CalendarTypes  BY <1>1, <1>2 DEF CalendarInit, CalendarTypes
<1>4. Start = FirstOf(zone, f)  BY <1>2, <1>3, Midnights
<1>5. CountInv
  <2>1. day = FirstOf(zone, range.first + days - 1)
    <3>1. f + 1 - 1 = f  OBVIOUS
    <3>. QED  BY <1>2, <1>4, <3>1 DEF CalendarInit
  <2>2. days <= range.last - range.first + 1  BY <1>1, <1>2 DEF CalendarInit
  <2>. QED  BY <2>1, <2>2 DEF CountInv, CalendarInit
<1>6. progress \in {"count", "refused"}  BY DEF CalendarInit
<1>. QED  BY <1>3, <1>5, <1>6 DEF CalendarInv, CutInv

\* A day is counted by the next midnight.
LEMMA CountDayKeeps ==
    ASSUME AllBeginAtMidnight, CalendarInv, CountDay PROVE CalendarInv'
<1>. USE DEF CalendarInv
<1>1. /\ zone' = zone /\ range' = range /\ progress' = "count" /\ bounds' = bounds /\ bounds = <<>>
      /\ days' = days + 1 /\ day' = AddDate(zone, day, 1) /\ day < LastStart
  BY DEF CountDay, CountInv
<1>2. CalendarTypes'  BY <1>1 DEF CalendarTypes
<1>3. PICK f \in Int, e \in Int, n \in Int : f = range.first /\ e = range.last /\ n = days
  BY DEF CalendarTypes
<1>4. PICK d \in Int : d = f + n - 1 /\ day = FirstOf(zone, d)  BY <1>3 DEF CountInv
<1>5. AddDate(zone, FirstOf(zone, d), 1) = FirstOf(zone, d + 1)  BY Midnights, 1 \in Int
<1>6. d < e
  <2>1. FirstOf(zone, d) < FirstOf(zone, e)  BY <1>1, <1>3, <1>4, Midnights
  <2>2. d < e <=> FirstOf(zone, d) < FirstOf(zone, e)  BY Midnights
  <2>. QED  BY <2>1, <2>2
<1>7. CountInv'
  <2>1. range'.first + days' - 1 = d + 1  BY <1>1, <1>3, <1>4
  <2>2. day' = FirstOf(zone', range'.first + days' - 1)  BY <1>1, <1>4, <1>5, <2>1
  <2>3. days' <= range'.last - range'.first + 1  BY <1>1, <1>3, <1>4, <1>6
  <2>. QED  BY <1>1, <2>2, <2>3 DEF CountInv
<1>. QED  BY <1>1, <1>2, <1>7 DEF CutInv

\* The unit is chosen when the days are counted, and the first midnight is cut.
LEMMA ChooseUnitKeeps ==
    ASSUME AllBeginAtMidnight, CalendarInv, ChooseUnit PROVE CalendarInv'
<1>. USE DEF CalendarInv
<1>1. /\ zone' = zone /\ range' = range /\ progress' = "cut" /\ bounds' = <<Start>>
      /\ days' = days /\ day' = day /\ day >= LastStart
  BY DEF ChooseUnit
<1>2. PICK f \in Int, e \in Int, n \in Int : f = range.first /\ e = range.last /\ n = days /\ f <= e
  BY DEF CalendarTypes
<1>3. PICK s \in Int : s = Start /\ s = FirstOf(zone, f)  BY <1>2, Midnights
<1>4. CalendarTypes'  BY <1>1, <1>3 DEF CalendarTypes
<1>5. n = e - f + 1
  <2>1. PICK d \in Int : d = f + n - 1 /\ day = FirstOf(zone, d) /\ d <= e  BY <1>2 DEF CountInv
  <2>2. ~(d < e)
    <3>1. PICK x \in Int, y \in Int : x = FirstOf(zone, d) /\ y = FirstOf(zone, e) /\ LastStart = y
      BY <1>2, Midnights
    <3>2. d < e <=> x < y  BY <3>1, Midnights
    <3>3. ~(x < y)  BY <1>1, <2>1, <3>1
    <3>. QED  BY <3>2, <3>3
  <2>. QED  BY <2>1, <2>2
<1>6. CountInv'  BY <1>1 DEF CountInv
<1>7. /\ Len(bounds') = 1 /\ bounds'[1] = s /\ Last(bounds') = s
  BY <1>1, <1>3 DEF Last
<1>8. CutInv'
  <2>1. RangeEnd' = RangeEnd  BY <1>1 DEF RangeEnd, LastStart
  <2>2. s <= RangeEnd
    <3>1. f < e + 1 /\ e + 1 \in Int  BY <1>2
    <3>2. RangeEnd = FirstOf(zone, e + 1) /\ RangeEnd \in Int  BY <1>2, <3>1, Midnights
    <3>3. FirstOf(zone, f) < FirstOf(zone, e + 1)  BY <1>2, <3>1, Midnights
    <3>. QED  BY <1>3, <3>2, <3>3
  <2>3. WindowsAdvance'  BY <1>7 DEF WindowsAdvance
  <2>4. ASSUME NEW d \in Int, f <= d, FirstOf(zone, d) <= s PROVE FirstOf(zone, d) \in Range(bounds')
    <3>1. ~(f < d)  BY <1>3, <2>4, Midnights
    <3>2. FirstOf(zone, d) = bounds'[1]  BY <1>3, <1>7, <2>4, <3>1
    <3>. QED  BY <1>1, <3>2 DEF Range
  <2>5. IsMidnight(s)  BY <1>3 DEF IsMidnight
  <2>6. \A i \in 1 .. 1 : bounds'[i] = FirstOf(zone, f + i - 1)  BY <1>3, <1>7
  <2>7. days' = range'.last - range'.first + 1  BY <1>1, <1>2, <1>5
  <2>8. bounds'[1] = FirstOf(zone', range'.first)  BY <1>1, <1>2, <1>3, <1>7
  <2>9. Unit(days') = Unit(days)  BY <1>1
  <2>10. IsMidnight(s)' <=> IsMidnight(s)  BY <1>1, <1>3 DEF IsMidnight
  <2>11. \A i \in 1 .. Len(bounds') - 1 : FALSE  BY <1>7
  <2>12. Unit(days').unit = "hour" =>
           /\ \A i \in 1 .. Len(bounds') - 1 : bounds'[i + 1] - bounds'[i] <= Unit(days').size
           /\ \A d \in Int : range'.first <= d /\ FirstOf(zone', d) <= Last(bounds') =>
                FirstOf(zone', d) \in Range(bounds')
    BY <1>1, <1>2, <1>7, <2>4, <2>11
  <2>13. Unit(days').unit # "hour" => IsMidnight(Last(bounds))'  BY <1>1, <1>2, <1>3, <1>7 DEF IsMidnight
  <2>14. \A i \in 1 .. Len(bounds') : bounds'[i] = FirstOf(zone', range'.first + i - 1)
    BY <1>1, <1>2, <1>7, <2>6
  <2>. QED  BY <1>7, <2>1, <2>2, <2>3, <2>7, <2>8, <2>12, <2>13, <2>14 DEF CutInv
<1>. QED  BY <1>1, <1>4, <1>6, <1>8

\* A window is cut from the last boundary to the next one.
LEMMA CutWindowKeeps ==
    ASSUME AllBeginAtMidnight, CalendarInv, CutWindow PROVE CalendarInv'
<1>1. /\ zone' = zone /\ range' = range /\ progress = "cut" /\ progress' = "cut"
      /\ days' = days /\ day' = day
      /\ Last(bounds) < RangeEnd /\ bounds' = Append(bounds, NextBound(Last(bounds)))
  BY DEF CutWindow
<1>2. /\ CalendarTypes /\ CountInv /\ CutInv  BY DEF CalendarInv
<1>3. bounds \in Seq(Int) /\ days \in Nat \ {0}  BY <1>2 DEF CalendarTypes
<1>4. PICK n \in Nat : n = Len(bounds) /\ n >= 1  BY <1>1, <1>2, <1>3 DEF CutInv
<1>5. PICK u \in Int : u = Last(bounds) /\ u = bounds[n]  BY <1>3, <1>4 DEF Last
<1>6. PICK w : w = Unit(days)  OBVIOUS
<1>7. w.unit # "hour" => IsMidnight(u)  BY <1>1, <1>2, <1>5, <1>6 DEF CutInv
<1>8. PICK v : v = NextBound(u)  OBVIOUS
<1>9. /\ v \in Int /\ u < v /\ v <= RangeEnd
      /\ w.unit = "hour" =>
           /\ v - u <= w.size
           /\ \A d \in Int : FirstOf(zone, d) <= v => FirstOf(zone, d) <= u \/ FirstOf(zone, d) = v
      /\ w.unit # "hour" => IsMidnight(v)
      /\ w.unit = "day" => \A d \in Int : u = FirstOf(zone, d) => v = FirstOf(zone, d + 1)
  BY <1>1, <1>2, <1>5, <1>6, <1>7, <1>8, NextBoundGoes
<1>10. bounds' = Append(bounds, v)  BY <1>1, <1>5, <1>8
<1>11. /\ Len(bounds') = n + 1 /\ bounds'[n + 1] = v /\ Last(bounds') = v
       /\ \A i \in 1 .. n : bounds'[i] = bounds[i]
  BY <1>3, <1>4, <1>9, <1>10 DEF Last
<1>12. CalendarTypes'  BY <1>1, <1>2, <1>3, <1>9, <1>10 DEF CalendarTypes
<1>13. CountInv'  BY <1>1, <1>2 DEF CountInv
<1>14. WindowsAdvance'
  <2>1. \A i \in 1 .. n - 1 : bounds[i] < bounds[i + 1]
    BY <1>1, <1>2, <1>4 DEF CutInv, WindowsAdvance
  <2>2. ASSUME NEW i \in 1 .. n PROVE bounds'[i] < bounds'[i + 1]
    <3>1. CASE i = n  BY <1>5, <1>9, <1>11, <3>1
    <3>2. CASE i # n
      <4>1. i \in 1 .. n - 1 /\ i + 1 \in 1 .. n  BY <3>2
      <4>. QED  BY <1>11, <2>1, <4>1
    <3>. QED  BY <3>1, <3>2
  <2>. QED  BY <1>11, <2>2 DEF WindowsAdvance
<1>15. ASSUME w.unit = "hour"
       PROVE  /\ \A i \in 1 .. n : bounds'[i + 1] - bounds'[i] <= w.size
              /\ \A d \in Int : range.first <= d /\ FirstOf(zone, d) <= v =>
                   FirstOf(zone, d) \in Range(bounds')
  <2>1. /\ \A i \in 1 .. n - 1 : bounds[i + 1] - bounds[i] <= w.size
        /\ \A d \in Int : range.first <= d /\ FirstOf(zone, d) <= u => FirstOf(zone, d) \in Range(bounds)
    BY <1>1, <1>2, <1>4, <1>5, <1>6, <1>15 DEF CutInv
  <2>2. ASSUME NEW i \in 1 .. n PROVE bounds'[i + 1] - bounds'[i] <= w.size
    <3>1. CASE i = n  BY <1>5, <1>9, <1>11, <1>15, <3>1
    <3>2. CASE i # n
      <4>1. i \in 1 .. n - 1 /\ i + 1 \in 1 .. n  BY <3>2
      <4>. QED  BY <1>11, <2>1, <4>1
    <3>. QED  BY <3>1, <3>2
  <2>3. ASSUME NEW d \in Int, range.first <= d, FirstOf(zone, d) <= v
        PROVE  FirstOf(zone, d) \in Range(bounds')
    <3>1. CASE FirstOf(zone, d) = v
      <4>1. n + 1 \in DOMAIN bounds'  BY <1>4, <1>10, <1>3, <1>9
      <4>. QED  BY <1>11, <3>1, <4>1 DEF Range
    <3>2. CASE FirstOf(zone, d) <= u
      <4>1. PICK i \in DOMAIN bounds : bounds[i] = FirstOf(zone, d)  BY <2>1, <2>3, <3>2 DEF Range
      <4>2. i \in 1 .. n /\ i \in DOMAIN bounds'  BY <1>3, <1>4, <1>9, <1>10
      <4>3. bounds'[i] = FirstOf(zone, d)  BY <1>11, <4>1, <4>2
      <4>. QED  BY <4>2, <4>3 DEF Range
    <3>. QED  BY <1>9, <1>15, <2>3, <3>1, <3>2
  <2>. QED  BY <2>2, <2>3
<1>16. ASSUME w.unit = "day"
       PROVE  \A i \in 1 .. n + 1 : bounds'[i] = FirstOf(zone, range.first + i - 1)
  <2>1. \A i \in 1 .. n : bounds[i] = FirstOf(zone, range.first + i - 1)
    BY <1>1, <1>2, <1>4, <1>6, <1>16 DEF CutInv
  <2>2. PICK f \in Int : f = range.first  BY <1>2 DEF CalendarTypes
  <2>3. PICK d \in Int : d = f + n - 1  OBVIOUS
  <2>4. u = FirstOf(zone, d)  BY <1>4, <1>5, <2>1, <2>2, <2>3
  <2>5. v = FirstOf(zone, d + 1)  BY <1>9, <1>16, <2>4
  <2>6. d + 1 = f + (n + 1) - 1  BY <2>3
  <2>7. bounds'[n + 1] = FirstOf(zone, range.first + (n + 1) - 1)  BY <1>11, <2>2, <2>5, <2>6
  <2>8. ASSUME NEW i \in 1 .. n + 1, i # n + 1 PROVE bounds'[i] = FirstOf(zone, range.first + i - 1)
    <3>1. i \in 1 .. n  BY <2>8
    <3>. QED  BY <1>11, <2>1, <3>1
  <2>. QED  BY <2>7, <2>8
<1>17. CutInv'
  <2>1. RangeEnd' = RangeEnd  BY <1>1 DEF RangeEnd, LastStart
  <2>2. /\ days' = range'.last - range'.first + 1 /\ bounds'[1] = FirstOf(zone', range'.first)
    <3>1. days = range.last - range.first + 1 /\ bounds[1] = FirstOf(zone, range.first)
      BY <1>1, <1>2 DEF CutInv
    <3>. QED  BY <1>1, <1>4, <1>11, <3>1
  <2>3. Unit(days').unit # "hour" => IsMidnight(Last(bounds))'
    BY <1>1, <1>6, <1>9, <1>11 DEF IsMidnight
  <2>4. Len(bounds') >= 1 /\ Last(bounds') <= RangeEnd'  BY <1>4, <1>9, <1>11, <2>1
  <2>5. Unit(days').unit = "hour" =>
           /\ \A i \in 1 .. Len(bounds') - 1 : bounds'[i + 1] - bounds'[i] <= Unit(days').size
           /\ \A d \in Int : range'.first <= d /\ FirstOf(zone', d) <= Last(bounds') =>
                FirstOf(zone', d) \in Range(bounds')
    <3>1. Len(bounds') - 1 = n  BY <1>4, <1>11
    <3>. QED  BY <1>1, <1>6, <1>11, <1>15, <3>1
  <2>6. Unit(days').unit = "day" =>
           \A i \in 1 .. Len(bounds') : bounds'[i] = FirstOf(zone', range'.first + i - 1)
    BY <1>1, <1>6, <1>11, <1>16
  <2>. QED  BY <1>14, <2>2, <2>3, <2>4, <2>5, <2>6 DEF CutInv
<1>. QED  BY <1>1, <1>12, <1>13, <1>17 DEF CalendarInv

\* The cutting ends when the last boundary is the range's end.
LEMMA AllCutKeeps ==
    ASSUME AllBeginAtMidnight, CalendarInv, AllCut PROVE CalendarInv'
<1>1. /\ zone' = zone /\ range' = range /\ progress = "cut" /\ progress' = "done"
      /\ days' = days /\ day' = day /\ bounds' = bounds /\ Last(bounds) >= RangeEnd
  BY DEF AllCut
<1>2. /\ CalendarTypes /\ CountInv /\ CutInv  BY DEF CalendarInv
<1>3. CalendarTypes' /\ CountInv'  BY <1>1, <1>2 DEF CalendarTypes, CountInv
<1>4. RangeEnd' = RangeEnd /\ Last(bounds') = RangeEnd
  <2>1. Len(bounds) >= 1 /\ Last(bounds) <= RangeEnd  BY <1>1, <1>2 DEF CutInv
  <2>2. Last(bounds) \in Int  BY <1>2, <2>1 DEF Last, CalendarTypes
  <2>3. range.last + 1 \in Int  BY <1>2 DEF CalendarTypes
  <2>4. RangeEnd \in Int  BY <1>2, <2>3, Midnights
  <2>5. Last(bounds) = RangeEnd  BY <1>1, <2>1, <2>2, <2>4
  <2>. QED  BY <1>1, <2>5 DEF RangeEnd, LastStart
<1>5. CutInv'
  <2>1. (IsMidnight(Last(bounds)))' <=> IsMidnight(Last(bounds))  BY <1>1 DEF IsMidnight
  <2>2. WindowsAdvance' <=> WindowsAdvance  BY <1>1 DEF WindowsAdvance
  <2>. QED  BY <1>1, <1>2, <1>4, <2>1, <2>2 DEF CutInv
<1>. QED  BY <1>1, <1>3, <1>4, <1>5 DEF CalendarInv

\* A range that is cut is covered.
LEMMA RangeIsCovered ==
    ASSUME AllBeginAtMidnight, CalendarInv, progress = "done" PROVE WindowsCoverRange
<1>1. /\ CalendarTypes /\ CutInv /\ Last(bounds) = RangeEnd  BY DEF CalendarInv
<1>2. PICK f \in Int, e \in Int, n \in Nat \ {0} :
        /\ f = range.first /\ e = range.last /\ n = days /\ f <= e /\ n = e - f + 1
  BY <1>1 DEF CalendarTypes, CutInv
<1>3. \A d : Midnight(d) = FirstOf(zone, d)  BY DEF Midnight, FirstOf
<1>4. RangeEnd = FirstOf(zone, e + 1)  BY <1>1, <1>2, Midnights
<1>5. bounds[1] = Midnight(f) /\ Last(bounds) = Midnight(e + 1)
  BY <1>1, <1>2, <1>3, <1>4 DEF CutInv
<1>6. ASSUME Unit(days).unit = "hour"
      PROVE  /\ \A i \in 1 .. Len(bounds) - 1 : bounds[i + 1] - bounds[i] <= Unit(days).size
             /\ \A d \in f .. e : Midnight(d) \in Range(bounds)
  <2>1. ASSUME NEW d \in f .. e PROVE Midnight(d) \in Range(bounds)
    <3>1. d \in Int /\ f <= d /\ d < e + 1 /\ e + 1 \in Int  BY <1>2
    <3>2. PICK x \in Int, y \in Int : x = FirstOf(zone, d) /\ y = FirstOf(zone, e + 1)
      BY <1>1, <3>1, Midnights
    <3>3. x < y  BY <1>1, <3>1, <3>2, Midnights
    <3>4. FirstOf(zone, d) <= Last(bounds)  BY <1>1, <1>4, <3>2, <3>3
    <3>. QED  BY <1>1, <1>2, <1>3, <1>6, <3>1, <3>4 DEF CutInv
  <2>. QED  BY <1>1, <1>6, <2>1 DEF CutInv
<1>7. ASSUME Unit(days).unit = "day"
      PROVE  \A i \in 1 .. n : bounds[i] = Midnight(f + i - 1)
  <2>1. PICK l \in Nat : l = Len(bounds) /\ l >= 1  BY <1>1 DEF CalendarTypes, CutInv
  <2>2. \A i \in 1 .. l : bounds[i] = FirstOf(zone, f + i - 1)
    BY <1>1, <1>2, <1>7, <2>1 DEF CutInv
  <2>3. Last(bounds) = bounds[l]  BY <2>1 DEF Last
  <2>4. FirstOf(zone, f + l - 1) = FirstOf(zone, e + 1)  BY <1>1, <1>4, <2>1, <2>2, <2>3
  <2>5. f + l - 1 = e + 1
    <3>1. PICK a \in Int, b \in Int : a = f + l - 1 /\ b = e + 1  OBVIOUS
    <3>2. PICK x \in Int : x = FirstOf(zone, a) /\ x = FirstOf(zone, b)  BY <1>1, <2>4, <3>1, Midnights
    <3>3. ~(a < b) /\ ~(b < a)  BY <1>1, <3>1, <3>2, Midnights
    <3>. QED  BY <3>1, <3>3
  <2>. QED  BY <1>2, <1>3, <2>2, <2>5
<1>. QED  BY <1>2, <1>5, <1>6, <1>7 DEF WindowsCoverRange

\* A day of any length is cut into windows of two hours without a gap.
LEMMA TwoHoursTile ==
    ASSUME NEW s \in Int, NEW e \in Int, NEW u \in s .. e - 1, NEW windows,
           windows = TwoHourWindows([start |-> s, end |-> e]),
           NEW w, w = windows[TwoHourIndex([start |-> s, end |-> e], u, Len(windows))]
    PROVE  u \in w.start .. w.end - 1
<1>1. PICK n \in Int : n = (e - s + 1) \div 2 /\ 2 * n <= e - s + 1 /\ e - s + 1 < 2 * n + 2
  OBVIOUS
<1>2. n >= 1  BY <1>1
<1>3. windows = [i \in 1 .. n |-> [start |-> s + (i - 1) * 2, end |-> IF s + i * 2 > e THEN e ELSE s + i * 2]]
  <2>1. e - s + TwoHours - 1 = e - s + 1  BY DEF TwoHours
  <2>. QED  BY <1>1, <2>1 DEF TwoHourWindows, TwoHours
<1>4. Len(windows) = n  BY <1>2, <1>3
<1>5. PICK q \in Int : q = (u - s) \div 2 /\ 2 * q <= u - s /\ u - s < 2 * q + 2  OBVIOUS
<1>6. q + 1 \in 1 .. n  BY <1>1, <1>5
<1>7. TwoHourIndex([start |-> s, end |-> e], u, n) = q + 1
  BY <1>5, <1>6 DEF TwoHourIndex, TwoHours
<1>8. w = [start |-> s + q * 2, end |-> IF s + (q + 1) * 2 > e THEN e ELSE s + (q + 1) * 2]
  <2>1. PICK i \in 1 .. n : i = q + 1  BY <1>6
  <2>2. w = windows[i]
    <3>1. TwoHourIndex([start |-> s, end |-> e], u, Len(windows)) = i  BY ONLY <1>4, <1>7, <2>1
    <3>. QED  BY ONLY <3>1, w = windows[TwoHourIndex([start |-> s, end |-> e], u, Len(windows))]
  <2>3. windows[i] = [start |-> s + (i - 1) * 2, end |-> IF s + i * 2 > e THEN e ELSE s + i * 2]
    BY ONLY <1>3, <2>1
  <2>4. i - 1 = q  BY <1>5, <2>1
  <2>. QED  BY ONLY <2>1, <2>2, <2>3, <2>4
<1>9. PICK x \in Int, y \in Int :
        /\ w.start = x /\ x = s + q * 2
        /\ w.end = y /\ y = IF s + (q + 1) * 2 > e THEN e ELSE s + (q + 1) * 2
  BY <1>8
<1>10. u \in Int /\ u < e  OBVIOUS
<1>11. x <= u /\ u < y  BY <1>5, <1>9, <1>10
<1>. QED  BY <1>9, <1>10, <1>11

\* An hour between two midnights belongs to the day that the first begins.
LEMMA DayIsItsHours ==
    ASSUME NEW z \in Zone, BeginsAtMidnight(z), NEW d \in Int, NEW u \in Int,
           FirstOf(z, d) <= u, u < FirstOf(z, d + 1)
    PROVE  DateOf(z, u) = d /\ DayOf(z, u) = [start |-> FirstOf(z, d), end |-> FirstOf(z, d + 1)]
<1>1. d + 1 \in Int  OBVIOUS
<1>2. PICK q \in Int : q = DateOf(z, u)  BY DatesFollow
<1>3. PICK x \in Int, y \in Int : x = FirstOf(z, d) /\ y = FirstOf(z, d + 1)  BY <1>1, DatesFollow
<1>4. /\ DateOf(z, u) >= d <=> u >= FirstOf(z, d)
      /\ DateOf(z, u) >= d + 1 <=> u >= FirstOf(z, d + 1)
  BY <1>1, DatesFollow
<1>5. q >= d /\ ~(q >= d + 1)  BY <1>2, <1>3, <1>4
<1>6. q = d  BY <1>5
<1>7. AddDate(z, FirstOf(z, d), 1) = FirstOf(z, d + 1)  BY MidnightsAdd
<1>8. DayOf(z, u) = [start |-> FirstOf(z, d), end |-> AddDate(z, FirstOf(z, d), 1)]
  BY <1>2, <1>6 DEF DayOf, FirstOf
<1>. QED  BY <1>2, <1>6, <1>7, <1>8

\* The days next to one another meet.
LEMMA DaysDoMeet ==
    ASSUME AllBeginAtMidnight, CalendarTypes PROVE DaysMeet
<1>1. PICK f \in Int : f = range.first  BY DEF CalendarTypes
<1>2. zone \in Zone /\ BeginsAtMidnight(zone) /\ Start = FirstOf(zone, f)  BY <1>1, Midnights
<1>3. f - 1 \in Int /\ f + 1 \in Int /\ f + 2 \in Int  OBVIOUS
<1>4. PICK r \in Int, s \in Int, e \in Int, t \in Int :
        /\ r = FirstOf(zone, f - 1) /\ s = FirstOf(zone, f)
        /\ e = FirstOf(zone, f + 1) /\ t = FirstOf(zone, f + 2)
  BY <1>2, <1>3, DatesFollow
<1>5. r < s /\ s < e /\ e < t
  <2>1. f - 1 < f /\ f < f + 1 /\ f + 1 < f + 2  OBVIOUS
  <2>. QED  BY <1>2, <1>3, <1>4, <2>1, DatesFollow
<1>6. ASSUME NEW u \in s .. e - 1 PROVE DayOf(zone, u) = [start |-> s, end |-> e]
  <2>1. u \in Int /\ s <= u /\ u < e  OBVIOUS
  <2>. QED  BY <1>2, <1>4, <2>1, DayIsItsHours
<1>7. s \in s .. e - 1 /\ s - 1 \in Int /\ r <= s - 1 /\ s - 1 < s /\ e <= e  BY <1>5
<1>8. DayOf(zone, Start) = [start |-> s, end |-> e]  BY <1>2, <1>4, <1>6, <1>7
<1>9. DayOf(zone, e) = [start |-> e, end |-> t]
  <2>1. f + 1 + 1 = f + 2  OBVIOUS
  <2>2. FirstOf(zone, f + 1) <= e /\ e < FirstOf(zone, f + 1 + 1)  BY <1>4, <1>5, <2>1
  <2>. QED  BY <1>2, <1>3, <1>4, <2>1, <2>2, DayIsItsHours
<1>10. DayOf(zone, s - 1) = [start |-> r, end |-> s]
  <2>1. f - 1 + 1 = f  OBVIOUS
  <2>2. FirstOf(zone, f - 1) <= s - 1 /\ s - 1 < FirstOf(zone, f - 1 + 1)  BY <1>4, <1>7, <2>1
  <2>. QED  BY <1>2, <1>3, <1>4, <1>7, <2>1, <2>2, DayIsItsHours
<1>11. AddDate(zone, e, 1) = t /\ AddDate(zone, s, -1) = r
  <2>1. f + 1 + 1 = f + 2 /\ f + (-1) = f - 1 /\ -1 \in Int  OBVIOUS
  <2>2. AddDate(zone, FirstOf(zone, f + 1), 1) = FirstOf(zone, f + 1 + 1)  BY <1>2, <1>3, MidnightsAdd
  <2>3. AddDate(zone, FirstOf(zone, f), -1) = FirstOf(zone, f + (-1))  BY <1>2, <2>1, MidnightsAdd
  <2>. QED  BY <1>4, <2>1, <2>2, <2>3
<1>. DEFINE today == [start |-> s, end |-> e]
<1>12. NextDay(zone, today) = DayOf(zone, e) /\ PreviousDay(zone, today) = DayOf(zone, s - 1)
  BY <1>9, <1>10, <1>11 DEF NextDay, PreviousDay
<1>13. ASSUME NEW u \in s .. e - 1 PROVE LastDays(zone, u, 2) = [start |-> r, end |-> e]
  <2>1. LastDays(zone, u, 2) = [start |-> AddDate(zone, s, -(2 - 1)), end |-> e]
    <3>1. ~(2 <= 1)  OBVIOUS
    <3>2. PICK own : own = DayOf(zone, u) /\ own.start = s /\ own.end = e  BY <1>6
    <3>. QED  BY <3>1, <3>2 DEF LastDays
  <2>2. -(2 - 1) = -1  OBVIOUS
  <2>. QED  BY <1>11, <2>1, <2>2
<1>14. ASSUME NEW u \in s .. e - 1, NEW windows, windows = TwoHourWindows(today),
              NEW w, w = windows[TwoHourIndex(today, u, Len(windows))]
       PROVE  u \in w.start .. w.end - 1
  BY <1>14, TwoHoursTile
<1>. QED  BY <1>6, <1>8, <1>9, <1>10, <1>12, <1>13, <1>14 DEF DaysMeet

\* The invariant holds of every query.
THEOREM CalendarInvariant ==
    ASSUME AllBeginAtMidnight PROVE CalendarSpec => []CalendarInv
<1>1. CalendarInit => CalendarInv  BY CalendarBegins
<1>2. CalendarInv /\ [CalendarNext]_calendarVars => CalendarInv'
  <2>. SUFFICES ASSUME CalendarInv, [CalendarNext]_calendarVars PROVE CalendarInv'  OBVIOUS
  <2>1. CASE CountDay  BY <2>1, CountDayKeeps
  <2>2. CASE ChooseUnit  BY <2>2, ChooseUnitKeeps
  <2>3. CASE CutWindow  BY <2>3, CutWindowKeeps
  <2>4. CASE AllCut  BY <2>4, AllCutKeeps
  <2>5. CASE UNCHANGED calendarVars
    BY <2>5 DEF calendarVars, CalendarInv, CalendarTypes, CountInv, CutInv, WindowsAdvance,
                IsMidnight, RangeEnd, LastStart
  <2>. QED  BY <2>1, <2>2, <2>3, <2>4, <2>5 DEF CalendarNext
<1>. QED  BY <1>1, <1>2, PTL DEF CalendarSpec

\* In every set of zones whose days begin at midnight.
THEOREM DaysAreTiled ==
    ASSUME AllBeginAtMidnight PROVE CalendarSpec => []WindowsTile
<1>1. CalendarInv => WindowsTile
  <2>. SUFFICES ASSUME CalendarInv PROVE WindowsTile  OBVIOUS
  <2>1. WindowsAdvance
    <3>1. CASE progress \in {"cut", "done"}  BY <3>1 DEF CalendarInv, CutInv
    <3>2. CASE progress \in {"count", "refused"}
      <4>1. bounds = <<>>  BY <3>2 DEF CalendarInv, CountInv
      <4>2. \A i \in 1 .. Len(bounds) - 1 : FALSE  BY <4>1
      <4>. QED  BY <4>2 DEF WindowsAdvance
    <3>. QED  BY <3>1, <3>2 DEF CalendarInv, CalendarTypes
  <2>2. CalendarTypes  BY DEF CalendarInv
  <2>. QED  BY <2>1, <2>2, RangeIsCovered, DaysDoMeet DEF WindowsTile
<1>. QED  BY <1>1, CalendarInvariant, PTL

-----------------------------------------------------------------------------
(* The line counts *)

\* Ranks in a set of numbers: every number from 1 up to its size is one.
LEMMA RanksExist ==
    ASSUME NEW n \in Nat, NEW S \in SUBSET (1 .. n)
    PROVE  /\ IsFiniteSet(S) /\ Cardinality(S) \in Nat
           /\ \A k \in 1..Cardinality(S) : Nth(S, k) \in S
<1>. DEFINE Ranked(T) == \A k \in 1..Cardinality(T) : \E m \in T : Cardinality({j \in T : j <= m}) = k
            P == {b \in Nat : \A T \in SUBSET (1..b) : IsFiniteSet(T) /\ Cardinality(T) \in Nat /\ Ranked(T)}
<1>1. 0 \in P
  <2>1. \A T \in SUBSET (1..0) : T = {}  OBVIOUS
  <2>2. IsFiniteSet({}) /\ Cardinality({}) = 0  BY FS_EmptySet
  <2>3. Ranked({})  BY <2>2
  <2>4. \A T \in SUBSET (1..0) : IsFiniteSet(T) /\ Cardinality(T) \in Nat /\ Ranked(T)
    <3>1. IsFiniteSet({}) /\ Cardinality({}) \in Nat /\ Ranked({})  BY <2>2, <2>3
    <3>. HIDE DEF Ranked
    <3>. SUFFICES ASSUME NEW T \in SUBSET (1..0) PROVE IsFiniteSet(T) /\ Cardinality(T) \in Nat /\ Ranked(T)
      OBVIOUS
    <3>2. T = {}  BY <2>1
    <3>. QED  BY <3>1, <3>2
  <2>. QED  BY <2>4
<1>2. ASSUME NEW b \in Nat, b \in P PROVE b + 1 \in P
  <2>. SUFFICES \A T \in SUBSET (1..(b + 1)) : IsFiniteSet(T) /\ Cardinality(T) \in Nat /\ Ranked(T)
    <3>. HIDE DEF Ranked
    <3>. QED  OBVIOUS
  <2>. SUFFICES ASSUME NEW T \in SUBSET (1..(b + 1))
                PROVE  IsFiniteSet(T) /\ Cardinality(T) \in Nat /\ Ranked(T)
    <3>. HIDE DEF Ranked
    <3>. QED  OBVIOUS
  <2>1. CASE b + 1 \notin T
    <3>1. T \in SUBSET (1..b)  BY <2>1
    <3>. QED  BY <1>2, <3>1
  <2>2. CASE b + 1 \in T
    <3>. DEFINE V == T \ {b + 1}
    <3>1. V \in SUBSET (1..b) /\ T = V \cup {b + 1} /\ b + 1 \notin V  BY <2>2
    <3>2. IsFiniteSet(V) /\ Cardinality(V) \in Nat /\ Ranked(V)  BY <1>2, <3>1
    <3>. HIDE DEF V
    <3>3. IsFiniteSet(T) /\ Cardinality(T) = Cardinality(V) + 1  BY <3>1, <3>2, FS_AddElement
    <3>4. ASSUME NEW k \in 1..Cardinality(T) PROVE \E m \in T : Cardinality({j \in T : j <= m}) = k
      <4>1. CASE k = Cardinality(T)
        <5>1. \A j \in T : j <= b + 1  OBVIOUS
        <5>2. {j \in T : j <= b + 1} = T  BY <5>1
        <5>. QED  BY <2>2, <4>1, <5>2
      <4>2. CASE k # Cardinality(T)
        <5>1. k \in 1..Cardinality(V)  BY <3>2, <3>3, <4>2
        <5>2. PICK m \in V : Cardinality({j \in V : j <= m}) = k  BY <3>2, <5>1
        <5>3. m \in 1..b  BY <3>1
        <5>4. ~(b + 1 <= m)  BY <5>3
        <5>5. {j \in T : j <= m} = {j \in V : j <= m}  BY <3>1, <5>4
        <5>6. m \in T  BY <3>1
        <5>. QED  BY <5>2, <5>5, <5>6
      <4>. QED  BY <4>1, <4>2
    <3>5. Cardinality(T) \in Nat  BY <3>2, <3>3
    <3>. QED  BY <3>3, <3>4, <3>5
  <2>. QED  BY <2>1, <2>2
<1>3. P = Nat
  <2>1. P \in SUBSET Nat  OBVIOUS
  <2>. HIDE DEF P
  <2>. QED  BY <1>1, <1>2, <2>1, SetInduction
<1>4. IsFiniteSet(S) /\ Cardinality(S) \in Nat /\ Ranked(S)  BY <1>3
<1>. QED  BY <1>4 DEF Nth

\* What comes later is last.
LEMMA RanksGrow ==
    ASSUME NEW n \in Nat, NEW S \in SUBSET (1 .. n)
    PROVE  /\ Cardinality(S \cup {n + 1}) = Cardinality(S) + 1
           /\ \A k \in 1..Cardinality(S) : Nth(S \cup {n + 1}, k) = Nth(S, k)
           /\ Nth(S \cup {n + 1}, Cardinality(S) + 1) = n + 1
<1>. DEFINE V == S \cup {n + 1}
<1>1. n + 1 \notin S  OBVIOUS
<1>2. IsFiniteSet(S) /\ Cardinality(S) \in Nat  BY RanksExist
<1>3. Cardinality(V) = Cardinality(S) + 1  BY <1>1, <1>2, FS_AddElement
<1>4. ASSUME NEW m \in S
      PROVE  /\ {j \in V : j <= m} = {j \in S : j <= m}
             /\ Cardinality({j \in S : j <= m}) \in Nat
             /\ Cardinality({j \in S : j <= m}) <= Cardinality(S)
  <2>1. m \in 1..n  OBVIOUS
  <2>2. ~(n + 1 <= m)  BY <2>1
  <2>3. {j \in V : j <= m} = {j \in S : j <= m}  BY <2>2
  <2>4. {j \in S : j <= m} \in SUBSET S  OBVIOUS
  <2>. QED  BY <1>2, <2>3, <2>4, FS_Subset, FS_CardinalityType
<1>5. {j \in V : j <= n + 1} = V
  <2>1. \A j \in V : j <= n + 1  OBVIOUS
  <2>. QED  BY <2>1
<1>6. ASSUME NEW k \in 1..Cardinality(S) PROVE Nth(V, k) = Nth(S, k)
  <2>1. k # Cardinality(V) /\ k <= Cardinality(S)  BY <1>2, <1>3
  <2>2. ASSUME NEW m PROVE (m \in V /\ Cardinality({j \in V : j <= m}) = k)
                           <=> (m \in S /\ Cardinality({j \in S : j <= m}) = k)
    <3>1. CASE m \in S
      <4>1. m \in V  BY <3>1
      <4>. QED  BY <1>4, <3>1, <4>1
    <3>2. CASE m = n + 1  BY <1>1, <1>5, <2>1, <3>2
    <3>3. CASE m \notin V  BY <3>3
    <3>. QED  BY <3>1, <3>2, <3>3
  <2>. HIDE DEF V
  <2>3. \A m : (m \in V /\ Cardinality({j \in V : j <= m}) = k)
               <=> (m \in S /\ Cardinality({j \in S : j <= m}) = k)
    BY <2>2
  <2>. QED  BY <2>3, Zenon DEF Nth
<1>7. Nth(V, Cardinality(S) + 1) = n + 1
  <2>1. ASSUME NEW m \in V, Cardinality({j \in V : j <= m}) = Cardinality(S) + 1 PROVE m = n + 1
    <3>1. CASE m \in S  BY <1>2, <1>4, <2>1, <3>1
    <3>. QED  BY <3>1
  <2>2. n + 1 \in V /\ Cardinality({j \in V : j <= n + 1}) = Cardinality(S) + 1  BY <1>3, <1>5
  <2>. HIDE DEF V
  <2>. QED  BY <2>1, <2>2 DEF Nth
<1>. QED  BY <1>3, <1>6, <1>7

\* What is handed out is all of it.
LEMMA HandedIsAll ==
    ASSUME NEW total \in Nat, NEW queue \in Seq(EditedFile), queue # <<>>
    PROVE  /\ \A n \in DOMAIN queue : LineShare(total, queue, n) \in Int
           /\ Handed(total, queue) = total
<1>. DEFINE q == Len(queue)
            d == total \div q
            r == total % q
            F == [n \in 1..q |-> LineShare(total, queue, n)]
<1>1. q \in Nat /\ q > 0 /\ DOMAIN queue = 1..q  OBVIOUS
<1>2. d \in Nat /\ r \in Nat /\ r < q /\ total = q * d + r
  <2>. HIDE DEF q
  <2>. QED  BY <1>1
<1>3. \A n \in 1..q : F[n] = d + (IF n <= r THEN 1 ELSE 0)  BY DEF LineShare
<1>. HIDE DEF q, d, r
<1>4. \A n \in 1..q : F[n] \in Int
  <2>. HIDE DEF F
  <2>. QED  BY <1>2, <1>3
<1>5. IsFiniteSet(1..q)  BY <1>1, FS_Interval
<1>12. /\ SumOver(F, {}) = 0
       /\ \A T \in SUBSET (1..q), x \in 1..q : x \notin T => SumOver(F, T \cup {x}) = SumOver(F, T) + F[x]
  <2>1. PICK G : G = F  OBVIOUS
  <2>2. PICK S : S = 1..q  OBVIOUS
  <2>. HIDE DEF F
  <2>3. IsFiniteSet(S) /\ \A x \in S : G[x] \in Int  BY <1>4, <1>5, <2>1, <2>2
  <2>4. /\ SumOver(G, {}) = 0
        /\ \A T \in SUBSET S, x \in S : x \notin T => SumOver(G, T \cup {x}) = SumOver(G, T) + G[x]
    BY ONLY <2>3, SumOverLaws
  <2>. QED  BY <2>1, <2>2, <2>4
<1>. DEFINE P == {k \in Nat : k <= q => SumOver(F, 1..k) = k * d + (IF k <= r THEN k ELSE r)}
<1>6. P = Nat
  <2>. HIDE DEF F
  <2>1. 0 \in P
    <3>1. 1..0 = {}  OBVIOUS
    <3>2. SumOver(F, {}) = 0  BY <1>12
    <3>. QED  BY <1>2, <3>1, <3>2
  <2>2. ASSUME NEW k \in Nat, k \in P PROVE k + 1 \in P
    <3>. SUFFICES ASSUME k + 1 <= q
                  PROVE  SumOver(F, 1..(k + 1)) = (k + 1) * d + (IF k + 1 <= r THEN k + 1 ELSE r)
      OBVIOUS
    <3>1. 1..(k + 1) = (1..k) \cup {k + 1} /\ k + 1 \notin 1..k  OBVIOUS
    <3>2. 1..k \in SUBSET (1..q) /\ k + 1 \in 1..q  BY <1>1
    <3>3. SumOver(F, (1..k) \cup {k + 1}) = SumOver(F, 1..k) + F[k + 1]
      BY ONLY <1>12, <3>1, <3>2
    <3>4. SumOver(F, 1..k) = k * d + (IF k <= r THEN k ELSE r)  BY <1>1, <2>2
    <3>5. F[k + 1] = d + (IF k + 1 <= r THEN 1 ELSE 0)  BY <1>3, <3>2
    <3>6. (k + 1) * d = k * d + d /\ k * d \in Int  BY <1>2
    <3>7. PICK p \in Int, a \in Int : p = k * d /\ a = SumOver(F, 1..k)  BY <1>2, <3>4, <3>6
    <3>8. SumOver(F, 1..(k + 1)) = a + F[k + 1]  BY <3>1, <3>3, <3>7
    <3>9. a = p + (IF k <= r THEN k ELSE r) /\ (k + 1) * d = p + d  BY <3>4, <3>6, <3>7
    <3>. QED  BY ONLY <1>2, <3>5, <3>7, <3>8, <3>9, k \in Nat, k + 1 <= q
  <2>3. P \in SUBSET Nat  OBVIOUS
  <2>. HIDE DEF P
  <2>. QED  BY <2>1, <2>2, <2>3, SetInduction
<1>7. SumOver(F, 1..q) = q * d + r
  <2>1. q \in P  BY <1>1, <1>6
  <2>. QED  BY <1>1, <1>2, <2>1
<1>8. Handed(total, queue) = SumFunction(F)  BY <1>1 DEF Handed
<1>9. F \in [1..q -> Int]  BY <1>4
<1>. HIDE DEF F
<1>10. SumFunction(F) = total  BY <1>2, <1>7, <1>9, SumOfFunction
<1>11. \A n \in DOMAIN queue : LineShare(total, queue, n) \in Int  BY <1>1, <1>4 DEF F
<1>. QED  BY <1>8, <1>10, <1>11

\* What the files get is what is handed out.
LEMMA PortionsAreAll ==
    ASSUME NEW total \in Nat, NEW queue \in Seq(EditedFile), queue # <<>>
    PROVE  /\ \A f \in EditedFile : Portion(total, queue, f) \in Int
           /\ SumFunction([f \in EditedFile |-> Portion(total, queue, f)]) = total
<1>. DEFINE F == [n \in DOMAIN queue |-> LineShare(total, queue, n)]
            Of(f) == {n \in DOMAIN queue : queue[n] = f}
            H == [f \in EditedFile |-> Portion(total, queue, f)]
<1>1. IsFiniteSet(DOMAIN queue) /\ IsFiniteSet(EditedFile)
  <2>1. DOMAIN queue = 1..Len(queue) /\ Len(queue) \in Nat  OBVIOUS
  <2>. QED  BY <2>1, FS_Interval, LedgerAssumption
<1>2. \A n \in DOMAIN queue : F[n] \in Int /\ queue[n] \in EditedFile  BY HandedIsAll
<1>3. \A f \in EditedFile : H[f] = SumOver(F, Of(f))
  <2>. SUFFICES ASSUME NEW f \in EditedFile PROVE H[f] = SumOver(F, Of(f))  OBVIOUS
  <2>1. [n \in Of(f) |-> F[n]] = [n \in Of(f) |-> LineShare(total, queue, n)]  OBVIOUS
  <2>. QED  BY <2>1 DEF SumOver, Portion
<1>4. \A f \in EditedFile : Of(f) \in SUBSET (DOMAIN queue)  OBVIOUS
<1>5. \A f \in EditedFile : H[f] \in Int
  <2>. HIDE DEF F, H, Of
  <2>. QED  BY <1>1, <1>2, <1>3, <1>4, SumOverLaws
<1>6. SumOver(F, DOMAIN queue) = SumOver(H, EditedFile)
  <2>1. \A f \in EditedFile : H[f] = SumOver(F, {n \in DOMAIN queue : queue[n] = f})  BY <1>3
  <2>2. \A n \in DOMAIN queue : queue[n] \in EditedFile  OBVIOUS
  <2>3. \A n \in DOMAIN queue : F[n] \in Int  BY <1>2
  <2>4. PICK D, A, B : D = DOMAIN queue /\ A = F /\ B = H  OBVIOUS
  <2>. HIDE DEF F, H, Of
  <2>5. IsFiniteSet(D) /\ \A n \in D : A[n] \in Int  BY <1>1, <2>3, <2>4
  <2>6. IsFiniteSet(EditedFile) /\ \A n \in D : queue[n] \in EditedFile  BY <1>1, <2>2, <2>4
  <2>7. PICK G : G = [f \in EditedFile |-> {n \in D : queue[n] = f}]  OBVIOUS
  <2>8. \A f \in EditedFile : \A n : n \in G[f] <=> n \in D /\ queue[n] = f  BY <2>7
  <2>9. \A f \in EditedFile : B[f] = SumOver(A, G[f])  BY <2>1, <2>4, <2>7
  <2>10. SumOver(A, D) = SumOver(B, EditedFile)  BY ONLY <2>5, <2>6, <2>8, <2>9, SumByGroups
  <2>. QED  BY <2>4, <2>10
<1>7. SumOver(F, DOMAIN queue) = total
  <2>1. F \in [DOMAIN queue -> Int]  BY <1>2
  <2>2. SumFunction(F) = total  BY HandedIsAll DEF Handed
  <2>. HIDE DEF F
  <2>. QED  BY <2>1, <2>2, SumOfFunction
<1>8. H \in [EditedFile -> Int]  BY <1>5
<1>9. SumFunction(H) = total
  <2>. HIDE DEF F, H, Of
  <2>. QED  BY <1>6, <1>7, <1>8, SumOfFunction
<1>10. \A f \in EditedFile : Portion(total, queue, f) = H[f]  OBVIOUS
<1>. QED  BY <1>5, <1>9, <1>10

\* One file in the queue gets everything.
LEMMA OnlyFile ==
    ASSUME NEW total \in Nat, NEW f \in EditedFile, NEW g \in EditedFile
    PROVE  Portion(total, <<f>>, g) = IF g = f THEN total ELSE 0
<1>. DEFINE F == [n \in {1} |-> total]
<1>0. LineShare(total, <<f>>, 1) = total
  <2>1. total \div 1 = total /\ total % 1 = 0  OBVIOUS
  <2>2. Len(<<f>>) = 1  OBVIOUS
  <2>. QED  BY <2>1, <2>2 DEF LineShare
<1>1. IsFiniteSet({1}) /\ \A x \in {1} : F[x] \in Int
  <2>1. IsFiniteSet({1})  BY FS_Singleton
  <2>. QED  BY <2>1
<1>2. SumOver(F, {}) = 0 /\ SumOver(F, {} \cup {1}) = SumOver(F, {}) + F[1]
  <2>1. {} \in SUBSET {1} /\ 1 \in {1} /\ 1 \notin {}  OBVIOUS
  <2>. HIDE DEF F
  <2>2. PICK G, S : G = F /\ S = {1}  OBVIOUS
  <2>3. IsFiniteSet(S) /\ \A x \in S : G[x] \in Int  BY <1>1, <2>2
  <2>4. /\ SumOver(G, {}) = 0
        /\ \A T \in SUBSET S, x \in S : x \notin T => SumOver(G, T \cup {x}) = SumOver(G, T) + G[x]
    BY ONLY <2>3, SumOverLaws
  <2>. QED  BY <2>1, <2>2, <2>4
<1>3. DOMAIN <<f>> = {1} /\ <<f>>[1] = f  OBVIOUS
<1>4. CASE g = f
  <2>1. {n \in DOMAIN <<f>> : <<f>>[n] = g} = {} \cup {1}  BY <1>3, <1>4
  <2>2. [n \in {} \cup {1} |-> LineShare(total, <<f>>, n)] = [n \in {} \cup {1} |-> F[n]]  BY <1>0
  <2>3. Portion(total, <<f>>, g) = SumOver(F, {} \cup {1})  BY <2>1, <2>2 DEF Portion, SumOver
  <2>. QED  BY <1>2, <1>4, <2>3
<1>5. CASE g # f
  <2>1. {n \in DOMAIN <<f>> : <<f>>[n] = g} = {}  BY <1>3, <1>5
  <2>2. [n \in {} |-> LineShare(total, <<f>>, n)] = [n \in {} |-> F[n]]  OBVIOUS
  <2>3. Portion(total, <<f>>, g) = SumOver(F, {})  BY <2>1, <2>2 DEF Portion, SumOver
  <2>. QED  BY <1>2, <1>5, <2>3
<1>. QED  BY <1>4, <1>5

\* What is said of the arrivals so far does not change when another one comes.
LEMMA HistoryStays ==
    ASSUME NEW h \in Seq(Arrival), NEW a \in Arrival
    PROVE  /\ Len(h) \in Nat /\ Len(Append(h, a)) = Len(h) + 1 /\ Append(h, a) \in Seq(Arrival)
           /\ Append(h, a)[Len(h) + 1] = a
           /\ \A n \in 1..Len(h) : Append(h, a)[n] = h[n]
           /\ \A n \in 1..(Len(h) + 1) : EditsBefore(Append(h, a), n) = EditsBefore(h, n)
           /\ \A n \in 1..(Len(h) + 1) : LastEdit(Append(h, a), n) = LastEdit(h, n)
           /\ \A m, n \in 1..(Len(h) + 1) : LinesWithin(Append(h, a), m, n) <=> LinesWithin(h, m, n)
           /\ \A n \in 1..(Len(h) + 1) : WaitedFor(Append(h, a), n) <=> WaitedFor(h, n)
<1>. SUFFICES ASSUME NEW g, g = Append(h, a)
             PROVE  /\ Len(h) \in Nat /\ Len(g) = Len(h) + 1 /\ g \in Seq(Arrival)
                    /\ g[Len(h) + 1] = a
                    /\ \A n \in 1..Len(h) : g[n] = h[n]
                    /\ \A n \in 1..(Len(h) + 1) : EditsBefore(g, n) = EditsBefore(h, n)
                    /\ \A n \in 1..(Len(h) + 1) : LastEdit(g, n) = LastEdit(h, n)
                    /\ \A m, n \in 1..(Len(h) + 1) : LinesWithin(g, m, n) <=> LinesWithin(h, m, n)
                    /\ \A n \in 1..(Len(h) + 1) : WaitedFor(g, n) <=> WaitedFor(h, n)
  OBVIOUS
<1>. DEFINE N == Len(h)
<1>1. /\ Len(g) = N + 1 /\ g \in Seq(Arrival) /\ N \in Nat
      /\ g[N + 1] = a
      /\ \A n \in 1..N : g[n] = h[n]
  OBVIOUS
<1>2. ASSUME NEW n \in 1..(N + 1) PROVE EditsBefore(g, n) = EditsBefore(h, n)
  <2>1. \A m \in 1..(n - 1) : g[m] = h[m]  BY <1>1
  <2>. QED  BY <2>1 DEF EditsBefore
<1>3. ASSUME NEW n \in 1..(N + 1) PROVE LastEdit(g, n) = LastEdit(h, n)
  BY <1>2 DEF LastEdit
<1>4. ASSUME NEW m \in 1..(N + 1), NEW n \in 1..(N + 1) PROVE LinesWithin(g, m, n) <=> LinesWithin(h, m, n)
  <2>1. \A k \in (m + 1)..(n - 1) : g[k] = h[k]  BY <1>1
  <2>. QED  BY <2>1 DEF LinesWithin
<1>5. ASSUME NEW n \in 1..(N + 1) PROVE WaitedFor(g, n) <=> WaitedFor(h, n)
  <2>1. \A k \in 1..(n - 1) : g[k] = h[k]  BY <1>1
  <2>2. EditsBefore(g, n) = EditsBefore(h, n)  BY <1>2
  <2>. QED  BY <2>1, <2>2 DEF WaitedFor
<1>. HIDE DEF N
<1>. QED  BY <1>1, <1>2, <1>3, <1>4, <1>5 DEF N

\* The first and the last edit.
LEMMA EditsAre ==
    ASSUME NEW h \in Seq(Arrival), NEW n \in 1..(Len(h) + 1)
    PROVE  /\ EditsBefore(h, n) \in SUBSET (1..(n - 1)) /\ EditsBefore(h, n) \in SUBSET (1..Len(h))
           /\ EditsBefore(h, n) # {} => /\ LastEdit(h, n) \in EditsBefore(h, n)
                                        /\ \A m \in EditsBefore(h, n) : m <= LastEdit(h, n)
           /\ EditsBefore(h, Len(h) + 1) # {} => /\ FirstEdit(h) \in EditsBefore(h, Len(h) + 1)
                                                 /\ \A m \in EditsBefore(h, Len(h) + 1) : FirstEdit(h) <= m
<1>1. EditsBefore(h, n) \in SUBSET (1..(n - 1))  BY DEF EditsBefore
<1>2. EditsBefore(h, n) \in SUBSET (1..Len(h))  BY <1>1
<1>3. EditsBefore(h, n) # {} => /\ LastEdit(h, n) \in EditsBefore(h, n)
                                /\ \A m \in EditsBefore(h, n) : m <= LastEdit(h, n)
  <2>1. EditsBefore(h, n) \in SUBSET (0..n) /\ n \in Nat  BY <1>1
  <2>. QED  BY <2>1, MaxOfBounded DEF LastEdit
<1>4. EditsBefore(h, Len(h) + 1) # {} => /\ FirstEdit(h) \in EditsBefore(h, Len(h) + 1)
                                         /\ \A m \in EditsBefore(h, Len(h) + 1) : FirstEdit(h) <= m
  <2>1. EditsBefore(h, Len(h) + 1) \in SUBSET Nat  BY DEF EditsBefore
  <2>. QED  BY <2>1, MinOfNaturals DEF FirstEdit
<1>. QED  BY <1>1, <1>2, <1>3, <1>4

\* The edits that lines are meant for are edits that came.
LEMMA MeantAre ==
    ASSUME NEW h \in Seq(Arrival), EditsBefore(h, Len(h) + 1) # {}, NEW n \in 1..(Len(h) + 1)
    PROVE  MeantFor(h, n) \in SUBSET (1..Len(h))
<1>1. EditsBefore(h, n) \in SUBSET (1..Len(h))  BY EditsAre
<1>2. FirstEdit(h) \in 1..Len(h)
  <2>1. Len(h) + 1 \in 1..(Len(h) + 1)  OBVIOUS
  <2>. QED  BY <2>1, EditsAre
<1>. QED  BY <1>1, <1>2 DEF MeantFor

\* The edits after an arrival.
LEMMA EditsAfter ==
    ASSUME NEW h \in Seq(Arrival), NEW a \in Arrival
    PROVE  EditsBefore(Append(h, a), Len(h) + 2)
           = EditsBefore(h, Len(h) + 1) \cup (IF IsEdit(a) THEN {Len(h) + 1} ELSE {})
<1>. SUFFICES ASSUME NEW g, g = Append(h, a)
             PROVE  EditsBefore(g, Len(h) + 2)
                    = EditsBefore(h, Len(h) + 1) \cup (IF IsEdit(a) THEN {Len(h) + 1} ELSE {})
  OBVIOUS
<1>. DEFINE N == Len(h)
<1>1. N \in Nat /\ g[N + 1] = a /\ \A k \in 1..N : g[k] = h[k]  BY HistoryStays
<1>2. EditsBefore(g, N + 2) = {m \in 1..(N + 1) : IsEdit(g[m])}  BY <1>1 DEF EditsBefore
<1>3. EditsBefore(h, N + 1) = {m \in 1..N : IsEdit(h[m])}  BY <1>1 DEF EditsBefore
<1>. HIDE DEF N
<1>4. 1..(N + 1) = (1..N) \cup {N + 1}  BY <1>1
<1>5. \A m \in 1..N : IsEdit(g[m]) <=> IsEdit(h[m])  BY <1>1
<1>6. IsEdit(g[N + 1]) <=> IsEdit(a)  BY <1>1
<1>7. {m \in 1..(N + 1) : IsEdit(g[m])}
      = {m \in 1..N : IsEdit(h[m])} \cup (IF IsEdit(a) THEN {N + 1} ELSE {})
  BY <1>4, <1>5, <1>6
<1>. QED  BY <1>2, <1>3, <1>7 DEF N

\* Once there was an edit, the edits for which lines were meant stay what they were.
LEMMA QueuesStay ==
    ASSUME NEW h \in Seq(Arrival), NEW a \in Arrival,
           EditsBefore(h, Len(h) + 1) # {}, NEW n \in 1..(Len(h) + 1)
    PROVE  MeantFor(Append(h, a), n) = MeantFor(h, n) /\ QueueFor(Append(h, a), n) = QueueFor(h, n)
<1>. SUFFICES ASSUME NEW g, g = Append(h, a)
             PROVE  MeantFor(g, n) = MeantFor(h, n) /\ QueueFor(g, n) = QueueFor(h, n)
  OBVIOUS
<1>. DEFINE N == Len(h)
            E == EditsBefore(h, N + 1)
            D == EditsBefore(g, N + 2)
<1>1. N \in Nat /\ Len(g) = N + 1 /\ g \in Seq(Arrival) /\ \A k \in 1..N : g[k] = h[k]
  BY HistoryStays
<1>2. FirstEdit(g) = FirstEdit(h)
  <2>1. FirstEdit(h) \in E /\ \A m \in E : FirstEdit(h) <= m
    <3>1. N + 1 \in 1..(N + 1)  BY <1>1
    <3>. QED  BY <3>1, EditsAre
  <2>2. D = E \cup (IF IsEdit(a) THEN {N + 1} ELSE {})  BY EditsAfter
  <2>3. FirstEdit(g) \in D /\ \A m \in D : FirstEdit(g) <= m
    <3>1. N + 2 \in 1..(Len(g) + 1) /\ Len(g) + 1 = N + 2  BY <1>1
    <3>2. D # {}  BY <2>1, <2>2
    <3>. QED  BY <1>1, <3>1, <3>2, EditsAre
  <2>4. E \in SUBSET (1..N)  BY <1>1 DEF EditsBefore
  <2>5. PICK first, second : first = FirstEdit(h) /\ second = FirstEdit(g)  OBVIOUS
  <2>6. first \in 1..N /\ first \in D /\ second <= first  BY <2>1, <2>2, <2>3, <2>4, <2>5
  <2>7. second \in E
    <3>1. second \in D  BY <2>3, <2>5
    <3>2. second # N + 1  BY <1>1, <2>6
    <3>. QED  BY <2>2, <3>1, <3>2
  <2>8. first <= second /\ second \in 1..N  BY <2>1, <2>4, <2>5, <2>7
  <2>9. first = second  BY <2>6, <2>8
  <2>. QED  BY <2>5, <2>9
<1>3. MeantFor(g, n) = MeantFor(h, n)
  <2>1. /\ EditsBefore(g, n) = EditsBefore(h, n) /\ LastEdit(g, n) = LastEdit(h, n)
        /\ EditsBefore(h, n) \in SUBSET (1..N)
        /\ EditsBefore(h, n) # {} => LastEdit(h, n) \in EditsBefore(h, n)
    BY HistoryStays, EditsAre
  <2>2. CASE EditsBefore(h, n) = {}  BY <1>2, <2>1, <2>2 DEF MeantFor
  <2>3. CASE EditsBefore(h, n) # {}
    <3>1. LastEdit(h, n) \in 1..(N + 1) /\ \A m \in EditsBefore(h, n) : m \in 1..(N + 1)
      BY <1>1, <2>1, <2>3
    <3>2. \A m \in EditsBefore(h, n) :
             (LinesWithin(g, m, LastEdit(h, n)) <=> LinesWithin(h, m, LastEdit(h, n)))
             /\ (WaitedFor(g, m) <=> WaitedFor(h, m))
      BY <3>1, HistoryStays
    <3>. QED  BY <2>1, <2>3, <3>2 DEF MeantFor
  <2>. QED  BY <2>2, <2>3
<1>4. QueueFor(g, n) = QueueFor(h, n)
  <2>1. MeantFor(h, n) \in SUBSET (1..N)  BY MeantAre
  <2>2. \A k \in 1..Cardinality(MeantFor(h, n)) : Nth(MeantFor(h, n), k) \in 1..N
    BY <1>1, <2>1, RanksExist
  <2>3. \A k \in 1..Cardinality(MeantFor(h, n)) : g[Nth(MeantFor(h, n), k)] = h[Nth(MeantFor(h, n), k)]
    BY <1>1, <2>2
  <2>. QED  BY <1>3, <2>3 DEF QueueFor
<1>. QED  BY <1>3, <1>4

\* A sequence with one more element.
LEMMA OneMore ==
    ASSUME NEW c \in Nat, NEW F, NEW G, \A k \in 1..c : F[k] = G[k]
    PROVE  [k \in 1..(c + 1) |-> F[k]] = Append([k \in 1..c |-> G[k]], F[c + 1])
<1>. DEFINE T == [k \in 1..c |-> G[k]]
<1>1. T \in Seq({G[k] : k \in 1..c}) /\ Len(T) = c  OBVIOUS
<1>2. \A k \in 1..(c + 1) : Append(T, F[c + 1])[k] = F[k]  BY <1>1
<1>3. DOMAIN Append(T, F[c + 1]) = 1..(c + 1)  BY <1>1
<1>. QED  BY <1>1, <1>2, <1>3

\* The queue of one edit.
LEMMA QueueOfOne ==
    ASSUME NEW h \in Seq(Arrival), NEW n, NEW m \in 1..Len(h), MeantFor(h, n) = {m}
    PROVE  QueueFor(h, n) = <<h[m].file>>
<1>1. PICK k \in Nat : k = m - 1 /\ k + 1 = m  OBVIOUS
<1>2. {} \in SUBSET (1..k) /\ {} \cup {m} = {m}  OBVIOUS
<1>3. Cardinality({}) = 0  BY FS_EmptySet
<1>4. Cardinality({} \cup {k + 1}) = Cardinality({}) + 1 /\ Nth({} \cup {k + 1}, Cardinality({}) + 1) = k + 1
  BY <1>1, <1>2, RanksGrow
<1>5. Cardinality({m}) = 1 /\ Nth({m}, 1) = m  BY <1>1, <1>2, <1>3, <1>4
<1>6. QueueFor(h, n) = [i \in 1..1 |-> h[Nth({m}, i)].file]  BY <1>5 DEF QueueFor
<1>7. [i \in 1..1 |-> h[Nth({m}, i)].file] = <<h[m].file>>  BY <1>5
<1>. QED  BY <1>6, <1>7

\* Whose turn it is when something that is no edit arrives.
LEMMA QueueAfterOthers ==
    ASSUME NEW h \in Seq(Arrival), NEW a \in Arrival,
           EditsBefore(h, Len(h) + 1) # {}, ~IsEdit(a)
    PROVE  LET next == Len(h) + 1
               last == LastEdit(h, next)
           IN  /\ QueueFor(Append(h, a), next + 1) = QueueFor(h, next)
               /\ LastEdit(Append(h, a), next + 1) = last
               /\ LinesWithin(Append(h, a), last, next + 1) <=> (LinesWithin(h, last, next) \/ IsLines(a))
               /\ WaitedFor(Append(h, a), last) <=> WaitedFor(h, last)
<1>. SUFFICES ASSUME NEW g, g = Append(h, a)
             PROVE  LET next == Len(h) + 1
                        last == LastEdit(h, next)
                    IN  /\ QueueFor(g, next + 1) = QueueFor(h, next)
                        /\ LastEdit(g, next + 1) = last
                        /\ LinesWithin(g, last, next + 1) <=> (LinesWithin(h, last, next) \/ IsLines(a))
                        /\ WaitedFor(g, last) <=> WaitedFor(h, last)
  OBVIOUS
<1>. DEFINE next == Len(h) + 1
            last == LastEdit(h, next)
<1>1. /\ Len(h) \in Nat /\ Len(g) = next /\ g[next] = a
      /\ \A k \in 1..Len(h) : g[k] = h[k]
  BY HistoryStays
<1>2. next \in 1..(Len(h) + 1)  BY <1>1
<1>3. EditsBefore(g, Len(h) + 2) = EditsBefore(h, next)  BY EditsAfter
<1>4. Len(h) + 2 = next + 1  BY <1>1
<1>5. EditsBefore(g, next + 1) = EditsBefore(h, next)  BY <1>3, <1>4
<1>6. LastEdit(g, next + 1) = last  BY <1>5 DEF LastEdit
<1>7. /\ EditsBefore(h, next) \in SUBSET (1..Len(h))
      /\ last \in EditsBefore(h, next) /\ \A m \in EditsBefore(h, next) : m <= last
  BY <1>2, EditsAre
<1>8. \A m \in 1..next : (LinesWithin(g, m, last) <=> LinesWithin(h, m, last)) /\ (WaitedFor(g, m) <=> WaitedFor(h, m))
  <2>1. /\ \A m, n \in 1..(Len(h) + 1) : LinesWithin(g, m, n) <=> LinesWithin(h, m, n)
        /\ \A n \in 1..(Len(h) + 1) : WaitedFor(g, n) <=> WaitedFor(h, n)
    BY HistoryStays
  <2>2. last \in 1..(Len(h) + 1)  BY <1>1, <1>7
  <2>. HIDE DEF last
  <2>. QED  BY <2>1, <2>2
<1>9. MeantFor(g, next + 1) = MeantFor(h, next)
  <2>1. \A m \in EditsBefore(h, next) : m \in 1..next  BY <1>1, <1>7
  <2>. HIDE DEF next, last
  <2>. QED  BY <1>5, <1>6, <1>8, <2>1, <1>7 DEF MeantFor, last
<1>10. QueueFor(g, next + 1) = QueueFor(h, next)
  <2>1. MeantFor(h, next) \in SUBSET (1..Len(h))  BY <1>2, MeantAre
  <2>2. \A k \in 1..Cardinality(MeantFor(h, next)) : Nth(MeantFor(h, next), k) \in 1..Len(h)
    BY <1>1, <2>1, RanksExist
  <2>3. \A k \in 1..Cardinality(MeantFor(h, next)) : g[Nth(MeantFor(h, next), k)] = h[Nth(MeantFor(h, next), k)]
    BY <1>1, <2>2
  <2>. QED  BY <1>9, <2>3 DEF QueueFor
<1>11. LinesWithin(g, last, next + 1) <=> (LinesWithin(h, last, next) \/ IsLines(a))
  <2>1. last \in 1..Len(h)  BY <1>7
  <2>. HIDE DEF last
  <2>3. \A k \in (last + 1)..(next - 1) : g[k] = h[k]  BY <1>1, <2>1
  <2>4. IsLines(g[next]) <=> IsLines(a)  BY <1>1
  <2>5. LinesWithin(g, last, next + 1) <=> \E k \in ((last + 1)..(next - 1)) \cup {next} : IsLines(g[k])
    <3>1. PICK l, n, A : l = last /\ n = next + 1 /\ A = (l + 1)..(n - 1)  OBVIOUS
    <3>2. LinesWithin(g, l, n) <=> \E k \in A : IsLines(g[k])  BY <3>1 DEF LinesWithin
    <3>3. A = ((last + 1)..(next - 1)) \cup {next}
      <4>1. l \in Int /\ n - 1 = next /\ next \in Int /\ last < next  BY <1>1, <2>1, <3>1
      <4>2. A = (l + 1)..next  BY <3>1, <4>1
      <4>. HIDE DEF next
      <4>3. (l + 1)..next = ((l + 1)..(next - 1)) \cup {next}  BY <3>1, <4>1
      <4>. QED  BY <3>1, <4>2, <4>3
    <3>. HIDE DEF next
    <3>. QED  BY <3>1, <3>2, <3>3
  <2>6. LinesWithin(h, last, next) <=> \E k \in (last + 1)..(next - 1) : IsLines(g[k])
    BY <2>3 DEF LinesWithin
  <2>. HIDE DEF next
  <2>. QED  BY <2>4, <2>5, <2>6
<1>12. WaitedFor(g, last) <=> WaitedFor(h, last)
  <2>1. last \in 1..next  BY <1>1, <1>7
  <2>. QED  BY <1>8, <2>1
<1>. QED  BY <1>6, <1>10, <1>11, <1>12

\* And when an edit does: it joins the edits before it unless the lines are theirs.
LEMMA QueueAfterEdit ==
    ASSUME NEW h \in Seq(Arrival), NEW a \in Arrival, IsEdit(a)
    PROVE  LET next == Len(h) + 1
               last == LastEdit(h, next)
           IN  /\ EditsBefore(Append(h, a), next + 1) # {}
               /\ LastEdit(Append(h, a), next + 1) = next
               /\ ~LinesWithin(Append(h, a), next, next + 1)
               /\ WaitedFor(Append(h, a), next) <=> (EditsBefore(h, next) = {} /\ \E k \in 1..Len(h) : IsLines(h[k]))
               /\ QueueFor(Append(h, a), next + 1)
                  = IF EditsBefore(h, next) = {} \/ LinesWithin(h, last, next) \/ WaitedFor(h, last)
                    THEN <<a.file>> ELSE Append(QueueFor(h, next), a.file)
<1>. SUFFICES ASSUME NEW g, g = Append(h, a)
             PROVE  LET next == Len(h) + 1
                        last == LastEdit(h, next)
                    IN  /\ EditsBefore(g, next + 1) # {}
                        /\ LastEdit(g, next + 1) = next
                        /\ ~LinesWithin(g, next, next + 1)
                        /\ WaitedFor(g, next) <=> (EditsBefore(h, next) = {} /\ \E k \in 1..Len(h) : IsLines(h[k]))
                        /\ QueueFor(g, next + 1)
                           = IF EditsBefore(h, next) = {} \/ LinesWithin(h, last, next) \/ WaitedFor(h, last)
                             THEN <<a.file>> ELSE Append(QueueFor(h, next), a.file)
  OBVIOUS
<1>. DEFINE next == Len(h) + 1
            last == LastEdit(h, next)
            E == EditsBefore(h, next)
            spent == E = {} \/ LinesWithin(h, last, next) \/ WaitedFor(h, last)
<1>1. /\ Len(h) \in Nat /\ Len(g) = next /\ g[next] = a /\ g \in Seq(Arrival)
      /\ \A k \in 1..Len(h) : g[k] = h[k]
  BY HistoryStays
<1>2. next \in 1..(Len(h) + 1) /\ next + 1 = Len(h) + 2 /\ next \notin 1..Len(h)  BY <1>1
<1>12. /\ \A m, n \in 1..(Len(h) + 1) : LinesWithin(g, m, n) <=> LinesWithin(h, m, n)
       /\ \A n \in 1..(Len(h) + 1) : WaitedFor(g, n) <=> WaitedFor(h, n)
  BY HistoryStays
<1>3. EditsBefore(g, next + 1) = E \cup {next}
  <2>1. EditsBefore(g, Len(h) + 2) = E \cup {next}  BY EditsAfter
  <2>. QED  BY <1>2, <2>1
<1>4. /\ E \in SUBSET (1..Len(h))
      /\ E # {} => last \in E /\ \A m \in E : m <= last
  BY <1>2, EditsAre
<1>5. LastEdit(g, next + 1) = next
  <2>1. next + 1 \in 1..(Len(g) + 1)  BY <1>1
  <2>2. LastEdit(g, next + 1) \in E \cup {next} /\ next <= LastEdit(g, next + 1)
    BY <1>1, <1>3, <2>1, EditsAre
  <2>. QED  BY <1>1, <1>4, <2>2
<1>6. ~LinesWithin(g, next, next + 1)  BY <1>1 DEF LinesWithin
<1>7. WaitedFor(g, next) <=> (E = {} /\ \E k \in 1..Len(h) : IsLines(h[k]))
  <2>1. WaitedFor(g, next) <=> WaitedFor(h, next)  BY <1>2, <1>12
  <2>2. next - 1 = Len(h)  BY <1>1
  <2>. QED  BY <2>1, <2>2 DEF WaitedFor
<1>8. \A m \in E : (LinesWithin(g, m, next) <=> LinesWithin(h, m, next)) /\ (WaitedFor(g, m) <=> WaitedFor(h, m))
  <2>1. \A m \in E : m \in 1..(Len(h) + 1)  BY <1>1, <1>4
  <2>. HIDE DEF E
  <2>. QED  BY <1>2, <1>12, <2>1
<1>9. MeantFor(g, next + 1) = {m \in E : ~LinesWithin(h, m, next) /\ ~WaitedFor(h, m)} \cup {next}
  <2>1. MeantFor(g, next + 1) = {m \in E \cup {next} : ~LinesWithin(g, m, next) /\ (m # next => ~WaitedFor(g, m))}
    BY <1>3, <1>5 DEF MeantFor
  <2>2. ~LinesWithin(g, next, next)  BY <1>1 DEF LinesWithin
  <2>3. \A m \in E : m # next  BY <1>2, <1>4
  <2>. HIDE DEF next, E
  <2>. QED  BY <1>8, <2>1, <2>2, <2>3
<1>10. CASE spent
  <2>1. {m \in E : ~LinesWithin(h, m, next) /\ ~WaitedFor(h, m)} = {}
    <3>. SUFFICES ASSUME NEW m \in E, ~LinesWithin(h, m, next), ~WaitedFor(h, m) PROVE FALSE
      OBVIOUS
    <3>1. m \in 1..Len(h) /\ last \in 1..Len(h) /\ m <= last  BY <1>4
    <3>2. ~LinesWithin(h, last, next)
      <4>. HIDE DEF last, next
      <4>. QED  BY <1>1, <3>1 DEF LinesWithin, next
    <3>3. WaitedFor(h, last)  BY <1>10, <3>2
    <3>4. m # last  BY <3>3
    <3>5. m \in EditsBefore(h, last)
      <4>1. m \in 1..(last - 1)  BY <3>1, <3>4
      <4>2. IsEdit(h[m])  BY DEF EditsBefore
      <4>. QED  BY <4>1, <4>2 DEF EditsBefore
    <3>. QED  BY <3>3, <3>5 DEF WaitedFor
  <2>2. MeantFor(g, next + 1) = {next}  BY <1>9, <2>1
  <2>3. QueueFor(g, next + 1) = <<a.file>>
    <3>1. next \in 1..Len(g)  BY <1>1
    <3>. QED  BY <1>1, <2>2, <3>1, QueueOfOne
  <2>. QED  BY <1>3, <1>5, <1>6, <1>7, <1>10, <2>3
<1>11. CASE ~spent
  <2>. DEFINE M == MeantFor(h, next)
  <2>1. last \in E /\ ~LinesWithin(h, last, next) /\ ~WaitedFor(h, last)  BY <1>4, <1>11
  <2>2. M = {m \in E : ~LinesWithin(h, m, last) /\ (m # last => ~WaitedFor(h, m))}
    BY <1>11 DEF MeantFor
  <2>3. \A m \in E : LinesWithin(h, m, last) <=> LinesWithin(h, m, next)
    <3>. SUFFICES ASSUME NEW m \in E PROVE LinesWithin(h, m, last) <=> LinesWithin(h, m, next)
      OBVIOUS
    <3>1. m \in 1..Len(h) /\ last \in 1..Len(h) /\ m <= last  BY <1>4
    <3>2. ~IsLines(h[last])
      <4>1. IsEdit(h[last])  BY <2>1 DEF EditsBefore
      <4>. QED  BY <4>1 DEF IsEdit, IsLines
    <3>3. \A k \in (last + 1)..(next - 1) : ~IsLines(h[k])  BY <2>1 DEF LinesWithin
    <3>4. \A k \in (m + 1)..(next - 1) : k \in (m + 1)..(last - 1) \/ k = last \/ k \in (last + 1)..(next - 1)
      <4>. HIDE DEF last
      <4>. QED  BY <1>1, <3>1
    <3>5. \A k \in (m + 1)..(last - 1) : k \in (m + 1)..(next - 1)
      <4>. HIDE DEF last
      <4>. QED  BY <1>1, <3>1
    <3>. QED  BY <3>2, <3>3, <3>4, <3>5 DEF LinesWithin
  <2>4. M = {m \in E : ~LinesWithin(h, m, next) /\ ~WaitedFor(h, m)}
    <3>. HIDE DEF M, E, last, next
    <3>. QED  BY <2>1, <2>2, <2>3
  <2>5. MeantFor(g, next + 1) = M \cup {Len(h) + 1} /\ M \in SUBSET (1..Len(h))  BY <1>4, <1>9, <2>4
  <2>. HIDE DEF M
  <2>6. IsFiniteSet(M) /\ Cardinality(M) \in Nat /\ \A k \in 1..Cardinality(M) : Nth(M, k) \in 1..Len(h)
    BY <1>1, <2>5, RanksExist
  <2>7. /\ Cardinality(M \cup {Len(h) + 1}) = Cardinality(M) + 1
        /\ \A k \in 1..Cardinality(M) : Nth(M \cup {Len(h) + 1}, k) = Nth(M, k)
        /\ Nth(M \cup {Len(h) + 1}, Cardinality(M) + 1) = Len(h) + 1
    BY <1>1, <2>5, RanksGrow
  <2>8. PICK c, W : c \in Nat /\ c = Cardinality(M) /\ W = M \cup {Len(h) + 1}  BY <2>6
  <2>9. QueueFor(g, next + 1) = [k \in 1..(c + 1) |-> g[Nth(W, k)].file]
    BY <2>5, <2>7, <2>8 DEF QueueFor
  <2>10. QueueFor(h, next) = [k \in 1..c |-> h[Nth(M, k)].file]  BY <2>8 DEF QueueFor, M
  <2>11. \A k \in 1..c : g[Nth(W, k)].file = h[Nth(M, k)].file
    BY <1>1, <2>6, <2>7, <2>8
  <2>12. g[Nth(W, c + 1)].file = a.file  BY <1>1, <2>7, <2>8
  <2>13. QueueFor(g, next + 1) = Append(QueueFor(h, next), a.file)
    <3>1. PICK F, G : F = [k \in 1..(c + 1) |-> g[Nth(W, k)].file] /\ G = [k \in 1..c |-> h[Nth(M, k)].file]
      OBVIOUS
    <3>2. c \in Nat /\ (\A k \in 1..c : F[k] = G[k]) /\ F[c + 1] = a.file
      <4>1. c \in Nat /\ c + 1 \in 1..(c + 1) /\ \A k \in 1..c : k \in 1..(c + 1)  BY <2>8
      <4>2. \A k \in 1..c : F[k] = G[k]
        <5>. SUFFICES ASSUME NEW k \in 1..c PROVE F[k] = G[k]  OBVIOUS
        <5>1. F[k] = g[Nth(W, k)].file /\ G[k] = h[Nth(M, k)].file  BY <3>1, <4>1
        <5>. QED  BY <2>11, <5>1
      <4>3. F[c + 1] = g[Nth(W, c + 1)].file  BY <3>1, <4>1
      <4>. QED  BY <2>12, <4>1, <4>2, <4>3
    <3>3. F = [k \in 1..(c + 1) |-> F[k]] /\ G = [k \in 1..c |-> G[k]]  BY <3>1
    <3>4. [k \in 1..(c + 1) |-> F[k]] = Append([k \in 1..c |-> G[k]], F[c + 1])  BY ONLY <3>2, OneMore
    <3>5. F = Append(G, a.file)  BY ONLY <3>2, <3>3, <3>4
    <3>. QED  BY <2>9, <2>10, <3>1, <3>5
  <2>. QED  BY <1>3, <1>5, <1>6, <1>7, <1>11, <2>13
<1>. QED  BY <1>10, <1>11

\* Whether anything was edited.
LEMMA WasEdited ==
    ASSUME NEW h \in Seq(Arrival)
    PROVE  EditsBefore(h, Len(h) + 1) # {} <=> \E n \in DOMAIN h : IsEdit(h[n])
<1>1. Len(h) \in Nat /\ DOMAIN h = 1..Len(h) /\ Len(h) + 1 - 1 = Len(h)  OBVIOUS
<1>. QED  BY <1>1 DEF EditsBefore

\* A queue is made of edited files and is not empty.
LEMMA QueueIs ==
    ASSUME NEW h \in Seq(Arrival), EditsBefore(h, Len(h) + 1) # {}, NEW n \in 1..(Len(h) + 1)
    PROVE  QueueFor(h, n) \in Seq(EditedFile) /\ QueueFor(h, n) # <<>>
<1>. DEFINE M == MeantFor(h, n)
            N == Len(h)
<1>1. N \in Nat /\ N + 1 \in 1..(N + 1)  OBVIOUS
<1>2. EditsBefore(h, n) \in SUBSET EditsBefore(h, N + 1)  BY <1>1 DEF EditsBefore
<1>3. M \in SUBSET EditsBefore(h, N + 1) /\ M # {}
  <2>1. CASE EditsBefore(h, n) = {}
    <3>1. M = {FirstEdit(h)}  BY <2>1 DEF MeantFor
    <3>2. FirstEdit(h) \in EditsBefore(h, N + 1)  BY <1>1, EditsAre
    <3>. QED  BY <3>1, <3>2
  <2>2. CASE EditsBefore(h, n) # {}
    <3>. DEFINE last == LastEdit(h, n)
    <3>1. last \in EditsBefore(h, n) /\ last \in 1..N  BY <2>2, EditsAre
    <3>2. ~LinesWithin(h, last, last)  BY <3>1 DEF LinesWithin
    <3>3. last \in M  BY <2>2, <3>1, <3>2 DEF MeantFor
    <3>4. M \in SUBSET EditsBefore(h, n)  BY <2>2 DEF MeantFor
    <3>. QED  BY <1>2, <3>3, <3>4
  <2>. QED  BY <2>1, <2>2
<1>4. M \in SUBSET (1..N) /\ \A m \in M : IsEdit(h[m])  BY <1>1, <1>3 DEF EditsBefore
<1>5. \A m \in M : h[m].file \in EditedFile
  <2>. SUFFICES ASSUME NEW m \in M PROVE h[m].file \in EditedFile  OBVIOUS
  <2>1. h[m] \in Arrival /\ h[m].kind = "edit"  BY <1>1, <1>4 DEF IsEdit
  <2>. QED  BY <2>1 DEF Arrival
<1>. HIDE DEF M
<1>6. IsFiniteSet(M) /\ Cardinality(M) \in Nat /\ \A k \in 1..Cardinality(M) : Nth(M, k) \in M
  BY <1>1, <1>4, RanksExist
<1>7. Cardinality(M) # 0  BY <1>3, <1>6, FS_EmptySet
<1>8. QueueFor(h, n) = [k \in 1..Cardinality(M) |-> h[Nth(M, k)].file]  BY DEF QueueFor, M
<1>9. PICK c \in Nat : c = Cardinality(M)  BY <1>6
<1>10. QueueFor(h, n) \in [1..c -> EditedFile]  BY <1>5, <1>6, <1>8, <1>9
<1>11. QueueFor(h, n) \in Seq(EditedFile) /\ Len(QueueFor(h, n)) = c  BY <1>10
<1>. QED  BY <1>7, <1>9, <1>11

\* Lines are points with a number of them.
LEMMA PointsAre ==
    ASSUME NEW h \in Seq(Arrival), NEW side \in Sides
    PROVE  /\ PointsOf(h, side) \in SUBSET (1..Len(h)) /\ IsFiniteSet(PointsOf(h, side))
           /\ \A n \in PointsOf(h, side) : h[n].n \in Nat /\ h[n].n > 0 /\ IsLines(h[n])
           /\ LineTotal(h, side) \in Nat
           /\ LineTotal(h, side) = 0 <=> PointsOf(h, side) = {}
<1>. DEFINE T == PointsOf(h, side)
            F == [n \in T |-> h[n].n]
<1>1. T \in SUBSET (1..Len(h)) /\ Len(h) \in Nat  BY DEF PointsOf
<1>2. IsFiniteSet(T)
  <2>1. IsFiniteSet(1..Len(h))  BY <1>1, FS_Interval
  <2>. QED  BY <1>1, <2>1, FS_Subset
<1>3. \A n \in T : h[n].n \in Nat /\ h[n].n > 0 /\ IsLines(h[n])
  <2>. SUFFICES ASSUME NEW n \in T PROVE h[n].n \in Nat /\ h[n].n > 0 /\ IsLines(h[n])  OBVIOUS
  <2>1. h[n] \in Arrival /\ IsLines(h[n])  BY <1>1 DEF PointsOf
  <2>2. h[n].kind = "lines" /\ h[n].n > 0  BY <2>1 DEF IsLines
  <2>3. h[n].n \in LineCounts  BY <2>1, <2>2 DEF Arrival
  <2>4. h[n].n \in Int  BY <2>3, LedgerAssumption
  <2>. QED  BY <2>1, <2>2, <2>4
<1>4. \A n \in T : F[n] \in Nat /\ F[n] # 0  BY <1>3
<1>5. F \in [T -> Int]  BY <1>4
<1>6. LineTotal(h, side) = SumFunction(F)  BY DEF LineTotal
<1>. HIDE DEF F, T
<1>7. SumFunction(F) = SumOver(F, T)  BY <1>5, SumOfFunction
<1>8. SumOver(F, T) \in Nat /\ (SumOver(F, T) = 0 <=> \A n \in T : F[n] = 0)  BY <1>2, <1>4, SumOfNaturals
<1>9. (\A n \in T : F[n] = 0) <=> T = {}  BY <1>4
<1>. QED  BY <1>1, <1>2, <1>3, <1>6, <1>7, <1>8, <1>9 DEF T

\* A sum over positions, and over one more.
LEMMA SumWithNext ==
    ASSUME NEW n \in Nat, NEW T \in SUBSET (1..n), NEW F, NEW G,
           \A x \in T : F[x] \in Int /\ F[x] = G[x], G[n + 1] \in Int
    PROVE  SumOver(G, T \cup {n + 1}) = SumOver(F, T) + G[n + 1]
<1>1. PICK V : V = T \cup {n + 1}  OBVIOUS
<1>2. n + 1 \notin T /\ n + 1 \in V /\ T \in SUBSET V  BY <1>1
<1>3. IsFiniteSet(V)
  <2>1. IsFiniteSet(1..n)  BY FS_Interval
  <2>2. IsFiniteSet(T)  BY <2>1, FS_Subset
  <2>. QED  BY <1>1, <2>2, FS_AddElement
<1>4. \A x \in V : G[x] \in Int  BY <1>1
<1>5. \A X \in SUBSET V, y \in V : y \notin X => SumOver(G, X \cup {y}) = SumOver(G, X) + G[y]
  BY ONLY <1>3, <1>4, SumOverLaws
<1>6. SumOver(G, T \cup {n + 1}) = SumOver(G, T) + G[n + 1]  BY <1>2, <1>5
<1>7. SumOver(F, T) = SumOver(G, T)  BY SumOverSame
<1>. QED  BY <1>6, <1>7

\* What an arrival adds to the total of a side.
LEMMA PointsAfter ==
    ASSUME NEW h \in Seq(Arrival), NEW a \in Arrival, NEW side \in Sides
    PROVE  /\ IsLines(a) /\ a.side = side =>
                /\ PointsOf(Append(h, a), side) = PointsOf(h, side) \cup {Len(h) + 1}
                /\ LineTotal(Append(h, a), side) = LineTotal(h, side) + a.n
           /\ ~(IsLines(a) /\ a.side = side) =>
                PointsOf(Append(h, a), side) = PointsOf(h, side) /\ LineTotal(Append(h, a), side) = LineTotal(h, side)
<1>. SUFFICES ASSUME NEW g, g = Append(h, a)
             PROVE  /\ IsLines(a) /\ a.side = side =>
                         /\ PointsOf(g, side) = PointsOf(h, side) \cup {Len(h) + 1}
                         /\ LineTotal(g, side) = LineTotal(h, side) + a.n
                    /\ ~(IsLines(a) /\ a.side = side) =>
                         PointsOf(g, side) = PointsOf(h, side) /\ LineTotal(g, side) = LineTotal(h, side)
  OBVIOUS
<1>. DEFINE N == Len(h)
            T == PointsOf(h, side)
            F == [n \in 1..N |-> h[n].n]
            G == [n \in 1..(N + 1) |-> g[n].n]
<1>1. /\ N \in Nat /\ Len(g) = N + 1 /\ g \in Seq(Arrival) /\ g[N + 1] = a
      /\ \A k \in 1..N : g[k] = h[k]
  BY HistoryStays
<1>2. PointsOf(g, side) = T \cup (IF IsLines(a) /\ a.side = side THEN {N + 1} ELSE {})
  <2>1. DOMAIN g = (1..N) \cup {N + 1} /\ DOMAIN h = 1..N  BY <1>1
  <2>2. \A k \in 1..N : (IsLines(g[k]) /\ g[k].side = side) <=> (IsLines(h[k]) /\ h[k].side = side)  BY <1>1
  <2>3. (IsLines(g[N + 1]) /\ g[N + 1].side = side) <=> (IsLines(a) /\ a.side = side)  BY <1>1
  <2>. HIDE DEF N
  <2>. QED  BY <2>1, <2>2, <2>3 DEF PointsOf
<1>3. T \in SUBSET (1..N) /\ \A n \in T : h[n].n \in Int  BY PointsAre
<1>4. \A n \in T : F[n] = h[n].n /\ G[n] = h[n].n  BY <1>1, <1>3
<1>5. LineTotal(h, side) = SumFunction([n \in T |-> F[n]])
  <2>1. [n \in T |-> F[n]] = [n \in T |-> h[n].n]  BY <1>4
  <2>. QED  BY <2>1 DEF LineTotal
<1>6. CASE IsLines(a) /\ a.side = side
  <2>1. a.n \in Int
    <3>1. a.kind = "lines"  BY <1>6 DEF IsLines
    <3>2. a.n \in LineCounts  BY <3>1 DEF Arrival
    <3>. QED  BY <3>2, LedgerAssumption
  <2>2. G[N + 1] = a.n  BY <1>1
  <2>3. PointsOf(g, side) = T \cup {N + 1}  BY <1>2, <1>6
  <2>4. LineTotal(g, side) = SumFunction([n \in T \cup {N + 1} |-> G[n]])
    <3>1. \A n \in T \cup {N + 1} : G[n] = g[n].n  BY <1>1, <1>3
    <3>2. [n \in T \cup {N + 1} |-> G[n]] = [n \in PointsOf(g, side) |-> g[n].n]  BY <2>3, <3>1
    <3>. QED  BY <3>2 DEF LineTotal
  <2>5. PICK A, B : A = F /\ B = G  OBVIOUS
  <2>6. \A x \in T : A[x] \in Int /\ A[x] = B[x]  BY <1>3, <1>4, <2>5
  <2>7. B[N + 1] \in Int /\ B[N + 1] = a.n  BY <2>1, <2>2, <2>5
  <2>8. LineTotal(g, side) = SumOver(B, T \cup {N + 1}) /\ LineTotal(h, side) = SumOver(A, T)
    BY <1>5, <2>4, <2>5 DEF SumOver
  <2>. HIDE DEF F, G, T, N
  <2>9. SumOver(B, T \cup {N + 1}) = SumOver(A, T) + B[N + 1]
    <3>1. PICK n \in Nat : n = N  BY <1>1
    <3>2. PICK V \in SUBSET (1..n) : V = T  BY <1>3, <3>1
    <3>3. (\A x \in V : A[x] \in Int /\ A[x] = B[x]) /\ B[n + 1] \in Int  BY <2>6, <2>7, <3>1, <3>2
    <3>4. SumOver(B, V \cup {n + 1}) = SumOver(A, V) + B[n + 1]  BY ONLY <3>3, SumWithNext
    <3>. QED  BY <3>1, <3>2, <3>4
  <2>. QED  BY <1>2, <1>6, <2>7, <2>8, <2>9 DEF N, T
<1>7. CASE ~(IsLines(a) /\ a.side = side)
  <2>1. PointsOf(g, side) = T  BY <1>2, <1>7
  <2>2. [n \in PointsOf(g, side) |-> g[n].n] = [n \in T |-> h[n].n]  BY <1>1, <1>3, <2>1
  <2>3. LineTotal(g, side) = LineTotal(h, side)  BY <2>2 DEF LineTotal
  <2>4. LineTotal(h, side) \in Int  BY PointsAre
  <2>. QED  BY <1>2, <1>7, <2>3, <2>4
<1>. QED  BY <1>6, <1>7

\* What a file is to get of one point.
LEMMA PortionIs ==
    ASSUME NEW h \in Seq(Arrival), EditsBefore(h, Len(h) + 1) # {}, NEW n \in 1..(Len(h) + 1),
           NEW total \in Nat, NEW f \in EditedFile
    PROVE  Portion(total, QueueFor(h, n), f) \in Int
BY QueueIs, PortionsAreAll

\* What an arrival adds to what is expected of a file.
LEMMA ExpectedAfter ==
    ASSUME NEW h \in Seq(Arrival), NEW a \in Arrival, NEW side \in Sides,
           NEW f \in EditedFile, EditsBefore(h, Len(h) + 1) # {}
    PROVE  /\ Expected(h, f, side) \in Int
           /\ IsLines(a) /\ a.side = side =>
                Expected(Append(h, a), f, side) = Expected(h, f, side) + Portion(a.n, QueueFor(h, Len(h) + 1), f)
           /\ ~(IsLines(a) /\ a.side = side) => Expected(Append(h, a), f, side) = Expected(h, f, side)
<1>. SUFFICES ASSUME NEW g, g = Append(h, a)
             PROVE  /\ Expected(h, f, side) \in Int
                    /\ IsLines(a) /\ a.side = side =>
                         Expected(g, f, side) = Expected(h, f, side) + Portion(a.n, QueueFor(h, Len(h) + 1), f)
                    /\ ~(IsLines(a) /\ a.side = side) => Expected(g, f, side) = Expected(h, f, side)
  OBVIOUS
<1>. DEFINE N == Len(h)
            T == PointsOf(h, side)
            F == [n \in 1..N |-> Portion(h[n].n, QueueFor(h, n), f)]
            G == [n \in 1..(N + 1) |-> Portion(g[n].n, QueueFor(g, n), f)]
<1>1. /\ N \in Nat /\ Len(g) = N + 1 /\ g \in Seq(Arrival) /\ g[N + 1] = a
      /\ \A k \in 1..N : g[k] = h[k]
  BY HistoryStays
<1>2. /\ IsLines(a) /\ a.side = side => PointsOf(g, side) = T \cup {N + 1}
      /\ ~(IsLines(a) /\ a.side = side) => PointsOf(g, side) = T
  BY PointsAfter
<1>3. T \in SUBSET (1..N) /\ IsFiniteSet(T) /\ \A n \in T : h[n].n \in Nat  BY PointsAre
<1>4. \A n \in 1..(N + 1) : QueueFor(g, n) = QueueFor(h, n)  BY QueuesStay
<1>5. \A n \in T : n \in 1..N /\ n \in 1..(N + 1)  BY <1>1, <1>3
<1>6. \A n \in T : F[n] \in Int
  <2>. SUFFICES ASSUME NEW n \in T PROVE F[n] \in Int  OBVIOUS
  <2>1. F[n] = Portion(h[n].n, QueueFor(h, n), f)  BY <1>5
  <2>. QED  BY <1>3, <1>5, <2>1, PortionIs
<1>7. \A n \in T : G[n] = F[n]
  <2>. SUFFICES ASSUME NEW n \in T PROVE G[n] = F[n]  OBVIOUS
  <2>1. F[n] = Portion(h[n].n, QueueFor(h, n), f) /\ G[n] = Portion(g[n].n, QueueFor(g, n), f)  BY <1>5
  <2>2. g[n].n = h[n].n /\ QueueFor(g, n) = QueueFor(h, n)  BY <1>1, <1>4, <1>5
  <2>. QED  BY <2>1, <2>2
<1>8. Expected(h, f, side) = SumOver(F, T)
  <2>1. [n \in T |-> F[n]] = [n \in T |-> Portion(h[n].n, QueueFor(h, n), f)]  BY <1>5
  <2>. QED  BY <2>1 DEF Expected, SumOver
<1>9. Expected(g, f, side) = SumOver(G, PointsOf(g, side))
  <2>1. \A n \in PointsOf(g, side) : G[n] = Portion(g[n].n, QueueFor(g, n), f)
    <3>1. PointsOf(g, side) \in SUBSET (1..(N + 1))  BY <1>1, <1>2, <1>3
    <3>. QED  BY <3>1
  <2>. HIDE DEF G
  <2>2. [n \in PointsOf(g, side) |-> G[n]] = [n \in PointsOf(g, side) |-> Portion(g[n].n, QueueFor(g, n), f)]
    BY <2>1
  <2>. QED  BY <2>2 DEF Expected, SumOver
<1>10. PICK A, B : A = F /\ B = G  OBVIOUS
<1>11. G[N + 1] = Portion(a.n, QueueFor(h, N + 1), f)
  <2>1. N + 1 \in 1..(N + 1)  BY <1>1
  <2>2. G[N + 1] = Portion(g[N + 1].n, QueueFor(g, N + 1), f)  BY <2>1
  <2>. QED  BY <1>1, <1>4, <2>1, <2>2
<1>. HIDE DEF F, G
<1>12. SumOver(F, T) \in Int
  <2>1. SumOver(A, T) \in Int
    <3>1. \A n \in T : A[n] \in Int  BY <1>6, <1>10
    <3>2. T \in SUBSET T  OBVIOUS
    <3>. QED  BY <1>3, <3>1, <3>2, SumOverLaws
  <2>. QED  BY <1>10, <2>1
<1>13. CASE IsLines(a) /\ a.side = side
  <2>1. a.n \in Nat
    <3>1. a.kind = "lines" /\ a.n > 0  BY <1>13 DEF IsLines
    <3>2. a.n \in LineCounts  BY <3>1 DEF Arrival
    <3>3. a.n \in Int  BY <3>2, LedgerAssumption
    <3>. QED  BY <3>1, <3>3
  <2>2. N + 1 \in 1..(N + 1)  BY <1>1
  <2>3. G[N + 1] \in Int  BY <1>11, <2>1, <2>2, PortionIs
  <2>4. B[N + 1] \in Int /\ \A x \in T : A[x] \in Int /\ A[x] = B[x]  BY <1>6, <1>7, <1>10, <2>3
  <2>. HIDE DEF N, T
  <2>5. SumOver(B, T \cup {N + 1}) = SumOver(A, T) + B[N + 1]
    <3>1. PICK n \in Nat : n = N  BY <1>1
    <3>2. PICK V \in SUBSET (1..n) : V = T  BY <1>3, <3>1
    <3>3. (\A x \in V : A[x] \in Int /\ A[x] = B[x]) /\ B[n + 1] \in Int  BY <2>4, <3>1, <3>2
    <3>4. SumOver(B, V \cup {n + 1}) = SumOver(A, V) + B[n + 1]  BY ONLY <3>3, SumWithNext
    <3>. QED  BY <3>1, <3>2, <3>4
  <2>6. Expected(g, f, side) = Expected(h, f, side) + G[N + 1]
    BY <1>2, <1>8, <1>9, <1>10, <1>13, <2>5
  <2>. QED  BY <1>8, <1>11, <1>12, <1>13, <2>6 DEF N
<1>14. CASE ~(IsLines(a) /\ a.side = side)
  <2>1. SumOver(G, T) = SumOver(F, T)  BY <1>7, SumOverSame
  <2>2. PointsOf(g, side) = T  BY <1>2, <1>14
  <2>3. Expected(g, f, side) = Expected(h, f, side)  BY <1>8, <1>9, <2>1, <2>2
  <2>. QED  BY <1>8, <1>12, <1>14, <2>3
<1>. QED  BY <1>13, <1>14

\* What is expected of a file when it is the first one edited: all of the lines, and
\* nothing of any other.
LEMMA ExpectedOfFirst ==
    ASSUME NEW h \in Seq(Arrival), NEW a \in Arrival, NEW side \in Sides,
           NEW f \in EditedFile, EditsBefore(h, Len(h) + 1) = {}, IsEdit(a)
    PROVE  Expected(Append(h, a), f, side) = IF f = a.file THEN LineTotal(h, side) ELSE 0
<1>. SUFFICES ASSUME NEW g, g = Append(h, a)
             PROVE  Expected(g, f, side) = IF f = a.file THEN LineTotal(h, side) ELSE 0
  OBVIOUS
<1>. DEFINE N == Len(h)
            T == PointsOf(h, side)
            G == [n \in T |-> Portion(g[n].n, QueueFor(g, n), f)]
            F == [n \in T |-> h[n].n]
<1>1. /\ N \in Nat /\ Len(g) = N + 1 /\ g \in Seq(Arrival) /\ g[N + 1] = a
      /\ \A k \in 1..N : g[k] = h[k]
      /\ \A n \in 1..(N + 1) : EditsBefore(g, n) = EditsBefore(h, n)
  BY HistoryStays
<1>2. PointsOf(g, side) = T
  <2>1. ~IsLines(a)  BY DEF IsEdit, IsLines
  <2>. QED  BY <2>1, PointsAfter
<1>3. a.file \in EditedFile
  <2>1. a.kind = "edit"  BY DEF IsEdit
  <2>. QED  BY <2>1 DEF Arrival
<1>4. T \in SUBSET (1..N) /\ IsFiniteSet(T) /\ \A n \in T : h[n].n \in Nat  BY PointsAre
<1>5. FirstEdit(g) = N + 1
  <2>1. EditsBefore(g, Len(h) + 2) = {} \cup {N + 1}  BY EditsAfter
  <2>2. Len(g) + 1 = Len(h) + 2 /\ Len(g) + 1 \in 1..(Len(g) + 1)  BY <1>1
  <2>3. FirstEdit(g) \in {N + 1}  BY <1>1, <2>1, <2>2, EditsAre
  <2>. QED  BY <2>3
<1>6. \A n \in T : QueueFor(g, n) = <<a.file>>
  <2>. SUFFICES ASSUME NEW n \in T PROVE QueueFor(g, n) = <<a.file>>  OBVIOUS
  <2>1. n \in 1..N /\ n \in 1..(N + 1)  BY <1>1, <1>4
  <2>2. EditsBefore(h, n) \in SUBSET EditsBefore(h, N + 1)
    <3>1. 1..(n - 1) \in SUBSET (1..(N + 1 - 1))  BY <1>1, <2>1
    <3>. QED  BY <3>1 DEF EditsBefore
  <2>3. EditsBefore(g, n) = {}  BY <1>1, <2>1, <2>2
  <2>4. MeantFor(g, n) = {N + 1}  BY <1>5, <2>3 DEF MeantFor
  <2>5. N + 1 \in 1..Len(g)  BY <1>1
  <2>6. PICK m \in 1..Len(g) : m = N + 1  BY <2>5
  <2>7. MeantFor(g, n) = {m} /\ g \in Seq(Arrival)  BY <1>1, <2>4, <2>6
  <2>8. QueueFor(g, n) = <<g[m].file>>  BY ONLY <2>6, <2>7, QueueOfOne
  <2>. QED  BY <1>1, <2>6, <2>8
<1>7. \A n \in T : G[n] = IF f = a.file THEN h[n].n ELSE 0
  <2>. SUFFICES ASSUME NEW n \in T PROVE G[n] = IF f = a.file THEN h[n].n ELSE 0  OBVIOUS
  <2>1. G[n] = Portion(h[n].n, <<a.file>>, f)  BY <1>1, <1>4, <1>6
  <2>2. h[n].n \in Nat  BY <1>4
  <2>. QED  BY <1>3, <2>1, <2>2, OnlyFile
<1>8. Expected(g, f, side) = SumFunction(G)
  BY <1>2 DEF Expected
<1>9. LineTotal(h, side) = SumFunction(F)  BY DEF LineTotal
<1>10. CASE f = a.file
  <2>1. G = F  BY <1>7, <1>10
  <2>. QED  BY <1>8, <1>9, <1>10, <2>1
<1>11. CASE f # a.file
  <2>0. \A n \in T : G[n] = 0  BY <1>7, <1>11
  <2>1. G \in [T -> Int] /\ \A n \in T : G[n] = 0
    <3>1. G = [n \in T |-> G[n]]  OBVIOUS
    <3>. HIDE DEF G
    <3>. QED  BY <2>0, <3>1
  <2>. HIDE DEF G, T
  <2>2. SumFunction(G) = SumOver(G, T)  BY <2>1, SumOfFunction
  <2>3. SumOver(G, T) = 0
    <3>1. \A n \in T : G[n] \in Nat  BY <2>1
    <3>. QED  BY <1>4, <2>1, <3>1, SumOfNaturals
  <2>. QED  BY <1>8, <1>11, <2>2, <2>3
<1>. QED  BY <1>10, <1>11

Buckets == [Sides -> [total : Nat, unassigned : Nat]]

\* What is handed out leaves a bucket empty, and is all with the files.
LEMMA HandedOut ==
    ASSUME LedgerTypeOK, NEW held \in Buckets, NEW queue \in Seq(EditedFile), NEW used \in BOOLEAN,
           HandOut(held, queue, used), queue # <<>>
    PROVE  /\ buckets' \in Buckets
           /\ \A s \in Sides : buckets'[s].total = held[s].total /\ buckets'[s].unassigned = 0
           /\ assigned' \in [EditedFile -> [Sides -> Int]]
           /\ \A f \in EditedFile, s \in Sides :
                /\ held[s].unassigned > 0 =>
                     assigned'[f][s] = assigned[f][s] + Portion(held[s].unassigned, queue, f)
                /\ held[s].unassigned = 0 => assigned'[f][s] = assigned[f][s]
           /\ \A s \in Sides : Assigned(s) \in Int /\ Assigned(s)' = Assigned(s) + held[s].unassigned
           /\ queueSpent' <=> (used \/ \E s \in Sides : held[s].unassigned > 0)
           /\ editQueue' = queue /\ queueSpent' \in BOOLEAN
<1>1. /\ buckets' = [s \in Sides |->
            [held[s] EXCEPT !.unassigned = IF @ > 0 THEN @ - Handed(@, queue) ELSE @]]
      /\ assigned' = [f \in EditedFile |-> [s \in Sides |->
            assigned[f][s] + (IF held[s].unassigned > 0 THEN Portion(held[s].unassigned, queue, f) ELSE 0)]]
      /\ queueSpent' = (used \/ \E s \in Sides : held[s].unassigned > 0)
      /\ editQueue' = queue
  BY DEF HandOut
<1>2. \A s \in Sides : held[s] \in [total : Nat, unassigned : Nat]  BY DEF Buckets
<1>3. \A s \in Sides : held[s].unassigned \in Nat /\ held[s].total \in Nat  BY <1>2
<1>4. \A l \in Nat : Handed(l, queue) = l /\ \A f \in EditedFile : Portion(l, queue, f) \in Int
  BY HandedIsAll, PortionsAreAll
<1>5. \A s \in Sides : buckets'[s] = [held[s] EXCEPT !.unassigned = 0]
  <2>. SUFFICES ASSUME NEW s \in Sides PROVE buckets'[s] = [held[s] EXCEPT !.unassigned = 0]  OBVIOUS
  <2>1. PICK u \in Nat : u = held[s].unassigned  BY <1>3
  <2>2. buckets'[s] = [held[s] EXCEPT !.unassigned = IF u > 0 THEN u - Handed(u, queue) ELSE u]  BY <1>1, <2>1
  <2>3. (IF u > 0 THEN u - Handed(u, queue) ELSE u) = 0  BY <1>4
  <2>. QED  BY <2>2, <2>3
<1>6. \A s \in Sides : /\ buckets'[s].total = held[s].total /\ buckets'[s].unassigned = 0
                       /\ buckets'[s] \in [total : Nat, unassigned : Nat]
  <2>. SUFFICES ASSUME NEW s \in Sides
                PROVE  /\ buckets'[s].total = held[s].total /\ buckets'[s].unassigned = 0
                       /\ buckets'[s] \in [total : Nat, unassigned : Nat]
    OBVIOUS
  <2>1. PICK r \in [total : Nat, unassigned : Nat] : r = held[s]  BY <1>2
  <2>2. buckets'[s] = [r EXCEPT !.unassigned = 0]  BY <1>5, <2>1
  <2>3. buckets'[s].total = r.total /\ buckets'[s].unassigned = 0 /\ buckets'[s] \in [total : Nat, unassigned : Nat]
    BY ONLY <2>2
  <2>. QED  BY <2>1, <2>3
<1>7. buckets' \in Buckets
  <2>1. buckets' = [s \in Sides |-> buckets'[s]]  BY <1>1
  <2>. QED  BY <1>6, <2>1 DEF Buckets
<1>8. \A f \in EditedFile, s \in Sides : assigned[f][s] \in Int  BY DEF LedgerTypeOK
<1>9. \A f \in EditedFile, s \in Sides :
        /\ held[s].unassigned > 0 =>
             assigned'[f][s] = assigned[f][s] + Portion(held[s].unassigned, queue, f)
        /\ held[s].unassigned = 0 => assigned'[f][s] = assigned[f][s]
        /\ assigned'[f][s] \in Int
  <2>. SUFFICES ASSUME NEW f \in EditedFile, NEW s \in Sides
                PROVE  /\ held[s].unassigned > 0 =>
                            assigned'[f][s] = assigned[f][s] + Portion(held[s].unassigned, queue, f)
                       /\ held[s].unassigned = 0 => assigned'[f][s] = assigned[f][s]
                       /\ assigned'[f][s] \in Int
    OBVIOUS
  <2>1. PICK u \in Nat, before \in Int, p \in Int :
          u = held[s].unassigned /\ before = assigned[f][s] /\ p = Portion(held[s].unassigned, queue, f)
    BY <1>3, <1>4, <1>8
  <2>2. assigned'[f][s] = before + (IF u > 0 THEN p ELSE 0)  BY <1>1, <2>1
  <2>. QED  BY <2>1, <2>2
<1>10. assigned' \in [EditedFile -> [Sides -> Int]]
  <2>1. assigned' = [f \in EditedFile |-> [s \in Sides |-> assigned'[f][s]]]  BY <1>1
  <2>. QED  BY <1>9, <2>1
<1>11. ASSUME NEW s \in Sides
       PROVE  Assigned(s) \in Int /\ Assigned(s)' = Assigned(s) + held[s].unassigned
  <2>1. PICK u \in Nat : u = held[s].unassigned  BY <1>3
  <2>2. PICK A, B, P : /\ A = [f \in EditedFile |-> assigned[f][s]]
                       /\ B = [f \in EditedFile |-> assigned'[f][s]]
                       /\ P = [f \in EditedFile |-> IF u > 0 THEN Portion(u, queue, f) ELSE 0]
    OBVIOUS
  <2>3. IsFiniteSet(EditedFile)  BY LedgerAssumption
  <2>4. A \in [EditedFile -> Int]  BY <1>8, <2>2
  <2>5. B \in [EditedFile -> Int]  BY <1>9, <2>2
  <2>6. P \in [EditedFile -> Int]
    <3>1. CASE u > 0  BY <1>4, <2>1, <2>2, <3>1
    <3>2. CASE ~(u > 0)
      <4>1. P = [f \in EditedFile |-> 0]  BY <2>2, <3>2
      <4>. QED  BY <4>1
    <3>. QED  BY <3>1, <3>2
  <2>7. \A f \in EditedFile : B[f] = A[f] + P[f]
    <3>. SUFFICES ASSUME NEW f \in EditedFile PROVE B[f] = A[f] + P[f]  OBVIOUS
    <3>1. A[f] = assigned[f][s] /\ B[f] = assigned'[f][s] /\ A[f] \in Int  BY <2>2, <2>4
    <3>2. CASE u > 0
      <4>1. P[f] = Portion(u, queue, f)  BY <2>2, <3>2
      <4>. QED  BY <1>9, <2>1, <3>1, <3>2, <4>1
    <3>3. CASE u = 0
      <4>1. P[f] = 0  BY <2>2, <3>3
      <4>2. assigned'[f][s] = assigned[f][s]  BY <1>9, <2>1, <3>3
      <4>. QED  BY <3>1, <4>1, <4>2
    <3>. QED  BY <3>2, <3>3
  <2>8. SumOver(B, EditedFile) = SumOver(A, EditedFile) + SumOver(P, EditedFile)
    <3>1. \A f \in EditedFile : A[f] \in Int /\ P[f] \in Int  BY <2>4, <2>6
    <3>. QED  BY ONLY <2>3, <2>7, <3>1, SumOfTwo
  <2>9. SumOver(P, EditedFile) = u
    <3>1. CASE u > 0
      <4>1. P = [f \in EditedFile |-> Portion(u, queue, f)]  BY <2>2, <3>1
      <4>2. SumFunction(P) = u  BY <4>1, PortionsAreAll
      <4>. QED  BY <2>6, <4>2, SumOfFunction
    <3>2. CASE u = 0
      <4>1. \A f \in EditedFile : P[f] = 0 /\ P[f] \in Nat  BY <2>2, <3>2
      <4>2. SumOver(P, EditedFile) = 0  BY <2>3, <4>1, SumOfNaturals
      <4>. QED  BY <3>2, <4>2
    <3>. QED  BY <3>1, <3>2
  <2>10. SumOver(A, EditedFile) = SumFunction(A) /\ SumOver(B, EditedFile) = SumFunction(B)
    BY <2>4, <2>5, SumOfFunction
  <2>11. SumOver(A, EditedFile) \in Int
    <3>1. \A f \in EditedFile : A[f] \in Int  BY <2>4
    <3>2. EditedFile \in SUBSET EditedFile  OBVIOUS
    <3>. QED  BY <2>3, <3>1, <3>2, SumOverLaws
  <2>12. Assigned(s) = SumFunction(A)  BY <2>2 DEF Assigned
  <2>13. Assigned(s)' = SumFunction(B)  BY <2>2 DEF Assigned
  <2>. QED  BY <2>1, <2>8, <2>9, <2>10, <2>11, <2>12, <2>13
<1>. QED  BY <1>1, <1>6, <1>7, <1>9, <1>10, <1>11


\* The invariant of a history, and of the history with what arrives.
LEMMA LedgerInvSays ==
    ASSUME LedgerInv, NEW h, h = arrivals, NEW next, next = Len(h) + 1
    PROVE  /\ LedgerTypeOK /\ h \in Seq(Arrival) /\ buckets \in Buckets
           /\ \A s \in Sides : /\ buckets[s].total = LineTotal(h, s)
                               /\ Assigned(s) + buckets[s].unassigned = LineTotal(h, s)
           /\ EditsBefore(h, next) = {} =>
                /\ editQueue = <<>> /\ queueSpent = FALSE
                /\ \A f \in EditedFile, s \in Sides : assigned[f][s] = 0
           /\ EditsBefore(h, next) # {} =>
                /\ \A s \in Sides :
                     buckets[s].unassigned = 0 /\ \A f \in EditedFile : assigned[f][s] = Expected(h, f, s)
                /\ editQueue = QueueFor(h, next)
                /\ queueSpent <=> (LinesWithin(h, LastEdit(h, next), next) \/ WaitedFor(h, LastEdit(h, next)))
<1>1. LedgerTypeOK /\ LinesReachTheirFiles  BY DEF LedgerInv
<1>2. h \in Seq(Arrival) /\ buckets \in Buckets /\ queueSpent \in BOOLEAN  BY <1>1 DEF LedgerTypeOK, Buckets
<1>3. EditsBefore(h, next) # {} <=> \E n \in DOMAIN h : IsEdit(h[n])  BY <1>2, WasEdited
<1>4. \A s \in Sides : /\ buckets[s].total = LineTotal(h, s)
                       /\ Assigned(s) + buckets[s].unassigned = LineTotal(h, s)
  BY <1>1 DEF LinesReachTheirFiles
<1>5. CASE EditsBefore(h, next) = {}
  <2>1. \A f \in EditedFile, s \in Sides : assigned[f][s] = 0  BY <1>1, <1>3, <1>5 DEF LinesReachTheirFiles
  <2>2. editQueue = <<>> /\ ~queueSpent  BY <1>5 DEF LedgerInv
  <2>. QED  BY <1>1, <1>2, <1>4, <1>5, <2>1, <2>2
<1>6. CASE EditsBefore(h, next) # {}
  <2>1. \A s \in Sides :
          buckets[s].unassigned = 0 /\ \A f \in EditedFile : assigned[f][s] = Expected(h, f, s)
    BY <1>1, <1>3, <1>6 DEF LinesReachTheirFiles
  <2>2. /\ editQueue = QueueFor(h, next)
        /\ queueSpent <=> (LinesWithin(h, LastEdit(h, next), next) \/ WaitedFor(h, LastEdit(h, next)))
    BY <1>6 DEF LedgerInv
  <2>. QED  BY <1>1, <1>2, <1>4, <1>6, <2>1, <2>2
<1>. QED  BY <1>5, <1>6

\* What an arrival has to establish, told of the history after it.
LEMMA LedgerInvAfter ==
    ASSUME NEW g \in Seq(Arrival), arrivals' = g, NEW next, next = Len(g) + 1, LedgerTypeOK',
           \A s \in Sides : /\ buckets'[s].total = LineTotal(g, s)
                            /\ Assigned(s)' + buckets'[s].unassigned = LineTotal(g, s),
           EditsBefore(g, next) = {} =>
              /\ editQueue' = <<>> /\ queueSpent' = FALSE
              /\ \A f \in EditedFile, s \in Sides : assigned'[f][s] = 0,
           EditsBefore(g, next) # {} =>
              /\ \A s \in Sides :
                   buckets'[s].unassigned = 0 /\ \A f \in EditedFile : assigned'[f][s] = Expected(g, f, s)
              /\ editQueue' = QueueFor(g, next)
              /\ queueSpent' <=> (LinesWithin(g, LastEdit(g, next), next) \/ WaitedFor(g, LastEdit(g, next)))
    PROVE  LedgerInv'
<1>1. EditsBefore(g, next) # {} <=> \E n \in DOMAIN g : IsEdit(g[n])  BY WasEdited
<1>2. LinesReachTheirFiles'
  <2>1. CASE EditsBefore(g, next) = {}  BY <1>1, <2>1 DEF LinesReachTheirFiles
  <2>2. CASE EditsBefore(g, next) # {}  BY <1>1, <2>2 DEF LinesReachTheirFiles
  <2>. QED  BY <2>1, <2>2
<1>3. CASE EditsBefore(g, next) = {}  BY <1>2, <1>3 DEF LedgerInv
<1>4. CASE EditsBefore(g, next) # {}  BY <1>2, <1>4 DEF LedgerInv
<1>. QED  BY <1>3, <1>4

\* Counted lines keep the invariant.
LEMMA LinesKeepLedger ==
    ASSUME LedgerInv, NEW side \in Sides, NEW n \in LineCounts, LinesCounted(side, n)
    PROVE  LedgerInv'
<1>1. PICK h, g, a, next : /\ h = arrivals /\ g = arrivals' /\ a = [kind |-> "lines", side |-> side, n |-> n]
                           /\ next = Len(h) + 1
  OBVIOUS
<1>2. /\ LedgerTypeOK /\ h \in Seq(Arrival) /\ buckets \in Buckets
      /\ \A s \in Sides : /\ buckets[s].total = LineTotal(h, s)
                          /\ Assigned(s) + buckets[s].unassigned = LineTotal(h, s)
      /\ EditsBefore(h, next) = {} =>
           /\ editQueue = <<>> /\ queueSpent = FALSE
           /\ \A f \in EditedFile, s \in Sides : assigned[f][s] = 0
      /\ EditsBefore(h, next) # {} =>
           /\ \A s \in Sides :
                buckets[s].unassigned = 0 /\ \A f \in EditedFile : assigned[f][s] = Expected(h, f, s)
           /\ editQueue = QueueFor(h, next)
           /\ queueSpent <=> (LinesWithin(h, LastEdit(h, next), next) \/ WaitedFor(h, LastEdit(h, next)))
  BY <1>1, LedgerInvSays
<1>3. n \in Int /\ a.kind = "lines" /\ a.side = side /\ a.n = n  BY <1>1, LedgerAssumption
<1>4. a \in Arrival /\ ~IsEdit(a) /\ (IsLines(a) <=> n > 0)
  BY <1>1, <1>3 DEF Arrival, IsEdit, IsLines
<1>5. g = Append(h, a)  BY <1>1 DEF LinesCounted, Arrives
<1>6. g \in Seq(Arrival) /\ Len(g) = next /\ next \in Nat /\ Len(h) + 2 = next + 1
  BY <1>1, <1>2, <1>4, <1>5, HistoryStays
<1>7. EditsBefore(g, next + 1) = EditsBefore(h, next)
  <2>1. EditsBefore(Append(h, a), Len(h) + 2) = EditsBefore(h, Len(h) + 1)  BY <1>2, <1>4, EditsAfter
  <2>. QED  BY <1>1, <1>5, <1>6, <2>1
<1>8. \A s \in Sides : /\ IsLines(a) /\ s = side => LineTotal(g, s) = LineTotal(h, s) + n
                       /\ ~(IsLines(a) /\ s = side) => LineTotal(g, s) = LineTotal(h, s)
  BY <1>2, <1>3, <1>4, <1>5, PointsAfter
<1>9. EditsBefore(h, next) # {} =>
        /\ QueueFor(g, next + 1) = QueueFor(h, next)
        /\ LastEdit(g, next + 1) = LastEdit(h, next)
        /\ LinesWithin(g, LastEdit(h, next), next + 1) <=> (LinesWithin(h, LastEdit(h, next), next) \/ IsLines(a))
        /\ WaitedFor(g, LastEdit(h, next)) <=> WaitedFor(h, LastEdit(h, next))
        /\ QueueFor(h, next) \in Seq(EditedFile) /\ QueueFor(h, next) # <<>>
        /\ \A f \in EditedFile, s \in Sides :
             /\ IsLines(a) /\ s = side => Expected(g, f, s) = Expected(h, f, s) + Portion(n, QueueFor(h, next), f)
             /\ ~(IsLines(a) /\ s = side) => Expected(g, f, s) = Expected(h, f, s)
  <2>. SUFFICES ASSUME EditsBefore(h, next) # {}
                PROVE  /\ QueueFor(g, next + 1) = QueueFor(h, next)
                       /\ LastEdit(g, next + 1) = LastEdit(h, next)
                       /\ LinesWithin(g, LastEdit(h, next), next + 1)
                            <=> (LinesWithin(h, LastEdit(h, next), next) \/ IsLines(a))
                       /\ WaitedFor(g, LastEdit(h, next)) <=> WaitedFor(h, LastEdit(h, next))
                       /\ QueueFor(h, next) \in Seq(EditedFile) /\ QueueFor(h, next) # <<>>
                       /\ \A f \in EditedFile, s \in Sides :
                            /\ IsLines(a) /\ s = side =>
                                 Expected(g, f, s) = Expected(h, f, s) + Portion(n, QueueFor(h, next), f)
                            /\ ~(IsLines(a) /\ s = side) => Expected(g, f, s) = Expected(h, f, s)
    OBVIOUS
  <2>1. /\ QueueFor(g, next + 1) = QueueFor(h, next)
        /\ LastEdit(g, next + 1) = LastEdit(h, next)
        /\ LinesWithin(g, LastEdit(h, next), next + 1) <=> (LinesWithin(h, LastEdit(h, next), next) \/ IsLines(a))
        /\ WaitedFor(g, LastEdit(h, next)) <=> WaitedFor(h, LastEdit(h, next))
    BY <1>1, <1>2, <1>4, <1>5, QueueAfterOthers
  <2>2. next \in 1..(Len(h) + 1)  BY <1>1, <1>6
  <2>3. QueueFor(h, next) \in Seq(EditedFile) /\ QueueFor(h, next) # <<>>
    BY <1>1, <1>2, <2>2, QueueIs
  <2>4. \A f \in EditedFile, s \in Sides :
             /\ IsLines(a) /\ a.side = s =>
                  Expected(g, f, s) = Expected(h, f, s) + Portion(a.n, QueueFor(h, next), f)
             /\ ~(IsLines(a) /\ a.side = s) => Expected(g, f, s) = Expected(h, f, s)
    BY <1>1, <1>2, <1>4, <1>5, ExpectedAfter
  <2>. QED  BY <1>3, <2>1, <2>3, <2>4
<1>10. CASE n <= 0
  <2>1. UNCHANGED <<buckets, editQueue, queueSpent, assigned>>  BY <1>3, <1>10 DEF LinesCounted
  <2>2. ~IsLines(a)  BY <1>3, <1>4, <1>10
  <2>3. LedgerTypeOK'  BY <1>1, <1>2, <1>6, <2>1 DEF LedgerTypeOK
  <2>4. \A s \in Sides : Assigned(s)' = Assigned(s)  BY <2>1 DEF Assigned
  <2>5. \A s \in Sides : /\ buckets'[s].total = LineTotal(g, s)
                         /\ Assigned(s)' + buckets'[s].unassigned = LineTotal(g, s)
    BY <1>2, <1>8, <2>1, <2>2, <2>4
  <2>6. EditsBefore(g, next + 1) = {} =>
           /\ editQueue' = <<>> /\ queueSpent' = FALSE
           /\ \A f \in EditedFile, s \in Sides : assigned'[f][s] = 0
    BY <1>2, <1>7, <2>1
  <2>7. EditsBefore(g, next + 1) # {} =>
          /\ \A s \in Sides :
               buckets'[s].unassigned = 0 /\ \A f \in EditedFile : assigned'[f][s] = Expected(g, f, s)
          /\ editQueue' = QueueFor(g, next + 1)
          /\ queueSpent' <=> (LinesWithin(g, LastEdit(g, next + 1), next + 1) \/ WaitedFor(g, LastEdit(g, next + 1)))
    BY <1>2, <1>7, <1>9, <2>1, <2>2
  <2>. QED  BY <1>1, <1>6, <2>3, <2>5, <2>6, <2>7, LedgerInvAfter
<1>11. CASE n > 0
  <2>. DEFINE held == [buckets EXCEPT ![side] = [total |-> @.total + n, unassigned |-> @.unassigned + n]]
  <2>1. HandOut(held, editQueue, queueSpent)  BY <1>3, <1>11 DEF LinesCounted
  <2>2. IsLines(a) /\ n \in Nat  BY <1>3, <1>4, <1>11
  <2>3. \A s \in Sides : buckets[s].total \in Nat /\ buckets[s].unassigned \in Nat  BY <1>2 DEF Buckets
  <2>4. /\ held \in Buckets
        /\ held[side].total = buckets[side].total + n /\ held[side].unassigned = buckets[side].unassigned + n
        /\ \A s \in Sides : s # side => held[s] = buckets[s]
    BY <1>2, <2>2, <2>3 DEF Buckets
  <2>. HIDE DEF held
  <2>5. CASE EditsBefore(h, next) = {}
    <3>1. editQueue = <<>> /\ queueSpent = FALSE  BY <1>2, <2>5
    <3>2. buckets' = held /\ editQueue' = <<>> /\ queueSpent' = FALSE /\ assigned' = assigned
      BY <2>1, <3>1 DEF HandOut
    <3>3. LedgerTypeOK'
      BY <1>1, <1>2, <1>6, <2>4, <3>1, <3>2 DEF LedgerTypeOK, Buckets
    <3>4. \A s \in Sides : Assigned(s)' = Assigned(s)  BY <3>2 DEF Assigned
    <3>5. \A s \in Sides : Assigned(s) \in Int
      <4>. SUFFICES ASSUME NEW s \in Sides PROVE Assigned(s) \in Int  OBVIOUS
      <4>1. PICK A : A = [f \in EditedFile |-> assigned[f][s]]  OBVIOUS
      <4>2. A \in [EditedFile -> Int]  BY <1>2, <4>1 DEF LedgerTypeOK
      <4>3. SumFunction(A) \in Int  BY <4>2, LedgerAssumption, SumLaws
      <4>. QED  BY <4>1, <4>3 DEF Assigned
    <3>6. \A s \in Sides : /\ buckets'[s].total = LineTotal(g, s)
                           /\ Assigned(s)' + buckets'[s].unassigned = LineTotal(g, s)
      <4>. SUFFICES ASSUME NEW s \in Sides
                    PROVE  /\ buckets'[s].total = LineTotal(g, s)
                           /\ Assigned(s)' + buckets'[s].unassigned = LineTotal(g, s)
        OBVIOUS
      <4>1. CASE s = side  BY <1>2, <1>3, <1>8, <2>2, <2>3, <2>4, <3>2, <3>4, <3>5, <4>1
      <4>2. CASE s # side  BY <1>2, <1>8, <2>2, <2>4, <3>2, <3>4, <4>2
      <4>. QED  BY <4>1, <4>2
    <3>7. EditsBefore(g, next + 1) = {} /\ \A f \in EditedFile, s \in Sides : assigned'[f][s] = 0
      BY <1>2, <1>7, <2>5, <3>2
    <3>. QED  BY <1>1, <1>6, <3>2, <3>3, <3>6, <3>7, LedgerInvAfter
  <2>6. CASE EditsBefore(h, next) # {}
    <3>1. editQueue = QueueFor(h, next) /\ editQueue \in Seq(EditedFile) /\ editQueue # <<>> /\ queueSpent \in BOOLEAN
      BY <1>2, <1>9, <2>6 DEF LedgerTypeOK
    <3>2. /\ buckets' \in Buckets
          /\ \A s \in Sides : buckets'[s].total = held[s].total /\ buckets'[s].unassigned = 0
          /\ assigned' \in [EditedFile -> [Sides -> Int]]
          /\ \A f \in EditedFile, s \in Sides :
               /\ held[s].unassigned > 0 =>
                    assigned'[f][s] = assigned[f][s] + Portion(held[s].unassigned, editQueue, f)
               /\ held[s].unassigned = 0 => assigned'[f][s] = assigned[f][s]
          /\ \A s \in Sides : Assigned(s) \in Int /\ Assigned(s)' = Assigned(s) + held[s].unassigned
          /\ queueSpent' <=> (queueSpent \/ \E s \in Sides : held[s].unassigned > 0)
          /\ editQueue' = editQueue /\ queueSpent' \in BOOLEAN
      <4>1. PICK hh, q, u : hh = held /\ q = editQueue /\ u = queueSpent  OBVIOUS
      <4>2. hh \in Buckets /\ q \in Seq(EditedFile) /\ u \in BOOLEAN /\ HandOut(hh, q, u) /\ q # <<>>
        BY <2>1, <2>4, <3>1, <4>1
      <4>. QED  BY <1>2, <4>1, <4>2, HandedOut
    <3>3. held[side].unassigned = n /\ \A s \in Sides : s # side => held[s].unassigned = 0
      BY <1>2, <1>3, <2>4, <2>6
    <3>4. LedgerTypeOK'
      BY <1>1, <1>6, <3>1, <3>2 DEF LedgerTypeOK, Buckets
    <3>5. \A s \in Sides : /\ buckets'[s].total = LineTotal(g, s)
                           /\ Assigned(s)' + buckets'[s].unassigned = LineTotal(g, s)
      <4>. SUFFICES ASSUME NEW s \in Sides
                    PROVE  /\ buckets'[s].total = LineTotal(g, s)
                           /\ Assigned(s)' + buckets'[s].unassigned = LineTotal(g, s)
        OBVIOUS
      <4>1. Assigned(s) = LineTotal(h, s) /\ Assigned(s) \in Int  BY <1>2, <2>6, <3>2
      <4>2. CASE s = side  BY <1>2, <1>3, <1>8, <2>2, <2>4, <3>2, <3>3, <4>1, <4>2
      <4>3. CASE s # side  BY <1>2, <1>8, <2>2, <2>4, <3>2, <3>3, <4>1, <4>3
      <4>. QED  BY <4>2, <4>3
    <3>6. \A s \in Sides :
            buckets'[s].unassigned = 0 /\ \A f \in EditedFile : assigned'[f][s] = Expected(g, f, s)
      <4>1. \A f \in EditedFile : assigned'[f][side] = Expected(g, f, side)
        <5>. SUFFICES ASSUME NEW f \in EditedFile PROVE assigned'[f][side] = Expected(g, f, side)  OBVIOUS
        <5>1. assigned'[f][side] = assigned[f][side] + Portion(n, QueueFor(h, next), f)
          BY <1>11, <3>1, <3>2, <3>3
        <5>2. Expected(g, f, side) = Expected(h, f, side) + Portion(n, QueueFor(h, next), f)
          BY <1>9, <2>2, <2>6
        <5>3. assigned[f][side] = Expected(h, f, side)  BY <1>2, <2>6
        <5>. QED  BY ONLY <5>1, <5>2, <5>3
      <4>2. \A s \in Sides, f \in EditedFile : s # side => assigned'[f][s] = Expected(g, f, s)
        <5>. SUFFICES ASSUME NEW s \in Sides, NEW f \in EditedFile, s # side
                      PROVE  assigned'[f][s] = Expected(g, f, s)
          OBVIOUS
        <5>1. assigned'[f][s] = assigned[f][s]  BY <3>2, <3>3
        <5>2. Expected(g, f, s) = Expected(h, f, s)
          <6>1. ~(IsLines(a) /\ a.side = s)  BY <1>3
          <6>. QED  BY <1>9, <2>6, <6>1
        <5>3. assigned[f][s] = Expected(h, f, s)  BY <1>2, <2>6
        <5>. QED  BY ONLY <5>1, <5>2, <5>3
      <4>. QED  BY <3>2, <4>1, <4>2
    <3>7. queueSpent' <=> (LinesWithin(g, LastEdit(g, next + 1), next + 1) \/ WaitedFor(g, LastEdit(g, next + 1)))
      BY <1>9, <1>11, <2>2, <2>6, <3>2, <3>3
    <3>8. editQueue' = QueueFor(g, next + 1)  BY <1>9, <2>6, <3>1, <3>2
    <3>9. EditsBefore(g, next + 1) # {}  BY <1>7, <2>6
    <3>. QED  BY <1>1, <1>6, <3>4, <3>5, <3>6, <3>7, <3>8, <3>9, LedgerInvAfter
  <2>. QED  BY <2>5, <2>6
<1>. QED  BY <1>3, <1>10, <1>11

\* A result of a tool keeps the invariant.
LEMMA ResultsKeepLedger ==
    ASSUME LedgerInv, NEW f \in EditedFile, NEW failed \in BOOLEAN, ToolResult(f, failed)
    PROVE  LedgerInv'
<1>1. PICK h, g, a, next : /\ h = arrivals /\ g = arrivals' /\ a = [kind |-> "edit", file |-> f, failed |-> failed]
                           /\ next = Len(h) + 1
  OBVIOUS
<1>2. /\ LedgerTypeOK /\ h \in Seq(Arrival) /\ buckets \in Buckets
      /\ \A s \in Sides : /\ buckets[s].total = LineTotal(h, s)
                          /\ Assigned(s) + buckets[s].unassigned = LineTotal(h, s)
      /\ EditsBefore(h, next) = {} =>
           /\ editQueue = <<>> /\ queueSpent = FALSE
           /\ \A i \in EditedFile, s \in Sides : assigned[i][s] = 0
      /\ EditsBefore(h, next) # {} =>
           /\ \A s \in Sides :
                buckets[s].unassigned = 0 /\ \A i \in EditedFile : assigned[i][s] = Expected(h, i, s)
           /\ editQueue = QueueFor(h, next)
           /\ queueSpent <=> (LinesWithin(h, LastEdit(h, next), next) \/ WaitedFor(h, LastEdit(h, next)))
  BY <1>1, LedgerInvSays
<1>3. a.kind = "edit" /\ a.file = f /\ a.failed = failed  BY <1>1
<1>4. a \in Arrival /\ ~IsLines(a) /\ (IsEdit(a) <=> ~failed)
  BY <1>1, <1>3 DEF Arrival, IsEdit, IsLines
<1>5. g = Append(h, a)  BY <1>1 DEF ToolResult, Arrives
<1>6. g \in Seq(Arrival) /\ Len(g) = next /\ next \in Nat /\ Len(h) + 2 = next + 1 /\ Len(h) \in Nat
  BY <1>1, <1>2, <1>4, <1>5, HistoryStays
<1>7. \A s \in Sides : LineTotal(g, s) = LineTotal(h, s)
  BY <1>2, <1>4, <1>5, PointsAfter
<1>8. EditsBefore(h, next) # {} => \A i \in EditedFile, s \in Sides : Expected(g, i, s) = Expected(h, i, s)
  <2>. SUFFICES ASSUME EditsBefore(h, next) # {}, NEW i \in EditedFile, NEW s \in Sides
                PROVE  Expected(g, i, s) = Expected(h, i, s)
    OBVIOUS
  <2>. QED  BY <1>1, <1>2, <1>4, <1>5, ExpectedAfter
<1>9. CASE failed
  <2>1. UNCHANGED <<buckets, editQueue, queueSpent, assigned>>  BY <1>9 DEF ToolResult
  <2>2. ~IsEdit(a)  BY <1>4, <1>9
  <2>3. LedgerTypeOK'  BY <1>1, <1>2, <1>6, <2>1 DEF LedgerTypeOK
  <2>4. \A s \in Sides : Assigned(s)' = Assigned(s)  BY <2>1 DEF Assigned
  <2>5. \A s \in Sides : /\ buckets'[s].total = LineTotal(g, s)
                         /\ Assigned(s)' + buckets'[s].unassigned = LineTotal(g, s)
    BY <1>2, <1>7, <2>1, <2>4
  <2>6. EditsBefore(g, next + 1) = EditsBefore(h, next)
    <3>1. EditsBefore(Append(h, a), Len(h) + 2) = EditsBefore(h, Len(h) + 1)  BY <1>2, <1>4, <2>2, EditsAfter
    <3>. QED  BY <1>1, <1>5, <1>6, <3>1
  <2>7. EditsBefore(g, next + 1) = {} =>
           /\ editQueue' = <<>> /\ queueSpent' = FALSE
           /\ \A i \in EditedFile, s \in Sides : assigned'[i][s] = 0
    BY <1>2, <2>1, <2>6
  <2>8. EditsBefore(g, next + 1) # {} =>
          /\ \A s \in Sides :
               buckets'[s].unassigned = 0 /\ \A i \in EditedFile : assigned'[i][s] = Expected(g, i, s)
          /\ editQueue' = QueueFor(g, next + 1)
          /\ queueSpent' <=> (LinesWithin(g, LastEdit(g, next + 1), next + 1) \/ WaitedFor(g, LastEdit(g, next + 1)))
    <3>. SUFFICES ASSUME EditsBefore(h, next) # {}
                  PROVE  /\ \A s \in Sides : /\ buckets'[s].unassigned = 0
                                             /\ \A i \in EditedFile : assigned'[i][s] = Expected(g, i, s)
                         /\ editQueue' = QueueFor(g, next + 1)
                         /\ queueSpent' <=> (LinesWithin(g, LastEdit(g, next + 1), next + 1)
                                             \/ WaitedFor(g, LastEdit(g, next + 1)))
      BY <2>6
    <3>1. /\ QueueFor(g, next + 1) = QueueFor(h, next)
          /\ LastEdit(g, next + 1) = LastEdit(h, next)
          /\ LinesWithin(g, LastEdit(h, next), next + 1) <=> (LinesWithin(h, LastEdit(h, next), next) \/ IsLines(a))
          /\ WaitedFor(g, LastEdit(h, next)) <=> WaitedFor(h, LastEdit(h, next))
      BY <1>1, <1>2, <1>4, <1>5, <2>2, QueueAfterOthers
    <3>. QED  BY <1>2, <1>4, <1>8, <2>1, <3>1
  <2>. QED  BY <1>1, <1>6, <2>3, <2>5, <2>7, <2>8, LedgerInvAfter
<1>10. CASE ~failed
  <2>1. IsEdit(a)  BY <1>4, <1>10
  <2>2. PICK q : q = IF queueSpent THEN <<f>> ELSE Append(editQueue, f)  OBVIOUS
  <2>3. HandOut(buckets, q, FALSE)  BY <1>10, <2>2 DEF ToolResult
  <2>4. q \in Seq(EditedFile) /\ q # <<>>
    <3>1. editQueue \in Seq(EditedFile) /\ queueSpent \in BOOLEAN  BY <1>2 DEF LedgerTypeOK
    <3>2. CASE queueSpent  BY <2>2, <3>2
    <3>3. CASE ~queueSpent
      <4>1. q = Append(editQueue, f)  BY <2>2, <3>3
      <4>2. Len(q) = Len(editQueue) + 1 /\ q \in Seq(EditedFile) /\ Len(editQueue) \in Nat  BY <3>1, <4>1
      <4>. QED  BY <4>2
    <3>. QED  BY <3>2, <3>3
  <2>5. /\ buckets' \in Buckets
        /\ \A s \in Sides : buckets'[s].total = buckets[s].total /\ buckets'[s].unassigned = 0
        /\ assigned' \in [EditedFile -> [Sides -> Int]]
        /\ \A i \in EditedFile, s \in Sides :
             /\ buckets[s].unassigned > 0 =>
                  assigned'[i][s] = assigned[i][s] + Portion(buckets[s].unassigned, q, i)
             /\ buckets[s].unassigned = 0 => assigned'[i][s] = assigned[i][s]
        /\ \A s \in Sides : Assigned(s) \in Int /\ Assigned(s)' = Assigned(s) + buckets[s].unassigned
        /\ queueSpent' <=> (FALSE \/ \E s \in Sides : buckets[s].unassigned > 0)
        /\ editQueue' = q /\ queueSpent' \in BOOLEAN
    <3>1. PICK b, u : b = buckets /\ u = FALSE  OBVIOUS
    <3>2. b \in Buckets /\ u \in BOOLEAN /\ HandOut(b, q, u)  BY <1>2, <2>3, <3>1
    <3>. QED  BY <1>2, <2>4, <3>1, <3>2, HandedOut
  <2>6. LedgerTypeOK'  BY <1>1, <1>6, <2>4, <2>5 DEF LedgerTypeOK, Buckets
  <2>7. \A s \in Sides : /\ buckets'[s].total = LineTotal(g, s)
                         /\ Assigned(s)' + buckets'[s].unassigned = LineTotal(g, s)
    <3>. SUFFICES ASSUME NEW s \in Sides
                  PROVE  /\ buckets'[s].total = LineTotal(g, s)
                         /\ Assigned(s)' + buckets'[s].unassigned = LineTotal(g, s)
      OBVIOUS
    <3>1. PICK t \in Int, u \in Int : t = Assigned(s) /\ u = buckets[s].unassigned  BY <1>2, <2>5 DEF Buckets
    <3>2. t + u = LineTotal(h, s) /\ LineTotal(g, s) = LineTotal(h, s)  BY <1>2, <1>7, <3>1
    <3>3. Assigned(s)' = t + u /\ buckets'[s].unassigned = 0  BY <2>5, <3>1
    <3>4. buckets'[s].total = LineTotal(h, s)  BY <1>2, <2>5
    <3>. QED  BY <3>1, <3>2, <3>3, <3>4
  <2>8. /\ EditsBefore(g, next + 1) # {}
        /\ LastEdit(g, next + 1) = next
        /\ ~LinesWithin(g, next, next + 1)
        /\ WaitedFor(g, next) <=> (EditsBefore(h, next) = {} /\ \E k \in 1..Len(h) : IsLines(h[k]))
        /\ QueueFor(g, next + 1)
           = IF EditsBefore(h, next) = {} \/ LinesWithin(h, LastEdit(h, next), next) \/ WaitedFor(h, LastEdit(h, next))
             THEN <<f>> ELSE Append(QueueFor(h, next), f)
    BY <1>1, <1>2, <1>3, <1>4, <1>5, <2>1, QueueAfterEdit
  <2>9. CASE EditsBefore(h, next) = {}
    <3>1. q = <<f>>  BY <1>2, <2>2, <2>9
    <3>2. editQueue' = QueueFor(g, next + 1)  BY <2>5, <2>8, <2>9, <3>1
    <3>3. \A s \in Sides : buckets[s].unassigned \in Nat  BY <1>2 DEF Buckets
    <3>4. \A s \in Sides : buckets[s].unassigned = LineTotal(h, s)
      <4>. SUFFICES ASSUME NEW s \in Sides PROVE buckets[s].unassigned = LineTotal(h, s)  OBVIOUS
      <4>1. Assigned(s) = 0
        <5>1. PICK A : A = [i \in EditedFile |-> assigned[i][s]]  OBVIOUS
        <5>2. \A i \in EditedFile : A[i] = 0  BY <1>2, <2>9, <5>1
        <5>3. A \in [EditedFile -> Int] /\ \A i \in EditedFile : A[i] \in Nat
          <6>1. A = [i \in EditedFile |-> A[i]]  BY <5>1
          <6>. QED  BY <5>2, <6>1
        <5>4. SumOver(A, EditedFile) = 0  BY <5>2, <5>3, LedgerAssumption, SumOfNaturals
        <5>5. SumFunction(A) = 0  BY <5>3, <5>4, SumOfFunction
        <5>. QED  BY <5>1, <5>5 DEF Assigned
      <4>. QED  BY <1>2, <3>3, <4>1
    <3>5. ASSUME NEW s \in Sides, NEW i \in EditedFile PROVE assigned'[i][s] = Expected(g, i, s)
      <4>1. Expected(g, i, s) = IF i = f THEN LineTotal(h, s) ELSE 0
        BY <1>1, <1>2, <1>3, <1>4, <1>5, <2>1, <2>9, ExpectedOfFirst
      <4>2. PICK u \in Nat : u = buckets[s].unassigned /\ u = LineTotal(h, s)  BY <3>3, <3>4
      <4>3. Portion(u, q, i) = IF i = f THEN u ELSE 0  BY <3>1, OnlyFile
      <4>4. assigned[i][s] = 0  BY <1>2, <2>9
      <4>5. assigned'[i][s] = IF i = f THEN u ELSE 0
        <5>1. CASE u > 0
          <6>1. assigned'[i][s] = 0 + Portion(u, q, i)  BY <2>5, <4>2, <4>4, <5>1
          <6>. QED  BY <4>3, <6>1
        <5>2. CASE u = 0  BY <2>5, <4>2, <4>4, <5>2
        <5>. QED  BY <5>1, <5>2
      <4>. QED  BY <4>1, <4>2, <4>5
    <3>6. queueSpent' <=> WaitedFor(g, next)
      <4>1. WaitedFor(g, next) <=> \E k \in 1..Len(h) : IsLines(h[k])  BY <2>8, <2>9
      <4>2. queueSpent' <=> \E s \in Sides : LineTotal(h, s) # 0
        <5>1. \A s \in Sides : buckets[s].unassigned > 0 <=> LineTotal(h, s) # 0  BY <3>3, <3>4
        <5>. QED  BY <2>5, <5>1
      <4>3. \A s \in Sides : LineTotal(h, s) # 0 <=> \E k \in 1..Len(h) : IsLines(h[k]) /\ h[k].side = s
        <5>. SUFFICES ASSUME NEW s \in Sides
                      PROVE  LineTotal(h, s) # 0 <=> \E k \in 1..Len(h) : IsLines(h[k]) /\ h[k].side = s
          OBVIOUS
        <5>1. LineTotal(h, s) # 0 <=> PointsOf(h, s) # {}  BY <1>2, PointsAre
        <5>2. DOMAIN h = 1..Len(h)  BY <1>2
        <5>. QED  BY <5>1, <5>2 DEF PointsOf
      <4>4. \A k \in 1..Len(h) : IsLines(h[k]) => h[k].side \in Sides
        <5>. SUFFICES ASSUME NEW k \in 1..Len(h), IsLines(h[k]) PROVE h[k].side \in Sides  OBVIOUS
        <5>1. h[k] \in Arrival /\ h[k].kind = "lines"  BY <1>2 DEF IsLines
        <5>. QED  BY <5>1 DEF Arrival
      <4>. QED  BY <4>1, <4>2, <4>3, <4>4
    <3>. QED  BY <1>1, <1>6, <2>5, <2>6, <2>7, <2>8, <3>2, <3>5, <3>6, LedgerInvAfter
  <2>10. CASE EditsBefore(h, next) # {}
    <3>1. editQueue' = QueueFor(g, next + 1)
      <4>1. editQueue = QueueFor(h, next)  BY <1>2, <2>10
      <4>2. CASE queueSpent  BY <1>2, <2>2, <2>5, <2>8, <2>10, <4>2
      <4>3. CASE ~queueSpent  BY <1>2, <2>2, <2>5, <2>8, <2>10, <4>1, <4>3
      <4>. QED  BY <4>2, <4>3
    <3>2. \A s \in Sides, i \in EditedFile : assigned'[i][s] = Expected(g, i, s)
      BY <1>2, <1>8, <2>5, <2>10
    <3>3. ~queueSpent' /\ ~WaitedFor(g, next)  BY <1>2, <2>5, <2>8, <2>10
    <3>. QED  BY <1>1, <1>6, <2>5, <2>6, <2>7, <2>8, <3>1, <3>2, <3>3, LedgerInvAfter
  <2>. QED  BY <2>9, <2>10
<1>. QED  BY <1>9, <1>10

\* Nothing has come yet.
LEMMA LedgerBegins ==
    ASSUME LedgerInit
    PROVE  LedgerInv
<1>1. PICK h : h = arrivals /\ h = <<>>  BY DEF LedgerInit
<1>2. LedgerTypeOK
  <2>1. buckets \in [Sides -> [total : Nat, unassigned : Nat]]  BY DEF LedgerInit
  <2>2. assigned \in [EditedFile -> [Sides -> Int]]  BY DEF LedgerInit
  <2>3. editQueue = <<>> /\ arrivals = <<>> /\ queueSpent \in BOOLEAN  BY DEF LedgerInit
  <2>4. editQueue \in Seq(EditedFile)  BY <2>3
  <2>5. arrivals \in Seq(Arrival)  BY <2>3
  <2>. QED  BY <2>1, <2>2, <2>3, <2>4, <2>5 DEF LedgerTypeOK
<1>3. \A s \in Sides : PointsOf(h, s) = {} /\ LineTotal(h, s) = 0
  <2>. SUFFICES ASSUME NEW s \in Sides PROVE PointsOf(h, s) = {} /\ LineTotal(h, s) = 0  OBVIOUS
  <2>1. h \in Seq(Arrival)  BY <1>1
  <2>2. PointsOf(h, s) = {}  BY <1>1 DEF PointsOf
  <2>. QED  BY <2>1, <2>2, PointsAre
<1>4. \A s \in Sides : Assigned(s) = 0
  <2>. SUFFICES ASSUME NEW s \in Sides PROVE Assigned(s) = 0  OBVIOUS
  <2>1. PICK A : A = [i \in EditedFile |-> 0]  OBVIOUS
  <2>2. [i \in EditedFile |-> assigned[i][s]] = A  BY <2>1 DEF LedgerInit
  <2>3. A \in [EditedFile -> Int] /\ \A i \in EditedFile : A[i] = 0 /\ A[i] \in Nat  BY <2>1
  <2>4. SumOver(A, EditedFile) = 0  BY <2>3, LedgerAssumption, SumOfNaturals
  <2>5. SumFunction(A) = 0  BY <2>3, <2>4, SumOfFunction
  <2>. QED  BY <2>2, <2>5 DEF Assigned
<1>5. EditsBefore(h, Len(h) + 1) = {} /\ DOMAIN h = {}  BY <1>1 DEF EditsBefore
<1>6. LinesReachTheirFiles
  <2>1. \A s \in Sides : buckets[s].total = LineTotal(h, s) /\ Assigned(s) + buckets[s].unassigned = LineTotal(h, s)
    BY <1>3, <1>4 DEF LedgerInit
  <2>2. \A i \in EditedFile, s \in Sides : assigned[i][s] = 0  BY DEF LedgerInit
  <2>. QED  BY <1>1, <1>5, <2>1, <2>2 DEF LinesReachTheirFiles
<1>7. editQueue = <<>> /\ ~queueSpent  BY DEF LedgerInit
<1>. QED  BY <1>1, <1>2, <1>5, <1>6, <1>7 DEF LedgerInv

\* No line of a session is lost or counted twice, and each is put on the files that
\* were edited last before it, whatever the order in which results and points arrive.
THEOREM LinesAlwaysReachTheirFiles == LedgerSpec => []LinesReachTheirFiles
<1>1. LedgerInit => LedgerInv  BY LedgerBegins
<1>2. LedgerInv /\ [LedgerNext]_ledgerVars => LedgerInv'
  <2>. SUFFICES ASSUME LedgerInv, [LedgerNext]_ledgerVars PROVE LedgerInv'  OBVIOUS
  <2>1. CASE LedgerNext  BY <2>1, LinesKeepLedger, ResultsKeepLedger DEF LedgerNext
  <2>2. CASE UNCHANGED ledgerVars
    BY <2>2 DEF ledgerVars, LedgerInv, LedgerTypeOK, LinesReachTheirFiles, Assigned
  <2>. QED  BY <2>1, <2>2
<1>3. LedgerInv => LinesReachTheirFiles  BY DEF LedgerInv
<1>. QED  BY <1>1, <1>2, <1>3, PTL DEF LedgerSpec
=============================================================================
