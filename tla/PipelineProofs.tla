--------------------------- MODULE PipelineProofs ---------------------------
(***************************************************************************)
(* What is proved of the pipeline: that every event it takes from the      *)
(* channel is accounted for, that a lifecycle call is told the truth, and  *)
(* that a session is forgotten only after it was stored; and of what the   *)
(* decoder says of a tool call: that patches and edits are read truly.     *)
(***************************************************************************)
EXTENDS Pipeline, FileEdits, DataFacts, FiniteSetTheorems

-----------------------------------------------------------------------------
(* Rows and embeddings *)

\* A sequence that is within another one is found in it by taking every match.
LEMMA WithinEmbeds ==
    ASSUME NEW S, NEW s \in Seq(S), NEW t \in Seq(S), Within(s, t)
    PROVE  Embeds(s, t)
<1>. DEFINE Match(n, k) == IF k < Len(s) /\ s[k + 1] = t[n] THEN k + 1 ELSE k
            Recursion(f) == f = [n \in 0 .. Len(t) |-> IF n = 0 THEN 0 ELSE Match(n, f[n - 1])]
            step == [p \in Nat \X Nat |-> Match(p[1], p[2])]
            m == CHOOSE f : Recursion(f)
<1>1. \E f : Recursion(f)
  <2>1. step \in [Nat \X Nat -> Nat]  OBVIOUS
  <2>2. 0 \in Nat /\ Len(t) \in Nat  OBVIOUS
  <2>3. PICK f : Iterates(f, Len(t), Nat, 0, step)
    <3>. HIDE DEF step
    <3>. QED  BY <2>1, <2>2, Iteration
  <2>4. /\ f \in [0 .. Len(t) -> Nat] /\ f[0] = 0
        /\ \A i \in 1 .. Len(t) : f[i] = step[<<i, f[i - 1]>>]
    <3>. HIDE DEF step
    <3>. QED  BY <2>3 DEF Iterates
  <2>5. \A i \in 1 .. Len(t) : f[i] = Match(i, f[i - 1])
    <3>. SUFFICES ASSUME NEW i \in 1 .. Len(t) PROVE f[i] = Match(i, f[i - 1])  OBVIOUS
    <3>1. i - 1 \in 0 .. Len(t)  OBVIOUS
    <3>2. f[i - 1] \in Nat /\ i \in Nat  BY <2>4, <3>1
    <3>3. step[<<i, f[i - 1]>>] = Match(i, f[i - 1])  BY <3>2
    <3>. HIDE DEF step, Match
    <3>. QED  BY <2>4, <3>3
  <2>. HIDE DEF Match
  <2>6. \A i \in 0 .. Len(t) : i # 0 => i \in 1 .. Len(t)  OBVIOUS
  <2>7. \A i \in 0 .. Len(t) : f[i] = IF i = 0 THEN 0 ELSE Match(i, f[i - 1])
    BY <2>4, <2>5, <2>6
  <2>. QED  BY <2>4, <2>7
<1>2. Recursion(m)
  <2>. HIDE DEF Recursion
  <2>. QED  BY <1>1
<1>3. Embeds(s, t) <=> m[Len(t)] = Len(s)  BY DEF Embeds
<1>4. m[0] = 0 /\ \A n \in 1 .. Len(t) : m[n] = Match(n, m[n - 1])
  <2>. HIDE DEF Match, m
  <2>. QED  BY <1>2, SMTT(30)
<1>. HIDE DEF m
<1>5. PICK f : Embedding(f, s, t)  BY DEF Within
<1>6. /\ \A i \in 1 .. Len(s) : f[i] \in 1 .. Len(t) /\ s[i] = t[f[i]]
      /\ \A i, j \in 1 .. Len(s) : i < j => f[i] < f[j]
  BY <1>5 DEF Embedding
<1>. DEFINE Good(n) ==
       m[n] \in 0 .. Len(s) /\ \A i \in 1 .. Len(s) : f[i] <= n => i <= m[n]
            G == {n \in Nat : n <= Len(t) => Good(n)}
<1>7. 0 \in G  
  <2>1. \A i \in 1 .. Len(s) : ~(f[i] <= 0)  BY <1>6
  <2>. QED  BY <1>4, <2>1
<1>8. ASSUME NEW n \in Nat, n \in G PROVE n + 1 \in G
  <2>. SUFFICES ASSUME n + 1 <= Len(t) PROVE Good(n + 1)  OBVIOUS
  <2>1. Good(n)  BY <1>8
  <2>2. PICK k \in 0 .. Len(s) : k = m[n] /\ \A i \in 1 .. Len(s) : f[i] <= n => i <= k
    BY <2>1
  <2>3. m[n + 1] = Match(n + 1, k)
    <3>1. n + 1 \in 1 .. Len(t) /\ n + 1 - 1 = n  OBVIOUS
    <3>. HIDE DEF Match
    <3>. QED  BY <1>4, <2>2, <3>1
  <2>4. m[n + 1] \in 0 .. Len(s) /\ k <= m[n + 1]  BY <2>3
  <2>5. ASSUME NEW i \in 1 .. Len(s), f[i] <= n + 1, ~(i <= k) PROVE i = m[n + 1]
    <3>1. f[i] = n + 1  BY <1>6, <2>2, <2>5
    <3>2. i = k + 1
      <4>1. CASE i = 1  BY <2>5, <4>1
      <4>2. CASE i # 1
        <5>1. i - 1 \in 1 .. Len(s) /\ i - 1 < i  BY <4>2
        <5>2. f[i - 1] < n + 1 /\ f[i - 1] \in Nat  BY <1>6, <3>1, <5>1
        <5>3. f[i - 1] <= n  BY <5>2
        <5>4. i - 1 <= k  BY <2>2, <5>1, <5>3
        <5>. QED  BY <2>5, <5>4
      <4>. QED  BY <4>1, <4>2
    <3>3. s[k + 1] = t[n + 1] /\ k < Len(s)  BY <1>6, <3>1, <3>2
    <3>. QED  BY <2>3, <3>2, <3>3
  <2>6. ASSUME NEW i \in 1 .. Len(s), f[i] <= n + 1 PROVE i <= m[n + 1]
    <3>1. CASE i <= k  BY <2>4, <3>1
    <3>2. CASE ~(i <= k)  BY <2>5, <2>6, <3>2
    <3>. QED  BY <3>1, <3>2
  <2>. QED  BY <2>4, <2>6
<1>9. \A n \in Nat : n \in G
  <2>. HIDE DEF G
  <2>. QED  BY <1>7, <1>8, SetInduction
<1>10. Good(Len(t))  BY <1>9
<1>11. m[Len(t)] = Len(s)
  <2>1. CASE Len(s) = 0  BY <1>10, <2>1
  <2>2. CASE Len(s) # 0
    <3>1. Len(s) \in 1 .. Len(s)  BY <2>2
    <3>2. f[Len(s)] <= Len(t)  BY <1>6, <3>1
    <3>3. Len(s) <= m[Len(t)]  BY <1>10, <3>1, <3>2
    <3>. QED  BY <1>10, <3>3
  <2>. QED  BY <2>1, <2>2
<1>. QED  BY <1>3, <1>11

\* The rows of a write are among its events, in their order, and whatever has
\* a place in the store is a row or already there (writeEvents).
LEMMA RowsFacts ==
    ASSUME db \in Seq(Events), NEW ev \in Seq(Events)
    PROVE  /\ RowsOf(ev) \in Seq(Events)
           /\ Within(RowsOf(ev), ev)
           /\ \A i \in 1 .. Len(ev) : HasPlace(ev[i]) =>
                  Contains(db, ev[i]) \/ Contains(RowsOf(ev), ev[i])
<1>. DEFINE Insert(n, before) ==
              IF HasPlace(ev[n]) /\ ~Contains(db, ev[n]) /\ ~Contains(before, ev[n])
              THEN Append(before, ev[n]) ELSE before
            Recursion(f) ==
              f = [n \in 0 .. Len(ev) |-> IF n = 0 THEN <<>> ELSE Insert(n, f[n - 1])]
            step == [p \in Nat \X Seq(Events) |->
                       IF p[1] \in 1 .. Len(ev) THEN Insert(p[1], p[2]) ELSE p[2]]
            rows == CHOOSE f : Recursion(f)
<1>1. \A n \in 1 .. Len(ev) : \A b \in Seq(Events) : Insert(n, b) \in Seq(Events)
  OBVIOUS
<1>2. \E f : Recursion(f)
  <2>1. step \in [Nat \X Seq(Events) -> Seq(Events)]  
    <3>. HIDE DEF Insert
    <3>1. ASSUME NEW p \in Nat \X Seq(Events)
          PROVE  (IF p[1] \in 1 .. Len(ev) THEN Insert(p[1], p[2]) ELSE p[2]) \in Seq(Events)
      BY <1>1
    <3>. QED  BY <3>1
  <2>2. <<>> \in Seq(Events) /\ Len(ev) \in Nat  OBVIOUS
  <2>3. PICK f : Iterates(f, Len(ev), Seq(Events), <<>>, step)
    <3>. HIDE DEF step
    <3>. QED  BY <2>1, <2>2, Iteration
  <2>4. /\ f \in [0 .. Len(ev) -> Seq(Events)] /\ f[0] = <<>>
        /\ \A i \in 1 .. Len(ev) : f[i] = step[<<i, f[i - 1]>>]
    <3>. HIDE DEF step
    <3>. QED  BY <2>3 DEF Iterates
  <2>. HIDE DEF Insert
  <2>5. \A i \in 1 .. Len(ev) : f[i] = Insert(i, f[i - 1])
    <3>. SUFFICES ASSUME NEW i \in 1 .. Len(ev) PROVE f[i] = Insert(i, f[i - 1])  OBVIOUS
    <3>1. i - 1 \in 0 .. Len(ev)  OBVIOUS
    <3>2. f[i - 1] \in Seq(Events) /\ i \in Nat
      <4>. HIDE DEF step
      <4>. QED  BY <2>4, <3>1, SMTT(30)
    <3>3. step[<<i, f[i - 1]>>] = Insert(i, f[i - 1])  BY <3>2
    <3>. HIDE DEF step
    <3>. QED  BY <2>4, <3>3
  <2>6. \A i \in 0 .. Len(ev) : i # 0 => i \in 1 .. Len(ev)  OBVIOUS
  <2>7. \A i \in 0 .. Len(ev) : f[i] = IF i = 0 THEN <<>> ELSE Insert(i, f[i - 1])
    BY <2>4, <2>5, <2>6
  <2>. QED  BY <2>4, <2>7
<1>3. Recursion(rows)
  <2>. HIDE DEF Recursion
  <2>. QED  BY <1>2
<1>4. RowsOf(ev) = rows[Len(ev)]  BY DEF RowsOf
<1>5. rows[0] = <<>> /\ \A n \in 1 .. Len(ev) : rows[n] = Insert(n, rows[n - 1])
  <2>. HIDE DEF Insert, rows
  <2>. QED  BY <1>3
<1>. HIDE DEF rows
<1>. DEFINE Good(n) ==
       /\ rows[n] \in Seq(Events)
       /\ Within(rows[n], SubSeq(ev, 1, n))
       /\ \A i \in 1 .. n : HasPlace(ev[i]) => Contains(db, ev[i]) \/ Contains(rows[n], ev[i])
            G == {n \in Nat : n <= Len(ev) => Good(n)}
<1>6. 0 \in G
  <2>1. SubSeq(ev, 1, 0) = <<>>  BY SubSeqEmpty
  <2>2. Within(rows[0], SubSeq(ev, 1, 0))  BY <1>5, <2>1, WithinEmpty
  <2>3. Good(0)  BY <1>5, <2>2
  <2>. QED  BY <2>3
<1>7. ASSUME NEW n \in Nat, n \in G PROVE n + 1 \in G
  <2>. SUFFICES ASSUME n + 1 <= Len(ev) PROVE Good(n + 1)  OBVIOUS
  <2>. DEFINE b == rows[n]
              e == ev[n + 1]
              p == SubSeq(ev, 1, n)
  <2>1. n + 1 \in 1 .. Len(ev) /\ n + 1 - 1 = n /\ n <= Len(ev)  OBVIOUS
  <2>2. Good(n)  BY <1>7, <2>1
  <2>3. p \in Seq(Events) /\ SubSeq(ev, 1, n + 1) = Append(p, e)
    <3>. HIDE DEF Insert, Good, G, b
    <3>1. /\ SubSeq(ev, 1, n) \in Seq(Events)
          /\ n + 1 <= Len(ev) => SubSeq(ev, 1, n + 1) = Append(SubSeq(ev, 1, n), ev[n + 1])
      BY <2>1, PrefixGrows
    <3>. QED  BY <3>1
  <2>4. rows[n + 1] = Insert(n + 1, b)
    <3>. HIDE DEF Insert
    <3>. QED  BY <1>5, <2>1
  <2>5. e \in Events  BY <2>1
  <2>6. rows[n + 1] \in Seq(Events)
    <3>. HIDE DEF Insert
    <3>. QED  BY <1>1, <2>1, <2>2, <2>4
  <2>7. b \in Seq(Events) /\ Within(b, p)  BY <2>2
  <2>8. Within(rows[n + 1], SubSeq(ev, 1, n + 1))
    <3>. HIDE DEF b, p, e, Good, G
    <3>1. Within(Append(b, e), Append(p, e))  BY <2>3, <2>5, <2>7, WithinAppend
    <3>2. Within(b, Append(p, e))  BY <2>3, <2>5, <2>7, WithinMore
    <3>3. rows[n + 1] = Append(b, e) \/ rows[n + 1] = b  BY <2>4 DEF e
    <3>. QED  BY <2>3, <3>1, <3>2, <3>3
  <2>9. \A x : Contains(b, x) => Contains(rows[n + 1], x)
    <3>. HIDE DEF b, p, e, Good, G
    <3>1. CASE rows[n + 1] = b  BY <3>1
    <3>2. CASE rows[n + 1] = Append(b, e)
      <4>1. \A i \in 1 .. Len(b) : i \in 1 .. Len(Append(b, e)) /\ Append(b, e)[i] = b[i]
        BY <2>5, <2>7
      <4>. QED  BY <3>2, <4>1 DEF Contains
    <3>. QED  BY <2>4, <3>1, <3>2 DEF e
  <2>10. HasPlace(e) => Contains(db, e) \/ Contains(rows[n + 1], e)
    <3>. HIDE DEF b, p, Good, G
    <3>1. Contains(Append(b, e), e)
      <4>. HIDE DEF e
      <4>1. Len(Append(b, e)) \in 1 .. Len(Append(b, e)) /\ Append(b, e)[Len(Append(b, e))] = e
        BY <2>5, <2>7
      <4>. QED  BY <4>1 DEF Contains
    <3>2. CASE HasPlace(e) /\ ~Contains(db, e) /\ ~Contains(b, e)
      <4>1. rows[n + 1] = Append(b, e)  BY <2>4, <3>2
      <4>. QED  BY <3>1, <4>1
    <3>3. CASE Contains(b, e)  BY <2>9, <3>3
    <3>. QED  BY <3>2, <3>3
  <2>11. \A i \in 1 .. n + 1 : HasPlace(ev[i]) =>
             Contains(db, ev[i]) \/ Contains(rows[n + 1], ev[i])
    <3>. SUFFICES ASSUME NEW i \in 1 .. n + 1, HasPlace(ev[i])
         PROVE  Contains(db, ev[i]) \/ Contains(rows[n + 1], ev[i])
      OBVIOUS
    <3>1. CASE i = n + 1  BY <2>10, <3>1
    <3>2. CASE i # n + 1
      <4>1. i \in 1 .. n  BY <3>2
      <4>. QED  BY <2>2, <2>9, <4>1
    <3>. QED  BY <3>1, <3>2
  <2>. HIDE DEF b, p, e, G, Insert
  <2>. QED  BY <2>6, <2>8, <2>11
<1>8. \A n \in Nat : n \in G
  <2>. HIDE DEF G
  <2>. QED  BY <1>6, <1>7, SetInduction
<1>9. Good(Len(ev))  BY <1>8
<1>10. SubSeq(ev, 1, Len(ev)) = ev  BY SubSeqFull
<1>. QED  BY <1>4, <1>9, <1>10

-----------------------------------------------------------------------------
(* The parts of the invariant *)

\* The commands run may be working on.
Commands ==
    {c \in [kind : {"none", "batch", "hook", "clean", "last", "final"} \cup TickKinds,
            batch : Seq(Events), hook : Hooks \cup {NoHook}] :
        c.kind # "batch" => c.batch = <<>>}

\* What callers put into the channel.
Sent == {c \in Commands : c.kind \notin {"none", "clean", "last"}}

\* The data have their types.
PipelineTypes ==
    /\ consumer \in [Consumers -> [pc : {"idle", "checking", "sending"}, batch : Seq(Events)]]
    /\ hook \in [Hooks -> {"idle", "waiting", "ok", "failed"}]
    /\ reply \in [Hooks -> {"none", "ok", "failed"}]
    /\ runner \in {"loop", "submitting", "stopping", "closing", "waiting", "flushed", "late"}
    /\ tick \in TickKinds
    /\ cmds \in Seq(Sent)
    /\ cur \in Commands
    /\ done \in BOOLEAN
    /\ window \in [seen : SUBSET Events, ring : Seq(Events), next : Nat]
    /\ pending \in Seq(Events)
    /\ db \in Seq(Events)
    /\ admitted \in Seq(Events)
    /\ stats \in [Counter -> Int]
    /\ base \in 0 .. Len(db)
    /\ capped \in Nat /\ skipped \in Nat /\ failures \in Nat /\ crashes \in Nat

\* The rows of this life of the daemon.
Stored == SubSeq(db, base + 1, Len(db))

\* What is stored and what waits came in this order.
OrderInv == Within(Stored \o pending, admitted)

\* What the window knows was admitted, and what was admitted is stored, waits,
\* has no place or was capped.
BackedInv ==
    /\ \A e \in window.seen : Contains(admitted, e)
    /\ capped = 0 =>
         \A i \in 1 .. Len(admitted) : HasPlace(admitted[i]) =>
             Contains(db, admitted[i]) \/ Contains(pending, admitted[i])

\* Between two payloads no more waits than a failed write or a small one leaves.
Carry == Max({MaxCarry, BatchEvents - 1})
BoundInv == cur.kind # "batch" => Len(pending) <= Carry

\* While no write has failed, a write leaves nothing behind.
EndInv ==
    /\ done => cur = Idle
    /\ runner = "flushed" => done
    /\ unsaved \subseteq tracked
    /\ failures = 0 =>
         /\ capped = 0
         /\ done \/ cur.kind \in {"clean", "last"} => unsaved = {}
         /\ done \/ cur.kind = "last" => pending = <<>>

\* Success is said of what was applied.
HookInv == \A h \in Hooks : hook[h] = "ok" \/ reply[h] = "ok" => h \in applied

\* The inductive invariant.
PInv == PipelineTypes /\ Conserved /\ OrderInv /\ BackedInv /\ BoundInv /\ EndInv /\ HookInv

-----------------------------------------------------------------------------
(* What the steps do to the data *)

\* The commands callers send.
LEMMA CommandTypes ==
    /\ \A k \in TickKinds \cup {"final"} : Command(k, <<>>, NoHook) \in Sent
    /\ \A h \in Hooks : Command("hook", <<>>, h) \in Sent
    /\ \A b \in Seq(Events) : Command("batch", b, NoHook) \in Sent
    /\ Idle \in Commands /\ Idle.kind = "none" /\ Idle.batch = <<>>
<1>1. <<>> \in Seq(Events) /\ NoHook \in Hooks \cup {NoHook}  OBVIOUS
<1>. QED  BY <1>1 DEF Command, Commands, Sent, Idle, TickKinds

\* A write ends a command or leaves the rest of its tick or its close.
LEMMA FlushlessTypes ==
    ASSUME cur \in Commands, Writes
    PROVE  /\ Flushless \in Commands /\ Flushless.kind \notin {"batch", "hook"}
           /\ cur.batch = <<>> /\ Flushless.batch = <<>>
           /\ Flushless.kind = "clean" => cur.kind = "sessions"
           /\ Flushless.kind = "last" => cur.kind = "final"
<1>1. CASE cur.kind = "sessions"
  BY <1>1 DEF Flushless, Commands, TickKinds
<1>2. CASE cur.kind = "final"
  BY <1>2 DEF Flushless, Commands, TickKinds
<1>3. CASE cur.kind \notin {"sessions", "final"}
  <2>1. Flushless = Idle  BY <1>3 DEF Flushless
  <2>2. cur.batch = <<>>  BY <1>3 DEF Writes, Commands
  <2>. QED  BY <2>1, <2>2, CommandTypes
<1>. QED  BY <1>1, <1>2, <1>3

\* Capping keeps the end, within the bound.
LEMMA CapTailFacts ==
    ASSUME NEW ev \in Seq(Events)
    PROVE  /\ CapTail(ev) \in Seq(Events)
           /\ Within(CapTail(ev), ev)
           /\ Len(CapTail(ev)) <= MaxCarry
           /\ Len(CapTail(ev)) <= Len(ev)
           /\ Len(CapTail(ev)) = Len(ev) => CapTail(ev) = ev
<1>1. MaxCarry \in Nat /\ Len(ev) \in Nat  BY SizeAssumption
<1>2. CASE Len(ev) <= MaxCarry
  <2>1. CapTail(ev) = ev  BY <1>2 DEF CapTail
  <2>. QED  BY <1>1, <1>2, <2>1, WithinItself
<1>3. CASE ~(Len(ev) <= MaxCarry)
  <2>1. PICK k \in 0 .. Len(ev) : k = Len(ev) - MaxCarry /\ k > 0  BY <1>1, <1>3
  <2>2. CapTail(ev) = SubSeq(ev, k + 1, Len(ev))  BY <1>3, <2>1 DEF CapTail
  <2>3. /\ CapTail(ev) \in Seq(Events)
        /\ Len(CapTail(ev)) = Len(ev) - k
        /\ Within(CapTail(ev), ev)
    BY <2>2, WithinEnd, EndOfSequence
  <2>4. Len(ev) - k = MaxCarry /\ MaxCarry < Len(ev)  BY <1>1, <1>3, <2>1
  <2>. QED  BY <1>1, <2>3, <2>4
<1>. QED  BY <1>2, <1>3

\* Not more events have a place than there are.
LEMMA PlacedIsNumber ==
    ASSUME NEW ev \in Seq(Events)
    PROVE  Placed(ev) \in 0 .. Len(ev)
<1>. DEFINE P == {i \in DOMAIN ev : HasPlace(ev[i])}
<1>1. P \subseteq 1 .. Len(ev) /\ Len(ev) \in Int  OBVIOUS
<1>2. IsFiniteSet(1 .. Len(ev))  BY <1>1, FS_Interval
<1>3. IsFiniteSet(P) /\ Cardinality(P) <= Cardinality(1 .. Len(ev))
  BY <1>1, <1>2, FS_Subset
<1>4. Cardinality(1 .. Len(ev)) = Len(ev)
  <2>1. PICK n \in Nat : n = Len(ev)  OBVIOUS
  <2>2. Cardinality(1 .. n) = n  BY FS_Interval
  <2>. QED  BY <2>1, <2>2
<1>. QED  BY <1>3, <1>4, FS_CardinalityType DEF Placed

\* The bound is the greater of the two sizes.
LEMMA CarryIsNumber ==
    Carry \in Int /\ MaxCarry <= Carry /\ BatchEvents - 1 <= Carry
<1>1. MaxCarry \in Int /\ BatchEvents - 1 \in Int  BY SizeAssumption
<1>2. Carry = IF MaxCarry <= BatchEvents - 1 THEN BatchEvents - 1 ELSE MaxCarry
  BY <1>1, MaxOfTwo DEF Carry
<1>. QED  BY <1>1, <1>2

\* Rows at the end of the table are rows of this life.
LEMMA StoredGrows ==
    ASSUME NEW d \in Seq(Events), NEW rows \in Seq(Events), NEW b \in 0 .. Len(d)
    PROVE  /\ d \o rows \in Seq(Events)
           /\ b \in 0 .. Len(d \o rows)
           /\ SubSeq(d \o rows, b + 1, Len(d \o rows)) = SubSeq(d, b + 1, Len(d)) \o rows
<1>. DEFINE e == d \o rows
            l == SubSeq(e, b + 1, Len(e))
            h == SubSeq(d, b + 1, Len(d))
            r == h \o rows
<1>1. /\ e \in Seq(Events) /\ Len(e) = Len(d) + Len(rows)
      /\ \A i \in 1 .. Len(d) + Len(rows) : e[i] = IF i <= Len(d) THEN d[i] ELSE rows[i - Len(d)]
  BY ConcatProperties
<1>2. Len(d) \in Nat /\ Len(rows) \in Nat /\ b \in Nat /\ b <= Len(d)  OBVIOUS
<1>3. b \in 0 .. Len(e)
  <2>. HIDE DEF e
  <2>. QED  BY <1>1, <1>2
<1>4. l \in Seq(Events) /\ Len(l) = Len(e) - b /\ \A i \in 1 .. Len(e) - b : l[i] = e[i + b]
  <2>. HIDE DEF e
  <2>. QED  BY <1>1, <1>3, EndOfSequence
<1>5. h \in Seq(Events) /\ Len(h) = Len(d) - b /\ \A i \in 1 .. Len(d) - b : h[i] = d[i + b]
  BY EndOfSequence
<1>. HIDE DEF e, l, h
<1>6. /\ r \in Seq(Events) /\ Len(r) = Len(h) + Len(rows)
      /\ \A i \in 1 .. Len(h) + Len(rows) : r[i] = IF i <= Len(h) THEN h[i] ELSE rows[i - Len(h)]
  BY <1>5, ConcatProperties
<1>. HIDE DEF r
<1>7. Len(l) = Len(r)  BY <1>1, <1>2, <1>4, <1>5, <1>6
<1>8. ASSUME NEW i \in 1 .. Len(l) PROVE l[i] = r[i]
  <2>1. PICK j \in 1 .. Len(d) + Len(rows) : j = i + b  BY <1>1, <1>2, <1>4
  <2>2. i \in 1 .. Len(e) - b /\ i \in 1 .. Len(h) + Len(rows)
    BY <1>1, <1>2, <1>4, <1>5
  <2>3. l[i] = e[j]  BY <1>4, <2>1, <2>2
  <2>4. CASE j <= Len(d)
    <3>1. i \in 1 .. Len(d) - b /\ i <= Len(h)  BY <1>2, <1>5, <2>1, <2>2, <2>4
    <3>2. e[j] = d[j] /\ r[i] = h[i] /\ h[i] = d[i + b]
      BY <1>1, <1>5, <1>6, <2>2, <2>4, <3>1
    <3>. QED  BY <2>1, <2>3, <3>2
  <2>5. CASE ~(j <= Len(d))
    <3>1. ~(i <= Len(h)) /\ i - Len(h) = j - Len(d)  BY <1>2, <1>5, <2>1, <2>2, <2>5
    <3>2. e[j] = rows[j - Len(d)] /\ r[i] = rows[i - Len(h)]
      BY <1>1, <1>6, <2>2, <2>5, <3>1
    <3>. QED  BY <2>3, <3>1, <3>2
  <2>. QED  BY <2>4, <2>5
<1>9. l = r  BY <1>4, <1>6, <1>7, <1>8, SeqEqual
<1>. QED  BY <1>1, <1>3, <1>9 DEF e, l, r, h

-----------------------------------------------------------------------------
(* Types *)

\* The data of callers and of the daemon's loop keep their types.
LEMMA CallerTypes ==
    ASSUME PipelineTypes,
           \/ \E c \in Consumers : Worker(c) \/ \E b \in Batches : Consume(c, b)
           \/ \E h \in Hooks : SendHook(h) \/ HookReturns(h) \/ HookRefused(h) \/ HookGivesUp(h)
           \/ Runner
    PROVE  PipelineTypes'
<1>. USE DEF callers, owned, store, bounds
<1>a. \A c \in Sent : Append(cmds, c) \in Seq(Sent)  BY DEF PipelineTypes
<1>b. <<>> \in Seq(Events) /\ Resting \in [pc : {"idle", "checking", "sending"}, batch : Seq(Events)]
  BY DEF Resting
<1>1. ASSUME NEW c \in Consumers, NEW b \in Batches, Consume(c, b) PROVE PipelineTypes'
  <2>1. b \in Seq(Events)  BY BatchAssumption
  <2>2. consumer' \in [Consumers -> [pc : {"idle", "checking", "sending"}, batch : Seq(Events)]]
    BY <1>1, <1>b, <2>1 DEF Consume, PipelineTypes
  <2>. QED  BY <1>1, <2>2 DEF Consume, PipelineTypes, Stored
<1>2. ASSUME NEW c \in Consumers, CheckDone(c) PROVE PipelineTypes'
  <2>2. consumer' \in [Consumers -> [pc : {"idle", "checking", "sending"}, batch : Seq(Events)]]
    BY <1>2, <1>b DEF CheckDone, PipelineTypes
  <2>. QED  BY <1>2, <2>2 DEF CheckDone, PipelineTypes
<1>3. ASSUME NEW c \in Consumers, SendBatch(c) PROVE PipelineTypes'
  <2>1. cmds' \in Seq(Sent)
    <3>1. consumer[c].batch \in Seq(Events)  BY DEF PipelineTypes
    <3>2. cmds' = Append(cmds, Command("batch", consumer[c].batch, NoHook))
      BY <1>3 DEF SendBatch, Push
    <3>. QED  BY <1>a, <3>1, <3>2, CommandTypes
  <2>2. consumer' \in [Consumers -> [pc : {"idle", "checking", "sending"}, batch : Seq(Events)]]
    BY <1>3, <1>b DEF SendBatch, PipelineTypes
  <2>. QED  BY <1>3, <2>1, <2>2 DEF SendBatch, PipelineTypes
<1>4. ASSUME NEW c \in Consumers, SendRefused(c) PROVE PipelineTypes'
  <2>2. consumer' \in [Consumers -> [pc : {"idle", "checking", "sending"}, batch : Seq(Events)]]
    BY <1>4, <1>b DEF SendRefused, PipelineTypes
  <2>. QED  BY <1>4, <2>2 DEF SendRefused, PipelineTypes
<1>5. ASSUME NEW h \in Hooks, SendHook(h) PROVE PipelineTypes'
  <2>1. cmds' \in Seq(Sent)
    <3>1. cmds' = Append(cmds, Command("hook", <<>>, h))  BY <1>5 DEF SendHook, Push
    <3>. QED  BY <1>a, <3>1, CommandTypes
  <2>. QED  BY <1>5, <2>1 DEF SendHook, PipelineTypes
<1>6. ASSUME NEW h \in Hooks, HookReturns(h) PROVE PipelineTypes'
  BY <1>6 DEF HookReturns, PipelineTypes
<1>7. ASSUME NEW h \in Hooks, HookRefused(h) \/ HookGivesUp(h) PROVE PipelineTypes'
  BY <1>7 DEF HookRefused, HookGivesUp, PipelineTypes
<1>8. ASSUME NEW k \in TickKinds, Tick(k) PROVE PipelineTypes'
  BY <1>8 DEF Tick, PipelineTypes
<1>9. CASE SubmitTick
  <2>1. cmds' = Append(cmds, Command(tick, <<>>, NoHook))  BY <1>9 DEF SubmitTick, Push
  <2>2. cmds' \in Seq(Sent)  BY <1>a, <2>1, CommandTypes DEF PipelineTypes
  <2>. QED  BY <1>9, <2>2 DEF SubmitTick, PipelineTypes
<1>10. CASE SendFinal
  <2>1. cmds' = Append(cmds, Command("final", <<>>, NoHook))  BY <1>10 DEF SendFinal, Push
  <2>2. cmds' \in Seq(Sent)  BY <1>a, <2>1, CommandTypes
  <2>. QED  BY <1>10, <2>2 DEF SendFinal, PipelineTypes
<1>11. CASE Stop \/ BeginClose \/ Flushed \/ CloseTimesOut
  BY <1>11 DEF Stop, BeginClose, Flushed, CloseTimesOut, PipelineTypes
<1>. QED
  BY <1>1, <1>2, <1>3, <1>4, <1>5, <1>6, <1>7, <1>8, <1>9, <1>10, <1>11 DEF Worker, Runner

\* The owner's data keep their types.
LEMMA OwnerTypes ==
    ASSUME PipelineTypes, Owner
    PROVE  PipelineTypes'
<1>. USE DEF callers, owned, store, bounds
<1>a. Idle \in Commands /\ Idle.batch = <<>>  BY CommandTypes
<1>b. "events" \in Counter /\ "duplicates" \in Counter /\ "stored" \in Counter
      /\ "folded" \in Counter
  BY DEF Counter
<1>1. CASE Take
  <2>1. Head(cmds) \in Sent /\ Tail(cmds) \in Seq(Sent)
    BY <1>1 DEF Take, PipelineTypes
  <2>2. Head(cmds) \in Commands /\ Len(Head(cmds).batch) \in Int  BY <2>1 DEF Sent, Commands
  <2>3. stats' \in [Counter -> Int]  BY <1>1, <2>2, SMTT(30) DEF Take, PipelineTypes
  <2>. QED  BY <1>1, <2>1, <2>2, <2>3 DEF Take, PipelineTypes
<1>c. ASSUME Ingesting
      PROVE  /\ cur.batch \in Seq(Events) /\ Head(cur.batch) \in Events
             /\ [cur EXCEPT !.batch = Tail(@)] \in Commands
  <2>1. cur \in Commands /\ cur.kind = "batch" /\ cur.batch # <<>> /\ cur.batch \in Seq(Events)
    BY <1>c DEF Ingesting, PipelineTypes, Commands
  <2>2. Head(cur.batch) \in Events /\ Tail(cur.batch) \in Seq(Events)  BY <2>1
  <2>. QED  BY <2>1, <2>2 DEF Commands
<1>2. CASE IngestDuplicate
  <2>1. cur' \in Commands  BY <1>2, <1>c DEF IngestDuplicate
  <2>2. stats' \in [Counter -> Int]  BY <1>2 DEF IngestDuplicate, PipelineTypes
  <2>. QED  BY <1>2, <2>1, <2>2 DEF IngestDuplicate, PipelineTypes
<1>3. CASE IngestNew
  <2>. DEFINE e == Head(cur.batch)
  <2>1. cur' \in Commands /\ e \in Events  BY <1>3, <1>c DEF IngestNew
  <2>2. window' = Remember(window, e)  BY <1>3 DEF IngestNew
  <2>3. pending' = Append(pending, e) /\ admitted' = Append(admitted, e)
    BY <1>3 DEF IngestNew
  <2>. HIDE DEF e
  <2>4. window' \in [seen : SUBSET Events, ring : Seq(Events), next : Nat]
    <3>0. /\ window.seen \subseteq Events /\ window.ring \in Seq(Events) /\ window.next \in Nat
          /\ window \in [seen : SUBSET Events, ring : Seq(Events), next : Nat]
      BY DEF PipelineTypes
    <3>1. CASE Len(window.ring) < WindowSize
      <4>1. Append(window.ring, e) \in Seq(Events)  BY <2>1, <3>0
      <4>. QED  BY <2>1, <2>2, <3>0, <3>1, <4>1 DEF Remember
    <3>2. CASE ~(Len(window.ring) < WindowSize)
      <4>1. [window.ring EXCEPT ![window.next] = e] \in Seq(Events)
        <5>1. \A r \in Seq(Events) : \A i \in Nat : [r EXCEPT ![i] = e] \in Seq(Events)
          <6>. SUFFICES ASSUME NEW r \in Seq(Events), NEW i \in Nat
               PROVE  [r EXCEPT ![i] = e] \in Seq(Events)
            OBVIOUS
          <6>1. r \in [1 .. Len(r) -> Events] /\ Len(r) \in Nat  OBVIOUS
          <6>2. [r EXCEPT ![i] = e] \in [1 .. Len(r) -> Events]  BY <2>1, <6>1
          <6>. QED  BY <6>1, <6>2
        <5>. QED  BY <3>0, <5>1
      <4>2. (window.next % WindowSize) + 1 \in Nat  BY <3>0, WindowAssumption
      <4>. QED  BY <2>1, <2>2, <3>0, <3>2, <4>1, <4>2 DEF Remember
    <3>. QED  BY <3>1, <3>2
  <2>5. pending' \in Seq(Events) /\ admitted' \in Seq(Events)
    BY <2>1, <2>3 DEF PipelineTypes
  <2>. QED  BY <1>3, <2>1, <2>4, <2>5 DEF IngestNew, PipelineTypes
<1>4. CASE FlushNothing
  <2>1. cur' \in Commands  BY <1>4, FlushlessTypes DEF FlushNothing, PipelineTypes
  <2>. QED  BY <1>4, <2>1 DEF FlushNothing, PipelineTypes
<1>5. CASE Commit
  <2>1. cur' \in Commands  BY <1>5, FlushlessTypes DEF Commit, PipelineTypes
  <2>2. /\ db' = db \o RowsOf(pending) /\ pending' = <<>>
        /\ stats' = [stats EXCEPT !.stored = @ + Len(RowsOf(pending)),
                                  !.folded = @ + (Placed(pending) - Len(RowsOf(pending)))]
        /\ skipped' = skipped + (Len(pending) - Placed(pending))
    BY <1>5 DEF Commit
  <2>3. RowsOf(pending) \in Seq(Events) /\ Len(RowsOf(pending)) \in Int
    BY RowsFacts DEF PipelineTypes
  <2>4. Placed(pending) \in 0 .. Len(pending)  BY PlacedIsNumber DEF PipelineTypes
  <2>5. db' \in Seq(Events) /\ base \in 0 .. Len(db')
    BY <2>2, <2>3, StoredGrows DEF PipelineTypes
  <2>6. stats' \in [Counter -> Int]
    <3>1. PICK x \in Int, y \in Int :
            stats' = [stats EXCEPT !.stored = @ + x, !.folded = @ + y]
      <4>1. Placed(pending) - Len(RowsOf(pending)) \in Int  BY <2>3, <2>4
      <4>. QED  BY <2>2, <2>3, <4>1
    <3>2. stats \in [Counter -> Int]  BY DEF PipelineTypes
    <3>. DEFINE m == [stats EXCEPT !.stored = @ + x]
    <3>3. m \in [Counter -> Int]  BY <1>b, <3>2
    <3>4. stats' = [m EXCEPT !.folded = @ + y]  BY <3>1
    <3>. HIDE DEF m
    <3>. QED  BY <1>b, <3>3, <3>4
  <2>7. skipped' \in Nat  BY <2>2, <2>4, SMTT(30) DEF PipelineTypes
  <2>. QED  BY <1>5, <2>1, <2>2, <2>5, <2>6, <2>7, SMTT(30) DEF Commit, PipelineTypes
<1>6. CASE WriteFails
  <2>1. cur' \in Commands  BY <1>6, FlushlessTypes DEF WriteFails, PipelineTypes
  <2>2. pending' = CapTail(pending) /\ capped' = capped + (Len(pending) - Len(pending'))
    BY <1>6 DEF WriteFails
  <2>3. pending' \in Seq(Events) /\ Len(pending') <= Len(pending)
    BY <2>2, CapTailFacts DEF PipelineTypes
  <2>4. capped' \in Nat  BY <2>2, <2>3 DEF PipelineTypes
  <2>. QED  BY <1>6, <2>1, <2>3, <2>4 DEF WriteFails, PipelineTypes
<1>7. CASE NoWrite  BY <1>7, <1>a DEF NoWrite, PipelineTypes
<1>8. ASSUME NEW gone \in SUBSET tracked, ForgetSessions(gone) PROVE PipelineTypes'
  BY <1>8, <1>a DEF ForgetSessions, PipelineTypes
<1>9. CASE Finish  BY <1>9, <1>a DEF Finish, PipelineTypes
<1>10. CASE ApplyHook \/ FailHook
  <2>1. reply' \in [Hooks -> {"none", "ok", "failed"}]
    BY <1>10 DEF ApplyHook, FailHook, PipelineTypes
  <2>2. cur' = Idle /\ failures' \in Nat
    BY <1>10 DEF ApplyHook, FailHook, PipelineTypes
  <2>. QED  BY <1>10, <1>a, <2>1, <2>2 DEF ApplyHook, FailHook, PipelineTypes
<1>. QED
  BY <1>1, <1>2, <1>3, <1>4, <1>5, <1>6, <1>7, <1>8, <1>9, <1>10 DEF Owner

\* A process that starts has the types.
LEMMA CrashTypes ==
    ASSUME PipelineTypes, Crash
    PROVE  PipelineTypes'
<1>1. Idle \in Commands  BY CommandTypes
<1>2. EmptyWindow \in [seen : SUBSET Events, ring : Seq(Events), next : Nat]
  BY DEF EmptyWindow
<1>3. /\ consumer' \in [Consumers -> [pc : {"idle", "checking", "sending"}, batch : Seq(Events)]]
      /\ hook' \in [Hooks -> {"idle", "waiting", "ok", "failed"}]
      /\ reply' \in [Hooks -> {"none", "ok", "failed"}]
      /\ stats' \in [Counter -> Int]
  BY DEF Crash, Resting, PipelineTypes
<1>4. base' \in 0 .. Len(db')  BY DEF Crash, PipelineTypes
<1>5. /\ runner' = "submitting" /\ tick' = "prune" /\ cmds' = <<>> /\ cur' = Idle
      /\ done' = FALSE /\ window' = EmptyWindow /\ pending' = <<>> /\ admitted' = <<>>
      /\ capped' = 0 /\ skipped' = 0 /\ db' = db /\ failures' = failures
  BY DEF Crash
<1>6. "prune" \in TickKinds  BY DEF TickKinds
<1>7. <<>> \in Seq(Sent) /\ <<>> \in Seq(Events) /\ FALSE \in BOOLEAN /\ 0 \in Nat
  OBVIOUS
<1>8. db' \in Seq(Events) /\ failures' \in Nat /\ crashes' \in Nat
  BY <1>5 DEF Crash, PipelineTypes
<1>9. "submitting" \in {"loop", "submitting", "stopping", "closing", "waiting", "flushed", "late"}
  OBVIOUS
<1>. QED  BY ONLY <1>1, <1>2, <1>3, <1>4, <1>5, <1>6, <1>7, <1>8, <1>9 DEF PipelineTypes

\* Every step keeps the types.
LEMMA TypesPreserved ==
    ASSUME PipelineTypes, [Next]_vars
    PROVE  PipelineTypes'
<1>1. CASE UNCHANGED vars
  BY <1>1 DEF vars, callers, owned, store, bounds, PipelineTypes
<1>. QED  BY <1>1, CallerTypes, OwnerTypes, CrashTypes DEF Next

-----------------------------------------------------------------------------
(* The invariants *)

\* The steps of everyone but run.
Callers ==
    \/ \E c \in Consumers : Worker(c) \/ \E b \in Batches : Consume(c, b)
    \/ \E h \in Hooks : SendHook(h) \/ HookReturns(h) \/ HookRefused(h) \/ HookGivesUp(h)
    \/ Runner

\* Those who send commands touch nothing that run owns.
LEMMA CallersLeave ==
    ASSUME Callers
    PROVE  /\ UNCHANGED <<window, tracked, unsaved, pending, dirty, admitted, capped, skipped,
                          db, applied, failures, base, crashes, cur, done, stats, reply>>
           /\ runner' = "flushed" => runner = "flushed" \/ done
<1>. USE DEF owned, store, bounds
<1>1. ASSUME NEW c \in Consumers, Worker(c)
      PROVE  UNCHANGED <<owned, store, bounds, cur, done, stats, reply, runner>>
  BY <1>1 DEF Worker, CheckDone, SendBatch, SendRefused
<1>2. ASSUME NEW c \in Consumers, NEW b \in Batches, Consume(c, b)
      PROVE  UNCHANGED <<owned, store, bounds, cur, done, stats, reply, runner>>
  BY <1>2 DEF Consume
<1>3. ASSUME NEW h \in Hooks,
             SendHook(h) \/ HookReturns(h) \/ HookRefused(h) \/ HookGivesUp(h)
      PROVE  UNCHANGED <<owned, store, bounds, cur, done, stats, reply, runner>>
  BY <1>3 DEF SendHook, HookReturns, HookRefused, HookGivesUp
<1>4. ASSUME Runner
      PROVE  /\ UNCHANGED <<owned, store, bounds, cur, done, stats, reply>>
             /\ runner' = "flushed" => runner = "flushed" \/ done
  BY <1>4 DEF Runner, Tick, SubmitTick, Stop, BeginClose, SendFinal, Flushed, CloseTimesOut
<1>. QED  BY <1>1, <1>2, <1>3, <1>4 DEF Callers

\* A step that touches nothing that run owns.
LEMMA OthersKeep ==
    ASSUME Conserved, OrderInv, BackedInv, BoundInv, EndInv,
           UNCHANGED <<window, tracked, unsaved, pending, dirty, admitted, capped, skipped,
                       db, applied, failures, base, cur, done, stats>>,
           runner' = "flushed" => runner = "flushed" \/ done
    PROVE  Conserved' /\ OrderInv' /\ BackedInv' /\ BoundInv' /\ EndInv'
<1>1. Conserved'  BY DEF Conserved
<1>2. OrderInv'  BY DEF OrderInv, Stored
<1>3. BackedInv'  BY DEF BackedInv
<1>4. BoundInv'  BY DEF BoundInv, Carry
<1>5. EndInv'  BY DEF EndInv
<1>. QED  BY <1>1, <1>2, <1>3, <1>4, <1>5

\* The counters of the summary add up after every step of run.
LEMMA OwnerConserves ==
    ASSUME PipelineTypes, Conserved, Owner
    PROVE  Conserved'
<1>. USE DEF callers, owned, store, bounds
<1>a. /\ stats.events \in Int /\ stats.duplicates \in Int
      /\ stats.stored \in Int /\ stats.folded \in Int
      /\ skipped \in Int /\ capped \in Int
      /\ Len(pending) \in Int /\ Len(cur.batch) \in Int
  BY DEF PipelineTypes, Counter, Commands
<1>b. ASSUME NEW x \in Int, NEW c \in Counter, stats' = [stats EXCEPT ![c] = @ + x]
      PROVE  \A i \in Counter : stats'[i] = IF i = c THEN stats[i] + x ELSE stats[i]
  BY <1>b DEF PipelineTypes
<1>c. {"events", "duplicates", "stored", "folded"} = Counter  BY DEF Counter
<1>d. Idle.batch = <<>> /\ Len(<<>>) = 0  BY CommandTypes
<1>e1. PICK e \in Int, d \in Int : stats.events = e /\ stats.duplicates = d  BY <1>a
<1>e2. PICK s \in Int, f \in Int : stats.stored = s /\ stats.folded = f  BY <1>a
<1>e3. PICK k \in Int, c \in Int : skipped = k /\ capped = c  BY <1>a
<1>e4. PICK p \in Int, b \in Int : Len(pending) = p /\ Len(cur.batch) = b  BY <1>a
<1>g. /\ stats.events = e /\ stats.duplicates = d /\ stats.stored = s /\ stats.folded = f
      /\ skipped = k /\ capped = c /\ Len(pending) = p /\ Len(cur.batch) = b
      /\ e = d + s + f + k + c + p + b
  BY <1>e1, <1>e2, <1>e3, <1>e4 DEF Conserved
<1>1. CASE Take
  <2>1. Head(cmds).batch \in Seq(Events)
    <3>0. cmds \in Seq(Sent) /\ cmds # <<>>  BY <1>1 DEF Take, PipelineTypes
    <3>1. Head(cmds) \in Sent  BY <3>0
    <3>. QED  BY <3>1 DEF Sent, Commands
  <2>2. PICK x \in Int : x = Len(Head(cmds).batch)  BY <2>1
  <2>3. \A i \in Counter : stats'[i] = IF i = "events" THEN stats[i] + x ELSE stats[i]
    BY <1>1, <1>b, <1>c, <2>2 DEF Take
  <2>4. Len(cur.batch) = 0 /\ Len(cur'.batch) = x
    BY <1>1, <1>d, <2>2 DEF Take
  <2>5. UNCHANGED <<skipped, capped, pending>>  BY <1>1 DEF Take
  <2>6. /\ stats'.events = e + x /\ stats'.duplicates = d
        /\ stats'.stored = s /\ stats'.folded = f
        /\ skipped' = k /\ capped' = c /\ Len(pending') = p /\ b = 0 /\ Len(cur'.batch) = x
    BY <1>c, <1>g, <2>3, <2>4, <2>5
  <2>7. e + x = d + s + f + k + c + p + x  BY <1>g, <2>6
  <2>. QED  BY <2>6, <2>7 DEF Conserved
<1>e. ASSUME Ingesting, cur' = [cur EXCEPT !.batch = Tail(@)]
      PROVE  Len(cur'.batch) = Len(cur.batch) - 1
  <2>1. cur.batch \in Seq(Events) /\ cur.batch # <<>>
    BY <1>e DEF Ingesting, PipelineTypes, Commands
  <2>2. cur'.batch = Tail(cur.batch)  BY <1>e DEF PipelineTypes, Commands
  <2>. QED  BY <2>1, <2>2
<1>2. CASE IngestDuplicate
  <2>1. \A i \in Counter : stats'[i] = IF i = "duplicates" THEN stats[i] + 1 ELSE stats[i]
    BY <1>2, <1>b, <1>c, SMTT(30) DEF IngestDuplicate
  <2>2. Len(cur'.batch) = Len(cur.batch) - 1  BY <1>2, <1>e DEF IngestDuplicate
  <2>3. UNCHANGED <<skipped, capped, pending>>  BY <1>2 DEF IngestDuplicate
  <2>4. /\ stats'.events = e /\ stats'.duplicates = d + 1
        /\ stats'.stored = s /\ stats'.folded = f
        /\ skipped' = k /\ capped' = c /\ Len(pending') = p /\ Len(cur'.batch) = b - 1
    BY <1>c, <1>g, <2>1, <2>2, <2>3
  <2>5. e = (d + 1) + s + f + k + c + p + (b - 1)  BY <1>g
  <2>. QED  BY <2>4, <2>5 DEF Conserved
<1>3. CASE IngestNew
  <2>1. Len(pending') = Len(pending) + 1  BY <1>3 DEF IngestNew, PipelineTypes
  <2>2. Len(cur'.batch) = Len(cur.batch) - 1  BY <1>3, <1>e DEF IngestNew
  <2>3. UNCHANGED <<skipped, capped, stats>>  BY <1>3 DEF IngestNew
  <2>4. /\ UNCHANGED stats /\ skipped' = k /\ capped' = c
        /\ Len(pending') = p + 1 /\ Len(cur'.batch) = b - 1
    BY <1>g, <2>1, <2>2, <2>3
  <2>5. e = d + s + f + k + c + (p + 1) + (b - 1)  BY <1>g
  <2>. QED  BY <1>g, <2>4, <2>5 DEF Conserved
<1>f. Writes => cur.batch = <<>> /\ Flushless.batch = <<>>
  BY FlushlessTypes DEF PipelineTypes
<1>4. CASE FlushNothing
  BY <1>4, <1>f DEF FlushNothing, Conserved
<1>5. CASE Commit
  <2>1. /\ stats' = [stats EXCEPT !.stored = @ + Len(RowsOf(pending)),
                                  !.folded = @ + (Placed(pending) - Len(RowsOf(pending)))]
        /\ skipped' = skipped + (Len(pending) - Placed(pending))
        /\ pending' = <<>> /\ capped' = capped /\ cur' = Flushless /\ Writes
    BY <1>5 DEF Commit
  <2>2. PICK n \in Int : n = Len(RowsOf(pending))
    BY RowsFacts DEF PipelineTypes
  <2>3. PICK q \in Int : q = Placed(pending)
    BY PlacedIsNumber DEF PipelineTypes
  <2>4. /\ stats'.events = e /\ stats'.duplicates = d
        /\ stats'.stored = s + n /\ stats'.folded = f + (q - n)
    BY <1>c, <1>g, <2>1, <2>2, <2>3 DEF PipelineTypes
  <2>5. skipped' = k + (p - q) /\ capped' = c  BY <1>g, <2>1, <2>3
  <2>6. Len(pending') = 0 /\ Len(cur'.batch) = 0 /\ b = 0
    BY <1>d, <1>f, <1>g, <2>1
  <2>7. e = d + (s + n) + (f + (q - n)) + (k + (p - q)) + c + 0 + 0  BY <1>g, <2>6
  <2>. QED  BY <2>4, <2>5, <2>6, <2>7 DEF Conserved
<1>6. CASE WriteFails
  <2>1. capped' = capped + (Len(pending) - Len(pending')) /\ pending' \in Seq(Events)
    BY <1>6, CapTailFacts DEF WriteFails, PipelineTypes
  <2>2. UNCHANGED <<skipped, stats>> /\ cur' = Flushless /\ Writes  BY <1>6 DEF WriteFails
  <2>3. Len(pending') \in Int  BY <2>1
  <2>4. cur'.batch = cur.batch  BY <1>f, <2>2
  <2>. QED  BY <1>a, <2>1, <2>2, <2>3, <2>4 DEF Conserved
<1>7. CASE NoWrite
  <2>1. cur.batch = <<>>  BY <1>7 DEF NoWrite, PipelineTypes, Commands
  <2>. QED  BY <1>7, <1>d, <2>1 DEF NoWrite, Conserved
<1>8. ASSUME NEW gone \in SUBSET tracked, ForgetSessions(gone) PROVE Conserved'
  <2>1. cur.batch = <<>>  BY <1>8 DEF ForgetSessions, PipelineTypes, Commands
  <2>. QED  BY <1>8, <1>d, <2>1 DEF ForgetSessions, Conserved
<1>9. CASE Finish
  <2>1. cur.batch = <<>>  BY <1>9 DEF Finish, PipelineTypes, Commands
  <2>. QED  BY <1>9, <1>d, <2>1 DEF Finish, Conserved
<1>10. CASE ApplyHook \/ FailHook
  <2>1. cur.batch = <<>>  BY <1>10 DEF ApplyHook, FailHook, PipelineTypes, Commands
  <2>. QED  BY <1>10, <1>d, <2>1 DEF ApplyHook, FailHook, Conserved
<1>. QED
  BY <1>1, <1>2, <1>3, <1>4, <1>5, <1>6, <1>7, <1>8, <1>9, <1>10 DEF Owner

\* Stored rows and waiting events keep the order of admission.
LEMMA OwnerOrders ==
    ASSUME PipelineTypes, OrderInv, Owner
    PROVE  OrderInv'
<1>. USE DEF callers, owned, store, bounds
<1>a. Stored \in Seq(Events)  BY EndOfSequence DEF Stored, PipelineTypes
<1>b. pending \in Seq(Events) /\ admitted \in Seq(Events) /\ Stored \o pending \in Seq(Events)
  BY <1>a, ConcatProperties DEF PipelineTypes
<1>c. ASSUME NEW s \in Seq(Events), Within(s, pending)
      PROVE  Stored \o s \in Seq(Events) /\ Within(Stored \o s, admitted)
  <2>1. Stored \o s \in Seq(Events)  BY <1>a, ConcatProperties
  <2>2. Within(Stored \o s, Stored \o pending)  BY <1>a, <1>b, <1>c, WithinConcat
  <2>. QED  BY <1>b, <2>1, <2>2, WithinTransitive DEF OrderInv
<1>1. CASE IngestNew
  <2>. DEFINE e == Head(cur.batch)
  <2>1. e \in Events
    BY <1>1, SMTT(30) DEF IngestNew, Ingesting, PipelineTypes, Commands
  <2>2. pending' = Append(pending, e) /\ admitted' = Append(admitted, e) /\ Stored' = Stored
    BY <1>1 DEF IngestNew, Stored
  <2>. HIDE DEF e
  <2>3. Within(Append(Stored \o pending, e), admitted')
    BY <1>b, <2>1, <2>2, WithinAppend DEF OrderInv
  <2>4. Stored \o Append(pending, e) = Append(Stored \o pending, e)
    <3>1. <<e>> \in Seq(Events)  BY <2>1
    <3>2. Stored \o (pending \o <<e>>) = (Stored \o pending) \o <<e>>
      BY <1>a, <1>b, <3>1, ConcatAssociative
    <3>. QED  BY <1>b, <2>1, <3>2, AppendIsConcat
  <2>. QED  BY <2>2, <2>3, <2>4 DEF OrderInv
<1>2. CASE Commit
  <2>. DEFINE rows == RowsOf(pending)
  <2>1. db' = db \o rows /\ base' = base /\ pending' = <<>> /\ admitted' = admitted
    BY <1>2 DEF Commit
  <2>2. rows \in Seq(Events) /\ Within(rows, pending)  BY RowsFacts DEF PipelineTypes
  <2>. HIDE DEF rows
  <2>3. Stored' = Stored \o rows
    BY <2>1, <2>2, StoredGrows DEF Stored, PipelineTypes
  <2>4. Stored \o rows \in Seq(Events) /\ Within(Stored \o rows, admitted)
    BY <1>c, <2>2
  <2>5. Stored' \o pending' = Stored \o rows  BY <2>1, <2>3, <2>4, ConcatEmptySeq
  <2>. QED  BY <2>1, <2>4, <2>5 DEF OrderInv
<1>3. CASE WriteFails
  <2>1. pending' = CapTail(pending) /\ admitted' = admitted /\ Stored' = Stored
    BY <1>3 DEF WriteFails, Stored
  <2>2. Within(Stored \o CapTail(pending), admitted)  BY <1>b, <1>c, CapTailFacts
  <2>. QED  BY <2>1, <2>2 DEF OrderInv
<1>4. CASE UNCHANGED <<pending, admitted, db, base>>
  BY <1>4 DEF OrderInv, Stored
<1>. QED
  BY <1>1, <1>2, <1>3, <1>4 DEF Owner, Take, IngestDuplicate, FlushNothing, NoWrite,
     ForgetSessions, Finish, ApplyHook, FailHook

\* What the window knows stays stored or waiting.
LEMMA OwnerBacks ==
    ASSUME PipelineTypes, BackedInv, Owner
    PROVE  BackedInv'
<1>. USE DEF callers, owned, store, bounds
<1>a. pending \in Seq(Events) /\ admitted \in Seq(Events) /\ db \in Seq(Events)
      /\ capped \in Nat
  BY DEF PipelineTypes
<1>1. CASE IngestNew
  <2>. DEFINE e == Head(cur.batch)
  <2>1. e \in Events
    BY <1>1, SMTT(30) DEF IngestNew, Ingesting, PipelineTypes, Commands
  <2>2. /\ pending' = Append(pending, e) /\ admitted' = Append(admitted, e)
        /\ window' = Remember(window, e) /\ capped' = capped /\ db' = db
    BY <1>1 DEF IngestNew
  <2>. HIDE DEF e
  <2>3. ASSUME NEW s \in Seq(Events)
        PROVE  \A x : Contains(Append(s, e), x) <=> Contains(s, x) \/ x = e
    BY <2>1, ContainsAppend
  <2>4. window'.seen \subseteq window.seen \cup {e}
    BY <2>2 DEF Remember, PipelineTypes
  <2>5. \A x \in window'.seen : Contains(admitted', x)
    BY <1>a, <2>2, <2>3, <2>4 DEF BackedInv
  <2>6. ASSUME capped' = 0, NEW i \in 1 .. Len(admitted'), HasPlace(admitted'[i])
        PROVE  Contains(db', admitted'[i]) \/ Contains(pending', admitted'[i])
    <3>1. CASE i \in 1 .. Len(admitted)
      <4>1. admitted'[i] = admitted[i]  BY <1>a, <2>1, <2>2, <3>1
      <4>. QED  BY <1>a, <2>2, <2>3, <2>6, <3>1, <4>1 DEF BackedInv
    <3>2. CASE i \notin 1 .. Len(admitted)
      <4>1. admitted'[i] = e  BY <1>a, <2>1, <2>2, <3>2
      <4>. QED  BY <1>a, <2>2, <2>3, <4>1
    <3>. QED  BY <3>1, <3>2
  <2>. QED  BY <2>5, <2>6 DEF BackedInv
<1>2. CASE Commit
  <2>. DEFINE rows == RowsOf(pending)
  <2>1. /\ db' = db \o rows /\ pending' = <<>> /\ capped' = capped
        /\ admitted' = admitted /\ window' = window
    BY <1>2 DEF Commit
  <2>2. /\ rows \in Seq(Events)
        /\ \A i \in 1 .. Len(pending) : HasPlace(pending[i]) =>
               Contains(db, pending[i]) \/ Contains(rows, pending[i])
    BY RowsFacts DEF PipelineTypes
  <2>. HIDE DEF rows
  <2>3. \A x : Contains(db \o rows, x) <=> Contains(db, x) \/ Contains(rows, x)
    BY <1>a, <2>2, ContainsConcat
  <2>4. \A x : HasPlace(x) /\ Contains(pending, x) => Contains(db \o rows, x)
    BY <2>2, <2>3 DEF Contains
  <2>. QED  BY <2>1, <2>3, <2>4 DEF BackedInv
<1>3. CASE WriteFails
  <2>1. /\ pending' = CapTail(pending) /\ capped' = capped + (Len(pending) - Len(pending'))
        /\ UNCHANGED <<admitted, db, window>>
    BY <1>3 DEF WriteFails
  <2>2. capped' = 0 => capped = 0 /\ Len(CapTail(pending)) = Len(pending)
    <3>1. CapTail(pending) \in Seq(Events) /\ Len(CapTail(pending)) <= Len(pending)
      BY <1>a, CapTailFacts
    <3>. QED  BY <1>a, <2>1, <3>1
  <2>3. capped' = 0 => pending' = pending  BY <1>a, <2>1, <2>2, CapTailFacts
  <2>. QED  BY <2>1, <2>2, <2>3 DEF BackedInv
<1>4. CASE UNCHANGED <<pending, admitted, db, window, capped>>
  BY <1>4 DEF BackedInv
<1>. QED
  BY <1>1, <1>2, <1>3, <1>4 DEF Owner, Take, IngestDuplicate, FlushNothing, NoWrite,
     ForgetSessions, Finish, ApplyHook, FailHook

\* Only a payload under way fills the buffer above its bound.
LEMMA OwnerBounds ==
    ASSUME PipelineTypes, BoundInv, Owner
    PROVE  BoundInv'
<1>. USE DEF callers, owned, store, bounds
<1>a. Carry' = Carry  BY DEF Carry
<1>b. Len(pending) \in Int /\ BatchEvents \in Int /\ Carry \in Int /\ MaxCarry \in Int
      /\ MaxCarry <= Carry /\ BatchEvents - 1 <= Carry /\ 0 <= Carry
  BY CarryIsNumber, SizeAssumption DEF PipelineTypes
<1>1. CASE Take
  <2>1. cur.kind # "batch" /\ pending' = pending  BY <1>1, CommandTypes DEF Take
  <2>. QED  BY <1>a, <2>1 DEF BoundInv
<1>2. CASE IngestDuplicate \/ IngestNew
  <2>1. cur'.kind = "batch"
    BY <1>2 DEF IngestDuplicate, IngestNew, Ingesting, PipelineTypes, Commands
  <2>. QED  BY <2>1 DEF BoundInv
<1>3. CASE FlushNothing \/ Commit
  <2>1. pending' = <<>>  BY <1>3 DEF FlushNothing, Commit, Empty
  <2>2. Len(pending') = 0  BY <2>1
  <2>. QED  BY <1>a, <1>b, <2>2 DEF BoundInv
<1>4. CASE WriteFails
  <2>1. pending' \in Seq(Events) /\ Len(pending') <= MaxCarry
    BY <1>4, CapTailFacts DEF WriteFails, PipelineTypes
  <2>2. Len(pending') \in Int  BY <2>1
  <2>. QED  BY <1>a, <1>b, <2>1, <2>2 DEF BoundInv
<1>5. CASE NoWrite
  <2>1. pending' = pending /\ (cur.kind # "batch" \/ Len(pending) < BatchEvents)
    BY <1>5 DEF NoWrite
  <2>. QED  BY <1>a, <1>b, <2>1 DEF BoundInv
<1>6. ASSUME NEW gone \in SUBSET tracked, ForgetSessions(gone) PROVE BoundInv'
  <2>1. pending' = pending /\ cur.kind # "batch"  BY <1>6 DEF ForgetSessions
  <2>. QED  BY <1>a, <2>1 DEF BoundInv
<1>7. CASE Finish \/ ApplyHook \/ FailHook
  <2>1. pending' = pending /\ cur.kind # "batch"  BY <1>7 DEF Finish, ApplyHook, FailHook
  <2>. QED  BY <1>a, <2>1 DEF BoundInv
<1>. QED  BY <1>1, <1>2, <1>3, <1>4, <1>5, <1>6, <1>7 DEF Owner

\* A write that succeeds leaves nothing unsaved, and run ends after one.
LEMMA OwnerEnds ==
    ASSUME PipelineTypes, EndInv, Owner
    PROVE  EndInv'
<1>. USE DEF callers, owned, store, bounds
<1>a. Idle.kind = "none"  BY CommandTypes
<1>b. failures \in Nat /\ \A k \in Nat : k + 1 # 0  BY DEF PipelineTypes
<1>c. ASSUME Writes
      PROVE  /\ cur.kind \in {"batch", "flush", "sessions", "final"} /\ cur # Idle /\ ~done
             /\ Flushless.kind = "clean" => cur.kind = "sessions"
             /\ Flushless.kind = "last" => cur.kind = "final"
  <2>1. cur.kind \in {"batch", "flush", "sessions", "final"}  BY <1>c DEF Writes
  <2>2. cur # Idle  BY <1>a, <2>1
  <2>. QED  BY <1>c, <2>1, <2>2, FlushlessTypes DEF EndInv, PipelineTypes
<1>d. /\ unsaved \subseteq tracked
      /\ runner = "flushed" => done
      /\ done => cur = Idle
  BY DEF EndInv
<1>1. CASE Take
  <2>1. /\ ~done /\ Head(cmds) \in Sent /\ cur' = Head(cmds)
        /\ UNCHANGED <<done, runner, unsaved, tracked, failures, capped, pending>>
    BY <1>1 DEF Take, PipelineTypes
  <2>2. cur'.kind \notin {"clean", "last"}  BY <2>1 DEF Sent
  <2>. QED  BY <2>1, <2>2 DEF EndInv
<1>2. CASE IngestDuplicate \/ IngestNew
  <2>1. cur.kind = "batch" /\ cur'.kind = "batch"
    BY <1>2 DEF IngestDuplicate, IngestNew, Ingesting, PipelineTypes, Commands
  <2>2. ~done  BY <1>a, <1>d, <2>1
  <2>3. UNCHANGED <<done, runner, failures, capped>> /\ unsaved' \subseteq tracked'
    BY <1>2, <1>d DEF IngestDuplicate, IngestNew
  <2>. QED  BY <1>d, <2>1, <2>2, <2>3 DEF EndInv
<1>3. CASE FlushNothing
  <2>1. /\ Writes /\ cur' = Flushless /\ pending = <<>> /\ Snapshot = {}
        /\ UNCHANGED <<done, runner, unsaved, tracked, failures, capped, pending>>
    BY <1>3 DEF FlushNothing, Empty
  <2>2. cur.kind \in {"sessions", "final"} => unsaved = {}
    BY <1>d, <2>1 DEF Snapshot
  <2>3. cur'.kind \in {"clean", "last"} => unsaved' = {}  BY <1>c, <2>1, <2>2
  <2>. QED  BY <1>c, <1>d, <2>1, <2>3 DEF EndInv
<1>4. CASE Commit
  <2>1. /\ Writes /\ cur' = Flushless /\ pending' = <<>> /\ unsaved' = unsaved \ Snapshot
        /\ UNCHANGED <<done, runner, tracked, failures, capped>>
    BY <1>4 DEF Commit
  <2>2. cur.kind \in {"sessions", "final"} => unsaved' = {}
    BY <1>d, <2>1 DEF Snapshot
  <2>3. cur'.kind \in {"clean", "last"} => unsaved' = {}  BY <1>c, <2>1, <2>2
  <2>. QED  BY <1>c, <1>d, <2>1, <2>3 DEF EndInv
<1>5. CASE WriteFails
  <2>1. Writes /\ failures' = failures + 1 /\ UNCHANGED <<done, runner, tracked, unsaved>>
    BY <1>5 DEF WriteFails
  <2>2. failures' # 0  BY <1>b, <2>1
  <2>. QED  BY <1>c, <1>d, <2>1, <2>2 DEF EndInv
<1>6. CASE NoWrite
  <2>1. /\ cur.kind \in {"batch", "flush", "prune"} /\ cur' = Idle
        /\ UNCHANGED <<done, runner, tracked, unsaved, failures, capped, pending>>
    BY <1>6 DEF NoWrite
  <2>. QED  BY <1>a, <1>d, <2>1 DEF EndInv
<1>7. ASSUME NEW gone \in SUBSET tracked, ForgetSessions(gone) PROVE EndInv'
  <2>1. /\ cur.kind = "clean" /\ cur' = Idle
        /\ tracked' = tracked \ gone /\ unsaved' = unsaved \ gone
        /\ UNCHANGED <<done, runner, failures, capped, pending>>
    BY <1>7 DEF ForgetSessions
  <2>2. ~done  BY <1>a, <1>d, <2>1
  <2>3. unsaved' \subseteq tracked'  BY <1>d, <2>1
  <2>. QED  BY <1>a, <1>d, <2>1, <2>2, <2>3 DEF EndInv
<1>8. CASE Finish
  <2>1. /\ cur.kind = "last" /\ cur' = Idle /\ done' = TRUE
        /\ UNCHANGED <<runner, tracked, unsaved, failures, capped, pending>>
    BY <1>8 DEF Finish
  <2>. QED  BY <1>d, <2>1 DEF EndInv
<1>9. CASE ApplyHook \/ FailHook
  <2>1. /\ cur.kind = "hook" /\ cur' = Idle
        /\ UNCHANGED <<done, runner, tracked, unsaved, capped, pending>>
        /\ failures' = 0 => failures = 0
    BY <1>9, <1>b DEF ApplyHook, FailHook
  <2>2. ~done  BY <1>a, <1>d, <2>1
  <2>. QED  BY <1>a, <1>d, <2>1, <2>2 DEF EndInv
<1>. QED  BY <1>1, <1>2, <1>3, <1>4, <1>5, <1>6, <1>7, <1>8, <1>9 DEF Owner

-----------------------------------------------------------------------------
(* The invariant *)

\* Only a hook that was applied is answered with success.
LEMMA HooksPreserved ==
    ASSUME PipelineTypes, HookInv, [Next]_vars
    PROVE  HookInv'
<1>. USE DEF callers, owned, store, bounds
<1>1. ASSUME NEW h \in Hooks, HookReturns(h) PROVE HookInv'
  <2>1. \A g \in Hooks : hook'[g] = IF g = h THEN reply[h] ELSE hook[g]
    BY <1>1 DEF HookReturns, PipelineTypes
  <2>2. UNCHANGED <<reply, applied>>  BY <1>1 DEF HookReturns
  <2>. QED  BY <2>1, <2>2 DEF HookInv
<1>2. ASSUME NEW h \in Hooks, SendHook(h) \/ HookRefused(h) \/ HookGivesUp(h) PROVE HookInv'
  <2>1. \A g \in Hooks : hook'[g] = "ok" => hook[g] = "ok"
    BY <1>2 DEF SendHook, HookRefused, HookGivesUp, PipelineTypes
  <2>2. UNCHANGED <<reply, applied>>  BY <1>2 DEF SendHook, HookRefused, HookGivesUp
  <2>. QED  BY <2>1, <2>2 DEF HookInv
<1>3. CASE ApplyHook
  <2>1. applied' = applied \cup {cur.hook} /\ hook' = hook  BY <1>3 DEF ApplyHook
  <2>2. \A g \in Hooks : reply'[g] = IF g = cur.hook THEN "ok" ELSE reply[g]
    BY <1>3 DEF ApplyHook, PipelineTypes
  <2>. QED  BY <2>1, <2>2 DEF HookInv
<1>4. CASE FailHook
  <2>1. UNCHANGED <<applied, hook>>  BY <1>4 DEF FailHook
  <2>2. \A g \in Hooks : reply'[g] = "ok" => reply[g] = "ok"
    BY <1>4 DEF FailHook, PipelineTypes
  <2>. QED  BY <2>1, <2>2 DEF HookInv
<1>5. CASE Crash
  <2>1. /\ \A g \in Hooks : reply'[g] = "none" /\ (hook'[g] = "ok" => hook[g] = "ok")
        /\ applied' = applied
    BY <1>5 DEF Crash
  <2>. QED  BY <2>1 DEF HookInv
<1>6. CASE UNCHANGED <<hook, reply, applied>>
  BY <1>6 DEF HookInv
<1>7. ASSUME NEW c \in Consumers, Worker(c) \/ \E b \in Batches : Consume(c, b)
      PROVE  UNCHANGED <<hook, reply, applied>>
  BY <1>7 DEF Worker, CheckDone, SendBatch, SendRefused, Consume
<1>8. ASSUME Runner
      PROVE  UNCHANGED <<hook, reply, applied>>
  BY <1>8 DEF Runner, Tick, SubmitTick, Stop, BeginClose, SendFinal, Flushed, CloseTimesOut
<1>9. ASSUME Owner, ~ApplyHook, ~FailHook
      PROVE  UNCHANGED <<hook, reply, applied>>
  BY <1>9 DEF Owner, Take, IngestDuplicate, IngestNew, FlushNothing, Commit, WriteFails,
     NoWrite, ForgetSessions, Finish
<1>10. UNCHANGED vars => UNCHANGED <<hook, reply, applied>>  BY DEF vars
<1>. QED
  BY <1>1, <1>2, <1>3, <1>4, <1>5, <1>6, <1>7, <1>8, <1>9, <1>10 DEF Next

\* A process that starts, on whatever store, has lost nothing yet.
LEMMA Afresh ==
    ASSUME NEW d \in Seq(Events)
    PROVE  SubSeq(d, Len(d) + 1, Len(d)) = <<>>
<1>1. Len(d) \in 0 .. Len(d)  OBVIOUS
<1>2. /\ SubSeq(d, Len(d) + 1, Len(d)) \in Seq(Events)
      /\ Len(SubSeq(d, Len(d) + 1, Len(d))) = Len(d) - Len(d)
  BY <1>1, EndOfSequence
<1>. DEFINE s == SubSeq(d, Len(d) + 1, Len(d))
<1>3. Len(s) = 0  BY <1>2
<1>4. s \in Seq(Events)  BY <1>2
<1>. HIDE DEF s
<1>5. s = <<>>  BY <1>3, <1>4
<1>. QED  BY <1>5 DEF s

\* So it meets what is said of the events, at the first start.
LEMMA FreshInv ==
    ASSUME PipelineTypes, stats = [c \in Counter |-> 0], cur = Idle, ~done,
           runner # "flushed", tracked = {}, unsaved = {}, pending = <<>>,
           admitted = <<>>, window = EmptyWindow, skipped = 0, capped = 0, base = Len(db)
    PROVE  Conserved /\ OrderInv /\ BackedInv /\ BoundInv /\ EndInv
<1>a. Idle.batch = <<>> /\ Idle.kind = "none" /\ Len(<<>>) = 0  BY CommandTypes
<1>1. Conserved
  <2>1. /\ stats.events = 0 /\ stats.duplicates = 0 /\ stats.stored = 0 /\ stats.folded = 0
    BY DEF Counter
  <2>2. Len(pending) = 0 /\ Len(cur.batch) = 0  BY <1>a
  <2>. QED  BY <2>1, <2>2 DEF Conserved
<1>2. OrderInv
  <2>1. Stored = <<>>  BY Afresh DEF Stored, PipelineTypes
  <2>2. Stored \o pending = <<>>  BY <2>1
  <2>. QED  BY <2>2, WithinEmpty DEF OrderInv
<1>3. BackedInv
  <2>1. window.seen = {} /\ 1 .. Len(admitted) = {}  BY <1>a DEF EmptyWindow
  <2>. QED  BY <2>1 DEF BackedInv
<1>4. BoundInv
  <2>1. Len(pending) <= Carry  BY <1>a, CarryIsNumber, SizeAssumption
  <2>. QED  BY <2>1 DEF BoundInv
<1>5. EndInv  BY <1>a DEF EndInv
<1>. QED  BY <1>1, <1>2, <1>3, <1>4, <1>5

\* The first start.
LEMMA PInvInit == Init => PInv
<1>. SUFFICES ASSUME Init PROVE PInv  OBVIOUS
<1>1. PipelineTypes
  <2>1. Idle \in Commands  BY CommandTypes
  <2>2. EmptyWindow \in [seen : SUBSET Events, ring : Seq(Events), next : Nat]
    BY DEF EmptyWindow
  <2>3. /\ consumer \in [Consumers -> [pc : {"idle", "checking", "sending"}, batch : Seq(Events)]]
        /\ hook \in [Hooks -> {"idle", "waiting", "ok", "failed"}]
        /\ reply \in [Hooks -> {"none", "ok", "failed"}]
        /\ stats \in [Counter -> Int]
    BY DEF Init, Resting
  <2>4. base \in 0 .. Len(db)  BY DEF Init
  <2>5. /\ runner = "submitting" /\ tick = "prune" /\ cmds = <<>> /\ cur = Idle
        /\ done = FALSE /\ window = EmptyWindow /\ pending = <<>> /\ admitted = <<>>
        /\ capped = 0 /\ skipped = 0 /\ db = <<>> /\ failures = 0 /\ crashes = 0
    BY DEF Init
  <2>6. "prune" \in TickKinds  BY DEF TickKinds
  <2>7. <<>> \in Seq(Sent) /\ <<>> \in Seq(Events) /\ FALSE \in BOOLEAN /\ 0 \in Nat
    OBVIOUS
  <2>8. "submitting" \in {"loop", "submitting", "stopping", "closing", "waiting", "flushed", "late"}
    OBVIOUS
  <2>. QED  BY ONLY <2>1, <2>2, <2>3, <2>4, <2>5, <2>6, <2>7, <2>8 DEF PipelineTypes
<1>2. Conserved /\ OrderInv /\ BackedInv /\ BoundInv /\ EndInv
  <2>1. base = Len(db)  BY DEF Init
  <2>. QED  BY <1>1, <2>1, FreshInv DEF Init
<1>3. HookInv  BY DEF Init, HookInv
<1>. QED  BY <1>1, <1>2, <1>3 DEF PInv

\* And after a crash.
LEMMA CrashStartsAfresh ==
    ASSUME PipelineTypes, PipelineTypes', Crash
    PROVE  Conserved' /\ OrderInv' /\ BackedInv' /\ BoundInv' /\ EndInv'
<1>1. /\ stats' = [c \in Counter |-> 0] /\ cur' = Idle /\ ~done' /\ runner' # "flushed"
      /\ tracked' = {} /\ unsaved' = {} /\ pending' = <<>> /\ admitted' = <<>>
      /\ window' = EmptyWindow /\ skipped' = 0 /\ capped' = 0 /\ base' = Len(db')
  BY DEF Crash
<1>a. Idle.batch = <<>> /\ Idle.kind = "none" /\ Len(<<>>) = 0  BY CommandTypes
<1>2. Conserved'
  <2>1. stats'.events = 0 /\ stats'.duplicates = 0 /\ stats'.stored = 0 /\ stats'.folded = 0
    BY <1>1 DEF Counter
  <2>2. Len(pending') = 0 /\ Len(cur'.batch) = 0  BY <1>a, <1>1
  <2>. QED  BY <1>1, <2>1, <2>2 DEF Conserved
<1>3. OrderInv'
  <2>1. db' \in Seq(Events)  BY DEF PipelineTypes
  <2>2. Stored' = <<>>  BY <1>1, <2>1, Afresh DEF Stored
  <2>3. Stored' \o pending' = <<>>  BY <1>1, <2>2
  <2>. QED  BY <2>3, WithinEmpty DEF OrderInv
<1>4. BackedInv'
  <2>1. window'.seen = {} /\ 1 .. Len(admitted') = {}  BY <1>a, <1>1 DEF EmptyWindow
  <2>. QED  BY <2>1 DEF BackedInv
<1>5. BoundInv'
  <2>1. Carry' = Carry  BY DEF Carry
  <2>2. Len(pending') <= Carry  BY <1>a, <1>1, CarryIsNumber, SizeAssumption
  <2>. QED  BY <2>1, <2>2 DEF BoundInv
<1>6. EndInv'  BY <1>a, <1>1 DEF EndInv
<1>. QED  BY <1>2, <1>3, <1>4, <1>5, <1>6

\* Every step.
LEMMA PInvNext == PInv /\ [Next]_vars => PInv'
<1>. SUFFICES ASSUME PInv, [Next]_vars PROVE PInv'  OBVIOUS
<1>a. PipelineTypes /\ Conserved /\ OrderInv /\ BackedInv /\ BoundInv /\ EndInv /\ HookInv
  BY DEF PInv
<1>1. PipelineTypes'  BY <1>a, TypesPreserved
<1>2. HookInv'  BY <1>a, HooksPreserved
<1>3. Conserved' /\ OrderInv' /\ BackedInv' /\ BoundInv' /\ EndInv'
  <2>1. CASE Owner
    BY <1>a, <2>1, OwnerConserves, OwnerOrders, OwnerBacks, OwnerBounds, OwnerEnds
  <2>2. CASE Crash  BY <1>1, <1>a, <2>2, CrashStartsAfresh
  <2>3. CASE Callers
    <3>1. /\ UNCHANGED <<window, tracked, unsaved, pending, dirty, admitted, capped, skipped,
                         db, applied, failures, base, cur, done, stats>>
          /\ runner' = "flushed" => runner = "flushed" \/ done
      BY <2>3, CallersLeave
    <3>. QED  BY <1>a, <3>1, OthersKeep
  <2>4. CASE UNCHANGED vars
    <3>1. UNCHANGED <<window, tracked, unsaved, pending, dirty, admitted, capped, skipped,
                      db, applied, failures, base, cur, done, stats, runner>>
      BY <2>4 DEF vars, callers, owned, store, bounds
    <3>. QED  BY <1>a, <3>1, OthersKeep
  <2>5. Owner \/ Crash \/ Callers \/ UNCHANGED vars  BY DEF Next, Callers
  <2>. QED  BY <2>1, <2>2, <2>3, <2>4, <2>5
<1>. QED  BY <1>1, <1>2, <1>3 DEF PInv

\* The invariant of the pipeline.
THEOREM PipelineInvariant == Spec => []PInv
<1>1. Init => PInv  BY PInvInit
<1>2. PInv /\ [Next]_vars => PInv'  BY PInvNext
<1>. QED  BY <1>1, <1>2, PTL DEF Spec

-----------------------------------------------------------------------------
(* What follows *)

\* What the invariant says of the events is what the runs check.
LEMMA PInvAccounts == PInv => EventsAccountedFor
<1>. SUFFICES ASSUME PInv PROVE EventsAccountedFor  OBVIOUS
<1>a. PipelineTypes /\ Conserved /\ OrderInv /\ BackedInv /\ BoundInv /\ EndInv
  BY DEF PInv
<1>1. ArrivalOrder
  <2>1. Stored \in Seq(Events)  BY <1>a, EndOfSequence DEF Stored, PipelineTypes
  <2>2. pending \in Seq(Events) /\ admitted \in Seq(Events) /\ db \in Seq(Events)
    BY <1>a DEF PipelineTypes
  <2>. DEFINE rows == RowsOf(pending)
  <2>3. rows \in Seq(Events) /\ Within(rows, pending)  BY <2>2, RowsFacts
  <2>. HIDE DEF rows
  <2>4. Within(Stored \o rows, Stored \o pending)  BY <2>1, <2>2, <2>3, WithinConcat
  <2>5. Stored \o rows \in Seq(Events) /\ Stored \o pending \in Seq(Events)
    BY <2>1, <2>2, <2>3, ConcatProperties
  <2>6. Within(Stored \o rows, admitted)
    BY <1>a, <2>2, <2>4, <2>5, WithinTransitive DEF OrderInv
  <2>7. Embeds(Stored \o rows, admitted)  BY <2>2, <2>5, <2>6, WithinEmbeds
  <2>. QED  BY <2>7 DEF ArrivalOrder, Stored, rows
<1>2. DuplicateIsBacked
  <2>. SUFFICES ASSUME capped = 0, NEW e \in window.seen, HasPlace(e)
       PROVE  Contains(db, e) \/ Contains(pending, e)
    BY DEF DuplicateIsBacked
  <2>1. PICK i \in 1 .. Len(admitted) : admitted[i] = e  BY <1>a DEF BackedInv, Contains
  <2>. QED  BY <1>a, <2>1 DEF BackedInv
<1>3. PendingBounded
  <2>1. Idle.kind # "batch"  BY CommandTypes
  <2>. QED  BY <1>a, <2>1 DEF BoundInv, PendingBounded, Carry
<1>4. FlushedMeansStored
  <2>. SUFFICES ASSUME runner = "flushed", failures = 0
       PROVE  /\ pending = <<>> /\ unsaved = {} /\ cur = Idle
              /\ \A i \in 1 .. Len(admitted) : HasPlace(admitted[i]) => Contains(db, admitted[i])
    BY DEF FlushedMeansStored
  <2>1. pending = <<>> /\ unsaved = {} /\ cur = Idle /\ capped = 0  BY <1>a DEF EndInv
  <2>2. \A x : ~Contains(pending, x)  BY <2>1 DEF Contains
  <2>. QED  BY <1>a, <2>1, <2>2 DEF BackedInv
<1>. QED  BY <1>a, <1>1, <1>2, <1>3, <1>4 DEF EventsAccountedFor

\* Every event taken from the channel is accounted for, in whatever order the
\* commands come, however often a write fails and the daemon crashes.
THEOREM NoEventLost == Spec => []EventsAccountedFor
<1>1. PInv => EventsAccountedFor  BY PInvAccounts
<1>. QED  BY <1>1, PipelineInvariant, PTL

\* Success is reported of an applied hook only (SubmitLifecycle).
THEOREM HooksToldTruly == Spec => []HookAckIsTrue
<1>1. PInv => HookAckIsTrue  BY DEF PInv, HookInv, HookAckIsTrue
<1>. QED  BY <1>1, PipelineInvariant, PTL

\* A step that forgets a session the store has an older state of is the step
\* after a write that failed, or a crash.
LEMMA StepKeeps ==
    ASSUME PInv, [Next]_vars, crashes' = crashes, failures = 0
    PROVE  Kept
<1>. USE DEF callers, owned, store, bounds
<1>a. EndInv /\ crashes \in Nat /\ \A k \in Nat : k + 1 # k
  BY DEF PInv, PipelineTypes
<1>1. CASE tracked \subseteq tracked'
  BY <1>1 DEF Kept
<1>2. ASSUME NEW gone \in SUBSET tracked, ForgetSessions(gone) PROVE Kept
  <2>1. unsaved = {}  BY <1>a, <1>2 DEF ForgetSessions, EndInv
  <2>. QED  BY <2>1 DEF Kept
<1>3. ~Crash
  <2>1. Crash => crashes' = crashes + 1  BY DEF Crash
  <2>. QED  BY <1>a, <2>1
<1>4. Callers => tracked' = tracked  BY CallersLeave
<1>5. UNCHANGED vars => tracked' = tracked  BY DEF vars
<1>6. CASE Owner
  BY <1>1, <1>2, <1>6 DEF Owner, Take, IngestDuplicate, IngestNew, FlushNothing, Commit,
     WriteFails, NoWrite, Finish, ApplyHook, FailHook
<1>. QED  BY <1>1, <1>3, <1>4, <1>5, <1>6 DEF Next, Callers

\* A session tick forgets only what its own write has brought to the store.
THEOREM ForgottenIsStored == Spec => SnapshotBeforeForgotten
<1>1. PInv /\ [Next]_vars => [crashes' = crashes /\ failures = 0 => Kept]_vars
  BY StepKeeps
<1>. QED  BY <1>1, PipelineInvariant, PTL DEF Spec, SnapshotBeforeForgotten

-----------------------------------------------------------------------------
(* What two texts have in common *)

\* The common parts within the first i lines of the one and j of the other.
PartsWithin(old, new, i, j) == {M \in CommonParts(old, new) : \A p \in M : p[1] <= i /\ p[2] <= j}

\* None of them has more than n lines, and one has as many.
IsBest(old, new, i, j, n) ==
    /\ n \in Nat
    /\ \E M \in PartsWithin(old, new, i, j) : Cardinality(M) = n
    /\ \A M \in PartsWithin(old, new, i, j) : Cardinality(M) <= n

\* A common part pairs finitely many lines.
LEMMA PartsAre ==
    ASSUME NEW old \in Seq(STRING), NEW new \in Seq(STRING), NEW M \in CommonParts(old, new)
    PROVE  /\ IsFiniteSet(M) /\ Cardinality(M) \in Nat
           /\ \A p \in M : /\ p = <<p[1], p[2]>> /\ p[1] \in 1..Len(old) /\ p[2] \in 1..Len(new)
                           /\ old[p[1]] = new[p[2]]
           /\ \A p, q \in M :
                p # q => (p[1] < q[1] /\ p[2] < q[2]) \/ (q[1] < p[1] /\ q[2] < p[2])
<1>1. M \in SUBSET ((1..Len(old)) \X (1..Len(new)))  BY DEF CommonParts
<1>2. IsFiniteSet(1..Len(old)) /\ IsFiniteSet(1..Len(new))
  BY FS_Interval, Len(old) \in Int, Len(new) \in Int, 1 \in Int
<1>3. IsFiniteSet((1..Len(old)) \X (1..Len(new)))  BY <1>2, FS_Product
<1>4. IsFiniteSet(M)  BY <1>1, <1>3, FS_Subset
<1>. QED  BY <1>1, <1>4, FS_CardinalityType DEF CommonParts

\* Less of a common part is one.
LEMMA PartOfPart ==
    ASSUME NEW old \in Seq(STRING), NEW new \in Seq(STRING), NEW M \in CommonParts(old, new),
           NEW N \in SUBSET M
    PROVE  N \in CommonParts(old, new)
BY DEF CommonParts

\* With no line of one text there is nothing in common.
LEMMA BestOfNone ==
    ASSUME NEW old \in Seq(STRING), NEW new \in Seq(STRING), NEW i \in Nat, NEW j \in Nat, i = 0 \/ j = 0
    PROVE  IsBest(old, new, i, j, 0)
<1>1. {} \in PartsWithin(old, new, i, j)  BY DEF PartsWithin, CommonParts
<1>2. ASSUME NEW M \in PartsWithin(old, new, i, j) PROVE M = {}
  <2>1. M \in CommonParts(old, new) /\ \A p \in M : p[1] <= i /\ p[2] <= j  BY DEF PartsWithin
  <2>2. \A p \in M : p[1] \in 1..Len(old) /\ p[2] \in 1..Len(new)  BY <2>1, PartsAre
  <2>. QED  BY <2>1, <2>2
<1>3. Cardinality({}) = 0  BY FS_EmptySet
<1>4. \A M \in PartsWithin(old, new, i, j) : Cardinality(M) = 0  BY <1>2, <1>3
<1>5. \E M \in PartsWithin(old, new, i, j) : Cardinality(M) = 0  BY <1>1, <1>3
<1>6. \A M \in PartsWithin(old, new, i, j) : Cardinality(M) <= 0  BY <1>4
<1>7. 0 \in Nat  OBVIOUS
<1>. HIDE DEF PartsWithin
<1>. QED  BY <1>5, <1>6, <1>7 DEF IsBest

\* Equal last lines are kept.
LEMMA BestOfEqual ==
    ASSUME NEW old \in Seq(STRING), NEW new \in Seq(STRING), NEW i \in 1..Len(old), NEW j \in 1..Len(new),
           old[i] = new[j], NEW n, IsBest(old, new, i - 1, j - 1, n)
    PROVE  IsBest(old, new, i, j, n + 1)
<1>1. n \in Nat  BY DEF IsBest
<1>2. PICK K \in PartsWithin(old, new, i - 1, j - 1) : Cardinality(K) = n  BY DEF IsBest
<1>3. K \in CommonParts(old, new) /\ \A p \in K : p[1] <= i - 1 /\ p[2] <= j - 1  BY DEF PartsWithin
<1>4. /\ IsFiniteSet(K)
      /\ \A p \in K : /\ p = <<p[1], p[2]>> /\ p[1] \in 1..Len(old) /\ p[2] \in 1..Len(new)
                      /\ old[p[1]] = new[p[2]]
      /\ \A p, q \in K : p # q => (p[1] < q[1] /\ p[2] < q[2]) \/ (q[1] < p[1] /\ q[2] < p[2])
  BY <1>3, PartsAre
<1>5. <<i, j>> \notin K  BY <1>3
<1>6. K \cup {<<i, j>>} \in PartsWithin(old, new, i, j)
  <2>1. K \cup {<<i, j>>} \in SUBSET ((DOMAIN old) \X (DOMAIN new))  BY <1>3 DEF CommonParts
  <2>2. \A p \in K \cup {<<i, j>>} : old[p[1]] = new[p[2]] /\ p[1] <= i /\ p[2] <= j  BY <1>3, <1>4
  <2>3. ASSUME NEW p \in K \cup {<<i, j>>}, NEW q \in K \cup {<<i, j>>}, p # q
        PROVE  (p[1] < q[1] /\ p[2] < q[2]) \/ (q[1] < p[1] /\ q[2] < p[2])
    <3>1. CASE p \in K /\ q \in K  BY <1>4, <2>3, <3>1
    <3>2. CASE p \in K /\ q = <<i, j>>  BY <1>3, <1>4, <3>2
    <3>3. CASE p = <<i, j>> /\ q \in K  BY <1>3, <1>4, <3>3
    <3>. QED  BY <2>3, <3>1, <3>2, <3>3
  <2>. QED  BY <2>1, <2>2, <2>3 DEF PartsWithin, CommonParts
<1>7. Cardinality(K \cup {<<i, j>>}) = n + 1  BY <1>2, <1>4, <1>5, FS_AddElement
<1>8. ASSUME NEW M \in PartsWithin(old, new, i, j) PROVE Cardinality(M) <= n + 1
  <2>1. M \in CommonParts(old, new) /\ \A p \in M : p[1] <= i /\ p[2] <= j  BY DEF PartsWithin
  <2>2. /\ IsFiniteSet(M) /\ Cardinality(M) \in Nat
        /\ \A p \in M : p[1] \in 1..Len(old) /\ p[2] \in 1..Len(new)
        /\ \A p, q \in M : p # q => (p[1] < q[1] /\ p[2] < q[2]) \/ (q[1] < p[1] /\ q[2] < p[2])
    BY <2>1, PartsAre
  <2>3. CASE \A p \in M : p[1] # i /\ p[2] # j
    <3>1. M \in PartsWithin(old, new, i - 1, j - 1)  BY <2>1, <2>2, <2>3 DEF PartsWithin
    <3>. QED  BY <1>1, <2>2, <3>1 DEF IsBest
  <2>4. CASE \E p \in M : p[1] = i \/ p[2] = j
    <3>1. PICK p \in M : p[1] = i \/ p[2] = j  BY <2>4
    <3>2. ASSUME NEW q \in M \ {p} PROVE q[1] <= i - 1 /\ q[2] <= j - 1
      <4>1. /\ p[1] \in Nat /\ p[2] \in Nat /\ q[1] \in Nat /\ q[2] \in Nat
            /\ p[1] <= i /\ q[1] <= i /\ p[2] <= j /\ q[2] <= j
        <5>1. p[1] \in Nat /\ p[2] \in Nat  BY <2>2
        <5>2. q \in M  OBVIOUS
        <5>3. q[1] \in Nat /\ q[2] \in Nat  BY <2>2, <5>2
        <5>. QED  BY <2>1, <5>1, <5>2, <5>3
      <4>2. (p[1] < q[1] /\ p[2] < q[2]) \/ (q[1] < p[1] /\ q[2] < p[2])  BY <2>2, Zenon
      <4>. DEFINE a == p[1]
                  b == p[2]
                  c == q[1]
                  d == q[2]
      <4>3. a \in Nat /\ b \in Nat /\ c \in Nat /\ d \in Nat /\ a <= i /\ c <= i /\ b <= j /\ d <= j  BY <4>1
      <4>4. (a = i \/ b = j) /\ ((a < c /\ b < d) \/ (c < a /\ d < b))  BY <3>1, <4>2
      <4>. HIDE DEF a, b, c, d
      <4>5. c <= i - 1 /\ d <= j - 1  BY <4>3, <4>4
      <4>. QED  BY <4>5 DEF c, d
    <3>3. M \ {p} \in PartsWithin(old, new, i - 1, j - 1)  BY <2>1, <3>2, PartOfPart DEF PartsWithin
    <3>4. Cardinality(M \ {p}) = Cardinality(M) - 1  BY <2>2, FS_RemoveElement
    <3>5. Cardinality(M \ {p}) <= n  BY <3>3 DEF IsBest
    <3>. QED  BY <1>1, <2>2, <3>4, <3>5
  <2>. QED  BY <2>3, <2>4
<1>. QED  BY <1>1, <1>6, <1>7, <1>8 DEF IsBest

\* Of unequal last lines one is left out.
LEMMA BestOfOther ==
    ASSUME NEW old \in Seq(STRING), NEW new \in Seq(STRING), NEW i \in 1..Len(old), NEW j \in 1..Len(new),
           old[i] # new[j], NEW above, NEW left,
           IsBest(old, new, i - 1, j, above), IsBest(old, new, i, j - 1, left)
    PROVE  IsBest(old, new, i, j, IF above > left THEN above ELSE left)
<1>1. above \in Nat /\ left \in Nat  BY DEF IsBest
<1>2. /\ PartsWithin(old, new, i - 1, j) \subseteq PartsWithin(old, new, i, j)
      /\ PartsWithin(old, new, i, j - 1) \subseteq PartsWithin(old, new, i, j)
  <2>1. ASSUME NEW M \in CommonParts(old, new), NEW p \in M PROVE p[1] \in Int /\ p[2] \in Int
    BY PartsAre
  <2>. QED  BY <2>1 DEF PartsWithin
<1>3. \E M \in PartsWithin(old, new, i, j) : Cardinality(M) = (IF above > left THEN above ELSE left)
  BY <1>1, <1>2 DEF IsBest
<1>4. ASSUME NEW M \in PartsWithin(old, new, i, j)
      PROVE  M \in PartsWithin(old, new, i - 1, j) \/ M \in PartsWithin(old, new, i, j - 1)
  <2>1. M \in CommonParts(old, new) /\ \A p \in M : p[1] <= i /\ p[2] <= j  BY DEF PartsWithin
  <2>2. /\ \A p \in M : p[1] \in 1..Len(old) /\ p[2] \in 1..Len(new) /\ old[p[1]] = new[p[2]]
        /\ \A p, q \in M : p # q => (p[1] < q[1] /\ p[2] < q[2]) \/ (q[1] < p[1] /\ q[2] < p[2])
    BY <2>1, PartsAre
  <2>3. CASE \A p \in M : p[1] # i  BY <2>1, <2>2, <2>3 DEF PartsWithin
  <2>4. CASE \E p \in M : p[1] = i
    <3>1. PICK p \in M : p[1] = i  BY <2>4
    <3>2. p[2] # j  BY <2>2, <3>1
    <3>3. ASSUME NEW q \in M PROVE q[2] # j
      <4>1. CASE q = p  BY <3>2, <4>1
      <4>2. CASE q # p
        <5>1. (p[1] < q[1] /\ p[2] < q[2]) \/ (q[1] < p[1] /\ q[2] < p[2])  BY <2>2, <4>2, Zenon
        <5>2. q[1] <= i /\ p[2] <= j  BY <2>1, Zenon
        <5>3. p[1] \in Nat /\ p[2] \in Nat /\ q[1] \in Nat /\ q[2] \in Nat  BY <2>2
        <5>4. ~(p[1] < q[1])  BY <3>1, <5>2, <5>3
        <5>. QED  BY <5>1, <5>2, <5>3, <5>4
      <4>. QED  BY <4>1, <4>2
    <3>. QED  BY <2>1, <2>2, <3>3 DEF PartsWithin
  <2>. QED  BY <2>3, <2>4
<1>5. \A M \in PartsWithin(old, new, i, j) : Cardinality(M) \in Nat  BY PartsAre DEF PartsWithin
<1>6. \A M \in PartsWithin(old, new, i, j) : Cardinality(M) <= (IF above > left THEN above ELSE left)
  BY <1>1, <1>4, <1>5 DEF IsBest
<1>. QED  BY <1>1, <1>3, <1>6 DEF IsBest

\* A row of commonLines has the best of the lines so far with each part of the new text.
LEMMA NextRowIsBest ==
    ASSUME NEW old \in Seq(STRING), NEW new \in Seq(STRING), NEW i \in 1..Len(old),
           NEW row, row \in [0..Len(new) -> Nat], \A j \in 0..Len(new) : IsBest(old, new, i - 1, j, row[j])
    PROVE  /\ NextRow(row, old[i], new) \in [0..Len(new) -> Nat]
           /\ \A j \in 0..Len(new) : IsBest(old, new, i, j, NextRow(row, old[i], new)[j])
<1>. DEFINE Value(j, left) == IF old[i] = new[j] THEN row[j - 1] + 1 ELSE IF row[j] > left THEN row[j] ELSE left
            Recursion(f) ==
              f = [j \in 0..Len(new) |->
                     IF j = 0 THEN 0
                     ELSE IF old[i] = new[j] THEN row[j - 1] + 1
                     ELSE IF row[j] > f[j - 1] THEN row[j] ELSE f[j - 1]]
            step == [p \in Nat \X Nat |-> IF p[1] \in 1..Len(new) THEN Value(p[1], p[2]) ELSE 0]
            next == CHOOSE f : Recursion(f)
<1>1. \A j \in 1..Len(new) : \A left \in Nat : Value(j, left) \in Nat
  <2>1. ASSUME NEW j \in 1..Len(new), NEW left \in Nat PROVE Value(j, left) \in Nat
    <3>1. j \in 0..Len(new) /\ j - 1 \in 0..Len(new)  OBVIOUS
    <3>2. row[j] \in Nat /\ row[j - 1] \in Nat  BY <3>1
    <3>3. row[j - 1] + 1 \in Nat  BY <3>2
    <3>. QED  BY <3>2, <3>3, Zenon
  <2>. QED  BY <2>1, Zenon
<1>2. \E f : Recursion(f)
  <2>1. step \in [Nat \X Nat -> Nat]
    <3>. HIDE DEF Value
    <3>1. ASSUME NEW p \in Nat \X Nat PROVE (IF p[1] \in 1..Len(new) THEN Value(p[1], p[2]) ELSE 0) \in Nat
      BY <1>1
    <3>. QED  BY <3>1
  <2>2. 0 \in Nat /\ Len(new) \in Nat  OBVIOUS
  <2>3. PICK f : Iterates(f, Len(new), Nat, 0, step)
    <3>. HIDE DEF step
    <3>. QED  BY <2>1, <2>2, Iteration
  <2>4. f \in [0..Len(new) -> Nat] /\ f[0] = 0 /\ \A j \in 1..Len(new) : f[j] = step[<<j, f[j - 1]>>]
    <3>. HIDE DEF step
    <3>. QED  BY <2>3 DEF Iterates
  <2>5. ASSUME NEW j \in 1..Len(new) PROVE f[j] = Value(j, f[j - 1])
    <3>1. j - 1 \in 0..Len(new)  OBVIOUS
    <3>2. f[j - 1] \in Nat /\ j \in Nat
      <4>1. f \in [0..Len(new) -> Nat]  BY <2>4
      <4>2. f[j - 1] \in Nat
        <5>. HIDE DEF Value, Recursion, step, next
        <5>. QED  BY ONLY <3>1, <4>1
      <4>3. j \in Nat  OBVIOUS
      <4>. QED  BY <4>2, <4>3
    <3>. HIDE DEF Value
    <3>3. step[<<j, f[j - 1]>>] = Value(j, f[j - 1])  BY <3>2
    <3>. HIDE DEF step
    <3>. QED  BY <2>4, <3>3
  <2>6. ASSUME NEW j \in 0..Len(new)
        PROVE  f[j] = IF j = 0 THEN 0
                      ELSE IF old[i] = new[j] THEN row[j - 1] + 1
                      ELSE IF row[j] > f[j - 1] THEN row[j] ELSE f[j - 1]
    <3>1. CASE j = 0  BY <2>4, <3>1
    <3>2. CASE j # 0
      <4>1. j \in 1..Len(new)  BY <3>2
      <4>. QED  BY <2>5, <3>2, <4>1
    <3>. QED  BY <3>1, <3>2
  <2>. QED  BY <2>4, <2>6
<1>3. Recursion(next)
  <2>. HIDE DEF Recursion
  <2>. QED  BY <1>2
<1>4. NextRow(row, old[i], new) = next  BY DEF NextRow
<1>5. next[0] = 0 /\ \A j \in 1..Len(new) : next[j] = Value(j, next[j - 1])
  <2>. HIDE DEF next
  <2>. QED  BY <1>3
<1>6. DOMAIN next = 0..Len(new) /\ next = [j \in 0..Len(new) |-> next[j]]
  <2>. HIDE DEF next
  <2>. QED  BY <1>3
<1>. HIDE DEF next, Recursion, step
<1>. DEFINE Done == {j \in Nat : j <= Len(new) => next[j] \in Nat /\ IsBest(old, new, i, j, next[j])}
<1>7. 0 \in Done  BY <1>5, BestOfNone
<1>8. ASSUME NEW j \in Nat, j \in Done PROVE j + 1 \in Done
  <2>. SUFFICES ASSUME j + 1 <= Len(new) PROVE next[j + 1] \in Nat /\ IsBest(old, new, i, j + 1, next[j + 1])
    OBVIOUS
  <2>1. j + 1 \in 1..Len(new) /\ j + 1 - 1 = j /\ j \in 0..Len(new) /\ j + 1 \in 0..Len(new)  OBVIOUS
  <2>2. next[j] \in Nat /\ IsBest(old, new, i, j, next[j])  BY <1>8
  <2>3. next[j + 1] = Value(j + 1, next[j])
    <3>. HIDE DEF Value
    <3>. QED  BY <1>5, <2>1
  <2>4. next[j + 1] \in Nat  BY <1>1, <2>1, <2>2, <2>3
  <2>5. IsBest(old, new, i - 1, j, row[j]) /\ IsBest(old, new, i - 1, j + 1, row[j + 1])  BY <2>1
  <2>6. CASE old[i] = new[j + 1]
    <3>1. IsBest(old, new, i, j + 1, row[j] + 1)  BY <2>1, <2>5, <2>6, BestOfEqual
    <3>. QED  BY <2>1, <2>3, <2>4, <2>6, <3>1
  <2>7. CASE old[i] # new[j + 1]
    <3>1. IsBest(old, new, i, j + 1, IF row[j + 1] > next[j] THEN row[j + 1] ELSE next[j])
      BY <2>1, <2>2, <2>5, <2>7, BestOfOther
    <3>. QED  BY <2>3, <2>4, <2>7, <3>1
  <2>. QED  BY <2>6, <2>7
<1>9. \A j \in Nat : j \in Done
  <2>. HIDE DEF Done
  <2>. QED  BY <1>7, <1>8, SetInduction
<1>10. \A j \in 0..Len(new) : next[j] \in Nat /\ IsBest(old, new, i, j, next[j])  BY <1>9
<1>11. next \in [0..Len(new) -> Nat]  BY <1>6, <1>10
<1>. QED  BY <1>4, <1>10, <1>11

\* commonLines finds the best of two texts.
LEMMA CommonLinesIsBest ==
    ASSUME NEW old \in Seq(STRING), NEW new \in Seq(STRING)
    PROVE  IsBest(old, new, Len(old), Len(new), CommonLines(old, new))
<1>. DEFINE Rows == [0..Len(new) -> Nat]
            Good(i) == {r \in Rows : \A j \in 0..Len(new) : IsBest(old, new, i, j, r[j])}
            First == [j \in 0..Len(new) |-> 0]
            Recursion(f) == f = [i \in 0..Len(old) |-> IF i = 0 THEN First ELSE NextRow(f[i - 1], old[i], new)]
            step == [p \in Nat \X Rows |->
                       IF p[1] \in 1..Len(old) /\ p[2] \in Good(p[1] - 1) THEN NextRow(p[2], old[p[1]], new) ELSE First]
            row == CHOOSE f : Recursion(f)
<1>1. First \in Rows /\ First \in Good(0)  BY BestOfNone
<1>2. ASSUME NEW i \in 1..Len(old), NEW r \in Good(i - 1) PROVE NextRow(r, old[i], new) \in Good(i)
  <2>1. r \in [0..Len(new) -> Nat] /\ \A j \in 0..Len(new) : IsBest(old, new, i - 1, j, r[j])  OBVIOUS
  <2>. QED  BY <2>1, NextRowIsBest
<1>3. \A i : Good(i) \subseteq Rows  OBVIOUS
<1>. HIDE DEF Good, First, Rows
<1>4. \E f : Recursion(f)
  <2>1. step \in [Nat \X Rows -> Rows]
    <3>1. ASSUME NEW p \in Nat \X Rows
          PROVE  (IF p[1] \in 1..Len(old) /\ p[2] \in Good(p[1] - 1) THEN NextRow(p[2], old[p[1]], new) ELSE First) \in Rows
      BY <1>1, <1>2, <1>3
    <3>. QED  BY <3>1
  <2>2. Len(old) \in Nat  OBVIOUS
  <2>3. PICK f : Iterates(f, Len(old), Rows, First, step)
    <3>. HIDE DEF step
    <3>. QED  BY <1>1, <2>1, <2>2, Iteration
  <2>4. f \in [0..Len(old) -> Rows] /\ f[0] = First /\ \A i \in 1..Len(old) : f[i] = step[<<i, f[i - 1]>>]
    <3>. HIDE DEF step
    <3>. QED  BY <2>3 DEF Iterates
  <2>. DEFINE Done == {i \in Nat : i <= Len(old) => f[i] \in Good(i)}
  <2>5. ASSUME NEW i \in 1..Len(old), f[i - 1] \in Good(i - 1)
        PROVE  f[i] = NextRow(f[i - 1], old[i], new) /\ f[i] \in Good(i)
    <3>1. f[i - 1] \in Rows /\ i \in Nat  BY <1>3, <2>5
    <3>2. step[<<i, f[i - 1]>>] = NextRow(f[i - 1], old[i], new)  BY <2>5, <3>1
    <3>. HIDE DEF step
    <3>3. f[i] = NextRow(f[i - 1], old[i], new)  BY <2>4, <3>2
    <3>. QED  BY <1>2, <2>5, <3>3
  <2>6. 0 \in Done
    <3>. HIDE DEF step
    <3>. QED  BY <1>1, <2>4
  <2>7. ASSUME NEW i \in Nat, i \in Done PROVE i + 1 \in Done
    <3>. SUFFICES ASSUME i + 1 <= Len(old) PROVE f[i + 1] \in Good(i + 1)  OBVIOUS
    <3>1. i + 1 \in 1..Len(old) /\ i + 1 - 1 = i  OBVIOUS
    <3>2. f[i] \in Good(i)  BY <2>7
    <3>. QED  BY <2>5, <3>1, <3>2
  <2>8. \A i \in Nat : i \in Done
    <3>. HIDE DEF Done
    <3>. QED  BY <2>6, <2>7, SetInduction
  <2>9. ASSUME NEW i \in 0..Len(old) PROVE f[i] = IF i = 0 THEN First ELSE NextRow(f[i - 1], old[i], new)
    <3>. HIDE DEF step
    <3>1. CASE i = 0  BY <2>4, <3>1
    <3>2. CASE i # 0
      <4>1. i \in 1..Len(old) /\ i - 1 \in Nat /\ i - 1 <= Len(old)  BY <3>2
      <4>2. f[i - 1] \in Good(i - 1)  BY <2>8, <4>1
      <4>. QED  BY <2>5, <3>2, <4>1, <4>2
    <3>. QED  BY <3>1, <3>2
  <2>. HIDE DEF step, Done
  <2>. QED  BY <2>4, <2>9
<1>5. Recursion(row)
  <2>. HIDE DEF Recursion
  <2>. QED  BY <1>4
<1>6. CommonLines(old, new) = row[Len(old)][Len(new)]  BY DEF CommonLines, First
<1>7. row[0] = First /\ \A i \in 1..Len(old) : row[i] = NextRow(row[i - 1], old[i], new)
  <2>. HIDE DEF row
  <2>. QED  BY <1>5
<1>. HIDE DEF row, Recursion, step
<1>. DEFINE Done == {i \in Nat : i <= Len(old) => row[i] \in Good(i)}
<1>8. 0 \in Done  BY <1>1, <1>7
<1>9. ASSUME NEW i \in Nat, i \in Done PROVE i + 1 \in Done
  <2>. SUFFICES ASSUME i + 1 <= Len(old) PROVE row[i + 1] \in Good(i + 1)  OBVIOUS
  <2>1. i + 1 \in 1..Len(old) /\ i + 1 - 1 = i /\ row[i] \in Good(i)  BY <1>9
  <2>2. row[i + 1] = NextRow(row[i], old[i + 1], new)  BY <1>7, <2>1
  <2>. QED  BY <1>2, <2>1, <2>2
<1>10. \A i \in Nat : i \in Done
  <2>. HIDE DEF Done
  <2>. QED  BY <1>8, <1>9, SetInduction
<1>11. Len(old) \in Nat /\ Len(new) \in 0..Len(new)  OBVIOUS
<1>12. row[Len(old)] \in Good(Len(old))  BY <1>10, <1>11
<1>. QED  BY <1>6, <1>11, <1>12 DEF Good

\* The best is the greatest size of a common part.
LEMMA BestIsMax ==
    ASSUME NEW old \in Seq(STRING), NEW new \in Seq(STRING)
    PROVE  Max({Cardinality(M) : M \in CommonParts(old, new)}) = CommonLines(old, new)
<1>. DEFINE sizes == {Cardinality(M) : M \in CommonParts(old, new)}
<1>1. CommonParts(old, new) = PartsWithin(old, new, Len(old), Len(new))
  <2>1. ASSUME NEW M \in CommonParts(old, new), NEW p \in M PROVE p[1] <= Len(old) /\ p[2] <= Len(new)
    BY PartsAre
  <2>. QED  BY <2>1 DEF PartsWithin
<1>2. IsBest(old, new, Len(old), Len(new), CommonLines(old, new))  BY CommonLinesIsBest
<1>3. CommonLines(old, new) \in sizes /\ \A n \in sizes : n <= CommonLines(old, new)
  BY <1>1, <1>2 DEF IsBest
<1>4. sizes \in SUBSET Nat /\ CommonLines(old, new) \in Nat  BY <1>2, PartsAre DEF IsBest
<1>. HIDE DEF sizes
<1>5. Max(sizes) \in sizes /\ \A n \in sizes : Max(sizes) >= n
  <2>1. \E x \in sizes : \A y \in sizes : x >= y  BY <1>3, <1>4
  <2>. QED  BY <2>1 DEF Max
<1>6. Max(sizes) = CommonLines(old, new)
  <2>1. Max(sizes) \in Nat /\ Max(sizes) <= CommonLines(old, new)  BY <1>3, <1>4, <1>5
  <2>2. Max(sizes) >= CommonLines(old, new)  BY <1>3, <1>5
  <2>. QED  BY <1>4, <2>1, <2>2
<1>. QED  BY <1>6 DEF sizes

\* What an edit is said to add and to remove.
LEMMA EditsCounted ==
    ASSUME NEW e \in Edits, counted = [edit |-> e, added |-> LinesOf(e).added, removed |-> LinesOf(e).removed]
    PROVE  LinesCountedTruly
<1>. SUFFICES ASSUME e.old # None, LinesOf(e).added # None
              PROVE  LET best == Max({Cardinality(M) : M \in CommonParts(e.old[1], e.new[1])})
                     IN  /\ LinesOf(e).added = <<Len(e.new[1]) - best>>
                         /\ LinesOf(e).removed = <<Len(e.old[1]) - best>>
  BY DEF LinesCountedTruly
<1>1. e.old \in Seq(Seq(STRING)) /\ e.new \in Seq(Seq(STRING)) /\ Len(e.new) = 1 /\ e.all \in BOOLEAN
  BY EditAssumption
<1>2. e.old[1] \in Seq(STRING) /\ e.new[1] \in Seq(STRING)  BY <1>1 DEF None
<1>3. ~(e.all \/ Len(e.old[1]) * Len(e.new[1]) > LineBudget)  BY DEF LinesOf
<1>4. LinesOf(e) = [added |-> <<Len(e.new[1]) - CommonLines(e.old[1], e.new[1])>>,
                    removed |-> <<Len(e.old[1]) - CommonLines(e.old[1], e.new[1])>>]
  BY <1>3 DEF LinesOf
<1>5. Max({Cardinality(M) : M \in CommonParts(e.old[1], e.new[1])}) = CommonLines(e.old[1], e.new[1])
  <2>. DEFINE old == e.old[1]
              new == e.new[1]
  <2>1. old \in Seq(STRING) /\ new \in Seq(STRING)  BY <1>2
  <2>. HIDE DEF old, new
  <2>2. Max({Cardinality(M) : M \in CommonParts(old, new)}) = CommonLines(old, new)  BY <2>1, BestIsMax
  <2>. QED  BY <2>2 DEF old, new
<1>6. /\ LinesOf(e).added = <<Len(e.new[1]) - CommonLines(e.old[1], e.new[1])>>
      /\ LinesOf(e).removed = <<Len(e.old[1]) - CommonLines(e.old[1], e.new[1])>>
  BY <1>4
<1>. QED  BY <1>5, <1>6

-----------------------------------------------------------------------------
(* The text of a patch *)

\* A line of a patch.
PatchLine == [kind : STRING, path : STRING]

\* The headers before a line are finitely many numbers of lines.
LEMMA HeadersAre ==
    ASSUME NEW text \in Seq(PatchLine), NEW to \in Nat
    PROVE  /\ FirstFile(text) \in {2, 3}
           /\ HeadersIn(text, to) \in SUBSET Nat
           /\ IsFiniteSet(HeadersIn(text, to)) /\ Cardinality(HeadersIn(text, to)) \in Nat
           /\ \A n \in HeadersIn(text, to) : n >= FirstFile(text) /\ n < to /\ IsHeader(text[n])
           /\ \A n \in Nat : n >= FirstFile(text) /\ n < to /\ IsHeader(text[n]) => n \in HeadersIn(text, to)
<1>1. FirstFile(text) \in {2, 3}  BY DEF FirstFile
<1>2. IsFiniteSet(FirstFile(text)..(to - 1))
  <2>1. FirstFile(text) \in Int /\ to - 1 \in Int  BY <1>1
  <2>. QED  BY <2>1, FS_Interval
<1>3. HeadersIn(text, to) \in SUBSET (FirstFile(text)..(to - 1))  BY DEF HeadersIn
<1>4. IsFiniteSet(HeadersIn(text, to))  BY <1>2, <1>3, FS_Subset
<1>5. Cardinality(HeadersIn(text, to)) \in Nat  BY <1>4, FS_CardinalityType
<1>6. \A n \in HeadersIn(text, to) : n \in Nat /\ n >= FirstFile(text) /\ n < to /\ IsHeader(text[n])
  BY <1>1 DEF HeadersIn
<1>7. \A n \in Nat : n >= FirstFile(text) /\ n < to /\ IsHeader(text[n]) => n \in HeadersIn(text, to)
  BY <1>1 DEF HeadersIn
<1>. QED  BY <1>1, <1>4, <1>5, <1>6, <1>7

\* A line that is no header adds none.
LEMMA NoHeaderMore ==
    ASSUME NEW text \in Seq(PatchLine), NEW to \in Nat, ~IsHeader(text[to])
    PROVE  HeadersIn(text, to + 1) = HeadersIn(text, to)
<1>1. \A n \in HeadersIn(text, to) : n \in Nat /\ n >= FirstFile(text) /\ n < to + 1 /\ IsHeader(text[n])
  BY HeadersAre
<1>2. \A n \in HeadersIn(text, to + 1) : n \in Nat /\ n >= FirstFile(text) /\ n < to + 1 /\ IsHeader(text[n])
  BY HeadersAre, to + 1 \in Nat
<1>3. \A n \in HeadersIn(text, to + 1) : n < to  BY <1>2
<1>4. HeadersIn(text, to) \subseteq HeadersIn(text, to + 1)  BY <1>1, HeadersAre, to + 1 \in Nat
<1>5. HeadersIn(text, to + 1) \subseteq HeadersIn(text, to)  BY <1>2, <1>3, HeadersAre
<1>. QED  BY <1>4, <1>5

\* A header adds itself.
LEMMA HeaderMore ==
    ASSUME NEW text \in Seq(PatchLine), NEW to \in Nat, IsHeader(text[to]), to >= FirstFile(text)
    PROVE  /\ HeadersIn(text, to + 1) = HeadersIn(text, to) \cup {to}
           /\ Cardinality(HeadersIn(text, to + 1)) = Cardinality(HeadersIn(text, to)) + 1
<1>1. \A n \in HeadersIn(text, to) : n \in Nat /\ n >= FirstFile(text) /\ n < to /\ n < to + 1 /\ IsHeader(text[n])
  BY HeadersAre
<1>2. \A n \in HeadersIn(text, to + 1) : n \in Nat /\ n >= FirstFile(text) /\ n < to + 1 /\ IsHeader(text[n])
  BY HeadersAre, to + 1 \in Nat
<1>3. \A n \in HeadersIn(text, to + 1) : n < to \/ n = to  BY <1>2
<1>4. to \in HeadersIn(text, to + 1)  BY HeadersAre, to + 1 \in Nat, to < to + 1
<1>5. HeadersIn(text, to) \subseteq HeadersIn(text, to + 1)  BY <1>1, HeadersAre, to + 1 \in Nat
<1>6. HeadersIn(text, to + 1) \subseteq HeadersIn(text, to) \cup {to}  BY <1>2, <1>3, HeadersAre
<1>7. to \notin HeadersIn(text, to) /\ IsFiniteSet(HeadersIn(text, to))  BY HeadersAre
<1>8. HeadersIn(text, to + 1) = HeadersIn(text, to) \cup {to}  BY <1>4, <1>5, <1>6
<1>. QED  BY <1>7, <1>8, FS_AddElement

\* Where there are headers one is the last.
LEMMA LastHeaderExists ==
    ASSUME NEW text \in Seq(PatchLine), NEW to \in Nat, HeadersIn(text, to) # {}
    PROVE  \E h \in HeadersIn(text, to) : IsLastHeader(text, h, to)
<1>. DEFINE H == HeadersIn(text, to)
<1>0. FirstFile(text) \in {2, 3}  BY HeadersAre
<1>1. H \in SUBSET Nat /\ IsFiniteSet(H) /\ FirstFile(text) \in Nat /\ \A n \in H : n >= FirstFile(text)
  <2>1. FirstFile(text) \in Nat  BY <1>0
  <2>. QED  BY <2>1, HeadersAre
<1>2. \A n \in Nat : n >= FirstFile(text) /\ n < to /\ IsHeader(text[n]) => n \in H  BY HeadersAre
<1>3. \E h \in H : \A n \in H : n <= h
  <2>. DEFINE U == {T \in SUBSET H : T = {} \/ \E h \in T : \A n \in T : n <= h}
  <2>1. {} \in U  OBVIOUS
  <2>2. ASSUME NEW T \in SUBSET H, NEW x \in H, T \in U, x \notin T PROVE T \cup {x} \in U
    <3>0. x \in Nat /\ \A n \in T : n \in Nat  BY <1>1
    <3>1. CASE T = {}  BY <3>0, <3>1
    <3>2. CASE T # {}
      <4>1. PICK h \in T : \A n \in T : n <= h  BY <2>2, <3>2
      <4>2. CASE x <= h  BY <4>1, <4>2
      <4>3. CASE ~(x <= h)
        <5>1. \A n \in T \cup {x} : n <= x  BY <3>0, <4>1, <4>3
        <5>. QED  BY <5>1
      <4>. QED  BY <4>2, <4>3
    <3>. QED  BY <3>1, <3>2
  <2>3. H \in U
    <3>. HIDE DEF U, H
    <3>. QED  BY <1>1, <2>1, <2>2, SetGrowth
  <2>. QED  BY <2>3
<1>4. PICK h \in H : \A n \in H : n <= h  BY <1>3
<1>5. ASSUME NEW m \in (h + 1)..(to - 1), IsHeader(text[m]) PROVE FALSE
  <2>1. h \in Nat /\ h >= FirstFile(text)  BY <1>1
  <2>2. m \in Nat /\ m >= FirstFile(text) /\ m < to /\ m > h  BY <1>1, <2>1
  <2>3. m \in H  BY <1>2, <1>5, <2>2
  <2>. QED  BY <1>4, <2>1, <2>2, <2>3
<1>. QED  BY <1>4, <1>5 DEF IsLastHeader

\* Which there is only one of, and the rank of the last is their number.
LEMMA RanksAre ==
    ASSUME NEW text \in Seq(PatchLine), NEW to \in Nat, NEW h \in HeadersIn(text, to)
    PROVE  /\ Rank(text, h) \in 1..Cardinality(HeadersIn(text, to))
           /\ IsLastHeader(text, h, to) => Rank(text, h) = Cardinality(HeadersIn(text, to))
           /\ ~IsLastHeader(text, h, to) => Rank(text, h) < Cardinality(HeadersIn(text, to))
           /\ \A g \in HeadersIn(text, to) :
                IsLastHeader(text, h, to) => IF g = h THEN TRUE ELSE g < h /\ ~IsLastHeader(text, g, to)
<1>. DEFINE H == HeadersIn(text, to)
            B == HeadersIn(text, h + 1)
<1>0. FirstFile(text) \in {2, 3} /\ HeadersIn(text, to) \in SUBSET Nat  BY HeadersAre
<1>1. h \in Nat /\ h < to /\ h >= FirstFile(text) /\ FirstFile(text) \in Nat /\ IsHeader(text[h])
  <2>1. FirstFile(text) \in Nat  BY <1>0
  <2>2. h \in Nat  BY <1>0
  <2>3. h < to /\ h >= FirstFile(text) /\ IsHeader(text[h])  BY HeadersAre
  <2>. QED  BY <2>1, <2>2, <2>3
<1>2. /\ H \in SUBSET Nat /\ IsFiniteSet(H) /\ Cardinality(H) \in Nat
      /\ \A n \in H : n >= FirstFile(text) /\ n < to /\ IsHeader(text[n])
      /\ \A n \in Nat : n >= FirstFile(text) /\ n < to /\ IsHeader(text[n]) => n \in H
  BY HeadersAre
<1>3. h + 1 \in Nat  BY <1>1
<1>4. /\ B \in SUBSET Nat /\ IsFiniteSet(B) /\ Cardinality(B) \in Nat
      /\ \A n \in B : n >= FirstFile(text) /\ n < h + 1 /\ IsHeader(text[n])
      /\ \A n \in Nat : n >= FirstFile(text) /\ n < h + 1 /\ IsHeader(text[n]) => n \in B
  BY <1>3, HeadersAre
<1>. HIDE DEF H, B
<1>5. B \subseteq H
  <2>1. ASSUME NEW n \in B PROVE n \in H
    <3>1. n \in Nat /\ n < to  BY <1>1, <1>4
    <3>. QED  BY <1>2, <1>4, <3>1
  <2>. QED  BY <2>1
<1>6. h \in B
  <2>1. h < h + 1  BY <1>1
  <2>. QED  BY <1>1, <1>4, <2>1
<1>7. Cardinality(B) # 0  BY <1>4, <1>6, FS_EmptySet
<1>8. Cardinality(B) <= Cardinality(H) /\ (Cardinality(B) = Cardinality(H) => B = H)  BY <1>2, <1>5, FS_Subset
<1>9. ASSUME IsLastHeader(text, h, to), NEW g \in H, g # h PROVE g < h /\ ~IsLastHeader(text, g, to)
  <2>1. g \in Nat /\ g < to /\ IsHeader(text[g])  BY <1>2
  <2>2. ~(g > h)
    <3>. SUFFICES ASSUME g > h PROVE FALSE  OBVIOUS
    <3>1. g \in (h + 1)..(to - 1)  BY <1>1, <2>1
    <3>. QED  BY <1>9, <2>1, <3>1 DEF IsLastHeader
  <2>3. g < h  BY <1>1, <1>9, <2>1, <2>2
  <2>4. h \in (g + 1)..(to - 1)  BY <1>1, <2>1, <2>3
  <2>. QED  BY <1>1, <2>3, <2>4 DEF IsLastHeader
<1>10. ASSUME IsLastHeader(text, h, to) PROVE B = H
  <2>1. \A n \in H : n \in Nat /\ n < h + 1  BY <1>1, <1>2, <1>9, <1>10
  <2>2. H \subseteq B  BY <1>2, <1>4, <2>1
  <2>. QED  BY <1>5, <2>2
<1>11. ASSUME ~IsLastHeader(text, h, to) PROVE B # H
  <2>1. h \in H  BY DEF H
  <2>2. PICK m \in (h + 1)..(to - 1) : IsHeader(text[m])  BY <1>11, <2>1 DEF IsLastHeader, H
  <2>3. m \in Nat /\ m >= FirstFile(text) /\ m < to /\ ~(m < h + 1)  BY <1>1, <2>2
  <2>4. m \in H /\ m \notin B  BY <1>2, <1>4, <2>2, <2>3
  <2>. QED  BY <2>4
<1>12. Rank(text, h) = Cardinality(B)  BY DEF Rank, B
<1>13. Cardinality(B) \in 1..Cardinality(H)  BY <1>2, <1>4, <1>7, <1>8
<1>14. ~IsLastHeader(text, h, to) => Cardinality(B) < Cardinality(H)  BY <1>2, <1>4, <1>8, <1>11
<1>. QED  BY <1>9, <1>10, <1>12, <1>13, <1>14 DEF H

\* The body of a file lies after its header; another header ends it for good.
LEMMA BodyIs ==
    ASSUME NEW text \in Seq(PatchLine), NEW to \in Nat, NEW h \in HeadersIn(text, to)
    PROVE  /\ h \in Nat /\ BodyStart(text, h) \in {h + 1, h + 2} /\ (BodyStart(text, h) = h + 2 <=> Renamed(text, h))
           /\ BodyOf(text, h, to) \in SUBSET Nat
           /\ \A n \in BodyOf(text, h, to) : n >= BodyStart(text, h) /\ n < to /\ ~IsHeader(text[n])
           /\ IsFiniteSet(BodyOf(text, h, to)) /\ \A k : Number(text, h, to, k) \in Nat
           /\ IsLastHeader(text, h, to) =>
                \A n \in Nat : n >= BodyStart(text, h) /\ n < to => n \in BodyOf(text, h, to)
           /\ \A stop \in Nat : (\E m \in (h + 1)..to : IsHeader(text[m])) /\ stop >= to =>
                BodyOf(text, h, stop) = BodyOf(text, h, to)
<1>1. h \in Nat /\ h < to  BY HeadersAre
<1>2. BodyStart(text, h) \in {h + 1, h + 2} /\ (BodyStart(text, h) = h + 2 <=> Renamed(text, h))
  BY <1>1 DEF BodyStart
<1>3. PICK s \in Nat : s = BodyStart(text, h) /\ s > h  BY <1>1, <1>2
<1>4. ASSUME NEW stop \in Nat
      PROVE  BodyOf(text, h, stop) =
               {n \in s..(stop - 1) : \A m \in (h + 1)..n : ~IsHeader(text[m])}
  BY <1>3 DEF BodyOf
<1>5. ASSUME NEW n \in BodyOf(text, h, to)
      PROVE  n \in Nat /\ n >= s /\ n < to /\ ~IsHeader(text[n])
  <2>1. n \in s..(to - 1) /\ \A m \in (h + 1)..n : ~IsHeader(text[m])  BY <1>4
  <2>2. n \in (h + 1)..n  BY <1>1, <1>3, <2>1
  <2>. QED  BY <1>3, <2>1, <2>2
<1>6. IsFiniteSet(BodyOf(text, h, to))
  <2>1. IsFiniteSet(s..(to - 1))  BY <1>3, FS_Interval, to - 1 \in Int, s \in Int
  <2>2. BodyOf(text, h, to) \in SUBSET (s..(to - 1))  BY <1>4
  <2>. QED  BY <2>1, <2>2, FS_Subset
<1>7. ASSUME IsLastHeader(text, h, to), NEW n \in Nat, n >= s, n < to PROVE n \in BodyOf(text, h, to)
  <2>1. n \in s..(to - 1)  BY <1>3, <1>7
  <2>2. \A m \in (h + 1)..n : m \in (h + 1)..(to - 1)  BY <1>1, <1>7
  <2>. QED  BY <1>4, <1>7, <2>1, <2>2 DEF IsLastHeader
<1>8. ASSUME NEW stop \in Nat, NEW m \in (h + 1)..to, IsHeader(text[m]), stop >= to
      PROVE  BodyOf(text, h, stop) = BodyOf(text, h, to)
  <2>1. ASSUME NEW n \in Nat, n >= s, \A l \in (h + 1)..n : ~IsHeader(text[l]) PROVE n < to
    <3>1. m \notin (h + 1)..n  BY <1>8, <2>1
    <3>2. n < m  BY <1>1, <1>3, <3>1
    <3>. QED  BY <1>1, <3>2
  <2>2. \A n \in s..(stop - 1) : n \in Nat /\ n >= s  BY <1>3
  <2>3. \A n \in s..(to - 1) : n \in s..(stop - 1)  BY <1>3, <1>8
  <2>4. \A n \in s..(stop - 1) : (\A l \in (h + 1)..n : ~IsHeader(text[l])) => n \in s..(to - 1)
    BY <1>3, <2>1, <2>2
  <2>. QED  BY <1>4, <2>3, <2>4
<1>9. \A stop \in Nat : (\E m \in (h + 1)..to : IsHeader(text[m])) /\ stop >= to =>
         BodyOf(text, h, stop) = BodyOf(text, h, to)
  BY <1>8
<1>10. \A n \in BodyOf(text, h, to) : n >= BodyStart(text, h) /\ n < to /\ ~IsHeader(text[n])  BY <1>3, <1>5
<1>11. BodyOf(text, h, to) \in SUBSET Nat  BY <1>5
<1>12. IsLastHeader(text, h, to) => \A n \in Nat : n >= BodyStart(text, h) /\ n < to => n \in BodyOf(text, h, to)
  BY <1>3, <1>7
<1>13. ASSUME NEW k PROVE Number(text, h, to, k) \in Nat
  <2>1. IsFiniteSet({n \in BodyOf(text, h, to) : text[n].kind = k})  BY <1>6, FS_Subset
  <2>. QED  BY <2>1, FS_CardinalityType DEF Number
<1>. QED  BY <1>1, <1>2, <1>6, <1>9, <1>10, <1>11, <1>12, <1>13

\* So what was said of the file remains true.
LEMMA FileStays ==
    ASSUME NEW text \in Seq(PatchLine), NEW to \in Nat, NEW h \in HeadersIn(text, to), NEW stop \in Nat, stop >= to,
           NEW m \in (h + 1)..to, IsHeader(text[m])
    PROVE  /\ WellFormed(text, h, stop) <=> WellFormed(text, h, to)
           /\ FileAt(text, h, stop) = FileAt(text, h, to)
<1>1. BodyOf(text, h, stop) = BodyOf(text, h, to)  BY BodyIs
<1>. QED  BY <1>1 DEF WellFormed, FileAt, Number

\* The next line of the last file is in its body.
LEMMA BodyMore ==
    ASSUME NEW text \in Seq(PatchLine), NEW to \in Nat, NEW h, IsLastHeader(text, h, to),
           BodyStart(text, h) <= to, ~IsHeader(text[to])
    PROVE  /\ HeadersIn(text, to + 1) = HeadersIn(text, to)
           /\ \A g : IsLastHeader(text, g, to + 1) <=> IsLastHeader(text, g, to)
           /\ BodyOf(text, h, to + 1) = BodyOf(text, h, to) \cup {to}
           /\ \A stop \in Nat : stop > to => to \in BodyOf(text, h, stop) /\ BodyOf(text, h, to) \subseteq BodyOf(text, h, stop)
           /\ \A k : Number(text, h, to + 1, k) = Number(text, h, to, k) + (IF text[to].kind = k THEN 1 ELSE 0)
<1>1. h \in HeadersIn(text, to) /\ h \in Nat /\ \A m \in (h + 1)..(to - 1) : ~IsHeader(text[m])
  BY HeadersAre DEF IsLastHeader
<1>2. HeadersIn(text, to + 1) = HeadersIn(text, to)  BY NoHeaderMore
<1>3. \A g : IsLastHeader(text, g, to + 1) <=> IsLastHeader(text, g, to)
  <2>1. ASSUME NEW g \in HeadersIn(text, to)
        PROVE  (\A m \in (g + 1)..(to + 1 - 1) : ~IsHeader(text[m])) <=> (\A m \in (g + 1)..(to - 1) : ~IsHeader(text[m]))
    <3>1. g \in Nat /\ g < to  BY HeadersAre
    <3>2. \A m \in (g + 1)..(to + 1 - 1) : m = to \/ m \in (g + 1)..(to - 1)  BY <3>1
    <3>3. \A m \in (g + 1)..(to - 1) : m \in (g + 1)..(to + 1 - 1)  BY <3>1
    <3>. QED  BY <3>2, <3>3
  <2>. QED  BY <1>2, <2>1 DEF IsLastHeader
<1>4. PICK s \in Nat : s = BodyStart(text, h) /\ s > h /\ s <= to  BY <1>1, BodyIs
<1>5. \A n \in (h + 1)..to : ~IsHeader(text[n])
  <2>1. \A n \in (h + 1)..to : n = to \/ n \in (h + 1)..(to - 1)  BY <1>1
  <2>. QED  BY <1>1, <2>1
<1>6. ASSUME NEW stop \in Nat, stop > to
      PROVE  to \in BodyOf(text, h, stop) /\ BodyOf(text, h, to) \subseteq BodyOf(text, h, stop)
  <2>1. to \in s..(stop - 1)  BY <1>4, <1>6
  <2>2. \A n \in s..(to - 1) : n \in s..(stop - 1)  BY <1>4, <1>6
  <2>. QED  BY <1>4, <1>5, <2>1, <2>2 DEF BodyOf
<1>7. BodyOf(text, h, to + 1) = BodyOf(text, h, to) \cup {to}
  <2>1. \A n \in BodyOf(text, h, to + 1) : n \in s..to /\ (n = to \/ n \in s..(to - 1))  BY <1>4 DEF BodyOf
  <2>2. \A n \in BodyOf(text, h, to + 1) : n = to \/ n \in BodyOf(text, h, to)  BY <1>4, <2>1 DEF BodyOf
  <2>3. to + 1 \in Nat /\ to + 1 > to  OBVIOUS
  <2>. QED  BY <1>6, <2>2, <2>3
<1>8. ASSUME NEW k
      PROVE  Number(text, h, to + 1, k) = Number(text, h, to, k) + (IF text[to].kind = k THEN 1 ELSE 0)
  <2>. DEFINE S == {n \in BodyOf(text, h, to) : text[n].kind = k}
  <2>1. IsFiniteSet(S) /\ Number(text, h, to, k) = Cardinality(S) /\ Cardinality(S) \in Nat
    <3>1. IsFiniteSet(S)
      <4>1. IsFiniteSet(BodyOf(text, h, to))  BY <1>1, BodyIs
      <4>. QED  BY <4>1, FS_Subset
    <3>2. Number(text, h, to, k) = Cardinality(S)  BY DEF Number
    <3>. QED  BY <3>1, <3>2, FS_CardinalityType
  <2>2. to \notin S
    <3>1. \A n \in BodyOf(text, h, to) : n < to  BY <1>1, BodyIs
    <3>. QED  BY <3>1
  <2>3. Number(text, h, to + 1, k) = Cardinality({n \in BodyOf(text, h, to + 1) : text[n].kind = k})  BY DEF Number
  <2>4. CASE text[to].kind = k
    <3>1. {n \in BodyOf(text, h, to + 1) : text[n].kind = k} = S \cup {to}  BY <1>7, <2>4
    <3>2. Cardinality(S \cup {to}) = Cardinality(S) + 1  BY <2>1, <2>2, FS_AddElement
    <3>. QED  BY <2>1, <2>3, <2>4, <3>1, <3>2
  <2>5. CASE text[to].kind # k
    <3>1. {n \in BodyOf(text, h, to + 1) : text[n].kind = k} = S  BY <1>7, <2>5
    <3>2. Number(text, h, to + 1, k) = Cardinality(S)  BY <2>3, <3>1
    <3>. HIDE DEF S
    <3>. QED  BY <2>1, <2>5, <3>2
  <2>. QED  BY <2>4, <2>5
<1>. QED  BY <1>2, <1>3, <1>6, <1>7, <1>8

\* Later lines add headers and take none away.
LEMMA HeadersGrow ==
    ASSUME NEW text \in Seq(PatchLine), NEW to \in Nat, NEW stop \in Nat, to <= stop
    PROVE  HeadersIn(text, to) \subseteq HeadersIn(text, stop)
<1>1. \A n \in HeadersIn(text, to) : n \in Nat /\ n >= FirstFile(text) /\ n < to /\ IsHeader(text[n])
  BY HeadersAre
<1>2. \A n \in HeadersIn(text, to) : n < stop  BY <1>1
<1>. QED  BY <1>1, <1>2, HeadersAre

\* The paths of a patch stand in its headers and in the moves after them.
LEMMA PathLinesAre ==
    ASSUME NEW text \in Seq(PatchLine), NEW to \in Nat
    PROVE  /\ PathLines(text, to) \in SUBSET Nat
           /\ \A n \in PathLines(text, to) :
                n \in HeadersIn(text, to) \/ (n - 1 \in HeadersIn(text, to) /\ Renamed(text, n - 1))
           /\ \A h \in HeadersIn(text, to) :
                h \in PathLines(text, to) /\ (Renamed(text, h) => h + 1 \in PathLines(text, to))
<1>1. PathLines(text, to) \in SUBSET Nat  BY DEF PathLines
<1>2. \A n \in PathLines(text, to) :
         n \in HeadersIn(text, to) \/ (n - 1 \in HeadersIn(text, to) /\ Renamed(text, n - 1))
  BY DEF PathLines
<1>3. ASSUME NEW h \in HeadersIn(text, to)
      PROVE  h \in PathLines(text, to) /\ (Renamed(text, h) => h + 1 \in PathLines(text, to))
  <2>1. h \in Nat /\ h < to /\ h >= FirstFile(text) /\ FirstFile(text) \in {2, 3}  BY HeadersAre
  <2>2. h \in 1..to /\ h + 1 \in 1..to /\ h + 1 - 1 = h  BY <2>1
  <2>. QED  BY <2>2 DEF PathLines
<1>. QED  BY <1>1, <1>2, <1>3

\* Where the headers are the same the paths are.
LEMMA SamePaths ==
    ASSUME NEW text \in Seq(PatchLine), NEW to \in Nat, NEW stop \in Nat, HeadersIn(text, to) = HeadersIn(text, stop)
    PROVE  /\ PathLines(text, to) = PathLines(text, stop)
           /\ PathsDiffer(text, to) <=> PathsDiffer(text, stop)
<1>. DEFINE H == HeadersIn(text, to)
<1>1. ASSUME NEW a \in Nat, NEW b \in Nat, HeadersIn(text, a) = HeadersIn(text, b), NEW n \in PathLines(text, a)
      PROVE  n \in PathLines(text, b)
  <2>1. CASE n \in HeadersIn(text, a)  BY <1>1, <2>1, PathLinesAre
  <2>2. CASE n - 1 \in HeadersIn(text, a) /\ Renamed(text, n - 1)
    <3>1. n - 1 \in HeadersIn(text, b) /\ Renamed(text, n - 1)  BY <1>1, <2>2
    <3>2. n - 1 + 1 \in PathLines(text, b)  BY <3>1, PathLinesAre
    <3>3. n \in Nat  BY <1>1, PathLinesAre
    <3>4. n - 1 + 1 = n  BY <3>3
    <3>. QED  BY <3>2, <3>4
  <2>. QED  BY <1>1, <2>1, <2>2, PathLinesAre
<1>2. PathLines(text, to) = PathLines(text, stop)
  <2>1. PathLines(text, to) \subseteq PathLines(text, stop)  BY <1>1, Zenon
  <2>2. PathLines(text, stop) \subseteq PathLines(text, to)  BY <1>1, Zenon
  <2>. QED  BY <2>1, <2>2
<1>. QED  BY <1>2 DEF PathsDiffer

\* Paths are not lost either.
LEMMA PathsGrow ==
    ASSUME NEW text \in Seq(PatchLine), NEW to \in Nat, NEW stop \in Nat, to <= stop
    PROVE  PathLines(text, to) \subseteq PathLines(text, stop)
<1>1. ASSUME NEW n \in PathLines(text, to) PROVE n \in PathLines(text, stop)
  <2>0. HeadersIn(text, to) \subseteq HeadersIn(text, stop)  BY HeadersGrow
  <2>1. CASE n \in HeadersIn(text, to)  BY <2>0, <2>1, PathLinesAre
  <2>2. CASE n - 1 \in HeadersIn(text, to) /\ Renamed(text, n - 1)
    <3>1. n - 1 \in HeadersIn(text, stop) /\ Renamed(text, n - 1)  BY <2>0, <2>2
    <3>2. n - 1 + 1 \in PathLines(text, stop)  BY <3>1, PathLinesAre
    <3>3. n \in Nat  BY <1>1, PathLinesAre
    <3>4. n - 1 + 1 = n  BY <3>3
    <3>. QED  BY <3>2, <3>4
  <2>. QED  BY <1>1, <2>1, <2>2, PathLinesAre
<1>. QED  BY <1>1

\* A header adds its own path and that of its move.
LEMMA PathMore ==
    ASSUME NEW text \in Seq(PatchLine), NEW to \in Nat, NEW stop \in Nat,
           HeadersIn(text, stop) = HeadersIn(text, to) \cup {to},
           NEW n \in PathLines(text, stop)
    PROVE  n \in PathLines(text, to) \/ n = to \/ (n = to + 1 /\ Renamed(text, to))
<1>0. n \in Nat  BY PathLinesAre
<1>1. CASE n \in HeadersIn(text, stop)
  <2>1. n \in HeadersIn(text, to) \/ n = to  BY <1>1
  <2>. QED  BY <2>1, PathLinesAre
<1>2. CASE n - 1 \in HeadersIn(text, stop) /\ Renamed(text, n - 1)
  <2>1. CASE n - 1 = to  BY <1>0, <1>2, <2>1
  <2>2. CASE n - 1 \in HeadersIn(text, to)
    <3>1. n - 1 + 1 \in PathLines(text, to)  BY <1>2, <2>2, PathLinesAre
    <3>2. n - 1 + 1 = n  BY <1>0
    <3>. QED  BY <3>1, <3>2
  <2>. QED  BY <1>2, <2>1, <2>2
<1>. QED  BY <1>1, <1>2, PathLinesAre

\* The paths of files.
SeenIn(files) == (UNION {{files[n].path, files[n].from} : n \in DOMAIN files}) \ {""}

\* The paths of the files read so far are those of the headers so far.
LEMMA SeenAre ==
    ASSUME NEW text \in Seq(PatchLine), NEW to \in Nat, NEW within, NEW F, NEW files \in Seq(F),
           ReadSoFar(text, to, NoneOpen, within, files)
    PROVE  /\ \A n \in PathLines(text, to) : text[n].path \in SeenIn(files)
           /\ \A p \in SeenIn(files) : \E n \in PathLines(text, to) : text[n].path = p
<1>. DEFINE H == HeadersIn(text, to)
<1>1. /\ \A h \in H : files[Rank(text, h)] = FileAt(text, h, to)
      /\ \A n \in DOMAIN files : \E h \in H : files[n] = FileAt(text, h, to)
      /\ Len(files) = Cardinality(H) - 0
      /\ PathsDiffer(text, to)
  BY DEF ReadSoFar
<1>2. Len(files) = Cardinality(H)
  <2>1. Cardinality(H) \in Nat  BY HeadersAre
  <2>. QED  BY <1>1, <2>1
<1>3. ASSUME NEW h \in H
      PROVE  /\ h \in Nat
             /\ FileAt(text, h, to).path = IF Renamed(text, h) THEN text[h + 1].path ELSE text[h].path
             /\ FileAt(text, h, to).from = IF Renamed(text, h) THEN text[h].path ELSE ""
  <2>1. h \in Nat  BY HeadersAre
  <2>2. BodyStart(text, h) - 1 = IF Renamed(text, h) THEN h + 1 ELSE h  BY <2>1 DEF BodyStart
  <2>. QED  BY <2>1, <2>2 DEF FileAt
<1>4. ASSUME NEW n \in PathLines(text, to) PROVE text[n].path \in SeenIn(files)
  <2>1. n \in Nat /\ text[n].path # ""  BY <1>1, PathLinesAre DEF PathsDiffer
  <2>2. PICK h \in H : n = h \/ (n = h + 1 /\ Renamed(text, h))
    <3>1. CASE n \in H  BY <3>1
    <3>2. CASE n - 1 \in H /\ Renamed(text, n - 1)
      <4>0. n \in Nat  BY PathLinesAre
      <4>1. n = (n - 1) + 1  BY <4>0
      <4>. QED  BY <3>2, <4>1
    <3>. QED  BY <3>1, <3>2, PathLinesAre
  <2>3. Rank(text, h) \in DOMAIN files
    <3>1. DOMAIN files = 1..Len(files)  OBVIOUS
    <3>. QED  BY <1>2, <3>1, RanksAre
  <2>4. text[n].path \in {FileAt(text, h, to).path, FileAt(text, h, to).from}  BY <1>3, <2>2
  <2>5. files[Rank(text, h)] = FileAt(text, h, to)  BY <1>1
  <2>. QED  BY <2>1, <2>3, <2>4, <2>5 DEF SeenIn
<1>5. ASSUME NEW p \in SeenIn(files) PROVE \E n \in PathLines(text, to) : text[n].path = p
  <2>1. PICK i \in DOMAIN files : p = files[i].path \/ p = files[i].from  BY DEF SeenIn
  <2>2. p # ""  BY DEF SeenIn
  <2>3. PICK h \in H : files[i] = FileAt(text, h, to)  BY <1>1
  <2>4. h \in PathLines(text, to) /\ (Renamed(text, h) => h + 1 \in PathLines(text, to))  BY PathLinesAre
  <2>5. CASE Renamed(text, h)  BY <1>3, <2>1, <2>3, <2>4, <2>5
  <2>6. CASE ~Renamed(text, h)  BY <1>3, <2>1, <2>2, <2>3, <2>4, <2>6
  <2>. QED  BY <2>5, <2>6
<1>. QED  BY <1>4, <1>5

-----------------------------------------------------------------------------
(* What is read of a patch, line by line *)

\* The frame of a patch, and an environment that is named in it.
Framed(text) == Len(text) > 1 /\ text[Len(text)].kind = "end"

EnvironmentNamed(text) == Len(text) > 2 /\ text[2].kind = "environment" /\ text[2].path # ""

\* Before the first header nothing is read.
LEMMA NoHeaderYet ==
    ASSUME NEW text \in Seq(PatchLine), Framed(text), NEW to \in {2, 3}, to = 3 => EnvironmentNamed(text),
           NEW within, NEW files, files = <<>>
    PROVE  ReadSoFar(text, to, NoneOpen, within, files)
<1>0. FirstFile(text) \in {2, 3} /\ to \in Nat  BY HeadersAre
<1>1. HeadersIn(text, to) = {}
  <2>1. \A n \in HeadersIn(text, to) : n \in Nat /\ n >= FirstFile(text) /\ n < to  BY <1>0, HeadersAre
  <2>2. CASE to = 2  BY <1>0, <2>1, <2>2
  <2>3. CASE to = 3
    <3>1. FirstFile(text) = 3  BY <2>3 DEF EnvironmentNamed, FirstFile
    <3>. QED  BY <2>1, <2>3, <3>1
  <2>. QED  BY <2>2, <2>3
<1>2. PathLines(text, to) = {}  BY <1>0, <1>1, PathLinesAre
<1>3. PathsDiffer(text, to)  BY <1>2 DEF PathsDiffer
<1>4. Cardinality(HeadersIn(text, to)) = 0  BY <1>1, FS_EmptySet
<1>5. Len(files) = 0 /\ DOMAIN files = {}
  <2>1. files = <<>>  OBVIOUS
  <2>. QED  BY <2>1
<1>6. to \in 2..Len(text) /\ Len(text) > 1 /\ text[Len(text)].kind = "end"
  <2>1. text[Len(text)].kind = "end" /\ Len(text) > 1  BY DEF Framed
  <2>2. to = 3 => Len(text) > 2  BY DEF EnvironmentNamed
  <2>3. Len(text) \in Nat  OBVIOUS
  <2>4. to \in 2..Len(text)
    <3>1. Len(text) > 1  BY <2>1
    <3>. QED  BY <2>2, <2>3, <3>1
  <2>. QED  BY <2>1, <2>4
<1>7. to <= FirstFile(text)
  <2>1. to = 3 => FirstFile(text) = 3  BY DEF EnvironmentNamed, FirstFile
  <2>. QED  BY <1>0, <2>1
<1>8. to > 2 /\ FirstFile(text) = 3 => text[2].path # ""
  <2>1. to > 2 => to = 3  OBVIOUS
  <2>. QED  BY <2>1 DEF EnvironmentNamed
<1>9. Len(files) = Cardinality(HeadersIn(text, to)) - (IF NoneOpen = NoneOpen THEN 0 ELSE 1)  BY <1>4, <1>5
<1>. QED  BY <1>1, <1>3, <1>5, <1>6, <1>7, <1>8, <1>9 DEF ReadSoFar

\* A header where a file may begin follows the environment, if one is named.
LEMMA HeaderHere ==
    ASSUME NEW text \in Seq(PatchLine), NEW to \in Nat, NEW within, NEW files,
           ReadSoFar(text, to, NoneOpen, within, files), to < Len(text),
           text[to].kind = "environment" => to > 2
    PROVE  /\ to >= FirstFile(text)
           /\ HeadersIn(text, to) = {} => to = FirstFile(text)
<1>0. FirstFile(text) \in {2, 3}  BY HeadersAre
<1>1. CASE HeadersIn(text, to) = {}
  <2>1. to <= FirstFile(text) /\ to \in 2..Len(text)  BY <1>1 DEF ReadSoFar
  <2>2. CASE to = 2
    <3>1. FirstFile(text) = 2  BY <2>2 DEF FirstFile
    <3>. QED  BY <2>2, <3>1
  <2>3. CASE to # 2  BY <1>0, <2>1, <2>3
  <2>. QED  BY <2>2, <2>3
<1>2. CASE HeadersIn(text, to) # {}
  <2>1. PICK n \in HeadersIn(text, to) : TRUE  BY <1>2
  <2>2. n \in Nat /\ n >= FirstFile(text) /\ n < to  BY HeadersAre
  <2>. QED  BY <1>0, <1>2, <2>2
<1>. QED  BY <1>1, <1>2

\* A path that is not valid is that of an earlier line, or none.
LEMMA PathTaken ==
    ASSUME NEW text \in Seq(PatchLine), NEW to \in Nat, NEW within, NEW F, NEW files \in Seq(F),
           ReadSoFar(text, to, NoneOpen, within, files), IsHeader(text[to]), to < Len(text),
           \/ ~ValidPath(text[to].path, SeenIn(files))
           \/ Renamed(text, to) /\ ~ValidPath(text[to + 1].path, SeenIn(files) \cup {text[to].path})
    PROVE  ~IsPatchText(text)
<1>. SUFFICES ASSUME IsPatchText(text) PROVE FALSE  OBVIOUS
<1>. DEFINE P == PathLines(text, Len(text))
<1>1. Len(text) \in Nat /\ to <= Len(text)  OBVIOUS
<1>2. \A m, n \in P : text[m].path # "" /\ (text[m].path = text[n].path => m = n)
  BY DEF IsPatchText, PathsDiffer
<1>3. PathLines(text, to) \subseteq P  BY <1>1, PathsGrow
<1>4. to \in HeadersIn(text, Len(text))
  <2>1. text[to].kind # "environment"  BY DEF IsHeader
  <2>2. to >= FirstFile(text)  BY <2>1, HeaderHere
  <2>. QED  BY <1>1, <2>2, HeadersAre
<1>5. to \in P /\ (Renamed(text, to) => to + 1 \in P)  BY <1>1, <1>4, PathLinesAre
<1>6. \A n \in PathLines(text, to) : n # to /\ n # to + 1
  <2>1. ASSUME NEW n \in PathLines(text, to) PROVE n # to /\ n # to + 1
    <3>1. n \in Nat  BY PathLinesAre
    <3>2. CASE n \in HeadersIn(text, to)
      <4>1. n < to  BY <3>2, HeadersAre
      <4>. QED  BY <3>1, <4>1
    <3>3. CASE n - 1 \in HeadersIn(text, to) /\ Renamed(text, n - 1)
      <4>1. n - 1 < to  BY <3>3, HeadersAre
      <4>2. n # to + 1  BY <3>1, <4>1
      <4>3. text[n - 1 + 1].kind = "move"  BY <3>3 DEF Renamed
      <4>4. n - 1 + 1 = n  BY <3>1
      <4>. QED  BY <4>2, <4>3, <4>4 DEF IsHeader
    <3>. QED  BY <3>2, <3>3, PathLinesAre
  <2>. QED  BY <2>1
<1>7. \A p \in SeenIn(files) : \E n \in PathLines(text, to) : text[n].path = p  BY SeenAre
<1>8. CASE ~ValidPath(text[to].path, SeenIn(files))
  <2>1. text[to].path \in SeenIn(files)  BY <1>2, <1>5, <1>8 DEF ValidPath
  <2>. QED  BY <1>2, <1>3, <1>5, <1>6, <1>7, <2>1
<1>9. CASE Renamed(text, to) /\ ~ValidPath(text[to + 1].path, SeenIn(files) \cup {text[to].path})
  <2>1. text[to + 1].path \in SeenIn(files) \cup {text[to].path}  BY <1>2, <1>5, <1>9 DEF ValidPath
  <2>2. CASE text[to + 1].path \in SeenIn(files)  BY <1>2, <1>3, <1>5, <1>6, <1>7, <1>9, <2>2
  <2>3. CASE text[to + 1].path = text[to].path
    <3>1. to + 1 = to  BY <1>2, <1>5, <1>9, <2>3
    <3>. QED  BY <3>1
  <2>. QED  BY <2>1, <2>2, <2>3
<1>. QED  BY <1>8, <1>9

\* A header whose paths are new opens its file.
LEMMA FileOpens ==
    ASSUME NEW text \in Seq(PatchLine), NEW to \in Nat, NEW within, NEW F, NEW files \in Seq(F),
           ReadSoFar(text, to, NoneOpen, within, files), to < Len(text), IsHeader(text[to]),
           ValidPath(text[to].path, SeenIn(files)),
           Renamed(text, to) => ValidPath(text[to + 1].path, SeenIn(files) \cup {text[to].path})
    PROVE  ReadSoFar(text, BodyStart(text, to),
                     IF Renamed(text, to) THEN OpenFile("rename", text[to + 1].path, text[to].path)
                     ELSE OpenFile(text[to].kind, text[to].path, ""),
                     NoBlock, files)
<1>. DEFINE next == BodyStart(text, to)
            file == IF Renamed(text, to) THEN OpenFile("rename", text[to + 1].path, text[to].path)
                    ELSE OpenFile(text[to].kind, text[to].path, "")
            H == HeadersIn(text, to)
            G == HeadersIn(text, next)
<1>1. /\ Len(text) > 1 /\ text[Len(text)].kind = "end" /\ to \in 2..Len(text)
      /\ to > 2 /\ FirstFile(text) = 3 => text[2].path # ""
      /\ H # {} => IsHeader(text[FirstFile(text)])
      /\ PathsDiffer(text, to)
      /\ Len(files) = Cardinality(H)
      /\ \A h \in H : WellFormed(text, h, to) /\ files[Rank(text, h)] = FileAt(text, h, to)
      /\ \A n \in DOMAIN files : \E h \in H : files[n] = FileAt(text, h, to)
  <2>1. Cardinality(H) \in Nat  BY HeadersAre
  <2>2. Len(files) = Cardinality(H) - 0  BY DEF ReadSoFar
  <2>3. Len(files) = Cardinality(H)  BY <2>1, <2>2
  <2>. QED  BY <2>3 DEF ReadSoFar
<1>2. to >= FirstFile(text) /\ (H = {} => to = FirstFile(text)) /\ FirstFile(text) \in {2, 3}
  <2>1. text[to].kind # "environment"  BY DEF IsHeader
  <2>. QED  BY <2>1, HeaderHere, HeadersAre
<1>3. HeadersIn(text, to + 1) = H \cup {to} /\ Cardinality(HeadersIn(text, to + 1)) = Cardinality(H) + 1
  BY <1>2, HeaderMore
<1>4. next \in Nat /\ next \in {to + 1, to + 2} /\ next <= Len(text)
  <2>1. CASE Renamed(text, to)
    <3>1. text[to + 1].kind # "end"  BY <2>1 DEF Renamed
    <3>2. to + 1 # Len(text)  BY <1>1, <3>1
    <3>. QED  BY <2>1, <3>2 DEF BodyStart
  <2>2. CASE ~Renamed(text, to)  BY <2>2 DEF BodyStart
  <2>. QED  BY <2>1, <2>2
<1>5. G = H \cup {to} /\ Cardinality(G) = Cardinality(H) + 1
  <2>1. CASE Renamed(text, to)
    <3>1. ~IsHeader(text[to + 1])  BY <2>1 DEF Renamed, IsHeader
    <3>2. to + 1 \in Nat /\ next = to + 1 + 1  BY <2>1 DEF BodyStart
    <3>3. G = HeadersIn(text, to + 1)  BY <3>1, <3>2, NoHeaderMore
    <3>. QED  BY <1>3, <3>3
  <2>2. CASE ~Renamed(text, to)
    <3>1. next = to + 1  BY <2>2 DEF BodyStart
    <3>. QED  BY <1>3, <3>1
  <2>. QED  BY <2>1, <2>2
<1>6. IsLastHeader(text, to, next)
  <2>1. \A m \in (to + 1)..(next - 1) : Renamed(text, to) /\ m = to + 1  BY <1>4 DEF BodyStart
  <2>2. \A m \in (to + 1)..(next - 1) : ~IsHeader(text[m])  BY <2>1 DEF Renamed, IsHeader
  <2>. QED  BY <1>5, <2>2 DEF IsLastHeader
<1>. HIDE DEF next, file, H, G
<1>7. \A h \in H : h \in Nat /\ h < to  BY HeadersAre DEF H
<1>8. \A h \in G : (h \in H <=> h # to) /\ (IsLastHeader(text, h, next) <=> h = to)
  <2>1. \A h \in G : h # to => ~IsLastHeader(text, h, next)
    <3>1. to \in HeadersIn(text, next)  BY <1>5 DEF G
    <3>. QED  BY <1>4, <1>6, <3>1, RanksAre DEF G
  <2>. QED  BY <1>5, <1>6, <1>7, <2>1
<1>9. ASSUME NEW h \in H
      PROVE  WellFormed(text, h, next) /\ files[Rank(text, h)] = FileAt(text, h, next)
             /\ FileAt(text, h, next) = FileAt(text, h, to)
  <2>1. to \in (h + 1)..to /\ next >= to  BY <1>4, <1>7
  <2>2. h \in HeadersIn(text, to)  BY DEF H
  <2>3. (WellFormed(text, h, next) <=> WellFormed(text, h, to)) /\ FileAt(text, h, next) = FileAt(text, h, to)
    BY <1>4, <2>1, <2>2, FileStays
  <2>. QED  BY <1>1, <2>3
<1>10. PathsDiffer(text, next)
  <2>1. ASSUME NEW n \in PathLines(text, next)
        PROVE  n \in PathLines(text, to) \/ n = to \/ (n = to + 1 /\ Renamed(text, to))
    <3>1. HeadersIn(text, next) = HeadersIn(text, to) \cup {to}  BY <1>5 DEF G, H
    <3>. QED  BY <1>4, <3>1, PathMore
  <2>2. \A n \in PathLines(text, to) : text[n].path \in SeenIn(files)  BY SeenAre
  <2>3. \A m, n \in PathLines(text, to) : text[m].path # "" /\ (text[m].path = text[n].path => m = n)
    BY <1>1 DEF PathsDiffer
  <2>4. text[to].path # "" /\ \A n \in PathLines(text, to) : text[n].path # text[to].path
    BY <2>2 DEF ValidPath
  <2>5. Renamed(text, to) =>
          /\ text[to + 1].path # "" /\ text[to + 1].path # text[to].path
          /\ \A n \in PathLines(text, to) : text[n].path # text[to + 1].path
    BY <2>2 DEF ValidPath
  <2>6. ASSUME NEW m \in PathLines(text, next), NEW n \in PathLines(text, next)
        PROVE  text[m].path # "" /\ (text[m].path = text[n].path => m = n)
    <3>1. n \in PathLines(text, to) \/ n = to \/ (n = to + 1 /\ Renamed(text, to))  BY <2>1
    <3>2. CASE m \in PathLines(text, to)  BY <2>3, <2>4, <2>5, <3>1, <3>2
    <3>3. CASE m = to  BY <2>4, <2>5, <3>1, <3>3
    <3>4. CASE m = to + 1 /\ Renamed(text, to)  BY <2>4, <2>5, <3>1, <3>4
    <3>. QED  BY <2>1, <3>2, <3>3, <3>4
  <2>. QED  BY <2>6 DEF PathsDiffer
<1>11. file.op # "none" /\ file # NoneOpen
  <2>1. file.op # "none"  BY DEF file, OpenFile, NoneOpen, IsHeader
  <2>2. NoneOpen.op = "none"  BY DEF NoneOpen
  <2>. QED  BY <2>1, <2>2
<1>12. BodyOf(text, to, next) = {} /\ \A k : Number(text, to, next, k) = 0
  <2>1. BodyOf(text, to, next) = {}
    <3>1. next..(next - 1) = {}  BY <1>4
    <3>. QED  BY <3>1 DEF BodyOf, next
  <2>2. ASSUME NEW k PROVE Number(text, to, next, k) = 0
    <3>1. {n \in BodyOf(text, to, next) : text[n].kind = k} = {}  BY <2>1
    <3>. QED  BY <3>1, FS_EmptySet DEF Number
  <2>. QED  BY <2>1, <2>2
<1>13. OpenIsRead(text, next, to, file, NoBlock)
  <2>1. BodyStart(text, to) <= next  BY <1>4 DEF next
  <2>2. file.op = (IF Renamed(text, to) THEN "rename" ELSE text[to].kind)  BY DEF file, OpenFile, NoneOpen
  <2>3. file.path = text[BodyStart(text, to) - 1].path
    <3>1. CASE Renamed(text, to)
      <4>1. BodyStart(text, to) - 1 = to + 1  BY <3>1 DEF BodyStart
      <4>. QED  BY <3>1, <4>1 DEF file, OpenFile, NoneOpen
    <3>2. CASE ~Renamed(text, to)
      <4>1. BodyStart(text, to) - 1 = to  BY <3>2 DEF BodyStart
      <4>. QED  BY <3>2, <4>1 DEF file, OpenFile, NoneOpen
    <3>. QED  BY <3>1, <3>2
  <2>4. file.from = (IF Renamed(text, to) THEN text[to].path ELSE "")  BY DEF file, OpenFile, NoneOpen
  <2>5. file.added = 0 /\ file.removed = 0  BY DEF file, OpenFile, NoneOpen
  <2>6. NoBlock.pending = FALSE /\ NoBlock.eof = FALSE /\ NoBlock.lines = 0  BY DEF NoBlock
  <2>. QED  BY <1>12, <2>1, <2>2, <2>3, <2>4, <2>5, <2>6 DEF OpenIsRead
<1>14. Len(files) = Cardinality(G) - 1
  <2>1. Cardinality(H) \in Nat  BY HeadersAre DEF H
  <2>2. Len(files) = Cardinality(H)  BY <1>1
  <2>3. Cardinality(G) = Cardinality(H) + 1  BY <1>5
  <2>. QED  BY <2>1, <2>2, <2>3
<1>15. IsHeader(text[FirstFile(text)])  BY <1>1, <1>2
<1>16. FirstFile(text) = 3 => text[2].path # ""
  <2>1. ASSUME FirstFile(text) = 3 PROVE to > 2  BY <1>2, <2>1
  <2>. QED  BY <1>1, <2>1
<1>17. {h \in G : file = NoneOpen \/ ~IsLastHeader(text, h, next)} = H  BY <1>5, <1>8, <1>11
<1>18. next \in 2..Len(text)
  <2>1. to \in 2..Len(text)  BY <1>1
  <2>2. next \in Nat /\ next <= Len(text) /\ next >= to  BY <1>4
  <2>. QED  BY <2>1, <2>2
<1>19. \A n \in DOMAIN files : \E h \in H : files[n] = FileAt(text, h, next)  BY <1>1, <1>9
<1>. SUFFICES ReadSoFar(text, next, file, NoBlock, files)  BY DEF next, file
<1>20. \A h \in G : IsLastHeader(text, h, next) => OpenIsRead(text, next, h, file, NoBlock)  BY <1>8, <1>13
<1>. QED  BY <1>1, <1>5, <1>9, <1>10, <1>11, <1>14, <1>15, <1>16, <1>17, <1>18, <1>19, <1>20 DEF ReadSoFar, G

\* An open file is that of the last header.
LEMMA OpenFileIs ==
    ASSUME NEW text \in Seq(PatchLine), NEW to \in Nat, NEW file, NEW within, NEW files, file # NoneOpen,
           ReadSoFar(text, to, file, within, files)
    PROVE  \E h \in HeadersIn(text, to) : IsLastHeader(text, h, to) /\ OpenIsRead(text, to, h, file, within)
<1>1. HeadersIn(text, to) # {}  BY DEF ReadSoFar
<1>2. PICK h \in HeadersIn(text, to) : IsLastHeader(text, h, to)  BY <1>1, LastHeaderExists
<1>3. OpenIsRead(text, to, h, file, within)  BY <1>2 DEF ReadSoFar
<1>. QED  BY <1>2, <1>3

\* The lines of its body have no gaps.
LEMMA BodyIsWhole ==
    ASSUME NEW text \in Seq(PatchLine), NEW to \in Nat, NEW h \in HeadersIn(text, to), IsLastHeader(text, h, to)
    PROVE  /\ BodyOf(text, h, to) # {} => to - 1 \in BodyOf(text, h, to)
           /\ \A n \in BodyOf(text, h, to) : n \in Nat /\ (n + 1 \in BodyOf(text, h, to) \/ n = to - 1) /\ n # to
<1>. DEFINE B == BodyOf(text, h, to)
            s == BodyStart(text, h)
<1>1. s \in Nat  BY BodyIs
<1>2. \A n \in B : n \in Nat /\ n >= s /\ n < to  BY BodyIs
<1>3. \A n \in Nat : n >= s /\ n < to => n \in B  BY BodyIs
<1>. HIDE DEF B, s
<1>4. ASSUME NEW n \in B PROVE n \in Nat /\ (n + 1 \in B \/ n = to - 1) /\ n # to /\ to - 1 \in B
  <2>1. n \in Nat /\ n >= s /\ n < to  BY <1>2
  <2>2. to - 1 \in Nat /\ to - 1 >= s /\ to - 1 < to  BY <1>1, <2>1
  <2>3. to - 1 \in B  BY <1>3, <2>2
  <2>4. CASE n + 1 < to
    <3>1. n + 1 \in Nat /\ n + 1 >= s  BY <1>1, <2>1
    <3>2. n + 1 \in B  BY <1>3, <2>4, <3>1
    <3>. QED  BY <2>1, <2>3, <3>2
  <2>5. CASE ~(n + 1 < to)  BY <2>1, <2>3, <2>5
  <2>. QED  BY <2>4, <2>5
<1>. QED  BY <1>4 DEF B

\* Every line of a body that is whole is a line of the body at the end.
LEMMA BodyGrows ==
    ASSUME NEW text \in Seq(PatchLine), NEW to \in Nat, NEW h \in HeadersIn(text, to),
           IsLastHeader(text, h, to), BodyStart(text, h) <= to, ~IsHeader(text[to]), NEW stop \in Nat, to < stop
    PROVE  /\ to \in BodyOf(text, h, stop)
           /\ BodyOf(text, h, to) \subseteq BodyOf(text, h, stop)
           /\ BodyOf(text, h, to) = {} => to - 1 \notin BodyOf(text, h, stop)
<1>1. to \in BodyOf(text, h, stop) /\ BodyOf(text, h, to) \subseteq BodyOf(text, h, stop)  BY BodyMore
<1>2. ASSUME to - 1 \in BodyOf(text, h, stop) PROVE BodyOf(text, h, to) # {}
  <2>1. h \in HeadersIn(text, stop)  BY HeadersGrow
  <2>2. to - 1 >= BodyStart(text, h) /\ to - 1 \in Nat  BY <1>2, <2>1, BodyIs
  <2>3. to - 1 < to  OBVIOUS
  <2>4. to - 1 \in BodyOf(text, h, to)  BY <2>2, <2>3, BodyIs
  <2>. QED  BY <2>4
<1>. QED  BY <1>1, <1>2

\* No line of the body of a file was read.
EmptyOf(file, within) == file.added + file.removed + within.lines = 0 /\ ~within.pending

\* What a block can be.
Block == [lines : Nat, pending : BOOLEAN, eof : BOOLEAN]

\* The counters of an open file tell whether it has a body yet.
LEMMA EmptyIs ==
    ASSUME NEW text \in Seq(PatchLine), NEW to \in Nat, NEW h \in HeadersIn(text, to), NEW file, NEW within \in Block,
           IsLastHeader(text, h, to), OpenIsRead(text, to, h, file, within),
           file.op \in {"add", "update", "rename"}
    PROVE  EmptyOf(file, within) <=> BodyOf(text, h, to) = {}
<1>. DEFINE B == BodyOf(text, h, to)
<1>1. file.added = Number(text, h, to, "+") /\ file.removed = Number(text, h, to, "-")  BY DEF OpenIsRead
<1>2. file.added \in Nat /\ file.removed \in Nat
  <2>1. Number(text, h, to, "+") \in Nat /\ Number(text, h, to, "-") \in Nat  BY BodyIs
  <2>. QED  BY <1>1, <2>1
<1>3. within.lines \in Nat  BY DEF Block
<1>4. EmptyOf(file, within) <=> file.added = 0 /\ file.removed = 0 /\ within.lines = 0 /\ ~within.pending
  <2>1. \A a, b, c \in Nat : a + b + c = 0 <=> a = 0 /\ b = 0 /\ c = 0  OBVIOUS
  <2>2. file.added + file.removed + within.lines = 0 <=> file.added = 0 /\ file.removed = 0 /\ within.lines = 0
    BY <1>2, <1>3, <2>1
  <2>. QED  BY <2>2 DEF EmptyOf
<1>5. ASSUME B = {} PROVE Number(text, h, to, "+") = 0 /\ Number(text, h, to, "-") = 0
  <2>1. ASSUME NEW k PROVE Number(text, h, to, k) = 0
    <3>1. {n \in BodyOf(text, h, to) : text[n].kind = k} = {}  BY <1>5
    <3>. QED  BY <3>1, FS_EmptySet DEF Number
  <2>. QED  BY <2>1
<1>6. CASE file.op = "add"
  <2>1. within = NoBlock /\ \A n \in B : text[n].kind = "+"  BY <1>6 DEF OpenIsRead
  <2>2. within.lines = 0 /\ ~within.pending  BY <2>1 DEF NoBlock
  <2>3. ASSUME B # {} PROVE file.added # 0
    <3>1. {n \in BodyOf(text, h, to) : text[n].kind = "+"} = B  BY <2>1
    <3>2. Number(text, h, to, "+") = Cardinality(B)  BY <3>1 DEF Number
    <3>3. IsFiniteSet(B)  BY BodyIs
    <3>4. Cardinality(B) # 0  BY <2>3, <3>3, FS_EmptySet
    <3>. QED  BY <1>1, <3>2, <3>4
  <2>. QED  BY <1>1, <1>4, <1>5, <2>2, <2>3
<1>7. CASE file.op \in {"update", "rename"}
  <2>1. /\ within.pending <=> B # {} /\ text[to - 1].kind = "@@"
        /\ within.lines = 0 <=> B = {} \/ text[to - 1].kind = "@@"
    BY <1>7 DEF OpenIsRead
  <2>. HIDE DEF B
  <2>2. ASSUME B = {} PROVE EmptyOf(file, within)  BY <1>1, <1>4, <1>5, <2>1, <2>2
  <2>3. ASSUME B # {} PROVE ~EmptyOf(file, within)  BY <1>4, <2>1, <2>3
  <2>. QED  BY <2>2, <2>3 DEF B
<1>. QED  BY <1>6, <1>7

\* What is said of a file of a header remains said when a line is read.
LEMMA LineIsRead ==
    ASSUME NEW text \in Seq(PatchLine), NEW to \in Nat, NEW file, NEW within, NEW files,
           ReadSoFar(text, to, file, within, files), file # NoneOpen,
           to < Len(text), ~IsHeader(text[to]),
           NEW file2, NEW within2, file2 # NoneOpen,
           \A h \in HeadersIn(text, to) :
              IsLastHeader(text, h, to) /\ OpenIsRead(text, to, h, file, within) =>
                 OpenIsRead(text, to + 1, h, file2, within2)
    PROVE  ReadSoFar(text, to + 1, file2, within2, files)
<1>. DEFINE H == HeadersIn(text, to)
            closed == {h \in H : ~IsLastHeader(text, h, to)}
<1>1. /\ Len(text) > 1 /\ text[Len(text)].kind = "end" /\ to \in 2..Len(text)
      /\ to > 2 /\ FirstFile(text) = 3 => text[2].path # ""
      /\ H # {} /\ IsHeader(text[FirstFile(text)])
      /\ PathsDiffer(text, to)
      /\ Len(files) = Cardinality(H) - 1
      /\ \A h \in closed : WellFormed(text, h, to) /\ files[Rank(text, h)] = FileAt(text, h, to)
      /\ \A n \in DOMAIN files : \E h \in closed : files[n] = FileAt(text, h, to)
      /\ \A h \in H : IsLastHeader(text, h, to) => OpenIsRead(text, to, h, file, within)
  BY DEF ReadSoFar
<1>2. HeadersIn(text, to + 1) = H /\ to + 1 \in Nat  BY NoHeaderMore
<1>3. PICK h \in H : IsLastHeader(text, h, to)  BY <1>1, LastHeaderExists
<1>4. BodyStart(text, h) <= to  BY <1>1, <1>3 DEF OpenIsRead
<1>5. \A g : IsLastHeader(text, g, to + 1) <=> IsLastHeader(text, g, to)  BY <1>3, <1>4, BodyMore
<1>6. PathsDiffer(text, to + 1)  BY <1>1, <1>2, SamePaths
<1>7. FirstFile(text) = 3 => text[2].path # ""
  <2>1. h \in Nat /\ h >= FirstFile(text) /\ h < to  BY HeadersAre
  <2>2. FirstFile(text) = 3 => to > 2  BY <2>1
  <2>. QED  BY <1>1, <2>2
<1>8. ASSUME NEW g \in closed
      PROVE  WellFormed(text, g, to + 1) /\ files[Rank(text, g)] = FileAt(text, g, to + 1)
             /\ FileAt(text, g, to + 1) = FileAt(text, g, to)
  <2>1. PICK m \in (g + 1)..(to - 1) : IsHeader(text[m])  BY DEF IsLastHeader
  <2>2. g \in Nat  BY HeadersAre
  <2>3. m \in (g + 1)..to /\ to + 1 >= to  BY <2>1, <2>2
  <2>4. (WellFormed(text, g, to + 1) <=> WellFormed(text, g, to)) /\ FileAt(text, g, to + 1) = FileAt(text, g, to)
    BY <1>2, <2>1, <2>3, FileStays
  <2>. QED  BY <1>1, <2>4
<1>. HIDE DEF H
<1>9. {g \in H : file2 = NoneOpen \/ ~IsLastHeader(text, g, to + 1)} = closed  BY <1>5
<1>10. to + 1 \in 2..Len(text)
  <2>1. Len(text) \in Nat  OBVIOUS
  <2>2. to \in 2..Len(text)  BY <1>1
  <2>. QED  BY <2>1, <2>2
<1>11. \A n \in DOMAIN files : \E g \in closed : files[n] = FileAt(text, g, to + 1)  BY <1>1, <1>8
<1>12. \A g \in H : IsLastHeader(text, g, to + 1) => OpenIsRead(text, to + 1, g, file2, within2)
  BY <1>1, <1>5 DEF H
<1>. HIDE DEF closed
<1>. QED  BY <1>1, <1>2, <1>6, <1>7, <1>8, <1>9, <1>10, <1>11, <1>12 DEF ReadSoFar

\* What a line makes of the counts of its file and of the block.
OpenFiles == [op : {"none", "add", "update", "delete", "rename"}, path : Paths, from : Paths, added : Nat, removed : Nat]

CountedIn(file, line) ==
    [file EXCEPT !.added = IF line.kind = "+" THEN @ + 1 ELSE @, !.removed = IF line.kind = "-" THEN @ + 1 ELSE @]

BlockAfter(within, line) ==
    CASE line.kind = "@@" -> [within EXCEPT !.pending = TRUE, !.lines = 0]
      [] line.kind = "eof" -> [within EXCEPT !.eof = TRUE]
      [] IsContent(line) -> [within EXCEPT !.pending = FALSE, !.lines = @ + 1]

\* The counts after a line.
LEMMA CountedIs ==
    ASSUME NEW file \in OpenFiles, NEW line
    PROVE  /\ CountedIn(file, line) \in OpenFiles
           /\ CountedIn(file, line).op = file.op /\ CountedIn(file, line).path = file.path
           /\ CountedIn(file, line).from = file.from
           /\ CountedIn(file, line).added = file.added + (IF line.kind = "+" THEN 1 ELSE 0)
           /\ CountedIn(file, line).removed = file.removed + (IF line.kind = "-" THEN 1 ELSE 0)
<1>. DEFINE a == IF line.kind = "+" THEN file.added + 1 ELSE file.added
            r == IF line.kind = "-" THEN file.removed + 1 ELSE file.removed
<1>1. CountedIn(file, line) = [file EXCEPT !.added = a, !.removed = r]  BY DEF CountedIn, OpenFiles
<1>2. file.added \in Nat /\ file.removed \in Nat  BY DEF OpenFiles
<1>3. a \in Nat /\ r \in Nat /\ a = file.added + (IF line.kind = "+" THEN 1 ELSE 0)
      /\ r = file.removed + (IF line.kind = "-" THEN 1 ELSE 0)
  BY <1>2
<1>. HIDE DEF a, r
<1>. QED  BY <1>1, <1>3 DEF OpenFiles

\* The block after a line that is in its place.
LEMMA BlockAfterIs ==
    ASSUME NEW within \in Block, NEW line, IsContent(line) \/ line.kind \in {"@@", "eof"},
           ~within.eof, line.kind = "eof" => within.lines # 0 /\ ~within.pending
    PROVE  /\ BlockAfter(within, line) \in Block
           /\ BlockAfter(within, line).pending <=> line.kind = "@@"
           /\ BlockAfter(within, line).eof <=> line.kind = "eof"
           /\ BlockAfter(within, line).lines = 0 <=> line.kind = "@@"
<1>1. CASE line.kind = "@@"
  <2>1. BlockAfter(within, line) = [within EXCEPT !.pending = TRUE, !.lines = 0]  BY <1>1 DEF BlockAfter, IsContent
  <2>2. /\ BlockAfter(within, line).pending = TRUE /\ BlockAfter(within, line).lines = 0
        /\ BlockAfter(within, line).eof = within.eof
    BY <2>1 DEF Block
  <2>3. BlockAfter(within, line) \in Block
    <3>1. BlockAfter(within, line) = [lines |-> 0, pending |-> TRUE, eof |-> within.eof]  BY <2>1 DEF Block
    <3>2. within.eof \in BOOLEAN  BY DEF Block
    <3>. QED  BY <3>1, <3>2 DEF Block
  <2>. QED  BY <1>1, <2>2, <2>3
<1>2. CASE line.kind = "eof"
  <2>1. BlockAfter(within, line) = [within EXCEPT !.eof = TRUE]  BY <1>2 DEF BlockAfter, IsContent
  <2>. QED  BY <1>2, <2>1 DEF Block
<1>3. CASE IsContent(line)
  <2>1. line.kind # "@@" /\ line.kind # "eof"  BY <1>3 DEF IsContent
  <2>2. BlockAfter(within, line) = [within EXCEPT !.pending = FALSE, !.lines = within.lines + 1]
    BY <1>3, <2>1 DEF BlockAfter, Block
  <2>3. within.lines \in Nat /\ within.lines + 1 \in Nat /\ within.lines + 1 # 0  BY DEF Block
  <2>4. /\ BlockAfter(within, line).pending = FALSE /\ BlockAfter(within, line).lines = within.lines + 1
        /\ BlockAfter(within, line).eof = within.eof
    BY <2>2 DEF Block
  <2>5. BlockAfter(within, line) \in Block  BY <2>2, <2>3 DEF Block
  <2>. QED  BY <2>1, <2>3, <2>4, <2>5
<1>. QED  BY <1>1, <1>2, <1>3

\* An added line of a file that is created.
LEMMA CreatedLineRead ==
    ASSUME NEW text \in Seq(PatchLine), NEW to \in Nat, NEW h \in HeadersIn(text, to), NEW file \in OpenFiles, NEW within,
           IsLastHeader(text, h, to), OpenIsRead(text, to, h, file, within),
           file.op = "add", text[to].kind = "+"
    PROVE  OpenIsRead(text, to + 1, h, CountedIn(file, text[to]), within)
<1>. DEFINE file2 == CountedIn(file, text[to])
<1>0. ~IsHeader(text[to])  BY DEF IsHeader
<1>1. /\ BodyStart(text, h) <= to
      /\ file.op = (IF Renamed(text, h) THEN "rename" ELSE text[h].kind)
      /\ file.path = text[BodyStart(text, h) - 1].path
      /\ file.from = (IF Renamed(text, h) THEN text[h].path ELSE "")
      /\ file.added = Number(text, h, to, "+")
      /\ file.removed = Number(text, h, to, "-")
      /\ within = NoBlock /\ \A n \in BodyOf(text, h, to) : text[n].kind = "+"
  BY DEF OpenIsRead
<1>2. BodyOf(text, h, to + 1) = BodyOf(text, h, to) \cup {to}  BY <1>0, <1>1, BodyMore
<1>3. \A k : Number(text, h, to + 1, k) = Number(text, h, to, k) + (IF text[to].kind = k THEN 1 ELSE 0)
  BY <1>0, <1>1, BodyMore
<1>4. file2.added = Number(text, h, to + 1, "+") /\ file2.removed = Number(text, h, to + 1, "-")
  <2>0. file.added = Number(text, h, to, "+") /\ file.removed = Number(text, h, to, "-")  BY <1>1
  <2>1. file2.added = Number(text, h, to, "+") + (IF text[to].kind = "+" THEN 1 ELSE 0)
    <3>1. file2.added = file.added + (IF text[to].kind = "+" THEN 1 ELSE 0)  BY CountedIs, Zenon
    <3>. QED  BY <2>0, <3>1, Zenon
  <2>2. file2.removed = Number(text, h, to, "-") + (IF text[to].kind = "-" THEN 1 ELSE 0)
    <3>1. file2.removed = file.removed + (IF text[to].kind = "-" THEN 1 ELSE 0)  BY CountedIs, Zenon
    <3>. QED  BY <2>0, <3>1, Zenon
  <2>. QED  BY <1>3, <2>1, <2>2
<1>5. BodyStart(text, h) <= to + 1
  <2>1. BodyStart(text, h) \in Nat  BY BodyIs
  <2>2. BodyStart(text, h) <= to  BY <1>1
  <2>. QED  BY <2>1, <2>2
<1>6. \A n \in BodyOf(text, h, to + 1) : text[n].kind = "+"  BY <1>1, <1>2
<1>7. /\ file2.op = (IF Renamed(text, h) THEN "rename" ELSE text[h].kind) /\ file2.op = "add"
      /\ file2.path = text[BodyStart(text, h) - 1].path
      /\ file2.from = (IF Renamed(text, h) THEN text[h].path ELSE "")
  BY <1>1, CountedIs
<1>8. within = NoBlock  BY <1>1
<1>. HIDE DEF file2
<1>9. OpenIsRead(text, to + 1, h, file2, within)  BY <1>4, <1>5, <1>6, <1>7, <1>8 DEF OpenIsRead
<1>. QED  BY <1>9 DEF file2

\* What does not follow the lines read before.
StrayAt(line, file, within) ==
    \/ within.eof
    \/ line.kind = "@@" /\ (within.pending \/ (~EmptyOf(file, within) /\ within.lines = 0))
    \/ line.kind = "eof" /\ (within.lines = 0 \/ within.pending)
    \/ ~IsContent(line) /\ line.kind \notin {"@@", "eof"}

\* What is to be shown of a file whose changes are read.
LEMMA ChangesAreRead ==
    ASSUME NEW text, NEW to, NEW h, NEW file, NEW within,
           /\ BodyStart(text, h) <= to
           /\ file.op = (IF Renamed(text, h) THEN "rename" ELSE text[h].kind)
           /\ file.path = text[BodyStart(text, h) - 1].path
           /\ file.from = (IF Renamed(text, h) THEN text[h].path ELSE "")
           /\ file.added = Number(text, h, to, "+")
           /\ file.removed = Number(text, h, to, "-"),
           /\ within.pending <=> BodyOf(text, h, to) # {} /\ text[to - 1].kind = "@@"
           /\ within.eof <=> BodyOf(text, h, to) # {} /\ text[to - 1].kind = "eof"
           /\ within.lines = 0 <=> BodyOf(text, h, to) = {} \/ text[to - 1].kind = "@@",
           \A n \in BodyOf(text, h, to) :
              \/ IsContent(text[n])
              \/ text[n].kind = "@@" /\ (n + 1 \in BodyOf(text, h, to) => IsContent(text[n + 1]))
              \/ text[n].kind = "eof" /\ n + 1 \notin BodyOf(text, h, to) /\ n - 1 \in BodyOf(text, h, to)
                 /\ IsContent(text[n - 1]),
           file.op \in {"update", "rename"}
    PROVE  OpenIsRead(text, to, h, file, within)
<1>1. file.op # "delete" /\ file.op # "add"  OBVIOUS
<1>. QED  BY <1>1 DEF OpenIsRead

\* A line that follows those read before.
LEMMA ChangedLineRead ==
    ASSUME NEW text \in Seq(PatchLine), NEW to \in Nat, NEW h \in HeadersIn(text, to), NEW file \in OpenFiles, NEW within \in Block,
           IsLastHeader(text, h, to), OpenIsRead(text, to, h, file, within),
           file.op \in {"update", "rename"}, ~IsHeader(text[to]), ~StrayAt(text[to], file, within)
    PROVE  OpenIsRead(text, to + 1, h, CountedIn(file, text[to]), BlockAfter(within, text[to]))
<1>. DEFINE B == BodyOf(text, h, to)
            C == BodyOf(text, h, to + 1)
            file2 == CountedIn(file, text[to])
            within2 == BlockAfter(within, text[to])
<1>1. /\ BodyStart(text, h) <= to
      /\ file.op = (IF Renamed(text, h) THEN "rename" ELSE text[h].kind)
      /\ file.path = text[BodyStart(text, h) - 1].path
      /\ file.from = (IF Renamed(text, h) THEN text[h].path ELSE "")
      /\ file.added = Number(text, h, to, "+")
      /\ file.removed = Number(text, h, to, "-")
  BY DEF OpenIsRead
<1>2. /\ within.pending <=> B # {} /\ text[to - 1].kind = "@@"
      /\ within.eof <=> B # {} /\ text[to - 1].kind = "eof"
      /\ within.lines = 0 <=> B = {} \/ text[to - 1].kind = "@@"
      /\ \A n \in B :
           \/ IsContent(text[n])
           \/ text[n].kind = "@@" /\ (n + 1 \in B => IsContent(text[n + 1]))
           \/ text[n].kind = "eof" /\ n + 1 \notin B /\ n - 1 \in B /\ IsContent(text[n - 1])
  BY DEF OpenIsRead
<1>3. C = B \cup {to}  BY <1>1, BodyMore
<1>4. \A k : Number(text, h, to + 1, k) = Number(text, h, to, k) + (IF text[to].kind = k THEN 1 ELSE 0)
  <2>1. BodyStart(text, h) <= to  BY <1>1
  <2>. QED  BY <2>1, BodyMore
<1>5. file2.added = Number(text, h, to + 1, "+") /\ file2.removed = Number(text, h, to + 1, "-")
  <2>0. file.added = Number(text, h, to, "+") /\ file.removed = Number(text, h, to, "-")  BY <1>1
  <2>1. file2.added = Number(text, h, to, "+") + (IF text[to].kind = "+" THEN 1 ELSE 0)
    <3>1. file2.added = file.added + (IF text[to].kind = "+" THEN 1 ELSE 0)  BY CountedIs, Zenon
    <3>. QED  BY <2>0, <3>1, Zenon
  <2>2. file2.removed = Number(text, h, to, "-") + (IF text[to].kind = "-" THEN 1 ELSE 0)
    <3>1. file2.removed = file.removed + (IF text[to].kind = "-" THEN 1 ELSE 0)  BY CountedIs, Zenon
    <3>. QED  BY <2>0, <3>1, Zenon
  <2>. QED  BY <1>4, <2>1, <2>2
<1>6. BodyStart(text, h) <= to + 1
  <2>1. BodyStart(text, h) \in Nat  BY BodyIs
  <2>2. BodyStart(text, h) <= to  BY <1>1
  <2>. QED  BY <2>1, <2>2
<1>7. /\ B # {} => to - 1 \in B
      /\ \A n \in B : n \in Nat /\ (n + 1 \in B \/ n = to - 1) /\ n # to
  BY BodyIsWhole
<1>. HIDE DEF B, C
<1>8. /\ ~within.eof
      /\ text[to].kind = "@@" => ~within.pending
      /\ text[to].kind = "eof" => within.lines # 0 /\ ~within.pending
      /\ IsContent(text[to]) \/ text[to].kind \in {"@@", "eof"}
  BY DEF StrayAt
<1>9. /\ within2.pending <=> text[to].kind = "@@"
      /\ within2.eof <=> text[to].kind = "eof"
      /\ within2.lines = 0 <=> text[to].kind = "@@"
  BY <1>8, BlockAfterIs
<1>12. ASSUME NEW n \in C
       PROVE  \/ IsContent(text[n])
              \/ text[n].kind = "@@" /\ (n + 1 \in C => IsContent(text[n + 1]))
              \/ text[n].kind = "eof" /\ n + 1 \notin C /\ n - 1 \in C /\ IsContent(text[n - 1])
  <2>1. to + 1 \notin C
    <3>1. to + 1 \notin B
      <4>1. \A m \in B : m # to + 1  BY BodyIs DEF B
      <4>. QED  BY <4>1
    <3>. QED  BY <1>3, <3>1
  <2>2. CASE n = to
    <3>1. CASE text[to].kind = "eof"
      <4>1. B # {} /\ text[to - 1].kind # "@@" /\ text[to - 1].kind # "eof"  BY <1>2, <1>8, <3>1
      <4>2. to - 1 \in B /\ IsContent(text[to - 1])  BY <1>2, <1>7, <4>1
      <4>. QED  BY <1>3, <2>1, <2>2, <3>1, <4>2
    <3>2. CASE text[to].kind = "@@"  BY <2>1, <2>2, <3>2
    <3>. QED  BY <1>8, <2>2, <3>1, <3>2
  <2>3. CASE n \in B
    <3>1. n \in Nat /\ (n + 1 \in B \/ n = to - 1)  BY <1>7, <2>3
    <3>2. CASE text[n].kind = "@@" /\ (n + 1 \in B => IsContent(text[n + 1]))
      <4>1. CASE n + 1 \in B  BY <3>2, <4>1
      <4>2. CASE n = to - 1
        <5>1. text[to - 1].kind = "@@" /\ n + 1 = to  BY <3>1, <3>2, <4>2
        <5>2. within.pending  BY <1>2, <2>3, <5>1
        <5>3. within.lines = 0  BY <1>2, <5>1
        <5>4. IsContent(text[to])  BY <1>8, <5>2, <5>3
        <5>. QED  BY <3>2, <5>1, <5>4
      <4>. QED  BY <3>1, <4>1, <4>2
    <3>3. CASE text[n].kind = "eof" /\ n + 1 \notin B /\ n - 1 \in B /\ IsContent(text[n - 1])
      <4>1. text[to - 1].kind = "eof"  BY <3>1, <3>3
      <4>. QED  BY <1>2, <1>8, <2>3, <4>1
    <3>. QED  BY <1>2, <2>3, <3>2, <3>3
  <2>. QED  BY <1>3, <2>2, <2>3
<1>13. C # {} /\ text[to + 1 - 1] = text[to]
  <2>1. to + 1 - 1 = to  OBVIOUS
  <2>. QED  BY <1>3, <2>1
<1>14. file2.op \in {"update", "rename"} /\ file2.op # "add" /\ file2.op # "delete"  BY CountedIs
<1>15. /\ file2.op = (IF Renamed(text, h) THEN "rename" ELSE text[h].kind)
       /\ file2.path = text[BodyStart(text, h) - 1].path
       /\ file2.from = (IF Renamed(text, h) THEN text[h].path ELSE "")
  BY <1>1, CountedIs
<1>. HIDE DEF file2, within2
<1>16. /\ within2.pending <=> C # {} /\ text[to + 1 - 1].kind = "@@"
       /\ within2.eof <=> C # {} /\ text[to + 1 - 1].kind = "eof"
       /\ within2.lines = 0 <=> C = {} \/ text[to + 1 - 1].kind = "@@"
  BY <1>9, <1>13
<1>17. \A n \in C :
          \/ IsContent(text[n])
          \/ text[n].kind = "@@" /\ (n + 1 \in C => IsContent(text[n + 1]))
          \/ text[n].kind = "eof" /\ n + 1 \notin C /\ n - 1 \in C /\ IsContent(text[n - 1])
  BY <1>12
<1>18. ASSUME NEW next, next = to + 1 PROVE OpenIsRead(text, next, h, file2, within2)
  <2>1. /\ BodyStart(text, h) <= next
        /\ file2.op = (IF Renamed(text, h) THEN "rename" ELSE text[h].kind)
        /\ file2.path = text[BodyStart(text, h) - 1].path
        /\ file2.from = (IF Renamed(text, h) THEN text[h].path ELSE "")
        /\ file2.added = Number(text, h, next, "+")
        /\ file2.removed = Number(text, h, next, "-")
    BY <1>5, <1>6, <1>15, <1>18
  <2>2. /\ within2.pending <=> BodyOf(text, h, next) # {} /\ text[next - 1].kind = "@@"
        /\ within2.eof <=> BodyOf(text, h, next) # {} /\ text[next - 1].kind = "eof"
        /\ within2.lines = 0 <=> BodyOf(text, h, next) = {} \/ text[next - 1].kind = "@@"
    BY <1>16, <1>18 DEF C
  <2>3. \A n \in BodyOf(text, h, next) :
          \/ IsContent(text[n])
          \/ text[n].kind = "@@" /\ (n + 1 \in BodyOf(text, h, next) => IsContent(text[n + 1]))
          \/ text[n].kind = "eof" /\ n + 1 \notin BodyOf(text, h, next) /\ n - 1 \in BodyOf(text, h, next)
             /\ IsContent(text[n - 1])
    BY <1>17, <1>18 DEF C
  <2>4. file2.op \in {"update", "rename"}  BY <1>14
  <2>. QED  BY <2>1, <2>2, <2>3, <2>4, ChangesAreRead
<1>. QED  BY <1>18 DEF file2, within2

\* A line that does not follow those read before makes the text no patch.
LEMMA StrayIsNoPatch ==
    ASSUME NEW text \in Seq(PatchLine), NEW to \in Nat, NEW h \in HeadersIn(text, to), NEW file, NEW within \in Block,
           IsLastHeader(text, h, to), OpenIsRead(text, to, h, file, within), to < Len(text),
           file.op \in {"update", "rename"}, ~IsHeader(text[to]), StrayAt(text[to], file, within)
    PROVE  ~IsPatchText(text)
<1>. SUFFICES ASSUME IsPatchText(text) PROVE FALSE  OBVIOUS
<1>. DEFINE B == BodyOf(text, h, to)
            W == BodyOf(text, h, Len(text))
<1>1. BodyStart(text, h) <= to /\ file.op = (IF Renamed(text, h) THEN "rename" ELSE text[h].kind)  BY DEF OpenIsRead
<1>2. /\ within.pending <=> B # {} /\ text[to - 1].kind = "@@"
      /\ within.eof <=> B # {} /\ text[to - 1].kind = "eof"
      /\ within.lines = 0 <=> B = {} \/ text[to - 1].kind = "@@"
  BY DEF OpenIsRead
<1>3. B # {} => to - 1 \in B  BY BodyIsWhole
<1>4. Len(text) \in Nat  OBVIOUS
<1>5. to \in W /\ B \subseteq W /\ (B = {} => to - 1 \notin W)  BY <1>1, <1>4, BodyGrows
<1>6. h \in HeadersIn(text, Len(text))
  <2>1. to <= Len(text)  BY <1>4
  <2>. QED  BY <1>4, <2>1, HeadersGrow
<1>7. text[h].kind = "update"
  <2>1. IsHeader(text[h])  BY HeadersAre
  <2>. QED  BY <1>1, <2>1 DEF Renamed, IsHeader
<1>8. WellFormed(text, h, Len(text))  BY <1>6 DEF IsPatchText
<1>9. \A n \in W :
         \/ IsContent(text[n])
         \/ text[n].kind = "@@" /\ n + 1 \in W /\ IsContent(text[n + 1])
         \/ text[n].kind = "eof" /\ n + 1 \notin W /\ n - 1 \in W /\ IsContent(text[n - 1])
  BY <1>7, <1>8 DEF WellFormed
<1>10. EmptyOf(file, within) <=> B = {}  BY EmptyIs
<1>. HIDE DEF B, W
<1>11. to - 1 + 1 = to  OBVIOUS
<1>12. CASE within.eof
  <2>1. to - 1 \in W /\ text[to - 1].kind = "eof"  BY <1>2, <1>3, <1>5, <1>12
  <2>2. to \notin W  BY <1>9, <1>11, <2>1 DEF IsContent
  <2>. QED  BY <1>5, <2>2
<1>13. CASE text[to].kind = "@@" /\ (within.pending \/ (~EmptyOf(file, within) /\ within.lines = 0))
  <2>1. to - 1 \in W /\ text[to - 1].kind = "@@"  BY <1>2, <1>3, <1>5, <1>10, <1>13
  <2>2. IsContent(text[to])  BY <1>9, <1>11, <2>1 DEF IsContent
  <2>. QED  BY <1>13, <2>2 DEF IsContent
<1>14. CASE text[to].kind = "eof" /\ (within.lines = 0 \/ within.pending)
  <2>1. to - 1 \in W /\ IsContent(text[to - 1])  BY <1>5, <1>9, <1>14 DEF IsContent
  <2>. QED  BY <1>2, <1>5, <1>14, <2>1 DEF IsContent
<1>15. CASE ~IsContent(text[to]) /\ text[to].kind \notin {"@@", "eof"}  BY <1>5, <1>9, <1>15
<1>. QED  BY <1>12, <1>13, <1>14, <1>15 DEF StrayAt

\* Where the body of a file ends.
EndsAt(text, to, op) ==
    CASE op = "add" -> to >= Len(text) \/ text[to].kind # "+"
      [] op = "delete" -> TRUE
      [] op \in {"update", "rename"} -> to >= Len(text) \/ IsHeader(text[to])
      [] op = "none" -> FALSE

\* What makes parsePatch refuse a file where its body ends.
Lacking(file, within) == within.pending \/ (EmptyOf(file, within) /\ file.op \in {"add", "update"})

\* The kinds of files that are open, and the headers they have.
LEMMA OpenKinds ==
    ASSUME NEW text \in Seq(PatchLine), NEW to \in Nat, NEW h \in HeadersIn(text, to), NEW file, NEW within,
           OpenIsRead(text, to, h, file, within)
    PROVE  /\ file.op \in {"add", "delete", "update", "rename"}
           /\ file.op = "add" <=> text[h].kind = "add"
           /\ file.op = "delete" <=> text[h].kind = "delete"
           /\ file.op \in {"update", "rename"} <=> text[h].kind = "update"
           /\ file.op = "rename" <=> Renamed(text, h)
<1>1. IsHeader(text[h])  BY HeadersAre
<1>2. file.op = (IF Renamed(text, h) THEN "rename" ELSE text[h].kind)  BY DEF OpenIsRead
<1>3. CASE Renamed(text, h)
  <2>1. text[h].kind = "update"  BY <1>3 DEF Renamed
  <2>. QED  BY <1>2, <1>3, <2>1
<1>4. CASE ~Renamed(text, h)  BY <1>1, <1>2, <1>4 DEF IsHeader
<1>. QED  BY <1>3, <1>4

\* A file whose body is not lacking has the body its kind asks for, if no line
\* of it is left.
LEMMA ClosedIsWhole ==
    ASSUME NEW text \in Seq(PatchLine), NEW to \in Nat, NEW h \in HeadersIn(text, to),
           NEW file, NEW within \in Block, IsLastHeader(text, h, to), OpenIsRead(text, to, h, file, within)
    PROVE  WellFormed(text, h, to) <=> ~Lacking(file, within)
<1>. DEFINE B == BodyOf(text, h, to)
<1>1. /\ file.op \in {"add", "delete", "update", "rename"}
      /\ file.op = "add" <=> text[h].kind = "add"
      /\ file.op = "delete" <=> text[h].kind = "delete"
      /\ file.op \in {"update", "rename"} <=> text[h].kind = "update"
      /\ file.op = "rename" <=> Renamed(text, h)
  BY OpenKinds
<1>2. CASE file.op = "add"
  <2>1. within = NoBlock /\ \A n \in B : text[n].kind = "+"  BY <1>2 DEF OpenIsRead
  <2>2. ~within.pending  BY <2>1 DEF NoBlock
  <2>3. EmptyOf(file, within) <=> B = {}  BY <1>2, EmptyIs
  <2>4. WellFormed(text, h, to) <=> B # {}  BY <1>1, <1>2, <2>1 DEF WellFormed
  <2>. QED  BY <1>2, <2>2, <2>3, <2>4 DEF Lacking
<1>3. CASE file.op = "delete"
  <2>1. within = NoBlock /\ B = {}  BY <1>3 DEF OpenIsRead
  <2>2. ~within.pending  BY <2>1 DEF NoBlock
  <2>3. WellFormed(text, h, to)  BY <1>1, <1>3, <2>1 DEF WellFormed
  <2>. QED  BY <1>3, <2>2, <2>3 DEF Lacking
<1>4. CASE file.op \in {"update", "rename"}
  <2>1. within.pending <=> B # {} /\ text[to - 1].kind = "@@"  BY <1>4 DEF OpenIsRead
  <2>2. \A n \in B :
           \/ IsContent(text[n])
           \/ text[n].kind = "@@" /\ (n + 1 \in B => IsContent(text[n + 1]))
           \/ text[n].kind = "eof" /\ n + 1 \notin B /\ n - 1 \in B /\ IsContent(text[n - 1])
    BY <1>4 DEF OpenIsRead
  <2>3. EmptyOf(file, within) <=> B = {}  BY <1>4, EmptyIs
  <2>4. /\ B # {} => to - 1 \in B
        /\ \A n \in B : n \in Nat /\ (n + 1 \in B \/ n = to - 1) /\ n # to
    BY BodyIsWhole
  <2>5. WellFormed(text, h, to) <=>
          /\ B # {} \/ Renamed(text, h)
          /\ \A n \in B :
               \/ IsContent(text[n])
               \/ text[n].kind = "@@" /\ n + 1 \in B /\ IsContent(text[n + 1])
               \/ text[n].kind = "eof" /\ n + 1 \notin B /\ n - 1 \in B /\ IsContent(text[n - 1])
    BY <1>1, <1>4 DEF WellFormed
  <2>6. EmptyOf(file, within) /\ file.op \in {"add", "update"} <=> B = {} /\ ~Renamed(text, h)  BY <1>1, <1>4, <2>3
  <2>. HIDE DEF B
  <2>7. ASSUME within.pending PROVE ~WellFormed(text, h, to)
    <3>1. to - 1 \in B /\ text[to - 1].kind = "@@"  BY <2>1, <2>4, <2>7
    <3>2. to - 1 + 1 = to /\ to \notin B  BY <2>4
    <3>. QED  BY <2>5, <3>1, <3>2 DEF IsContent
  <2>8. ASSUME ~Lacking(file, within) PROVE WellFormed(text, h, to)
    <3>1. ~within.pending /\ (B # {} \/ Renamed(text, h))  BY <2>6, <2>8 DEF Lacking
    <3>2. ASSUME NEW n \in B, text[n].kind = "@@" PROVE n + 1 \in B
      <4>1. n # to - 1  BY <2>1, <3>1, <3>2
      <4>. QED  BY <2>4, <4>1
    <3>. QED  BY <2>2, <2>5, <3>1, <3>2
  <2>. QED  BY <2>5, <2>6, <2>7, <2>8 DEF Lacking
<1>. QED  BY <1>1, <1>2, <1>3, <1>4

\* A file that ends lacking what its kind asks for makes the text no patch.
LEMMA LackingIsNoPatch ==
    ASSUME NEW text \in Seq(PatchLine), NEW to \in Nat, NEW h \in HeadersIn(text, to),
           NEW file, NEW within \in Block, IsLastHeader(text, h, to), OpenIsRead(text, to, h, file, within),
           to <= Len(text), EndsAt(text, to, file.op), Lacking(file, within)
    PROVE  ~IsPatchText(text)
<1>. SUFFICES ASSUME IsPatchText(text) PROVE FALSE  OBVIOUS
<1>1. Len(text) \in Nat  OBVIOUS
<1>2. h \in HeadersIn(text, Len(text))  BY <1>1, HeadersGrow
<1>3. WellFormed(text, h, Len(text))  BY <1>2 DEF IsPatchText
<1>4. ~WellFormed(text, h, to)  BY ClosedIsWhole
<1>5. CASE to = Len(text)  BY <1>3, <1>4, <1>5
<1>6. CASE to # Len(text) /\ IsHeader(text[to])
  <2>1. h \in Nat /\ h < to  BY HeadersAre
  <2>2. to \in (h + 1)..to /\ Len(text) >= to  BY <2>1
  <2>3. WellFormed(text, h, Len(text)) <=> WellFormed(text, h, to)  BY <1>1, <1>6, <2>2, FileStays
  <2>. QED  BY <1>3, <1>4, <2>3
<1>7. CASE to # Len(text) /\ ~IsHeader(text[to])
  <2>1. ~(to >= Len(text))  BY <1>1, <1>7
  <2>2. file.op # "update" /\ file.op # "rename"  BY <1>7, <2>1 DEF EndsAt
  <2>3. file.op # "delete"
    <3>1. file.op = "delete" => within = NoBlock  BY DEF OpenIsRead
    <3>2. ~NoBlock.pending  BY DEF NoBlock
    <3>. QED  BY <3>1, <3>2 DEF Lacking
  <2>4. file.op = "add" /\ text[h].kind = "add"  BY <2>2, <2>3, OpenKinds
  <2>5. text[to].kind # "+"  BY <2>1, <2>4 DEF EndsAt
  <2>6. BodyStart(text, h) <= to /\ to < Len(text)
    <3>1. BodyStart(text, h) <= to  BY DEF OpenIsRead
    <3>2. to < Len(text)  BY <1>1, <2>1
    <3>. QED  BY <3>1, <3>2
  <2>7. to \in BodyOf(text, h, Len(text))  BY <1>1, <1>7, <2>6, BodyGrows
  <2>. QED  BY <1>3, <2>4, <2>5, <2>7 DEF WellFormed
<1>. QED  BY <1>5, <1>6, <1>7

\* A line that begins no file, after a file that was closed or before the first,
\* makes the text no patch.
LEMMA NoFileIsNoPatch ==
    ASSUME NEW text \in Seq(PatchLine), NEW to \in Nat, NEW within, NEW files,
           ReadSoFar(text, to, NoneOpen, within, files), to < Len(text), ~IsHeader(text[to]),
           text[to].kind = "environment" => to > 2
    PROVE  ~IsPatchText(text)
<1>. SUFFICES ASSUME IsPatchText(text) PROVE FALSE  OBVIOUS
<1>1. Len(text) \in Nat  OBVIOUS
<1>2. CASE HeadersIn(text, to) = {}
  <2>1. to = FirstFile(text)  BY <1>2, HeaderHere
  <2>. QED  BY <2>1 DEF IsPatchText
<1>3. CASE HeadersIn(text, to) # {}
  <2>1. PICK h \in HeadersIn(text, to) : IsLastHeader(text, h, to)  BY <1>3, LastHeaderExists
  <2>2. NotContinued(text, to, h)  BY <2>1 DEF ReadSoFar
  <2>3. text[h].kind = "delete" \/ (text[h].kind = "add" /\ text[to].kind # "+")  BY <2>2 DEF NotContinued
  <2>4. BodyStart(text, h) <= to
    <3>1. h \in Nat /\ h < to  BY HeadersAre
    <3>2. ~Renamed(text, h)  BY <2>3 DEF Renamed
    <3>. QED  BY <3>1, <3>2 DEF BodyStart
  <2>5. to \in BodyOf(text, h, Len(text))  BY <1>1, <2>1, <2>4, BodyGrows
  <2>6. h \in HeadersIn(text, Len(text))
    <3>1. to <= Len(text)  BY <1>1
    <3>. QED  BY <1>1, <3>1, HeadersGrow
  <2>7. WellFormed(text, h, Len(text))  BY <2>6 DEF IsPatchText
  <2>. QED  BY <2>3, <2>5, <2>7 DEF WellFormed
<1>. QED  BY <1>2, <1>3

\* What is kept of a file that is closed.
AsRead(file) == [file EXCEPT !.removed = IF file.op = "delete" THEN None ELSE <<@>>]

\* A file whose body is whole is read.
LEMMA FileCloses ==
    ASSUME NEW text \in Seq(PatchLine), NEW to \in Nat, NEW file \in OpenFiles, file # NoneOpen, NEW within \in Block,
           NEW F, NEW files \in Seq(F), AsRead(file) \in F,
           ReadSoFar(text, to, file, within, files), EndsAt(text, to, file.op), ~Lacking(file, within)
    PROVE  ReadSoFar(text, to, NoneOpen, within, Append(files, AsRead(file)))
<1>. DEFINE H == HeadersIn(text, to)
            closed == {h \in H : ~IsLastHeader(text, h, to)}
            more == Append(files, AsRead(file))
<1>1. /\ Len(text) > 1 /\ text[Len(text)].kind = "end" /\ to \in 2..Len(text)
      /\ to > 2 /\ FirstFile(text) = 3 => text[2].path # ""
      /\ H # {} /\ IsHeader(text[FirstFile(text)])
      /\ PathsDiffer(text, to)
      /\ Len(files) = Cardinality(H) - 1
      /\ \A h \in closed : WellFormed(text, h, to) /\ files[Rank(text, h)] = FileAt(text, h, to)
      /\ \A n \in DOMAIN files : \E h \in closed : files[n] = FileAt(text, h, to)
      /\ \A h \in H : IsLastHeader(text, h, to) => OpenIsRead(text, to, h, file, within)
  BY DEF ReadSoFar
<1>2. PICK last \in H : IsLastHeader(text, last, to) /\ OpenIsRead(text, to, last, file, within)
  BY <1>1, LastHeaderExists
<1>3. /\ file.op \in {"add", "delete", "update", "rename"}
      /\ file.op = "add" <=> text[last].kind = "add"
      /\ file.op = "delete" <=> text[last].kind = "delete"
      /\ file.op \in {"update", "rename"} <=> text[last].kind = "update"
      /\ file.op = "rename" <=> Renamed(text, last)
  BY <1>2, OpenKinds
<1>4. WellFormed(text, last, to)  BY <1>2, ClosedIsWhole
<1>5. FileAt(text, last, to) = AsRead(file)
  <2>1. /\ file.op = (IF Renamed(text, last) THEN "rename" ELSE text[last].kind)
        /\ file.path = text[BodyStart(text, last) - 1].path
        /\ file.from = (IF Renamed(text, last) THEN text[last].path ELSE "")
        /\ file.added = Number(text, last, to, "+")
        /\ file.removed = Number(text, last, to, "-")
    BY <1>2 DEF OpenIsRead
  <2>2. AsRead(file) = [op |-> file.op, path |-> file.path, from |-> file.from, added |-> file.added,
                      removed |-> IF file.op = "delete" THEN None ELSE <<file.removed>>]
    BY DEF AsRead, OpenFiles
  <2>3. (IF file.op = "delete" THEN None ELSE <<file.removed>>) =
          (IF text[last].kind = "delete" THEN None ELSE <<Number(text, last, to, "-")>>)
    BY <1>3, <2>1
  <2>. QED  BY <2>1, <2>2, <2>3, Zenon DEF FileAt
<1>6. Cardinality(H) \in Nat  BY HeadersAre
<1>7. /\ Len(more) = Cardinality(H)
      /\ \A n \in 1..Len(files) : more[n] = files[n]
      /\ more[Cardinality(H)] = AsRead(file)
      /\ DOMAIN more = 1..Cardinality(H) /\ DOMAIN files = 1..(Cardinality(H) - 1)
  <2>1. Len(files) \in Nat /\ Len(files) = Cardinality(H) - 1
    <3>1. Len(files) = Cardinality(H) - 1  BY <1>1
    <3>2. Len(files) \in Nat  OBVIOUS
    <3>. QED  BY <3>1, <3>2
  <2>2. Len(files) + 1 = Cardinality(H)  BY <1>6, <2>1
  <2>3. /\ Len(more) = Len(files) + 1 /\ more[Len(files) + 1] = AsRead(file)
        /\ \A n \in 1..Len(files) : more[n] = files[n]
        /\ DOMAIN more = 1..(Len(files) + 1) /\ DOMAIN files = 1..Len(files)
    OBVIOUS
  <2>. QED  BY <2>1, <2>2, <2>3
<1>8. \A h \in H : h # last => h \in closed  BY <1>2, RanksAre
<1>9. ASSUME NEW h \in H PROVE WellFormed(text, h, to) /\ more[Rank(text, h)] = FileAt(text, h, to)
  <2>1. CASE h = last
    <3>1. Rank(text, last) = Cardinality(H)  BY <1>2, RanksAre
    <3>. QED  BY <1>4, <1>5, <1>7, <2>1, <3>1
  <2>2. CASE h # last
    <3>1. h \in closed  BY <1>8, <2>2
    <3>2. Rank(text, h) \in 1..Cardinality(H) /\ Rank(text, h) < Cardinality(H)  BY <3>1, RanksAre
    <3>3. Rank(text, h) \in 1..Len(files)
      <4>1. Len(files) = Cardinality(H) - 1  BY <1>1
      <4>. QED  BY <1>6, <3>2, <4>1
    <3>. QED  BY <1>1, <1>7, <3>1, <3>3
  <2>. QED  BY <2>1, <2>2
<1>10. ASSUME NEW n \in DOMAIN more PROVE \E h \in H : more[n] = FileAt(text, h, to)
  <2>1. CASE n = Cardinality(H)  BY <1>5, <1>7, <2>1
  <2>2. CASE n # Cardinality(H)
    <3>1. n \in 1..Cardinality(H)  BY <1>7
    <3>2. n \in 1..(Cardinality(H) - 1)  BY <1>6, <2>2, <3>1
    <3>3. n \in DOMAIN files /\ n \in 1..Len(files)  BY <1>1, <1>7, <3>2
    <3>. QED  BY <1>1, <1>7, <3>3
  <2>. QED  BY <2>1, <2>2
<1>11. NotContinued(text, to, last)
  <2>1. ASSUME to < Len(text), ~IsHeader(text[to])
        PROVE  \/ text[last].kind = "delete" \/ (text[last].kind = "add" /\ text[to].kind # "+")
    <3>1. ~(to >= Len(text))
      <4>1. Len(text) \in Nat  OBVIOUS
      <4>. QED  BY <2>1, <4>1
    <3>. QED  BY <1>3, <2>1, <3>1 DEF EndsAt
  <2>. QED  BY <2>1 DEF NotContinued
<1>12. \A h \in H : IsLastHeader(text, h, to) => h = last  BY <1>2, RanksAre
<1>13. {h \in H : NoneOpen = NoneOpen \/ ~IsLastHeader(text, h, to)} = H  OBVIOUS
<1>14. Len(more) = Cardinality(H) - 0  BY <1>6, <1>7
<1>15. \A h \in H : IsLastHeader(text, h, to) => NotContinued(text, to, h)  BY <1>11, <1>12
<1>. HIDE DEF H, closed, more
<1>16. ReadSoFar(text, to, NoneOpen, within, more)
  BY <1>1, <1>9, <1>10, <1>13, <1>14, <1>15 DEF ReadSoFar, H
<1>. QED  BY <1>16 DEF more

\* Where every line is read the text is a patch, and the files are those of its
\* headers.
LEMMA AllIsRead ==
    ASSUME NEW text \in Seq(PatchLine), NEW to \in Nat, NEW within, NEW files,
           ReadSoFar(text, to, NoneOpen, within, files), ~(to < Len(text))
    PROVE  /\ IsPatchText(text) /\ Len(files) = Cardinality(HeadersIn(text, Len(text)))
           /\ \A h \in HeadersIn(text, Len(text)) : files[Rank(text, h)] = FileAt(text, h, Len(text))
<1>. DEFINE H == HeadersIn(text, to)
<1>1. /\ Len(text) > 1 /\ to \in 2..Len(text)
      /\ to > 2 /\ FirstFile(text) = 3 => text[2].path # ""
      /\ IF H = {} THEN to <= FirstFile(text) ELSE IsHeader(text[FirstFile(text)])
      /\ PathsDiffer(text, to)
      /\ Len(files) = Cardinality(H) - 0
      /\ \A h \in H : WellFormed(text, h, to) /\ files[Rank(text, h)] = FileAt(text, h, to)
  BY DEF ReadSoFar
<1>2. to = Len(text)
  <2>1. Len(text) \in Nat  OBVIOUS
  <2>2. to \in 2..Len(text)  BY <1>1
  <2>. QED  BY <2>1, <2>2
<1>3. Len(files) = Cardinality(H)
  <2>1. Cardinality(H) \in Nat  BY HeadersAre
  <2>2. Len(files) = Cardinality(H) - 0  BY <1>1
  <2>. QED  BY <2>1, <2>2
<1>4. FirstFile(text) = 3 => text[2].path # ""
  <2>1. FirstFile(text) = 3 => Len(text) > 2  BY DEF FirstFile
  <2>2. FirstFile(text) = 3 => to > 2  BY <1>2, <2>1
  <2>. QED  BY <1>1, <2>2
<1>5. FirstFile(text) < to => IsHeader(text[FirstFile(text)])
  <2>1. FirstFile(text) \in {2, 3}  BY HeadersAre
  <2>2. H = {} => ~(FirstFile(text) < to)
    <3>1. H = {} => to <= FirstFile(text)  BY <1>1
    <3>2. FirstFile(text) \in Nat  BY <2>1
    <3>. QED  BY <3>1, <3>2
  <2>. QED  BY <1>1, <2>2
<1>6. IsPatchText(text)  BY <1>1, <1>2, <1>4, <1>5 DEF IsPatchText
<1>. QED  BY <1>1, <1>2, <1>3, <1>6

-----------------------------------------------------------------------------
(* The steps of the reading *)

\* What is kept of the files read.
ReadFiles ==
    [op : {"add", "update", "delete", "rename"}, path : Paths, from : Paths, added : Nat, removed : Seq(Nat)]

\* What the types of the variables are, by their names here.
LEMMA EditTypes ==
    ASSUME EditTypeOK
    PROVE  /\ patchText \in Seq(PatchLine) /\ patchText \in PatchInputs /\ lineNo \in Nat \ {0}
           /\ opened \in OpenFiles /\ block \in Block /\ readFiles \in Seq(ReadFiles)
           /\ patchVerdict \in {"reading", "ok", "truncated", "invalid"} /\ Len(patchText) \in Nat
<1>1. patchText \in Seq(PatchLine)  BY EditAssumption DEF EditTypeOK, PatchLine
<1>2. Len(patchText) \in Nat  BY <1>1
<1>3. opened \in OpenFiles /\ block \in Block /\ readFiles \in Seq(ReadFiles)
  BY DEF EditTypeOK, OpenFiles, Block, ReadFiles
<1>. QED  BY <1>1, <1>2, <1>3 DEF EditTypeOK

\* A line is left where the patch does not end.
LEMMA LinesLeft ==
    ASSUME EditTypeOK
    PROVE  NoLineLeft <=> ~(lineNo < Len(patchText))
<1>1. lineNo \in Nat /\ Len(patchText) \in Nat  BY EditTypes
<1>. QED  BY <1>1 DEF NoLineLeft, End

\* The empty body of the open file.
LEMMA EmptyBodyIs == EmptyBody <=> EmptyOf(opened, block)
BY DEF EmptyBody, EmptyOf

\* The paths seen.
LEMMA SeenPathsAre == SeenPaths = SeenIn(readFiles)
BY DEF SeenPaths, SeenIn

\* While a patch is parsed, what is said of its reading holds.
LEMMA ParsingReads ==
    ASSUME EditInv, Parsing
    PROVE  /\ EditTypeOK /\ ReadSoFar(patchText, lineNo, opened, block, readFiles)
           /\ lineNo \in Nat /\ lineNo > 1 /\ lineNo <= Len(patchText)
<1>1. EditTypeOK /\ ReadingOK  BY DEF EditInv
<1>2. lineNo \in Nat /\ Len(patchText) \in Nat  BY <1>1, EditTypes
<1>3. patchVerdict = "reading" /\ lineNo > 1 /\ lineNo # 1  BY <1>2 DEF Parsing
<1>4. ReadSoFar(patchText, lineNo, opened, block, readFiles)  BY <1>1, <1>3 DEF ReadingOK
<1>5. lineNo \in 2..Len(patchText)  BY <1>4 DEF ReadSoFar
<1>. QED  BY <1>1, <1>2, <1>3, <1>4, <1>5

\* A verdict on a text that is no patch.
LEMMA ConcludeInvalid ==
    ASSUME EditInv, Conclude("invalid"), lineNo > 1 => ~IsPatchText(patchText)
    PROVE  EditInv'
<1>1. EditTypeOK /\ CountedOK  BY DEF EditInv
<1>2. /\ patchVerdict' = "invalid" /\ readFiles' = <<>>
      /\ patchText' = patchText /\ lineNo' = lineNo /\ opened' = opened /\ block' = block /\ counted' = counted
  BY DEF Conclude
<1>3. EditTypeOK'  BY <1>1, <1>2 DEF EditTypeOK
<1>4. CountedOK'  BY <1>1, <1>2 DEF CountedOK
<1>5. ReadingOK'  BY <1>2 DEF ReadingOK
<1>6. PatchesReadTruly'  BY <1>2 DEF PatchesReadTruly
<1>. QED  BY <1>3, <1>4, <1>5, <1>6 DEF EditInv

\* A step of the reading.
LEMMA ReadStep ==
    ASSUME EditInv, EditTypeOK', patchText' = patchText, counted' = counted, patchVerdict' = "reading", lineNo' # 1,
           ReadSoFar(patchText', lineNo', opened', block', readFiles')
    PROVE  EditInv'
<1>1. CountedOK'  BY DEF EditInv, CountedOK
<1>2. ReadingOK'  BY DEF ReadingOK
<1>3. PatchesReadTruly'  BY DEF PatchesReadTruly
<1>. QED  BY <1>1, <1>2, <1>3 DEF EditInv

\* The first line and the last.
LEMMA FrameReads ==
    ASSUME EditInv, Frame
    PROVE  EditInv'
<1>1. EditTypeOK /\ CountedOK /\ ReadingOK  BY DEF EditInv
<1>2. /\ patchText \in Seq(PatchLine) /\ Len(patchText) \in Nat
      /\ lineNo = 1 /\ patchVerdict = "reading"
  BY <1>1, EditTypes DEF Frame
<1>3. opened = NoneOpen /\ readFiles = <<>>  BY <1>1, <1>2 DEF ReadingOK
<1>4. \/ Conclude("invalid")
      \/ patchText[1].kind = "begin" /\ Conclude("truncated")
      \/ /\ Len(patchText) >= 2 /\ Last(patchText).kind = "end"
         /\ lineNo' = 2 /\ UNCHANGED <<patchText, opened, block, readFiles, patchVerdict, counted>>
  <2>1. \/ Len(patchText) < 2 \/ patchText[1].kind # "begin"
        \/ Len(patchText) >= 2 /\ patchText[1].kind = "begin" /\ Last(patchText).kind # "end"
        \/ Len(patchText) >= 2 /\ patchText[1].kind = "begin" /\ Last(patchText).kind = "end"
    <3>1. Len(patchText) < 2 \/ Len(patchText) >= 2  BY <1>2
    <3>. QED  BY <3>1
  <2>2. ~(Len(patchText) < 2 /\ Len(patchText) >= 2)  BY <1>2
  <2>. QED  BY <2>1, <2>2 DEF Frame
<1>5. CASE Conclude("invalid")
  <2>1. ~(lineNo > 1)  BY <1>2
  <2>. QED  BY <1>5, <2>1, ConcludeInvalid
<1>6. CASE patchText[1].kind = "begin" /\ Conclude("truncated")
  <2>1. /\ patchVerdict' = "truncated" /\ readFiles' = <<>>
        /\ patchText' = patchText /\ lineNo' = lineNo /\ opened' = opened /\ block' = block /\ counted' = counted
    BY <1>6 DEF Conclude
  <2>2. EditTypeOK'  BY <1>1, <2>1 DEF EditTypeOK
  <2>3. CountedOK'  BY <1>1, <2>1 DEF CountedOK
  <2>4. ReadingOK'  BY <2>1 DEF ReadingOK
  <2>5. PatchesReadTruly'  BY <1>6, <2>1 DEF PatchesReadTruly
  <2>. QED  BY <2>2, <2>3, <2>4, <2>5 DEF EditInv
<1>7. CASE /\ Len(patchText) >= 2 /\ Last(patchText).kind = "end"
           /\ lineNo' = 2 /\ UNCHANGED <<patchText, opened, block, readFiles, patchVerdict, counted>>
  <2>1. Framed(patchText)
    <3>1. Last(patchText) = patchText[Len(patchText)]  BY DEF Last
    <3>2. Len(patchText) > 1  BY <1>2, <1>7
    <3>. QED  BY <1>7, <3>1, <3>2 DEF Framed
  <2>2. ReadSoFar(patchText, 2, NoneOpen, block, readFiles)
    <3>1. 2 \in {2, 3} /\ 2 # 3  OBVIOUS
    <3>. QED  BY <1>2, <1>3, <2>1, <3>1, NoHeaderYet
  <2>3. ReadSoFar(patchText', lineNo', opened', block', readFiles')  BY <1>3, <1>7, <2>2
  <2>4. EditTypeOK'  BY <1>1, <1>7 DEF EditTypeOK
  <2>5. patchText' = patchText /\ counted' = counted /\ patchVerdict' = "reading" /\ lineNo' # 1  BY <1>2, <1>7
  <2>. QED  BY <2>3, <2>4, <2>5, ReadStep
<1>. QED  BY <1>4, <1>5, <1>6, <1>7

\* An environment with a name, and one without.
LEMMA NamedEnvironmentReads ==
    ASSUME EditInv, NamedEnvironment
    PROVE  EditInv'
<1>1. /\ EditTypeOK /\ ReadSoFar(patchText, lineNo, opened, block, readFiles)
      /\ lineNo = 2 /\ opened = NoneOpen /\ patchVerdict = "reading"
      /\ patchText[2].kind = "environment" /\ patchText \in Seq(PatchLine)
  BY ParsingReads, EditTypes DEF NamedEnvironment, Parsing, Here
<1>2. 2 < Len(patchText) /\ Len(patchText) \in Nat  BY <1>1, EditTypes, LinesLeft DEF NamedEnvironment
<1>3. FirstFile(patchText) = 3
  <2>1. Len(patchText) > 2  BY <1>2
  <2>. QED  BY <1>1, <2>1 DEF FirstFile
<1>4. CASE patchText[2].path = "" /\ Conclude("invalid")
  <2>1. ~IsPatchText(patchText)  BY <1>3, <1>4 DEF IsPatchText
  <2>. QED  BY <1>4, <2>1, ConcludeInvalid
<1>5. CASE /\ patchText[2].path # "" /\ lineNo' = lineNo + 1
           /\ UNCHANGED <<patchText, opened, block, readFiles, patchVerdict, counted>>
  <2>1. EnvironmentNamed(patchText)
    <3>1. Len(patchText) > 2  BY <1>2
    <3>. QED  BY <1>1, <1>5, <3>1 DEF EnvironmentNamed
  <2>2. Framed(patchText)
    <3>1. Len(patchText) > 1 /\ patchText[Len(patchText)].kind = "end"  BY <1>1 DEF ReadSoFar
    <3>. QED  BY <3>1 DEF Framed
  <2>3. readFiles = <<>>
    <3>1. HeadersIn(patchText, 2) = {}
      <4>1. \A n \in HeadersIn(patchText, 2) : n >= FirstFile(patchText) /\ n < 2 /\ n \in Nat  BY <1>1, HeadersAre
      <4>. QED  BY <1>3, <4>1
    <3>2. Len(readFiles) = Cardinality(HeadersIn(patchText, 2)) - 0  BY <1>1 DEF ReadSoFar
    <3>3. Len(readFiles) = 0
      <4>1. Cardinality(HeadersIn(patchText, 2)) = 0  BY <3>1, FS_EmptySet
      <4>. QED  BY <3>2, <4>1
    <3>4. readFiles \in Seq(ReadFiles)  BY <1>1, EditTypes
    <3>. QED  BY <3>3, <3>4
  <2>4. ReadSoFar(patchText, 3, NoneOpen, block, readFiles)
    <3>1. 3 \in {2, 3}  OBVIOUS
    <3>. QED  BY <1>1, <2>1, <2>2, <2>3, <3>1, NoHeaderYet
  <2>5. lineNo' = 3
    <3>1. lineNo = 2 /\ lineNo' = lineNo + 1  BY <1>1, <1>5
    <3>. QED  BY <3>1
  <2>6. ReadSoFar(patchText', lineNo', opened', block', readFiles')  BY <1>1, <1>5, <2>4, <2>5
  <2>7. EditTypeOK'
    <3>1. EditTypeOK /\ lineNo' \in Nat \ {0}  BY <1>1, <2>5
    <3>. QED  BY <1>5, <3>1 DEF EditTypeOK
  <2>8. patchText' = patchText /\ counted' = counted /\ patchVerdict' = "reading" /\ lineNo' # 1
    <3>1. patchVerdict = "reading"  BY <1>1
    <3>2. lineNo' # 1  BY <2>5
    <3>. QED  BY <1>5, <3>1, <3>2
  <2>. QED  BY <2>6, <2>7, <2>8, ReadStep
<1>. QED  BY <1>1, <1>4, <1>5 DEF NamedEnvironment, Here

\* No file is open at first.
LEMMA NoneOpenIs == NoneOpen.op = "none" /\ NoneOpen \in OpenFiles
<1>1. NoneOpen.op = "none"  BY DEF NoneOpen
<1>2. NoneOpen \in OpenFiles
  <2>1. 0 \in Nat /\ "" \in Paths /\ "none" \in {"none", "add", "update", "delete", "rename"}  BY DEF Paths
  <2>. QED  BY <2>1 DEF NoneOpen, OpenFiles
<1>. QED  BY <1>1, <1>2

\* A header: its file is opened, or the text is no patch.
LEMMA HeaderReads ==
    ASSUME EditInv, Header
    PROVE  EditInv'
<1>. DEFINE moved == Here.kind = "update" /\ lineNo < End /\ patchText[lineNo + 1].kind = "move"
            to == patchText[lineNo + 1].path
<1>1. /\ EditTypeOK /\ patchText \in Seq(PatchLine) /\ Len(patchText) \in Nat /\ readFiles \in Seq(ReadFiles)
      /\ lineNo \in Nat /\ lineNo > 1 /\ lineNo < Len(patchText)
  <2>1. /\ EditTypeOK /\ lineNo \in Nat /\ lineNo > 1  BY ParsingReads DEF Header
  <2>2. lineNo < Len(patchText)  BY <2>1, LinesLeft DEF Header
  <2>. QED  BY <2>1, <2>2, EditTypes
<1>2. ReadSoFar(patchText, lineNo, NoneOpen, block, readFiles)
  <2>1. opened = NoneOpen  BY DEF Header
  <2>. QED  BY <2>1, ParsingReads DEF Header
<1>3. (Here.kind = "environment" => lineNo > 2) /\ Here = patchText[lineNo] /\ opened = NoneOpen
      /\ patchVerdict = "reading"
  BY DEF Header, Here, Parsing
<1>4. moved <=> Renamed(patchText, lineNo)
  <2>1. ASSUME Renamed(patchText, lineNo) PROVE lineNo < End
    <3>1. patchText[lineNo + 1].kind = "move"  BY <2>1 DEF Renamed
    <3>2. patchText[Len(patchText)].kind = "end"  BY <1>2 DEF ReadSoFar
    <3>3. lineNo + 1 # Len(patchText)  BY <3>1, <3>2
    <3>. QED  BY <1>1, <3>3 DEF End
  <2>. QED  BY <1>3, <2>1 DEF Renamed
<1>. HIDE DEF moved, to
<1>5. \/ ~IsHeader(Here) /\ Conclude("invalid")
      \/ IsHeader(Here) /\ ~ValidPath(Here.path, SeenPaths) /\ Conclude("invalid")
      \/ /\ IsHeader(Here) /\ ValidPath(Here.path, SeenPaths) /\ moved
         /\ ~ValidPath(to, SeenPaths \cup {Here.path})
         /\ Conclude("invalid")
      \/ /\ IsHeader(Here) /\ ValidPath(Here.path, SeenPaths)
         /\ moved => ValidPath(to, SeenPaths \cup {Here.path})
         /\ opened' = IF moved THEN OpenFile("rename", to, Here.path) ELSE OpenFile(Here.kind, Here.path, "")
         /\ lineNo' = IF moved THEN lineNo + 2 ELSE lineNo + 1
         /\ block' = NoBlock
         /\ UNCHANGED <<patchText, readFiles, patchVerdict, counted>>
  BY DEF Header, moved, to
<1>6. CASE ~IsHeader(Here) /\ Conclude("invalid")
  <2>1. ~IsPatchText(patchText)  BY <1>1, <1>2, <1>3, <1>6, NoFileIsNoPatch
  <2>. QED  BY <1>6, <2>1, ConcludeInvalid
<1>7. ASSUME IsHeader(Here), Conclude("invalid"),
             \/ ~ValidPath(Here.path, SeenPaths)
             \/ moved /\ ~ValidPath(to, SeenPaths \cup {Here.path})
      PROVE  EditInv'
  <2>1. \/ ~ValidPath(patchText[lineNo].path, SeenIn(readFiles))
        \/ Renamed(patchText, lineNo)
           /\ ~ValidPath(patchText[lineNo + 1].path, SeenIn(readFiles) \cup {patchText[lineNo].path})
    BY <1>3, <1>4, <1>7, SeenPathsAre DEF to
  <2>2. IsHeader(patchText[lineNo])  BY <1>3, <1>7
  <2>3. ~IsPatchText(patchText)  BY <1>1, <1>2, <2>1, <2>2, PathTaken
  <2>. QED  BY <1>7, <2>3, ConcludeInvalid
<1>8. ASSUME IsHeader(Here), ValidPath(Here.path, SeenPaths),
             moved => ValidPath(to, SeenPaths \cup {Here.path}),
             opened' = IF moved THEN OpenFile("rename", to, Here.path) ELSE OpenFile(Here.kind, Here.path, ""),
             lineNo' = IF moved THEN lineNo + 2 ELSE lineNo + 1,
             block' = NoBlock,
             UNCHANGED <<patchText, readFiles, patchVerdict, counted>>
      PROVE  EditInv'
  <2>1. IsHeader(patchText[lineNo]) /\ ValidPath(patchText[lineNo].path, SeenIn(readFiles))
    BY <1>3, <1>8, SeenPathsAre
  <2>2. Renamed(patchText, lineNo) =>
          ValidPath(patchText[lineNo + 1].path, SeenIn(readFiles) \cup {patchText[lineNo].path})
    BY <1>3, <1>4, <1>8, SeenPathsAre DEF to
  <2>3. ReadSoFar(patchText, BodyStart(patchText, lineNo),
                  IF Renamed(patchText, lineNo)
                    THEN OpenFile("rename", patchText[lineNo + 1].path, patchText[lineNo].path)
                    ELSE OpenFile(patchText[lineNo].kind, patchText[lineNo].path, ""),
                  NoBlock, readFiles)
    BY <1>1, <1>2, <2>1, <2>2, FileOpens
  <2>4. lineNo' = BodyStart(patchText, lineNo)  BY <1>4, <1>8 DEF BodyStart
  <2>5. opened' = IF Renamed(patchText, lineNo)
                    THEN OpenFile("rename", patchText[lineNo + 1].path, patchText[lineNo].path)
                    ELSE OpenFile(patchText[lineNo].kind, patchText[lineNo].path, "")
    BY <1>3, <1>4, <1>8 DEF to
  <2>6. ReadSoFar(patchText', lineNo', opened', block', readFiles')  BY <1>8, <2>3, <2>4, <2>5
  <2>7. lineNo' \in Nat \ {0} /\ lineNo' # 1
    <3>1. lineNo \in Nat /\ lineNo > 1  BY <1>1
    <3>2. lineNo' = lineNo + 2 \/ lineNo' = lineNo + 1  BY <1>8
    <3>. QED  BY <3>1, <3>2
  <2>8. opened' \in OpenFiles
    <3>1. patchText[lineNo] \in PatchLine /\ patchText[lineNo + 1] \in PatchLine
      <4>1. lineNo \in 1..Len(patchText) /\ lineNo + 1 \in 1..Len(patchText)  BY <1>1
      <4>. QED  BY <1>1, <4>1
    <3>2. patchText[lineNo].path \in Paths /\ patchText[lineNo + 1].path \in Paths  BY <3>1 DEF PatchLine, Paths
    <3>3. patchText[lineNo].kind \in {"add", "update", "delete"}  BY <2>1 DEF IsHeader
    <3>4. ASSUME NEW op \in {"add", "update", "delete", "rename"}, NEW path \in Paths, NEW from \in Paths
          PROVE  OpenFile(op, path, from) \in OpenFiles
      BY DEF OpenFile, NoneOpen, OpenFiles
    <3>5. CASE Renamed(patchText, lineNo)
      <4>1. opened' = OpenFile("rename", patchText[lineNo + 1].path, patchText[lineNo].path)  BY <2>5, <3>5
      <4>. QED  BY <3>2, <3>4, <4>1
    <3>6. CASE ~Renamed(patchText, lineNo)
      <4>1. opened' = OpenFile(patchText[lineNo].kind, patchText[lineNo].path, "")  BY <2>5, <3>6
      <4>2. "" \in Paths  BY DEF Paths
      <4>. QED  BY <3>2, <3>3, <3>4, <4>1, <4>2
    <3>. QED  BY <3>5, <3>6
  <2>9. EditTypeOK'
    <3>1. block' \in Block  BY <1>8 DEF NoBlock, Block
    <3>. QED  BY <1>1, <1>8, <2>7, <2>8, <3>1 DEF EditTypeOK, OpenFiles, Block
  <2>10. patchText' = patchText /\ counted' = counted /\ patchVerdict' = "reading"  BY <1>3, <1>8
  <2>. QED  BY <2>6, <2>7, <2>9, <2>10, ReadStep
<1>. QED  BY <1>5, <1>6, <1>7, <1>8

\* A line of a file that is created.
LEMMA CreatedLineReads ==
    ASSUME EditInv, CreatedLine
    PROVE  EditInv'
<1>1. /\ EditTypeOK /\ patchText \in Seq(PatchLine) /\ opened \in OpenFiles
      /\ lineNo \in Nat /\ lineNo < Len(patchText)
  <2>1. /\ EditTypeOK /\ lineNo \in Nat  BY ParsingReads DEF CreatedLine
  <2>2. lineNo < Len(patchText)  BY <2>1, LinesLeft DEF CreatedLine
  <2>. QED  BY <2>1, <2>2, EditTypes
<1>2. ReadSoFar(patchText, lineNo, opened, block, readFiles)  BY ParsingReads DEF CreatedLine
<1>3. /\ opened.op = "add" /\ patchText[lineNo].kind = "+" /\ patchVerdict = "reading"
      /\ opened' = [opened EXCEPT !.added = @ + 1]
      /\ lineNo' = lineNo + 1
      /\ UNCHANGED <<patchText, block, readFiles, patchVerdict, counted>>
  BY DEF CreatedLine, Here, Parsing
<1>4. opened' = CountedIn(opened, patchText[lineNo])  BY <1>1, <1>3 DEF CountedIn, OpenFiles
<1>5. opened' \in OpenFiles /\ opened'.op = "add"
  <2>1. /\ CountedIn(opened, patchText[lineNo]) \in OpenFiles
        /\ CountedIn(opened, patchText[lineNo]).op = opened.op
    BY <1>1, CountedIs, Zenon
  <2>2. opened.op = "add"  BY <1>3
  <2>. QED  BY <1>4, <2>1, <2>2
<1>6. ReadSoFar(patchText, lineNo + 1, opened', block, readFiles)
  <2>1. opened # NoneOpen /\ opened' # NoneOpen
    <3>1. opened.op = "add" /\ opened'.op = "add"  BY <1>3, <1>5
    <3>. QED  BY <3>1, NoneOpenIs
  <2>2. ~IsHeader(patchText[lineNo])  BY <1>3 DEF IsHeader
  <2>3. \A h \in HeadersIn(patchText, lineNo) :
           IsLastHeader(patchText, h, lineNo) /\ OpenIsRead(patchText, lineNo, h, opened, block) =>
              OpenIsRead(patchText, lineNo + 1, h, opened', block)
    <3>1. opened.op = "add" /\ patchText[lineNo].kind = "+"  BY <1>3
    <3>. QED  BY <1>1, <1>4, <3>1, CreatedLineRead
  <2>. QED  BY <1>1, <1>2, <2>1, <2>2, <2>3, LineIsRead
<1>7. EditTypeOK'
  <2>1. lineNo' \in Nat \ {0}  BY <1>1, <1>3
  <2>. QED  BY <1>1, <1>3, <1>5, <2>1 DEF EditTypeOK, OpenFiles
<1>8. lineNo' # 1
  <2>1. lineNo \in Nat /\ lineNo > 1  BY ParsingReads DEF CreatedLine
  <2>. QED  BY <1>3, <2>1
<1>. QED  BY <1>3, <1>6, <1>7, <1>8, ReadStep

\* A line of a file that is changed, or one that is out of place.
LEMMA ChangedLineReads ==
    ASSUME EditInv, ChangedLine
    PROVE  EditInv'
<1>1. /\ EditTypeOK /\ patchText \in Seq(PatchLine) /\ opened \in OpenFiles /\ block \in Block
      /\ lineNo \in Nat /\ lineNo < Len(patchText)
  <2>1. /\ EditTypeOK /\ lineNo \in Nat  BY ParsingReads DEF ChangedLine
  <2>2. lineNo < Len(patchText)  BY <2>1, LinesLeft DEF ChangedLine
  <2>. QED  BY <2>1, <2>2, EditTypes
<1>2. ReadSoFar(patchText, lineNo, opened, block, readFiles)  BY ParsingReads DEF ChangedLine
<1>3. /\ opened.op \in {"update", "rename"} /\ ~IsHeader(patchText[lineNo]) /\ patchVerdict = "reading"
      /\ Here = patchText[lineNo]
  BY DEF ChangedLine, Here, Parsing
<1>4. opened # NoneOpen  BY <1>3, NoneOpenIs
<1>5. StrayLine <=> StrayAt(patchText[lineNo], opened, block)  BY <1>3, EmptyBodyIs DEF StrayLine, StrayAt
<1>6. CASE StrayLine /\ Conclude("invalid")
  <2>1. PICK h \in HeadersIn(patchText, lineNo) :
           IsLastHeader(patchText, h, lineNo) /\ OpenIsRead(patchText, lineNo, h, opened, block)
    BY <1>1, <1>2, <1>4, OpenFileIs
  <2>2. ~IsPatchText(patchText)  BY <1>1, <1>3, <1>5, <1>6, <2>1, StrayIsNoPatch
  <2>. QED  BY <1>6, <2>2, ConcludeInvalid
<1>7. CASE ~StrayLine /\ ~(StrayLine /\ Conclude("invalid"))
  <2>1. /\ opened' = [opened EXCEPT !.added = IF Here.kind = "+" THEN @ + 1 ELSE @,
                                    !.removed = IF Here.kind = "-" THEN @ + 1 ELSE @]
        /\ block' = CASE Here.kind = "@@" -> [block EXCEPT !.pending = TRUE, !.lines = 0]
                      [] Here.kind = "eof" -> [block EXCEPT !.eof = TRUE]
                      [] IsContent(Here) -> [block EXCEPT !.pending = FALSE, !.lines = @ + 1]
        /\ lineNo' = lineNo + 1
        /\ UNCHANGED <<patchText, readFiles, patchVerdict, counted>>
    BY <1>7 DEF ChangedLine
  <2>2. opened' = CountedIn(opened, patchText[lineNo])  BY <1>3, <2>1 DEF CountedIn
  <2>3. block' = BlockAfter(block, patchText[lineNo])  BY <1>3, <2>1 DEF BlockAfter
  <2>4. ~StrayAt(patchText[lineNo], opened, block)  BY <1>5, <1>7
  <2>5. opened' \in OpenFiles /\ opened'.op \in {"update", "rename"}  BY <1>1, <1>3, <2>2, CountedIs
  <2>6. block' \in Block
    <3>1. /\ IsContent(patchText[lineNo]) \/ patchText[lineNo].kind \in {"@@", "eof"}
          /\ ~block.eof
          /\ patchText[lineNo].kind = "eof" => block.lines # 0 /\ ~block.pending
      BY <2>4 DEF StrayAt
    <3>. QED  BY <1>1, <2>3, <3>1, BlockAfterIs
  <2>7. ReadSoFar(patchText, lineNo + 1, opened', block', readFiles)
    <3>1. opened' # NoneOpen  BY <2>5, NoneOpenIs
    <3>2. \A h \in HeadersIn(patchText, lineNo) :
             IsLastHeader(patchText, h, lineNo) /\ OpenIsRead(patchText, lineNo, h, opened, block) =>
                OpenIsRead(patchText, lineNo + 1, h, opened', block')
      <4>1. opened.op \in {"update", "rename"} /\ ~IsHeader(patchText[lineNo])  BY <1>3
      <4>. QED  BY <1>1, <2>2, <2>3, <2>4, <4>1, ChangedLineRead
    <3>3. ~IsHeader(patchText[lineNo])  BY <1>3
    <3>. QED  BY <1>1, <1>2, <1>4, <3>1, <3>2, <3>3, LineIsRead
  <2>8. EditTypeOK'
    <3>1. lineNo' \in Nat \ {0}  BY <1>1, <2>1
    <3>. QED  BY <1>1, <2>1, <2>5, <2>6, <3>1 DEF EditTypeOK, OpenFiles, Block
  <2>9. lineNo' # 1
    <3>1. lineNo \in Nat /\ lineNo > 1  BY ParsingReads DEF ChangedLine
    <3>. QED  BY <2>1, <3>1
  <2>10. patchText' = patchText /\ counted' = counted /\ patchVerdict' = "reading" /\ readFiles' = readFiles
         /\ lineNo' = lineNo + 1
    BY <1>3, <2>1
  <2>. QED  BY <2>7, <2>8, <2>9, <2>10, ReadStep
<1>. QED  BY <1>6, <1>7 DEF ChangedLine

\* The end of a file: it is read, or it lacks what its kind asks for.
LEMMA FileEndsReads ==
    ASSUME EditInv, FileEnds
    PROVE  EditInv'
<1>1. /\ EditTypeOK /\ patchText \in Seq(PatchLine) /\ opened \in OpenFiles /\ block \in Block
      /\ readFiles \in Seq(ReadFiles) /\ Len(patchText) \in Nat
      /\ lineNo \in Nat /\ lineNo <= Len(patchText)
  <2>1. /\ EditTypeOK /\ lineNo \in Nat /\ lineNo <= Len(patchText)  BY ParsingReads DEF FileEnds
  <2>. QED  BY <2>1, EditTypes
<1>2. ReadSoFar(patchText, lineNo, opened, block, readFiles)  BY ParsingReads DEF FileEnds
<1>3. patchVerdict = "reading"  BY DEF FileEnds, Parsing
<1>4. EndsAt(patchText, lineNo, opened.op) /\ opened.op # "none"
  <2>1. NoLineLeft <=> lineNo >= Len(patchText)
    <3>1. NoLineLeft <=> ~(lineNo < Len(patchText))  BY <1>1, LinesLeft
    <3>. QED  BY <1>1, <3>1
  <2>2. BodyEnds  BY DEF FileEnds
  <2>3. opened.op \in {"none", "add", "update", "delete", "rename"}  BY <1>1 DEF OpenFiles
  <2>4. CASE opened.op = "none"  BY <2>2, <2>4 DEF BodyEnds
  <2>5. CASE opened.op = "add"  BY <2>1, <2>2, <2>5 DEF BodyEnds, EndsAt, Here
  <2>6. CASE opened.op = "delete"  BY <2>6 DEF EndsAt
  <2>7. CASE opened.op \in {"update", "rename"}  BY <2>1, <2>2, <2>7 DEF BodyEnds, EndsAt, Here
  <2>. QED  BY <2>3, <2>4, <2>5, <2>6, <2>7
<1>5. opened # NoneOpen  BY <1>4, NoneOpenIs
<1>6. Lacking(opened, block) <=> block.pending \/ (EmptyBody /\ opened.op \in {"add", "update"})
  BY EmptyBodyIs DEF Lacking
<1>7. CASE Lacking(opened, block) /\ Conclude("invalid")
  <2>1. PICK h \in HeadersIn(patchText, lineNo) :
           IsLastHeader(patchText, h, lineNo) /\ OpenIsRead(patchText, lineNo, h, opened, block)
    BY <1>1, <1>2, <1>5, OpenFileIs
  <2>2. ~IsPatchText(patchText)  BY <1>1, <1>4, <1>7, <2>1, LackingIsNoPatch
  <2>. QED  BY <1>7, <2>2, ConcludeInvalid
<1>8. ASSUME ~Lacking(opened, block),
             readFiles' = Append(readFiles, [opened EXCEPT !.removed = IF opened.op = "delete" THEN None ELSE <<@>>]),
             opened' = NoneOpen,
             UNCHANGED <<patchText, lineNo, block, patchVerdict, counted>>
      PROVE  EditInv'
  <2>1. readFiles' = Append(readFiles, AsRead(opened))  BY <1>8 DEF AsRead
  <2>2. AsRead(opened) \in ReadFiles
    <3>. DEFINE removed == IF opened.op = "delete" THEN None ELSE <<opened.removed>>
    <3>1. AsRead(opened) = [op |-> opened.op, path |-> opened.path, from |-> opened.from, added |-> opened.added,
                          removed |-> removed]
      BY <1>1 DEF AsRead, OpenFiles
    <3>2. opened.op \in {"add", "update", "delete", "rename"} /\ opened.path \in Paths /\ opened.from \in Paths
          /\ opened.added \in Nat /\ opened.removed \in Nat
      BY <1>1, <1>4 DEF OpenFiles
    <3>3. removed \in Seq(Nat)
      <4>1. None \in Seq(Nat)  BY DEF None
      <4>2. <<opened.removed>> \in Seq(Nat)  BY <3>2
      <4>. QED  BY <4>1, <4>2
    <3>. HIDE DEF removed
    <3>. QED  BY <3>1, <3>2, <3>3 DEF ReadFiles
  <2>3. ReadSoFar(patchText, lineNo, NoneOpen, block, Append(readFiles, AsRead(opened)))
    BY <1>1, <1>2, <1>4, <1>5, <1>8, <2>2, FileCloses
  <2>4. ReadSoFar(patchText', lineNo', opened', block', readFiles')  BY <1>8, <2>1, <2>3
  <2>5. EditTypeOK'
    <3>1. readFiles' \in Seq(ReadFiles)  BY <1>1, <2>1, <2>2
    <3>2. opened' \in OpenFiles  BY <1>8, NoneOpenIs
    <3>. QED  BY <1>1, <1>8, <3>1, <3>2 DEF EditTypeOK, ReadFiles, OpenFiles
  <2>6. lineNo' # 1
    <3>1. lineNo \in Nat /\ lineNo > 1  BY ParsingReads DEF FileEnds
    <3>. QED  BY <1>8, <3>1
  <2>. QED  BY <1>3, <1>8, <2>4, <2>5, <2>6, ReadStep
<1>. QED  BY <1>6, <1>7, <1>8 DEF FileEnds

\* The end of a patch.
LEMMA PatchReadReads ==
    ASSUME EditInv, PatchRead
    PROVE  EditInv'
<1>1. /\ EditTypeOK /\ patchText \in Seq(PatchLine) /\ lineNo \in Nat /\ ~(lineNo < Len(patchText))
  <2>1. EditTypeOK /\ lineNo \in Nat  BY ParsingReads DEF PatchRead
  <2>. QED  BY <2>1, EditTypes, LinesLeft DEF PatchRead
<1>2. ReadSoFar(patchText, lineNo, NoneOpen, block, readFiles)
  <2>1. opened = NoneOpen  BY DEF PatchRead
  <2>. QED  BY <2>1, ParsingReads DEF PatchRead
<1>3. /\ patchVerdict' = "ok" /\ readFiles' = readFiles
      /\ patchText' = patchText /\ lineNo' = lineNo /\ opened' = opened /\ block' = block /\ counted' = counted
  BY DEF PatchRead, Conclude
<1>4. /\ IsPatchText(patchText) /\ Len(readFiles) = Cardinality(HeadersIn(patchText, Len(patchText)))
      /\ \A h \in HeadersIn(patchText, Len(patchText)) :
            readFiles[Rank(patchText, h)] = FileAt(patchText, h, Len(patchText))
  BY <1>1, <1>2, AllIsRead
<1>5. EditTypeOK'  BY <1>1, <1>3 DEF EditTypeOK
<1>6. CountedOK'  BY <1>3 DEF EditInv, CountedOK
<1>7. ReadingOK'  BY <1>3 DEF ReadingOK
<1>8. PatchesReadTruly'  BY <1>3, <1>4 DEF PatchesReadTruly
<1>. QED  BY <1>5, <1>6, <1>7, <1>8 DEF EditInv

\* An edit of Claude Code.
LEMMA CountLinesReads ==
    ASSUME EditInv, NEW edit \in Edits, CountLines(edit)
    PROVE  EditInv'
<1>1. /\ counted' = [edit |-> edit, added |-> LinesOf(edit).added, removed |-> LinesOf(edit).removed]
      /\ UNCHANGED <<patchText, lineNo, opened, block, readFiles, patchVerdict>>
  BY DEF CountLines
<1>2. EditTypeOK'  BY <1>1 DEF EditInv, EditTypeOK
<1>3. CountedOK'  BY <1>1 DEF CountedOK
<1>4. ReadingOK'  BY <1>1 DEF EditInv, ReadingOK
<1>5. PatchesReadTruly'  BY <1>1 DEF EditInv, PatchesReadTruly
<1>. QED  BY <1>2, <1>3, <1>4, <1>5 DEF EditInv

\* Every step of the reading keeps the text and what was read of it in agreement
\* (parsePatch and toolInputLines).
LEMMA EditInvIsInductive == EditSpec => []EditInv
<1>1. ASSUME EditInit PROVE EditInv
  <2>1. EditTypeOK
    <3>1. opened \in OpenFiles  BY <1>1, NoneOpenIs DEF EditInit
    <3>2. block \in Block  BY <1>1 DEF EditInit, NoBlock, Block
    <3>. QED  BY <1>1, <3>1, <3>2 DEF EditInit, EditTypeOK, OpenFiles, Block
  <2>2. CountedOK  BY <1>1 DEF EditInit, CountedOK
  <2>3. ReadingOK  BY <1>1 DEF EditInit, ReadingOK
  <2>4. PatchesReadTruly  BY <1>1 DEF EditInit, PatchesReadTruly
  <2>. QED  BY <2>1, <2>2, <2>3, <2>4 DEF EditInv
<1>2. ASSUME EditInv, [EditNext]_editVars PROVE EditInv'
  <2>1. CASE Frame  BY <1>2, <2>1, FrameReads
  <2>2. CASE NamedEnvironment  BY <1>2, <2>2, NamedEnvironmentReads
  <2>3. CASE Header  BY <1>2, <2>3, HeaderReads
  <2>4. CASE CreatedLine  BY <1>2, <2>4, CreatedLineReads
  <2>5. CASE ChangedLine  BY <1>2, <2>5, ChangedLineReads
  <2>6. CASE FileEnds  BY <1>2, <2>6, FileEndsReads
  <2>7. CASE PatchRead  BY <1>2, <2>7, PatchReadReads
  <2>8. ASSUME NEW edit \in Edits, CountLines(edit) PROVE EditInv'  BY <1>2, <2>8, CountLinesReads
  <2>9. CASE UNCHANGED editVars
    <3>1. /\ patchText' = patchText /\ lineNo' = lineNo /\ opened' = opened /\ block' = block
          /\ readFiles' = readFiles /\ patchVerdict' = patchVerdict /\ counted' = counted
      BY <2>9 DEF editVars
    <3>2. EditTypeOK' /\ CountedOK' /\ ReadingOK' /\ PatchesReadTruly'
      BY <1>2, <3>1 DEF EditInv, EditTypeOK, CountedOK, ReadingOK, PatchesReadTruly
    <3>. QED  BY <3>2 DEF EditInv
  <2>. QED  BY <1>2, <2>1, <2>2, <2>3, <2>4, <2>5, <2>6, <2>7, <2>8, <2>9 DEF EditNext
<1>. QED  BY <1>1, <1>2, PTL DEF EditSpec

\* Exactly the texts of the grammar are read as patches, each file with the lines
\* of its own stretch, and an edit is said to add and to remove what no
\* order-preserving match of its texts can keep (parsePatch, toolInputLines,
\* commonLines).
THEOREM EditsAlwaysReadTruly == EditSpec => []EditsReadTruly
<1>1. EditInv => EditsReadTruly
  <2>. SUFFICES ASSUME EditInv PROVE EditsReadTruly  OBVIOUS
  <2>1. PatchesReadTruly /\ CountedOK  BY DEF EditInv
  <2>2. CASE counted = NoEdit
    <3>1. counted.edit = None  BY <2>2 DEF NoEdit
    <3>2. LinesCountedTruly  BY <3>1 DEF LinesCountedTruly
    <3>. QED  BY <2>1, <3>2 DEF EditsReadTruly
  <2>3. CASE counted # NoEdit
    <3>1. PICK e \in Edits : counted = [edit |-> e, added |-> LinesOf(e).added, removed |-> LinesOf(e).removed]
      BY <2>1, <2>3 DEF CountedOK
    <3>2. LinesCountedTruly  BY <3>1, EditsCounted
    <3>. QED  BY <2>1, <3>2 DEF EditsReadTruly
  <2>. QED  BY <2>2, <2>3
<1>. QED  BY <1>1, EditInvIsInductive, PTL
=============================================================================
