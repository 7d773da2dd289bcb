----------------------------- MODULE DataFacts ------------------------------
(***************************************************************************)
(* What the proofs use of the data the models are made of: the extrema of  *)
(* sets of numbers, induction over the naturals, iterated functions and    *)
(* running sums, what a sequence holds, which sequences are within others, *)
(* sums over finite sets: in parts, by groups and under new names, and the *)
(* first elements of a finite set in an order.                             *)
(***************************************************************************)
EXTENDS Integers, Sequences, FiniteSetsExt, SequencesExt, WellFoundedInduction,
        SequenceTheorems, FiniteSetTheorems, TLAPS

(* Extrema *)

\* The greater of two numbers.
LEMMA MaxOfTwo ==
    ASSUME NEW a \in Int, NEW b \in Int
    PROVE  Max({a, b}) = IF a <= b THEN b ELSE a
<1>1. \E x \in {a, b} : \A y \in {a, b} : x >= y  OBVIOUS
<1>. QED  BY <1>1 DEF Max

\* The smaller of two numbers.
LEMMA MinOfTwo ==
    ASSUME NEW a \in Int, NEW b \in Int
    PROVE  Min({a, b}) = IF a <= b THEN a ELSE b
<1>1. \E x \in {a, b} : \A y \in {a, b} : x <= y  OBVIOUS
<1>. QED  BY <1>1 DEF Min

\* The order of the naturals as a relation.
Below == {p \in Nat \X Nat : p[1] < p[2]}

\* There is a least natural number in a set that has any.
LEMMA MinOfNaturals ==
    ASSUME NEW S \in SUBSET Nat, S # {}
    PROVE  Min(S) \in S /\ \A y \in S : Min(S) <= y
<1>1. OpToRel(<, Nat) = Below  BY Zenon DEF OpToRel, Below
<1>2. \E x \in S : \A y \in S : <<y, x>> \notin Below
  BY <1>1, NatLessThanWellFounded, WFMin
<1>3. PICK x \in S : \A y \in S : <<y, x>> \notin Below  BY <1>2
<1>4. \A y \in S : x <= y
  <2>. SUFFICES ASSUME NEW y \in S PROVE x <= y  OBVIOUS
  <2>1. x \in Nat /\ y \in Nat  OBVIOUS
  <2>2. y < x => <<y, x>> \in Below  BY <2>1 DEF Below
  <2>3. ~(y < x)  BY <1>3, <2>2
  <2>. QED  BY <2>1, <2>3
<1>. QED  BY <1>4 DEF Min

\* The greatest element of a bounded set of naturals is its least upper bound.
LEMMA MaxOfBounded ==
    ASSUME NEW b \in Nat, NEW S \in SUBSET (0 .. b), S # {}
    PROVE  Max(S) \in S /\ \A y \in S : y <= Max(S)
<1>. DEFINE Room == {r \in Nat : r <= b /\ b - r \in S}
<1>1. Room \in SUBSET Nat  OBVIOUS
<1>2. Room # {}
  <2>1. PICK y \in S : TRUE  OBVIOUS
  <2>2. b - y \in Nat /\ b - y <= b /\ b - (b - y) = y  OBVIOUS
  <2>3. b - y \in Room  BY <2>2
  <2>. QED  BY <2>3
<1>3. Min(Room) \in Room /\ \A r \in Room : Min(Room) <= r
  <2>. HIDE DEF Room
  <2>. QED  BY <1>1, <1>2, MinOfNaturals
<1>4. PICK x \in S : x = b - Min(Room)  BY <1>3
<1>5. \A y \in S : x >= y
  <2>. SUFFICES ASSUME NEW y \in S PROVE x >= y  OBVIOUS
  <2>1. b - y \in Nat /\ b - y <= b /\ b - (b - y) = y  OBVIOUS
  <2>2. b - y \in Room  BY <2>1
  <2>3. Min(Room) \in Nat /\ Min(Room) <= b - y  BY <1>3, <2>2
  <2>. QED  BY <1>4, <2>3
<1>. QED  BY <1>5 DEF Max

-----------------------------------------------------------------------------
(* Induction and running sums *)

\* Induction: a set of naturals that has 0 and every successor has them all.
LEMMA SetInduction ==
    ASSUME NEW S, 0 \in S, \A n \in Nat : n \in S => n + 1 \in S
    PROVE  \A n \in Nat : n \in S
<1>. DEFINE Out == {n \in Nat : n \notin S}
<1>. SUFFICES ASSUME Out # {} PROVE FALSE  OBVIOUS
<1>1. Out \in SUBSET Nat  OBVIOUS
<1>2. Min(Out) \in Out /\ \A y \in Out : Min(Out) <= y
  <2>. HIDE DEF Out
  <2>. QED  BY <1>1, MinOfNaturals
<1>3. PICK m \in Out : \A y \in Out : m <= y  BY <1>2
<1>4. m \in Nat /\ m # 0  BY <1>3
<1>5. m - 1 \in Nat /\ m - 1 + 1 = m  BY <1>4
<1>6. m - 1 \notin Out  BY <1>3, <1>5
<1>. QED  BY <1>3, <1>5, <1>6

\* f is what n steps make of start.
Iterates(f, n, Y, start, step) ==
    /\ f \in [0 .. n -> Y]
    /\ f[0] = start
    /\ \A i \in 1 .. n : f[i] = step[<<i, f[i - 1]>>]

\* A function can be iterated as often as one likes.
LEMMA Iteration ==
    ASSUME NEW Y, NEW start \in Y, NEW step \in [Nat \X Y -> Y]
    PROVE  \A n \in Nat : \E f : Iterates(f, n, Y, start, step)
<1>. DEFINE S == {n \in Nat : \E f : Iterates(f, n, Y, start, step)}
<1>1. 0 \in S
  <2>. DEFINE f == [i \in 0 .. 0 |-> start]
  <2>1. Iterates(f, 0, Y, start, step)  BY DEF Iterates
  <2>. HIDE DEF f
  <2>. QED  BY <2>1
<1>2. ASSUME NEW n \in Nat, n \in S PROVE n + 1 \in S
  <2>1. PICK f : Iterates(f, n, Y, start, step)  BY <1>2
  <2>. DEFINE g == [i \in 0 .. n + 1 |-> IF i = n + 1 THEN step[<<n + 1, f[n]>>] ELSE f[i]]
  <2>2. f \in [0 .. n -> Y] /\ step[<<n + 1, f[n]>>] \in Y  BY <2>1 DEF Iterates
  <2>3. g \in [0 .. n + 1 -> Y]  BY <2>2
  <2>4. g[0] = start  BY <2>1 DEF Iterates
  <2>5. ASSUME NEW i \in 1 .. n + 1 PROVE g[i] = step[<<i, g[i - 1]>>]
    <3>1. g[i - 1] = f[i - 1]  OBVIOUS
    <3>2. CASE i = n + 1
      <4>1. g[i] = step[<<n + 1, f[n]>>] /\ i - 1 = n  BY <3>2
      <4>. QED  BY <3>1, <3>2, <4>1
    <3>3. CASE i # n + 1
      <4>1. i \in 1 .. n  BY <3>3
      <4>2. g[i] = f[i]  BY <4>1
      <4>. QED  BY <2>1, <3>1, <4>1, <4>2 DEF Iterates
    <3>. QED  BY <3>2, <3>3
  <2>6. Iterates(g, n + 1, Y, start, step)  BY <2>3, <2>4, <2>5 DEF Iterates
  <2>. HIDE DEF g
  <2>. QED  BY <2>6
<1>3. \A n \in Nat : n \in S
  <2>. HIDE DEF S
  <2>. QED  BY <1>1, <1>2, SetInduction
<1>. QED  BY <1>3

\* The sums of the first elements of a sequence of numbers.
RunningSums(f, s) ==
    /\ f \in [0 .. Len(s) -> Int]
    /\ f[0] = 0
    /\ \A i \in 1 .. Len(s) : f[i] = f[i - 1] + s[i]

\* Every sequence of numbers has its running sums.
LEMMA RunningSumsExist ==
    ASSUME NEW s \in Seq(Int)
    PROVE  \E f : RunningSums(f, s)
<1>. DEFINE step == [p \in Nat \X Int |->
                       IF p[1] \in 1 .. Len(s) THEN p[2] + s[p[1]] ELSE 0]
<1>1. step \in [Nat \X Int -> Int]
  <2>1. ASSUME NEW p \in Nat \X Int
        PROVE  (IF p[1] \in 1 .. Len(s) THEN p[2] + s[p[1]] ELSE 0) \in Int
    OBVIOUS
  <2>. QED  BY <2>1
<1>2. \E f : Iterates(f, Len(s), Int, 0, step)
  <2>. HIDE DEF step
  <2>1. Len(s) \in Nat /\ 0 \in Int  OBVIOUS
  <2>. QED  BY <1>1, <2>1, Iteration
<1>3. PICK f : Iterates(f, Len(s), Int, 0, step)  BY <1>2
<1>a. /\ f \in [0 .. Len(s) -> Int] /\ f[0] = 0
      /\ \A i \in 1 .. Len(s) : f[i] = step[<<i, f[i - 1]>>]
  BY <1>3 DEF Iterates
<1>4. \A i \in 1 .. Len(s) : f[i] = f[i - 1] + s[i]
  <2>. SUFFICES ASSUME NEW i \in 1 .. Len(s) PROVE f[i] = f[i - 1] + s[i]  OBVIOUS
  <2>1. f[i - 1] \in Int /\ i \in Nat  BY <1>a
  <2>. QED  BY <1>a, <2>1
<1>. QED  BY <1>a, <1>4 DEF RunningSums

\* The function that a sum is defined by has the running sums.
LEMMA SumsByRecursion ==
    ASSUME NEW s \in Seq(Int)
    PROVE  \E f : /\ RunningSums(f, s)
                  /\ f = CHOOSE h : h = [n \in 0 .. Len(s) |-> IF n = 0 THEN 0 ELSE h[n - 1] + s[n]]
<1>. DEFINE Recursion(f) ==
       f = [n \in 0 .. Len(s) |-> IF n = 0 THEN 0 ELSE f[n - 1] + s[n]]
<1>1. PICK g : RunningSums(g, s)  BY RunningSumsExist
<1>2. Recursion(g)
  <2>1. /\ g \in [0 .. Len(s) -> Int] /\ g[0] = 0
        /\ \A i \in 1 .. Len(s) : g[i] = g[i - 1] + s[i]
    BY <1>1 DEF RunningSums
  <2>2. \A n \in 0 .. Len(s) : g[n] = IF n = 0 THEN 0 ELSE g[n - 1] + s[n]
    BY <2>1
  <2>. QED  BY <2>1, <2>2
<1>. DEFINE f == CHOOSE f : Recursion(f)
<1>3. Recursion(f)
  <2>. HIDE DEF Recursion
  <2>. QED  BY <1>2
<1>4. f = CHOOSE h : h = [n \in 0 .. Len(s) |-> IF n = 0 THEN 0 ELSE h[n - 1] + s[n]]
  OBVIOUS
<1>5. RunningSums(f, s)
  <2>. HIDE DEF f
  <2>. DEFINE S == {n \in Nat : n <= Len(s) => f[n] = g[n]}
  <2>1. 0 \in S
    <3>1. f[0] = 0  BY <1>3
    <3>. QED  BY <3>1, <1>1 DEF RunningSums
  <2>2. ASSUME NEW n \in Nat, n \in S PROVE n + 1 \in S
    <3>. SUFFICES ASSUME n + 1 <= Len(s) PROVE f[n + 1] = g[n + 1]  OBVIOUS
    <3>1. n + 1 \in 1 .. Len(s) /\ n + 1 # 0 /\ n + 1 - 1 = n  OBVIOUS
    <3>2. f[n + 1] = f[n] + s[n + 1]  BY <1>3, <3>1
    <3>3. g[n + 1] = g[n] + s[n + 1]  BY <1>1, <3>1 DEF RunningSums
    <3>4. f[n] = g[n]  BY <2>2
    <3>. QED  BY <3>2, <3>3, <3>4
  <2>3. \A n \in Nat : n \in S
    <3>. HIDE DEF S
    <3>. QED  BY <2>1, <2>2, SetInduction
  <2>4. DOMAIN f = 0 .. Len(s) /\ DOMAIN g = 0 .. Len(s)
    BY <1>1, <1>3 DEF RunningSums
  <2>5. \A n \in 0 .. Len(s) : f[n] = g[n]  BY <2>3
  <2>6. f = g
    <3>1. f = [n \in 0 .. Len(s) |-> f[n]]  BY <1>3
    <3>2. g = [n \in 0 .. Len(s) |-> g[n]]  BY <1>1 DEF RunningSums
    <3>. QED  BY <2>5, <3>1, <3>2
  <2>. QED  BY <1>1, <2>6
<1>. HIDE DEF f
<1>. QED  BY <1>4, <1>5

\* The sums depend on nothing but the elements before, up to a constant.
LEMMA RunningSumsShift ==
    ASSUME NEW s \in Seq(Int), NEW t \in Seq(Int), NEW f, NEW g,
           RunningSums(f, s), RunningSums(g, t),
           NEW n \in Nat, NEW k \in Nat, n + k <= Len(s), n <= Len(t),
           \A i \in 1 .. n : t[i] = s[i + k]
    PROVE  f[n + k] = f[k] + g[n]
<1>. DEFINE S == {m \in Nat : m <= n => f[m + k] = f[k] + g[m]}
<1>a. /\ f \in [0 .. Len(s) -> Int] /\ g \in [0 .. Len(t) -> Int] /\ g[0] = 0
      /\ \A i \in 1 .. Len(s) : f[i] = f[i - 1] + s[i]
      /\ \A i \in 1 .. Len(t) : g[i] = g[i - 1] + t[i]
  BY DEF RunningSums
<1>b. k \in 0 .. Len(s) /\ f[k] \in Int
  <2>1. Len(s) \in Nat  OBVIOUS
  <2>2. k \in 0 .. Len(s)  BY <2>1
  <2>. QED  BY <1>a, <2>2
<1>1. 0 \in S
  <2>1. f[0 + k] = f[k] + g[0]  BY <1>a, <1>b
  <2>. QED  BY <2>1
<1>2. ASSUME NEW m \in Nat, m \in S PROVE m + 1 \in S
  <2>. SUFFICES ASSUME m + 1 <= n PROVE f[m + 1 + k] = f[k] + g[m + 1]  OBVIOUS
  <2>1. f[m + k] = f[k] + g[m]  BY <1>2
  <2>2. m + 1 + k \in 1 .. Len(s) /\ m + 1 + k - 1 = m + k  OBVIOUS
  <2>3. m + 1 \in 1 .. Len(t) /\ m + 1 - 1 = m  OBVIOUS
  <2>4. f[m + 1 + k] = f[m + k] + s[m + 1 + k]  BY <1>a, <2>2
  <2>5. g[m + 1] = g[m] + t[m + 1]  BY <1>a, <2>3
  <2>6. t[m + 1] = s[m + 1 + k]  OBVIOUS
  <2>7. g[m] \in Int
    <3>1. m \in 0 .. Len(t)  BY <2>3
    <3>. QED  BY <1>a, <3>1
  <2>8. t[m + 1] \in Int  BY <2>3
  <2>9. f[k] + g[m] + t[m + 1] = f[k] + (g[m] + t[m + 1])
    <3>1. \A a, b, c \in Int : a + b + c = a + (b + c)  OBVIOUS
    <3>. QED  BY ONLY <1>b, <2>7, <2>8, <3>1
  <2>. QED  BY <2>1, <2>4, <2>5, <2>6, <2>9
<1>3. \A m \in Nat : m \in S
  <2>. HIDE DEF S
  <2>. QED  BY <1>1, <1>2, SetInduction
<1>. QED  BY <1>3

\* Sequences that begin alike have the same sums there.
LEMMA RunningSumsAgree ==
    ASSUME NEW s \in Seq(Int), NEW t \in Seq(Int), NEW f, NEW g,
           RunningSums(f, s), RunningSums(g, t),
           NEW n \in Nat, n <= Len(s), n <= Len(t), \A i \in 1 .. n : t[i] = s[i]
    PROVE  f[n] = g[n]
<1>1. \A i \in 1 .. n : t[i] = s[i + 0]
  <2>1. \A i \in 1 .. n : i + 0 = i  OBVIOUS
  <2>. QED  BY <2>1
<1>2. n + 0 = n /\ 0 \in Nat  OBVIOUS
<1>3. f[n + 0] = f[0] + g[n]  BY <1>1, <1>2, RunningSumsShift
<1>4. f[0] = 0 /\ g \in [0 .. Len(t) -> Int]  BY DEF RunningSums
<1>5. g[n] \in Int
  <2>1. n \in 0 .. Len(t)  OBVIOUS
  <2>. QED  BY <1>4, <2>1
<1>6. f[n] = 0 + g[n]  BY <1>2, <1>3, <1>4
<1>. QED  BY <1>5, <1>6

\* What the last element adds.
LEMMA RunningSumsStep ==
    ASSUME NEW s \in Seq(Int), NEW f, RunningSums(f, s),
           NEW n \in Nat, n < Len(s)
    PROVE  f[n + 1] = f[n] + s[n + 1]
<1>1. n + 1 \in 1 .. Len(s) /\ n + 1 - 1 = n  OBVIOUS
<1>2. \A i \in 1 .. Len(s) : f[i] = f[i - 1] + s[i]  BY DEF RunningSums
<1>. QED  BY <1>1, <1>2

-----------------------------------------------------------------------------
(* What sequences hold *)

\* What a sequence holds with one element more.
LEMMA ContainsAppend ==
    ASSUME NEW S, NEW s \in Seq(S), NEW p \in S
    PROVE  \A q : Contains(Append(s, p), q) <=> Contains(s, q) \/ q = p
<1>. DEFINE t == Append(s, p)
<1>1. /\ Len(s) \in Nat /\ Len(t) = Len(s) + 1 /\ t[Len(t)] = p
      /\ \A i \in 1 .. Len(s) : t[i] = s[i]
  OBVIOUS
<1>. HIDE DEF t
<1>2. \A q : Contains(t, q) <=> Contains(s, q) \/ q = p
  <2>. TAKE q
  <2>1. Contains(s, q) => Contains(t, q)  BY <1>1 DEF Contains
  <2>2. q = p => Contains(t, q)  BY <1>1 DEF Contains
  <2>3. Contains(t, q) /\ q # p => Contains(s, q)
    <3>. SUFFICES ASSUME NEW i \in 1 .. Len(t), t[i] = q, q # p PROVE Contains(s, q)
      BY DEF Contains
    <3>1. i \in 1 .. Len(s)  BY <1>1
    <3>. QED  BY <1>1, <3>1 DEF Contains
  <2>. QED  BY <2>1, <2>2, <2>3
<1>. QED  BY <1>2 DEF t

\* What two sequences hold together.
LEMMA ContainsConcat ==
    ASSUME NEW S, NEW s \in Seq(S), NEW r \in Seq(S)
    PROVE  \A q : Contains(s \o r, q) <=> Contains(s, q) \/ Contains(r, q)
<1>. DEFINE t == s \o r
<1>1. /\ Len(s) \in Nat /\ Len(r) \in Nat /\ Len(t) = Len(s) + Len(r)
      /\ \A i \in 1 .. Len(s) + Len(r) : t[i] = IF i <= Len(s) THEN s[i] ELSE r[i - Len(s)]
  BY ConcatProperties
<1>. HIDE DEF t
<1>2. ASSUME NEW q, NEW i \in 1 .. Len(s), s[i] = q PROVE Contains(t, q)
  <2>1. i \in 1 .. Len(t) /\ t[i] = q  BY <1>1, <1>2
  <2>. QED  BY <2>1 DEF Contains
<1>3. ASSUME NEW q, NEW i \in 1 .. Len(r), r[i] = q PROVE Contains(t, q)
  <2>1. PICK j \in 1 .. Len(s) + Len(r) : j = Len(s) + i /\ ~(j <= Len(s)) /\ j - Len(s) = i
    BY <1>1, SMTT(30)
  <2>2. j \in 1 .. Len(t) /\ t[j] = q  BY <1>1, <1>3, <2>1
  <2>. QED  BY <2>2 DEF Contains
<1>4. ASSUME NEW i \in 1 .. Len(t) PROVE Contains(s, t[i]) \/ Contains(r, t[i])
  <2>1. CASE i <= Len(s)
    <3>1. i \in 1 .. Len(s) /\ t[i] = s[i]  BY <1>1, <2>1
    <3>. QED  BY <3>1 DEF Contains
  <2>2. CASE ~(i <= Len(s))
    <3>1. i - Len(s) \in 1 .. Len(r) /\ t[i] = r[i - Len(s)]  BY <1>1, <2>2
    <3>. QED  BY <3>1 DEF Contains
  <2>. QED  BY <2>1, <2>2
<1>5. \A q : Contains(t, q) => Contains(s, q) \/ Contains(r, q)  BY <1>4 DEF Contains
<1>6. \A q : Contains(s, q) \/ Contains(r, q) => Contains(t, q)
  BY <1>2, <1>3 DEF Contains
<1>. QED  BY <1>5, <1>6 DEF t

-----------------------------------------------------------------------------
(* Sequences without repetitions *)

Distinct(s) == \A i, j \in 1 .. Len(s) : s[i] = s[j] => i = j

\* What a sequence holds with one new element more.
LEMMA AppendContains ==
    ASSUME NEW S, NEW s \in Seq(S), NEW p \in S, Distinct(s), ~Contains(s, p)
    PROVE  /\ Distinct(Append(s, p))
           /\ \A q : Contains(Append(s, p), q) <=> Contains(s, q) \/ q = p
<1>. DEFINE t == Append(s, p)
<1>1. /\ Len(s) \in Nat /\ Len(t) = Len(s) + 1 /\ t[Len(t)] = p
      /\ \A i \in 1 .. Len(s) : t[i] = s[i]
  OBVIOUS
<1>. HIDE DEF t
<1>2. \A i \in 1 .. Len(s) : t[i] # p  BY <1>1 DEF Contains
<1>3. Distinct(t)
  <2>. SUFFICES ASSUME NEW i \in 1 .. Len(t), NEW j \in 1 .. Len(t), t[i] = t[j]
       PROVE  i = j
    BY DEF Distinct
  <2>1. CASE i = Len(t) \/ j = Len(t)  BY <1>1, <1>2, <2>1
  <2>2. CASE i # Len(t) /\ j # Len(t)
    <3>1. i \in 1 .. Len(s) /\ j \in 1 .. Len(s)  BY <1>1, <2>2
    <3>. QED  BY <1>1, <3>1 DEF Distinct
  <2>. QED  BY <2>1, <2>2
<1>. QED  BY <1>3, ContainsAppend DEF t

\* The first element gone from a sequence without repetitions is in it no more.
LEMMA TailContains ==
    ASSUME NEW S, NEW s \in Seq(S), s # <<>>, Distinct(s)
    PROVE  /\ Distinct(Tail(s))
           /\ \A q : Contains(Tail(s), q) <=> Contains(s, q) /\ q # Head(s)
<1>. DEFINE t == Tail(s)
<1>1. /\ Len(s) \in Nat /\ Len(s) = Len(t) + 1 /\ Len(t) \in Nat
      /\ \A i \in 1 .. Len(t) : t[i] = s[i + 1]
      /\ Head(s) = s[1]
  OBVIOUS
<1>. HIDE DEF t
<1>2. Distinct(t)
  <2>. SUFFICES ASSUME NEW i \in 1 .. Len(t), NEW j \in 1 .. Len(t), t[i] = t[j]
       PROVE  i = j
    BY DEF Distinct
  <2>1. i + 1 \in 1 .. Len(s) /\ j + 1 \in 1 .. Len(s)  BY <1>1
  <2>2. i + 1 = j + 1  BY <1>1, <2>1 DEF Distinct
  <2>. QED  BY <2>2
<1>3. \A q : Contains(t, q) <=> Contains(s, q) /\ q # Head(s)
  <2>. TAKE q
  <2>1. ASSUME NEW i \in 1 .. Len(t), t[i] = q PROVE Contains(s, q) /\ q # Head(s)
    <3>1. i + 1 \in 1 .. Len(s) /\ 1 \in 1 .. Len(s) /\ i + 1 # 1  BY <1>1
    <3>2. s[i + 1] = q  BY <1>1, <2>1
    <3>3. s[1] # q  BY <3>1, <3>2 DEF Distinct
    <3>. QED  BY <1>1, <3>1, <3>2, <3>3 DEF Contains
  <2>2. ASSUME NEW i \in 1 .. Len(s), s[i] = q, q # Head(s) PROVE Contains(t, q)
    <3>1. i # 1  BY <1>1, <2>2
    <3>2. i - 1 \in 1 .. Len(t) /\ (i - 1) + 1 = i  BY <1>1, <3>1
    <3>. QED  BY <1>1, <2>2, <3>2 DEF Contains
  <2>. QED  BY <2>1, <2>2 DEF Contains
<1>. QED  BY <1>2, <1>3 DEF t

-----------------------------------------------------------------------------
(* Sequences within sequences *)

\* f says where in t the elements of s are, in their order.
Embedding(f, s, t) ==
    /\ f \in [1 .. Len(s) -> 1 .. Len(t)]
    /\ \A i, j \in 1 .. Len(s) : i < j => f[i] < f[j]
    /\ \A i \in 1 .. Len(s) : s[i] = t[f[i]]

\* s is t without some of its elements.
Within(s, t) == \E f : Embedding(f, s, t)

\* Nothing is within everything.
LEMMA WithinEmpty ==
    ASSUME NEW t
    PROVE  Within(<<>>, t)
<1>. DEFINE f == [i \in 1 .. Len(<<>>) |-> 1]
<1>1. Embedding(f, <<>>, t)
  <2>1. Len(<<>>) = 0  OBVIOUS
  <2>2. f \in [1 .. Len(<<>>) -> 1 .. Len(t)]  BY <2>1
  <2>. QED  BY <2>1, <2>2 DEF Embedding
<1>. QED  BY <1>1 DEF Within

\* Everything is within itself.
LEMMA WithinItself ==
    ASSUME NEW S, NEW s \in Seq(S)
    PROVE  Within(s, s)
<1>. DEFINE f == [i \in 1 .. Len(s) |-> i]
<1>1. Embedding(f, s, s)  BY DEF Embedding
<1>. QED  BY <1>1 DEF Within

\* What is within something that is within t is within t.
LEMMA WithinTransitive ==
    ASSUME NEW S, NEW s \in Seq(S), NEW t \in Seq(S), NEW u \in Seq(S),
           Within(s, t), Within(t, u)
    PROVE  Within(s, u)
<1>1. PICK f : Embedding(f, s, t)  BY DEF Within
<1>2. PICK g : Embedding(g, t, u)  BY DEF Within
<1>. DEFINE h == [i \in 1 .. Len(s) |-> g[f[i]]]
<1>3. /\ \A i \in 1 .. Len(s) : f[i] \in 1 .. Len(t) /\ s[i] = t[f[i]]
      /\ \A i, j \in 1 .. Len(s) : i < j => f[i] < f[j]
  BY <1>1 DEF Embedding
<1>4. /\ \A i \in 1 .. Len(t) : g[i] \in 1 .. Len(u) /\ t[i] = u[g[i]]
      /\ \A i, j \in 1 .. Len(t) : i < j => g[i] < g[j]
  BY <1>2 DEF Embedding
<1>5. \A i \in 1 .. Len(s) : h[i] \in 1 .. Len(u) /\ s[i] = u[h[i]]  BY <1>3, <1>4
<1>6. \A i, j \in 1 .. Len(s) : i < j => h[i] < h[j]  BY <1>3, <1>4
<1>7. h \in [1 .. Len(s) -> 1 .. Len(u)]  BY <1>5
<1>. HIDE DEF h
<1>8. Embedding(h, s, u)  BY <1>5, <1>6, <1>7 DEF Embedding
<1>. QED  BY <1>8 DEF Within

\* The same element may be added to both.
LEMMA WithinAppend ==
    ASSUME NEW S, NEW s \in Seq(S), NEW t \in Seq(S), NEW e \in S, Within(s, t)
    PROVE  Within(Append(s, e), Append(t, e))
<1>1. PICK f : Embedding(f, s, t)  BY DEF Within
<1>. DEFINE n == Len(s)
            m == Len(t)
            a == Append(s, e)
            b == Append(t, e)
            g == [i \in 1 .. n + 1 |-> IF i = n + 1 THEN m + 1 ELSE f[i]]
<1>2. /\ n \in Nat /\ Len(a) = n + 1 /\ a[n + 1] = e
      /\ \A i \in 1 .. n : a[i] = s[i]
  OBVIOUS
<1>3. /\ m \in Nat /\ Len(b) = m + 1 /\ b[m + 1] = e
      /\ \A i \in 1 .. m : b[i] = t[i]
  OBVIOUS
<1>4. /\ \A i \in 1 .. n : f[i] \in 1 .. m /\ s[i] = t[f[i]]
      /\ \A i, j \in 1 .. n : i < j => f[i] < f[j]
  BY <1>1 DEF Embedding
<1>. HIDE DEF n, m, a, b
<1>5. \A i \in 1 .. n + 1 : i # n + 1 => i \in 1 .. n  BY <1>2
<1>6. \A i \in 1 .. n + 1 : g[i] \in 1 .. m + 1 /\ a[i] = b[g[i]]
  <2>. SUFFICES ASSUME NEW i \in 1 .. n + 1 PROVE g[i] \in 1 .. m + 1 /\ a[i] = b[g[i]]
    OBVIOUS
  <2>1. CASE i = n + 1
    <3>1. g[i] = m + 1  BY <2>1
    <3>. QED  BY <1>2, <1>3, <2>1, <3>1
  <2>2. CASE i # n + 1
    <3>1. i \in 1 .. n /\ g[i] = f[i]  BY <1>5, <2>2
    <3>2. f[i] \in 1 .. m /\ s[i] = t[f[i]]  BY <1>4, <3>1
    <3>3. f[i] \in 1 .. m + 1  BY <1>3, <3>2
    <3>. QED  BY <1>2, <1>3, <3>1, <3>2, <3>3
  <2>. QED  BY <2>1, <2>2
<1>7. \A i, j \in 1 .. n + 1 : i < j => g[i] < g[j]
  <2>. SUFFICES ASSUME NEW i \in 1 .. n + 1, NEW j \in 1 .. n + 1, i < j
       PROVE  g[i] < g[j]
    OBVIOUS
  <2>1. i # n + 1  BY <1>2
  <2>2. i \in 1 .. n /\ g[i] = f[i]  BY <1>5, <2>1
  <2>3. f[i] \in 1 .. m  BY <1>4, <2>2
  <2>4. CASE j = n + 1
    <3>1. g[j] = m + 1  BY <2>4
    <3>. QED  BY <1>3, <2>2, <2>3, <3>1
  <2>5. CASE j # n + 1
    <3>1. j \in 1 .. n /\ g[j] = f[j]  BY <1>5, <2>5
    <3>. QED  BY <1>4, <2>2, <3>1
  <2>. QED  BY <2>4, <2>5
<1>8. g \in [1 .. n + 1 -> 1 .. m + 1]  BY <1>6
<1>. HIDE DEF g
<1>9. Embedding(g, a, b)  BY <1>2, <1>3, <1>6, <1>7, <1>8 DEF Embedding
<1>. QED  BY <1>9 DEF Within, a, b

\* An element may be added to the greater one alone.
LEMMA WithinMore ==
    ASSUME NEW S, NEW s \in Seq(S), NEW t \in Seq(S), NEW e \in S, Within(s, t)
    PROVE  Within(s, Append(t, e))
<1>1. PICK f : Embedding(f, s, t)  BY DEF Within
<1>2. /\ Len(t) \in Nat /\ Len(Append(t, e)) = Len(t) + 1
      /\ \A i \in 1 .. Len(t) : Append(t, e)[i] = t[i]
  OBVIOUS
<1>3. f \in [1 .. Len(s) -> 1 .. Len(t) + 1]
  <2>1. \A i \in 1 .. Len(s) : f[i] \in 1 .. Len(t) + 1  BY <1>1, <1>2 DEF Embedding
  <2>. QED  BY <1>1, <2>1 DEF Embedding
<1>4. \A i \in 1 .. Len(s) : s[i] = Append(t, e)[f[i]]  BY <1>1, <1>2 DEF Embedding
<1>5. Embedding(f, s, Append(t, e))  BY <1>1, <1>2, <1>3, <1>4 DEF Embedding
<1>. QED  BY <1>5 DEF Within

\* So may the same elements in front of both.
LEMMA WithinConcat ==
    ASSUME NEW S, NEW d \in Seq(S), NEW s \in Seq(S), NEW t \in Seq(S), Within(s, t)
    PROVE  Within(d \o s, d \o t)
<1>1. PICK f : Embedding(f, s, t)  BY DEF Within
<1>. DEFINE n == Len(s)
            m == Len(t)
            k == Len(d)
            a == d \o s
            b == d \o t
            g == [i \in 1 .. k + n |-> IF i <= k THEN i ELSE k + f[i - k]]
<1>2. /\ n \in Nat /\ k \in Nat /\ Len(a) = k + n
      /\ \A i \in 1 .. k + n : a[i] = IF i <= k THEN d[i] ELSE s[i - k]
  BY ConcatProperties
<1>3. /\ m \in Nat /\ Len(b) = k + m
      /\ \A i \in 1 .. k + m : b[i] = IF i <= k THEN d[i] ELSE t[i - k]
  BY ConcatProperties
<1>4. /\ \A i \in 1 .. n : f[i] \in 1 .. m /\ s[i] = t[f[i]]
      /\ \A i, j \in 1 .. n : i < j => f[i] < f[j]
  BY <1>1 DEF Embedding
<1>. HIDE DEF n, m, k, a, b
<1>5. \A i \in 1 .. k + n : ~(i <= k) => i - k \in 1 .. n  BY <1>2
<1>6. \A i \in 1 .. k + n : g[i] \in 1 .. k + m /\ a[i] = b[g[i]]
  <2>. SUFFICES ASSUME NEW i \in 1 .. k + n PROVE g[i] \in 1 .. k + m /\ a[i] = b[g[i]]
    OBVIOUS
  <2>1. CASE i <= k
    <3>1. g[i] = i /\ i \in 1 .. k + m  BY <1>2, <1>3, <2>1
    <3>. QED  BY <1>2, <1>3, <2>1, <3>1
  <2>2. CASE ~(i <= k)
    <3>1. i - k \in 1 .. n /\ g[i] = k + f[i - k]  BY <1>5, <2>2
    <3>2. PICK x \in 1 .. m : x = f[i - k] /\ s[i - k] = t[x]  BY <1>4, <3>1
    <3>3. PICK y \in 1 .. k + m : y = k + x /\ ~(y <= k) /\ y - k = x  BY <1>2, <1>3
    <3>4. a[i] = s[i - k]  BY <1>2, <2>2
    <3>5. b[y] = t[x]  BY <1>3, <3>3
    <3>. QED  BY <3>1, <3>2, <3>3, <3>4, <3>5
  <2>. QED  BY <2>1, <2>2
<1>7. \A i, j \in 1 .. k + n : i < j => g[i] < g[j]
  <2>. SUFFICES ASSUME NEW i \in 1 .. k + n, NEW j \in 1 .. k + n, i < j
       PROVE  g[i] < g[j]
    OBVIOUS
  <2>1. CASE j <= k
    <3>1. i <= k  BY <1>2, <2>1
    <3>2. g[i] = i /\ g[j] = j  BY <2>1, <3>1
    <3>. QED  BY <3>2
  <2>2. CASE ~(j <= k)
    <3>1. j - k \in 1 .. n /\ g[j] = k + f[j - k]  BY <1>5, <2>2
    <3>2. f[j - k] \in 1 .. m  BY <1>4, <3>1
    <3>3. CASE i <= k
      <4>1. g[i] = i  BY <3>3
      <4>. QED  BY <1>2, <1>3, <3>1, <3>2, <3>3, <4>1
    <3>4. CASE ~(i <= k)
      <4>1. i - k \in 1 .. n /\ g[i] = k + f[i - k]  BY <1>5, <3>4
      <4>2. i - k < j - k  BY <1>2
      <4>3. f[i - k] \in 1 .. m /\ f[i - k] < f[j - k]  BY <1>4, <3>1, <4>1, <4>2
      <4>. QED  BY <1>2, <1>3, <3>1, <3>2, <4>1, <4>3
    <3>. QED  BY <3>3, <3>4
  <2>. QED  BY <2>1, <2>2
<1>8. g \in [1 .. k + n -> 1 .. k + m]  BY <1>6
<1>. HIDE DEF g
<1>9. Embedding(g, a, b)  BY <1>2, <1>3, <1>6, <1>7, <1>8 DEF Embedding
<1>. QED  BY <1>9 DEF Within, a, b

\* The end of a sequence.
LEMMA EndOfSequence ==
    ASSUME NEW S, NEW t \in Seq(S), NEW k \in 0 .. Len(t)
    PROVE  /\ SubSeq(t, k + 1, Len(t)) \in Seq(S)
           /\ Len(SubSeq(t, k + 1, Len(t))) = Len(t) - k
           /\ \A i \in 1 .. Len(t) - k : SubSeq(t, k + 1, Len(t))[i] = t[i + k]
<1>. DEFINE m == Len(t)
            s == SubSeq(t, k + 1, m)
<1>1. m \in Nat /\ k \in Nat /\ k <= m  OBVIOUS
<1>2. s \in Seq(S) /\ Len(s) = m - k /\ \A i \in 1 .. m - k : s[i] = t[i + k]
  <2>1. \A i \in k + 1 .. m : t[i] \in S  OBVIOUS
  <2>2. m - (k + 1) + 1 = m - k /\ k + 1 \in Int /\ m \in Int  BY <1>1
  <2>3. s \in Seq(S) /\ Len(s) = (IF k + 1 <= m THEN m - (k + 1) + 1 ELSE 0)
        /\ \A i \in 1 .. m - (k + 1) + 1 : s[i] = t[k + 1 + i - 1]
    <3>. HIDE DEF m
    <3>. QED  BY <2>1, <2>2, SubSeqProperties
  <2>. HIDE DEF m, s
  <2>4. \A i \in 1 .. m - k : k + 1 + i - 1 = i + k  BY <1>1
  <2>5. Len(s) = m - k
    <3>1. k + 1 <= m \/ m - k = 0  BY <1>1
    <3>. QED  BY <1>1, <2>2, <2>3, <3>1
  <2>. QED  BY <2>2, <2>3, <2>4, <2>5
<1>. QED  BY <1>2

\* It is within the sequence.
LEMMA WithinEnd ==
    ASSUME NEW S, NEW t \in Seq(S), NEW k \in 0 .. Len(t)
    PROVE  Within(SubSeq(t, k + 1, Len(t)), t)
<1>. DEFINE m == Len(t)
            s == SubSeq(t, k + 1, m)
            f == [i \in 1 .. m - k |-> i + k]
<1>1. m \in Nat /\ k \in Nat /\ k <= m  OBVIOUS
<1>2. s \in Seq(S) /\ Len(s) = m - k /\ \A i \in 1 .. m - k : s[i] = t[i + k]
  BY EndOfSequence
<1>. HIDE DEF m, s
<1>3. \A i \in 1 .. m - k : i + k \in 1 .. m  BY <1>1
<1>4. Embedding(f, s, t)
  <2>1. f \in [1 .. m - k -> 1 .. m]  BY <1>3
  <2>2. \A i, j \in 1 .. m - k : i < j => f[i] < f[j]  BY <1>1
  <2>3. \A i \in 1 .. m - k : s[i] = t[f[i]]  BY <1>2
  <2>. HIDE DEF f
  <2>. QED  BY <1>2, <2>1, <2>2, <2>3 DEF Embedding, m
<1>. HIDE DEF f
<1>. QED  BY <1>2, <1>4 DEF Within, s, m

\* The beginning of a sequence, one element after the other.
LEMMA PrefixGrows ==
    ASSUME NEW S, NEW s \in Seq(S), NEW n \in Nat, n <= Len(s)
    PROVE  /\ SubSeq(s, 1, n) \in Seq(S)
           /\ n + 1 <= Len(s) =>
                 SubSeq(s, 1, n + 1) = Append(SubSeq(s, 1, n), s[n + 1])
<1>1. SubSeq(s, 1, n) \in Seq(S)
  <2>1. \A i \in 1 .. n : s[i] \in S  OBVIOUS
  <2>. QED  BY <2>1, SubSeqProperties
<1>2. ASSUME n + 1 <= Len(s)
      PROVE  SubSeq(s, 1, n + 1) = Append(SubSeq(s, 1, n), s[n + 1])
  <2>1. 1 \in 1 .. Len(s) /\ n + 1 \in 1 .. Len(s) /\ n + 1 - 1 = n  BY <1>2
  <2>2. SubSeq(s, 1, n + 1) = SubSeq(s, 1, n + 1 - 1) \o <<s[n + 1]>>
    BY <2>1, SubSeqRecursiveSecond
  <2>3. s[n + 1] \in S  BY <2>1
  <2>4. Append(SubSeq(s, 1, n), s[n + 1]) = SubSeq(s, 1, n) \o <<s[n + 1]>>
    BY <1>1, <2>3, AppendIsConcat
  <2>. QED  BY <2>1, <2>2, <2>4
<1>. QED  BY <1>1, <1>2

-----------------------------------------------------------------------------
(* Sums over finite sets *)

\* A set without one of its elements is smaller by one.
LEMMA OneLess ==
    ASSUME NEW T, IsFiniteSet(T), NEW x \in T, NEW n \in Nat, Cardinality(T) = n + 1
    PROVE  Cardinality(T \ {x}) = n
<1>1. Cardinality(T \ {x}) = Cardinality(T) - 1  BY FS_RemoveElement
<1>. QED  BY <1>1

\* What holds of the empty set and of one element more holds of a finite set.
LEMMA SetGrowth ==
    ASSUME NEW S, IsFiniteSet(S), NEW U, {} \in U,
           \A T \in SUBSET S, x \in S : T \in U /\ x \notin T => T \cup {x} \in U
    PROVE  S \in U
<1>. DEFINE N == {n \in Nat : \A T \in SUBSET S : Cardinality(T) = n => T \in U}
<1>1. 0 \in N
  <2>1. ASSUME NEW T \in SUBSET S, Cardinality(T) = 0 PROVE T \in U
    <3>1. IsFiniteSet(T)  BY FS_Subset
    <3>2. T = {}  BY <2>1, <3>1, FS_EmptySet
    <3>. QED  BY <3>2
  <2>. QED  BY <2>1
<1>2. ASSUME NEW n \in Nat, n \in N PROVE n + 1 \in N
  <2>1. ASSUME NEW T \in SUBSET S, Cardinality(T) = n + 1 PROVE T \in U
    <3>1. IsFiniteSet(T) /\ T # {}  BY <2>1, FS_Subset, FS_EmptySet
    <3>2. PICK x \in T : TRUE  BY <3>1
    <3>3. Cardinality(T \ {x}) = n  BY <2>1, <3>1, <3>2, OneLess
    <3>4. PICK V \in SUBSET S : V = T \ {x}  OBVIOUS
    <3>5. x \notin V /\ V \cup {x} = T  BY ONLY <3>2, <3>4
    <3>6. V \in U  BY <1>2, <3>3, <3>4
    <3>7. x \in S  BY <3>2
    <3>. QED  BY <3>4, <3>5, <3>6, <3>7
  <2>. QED  BY <2>1
<1>3. \A n \in Nat : n \in N
  <2>. HIDE DEF N
  <2>. QED  BY <1>1, <1>2, SetInduction
<1>4. Cardinality(S) \in Nat  BY FS_CardinalityType
<1>. QED  BY <1>3, <1>4

\* The function that the sum of F is defined by.
One(T) == CHOOSE x \in T : TRUE
SumRecursion(h, F) ==
    h = [T \in SUBSET (DOMAIN F) |-> IF T = {} THEN 0 ELSE F[One(T)] + h[T \ {One(T)}]]

\* h has the sums of F over the subsets of S.
SubsetSums(h, F, S) ==
    /\ h \in [SUBSET S -> Int]
    /\ h[{}] = 0
    /\ \A T \in SUBSET S : \A x \in T : h[T] = F[x] + h[T \ {x}]

\* There is such a function.
LEMMA RecursionExists ==
    ASSUME NEW S, IsFiniteSet(S), NEW F \in [S -> Int]
    PROVE  \E h \in [SUBSET S -> Int] : SumRecursion(h, F)
<1>. DEFINE step(h, T) == IF T = {} THEN 0 ELSE F[One(T)] + h[T \ {One(T)}]
            N == {n \in Nat : \E h \in [SUBSET S -> Int] :
                                \A T \in SUBSET S : Cardinality(T) <= n => h[T] = step(h, T)}
<1>0. ASSUME NEW T \in SUBSET S, T # {}
      PROVE  /\ One(T) \in T /\ F[One(T)] \in Int /\ T \ {One(T)} \in SUBSET S
             /\ Cardinality(T) \in Nat /\ Cardinality(T \ {One(T)}) = Cardinality(T) - 1
  <2>1. One(T) \in T  BY <1>0 DEF One
  <2>2. IsFiniteSet(T)  BY FS_Subset
  <2>. QED  BY <2>1, <2>2, FS_RemoveElement, FS_CardinalityType
<1>1. 0 \in N
  <2>. DEFINE h == [T \in SUBSET S |-> 0]
  <2>1. ASSUME NEW T \in SUBSET S, Cardinality(T) <= 0 PROVE T = {}
    <3>1. IsFiniteSet(T) /\ Cardinality(T) \in Nat  BY FS_Subset, FS_CardinalityType
    <3>. QED  BY <2>1, <3>1, FS_EmptySet
  <2>2. h \in [SUBSET S -> Int]  OBVIOUS
  <2>3. \A T \in SUBSET S : Cardinality(T) <= 0 => h[T] = step(h, T)  BY <2>1
  <2>. HIDE DEF h
  <2>. QED  BY <2>2, <2>3
<1>2. ASSUME NEW n \in Nat, n \in N PROVE n + 1 \in N
  <2>1. PICK h \in [SUBSET S -> Int] : \A T \in SUBSET S : Cardinality(T) <= n => h[T] = step(h, T)
    BY <1>2
  <2>. DEFINE g == [T \in SUBSET S |-> IF Cardinality(T) <= n THEN h[T] ELSE step(h, T)]
  <2>2. ASSUME NEW T \in SUBSET S PROVE step(h, T) \in Int
    <3>1. CASE T = {}  BY <3>1
    <3>2. CASE T # {}
      <4>1. h[T \ {One(T)}] \in Int /\ F[One(T)] \in Int  BY <1>0, <3>2
      <4>. QED  BY <3>2, <4>1
    <3>. QED  BY <3>1, <3>2
  <2>3. g \in [SUBSET S -> Int]  BY <2>2
  <2>4. ASSUME NEW T \in SUBSET S, Cardinality(T) <= n + 1 PROVE g[T] = step(g, T)
    <3>1. CASE T = {}
      <4>1. Cardinality(T) <= n  BY <3>1, FS_EmptySet
      <4>. QED  BY <2>1, <3>1, <4>1
    <3>2. CASE T # {}
      <4>1. Cardinality(T \ {One(T)}) <= n  BY <1>0, <2>4, <3>2
      <4>2. g[T \ {One(T)}] = h[T \ {One(T)}]  BY <1>0, <3>2, <4>1
      <4>3. step(g, T) = step(h, T)  BY <4>2
      <4>4. g[T] = step(h, T)  BY <2>1
      <4>. QED  BY <4>3, <4>4
    <3>. QED  BY <3>1, <3>2
  <2>. HIDE DEF g, step
  <2>. QED  BY <2>3, <2>4
<1>3. \A n \in Nat : n \in N
  <2>. HIDE DEF N
  <2>. QED  BY <1>1, <1>2, SetInduction
<1>4. Cardinality(S) \in Nat /\ \A T \in SUBSET S : Cardinality(T) <= Cardinality(S)
  BY FS_CardinalityType, FS_Subset
<1>5. PICK h \in [SUBSET S -> Int] : \A T \in SUBSET S : h[T] = step(h, T)
  <2>1. Cardinality(S) \in N  BY <1>3, <1>4
  <2>. HIDE DEF step
  <2>. QED  BY <1>4, <2>1
<1>6. DOMAIN F = S /\ h = [T \in SUBSET S |-> h[T]]  OBVIOUS
<1>7. SumRecursion(h, F)
  <2>1. [T \in SUBSET S |-> h[T]] = [T \in SUBSET S |-> step(h, T)]  BY <1>5
  <2>. QED  BY <1>6, <2>1 DEF SumRecursion
<1>. QED  BY <1>7

\* Any element may be taken out of the sum.
LEMMA AnyTakenOut ==
    ASSUME NEW S, IsFiniteSet(S), NEW F \in [S -> Int], NEW h \in [SUBSET S -> Int], SumRecursion(h, F)
    PROVE  SubsetSums(h, F, S)
<1>1. \A T \in SUBSET S : h[T] = IF T = {} THEN 0 ELSE F[One(T)] + h[T \ {One(T)}]
  <2>1. DOMAIN F = S  OBVIOUS
  <2>. QED  BY <2>1 DEF SumRecursion
<1>2. \A T \in SUBSET S : T # {} => One(T) \in T  BY DEF One
<1>. DEFINE U == {T \in SUBSET S : \A x \in T : h[T] = F[x] + h[T \ {x}]}
            N == {n \in Nat : \A T \in SUBSET S : Cardinality(T) = n => T \in U}
<1>3. 0 \in N
  <2>1. ASSUME NEW T \in SUBSET S, Cardinality(T) = 0 PROVE T \in U
    <3>1. IsFiniteSet(T)  BY FS_Subset
    <3>2. T = {}  BY <2>1, <3>1, FS_EmptySet
    <3>. QED  BY <3>2
  <2>. QED  BY <2>1
<1>4. ASSUME NEW n \in Nat, n \in N PROVE n + 1 \in N
  <2>1. ASSUME NEW T \in SUBSET S, Cardinality(T) = n + 1, NEW x \in T PROVE h[T] = F[x] + h[T \ {x}]
    <3>1. IsFiniteSet(T)  BY FS_Subset
    <3>2. PICK c \in T : c = One(T)  BY <1>2
    <3>3. h[T] = F[c] + h[T \ {c}]  BY <1>1, <3>2
    <3>4. CASE x = c  BY <3>3, <3>4
    <3>5. CASE x # c
      <4>1. Cardinality(T \ {c}) = n /\ Cardinality(T \ {x}) = n  BY <2>1, <3>1, <3>2, OneLess
      <4>2. T \ {c} \in U /\ T \ {x} \in U  BY <1>4, <4>1
      <4>3. x \in T \ {c} /\ c \in T \ {x}  BY <3>5
      <4>4. h[T \ {c}] = F[x] + h[(T \ {c}) \ {x}]  BY <4>2, <4>3
      <4>5. h[T \ {x}] = F[c] + h[(T \ {x}) \ {c}]  BY <4>2, <4>3
      <4>6. PICK V \in SUBSET S : V = (T \ {x}) \ {c} /\ V = (T \ {c}) \ {x}  OBVIOUS
      <4>7. PICK a \in Int, b \in Int, r \in Int : a = F[x] /\ b = F[c] /\ r = h[V]
        OBVIOUS
      <4>8. h[T \ {c}] = a + r /\ h[T \ {x}] = b + r  BY <4>4, <4>5, <4>6, <4>7
      <4>. QED  BY ONLY <3>3, <4>7, <4>8
    <3>. QED  BY <3>4, <3>5
  <2>. QED  BY <2>1
<1>5. \A n \in Nat : n \in N
  <2>. HIDE DEF N
  <2>. QED  BY <1>3, <1>4, SetInduction
<1>6. \A T \in SUBSET S : T \in U
  <2>1. \A T \in SUBSET S : Cardinality(T) \in Nat  BY FS_Subset, FS_CardinalityType
  <2>. QED  BY <1>5, <2>1
<1>. QED  BY <1>1, <1>6 DEF SubsetSums

\* SumFunction is the last of such sums.
LEMMA SumIsLast ==
    ASSUME NEW S, IsFiniteSet(S), NEW F \in [S -> Int]
    PROVE  \E h : SubsetSums(h, F, S) /\ SumFunction(F) = h[S]
<1>. DEFINE h == CHOOSE h : SumRecursion(h, F)
<1>1. PICK g \in [SUBSET S -> Int] : SumRecursion(g, F)  BY RecursionExists
<1>2. SumRecursion(h, F)  BY <1>1
<1>3. SumFunction(F) = h[S]
  <2>1. SumFunction(F) = h[DOMAIN F]
    BY DEF SumFunction, SumFunctionOnSet, FoldFunctionOnSet, MapThenFoldSet, SumRecursion, One
  <2>. QED  BY <2>1
<1>. HIDE DEF h
<1>4. h = g
  <2>. DEFINE U == {T \in SUBSET S : h[T] = g[T]}
  <2>1. \A T \in SUBSET S : /\ h[T] = IF T = {} THEN 0 ELSE F[One(T)] + h[T \ {One(T)}]
                            /\ g[T] = IF T = {} THEN 0 ELSE F[One(T)] + g[T \ {One(T)}]
    <3>1. DOMAIN F = S  OBVIOUS
    <3>. QED  BY <1>1, <1>2, <3>1 DEF SumRecursion
  <2>. DEFINE N == {n \in Nat : \A T \in SUBSET S : Cardinality(T) = n => h[T] = g[T]}
  <2>2. 0 \in N
    <3>1. ASSUME NEW T \in SUBSET S, Cardinality(T) = 0 PROVE T = {}
      <4>1. IsFiniteSet(T)  BY FS_Subset
      <4>. QED  BY <3>1, <4>1, FS_EmptySet
    <3>. QED  BY <2>1, <3>1
  <2>3. ASSUME NEW n \in Nat, n \in N PROVE n + 1 \in N
    <3>1. ASSUME NEW T \in SUBSET S, Cardinality(T) = n + 1 PROVE h[T] = g[T]
      <4>1. IsFiniteSet(T) /\ T # {}  BY <3>1, FS_Subset, FS_EmptySet
      <4>2. One(T) \in T  BY <4>1 DEF One
      <4>3. Cardinality(T \ {One(T)}) = n  BY <3>1, <4>1, <4>2, OneLess
      <4>4. h[T \ {One(T)}] = g[T \ {One(T)}]  BY <2>3, <4>3
      <4>. QED  BY <2>1, <4>1, <4>4
    <3>. QED  BY <3>1
  <2>4. \A n \in Nat : n \in N
    <3>. HIDE DEF N
    <3>. QED  BY <2>2, <2>3, SetInduction
  <2>5. \A T \in SUBSET S : h[T] = g[T]
    <3>1. \A T \in SUBSET S : Cardinality(T) \in Nat  BY FS_Subset, FS_CardinalityType
    <3>. QED  BY <2>4, <3>1
  <2>6. h = [T \in SUBSET S |-> h[T]]
    <3>1. DOMAIN F = S  OBVIOUS
    <3>. QED  BY <1>2, <3>1 DEF SumRecursion
  <2>. QED  BY <2>5, <2>6
<1>. QED  BY <1>1, <1>3, <1>4, AnyTakenOut

\* What is equal has equal sums.
LEMMA SubsetSumsAgree ==
    ASSUME NEW S, IsFiniteSet(S), NEW A \in SUBSET S, NEW F, NEW G, NEW h, NEW g,
           SubsetSums(h, F, S), SubsetSums(g, G, A), \A x \in A : F[x] = G[x]
    PROVE  h[A] = g[A]
<1>. DEFINE U == {T \in SUBSET A : h[T] = g[T]}
<1>1. IsFiniteSet(A)  BY FS_Subset
<1>2. {} \in U  BY DEF SubsetSums
<1>3. ASSUME NEW T \in SUBSET A, NEW x \in A, T \in U, x \notin T PROVE T \cup {x} \in U
  <2>1. PICK V \in SUBSET A : V = T \cup {x}  OBVIOUS
  <2>2. x \in V /\ V \ {x} = T /\ V \in SUBSET S  BY <1>3, <2>1
  <2>3. h[V] = F[x] + h[V \ {x}]  BY <2>2 DEF SubsetSums
  <2>4. g[V] = G[x] + g[V \ {x}]  BY <2>2 DEF SubsetSums
  <2>. QED  BY <1>3, <2>1, <2>2, <2>3, <2>4
<1>4. A \in U
  <2>. HIDE DEF U
  <2>. QED  BY <1>1, <1>2, <1>3, SetGrowth
<1>. QED  BY <1>4

\* The laws of sums: nothing adds up to zero, and one element may be taken out.
LEMMA SumLaws ==
    ASSUME NEW S, IsFiniteSet(S), NEW F \in [S -> Int]
    PROVE  /\ SumFunction(F) \in Int
           /\ S = {} => SumFunction(F) = 0
           /\ \A x \in S : SumFunction(F) = F[x] + SumFunction([y \in S \ {x} |-> F[y]])
<1>1. PICK h : SubsetSums(h, F, S) /\ SumFunction(F) = h[S]  BY SumIsLast
<1>2. ASSUME NEW x \in S PROVE SumFunction(F) = F[x] + SumFunction([y \in S \ {x} |-> F[y]])
  <2>. DEFINE G == [y \in S \ {x} |-> F[y]]
  <2>1. IsFiniteSet(S \ {x}) /\ G \in [S \ {x} -> Int]  BY FS_RemoveElement
  <2>2. \A y \in S \ {x} : F[y] = G[y]  OBVIOUS
  <2>. HIDE DEF G
  <2>3. PICK g : SubsetSums(g, G, S \ {x}) /\ SumFunction(G) = g[S \ {x}]  BY <2>1, SumIsLast
  <2>4. h[S \ {x}] = g[S \ {x}]  BY <1>1, <2>2, <2>3, S \ {x} \in SUBSET S, SubsetSumsAgree
  <2>5. h[S] = F[x] + h[S \ {x}]  BY <1>1 DEF SubsetSums
  <2>. QED  BY <1>1, <2>3, <2>4, <2>5 DEF G
<1>. QED  BY <1>1, <1>2 DEF SubsetSums

\* The sum over a part of a set.
SumOver(F, T) == SumFunction([x \in T |-> F[x]])

\* It is a number, nothing over nothing, and grows by what is added.
LEMMA SumOverLaws ==
    ASSUME NEW S, IsFiniteSet(S), NEW F, \A x \in S : F[x] \in Int
    PROVE  /\ \A T \in SUBSET S : SumOver(F, T) \in Int
           /\ SumOver(F, {}) = 0
           /\ \A T \in SUBSET S, x \in S : x \notin T => SumOver(F, T \cup {x}) = SumOver(F, T) + F[x]
<1>1. ASSUME NEW T \in SUBSET S
      PROVE  IsFiniteSet(T) /\ [x \in T |-> F[x]] \in [T -> Int] /\ SumOver(F, T) \in Int
  <2>1. IsFiniteSet(T) /\ [x \in T |-> F[x]] \in [T -> Int]  BY FS_Subset
  <2>. QED  BY <2>1, SumLaws DEF SumOver
<1>2. SumOver(F, {}) = 0  BY <1>1, SumLaws, {} \in SUBSET S DEF SumOver
<1>3. ASSUME NEW T \in SUBSET S, NEW x \in S, x \notin T
      PROVE  SumOver(F, T \cup {x}) = SumOver(F, T) + F[x]
  <2>1. PICK V \in SUBSET S : V = T \cup {x}  OBVIOUS
  <2>2. V \ {x} = T /\ x \in V  BY <1>3, <2>1
  <2>. DEFINE G == [y \in V |-> F[y]]
  <2>3. G \in [V -> Int] /\ IsFiniteSet(V)  BY <1>1
  <2>4. G[x] = F[x] /\ [y \in V \ {x} |-> G[y]] = [y \in T |-> F[y]]  BY <2>2
  <2>5. SumOver(F, V) = SumFunction(G)  BY DEF SumOver
  <2>. HIDE DEF G
  <2>6. SumFunction(G) = G[x] + SumFunction([y \in V \ {x} |-> G[y]])  BY <2>2, <2>3, SumLaws
  <2>7. SumOver(F, V) = F[x] + SumOver(F, T)  BY <2>4, <2>5, <2>6 DEF SumOver
  <2>8. SumOver(F, T) \in Int /\ F[x] \in Int  BY <1>1
  <2>. QED  BY <2>1, <2>7, <2>8
<1>. QED  BY <1>1, <1>2, <1>3

\* A sum of numbers is their sum again when they are grouped.
LEMMA SumOfFunction ==
    ASSUME NEW S, NEW F \in [S -> Int]
    PROVE  SumOver(F, S) = SumFunction(F)
<1>1. [x \in S |-> F[x]] = F  OBVIOUS
<1>. QED  BY <1>1 DEF SumOver

\* The sum depends on nothing but the values.
LEMMA SumOverSame ==
    ASSUME NEW T, NEW F, NEW G, \A x \in T : F[x] = G[x]
    PROVE  SumOver(F, T) = SumOver(G, T)
<1>1. [x \in T |-> F[x]] = [x \in T |-> G[x]]  OBVIOUS
<1>. QED  BY <1>1 DEF SumOver

\* The sum of two functions.
LEMMA SumOfTwo ==
    ASSUME NEW S, IsFiniteSet(S), NEW F, \A x \in S : F[x] \in Int, NEW G, \A x \in S : G[x] \in Int,
           NEW H, \A x \in S : H[x] = F[x] + G[x]
    PROVE  SumOver(H, S) = SumOver(F, S) + SumOver(G, S)
<1>. DEFINE U == {T \in SUBSET S : SumOver(H, T) = SumOver(F, T) + SumOver(G, T)}
<1>1. \A x \in S : H[x] \in Int  OBVIOUS
<1>2. {} \in U
  <2>1. SumOver(H, {}) = 0 /\ SumOver(F, {}) = 0 /\ SumOver(G, {}) = 0  BY <1>1, SumOverLaws
  <2>. QED  BY <2>1
<1>3. ASSUME NEW T \in SUBSET S, NEW x \in S, T \in U, x \notin T PROVE T \cup {x} \in U
  <2>1. SumOver(H, T \cup {x}) = SumOver(H, T) + H[x]  BY <1>1, <1>3, SumOverLaws
  <2>2. SumOver(F, T \cup {x}) = SumOver(F, T) + F[x]  BY <1>3, SumOverLaws
  <2>3. SumOver(G, T \cup {x}) = SumOver(G, T) + G[x]  BY <1>3, SumOverLaws
  <2>4. SumOver(F, T) \in Int /\ SumOver(G, T) \in Int  BY SumOverLaws
  <2>5. SumOver(H, T) = SumOver(F, T) + SumOver(G, T)  BY <1>3
  <2>6. T \cup {x} \in SUBSET S  OBVIOUS
  <2>7. PICK f \in Int, g \in Int : f = F[x] /\ g = G[x] /\ H[x] = f + g  OBVIOUS
  <2>. HIDE DEF U
  <2>8. SumOver(H, T \cup {x}) = SumOver(F, T \cup {x}) + SumOver(G, T \cup {x})
    BY ONLY <2>1, <2>2, <2>3, <2>4, <2>5, <2>7
  <2>. QED  BY <2>6, <2>8 DEF U
<1>4. S \in U
  <2>. HIDE DEF U
  <2>. QED  BY <1>2, <1>3, SetGrowth
<1>. QED  BY <1>4

\* Sums of numbers that are not negative.
LEMMA SumOfNaturals ==
    ASSUME NEW S, IsFiniteSet(S), NEW F, \A x \in S : F[x] \in Nat
    PROVE  /\ SumOver(F, S) \in Nat
           /\ SumOver(F, S) = 0 <=> \A x \in S : F[x] = 0
<1>. DEFINE U == {T \in SUBSET S : /\ SumOver(F, T) \in Nat
                                   /\ SumOver(F, T) = 0 <=> \A x \in T : F[x] = 0}
<1>1. \A x \in S : F[x] \in Int  OBVIOUS
<1>2. {} \in U
  <2>1. SumOver(F, {}) = 0  BY <1>1, SumOverLaws
  <2>. QED  BY <2>1
<1>3. ASSUME NEW T \in SUBSET S, NEW x \in S, T \in U, x \notin T PROVE T \cup {x} \in U
  <2>1. SumOver(F, T \cup {x}) = SumOver(F, T) + F[x]  BY <1>1, <1>3, SumOverLaws
  <2>2. PICK n \in Nat, m \in Nat : n = SumOver(F, T) /\ m = F[x]  BY <1>3
  <2>3. SumOver(F, T \cup {x}) \in Nat /\ (SumOver(F, T \cup {x}) = 0 <=> n = 0 /\ m = 0)
    BY ONLY <2>1, <2>2
  <2>4. (\A y \in T \cup {x} : F[y] = 0) <=> n = 0 /\ m = 0  BY <1>3, <2>2
  <2>5. T \cup {x} \in SUBSET S  OBVIOUS
  <2>. QED  BY <2>3, <2>4, <2>5
<1>4. S \in U
  <2>. HIDE DEF U
  <2>. QED  BY <1>2, <1>3, SetGrowth
<1>. QED  BY <1>4

\* A set in two parts.
LEMMA SumInTwo ==
    ASSUME NEW S, IsFiniteSet(S), NEW F, \A x \in S : F[x] \in Int, NEW A \in SUBSET S
    PROVE  SumOver(F, S) = SumOver(F, A) + SumOver(F, S \ A)
<1>. DEFINE B == S \ A
            U == {T \in SUBSET B : SumOver(F, A \cup T) = SumOver(F, A) + SumOver(F, T)}
<1>1. IsFiniteSet(B)  BY FS_Subset
<1>2. {} \in U
  <2>1. SumOver(F, {}) = 0 /\ SumOver(F, A) \in Int /\ A \cup {} = A  BY SumOverLaws
  <2>. QED  BY <2>1
<1>3. ASSUME NEW T \in SUBSET B, NEW x \in B, T \in U, x \notin T PROVE T \cup {x} \in U
  <2>1. PICK V \in SUBSET S : V = A \cup T  OBVIOUS
  <2>2. x \in S /\ x \notin V /\ T \in SUBSET S /\ A \cup (T \cup {x}) = V \cup {x}  BY <1>3, <2>1
  <2>3. SumOver(F, V \cup {x}) = SumOver(F, V) + F[x]  BY <2>2, SumOverLaws
  <2>4. SumOver(F, T \cup {x}) = SumOver(F, T) + F[x]  BY <1>3, <2>2, SumOverLaws
  <2>5. PICK a \in Int, t \in Int, f \in Int : a = SumOver(F, A) /\ t = SumOver(F, T) /\ f = F[x]
    BY <2>2, SumOverLaws
  <2>6. SumOver(F, V) = a + t  BY <1>3, <2>1, <2>5
  <2>7. SumOver(F, A \cup (T \cup {x})) = SumOver(F, A) + SumOver(F, T \cup {x})
    <3>1. SumOver(F, A \cup (T \cup {x})) = SumOver(F, V \cup {x})  BY <2>2
    <3>2. SumOver(F, V \cup {x}) = a + t + f /\ SumOver(F, T \cup {x}) = t + f  BY <2>3, <2>4, <2>5, <2>6
    <3>. QED  BY ONLY <2>5, <3>1, <3>2
  <2>8. T \cup {x} \in SUBSET B  BY <1>3
  <2>. QED  BY <2>7, <2>8
<1>4. B \in U
  <2>. HIDE DEF U, B
  <2>. QED  BY <1>1, <1>2, <1>3, SetGrowth
<1>5. A \cup B = S  OBVIOUS
<1>. QED  BY <1>4, <1>5

\* Only what is not zero counts.
LEMMA SumOfZeros ==
    ASSUME NEW S, IsFiniteSet(S), NEW F, NEW A \in SUBSET S, \A x \in A : F[x] \in Int,
           \A x \in S \ A : F[x] = 0
    PROVE  SumOver(F, S) = SumOver(F, A)
<1>1. \A x \in S : F[x] \in Int  OBVIOUS
<1>2. SumOver(F, S) = SumOver(F, A) + SumOver(F, S \ A)  BY <1>1, SumInTwo
<1>3. SumOver(F, S \ A) = 0
  <2>1. IsFiniteSet(S \ A) /\ \A x \in S \ A : F[x] \in Nat  BY FS_Subset
  <2>. QED  BY <2>1, SumOfNaturals
<1>4. SumOver(F, A) \in Int  BY <1>1, SumOverLaws
<1>. QED  BY <1>2, <1>3, <1>4

\* A sum by groups: g says in which group an element is, G what is in a group.
LEMMA SumByGroups ==
    ASSUME NEW S, IsFiniteSet(S), NEW F, \A x \in S : F[x] \in Int,
           NEW K, IsFiniteSet(K), NEW g, \A x \in S : g[x] \in K,
           NEW G, \A k \in K : \A x : x \in G[k] <=> x \in S /\ g[x] = k,
           NEW H, \A k \in K : H[k] = SumOver(F, G[k])
    PROVE  SumOver(F, S) = SumOver(H, K)
<1>. DEFINE Group(T) == {x \in S : g[x] \in T}
            U == {T \in SUBSET K : SumOver(F, Group(T)) = SumOver(H, T)}
<1>1. \A T : Group(T) \in SUBSET S  OBVIOUS
<1>2. \A k \in K : H[k] \in Int
  <2>1. \A T \in SUBSET S : SumOver(F, T) \in Int  BY SumOverLaws
  <2>2. \A k \in K : G[k] \in SUBSET S  OBVIOUS
  <2>. QED  BY <2>1, <2>2
<1>3. {} \in U
  <2>1. SumOver(F, {}) = 0 /\ SumOver(H, {}) = 0  BY <1>2, SumOverLaws
  <2>2. Group({}) = {}  OBVIOUS
  <2>. QED  BY <2>1, <2>2
<1>4. ASSUME NEW T \in SUBSET K, NEW k \in K, T \in U, k \notin T PROVE T \cup {k} \in U
  <2>. DEFINE one == {x \in S : g[x] = k}
              all == Group(T \cup {k})
  <2>1. all \in SUBSET S /\ one \in SUBSET all /\ all \ one = Group(T)  BY <1>4
  <2>2. IsFiniteSet(all) /\ \A x \in all : F[x] \in Int  BY <2>1, FS_Subset
  <2>3. SumOver(F, Group(T)) = SumOver(H, T)  BY <1>4
  <2>. HIDE DEF one, all
  <2>4. SumOver(F, all) = SumOver(F, one) + SumOver(F, Group(T))  BY <2>1, <2>2, SumInTwo
  <2>5. SumOver(H, T \cup {k}) = SumOver(H, T) + H[k]  BY <1>2, <1>4, SumOverLaws
  <2>6. H[k] = SumOver(F, one)
    <3>1. G[k] = one  BY DEF one
    <3>. QED  BY <3>1
  <2>7. SumOver(H, T) \in Int /\ H[k] \in Int  BY <1>2, SumOverLaws
  <2>8. SumOver(F, all) = SumOver(H, T \cup {k})  BY ONLY <2>3, <2>4, <2>5, <2>6, <2>7
  <2>9. T \cup {k} \in SUBSET K  OBVIOUS
  <2>. QED  BY <2>8, <2>9 DEF all
<1>5. K \in U
  <2>. HIDE DEF U
  <2>. QED  BY <1>3, <1>4, SetGrowth
<1>6. Group(K) = S  OBVIOUS
<1>. QED  BY <1>5, <1>6

\* The names of the elements do not matter.
LEMMA SumRenamed ==
    ASSUME NEW S, IsFiniteSet(S), NEW F, \A x \in S : F[x] \in Int,
           NEW K, NEW b \in [K -> S], \A k, l \in K : b[k] = b[l] => k = l,
           \A x \in S : \E k \in K : b[k] = x,
           NEW H, \A k \in K : H[k] = F[b[k]]
    PROVE  SumOver(H, K) = SumOver(F, S)
<1>. DEFINE back(T) == {k \in K : b[k] \in T}
            U == {T \in SUBSET S : SumOver(H, back(T)) = SumOver(F, T)}
<1>0. IsFiniteSet(K)
  <2>1. b \in Injection(K, S)  BY DEF Injection, IsInjective
  <2>. QED  BY <2>1, FS_Injection
<1>1. \A k \in K : H[k] \in Int  OBVIOUS
<1>2. {} \in U
  <2>1. SumOver(F, {}) = 0 /\ SumOver(H, {}) = 0  BY <1>0, <1>1, SumOverLaws
  <2>2. back({}) = {}  OBVIOUS
  <2>. QED  BY <2>1, <2>2
<1>3. ASSUME NEW T \in SUBSET S, NEW x \in S, T \in U, x \notin T PROVE T \cup {x} \in U
  <2>1. PICK k \in K : b[k] = x  OBVIOUS
  <2>2. back(T \cup {x}) = back(T) \cup {k} /\ k \notin back(T) /\ back(T) \in SUBSET K  BY <1>3, <2>1
  <2>3. SumOver(H, back(T) \cup {k}) = SumOver(H, back(T)) + H[k]  
    <3>1. PICK V \in SUBSET K : V = back(T) /\ k \notin V  BY <2>2
    <3>2. SumOver(H, V \cup {k}) = SumOver(H, V) + H[k]
      <4>1. \A X \in SUBSET K, y \in K : y \notin X => SumOver(H, X \cup {y}) = SumOver(H, X) + H[y]
        BY ONLY <1>0, <1>1, SumOverLaws
      <4>. QED  BY <3>1, <4>1
    <3>. QED  BY <3>1, <3>2
  <2>4. SumOver(F, T \cup {x}) = SumOver(F, T) + F[x]  BY <1>3, SumOverLaws
  <2>5. SumOver(H, back(T)) = SumOver(F, T)  BY <1>3
  <2>6. SumOver(H, back(T \cup {x})) = SumOver(F, T \cup {x})  BY <2>1, <2>2, <2>3, <2>4, <2>5
  <2>7. T \cup {x} \in SUBSET S  OBVIOUS
  <2>. QED  BY <2>6, <2>7
<1>4. S \in U
  <2>. HIDE DEF U
  <2>. QED  BY <1>2, <1>3, SetGrowth
<1>5. back(S) = K  OBVIOUS
<1>. QED  BY <1>4, <1>5
-----------------------------------------------------------------------------
(* The beginning of a finite set *)

\* R is a strict order in which any two elements of S are comparable.
OrderedBy(R, S) ==
    /\ \A x \in S : <<x, x>> \notin R
    /\ \A x, y, z \in S : <<x, y>> \in R /\ <<y, z>> \in R => <<x, z>> \in R
    /\ \A x, y \in S : x = y \/ <<x, y>> \in R \/ <<y, x>> \in R

\* The elements of S before x, and those with less than k before them.
ElementsBefore(R, S, x) == {y \in S : <<y, x>> \in R}
FirstElements(R, S, k) == {x \in S : Cardinality(ElementsBefore(R, S, x)) < k}

\* There is a first element.
LEMMA FirstExists ==
    ASSUME NEW S, IsFiniteSet(S), S # {}, NEW R, OrderedBy(R, S)
    PROVE  \E x \in S : \A y \in S : x = y \/ <<x, y>> \in R
<1>. DEFINE U == {T \in SUBSET S : T = {} \/ \E x \in T : \A y \in T : x = y \/ <<x, y>> \in R}
<1>1. {} \in U  OBVIOUS
<1>2. ASSUME NEW T \in SUBSET S, NEW x \in S, T \in U, x \notin T PROVE T \cup {x} \in U
  <2>1. CASE T = {}  BY <2>1
  <2>2. CASE T # {}
    <3>1. PICK m \in T : \A y \in T : m = y \/ <<m, y>> \in R  BY <1>2, <2>2
    <3>2. CASE <<m, x>> \in R  BY <3>1, <3>2
    <3>3. CASE <<x, m>> \in R
      <4>1. \A y \in T : <<x, y>> \in R  BY <3>1, <3>3 DEF OrderedBy
      <4>. QED  BY <4>1
    <3>. QED  BY <1>2, <3>2, <3>3 DEF OrderedBy
  <2>. QED  BY <2>1, <2>2
<1>3. S \in U
  <2>. HIDE DEF U
  <2>. QED  BY <1>1, <1>2, SetGrowth
<1>. QED  BY <1>3

\* The first k of a set are k, if it has as many, and all of it otherwise.
LEMMA FirstsCount ==
    ASSUME NEW S, IsFiniteSet(S), NEW R, OrderedBy(R, S), NEW k \in Nat
    PROVE  IF k < Cardinality(S) THEN Cardinality(FirstElements(R, S, k)) = k ELSE FirstElements(R, S, k) = S
<1>. DEFINE n == Cardinality(S)
            N == {j \in Nat : j <= n => Cardinality(FirstElements(R, S, j)) = j}
<1>1. n \in Nat  BY FS_CardinalityType
<1>2. \A x \in S : IsFiniteSet(ElementsBefore(R, S, x)) /\ Cardinality(ElementsBefore(R, S, x)) \in Nat
  BY FS_Subset, FS_CardinalityType DEF ElementsBefore
<1>3. \A j \in Nat : IsFiniteSet(FirstElements(R, S, j)) /\ FirstElements(R, S, j) \subseteq S
  BY FS_Subset DEF FirstElements
<1>4. 0 \in N
  <2>1. FirstElements(R, S, 0) = {}  BY <1>2 DEF FirstElements
  <2>. QED  BY <2>1, FS_EmptySet
<1>5. ASSUME NEW j \in Nat, j \in N PROVE j + 1 \in N
  <2>. SUFFICES ASSUME j + 1 <= n PROVE Cardinality(FirstElements(R, S, j + 1)) = j + 1  OBVIOUS
  <2>. DEFINE T == FirstElements(R, S, j)
  <2>1. Cardinality(T) = j /\ j < n  BY <1>1, <1>5
  <2>2. S \ T # {}
    <3>1. T # S  BY <1>1, <2>1
    <3>. QED  BY <1>3, <3>1
  <2>3. PICK m \in S \ T : \A y \in S \ T : m = y \/ <<m, y>> \in R
    <3>1. PICK V \in SUBSET S : V = S \ T  OBVIOUS
    <3>2. IsFiniteSet(V) /\ V # {} /\ OrderedBy(R, V)  BY <2>2, <3>1, FS_Subset DEF OrderedBy
    <3>3. \E x \in V : \A y \in V : x = y \/ <<x, y>> \in R  BY ONLY <3>2, FirstExists
    <3>. QED  BY <3>1, <3>3
  <2>4. ASSUME NEW x \in T PROVE <<x, m>> \in R
    <3>1. x \in S /\ x # m /\ m \in S  BY <1>3, <2>3
    <3>2. ASSUME <<m, x>> \in R PROVE FALSE
      <4>1. ElementsBefore(R, S, m) \subseteq ElementsBefore(R, S, x)  BY <3>1, <3>2 DEF ElementsBefore, OrderedBy
      <4>2. Cardinality(ElementsBefore(R, S, m)) <= Cardinality(ElementsBefore(R, S, x))
        BY <1>2, <3>1, <4>1, FS_Subset
      <4>3. Cardinality(ElementsBefore(R, S, x)) < j /\ ~(Cardinality(ElementsBefore(R, S, m)) < j)
        BY <2>3, <3>1 DEF FirstElements
      <4>. QED  BY <1>2, <3>1, <4>2, <4>3
    <3>. QED  BY <3>1, <3>2 DEF OrderedBy
  <2>5. ElementsBefore(R, S, m) = T
    <3>1. T \subseteq ElementsBefore(R, S, m)  BY <1>3, <2>4 DEF ElementsBefore
    <3>2. ASSUME NEW y \in ElementsBefore(R, S, m), y \notin T PROVE FALSE
      <4>1. y \in S \ T /\ <<y, m>> \in R /\ m \in S  BY <2>3, <3>2 DEF ElementsBefore
      <4>2. m = y \/ <<m, y>> \in R  BY <2>3, <4>1
      <4>. QED  BY <4>1, <4>2 DEF OrderedBy
    <3>. QED  BY <3>1, <3>2
  <2>6. ASSUME NEW x \in S, x \notin T, x # m PROVE ~(Cardinality(ElementsBefore(R, S, x)) < j + 1)
    <3>1. <<m, x>> \in R /\ m \in S /\ m \notin T  BY <2>3, <2>6
    <3>2. T \cup {m} \subseteq ElementsBefore(R, S, x)
      <4>1. \A y \in T : <<y, x>> \in R  BY <1>3, <2>4, <3>1 DEF OrderedBy
      <4>. QED  BY <1>3, <3>1, <4>1 DEF ElementsBefore
    <3>3. Cardinality(T \cup {m}) = j + 1  BY <1>3, <2>1, <3>1, FS_AddElement
    <3>4. Cardinality(T \cup {m}) <= Cardinality(ElementsBefore(R, S, x))  BY <1>2, <3>2, FS_Subset
    <3>. QED  BY <1>2, <3>3, <3>4
  <2>7. FirstElements(R, S, j + 1) = T \cup {m}
    <3>1. \A x \in T : Cardinality(ElementsBefore(R, S, x)) < j + 1
      <4>1. \A x \in T : x \in S /\ Cardinality(ElementsBefore(R, S, x)) < j  BY DEF FirstElements
      <4>. QED  BY <1>2, <4>1
    <3>2. Cardinality(ElementsBefore(R, S, m)) < j + 1  BY <2>1, <2>5
    <3>3. \A x : x \in FirstElements(R, S, j + 1) <=> x \in S /\ Cardinality(ElementsBefore(R, S, x)) < j + 1
      BY DEF FirstElements
    <3>. QED  BY <1>3, <2>3, <2>6, <3>1, <3>2, <3>3
  <2>8. Cardinality(T \cup {m}) = j + 1  BY <1>3, <2>1, <2>3, FS_AddElement
  <2>. QED  BY <2>7, <2>8
<1>6. \A j \in Nat : j \in N
  <2>. HIDE DEF N
  <2>. QED  BY <1>4, <1>5, SetInduction
<1>7. CASE k < n  BY <1>1, <1>6, <1>7
<1>8. CASE ~(k < n)
  <2>1. ASSUME NEW x \in S PROVE Cardinality(ElementsBefore(R, S, x)) < k
    <3>1. ElementsBefore(R, S, x) \subseteq S \ {x}  BY DEF ElementsBefore, OrderedBy
    <3>2. IsFiniteSet(S \ {x}) /\ Cardinality(S \ {x}) = n - 1  BY FS_RemoveElement
    <3>3. Cardinality(ElementsBefore(R, S, x)) <= n - 1  BY <3>1, <3>2, FS_Subset
    <3>. QED  BY <1>1, <1>2, <1>8, <3>3
  <2>. QED  BY <1>8, <2>1 DEF FirstElements
<1>. QED  BY <1>7, <1>8

\* Numbers are ordered by one figure, then by another, then by themselves.
LEMMA FiguresOrder ==
    ASSUME NEW M \in SUBSET Int, NEW C, \A m \in M : C[m] \in Int, NEW T, \A m \in M : T[m] \in Int,
           NEW R, \A m, n \in M : <<m, n>> \in R <=>
                     \/ C[m] > C[n]
                     \/ C[m] = C[n] /\ (T[m] > T[n] \/ (T[m] = T[n] /\ m < n))
    PROVE  OrderedBy(R, M)
<1>1. \A m \in M : <<m, m>> \notin R  OBVIOUS
<1>2. ASSUME NEW x \in M, NEW y \in M, NEW z \in M, <<x, y>> \in R, <<y, z>> \in R
      PROVE  <<x, z>> \in R
  <2>1. /\ C[x] \in Int /\ C[y] \in Int /\ C[z] \in Int
        /\ T[x] \in Int /\ T[y] \in Int /\ T[z] \in Int
        /\ x \in Int /\ y \in Int /\ z \in Int
    OBVIOUS
  <2>2. C[x] > C[y] \/ (C[x] = C[y] /\ (T[x] > T[y] \/ (T[x] = T[y] /\ x < y)))  BY <1>2
  <2>3. C[y] > C[z] \/ (C[y] = C[z] /\ (T[y] > T[z] \/ (T[y] = T[z] /\ y < z)))  BY <1>2
  <2>4. C[x] > C[z] \/ (C[x] = C[z] /\ (T[x] > T[z] \/ (T[x] = T[z] /\ x < z)))
    BY ONLY <2>1, <2>2, <2>3
  <2>. QED  BY <2>4
<1>3. ASSUME NEW x \in M, NEW y \in M PROVE x = y \/ <<x, y>> \in R \/ <<y, x>> \in R
  <2>1. C[x] \in Int /\ C[y] \in Int /\ T[x] \in Int /\ T[y] \in Int /\ x \in Int /\ y \in Int
    OBVIOUS
  <2>. QED  BY <2>1
<1>. QED  BY <1>1, <1>2, <1>3 DEF OrderedBy

\* Some of the groups have no more than the sum, and all of them have it.
LEMMA SumOfSomeGroups ==
    ASSUME NEW S, IsFiniteSet(S), NEW F, \A x \in S : F[x] \in Nat,
           NEW K, IsFiniteSet(K), NEW g, \A x \in S : g[x] \in K,
           NEW G, \A k \in K : \A x : x \in G[k] <=> x \in S /\ g[x] = k,
           NEW H, \A k \in K : H[k] = SumOver(F, G[k])
    PROVE  /\ \A k \in K : H[k] \in Nat
           /\ \A P \in SUBSET K : SumOver(H, P) <= SumOver(F, S)
           /\ SumOver(H, K) = SumOver(F, S)
<1>1. ASSUME NEW k \in K PROVE H[k] \in Nat
  <2>1. PICK V \in SUBSET S : V = G[k]  OBVIOUS
  <2>2. IsFiniteSet(V) /\ \A x \in V : F[x] \in Nat  BY FS_Subset
  <2>3. SumOver(F, V) \in Nat  BY ONLY <2>2, SumOfNaturals
  <2>. QED  BY <2>1, <2>3
<1>2. \A x \in S : F[x] \in Int  OBVIOUS
<1>3. SumOver(F, S) = SumOver(H, K)  BY <1>2, SumByGroups
<1>4. \A T \in SUBSET K : SumOver(H, T) \in Nat
  <2>1. ASSUME NEW T \in SUBSET K PROVE SumOver(H, T) \in Nat
    <3>1. IsFiniteSet(T) /\ \A k \in T : H[k] \in Nat  BY <1>1, FS_Subset
    <3>. QED  BY ONLY <3>1, SumOfNaturals
  <2>. QED  BY <2>1
<1>5. ASSUME NEW P \in SUBSET K PROVE SumOver(H, P) <= SumOver(F, S)
  <2>1. \A k \in K : H[k] \in Int  BY <1>1
  <2>2. SumOver(H, K) = SumOver(H, P) + SumOver(H, K \ P)  BY <2>1, SumInTwo
  <2>3. K \ P \in SUBSET K  OBVIOUS
  <2>4. PICK a \in Nat, b \in Nat : a = SumOver(H, P) /\ b = SumOver(H, K \ P)  BY <1>4, <2>3
  <2>. QED  BY ONLY <1>3, <2>2, <2>4
<1>. QED  BY <1>1, <1>3, <1>5
=============================================================================
