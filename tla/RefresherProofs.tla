--------------------------- MODULE RefresherProofs ---------------------------
(***************************************************************************)
(* Proofs about the parts that ask a vendor and must not ask too often.    *)
(* TokenSource: one exchange of the credential for each token that was     *)
(* refused, for any number of users.  LimitRefresher: what is told to be   *)
(* fresh is fresh, for any number of callers and vendors, any cooldown and *)
(* any timeout.  TitleRefresher: no retry of an ended session is lost,     *)
(* doubled or applied to another life of it, for any number of sessions,   *)
(* any queue, any number of retries and either policy.                     *)
(***************************************************************************)
EXTENDS TokenSource, LimitRefresher, TitleRefresher, FiniteSetTheorems, TLAPS

-----------------------------------------------------------------------------
(* TokenSource *)

Numbered == \E n \in Nat : Made = 1..n

TokenType ==
    /\ Numbered
    /\ cached \in Nat
    /\ at \in [Users -> {"idle", "wait", "send", "refused"}]
    /\ using \in [Users -> Nat]
    /\ runs \in [Made -> {"running", "left", "answered", "taken", "over"}]
    /\ answer \in [Made -> Nat]

\* Who waits holds the mutex, and waits for the last exchange.
WaitsForLast ==
    \A u \in Users : at[u] = "wait" =>
        /\ holder = {u} /\ cached = NoToken
        /\ using[u] = LastRun /\ LastRun \in Made /\ runs[LastRun] \in {"running", "answered"}

Held == holder = {} \/ \E u \in Users : holder = {u} /\ at[u] = "wait"

Past == {"left", "over", "taken"}

\* Only the last exchange is under way, and only while somebody waits for it.
OthersPast == \A r \in Made : r # LastRun \/ holder = {} => runs[r] \in Past

OwnAnswer == \A r \in Made : answer[r] \in {NoToken, r}

CachedIsLast == cached \in {NoToken, LastRun}

\* A token that was taken is cached until it has been refused.
TakenIsCached ==
    \A r \in Made : runs[r] = "taken" /\ answer[r] # NoToken => r \in refused \/ cached = r

RefusedIsKnown == \A u \in Users : at[u] = "refused" => using[u] \in refused

TokenInv ==
    TokenType /\ WaitsForLast /\ Held /\ OthersPast /\ OwnAnswer /\ CachedIsLast
      /\ TakenIsCached /\ RefusedIsKnown

LEMMA NumberedByLast == Numbered => LastRun \in Nat /\ Made = 1..LastRun
<1> SUFFICES ASSUME NEW n \in Nat, Made = 1..n
             PROVE  LastRun \in Nat /\ Made = 1..LastRun
  BY DEF Numbered
<1>1. Cardinality(1..n) = n
  BY FS_Interval
<1> QED
  BY <1>1 DEF LastRun

LEMMA TokenInitInv == TokenInit => TokenInv
<1> SUFFICES ASSUME TokenInit PROVE TokenInv
  OBVIOUS
<1>1. Made = {} /\ Made = 1..0
  BY DEF TokenInit, Made
<1>2. Numbered
  BY <1>1 DEF Numbered
<1> QED
  BY <1>1, <1>2 DEF TokenInit, TokenInv, TokenType, WaitsForLast, Held, OthersPast, OwnAnswer,
     CachedIsLast, TakenIsCached, RefusedIsKnown, NoToken, Made

\* The steps that begin no exchange keep the numbers of those there are.
LEMMA SameMade == ASSUME Made' = Made PROVE LastRun' = LastRun /\ (Numbered => Numbered')
BY DEF LastRun, Numbered

LEMMA StartExchangeInv ==
    ASSUME TokenInv, NEW u \in Users, StartExchange(u)
    PROVE  TokenInv'
<1> DEFINE n == LastRun + 1
<1>1. LastRun \in Nat /\ Made = 1..LastRun
  BY NumberedByLast DEF TokenInv, TokenType
<1>2. Made' = 1..n /\ n \in Nat /\ n \notin Made
  BY <1>1 DEF StartExchange, Made
<1>3. Numbered' /\ LastRun' = n
  <2>1. Numbered'
    BY <1>2 DEF Numbered
  <2>2. Cardinality(1..n) = n
    BY <1>2, FS_Interval
  <2> QED
    BY <1>2, <2>1, <2>2 DEF LastRun
<1>4. /\ runs'[n] = "running" /\ answer'[n] = NoToken
      /\ \A r \in Made : runs'[r] = runs[r] /\ answer'[r] = answer[r]
  BY <1>1, <1>2 DEF StartExchange, Made
<1> HIDE DEF n
<1>5. \A v \in Users : at'[v] = IF v = u THEN "wait" ELSE at[v]
  BY DEF StartExchange, TokenInv, TokenType
<1>6. \A v \in Users : using'[v] = IF v = u THEN n ELSE using[v]
  BY DEF StartExchange, TokenInv, TokenType, n
<1>7. Made' = Made \cup {n}
  BY <1>1, <1>2 DEF n
<1>8. TokenType'
  <2>1. runs' \in [Made' -> {"running", "left", "answered", "taken", "over"}]
    BY <1>4, <1>7 DEF StartExchange, TokenInv, TokenType, Made, n
  <2>2. answer' \in [Made' -> Nat]
    <3>1. answer' = [r \in Made' |-> answer'[r]]
      BY DEF StartExchange, Made
    <3> QED
      BY <1>4, <1>7, <3>1 DEF TokenInv, TokenType, NoToken
  <2> QED
    BY <1>2, <1>3, <2>1, <2>2 DEF StartExchange, TokenInv, TokenType, n
<1>9. \A v \in Users : at[v] # "wait"
  BY DEF StartExchange, TokenInv, WaitsForLast
<1>10. WaitsForLast'
  BY <1>2, <1>3, <1>4, <1>5, <1>6, <1>7, <1>9 DEF StartExchange, WaitsForLast
<1>11. Held'
  BY <1>5 DEF StartExchange, Held
<1>12. OthersPast'
  BY <1>3, <1>4, <1>7 DEF StartExchange, TokenInv, OthersPast
<1>13. OwnAnswer'
  BY <1>4, <1>7 DEF TokenInv, OwnAnswer
<1>14. CachedIsLast'
  BY DEF StartExchange, CachedIsLast
<1>15. TakenIsCached'
  <2> SUFFICES ASSUME NEW r \in Made', runs'[r] = "taken", answer'[r] # NoToken
               PROVE  r \in refused'
    BY DEF TakenIsCached
  <2>1. r \in Made /\ r # NoToken
    BY <1>1, <1>4, <1>7 DEF NoToken
  <2> QED
    BY <1>4, <2>1 DEF StartExchange, TokenInv, TakenIsCached
<1>16. RefusedIsKnown'
  BY <1>5, <1>6 DEF StartExchange, TokenInv, RefusedIsKnown
<1> QED
  BY <1>8, <1>10, <1>11, <1>12, <1>13, <1>14, <1>15, <1>16 DEF TokenInv

LEMMA ServerAnswersInv ==
    ASSUME TokenInv, NEW r \in Made, ServerAnswers(r)
    PROVE  TokenInv'
<1>1. LastRun \in Nat /\ Made = 1..LastRun
  BY NumberedByLast DEF TokenInv, TokenType
<1>2. Made' = Made
  BY DEF ServerAnswers, Made, TokenInv, TokenType
<1>3. LastRun' = LastRun /\ Numbered'
  BY <1>2, SameMade DEF TokenInv, TokenType
<1>4. \A s \in Made : runs'[s] = IF s = r THEN IF runs[r] = "left" THEN "over" ELSE "answered" ELSE runs[s]
  BY DEF ServerAnswers, TokenInv, TokenType
<1>5. \A s \in Made : s # r => answer'[s] = answer[s]
  BY DEF ServerAnswers, TokenInv, TokenType
<1>6. answer'[r] \in {r, NoToken}
  BY DEF ServerAnswers, TokenInv, TokenType
<1>7. TokenType'
  <2>1. runs' \in [Made' -> {"running", "left", "answered", "taken", "over"}]
    BY <1>2 DEF ServerAnswers, TokenInv, TokenType
  <2>2. answer' \in [Made' -> Nat]
    BY <1>1, <1>2 DEF ServerAnswers, TokenInv, TokenType, NoToken
  <2> QED
    BY <1>3, <2>1, <2>2 DEF ServerAnswers, TokenInv, TokenType
<1>8. WaitsForLast'
  BY <1>2, <1>3, <1>4 DEF ServerAnswers, TokenInv, WaitsForLast
<1>9. OthersPast'
  BY <1>2, <1>3, <1>4 DEF ServerAnswers, TokenInv, OthersPast, Past
<1>10. OwnAnswer'
  BY <1>2, <1>5, <1>6 DEF TokenInv, OwnAnswer
<1>11. TakenIsCached'
  BY <1>2, <1>4, <1>5 DEF ServerAnswers, TokenInv, TakenIsCached
<1>12. Held' /\ CachedIsLast' /\ RefusedIsKnown'
  BY <1>3 DEF ServerAnswers, TokenInv, Held, CachedIsLast, RefusedIsKnown
<1> QED
  BY <1>7, <1>8, <1>9, <1>10, <1>11, <1>12 DEF TokenInv

LEMMA TakeAnswerInv ==
    ASSUME TokenInv, NEW u \in Users, TakeAnswer(u)
    PROVE  TokenInv'
<1> DEFINE r == LastRun
           t == answer[r]
<1>1. LastRun \in Nat /\ Made = 1..LastRun
  BY NumberedByLast DEF TokenInv, TokenType
<1>2. using[u] = r /\ r \in Made /\ holder = {u} /\ cached = NoToken
  BY DEF TakeAnswer, TokenInv, WaitsForLast
<1>3. Made' = Made
  BY DEF TakeAnswer, Made, TokenInv, TokenType
<1>4. LastRun' = LastRun /\ Numbered'
  BY <1>3, SameMade DEF TokenInv, TokenType
<1>5. \A s \in Made : runs'[s] = IF s = r THEN "taken" ELSE runs[s]
  BY <1>2 DEF TakeAnswer, TokenInv, TokenType
<1>6. answer' = answer /\ refused' = refused /\ holder' = {}
  BY <1>2 DEF TakeAnswer
<1>7. cached' = IF t # NoToken THEN t ELSE cached
  BY <1>2 DEF TakeAnswer
<1>8. t \in {NoToken, r}
  BY <1>2 DEF TokenInv, OwnAnswer
<1>9. \A v \in Users : v # u => at'[v] = at[v] /\ using'[v] = using[v]
  BY DEF TakeAnswer, TokenInv, TokenType
<1>10. at'[u] \in {"send", "idle"}
  BY DEF TakeAnswer, TokenInv, TokenType
<1>11. TokenType'
  <2>1. runs' \in [Made' -> {"running", "left", "answered", "taken", "over"}]
    BY <1>3 DEF TakeAnswer, TokenInv, TokenType
  <2>2. t \in Nat
    BY <1>2 DEF TokenInv, TokenType
  <2>3. using' \in [Users -> Nat] /\ cached' \in Nat
    BY <1>2, <1>7, <2>2 DEF TakeAnswer, TokenInv, TokenType
  <2>4. at' \in [Users -> {"idle", "wait", "send", "refused"}]
    BY DEF TakeAnswer, TokenInv, TokenType
  <2> QED
    BY <1>3, <1>4, <1>6, <2>1, <2>3, <2>4 DEF TokenInv, TokenType
<1>12. \A v \in Users : v # u => at[v] # "wait"
  BY <1>2 DEF TokenInv, WaitsForLast
<1>13. WaitsForLast'
  BY <1>9, <1>10, <1>12 DEF WaitsForLast
<1>14. Held'
  BY <1>6 DEF Held
<1>15. OthersPast'
  BY <1>3, <1>4, <1>5 DEF TokenInv, OthersPast, Past
<1>16. OwnAnswer'
  BY <1>3, <1>6 DEF TokenInv, OwnAnswer
<1>17. CachedIsLast'
  BY <1>2, <1>4, <1>7, <1>8 DEF CachedIsLast
<1>18. TakenIsCached'
  <2> SUFFICES ASSUME NEW s \in Made, runs'[s] = "taken", answer[s] # NoToken
               PROVE  s \in refused \/ cached' = s
    BY <1>3, <1>6 DEF TakenIsCached
  <2>1. CASE s = r
    BY <1>7, <1>8, <2>1
  <2>2. CASE s # r
    <3>1. s # NoToken
      BY <1>1 DEF NoToken
    <3> QED
      BY <1>2, <1>5, <2>2, <3>1 DEF TokenInv, TakenIsCached
  <2> QED
    BY <2>1, <2>2
<1>19. RefusedIsKnown'
  BY <1>6, <1>9, <1>10 DEF TokenInv, RefusedIsKnown
<1> QED
  BY <1>11, <1>13, <1>14, <1>15, <1>16, <1>17, <1>18, <1>19 DEF TokenInv

LEMMA GiveUpWaitingInv ==
    ASSUME TokenInv, NEW u \in Users, GiveUpWaiting(u)
    PROVE  TokenInv'
<1> DEFINE r == LastRun
<1>1. using[u] = r /\ r \in Made /\ holder = {u} /\ runs[r] \in {"running", "answered"}
  BY DEF GiveUpWaiting, TokenInv, WaitsForLast
<1>2. Made' = Made
  BY DEF GiveUpWaiting, Made, TokenInv, TokenType
<1>3. LastRun' = LastRun /\ Numbered'
  BY <1>2, SameMade DEF TokenInv, TokenType
<1>4. \A s \in Made : runs'[s] = IF s = r THEN IF runs[r] = "running" THEN "left" ELSE "over" ELSE runs[s]
  BY <1>1 DEF GiveUpWaiting, TokenInv, TokenType
<1>5. \A v \in Users : v # u => at'[v] = at[v] /\ using'[v] = using[v]
  BY DEF GiveUpWaiting, TokenInv, TokenType
<1>6. at'[u] = "idle" /\ holder' = {} /\ cached' = cached /\ answer' = answer /\ refused' = refused
  BY <1>1 DEF GiveUpWaiting, TokenInv, TokenType
<1>7. TokenType'
  <2>1. runs' \in [Made' -> {"running", "left", "answered", "taken", "over"}]
    BY <1>2 DEF GiveUpWaiting, TokenInv, TokenType
  <2>2. /\ using' \in [Users -> Nat]
        /\ at' \in [Users -> {"idle", "wait", "send", "refused"}]
    BY DEF GiveUpWaiting, TokenInv, TokenType, NoToken
  <2> QED
    BY <1>2, <1>3, <1>6, <2>1, <2>2 DEF TokenInv, TokenType
<1>8. WaitsForLast'
  BY <1>1, <1>5, <1>6 DEF TokenInv, WaitsForLast
<1>9. Held'
  BY <1>6 DEF Held
<1>10. OthersPast'
  BY <1>2, <1>3, <1>4 DEF TokenInv, OthersPast, Past
<1>11. OwnAnswer' /\ CachedIsLast'
  BY <1>2, <1>3, <1>6 DEF TokenInv, OwnAnswer, CachedIsLast
<1>12. TakenIsCached'
  BY <1>2, <1>4, <1>6 DEF TokenInv, TakenIsCached
<1>13. RefusedIsKnown'
  BY <1>5, <1>6 DEF TokenInv, RefusedIsKnown
<1> QED
  BY <1>7, <1>8, <1>9, <1>10, <1>11, <1>12, <1>13 DEF TokenInv

LEMMA InvalidateInv ==
    ASSUME TokenInv, NEW u \in Users, Invalidate(u)
    PROVE  TokenInv'
<1>1. Made' = Made /\ runs' = runs /\ answer' = answer /\ refused' = refused /\ holder' = holder
  BY DEF Invalidate, Made
<1>2. LastRun' = LastRun /\ Numbered'
  BY <1>1, SameMade DEF TokenInv, TokenType
<1>3. holder = {} /\ using[u] \in refused
  BY DEF Invalidate, TokenInv, RefusedIsKnown
<1>4. \A v \in Users : v # u => at'[v] = at[v] /\ using'[v] = using[v]
  BY DEF Invalidate, TokenInv, TokenType
<1>5. at'[u] = "idle"
  BY DEF Invalidate, TokenInv, TokenType
<1>6. cached' = IF cached = using[u] THEN NoToken ELSE cached
  BY DEF Invalidate
<1>7. TokenType'
  <2>1. /\ using' \in [Users -> Nat]
        /\ at' \in [Users -> {"idle", "wait", "send", "refused"}]
    BY DEF Invalidate, TokenInv, TokenType, NoToken
  <2>2. cached' \in Nat
    BY <1>6 DEF TokenInv, TokenType, NoToken
  <2> QED
    BY <1>1, <1>2, <2>1, <2>2 DEF TokenInv, TokenType
<1>8. \A v \in Users : at[v] # "wait"
  BY <1>3 DEF TokenInv, WaitsForLast
<1>9. WaitsForLast'
  BY <1>4, <1>5, <1>8 DEF WaitsForLast
<1>10. Held' /\ OthersPast' /\ OwnAnswer'
  BY <1>1, <1>2, <1>3 DEF TokenInv, Held, OthersPast, OwnAnswer
<1>11. CachedIsLast'
  BY <1>2, <1>6 DEF TokenInv, CachedIsLast
<1>12. TakenIsCached'
  BY <1>1, <1>3, <1>6 DEF TokenInv, TakenIsCached
<1>13. RefusedIsKnown'
  BY <1>1, <1>4, <1>5 DEF TokenInv, RefusedIsKnown
<1> QED
  BY <1>7, <1>9, <1>10, <1>11, <1>12, <1>13 DEF TokenInv

\* The steps of a user that has its token already.
LEMMA UseInv ==
    ASSUME TokenInv, NEW u \in Users, TakeCached(u) \/ Accepted(u) \/ Refused(u)
    PROVE  TokenInv'
<1>1. Made' = Made /\ runs' = runs /\ answer' = answer /\ holder' = holder /\ cached' = cached
  BY DEF TakeCached, Accepted, Refused, Made
<1>2. LastRun' = LastRun /\ Numbered'
  BY <1>1, SameMade DEF TokenInv, TokenType
<1>3. refused \subseteq refused'
  BY DEF TakeCached, Accepted, Refused
<1>4. \A v \in Users : v # u => at'[v] = at[v] /\ using'[v] = using[v]
  BY DEF TakeCached, Accepted, Refused, TokenInv, TokenType
<1>5. at[u] # "wait" /\ at'[u] # "wait"
  BY DEF TakeCached, Accepted, Refused, TokenInv, TokenType
<1>6. at'[u] = "refused" => using'[u] \in refused'
  BY DEF TakeCached, Accepted, Refused, TokenInv, TokenType
<1>7. TokenType'
  <2>1. /\ using' \in [Users -> Nat]
        /\ at' \in [Users -> {"idle", "wait", "send", "refused"}]
    BY DEF TakeCached, Accepted, Refused, TokenInv, TokenType, NoToken
  <2> QED
    BY <1>1, <1>2, <2>1 DEF TokenInv, TokenType
<1>8. WaitsForLast'
  BY <1>1, <1>2, <1>4, <1>5 DEF TokenInv, WaitsForLast
<1>9. Held'
  BY <1>1, <1>4, <1>5 DEF TokenInv, Held
<1>10. OthersPast' /\ OwnAnswer' /\ CachedIsLast'
  BY <1>1, <1>2 DEF TokenInv, OthersPast, OwnAnswer, CachedIsLast
<1>11. TakenIsCached'
  BY <1>1, <1>3 DEF TokenInv, TakenIsCached
<1>12. RefusedIsKnown'
  BY <1>3, <1>4, <1>6 DEF TokenInv, RefusedIsKnown
<1> QED
  BY <1>7, <1>8, <1>9, <1>10, <1>11, <1>12 DEF TokenInv

\* The server's revocations, and steps of others.
LEMMA TokenFrame ==
    ASSUME TokenInv, UNCHANGED <<cached, holder, at, using, runs, answer, refused>>
    PROVE  TokenInv'
<1>1. Made' = Made
  BY DEF Made
<1>2. LastRun' = LastRun /\ Numbered'
  BY <1>1, SameMade DEF TokenInv, TokenType
<1> QED
  BY <1>1, <1>2 DEF TokenInv, TokenType, WaitsForLast, Held, OthersPast, OwnAnswer, CachedIsLast,
     TakenIsCached, RefusedIsKnown

\* One credential exchange at a time, and no second one for a token that nobody
\* was refused: Token and Invalidate (forward/token.go), whoever shares them.
THEOREM OneExchange == TokenSpec => []OneExchangeEach
<1>1. TokenInv /\ [TokenNext]_tokenVars => TokenInv'
  <2> SUFFICES ASSUME TokenInv, [TokenNext]_tokenVars PROVE TokenInv'
    OBVIOUS
  <2>1. ASSUME NEW u \in Users, StartExchange(u) PROVE TokenInv'
    BY <2>1, StartExchangeInv
  <2>2. ASSUME NEW u \in Users, TakeAnswer(u) PROVE TokenInv'
    BY <2>2, TakeAnswerInv
  <2>3. ASSUME NEW u \in Users, GiveUpWaiting(u) PROVE TokenInv'
    BY <2>3, GiveUpWaitingInv
  <2>4. ASSUME NEW u \in Users, Invalidate(u) PROVE TokenInv'
    BY <2>4, InvalidateInv
  <2>5. ASSUME NEW u \in Users, TakeCached(u) \/ Accepted(u) \/ Refused(u) PROVE TokenInv'
    BY <2>5, UseInv
  <2>6. ASSUME NEW r \in Made, ServerAnswers(r) PROVE TokenInv'
    BY <2>6, ServerAnswersInv
  <2>7. ASSUME NEW r \in Made, Revoke(r) PROVE TokenInv'
    BY <2>7, TokenFrame DEF Revoke
  <2>8. CASE UNCHANGED tokenVars
    BY <2>8, TokenFrame DEF tokenVars
  <2> QED
    BY <2>1, <2>2, <2>3, <2>4, <2>5, <2>6, <2>7, <2>8 DEF TokenNext
<1>2. TokenInv => OneExchangeEach
  <2> SUFFICES ASSUME TokenInv, NEW r \in Made \ {LastRun}
               PROVE  runs[r] \in {"left", "over", "taken"}
                        /\ (runs[r] = "taken" /\ answer[r] # NoToken => r \in refused)
    BY DEF OneExchangeEach
  <2>1. LastRun \in Nat /\ Made = 1..LastRun
    BY NumberedByLast DEF TokenInv, TokenType
  <2>2. cached # r
    BY <2>1 DEF TokenInv, CachedIsLast, NoToken
  <2> QED
    BY <2>2 DEF TokenInv, OthersPast, Past, TakenIsCached
<1> QED
  BY <1>1, <1>2, TokenInitInv, PTL DEF TokenSpec

-----------------------------------------------------------------------------
(* LimitRefresher *)

Flight == [leader : Callers, since : Nat, manual : BOOLEAN, next : Nat, err : BOOLEAN]

LimitType ==
    /\ clock \in 0..MaxClock
    /\ flight \in Flight \cup {NoFlight}
    /\ lastManual \in Nat
    /\ call \in [Callers -> {"idle", "lead", "join"} \cup Ended]
    /\ asked \in [Callers -> Nat]
    /\ row \in [1..LimitVendors -> Nat]

\* One leads, and the others wait for it, no longer than the timeout.
OneLeads ==
    /\ \A c \in Callers : call[c] \in {"lead", "join"} => InFlight
    /\ \A c \in Callers : call[c] = "lead" => flight.leader = c
    /\ InFlight => flight \in Flight /\ flight.since <= clock /\ clock <= flight.since + Timeout

AskedInThePast == \A c \in Callers : asked[c] <= clock

RowsInThePast == \A v \in 1..LimitVendors : row[v] = Never \/ row[v] <= clock

\* What the refresh under way has written so far.
WrittenSoFar ==
    InFlight /\ ~flight.err =>
        \A v \in 1..LimitVendors : v < flight.next => row[v] = flight.since

\* The refresh that the cooldown counts from has written every row.
CooldownIsEarned ==
    lastManual # Never =>
        /\ lastManual <= clock
        /\ InFlight => lastManual <= flight.since
        /\ \A v \in 1..LimitVendors : row[v] # Never /\ lastManual <= row[v] + Timeout

LimitInv ==
    LimitType /\ OneLeads /\ AskedInThePast /\ RowsInThePast /\ WrittenSoFar /\ CooldownIsEarned

LEMMA LimitInitInv == LimitInit => LimitInv
BY LimitAssumption DEF LimitInit, LimitInv, LimitType, OneLeads, AskedInThePast, RowsInThePast,
   WrittenSoFar, CooldownIsEarned, InFlight, NoFlight, Never, Ended

LEMMA FlightFields ==
    ASSUME LimitInv, InFlight
    PROVE  /\ flight \in Flight /\ flight.since \in Nat /\ flight.next \in Nat
           /\ flight.leader \in Callers /\ flight.manual \in BOOLEAN /\ flight.err \in BOOLEAN
           /\ flight.since <= clock /\ clock <= flight.since + Timeout
<1>1. flight \in Flight
  BY DEF LimitInv, OneLeads
<1> QED
  BY <1>1 DEF LimitInv, OneLeads, Flight

LEMMA ClockTypes ==
    ASSUME LimitInv
    PROVE  /\ clock \in Nat /\ MaxClock \in Nat /\ clock <= MaxClock /\ Never \in Nat /\ clock # Never
           /\ Timeout \in Nat /\ Cooldown \in Nat /\ LimitVendors \in Nat
           /\ \A v \in 1..LimitVendors : row[v] \in Nat
           /\ \A c \in Callers : asked[c] \in Nat
           /\ lastManual \in Nat
BY LimitAssumption DEF LimitInv, LimitType, Never

LEMMA TickInv == LimitInv /\ Tick => LimitInv'
<1> SUFFICES ASSUME LimitInv, Tick PROVE LimitInv'
  OBVIOUS
<1>1. clock' = clock + 1 /\ clock < MaxClock
  BY DEF Tick
<1>2. LimitType'
  BY <1>1, ClockTypes DEF Tick, LimitInv, LimitType
<1>3. OneLeads'
  <2>1. InFlight => flight.since <= clock + 1 /\ clock + 1 <= flight.since + Timeout
    BY ClockTypes, FlightFields DEF Tick
  <2> QED
    BY <1>1, <2>1 DEF Tick, LimitInv, OneLeads, InFlight
<1>4. AskedInThePast' /\ RowsInThePast'
  BY <1>1, ClockTypes DEF Tick, LimitInv, AskedInThePast, RowsInThePast
<1>5. WrittenSoFar' /\ CooldownIsEarned'
  BY <1>1, ClockTypes DEF Tick, LimitInv, WrittenSoFar, CooldownIsEarned, InFlight, Never
<1> QED
  BY <1>2, <1>3, <1>4, <1>5 DEF LimitInv

\* A call is made: what it changes of the times.
LEMMA AsksInv ==
    ASSUME LimitInv, NEW c \in Callers, Asks(c)
    PROVE  /\ asked' \in [Callers -> Nat] /\ asked'[c] = clock
           /\ \A d \in Callers : asked'[d] <= clock
           /\ call[c] # "lead" /\ call[c] # "join"
BY ClockTypes DEF Asks, LimitInv, LimitType, AskedInThePast, Ended

LEMMA JoinInv == ASSUME LimitInv, NEW c \in Callers, Join(c) PROVE LimitInv'
<1>1. InFlight /\ clock' = clock /\ lastManual' = lastManual /\ row' = row /\ Asks(c)
  BY DEF Join
<1>2. /\ flight' \in Flight /\ InFlight' /\ flight'.leader = flight.leader
      /\ flight'.since = flight.since /\ flight'.next = flight.next /\ flight'.err = flight.err
  BY <1>1, FlightFields DEF Join, InFlight, Flight, LimitInv, OneLeads
<1>3. \A d \in Callers : call'[d] = IF d = c THEN "join" ELSE call[d]
  BY DEF Join, LimitInv, LimitType
<1>4. LimitType'
  <2>1. call' \in [Callers -> {"idle", "lead", "join"} \cup Ended]
    BY DEF Join, LimitInv, LimitType
  <2> QED
    BY <1>1, <1>2, <2>1, AsksInv DEF LimitInv, LimitType
<1>5. OneLeads'
  BY <1>1, <1>2, <1>3, FlightFields DEF LimitInv, OneLeads
<1>6. AskedInThePast' /\ RowsInThePast'
  BY <1>1, AsksInv DEF LimitInv, AskedInThePast, RowsInThePast
<1>7. WrittenSoFar'
  BY <1>1, <1>2 DEF LimitInv, WrittenSoFar
<1>8. CooldownIsEarned'
  BY <1>1, <1>2 DEF LimitInv, CooldownIsEarned, Never
<1> QED
  BY <1>4, <1>5, <1>6, <1>7, <1>8 DEF LimitInv

LEMMA TooSoonInv == ASSUME LimitInv, NEW c \in Callers, TooSoon(c) PROVE LimitInv'
<1>1. clock' = clock /\ lastManual' = lastManual /\ row' = row /\ flight' = flight /\ Asks(c)
  BY DEF TooSoon
<1>2. \A d \in Callers : call'[d] = IF d = c THEN "ok" ELSE call[d]
  BY DEF TooSoon, LimitInv, LimitType
<1>3. LimitType'
  <2>1. call' \in [Callers -> {"idle", "lead", "join"} \cup Ended]
    BY DEF TooSoon, LimitInv, LimitType, Ended
  <2> QED
    BY <1>1, <2>1, AsksInv DEF LimitInv, LimitType
<1>4. OneLeads'
  BY <1>1, <1>2 DEF LimitInv, OneLeads, InFlight
<1>5. AskedInThePast' /\ RowsInThePast' /\ WrittenSoFar' /\ CooldownIsEarned'
  BY <1>1, AsksInv DEF LimitInv, AskedInThePast, RowsInThePast, WrittenSoFar, CooldownIsEarned, InFlight
<1> QED
  BY <1>3, <1>4, <1>5 DEF LimitInv

LEMMA LeadInv == ASSUME LimitInv, NEW c \in Callers, Lead(c) PROVE LimitInv'
<1>1. clock' = clock /\ lastManual' = lastManual /\ row' = row /\ Asks(c) /\ ~InFlight
  BY DEF Lead
<1>2. flight' = [leader |-> c, since |-> clock, manual |-> Manual(c), next |-> 1, err |-> FALSE]
  BY DEF Lead
<1>3. flight' \in Flight /\ flight'.leader = c /\ flight'.since = clock /\ flight'.next = 1
  <2>1. Manual(c) \in BOOLEAN
    BY DEF Manual
  <2> QED
    BY <1>2, <2>1, ClockTypes DEF Flight
<1>4. \A d \in Callers : call'[d] = IF d = c THEN "lead" ELSE call[d]
  BY DEF Lead, LimitInv, LimitType
<1>5. LimitType'
  <2>1. call' \in [Callers -> {"idle", "lead", "join"} \cup Ended]
    BY DEF Lead, LimitInv, LimitType
  <2> QED
    BY <1>1, <1>3, <2>1, AsksInv DEF LimitInv, LimitType
<1>6. OneLeads'
  <2>1. \A d \in Callers : call[d] \notin {"lead", "join"}
    BY <1>1 DEF LimitInv, OneLeads
  <2>2. flight'.since <= clock /\ clock <= flight'.since + Timeout
    BY <1>3, ClockTypes
  <2>3. InFlight'
    BY <1>3, LimitAssumption DEF InFlight
  <2> QED
    BY <1>1, <1>3, <1>4, <2>1, <2>2, <2>3 DEF OneLeads
<1>7. AskedInThePast' /\ RowsInThePast' /\ CooldownIsEarned'
  BY <1>1, <1>3, AsksInv DEF LimitInv, AskedInThePast, RowsInThePast, CooldownIsEarned, Never
<1>8. WrittenSoFar'
  BY <1>3, ClockTypes DEF WrittenSoFar
<1> QED
  BY <1>5, <1>6, <1>7, <1>8 DEF LimitInv

LEMMA CollectInv == ASSUME LimitInv, NEW c \in Callers, Collect(c) PROVE LimitInv'
<1> DEFINE n == flight.next
<1>1. clock' = clock /\ lastManual' = lastManual /\ call' = call /\ asked' = asked
  BY DEF Collect
<1>2. InFlight /\ n <= LimitVendors
  BY DEF Collect, LimitInv, OneLeads
<1>3. /\ flight' \in Flight /\ flight'.leader = flight.leader /\ flight'.since = flight.since
      /\ flight'.next = n + 1
  <2>1. flight \in Flight /\ n + 1 \in Nat
    BY <1>2, FlightFields
  <2>2. CASE flight' = [flight EXCEPT !.next = @ + 1]
    BY <2>1, <2>2 DEF Flight
  <2>3. CASE flight' = [flight EXCEPT !.next = @ + 1, !.err = TRUE]
    BY <2>1, <2>3 DEF Flight
  <2> QED
    BY <2>2, <2>3 DEF Collect
<1>4. InFlight'
  BY <1>2, <1>3 DEF InFlight
<1>5. \/ /\ \A v \in 1..LimitVendors : row'[v] = IF v = n THEN flight.since ELSE row[v]
         /\ flight'.err = flight.err
      \/ row' = row /\ flight'.err = TRUE
  <2>1. CASE /\ row' = [row EXCEPT ![flight.next] = flight.since]
             /\ flight' = [flight EXCEPT !.next = @ + 1]
    BY <1>2, <2>1, FlightFields DEF LimitInv, LimitType, Flight
  <2>2. CASE flight' = [flight EXCEPT !.next = @ + 1, !.err = TRUE] /\ row' = row
    BY <1>2, <2>2, FlightFields DEF Flight
  <2> QED
    BY <2>1, <2>2 DEF Collect
<1>6. row' \in [1..LimitVendors -> Nat]
  BY <1>2, FlightFields DEF Collect, LimitInv, LimitType
<1>7. LimitType'
  BY <1>1, <1>3, <1>6 DEF LimitInv, LimitType
<1>8. OneLeads'
  BY <1>1, <1>2, <1>3, <1>4, FlightFields DEF LimitInv, OneLeads
<1>9. AskedInThePast'
  BY <1>1 DEF LimitInv, AskedInThePast
<1>10. RowsInThePast'
  BY <1>1, <1>2, <1>5, FlightFields DEF LimitInv, RowsInThePast
<1>11. WrittenSoFar'
  <2> SUFFICES ASSUME ~flight'.err, NEW v \in 1..LimitVendors, v < n + 1 PROVE row'[v] = flight.since
    BY <1>3 DEF WrittenSoFar
  <2>1. \A w \in 1..LimitVendors : row'[w] = IF w = n THEN flight.since ELSE row[w]
    BY <1>5
  <2>2. ~flight.err
    BY <1>5
  <2>3. v = n \/ v < n
    BY <1>2, FlightFields, ClockTypes
  <2> QED
    BY <1>2, <2>1, <2>2, <2>3 DEF LimitInv, WrittenSoFar
<1>12. CooldownIsEarned'
  <2> SUFFICES ASSUME lastManual # Never, NEW v \in 1..LimitVendors
               PROVE  row'[v] # Never /\ lastManual <= row'[v] + Timeout
    BY <1>1, <1>2, <1>3 DEF LimitInv, CooldownIsEarned, Never
  <2>1. row[v] # Never /\ lastManual <= row[v] + Timeout /\ row[v] <= clock
    BY DEF LimitInv, CooldownIsEarned, RowsInThePast
  <2>2. CASE row'[v] = row[v]
    BY <2>1, <2>2
  <2>3. CASE row'[v] = flight.since
    <3>1. flight.since # Never
      BY <1>2, FlightFields, ClockTypes DEF Never
    <3>2. lastManual <= flight.since + Timeout
      BY <1>2, FlightFields, ClockTypes DEF LimitInv, CooldownIsEarned
    <3> QED
      BY <2>3, <3>1, <3>2
  <2> QED
    BY <1>5, <2>2, <2>3
<1> QED
  BY <1>7, <1>8, <1>9, <1>10, <1>11, <1>12 DEF LimitInv

\* The refresh is over and everyone who waited has the result.
LEMMA FinishInv ==
    ASSUME LimitInv, NEW result \in Ended, Finish(result),
           clock' = clock, asked' = asked, row' = row
    PROVE  /\ ~InFlight' /\ flight' = NoFlight
           /\ call' \in [Callers -> {"idle", "lead", "join"} \cup Ended]
           /\ OneLeads' /\ AskedInThePast' /\ RowsInThePast' /\ WrittenSoFar'
<1>1. flight' = NoFlight /\ ~InFlight'
  BY DEF Finish, InFlight, NoFlight
<1>2. \A d \in Callers : call'[d] = IF call[d] \in {"lead", "join"} THEN result ELSE call[d]
  BY DEF Finish
<1>3. call' \in [Callers -> {"idle", "lead", "join"} \cup Ended]
  BY DEF Finish, LimitInv, LimitType
<1>4. \A d \in Callers : call'[d] \notin {"lead", "join"}
  BY <1>2 DEF Ended
<1>5. OneLeads'
  BY <1>1, <1>4 DEF OneLeads
<1>6. AskedInThePast' /\ RowsInThePast' /\ WrittenSoFar'
  BY <1>1 DEF LimitInv, AskedInThePast, RowsInThePast, WrittenSoFar, Never
<1> QED
  BY <1>1, <1>3, <1>5, <1>6

LEMMA CanceledInv == ASSUME LimitInv, NEW c \in Callers, Canceled(c) PROVE LimitInv'
<1>1. clock' = clock /\ lastManual' = lastManual /\ row' = row /\ asked' = asked
  BY DEF Canceled
<1>2. "canceled" \in Ended /\ Finish("canceled")
  BY DEF Canceled, Ended
<1>3. /\ ~InFlight' /\ flight' = NoFlight
      /\ call' \in [Callers -> {"idle", "lead", "join"} \cup Ended]
      /\ OneLeads' /\ AskedInThePast' /\ RowsInThePast' /\ WrittenSoFar'
  BY <1>1, <1>2, FinishInv
<1>4. LimitType'
  BY <1>1, <1>3 DEF LimitInv, LimitType
<1>5. CooldownIsEarned'
  BY <1>1, <1>3 DEF LimitInv, CooldownIsEarned, Never
<1> QED
  BY <1>3, <1>4, <1>5 DEF LimitInv

\* A refresh that went well has written every row, not longer ago than it takes.
LEMMA RefreshedNow ==
    ASSUME LimitInv, NEW c \in Callers, call[c] = "lead", flight.next > LimitVendors, ~flight.err
    PROVE  InFlight /\ \A v \in 1..LimitVendors :
              row[v] = flight.since /\ row[v] # Never /\ clock <= row[v] + Timeout
<1>1. InFlight
  BY DEF LimitInv, OneLeads
<1> SUFFICES ASSUME NEW v \in 1..LimitVendors
             PROVE  row[v] = flight.since /\ row[v] # Never /\ clock <= row[v] + Timeout
  BY <1>1
<1>2. v < flight.next
  BY <1>1, FlightFields, ClockTypes
<1>3. row[v] = flight.since
  BY <1>1, <1>2 DEF LimitInv, WrittenSoFar
<1> QED
  BY <1>1, <1>3, FlightFields, ClockTypes DEF Never

LEMMA CompleteInv == ASSUME LimitInv, NEW c \in Callers, Complete(c) PROVE LimitInv'
<1>1. /\ clock' = clock /\ row' = row /\ asked' = asked
      /\ lastManual' = IF flight.manual /\ ~flight.err THEN clock ELSE lastManual
      /\ call[c] = "lead" /\ flight.next > LimitVendors
  BY DEF Complete
<1>2. PICK result \in Ended : Finish(result)
  BY DEF Complete, Ended
<1>3. /\ ~InFlight' /\ flight' = NoFlight
      /\ call' \in [Callers -> {"idle", "lead", "join"} \cup Ended]
      /\ OneLeads' /\ AskedInThePast' /\ RowsInThePast' /\ WrittenSoFar'
  BY <1>1, <1>2, FinishInv
<1>4. LimitType'
  BY <1>1, <1>3, ClockTypes DEF LimitInv, LimitType
<1>5. CooldownIsEarned'
  <2>1. CASE flight.manual /\ ~flight.err
    <3>1. lastManual' = clock
      BY <1>1, <2>1
    <3>2. \A v \in 1..LimitVendors : row[v] # Never /\ clock <= row[v] + Timeout
      BY <1>1, <2>1, RefreshedNow
    <3> QED
      BY <1>1, <1>3, <3>1, <3>2, ClockTypes DEF CooldownIsEarned, Never
  <2>2. CASE ~(flight.manual /\ ~flight.err)
    <3>1. lastManual' = lastManual
      BY <1>1, <2>2
    <3> QED
      BY <1>1, <1>3, <3>1 DEF LimitInv, CooldownIsEarned, Never
  <2> QED
    BY <2>1, <2>2
<1> QED
  BY <1>3, <1>4, <1>5 DEF LimitInv

LEMMA HangupInv == ASSUME LimitInv, NEW c \in Callers, Hangup(c) PROVE LimitInv'
<1>1. clock' = clock /\ lastManual' = lastManual /\ row' = row /\ flight' = flight /\ asked' = asked
  BY DEF Hangup
<1>2. \A d \in Callers : call'[d] = IF d = c /\ call[d] = "join" THEN "canceled" ELSE call[d]
  BY DEF Hangup, LimitInv, LimitType
<1>3. LimitType'
  <2>1. call' \in [Callers -> {"idle", "lead", "join"} \cup Ended]
    BY DEF Hangup, LimitInv, LimitType, Ended
  <2> QED
    BY <1>1, <2>1 DEF LimitInv, LimitType
<1>4. OneLeads'
  BY <1>1, <1>2 DEF LimitInv, OneLeads, InFlight
<1>5. AskedInThePast' /\ RowsInThePast' /\ WrittenSoFar' /\ CooldownIsEarned'
  BY <1>1 DEF LimitInv, AskedInThePast, RowsInThePast, WrittenSoFar, CooldownIsEarned, InFlight, Never
<1> QED
  BY <1>3, <1>4, <1>5 DEF LimitInv

LEMMA LimitStepInv == LimitInv /\ [LimitNext]_limitVars => LimitInv'
<1> SUFFICES ASSUME LimitInv, [LimitNext]_limitVars PROVE LimitInv'
  OBVIOUS
<1>1. CASE Tick
  BY <1>1, TickInv
<1>2. CASE \E c \in Callers :
             Join(c) \/ TooSoon(c) \/ Lead(c) \/ Collect(c) \/ Canceled(c) \/ Complete(c) \/ Hangup(c)
  BY <1>2, JoinInv, TooSoonInv, LeadInv, CollectInv, CanceledInv, CompleteInv, HangupInv
<1>3. CASE UNCHANGED limitVars
  BY <1>3 DEF limitVars, LimitInv, LimitType, OneLeads, AskedInThePast, RowsInThePast, WrittenSoFar,
     CooldownIsEarned, InFlight, Never
<1> QED
  BY <1>1, <1>2, <1>3 DEF LimitNext

\* refresh.go: every state that the timer, the clicks, the cancellations and the
\* vendors can bring the refresher into satisfies the invariant.
THEOREM LimitInvariant == LimitSpec => []LimitInv
<1> QED
  BY LimitInitInv, LimitStepInv, PTL DEF LimitSpec

\* What one step tells a caller is fresh.
LEMMA ToldFresh ==
    ASSUME LimitInv, LimitNext, NEW c \in Callers, call'[c] = "ok", call[c] # "ok",
           NEW v \in 1..LimitVendors
    PROVE  row'[v] # Never /\ asked'[c] <= row'[v] + Timeout + Cooldown
<1>1. call \in [Callers -> {"idle", "lead", "join"} \cup Ended]
  BY DEF LimitInv, LimitType
<1>2. CASE Tick
  BY <1>2 DEF Tick
<1>3. ASSUME NEW d \in Callers, Join(d) \/ Lead(d) \/ Collect(d) \/ Hangup(d) PROVE FALSE
  BY <1>1, <1>3 DEF Join, Lead, Collect, Hangup
<1>4. ASSUME NEW d \in Callers, Canceled(d) PROVE FALSE
  BY <1>1, <1>4 DEF Canceled, Finish
<1>5. ASSUME NEW d \in Callers, TooSoon(d)
      PROVE  row'[v] # Never /\ asked'[c] <= row'[v] + Timeout + Cooldown
  <2>1. c = d
    BY <1>1, <1>5 DEF TooSoon
  <2>2. asked'[c] = clock /\ row' = row
    BY <1>5, <2>1, AsksInv DEF TooSoon
  <2>3. lastManual # Never /\ clock < lastManual + Cooldown
    BY <1>5 DEF TooSoon, CoolingDown
  <2>4. row[v] # Never /\ lastManual <= row[v] + Timeout
    BY <2>3 DEF LimitInv, CooldownIsEarned
  <2> QED
    BY <2>2, <2>3, <2>4, ClockTypes
<1>6. ASSUME NEW d \in Callers, Complete(d)
      PROVE  row'[v] # Never /\ asked'[c] <= row'[v] + Timeout + Cooldown
  <2>1. /\ call[d] = "lead" /\ flight.next > LimitVendors /\ row' = row /\ asked' = asked
        /\ Finish(IF flight.err THEN "failed" ELSE "ok")
    BY <1>6 DEF Complete
  <2>2. ~flight.err
    BY <2>1 DEF Finish
  <2>3. row[v] # Never /\ clock <= row[v] + Timeout
    BY <2>1, <2>2, RefreshedNow
  <2>4. asked[c] <= clock
    BY DEF LimitInv, AskedInThePast
  <2> QED
    BY <2>1, <2>3, <2>4, ClockTypes
<1> QED
  BY <1>2, <1>3, <1>4, <1>5, <1>6 DEF LimitNext

\* refresh.go: whoever is told that the limits are refreshed finds every row
\* written, no longer ago than a refresh and a cooldown before the call.
THEOREM Freshness == LimitSpec => FreshWhenTold
<1>1. LimitInv /\ [LimitNext]_limitVars =>
        [\A c \in Callers : call'[c] = "ok" /\ call[c] # "ok" =>
            \A v \in 1..LimitVendors :
               row'[v] # Never /\ asked'[c] <= row'[v] + Timeout + Cooldown]_limitVars
  BY ToldFresh
<1> QED
  BY <1>1, LimitInvariant, PTL DEF LimitSpec, FreshWhenTold

-----------------------------------------------------------------------------
(* TitleRefresher *)

Requests ==
    [key : Key, kind : {"live", "ended", "forget", "retry"}, generation : Nat, id : Nat]

RetryRequests == {req \in Requests : req.kind = "retry"}

RetryRecords ==
    [id : Nat, key : Key, phase : {"waiting", "sending"}, generation : Nat]

TitleTypes ==
    /\ stopAfterSuccess \in BOOLEAN
    /\ queue \in Seq(Requests)
    /\ states \in [Key -> TitleState \cup {NoState}]
    /\ current \in Key \cup {NoState}
    /\ retries \subseteq RetryRecords
    /\ nextId \in Nat \ {0}
    /\ done \in BOOLEAN
    /\ worker \in {"running", "exited"}
    /\ lookups \in [Key -> Nat]

-----------------------------------------------------------------------------
(* A retry's journey is its goroutine first and its request in the queue later. *)

Journey(r) == [id |-> r.id, key |-> r.key, generation |-> r.generation]

Requested(q) == {i \in DOMAIN q : q[i].kind = "retry"}

Travels(R, A, q) == {Journey(r) : r \in R} \cup {Journey(q[i]) : i \in A}

\* No id is used for two journeys, and none is used before its time.
OnceEach(R, A, q, n) ==
    /\ \A r \in R : r.id \in 1 .. n - 1
    /\ \A i \in A : q[i].id \in 1 .. n - 1
    /\ \A r, s \in R : r.id = s.id => r = s
    /\ \A i, j \in A : q[i].id = q[j].id => i = j
    /\ \A r \in R, i \in A : r.id # q[i].id

Journeys == Travels(retries, Requested(queue), queue)

OneJourneyEach == OnceEach(retries, Requested(queue), queue, nextId)

\* Who travels without being cancelled is waited for by its session's present life.
OwnerWaits ==
    \A j \in Journeys : j.id \notin cancelled =>
        /\ Known(j.key)
        /\ states[j.key].pending = j.id
        /\ states[j.key].generation = j.generation

Waits(k) == Known(k) /\ states[k].pending # 0

\* What a session waits for is its own, is not cancelled and is on its way.
AwaitedTravels ==
    /\ cancelled \subseteq 1 .. nextId - 1
    /\ \A k \in Key : Waits(k) =>
         /\ states[k].pending \in (1 .. nextId - 1) \ cancelled
         /\ done \/ \E j \in Journeys : j.id = states[k].pending
    /\ \A k, l \in Key : Waits(k) /\ Waits(l) /\ states[k].pending = states[l].pending => k = l

\* Only an ended session without its final title waits, and one that neither
\* waits nor has an outcome is being looked up.
Stages ==
    /\ \A k \in Key : Known(k) =>
         /\ states[k].pending # 0 => states[k].ended /\ ~Enough(states[k])
         /\ states[k].ended \/ ~states[k].finalized
         /\ states[k].ended /\ ~states[k].finalized /\ states[k].pending = 0 => current = k
    /\ current # NoState =>
         Known(current) /\ states[current].pending = 0 /\ ~Enough(states[current])

\* Each retry that was scheduled paid for the lookup before it.
LookupsPaid ==
    \A k \in Key :
        /\ Known(k) => states[k].attempts <= MaxRetries
        /\ ~(Known(k) /\ states[k].ended) => lookups[k] = 0
        /\ Known(k) /\ states[k].ended =>
             /\ lookups[k] <= states[k].attempts + 1
             /\ states[k].pending # 0 => lookups[k] <= states[k].attempts

TitleInv ==
    TitleTypes /\ OneJourneyEach /\ OwnerWaits /\ AwaitedTravels /\ Stages /\ LookupsPaid

-----------------------------------------------------------------------------
(* What the steps do to the journeys *)

LEMMA InitInv == Init => TitleInv
<1> SUFFICES ASSUME Init PROVE TitleInv
  OBVIOUS
<1>1. Requested(queue) = {}
  BY DEF Init, Requested
<1>2. Journeys = {} /\ OneJourneyEach
  BY <1>1 DEF Init, Journeys, Travels, OneJourneyEach, OnceEach
<1>3. \A k \in Key : ~Known(k)
  BY DEF Init, Known
<1>4. stopAfterSuccess \in BOOLEAN
  BY PolicyAssumption DEF Init
<1>5. states \in [Key -> TitleState \cup {NoState}] /\ lookups \in [Key -> Nat]
  BY DEF Init
<1>6. TitleTypes
  <2>1. queue \in Seq(Requests)
    BY DEF Init
  <2>2. current \in Key \cup {NoState} /\ retries \subseteq RetryRecords
    BY DEF Init
  <2>3. nextId \in Nat \ {0} /\ worker \in {"running", "exited"}
    BY DEF Init
  <2>4. done \in BOOLEAN
    BY DEF Init
  <2> QED
    BY <2>1, <2>2, <2>3, <2>4, <1>4, <1>5 DEF TitleTypes
<1> QED
  BY <1>2, <1>3, <1>6 DEF Init, TitleInv, OwnerWaits, AwaitedTravels, Waits, Stages, LookupsPaid

LEMMA JourneyFields ==
    ASSUME NEW r
    PROVE  Journey(r).id = r.id /\ Journey(r).key = r.key /\ Journey(r).generation = r.generation
BY DEF Journey

LEMMA OnTheWay ==
    ASSUME NEW R, NEW A, NEW q, NEW j
    PROVE  j \in Travels(R, A, q) <=>
             (\E r \in R : j = Journey(r)) \/ (\E i \in A : j = Journey(q[i]))
BY DEF Travels

\* The queue grows by a request that is none of a retry.
LEMMA OfferTravels ==
    ASSUME NEW R, NEW q \in Seq(Requests), NEW n, NEW req \in Requests, req.kind # "retry"
    PROVE  LET B == Requested(Append(q, req)) IN
             /\ Travels(R, B, Append(q, req)) = Travels(R, Requested(q), q)
             /\ OnceEach(R, Requested(q), q, n) => OnceEach(R, B, Append(q, req), n)
<1> DEFINE A == Requested(q)
           p == Append(q, req)
<1>1. Requested(p) = A /\ \A i \in A : p[i] = q[i]
  BY DEF Requested
<1> HIDE DEF A, p
<1>2. \A j : j \in Travels(R, A, p) <=> j \in Travels(R, A, q)
  BY <1>1, OnTheWay
<1>3. OnceEach(R, A, q, n) => OnceEach(R, A, p, n)
  BY <1>1 DEF OnceEach
<1> QED
  BY <1>1, <1>2, <1>3 DEF A, p

\* The queue loses its head.
LEMMA HeadTravels ==
    ASSUME NEW R, NEW q \in Seq(Requests), NEW n, q # <<>>, OnceEach(R, Requested(q), q, n)
    PROVE  LET before == Travels(R, Requested(q), q)
               after == Travels(R, Requested(Tail(q)), Tail(q)) IN
             /\ OnceEach(R, Requested(Tail(q)), Tail(q), n)
             /\ after \subseteq before
             /\ Head(q) \in Requests
             /\ Head(q).kind # "retry" => after = before
             /\ Head(q).kind = "retry" =>
                  /\ Journey(Head(q)) \in before
                  /\ \A j \in before : j \in after <=> j.id # Head(q).id
<1> DEFINE A == Requested(q)
           B == Requested(Tail(q))
           p == Tail(q)
<1>1. /\ Head(q) = q[1] /\ Head(q) \in Requests
      /\ Head(q).kind = "retry" <=> 1 \in A
      /\ \A i \in B : i \in Nat \ {0} /\ i + 1 \in A /\ p[i] = q[i + 1]
      /\ \A i \in A : i \in Nat /\ (i # 1 => i - 1 \in B)
  BY DEF Requested
<1> HIDE DEF A, B, p
<1>2. OnceEach(R, B, p, n)
  <2>1. \A i \in B : p[i].id \in 1 .. n - 1
    BY <1>1 DEF OnceEach, A
  <2>2. ASSUME NEW i \in B, NEW j \in B, p[i].id = p[j].id PROVE i = j
    <3>1. i + 1 = j + 1
      BY <1>1, <2>2, SMTT(30) DEF OnceEach, A
    <3> QED
      BY <3>1, <1>1
  <2>3. \A r \in R, i \in B : r.id # p[i].id
    BY <1>1 DEF OnceEach, A
  <2> QED
    BY <2>1, <2>2, <2>3 DEF OnceEach
<1>3. Travels(R, B, p) \subseteq Travels(R, A, q)
  BY <1>1, OnTheWay
<1>4. ASSUME NEW j \in Travels(R, A, q)
      PROVE  j \in Travels(R, B, p) \/ (1 \in A /\ j = Journey(q[1]))
  <2>1. CASE \E r \in R : j = Journey(r)
    BY <2>1, OnTheWay
  <2>2. ASSUME NEW i \in A, j = Journey(q[i])
        PROVE  j \in Travels(R, B, p) \/ (1 \in A /\ j = Journey(q[1]))
    <3>1. CASE i = 1
      BY <2>2, <3>1
    <3>2. CASE i # 1
      <4>1. i - 1 \in B /\ p[i - 1] = q[i - 1 + 1] /\ i - 1 + 1 = i
        BY <1>1, <3>2
      <4> QED
        BY <4>1, <2>2, OnTheWay
    <3> QED
      BY <3>1, <3>2
  <2> QED
    BY <2>1, <2>2, OnTheWay
<1>5. ASSUME 1 \in A, NEW j \in Travels(R, B, p) PROVE j.id # q[1].id
  <2>1. ASSUME NEW r \in R, j = Journey(r) PROVE j.id # q[1].id
    BY <1>5, <2>1, JourneyFields DEF OnceEach, A
  <2>2. ASSUME NEW i \in B, j = Journey(p[i]) PROVE j.id # q[1].id
    <3>1. i + 1 \in A /\ i + 1 # 1 /\ j.id = q[i + 1].id
      BY <1>1, <2>2, JourneyFields
    <3> QED
      BY <3>1, <1>5 DEF OnceEach, A
  <2> QED
    BY <2>1, <2>2, OnTheWay
<1>6. 1 \in A => Journey(q[1]) \in Travels(R, A, q) /\ Journey(q[1]).id = q[1].id
  BY OnTheWay, JourneyFields
<1>7. 1 \notin A => Travels(R, B, p) = Travels(R, A, q)
  BY <1>3, <1>4
<1>8. 1 \in A => \A j \in Travels(R, A, q) : j \in Travels(R, B, p) <=> j.id # q[1].id
  BY <1>4, <1>5, <1>6
<1> QED
  BY <1>1, <1>2, <1>3, <1>6, <1>7, <1>8 DEF A, B, p

\* A journey begins with a new id.
LEMMA ScheduleTravels ==
    ASSUME NEW R, NEW A, NEW q, NEW n \in Nat \ {0}, NEW r, r.id = n, OnceEach(R, A, q, n)
    PROVE  /\ OnceEach(R \cup {r}, A, q, n + 1)
           /\ Travels(R \cup {r}, A, q) = Travels(R, A, q) \cup {Journey(r)}
<1>1. n \notin 1 .. n - 1 /\ 1 .. n - 1 \subseteq 1 .. n + 1 - 1 /\ n \in 1 .. n + 1 - 1
  OBVIOUS
<1>2. OnceEach(R \cup {r}, A, q, n + 1)
  BY <1>1 DEF OnceEach
<1>3. \A j : j \in Travels(R \cup {r}, A, q) <=> j \in Travels(R, A, q) \cup {Journey(r)}
  BY OnTheWay
<1> QED
  BY <1>2, <1>3

\* The timer fires.
LEMMA FireTravels ==
    ASSUME NEW R, NEW A, NEW q, NEW n, NEW r \in R, NEW s,
           s.id = r.id, Journey(s) = Journey(r), OnceEach(R, A, q, n)
    PROVE  /\ OnceEach((R \ {r}) \cup {s}, A, q, n)
           /\ Travels((R \ {r}) \cup {s}, A, q) = Travels(R, A, q)
<1>1. OnceEach((R \ {r}) \cup {s}, A, q, n)
  BY DEF OnceEach
<1>2. \A j : j \in Travels((R \ {r}) \cup {s}, A, q) <=> j \in Travels(R, A, q)
  BY OnTheWay
<1> QED
  BY <1>1, <1>2

\* The goroutine hands its retry to the queue.
LEMMA DeliverTravels ==
    ASSUME NEW R, NEW q \in Seq(Requests), NEW n, NEW r \in R, NEW req \in RetryRequests,
           Journey(req) = Journey(r),
           OnceEach(R, Requested(q), q, n)
    PROVE  LET B == Requested(Append(q, req)) IN
             /\ OnceEach(R \ {r}, B, Append(q, req), n)
             /\ Travels(R \ {r}, B, Append(q, req)) = Travels(R, Requested(q), q)
<1> DEFINE A == Requested(q)
           p == Append(q, req)
           e == Len(q) + 1
<1>1. /\ Requested(p) = A \cup {e} /\ e \notin A /\ p[e] = req
      /\ \A i \in A : p[i] = q[i]
  BY DEF Requested, RetryRequests
<1> HIDE DEF A, p, e
<1>2. OnceEach(R \ {r}, A \cup {e}, p, n)
  <2>1. req.id = r.id
    BY JourneyFields
  <2> QED
    BY <1>1, <2>1 DEF OnceEach, A
<1>3. \A j : j \in Travels(R \ {r}, A \cup {e}, p) <=> j \in Travels(R, A, q)
  BY <1>1, OnTheWay
<1> QED
  BY <1>1, <1>2, <1>3 DEF A, p

\* The goroutine gives its retry up.
LEMMA AbandonTravels ==
    ASSUME NEW R, NEW A, NEW q, NEW n, NEW r \in R, OnceEach(R, A, q, n)
    PROVE  /\ OnceEach(R \ {r}, A, q, n)
           /\ Travels(R \ {r}, A, q) \subseteq Travels(R, A, q)
           /\ \A j \in Travels(R, A, q) : j \in Travels(R \ {r}, A, q) \/ j = Journey(r)
<1>1. OnceEach(R \ {r}, A, q, n)
  BY DEF OnceEach
<1>2. Travels(R \ {r}, A, q) \subseteq Travels(R, A, q)
  BY OnTheWay
<1>3. \A j \in Travels(R, A, q) : j \in Travels(R \ {r}, A, q) \/ j = Journey(r)
  BY OnTheWay
<1> QED
  BY <1>1, <1>2, <1>3
-----------------------------------------------------------------------------
(* The steps that change no session *)

LEMMA SessionsFrame ==
    ASSUME TitleInv, TitleTypes', OneJourneyEach', done => done',
           UNCHANGED <<stopAfterSuccess, states, current, cancelled, nextId, lookups>>,
           Journeys' \subseteq Journeys,
           done' \/ \A j \in Journeys : j \in Journeys' \/ j.id \in cancelled
    PROVE  TitleInv'
<1>1. OwnerWaits'
  BY DEF TitleInv, OwnerWaits, Known
<1>2. AwaitedTravels'
  <2>1. \A k \in Key : Waits(k)' = Waits(k)
    BY DEF Waits, Known
  <2>2. ASSUME NEW k \in Key, Waits(k), ~done'
        PROVE  \E j \in Journeys' : j.id = states[k].pending
    <3>1. states[k].pending \notin cancelled /\ ~done
      BY <2>2 DEF TitleInv, AwaitedTravels
    <3>2. PICK j \in Journeys : j.id = states[k].pending
      BY <2>2, <3>1 DEF TitleInv, AwaitedTravels
    <3> QED
      BY <2>2, <3>1, <3>2
  <2> QED
    BY <2>1, <2>2 DEF TitleInv, AwaitedTravels
<1>3. Stages'
  BY DEF TitleInv, Stages, Known, Enough
<1>4. LookupsPaid'
  BY DEF TitleInv, LookupsPaid, Known
<1> QED
  BY <1>1, <1>2, <1>3, <1>4 DEF TitleInv

LEMMA RequestTyped == ASSUME NEW k \in Key, NEW kind \in {"live", "ended", "forget"}
                      PROVE  Request(k, kind) \in Requests /\ Request(k, kind).kind # "retry"
BY DEF Request, Requests

LEMMA OfferInv ==
    ASSUME TitleInv, NEW req \in Requests, req.kind # "retry", Offer(req), UNCHANGED stopAfterSuccess
    PROVE  TitleInv'
<1> USE DEF TitleInv
<1>1. CASE queue' = queue
  <2>1. TitleTypes' /\ OneJourneyEach' /\ Journeys' = Journeys
    BY <1>1 DEF Offer, TitleTypes, OneJourneyEach, Journeys
  <2> QED
    BY <2>1, SessionsFrame DEF Offer
<1>2. CASE queue' = Append(queue, req)
  <2>1. queue' \in Seq(Requests)
    BY <1>2 DEF TitleTypes
  <2>2. TitleTypes'
    BY <2>1 DEF Offer, TitleTypes
  <2>3. OneJourneyEach' /\ Journeys' = Journeys
    BY <1>2, OfferTravels DEF Offer, TitleTypes, OneJourneyEach, Journeys
  <2> QED
    BY <2>2, <2>3, SessionsFrame DEF Offer
<1> QED
  BY <1>1, <1>2 DEF Offer

LEMMA FireInv ==
    ASSUME TitleInv, NEW r \in retries, Fire(r), UNCHANGED stopAfterSuccess
    PROVE  TitleInv'
<1> USE DEF TitleInv
<1> DEFINE s == [r EXCEPT !.phase = "sending"]
<1>1. r \in RetryRecords /\ s \in RetryRecords
  BY DEF TitleTypes, RetryRecords
<1>2. s.id = r.id /\ s.key = r.key /\ s.generation = r.generation
  BY <1>1 DEF RetryRecords
<1>3. Journey(s) = Journey(r)
  BY <1>2 DEF Journey
<1>4. retries' = (retries \ {r}) \cup {s}
  BY DEF Fire
<1> HIDE DEF s
<1>5. TitleTypes'
  BY <1>1, <1>4 DEF Fire, TitleTypes
<1>6. OneJourneyEach' /\ Journeys' = Journeys
  BY <1>2, <1>3, <1>4, FireTravels DEF Fire, OneJourneyEach, Journeys
<1> QED
  BY <1>5, <1>6, SessionsFrame DEF Fire

LEMMA DeliverInv ==
    ASSUME TitleInv, NEW r \in retries, Deliver(r), UNCHANGED stopAfterSuccess
    PROVE  TitleInv'
<1> USE DEF TitleInv
<1> DEFINE req == [key |-> r.key, kind |-> "retry", generation |-> r.generation, id |-> r.id]
<1>1. r \in RetryRecords /\ req \in Requests
  BY DEF TitleTypes, RetryRecords, Requests
<1>2. req \in RetryRequests /\ Journey(req) = Journey(r)
  BY <1>1 DEF Journey, RetryRequests
<1>3. queue' = Append(queue, req) /\ retries' = retries \ {r}
  BY DEF Deliver
<1> HIDE DEF req
<1>4. queue' \in Seq(Requests)
  BY <1>1, <1>3 DEF TitleTypes
<1>5. TitleTypes'
  BY <1>3, <1>4 DEF Deliver, TitleTypes
<1>6. OneJourneyEach' /\ Journeys' = Journeys
  <2> DEFINE p == Append(queue, req)
  <2>1. /\ OnceEach(retries \ {r}, Requested(p), p, nextId)
        /\ Travels(retries \ {r}, Requested(p), p) = Travels(retries, Requested(queue), queue)
    BY <1>1, <1>2, DeliverTravels DEF TitleTypes, OneJourneyEach
  <2> QED
    BY <2>1, <1>3 DEF Deliver, OneJourneyEach, Journeys
<1> QED
  BY <1>5, <1>6, SessionsFrame DEF Deliver

LEMMA AbandonInv ==
    ASSUME TitleInv, NEW r \in retries, Abandon(r), UNCHANGED stopAfterSuccess
    PROVE  TitleInv'
<1> USE DEF TitleInv
<1>1. TitleTypes'
  BY DEF Abandon, TitleTypes
<1>2. /\ OneJourneyEach' /\ Journeys' \subseteq Journeys
      /\ \A j \in Journeys : j \in Journeys' \/ j.id = r.id
  <2> DEFINE A == Requested(queue)
  <2> HIDE DEF A
  <2>1. OnceEach(retries, A, queue, nextId)
    BY DEF OneJourneyEach, A
  <2>2. /\ OnceEach(retries \ {r}, A, queue, nextId)
        /\ Travels(retries \ {r}, A, queue) \subseteq Travels(retries, A, queue)
        /\ \A j \in Travels(retries, A, queue) :
             j \in Travels(retries \ {r}, A, queue) \/ j = Journey(r)
    BY <2>1, AbandonTravels
  <2> QED
    BY <2>2, JourneyFields DEF Abandon, OneJourneyEach, Journeys, A
<1> QED
  BY <1>1, <1>2, SessionsFrame DEF Abandon

LEMMA EndInv ==
    ASSUME TitleInv, Cancel \/ Exit, UNCHANGED stopAfterSuccess
    PROVE  TitleInv'
<1> USE DEF TitleInv
<1>1. TitleTypes' /\ OneJourneyEach' /\ Journeys' = Journeys /\ (done => done')
  BY DEF Cancel, Exit, TitleTypes, OneJourneyEach, Journeys
<1> QED
  BY <1>1, SessionsFrame DEF Cancel, Exit

\* What taking the head of the queue does to the journeys.
LEMMA TakeHead ==
    ASSUME TitleInv, Ready, queue' = Tail(queue), UNCHANGED <<retries, nextId>>
    PROVE  /\ OneJourneyEach' /\ Journeys' \subseteq Journeys /\ queue' \in Seq(Requests)
           /\ Head(queue) \in Requests
           /\ Head(queue).kind # "retry" => Journeys' = Journeys
           /\ Head(queue).kind = "retry" =>
                /\ Journey(Head(queue)) \in Journeys
                /\ \A j \in Journeys : j \in Journeys' <=> j.id # Head(queue).id
<1>1. queue \in Seq(Requests) /\ queue # <<>>
  BY DEF TitleInv, TitleTypes, Ready
<1>2. queue' \in Seq(Requests)
  BY <1>1
<1> QED
  BY <1>1, <1>2, HeadTravels DEF TitleInv, OneJourneyEach, Journeys

LEMMA JourneyIds == OneJourneyEach => \A j \in Journeys : j.id \in 1 .. nextId - 1
BY OnTheWay, JourneyFields DEF OneJourneyEach, OnceEach, Journeys

LEMMA JourneyKeys == TitleTypes => \A j \in Journeys : j.key \in Key
<1> SUFFICES ASSUME TitleTypes, NEW j \in Journeys PROVE j.key \in Key
  OBVIOUS
<1>1. \A r \in retries : r.key \in Key
  BY DEF TitleTypes, RetryRecords
<1>2. \A i \in Requested(queue) : queue[i] \in Requests
  BY DEF TitleTypes, Requested
<1>3. \A i \in Requested(queue) : queue[i].key \in Key
  BY <1>2 DEF Requests
<1> QED
  BY <1>1, <1>3, OnTheWay, JourneyFields DEF Journeys

LEMMA OwnRetry ==
    ASSUME TitleInv, NEW req, Journey(req) \in Journeys, req.id \notin cancelled
    PROVE  Reserved(req) /\ states[req.key].pending = req.id
<1>1. /\ Journey(req).id = req.id /\ Journey(req).key = req.key
      /\ Journey(req).generation = req.generation
  BY JourneyFields
<1> QED
  BY <1>1 DEF TitleInv, OwnerWaits, Reserved

LEMMA DropStaleInv ==
    ASSUME TitleInv, DropStale, UNCHANGED stopAfterSuccess
    PROVE  TitleInv'
<1>1. /\ Ready /\ Stale(Head(queue)) /\ queue' = Tail(queue)
      /\ UNCHANGED <<retries, nextId, states, current, cancelled, done, worker, lookups>>
  BY DEF DropStale
<1>2. Head(queue).kind = "retry" /\ Journey(Head(queue)) \in Journeys
  BY <1>1, TakeHead DEF Stale
<1>3. Head(queue).id \in cancelled
  BY <1>1, <1>2, OwnRetry DEF Stale
<1>4. TitleTypes'
  BY <1>1, TakeHead DEF TitleInv, TitleTypes
<1> QED
  BY <1>1, <1>2, <1>3, <1>4, TakeHead, SessionsFrame

LEMMA SkipSavedInv ==
    ASSUME TitleInv, SkipSaved, UNCHANGED stopAfterSuccess
    PROVE  TitleInv'
<1> DEFINE req == Head(queue)
<1>1. /\ Ready /\ ~Stale(req) /\ Known(req.key) /\ Enough(states[req.key])
      /\ queue' = Tail(queue)
      /\ UNCHANGED <<retries, nextId, states, current, cancelled, done, worker, lookups>>
  BY DEF SkipSaved
<1>2. req \in Requests /\ req.key \in Key
  BY <1>1, TakeHead DEF Requests
<1>3. ASSUME req.kind = "retry" PROVE FALSE
  <2>1. req.id \notin cancelled /\ Journey(req) \in Journeys
    BY <1>1, <1>3, TakeHead DEF Stale, Reserved
  <2>2. states[req.key].pending = req.id /\ req.id # 0
    <3>1. req.id # 0
      BY <2>1, JourneyIds, JourneyFields DEF TitleInv
    <3> QED
      BY <2>1, OwnRetry, <3>1
  <2> QED
    BY <1>1, <1>2, <2>2 DEF TitleInv, Stages
<1>4. TitleTypes'
  BY <1>1, TakeHead DEF TitleInv, TitleTypes
<1> QED
  BY <1>1, <1>3, <1>4, TakeHead, SessionsFrame
-----------------------------------------------------------------------------
(* The outcome of a lookup, and a timer of a live session: the session keeps   *)
(* its life and its retry.                                                     *)

SameLife(s, t) ==
    /\ t \in TitleState
    /\ t.ended = s.ended /\ t.pending = s.pending
    /\ t.generation = s.generation /\ t.attempts = s.attempts

LEMMA KnownTyped == ASSUME TitleTypes, NEW k \in Key, Known(k) PROVE states[k] \in TitleState
BY DEF TitleTypes, Known

LEMMA SameLifeInv ==
    ASSUME TitleInv, NEW k \in Key, Known(k), NEW t, SameLife(states[k], t),
           states' = [states EXCEPT ![k] = t],
           UNCHANGED <<stopAfterSuccess, queue, retries, cancelled, nextId, done, worker, lookups>>,
           current' \in Key \cup {NoState}
    PROVE  TitleTypes' /\ OneJourneyEach' /\ OwnerWaits' /\ AwaitedTravels' /\ LookupsPaid'
<1> USE DEF TitleInv
<1>1. /\ \A l \in Key : Known(l)' <=> Known(l)
      /\ states'[k] = t /\ \A l \in Key : l # k => states'[l] = states[l]
  BY NoStateAssumption DEF Known, SameLife, TitleTypes
<1>2. \A l \in Key : /\ states'[l].pending = states[l].pending
                     /\ states'[l].generation = states[l].generation
                     /\ states'[l].ended = states[l].ended
                     /\ states'[l].attempts = states[l].attempts
  BY <1>1 DEF SameLife
<1>3. TitleTypes' /\ OneJourneyEach' /\ Journeys' = Journeys
  BY DEF TitleTypes, SameLife, OneJourneyEach, Journeys
<1>4. \A j \in Journeys : j.key \in Key
  BY JourneyKeys
<1>5. OwnerWaits'
  BY <1>1, <1>2, <1>3, <1>4 DEF OwnerWaits
<1>6. AwaitedTravels'
  BY <1>1, <1>2, <1>3 DEF AwaitedTravels, Waits
<1>7. LookupsPaid'
  BY <1>1, <1>2 DEF LookupsPaid
<1> QED
  BY <1>3, <1>5, <1>6, <1>7
\* The session that is looked up.
LEMMA LookedUp ==
    ASSUME TitleInv, current # NoState
    PROVE  /\ current \in Key /\ Known(current) /\ states[current] \in TitleState
           /\ states[current].pending = 0 /\ ~Enough(states[current])
BY KnownTyped DEF TitleInv, TitleTypes, Stages

LEMMA FoundInv ==
    ASSUME TitleInv, Found, UNCHANGED stopAfterSuccess
    PROVE  TitleInv'
<1> DEFINE s == states[current]
           t == [s EXCEPT !.saved = TRUE, !.finalized = s.ended,
                          !.cooling = ~s.ended /\ ~stopAfterSuccess]
<1>1. current \in Key /\ Known(current) /\ s \in TitleState /\ s.pending = 0
  BY LookedUp DEF Found
<1>2. SameLife(s, t) /\ t.finalized = s.ended
  BY <1>1 DEF SameLife, TitleState
<1>3. states' = [states EXCEPT ![current] = t]
  BY <1>1 DEF Found
<1> HIDE DEF s, t
<1>4. TitleTypes' /\ OneJourneyEach' /\ OwnerWaits' /\ AwaitedTravels' /\ LookupsPaid'
  BY <1>1, <1>2, <1>3, SameLifeInv DEF Found, s
<1>5. Stages'
  <2>1. states'[current] = t /\ \A l \in Key : l # current => states'[l] = states[l]
    BY <1>1, <1>3 DEF TitleInv, TitleTypes
  <2>2. \A l \in Key : Known(l)' => Known(l)
    BY <1>1, <2>1 DEF Known
  <2>3. t.pending = 0 /\ t.ended = s.ended
    BY <1>1, <1>2 DEF SameLife
  <2>4. t.ended \in BOOLEAN
    BY <1>2 DEF SameLife, TitleState
  <2> QED
    BY <1>2, <2>1, <2>2, <2>3, <2>4 DEF TitleInv, Stages, Enough, Found
<1> QED
  BY <1>4, <1>5 DEF TitleInv

LEMMA NotFoundLiveInv ==
    ASSUME TitleInv, NotFoundLive, UNCHANGED stopAfterSuccess
    PROVE  TitleInv'
<1> DEFINE s == states[current]
           t == [s EXCEPT !.cooling = TRUE]
<1>1. current \in Key /\ Known(current) /\ s \in TitleState /\ s.pending = 0 /\ ~s.ended
  BY LookedUp DEF NotFoundLive
<1>2. SameLife(s, t) /\ t.finalized = s.finalized
  BY <1>1 DEF SameLife, TitleState
<1>3. states' = [states EXCEPT ![current] = t]
  BY <1>1 DEF NotFoundLive
<1> HIDE DEF s, t
<1>4. TitleTypes' /\ OneJourneyEach' /\ OwnerWaits' /\ AwaitedTravels' /\ LookupsPaid'
  BY <1>1, <1>2, <1>3, SameLifeInv DEF NotFoundLive, s
<1>5. Stages'
  <2>1. states'[current] = t /\ \A l \in Key : l # current => states'[l] = states[l]
    BY <1>1, <1>3 DEF TitleInv, TitleTypes
  <2>2. \A l \in Key : Known(l)' => Known(l)
    BY <1>1, <2>1 DEF Known
  <2>3. t.pending = 0 /\ ~t.ended
    BY <1>1, <1>2 DEF SameLife
  <2>4. ~s.finalized
    BY <1>1 DEF TitleInv, Stages, s
  <2> QED
    BY <1>2, <2>1, <2>2, <2>3, <2>4 DEF TitleInv, Stages, Enough, NotFoundLive
<1> QED
  BY <1>4, <1>5 DEF TitleInv

LEMMA ExhaustedInv ==
    ASSUME TitleInv, Exhausted, UNCHANGED stopAfterSuccess
    PROVE  TitleInv'
<1> DEFINE s == states[current]
           t == [s EXCEPT !.cooling = TRUE, !.finalized = TRUE]
<1>1. current \in Key /\ Known(current) /\ s \in TitleState /\ s.pending = 0 /\ s.ended
  BY LookedUp DEF Exhausted
<1>2. SameLife(s, t) /\ t.finalized
  BY <1>1 DEF SameLife, TitleState
<1>3. states' = [states EXCEPT ![current] = t]
  BY <1>1 DEF Exhausted
<1> HIDE DEF s, t
<1>4. TitleTypes' /\ OneJourneyEach' /\ OwnerWaits' /\ AwaitedTravels' /\ LookupsPaid'
  BY <1>1, <1>2, <1>3, SameLifeInv DEF Exhausted, s
<1>5. Stages'
  <2>1. states'[current] = t /\ \A l \in Key : l # current => states'[l] = states[l]
    BY <1>1, <1>3 DEF TitleInv, TitleTypes
  <2>2. \A l \in Key : Known(l)' => Known(l)
    BY <1>1, <2>1 DEF Known
  <2>3. t.pending = 0 /\ t.ended
    BY <1>1, <1>2 DEF SameLife
  <2> QED
    BY <1>2, <2>1, <2>2, <2>3 DEF TitleInv, Stages, Enough, Exhausted
<1> QED
  BY <1>4, <1>5 DEF TitleInv

LEMMA CooledInv ==
    ASSUME TitleInv, NEW k \in Key, Cooled(k), UNCHANGED stopAfterSuccess
    PROVE  TitleInv'
<1> DEFINE s == states[k]
           t == [s EXCEPT !.cooling = FALSE]
<1>1. Known(k) /\ s \in TitleState /\ k # current
  BY KnownTyped DEF Cooled, TitleInv
<1>2. SameLife(s, t) /\ t.finalized = s.finalized /\ t.saved = s.saved
  BY <1>1 DEF SameLife, TitleState
<1>3. states' = [states EXCEPT ![k] = t]
  BY <1>1 DEF Cooled
<1> HIDE DEF s, t
<1>4. TitleTypes' /\ OneJourneyEach' /\ OwnerWaits' /\ AwaitedTravels' /\ LookupsPaid'
  BY <1>1, <1>2, <1>3, SameLifeInv DEF Cooled, s, TitleInv, TitleTypes
<1>5. Stages'
  <2>1. states'[k] = t /\ \A l \in Key : l # k => states'[l] = states[l]
    BY <1>1, <1>3 DEF TitleInv, TitleTypes
  <2>2. \A l \in Key : Known(l)' <=> Known(l)
    BY <1>1, <1>2, <2>1, NoStateAssumption DEF Known, SameLife
  <2>3. t.pending = s.pending /\ t.ended = s.ended
    BY <1>1, <1>2 DEF SameLife
  <2>4. current \in Key \cup {NoState}
    BY DEF TitleInv, TitleTypes
  <2> QED
    BY <1>1, <1>2, <2>1, <2>2, <2>3, <2>4 DEF TitleInv, Stages, Enough, Cooled, s
<1> QED
  BY <1>4, <1>5 DEF TitleInv
-----------------------------------------------------------------------------
(* schedule: the session waits for a new retry *)

LEMMA ScheduleInv ==
    ASSUME TitleInv, Schedule, UNCHANGED stopAfterSuccess
    PROVE  TitleInv'
<1> DEFINE s == states[current]
           t == [s EXCEPT !.cooling = TRUE, !.attempts = @ + 1, !.pending = nextId]
           r == [id |-> nextId, key |-> current, phase |-> "waiting", generation |-> s.generation]
<1>1. /\ current \in Key /\ Known(current) /\ s \in TitleState /\ s.pending = 0 /\ s.ended
      /\ ~Enough(s) /\ s.attempts < MaxRetries
  BY LookedUp DEF Schedule
<1>2. nextId \in Nat /\ nextId # 0 /\ nextId \notin 1 .. nextId - 1
      /\ nextId + 1 - 1 = nextId /\ nextId \in 1 .. nextId
      /\ \A i \in 1 .. nextId - 1 : i \in 1 .. nextId
  BY DEF TitleInv, TitleTypes
<1>3. /\ t \in TitleState /\ t.pending = nextId /\ t.attempts = s.attempts + 1
      /\ t.ended /\ t.generation = s.generation
      /\ t.saved = s.saved
  <2>1. s.attempts \in Nat /\ s.attempts + 1 \in Nat
    BY <1>1 DEF TitleState
  <2>2. t \in TitleState
    BY <1>1, <1>2, <2>1 DEF TitleState
  <2>3. t.pending = nextId /\ t.attempts = s.attempts + 1
    BY <1>1 DEF TitleState
  <2>4. t.ended = s.ended /\ t.generation = s.generation /\ t.saved = s.saved
    BY <1>1 DEF TitleState
  <2> QED
    BY <1>1, <2>2, <2>3, <2>4
<1>4. r \in RetryRecords /\ r.id = nextId /\ r.key = current /\ r.generation = s.generation
  BY <1>1, <1>2 DEF RetryRecords, TitleState
<1>5. states' = [states EXCEPT ![current] = t] /\ retries' = retries \cup {r}
      /\ nextId' = nextId + 1
  BY DEF Schedule
<1> HIDE DEF t, r
<1>6. Journeys' = Journeys \cup {Journey(r)} /\ OneJourneyEach'
  <2> DEFINE A == Requested(queue)
  <2>1. OnceEach(retries, A, queue, nextId)
    BY DEF TitleInv, OneJourneyEach
  <2> HIDE DEF A
  <2>2. /\ OnceEach(retries \cup {r}, A, queue, nextId + 1)
        /\ Travels(retries \cup {r}, A, queue) = Travels(retries, A, queue) \cup {Journey(r)}
    <3>1. r.id = nextId /\ nextId \in Nat \ {0}
      BY <1>2, <1>4
    <3>2. /\ OnceEach(retries \cup {r}, A, queue, nextId + 1)
          /\ Travels(retries \cup {r}, A, queue) = Travels(retries, A, queue) \cup {Journey(r)}
      BY ONLY <2>1, <3>1, ScheduleTravels
    <3> QED
      BY <1>4, <3>2
  <2> QED
    BY <2>2, <1>5 DEF Schedule, OneJourneyEach, Journeys, A
<1>7. TitleTypes'
  <2>1. states' \in [Key -> TitleState \cup {NoState}]
    BY <1>1, <1>3, <1>5 DEF TitleInv, TitleTypes
  <2>2. retries' \subseteq RetryRecords /\ nextId' \in Nat \ {0}
    BY <1>2, <1>4, <1>5 DEF TitleInv, TitleTypes
  <2> QED
    BY <2>1, <2>2 DEF Schedule, TitleInv, TitleTypes
<1>8. states'[current] = t /\ \A l \in Key : l # current => states'[l] = states[l]
  BY <1>1, <1>5 DEF TitleInv, TitleTypes
<1>9. \A l \in Key : Known(l)' <=> Known(l)
  BY <1>1, <1>3, <1>8, NoStateAssumption DEF Known
<1>10. Journey(r).id = nextId /\ Journey(r).key = current /\ Journey(r).generation = s.generation
  BY <1>4, JourneyFields
<1>11. \A j \in Journeys : j.id # nextId /\ j.key \in Key
  BY <1>2, JourneyIds, JourneyKeys DEF TitleInv
<1>12. OwnerWaits'
  <2> SUFFICES ASSUME NEW j \in Journeys', j.id \notin cancelled
               PROVE  Known(j.key)' /\ states'[j.key].pending = j.id
                        /\ states'[j.key].generation = j.generation
    BY DEF OwnerWaits, Schedule
  <2>1. CASE j = Journey(r)
    BY <2>1, <1>1, <1>3, <1>8, <1>9, <1>10
  <2>2. CASE j \in Journeys
    <3>1. Known(j.key) /\ states[j.key].pending = j.id /\ states[j.key].generation = j.generation
      BY <2>2 DEF TitleInv, OwnerWaits
    <3>2. CASE j.key = current
      <4>1. j.id = 0
        BY <3>1, <3>2, <1>1
      <4>2. j.id \in 1 .. nextId - 1
        BY <2>2, JourneyIds DEF TitleInv
      <4> QED
        BY <4>1, <4>2
    <3>3. CASE j.key # current
      BY <3>1, <3>3, <2>2, <1>8, <1>9, <1>11
    <3> QED
      BY <3>2, <3>3
  <2> QED
    BY <2>1, <2>2, <1>6
<1>13. AwaitedTravels'
  <2>1. cancelled' \subseteq 1 .. nextId' - 1 /\ nextId \notin cancelled
    BY <1>2, <1>5 DEF TitleInv, AwaitedTravels, Schedule
  <2>2. \A l \in Key : l # current => (Waits(l)' <=> Waits(l))
    BY <1>8, <1>9 DEF Waits
  <2>3. ASSUME NEW l \in Key, Waits(l)'
        PROVE  /\ states'[l].pending \in (1 .. nextId' - 1) \ cancelled'
               /\ done' \/ \E j \in Journeys' : j.id = states'[l].pending
    <3>0. nextId' - 1 = nextId /\ cancelled' = cancelled /\ done' = done
      BY <1>2, <1>5 DEF Schedule
    <3>1. CASE l = current
      <4>1. states'[l].pending = nextId
        BY <3>1, <1>3, <1>8
      <4>2. nextId \in (1 .. nextId' - 1) \ cancelled'
        BY <2>1, <1>2, <3>0
      <4>3. Journey(r) \in Journeys' /\ Journey(r).id = nextId
        BY <1>6, <1>10
      <4> QED
        BY <4>1, <4>2, <4>3
    <3>2. CASE l # current
      <4>1. /\ states[l].pending \in (1 .. nextId - 1) \ cancelled
            /\ done \/ \E j \in Journeys : j.id = states[l].pending
        BY <2>2, <2>3, <3>2 DEF TitleInv, AwaitedTravels
      <4>2. states'[l].pending = states[l].pending
        BY <3>2, <1>8
      <4>3. states[l].pending \in (1 .. nextId' - 1) \ cancelled'
        BY <4>1, <1>2, <3>0
      <4>4. done' \/ \E j \in Journeys' : j.id = states[l].pending
        BY <4>1, <1>6, <3>0
      <4> QED
        BY <4>2, <4>3, <4>4
    <3> QED
      BY <3>1, <3>2
  <2>4. ASSUME NEW k \in Key, NEW l \in Key, Waits(k)', Waits(l)',
               states'[k].pending = states'[l].pending
        PROVE  k = l
    <3>1. \A m \in Key : m # current /\ Waits(m)' => states'[m].pending # nextId
      BY <2>2, <1>2, <1>8 DEF TitleInv, AwaitedTravels
    <3>2. CASE k # current /\ l # current
      BY <2>4, <3>2, <2>2, <1>8 DEF TitleInv, AwaitedTravels
    <3>3. CASE k = current \/ l = current
      BY <2>4, <3>1, <3>3, <1>3, <1>8
    <3> QED
      BY <3>2, <3>3
  <2> QED
    BY <2>1, <2>3, <2>4 DEF AwaitedTravels
<1>14. Stages'
  <2>1. current' = NoState /\ stopAfterSuccess' = stopAfterSuccess
    BY DEF Schedule
  <2>2. ~Enough(t) /\ t.pending # 0
    BY <1>1, <1>2, <1>3 DEF Enough
  <2> QED
    BY <1>3, <1>8, <1>9, <2>1, <2>2 DEF TitleInv, Stages, Enough
<1>15. LookupsPaid'
  <2>1. /\ s.attempts \in Nat /\ MaxRetries \in Nat /\ lookups[current] \in Nat
        /\ lookups[current] <= s.attempts + 1 /\ t.attempts <= MaxRetries
    BY <1>1, <1>3, SizeAssumption DEF TitleInv, TitleTypes, TitleState, LookupsPaid
  <2>2. lookups' = lookups
    BY DEF Schedule
  <2>3. lookups[current] <= t.attempts /\ lookups[current] <= t.attempts + 1
    BY <2>1, <1>3
  <2> QED
    BY <1>1, <1>3, <1>8, <1>9, <2>1, <2>2, <2>3 DEF TitleInv, LookupsPaid
<1> QED
  BY <1>6, <1>7, <1>12, <1>13, <1>14, <1>15 DEF TitleInv
-----------------------------------------------------------------------------
(* A request that ends a session's wait: the retry itself, a live session, a   *)
(* forget.  What the session waited for is cancelled with it.                  *)

Awaited(k) == IF Known(k) THEN {states[k].pending} \ {0} ELSE {}

LEMMA NewLife ==
    ASSUME TitleInv, Ready, queue' = Tail(queue), NEW k \in Key, NEW t,
           t = NoState \/ (t \in TitleState /\ t.pending = 0),
           states' = [states EXCEPT ![k] = t], cancelled' = cancelled \cup Awaited(k),
           UNCHANGED <<retries, nextId, done>>,
           Head(queue).kind = "retry" => Known(k) /\ states[k].pending = Head(queue).id
    PROVE  OwnerWaits' /\ AwaitedTravels'
<1>1. states'[k] = t /\ \A l \in Key : l # k => states'[l] = states[l]
  BY DEF TitleInv, TitleTypes
<1>2. \A l \in Key : l # k => (Known(l)' <=> Known(l)) /\ (Waits(l)' <=> Waits(l))
  BY <1>1 DEF Known, Waits
<1>3. ~Waits(k)'
  BY <1>1 DEF Known, Waits
<1>4. OwnerWaits'
  <2> SUFFICES ASSUME NEW j \in Journeys', j.id \notin cancelled'
               PROVE  /\ Known(j.key)' /\ states'[j.key].pending = j.id
                      /\ states'[j.key].generation = j.generation
    BY DEF OwnerWaits
  <2>1. j \in Journeys /\ j.id \notin cancelled /\ j.key \in Key
    BY TakeHead, JourneyKeys DEF TitleInv
  <2>2. Known(j.key) /\ states[j.key].pending = j.id /\ states[j.key].generation = j.generation
    BY <2>1 DEF TitleInv, OwnerWaits
  <2>3. j.id # 0
    BY <2>1, JourneyIds DEF TitleInv
  <2>4. j.key # k
    BY <2>2, <2>3 DEF Awaited
  <2> QED
    BY <2>1, <2>2, <2>4, <1>1, <1>2
<1>5. AwaitedTravels'
  <2>1. ASSUME NEW l \in Key, Waits(l)'
        PROVE  /\ l # k /\ Waits(l) /\ states'[l].pending = states[l].pending
               /\ states[l].pending \in 1 .. nextId - 1
               /\ states[l].pending \notin cancelled
               /\ states[l].pending \notin Awaited(k)
               /\ ~done => \E j \in Journeys' : j.id = states[l].pending
    <3>1. l # k /\ Waits(l) /\ states'[l].pending = states[l].pending
      BY <2>1, <1>1, <1>2, <1>3
    <3>2. /\ states[l].pending \in 1 .. nextId - 1
          /\ states[l].pending \notin cancelled
      BY <3>1 DEF TitleInv, AwaitedTravels
    <3>3. states[l].pending \notin Awaited(k)
      BY <3>1 DEF TitleInv, AwaitedTravels, Awaited, Waits
    <3>4. ASSUME ~done PROVE \E j \in Journeys' : j.id = states[l].pending
      <4>1. PICK j \in Journeys : j.id = states[l].pending
        BY <3>1, <3>4 DEF TitleInv, AwaitedTravels
      <4>2. CASE Head(queue).kind = "retry"
        <5>1. Head(queue).id \in 1 .. nextId - 1
          BY <4>2, TakeHead, JourneyIds, JourneyFields DEF TitleInv
        <5>2. Waits(k) /\ states[k].pending = Head(queue).id
          BY <4>2, <5>1 DEF Waits
        <5>3. j.id # Head(queue).id
          BY <5>2, <4>1, <3>1 DEF TitleInv, AwaitedTravels
        <5> QED
          BY <5>3, <4>1, <4>2, TakeHead
      <4>3. CASE Head(queue).kind # "retry"
        BY <4>1, <4>3, TakeHead
      <4> QED
        BY <4>2, <4>3
    <3> QED
      BY <3>1, <3>2, <3>3, <3>4
  <2>2. cancelled' \subseteq 1 .. nextId - 1
    <3>1. cancelled \subseteq 1 .. nextId - 1
      BY DEF TitleInv, AwaitedTravels
    <3>2. Awaited(k) \subseteq 1 .. nextId - 1
      BY DEF TitleInv, AwaitedTravels, Awaited, Waits
    <3> QED
      BY <3>1, <3>2
  <2>3. ASSUME NEW l \in Key, NEW m \in Key, Waits(l)', Waits(m)',
               states'[l].pending = states'[m].pending
        PROVE  l = m
    BY <2>1, <2>3 DEF TitleInv, AwaitedTravels
  <2> QED
    BY <2>1, <2>2, <2>3 DEF AwaitedTravels
<1> QED
  BY <1>4, <1>5

LEMMA ForgetInv ==
    ASSUME TitleInv, Forget, UNCHANGED stopAfterSuccess
    PROVE  TitleInv'
<1> PICK k : k = Head(queue).key
  OBVIOUS
<1>1. /\ Ready /\ queue' = Tail(queue) /\ Head(queue).kind = "forget"
      /\ states' = [states EXCEPT ![k] = NoState] /\ cancelled' = cancelled \cup Awaited(k)
      /\ lookups' = [lookups EXCEPT ![k] = 0]
      /\ UNCHANGED <<retries, nextId, done, worker, current>>
  BY DEF Forget, Awaited
<1>2. k \in Key
  BY <1>1, TakeHead DEF Requests
<1>3. OwnerWaits' /\ AwaitedTravels'
  BY <1>1, <1>2, NewLife
<1>4. TitleTypes' /\ OneJourneyEach'
  BY <1>1, <1>2, TakeHead DEF TitleInv, TitleTypes
<1>5. /\ states'[k] = NoState /\ \A l \in Key : l # k => states'[l] = states[l]
      /\ lookups'[k] = 0 /\ \A l \in Key : l # k => lookups'[l] = lookups[l]
  BY <1>1, <1>2 DEF TitleInv, TitleTypes
<1>6. ~Known(k)' /\ \A l \in Key : l # k => (Known(l)' <=> Known(l))
  BY <1>5 DEF Known
<1>7. Stages'
  BY <1>1, <1>5, <1>6 DEF TitleInv, Stages, Enough, Ready
<1>8. LookupsPaid'
  BY <1>5, <1>6 DEF TitleInv, LookupsPaid
<1> QED
  BY <1>3, <1>4, <1>7, <1>8 DEF TitleInv
-----------------------------------------------------------------------------
(* Process: what a request makes of its session *)

\* The request finds a session in state s and leaves it as t: as it was, or
\* without a retry to wait for.
LEMMA AdvancedKinds ==
    ASSUME NEW req \in Requests, req.kind # "forget", NEW s \in TitleState,
           req.kind = "retry" => s.ended, s.ended \/ ~s.finalized, s.ended \/ s.pending = 0
    PROVE  LET t == Advanced(req, s) IN
             /\ t \in TitleState
             /\ t.saved => s.saved
             /\ t.ended \/ ~t.finalized
             /\ t.attempts \in {0, s.attempts}
             /\ \/ t = s /\ req.kind # "retry" /\ CancelledBy(req, s) = {}
                \/ t.pending = 0 /\ CancelledBy(req, s) = {s.pending} \ {0}
                     /\ (t.ended /\ s.ended =>
                           req.kind = "retry" /\ t.attempts = s.attempts)
<1> DEFINE t == Advanced(req, s)
<1>1. req.kind \in {"live", "ended", "retry"}
  BY DEF Requests
<1>2. /\ s.ended \in BOOLEAN /\ s.finalized \in BOOLEAN /\ s.saved \in BOOLEAN
      /\ s.attempts \in Nat /\ s.generation \in Nat /\ s.generation + 1 \in Nat /\ s.pending \in Nat
  BY DEF TitleState
<1>3. CASE req.kind = "retry"
  <2>1. t = [s EXCEPT !.pending = 0]
    BY <1>3 DEF Advanced
  <2>2. /\ t \in TitleState /\ t.pending = 0 /\ t.saved = s.saved /\ t.ended = s.ended
        /\ t.finalized = s.finalized /\ t.attempts = s.attempts
    BY <2>1 DEF TitleState
  <2>3. CancelledBy(req, s) = {s.pending} \ {0}
    BY <1>3 DEF CancelledBy
  <2> QED
    BY <1>3, <2>2, <2>3
<1>4. CASE req.kind = "live" /\ s.ended
  <2>1. t = Fresh(s.generation + 1)
    BY <1>4 DEF Advanced
  <2>2. t \in TitleState /\ t.pending = 0 /\ ~t.saved /\ ~t.ended /\ ~t.finalized /\ t.attempts = 0
    BY <1>2, <2>1 DEF Fresh, TitleState
  <2>3. CancelledBy(req, s) = {s.pending} \ {0}
    BY <1>4 DEF CancelledBy, IsEnd
  <2> QED
    BY <2>2, <2>3
<1>5. CASE req.kind = "live" /\ ~s.ended
  <2>1. t = s /\ CancelledBy(req, s) = {}
    BY <1>5 DEF Advanced, CancelledBy, IsEnd
  <2> QED
    BY <1>5, <2>1
<1>6. CASE req.kind = "ended" /\ ~s.ended
  <2>1. t = [s EXCEPT !.ended = TRUE, !.generation = @ + 1]
    BY <1>6 DEF Advanced
  <2>2. t \in TitleState
    BY <1>2, <2>1 DEF TitleState
  <2>3. t.pending = s.pending /\ t.saved = s.saved /\ t.ended /\ t.attempts = s.attempts
    BY <2>1 DEF TitleState
  <2>4. CancelledBy(req, s) = {}
    BY <1>6 DEF CancelledBy, IsEnd
  <2>5. {s.pending} \ {0} = {}
    BY <1>6
  <2> QED
    BY <1>6, <2>2, <2>3, <2>4, <2>5
<1>7. CASE req.kind = "ended" /\ s.ended
  <2>1. t = s /\ CancelledBy(req, s) = {}
    BY <1>7 DEF Advanced, CancelledBy, IsEnd
  <2> QED
    BY <1>7, <2>1
<1> QED
  BY <1>1, <1>3, <1>4, <1>5, <1>6, <1>7

LEMMA FreshTyped == ASSUME NEW g \in Nat
                    PROVE  /\ Fresh(g) \in TitleState /\ Fresh(g).pending = 0 /\ ~Fresh(g).saved
                           /\ ~Fresh(g).ended /\ ~Fresh(g).finalized /\ Fresh(g).attempts = 0
BY DEF Fresh, TitleState

\* What Process knows of the session before it.
LEMMA ProcessFinds ==
    ASSUME TitleInv, Ready, NEW req, req = Head(queue), req.kind # "forget", ~Stale(req),
           NEW s, s = IF Known(req.key) THEN states[req.key] ELSE Fresh(0)
    PROVE  /\ req \in Requests /\ req.key \in Key /\ s \in TitleState
           /\ req.kind = "retry" =>
                Known(req.key) /\ s.pending = req.id /\ s.pending # 0 /\ s.ended
           /\ s.ended \/ ~s.finalized
           /\ s.ended \/ s.pending = 0
           /\ s.ended /\ ~s.finalized => s.pending # 0
           /\ s.ended => Known(req.key)
           /\ s.pending # 0 => Known(req.key) /\ s.ended
           /\ {s.pending} \ {0} = Awaited(req.key)
           /\ s.attempts <= MaxRetries
<1>1. queue # <<>> /\ current = NoState
  BY DEF Ready
<1>2. req \in Requests /\ req.key \in Key
  <2>1. req \in Requests
    BY <1>1 DEF TitleInv, TitleTypes
  <2> QED
    BY <2>1 DEF Requests
<1>3. CASE ~Known(req.key)
  <2>1. s = Fresh(0) /\ req.kind # "retry"
    BY <1>3 DEF Stale, Reserved
  <2>2. /\ s \in TitleState /\ s.pending = 0 /\ ~s.ended /\ ~s.finalized /\ s.attempts = 0
    BY <2>1, FreshTyped
  <2>3. {s.pending} \ {0} = Awaited(req.key)
    BY <1>3, <2>2 DEF Awaited
  <2>4. s.attempts <= MaxRetries
    BY <2>2, SizeAssumption
  <2> QED
    BY <1>2, <2>1, <2>2, <2>3, <2>4
<1>4. CASE Known(req.key)
  <2>1. s = states[req.key] /\ s \in TitleState
    BY <1>2, <1>4, KnownTyped DEF TitleInv
  <2>2. /\ s.pending # 0 => s.ended
        /\ s.ended \/ ~s.finalized
        /\ s.ended /\ ~s.finalized => s.pending # 0
    BY <1>1, <1>2, <1>4, <2>1, NoStateAssumption DEF TitleInv, Stages
  <2>3. s.attempts <= MaxRetries
    BY <1>2, <1>4, <2>1 DEF TitleInv, LookupsPaid
  <2>4. {s.pending} \ {0} = Awaited(req.key)
    BY <1>4, <2>1 DEF Awaited
  <2>5. ASSUME req.kind = "retry" PROVE s.pending = req.id /\ req.id # 0
    <3>1. req.id \notin cancelled
      BY <2>5 DEF Stale, Reserved
    <3>2. Journey(req) \in Journeys /\ Journey(req).id = req.id
      BY <1>1, <2>5, HeadTravels, JourneyFields DEF TitleInv, TitleTypes, OneJourneyEach, Journeys
    <3>3. states[req.key].pending = req.id
      BY <3>1, <3>2, OwnRetry
    <3> QED
      BY <2>1, <3>2, <3>3, JourneyIds DEF TitleInv
  <2> QED
    BY <1>2, <1>4, <2>1, <2>2, <2>3, <2>4, <2>5
<1> QED
  BY <1>3, <1>4
LEMMA ProcessInv ==
    ASSUME TitleInv, Process, UNCHANGED stopAfterSuccess
    PROVE  TitleInv'
<1> PICK req : req = Head(queue)
  OBVIOUS
<1> PICK k : k = req.key
  OBVIOUS
<1> PICK s : s = IF Known(k) THEN states[k] ELSE Fresh(0)
  OBVIOUS
<1> PICK t : t = Advanced(req, s)
  OBVIOUS
<1>1. /\ Ready /\ queue' = Tail(queue) /\ req.kind # "forget" /\ ~Stale(req) /\ ~Enough(s)
      /\ states' = [states EXCEPT ![k] = t] /\ cancelled' = cancelled \cup CancelledBy(req, s)
      /\ current' = (IF Due(t) THEN k ELSE NoState)
      /\ lookups' = [lookups EXCEPT ![k] =
            IF ~t.ended THEN 0
            ELSE (IF s.ended THEN @ ELSE 0) + (IF Due(t) THEN 1 ELSE 0)]
      /\ UNCHANGED <<stopAfterSuccess, retries, nextId, done, worker>>
  BY DEF Process
<1>2. /\ req \in Requests /\ k \in Key /\ s \in TitleState
      /\ req.kind = "retry" => Known(k) /\ s.pending = req.id /\ s.pending # 0 /\ s.ended
      /\ s.ended \/ ~s.finalized
      /\ s.ended \/ s.pending = 0
      /\ s.ended /\ ~s.finalized => s.pending # 0
      /\ s.ended => Known(k)
      /\ s.pending # 0 => Known(k) /\ s.ended
      /\ {s.pending} \ {0} = Awaited(k)
      /\ s.attempts <= MaxRetries
  BY <1>1, ProcessFinds
<1>3. /\ t \in TitleState
      /\ t.saved => s.saved
      /\ t.ended \/ ~t.finalized
      /\ t.attempts \in {0, s.attempts}
      /\ \/ t = s /\ req.kind # "retry" /\ CancelledBy(req, s) = {}
         \/ t.pending = 0 /\ CancelledBy(req, s) = {s.pending} \ {0}
              /\ (t.ended /\ s.ended => req.kind = "retry" /\ t.attempts = s.attempts)
  BY <1>1, <1>2, AdvancedKinds
<1>4. Head(queue) = req /\ OneJourneyEach' /\ Journeys' \subseteq Journeys
      /\ queue' \in Seq(Requests) /\ (req.kind # "retry" => Journeys' = Journeys)
  BY <1>1, TakeHead
<1>5. states'[k] = t /\ \A l \in Key : l # k => states'[l] = states[l]
  BY <1>1, <1>2 DEF TitleInv, TitleTypes
<1>6. Known(k)' /\ \A l \in Key : l # k => (Known(l)' <=> Known(l))
  BY <1>3, <1>5, NoStateAssumption DEF Known
<1>7. OwnerWaits' /\ AwaitedTravels'
  <2>1. CASE t = s /\ Known(k) /\ req.kind # "retry" /\ CancelledBy(req, s) = {}
    <3>1. states' = states /\ cancelled' = cancelled /\ Journeys' = Journeys
      BY <1>1, <1>2, <1>4, <2>1 DEF TitleInv, TitleTypes
    <3> QED
      <4>1. OwnerWaits'
        BY <1>1, <3>1 DEF TitleInv, OwnerWaits, Known
      <4>2. AwaitedTravels'
        <5>1. \A l \in Key : Waits(l)' <=> Waits(l)
          BY <3>1 DEF Waits, Known
        <5>2. nextId' = nextId /\ done' = done
          BY <1>1
        <5>3. AwaitedTravels
          BY DEF TitleInv
        <5> QED
          BY ONLY <3>1, <5>1, <5>2, <5>3 DEF AwaitedTravels
      <4> QED
        BY <4>1, <4>2
  <2>2. CASE t.pending = 0 /\ CancelledBy(req, s) = {s.pending} \ {0}
    <3>1. cancelled' = cancelled \cup Awaited(k)
      BY <1>1, <1>2, <2>2
    <3>2. Head(queue).kind = "retry" => Known(k) /\ states[k].pending = Head(queue).id
      BY <1>2, <1>4
    <3> QED
      BY <1>1, <1>2, <1>3, <2>2, <3>1, <3>2, NewLife
  <2>3. CASE t = s /\ ~Known(k) /\ CancelledBy(req, s) = {}
    <3>1. s.pending = 0 /\ {s.pending} \ {0} = {}
      BY <1>2, <2>3
    <3> QED
      BY <2>2, <2>3, <3>1
  <2> QED
    BY <1>3, <2>1, <2>2, <2>3
<1>8. TitleTypes'
  <2>1. states' \in [Key -> TitleState \cup {NoState}]
    BY <1>1, <1>2, <1>3 DEF TitleInv, TitleTypes
  <2>2. current' \in Key \cup {NoState}
    BY <1>1, <1>2
  <2>3. lookups' \in [Key -> Nat]
    <3>1. lookups[k] \in Nat
      BY <1>2 DEF TitleInv, TitleTypes
    <3> PICK n : n = IF ~t.ended THEN 0
                     ELSE (IF s.ended THEN lookups[k] ELSE 0) + (IF Due(t) THEN 1 ELSE 0)
      OBVIOUS
    <3>2. n \in Nat
      BY <3>1
    <3>3. lookups' = [lookups EXCEPT ![k] = n]
      BY <1>1
    <3> QED
      BY <1>2, <3>2, <3>3 DEF TitleInv, TitleTypes
  <2> QED
    BY <1>1, <1>4, <2>1, <2>2, <2>3 DEF TitleInv, TitleTypes
<1>9. Stages'
  <2>1. current = NoState
    BY <1>1 DEF Ready
  <2>2. \A l \in Key : l # k /\ Known(l)' =>
           /\ states'[l].pending # 0 => states'[l].ended /\ ~Enough(states'[l])
           /\ states'[l].ended \/ ~states'[l].finalized
           /\ ~(states'[l].ended /\ ~states'[l].finalized /\ states'[l].pending = 0)
    BY <1>5, <1>6, <2>1, NoStateAssumption DEF TitleInv, Stages
  <2>3. ~Enough(t)
    BY <1>1, <1>3 DEF Enough
  <2>4. t.pending # 0 => t.ended
    BY <1>2, <1>3
  <2>5. t.ended /\ ~t.finalized /\ t.pending = 0 => current' = k
    BY <1>1 DEF Due
  <2>6. current' # NoState => current' = k /\ t.pending = 0
    BY <1>1 DEF Due
  <2>7. \A x : Enough(x)' <=> Enough(x)
    BY <1>1 DEF Enough
  <2>8. \A l \in Key : Known(l)' =>
           /\ states'[l].pending # 0 => states'[l].ended /\ ~Enough(states'[l])
           /\ states'[l].ended \/ ~states'[l].finalized
           /\ states'[l].ended /\ ~states'[l].finalized /\ states'[l].pending = 0 => current' = l
    BY <1>3, <1>5, <2>2, <2>3, <2>4, <2>5
  <2>9. current' # NoState =>
           /\ states'[current'] # NoState /\ states'[current'].pending = 0
           /\ ~Enough(states'[current'])
    BY <1>5, <1>6, <2>3, <2>6 DEF Known
  <2>10. stopAfterSuccess' = stopAfterSuccess
    BY <1>1
  <2> QED
    BY ONLY <2>8, <2>9, <2>10 DEF Stages, Enough, Known
<1>10. LookupsPaid'
  <2>1. /\ s.attempts \in Nat /\ MaxRetries \in Nat /\ t.attempts \in Nat /\ lookups[k] \in Nat
        /\ t.attempts <= MaxRetries
    <3>1. s \in TitleState /\ t \in TitleState
      BY <1>2, <1>3
    <3>2. s.attempts \in Nat /\ t.attempts \in Nat
      BY ONLY <3>1 DEF TitleState
    <3>3. lookups[k] \in Nat
      BY <1>2 DEF TitleInv, TitleTypes
    <3>4. s.attempts <= MaxRetries /\ (t.attempts = 0 \/ t.attempts = s.attempts)
      BY <1>2, <1>3
    <3> QED
      BY ONLY <3>2, <3>3, <3>4, SizeAssumption
  <2>2. /\ \A l \in Key : l # k => lookups'[l] = lookups[l]
        /\ lookups'[k] = IF ~t.ended THEN 0
                         ELSE (IF s.ended THEN lookups[k] ELSE 0) + (IF Due(t) THEN 1 ELSE 0)
    BY <1>1, <1>2 DEF TitleInv, TitleTypes
  <2>3. s.ended => /\ lookups[k] <= s.attempts + 1
                   /\ s.pending # 0 => lookups[k] <= s.attempts
    BY <1>2 DEF TitleInv, LookupsPaid
  <2>4. ASSUME t.ended
        PROVE  lookups'[k] <= t.attempts + 1 /\ (t.pending # 0 => lookups'[k] <= t.attempts)
    <3>1. CASE ~s.ended
      <4>1. lookups'[k] \in {0, 1} /\ t.pending = 0
        <5>1. lookups'[k] = 0 + (IF Due(t) THEN 1 ELSE 0)
          BY ONLY <2>2, <2>4, <3>1
        <5>2. t.pending = 0
          BY <1>3, <2>4, <3>1
        <5> QED
          BY ONLY <5>1, <5>2
      <4> QED
        BY <4>1, <2>1
    <3>2. CASE s.ended /\ t = s
      <4>1. ~Due(t)
        BY <1>2, <3>2 DEF Due
      <4>2. lookups'[k] = lookups[k] + 0
        BY <2>2, <2>4, <3>2, <4>1
      <4> QED
        BY <2>1, <2>3, <3>2, <4>2
    <3>3. CASE s.ended /\ t # s
      <4>1. t.pending = 0 /\ s.pending # 0 /\ t.attempts = s.attempts
        BY <1>2, <1>3, <2>4, <3>3
      <4>2. lookups'[k] \in {lookups[k], lookups[k] + 1}
        BY <2>1, <2>2, <2>4, <3>3
      <4> QED
        BY <2>1, <2>3, <3>3, <4>1, <4>2
    <3> QED
      BY <3>1, <3>2, <3>3
  <2>5. ~t.ended => lookups'[k] = 0
    BY <2>2
  <2> QED
    BY <1>5, <1>6, <2>1, <2>2, <2>4, <2>5 DEF TitleInv, LookupsPaid
<1> QED
  BY <1>4, <1>7, <1>8, <1>9, <1>10 DEF TitleInv

-----------------------------------------------------------------------------
(* The theorems *)

LEMMA StepInv == TitleInv /\ [Next]_vars => TitleInv'
<1> SUFFICES ASSUME TitleInv, [Next]_vars PROVE TitleInv'
  OBVIOUS
<1>1. CASE Surroundings
  <2>1. ASSUME NEW k \in Key, NEW kind \in {"live", "ended", "forget"}, Offer(Request(k, kind))
        PROVE  TitleInv'
    BY <1>1, <2>1, OfferInv, RequestTyped DEF Surroundings
  <2>2. CASE \E k \in Key : Enqueue(k, TRUE) \/ Enqueue(k, FALSE) \/ TryForget(k)
    BY <2>1, <2>2 DEF Enqueue, TryForget
  <2> QED
    BY <1>1, <2>2, CooledInv, EndInv DEF Surroundings
<1>2. CASE Worker
  BY <1>2, ForgetInv, DropStaleInv, SkipSavedInv, ProcessInv, FoundInv, NotFoundLiveInv,
     ExhaustedInv, ScheduleInv, EndInv DEF Worker
<1>3. CASE Retry
  BY <1>3, FireInv, DeliverInv, AbandonInv DEF Retry, RetryStep
<1>4. CASE UNCHANGED vars
  <2>1. TitleTypes' /\ OneJourneyEach' /\ Journeys' = Journeys
    BY <1>4 DEF vars, TitleInv, TitleTypes, OneJourneyEach, Journeys
  <2> QED
    BY <1>4, <2>1, SessionsFrame DEF vars
<1> QED
  BY <1>1, <1>2, <1>3, <1>4 DEF Next

\* The journeys, what the sessions wait for, their stages and their lookups fit
\* together in every state.
THEOREM TitleInvariant == Spec => []TitleInv
BY InitInv, StepInv, PTL DEF Spec
\* No retry of an ended session is lost or doubled, and its lookups are bounded:
\* session_title.go's reservations do what their comments say, whoever else is
\* at the queue.
THEOREM LookupsTracked == Spec => []FinalLookupsTracked
<1>1. TitleInv => FinalLookupsTracked
  <2> SUFFICES ASSUME TitleInv PROVE FinalLookupsTracked
    OBVIOUS
  <2> DEFINE W == {states[k].pending : k \in {x \in Key : Known(x)}} \ {0}
  <2>1. \A i : i \in Underway <=> \E j \in Journeys : j.id = i
    <3>1. \A i : i \in Underway <=>
            (\E r \in retries : r.id = i) \/ (\E e \in Requested(queue) : queue[e].id = i)
      BY DEF Underway, RetryIds, Requested
    <3> QED
      BY <3>1, OnTheWay, JourneyFields DEF Journeys
  <2>2. ASSUME ~done, NEW i \in Underway \ cancelled PROVE i \in W
    <3>1. PICK j \in Journeys : j.id = i
      BY <2>1
    <3>2. j.key \in Key /\ i # 0
      BY <3>1, JourneyKeys, JourneyIds DEF TitleInv
    <3>3. Known(j.key) /\ states[j.key].pending = i
      BY <2>2, <3>1 DEF TitleInv, OwnerWaits
    <3> QED
      BY <3>2, <3>3
  <2>3. ASSUME ~done, NEW i \in W PROVE i \in Underway \ cancelled
    <3>1. PICK k \in Key : Waits(k) /\ i = states[k].pending
      BY DEF Waits
    <3>2. i \notin cancelled /\ \E j \in Journeys : j.id = i
      BY <2>3, <3>1 DEF TitleInv, AwaitedTravels
    <3> QED
      BY <2>1, <3>2
  <2>4. PendingMeansUnderway
    BY <2>2, <2>3 DEF PendingMeansUnderway
  <2>5. BoundedFinalLookups
    <3> SUFFICES ASSUME NEW k \in Key PROVE lookups[k] <= 1 + MaxRetries
      BY DEF BoundedFinalLookups
    <3>1. MaxRetries \in Nat /\ lookups[k] \in Nat
      BY SizeAssumption DEF TitleInv, TitleTypes
    <3>2. CASE Known(k) /\ states[k].ended
      <4>1. states[k].attempts \in Nat
        BY <3>2, KnownTyped DEF TitleInv, TitleState
      <4>2. states[k].attempts <= MaxRetries /\ lookups[k] <= states[k].attempts + 1
        BY <3>2 DEF TitleInv, LookupsPaid
      <4> QED
        BY <3>1, <4>1, <4>2
    <3>3. CASE ~(Known(k) /\ states[k].ended)
      BY <3>1, <3>3 DEF TitleInv, LookupsPaid
    <3> QED
      BY <3>2, <3>3
  <2> QED
    BY <2>4, <2>5 DEF FinalLookupsTracked
<1> QED
  BY <1>1, TitleInvariant, PTL

\* A retry that changes something is the one its session waits for, in its
\* present life: session_title.go drops what an earlier life reserved.
THEOREM RetriesKeepToTheirLife == Spec => OnlyOwnRetryApplied
<1> DEFINE Own == \A k \in Key :
             LET req == Head(queue) IN
             queue # <<>> /\ queue' = Tail(queue) /\ req.kind = "retry" /\ req.key = k
               /\ states'[k] # states[k]
             => Known(k) /\ states[k].pending = req.id
<1>1. TitleInv /\ [Next]_vars => [Own]_vars
  <2> SUFFICES ASSUME TitleInv, Next, NEW k \in Key, queue # <<>>, queue' = Tail(queue),
                      Head(queue).kind = "retry", Head(queue).key = k, states'[k] # states[k]
               PROVE  Known(k) /\ states[k].pending = Head(queue).id
    OBVIOUS
  <2>1. Len(Tail(queue)) # Len(queue) /\ Tail(queue) # queue
    BY DEF TitleInv, TitleTypes
  <2>2. Process
    <3>1. CASE Surroundings
      BY <2>1, <3>1 DEF Surroundings, Enqueue, TryForget, Offer, Cooled, Cancel
    <3>2. CASE Retry
      BY <3>2 DEF Retry, RetryStep, Fire, Deliver, Abandon
    <3>3. CASE Worker
      BY <2>1, <3>3 DEF Worker, Forget, DropStale, SkipSaved, Found, NotFoundLive, Exhausted,
         Schedule, Exit
    <3> QED
      BY <3>1, <3>2, <3>3 DEF Next
  <2>3. Ready /\ ~Stale(Head(queue))
    BY <2>2 DEF Process
  <2> QED
    BY <2>3, ProcessFinds
<1> QED
  BY <1>1, TitleInvariant, PTL DEF Spec, OnlyOwnRetryApplied
==============================================================================
