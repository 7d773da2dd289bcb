---------------------------- MODULE TokenSource -----------------------------
(***************************************************************************)
(* internal/forward/token.go: the telemetry token that the forwarder's     *)
(* workers and the daemon's warm-up share.                                 *)
(*                                                                         *)
(* One mutex guards the cached token, and is held while the installation's *)
(* credential is exchanged for a new one.  The exchange itself cannot be   *)
(* cancelled: it runs in a goroutine of its own, and whoever waits for it  *)
(* may leave before it ends.                                               *)
(***************************************************************************)
EXTENDS Naturals, FiniteSets

CONSTANTS
    Users,         \* the forwarder's workers and the warm-up
    MaxRuns,       \* bound: exchanges
    MaxRevoked     \* bound: tokens that the server stops accepting

ASSUME TokenAssumption == MaxRuns \in Nat /\ MaxRevoked \in Nat

VARIABLES
    cached,    \* telemetryTokenSource.token
    holder,    \* who holds its mutex: a set with at most one member
    at,        \* what each user does
    using,     \* the token a user has in its hands, or the exchange it waits for
    runs,      \* the exchanges, by number: "running", "left" when nobody waits
               \* any more, "answered", "taken" or "over"
    answer,    \* the token that an exchange brought, or NoToken for an error
    revoked,   \* tokens that the server no longer accepts
    refused    \* history: tokens that the server refused to some user

tokenVars == <<cached, holder, at, using, runs, answer, revoked, refused>>

NoToken == 0

Made == DOMAIN runs
LastRun == Cardinality(Made)

TokenInit ==
    /\ cached = NoToken
    /\ holder = {}
    /\ at = [u \in Users |-> "idle"]
    /\ using = [u \in Users |-> NoToken]
    /\ runs = [r \in {} |-> "over"]
    /\ answer = [r \in {} |-> NoToken]
    /\ revoked = {}
    /\ refused = {}

\* Token: a cached one is returned, whatever the context says.
TakeCached(u) ==
    /\ at[u] = "idle"
    /\ holder = {}
    /\ cached # NoToken
    /\ using' = [using EXCEPT ![u] = cached]
    /\ at' = [at EXCEPT ![u] = "send"]
    /\ UNCHANGED <<cached, holder, runs, answer, revoked, refused>>

\* exchange: the goroutine starts; the mutex stays with the caller.
StartExchange(u) ==
    /\ at[u] = "idle"
    /\ holder = {}
    /\ cached = NoToken
    /\ LastRun < MaxRuns
    /\ holder' = {u}
    /\ runs' = [r \in Made \cup {LastRun + 1} |-> IF r \in Made THEN runs[r] ELSE "running"]
    /\ answer' = [r \in DOMAIN runs' |-> IF r \in Made THEN answer[r] ELSE NoToken]
    /\ at' = [at EXCEPT ![u] = "wait"]
    /\ using' = [using EXCEPT ![u] = LastRun + 1]
    /\ UNCHANGED <<cached, revoked, refused>>

\* The server answers: a token of its own for each exchange, or an error.  The
\* channel has room for the answer of an exchange that nobody waits for.
ServerAnswers(r) ==
    /\ runs[r] \in {"running", "left"}
    /\ runs' = [runs EXCEPT ![r] = IF @ = "left" THEN "over" ELSE "answered"]
    /\ \E t \in {r, NoToken} : answer' = [answer EXCEPT ![r] = t]
    /\ UNCHANGED <<cached, holder, at, using, revoked, refused>>

TakeAnswer(u) ==
    /\ at[u] = "wait"
    /\ runs[using[u]] = "answered"
    /\ LET t == answer[using[u]] IN
       /\ cached' = IF t # NoToken THEN t ELSE cached
       /\ using' = [using EXCEPT ![u] = t]
       /\ at' = [at EXCEPT ![u] = IF t # NoToken THEN "send" ELSE "idle"]
    /\ holder' = holder \ {u}
    /\ runs' = [runs EXCEPT ![using[u]] = "taken"]
    /\ UNCHANGED <<answer, revoked, refused>>

\* The timer or the context: the answer is for nobody.
GiveUpWaiting(u) ==
    /\ at[u] = "wait"
    /\ holder' = holder \ {u}
    /\ runs' = [runs EXCEPT ![using[u]] = IF @ = "running" THEN "left" ELSE "over"]
    /\ at' = [at EXCEPT ![u] = "idle"]
    /\ using' = [using EXCEPT ![u] = NoToken]
    /\ UNCHANGED <<cached, answer, revoked, refused>>

\* The request with the token is answered.
Accepted(u) ==
    /\ at[u] = "send"
    /\ using[u] \notin revoked
    /\ at' = [at EXCEPT ![u] = "idle"]
    /\ using' = [using EXCEPT ![u] = NoToken]
    /\ UNCHANGED <<cached, holder, runs, answer, revoked, refused>>

Refused(u) ==
    /\ at[u] = "send"
    /\ using[u] \in revoked
    /\ refused' = refused \cup {using[u]}
    /\ at' = [at EXCEPT ![u] = "refused"]
    /\ UNCHANGED <<cached, holder, using, runs, answer, revoked>>

\* Mutant: whatever is cached is dropped.
InvalidateAny(u) ==
    /\ at[u] = "refused"
    /\ holder = {}
    /\ cached' = NoToken
    /\ at' = [at EXCEPT ![u] = "idle"]
    /\ using' = [using EXCEPT ![u] = NoToken]
    /\ UNCHANGED <<holder, runs, answer, revoked, refused>>

Invalidate(u) ==
    /\ at[u] = "refused"
    /\ holder = {}
    /\ cached' = IF cached = using[u] THEN NoToken ELSE cached
    /\ at' = [at EXCEPT ![u] = "idle"]
    /\ using' = [using EXCEPT ![u] = NoToken]
    /\ UNCHANGED <<holder, runs, answer, revoked, refused>>

Revoke(t) ==
    /\ t \in Made /\ t \notin revoked
    /\ answer[t] = t
    /\ Cardinality(revoked) < MaxRevoked
    /\ revoked' = revoked \cup {t}
    /\ UNCHANGED <<cached, holder, at, using, runs, answer, refused>>

TokenNext ==
    \/ \E u \in Users :
         \/ TakeCached(u) \/ StartExchange(u) \/ TakeAnswer(u) \/ GiveUpWaiting(u)
         \/ Accepted(u) \/ Refused(u) \/ Invalidate(u)
    \/ \E r \in Made : ServerAnswers(r) \/ Revoke(r)

TokenSpec == TokenInit /\ [][TokenNext]_tokenVars

-----------------------------------------------------------------------------
(* Properties *)

\* There is a new exchange only when the one before it came to nothing or the
\* token it brought has been refused: however many users hold a refused token,
\* and in whatever order they report it, it is exchanged once, and a report that
\* comes late never throws the new token away.
OneExchangeEach ==
    \A r \in Made \ {LastRun} :
        /\ runs[r] \in {"left", "over", "taken"}
        /\ runs[r] = "taken" /\ answer[r] # NoToken => r \in refused
=============================================================================
