--------------------------- MODULE LimitRefresher ---------------------------
(***************************************************************************)
(* internal/vendorlimit/refresh.go: the daemon's timer and the user's      *)
(* button ask for the vendors' limits.  Whoever comes while a refresh is   *)
(* under way waits for that one; the first runs it, with its own context,  *)
(* vendor by vendor, and stores what it gets.                              *)
(***************************************************************************)
EXTENDS Naturals

CONSTANTS
    Callers,      \* calls of the timer and of the button
    Timer,        \* the ones that are the timer's: RefreshAuto
    LimitVendors, \* SupportedVendors, in order
    Cooldown,     \* DefaultManualCooldown, in ticks
    Timeout,      \* DefaultRefreshTimeout, in ticks
    MaxClock      \* bound: ticks

ASSUME LimitAssumption ==
    /\ Timer \subseteq Callers /\ "none" \notin Callers
    /\ {LimitVendors, Cooldown, Timeout, MaxClock} \subseteq Nat

VARIABLES
    clock,       \* the time
    flight,      \* Refresher.inFlight: who leads it, since when, whether a click
                 \* has joined it, the next vendor and the first error
    lastManual,  \* when a refresh with a click in it last succeeded, or Never
    call,        \* each call: "idle", "lead", "join", "cooled", or its result
    asked,       \* when each call was made
    gone,        \* calls whose context is cancelled
    row          \* vendor_limits: when each vendor was last checked, or Never

limitVars == <<clock, flight, lastManual, call, asked, gone, row>>

Never == MaxClock + 1
NoFlight == [leader |-> "none"]
InFlight == flight.leader # "none"
Ended == {"ok", "failed", "canceled"}

LimitInit ==
    /\ clock = 0
    /\ flight = NoFlight
    /\ lastManual = Never
    /\ call = [c \in Callers |-> "idle"]
    /\ asked = [c \in Callers |-> 0]
    /\ gone = {}
    /\ row = [v \in 1..LimitVendors |-> Never]

\* A refresh ends within its timeout; a vendor that has not answered by then is
\* stored as unavailable.
Tick ==
    /\ clock < MaxClock
    /\ InFlight => clock < flight.since + Timeout
    /\ clock' = clock + 1
    /\ UNCHANGED <<flight, lastManual, call, asked, gone, row>>

Manual(c) == c \notin Timer

Asks(c) ==
    /\ call[c] = "idle" \/ call[c] \in Ended
    /\ asked' = [asked EXCEPT ![c] = clock]
    /\ gone' = gone \ {c}

Join(c) ==
    /\ Asks(c)
    /\ InFlight
    /\ flight' = [flight EXCEPT !.manual = @ \/ Manual(c)]
    /\ call' = [call EXCEPT ![c] = "join"]
    /\ UNCHANGED <<clock, lastManual, row>>

CoolingDown == lastManual # Never /\ clock < lastManual + Cooldown

\* A click that comes too soon is answered with what is stored.
TooSoon(c) ==
    /\ Asks(c)
    /\ ~InFlight
    /\ Manual(c) /\ CoolingDown
    /\ call' = [call EXCEPT ![c] = "ok"]
    /\ UNCHANGED <<clock, flight, lastManual, row>>

Lead(c) ==
    /\ Asks(c)
    /\ ~InFlight
    /\ ~(Manual(c) /\ CoolingDown)
    /\ flight' = [leader |-> c, since |-> clock, manual |-> Manual(c), next |-> 1, err |-> FALSE]
    /\ call' = [call EXCEPT ![c] = "lead"]
    /\ UNCHANGED <<clock, lastManual, row>>

\* A vendor answered, or did not and is unavailable; the row says when the
\* refresh began.  A row that cannot be written fails the refresh, which goes on.
Collect(c) ==
    /\ call[c] = "lead"
    /\ flight.next <= LimitVendors
    /\ c \notin gone
    /\ \/ /\ row' = [row EXCEPT ![flight.next] = flight.since]
          /\ flight' = [flight EXCEPT !.next = @ + 1]
       \/ /\ flight' = [flight EXCEPT !.next = @ + 1, !.err = TRUE]
          /\ UNCHANGED row
    /\ UNCHANGED <<clock, lastManual, call, asked, gone>>

\* The leader's result is everybody's.
Finish(result) ==
    /\ flight' = NoFlight
    /\ call' = [c \in Callers |-> IF call[c] \in {"lead", "join"} THEN result ELSE call[c]]

\* The leader is cancelled: what the vendor answered last is not stored.
Canceled(c) ==
    /\ call[c] = "lead"
    /\ flight.next <= LimitVendors
    /\ c \in gone
    /\ Finish("canceled")
    /\ UNCHANGED <<clock, lastManual, asked, gone, row>>

\* Mutant: a refresh that failed starts the cooldown too.
CompleteAlways(c) ==
    /\ call[c] = "lead"
    /\ flight.next > LimitVendors
    /\ lastManual' = IF flight.manual THEN clock ELSE lastManual
    /\ Finish(IF flight.err THEN "failed" ELSE "ok")
    /\ UNCHANGED <<clock, asked, gone, row>>

Complete(c) ==
    /\ call[c] = "lead"
    /\ flight.next > LimitVendors
    /\ lastManual' = IF flight.manual /\ ~flight.err THEN clock ELSE lastManual
    /\ Finish(IF flight.err THEN "failed" ELSE "ok")
    /\ UNCHANGED <<clock, asked, gone, row>>

\* A context is cancelled; a call that waits for another one's refresh leaves.
Hangup(c) ==
    /\ call[c] \in {"lead", "join"}
    /\ c \notin gone
    /\ gone' = gone \cup {c}
    /\ call' = [call EXCEPT ![c] = IF @ = "join" THEN "canceled" ELSE @]
    /\ UNCHANGED <<clock, flight, lastManual, asked, row>>

LimitNext ==
    \/ Tick
    \/ \E c \in Callers :
         \/ Join(c) \/ TooSoon(c) \/ Lead(c) \/ Collect(c) \/ Canceled(c) \/ Complete(c) \/ Hangup(c)

LimitSpec == LimitInit /\ [][LimitNext]_limitVars

-----------------------------------------------------------------------------
(* Properties *)

\* Whoever is told that the limits are refreshed finds every vendor's row, and
\* none older than a refresh and a cooldown: a click that is answered without
\* asking the vendors, or that joined a refresh of the timer, included.
FreshWhenTold ==
    [][\A c \in Callers : call'[c] = "ok" /\ call[c] # "ok" =>
         \A v \in 1..LimitVendors :
            row'[v] # Never /\ asked'[c] <= row'[v] + Timeout + Cooldown]_limitVars
=============================================================================
