------------------------- MODULE BestEffortDelivery -------------------------
(***************************************************************************)
(* What the forwarder promises to the receiver, without threads, locks,    *)
(* retries or a network: a bounded first-in first-out line of payloads.    *)
(* A payload that is offered is either refused on the spot or admitted,    *)
(* and an admitted payload leaves the line exactly once, in the order of   *)
(* admission, with exactly one verdict.  Loss is allowed, a second verdict *)
(* or an overtaking is not, and the stop is no cause of a loss unless it   *)
(* ran out of time or nobody ever delivered.                               *)
(***************************************************************************)
EXTENDS Naturals, Sequences

CONSTANTS
    Payload,    \* the payloads the receiver offers, each of them once
    QueueSize   \* the items the line holds beside the one being delivered

VARIABLES
    pending,    \* the admitted payloads without a verdict, oldest first
    fate,       \* what became of every payload
    open,       \* FALSE once the line takes no more payloads
    excused     \* the stop may drop what the line holds

vars == <<pending, fate, open, excused>>

Refusal == {"empty", "disabled", "closed", "full"}
Verdict == {"sent", "scrub", "discarded", "failed", "shutdown"}
Fate    == {"new", "pending"} \cup Refusal \cup Verdict

Init ==
    /\ pending = <<>>
    /\ fate = [p \in Payload |-> "new"]
    /\ open = TRUE
    /\ excused = TRUE

Refuse(p) ==
    /\ fate[p] = "new"
    /\ \E r \in Refusal : fate' = [fate EXCEPT ![p] = r]
    /\ UNCHANGED <<pending, open, excused>>

Admit(p) ==
    /\ open
    /\ fate[p] = "new"
    /\ Len(pending) <= QueueSize
    /\ pending' = Append(pending, p)
    /\ fate' = [fate EXCEPT ![p] = "pending"]
    /\ UNCHANGED <<open, excused>>

Settle ==
    /\ pending # <<>>
    /\ \E v \in Verdict :
          /\ v = "shutdown" => excused
          /\ fate' = [fate EXCEPT ![Head(pending)] = v]
    /\ pending' = Tail(pending)
    /\ UNCHANGED <<open, excused>>

Close ==
    /\ open
    /\ open' = FALSE
    /\ UNCHANGED <<pending, fate, excused>>

\* Somebody delivers what the line holds.
Begin ==
    /\ open
    /\ excused' = FALSE
    /\ UNCHANGED <<pending, fate, open>>

\* The stop has run out of time.
Expire ==
    /\ ~open
    /\ excused' = TRUE
    /\ UNCHANGED <<pending, fate, open>>

\* Only a closed line may give up on everything it still holds.
Abandon ==
    /\ ~open
    /\ excused
    /\ pending # <<>>
    /\ fate' = [p \in Payload |->
                  IF fate[p] = "pending" THEN "shutdown" ELSE fate[p]]
    /\ pending' = <<>>
    /\ UNCHANGED <<open, excused>>

Next ==
    \/ \E p \in Payload : Refuse(p) \/ Admit(p)
    \/ Settle
    \/ Begin
    \/ Close
    \/ Expire
    \/ Abandon

Spec == Init /\ [][Next]_vars
=============================================================================
