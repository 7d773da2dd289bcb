----------------------------- MODULE DedupWindow -----------------------------
(***************************************************************************)
(* The duplicate window of internal/daemon/dedup.go: a ring of the keys    *)
(* that passed and a set to look them up in.  A full ring overwrites its   *)
(* oldest key, and next is the slot that holds it.  add lets an empty key  *)
(* pass without remembering it; none is made, since DedupKey is a hash.    *)
(***************************************************************************)
EXTENDS Naturals, Sequences

CONSTANT WindowSize  \* dedupCapacity

ASSUME WindowAssumption == WindowSize \in Nat \ {0}

EmptyWindow == [seen |-> {}, ring |-> <<>>, next |-> 1]

\* The event is turned away.
InWindow(w, key) == key \in w.seen

\* What add leaves behind for a key that is not in the window.
Remember(w, key) ==
    IF Len(w.ring) < WindowSize
    THEN [w EXCEPT !.ring = Append(@, key), !.seen = @ \cup {key}]
    ELSE [ring |-> [w.ring EXCEPT ![w.next] = key],
          seen |-> (w.seen \ {w.ring[w.next]}) \cup {key},
          next |-> (w.next % WindowSize) + 1]
=============================================================================
