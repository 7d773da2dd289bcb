------------------------------ MODULE Receiver ------------------------------
(***************************************************************************)
(* The local OTLP receiver, internal/receiver/receiver.go and server.go:   *)
(* HTTP handlers put bodies into a bounded channel without ever waiting,   *)
(* and workers take them out, decode them and pass them to the sink.       *)
(*                                                                         *)
(* A body is a name; why one is turned away is left out, and so are the    *)
(* counters, the two listeners behind one server and the local API.        *)
(* The server's Shutdown is driven by Daemon, the only caller it has.      *)
(***************************************************************************)
EXTENDS Naturals, Sequences

CONSTANTS
    Bodies,            \* ingest requests, each made at most once
    NoBody,
    ReceiverWorkers,   \* Options.Workers goroutines
    ReceiverQueueSize  \* Options.QueueSize

\* normalized puts defaults where the options are not positive.
ASSUME ReceiverAssumption ==
    /\ NoBody \notin Bodies
    /\ ReceiverWorkers # {}
    /\ ReceiverQueueSize \in Nat \ {0}

VARIABLES
    http,     \* the listeners and handlers of the http.Server
    request,  \* per body: how far its handler is, then its fate
    rqueue,   \* the channel, which holds bodies
    rclosed,  \* Close has closed the channel
    rworker   \* per worker: where it stands and its body

receiverVars == <<http, request, rqueue, rclosed, rworker>>

At(place, b) == [pc |-> place, body |-> b]

\* Before New: no listener and no goroutine.
ReceiverInit ==
    /\ http = "none"
    /\ request = [b \in Bodies |-> "none"]
    /\ rqueue = <<>>
    /\ rclosed = FALSE
    /\ rworker = [w \in ReceiverWorkers |-> At("none", NoBody)]

\* Start: New starts the workers, then the listeners are bound and served.
Listen ==
    /\ http' = "open"
    /\ rworker' = [w \in ReceiverWorkers |-> At("idle", NoBody)]
    /\ UNCHANGED <<request, rqueue, rclosed>>

\* Start when no port can be bound: Close waits for the workers that New has
\* started, which find a closed and empty channel.
ListenFails ==
    /\ rclosed' = TRUE
    /\ rworker' = [w \in ReceiverWorkers |-> At("gone", NoBody)]
    /\ UNCHANGED <<http, request, rqueue>>

-----------------------------------------------------------------------------
(* A handler *)

Arrive(b) ==
    /\ http = "open"
    /\ request[b] = "none"
    /\ request' = [request EXCEPT ![b] = "reading"]
    /\ UNCHANGED <<http, rqueue, rclosed, rworker>>

\* A wrong path, method, token or media type, a body that cannot be read or is
\* too large or not framed; or an empty one, which is a success at once.
TurnAway(b) ==
    /\ request[b] = "reading"
    /\ request' = [request EXCEPT ![b] = "turned away"]
    /\ UNCHANGED <<http, rqueue, rclosed, rworker>>

\* enqueue holds the read lock of mu, so Close is before it or after it.
Accept(b) ==
    /\ request[b] = "reading"
    /\ ~rclosed
    /\ Len(rqueue) < ReceiverQueueSize
    /\ rqueue' = Append(rqueue, b)
    /\ request' = [request EXCEPT ![b] = "accepted"]
    /\ UNCHANGED <<http, rclosed, rworker>>

\* A full or closed channel: a success with a warning, and the body is lost.
Drop(b) ==
    /\ request[b] = "reading"
    /\ rclosed \/ Len(rqueue) >= ReceiverQueueSize
    /\ request' = [request EXCEPT ![b] = "dropped"]
    /\ UNCHANGED <<http, rqueue, rclosed, rworker>>

Handler(b) == Arrive(b) \/ TurnAway(b) \/ Accept(b) \/ Drop(b)

-----------------------------------------------------------------------------
(* A worker *)

TakeBody(w) ==
    /\ rworker[w].pc = "idle"
    /\ rqueue # <<>>
    /\ rqueue' = Tail(rqueue)
    /\ rworker' = [rworker EXCEPT ![w] = At("decoding", Head(rqueue))]
    /\ UNCHANGED <<http, request, rclosed>>

DecodeFails(w) ==
    /\ rworker[w].pc = "decoding"
    /\ request' = [request EXCEPT ![rworker[w].body] = "undecodable"]
    /\ rworker' = [rworker EXCEPT ![w] = At("idle", NoBody)]
    /\ UNCHANGED <<http, rqueue, rclosed>>

Decoded(w) ==
    /\ rworker[w].pc = "decoding"
    /\ rworker' = [rworker EXCEPT ![w].pc = "consuming"]
    /\ UNCHANGED <<http, request, rqueue, rclosed>>

\* The sink's Consume comes back with the batch in the pipeline's channel.
HandOver(w) ==
    /\ rworker[w].pc = "consuming"
    /\ request' = [request EXCEPT ![rworker[w].body] = "handed over"]
    /\ rworker' = [rworker EXCEPT ![w] = At("idle", NoBody)]
    /\ UNCHANGED <<http, rqueue, rclosed>>

\* The range over a closed channel ends once the channel is empty.
WorkerLeaves(w) ==
    /\ rworker[w].pc = "idle"
    /\ rclosed
    /\ rqueue = <<>>
    /\ rworker' = [rworker EXCEPT ![w] = At("gone", NoBody)]
    /\ UNCHANGED <<http, request, rqueue, rclosed>>

WorkersGone == \A w \in ReceiverWorkers : rworker[w].pc \in {"none", "gone"}

-----------------------------------------------------------------------------
(* Server.Shutdown *)

\* http.Shutdown closes the listeners; handlers go on.
CloseListeners ==
    /\ http' = "draining"
    /\ UNCHANGED <<request, rqueue, rclosed, rworker>>

\* http.Shutdown comes back, with all handlers or without; then Close.
CloseQueue ==
    /\ http' = "closed"
    /\ rclosed' = TRUE
    /\ UNCHANGED <<request, rqueue, rworker>>

-----------------------------------------------------------------------------
Fates == {"none", "reading", "turned away", "accepted", "dropped", "undecodable",
          "handed over"}

ReceiverType ==
    /\ http \in {"none", "open", "draining", "closed"}
    /\ request \in [Bodies -> Fates]
    /\ rqueue \in Seq(Bodies)
    /\ rclosed \in BOOLEAN
    /\ rworker \in [ReceiverWorkers ->
                       [pc : {"none", "idle", "decoding", "consuming", "gone"},
                        body : Bodies \cup {NoBody}]]
=============================================================================
