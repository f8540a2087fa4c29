---------------------------- MODULE RequestPipe ----------------------------
(***************************************************************************)
(* What subscribe(), unsubscribe() and ping() of a WebSocket client promise *)
(* about the requests they accept: a first-in first-out pipe to the server *)
(* that drops a request only while the connection is down.                 *)
(*                                                                         *)
(* What the server makes of the requests is a parameter: WebSocketClient   *)
(* takes the list of them, SubscriptionSession the subscriptions.          *)
(***************************************************************************)
EXTENDS Naturals, Sequences

CONSTANTS
    Requests,
    Nothing,       \* the server before the first request
    Take(_, _),    \* the server, once it has taken one more request
    Renew(_)       \* the server, after a change of the connection

VARIABLES
    pending,    \* accepted, not yet sent
    server,     \* what the requests sent on a healthy connection have made
    linkUp      \* the connection is healthy

pipeVars == <<pending, server, linkUp>>

Init == pending = <<>> /\ server = Nothing /\ linkUp = FALSE

Accept ==
    /\ pending' # <<>>
    /\ LET r == pending'[Len(pending')]
       IN  r \in Requests /\ pending' = Append(pending, r)
    /\ UNCHANGED <<server, linkUp>>

Send ==
    /\ linkUp /\ pending # <<>>
    /\ server' = Take(server, Head(pending))
    /\ pending' = Tail(pending)
    /\ UNCHANGED linkUp

Lose ==
    /\ ~linkUp /\ pending # <<>>
    /\ pending' = Tail(pending)
    /\ UNCHANGED <<server, linkUp>>

\* A connection is opened, lost, or replaced by another.
LinkChange == linkUp' \in BOOLEAN /\ server' = Renew(server) /\ UNCHANGED pending

Next == Accept \/ Send \/ Lose \/ LinkChange

Spec == Init /\ [][Next]_pipeVars

=============================================================================
