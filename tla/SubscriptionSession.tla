------------------------- MODULE SubscriptionSession -------------------------
(***************************************************************************)
(* What an application is subscribed to, on top of the request pipe that   *)
(* WebSocketClient implements (RequestPipe): requests are sent in order,   *)
(* once, and dropped only while the connection is down.  The clients keep  *)
(* the queue across connections and remember no subscription; the server   *)
(* forgets a connection's subscriptions with the connection.  The queue    *)
(* here is that pipe, with the subscriptions as the state of the server.   *)
(*                                                                         *)
(* FuturesWebSocket and SpotTradeWebSocket extend this module with their   *)
(* calls.                                                                  *)
(***************************************************************************)
EXTENDS Naturals, Sequences, SequencesExt

CONSTANTS
    MaxQueue,      \* bound: requests in the queue
    MaxConnects    \* bound: connections opened

ASSUME SessionAssumption == MaxQueue \in Nat /\ MaxConnects \in Nat

VARIABLES
    linkUp,     \* the connection is healthy
    pending,    \* queued requests: [verb, topics the server takes them for]
    subs,       \* the server: subscriptions of this connection
    wanted,     \* history: what the calls since connect() ask for
    leftover,   \* history: subscriptions queued before this connection
    connects    \* history: connections opened

sessionVars == <<linkUp, pending, subs, wanted, leftover, connects>>

Verbs == {"sub", "unsub", "ping"}

\* Well typed: a queued request is for topics that exist.
SessionTypeOK(Topics) ==
    /\ linkUp \in BOOLEAN
    /\ pending \in Seq([verb : Verbs, topics : SUBSET Topics])
    /\ subs \subseteq Topics /\ wanted \subseteq Topics /\ leftover \subseteq Topics
    /\ connects \in 0..MaxConnects

Init ==
    /\ linkUp = FALSE /\ pending = <<>> /\ connects = 0
    /\ subs = {} /\ wanted = {} /\ leftover = {}

\* How a request changes a set of subscriptions.
After(verb, topics, S) ==
    CASE verb = "sub" -> S \cup topics
      [] verb = "unsub" -> S \ topics
      [] OTHER -> S

\* A call whose is_open() test has passed, perhaps on an earlier connection,
\* queues a request for the topics and means the topics of intent.
Ask(verb, topics, intent) ==
    /\ connects > 0
    /\ Len(pending) < MaxQueue
    /\ pending' = Append(pending, [verb |-> verb, topics |-> topics])
    /\ wanted' = After(verb, intent, wanted)
    /\ UNCHANGED <<linkUp, subs, leftover, connects>>

\* connect(): a new connection, or none.  The queue stays as it is.
Connect ==
    /\ \/ linkUp' = TRUE /\ connects < MaxConnects /\ connects' = connects + 1
       \/ linkUp' = FALSE /\ UNCHANGED connects
    /\ subs' = {} /\ wanted' = {}
    /\ leftover' = UNION {q.topics : q \in {p \in ToSet(pending) : p.verb = "sub"}}
    /\ UNCHANGED pending

\* disconnect(), a close by the server, a failure of the network.
LinkDown ==
    /\ linkUp
    /\ linkUp' = FALSE
    /\ subs' = {}
    /\ UNCHANGED <<pending, wanted, leftover, connects>>

Newest == Len(pending)    \* mutant of First: a stack in place of the queue
First == 1

\* The loop takes the first request; write() hands it to the server or fails.
Flush ==
    /\ pending # <<>>
    /\ LET q == pending[First]
       IN  subs' = IF linkUp THEN After(q.verb, q.topics, subs) ELSE subs
    /\ pending' = RemoveAt(pending, First)
    /\ UNCHANGED <<linkUp, wanted, leftover, connects>>

SessionStep == Connect \/ LinkDown \/ Flush

-----------------------------------------------------------------------------
(* Properties. *)

Drained == linkUp /\ pending = <<>>

\* Once the queue is sent, the server holds every subscription asked for on
\* this connection: no earlier request, left in the queue, can undo one.
NothingMissing == Drained => wanted \subseteq subs

\* What it holds beyond those was queued before this connection was opened.
ExtrasAreLeftovers == Drained => subs \subseteq wanted \cup leftover

\* Queue, connection and server are a request pipe, whatever is called: each
\* request accepted reaches the server in its turn and once, on the connection
\* that is up by then, or none is.
AfterRequest(S, q) == After(q.verb, q.topics, S)
Forgotten(S) == {}
Pipe(Topics) == INSTANCE RequestPipe WITH
                    Requests <- [verb : Verbs, topics : SUBSET Topics], server <- subs,
                    Nothing <- {}, Take <- AfterRequest, Renew <- Forgotten

=============================================================================
