-------------------------- MODULE SpotTradeWebSocket --------------------------
(***************************************************************************)
(* The calls of SpotTradeWebSocket (src/spot_trade_websocket.cpp), the     *)
(* user data stream: updates of the orders, the account and the deals of   *)
(* the listen key the connection is opened with.  SpotWebSocket has the    *)
(* same subscribe, unsubscribe and ping.                                   *)
(***************************************************************************)
EXTENDS SubscriptionSession

CONSTANTS
    Keys,     \* listen keys
    NoKey     \* the empty string

ASSUME KeysAssumption == NoKey \notin Keys

VARIABLE path    \* impl_->path: the key it ends with; handshake() sends it

vars == <<sessionVars, path>>

Channels == {"orders", "account", "deals"}

\* Well typed: an open connection was opened with a listen key.
TypeOK ==
    /\ SessionTypeOK(Channels)
    /\ path \in IF linkUp THEN Keys ELSE Keys \cup {NoKey}

TradeInit == Init /\ path = NoKey

AnyKey(listenKey) == TRUE    \* mutant of KeyGiven: the test is left out
KeyGiven(listenKey) == listenKey # NoKey

\* An empty key returns false and changes nothing, the connection included.
connect(listenKey) ==
    /\ KeyGiven(listenKey)
    /\ Connect
    /\ path' = listenKey

\* A vector of channels is one request.
subscribe(channels) == Ask("sub", channels, channels) /\ UNCHANGED path

\* Mutant of unsubscribe: SUBSCRIPTION in place of UNSUBSCRIPTION.
unsubscribeAsSub(channels) == Ask("sub", channels, {}) /\ UNCHANGED path
unsubscribe(channels) == Ask("unsub", channels, channels) /\ UNCHANGED path

subscribeOrders == subscribe({"orders"})
subscribeAccount == subscribe({"account"})
subscribeDeals == subscribe({"deals"})

ping == Ask("ping", {}, {}) /\ UNCHANGED path

\* disconnect(), and every other end of a connection.
disconnect == LinkDown /\ UNCHANGED path
\* One round of the flush in run().
run == Flush /\ UNCHANGED path

Next ==
    \/ \E k \in Keys \cup {NoKey} : connect(k)
    \/ \E channels \in SUBSET Channels : subscribe(channels) \/ unsubscribe(channels)
    \/ subscribeOrders \/ subscribeAccount \/ subscribeDeals \/ ping
    \/ disconnect \/ run

Spec == TradeInit /\ [][Next]_vars

-----------------------------------------------------------------------------
(* Properties. *)

\* The calls use the request pipe that the engine provides, and nothing else:
\* one request for a vector of channels, at the end of the queue.  (subscribe,
\* unsubscribe, ping, connect, run)
QueueIsPipe == Pipe(Channels)!Init /\ [][Pipe(Channels)!Next]_<<pending, subs, linkUp>>

=============================================================================
