---------------------- MODULE SpotTradeWebSocketProofs ----------------------
(***************************************************************************)
(* Proofs about SpotTradeWebSocket for any listen keys and bounds.         *)
(***************************************************************************)
EXTENDS SpotTradeWebSocket, SubscriptionSessionProofs

\* The inductive invariant.
TradeInv == TypeOK /\ SessionInv

LEMMA PendingIsTyped == TypeOK => pending \in Seq(RequestsOver(Channels))
BY DEF TypeOK, SessionTypeOK, RequestsOver

LEMMA InitTradeInv == TradeInit => TradeInv
<1> SUFFICES ASSUME TradeInit PROVE TradeInv
  OBVIOUS
<1>1. SessionTypeOK(Channels) /\ SessionInv
  BY InitSessionTypeOK, InitSession DEF TradeInit
<1> QED
  BY <1>1 DEF TradeInit, TradeInv, TypeOK, Init

\* subscribe(), unsubscribe() and ping() queue one request.
LEMMA RequestKeepsTradeInv ==
  ASSUME TradeInv, NEW verb \in Verbs, NEW channels \in SUBSET Channels,
         Ask(verb, channels, channels), UNCHANGED path
  PROVE  TradeInv'
<1>1. SessionTypeOK(Channels)'
  BY AskTypeOK DEF TradeInv, TypeOK
<1>2. SessionInv'
  BY AskKeeps, PendingIsTyped DEF TradeInv
<1>3. linkUp' = linkUp
  BY DEF Ask
<1> QED
  BY <1>1, <1>2, <1>3 DEF TradeInv, TypeOK

\* connect() opens a connection with a listen key only.
LEMMA ConnectKeepsTradeInv ==
  ASSUME TradeInv, NEW k \in Keys \cup {NoKey}, connect(k)
  PROVE  TradeInv'
<1>1. SessionTypeOK(Channels)'
  BY SessionStepTypeOK DEF TradeInv, TypeOK, connect, SessionStep
<1>2. SessionInv'
  BY ConnectKeeps, PendingIsTyped DEF TradeInv, connect
<1>3. k \in Keys /\ linkUp' \in BOOLEAN
  BY DEF connect, KeyGiven, Connect
<1> QED
  BY <1>1, <1>2, <1>3 DEF TradeInv, TypeOK, connect

\* The end of a connection, and the loop's writes.
LEMMA SessionKeepsTradeInv ==
  ASSUME TradeInv, disconnect \/ run
  PROVE  TradeInv'
<1>1. SessionStep /\ UNCHANGED path
  BY DEF disconnect, run, SessionStep
<1>2. SessionTypeOK(Channels)'
  BY <1>1, SessionStepTypeOK DEF TradeInv, TypeOK
<1>3. SessionInv'
  BY <1>1, SessionStepKeeps, PendingIsTyped DEF TradeInv
<1>4. linkUp' => linkUp
  BY DEF disconnect, run, LinkDown, Flush
<1> QED
  BY <1>1, <1>2, <1>3, <1>4 DEF TradeInv, TypeOK

LEMMA NextTradeInv == TradeInv /\ [Next]_vars => TradeInv'
<1> SUFFICES ASSUME TradeInv, [Next]_vars PROVE TradeInv'
  OBVIOUS
<1>1. CASE \E k \in Keys \cup {NoKey} : connect(k)
  BY <1>1, ConnectKeepsTradeInv
<1>2. CASE \E channels \in SUBSET Channels : subscribe(channels) \/ unsubscribe(channels)
  BY <1>2, RequestKeepsTradeInv DEF subscribe, unsubscribe, Verbs
<1>3. CASE subscribeOrders \/ subscribeAccount \/ subscribeDeals
  BY <1>3, RequestKeepsTradeInv
  DEF subscribeOrders, subscribeAccount, subscribeDeals, subscribe, Verbs, Channels
<1>4. CASE ping
  BY <1>4, RequestKeepsTradeInv DEF ping, Verbs
<1>5. CASE disconnect \/ run
  BY <1>5, SessionKeepsTradeInv
<1>6. CASE UNCHANGED vars
  BY <1>6, SessionStutter
  DEF TradeInv, TypeOK, SessionTypeOK, vars, sessionVars
<1> QED
  BY <1>1, <1>2, <1>3, <1>4, <1>5, <1>6 DEF Next

THEOREM TradeInvariant == Spec => []TradeInv
<1>1. TradeInit => TradeInv
  BY InitTradeInv
<1>2. TradeInv /\ [Next]_vars => TradeInv'
  BY NextTradeInv
<1> QED
  BY <1>1, <1>2, PTL DEF Spec

\* The user data stream's state stays well typed; an open connection was
\* opened with a listen key.
THEOREM TradeTypes == Spec => []TypeOK
<1>1. TradeInv => TypeOK
  BY DEF TradeInv
<1> QED
  BY <1>1, TradeInvariant, PTL

\* Once the queue is sent, the server holds every channel asked for on this
\* connection.
THEOREM TradeNothingMissing == Spec => []NothingMissing
<1>1. TradeInv => NothingMissing
  BY DrainedHolds DEF TradeInv
<1> QED
  BY <1>1, TradeInvariant, PTL

\* What it holds beyond those was queued before this connection.
THEOREM TradeExtrasAreLeftovers == Spec => []ExtrasAreLeftovers
<1>1. TradeInv => ExtrasAreLeftovers
  BY DrainedHolds DEF TradeInv
<1> QED
  BY <1>1, TradeInvariant, PTL

-----------------------------------------------------------------------------
(* The refinement of the request pipe.                                      *)

LEMMA TradeNextPipes ==
  TypeOK /\ [Next]_vars => [Pipe(Channels)!Next]_<<pending, subs, linkUp>>
<1> SUFFICES ASSUME TypeOK, [Next]_vars PROVE [Pipe(Channels)!Next]_<<pending, subs, linkUp>>
  OBVIOUS
<1>1. pending \in Seq(RequestsOver(Channels))
  BY PendingIsTyped
<1>2. ASSUME NEW verb \in Verbs, NEW channels \in SUBSET Channels, NEW intent,
             Ask(verb, channels, intent)
      PROVE  Pipe(Channels)!Next
  BY <1>1, <1>2, AskAccepts DEF Pipe!Next
<1>3. CASE \E k \in Keys \cup {NoKey} : connect(k)
  BY <1>1, <1>3, SessionStepPipes DEF connect, SessionStep
<1>4. CASE \E channels \in SUBSET Channels : subscribe(channels) \/ unsubscribe(channels)
  BY <1>2, <1>4 DEF subscribe, unsubscribe, Verbs
<1>5. CASE subscribeOrders \/ subscribeAccount \/ subscribeDeals
  BY <1>2, <1>5 DEF subscribeOrders, subscribeAccount, subscribeDeals, subscribe, Verbs, Channels
<1>6. CASE ping
  BY <1>2, <1>6 DEF ping, Verbs
<1>7. CASE disconnect \/ run
  BY <1>1, <1>7, SessionStepPipes DEF disconnect, run, SessionStep
<1>8. CASE UNCHANGED vars
  BY <1>8 DEF vars, sessionVars
<1> QED
  BY <1>3, <1>4, <1>5, <1>6, <1>7, <1>8 DEF Next

\* A SpotTradeWebSocket uses its queue as the engine allows: a vector of
\* channels is one request at its end, the loop takes the first, and a
\* connection, with whatever key, begins without subscriptions.
\* (spot_trade_websocket.cpp: connect, run, subscribe, unsubscribe, ping)
THEOREM TradeImplementsPipe == Spec => QueueIsPipe
<1>1. TradeInit => Pipe(Channels)!Init
  BY InitPipe DEF TradeInit
<1>2. TypeOK /\ [Next]_vars => [Pipe(Channels)!Next]_<<pending, subs, linkUp>>
  BY TradeNextPipes
<1> QED
  BY <1>1, <1>2, TradeTypes, PTL DEF Spec, QueueIsPipe

=============================================================================
