----------------------- MODULE FuturesWebSocketProofs -----------------------
(***************************************************************************)
(* Proofs about FuturesWebSocket for any symbols, intervals and bounds.    *)
(***************************************************************************)
EXTENDS FuturesWebSocket, SubscriptionSessionProofs

\* The inductive invariant.
FuturesInv == TypeOK /\ SessionInv

\* The topics the server takes a request for.
TopicsOf(channel, param) ==
    {t \in Topics : t.channel = channel /\ \A f \in DOMAIN param : t[f] = param[f]}

-----------------------------------------------------------------------------
(* The requests are taken for the topics their calls mean.                  *)

LEMMA SymbolTopics ==
  ASSUME NEW channel, NEW s PROVE TopicsOf(channel, Symbol(s)) = On(channel, s)
BY DEF TopicsOf, Symbol, On

LEMMA KlineTopics ==
  ASSUME NEW s, NEW i
  PROVE  TopicsOf("kline", [symbol |-> s, interval |-> i]) = KlineOn(s, i)
BY DEF TopicsOf, KlineOn, On

LEMMA TickersTopics == TopicsOf("tickers", NoParam) = On("tickers", All)
<1>1. DOMAIN NoParam = {}
  BY DEF NoParam
<1>2. \A t \in Topics : t.channel = "tickers" => t.symbol = All
  BY DEF Topics, SymbolChannels
<1> QED
  BY <1>1, <1>2 DEF TopicsOf, On

\* A request taken for what its call means keeps the invariant.
LEMMA RequestKeepsFuturesInv ==
  ASSUME FuturesInv, NEW verb \in Verbs, NEW channel, NEW param, NEW intent,
         Request(verb, channel, param, intent), TopicsOf(channel, param) = intent
  PROVE  FuturesInv'
<1>1. intent \in SUBSET Topics
  BY DEF TopicsOf
<1>2. Ask(verb, intent, intent)
  BY DEF Request, TopicsOf
<1>3. SessionTypeOK(Topics)'
  BY <1>1, <1>2, AskTypeOK DEF FuturesInv, TypeOK
<1>4. SessionInv'
  BY <1>1, <1>2, AskKeeps DEF FuturesInv, TypeOK, SessionTypeOK, RequestsOver
<1> QED
  BY <1>3, <1>4 DEF FuturesInv, TypeOK

LEMMA NextFuturesInv == FuturesInv /\ [Next]_sessionVars => FuturesInv'
<1> SUFFICES ASSUME FuturesInv, [Next]_sessionVars PROVE FuturesInv'
  OBVIOUS
<1> USE RequestKeepsFuturesInv
<1>0. {"sub", "unsub", "ping"} = Verbs
  BY DEF Verbs
<1>1. CASE \E s \in Symbols : subTicker(s) \/ unsubTicker(s)
  BY <1>0, <1>1, SymbolTopics DEF subTicker, unsubTicker
<1>2. CASE \E s \in Symbols : subDeal(s) \/ unsubDeal(s)
  BY <1>0, <1>2, SymbolTopics DEF subDeal, unsubDeal
<1>3. CASE \E s \in Symbols : subDepth(s) \/ unsubDepth(s)
  BY <1>0, <1>3, SymbolTopics DEF subDepth, unsubDepth
<1>4. CASE \E s \in Symbols : subFundingRate(s) \/ unsubFundingRate(s)
  BY <1>0, <1>4, SymbolTopics DEF subFundingRate, unsubFundingRate
<1>5. CASE \E s \in Symbols : unsubKline(s) \/ \E i \in Intervals : subKline(s, i)
  BY <1>0, <1>5, SymbolTopics, KlineTopics DEF subKline, unsubKline
<1>6. CASE subTickers \/ unsubTickers
  BY <1>0, <1>6, TickersTopics DEF subTickers, unsubTickers
<1>7. CASE ping
  <2>1. Ask("ping", {}, {}) /\ {} \in SUBSET Topics /\ "ping" \in Verbs
    BY <1>0, <1>7 DEF ping
  <2>2. SessionTypeOK(Topics)'
    BY <2>1, AskTypeOK DEF FuturesInv, TypeOK
  <2>3. SessionInv'
    BY <2>1, AskKeeps DEF FuturesInv, TypeOK, SessionTypeOK, RequestsOver
  <2> QED
    BY <2>2, <2>3 DEF FuturesInv, TypeOK
<1>8. CASE SessionStep
  <2>1. SessionTypeOK(Topics)'
    BY <1>8, SessionStepTypeOK DEF FuturesInv, TypeOK
  <2>2. SessionInv'
    BY <1>8, SessionStepKeeps DEF FuturesInv, TypeOK, SessionTypeOK, RequestsOver
  <2> QED
    BY <2>1, <2>2 DEF FuturesInv, TypeOK
<1>9. CASE UNCHANGED sessionVars
  BY <1>9, SessionStutter DEF FuturesInv, TypeOK, SessionTypeOK, sessionVars
<1> QED
  BY <1>1, <1>2, <1>3, <1>4, <1>5, <1>6, <1>7, <1>8, <1>9 DEF Next

THEOREM FuturesInvariant == Spec => []FuturesInv
<1>1. Init => FuturesInv
  BY InitSessionTypeOK, InitSession DEF FuturesInv, TypeOK
<1>2. FuturesInv /\ [Next]_sessionVars => FuturesInv'
  BY NextFuturesInv
<1> QED
  BY <1>1, <1>2, PTL DEF Spec

\* No call queues a request with a method the server does not know.
THEOREM FuturesTypes == Spec => []TypeOK
<1>1. FuturesInv => TypeOK
  BY DEF FuturesInv
<1> QED
  BY <1>1, FuturesInvariant, PTL

\* Once the queue is sent, the server holds every subscription asked for on
\* this connection.
THEOREM FuturesNothingMissing == Spec => []NothingMissing
<1>1. FuturesInv => NothingMissing
  BY DrainedHolds DEF FuturesInv
<1> QED
  BY <1>1, FuturesInvariant, PTL

\* What it holds beyond those was queued before this connection.
THEOREM FuturesExtrasAreLeftovers == Spec => []ExtrasAreLeftovers
<1>1. FuturesInv => ExtrasAreLeftovers
  BY DrainedHolds DEF FuturesInv
<1> QED
  BY <1>1, FuturesInvariant, PTL

-----------------------------------------------------------------------------
(* The refinement of the request pipe.                                      *)

\* A call with a verb of the server is accepted.
LEMMA RequestAccepts ==
  ASSUME TypeOK, NEW verb \in Verbs, NEW channel, NEW param, NEW intent,
         Request(verb, channel, param, intent)
  PROVE  Pipe(Topics)!Accept
<1>1. Ask(verb, TopicsOf(channel, param), intent) /\ TopicsOf(channel, param) \in SUBSET Topics
  BY DEF Request, TopicsOf
<1> QED
  BY <1>1, AskAccepts DEF TypeOK, SessionTypeOK, RequestsOver

LEMMA NextPipes ==
  TypeOK /\ [Next]_sessionVars => [Pipe(Topics)!Next]_<<pending, subs, linkUp>>
<1> SUFFICES ASSUME TypeOK, [Next]_sessionVars
             PROVE  [Pipe(Topics)!Next]_<<pending, subs, linkUp>>
  OBVIOUS
<1>1. "sub" \in Verbs /\ "unsub" \in Verbs /\ "ping" \in Verbs
  BY DEF Verbs
<1>2. CASE \E s \in Symbols :
            \/ subTicker(s) \/ unsubTicker(s) \/ subDeal(s) \/ unsubDeal(s)
            \/ subDepth(s) \/ unsubDepth(s) \/ subFundingRate(s) \/ unsubFundingRate(s)
            \/ unsubKline(s)
            \/ \E i \in Intervals : subKline(s, i)
  <2>1. Pipe(Topics)!Accept
    BY <1>1, <1>2, RequestAccepts
    DEF subTicker, unsubTicker, subDeal, unsubDeal, subDepth, unsubDepth, subFundingRate,
        unsubFundingRate, unsubKline, subKline
  <2> QED BY <2>1 DEF Pipe!Next
<1>3. CASE subTickers \/ unsubTickers
  BY <1>1, <1>3, RequestAccepts DEF subTickers, unsubTickers, Pipe!Next
<1>4. CASE ping
  <2>1. Ask("ping", {}, {}) /\ {} \in SUBSET Topics
    BY <1>4 DEF ping
  <2> QED
    BY <1>1, <2>1, AskAccepts DEF TypeOK, SessionTypeOK, RequestsOver, Pipe!Next
<1>5. CASE SessionStep
  BY <1>5, SessionStepPipes DEF TypeOK, SessionTypeOK, RequestsOver
<1>6. CASE UNCHANGED sessionVars
  BY <1>6 DEF sessionVars
<1> QED
  BY <1>2, <1>3, <1>4, <1>5, <1>6 DEF Next

\* A FuturesWebSocket uses its queue as the engine allows: any of its methods
\* adds one request the server knows at the end, the loop takes the first, and
\* a connection begins without subscriptions.  (futures_websocket.cpp:
\* connect, run, subTicker ... unsubFundingRate)
THEOREM FuturesImplementsPipe == Spec => QueueIsPipe
<1>1. Init => Pipe(Topics)!Init
  BY InitPipe
<1>2. TypeOK /\ [Next]_sessionVars => [Pipe(Topics)!Next]_<<pending, subs, linkUp>>
  BY NextPipes
<1> QED
  BY <1>1, <1>2, FuturesTypes, PTL DEF Spec, QueueIsPipe

=============================================================================
