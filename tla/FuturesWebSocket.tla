--------------------------- MODULE FuturesWebSocket ---------------------------
(***************************************************************************)
(* The calls of FuturesWebSocket (src/futures_websocket.cpp).  A request   *)
(* carries a method, "sub" or "unsub" of a channel, and a param object.    *)
(***************************************************************************)
EXTENDS SubscriptionSession

CONSTANTS Symbols, Intervals

SymbolChannels == {"ticker", "deal", "depth", "funding.rate"}
All == "*"

\* A topic; a field its channel does not have is "*".
Topics ==
    [channel : SymbolChannels, symbol : Symbols, interval : {All}]
    \cup [channel : {"kline"}, symbol : Symbols, interval : Intervals]
    \cup [channel : {"tickers"}, symbol : {All}, interval : {All}]

\* No call queues a request with a method the server does not know.
TypeOK == SessionTypeOK(Topics)

\* The topics a call means, by its name in futures/websocket.hpp.
On(channel, symbol) == {t \in Topics : t.channel = channel /\ t.symbol = symbol}
KlineOn(symbol, interval) == {t \in On("kline", symbol) : t.interval = interval}

\* The server takes a request for the topics of the channel in its method
\* that agree with the fields of its param.
Request(verb, channel, param, intent) ==
    Ask(verb,
        {t \in Topics : t.channel = channel /\ \A f \in DOMAIN param : t[f] = param[f]},
        intent)

NoParam == [f \in {} |-> All]
Symbol(symbol) == [symbol |-> symbol]

subTicker(s) == Request("sub", "ticker", Symbol(s), On("ticker", s))
unsubTicker(s) == Request("unsub", "ticker", Symbol(s), On("ticker", s))

subTickers == Request("sub", "tickers", NoParam, On("tickers", All))
unsubTickers == Request("unsub", "tickers", NoParam, On("tickers", All))

\* Mutants: the method of a neighbouring call, left over from copying it; a
\* method the server does not know.
subDealAsDepth(s) == Request("sub", "depth", Symbol(s), On("deal", s))
unsubDealAsSub(s) == Request("sub", "deal", Symbol(s), {})
unsubDealMisspelt(s) == Request("usub", "deal", Symbol(s), On("deal", s))
subDeal(s) == Request("sub", "deal", Symbol(s), On("deal", s))
unsubDeal(s) == Request("unsub", "deal", Symbol(s), On("deal", s))

subDepth(s) == Request("sub", "depth", Symbol(s), On("depth", s))
unsubDepth(s) == Request("unsub", "depth", Symbol(s), On("depth", s))

subKline(s, i) ==
    Request("sub", "kline", [symbol |-> s, interval |-> i], KlineOn(s, i))
\* The request names no interval: it ends the symbol's klines of all of them.
unsubKline(s) == Request("unsub", "kline", Symbol(s), On("kline", s))

subFundingRate(s) == Request("sub", "funding.rate", Symbol(s), On("funding.rate", s))
unsubFundingRate(s) == Request("unsub", "funding.rate", Symbol(s), On("funding.rate", s))

ping == Ask("ping", {}, {})

Next ==
    \/ \E s \in Symbols :
        \/ subTicker(s) \/ unsubTicker(s) \/ subDeal(s) \/ unsubDeal(s)
        \/ subDepth(s) \/ unsubDepth(s) \/ subFundingRate(s) \/ unsubFundingRate(s)
        \/ unsubKline(s)
        \/ \E i \in Intervals : subKline(s, i)
    \/ subTickers \/ unsubTickers \/ ping
    \/ SessionStep

Spec == Init /\ [][Next]_sessionVars

-----------------------------------------------------------------------------
(* Properties. *)

\* The calls use the request pipe that the engine provides, and nothing else:
\* one known request for each, at the end of the queue.  (subTicker ...
\* unsubFundingRate, connect, run)
QueueIsPipe == Pipe(Topics)!Init /\ [][Pipe(Topics)!Next]_<<pending, subs, linkUp>>

=============================================================================
