---------------------------- MODULE FuturesMarket ----------------------------
(***************************************************************************)
(* The functions of FuturesMarket (src/futures_market.cpp): public GETs.   *)
(* Many name their symbol in the path, where nothing is escaped; all but   *)
(* ping() unwrap "data".                                                   *)
(***************************************************************************)
EXTENDS HttpClient

publicGet(fn, params, path, p) ==
    Begin("futures", fn, params, TRUE,
          Plain("GET", Url(path, buildQueryString(removeEmptyParams(p)))))

\* One GET for a symbol, which ends the path.
symbolGet(fn, symbol, head, options) ==
    publicGet(fn, Over(Optional(symbol), options), <<head>> \o symbol, options)

\* klineIndexPrice() and klineFairPrice() make their URL without publicGet():
\* empty options are sent.
optionsGet(fn, symbol, head, options) ==
    Begin("futures", fn, Over(Optional(symbol), options), TRUE,
          Plain("GET", Url(<<head>> \o symbol, buildQueryString(options))))

ping == Begin("futures", "ping", <<>>, FALSE, Plain("GET", <<"/api/v1/contract/ping">>))

contractDetail(symbol) ==
    publicGet("contractDetail", [symbol |-> symbol], <<"/api/v1/contract/detail">>, [symbol |-> symbol])

supportCurrencies ==
    publicGet("supportCurrencies", <<>>, <<"/api/v1/contract/support_currencies">>, <<>>)

\* A limit of 0, the default, is not sent.
depth(symbol, limit) ==
    LET limited == IF limit = <<"0">> THEN <<>> ELSE [limit |-> limit]
    IN  symbolGet("depth", symbol, "/api/v1/contract/depth/", limited)

depthCommits(symbol, limit) ==
    publicGet("depthCommits", [symbol |-> symbol, limit |-> limit],
              <<"/api/v1/contract/depth_commits/">> \o symbol \o <<"/">> \o limit, <<>>)

indexPrice(symbol) == symbolGet("indexPrice", symbol, "/api/v1/contract/index_price/", <<>>)
fairPrice(symbol) == symbolGet("fairPrice", symbol, "/api/v1/contract/fair_price/", <<>>)
fundingRate(symbol) == symbolGet("fundingRate", symbol, "/api/v1/contract/funding_rate/", <<>>)
kline(symbol, options) == symbolGet("kline", symbol, "/api/v1/contract/kline/", options)

klineIndexPrice(symbol, options) ==
    optionsGet("klineIndexPrice", symbol, "/api/v1/contract/kline/index_price/", options)

klineFairPrice(symbol, options) ==
    optionsGet("klineFairPrice", symbol, "/api/v1/contract/kline/fair_price/", options)

deals(symbol, limit) ==
    symbolGet("deals", symbol, "/api/v1/contract/deals/", [limit |-> limit])

ticker(symbol) ==
    publicGet("ticker", [symbol |-> symbol], <<"/api/v1/contract/ticker">>, [symbol |-> symbol])

riskReverse(symbol) == symbolGet("riskReverse", symbol, "/api/v1/contract/risk_reverse/", <<>>)

\* Both histories take a page.
historyGet(fn, path, symbol, pageNum, pageSize) ==
    LET p == [symbol |-> symbol, page_num |-> pageNum, page_size |-> pageSize]
    IN  publicGet(fn, p, <<path>>, p)

riskReverseHistory(symbol, pageNum, pageSize) ==
    historyGet("riskReverseHistory", "/api/v1/contract/risk_reverse/history", symbol, pageNum, pageSize)

fundingRateHistory(symbol, pageNum, pageSize) ==
    historyGet("fundingRateHistory", "/api/v1/contract/funding_rate/history", symbol, pageNum, pageSize)

MarketCall ==
    \/ ping \/ supportCurrencies
    \/ \E symbol \in Symbols :
        \/ contractDetail(symbol) \/ ticker(symbol)
        \/ indexPrice(symbol) \/ fairPrice(symbol) \/ fundingRate(symbol) \/ riskReverse(symbol)
        \/ \E options \in Options :
            \/ kline(symbol, options)
            \/ klineIndexPrice(symbol, options) \/ klineFairPrice(symbol, options)
        \/ \E n \in Numbers :
            \/ depth(symbol, n) \/ depthCommits(symbol, n) \/ deals(symbol, n)
            \/ \E size \in Numbers :
                riskReverseHistory(symbol, n, size) \/ fundingRateHistory(symbol, n, size)

=============================================================================
