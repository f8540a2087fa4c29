----------------------------- MODULE SpotMarket -----------------------------
(***************************************************************************)
(* The functions of SpotMarket (src/spot_market.cpp): public GETs, whose   *)
(* reply is returned as it is.  Options are overwritten by arguments.      *)
(***************************************************************************)
EXTENDS HttpClient

CONSTANT Lists    \* texts passed as the list of symbols

DefaultLimit == <<"5", "0", "0">>
WithLimit(p) == Over(p, [limit |-> DefaultLimit])

publicGet(fn, params, path, p) ==
    Begin("spot", fn, params, FALSE,
          Plain("GET", Url(<<path>>, buildQueryString(removeEmptyParams(p)))))

\* Mutant of symbolList: the last symbol is lost, the loop looks for a comma.
symbolListToComma(s) == SubSeq(toUpper(s), 1, Max({0} \cup {i \in DOMAIN s : s[i] = "comma"}) - 1)

\* The loop over the list: skip commas and spaces, take up to the next comma.
\* A comma goes before each but the first.
symbolList(s) ==
    LET start(i) == Min({k \in i..Len(s) : s[k] \notin {"comma", "space"}} \cup {Len(s) + 1})
        end(i) == Place(s, "comma", start(i))
        from[i \in 1..(Len(s) + 1)] ==
            IF start(i) > Len(s) THEN <<>>
            ELSE <<"comma">> \o toUpper(SubSeq(s, start(i), end(i) - 1)) \o from[end(i)]
    IN  SubSeq(from[1], 2, Len(from[1]))

exchangeInfo(options) ==
    publicGet("exchangeInfo", options, "/exchangeInfo",
        [n \in DOMAIN options |->
            CASE n = "symbol" -> toUpper(options[n])
              [] n = "symbols" -> symbolList(options[n])
              [] OTHER -> options[n]])

depth(symbol, limit) ==
    publicGet("depth", [symbol |-> symbol, limit |-> limit],
              "/depth", [symbol |-> toUpper(symbol), limit |-> limit])

trades(symbol, limit) ==
    publicGet("trades", [symbol |-> symbol, limit |-> limit],
              "/trades", [symbol |-> toUpper(symbol), limit |-> limit])

historicalTrades(symbol, limit) ==
    publicGet("historicalTrades", [symbol |-> symbol, limit |-> limit],
              "/historicalTrades", [symbol |-> toUpper(symbol), limit |-> limit])

aggTrades(symbol, options) ==
    publicGet("aggTrades", Over([symbol |-> symbol], options),
              "/aggTrades", WithLimit(Over([symbol |-> toUpper(symbol)], options)))

klines(symbol, interval, options) ==
    publicGet("klines", Over([symbol |-> symbol, interval |-> interval], options), "/klines",
              WithLimit(Over([symbol |-> toUpper(symbol), interval |-> interval], options)))

avgPrice(symbol) ==
    publicGet("avgPrice", [symbol |-> symbol], "/avgPrice", [symbol |-> toUpper(symbol)])

\* For the three tickers an empty symbol stands for all of them.
ticker24hr(symbol) ==
    publicGet("ticker24hr", [symbol |-> symbol], "/ticker/24hr", [symbol |-> toUpper(symbol)])

tickerPrice(symbol) ==
    publicGet("tickerPrice", [symbol |-> symbol], "/ticker/price", [symbol |-> toUpper(symbol)])

bookTicker(symbol) ==
    publicGet("bookTicker", [symbol |-> symbol], "/ticker/bookTicker", [symbol |-> toUpper(symbol)])

ping == publicGet("ping", <<>>, "/ping", <<>>)
time == publicGet("time", <<>>, "/time", <<>>)

MarketCall ==
    \/ \E options \in Options \cup [{"symbols"} -> Lists] : exchangeInfo(options)
    \/ ping \/ time
    \/ \E symbol \in Symbols :
        \/ \E limit \in Numbers :
            depth(symbol, limit) \/ trades(symbol, limit) \/ historicalTrades(symbol, limit)
        \/ \E options \in Options :
            \/ aggTrades(symbol, options)
            \/ \E interval \in Numbers : klines(symbol, interval, options)
        \/ avgPrice(symbol) \/ ticker24hr(symbol) \/ tickerPrice(symbol) \/ bookTicker(symbol)

=============================================================================
