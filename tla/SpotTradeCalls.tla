--------------------------- MODULE SpotTradeCalls ---------------------------
(***************************************************************************)
(* How the functions of SpotTrade (src/spot_trade.cpp) make and sign their *)
(* requests.  What the exchange and the network do with them over several  *)
(* calls is in SpotTrade.                                                  *)
(***************************************************************************)
EXTENDS HttpClient

CONSTANT Stamps    \* what the clock may show, as texts

DefaultLimit == <<"5", "0", "0">>
WithLimit(p) == Over(p, [limit |-> DefaultLimit])

\* The query that is sent is the one that is signed; the signature follows it.
signedRequest(fn, params, method, path, p) ==
    \E stamp \in Stamps :
        LET query == buildQueryString(Over([timestamp |-> stamp], removeEmptyParams(p)))
        IN  Begin("spot", fn, params, FALSE,
                  [kind |-> method, url |-> Url(<<path>>, query), body |-> NoBody, time |-> 0,
                   signature |-> spotSign(query)])

unsignedGet(fn, path) == Begin("spot", fn, <<>>, FALSE, Plain("GET", <<path>>))
ping == unsignedGet("ping", "/ping")
time == unsignedGet("time", "/time")

\* Most functions take a symbol, which is sent in capitals, and options.
symbolRequest(fn, symbol, options, method, path) ==
    signedRequest(fn, Over([symbol |-> symbol], options), method, path,
                  Over([symbol |-> toUpper(symbol)], options))

listRequest(fn, symbol, options, path) ==
    signedRequest(fn, Over([symbol |-> symbol], options), "GET", path,
                  WithLimit(Over([symbol |-> toUpper(symbol)], options)))

orderRequest(fn, symbol, side, orderType, options, path) ==
    signedRequest(fn, Over([symbol |-> symbol, side |-> side, type |-> orderType], options),
        "POST", path,
        Over([symbol |-> toUpper(symbol), side |-> toUpper(side), type |-> toUpper(orderType)],
             options))

accountInfo == signedRequest("accountInfo", <<>>, "GET", "/account", <<>>)
accountTradeList(symbol, options) == listRequest("accountTradeList", symbol, options, "/myTrades")
newOrderTest(symbol, side, orderType, options) ==
    orderRequest("newOrderTest", symbol, side, orderType, options, "/order/test")
newOrder(symbol, side, orderType, options) ==
    orderRequest("newOrder", symbol, side, orderType, options, "/order")
cancelOrder(symbol, options) == symbolRequest("cancelOrder", symbol, options, "DELETE", "/order")
cancelOpenOrders(symbol) == symbolRequest("cancelOpenOrders", symbol, <<>>, "DELETE", "/openOrders")
queryOrder(symbol, options) == symbolRequest("queryOrder", symbol, options, "GET", "/order")
openOrders(symbol) == symbolRequest("openOrders", symbol, <<>>, "GET", "/openOrders")
allOrders(symbol, options) == listRequest("allOrders", symbol, options, "/allOrders")

createUserDataStream == signedRequest("createUserDataStream", <<>>, "POST", "/userDataStream", <<>>)
keyRequest(fn, listenKey, method) ==
    LET p == [listenKey |-> listenKey] IN signedRequest(fn, p, method, "/userDataStream", p)
keepaliveUserDataStream(listenKey) == keyRequest("keepaliveUserDataStream", listenKey, "PUT")
closeUserDataStream(listenKey) == keyRequest("closeUserDataStream", listenKey, "DELETE")
getUserDataStreamListenKeys ==
    signedRequest("getUserDataStreamListenKeys", <<>>, "GET", "/userDataStream", <<>>)

TradeCall ==
    \/ ping \/ time \/ accountInfo \/ createUserDataStream \/ getUserDataStreamListenKeys
    \/ \E key \in Symbols : keepaliveUserDataStream(key) \/ closeUserDataStream(key)
    \/ \E symbol \in Symbols :
        \/ cancelOpenOrders(symbol) \/ openOrders(symbol)
        \/ \E options \in Options :
            \/ accountTradeList(symbol, options) \/ allOrders(symbol, options)
            \/ cancelOrder(symbol, options) \/ queryOrder(symbol, options)
            \/ \E side \in Symbols :
                \/ newOrderTest(symbol, side, side, options)
                \/ newOrder(symbol, side, side, options)

=============================================================================
