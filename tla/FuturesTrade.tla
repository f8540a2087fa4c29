---------------------------- MODULE FuturesTrade ----------------------------
(***************************************************************************)
(* The functions of FuturesTrade (src/futures_trade.cpp): GETs signed over *)
(* the query string and POSTs signed over the JSON body, with the time of  *)
(* the Request-Time header.  All of them unwrap "data".                    *)
(***************************************************************************)
EXTENDS HttpClient

CONSTANT Times    \* what the clock may show, in milliseconds

\* Mutant of Signed: the parameters as they came, empty ones included.
SignedEarly(params) == buildQueryString(params)
Signed(params) == buildQueryString(removeEmptyParams(params))

signedGet(fn, params, path, p) ==
    \E rt \in Times :
        Begin("futures", fn, params, TRUE,
              [kind |-> "GET", url |-> Url(path, buildQueryString(removeEmptyParams(p))),
               body |-> NoBody, time |-> rt, signature |-> futuresSign(rt, Signed(p))])

\* The body is written once, as JSON, signed and sent.
signedPost(fn, params, path, members) ==
    \E rt \in Times :
        LET body == jsonToString(members)
        IN  Begin("futures", fn, params, TRUE,
                  [kind |-> "POST", url |-> <<path>>,
                   body |-> body, time |-> rt, signature |-> futuresSign(rt, body)])

accountAssets == signedGet("accountAssets", <<>>, <<"/api/v1/private/account/assets">>, <<>>)

accountAsset(currency) ==
    signedGet("accountAsset", [currency |-> currency],
              <<"/api/v1/private/account/asset/">> \o currency, <<>>)

orderCreateFrom(params) == signedPost("orderCreate", params, "/api/v1/private/order/create", params)

\* The options are written after the arguments, and over them.
orderCreate(symbol, side, orderType, vol, leverage, options) ==
    LET args == [symbol |-> symbol, side |-> side, orderType |-> orderType,
                 vol |-> vol, leverage |-> leverage]
    IN  signedPost("orderCreate", Over(options, args), "/api/v1/private/order/create",
                   Over(options, args))

orderCancel(symbol, orderId) ==
    LET p == [symbol |-> symbol, orderId |-> orderId]
    IN  signedPost("orderCancel", p, "/api/v1/private/order/cancel", p)

orderCancelAll(symbol) ==
    signedPost("orderCancelAll", [symbol |-> symbol], "/api/v1/private/order/cancel_all",
               Optional(symbol))

openOrders(symbol) ==
    signedGet("openOrders", [symbol |-> symbol],
              <<"/api/v1/private/order/list/open_orders">>, Optional(symbol))

\* Here the argument is written over the options, unless it is empty.
historyOrders(symbol, options) ==
    LET p == Over(Optional(symbol), options)
    IN  signedGet("historyOrders", p, <<"/api/v1/private/order/list/history_orders">>, p)

getOrder(orderId) ==
    signedGet("getOrder", [orderId |-> orderId], <<"/api/v1/private/order/get/">> \o orderId, <<>>)

openPositions(symbol) ==
    signedGet("openPositions", [symbol |-> symbol],
              <<"/api/v1/private/position/open_positions">>, Optional(symbol))

TradeCall ==
    \/ accountAssets
    \/ \E params \in Options : orderCreateFrom(params)
    \/ \E symbol \in Symbols :
        \/ accountAsset(symbol) \/ getOrder(symbol) \/ orderCancelAll(symbol)
        \/ openOrders(symbol) \/ openPositions(symbol)
        \/ \E orderId \in Symbols : orderCancel(symbol, orderId)
        \/ \E options \in Options :
            \/ historyOrders(symbol, options)
            \/ \E n \in Numbers : orderCreate(symbol, n, n, n, n, options)

=============================================================================
