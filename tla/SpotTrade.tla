------------------------------ MODULE SpotTrade ------------------------------
(***************************************************************************)
(* The signed REST calls of SpotTrade (src/spot_trade.cpp) over the        *)
(* one-shot httpRequest (src/http_client.cpp): orders, and the listen keys *)
(* of the user data stream.  SpotTrade keeps no state between calls, so    *)
(* several threads of an application may call it at once.                  *)
(*                                                                         *)
(* The exchange and the network are external: a request may be lost, its   *)
(* reply may be lost or cut short, and a request that its caller has given *)
(* up may still arrive.  Time passes in half hours; a call takes none.     *)
(***************************************************************************)
EXTENDS Naturals, FiniteSets

CONSTANTS
    Callers,      \* threads of the application
    Orders,       \* order identifiers the exchange may assign
    Keys,         \* listen keys the exchange may assign
    Empty,        \* the empty string, as an argument
    Operations,   \* the functions of SpotTrade the application calls
    Lifetime,     \* validity of a listen key: 60 minutes, two half hours
    MaxCalls,     \* bound: calls in a behaviour
    MaxClock      \* bound: the last half hour

\* What each function passes to signedRequest.
Endpoint == [
    accountInfo |-> <<"GET", "/account">>,
    accountTradeList |-> <<"GET", "/myTrades">>,
    newOrderTest |-> <<"POST", "/order/test">>,
    newOrder |-> <<"POST", "/order">>,
    cancelOrder |-> <<"DELETE", "/order">>,
    cancelOpenOrders |-> <<"DELETE", "/openOrders">>,
    queryOrder |-> <<"GET", "/order">>,
    openOrders |-> <<"GET", "/openOrders">>,
    allOrders |-> <<"GET", "/allOrders">>,
    createUserDataStream |-> <<"POST", "/userDataStream">>,
    keepaliveUserDataStream |-> <<"PUT", "/userDataStream">>,
    closeUserDataStream |-> <<"DELETE", "/userDataStream">>,
    getUserDataStreamListenKeys |-> <<"GET", "/userDataStream">>]

ASSUME OperationsAssumption ==
    /\ Operations \subseteq DOMAIN Endpoint
    /\ Empty \notin Orders \cup Keys
    /\ Orders \cap Keys = {}

ASSUME TimeAssumption ==
    Lifetime \in Nat \ {0} /\ MaxCalls \in Nat /\ MaxClock \in Nat \ {0}

VARIABLES
    waiting,   \* a caller's request while it is in curl_easy_perform, or None
    net,       \* requests on their way to the exchange
    replies,   \* replies on their way back
    open,      \* the exchange: open orders
    expiry,    \* the exchange: when a listen key ends, 0 when it has none
    clock,     \* half hours since the start, from 1
    calls,     \* history: how many calls were made
    placed,    \* history: orders and keys the exchange made, and for whom
    told,      \* history: those returned by the call that made them
    silent,    \* history: calls that returned null
    extended,  \* history: when a keepalive of a live key last succeeded
    closed     \* history: keys whose close was requested

exchange == <<open, expiry, placed>>
history  == <<calls, told, silent, extended, closed>>
vars     == <<waiting, net, replies, exchange, clock, history>>

None == [id |-> 0, op |-> "none", method |-> "none", path |-> "none", params |-> {}]
Waits(c) == waiting[c] # None
InProgress == {waiting[c].id : c \in Callers}

\* The calls that make something at the exchange, an order or a listen key.
Makers == {"newOrder", "createUserDataStream"}

Things   == Orders \cup Keys
HttpMethods == {Endpoint[op][1] : op \in DOMAIN Endpoint}
Requests == [id : 1..MaxCalls, op : Operations, method : HttpMethods,
             path : {Endpoint[op][2] : op \in Operations},
             params : SUBSET Things]    \* no empty parameter is ever sent

\* A reply: the exchange's verdict, and what it made.
Replies == [id : 1..MaxCalls, ok : BOOLEAN, made : SUBSET Things]

\* Well typed: what is sent names only things the exchange made.
TypeOK ==
    /\ \A c \in Callers : Waits(c) => waiting[c] \in Requests
    /\ \A q \in net : q \in Requests
    /\ \A r \in replies : r \in Replies
    /\ open \subseteq Orders /\ told \subseteq Things /\ closed \subseteq Keys
    /\ expiry \in [Keys -> 0..(MaxClock + Lifetime)]
    /\ clock \in 1..MaxClock /\ calls \in 0..MaxCalls
    /\ placed \subseteq Things \X (1..MaxCalls) \X Operations
    /\ silent \subseteq 1..MaxCalls
    /\ extended \in [Keys -> 0..MaxClock]

Init ==
    /\ waiting = [c \in Callers |-> None] /\ net = {} /\ replies = {}
    /\ open = {} /\ expiry = [k \in Keys |-> 0] /\ placed = {}
    /\ clock = 1 /\ calls = 0 /\ told = {} /\ silent = {} /\ closed = {}
    /\ extended = [k \in Keys |-> 0]

-----------------------------------------------------------------------------
(* The client.                                                              *)

\* The application names orders and keys it was told of, or passes "".
Arguments(op) ==
    CASE op \in {"cancelOrder", "queryOrder"} -> {{x} : x \in told \cap Orders}
      [] op \in {"keepaliveUserDataStream", "closeUserDataStream"} ->
            {{x} : x \in (told \cap Keys) \cup {Empty}}
      [] OTHER -> {{}}

\* Mutant of removeEmptyParams: the empty ones are sent along.
keepEmptyParams(args) == args
removeEmptyParams(args) == args \ {Empty}

\* Mutant of CurlMethod: any other method gets the POST branch.
CurlMethodOrPost(method) == IF method \in {"GET", "DELETE"} THEN method ELSE "POST"
\* httpRequest knows three methods; curl sends a GET when it is told none.
CurlMethod(method) == IF method \in {"GET", "POST", "DELETE"} THEN method ELSE "GET"

signedRequest(c, op, args) ==
    /\ ~Waits(c) /\ calls < MaxCalls
    /\ calls' = calls + 1
    /\ LET q == [id |-> calls + 1, op |-> op,
                 method |-> CurlMethod(Endpoint[op][1]), path |-> Endpoint[op][2],
                 params |-> removeEmptyParams(args)]
       IN  waiting' = [waiting EXCEPT ![c] = q] /\ net' = net \cup {q}
    /\ closed' = IF op = "closeUserDataStream" THEN closed \cup (args \ {Empty}) ELSE closed
    /\ UNCHANGED <<replies, exchange, clock, told, silent, extended>>

\* The whole body arrived and parses: the caller gets it, whatever the status.
Return(c) ==
    /\ Waits(c)
    /\ \E r \in replies :
        /\ r.id = waiting[c].id
        /\ replies' = replies \ {r}
        /\ told' = IF waiting[c].op \in Makers THEN told \cup r.made ELSE told
        /\ extended' = [k \in Keys |->
             IF /\ waiting[c].op = "keepaliveUserDataStream" /\ r.ok
                /\ k \in waiting[c].params /\ expiry[k] > clock
             THEN clock ELSE extended[k]]
    /\ waiting' = [waiting EXCEPT ![c] = None]
    /\ UNCHANGED <<net, exchange, clock, calls, silent, closed>>

\* Mutants: a failed transfer is tried again; CURLOPT_TIMEOUT is not set.
RetryOnce(c) == {waiting[c]}
NoTimeout(c) == FALSE
Retries(c) == {}
TimesOut(c) == Waits(c)

\* The transfer fails, times out, or leaves half a body, which does not parse:
\* the caller gets null.  The request itself may still be on its way.
ReturnNull(c) ==
    /\ TimesOut(c)
    /\ silent' = silent \cup {waiting[c].id}
    /\ replies' = {r \in replies : r.id # waiting[c].id}
    /\ net' = net \cup Retries(c)
    /\ waiting' = [waiting EXCEPT ![c] = None]
    /\ UNCHANGED <<exchange, clock, calls, told, extended, closed>>

-----------------------------------------------------------------------------
(* The exchange and the network.                                            *)

Is(q, method, path) == q.method = method /\ q.path = path

\* What the exchange may make for a request: an order, a key, or nothing.
MadeFor(q) ==
    LET fresh(S) == {{x} : x \in {y \in S : \A p \in placed : p[1] # y}}
    IN  CASE Is(q, "POST", "/order") -> fresh(Orders)
          [] Is(q, "POST", "/userDataStream") -> fresh(Keys)
          [] OTHER -> {{}}

OpenAfter(q, made) ==
    CASE Is(q, "DELETE", "/order") -> open \ q.params
      [] Is(q, "DELETE", "/openOrders") -> {}
      [] OTHER -> open \cup (made \cap Orders)

ExpiryAfter(q, made) == [k \in Keys |->
    CASE \/ k \in made
         \/ Is(q, "PUT", "/userDataStream") /\ k \in q.params /\ expiry[k] > clock
           -> clock + Lifetime
      [] Is(q, "DELETE", "/userDataStream") /\ k \in q.params -> 0
      [] OTHER -> expiry[k]]

Answer(q, ok, made) ==
    IF \E c \in Callers : waiting[c].id = q.id
    THEN replies' = replies \cup {[id |-> q.id, ok |-> ok, made |-> made]}
    ELSE UNCHANGED replies

Perform(q) ==
    /\ net' = net \ {q}
    /\ \E made \in MadeFor(q) :
        /\ open' = OpenAfter(q, made)
        /\ expiry' = ExpiryAfter(q, made)
        /\ placed' = placed \cup (made \X {q.id} \X {q.op})
        /\ Answer(q, TRUE, made)
    /\ UNCHANGED <<waiting, clock, history>>

\* A bad timestamp, an unknown order, a rate limit: an error in JSON.
Refuse(q) ==
    /\ net' = net \ {q}
    /\ Answer(q, FALSE, {})
    /\ UNCHANGED <<waiting, exchange, clock, history>>

Lose(q) == net' = net \ {q} /\ UNCHANGED <<waiting, replies, exchange, clock, history>>

Tick ==
    /\ clock < MaxClock
    /\ net = {} /\ \A c \in Callers : ~Waits(c)
    /\ clock' = clock + 1
    /\ UNCHANGED <<waiting, net, replies, exchange, history>>

Next ==
    \/ \E c \in Callers :
        \/ \E op \in Operations : \E args \in Arguments(op) : signedRequest(c, op, args)
        \/ Return(c) \/ ReturnNull(c)
    \/ \E q \in net : Perform(q) \/ Refuse(q) \/ Lose(q)
    \/ Tick

Spec == Init /\ [][Next]_vars
FairSpec == Spec /\ \A c \in Callers : WF_vars(Return(c) \/ ReturnNull(c))

-----------------------------------------------------------------------------
(* Properties. *)

\* One call makes at most one order or key: httpRequest sends a request once,
\* however its transfer ends.
MadeOnce == \A p1, p2 \in placed : p1[2] = p2[2] => p1 = p2

\* An order or key the application was not told of belongs to a call that is
\* still in progress or that returned null: only null is ambiguous, and no
\* other call of SpotTrade makes orders or keys as a side effect.
NothingUnaccounted ==
    \A p \in placed :
        \/ p[1] \in told
        \/ p[2] \in silent \cup InProgress /\ p[3] \in Makers

\* No call waits for the exchange for ever.
CallsEnd == \A c \in Callers : Waits(c) ~> ~Waits(c)

\* A keepalive that succeeded makes the key valid for another 60 minutes.
\* (include/mexc/spot/trade.hpp:47)
KeepaliveExtends ==
    \A k \in Keys \ closed :
        extended[k] # 0 /\ clock < extended[k] + Lifetime => expiry[k] > clock

=============================================================================
