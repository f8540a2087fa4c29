# A verification project for mexc-cpp-sdk

The SDK is a C++ library for the MEXC exchange: REST clients over libcurl and
WebSocket clients over Boost.Beast. This directory holds TLA+ modules that
model its stateful parts, TLC configurations that check them on small
instances, and TLAPS proofs for every value of the constants. Paths below are
relative to the repository.

## 1. The system

| Component | State it keeps | Operations | Interacts with |
|---|---|---|---|
| `SpotWebSocket`, `SpotTradeWebSocket`, `FuturesWebSocket` (three copies of one engine) | the stream `ws`, `running`, `connected`, `runThread`, `writeQueue` under `writeMutex`, three callbacks; the trade client also `path` with the listen key | `connect`, `disconnect`, `subscribe`/`unsubscribe` or the `sub*`/`unsub*` calls, `ping`, `run`, `runAsync` | the application's threads call in; `run()` calls the callbacks out; Beast and the server beyond |
| `http_client` | none | `httpRequest`, `buildQueryString`, `removeEmptyParams`, `hmacSha256Hex` | libcurl, OpenSSL |
| `SpotTrade` | keys and options, never changed | thirteen signed calls, `ping`, `time` | `httpRequest`; the exchange's orders and listen keys |
| `SpotMarket`, `FuturesMarket` | options | public GETs; those of futures unwrap the member `data` | `httpRequest` |
| `FuturesTrade` | keys and options | signed GETs and POSTs | `httpRequest`, `futuresSign` |
| `signature`, `json_util` | none | sign, parse, serialise | used by the above |
| market test programs (`examples/test_*`, `scripts/run_market_tests.sh`) | files under `output/` or `MEXC_OUTPUT_DIR` | call every market function and write the replies; record a WebSocket channel | the library; the files |
| command-line tools (`tools/`) | none | read those files and print summaries | the files; `json_util` |
| other `examples/`, `third_party/`, build files | | | not part of the library |

What is hard here:

* **Threads.** The application's threads, the background thread of
  `runAsync()` and the callbacks it runs share the stream and the flags. Only
  the queue has a lock. `connect()` replaces the stream, `disconnect()` joins
  the thread, and both may be called from a callback.
* **Blocking.** `read()` blocks until the server sends something, `close()`
  until it answers, `join()` until the loop ends.
* **Failure.** The server closes, the network breaks, `connect()` fails half
  way, `write()` throws, a REST request or its reply is lost or late.
* **Lifetime.** The queue outlives a connection, a subscription does not; a
  listen key outlives neither its close nor 60 minutes without a keepalive.
* **Texts.** A parameter passes through a map, a conversion to capitals, an
  escape, a signature and a URL; what is signed must be what is sent, and what
  is sent must be read as what was meant.
* **Files.** The writers and readers of a reply or a recording are different
  programs, run in any order, that must agree on where and in what form.

Correctness, by component:

* Engine: one loop; the lock is held exactly over a flush; no callback after a
  join; no stream freed under the loop or `disconnect()`; someone reads an open
  connection; requests leave in order, once, and only a broken connection loses
  them; calls return.
* Subscriptions: once the queue is empty the server holds what was asked for.
* REST: one call makes at most one order or key; what a caller was not told of
  belongs to a call that returned null; calls return; a keepalive extends. The
  signature is that of the request; arguments arrive; the result says whether
  the exchange has done what was asked.
* Test programs: no reply overwrites another's, all of them reach the parser,
  recordings grow and can be read back, and one failure stops nothing else.

`PROJECT.json` lists the hazards, each at its line, and the properties that
are about it.

## 2. Modules

| Module | Models | Extends or instantiates |
|---|---|---|
| `RequestPipe` | abstract: what queueing a request promises | |
| `WebSocketClient` | the engine, from `src/spot_websocket.cpp` | instantiates `RequestPipe` |
| `MCWebSocketClient` | constants for TLC | `WebSocketClient` |
| `WebSocketClientProofs` | theorems | `WebSocketClient`, `TLAPS` |
| `SubscriptionSession` | subscriptions over the pipe and across connections | instantiates `RequestPipe` |
| `FuturesWebSocket` | the calls of `src/futures_websocket.cpp` | `SubscriptionSession` |
| `SpotTradeWebSocket` | the calls of `src/spot_trade_websocket.cpp`, the listen key | `SubscriptionSession` |
| `SpotTrade` | the signed calls of `src/spot_trade.cpp` over `src/http_client.cpp` | |
| `MCSpotTrade` | constants for TLC | `SpotTrade` |
| `SubscriptionSessionProofs` | lemmas about any session | `SubscriptionSession`, `TLAPS` |
| `FuturesWebSocketProofs`, `SpotTradeWebSocketProofs` | theorems | their client, `SubscriptionSessionProofs` |
| `SpotTradeProofs` | theorems | `SpotTrade`, `TLAPS` |
| `HttpClient` | one REST call: conversions, signatures, transfer, reply; the exchange's reading of a URL | |
| `SpotMarket`, `SpotTradeCalls`, `FuturesMarket`, `FuturesTrade` | how each function of the four classes makes its request | `HttpClient` |
| `RestClients` | an application that makes a call of any class, with values for TLC | instantiates those four |
| `HttpClientProofs` | lemmas about one REST call: texts, URLs, requests | `HttpClient`, `TLAPS` |
| `RestClientsProofs` | theorems | `RestClients`, `HttpClientProofs` |
| `MarketTests`, `MCMarketTests` | the market test programs, the tools and the script | |
| `MarketTestsProofs` | theorems | `MarketTests`, `TLAPS` |

The layers meet at the pipe. `WebSocketClient` implements `RequestPipe`, and so
do the session modules with their queue (`OrderedDelivery` and `QueueIsPipe`,
both checked and proved): it is sent in order and dropped only while the
connection is down, so that the server's view of the subscriptions can be
checked over many calls without the threads. What the server makes of the
requests is a parameter of the pipe. The engine keeps the list of all of them,
from which anything else can be computed; the sessions keep the subscriptions
they amount to on the current connection. That the sessions lack no step the
pipe has is `SessionCoversPipe` (4.2).

### 2.1 WebSocketClient

Three kinds of threads. `Main` owns the client and may do all of `MainCalls`;
`Producers` only queue requests; `RunThread` is `impl_->runThread`. A thread is
in the loop (`loop[t]`), in a call of the client (`call[t]`), or both, when a
callback of the loop makes a call.

Correspondence of state: `ws` is `"null"` for no stream, else the status of
the stream (`is_open()` is `ws = "open"`); `running`, `connected`,
`writeQueue` and `writeMutex` are the fields of `Impl`; `joinable` is
`runThread.joinable()`; `popped` is the local `msg` of `run()`; `arg[t]` is the
request a thread in `subscribe()` has built. `peer`, `inbox` and `owed` are the
server's end. `wire`, `issued`, `connects` and `serving` are history.
`fault` records that the process is lost: `"terminate"` when an exception
leaves the thread function or a thread joins itself, `"dangling"` when
`connect()` frees the stream under the loop, a `close()` or another
`connect()`, `"freed"` when it frees it under the `is_open()` of a request.

Steps of `run()`: `RunEnter` (line 148), `RunStart` (149), `RunCondition`
(150), `LockQueue` (152), `Pop` (154-155), `Transmit`/`Discard`/`WriteThrow`
(156), `Unlock` (158), `Read` (159-165), `CallbackReturn` (167-175), `RunExit`
(176). A step is one access to shared state. A request is three steps: the
call (`request`), the test of `is_open()` (`StreamTested`, lines 108, 124 and
140), and the critical section (`Push`), one step because nothing in it blocks.
`connect()` is two steps: the old stream is gone before the new one is tried.
`disconnect()` is three, at the three places where it may wait.

The pointer `impl_->ws` has no lock. `FreedUnderOthers` says what becomes of
the other threads when `connect()` replaces it at line 67: a thread inside a
read, a write, `close()` or `connect()` is left with a freed stream; one at an
`is_open()` of `run()` or `disconnect()` may be; and a request that is at its
`is_open()` goes on with a stale pointer (`StaleTested`), which is undefined
behaviour: it ends the process or gives either answer. `NoDangling` claims that
this happens neither to the loop, nor to `disconnect()`, nor to the requests of
`Main` and of callbacks, for an application that disconnects before it
connects. It does not claim it of the requests of other threads, for which it
is false: nothing synchronises a producer's `is_open()` with `connect()`, and
an application with more threads has to do so itself. What the other properties
say of the engine they say with such producers, until the process is lost.

What is assumed of the application, and named in the module: only `Main` and
callbacks manage the client; `Main` does not call `run()` beside a background
thread (guard of `run`); with `"reconnect"` left out of `MainCalls`, `Main`
connects again only after `disconnect()` has joined the thread (guard of
`connect`).

What is assumed of Beast: a write to a dead connection may still return; a
read of a close frame fails with `closed`, every other failed read has another
error; after `close()` has begun, the loop's `read()` and the wait of `close()`
compete for the frames.

### 2.2 The sessions

A queued request is a verb and the set of topics the server takes it for; the
history variable `wanted` has what the calls since `connect()` *mean* by their
names. In `FuturesWebSocket` a call passes the channel and the fields it writes
into the JSON, and `Request` gives the topics that agree with them, so that a
wrong channel or a missing field shows up as a difference between the two.
`unsubKline` names no interval and thereby ends the symbol's klines of every
interval. `leftover` has what an earlier connection left in the queue, which
the code sends on the new one. `path` of the trade client is the listen key of
its last `connect()`; an open connection has one (`TypeOK`).

### 2.3 SpotTrade

`Endpoint` has each function's method and path. `signedRequest` drops the
empty parameters, hands the request to the network and waits; `Return` and
`ReturnNull` are the two ends of `httpRequest` as its caller sees them. What is
sent has the method `CurlMethod` makes of the one passed in. The exchange
carries out a request (`Perform`), refuses it (`Refuse`), or never sees it
(`Lose`), also after its caller has given up. A reply other than null is taken
to be the exchange's: `httpRequest` does not look at the status code, and a
JSON page of a gateway in front of an exchange that has carried out the request
would pass for a refusal. A clock of half hours runs
between calls, for the validity of listen keys.

### 2.4 HttpClient and the REST classes

A behaviour is one call: `asked` is what the caller passed, under the names the
exchange documents, `request` what `httpRequest` sends, `fate` what the
exchange made of it, `reply` the body curl is left with and `result` the value
of the function. The classes keep no state from one call to the next
(`SpotTrade` has what several calls do to the exchange), so one call is enough,
and the interest is in the arguments: TLC takes every function with every
choice of them.

A text is a sequence of characters, of which a few stand for all: a letter that
has a capital, hexadecimal digits (what follows a `%` matters), the separators
of URLs and lists, a control character and the two bytes of one letter of UTF-8,
together or apart; those that could be mistaken in a module are written by name
(`"comma"`, `"newline"`, `"xC3"`). `urlEncode`, `buildQueryString`,
`removeEmptyParams`, `symbolList` (the loop in `SpotMarket::exchangeInfo`) and
the signatures are operators on texts; names of parameters are atoms, because
the code passes literals. `jsonToString` writes the members of a body as jsoncpp
does: `JsonString` has, for each byte, the code point that is written, for a
byte above 127 that of the character it begins with the next byte, and the
replacement character U+FFFD when there is no next byte. `FromBody` reads the
code points back as UTF-8. `CurlMethod` is the chain of branches of
`httpRequest`: POST and DELETE are handed to libcurl, any other method leaves as
a GET. `asked.method` keeps the one the function passed. The digest is an
injective function of the key and the data. `Decode`, `FromPath` and `FromQuery`
are the exchange's reading of a URL, written from RFC 3986 and from the paths in
the headers, and the reference the code is compared with; `Entries` says what a
list of symbols means, place by place: where a segment between commas begins,
its entry is the segment, trimmed (`Trim`) and in capitals, if it is not empty.
`Over(p, q)` is the map a function gets when it copies `q` and assigns the
members of `p`.

The properties hold with exceptions, which are behaviours of the code a caller
should know of and which the properties name:

* `urlEncode` writes a byte below 16 with one digit
  (`src/http_client.cpp:26`), and symbols, currencies and order ids in a path
  are not escaped at all (`Legible`).
* A value in a JSON body that is no valid UTF-8 arrives changed (`Utf8Text`).
* `keepaliveUserDataStream` passes PUT, which leaves as a GET, so that its
  result says success although nothing was extended (`OutcomeKnown` leaves it
  out; `SpotTradeKeepalive` shows it).
* Options win over arguments in `FuturesTrade::orderCreate`
  (`src/futures_trade.cpp:82`), arguments over options everywhere else.
* `klineIndexPrice` and `klineFairPrice` send empty options, which all other
  functions remove.
* In a list of symbols a space before a comma stays in the symbol.
* A function that unwraps `data` returns null when `data` is null, for an error
  as for a success, and throws when the reply is neither an object nor null
  (`Unclear`).

### 2.5 MarketTests

The programs run one after the other: the shell of `run_market_tests.sh` starts
them in order (`ScriptOrder`), or a user any of them, in any order and again.
The WebSocket tests exist only in a build with Boost (`built`); the script skips
them otherwise, and `parse_ws_jsonl` where there is no recording (`Skip`,
`Runs`). A run of `parse_rest_output` is given one directory of replies, as on
lines 40 and 41 of the script, a run of `parse_ws_jsonl` one recording. `program`
is the one that runs and `at` where it is; `files` maps a path to its contents.
A file of a REST test holds the kind of the reply (an object, an array or null;
a call that throws writes none), a recording the lines `jsonToString` makes of
each record. The history variables say what was written and what was read.
The script exports `MEXC_OUTPUT_DIR` (`~byHand`), a user does not. One name
that both REST tests use and one of each stand for their fourteen and eighteen
files, one channel of each market for the eleven of the script's loops. A
recorder is taken to come to its end: that its `connect()` and `disconnect()`
return is assumed (see the fairness of the engine).

## 3. Runs

| Run | Question | Size |
|---|---|---|
| `WebSocketAsync` | Do the engine's invariants and the pipe hold with a background loop or one in `Main`, a second producer and callbacks that subscribe? Does every call return when the server answers, and every request get out when it also sends data of its own? | 203 000 states, liveness |
| `WebSocketManage` | The pipe with callbacks that disconnect and reconnect; can a thread that joins itself end the process? Only on a connection that is no longer healthy | 789 000 |
| `WebSocketSilent` | Does every request get out when the server only answers? **No** | violation |
| `WebSocketReconnect` | Is an open connection read after `connect()` and `runAsync()` without `disconnect()` before? **No** | violation |
| `FuturesWebSocket` | Does the server hold what was asked for, after any calls over two connections? Is its queue the engine's pipe? | 1 870 000 |
| `SpotTradeWebSocket` | Both for vectors of channels | 1 180 000 |
| `SpotTrade` | Does a call make at most one order or key, whatever is lost or late, can every unknown one be traced to a null, and does it end? | 713 000, liveness |
| `SpotTradeKeepalive` | Does a successful keepalive extend the key? **No** | violation |
| `RestClients` | Any function of the four classes with any arguments: is the signature that of the request, do the arguments arrive, does the result tell the outcome? | 561 000 |
| `MarketTests` | By hand, do replies keep apart and reach the parser, and recordings grow? Does the script come to its end, with everything started that is there? | 208 000, liveness |
| `MarketTestsOutput` | Does the script parse every reply it has fetched? **No** | violation |
| `MarketTestsRecords` | Is every record read back? **No** | violation |

### Bounds

* Two requests that differ: enough to tell order, loss and duplication. Two
  connections: the least with something left over from an earlier one. One
  unread frame pushed (two in `WebSocketManage`), text or binary, and any
  number one after the other, with a flush between them. One producer
  besides `Main` and the callbacks: three threads compete for the mutex, and
  two of them at a time suffice for a race on it.
* One symbol with two intervals: channels differ from each other and two
  klines differ only in the field `unsubKline` leaves out. Two queued requests
  (three for the trade client): a subscription, its undoing and a third.
* Two callers with up to three calls: one call given up, a second while the
  first is still on its way, and a third that acts on the result. In the
  keepalive run four half hours cover a key's validity and its end.
* Texts of two characters over eleven, lists of five over three: every pair of an
  escaped and a plain character, and two symbols with separators before,
  between and after. A name is passed as an option that also is an argument.
* Four programs by hand: a writer, another or the same again, and two parsers.

In the session modules `MaxConnects` counts the connections that open; a
`connect()` that fails is not bounded, so that no state is without a step.
`MaxRequests`, `MaxConnects`, `MaxInbox`, `MaxQueue`, `MaxCalls` and `MaxClock`
are guards of the actions they bound and nothing else. Requests, orders, keys
and callers are symmetric in the runs without liveness that declare it. The
WebSocket runs check for deadlock: every state has a step, or the process is
gone (`Halted`). The `SpotTrade` runs do not, because the application stops
calling when `MaxCalls` is used up.

### Fairness

`FairSpec` of the engine: every thread that can take a step of a call or of the
loop takes one (the operating system schedules it); the server acknowledges what
it received and answers a close frame with its own (RFC 6455). A `connect()`
that has begun ends: the resolver, the connection and the handshakes of
`src/spot_websocket.cpp:69-74` are synchronous and have no deadline in the code
(`timeout::suggested` is for the asynchronous operations), so this is assumed of
the network, and `CallsReturn` rests on it. `Push` is strongly fair: the loop
frees the mutex and takes it again in every round, and a waiting `lock_guard` is
assumed to get it in the end. Nothing is assumed of the application's callbacks
but that they return, of `NetFail`, of `connect`, or of the server sending on
its own; the last is the premise of `MarketDataCarriesRequests`, and
`RequestsReachPeer` is the same without it. `FairSpec` of `SpotTrade`: a call
ends, because curl's timeout ends the wait when no answer does. `FairSpec` of
`MarketTests`: a program goes on, a recorder ends with its time at the latest,
and the shell goes on with the script; nothing makes a user start a program.

### What the violations show

* `WebSocketSilent` (`src/spot_websocket.cpp:161`): the queue is emptied only
  between two reads. A ping queued while the loop waits in `read()` is sent
  after the next frame from the server; on a connection without data of its own
  that frame never comes. `README.md:108` recommends pings for keeping such a
  connection alive.
* `WebSocketReconnect` (`src/spot_websocket.cpp:182`): `runAsync()` does
  nothing while `runThread` is joinable, and it stays joinable after the loop
  has ended. After a lost connection, `connect()` and `runAsync()` leave an
  open connection that nobody reads. `disconnect()` in between repairs it, which
  `WebSocketAsync` checks.
* `SpotTradeKeepalive` (`src/http_client.cpp:86`): `httpRequest` has no branch
  for PUT, so a keepalive leaves as a GET, which succeeds and extends nothing.
* `MarketTestsOutput` (`examples/test_spot_market_rest.cpp:15`): the script
  exports `MEXC_OUTPUT_DIR=output`, and both REST tests take that as their whole
  directory. `ping.json` and the other common names are written over, and the
  parser is called on `output/rest_spot/` and `output/rest_futures/`, which the
  script never fills.
* `MarketTestsRecords` (`src/json_util.cpp:21`): a record is written with
  jsoncpp's default of one line for each brace and member, and read back line by
  line, which gives no record at all.

## 4. Proofs

Every theorem below is checked by `tlapm`, for all values of the constants that
satisfy the assumptions of its module; each states a property that a run also
checks.

### 4.1 The engine

`WebSocketClientProofs` has, for any threads, requests and bounds that satisfy
the three assumptions of `WebSocketClient`,

| Theorem | States |
|---|---|
| `TypeCorrect` | `Spec => []TypeOK` |
| `EngineInvariant` | `Spec => []EngineInv` |
| `LockIsReleased` | `Spec => []LockReleasedBeforeBlocking` |
| `JoinStopsTheLoop` | `Spec => []JoinedMeansStopped` |
| `FlushIsExclusive` | `Spec => FlushExclusive` |
| `DeliveryIsOrdered` | `Spec => OrderedDelivery` |
| `HealthyLinkIsSafe` | `Spec => []HealthyLinkNeverTerminates`, if `ReconnectsAfterJoin` |
| `NoStreamIsFreedInUse` | `Spec => []NoDangling`, if `OneManager` |
| `OpenConnectionIsRead` | `Spec => []SomeoneReads`, if `OneManager` |

The inductive invariant is `EngineInv`, which `WebSocketAsync` checks too. None
of the properties is inductive alone. That the lock is not held in a callback
needs the exact owner (`LockOwner`: a runner is in the mutex if and only if it
is in the flush or in a write), which needs that two loops never run at once
(`OneLoop`), which needs that a thread that is not joinable is out of the loop
(`JoinedMeansStopped`), since that is when `runAsync()` starts another. The
refinement needs `MsgInWrite`, because the abstract queue is
`popped \o writeQueue`: with it, `Pop` is a stutter, `Transmit` is `Send`, and
`Discard` and `WriteThrow` are `Lose`, which the guard `~LinkUp` of both allows.
It needs `PushHasRequest` so that `Push` appends exactly one request. The steps
that change `LinkUp` leave queue and wire alone and are `LinkChange`, whose
`Renew` is the identity here. The proof
has one step per action and cites the lemmas on sequences it needs.

The last three theorems are about how the application manages the client, and
have hypotheses on the calls it makes, which are constants of the module.
`ReconnectsAfterJoin`: `Main` connects again only after `disconnect()` has
joined the background thread, as `README.md` of the library does.
`OneManager`: also, callbacks call `connect()` only in an application that runs
the loop in its own thread. They are what the code needs, not what the proof
does. With `"reconnect"`, `SomeoneReads` is violated by `WebSocketReconnect`;
in its application with callbacks that disconnect, `HealthyLinkNeverTerminates`
is violated, too; and with callbacks that connect on a background thread, as in
`WebSocketManage`, TLC finds both `NoDangling` and `SomeoneReads` violated: a
callback connects while `Main` waits in `disconnect()`, or `runAsync()` starts
nothing because the thread that is leaving the loop is still joinable. Both
hypotheses leave everything else open: any number of producers, callbacks that
subscribe and disconnect, and `run()` beside `runAsync()` in turn.

`HealthyLinkIsSafe` rests on `ThreadInv`: who is in which call, and above all
`ClosedBeforeJoin`, a background thread that joins itself out of a callback has
closed the stream before, so that the exception can no longer hit a connection
that works. `SomeoneReads` needs `ServiceInv`. `ThreadReads` and `MainReads` say
that the thread that has to read an open connection is at a place of the loop
from which it comes to the read unless `running` is false; `ThreadRuns` and
`MainRuns` that `running` is true while nobody has begun to disconnect.
`running` is cleared by `disconnect()` and set by the loop, in either order, so
each of them excepts the time in which a thread is in `disconnect()`.
`ManagerInv` says that there only ever is one such thread to except.
`NoDangling` is part of the same induction: that `connect()` finds no thread in
the stream, nor at an `is_open()` of the loop or of `disconnect()`, follows from
`ManagerInv` and `ThreadInv`; that no runner is left with a stale pointer,
because no runner is in a call while another one connects. Other threads'
requests may be left with one.

### 4.2 The sessions

From `SessionAssumption` (the bounds are numbers) and, for the trade client,
`KeysAssumption` (no key is one of the keys):

| Theorem | States |
|---|---|
| `FuturesTypes`, `TradeTypes` | `Spec => []TypeOK` |
| `FuturesNothingMissing`, `TradeNothingMissing` | `Spec => []NothingMissing` |
| `FuturesExtrasAreLeftovers`, `TradeExtrasAreLeftovers` | `Spec => []ExtrasAreLeftovers` |
| `FuturesImplementsPipe`, `TradeImplementsPipe` | `Spec => QueueIsPipe` |
| `SessionCoversPipe` | every step of the pipe is one of the session |

The properties speak of an empty queue and are not inductive. The invariant
`SessionInv` speaks of every queue: a topic for which `WillHold` is one the
server will hold when the queue has been sent, because it holds it or takes a
request for it from the queue, and no later request of the queue ends it. While
the link is up, everything in `wanted` is such a topic, and every such topic is
in `wanted` or `leftover`. A flush moves a request from the queue to the server
and leaves `WillHold` as it is (`FlushKeeps`); a call appends one and changes
`WillHold` and `wanted` alike, provided that the server takes the request for
exactly what the call means. That last part is about the texts of the calls and
is proved for each client: `SymbolTopics`, `KlineTopics` and `TickersTopics`
for futures. With an empty queue `WillHold` is what the server holds
(`DrainedHolds`).

The refinement maps `Ask` to `Accept` (`AskAccepts`, which needs the types: a
request with a method the server does not know is none of the pipe's), `Flush`
to `Send` or `Lose` (`FlushSends`), `Connect` and `LinkDown` to `LinkChange`.
`SessionCoversPipe` is the converse, step by step: what the pipe does with the
queue, the connection and the subscriptions, the session does too, provided that
the histories go along as it keeps them and that the bounds leave room. Without
it the session could owe its properties to a schedule that the engine does not
keep, a queue that is always sent at once, say. With `DeliveryIsOrdered` this is
why the properties of the sessions hold over the engine with its threads. It is
an argument on two instances of the pipe, not one formula: no module has the
engine and the calls of a client in one state.

### 4.3 The calls of SpotTrade

From `OperationsAssumption` (the constants name functions of the class) and
`TimeAssumption` (the clock has at least one tick):

| Theorem | States |
|---|---|
| `CallTypes` | `Spec => []TypeOK` |
| `CallsMakeOnce` | `Spec => []MadeOnce` |
| `EverythingIsAccountedFor` | `Spec => []NothingUnaccounted` |

`CallInv` says that a number names one request (`OneRequest`) and none is ahead
of the counter (`IdsInUse`); that a request on its way has the method and
path of its function, and has been neither carried out nor answered
(`OnItsWay`), without which nothing would keep a second arrival from making a
second order; and that whatever was made has been told to its caller, is in a
reply to a caller that still waits, or belongs to a call given up (`Traced`).

### 4.4 The test programs

| Theorem | States |
|---|---|
| `RepliesKeepApart` | `Spec => []NoClobber` |
| `EverythingIsSummarised` | `Spec => []SummarisedByHand` |
| `RecordingsGrow` | `Spec => RecordsKept` |

`FilesInv`: without the script's directory, a file in the directory of a test
is by that test, and what was written is there (`OwnFiles`, `WrittenOK`); the
parser has handed on nothing but those files (`HandedOK`); recordings are
sequences of lines in directories of their own (`RecordingsOK`), so that no
reply is written over one. `EverythingIsSummarised` is about the test whose
directory the parser was given. The theorems hold for any number of runs and
records; no fairness is used.

### 4.5 The REST calls

From `ArgumentsAssumption` and `InputsAssumption` (arguments and options are
texts of `Characters`, of any length; options have names of the documentation
and not the timestamp; a time is positive):

| Theorem | States |
|---|---|
| `SignatureIsAccepted` | `Spec => []SignatureAccepted` |
| `ArgumentsAreDelivered` | `Spec => []ArgumentsArrive` |
| `SymbolsAreDelivered` | `Spec => []SymbolsArrive` |
| `OutcomeIsKnown` | `Spec => []OutcomeKnown` |

The first three are about the texts of one request, and their proof has these
layers, all of `HttpClientProofs`:

* `FlattenSeq` of a sequence of blocks has each block at a place of its own,
  in order (`Flatten`, `FlattenBlocks`, `BlocksAscend`).
* An escape is read back as the byte it was made of, if the byte has two
  digits (`Escapes`); `Decode` advances by one character or by an escape, which
  is what `urlEncode` wrote, so that `Decode` of `urlEncode` of a text is the
  bytes of the text (`DecodeEncoded`).
* What is escaped holds no `&`, `?` or `/`. Hence the exchange finds the path
  and the query string a URL was made of (`UrlIsRead`), the fields between the
  `&` are the pairs that `buildQueryString` wrote (`FieldsAreBlocks`), and it
  reads each parameter under its name and nothing else (`QueryIsRead`).
* `Reads(q, sent)` says that the exchange reads the parameters `sent` in the
  request `q`, and `Conveys` that what a function sends has what was passed, in
  capitals where it does that, and else only defaults. A request made in one of
  the ways of the library (a plain GET, one with a path, a signed GET, a signed
  POST, spot's signed request) is `Sound`: delivered and accepted (`GetSound`,
  `PathGetSound`, `CommitsSound`, `SignedGetSound`, `PostSound`, `SpotSound`).
* A value of a JSON body is read back as its bytes, if it is valid UTF-8: a high
  byte is the first or the second of a letter (`HighBytes`), the second is the
  one the first has taken (`SecondIsTaken`), and the code point written for the
  two is read as the two (`JsonPoints`, `JsonIsRead`).

`RestClientsProofs` shows for each function of the four classes that it makes
its request in one of these ways from parameters that convey what was passed
(`SpotMarketSends`, `SpotTradeSends`, `FuturesMarketSends`,
`FuturesTradeSends`). This is where a parameter under a wrong name, one that is
lost, or a query string that is not the signed one would show. `RestClients`
instantiates the classes, and so has four more copies of `HttpClient`; the first
lemmas say that the copies agree.

`SymbolsAreDelivered` is about the one parameter a function makes itself, and
compares two ways to cut a list: the loop of `exchangeInfo` jumps from symbol to
symbol, the reference looks at every place. `Still` joins them. It is what the
loop has yet to return at a place: where a segment begins, what it returns from
there, and within a segment, what it returns after the next comma. At each place
`Still` is the entry of the place followed by `Still` of the next one
(`StillEntry`), because the loop skips exactly what trimming removes
(`BlanksAreSkipped`, `EntryIsListed`), so that in the end the loop has returned
the entries in order (`ListIsMeant`). The hypothesis that no symbol is followed
by a space is used at one step only: that the end of the segment is the end of
the trimmed one. What the loop returns is then sent, and read, like any other
parameter (`InfoDelivers`).

`OutcomeIsKnown` is about the order of events, and its inductive invariant is
`CallInv`: a reply that can be read is one the exchange gave for the verdict it
had reached before, the result is what the conversions make of the reply, and
the method that leaves is the one the function passed, unless the function is
`keepaliveUserDataStream`, which is why the theorem leaves it out.

The recursion of `Decode` and `symbolList` is in recursive functions
(`ListReads`, `ListSolves`). The
theorems for induction and recursion of the library take an operator as a
parameter, which the provers cannot instantiate. `Induction`, proved from the
well-foundedness of finite sets of numbers, takes the set of the numbers for
which a formula holds instead; that a function satisfies its recursive
equation is shown by giving one that does.

### 4.6 Only model-checked

Liveness (`CallsReturn` of the engine, `CallsEnd` of `SpotTrade`,
`MarketDataCarriesRequests`, `ScriptEnds`), which is out of the prover's reach:
it needs `ENABLED` and the rules for fairness.

## 5. Not modelled

* Headers other than the signature's time, the option `verbose`, base URLs,
  HTTP status codes (`httpRequest` does not look at them).
* Names of options, which `buildQueryString` does not escape: the application
  is taken to pass names of the exchange's documentation. Likewise a `?` or `#`
  in a path.
* The arithmetic of HMAC-SHA256, and that `futuresSign` concatenates the key,
  the time and the parameters without separators. The types of JSON numbers.
* libcurl's global initialisation and its use of signals: listed as hazards
  without a property, because what happens is decided by the library's build.
* Callbacks set after `connect()`, exceptions thrown by callbacks, the
  destruction of a client in use, and two threads inside `disconnect()`.
* `isConnected()` as a call (it is `IsOpen`), the use of `connected`, which
  nothing reads.
* The summaries the tools print beyond whether there is one. For a reply that is
  an array there is none, which `SummarisedByHand` leaves out: `isMember()`
  throws before `summarize` and its case for arrays are reached
  (`tools/parse_rest_output.cpp:63`), and the file is reported as a parse error.
  `docs/MARKET_API_TEST.md:86` promises the length of an array; most replies of
  the spot tests are arrays.
* The other examples, `third_party/`, build files.

## 6. Plan

Done: the engine with its abstract pipe and its proofs, the sessions of the two
clients with named calls, all REST classes with their conversions and
signatures, the effects of `SpotTrade`'s calls at the exchange, the test
programs and tools.

All safety properties that the passing runs check are proved, and the layers
meet in theorems.

Left: two threads inside `disconnect()`, and exceptions out of callbacks.
