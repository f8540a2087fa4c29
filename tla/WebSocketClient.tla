-------------------------- MODULE WebSocketClient --------------------------
(***************************************************************************)
(* The WebSocket client engine shared by SpotWebSocket, SpotTradeWebSocket *)
(* and FuturesWebSocket (three copies of one design), translated from      *)
(* src/spot_websocket.cpp.                                                 *)
(*                                                                         *)
(* Threads: Main owns the client object and calls connect, disconnect,     *)
(* run and runAsync; the Producers only queue requests (subscribe,         *)
(* unsubscribe, ping); RunThread is the std::thread runAsync starts.  The  *)
(* receive loop run() is executed by Main or by RunThread and calls the    *)
(* user's callbacks, which may call back into the client.                  *)
(*                                                                         *)
(* The Boost.Beast stream and the server are external: their state is      *)
(* what the code can observe of them.                                      *)
(***************************************************************************)
EXTENDS Naturals, Sequences

CONSTANTS
    Main,           \* the application thread that owns the client
    RunThread,      \* impl_->runThread
    Producers,      \* further application threads, which only queue requests
    Requests,       \* serialised requests: subscriptions, pings
    BinaryAware,    \* does the class hand binary frames to onBinary?
    MainCalls,      \* what Main does; "reconnect" is connect() with a
                    \* background run not yet joined by disconnect()
    CallbackCalls,  \* what the user's callbacks do
    MaxRequests,    \* bound: calls that queue a request, in a behaviour
    MaxConnects,    \* bound: calls of connect()
    MaxInbox        \* bound: unread frames the server pushes

ASSUME ThreadsAssumption ==
    /\ Main # RunThread
    /\ Producers \cap {Main, RunThread} = {}

ASSUME UsageAssumption ==
    /\ BinaryAware \in BOOLEAN
    /\ MainCalls \subseteq {"request", "connect", "reconnect", "disconnect",
                            "run", "runAsync"}
    /\ CallbackCalls \subseteq {"request", "connect", "disconnect"}

ASSUME BoundsAssumption ==
    MaxRequests \in Nat /\ MaxConnects \in Nat /\ MaxInbox \in Nat

VARIABLES
    ws,          \* impl_->ws: "null" or the status of the stream it owns
    running,     \* impl_->running
    connected,   \* impl_->connected
    writeQueue,  \* impl_->writeQueue
    writeMutex,  \* impl_->writeMutex: {} or {its owner}
    joinable,    \* impl_->runThread.joinable()
    loop,        \* where Main and RunThread are in run()
    call,        \* where a thread is in a call of the client's methods
    arg,         \* the request a thread is about to queue, as <<>> or <<r>>
    popped,      \* run()'s local msg: taken off the queue, not yet written
    fault,       \* how the process was lost, see Faults
    peer,        \* the server's end of the current connection
    inbox,       \* frames sent by the server that nobody has read
    owed,        \* requests the server has received and not answered
    wire,        \* history: requests handed to a healthy connection
    issued,      \* history: calls of subscribe(), unsubscribe() and ping()
    connects,    \* history: calls of connect()
    serving      \* history: runAsync() was called for the open connection

client == <<running, connected, joinable>>
queue  == <<writeQueue, writeMutex, popped, wire, issued>>
stream == <<ws, peer, inbox, owed>>
hist   == <<fault, connects, serving>>
vars   == <<client, queue, stream, hist, loop, call, arg>>

Runners == {Main, RunThread}
Threads == Runners \cup Producers

Callbacks == {"onMessage", "onBinary", "onClose"}
LoopPCs == Callbacks \cup {"off", "enter", "start", "cond", "lock", "flush",
                           "write", "read", "exit"}
CallPCs == {"none", "connect", "test", "stale", "push", "close", "closeWait", "join"}
Frames  == {"text", "binary", "close"}
Slots   == {<<>>} \cup {<<r>> : r \in Requests}
\* An exception nobody catches; connect() freed the stream under the loop or
\* under disconnect(); it freed it under the is_open() of a request.
Faults  == {"none", "terminate", "dangling", "freed"}

\* Well typed: among others, msg holds one request and the queue only requests.
TypeOK ==
    /\ ws \in {"null", "handshake", "open", "closing", "closed", "failed"}
    /\ running \in BOOLEAN /\ connected \in BOOLEAN /\ joinable \in BOOLEAN
    /\ serving \in BOOLEAN
    /\ writeQueue \in Seq(Requests) /\ wire \in Seq(Requests)
    /\ writeMutex \in SUBSET Runners
    /\ loop \in [Runners -> LoopPCs]
    /\ call \in [Threads -> CallPCs]
    /\ arg \in [Threads -> Slots]
    /\ popped \in Slots
    /\ fault \in Faults
    /\ peer \in {"none", "up", "closed", "gone"}
    /\ inbox \in Seq(Frames)
    /\ owed \in Nat /\ issued \in Nat /\ connects \in Nat

Init ==
    /\ ws = "null" /\ peer = "none" /\ inbox = <<>> /\ owed = 0
    /\ running = FALSE /\ connected = FALSE /\ joinable = FALSE
    /\ writeQueue = <<>> /\ writeMutex = {} /\ popped = <<>> /\ wire = <<>>
    /\ loop = [t \in Runners |-> "off"]
    /\ call = [t \in Threads |-> "none"]
    /\ arg = [t \in Threads |-> <<>>]
    /\ fault = "none" /\ issued = 0 /\ connects = 0 /\ serving = FALSE

-----------------------------------------------------------------------------
(* What the steps are made of. *)

\* impl_->ws && impl_->ws->is_open()
IsOpen == ws = "open"

\* The server will read what is written now.
LinkUp == IsOpen /\ peer = "up"

At(t, pc) == fault = "none" /\ loop[t] = pc
Goto(t, pc) == loop' = [loop EXCEPT ![t] = pc]
In(t, pc) == fault = "none" /\ call[t] = pc
Proceed(t, pc) == call' = [call EXCEPT ![t] = pc]

\* A thread may begin a call when it is in none: Main outside run(), a
\* producer always, and whichever thread runs a callback of the loop.
MayCall(t, op) ==
    /\ In(t, "none")
    /\ \/ t \in Producers /\ op = "request"
       \/ t = Main /\ loop[t] = "off" /\ op \in MainCalls
       \/ t \in Runners /\ loop[t] \in Callbacks /\ op \in CallbackCalls

\* t is inside a read, a write, a close() or a connect() of the stream, all
\* of which outlive it.
UsesStream(t) ==
    \/ t \in Runners /\ loop[t] \in {"write", "read"}
    \/ call[t] \in {"connect", "closeWait"}
\* t is about to test is_open() in run() or disconnect(), or is inside it.
TestsStream(t) ==
    \/ t \in Runners /\ loop[t] \in {"enter", "cond"}
    \/ call[t] = "close"

\* What freeing the stream does to the threads other than t.
FreedUnderOthers(t) ==
    IF \E u \in Threads \ {t} : UsesStream(u) THEN {"dangling"}
    ELSE IF \E u \in Threads \ {t} : TestsStream(u) THEN {"none", "dangling"}
    ELSE {"none"}

-----------------------------------------------------------------------------
(* connect(): the old stream is destroyed first, then a new one is opened.  *)
(* Whoever is in the is_open() of a request is left with the freed stream.  *)

connect(t) ==
    /\ MayCall(t, "connect")
    /\ t = Main => ~joinable \/ "reconnect" \in MainCalls
    /\ connects < MaxConnects
    /\ connects' = connects + 1
    /\ ws' = "handshake" /\ peer' = "none" /\ inbox' = <<>> /\ owed' = 0
    /\ serving' = FALSE
    /\ fault' \in FreedUnderOthers(t)
    /\ call' = [u \in Threads |-> IF u = t THEN "connect"
                                  ELSE IF call[u] = "test" THEN "stale" ELSE call[u]]
    /\ UNCHANGED <<client, queue, loop, arg>>

\* resolve, connect, TLS and WebSocket handshakes; any of them may throw,
\* which leaves the unopened stream in place and returns false.
ConnectReturn(t) ==
    /\ In(t, "connect")
    /\ \/ ws' = "open" /\ peer' = "up" /\ connected' = TRUE
       \/ UNCHANGED <<ws, peer, connected>>
    /\ Proceed(t, "none")
    /\ UNCHANGED <<running, joinable, queue, inbox, owed, hist, loop, arg>>

-----------------------------------------------------------------------------
(* subscribe(), unsubscribe(), ping(): is_open() is tested before the lock  *)
(* is taken, and nothing keeps the stream alive meanwhile.                  *)

request(t) ==
    /\ MayCall(t, "request")
    /\ issued < MaxRequests
    /\ issued' = issued + 1
    /\ Proceed(t, "test")
    /\ UNCHANGED <<client, stream, writeQueue, writeMutex, popped, wire, hist, loop, arg>>

\* The stream is open and the call goes on to queue its request.
GoOnToPush(t) ==
    /\ \E r \in Requests : arg' = [arg EXCEPT ![t] = <<r>>]
    /\ Proceed(t, "push")
\* It is not, and the call returns at once.
ReturnClosed(t) == Proceed(t, "none") /\ UNCHANGED arg

StreamTested(t) ==
    /\ In(t, "test")
    /\ IF IsOpen THEN GoOnToPush(t) ELSE ReturnClosed(t)
    /\ UNCHANGED <<client, stream, queue, hist, loop>>

\* connect() has freed the stream meanwhile: undefined behaviour, which ends
\* the process or gives either answer.
StaleTested(t) ==
    /\ In(t, "stale")
    /\ \/ (GoOnToPush(t) \/ ReturnClosed(t)) /\ UNCHANGED fault
       \/ fault' = "freed" /\ UNCHANGED <<call, arg>>
    /\ UNCHANGED <<client, stream, queue, connects, serving, loop>>

NotLocked == TRUE    \* mutant of MutexFree: std::lock_guard left out
\* std::lock_guard<std::mutex> lk(writeMutex) does not block.
MutexFree == writeMutex = {}

\* The critical section is the push alone, so it is one step.
Push(t) ==
    /\ In(t, "push")
    /\ MutexFree
    /\ writeQueue' = writeQueue \o arg[t]
    /\ arg' = [arg EXCEPT ![t] = <<>>]
    /\ Proceed(t, "none")
    /\ UNCHANGED <<client, stream, writeMutex, popped, wire, issued, hist, loop>>

-----------------------------------------------------------------------------
(* disconnect(): stop the loop, close the stream, join the thread.          *)

disconnect(t) ==
    /\ MayCall(t, "disconnect")
    /\ running' = FALSE /\ connected' = FALSE /\ serving' = FALSE
    /\ Proceed(t, "close")
    /\ UNCHANGED <<joinable, queue, stream, fault, connects, loop, arg>>

CloseSkipped == FALSE    \* mutant of CloseNeeded: the stream is left open
CloseNeeded == IsOpen

\* close() forbids further operations at once and sends the close frame.
CloseStart(t) ==
    /\ In(t, "close")
    /\ \/ CloseNeeded /\ peer # "gone" /\ ws' = "closing" /\ Proceed(t, "closeWait")
       \/ CloseNeeded /\ peer = "gone" /\ ws' = "failed" /\ Proceed(t, "join")
       \/ ~CloseNeeded /\ UNCHANGED ws /\ Proceed(t, "join")
    /\ UNCHANGED <<client, queue, peer, inbox, owed, hist, loop, arg>>

\* close() then reads and drops frames up to the server's close frame.  The
\* loop's read() may take frames too: the code does not keep them apart.
CloseWait(t) ==
    /\ In(t, "closeWait")
    /\ \/ /\ ws \in {"closed", "failed"}
          /\ Proceed(t, "join")
          /\ UNCHANGED <<ws, inbox>>
       \/ /\ ws = "closing" /\ inbox # <<>>
          /\ inbox' = Tail(inbox)
          /\ \/ Head(inbox) = "close" /\ ws' = "closed" /\ Proceed(t, "join")
             \/ Head(inbox) # "close" /\ UNCHANGED <<ws, call>>
       \/ /\ ws = "closing" /\ inbox = <<>> /\ peer = "gone"
          /\ ws' = "failed"
          /\ Proceed(t, "join")
          /\ UNCHANGED inbox
    /\ UNCHANGED <<client, queue, peer, owed, hist, loop, arg>>

Detached == TRUE    \* mutant of JoinReady: detach() in place of join()
JoinReady == loop[RunThread] = "off"

\* join() on the thread itself throws: out of a callback, out of run().
Join(t) ==
    /\ In(t, "join")
    /\ \/ ~joinable /\ Proceed(t, "none") /\ UNCHANGED <<joinable, fault>>
       \/ /\ joinable /\ t # RunThread /\ JoinReady
          /\ joinable' = FALSE
          /\ Proceed(t, "none")
          /\ UNCHANGED fault
       \/ /\ joinable /\ t = RunThread
          /\ fault' = "terminate"
          /\ UNCHANGED <<joinable, call>>
    /\ UNCHANGED <<running, connected, queue, stream, connects, serving, loop, arg>>

-----------------------------------------------------------------------------
(* runAsync() and run().                                                    *)

\* A thread that was not joined keeps runAsync() from starting another.
runAsync(t) ==
    /\ MayCall(t, "runAsync")
    /\ serving' = IsOpen
    /\ \/ joinable /\ UNCHANGED <<joinable, loop>>
       \/ ~joinable /\ joinable' = TRUE /\ Goto(RunThread, "enter")
    /\ UNCHANGED <<running, connected, queue, stream, fault, connects, call, arg>>

\* Main calls run() itself when it has no background thread.
run(t) ==
    /\ MayCall(t, "run")
    /\ ~joinable
    /\ serving' = IsOpen
    /\ Goto(t, "enter")
    /\ UNCHANGED <<client, queue, stream, fault, connects, call, arg>>

RunEnter(t) ==
    /\ At(t, "enter")
    /\ Goto(t, IF IsOpen THEN "start" ELSE "off")
    /\ UNCHANGED <<client, queue, stream, hist, call, arg>>

NotStarted == running    \* mutant of Started: running is not set again
Started == TRUE

RunStart(t) ==
    /\ At(t, "start")
    /\ running' = Started
    /\ Goto(t, "cond")
    /\ UNCHANGED <<connected, joinable, queue, stream, hist, call, arg>>

RunCondition(t) ==
    /\ At(t, "cond")
    /\ Goto(t, IF running /\ IsOpen THEN "lock" ELSE "exit")
    /\ UNCHANGED <<client, queue, stream, hist, call, arg>>

LockQueue(t) ==
    /\ At(t, "lock")
    /\ MutexFree
    /\ writeMutex' = {t}
    /\ Goto(t, "flush")
    /\ UNCHANGED <<client, stream, writeQueue, popped, wire, issued, hist, call, arg>>

\* Mutants of TakenOff: the newest request first; the whole queue at once.
NewestFirst == <<writeQueue[Len(writeQueue)]>>
WholeQueue == writeQueue
TakenOff == <<Head(writeQueue)>>

\* front() and pop(): from here on only the local msg holds the request.
Pop(t) ==
    /\ At(t, "flush")
    /\ writeQueue # <<>>
    /\ popped' = TakenOff
    /\ writeQueue' = Tail(writeQueue)
    /\ Goto(t, "write")
    /\ UNCHANGED <<client, stream, writeMutex, wire, issued, hist, call, arg>>

KeepLock == writeMutex    \* mutant of Released: the guard lives to the end
Released == {}            \* of the iteration, not of the flush

Unlock(t) ==
    /\ At(t, "flush")
    /\ writeQueue = <<>>
    /\ writeMutex' = Released
    /\ Goto(t, "read")
    /\ UNCHANGED <<client, stream, writeQueue, popped, wire, issued, hist, call, arg>>

-----------------------------------------------------------------------------
(* impl_->ws->write(msg), with the mutex held.                              *)

Transmit(t) ==
    /\ At(t, "write")
    /\ LinkUp
    /\ wire' = wire \o popped
    /\ popped' = <<>>
    /\ owed' = owed + 1
    /\ Goto(t, "flush")
    /\ UNCHANGED <<client, writeQueue, writeMutex, issued, ws, peer, inbox, hist, call, arg>>

\* write() returns, but the server has closed or is no longer there.
Discard(t) ==
    /\ At(t, "write")
    /\ ws \in {"open", "closing"} /\ ~LinkUp
    /\ popped' = <<>>
    /\ Goto(t, "flush")
    /\ UNCHANGED <<client, stream, writeQueue, writeMutex, wire, issued, hist, call, arg>>

\* write() throws out of run(): the guard releases the mutex, the popped
\* request is gone, running and connected keep their values.  Out of a
\* std::thread the exception ends the process; Main may catch it.
WriteThrow(t) ==
    /\ At(t, "write")
    /\ ~IsOpen \/ peer = "gone"
    /\ ws' = IF ws = "closed" THEN "closed" ELSE "failed"
    /\ popped' = <<>>
    /\ writeMutex' = {}
    /\ fault' = IF t = RunThread THEN "terminate" ELSE "none"
    /\ Goto(t, "off")
    /\ UNCHANGED <<client, peer, inbox, owed, writeQueue, wire, issued,
                   connects, serving, call, arg>>

-----------------------------------------------------------------------------
(* impl_->ws->read(buffer, ec) and the callbacks.                           *)

CallbackFor(frame) == IF frame = "binary" /\ BinaryAware THEN "onBinary" ELSE "onMessage"

Read(t) ==
    /\ At(t, "read")
    /\ \/ /\ ws \in {"open", "closing"} /\ inbox # <<>>
          /\ inbox' = Tail(inbox)
          /\ \/ Head(inbox) # "close" /\ Goto(t, CallbackFor(Head(inbox))) /\ UNCHANGED ws
             \/ Head(inbox) = "close" /\ Goto(t, "onClose") /\ ws' = "closed"
       \/ /\ ws \in {"open", "closing"} /\ inbox = <<>> /\ peer = "gone"
          /\ ws' = "failed"
          /\ Goto(t, "exit")
          /\ UNCHANGED inbox
       \/ /\ ws \in {"closed", "failed"}
          /\ Goto(t, "exit")
          /\ UNCHANGED <<ws, inbox>>
    /\ UNCHANGED <<client, queue, peer, owed, hist, call, arg>>

ReadAgain == "read"    \* mutant of AfterMessage: the flush is not repeated
AfterMessage == "cond"

\* The callback returns, unless it is inside a call of its own.
CallbackReturn(t) ==
    /\ fault = "none" /\ loop[t] \in Callbacks /\ call[t] = "none"
    /\ Goto(t, IF loop[t] = "onClose" THEN "exit" ELSE AfterMessage)
    /\ UNCHANGED <<client, queue, stream, hist, call, arg>>

RunExit(t) ==
    /\ At(t, "exit")
    /\ connected' = FALSE
    /\ Goto(t, "off")
    /\ UNCHANGED <<running, joinable, queue, stream, hist, call, arg>>

-----------------------------------------------------------------------------
(* The server and the network.                                              *)

Deliver(frame) == inbox' = Append(inbox, frame)

\* Market data, or an update of the account.
PeerPush ==
    /\ fault = "none" /\ peer = "up" /\ Len(inbox) < MaxInbox
    /\ \E frame \in {"text", "binary"} : Deliver(frame)
    /\ UNCHANGED <<client, queue, ws, peer, owed, hist, loop, call, arg>>

\* The acknowledgement of a subscription, a PONG.
PeerAck ==
    /\ fault = "none" /\ peer = "up" /\ owed > 0
    /\ owed' = owed - 1
    /\ Deliver("text")
    /\ UNCHANGED <<client, queue, ws, peer, hist, loop, call, arg>>

\* The server closes the connection, or answers the client's close frame.
PeerClose ==
    /\ fault = "none" /\ peer = "up"
    /\ peer' = "closed"
    /\ Deliver("close")
    /\ UNCHANGED <<client, queue, ws, owed, hist, loop, call, arg>>

\* The connection breaks; what was in flight may be lost with it.
NetFail ==
    /\ fault = "none" /\ peer \in {"up", "closed"}
    /\ peer' = "gone"
    /\ inbox' \in {inbox, <<>>}
    /\ UNCHANGED <<client, queue, ws, owed, hist, loop, call, arg>>

-----------------------------------------------------------------------------
Call(t) ==
    \/ connect(t) \/ disconnect(t) \/ runAsync(t)
    \/ t = Main /\ run(t)
    \/ request(t)

CallStep(t) ==
    \/ ConnectReturn(t) \/ StreamTested(t) \/ StaleTested(t) \/ Push(t)
    \/ CloseStart(t) \/ CloseWait(t) \/ Join(t)

LoopStep(t) ==
    \/ RunEnter(t) \/ RunStart(t) \/ RunCondition(t)
    \/ LockQueue(t) \/ Pop(t) \/ Unlock(t)
    \/ Transmit(t) \/ Discard(t) \/ WriteThrow(t)
    \/ Read(t) \/ CallbackReturn(t) \/ RunExit(t)

Peer == PeerPush \/ PeerAck \/ PeerClose \/ NetFail

\* The process is gone.
Halted == fault # "none" /\ UNCHANGED vars

Next ==
    \/ \E t \in Threads : Call(t) \/ CallStep(t)
    \/ \E t \in Runners : LoopStep(t)
    \/ Peer
    \/ Halted

Spec == Init /\ [][Next]_vars

\* Threads are scheduled and the server answers: a request with an
\* acknowledgement, a close with a close.  The synchronous resolve, connect and
\* handshakes of connect(), which have no deadline, end one way or the other.
\* A mutex that is free again and again is granted in the end (strong fairness
\* of Push).
Fairness ==
    /\ \A t \in Threads : WF_vars(CallStep(t)) /\ SF_vars(Push(t))
    /\ \A t \in Runners : WF_vars(LoopStep(t))
    /\ WF_vars(PeerAck)
    /\ WF_vars(ws = "closing" /\ PeerClose)

FairSpec == Spec /\ Fairness

-----------------------------------------------------------------------------
(* Properties. *)

\* The queue only shrinks while a thread is between LockQueue and Unlock: a
\* flush ends with the queue it found, and nobody else touches std::queue.
FlushExclusive ==
    [][writeMutex # {} /\ writeMutex' = writeMutex
        => Len(writeQueue') <= Len(writeQueue)]_vars

\* run() never waits for the server and never calls user code while it holds
\* writeMutex: a callback that subscribes would wait for itself for ever.
LockReleasedBeforeBlocking ==
    \A t \in writeMutex : loop[t] \notin Callbacks \cup {"read"}

\* Once disconnect() has joined it, the background thread is at its end: no
\* callback runs on it behind the application's back.
JoinedMeansStopped == ~joinable => loop[RunThread] = "off"

\* connect() never frees the stream under the receive loop, under disconnect()
\* or under a request of Main or of a callback, if the application disconnects
\* before it connects again.  It says nothing of the other threads' requests:
\* their is_open() is not synchronised with connect() and may well be stale.
NoDangling == fault # "dangling" /\ \A t \in Runners : call[t] # "stale"

\* Only a connection that is already lost or closed can end the process.
HealthyLinkNeverTerminates == fault = "terminate" => ~LinkUp

\* After run() or runAsync() was called on an open connection some thread is
\* in the receive loop for as long as the connection stays open.
\* (websocket.hpp:40, "start async run in background thread")
SomeoneReads ==
    serving /\ IsOpen /\ fault = "none" => \E t \in Runners : loop[t] # "off"

\* The inductive invariant of the engine: at most one thread is in the loop;
\* the thread between LockQueue and Unlock owns writeMutex; msg holds a request
\* exactly while that thread is in write(); who waits to push has a request.
OneLoop == loop[Main] = "off" \/ loop[RunThread] = "off"
LockOwner == \A t \in Runners : t \in writeMutex <=> loop[t] \in {"flush", "write"}
MsgInWrite == popped # <<>> <=> \E t \in Runners : loop[t] = "write"
PushHasRequest == \A t \in Threads : call[t] = "push" => arg[t] # <<>>
EngineInv ==
    TypeOK /\ OneLoop /\ JoinedMeansStopped /\ LockOwner /\ MsgInWrite /\ PushHasRequest

\* Every call of the client returns: no lock, join or close waits for ever.
CallsReturn == \A t \in Threads : call[t] # "none" ~> call[t] = "none" \/ fault # "none"

\* A queued request reaches the server while the connection is attended to.
\* (README.md, "Call ping() periodically to keep the connection alive")
Attended == serving /\ LinkUp /\ fault = "none"
Pending == popped \o writeQueue
RequestsReachPeer == Attended /\ Pending # <<>> ~> ~Attended \/ Pending = <<>>

\* It does if the server also pushes data of its own, as a market stream does:
\* every frame lets the loop of run() come round to the queue again.
MarketDataCarriesRequests == WF_vars(PeerPush) => RequestsReachPeer

\* Requests leave in the order of their calls, each at most once, and none is
\* lost while the connection is healthy.
\* (The server of the pipe is the list of all it was sent, on any connection.)
AfterAll(sent, r) == Append(sent, r)
AsBefore(sent) == sent
Pipe == INSTANCE RequestPipe WITH
            pending <- Pending, server <- wire, linkUp <- LinkUp,
            Nothing <- <<>>, Take <- AfterAll, Renew <- AsBefore
OrderedDelivery == Pipe!Spec

=============================================================================
