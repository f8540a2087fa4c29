----------------------- MODULE WebSocketClientProofs -----------------------
(***************************************************************************)
(* Proofs about WebSocketClient for all threads, requests, bounds and      *)
(* usage patterns.  The theorems of the first sections assume nothing of   *)
(* what the application calls beyond what the module states; those of the  *)
(* last two have a hypothesis on who manages the client, without which the *)
(* properties fail.                                                        *)
(***************************************************************************)
EXTENDS WebSocketClient, SequenceTheorems, TLAPS

-----------------------------------------------------------------------------
(* Type correctness. *)

\* A slot, as a sequence, holds no request or one.
LEMMA SlotIsSeq ==
  ASSUME NEW s \in Slots
  PROVE  s \in Seq(Requests) /\ (s # <<>> => \E r \in Requests : s = <<r>>)
<1>1. CASE s = <<>>
  BY <1>1
<1>2. CASE s # <<>>
  <2>1. PICK r \in Requests : s = <<r>>
    BY <1>2 DEF Slots
  <2> QED
    BY <2>1
<1> QED
  BY <1>1, <1>2

LEMMA InitTypeOK == Init => TypeOK
<1> SUFFICES ASSUME Init PROVE TypeOK
  OBVIOUS
<1> USE DEF Init
<1>1. writeQueue \in Seq(Requests) /\ wire \in Seq(Requests) /\ inbox \in Seq(Frames)
  OBVIOUS
<1>2. writeMutex \in SUBSET Runners /\ loop \in [Runners -> LoopPCs]
  BY DEF Runners, LoopPCs
<1>3. call \in [Threads -> CallPCs]
  BY DEF CallPCs
<1>4. arg \in [Threads -> Slots] /\ popped \in Slots
  BY DEF Slots
<1> QED
  BY <1>1, <1>2, <1>3, <1>4 DEF TypeOK, Faults

\* connect() and the calls that only touch the queue keep the types.
LEMMA RequestCallsTypeOK ==
  ASSUME TypeOK, NEW t \in Threads,
         \/ connect(t) \/ ConnectReturn(t) \/ request(t)
         \/ StreamTested(t) \/ StaleTested(t) \/ Push(t)
  PROVE  TypeOK'
<1> USE DEF TypeOK, CallPCs, Proceed, client, queue, stream, hist
<1>1. CASE connect(t)
  <2>1. fault' \in Faults
    BY <1>1 DEF connect, FreedUnderOthers, Faults
  <2>2. inbox' \in Seq(Frames)
    BY <1>1 DEF connect
  <2>3. call' \in [Threads -> CallPCs]
    BY <1>1 DEF connect
  <2>4. connects' \in Nat
    BY <1>1, BoundsAssumption DEF connect
  <2>7. owed' \in Nat 
    BY <1>1 DEF connect
  <2>8. serving' \in BOOLEAN
    BY <1>1 DEF connect
  <2>5. ws' \in {"null", "handshake", "open", "closing", "closed", "failed"}
        /\ peer' \in {"none", "up", "closed", "gone"}
    BY <1>1 DEF connect
  <2>6. UNCHANGED <<client, queue, loop, arg>>
    BY <1>1 DEF connect
  <2> QED
    BY <2>1, <2>2, <2>3, <2>4, <2>5, <2>6, <2>7, <2>8
<1>2. CASE ConnectReturn(t)
  BY <1>2 DEF ConnectReturn
<1>3. CASE request(t)
  BY <1>3 DEF request
<1>4. CASE StreamTested(t)
  BY <1>4 DEF StreamTested, GoOnToPush, ReturnClosed, Slots
<1>5. CASE StaleTested(t)
  BY <1>5 DEF StaleTested, GoOnToPush, ReturnClosed, Slots, Faults
<1>6. CASE Push(t)
  <2>1. arg[t] \in Seq(Requests)
    BY SlotIsSeq
  <2>2. writeQueue' \in Seq(Requests)
    BY <1>6, <2>1, ConcatProperties DEF Push
  <2>3. arg' \in [Threads -> Slots]
    BY <1>6 DEF Push, Slots
  <2> QED
    BY <1>6, <2>2, <2>3 DEF Push
<1> QED
  BY <1>1, <1>2, <1>3, <1>4, <1>5, <1>6

\* disconnect(), step by step.
LEMMA DisconnectTypeOK ==
  ASSUME TypeOK, NEW t \in Threads,
         disconnect(t) \/ CloseStart(t) \/ CloseWait(t) \/ Join(t)
  PROVE  TypeOK'
<1> USE DEF TypeOK, CallPCs, Proceed, client, queue, stream, hist
<1>1. CASE disconnect(t)
  BY <1>1 DEF disconnect
<1>2. CASE CloseStart(t)
  BY <1>2 DEF CloseStart
<1>3. CASE CloseWait(t)
  <2>1. CASE inbox' = inbox
    BY <1>3, <2>1 DEF CloseWait
  <2>2. CASE inbox # <<>> /\ inbox' = Tail(inbox)
    <3>1. inbox' \in Seq(Frames)
      BY <2>2, HeadTailProperties
    <3> QED
      BY <1>3, <3>1 DEF CloseWait
  <2> QED
    BY <1>3, <2>1, <2>2 DEF CloseWait
<1>4. CASE Join(t)
  BY <1>4 DEF Join, Faults
<1> QED
  BY <1>1, <1>2, <1>3, <1>4

\* runAsync(), run() and the steps of the loop that leave the stream alone.
LEMMA LoopTypeOK ==
  ASSUME TypeOK, NEW t \in Runners,
         \/ runAsync(t) \/ run(t) \/ RunEnter(t) \/ RunStart(t) \/ RunCondition(t)
         \/ LockQueue(t) \/ Pop(t) \/ Unlock(t) \/ CallbackReturn(t) \/ RunExit(t)
  PROVE  TypeOK'
<1> USE DEF TypeOK, LoopPCs, Goto, client, queue, stream, hist
<1>1. CASE runAsync(t)
  BY <1>1 DEF runAsync, Runners, IsOpen
<1>2. CASE run(t)
  BY <1>2 DEF run, IsOpen
<1>3. CASE RunEnter(t)
  BY <1>3 DEF RunEnter
<1>4. CASE RunStart(t)
  BY <1>4 DEF RunStart, Started
<1>5. CASE RunCondition(t)
  BY <1>5 DEF RunCondition
<1>6. CASE LockQueue(t)
  BY <1>6 DEF LockQueue
<1>7. CASE Pop(t)
  <2>1. Head(writeQueue) \in Requests /\ writeQueue' \in Seq(Requests)
    BY <1>7, HeadTailProperties DEF Pop
  <2>2. popped' \in Slots
    BY <1>7, <2>1 DEF Pop, TakenOff, Slots
  <2> QED
    BY <1>7, <2>1, <2>2 DEF Pop
<1>8. CASE Unlock(t)
  BY <1>8 DEF Unlock, Released
<1>9. CASE CallbackReturn(t)
  BY <1>9 DEF CallbackReturn, AfterMessage
<1>10. CASE RunExit(t)
  BY <1>10 DEF RunExit
<1> QED
  BY <1>1, <1>2, <1>3, <1>4, <1>5, <1>6, <1>7, <1>8, <1>9, <1>10

\* The loop's operations on the stream.
LEMMA StreamTypeOK ==
  ASSUME TypeOK, NEW t \in Runners,
         Transmit(t) \/ Discard(t) \/ WriteThrow(t) \/ Read(t)
  PROVE  TypeOK'
<1> USE DEF TypeOK, LoopPCs, Goto, client, queue, stream, hist
<1>1. CASE Transmit(t)
  <2>1. wire' \in Seq(Requests)
    BY <1>1, SlotIsSeq, ConcatProperties DEF Transmit
  <2> QED
    BY <1>1, <2>1 DEF Transmit, Slots
<1>2. CASE Discard(t)
  BY <1>2 DEF Discard, Slots
<1>3. CASE WriteThrow(t)
  BY <1>3 DEF WriteThrow, Slots, Faults
<1>4. CASE Read(t)
  <2>1. inbox' = inbox \/ (inbox # <<>> /\ inbox' = Tail(inbox))
    BY <1>4 DEF Read
  <2>3. inbox' \in Seq(Frames)
    BY <2>1, HeadTailProperties
  <2>2. loop' \in [Runners -> LoopPCs]
    BY <1>4 DEF Read, Callbacks, CallbackFor
  <2> QED
    BY <1>4, <2>2, <2>3 DEF Read
<1> QED
  BY <1>1, <1>2, <1>3, <1>4

LEMMA PeerTypeOK == TypeOK /\ Peer => TypeOK'
<1> SUFFICES ASSUME TypeOK, Peer PROVE TypeOK'
  OBVIOUS
<1> USE DEF TypeOK, Deliver, client, queue, hist
<1>1. CASE PeerPush
  BY <1>1 DEF PeerPush, Frames
<1>2. CASE PeerAck
  <2>1. owed' \in Nat
    BY <1>2 DEF PeerAck, Frames
  <2> QED
    BY <1>2, <2>1 DEF PeerAck, Frames
<1>3. CASE PeerClose
  BY <1>3 DEF PeerClose, Frames
<1>4. CASE NetFail
  <2>1. inbox' = inbox \/ inbox' = <<>>
    BY <1>4 DEF NetFail
  <2>2. CASE inbox' = inbox
    BY <1>4, <2>2 DEF NetFail
  <2>3. CASE inbox' = <<>>
    BY <1>4, <2>3 DEF NetFail
  <2> QED
    BY <2>1, <2>2, <2>3
<1> QED
  BY <1>1, <1>2, <1>3, <1>4 DEF Peer

LEMMA StutterTypeOK == TypeOK /\ UNCHANGED vars => TypeOK'
  BY DEF TypeOK, vars, client, queue, stream, hist

\* run(t) is Main's and runAsync(t) is a runner's: a thread that may make a
\* call other than a request runs the loop or could.
LEMMA CallersAreRunners ==
  ASSUME NEW t \in Threads, NEW op, MayCall(t, op), op # "request"
  PROVE  t \in Runners
  BY DEF MayCall, Runners

LEMMA NextTypeOK == TypeOK /\ [Next]_vars => TypeOK'
<1> SUFFICES ASSUME TypeOK, Next PROVE TypeOK'
  BY StutterTypeOK
<1>1. CASE \E t \in Threads : Call(t) \/ CallStep(t)
  <2>1. PICK t \in Threads : Call(t) \/ CallStep(t)
    BY <1>1
  <2>2. runAsync(t) \/ run(t) => t \in Runners
    BY CallersAreRunners DEF runAsync, run
  <2> QED
    BY <2>1, <2>2, RequestCallsTypeOK, DisconnectTypeOK, LoopTypeOK DEF Call, CallStep
<1>2. CASE \E t \in Runners : LoopStep(t)
  BY <1>2, LoopTypeOK, StreamTypeOK DEF LoopStep
<1>3. CASE Peer
  BY <1>3, PeerTypeOK
<1>4. CASE Halted
  BY <1>4, StutterTypeOK DEF Halted
<1> QED
  BY <1>1, <1>2, <1>3, <1>4 DEF Next

\* Every variable keeps its type, whatever the threads, the server and the
\* network do.
THEOREM TypeCorrect == Spec => []TypeOK
<1>1. Init => TypeOK
  BY InitTypeOK
<1>2. TypeOK /\ [Next]_vars => TypeOK'
  BY NextTypeOK
<1> QED
  BY <1>1, <1>2, PTL DEF Spec

-----------------------------------------------------------------------------
(* The inductive invariant EngineInv.                                       *)

\* The part of it that the receive loop can disturb.
LoopSafe == OneLoop /\ JoinedMeansStopped /\ LockOwner /\ MsgInWrite

\* The thread in the loop owns the mutex between LockQueue and Unlock, and
\* msg holds a request while it writes.
LEMMA InTheLoop ==
  ASSUME TypeOK, LoopSafe, NEW t \in Runners, loop[t] # "off"
  PROVE  /\ writeMutex = IF loop[t] \in {"flush", "write"} THEN {t} ELSE {}
         /\ popped # <<>> <=> loop[t] = "write"
         /\ \A u \in Runners \ {t} : loop[u] = "off"
         /\ t = RunThread => joinable
<1>1. \A u \in Runners \ {t} : loop[u] = "off"
  BY DEF LoopSafe, OneLoop, Runners
<1>2. \A u \in Runners : u \in writeMutex <=> u = t /\ loop[t] \in {"flush", "write"}
  BY <1>1 DEF LoopSafe, LockOwner
<1>3. writeMutex = IF loop[t] \in {"flush", "write"} THEN {t} ELSE {}
  BY <1>2 DEF TypeOK
<1>4. popped # <<>> <=> loop[t] = "write"
  BY <1>1 DEF LoopSafe, MsgInWrite
<1>5. t = RunThread => joinable
  BY DEF LoopSafe, JoinedMeansStopped
<1> QED
  BY <1>1, <1>3, <1>4, <1>5

\* A step of that thread keeps LoopSafe when it keeps the mutex and msg in
\* accord with the place it goes to.
LEMMA LoopMove ==
  ASSUME TypeOK, LoopSafe, NEW t \in Runners, loop[t] # "off",
         NEW pc, Goto(t, pc), UNCHANGED joinable,
         writeMutex' = IF pc \in {"flush", "write"} THEN {t} ELSE {},
         popped' # <<>> <=> pc = "write"
  PROVE  LoopSafe'
<1>1. loop' = [u \in Runners |-> IF u = t THEN pc ELSE "off"]
  BY InTheLoop DEF TypeOK, Goto
<1>2. OneLoop'
  BY <1>1, ThreadsAssumption DEF OneLoop, Runners
<1>3. JoinedMeansStopped'
  BY <1>1, InTheLoop DEF JoinedMeansStopped, Runners
<1>4. LockOwner'
  BY <1>1 DEF LockOwner
<1>5. MsgInWrite'
  BY <1>1 DEF MsgInWrite
<1> QED
  BY <1>2, <1>3, <1>4, <1>5 DEF LoopSafe

\* The steps of the loop between the flushes.
LEMMA LoopControlSafe ==
  ASSUME TypeOK, LoopSafe, NEW t \in Runners,
         \/ RunEnter(t) \/ RunStart(t) \/ RunCondition(t) \/ Read(t)
         \/ CallbackReturn(t) \/ RunExit(t)
  PROVE  LoopSafe'
<1> DEFINE Outside == LoopPCs \ {"lock", "flush", "write"}
<1>1. /\ loop[t] \in Outside \ {"off"}
      /\ UNCHANGED <<joinable, writeMutex, popped>>
  BY DEF RunEnter, RunStart, RunCondition, Read, CallbackReturn, RunExit, At,
         LoopPCs, Callbacks, client, queue, TypeOK
<1>2. \E pc \in Outside \cup {"lock"} : Goto(t, pc)
  BY DEF RunEnter, RunStart, RunCondition, Read, CallbackReturn, RunExit,
         CallbackFor, AfterMessage, LoopPCs, Callbacks, TypeOK
<1>3. writeMutex = {} /\ popped = <<>>
  BY <1>1, InTheLoop
<1> QED
  BY <1>1, <1>2, <1>3, LoopMove

\* The flush: mutex, queue and write().
LEMMA FlushSafe ==
  ASSUME TypeOK, LoopSafe, NEW t \in Runners,
         \/ LockQueue(t) \/ Pop(t) \/ Unlock(t)
         \/ Transmit(t) \/ Discard(t) \/ WriteThrow(t)
  PROVE  LoopSafe'
<1> USE DEF At, client, queue
<1>1. CASE LockQueue(t)
  <2>1. loop[t] = "lock" /\ Goto(t, "flush") /\ writeMutex' = {t}
        /\ UNCHANGED <<joinable, popped>>
    BY <1>1 DEF LockQueue
  <2> QED
    BY <2>1, InTheLoop, LoopMove
<1>2. CASE Pop(t)
  <2>1. loop[t] = "flush" /\ Goto(t, "write") /\ UNCHANGED <<joinable, writeMutex>>
        /\ popped' # <<>>
    BY <1>2 DEF Pop, TakenOff
  <2> QED
    BY <2>1, InTheLoop, LoopMove
<1>3. CASE Unlock(t)
  <2>1. loop[t] = "flush" /\ Goto(t, "read") /\ writeMutex' = {}
        /\ UNCHANGED <<joinable, popped>>
    BY <1>3 DEF Unlock, Released
  <2> QED
    BY <2>1, InTheLoop, LoopMove
<1>4. CASE Transmit(t) \/ Discard(t)
  <2>1. loop[t] = "write" /\ Goto(t, "flush") /\ UNCHANGED <<joinable, writeMutex>>
        /\ popped' = <<>>
    BY <1>4 DEF Transmit, Discard
  <2> QED
    BY <2>1, InTheLoop, LoopMove
<1>5. CASE WriteThrow(t)
  <2>1. loop[t] = "write" /\ Goto(t, "off") /\ UNCHANGED joinable
        /\ writeMutex' = {} /\ popped' = <<>>
    BY <1>5 DEF WriteThrow
  <2> QED
    BY <2>1, LoopMove
<1> QED
  BY <1>1, <1>2, <1>3, <1>4, <1>5

\* The steps that start a loop, and the join that ends one.
LEMMA ThreadSafe ==
  ASSUME TypeOK, LoopSafe, NEW t \in Threads,
         runAsync(t) \/ (t = Main /\ run(t)) \/ Join(t)
  PROVE  LoopSafe'
<1> USE DEF client, queue
<1>1. CASE UNCHANGED <<loop, joinable, writeMutex, popped>>
  BY <1>1 DEF LoopSafe, OneLoop, JoinedMeansStopped, LockOwner, MsgInWrite
<1>2. CASE runAsync(t) /\ ~joinable
  <2>1. Goto(RunThread, "enter") /\ joinable' = TRUE /\ UNCHANGED <<writeMutex, popped>>
    BY <1>2 DEF runAsync
  <2>2. loop[Main] = "off" /\ loop[RunThread] = "off"
    BY <1>2, UsageAssumption DEF runAsync, MayCall, LoopSafe, JoinedMeansStopped
  <2> QED
    BY <2>1, <2>2, ThreadsAssumption
    DEF Goto, TypeOK, Runners, LoopSafe, OneLoop, JoinedMeansStopped, LockOwner, MsgInWrite
<1>3. CASE t = Main /\ run(t)
  <2>1. Goto(Main, "enter") /\ UNCHANGED <<joinable, writeMutex, popped>>
    BY <1>3 DEF run
  <2>2. loop[Main] = "off" /\ loop[RunThread] = "off"
    BY <1>3, UsageAssumption DEF run, MayCall, LoopSafe, JoinedMeansStopped
  <2> QED
    BY <2>1, <2>2, ThreadsAssumption
    DEF Goto, TypeOK, Runners, LoopSafe, OneLoop, JoinedMeansStopped, LockOwner, MsgInWrite
<1>4. CASE Join(t) /\ JoinReady
  <2>1. UNCHANGED <<loop, writeMutex, popped>> /\ loop[RunThread] = "off"
    BY <1>4 DEF Join, JoinReady
  <2> QED
    BY <2>1 DEF LoopSafe, OneLoop, JoinedMeansStopped, LockOwner, MsgInWrite
<1>5. runAsync(t) /\ joinable => UNCHANGED <<loop, joinable, writeMutex, popped>>
  BY DEF runAsync
<1>6. Join(t) /\ ~JoinReady => UNCHANGED <<loop, joinable, writeMutex, popped>>
  BY DEF Join
<1> QED
  BY <1>1, <1>2, <1>3, <1>4, <1>5, <1>6

\* Every other step leaves the loop, the mutex, msg and the thread as they are.
LEMMA OtherSteps ==
  ASSUME \/ \E t \in Threads : \/ connect(t) \/ ConnectReturn(t) \/ request(t)
                               \/ StreamTested(t) \/ StaleTested(t) \/ Push(t)
                               \/ disconnect(t) \/ CloseStart(t) \/ CloseWait(t)
         \/ Peer \/ UNCHANGED vars
  PROVE  UNCHANGED <<loop, joinable, writeMutex, popped>>
  BY DEF connect, ConnectReturn, request, StreamTested, StaleTested, Push,
         disconnect, CloseStart, CloseWait, Peer, PeerPush, PeerAck, PeerClose, NetFail, vars, client, queue

LEMMA NextLoopSafe == TypeOK /\ LoopSafe /\ [Next]_vars => LoopSafe'
<1> SUFFICES ASSUME TypeOK, LoopSafe, [Next]_vars PROVE LoopSafe'
  OBVIOUS
<1>1. CASE UNCHANGED <<loop, joinable, writeMutex, popped>>
  BY <1>1 DEF LoopSafe, OneLoop, JoinedMeansStopped, LockOwner, MsgInWrite
<1>2. CASE \E t \in Threads : Call(t) \/ CallStep(t)
  <2>1. PICK t \in Threads : Call(t) \/ CallStep(t)
    BY <1>2
  <2>2. ASSUME runAsync(t) \/ (t = Main /\ run(t)) \/ Join(t)
        PROVE  LoopSafe'
    BY <2>2, ThreadSafe
  <2>3. ASSUME \/ connect(t) \/ ConnectReturn(t) \/ request(t)
               \/ StreamTested(t) \/ StaleTested(t) \/ Push(t)
               \/ disconnect(t) \/ CloseStart(t) \/ CloseWait(t)
        PROVE  LoopSafe'
    BY <2>3, <1>1, OtherSteps
  <2> QED
    BY <2>1, <2>2, <2>3 DEF Call, CallStep
<1>3. CASE \E t \in Runners : LoopStep(t)
  BY <1>3, LoopControlSafe, FlushSafe DEF LoopStep
<1>4. CASE Peer \/ Halted \/ UNCHANGED vars
  BY <1>1, <1>4, OtherSteps DEF Halted
<1> QED
  BY <1>2, <1>3, <1>4 DEF Next

\* A thread that waits to push holds its request until it has pushed it.
LEMMA NextPushHasRequest ==
  TypeOK /\ PushHasRequest /\ [Next]_vars => PushHasRequest'
<1> SUFFICES ASSUME TypeOK, PushHasRequest, [Next]_vars PROVE PushHasRequest'
  OBVIOUS
<1> USE DEF PushHasRequest, TypeOK, Proceed
<1>1. CASE UNCHANGED <<call, arg>>
  BY <1>1
<1>2. CASE \E t \in Threads : GoOnToPush(t)
  BY <1>2 DEF GoOnToPush
<1>3. CASE \E t \in Threads : Push(t)
  BY <1>3 DEF Push
<1>4. CASE \E t \in Threads : \E pc \in CallPCs \ {"push"} : Proceed(t, pc) /\ UNCHANGED arg
  BY <1>4
<1>9. CASE \E t \in Threads : connect(t)
  BY <1>9 DEF connect
<1>10. ASSUME NEW t \in Threads, StreamTested(t) \/ StaleTested(t)
       PROVE  \/ GoOnToPush(t) \/ UNCHANGED <<call, arg>>
              \/ \E pc \in CallPCs \ {"push"} : Proceed(t, pc) /\ UNCHANGED arg
  BY <1>10 DEF StreamTested, StaleTested, ReturnClosed, CallPCs
<1>5. ASSUME NEW t \in Threads,
             \/ ConnectReturn(t) \/ request(t)
             \/ disconnect(t) \/ CloseStart(t) \/ CloseWait(t) \/ Join(t)
      PROVE  \/ UNCHANGED <<call, arg>>
             \/ \E pc \in CallPCs \ {"push"} : Proceed(t, pc) /\ UNCHANGED arg
  BY <1>5 DEF ConnectReturn, request, disconnect, CloseStart, CloseWait, Join, CallPCs
<1>6. ASSUME NEW t \in Threads, runAsync(t) \/ run(t)
      PROVE  UNCHANGED <<call, arg>>
  BY <1>6 DEF runAsync, run
<1>7. (\E t \in Runners : LoopStep(t)) \/ Peer \/ Halted \/ UNCHANGED vars
        => UNCHANGED <<call, arg>>
  BY DEF LoopStep, RunEnter, RunStart, RunCondition, LockQueue, Pop, Unlock,
         Transmit, Discard, WriteThrow, Read, CallbackReturn, RunExit,
         Peer, PeerPush, PeerAck, PeerClose, NetFail, Halted, vars
<1>8. CASE \E t \in Threads : Call(t) \/ CallStep(t)
  <2>1. PICK t \in Threads : Call(t) \/ CallStep(t)
    BY <1>8
  <2> QED
    BY <2>1, <1>1, <1>2, <1>3, <1>4, <1>5, <1>6, <1>9, <1>10 DEF Call, CallStep
<1> QED
  BY <1>1, <1>7, <1>8 DEF Next

LEMMA InitEngineInv == Init => EngineInv
<1> SUFFICES ASSUME Init PROVE EngineInv
  OBVIOUS
<1>1. TypeOK
  BY InitTypeOK
<1>2. PushHasRequest
  BY DEF Init, PushHasRequest
<1>3. OneLoop /\ JoinedMeansStopped /\ LockOwner /\ MsgInWrite
  BY DEF Init, OneLoop, JoinedMeansStopped, LockOwner, MsgInWrite, Runners
<1> QED
  BY <1>1, <1>2, <1>3 DEF EngineInv

LEMMA NextEngineInv == EngineInv /\ [Next]_vars => EngineInv'
  BY NextTypeOK, NextLoopSafe, NextPushHasRequest DEF EngineInv, LoopSafe

\* At most one thread is in the receive loop; it owns the mutex exactly while
\* it flushes, and msg holds a request exactly while it writes.
THEOREM EngineInvariant == Spec => []EngineInv
<1>1. Init => EngineInv
  BY InitEngineInv
<1>2. EngineInv /\ [Next]_vars => EngineInv'
  BY NextEngineInv
<1> QED
  BY <1>1, <1>2, PTL DEF Spec

\* No callback runs and no read waits while writeMutex is held.
THEOREM LockIsReleased == Spec => []LockReleasedBeforeBlocking
<1>1. EngineInv => LockReleasedBeforeBlocking
  BY DEF EngineInv, TypeOK, LockOwner, LockReleasedBeforeBlocking, Callbacks
<1> QED
  BY <1>1, EngineInvariant, PTL

\* After disconnect() has joined the background thread, it is at its end.
THEOREM JoinStopsTheLoop == Spec => []JoinedMeansStopped
<1>1. EngineInv => JoinedMeansStopped
  BY DEF EngineInv
<1> QED
  BY <1>1, EngineInvariant, PTL

-----------------------------------------------------------------------------
(* The queue: exclusive flushes, and the pipe it implements.                *)

\* Only Push and Pop change the queue.
LEMMA QueueFrame ==
  ASSUME [Next]_vars, \A t \in Threads : ~Push(t), \A t \in Runners : ~Pop(t)
  PROVE  UNCHANGED writeQueue
<1> USE DEF queue
<1>1. ASSUME NEW t \in Threads, Call(t) \/ CallStep(t) PROVE UNCHANGED writeQueue
  BY <1>1 DEF Call, CallStep, connect, disconnect, runAsync, run, request,
              ConnectReturn, StreamTested, StaleTested, CloseStart, CloseWait, Join
<1>2. ASSUME NEW t \in Runners, LoopStep(t) PROVE UNCHANGED writeQueue
  BY <1>2 DEF LoopStep, RunEnter, RunStart, RunCondition, LockQueue, Unlock,
              Transmit, Discard, WriteThrow, Read, CallbackReturn, RunExit
<1>3. Peer \/ Halted \/ UNCHANGED vars => UNCHANGED writeQueue
  BY DEF Peer, PeerPush, PeerAck, PeerClose, NetFail, Halted, vars
<1> QED
  BY <1>1, <1>2, <1>3 DEF Next

\* While a thread flushes, the queue only shrinks: every push waits for it.
THEOREM FlushIsExclusive == Spec => FlushExclusive
<1> DEFINE Shrinks == writeMutex # {} /\ writeMutex' = writeMutex
                        => Len(writeQueue') <= Len(writeQueue)
<1>1. ASSUME TypeOK, [Next]_vars PROVE Shrinks
  <2>1. CASE \E t \in Threads : Push(t)
    BY <2>1 DEF Push, MutexFree
  <2>2. CASE \E t \in Runners : Pop(t)
    <3>1. writeQueue # <<>> /\ writeQueue' = Tail(writeQueue)
      BY <2>2 DEF Pop
    <3>2. Len(writeQueue') = Len(writeQueue) - 1 /\ Len(writeQueue) \in Nat
      BY <3>1, HeadTailProperties, LenProperties DEF TypeOK
    <3> QED
      BY <3>2
  <2>3. CASE UNCHANGED writeQueue
    <3>1. Len(writeQueue) \in Nat
      BY LenProperties DEF TypeOK
    <3> QED
      BY <3>1, <2>3
  <2> QED
    BY <1>1, <2>1, <2>2, <2>3, QueueFrame
<1>2. TypeOK /\ [Next]_vars => [Shrinks]_vars
  BY <1>1
<1> QED
  BY <1>2, TypeCorrect, PTL DEF Spec, FlushExclusive

LEMMA HeadThenTail ==
  ASSUME NEW S, NEW q \in Seq(S), q # <<>>
  PROVE  <<Head(q)>> \o Tail(q) = q
  BY HeadTailProperties, ConcatProperties, SeqEqual, LenProperties

LEMMA FirstOfConcat ==
  ASSUME NEW S, NEW r \in S, NEW q \in Seq(S)
  PROVE  LET s == <<r>> \o q IN s # <<>> /\ Head(s) = r /\ Tail(s) = q
  BY HeadTailProperties, ConcatProperties, SeqEqual, LenProperties

\* A step that neither queues, sends nor loses a request can at most change
\* the state of the connection.
LEMMA LinkStep ==
  ASSUME UNCHANGED <<popped, writeQueue, wire>>
  PROVE  [Pipe!Next]_(Pipe!pipeVars)
<1>1. UNCHANGED <<Pending, wire>>
  BY DEF Pending
<1>2. CASE LinkUp' <=> LinkUp
  <2>1. LinkUp' = LinkUp
    BY <1>2 DEF LinkUp, IsOpen
  <2> QED
    BY <1>1, <2>1 DEF Pipe!pipeVars
<1>3. CASE LinkUp' <=> ~LinkUp
  <2>1. LinkUp' \in BOOLEAN
    BY DEF LinkUp, IsOpen
  <2> QED
    BY <1>1, <2>1 DEF Pipe!Next, Pipe!LinkChange, AsBefore
<1> QED
  BY <1>2, <1>3

\* Push is Accept: the request joins the end of the pipe.
LEMMA PushAccepts ==
  ASSUME EngineInv, NEW t \in Threads, Push(t)
  PROVE  Pipe!Accept
<1> USE DEF EngineInv, TypeOK
<1>1. PICK r \in Requests : arg[t] = <<r>>
  BY SlotIsSeq DEF Push, In, PushHasRequest
<1>2. popped \in Seq(Requests) /\ writeQueue \in Seq(Requests) /\ <<r>> \in Seq(Requests)
  BY <1>1, SlotIsSeq
<1>3. Pending' = popped \o (writeQueue \o <<r>>)
  BY <1>1 DEF Push, Pending
<1>4. Pending' = Pending \o <<r>> /\ Pending \in Seq(Requests)
  BY <1>2, <1>3, ConcatAssociative, ConcatProperties DEF Pending
<1>5. Pending' = Append(Pending, r)
  BY <1>4, AppendIsConcat
<1>6. wire' = wire /\ LinkUp' = LinkUp
  BY DEF Push, stream, LinkUp, IsOpen
<1>7. Pending' # <<>> /\ Pending'[Len(Pending')] = r
  <2>1. Len(Pending) \in Nat /\ Len(Pending') = Len(Pending) + 1
        /\ Pending'[Len(Pending) + 1] = r
    BY <1>4, <1>5, AppendProperties, LenProperties
  <2>2. Len(Pending') # 0
    BY <2>1
  <2> QED
    BY <2>1, <2>2
<1> QED
  BY <1>5, <1>6, <1>7 DEF Pipe!Accept

\* Pop moves a request from the queue to msg: the pipe does not change.
LEMMA PopStutters ==
  ASSUME EngineInv, NEW t \in Runners, Pop(t)
  PROVE  UNCHANGED Pipe!pipeVars
<1>1. popped = <<>>
  BY InTheLoop DEF EngineInv, LoopSafe, Pop, At
<1>2. writeQueue # <<>> /\ writeQueue \in Seq(Requests)
  BY DEF Pop, EngineInv, TypeOK
<1>3. Pending' = <<Head(writeQueue)>> \o Tail(writeQueue)
  BY DEF Pop, TakenOff, Pending
<1>4. Pending' = Pending
  BY <1>1, <1>2, <1>3, HeadThenTail, ConcatEmptySeq DEF Pending
<1>5. wire' = wire /\ LinkUp' = LinkUp
  BY DEF Pop, stream, LinkUp, IsOpen
<1> QED
  BY <1>4, <1>5 DEF Pipe!pipeVars

\* write() takes the first request out of the pipe, for the server or for
\* nobody.
LEMMA WriteSends ==
  ASSUME EngineInv, NEW t \in Runners, Transmit(t) \/ Discard(t) \/ WriteThrow(t)
  PROVE  Pipe!Send \/ Pipe!Lose
<1>1. loop[t] = "write" /\ popped' = <<>> /\ UNCHANGED writeQueue
  BY DEF Transmit, Discard, WriteThrow, At
<1>2. popped # <<>>
  BY <1>1, InTheLoop DEF EngineInv, LoopSafe
<1>3. PICK r \in Requests : popped = <<r>>
  BY <1>2, SlotIsSeq DEF EngineInv, TypeOK
<1>4. Pending # <<>> /\ Head(Pending) = r /\ Tail(Pending) = writeQueue
  BY <1>3, FirstOfConcat DEF Pending, EngineInv, TypeOK
<1>5. Pending' = Tail(Pending)
  BY <1>1, <1>4, ConcatEmptySeq DEF Pending, EngineInv, TypeOK
<1>6. CASE Transmit(t)
  <2>1. LinkUp /\ LinkUp' = LinkUp
    BY <1>6 DEF Transmit, LinkUp, IsOpen
  <2>2. wire' = Append(wire, Head(Pending))
    BY <1>3, <1>4, <1>6, AppendIsConcat DEF Transmit, EngineInv, TypeOK
  <2> QED
    BY <1>4, <1>5, <2>1, <2>2 DEF Pipe!Send, AfterAll
<1>7. CASE Discard(t) \/ WriteThrow(t)
  <2>1. ~LinkUp /\ LinkUp' = LinkUp
    BY <1>7 DEF Discard, WriteThrow, LinkUp, IsOpen, stream
  <2>2. wire' = wire
    BY <1>7 DEF Discard, WriteThrow
  <2> QED
    BY <1>4, <1>5, <2>1, <2>2 DEF Pipe!Lose
<1> QED
  BY <1>6, <1>7

\* The other steps leave the requests where they are.
LEMMA RequestsFrame ==
  ASSUME [Next]_vars,
         \A t \in Threads : ~Push(t),
         \A t \in Runners : ~Pop(t) /\ ~Transmit(t) /\ ~Discard(t) /\ ~WriteThrow(t)
  PROVE  UNCHANGED <<popped, writeQueue, wire>>
<1> USE DEF queue
<1>1. ASSUME NEW t \in Threads, Call(t) \/ CallStep(t)
      PROVE  UNCHANGED <<popped, writeQueue, wire>>
  BY <1>1 DEF Call, CallStep, connect, disconnect, runAsync, run, request,
              ConnectReturn, StreamTested, StaleTested, CloseStart, CloseWait, Join
<1>2. ASSUME NEW t \in Runners, LoopStep(t)
      PROVE  UNCHANGED <<popped, writeQueue, wire>>
  BY <1>2 DEF LoopStep, RunEnter, RunStart, RunCondition, LockQueue, Unlock,
              Read, CallbackReturn, RunExit
<1>3. Peer \/ Halted \/ UNCHANGED vars => UNCHANGED <<popped, writeQueue, wire>>
  BY DEF Peer, PeerPush, PeerAck, PeerClose, NetFail, Halted, vars
<1> QED
  BY <1>1, <1>2, <1>3 DEF Next

LEMMA PipeInit == Init => Pipe!Init
<1> SUFFICES ASSUME Init PROVE Pipe!Init
  OBVIOUS
<1>1. Pending = <<>>
  BY ConcatEmptySeq DEF Init, Pending
<1>2. LinkUp = FALSE
  BY DEF Init, LinkUp, IsOpen
<1> QED
  BY <1>1, <1>2 DEF Init, Pipe!Init

LEMMA PipeNext == EngineInv /\ [Next]_vars => [Pipe!Next]_(Pipe!pipeVars)
<1> SUFFICES ASSUME EngineInv, [Next]_vars PROVE [Pipe!Next]_(Pipe!pipeVars)
  OBVIOUS
<1>1. CASE \E t \in Threads : Push(t)
  BY <1>1, PushAccepts DEF Pipe!Next
<1>2. CASE \E t \in Runners : Pop(t)
  BY <1>2, PopStutters
<1>3. CASE \E t \in Runners : Transmit(t) \/ Discard(t) \/ WriteThrow(t)
  BY <1>3, WriteSends DEF Pipe!Next
<1>4. CASE UNCHANGED <<popped, writeQueue, wire>>
  BY <1>4, LinkStep
<1> QED
  BY <1>1, <1>2, <1>3, <1>4, RequestsFrame

\* The engine implements the pipe: what the server receives is what was
\* queued, in that order and once, and a request is dropped only while the
\* connection is down.
THEOREM DeliveryIsOrdered == Spec => OrderedDelivery
<1>1. Init => Pipe!Init
  BY PipeInit
<1>2. EngineInv /\ [Next]_vars => [Pipe!Next]_(Pipe!pipeVars)
  BY PipeNext
<1> QED
  BY <1>1, <1>2, EngineInvariant, PTL DEF Spec, Pipe!Spec, OrderedDelivery

-----------------------------------------------------------------------------
(* Who manages the client.  The properties below hold for an application    *)
(* that calls connect() again only after disconnect() has joined the        *)
(* background thread, as README.md does.                                    *)

ReconnectsAfterJoin == "reconnect" \notin MainCalls

\* Only Main and callbacks manage the client; the background thread calls it
\* only out of a callback; Main is not in connect() while that thread lives;
\* the stream is no longer open once the background thread waits for its end.
Requesting == {"none", "test", "stale", "push"}
ManagersOnly == \A t \in Producers : call[t] \in Requesting
CallsInCallbacks == call[RunThread] # "none" => loop[RunThread] \in Callbacks
ConnectsAfterJoin == call[Main] = "connect" => ~joinable
ClosedBeforeJoin == call[RunThread] \in {"closeWait", "join"} => ~IsOpen
ThreadInv == ManagersOnly /\ CallsInCallbacks /\ ConnectsAfterJoin /\ ClosedBeforeJoin

\* A process that is lost does nothing more.
LEMMA LostIsLost == [Next]_vars /\ fault # "none" => UNCHANGED vars
<1> USE DEF At, In
<1>1. ASSUME NEW t \in Threads, Call(t) \/ CallStep(t) PROVE fault = "none"
  BY <1>1 DEF Call, CallStep, connect, disconnect, runAsync, run, request, MayCall,
              ConnectReturn, StreamTested, StaleTested, Push, CloseStart, CloseWait, Join
<1>2. ASSUME NEW t \in Runners, LoopStep(t) PROVE fault = "none"
  BY <1>2 DEF LoopStep, RunEnter, RunStart, RunCondition, LockQueue, Pop, Unlock,
              Transmit, Discard, WriteThrow, Read, CallbackReturn, RunExit
<1>3. Peer => fault = "none"
  BY DEF Peer, PeerPush, PeerAck, PeerClose, NetFail
<1> QED
  BY <1>1, <1>2, <1>3 DEF Next, Halted

LEMMA ThreadsApart == Main \in Threads /\ RunThread \in Threads /\ Main # RunThread
                      /\ \A t \in Producers : t \in Threads /\ t # Main /\ t # RunThread
BY ThreadsAssumption DEF Threads, Runners

\* Steps that leave the calls, the join and the stream's status alone.
LEMMA LoopKeepsThreadInv ==
  ASSUME EngineInv, ThreadInv, NEW t \in Runners, LoopStep(t)
  PROVE  ThreadInv'
<1> USE DEF EngineInv, TypeOK, ThreadInv
<1>1. UNCHANGED <<call, joinable>>
  BY DEF LoopStep, RunEnter, RunStart, RunCondition, LockQueue, Pop, Unlock, Transmit,
         Discard, WriteThrow, Read, CallbackReturn, RunExit, client
<1>2. ws' = "open" => ws = "open"
  BY DEF LoopStep, RunEnter, RunStart, RunCondition, LockQueue, Pop, Unlock, Transmit,
         Discard, WriteThrow, Read, CallbackReturn, RunExit, stream
<1>3. CallsInCallbacks'
  <2>1. CASE t = RunThread /\ call[RunThread] # "none"
    <3>1. loop[t] \in Callbacks
      BY <2>1 DEF CallsInCallbacks
    <3> QED
      BY <3>1, <2>1 DEF LoopStep, RunEnter, RunStart, RunCondition, LockQueue, Pop, Unlock,
         Transmit, Discard, WriteThrow, Read, CallbackReturn, RunExit, At, Callbacks
  <2>2. CASE t # RunThread
    <3>1. loop'[RunThread] = loop[RunThread]
      BY <2>2, ThreadsApart DEF Runners, LoopStep, RunEnter, RunStart, RunCondition, LockQueue, Pop,
         Unlock, Transmit, Discard, WriteThrow, Read, CallbackReturn, RunExit, Goto
    <3> QED
      BY <3>1, <1>1 DEF CallsInCallbacks
  <2>3. CASE call[RunThread] = "none"
    BY <2>3, <1>1 DEF CallsInCallbacks
  <2> QED
    BY <2>1, <2>2, <2>3
<1> QED
  BY <1>1, <1>2, <1>3 DEF ManagersOnly, ConnectsAfterJoin, ClosedBeforeJoin, IsOpen

\* connect() is called by Main without a thread, or by the thread itself.
LEMMA ConnectKeepsThreadInv ==
  ASSUME ReconnectsAfterJoin, EngineInv, ThreadInv, NEW t \in Threads,
         connect(t) \/ ConnectReturn(t)
  PROVE  ThreadInv'
<1> USE ThreadsApart DEF EngineInv, TypeOK, Proceed, In, client
<1>1. CASE connect(t)
  <2>1. t \in Runners
    BY <1>1, CallersAreRunners DEF connect
  <2>2. /\ UNCHANGED <<loop, joinable>> /\ ~IsOpen' /\ call'[t] = "connect"
        /\ \A u \in Threads \ {t} :
                call'[u] = IF call[u] = "test" THEN "stale" ELSE call[u]
    BY <1>1 DEF connect, IsOpen
  <2>3. t = RunThread => loop[RunThread] \in Callbacks
    BY <1>1 DEF connect, MayCall
  <2>4. t = Main => ~joinable
    BY <1>1 DEF connect, ReconnectsAfterJoin
  <2> QED
    BY <2>1, <2>2, <2>3, <2>4, ThreadsAssumption
    DEF ThreadInv, ManagersOnly, Requesting, CallsInCallbacks, ConnectsAfterJoin,
        ClosedBeforeJoin, Runners
<1>2. CASE ConnectReturn(t)
  <2>1. call[t] = "connect" /\ call' = [call EXCEPT ![t] = "none"] /\ UNCHANGED <<loop, joinable>>
    BY <1>2 DEF ConnectReturn
  <2>2. t \in Runners
    BY <2>1 DEF ThreadInv, ManagersOnly, Requesting, Threads
  <2>3. t = Main => call[RunThread] = "none"
    BY <2>1, <2>2 DEF ThreadInv, ConnectsAfterJoin, CallsInCallbacks, JoinedMeansStopped, Callbacks
  <2>4. call'[RunThread] \notin {"closeWait", "join"}
    BY <2>1, <2>2, <2>3 DEF Runners
  <2> QED
    BY <2>1, <2>2, <2>4
    DEF ThreadInv, ManagersOnly, Requesting, CallsInCallbacks, ConnectsAfterJoin, ClosedBeforeJoin
<1> QED
  BY <1>1, <1>2

\* disconnect() closes the stream before it waits.
LEMMA DisconnectCloses ==
  ASSUME TypeOK, NEW t \in Threads,
         disconnect(t) \/ CloseStart(t) \/ CloseWait(t) \/ Join(t),
         call[t] \in {"closeWait", "join"} => ~IsOpen
  PROVE  call'[t] \in {"closeWait", "join"} => ~IsOpen'
<1> USE DEF TypeOK, Proceed, In, IsOpen
<1>1. CASE disconnect(t)
  BY <1>1 DEF disconnect
<1>2. CASE CloseStart(t)
  BY <1>2 DEF CloseStart, CloseNeeded
<1>3. CASE CloseWait(t)
  BY <1>3 DEF CloseWait
<1>4. CASE Join(t)
  BY <1>4 DEF Join, stream
<1> QED
  BY <1>1, <1>2, <1>3, <1>4

LEMMA DisconnectKeepsThreadInv ==
  ASSUME EngineInv, ThreadInv, NEW t \in Threads,
         disconnect(t) \/ CloseStart(t) \/ CloseWait(t) \/ Join(t)
  PROVE  ThreadInv'
<1> USE ThreadsApart DEF EngineInv, TypeOK, Proceed, In
<1>1. UNCHANGED loop /\ (joinable' => joinable) /\ (ws' = "open" => ws = "open")
  BY DEF disconnect, CloseStart, CloseWait, Join, client, stream
<1>2. t \in Runners
  BY CallersAreRunners
  DEF disconnect, CloseStart, CloseWait, Join, ThreadInv, ManagersOnly, Requesting, Threads
<1>3. \E pc \in {"none", "close", "closeWait", "join"} : Proceed(t, pc) \/ UNCHANGED call
  BY DEF disconnect, CloseStart, CloseWait, Join
<1>4. t = RunThread => loop[RunThread] \in Callbacks
  BY DEF disconnect, MayCall, CloseStart, CloseWait, Join, ThreadInv, CallsInCallbacks
<1>5. t = RunThread => (call'[t] \in {"closeWait", "join"} => ~IsOpen')
  BY DisconnectCloses DEF ThreadInv, ClosedBeforeJoin
<1> QED
  BY <1>1, <1>2, <1>3, <1>4, <1>5, ThreadsAssumption
  DEF ThreadInv, ManagersOnly, Requesting, CallsInCallbacks, ConnectsAfterJoin,
      ClosedBeforeJoin, IsOpen, Runners

\* The other steps start no call that manages the client, or none at all.
LEMMA OtherStepsKeepThreadInv ==
  ASSUME EngineInv, ThreadInv,
         \/ \E t \in Threads : \/ runAsync(t) \/ (t = Main /\ run(t)) \/ request(t)
                               \/ StreamTested(t) \/ StaleTested(t) \/ Push(t)
         \/ Peer \/ Halted \/ UNCHANGED vars
  PROVE  ThreadInv'
<1> USE ThreadsApart DEF EngineInv, TypeOK, Proceed, In
<1>1. CASE UNCHANGED <<call, joinable, loop, ws>>
  BY <1>1 DEF ThreadInv, ManagersOnly, CallsInCallbacks, ConnectsAfterJoin, ClosedBeforeJoin, IsOpen
<1>2. CASE \E t \in Threads : request(t) \/ StreamTested(t) \/ StaleTested(t) \/ Push(t)
  <2>1. PICK t \in Threads : request(t) \/ StreamTested(t) \/ StaleTested(t) \/ Push(t)
    BY <1>2
  <2>2. UNCHANGED <<joinable, loop, ws>>
        /\ (UNCHANGED call \/ \E pc \in Requesting : Proceed(t, pc))
    BY <2>1 DEF request, StreamTested, StaleTested, GoOnToPush, ReturnClosed, Push,
                Requesting, client, stream
  <2>3. t = RunThread /\ call'[t] # "none" => loop[RunThread] \in Callbacks
    BY <2>1 DEF request, StreamTested, StaleTested, Push, MayCall, ThreadInv, CallsInCallbacks
  <2> QED
    BY <2>2, <2>3 DEF ThreadInv, ManagersOnly, Requesting, CallsInCallbacks, ConnectsAfterJoin,
                      ClosedBeforeJoin, IsOpen
<1>3. CASE \E t \in Threads : runAsync(t) \/ (t = Main /\ run(t))
  <2>1. call[Main] = "none" /\ loop[Main] = "off"
    BY <1>3, UsageAssumption DEF runAsync, run, MayCall
  <2>2. UNCHANGED <<call, ws>>
    BY <1>3 DEF runAsync, run, stream
  <2>3. ~joinable => call[RunThread] = "none"
    BY DEF JoinedMeansStopped, ThreadInv, CallsInCallbacks, Callbacks
  <2>4. \/ UNCHANGED loop
        \/ ~joinable
    BY <1>3 DEF runAsync, run
  <2> QED
    BY <2>1, <2>2, <2>3, <2>4 DEF ThreadInv, ManagersOnly, CallsInCallbacks, ConnectsAfterJoin,
                                  ClosedBeforeJoin, IsOpen
<1>4. Peer \/ Halted \/ UNCHANGED vars => UNCHANGED <<call, joinable, loop, ws>>
  BY DEF Peer, PeerPush, PeerAck, PeerClose, NetFail, Halted, vars, client, stream
<1> QED
  BY <1>1, <1>2, <1>3, <1>4

LEMMA NextThreadInv ==
  ASSUME ReconnectsAfterJoin, EngineInv, ThreadInv, [Next]_vars
  PROVE  ThreadInv'
<1>1. CASE \E t \in Threads : Call(t) \/ CallStep(t)
  BY <1>1, ConnectKeepsThreadInv, DisconnectKeepsThreadInv, OtherStepsKeepThreadInv
  DEF Call, CallStep
<1> QED
  BY <1>1, LoopKeepsThreadInv, OtherStepsKeepThreadInv DEF Next

LEMMA InitThreadInv == Init => ThreadInv
BY ThreadsApart
DEF Init, ThreadInv, ManagersOnly, Requesting, CallsInCallbacks, ConnectsAfterJoin, ClosedBeforeJoin, Runners

\* A process ends in a write that fails, or in the join of a thread with
\* itself; neither happens on a connection that works.
LEMMA NextHealthyLink ==
  ASSUME ReconnectsAfterJoin, EngineInv, ThreadInv, HealthyLinkNeverTerminates, [Next]_vars
  PROVE  HealthyLinkNeverTerminates'
<1>1. CASE fault # "none"
  BY <1>1, LostIsLost DEF HealthyLinkNeverTerminates, LinkUp, IsOpen, vars, stream, hist
<1>2. CASE fault = "none"
  <2>1. CASE fault' # "terminate"
    BY <2>1 DEF HealthyLinkNeverTerminates
  <2>2. CASE \E t \in Threads : Join(t) /\ fault' = "terminate"
    BY <1>2, <2>2 DEF Join, In, ThreadInv, ClosedBeforeJoin, HealthyLinkNeverTerminates, LinkUp, IsOpen, stream
  <2>3. CASE \E t \in Runners : WriteThrow(t)
    BY <2>3 DEF WriteThrow, HealthyLinkNeverTerminates, LinkUp, IsOpen
  <2>4. ASSUME NEW t \in Threads, Call(t) \/ CallStep(t), ~Join(t)
        PROVE  fault' # "terminate"
    BY <1>2, <2>4 DEF Call, CallStep, connect, FreedUnderOthers, disconnect, runAsync,
                 run, request, ConnectReturn, StreamTested, StaleTested, Push, CloseStart,
                 CloseWait, hist
  <2>5. ASSUME NEW t \in Runners, LoopStep(t), ~WriteThrow(t)
        PROVE  fault' = fault
    BY <2>5 DEF LoopStep, RunEnter, RunStart, RunCondition, LockQueue, Pop, Unlock,
                Transmit, Discard, Read, CallbackReturn, RunExit, hist
  <2>6. Peer \/ Halted \/ UNCHANGED vars => fault' = fault
    BY DEF Peer, PeerPush, PeerAck, PeerClose, NetFail, Halted, vars, hist
  <2> QED
    BY <1>2, <2>1, <2>2, <2>3, <2>4, <2>5, <2>6 DEF Next
<1> QED
  BY <1>1, <1>2

\* A connection that works never ends the process, whatever the callbacks do:
\* no callback that disconnects leaves an open connection behind for the join
\* of its own thread, and no write to a server that reads throws.
THEOREM HealthyLinkIsSafe ==
  ASSUME ReconnectsAfterJoin
  PROVE  Spec => []HealthyLinkNeverTerminates
<1> DEFINE Inv == EngineInv /\ ThreadInv /\ HealthyLinkNeverTerminates
<1>1. Init => Inv
  BY InitEngineInv, InitThreadInv DEF Init, HealthyLinkNeverTerminates
<1>2. Inv /\ [Next]_vars => Inv'
  BY NextEngineInv, NextThreadInv, NextHealthyLink
<1> QED
  BY <1>1, <1>2, PTL DEF Spec

-----------------------------------------------------------------------------
(* One thread at a time manages the client: callbacks open no connection    *)
(* while there is a background thread.  Then no stream is freed under one   *)
(* of the two threads that run the loop, and an open connection is read.    *)

OneManager ==
    /\ ReconnectsAfterJoin
    /\ "connect" \in CallbackCalls => "runAsync" \notin MainCalls

\* t is in the loop and will read, unless it finds a reason not to.
Reading(t) == loop[t] \notin {"off", "exit", "onClose"}
\* t has set running.
Begun(t) == loop[t] \notin {"off", "enter", "start"}

\* Only Main connects, and has closed what it disconnects from; while Main is
\* in connect() or disconnect(), no open connection counts as attended to.
ManagerInv ==
    /\ "runAsync" \notin MainCalls => ~joinable
    /\ call[RunThread] # "connect"
    /\ call[Main] \in {"closeWait", "join"} => ~IsOpen
    /\ serving => call[Main] \in {"none", "test", "push"}

\* While the connection is open and nobody has begun to disconnect, the
\* background thread reads it and running is set.  Main, in the loop itself,
\* does so since it called run() on the open connection.
ThreadReads == IsOpen /\ joinable /\ call[Main] # "close" => Reading(RunThread)
ThreadRuns ==
    IsOpen /\ call[Main] # "close" /\ call[RunThread] # "close" /\ Begun(RunThread) => running
MainReads == IsOpen /\ serving => joinable \/ Reading(Main)
MainRuns == IsOpen /\ serving /\ Begun(Main) => running
ServiceInv == ManagerInv /\ ThreadReads /\ ThreadRuns /\ MainReads /\ MainRuns

LEMMA InitServiceInv == Init => ServiceInv
BY ThreadsApart
DEF Init, ServiceInv, ManagerInv, ThreadReads, ThreadRuns, MainReads, MainRuns, IsOpen

\* A step that leaves no open connection has little to keep.
LEMMA ClosedService ==
  ASSUME ~IsOpen', ManagerInv' PROVE ServiceInv'
BY DEF ServiceInv, ThreadReads, ThreadRuns, MainReads, MainRuns

\* Only Main calls connect(), and the background thread is then at its end.
LEMMA ConnectAlone ==
  ASSUME OneManager, EngineInv, ThreadInv, ServiceInv, NEW t \in Threads,
         connect(t) \/ ConnectReturn(t)
  PROVE  /\ t = Main /\ ~joinable
         /\ loop[RunThread] = "off" /\ call[RunThread] = "none"
<1>1. t \in Runners
  BY CallersAreRunners DEF connect, ConnectReturn, In, ThreadInv, ManagersOnly, Requesting, Threads
<1>2. t = Main /\ ~joinable
  <2>1. CASE connect(t)
    <3>1. t = Main => ~joinable
      BY <2>1 DEF connect, OneManager, ReconnectsAfterJoin
    <3>2. t = RunThread => joinable /\ "connect" \in CallbackCalls
      BY <2>1, ThreadsApart DEF connect, MayCall, Callbacks, EngineInv, JoinedMeansStopped
    <3> QED
      BY <1>1, <3>1, <3>2 DEF OneManager, ServiceInv, ManagerInv, Runners
  <2>2. CASE ConnectReturn(t)
    BY <1>1, <2>2 DEF ConnectReturn, In, ServiceInv, ManagerInv, ThreadInv, ConnectsAfterJoin, Runners
  <2> QED
    BY <2>1, <2>2
<1> QED
  BY <1>2 DEF EngineInv, JoinedMeansStopped, ThreadInv, CallsInCallbacks, Callbacks

LEMMA ConnectKeepsService ==
  ASSUME OneManager, EngineInv, ThreadInv, ServiceInv, NoDangling, NEW t \in Threads,
         connect(t) \/ ConnectReturn(t)
  PROVE  ServiceInv' /\ NoDangling'
<1> USE ThreadsApart DEF EngineInv, TypeOK, Proceed, In, client, hist
<1>1. /\ t = Main /\ ~joinable
      /\ loop[RunThread] = "off" /\ call[RunThread] = "none"
  BY ConnectAlone
<1>2. CASE connect(t)
  <2>1. /\ call'[Main] = "connect" /\ call'[RunThread] = "none"
        /\ UNCHANGED <<loop, joinable>> /\ ~IsOpen' /\ serving' = FALSE
    BY <1>1, <1>2 DEF connect, IsOpen
  <2>2. \A u \in Threads \ {t} : ~UsesStream(u) /\ ~TestsStream(u)
    BY <1>1 DEF UsesStream, TestsStream, Threads, Runners, ThreadInv, ManagersOnly, Requesting
  <2>3. fault' = "none"
    BY <1>2, <2>2 DEF connect, FreedUnderOthers
  <2> QED
    BY <1>1, <1>2, <2>1, <2>3, ClosedService DEF NoDangling, ServiceInv, ManagerInv, Runners
<1>3. CASE ConnectReturn(t)
  <2>1. call[Main] = "connect" /\ call' = [call EXCEPT ![Main] = "none"]
        /\ UNCHANGED <<loop, joinable, serving, fault>>
    BY <1>1, <1>3 DEF ConnectReturn
  <2>2. serving = FALSE
    BY <2>1 DEF ServiceInv, ManagerInv
  <2> QED
    BY <1>1, <2>1, <2>2 DEF NoDangling, ServiceInv, ManagerInv, ThreadReads, ThreadRuns,
                            MainReads, MainRuns, Begun
<1> QED
  BY <1>2, <1>3

LEMMA DisconnectKeepsService ==
  ASSUME EngineInv, ThreadInv, ServiceInv, NoDangling, NEW t \in Threads,
         disconnect(t) \/ CloseStart(t) \/ CloseWait(t) \/ Join(t)
  PROVE  ServiceInv' /\ NoDangling'
<1> USE ThreadsApart DEF EngineInv, TypeOK, Proceed, In
<1>1. t \in Runners
  BY CallersAreRunners
  DEF disconnect, CloseStart, CloseWait, Join, ThreadInv, ManagersOnly, Requesting, Threads
<1>2. NoDangling'
  BY DEF disconnect, CloseStart, CloseWait, Join, NoDangling, Runners, Threads, hist
<1>3. UNCHANGED loop /\ (joinable' => joinable)
  BY DEF disconnect, CloseStart, CloseWait, Join, client
<1>4. call'[RunThread] # "connect"
  BY DEF disconnect, CloseStart, CloseWait, Join, ServiceInv, ManagerInv
<1>5. CASE disconnect(t)
  <2>1. call' = [call EXCEPT ![t] = "close"] /\ UNCHANGED <<ws, joinable>> /\ serving' = FALSE
    BY <1>5 DEF disconnect, stream
  <2> QED
    BY <1>1, <1>2, <1>3, <2>1
    DEF ServiceInv, ManagerInv, ThreadReads, ThreadRuns, MainReads, MainRuns, IsOpen,
        Reading, Runners
<1>6. CASE CloseStart(t) \/ CloseWait(t) \/ Join(t)
  <2>1. ~IsOpen'
    BY <1>1, <1>6 DEF CloseStart, CloseNeeded, CloseWait, Join, IsOpen, stream, Runners,
                 ServiceInv, ManagerInv, ThreadInv, ClosedBeforeJoin
  <2>2. serving' = serving /\ (t = Main => ~serving) /\ \A u \in Threads \ {t} : call'[u] = call[u]
    BY <1>6 DEF CloseStart, CloseWait, Join, hist, ServiceInv, ManagerInv
  <2>3. ManagerInv'
    BY <1>1, <1>3, <1>4, <2>1, <2>2 DEF ServiceInv, ManagerInv, Runners
  <2> QED
    BY <1>2, <2>1, <2>3, ClosedService
<1> QED
  BY <1>5, <1>6

\* run() and runAsync() begin to serve; requests leave the service as it is.
LEMMA CallsKeepService ==
  ASSUME EngineInv, ThreadInv, ServiceInv, NoDangling, NEW t \in Threads,
         \/ runAsync(t) \/ (t = Main /\ run(t))
         \/ request(t) \/ StreamTested(t) \/ StaleTested(t) \/ Push(t)
  PROVE  ServiceInv' /\ NoDangling'
<1> USE ThreadsApart DEF EngineInv, TypeOK, Proceed, In
<1>1. UNCHANGED ws /\ fault' # "dangling"
  BY DEF runAsync, run, request, StreamTested, StaleTested, Push, stream, hist, NoDangling
<1>2. CASE request(t) \/ StreamTested(t) \/ StaleTested(t) \/ Push(t)
  <2>1. UNCHANGED <<loop, joinable, running, serving>>
    BY <1>2 DEF request, StreamTested, StaleTested, Push, client, hist
  <2>2. /\ call[t] \in Requesting
        /\ UNCHANGED call \/ \E pc \in {"none", "test", "push"} : Proceed(t, pc)
    BY <1>2 DEF request, StreamTested, StaleTested, GoOnToPush, ReturnClosed, Push, MayCall,
                Requesting
  <2>3. \A u \in Runners : call'[u] # "stale"
    BY <2>2 DEF NoDangling, Runners, Threads
  <2> QED
    BY <1>1, <2>1, <2>2, <2>3 DEF ServiceInv, ManagerInv, Requesting, ThreadReads, ThreadRuns,
                            MainReads, MainRuns, NoDangling, IsOpen, Reading, Begun
<1>3. CASE runAsync(t) \/ (t = Main /\ run(t))
  <2>1. call[Main] = "none" /\ loop[Main] = "off" /\ UNCHANGED <<call, running>>
    BY <1>3, UsageAssumption DEF runAsync, run, MayCall, client
  <2>2. CASE runAsync(t)
    <3>1. joinable' /\ "runAsync" \in MainCalls /\ loop'[Main] = "off"
      BY <2>1, <2>2, UsageAssumption DEF runAsync, MayCall, Goto, Runners
    <3>2. (joinable /\ UNCHANGED loop) \/ (loop'[RunThread] = "enter")
      BY <2>2 DEF runAsync, Goto, Runners
    <3> QED
      BY <1>1, <2>1, <3>1, <3>2 DEF ServiceInv, ManagerInv, ThreadReads, ThreadRuns, MainReads,
                            MainRuns, NoDangling, IsOpen, Reading, Begun
  <2>3. CASE t = Main /\ run(t)
    <3>1. ~joinable /\ UNCHANGED joinable /\ loop'[Main] = "enter" /\ loop'[RunThread] = loop[RunThread]
      BY <2>3 DEF run, Goto, Runners, client
    <3> QED
      BY <1>1, <2>1, <3>1 DEF ServiceInv, ManagerInv, ThreadReads, ThreadRuns, MainReads,
                            MainRuns, NoDangling, IsOpen, Reading, Begun
  <2> QED
    BY <1>3, <2>2, <2>3
<1> QED
  BY <1>2, <1>3

\* The loop goes on to read an open connection, unless running was cleared.
LEMMA LoopGoesOn ==
  ASSUME TypeOK, NEW t \in Runners, LoopStep(t), IsOpen'
  PROVE  /\ IsOpen /\ \A u \in Runners \ {t} : loop'[u] = loop[u]
         /\ Reading(t) => Reading(t)' \/ (loop[t] = "cond" /\ ~running)
         /\ Begun(t)' => running' \/ (Begun(t) /\ UNCHANGED running)
<1> USE DEF TypeOK, LoopPCs, Callbacks, Goto, At, IsOpen, Reading, Begun, client, stream
<1>1. CASE RunEnter(t) \/ RunStart(t) \/ RunCondition(t) \/ RunExit(t)
  BY <1>1 DEF RunEnter, RunStart, Started, RunCondition, RunExit
<1>2. CASE LockQueue(t) \/ Pop(t) \/ Unlock(t)
  BY <1>2 DEF LockQueue, Pop, Unlock
<1>3. CASE Transmit(t) \/ Discard(t) \/ WriteThrow(t)
  BY <1>3 DEF Transmit, Discard, WriteThrow
<1>4. CASE Read(t) \/ CallbackReturn(t)
  BY <1>4 DEF Read, CallbackFor, CallbackReturn, AfterMessage
<1> QED
  BY <1>1, <1>2, <1>3, <1>4 DEF LoopStep

LEMMA LoopKeepsService ==
  ASSUME EngineInv, ThreadInv, ServiceInv, NoDangling, NEW t \in Runners, LoopStep(t)
  PROVE  ServiceInv' /\ NoDangling'
<1> USE ThreadsApart DEF EngineInv
<1>1. UNCHANGED <<call, joinable, serving>>
  BY DEF LoopStep, RunEnter, RunStart, RunCondition, LockQueue, Pop, Unlock, Transmit,
         Discard, WriteThrow, Read, CallbackReturn, RunExit, client, hist
<1>2. NoDangling'
  BY DEF LoopStep, RunEnter, RunStart, RunCondition, LockQueue, Pop, Unlock, Transmit,
         Discard, WriteThrow, Read, CallbackReturn, RunExit, hist, NoDangling
<1>3. CASE ~IsOpen'
  <2>1. ManagerInv'
    BY <1>1, <1>3 DEF ServiceInv, ManagerInv
  <2> QED
    BY <1>2, <1>3, <2>1, ClosedService
<1>4. CASE IsOpen'
  <2>1. /\ IsOpen /\ \A u \in Runners \ {t} : loop'[u] = loop[u]
        /\ Reading(t) => Reading(t)' \/ (loop[t] = "cond" /\ ~running)
        /\ Begun(t)' => running' \/ (Begun(t) /\ UNCHANGED running)
    BY <1>4, LoopGoesOn
  <2>2. loop[t] # "off"
    BY DEF LoopStep, RunEnter, RunStart, RunCondition, LockQueue, Pop, Unlock, Transmit,
           Discard, WriteThrow, Read, CallbackReturn, RunExit, At, Callbacks
  <2>3. \A u \in Runners \ {t} : loop[u] = "off"
    BY <2>2 DEF OneLoop, Runners
  <2>4. CASE t = RunThread
    <3>1. ThreadReads'
      BY <1>1, <2>1, <2>4 DEF ServiceInv, ThreadReads, ThreadRuns, ThreadInv, CallsInCallbacks,
                              Callbacks, Begun
    <3>2. ThreadRuns'
      BY <1>1, <2>1, <2>4 DEF ServiceInv, ThreadRuns
    <3>3. MainReads' /\ MainRuns'
      BY <1>1, <2>1, <2>3, <2>4 DEF ServiceInv, MainReads, MainRuns, Reading, Begun, Runners
    <3> QED
      BY <1>1, <1>2, <2>1, <3>1, <3>2, <3>3 DEF ServiceInv, ManagerInv
  <2>5. CASE t = Main
    <3>1. MainReads'
      BY <1>1, <2>1, <2>5 DEF ServiceInv, MainReads, MainRuns, Begun
    <3>2. MainRuns'
      BY <1>1, <2>1, <2>5 DEF ServiceInv, MainRuns
    <3>3. ThreadReads' /\ ThreadRuns'
      BY <1>1, <2>1, <2>3, <2>5 DEF ServiceInv, ThreadReads, ThreadRuns, Reading, Begun, Runners
    <3> QED
      BY <1>1, <1>2, <2>1, <3>1, <3>2, <3>3 DEF ServiceInv, ManagerInv
  <2> QED
    BY <2>4, <2>5 DEF Runners
<1> QED
  BY <1>3, <1>4

LEMMA NextService ==
  ASSUME OneManager, EngineInv, ThreadInv, ServiceInv, NoDangling, [Next]_vars
  PROVE  ServiceInv' /\ NoDangling'
<1>1. CASE \E t \in Threads : Call(t) \/ CallStep(t)
  BY <1>1, ConnectKeepsService, DisconnectKeepsService, CallsKeepService DEF Call, CallStep
<1>2. CASE \E t \in Runners : LoopStep(t)
  BY <1>2, LoopKeepsService
<1>3. CASE Peer \/ Halted \/ UNCHANGED vars
  <2>1. UNCHANGED <<ws, call, loop, joinable, running, serving, fault>>
    BY <1>3 DEF Peer, PeerPush, PeerAck, PeerClose, NetFail, Halted, vars, client, stream, hist
  <2> QED
    BY <2>1 DEF ServiceInv, ManagerInv, ThreadReads, ThreadRuns, MainReads, MainRuns,
                Reading, Begun, IsOpen, NoDangling
<1> QED
  BY <1>1, <1>2, <1>3 DEF Next

\* The three invariants together, for an application with one manager.
LEMMA ServiceInvariant ==
  ASSUME OneManager
  PROVE  Spec => [](EngineInv /\ ThreadInv /\ ServiceInv /\ NoDangling)
<1> DEFINE Inv == EngineInv /\ ThreadInv /\ ServiceInv /\ NoDangling
<1>1. Init => Inv
  BY InitEngineInv, InitThreadInv, InitServiceInv DEF Init, NoDangling, Runners, Threads
<1>2. Inv /\ [Next]_vars => Inv'
  BY NextEngineInv, NextThreadInv, NextService DEF OneManager
<1> QED
  BY <1>1, <1>2, PTL DEF Spec

\* connect() destroys no stream that the receive loop or disconnect() is in,
\* nor one that Main or a callback is about to queue a request on.  What other
\* threads' requests find in is_open() is outside it, see NoDangling.
THEOREM NoStreamIsFreedInUse ==
  ASSUME OneManager
  PROVE  Spec => []NoDangling
BY ServiceInvariant, PTL

\* An open connection that run() or runAsync() was called for is read: the
\* thread that is in the loop stays there, and a thread that can be joined is
\* in the loop.
THEOREM OpenConnectionIsRead ==
  ASSUME OneManager
  PROVE  Spec => []SomeoneReads
<1>1. ServiceInv => SomeoneReads
  BY ThreadsAssumption
  DEF ServiceInv, ManagerInv, ThreadReads, MainReads, Reading, SomeoneReads, Runners
<1> QED
  BY <1>1, ServiceInvariant, PTL

=============================================================================
