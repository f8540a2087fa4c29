---------------------- MODULE SubscriptionSessionProofs ----------------------
(***************************************************************************)
(* What every client of SubscriptionSession can rely on, whatever topics   *)
(* its calls are about: the lemmas FuturesWebSocketProofs and              *)
(* SpotTradeWebSocketProofs take their invariant from.                     *)
(***************************************************************************)
EXTENDS SubscriptionSession, SequenceTheorems, TLAPS

\* The queued requests from the i-th on do not end the subscription of t.
Spared(i, t) ==
    \A j \in i..Len(pending) : ~(pending[j].verb = "unsub" /\ t \in pending[j].topics)

\* The server will hold t when the queue is sent on this connection.
WillHold(t) ==
    \/ t \in subs /\ Spared(1, t)
    \/ \E i \in 1..Len(pending) :
        pending[i].verb = "sub" /\ t \in pending[i].topics /\ Spared(i + 1, t)

\* The inductive invariant: while the connection lasts, queue and server
\* together amount to what was asked for, up to the leftovers.
SessionInv ==
    linkUp => /\ \A t \in wanted : WillHold(t)
              /\ \A t : WillHold(t) => t \in wanted \cup leftover

RequestsOver(T) == [verb : Verbs, topics : SUBSET T]

-----------------------------------------------------------------------------
LEMMA InitSession == Init => SessionInv
BY DEF Init, SessionInv

\* A drained queue leaves what the server holds.
LEMMA DrainedHolds ==
  ASSUME SessionInv
  PROVE  NothingMissing /\ ExtrasAreLeftovers
<1> SUFFICES ASSUME Drained PROVE wanted \subseteq subs /\ subs \subseteq wanted \cup leftover
  BY DEF NothingMissing, ExtrasAreLeftovers
<1>1. Len(pending) = 0
  BY DEF Drained
<1>2. \A t : WillHold(t) <=> t \in subs
  BY <1>1 DEF WillHold, Spared
<1> QED
  BY <1>2 DEF Drained, SessionInv

\* How a queue changes when a request is queued.
LEMMA Queued ==
  ASSUME NEW T, pending \in Seq(RequestsOver(T)),
         NEW verb \in Verbs, NEW S \in SUBSET T, NEW intent, Ask(verb, S, intent)
  PROVE  /\ pending' \in Seq(RequestsOver(T))
         /\ Len(pending') = Len(pending) + 1
         /\ pending'[Len(pending) + 1] = [verb |-> verb, topics |-> S]
         /\ \A i \in 1..Len(pending) : pending'[i] = pending[i]
<1> DEFINE q == [verb |-> verb, topics |-> S]
<1>1. q \in RequestsOver(T)
  BY DEF RequestsOver
<1>2. pending' = Append(pending, q)
  BY DEF Ask
<1> HIDE DEF q
<1> QED
  BY <1>1, <1>2, AppendProperties DEF q

\* A request changes what the server will hold as it changes what is wanted.
LEMMA AskHolds ==
  ASSUME NEW T, pending \in Seq(RequestsOver(T)),
         NEW verb \in Verbs, NEW S \in SUBSET T, NEW intent, Ask(verb, S, intent), NEW t
  PROVE  WillHold(t)' <=> \/ verb = "sub" /\ t \in S
                          \/ WillHold(t) /\ ~(verb = "unsub" /\ t \in S)
<1> DEFINE n == Len(pending)
           Ends == verb = "unsub" /\ t \in S
<1>n. n \in Nat
  BY LenProperties
<1>1. Len(pending') = n + 1 /\ pending'[n + 1] = [verb |-> verb, topics |-> S]
  BY Queued
<1>2. \A i \in 1..n : pending'[i] = pending[i]
  BY Queued
<1>3. subs' = subs
  BY DEF Ask
<1>4. \A i \in 1..(n + 1) : Spared(i, t)' <=> Spared(i, t) /\ ~Ends
  <2> SUFFICES ASSUME NEW i \in 1..(n + 1) PROVE Spared(i, t)' <=> Spared(i, t) /\ ~Ends
    OBVIOUS
  <2>1. i..(n + 1) = (i..n) \cup {n + 1}
    BY <1>n
  <2>2. \A j \in i..n : j \in 1..n
    BY <1>n
  <2> QED
    BY <2>1, <2>2, <1>1, <1>2 DEF Spared
<1>5. \A i : i = n + 1 => Spared(i + 1, t)'
  BY <1>1, <1>n DEF Spared
<1> HIDE DEF n, Ends
<1>6. ASSUME WillHold(t)', ~(verb = "sub" /\ t \in S)
      PROVE  WillHold(t) /\ ~Ends
  <2>1. CASE t \in subs' /\ Spared(1, t)'
    BY <2>1, <1>3, <1>4, <1>n DEF WillHold
  <2>2. CASE \E i \in 1..Len(pending') :
               /\ pending'[i].verb = "sub" /\ t \in pending'[i].topics
               /\ Spared(i + 1, t)'
    <3>1. PICK i \in 1..(n + 1) :
            pending'[i].verb = "sub" /\ t \in pending'[i].topics /\ Spared(i + 1, t)'
      BY <2>2, <1>1
    <3>2. i # n + 1
      BY <3>1, <1>1, <1>6
    <3>3. i \in 1..n /\ i + 1 \in 1..(n + 1)
      BY <3>2, <1>n
    <3> QED
      BY <3>1, <3>3, <1>2, <1>4 DEF WillHold, n
  <2> QED
    BY <1>6, <2>1, <2>2 DEF WillHold
<1>7. ASSUME verb = "sub" /\ t \in S
      PROVE  WillHold(t)'
  <2>1. PICK i \in 1..Len(pending') : i = n + 1
    BY <1>1, <1>n
  <2>2. pending'[i].verb = "sub" /\ t \in pending'[i].topics
    BY <2>1, <1>1, <1>7
  <2>3. Spared(i + 1, t)'
    BY <2>1, <1>5
  <2> QED
    BY <2>2, <2>3 DEF WillHold
<1>8. ASSUME WillHold(t), ~Ends
      PROVE  WillHold(t)'
  <2>1. CASE t \in subs /\ Spared(1, t)
    BY <2>1, <1>3, <1>4, <1>8, <1>n DEF WillHold
  <2>2. CASE \E i \in 1..n : pending[i].verb = "sub" /\ t \in pending[i].topics /\ Spared(i + 1, t)
    <3>1. PICK i \in 1..n : pending[i].verb = "sub" /\ t \in pending[i].topics /\ Spared(i + 1, t)
      BY <2>2
    <3>2. i \in 1..Len(pending') /\ i + 1 \in 1..(n + 1)
      BY <1>1, <1>n
    <3> QED
      BY <3>1, <3>2, <1>2, <1>4, <1>8 DEF WillHold
  <2> QED
    BY <1>8, <2>1, <2>2 DEF WillHold, n
<1> QED
  BY <1>6, <1>7, <1>8 DEF Ends

-----------------------------------------------------------------------------
\* A call whose request is taken for what it means keeps the invariant.
LEMMA AskKeeps ==
  ASSUME NEW T, pending \in Seq(RequestsOver(T)), SessionInv,
         NEW verb \in Verbs, NEW S \in SUBSET T, Ask(verb, S, S)
  PROVE  SessionInv'
<1> SUFFICES ASSUME linkUp'
             PROVE  /\ \A t \in wanted' : WillHold(t)'
                    /\ \A t : WillHold(t)' => t \in wanted' \cup leftover'
  BY DEF SessionInv
<1>1. linkUp /\ leftover' = leftover /\ wanted' = After(verb, S, wanted)
  BY DEF Ask
<1>2. \A t : WillHold(t)' <=> \/ verb = "sub" /\ t \in S
                              \/ WillHold(t) /\ ~(verb = "unsub" /\ t \in S)
  BY AskHolds
<1>3. \A t : t \in wanted' <=> \/ verb = "sub" /\ t \in S
                               \/ t \in wanted /\ ~(verb = "unsub" /\ t \in S)
  BY <1>1 DEF After
<1> QED
  BY <1>1, <1>2, <1>3 DEF SessionInv

\* A new connection begins with the leftovers; one that is down promises
\* nothing.
LEMMA ConnectKeeps ==
  ASSUME NEW T, pending \in Seq(RequestsOver(T)), Connect
  PROVE  SessionInv'
<1> SUFFICES ASSUME NEW t, WillHold(t)' PROVE t \in leftover'
  BY DEF SessionInv, Connect
<1>1. PICK i \in 1..Len(pending) : pending[i].verb = "sub" /\ t \in pending[i].topics
  BY DEF WillHold, Connect
<1>2. pending[i] \in ToSet(pending)
  BY <1>1 DEF ToSet
<1>3. leftover' = UNION {q.topics : q \in {p \in ToSet(pending) : p.verb = "sub"}}
  BY DEF Connect
<1> QED
  BY <1>1, <1>2, <1>3

LEMMA LinkDownKeeps == LinkDown => SessionInv'
BY DEF LinkDown, SessionInv

\* How a queue changes when its first request is taken.
LEMMA Taken ==
  ASSUME NEW T, pending \in Seq(RequestsOver(T)), Flush
  PROVE  /\ pending' = Tail(pending) /\ pending' \in Seq(RequestsOver(T))
         /\ Len(pending) \in Nat \ {0} /\ Len(pending') = Len(pending) - 1
         /\ \A i \in 1..Len(pending') : pending'[i] = pending[i + 1]
<1>1. pending # <<>> /\ pending' = RemoveAt(pending, 1)
  BY DEF Flush, First
<1>2. Len(pending) \in Nat \ {0}
  BY <1>1, EmptySeq, LenProperties
<1>3. RemoveAt(pending, 1) = SubSeq(pending, 1, 0) \o SubSeq(pending, 2, Len(pending))
  BY DEF RemoveAt
<1>4. SubSeq(pending, 1, 0) = <<>>
  BY SubSeqEmpty
<1>5. SubSeq(pending, 2, Len(pending)) = Tail(pending)
  BY <1>1, HeadTailProperties
<1>6. Tail(pending) \in Seq(RequestsOver(T))
  BY <1>1, HeadTailProperties
<1>7. pending' = Tail(pending)
  BY <1>1, <1>3, <1>4, <1>5, <1>6, ConcatEmptySeq
<1> QED
  BY <1>1, <1>2, <1>6, <1>7, HeadTailProperties

\* Sending the first request moves from the queue to the server what it says.
LEMMA FlushKeeps ==
  ASSUME NEW T, pending \in Seq(RequestsOver(T)), SessionInv, Flush
  PROVE  SessionInv'
<1> SUFFICES ASSUME linkUp' PROVE SessionInv'
  BY DEF SessionInv
<1> DEFINE n == Len(pending)
           q == pending[1]
<1>1. linkUp /\ wanted' = wanted /\ leftover' = leftover
  BY DEF Flush
<1>2. n \in Nat \ {0} /\ Len(pending') = n - 1
  BY Taken
<1>3. \A i \in 1..(n - 1) : pending'[i] = pending[i + 1]
  BY Taken
<1>4. subs' = After(q.verb, q.topics, subs)
  BY <1>1 DEF Flush, First
<1> SUFFICES \A t : WillHold(t)' <=> WillHold(t)
  BY <1>1 DEF SessionInv
<1> TAKE t
<1>5. \A i \in 1..n : Spared(i, t)' <=> Spared(i + 1, t)
  <2> SUFFICES ASSUME NEW i \in 1..n PROVE Spared(i, t)' <=> Spared(i + 1, t)
    OBVIOUS
  <2>1. \A j \in i..(n - 1) : j \in 1..(n - 1) /\ j + 1 \in (i + 1)..n
    BY <1>2
  <2>2. \A j \in (i + 1)..n : j - 1 \in i..(n - 1) /\ (j - 1) + 1 = j
    BY <1>2
  <2>3. ASSUME Spared(i, t)', NEW j \in (i + 1)..n
        PROVE  ~(pending[j].verb = "unsub" /\ t \in pending[j].topics)
    <3>1. /\ j - 1 \in i..Len(pending') /\ j - 1 \in 1..(n - 1)
          /\ (j - 1) + 1 = j
      BY <2>1, <2>2, <2>3, <1>2
    <3>2. pending'[j - 1] = pending[j]
      BY <3>1, <1>3
    <3> HIDE DEF n
    <3> QED
      BY <3>1, <3>2, <2>3 DEF Spared
  <2>4. ASSUME Spared(i + 1, t), NEW j \in i..(n - 1)
        PROVE  ~(pending'[j].verb = "unsub" /\ t \in pending'[j].topics)
    BY <2>1, <2>4, <1>3 DEF Spared
  <2> QED
    BY <2>3, <2>4, <1>2 DEF Spared
<1>6. Spared(1, t) <=> Spared(2, t) /\ ~(q.verb = "unsub" /\ t \in q.topics)
  <2>1. 1..n = {1} \cup (2..n)
    BY <1>2
  <2> QED
    BY <2>1 DEF Spared
<1> HIDE DEF n, q
<1>7. ASSUME WillHold(t)' PROVE WillHold(t)
  <2>1. CASE t \in subs' /\ Spared(1, t)'
    <3>1. Spared(2, t)
      BY <2>1, <1>5, <1>2
    <3>2. CASE q.verb = "sub" /\ t \in q.topics
      <4>1. 1 \in 1..Len(pending) /\ 1 + 1 = 2
        BY <1>2 DEF n
      <4> QED
        BY <4>1, <3>1, <3>2 DEF WillHold, q
    <3>3. CASE ~(q.verb = "sub" /\ t \in q.topics)
      <4>1. t \in subs /\ ~(q.verb = "unsub" /\ t \in q.topics)
        BY <2>1, <3>3, <1>4 DEF After
      <4> QED
        BY <4>1, <3>1, <1>6 DEF WillHold
    <3> QED
      BY <3>2, <3>3
  <2>2. CASE \E i \in 1..Len(pending') :
               /\ pending'[i].verb = "sub" /\ t \in pending'[i].topics
               /\ Spared(i + 1, t)'
    <3>1. PICK i \in 1..(n - 1) :
            pending'[i].verb = "sub" /\ t \in pending'[i].topics /\ Spared(i + 1, t)'
      BY <2>2, <1>2
    <3>2. i + 1 \in 1..n
      BY <1>2
    <3> QED
      BY <3>1, <3>2, <1>3, <1>5 DEF WillHold, n
  <2> QED
    BY <1>7, <2>1, <2>2 DEF WillHold
<1>8. ASSUME WillHold(t) PROVE WillHold(t)'
  <2>1. CASE t \in subs /\ Spared(1, t)
    <3>1. t \in subs'
      BY <2>1, <1>4, <1>6 DEF After
    <3>2. Spared(1, t)'
      BY <2>1, <1>6, <1>5, <1>2
    <3> QED
      BY <3>1, <3>2 DEF WillHold
  <2>2. CASE \E i \in 1..n : pending[i].verb = "sub" /\ t \in pending[i].topics /\ Spared(i + 1, t)
    <3>1. PICK i \in 1..n : pending[i].verb = "sub" /\ t \in pending[i].topics /\ Spared(i + 1, t)
      BY <2>2
    <3>2. CASE i = 1
      <4>1. t \in subs'
        BY <3>1, <3>2, <1>4 DEF After, q
      <4>2. Spared(1, t)'
        BY <3>1, <3>2, <1>5, <1>2
      <4> QED
        BY <4>1, <4>2 DEF WillHold
    <3>3. CASE i # 1
      <4>1. i - 1 \in 1..(n - 1) /\ (i - 1) + 1 = i
        BY <3>3, <1>2
      <4>2. pending'[i - 1] = pending[i] /\ Spared(i, t)'
        BY <4>1, <3>1, <1>3, <1>5
      <4> QED
        BY <4>1, <4>2, <3>1, <1>2 DEF WillHold
    <3> QED
      BY <3>2, <3>3
  <2> QED
    BY <1>8, <2>1, <2>2 DEF WillHold, n
<1> QED
  BY <1>7, <1>8

\* What the connection and the loop do keeps the invariant.
LEMMA SessionStepKeeps ==
  ASSUME NEW T, pending \in Seq(RequestsOver(T)), SessionInv, SessionStep
  PROVE  SessionInv'
BY ConnectKeeps, LinkDownKeeps, FlushKeeps DEF SessionStep

LEMMA SessionStutter == SessionInv /\ UNCHANGED sessionVars => SessionInv'
BY DEF SessionInv, sessionVars, WillHold, Spared

-----------------------------------------------------------------------------
(* Types. *)

LEMMA InitSessionTypeOK == ASSUME NEW T, Init PROVE SessionTypeOK(T)
<1>1. <<>> \in Seq([verb : Verbs, topics : SUBSET T])
  OBVIOUS
<1>2. 0 \in 0..MaxConnects
  BY SessionAssumption
<1> QED
  BY <1>1, <1>2 DEF Init, SessionTypeOK

LEMMA AskTypeOK ==
  ASSUME NEW T, SessionTypeOK(T), NEW verb \in Verbs, NEW S \in SUBSET T, Ask(verb, S, S)
  PROVE  SessionTypeOK(T)'
<1>1. pending' \in Seq(RequestsOver(T))
  BY Queued DEF SessionTypeOK, RequestsOver
<1>2. wanted' \subseteq T
  BY DEF Ask, After, SessionTypeOK
<1> QED
  BY <1>1, <1>2 DEF Ask, SessionTypeOK, RequestsOver

LEMMA SessionStepTypeOK ==
  ASSUME NEW T, SessionTypeOK(T), SessionStep
  PROVE  SessionTypeOK(T)'
<1>0. pending \in Seq(RequestsOver(T))
  BY DEF SessionTypeOK, RequestsOver
<1>1. CASE Connect
  <2>1. \A q \in ToSet(pending) : q \in RequestsOver(T)
    BY <1>0 DEF ToSet
  <2>2. leftover' \subseteq T
    BY <1>1, <2>1 DEF Connect, RequestsOver
  <2>3. connects' \in 0..MaxConnects
    BY <1>1, SessionAssumption DEF Connect, SessionTypeOK
  <2> QED
    BY <1>1, <2>2, <2>3 DEF Connect, SessionTypeOK
<1>2. CASE LinkDown
  BY <1>2 DEF LinkDown, SessionTypeOK
<1>3. CASE Flush
  <2>1. pending' \in Seq(RequestsOver(T))
    BY <1>0, <1>3, Taken
  <2>2. pending[1] \in RequestsOver(T)
    BY <1>0, <1>3, Taken, ElementOfSeq
  <2>3. subs' \subseteq T
    BY <1>3, <2>2 DEF Flush, First, After, RequestsOver, SessionTypeOK
  <2> QED
    BY <1>3, <2>1, <2>3 DEF Flush, SessionTypeOK, RequestsOver
<1> QED
  BY <1>1, <1>2, <1>3 DEF SessionStep

-----------------------------------------------------------------------------
(* The queue is a request pipe. *)

LEMMA InitPipe == ASSUME NEW T, Init PROVE Pipe(T)!Init
BY DEF Init, Pipe!Init

\* A call's request is accepted at the end of the queue.
LEMMA AskAccepts ==
  ASSUME NEW T, pending \in Seq(RequestsOver(T)),
         NEW verb \in Verbs, NEW S \in SUBSET T, NEW intent, Ask(verb, S, intent)
  PROVE  Pipe(T)!Accept
<1> DEFINE q == [verb |-> verb, topics |-> S]
<1>1. q \in [verb : Verbs, topics : SUBSET T]
  OBVIOUS
<1>2. pending' = Append(pending, q) /\ UNCHANGED <<subs, linkUp>>
  BY DEF Ask
<1>3. Len(pending') = Len(pending) + 1 /\ pending'[Len(pending) + 1] = q
  BY Queued
<1>4. pending' # <<>>
  <2>1. Len(pending) \in Nat
    BY LenProperties
  <2>2. Len(pending') # 0
    BY <1>3, <2>1
  <2> QED BY <2>2
<1> HIDE DEF q
<1> QED BY <1>1, <1>2, <1>3, <1>4 DEF Pipe!Accept

\* The loop sends the first request, or loses it.
LEMMA FlushSends ==
  ASSUME NEW T, pending \in Seq(RequestsOver(T)), Flush
  PROVE  Pipe(T)!Send \/ Pipe(T)!Lose
<1>1. pending # <<>> /\ pending' = Tail(pending) /\ linkUp' = linkUp
  BY Taken DEF Flush
<1>2. subs' = IF linkUp THEN After(pending[1].verb, pending[1].topics, subs) ELSE subs
  BY DEF Flush, First
<1>3. Head(pending) = pending[1]
  BY <1>1, HeadTailProperties
<1>4. linkUp => subs' = AfterRequest(subs, Head(pending))
  BY <1>2, <1>3 DEF AfterRequest
<1> QED BY <1>1, <1>2, <1>4 DEF Pipe!Send, Pipe!Lose

\* A new connection, or the end of one, leaves the queue and begins without
\* subscriptions.
LEMMA ConnectionsChange ==
  ASSUME NEW T, Connect \/ LinkDown
  PROVE  Pipe(T)!LinkChange
BY DEF Connect, LinkDown, Pipe!LinkChange, Forgotten

LEMMA SessionStepPipes ==
  ASSUME NEW T, pending \in Seq(RequestsOver(T)), SessionStep
  PROVE  Pipe(T)!Next
BY FlushSends, ConnectionsChange DEF SessionStep, Pipe!Next

\* The other way round, whatever the pipe does with the queue, the connection
\* and the subscriptions, the session does too, with the histories it keeps and
\* within its bounds: it leaves out no schedule of the engine, which implements
\* the pipe (DeliveryIsOrdered).
\* (futures_websocket.cpp, spot_trade_websocket.cpp: run, connect, disconnect)
THEOREM SessionCoversPipe ==
  ASSUME NEW T, pending \in Seq(RequestsOver(T))
  PROVE  /\ (Pipe(T)!Send \/ Pipe(T)!Lose) /\ UNCHANGED <<wanted, leftover, connects>> => Flush
         /\ /\ Pipe(T)!LinkChange /\ linkUp /\ ~linkUp'
            /\ UNCHANGED <<wanted, leftover, connects>>
            => LinkDown
         /\ /\ Pipe(T)!LinkChange
            /\ wanted' = {}
            /\ leftover' = UNION {q.topics : q \in {p \in ToSet(pending) : p.verb = "sub"}}
            /\ IF linkUp' THEN connects < MaxConnects /\ connects' = connects + 1
                          ELSE connects' = connects
            => Connect
         /\ \A verb \in Verbs, S \in SUBSET T :
              /\ Pipe(T)!Accept /\ pending' = Append(pending, [verb |-> verb, topics |-> S])
              /\ connects > 0 /\ Len(pending) < MaxQueue
              /\ wanted' = After(verb, S, wanted) /\ UNCHANGED <<leftover, connects>>
              => Ask(verb, S, S)
<1>1. ASSUME pending # <<>>
      PROVE  RemoveAt(pending, 1) = Tail(pending) /\ Head(pending) = pending[1]
  <2>1. SubSeq(pending, 1, 0) = <<>>
    BY SubSeqEmpty
  <2>2. SubSeq(pending, 2, Len(pending)) = Tail(pending) /\ Head(pending) = pending[1]
    BY <1>1, HeadTailProperties
  <2>3. Tail(pending) \in Seq(RequestsOver(T))
    BY <1>1, HeadTailProperties
  <2> QED BY <2>1, <2>2, <2>3, ConcatEmptySeq DEF RemoveAt
<1>2. ASSUME Pipe(T)!Send \/ Pipe(T)!Lose, UNCHANGED <<wanted, leftover, connects>> PROVE Flush
  BY <1>1, <1>2 DEF Pipe!Send, Pipe!Lose, Flush, First, AfterRequest
<1>3. ASSUME Pipe(T)!LinkChange, linkUp, ~linkUp', UNCHANGED <<wanted, leftover, connects>>
      PROVE  LinkDown
  BY <1>3 DEF Pipe!LinkChange, LinkDown, Forgotten
<1>4. ASSUME Pipe(T)!LinkChange, wanted' = {},
             leftover' = UNION {q.topics : q \in {p \in ToSet(pending) : p.verb = "sub"}},
             IF linkUp' THEN connects < MaxConnects /\ connects' = connects + 1
                        ELSE connects' = connects
      PROVE  Connect
  <2>1. linkUp' \in BOOLEAN /\ subs' = {} /\ UNCHANGED pending
    BY <1>4 DEF Pipe!LinkChange, Forgotten
  <2>2. \/ linkUp' = TRUE /\ connects < MaxConnects /\ connects' = connects + 1
        \/ linkUp' = FALSE /\ UNCHANGED connects
    BY <1>4, <2>1
  <2> QED BY <1>4, <2>1, <2>2 DEF Connect
<1>5. ASSUME NEW verb \in Verbs, NEW S \in SUBSET T, Pipe(T)!Accept,
             pending' = Append(pending, [verb |-> verb, topics |-> S]),
             connects > 0, Len(pending) < MaxQueue,
             wanted' = After(verb, S, wanted), UNCHANGED <<leftover, connects>>
      PROVE  Ask(verb, S, S)
  BY <1>5 DEF Pipe!Accept, Ask
<1> QED BY <1>2, <1>3, <1>4, <1>5

=============================================================================
