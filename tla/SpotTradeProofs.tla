--------------------------- MODULE SpotTradeProofs ---------------------------
(***************************************************************************)
(* Proofs about SpotTrade for any callers, orders, keys, operations and    *)
(* bounds.                                                                 *)
(***************************************************************************)
EXTENDS SpotTrade, TLAPS

\* A request has the method and the path that its function passes down.
Faithful(q) ==
    q.method = CurlMethod(Endpoint[q.op][1]) /\ q.path = Endpoint[q.op][2]

WaitingTyped == waiting \in [Callers -> Requests \cup {None}]

\* A number belongs to one call: nothing on its way has been carried out, or
\* answered, before.
IdsInUse ==
    /\ \A q \in net : q.id <= calls
    /\ \A p \in placed : p[2] <= calls
    /\ \A r \in replies : r.id <= calls
    /\ \A c \in Callers : waiting[c].id <= calls
OneRequest ==
    /\ \A q1, q2 \in net : q1.id = q2.id => q1 = q2
    /\ \A q \in net : \A p \in placed : q.id # p[2]
    /\ \A q \in net : \A r \in replies : q.id # r.id
    /\ \A r1, r2 \in replies : r1.id = r2.id => r1 = r2
    /\ \A c1, c2 \in Callers : Waits(c1) /\ waiting[c1].id = waiting[c2].id => c1 = c2

\* A request on its way is that of a caller that waits, or has given up.
OnItsWay ==
    \A q \in net :
        /\ Faithful(q)
        /\ q.id \in silent \/ \E c \in Callers : waiting[c] = q
        /\ \A c \in Callers : waiting[c].id = q.id => waiting[c] = q

\* What was made is known, given up, or in a reply to the caller that waits.
Traced(p) ==
    \/ p[1] \in told
    \/ p[2] \in silent
    \/ \E c \in Callers : \E r \in replies :
        /\ waiting[c].id = p[2] /\ waiting[c].op = p[3]
        /\ r.id = p[2] /\ p[1] \in r.made

\* The inductive invariant.
CallInv ==
    /\ TypeOK /\ WaitingTyped
    /\ IdsInUse /\ OneRequest /\ OnItsWay
    /\ MadeOnce
    /\ \A p \in placed : p[3] \in Makers /\ Traced(p)

-----------------------------------------------------------------------------
(* Facts about single definitions.                                          *)

LEMMA NoneIsNoRequest == None \notin Requests /\ None.id = 0
BY DEF None, Requests

LEMMA WaitersHaveIds ==
  ASSUME CallInv, NEW c \in Callers, Waits(c)
  PROVE  waiting[c].id # None.id
BY NoneIsNoRequest DEF CallInv, TypeOK, Requests

\* What the exchange makes for a request of SpotTrade is nothing or one thing,
\* and a thing only for a call that says so.
LEMMA MadeIsOne ==
  ASSUME NEW q \in Requests, Faithful(q), NEW made \in MadeFor(q)
  PROVE  /\ made \subseteq Things
         /\ \A x, y \in made : x = y
         /\ made # {} => q.op \in Makers
<1>0. q.op \in DOMAIN Endpoint
  BY OperationsAssumption DEF Requests
<1>1. CASE Is(q, "POST", "/order")
  <2>0. ~Is(q, "POST", "/userDataStream")
    BY <1>1 DEF Is
  <2>1. \E x \in Orders : made = {x}
    BY <1>1, <2>0 DEF MadeFor
  <2>2. q.op = "newOrder"
    BY <1>0, <1>1 DEF Is, Faithful, Endpoint, CurlMethod
  <2> QED
    BY <2>1, <2>2 DEF Things, Makers
<1>2. CASE Is(q, "POST", "/userDataStream")
  <2>0. ~Is(q, "POST", "/order")
    BY <1>2 DEF Is
  <2>1. \E x \in Keys : made = {x}
    BY <1>2, <2>0 DEF MadeFor
  <2>2. q.op = "createUserDataStream"
    <3>1. Endpoint[q.op][1] = "POST" /\ Endpoint[q.op][2] = "/userDataStream"
      BY <1>2 DEF Is, Faithful, CurlMethod
    <3> QED
      BY <1>0, <3>1 DEF Endpoint
  <2> QED
    BY <2>1, <2>2 DEF Things, Makers
<1>3. CASE ~Is(q, "POST", "/order") /\ ~Is(q, "POST", "/userDataStream")
  <2>1. made = {}
    BY <1>3 DEF MadeFor
  <2> QED
    BY <2>1
<1> QED
  BY <1>1, <1>2, <1>3

\* An application passes what it was told of.
LEMMA ArgumentsAreKnown ==
  ASSUME TypeOK, NEW op \in Operations, NEW args \in Arguments(op)
  PROVE  /\ removeEmptyParams(args) \subseteq Things
         /\ op = "closeUserDataStream" => args \ {Empty} \subseteq Keys
<1>1. told \subseteq Things
  BY DEF TypeOK
<1>2. CASE op \in {"cancelOrder", "queryOrder"}
  <2>1. \E x \in told \cap Orders : args = {x}
    BY <1>2 DEF Arguments
  <2> QED
    BY <1>2, <2>1 DEF removeEmptyParams, Things
<1>3. CASE op \in {"keepaliveUserDataStream", "closeUserDataStream"}
  <2>1. \E x \in (told \cap Keys) \cup {Empty} : args = {x}
    BY <1>3 DEF Arguments
  <2> QED
    BY <2>1 DEF removeEmptyParams, Things
<1>4. CASE /\ op \notin {"cancelOrder", "queryOrder"}
           /\ op \notin {"keepaliveUserDataStream", "closeUserDataStream"}
  <2>1. args = {}
    BY <1>4 DEF Arguments
  <2> QED
    BY <2>1 DEF removeEmptyParams
<1> QED
  BY <1>2, <1>3, <1>4

\* The request a function makes.
RequestOf(op, args) ==
    [id |-> calls + 1, op |-> op, method |-> CurlMethod(Endpoint[op][1]),
     path |-> Endpoint[op][2], params |-> removeEmptyParams(args)]

LEMMA RequestIsTyped ==
  ASSUME TypeOK, calls < MaxCalls, NEW op \in Operations, NEW args \in Arguments(op)
  PROVE  RequestOf(op, args) \in Requests /\ Faithful(RequestOf(op, args))
<1>1. op \in DOMAIN Endpoint
  BY OperationsAssumption
<1>2. CurlMethod(Endpoint[op][1]) \in HttpMethods
  <2>1. "GET" \in HttpMethods
    <3>1. "openOrders" \in DOMAIN Endpoint /\ Endpoint["openOrders"][1] = "GET"
      BY DEF Endpoint
    <3> QED
      BY <3>1 DEF HttpMethods
  <2> QED
    BY <1>1, <2>1 DEF CurlMethod, HttpMethods
<1>3. calls + 1 \in 1..MaxCalls
  BY TimeAssumption DEF TypeOK
<1>4. removeEmptyParams(args) \in SUBSET Things
  BY ArgumentsAreKnown
<1>5. Endpoint[op][2] \in {Endpoint[o][2] : o \in Operations}
  OBVIOUS
<1> HIDE DEF Endpoint
<1> QED
  BY <1>2, <1>3, <1>4, <1>5 DEF RequestOf, Requests, Faithful

-----------------------------------------------------------------------------
LEMMA InitCallInv == Init => CallInv
<1> SUFFICES ASSUME Init PROVE CallInv
  OBVIOUS
<1>1. TypeOK
  BY TimeAssumption DEF Init, TypeOK, Waits
<1>2. WaitingTyped /\ IdsInUse /\ OneRequest
  BY NoneIsNoRequest DEF Init, WaitingTyped, IdsInUse, OneRequest, Waits
<1>3. OnItsWay /\ MadeOnce /\ \A p \in placed : p[3] \in Makers /\ Traced(p)
  BY DEF Init, OnItsWay, MadeOnce
<1> QED
  BY <1>1, <1>2, <1>3 DEF CallInv

\* A call takes the next number, which nothing has yet.
LEMMA RequestKeeps ==
  ASSUME CallInv, NEW c \in Callers, NEW op \in Operations, NEW args \in Arguments(op),
         signedRequest(c, op, args)
  PROVE  CallInv'
<1> DEFINE q == RequestOf(op, args)
<1>1. q \in Requests /\ Faithful(q) /\ q.id = calls + 1
  BY RequestIsTyped DEF CallInv, signedRequest, RequestOf
<1>2. /\ waiting' = [waiting EXCEPT ![c] = q] /\ net' = net \cup {q}
      /\ calls' = calls + 1 /\ ~Waits(c) /\ calls < MaxCalls
  BY DEF signedRequest, RequestOf
<1>3. UNCHANGED <<replies, open, expiry, placed, clock, told, silent, extended>>
  BY DEF signedRequest, exchange
<1> HIDE DEF q
<1>4. calls \in Nat /\ waiting[c] = None
  BY <1>2, TimeAssumption DEF CallInv, TypeOK, Waits
<1>5. WaitingTyped'
  BY <1>1, <1>2 DEF CallInv, WaitingTyped
<1>6. \A d \in Callers : waiting'[d] = IF d = c THEN q ELSE waiting[d]
  BY <1>2 DEF CallInv, WaitingTyped
<1>7. TypeOK'
  <2>1. closed' \subseteq Keys
    BY ArgumentsAreKnown DEF CallInv, TypeOK, signedRequest
  <2>2. calls' \in 0..MaxCalls
    BY <1>2, <1>4, TimeAssumption
  <2>3. \A d \in Callers : Waits(d)' => waiting'[d] \in Requests
    BY <1>1, <1>6 DEF CallInv, TypeOK, Waits
  <2>4. \A x \in net' : x \in Requests
    BY <1>1, <1>2 DEF CallInv, TypeOK
  <2> QED
    BY <1>3, <2>1, <2>2, <2>3, <2>4 DEF CallInv, TypeOK
<1>8. IdsInUse'
  <2>1. \A i \in Nat : i <= calls => i <= calls'
    BY <1>2, <1>4
  <2>2. /\ \A x \in net : x.id \in Nat
        /\ \A p \in placed : p[2] \in Nat
        /\ \A r \in replies : r.id \in Nat
        /\ \A d \in Callers : waiting[d].id \in Nat
    BY NoneIsNoRequest DEF CallInv, TypeOK, WaitingTyped, Requests, Replies
  <2>3. q.id <= calls'
    BY <1>1, <1>2, <1>4
  <2> QED
    BY <1>2, <1>3, <1>6, <2>1, <2>2, <2>3 DEF CallInv, IdsInUse
<1>9. \A i \in Nat : i <= calls => i # q.id
  BY <1>1, <1>4
<1>10. /\ \A x \in net : x.id # q.id
       /\ \A p \in placed : p[2] # q.id
       /\ \A r \in replies : r.id # q.id
       /\ \A d \in Callers : waiting[d].id # q.id
  <2>1. /\ \A x \in net : x.id \in Nat
        /\ \A p \in placed : p[2] \in Nat
        /\ \A r \in replies : r.id \in Nat
        /\ \A d \in Callers : waiting[d].id \in Nat
    BY NoneIsNoRequest DEF CallInv, TypeOK, WaitingTyped, Requests, Replies
  <2> QED
    BY <1>9, <2>1 DEF CallInv, IdsInUse
<1>11. OneRequest'
  BY <1>2, <1>3, <1>6, <1>10 DEF CallInv, OneRequest, Waits
<1>12. OnItsWay'
  <2>1. \A x \in net : \A d \in Callers : waiting[d] = x => d # c
    BY <1>4, NoneIsNoRequest DEF CallInv, TypeOK
  <2>2. \A x \in net : Faithful(x)
    BY DEF CallInv, OnItsWay
  <2> QED
    BY <1>1, <1>2, <1>3, <1>6, <1>10, <2>1, <2>2 DEF CallInv, OnItsWay, Faithful
<1>13. \A p \in placed' : p[3] \in Makers /\ Traced(p)'
  <2> SUFFICES ASSUME NEW p \in placed PROVE p[3] \in Makers /\ Traced(p)'
    BY <1>3
  <2>1. p[3] \in Makers /\ Traced(p)
    BY DEF CallInv
  <2>2. \A d \in Callers : waiting[d].id = p[2] => d # c
    <3>1. p[2] \in 1..MaxCalls
      BY DEF CallInv, TypeOK
    <3> QED
      BY <3>1, <1>4, NoneIsNoRequest
  <2> QED
    BY <1>3, <1>6, <2>1, <2>2 DEF Traced
<1>14. MadeOnce'
  BY <1>3 DEF CallInv, MadeOnce
<1> QED
  BY <1>5, <1>7, <1>8, <1>11, <1>12, <1>13, <1>14 DEF CallInv

\* Its reply answers a call and makes what it made known.
LEMMA ReturnKeeps ==
  ASSUME CallInv, NEW c \in Callers, Return(c)
  PROVE  CallInv'
<1>1. PICK r \in replies :
        /\ r.id = waiting[c].id
        /\ replies' = replies \ {r}
        /\ told' = IF waiting[c].op \in Makers THEN told \cup r.made ELSE told
        /\ extended' = [k \in Keys |->
             IF /\ waiting[c].op = "keepaliveUserDataStream" /\ r.ok
                /\ k \in waiting[c].params /\ expiry[k] > clock
             THEN clock ELSE extended[k]]
  BY DEF Return
<1>2. Waits(c) /\ waiting' = [waiting EXCEPT ![c] = None]
  BY DEF Return
<1>3. UNCHANGED <<net, open, expiry, placed, clock, calls, silent, closed>>
  BY DEF Return, exchange
<1>4. \A d \in Callers : waiting'[d] = IF d = c THEN None ELSE waiting[d]
  BY <1>2 DEF CallInv, WaitingTyped
<1>5. r \in Replies /\ r.made \subseteq Things
  BY <1>1 DEF CallInv, TypeOK, Replies
<1>6. WaitingTyped'
  BY <1>2 DEF CallInv, WaitingTyped
<1>7. TypeOK'
  <2>1. told' \subseteq Things
    BY <1>1, <1>5 DEF CallInv, TypeOK
  <2>2. extended' \in [Keys -> 0..MaxClock]
    <3>1. clock \in 0..MaxClock
      BY TimeAssumption DEF CallInv, TypeOK
    <3> QED
      BY <1>1, <3>1 DEF CallInv, TypeOK
  <2>3. \A d \in Callers : Waits(d)' => waiting'[d] \in Requests
    BY <1>4 DEF CallInv, TypeOK, Waits
  <2>4. \A x \in replies' : x \in Replies
    BY <1>1 DEF CallInv, TypeOK
  <2> QED
    BY <1>3, <2>1, <2>2, <2>3, <2>4 DEF CallInv, TypeOK
<1>8. IdsInUse'
  <2>1. None.id <= calls
    BY NoneIsNoRequest DEF CallInv, TypeOK
  <2> QED
    BY <1>1, <1>3, <1>4, <2>1 DEF CallInv, IdsInUse
<1>9. OneRequest'
  <2>1. ASSUME NEW c1 \in Callers, NEW c2 \in Callers,
               Waits(c1)', waiting'[c1].id = waiting'[c2].id
        PROVE  c1 = c2
    BY <1>4, <2>1, WaitersHaveIds DEF CallInv, OneRequest, Waits
  <2> QED
    BY <1>1, <1>3, <2>1 DEF CallInv, OneRequest
<1>10. OnItsWay'
  <2>1. \A x \in net : x.id # waiting[c].id /\ x # waiting[c] /\ x.id # 0
    <3>1. \A x \in net : x.id # r.id
      BY DEF CallInv, OneRequest
    <3>2. \A x \in net : x.id # 0
      BY DEF CallInv, TypeOK, Requests
    <3> QED
      BY <1>1, <3>1, <3>2
  <2>2. \A x \in net : x.id # None.id
    BY <2>1, NoneIsNoRequest
  <2> QED
    BY <1>3, <1>4, <2>1, <2>2 DEF CallInv, OnItsWay, Faithful
<1>11. \A p \in placed' : p[3] \in Makers /\ Traced(p)'
  <2> SUFFICES ASSUME NEW p \in placed PROVE p[3] \in Makers /\ Traced(p)'
    BY <1>3
  <2>1. p[3] \in Makers /\ Traced(p)
    BY DEF CallInv
  <2>2. CASE p[1] \in told
    BY <1>1, <2>1, <2>2 DEF Traced
  <2>3. CASE p[2] \in silent
    BY <1>3, <2>1, <2>3 DEF Traced
  <2>4. ASSUME NEW d \in Callers, NEW s \in replies,
               waiting[d].id = p[2], waiting[d].op = p[3], s.id = p[2], p[1] \in s.made
        PROVE  Traced(p)'
    <3>1. CASE d = c
      <4>1. s = r
        BY <1>1, <2>4, <3>1 DEF CallInv, OneRequest
      <4> QED
        BY <1>1, <2>1, <2>4, <3>1, <4>1 DEF Traced
    <3>2. CASE d # c
      <4>1. s # r
        BY <1>1, <1>2, <2>4, <3>2 DEF CallInv, OneRequest
      <4> QED
        BY <1>1, <1>4, <2>4, <3>2, <4>1 DEF Traced
    <3> QED
      BY <3>1, <3>2
  <2> QED
    BY <2>1, <2>2, <2>3, <2>4 DEF Traced
<1>12. MadeOnce'
  BY <1>3 DEF CallInv, MadeOnce
<1> QED
  BY <1>6, <1>7, <1>8, <1>9, <1>10, <1>11, <1>12 DEF CallInv

\* A call that is given up leaves its request where it is.
LEMMA ReturnNullKeeps ==
  ASSUME CallInv, NEW c \in Callers, ReturnNull(c)
  PROVE  CallInv'
<1>1. /\ Waits(c) /\ waiting' = [waiting EXCEPT ![c] = None]
      /\ silent' = silent \cup {waiting[c].id}
      /\ replies' = {r \in replies : r.id # waiting[c].id}
      /\ net' = net
  BY DEF ReturnNull, TimesOut, Retries
<1>2. UNCHANGED <<open, expiry, placed, clock, calls, told, extended, closed>>
  BY DEF ReturnNull, exchange
<1>3. \A d \in Callers : waiting'[d] = IF d = c THEN None ELSE waiting[d]
  BY <1>1 DEF CallInv, WaitingTyped
<1>4. WaitingTyped'
  BY <1>1 DEF CallInv, WaitingTyped
<1>5. TypeOK'
  <2>1. silent' \subseteq 1..MaxCalls
    BY <1>1 DEF CallInv, TypeOK, Requests
  <2>2. \A d \in Callers : Waits(d)' => waiting'[d] \in Requests
    BY <1>3 DEF CallInv, TypeOK, Waits
  <2> QED
    BY <1>1, <1>2, <2>1, <2>2 DEF CallInv, TypeOK
<1>6. IdsInUse'
  <2>1. None.id <= calls
    BY NoneIsNoRequest DEF CallInv, TypeOK
  <2> QED
    BY <1>1, <1>2, <1>3, <2>1 DEF CallInv, IdsInUse
<1>7. OneRequest'
  <2>1. ASSUME NEW c1 \in Callers, NEW c2 \in Callers,
               Waits(c1)', waiting'[c1].id = waiting'[c2].id
        PROVE  c1 = c2
    BY <1>3, <2>1, WaitersHaveIds DEF CallInv, OneRequest, Waits
  <2> QED
    BY <1>1, <1>2, <2>1 DEF CallInv, OneRequest
<1>8. OnItsWay'
  <2>1. \A x \in net : x.id # None.id
    BY NoneIsNoRequest DEF CallInv, TypeOK, Requests
  <2>2. \A x \in net : x = waiting[c] => x.id \in silent'
    BY <1>1
  <2> QED
    BY <1>1, <1>3, <2>1, <2>2 DEF CallInv, OnItsWay, Faithful
<1>9. \A p \in placed' : p[3] \in Makers /\ Traced(p)'
  <2> SUFFICES ASSUME NEW p \in placed PROVE p[3] \in Makers /\ Traced(p)'
    BY <1>2
  <2>1. p[3] \in Makers /\ Traced(p)
    BY DEF CallInv
  <2>2. CASE p[2] = waiting[c].id
    BY <1>1, <2>1, <2>2 DEF Traced
  <2>3. CASE p[2] # waiting[c].id
    BY <1>1, <1>2, <1>3, <2>1, <2>3 DEF Traced
  <2> QED
    BY <2>2, <2>3
<1>10. MadeOnce'
  BY <1>2 DEF CallInv, MadeOnce
<1> QED
  BY <1>4, <1>5, <1>6, <1>7, <1>8, <1>9, <1>10 DEF CallInv

-----------------------------------------------------------------------------
\* A reply travels back only to a caller that waits for it.
LEMMA AnswerKeeps ==
  ASSUME CallInv, NEW q \in net, NEW ok \in BOOLEAN, NEW made \in SUBSET Things,
         Answer(q, ok, made)
  PROVE  /\ \A r \in replies' : r \in Replies
         /\ \A r \in replies' : r \in replies \/ (r.id = q.id /\ r.made = made)
         /\ \A r1, r2 \in replies' : r1.id = r2.id => r1 = r2
         /\ replies \subseteq replies'
         /\ (\E c \in Callers : waiting[c].id = q.id) =>
              \E r \in replies' : r.id = q.id /\ r.made = made
<1> DEFINE a == [id |-> q.id, ok |-> ok, made |-> made]
<1>1. a \in Replies /\ a.id = q.id /\ a.made = made
  BY DEF CallInv, TypeOK, Requests, Replies
<1>2. \A r \in replies : r.id # q.id
  BY DEF CallInv, OneRequest
<1>3. \A r \in replies : r \in Replies
  BY DEF CallInv, TypeOK
<1>4. \A r1, r2 \in replies : r1.id = r2.id => r1 = r2
  BY DEF CallInv, OneRequest
<1> HIDE DEF a
<1>5. CASE \E c \in Callers : waiting[c].id = q.id
  <2>1. replies' = replies \cup {a}
    BY <1>5 DEF Answer, a
  <2>2. \A r1, r2 \in replies' : r1.id = r2.id => r1 = r2
    BY <1>1, <1>2, <1>4, <2>1
  <2> QED
    BY <1>1, <1>3, <2>1, <2>2
<1>6. CASE ~\E c \in Callers : waiting[c].id = q.id
  <2>1. replies' = replies
    BY <1>6 DEF Answer
  <2> QED
    BY <1>3, <1>4, <1>6, <2>1
<1> QED
  BY <1>5, <1>6

\* What holds after a request has left the network, whatever was made of it.
LEMMA ArrivalKeeps ==
  ASSUME CallInv, NEW q \in net, NEW ok \in BOOLEAN, NEW made \in SUBSET Things,
         net' = net \ {q}, Answer(q, ok, made), UNCHANGED <<waiting, calls, silent, told>>,
         placed' = placed \cup (made \X {q.id} \X {q.op}),
         \A x, y \in made : x = y, made # {} => q.op \in Makers
  PROVE  /\ WaitingTyped' /\ IdsInUse' /\ OneRequest' /\ OnItsWay' /\ MadeOnce'
         /\ \A p \in placed' : p[3] \in Makers /\ Traced(p)'
<1>1. \A r \in replies' : r \in replies \/ (r.id = q.id /\ r.made = made)
  BY AnswerKeeps
<1>2. \A r1, r2 \in replies' : r1.id = r2.id => r1 = r2
  BY AnswerKeeps
<1>3. replies \subseteq replies'
  BY AnswerKeeps
<1>4. (\E c \in Callers : waiting[c].id = q.id) =>
        \E r \in replies' : r.id = q.id /\ r.made = made
  BY AnswerKeeps
<1>5. \A p \in placed' : \/ p \in placed
                           \/ /\ p[1] \in made /\ p[2] = q.id /\ p[3] = q.op
                              /\ p = <<p[1], q.id, q.op>>
  <2>1. ASSUME NEW p \in made \X {q.id} \X {q.op}
        PROVE  /\ p[1] \in made /\ p[2] = q.id /\ p[3] = q.op
               /\ p = <<p[1], q.id, q.op>>
    BY <2>1
  <2> QED
    BY <2>1
<1>6. \A x \in net' : x \in net /\ x.id # q.id
  BY DEF CallInv, OneRequest
<1>7. WaitingTyped'
  BY DEF CallInv, WaitingTyped
<1>8. IdsInUse'
  BY <1>1, <1>5 DEF CallInv, IdsInUse
<1>9. OneRequest'
  BY <1>1, <1>2, <1>5, <1>6 DEF CallInv, OneRequest, Waits
<1>10. OnItsWay'
  BY <1>6 DEF CallInv, OnItsWay, Faithful
<1>11. MadeOnce'
  <2>1. \A p \in placed : p[2] # q.id
    BY DEF CallInv, OneRequest
  <2>2. \A p1, p2 \in placed : p1[2] = p2[2] => p1 = p2
    BY DEF CallInv, MadeOnce
  <2> QED
    BY <1>5, <2>1, <2>2 DEF MadeOnce
<1>12. ASSUME NEW p \in placed' PROVE p[3] \in Makers /\ Traced(p)'
  <2>1. CASE p \in placed
    <3>1. p[3] \in Makers /\ Traced(p)
      BY <2>1 DEF CallInv
    <3> QED
      BY <1>3, <3>1 DEF Traced
  <2>2. CASE p[1] \in made /\ p[2] = q.id /\ p[3] = q.op
    <3>1. p[3] \in Makers
      BY <2>2
    <3>2. CASE q.id \in silent
      BY <2>2, <3>1, <3>2 DEF Traced
    <3>3. CASE \E c \in Callers : waiting[c] = q
      <4>1. PICK c \in Callers : waiting[c] = q
        BY <3>3
      <4>2. PICK r \in replies' : r.id = q.id /\ r.made = made
        BY <1>4, <4>1
      <4> QED
        BY <2>2, <3>1, <4>1, <4>2 DEF Traced
    <3> QED
      BY <3>2, <3>3 DEF CallInv, OnItsWay
  <2> QED
    BY <1>5, <2>1, <2>2
<1> QED
  BY <1>7, <1>8, <1>9, <1>10, <1>11, <1>12

\* A request is carried out.
LEMMA PerformKeeps ==
  ASSUME CallInv, NEW q \in net, Perform(q)
  PROVE  CallInv'
<1>1. PICK made \in MadeFor(q) :
        /\ open' = OpenAfter(q, made)
        /\ expiry' = ExpiryAfter(q, made)
        /\ placed' = placed \cup (made \X {q.id} \X {q.op})
        /\ Answer(q, TRUE, made)
  BY DEF Perform
<1>2. net' = net \ {q} /\ UNCHANGED <<waiting, clock, calls, told, silent, extended, closed>>
  BY DEF Perform, history
<1>3. q \in Requests /\ Faithful(q)
  BY DEF CallInv, TypeOK, OnItsWay
<1>4. made \in SUBSET Things /\ (\A x, y \in made : x = y) /\ (made # {} => q.op \in Makers)
  BY <1>1, <1>3, MadeIsOne
<1>5. /\ WaitingTyped' /\ IdsInUse' /\ OneRequest' /\ OnItsWay' /\ MadeOnce'
      /\ \A p \in placed' : p[3] \in Makers /\ Traced(p)'
  BY <1>1, <1>2, <1>4, ArrivalKeeps
<1>6. TypeOK'
  <2>1. \A r \in replies' : r \in Replies
    BY <1>1, <1>4, AnswerKeeps
  <2>2. open' \subseteq Orders
    BY <1>1 DEF OpenAfter, CallInv, TypeOK
  <2>3. expiry' \in [Keys -> 0..(MaxClock + Lifetime)]
    <3>1. clock + Lifetime \in 0..(MaxClock + Lifetime) /\ 0 \in 0..(MaxClock + Lifetime)
      BY TimeAssumption DEF CallInv, TypeOK
    <3>2. \A k \in Keys : expiry[k] \in 0..(MaxClock + Lifetime)
      BY DEF CallInv, TypeOK
    <3> QED
      BY <1>1, <3>1, <3>2 DEF ExpiryAfter
  <2>4. placed' \subseteq Things \X (1..MaxCalls) \X Operations
    BY <1>1, <1>3, <1>4 DEF CallInv, TypeOK, Requests
  <2>5. \A c \in Callers : Waits(c)' => waiting'[c] \in Requests
    BY <1>2 DEF CallInv, TypeOK, Waits
  <2> QED
    BY <1>2, <2>1, <2>2, <2>3, <2>4, <2>5 DEF CallInv, TypeOK
<1> QED
  BY <1>5, <1>6 DEF CallInv

\* A request is refused: nothing is made.
LEMMA RefuseKeeps ==
  ASSUME CallInv, NEW q \in net, Refuse(q)
  PROVE  CallInv'
<1>1. /\ net' = net \ {q} /\ Answer(q, FALSE, {})
      /\ UNCHANGED <<waiting, open, expiry, placed, clock, calls, told, silent, extended, closed>>
  BY DEF Refuse, exchange, history
<1>2. placed' = placed \cup ({} \X {q.id} \X {q.op})
  BY <1>1
<1>3. /\ WaitingTyped' /\ IdsInUse' /\ OneRequest' /\ OnItsWay' /\ MadeOnce'
      /\ \A p \in placed' : p[3] \in Makers /\ Traced(p)'
  <2>1. {} \in SUBSET Things /\ FALSE \in BOOLEAN
    OBVIOUS
  <2> QED
    BY <1>1, <1>2, <2>1, ArrivalKeeps
<1>4. TypeOK'
  <2>1. \A r \in replies' : r \in Replies
    BY <1>1, AnswerKeeps
  <2> QED
    BY <1>1, <2>1 DEF CallInv, TypeOK, Waits
<1> QED
  BY <1>3, <1>4 DEF CallInv

\* A request is lost, or time passes.
LEMMA LoseTickKeeps ==
  ASSUME CallInv, (\E q \in net : Lose(q)) \/ Tick \/ UNCHANGED vars
  PROVE  CallInv'
<1>1. /\ UNCHANGED <<waiting, replies, open, expiry, placed, calls, told, silent, extended, closed>>
      /\ net' \subseteq net
  BY DEF Lose, Tick, vars, exchange, history
<1>2. clock' \in 1..MaxClock
  BY TimeAssumption DEF Lose, Tick, vars, CallInv, TypeOK
<1>3. TypeOK' /\ WaitingTyped'
  BY <1>1, <1>2 DEF CallInv, TypeOK, WaitingTyped, Waits
<1>4. IdsInUse' /\ OneRequest' /\ OnItsWay' /\ MadeOnce'
  BY <1>1 DEF CallInv, IdsInUse, OneRequest, OnItsWay, MadeOnce, Waits, Faithful
<1>5. \A p \in placed' : p[3] \in Makers /\ Traced(p)'
  BY <1>1 DEF CallInv, Traced
<1> QED
  BY <1>3, <1>4, <1>5 DEF CallInv

-----------------------------------------------------------------------------
THEOREM CallInvariant == Spec => []CallInv
<1>1. Init => CallInv
  BY InitCallInv
<1>2. CallInv /\ [Next]_vars => CallInv'
  <2> SUFFICES ASSUME CallInv, [Next]_vars PROVE CallInv'
    OBVIOUS
  <2>1. CASE \E c \in Callers : \E op \in Operations : \E args \in Arguments(op) :
               signedRequest(c, op, args)
    BY <2>1, RequestKeeps
  <2>2. CASE \E c \in Callers : Return(c) \/ ReturnNull(c)
    BY <2>2, ReturnKeeps, ReturnNullKeeps
  <2>3. CASE \E q \in net : Perform(q) \/ Refuse(q)
    BY <2>3, PerformKeeps, RefuseKeeps
  <2>4. CASE (\E q \in net : Lose(q)) \/ Tick \/ UNCHANGED vars
    BY <2>4, LoseTickKeeps
  <2> QED
    BY <2>1, <2>2, <2>3, <2>4 DEF Next
<1> QED
  BY <1>1, <1>2, PTL DEF Spec

\* The state stays well typed: no empty parameter is ever sent, and what is
\* sent names only things the exchange made.
THEOREM CallTypes == Spec => []TypeOK
<1>1. CallInv => TypeOK
  BY DEF CallInv
<1> QED
  BY <1>1, CallInvariant, PTL

\* One call makes at most one order or key, whatever is lost or late.
THEOREM CallsMakeOnce == Spec => []MadeOnce
<1>1. CallInv => MadeOnce
  BY DEF CallInv
<1> QED
  BY <1>1, CallInvariant, PTL

\* An order or key the application does not know is in progress or belongs to
\* a call that returned null.
THEOREM EverythingIsAccountedFor == Spec => []NothingUnaccounted
<1>1. CallInv => NothingUnaccounted
  BY DEF CallInv, Traced, NothingUnaccounted, InProgress
<1> QED
  BY <1>1, CallInvariant, PTL

=============================================================================
