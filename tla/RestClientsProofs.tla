------------------------- MODULE RestClientsProofs -------------------------
(***************************************************************************)
(* What every function of the four REST classes promises, for all texts,   *)
(* options, clocks and orders of verdict, reply and return.                *)
(*                                                                         *)
(* RestClients instantiates the classes, so each operator of HttpClient    *)
(* has four copies; the first part shows that they are equal to the one    *)
(* that HttpClientProofs is about.                                         *)
(***************************************************************************)
EXTENDS RestClients, HttpClientProofs

-----------------------------------------------------------------------------
(* The copies of HttpClient.                                                *)

\* The copies of SpotMarket.
LEMMA SpotTexts ==
  /\ \A s : Spot!toUpper(s) = toUpper(s)
  /\ \A s : Spot!urlEncode(s) = urlEncode(s)
<1>1. Spot!HexDigits = HexDigits
  BY DEF Spot!HexDigits, HexDigits
<1>2. Spot!ToSet(HexDigits) = ToSet(HexDigits)
  BY DEF Spot!ToSet, ToSet
<1>3. Spot!DigitValue = DigitValue
  BY <1>1, <1>2 DEF Spot!DigitValue, DigitValue
<1>4. Spot!Characters = Characters
  BY <1>1, <1>2 DEF Spot!Characters, Characters, Spot!Others, Others
<1>5. Spot!Byte = Byte
  BY <1>3, <1>4 DEF Spot!Byte, Byte
<1>6. \A n : Spot!HexByte(n) = HexByte(n)
  BY <1>1 DEF Spot!HexByte, HexByte
<1>7. \A c : Spot!Unreserved(c) = Unreserved(c)
  BY <1>1, <1>2 DEF Spot!Unreserved, Unreserved
<1>8. \A s : Spot!FlattenSeq(s) = FlattenSeq(s)
  BY DEF Spot!FlattenSeq, FlattenSeq
<1>9. ASSUME NEW s PROVE Spot!urlEncode(s) = urlEncode(s)
  <2>1. Spot!urlEncode(s) = FlattenSeq([i \in DOMAIN s |->
                            IF Unreserved(s[i]) THEN <<s[i]>> ELSE <<"%">> \o HexByte(Byte[s[i]])])
    BY <1>5, <1>6, <1>7, <1>8, Zenon DEF Spot!urlEncode
  <2> QED BY <2>1 DEF urlEncode
<1>10. \A s : Spot!toUpper(s) = toUpper(s)
  BY DEF Spot!toUpper, toUpper
<1> QED BY <1>9, <1>10

LEMMA SpotQueries ==
  /\ \A p : Spot!buildQueryString(p) = buildQueryString(p)
  /\ \A p : Spot!removeEmptyParams(p) = removeEmptyParams(p)
  /\ \A p, q : Spot!Over(p, q) = Over(p, q)
  /\ \A path, query : Spot!Url(path, query) = Url(path, query)
<1>1. Spot!NameOrder = NameOrder
  BY DEF Spot!NameOrder, NameOrder
<1>2. \A p, n : Spot!Pair(p, n) = Pair(p, n)
  BY SpotTexts DEF Spot!Pair, Pair
<1>3. \A s : Spot!FlattenSeq(s) = FlattenSeq(s)
  BY DEF Spot!FlattenSeq, FlattenSeq
<1>4. ASSUME NEW p PROVE Spot!Pairs(p) = Pairs(p)
  BY <1>1, <1>2, <1>3 DEF Spot!Pairs, Pairs
<1>5. \A p : Spot!buildQueryString(p) = buildQueryString(p)
  BY <1>4 DEF Spot!buildQueryString, buildQueryString
<1>6. \A p : Spot!removeEmptyParams(p) = removeEmptyParams(p)
  BY DEF Spot!removeEmptyParams, removeEmptyParams
<1>7. \A p, q : Spot!Over(p, q) = Over(p, q)
  BY DEF Spot!Over, Over
<1>8. \A path, query : Spot!Url(path, query) = Url(path, query)
  BY DEF Spot!Url, Url
<1> QED BY <1>5, <1>6, <1>7, <1>8

LEMMA SpotCalls ==
  /\ \A class, fn, params, unwraps, q :
        Spot!Begin(class, fn, params, unwraps, q) <=> Begin(class, fn, params, unwraps, q)
  /\ \A method, url : Spot!Plain(method, url) = Plain(method, url)
  /\ Spot!NoBody = NoBody
  /\ \A symbol : Spot!Optional(symbol) = Optional(symbol)
  /\ \A query : Spot!spotSign(query) = spotSign(query)
  /\ \A time, data : Spot!futuresSign(time, data) = futuresSign(time, data)
BY DEF Spot!Begin, Begin, Spot!CurlMethod, CurlMethod,
       Spot!None, None, Spot!Plain, Plain, Spot!NoBody, NoBody, Spot!Optional,
       Optional, Spot!spotSign, spotSign, Spot!futuresSign, futuresSign, Spot!hmacSha256Hex,
       hmacSha256Hex

\* The copies of SpotTradeCalls.
LEMMA SpotTradingTexts ==
  /\ \A s : SpotTrading!toUpper(s) = toUpper(s)
  /\ \A s : SpotTrading!urlEncode(s) = urlEncode(s)
<1>1. SpotTrading!HexDigits = HexDigits
  BY DEF SpotTrading!HexDigits, HexDigits
<1>2. SpotTrading!ToSet(HexDigits) = ToSet(HexDigits)
  BY DEF SpotTrading!ToSet, ToSet
<1>3. SpotTrading!DigitValue = DigitValue
  BY <1>1, <1>2 DEF SpotTrading!DigitValue, DigitValue
<1>4. SpotTrading!Characters = Characters
  BY <1>1, <1>2 DEF SpotTrading!Characters, Characters, SpotTrading!Others, Others
<1>5. SpotTrading!Byte = Byte
  BY <1>3, <1>4 DEF SpotTrading!Byte, Byte
<1>6. \A n : SpotTrading!HexByte(n) = HexByte(n)
  BY <1>1 DEF SpotTrading!HexByte, HexByte
<1>7. \A c : SpotTrading!Unreserved(c) = Unreserved(c)
  BY <1>1, <1>2 DEF SpotTrading!Unreserved, Unreserved
<1>8. \A s : SpotTrading!FlattenSeq(s) = FlattenSeq(s)
  BY DEF SpotTrading!FlattenSeq, FlattenSeq
<1>9. ASSUME NEW s PROVE SpotTrading!urlEncode(s) = urlEncode(s)
  <2>1. SpotTrading!urlEncode(s) = FlattenSeq([i \in DOMAIN s |->
                            IF Unreserved(s[i]) THEN <<s[i]>> ELSE <<"%">> \o HexByte(Byte[s[i]])])
    BY <1>5, <1>6, <1>7, <1>8, Zenon DEF SpotTrading!urlEncode
  <2> QED BY <2>1 DEF urlEncode
<1>10. \A s : SpotTrading!toUpper(s) = toUpper(s)
  BY DEF SpotTrading!toUpper, toUpper
<1> QED BY <1>9, <1>10

LEMMA SpotTradingQueries ==
  /\ \A p : SpotTrading!buildQueryString(p) = buildQueryString(p)
  /\ \A p : SpotTrading!removeEmptyParams(p) = removeEmptyParams(p)
  /\ \A p, q : SpotTrading!Over(p, q) = Over(p, q)
  /\ \A path, query : SpotTrading!Url(path, query) = Url(path, query)
<1>1. SpotTrading!NameOrder = NameOrder
  BY DEF SpotTrading!NameOrder, NameOrder
<1>2. \A p, n : SpotTrading!Pair(p, n) = Pair(p, n)
  BY SpotTradingTexts DEF SpotTrading!Pair, Pair
<1>3. \A s : SpotTrading!FlattenSeq(s) = FlattenSeq(s)
  BY DEF SpotTrading!FlattenSeq, FlattenSeq
<1>4. ASSUME NEW p PROVE SpotTrading!Pairs(p) = Pairs(p)
  BY <1>1, <1>2, <1>3 DEF SpotTrading!Pairs, Pairs
<1>5. \A p : SpotTrading!buildQueryString(p) = buildQueryString(p)
  BY <1>4 DEF SpotTrading!buildQueryString, buildQueryString
<1>6. \A p : SpotTrading!removeEmptyParams(p) = removeEmptyParams(p)
  BY DEF SpotTrading!removeEmptyParams, removeEmptyParams
<1>7. \A p, q : SpotTrading!Over(p, q) = Over(p, q)
  BY DEF SpotTrading!Over, Over
<1>8. \A path, query : SpotTrading!Url(path, query) = Url(path, query)
  BY DEF SpotTrading!Url, Url
<1> QED BY <1>5, <1>6, <1>7, <1>8

LEMMA SpotTradingCalls ==
  /\ \A class, fn, params, unwraps, q :
        SpotTrading!Begin(class, fn, params, unwraps, q) <=> Begin(class, fn, params, unwraps, q)
  /\ \A method, url : SpotTrading!Plain(method, url) = Plain(method, url)
  /\ SpotTrading!NoBody = NoBody
  /\ \A symbol : SpotTrading!Optional(symbol) = Optional(symbol)
  /\ \A query : SpotTrading!spotSign(query) = spotSign(query)
  /\ \A time, data : SpotTrading!futuresSign(time, data) = futuresSign(time, data)
BY DEF SpotTrading!Begin, Begin, SpotTrading!CurlMethod, CurlMethod,
       SpotTrading!None, None, SpotTrading!Plain, Plain,
       SpotTrading!NoBody, NoBody, SpotTrading!Optional, Optional, SpotTrading!spotSign, spotSign,
       SpotTrading!futuresSign, futuresSign, SpotTrading!hmacSha256Hex, hmacSha256Hex

\* The copies of FuturesMarket.
LEMMA FuturesTexts ==
  /\ \A s : Futures!toUpper(s) = toUpper(s)
  /\ \A s : Futures!urlEncode(s) = urlEncode(s)
<1>1. Futures!HexDigits = HexDigits
  BY DEF Futures!HexDigits, HexDigits
<1>2. Futures!ToSet(HexDigits) = ToSet(HexDigits)
  BY DEF Futures!ToSet, ToSet
<1>3. Futures!DigitValue = DigitValue
  BY <1>1, <1>2 DEF Futures!DigitValue, DigitValue
<1>4. Futures!Characters = Characters
  BY <1>1, <1>2 DEF Futures!Characters, Characters, Futures!Others, Others
<1>5. Futures!Byte = Byte
  BY <1>3, <1>4 DEF Futures!Byte, Byte
<1>6. \A n : Futures!HexByte(n) = HexByte(n)
  BY <1>1 DEF Futures!HexByte, HexByte
<1>7. \A c : Futures!Unreserved(c) = Unreserved(c)
  BY <1>1, <1>2 DEF Futures!Unreserved, Unreserved
<1>8. \A s : Futures!FlattenSeq(s) = FlattenSeq(s)
  BY DEF Futures!FlattenSeq, FlattenSeq
<1>9. ASSUME NEW s PROVE Futures!urlEncode(s) = urlEncode(s)
  <2>1. Futures!urlEncode(s) = FlattenSeq([i \in DOMAIN s |->
                            IF Unreserved(s[i]) THEN <<s[i]>> ELSE <<"%">> \o HexByte(Byte[s[i]])])
    BY <1>5, <1>6, <1>7, <1>8, Zenon DEF Futures!urlEncode
  <2> QED BY <2>1 DEF urlEncode
<1>10. \A s : Futures!toUpper(s) = toUpper(s)
  BY DEF Futures!toUpper, toUpper
<1> QED BY <1>9, <1>10

LEMMA FuturesQueries ==
  /\ \A p : Futures!buildQueryString(p) = buildQueryString(p)
  /\ \A p : Futures!removeEmptyParams(p) = removeEmptyParams(p)
  /\ \A p, q : Futures!Over(p, q) = Over(p, q)
  /\ \A path, query : Futures!Url(path, query) = Url(path, query)
<1>1. Futures!NameOrder = NameOrder
  BY DEF Futures!NameOrder, NameOrder
<1>2. \A p, n : Futures!Pair(p, n) = Pair(p, n)
  BY FuturesTexts DEF Futures!Pair, Pair
<1>3. \A s : Futures!FlattenSeq(s) = FlattenSeq(s)
  BY DEF Futures!FlattenSeq, FlattenSeq
<1>4. ASSUME NEW p PROVE Futures!Pairs(p) = Pairs(p)
  BY <1>1, <1>2, <1>3 DEF Futures!Pairs, Pairs
<1>5. \A p : Futures!buildQueryString(p) = buildQueryString(p)
  BY <1>4 DEF Futures!buildQueryString, buildQueryString
<1>6. \A p : Futures!removeEmptyParams(p) = removeEmptyParams(p)
  BY DEF Futures!removeEmptyParams, removeEmptyParams
<1>7. \A p, q : Futures!Over(p, q) = Over(p, q)
  BY DEF Futures!Over, Over
<1>8. \A path, query : Futures!Url(path, query) = Url(path, query)
  BY DEF Futures!Url, Url
<1> QED BY <1>5, <1>6, <1>7, <1>8

LEMMA FuturesCalls ==
  /\ \A class, fn, params, unwraps, q :
        Futures!Begin(class, fn, params, unwraps, q) <=> Begin(class, fn, params, unwraps, q)
  /\ \A method, url : Futures!Plain(method, url) = Plain(method, url)
  /\ Futures!NoBody = NoBody
  /\ \A symbol : Futures!Optional(symbol) = Optional(symbol)
  /\ \A query : Futures!spotSign(query) = spotSign(query)
  /\ \A time, data : Futures!futuresSign(time, data) = futuresSign(time, data)
BY DEF Futures!Begin, Begin, Futures!CurlMethod, CurlMethod,
       Futures!None, None, Futures!Plain, Plain, Futures!NoBody, NoBody,
       Futures!Optional, Optional, Futures!spotSign, spotSign, Futures!futuresSign, futuresSign,
       Futures!hmacSha256Hex, hmacSha256Hex

\* The copies of FuturesTrade.
LEMMA FuturesTradingTexts ==
  /\ \A s : FuturesTrading!toUpper(s) = toUpper(s)
  /\ \A s : FuturesTrading!urlEncode(s) = urlEncode(s)
  /\ \A s : FuturesTrading!JsonString(s) = JsonString(s)
<1>1. FuturesTrading!HexDigits = HexDigits
  BY DEF FuturesTrading!HexDigits, HexDigits
<1>2. FuturesTrading!ToSet(HexDigits) = ToSet(HexDigits)
  BY DEF FuturesTrading!ToSet, ToSet
<1>3. FuturesTrading!DigitValue = DigitValue
  BY <1>1, <1>2 DEF FuturesTrading!DigitValue, DigitValue
<1>4. FuturesTrading!Characters = Characters
  BY <1>1, <1>2 DEF FuturesTrading!Characters, Characters, FuturesTrading!Others, Others
<1>5. FuturesTrading!Byte = Byte
  BY <1>3, <1>4 DEF FuturesTrading!Byte, Byte
<1>6. \A n : FuturesTrading!HexByte(n) = HexByte(n)
  BY <1>1 DEF FuturesTrading!HexByte, HexByte
<1>7. \A c : FuturesTrading!Unreserved(c) = Unreserved(c)
  BY <1>1, <1>2 DEF FuturesTrading!Unreserved, Unreserved
<1>8. \A s : FuturesTrading!FlattenSeq(s) = FlattenSeq(s)
  BY DEF FuturesTrading!FlattenSeq, FlattenSeq
<1>9. ASSUME NEW s PROVE FuturesTrading!urlEncode(s) = urlEncode(s)
  <2>1. FuturesTrading!urlEncode(s) = FlattenSeq([i \in DOMAIN s |->
                            IF Unreserved(s[i]) THEN <<s[i]>> ELSE <<"%">> \o HexByte(Byte[s[i]])])
    BY <1>5, <1>6, <1>7, <1>8, Zenon DEF FuturesTrading!urlEncode
  <2> QED BY <2>1 DEF urlEncode
<1>10. \A s : FuturesTrading!toUpper(s) = toUpper(s)
  BY DEF FuturesTrading!toUpper, toUpper
<1>11. ASSUME NEW s PROVE FuturesTrading!JsonString(s) = JsonString(s)
  <2>1. FuturesTrading!Bytes(s) = Bytes(s) /\ FuturesTrading!Replacement = Replacement
    BY <1>5 DEF FuturesTrading!Bytes, Bytes, FuturesTrading!Replacement, Replacement
  <2> QED BY <2>1 DEF FuturesTrading!JsonString, JsonString
<1> QED BY <1>9, <1>10, <1>11

LEMMA FuturesTradingQueries ==
  /\ \A p : FuturesTrading!buildQueryString(p) = buildQueryString(p)
  /\ \A p : FuturesTrading!removeEmptyParams(p) = removeEmptyParams(p)
  /\ \A p, q : FuturesTrading!Over(p, q) = Over(p, q)
  /\ \A path, query : FuturesTrading!Url(path, query) = Url(path, query)
<1>1. FuturesTrading!NameOrder = NameOrder
  BY DEF FuturesTrading!NameOrder, NameOrder
<1>2. \A p, n : FuturesTrading!Pair(p, n) = Pair(p, n)
  BY FuturesTradingTexts DEF FuturesTrading!Pair, Pair
<1>3. \A s : FuturesTrading!FlattenSeq(s) = FlattenSeq(s)
  BY DEF FuturesTrading!FlattenSeq, FlattenSeq
<1>4. ASSUME NEW p PROVE FuturesTrading!Pairs(p) = Pairs(p)
  BY <1>1, <1>2, <1>3 DEF FuturesTrading!Pairs, Pairs
<1>5. \A p : FuturesTrading!buildQueryString(p) = buildQueryString(p)
  BY <1>4 DEF FuturesTrading!buildQueryString, buildQueryString
<1>6. \A p : FuturesTrading!removeEmptyParams(p) = removeEmptyParams(p)
  BY DEF FuturesTrading!removeEmptyParams, removeEmptyParams
<1>7. \A p, q : FuturesTrading!Over(p, q) = Over(p, q)
  BY DEF FuturesTrading!Over, Over
<1>8. \A path, query : FuturesTrading!Url(path, query) = Url(path, query)
  BY DEF FuturesTrading!Url, Url
<1> QED BY <1>5, <1>6, <1>7, <1>8

LEMMA FuturesTradingCalls ==
  /\ \A class, fn, params, unwraps, q :
        FuturesTrading!Begin(class, fn, params, unwraps, q) <=> Begin(class, fn, params, unwraps, q)
  /\ \A method, url : FuturesTrading!Plain(method, url) = Plain(method, url)
  /\ FuturesTrading!NoBody = NoBody
  /\ \A symbol : FuturesTrading!Optional(symbol) = Optional(symbol)
  /\ \A query : FuturesTrading!spotSign(query) = spotSign(query)
  /\ \A time, data : FuturesTrading!futuresSign(time, data) = futuresSign(time, data)
  /\ \A p : FuturesTrading!jsonToString(p) = jsonToString(p)
BY FuturesTradingTexts DEF FuturesTrading!Begin, Begin, FuturesTrading!CurlMethod, CurlMethod,
       FuturesTrading!None, None, FuturesTrading!Plain, Plain,
       FuturesTrading!NoBody, NoBody, FuturesTrading!Optional, Optional, FuturesTrading!spotSign,
       spotSign, FuturesTrading!futuresSign, futuresSign, FuturesTrading!hmacSha256Hex,
       hmacSha256Hex, FuturesTrading!jsonToString, jsonToString

-----------------------------------------------------------------------------
(* The list of symbols of exchangeInfo().                                   *)

ListStart(s, i) == Min({k \in i..Len(s) : s[k] \notin {"comma", "space"}} \cup {Len(s) + 1})
ListEnd(s, i) == Place(s, "comma", ListStart(s, i))
Listed(s, i) == toUpper(SubSeq(s, ListStart(s, i), ListEnd(s, i) - 1))
Listing(s, from, i) ==
    IF ListStart(s, i) > Len(s) THEN <<>> ELSE <<"comma">> \o Listed(s, i) \o from[ListEnd(s, i)]

\* Min of a set of numbers.
LEMMA LeastIs ==
  ASSUME NEW T \in SUBSET Nat, T # {}
  PROVE  Min(T) \in T /\ \A k \in T : Min(T) <= k
<1>1. \E m \in T : \A k \in T : m <= k
  BY LeastNumber
<1> QED BY <1>1 DEF Min

\* Each turn of the loop moves on.
LEMMA ListAdvances ==
  ASSUME NEW s \in Seq(Characters), NEW i \in 1..(Len(s) + 1)
  PROVE  /\ ListStart(s, i) \in i..(Len(s) + 1)
         /\ ListStart(s, i) <= Len(s) => /\ ListEnd(s, i) \in (i + 1)..(Len(s) + 1)
                                         /\ Listed(s, i) \in Seq(Characters)
<1> DEFINE n == Len(s)
           T == {k \in i..n : s[k] \notin {"comma", "space"}} \cup {n + 1}
           start == ListStart(s, i)
           U == {k \in start..n : s[k] = "comma"} \cup {n + 1}
           end == ListEnd(s, i)
<1>1. n \in Nat /\ i \in Nat /\ i >= 1 /\ i <= n + 1
  OBVIOUS
<1>2. start \in T
  <2>1. T \in SUBSET Nat /\ T # {}
    BY <1>1
  <2>2. start = Min(T)
    BY DEF ListStart
  <2> HIDE DEF T, start
  <2> QED BY <2>1, <2>2, LeastIs
<1>3. start \in i..(n + 1) /\ (start <= n => s[start] # "comma")
  BY <1>1, <1>2
<1>4. end \in U
  <2> HIDE DEF n, start
  <2>1. U \in SUBSET Nat /\ U # {}
    BY <1>1, <1>3
  <2>2. end = Min(U)
    BY DEF ListEnd, Place, start, n
  <2> HIDE DEF U, end
  <2> QED BY <2>1, <2>2, LeastIs
<1>5. start <= n => end \in (i + 1)..(n + 1) /\ end > start
  <2> HIDE DEF n, start, end
  <2> QED BY <1>1, <1>3, <1>4
<1>6. start <= n => Listed(s, i) \in Seq(Characters)
  <2> SUFFICES ASSUME start <= n PROVE Listed(s, i) \in Seq(Characters)
    OBVIOUS
  <2> DEFINE part == SubSeq(s, start, end - 1)
  <2>1. start \in 1..(n + 1) /\ end - 1 \in (start - 1)..n
    <3> HIDE DEF n, start, end
    <3> QED BY <1>1, <1>3, <1>5
  <2>2. part \in Seq(Characters)
    <3> HIDE DEF start, end
    <3> QED BY <2>1
  <2>3. Listed(s, i) = toUpper(part)
    BY DEF Listed
  <2> HIDE DEF part
  <2> QED BY <2>2, <2>3, UpperIs
<1> QED BY <1>3, <1>5, <1>6

\* What the loop returns from a place depends on what is after it only.
LEMMA ListingLooksAhead ==
  ASSUME NEW s \in Seq(Characters), NEW i \in 1..(Len(s) + 1), NEW f, NEW g,
         \A j \in (i + 1)..(Len(s) + 1) : f[j] = g[j]
  PROVE  Listing(s, f, i) = Listing(s, g, i)
<1>1. ListStart(s, i) > Len(s) \/ ListEnd(s, i) \in (i + 1)..(Len(s) + 1)
  BY ListAdvances
<1> QED BY <1>1 DEF Listing

\* The recursion of symbolList has a solution.
LEMMA ListReads ==
  ASSUME NEW s \in Seq(Characters)
  PROVE  \E from : /\ \A i \in 1..(Len(s) + 1) : from[i] = Listing(s, from, i)
                   /\ Spot!symbolList(s) = SubSeq(from[1], 2, Len(from[1]))
<1> DEFINE n == Len(s)
           Solves(f, m) == f = [i \in m..(n + 1) |-> Listing(s, f, i)]
           P(k) == \E f : Solves(f, n + 1 - k)
           T == {k \in Nat : k <= n => P(k)}
<1>1. n \in Nat
  OBVIOUS
<1>2. 0 \in T
  <2> DEFINE f == [i \in (n + 1)..(n + 1) |-> <<>>]
  <2>1. \A i \in (n + 1)..(n + 1) : Listing(s, f, i) = <<>>
    <3>1. \A i \in (n + 1)..(n + 1) : i \in 1..(n + 1) /\ i = n + 1
      BY <1>1
    <3>2. \A i \in (n + 1)..(n + 1) : ListStart(s, i) \in i..(n + 1)
      BY <3>1, ListAdvances
    <3>3. \A i \in (n + 1)..(n + 1) : ListStart(s, i) > n
      BY <1>1, <3>1, <3>2
    <3> HIDE DEF f
    <3> QED BY <3>3 DEF Listing
  <2>2. Solves(f, n + 1)
    BY <2>1
  <2> HIDE DEF f, Solves, n
  <2> QED BY <2>2, <1>1
<1>3. ASSUME NEW k \in Nat, k \in T PROVE k + 1 \in T
  <2> SUFFICES ASSUME k + 1 <= n PROVE P(k + 1)
    <3> HIDE DEF P
    <3> QED OBVIOUS
  <2> DEFINE m == n + 1 - k
  <2>1. P(k)
    <3> HIDE DEF P
    <3> QED BY <1>1, <1>3
  <2>2. m - 1 = n + 1 - (k + 1) /\ m \in 1..(n + 1) /\ m - 1 \in 1..(n + 1)
    BY <1>1
  <2>3. PICK f : Solves(f, m)
    BY <2>1
  <2> DEFINE g == [i \in (m - 1)..(n + 1) |-> IF i = m - 1 THEN Listing(s, f, i) ELSE f[i]]
  <2>4. \A i \in m..(n + 1) : g[i] = f[i] /\ f[i] = Listing(s, f, i)
    <3>1. \A i \in m..(n + 1) : i \in (m - 1)..(n + 1) /\ i # m - 1
      BY <2>2
    <3> QED BY <2>3, <3>1
  <2>5. \A i \in (m - 1)..(n + 1) : g[i] = Listing(s, f, i)
    <3>1. \A i \in (m - 1)..(n + 1) : i = m - 1 \/ i \in m..(n + 1)
      BY <1>1, <2>2
    <3> QED BY <2>4, <3>1
  <2>6. \A i \in (m - 1)..(n + 1) : Listing(s, g, i) = Listing(s, f, i)
    <3> TAKE i \in (m - 1)..(n + 1)
    <3>1. i \in 1..(n + 1) /\ \A j \in (i + 1)..(n + 1) : j \in m..(n + 1)
      BY <1>1, <2>2
    <3>2. \A j \in (i + 1)..(n + 1) : g[j] = f[j]
      BY <2>4, <3>1
    <3> HIDE DEF g
    <3> QED BY <3>1, <3>2, ListingLooksAhead
  <2>7. Solves(g, m - 1)
    <3>1. \A i \in (m - 1)..(n + 1) : g[i] = Listing(s, g, i)
      BY <2>5, <2>6
    <3>2. g = [i \in (m - 1)..(n + 1) |-> g[i]]
      OBVIOUS
    <3> HIDE DEF g
    <3> QED BY <3>1, <3>2
  <2> HIDE DEF g, Solves
  <2> QED BY <2>2, <2>7
<1>4. P(n)
  <2>1. n \in T
    <3> HIDE DEF T
    <3> QED BY <1>1, <1>2, <1>3, Induction
  <2> HIDE DEF P
  <2> QED BY <1>1, <2>1
<1> DEFINE from == CHOOSE f : Solves(f, 1)
<1>5. Solves(from, 1)
  <2>1. n + 1 - n = 1
    BY <1>1
  <2> HIDE DEF Solves
  <2> QED BY <1>4, <2>1
<1>6. Spot!symbolList(s) = SubSeq(from[1], 2, Len(from[1]))
  <2>1. \A S : Spot!Min(S) = Min(S)
    BY DEF Spot!Min, Min
  <2>2. \A t, c, i : Spot!Place(t, c, i) = Place(t, c, i)
    BY <2>1 DEF Spot!Place, Place
  <2> QED BY <2>1, <2>2, SpotTexts DEF Spot!symbolList, Listing, ListStart, ListEnd, Listed
<1> HIDE DEF from
<1>7. \A i \in 1..(n + 1) : from[i] = Listing(s, from, i)
  BY <1>5
<1> QED BY <1>6, <1>7

Blank == {"comma", "space"}

\* Max of a set of numbers below a bound.
LEMMA GreatestIs ==
  ASSUME NEW n \in Nat, NEW T \in SUBSET (0..n), T # {}
  PROVE  Max(T) \in T /\ \A k \in T : k <= Max(T)
<1> DEFINE U == {n - k : k \in T}
<1>1. U \in SUBSET Nat /\ U # {}
  <2>1. \A k \in T : n - k \in Nat
    OBVIOUS
  <2> QED BY <2>1
<1>2. PICK m \in U : \A k \in U : m <= k
  <2> HIDE DEF U
  <2> QED BY <1>1, LeastNumber
<1>3. PICK x \in T : m = n - x
  BY <1>2
<1>4. \A k \in T : n - x <= n - k
  BY <1>2, <1>3
<1>5. \A k \in T : k <= x
  BY <1>4
<1>6. \E y \in T : \A k \in T : y >= k
  BY <1>5
<1> QED BY <1>6 DEF Max

\* Place finds the first.
LEMMA PlaceFinds ==
  ASSUME NEW S, NEW s \in Seq(S), NEW c, NEW i \in 1..(Len(s) + 1)
  PROVE  /\ Place(s, c, i) \in i..(Len(s) + 1)
         /\ Place(s, c, i) <= Len(s) => s[Place(s, c, i)] = c
         /\ \A k \in i..(Place(s, c, i) - 1) : s[k] # c
<1> DEFINE n == Len(s)
           T == {k \in i..n : s[k] = c} \cup {n + 1}
           p == Place(s, c, i)
<1>1. n \in Nat /\ T \in SUBSET Nat /\ T # {}
  OBVIOUS
<1>2. p = Min(T)
  BY DEF Place
<1>3. p \in T /\ \A k \in T : p <= k
  <2> HIDE DEF T, p
  <2> QED BY <1>1, <1>2, LeastIs
<1> HIDE DEF p
<1>4. p \in i..(n + 1) /\ (p <= n => s[p] = c)
  BY <1>1, <1>3
<1>5. \A k \in i..(p - 1) : s[k] # c
  BY <1>1, <1>3, <1>4
<1> QED BY <1>4, <1>5 DEF p

\* ListStart finds the first that is not blank.
LEMMA StartFinds ==
  ASSUME NEW S, NEW s \in Seq(S), NEW i \in 1..(Len(s) + 1)
  PROVE  /\ ListStart(s, i) \in i..(Len(s) + 1)
         /\ ListStart(s, i) <= Len(s) => s[ListStart(s, i)] \notin Blank
         /\ \A k \in i..(ListStart(s, i) - 1) : s[k] \in Blank
<1> DEFINE n == Len(s)
           T == {k \in i..n : s[k] \notin Blank} \cup {n + 1}
           p == ListStart(s, i)
<1>1. n \in Nat /\ T \in SUBSET Nat /\ T # {}
  OBVIOUS
<1>2. p = Min(T)
  BY DEF ListStart, Blank
<1>3. p \in T /\ \A k \in T : p <= k
  <2> HIDE DEF T, p
  <2> QED BY <1>1, <1>2, LeastIs
<1> HIDE DEF p
<1>4. p \in i..(n + 1) /\ (p <= n => s[p] \notin Blank)
  BY <1>1, <1>3
<1>5. \A k \in i..(p - 1) : s[k] \in Blank
  BY <1>1, <1>3, <1>4
<1> QED BY <1>4, <1>5 DEF p

\* What is blank is skipped.
LEMMA BlanksAreSkipped ==
  ASSUME NEW S, NEW s \in Seq(S), NEW i \in 1..(Len(s) + 1), NEW j \in i..(Len(s) + 1),
         \A k \in i..(j - 1) : s[k] \in Blank
  PROVE  /\ ListStart(s, i) = ListStart(s, j)
         /\ \A from : Listing(s, from, i) = Listing(s, from, j)
<1> DEFINE n == Len(s)
           p == ListStart(s, i)
           q == ListStart(s, j)
<1>1. n \in Nat /\ i \in Nat /\ j \in Nat /\ j \in 1..(n + 1)
  OBVIOUS
<1>2. p \in i..(n + 1) /\ (p <= n => s[p] \notin Blank) /\ \A k \in i..(p - 1) : s[k] \in Blank
  BY StartFinds
<1>3. q \in j..(n + 1) /\ (q <= n => s[q] \notin Blank) /\ \A k \in j..(q - 1) : s[k] \in Blank
  BY <1>1, StartFinds
<1> HIDE DEF n, p, q
<1>4. ~(p < q)
  <2> SUFFICES ASSUME p < q PROVE FALSE
    OBVIOUS
  <2>1. p <= n /\ (p \in i..(j - 1) \/ p \in j..(q - 1))
    BY <1>1, <1>2, <1>3
  <2> QED BY <1>2, <1>3, <2>1
<1>5. ~(q < p)
  <2> SUFFICES ASSUME q < p PROVE FALSE
    OBVIOUS
  <2>1. q <= n /\ q \in i..(p - 1)
    BY <1>1, <1>2, <1>3
  <2> QED BY <1>2, <1>3, <2>1
<1>6. p = q
  BY <1>1, <1>2, <1>3, <1>4, <1>5
<1> QED BY <1>6 DEF p, q, Listing, ListEnd, Listed

\* A text is trimmed to what is between its first and its last solid character.
LEMMA Trimmed ==
  ASSUME NEW S, NEW t \in Seq(S)
  PROVE  /\ Trim(t) \in Seq(S)
         /\ (\A i \in 1..Len(t) : t[i] = "space") => Trim(t) = <<>>
         /\ \A m \in 1..Len(t) :
              (t[m] # "space" /\ \A i \in 1..(m - 1) : t[i] = "space") =>
                /\ Trim(t) # <<>>
                /\ t[Len(t)] # "space" => Trim(t) = SubSeq(t, m, Len(t))
<1> DEFINE n == Len(t)
           solid == {i \in 1..n : t[i] # "space"}
<1>1. n \in Nat /\ DOMAIN t = 1..n
  OBVIOUS
<1>2. Trim(t) = IF solid = {} THEN <<>> ELSE SubSeq(t, Min(solid), Max(solid))
  BY <1>1 DEF Trim
<1>3. (\A i \in 1..n : t[i] = "space") => Trim(t) = <<>>
  BY <1>2
<1>4. ASSUME NEW m \in 1..n, t[m] # "space", \A i \in 1..(m - 1) : t[i] = "space"
      PROVE  /\ Trim(t) # <<>> /\ Trim(t) \in Seq(S)
             /\ t[n] # "space" => Trim(t) = SubSeq(t, m, n)
  <2>1. solid # {} /\ solid \in SUBSET Nat /\ solid \in SUBSET (0..n) /\ m \in solid
    BY <1>1, <1>4
  <2>2. Min(solid) \in solid /\ \A k \in solid : Min(solid) <= k
    BY <2>1, LeastIs
  <2>3. Max(solid) \in solid /\ \A k \in solid : k <= Max(solid)
    BY <1>1, <2>1, GreatestIs
  <2>4. Min(solid) = m
    <3>1. \A i \in solid : ~(i < m)
      BY <1>1, <1>4
    <3> QED BY <2>1, <2>2, <3>1
  <2>5. t[n] # "space" => Max(solid) = n
    BY <1>1, <2>1, <2>3
  <2>6. Trim(t) = SubSeq(t, m, Max(solid)) /\ m <= Max(solid) /\ Max(solid) \in 1..n
    BY <1>2, <2>1, <2>3, <2>4
  <2> DEFINE last == Max(solid)
  <2>7. SubSeq(t, m, last) # <<>> /\ SubSeq(t, m, last) \in Seq(S)
    <3> HIDE DEF last
    <3>1. last \in (m - 1)..n /\ m \in 1..(n + 1) /\ last + 1 - m > 0
      BY <1>1, <2>6 DEF last
    <3>2. Len(SubSeq(t, m, last)) = last + 1 - m /\ SubSeq(t, m, last) \in Seq(S)
      BY <3>1, Part
    <3> QED BY <3>1, <3>2
  <2> QED BY <2>5, <2>6, <2>7
<1>5. Trim(t) \in Seq(S)
  <2>1. CASE \A i \in 1..n : t[i] = "space"
    <3>1. Trim(t) = <<>>
      BY <1>3, <2>1
    <3> QED BY <3>1
  <2>2. CASE ~\A i \in 1..n : t[i] = "space"
    <3>1. solid \in SUBSET Nat /\ solid # {}
      BY <2>2
    <3>2. PICK m \in solid : \A k \in solid : m <= k
      <4> HIDE DEF solid
      <4> QED BY <3>1, LeastNumber
    <3>3. \A i \in 1..(m - 1) : i \in 1..n /\ ~(m <= i)
      BY <1>1, <3>2
    <3> QED BY <1>4, <3>2, <3>3
  <2> QED BY <2>1, <2>2
<1> QED BY <1>3, <1>4, <1>5

\* The loop, from the beginning of a part: its entry, then the parts after the
\* next comma.
Solution(s, from) ==
    \A i \in 1..(Len(s) + 1) : from[i] \in Seq(Characters) /\ from[i] = Listing(s, from, i)
Rest(s, from, i) ==
    LET comma == Place(s, "comma", i) IN IF comma <= Len(s) THEN from[comma + 1] ELSE <<>>

\* A part that begins at i: its entry, then the rest.
LEMMA EntryIsListed ==
  ASSUME NEW s \in Seq(Characters), NEW from, Solution(s, from), NEW i \in 1..Len(s), Begins(s, i),
         Entry(s, i) # <<>> => Last(Segment(s, i)) # "space"
  PROVE  from[i] = Entry(s, i) \o Rest(s, from, i)
<1> DEFINE n == Len(s)
           p == Place(s, "comma", i)
           t == Segment(s, i)
<1>1. n \in Nat /\ i \in Nat /\ i >= 1 /\ i <= n /\ i \in 1..(n + 1)
  OBVIOUS
<1>2. p \in i..(n + 1) /\ (p <= n => s[p] = "comma") /\ \A k \in i..(p - 1) : s[k] # "comma"
  BY <1>1, PlaceFinds
<1>3. /\ t \in Seq(Characters) /\ Len(t) = p - i
      /\ \A k \in 1..(p - i) : t[k] = s[i + k - 1]
  <2>1. t = SubSeq(s, i, p - 1)
    BY DEF Segment
  <2> HIDE DEF n, p, t
  <2>2. p - 1 \in (i - 1)..n /\ p - 1 + 1 - i = p - i
    BY <1>1, <1>2
  <2> QED BY <1>1, <2>1, <2>2, Part DEF n
<1>4. Entry(s, i) = IF Trim(t) # <<>> THEN <<"comma">> \o toUpper(Trim(t)) ELSE <<>>
  BY DEF Entry
<1>5. p <= n => from[p] = from[p + 1]
  <2> SUFFICES ASSUME p <= n PROVE from[p] = from[p + 1]
    OBVIOUS
  <2> HIDE DEF n, p, t
  <2>1. p \in 1..(n + 1) /\ p + 1 \in p..(n + 1) /\ p + 1 \in 1..(n + 1)
    BY <1>1, <1>2
  <2>2. \A k \in p..(p + 1 - 1) : s[k] \in Blank
    BY <1>1, <1>2, <2>1 DEF Blank
  <2>3. Listing(s, from, p) = Listing(s, from, p + 1)
    BY <2>1, <2>2, BlanksAreSkipped DEF n
  <2> QED BY <2>1, <2>3 DEF Solution, n
<1>6. from[n + 1] = <<>>
  <2> DEFINE end == n + 1
  <2>1. end \in 1..(n + 1) /\ end > n
    BY <1>1
  <2> HIDE DEF end
  <2>2. ListStart(s, end) \in end..(n + 1)
    BY <2>1, StartFinds
  <2>3. ListStart(s, end) > n
    BY <1>1, <2>1, <2>2
  <2>4. from[end] = <<>>
    BY <2>1, <2>3 DEF Solution, Listing
  <2> QED BY <2>4 DEF end
<1>7. Rest(s, from, i) = from[p] /\ p \in 1..(n + 1) /\ from[p] \in Seq(Characters)
  <2>1. p <= n \/ p = n + 1
    BY <1>1, <1>2
  <2>2. p \in 1..(n + 1)
    BY <1>1, <1>2
  <2> HIDE DEF p
  <2> QED BY <1>1, <1>5, <1>6, <2>1, <2>2 DEF Rest, Solution, p
<1> HIDE DEF n, p, t
<1>8. CASE \A k \in 1..(p - i) : t[k] = "space"
  <2>1. Entry(s, i) = <<>>
    BY <1>3, <1>4, <1>8, Trimmed
  <2>2. \A k \in i..(p - 1) : s[k] \in Blank
    <3> TAKE k \in i..(p - 1)
    <3>1. k + 1 - i \in 1..(p - i) /\ i + (k + 1 - i) - 1 = k
      BY <1>1, <1>2
    <3> QED BY <1>3, <1>8, <3>1 DEF Blank
  <2>3. Listing(s, from, i) = Listing(s, from, p)
    BY <1>1, <1>2, <2>2, BlanksAreSkipped DEF n
  <2>4. from[i] = from[p]
    BY <1>1, <1>7, <2>3 DEF Solution, n
  <2> QED BY <1>7, <2>1, <2>4
<1>9. CASE ~(\A k \in 1..(p - i) : t[k] = "space")
  <2> DEFINE T == {k \in 1..(p - i) : t[k] # "space"}
             m == Min(T)
  <2>1. T \in SUBSET Nat /\ T # {}
    BY <1>9
  <2>2. m \in T /\ \A k \in T : m <= k
    <3> HIDE DEF T
    <3> QED BY <2>1, LeastIs
  <2> HIDE DEF m
  <2>3. m \in 1..(p - i) /\ t[m] # "space" /\ \A k \in 1..(m - 1) : t[k] = "space"
    <3>1. \A k \in 1..(m - 1) : k \in 1..(p - i) /\ ~(m <= k)
      BY <1>1, <1>2, <2>2
    <3> QED BY <2>2, <3>1
  <2> HIDE DEF T
  <2>4. Trim(t) # <<>>
    BY <1>3, <2>3, Trimmed
  <2>5. Entry(s, i) = <<"comma">> \o toUpper(Trim(t)) /\ Entry(s, i) # <<>>
    <3>1. Trim(t) \in Seq(Characters)
      BY <1>3, Trimmed
    <3>2. toUpper(Trim(t)) \in Seq(Characters)
      BY <3>1, UpperIs
    <3> QED BY <1>4, <2>4, <3>2
  <2>6. Trim(t) = SubSeq(t, m, Len(t))
    BY <1>3, <2>3, <2>5, Trimmed DEF Last, t
  <2> DEFINE a == i + m - 1
  <2>7. /\ a \in i..(p - 1) /\ a <= n /\ s[a] \notin Blank
        /\ \A k \in i..(a - 1) : s[k] \in Blank
    <3>1. a \in i..(p - 1) /\ a <= n
      BY <1>1, <1>2, <2>3
    <3>2. s[a] \notin Blank
      BY <1>2, <1>3, <2>3, <3>1 DEF Blank
    <3>3. ASSUME NEW k \in i..(a - 1) PROVE s[k] \in Blank
      <4>1. k + 1 - i \in 1..(m - 1) /\ i + (k + 1 - i) - 1 = k /\ k + 1 - i \in 1..(p - i)
        BY <1>1, <1>2, <2>3
      <4> QED BY <1>3, <2>3, <4>1 DEF Blank
    <3> QED BY <3>1, <3>2, <3>3
  <2>8. ListStart(s, i) = a
    <3>1. a \in i..(n + 1) /\ a \in 1..(n + 1)
      BY <1>1, <2>7
    <3> HIDE DEF a
    <3>2. ListStart(s, i) = ListStart(s, a)
      BY <1>1, <2>7, <3>1, BlanksAreSkipped DEF n
    <3>3. /\ ListStart(s, a) \in a..(n + 1)
          /\ \A k \in a..(ListStart(s, a) - 1) : s[k] \in Blank
      BY <3>1, StartFinds DEF n
    <3>4. ~(ListStart(s, a) > a)
      BY <1>1, <2>7, <3>1, <3>3
    <3> QED BY <1>1, <3>1, <3>2, <3>3, <3>4
  <2>9. ListEnd(s, i) = p
    <3>1. IsFirst(s, "comma", a, p)
      BY <1>1, <1>2, <2>7 DEF IsFirst, n
    <3> QED BY <2>8, <3>1, PlaceIsFirst DEF ListEnd
  <2>10. SubSeq(s, a, p - 1) = Trim(t)
    <3>1. a \in 1..(n + 1) /\ p - 1 \in (a - 1)..n /\ m \in 1..(Len(t) + 1)
          /\ Len(t) \in (m - 1)..Len(t) /\ p - 1 + 1 - a = Len(t) + 1 - m
      BY <1>1, <1>2, <1>3, <2>3, <2>7
    <3> DEFINE x == SubSeq(s, a, p - 1)
               y == SubSeq(t, m, Len(t))
    <3> HIDE DEF a
    <3>2. /\ x \in Seq(Characters) /\ Len(x) = p - 1 + 1 - a
          /\ \A k \in 1..(p - 1 + 1 - a) : x[k] = s[a + k - 1]
      BY <3>1, Part DEF n
    <3>3. /\ y \in Seq(Characters) /\ Len(y) = Len(t) + 1 - m
          /\ \A k \in 1..(Len(t) + 1 - m) : y[k] = t[m + k - 1]
      BY <1>3, <3>1, Part
    <3>4. ASSUME NEW k \in 1..(Len(t) + 1 - m) PROVE s[a + k - 1] = t[m + k - 1]
      <4>1. m + k - 1 \in 1..(p - i) /\ i + (m + k - 1) - 1 = a + k - 1
        BY <1>1, <1>2, <1>3, <2>3 DEF a
      <4> QED BY <1>3, <4>1
    <3> HIDE DEF x, y
    <3>5. x = y
      BY <3>1, <3>2, <3>3, <3>4, SeqEqual
    <3> QED BY <2>6, <3>5 DEF x, y
  <2>11. from[i] = <<"comma">> \o Listed(s, i) \o from[p]
    <3>1. from[i] = Listing(s, from, i)
      BY <1>1 DEF Solution, n
    <3>2. ~(ListStart(s, i) > n)
      BY <1>1, <2>7, <2>8
    <3> HIDE DEF a
    <3> QED BY <2>9, <3>1, <3>2 DEF Listing, n
  <2>12. Listed(s, i) = toUpper(Trim(t))
    BY <2>8, <2>9, <2>10 DEF Listed
  <2> QED BY <1>7, <2>5, <2>11, <2>12
<1> QED BY <1>8, <1>9

\* What the loop has still to return at i: of the part that begins there, or
\* of those after the next comma.
Still(s, from, i) == IF Begins(s, i) THEN from[i] ELSE Rest(s, from, i)

\* The rest after i is what is still to return at i + 1.
LEMMA RestIsStill ==
  ASSUME NEW s \in Seq(Characters), NEW from, NEW i \in 1..Len(s)
  PROVE  Rest(s, from, i) = Still(s, from, i + 1)
<1> DEFINE n == Len(s)
           p == Place(s, "comma", i)
<1>1. n \in Nat /\ i \in Nat /\ i >= 1 /\ i <= n /\ i \in 1..(n + 1) /\ i + 1 # 1 /\ i + 1 - 1 = i
  OBVIOUS
<1>2. p \in i..(n + 1) /\ (p <= n => s[p] = "comma") /\ \A k \in i..(p - 1) : s[k] # "comma"
  BY <1>1, PlaceFinds
<1>3. Begins(s, i + 1) <=> s[i] = "comma"
  BY <1>1 DEF Begins
<1> HIDE DEF n, p
<1>4. CASE s[i] = "comma"
  <2>1. p = i
    <3>1. ~(i < p)
      BY <1>1, <1>2, <1>4
    <3> QED BY <1>1, <1>2, <3>1
  <2> QED BY <1>1, <1>3, <1>4, <2>1 DEF Rest, Still, n, p
<1>5. CASE s[i] # "comma"
  <2>1. p # i
    BY <1>1, <1>2, <1>5
  <2> DEFINE j == i + 1
  <2>2. p \in j..(n + 1) /\ j \in 1..(n + 1) /\ \A k \in j..(p - 1) : s[k] # "comma"
    BY <1>1, <1>2, <2>1
  <2> HIDE DEF j
  <2>3. IsFirst(s, "comma", j, p)
    BY <1>2, <2>2 DEF IsFirst, n
  <2>4. Place(s, "comma", j) = p
    BY <2>3, PlaceIsFirst
  <2> QED BY <1>3, <1>5, <2>4 DEF Rest, Still, n, p, j
<1> QED BY <1>4, <1>5

\* Place by place, the loop returns the entries.
LEMMA StillEntry ==
  ASSUME NEW s \in Seq(Characters), NEW from, Solution(s, from), NEW i \in 1..Len(s),
         Entry(s, i) # <<>> => Last(Segment(s, i)) # "space"
  PROVE  Still(s, from, i) = Entry(s, i) \o Still(s, from, i + 1)
<1>1. CASE Begins(s, i)
  BY <1>1, EntryIsListed, RestIsStill DEF Still
<1>2. CASE ~Begins(s, i)
  <2>1. Entry(s, i) = <<>>
    BY <1>2 DEF Entry
  <2>2. Rest(s, from, i) \in Seq(Characters)
    <3> DEFINE p == Place(s, "comma", i)
    <3>1. Len(s) \in Nat /\ i \in 1..(Len(s) + 1)
      OBVIOUS
    <3>2. p \in i..(Len(s) + 1)
      BY <3>1, PlaceFinds
    <3> HIDE DEF p
    <3>3. p <= Len(s) => from[p + 1] \in Seq(Characters)
      BY <3>1, <3>2 DEF Solution
    <3> QED BY <3>3 DEF Rest, p
  <2>3. Still(s, from, i) = Rest(s, from, i) /\ Still(s, from, i + 1) = Rest(s, from, i)
    BY <1>2, RestIsStill DEF Still
  <2> HIDE DEF Rest
  <2> QED BY <2>1, <2>2, <2>3
<1> QED BY <1>1, <1>2

\* The entries consist of the characters of the list, and of commas and
\* capitals.
LEMMA EntriesAre ==
  ASSUME NEW C, "comma" \in C, \A t \in Seq(C) : toUpper(t) \in Seq(C), NEW s \in Seq(C)
  PROVE  /\ \A i \in 1..Len(s) : Entry(s, i) \in Seq(C)
         /\ Entries(s) \in Seq(C)
<1>1. ASSUME NEW i \in 1..Len(s) PROVE Entry(s, i) \in Seq(C)
  <2> DEFINE p == Place(s, "comma", i)
             t == Segment(s, i)
  <2>1. Len(s) \in Nat /\ i \in 1..(Len(s) + 1)
    OBVIOUS
  <2>2. p \in i..(Len(s) + 1)
    BY <2>1, PlaceFinds
  <2>3. t = SubSeq(s, i, p - 1)
    BY DEF Segment
  <2> HIDE DEF p, t
  <2>4. p - 1 \in (i - 1)..Len(s)
    BY <2>1, <2>2
  <2>5. t \in Seq(C)
    BY <2>1, <2>3, <2>4, Part
  <2>6. toUpper(Trim(t)) \in Seq(C)
    BY <2>5, Trimmed
  <2> QED BY <2>6 DEF Entry, t
<1> DEFINE seqs == [i \in 1..Len(s) |-> Entry(s, i)]
<1>2. seqs \in Seq(Seq(C))
  BY <1>1
<1>3. DOMAIN s = 1..Len(s)
  OBVIOUS
<1>4. Entries(s) = FlattenSeq(seqs)
  BY <1>3 DEF Entries
<1> HIDE DEF seqs
<1>5. Entries(s) \in Seq(C)
  BY <1>2, <1>4, FlattenBlocks
<1> QED BY <1>1, <1>5

\* The loop of exchangeInfo() returns the symbols that the list means.
LEMMA ListIsMeant ==
  ASSUME NEW s \in Seq(Characters), NEW from, Solution(s, from),
         \A i \in 1..Len(s) : Entry(s, i) # <<>> => Last(Segment(s, i)) # "space"
  PROVE  from[1] = Entries(s)
<1> DEFINE n == Len(s)
           seqs == [i \in 1..n |-> Entry(s, i)]
<1>1. n \in Nat /\ DOMAIN s = 1..n
  OBVIOUS
<1>2. "comma" \in Characters /\ \A t \in Seq(Characters) : toUpper(t) \in Seq(Characters)
  BY UpperIs DEF Characters, Others
<1>3. \A i \in 1..n : Entry(s, i) \in Seq(Characters)
  BY <1>2, EntriesAre
<1>4. Entries(s) = FlattenSeq(seqs)
  BY <1>1 DEF Entries
<1>5. seqs \in Seq(Seq(Characters)) /\ Len(seqs) = n /\ \A i \in 1..n : seqs[i] = Entry(s, i)
  BY <1>1, <1>3
<1>6. Still(s, from, n + 1) = <<>>
  <2> DEFINE end == n + 1
  <2>1. end \in 1..(n + 1) /\ end > n
    BY <1>1
  <2> HIDE DEF end
  <2>2. ListStart(s, end) \in end..(n + 1) /\ Place(s, "comma", end) \in end..(n + 1)
    BY <2>1, StartFinds, PlaceFinds
  <2>3. ListStart(s, end) > n /\ ~(Place(s, "comma", end) <= n)
    BY <1>1, <2>1, <2>2
  <2>4. from[end] = <<>> /\ Rest(s, from, end) = <<>>
    BY <2>1, <2>3 DEF Solution, Listing, Rest
  <2> QED BY <2>4 DEF Still, end
<1>7. from[1] = Still(s, from, 1)
  BY DEF Still, Begins
<1>8. CASE n = 0
  <2>1. seqs = <<>>
    BY <1>5, <1>8
  <2>2. FlattenSeq(seqs) = <<>>
    BY <2>1 DEF FlattenSeq
  <2> QED BY <1>4, <1>6, <1>7, <1>8, <2>2
<1>9. CASE n # 0
  <2> HIDE DEF seqs, n
  <2>1. PICK f \in [1..n -> Seq(Characters)] :
           /\ f[1] = seqs[1]
           /\ \A i \in 2..n : f[i] = f[i - 1] \o seqs[i]
           /\ FlattenSeq(seqs) = f[n]
    <3>1. seqs # <<>>
      BY <1>1, <1>5, <1>9
    <3> QED BY <1>5, <3>1, Flatten
  <2> DEFINE Upto(k) == from[1] = f[k] \o Still(s, from, k + 1)
             T == {k \in Nat : k \in 1..n => Upto(k)}
  <2>2. \A i \in 1..n : Still(s, from, i) = Entry(s, i) \o Still(s, from, i + 1)
    BY StillEntry DEF n
  <2>3. \A i \in 1..(n + 1) : Still(s, from, i) \in Seq(Characters)
    <3> TAKE i \in 1..(n + 1)
    <3> DEFINE p == Place(s, "comma", i)
    <3>1. p \in i..(n + 1)
      BY PlaceFinds DEF n
    <3> HIDE DEF p
    <3>2. p <= n => from[p + 1] \in Seq(Characters)
      BY <1>1, <3>1 DEF Solution, n
    <3>3. from[i] \in Seq(Characters)
      BY DEF Solution, n
    <3> QED BY <3>2, <3>3 DEF Still, Rest, p, n
  <2>4. 0 \in T
    OBVIOUS
  <2>5. ASSUME NEW k \in Nat, k \in T PROVE k + 1 \in T
    <3> SUFFICES ASSUME k + 1 \in 1..n PROVE Upto(k + 1)
      <4> HIDE DEF Upto
      <4> QED OBVIOUS
    <3>1. CASE k = 0
      <4>1. 1 \in 1..n /\ k + 1 = 1
        BY <1>1, <1>9, <3>1
      <4>2. from[1] = f[1] \o Still(s, from, 1 + 1)
        BY <1>5, <1>7, <2>1, <2>2, <4>1
      <4> QED BY <4>1, <4>2
    <3>2. CASE k # 0
      <4>1. k \in 1..n /\ k + 1 \in 2..n /\ k + 1 - 1 = k /\ k + 1 + 1 \in 1..(n + 1)
        BY <1>1, <3>2
      <4>2. Upto(k)
        <5> HIDE DEF Upto
        <5> QED BY <2>5, <4>1
      <4> DEFINE a == f[k]
                 b == Entry(s, k + 1)
                 c == Still(s, from, k + 1 + 1)
      <4>3. from[1] = a \o (b \o c)
        BY <2>2, <4>2
      <4>4. f[k + 1] = a \o b
        <5> DEFINE m == k + 1
        <5>1. m \in 2..n /\ m \in 1..n /\ m - 1 = k
          BY <1>1, <4>1
        <5> HIDE DEF m
        <5>2. f[m] = f[m - 1] \o seqs[m] /\ seqs[m] = Entry(s, m)
          BY <1>5, <2>1, <5>1
        <5> QED BY <5>1, <5>2 DEF m
      <4>5. a \in Seq(Characters) /\ b \in Seq(Characters) /\ c \in Seq(Characters)
        BY <1>3, <2>1, <2>3, <4>1
      <4> HIDE DEF a, b, c
      <4>6. a \o (b \o c) = (a \o b) \o c
        BY <4>5
      <4> QED BY <4>3, <4>4, <4>6 DEF c
    <3> QED BY <3>1, <3>2
  <2>6. Upto(n)
    <3>1. n \in T
      <4> HIDE DEF T
      <4> QED BY <1>1, <2>4, <2>5, Induction
    <3> HIDE DEF Upto
    <3> QED BY <1>1, <1>9, <3>1
  <2> DEFINE all == f[n]
  <2>7. all \in Seq(Characters)
    BY <1>1, <1>9, <2>1
  <2>8. from[1] = all \o <<>>
    BY <1>6, <2>6
  <2>9. all \o <<>> = all
    <3> HIDE DEF all
    <3> QED BY <2>7
  <2> QED BY <1>4, <2>1, <2>8, <2>9
<1> QED BY <1>8, <1>9

\* The loop of exchangeInfo() returns a text.
LEMMA ListSolves ==
  ASSUME NEW s \in Seq(Characters)
  PROVE  \E from : Solution(s, from) /\ Spot!symbolList(s) = SubSeq(from[1], 2, Len(from[1]))
<1> DEFINE n == Len(s)
<1>1. PICK from : /\ \A i \in 1..(n + 1) : from[i] = Listing(s, from, i)
                  /\ Spot!symbolList(s) = SubSeq(from[1], 2, Len(from[1]))
  BY ListReads
<1> DEFINE P(k) == \A i \in (n + 1 - k)..(n + 1) : from[i] \in Seq(Characters)
           T == {k \in Nat : k <= n => P(k)}
<1>2. n \in Nat
  OBVIOUS
<1>3. ASSUME NEW i \in 1..(n + 1), \A j \in (i + 1)..(n + 1) : from[j] \in Seq(Characters)
      PROVE  from[i] \in Seq(Characters)
  <2>1. from[i] = Listing(s, from, i)
    BY <1>1
  <2>2. CASE ListStart(s, i) > n
    BY <2>1, <2>2 DEF Listing
  <2>3. CASE ~(ListStart(s, i) > n)
    <3> DEFINE a == Listed(s, i)
               b == from[ListEnd(s, i)]
    <3>1. a \in Seq(Characters) /\ ListEnd(s, i) \in (i + 1)..(n + 1)
      <4>1. ListStart(s, i) <= n
        BY <1>2, <2>3, ListAdvances
      <4> QED BY <4>1, ListAdvances
    <3>2. b \in Seq(Characters)
      BY <1>3, <3>1
    <3>3. from[i] = <<"comma">> \o a \o b
      BY <2>1, <2>3 DEF Listing
    <3>4. "comma" \in Characters
      BY DEF Characters, Others
    <3> HIDE DEF a, b
    <3> QED BY <3>1, <3>2, <3>3, <3>4
  <2> QED BY <2>2, <2>3
<1>4. 0 \in T
  <2>1. \A j \in (n + 1 + 1)..(n + 1) : FALSE
    BY <1>2
  <2>2. n + 1 \in 1..(n + 1)
    BY <1>2
  <2>3. from[n + 1] \in Seq(Characters)
    BY <1>3, <2>1, <2>2
  <2>4. \A i \in (n + 1 - 0)..(n + 1) : i = n + 1
    BY <1>2
  <2> QED BY <2>3, <2>4
<1>5. ASSUME NEW k \in Nat, k \in T PROVE k + 1 \in T
  <2> SUFFICES ASSUME k + 1 <= n PROVE P(k + 1)
    <3> HIDE DEF P
    <3> QED OBVIOUS
  <2>1. P(k)
    <3> HIDE DEF P
    <3> QED BY <1>2, <1>5
  <2> DEFINE m == n + 1 - (k + 1)
  <2>2. m \in 1..(n + 1) /\ m + 1 = n + 1 - k /\ \A i \in m..(n + 1) : i = m \/ i \in (m + 1)..(n + 1)
    BY <1>2
  <2>3. \A j \in (m + 1)..(n + 1) : from[j] \in Seq(Characters)
    BY <2>1, <2>2
  <2> HIDE DEF m
  <2>4. from[m] \in Seq(Characters)
    BY <1>3, <2>2, <2>3
  <2> QED BY <2>2, <2>3, <2>4 DEF m
<1>6. P(n)
  <2>1. n \in T
    <3> HIDE DEF T
    <3> QED BY <1>2, <1>4, <1>5, Induction
  <2> HIDE DEF P
  <2> QED BY <1>2, <2>1
<1>7. n + 1 - n = 1
  BY <1>2
<1>8. Solution(s, from)
  BY <1>1, <1>6, <1>7 DEF Solution
<1> QED BY <1>1, <1>8

\* The list it returns is a text, and empty for an empty one.
LEMMA SymbolList ==
  ASSUME NEW s \in Seq(Characters)
  PROVE  Spot!symbolList(s) \in Seq(Characters) /\ (s = <<>> => Spot!symbolList(s) = <<>>)
<1>1. PICK from : Solution(s, from) /\ Spot!symbolList(s) = SubSeq(from[1], 2, Len(from[1]))
  BY ListSolves
<1>2. 1 \in 1..(Len(s) + 1)
  OBVIOUS
<1>3. from[1] \in Seq(Characters) /\ from[1] = Listing(s, from, 1)
  BY <1>1, <1>2 DEF Solution
<1>4. s = <<>> => ListStart(s, 1) > Len(s)
  <2>1. ListStart(s, 1) \in 1..(Len(s) + 1)
    BY <1>2, ListAdvances
  <2>2. s = <<>> => Len(s) = 0
    OBVIOUS
  <2> QED BY <2>1, <2>2
<1>5. s = <<>> => from[1] = <<>>
  BY <1>3, <1>4 DEF Listing
<1>6. SubSeq(<<>>, 2, Len(<<>>)) = <<>>
  OBVIOUS
<1> QED BY <1>1, <1>3, <1>5, <1>6

\* A list of clear characters has clear entries.
LEMMA EntriesAreClear ==
  ASSUME NEW s, Clear(s)
  PROVE  Clear(SubSeq(Entries(s), 2, Len(Entries(s))))
<1> DEFINE C == {c \in Characters : Byte[c] >= 16}
<1>1. \A t : Clear(t) <=> t \in Seq(C)
  <2> TAKE t
  <2>1. ASSUME Clear(t) PROVE t \in Seq(C)
    <3>1. t \in Seq(Characters) /\ \A i \in 1..Len(t) : Byte[t[i]] >= 16
      BY <2>1 DEF Clear
    <3>2. \A i \in 1..Len(t) : t[i] \in C
      BY <3>1
    <3> HIDE DEF C
    <3> QED BY <3>1, <3>2
  <2>2. ASSUME t \in Seq(C) PROVE Clear(t)
    <3>1. C \subseteq Characters /\ \A c \in C : Byte[c] >= 16
      OBVIOUS
    <3> HIDE DEF C
    <3> QED BY <2>2, <3>1 DEF Clear
  <2> QED BY <2>1, <2>2
<1>2. "comma" \in C
  <2>1. "comma" \in Characters
    BY DEF Characters, Others
  <2>2. Byte["comma"] = 44
    BY <2>1 DEF Byte
  <2> QED BY <2>1, <2>2
<1>3. \A t \in Seq(C) : toUpper(t) \in Seq(C)
  <2> TAKE t \in Seq(C)
  <2>1. Clear(t) /\ t \in Seq(Characters)
    BY <1>1 DEF Clear
  <2> HIDE DEF C
  <2> QED BY <1>1, <2>1, UpperIs
<1> HIDE DEF C
<1>4. Entries(s) \in Seq(C)
  <2>1. s \in Seq(C)
    BY <1>1
  <2> QED BY <1>2, <1>3, <2>1, EntriesAre
<1> DEFINE all == Entries(s)
<1>5. SubSeq(all, 2, Len(all)) \in Seq(C)
  <2> HIDE DEF all
  <2> QED BY <1>4 DEF all
<1> QED BY <1>1, <1>5

-----------------------------------------------------------------------------
(* The arguments.                                                           *)

\* The names of the arguments.
LEMMA KnownNames ==
  {"currency", "end", "interval", "leverage", "limit", "listenKey", "orderId", "orderType",
   "page_num", "page_size", "quantity", "side", "symbol", "symbols", "timestamp", "type", "vol"}
  \subseteq Names
BY DEF Names, ToSet, NameOrder

\* What the assumptions say of one argument.
LEMMA Inputs ==
  /\ \A text \in Symbols \cup Numbers \cup Lists \cup Stamps : text \in Seq(Characters)
  /\ \A options \in Options : IsParameters(options) /\ "timestamp" \notin DOMAIN options
  /\ \A time \in Times : time \in Nat \ {0}
<1>1. \A text \in Symbols \cup Numbers \cup Lists \cup Stamps : text \in Seq(Characters)
  BY ArgumentsAssumption, InputsAssumption
<1>2. \A options \in Options : IsParameters(options) /\ "timestamp" \notin DOMAIN options
  BY ArgumentsAssumption DEF IsParameters, Names
<1> QED BY <1>1, <1>2, InputsAssumption

\* AnyCase and Rewritten by class and function.
Caps(class, fn) ==
    (IF class = "spot" THEN {"symbol"} ELSE {})
    \cup (IF fn \in {"newOrder", "newOrderTest"} THEN {"side", "type"} ELSE {})
Made(fn) == IF fn = "exchangeInfo" THEN {"symbols"} ELSE {}

\* A list of parameters that are copied, in capitals where that is expected.
LEMMA Copied ==
  ASSUME NEW class, NEW fn, NEW params, IsParameters(params), NEW p, DOMAIN p = DOMAIN params,
         \A n \in DOMAIN params \ Made(fn) :
            p[n] = IF n \in Caps(class, fn) THEN toUpper(params[n]) ELSE params[n],
         \A n \in DOMAIN params \cap Made(fn) :
            p[n] \in Seq(Characters) /\ (params[n] = <<>> => p[n] = <<>>)
  PROVE  IsParameters(p) /\ Texts(params) /\ Conveys(class, fn, params, p, FALSE)
<1>1. \A n \in DOMAIN params : params[n] \in Seq(Characters) /\ n \in Names
  BY DEF IsParameters
<1>2. \A n \in DOMAIN params :
        /\ toUpper(params[n]) \in Seq(Characters)
        /\ params[n] = <<>> => toUpper(params[n]) = <<>>
  BY <1>1, UpperIs
<1>3. \A n \in DOMAIN p : p[n] \in Seq(Characters) /\ (params[n] = <<>> => p[n] = <<>>)
  BY <1>1, <1>2
<1>4. IsParameters(p) /\ Texts(params)
  BY <1>1, <1>3 DEF IsParameters, Texts
<1>5. Carries(params, p, Caps(class, fn), Made(fn), FALSE)
  BY <1>3 DEF Carries
<1>6. /\ AnyCase(Call(class, fn, params)) = Caps(class, fn)
      /\ Rewritten(Call(class, fn, params)) = Made(fn)
  BY DEF AnyCase, Call, Caps, Rewritten, Made
<1>7. Conveys(class, fn, params, p, FALSE)
  BY <1>5, <1>6 DEF Conveys
<1> QED BY <1>4, <1>7

\* The arguments over the options.
LEMMA CopiedOver ==
  ASSUME NEW class, NEW fn, fn # "exchangeInfo", NEW a, IsParameters(a), NEW b, DOMAIN b = DOMAIN a,
         \A n \in DOMAIN a : b[n] = IF n \in Caps(class, fn) THEN toUpper(a[n]) ELSE a[n],
         Caps(class, fn) \subseteq DOMAIN a, NEW options, IsParameters(options)
  PROVE  LET params == Over(a, options)
             p == Over(b, options)
         IN  IsParameters(p) /\ Texts(params) /\ Conveys(class, fn, params, p, FALSE)
<1> DEFINE params == Over(a, options)
           p == Over(b, options)
<1>1. /\ DOMAIN params = DOMAIN a \cup DOMAIN options /\ DOMAIN p = DOMAIN params
      /\ \A n \in DOMAIN a : params[n] = a[n] /\ p[n] = b[n]
      /\ \A n \in DOMAIN params \ DOMAIN a : params[n] = options[n] /\ p[n] = options[n]
  BY DEF Over
<1> HIDE DEF params, p
<1>2. IsParameters(params)
  BY <1>1 DEF IsParameters
<1>3. \A n \in DOMAIN params : p[n] = IF n \in Caps(class, fn) THEN toUpper(params[n]) ELSE params[n]
  BY <1>1
<1>4. Made(fn) = {}
  BY DEF Made
<1>5. IsParameters(p) /\ Texts(params) /\ Conveys(class, fn, params, p, FALSE)
  BY <1>1, <1>2, <1>3, <1>4, Copied
<1> QED BY <1>5 DEF params, p

-----------------------------------------------------------------------------
(* The functions of SpotMarket.                                             *)

\* publicGet() of SpotMarket with parameters that convey the arguments.
LEMMA SpotGet ==
  ASSUME NEW fn, NEW params, NEW path, NEW p, Spot!publicGet(fn, params, path, p),
         path # "?", IsParameters(p), Texts(params), Conveys("spot", fn, params, p, FALSE)
  PROVE  Sent
<1> DEFINE q == Plain("GET", Url(<<path>>, buildQueryString(removeEmptyParams(p))))
<1>1. Begin("spot", fn, params, FALSE, q)
  BY SpotQueries, SpotCalls DEF Spot!publicGet
<1>2. Sound("spot", fn, params, q)
  BY GetSound
<1> HIDE DEF q
<1> QED BY <1>1, <1>2, BeginSound

\* The shapes of their arguments.
LEMMA SpotShapes ==
  ASSUME NEW fn, fn \notin {"exchangeInfo", "newOrder", "newOrderTest"},
         NEW symbol \in Seq(Characters)
  PROVE  /\ LET params == [symbol |-> symbol]
                p == [symbol |-> toUpper(symbol)]
            IN  IsParameters(p) /\ Texts(params) /\ Conveys("spot", fn, params, p, FALSE)
         /\ \A limit \in Seq(Characters) :
              LET params == [symbol |-> symbol, limit |-> limit]
                  p == [symbol |-> toUpper(symbol), limit |-> limit]
              IN  IsParameters(p) /\ Texts(params) /\ Conveys("spot", fn, params, p, FALSE)
         /\ \A options : IsParameters(options) =>
              LET params == Over([symbol |-> symbol], options)
                  p == Over([symbol |-> toUpper(symbol)], options)
              IN  IsParameters(p) /\ Texts(params) /\ Conveys("spot", fn, params, p, FALSE)
         /\ \A options, interval : IsParameters(options) /\ interval \in Seq(Characters) =>
              LET params == Over([symbol |-> symbol, interval |-> interval], options)
                  p == Over([symbol |-> toUpper(symbol), interval |-> interval], options)
              IN  IsParameters(p) /\ Texts(params) /\ Conveys("spot", fn, params, p, FALSE)
<1>1. Caps("spot", fn) = {"symbol"} /\ Made(fn) = {}
  BY DEF Caps, Made
<1>2. ASSUME NEW a, NEW b, a = [symbol |-> symbol], b = [symbol |-> toUpper(symbol)]
      PROVE  /\ IsParameters(b) /\ Texts(a) /\ Conveys("spot", fn, a, b, FALSE)
             /\ \A options : IsParameters(options) =>
                    LET params == Over(a, options)
                        p == Over(b, options)
                    IN  IsParameters(p) /\ Texts(params) /\ Conveys("spot", fn, params, p, FALSE)
  <2>1. DOMAIN a = {"symbol"} /\ DOMAIN b = {"symbol"} /\ a["symbol"] = symbol
        /\ b["symbol"] = toUpper(symbol)
    BY <1>2
  <2>2. IsParameters(a)
    BY <2>1, KnownNames DEF IsParameters
  <2> QED BY <1>1, <2>1, <2>2, Copied, CopiedOver
<1>3. ASSUME NEW x \in {"limit", "interval"}, NEW text \in Seq(Characters), NEW a, NEW b,
             DOMAIN a = {"symbol", x}, DOMAIN b = {"symbol", x}, a["symbol"] = symbol,
             b["symbol"] = toUpper(symbol), a[x] = text, b[x] = text
      PROVE  /\ IsParameters(b) /\ Texts(a) /\ Conveys("spot", fn, a, b, FALSE)
             /\ \A options : IsParameters(options) =>
                    LET params == Over(a, options)
                        p == Over(b, options)
                    IN  IsParameters(p) /\ Texts(params) /\ Conveys("spot", fn, params, p, FALSE)
  <2>1. IsParameters(a)
    BY <1>3, KnownNames DEF IsParameters
  <2>2. \A n \in DOMAIN a : b[n] = IF n \in Caps("spot", fn) THEN toUpper(a[n]) ELSE a[n]
    BY <1>1, <1>3
  <2> QED BY <1>1, <1>3, <2>1, <2>2, Copied, CopiedOver
<1>4. ASSUME NEW limit \in Seq(Characters)
      PROVE  LET params == [symbol |-> symbol, limit |-> limit]
                 p == [symbol |-> toUpper(symbol), limit |-> limit]
             IN  IsParameters(p) /\ Texts(params) /\ Conveys("spot", fn, params, p, FALSE)
  <2> DEFINE a == [symbol |-> symbol, limit |-> limit]
             b == [symbol |-> toUpper(symbol), limit |-> limit]
  <2>1. DOMAIN a = {"symbol", "limit"} /\ DOMAIN b = {"symbol", "limit"} /\ a["symbol"] = symbol
        /\ b["symbol"] = toUpper(symbol) /\ a["limit"] = limit /\ b["limit"] = limit
    OBVIOUS
  <2> HIDE DEF a, b
  <2>2. IsParameters(b) /\ Texts(a) /\ Conveys("spot", fn, a, b, FALSE)
    BY <1>3, <2>1
  <2> QED BY <2>2 DEF a, b
<1>5. ASSUME NEW options, IsParameters(options), NEW interval \in Seq(Characters)
      PROVE  LET params == Over([symbol |-> symbol, interval |-> interval], options)
                 p == Over([symbol |-> toUpper(symbol), interval |-> interval], options)
             IN  IsParameters(p) /\ Texts(params) /\ Conveys("spot", fn, params, p, FALSE)
  <2> DEFINE a == [symbol |-> symbol, interval |-> interval]
             b == [symbol |-> toUpper(symbol), interval |-> interval]
  <2>1. DOMAIN a = {"symbol", "interval"} /\ DOMAIN b = {"symbol", "interval"} /\ a["symbol"] = symbol
        /\ b["symbol"] = toUpper(symbol) /\ a["interval"] = interval /\ b["interval"] = interval
    OBVIOUS
  <2> HIDE DEF a, b
  <2>2. IsParameters(Over(b, options)) /\ Texts(Over(a, options))
        /\ Conveys("spot", fn, Over(a, options), Over(b, options), FALSE)
    BY <1>3, <1>5, <2>1
  <2> QED BY <2>2 DEF a, b
<1> QED BY <1>2, <1>4, <1>5

\* Each function of SpotMarket sends what it was passed.
LEMMA SpotMarketSends ==
  ASSUME Spot!MarketCall
  PROVE  Sent
<1>1. ASSUME NEW options \in Options \cup [{"symbols"} -> Lists], Spot!exchangeInfo(options)
      PROVE  Sent
  <2> DEFINE p == [n \in DOMAIN options |->
                    CASE n = "symbol" -> Spot!toUpper(options[n])
                      [] n = "symbols" -> Spot!symbolList(options[n])
                      [] OTHER -> options[n]]
  <2>1. IsParameters(options)
    <3>1. CASE options \in Options
      BY <3>1, Inputs
    <3>2. CASE options \in [{"symbols"} -> Lists]
      BY <3>2, Inputs, KnownNames DEF IsParameters
    <3> QED BY <3>1, <3>2
  <2>2. Caps("spot", "exchangeInfo") = {"symbol"} /\ Made("exchangeInfo") = {"symbols"}
    BY DEF Caps, Made
  <2>3. DOMAIN p = DOMAIN options
    OBVIOUS
  <2>4. \A n \in DOMAIN options \ {"symbols"} :
          p[n] = IF n \in {"symbol"} THEN toUpper(options[n]) ELSE options[n]
    BY SpotTexts
  <2>5. \A n \in DOMAIN options \cap {"symbols"} : p[n] = Spot!symbolList(options[n])
    OBVIOUS
  <2>6. Spot!publicGet("exchangeInfo", options, "/exchangeInfo", p)
    BY <1>1 DEF Spot!exchangeInfo
  <2> HIDE DEF p
  <2>7. \A n \in DOMAIN options \cap {"symbols"} :
          p[n] \in Seq(Characters) /\ (options[n] = <<>> => p[n] = <<>>)
    BY <2>1, <2>5, SymbolList DEF IsParameters
  <2>8. IsParameters(p) /\ Texts(options) /\ Conveys("spot", "exchangeInfo", options, p, FALSE)
    BY <2>1, <2>2, <2>3, <2>4, <2>7, Copied
  <2> QED BY <2>6, <2>8, SpotGet
<1>2. ASSUME NEW fn, NEW path, path # "?", fn # "exchangeInfo", Spot!publicGet(fn, <<>>, path, <<>>)
      PROVE  Sent
  <2> DEFINE none == <<>>
  <2>1. DOMAIN none = {}
    OBVIOUS
  <2>2. Spot!publicGet(fn, none, path, none)
    BY <1>2
  <2> HIDE DEF none
  <2>3. IsParameters(none) /\ Texts(none) /\ Conveys("spot", fn, none, none, FALSE)
    <3>1. IsParameters(none)
      BY <2>1 DEF IsParameters
    <3> QED BY <2>1, <3>1, Copied
  <2> QED BY <1>2, <2>2, <2>3, SpotGet
<1>3. ASSUME NEW symbol \in Symbols, NEW limit \in Numbers, Spot!depth(symbol, limit) PROVE Sent
  <2>1. symbol \in Seq(Characters) /\ limit \in Seq(Characters)
    BY Inputs
  <2>2. Spot!publicGet("depth", [symbol |-> symbol, limit |-> limit], "/depth",
                       [symbol |-> toUpper(symbol), limit |-> limit])
    BY <1>3, SpotTexts DEF Spot!depth
  <2> QED BY <2>1, <2>2, SpotShapes, SpotGet
<1>4. ASSUME NEW symbol \in Symbols, NEW limit \in Numbers, Spot!trades(symbol, limit) PROVE Sent
  <2>1. symbol \in Seq(Characters) /\ limit \in Seq(Characters)
    BY Inputs
  <2>2. Spot!publicGet("trades", [symbol |-> symbol, limit |-> limit], "/trades",
                       [symbol |-> toUpper(symbol), limit |-> limit])
    BY <1>4, SpotTexts DEF Spot!trades
  <2> QED BY <2>1, <2>2, SpotShapes, SpotGet
<1>5. ASSUME NEW symbol \in Symbols, NEW limit \in Numbers, Spot!historicalTrades(symbol, limit) PROVE Sent
  <2>1. symbol \in Seq(Characters) /\ limit \in Seq(Characters)
    BY Inputs
  <2>2. Spot!publicGet("historicalTrades", [symbol |-> symbol, limit |-> limit], "/historicalTrades",
                       [symbol |-> toUpper(symbol), limit |-> limit])
    BY <1>5, SpotTexts DEF Spot!historicalTrades
  <2> QED BY <2>1, <2>2, SpotShapes, SpotGet
<1>6. ASSUME NEW symbol \in Symbols, Spot!avgPrice(symbol) PROVE Sent
  <2>1. symbol \in Seq(Characters)
    BY Inputs
  <2>2. Spot!publicGet("avgPrice", [symbol |-> symbol], "/avgPrice", [symbol |-> toUpper(symbol)])
    BY <1>6, SpotTexts DEF Spot!avgPrice
  <2> QED BY <2>1, <2>2, SpotShapes, SpotGet
<1>7. ASSUME NEW symbol \in Symbols, Spot!ticker24hr(symbol) PROVE Sent
  <2>1. symbol \in Seq(Characters)
    BY Inputs
  <2>2. Spot!publicGet("ticker24hr", [symbol |-> symbol], "/ticker/24hr", [symbol |-> toUpper(symbol)])
    BY <1>7, SpotTexts DEF Spot!ticker24hr
  <2> QED BY <2>1, <2>2, SpotShapes, SpotGet
<1>8. ASSUME NEW symbol \in Symbols, Spot!tickerPrice(symbol) PROVE Sent
  <2>1. symbol \in Seq(Characters)
    BY Inputs
  <2>2. Spot!publicGet("tickerPrice", [symbol |-> symbol], "/ticker/price", [symbol |-> toUpper(symbol)])
    BY <1>8, SpotTexts DEF Spot!tickerPrice
  <2> QED BY <2>1, <2>2, SpotShapes, SpotGet
<1>9. ASSUME NEW symbol \in Symbols, Spot!bookTicker(symbol) PROVE Sent
  <2>1. symbol \in Seq(Characters)
    BY Inputs
  <2>2. Spot!publicGet("bookTicker", [symbol |-> symbol], "/ticker/bookTicker", [symbol |-> toUpper(symbol)])
    BY <1>9, SpotTexts DEF Spot!bookTicker
  <2> QED BY <2>1, <2>2, SpotShapes, SpotGet
<1>10. ASSUME NEW symbol \in Symbols, NEW options \in Options,
             Spot!aggTrades(symbol, options)
      PROVE Sent
  <2> DEFINE params == Over([symbol |-> symbol], options)
             p == Over([symbol |-> toUpper(symbol)], options)
             limited == Over(p, [limit |-> <<"5", "0", "0">>])
  <2>1. symbol \in Seq(Characters) /\ IsParameters(options)
    BY Inputs
  <2>2. Spot!publicGet("aggTrades", params, "/aggTrades", limited)
    BY <1>10, SpotTexts, SpotQueries DEF Spot!aggTrades, Spot!WithLimit, Spot!DefaultLimit
  <2>3. IsParameters(p) /\ Texts(params) /\ Conveys("spot", "aggTrades", params, p, FALSE)
    BY <2>1, SpotShapes
  <2> HIDE DEF params, p
  <2>4. IsParameters(limited) /\ Conveys("spot", "aggTrades", params, limited, FALSE)
    BY <2>3, Added
  <2> HIDE DEF limited
  <2> QED BY <2>2, <2>3, <2>4, SpotGet
<1>11. ASSUME NEW symbol \in Symbols, NEW interval \in Numbers, NEW options \in Options,
             Spot!klines(symbol, interval, options)
      PROVE Sent
  <2> DEFINE params == Over([symbol |-> symbol, interval |-> interval], options)
             p == Over([symbol |-> toUpper(symbol), interval |-> interval], options)
             limited == Over(p, [limit |-> <<"5", "0", "0">>])
  <2>1. symbol \in Seq(Characters) /\ IsParameters(options) /\ interval \in Seq(Characters)
    BY Inputs
  <2>2. Spot!publicGet("klines", params, "/klines", limited)
    BY <1>11, SpotTexts, SpotQueries DEF Spot!klines, Spot!WithLimit, Spot!DefaultLimit
  <2>3. IsParameters(p) /\ Texts(params) /\ Conveys("spot", "klines", params, p, FALSE)
    BY <2>1, SpotShapes
  <2> HIDE DEF params, p
  <2>4. IsParameters(limited) /\ Conveys("spot", "klines", params, limited, FALSE)
    BY <2>3, Added
  <2> HIDE DEF limited
  <2> QED BY <2>2, <2>3, <2>4, SpotGet
<1>12. Spot!ping => Sent
  BY <1>2 DEF Spot!ping
<1>13. Spot!time => Sent
  BY <1>2 DEF Spot!time
<1> QED
  BY <1>1, <1>3, <1>4, <1>5, <1>6, <1>7, <1>8, <1>9, <1>10, <1>11, <1>12, <1>13
     DEF Spot!MarketCall

-----------------------------------------------------------------------------
(* The functions of SpotTrade.                                              *)

\* A request of a path and nothing else.
LEMMA BareSound ==
  ASSUME NEW class, NEW fn, NEW head, head # "?"
  PROVE  Sound(class, fn, <<>>, Plain("GET", <<head>>))
<1> DEFINE none == <<>>
           q == Plain("GET", <<head>>)
<1>1. /\ q.url = <<head>> /\ q.body = jsonToString(none) /\ q.signature = None
      /\ DOMAIN none = {} /\ Known(fn, q.kind)
  BY DEF Plain, NoBody, jsonToString, Known
<1> HIDE DEF q, none
<1>2. Reads(q, none)
  BY <1>1, BodyReads
<1>3. Texts(none) /\ Conveys(class, fn, none, none, FALSE)
  BY <1>1 DEF Texts, Conveys, Carries
<1>4. Sound(class, fn, none, q)
  BY <1>1, <1>2, <1>3, SoundIf
<1> QED BY <1>4 DEF q, none

\* signedRequest() of SpotTrade with parameters that convey the arguments.
LEMMA SpotSigned ==
  ASSUME NEW fn, NEW params, NEW method, Known(fn, method), NEW path, NEW p,
         SpotTrading!signedRequest(fn, params, method, path, p), path # "?", IsParameters(p),
         Texts(params), "timestamp" \notin DOMAIN params, Conveys("spot", fn, params, p, FALSE)
  PROVE  Sent
<1> DEFINE query(stamp) == buildQueryString(Over([timestamp |-> stamp], removeEmptyParams(p)))
           q(stamp) == [kind |-> method, url |-> Url(<<path>>, query(stamp)), body |-> NoBody,
                        time |-> 0, signature |-> spotSign(query(stamp))]
<1>1. PICK stamp \in Stamps : Begin("spot", fn, params, FALSE, q(stamp))
  BY SpotTradingQueries, SpotTradingCalls DEF SpotTrading!signedRequest
<1>2. Sound("spot", fn, params, q(stamp))
  BY Inputs, SpotSound
<1> HIDE DEF q
<1> QED BY <1>1, <1>2, BeginSound

\* One symbol over options, perhaps with the default limit.
LEMMA SpotSymbol ==
  ASSUME NEW fn, fn \notin {"exchangeInfo", "newOrder", "newOrderTest"},
         NEW method \in {"GET", "DELETE"}, NEW path, path # "?", NEW symbol \in Symbols, NEW options, IsParameters(options),
         "timestamp" \notin DOMAIN options,
         \/ SpotTrading!symbolRequest(fn, symbol, options, method, path)
         \/ SpotTrading!listRequest(fn, symbol, options, path)
  PROVE  Sent
<1> DEFINE params == Over([symbol |-> symbol], options)
           p == Over([symbol |-> toUpper(symbol)], options)
           limited == Over(p, [limit |-> <<"5", "0", "0">>])
<1>1. symbol \in Seq(Characters)
  BY Inputs
<1>2. \/ SpotTrading!signedRequest(fn, params, method, path, p)
      \/ SpotTrading!signedRequest(fn, params, "GET", path, limited)
  BY SpotTradingTexts, SpotTradingQueries
     DEF SpotTrading!symbolRequest, SpotTrading!listRequest, SpotTrading!WithLimit,
         SpotTrading!DefaultLimit
<1>3. IsParameters(p) /\ Texts(params) /\ Conveys("spot", fn, params, p, FALSE)
  BY <1>1, SpotShapes
<1>4. "timestamp" \notin DOMAIN params
  BY DEF Over
<1> HIDE DEF params, p
<1>5. IsParameters(limited) /\ Conveys("spot", fn, params, limited, FALSE)
  BY <1>3, Added
<1>6. Known(fn, method) /\ Known(fn, "GET")
  BY DEF Known
<1> HIDE DEF limited
<1> QED BY <1>2, <1>3, <1>4, <1>5, <1>6, SpotSigned

\* An order: three arguments in capitals over options.
LEMMA SpotOrder ==
  ASSUME NEW fn \in {"newOrder", "newOrderTest"}, NEW path, path # "?", NEW symbol \in Symbols,
         NEW side \in Symbols, NEW orderType \in Symbols, NEW options \in Options,
         SpotTrading!orderRequest(fn, symbol, side, orderType, options, path)
  PROVE  Sent
<1> DEFINE a == [symbol |-> symbol, side |-> side, type |-> orderType]
           b == [symbol |-> toUpper(symbol), side |-> toUpper(side), type |-> toUpper(orderType)]
           params == Over(a, options)
           p == Over(b, options)
<1>1. /\ symbol \in Seq(Characters) /\ side \in Seq(Characters) /\ orderType \in Seq(Characters)
      /\ IsParameters(options) /\ "timestamp" \notin DOMAIN options
  BY Inputs
<1>2. SpotTrading!signedRequest(fn, params, "POST", path, p)
  BY SpotTradingTexts, SpotTradingQueries DEF SpotTrading!orderRequest
<1>3. /\ DOMAIN a = {"symbol", "side", "type"} /\ DOMAIN b = DOMAIN a
      /\ a["symbol"] = symbol /\ a["side"] = side /\ a["type"] = orderType
      /\ \A n \in DOMAIN a : b[n] = toUpper(a[n])
  OBVIOUS
<1>4. "timestamp" \notin DOMAIN params
  BY <1>1, <1>3 DEF Over
<1> HIDE DEF a, b
<1>5. IsParameters(a)
  BY <1>1, <1>3, KnownNames DEF IsParameters
<1>6. Caps("spot", fn) = {"symbol", "side", "type"} /\ fn # "exchangeInfo"
  BY DEF Caps
<1>7. IsParameters(p) /\ Texts(params) /\ Conveys("spot", fn, params, p, FALSE)
  BY <1>1, <1>3, <1>5, <1>6, CopiedOver
<1> HIDE DEF params, p
<1>8. Known(fn, "POST")
  BY DEF Known
<1> QED BY <1>2, <1>4, <1>7, <1>8, SpotSigned

\* Each function of SpotTrade sends what it was passed.
LEMMA SpotTradeSends ==
  ASSUME SpotTrading!TradeCall
  PROVE  Sent
<1> DEFINE none == <<>>
<1>1. ASSUME NEW fn, NEW path, path # "?", SpotTrading!unsignedGet(fn, path) PROVE Sent
  <2>1. Begin("spot", fn, <<>>, FALSE, Plain("GET", <<path>>))
    BY <1>1, SpotTradingCalls DEF SpotTrading!unsignedGet
  <2>2. Sound("spot", fn, <<>>, Plain("GET", <<path>>))
    BY <1>1, BareSound
  <2> QED BY <2>1, <2>2, BeginSound
<1>2. DOMAIN none = {} /\ none = <<>>
  OBVIOUS
<1> HIDE DEF none
<1>3. IsParameters(none) /\ "timestamp" \notin DOMAIN none
  BY <1>2 DEF IsParameters
<1>4. ASSUME NEW fn, fn # "exchangeInfo", NEW method \in {"GET", "POST"}, NEW path, path # "?",
             SpotTrading!signedRequest(fn, none, method, path, none)
      PROVE  Sent
  <2>1. Texts(none) /\ Conveys("spot", fn, none, none, FALSE)
    BY <1>2, <1>3, <1>4, Copied DEF Made
  <2>2. Known(fn, method)
    BY <1>4 DEF Known
  <2> QED BY <1>3, <1>4, <2>1, <2>2, SpotSigned
<1>5. ASSUME NEW fn, fn # "exchangeInfo", NEW key \in Symbols, NEW method,
             Known(fn, method), SpotTrading!keyRequest(fn, key, method)
      PROVE  Sent
  <2> DEFINE p == [listenKey |-> key]
  <2>1. DOMAIN p = {"listenKey"} /\ p["listenKey"] = key /\ key \in Seq(Characters)
    BY Inputs
  <2>2. SpotTrading!signedRequest(fn, p, method, "/userDataStream", p)
    BY <1>5 DEF SpotTrading!keyRequest
  <2> HIDE DEF p
  <2>3. IsParameters(p)
    BY <2>1, KnownNames DEF IsParameters
  <2>4. "listenKey" \notin Caps("spot", fn) /\ Made(fn) = {}
    BY <1>5 DEF Caps, Made
  <2>5. Texts(p) /\ Conveys("spot", fn, p, p, FALSE)
    BY <2>1, <2>3, <2>4, Copied
  <2> QED BY <1>5, <2>1, <2>2, <2>3, <2>5, SpotSigned
<1>6. SpotTrading!ping \/ SpotTrading!time => Sent
  BY <1>1 DEF SpotTrading!ping, SpotTrading!time
<1>7. SpotTrading!accountInfo \/ SpotTrading!createUserDataStream
        \/ SpotTrading!getUserDataStreamListenKeys => Sent
  BY <1>2, <1>4 DEF SpotTrading!accountInfo, SpotTrading!createUserDataStream,
                    SpotTrading!getUserDataStreamListenKeys
<1>8. \A key \in Symbols : SpotTrading!keepaliveUserDataStream(key)
                          \/ SpotTrading!closeUserDataStream(key) => Sent
  BY <1>5 DEF SpotTrading!keepaliveUserDataStream, SpotTrading!closeUserDataStream, Known
<1>9. \A symbol \in Symbols : SpotTrading!cancelOpenOrders(symbol)
                             \/ SpotTrading!openOrders(symbol) => Sent
  BY <1>2, <1>3, SpotSymbol DEF SpotTrading!cancelOpenOrders, SpotTrading!openOrders
<1>10. \A symbol \in Symbols, options \in Options :
        SpotTrading!accountTradeList(symbol, options) \/ SpotTrading!allOrders(symbol, options) => Sent
  BY Inputs, SpotSymbol DEF SpotTrading!accountTradeList, SpotTrading!allOrders
<1>11. \A symbol \in Symbols, options \in Options :
        SpotTrading!cancelOrder(symbol, options) \/ SpotTrading!queryOrder(symbol, options) => Sent
  BY Inputs, SpotSymbol DEF SpotTrading!cancelOrder, SpotTrading!queryOrder
<1>12. \A symbol, side \in Symbols, options \in Options :
        SpotTrading!newOrderTest(symbol, side, side, options)
        \/ SpotTrading!newOrder(symbol, side, side, options) => Sent
  BY SpotOrder DEF SpotTrading!newOrderTest, SpotTrading!newOrder
<1> QED
  BY <1>6, <1>7, <1>8, <1>9, <1>10, <1>11, <1>12 DEF SpotTrading!TradeCall

-----------------------------------------------------------------------------
(* The functions of FuturesMarket.                                          *)

\* What is sent as it was passed.
LEMMA FuturesCopy ==
  ASSUME NEW fn, fn \notin {"exchangeInfo", "newOrder", "newOrderTest"},
         NEW p, IsParameters(p)
  PROVE  Texts(p) /\ Conveys("futures", fn, p, p, FALSE)
<1>1. Caps("futures", fn) = {} /\ Made(fn) = {}
  BY DEF Caps, Made
<1> QED BY <1>1, Copied

\* A symbol that is optional, where it is sent.
LEMMA OptionalIs ==
  ASSUME NEW symbol \in Seq(Characters)
  PROVE  /\ IsParameters(Optional(symbol))
         /\ DOMAIN Optional(symbol) = IF symbol = <<>> THEN {} ELSE {"symbol"}
         /\ symbol # <<>> => Optional(symbol)["symbol"] = symbol
         /\ Named("symbol", symbol) = Optional(symbol)
         /\ \A options : IsParameters(options) => IsParameters(Over(Optional(symbol), options))
<1> DEFINE a == Optional(symbol)
           none == <<>>
           one == [symbol |-> symbol]
<1>1. DOMAIN none = {} /\ DOMAIN one = {"symbol"} /\ one["symbol"] = symbol
  OBVIOUS
<1>2. a = IF symbol = <<>> THEN none ELSE one
  BY DEF Optional
<1>3. Named("symbol", symbol) = a
  <2>1. [m \in {"symbol"} |-> symbol] = one
    OBVIOUS
  <2> QED BY <1>2, <2>1 DEF Named
<1> HIDE DEF a, none, one
<1>4. /\ DOMAIN a = IF symbol = <<>> THEN {} ELSE {"symbol"}
      /\ symbol # <<>> => a["symbol"] = symbol
  BY <1>1, <1>2
<1>5. IsParameters(a)
  BY <1>4, KnownNames DEF IsParameters
<1>6. \A options : IsParameters(options) => IsParameters(Over(a, options))
  BY <1>5 DEF IsParameters, Over
<1> QED BY <1>3, <1>4, <1>5, <1>6 DEF a

\* publicGet() of FuturesMarket with all parameters in the query.
LEMMA FuturesGet ==
  ASSUME NEW fn, fn \notin {"exchangeInfo", "newOrder", "newOrderTest"}, NEW head, head # "?",
         NEW p, IsParameters(p), Futures!publicGet(fn, p, <<head>>, p)
  PROVE  Sent
<1> DEFINE q == Plain("GET", Url(<<head>>, buildQueryString(removeEmptyParams(p))))
<1>1. Begin("futures", fn, p, TRUE, q)
  BY FuturesQueries, FuturesCalls DEF Futures!publicGet
<1>2. Sound("futures", fn, p, q)
  BY FuturesCopy, GetSound
<1> HIDE DEF q
<1> QED BY <1>1, <1>2, BeginSound

\* A GET of FuturesMarket with a symbol at the end of the path.
LEMMA FuturesSymbol ==
  ASSUME NEW fn, fn \notin {"exchangeInfo", "newOrder", "newOrderTest"},
         NEW head, head \notin {"?", "/api/v1/contract/depth_commits/"}, PathName(head) = "symbol",
         NEW symbol \in Symbols, NEW options, IsParameters(options),
         \/ Futures!symbolGet(fn, symbol, head, options)
         \/ Futures!optionsGet(fn, symbol, head, options)
  PROVE  Sent
<1> DEFINE params == Over(Optional(symbol), options)
           q(r) == Plain("GET", Url(<<head>> \o symbol, buildQueryString(r)))
<1>1. PICK r : /\ r = options \/ r = removeEmptyParams(options)
               /\ Begin("futures", fn, params, TRUE, q(r))
  BY FuturesQueries, FuturesCalls DEF Futures!symbolGet, Futures!publicGet, Futures!optionsGet
<1>2. symbol \in Seq(Characters)
  BY Inputs
<1>3. params = Over(Named(PathName(head), symbol), options) /\ IsParameters(params)
  BY <1>2, OptionalIs
<1> HIDE DEF params
<1>4. Texts(params) /\ Conveys("futures", fn, params, params, FALSE)
  BY <1>3, FuturesCopy
<1>5. Sound("futures", fn, params, q(r))
  BY <1>1, <1>2, <1>3, <1>4, PathGetSound
<1> HIDE DEF q
<1> QED BY <1>1, <1>5, BeginSound

\* Each function of FuturesMarket sends what it was passed.
LEMMA FuturesMarketSends ==
  ASSUME Futures!MarketCall
  PROVE  Sent
<1> DEFINE none == <<>>
<1>1. DOMAIN none = {} /\ none = <<>>
  OBVIOUS
<1> HIDE DEF none
<1>2. IsParameters(none)
  BY <1>1 DEF IsParameters
<1>3. \A text \in Symbols \cup Numbers : text \in Seq(Characters)
  BY Inputs
<1>4. \A options \in Options : IsParameters(options)
  BY Inputs
<1>5. Futures!ping => Sent
  <2> SUFFICES ASSUME Futures!ping PROVE Sent
    OBVIOUS
  <2>1. Begin("futures", "ping", <<>>, FALSE, Plain("GET", <<"/api/v1/contract/ping">>))
    BY FuturesCalls DEF Futures!ping
  <2>2. Sound("futures", "ping", <<>>, Plain("GET", <<"/api/v1/contract/ping">>))
    BY BareSound
  <2> QED BY <2>1, <2>2, BeginSound
<1>6. Futures!supportCurrencies => Sent
  BY <1>1, <1>2, FuturesGet DEF Futures!supportCurrencies
<1>7. ASSUME NEW symbol \in Symbols, Futures!contractDetail(symbol) \/ Futures!ticker(symbol)
      PROVE  Sent
  <2> DEFINE p == [symbol |-> symbol]
  <2>1. \/ Futures!publicGet("contractDetail", p, <<"/api/v1/contract/detail">>, p)
        \/ Futures!publicGet("ticker", p, <<"/api/v1/contract/ticker">>, p)
    BY <1>7 DEF Futures!contractDetail, Futures!ticker
  <2>2. IsParameters(p)
    BY <1>3, KnownNames DEF IsParameters
  <2> HIDE DEF p
  <2> QED BY <2>1, <2>2, FuturesGet
<1>8. ASSUME NEW symbol \in Symbols,
             \/ Futures!indexPrice(symbol) \/ Futures!fairPrice(symbol)
             \/ Futures!fundingRate(symbol) \/ Futures!riskReverse(symbol)
      PROVE  Sent
  <2>1. PICK fn \in {"indexPrice", "fairPrice", "fundingRate", "riskReverse"},
             head \in {"/api/v1/contract/index_price/", "/api/v1/contract/fair_price/",
                      "/api/v1/contract/funding_rate/", "/api/v1/contract/risk_reverse/"} :
             Futures!symbolGet(fn, symbol, head, none)
    BY <1>1, <1>8 DEF Futures!indexPrice, Futures!fairPrice, Futures!fundingRate, Futures!riskReverse
  <2>2. PathName(head) = "symbol"
    BY DEF PathName
  <2> QED BY <1>2, <2>1, <2>2, FuturesSymbol
<1>9. ASSUME NEW symbol \in Symbols, NEW options \in Options,
             \/ Futures!kline(symbol, options) \/ Futures!klineIndexPrice(symbol, options)
             \/ Futures!klineFairPrice(symbol, options)
      PROVE  Sent
  <2>1. PICK fn \in {"kline", "klineIndexPrice", "klineFairPrice"},
             head \in {"/api/v1/contract/kline/", "/api/v1/contract/kline/index_price/",
                      "/api/v1/contract/kline/fair_price/"} :
             \/ Futures!symbolGet(fn, symbol, head, options)
             \/ Futures!optionsGet(fn, symbol, head, options)
    BY <1>9 DEF Futures!kline, Futures!klineIndexPrice, Futures!klineFairPrice
  <2>2. PathName(head) = "symbol"
    BY DEF PathName
  <2> QED BY <1>4, <2>1, <2>2, FuturesSymbol
<1>10. ASSUME NEW symbol \in Symbols, NEW n \in Numbers,
              Futures!depth(symbol, n) \/ Futures!deals(symbol, n)
       PROVE  Sent
  <2> DEFINE limited == [limit |-> n]
  <2>1. IsParameters(limited)
    BY <1>3, KnownNames DEF IsParameters
  <2>2. PICK fn \in {"depth", "deals"},
             head \in {"/api/v1/contract/depth/", "/api/v1/contract/deals/"},
             options \in {none, limited} :
             Futures!symbolGet(fn, symbol, head, options)
    BY <1>1, <1>10 DEF Futures!depth, Futures!deals
  <2> HIDE DEF limited
  <2>3. PathName(head) = "symbol" /\ IsParameters(options)
    BY <1>2, <2>1 DEF PathName
  <2> QED BY <2>2, <2>3, FuturesSymbol
<1>11. ASSUME NEW symbol \in Symbols, NEW limit \in Numbers, Futures!depthCommits(symbol, limit)
       PROVE  Sent
  <2> DEFINE p == [symbol |-> symbol, limit |-> limit]
             q == Plain("GET", Url(<<"/api/v1/contract/depth_commits/">> \o symbol \o <<"/">> \o limit,
                                   buildQueryString(removeEmptyParams(<<>>))))
  <2>1. Begin("futures", "depthCommits", p, TRUE, q)
    BY <1>11, FuturesQueries, FuturesCalls DEF Futures!depthCommits, Futures!publicGet
  <2>2. IsParameters(p)
    BY <1>3, KnownNames DEF IsParameters
  <2>3. Conveys("futures", "depthCommits", p, p, FALSE)
    <3> HIDE DEF p
    <3> QED BY <2>2, FuturesCopy
  <2>4. Sound("futures", "depthCommits", p, q)
    BY <1>3, <2>3, CommitsSound
  <2> HIDE DEF p, q
  <2> QED BY <2>1, <2>4, BeginSound
<1>12. ASSUME NEW symbol \in Symbols, NEW n \in Numbers, NEW size \in Numbers,
              \/ Futures!riskReverseHistory(symbol, n, size)
              \/ Futures!fundingRateHistory(symbol, n, size)
       PROVE  Sent
  <2> DEFINE p == [symbol |-> symbol, page_num |-> n, page_size |-> size]
  <2>1. PICK fn \in {"riskReverseHistory", "fundingRateHistory"},
             head \in {"/api/v1/contract/risk_reverse/history",
                      "/api/v1/contract/funding_rate/history"} :
             Futures!publicGet(fn, p, <<head>>, p)
    BY <1>12 DEF Futures!riskReverseHistory, Futures!fundingRateHistory, Futures!historyGet
  <2>2. IsParameters(p)
    BY <1>3, KnownNames DEF IsParameters
  <2> HIDE DEF p
  <2> QED BY <2>1, <2>2, FuturesGet
<1> QED
  BY <1>5, <1>6, <1>7, <1>8, <1>9, <1>10, <1>11, <1>12 DEF Futures!MarketCall

-----------------------------------------------------------------------------
(* The functions of FuturesTrade.                                           *)

\* signedGet() of FuturesTrade with all parameters in the query.
LEMMA FuturesSignedGet ==
  ASSUME NEW fn, fn \notin {"exchangeInfo", "newOrder", "newOrderTest"}, NEW head, head # "?",
         NEW params, Texts(params), NEW p, IsParameters(p), Conveys("futures", fn, params, p, FALSE),
         FuturesTrading!signedGet(fn, params, <<head>>, p)
  PROVE  Sent
<1> DEFINE query == buildQueryString(removeEmptyParams(p))
           q(time) == [kind |-> "GET", url |-> Url(<<head>>, query), body |-> NoBody,
                       time |-> time, signature |-> futuresSign(time, query)]
<1>1. PICK time \in Times : Begin("futures", fn, params, TRUE, q(time))
  BY FuturesTradingQueries, FuturesTradingCalls
     DEF FuturesTrading!signedGet, FuturesTrading!Signed
<1>2. Sound("futures", fn, params, q(time))
  BY Inputs, SignedGetSound
<1> HIDE DEF q
<1> QED BY <1>1, <1>2, BeginSound

\* A path that ends with the one argument.
LEMMA FuturesSignedPath ==
  ASSUME NEW fn, fn \notin {"exchangeInfo", "newOrder", "newOrderTest"},
         NEW head, head \notin {"?", "/api/v1/contract/depth_commits/"},
         NEW text \in Symbols, NEW params, DOMAIN params = {PathName(head)},
         params[PathName(head)] = text,
         FuturesTrading!signedGet(fn, params, <<head>> \o text, <<>>)
  PROVE  Sent
<1> DEFINE none == <<>>
           r == removeEmptyParams(none)
           query == buildQueryString(r)
           q(time) == [kind |-> "GET", url |-> Url(<<head>> \o text, query), body |-> NoBody,
                       time |-> time, signature |-> futuresSign(time, query)]
           sent == Over(Named(PathName(head), text), none)
<1>1. PICK time \in Times : Begin("futures", fn, params, TRUE, q(time))
  BY FuturesTradingQueries, FuturesTradingCalls
     DEF FuturesTrading!signedGet, FuturesTrading!Signed
<1>2. text \in Seq(Characters) /\ time \in Nat \ {0}
  BY Inputs
<1>3. DOMAIN none = {}
  OBVIOUS
<1>4. IsParameters(none) /\ Texts(params)
  BY <1>2, <1>3 DEF IsParameters, Texts
<1>5. /\ DOMAIN sent = IF text = none THEN {} ELSE {PathName(head)}
      /\ \A n \in DOMAIN sent : sent[n] = text
  BY <1>3 DEF Over, Named
<1>6. none = <<>>
  OBVIOUS
<1> HIDE DEF none, sent
<1>7. Conveys("futures", fn, params, sent, FALSE)
  <2>1. Caps("futures", fn) = {}
    BY DEF Caps
  <2>2. AnyCase(Call("futures", fn, params)) = {}
    BY DEF AnyCase, Call
  <2> QED BY <1>5, <1>6, <2>2 DEF Conveys, Carries
<1>8. Sound("futures", fn, params, q(time))
  BY <1>2, <1>4, <1>7, PathGetSound DEF sent
<1> HIDE DEF q
<1> QED BY <1>1, <1>8, BeginSound

\* signedPost() of FuturesTrade.
LEMMA FuturesPost ==
  ASSUME NEW fn, fn \notin {"exchangeInfo", "newOrder", "newOrderTest"}, NEW head, head # "?",
         NEW params, Texts(params), NEW members, Conveys("futures", fn, params, members, FALSE),
         FuturesTrading!signedPost(fn, params, head, members)
  PROVE  Sent
<1> DEFINE body == jsonToString(members)
           q(time) == [kind |-> "POST", url |-> <<head>>, body |-> body, time |-> time,
                       signature |-> futuresSign(time, body)]
<1>1. PICK time \in Times : Begin("futures", fn, params, TRUE, q(time))
  BY FuturesTradingCalls DEF FuturesTrading!signedPost
<1>2. Sound("futures", fn, params, q(time))
  BY Inputs, PostSound
<1> HIDE DEF q
<1> QED BY <1>1, <1>2, BeginSound

\* An optional symbol says what the symbol says.
LEMMA OptionalConveys ==
  ASSUME NEW fn, fn \notin {"exchangeInfo", "newOrder", "newOrderTest"},
         NEW symbol \in Seq(Characters)
  PROVE  /\ Texts([symbol |-> symbol])
         /\ Conveys("futures", fn, [symbol |-> symbol], Optional(symbol), FALSE)
<1> DEFINE params == [symbol |-> symbol]
           sent == Optional(symbol)
<1>1. DOMAIN params = {"symbol"} /\ params["symbol"] = symbol
  OBVIOUS
<1>2. /\ DOMAIN sent = IF symbol = <<>> THEN {} ELSE {"symbol"}
      /\ symbol # <<>> => sent["symbol"] = symbol
  BY OptionalIs
<1> HIDE DEF params, sent
<1>3. AnyCase(Call("futures", fn, params)) = {}
  BY DEF AnyCase, Call
<1>4. Conveys("futures", fn, params, sent, FALSE)
  BY <1>1, <1>2, <1>3 DEF Conveys, Carries
<1>5. Texts(params)
  BY <1>1 DEF Texts
<1> QED BY <1>4, <1>5 DEF params, sent

\* Each function of FuturesTrade sends what it was passed.
LEMMA FuturesTradeSends ==
  ASSUME FuturesTrading!TradeCall
  PROVE  Sent
<1> DEFINE none == <<>>
<1>1. DOMAIN none = {} /\ none = <<>>
  OBVIOUS
<1> HIDE DEF none
<1>2. IsParameters(none)
  BY <1>1 DEF IsParameters
<1>3. \A text \in Symbols \cup Numbers : text \in Seq(Characters)
  BY Inputs
<1>4. \A options \in Options : IsParameters(options)
  BY Inputs
<1>5. FuturesTrading!accountAssets => Sent
  <2> SUFFICES ASSUME FuturesTrading!accountAssets PROVE Sent
    OBVIOUS
  <2>1. FuturesTrading!signedGet("accountAssets", none, <<"/api/v1/private/account/assets">>, none)
    BY <1>1 DEF FuturesTrading!accountAssets
  <2>2. Texts(none) /\ Conveys("futures", "accountAssets", none, none, FALSE)
    BY <1>2, FuturesCopy
  <2> QED BY <1>2, <2>1, <2>2, FuturesSignedGet
<1>6. ASSUME NEW params \in Options, FuturesTrading!orderCreateFrom(params) PROVE Sent
  <2>1. FuturesTrading!signedPost("orderCreate", params, "/api/v1/private/order/create", params)
    BY <1>6 DEF FuturesTrading!orderCreateFrom
  <2> QED BY <1>4, <2>1, FuturesCopy, FuturesPost
<1>7. ASSUME NEW text \in Symbols, FuturesTrading!accountAsset(text) PROVE Sent
  <2> DEFINE params == [currency |-> text]
             head == "/api/v1/private/account/asset/"
  <2>1. FuturesTrading!signedGet("accountAsset", params, <<head>> \o text, <<>>)
    BY <1>7 DEF FuturesTrading!accountAsset
  <2>2. DOMAIN params = {PathName(head)} /\ params[PathName(head)] = text
    BY DEF PathName
  <2>3. head \notin {"?", "/api/v1/contract/depth_commits/"}
    OBVIOUS
  <2> HIDE DEF params, head
  <2> QED BY <2>1, <2>2, <2>3, FuturesSignedPath
<1>8. ASSUME NEW text \in Symbols, FuturesTrading!getOrder(text) PROVE Sent
  <2> DEFINE params == [orderId |-> text]
             head == "/api/v1/private/order/get/"
  <2>1. FuturesTrading!signedGet("getOrder", params, <<head>> \o text, <<>>)
    BY <1>8 DEF FuturesTrading!getOrder
  <2>2. DOMAIN params = {PathName(head)} /\ params[PathName(head)] = text
    BY DEF PathName
  <2>3. head \notin {"?", "/api/v1/contract/depth_commits/"}
    OBVIOUS
  <2> HIDE DEF params, head
  <2> QED BY <2>1, <2>2, <2>3, FuturesSignedPath
<1>9. ASSUME NEW symbol \in Symbols, FuturesTrading!orderCancelAll(symbol) PROVE Sent
  <2>1. FuturesTrading!signedPost("orderCancelAll", [symbol |-> symbol],
                                  "/api/v1/private/order/cancel_all", Optional(symbol))
    BY <1>9, FuturesTradingCalls DEF FuturesTrading!orderCancelAll
  <2> QED BY <1>3, <2>1, OptionalConveys, FuturesPost
<1>10. ASSUME NEW symbol \in Symbols,
              FuturesTrading!openOrders(symbol) \/ FuturesTrading!openPositions(symbol)
       PROVE  Sent
  <2>1. PICK fn \in {"openOrders", "openPositions"},
             head \in {"/api/v1/private/order/list/open_orders",
                      "/api/v1/private/position/open_positions"} :
             FuturesTrading!signedGet(fn, [symbol |-> symbol], <<head>>, Optional(symbol))
    BY <1>10, FuturesTradingCalls DEF FuturesTrading!openOrders, FuturesTrading!openPositions
  <2>2. IsParameters(Optional(symbol))
    BY <1>3, OptionalIs
  <2> QED BY <1>3, <2>1, <2>2, OptionalConveys, FuturesSignedGet
<1>11. ASSUME NEW symbol \in Symbols, NEW orderId \in Symbols,
              FuturesTrading!orderCancel(symbol, orderId)
       PROVE  Sent
  <2> DEFINE p == [symbol |-> symbol, orderId |-> orderId]
  <2>1. FuturesTrading!signedPost("orderCancel", p, "/api/v1/private/order/cancel", p)
    BY <1>11 DEF FuturesTrading!orderCancel
  <2>2. IsParameters(p)
    BY <1>3, KnownNames DEF IsParameters
  <2> HIDE DEF p
  <2> QED BY <2>1, <2>2, FuturesCopy, FuturesPost
<1>12. ASSUME NEW symbol \in Symbols, NEW options \in Options,
              FuturesTrading!historyOrders(symbol, options)
       PROVE  Sent
  <2> DEFINE p == Over(Optional(symbol), options)
  <2>1. FuturesTrading!signedGet("historyOrders", p,
                                 <<"/api/v1/private/order/list/history_orders">>, p)
    BY <1>12, FuturesTradingQueries, FuturesTradingCalls DEF FuturesTrading!historyOrders
  <2>2. IsParameters(p)
    BY <1>3, <1>4, OptionalIs
  <2> HIDE DEF p
  <2>3. Texts(p) /\ Conveys("futures", "historyOrders", p, p, FALSE)
    BY <2>2, FuturesCopy
  <2> QED BY <2>1, <2>2, <2>3, FuturesSignedGet
<1>13. ASSUME NEW symbol \in Symbols, NEW n \in Numbers, NEW options \in Options,
              FuturesTrading!orderCreate(symbol, n, n, n, n, options)
       PROVE  Sent
  <2> DEFINE args == [symbol |-> symbol, side |-> n, orderType |-> n, vol |-> n, leverage |-> n]
             p == Over(options, args)
  <2>1. FuturesTrading!signedPost("orderCreate", p, "/api/v1/private/order/create", p)
    BY <1>13, FuturesTradingQueries DEF FuturesTrading!orderCreate
  <2>2. IsParameters(args)
    BY <1>3, KnownNames DEF IsParameters
  <2> HIDE DEF args
  <2>3. IsParameters(p)
    BY <1>4, <2>2 DEF IsParameters, Over
  <2> HIDE DEF p
  <2> QED BY <2>1, <2>3, FuturesCopy, FuturesPost
<1> QED
  BY <1>5, <1>6, <1>7, <1>8, <1>9, <1>10, <1>11, <1>12, <1>13 DEF FuturesTrading!TradeCall

-----------------------------------------------------------------------------
(* exchangeInfo() and the other calls.                                      *)

\* What the exchange gets from exchangeInfo().
LEMMA InfoDelivers ==
  ASSUME NEW options, IsParameters(options), Spot!exchangeInfo(options)
  PROVE  SymbolsArrive'
<1> DEFINE p == [n \in DOMAIN options |->
                    CASE n = "symbol" -> Spot!toUpper(options[n])
                      [] n = "symbols" -> Spot!symbolList(options[n])
                      [] OTHER -> options[n]]
           r == removeEmptyParams(p)
           q == Plain("GET", Url(<<"/exchangeInfo">>, buildQueryString(r)))
<1>1. /\ asked'.params = options
      /\ request'.url = q.url /\ request'.body = q.body
  <2>1. Spot!publicGet("exchangeInfo", options, "/exchangeInfo", p)
    BY DEF Spot!exchangeInfo
  <2> HIDE DEF p
  <2>2. Begin("spot", "exchangeInfo", options, FALSE, q)
    BY <2>1, SpotQueries, SpotCalls DEF Spot!publicGet
  <2> HIDE DEF q
  <2> QED BY <2>2 DEF Begin
<1>2. \A n \in DOMAIN options : options[n] \in Seq(Characters) /\ n \in Names
  BY DEF IsParameters
<1>3. /\ DOMAIN p = DOMAIN options
      /\ "symbols" \in DOMAIN options => p["symbols"] = Spot!symbolList(options["symbols"])
      /\ \A n \in DOMAIN options \ {"symbols"} : p[n] \in {Spot!toUpper(options[n]), options[n]}
  OBVIOUS
<1> HIDE DEF p
<1>4. IsParameters(p)
  <2>1. \A n \in DOMAIN options \ {"symbols"} : p[n] \in Seq(Characters)
    BY <1>2, <1>3, SpotTexts, UpperIs
  <2> QED BY <1>2, <1>3, <2>1, SymbolList DEF IsParameters
<1>5. DOMAIN r = {n \in DOMAIN p : p[n] # <<>>} /\ \A n \in DOMAIN r : r[n] = p[n]
  BY DEF removeEmptyParams
<1> HIDE DEF r
<1>6. IsParameters(r)
  BY <1>4, <1>5 DEF IsParameters
<1>7. q.url = Url(<<"/exchangeInfo">>, buildQueryString(r)) /\ q.body = NoBody
  BY DEF Plain
<1> HIDE DEF q
<1>8. Reads(q, r)
  BY <1>6, <1>7, QueryReads
<1> SUFFICES ASSUME Legible', "symbols" \in DOMAIN options,
                    \A i \in DOMAIN options.symbols : Entry(options.symbols, i) # <<>>
                        => Last(Segment(options.symbols, i)) # "space"
             PROVE  (IF "symbols" \in DOMAIN Read(q) THEN Read(q)["symbols"] ELSE <<>>)
                    = Bytes(SubSeq(Entries(options.symbols), 2, Len(Entries(options.symbols))))
  BY <1>1 DEF SymbolsArrive, Arrived, Read
<1> DEFINE s == options["symbols"]
           meant == SubSeq(Entries(s), 2, Len(Entries(s)))
<1>9. s \in Seq(Characters) /\ DOMAIN s = 1..Len(s)
  BY <1>2
<1>10. SafePath(q) /\ \A i \in DOMAIN s : Byte[s[i]] >= 16
  BY <1>1 DEF Legible, SafePath
<1>11. Clear(s)
  BY <1>9, <1>10 DEF Clear
<1>12. p["symbols"] = meant
  <2>1. PICK from : Solution(s, from) /\ Spot!symbolList(s) = SubSeq(from[1], 2, Len(from[1]))
    BY <1>9, ListSolves
  <2>2. from[1] = Entries(s)
    BY <1>9, <2>1, ListIsMeant
  <2> QED BY <1>3, <2>1, <2>2
<1>13. Clear(meant)
  BY <1>11, EntriesAreClear
<1> HIDE DEF s, meant
<1>14. CASE meant = <<>>
  <2>1. "symbols" \notin DOMAIN Read(q)
    BY <1>5, <1>8, <1>10, <1>12, <1>14 DEF Reads
  <2>2. Bytes(<<>>) = <<>>
    BY DEF Bytes
  <2> QED BY <1>14, <2>1, <2>2 DEF s, meant
<1>15. CASE meant # <<>>
  <2>1. "symbols" \in DOMAIN r /\ r["symbols"] = meant
    BY <1>3, <1>5, <1>12, <1>15
  <2>2. "symbols" \notin DOMAIN q.body
    BY <1>7 DEF NoBody
  <2> QED BY <1>8, <1>10, <1>13, <2>1, <2>2 DEF Reads, s, meant
<1> QED BY <1>14, <1>15

\* Only exchangeInfo() begins a call of that name.
LEMMA OthersHaveNames ==
  ASSUME Spot!MarketCall \/ SpotTrading!TradeCall \/ Futures!MarketCall \/ FuturesTrading!TradeCall
  PROVE  \/ asked'.name # "exchangeInfo"
         \/ \E options \in Options \cup [{"symbols"} -> Lists] : Spot!exchangeInfo(options)
<1>1. \A class, fn, params, unwraps, q : Begin(class, fn, params, unwraps, q) => asked'.name = fn
  BY DEF Begin
<1>2. ASSUME Spot!MarketCall, ~\E options \in Options \cup [{"symbols"} -> Lists] : Spot!exchangeInfo(options)
      PROVE  asked'.name # "exchangeInfo"
  <2>1. \A fn, params, path, p : Spot!publicGet(fn, params, path, p) => asked'.name = fn
    BY <1>1, SpotCalls DEF Spot!publicGet
  <2> QED BY <1>2, <2>1
      DEF Spot!MarketCall, Spot!depth, Spot!trades, Spot!historicalTrades, Spot!aggTrades,
          Spot!klines, Spot!avgPrice, Spot!ticker24hr, Spot!tickerPrice, Spot!bookTicker,
          Spot!ping, Spot!time
<1>3. ASSUME SpotTrading!TradeCall PROVE asked'.name # "exchangeInfo"
  <2>1. \A fn, params, method, path, p :
          SpotTrading!signedRequest(fn, params, method, path, p) => asked'.name = fn
    BY <1>1, SpotTradingCalls DEF SpotTrading!signedRequest
  <2>2. \A fn, path : SpotTrading!unsignedGet(fn, path) => asked'.name = fn
    BY <1>1, SpotTradingCalls DEF SpotTrading!unsignedGet
  <2> QED BY <1>3, <2>1, <2>2
      DEF SpotTrading!TradeCall, SpotTrading!ping, SpotTrading!time, SpotTrading!accountInfo,
          SpotTrading!createUserDataStream, SpotTrading!getUserDataStreamListenKeys,
          SpotTrading!keepaliveUserDataStream, SpotTrading!closeUserDataStream,
          SpotTrading!keyRequest, SpotTrading!cancelOpenOrders, SpotTrading!openOrders,
          SpotTrading!accountTradeList, SpotTrading!allOrders, SpotTrading!cancelOrder,
          SpotTrading!queryOrder, SpotTrading!newOrderTest, SpotTrading!newOrder,
          SpotTrading!symbolRequest, SpotTrading!listRequest, SpotTrading!orderRequest
<1>4. ASSUME Futures!MarketCall PROVE asked'.name # "exchangeInfo"
  <2>1. \A fn, params, path, p : Futures!publicGet(fn, params, path, p) => asked'.name = fn
    BY <1>1, FuturesCalls DEF Futures!publicGet
  <2>2. \A fn, symbol, head, options :
          Futures!optionsGet(fn, symbol, head, options) => asked'.name = fn
    BY <1>1, FuturesCalls DEF Futures!optionsGet
  <2>3. Futures!ping => asked'.name = "ping"
    BY <1>1, FuturesCalls DEF Futures!ping
  <2> QED BY <1>4, <2>1, <2>2, <2>3
      DEF Futures!MarketCall, Futures!symbolGet, Futures!contractDetail,
          Futures!supportCurrencies, Futures!depth, Futures!depthCommits, Futures!indexPrice,
          Futures!fairPrice, Futures!fundingRate, Futures!kline, Futures!klineIndexPrice,
          Futures!klineFairPrice, Futures!deals, Futures!ticker, Futures!riskReverse,
          Futures!historyGet, Futures!riskReverseHistory, Futures!fundingRateHistory
<1>5. ASSUME FuturesTrading!TradeCall PROVE asked'.name # "exchangeInfo"
  <2>1. \A fn, params, path, p : FuturesTrading!signedGet(fn, params, path, p) => asked'.name = fn
    BY <1>1, FuturesTradingCalls DEF FuturesTrading!signedGet
  <2>2. \A fn, params, path, body :
          FuturesTrading!signedPost(fn, params, path, body) => asked'.name = fn
    BY <1>1, FuturesTradingCalls DEF FuturesTrading!signedPost
  <2> QED BY <1>5, <2>1, <2>2
      DEF FuturesTrading!TradeCall, FuturesTrading!accountAssets, FuturesTrading!accountAsset,
          FuturesTrading!orderCreateFrom, FuturesTrading!orderCreate, FuturesTrading!orderCancel,
          FuturesTrading!orderCancelAll, FuturesTrading!openOrders, FuturesTrading!historyOrders,
          FuturesTrading!getOrder, FuturesTrading!openPositions
<1> QED BY <1>2, <1>3, <1>4, <1>5

-----------------------------------------------------------------------------
(* The theorems.                                                            *)

\* What a reply may be.
LEMMA ReplyIs ==
  ASSUME NEW r \in Broken \cup Answers
  PROVE  /\ r # None
         /\ r \in Broken => jsonParse(r) = [kind |-> "null"] /\ r.kind \notin {"object", "array"}
         /\ r \notin Broken =>
              /\ jsonParse(r) = r /\ fate \in {"performed", "refused"}
              /\ \/ /\ r.kind = "object" /\ r.success = (fate = "performed")
                    /\ r.data \in {"absent", "null", "value"}
                    /\ r.data = "value" => fate = "performed"
                 \/ r.kind = "array" /\ fate = "performed"
<1>1. None.kind = "none"
  BY DEF None
<1>2. CASE r \in Broken
  <2>1. r.kind \in {"empty", "malformed"}
    BY <1>2 DEF Broken
  <2>2. jsonParse(r) = [kind |-> "null"]
    BY <1>2 DEF jsonParse
  <2> QED BY <1>1, <1>2, <2>1, <2>2
<1>3. CASE r \notin Broken
  <2>1. r \in Answers /\ jsonParse(r) = r
    BY <1>3 DEF jsonParse
  <2>2. CASE fate = "performed"
    <3>1. \/ r \in [kind : {"object"}, success : {TRUE}, data : {"absent", "null", "value"}]
          \/ r = [kind |-> "array"]
      BY <2>1, <2>2 DEF Answers
    <3>2. CASE r \in [kind : {"object"}, success : {TRUE}, data : {"absent", "null", "value"}]
      <4>1. /\ r.kind = "object" /\ r.success = TRUE
            /\ r.data \in {"absent", "null", "value"}
        BY <3>2
      <4> QED BY <1>1, <1>3, <2>1, <2>2, <4>1
    <3>3. CASE r = [kind |-> "array"]
      <4>1. r.kind = "array"
        BY <3>3
      <4> QED BY <1>1, <1>3, <2>1, <2>2, <4>1
    <3> QED BY <3>1, <3>2, <3>3
  <2>3. CASE fate = "refused"
    <3>1. r \in [kind : {"object"}, success : {FALSE}, data : {"absent", "null"}]
      BY <2>1, <2>3 DEF Answers
    <3> QED BY <1>1, <1>3, <2>1, <2>3, <3>1
  <2>4. CASE fate \notin {"performed", "refused"}
    BY <2>1, <2>4 DEF Answers
  <2> QED BY <2>2, <2>3, <2>4
<1> QED BY <1>2, <1>3

\* Every step is a call that sends what it should, or leaves nothing on its way.
LEMMA Steps ==
  ASSUME [Next]_vars
  PROVE  \/ Sent
         \/ Judge /\ ~Leaves'
         \/ Transfer /\ ~Leaves'
         \/ Return /\ ~Leaves'
         \/ UNCHANGED vars
<1>1. Spot!MarketCall \/ SpotTrading!TradeCall \/ Futures!MarketCall \/ FuturesTrading!TradeCall
      => Sent
  BY SpotMarketSends, SpotTradeSends, FuturesMarketSends, FuturesTradeSends
<1>2. Judge => ~Leaves'
  BY DEF Judge, Leaves
<1>3. Transfer => ~Leaves'
  <2> SUFFICES ASSUME Transfer PROVE reply' # None
    BY DEF Leaves
  <2>1. reply' \in Broken \cup Answers
    BY DEF Transfer
  <2> QED BY <2>1, ReplyIs
<1>4. Return => ~Leaves'
  BY DEF Return, Leaves
<1> QED BY <1>1, <1>2, <1>3, <1>4 DEF Next

\* The signature of every signed request is the one the exchange computes from
\* the URL, the time and the body it receives: what is signed is what is sent,
\* whatever the arguments, the options and the clock.  (spot_trade.cpp,
\* futures_trade.cpp: signedRequest, signedGet, signedPost)
THEOREM SignatureIsAccepted == Spec => []SignatureAccepted
<1>1. Init => SignatureAccepted
  BY DEF Init, SignatureAccepted, Leaves
<1>2. SignatureAccepted /\ [Next]_vars => SignatureAccepted'
  <2> SUFFICES ASSUME SignatureAccepted, [Next]_vars PROVE SignatureAccepted'
    OBVIOUS
  <2>1. CASE ~Leaves'
    BY <2>1 DEF SignatureAccepted
  <2>2. CASE Sent
    BY <2>2 DEF Sent
  <2>3. CASE UNCHANGED vars
    BY <2>3 DEF vars, SignatureAccepted, Leaves, Expected
  <2> QED BY <2>1, <2>2, <2>3, Steps
<1> QED BY <1>1, <1>2, PTL DEF Spec

\* The exchange reads, under each name, the bytes that were passed under it,
\* and nothing else but the default limit and the timestamp of a signed
\* request: for all texts of these characters and of any length, of every
\* function of the four classes; unless a byte is below 16, a text in a JSON
\* body is no valid UTF-8, or a path has a character that would need an escape.
\* (http_client.cpp: urlEncode, buildQueryString, removeEmptyParams;
\* json_util.cpp: jsonToString; and the callers)
THEOREM ArgumentsAreDelivered == Spec => []ArgumentsArrive
<1>1. Init => ArgumentsArrive
  BY DEF Init, ArgumentsArrive, Leaves
<1>2. ArgumentsArrive /\ [Next]_vars => ArgumentsArrive'
  <2> SUFFICES ASSUME ArgumentsArrive, [Next]_vars PROVE ArgumentsArrive'
    OBVIOUS
  <2>1. CASE ~Leaves'
    BY <2>1 DEF ArgumentsArrive
  <2>2. CASE Sent
    BY <2>2 DEF Sent
  <2>3. CASE UNCHANGED vars
    BY <2>3 DEF vars, ArgumentsArrive, Leaves, Legible, Arrived
  <2> QED BY <2>1, <2>2, <2>3, Steps
<1> QED BY <1>1, <1>2, PTL DEF Spec

\* The exchange reads the symbols of the list passed to exchangeInfo(): those
\* between its commas, trimmed, in capitals, in order and without empty ones;
\* nothing, if there are none; for lists of any length and any characters,
\* unless one is below 16 or a symbol is followed by a space.
\* (spot_market.cpp:38-52, http_client.cpp: urlEncode)
THEOREM SymbolsAreDelivered == Spec => []SymbolsArrive
<1>1. Init => SymbolsArrive
  BY DEF Init, SymbolsArrive, Leaves
<1>2. SymbolsArrive /\ [Next]_vars => SymbolsArrive'
  <2> SUFFICES ASSUME SymbolsArrive, [Next]_vars PROVE SymbolsArrive'
    OBVIOUS
  <2>1. CASE ~Leaves'
    BY <2>1 DEF SymbolsArrive
  <2>2. CASE Spot!MarketCall \/ SpotTrading!TradeCall \/ Futures!MarketCall \/ FuturesTrading!TradeCall
    <3>1. CASE asked'.name # "exchangeInfo"
      BY <3>1 DEF SymbolsArrive
    <3>2. ASSUME NEW options \in Options \cup [{"symbols"} -> Lists], Spot!exchangeInfo(options)
          PROVE  SymbolsArrive'
      <4>1. CASE options \in Options
        BY <3>2, <4>1, Inputs, InfoDelivers
      <4>2. CASE options \in [{"symbols"} -> Lists]
        <5>1. IsParameters(options)
          BY <4>2, Inputs, KnownNames DEF IsParameters
        <5> QED BY <3>2, <5>1, InfoDelivers
      <4> QED BY <4>1, <4>2
    <3> QED BY <2>2, <3>1, <3>2, OthersHaveNames
  <2>3. CASE UNCHANGED vars
    BY <2>3 DEF vars, SymbolsArrive, Leaves, Legible, Arrived
  <2>4. Spot!MarketCall \/ SpotTrading!TradeCall \/ Futures!MarketCall \/ FuturesTrading!TradeCall
        \/ ~Leaves' \/ UNCHANGED vars
    <3>1. Judge \/ Return => ~Leaves'
      BY DEF Judge, Return, Leaves
    <3>2. Transfer => ~Leaves'
      BY ReplyIs DEF Transfer, Leaves
    <3> QED BY <3>1, <3>2 DEF Next
  <2> QED BY <2>1, <2>2, <2>3, <2>4
<1> QED BY <1>1, <1>2, PTL DEF Spec

\* A call is asked before anything becomes of it, its method leaves as it is
\* unless it is the keepalive's, the exchange's verdict and its reply agree,
\* and the result is made of the reply.
CallInv ==
    /\ asked = None => request = None /\ fate = "none" /\ reply = None /\ result = None
    /\ asked # None => request.kind = asked.method \/ asked.name = "keepaliveUserDataStream"
    /\ fate \in {"none", "performed", "refused"}
    /\ reply # None => reply \in Broken \cup Answers
    /\ result # None =>
        /\ reply # None
        /\ result = IF asked.unwraps THEN Unwrap(jsonParse(reply)) ELSE jsonParse(reply)

\* CallInv is inductive.
LEMMA CallInvariant == Spec => []CallInv
<1>1. Init => CallInv
  BY DEF Init, CallInv
<1>2. CallInv /\ [Next]_vars => CallInv'
  <2> SUFFICES ASSUME CallInv, [Next]_vars PROVE CallInv'
    OBVIOUS
  <2>1. CASE Sent
    BY <2>1 DEF Sent, CallInv
  <2>2. CASE Judge
    <3>1. fate = "none" /\ request # None /\ fate' \in {"performed", "refused"}
          /\ UNCHANGED <<asked, request, reply, result>>
      BY <2>2 DEF Judge
    <3>2. reply # None => reply \in Broken
      BY <3>1 DEF CallInv, Answers
    <3>3. asked # None
      BY <3>1 DEF CallInv
    <3> QED BY <3>1, <3>2, <3>3 DEF CallInv
  <2>3. CASE Transfer
    <3>1. /\ request # None /\ reply = None /\ reply' \in Broken \cup Answers
          /\ UNCHANGED <<asked, request, fate, result>>
      BY <2>3 DEF Transfer, Wait
    <3>2. asked # None /\ result = None
      BY <3>1 DEF CallInv
    <3>3. reply' \in (Broken \cup Answers)'
      BY <3>1 DEF Answers
    <3> QED BY <3>1, <3>2, <3>3 DEF CallInv
  <2>4. CASE Return
    <3>1. /\ reply # None /\ UNCHANGED <<asked, request, fate, reply>>
          /\ result' = IF asked.unwraps THEN Unwrap(jsonParse(reply)) ELSE jsonParse(reply)
      BY <2>4 DEF Return
    <3>2. asked # None
      BY <3>1 DEF CallInv
    <3>3. (Broken \cup Answers)' = Broken \cup Answers
      BY <3>1 DEF Answers
    <3> QED BY <3>1, <3>2, <3>3 DEF CallInv
  <2>5. CASE UNCHANGED vars
    BY <2>5 DEF vars, CallInv, Answers
  <2> QED BY <2>1, <2>2, <2>3, <2>4, <2>5, Steps
<1> QED BY <1>1, <1>2, PTL DEF Spec

\* A caller can tell from the result of any function but
\* keepaliveUserDataStream, whose method httpRequest does not know, whether the
\* exchange did what it asked for, except after a broken reply or one whose
\* "data" is null or which is no object, where the function unwraps it:
\* whatever the order of verdict, reply and return.
\* (http_client.cpp: httpRequest; json_util.cpp)
THEOREM OutcomeIsKnown == Spec => []OutcomeKnown
<1>1. CallInv => OutcomeKnown
  <2> SUFFICES ASSUME CallInv, result # None, asked.name # "keepaliveUserDataStream"
               PROVE  Verdict = IF Unclear THEN "unknown" ELSE fate
    <3>1. CallInv /\ result # None /\ asked.name # "keepaliveUserDataStream" => Outcome = fate
      BY DEF CallInv, Outcome
    <3> QED BY <3>1 DEF OutcomeKnown
  <2>1. /\ reply \in Broken \cup Answers
        /\ result = IF asked.unwraps THEN Unwrap(jsonParse(reply)) ELSE jsonParse(reply)
    BY DEF CallInv
  <2>2. CASE reply \in Broken
    <3>1. result = [kind |-> "null"]
      BY <2>1, <2>2, ReplyIs DEF Unwrap
    <3> QED BY <2>2, <3>1 DEF Verdict, Unclear
  <2>3. CASE reply \notin Broken /\ reply.kind = "array"
    <3>1. fate = "performed" /\ jsonParse(reply) = reply
      BY <2>1, <2>3, ReplyIs
    <3>2. CASE asked.unwraps
      BY <2>1, <2>3, <3>1, <3>2 DEF Verdict, Unclear, Unwrap
    <3>3. CASE ~asked.unwraps
      BY <2>1, <2>3, <3>1, <3>3 DEF Verdict, Unclear
    <3> QED BY <3>2, <3>3
  <2>4. CASE reply \notin Broken /\ reply.kind = "object"
    <3>1. /\ fate \in {"performed", "refused"} /\ jsonParse(reply) = reply
          /\ reply.success = (fate = "performed")
          /\ reply.data \in {"absent", "null", "value"}
          /\ reply.data = "value" => fate = "performed"
      BY <2>1, <2>4, ReplyIs
    <3>2. CASE asked.unwraps /\ reply.data # "absent"
      BY <2>1, <2>4, <3>1, <3>2 DEF Verdict, Unclear, Unwrap
    <3>3. CASE ~asked.unwraps \/ reply.data = "absent"
      <4>1. result = reply
        BY <2>1, <2>4, <3>1, <3>3 DEF Unwrap
      <4> QED BY <2>4, <3>1, <3>3, <4>1 DEF Verdict, Unclear
    <3> QED BY <3>1, <3>2, <3>3
  <2> QED BY <2>1, <2>2, <2>3, <2>4, ReplyIs
<1> QED BY <1>1, CallInvariant, PTL

=============================================================================
