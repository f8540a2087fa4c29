----------------------------- MODULE HttpClient -----------------------------
(***************************************************************************)
(* One REST call, from the arguments of its caller to the value it         *)
(* returns: the query string of src/http_client.cpp, the signatures of     *)
(* src/signature.cpp and the single transfer of httpRequest.  The classes  *)
(* SpotMarket, SpotTrade, FuturesMarket and FuturesTrade, in modules of    *)
(* their own, have one action for each function that begins a call.        *)
(*                                                                         *)
(* A text is a sequence of characters, each written as itself or by its    *)
(* name.  A parameter list is a function from names to texts, as std::map  *)
(* is.  The name of a parameter, the fixed beginning of a path and a       *)
(* digest are atoms.                                                       *)
(*                                                                         *)
(* The exchange is external; its reading of a URL is the reference the     *)
(* conversions are compared with.                                          *)
(***************************************************************************)
EXTENDS SequencesExt

CONSTANTS
    Symbols,    \* texts passed as symbol, currency, order or listen key
    Numbers,    \* texts passed as limit, page, volume or interval
    Options     \* parameter lists passed as options

VARIABLES
    asked,      \* the call: "spot" or "futures", the function, the method it
                \* hands to httpRequest, its parameters by name, is "data"
                \* unwrapped?
    request,    \* what httpRequest sends, or None
    fate,       \* "performed" or "refused" once the exchange has read it
    reply,      \* the body httpRequest ends with, or None
    result      \* what the function returns, or how it ends

vars == <<asked, request, fate, reply, result>>

None == [kind |-> "none"]
NoBody == <<>>

HexDigits == <<"0", "1", "2", "3", "4", "5", "6", "7", "8", "9", "A", "B", "C", "D", "E", "F">>
DigitValue == [d \in ToSet(HexDigits) |-> CHOOSE v \in 0..15 : HexDigits[v + 1] = d]

\* The characters that values consist of, and their bytes.  xC3 and xA9 are
\* the two bytes of a letter e with an acute accent in UTF-8.
Others == {"tab", "newline", "space", "%", "&", "comma", "-", ".", "=", "underscore",
           "M", "b", "m", "~", "xC3", "xA9"}
Characters == ToSet(HexDigits) \cup Others
Byte == [c \in Characters |->
    CASE c = "tab" -> 9     [] c = "newline" -> 10 [] c = "space" -> 32 [] c = "%" -> 37
      [] c = "&" -> 38      [] c = "comma" -> 44   [] c = "-" -> 45     [] c = "." -> 46
      [] c = "=" -> 61      [] c = "M" -> 77       [] c = "underscore" -> 95
      [] c = "b" -> 98      [] c = "m" -> 109      [] c = "~" -> 126    [] c = "xC3" -> 195
      [] c = "xA9" -> 169
      [] OTHER -> DigitValue[c] + (IF DigitValue[c] < 10 THEN 48 ELSE 55)]
Bytes(text) == [i \in DOMAIN text |-> Byte[text[i]]]

\* std::toupper in the "C" locale.
toUpper(text) ==
    [i \in DOMAIN text |-> CASE text[i] = "b" -> "B" [] text[i] = "m" -> "M" [] OTHER -> text[i]]

-----------------------------------------------------------------------------
(* The conversions of src/http_client.cpp and src/signature.cpp.            *)

Unreserved(c) == c \in ToSet(HexDigits) \cup {"M", "b", "m", "-", "underscore", ".", "~"}

\* The integer after std::hex and std::uppercase has no width: a byte below
\* 16 is written with one digit.
HexByte(n) ==
    IF n < 16 THEN <<HexDigits[1 + n]>>
              ELSE <<HexDigits[1 + (n \div 16)], HexDigits[1 + (n % 16)]>>

\* Mutant of urlEncode: only spaces are escaped.
urlEncodeSpaces(text) == FlattenSeq([i \in DOMAIN text |->
    IF text[i] # "space" THEN <<text[i]>> ELSE <<"%">> \o HexByte(Byte[text[i]])])
urlEncode(text) == FlattenSeq([i \in DOMAIN text |->
    IF Unreserved(text[i]) THEN <<text[i]>> ELSE <<"%">> \o HexByte(Byte[text[i]])])

\* The names in the order of std::map.
NameOrder == <<"currency", "end", "interval", "leverage", "limit", "listenKey", "orderId",
    "orderType", "page_num", "page_size", "quantity", "side", "symbol", "symbols",
    "timestamp", "type", "vol">>

\* One pair for each parameter, an "&" before each but the first.
Pair(params, n) ==
    IF n \in DOMAIN params THEN <<"&", n, "=">> \o urlEncode(params[n]) ELSE <<>>
Pairs(params) == FlattenSeq([i \in DOMAIN NameOrder |-> Pair(params, NameOrder[i])])
buildQueryString(params) == SubSeq(Pairs(params), 2, Len(Pairs(params)))

\* A copy of q in which the members of p are then assigned.
Over(p, q) ==
    [n \in DOMAIN p \cup DOMAIN q |-> IF n \in DOMAIN p THEN p[n] ELSE q[n]]

removeEmptyParams(params) ==
    [n \in {m \in DOMAIN params : params[m] # <<>>} |-> params[n]]

\* The code point a JSON writer puts in place of an incomplete character.
Replacement == 65533

\* What the JSON writer of jsonToString writes for each byte of a string: a
\* code point, or nothing for a byte that the one before has taken with it.
\* It takes a byte above 127 (of those above) and the next one, whatever it
\* is, for a character of UTF-8, and writes the escape of its code point.
JsonString(text) ==
    LET b == Bytes(text)
        taken[i \in DOMAIN b] ==
            IF i = 1 \/ b[i - 1] < 128 THEN 0 ELSE 1 - taken[i - 1]
    IN  [i \in DOMAIN b |->
            IF taken[i] = 1 THEN <<>>
            ELSE IF b[i] < 128 THEN <<b[i]>>
            ELSE IF i = Len(b) THEN <<Replacement>>
            ELSE <<64 * (b[i] % 32) + (b[i + 1] % 64)>>]
jsonToString(params) == [n \in DOMAIN params |-> JsonString(params[n])]

\* HMAC-SHA256, as an injective function of the key and the data.
hmacSha256Hex(key, data) == [key |-> key, data |-> data]
spotSign(queryString) == hmacSha256Hex("secret", <<queryString>>)
futuresSign(reqTime, paramString) == hmacSha256Hex("secret", <<"key", reqTime, paramString>>)

\* Options have names of the documentation, without the timestamp, which the
\* library adds.
ASSUME ArgumentsAssumption ==
    /\ Symbols \cup Numbers \subseteq Seq(Characters)
    /\ \A options \in Options :
        /\ DOMAIN options \subseteq ToSet(NameOrder) \ {"timestamp"}
        /\ \A n \in DOMAIN options : options[n] \in Seq(Characters)

-----------------------------------------------------------------------------
(* A call: the functions of the four classes are made of these.             *)

Url(path, query) == path \o (IF query = <<>> THEN <<>> ELSE <<"?">> \o query)

Init == asked = None /\ request = None /\ fate = "none" /\ reply = None /\ result = None

\* Mutant of CurlMethod: the branch for DELETE is left out.
CurlMethodNoDelete(method) == IF method = "POST" THEN "POST" ELSE "GET"
\* httpRequest tells libcurl of POST and DELETE; any other method is a GET.
CurlMethod(method) == IF method \in {"POST", "DELETE"} THEN method ELSE "GET"

\* The application calls a function with params; q is what the function makes
\* of them and hands to httpRequest.
Begin(class, fn, params, unwraps, q) ==
    /\ asked = None
    /\ asked' = [kind |-> class, name |-> fn, method |-> q.kind, params |-> params,
                 unwraps |-> unwraps]
    /\ request' = [kind |-> CurlMethod(q.kind), url |-> q.url, body |-> q.body,
                   time |-> q.time, signature |-> q.signature]
    /\ UNCHANGED <<fate, reply, result>>

\* An argument that takes no part when it is empty.
Optional(symbol) == IF symbol = <<>> THEN <<>> ELSE [symbol |-> symbol]

Plain(method, url) ==
    [kind |-> method, url |-> url, body |-> NoBody, time |-> 0, signature |-> None]

Wait == request # None /\ reply = None

\* The bodies curl_easy_perform may leave behind: nothing, or a text that is
\* not JSON (a page of a gateway, half a reply), whatever became of the
\* request; or the reply of the exchange.
Broken == {[kind |-> "empty"], [kind |-> "malformed"]}
Answers ==
    CASE fate = "performed" -> [kind : {"object"}, success : {TRUE}, data : {"absent", "null", "value"}]
                               \cup {[kind |-> "array"]}
      [] fate = "refused"   -> [kind : {"object"}, success : {FALSE}, data : {"absent", "null"}]
      [] OTHER -> {}

Transfer ==
    /\ Wait
    /\ reply' \in Broken \cup Answers
    /\ UNCHANGED <<asked, request, fate, result>>

\* src/json_util.cpp: null for no text and for one that is not JSON.
jsonParse(body) == IF body \in Broken THEN [kind |-> "null"] ELSE body

\* Mutant of Unwrap: j["data"] without a test for the member.
UnwrapUntested(j) ==
    CASE j.kind = "object" /\ j.data # "value" -> [kind |-> "null"]
      [] j.kind = "object" -> [kind |-> "data"]
      [] OTHER -> j
\* isMember() throws unless j is an object or null.
Unwrap(j) ==
    CASE j.kind = "array" -> [kind |-> "throw"]
      [] j.kind = "object" /\ j.data = "null" -> [kind |-> "null"]
      [] j.kind = "object" /\ j.data = "value" -> [kind |-> "data"]
      [] OTHER -> j

Return ==
    /\ reply # None /\ result = None
    /\ result' = IF asked.unwraps THEN Unwrap(jsonParse(reply)) ELSE jsonParse(reply)
    /\ UNCHANGED <<asked, request, fate, reply>>

\* The exchange reads the request, at most once, perhaps after the caller has
\* given up, and does what it says or not.
Judge ==
    /\ request # None /\ fate = "none"
    /\ fate' \in {"performed", "refused"}
    /\ UNCHANGED <<asked, request, reply, result>>

-----------------------------------------------------------------------------
(* The exchange reads the URL.                                              *)

Malformed == 256    \* in place of a byte

Decode(s) ==
    LET IsHex(i) == i <= Len(s) /\ s[i] \in DOMAIN DigitValue
        from[i \in 1..(Len(s) + 1)] ==
            IF i > Len(s) THEN <<>>
            ELSE CASE s[i] # "%" -> <<Byte[s[i]]>> \o from[i + 1]
                   [] s[i] = "%" /\ IsHex(i + 1) /\ IsHex(i + 2)
                      -> <<16 * DigitValue[s[i + 1]] + DigitValue[s[i + 2]]>> \o from[i + 3]
                   [] OTHER -> <<Malformed>> \o from[i + 1]
    IN  from[1]

\* The first c in s from place i on, or the end of s.
Place(s, c, i) == Min({k \in i..Len(s) : s[k] = c} \cup {Len(s) + 1})

Path(url) == SubSeq(url, 2, Place(url, "?", 1) - 1)
Query(url) == SubSeq(url, Place(url, "?", 1) + 1, Len(url))

\* The parts of a path that name something, by the first, fixed part.
\* (the "GET" comments of include/mexc/futures/market.hpp and trade.hpp)
PathName(head) ==
    CASE head = "/api/v1/private/account/asset/" -> "currency"
      [] head = "/api/v1/private/order/get/" -> "orderId"
      [] OTHER -> "symbol"

FromPath(url) ==
    LET path == Path(url)
        slash == Place(path, "/", 1)
    IN  IF path = <<>> THEN <<>>
        ELSE IF Head(url) = "/api/v1/contract/depth_commits/"
        THEN [symbol |-> Decode(SubSeq(path, 1, slash - 1)),
              limit |-> Decode(SubSeq(path, slash + 1, Len(path)))]
        ELSE [n \in {PathName(Head(url))} |-> Decode(path)]

\* What is between the "&".
Fields(query) ==
    LET starts == {1} \cup {k + 1 : k \in {i \in DOMAIN query : query[i] = "&"}}
    IN  {SubSeq(query, i, Place(query, "&", i) - 1) : i \in starts}

FromQuery(url) ==
    LET fields == {f \in Fields(Query(url)) : Len(f) >= 2}
    IN  [n \in {Head(f) : f \in fields} |->
            LET f == CHOOSE f \in fields : Head(f) = n IN Decode(SubSeq(f, 3, Len(f)))]

\* A code point in UTF-8, and the bytes of a string of JSON.
Utf8(p) ==
    CASE p < 128 -> <<p>>
      [] p \in 128..2047 -> <<192 + (p \div 64), 128 + (p % 64)>>
      [] OTHER -> <<224 + (p \div 4096), 128 + ((p \div 64) % 64), 128 + (p % 64)>>
ReadString(points) ==
    FlattenSeq([i \in DOMAIN points |-> IF points[i] = <<>> THEN <<>> ELSE Utf8(points[i][1])])

FromBody(body) == [n \in DOMAIN body |-> ReadString(body[n])]

Arrived == Over(FromPath(request.url), Over(FromQuery(request.url), FromBody(request.body)))

\* The digest the exchange computes from what it received.
Expected ==
    CASE request.kind = "POST" /\ request.time # 0 -> futuresSign(request.time, request.body)
      [] request.kind # "POST" /\ request.time # 0
         -> futuresSign(request.time, Query(request.url))
      [] OTHER -> spotSign(Query(request.url))

-----------------------------------------------------------------------------
(* Properties. *)

\* What is signed is what is sent: the exchange, which has only the URL, the
\* headers and the body, arrives at the same digest.
Leaves == request # None /\ fate = "none" /\ reply = None
SignatureAccepted ==
    Leaves /\ request.signature # None => request.signature = Expected

NonEmpty(params) == removeEmptyParams(params)
\* Valid UTF-8: the two bytes above 127 come together and in their order.
Utf8Text(text) ==
    \A i \in DOMAIN text :
        /\ text[i] = "xC3" => i + 1 \in DOMAIN text /\ text[i + 1] = "xA9"
        /\ text[i] = "xA9" => i - 1 \in DOMAIN text /\ text[i - 1] = "xC3"
Legible ==
    /\ \A n \in DOMAIN asked.params :
        \A i \in DOMAIN asked.params[n] : Byte[asked.params[n][i]] >= 16
    /\ \A n \in DOMAIN asked.params \cap DOMAIN request.body : Utf8Text(asked.params[n])
    /\ \A c \in ToSet(Path(request.url)) : Unreserved(c) \/ c = "/"

\* Parameters a function passes on in capitals, or as a list of its own making
\* (SymbolsArrive).
AnyCase(call) ==
    (IF call.kind = "spot" THEN {"symbol"} ELSE {})
    \cup (IF call.name \in {"newOrder", "newOrderTest"} THEN {"side", "type"} ELSE {})
Rewritten(call) == IF call.name = "exchangeInfo" THEN {"symbols"} ELSE {}

\* The exchange reads, under each name, the bytes its caller passed under that
\* name, and nothing else but defaults: unless a value has a byte below 16, a
\* value in a JSON body is no valid UTF-8, or a path has a character that would
\* need an escape.
ArgumentsArrive ==
    Leaves /\ Legible =>
        LET wanted == NonEmpty(asked.params)
            got == NonEmpty(Arrived)
        IN  /\ \A n \in DOMAIN wanted \ Rewritten(asked) :
                /\ n \in DOMAIN got
                /\ got[n] = Bytes(IF n \in AnyCase(asked) THEN toUpper(wanted[n]) ELSE wanted[n])
            /\ \A n \in DOMAIN got \ DOMAIN wanted :
                \/ n = "limit" /\ got[n] = Bytes(<<"5", "0", "0">>)
                \/ n = "timestamp" /\ request.signature # None

\* A list of symbols means those between its commas, trimmed and in capitals,
\* without empty ones.
Trim(s) ==
    LET solid == {i \in DOMAIN s : s[i] # "space"}
    IN  IF solid = {} THEN <<>> ELSE SubSeq(s, Min(solid), Max(solid))
Begins(list, i) == i = 1 \/ list[i - 1] = "comma"
Segment(list, i) == SubSeq(list, i, Place(list, "comma", i) - 1)
Entry(list, i) ==
    IF Begins(list, i) /\ Trim(Segment(list, i)) # <<>>
    THEN <<"comma">> \o toUpper(Trim(Segment(list, i))) ELSE <<>>
Entries(list) == FlattenSeq([i \in DOMAIN list |-> Entry(list, i)])

\* The exchange gets the symbols that the list means, in order, as long as no
\* symbol is followed by a space, which would stay.
\* (src/spot_market.cpp:38-52)
SymbolsArrive ==
    (Leaves /\ Legible /\ asked.name = "exchangeInfo" /\ "symbols" \in DOMAIN asked.params) =>
        LET list == asked.params.symbols
            got == IF "symbols" \in DOMAIN Arrived THEN Arrived["symbols"] ELSE <<>>
        IN  (\A i \in DOMAIN list : Entry(list, i) # <<>> => Last(Segment(list, i)) # "space")
            => got = Bytes(SubSeq(Entries(list), 2, Len(Entries(list))))

\* What the exchange did is what was asked for only if the method arrived.
Outcome == IF fate = "performed" /\ request.kind # asked.method THEN "another" ELSE fate

\* The caller of any function but keepaliveUserDataStream can tell from the
\* result whether the exchange did what it asked for, and is right; except
\* after a broken reply, and after a reply whose "data" is null or that is no
\* object, which a function that unwraps "data" turns into null or an
\* exception.  The keepalive's PUT leaves as a GET and reads as done: that is
\* what the run SpotTradeKeepalive shows.
Verdict ==
    CASE result.kind \in {"data", "array"} -> "performed"
      [] result.kind = "object" -> IF result.success THEN "performed" ELSE "refused"
      [] OTHER -> "unknown"
Unclear ==
    \/ reply \in Broken
    \/ asked.unwraps /\ (reply.kind # "object" \/ reply.data = "null")
OutcomeKnown ==
    result # None /\ asked.name # "keepaliveUserDataStream"
        => Verdict = IF Unclear THEN "unknown" ELSE Outcome

=============================================================================
