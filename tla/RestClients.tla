----------------------------- MODULE RestClients -----------------------------
(***************************************************************************)
(* The REST classes together: an application makes one call of any of them *)
(* with any arguments, and the network and the exchange do with it what    *)
(* they may.                                                               *)
(***************************************************************************)
EXTENDS HttpClient

CONSTANTS Lists, Times, Stamps

ASSUME InputsAssumption ==
    /\ Lists \cup Stamps \subseteq Seq(Characters)
    /\ Times \subseteq Nat \ {0}

Spot == INSTANCE SpotMarket
SpotTrading == INSTANCE SpotTradeCalls
Futures == INSTANCE FuturesMarket
FuturesTrading == INSTANCE FuturesTrade

Next ==
    \/ /\ asked = None
       /\ \/ Spot!MarketCall \/ SpotTrading!TradeCall
          \/ Futures!MarketCall \/ FuturesTrading!TradeCall
    \/ Judge \/ Transfer \/ Return

Spec == Init /\ [][Next]_vars

-----------------------------------------------------------------------------
(* Values for TLC. *)

\* Letters, digits of escapes, separators, a control character, high bytes.
Alphabet == {"b", "A", "underscore", "space", "comma", "%", "&", "=", "newline", "xC3", "xA9"}
Values == BoundedSeq(Alphabet, 2)
SomeLists == BoundedSeq({"b", "comma", "space"}, 5)

SomeSymbols == {<<>>, <<"b">>, <<"B", "underscore", "A">>, <<"b", "%", "B", "A">>}
SomeNumbers == {<<"0">>, <<"5">>}
SomeOptions ==
    {<<>>} \cup [{"limit"} -> {<<>>, <<"5">>}] \cup [{"symbol", "side"} -> {<<>>, <<"m">>}]
    \cup [{"orderId"} -> Values]
SomeTimes == {1, 2}
SomeStamps == {<<"1">>, <<"2">>}

=============================================================================
