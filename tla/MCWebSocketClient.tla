------------------------- MODULE MCWebSocketClient -------------------------
(* Finite values for the constants of WebSocketClient. *)
EXTENDS WebSocketClient, TLC

CONSTANTS m, w, p, r1, r2

\* Requests are interchangeable.
RequestSymmetry == Permutations({r1, r2})

Nobody == {}
OneProducer == {p}

\* An application that reconnects only after disconnect() has returned.
DisciplinedCalls == {"request", "connect", "disconnect", "runAsync"}
\* One that connects again as soon as the connection is lost.
ReconnectingCalls == DisciplinedCalls \cup {"reconnect"}
\* One that runs the loop in its own thread or in the background.
EveryCall == DisciplinedCalls \cup {"run"}

JustListen == {}
SubscribeInCallback == {"request"}
ManageInCallback == {"request", "connect", "disconnect"}

=============================================================================
