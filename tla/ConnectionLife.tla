--------------------------- MODULE ConnectionLife ---------------------------
(***************************************************************************)
(* What the game server takes for granted of websocketpp, and WSServer.tla *)
(* with it: for one connection the library calls OnConnectionOpen at most  *)
(* once, OnMessageReceived only between the opening and the closing, and   *)
(* OnConnectionClose at most once, after an opening.  mConnections[hdl]    *)
(* (Server.cpp:38, 61) would otherwise make a second, empty session.       *)
(***************************************************************************)
EXTENDS Naturals

VARIABLES opens,     \* calls of OnConnectionOpen
          closes,    \* calls of OnConnectionClose
          messages   \* calls of OnMessageReceived

calls == <<opens, closes, messages>>

Init == opens = 0 /\ closes = 0 /\ messages = 0

OnConnectionOpen ==
    /\ opens = 0
    /\ opens' = 1
    /\ UNCHANGED <<closes, messages>>

OnMessageReceived ==
    /\ opens = 1
    /\ closes = 0
    /\ messages' = messages + 1
    /\ UNCHANGED <<opens, closes>>

OnConnectionClose ==
    /\ opens = 1
    /\ closes = 0
    /\ closes' = 1
    /\ UNCHANGED <<opens, messages>>

Next == OnConnectionOpen \/ OnMessageReceived \/ OnConnectionClose

Life == Init /\ [][Next]_calls
=============================================================================
