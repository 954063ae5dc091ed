------------------------------ MODULE Dashboard ------------------------------
(***************************************************************************)
(* viz: the server that forwards the zones' messages (server.js) and the   *)
(* browser page that shows them (public/main.js).                          *)
(***************************************************************************)
EXTENDS Naturals, Sequences

CONSTANTS Zones,    \* zones on the board
          Browser   \* pages that may be open

VARIABLES
  connected,   \* the server is connected to the broker
  listening,   \* the broker forwards the zones to this connection
  socket,      \* pages whose Socket.IO connection is up
  mail,        \* mail[b]: emitted to page b, not yet handled
  shown        \* shown[b]: zoneState of page b, 1 = Normal

serverVars == <<connected, listening>>
pageVars   == <<socket, mail, shown>>
boardVars  == <<serverVars, pageVars>>

BoardTypeOK ==
  /\ connected \in BOOLEAN /\ listening \in BOOLEAN
  /\ socket \subseteq Browser
  /\ mail \in [Browser -> Seq(Zones \X {0, 1})]
  /\ shown \in [Browser -> [Zones -> {0, 1}]]

FreshPage == [z \in Zones |-> 1]

BoardInit ==
  /\ connected = FALSE /\ listening = FALSE
  /\ socket = {} /\ mail = [b \in Browser |-> <<>>]
  /\ shown = [b \in Browser |-> FreshPage]

-----------------------------------------------------------------------------
\* on('connect'), for the first connection and every later one: subscribe.
SubscribeElsewhere == UNCHANGED listening   \* mutant: not part of the handler
Subscribe == listening' = TRUE

ServerConnect ==
  /\ ~connected
  /\ connected' = TRUE
  /\ Subscribe
  /\ UNCHANGED pageVars

ServerLost ==
  /\ connected
  /\ connected' = FALSE /\ listening' = FALSE
  /\ UNCHANGED pageVars

\* on('message'): emit to every page that is connected.
Forward(m) ==
  /\ mail' = [b \in Browser |-> IF b \in socket THEN Append(mail[b], m) ELSE mail[b]]
  /\ UNCHANGED <<serverVars, socket, shown>>

\* on('mqttMessage'): the zone's entry becomes Normal for 1 and Down for 0.
ShowMessage(b) ==
  /\ mail[b] # <<>>
  /\ shown' = [shown EXCEPT ![b][Head(mail[b])[1]] = Head(mail[b])[2]]
  /\ mail' = [mail EXCEPT ![b] = Tail(@)]
  /\ UNCHANGED <<serverVars, socket>>

\* The page is loaded (again, once its last socket is gone): every zone starts
\* as Normal.
OpenPage(b) ==
  /\ b \notin socket
  /\ socket' = socket \union {b}
  /\ mail' = [mail EXCEPT ![b] = <<>>]
  /\ shown' = [shown EXCEPT ![b] = FreshPage]
  /\ UNCHANGED serverVars

\* The socket is lost; the page connects again by itself and keeps what it shows.
SocketLost(b) ==
  /\ b \in socket
  /\ socket' = socket \ {b}
  /\ mail' = [mail EXCEPT ![b] = <<>>]
  /\ UNCHANGED <<serverVars, shown>>

SocketBack(b) ==
  /\ b \notin socket
  /\ socket' = socket \union {b}
  /\ UNCHANGED <<serverVars, mail, shown>>
=============================================================================
