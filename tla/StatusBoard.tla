----------------------------- MODULE StatusBoard -----------------------------
(***************************************************************************)
(* The status board: challenges publish their zones once a second or so,   *)
(* the broker forwards each message to whoever has subscribed, without     *)
(* keeping it (QoS 0, not retained), the helper (ZoneHelper) publishes the *)
(* pin zones, and the pages (Dashboard) show them all.                     *)
(*                                                                         *)
(* Bound: Cap messages under way on each hop.                              *)
(***************************************************************************)
EXTENDS ZoneHelper, Dashboard

CONSTANT Cap

ASSUME BoardAssumption ==
  /\ Zones = ChallengeZones \union PinZones
  /\ Cap \in Nat \ {0}

VARIABLES
  turbine,   \* turbine[z]: what the challenge of zone z publishes, 1 = running
  pin,       \* pin[z]: level of the pin behind zone z
  wasDown    \* history: turbines that stood still at some time since the helper started

vars == <<turbine, pin, wasDown, helperVars, boardVars>>

TypeOK ==
  /\ turbine \in [ChallengeZones -> {0, 1}]
  /\ pin \in [PinZones -> {0, 1}]
  /\ wasDown \subseteq ChallengeZones
  /\ HelperTypeOK /\ BoardTypeOK
  /\ Len(inbox) <= Cap
  /\ \A b \in Browser : Len(mail[b]) <= Cap

Init ==
  /\ turbine = [z \in ChallengeZones |-> 1]
  /\ pin \in [PinZones -> {0, 1}]
  /\ wasDown = {}
  /\ HelperInit /\ BoardInit

\* A message for the server, which handles it as it arrives: what is under way to
\* a page (mail) stands for what is under way to the server as well.
ToServer(m) ==
  /\ \A b \in socket : Len(mail[b]) < Cap
  /\ IF listening THEN Forward(m) ELSE UNCHANGED boardVars

\* The challenge of zone z publishes; the helper gets it too.
PublishZone(z) ==
  /\ Len(inbox) < Cap
  /\ inbox' = IF subscribed THEN Append(inbox, <<z, turbine[z]>>) ELSE inbox
  /\ ToServer(<<z, turbine[z]>>)
  /\ UNCHANGED <<turbine, pin, wasDown, online, subscribed, state, loopVars>>

\* The helper publishes a pin zone; without a connection the message is dropped.
HelperPublish(z) ==
  /\ PublishPin(z)
  /\ IF online THEN ToServer(<<z, PinValue(pin[z])>>) ELSE UNCHANGED boardVars
  /\ UNCHANGED <<turbine, pin, wasDown>>

\* A turbine stops or runs again; a pin changes its level.
MoveTurbine(z) ==
  /\ turbine' = [turbine EXCEPT ![z] = 1 - @]
  /\ wasDown' = IF turbine[z] = 1 THEN wasDown \union {z} ELSE wasDown
  /\ UNCHANGED <<pin, helperVars, boardVars>>

MovePin(z) ==
  /\ pin' = [pin EXCEPT ![z] = 1 - @]
  /\ UNCHANGED <<turbine, wasDown, helperVars, boardVars>>

World  == <<turbine, pin>>
HelperOnly(A) == A /\ UNCHANGED <<World, wasDown, boardVars>>
BoardOnly(A)  == A /\ UNCHANGED <<World, wasDown, helperVars>>

Handle  == HelperOnly(OnMessage)
Check   == HelperOnly(CheckZone)
Lose    == HelperOnly(HelperLost)
Return  == HelperOnly(HelperOnline)
Connect == BoardOnly(ServerConnect)
Lost    == BoardOnly(ServerLost)
Show(b) == BoardOnly(ShowMessage(b))
Open(b) == BoardOnly(OpenPage(b))
Drop(b) == BoardOnly(SocketLost(b))
Back(b) == BoardOnly(SocketBack(b))

Restart ==
  /\ HelperRestart
  /\ wasDown' = {z \in ChallengeZones : turbine[z] = 0}
  /\ UNCHANGED <<World, boardVars>>

Next ==
  \/ \E z \in ChallengeZones : PublishZone(z) \/ MoveTurbine(z)
  \/ \E z \in PinZones : HelperPublish(z) \/ MovePin(z)
  \/ Handle \/ Check \/ Lose \/ Return \/ Restart
  \/ Connect \/ Lost
  \/ \E b \in Browser : Show(b) \/ Open(b) \/ Drop(b) \/ Back(b)

Spec == Init /\ [][Next]_vars

\* Publishers keep publishing and never wait for room (Cap is a bound of the model,
\* hence SF); threads, handlers and the libraries' reconnects run on.  Losses,
\* restarts and page loads are owed by nobody.
FairSpec ==
  /\ Spec
  /\ \A z \in ChallengeZones : SF_vars(PublishZone(z))
  /\ \A z \in PinZones : SF_vars(HelperPublish(z))
  /\ WF_vars(Handle) /\ WF_vars(Check) /\ WF_vars(Return)
  /\ WF_vars(Connect)
  /\ \A b \in Browser : WF_vars(Show(b))

-----------------------------------------------------------------------------
AllStopped == \A z \in ChallengeZones : turbine[z] = 0
Settles == <>[][UNCHANGED World]_vars
HelperKept == <>[]subscribed /\ <>[][~HelperRestart]_vars

\* What zone z stands for: the turbine, or the pin unless all turbines stopped.
Meaning(z) == IF z \in ChallengeZones THEN turbine[z]
              ELSE IF AllStopped THEN 0 ELSE pin[z]

\* The override is never decided while a challenge has yet to be heard from.
OverrideInformed ==
  complete /\ pc = "publish" => \A z \in ChallengeZones : state[z] # None

\* ... nor before each of them has stood still at some time since this helper started.
\* They need not have stood still together: one may run again while the table is read.
OverrideEarned == complete /\ pc = "publish" => ChallengeZones \subseteq wasDown

\* As long as the helper runs on and keeps its subscriptions, it overrides the pins for good
\* once every turbine has stopped, and gives them back once one runs again.
HelperFollows ==
  Settles /\ HelperKept => <>[](pc = "publish" => (complete <=> AllStopped))

\* Whatever connections were lost and made again on the way, a page whose socket
\* and whose server stay connected shows every challenge as it is.
PagesFollow ==
  Settles /\ <>[]connected =>
    \A b \in Browser :
      <>[](b \in socket) => <>[](\A z \in ChallengeZones : shown[b][z] = turbine[z])

\* ... and every zone as it is, if the helper keeps its subscriptions.
BoardTrue ==
  Settles /\ <>[]connected /\ HelperKept =>
    \A b \in Browser : <>[](b \in socket) => <>[](\A z \in Zones : shown[b][z] = Meaning(z))

-----------------------------------------------------------------------------
\* docs/ADMIN.md: zone3 and zone4 "go offline (green/Down) automatically once all
\* three actual challenges report stopped", and MQTTHelper.py keeps the "latest
\* known value per challenge zone".  After a lost connection it does not: nothing
\* subscribes again, and the table stays as it was.
FollowsReconnected ==
  Settles /\ <>[]online /\ <>[][~HelperRestart]_vars =>
    <>[](pc = "publish" => (complete <=> AllStopped))
=============================================================================
