-------------------------- MODULE StatusBoardProofs --------------------------
(***************************************************************************)
(* StatusBoard for every set of zones, pages and every bound Cap: the      *)
(* override of the pin zones is never decided before every challenge zone  *)
(* was heard from, although messages arrive while the table is read.       *)
(***************************************************************************)
EXTENDS StatusBoard, TLAPS

\* What the main loop knows: the zones it has visited in this round had spoken,
\* and a helper's table never loses what it heard.
TableOK ==
  /\ state \in [ChallengeZones -> {None, 0, 1}]
  /\ inbox \in Seq(ChallengeZones \X {0, 1})
  /\ turbine \in [ChallengeZones -> {0, 1}]

Visited == pc = "check" => \A z \in ChallengeZones \ left : state[z] # None

IInv == TableOK /\ Visited /\ OverrideInformed

-----------------------------------------------------------------------------
\* Publishing keeps the inbox a sequence of messages of challenge zones.
LEMMA PublishedType ==
  ASSUME TableOK, NEW z \in ChallengeZones, PublishZone(z)
  PROVE  inbox' \in Seq(ChallengeZones \X {0, 1})
  <1>1. <<z, turbine[z]>> \in ChallengeZones \X {0, 1}
    BY DEF TableOK
  <1>2. QED
    BY <1>1 DEF PublishZone, TableOK

\* Handling a message fills one entry of the table with a value that is not None.
LEMMA HandledType ==
  ASSUME TableOK, OnMessage
  PROVE  /\ state' \in [ChallengeZones -> {None, 0, 1}]
         /\ inbox' \in Seq(ChallengeZones \X {0, 1})
         /\ \A z \in ChallengeZones : state[z] # None => state'[z] # None
  <1>1. Head(inbox) \in ChallengeZones \X {0, 1} /\ inbox' \in Seq(ChallengeZones \X {0, 1})
    BY DEF TableOK, OnMessage
  <1>2. Head(inbox)[2] \in {0, 1}
    BY <1>1
  <1>3. state' \in [ChallengeZones -> {None, 0, 1}]
    BY <1>2 DEF TableOK, OnMessage
  <1>4. ASSUME NEW z \in ChallengeZones, state[z] # None PROVE state'[z] # None
    BY <1>2, <1>4, ZonesAssumption DEF TableOK, OnMessage
  <1>5. QED
    BY <1>1, <1>3, <1>4

LEMMA InitOK == Init => IInv
  <1> SUFFICES ASSUME Init PROVE IInv
    OBVIOUS
  <1>1. TableOK
    BY DEF Init, HelperInit, TableOK
  <1>2. Visited /\ OverrideInformed
    BY DEF Init, HelperInit, Visited, OverrideInformed
  <1>3. QED
    BY <1>1, <1>2 DEF IInv

LEMMA StepOK == IInv /\ [Next]_vars => IInv'
  <1> SUFFICES ASSUME IInv, [Next]_vars PROVE TableOK' /\ Visited' /\ OverrideInformed'
    BY DEF IInv
  <1> USE DEF IInv
  <1>1. CASE \E z \in ChallengeZones : PublishZone(z)
    <2>1. PICK z \in ChallengeZones : PublishZone(z)
      BY <1>1
    <2>2. inbox' \in Seq(ChallengeZones \X {0, 1})
      BY <2>1, PublishedType
    <2>3. TableOK'
      BY <2>1, <2>2 DEF PublishZone, TableOK
    <2>4. Visited' /\ OverrideInformed'
      BY <2>1 DEF PublishZone, Visited, OverrideInformed, loopVars
    <2>5. QED
      BY <2>3, <2>4
  <1>2. CASE \E z \in ChallengeZones : MoveTurbine(z)
    BY <1>2 DEF MoveTurbine, TableOK, Visited, OverrideInformed, helperVars, clientVars, loopVars
  <1>3. CASE \E z \in PinZones : HelperPublish(z)
    BY <1>3
    DEF HelperPublish, PublishPin, TableOK, Visited, OverrideInformed, clientVars
  <1>4. CASE \E z \in PinZones : MovePin(z)
    BY <1>4 DEF MovePin, TableOK, Visited, OverrideInformed, helperVars, clientVars, loopVars
  <1>5. CASE Handle
    <2>1. OnMessage /\ turbine' = turbine /\ pc' = pc /\ left' = left /\ complete' = complete
      BY <1>5 DEF Handle, HelperOnly, World, OnMessage, loopVars
    <2>2. TableOK'
      BY <2>1, HandledType DEF TableOK
    <2>3. Visited' /\ OverrideInformed'
      BY <2>1, HandledType DEF Visited, OverrideInformed
    <2>4. QED
      BY <2>2, <2>3
  <1>6. CASE Check
    <2>1. CheckZone /\ turbine' = turbine /\ inbox' = inbox /\ state' = state
      BY <1>6 DEF Check, HelperOnly, World, CheckZone, clientVars
    <2>2. TableOK'
      BY <2>1 DEF TableOK
    <2>3. Visited'
      BY <2>1, ZonesAssumption DEF CheckZone, Visited, Done
    <2>4. OverrideInformed'
      BY <2>1, ZonesAssumption DEF CheckZone, Visited, OverrideInformed, Done
    <2>5. QED
      BY <2>2, <2>3, <2>4
  <1>7. CASE Lose
    <2>1. inbox' = <<>> /\ state' = state /\ turbine' = turbine
          /\ pc' = pc /\ left' = left /\ complete' = complete
      BY <1>7 DEF Lose, HelperOnly, World, HelperLost, loopVars
    <2>2. <<>> \in Seq(ChallengeZones \X {0, 1})
      OBVIOUS
    <2>3. TableOK'
      BY <2>1, <2>2 DEF TableOK
    <2>4. QED
      BY <2>1, <2>3 DEF Visited, OverrideInformed
  <1>8. CASE Return
    <2>1. inbox' = inbox /\ state' = state /\ turbine' = turbine
          /\ pc' = pc /\ left' = left /\ complete' = complete
      BY <1>8 DEF Return, HelperOnly, World, HelperOnline, loopVars
    <2>2. QED
      BY <2>1 DEF TableOK, Visited, OverrideInformed
  <1>9. CASE Restart
    BY <1>9
    DEF Restart, HelperOnly, World, HelperRestart, TableOK, Visited, OverrideInformed
  <1>10. CASE Connect \/ Lost \/ \E b \in Browser : Show(b) \/ Open(b) \/ Drop(b) \/ Back(b)
    BY <1>10
    DEF Connect, Lost, Show, Open, Drop, Back, BoardOnly, World, TableOK, Visited,
        OverrideInformed, helperVars, clientVars, loopVars
  <1>11. CASE UNCHANGED vars
    BY <1>11
    DEF vars, TableOK, Visited, OverrideInformed, helperVars, clientVars, loopVars
  <1>12. QED
    BY <1>1, <1>2, <1>3, <1>4, <1>5, <1>6, <1>7, <1>8, <1>9, <1>10, <1>11 DEF Next

\* No override before every challenge has spoken, for any number of zones.
THEOREM Informed == Spec => []OverrideInformed
  <1>1. IInv => OverrideInformed
    BY DEF IInv
  <1>2. QED
    BY <1>1, InitOK, StepOK, PTL DEF Spec

-----------------------------------------------------------------------------
(* The override is earned                                                   *)

\* Whatever says that a turbine stands still, its state, a message under way to the
\* helper or the helper's table, it has stood still while this helper ran.
Witnessed ==
  /\ \A z \in ChallengeZones : turbine[z] = 0 => z \in wasDown
  /\ \A z \in ChallengeZones : state[z] = 0 => z \in wasDown
  /\ \A i \in 1..Len(inbox) : inbox[i][2] = 0 => inbox[i][1] \in wasDown

\* ... and so have the zones the main loop has passed in this round.
Passed == pc = "check" => ChallengeZones \ left \subseteq wasDown

EInv == Witnessed /\ Passed /\ OverrideEarned

LEMMA PublishedWitnessed ==
  ASSUME TableOK, Witnessed, NEW z \in ChallengeZones, PublishZone(z)
  PROVE  Witnessed'
  <1>1. UNCHANGED <<turbine, state, wasDown>>
    BY DEF PublishZone
  <1>2. CASE inbox' = inbox
    BY <1>1, <1>2 DEF Witnessed
  <1>3. CASE inbox' = Append(inbox, <<z, turbine[z]>>)
    <2>1. inbox \in Seq(ChallengeZones \X {0, 1}) /\ <<z, turbine[z]>> \in ChallengeZones \X {0, 1}
      BY DEF TableOK
    <2>2. /\ Len(inbox') = Len(inbox) + 1
          /\ inbox'[Len(inbox) + 1] = <<z, turbine[z]>>
          /\ \A i \in 1..Len(inbox) : inbox'[i] = inbox[i]
      BY <1>3, <2>1
    <2>3. ASSUME NEW i \in 1..Len(inbox'), inbox'[i][2] = 0
          PROVE  inbox'[i][1] \in wasDown
      <3>1. i \in 1..Len(inbox) \/ i = Len(inbox) + 1
        BY <2>1, <2>2
      <3>2. CASE i = Len(inbox) + 1
        BY <2>2, <2>3, <3>2 DEF Witnessed
      <3>3. CASE i \in 1..Len(inbox)
        BY <2>2, <2>3, <3>3 DEF Witnessed
      <3>4. QED
        BY <3>1, <3>2, <3>3
    <2>4. QED
      BY <1>1, <2>3 DEF Witnessed
  <1>4. QED
    BY <1>2, <1>3 DEF PublishZone

LEMMA HandledWitnessed ==
  ASSUME TableOK, Witnessed, Handle
  PROVE  Witnessed'
  <1>1. UNCHANGED <<turbine, wasDown>> /\ inbox # <<>> /\ inbox' = Tail(inbox)
    BY DEF Handle, HelperOnly, World, OnMessage
  <1>2. inbox \in Seq(ChallengeZones \X {0, 1})
    BY DEF TableOK
  <1>3. /\ 1 \in 1..Len(inbox) /\ Head(inbox) = inbox[1]
        /\ \A i \in 1..Len(inbox') : i + 1 \in 1..Len(inbox) /\ inbox'[i] = inbox[i + 1]
    BY <1>1, <1>2
  <1>4. ASSUME NEW z \in ChallengeZones, state'[z] = 0 PROVE z \in wasDown
    <2>1. state' = [state EXCEPT ![inbox[1][1]] = inbox[1][2]]
      BY <1>3 DEF Handle, HelperOnly, OnMessage
    <2>2. CASE z = inbox[1][1]
      <3>1. inbox[1][2] = 0
        BY <1>4, <2>1, <2>2 DEF TableOK
      <3>2. QED
        BY <1>3, <2>2, <3>1 DEF Witnessed
    <2>3. CASE z # inbox[1][1]
      BY <1>4, <2>1, <2>3 DEF TableOK, Witnessed
    <2>4. QED
      BY <2>2, <2>3
  <1>5. QED
    BY <1>1, <1>3, <1>4 DEF Witnessed

LEMMA EarnedStep == TableOK /\ EInv /\ [Next]_vars => EInv'
  <1> SUFFICES ASSUME TableOK, EInv, [Next]_vars PROVE EInv'
    OBVIOUS
  <1> USE DEF EInv
  <1>1. ASSUME UNCHANGED <<turbine, wasDown, inbox, state, pc, left, complete>>
        PROVE  EInv'
    BY <1>1 DEF Witnessed, Passed, OverrideEarned
  <1>2. ASSUME NEW z \in ChallengeZones, PublishZone(z)
        PROVE  EInv'
    <2>1. UNCHANGED <<wasDown, pc, left, complete>>
      BY <1>2 DEF PublishZone, loopVars
    <2>2. QED
      BY <1>2, <2>1, PublishedWitnessed DEF Passed, OverrideEarned
  <1>3. ASSUME NEW z \in ChallengeZones, MoveTurbine(z)
        PROVE  EInv'
    <2>1. /\ UNCHANGED <<inbox, state, pc, left, complete>>
          /\ turbine' = [turbine EXCEPT ![z] = 1 - turbine[z]]
          /\ wasDown \subseteq wasDown' /\ (turbine[z] = 1 => z \in wasDown')
      BY <1>3 DEF MoveTurbine, helperVars, clientVars, loopVars
    <2>2. \A y \in ChallengeZones : turbine'[y] = 0 => y \in wasDown'
      BY <2>1 DEF TableOK, Witnessed
    <2>3. QED
      BY <2>1, <2>2 DEF Witnessed, Passed, OverrideEarned
  <1>4. ASSUME NEW z \in PinZones, HelperPublish(z)
        PROVE  EInv'
    <2>1. /\ UNCHANGED <<turbine, wasDown, inbox, state, complete>>
          /\ pc = "publish"
          /\ pc' = "publish" \/ (pc' = "check" /\ left' = ChallengeZones)
      BY <1>4 DEF HelperPublish, PublishPin, clientVars
    <2>2. QED
      BY <2>1 DEF Witnessed, Passed, OverrideEarned
  <1>5. CASE Handle
    <2>1. UNCHANGED <<wasDown, pc, left, complete>>
      BY <1>5 DEF Handle, HelperOnly, OnMessage, loopVars
    <2>2. QED
      BY <1>5, <2>1, HandledWitnessed DEF Passed, OverrideEarned
  <1>6. CASE Check
    <2> DEFINE z == Min(left)
               ends == ~Done(state[z]) \/ left = {z}
    <2>1. /\ UNCHANGED <<turbine, wasDown, inbox, state>>
          /\ pc = "check"
          /\ complete' = IF ends THEN Done(state[z]) ELSE complete
          /\ pc' = IF ends THEN "publish" ELSE "check"
          /\ left' = IF ends THEN PinZones ELSE left \ {z}
      BY <1>6 DEF Check, HelperOnly, World, CheckZone, clientVars
    <2>2. Witnessed'
      BY <2>1 DEF Witnessed
    <2>3. z \in ChallengeZones /\ Done(state[z]) => z \in wasDown
      BY DEF Witnessed, Done
    <2>4. Passed'
      BY <2>1, <2>3 DEF Passed
    <2>5. OverrideEarned'
      BY <2>1, <2>3 DEF Passed, OverrideEarned
    <2>6. QED
      BY <2>2, <2>4, <2>5
  <1>7. CASE Lose
    <2>1. inbox' = <<>> /\ UNCHANGED <<turbine, wasDown, state, pc, left, complete>>
      BY <1>7 DEF Lose, HelperOnly, World, HelperLost, loopVars
    <2>2. QED
      BY <2>1 DEF Witnessed, Passed, OverrideEarned
  <1>8. CASE Restart
    <2>1. /\ inbox' = <<>> /\ turbine' = turbine
          /\ wasDown' = {z \in ChallengeZones : turbine[z] = 0}
          /\ state' = [z \in ChallengeZones |-> None]
          /\ pc' = "check" /\ left' = ChallengeZones
      BY <1>8 DEF Restart, HelperRestart, World
    <2>2. QED
      BY <2>1, ZonesAssumption DEF Witnessed, Passed, OverrideEarned
  <1>9. CASE Return
    BY <1>1, <1>9 DEF Return, HelperOnly, World, HelperOnline, loopVars
  <1>10. CASE Connect \/ Lost \/ \E b \in Browser : Show(b) \/ Open(b) \/ Drop(b) \/ Back(b)
    BY <1>1, <1>10
    DEF Connect, Lost, Show, Open, Drop, Back, BoardOnly, World, helperVars, clientVars, loopVars
  <1>11. CASE (\E z \in PinZones : MovePin(z)) \/ UNCHANGED vars
    BY <1>1, <1>11 DEF MovePin, vars, helperVars, clientVars, loopVars
  <1>12. QED
    BY <1>2, <1>3, <1>4, <1>5, <1>6, <1>7, <1>8, <1>9, <1>10, <1>11 DEF Next

\* The pins are overridden only after every turbine has stood still while this helper
\* ran, however messages, losses and restarts fall between the reads of the table.
THEOREM Earned == Spec => []OverrideEarned
  <1>1. Init => EInv
    BY ZonesAssumption
    DEF Init, HelperInit, EInv, Witnessed, Passed, OverrideEarned
  <1>2. IInv => TableOK
    BY DEF IInv
  <1>3. EInv => OverrideEarned
    BY DEF EInv
  <1>4. QED
    BY <1>1, <1>2, <1>3, InitOK, StepOK, EarnedStep, PTL DEF Spec

-----------------------------------------------------------------------------
(* Type correctness                                                         *)

Message == Zones \X {0, 1}

\* Taking one zone from a set of several leaves one.
LEMMA OneLess ==
  ASSUME NEW A, NEW z, A # {}, A # {z}
  PROVE  A \ {z} # {}
  OBVIOUS

\* The steps of the helper, alone and with what they send.
LEMMA HelperType ==
  ASSUME HelperTypeOK, OnMessage \/ CheckZone \/ HelperLost \/ HelperOnline \/ HelperRestart
  PROVE  HelperTypeOK' /\ Len(inbox') <= Len(inbox)
  <1> USE DEF HelperTypeOK
  <1>1. CASE OnMessage
    <2>1. /\ Head(inbox) \in ChallengeZones \X {0, 1}
          /\ Tail(inbox) \in Seq(ChallengeZones \X {0, 1}) /\ Len(Tail(inbox)) <= Len(inbox)
      BY <1>1 DEF OnMessage
    <2>2. Head(inbox)[2] \in {0, 1}
      BY <2>1
    <2>3. state' \in [ChallengeZones -> {None, 0, 1}]
      BY <1>1, <2>2 DEF OnMessage
    <2>4. QED
      BY <1>1, <2>1, <2>3 DEF OnMessage, loopVars
  <1>2. CASE CheckZone
    <2>1. /\ pc = "check" /\ UNCHANGED <<clientVars, state>>
          /\ complete' \in BOOLEAN
          /\ \/ pc' = "publish" /\ left' = PinZones
             \/ \E z : pc' = "check" /\ left' = left \ {z} /\ left # {z}
      BY <1>2 DEF CheckZone, Done
    <2>2. left' # {} /\ left' \subseteq IF pc' = "check" THEN ChallengeZones ELSE PinZones
      BY <2>1, ZonesAssumption, OneLess
    <2>3. pc' \in {"check", "publish"} /\ UNCHANGED <<online, subscribed, inbox, state>>
      BY <2>1 DEF clientVars
    <2>4. Len(inbox') <= Len(inbox)
      <3>1. Len(inbox) \in Nat
        OBVIOUS
      <3>2. QED
        BY <2>3, <3>1
    <2>5. QED
      BY <2>1, <2>2, <2>3, <2>4
  <1>3. CASE HelperLost \/ HelperOnline \/ HelperRestart
    <2>1. /\ online' \in BOOLEAN /\ subscribed' \in BOOLEAN
          /\ inbox' = inbox \/ inbox' = <<>>
      BY <1>3 DEF HelperLost, HelperOnline, HelperRestart
    <2>2. \/ UNCHANGED <<state, loopVars>>
          \/ /\ state' = [z \in ChallengeZones |-> None]
             /\ pc' = "check" /\ left' = ChallengeZones /\ complete' = FALSE
      BY <1>3 DEF HelperLost, HelperOnline, HelperRestart
    <2>3. inbox' \in Seq(ChallengeZones \X {0, 1}) /\ Len(inbox') <= Len(inbox)
      <3>1. /\ Len(inbox) \in Nat /\ Len(<<>>) = 0
            /\ inbox \in Seq(ChallengeZones \X {0, 1}) /\ <<>> \in Seq(ChallengeZones \X {0, 1})
        OBVIOUS
      <3>2. Len(<<>>) <= Len(inbox) /\ Len(inbox) <= Len(inbox)
        BY <3>1
      <3>3. QED
        BY <2>1, <3>1, <3>2
    <2>4. QED
      BY <2>1, <2>2, <2>3, ZonesAssumption DEF loopVars
  <1>4. QED
    BY <1>1, <1>2, <1>3

Boxes == \A b \in Browser : Len(mail[b]) <= Cap

\* What arrives at the server reaches the pages it has room for.
LEMMA ForwardType ==
  ASSUME BoardTypeOK, Boxes, NEW m \in Message, ToServer(m)
  PROVE  BoardTypeOK' /\ Boxes'
  <1>1. CASE listening
    <2>1. /\ Forward(m) /\ \A b \in socket : Len(mail[b]) < Cap
      BY <1>1 DEF ToServer
    <2>2. mail' = [b \in Browser |-> IF b \in socket THEN Append(mail[b], m) ELSE mail[b]]
      BY <2>1 DEF Forward
    <2>3. ASSUME NEW b \in Browser
          PROVE  mail'[b] \in Seq(Message) /\ Len(mail'[b]) <= Cap
      <3>1. mail[b] \in Seq(Message) /\ Len(mail[b]) \in Nat /\ Len(mail[b]) <= Cap
        BY DEF BoardTypeOK, Message, Boxes
      <3>2. CASE b \in socket
        <4>1. mail'[b] = Append(mail[b], m)
          BY <2>2, <3>2
        <4>2. Len(mail'[b]) = Len(mail[b]) + 1 /\ mail'[b] \in Seq(Message)
          BY <3>1, <4>1
        <4>3. Len(mail[b]) < Cap
          BY <2>1, <3>2
        <4> DEFINE n == Len(mail[b])
        <4>4. n \in Nat /\ n < Cap
          BY <3>1, <4>3
        <4> HIDE DEF n
        <4>5. n + 1 <= Cap
          BY <4>4, BoardAssumption
        <4>6. QED
          BY <4>2, <4>5 DEF n
      <3>3. CASE b \notin socket
        BY <2>2, <3>1, <3>3
      <3>4. QED
        BY <3>2, <3>3
    <2>4. mail' \in [Browser -> Seq(Message)]
      BY <2>2, <2>3
    <2>5. QED
      BY <2>1, <2>3, <2>4 DEF Forward, BoardTypeOK, Boxes, Message, serverVars
  <1>2. CASE ~listening
    BY <1>2 DEF ToServer, BoardTypeOK, Boxes, boardVars, serverVars, pageVars
  <1>3. QED
    BY <1>1, <1>2

LEMMA BoardType ==
  ASSUME BoardTypeOK, Boxes,
         \/ ServerConnect \/ ServerLost
         \/ \E b \in Browser : ShowMessage(b) \/ OpenPage(b) \/ SocketLost(b) \/ SocketBack(b)
  PROVE  BoardTypeOK' /\ Boxes'
  <1> USE DEF BoardTypeOK, Boxes
  <1>1. CASE ServerConnect \/ ServerLost
    BY <1>1 DEF ServerConnect, ServerLost, Subscribe, pageVars
  <1>2. ASSUME NEW b \in Browser, ShowMessage(b)
        PROVE  BoardTypeOK' /\ Boxes'
    <2>1. /\ Head(mail[b]) \in Zones \X {0, 1}
          /\ Tail(mail[b]) \in Seq(Zones \X {0, 1}) /\ Len(Tail(mail[b])) <= Len(mail[b])
          /\ Len(mail[b]) \in Nat /\ Len(Tail(mail[b])) \in Nat
      BY <1>2 DEF ShowMessage
    <2>2. Head(mail[b])[2] \in {0, 1}
      BY <2>1
    <2>3. shown' \in [Browser -> [Zones -> {0, 1}]]
      BY <1>2, <2>2 DEF ShowMessage
    <2>4. Len(Tail(mail[b])) <= Cap
      BY <2>1, BoardAssumption
    <2>5. QED
      BY <1>2, <2>1, <2>3, <2>4 DEF ShowMessage, serverVars
  <1>3. ASSUME NEW b \in Browser, OpenPage(b) \/ SocketLost(b) \/ SocketBack(b)
        PROVE  BoardTypeOK' /\ Boxes'
    <2>1. FreshPage \in [Zones -> {0, 1}]
      BY DEF FreshPage
    <2>2. Len(<<>>) <= Cap /\ <<>> \in Seq(Zones \X {0, 1})
      BY BoardAssumption
    <2>3. mail' = mail \/ mail' = [mail EXCEPT ![b] = <<>>]
      BY <1>3 DEF OpenPage, SocketLost, SocketBack
    <2>4. mail' \in [Browser -> Seq(Zones \X {0, 1})] /\ Boxes'
      BY <2>2, <2>3
    <2>5. shown' \in [Browser -> [Zones -> {0, 1}]]
      BY <1>3, <2>1 DEF OpenPage, SocketLost, SocketBack
    <2>6. UNCHANGED serverVars /\ socket' \subseteq Browser
      BY <1>3 DEF OpenPage, SocketLost, SocketBack
    <2>7. QED
      BY <2>4, <2>5, <2>6 DEF serverVars
  <1>4. QED
    BY <1>1, <1>2, <1>3

LEMMA StepType == TypeOK /\ [Next]_vars => TypeOK'
  <1> SUFFICES ASSUME TypeOK, [Next]_vars PROVE TypeOK'
    OBVIOUS
  <1>1. HelperTypeOK /\ BoardTypeOK /\ Boxes /\ Len(inbox) <= Cap
        /\ turbine \in [ChallengeZones -> {0, 1}] /\ pin \in [PinZones -> {0, 1}]
        /\ wasDown \subseteq ChallengeZones
    BY DEF TypeOK, Boxes
  <1>2. Len(inbox) \in Nat /\ Cap \in Nat
    BY <1>1, BoardAssumption DEF HelperTypeOK
  <1>3. ASSUME NEW z \in ChallengeZones, PublishZone(z)
        PROVE  TypeOK'
    <2>1. <<z, turbine[z]>> \in Message /\ <<z, turbine[z]>> \in ChallengeZones \X {0, 1}
      BY <1>1, BoardAssumption DEF Message
    <2>2. BoardTypeOK' /\ Boxes'
      BY <1>1, <1>3, <2>1, ForwardType DEF PublishZone
    <2>3. inbox' \in Seq(ChallengeZones \X {0, 1}) /\ Len(inbox') <= Cap
      <3>1. CASE inbox' = inbox
        BY <1>1, <3>1 DEF HelperTypeOK
      <3>2. CASE inbox' = Append(inbox, <<z, turbine[z]>>)
        <4>1. inbox' \in Seq(ChallengeZones \X {0, 1}) /\ Len(inbox') = Len(inbox) + 1
          BY <1>1, <2>1, <3>2 DEF HelperTypeOK
        <4> DEFINE n == Len(inbox)
        <4>2. n \in Nat /\ n < Cap
          BY <1>2, <1>3 DEF PublishZone
        <4> HIDE DEF n
        <4>3. n + 1 <= Cap
          BY <1>2, <4>2
        <4>4. QED
          BY <4>1, <4>3 DEF n
      <3>3. QED
        BY <1>3, <3>1, <3>2 DEF PublishZone
    <2>4. QED
      BY <1>1, <1>3, <2>2, <2>3 DEF PublishZone, TypeOK, HelperTypeOK, loopVars, Boxes
  <1>4. ASSUME NEW z \in PinZones, HelperPublish(z)
        PROVE  TypeOK'
    <2>1. <<z, PinValue(pin[z])>> \in Message
      BY <1>1, BoardAssumption DEF Message, PinValue
    <2>2. BoardTypeOK' /\ Boxes'
      <3>1. CASE online
        BY <1>1, <1>4, <2>1, <3>1, ForwardType DEF HelperPublish
      <3>2. CASE ~online
        BY <1>1, <1>4, <3>2
        DEF HelperPublish, BoardTypeOK, Boxes, boardVars, serverVars, pageVars
      <3>3. QED
        BY <3>1, <3>2
    <2>3. HelperTypeOK' /\ inbox' = inbox
      <3>1. /\ UNCHANGED <<clientVars, state, complete>>
            /\ pc' \in {"check", "publish"}
            /\ \/ pc' = "check" /\ left' = ChallengeZones
               \/ pc = "publish" /\ pc' = "publish" /\ left' = left \ {z} /\ left # {z}
        BY <1>4 DEF HelperPublish, PublishPin
      <3>2. left' # {} /\ left' \subseteq IF pc' = "check" THEN ChallengeZones ELSE PinZones
        BY <1>1, <3>1, ZonesAssumption, OneLess DEF HelperTypeOK
      <3>3. QED
        BY <1>1, <3>1, <3>2 DEF HelperTypeOK, clientVars
    <2>4. QED
      BY <1>1, <1>4, <2>2, <2>3 DEF HelperPublish, TypeOK, Boxes
  <1>5. ASSUME \/ \E z \in ChallengeZones : MoveTurbine(z)
               \/ \E z \in PinZones : MovePin(z)
        PROVE  TypeOK'
    <2>1. turbine' \in [ChallengeZones -> {0, 1}] /\ pin' \in [PinZones -> {0, 1}]
      BY <1>1, <1>5 DEF MoveTurbine, MovePin
    <2>2. UNCHANGED <<helperVars, boardVars>> /\ wasDown' \subseteq ChallengeZones
      BY <1>1, <1>5 DEF MoveTurbine, MovePin
    <2>3. QED
      BY <1>1, <2>1, <2>2
      DEF TypeOK, HelperTypeOK, BoardTypeOK, Boxes, helperVars, clientVars, loopVars, boardVars,
          serverVars, pageVars
  <1>6. CASE Handle \/ Check \/ Lose \/ Return \/ Restart
    <2>1. OnMessage \/ CheckZone \/ HelperLost \/ HelperOnline \/ HelperRestart
      BY <1>6 DEF Handle, Check, Lose, Return, Restart, HelperOnly
    <2>2. UNCHANGED <<World, boardVars>> /\ wasDown' \subseteq ChallengeZones
      BY <1>1, <1>6 DEF Handle, Check, Lose, Return, Restart, HelperOnly
    <2>3. HelperTypeOK' /\ Len(inbox') <= Len(inbox)
      BY <1>1, <2>1, HelperType
    <2>4. Len(inbox') \in Nat
      BY <2>3 DEF HelperTypeOK
    <2>5. Len(inbox') <= Cap
      BY <1>1, <1>2, <2>3, <2>4
    <2>6. QED
      BY <1>1, <2>2, <2>3, <2>5
      DEF TypeOK, BoardTypeOK, Boxes, World, boardVars, serverVars, pageVars
  <1>7. CASE Connect \/ Lost \/ \E b \in Browser : Show(b) \/ Open(b) \/ Drop(b) \/ Back(b)
    <2>1. \/ ServerConnect \/ ServerLost
          \/ \E b \in Browser : ShowMessage(b) \/ OpenPage(b) \/ SocketLost(b) \/ SocketBack(b)
      BY <1>7 DEF Connect, Lost, Show, Open, Drop, Back, BoardOnly
    <2>2. UNCHANGED <<World, wasDown, helperVars>>
      BY <1>7 DEF Connect, Lost, Show, Open, Drop, Back, BoardOnly
    <2>3. BoardTypeOK' /\ Boxes'
      BY <1>1, <2>1, BoardType
    <2>4. QED
      BY <1>1, <2>2, <2>3
      DEF TypeOK, HelperTypeOK, Boxes, World, helperVars, clientVars, loopVars
  <1>8. CASE UNCHANGED vars
    BY <1>1, <1>8
    DEF vars, TypeOK, HelperTypeOK, BoardTypeOK, Boxes, helperVars, clientVars, loopVars,
        boardVars, serverVars, pageVars
  <1>9. QED
    BY <1>3, <1>4, <1>5, <1>6, <1>7, <1>8 DEF Next

\* Every variable keeps its type and no hop ever carries more than its bound: the
\* helper always has a zone left to visit, so its loop never runs dry.
THEOREM TypeCorrect == Spec => []TypeOK
  <1>1. Init => TypeOK
    <2> SUFFICES ASSUME Init PROVE TypeOK
      OBVIOUS
    <2>1. Len(<<>>) <= Cap /\ <<>> \in Seq(ChallengeZones \X {0, 1}) /\ <<>> \in Seq(Zones \X {0, 1})
      BY BoardAssumption
    <2>2. HelperTypeOK /\ Len(inbox) <= Cap
      BY <2>1, ZonesAssumption DEF Init, HelperInit, HelperTypeOK
    <2>3. BoardTypeOK /\ \A b \in Browser : Len(mail[b]) <= Cap
      BY <2>1 DEF Init, BoardInit, BoardTypeOK, FreshPage
    <2>4. QED
      BY <2>2, <2>3 DEF Init, TypeOK
  <1>2. QED
    BY <1>1, StepType, PTL DEF Spec
=============================================================================
