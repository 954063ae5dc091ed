----------------------------- MODULE ZoneHelper -----------------------------
(***************************************************************************)
(* mqtthelper/MQTTHelper.py: it publishes the level of a few input pins,   *)
(* and overrides them with 0 while every challenge zone reads 0.           *)
(*                                                                         *)
(* The MQTT client library runs _on_message on a thread of its own, beside *)
(* the main loop.  The main loop reads the table zone by zone, in the      *)
(* order of the zones' numbers.                                            *)
(***************************************************************************)
EXTENDS Naturals, Sequences, FiniteSetsExt

CONSTANTS ChallengeZones,   \* zones the helper listens to
          PinZones,         \* zones it publishes
          None              \* nothing was heard from a zone

ASSUME ZonesAssumption ==
  /\ ChallengeZones \subseteq Nat /\ ChallengeZones # {}
  /\ PinZones \subseteq Nat /\ PinZones # {}
  /\ ChallengeZones \intersect PinZones = {}
  /\ None \notin {0, 1}

VARIABLES
  online,       \* the helper is connected to the broker
  subscribed,   \* the broker forwards the challenge zones to this connection
  inbox,        \* messages forwarded, not yet handled
  state,        \* _challenge_state
  pc, left,     \* where the main loop is, and the zones it has yet to visit
  complete

loopVars   == <<pc, left, complete>>
clientVars == <<online, subscribed, inbox>>
helperVars == <<clientVars, state, loopVars>>

HelperTypeOK ==
  /\ online \in BOOLEAN /\ subscribed \in BOOLEAN
  /\ inbox \in Seq(ChallengeZones \X {0, 1})
  /\ state \in [ChallengeZones -> {None, 0, 1}]
  /\ pc \in {"check", "publish"}
  /\ left # {} /\ left \subseteq IF pc = "check" THEN ChallengeZones ELSE PinZones
  /\ complete \in BOOLEAN

HelperInit ==
  /\ online = TRUE /\ subscribed = TRUE /\ inbox = <<>>
  /\ state = [z \in ChallengeZones |-> None]
  /\ pc = "check" /\ left = ChallengeZones /\ complete = FALSE

\* _on_message: the zone is in the table, the payload is a number.
OnMessage ==
  /\ inbox # <<>>
  /\ state' = [state EXCEPT ![Head(inbox)[1]] = Head(inbox)[2]]
  /\ inbox' = Tail(inbox)
  /\ UNCHANGED <<online, subscribed, loopVars>>

\* One step of all(v == 0 ...): the first other value ends it.
DoneUnlessUp(v) == v # 1   \* mutant: a zone that was never heard from counts as done
DoneOnceHeard(v) == v # None   \* mutant: whatever was heard counts as done
Done(v) == v = 0

CheckZoneLatched ==   \* mutant: the override is never taken back
  /\ pc = "check"
  /\ LET z == Min(left)
         ends == ~Done(state[z]) \/ left = {z}
     IN  /\ complete' = (complete \/ (ends /\ Done(state[z])))
         /\ pc' = IF ends THEN "publish" ELSE "check"
         /\ left' = IF ends THEN PinZones ELSE left \ {z}
  /\ UNCHANGED <<clientVars, state>>

CheckZone ==
  /\ pc = "check"
  /\ LET z == Min(left)
         ends == ~Done(state[z]) \/ left = {z}
     IN  /\ complete' = IF ends THEN Done(state[z]) ELSE complete
         /\ pc' = IF ends THEN "publish" ELSE "check"
         /\ left' = IF ends THEN PinZones ELSE left \ {z}
  /\ UNCHANGED <<clientVars, state>>

\* The loop's next pin, whose level is p: the value published for it.
PinLevel(p) == p   \* mutant: no override
PinValue(p) == IF complete THEN 0 ELSE p

PublishPinOnce(z) ==   \* mutant: the next round starts with nothing to check
  /\ pc = "publish" /\ z = Min(left)
  /\ pc' = IF left = {z} THEN "check" ELSE "publish"
  /\ left' = left \ {z}
  /\ UNCHANGED <<clientVars, state, complete>>

PublishPin(z) ==
  /\ pc = "publish" /\ z = Min(left)
  /\ pc' = IF left = {z} THEN "check" ELSE "publish"
  /\ left' = IF left = {z} THEN ChallengeZones ELSE left \ {z}
  /\ UNCHANGED <<clientVars, state, complete>>

\* The connection is lost.  The library connects again by itself, with a clean
\* session, for which the broker keeps no subscription.
HelperLost ==
  /\ online
  /\ online' = FALSE /\ subscribed' = FALSE /\ inbox' = <<>>
  /\ UNCHANGED <<state, loopVars>>

HelperOnline ==
  /\ ~online
  /\ online' = TRUE
  /\ UNCHANGED <<subscribed, inbox, state, loopVars>>

\* A new process knows of no zone and subscribes to all.
HelperRestart ==
  /\ online' = TRUE /\ subscribed' = TRUE /\ inbox' = <<>>
  /\ state' = [z \in ChallengeZones |-> None]
  /\ pc' = "check" /\ left' = ChallengeZones /\ complete' = FALSE
=============================================================================
