-------------------------------- MODULE EStop --------------------------------
(***************************************************************************)
(* dnpchallenge: the e-stop of the RTU (rtuconfig.xml), the turbine logic  *)
(* of the IED (iedconfig.xml), the DNP3 point between them and the helper  *)
(* that shows the turbine on the dashboard (vizhelper.py).                 *)
(*                                                                         *)
(* Both logic programs have a period of 1 s and DNP3 carries a changed     *)
(* output to the outstation within that time: in every second each of the  *)
(* three runs once, in any order (owes).  Operators and the helper, whose  *)
(* HTTP requests may take seconds, keep no time.                           *)
(***************************************************************************)
EXTENDS Integers

CONSTANT Limit   \* ticks after which an e-stop lets go (60 in the program)

ASSUME LimitAssumption == Limit \in Nat /\ Limit >= 2

VARIABLES
  switch,      \* RTU: input pin 16, as its gpio module publishes it
  led,         \* RTU: e-stop lamp, and the e-stop's memory
  counter,     \* RTU: ticks the e-stop has lasted
  control,     \* RTU: turbine.control, TRUE = run
  icontrol,    \* IED: turbine.control as last received
  estop,       \* IED: its own e-stop tag
  turbine,     \* IED: turbine and status, output pin 18
  owes,        \* who has yet to run in this second
  vpc, vled, vestop,   \* helper: where it is, and the answers it holds
  zone2        \* what the dashboard was told last

rtuVars == <<led, counter, control>>
iedVars == <<icontrol, turbine>>
vizVars == <<vpc, vled, vestop, zone2>>
vars    == <<switch, estop, rtuVars, iedVars, owes, vizVars>>

Periodic == {"rtu", "link", "ied"}

TypeOK ==
  /\ switch \in BOOLEAN /\ led \in BOOLEAN /\ control \in BOOLEAN
  /\ counter \in 0..Limit
  /\ icontrol \in BOOLEAN /\ estop \in BOOLEAN /\ turbine \in BOOLEAN
  /\ owes \in SUBSET Periodic /\ owes # {}
  /\ vpc \in {"readLed", "readEstop", "publish"}
  /\ vled \in BOOLEAN /\ vestop \in BOOLEAN
  /\ zone2 \in {"Normal", "Down"}

Init ==
  /\ switch = FALSE /\ led = FALSE /\ counter = 0 /\ control = TRUE
  /\ icontrol = TRUE /\ estop = FALSE /\ turbine = TRUE
  /\ owes = Periodic
  /\ vpc = "readLed" /\ vled = FALSE /\ vestop = FALSE
  /\ zone2 = "Normal"

Turn(a) ==
  /\ a \in owes
  /\ owes' = IF owes = {a} THEN Periodic ELSE owes \ {a}

-----------------------------------------------------------------------------
(* The counter of a held e-stop goes on past Limit; only whether it is 0,   *)
(* below Limit or not below it matters, so it stops at Limit here.          *)

Active(c) == 0 < c /\ c < Limit

LatchSwitchOnly == switch   \* mutant: the lamp does not hold the e-stop
Latch == led \/ switch

CountPast(latched) ==   \* mutant: the window's end is not tested
  IF ~latched THEN 0 ELSE IF counter <= Limit THEN counter + 1 ELSE Limit
Count(latched) ==
  IF ~latched THEN 0 ELSE IF counter < Limit THEN counter + 1 ELSE Limit

RtuTick ==
  /\ Turn("rtu")
  /\ counter' = Count(Latch)
  /\ led' = Active(counter')
  /\ control' = ~Active(counter')
  /\ UNCHANGED <<switch, estop, iedVars, vizVars>>

\* DNP3 operates the outstation's binary output 10.  The status point that goes
\* back is read by nobody's logic.
ControlLost == UNCHANGED icontrol   \* mutant: the command is not carried out
Operate == icontrol' = control

LinkTick ==
  /\ Turn("link")
  /\ Operate
  /\ UNCHANGED <<switch, estop, rtuVars, turbine, vizVars>>

RunningInverted == ~(icontrol /\ ~estop)   \* mutant: the polarity fixed in docs/AUDIT.md
Running == icontrol /\ ~estop

IedTick ==
  /\ Turn("ied")
  /\ turbine' = Running
  /\ UNCHANGED <<switch, estop, rtuVars, icontrol, vizVars>>

-----------------------------------------------------------------------------
\* The switch is pressed or let go; the IED's e-stop tag is written.
MoveSwitch ==
  /\ switch' = ~switch
  /\ UNCHANGED <<estop, rtuVars, iedVars, owes, vizVars>>

WriteEstop ==
  /\ estop' = ~estop
  /\ UNCHANGED <<switch, rtuVars, iedVars, owes, vizVars>>

-----------------------------------------------------------------------------
(* The helper asks the RTU, then the IED, then publishes.                   *)

VizReadLed ==
  /\ vpc = "readLed"
  /\ vled' = led /\ vpc' = "readEstop"
  /\ UNCHANGED <<switch, estop, rtuVars, iedVars, owes, vestop, zone2>>

VizReadEstop ==
  /\ vpc = "readEstop"
  /\ vestop' = estop /\ vpc' = "publish"
  /\ UNCHANGED <<switch, estop, rtuVars, iedVars, owes, vled, zone2>>

PublishOnlyDown ==   \* mutant: the zone is not told that the turbine is back
  zone2' = IF vestop /\ ~vled THEN "Down" ELSE zone2
Publish == zone2' = IF vestop /\ ~vled THEN "Down" ELSE "Normal"

VizPublish ==
  /\ vpc = "publish"
  /\ Publish
  /\ vpc' = "readLed"
  /\ UNCHANGED <<switch, estop, rtuVars, iedVars, owes, vled, vestop>>

\* A request fails: the helper starts over and publishes nothing.
VizPollFails ==
  /\ vpc \in {"readLed", "readEstop"}
  /\ vpc' = "readLed"
  /\ UNCHANGED <<switch, estop, rtuVars, iedVars, owes, vled, vestop, zone2>>

-----------------------------------------------------------------------------
Tick == RtuTick \/ LinkTick \/ IedTick
Operator == MoveSwitch \/ WriteEstop

Next == Tick \/ Operator \/ VizReadLed \/ VizReadEstop \/ VizPublish \/ VizPollFails

Spec == Init /\ [][Next]_vars

\* The programs run every second.  The helper's polls do not fail for ever.
FairSpec ==
  /\ Spec
  /\ WF_vars(RtuTick) /\ WF_vars(LinkTick) /\ WF_vars(IedTick)
  /\ WF_vars(VizReadLed) /\ SF_vars(VizReadEstop) /\ WF_vars(VizPublish)

-----------------------------------------------------------------------------
\* An e-stop that has lasted four ticks has stopped the turbine, in whatever
\* order the two programs and the link take their turns.
StopsInTime == Active(counter) /\ counter >= 4 => ~turbine

\* An engaged e-stop is held for the whole window, whatever the switch does, and
\* a new one starts only from a counter that was back at 0: a switch that was
\* not let go for a tick after the window does not engage it again.
StopWindow ==
  [][/\ led /\ ~led' => counter' = Limit
     /\ ~led /\ led' => counter = 0 /\ switch]_vars

\* The e-stop is temporary even for a switch held down for ever: once the IED's
\* own tag stays clear and no new e-stop begins, the turbine runs for good.
RunsAgain == <>[]~estop /\ <>[][~led => ~led']_vars => <>[]turbine

\* A zone shown Down returns to Normal once the IED's tag stays clear.
ShownAgain == <>[]~estop => <>[](zone2 = "Normal")

-----------------------------------------------------------------------------
\* docs/ADMIN.md: once the e-stop is triggered at the RTU's switch, the helper
\* logs "turbine stopped" and zone2 flips.  The helper asks for the IED's estop
\* tag, which the RTU's e-stop never sets.
EStopShown == []~estop => (led ~> zone2 = "Down")
=============================================================================
