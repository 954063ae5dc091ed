--------------------------- MODULE BhIntellirupter ---------------------------
(***************************************************************************)
(* bh-intellirupter as a whole: the control loop of RTU and HMI            *)
(* (FaultLoop), the protection program (TurbinePLC), the operator panel    *)
(* that writes the same coils, and the RTU's publication of zone5.  Coil 1 *)
(* of the loop is the program's Fault.                                     *)
(*                                                                         *)
(* The RTU's sleeps (0.2 s in a pulse, 0.5 s between two readings) are     *)
(* counted in scans of the PLC (20 ms): NapScans are sure to fall into one *)
(* that has not been cut short.                                            *)
(***************************************************************************)
EXTENDS Integers

CONSTANTS PV, PT, Writable,               \* see TurbinePLC
          MaxLives, MaxStarts, Backlog,   \* see FaultLoop
          NapScans

ASSUME PresetAssumption == PV \in Nat \ {0} /\ PT \in Nat \ {0}
ASSUME WritableAssumption == "Fault" \in Writable /\ Writable \subseteq {"Trip", "Fault", "Reset"}
ASSUME LoopAssumption ==
  MaxLives \in Nat \ {0} /\ MaxStarts \in Nat \ {0} /\ Backlog \in Nat \ {0}
ASSUME NapAssumption == NapScans \in Nat \ {0, 1}

VARIABLES
  VoltageChk, Sensor, Turbine, Trip, Fault, FaultLight, Reset, Teleruptor, Ttime,
  R_TRIG1, CTU0, TOF0,                        \* TurbinePLC
  pc, life, value, heard, hpc, starts, hd, hs, dq, sq, readings, verdicts,
  dclosed, sclosed, cut,                      \* FaultLoop
  nap,      \* scans still to fall into the sleep the RTU is in
  pub,      \* the RTU is about to publish zone5
  mqtt,     \* its connection to the broker: "off" until the next life, "lost", "on"
  zone5,    \* what it published last
  owed,     \* history: the count the pulse under way must lead to
  cause,    \* history: the reading the RTU raised coil 1 for, until it releases it
  touched   \* history: the panel wrote, and no pulse has left coil 1 clear since

PLC  == INSTANCE TurbinePLC
Loop == INSTANCE FaultLoop WITH coil <- Fault

ownVars == <<nap, pub, mqtt, zone5, owed, cause, touched>>
\* What a step that touches nothing else of the PLC, or of the loop, leaves alone.
plcRest  == <<VoltageChk, Sensor, Turbine, Trip, FaultLight, Reset, Teleruptor, Ttime,
              R_TRIG1, CTU0, TOF0>>
loopRest == <<pc, life, value, heard, hpc, starts, hd, hs, dq, sq, readings, verdicts,
              dclosed, sclosed, cut>>

vars == <<plcRest, loopRest, Fault, ownVars>>

TypeOK ==
  /\ PLC!TypeOK /\ Loop!TypeOK
  /\ nap \in 0..NapScans
  /\ pub \in BOOLEAN
  /\ mqtt \in {"off", "lost", "on"}
  /\ zone5 \in {"none", "normal", "down"}
  /\ owed \in 0..PV
  /\ cause \in {"none", "in", "out"}
  /\ touched \in BOOLEAN

\* The broker is reached when the process starts, or not in this life: only a
\* connect that succeeded starts the thread that would connect again.
MqttStart == {"off", "on"}

Init ==
  /\ PLC!Init /\ Loop!Init
  /\ nap = 0 /\ pub = FALSE
  /\ mqtt \in MqttStart
  /\ zone5 = "none"
  /\ owed = 0 /\ cause = "none" /\ touched = FALSE

-----------------------------------------------------------------------------
(* The RTU: the steps of FaultLoop, the sleeps and the publication.         *)

LoopOnly(A) == A /\ UNCHANGED <<plcRest, ownVars>>

Connect == LoopOnly(Loop!RtuConnectData \/ Loop!RtuConnectSpeaker)
Sense   == nap = 0 /\ ~pub /\ LoopOnly(Loop!RtuSend)
Hear    == LoopOnly(Loop!RtuHear)

\* A clear that is due when the pulse begins swallows it (see TurbinePLC); without an
\* edge there is nothing to count.
Due == Reset \/ Ttime = PT
Expected(edge) ==
  IF Due THEN 0 ELSE IF edge /\ Teleruptor < PV THEN Teleruptor + 1 ELSE Teleruptor

RaiseBoth ==   \* mutant: writes coils 0 and 1
  /\ heard = "fault" /\ Loop!RtuAct
  /\ Trip' = TRUE
  /\ nap' = NapScans
  /\ owed' = Expected(~Fault /\ Fault') /\ cause' = value
  /\ UNCHANGED <<VoltageChk, Sensor, Turbine, FaultLight, Reset, Teleruptor, Ttime,
                 R_TRIG1, CTU0, TOF0, pub, mqtt, zone5, touched>>

\* The edge is there if the write took effect on a coil that was clear.
Raise ==
  /\ heard = "fault" /\ Loop!RtuAct
  /\ nap' = NapScans
  /\ owed' = Expected(~Fault /\ Fault') /\ cause' = value
  /\ UNCHANGED <<plcRest, pub, mqtt, zone5, touched>>

PassOver ==
  /\ heard # "fault" /\ Loop!RtuAct
  /\ pub' = TRUE
  /\ UNCHANGED <<plcRest, nap, mqtt, zone5, owed, cause, touched>>

\* The pulse is over for the RTU, whether or not coil 1 was taken back.
PulseOver ==
  /\ pub' = TRUE /\ owed' = 0 /\ cause' = "none"
  /\ touched' = (touched /\ Fault')

ReleaseAtOnce ==   \* mutant: no sleep between the two writes
  /\ Loop!RtuRelease
  /\ PulseOver /\ nap' = 0
  /\ UNCHANGED <<plcRest, mqtt, zone5>>

Release ==
  /\ nap = 0 /\ Loop!RtuRelease
  /\ PulseOver
  /\ UNCHANGED <<plcRest, nap, mqtt, zone5>>

ZoneInverted == IF Turbine THEN "down" ELSE "normal"   \* mutant
Zone == IF Turbine THEN "normal" ELSE "down"

PublishAndGoOn ==   \* mutant: the loop does not sleep
  /\ pub
  /\ zone5' = IF mqtt = "on" THEN Zone ELSE zone5
  /\ pub' = FALSE /\ nap' = 0
  /\ UNCHANGED <<plcRest, loopRest, Fault, mqtt, owed, cause, touched>>

\* The Turbine coil is read, right after a release or a scan later, and published;
\* without a connection the message is dropped.  Then the loop sleeps.
Publish ==
  /\ pub
  /\ zone5' = IF mqtt = "on" THEN Zone ELSE zone5
  /\ pub' = FALSE /\ nap' = NapScans
  /\ UNCHANGED <<plcRest, loopRest, Fault, mqtt, owed, cause, touched>>

\* The PLC answers the read with an error.
PublishSkipped ==
  /\ pub
  /\ pub' = FALSE /\ nap' = NapScans
  /\ UNCHANGED <<plcRest, loopRest, Fault, mqtt, zone5, owed, cause, touched>>

\* The process ends anywhere, also in a pulse: coil 1 stays as it is.
End ==
  /\ Loop!RtuEnd
  /\ nap' = 0 /\ pub' = FALSE /\ mqtt' = "off" /\ owed' = 0
  /\ UNCHANGED <<plcRest, zone5, cause, touched>>

\* A new container takes longer than a sleep.
Restart ==
  /\ Loop!RtuRestart
  /\ mqtt' \in MqttStart
  /\ nap' = NapScans
  /\ UNCHANGED <<plcRest, pub, zone5, owed, cause, touched>>

-----------------------------------------------------------------------------
(* The others                                                               *)

Hmi == LoopOnly(Loop!HmiStep)   \* its ends are FaultLoop's subject

\* What the inputs read does not matter beyond the voltage: the program puts
\* Sensor into an input that the next scan refreshes.
Scan ==
  /\ \E v \in BOOLEAN : PLC!ScanCycle(v, v)
  /\ nap' = IF nap > 0 THEN nap - 1 ELSE 0
  /\ UNCHANGED <<loopRest, pub, mqtt, zone5, owed, cause, touched>>

Panel(c, b) ==
  /\ PLC!ClientWrite(c, b)
  /\ touched' = TRUE
  /\ UNCHANGED <<loopRest, nap, pub, mqtt, zone5, owed, cause>>

MqttLost ==
  /\ mqtt = "on" /\ mqtt' = "lost"
  /\ UNCHANGED <<plcRest, loopRest, Fault, nap, pub, zone5, owed, cause, touched>>

MqttBack ==
  /\ mqtt = "lost" /\ mqtt' = "on"
  /\ UNCHANGED <<plcRest, loopRest, Fault, nap, pub, zone5, owed, cause, touched>>

RtuRuns == Connect \/ Sense \/ Hear \/ Raise \/ PassOver \/ Release

Next ==
  \/ RtuRuns \/ Publish \/ PublishSkipped \/ End \/ Restart
  \/ Hmi \/ Scan
  \/ \E c \in Writable, b \in BOOLEAN : Panel(c, b)
  \/ MqttLost \/ MqttBack

Spec == Init /\ [][Next]_vars

\* All programs run on, reads of the Turbine coil do not fail for ever, compose
\* restarts the RTU and the MQTT thread reconnects.
FairSpec ==
  /\ Spec
  /\ WF_vars(RtuRuns) /\ SF_vars(Publish) /\ WF_vars(Restart)
  /\ WF_vars(Hmi) /\ WF_vars(Scan) /\ WF_vars(MqttBack)

-----------------------------------------------------------------------------
\* The RTU and the panel are Modbus clients like any others to the program, so
\* what is shown of TurbinePLC holds of the whole.
ImplementsPLC == PLC!Spec

\* When a pulse ends, its fault has been counted exactly once if it raised coil 1,
\* and not at all if the write was lost or the coil was still raised, by a release
\* that failed or a life that ended in its pulse.  A clear that was due swallows it,
\* and while the coil is clear the quiet time may run out.
CountedOnce ==
  [][pc = "pulse" /\ pc' = "sense" /\ ~touched
       => Teleruptor = owed \/ (~Fault /\ Teleruptor = 0)]_vars

\* From the sensor to the generator: a fault is counted, or the turbine stopped while
\* there is voltage, only by a raise for a reading outside the band that has not been
\* released: a release that failed counts nothing again.
StopsForCause ==
  [][(Teleruptor' > Teleruptor \/ (Turbine /\ ~Turbine' /\ VoltageChk')) /\ ~cut /\ ~touched
       => cause = "out"]_vars

\* Between two faults the turbine runs, however often a raise or a release fails: if
\* coil 1 is found clear outside of a pulse again and again, the loop's sleep lets a
\* scan see it clear before the next reading.
PanelQuiet == ~\E c \in Writable, b \in BOOLEAN : Panel(c, b)
RunsBetweenFaults ==
  <>[]VoltageChk /\ <>[][PanelQuiet]_vars /\ []<>(pc # "pulse" /\ ~Fault) => []<>Turbine

\* Once the Turbine coil keeps its value, the board is told it for good: if the
\* broker was there when the life began, its connection lasts at last, and the HMI
\* answers, for zone5 is published only after a verdict.
ZoneFollows ==
  <>[](mqtt = "on" /\ ~cut) /\ (<>[]Turbine \/ <>[]~Turbine) =>
    <>[](zone5 = IF Turbine THEN "normal" ELSE "down")
=============================================================================
