------------------------ MODULE BhIntellirupterProofs ------------------------
(***************************************************************************)
(* bh-intellirupter as a whole is a behaviour of its protection program:   *)
(* RTU, HMI, broker and panel are Modbus clients to it, for every number   *)
(* of lives, every backlog, preset and quiet time.                         *)
(***************************************************************************)
EXTENDS BhIntellirupter, TLAPS

\* Whoever changes nothing of the program but the coil Fault is a Modbus client.
LEMMA CoilWrite ==
  ASSUME Fault' \in BOOLEAN, UNCHANGED plcRest
  PROVE  PLC!Next
  <1>1. PLC!ClientWrite("Fault", Fault')
    BY WritableAssumption DEF PLC!ClientWrite, PLC!inputs, PLC!blocks, plcRest
  <1>2. QED
    BY <1>1, WritableAssumption DEF PLC!Next

\* Whoever changes nothing of it at all stutters.
LEMMA NoWrite ==
  ASSUME Fault' = Fault, UNCHANGED plcRest
  PROVE  UNCHANGED PLC!vars
  BY DEF PLC!vars, PLC!inputs, PLC!blocks, plcRest

\* The RTU's own steps: a raise and a release write the coil or leave it as it was,
\* the others leave it alone.
LEMMA RtuStepOK ==
  ASSUME RtuRuns
  PROVE  PLC!Next \/ UNCHANGED PLC!vars
  <1>1. CASE Connect \/ Sense \/ Hear
    <2>1. Fault' = Fault
      BY <1>1 DEF Connect, Sense, Hear, LoopOnly, Loop!RtuConnectData, Loop!RtuConnectSpeaker,
                  Loop!RtuSend, Loop!RtuHear
    <2>2. UNCHANGED plcRest
      BY <1>1 DEF Connect, Sense, Hear, LoopOnly
    <2>3. QED
      BY <2>1, <2>2, NoWrite
  <1>2. CASE PassOver
    <2>1. Fault' = Fault /\ UNCHANGED plcRest
      BY <1>2 DEF PassOver, Loop!RtuAct
    <2>2. QED
      BY <2>1, NoWrite
  <1>3. CASE Raise \/ Release
    <2>1. Fault' \in {TRUE, FALSE, Fault} /\ UNCHANGED plcRest
      BY <1>3 DEF Raise, Release, Loop!RtuAct, Loop!RtuRelease, Loop!WriteCoil
    <2>2. QED
      BY <2>1, CoilWrite, NoWrite
  <1>4. QED
    BY <1>1, <1>2, <1>3 DEF RtuRuns

\* The RTU's publications, its ends and restarts, the HMI and the broker leave the
\* program alone.
LEMMA AsideOK ==
  ASSUME Publish \/ PublishSkipped \/ End \/ Restart \/ Hmi \/ MqttLost \/ MqttBack
  PROVE  UNCHANGED PLC!vars
  <1>1. UNCHANGED plcRest
    BY DEF Publish, PublishSkipped, End, Restart, Hmi, LoopOnly, MqttLost, MqttBack
  <1>2. Fault' = Fault
    <2>1. CASE Hmi
      BY <2>1 DEF Hmi, LoopOnly, Loop!HmiStep, Loop!HmiListenData, Loop!HmiListenSpeaker,
                  Loop!HmiAcceptData, Loop!HmiAcceptSpeaker, Loop!HmiReply, Loop!HmiHangUp,
                  Loop!rtuVars
    <2>2. CASE End \/ Restart
      BY <2>2 DEF End, Restart, Loop!RtuEnd, Loop!RtuRestart
    <2>3. QED
      BY <2>1, <2>2 DEF Publish, PublishSkipped, MqttLost, MqttBack
  <1>3. QED
    BY <1>1, <1>2, NoWrite

\* A step of the whole is a step of the program or leaves its variables alone.
LEMMA StepOK == [Next]_vars => PLC!Next \/ UNCHANGED PLC!vars
  <1>1. CASE Scan
    BY <1>1 DEF Scan, PLC!Next, PLC!Scan
  <1>2. ASSUME NEW c \in Writable, NEW b \in BOOLEAN, Panel(c, b)
        PROVE  PLC!Next
    BY <1>2 DEF Panel, PLC!Next
  <1>3. CASE UNCHANGED vars
    <2>1. Fault' = Fault /\ UNCHANGED plcRest
      BY <1>3 DEF vars
    <2>2. QED
      BY <2>1, NoWrite
  <1>4. CASE RtuRuns
    BY <1>4, RtuStepOK
  <1>5. CASE Publish \/ PublishSkipped \/ End \/ Restart \/ Hmi \/ MqttLost \/ MqttBack
    BY <1>5, AsideOK
  <1>6. QED
    BY <1>1, <1>2, <1>3, <1>4, <1>5 DEF Next

\* The composition implements the protection program: whatever RTU, HMI, broker
\* and panel do, the coils change by scans and by single writes of a client, so
\* what TurbinePLCProofs shows of the program holds in the whole.
THEOREM ProgramHolds == Spec => ImplementsPLC
  <1>1. Init => PLC!Init
    BY DEF Init
  <1>2. [Next]_vars => [PLC!Next]_(PLC!vars)
    BY StepOK
  <1>3. QED
    BY <1>1, <1>2, PTL DEF Spec, ImplementsPLC, PLC!Spec

-----------------------------------------------------------------------------
(* Counted once.  A step of a life is one of few, named here for the case    *)
(* splits below.                                                             *)

Before  == Connect \/ Sense \/ Hear     \* up to the verdict
Outside == Hmi \/ MqttLost \/ MqttBack

\* What the program keeps: the word mirrors the counter, the counter has seen an edge
\* only if the edge detector has, and a fault that was seen has stopped the turbine.
Kept ==
  /\ Fault \in BOOLEAN /\ Reset \in BOOLEAN /\ R_TRIG1 \in BOOLEAN /\ Turbine \in BOOLEAN
  /\ Teleruptor \in 0..PV
  /\ CTU0.cv = Teleruptor
  /\ CTU0.cu => R_TRIG1
  /\ R_TRIG1 => ~Turbine

\* The RTU publishes before it senses again, and sleeps before that.
Sleeps ==
  /\ nap \in 0..NapScans /\ pub \in BOOLEAN /\ touched \in BOOLEAN
  /\ pub => pc = "sense"
  /\ pc \in {"listen", "act"} => nap = 0

\* Between two pulses coil 1 keeps the level the last one left, and once a scan has
\* fallen into a sleep the edge detector has seen it.
Level ==
  ~touched /\ pc \notin {"pulse", "ended"} /\ ~pub /\ nap < NapScans => (R_TRIG1 <=> Fault)

\* A pulse before its first scan.
Unseen == nap = NapScans /\ (R_TRIG1 => Fault) /\ owed = Expected(Fault /\ ~R_TRIG1)

\* A pulse with coil 1 raised after its first scan, and after its second: a clear that
\* was due takes effect in one of the two.
Seen    == nap = NapScans - 1 /\ owed = IF Reset THEN 0 ELSE Teleruptor
Settled == nap < NapScans - 1 /\ ~Reset /\ owed = Teleruptor
High    == Fault /\ R_TRIG1 /\ Ttime = 0 /\ (Seen \/ Settled)

\* A pulse whose raise was lost: nothing is counted, but a clear may come at any time.
Low ==
  /\ ~Fault /\ ~R_TRIG1
  /\ nap < NapScans
  /\ Teleruptor \in {0, owed} \/ (nap = NapScans - 1 /\ Reset)

Pulse == ~touched /\ pc = "pulse" => Unseen \/ High \/ Low

CInv == Kept /\ Sleeps /\ Level /\ Pulse

\* What a scan does to the variables of the invariant.
LEMMA ScanEffect ==
  ASSUME CInv, Scan
  PROVE  /\ Fault' = Fault /\ R_TRIG1' = Fault
         /\ Reset' \in BOOLEAN /\ (Reset' <=> Ttime = PT)
         /\ Teleruptor' = IF Reset THEN 0
                          ELSE IF Fault /\ ~R_TRIG1 /\ Teleruptor < PV THEN Teleruptor + 1
                          ELSE Teleruptor
         /\ CTU0'.cv = Teleruptor' /\ (CTU0'.cu => Fault)
         /\ Fault => Ttime' = 0
         /\ nap' = IF nap > 0 THEN nap - 1 ELSE 0
         /\ Turbine' \in BOOLEAN /\ (Fault => ~Turbine')
         /\ UNCHANGED <<pc, pub, owed, cause, touched>>
  <1> PICK v \in BOOLEAN : PLC!ScanCycle(v, v)
    BY DEF Scan
  <1>1. /\ Fault' = Fault /\ R_TRIG1' = Fault /\ Reset' = (Ttime = PT)
        /\ CTU0' = PLC!CountUp(CTU0, Fault /\ ~R_TRIG1, Reset)
        /\ TOF0' = PLC!OffDelay(TOF0, Fault)
        /\ Teleruptor' = CTU0'.cv /\ Ttime' = TOF0'.et
    BY DEF PLC!ScanCycle, PLC!ResetOnPreset, PLC!Keep
  <1>2. /\ CTU0'.cv = PLC!Count(CTU0, Fault /\ ~R_TRIG1, Reset)
        /\ CTU0'.cu = (Fault /\ ~R_TRIG1)
    BY <1>1 DEF PLC!CountUp
  <1>5. PLC!Count(CTU0, Fault /\ ~R_TRIG1, Reset) =
          IF Reset THEN 0
          ELSE IF Fault /\ ~R_TRIG1 /\ Teleruptor < PV THEN Teleruptor + 1 ELSE Teleruptor
    BY DEF PLC!Count, CInv, Kept
  <1>3. Fault => TOF0'.et = 0
    BY <1>1 DEF PLC!OffDelay, PLC!OffDelayTime
  <1>4. /\ nap' = IF nap > 0 THEN nap - 1 ELSE 0
        /\ UNCHANGED <<pc, pub, owed, cause, touched>>
    BY DEF Scan, loopRest
  <1>6. Reset' \in BOOLEAN /\ (Reset' <=> Ttime = PT)
    BY <1>1, Zenon
  <1>7. CTU0'.cu => Fault
    BY <1>2, Zenon
  <1>8. Turbine' \in BOOLEAN /\ (Fault => ~Turbine')
    <2>1. Turbine' = (~Fault /\ v)
      BY DEF PLC!ScanCycle
    <2>2. QED
      BY <2>1, Zenon
  <1>9. QED
    BY <1>1, <1>2, <1>3, <1>4, <1>5, <1>6, <1>7, <1>8

LEMMA ScanKeeps == CInv /\ Scan => CInv'
  <1> SUFFICES ASSUME CInv, Scan PROVE CInv'
    OBVIOUS
  <1>1. Kept'
    BY ScanEffect, PresetAssumption DEF CInv, Kept
  <1>2. Sleeps'
    BY ScanEffect, NapAssumption DEF CInv, Sleeps
  <1>3. Level'
    BY ScanEffect DEF CInv, Kept, Level
  <1>4. ASSUME ~touched, pc = "pulse" PROVE High' \/ Low'
    <2>1. /\ R_TRIG1' <=> Fault
          /\ Fault' = Fault /\ owed' = owed
          /\ Reset' <=> Ttime = PT
          /\ Teleruptor' = IF Reset THEN 0
                           ELSE IF Fault /\ ~R_TRIG1 /\ Teleruptor < PV THEN Teleruptor + 1
                           ELSE Teleruptor
          /\ Fault => Ttime' = 0
          /\ nap \in 0..NapScans /\ nap' = IF nap > 0 THEN nap - 1 ELSE 0
      BY <1>4, ScanEffect DEF CInv, Sleeps
    <2>2. CASE Unseen
      <3>1. nap' = NapScans - 1
        BY <2>1, <2>2, NapAssumption DEF Unseen
      <3>2. owed = IF Reset \/ Ttime = PT THEN 0
                   ELSE IF Fault /\ ~R_TRIG1 /\ Teleruptor < PV THEN Teleruptor + 1
                   ELSE Teleruptor
        BY <2>2 DEF Unseen, Expected, Due
      <3>3. owed = IF Reset' THEN 0 ELSE Teleruptor'
        BY <2>1, <3>2
      <3>4. CASE Fault
        BY <2>1, <3>1, <3>3, <3>4 DEF High, Seen
      <3>5. CASE ~Fault
        BY <2>1, <3>1, <3>3, <3>5, NapAssumption DEF Low
      <3>6. QED
        BY <3>4, <3>5
    <2>3. CASE High
      <3>1. nap' < NapScans - 1
        BY <2>1, <2>3, NapAssumption DEF High, Seen, Settled
      <3>2. ~Reset'
        BY <2>1, <2>3, PresetAssumption DEF High
      <3>3. owed = Teleruptor'
        BY <2>1, <2>3 DEF High, Seen, Settled
      <3>4. QED
        BY <2>1, <2>3, <3>1, <3>2, <3>3 DEF High, Settled
    <2>4. CASE Low
      <3>1. nap' < NapScans - 1
        BY <2>1, <2>4, NapAssumption DEF Low
      <3>2. Teleruptor' \in {0, owed}
        BY <2>1, <2>4 DEF Low, CInv, Kept
      <3>3. QED
        BY <2>1, <2>4, <3>1, <3>2, NapAssumption DEF Low
    <2>5. QED
      BY <1>4, <2>2, <2>3, <2>4 DEF CInv, Pulse
  <1>5. Pulse'
    BY <1>4, ScanEffect DEF Pulse
  <1>6. QED
    BY <1>1, <1>2, <1>3, <1>5 DEF CInv

\* The steps of the RTU.
LEMMA RaiseKeeps == CInv /\ Raise => CInv'
  <1> SUFFICES ASSUME CInv, Raise PROVE CInv'
    OBVIOUS
  <1>1. /\ pc = "act" /\ pc' = "pulse" /\ nap' = NapScans
        /\ Fault' \in BOOLEAN /\ (Fault => Fault')
        /\ owed' = Expected(~Fault /\ Fault')
        /\ UNCHANGED <<Reset, Teleruptor, Ttime, R_TRIG1, CTU0, Turbine, pub, touched>>
    BY DEF Raise, Loop!RtuAct, Loop!WriteCoil, plcRest, CInv, Kept
  <1>2. Kept' /\ Sleeps' /\ Level'
    BY <1>1, NapAssumption DEF CInv, Kept, Sleeps, Level
  <1>3. ASSUME ~touched PROVE Unseen'
    <2>1. R_TRIG1 <=> Fault
      BY <1>1, <1>3, NapAssumption DEF CInv, Sleeps, Level
    <2>2. /\ R_TRIG1' => Fault'
          /\ (~Fault /\ Fault') <=> (Fault' /\ ~R_TRIG1')
      BY <1>1, <2>1
    <2>3. owed' = Expected(Fault /\ ~R_TRIG1)'
      BY <1>1, <2>2 DEF Expected, Due
    <2>4. QED
      BY <1>1, <2>2, <2>3 DEF Unseen
  <1>4. Pulse'
    BY <1>1, <1>3 DEF Pulse
  <1>5. QED
    BY <1>2, <1>4 DEF CInv

LEMMA RtuKeeps ==
  CInv /\ (Before \/ PassOver \/ Release \/ Publish \/ PublishSkipped \/ End \/ Restart) => CInv'
  <1> SUFFICES ASSUME CInv,
                      Before \/ PassOver \/ Release \/ Publish \/ PublishSkipped \/ End \/ Restart
               PROVE  CInv'
    OBVIOUS
  <1>1. CASE Before
    <2>1. /\ UNCHANGED <<Fault, Reset, Teleruptor, R_TRIG1, CTU0, Turbine, nap, pub, touched>>
          /\ pc # "pulse" /\ pc' # "pulse" /\ pc # "ended" /\ pc' # "ended"
          /\ pub => pc' = "sense"
          /\ pc' \in {"listen", "act"} => nap = 0
      BY <1>1 DEF Before, Connect, Sense, Hear, LoopOnly, plcRest, ownVars, CInv, Sleeps,
                  Loop!RtuConnectData, Loop!RtuConnectSpeaker, Loop!RtuSend, Loop!RtuHear
    <2>2. QED
      BY <2>1 DEF CInv, Kept, Sleeps, Level, Pulse
  <1>2. CASE PassOver
    <2>1. /\ UNCHANGED <<Reset, Teleruptor, R_TRIG1, CTU0, Turbine, nap, touched>>
          /\ Fault' = Fault
          /\ pc = "act" /\ pc' = "sense" /\ pub' = TRUE
      BY <1>2 DEF PassOver, Loop!RtuAct, plcRest, CInv, Kept
    <2>2. QED
      BY <2>1 DEF CInv, Kept, Sleeps, Level, Pulse
  <1>3. CASE Release
    <2>1. /\ UNCHANGED <<Reset, Teleruptor, R_TRIG1, CTU0, Turbine, nap>>
          /\ Fault' \in BOOLEAN /\ touched' \in BOOLEAN
          /\ pc' = "sense" /\ pub' = TRUE
      BY <1>3 DEF Release, PulseOver, Loop!RtuRelease, Loop!WriteCoil, plcRest, CInv, Kept
    <2>2. QED
      BY <2>1 DEF CInv, Kept, Sleeps, Level, Pulse
  <1>4. CASE Publish \/ PublishSkipped
    <2>1. /\ UNCHANGED <<Fault, Reset, Teleruptor, R_TRIG1, CTU0, Turbine, touched, pc>>
          /\ pub /\ pub' = FALSE /\ nap' = NapScans
      BY <1>4 DEF Publish, PublishSkipped, plcRest, loopRest
    <2>2. /\ pc = "sense" /\ pc' = "sense"
          /\ pub' \in BOOLEAN /\ ~pub'
      BY <2>1 DEF CInv, Sleeps
    <2>3. Sleeps'
      BY <2>1, <2>2, NapAssumption DEF CInv, Sleeps
    <2>4. Kept' /\ Level' /\ Pulse'
      BY <2>1, <2>2, NapAssumption DEF CInv, Kept, Level, Pulse
    <2>5. QED
      BY <2>3, <2>4 DEF CInv
  <1>5. CASE End
    <2>1. /\ UNCHANGED <<Fault, Reset, Teleruptor, R_TRIG1, CTU0, Turbine>>
          /\ pc' = "ended" /\ pub' = FALSE /\ nap' = 0
          /\ touched' = touched
      BY <1>5 DEF End, Loop!RtuEnd, plcRest
    <2>2. pub' \in BOOLEAN /\ ~pub'
      BY <2>1
    <2>3. Sleeps'
      BY <2>1, <2>2, NapAssumption DEF CInv, Sleeps
    <2>4. Kept' /\ Level' /\ Pulse'
      BY <2>1, <2>2 DEF CInv, Kept, Level, Pulse
    <2>5. QED
      BY <2>3, <2>4 DEF CInv
  <1>6. CASE Restart
    <2>1. /\ UNCHANGED <<Fault, Reset, Teleruptor, R_TRIG1, CTU0, Turbine, pub, touched>>
          /\ pc = "ended" /\ pc' = "connectData" /\ nap' = NapScans
      BY <1>6 DEF Restart, Loop!RtuRestart, plcRest
    <2>2. QED
      BY <2>1, NapAssumption DEF CInv, Kept, Sleeps, Level, Pulse
  <1>7. QED
    BY <1>1, <1>2, <1>3, <1>4, <1>5, <1>6

LEMMA OthersKeep ==
  /\ CInv /\ Outside => CInv'
  /\ \A c \in Writable, b \in BOOLEAN : CInv /\ Panel(c, b) => CInv'
  /\ CInv /\ UNCHANGED vars => CInv'
  <1>1. ASSUME CInv, UNCHANGED <<Fault, Reset, Teleruptor, Ttime, R_TRIG1, CTU0, Turbine, pc, nap, pub,
                                 owed, touched>>
        PROVE  CInv'
    BY <1>1 DEF CInv, Kept, Sleeps, Level, Pulse, Unseen, High, Seen, Settled, Low,
                Expected, Due
  <1>2. ASSUME Outside
        PROVE  UNCHANGED <<Fault, Reset, Teleruptor, Ttime, R_TRIG1, CTU0, Turbine, pc, nap, pub, owed,
                           touched>>
    BY <1>2 DEF Outside, Hmi, LoopOnly, MqttLost, MqttBack, plcRest, loopRest, ownVars,
                Loop!HmiStep, Loop!HmiListenData, Loop!HmiListenSpeaker, Loop!HmiAcceptData,
                Loop!HmiAcceptSpeaker, Loop!HmiReply, Loop!HmiHangUp, Loop!rtuVars
  <1>3. ASSUME CInv, NEW c \in Writable, NEW b \in BOOLEAN, Panel(c, b)
        PROVE  CInv'
    <2>1. /\ UNCHANGED <<Teleruptor, R_TRIG1, CTU0, Turbine, pc, nap, pub>>
          /\ touched' = TRUE
          /\ Fault' \in BOOLEAN /\ Reset' \in BOOLEAN
      BY <1>3 DEF Panel, PLC!ClientWrite, PLC!blocks, loopRest, CInv, Kept
    <2>2. QED
      BY <1>3, <2>1 DEF CInv, Kept, Sleeps, Level, Pulse
  <1>4. UNCHANGED vars => UNCHANGED <<Fault, Reset, Teleruptor, Ttime, R_TRIG1, CTU0, Turbine, pc, nap,
                                      pub, owed, touched>>
    BY DEF vars, plcRest, loopRest, ownVars
  <1>5. QED
    BY <1>1, <1>2, <1>3, <1>4

LEMMA Counting == Spec => []CInv
  <1>1. Init => CInv
    <2> SUFFICES ASSUME Init PROVE CInv
      OBVIOUS
    <2>1. /\ ~Fault /\ Fault \in BOOLEAN /\ Reset \in BOOLEAN
          /\ R_TRIG1 \in BOOLEAN /\ ~R_TRIG1 /\ Turbine \in BOOLEAN
          /\ Teleruptor = 0 /\ CTU0.cv = 0 /\ ~CTU0.cu
      BY DEF Init, PLC!Init
    <2>2. /\ pc = "connectData" /\ nap = 0
          /\ pub \in BOOLEAN /\ touched \in BOOLEAN /\ ~pub /\ ~touched
      BY DEF Init, Loop!Init
    <2>3. QED
      BY <2>1, <2>2, PresetAssumption, NapAssumption DEF CInv, Kept, Sleeps, Level, Pulse
  <1>2. CInv /\ [Next]_vars => CInv'
    BY ScanKeeps, RaiseKeeps, RtuKeeps, OthersKeep DEF Next, RtuRuns, Before, Outside
  <1>3. QED
    BY <1>1, <1>2, PTL DEF Spec

\* A pulse that ends has been counted once if it raised coil 1, unless a clear was due,
\* and not at all if it did not: the RTU's sleeps are long enough for the program to see
\* each edge, and writes that fail unnoticed make none.
THEOREM PulseCounts == Spec => CountedOnce
  <1>1. CInv /\ [Next]_vars =>
          [pc = "pulse" /\ pc' = "sense" /\ ~touched
             => Teleruptor = owed \/ (~Fault /\ Teleruptor = 0)]_vars
    <2> SUFFICES ASSUME CInv, Next, pc = "pulse", pc' = "sense", ~touched
                 PROVE  Teleruptor = owed \/ (~Fault /\ Teleruptor = 0)
      OBVIOUS
    <2>1. CASE Release
      BY <2>1, NapAssumption DEF Release, CInv, Pulse, Unseen, High, Seen, Settled, Low
    <2>2. CASE RtuRuns /\ ~Release
      BY <2>2 DEF RtuRuns, Connect, Sense, Hear, LoopOnly, Raise, PassOver, Loop!RtuAct,
                  Loop!RtuConnectData, Loop!RtuConnectSpeaker, Loop!RtuSend, Loop!RtuHear
    <2>3. CASE End \/ Restart
      BY <2>3 DEF End, Restart, Loop!RtuEnd, Loop!RtuRestart
    <2>4. CASE Scan \/ Publish \/ PublishSkipped \/ MqttLost \/ MqttBack
      BY <2>4 DEF Scan, Publish, PublishSkipped, MqttLost, MqttBack, loopRest
    <2>5. CASE Hmi
      BY <2>5 DEF Hmi, LoopOnly, Loop!HmiStep, Loop!HmiListenData, Loop!HmiListenSpeaker,
                  Loop!HmiAcceptData, Loop!HmiAcceptSpeaker, Loop!HmiReply, Loop!HmiHangUp,
                  Loop!rtuVars
    <2>6. CASE \E c \in Writable, b \in BOOLEAN : Panel(c, b)
      BY <2>6 DEF Panel, loopRest
    <2>7. QED
      BY <2>1, <2>2, <2>3, <2>4, <2>5, <2>6 DEF Next
  <1>2. QED
    BY <1>1, Counting, PTL DEF Spec, CountedOnce
=============================================================================
