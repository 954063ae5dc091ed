------------------------- MODULE BhCompositionProofs -------------------------
(***************************************************************************)
(* What the parts of bh-intellirupter promise, in the whole.  RTU and HMI  *)
(* share coil 1 with the protection program and the panel, which change it *)
(* behind their backs; the invariants of FaultLoop do not depend on it.    *)
(***************************************************************************)
EXTENDS BhIntellirupterProofs

\* The proofs of the parts, with coil 1 for the loop's coil.
LP == INSTANCE FaultLoopProofs WITH coil <- Fault
PP == INSTANCE TurbinePLCProofs

LEMMA PartAssumptions ==
  /\ LP!LivesAssumption /\ LP!BacklogAssumption
  /\ PP!PVAssumption /\ PP!PTAssumption /\ PP!WritableAssumption
  BY PresetAssumption, WritableAssumption, LoopAssumption
  DEF LP!LivesAssumption, LP!BacklogAssumption, PP!PVAssumption, PP!PTAssumption,
      PP!WritableAssumption

\* The instances name the same things.
LEMMA SameRtu ==
  /\ Loop!RtuConnectData \/ Loop!RtuConnectSpeaker => LP!RtuStep
  /\ Loop!RtuSend \/ Loop!RtuHear \/ Loop!RtuAct \/ Loop!RtuRelease => LP!RtuStep
  /\ Loop!RtuEnd => LP!RtuEnd
  /\ Loop!RtuRestart => LP!RtuRestart
  <1> USE DEF Loop!hmiVars, LP!hmiVars, Loop!netVars, LP!netVars
  <1>1. Loop!RtuConnectData => LP!RtuConnectData
    BY DEF Loop!RtuConnectData, LP!RtuConnectData, Loop!ListensData, LP!ListensData
  <1>2. Loop!RtuConnectSpeaker => LP!RtuConnectSpeaker
    BY DEF Loop!RtuConnectSpeaker, LP!RtuConnectSpeaker, Loop!ListensSpeaker, LP!ListensSpeaker
  <1>3. Loop!RtuSend => LP!RtuSend
    BY DEF Loop!RtuSend, LP!RtuSend, Loop!Reading, LP!Reading
  <1>4. Loop!RtuHear => LP!RtuHear
    BY DEF Loop!RtuHear, LP!RtuHear, Loop!Garbled, LP!Garbled
  <1>5. (Loop!RtuAct => LP!RtuAct) /\ (Loop!RtuRelease => LP!RtuRelease)
    BY DEF Loop!RtuAct, LP!RtuAct, Loop!RtuRelease, LP!RtuRelease, Loop!WriteCoil, LP!WriteCoil
  <1>6. (Loop!RtuEnd => LP!RtuEnd) /\ (Loop!RtuRestart => LP!RtuRestart)
    BY DEF Loop!RtuEnd, LP!RtuEnd, Loop!RtuRestart, LP!RtuRestart
  <1>7. QED
    BY <1>1, <1>2, <1>3, <1>4, <1>5, <1>6 DEF LP!RtuStep

LEMMA SameHmi == Loop!HmiStep => LP!HmiStep
  <1> USE DEF Loop!hmiVars, LP!hmiVars, Loop!netVars, LP!netVars, Loop!rtuVars, LP!rtuVars,
              Loop!NoLife, LP!NoLife
  <1>1. Loop!HmiListenData \/ Loop!HmiListenSpeaker => LP!HmiListenData \/ LP!HmiListenSpeaker
    BY DEF Loop!HmiListenData, LP!HmiListenData, Loop!HmiListenSpeaker, LP!HmiListenSpeaker
  <1>2. Loop!HmiAcceptData => LP!HmiAcceptData
    BY DEF Loop!HmiAcceptData, LP!HmiAcceptData
  <1>3. Loop!HmiAcceptSpeaker => LP!HmiAcceptSpeaker
    BY DEF Loop!HmiAcceptSpeaker, LP!HmiAcceptSpeaker
  <1>4. Loop!HmiReply => LP!HmiReply
    BY DEF Loop!HmiReply, LP!HmiReply, Loop!RtuGone, LP!RtuGone, Loop!Judge, LP!Judge
  <1>5. Loop!HmiHangUp => LP!HmiHangUp
    BY DEF Loop!HmiHangUp, LP!HmiHangUp, Loop!RtuGone, LP!RtuGone
  <1>6. QED
    BY <1>1, <1>2, <1>3, <1>4, <1>5 DEF Loop!HmiStep, LP!HmiStep

LEMMA SamePlc ==
  /\ PLC!Init => PP!Init
  /\ PLC!Next \/ UNCHANGED PLC!vars => [PP!Next]_(PP!vars)
  /\ PLC!TypeOK <=> PP!TypeOK
  <1> USE DEF PLC!vars, PP!vars, PLC!inputs, PP!inputs, PLC!blocks, PP!blocks
  <1>1. ASSUME NEW v \in BOOLEAN, NEW s \in BOOLEAN, PLC!ScanCycle(v, s)
        PROVE  PP!ScanCycle(v, s)
    BY <1>1 DEF PLC!ScanCycle, PP!ScanCycle, PLC!CountUp, PP!CountUp, PLC!Count, PP!Count,
       PLC!OffDelay, PP!OffDelay, PLC!OffDelayPhase, PP!OffDelayPhase, PLC!OffDelayTime,
       PP!OffDelayTime, PLC!Elapsed, PP!Elapsed, PLC!ResetOnPreset, PP!ResetOnPreset,
       PLC!Keep, PP!Keep
  <1>2. ASSUME NEW c \in Writable, NEW b \in BOOLEAN, PLC!ClientWrite(c, b)
        PROVE  PP!ClientWrite(c, b)
    BY <1>2 DEF PLC!ClientWrite, PP!ClientWrite
  <1>3. PLC!Next \/ UNCHANGED PLC!vars => [PP!Next]_(PP!vars)
    BY <1>1, <1>2 DEF PLC!Next, PP!Next, PLC!Scan, PP!Scan
  <1>4. (PLC!Init => PP!Init) /\ (PLC!TypeOK <=> PP!TypeOK)
    BY DEF PLC!Init, PP!Init, PLC!TypeOK, PP!TypeOK
  <1>5. QED
    BY <1>3, <1>4

\* A step of the whole is one of the loop or leaves all of it alone but its coil.
LEMMA LoopStep == [Next]_vars => LP!Next \/ UNCHANGED loopRest
  <1>1. Connect \/ Sense \/ Hear \/ Raise \/ PassOver \/ Release => LP!RtuStep
    BY SameRtu DEF Connect, Sense, Hear, LoopOnly, Raise, PassOver, Release
  <1>2. (End => LP!RtuEnd) /\ (Restart => LP!RtuRestart)
    BY SameRtu DEF End, Restart
  <1>3. Hmi => LP!HmiStep
    BY SameHmi DEF Hmi, LoopOnly
  <1>4. Publish \/ PublishSkipped \/ Scan \/ MqttLost \/ MqttBack => UNCHANGED loopRest
    BY DEF Publish, PublishSkipped, Scan, MqttLost, MqttBack
  <1>5. \A c \in Writable, b \in BOOLEAN : Panel(c, b) => UNCHANGED loopRest
    BY DEF Panel, loopRest
  <1>6. UNCHANGED vars => UNCHANGED loopRest
    BY DEF vars
  <1>7. QED
    BY <1>1, <1>2, <1>3, <1>4, <1>5, <1>6 DEF Next, RtuRuns, LP!Next

-----------------------------------------------------------------------------
(* The program's types                                                      *)

\* The program keeps its types among its clients.
LEMMA ProgramTyped == Spec => []PLC!TypeOK
  <1>1. Init => PP!TypeOK
    BY SamePlc, PartAssumptions, PP!InitType DEF Init, PP!InitType
  <1>2. PP!TypeOK /\ [Next]_vars => PP!TypeOK'
    BY SamePlc, StepOK, PartAssumptions, PP!StepType DEF PP!StepType
  <1>3. PP!TypeOK => PLC!TypeOK
    BY SamePlc
  <1>4. QED
    BY <1>1, <1>2, <1>3, PTL DEF Spec

-----------------------------------------------------------------------------
(* The loop's promises                                                      *)

LInv == LP!TInv /\ LP!QInv

\* The coil may change: only its type speaks of it.
LEMMA CoilAside ==
  ASSUME LInv, UNCHANGED loopRest, Fault' \in BOOLEAN
  PROVE  LInv'
  <1> USE DEF loopRest
  <1>1. LP!TInv'
    BY DEF LInv, LP!TInv, LP!TypeOK, LP!Served
  <1>2. LP!Fresh => LP!Fresh'
    BY DEF LP!Fresh, LP!Made
  <1>3. LP!Chain => LP!Chain'
    BY DEF LP!Chain, LP!Waiting
  <1>4. (LP!Turn => LP!Turn') /\ (LP!Heard => LP!Heard')
    BY DEF LP!Turn, LP!TurnOf, LP!Empty, LP!Heard
  <1>5. (LP!InLine => LP!InLine') /\ (LP!UnderWay => LP!UnderWay')
    BY DEF LP!InLine, LP!UnderWay
  <1>6. QED
    BY <1>1, <1>2, <1>3, <1>4, <1>5 DEF LInv, LP!QInv, LP!PInv

LEMMA LoopInit == Init => LInv
  <1>1. Loop!Init => LP!Init
    BY DEF Loop!Init, LP!Init, Loop!NoLife, LP!NoLife, Loop!Life, LP!Life
  <1>2. QED
    BY <1>1, PartAssumptions, LP!TypeInit, LP!QueueInit
    DEF Init, LInv, LP!TypeInit, LP!QueueInit

LEMMA LoopInv == Spec => []LInv
  <1>1. LInv /\ PLC!TypeOK' /\ [Next]_vars => LInv'
    <2> SUFFICES ASSUME LInv, PLC!TypeOK', [Next]_vars PROVE LInv'
      OBVIOUS
    <2>1. CASE LP!Next
      <3>1. LP!TInv'
        BY <2>1, PartAssumptions, LP!TypeStep DEF LInv, LP!TypeStep
      <3>2. QED
        BY <2>1, <3>1, PartAssumptions, LP!QueueStep DEF LInv, LP!QueueStep
    <2>2. CASE UNCHANGED loopRest
      BY <2>2, CoilAside DEF PLC!TypeOK
    <2>3. QED
      BY <2>1, <2>2, LoopStep
  <1>2. QED
    BY <1>1, LoopInit, ProgramTyped, PTL DEF Spec

\* Panel and program do not come between RTU and HMI: verdicts belong to their reading
\* and to their life in the whole as they do in the loop alone, and neither waits for
\* the other.
THEOREM LoopHolds ==
  Spec => [](Loop!Paired /\ Loop!VerdictMatches /\ Loop!Lockstep /\ Loop!NoStandoff)
  <1>1. LInv => Loop!Paired /\ Loop!Lockstep
    BY DEF LInv, LP!QInv, LP!PInv, LP!Chain, LP!Turn, LP!TurnOf, Loop!Paired, Loop!Lockstep,
           Loop!Life, LP!Life
  <1>2. LInv => Loop!VerdictMatches
    BY DEF LInv, LP!QInv, LP!PInv, LP!Heard, LP!Judge, Loop!VerdictMatches
  <1>3. LInv => Loop!NoStandoff
    <2>1. LInv => LP!NoStandoff
      BY PartAssumptions, LP!StandoffFree DEF LInv, LP!StandoffFree
    <2>2. LP!NoStandoff => Loop!NoStandoff
      BY DEF LP!NoStandoff, Loop!NoStandoff, LP!Awaits, Loop!Awaits, LP!RtuGone, Loop!RtuGone
    <2>3. QED
      BY <2>1, <2>2
  <1>4. QED
    BY <1>1, <1>2, <1>3, LoopInv, PTL

-----------------------------------------------------------------------------
(* From the sensor to the generator                                         *)

\* Unless a pair of connections was cut: a pulse is one for a reading outside the band,
\* and so is an edge that no scan has seen yet, also when the life that made it is dead.
Cause ==
  ~cut => /\ pc = "pulse" => value = "out" /\ cause = "out"
          /\ ~touched /\ Fault /\ ~R_TRIG1 => cause = "out"

LEMMA CauseKept == LInv /\ CInv /\ Cause /\ [Next]_vars => Cause'
  <1> SUFFICES ASSUME LInv, CInv, Cause, [Next]_vars, ~cut' PROVE Cause'
    BY DEF Cause
  <1>1. ASSUME UNCHANGED <<value, cut, cause, Fault, R_TRIG1>>,
               touched' = touched, pc' = "pulse" => pc = "pulse"
        PROVE  Cause'
    BY <1>1 DEF Cause
  <1>2. CASE Raise
    <2>1. /\ ~cut /\ pc = "act" /\ heard = "fault"
          /\ value' = value /\ cause' = value
      BY <1>2 DEF Raise, Loop!RtuAct
    <2>2. value = "out"
      BY <2>1 DEF LInv, LP!QInv, LP!PInv, LP!Heard, LP!Judge
    <2>3. QED
      BY <2>1, <2>2 DEF Cause
  <1>3. CASE Release
    <2>1. /\ pc = "pulse" /\ pc' = "sense" /\ nap = 0
          /\ Fault' \in {FALSE, Fault} /\ R_TRIG1' = R_TRIG1
          /\ touched' = (touched /\ Fault')
      BY <1>3 DEF Release, PulseOver, Loop!RtuRelease, Loop!WriteCoil, plcRest
    <2>2. ~touched /\ Fault => R_TRIG1
      BY <2>1, NapAssumption DEF CInv, Pulse, Unseen, High, Low
    <2>3. ~(~touched' /\ Fault' /\ ~R_TRIG1')
      BY <2>1, <2>2 DEF CInv, Sleeps, Kept
    <2>4. QED
      BY <2>1, <2>3 DEF Cause
  <1>4. CASE Connect \/ Sense \/ Hear
    <2>1. UNCHANGED <<cause, Fault, R_TRIG1, touched>>
      BY <1>4 DEF Connect, Sense, Hear, LoopOnly, plcRest, ownVars, Loop!RtuConnectData,
                  Loop!RtuConnectSpeaker, Loop!RtuSend, Loop!RtuHear, Loop!hmiVars, Loop!netVars
    <2>2. pc' # "pulse"
      BY <1>4 DEF Connect, Sense, Hear, LoopOnly, Loop!RtuConnectData,
                  Loop!RtuConnectSpeaker, Loop!RtuSend, Loop!RtuHear
    <2>3. cut' = cut \/ cut' = (cut \/ life \in dclosed)
      BY <1>4 DEF Connect, Sense, Hear, LoopOnly, Loop!RtuConnectData,
                  Loop!RtuConnectSpeaker, Loop!RtuSend, Loop!RtuHear
    <2>4. ~cut
      BY <2>3, Zenon
    <2>5. QED
      BY <2>1, <2>2, <2>4 DEF Cause
  <1>5. CASE PassOver
    <2>1. UNCHANGED <<value, cut, cause, Fault, R_TRIG1>> /\ touched' = touched /\ pc' # "pulse"
      BY <1>5 DEF PassOver, Loop!RtuAct, plcRest
    <2>2. QED
      BY <2>1, <1>1
  <1>6. CASE End \/ Restart
    <2>1. UNCHANGED <<cause, Fault, R_TRIG1, touched>> /\ pc' # "pulse"
      BY <1>6 DEF End, Restart, Loop!RtuEnd, Loop!RtuRestart, plcRest
    <2>2. cut' = cut \/ cut' = (cut \/ pc = "connectSpeaker")
      BY <1>6 DEF End, Restart, Loop!RtuEnd, Loop!RtuRestart
    <2>3. ~cut
      BY <2>2, Zenon
    <2>4. QED
      BY <2>1, <2>3 DEF Cause
  <1>7. CASE Hmi
    <2>1. UNCHANGED <<value, cut, cause, Fault, R_TRIG1, pc, touched>>
      BY <1>7 DEF Hmi, LoopOnly, plcRest, ownVars, Loop!HmiStep, Loop!HmiListenData,
                  Loop!HmiListenSpeaker, Loop!HmiAcceptData, Loop!HmiAcceptSpeaker, Loop!HmiReply,
                  Loop!HmiHangUp, Loop!rtuVars
    <2>2. QED
      BY <2>1, <1>1
  <1>8. CASE Scan
    <2>1. UNCHANGED <<value, cut, cause, pc, touched, Fault>> /\ R_TRIG1' = Fault
      BY <1>8, ScanEffect DEF Scan, loopRest
    <2>2. QED
      BY <2>1 DEF Cause
  <1>9. CASE Publish \/ PublishSkipped \/ MqttLost \/ MqttBack \/ UNCHANGED vars
    <2>1. UNCHANGED <<value, cut, cause, Fault, R_TRIG1, pc, touched>>
      BY <1>9 DEF Publish, PublishSkipped, MqttLost, MqttBack, vars, plcRest, loopRest, ownVars
    <2>2. QED
      BY <2>1, <1>1
  <1>10. CASE \E c \in Writable, b \in BOOLEAN : Panel(c, b)
    <2>1. UNCHANGED <<value, cut, cause, pc>> /\ touched' = TRUE
      BY <1>10 DEF Panel, loopRest
    <2>2. QED
      BY <2>1 DEF Cause
  <1>11. QED
    BY <1>2, <1>3, <1>4, <1>5, <1>6, <1>7, <1>8, <1>9, <1>10 DEF Next, RtuRuns

\* Only a scan counts or stops the turbine, and only one that sees coil 1 rise.
LEMMA OnlyByEdge ==
  ASSUME CInv, [Next]_vars, Teleruptor' > Teleruptor \/ (Turbine /\ ~Turbine' /\ VoltageChk')
  PROVE  Fault /\ ~R_TRIG1
  <1> USE PresetAssumption DEF CInv, Kept
  <1>1. CASE Scan
    <2> PICK v \in BOOLEAN : PLC!ScanCycle(v, v)
      BY <1>1 DEF Scan
    <2>1. Turbine' = (~Fault /\ v) /\ VoltageChk' = v
      BY DEF PLC!ScanCycle
    <2>2. Turbine /\ ~Turbine' /\ VoltageChk' => Fault /\ ~R_TRIG1
      BY <2>1, Zenon
    <2>3. Teleruptor' = IF Reset THEN 0
                        ELSE IF Fault /\ ~R_TRIG1 /\ Teleruptor < PV THEN Teleruptor + 1
                        ELSE Teleruptor
      BY <1>1, ScanEffect
    <2>4. Teleruptor' > Teleruptor => Fault /\ ~R_TRIG1
      BY <2>3
    <2>5. QED
      BY <2>2, <2>4
  <1>2. ASSUME UNCHANGED <<Teleruptor, Turbine>> PROVE FALSE
    <2>1. ~(Teleruptor' > Teleruptor)
      BY <1>2
    <2>2. ~(Turbine /\ ~Turbine')
      BY <1>2
    <2>3. QED
      BY <2>1, <2>2
  <1>3. CASE RtuRuns \/ Publish \/ PublishSkipped \/ End \/ Restart \/ Hmi \/ MqttLost \/ MqttBack
    BY <1>2, <1>3 DEF RtuRuns, Connect, Sense, Hear, LoopOnly, Raise, PassOver, Release, Publish,
                      PublishSkipped, End, Restart, Hmi, MqttLost, MqttBack, plcRest
  <1>4. CASE \E c \in Writable, b \in BOOLEAN : Panel(c, b)
    BY <1>2, <1>4 DEF Panel, PLC!ClientWrite
  <1>5. CASE UNCHANGED vars
    BY <1>2, <1>5 DEF vars, plcRest
  <1>6. QED
    BY <1>1, <1>3, <1>4, <1>5 DEF Next

\* Through sensor, HMI, RTU and program: faults are counted and the turbine is stopped
\* for readings outside the band only, also over writes of the RTU that fail and lives
\* that end in a pulse, unless a connection was cut in half or the panel wrote.
THEOREM OnlyForCause == Spec => StopsForCause
  <1>1. Init => Cause
    BY DEF Init, Loop!Init, PLC!Init, Cause
  <1>2. Spec => []Cause
    BY <1>1, CauseKept, LoopInv, Counting, PTL DEF Spec
  <1>3. CInv /\ Cause /\ [Next]_vars =>
          [(Teleruptor' > Teleruptor \/ (Turbine /\ ~Turbine' /\ VoltageChk')) /\ ~cut /\ ~touched
             => cause = "out"]_vars
    <2> SUFFICES ASSUME CInv, Cause, [Next]_vars, ~cut, ~touched,
                        Teleruptor' > Teleruptor \/ (Turbine /\ ~Turbine' /\ VoltageChk')
                 PROVE  cause = "out"
      OBVIOUS
    <2>1. Fault /\ ~R_TRIG1
      BY OnlyByEdge
    <2>2. QED
      BY <2>1 DEF Cause
  <1>4. QED
    BY <1>2, <1>3, Counting, PTL DEF Spec, StopsForCause

-----------------------------------------------------------------------------
(* What TurbinePLCProofs shows of the program                               *)

\* In the whole too, the counter follows ProtectionRelay and the lamp covers it.
THEOREM RelayHolds == Spec => PLC!ImplementsRelay /\ []PLC!LightUntilReset
  <1>1. Spec => PP!Spec
    <2>1. Init => PP!Init
      BY SamePlc DEF Init
    <2>2. [Next]_vars => [PP!Next]_(PP!vars)
      BY StepOK, SamePlc
    <2>3. QED
      BY <2>1, <2>2, PTL DEF Spec, PP!Spec
  <1>2. PP!Spec => PP!ImplementsRelay
    BY PartAssumptions, PP!Refinement DEF PP!Refinement
  <1>3. PP!Spec => []PP!LightUntilReset
    BY PartAssumptions, PP!LampCoversFaults DEF PP!LampCoversFaults
  <1>4. PP!LightUntilReset => PLC!LightUntilReset
    BY DEF PP!LightUntilReset, PLC!LightUntilReset
  <1>5. PP!ImplementsRelay => PLC!ImplementsRelay
    <2>1. PP!Relay!Init => PLC!Relay!Init
      BY DEF PP!Relay!Init, PLC!Relay!Init
    <2>2. [PP!Relay!Next]_(PP!Relay!vars) => [PLC!Relay!Next]_(PLC!Relay!vars)
      BY DEF PP!Relay!Next, PLC!Relay!Next, PP!Relay!vars, PLC!Relay!vars, PP!Relay!Observe,
             PLC!Relay!Observe, PP!Relay!Rising, PLC!Relay!Rising, PP!Relay!Operator,
             PLC!Relay!Operator
    <2>3. QED
      BY <2>1, <2>2, PTL DEF PP!ImplementsRelay, PLC!ImplementsRelay, PP!Relay!Spec, PLC!Relay!Spec
  <1>6. QED
    BY <1>1, <1>2, <1>3, <1>4, <1>5, PTL

-----------------------------------------------------------------------------
(* Type correctness of the whole                                            *)

Counts == nap \in 0..NapScans /\ owed \in 0..PV
Flags  == pub \in BOOLEAN /\ touched \in BOOLEAN
Names  ==
  /\ mqtt \in {"off", "lost", "on"} /\ zone5 \in {"none", "normal", "down"}
  /\ cause \in {"none", "in", "out"}

LEMMA CountsKept == Counts /\ PLC!TypeOK /\ [Next]_vars => Counts'
  <1> SUFFICES ASSUME Counts, PLC!TypeOK, [Next]_vars PROVE Counts'
    OBVIOUS
  <1> USE NapAssumption, PresetAssumption DEF Counts
  <1>1. ASSUME NEW edge PROVE Expected(edge) \in 0..PV
    <2>1. Teleruptor \in 0..PV
      BY DEF PLC!TypeOK
    <2>2. \/ Expected(edge) \in {0, Teleruptor}
          \/ Expected(edge) = Teleruptor + 1 /\ Teleruptor < PV
      BY Zenon DEF Expected
    <2>3. QED
      BY <2>1, <2>2
  <1>2. CASE Raise
    BY <1>1, <1>2 DEF Raise
  <1>3. CASE Connect \/ Sense \/ Hear \/ PassOver \/ Release
    BY <1>3 DEF Connect, Sense, Hear, LoopOnly, PassOver, Release, PulseOver, ownVars
  <1>4. CASE Publish \/ PublishSkipped \/ End \/ Restart \/ Hmi \/ MqttLost \/ MqttBack
    BY <1>4 DEF Publish, PublishSkipped, End, Restart, Hmi, LoopOnly, MqttLost, MqttBack, ownVars
  <1>5. CASE Scan
    BY <1>5 DEF Scan
  <1>6. CASE (\E c \in Writable, b \in BOOLEAN : Panel(c, b)) \/ UNCHANGED vars
    BY <1>6 DEF Panel, vars, ownVars
  <1>7. QED
    BY <1>2, <1>3, <1>4, <1>5, <1>6 DEF Next, RtuRuns

LEMMA FlagsKept == Flags /\ [Next]_vars => Flags'
  <1> SUFFICES ASSUME Flags, [Next]_vars PROVE Flags'
    OBVIOUS
  <1> USE DEF Flags
  <1>1. CASE Connect \/ Sense \/ Hear \/ Raise \/ PassOver
    BY <1>1 DEF Connect, Sense, Hear, LoopOnly, Raise, PassOver, ownVars
  <1>2. CASE Release
    <2>1. pub' = TRUE /\ touched' = (touched /\ Fault')
      BY <1>2 DEF Release, PulseOver
    <2>2. QED
      BY <2>1, Zenon
  <1>3. CASE Publish \/ PublishSkipped \/ End \/ Restart \/ Hmi \/ MqttLost \/ MqttBack \/ Scan
    BY <1>3 DEF Publish, PublishSkipped, End, Restart, Hmi, LoopOnly, MqttLost, MqttBack, Scan,
                ownVars
  <1>4. CASE (\E c \in Writable, b \in BOOLEAN : Panel(c, b)) \/ UNCHANGED vars
    BY <1>4 DEF Panel, vars, ownVars
  <1>5. QED
    BY <1>1, <1>2, <1>3, <1>4 DEF Next, RtuRuns

LEMMA NamesKept == Names /\ LInv /\ [Next]_vars => Names'
  <1> SUFFICES ASSUME Names, LInv, [Next]_vars PROVE Names'
    OBVIOUS
  <1> USE DEF Names
  <1>0. value \in {"none", "in", "out"}
    BY DEF LInv, LP!TInv, LP!TypeOK, LP!Reading
  <1>1. CASE RtuRuns
    BY <1>0, <1>1 DEF RtuRuns, Connect, Sense, Hear, LoopOnly, Raise, PassOver, Release,
                      PulseOver, ownVars
  <1>2. CASE Publish
    BY <1>2 DEF Publish, Zone
  <1>3. CASE PublishSkipped \/ End \/ Restart \/ Hmi \/ MqttLost \/ MqttBack \/ Scan
    BY <1>3 DEF PublishSkipped, End, Restart, MqttStart, Hmi, LoopOnly, MqttLost, MqttBack, Scan,
                ownVars
  <1>4. CASE (\E c \in Writable, b \in BOOLEAN : Panel(c, b)) \/ UNCHANGED vars
    BY <1>4 DEF Panel, vars, ownVars
  <1>5. QED
    BY <1>1, <1>2, <1>3, <1>4 DEF Next

\* Every variable of the whole keeps its type; what a pulse must lead to is a count
\* the counter can reach.
THEOREM TypeCorrect == Spec => []TypeOK
  <1>1. Init => Counts
    <2>1. Init => nap = 0 /\ owed = 0
      BY DEF Init
    <2>2. QED
      BY <2>1, NapAssumption, PresetAssumption DEF Counts
  <1>2. Init => Flags
    BY DEF Init, Flags
  <1>3. Init => Names
    BY DEF Init, MqttStart, Names
  <1>4. LInv => Loop!TypeOK
    BY DEF LInv, LP!TInv, LP!TypeOK, Loop!TypeOK, LP!RtuPC, Loop!RtuPC, LP!HmiPC, Loop!HmiPC,
           LP!Life, Loop!Life, LP!Reading, Loop!Reading, LP!Verdict, Loop!Verdict,
           LP!Garbled, Loop!Garbled, LP!NoLife, Loop!NoLife
  <1>5. PLC!TypeOK /\ LInv /\ Counts /\ Flags /\ Names => TypeOK
    BY <1>4 DEF TypeOK, Counts, Flags, Names
  <1>6. QED
    BY <1>1, <1>2, <1>3, <1>5, CountsKept, FlagsKept, NamesKept, ProgramTyped, LoopInv, PTL
    DEF Spec
=============================================================================
