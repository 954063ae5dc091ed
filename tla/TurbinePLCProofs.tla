-------------------------- MODULE TurbinePLCProofs --------------------------
(***************************************************************************)
(* TurbinePLC for every preset PV and PT and every set of writable coils:  *)
(* type correctness, the inductive invariant that ties the coils to the    *)
(* function blocks and the timer to the counter, and the refinement of     *)
(* ProtectionRelay.                                                        *)
(***************************************************************************)
EXTENDS TurbinePLC, TLAPS

\* What a client cannot touch: the coils and words that mirror a block, the two
\* edge memories that agree, and the timer's three phases.  A counter above 0
\* has seen a fault, so the timer is off its initial phase.
Mirrors ==
  /\ Teleruptor = CTU0.cv
  /\ CTU0.q <=> CTU0.cv >= PV
  /\ FaultLight <=> TOF0.q
  /\ Ttime = TOF0.et
  /\ TOF0.in <=> R_TRIG1
  /\ CTU0.cu => R_TRIG1

TimerPhases ==
  /\ TOF0.q <=> TOF0.in \/ TOF0.state = 1
  /\ TOF0.in => TOF0.state = 0
  /\ TOF0.state = 0 => TOF0.et = 0
  /\ TOF0.state = 1 => TOF0.et < PT
  /\ TOF0.state = 2 => TOF0.et = PT
  /\ CTU0.cv > 0 => TOF0.in \/ TOF0.state # 0

IInv == TypeOK /\ Mirrors /\ TimerPhases

-----------------------------------------------------------------------------
\* Count never leaves 0..PV, and moves by at most one fault at a time.
LEMMA CountType ==
  ASSUME NEW b \in [cu : BOOLEAN, cv : 0..PV, q : BOOLEAN],
         NEW cu \in BOOLEAN, NEW r \in BOOLEAN
  PROVE  /\ CountUp(b, cu, r) \in [cu : BOOLEAN, cv : 0..PV, q : BOOLEAN]
         /\ (CountUp(b, cu, r).cu <=> cu)
         /\ CountUp(b, cu, r).cv = Count(b, cu, r)
         /\ (CountUp(b, cu, r).q <=> Count(b, cu, r) >= PV)
  <1>1. Count(b, cu, r) \in 0..PV
    BY PVAssumption DEF Count
  <1> DEFINE n == Count(b, cu, r)
             q == n >= PV
  <1>2. CountUp(b, cu, r) = [cu |-> cu, cv |-> n, q |-> q]
    BY DEF CountUp
  <1>3. n \in 0..PV /\ q \in BOOLEAN
    BY <1>1, PVAssumption
  <1> HIDE DEF n, q
  <1>4. /\ CountUp(b, cu, r) \in [cu : BOOLEAN, cv : 0..PV, q : BOOLEAN]
        /\ (CountUp(b, cu, r).cu <=> cu)
        /\ CountUp(b, cu, r).cv = n
        /\ (CountUp(b, cu, r).q <=> q)
    BY <1>2, <1>3
  <1>5. QED
    BY <1>4 DEF n, q

\* The off-delay block keeps its type and answers according to its new phase.
LEMMA OffDelayType ==
  ASSUME NEW b \in [state : 0..2, in : BOOLEAN, et : 0..PT, q : BOOLEAN],
         NEW in \in BOOLEAN
  PROVE  /\ OffDelay(b, in) \in [state : 0..2, in : BOOLEAN, et : 0..PT, q : BOOLEAN]
         /\ OffDelay(b, in).state = OffDelayPhase(b, in)
         /\ (OffDelay(b, in).in <=> in)
         /\ OffDelay(b, in).et = OffDelayTime(b, in)
         /\ (OffDelay(b, in).q <=> in \/ OffDelayPhase(b, in) = 1)
  <1>1. OffDelayPhase(b, in) \in 0..2
    BY DEF OffDelayPhase
  <1>2. OffDelayTime(b, in) \in 0..PT
    BY PTAssumption DEF OffDelayTime, Elapsed
  <1>3. QED
    BY <1>1, <1>2 DEF OffDelay

-----------------------------------------------------------------------------
LEMMA InitType == Init => TypeOK
  <1> SUFFICES ASSUME Init PROVE TypeOK
    OBVIOUS
  <1>1. CTU0 \in [cu : BOOLEAN, cv : 0..PV, q : BOOLEAN]
    BY PVAssumption DEF Init
  <1>2. TOF0 \in [state : 0..2, in : BOOLEAN, et : 0..PT, q : BOOLEAN]
    BY PTAssumption DEF Init
  <1>3. Teleruptor \in 0..PV /\ Ttime \in 0..PT
    BY PVAssumption, PTAssumption DEF Init
  <1>4. QED
    BY <1>1, <1>2, <1>3, Zenon DEF Init, TypeOK

\* A scan leaves each block as its lemma above says.
LEMMA ScanBlocks ==
  ASSUME TypeOK, NEW v \in BOOLEAN, NEW s \in BOOLEAN, ScanCycle(v, s)
  PROVE  /\ CTU0' \in [cu : BOOLEAN, cv : 0..PV, q : BOOLEAN]
         /\ (CTU0'.cu <=> Fault /\ ~R_TRIG1)
         /\ CTU0'.cv = Count(CTU0, Fault /\ ~R_TRIG1, Reset)
         /\ (CTU0'.q <=> CTU0'.cv >= PV)
         /\ TOF0' \in [state : 0..2, in : BOOLEAN, et : 0..PT, q : BOOLEAN]
         /\ TOF0'.state = OffDelayPhase(TOF0, Fault)
         /\ (TOF0'.in <=> Fault)
         /\ TOF0'.et = OffDelayTime(TOF0, Fault)
         /\ (TOF0'.q <=> TOF0'.in \/ TOF0'.state = 1)
  <1>1. /\ CTU0 \in [cu : BOOLEAN, cv : 0..PV, q : BOOLEAN]
        /\ TOF0 \in [state : 0..2, in : BOOLEAN, et : 0..PT, q : BOOLEAN]
        /\ Reset \in BOOLEAN /\ Fault \in BOOLEAN /\ (Fault /\ ~R_TRIG1) \in BOOLEAN
    BY DEF TypeOK
  <1>2. /\ CTU0' = CountUp(CTU0, Fault /\ ~R_TRIG1, Reset)
        /\ TOF0' = OffDelay(TOF0, Fault)
    BY DEF ScanCycle
  <1> DEFINE edge == Fault /\ ~R_TRIG1
  <1>3. /\ CTU0' = CountUp(CTU0, edge, Reset)
        /\ edge \in BOOLEAN
    BY <1>1, <1>2
  <1>4. /\ CTU0' \in [cu : BOOLEAN, cv : 0..PV, q : BOOLEAN]
        /\ (CTU0'.cu <=> edge)
        /\ CTU0'.cv = Count(CTU0, edge, Reset)
        /\ (CTU0'.q <=> CTU0'.cv >= PV)
    <2> HIDE DEF edge
    <2>1. QED
      BY <1>1, <1>3, CountType
  <1>5. /\ TOF0' \in [state : 0..2, in : BOOLEAN, et : 0..PT, q : BOOLEAN]
        /\ TOF0'.state = OffDelayPhase(TOF0, Fault)
        /\ (TOF0'.in <=> Fault)
        /\ TOF0'.et = OffDelayTime(TOF0, Fault)
        /\ (TOF0'.q <=> TOF0'.in \/ TOF0'.state = 1)
    BY <1>1, <1>2, OffDelayType
  <1>6. QED
    BY <1>4, <1>5

LEMMA StepType == TypeOK /\ [Next]_vars => TypeOK'
  <1> SUFFICES ASSUME TypeOK, [Next]_vars PROVE TypeOK'
    OBVIOUS
  <1>1. ASSUME NEW v \in BOOLEAN, NEW s \in BOOLEAN, ScanCycle(v, s) PROVE TypeOK'
    BY <1>1, ScanBlocks DEF ScanCycle, TypeOK, ResetOnPreset, Keep
  <1>2. ASSUME NEW c \in Writable, NEW b \in BOOLEAN, ClientWrite(c, b) PROVE TypeOK'
    BY <1>2 DEF ClientWrite, TypeOK, inputs, blocks
  <1>3. CASE UNCHANGED vars
    BY <1>3 DEF TypeOK, vars, inputs, blocks
  <1>4. QED
    BY <1>1, <1>2, <1>3 DEF Next, Scan

\* Every variable of the program keeps its type: in particular the fault
\* counter never passes its preset, whatever the clients write.
THEOREM TypeCorrect == Spec => []TypeOK
  BY InitType, StepType, PTL DEF Spec

-----------------------------------------------------------------------------
\* The coils mirror the blocks and the timer is running whenever the counter
\* holds faults: what the lamp shows and what the refinement relies on.
LEMMA Invariance == Spec => []IInv
  <1>1. Init => IInv
    <2> SUFFICES ASSUME Init PROVE Mirrors /\ TimerPhases
      BY InitType DEF IInv
    <2>1. /\ CTU0.cv = 0 /\ ~CTU0.q /\ ~CTU0.cu
          /\ TOF0.state = 0 /\ TOF0.et = 0 /\ ~TOF0.in /\ ~TOF0.q
          /\ Teleruptor = 0 /\ Ttime = 0 /\ ~FaultLight /\ ~R_TRIG1
      BY DEF Init
    <2>2. Mirrors
      BY <2>1, PVAssumption DEF Mirrors
    <2>3. TimerPhases
      BY <2>1, PTAssumption DEF TimerPhases
    <2>4. QED
      BY <2>2, <2>3
  <1>2. TypeOK /\ TypeOK' /\ IInv /\ [Next]_vars => IInv'
    <2> SUFFICES ASSUME TypeOK, TypeOK', Mirrors, TimerPhases, [Next]_vars
                 PROVE  Mirrors' /\ TimerPhases'
      BY DEF IInv
    <2>1. ASSUME NEW v \in BOOLEAN, NEW s \in BOOLEAN, ScanCycle(v, s)
          PROVE  Mirrors' /\ TimerPhases'
      <3>3. Mirrors'
        BY <2>1, ScanBlocks DEF ScanCycle, Mirrors, Keep
      <3>4. /\ TOF0'.in => TOF0'.state = 0
            /\ TOF0'.state = 0 => TOF0'.et = 0
            /\ TOF0'.state = 1 => TOF0'.et < PT
            /\ TOF0'.state = 2 => TOF0'.et = PT
        BY <2>1, ScanBlocks, PTAssumption
        DEF OffDelayPhase, OffDelayTime, Elapsed, TypeOK, TimerPhases
      <3>5. CTU0'.cv > 0 => TOF0'.in \/ TOF0'.state # 0
        BY <2>1, ScanBlocks, PVAssumption
        DEF Count, OffDelayPhase, TypeOK, Mirrors, TimerPhases
      <3>6. QED
        BY <2>1, ScanBlocks, <3>3, <3>4, <3>5 DEF TimerPhases
    <2>2. ASSUME NEW c \in Writable, NEW b \in BOOLEAN, ClientWrite(c, b)
          PROVE  Mirrors' /\ TimerPhases'
      BY <2>2 DEF ClientWrite, Mirrors, TimerPhases, inputs, blocks
    <2>3. CASE UNCHANGED vars
      BY <2>3 DEF Mirrors, TimerPhases, vars, inputs, blocks
    <2>4. QED
      BY <2>1, <2>2, <2>3 DEF Next, Scan
  <1>3. QED
    BY <1>1, <1>2, TypeCorrect, PTL DEF Spec, IInv

\* The lamp is never dark over faults that nothing is about to forget.
THEOREM LampCoversFaults == Spec => []LightUntilReset
  <1>1. IInv => LightUntilReset
    BY DEF IInv, TypeOK, Mirrors, TimerPhases, LightUntilReset
  <1>2. QED
    BY <1>1, Invariance, PTL

-----------------------------------------------------------------------------
\* The program counts like the abstract relay and forgets faults only when the
\* relay may: after PT quiet scans, or on an operator's Reset.
THEOREM Refinement == Spec => ImplementsRelay
  <1>1. Init => Relay!Init
    BY PTAssumption DEF Init, Relay!Init
  <1>2. IInv /\ IInv' /\ [Next]_vars => [Relay!Next]_(Relay!vars)
    <2> SUFFICES ASSUME IInv, IInv', [Next]_vars
                 PROVE  Relay!Next \/ UNCHANGED Relay!vars
      OBVIOUS
    <2> USE DEF IInv
    <2>1. ASSUME NEW v \in BOOLEAN, NEW s \in BOOLEAN, ScanCycle(v, s)
          PROVE  Relay!Observe(Fault)
      <3>1. /\ Teleruptor' = Count(CTU0, Fault /\ ~R_TRIG1, Reset)
            /\ CTU0.cu => R_TRIG1
            /\ Teleruptor = CTU0.cv
        BY <2>1, ScanBlocks DEF ScanCycle, Mirrors
      <3>2. /\ TOF0'.state = OffDelayPhase(TOF0, Fault)
            /\ TOF0'.et = OffDelayTime(TOF0, Fault)
        BY <2>1, ScanBlocks
      <3>3. R_TRIG1' = Fault
        BY <2>1 DEF ScanCycle
      <3>4. \/ (Reset \/ Ttime = PT) /\ Teleruptor' = 0
            \/ Teleruptor' = IF Relay!Rising(Fault) /\ Teleruptor < PV
                             THEN Teleruptor + 1 ELSE Teleruptor
        BY <3>1 DEF Count, Relay!Rising, TypeOK
      <3>5. TOF0'.et \in IF Fault THEN {0} ELSE {TOF0.et, TOF0.et + 1}
        BY <3>2, PTAssumption DEF OffDelayTime, Elapsed, TypeOK, TimerPhases
      <3>6. TOF0'.et <= PT
        BY PTAssumption DEF TypeOK
      <3>7. Reset' \/ Ttime' = PT => (Reset \/ Ttime = PT) \/ TOF0.et = PT \/ TOF0'.et = PT
        BY <2>1 DEF ScanCycle, ResetOnPreset, Keep
      <3>8. QED
        BY <3>3, <3>4, <3>5, <3>6, <3>7 DEF Relay!Observe
    <2>2. ASSUME NEW c \in Writable, NEW b \in BOOLEAN, ClientWrite(c, b)
          PROVE  Relay!Operator
      BY <2>2 DEF ClientWrite, Relay!Operator, TypeOK, inputs, blocks
    <2>3. CASE UNCHANGED vars
      BY <2>3 DEF vars, inputs, blocks, Relay!vars
    <2>4. QED
      BY <2>1, <2>2, <2>3 DEF Next, Scan, Relay!Next, TypeOK
  <1>3. QED
    BY <1>1, <1>2, Invariance, PTL DEF Spec, ImplementsRelay, Relay!Spec
=============================================================================
