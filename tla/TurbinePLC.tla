----------------------------- MODULE TurbinePLC -----------------------------
(***************************************************************************)
(* The protection program of bh-intellirupter, fixedfinal.st, on OpenPLC.  *)
(*                                                                         *)
(* The runtime repeats a 20 ms scan: refresh the inputs, run the program,  *)
(* publish the outputs.  It holds its buffer lock for the whole scan, so   *)
(* a Modbus write falls between two scans (ClientWrite) and a scan is one  *)
(* action (ScanCycle).  Its clock advances by 20 ms per scan, so times are *)
(* counted in scans: PT stands for T#15000ms, which is 750 of them.        *)
(***************************************************************************)
EXTENDS Integers

CONSTANTS PV,        \* preset of CTU0 (3 in the program)
          PT,        \* preset of TOF0, in scans
          Writable   \* the coils Modbus clients write

ASSUME PVAssumption == PV \in Nat \ {0}
ASSUME PTAssumption == PT \in Nat \ {0}
ASSUME WritableAssumption == Writable \subseteq {"Trip", "Fault", "Reset"}

VARIABLES
  VoltageChk, Sensor,                        \* inputs %IX0.0, %IX0.1
  Turbine, Trip, Fault, FaultLight, Reset,   \* coils %QX
  Teleruptor,                                \* output word %QW15
  Ttime,                                     \* elapsed time kept by the program
  R_TRIG1,                                   \* rising-edge memory: Fault as last scanned
  CTU0,                                      \* up counter
  TOF0                                       \* off-delay timer

inputs  == <<VoltageChk, Sensor>>
blocks  == <<R_TRIG1, CTU0, TOF0>>
vars    == <<inputs, Turbine, Trip, Fault, FaultLight, Reset, Teleruptor, Ttime, blocks>>

TypeOK ==
  /\ VoltageChk \in BOOLEAN /\ Sensor \in BOOLEAN
  /\ Turbine \in BOOLEAN /\ Trip \in BOOLEAN /\ Fault \in BOOLEAN
  /\ FaultLight \in BOOLEAN /\ Reset \in BOOLEAN /\ R_TRIG1 \in BOOLEAN
  /\ Teleruptor \in 0..PV
  /\ Ttime \in 0..PT
  /\ CTU0 \in [cu : BOOLEAN, cv : 0..PV, q : BOOLEAN]
  /\ TOF0 \in [state : 0..2, in : BOOLEAN, et : 0..PT, q : BOOLEAN]

Init ==
  /\ VoltageChk = FALSE /\ Sensor = FALSE
  /\ Turbine = FALSE /\ Trip = FALSE /\ Fault = FALSE /\ FaultLight = FALSE /\ Reset = FALSE
  /\ Teleruptor = 0 /\ Ttime = 0
  /\ R_TRIG1 = FALSE
  /\ CTU0 = [cu |-> FALSE, cv |-> 0, q |-> FALSE]
  /\ TOF0 = [state |-> 0, in |-> FALSE, et |-> 0, q |-> FALSE]

-----------------------------------------------------------------------------
(* The standard function blocks, as the runtime's library defines them.     *)

\* CTU: the reset input wins over a count, and the counter stops at its preset.
Count(b, cu, r) == IF r THEN 0 ELSE IF cu /\ ~b.cu /\ b.cv < PV THEN b.cv + 1 ELSE b.cv

CountUp(b, cu, r) ==
  LET cv == Count(b, cu, r) IN [cu |-> cu, cv |-> cv, q |-> cv >= PV]

\* TOF: state 1 while the delay runs, 2 once it has elapsed; the elapsed time
\* then stays at the preset until the input is seen TRUE again.
Elapsed(b) == b.et + 1 >= PT

OffDelayPhase(b, in) ==
  IF in THEN 0
  ELSE IF b.state = 0 /\ b.in THEN 1
  ELSE IF b.state = 1 /\ Elapsed(b) THEN 2
  ELSE b.state

OffDelayTime(b, in) ==
  IF in THEN 0
  ELSE IF b.state # 1 THEN b.et
  ELSE IF Elapsed(b) THEN PT
  ELSE b.et + 1

OffDelay(b, in) ==
  LET state == OffDelayPhase(b, in)
  IN [state |-> state, in |-> in, et |-> OffDelayTime(b, in), q |-> in \/ state = 1]

-----------------------------------------------------------------------------
\* The counter is reset once the elapsed time kept from the last scan is the preset.
ResetOnlyAbovePreset == Ttime > PT   \* mutant
ResetBeforePreset == Ttime # PT      \* mutant
ResetOnPreset == Ttime = PT

\* The time the program keeps.
KeepStale == TOF0.et     \* mutant: of the scan before
KeepNext == TOF0'.et + 1   \* mutant: of the scan to come
Keep == TOF0'.et

\* One scan that reads v and s at the inputs.  In program order: Turbine uses
\* "Trip := Fault", VoltageChk as refreshed, and Reset and Ttime of the scan before.
ScanCycle(v, s) ==
  /\ Sensor' = s
  /\ Turbine' = (~Fault /\ v)
  /\ VoltageChk' = s
  /\ R_TRIG1' = Fault
  /\ CTU0' = CountUp(CTU0, Fault /\ ~R_TRIG1, Reset)
  /\ Trip' = CTU0'.q
  /\ TOF0' = OffDelay(TOF0, Fault)
  /\ FaultLight' = TOF0'.q
  /\ Teleruptor' = CTU0'.cv
  /\ Reset' = ResetOnPreset
  /\ Ttime' = Keep
  /\ UNCHANGED Fault

Scan == \E v, s \in BOOLEAN : ScanCycle(v, s)

\* A Modbus client (the RTU's fault pulse, the operator panel) writes a coil.
ClientWrite(c, b) ==
  /\ c \in Writable
  /\ Trip'  = IF c = "Trip"  THEN b ELSE Trip
  /\ Fault' = IF c = "Fault" THEN b ELSE Fault
  /\ Reset' = IF c = "Reset" THEN b ELSE Reset
  /\ UNCHANGED <<inputs, Turbine, FaultLight, Teleruptor, Ttime, blocks>>

Next == Scan \/ \E c \in Writable, b \in BOOLEAN : ClientWrite(c, b)

Spec == Init /\ [][Next]_vars

\* The runtime never stops scanning; clients owe nothing.
FairSpec == Spec /\ WF_vars(Scan)

-----------------------------------------------------------------------------
\* While the counter holds faults the lamp is lit, except after the off-delay
\* has run out, when the clear is on its way: the operator never sees the lamp
\* dark over faults that nothing is going to forget.
LightUntilReset == Teleruptor > 0 => FaultLight \/ Ttime = PT

\* The program implements ProtectionRelay: the counter follows the rising edges
\* of Fault and is cleared only after PT scans without a fault or on an
\* operator's Reset, through the two scans the Reset coil lags behind the timer.
Relay == INSTANCE ProtectionRelay WITH
           seen <- R_TRIG1, count <- Teleruptor, quiet <- TOF0.et,
           due <- Reset \/ Ttime = PT

ImplementsRelay == Relay!Spec

\* When Fault stays clear and no client takes the program's own Reset away, the
\* counter is eventually 0 for good: a trip never outlives the quiet time.
ResetNotOverridden == Reset /\ ~Reset' => Ttime # PT
FaultsForgotten ==
  <>[]~Fault /\ <>[][ResetNotOverridden]_vars => <>[](Teleruptor = 0 /\ ~CTU0.q)

-----------------------------------------------------------------------------
\* README.md: "the turbine runs only while not tripped and voltage is OK".
\* The program computes Turbine from Fault, before the counter decides Trip.
TurbineOnlyUntripped == Turbine => ~Trip

\* README.md: the program "counts fault pulses and latches a Trip after three".
\* After the first automatic clear the Reset coil stays TRUE until the next
\* fault has been scanned, and swallows it.
EveryFaultCounted ==
  [][~R_TRIG1 /\ R_TRIG1' /\ Teleruptor < PV => Teleruptor' = Teleruptor + 1]_vars
=============================================================================
