----------------------------- MODULE EStopProofs -----------------------------
(***************************************************************************)
(* EStop for every length of the e-stop window: type correctness, the      *)
(* bound on the time an engaged e-stop takes to stop the turbine, and the  *)
(* window it is held for.                                                  *)
(***************************************************************************)
EXTENDS EStop, TLAPS

\* The lamp and the command are functions of the counter.
Coherent ==
  /\ led <=> Active(counter)
  /\ control <=> ~Active(counter)

\* c seconds have begun since the RTU's tick that engaged the e-stop, and x has
\* had its turn in the one that is under way.
Begun(x, c) ==
  \/ counter > c
  \/ counter = c /\ ("rtu" \in owes \/ x \notin owes)
  \/ counter = c - 1 /\ "rtu" \in owes /\ x \notin owes

\* The command has reached the IED once the link had its turn after the first
\* tick of the e-stop, and the turbine follows at the IED's turn after that.
Reached == Active(counter) /\ Begun("link", 2) => ~icontrol
Obeyed  == Active(counter) /\ Begun("ied", 3) => ~turbine

IInv == TypeOK /\ Coherent /\ Reached /\ Obeyed

-----------------------------------------------------------------------------
\* A turn leaves somebody to run, and takes nobody else's turn away; when the
\* last one has run, the next second begins for all.
LEMMA TurnFacts ==
  ASSUME owes \in SUBSET Periodic, NEW a \in Periodic, Turn(a)
  PROVE  /\ owes' \in SUBSET Periodic /\ owes' # {}
         /\ \/ owes' = Periodic /\ owes = {a}
            \/ a \notin owes' /\ \A b \in Periodic \ {a} : b \in owes' <=> b \in owes
  BY DEF Turn, Periodic

LEMMA InitType == Init => TypeOK
  <1> SUFFICES ASSUME Init PROVE TypeOK
    OBVIOUS
  <1>1. counter \in 0..Limit
    BY LimitAssumption DEF Init
  <1>2. owes \in SUBSET Periodic /\ owes # {}
    BY DEF Init, Periodic
  <1>3. vpc \in {"readLed", "readEstop", "publish"} /\ zone2 \in {"Normal", "Down"}
    BY DEF Init
  <1>4. QED
    BY <1>1, <1>2, <1>3, Zenon DEF Init, TypeOK

LEMMA StepType == TypeOK /\ [Next]_vars => TypeOK'
  <1> SUFFICES ASSUME TypeOK, [Next]_vars PROVE TypeOK'
    OBVIOUS
  <1> USE DEF rtuVars, iedVars, vizVars
  <1>1. CASE RtuTick
    <2>1. counter' \in 0..Limit
      BY <1>1, LimitAssumption DEF RtuTick, Count, TypeOK
    <2>2. owes' \in SUBSET Periodic /\ owes' # {}
      BY <1>1, TurnFacts DEF RtuTick, TypeOK, Periodic
    <2>3. led' \in BOOLEAN /\ control' \in BOOLEAN
      BY <1>1, <2>1, LimitAssumption DEF RtuTick, Active
    <2>4. QED
      BY <1>1, <2>1, <2>2, <2>3 DEF RtuTick, TypeOK
  <1>2. CASE LinkTick
    <2>1. owes' \in SUBSET Periodic /\ owes' # {}
      BY <1>2, TurnFacts DEF LinkTick, TypeOK, Periodic
    <2>2. QED
      BY <1>2, <2>1 DEF LinkTick, Operate, TypeOK
  <1>3. CASE IedTick
    <2>1. owes' \in SUBSET Periodic /\ owes' # {}
      BY <1>3, TurnFacts DEF IedTick, TypeOK, Periodic
    <2>2. QED
      BY <1>3, <2>1 DEF IedTick, Running, TypeOK
  <1>4. CASE Operator
    BY <1>4 DEF Operator, MoveSwitch, WriteEstop, TypeOK
  <1>5. CASE VizReadLed
    BY <1>5 DEF VizReadLed, TypeOK
  <1>6. CASE VizReadEstop
    BY <1>6 DEF VizReadEstop, TypeOK
  <1>7. CASE VizPublish
    BY <1>7 DEF VizPublish, Publish, TypeOK
  <1>8. CASE VizPollFails
    BY <1>8 DEF VizPollFails, TypeOK
  <1>9. CASE UNCHANGED vars
    BY <1>9 DEF vars, TypeOK
  <1>10. QED
    BY <1>1, <1>2, <1>3, <1>4, <1>5, <1>6, <1>7, <1>8, <1>9 DEF Next, Tick

\* Every variable keeps its type; the e-stop's counter stays within its window.
THEOREM TypeCorrect == Spec => []TypeOK
  BY InitType, StepType, PTL DEF Spec

-----------------------------------------------------------------------------
\* Before the RTU's turn x had got as far in the e-stop as after it: the first
\* tick of an e-stop is in nobody's past, and a second ends only when all ran.
LEMMA RtuTurn ==
  ASSUME TypeOK, TypeOK', Turn("rtu"), NEW x \in {"link", "ied"}, NEW c \in 2..3,
         counter' = counter + 1 \/ counter' = 1, Active(counter'), Begun(x, c)'
  PROVE  Active(counter) /\ Begun(x, c)
  <1>1. counter \in Int /\ counter' \in Int /\ c \in Int /\ c >= 2
    BY LimitAssumption DEF TypeOK
  <1>2. "rtu" \in owes /\ x \in Periodic /\ x # "rtu"
    BY DEF Turn, Periodic
  <1>3. \/ x \in owes' /\ x \notin owes
        \/ "rtu" \notin owes' /\ (x \in owes' <=> x \in owes)
    BY <1>2, TurnFacts DEF TypeOK, Periodic
  <1>4. counter' # 1 \/ counter' = counter + 1
    BY <1>1, <1>3 DEF Begun
  <1>5. counter' = counter + 1
    BY <1>3, <1>4
  <1>6. Begun(x, c)
    BY <1>1, <1>2, <1>3, <1>5 DEF Begun
  <1>7. Active(counter)
    BY <1>1, <1>5, <1>6, LimitAssumption DEF Active, Begun
  <1>8. QED
    BY <1>6, <1>7

LEMMA Invariance == Spec => []IInv
  <1>1. Init => IInv
    <2> SUFFICES ASSUME Init PROVE TypeOK /\ Coherent /\ Reached /\ Obeyed
      BY DEF IInv
    <2>1. TypeOK
      BY InitType
    <2>2. Coherent /\ Reached /\ Obeyed
      BY LimitAssumption DEF Init, Coherent, Reached, Obeyed, Active
    <2>3. QED
      BY <2>1, <2>2
  <1>2. IInv /\ [Next]_vars => IInv'
    <2> SUFFICES ASSUME IInv, [Next]_vars PROVE Coherent' /\ Reached' /\ Obeyed'
      BY StepType DEF IInv
    <2>0. TypeOK /\ TypeOK' /\ Coherent /\ Reached /\ Obeyed
      BY StepType DEF IInv
    <2> USE DEF rtuVars, iedVars, vizVars
    <2>1. CASE RtuTick
      <3>1. counter' = Count(Latch)
        BY <2>1 DEF RtuTick
      <3>2. Coherent'
        BY <2>0, <2>1, LimitAssumption DEF RtuTick, Coherent, Active, TypeOK
      <3>3. Active(counter') => (Active(counter) /\ counter' = counter + 1) \/ counter' = 1
        BY <2>0, <3>1, LimitAssumption DEF Active, Count, TypeOK
      <3>4. Turn("rtu") /\ icontrol' = icontrol /\ turbine' = turbine
        BY <2>1 DEF RtuTick
      <3>5. ASSUME NEW x \in {"link", "ied"}, NEW c \in 2..3, Active(counter'), Begun(x, c)'
            PROVE  Active(counter) /\ Begun(x, c)
        <4>1. counter' = counter + 1 \/ counter' = 1
          BY <3>3, <3>5
        <4>2. QED
          BY <2>0, <3>4, <3>5, <4>1, RtuTurn
      <3>6. /\ Active(counter') /\ Begun("link", 2)' => Active(counter) /\ Begun("link", 2)
            /\ Active(counter') /\ Begun("ied", 3)' => Active(counter) /\ Begun("ied", 3)
        BY <3>5 DEF Begun
      <3>7. Reached' /\ Obeyed'
        BY <2>0, <3>4, <3>5, <3>6 DEF Reached, Obeyed
      <3>8. QED
        BY <3>2, <3>7
    <2>2. CASE LinkTick
      <3>1. Coherent'
        BY <2>0, <2>2 DEF LinkTick, Coherent, Active
      <3>2. Reached'
        BY <2>0, <2>2 DEF LinkTick, Operate, Reached, Coherent, Active
      <3>3. Obeyed'
        BY <2>0, <2>2, TurnFacts DEF LinkTick, Obeyed, Begun, TypeOK, Periodic, Active
      <3>4. QED
        BY <3>1, <3>2, <3>3
    <2>3. CASE IedTick
      <3>1. Coherent'
        BY <2>0, <2>3 DEF IedTick, Coherent, Active
      <3>2. Reached'
        BY <2>0, <2>3, TurnFacts DEF IedTick, Reached, Begun, TypeOK, Periodic, Active
      <3>3. Obeyed'
        BY <2>0, <2>3, TurnFacts
        DEF IedTick, Running, Obeyed, Reached, Begun, TypeOK, Periodic, Active
      <3>4. QED
        BY <3>1, <3>2, <3>3
    <2>4. CASE Operator
      BY <2>0, <2>4
      DEF Operator, MoveSwitch, WriteEstop, Coherent, Reached, Obeyed, Begun, Active
    <2>5. CASE VizReadLed
      BY <2>0, <2>5 DEF VizReadLed, Coherent, Reached, Obeyed, Begun, Active
    <2>6. CASE VizReadEstop
      BY <2>0, <2>6 DEF VizReadEstop, Coherent, Reached, Obeyed, Begun, Active
    <2>7. CASE VizPublish
      BY <2>0, <2>7 DEF VizPublish, Coherent, Reached, Obeyed, Begun, Active
    <2>8. CASE VizPollFails
      BY <2>0, <2>8 DEF VizPollFails, Coherent, Reached, Obeyed, Begun, Active
    <2>9. CASE UNCHANGED vars
      BY <2>0, <2>9 DEF vars, Coherent, Reached, Obeyed, Begun, Active
    <2>10. QED
      BY <2>1, <2>2, <2>3, <2>4, <2>5, <2>6, <2>7, <2>8, <2>9 DEF Next, Tick
  <1>3. QED
    BY <1>1, <1>2, PTL DEF Spec

\* Four ticks after it engaged, the e-stop has stopped the turbine.
THEOREM StopsTurbine == Spec => []StopsInTime
  <1>1. IInv => StopsInTime
    BY LimitAssumption DEF IInv, TypeOK, Obeyed, Begun, StopsInTime
  <1>2. QED
    BY <1>1, Invariance, PTL

\* An e-stop is held for its whole window and engages only from a counter at 0,
\* by the switch: whoever reads the lamp never sees it go out early.
THEOREM HoldsWindow == Spec => StopWindow
  <1>1. ASSUME IInv, [Next]_vars
        PROVE  [/\ led /\ ~led' => counter' = Limit
                /\ ~led /\ led' => counter = 0 /\ switch]_vars
    <2>0. TypeOK /\ Coherent
      BY <1>1 DEF IInv
    <2>1. CASE RtuTick
      <3>1. /\ counter' = Count(Latch)
            /\ led' <=> Active(counter')
        BY <2>1 DEF RtuTick
      <3>2. led /\ ~led' => counter' = Limit
        BY <2>0, <3>1, LimitAssumption DEF Coherent, Active, Count, Latch, TypeOK
      <3>3. ~led /\ led' => counter = 0 /\ switch
        BY <2>0, <3>1, LimitAssumption DEF Coherent, Active, Count, Latch, TypeOK
      <3>4. QED
        BY <3>2, <3>3
    <2>2. CASE ~RtuTick
      <3>1. led' = led
        BY <1>1, <2>2
        DEF Next, Tick, Operator, LinkTick, IedTick, MoveSwitch, WriteEstop, VizReadLed,
            VizReadEstop, VizPublish, VizPollFails, rtuVars, vars
      <3>2. QED
        BY <3>1
    <2>3. QED
      BY <2>1, <2>2
  <1>2. QED
    BY <1>1, Invariance, PTL DEF Spec, StopWindow
=============================================================================
