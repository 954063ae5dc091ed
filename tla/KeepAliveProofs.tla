--------------------------- MODULE KeepAliveProofs ---------------------------
(***************************************************************************)
(* KeepAlive for every Period, Stall and Timeout: type correctness, and the*)
(* deadline by which the relay is on again, or off with the filter.        *)
(***************************************************************************)
EXTENDS KeepAlive, TLAPS

\* How long a write under way may wait for the slave.
Stalled == IF spc = "mirroring" THEN stimer ELSE IF stimer = 0 THEN Stall ELSE 0

\* The master is connected only to a slave that serves and waits for a reply exactly
\* while a write is under way or its reply was dropped; the timeout outlasts the stall
\* a write waits for; and the mirror holds the coil it read.
Wired ==
  /\ linked => Serves /\ mpc \in {"sleep", "reply"}
  /\ mpc = "reply" => linked /\ (wire # "none" \/ foreign) /\ mtimer <= Timeout
  /\ mpc # "reply" => wire = "none" /\ ~foreign /\ mtimer <= Period
  /\ wire # "none" => mtimer > 0
  /\ wire \in {"on", "off"} => mtimer > Stalled
  /\ spc = "serving" => stimer <= Period
  /\ spc = "mirroring" => stimer <= Stall /\ on = coil
  /\ ~Calm => due > Recovery

\* The coil is as the filter wants it and nothing under way changes it.
Held == coil = ~filter /\ (wire \in {"on", "off"} => wire = Sent)

\* The ticks that are left until the relay follows, at most: until the coil is held,
\* a write under way waits for a mirror that is stalled, one that passed before the
\* filter moved is followed by another sleep or by the timeout, and a reading that
\* comes before the write by another stall.
ToGo ==
  IF Held THEN stimer + (IF spc = "mirroring" THEN 0 ELSE Stall)
  ELSE IF wire = Sent THEN Stalled + Period + Stall
  ELSE IF wire = "none" \/ foreign THEN mtimer + Period + 2 * Stall
  ELSE IF wire = "reply" THEN 2 * Period + 2 * Stall
  ELSE Stalled + 2 * Period + 2 * Stall

OnTime == Calm => (Held /\ relay = ~filter) \/ ToGo < due

IInv == TypeOK /\ Wired /\ OnTime

-----------------------------------------------------------------------------
LEMMA InitOK == Init => IInv
  <1> SUFFICES ASSUME Init PROVE IInv
    OBVIOUS
  <1> USE DEF Init
  <1>1. TypeOK
    <2>1. /\ 0 \in 0..(IF Period > Stall THEN Period ELSE Stall)
          /\ due \in 0..(Recovery + 1 + Timeout)
      BY PeriodAssumption, StallAssumption, TimeoutAssumption DEF Recovery
    <2>2. mtimer \in 0..Period \union 0..Timeout
      BY PeriodAssumption
    <2>3. QED
      BY <2>1, <2>2 DEF TypeOK
  <1>2. Wired
    BY PeriodAssumption, StallAssumption DEF Wired, Recovery
  <1>3. OnTime
    BY DEF OnTime, Calm
  <1>4. QED
    BY <1>1, <1>2, <1>3 DEF IInv

\* The master's steps disturb nothing; the write is due when its sleep is over.
LEMMA MasterKeeps == IInv /\ Master => IInv'
  <1> SUFFICES ASSUME IInv, Master PROVE IInv'
    OBVIOUS
  <1> USE PeriodAssumption, StallAssumption, TimeoutAssumption DEF IInv, TypeOK
  <1>1. CASE MasterBoot
    BY <1>1 DEF MasterBoot, slaveVars, pathVars, Wired, OnTime, Calm, Serves
  <1>2. CASE MasterConnect
    BY <1>2 DEF MasterConnect, slaveVars,
       Wired, OnTime, ToGo, Stalled, Held, Sent, Recovery, Calm, Serves
  <1>3. CASE MasterWrite
    BY <1>3 DEF MasterWrite, slaveVars,
       Wired, OnTime, ToGo, Stalled, Held, Sent, Recovery, Calm, Serves
  <1>4. CASE MasterHear
    BY <1>4 DEF MasterHear, slaveVars,
       Wired, OnTime, ToGo, Stalled, Held, Sent, Recovery, Calm, Serves
  <1>5. CASE MasterDrop
    BY <1>5 DEF MasterDrop, masterVars, slaveVars,
       Wired, OnTime, ToGo, Stalled, Held, Sent, Recovery, Calm, Serves
  <1>6. CASE MasterResend
    BY <1>6 DEF MasterResend, slaveVars,
       Wired, OnTime, ToGo, Stalled, Held, Sent, Recovery, Calm, Serves
  <1>7. CASE Reconnect
    BY <1>7 DEF Reconnect, masterVars, slaveVars,
       Wired, OnTime, ToGo, Stalled, Held, Sent, Recovery, Calm, Serves
  <1>8. QED
    BY <1>1, <1>2, <1>3, <1>4, <1>5, <1>6, <1>7 DEF Master

LEMMA SlaveKeeps == IInv /\ (Slave \/ SlaveStart) => IInv'
  <1> SUFFICES ASSUME IInv, Slave \/ SlaveStart PROVE IInv'
    OBVIOUS
  <1> USE PeriodAssumption, StallAssumption, TimeoutAssumption DEF IInv, TypeOK
  <1>1. CASE SlaveStart
    BY <1>1 DEF SlaveStart, ChangeON, masterVars, pathVars, Wired, OnTime, Calm, Serves
  <1>2. CASE SlaveServe
    <2>1. /\ spc = "starting" /\ spc' = "serving" /\ stimer' = Period
          /\ coil' = FALSE /\ relay' \in BOOLEAN /\ zone1' \in BOOLEAN
          /\ UNCHANGED <<on, mpc, mtimer, linked, wire, foreign, filter, broker, due>>
      BY <1>2 DEF SlaveServe, Changed, masterVars, pathVars
    <2>2. ~linked /\ due > Recovery
      BY <2>1 DEF Wired, Calm, Serves
    <2>3. stimer' \in 0..(IF Period > Stall THEN Period ELSE Stall)
      BY <2>1
    <2>4. coil' \in BOOLEAN
      BY <2>1, Zenon
    <2>5. TypeOK'
      BY <2>1, <2>3, <2>4
    <2>6. Wired' /\ OnTime'
      BY <2>1, <2>2 DEF Wired, OnTime, Calm, Serves
    <2>7. QED
      BY <2>5, <2>6
  <1>3. CASE SlaveExecute
    BY <1>3 DEF SlaveExecute, masterVars,
       Wired, OnTime, ToGo, Stalled, Held, Sent, Recovery, Calm, Serves
  <1>4. CASE SlaveRead
    BY <1>4 DEF SlaveRead, Mirror, ChangeON, masterVars, pathVars,
       Wired, OnTime, ToGo, Stalled, Held, Sent, Recovery, Calm, Serves
  <1>5. CASE SlaveMirror
    BY <1>5 DEF SlaveMirror, Changed, masterVars, pathVars,
       Wired, OnTime, ToGo, Stalled, Held, Sent, Recovery, Calm, Serves
  <1>6. QED
    BY <1>1, <1>2, <1>3, <1>4, <1>5 DEF Slave

LEMMA HangBound == TypeOK /\ Wired => Hang \in 0..Timeout /\ Recovery \in Nat
  BY PeriodAssumption, StallAssumption, TimeoutAssumption DEF TypeOK, Wired, Hang, Recovery

\* Wherever a disturbance strikes, what is left is at most Recovery and the hang.
LEMMA AfterDisturbance == TypeOK /\ Wired /\ due = Recovery + 1 + Hang => OnTime
  BY PeriodAssumption, StallAssumption, TimeoutAssumption
  DEF TypeOK, Wired, OnTime, ToGo, Stalled, Recovery, Hang, Calm, Serves

LEMMA OthersKeep ==
  IInv /\ (SlaveDown \/ MoveFilter \/ MoveBroker \/ \E b \in BOOLEAN : ClientWrite(b)) => IInv'
  <1> SUFFICES ASSUME IInv, SlaveDown \/ MoveFilter \/ MoveBroker \/ \E b \in BOOLEAN : ClientWrite(b)
               PROVE IInv'
    OBVIOUS
  <1> USE PeriodAssumption, StallAssumption, TimeoutAssumption DEF IInv, TypeOK
  <1>1. CASE SlaveDown
    <2>1. /\ mpc' \in {"boot", "connect", "sleep"} /\ mtimer' \in 0..Period
          /\ spc' = "down" /\ stimer' = 0 /\ due' = Recovery + 1
          /\ linked' = FALSE /\ wire' = "none" /\ foreign' = FALSE
          /\ UNCHANGED <<coil, on, relay, zone1, filter, broker>>
      BY <1>1 DEF SlaveDown, masterVars, Wired
    <2>2. /\ due' \in 0..(Recovery + 1 + Timeout)
          /\ 0 \in 0..(IF Period > Stall THEN Period ELSE Stall)
      BY <2>1 DEF Recovery
    <2>3. linked' \in BOOLEAN /\ ~linked'
      BY <2>1
    <2>4. TypeOK'
      BY <2>1, <2>2, <2>3
    <2>5. Wired' /\ OnTime'
      BY <2>1, <2>3 DEF Wired, OnTime, Calm, Recovery
    <2>6. QED
      BY <2>4, <2>5
  <1>2. CASE MoveFilter
    <2>1. /\ filter' = ~filter /\ due' = Recovery + 1 + Hang
          /\ UNCHANGED <<masterVars, slaveVars, pathVars, broker>>
      BY <1>2 DEF MoveFilter
    <2>2. TypeOK'
      BY <2>1, HangBound DEF masterVars, slaveVars, pathVars
    <2>3. Wired'
      BY <2>1, HangBound DEF Wired, Stalled, Calm, Serves, masterVars, slaveVars, pathVars
    <2>4. OnTime'
      <3>1. Hang' = Hang
        BY <2>1 DEF Hang, masterVars, pathVars
      <3>2. (due = Recovery + 1 + Hang)'
        BY <2>1, <3>1 DEF Recovery
      <3>3. QED
        BY <2>2, <2>3, <3>2, AfterDisturbance, PTL
    <2>5. QED
      BY <2>2, <2>3, <2>4
  <1>3. CASE MoveBroker
    BY <1>3 DEF MoveBroker, masterVars, slaveVars, pathVars,
       Wired, OnTime, ToGo, Stalled, Held, Sent, Recovery, Calm, Serves
  <1>4. CASE \E b \in BOOLEAN : ClientWrite(b)
    <2>1. /\ coil' \in BOOLEAN /\ due' = Recovery + 1 + Hang /\ spc = "serving"
          /\ UNCHANGED <<spc, stimer, on, relay, zone1, masterVars, pathVars, filter, broker>>
      BY <1>4 DEF ClientWrite
    <2>2. TypeOK'
      BY <2>1, HangBound DEF masterVars, pathVars
    <2>3. Wired'
      BY <2>1, HangBound DEF Wired, Stalled, Calm, Serves, masterVars, pathVars
    <2>4. OnTime'
      <3>1. Hang' = Hang
        BY <2>1 DEF Hang, masterVars, pathVars
      <3>2. (due = Recovery + 1 + Hang)'
        BY <2>1, <3>1 DEF Recovery
      <3>3. QED
        BY <2>2, <2>3, <3>2, AfterDisturbance, PTL
    <2>5. QED
      BY <2>2, <2>3, <2>4
  <1>5. QED
    BY <1>1, <1>2, <1>3, <1>4

\* A tick brings the relay one tick nearer, for nothing that is due waits.
LEMMA TickKeeps == IInv /\ Tick => IInv'
  BY PeriodAssumption, StallAssumption, TimeoutAssumption
  DEF IInv, TypeOK, Tick, MasterSleeps, SlaveSleeps, WireBlocked, Left, pathVars, Wired, OnTime,
      ToGo, Stalled, Held, Sent, Recovery, Calm, Serves

LEMMA Invariance == Spec => []IInv
  <1>1. IInv /\ UNCHANGED vars => IInv'
    BY DEF IInv, TypeOK, Wired, OnTime, ToGo, Stalled, Held, Sent, Calm, Serves, vars, masterVars,
           slaveVars, pathVars
  <1>2. IInv /\ [Next]_vars => IInv'
    BY <1>1, MasterKeeps, SlaveKeeps, OthersKeep, TickKeeps DEF Next, Others
  <1>3. QED
    BY <1>2, InitOK, PTL DEF Spec

\* Every variable keeps its type, whatever Period, Stall and Timeout are.
THEOREM TypeCorrect == Spec => []TypeOK
  <1>1. IInv => TypeOK
    BY DEF IInv
  <1>2. QED
    BY <1>1, Invariance, PTL

\* Past the deadline the relay and the coil follow the filter.
LEMMA PastDeadline == IInv /\ due = 0 => relay = ~filter /\ coil = ~filter
  <1> SUFFICES ASSUME IInv, due = 0 PROVE relay = ~filter /\ coil = ~filter
    OBVIOUS
  <1> USE PeriodAssumption, StallAssumption, TimeoutAssumption DEF IInv, TypeOK
  <1>1. Calm
    BY DEF Wired, Recovery
  <1>2. ~(ToGo < due)
    BY DEF ToGo, Stalled
  <1>3. QED
    BY <1>1, <1>2 DEF OnTime, Held

\* The relay is back on by the deadline, for every Period, Stall and Timeout: Recovery
\* ticks after the last disturbance, and a timeout later if the filter has changed the
\* id of the request under way.
THEOREM RecoversInTime == Spec => []Recovers
  <1>1. IInv => Recovers
    BY PastDeadline DEF Recovers
  <1>2. QED
    BY <1>1, Invariance, PTL

\* ... and off by it, with the filter on the path, also when another client writes the
\* coil while the master waits for a reply that was dropped.
THEOREM TripsInTime == Spec => []Trips
  <1>1. IInv => Trips
    BY PastDeadline DEF Trips
  <1>2. QED
    BY <1>1, Invariance, PTL
=============================================================================
