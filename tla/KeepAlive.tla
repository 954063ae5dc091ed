------------------------------ MODULE KeepAlive ------------------------------
(***************************************************************************)
(* mitm-modbus: the master's keep-alive write (master/master.py), the      *)
(* slave that serves the coil and mirrors it onto the relay and the        *)
(* dashboard (slave/slave.py), and the filter on the wire between them     *)
(* (etter.filter.modbus).  The filter replaces every byte 0xFF of a        *)
(* request: the written TRUE turns into FALSE, and a transaction id that   *)
(* contains the byte, of about one request in 128, into another, by which  *)
(* the master does not know the reply.                                     *)
(*                                                                         *)
(* Time advances in ticks (Tick); both programs sleep Period ticks and act *)
(* in the tick their sleep ends.  Messages take no time, but a broker that *)
(* does not answer keeps changeON, and with it the slave's event loop,     *)
(* busy for Stall ticks.                                                   *)
(***************************************************************************)
EXTENDS Integers

CONSTANTS Period,   \* 5 s: the sleep of either program
          Stall,    \* the connect timeout of the MQTT client
          Timeout   \* 100000 s: how long the master waits for a reply

ASSUME PeriodAssumption == Period \in Nat \ {0}
ASSUME StallAssumption == Stall \in Nat
ASSUME TimeoutAssumption == Timeout \in Nat /\ Timeout > Stall

VARIABLES
  mpc, mtimer,   \* the master, and what is left of its sleep or of its timeout
  linked,        \* its connection to the slave
  wire,          \* what is under way: nothing, the value of a write, or its reply
  foreign,       \* the filter has changed the id of the request waited for
  spc, stimer,   \* the slave, and what is left of its sleep or stall
  coil,          \* coil 1 of the slave's datastore
  on,            \* the argument of the changeON under way
  relay,         \* the GPIO pin
  zone1,         \* what the dashboard was told last
  filter,        \* the filter is on the path
  broker,        \* how the broker answers
  due            \* history: ticks in which the relay must have followed the filter

masterVars == <<mpc, mtimer>>
slaveVars  == <<spc, stimer, coil, on, relay, zone1>>
pathVars   == <<linked, wire, foreign>>
vars == <<masterVars, slaveVars, pathVars, filter, broker, due>>

\* A disturbance is over in this many ticks: the sleeps before the next write and
\* before the reading after it, and the stalls that a write already under way, the
\* next write and that reading meet when the broker does not answer.
Recovery == 2 * Period + 3 * Stall

\* A master that waits for a reply it will not know writes nothing before its timeout.
Hang == IF foreign THEN mtimer ELSE 0

TypeOK ==
  /\ mpc \in {"boot", "connect", "sleep", "reply"} /\ mtimer \in 0..Period \union 0..Timeout
  /\ linked \in BOOLEAN /\ wire \in {"none", "on", "off", "reply"} /\ foreign \in BOOLEAN
  /\ spc \in {"down", "starting", "serving", "mirroring"}
  /\ stimer \in 0..(IF Period > Stall THEN Period ELSE Stall)
  /\ coil \in BOOLEAN /\ on \in BOOLEAN /\ relay \in BOOLEAN /\ zone1 \in BOOLEAN
  /\ filter \in BOOLEAN
  /\ broker \in {"up", "refuses", "silent"}
  /\ due \in 0..(Recovery + 1 + Timeout)

Init ==
  /\ mpc = "boot" /\ mtimer = Period
  /\ linked = FALSE /\ wire = "none" /\ foreign = FALSE
  /\ spc = "down" /\ stimer = 0
  /\ coil = FALSE /\ on = TRUE /\ relay = FALSE /\ zone1 = TRUE
  /\ filter = FALSE
  /\ broker \in {"up", "refuses", "silent"}
  /\ due = Recovery + 1

Serves == spc \in {"serving", "mirroring"}

-----------------------------------------------------------------------------
(* The master                                                               *)

MasterBoot ==
  /\ mpc = "boot" /\ mtimer = 0
  /\ mpc' = "connect"
  /\ UNCHANGED <<mtimer, slaveVars, pathVars, filter, broker, due>>

\* A failed connect is repeated after a sleep; a connection starts the writes.
MasterConnect ==
  /\ mpc = "connect" /\ mtimer = 0
  /\ mtimer' = Period
  /\ linked' = Serves
  /\ mpc' = IF Serves THEN "sleep" ELSE "connect"
  /\ UNCHANGED <<wire, foreign, slaveVars, filter, broker, due>>

SentAsWritten == "on"   \* mutant: the filter passes the write on as it is
Sent == IF filter THEN "off" ELSE "on"

\* write_coil(1, True), with or without the byte 0xFF in the transaction id.  Without
\* a connection it raises, and the loop sleeps again.
MasterWrite ==
  /\ mpc = "sleep" /\ mtimer = 0
  /\ \/ /\ linked
        /\ wire' = Sent
        /\ \E marked \in BOOLEAN : foreign' = (filter /\ marked)
        /\ mpc' = "reply" /\ mtimer' = Timeout
     \/ /\ ~linked
        /\ mtimer' = Period /\ UNCHANGED <<wire, foreign, mpc>>
  /\ UNCHANGED <<linked, slaveVars, filter, broker, due>>

MasterHear ==
  /\ mpc = "reply" /\ wire = "reply" /\ ~foreign
  /\ wire' = "none" /\ mpc' = "sleep" /\ mtimer' = Period
  /\ UNCHANGED <<linked, foreign, slaveVars, filter, broker, due>>

\* A reply with an id nobody waits for is dropped, and the wait goes on ...
MasterDrop ==
  /\ mpc = "reply" /\ wire = "reply" /\ foreign
  /\ wire' = "none"
  /\ UNCHANGED <<masterVars, linked, foreign, slaveVars, filter, broker, due>>

\* ... until the timeout: the client sends the same request, id included, again.  It
\* has a million retries.
MasterResend ==
  /\ mpc = "reply" /\ mtimer = 0
  /\ wire' = Sent /\ foreign' = (filter /\ foreign)
  /\ mtimer' = Timeout
  /\ UNCHANGED <<mpc, linked, slaveVars, filter, broker, due>>

\* The Modbus client opens a lost connection again by itself, in its own time.
Reconnect ==
  /\ ~linked /\ Serves /\ mpc = "sleep"
  /\ linked' = TRUE
  /\ UNCHANGED <<masterVars, wire, foreign, slaveVars, filter, broker, due>>

-----------------------------------------------------------------------------
(* The slave                                                                *)

\* changeON(v) until the broker has answered or the client has given up ...
ChangeON(v) == on' = v /\ stimer' = IF broker = "silent" THEN Stall ELSE 0

\* ... and after that: the pin is set whether or not the dashboard was told.
ChangedQuietly ==   \* mutant: tells the dashboard of a change of the pin only
  /\ relay' = on
  /\ zone1' = IF broker = "up" /\ on # relay THEN on ELSE zone1
Changed ==
  /\ relay' = on
  /\ zone1' = IF broker = "up" THEN on ELSE zone1

SlaveStart ==
  /\ spc = "down"
  /\ ChangeON(TRUE)
  /\ spc' = "starting"
  /\ UNCHANGED <<coil, relay, zone1, masterVars, pathVars, filter, broker, due>>

\* The datastore starts with every coil FALSE; then the server and the mirror run.
SlaveServe ==
  /\ spc = "starting" /\ stimer = 0
  /\ Changed
  /\ coil' = FALSE
  /\ spc' = "serving" /\ stimer' = Period
  /\ UNCHANGED <<on, masterVars, pathVars, filter, broker, due>>

\* changeON blocks the event loop, so no write is served while it waits.
SlaveExecute ==
  /\ spc = "serving" /\ wire \in {"on", "off"}
  /\ coil' = (wire = "on")
  /\ wire' = "reply"
  /\ UNCHANGED <<spc, stimer, on, relay, zone1, masterVars, linked, foreign, filter, broker, due>>

\* shutdown_coil: read the coil, tell the dashboard, set the pin.
ChangeOffOnly == ChangeON(FALSE)   \* mutant: the mirror of before, which never switches on
Mirror == ChangeON(coil)

SlaveRead ==
  /\ spc = "serving" /\ stimer = 0
  /\ Mirror
  /\ spc' = "mirroring"
  /\ UNCHANGED <<coil, relay, zone1, masterVars, pathVars, filter, broker, due>>

SlaveMirror ==
  /\ spc = "mirroring" /\ stimer = 0
  /\ Changed
  /\ spc' = "serving" /\ stimer' = Period
  /\ UNCHANGED <<coil, on, masterVars, pathVars, filter, broker, due>>

-----------------------------------------------------------------------------
(* What disturbs them                                                       *)

\* The slave ends; a write that waits for its reply fails with the connection, a
\* reply that was dropped included, and the master sleeps.  The pin keeps its level, and nothing but an operator starts the slave again.
SlaveDown ==
  /\ spc # "down"
  /\ spc' = "down" /\ stimer' = 0
  /\ linked' = FALSE /\ wire' = "none" /\ foreign' = FALSE
  /\ \/ mpc = "reply" /\ mpc' = "sleep" /\ mtimer' = Period
     \/ mpc # "reply" /\ UNCHANGED masterVars
  /\ due' = Recovery + 1
  /\ UNCHANGED <<coil, on, relay, zone1, filter, broker>>

MoveFilter ==
  /\ filter' = ~filter
  /\ due' = Recovery + 1 + Hang
  /\ UNCHANGED <<masterVars, slaveVars, pathVars, broker>>

\* Another client (the sidecar's panel) writes the coil.
ClientWrite(b) ==
  /\ spc = "serving"
  /\ coil' = b
  /\ due' = Recovery + 1 + Hang
  /\ UNCHANGED <<spc, stimer, on, relay, zone1, masterVars, pathVars, filter, broker>>

MoveBroker ==
  /\ broker' \in {"up", "refuses", "silent"} \ {broker}
  /\ UNCHANGED <<masterVars, slaveVars, pathVars, filter, due>>

-----------------------------------------------------------------------------
\* Nothing that is due waits for a tick, except a write for a blocked slave.
MasterSleeps == mtimer > 0
SlaveSleeps  == spc # "down" => stimer > 0
WireBlocked  == wire = "none" \/ (wire # "reply" /\ spc = "mirroring")

LeftOver(t) == t - 1   \* mutant
Left(t) == IF t > 0 THEN t - 1 ELSE 0

Calm == linked /\ Serves

Tick ==
  /\ MasterSleeps /\ SlaveSleeps /\ WireBlocked
  /\ mtimer' = Left(mtimer)
  /\ stimer' = Left(stimer)
  /\ due' = IF Calm THEN Left(due) ELSE Recovery + 1
  /\ UNCHANGED <<mpc, pathVars, spc, coil, on, relay, zone1, filter, broker>>

Master == MasterBoot \/ MasterConnect \/ MasterWrite \/ MasterHear \/ MasterDrop \/ MasterResend
          \/ Reconnect
Slave  == SlaveServe \/ SlaveExecute \/ SlaveRead \/ SlaveMirror
Others == SlaveStart \/ SlaveDown \/ MoveFilter \/ MoveBroker \/ \E b \in BOOLEAN : ClientWrite(b)

Next == Master \/ Slave \/ Others \/ Tick

Spec == Init /\ [][Next]_vars

\* Both processes run and time passes; nobody owes a disturbance or its end.
FairSpec == Spec /\ WF_vars(Master) /\ WF_vars(Slave) /\ WF_vars(Tick)

-----------------------------------------------------------------------------
\* The relay is back on at most Recovery ticks after the last disturbance, and
\* stays on while nothing disturbs the keep-alive again, whatever the broker does in
\* the meantime.  A filter that was taken off the path leaves one trace: if it has
\* changed the id of the request under way, what is left of the timeout comes first.
Recovers == due = 0 /\ ~filter => relay /\ coil

\* With the filter on the path the relay is off by the same deadline, and stays off:
\* what another client wrote stands while the master waits for its timeout.
Trips == due = 0 /\ filter => ~relay /\ ~coil

\* A dashboard that was out of reach when the pin changed learns of it: with a
\* slave and a broker that stay up, the two agree whenever no changeON is under way.
BoardAgrees ==
  <>[](broker = "up" /\ Serves) => <>[](spc = "serving" => zone1 = relay)
=============================================================================
