# TLA+ verification of the ICS Village wind challenge

Specifications, model-checking runs and proofs for the programs of this repository:
the protection of a wind turbine (`bh-intellirupter`), the e-stop over DNP3
(`dnpchallenge`), the Modbus keep-alive (`mitm-modbus`), the status board that
shows them all (`mqtthelper`, `viz`), and the panel that watches and writes them
(`audit-sidecar`). Everything is translated from the sources; where a
document of the repository says something the code does not do, a run shows it.

    cd tla
    tlc -workers 2 -config KeepAlive.cfg KeepAlive     # one run, see "Runs"
    tlapm EStopProofs.tla                              # one proof module

## 1. Inventory

### 1.1 Components

| Component | Source | State it keeps | Operations | Correct when |
|---|---|---|---|---|
| PLC program | `bh-intellirupter/fixedfinal.st` | inputs, coils, counter `CTU0`, timer `TOF0`, `Ttime` | one scan every 20 ms; coils written by Modbus clients | faults are counted once each, held, and forgotten only after the quiet time or by an operator |
| RTU | `bh-intellirupter/rtu/rtu-speaker.py` | two TCP connections, where its loop is, its broker connection | connect, sense and send, hear, pulse coil 1, read Turbine and publish zone5 | it acts on the verdict of the reading it just sent, and always gets one; a pulse that raises coil 1 counts once, one that does not counts nothing; zone5 shows the turbine |
| HMI | `bh-intellirupter/hmi.py` | two listening ports, one pair of connections | accept a pair, judge a reading, answer, hang up | a pair belongs to one RTU; every reading is answered |
| RTU logic | `dnpchallenge/rtuconfig.xml` | `led`, `counter`, `control` | one logic pass a second | an e-stop holds for its window, then lets go |
| IED logic | `dnpchallenge/iedconfig.xml` | `control`, `estop`, `turbine` | one logic pass a second | the turbine stops while the control point or its own tag says so |
| e-stop helper | `dnpchallenge/vizhelper.py` | two polled values | poll RTU, poll IED, publish zone2 | zone2 shows the turbine |
| master | `mitm-modbus/master/master.py` | connection, sleep, the request it waits for | connect, write coil 1 every 5 s, resend after a timeout | the slave is told again after anything that goes wrong |
| slave | `mitm-modbus/slave/slave.py` | coil 1, relay pin | serve Modbus, mirror the coil every 5 s, publish zone1 | relay and dashboard follow the coil |
| filter | `mitm-modbus/etter.filter.modbus` | none | replaces every byte 0xFF of a request: the written TRUE, and in about one request of 128 the transaction id | leaves nothing behind when it is gone, but a master that waits for a reply with the id it sent |
| zone helper | `mqtthelper/MQTTHelper.py` | table of challenge zones | hear a zone, check all, publish two pins | the pins are overridden exactly while every challenge has stopped |
| board server | `viz/server.js` | broker connection, sockets | subscribe, forward | every open page gets every zone |
| board page | `viz/public/main.js` | `zoneState` | show a message | shows every zone as it was published last |
| broker | `viz/docker-compose.yml`, `viz/mosquitto.conf` | subscriptions | forward | third party |
| sidecar: capture | `audit-sidecar/sidecar.py` | ring of 500 events, one thread per interface | capture, retry, list for a tab | the ring keeps each network's order; a tab shows its network whatever the others send |
| sidecar: elements | `audit-sidecar/sidecar.py`, `challenges.py` | none; the page keeps the values it shows | read, write, answer, show | a value shown is the device's; a write reported as done was done |

How they interact: the RTU polls the PLC and writes its coil 1 over Modbus; RTU and HMI
talk over two TCP connections; the RTU's logic commands the IED over a DNP3 output point;
master and slave talk Modbus through a path the filter may sit on; every challenge
publishes one zone to the broker (QoS 0, not retained), the zone helper hears zone1, zone2
and zone5 and publishes zone3 and zone4; the board server forwards all of them to the
pages by Socket.IO. The sidecar's panel writes the same coils and tags as the programs.

### 1.2 What is hard

* **Interleaving**: Modbus writes between PLC scans; the RTU's pulse against the panel;
  the MQTT callback thread against the main loop of the zone helper; three periodic
  programs in no fixed order in the e-stop.
* **Crash and restart**: compose restarts the RTU for ever, its half-made connections
  stay in the HMI's backlog; the zone helper restarts with an empty table; the slave does
  not restart at all.
* **Lost and merged messages**: TCP has no message boundaries; MQTT without retention
  loses what nobody listens to, and every subscription at a reconnect.
* **Time**: the off-delay timer's equality test one scan late, the 60 s e-stop window,
  two sleeping loops and a blocking broker call between them, a reply that is waited for
  100000 s.
* **Failures nobody looks at**: the RTU's writes of coil 1 return an error object that is
  not read, the helpers' publications are dropped without a connection.
* **Stale state**: the helper's two polls, a page's initial "Normal", the elapsed time
  that stays at its preset, a page whose requests overtake each other.
* **A bounded ring** that all networks share, and a list cut to its newest rows.

`PROJECT.json` lists each hazard with its line and the properties that cover it. The
repository has no tests.

## 2. Modules

| Module | Models | Composes |
|---|---|---|
| `ProtectionRelay` | abstract: what the turbine protection promises | |
| `TurbinePLC` | `fixedfinal.st` on the OpenPLC runtime | implements `ProtectionRelay` |
| `TurbinePLCProofs` | proofs | extends `TurbinePLC` |
| `FaultExchange` | abstract: what the control loop promises | |
| `FaultLoop` | `rtu-speaker.py` and `hmi.py` | implements `FaultExchange` |
| `FaultLoopProofs` | proofs | extends `FaultLoop` |
| `BhIntellirupter` | the sleeps, zone5 and broker connection of `rtu-speaker.py`, the panel | `FaultLoop`, `TurbinePLC` |
| `BhIntellirupterProofs` | proofs | extends `BhIntellirupter` |
| `BhCompositionProofs` | proofs | extends `BhIntellirupterProofs`, instantiates `FaultLoopProofs` and `TurbinePLCProofs` |
| `EStop` | `rtuconfig.xml`, `iedconfig.xml`, `vizhelper.py` | |
| `EStopProofs` | proofs | extends `EStop` |
| `KeepAlive` | `master.py`, `slave.py`, `etter.filter.modbus` | |
| `KeepAliveProofs` | proofs | extends `KeepAlive` |
| `ZoneHelper` | `MQTTHelper.py` | |
| `Dashboard` | `server.js`, `public/main.js` | |
| `StatusBoard` | the broker and the publishers | `ZoneHelper`, `Dashboard` |
| `StatusBoardProofs` | proofs | extends `StatusBoard` |
| `EventFeed` | `sidecar.py`: sniffers, ring, event list, the page's table | |
| `ElementPanel` | `sidecar.py`: reads and writes of an element | |
| `AuditSidecar` | one process, one page | `EventFeed`, `ElementPanel` |
| `AuditSidecarProofs` | proofs | extends `AuditSidecar` |

The modules have no bounds beyond their CONSTANTS, so a configuration instantiates a
specification module directly. Definitions marked `mutant` are wrong variants of the
definition that follows them. No specification uses them: they serve to show that a
property can fail.

### 2.1 TurbinePLC

One variable per located variable of the program, one record per function block. A scan is
one action (`ScanCycle`): the runtime holds its buffer lock from the input refresh to the
output update, so a Modbus write cannot fall inside. Statement order is kept by using
primed or unprimed variables: `Turbine` reads `Fault` (line 20 assigned it to `Trip`), `CTU0`
reads the `Reset` of the scan before, `Reset` reads the `Ttime` of the scan before.
`CTU`, `TOF` and `R_TRIG` are the runtime's standard blocks, modelled from their IEC 61131-3
definitions. A scan advances the timers by one unit, so `PT` counts scans (750 in the
program). The sensor and voltage inputs may have any value at each scan. `ClientWrite` is
a Modbus client writing `Trip`, `Fault` or `Reset`, any of them at any time.

`ProtectionRelay` knows neither timer states nor the Reset coil: it counts rising edges up
to `PV` and may forget them only when a clear is *due*, after `PT` quiet scans or on an
operator's order. The refinement maps `due` to `Reset \/ Ttime = PT`, which hides the two
scans by which the coil lags behind the timer.

### 2.2 FaultLoop

Each life of the RTU process has a number that names its two connections. The backlogs,
the bytes under way in each direction and the closed ends are explicit, and so is every
place where either process may end. `RtuHear` may receive several verdicts run together;
`HmiUnpackFails` is the exception of `struct.unpack` on two readings run together. A closed
connection makes the RTU's inner loop spin: no step changes its state, so the action is
just not enabled. `WriteCoil` is what `write_coil` does when its result is not looked at
(`rtu-speaker.py:136,138`): the coil has the new value, or the PLC refused the write or did
not answer it and the coil is as before, and the loop goes on in either case. A write that
is not answered takes effect by the time the call gives up or not at all. A read that
returns an error ends the process, because its bits are used. The history variable `cut` records that one connection of a pair was made
and the other was not; what is promised of the loop holds until then, and
`FaultLoopDeadlock.cfg` shows what happens after.

`NoStandoff` is the safety side of `Answered`: an RTU that waits for a verdict over a whole
pair never waits for an HMI that waits itself. `EachStepNearer` bounds the wait: `Left`
counts what the HMI has still to accept, answer and hang up on, and every step of either
process takes from it while the RTU waits.

`FaultExchange` knows no processes, connections or queues: a reading is asked about, gets
the verdict the band demands, and the verdict is acted on before the next reading; raising
and releasing the coil may fail unnoticed, an exchange may be given up, and nothing is promised once the loop is broken. The refinement
maps the verdict to the one under way while the RTU listens and to the one it heard while
it acts, so connecting, queueing and hanging up are stuttering.

### 2.3 EStop

`RtuTick`, `LinkTick` and `IedTick` are a pass of the RTU's logic, the transfer of binary
output 10 and a pass of the IED's logic. All three have a period of one second: in each
second each runs once, in any order (`owes`). The counter of a held switch grows for ever in
the code; only whether it is 0, below `Limit` or not below it matters, so it stops at
`Limit` in the model. The helper's two HTTP polls are two actions at any distance; a poll
may fail. The switch and the IED's own `estop` tag move freely. The panel can also write
`turbine.control` itself; the model leaves that out, because it is an order to the turbine
and not part of the e-stop.

### 2.4 KeepAlive

Time is counted in ticks. Both programs sleep `Period` ticks (5 s), and nothing that is due
waits for the next tick (`Tick`'s guard), except a write for a slave whose event loop is
blocked. `changeON` is two steps: until the broker has answered (`Stall` ticks when it is
silent), and the pin afterwards. `SlaveDown` has no restart of its own (the compose file
gives none); `SlaveStart` is an operator's.

The filter replaces every byte 0xFF of a request to port 502, so it does two things to a
keep-alive write: the value TRUE (0xFF00) becomes FALSE (`Sent`), and a transaction id that
contains the byte becomes another (`foreign`). Ids count up, so which of them do is left
open at each write (`marked`); an id that becomes 0 matches any request in the client's
library and needs no case of its own. The slave executes such a write and
answers with the id it got; the client drops the answer (`MasterDrop`) and waits `Timeout`
(100000 s, `master.py:35`), after which it sends the same request again (`MasterResend`),
a million times if it must. While it waits the master writes nothing. Only the end of the
connection cuts the wait short (`SlaveDown`).

`due` is history: the ticks in which the relay must have followed the filter. A disturbance
(filter moved, coil written by the panel, slave down, connection lost) sets it to `Recovery`
and, if the id of the request under way has been rewritten, to what is left of the timeout
besides (`Hang`). When it is 0 the relay is on (`Recovers`), or off with the filter on the
path (`Trips`).

### 2.5 ZoneHelper, Dashboard, StatusBoard

`CheckZone` visits one zone of the table per step, in order, with `OnMessage` possible
between any two: the callback runs on a thread of the MQTT library. A lost connection of the
helper loses its subscriptions, and nothing makes them again; the server subscribes in its
connect handler and therefore recovers. A page shows "Normal" for every zone when it is
loaded, and keeps what it shows while its socket is away. `StatusBoard` adds the
publishers: a challenge publishes the state of its turbine whenever it likes, forwarded to
whoever listens at that moment and kept by nobody. `PublishZone` stands for all three
publishers (`rtu-speaker.py`, `vizhelper.py`, `slave.py`), which publish 1 or 0 repeatedly.

`wasDown` is history: the turbines that have stood still at some time since the helper's
process started. `OverrideEarned` says that the override needs all of them in it. That they
stood still together is more than the code keeps: one may run again after its entry was
read, while the others are still being visited. `HelperFollows` says that the next rounds
put this right.

### 2.6 BhIntellirupter

The whole challenge: `FaultLoop` and `TurbinePLC` are instantiated side by side, and the
loop's coil 1 *is* the program's `Fault`. The composition adds what neither module has:

* The RTU's sleeps, counted in scans. The program is scanned every 20 ms, so ten scans fall
  into the 0.2 s of a pulse and 25 into the pause between readings; `NapScans` of them are
  all the model counts on. The proof needs two: one that sees the edge and one in which a
  clear that was due has acted. A container's restart takes longer than a pulse.
* `publish_turbine_zone`, an action of its own after the release (or after a verdict that is
  no fault), so a scan may or may not fall between the two. A read the PLC refuses publishes
  nothing. `mqtt` is "off" for the rest of a life whose first connect failed: `loop_start`
  is never reached and nothing connects again. A connection that was made and lost comes
  back.
* The panel, which writes the program's coils at any moment, also in the middle of a pulse.

`owed`, `cause` and `touched` are history. `owed` is the count a pulse must lead to, fixed
when it begins: one more if the write took effect on a coil that was clear, the same if it
was lost or the coil was raised already, by a release that failed or by a life that ended in
its pulse. It is 0 when a clear is due at that moment; such a clear swallows the fault, as
`EveryFaultCounted` shows. `cause` is the reading the RTU raised coil 1 for, until it has
released it; `touched` says that the panel wrote and no release has left the coil clear
since.

`StopsForCause` spans the whole chain, sensor, HMI, RTU and program: a fault is counted, or
the turbine stopped while there is voltage, only by a raise for a reading outside the band
that was not released yet, unless a pair of connections was cut in half or the panel wrote.
A release that failed therefore counts nothing again. It does keep the turbine stopped and
the next pulse from being counted: the code promises nothing against that, and
`RunsBetweenFaults` says what is left. Whenever coil 1 is found clear outside of a pulse
again and again, the turbine runs again and again, because the loop sleeps long enough for a
scan to see the coil clear before it can be raised for the next reading.

### 2.7 EventFeed, ElementPanel, AuditSidecar

`EventFeed`: an event is the number of its packet on its network. A thread takes the time
stamp and the lock in two places, but does so for one packet after the other; threads of
different networks interleave freely. `local_interfaces` yields an interface once per
address, hence the candidates `Network \X {1, 2}` of `Threads`. `SniffFails` is the 5 s
pause after an exception. The page's requests are a sequence in the order they were made;
the server answers any of them, each from one copy of the ring, and answers reach the page
in any order. `View` is the answer: of the copy, the places that hold an event of the
network (`Hits`), the events there in their order (`Picked`), and of these the first
`Shown` (`Rows`).

`ElementPanel`: a request is answered from the device, or with an error whether or not the
device carried the write out (a lost answer). `Converted` is what the API and the driver
make of the text typed: "0.5" is written as 0 and "yes" is an error. A device that carries
a write out late is `OtherWrite`, as are the challenge's own program and other users.
`sure` is history: it says that the page made one request at a time since its last read,
that none failed or was cut off, and that nobody else wrote.

The two halves share nothing but the process, so a behaviour of `AuditSidecar` exercises
one of them (`use`); `Restart` ends both. The API answers 403 and 404 to requests for
read-only and unknown elements. The page makes none, so these answers are not modelled.

## 3. Runs

| Run | Config | Shows | Bounds |
|---|---|---|---|
| `turbine_plc` | `MCTurbinePLC.cfg` | types; the lamp covers every counted fault; refinement of `ProtectionRelay`; faults are forgotten | `PV` = 3 as in the program, `PT` = 4 |
| `turbine_trip` | `TurbineTrip.cfg` | **violation**: the turbine runs while tripped | |
| `turbine_count` | `TurbineCount.cfg` | **violation**: a fault is swallowed after an automatic clear | |
| `fault_loop` | `FaultLoop.cfg` | pairing, verdicts, lockstep; no standoff, each step nearer the verdict; refinement of `FaultExchange`; answers | 4 RTU lives, 2 HMI starts, backlog 2 |
| `fault_loop_deadlock` | `FaultLoopDeadlock.cfg` | **violation**: RTU and HMI wait for each other | 2 lives, 1 start |
| `e_stop` | `EStop.cfg` | stop in time, window, release, board back to Normal | `Limit` = 6 |
| `e_stop_shown` | `EStopShown.cfg` | **violation**: the e-stop never shows on the board | `Limit` = 6 |
| `keep_alive` | `KeepAlive.cfg` | relay on again, or off with the filter, within a fixed time, and a timeout later after a rewritten id; the board agrees | `Period` = 3, `Stall` = 2, `Timeout` = 14 |
| `status_board` | `StatusBoard.cfg` | the override is informed and earned; override, pages and board become true | 2 challenges, 1 pin zone, 1 page, `Cap` = 1 |
| `bh_intellirupter` | `BhIntellirupter.cfg` | pulses counted as often as they raise coil 1, faults counted and turbine stopped for cause only, `TurbinePLC` implemented, the turbine runs between faults, zone5 true at last | `PV` = 2, `PT` = 3, 2 RTU lives, 1 HMI start, backlog 1, `NapScans` = 2; the panel writes `Fault` |
| `audit_sidecar` | `AuditSidecar.cfg` | order of the ring, quiet networks visible, table follows, values and reports true | 2 networks, one with two addresses; ring of 2, list of 1; 2 packets a network; 2 lists, 3 element requests under way |
| `status_board_lost` | `StatusBoardLost.cfg` | **violation**: a reconnected helper is deaf | no page |

Why the bounds are enough to meet the interesting cases:

* `PT` = 4 separates the timer's start, its running, the scan it elapses in, the scan
  `Ttime` shows it and the scan `Reset` acts; one more scan only repeats "running". The
  proofs cover every `PV` and `PT`.
* Four lives and a backlog of two let the backlog fill with dead lives, overflow into a
  waiting connect, and drain, with the HMI restarted once. `listen(1)` admits two.
* `Limit` = 6 leaves ticks on both sides of the four that `StopsInTime` speaks of; the proof
  covers every `Limit`.
* `Period` = 3 > `Stall` = 2 keeps the order the real values have (5 s and the client's
  connect timeout) and lets the sleeps of master and slave have every phase. `Timeout` = 14
  is longer than `Recovery` = 12, so a master that waits for a reply it will not know misses
  the bound by itself. The proof covers every `Period`, `Stall` and longer `Timeout`.
* Two challenge zones are enough for a torn read of the table, one message under way for a
  stale one; pages do not influence each other.
* `BhIntellirupter`: `PV` = 2 distinguishes a first fault, the trip and a fault beyond it,
  `PT` = 3 leaves room for a pulse within the quiet time and for one that meets a due clear.
  Two lives let one end in its pulse and the next find the coil raised; writes of coil 1 may
  fail without a bound. Two scans a sleep are the fewest for which `CountedOnce` holds. The HMI does not end here: its ends are
  `FaultLoop`'s. Panel writes of `Trip` and `Reset` are `turbine_plc`'s; the proofs cover
  every set of writable coils that has `Fault`, and every `NapScans` from 2.
* `AuditSidecar`: a ring of 2 with a list of 1 is the smallest in which a list is shorter
  than the ring and a busy network fills a whole list while a quiet one is still in the
  ring. Two lists under way are enough for one to overtake the other; three element
  requests for a write, its read and one more.

`fault_loop` runs without the deadlock check: when the HMI has ended for the last time,
the system really stops.

### 3.1 Where documents and code part

1. `TurbineOnlyUntripped` (`bh-intellirupter/README.md:71`): the turbine is computed from
   the Fault coil before the counter decides the trip, so three faults do not stop it for
   longer than the third pulse lasts.
2. `EveryFaultCounted` (`bh-intellirupter/README.md:53`): `Reset` stays TRUE after the quiet
   time until the next fault has been scanned, and swallows that fault.
3. `EveryReadingAnswered` (`bh-intellirupter/README.md:49`): an RTU that ended between its
   two connects leaves an orphan; the restarted RTU and the HMI then wait for each other.
4. `EStopShown` (`docs/ADMIN.md:199`): the helper asks for a tag that the RTU's e-stop
   never sets.
5. `FollowsReconnected` (`docs/ADMIN.md:317`): the zone helper subscribes once; after a
   reconnect its table is frozen.

`docs/ADMIN.md:284` also expects the keep-alive to be back "within one 5s cycle" after the
filter is removed, and `mitm-modbus/README.md:33` has the master "retrying aggressively on
any error". The bound the code keeps is `Recovery` in `KeepAlive`, two periods and up to
three stalls when the broker is silent; and after a write whose transaction id the filter
rewrote, what is left of the 100000 s for which the master waits (`due`).

### 3.2 Fairness

* `TurbinePLC`: `WF` on scans, which the runtime's task never stops. Clients owe nothing.
* `FaultLoop`: `WF` on the steps of either process and on compose's restart of the RTU
  (`restart: always`). Neither ends nor HMI restarts are owed.
* `EStop`: `WF` on the three periodic turns; `SF` on the second poll, because polls may
  fail again and again but not for ever.
* `KeepAlive`: `WF` on both processes' steps and on time. `BoardAgrees` assumes in its
  statement that slave and broker eventually stay up. A rewritten id needs no fairness: the
  filter may rewrite the id of every request that contains the byte, again and again.
* `BhIntellirupter`: `WF` on the RTU's steps, the HMI, the scans, compose's restart and the
  MQTT thread's reconnect; `SF` on `Publish`, because reads of the Turbine coil may fail
  again and again but not for ever. Panel, broker losses and ends of the RTU owe nothing.
  Writes of coil 1 owe nothing either: `RunsBetweenFaults` has as a premise that the coil is
  found clear outside of a pulse again and again. `ZoneFollows` has as premises that the broker connection of the last life lasts, that
  no pair was cut in half, and that the Turbine coil keeps its value at last.
* `AuditSidecar`: `WF` on each thread, the server and the page's handlers; `SF` on the poll,
  which waits for nothing in the code and for `MaxLists` in the model. `TableFollows` has
  as premises that packets and changes of tab stop and that the sidecar stays up.
* `StatusBoard`: `SF` on publications, because `Cap` makes a publisher wait where the real
  one does not; `WF` on handlers and on the libraries' reconnects. Quiet of the world
  (`Settles`) and lasting connections are premises of the properties, never fairness.

## 4. Proofs

All proofs are checked by TLAPS for every value of the constants; the only assumptions
are the named `ASSUME`s beside the constants.

**TurbinePLCProofs** (`PV`, `PT` positive, any set of writable coils).
* `TypeCorrect`: type correctness, by one lemma for the counter, one for the timer and
  one step per action.
* `LampCoversFaults`: `LightUntilReset` is not inductive. The invariant adds what relates
  the timer's state to its output and elapsed time, the program's copies to the blocks'
  values, and that a counter above 0 means the timer has been started.
* `Refinement`: `Spec => Relay!Spec`, from the same invariant; a scan maps to `Observe`, a
  client's write of `Reset` to `Operator`, other writes to stuttering.

**EStopProofs** (`Limit` at least 2).
* `TypeCorrect`; `StopsTurbine` (`StopsInTime`): the invariant follows the command through
  the three turns. What it needs is by how many passes the link and the IED can lag behind
  the counter, given who still `owes` a turn in this second.
* `HoldsWindow` (`StopWindow`): an action property, from the relation of lamp and counter.

**StatusBoardProofs** (any sets of zones and pages, any `Cap`).
* `Informed` (`OverrideInformed`): the invariant adds that the zones visited in this round
  have been heard from, and that a table entry never becomes `None` again while the
  process lives, so messages handled in the middle of a round do no harm.
* `Earned` (`OverrideEarned`): wherever a 0 stands, in a turbine, in a message under way to
  the helper or in its table, its turbine has stood still while this helper ran
  (`Witnessed`), and so has every zone the main loop has passed in this round (`Passed`).
* `TypeCorrect`: among it that a bounded hop never holds more than `Cap`, and that the main
  loop always has a zone left to visit. `BoardAssumption` says that the zones are the
  challenge zones and the pins' zones.

**FaultLoopProofs** (any number of lives and starts, any backlog).
* `TypeCorrect`, with the fact that a life ends only when another may follow and that the
  HMI serves connections that were made (`Served`).
* `PairsHold`, `VerdictsMatch`, `TurnsHold`: `Paired` alone is not inductive, because
  connections of the two ports are accepted one after the other. The invariant says that
  the two backlogs name the same lives in the same order (`Chain`, where the speaker of a
  life between its connects counts as waiting already), that a life that has not connected
  has nothing anywhere (`Fresh`), and that the life served and the HMI take turns (`Turn`):
  nothing is under way but the reading sent last or its verdict. `Chain` and `Turn` are
  claimed until `cut`, and one lemma per part shows that no step breaks it.
* `NeverStandoff` (`NoStandoff`): the invariant adds that a life which has connected stays in
  the HMI's hands until the HMI closes it (`InLine`), and that what it has sent is either a
  reading or a verdict still under way (`UnderWay`).
* `ComesNearer` (`EachStepNearer`): from the same invariant, one step per action of the HMI;
  while the RTU listens it takes none itself, and a life that ends no longer waits.
* `Refinement` (`ImplementsExchange`): `RtuSend` maps to asking, `HmiReply` to answering,
  `RtuAct` and `RtuRelease` to acting and releasing, `RtuEnd` to giving up, all others to
  stuttering. `Turn` is what makes the answer the right one.

**BhIntellirupterProofs** (any `PV` and `PT` above 0, `NapScans` from 2, any number of lives).
* `ProgramHolds` (`ImplementsPLC`): a step of the composition is a scan, a single write of a
  client or a stutter of the program, so the theorems of `TurbinePLCProofs` hold in it.
* `PulseCounts` (`CountedOnce`): the invariant follows a pulse through its scans. Before the
  first one `owed` is what the count will be (`Unseen`). With coil 1 raised, after the first
  scan the edge is counted if there was one and a clear may still be on its way, and after
  the second the count stands (`Seen`, `Settled`, together `High`); with a raise that was
  lost nothing is counted and a clear may come at any time (`Low`). Between pulses the edge
  detector has seen the coil at the level the last pulse left, clear or not, because the RTU
  sleeps before it senses again (`Level`, `Sleeps`).

**BhCompositionProofs** (the same, and any backlog).
* `LoopHolds`: `Paired`, `VerdictMatches`, `Lockstep` and `NoStandoff` hold in the composition, although
  program and panel change coil 1 too. A step of the whole is a step of the loop or leaves
  all of it alone but the coil, and only the coil's type is part of the loop's invariants, so
  the lemmas of `FaultLoopProofs` apply as they stand.
* `OnlyForCause` (`StopsForCause`): only a scan counts or stops, and only one that finds
  coil 1 raised and its edge detector low (`OnlyByEdge`). `Cause`, kept from the verdict that
  started the pulse, says that such an edge comes from a raise for a reading outside the
  band: `CInv` shows that a release finds the edge seen, so one that fails leaves no edge
  behind. It takes the invariants of all three parts.
* `RelayHolds`: `ImplementsRelay` and `LightUntilReset` in the composition, from
  `ProgramHolds` and the theorems of `TurbinePLCProofs`.
* `TypeCorrect`, from the types of both parts and of the variables the composition adds.

**KeepAliveProofs** (any `Period` above 0, any `Stall`, any `Timeout` longer than it).
* `RecoversInTime` (`Recovers`), `TripsInTime` (`Trips`): `ToGo` bounds the ticks until the
  relay follows the filter from where the master, the wire and the mirror are, the timeout of
  a dropped reply included; the invariant says that `ToGo` stays below `due`. A tick takes
  one off both, for nothing that is due waits. A disturbance sets `due` to no less than
  `ToGo` may be (`AfterDisturbance`). That the resend finds no write of its own still under
  way rests on a timeout longer than a stall (`Wired`). `TypeCorrect` comes from the same invariant.

**AuditSidecarProofs** (any networks, ring and list lengths and numbers of requests).
* `Ordered` (`NewestFirst`): what the ring holds of a network was numbered up to what its
  one thread is through with, so a new event is above them all; what falls out at the old
  end leaves an initial part of the ring.
* `QuietShown` (`QuietVisible`): until `MaxLen` others came in after it, the last packet of
  a network stands behind exactly those, and none of them is of its network (`Placed`); so
  it heads the list. What a list holds is the lemma `Viewed`, for any ring: it rests on
  `Ranks`, that each of the first numbers is the rank of one place in a set of places. Its
  induction is the library's least element of a set of numbers (`Least`).
* `TypeCorrect`: among it that ring, lists, requests and table never exceed their bounds.
* `ShowsDevice` (`ShownTrue`), `ReportsTruly` (`OkMeansWritten`): while `sure` holds, at most
  one request is under way and its answer still fits the device.

Every invariant, action property and refinement that a passing run checks is proved. Only
model-checked is liveness (`FaultsForgotten`, `Answered`, `RunsBetweenFaults`, `ZoneFollows`,
`RunsAgain`, `ShownAgain`, `BoardAgrees`, `HelperFollows`, `PagesFollow`, `BoardTrue`,
`TableFollows`), which is out of the prover's reach. Of three of them the safety they rest
on is proved: `Answered` on `NoStandoff` and `EachStepNearer`, `RunsAgain` on `StopWindow`,
`HelperFollows` on `OverrideInformed` and `OverrideEarned`.

## 5. Not modelled, and why

Attacker box (third-party tools, no program of the repository), OpenPLC and ot-sim (images;
modelled only as far as the programs rely on them), Mosquitto (external, by its use),
certificates and Dockerfiles (no behaviour), `node_modules`, `mqtt.min.js` and the two
pages the server no longer serves, the slave's argument parser, the HMI's plot, the page's
drawing, the decoded text of an event. The panel's element table is a list of names; which
coils may be written is the constant `Writable`. The Modbus addresses
(`TURBINE_COIL_ADDR`, the panel's table) are taken as what their comments say they mean; the
sources call them unverified.

One hazard has no property (`rtu-speaker.py:127`): when the HMI closes its end, the RTU's
inner loop receives nothing at once and spins for ever. The model has it, `Answered`
excludes it, and no document promises otherwise.

## 6. Plan

Done: the modules of section 2 with their runs, the five disagreements of 3.1, and the
proofs of section 4. Open:

1. Weaker premises: `ZoneFollows` under a broker connection that is only up again and again.
2. The e-stop's DNP3 link with lost connections, if ot-sim's sources become available.
