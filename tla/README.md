# SkyWatch controller and sim mobile: TLA+ models, model checking and proofs

Paths below are relative to `src/`. `controller/src/x` is shortened to `x`.

## 1. The system

SkyWatch is a small air-traffic demonstrator. A **controller** (Zephyr on a
single-core nRF52840) fuses positions that reach it over USB (real ADS-B
traffic, as JSON lines from a host PC) and over BLE (a **sim mobile**, a second
board flown by a pilot). It predicts collisions, tells the host (JSON) and warns
the sim (BLE writes). The sim mobile freezes, beeps and shows warnings on a PC
display.

```
 host JSON --> usb_handler (ISR, ring, thread) --json_parse--+
                                                             v
 sim notify -> ble_central (notify_cb) -> bridge (queue) -> aircraft_db <- missile, ghost,
                                                             |             inject workers
                                        collision tick <-----+
                                         |            |
                         JSON to the host             ble_central_send_warning
       db_publisher --> (usb_serial, data port)                v
                                                   sim mobile warn_write -> PC display
```

### Threads

| Thread | Kind | Runs |
|---|---|---|
| system work queue | cooperative | collision tick (200 ms), ghost keep-alive (3 s), inject keep-alive (1 s), missile worker (500 ms), db_publisher (500 ms) |
| Bluetooth RX | cooperative | connection, discovery, notification callbacks |
| bridge, usb rx, ble_wd | preemptible, prio 7 | queue drain, ring drain, scan watchdog |
| db reaper | preemptible, prio 8 | eviction every 2 s (`REAPER_TICK_MS`) |
| shell | lowest | operator commands |
| UART ISR | interrupt | fills the receive ring |

A cooperative thread is not preempted by another thread, so its handler is one
step unless it blocks on a mutex; the shell, the watchdog, the bridge, the USB
thread and the sim's send thread may be overtaken between any two statements and
carry a program counter in the models.

### Inventory

| Component | State | Operations | What is hard | What makes it correct |
|---|---|---|---|---|
| aircraft_db (+ kalman) | 32-entry pool, list, mutex, counters, a filter per entry | upsert, lookup, for_each, count, clear, stats, reaper | several callers, recycled slots, unlinking during a walk | no leak, one entry per address, no freed node walked, age bounded, counters agree; a full pool refuses new aircraft |
| collision detector | table of tracked pairs, cached diversions, CRASH locks, ghost flag and work | tick, ghost start/restart/stop, manual crash and diversion | table compacted while indexed, shell against tick without a lock, timers | rows, locks and what the host shows agree; alerts are repeated and ended |
| ble_central | connection pointer, three flags, two handles, scan list | scan, connect, discovery stages, watchdog, write | callbacks overtake the watchdog and the shell, any stage may fail | the flags follow the link, no stale handle, the link comes back |
| bridge | message queue, counters | submit, convert, feed | queue at its limit, reused output record | every frame is accounted for and fed in order |
| usb_handler (+ json) | UART interrupt, ring, semaphore, throttle flag, line buffer | ISR, thread | binary semaphore, throttle and resume, overlong lines | no byte lost, no lost wake-up, no spin |
| missile, inject scenario | active flag, delayed work, time to live | launch, cancel, impact, expiry; inject, stop | commands in several statements against the work queue | what is in flight has a worker and an end |
| sim mobile firmware | warning flag, freeze deadline, two delayed works, connection | warn_write, works, send thread, pilot commands | works cancelled and rescheduled from four places | every warning ends but one the key r met half way, a freeze is neither cut short nor endless |
| sim PC display | collision panel, crash overlay and its timers | WARN lines, timeouts | timers never cancelled | the display follows the firmware |
| usb_serial, db_publisher | one transmit mutex, a snapshot | println, 2 Hz dump | lines of several threads on one port, a host that comes and goes, rows printed after the mutex is released | lines arrive whole, the host's picture only goes forward, every report gets there |
| host GUI | line reader, last report per aircraft, alert state | consume JSON | half lines, read timeouts, a full queue, hide windows | the reader survives a line it was opened into; the rest is not modelled |
| MQTT and Influx writers | bounded queues | mirror collision frames | reconnection | not modelled, section 7 |
| shell, main, usb_device, scripts | none of their own | argument parsing, start-up | - | see section 7 |

## 2. Plan

Written, in this order: `AircraftDb` with its abstract specification
`AircraftStore` and its proofs (the data every other part depends on);
`Collision` (the core logic); `BleCentral` (the link the warnings need);
`SimMobile` (what a warning causes); `UsbRx` and `Bridge` (the two inputs);
`Missile` (the synthetic aircraft); then the two compositions: `WarnLink`
(`Collision`, the link and `SimMobile`) and `Telemetry` (`Bridge` and `DataPort`). Then the
proofs: every invariant and action property a run checks, the refinement of
`AircraftStore`, and that each composition implements its parts.

Left:

1. Proofs of properties no run states yet: that `Missile`'s and the ghost's records
   are refreshed before they go stale; an abstract specification of the bridge as a
   bounded lossy queue.
2. The ATC display's hide windows and alert history.
3. Pure operators: the tests of the JSON fields against a reference definition.

## 3. Modules and the code

Variables carry the names of the C variables they stand for; a variable without
such a name is a history variable, a program counter or the state of something
outside the source, and is commented so where it is declared. `PROJECT.json`
maps every definition to its lines. An operator `SlipX` is the operator `X` with a
plausible programming error. No specification uses it; it stands next to `X` to
show which error the property aimed at `X` would catch.

| Module | Models | Abstraction |
|---|---|---|
| `AircraftDb` | `aircraft_db/src/aircraft_db.c`, the update count of `kalman.c` | Every API call is split at the points where the mutex matters: lock, find, write, each step of a walk. An entry is its address, time, filter count and prediction flag. Whether `kalman_update` accepts a measurement is a free choice. |
| `AircraftStore` | nothing: the promise | A bounded map from address to time of last report, with report, refusal, eviction of the stale, and clear. |
| `Collision` | `collision/src/collision.c` without the inject scenario | The tick is snapshot, pairs, sweep. Level and diversion of a pair are free choices; addresses are numbers so that `strcmp` is `<`; deadlines are distances from now. The shell's `tracked_remove` moves one row per step; `beyond` is what memory holds above the table meanwhile. |
| `BleCentral` | `ble/src/ble_central.c` without `notify_cb` | The stack below is `radio`, `link` and `op`; connections are numbered 1 and 2 in turn so that a stale handle shows. |
| `Bridge` | `notify_cb` and `bridge/src/bridge.c` | A frame is its number and the first test of `bridge_convert` it fails. |
| `UsbRx` | `usb_handler/src/usb_handler.c` | A byte is a newline or not; the buffers hold positions in the stream. |
| `DataPort` | `usb_serial/src/usb_serial.c`, `db_publisher/src/db_publisher.c`, the line reader of `host/atc_gui.py` | A record is the number of its report; a line goes out in two halves, the second with the newline; what is printed after the host has gone is lost or stays in the driver. Of the database there is one number per aircraft and the limit of its pool. |
| `Telemetry` | `Bridge` and `DataPort` on one database | The bridge's upsert writes the sim's record or is refused by a full pool; other aircraft come and go. |
| `WarnLink` | `Collision`, the link and `SimMobile` on one clock | The link is `ready` (`g_connected` and a warning handle), `radio` and the frames in the air; each side notices a lost radio in its own time. No operator, no flight; of the pilot the resets. |
| `Missile` | `missile/src/missile.c`, the inject scenario of `collision.c` | Flags, works and the ages of the database records; no guidance. |
| `SimMobile` | `sim/mobile/src/main/src/codein.c`, panel and overlay of `sim/pc/simple_grid.py` | Timers count down in common units; the position is altitude and having left the origin. The position frames, and the subscription they wait for, are left out. |
| `MC*` | - | Small instances. |
| `AircraftDb_proofs`, `Collision_proofs`, `WarnLink_proofs`, `BleCentral_proofs`, `UsbRx_proofs`, `SimMobile_proofs`, `Missile_proofs`, `Telemetry_proofs` | - | Theorems about the module of that name; those about `Bridge` and `DataPort` are in `Telemetry_proofs`. |

`TypeOK` is a theorem of every component that has one (`TypeCorrect`), and no run's
property. The invariants of `Telemetry_proofs` include the types.

Actions that carry a whole handler:

* `PairTracked` is one iteration of the pair loop of `work_handler`: row lookup or
  creation, marking, JSON frame, diversion and warning frames, CRASH handling with
  the ghost and the missile. `PairClear`, `PairLocked` and `PairUntracked` are its
  early exits. `SweepDrop` is `emit_collision(CLEAR)` and `tracked_remove` together.
* `GhostStart` ... `GhostSchedule` are the statements of `ghost_start_internal`
  between which a tick can run. Its `tracked_remove` is `GhostDrop` (the test of the
  index), `GhostShift` (one row moves down) and `GhostCut` (`s_tracked_n--`): a tick
  inside it meets a row twice. `s_tracked_n` is loaded once and stored once, as the
  optimising build does, and the copy of one row is one step; a tick in the middle of
  the bytes of a row is left out. `damage` records that a tick met the shell there.
* The shell's `ble_central_send_warning` is `ShellSend`, `SendHandle`, `SendConn` and
  `SendWrite`; at its use each of the two variables is the value tested or is loaded again.
  `ble_central_disconnect` is `ShellDisconnect` and `HangUp`.
* The send thread's pass is `SendWake` ... `SendReport`, the pilot's reset `PilotReset`,
  `PilotSettle` and, for the key r alone, `PilotCancel`: callbacks and works run
  between them.
* `DeviceFound` is `device_found` with `do_connect`, including the restart of the scan
  when the connection cannot be initiated; `Connected`, `ConnectFailed` and
  `Disconnected` include the trailing `ble_central_scan_start`.
* `WriteAlert` and `WriteCrash` are the branches of `warn_write`, with what the display
  makes of the line they print.
* In `WarnLink`, `Sent` and `Lost` are a step of `work_handler` with the writes it makes:
  all of them get through, or some do not (no connection, no handle yet, no buffer,
  no radio); `Carries` puts those that do into the air in the order they were written.
  `last_ble_send_ms` is set either way, as in the code. Both sides age
  by one unit after each tick, once its frames have arrived.
* In `DataPort`, `Println` is the call with its test of DTR; `Lock`, `PrintFirst` and
  `PrintSecond` are what follows it. A host that opens the port finds it in the
  middle of a line, and one whose read times out gives up half a line: `cut` says that
  no newline has come since. A frame that finds the GUI's queue full is lost.
* `Feed` is the bridge's `aircraft_db_upsert` with its -ENOMEM, which the bridge ignores.

## 4. Runs

All passing runs check deadlock except `usb_rx`, whose host may fall silent (the
number of bytes is bounded).

| Run | Instance | Shows |
|---|---|---|
| `aircraft_db` | 3 aircraft, 2 slots, 2 callers and the reaper; threshold, period and filter threshold of 1-2 units | `PoolMatchesList`, `OneEntryPerAircraft`, `NoFreedNode`, `StatsBalance`, `StaleBound`, `PredictionEarned`, `FreshKept`; `ImplementsStore`: the database refines `AircraftStore` (the map is `AbsStore`, the clear `Clearing`) |
| `collision` | 3 aircraft (3 pairs), 2 rows, ghost, manual crash and diversion, ticks inside the restart's `tracked_remove` | `OneTrackPerPair`, `HostView`, `GhostDriven` |
| `warn_link` | the SIM and one aircraft; resend 1, alert 3, freeze 4, lock 5 units; all levels, every loss and reconnection | `AlertUnbroken`, `FrozenUnalerted`, `AlertEnds`, `DangerHeard` |
| `ble_central` | 2 peers, every failure, every command | `FlagsFollowLink`, `HandlesCurrent`, `LinkReturns`, `WarnReady` |
| `sim_mobile` | alert 2, text 1, freeze 3 units, reset up to 1 unit late, on the ground or not | `FreezeOutlasted`, `WarningWillEnd`, `PanelWillClear`, `CrashEnds`, `AlertsEnd` |
| `usb_rx` | ring 3, line 3, chunk 2, FIFO 2, low water 1, 9 bytes | `BytesInOrder`, `NoLostWakeup`, `NoInterruptSpin`, `LinesArrive`, `AllConsumed` |
| `telemetry` | queue 1, 2 frames, valid or rejected; a pool of 2 for the SIM, an aircraft whose row does not fit and one more; three writers, one host | `FramesAccounted`, `FedInOrder`, `LinesWhole`, `PictureForward`, `ReportReachesHost` |
| `missile` | time to live 3, stale 2 | `WorkerScheduled`, `FlightEnds`, `PairFades` |
| `collision_lock` | as `collision`, no commands | **violated**: `CrashLockHolds` |
| `collision_diversion` | two diversions | **violated**: `DiversionSteady` |
| `ble_central_stall` | 1 peer, scan failures | **violated**: `WatchdogRecovers` |
| `ble_central_send` | 1 peer, no failures, `send` from the shell | **violated**: `WriteLive` |

### Why the bounds are enough

* Two slots and three aircraft make the pool overflow, recycle a slot and hold a
  list with a first and a last entry; two callers and the reaper are all the
  parties a critical section can separate. The clock bound of 3 with a threshold
  of 1 lets an entry be refreshed, become stale, be evicted and be reinserted.
* Three aircraft give three pairs on two rows: rows above and below a removed
  one, a pair that finds the table full, and a `tracked_remove` with a row to move. The
  real table has 32 rows. Within a tick only the SIM's record is read again, so that
  only it may vanish there; another aircraft's eviction during the tick has the same
  effect as one after it.
* In `warn_link` the units keep what the code's times say: a re-fire (3 s and a tick)
  comes before the sim's 5 s are over, the lock (15 s) outlasts the freeze (10 s). One
  pair is enough, because rows do not influence each other's timers; a second
  aircraft would add crashes that are not the SIM's own (section 6).
* A ring of 3 with chunks and FIFO reads of 2 overflows, throttles and resumes at
  the low-water mark within 4 bytes; a line buffer of 3 holds lines of 2, so that
  9 bytes contain an overlong line between two that fit.
* A queue of 1 overflows with 2 frames, and a rejected frame can be followed by a
  valid one and the other way round; one verdict of rejection stands for the three.
  Order in deeper queues is the subject of the theorem `InOrder`. Three aircraft on
  two entries make the pool refuse the SIM.
  Two halves are enough to tear a line, and two writers (the publisher and the tick
  share a thread) to mix two.
* Timers keep the order text < alert < freeze of 3, 5 and 10 s. Works that expire
  together, and a second crash inside the first one's freeze, occur.
* Counters are bounded only where the code's are unbounded (`MaxNow`, `MaxCalls`,
  `MaxBytes`, `MaxFrames`); times elsewhere are distances that saturate.

### Fairness

* `WarnLink`: the tick is a self-rescheduling work item on the highest thread; the
  sim's works and display timers run; a frame on a working radio arrives; time goes
  on. All weakly fair. The database's changes, losses, the radio, reconnection, the
  discovery and the pilot are not fair.
* `BleCentral`: the watchdog, the shell's started commands and the clock are weakly
  fair (the scheduler runs them), and so is the next GATT procedure (the stack
  answers or disconnects). Strong fairness of finding a device, initiating and
  being connected says that the sim keeps advertising and that an attempt
  repeated for ever succeeds once; strong fairness of a successful scan start says
  the same of the radio. Disconnections and failures are never fair, never forbidden.
* `SimMobile`: works, the display's timers and time are weakly fair; the send thread is
  strongly fair, because works and callbacks that outrank it preempt it again and again
  but not for ever. Frames, the connection and the pilot are not fair.
* `Telemetry`: the bridge's thread, a round of the publisher and the shell's printing
  are weakly fair. A round's start is strongly fair: the work is disabled while the
  tick occupies the queue, but its timer expires and the queue is first come first
  served. So is printing from the work queue, because `k_mutex_unlock` hands the mutex to
  a waiter. `SimShown` is strongly fair: the GUI's timer drains its queue of 4096 every
  50 ms, so that it is not full at every one of the sim's rows. Frames, alerts,
  evictions, refusals and the host are not fair.
* `UsbRx`, `Missile`: the interrupt, the threads, the workers, the reaper,
  and time; never the host, the sim or the operator.

## 5. Proofs

Every invariant and every action property that a passing run checks is also a theorem,
for every value of the constants. A theorem holds under the assumptions of the module it
is about, which TLC evaluates in that module's run: sizes, times and thresholds are
naturals, positive where the code's own values are and zero would switch the feature off;
null values are not among the values; in `SimMobile` the lag of the reset work has an
upper bound; in `WarnLink` the times are in
the order of the code's (3 s and a tick < 5 s, 10 s <= 15 s).

| Module | Theorem | Property |
|---|---|---|
| `AircraftDb_proofs` | `PoolConsistent` | `PoolMatchesList` |
| | `UniqueAircraft` | `OneEntryPerAircraft` |
| | `WalkersSafe` | `NoFreedNode` |
| | `StatsAccount` | `StatsBalance` |
| | `AgeBounded` | `StaleBound` |
| | `PredictionsEarned` | `PredictionEarned` |
| | `FreshEntriesKept` | `FreshKept` |
| | `Refinement` | `ImplementsStore` |
| `Collision_proofs` | `PairsUnique` | `OneTrackPerPair` |
| | `HostFollows` | `HostView` |
| | `GhostKeptAlive` | `GhostDriven` |
| `WarnLink_proofs` | `AlertHolds` | `AlertUnbroken` |
| | `FreezeCovered` | `FrozenUnalerted` |
| | `DetectorImplemented` | `Collision`'s `Spec` |
| | `MobileImplemented` | `SimMobile`'s `Spec` |
| `BleCentral_proofs` | `FlagsTrue` | `FlagsFollowLink` |
| | `HandlesFresh` | `HandlesCurrent` |
| `UsbRx_proofs` | `NothingLost` | `BytesInOrder` |
| | `WakeupsKept` | `NoLostWakeup` |
| | `NeverSpins` | `NoInterruptSpin` |
| | `LinesParsed` | `LinesArrive` |
| `SimMobile_proofs` | `WarningsEnd` | `WarningWillEnd` |
| | `ResetWaits` | `FreezeOutlasted` |
| | `PanelClears` | `PanelWillClear` |
| `Missile_proofs` | `WorkersScheduled` | `WorkerScheduled` |
| `Telemetry_proofs` | `Accounting` | `FramesAccounted` |
| | `InOrder` | `FedInOrder` |
| | `WholeLines` | `LinesWhole` |
| | `PictureNeverBack` | `PictureForward` |
| | `BridgeImplemented`, `PortImplemented` | `Bridge`'s `Spec`, `DataPort`'s `PortSpec` |

Each module names its inductive invariant, has a lemma per action (or group of actions
that disturb the same conjuncts), and combines them in a theorem `Invariance` (or of a
similar name).

### AircraftDb

None of the properties is inductive. The invariant `IInv` adds what the mutex protects:

* `MutexInv`: a thread that is inside an operation owns the mutex, hence at most
  one is (`Exclusive`).
* `UpsertInv`: between find and write the result of the find is still true. This
  is what makes an insert keep `OneEntryPerAircraft`.
* `WalkInv` and `ReapInv`: a clear stands at the head; the reaper stands before some
  position, its trailing pointer right behind it, and what it has passed is
  fresh. This is what makes `sys_slist_remove` with a supplied predecessor remove
  one entry only (`RemoveOne`), and what gives the age bound at the end of a pass.
* `StatsInv`, `PredInv`, `TimeInv`: the properties with the intermediate states filled in.

`StaleBound` depends on the guard of `Tick`: the clock does not pass the reaper's wake-up
before its pass has ended, that is, a critical section is short compared with 2 s.

The refinement maps the list to a function from addresses to times. `ClearDrops`,
`EvictDrops`, `InsertAdds` and `UpdateReplaces` say what a step does to the list,
`DropMaps` and `WriteMaps` what that is for the function; every other step is invisible.
That a report is never older than what it replaces needs one more invariant, `SeenInv`:
the uptime was read under the mutex, after every report on the list. That an insert
finds room in a map of `MAX_ENTRIES` is the pigeonhole of `RoomLeft`. It is a refinement of
safety: what the database does is allowed, not that a report is ever taken.

### Collision and WarnLink

`DetectorInv` is `TypeOK`, `GhostDriven`, `Cursors` (the sweep's row and the restart's
indices are where the table is), `GhostAllowed` and `TableInv`: `OneTrackPerPair` and
`HostView`, which need each other (dropping a row takes its pair off the host's screen
only because no second row names it), with `Shifted` (as long as no tick came in between,
only the row the shell writes next may be double) and `Marks` (the rows a tick marks or
has swept past are each the first of their pair, and, in the tick that puts the table
right, on the host's screen). The exceptions are part of the statements: while the shell
is in `tracked_remove`, and until the end of the tick that met it there, a pair may have
two rows; until the next tick without a locked row after that, a pair in the table may be
missing on the host's screen.

`LinkInv` adds to `DetectorInv`, which the composition keeps:

* `LockInv`: the row of a crash has its whole lock ahead while the frame is in the air
  (`AirUnderLock`), and at least as much of it as the SIM has of its freeze
  (`CulpritUnderLock`), unless the pair has lost its row since. Without the first, the
  arrival of a frame would break the second; the second makes a tick pass the locked row
  in silence, which is `FrozenUnalerted`.
* `ShellIdle`: without the operator's commands no tick meets the shell in the table.
* `AlertInv`: for every conflict that has been calm for some units, either the row's
  last frame is at least as old as the calm, or a frame is in the air, or the cockpit's
  alert outlasts the time until the row's next frame (`Renewed`); a row that this
  tick has passed is not overdue (`Handled`); conflict, SIM and link are still there
  (`Undisturbed`). `StillAlerted`, which gives `AlertUnbroken`, follows from these when
  a unit passes: an alert of 5 s cannot run out between two frames 3 s and a tick apart.

TLC checked `LinkInv` on the instance of `warn_link` before it was proved. In the model a
frame is received or lost within the unit in which it was sent. `DetectorImplemented`
and `MobileImplemented` show that the composition adds no behaviour to either part, so
the theorems about `Collision` and `SimMobile` hold of it (the second under
`SimAssumption`).

### BleCentral, UsbRx, SimMobile, Missile

* `BleInv`: `FlagsFollowLink` and `HandlesCurrent` with the types and `FoundSoFar`, what a
  discovery under way has found already; `HandlesCurrent` rests on the reset of both
  handles at either end of a connection. Nothing is claimed of `g_scanning`, which
  `ble_central_stall` shows wrong, nor of the shell's write (`ble_central_send`).
* `RxInv`: `Order` (which byte of the stream stands where in chunk and ring), `Waking`
  and `Throttled` (the thread's statements between its last look at the ring and its
  wait), `Collected` (what part of its line the buffer holds, also after an overlong line
  was given up) and `Parsed` (the fate of every earlier line). All four properties
  follow.
* `SimInv`: types and `FreezeOutlasted`. `WarningWillEnd` and `PanelWillClear` are action
  properties and follow from the types, one action at a time; each names the steps that
  break it.
* `MissileInv`: the types and `WorkerScheduled`, which is inductive as it stands.

### Telemetry

`BridgeInv` is inductive for the bridge alone: types, the account, and the order of the
numbers along the way (fed < in hand < queued <= submitted, and the record upserted is
that of the frame in hand), without which `FedInOrder` is not. `PortInv` is inductive for
the port alone: who prints owns the mutex, and the host's part of the current line is
the owner's first half, unless the port was opened or the read timed out in the middle
of it.
`BridgeImplemented` and `PortImplemented` then show that the composition implements both
specifications; the second needs `BridgeInv` for the type of what the bridge writes into
the database. `PictureForward` needs both sides at once (`PathInv`): along the way from
the queue over the database, the publisher's snapshot and the lines on the port to the
host's screen, the numbers of an aircraft's reports only fall.

### Only model-checked

The liveness properties `AlertEnds`, `DangerHeard`, `LinkReturns`, `WarnReady`,
`CrashEnds`, `AlertsEnd`, `AllConsumed`, `ReportReachesHost`, `FlightEnds` and
`PairFades`: fairness and ENABLED are out of the prover's reach. The four violated
properties are refuted by TLC's counterexamples.

## 6. Differences between the code and its documentation

Four are shown by a run; `PROJECT.json` quotes the lines.

1. `collision_lock`: a pair under its 15 s CRASH lock that is classified CLEAR is
   not marked, and the same tick's sweep drops its row and its lock, although
   the description says the pair stays CRASH "regardless of subsequent geometry".
2. `collision_diversion`: `tracked_remove` compacts `s_tracked` but not
   `s_pair_diversion`, so a pair re-fires the suggestion cached for its neighbour.
3. `ble_central_stall`: a Bluetooth callback between the watchdog's
   `bt_le_scan_start` and its `g_scanning = true` can leave the flag set with the
   radio off, and nothing restarts the scan. `LinkReturns` shows that this is the
   only way in which the link fails to return.
4. `ble_central_send`: "-ENOTCONN if no peer, -EAGAIN if the warning chr hasn't been
   discovered yet"; from the shell's thread a disconnection between the tests and the use
   hands the stack a NULL or released connection, or handle 0.

Others were met while translating and are visible in the models, without a run
of their own:

* `collision/src/collision.c:1088`: "Pick the non-SIM side"; when the SIM has the
  lower address the manual crash names the SIM (`TriggerOther`).
* `collision/src/collision.c:704`: the CRASH frame goes out for every pair that crashes,
  without the test for the SIM that guards the other frames, although
  `common/src/ble_packet.h:125` calls it "you crashed": a crash of two other aircraft
  freezes and resets a sim that is in neither (`CrashCalls`).
* `collision/src/collision.c:955`: "Iterate backwards so removal-by-index doesn't skip
  entries"; the ghost restart's wipe takes no lock, and a tick between the comparison and
  `tracked_remove(i)` makes it drop another pair's row. A tick inside `tracked_remove`
  sees a row twice, sweeps the copy, and tells the host CLEAR of a pair that is still in
  conflict; the shell's `s_tracked_n--` then brings back or drops rows. The next ticks put
  this right (`OneTrackPerPair`, `HostView`).
* `collision/src/collision.c:490` and `resources/protocol_reference.md:140`, `:664`: warnings
  are re-fired every ~8 s; the code re-fires after 3 s (`DueToSend`), and `AlertUnbroken`
  depends on it: 8 s would exceed the sim's 5 s.
* `sim/mobile/src/main/src/codein.c:307`: the key r clears the warning and then cancels the
  work that would end it. A frame received between the two statements leaves lamp and
  buzzer on until the next alert ends, the link is lost or the pilot resets again
  (`WarningWillEnd`, `AlertsEnd`).
* `collision/ref/description.md:7`: a warning "on every WARNING transition"; with the
  table full a new pair is neither reported nor alerted (`PairUntracked`).
* `sim/pc/simple_grid.py:343`: the crash overlay stays "for the matching 10 s"; a
  collision, diversion or text frame received during the freeze schedules
  `warning_clear_work`, whose `WARN clear` takes the overlay down while the aircraft is
  still frozen (`ClearFires`, `WarnClear`). `FrozenUnalerted` shows that the crashed pair
  sends no such frame while it keeps its row; it may after turning CLEAR
  (`collision_lock`), and so may another pair.
* `collision/src/collision.c:706`: the lock is "longer than the GUI's 10/20 s hide"; it
  lasts 15 s and the GUI hides an aircraft that is not the sim for 20 s.
* `collision/src/collision.c:697`: a CRASH frame lost on the link is never sent again,
  because after the lock the row still says CRASH; the sim then gets the alerts of
  an ongoing conflict instead (`DangerHeard`), and never freezes.
* `resources/protocol_reference.md:479`: `WARN clear` is fired about 5 s after the last
  warning; a disconnection and the key r cancel it, and the panel stays lit;
  `PanelWillClear` shows that nothing else does.
* `resources/protocol_reference.md:203`: the buzzer chirps for 5 s; a link lost while
  the pin is high leaves it high until the next connection. `AlertsEnd` states the
  buzzer's end for a link that lasts.
* `common/src/ble_packet.h:71`: feet MSL in an int16; the sim's altitude goes up to
  15000 m and `(int16_t)((float)g_alt * 3.28084f)` (`codein.c:481`) wraps above 9987 m. The
  frame's fields are not modelled.
* `usb_handler/src/usb_handler.c:152`: "drop and resync at next newline"; the rest of
  an overlong line is parsed as a line and counted as a parse error (`LinesArrive`). That
  a fragment does not parse is an assumption of the model: one that is a whole
  object of its own would be taken as a report.
* `missile/ref/description.md:31`: a second launch returns -EALREADY; the code cancels
  the missile in flight and launches again (`Launch`).
* `resources/protocol_reference.md:204`: frame 0x03 "acts on the suggestion"; the sim
  only displays it. `collision/src/collision.c:98`: the inject keep-alive runs "every
  3 s"; its period is 1 s. `codein.c` calls alerts 2 s long in comments and clears
  them after 5 s.

## 7. Not modelled, and why

* Floating-point geometry (`derive_velocity`, `closest_approach`, `classify`,
  `pick_diversion`, `kalman.c`, missile guidance): out of TLC's reach; its results are
  free choices, so that the properties hold whatever it computes.
* The contents of frames and JSON lines, apart from what decides the control flow;
  `pack_icao24`, which is lossy for the synthetic addresses that are not
  hexadecimal; the test of latitude and longitude, which NaN passes.
* `aircraft_db_lookup` and `aircraft_db_get_stats` (read-only, shorter than a walk), and
  the shell's `ble inject`, which feeds the database directly; the sim's position frames.
* The ATC display beyond its line reader (hide windows, alert history, drawing); the
  MQTT publisher, which drops what comes while the broker is away, so that a retained topic may keep an alert whose CLEAR was dropped; the
  InfluxDB writer. Nothing on the controller or the sim depends on them.
* `usb_device`, `main` and the scripts (start-up and tooling); the publisher's counters.

Assumptions of the models: in `Collision` the host keeps DTR raised, otherwise
`emit_collision` prints nothing and `HostView` is about what would have been printed
(`DataPort` models the port without that assumption); `uart_poll_out` does not block; the manual
crash names two different aircraft; a tick is short compared with the clock's
unit; on the sim a work item that is due runs before the send thread and before
time goes on. The reset of a crash may fire up to one unit after the freeze
has ended (timer rounding); in that gap a pilot on the ground with speed crashes
again and postpones it, which is why `CrashEnds` speaks of the last crash. A pass of the
send thread that the reset interrupts stores the position it computed before, one step
away from the origin.
