# Asteria firmware: models, model checking and proofs

TLA+ models of the firmware of a rocket's control boards and of its host tool
(`src/`, Rust on Embassy), checked with TLC on small instances; and proofs, checked
by TLAPS, that nearly all of their safety properties hold for every value of the
constants.
`PROJECT.json` lists the runs, for each property a mistake in the code it is
sensitive to (mutants), the lines each definition was translated from (map),
the hazards and the theorems.

## 1. The system

Every board but one is a single Embassy executor: tasks are cooperative, so what a
task does between two `await`s is atomic, and every other task may run at an `await`.
The test board has two, one in the thread and one in an interrupt: its USB tasks
preempt the logging and the file system worker. They share with them only a mailbox,
signals and a channel, so that an operation on the file system, which is the worker's
or the logging task's alone, is atomic to them all the same; a restart or a panic,
which the USB tasks carry out, falls into the middle of one.
Tasks talk through `Watch` (the latest value and, per receiver, a "seen" mark:
values sent in between are lost), `PubSubChannel` (a ring that overwrites its
oldest element and tells the subscriber how many it missed), `Mutex`es and
atomics. Boards talk over CAN (broadcasts, commands), the LOX valve board is a
Modbus server, the test board a file service over USB. Only calibrations and
logs are persisted: otherwise a reset starts over.

| Component | State | Operations | Interacts through | What is hard | What makes it correct |
|---|---|---|---|---|---|
| Recovery: steering | power pin and status, start-up flags, watchdog, tracked positions | power command, target, loop lap, watchdog check, move, readout | Watches from the CAN loop, RS-485 to two motors | two joined tasks, 1 s start-up wait, lost and late answers, sticky watchdog | motors driven only when booted and locked; silence ends in the safety spiral; one authority; a motor's answer is its own |
| Recovery: separation, deployment | target state, servo power and angle, 30 s hold, occurrence | power configuration, trigger, reset, announcement | Watches, one CAN transmitter | commands coalesced during the hold | no push without its own trigger, full push, announced at most once |
| Recovery: CATS, arming, status | pin state machine, status frame | edges of a pin, 20 ms wait | Watches | re-arm against deployment, lost frames | a deployment is reported and stays so; a frame shows the latest |
| can-utils broadcast | last sent, timers | new value, resend, transmit | one Watch per field, shared transmitter | throttle discards, unfair mutex, failing bus | what a field holds reaches the bus, bounded |
| can-utils receive, set-up, collector | filter bank, FIFO, inputs | set-up, receive, collect | CAN controller, Watches | full FIFO, damaged frames, flattened fields | each input follows its id |
| EPOS4 link | nothing but the ring buffer | read, write, timeout | UART | late answers, framing lost, overrun | answers have the shape asked for, in order |
| LOX valve | status flags, boot stage, home offset, target, position | boot, homing, move, position update, Modbus requests | mutex on the motor, Watch of the target | boot may fail or hang, shared motor, fault of the controller | moved only when homed; a target is reached and shown |
| DPR with fuel and oxidizer boards | loop state, setpoint, pressure, valve | acquisition, lap, command, status, buzzer | Watches | sensor out of order, two commanders, order inside a lap | tank rises only below setpoint and limit; faults and overpressure are reported |
| Engine | main valves and currents, two thermocouples and a cold junction, heater, arming switch | command, conversions by turns, hysteresis, checks | Watches, SPI ADCs, I2C thermistor | one ADC for two channels, timeouts that leave a conversion or a FIFO entry behind | each value is of its own channel; outputs settle as commanded |
| Camera | power, recording, what the camera can be told | arm, safe, boot, record, stop | Watch, UART | a button that toggles, re-arming in the delays | a recording is not cut off |
| Backplane | rails, power source, buzzer | readings, sequences | I2C, CAN | transitions while a sequence plays, gauges that fail | the sound settles to what the rail is |
| Sensor carrier v3: readouts | Inactive/Active per sensor, errors, back-off, FIFO, epochs | initialize, read batch, recover, give up | SPI, I2C, UART, channels | wedged shared bus, torn FIFO level, unacknowledged configuration | what is published is right and new; what stays good is used again |
| Sensor carrier v3: selection, estimation, CAN | chosen source, filter time, averages, queue | select, update, publish, average | Watches, channels | stale sources, two IMUs in one mean, full queue | the twin takes over; a mean is of one IMU |
| Sensor carrier v3: SD logging | session, channels, buffers, files, directory entry | take a reading, append, spill, flush, retry | PubSub channels, atomics, block device | overwriting channels, eight files, power loss | every reading written or counted; the file is the rows in order |
| Sensor carrier v3: storage, calibration | key/value map in NOR flash, calibrations applied since boot | load, store, remove, erase | mutex, console | power loss inside an erase, status read that fails | a boot applies what was last said to be stored |
| Sensor carrier v2 | as v3, with other drivers and filters | readouts, fusion, throttled sending | Watches, one CAN transmitter | counters that wrap, a transmit without timeout, preempted frames | a driver keeps publishing; the status on the bus becomes true |
| Test board | flash, boot stage, session, request in progress | mount or format, set up a session, append, serve a request, restart, panic | mailbox, USB, littlefs | restarts inside a request and inside a boot, a mount check that fails, two writers | a row is lost only when removed, or with a flash that was formatted |
| asteria-tool | stack of steps, local copies | pull, rm, erase, reset | USB | connection lost after the board has acted | a copy is of one session; every command ends |
| Consoles, LEDs, buzzers, reports, validation | none of their own | presentation | read the others | - | - |
| Drivers, filters, wire types, macros, utilities | registers | conversions | SPI, I2C, UART | numeric edges | conversions |

## 2. Modules and how they correspond to the code

`EmbassyWatch` is the Watch primitive (external): `[val, new]`, `Send`, `Seen`.

### Recovery board and CAN

**Steering** (`actuator_control.rs::steering_task`, `watchdog.rs`,
`rsbl_servo.rs`). `ppc`/`pc` are the awaits of the two joined tasks.
`PowerOn`, `BootDone`, `PowerOff` are the power task; `Unpowered`,
`BeginStartup`, `FinishStartup`, `Iterate`, `SteerLeft`, `SteerRight`, `ReadLeft`,
`ReadRight`, `SkipRead` are a lap of the loop; `ReceivePower`, `ReceiveTarget`
are main's CAN loop. `MoveAbsolute` keeps what the code believes (`tracked`)
apart from where the motor is (`actual`), with an `Outcome` per command: lost on
the way, or carried out with the answer lost. `Tick` is time. The `silence`,
`onTicks` and `locked` variables are history for the properties.
**SteeringAuthority** is the abstract specification: a holder, ground or spiral,
that changes once, and positions that only the holder asks for.

**RsblLink** (the lower half of `rsbl_servo.rs`) is what stands behind an
outcome: a request written while the receiver listens, the frame of the answer
taken byte by byte with a timeout each, the buffer cleared after a whole frame.
The line may lose, cut or damage an answer or deliver it late.

**RecoveryServos** (`separation_task`, `deployment_task`, the response tasks of
`can_io.rs`, the inputs of `main.rs`). `SwitchOff`, `SwitchOn`, `Separate`,
`Deploy`, `Retract` are a lap; `NoteOccurrence`, `LockResponse`, `EndResponse`
the response tasks; `LockOther`, `EndOther` the other users of the transmitter.

**CatsInputs** (`cats.rs`, `can_io.rs::can_tx_task`): a pin's power and arming
are the environment's (`Arm`, `Disarm`, `Fire`), `Detect` is a lap of the
detecting task, `SendStatus` the frame of the second.

**CanInputs** (`can-utils`' set-up, `recv`, the `Collector` macro, the receive
loops of the boards): `Boot` builds the filters, `BusFrame` is a frame that
passes them, `ReceiveOk`/`ReceiveErr`/`Wake` the loop.

**BroadcastLoop** (`can-utils/src/broadcast.rs`). One action per await:
`Changed`, `ResendValue`, `AwaitFirst`, `GetFirst` (all through `Accept`: filter
and throttle), `Lock`, `Sent`, `NotSent`.

### Propulsion boards, camera, backplane

**EposLink** (`epos4/src/lib.rs`). `EposRequest`, `AnswerArrives`, `ReadSync`,
`ReadHeader`, `ReadBody`, `ReadOverrun`, `EposTimeout` over a ring buffer of fields.
**LoxValve** (`valve.rs`, `modbus_server.rs`, `main.rs`). Boot stages with
homing, the controller and the updater task behind one mutex, the Modbus
requests and the motor controller itself (external). An exchange with the
controller is one action with an outcome; `EposLink` says what stands behind it.

**PressureControl** (`dpr/src/dpr.rs`; `drivers/analog_pressure.rs`,
`can_impl.rs`, `globals.rs`, `buzzer.rs` of the fuel board, which the oxidizer
board repeats). `Acquire` reduces the redundant sensors, `Lap` is one lap of the
loop with every call in its order, `BoardStatus` and `Sound` report.

**EngineHeat** (`sensors/thermocouples.rs`, the crates
`ads1120-thermocouples` and `max31889-thermistor`, `k23_temperature_control.rs`):
`Round` is the task's lap over both channels, `Converts` and `Measures` are the
chips, `HeatControl` the hysteresis. **EngineBoard**, which extends it (`valves.rs`,
`solenoid_current.rs`, arming, status, `buzzer.rs`): `DriveValve`, `Attempt` (one read of the shared
ADC), `CheckArming`, `Beep`, `ReportArming`.
**CameraBoard** (`tasks/camera.rs`, `resources/camera.rs`, `runcam.rs`): the await points of the task
are the values of `cameraTask`; the camera is external and of any kind in
`Cameras`. **Backplane** (`sensor_readout.rs`, `buzzer.rs`, power source).

### Sensor carriers

**BusReadout** (`readout/{mod,baro,dht,mag}.rs`, `buses.rs`, `startup.rs`): three
tasks on one I2C bus, each transaction a step, a bus that a timeout wedges until
`recover`. **ImuReadout** (`readout/imu.rs` over the LSM6DSO32 driver): FIFO of
tagged words with their ages, the level read in two bytes with anything between
them, batches dated by spreading: `PairDt` rounds as `pair_dt_us` does, and
`LeftBehind` is what the level did not see of the FIFO. **GnssReadout** (`readout/gnss.rs`): rate and protocol of the receiver
against those of the task, epochs modulo the week, silence and errors.

**CarrierBus** (`selection.rs`, `state_estimation`, `can/{mod,tx}.rs`,
`filters.rs`): who is selected, which time the estimator has reached, the moving
averages and the bounded transmit queue. **CalStore** (`storage.rs`, `flash.rs`,
console commands, `calibration::load`): the map is a log over a ring of sectors
(external), the chip works on by itself, and a command may be cut off between any
two transfers.

**SdLog** (`sd_logging/mod.rs`, `signals.rs`): sessions, channels that overflow,
drops, flushes, failures. It counts readings and leaves the bytes to
**CsvLog** (`writer.rs`, `csv.rs`): one file, from rows through the block buffer
to the card and its directory entry, with loss of power at any step.
**DurableLog** is what a log promises: after a loss of power exactly what was
accepted before the last completed flush can be read; `CsvLog` implements it.

**SensorNodes** (carrier v2, `sensors/*.rs`, `drivers/*.rs`): two sensor tasks
and the driver they feed, for the four pairs the board has (`kind`).
**SensorCan** (`can_impl.rs`): the sending tasks with their least periods, one
transmitter behind a mutex, mailboxes that a higher priority takes over.

### Test board and host

**TestBoard** (`logging.rs`, `usb_rpc.rs`): the flash as a map from
paths to rows; a boot in its stages (`MountFilesystem`, `FormatFilesystem`,
`PrepareSession`, `CreateSessionFiles`; a mount check may fail on a good flash, which is
then formatted); requests; restarts and losses of power at every step.
What a stage leaves when it fails or is cut short is `HalfDone`, shared by `RunDegraded`
(the board goes on without storage) and `Stopped`. `RestartBoard` is a reset,
`PanicBoard` what the build's panic handler does: with `PanicResets` (a build without
`defmt`) a restart, without it (the default build, `panic_probe`) `Hung`, until the power
is cut. **AsteriaTool** (`shell.rs`, `fs_cmd.rs`, `ops.rs`) extends
it: a command is a stack of steps, each some requests; a lost connection starts
the command over.

### Proofs and instances

`Steering_proofs`, `RecoveryServos_proofs` and `PressureControl_proofs` extend the
module of their name; `FlightBoards_proofs` the engine, camera and LOX valve boards,
`CarrierData_proofs` CsvLog, SdLog, CarrierBus and CalStore, `CarrierReadouts_proofs`
GnssReadout, ImuReadout and SensorNodes, and `BoardLinks_proofs` EposLink,
RsblLink, CatsInputs, CanInputs and the test board with its host. `Common_proofs`
has what they share. The `MC*` modules give the constants of the runs.
`MCFlight`, `MCPressureControl`, `MCCarrierReadouts`, `MCCarrierData` and `MCBoardLinks`
hold several specifications that share no state. A behaviour of theirs runs one of them, chosen
by `part` in the initial state; the others stay in one initial state, in which
their invariants say nothing and their liveness is asked of nobody. So such a run
explores the sum of its parts and not their product: it is as thorough for
each part as a run of its own, and no interaction is claimed between the parts.
Fairness is stated per part, under the condition that the part runs.
`MCAsteriaTool` is the test board and its tool alone.

A reset of a board is the start of another behaviour where nothing survives it
(Steering), and an action where other boards, persisted data or history do
(`ReceiveReset` in RecoveryServos, `Reset` in PressureControl, `McuRestarts` and
`PowerLoss` in CalStore, `RestartBoard` and `PowerFails` in TestBoard, the loss of power in CsvLog).

The engine board and the backplane panic at boot when a chip does not answer. EngineHeat
and Backplane model the build whose panic restarts the board (`panic_reset`, the clean
release build of `ARCHITECTURE.md:19`). With `defmt`, as the default features have it,
`panic_probe` stops it there: what BoardsSettle says of such a board is then true only of
one whose chips answered at boot.

Definitions whose comment begins with "Mutant:" are not part of the models; each
is a plausible mistake in the definition that follows it.

## 3. What the runs show

Each property of a passing run has a mutant: a plausible mistake in a mapped
definition with which TLC finds the property violated in the same instance.

| Run | Instance | Shows |
|---|---|---|
| `steering_power` | one target, a spiral different on each side, watchdog 1 tick, boot 2 ticks, one lost command or answer, power switched freely | motors driven only after their start-up time (PoweredBeforeDriven) and after the start-up sequence of this power session (LockedWhileActive); silence expires the watchdog (SpiralDeadline); ImplementsAuthority: the steering changes hands once |
| `flight` | steering with power never cut, watchdog 3 ticks, two lost answers; engine board; five kinds of camera; backplane | expiry needs the full silence (ExpiryNeedsSilence); the spiral is commanded (SpiralEventually) and is where the motors are (SpiralReached); each temperature and current is of its own channel and a main valve opens on command only (EngineRight); the board never cuts off a recording it could have ended (FileKept); once its inputs rest, heater, valves, arming, camera, buzzer and rails are what they call for (BoardsSettle) |
| `steering_spiral_retry` (violation) | one lost command | `move_absolute` counts a failed move as done: the retry sends zero steps and the spiral counts as reached with the left motor elsewhere |
| `servos_commands` | one separation trigger, two deployment triggers, power configurations and resets at any moment | a push needs a trigger of its own (PushedOnTrigger), lasts its full time with power (FullPush) and is announced at most once (AnnouncedOnPush); commands that are not replaced are carried out and occurrences get the transmitter (CommandsAnswered) |
| `broadcast_min_frequency` (violation) | the fields of `pressure_board` on a bus that delivers | a discarded change restarts the resend period: the documented minimum frequency is missed |
| `lox_valve` | 3 positions, 2 failed exchanges, 2 faults | the valve is moved only after homing (MovedOnlyWhenHomed); a target is reached and shown, up to the failures the code gives up on (ValveSettles) |
| `lox_init_failed` (violation) | one failure | initialization ends without `MOTOR_INIT_FAILED` |
| `pressure_board` | regulator: scale 0..3, limit 2, setpoints below and above it, one sensor out of order in any of three ways; its broadcasts: two fields, one with two values, one with a filtered value, throttle 2, resend 3, timeout 1 tick, errors and timeouts | the tank rises only below setpoint and limit (RisesOnlyBelow) and the valve opens only as commanded (OpenOnlyAsCommanded); setpoints are reached (Regulates); a lasting overpressure is heard and a lasting sensor fault is reported (FaultsMadeKnown); within a bounded time after the last failure a field is repeated and what it holds is on the bus, although the throttle discards values (FreshWithin); the settled value arrives (SettledValueArrives) |
| `carrier_readouts` | v3: bus with three sensors, IMU, receiver; v2: four pairs of sensors, CAN tasks; one or two faults each | a pair of IMU words is of one sample and dated within a period of it, rounding apart, except after the mishaps it names (PairsRight); no fix is older than one published, clock jumps excepted (FixesAreNew); a v2 driver does not go quiet while one of its sensors delivers (KeepsPublishing); what stays good is read again, shown and gets on the bus (ReadoutsRecover) |
| `carrier_data` | v3: one file, a logging session, selection with CAN, calibration store | the file is the rows in order (InOrder) and a durable log (ImplementsDurableLog); each reading is written, skipped or counted exactly once (AccountedFor); a mean may mix two IMUs only across a change (MeanOfOneImu); a boot applies what the console last said is stored (AppliedIsStored); sessions catch up and the twin of a silent sensor is heard (CarrierSettles) |
| `board_links` | EPOS4 link, steering motors' link, CATS and status, receiving, host tool with test board | accepted answers have the shape asked for (ShapeMatches) and come in order (AnswersInOrder); an RS-485 answer is that of its request, one late answer after a timeout excepted, and one that comes whole and in time is taken (MotorAnswersItself); a CATS deployment is reported as long as it lasts and a status frame shows the latest of each source (CatsReported); inputs are the last good frame of their id (InputsFollowBus); what a pull reports as copied is of one session (ReportsHold); rows are lost to a removal, an erase or a format only (RowsAreKept); every command of the host tool ends unless the board hangs in a panic (HostConcludes) |
| `test_board_panic` (violation) | the default build, one command | a panic stops the board for good: it does not restart as the tool says |

The four violations are disagreements of the code with its own comments, help and
messages; the quotations are under `findings`.

### Bounds and why they are enough

* *Steering.* A tick is about half a second: a lap sleeps 10 ms and waits for at
  most some 350 ms of bus timeouts, so it ends within a tick (`IterTicks` = 1),
  and the motors' start-up of 1000 ms is two (`BootTicks` = 2). `IterTicks < BootTicks`
  is assumed by the proofs. The watchdog's real time is longer than both runs'
  `Duration`; 1 and 3 put its expiry inside and outside the start-up wait. One
  fault is enough to separate `tracked` from `actual`.
* *RecoveryServos.* The hold of 30 s is one tick: only its beginning and end
  matter, everything else happens in between in every order. Two deployment
  triggers let one arrive in the push of the other.
* *CatsInputs.* The 20 ms and the status period are 2 ticks each, so a flip falls
  before, in the middle of and after both; five flips are an arming, a
  deployment, a disarm and a re-arm with one to spare.
* *CanInputs.* Four ids of which three are supported, a FIFO of 2 and five frames:
  a filtered, a damaged and an overflowing frame fit into one behaviour. The
  collector has a direct field, a flattened one with an id of its own and one
  that the direct field shadows.
* *RsblLink.* Three requests: one that times out, one that meets its late answer
  and one after. One mishap, because the promise is about one; frames have two
  bytes of header and one of data, enough to be cut inside either.
* *BroadcastLoop.* Two loops contend for the transmitter; three values suffice
  for new, repeated and filtered. `Throttle > TxTimeout` stands for transmissions
  that are short against the throttle: a frame takes well below a millisecond on a
  bus that carries it, and the shortest throttle is 45 ms (22 Hz). Were transmissions
  to last nearly the 100 ms of their timeout, longer than the throttle of a fast
  field, the unfair mutex could starve a loop; a failing bus lets the failing loop
  overtake, which is why `age` and `gap` restart with a failure. `MaxBurst` bounds the
  values of a field within a tick and `Horizon` the two history counters, above every
  bound they are compared with.
* *EposLink.* `Capacity` of 8 fields is two answers to a read, so that the
  buffer overruns within five requests. That a buffer holds more than a whole
  answer, the longest of five fields, is assumed (`LinkAssumption`). `MaxEposRequests`, `MaxTimeouts`, `MaxLost`
  bound the behaviours, which therefore end: deadlock is not checked.
* *LoxValve.* Three positions give a target, a rest and the endstop;
  `MaxErrors` and `MaxFaults` of two let one happen in boot and one after it.
* *PressureControl.* The tank moves by at most one step per acquisition (600 Hz)
  and lap (1.6 ms); the scale has a step below, at and above setpoint and limit.
* *EngineHeat.* Three temperatures are what the two thresholds tell apart;
  `MaxMishaps` of one lets a timeout or a failed transfer fall into any step.
* *CameraBoard.* Five kinds of camera: none to be told anything, only a
  button, only a start, a start and a button, a start and a stop.
* *Readouts of v3.* The limits of consecutive errors are 1 or 2, smaller than in
  the code: reached by as many faults as are allowed, and a fault may also fall
  into the recovery. The FIFO holds 12 words and its low byte counts 10, so a torn
  level occurs before it is full. With a watermark of 4 words and a stall of
  the executor between the two registers, more than two samples can come that the
  level did not see: the case in which a batch is dated too late (`LeftBehind`;
  without it PairsRight is violated in this instance). A period is 7 steps of
  time, which none of the batches divides evenly. A week has 4 epochs, so a newer
  fix and one from before the wrap are both within reach; that a fix which waits
  in the ring buffer is from the last half of a week is assumed (`GnssAssumption`).
* *Carrier v2.* The attempt counter has two bits and so has its power, so that the
  back-off wraps after four failed attempts (32 in the code). Priorities, periods and mailboxes: one
  field between two ticking tasks and one mailbox are the tightest case.
* *CarrierBus.* Two samples in a mean, one tick for each freshness bound, a
  queue of one frame, one sensor that stops.
* *CalStore.* Three sectors of two records: the ring turns, and moves a record
  of the other key, within two commands. One upset falls before, between or after
  any two transfers of the chip.
* *CsvLog.* Blocks of 3 bytes, a buffer of two blocks, rows of 1 to 3: every
  remainder of row and block occurs, a row ends exactly at the end of the buffer,
  and 13 bytes are four blocks and a byte. The log ends at `MaxBytes`.
* *SdLog.* Capacities 2 and 1 overflow with 3 readings; the second session
  follows a failure of the first.
* *TestBoard and AsteriaTool.* Indices up to 2 run out in three sessions, pages
  of one entry and chunks of two rows put a restart between two requests of one
  step; two commands let one be under way when the other's traces are there. One
  fault is a failed mount check, a loss of power or a failed write at any step of a
  boot or an erase, or a lost link. `PanicResets` is FALSE, the default build; with
  TRUE the same properties hold, and PanicRestarts does; the theorems are about both.

`CHECK_DEADLOCK FALSE` stands in the cfgs whose parts are bounded in what the
environment does (requests, frames, rows, commands, faults): with everything used
up and every task waiting they may stop, as the boards may.

### Fairness

* Tasks that are ready are polled: weak fairness of each task's step. This is
  the executor's run queue.
* Time goes on (`WF(Tick)` and the like), but not past a timer that is due.
* Strong fairness only where a waiter competes for a mutex: the response tasks
  on the transmitter (its other users sleep between two messages) and the two
  tasks on the LOX motor (each waits or sleeps between two uses).
* `SF(Sent)`: a bus that is tried for ever delivers. It is the assumption of
  SettledValueArrives and of nothing else.
* Chips that were asked convert (`Converts`, `Measures`, `AdcConverts`), sensors
  and receivers with power sample (`Period`, `GyroWord`, `Epoch`, the readings of
  CarrierBus), a bus that is up carries (`Carry`, `BusTakes`), a camera closes its file.
* CAN and Modbus masters, publishers, users of the host tool, faults and failures
  are never fair. In SdLog a session's publications are bounded, which is
  AllOnCard's "when the sensors pause".
* In PressureControl the tank follows the valve (`WF(TankChanges)`): without it
  no regulator reaches a setpoint.
* HostConcludes has a bounded number of faults: a link that drops for ever keeps
  a command from ending, and the tool then tries for ever. A board that hangs in its
  panic handler is excepted for the same reason; `test_board_panic` shows it, under the
  same fairness (board and tool go on with what they can do).

## 4. What is proved

The proofs take the named assumptions on the constants, which TLC evaluates in
the runs, and nothing else; a theorem with a further hypothesis states it.

`Steering_proofs`, from `SteeringAssumption` (any set of targets, any
timers with `IterTicks < BootTicks`, any fault bound):

| Theorem | States |
|---|---|
| TypeCorrect | `Spec => []TypeOK` |
| MotorsBootFirst | `Spec => []PoweredBeforeDriven` |
| MotorsLockedFirst | `Spec => []LockedWhileActive` |
| OneHolder | `Spec => ImplementsAuthority`: initial states map to initial states, every step to a step or a stutter |
| SilenceExpires | `Spec => []SpiralDeadline` |
| NoEarlyExpiry | `Spec => ExpiryNeedsSilence`, if no command cuts the power (`FALSE \notin PowerCmds`) |

The invariant is `IInv == TypeOK /\ PowerInv /\ LockInv /\ GoalInv`.
*PowerInv* adds to PoweredBeforeDriven where the power task stands: while it
waits out the start-up, the pin is high, the status is down, and the boot timer
and the time with power add up. *LockInv* is what makes the power
cycle visible: between the fall of the power status and its rise lie
`BootTicks` ticks, in which the loop, which passes its top every `IterTicks`,
has cleared `active`; without the count of ticks since the top the property is
not inductive. *GoalInv* says that the goal under way belongs to the holder of
the steering; OneHolder needs it because a goal is chosen in one step and the
motors are moved in two later ones.
Each conjunct has its step lemma (`TypeStep`, `PowerStep`, `LockStep`,
`GoalStep`), one case per action.

SilenceExpires rests on *LagInv*, what the loop may lag behind the silence of
ground: a target waits at most for the loop's next top, or for start-up and top;
so the age of a watchdog that runs follows the silence up to two laps; and an age
beyond the timer would have been an expiry at the last top, one lap ago.
NoEarlyExpiry rests on *PettedInv*: the watchdog is no older than the silence
unless a target waits that the loop has not come to. Its hypothesis is
needed: a target that arrives without power waits, and the watchdog that power
finds again has aged.

`RecoveryServos_proofs`, from `ServosAssumption` (any length of the push,
any bound on the triggers):

| Theorem | States |
|---|---|
| TypeCorrect | `Spec => []TypeOK` |
| NoPushWithoutTrigger | `Spec => []PushedOnTrigger` |
| NoFalseAnnouncement | `Spec => []AnnouncedOnPush` |
| PushesAreFull | `Spec => FullPush` |

The two counting invariants are inductive with the types: they count a trigger,
or an occurrence, wherever it is on its way (the Watch, the response task, the
bus), and a step moves it from one place to the next or drops it. FullPush needs
*HoldInv*, that the servos are powered and pushed out while the deployment task
sleeps: only that task writes them, except for a reset of the board.

`CarrierData_proofs`, from `LogAssumption` (any block, any buffer with room for a
rest and a row, any header that fits, any length of the log), `SdAssumption` (any
kinds of reading, any capacities), `CarrierAssumption` (any window, any ages and
periods) and `StoreAssumption` (two sectors or more, any number of records in one, any
length of pages and records):

| Theorem | States |
|---|---|
| RowsInOrder | `CsvSpec => []InOrder` |
| FlushedIsDurable | `CsvSpec => ImplementsDurableLog`: a loss of power at any step leaves what the last completed flush promised |
| NothingUnaccounted | `SdSpec => []AccountedFor` |
| MeansAreOfOne | `CarrierSpec => []MeanOfOneImu` |
| PowerMayFail | `StoreSpec => [](~misread => Safe)`: the newest record is one a boot may apply, at every step of a command |
| StoredIsApplied | `StoreSpec => []AppliedIsStored` |

The invariant of CsvLog rests on *Base*, the offset in the file at which the buffer
begins: the cursor, less the blocks of the buffer that are written already, or
less the rest that is not rewound yet. *BufferInv* says that it is a multiple of
the block and that the buffer continues the file from there; *StepInv* says how
many blocks a spill or a flush may still write; *FileInv* that file and card hold
the stream in its order. The write of a block behind the end of the file, the
overlap of a rest that is written twice and the rewinding seek are then the cases
of one lemma each (`WriteInOrder`, `ContentStep`); that blocks and buffer fit
together is arithmetic (`WholeBlocks`, `OneBlockMore`, `MultipleMod`).

NothingUnaccounted: *Balance* is an equation per kind of reading, in which every
place a reading can be in has its term: the file, the channel, what overflowed and
is not counted yet, the reading in hand, the drops counted and not yet reported. A
step moves one unit from term to term. *Totals* ties the sum over the kinds to the
one number that SD_SESSION reports; the sums are those of the library's
`SumFunction`, about which `Common_proofs` has what is needed (a sum of one cell
changed, a sum of sums). MeansAreOfOne: *MeanInv* says where the samples since the
last mean stand, at the end of the window, and that they are the chosen IMU's while
the choice stands; the estimator's choice is there once there is an estimate.

StoredIsApplied holds at a boot because *Safe* holds always: whenever the board
restarts, the newest record of every key is one the console was promised. The log
turns over its sectors, so the proof first shows that of any records of a key there is
one newest (`OneIsNewer`, `SomeNewest`) and what happens to it: it stays the newest while others
go (`Shrunk`) and when the ring takes the next, empty sector (`Turned`), and a record
behind the last one takes its place (`Grown`). Two things have to be known apart.
*ChipOk* says what the chip may be busy with, whichever command it was sent for,
even one that a restart cut short: a program of a promised value, a kill of an
oldest record, an erase of a sector without a newest record or of keys of which
any record may come to light (`ProgramEffect`, `KillEffect`, `EraseEffect`).
*CommandInv* says where the command under way stands: which record it programs and
whether the open sector ends with its first part, which sectors an erase has behind
it, and, at its last wait, that the chip's present operation completes what the
answer is about to promise. All of it is under the condition that no failed
status read passed for idle, which is the condition of the property. TLC checked
the invariant with the constants of `carrier_data`, and with three commands and
records longer than a page, before it was proved.

`PressureControl_proofs`, from `PressureAssumption` and `ReadingAssumption` (any
scale, limit and setpoints):

| Theorem | States |
|---|---|
| OpensForCommand | `Spec => []OpenOnlyAsCommanded`, with any number of sensors failing in any way |
| RisesBelowSetpoint | `Spec => RisesOnlyBelow`, if at most one sensor is out of order at a time, none overflows and the scale of the sensors covers the tank (`OneSensorAtMost`) |

*CommandInv* ties state and setpoint to the command in the Watch and the valve to
the decision of the last lap. *SampleInv* follows one pressure from the tank to
the sample, to the loop and to the valve: when the tank may move on, what the
loop knows is the tank's pressure. That holds because of `ReducedIsTank`: the
reduction of the two sensors is the pressure as long as *FaultInv* leaves
one that works. Without the hypothesis the theorem is false, and the code is so
too: with both sensors out of order the loop keeps the pressure it last knew.

`FlightBoards_proofs`, from `HeatAssumption` (any temperatures, any number of
mishaps) and any number of attempts, any set of cameras, and for the LOX valve
without an assumption:

| Theorem | States |
|---|---|
| MeasuresAndDrivesRight | thermocouples and heater, valves, currents and arming, however they interleave: `[]EngineRight` |
| KeptFiles | `CameraInit /\ [][CameraNext]_cameraVars => []FileKept` |
| OnlyHomedMoves | `Spec => []MovedOnlyWhenHomed` |

*ChannelInv*: while the task waits for a channel, the converter is set to it and
what it has done is of that channel. *FifoInv* counts the cold junction's FIFO: a
measurement is the older the nearer it is to the head, so that one mishap leaves
room for one measurement and one round more, and between trigger and read one
more still; the age of what is read is not inductive without it. *CurrentsInv*
ties the result of the current converter to the channel that the driver believes
configured. The theorem takes the two specifications side by side, where TLC
runs them one at a time. *CameraInv*: while the cable holds, the task knows from
its answer what the camera can do, and between start and stop a camera that can be
started records; so the button, which toggles, stops it. *HomedInv*: the tasks that
use the motor exist only once the board is READY, the home offset is stored by
then and nothing clears it or the flags.

`CarrierReadouts_proofs`, from `GnssAssumption` (any length of the week, any ring
buffer that holds no more than half of it), `ImuAssumption` (any FIFO, any
watermark, delay and period) and `NodesAssumption` (any timeout, back-off and width
of the moving average); any number of faults:

| Theorem | States |
|---|---|
| FixesNewOnly | `GnssSpec => []FixesAreNew` |
| PairsAreRight | `ImuSpec => []PairsRight` |
| DriversKeepPublishing | `NodesSpec => []KeepsPublishing` |

FixesNewOnly: *UartInv* bounds the age of what waits in the ring buffer by its place
from the back, since an epoch that makes a message older also puts one behind it;
*FixInv* says that the last fix is as old as the history counts. That read_pvt's
comparison modulo the week then decides right is `Newer`, and that the clock wraps
at most once in between is `WrapsOnce`.

PairsAreRight: *FifoInv* says of any FIFO that neighbouring words are of one sample or
of consecutive ones, which is all that is left after a read broke off. *AlignInv*
says more while none did: tag and age of a word follow from its place. *DateInv* is
the key: no more than two samples in the FIFO are older than `last_read`, and a batch
leaves no more than two; with it the date of a pair is arithmetic (`Dating`). The
proof found the property too strong as it had been stated and checked: with a larger
FIFO a stall between the two registers of the level leaves more than two samples
behind, and each pair of a batch adds a rounding of its own. The property now
names both, and the run's instance is large enough to contain the first.

DriversKeepPublishing: *QuietInv* identifies what the driver's selector measures its
timeout with, the time since it last used a value, with the time the driver has been
quiet; *RingInv* and *SumInv* say that the ring of a moving average holds the latest
samples, zeros before there are enough, and that the running sum is their sum.

`BoardLinks_proofs`, from `LinkAssumption`, `RsblAssumption`, `CatsAssumption`,
`CanAssumption` and `CollectorAssumption`, `BoardAssumption` (any lengths of frames and
buffers, any ids and structures of fields whose names are distinct, any bounds):

| Theorem | States |
|---|---|
| OrderedAnswers, ShapesMatch | `EposSpec => AnswersInOrder`, `EposSpec => []ShapeMatches` |
| MotorsAnswer | `LinkSpec => []MotorAnswersItself` |
| DeploymentReported | `CatsSpec => []CatsReported` |
| FieldsFollow | `CanSpec => []InputsFollowBus` |
| NoRowIsLost | `HostSpec => RowsAreKept` |
| ReportsAreTrue | `HostSpec => []ReportsHold` |

The EPOS4 link: *HeadFollows* (a sync in buffer or wire has its header behind it) and
*AnswerOrder* (the headers rise from buffer to wire) make no answer overtake another,
whatever timed out; *Aligned* says that before the first timeout what is left is the
end of the answer being read. The servo bus: *OwnBytes*, everything a request can
read is of its own answer unless something was late when it was written; *WholeAnswer*,
which byte is where. CATS: *PinInv* ties the pin's state to what was sent and
shown. Receiving: *Follows*, what is known of an id is the last good frame of it in the
queue, or what its field holds; that a frame goes to the one field that owns its id is
`Dispatch`. Test board: *DiskInv*, every file is in a directory and a session that is
being set up has one of its own that is empty, for which `NextIndex` shows that the index
chosen is no session's, so that clearing what there is of it (`Reused`) loses nothing until
the indices are used up; a stage left half done (`HalfDoneEffect`) loses no row, but for the
format of a flash that could not be mounted and for an erase; *CallInv*, an erase under way has taken the file system
from the tasks. The host tool may do with its request what it likes (`ToolKeeps`).

ReportsAreTrue relates the tool to the flash at the other end. *RowsInv*: the rows of a
file follow one another, those of a directory are of one boot, those of the session in
use end with the last one logged. *CommandInv*: the steps that are left of a pull stay in
its directory, and only the first of them reads; a removal ends with the path it was
asked for, so that its success is the board's answer to that path. *ConnectionInv*: a
request that will be heard is the one the next step asks for, and what an answer says of
the flash (*Tells*) goes on to hold while the connection lasts: a chunk continues the
copy, and a removed path has nothing below it but the log that the logging task starts
again (`StaysAway`: a file comes back only if its directory is there). *PullInv*: as long
as the connection lasts, what is copied is the beginning of what is on the flash
(`CopyStays`, `ReadExtends`); a restart ends the connection, and the pull begins again
with empty files. *GoneInv* keeps the promise of a removal until the next boot. The
invariant was checked by TLC on the bounds of `board_links` before it was proved. For the
listings, `SortedEnumeration` shows that a finite set of names has an order, so that
`Entries` is one.

In `Steering_proofs`, besides, SpiralIsReached: `Spec => []SpiralReached`, if power is
never cut and the bus loses answers only (`NeverCut`, `AnswersOnly`). Both hypotheses
are needed: `steering_spiral_retry` shows what one lost command does. *ReachInv* says
that then what the loop believes of the motors is where they are.

`Common_proofs`: what a task knows of its Watch; remainders; and induction. The library's
induction theorems take an operator, which no installed prover can instantiate; but
that a well-founded relation has minimal elements is stated for sets, and from it
`NatInduct` and `FiniteInduct` prove induction for a set of numbers and a set of
sets. With those, what a recursive function or a fold is can be proved, here that of
a sum (`SumUnfolds`, `SumAdds`, `SumOfRest`).

Only model-checked:

* all liveness, for the provers have no fairness or ENABLED;
* FreshWithin of BroadcastLoop, the one safety property without a theorem. It is not true of every value of the constants: the
  transmitter's mutex is not fair, and with more loops, or a throttle that is short
  against their transmit timeouts, one loop can be passed over without end. A
  theorem would have to assume more of the timing than the code guarantees.

## 5. What is not modelled

See `components` for each part. Left out because nothing depends on their state:
the LED of the LOX valve board, v3's console listings, LEDs, buzzer and reports, the bench
program of the hardware validation, utilities and wire types. Left out because
they are arithmetic on reals: the state estimation's filter, the fusion and
calibration fits, the PID controller (which no board uses for a decision),
conversions of readings. Left out because they repeat a modelled part: the
solenoids and vents of the fuel and oxidizer boards (as EngineBoard), their digital
pressures (published as read), magnetometer and humidity selection of v3 (as
the barometers in CarrierBus). Build-time macros are modelled by what they generate.

Inside modelled parts: the registers of the steering motors and of the EPOS4,
Modbus bytes, the CRC and a write of one half of a target, names of log
directories, the text of rows, the command line of the host tool.

Some hazards, or parts of one, have no property, for what the models show there no text of the
repository forbids (the note of each is under `hazards`): a steering target sent without
power is carried out when power comes (`actuator_control.rs:120`); homing may last for ever
(`valve.rs:148`); the pressure loop starts from a pressure of 0, so that a board enabled
before its first sample opens the valve (`dpr.rs:50`; RisesOnlyBelow therefore begins with
the first sample), and with both sensors gone it keeps the pressure it last knew
(`dpr.rs:97`); two receivers whose quality alternates change places for ever
(`position_velocity.rs:204`); the limit of errors of a magnetometer counts those of its
whole session (`magnetometer.rs:203`); and one failed mount check formats a good flash,
with every session on it (`logging.rs:364`).

## 6. What is left

Done as planned: every subsystem with state of its own has a module, the two
abstract specifications are implemented, and the safety of the core is proved.

1. Compositions: EposLink under LoxValve and RsblLink under Steering (an exchange
   as several steps, the abstract outcome as a refinement), SdLog over DurableLog.
2. The other arrangements of the fuel and oxidizer boards' solenoids, and the
   half-written target of the Modbus server.
