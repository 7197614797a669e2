# A verification of ZigbeeBlinds

TLA+ models of the firmware in `main/` (an ESP32-C6 that drives a window blind
over Zigbee), the TLC runs that check them and the TLAPS proofs about them.
`PROJECT.json` lists the runs, the mutations each property was tried against,
the lines every definition stands for, the hazards and the theorems.

## 1. The system

Three tasks share one core (`CONFIG_FREERTOS_UNICORE`), scheduled by priority:
the Zigbee task (5), in which every Zigbee callback runs under the stack's lock;
the motor task (4) and the main task (4, button and heartbeat); and `app_main`
(1), which starts the rest and returns. Interrupts come from the position
encoder's pulse counter, the button and the humidity sensor.

| Part | Files | State it keeps | Operations | Talks to |
|---|---|---|---|---|
| Blind motor | `ext/motor.*` | position (base and sampled), target, ends, speed, encoder power, queue of counts, starts counted | task loop, watch-point callback, identify, go, stop, nudge, limits, report callback | flash (position, starts), the endpoint (report) |
| Settings and report | `sensor.*`, `ext/motor.*`, `prefs.*` | each setting in four places: sensor, motor, flash, attribute; the reported attributes | init, onConnect, attribute writes, setLimit, setBlindState | motor, flash, the stack's attributes |
| Window-covering commands | `sensor.cpp:446-484` | none | open, close, stop, go to height or percentage, nudge | motor, settings |
| Firmware upgrade | `zigbee/handlers.cpp`, `zigbee/esp_delta_ota_ops.*` | counters and header flags of a transfer, patch buffer, decoder, update handle | start, receive, check, apply, finish; begin, write, end | the stack's upgrade client, the flash API |
| Bound devices | `zigbee/core.*`, `zigbee/endpoint.*` | list of bound devices and its flag, two statics the walks collect into | searchBindings, bindingTableCb | the stack's binding table, the heap |
| Humidity sensor | `ext/hdc2080.*` | last update, raw values, data-ready semaphore, bus | init, update, interrupt | I2C bus, sensor |
| Boot and commissioning | `main.cpp`, `zigbee/core.*`, `sensor.cpp`, `zigbee/endpoint.*` | boot stage, network, alarm, channel mask, clock | app_main, signal handler, fetchTime, getTime | the stack, the coordinator, the tasks |
| Button and main task | `main.cpp` | interrupt mode, button flag, queue of four | buttonISR, handleResetButton, handleHeartbeat, mainTask | commissioning, battery, sensor |
| Battery | `ext/adc.*`, `sensor.cpp:234-262` | the converter, the boot's reading | init, getValue, setBattery | main task, app_main, which leaves the motor out on USB power |
| Zigbee dispatch | `zigbee/handlers.*` | list of endpoints | handle, attributeUpdate, attributeResponse, reporting | every endpoint |
| Clusters | `sensor.cpp`, `zigbee/endpoint.*` | attribute tables | built once; battery, temperature, humidity setters | the stack |
| Preferences | `prefs.*` | an NVS handle | begin, get, put | flash |
| Host side | `blinds.mjs`, `tools/` | none | converter, image builder, patch generator | the device |

What is hard, and what would make each part correct:

* **Motor.** The Zigbee task rewrites the target between any two instructions of
  the motor task; the counter is deleted and made again while its events are in
  the queue; app_main identifies the motor while commands arrive. Correct means:
  never driven with the encoder off; every exit switches everything off; edges
  are counted once; memory, flash and report agree at rest, but for a put the
  flash refused and a report that came late; a target is acted upon; a blocked
  shaft is not driven for ever.
* **Settings.** A write changes four places one after the other and may fail in
  the middle; two tasks report from them meanwhile; the chip may restart
  anywhere. Correct means: the places agree but for the setting under way, a
  restart changes none, a report that nothing overtook is current.
* **Upgrade.** What the callbacks keep between calls outlives a transfer that
  is given up. Correct means: only a partition that holds exactly one file's
  body is booted, and a transfer after a clean one passes its check.
* **Bound devices.** Walks overlap and share statics, the table changes between
  their chunks, a copy of the list outlives the memory it points to. Correct
  means: no freed entry on the list, nothing stale, everything bound is found,
  walks end.
* **Humidity.** A semaphore token left by an edge nobody waited for. Correct
  means: a value shown is the one measured for it, or it is known how old it is.
* **Boot, button.** Commissioning fails in two ways and is tried again by
  alarms; the button's interrupt turns itself off. Correct means: the stack is
  started once, the device tries again unless a call is refused, the main task
  comes up, no press is lost, and the battery shown is not for ever the one of
  the boot.
* **Arithmetic.** Positions are 64 bits wide on a 32-bit core and shared without
  a lock; percentages, heights and speeds pass through 8, 16 and 32-bit types
  that wrap, in scales of 100 and 101, turned round by invert. Correct means: a
  target lies within the ends; a blind that arrives reports what it was told;
  a nonzero speed turns the motor, and a higher one turns it no slower.

## 2. Modules

| Module | Role | Lines it stands for |
|---|---|---|
| `Motion` | abstract: what a blind motor promises | none, it is the promise |
| `Motor` | the motor with its three contexts, counter and interrupt | `motor.cpp`, `main.cpp` (boot), `sensor.cpp` (commands) |
| `MotorSpeed` | from a step of the ramp to the duty, in integer widths | `motor.cpp:152-183`, the setters of speed and offset |
| `Position` | from a command to a target and from a position to the report, in integer widths and halves | `motor.cpp:227-356`, `sensor.cpp:424-484`, `:584-626` |
| `Settings` | the four places of a setting, and the report | `sensor.cpp`, `motor.cpp` setters, `prefs.cpp` puts |
| `Upgrade` | abstract: what a firmware upgrade promises | none, it is the promise |
| `Ota` | the transfer, the delta writer, the flash API | `handlers.cpp:129-285`, `esp_delta_ota_ops.cpp` |
| `Members` | abstract: what the list of bound devices promises | none, it is the promise |
| `Bindings` | walks, the list and its heap | `core.cpp:142-321`, `endpoint.*` |
| `Hdc2080` | driver, interrupt, sensor | `hdc2080.cpp:1-117` |
| `Commissioning` | boot, network, time, battery, button, main task | `main.cpp`, `core.cpp`, `adc.cpp`, `sensor.cpp:234-262` and `:524-536`, `endpoint.cpp` |
| `MotorProofs`, `MotorSpeedProofs`, `PositionProofs`, `SettingsProofs`, `OtaProofs`, `BindingsProofs`, `Hdc2080Proofs`, `CommissioningProofs` | theorems | |
| `MCMotor`, `MCMotorSpeed`, `MCPosition`, `MCSettings`, `MCOta`, `MCBindings`, `MCHdc2080` | budgets for TLC | |

How the modules divide what is one program: `Motor` takes for granted that a
nonzero step of its ramp turns the shaft the right way round, which is
`DrivesAsAsked` of `MotorSpeed`; it sends the motor to any target a command can
name, and `Position` says which target that is. `Position` has one `min` for the
sensor's and the motor's, and `Settings` says when they part. `Commissioning`
reads the battery that decides whether there is a motor, and `Motor` starts
where it is set up.

How state and actions correspond to the code:

* **Motor.** Variables carry the code's names (`exact` is `_exactPosition`,
  `nvs` the flash). `shaft` is where the blind really is; `fresh` is history: a
  target the task has not compared with the position. A step of the task is a
  stretch of `BlindMotor::task` with one access to shared state: `Receive`,
  `Sample`, `Tell` (the report, once the stack's lock is free), `Diff`, `Ramp`
  (it reads `_target` a second time, motor.cpp:236), `Warm` (the 20 ms in which
  `sensorPower` waits), `Poll`, `Halt`, `Save`, `PowerOff`. `PcntCb` is the
  watch point's callback, `Edge` the world. A handler is one step: the Zigbee
  task has the highest priority, and the flash writes inside `updateSpeed`
  belong to the motor task's own steps. A put succeeds, or fails having written
  or not (`Put`), and nobody looks at the result; `unsaved` is history, the keys
  whose last put failed. app_main's first report takes two steps: `MoveCallback`
  reads, `AppTell` publishes, and the motor task may report in between; `late`
  is history, app_main's older report came, or will come, after a newer one. The
  duty is its sign.
* **MotorSpeed.** A call of `updateDesired` is five steps, one for each setting
  it reads (`ReadRange`, `ReadLerp`, `ReadOffset`) and one for `updateSpeed`; a
  setter comes between any two. `range` and the cap are cut to 16 bits as in the
  code. `crossed` and `before` are history: a setter came between, and the call
  before.
* **Position.** `hi` and `lo` are the words of `_exactPosition`, stored in either
  order (`StoreFirst`, `StoreSecond`); `sample` is the value on its way there.
  Each command is one step, as handlers are not interrupted by the motor task,
  and does its arithmetic in the code's widths; the double of `goPercent` is the
  set of results it may have (`Products`). A report is read (`ReadPercent`,
  `ReadLift`, in either order), turned round (`Turn`) and published under the
  stack's lock (`Report`), with handlers between. `known`, `torn`, `asked`,
  `crossed` (a handler set an end or the orientation while a report was on its
  way) and `behind` are history.
* **Settings.** A handler takes three steps (memory, `Put`, `Tell...`), because
  a write to flash may block and let other tasks run. A report takes five:
  started by `Sample` or `MoveCallback`, then `ReadPercent` and `ReadLift` in
  either order, `Turn`, and `Publish` under the lock. What a report shows is the
  record of the values it was computed from. `crossed` and `behind` are history.
* **Ota.** A file is a sequence of units, so that what is in the partition can
  be compared with it. The statics of `otaData` are `offset`, `tagSeen`, `tag`;
  those of the delta writer `patch` and `ctx`. `Upgrade` is implemented under
  the mapping at the end of the module: what is in the partition counts from a
  transfer's first block on, unless the counter was wrong at its start or a
  patch header was lost. `clean` (no transfer given up
  since the last check) and `spoilt` (a patch header lost to the width of
  `patch_len` or left over) are history.
* **Bindings.** A walk is a request and its position; `found` and `records` are
  the two statics. The callback that gets the last chunk is split into its
  removals and additions, each of which follows pointers an earlier one may
  have freed. `heap` is a set of cells that are handed out again; `doomed` and
  `todo` are the places, in the copied list and in the records, it still has to
  go through.
* **Hdc2080.** A measurement is its number; `raw` is the number of the one that
  was read last. `Skip` is an update within ten seconds of the last.
* **Commissioning.** `stage` is where `app_main` is, `main` where the main task
  is; `doing` and `alarm` are what the stack is doing and what it has been told
  to do later; a call that begins a commissioning may be refused (`Begins`), and
  then nothing is done and nothing scheduled. `reading` is app_main's
  uninitialised `zigbeeMv`: battery, USB, or never set; `battery` says whose
  reading the attributes show; `due` and `beats` are the heartbeat's clock and
  its 16-bit counter.

## 3. Runs

| Run | Bounds | Shows |
|---|---|---|
| `MCMotor` | counter of 2 edges, queue 1, patience 1, 3 edges, 2 commands, 1 mishap (a restart or a failing put), 4 of all these, fair | `MotorInv` (inductive), `EncoderBeforeDrive`, `AtRestAgreed`, `MovesReported`, `WakeKept`; `KeepsPromise`: Motor implements `Motion`; `CountsConserved`: no edge is lost or counted twice but by three named leaks; `SettlesDown`: every step of the program leaves it less to do; `WakeServed`, `ComesToRest` |
| `MCSleep` | counter of 4 edges, queue 2, 2 edges, 2 commands | violated: `SleepsWithoutEvents` (section 6) |
| `MCMotorSpeed` | the code's constants; 7 steps, 3 velocities, 5 minimum speeds, 3 offsets, 2 changes | `SpeedInv` (inductive), `DrivesAsAsked`, `NeverSlower` |
| `MCPosition` | words of 16 values, quarters for percents, lifts of 2 edges; 2 samples, 3 commands | `PositionInv` (inductive), `ReadsWhole`, `AimsWithinEnds`, `RoundTrip`, `ReportsPercent` |
| `MCSettings` | 2 positions, 3 of the 4 numbers, 2 values, 2 events | `SettingsInv` (inductive), `ReportCurrent`, `SettingsSurvive` |
| `MCOta` | 6 files of 4 or 7 units, blocks of 1 to 3, 3 transfers | `OtaInv` (inductive), `BootOnlyComplete`, `CleanCheckPasses`, `PoisonedForGood`; `KeepsUpgrade`: Ota implements `Upgrade` |
| `MCOtaWrap` | delta files only, 1 transfer, `patch_len` of 2 bits | violated: `WrittenSequentially` |
| `MCBindings` | 2 walks at once, 3 cells, 3 records, 4 changes, 2 searches, fair | `BindingsInv`, `NothingStale`, `AllBound`; `KeepsMembers`: Bindings implements `Members`; `WalksEnd` |
| `MCBindingsLost` | 3 searches | violated: `NewDevicesAdded` |
| `MCHdc2080` | 6 measurements, 3 leaked buses | `HdcInv` (inductive), `LagsAtMostOne`, `FreshUntilLeftOver` |
| `MCHdcWaits` | the same, pin low at start | violated: `WaitsForData` |
| `MCCommissioning` | queue 2, 2 polls of the button, an hour of 2 beats, a counter of 3; presses, failures, refusals, restarts unbounded, fair | `CommissioningInv` (inductive), `NeverStranded`, `PressSignalled`, `HoldIsNoticed`, `BootEnds`, `BatteryRefreshed` |

Why the bounds are enough. In `Motor` the thresholds are scaled to 1, 2, 3 with
their order kept, so that every comparison goes both ways within a few edges of
the target; positions wrap at 64 and lie around the middle as the code's start
at INT64_MAX; two commands are what it takes for one to overtake the other, and
three edges pass a watch point of two and come back; one put that fails, with an
edge before and a command after it, is what parts flash and memory. Four such
events in all keep the run, of 650 thousand states, within minutes; its
invariants are proved for any number. A queue of one is where both kinds of
entry are refused; what more room does is covered by the proofs. `MotorSpeed`
runs with the code's own numbers, at the corners of each setting's range and at
the steps where the ramp starts, turns and ends. `Position` keeps its ratios: a
word has 16 values and the blind starts at 127, where a step of one carries, as
from INT64_MAX; the ends are once a range a double is precise for and once the
whole, and two samples reach a target, or set out and report on the way, with
three handlers between their steps (three million states). In `Commissioning` an
hour of two beats does not divide the counter's three, as 60 does not divide
65536, so one reading comes early. `Ota` has headers of one and two units so
that a block can end before, in and after each; three transfers are one given
up, one refused and one that follows. `Bindings` needs two walks, a cell freed
and handed out again, and one more search than that to show `NewDevicesAdded`
false. `Settings` needs a write and a restart, or two writes; what more events
do is covered by its proof. A counter of measurements has no bound in the code:
`Hdc2080` stops at six, `HdcInv` being proved for all. The limits of TLC live in
the MC modules as guards on the world's actions (edges, commands, restarts,
table changes, searches, transfers, events, measurements); what the program does
by itself is not limited. `CHECK_DEADLOCK FALSE` stands where a used-up budget
leaves a system at rest.

Fairness. `Motor`: weak on the motor task, on the interrupt and on app_main,
which FreeRTOS gives because the Zigbee task goes idle between messages and the
motor task blocks; nothing is assumed of edges and commands, so `ComesToRest`
says what happens when they cease. `Bindings`: the stack answers each request
and the callback finishes. `Commissioning`: weak on the tasks, the interrupt,
the alarm and CAN_SLEEP (the stack becomes idle from time to time); strong on
success of a commissioning that is tried again and again, which is what the
retry by alarm is for, and of a reading of the battery, tried every hour; weak on
the timer's minute. None of them is assumed by a safety property.

## 4. Proofs

The theorems hold for every value of the constants under the module's named
assumption (`MotorAssumption`, `SpeedAssumption`, `PositionAssumption`,
`SettingsAssumption`, `OtaAssumption`, `BindingsAssumption` and `HeapAssumption`,
`PinAssumption`, `CommissioningAssumption`), which says little more than that
sizes are natural numbers, thresholds are ordered and sets are not empty.
`PositionAssumption` relates the widths: 101 times the range a double is precise
for, and a lift in edges, fit into a position. The theorems of
`BindingsProofs` also assume that destinations are IEEE addresses (`Short = {}`),
without which they are false.

* **MotorInvariant.** `MotorInv` is `TypeOK` with `BootInv` (what runs before
  app_main hands the motor over), `PowerInv` (power, counter, duty by place in
  the task), `ExitInv` (the speed is cut wherever the loop is left), `RecordInv`
  (memory, flash, the motor task's report and the one app_main is about to
  publish; a put that failed and a report that came late are named in it) and
  `WakeInv`. None of the safety properties is
  inductive: `EncoderBeforeDrive` needs to know that `sensorPower(true)` is over
  before a duty is set, which is a fact about `pc`. One lemma per group of
  actions. `DriveSafety`, `RestSafety`, `RestAgreement`, `WakeSafety`
  follow; `MovesSafety` adds `MovesInv`, where the count of starts is reported.
* **MotorConserves.** An edge is in the counter, in the interrupt, in an entry of
  the queue or in the position; `Err` is what the shaft has gone beyond their sum,
  modulo the width of a position. Every step but those named keeps it, for a
  queue and a counter of any size: the queue's edges are its entries of either
  sign, counted, so that no induction over it is needed. The first conjunct of
  `PowerInv` (nothing is counted while there is no counter) is there for it.
* **MotorSettles, SettledIsRest.** `Work` counts the steps the program has left
  when the world leaves it alone: a turn of the loop is at most six, the loop
  has as many turns as it has patience, an entry of the queue costs a round, and
  the boot its own steps. Every step of the task, the interrupt and app_main
  lowers it, and where it is 0 the blind is at rest. That is `ComesToRest` for
  every queue, patience and counter, but for the scheduling: that a step which
  can be taken is taken stays an assumption of `MCMotor`'s fairness.
* **MotorKeepsPromise.** The initial states map to initial
  states, and every step is a step of `Motion` or leaves its variables alone;
  `MotorInv` supplies what the guards of `Motion` ask: when the encoder goes
  off, zero duty and a position that is kept or, if the put failed, refused
  (`Refused`). A refusal is forgotten as soon as the position moves on.
* **SpeedInvariant.** `CallInv` carries what each local is through the reads of
  a call no setter crossed, for a minimum of at least 8 and at most the maximum
  (`Sane`); the 16-bit wraps are shown to be either absent or what `Lifted`
  says. `SaneDrive` and `RampRises` follow, the latter from the line's being
  monotone and `Lifted` preserving the order. The minimum speed is any integer.
* **PositionInvariant.** `WordsInv` says what each word holds at each place of
  the store; `WholeReads` is inductive with it. `AskedInv` says that the target
  of a standing command is what it makes of ends, limit and orientation,
  `ReportInv` that a report is that of the sample at each of its four steps,
  unless a handler crossed it. `WithinEnds` follows
  from the first (for ends in order, products and sums stay below the wrap),
  `PercentReported` from the second, `ComesBack` from both: the quotient in the
  scale of 101 finds the percentage again though the product was cut. Words,
  scales and sets are of any size.
* **SettingsInvariant.** `FlashInv`, `PlacesInv` and `AttributeInv` say where
  each setting is while its handler is between two steps; `ReportInv` says that
  what an uncrossed report has read is what is there now. `Survival`: the step
  that takes `online` back is a restart, and before it the flash held every
  setting. `ReportsCurrent` follows from `ReportInv`.
* **OtaInvariant.** `OrderInv` relates the units in the partition, in the patch
  header and in the decoder to how much of the file was sent; `CounterInv` says
  how far the counter runs ahead after a transfer given up. `OnlyCompleteBoots`,
  `CleanTransferPasses` and `PoisonStays` follow. Files, blocks and headers are
  of any size. `HandleInv`, part of `OtaInv`, says that no block is written,
  and no check made, with a handle the flash API has closed (handlers.cpp:189).
  `SequentialAfterHeaders` says when the claim that `MCOtaWrap` refutes is true:
  if the first block of every transfer goes beyond all its headers
  (`HeadersFirst`) and no block is longer than `patch_len` counts
  (`BlocksCounted`). The blocks of 223 bytes the device asks for
  (sensor.cpp:178) do both; that the server sends no shorter first block is
  its affair, so both are hypotheses.
  `OtaKeepsPromise`: under the mapping every step is one of
  `Upgrade` or a stutter, by the same invariant.
* **ListSound** (`BindingsProofs`). `BindingsInv` is not inductive: removals find
  their entry by searching for an address. `WalkInv` adds that every device has
  an IEEE address (`LongInv`), that what is to go is what was not found, in the
  order of the list (`JudgedInv`), and where each address found now is
  (`FoundInv`). The lemma that carries it, `FirstIsOwn`, says that the entry a
  removal erases is the one whose memory it frees, though two entries may have
  one address. `NothingStaleKept` and `FoundIsBound` follow; heap, table and
  number of walks are arbitrary.
* **ListKeepsPromise** (`BindingsProofs`). The members are the addresses of the
  entries on the list, a pass is the callback that got the last chunk. Every step
  is one of `Members` or a stutter, by `WalkInv`; so a member the pass finds
  again is on the list throughout, and no order of overlapping walks makes a pass
  learn an address it did not find.
* **WalksDwindle, CallbackGoesOn** (`BindingsProofs`), the part of `WalksEnd` that
  is not scheduling. A step of the callback lowers `PassLeft`, an answer lowers
  what its walk has ahead of it or is its last, and neither sets another walk
  back; a walk in its callback is never stuck. The least element a loop goes to
  next comes from the library's well-foundedness of the natural numbers.
* **HdcInvariant.** `LagInv` bounds the distance between asked, measured and
  read; it has to speak of the semaphore and the pin at each place of `update`.
  `LagBound` and `FreshFirst` follow. `ForwardOnly` and `OkMeans` hold whatever
  fails: what getTemp and getHumidity publish without looking at update's result
  is never older than what they published before, and ESP_OK means a measurement.
* **CommissioningInvariant.** `StageInv`, `DriveInv` (which names a refused
  call), `PressInv`, `PowerInv`;
  the queue and the hour have any length. `SingleStart`, `AlwaysDriven`,
  `PressSeen` follow. `NewestStays`: app_main shows the boot's battery without
  the stack's lock and late, but never over the reading of an hour.
  `ReadingsRecur` and `RoundsAreFinite` are what `BatteryRefreshed` and
  `HoldIsNoticed` owe to the main task itself: a round of it is finite, and each
  beat reads the battery or is one nearer to the beat that does, wherever the
  counter wraps (`NextBeat` is the lemma about remainders it needs).

The inductive invariants, but for what the proof modules add (`WalkInv`,
`MovesInv`, `HeldInv`, `AskedInv`, `ReportInv` of `Position`), are also checked
as INVARIANTs of a run. Stated by a theorem and by no run are `RestIsOff`,
`StackStartedOnce`, `DoneIsRest`, `NewerStays`, `NeverLate`, `RoundsEnd`,
`NeverBack`, `OkIsMeasured`, `WalksAdvance` and `NeverStuck`. Only model-checked
is liveness (`WakeServed`, `ComesToRest`, `WalksEnd`, `HoldIsNoticed`,
`BootEnds`, `BatteryRefreshed`), which rests on fairness and so is beyond the
provers; of `ComesToRest` and `WalksEnd` all but the fairness is proved, as said
above. The properties of the violated runs are false, not unproved.

## 5. Assumptions

* A nonzero step turns the motor the right way round: proved in `MotorSpeed` for
  a minimum speed from 8 to the maximum, and one call at a time (section 6).
* A handler of the Zigbee task is not interrupted by the motor task (priority 5
  over 4, one core), which is why `Position` tears the motor task's stores only.
* The double of `goPercent` is off by at most two roundings, a 2^-52 of the
  product: for a range of up to 45 bits less than a hundredth, so that the cut
  product is right, or one less when the quotient is whole; above, within 2^13.
  What overflows at the top is any value near it, or 0.
* The pulse counter's interrupt is handled before the next watch point. Before
  the boot hands the queue over, the callback has a NULL queue and, assertions
  being disabled in `sdkconfig`, the chip faults and restarts (`PcntFault`).
* An uninitialised `high_task_wakeup` changes when a task yields, not what it
  does.
* The stack gives up a transfer when its callback returns an error, and answers
  a binding request with at least one record if any remain; destinations are
  IEEE addresses in the run that passes (`Short = {}`, see below).
* The flash API and the delta decoder are external: they may refuse anything
  and accept any image; a failed put may have written or not.
* A file is longer than all its headers. Freed memory holds no address.
* The sensor finishes within the second the driver waits, or never.
* A software restart keeps the clock; a loss of power does not. A call that
  begins a commissioning is refused, or its signal says how it ended.
* The step of `Hdc2080` that skips an update leaves the values as they are.

## 6. Where the code and its words part

Runs that show it (`PROJECT.json`, findings):

* `MCSleep`: a command in the last 20 ms of a stalled movement is consumed by
  the poll that ends the loop (motor.cpp:251), and the task sleeps over it,
  against "Allow sleep while there are no events" (motor.cpp:215).
* `MCOtaWrap`: `patch_len` is a `uint8_t`; a short first block and a long second
  one carry it past its width and the patch is lost while every call returns
  ESP_OK, against "written sequentially" (esp_delta_ota_ops.h:55-56).
* `MCBindingsLost`: a device added in the walk that removed another may get its
  memory, be found on the copied list and be dropped (core.cpp:276).
* `MCHdcWaits`: a token left over makes each later update read one measurement
  late, against "Wait for data to be ready" (hdc2080.cpp:86).

Known from the models, without a run of their own:

* `lastTime` is never written, so after a restart that keeps the clock a time set
  days ago passes for one "updated in the last day" (sensor.cpp:528).
* A minimum speed above the maximum, below 8 or negative is accepted (the
  converter offers 0 to 65534, blinds.mjs:109-117): the unsigned range wraps, and
  steps of the ramp may have no duty or the wrong sign (`Sane` excludes it).
* The velocity offset, "Increase speed when going up" (blinds.mjs:121), adds
  nothing beyond the middle of the range when the speed is at most 0x4000,
  because `maxOffset` is cut to 16 bits (motor.cpp:159; `Lifted` says so).
* A setter between two reads of `updateDesired` may give one call a speed beyond
  either setting; the next call, 20 ms later, does not see it.
* The upper end is at 101 percent, which turned round by invert is 255
  (`AtEnd`); one edge below the lower end the percentage is anything, as the
  difference wraps. Ends set in the wrong order send `goPercent` far outside.
* A stop, nudge or end that falls into a carrying store aims at a position the
  blind never had (`torn`); a blind never set up starts where the first edge
  carries. An end is also saved so. `stop` also writes `_target` in two halves,
  as every command does; the motor task may use one for 20 ms (not modelled).
* The nudge of -32768 is its own opposite when the blind is inverted.
* The two reads of `_target` (motor.cpp:233 and :236) may see two targets, so
  that a movement of less than the small distance of line 234 starts.
* `esp_delta_ota_end` returns early and leaks the update handle
  (esp_delta_ota_ops.cpp:193) though the header says it is freed "regardless of
  result" (esp_delta_ota_ops.h:76).
* A transfer given up within its patch header leaves `patch_buf` filled, and
  the next one is read from its middle. With `PatchMod = 8` and three
  transfers `MCOtaWrap` shows this without the overflow.
* A position whose put fails at rest (motor.cpp:255) is lost to the next restart:
  nobody looks at the result, and nothing writes it again before the next
  movement. So is a start counted by a put that fails (motor.cpp:168).
* app_main reads the position it reports first before it waits for the stack's
  lock (motor.cpp:363, sensor.cpp:592). If the motor task moves, reports and
  rests meanwhile, the older report comes last, and stays until the next movement
  or change of the offset (`late`).
* A commissioning call that is refused, by an alarm (main.cpp:46) or directly
  (main.cpp:60 and :68), is logged at most: nothing is under way or scheduled,
  and the device stays off the network until it restarts. The heartbeat's second
  start (main.cpp:169) is never reached (`SingleStart`).
* A failed transfer of `HDC2080::update` returns with the bus up
  (hdc2080.cpp:84), and an update within ten seconds of it returns ESP_OK.
* When the binding table becomes empty the list is forgotten, not freed
  (endpoint.h:47).
* With group destinations (`Short` not empty) every one has the IEEE address of
  zeros, and `NothingStale` fails (endpoint.cpp:189 against core.cpp:248).
* Two records for one destination in one walk put it on the list twice:
  duplicates are looked for on the copy only (core.cpp:274-276).
* Setting one end makes no report, so what the network sees is behind until
  the next movement (`behind` in `Settings` and `Position`); so is a report that
  was computed before a handler changed an end or `invert` and published after
  it. Whatever is claimed of reports excepts these.
* The limit is computed from the flash's upper end when the lower one is set,
  and from the motor's when the upper one is (sensor.cpp:429); they differ after
  a failed write.
* `zigbeeMv` is used uninitialised when the converter fails at boot
  (main.cpp:238): a motor on battery may be left out. app_main shows the boot's
  reading when the network is joined, however long after, and without the
  stack's lock (main.cpp:260).
* Every reading makes a calibration scheme that nothing deletes (adc.cpp:30), and
  with assertions disabled nobody learns when that fails.
* The battery's percentage is a float cut to 8 bits (adc.cpp:54): above about
  13.5 V it wraps, below 8.8 V, as on USB power, it is undefined.

## 7. Not modelled

* **Torn targets and ends.** `Position` stores `_exactPosition` in halves; the
  motor task's reads of `_target`, `_min` and `_max` are whole there and in
  `Motor`. Half of one
  spoils a report, the speed of a turn, or the choice to end a movement there.
* **Voltages and temperatures.** `adc.cpp:52-54` and `hdc2080.cpp` convert a raw
  value once; the models keep whose value it is, not how much.
* **Clusters, dispatch, the upgrade server search, logging**: tables built before
  any task runs, one sequential loop, one request and its answer, wording; no
  state of their own that two steps could disagree on. `getTimezone` is never
  called.
* **Preferences** beyond a put that succeeds or fails and a get that returns
  what was put: the wrapper checks its arguments and calls NVS.
* **Host tools, the converter, build files**: they run elsewhere; `sdkconfig`
  was read for priorities, the single core and assertions.

## 8. Plan

Done: the modules of section 2, their inductive invariants, the three refinements
(`Motion`, `Upgrade`, `Members`), and the measures behind `ComesToRest` and
`WalksEnd`. Dropped: a module that composes `Motor` and `Settings` on a change of
ends. Commands and that change are handlers of one task, so no command falls
between its steps, and what a report sees between them is in `Settings`.
Left:

1. The motor task's torn reads of `_target`, in `Position`.
2. What remains true of the list with group destinations (`Short` not empty).
