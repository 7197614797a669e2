-------------------------------- MODULE Motor --------------------------------
(***************************************************************************)
(* The blind motor of main/ext/motor.cpp with the three contexts that      *)
(* touch it: the motor task (priority 4), the Zigbee task (priority 5),    *)
(* whose handlers call the public operations, and app_main (priority 1),   *)
(* which identifies the motor at boot and registers the report callback.   *)
(* The pulse counter and its interrupt handler sit below all three.        *)
(*                                                                         *)
(* The chip has one core: a handler of the Zigbee task runs to its end     *)
(* between two steps of the motor task, the interrupt preempts both, and   *)
(* app_main moves only while the motor task is blocked.  A step of the     *)
(* motor task is a stretch of BlindMotor::task that reads or writes shared *)
(* state once.                                                             *)
(*                                                                         *)
(* The shaft is the real world: shaft is where the blind is, in encoder    *)
(* edges, and edges come at any time, driven or not.  The size of the PWM  *)
(* duty is abstracted to its sign; a nonzero speed gives a nonzero duty.   *)
(***************************************************************************)
EXTENDS Integers, Sequences, FiniteSets

CONSTANTS
    Watch,      \* WATCH_RESOLUTION: the count at which the unit raises an event
    Near,       \* diff < 20 in the code: cut the speed
    Small,      \* diff < 100: do not start moving
    Slow,       \* diff < 1000: creep
    Fast,       \* 100: full speed
    Patience,   \* 3: iterations without movement before the task gives up
    QueueLen,   \* 10: length of motorQueue
    PosMod,     \* 2^64: positions are uint64_t
    StartPos,   \* INT64_MAX: position of a blind with nothing stored
    ActMod,     \* 2^16: actuations are counted in a uint16_t
    Ends,       \* the pairs <<min, max>> the preferences may hold at boot
    Targets,    \* positions a GO_TO_LIFT_VALUE command may name
    Percents,   \* percentages a command may name
    Nudges      \* distances a nudge command may name

Pos == 0 .. PosMod - 1

Wrap(x) == x % PosMod

ASSUME MotorAssumption ==
    /\ Watch \in Nat \ {0}
    /\ Near \in Nat /\ Small \in Nat /\ Slow \in Nat
    /\ Near <= Small /\ Small <= Slow
    /\ Fast \in Nat /\ Fast >= 3
    /\ Patience \in Nat
    /\ QueueLen \in Nat \ {0}
    /\ PosMod \in Nat \ {0}
    /\ StartPos \in Pos
    /\ ActMod \in Nat \ {0}
    /\ Ends \subseteq Pos \X Pos
    /\ Targets \subseteq Pos
    /\ Percents \subseteq Nat
    /\ Nudges \subseteq Int

VARIABLES
    shaft,        \* where the blind really is
    driven,       \* sign of the PWM duty
    unit,         \* the pulse counter exists and counts
    wired,        \* its callback holds a live queue handle
    count,        \* its count
    isr,          \* the watch point whose interrupt is pending, or 0
    queue,        \* motorQueue
    position,     \* _position
    exact,        \* _exactPosition
    target,       \* _target
    speed,        \* sign of _speed
    powered,      \* _sensorPower
    identify,     \* _identify
    min, max,     \* _min, _max
    setup,        \* _setup
    actuations,   \* _actuations
    onMove,       \* _on_move is registered
    reported,     \* what the callback last published
    seen,         \* what app_main has read and not yet published
    late,         \* history: app_main's report is older than the last one
    inited,       \* init ran: false on USB power
    nvs,          \* the preferences in flash
    unsaved,      \* history: the preferences whose last put failed
    pc,           \* where the motor task is
    lastLocal, movingCheck, localSpeed, diff,  \* its locals
    exit,         \* why it left, or is leaving, its loop; "none" inside it
    boot,         \* where app_main is
    fresh         \* history: a target was set that diff has not yet seen

plant    == <<shaft, unit, wired, count, isr>>
memory   == <<position, exact>>
settings == <<min, max, setup, onMove, identify, inited>>
locals   == <<lastLocal, movingCheck, localSpeed, diff, exit>>
drive    == <<driven, speed, powered>>
record   == <<actuations, nvs, unsaved>>
report   == <<reported, seen, late>>
aim      == <<target, fresh>>
vars == <<plant, queue, memory, settings, locals, drive, record, aim,
          report, pc, boot>>

-----------------------------------------------------------------------------
(* Types *)

PCs   == {"none", "wait", "sample", "report", "diff", "ramp", "warm",
          "delay", "halt", "save", "off"}
Boots == {"delay", "spin", "settle", "ends", "join", "tell", "done"}
Exits == {"none", "arrived", "stalled"}
Signs == {-1, 0, 1}
Keys  == {"position", "actuations"}

Report == [at : Pos, moves : 0 .. ActMod - 1]

\* The encoder and what reaches the task from it.
PlantType ==
    /\ shaft \in Int /\ unit \in BOOLEAN /\ wired \in BOOLEAN
    /\ count \in Int /\ -Watch < count /\ count < Watch
    /\ isr \in {-Watch, 0, Watch}
    /\ queue \in Seq({-Watch, 0, Watch}) /\ Len(queue) <= QueueLen

\* The fields of BlindMotor, the flash and the published attributes.
FieldType ==
    /\ position \in Pos /\ exact \in Pos /\ target \in Pos
    /\ min \in Pos /\ max \in Pos
    /\ driven \in Signs /\ speed \in Signs /\ powered \in BOOLEAN
    /\ identify \in BOOLEAN /\ setup \in BOOLEAN /\ onMove \in BOOLEAN
    /\ actuations \in 0 .. ActMod - 1
    /\ reported \in Report /\ seen \in Report /\ late \in BOOLEAN
    /\ unsaved \subseteq Keys
    /\ nvs \in [position : Pos, actuations : 0 .. ActMod - 1]

\* The control state of the tasks.
TaskType ==
    /\ inited \in BOOLEAN /\ fresh \in BOOLEAN
    /\ pc \in PCs /\ exit \in Exits /\ boot \in Boots
    /\ lastLocal \in Pos /\ diff \in Pos
    /\ movingCheck \in 0 .. Patience
    /\ localSpeed \in -Fast .. Fast

TypeOK == PlantType /\ FieldType /\ TaskType

-----------------------------------------------------------------------------
(* Start and restart.  A restart keeps the shaft and the flash, and nothing *)
(* else.  On USB power the motor is not initialised: no queue, no task.     *)

Init ==
    /\ shaft = StartPos
    /\ nvs = [position |-> StartPos, actuations |-> 0]
    /\ inited \in BOOLEAN
    /\ pc = IF inited THEN "wait" ELSE "none"
    /\ unit = inited
    /\ wired = FALSE
    /\ count = 0 /\ isr = 0 /\ queue = <<>>
    /\ position = StartPos /\ exact = StartPos /\ target = StartPos
    /\ actuations = 0
    /\ driven = 0 /\ speed = 0 /\ powered = TRUE
    /\ identify = FALSE /\ setup = FALSE /\ onMove = FALSE
    /\ min = 0 /\ max = PosMod - 1
    /\ reported = [at |-> StartPos, moves |-> 0]
    /\ seen = [at |-> StartPos, moves |-> 0]
    /\ late = FALSE /\ unsaved = {}
    /\ lastLocal = 0 /\ movingCheck = 0 /\ localSpeed = 0 /\ diff = 0
    /\ exit = "arrived" /\ boot = "delay" /\ fresh = FALSE

Restart ==
    /\ UNCHANGED <<shaft, nvs>>
    /\ inited' \in BOOLEAN
    /\ pc' = IF inited' THEN "wait" ELSE "none"
    /\ unit' = inited'
    \* init sets the counter up before it creates the queue it reports to
    /\ wired' = FALSE
    /\ count' = 0 /\ isr' = 0 /\ queue' = <<>>
    /\ position' = IF inited' THEN nvs.position ELSE StartPos
    /\ exact' = position' /\ target' = position'
    /\ actuations' = IF inited' THEN nvs.actuations ELSE 0
    /\ driven' = 0 /\ speed' = 0 /\ powered' = TRUE
    /\ identify' = FALSE /\ setup' = FALSE /\ onMove' = FALSE
    /\ min' = 0 /\ max' = PosMod - 1
    /\ reported' = [at |-> StartPos, moves |-> 0]
    /\ seen' = [at |-> StartPos, moves |-> 0]
    /\ late' = FALSE /\ unsaved' = {}
    /\ lastLocal' = 0 /\ movingCheck' = 0 /\ localSpeed' = 0 /\ diff' = 0
    /\ exit' = "arrived" /\ boot' = "delay" /\ fresh' = FALSE

-----------------------------------------------------------------------------
(* The pulse counter *)

\* An edge of the encoder.  With the unit gone nobody counts it.  At a watch
\* point the hardware starts again from zero and raises the interrupt; the
\* handler has run long before the next watch point.
Edge(d) ==
    /\ shaft' = shaft + d
    /\ IF ~unit
         THEN UNCHANGED <<count, isr>>
         ELSE IF count + d \in {-Watch, Watch}
                THEN isr = 0 /\ isr' = count + d /\ count' = 0
                ELSE count' = count + d /\ UNCHANGED isr
    /\ UNCHANGED <<unit, wired, queue, memory, settings, locals, drive, record,
                   aim, report, pc, boot>>

\* pcnt_cb clears the count again and passes the watch point on; a full queue
\* refuses it.
PcntCb ==
    /\ isr # 0 /\ wired
    /\ count' = 0 /\ isr' = 0
    /\ queue' = IF Len(queue) < QueueLen THEN Append(queue, isr) ELSE queue
    /\ UNCHANGED <<shaft, unit, wired, memory, settings, locals, drive, record,
                   aim, report, pc, boot>>

\* Before the encoder is first powered down the callback holds the NULL handle
\* that motorQueue was when init registered it: the send faults, the chip
\* restarts.
PcntFault == isr # 0 /\ ~wired /\ Restart

-----------------------------------------------------------------------------
(* Helpers of the motor task *)

AbsDiff(a, b) == IF a > b THEN a - b ELSE b - a

Sign(x) == IF x > 0 THEN 1 ELSE IF x < 0 THEN -1 ELSE 0

\* The ramp: three units a step while the sign bits of the desired and the
\* local speed differ, one otherwise; zero counts as positive.
Ramped(local, desired, d) ==
    LET change == IF (local < 0) # (desired < 0) THEN 3 ELSE 1 IN
    IF d < Near THEN 0
    ELSE IF desired > local THEN local + change
    ELSE IF desired < local THEN local - change
    ELSE local

\* putUShort and putULong64 write, or return an error nobody looks at.  A put
\* whose commit failed may have written.
Put(key, new) ==
    \/ nvs' = new /\ unsaved' = unsaved \ {key}
    \/ nvs' \in {nvs, new} /\ unsaved' = unsaved \cup {key}

PutActuations == Put("actuations", [nvs EXCEPT !.actuations = actuations'])

\* Mutation: the duty is set before the encoder has powered up.
UpdateSpeedBlind(s, next) ==
    /\ IF speed = 0 /\ s # 0
         THEN /\ actuations' = (actuations + 1) % ActMod
              /\ PutActuations
         ELSE UNCHANGED record
    /\ speed' = s /\ driven' = s /\ powered' = TRUE
    /\ pc' = IF powered THEN next ELSE "warm"

\* Mutation: a start is counted and not saved.
UpdateSpeedUnsaved(s, next) ==
    /\ actuations' = IF speed = 0 /\ s # 0 THEN (actuations + 1) % ActMod
                     ELSE actuations
    /\ speed' = s /\ powered' = TRUE /\ UNCHANGED <<nvs, unsaved>>
    /\ driven' = IF powered THEN s ELSE driven
    /\ pc' = IF powered THEN next ELSE "warm"

\* updateSpeed(s): count a start, power the encoder if it is off (the task then
\* sleeps in sensorPower), else set the duty and go to next.
UpdateSpeed(s, next) ==
    /\ IF speed = 0 /\ s # 0
         THEN /\ actuations' = (actuations + 1) % ActMod
              /\ PutActuations
         ELSE UNCHANGED record
    /\ speed' = s
    /\ powered' = TRUE
    /\ driven' = IF powered THEN s ELSE driven
    /\ pc' = IF powered THEN next ELSE "warm"

\* No interrupt is pending, so the task may run.
Runs(at) == pc = at /\ isr = 0

-----------------------------------------------------------------------------
(* The motor task: BlindMotor::task, in the order of its source.  The run    *)
(* of the loop begins with Receive and ends with PowerOff.                   *)

\* receiveQueue(true): sleep until an event, add it to the position.
Receive ==
    /\ Runs("wait") /\ queue # <<>>
    /\ queue' = Tail(queue)
    /\ position' = Wrap(position + Head(queue))
    /\ IF identify
         THEN UNCHANGED <<pc, exit, movingCheck, localSpeed>>
         ELSE /\ pc' = "sample" /\ exit' = "none"
              /\ movingCheck' = Patience /\ localSpeed' = 0
    /\ UNCHANGED <<plant, exact, lastLocal, diff, settings, drive, record,
                   aim, report, boot>>

\* Read the counter; triggerCallback reads the exact position at once and waits
\* for the lock of the Zigbee stack.
Sample ==
    /\ Runs("sample")
    /\ exact' = Wrap(position + count)
    /\ movingCheck' = IF lastLocal # exact' THEN Patience ELSE movingCheck
    /\ lastLocal' = exact'
    /\ pc' = IF onMove THEN "report" ELSE "diff"
    /\ UNCHANGED <<plant, queue, position, localSpeed, diff, exit, settings,
                   drive, record, aim, report, boot>>

Now == [at |-> exact, moves |-> actuations]

\* The lock is free: publish.  If app_main waits for it with what it read
\* before, its report will be the later one.
Tell ==
    /\ Runs("report")
    /\ reported' = Now /\ late' = (boot = "tell")
    /\ pc' = "diff"
    /\ UNCHANGED <<plant, queue, memory, settings, locals, drive, record, aim,
                   seen, boot>>

\* Compare with the target: the first of two reads of _target.
Diff ==
    /\ Runs("diff")
    /\ diff' = AbsDiff(exact, target)
    /\ fresh' = FALSE
    /\ IF diff' < Small /\ speed = 0
         THEN pc' = "halt" /\ exit' = "arrived"
         ELSE pc' = "ramp" /\ UNCHANGED exit
    /\ UNCHANGED <<plant, queue, memory, target, lastLocal, movingCheck,
                   localSpeed, settings, drive, record, report, boot>>

\* The direction, the second read of _target, then one step of the ramp.
Ramp ==
    /\ Runs("ramp")
    /\ LET dir     == IF exact < target THEN 1 ELSE -1
           desired == (IF diff < Slow THEN 1 ELSE Fast) * dir
       IN localSpeed' = Ramped(localSpeed, desired, diff)
    /\ UpdateSpeed(Sign(localSpeed'), "delay")
    /\ UNCHANGED <<plant, queue, memory, settings, lastLocal, movingCheck,
                   diff, exit, aim, report, boot>>

\* The end of sensorPower(true): 20 ms later a new counter starts from zero,
\* now with the live queue, and updateSpeed goes on to the duty.
Warm ==
    /\ Runs("warm")
    /\ unit' = TRUE /\ wired' = TRUE /\ count' = 0
    /\ driven' = speed
    /\ pc' = IF exit = "none" THEN "delay" ELSE "save"
    /\ UNCHANGED <<shaft, isr, queue, memory, settings, locals, speed, powered,
                   record, aim, report, boot>>

\* Mutation: the patience is never used up.
PollForever ==
    /\ Runs("delay")
    /\ queue' = IF queue = <<>> THEN queue ELSE Tail(queue)
    /\ position' = IF queue = <<>> THEN position ELSE Wrap(position + Head(queue))
    /\ pc' = "sample"
    /\ UNCHANGED <<plant, exact, locals, settings, drive, record, aim, report,
                   boot>>

\* After the 20 ms of the loop: take one event if there is one, and go round
\* again while the movement is recent.
Poll ==
    /\ Runs("delay")
    /\ IF queue = <<>>
         THEN UNCHANGED <<queue, position>>
         ELSE /\ queue' = Tail(queue)
              /\ position' = Wrap(position + Head(queue))
    /\ IF movingCheck > 0
         THEN /\ movingCheck' = movingCheck - 1
              /\ pc' = "sample" /\ UNCHANGED exit
         ELSE pc' = "halt" /\ exit' = "stalled" /\ UNCHANGED movingCheck
    /\ UNCHANGED <<plant, exact, lastLocal, localSpeed, diff, settings, drive,
                   record, aim, report, boot>>

\* Mutation: the loop is left without saving the position.
HaltUnsaved ==
    /\ Runs("halt")
    /\ UpdateSpeed(0, "off")
    /\ UNCHANGED <<plant, queue, memory, settings, locals, aim, report, boot>>

\* updateDesired(0) after the loop, which powers an encoder that is off.
Halt ==
    /\ Runs("halt")
    /\ UpdateSpeed(0, "save")
    /\ UNCHANGED <<plant, queue, memory, settings, locals, aim, report, boot>>

\* Mutation: the position without the counted edges is saved.
SaveCoarse ==
    /\ Runs("save")
    /\ Put("position", [nvs EXCEPT !.position = position])
    /\ pc' = "off"
    /\ UNCHANGED <<plant, queue, memory, settings, locals, drive, actuations,
                   aim, report, boot>>

\* The result of the put is ignored: the encoder goes off either way.
Save ==
    /\ Runs("save")
    /\ Put("position", [nvs EXCEPT !.position = exact])
    /\ pc' = "off"
    /\ UNCHANGED <<plant, queue, memory, settings, locals, drive, actuations,
                   aim, report, boot>>

\* Mutation: the counted edges are dropped with the counter.
PowerOffForgets ==
    /\ Runs("off")
    /\ powered' = FALSE /\ unit' = FALSE /\ count' = 0 /\ pc' = "wait"
    /\ UNCHANGED <<shaft, wired, isr, queue, memory, settings, locals, driven,
                   speed, record, aim, report, boot>>

\* sensorPower(false): the last exact position becomes the position and the
\* counter is deleted with what it has counted since.
PowerOff ==
    /\ Runs("off")
    /\ powered' = FALSE
    /\ position' = exact
    /\ unit' = FALSE /\ count' = 0
    /\ pc' = "wait"
    /\ UNCHANGED <<shaft, wired, isr, queue, exact, settings, locals, driven,
                   speed, record, aim, report, boot>>

MotorStep ==
    \/ Receive \/ Sample \/ Tell \/ Diff \/ Ramp \/ Warm \/ Poll \/ Halt
    \/ Save \/ PowerOff

-----------------------------------------------------------------------------
(* app_main: it runs while the motor task is blocked and no interrupt is     *)
(* pending.                                                                  *)

AppRuns(at) ==
    /\ boot = at /\ isr = 0
    /\ \/ pc \in {"none", "report", "warm", "delay"}
       \/ pc = "wait" /\ queue = <<>>

\* identify: spin the motor for half a second, unless there is none.
IdSpin ==
    /\ AppRuns("delay")
    /\ IF speed # 0 \/ ~inited
         THEN boot' = "ends" /\ UNCHANGED <<identify, drive, record, pc>>
         ELSE /\ boot' = "spin" /\ identify' = TRUE
              /\ UpdateSpeed(1, pc)
    /\ UNCHANGED <<plant, queue, memory, min, max, setup, onMove, inited,
                   locals, aim, report>>

IdSettle ==
    /\ AppRuns("spin")
    /\ boot' = "settle"
    /\ UpdateSpeed(0, pc)
    /\ UNCHANGED <<plant, queue, memory, settings, locals, aim, report>>

\* The end of identify wakes the motor task, which drives back to its target.
IdWake ==
    /\ AppRuns("settle")
    /\ boot' = "ends" /\ identify' = FALSE
    /\ queue' = IF Len(queue) < QueueLen THEN Append(queue, 0) ELSE queue
    /\ UNCHANGED <<plant, memory, min, max, setup, onMove, inited, locals,
                   drive, record, aim, report, pc>>

\* zbEndpoint.init loads the end positions, zigbeeCore.start the Zigbee task.
LoadEnds ==
    /\ AppRuns("ends")
    /\ boot' = "join"
    /\ \E e \in Ends : min' = e[1] /\ max' = e[2]
    /\ UNCHANGED <<plant, queue, memory, setup, onMove, identify, inited,
                   locals, drive, record, aim, report, pc>>

\* moveCallback, once connected: register, and read what is to be reported.
MoveCallback ==
    /\ AppRuns("join")
    /\ boot' = "tell" /\ onMove' = TRUE
    /\ seen' = Now
    /\ UNCHANGED <<plant, queue, memory, min, max, setup, identify, inited,
                   locals, drive, record, aim, reported, late, pc>>

\* Mutation: registering the callback does not report.
AppTellSilent ==
    /\ AppRuns("tell")
    /\ boot' = "done"
    /\ UNCHANGED <<plant, queue, memory, settings, locals, drive, record, aim,
                   report, pc>>

\* Publish what was read, under the lock of the stack; the motor task, which
\* has the higher priority, may have moved and reported in between.
AppTell ==
    /\ AppRuns("tell")
    /\ boot' = "done"
    /\ reported' = seen
    /\ seen' = [at |-> StartPos, moves |-> 0]   \* of no use any more
    /\ UNCHANGED <<plant, queue, memory, settings, locals, drive, record, aim,
                   late, pc>>

AppStep == IdSpin \/ IdSettle \/ IdWake \/ LoadEnds \/ MoveCallback \/ AppTell

-----------------------------------------------------------------------------
(* The operations the Zigbee handlers call *)

ZigbeeRuns == boot \in {"join", "tell", "done"} /\ isr = 0

\* What every handler leaves alone.
Handled == UNCHANGED <<plant, memory, identify, inited, onMove, locals, drive,
                       record, pc, boot>>

\* Mutations: no wake, or none while the task is busy.
UpdateTargetSilent(p) ==
    /\ target' = p /\ fresh' = TRUE
    /\ UNCHANGED <<queue, min, max, setup, report>>
    /\ Handled

UpdateTargetIfIdle(p) ==
    /\ target' = p /\ fresh' = TRUE
    /\ queue' = IF pc = "wait" /\ Len(queue) < QueueLen THEN Append(queue, 0)
                ELSE queue
    /\ UNCHANGED <<min, max, setup, report>>
    /\ Handled

\* updateTarget: set the target, wake the task if there is a queue with room.
UpdateTarget(p) ==
    /\ target' = p /\ fresh' = TRUE
    /\ queue' = IF inited /\ Len(queue) < QueueLen THEN Append(queue, 0)
                ELSE queue
    /\ UNCHANGED <<min, max, setup, report>>
    /\ Handled

\* The positions a percentage may stand for.  The product is a double cut to an
\* integer, one less where p/100 is rounded down; the whole range of uint64_t
\* rounds up to 2^64 and converts back to anything.
PercentOffsets(p) ==
    LET span == Wrap(max - min)
        product == (p * span) \div 100
    IN IF p = 100 /\ span = PosMod - 1 THEN {0, PosMod - 1}
       ELSE IF p \in 1 .. 99 /\ product > 0 /\ (p * span) % 100 = 0
         THEN {product - 1, product}
         ELSE {product}

GoPercent(p) ==
    /\ ZigbeeRuns /\ p <= 100
    /\ \E o \in PercentOffsets(p) : UpdateTarget(Wrap(min + o))

\* In setup a direction means an end of uint64_t.
GoDirection(up) ==
    IF setup THEN ZigbeeRuns /\ UpdateTarget(IF up THEN 0 ELSE PosMod - 1)
             ELSE GoPercent(IF up THEN 0 ELSE 100)

GoPosition(p) == ZigbeeRuns /\ min <= p /\ p <= max /\ UpdateTarget(p)

Nudge(dist) ==
    LET p == Wrap(exact + dist) IN
    /\ ZigbeeRuns
    /\ setup \/ (min <= p /\ p <= max)
    /\ UpdateTarget(p)

\* stop does not wake the task.
Stop ==
    /\ ZigbeeRuns
    /\ target' = exact /\ fresh' = FALSE
    /\ UNCHANGED <<queue, min, max, setup, report>>
    /\ Handled

SetSetup(on) ==
    /\ ZigbeeRuns
    /\ setup' = on
    /\ UNCHANGED <<queue, min, max, aim, report>>
    /\ Handled

SetMin ==
    /\ ZigbeeRuns /\ setup
    /\ min' = exact
    /\ UNCHANGED <<queue, max, setup, aim, report>>
    /\ Handled

SetMax ==
    /\ ZigbeeRuns /\ setup
    /\ max' = exact
    /\ UNCHANGED <<queue, min, setup, aim, report>>
    /\ Handled

\* setOffset changes the speed table only, and reports.
SetOffset ==
    /\ ZigbeeRuns
    /\ IF onMove
         THEN reported' = Now /\ late' = (late /\ boot = "tell")
         ELSE UNCHANGED <<reported, late>>
    /\ UNCHANGED <<queue, min, max, setup, aim, seen>>
    /\ Handled

Command ==
    \/ \E up \in BOOLEAN : GoDirection(up)
    \/ \E p \in Targets : GoPosition(p)
    \/ \E p \in Percents : GoPercent(p)
    \/ \E d \in Nudges : Nudge(d)
    \/ Stop
    \/ \E on \in BOOLEAN : SetSetup(on)
    \/ SetMin
    \/ SetMax
    \/ SetOffset

-----------------------------------------------------------------------------
Next ==
    \/ \E d \in {-1, 1} : Edge(d)
    \/ PcntCb
    \/ PcntFault
    \/ MotorStep
    \/ AppStep
    \/ Command
    \/ Restart

Spec == Init /\ [][Next]_vars

\* The tasks are scheduled: what can run runs.  The world owes nothing.
Fairness ==
    /\ WF_vars(MotorStep)
    /\ WF_vars(PcntCb \/ PcntFault)
    /\ WF_vars(AppStep)

-----------------------------------------------------------------------------
(* The inductive invariant: how the state hangs together in every step.      *)

\* app_main has handed the motor over to its task.
Handed == boot \in {"ends", "join", "tell", "done"}

\* Without a motor nothing moves; until identify is over its task sleeps.
BootInv ==
    /\ inited <=> pc # "none"
    /\ ~inited => ~unit /\ driven = 0 /\ speed = 0 /\ queue = <<>>
    /\ inited /\ ~Handed =>
         pc = "wait" /\ queue = <<>> /\ unit /\ powered /\ ~wired
    /\ boot \in {"delay", "settle"} => speed = 0
    /\ boot \in {"spin", "settle"} => inited
    /\ identify <=> boot \in {"spin", "settle"}

\* The encoder's power, the counter and the duty, by place in the task.
PowerInv ==
    /\ isr # 0 \/ count # 0 => unit
    /\ pc = "warm" => powered /\ ~unit /\ driven = 0
    /\ inited /\ pc # "warm" => (powered <=> unit) /\ driven = speed
    /\ driven # 0 => unit
    /\ pc \in {"delay", "save", "off"} => unit
    /\ pc = "wait" /\ Handed => speed = 0 /\ (unit => queue # <<>>)

\* Why the task leaves its loop, and that it leaves with the speed cut.
ExitInv ==
    /\ pc \in {"sample", "report", "diff", "ramp", "delay"} => exit = "none"
    /\ pc \in {"halt", "save", "off", "wait"} => exit # "none"
    /\ pc \in {"save", "off"} => speed = 0
    /\ pc = "warm" /\ exit # "none" => speed = 0

\* Memory, flash and the published attributes; what app_main is about to
\* publish is what the motor task last published.
RecordInv ==
    /\ inited => "actuations" \in unsaved \/ nvs.actuations = actuations
    /\ pc \in {"off", "wait"} => "position" \in unsaved \/ nvs.position = exact
    /\ pc = "wait" /\ unit => "position" \notin unsaved
    /\ onMove <=> boot \in {"tell", "done"}
    /\ boot = "done" /\ pc # "report" => late \/ reported.at = exact
    /\ boot = "tell" /\ pc # "report" => late \/ seen.at = exact

\* A target nobody has looked at keeps the queue from being empty, until the
\* task gives the movement up.
WakeInv ==
    inited /\ fresh /\ exit = "arrived" => queue # <<>>

MotorInv == TypeOK /\ BootInv /\ PowerInv /\ ExitInv /\ RecordInv /\ WakeInv

-----------------------------------------------------------------------------
(* Properties *)

\* The motor task sleeps and no event waits for it.
Asleep == pc = "wait" /\ queue = <<>>

\* The motor is never driven blind: while a duty is set the pulse counter
\* exists and counts (updateSpeed's "Ensure encoder is enabled", across the
\* power-up delay, the identify run and every way out of the loop).
EncoderBeforeDrive == driven # 0 => unit

\* When the task sleeps after the boot, nothing is left on: no duty, no speed
\* remembered, the encoder off.  Every exit of the loop, in every order with
\* commands and watch points, comes through updateDesired(0) and
\* sensorPower(false).
RestIsOff ==
    Asleep /\ Handed =>
        driven = 0 /\ speed = 0 /\ ~powered /\ ~unit

\* While the task waits for work, memory, flash and the published attributes
\* agree on where the blind is: a restart at rest loses nothing, and the
\* network sees the position that would survive it.  Two things the code lets
\* go wrong are excepted: a put that failed, and the report of app_main that
\* overtook a newer one of the motor task.
AtRestAgreed ==
    pc = "wait" =>
        /\ "position" \in unsaved \/ nvs.position = exact
        /\ "actuations" \in unsaved \/ nvs.actuations = actuations
        /\ boot = "done" => late \/ reported.at = exact

\* The published number of actuations is up to date at rest, except after a
\* stall: a start in the last iteration of the loop is counted, not published.
MovesReported ==
    pc = "wait" /\ boot = "done" /\ exit = "arrived" =>
        late \/ reported.moves = actuations

\* A target that woke the task is acted upon: if the task sleeps over a target
\* it has never compared with the position, it went to sleep by a stall.
WakeKept ==
    Asleep /\ fresh => exit = "stalled"

\* Stronger, and false: the task sleeps only "while there are no events"
\* (motor.cpp:215), so never over a target it has not looked at.
SleepsWithoutEvents == Asleep => ~fresh

\* The chain of a target: it is looked at, or the movement before it stalled.
WakeServed == fresh /\ inited ~> ~fresh \/ (Asleep /\ exit = "stalled")

AtRest == pc = "none" \/ (Asleep /\ Handed /\ driven = 0 /\ ~unit)

\* When the world leaves it alone, the motor comes to rest and stays there with
\* everything off: a blocked shaft is not driven for ever, and the task neither
\* spins nor waits for an edge that never comes.
ComesToRest == <>[]AtRest

-----------------------------------------------------------------------------
(* Where every edge is.                                                      *)

\* The edges that the queued watch events stand for.
Places(q, e) == {i \in DOMAIN q : q[i] = e}

Queued(q) ==
    Watch * (Cardinality(Places(q, Watch)) - Cardinality(Places(q, -Watch)))

\* Where the tracked position, with the counted, signalled and queued edges,
\* differs from the shaft.
Err == Wrap(position + count + isr + Queued(queue) - shaft)

\* An edge turned up with the encoder off.
EdgeUnseen == shaft' # shaft /\ ~unit

\* A watch event found the queue full, or cleared edges that followed it.
EventLost == isr # 0 /\ isr' = 0 /\ (Len(queue) = QueueLen \/ count # 0)

\* The counter was deleted after it had moved since the last sample.
SampleStale == unit /\ ~unit' /\ exact # Wrap(position + count)

\* Every edge is accounted for exactly once, in the counter, in the queue or in
\* the position, across the interrupt, the queue, the two readers of the queue
\* and the power cycles of the encoder, but for these three leaks and a
\* restart.
CountsConserved ==
    [][Err' = Err \/ EdgeUnseen \/ EventLost \/ SampleStale
                  \/ PcntFault \/ Restart]_vars

-----------------------------------------------------------------------------
(* How much the program has left to do when the world leaves it alone.       *)

\* The position has moved since the task last looked.
Recent == lastLocal # Wrap(position + count)

\* Turns of the loop until the patience is used up.
Turns == movingCheck + (IF Recent THEN Patience + 1 ELSE 0)

\* Steps of the task from pc to its sleep; a turn has at most six.
Round ==
    CASE pc = "sample" -> 6 * Turns + 11
      [] pc = "report" -> 6 * Turns + 10
      [] pc = "diff"   -> 6 * Turns + 9
      [] pc = "ramp"   -> 6 * Turns + 8
      [] pc = "warm"   -> IF exit = "none" THEN 6 * Turns + 7 ELSE 3
      [] pc = "delay"  -> 6 * Turns + 6
      [] pc = "halt"   -> 4
      [] pc = "save"   -> 2
      [] pc = "off"    -> 1
      [] OTHER         -> 0

\* More than any round, and so what an entry of the queue may cost.
Entry == 12 * Patience + 18

BootLeft ==
    CASE boot = "delay" -> 6 [] boot = "spin" -> 5 [] boot = "settle" -> 4
      [] boot = "ends" -> 3 [] boot = "join" -> 2 [] boot = "tell" -> 1
      [] OTHER -> 0

Load == Len(queue) + 2 * BootLeft + (IF isr = 0 THEN 0 ELSE 2)

Work == Round + Entry * Load

\* Every step the program takes by itself, of the motor task, the interrupt or
\* app_main, brings it nearer to rest: the loop that drives the motor ends by
\* its patience, entries of the queue are used up and not made by reading them,
\* and only an edge, a command or a restart gives it more to do.
SettlesDown == [][PcntCb \/ MotorStep \/ AppStep => Work' < Work]_vars

\* When nothing is left to do, everything is off.
DoneIsRest == Work = 0 => AtRest

-----------------------------------------------------------------------------
(* What the motor promises: Motion, with the counter as its encoder and the  *)
(* task's round from Receive to PowerOff as its use.                         *)

Phase ==
    CASE ~inited                -> "absent"
      [] inited /\ ~Handed      -> "boot"
      [] inited /\ Handed /\ pc = "wait" /\ ~unit -> "rest"
      [] OTHER                  -> "use"

\* The flash refused the position when the drive was last cut.
Refused == pc \in {"off", "wait"} /\ "position" \in unsaved

Promise == INSTANCE Motion WITH
    Position <- Pos, Unknown <- StartPos,
    phase <- Phase, duty <- driven, counting <- unit,
    known <- exact, kept <- nvs.position, refused <- Refused

\* The motor task, app_main, the handlers, edges and restarts together
\* implement the promise.
KeepsPromise == Promise!Spec

=============================================================================
