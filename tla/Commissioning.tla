----------------------------- MODULE Commissioning -----------------------------
(***************************************************************************)
(* From boot to the main task: the end of app_main, the stack's signals     *)
(* (esp_zb_app_signal_handler), the external button with its interrupt, and *)
(* the main task with its queue, in main/main.cpp; ZigbeeCore::start and    *)
(* setChannelMask in zigbee/core.cpp; fetchTime in sensor.cpp with getTime  *)
(* and zbReadTimeCluster in zigbee/endpoint.cpp; the battery's converter in *)
(* ext/adc.cpp with setBattery in sensor.cpp.                               *)
(*                                                                         *)
(* app_main reads the battery, which decides whether the motor is set up,   *)
(* and shows that reading when it is on the network.  It waits until the    *)
(* network is joined, then up to a hundred seconds for the time, and only   *)
(* then creates the main task, which the button and the heartbeat with its  *)
(* hourly readings need.  The stack and the coordinator are external: a       *)
(* commissioning succeeds or fails, a time answer comes or not.             *)
(***************************************************************************)
EXTENDS Integers

CONSTANTS
    QueueLen,   \* 4: length of main_task_queue
    HoldPolls,  \* polls of 50 ms in the three seconds that ask for a reset
    Hour,       \* 60: heartbeats from one reading of the battery to the next
    BeatMod     \* 2^16: heartbeatCounter is a uint16_t

ASSUME CommissioningAssumption ==
    /\ QueueLen \in Nat \ {0} /\ HoldPolls \in Nat \ {0}
    /\ Hour \in Nat \ {0} /\ BeatMod \in Nat \ {0}

VARIABLES
    stage,      \* of app_main: boot, power, start, join, ask, time, done
    starts,     \* calls of zigbeeCore.start since boot
    factoryNew, \* the stack's memory holds no network
    doing,      \* the commissioning under way: none, init, steer; refused if the
                \* call that begins one failed
    alarm,      \* the one scheduled to be tried again
    started, connected,     \* of zigbeeCore
    mask,       \* the channel mask: all channels, or the network's own
    down,       \* the external button is pressed
    intr,       \* its interrupt: edge, low (level) or off
    flag,       \* button_pressed
    queued,     \* entries in main_task_queue
    main,       \* of the main task: none, wait, button, hold, held, beat, read, retry
    polls,      \* how often handleResetButton has seen the button down
    clock,      \* the time of day: unset, fresh (set in the last day), old
    asked,      \* a time request is with the coordinator
    answer,     \* ZigbeeDevice's semaphore "lock"
    upDay,      \* esp_timer is past one day
    due,        \* HEARTBEAT_INTERVAL has passed since lastHeartbeat
    beats,      \* heartbeatCounter
    converter,  \* the converter is on (enable to disable)
    reading,    \* app_main's: battery, usb (less than 6 V) or, never set, junk
    motorUp,    \* motor.init was called
    battery     \* the attributes: initial, junk, boot (app_main's) or hour

zigbee == <<starts, factoryNew, doing, alarm, started, connected, mask>>
button == <<down, intr, flag>>
task   == <<main, polls>>
time   == <<clock, asked, answer, upDay>>
pulse  == <<due, beats>>
boot   == <<reading, motorUp>>
power  == <<pulse, converter, boot, battery>>
vars == <<stage, zigbee, button, queued, task, time, power>>

CountType ==
    /\ starts \in Nat /\ queued \in 0 .. QueueLen /\ polls \in 0 .. HoldPolls
    /\ beats \in 0 .. BeatMod - 1

FlagType ==
    /\ factoryNew \in BOOLEAN /\ started \in BOOLEAN /\ connected \in BOOLEAN
    /\ down \in BOOLEAN /\ flag \in BOOLEAN
    /\ asked \in BOOLEAN /\ answer \in BOOLEAN /\ upDay \in BOOLEAN
    /\ due \in BOOLEAN /\ converter \in BOOLEAN /\ motorUp \in BOOLEAN

PlaceType ==
    /\ stage \in {"boot", "power", "start", "join", "ask", "time", "done"}
    /\ doing \in {"none", "init", "steer", "refused"}
    /\ alarm \in {"none", "init", "steer"}
    /\ mask \in {"all", "own"}
    /\ intr \in {"edge", "low", "off"}
    /\ main \in {"none", "wait", "button", "hold", "held", "beat", "read", "retry"}
    /\ clock \in {"unset", "fresh", "old"}
    /\ reading \in {"junk", "usb", "battery"}
    /\ battery \in {"initial", "junk", "boot", "hour"}

TypeOK == CountType /\ FlagType /\ PlaceType

Init ==
    /\ stage = "boot" /\ starts = 0 /\ factoryNew \in BOOLEAN
    /\ doing = "none" /\ alarm = "none"
    /\ started = FALSE /\ connected = FALSE /\ mask = "all"
    /\ down = FALSE /\ intr = "edge" /\ flag = FALSE /\ queued = 0
    /\ main = "none" /\ polls = 0
    /\ clock = "unset" /\ asked = FALSE /\ answer = FALSE /\ upDay = FALSE
    /\ due = FALSE /\ beats = 0 /\ converter = FALSE
    /\ reading = "junk" /\ motorUp = FALSE /\ battery = "initial"

\* The chip restarts with f as the stack's memory and c as its clock, which
\* only a loss of power takes away.
Reboot(f, c) ==
    /\ stage' = "boot" /\ starts' = 0 /\ factoryNew' = f
    /\ doing' = "none" /\ alarm' = "none"
    /\ started' = FALSE /\ connected' = FALSE /\ mask' = "all"
    /\ intr' = "edge" /\ flag' = FALSE /\ queued' = 0
    /\ main' = "none" /\ polls' = 0
    /\ clock' = c /\ asked' = FALSE /\ answer' = FALSE /\ upDay' = FALSE
    /\ due' = FALSE /\ beats' = 0 /\ converter' = FALSE
    /\ reading' = "junk" /\ motorUp' = FALSE /\ battery' = "initial"
    /\ UNCHANGED down

FactoryReset == Reboot(TRUE, clock)

PowerLoss == Reboot(factoryNew, "unset")

Day ==
    /\ upDay' = TRUE
    /\ clock' = IF clock = "unset" THEN clock ELSE "old"
    /\ UNCHANGED <<stage, zigbee, button, queued, task, asked, answer, power>>

Minute ==
    /\ ~due /\ due' = TRUE
    /\ UNCHANGED <<stage, zigbee, button, queued, task, time, beats, converter,
                   boot, battery>>

-----------------------------------------------------------------------------
(* The button *)

\* A send that does not wait: a full queue refuses it.
Sent == IF queued < QueueLen THEN queued + 1 ELSE queued

\* Mutation: the interrupt sets the flag only.
ButtonISRSilent == intr' = "off" /\ flag' = TRUE /\ UNCHANGED queued

\* buttonISR turns the interrupt off, sets the flag and sends.
ButtonISR == intr' = "off" /\ flag' = TRUE /\ queued' = Sent

\* The button goes down or up.
PressOrRelease ==
    /\ down' = ~down
    /\ IF intr = "edge" THEN ButtonISR ELSE UNCHANGED <<intr, flag, queued>>
    /\ UNCHANGED <<stage, zigbee, task, time, power>>

LevelInterrupt ==
    /\ intr = "low" /\ down
    /\ ButtonISR
    /\ UNCHANGED <<stage, zigbee, down, task, time, power>>

-----------------------------------------------------------------------------
(* The stack's signals *)

\* esp_zb_bdb_start_top_level_commissioning.  If the stack does not take the call
\* nobody makes it again: what it returns is not looked at, or logged.
Begins(kind) == doing' \in {kind, "refused"}

\* zigbeeCore.start, down to the initialization the stack asks for at once.
CoreStart ==
    /\ starts' = starts + 1 /\ Begins("init") /\ mask' = "all"
    /\ UNCHANGED <<factoryNew, alarm, started, connected>>

\* Mutation: after a restart into its network the device stays on all channels.
InitialisedOffChannel ==
    /\ doing = "init"
    /\ started' = TRUE
    /\ IF factoryNew
         THEN Begins("steer") /\ UNCHANGED connected
         ELSE doing' = "none" /\ connected' = TRUE
    /\ UNCHANGED <<stage, starts, factoryNew, alarm, mask, button, queued, task, time, power>>

\* DEVICE_FIRST_START or DEVICE_REBOOT with status OK.
Initialised ==
    /\ doing = "init"
    /\ started' = TRUE
    /\ IF factoryNew
         THEN Begins("steer") /\ UNCHANGED <<connected, mask>>
         ELSE doing' = "none" /\ connected' = TRUE /\ mask' = "own"
    /\ UNCHANGED <<stage, starts, factoryNew, alarm, button, queued, task, time, power>>

\* STEERING with status OK.
Joined ==
    /\ doing = "steer" /\ doing' = "none" /\ factoryNew' = FALSE
    /\ connected' = TRUE /\ mask' = "own"
    /\ UNCHANGED <<stage, starts, alarm, started, button, queued, task, time, power>>

\* Mutation: a failed steering is not tried again.
FailsForGood ==
    /\ doing \in {"init", "steer"} /\ doing' = "none"
    /\ alarm' = IF doing = "init" THEN "init" ELSE alarm
    /\ UNCHANGED <<stage, starts, factoryNew, started, connected, mask, button,
                   queued, task, time, power>>

\* Either fails, and is scheduled again.
Fails ==
    /\ doing \in {"init", "steer"} /\ doing' = "none" /\ alarm' = doing
    /\ UNCHANGED <<stage, starts, factoryNew, started, connected, mask, button,
                   queued, task, time, power>>

\* bdb_start_top_level_commissioning_cb.
Alarm ==
    /\ alarm # "none" /\ Begins(alarm) /\ alarm' = "none"
    /\ UNCHANGED <<stage, starts, factoryNew, started, connected, mask, button,
                   queued, task, time, power>>

\* Mutation: the chip goes to sleep with the interrupt as it is.
CanSleepOnly ==
    /\ starts > 0
    /\ queued' = Sent
    /\ UNCHANGED <<stage, zigbee, button, task, time, power>>

\* Mutation: the chip wakes up and lets the main task sleep.
CanSleepSilent ==
    /\ starts > 0
    /\ intr' = "low"
    /\ UNCHANGED <<stage, zigbee, down, flag, queued, task, time, power>>

\* CAN_SLEEP: make the button's level wake the chip, sleep, wake the main task.
CanSleep ==
    /\ starts > 0
    /\ intr' = "low" /\ queued' = Sent
    /\ UNCHANGED <<stage, zigbee, down, flag, task, time, power>>

\* LEAVE: restart, and forget the network unless it is to be rejoined.
Leave == connected /\ (FactoryReset \/ Reboot(factoryNew, clock))

-----------------------------------------------------------------------------
(* app_main *)

\* getValue turns the converter on, waits, and takes five samples.
AppEnable ==
    /\ stage = "boot" /\ stage' = "power" /\ converter' = TRUE
    /\ UNCHANGED <<zigbee, button, queued, task, time, pulse, boot, battery>>

\* If all of them fail app_main's variables stay uninitialised, and whether the
\* motor is set up is chance.
AppRead ==
    /\ stage = "power" /\ stage' = "start" /\ converter' = FALSE
    /\ \/ reading' = "battery" /\ motorUp' = TRUE
       \/ reading' = "usb" /\ UNCHANGED motorUp
       \/ UNCHANGED reading /\ motorUp' \in BOOLEAN
    /\ UNCHANGED <<zigbee, button, queued, task, time, pulse, battery>>

AppStart ==
    /\ stage = "start" /\ stage' = "join"
    /\ CoreStart
    /\ UNCHANGED <<button, queued, task, time, power>>

\* The network is joined: onConnect, setBattery and requestOTA.
AppConnected ==
    /\ stage = "join" /\ connected /\ stage' = "ask"
    /\ battery' = IF reading = "junk" THEN "junk" ELSE "boot"
    /\ UNCHANGED <<zigbee, button, queued, task, time, pulse, converter, boot>>

\* moveCallback, then the main task.
AppDone == stage' = "done" /\ main' = "wait" /\ UNCHANGED polls

\* fetchTime takes the time of day if there is one and esp_timer is within a
\* day of lastTime, which nobody ever sets.
TimeKept ==
    /\ stage = "ask" /\ clock # "unset" /\ ~upDay
    /\ AppDone
    /\ UNCHANGED <<zigbee, button, queued, time, power>>

\* Else getTime asks the coordinator.
TimeAsked ==
    /\ stage = "ask" /\ (clock = "unset" \/ upDay)
    /\ stage' = "time" /\ asked' = TRUE
    /\ UNCHANGED <<zigbee, button, queued, task, clock, answer, upDay, power>>

\* attributeResponse hands the value over (zbReadTimeCluster).
TimeAnswered ==
    /\ asked /\ asked' = FALSE /\ answer' = TRUE
    /\ UNCHANGED <<stage, zigbee, button, queued, task, clock, upDay, power>>

\* getTime takes it and sets the clock and the attributes.
TimeSet ==
    /\ stage = "time" /\ answer /\ answer' = FALSE
    /\ clock' = "fresh"
    /\ AppDone
    /\ UNCHANGED <<zigbee, button, queued, asked, upDay, power>>

\* Mutation: the wait is for ever.
TimeNever == FALSE

\* ZB_CMD_TIMEOUT passes: the time stays as it is, for this boot.
TimeTimesOut ==
    /\ stage = "time" /\ ~answer
    /\ AppDone
    /\ UNCHANGED <<zigbee, button, queued, time, power>>

AppStep ==
    \/ AppEnable \/ AppRead \/ AppStart \/ AppConnected
    \/ TimeKept \/ TimeAsked \/ TimeSet \/ TimeTimesOut

-----------------------------------------------------------------------------
(* The main task *)

Receive ==
    /\ main = "wait" /\ queued > 0
    /\ queued' = queued - 1 /\ main' = "button"
    /\ UNCHANGED <<stage, zigbee, button, polls, time, power>>

\* handleResetButton: an interrupt between the look at the flag and its reset
\* has the effect of one just before.
Button ==
    /\ main = "button"
    /\ IF flag THEN flag' = FALSE /\ polls' = 0 /\ main' = "hold"
               ELSE main' = "beat" /\ UNCHANGED <<flag, polls>>
    /\ UNCHANGED <<stage, zigbee, down, intr, queued, time, power>>

\* Poll until the button is up or three seconds have passed.
Hold ==
    /\ main = "hold"
    /\ CASE ~down -> main' = "beat" /\ UNCHANGED polls
         [] down /\ polls < HoldPolls -> polls' = polls + 1 /\ UNCHANGED main
         [] down /\ polls = HoldPolls -> main' = "held" /\ UNCHANGED polls
    /\ UNCHANGED <<stage, zigbee, button, queued, time, power>>

\* The light is on; the reset comes when the button is let go.
Held == main = "held" /\ ~down /\ FactoryReset

\* handleHeartbeat, once a minute at most; the first of every hour's, and of
\* a boot's, turns the converter on.
Heartbeat ==
    /\ main = "beat"
    /\ \/ ~due /\ main' = "wait" /\ UNCHANGED <<pulse, converter>>
       \/ /\ due /\ due' = FALSE /\ beats' = (beats + 1) % BeatMod
          /\ IF beats % Hour = 0 THEN main' = "read" /\ converter' = TRUE
                          ELSE main' = "retry" /\ UNCHANGED converter
    /\ UNCHANGED <<stage, zigbee, button, queued, polls, time, boot, battery>>

\* The reading, and setBattery if it succeeded.
HourlyRead(shown) ==
    /\ main = "read" /\ main' = "retry"
    /\ converter' = FALSE /\ battery' = shown
    /\ UNCHANGED <<stage, zigbee, button, queued, polls, time, pulse, boot>>

ReadSucceeds == HourlyRead("hour")
ReadFails == HourlyRead(battery)

\* The heartbeat ends by starting the stack again unless it is connected.
Retry ==
    /\ main = "retry" /\ main' = "wait"
    /\ IF connected THEN UNCHANGED zigbee ELSE CoreStart
    /\ UNCHANGED <<stage, button, queued, polls, time, power>>

MainStep ==
    \/ Receive \/ Button \/ Hold \/ Held
    \/ Heartbeat \/ ReadSucceeds \/ ReadFails \/ Retry

-----------------------------------------------------------------------------
Next ==
    \/ PowerLoss \/ Day \/ Minute
    \/ PressOrRelease \/ LevelInterrupt
    \/ Initialised \/ Joined \/ Fails \/ Alarm \/ CanSleep \/ Leave
    \/ TimeAnswered
    \/ AppStep
    \/ MainStep

Spec == Init /\ [][Next]_vars

\* The tasks run, the alarm and the interrupt fire, the stack becomes idle from
\* time to time, and what is tried often enough succeeds: a commissioning, a
\* reading of the battery.
Fairness ==
    /\ WF_vars(AppStep) /\ WF_vars(MainStep) /\ WF_vars(LevelInterrupt)
    /\ WF_vars(Alarm) /\ WF_vars(CanSleep)
    /\ WF_vars(Minute) /\ SF_vars(ReadSucceeds)
    /\ SF_vars(Initialised) /\ SF_vars(Joined)

FairSpec == Spec /\ Fairness

-----------------------------------------------------------------------------
(* The inductive invariant *)

\* app_main's stage says what the network's state is.
StageInv ==
    /\ starts = IF stage \in {"boot", "power", "start"} THEN 0 ELSE 1
    /\ stage \in {"ask", "time", "done"} => connected
    /\ main # "none" <=> stage = "done"

\* Commissioning is driven by exactly one thing until it has succeeded, and by
\* nothing after it, or after a call to begin it was refused.
DriveInv ==
    /\ starts = 0 \/ connected => doing = "none" /\ alarm = "none"
    /\ starts > 0 /\ ~connected => (doing = "none" <=> alarm # "none")
    /\ doing = "steer" \/ alarm = "steer" \/ connected => started
    /\ connected => starts > 0
    /\ mask = IF connected THEN "own" ELSE "all"

\* A press the main task has not seen has an entry in its queue, or the task is
\* about to look at the flag.
PressInv == flag /\ main # "button" => queued > 0

\* The converter is on for one task at a time; a motor is set up on a battery,
\* left out on USB power; only a reading that was never taken is shown as junk,
\* and only the main task shows one of its own.
PowerInv ==
    /\ converter <=> stage = "power" \/ main = "read"
    /\ stage \in {"boot", "power"} => reading = "junk" /\ ~motorUp
    /\ reading # "junk" => (motorUp <=> reading = "battery")
    /\ battery = "initial" <=> stage \notin {"ask", "time", "done"}
    /\ battery = "junk" => reading = "junk"
    /\ battery = "hour" => stage = "done"

\* The boot, the network, the button and the battery agree at every step of the
\* three tasks and the interrupt.
CommissioningInv == TypeOK /\ StageInv /\ DriveInv /\ PressInv /\ PowerInv

-----------------------------------------------------------------------------
(* Properties *)

\* The stack is initialised once in a boot, though the heartbeat would start it
\* again: connected is never taken back, so that path is never taken.
StackStartedOnce == starts <= 1

\* Until the network is joined something is under way or scheduled that will
\* try again, whatever fails in whatever order, but for one thing: a call to
\* begin a commissioning that the stack does not take (main.cpp:46, 60 and 68)
\* leaves the device stranded until it is restarted.
NeverStranded ==
    starts > 0 /\ ~connected /\ doing # "refused" =>
        doing \in {"init", "steer"} \/ alarm # "none"

\* While the main task sleeps no press of the button waits unseen, though the
\* interrupt's send may find the queue full.
PressSignalled == main = "wait" /\ queued = 0 => ~flag

\* app_main shows the battery of the boot when the network is joined, perhaps
\* days after it was read (main.cpp:260): never in the place of a later reading.
NewerStays ==
    [][battery = "hour" => battery' \in {"hour", "initial"}]_vars

\* The beats to come before the next that reads the battery, but for a wrap of
\* the 16-bit counter, which is no multiple of an hour.
BeatsLeft == IF beats % Hour = 0 THEN 0 ELSE Hour - (beats % Hour)

\* The counter's wrap brings a reading forward and never puts one off: every
\* beat reads the battery or is one nearer to the beat that does.
NeverLate ==
    [][Heartbeat /\ due => main' = "read" \/ BeatsLeft' < BeatsLeft]_vars

\* Steps of the main task until it waits for its queue again, or for the button.
RoundLeft ==
    CASE main = "button" -> HoldPolls + 5
      [] main = "hold"   -> HoldPolls - polls + 4
      [] main = "beat"   -> 3
      [] main = "read"   -> 2
      [] main = "retry"  -> 1
      [] OTHER           -> 0

\* A round of the main task ends, however the button bounces meanwhile: only an
\* entry in its queue begins another, and only a button held for the reset keeps
\* it waiting.
RoundsEnd ==
    [][MainStep => main \in {"wait", "held"} \/ RoundLeft' < RoundLeft]_vars

\* Once the main task runs, a button held down is noticed for the reset,
\* whatever the interrupt missed: with the interrupt off, CAN_SLEEP turns it on.
HoldIsNoticed ==
    (down /\ main # "none") ~> (~down \/ main \in {"held", "none"})

\* Every boot comes to the main task unless it is cut short, or the stack refuses
\* to begin a commissioning: through failed initializations and steerings, their
\* alarms, and with or without the time.
BootEnds == starts > 0 ~> (main # "none" \/ starts = 0 \/ doing = "refused")

\* What a boot shows of the battery was read before the network was joined,
\* perhaps days ago, or never.  The main task replaces it, whatever presses
\* of the button and failed readings come between, unless the button is held
\* for a reset.
BatteryRefreshed ==
    main # "none" ~> (battery = "hour" \/ main \in {"none", "held"})
=============================================================================
