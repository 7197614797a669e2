------------------------- MODULE CommissioningProofs -------------------------
(***************************************************************************)
(* Proofs about Commissioning: the inductive invariant CommissioningInv,    *)
(* and from it the single start of the stack, the commissioning that is     *)
(* driven on until a call is refused, and the press of the button that is   *)
(* never left unseen, for a queue of any length.                            *)
(***************************************************************************)
EXTENDS Commissioning, TLAPS

LEMMA InitInv == Init => CommissioningInv
<1> SUFFICES ASSUME Init PROVE CommissioningInv
  OBVIOUS
<1>1. CountType
  BY CommissioningAssumption DEF Init, CountType
<1>2. FlagType /\ PlaceType
  BY DEF Init, FlagType, PlaceType
<1>3. StageInv /\ DriveInv /\ PressInv /\ PowerInv
  BY DEF Init, StageInv, DriveInv, PressInv, PowerInv
<1> QED BY <1>1, <1>2, <1>3 DEF CommissioningInv, TypeOK

\* Power, time and the button.
LEMMA WorldInv ==
  ASSUME CommissioningInv, PowerLoss \/ Day \/ Minute \/ PressOrRelease \/ LevelInterrupt
  PROVE  CommissioningInv'
<1> USE CommissioningAssumption
        DEF CommissioningInv, TypeOK, CountType, FlagType, PlaceType,
            StageInv, DriveInv, PressInv, PowerInv, power, pulse, boot
<1>1. CASE PowerLoss
  <2>1. CountType'
    BY <1>1 DEF PowerLoss, Reboot, task
  <2>2. FlagType'
    BY <1>1 DEF PowerLoss, Reboot, task
  <2>3. PlaceType'
    BY <1>1 DEF PowerLoss, Reboot, task
  <2>4. StageInv'
    BY <1>1 DEF PowerLoss, Reboot, task
  <2>5. DriveInv'
    BY <1>1 DEF PowerLoss, Reboot, task
  <2>6. PressInv'
    BY <1>1 DEF PowerLoss, Reboot, task
  <2>7. PowerInv'
    BY <1>1 DEF PowerLoss, Reboot, task
  <2> QED BY <2>1, <2>2, <2>3, <2>4, <2>5, <2>6, <2>7
<1>2. CASE Day
  BY <1>2 DEF Day, zigbee, button, task
<1>3. CASE PressOrRelease
  <2>1. CountType'
    BY <1>3 DEF PressOrRelease, ButtonISR, Sent, zigbee, task, time
  <2>2. FlagType'
    BY <1>3 DEF PressOrRelease, ButtonISR, Sent, zigbee, task, time
  <2>3. PlaceType'
    BY <1>3 DEF PressOrRelease, ButtonISR, Sent, zigbee, task, time
  <2>4. StageInv'
    BY <1>3 DEF PressOrRelease, ButtonISR, Sent, zigbee, task, time
  <2>5. DriveInv'
    BY <1>3 DEF PressOrRelease, ButtonISR, Sent, zigbee, task, time
  <2>6. PressInv'
    <3>1. UNCHANGED main
      BY <1>3 DEF PressOrRelease, task
    <3>2. CASE intr = "edge"
      <4>1. queued' > 0
        BY <1>3, <3>2 DEF PressOrRelease, ButtonISR, Sent
      <4> QED BY <4>1
    <3>3. CASE intr # "edge"
      BY <1>3, <3>1, <3>3 DEF PressOrRelease
    <3> QED BY <3>2, <3>3
  <2>7. PowerInv'
    BY <1>3 DEF PressOrRelease, ButtonISR, Sent, zigbee, task, time
  <2> QED BY <2>1, <2>2, <2>3, <2>4, <2>5, <2>6, <2>7
<1>4. CASE LevelInterrupt
  <2>1. CountType'
    BY <1>4 DEF LevelInterrupt, ButtonISR, Sent, zigbee, task, time
  <2>2. FlagType'
    BY <1>4 DEF LevelInterrupt, ButtonISR, Sent, zigbee, task, time
  <2>3. PlaceType'
    BY <1>4 DEF LevelInterrupt, ButtonISR, Sent, zigbee, task, time
  <2>4. StageInv'
    BY <1>4 DEF LevelInterrupt, ButtonISR, Sent, zigbee, task, time
  <2>5. DriveInv'
    BY <1>4 DEF LevelInterrupt, ButtonISR, Sent, zigbee, task, time
  <2>6. PressInv'
    BY <1>4 DEF LevelInterrupt, ButtonISR, Sent, zigbee, task, time
  <2>7. PowerInv'
    BY <1>4 DEF LevelInterrupt, ButtonISR, Sent, zigbee, task, time
  <2> QED BY <2>1, <2>2, <2>3, <2>4, <2>5, <2>6, <2>7
<1>5. CASE Minute
  BY <1>5 DEF Minute, zigbee, button, task, time
<1> QED BY <1>1, <1>2, <1>3, <1>4, <1>5

\* The stack's signals and answers.
LEMMA StackInv ==
  ASSUME CommissioningInv, \/ Initialised \/ Joined \/ Fails \/ Alarm
         \/ CanSleep \/ Leave \/ TimeAnswered
  PROVE  CommissioningInv'
<1> USE CommissioningAssumption
        DEF CommissioningInv, TypeOK, CountType, FlagType, PlaceType,
            StageInv, DriveInv, PressInv, PowerInv, power, pulse, boot
<1>1. CASE Initialised
  <2>1. CountType'
    BY <1>1 DEF Initialised, Begins, button, task, time
  <2>2. FlagType'
    BY <1>1 DEF Initialised, Begins, button, task, time
  <2>3. PlaceType'
    BY <1>1 DEF Initialised, Begins, button, task, time
  <2>4. StageInv'
    BY <1>1 DEF Initialised, Begins, button, task, time
  <2>5. DriveInv'
    BY <1>1 DEF Initialised, Begins, button, task, time
  <2>6. PressInv'
    BY <1>1 DEF Initialised, Begins, button, task, time
  <2>7. PowerInv'
    BY <1>1 DEF Initialised, Begins, button, task, time
  <2> QED BY <2>1, <2>2, <2>3, <2>4, <2>5, <2>6, <2>7
<1>2. CASE Joined
  <2>1. CountType'
    BY <1>2 DEF Joined, button, task, time
  <2>2. FlagType'
    BY <1>2 DEF Joined, button, task, time
  <2>3. PlaceType'
    BY <1>2 DEF Joined, button, task, time
  <2>4. StageInv'
    BY <1>2 DEF Joined, button, task, time
  <2>5. DriveInv'
    BY <1>2 DEF Joined, button, task, time
  <2>6. PressInv'
    BY <1>2 DEF Joined, button, task, time
  <2>7. PowerInv'
    BY <1>2 DEF Joined, button, task, time
  <2> QED BY <2>1, <2>2, <2>3, <2>4, <2>5, <2>6, <2>7
<1>3. CASE Fails
  BY <1>3 DEF Fails, button, task, time
<1>4. CASE Alarm
  BY <1>4 DEF Alarm, Begins, button, task, time
<1>5. CASE CanSleep
  <2>1. CountType'
    BY <1>5 DEF CanSleep, Sent, zigbee, task, time
  <2>2. FlagType'
    BY <1>5 DEF CanSleep, Sent, zigbee, task, time
  <2>3. PlaceType'
    BY <1>5 DEF CanSleep, Sent, zigbee, task, time
  <2>4. StageInv'
    BY <1>5 DEF CanSleep, Sent, zigbee, task, time
  <2>5. DriveInv'
    BY <1>5 DEF CanSleep, Sent, zigbee, task, time
  <2>6. PressInv'
    BY <1>5 DEF CanSleep, Sent, zigbee, task, time
  <2>7. PowerInv'
    BY <1>5 DEF CanSleep, Sent, zigbee, task, time
  <2> QED BY <2>1, <2>2, <2>3, <2>4, <2>5, <2>6, <2>7
<1>6. CASE Leave
  <2>1. CountType'
    BY <1>6 DEF Leave, FactoryReset, Reboot
  <2>2. FlagType'
    BY <1>6 DEF Leave, FactoryReset, Reboot
  <2>3. PlaceType'
    BY <1>6 DEF Leave, FactoryReset, Reboot
  <2>4. StageInv'
    BY <1>6 DEF Leave, FactoryReset, Reboot
  <2>5. DriveInv'
    BY <1>6 DEF Leave, FactoryReset, Reboot
  <2>6. PressInv'
    BY <1>6 DEF Leave, FactoryReset, Reboot
  <2>7. PowerInv'
    BY <1>6 DEF Leave, FactoryReset, Reboot
  <2> QED BY <2>1, <2>2, <2>3, <2>4, <2>5, <2>6, <2>7
<1>7. CASE TimeAnswered
  <2>1. CountType'
    BY <1>7 DEF TimeAnswered, zigbee, button, task
  <2>2. FlagType'
    BY <1>7 DEF TimeAnswered, zigbee, button, task
  <2>3. PlaceType'
    BY <1>7 DEF TimeAnswered, zigbee, button, task
  <2>4. StageInv'
    BY <1>7 DEF TimeAnswered, zigbee, button, task
  <2>5. DriveInv'
    BY <1>7 DEF TimeAnswered, zigbee, button, task
  <2>6. PressInv'
    BY <1>7 DEF TimeAnswered, zigbee, button, task
  <2>7. PowerInv'
    BY <1>7 DEF TimeAnswered, zigbee, button, task
  <2> QED BY <2>1, <2>2, <2>3, <2>4, <2>5, <2>6, <2>7
<1> QED BY <1>1, <1>2, <1>3, <1>4, <1>5, <1>6, <1>7

\* app_main.
LEMMA AppInv ==
  ASSUME CommissioningInv, AppStep
  PROVE  CommissioningInv'
<1> USE CommissioningAssumption
        DEF CommissioningInv, TypeOK, CountType, FlagType, PlaceType,
            StageInv, DriveInv, PressInv, PowerInv, power, pulse, boot
<1>1. CASE AppStart
  BY <1>1 DEF AppStart, CoreStart, Begins, button, task, time
<1>2. CASE AppConnected
  BY <1>2 DEF AppConnected, zigbee, button, task, time
<1>3. CASE TimeKept
  BY <1>3 DEF TimeKept, AppDone, zigbee, button, time
<1>4. CASE TimeAsked
  BY <1>4 DEF TimeAsked, zigbee, button, task
<1>5. CASE TimeSet
  <2>1. CountType'
    BY <1>5 DEF TimeSet, AppDone, zigbee, button
  <2>2. FlagType'
    BY <1>5 DEF TimeSet, AppDone, zigbee, button
  <2>3. PlaceType'
    BY <1>5 DEF TimeSet, AppDone, zigbee, button
  <2>4. StageInv'
    BY <1>5 DEF TimeSet, AppDone, zigbee, button
  <2>5. DriveInv'
    BY <1>5 DEF TimeSet, AppDone, zigbee, button
  <2>6. PressInv'
    BY <1>5 DEF TimeSet, AppDone, zigbee, button
  <2>7. PowerInv'
    BY <1>5 DEF TimeSet, AppDone, zigbee, button
  <2> QED BY <2>1, <2>2, <2>3, <2>4, <2>5, <2>6, <2>7
<1>6. CASE TimeTimesOut
  BY <1>6 DEF TimeTimesOut, AppDone, zigbee, button, time
<1>7. CASE AppEnable
  BY <1>7 DEF AppEnable, zigbee, button, task, time
<1>8. CASE AppRead
  <2>1. CountType'
    BY <1>8 DEF AppRead, zigbee, button, task, time
  <2>2. FlagType'
    BY <1>8 DEF AppRead, zigbee, button, task, time
  <2>3. PlaceType'
    BY <1>8 DEF AppRead, zigbee, button, task, time
  <2>4. StageInv'
    BY <1>8 DEF AppRead, zigbee, button, task, time
  <2>5. DriveInv'
    BY <1>8 DEF AppRead, zigbee, button, task, time
  <2>6. PressInv'
    BY <1>8 DEF AppRead, zigbee, button, task, time
  <2>7. PowerInv'
    BY <1>8 DEF AppRead, zigbee, button, task, time
  <2> QED BY <2>1, <2>2, <2>3, <2>4, <2>5, <2>6, <2>7
<1> QED BY <1>1, <1>2, <1>3, <1>4, <1>5, <1>6, <1>7, <1>8 DEF AppStep

\* What one poll of the button may do.
LEMMA HoldCases ==
  ASSUME TypeOK, Hold
  PROVE  /\ main = "hold" /\ UNCHANGED <<stage, zigbee, button, queued, time, power>>
         /\ \/ main' = "beat" /\ polls' = polls
            \/ main' = main /\ polls < HoldPolls /\ polls' = polls + 1
            \/ main' = "held" /\ polls' = polls
<1>1. CASE ~down
  BY <1>1 DEF Hold
<1>2. CASE down /\ polls < HoldPolls
  BY <1>2 DEF Hold
<1>3. CASE down /\ polls = HoldPolls
  <2>1. ~(polls < HoldPolls)
    BY <1>3, CommissioningAssumption
  <2> QED BY <1>3, <2>1 DEF Hold
<1> QED BY <1>1, <1>2, <1>3, CommissioningAssumption DEF TypeOK, CountType

\* The main task.
LEMMA MainInv ==
  ASSUME CommissioningInv, MainStep
  PROVE  CommissioningInv'
<1> USE CommissioningAssumption
        DEF CommissioningInv, TypeOK, CountType, FlagType, PlaceType,
            StageInv, DriveInv, PressInv, PowerInv, power, pulse, boot
<1>1. CASE Receive
  <2>1. CountType'
    BY <1>1 DEF Receive, zigbee, button, time
  <2>2. FlagType'
    BY <1>1 DEF Receive, zigbee, button, time
  <2>3. PlaceType'
    BY <1>1 DEF Receive, zigbee, button, time
  <2>4. StageInv'
    BY <1>1 DEF Receive, zigbee, button, time
  <2>5. DriveInv'
    BY <1>1 DEF Receive, zigbee, button, time
  <2>6. PressInv'
    BY <1>1 DEF Receive, zigbee, button, time
  <2>7. PowerInv'
    BY <1>1 DEF Receive, zigbee, button, time
  <2> QED BY <2>1, <2>2, <2>3, <2>4, <2>5, <2>6, <2>7
<1>2. CASE Button
  <2>1. CountType'
    BY <1>2 DEF Button, zigbee, time
  <2>2. FlagType'
    BY <1>2 DEF Button, zigbee, time
  <2>3. PlaceType'
    BY <1>2 DEF Button, zigbee, time
  <2>4. StageInv'
    BY <1>2 DEF Button, zigbee, time
  <2>5. DriveInv'
    BY <1>2 DEF Button, zigbee, time
  <2>6. PressInv'
    BY <1>2 DEF Button, zigbee, time
  <2>7. PowerInv'
    BY <1>2 DEF Button, zigbee, time
  <2> QED BY <2>1, <2>2, <2>3, <2>4, <2>5, <2>6, <2>7
<1>3. CASE Hold
  <2>0. /\ main = "hold" /\ UNCHANGED <<stage, zigbee, button, queued, time, power>>
        /\ \/ main' = "beat" /\ polls' = polls
           \/ main' = main /\ polls < HoldPolls /\ polls' = polls + 1
           \/ main' = "held" /\ polls' = polls
    BY <1>3, HoldCases
  <2>1. CountType'
    BY <2>0 DEF zigbee, button, time
  <2>2. FlagType'
    BY <2>0 DEF zigbee, button, time
  <2>3. PlaceType'
    BY <2>0 DEF zigbee, button, time
  <2>4. StageInv'
    BY <2>0 DEF zigbee, button, time
  <2>5. DriveInv'
    BY <2>0 DEF zigbee, button, time
  <2>6. PressInv'
    BY <2>0 DEF zigbee, button, time
  <2>7. PowerInv'
    BY <2>0 DEF zigbee, button, time
  <2> QED BY <2>1, <2>2, <2>3, <2>4, <2>5, <2>6, <2>7
<1>4. CASE Held
  <2>1. CountType'
    BY <1>4 DEF Held, FactoryReset, Reboot
  <2>2. FlagType'
    BY <1>4 DEF Held, FactoryReset, Reboot
  <2>3. PlaceType'
    BY <1>4 DEF Held, FactoryReset, Reboot
  <2>4. StageInv'
    BY <1>4 DEF Held, FactoryReset, Reboot
  <2>5. DriveInv'
    BY <1>4 DEF Held, FactoryReset, Reboot
  <2>6. PressInv'
    BY <1>4 DEF Held, FactoryReset, Reboot
  <2>7. PowerInv'
    BY <1>4 DEF Held, FactoryReset, Reboot
  <2> QED BY <2>1, <2>2, <2>3, <2>4, <2>5, <2>6, <2>7
<1>5. CASE Heartbeat
  <2>0. /\ main = "beat" /\ main' \in {"wait", "read", "retry"}
        /\ UNCHANGED <<stage, zigbee, button, queued, polls, time, boot, battery>>
        /\ due' \in BOOLEAN /\ beats' \in 0 .. BeatMod - 1
        /\ converter' = IF main' = "read" THEN TRUE ELSE converter
    <3>1. (beats + 1) % BeatMod \in 0 .. BeatMod - 1
      OBVIOUS
    <3>2. CASE ~due
      BY <1>5, <3>2 DEF Heartbeat
    <3>3. CASE due
      BY <1>5, <3>1, <3>3 DEF Heartbeat
    <3> QED BY <3>2, <3>3
  <2>1. CountType'
    BY <2>0 DEF zigbee, button, time
  <2>2. FlagType'
    BY <2>0 DEF zigbee, button, time
  <2>3. PlaceType'
    BY <2>0 DEF zigbee, button, time
  <2>4. StageInv'
    BY <2>0 DEF zigbee, button, time
  <2>5. DriveInv'
    BY <2>0 DEF zigbee, button, time
  <2>6. PressInv'
    BY <2>0 DEF zigbee, button, time
  <2>7. PowerInv'
    BY <2>0 DEF zigbee, button, time
  <2> QED BY <2>1, <2>2, <2>3, <2>4, <2>5, <2>6, <2>7
<1>6. CASE ReadSucceeds \/ ReadFails
  <2>0. /\ main = "read" /\ main' = "retry" /\ ~converter'
        /\ battery' \in {"hour", battery}
        /\ UNCHANGED <<stage, zigbee, button, queued, polls, time, pulse, boot>>
    BY <1>6 DEF ReadSucceeds, ReadFails, HourlyRead
  <2>1. CountType'
    BY <2>0 DEF zigbee, button, time
  <2>2. FlagType'
    BY <1>6, <2>0 DEF zigbee, button, time, ReadSucceeds, ReadFails, HourlyRead
  <2>3. PlaceType'
    BY <2>0 DEF zigbee, button, time
  <2>4. StageInv'
    BY <2>0 DEF zigbee, button, time
  <2>5. DriveInv'
    BY <2>0 DEF zigbee, button, time
  <2>6. PressInv'
    BY <2>0 DEF zigbee, button, time
  <2>7. PowerInv'
    BY <2>0 DEF zigbee, button, time
  <2> QED BY <2>1, <2>2, <2>3, <2>4, <2>5, <2>6, <2>7
\* The heartbeat finds the network connected.
<1>7. CASE Retry
  <2>0. /\ main = "retry" /\ main' = "wait"
        /\ UNCHANGED <<stage, zigbee, button, queued, polls, time, power>>
    BY <1>7 DEF Retry
  <2> QED BY <2>0 DEF zigbee, button, time
<1> QED BY <1>1, <1>2, <1>3, <1>4, <1>5, <1>6, <1>7 DEF MainStep

LEMMA StepInv ==
  ASSUME CommissioningInv, [Next]_vars
  PROVE  CommissioningInv'
<1>1. CASE Next
  BY <1>1, WorldInv, StackInv, AppInv, MainInv DEF Next
<1>2. CASE UNCHANGED vars
  BY <1>2 DEF vars, zigbee, button, task, time, CommissioningInv, TypeOK,
              CountType, FlagType, PlaceType, StageInv, DriveInv, PressInv,
              PowerInv, power, pulse, boot
<1> QED BY <1>1, <1>2

\* The boot, the network and the button agree at every step of the tasks, the
\* signals and the interrupt.
THEOREM CommissioningInvariant == Spec => []CommissioningInv
BY InitInv, StepInv, PTL DEF Spec

\* The stack is started once in a boot.
THEOREM SingleStart == Spec => []StackStartedOnce
<1>1. CommissioningInv => StackStartedOnce
  BY DEF CommissioningInv, StageInv, StackStartedOnce
<1> QED BY <1>1, CommissioningInvariant, PTL

\* Until the network is joined, something is under way or scheduled unless the
\* stack has refused to begin it.
THEOREM AlwaysDriven == Spec => []NeverStranded
<1>1. CommissioningInv => NeverStranded
  BY DEF CommissioningInv, TypeOK, PlaceType, DriveInv, NeverStranded
<1> QED BY <1>1, CommissioningInvariant, PTL

\* The reading of an hour is not replaced by that of the boot.
THEOREM NewestStays == Spec => NewerStays
<1>1. ASSUME CommissioningInv, [Next]_vars, battery = "hour"
      PROVE  battery' \in {"hour", "initial"}
  <2>1. stage = "done"
    BY <1>1 DEF CommissioningInv, PowerInv
  <2>2. CASE PowerLoss \/ Leave \/ Held
    BY <2>2 DEF PowerLoss, Leave, Held, FactoryReset, Reboot
  <2>3. CASE Day \/ Minute \/ PressOrRelease \/ LevelInterrupt
    BY <1>1, <2>3 DEF Day, Minute, PressOrRelease, LevelInterrupt, power
  <2>4. CASE Initialised \/ Joined \/ Fails \/ Alarm \/ CanSleep \/ TimeAnswered
    BY <1>1, <2>4 DEF Initialised, Joined, Fails, Alarm, CanSleep, TimeAnswered, power
  <2>5. CASE AppStep
    BY <2>1, <2>5 DEF AppStep, AppEnable, AppRead, AppStart, AppConnected,
                      TimeKept, TimeAsked, TimeSet, TimeTimesOut
  <2>6. CASE Receive \/ Button \/ Hold \/ Heartbeat \/ Retry
    BY <1>1, <2>6 DEF Receive, Button, Hold, Heartbeat, Retry, power
  <2>7. CASE ReadSucceeds \/ ReadFails
    BY <1>1, <2>7 DEF ReadSucceeds, ReadFails, HourlyRead
  <2>8. CASE UNCHANGED vars
    BY <1>1, <2>8 DEF vars, power
  <2> QED BY <1>1, <2>2, <2>3, <2>4, <2>5, <2>6, <2>7, <2>8 DEF Next, MainStep
<1>2. CommissioningInv /\ [Next]_vars
        => [battery = "hour" => battery' \in {"hour", "initial"}]_vars
  BY <1>1
<1> QED BY <1>2, CommissioningInvariant, PTL DEF Spec, NewerStays

\* Within an hour the remainder of the beats counts up by one.
LEMMA NextBeat ==
  ASSUME NEW h \in Nat \ {0}, NEW b \in Nat, (b + 1) % h # 0
  PROVE  (b + 1) % h = (b % h) + 1
<1>1. /\ b = h * (b \div h) + (b % h)
      /\ b % h \in 0 .. h - 1 /\ b \div h \in Int
  OBVIOUS
<1>2. /\ b + 1 = h * ((b + 1) \div h) + ((b + 1) % h)
      /\ (b + 1) % h \in 0 .. h - 1 /\ (b + 1) \div h \in Int
  OBVIOUS
<1> DEFINE d == (b + 1) \div h - (b \div h)
           r == b % h
           s == (b + 1) % h
<1>3. d \in Int /\ h * d = h * ((b + 1) \div h) - h * (b \div h)
  BY <1>1, <1>2
<1>4. h * d = r + 1 - s /\ r \in 0 .. h - 1 /\ s \in 1 .. h - 1
  BY <1>1, <1>2, <1>3
<1> HIDE DEF d, r, s
<1>5. d < 1
  <2>1. d >= 1 => h * d >= h
    BY <1>3
  <2> QED BY <1>3, <1>4, <2>1
<1>6. d > -1
  <2>1. d <= -1 => h * d <= -h
    BY <1>3
  <2> QED BY <1>3, <1>4, <2>1
<1>7. d = 0
  BY <1>3, <1>5, <1>6
<1> QED BY <1>4, <1>7 DEF r, s

\* The battery is read within an hour of beats, wherever the counter wraps:
\* what BatteryRefreshed owes to the 16-bit counter, not to the schedule.
THEOREM ReadingsRecur == Spec => NeverLate
<1>1. ASSUME CommissioningInv, Heartbeat, due, main' # "read"
      PROVE  BeatsLeft' < BeatsLeft
  <2>1. beats \in 0 .. BeatMod - 1 /\ Hour \in Nat \ {0} /\ BeatMod \in Nat \ {0}
    BY <1>1, CommissioningAssumption DEF CommissioningInv, TypeOK, CountType
  <2>2. beats % Hour # 0 /\ beats' = (beats + 1) % BeatMod
    BY <1>1 DEF Heartbeat
  <2>3. beats % Hour \in 1 .. Hour - 1
    BY <2>1, <2>2
  <2>4. BeatsLeft = Hour - (beats % Hour) /\ BeatsLeft > 0
    BY <2>1, <2>2, <2>3 DEF BeatsLeft
  <2>5. CASE beats + 1 = BeatMod
    <3>1. beats' = 0
      BY <2>1, <2>2, <2>5
    <3>2. 0 % Hour = 0
      BY <2>1
    <3> QED BY <2>4, <3>1, <3>2 DEF BeatsLeft
  <2>6. CASE beats + 1 # BeatMod
    <3>1. beats' = beats + 1
      BY <2>1, <2>2, <2>6
    <3>2. CASE (beats + 1) % Hour = 0
      BY <2>4, <3>1, <3>2 DEF BeatsLeft
    <3>3. CASE (beats + 1) % Hour # 0
      <4> beats \in Nat /\ Hour \in Nat \ {0}
        BY <2>1
      <4>1. (beats + 1) % Hour = (beats % Hour) + 1
        BY <3>3, NextBeat, Zenon
      <4> QED BY <2>1, <2>3, <2>4, <3>1, <3>3, <4>1 DEF BeatsLeft
    <3> QED BY <3>2, <3>3
  <2> QED BY <2>5, <2>6
<1>2. CommissioningInv /\ [Next]_vars
        => [Heartbeat /\ due => main' = "read" \/ BeatsLeft' < BeatsLeft]_vars
  BY <1>1
<1> QED BY <1>2, CommissioningInvariant, PTL DEF Spec, NeverLate

\* What HoldIsNoticed and BatteryRefreshed owe to the main task itself: a round of
\* it is finite, for any number of polls.
THEOREM RoundsAreFinite == Spec => RoundsEnd
<1>1. ASSUME CommissioningInv, MainStep, main \notin {"wait", "held"}
      PROVE  RoundLeft' < RoundLeft
  <2>1. polls \in 0 .. HoldPolls /\ HoldPolls \in Nat
    BY <1>1, CommissioningAssumption DEF CommissioningInv, TypeOK, CountType
  <2>2. CASE Button
    BY <2>1, <2>2 DEF Button, RoundLeft
  <2>3. CASE Hold
    <3>1. main = "hold" /\ RoundLeft = HoldPolls - polls + 4
      BY <2>3 DEF Hold, RoundLeft
    <3>2. CASE ~down
      <4>1. main' = "beat"
        BY <2>3, <3>2 DEF Hold
      <4>2. RoundLeft' = 3
        BY <4>1 DEF RoundLeft
      <4> QED BY <2>1, <3>1, <4>2
    <3>3. CASE down /\ polls < HoldPolls
      <4>1. polls' = polls + 1 /\ main' = "hold"
        <5>1. polls # HoldPolls
          BY <2>1, <3>3
        <5>2. polls' = polls + 1 /\ UNCHANGED main
          BY <2>3, <3>3, <5>1, Zenon DEF Hold
        <5> QED BY <3>1, <5>2
      <4>2. RoundLeft' = HoldPolls - polls' + 4
        BY <4>1 DEF RoundLeft
      <4> QED BY <2>1, <3>1, <4>1, <4>2
    <3>4. CASE down /\ polls = HoldPolls
      BY <2>1, <2>3, <3>1, <3>4 DEF Hold, RoundLeft
    <3> QED BY <2>1, <3>2, <3>3, <3>4
  <2>4. CASE Heartbeat
    BY <2>4 DEF Heartbeat, RoundLeft
  <2>5. CASE ReadSucceeds \/ ReadFails \/ Retry
    BY <2>5 DEF ReadSucceeds, ReadFails, HourlyRead, Retry, RoundLeft
  <2> QED BY <1>1, <2>2, <2>3, <2>4, <2>5 DEF MainStep, Receive, Held
<1>2. CommissioningInv /\ [Next]_vars
        => [MainStep => main \in {"wait", "held"} \/ RoundLeft' < RoundLeft]_vars
  BY <1>1
<1> QED BY <1>2, CommissioningInvariant, PTL DEF Spec, RoundsEnd

\* The main task never sleeps on an empty queue over a press.
THEOREM PressSeen == Spec => []PressSignalled
<1>1. CommissioningInv => PressSignalled
  BY DEF CommissioningInv, PressInv, PressSignalled
<1> QED BY <1>1, CommissioningInvariant, PTL
=============================================================================
