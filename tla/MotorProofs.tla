----------------------------- MODULE MotorProofs -----------------------------
(***************************************************************************)
(* What Motor guarantees for every value of its constants: MotorInv is      *)
(* inductive, the safety properties follow from it, and the specification   *)
(* implements the promise of Motion.                                        *)
(***************************************************************************)
EXTENDS Motor, SequenceTheorems, FiniteSetTheorems, FunctionTheorems, TLAPS

Events == {-Watch, 0, Watch}

-----------------------------------------------------------------------------
(* Lemmas about the operators *)

\* Arithmetic on positions wraps around and stays a position.
LEMMA WrapInPos == ASSUME NEW x \in Int PROVE Wrap(x) \in Pos
BY MotorAssumption, SMT DEF Wrap, Pos

\* The distance of two positions is a position.
LEMMA AbsDiffInPos == ASSUME NEW a \in Pos, NEW b \in Pos PROVE AbsDiff(a, b) \in Pos
BY MotorAssumption, SMT DEF AbsDiff, Pos

\* The ramp never leaves the range of the speed table (int8_t in the code).
LEMMA RampedInRange ==
    ASSUME NEW local \in -Fast .. Fast, NEW desired \in {-Fast, -1, 1, Fast},
           NEW d \in Pos
    PROVE  Ramped(local, desired, d) \in -Fast .. Fast
BY MotorAssumption, SMT DEF Ramped, Pos

LEMMA SignType == ASSUME NEW x \in Int PROVE Sign(x) \in Signs
BY DEF Sign, Signs

\* Appending to a queue that has room.
LEMMA QueueAppend ==
    ASSUME NEW q \in Seq(Events), Len(q) < QueueLen, NEW e \in Events
    PROVE  /\ Append(q, e) \in Seq(Events)
           /\ Append(q, e) # <<>>
           /\ Len(Append(q, e)) <= QueueLen
<1>1. Len(q) \in Nat
  BY LenProperties
<1>2. /\ Append(q, e) \in Seq(Events)
      /\ Append(q, e) # <<>>
      /\ Len(Append(q, e)) = Len(q) + 1
  BY AppendProperties
<1> QED
  BY <1>1, <1>2, MotorAssumption

\* Taking the head off a queue that is not empty.
LEMMA QueueTake ==
    ASSUME NEW q \in Seq(Events), q # <<>>, Len(q) <= QueueLen
    PROVE  /\ Head(q) \in Events
           /\ Tail(q) \in Seq(Events)
           /\ Len(Tail(q)) <= QueueLen
<1>1. Len(q) \in Nat
  BY LenProperties
<1> QED
  BY <1>1, HeadTailProperties, MotorAssumption

\* A full queue is not empty.
LEMMA QueueFull ==
    ASSUME NEW q \in Seq(Events), ~(Len(q) < QueueLen)
    PROVE  q # <<>>
BY EmptySeq, MotorAssumption

-----------------------------------------------------------------------------
(* The invariant is inductive *)

LEMMA InitInv == Init => MotorInv
<1> SUFFICES ASSUME Init PROVE MotorInv
  OBVIOUS
<1>1. StartPos \in Pos /\ 0 \in Pos /\ PosMod - 1 \in Pos
  BY MotorAssumption DEF Pos
<1>2. queue \in Seq(Events) /\ Len(queue) <= QueueLen
  BY EmptySeq, MotorAssumption DEF Init
<1>3. PlantType
  <2>1. unit \in BOOLEAN /\ wired \in BOOLEAN
    BY DEF Init
  <2>2. shaft \in Int
    BY MotorAssumption DEF Init, Pos
  <2> QED
    BY <1>2, <2>1, <2>2, MotorAssumption DEF Init, PlantType, Events
<1>4. FieldType
  <2>1. 0 \in Signs /\ 0 \in 0 .. ActMod - 1
    BY MotorAssumption DEF Signs
  <2>2. /\ reported \in Report /\ seen \in Report
        /\ nvs \in [position : Pos, actuations : 0 .. ActMod - 1]
    BY <1>1, <2>1 DEF Init, Report
  <2> QED
    BY <1>1, <2>1, <2>2 DEF Init, FieldType
<1>5. TaskType
  <2>1. inited \in BOOLEAN /\ fresh \in BOOLEAN /\ exit \in Exits
    BY DEF Init, Exits
  <2>2. pc \in PCs
    BY <2>1, Zenon DEF Init, PCs
  <2>3. boot \in Boots
    BY DEF Init, Boots
  <2> QED
    BY <1>1, <2>1, <2>2, <2>3, MotorAssumption DEF Init, TaskType
<1>6. BootInv
  BY DEF Init, BootInv, Handed
<1>7. PowerInv /\ ExitInv /\ RecordInv /\ WakeInv
  BY DEF Init, PowerInv, ExitInv, RecordInv, WakeInv, Handed
<1> QED
  BY <1>3, <1>4, <1>5, <1>6, <1>7 DEF MotorInv, TypeOK

LEMMA RestartInv == MotorInv /\ Restart => MotorInv'
<1> SUFFICES ASSUME MotorInv, Restart PROVE MotorInv'
  OBVIOUS
<1>1. StartPos \in Pos /\ 0 \in Pos /\ PosMod - 1 \in Pos
  BY MotorAssumption DEF Pos
<1>2. queue' \in Seq(Events) /\ Len(queue') <= QueueLen
  BY EmptySeq, MotorAssumption DEF Restart
<1>3. PlantType'
  <2>1. unit' \in BOOLEAN /\ wired' \in BOOLEAN
    BY DEF Restart
  <2>2. shaft' \in Int
    BY DEF Restart, MotorInv, TypeOK, PlantType
  <2> QED
    BY <1>2, <2>1, <2>2, MotorAssumption DEF Restart, PlantType, Events
<1>4. FieldType'
  <2>1. 0 \in Signs /\ 0 \in 0 .. ActMod - 1
    BY MotorAssumption DEF Signs
  <2>2. nvs \in [position : Pos, actuations : 0 .. ActMod - 1]
    BY DEF MotorInv, TypeOK, FieldType
  <2>3. position' \in Pos /\ actuations' \in 0 .. ActMod - 1
    BY <1>1, <2>1, <2>2 DEF Restart
  <2>4. reported' \in Report /\ seen' \in Report
    BY <1>1, <2>1 DEF Restart, Report
  <2> QED
    BY <1>1, <2>1, <2>2, <2>3, <2>4 DEF Restart, FieldType
<1>5. TaskType'
  <2>1. inited' \in BOOLEAN /\ fresh' \in BOOLEAN /\ exit' \in Exits
    BY DEF Restart, Exits
  <2>2. pc' \in PCs
    BY <2>1, Zenon DEF Restart, PCs
  <2>3. boot' \in Boots
    BY DEF Restart, Boots
  <2> QED
    BY <1>1, <2>1, <2>2, <2>3, MotorAssumption DEF Restart, TaskType
<1>6. BootInv'
  BY DEF Restart, BootInv, Handed
<1>7. (PowerInv /\ ExitInv /\ RecordInv /\ WakeInv)'
  BY DEF Restart, PowerInv, ExitInv, RecordInv, WakeInv, Handed
<1> QED
  BY <1>3, <1>4, <1>5, <1>6, <1>7 DEF MotorInv, TypeOK

LEMMA EdgeInv == ASSUME NEW d \in {-1, 1} PROVE MotorInv /\ Edge(d) => MotorInv'
<1> SUFFICES ASSUME MotorInv, Edge(d) PROVE MotorInv'
  OBVIOUS
<1> USE DEF memory, settings, locals, drive, record, aim, report
<1>1. PlantType'
  BY MotorAssumption DEF Edge, MotorInv, TypeOK, PlantType
<1>2. FieldType' /\ TaskType'
  BY DEF Edge, MotorInv, TypeOK, FieldType, TaskType
<1>3. BootInv' /\ ExitInv' /\ RecordInv' /\ WakeInv'
  BY DEF Edge, MotorInv, BootInv, ExitInv, RecordInv, WakeInv, Handed
<1>4. PowerInv'
  BY DEF Edge, MotorInv, PowerInv, Handed
<1> QED
  BY <1>1, <1>2, <1>3, <1>4 DEF MotorInv, TypeOK

LEMMA PcntCbInv == MotorInv /\ PcntCb => MotorInv'
<1> SUFFICES ASSUME MotorInv, PcntCb PROVE MotorInv'
  OBVIOUS
<1> USE DEF memory, settings, locals, drive, record, aim, report
<1>1. queue' \in Seq(Events) /\ Len(queue') <= QueueLen /\ queue' # <<>>
  <2>1. queue \in Seq(Events) /\ isr \in Events /\ Len(queue) <= QueueLen
    BY DEF MotorInv, TypeOK, PlantType, Events
  <2> QED
    BY <2>1, QueueAppend, QueueFull DEF PcntCb
<1>2. PlantType'
  BY <1>1, MotorAssumption DEF PcntCb, MotorInv, TypeOK, PlantType, Events
<1>3. FieldType' /\ TaskType'
  BY DEF PcntCb, MotorInv, TypeOK, FieldType, TaskType
<1>4. BootInv'
  BY DEF PcntCb, MotorInv, BootInv, PowerInv, Handed
<1>5. PowerInv' /\ WakeInv'
  BY <1>1 DEF PcntCb, MotorInv, PowerInv, WakeInv, Handed
<1>6. ExitInv' /\ RecordInv'
  BY DEF PcntCb, MotorInv, ExitInv, RecordInv
<1> QED
  BY <1>2, <1>3, <1>4, <1>5, <1>6 DEF MotorInv, TypeOK

LEMMA ReceiveInv == MotorInv /\ Receive => MotorInv'
<1> SUFFICES ASSUME MotorInv, Receive PROVE MotorInv'
  OBVIOUS
<1> USE DEF plant, memory, settings, locals, drive, record, aim, report, Runs
<1>1. Handed /\ ~identify
  BY DEF Receive, MotorInv, BootInv, Handed
<1>2. /\ queue' \in Seq(Events) /\ Len(queue') <= QueueLen
      /\ position + Head(queue) \in Int
  <2>1. queue \in Seq(Events) /\ queue # <<>> /\ Len(queue) <= QueueLen
    BY DEF Receive, MotorInv, TypeOK, PlantType, Events
  <2>2. Head(queue) \in Events /\ position \in Pos
    BY <2>1, QueueTake DEF MotorInv, TypeOK, FieldType
  <2>3. position + Head(queue) \in Int
    BY <2>2, MotorAssumption DEF Pos, Events
  <2> QED
    BY <2>1, <2>3, QueueTake DEF Receive
<1>3. PlantType'
  BY <1>2 DEF Receive, MotorInv, TypeOK, PlantType, Events
<1>4. FieldType'
  BY <1>2, WrapInPos DEF Receive, MotorInv, TypeOK, FieldType
<1>5. TaskType'
  BY <1>1, MotorAssumption
  DEF Receive, MotorInv, TypeOK, TaskType, PCs, Exits
<1>6. BootInv' /\ ExitInv'
  BY <1>1 DEF Receive, MotorInv, BootInv, ExitInv, Handed
<1>7. PowerInv'
  BY <1>1 DEF Receive, MotorInv, PowerInv, Handed
<1>8. RecordInv' /\ WakeInv'
  BY <1>1 DEF Receive, MotorInv, RecordInv, WakeInv
<1> QED
  BY <1>3, <1>4, <1>5, <1>6, <1>7, <1>8 DEF MotorInv, TypeOK

LEMMA SampleInv == MotorInv /\ Sample => MotorInv'
<1> SUFFICES ASSUME MotorInv, Sample PROVE MotorInv'
  OBVIOUS
<1> USE DEF plant, memory, settings, locals, drive, record, aim, report, Runs
<1>1. exact' \in Pos
  <2>1. position + count \in Int
    BY MotorAssumption DEF MotorInv, TypeOK, PlantType, FieldType, Pos
  <2> QED
    BY <2>1, WrapInPos DEF Sample
<1>2. PlantType' /\ FieldType'
  BY <1>1 DEF Sample, MotorInv, TypeOK, PlantType, FieldType
<1>3. TaskType'
  BY <1>1, MotorAssumption DEF Sample, MotorInv, TypeOK, TaskType, PCs
<1>4. BootInv' /\ ExitInv' /\ PowerInv'
  BY DEF Sample, MotorInv, BootInv, ExitInv, PowerInv, Handed
<1>5. RecordInv' /\ WakeInv'
  BY DEF Sample, MotorInv, RecordInv, WakeInv
<1> QED
  BY <1>2, <1>3, <1>4, <1>5 DEF MotorInv, TypeOK

LEMMA TellInv == MotorInv /\ Tell => MotorInv'
<1> SUFFICES ASSUME MotorInv, Tell PROVE MotorInv'
  OBVIOUS
<1> USE DEF plant, memory, settings, locals, drive, record, aim, Runs
<1>1. Now \in Report
  BY DEF Now, Report, MotorInv, TypeOK, FieldType
<1>2. PlantType' /\ FieldType'
  BY <1>1 DEF Tell, MotorInv, TypeOK, PlantType, FieldType
<1>3. TaskType'
  BY DEF Tell, MotorInv, TypeOK, TaskType, PCs
<1>4. BootInv' /\ ExitInv' /\ PowerInv'
  BY DEF Tell, MotorInv, BootInv, ExitInv, PowerInv, Handed
<1>5. RecordInv' /\ WakeInv'
  BY DEF Tell, Now, MotorInv, RecordInv, WakeInv
<1> QED
  BY <1>2, <1>3, <1>4, <1>5 DEF MotorInv, TypeOK

LEMMA DiffInv == MotorInv /\ Diff => MotorInv'
<1> SUFFICES ASSUME MotorInv, Diff PROVE MotorInv'
  OBVIOUS
<1> USE DEF plant, memory, settings, locals, drive, record, aim, report, Runs
<1>1. diff' \in Pos
  BY AbsDiffInPos DEF Diff, MotorInv, TypeOK, FieldType
<1>2. PlantType' /\ FieldType'
  BY DEF Diff, MotorInv, TypeOK, PlantType, FieldType
<1>3. TaskType'
  BY <1>1 DEF Diff, MotorInv, TypeOK, TaskType, PCs, Exits
<1>4. BootInv' /\ ExitInv' /\ PowerInv'
  BY DEF Diff, MotorInv, BootInv, ExitInv, PowerInv, Handed
<1>5. RecordInv' /\ WakeInv'
  BY DEF Diff, MotorInv, RecordInv, WakeInv
<1> QED
  BY <1>2, <1>3, <1>4, <1>5 DEF MotorInv, TypeOK

\* updateSpeed as the loop uses it, from whatever place in the task.
LEMMA UpdateSpeedType ==
    ASSUME MotorInv, NEW s \in Signs, NEW next \in PCs, UpdateSpeed(s, next)
    PROVE  /\ driven' \in Signs /\ speed' \in Signs /\ powered' = TRUE
           /\ actuations' \in 0 .. ActMod - 1
           /\ nvs' \in [position : Pos, actuations : 0 .. ActMod - 1]
           /\ nvs'.position = nvs.position
           /\ unsaved' \subseteq Keys
           /\ "position" \in unsaved' <=> "position" \in unsaved
           /\ "actuations" \in unsaved \/ nvs.actuations = actuations =>
                "actuations" \in unsaved' \/ nvs'.actuations = actuations'
           /\ pc' \in PCs
<1>1. /\ actuations \in 0 .. ActMod - 1
      /\ nvs \in [position : Pos, actuations : 0 .. ActMod - 1]
      /\ driven \in Signs /\ unsaved \subseteq Keys
  BY DEF MotorInv, TypeOK, FieldType
<1>2. (actuations + 1) % ActMod \in 0 .. ActMod - 1
  BY <1>1, MotorAssumption
<1>3. CASE speed = 0 /\ s # 0
  <2> DEFINE new == [nvs EXCEPT !.actuations = actuations']
  <2>1. /\ Put("actuations", new) /\ actuations' = (actuations + 1) % ActMod
        /\ speed' = s /\ powered' = TRUE
        /\ driven' = (IF powered THEN s ELSE driven)
        /\ pc' = (IF powered THEN next ELSE "warm")
    BY <1>3 DEF UpdateSpeed, PutActuations
  <2>2. /\ new \in [position : Pos, actuations : 0 .. ActMod - 1]
        /\ new.position = nvs.position /\ new.actuations = actuations'
    BY <1>1, <1>2, <2>1
  <2> HIDE DEF new
  <2>3. /\ nvs' = nvs \/ nvs' = new
        /\ \/ nvs' = new /\ unsaved' = unsaved \ {"actuations"}
           \/ unsaved' = unsaved \cup {"actuations"}
    BY <2>1 DEF Put
  <2>4. /\ unsaved' \subseteq Keys
        /\ "position" \in unsaved' <=> "position" \in unsaved
        /\ "actuations" \in unsaved' \/ nvs' = new
    BY <1>1, <2>3 DEF Keys
  <2> QED
    BY <1>1, <1>2, <2>1, <2>2, <2>3, <2>4 DEF PCs
<1>4. CASE ~(speed = 0 /\ s # 0)
  BY <1>1, <1>4 DEF UpdateSpeed, record, PCs
<1> QED
  BY <1>3, <1>4

LEMMA RampInv == MotorInv /\ Ramp => MotorInv'
<1> SUFFICES ASSUME MotorInv, Ramp PROVE MotorInv'
  OBVIOUS
<1> USE DEF plant, memory, settings, locals, aim, report, Runs
<1>1. localSpeed' \in -Fast .. Fast
  <2> DEFINE desired == (IF diff < Slow THEN 1 ELSE Fast)
                        * (IF exact < target THEN 1 ELSE -1)
  <2>1. desired \in {-Fast, -1, 1, Fast}
    BY MotorAssumption
  <2>2. localSpeed \in -Fast .. Fast /\ diff \in Pos
    BY DEF MotorInv, TypeOK, TaskType
  <2>3. localSpeed' = Ramped(localSpeed, desired, diff)
    BY DEF Ramp
  <2> QED
    BY <2>1, <2>2, <2>3, RampedInRange
<1>2. Sign(localSpeed') \in Signs /\ "delay" \in PCs
  BY <1>1, MotorAssumption, SignType DEF PCs
<1>3. UpdateSpeed(Sign(localSpeed'), "delay")
  BY DEF Ramp
<1>4. Handed /\ inited
  BY DEF Ramp, MotorInv, BootInv, Handed
<1>5. PlantType' /\ FieldType'
  BY <1>2, <1>3, UpdateSpeedType
  DEF Ramp, MotorInv, TypeOK, PlantType, FieldType
<1>6. TaskType'
  BY <1>1, <1>2, <1>3, UpdateSpeedType DEF Ramp, MotorInv, TypeOK, TaskType
<1>7. BootInv' /\ ExitInv'
  BY <1>3, <1>4 DEF Ramp, UpdateSpeed, MotorInv, BootInv, ExitInv, Handed
<1>8. PowerInv'
  BY <1>3, <1>4, Zenon DEF Ramp, UpdateSpeed, MotorInv, PowerInv, Handed
<1>9. RecordInv' /\ WakeInv'
  BY <1>2, <1>3, <1>4, UpdateSpeedType
  DEF Ramp, UpdateSpeed, MotorInv, RecordInv, WakeInv
<1> QED
  BY <1>5, <1>6, <1>7, <1>8, <1>9 DEF MotorInv, TypeOK

LEMMA WarmInv == MotorInv /\ Warm => MotorInv'
<1> SUFFICES ASSUME MotorInv, Warm PROVE MotorInv'
  OBVIOUS
<1> USE DEF plant, memory, settings, locals, drive, record, aim, report, Runs
<1>1. PlantType'
  BY MotorAssumption DEF Warm, MotorInv, TypeOK, PlantType
<1>2. FieldType'
  BY DEF Warm, MotorInv, TypeOK, FieldType
<1>3. TaskType'
  BY DEF Warm, MotorInv, TypeOK, TaskType, PCs
<1>4. BootInv' /\ ExitInv' /\ PowerInv'
  BY DEF Warm, MotorInv, BootInv, ExitInv, PowerInv, Handed
<1>5. RecordInv' /\ WakeInv'
  BY DEF Warm, MotorInv, RecordInv, WakeInv
<1> QED
  BY <1>1, <1>2, <1>3, <1>4, <1>5 DEF MotorInv, TypeOK

LEMMA PollInv == MotorInv /\ Poll => MotorInv'
<1> SUFFICES ASSUME MotorInv, Poll PROVE MotorInv'
  OBVIOUS
<1> USE DEF plant, memory, settings, locals, drive, record, aim, report, Runs
<1>1. /\ queue' \in Seq(Events) /\ Len(queue') <= QueueLen
      /\ position' \in Pos
  <2>1. queue \in Seq(Events) /\ Len(queue) <= QueueLen /\ position \in Pos
    BY DEF MotorInv, TypeOK, PlantType, FieldType, Events
  <2>2. CASE queue = <<>>
    BY <2>1, <2>2 DEF Poll
  <2>3. CASE queue # <<>>
    <3>1. Head(queue) \in Events
      BY <2>1, <2>3, QueueTake
    <3>2. position + Head(queue) \in Int
      BY <2>1, <3>1, MotorAssumption DEF Pos, Events
    <3> QED
      BY <2>1, <2>3, <3>2, QueueTake, WrapInPos DEF Poll
  <2> QED
    BY <2>2, <2>3
<1>2. PlantType' /\ FieldType'
  BY <1>1 DEF Poll, MotorInv, TypeOK, PlantType, FieldType, Events
<1>3. TaskType'
  BY MotorAssumption DEF Poll, MotorInv, TypeOK, TaskType, PCs, Exits
<1>4. BootInv' /\ ExitInv' /\ PowerInv'
  BY DEF Poll, MotorInv, BootInv, ExitInv, PowerInv, Handed
<1>5. RecordInv' /\ WakeInv'
  BY DEF Poll, MotorInv, RecordInv, WakeInv, ExitInv
<1> QED
  BY <1>2, <1>3, <1>4, <1>5 DEF MotorInv, TypeOK

LEMMA HaltInv == MotorInv /\ Halt => MotorInv'
<1> SUFFICES ASSUME MotorInv, Halt PROVE MotorInv'
  OBVIOUS
<1> USE DEF plant, memory, settings, locals, aim, report, Runs
<1>1. 0 \in Signs /\ "save" \in PCs /\ UpdateSpeed(0, "save")
  BY DEF Signs, PCs, Halt
<1>2. Handed /\ inited
  BY DEF Halt, MotorInv, BootInv, Handed
<1>3. PlantType' /\ FieldType'
  BY <1>1, UpdateSpeedType DEF Halt, MotorInv, TypeOK, PlantType, FieldType
<1>4. TaskType'
  BY <1>1, UpdateSpeedType DEF Halt, MotorInv, TypeOK, TaskType
<1>5. BootInv' /\ ExitInv'
  BY <1>1, <1>2 DEF Halt, UpdateSpeed, MotorInv, BootInv, ExitInv, Handed
<1>6. PowerInv'
  BY <1>1, <1>2 DEF Halt, UpdateSpeed, MotorInv, PowerInv, Handed
<1>7. RecordInv' /\ WakeInv'
  BY <1>1, <1>2, UpdateSpeedType
  DEF Halt, UpdateSpeed, MotorInv, RecordInv, WakeInv
<1> QED
  BY <1>3, <1>4, <1>5, <1>6, <1>7 DEF MotorInv, TypeOK

LEMMA SaveInv == MotorInv /\ Save => MotorInv'
<1> SUFFICES ASSUME MotorInv, Save PROVE MotorInv'
  OBVIOUS
<1> USE DEF plant, memory, settings, locals, drive, aim, report, Runs
<1> DEFINE new == [nvs EXCEPT !.position = exact]
<1>0. /\ new \in [position : Pos, actuations : 0 .. ActMod - 1]
      /\ new.position = exact /\ new.actuations = nvs.actuations
      /\ unsaved \subseteq Keys
  BY DEF MotorInv, TypeOK, FieldType
<1>a. Put("position", new)
  BY DEF Save
<1> HIDE DEF new
<1>b. /\ nvs' = nvs \/ nvs' = new
      /\ unsaved' \subseteq Keys
      /\ "position" \in unsaved' \/ nvs' = new
      /\ "actuations" \in unsaved' <=> "actuations" \in unsaved
  BY <1>0, <1>a DEF Put, Keys
<1>1. PlantType' /\ FieldType'
  BY <1>0, <1>b DEF Save, MotorInv, TypeOK, PlantType, FieldType
<1>2. TaskType'
  BY DEF Save, MotorInv, TypeOK, TaskType, PCs
<1>3. BootInv' /\ ExitInv' /\ PowerInv'
  BY DEF Save, MotorInv, BootInv, ExitInv, PowerInv, Handed
<1>4. RecordInv' /\ WakeInv'
  BY <1>0, <1>b DEF Save, MotorInv, RecordInv, WakeInv
<1> QED
  BY <1>1, <1>2, <1>3, <1>4 DEF MotorInv, TypeOK

LEMMA PowerOffInv == MotorInv /\ PowerOff => MotorInv'
<1> SUFFICES ASSUME MotorInv, PowerOff PROVE MotorInv'
  OBVIOUS
<1> USE DEF plant, memory, settings, locals, drive, record, aim, report, Runs
<1>1. PlantType'
  <2>1. count' \in Int /\ -Watch < count' /\ count' < Watch
    BY MotorAssumption DEF PowerOff
  <2>2. unit' \in BOOLEAN
    BY DEF PowerOff
  <2> QED
    BY <2>1, <2>2 DEF PowerOff, MotorInv, TypeOK, PlantType
<1>2. FieldType'
  BY DEF PowerOff, MotorInv, TypeOK, FieldType
<1>3. TaskType'
  BY DEF PowerOff, MotorInv, TypeOK, TaskType, PCs
<1>4. BootInv' /\ ExitInv' /\ PowerInv'
  BY DEF PowerOff, MotorInv, BootInv, ExitInv, PowerInv, Handed
<1>5. RecordInv' /\ WakeInv'
  BY DEF PowerOff, MotorInv, RecordInv, WakeInv
<1> QED
  BY <1>1, <1>2, <1>3, <1>4, <1>5 DEF MotorInv, TypeOK

LEMMA IdSpinInv == MotorInv /\ IdSpin => MotorInv'
<1> SUFFICES ASSUME MotorInv, IdSpin PROVE MotorInv'
  OBVIOUS
<1> USE DEF plant, memory, locals, aim, report, AppRuns
<1>1. CASE ~inited
  <2>1. speed = 0 /\ boot' = "ends"
    BY <1>1 DEF IdSpin, MotorInv, BootInv
  <2>2. UNCHANGED <<identify, drive, record, pc>>
    BY <1>1 DEF IdSpin
  <2> USE DEF drive, record
  <2>3. PlantType' /\ FieldType'
    BY <2>1, <2>2 DEF IdSpin, MotorInv, TypeOK, PlantType, FieldType
  <2>4. TaskType'
    BY <2>1, <2>2 DEF IdSpin, MotorInv, TypeOK, TaskType, Boots
  <2>5. BootInv' /\ ExitInv' /\ PowerInv'
    BY <1>1, <2>1, <2>2
    DEF IdSpin, MotorInv, BootInv, ExitInv, PowerInv, Handed
  <2>6. RecordInv' /\ WakeInv'
    BY <1>1, <2>1, <2>2 DEF IdSpin, MotorInv, RecordInv, WakeInv
  <2> QED
    BY <2>3, <2>4, <2>5, <2>6 DEF MotorInv, TypeOK
<1>2. CASE inited
  <2>1. speed = 0 /\ powered /\ unit /\ pc = "wait"
    BY <1>2 DEF IdSpin, MotorInv, BootInv, Handed
  <2>2. 1 \in Signs /\ pc \in PCs
    BY <2>1 DEF Signs, PCs
  <2>3. boot' = "spin" /\ identify' = TRUE /\ UpdateSpeed(1, pc)
    BY <1>2, <2>1 DEF IdSpin
  <2>4. driven' = 1 /\ speed' = 1 /\ pc' = pc /\ powered' = TRUE
    BY <2>1, <2>3 DEF UpdateSpeed
  <2>5. PlantType' /\ FieldType'
    BY <2>2, <2>3, UpdateSpeedType
    DEF IdSpin, MotorInv, TypeOK, PlantType, FieldType
  <2>6. TaskType'
    BY <2>2, <2>3, UpdateSpeedType DEF IdSpin, MotorInv, TypeOK, TaskType, Boots
  <2>7. BootInv' /\ ExitInv' /\ PowerInv'
    BY <1>2, <2>1, <2>3, <2>4
    DEF IdSpin, MotorInv, BootInv, ExitInv, PowerInv, Handed
  <2>8. RecordInv' /\ WakeInv'
    BY <1>2, <2>1, <2>2, <2>3, <2>4, UpdateSpeedType
    DEF IdSpin, MotorInv, RecordInv, WakeInv
  <2> QED
    BY <2>5, <2>6, <2>7, <2>8 DEF MotorInv, TypeOK
<1>3. inited \in BOOLEAN
  BY DEF MotorInv, TypeOK, TaskType
<1> QED
  BY <1>1, <1>2, <1>3

LEMMA IdSettleInv == MotorInv /\ IdSettle => MotorInv'
<1> SUFFICES ASSUME MotorInv, IdSettle PROVE MotorInv'
  OBVIOUS
<1> USE DEF plant, memory, settings, locals, aim, report, AppRuns
<1>1. inited /\ powered /\ unit /\ pc = "wait"
  BY DEF IdSettle, MotorInv, BootInv, Handed
<1>2. 0 \in Signs /\ pc \in PCs /\ UpdateSpeed(0, pc) /\ boot' = "settle"
  BY <1>1 DEF Signs, PCs, IdSettle
<1>3. driven' = 0 /\ speed' = 0 /\ pc' = pc /\ powered' = TRUE
  BY <1>1, <1>2 DEF UpdateSpeed
<1>4. PlantType' /\ FieldType'
  BY <1>2, UpdateSpeedType DEF IdSettle, MotorInv, TypeOK, PlantType, FieldType
<1>5. TaskType'
  BY <1>2, UpdateSpeedType DEF IdSettle, MotorInv, TypeOK, TaskType, Boots
<1>6. BootInv' /\ ExitInv' /\ PowerInv'
  BY <1>1, <1>2, <1>3
  DEF IdSettle, MotorInv, BootInv, ExitInv, PowerInv, Handed
<1>7. RecordInv' /\ WakeInv'
  BY <1>1, <1>2, <1>3, UpdateSpeedType
  DEF IdSettle, MotorInv, RecordInv, WakeInv
<1> QED
  BY <1>4, <1>5, <1>6, <1>7 DEF MotorInv, TypeOK

LEMMA IdWakeInv == MotorInv /\ IdWake => MotorInv'
<1> SUFFICES ASSUME MotorInv, IdWake PROVE MotorInv'
  OBVIOUS
<1> USE DEF plant, memory, locals, drive, record, aim, report, AppRuns
<1>1. queue' \in Seq(Events) /\ Len(queue') <= QueueLen /\ queue' # <<>>
  <2>1. queue \in Seq(Events) /\ 0 \in Events /\ Len(queue) <= QueueLen
    BY DEF MotorInv, TypeOK, PlantType, Events
  <2> QED
    BY <2>1, QueueAppend, QueueFull DEF IdWake
<1>2. PlantType' /\ FieldType'
  BY <1>1 DEF IdWake, MotorInv, TypeOK, PlantType, FieldType, Events
<1>3. TaskType'
  BY DEF IdWake, MotorInv, TypeOK, TaskType, Boots
<1>4. BootInv' /\ ExitInv' /\ PowerInv'
  BY <1>1 DEF IdWake, MotorInv, BootInv, ExitInv, PowerInv, Handed
<1>5. RecordInv' /\ WakeInv'
  BY <1>1 DEF IdWake, MotorInv, RecordInv, WakeInv
<1> QED
  BY <1>2, <1>3, <1>4, <1>5 DEF MotorInv, TypeOK

LEMMA LoadEndsInv == MotorInv /\ LoadEnds => MotorInv'
<1> SUFFICES ASSUME MotorInv, LoadEnds PROVE MotorInv'
  OBVIOUS
<1> USE DEF plant, memory, locals, drive, record, aim, report, AppRuns
<1>1. min' \in Pos /\ max' \in Pos
  BY MotorAssumption DEF LoadEnds
<1>2. PlantType' /\ FieldType'
  BY <1>1 DEF LoadEnds, MotorInv, TypeOK, PlantType, FieldType
<1>3. TaskType'
  BY DEF LoadEnds, MotorInv, TypeOK, TaskType, Boots
<1>4. BootInv' /\ ExitInv' /\ PowerInv'
  BY DEF LoadEnds, MotorInv, BootInv, ExitInv, PowerInv, Handed
<1>5. RecordInv' /\ WakeInv'
  BY DEF LoadEnds, MotorInv, RecordInv, WakeInv
<1> QED
  BY <1>2, <1>3, <1>4, <1>5 DEF MotorInv, TypeOK

LEMMA MoveCallbackInv == MotorInv /\ MoveCallback => MotorInv'
<1> SUFFICES ASSUME MotorInv, MoveCallback PROVE MotorInv'
  OBVIOUS
<1> USE DEF plant, memory, locals, drive, record, aim, AppRuns
<1>1. Now \in Report
  BY DEF Now, Report, MotorInv, TypeOK, FieldType
<1>2. PlantType' /\ FieldType'
  BY <1>1 DEF MoveCallback, MotorInv, TypeOK, PlantType, FieldType
<1>3. TaskType'
  BY DEF MoveCallback, MotorInv, TypeOK, TaskType, Boots
<1>4. BootInv' /\ ExitInv' /\ PowerInv'
  BY DEF MoveCallback, MotorInv, BootInv, ExitInv, PowerInv, Handed
<1>5. RecordInv' /\ WakeInv'
  BY DEF MoveCallback, Now, MotorInv, RecordInv, WakeInv
<1> QED
  BY <1>2, <1>3, <1>4, <1>5 DEF MotorInv, TypeOK

LEMMA AppTellInv == MotorInv /\ AppTell => MotorInv'
<1> SUFFICES ASSUME MotorInv, AppTell PROVE MotorInv'
  OBVIOUS
<1> USE DEF plant, memory, settings, locals, drive, record, aim, AppRuns
<1>1. [at |-> StartPos, moves |-> 0] \in Report
  BY MotorAssumption DEF Report
<1>2. PlantType' /\ FieldType'
  BY <1>1 DEF AppTell, MotorInv, TypeOK, PlantType, FieldType
<1>3. TaskType'
  BY DEF AppTell, MotorInv, TypeOK, TaskType, Boots
<1>4. BootInv' /\ ExitInv' /\ PowerInv'
  BY DEF AppTell, MotorInv, BootInv, ExitInv, PowerInv, Handed
<1>5. RecordInv' /\ WakeInv'
  BY DEF AppTell, MotorInv, RecordInv, WakeInv
<1> QED
  BY <1>2, <1>3, <1>4, <1>5 DEF MotorInv, TypeOK

-----------------------------------------------------------------------------
(* The operations of the Zigbee handlers touch few variables; one lemma says *)
(* what those must satisfy.                                                  *)

LEMMA HandlerInv ==
    ASSUME MotorInv, ZigbeeRuns, Handled,
           target' \in Pos, min' \in Pos, max' \in Pos,
           setup' \in BOOLEAN, fresh' \in BOOLEAN,
           reported' \in Report, late' \in BOOLEAN, seen' = seen,
           queue' \in Seq(Events), Len(queue') <= QueueLen,
           queue' = queue \/ (inited /\ queue' # <<>>),
           fresh' /\ inited => fresh \/ queue' # <<>>,
           boot = "done" /\ pc # "report" => late' \/ reported'.at = exact,
           boot = "tell" /\ late => late'
    PROVE  MotorInv'
<1> USE DEF plant, memory, locals, drive, record
<1>1. PlantType' /\ FieldType'
  BY DEF Handled, MotorInv, TypeOK, PlantType, FieldType, Events
<1>2. TaskType'
  BY DEF Handled, MotorInv, TypeOK, TaskType
<1>3. BootInv' /\ ExitInv'
  BY DEF Handled, ZigbeeRuns, MotorInv, BootInv, ExitInv, Handed
<1>4. PowerInv'
  BY DEF Handled, ZigbeeRuns, MotorInv, BootInv, PowerInv, Handed
<1>5. RecordInv' /\ WakeInv'
  BY DEF Handled, MotorInv, RecordInv, WakeInv
<1> QED
  BY <1>1, <1>2, <1>3, <1>4, <1>5 DEF MotorInv, TypeOK

LEMMA UpdateTargetInv ==
    ASSUME MotorInv, ZigbeeRuns, NEW p \in Pos, UpdateTarget(p)
    PROVE  MotorInv'
<1>1. /\ queue \in Seq(Events) /\ Len(queue) <= QueueLen /\ 0 \in Events
      /\ min \in Pos /\ max \in Pos /\ setup \in BOOLEAN
      /\ reported \in Report /\ late \in BOOLEAN /\ inited \in BOOLEAN
  BY DEF MotorInv, TypeOK, PlantType, FieldType, TaskType, Events
<1>2. /\ queue' \in Seq(Events) /\ Len(queue') <= QueueLen
      /\ queue' = queue \/ (inited /\ queue' # <<>>)
      /\ inited => queue' # <<>>
  <2>1. CASE inited /\ Len(queue) < QueueLen
    BY <1>1, <2>1, QueueAppend DEF UpdateTarget
  <2>2. CASE ~(inited /\ Len(queue) < QueueLen)
    <3>1. queue' = queue
      BY <2>2 DEF UpdateTarget
    <3>2. inited => queue # <<>>
      BY <1>1, <2>2, QueueFull
    <3> QED
      BY <1>1, <3>1, <3>2
  <2> QED
    BY <2>1, <2>2
<1>3. boot = "done" /\ pc # "report" => late \/ reported.at = exact
  BY DEF MotorInv, RecordInv
<1>4. /\ target' = p /\ fresh' = TRUE /\ Handled
      /\ min' = min /\ max' = max /\ setup' = setup
      /\ reported' = reported /\ seen' = seen /\ late' = late
  BY DEF UpdateTarget, report
<1> QED
  BY <1>1, <1>2, <1>3, <1>4, HandlerInv

LEMMA GoPercentInv ==
    ASSUME MotorInv, NEW p \in Nat, GoPercent(p)
    PROVE  MotorInv'
<1>1. PICK o \in PercentOffsets(p) : UpdateTarget(Wrap(min + o))
  BY DEF GoPercent
<1>2. min \in Int /\ max \in Int
  BY MotorAssumption DEF MotorInv, TypeOK, FieldType, Pos
<1>3. Wrap(max - min) \in Int
  BY <1>2, MotorAssumption, SMT DEF Wrap
<1>4. o \in Int
  <2>1. CASE p = 100 /\ Wrap(max - min) = PosMod - 1
    BY <2>1, MotorAssumption DEF PercentOffsets
  <2>2. CASE ~(p = 100 /\ Wrap(max - min) = PosMod - 1)
    <3> DEFINE prod == p * Wrap(max - min)
    <3>1. prod \in Int
      BY <1>3
    <3>2. o \in {prod \div 100 - 1, prod \div 100}
      BY <2>2 DEF PercentOffsets
    <3> HIDE DEF prod
    <3> QED
      BY <3>1, <3>2
  <2> QED
    BY <2>1, <2>2
<1>5. Wrap(min + o) \in Pos
  BY <1>2, <1>4, WrapInPos
<1> QED
  BY <1>1, <1>5, UpdateTargetInv DEF GoPercent

LEMMA CommandInv == MotorInv /\ Command => MotorInv'
<1> SUFFICES ASSUME MotorInv, Command PROVE MotorInv'
  OBVIOUS
<1>1. /\ queue \in Seq(Events) /\ Len(queue) <= QueueLen
      /\ min \in Pos /\ max \in Pos /\ setup \in BOOLEAN
      /\ exact \in Pos /\ target \in Pos /\ fresh \in BOOLEAN
      /\ reported \in Report /\ late \in BOOLEAN /\ Now \in Report
  BY DEF MotorInv, TypeOK, PlantType, FieldType, TaskType, Events, Now, Report
<1>2. boot = "done" /\ pc # "report" => late \/ reported.at = exact
  BY DEF MotorInv, RecordInv
<1>3. ASSUME NEW up \in BOOLEAN, GoDirection(up) PROVE MotorInv'
  <2>1. CASE setup
    <3>1. 0 \in Pos /\ PosMod - 1 \in Pos
      BY MotorAssumption DEF Pos
    <3> QED
      BY <1>3, <2>1, <3>1, UpdateTargetInv DEF GoDirection
  <2>2. CASE ~setup
    BY <1>3, <2>2, GoPercentInv DEF GoDirection
  <2> QED
    BY <2>1, <2>2
<1>4. ASSUME NEW p \in Targets, GoPosition(p) PROVE MotorInv'
  <2>1. p \in Pos
    BY MotorAssumption
  <2> QED
    BY <1>4, <2>1, UpdateTargetInv DEF GoPosition
<1>5. ASSUME NEW p \in Percents, GoPercent(p) PROVE MotorInv'
  BY <1>5, MotorAssumption, GoPercentInv
<1>6. ASSUME NEW d \in Nudges, Nudge(d) PROVE MotorInv'
  <2>1. exact + d \in Int
    BY <1>1, MotorAssumption DEF Pos
  <2>2. Wrap(exact + d) \in Pos
    BY <2>1, WrapInPos
  <2> QED
    BY <1>6, <2>2, UpdateTargetInv DEF Nudge
<1>7. CASE Stop
  BY <1>1, <1>2, <1>7, HandlerInv DEF Stop, report
<1>8. ASSUME NEW on \in BOOLEAN, SetSetup(on) PROVE MotorInv'
  BY <1>1, <1>2, <1>8, HandlerInv DEF SetSetup, aim, report
<1>9. CASE SetMin
  BY <1>1, <1>2, <1>9, HandlerInv DEF SetMin, aim, report
<1>10. CASE SetMax
  BY <1>1, <1>2, <1>10, HandlerInv DEF SetMax, aim, report
<1>11. CASE SetOffset
  <2>1. /\ reported' \in Report /\ late' \in BOOLEAN /\ seen' = seen
        /\ boot = "done" /\ pc # "report" => late' \/ reported'.at = exact
        /\ boot = "tell" /\ late => late'
    <3>1. Now.at = exact
      BY DEF Now
    <3>2. CASE onMove
      BY <1>1, <1>11, <3>1, <3>2 DEF SetOffset
    <3>3. CASE ~onMove
      BY <1>1, <1>2, <1>11, <3>3 DEF SetOffset
    <3> QED
      BY <3>2, <3>3
  <2> QED
    BY <1>1, <1>11, <2>1, HandlerInv DEF SetOffset, aim, report
<1> QED
  BY <1>3, <1>4, <1>5, <1>6, <1>7, <1>8, <1>9, <1>10, <1>11 DEF Command

-----------------------------------------------------------------------------
(* Every edge is accounted for.  The position is a remainder, so the sum is  *)
(* taken modulo PosMod; what the queue holds is a difference of two counts,  *)
(* which an append and a take change by the entry.                           *)

\* Wrapping takes whole turns off.
LEMMA WrapTurns ==
    ASSUME NEW x \in Int
    PROVE  /\ Wrap(x) \in 0 .. PosMod - 1
           /\ \E k \in Int : x = PosMod * k + Wrap(x)
<1>1. x \div PosMod \in Int /\ Wrap(x) \in 0 .. PosMod - 1
  BY MotorAssumption DEF Wrap
<1>2. x = PosMod * (x \div PosMod) + Wrap(x)
  BY MotorAssumption DEF Wrap
<1> QED
  BY <1>1, <1>2

\* Two positions that differ by whole turns are the same.
LEMMA SameRest ==
    ASSUME NEW a \in 0 .. PosMod - 1, NEW b \in 0 .. PosMod - 1,
           NEW j \in Int, a - b = PosMod * j
    PROVE  a = b
<1>1. a - b < PosMod /\ a - b > -PosMod /\ a \in Int /\ b \in Int
  BY MotorAssumption
<1>2. CASE j >= 1
  <2>1. PosMod * j >= PosMod
    BY MotorAssumption, <1>2
  <2> QED BY <2>1, <1>1, MotorAssumption
<1>3. CASE j <= -1
  <2>1. PosMod * j <= -PosMod
    BY MotorAssumption, <1>3
  <2> QED BY <2>1, <1>1, MotorAssumption
<1>4. CASE j = 0
  <2>1. PosMod * j = 0
    BY MotorAssumption, <1>4
  <2> QED BY <2>1, <1>1
<1> QED BY <1>2, <1>3, <1>4

\* Whole turns make no difference.
LEMMA WrapShift ==
    ASSUME NEW x \in Int, NEW k \in Int
    PROVE  Wrap(x + PosMod * k) = Wrap(x)
<1> DEFINE y == x + PosMod * k
<1>1. y \in Int /\ PosMod * k \in Int /\ PosMod \in Int
  BY MotorAssumption
<1> HIDE DEF y
<1>2. PICK i \in Int : x = PosMod * i + Wrap(x)
  BY WrapTurns
<1>3. PICK j \in Int : y = PosMod * j + Wrap(y)
  BY <1>1, WrapTurns
<1>4. Wrap(x) \in 0 .. PosMod - 1 /\ Wrap(y) \in 0 .. PosMod - 1
  BY <1>1, WrapTurns
<1>5. Wrap(x) - Wrap(y) = PosMod * (j - i - k)
  <2>1. PosMod * (j - i - k) = PosMod * j - PosMod * i - PosMod * k
    BY <1>1
  <2>2. x + PosMod * k = PosMod * j + Wrap(y)
    BY <1>3 DEF y
  <2> DEFINE u == PosMod * j  v == PosMod * i  w == PosMod * k
             r == Wrap(x)  s == Wrap(y)
  <2>3. /\ u \in Int /\ v \in Int /\ w \in Int /\ r \in Int /\ s \in Int
        /\ x = v + r /\ x + w = u + s
    BY <1>1, <1>2, <1>4, <2>2
  <2> HIDE DEF u, v, w, r, s
  <2>4. r - s = u - v - w
    BY <2>3
  <2> QED
    BY <2>1, <2>4 DEF u, v, w, r, s
<1>6. j - i - k \in Int
  OBVIOUS
<1> QED
  BY <1>4, <1>5, <1>6, SameRest DEF y

\* Wrapping a part first makes no difference.
LEMMA WrapPart ==
    ASSUME NEW x \in Int, NEW y \in Int
    PROVE  Wrap(Wrap(x) + y) = Wrap(x + y)
<1>1. PICK k \in Int : x = PosMod * k + Wrap(x)
  BY WrapTurns
<1>2. Wrap(x) \in Int
  BY WrapTurns
<1>3. PosMod * k \in Int
  BY MotorAssumption
<1>4. x + y = (Wrap(x) + y) + PosMod * k
  <2>1. ASSUME NEW w \in Int, NEW r \in Int, x = w + r PROVE x + y = (r + y) + w
    BY <2>1
  <2> QED
    BY <1>1, <1>2, <1>3, <2>1
<1>5. Wrap((Wrap(x) + y) + PosMod * k) = Wrap(Wrap(x) + y)
  BY <1>2, WrapShift
<1> QED
  BY <1>4, <1>5

\* A value stands in finitely many places of a sequence.
LEMMA PlacesFinite ==
    ASSUME NEW S, NEW q \in Seq(S), NEW e
    PROVE  IsFiniteSet(Places(q, e)) /\ Cardinality(Places(q, e)) \in Nat
<1>1. DOMAIN q = 1 .. Len(q) /\ Len(q) \in Nat
  BY LenProperties
<1>2. IsFiniteSet(DOMAIN q)
  BY <1>1, FS_Interval
<1>3. IsFiniteSet(Places(q, e))
  BY <1>2, FS_Subset DEF Places
<1> QED
  BY <1>3, FS_CardinalityType

\* An appended entry takes one more place.
LEMMA PlacesAppend ==
    ASSUME NEW S, NEW q \in Seq(S), NEW x \in S, NEW e
    PROVE  Cardinality(Places(Append(q, x), e)) =
             Cardinality(Places(q, e)) + (IF x = e THEN 1 ELSE 0)
<1>1. DOMAIN q = 1 .. Len(q) /\ Len(q) \in Nat
  BY LenProperties
<1>2. /\ DOMAIN Append(q, x) = 1 .. Len(q) + 1
      /\ \A i \in 1 .. Len(q) : Append(q, x)[i] = q[i]
      /\ Append(q, x)[Len(q) + 1] = x
  <2>1. Append(q, x) \in Seq(S) /\ Len(Append(q, x)) = Len(q) + 1
    BY AppendProperties
  <2>2. DOMAIN Append(q, x) = 1 .. Len(Append(q, x))
    BY <2>1, LenProperties
  <2> QED
    BY <2>1, <2>2, AppendProperties
<1>3. Places(Append(q, x), e) = IF x = e THEN Places(q, e) \cup {Len(q) + 1} ELSE Places(q, e)
  BY <1>1, <1>2 DEF Places
<1>4. Len(q) + 1 \notin Places(q, e)
  BY <1>1 DEF Places
<1>5. IsFiniteSet(Places(q, e)) /\ Cardinality(Places(q, e)) \in Nat
  BY PlacesFinite
<1>6. CASE x = e
  BY <1>3, <1>4, <1>5, <1>6, FS_AddElement
<1>7. CASE x # e
  BY <1>3, <1>5, <1>7
<1> QED
  BY <1>6, <1>7

\* The places of the tail are those of the sequence, one down, less the head's.
LEMMA PlacesTail ==
    ASSUME NEW S, NEW q \in Seq(S), q # <<>>, NEW e
    PROVE  Cardinality(Places(q, e)) =
             Cardinality(Places(Tail(q), e)) + (IF Head(q) = e THEN 1 ELSE 0)
<1>1. DOMAIN q = 1 .. Len(q) /\ Len(q) \in Nat /\ Len(q) # 0 /\ Head(q) = q[1]
  BY LenProperties, HeadTailProperties, EmptySeq
<1>2. /\ Tail(q) \in Seq(S) /\ DOMAIN Tail(q) = 1 .. Len(q) - 1
      /\ \A i \in 1 .. Len(q) - 1 : Tail(q)[i] = q[i + 1]
  <2>1. Tail(q) \in Seq(S) /\ Len(Tail(q)) = Len(q) - 1
    BY HeadTailProperties
  <2>2. DOMAIN Tail(q) = 1 .. Len(Tail(q))
    BY <2>1, LenProperties
  <2> QED
    BY <2>1, <2>2, HeadTailProperties
<1> DEFINE T == Places(Tail(q), e)
           R == Places(q, e) \ {1}
           Shift == [i \in T |-> i + 1]
<1>3. Shift \in Bijection(T, R)
  <2>1. Shift \in [T -> R]
    BY <1>1, <1>2 DEF Places
  <2>2. \A a, b \in T : Shift[a] = Shift[b] => a = b
    BY <1>1, <1>2 DEF Places
  <2>3. ASSUME NEW t \in R PROVE \E s \in T : Shift[s] = t
    <3>1. t \in 2 .. Len(q) /\ q[t] = e
      BY <1>1 DEF Places
    <3>2. t - 1 \in T
      BY <1>1, <1>2, <3>1 DEF Places
    <3> QED
      BY <3>1, <3>2
  <2> HIDE DEF Shift, T, R
  <2> QED
    BY <2>1, <2>2, <2>3, Fun_IsBij
<1>4. IsFiniteSet(T) /\ Cardinality(T) \in Nat
  BY <1>2, PlacesFinite
<1>5. Cardinality(R) = Cardinality(T)
  BY <1>3, <1>4, FS_Bijection DEF ExistsBijection
<1>6. 1 \in Places(q, e) <=> Head(q) = e
  BY <1>1 DEF Places
<1>7. IsFiniteSet(Places(q, e)) /\ Cardinality(Places(q, e)) \in Nat
  BY PlacesFinite
<1>8. Cardinality(R) = IF Head(q) = e THEN Cardinality(Places(q, e)) - 1 ELSE Cardinality(Places(q, e))
  BY <1>6, <1>7, FS_RemoveElement
<1> QED
  BY <1>4, <1>5, <1>7, <1>8

LEMMA QueuedAppend ==
    ASSUME NEW q \in Seq(Events), NEW x \in Events
    PROVE  /\ Queued(q) \in Int
           /\ Queued(Append(q, x)) = Queued(q) + x
<1> DEFINE up == Cardinality(Places(q, Watch))
           down == Cardinality(Places(q, -Watch))
<1>1. up \in Nat /\ down \in Nat
  BY PlacesFinite
<1>2. /\ Cardinality(Places(Append(q, x), Watch)) = up + (IF x = Watch THEN 1 ELSE 0)
      /\ Cardinality(Places(Append(q, x), -Watch)) = down + (IF x = -Watch THEN 1 ELSE 0)
  BY PlacesAppend
<1> HIDE DEF up, down
<1>3. Queued(q) = Watch * (up - down)
  BY DEF Queued, up, down
<1>4. CASE x = Watch
  <2>1. Queued(Append(q, x)) = Watch * ((up - down) + 1)
    BY <1>1, <1>2, <1>4, MotorAssumption DEF Queued
  <2>2. Watch * ((up - down) + 1) = Watch * (up - down) + Watch
    BY <1>1, MotorAssumption
  <2> QED
    BY <1>1, <1>3, <1>4, <2>1, <2>2, MotorAssumption
<1>5. CASE x = -Watch
  <2>1. Queued(Append(q, x)) = Watch * ((up - down) - 1)
    BY <1>1, <1>2, <1>5, MotorAssumption DEF Queued
  <2>2. Watch * ((up - down) - 1) = Watch * (up - down) - Watch
    BY <1>1, MotorAssumption
  <2> QED
    BY <1>1, <1>3, <1>5, <2>1, <2>2, MotorAssumption
<1>6. CASE x = 0
  BY <1>1, <1>2, <1>3, <1>6, MotorAssumption DEF Queued
<1> QED
  BY <1>4, <1>5, <1>6 DEF Events

LEMMA QueuedTail ==
    ASSUME NEW q \in Seq(Events), q # <<>>
    PROVE  /\ Queued(Tail(q)) \in Int
           /\ Queued(q) = Queued(Tail(q)) + Head(q)
<1> DEFINE h == Head(q)
           up == Cardinality(Places(Tail(q), Watch))
           down == Cardinality(Places(Tail(q), -Watch))
<1>1. h \in Events /\ Tail(q) \in Seq(Events)
  BY HeadTailProperties
<1>2. up \in Nat /\ down \in Nat
  BY <1>1, PlacesFinite
<1>3. /\ Cardinality(Places(q, Watch)) = up + (IF h = Watch THEN 1 ELSE 0)
      /\ Cardinality(Places(q, -Watch)) = down + (IF h = -Watch THEN 1 ELSE 0)
  BY PlacesTail
<1> HIDE DEF up, down, h
<1>4. Queued(Tail(q)) = Watch * (up - down)
  BY DEF Queued, up, down
<1>5. Queued(q) = Queued(Tail(q)) + h
  <2>1. CASE h = Watch
    <3>1. Queued(q) = Watch * ((up - down) + 1)
      BY <1>2, <1>3, <2>1, MotorAssumption DEF Queued
    <3>2. Watch * ((up - down) + 1) = Watch * (up - down) + Watch
      BY <1>2, MotorAssumption
    <3> QED
      BY <1>2, <1>4, <2>1, <3>1, <3>2, MotorAssumption
  <2>2. CASE h = -Watch
    <3>1. Queued(q) = Watch * ((up - down) - 1)
      BY <1>2, <1>3, <2>2, MotorAssumption DEF Queued
    <3>2. Watch * ((up - down) - 1) = Watch * (up - down) - Watch
      BY <1>2, MotorAssumption
    <3> QED
      BY <1>2, <1>4, <2>2, <3>1, <3>2, MotorAssumption
  <2>3. CASE h = 0
    BY <1>2, <1>3, <1>4, <2>3, MotorAssumption DEF Queued
  <2> QED
    BY <1>1, <2>1, <2>2, <2>3 DEF Events
<1> QED
  BY <1>2, <1>4, <1>5, MotorAssumption DEF h

\* The position moves by what leaves the counter, the interrupt and the queue.
LEMMA ErrMoved ==
    ASSUME NEW p \in Int, NEW h \in Int, NEW o \in Int
    PROVE  Wrap(Wrap(p + h) + (o - h)) = Wrap(p + o)
<1>1. p + h \in Int /\ o - h \in Int /\ (p + h) + (o - h) = p + o
  OBVIOUS
<1> QED
  BY <1>1, WrapPart

\* What is on its way from the encoder to the position.
Pending == count + isr + Queued(queue) - shaft

\* The error is the position and what is pending, wrapped.
ErrSplit ==
    /\ Pending \in Int /\ position \in Int
    /\ Err = Wrap(position + Pending)

LEMMA SplitErr == MotorInv => ErrSplit
<1> SUFFICES ASSUME MotorInv PROVE ErrSplit
  OBVIOUS
<1>1. /\ count \in Int /\ isr \in Int /\ shaft \in Int /\ position \in Int
      /\ queue \in Seq(Events)
  BY MotorAssumption DEF MotorInv, TypeOK, PlantType, FieldType, Events, Pos
<1>2. 0 \in Events
  BY DEF Events
<1>3. Queued(queue) \in Int
  BY <1>1, <1>2, QueuedAppend
<1>4. position + count + isr + Queued(queue) - shaft = position + Pending
  BY <1>1, <1>3 DEF Pending
<1> QED
  BY <1>1, <1>3, <1>4 DEF Pending, Err, ErrSplit

-----------------------------------------------------------------------------
(* The theorems *)

LEMMA NextInv == MotorInv /\ [Next]_vars => MotorInv'
<1> SUFFICES ASSUME MotorInv, [Next]_vars PROVE MotorInv'
  OBVIOUS
<1>1. ASSUME NEW d \in {-1, 1}, Edge(d) PROVE MotorInv'
  BY <1>1, EdgeInv
<1>2. CASE PcntCb
  BY <1>2, PcntCbInv
<1>3. CASE PcntFault \/ Restart
  BY <1>3, RestartInv DEF PcntFault
<1>4. CASE MotorStep
  BY <1>4, ReceiveInv, SampleInv, TellInv, DiffInv, RampInv, WarmInv, PollInv, HaltInv,
     SaveInv, PowerOffInv
  DEF MotorStep
<1>5. CASE AppStep
  BY <1>5, IdSpinInv, IdSettleInv, IdWakeInv, LoadEndsInv, MoveCallbackInv,
     AppTellInv
  DEF AppStep
<1>6. CASE Command
  BY <1>6, CommandInv
<1>7. CASE UNCHANGED vars
  <2> USE DEF vars, plant, memory, settings, locals, drive, record, aim, report
  <2>1. PlantType' /\ FieldType'
    BY <1>7 DEF MotorInv, TypeOK, PlantType, FieldType
  <2>2. TaskType'
    BY <1>7 DEF MotorInv, TypeOK, TaskType
  <2>3. BootInv' /\ ExitInv' /\ PowerInv'
    BY <1>7 DEF MotorInv, BootInv, ExitInv, PowerInv, Handed
  <2>4. RecordInv' /\ WakeInv'
    BY <1>7 DEF MotorInv, RecordInv, WakeInv
  <2> QED
    BY <2>1, <2>2, <2>3, <2>4 DEF MotorInv, TypeOK
<1> QED
  BY <1>1, <1>2, <1>3, <1>4, <1>5, <1>6, <1>7 DEF Next

\* Every reachable state satisfies the inductive invariant: types, the bound on
\* the speed, and how task, counter, flash and queue hang together, through
\* every interleaving of the three tasks, the interrupt and restarts.
THEOREM MotorInvariant == Spec => []MotorInv
<1> QED
  BY InitInv, NextInv, PTL DEF Spec

\* The motor is never driven while its encoder does not count.
THEOREM DriveSafety == Spec => []EncoderBeforeDrive
<1>1. MotorInv => EncoderBeforeDrive
  BY DEF MotorInv, PowerInv, EncoderBeforeDrive
<1> QED
  BY <1>1, MotorInvariant, PTL

\* Nothing is left on when the task sleeps, whatever order commands, edges and
\* watch events came in.
THEOREM RestSafety == Spec => []RestIsOff
<1>1. MotorInv => RestIsOff
  BY DEF MotorInv, TypeOK, TaskType, FieldType, PlantType, BootInv, PowerInv,
         RestIsOff, Asleep
<1> QED
  BY <1>1, MotorInvariant, PTL

\* While the task waits, a restart would find the position and the actuations
\* the memory holds, but for a put that failed, and the network has been told
\* that position, unless app_main's report overtook the motor task's.
THEOREM RestAgreement == Spec => []AtRestAgreed
<1>1. MotorInv => AtRestAgreed
  BY DEF MotorInv, BootInv, RecordInv, AtRestAgreed
<1> QED
  BY <1>1, MotorInvariant, PTL

\* A sleeping task overlooks a target only by way of a stall.
THEOREM WakeSafety == Spec => []WakeKept
<1>1. MotorInv => WakeKept
  BY DEF MotorInv, TypeOK, TaskType, Exits, BootInv, ExitInv, WakeInv, WakeKept,
         Asleep
<1> QED
  BY <1>1, MotorInvariant, PTL

-----------------------------------------------------------------------------
(* The published actuations *)

\* The task is between a report and the ramp, or left the loop by an arrival.
MovesDue == pc \in {"diff", "ramp"} \/ (pc # "none" /\ exit = "arrived")

\* Then they are up to date, or what app_main is about to publish is.
MovesInv ==
    MovesDue =>
        /\ boot = "done" => late \/ reported.moves = actuations
        /\ boot = "tell" => late \/ seen.moves = actuations

LEMMA TaskMoves == MotorInv /\ MovesInv /\ MotorStep => MovesInv'
<1> SUFFICES ASSUME MotorInv, MovesInv, MotorStep PROVE MovesInv'
  OBVIOUS
<1> USE DEF settings, record, report, Runs
<1>0. /\ pc \in {"sample", "report", "diff", "ramp", "delay"} => exit = "none"
      /\ onMove <=> boot \in {"tell", "done"}
      /\ onMove \in BOOLEAN
  BY DEF MotorInv, ExitInv, RecordInv, TypeOK, FieldType
<1>a. ASSUME ~MovesDue' PROVE MovesInv'
  BY <1>a DEF MovesInv
<1>b. ASSUME UNCHANGED <<boot, report, actuations>>, MovesDue' => MovesDue
      PROVE  MovesInv'
  BY <1>b DEF MovesInv
<1>1. CASE Receive
  <2>1. identify => boot \in {"spin", "settle"}
    BY DEF MotorInv, BootInv
  <2>2. CASE identify
    BY <1>1, <2>1, <2>2 DEF Receive, MovesInv
  <2>3. CASE ~identify
    BY <1>1, <1>a, <2>3 DEF Receive, MovesDue
  <2> QED
    BY <2>2, <2>3
<1>2. CASE Sample
  <2>1. CASE onMove
    BY <1>0, <1>2, <1>a, <2>1 DEF Sample, MovesDue
  <2>2. CASE ~onMove
    BY <1>0, <1>2, <2>2 DEF Sample, MovesInv
  <2> QED
    BY <2>1, <2>2
<1>3. CASE Tell
  BY <1>3 DEF Tell, Now, MovesInv
<1>4. CASE Diff
  BY <1>4, <1>b DEF Diff, MovesDue
<1>5. CASE Ramp
  <2>1. exit' = "none" /\ pc' \in {"delay", "warm"}
    BY <1>0, <1>5 DEF Ramp, UpdateSpeed, locals
  <2> QED
    BY <1>a, <2>1 DEF MovesDue
<1>6. CASE Warm
  <2>1. UNCHANGED <<boot, exit, report, actuations>> /\ pc = "warm"
        /\ pc' \in {"delay", "save"}
    BY <1>6 DEF Warm, locals
  <2> QED
    BY <1>b, <2>1 DEF MovesDue
<1>7. CASE Poll
  <2>1. exit' # "arrived" /\ pc' \in {"sample", "halt"}
    BY <1>0, <1>7 DEF Poll
  <2> QED
    BY <1>a, <2>1 DEF MovesDue
<1>8. CASE Halt
  <2>1. UNCHANGED <<boot, exit, report, actuations>> /\ pc = "halt"
        /\ pc' \in {"warm", "save"}
    BY <1>8 DEF Halt, UpdateSpeed, locals
  <2> QED
    BY <1>b, <2>1 DEF MovesDue
<1>9. CASE Save \/ PowerOff
  <2>1. UNCHANGED <<boot, exit, report, actuations>> /\ pc \in {"save", "off"}
        /\ pc' \in {"off", "wait"}
    BY <1>9 DEF Save, PowerOff, locals
  <2> QED
    BY <1>b, <2>1 DEF MovesDue
<1> QED
  BY <1>1, <1>2, <1>3, <1>4, <1>5, <1>6, <1>7, <1>8, <1>9 DEF MotorStep

\* Every operation of the handlers keeps to Handled.
LEMMA CommandHandled == Command => Handled
<1> SUFFICES ASSUME Command PROVE Handled
  OBVIOUS
<1>1. ASSUME NEW p, UpdateTarget(p) PROVE Handled
  BY <1>1 DEF UpdateTarget
<1>2. ASSUME NEW p, GoPercent(p) PROVE Handled
  BY <1>1, <1>2 DEF GoPercent
<1>3. ASSUME NEW up, GoDirection(up) PROVE Handled
  BY <1>1, <1>2, <1>3 DEF GoDirection
<1> QED
  BY <1>1, <1>2, <1>3
  DEF Command, GoPosition, Nudge, Stop, SetSetup, SetMin, SetMax, SetOffset

LEMMA NextMoves == MotorInv /\ MovesInv /\ [Next]_vars => MovesInv'
<1> SUFFICES ASSUME MotorInv, MovesInv, [Next]_vars PROVE MovesInv'
  OBVIOUS
<1>0. onMove <=> boot \in {"tell", "done"}
  BY DEF MotorInv, RecordInv
<1>1. ASSUME UNCHANGED <<boot, pc, exit, actuations, report>> PROVE MovesInv'
  BY <1>1 DEF MovesInv, MovesDue, report
<1>2. ASSUME NEW d \in {-1, 1}, Edge(d) PROVE MovesInv'
  BY <1>1, <1>2 DEF Edge, locals, record
<1>3. CASE PcntCb
  BY <1>1, <1>3 DEF PcntCb, locals, record
<1>4. CASE PcntFault \/ Restart
  BY <1>4 DEF PcntFault, Restart, MovesInv
<1>5. CASE MotorStep
  BY <1>5, TaskMoves
<1>6. CASE AppStep
  <2>1. CASE MoveCallback
    BY <2>1 DEF MoveCallback, Now, record, MovesInv
  <2>2. CASE AppTell
    <3>1. /\ boot = "tell" /\ boot' = "done" /\ reported' = seen
          /\ UNCHANGED <<late, actuations, pc, exit>>
      BY <2>2 DEF AppTell, AppRuns, record, locals
    <3> QED
      BY <3>1 DEF MovesInv, MovesDue
  <2>3. CASE IdSpin \/ IdSettle \/ IdWake \/ LoadEnds
    <3>1. boot' \notin {"tell", "done"}
      BY <2>3 DEF IdSpin, IdSettle, IdWake, LoadEnds
    <3> QED
      BY <3>1 DEF MovesInv
  <2> QED
    BY <1>6, <2>1, <2>2, <2>3 DEF AppStep
<1>7. CASE Command
  <2>1. UNCHANGED <<boot, pc, exit, actuations>>
    BY <1>7, CommandHandled DEF Handled, locals, record
  <2>2. report' = report \/ SetOffset
    <3>1. ASSUME NEW p, UpdateTarget(p) PROVE report' = report
      BY <3>1 DEF UpdateTarget
    <3>2. ASSUME NEW p, GoPercent(p) PROVE report' = report
      BY <3>1, <3>2 DEF GoPercent
    <3>3. ASSUME NEW up, GoDirection(up) PROVE report' = report
      BY <3>1, <3>2, <3>3 DEF GoDirection
    <3> QED
      BY <1>7, <3>1, <3>2, <3>3
      DEF Command, GoPosition, Nudge, Stop, SetSetup, SetMin, SetMax
  <2>3. CASE SetOffset
    <3>1. /\ boot = "done" => reported' = Now /\ late' = FALSE
          /\ late /\ boot = "tell" => late'
          /\ seen' = seen
      BY <1>0, <2>3 DEF SetOffset, report
    <3> QED
      BY <2>1, <3>1 DEF MovesInv, MovesDue, Now
  <2> QED
    BY <1>1, <2>1, <2>2, <2>3
<1>8. CASE UNCHANGED vars
  BY <1>1, <1>8 DEF vars, locals, record
<1> QED
  BY <1>2, <1>3, <1>4, <1>5, <1>6, <1>7, <1>8 DEF Next

\* After an arrival the published number of actuations is that of the memory,
\* whichever way the loop was left and the callback came to be registered,
\* unless app_main's report overtook the motor task's.
THEOREM MovesSafety == Spec => []MovesReported
<1>1. Init => MovesInv
  BY DEF Init, MovesInv
<1>2. MovesInv => MovesReported
  BY DEF MovesInv, MovesDue, MovesReported
<1> QED
  BY <1>1, <1>2, NextMoves, MotorInvariant, PTL DEF Spec

-----------------------------------------------------------------------------
(* Motor implements the promise of Motion: the phase, now and after a step *)

LEMMA PhaseNow ==
    /\ ~inited => Phase = "absent"
    /\ inited /\ ~Handed => Phase = "boot"
    /\ inited /\ Handed /\ pc = "wait" /\ ~unit => Phase = "rest"
    /\ inited /\ Handed /\ ~(pc = "wait" /\ ~unit) => Phase = "use"
BY DEF Phase

LEMMA PhaseNext ==
    /\ ~inited' => Phase' = "absent"
    /\ inited' /\ ~Handed' => Phase' = "boot"
    /\ inited' /\ Handed' /\ pc' = "wait" /\ ~unit' => Phase' = "rest"
    /\ inited' /\ Handed' /\ ~(pc' = "wait" /\ ~unit') => Phase' = "use"
BY DEF Phase

\* A step of the task or a handler that neither starts nor ends a use and
\* leaves the drive, the counter and both positions alone is a stutter.
LEMMA Stutter ==
    ASSUME UNCHANGED <<inited, unit, driven, exact>>, nvs'.position = nvs.position,
           Handed' = Handed, (pc' = "wait") = (pc = "wait"), Refused' = Refused
    PROVE  UNCHANGED Promise!mvars
BY DEF Promise!mvars, Phase

LEMMA InitPromise == Init => Promise!Init
<1> SUFFICES ASSUME Init PROVE Promise!Init
  OBVIOUS
<1>1. /\ driven = 0 /\ exact = StartPos /\ nvs.position = StartPos
      /\ unit = inited /\ inited \in BOOLEAN
  BY DEF Init
<1>2. ~Handed
  BY DEF Init, Handed
<1> QED
  BY <1>1, <1>2, PhaseNow DEF Promise!Init, Refused, Init

-----------------------------------------------------------------------------
(* Steps *)

LEMMA RestartPromise == MotorInv /\ Restart => Promise!Restart
<1> SUFFICES ASSUME MotorInv, Restart PROVE Promise!Restart
  OBVIOUS
<1>1. /\ driven' = 0 /\ unit' = inited' /\ inited' \in BOOLEAN
      /\ exact' = IF inited' THEN nvs.position ELSE StartPos
      /\ nvs' = nvs
  BY DEF Restart
<1>2. ~Handed'
  BY DEF Restart, Handed
<1> QED
  BY <1>1, <1>2, PhaseNext DEF Promise!Restart, Refused, Restart

LEMMA TaskPromise == MotorInv /\ MotorStep => [Promise!Next]_Promise!mvars
<1> SUFFICES ASSUME MotorInv, MotorStep PROVE [Promise!Next]_Promise!mvars
  OBVIOUS
<1> USE DEF plant, memory, settings, drive, record, Runs
<1>1. /\ unit \in BOOLEAN /\ powered \in BOOLEAN /\ inited \in BOOLEAN
      /\ driven \in Signs /\ speed \in Signs /\ exact \in Pos
  BY DEF MotorInv, TypeOK, PlantType, FieldType, TaskType
<1>2. CASE Receive
  <2>1. Handed /\ ~identify /\ inited
    BY <1>2 DEF Receive, MotorInv, BootInv, Handed
  <2>2. /\ pc = "wait" /\ pc' = "sample" /\ driven = 0
        /\ UNCHANGED <<inited, unit, driven, exact, nvs>> /\ Handed'
    BY <1>2, <2>1 DEF Receive, MotorInv, PowerInv, Handed
  <2>3. CASE ~unit
    BY <2>1, <2>2, <2>3, PhaseNow, PhaseNext
    DEF Promise!Next, Promise!Begin, Refused
  <2>4. CASE unit
    <3>1. Refused' = Refused
      BY <2>2, <2>4 DEF MotorInv, RecordInv, Refused
    <3> QED
      BY <2>1, <2>2, <2>4, <3>1, PhaseNow, PhaseNext DEF Promise!mvars
  <2> QED
    BY <1>1, <2>3, <2>4
<1>3. CASE Sample
  <2>1. Handed /\ inited /\ Handed'
    BY <1>3 DEF Sample, MotorInv, BootInv, Handed
  <2>2. /\ pc = "sample" /\ pc' \in {"report", "diff"}
        /\ UNCHANGED <<inited, unit, driven, nvs>>
    BY <1>3 DEF Sample
  <2>3. exact' \in Pos
    BY <1>3, SampleInv DEF MotorInv, TypeOK, FieldType
  <2> QED
    BY <2>1, <2>2, <2>3, PhaseNow, PhaseNext
    DEF Promise!Next, Promise!See, Refused
<1>4. CASE Tell \/ Diff
  BY <1>4, Stutter DEF Tell, Diff, Handed, Refused
<1>5. CASE Poll
  BY <1>5, Stutter DEF Poll, Handed, Refused
<1>a. ASSUME pc \notin {"wait", "off"}, pc' \notin {"wait", "off"}
      PROVE  Refused' = Refused
  BY <1>a DEF Refused
<1>6. ASSUME NEW s \in Signs, NEW next \in PCs \ {"wait", "off"},
             pc \in {"ramp", "halt"}, UpdateSpeed(s, next),
             UNCHANGED <<inited, unit, exact, boot>>
      PROVE  [Promise!Next]_Promise!mvars
  <2>1. Handed /\ inited /\ Handed'
    BY <1>6 DEF MotorInv, BootInv, Handed
  <2>2. nvs'.position = nvs.position
    BY <1>6, UpdateSpeedType
  <2>3. CASE powered
    <3>1. unit /\ driven' = s /\ pc' = next
      BY <1>6, <2>1, <2>3 DEF UpdateSpeed, MotorInv, PowerInv
    <3> QED
      BY <1>6, <1>a, <2>1, <2>2, <3>1, PhaseNow, PhaseNext
      DEF Promise!Next, Promise!Drive, Signs
  <2>4. CASE ~powered
    <3>1. driven' = driven /\ pc' = "warm"
      BY <1>6, <2>4 DEF UpdateSpeed
    <3> QED
      BY <1>6, <1>a, <2>1, <2>2, <3>1, Stutter
  <2> QED
    BY <1>1, <2>3, <2>4
<1>7. CASE Ramp
  <2>1. Sign(localSpeed') \in Signs
    BY <1>7, RampInv, SignType, MotorAssumption DEF MotorInv, TypeOK, TaskType
  <2> QED
    BY <1>6, <1>7, <2>1 DEF Ramp, PCs
<1>8. CASE Halt
  BY <1>6, <1>8 DEF Halt, PCs, Signs
<1>9. CASE Warm
  <2>1. Handed /\ inited /\ Handed' /\ ~unit
    BY <1>9 DEF Warm, MotorInv, BootInv, PowerInv, Handed
  <2>2. /\ pc = "warm" /\ pc' \in {"delay", "save"} /\ unit' = TRUE /\ driven' = speed
        /\ UNCHANGED <<inited, exact, nvs>>
    BY <1>9 DEF Warm
  <2> QED
    BY <1>1, <1>a, <2>1, <2>2, PhaseNow, PhaseNext
    DEF Promise!Next, Promise!PowerUp, Signs
<1>10. CASE Save
  <2>1. Handed /\ inited /\ Handed' /\ driven = 0
    BY <1>10 DEF Save, MotorInv, BootInv, PowerInv, ExitInv, Handed
  <2>2. /\ nvs'.position \in {nvs.position, exact}
        /\ "position" \in unsaved' \/ nvs'.position = exact
    BY <1>10 DEF Save, Put, MotorInv, TypeOK, FieldType
  <2>3. pc = "save" /\ pc' = "off" /\ UNCHANGED <<inited, unit, driven, exact>>
    BY <1>10 DEF Save
  <2>4. Promise!Keep
    BY <2>1, <2>2, <2>3, PhaseNow, PhaseNext DEF Promise!Keep, Refused
  <2> QED
    BY <2>4 DEF Promise!Next
<1>11. CASE PowerOff
  <2>1. /\ Handed /\ inited /\ Handed' /\ driven = 0
        /\ nvs.position = exact \/ "position" \in unsaved
    BY <1>11
    DEF PowerOff, MotorInv, BootInv, PowerInv, ExitInv, RecordInv, Handed
  <2>2. /\ pc = "off" /\ pc' = "wait" /\ unit' = FALSE
        /\ UNCHANGED <<inited, driven, exact, nvs, unsaved>>
    BY <1>11 DEF PowerOff
  <2> QED
    BY <2>1, <2>2, PhaseNow, PhaseNext DEF Promise!Next, Promise!Rest, Refused
<1> QED
  BY <1>2, <1>3, <1>4, <1>5, <1>7, <1>8, <1>9, <1>10, <1>11 DEF MotorStep

LEMMA AppPromise == MotorInv /\ AppStep => [Promise!Next]_Promise!mvars
<1> SUFFICES ASSUME MotorInv, AppStep PROVE [Promise!Next]_Promise!mvars
  OBVIOUS
<1> USE DEF plant, memory, AppRuns
<1>1. inited \in BOOLEAN /\ driven \in Signs
  BY DEF MotorInv, TypeOK, FieldType, TaskType
<1>2. ASSUME NEW s \in {0, 1}, inited, ~Handed, ~Handed', UpdateSpeed(s, pc),
             UNCHANGED <<inited, unit, exact>>
      PROVE  [Promise!Next]_Promise!mvars
  <2>1. pc \in PCs /\ s \in Signs
    BY DEF MotorInv, TypeOK, TaskType, Signs
  <2>2. nvs'.position = nvs.position /\ ("position" \in unsaved' <=> "position" \in unsaved)
    BY <1>2, <2>1, UpdateSpeedType
  <2>3. driven' = s /\ pc' = pc
    BY <1>2 DEF UpdateSpeed, MotorInv, BootInv
  <2>4. Refused' = Refused
    BY <2>2, <2>3 DEF Refused
  <2> QED
    BY <1>2, <2>2, <2>3, <2>4, PhaseNow, PhaseNext
    DEF Promise!Next, Promise!Identify
<1>3. CASE IdSpin
  <2>1. CASE inited
    <3>1. speed = 0
      BY <1>3 DEF IdSpin, MotorInv, BootInv
    <3>2. ~Handed /\ ~Handed' /\ UpdateSpeed(1, pc)
      BY <1>3, <2>1, <3>1 DEF IdSpin, Handed
    <3> QED
      BY <1>2, <1>3, <2>1, <3>2 DEF IdSpin
  <2>2. CASE ~inited
    <3>1. UNCHANGED <<inited, unit, driven, exact, nvs, unsaved, pc>>
      BY <1>3, <2>2 DEF IdSpin, MotorInv, BootInv, drive, record
    <3> QED
      BY <2>2, <3>1, PhaseNow, PhaseNext DEF Promise!mvars, Refused
  <2> QED
    BY <1>1, <2>1, <2>2
<1>4. CASE IdSettle
  <2>1. inited /\ ~Handed /\ ~Handed' /\ UpdateSpeed(0, pc)
    BY <1>4 DEF IdSettle, MotorInv, BootInv, Handed
  <2> QED
    BY <1>2, <1>4, <2>1 DEF IdSettle, settings
<1>5. CASE IdWake
  <2>1. /\ inited /\ ~Handed /\ Handed' /\ unit /\ driven = 0
        /\ pc = "wait"
    BY <1>5 DEF IdWake, MotorInv, BootInv, PowerInv, Handed
  <2>2. UNCHANGED <<inited, unit, driven, exact, nvs, unsaved, pc>>
    BY <1>5 DEF IdWake, drive, record
  <2>3. ~Refused'
    BY <2>1, <2>2 DEF MotorInv, RecordInv, Refused
  <2> QED
    BY <2>1, <2>2, <2>3, PhaseNow, PhaseNext DEF Promise!Next, Promise!Begin
<1>6. CASE LoadEnds
  BY <1>6, Stutter DEF LoadEnds, Handed, drive, record, Refused
<1>7. CASE MoveCallback
  BY <1>7, Stutter DEF MoveCallback, Handed, drive, record, Refused
<1>8. CASE AppTell
  BY <1>8, Stutter DEF AppTell, Handed, settings, drive, record, Refused
<1> QED
  BY <1>3, <1>4, <1>5, <1>6, <1>7, <1>8 DEF AppStep

LEMMA StepPromise ==
    MotorInv /\ [Next]_vars => [Promise!Next]_Promise!mvars
<1> SUFFICES ASSUME MotorInv, [Next]_vars PROVE [Promise!Next]_Promise!mvars
  OBVIOUS
<1>1. ASSUME NEW d \in {-1, 1}, Edge(d) PROVE UNCHANGED Promise!mvars
  BY <1>1, Stutter DEF Edge, Handed, Refused, memory, settings, drive, record
<1>2. CASE PcntCb
  BY <1>2, Stutter DEF PcntCb, Handed, Refused, memory, settings, drive, record
<1>3. CASE PcntFault \/ Restart
  BY <1>3, RestartPromise DEF PcntFault, Promise!Next
<1>4. CASE MotorStep \/ AppStep
  BY <1>4, TaskPromise, AppPromise
<1>5. CASE Command
  <2>1. Handled
    BY <1>5, CommandHandled
  <2> QED
    BY <2>1, Stutter DEF Handled, Handed, Refused, plant, memory, drive, record
<1>6. CASE UNCHANGED vars
  BY <1>6, Stutter
  DEF vars, Handed, Refused, plant, memory, settings, drive, record
<1> QED
  BY <1>1, <1>2, <1>3, <1>4, <1>5, <1>6 DEF Next

\* The motor keeps its promise: it is driven only in use and with the encoder
\* counting, keeps its position only with the drive cut, and comes to rest only
\* when the flash holds what it knows, or has refused it.
THEOREM MotorKeepsPromise == Spec => KeepsPromise
<1> QED
  BY InitPromise, StepPromise, MotorInvariant, PTL
  DEF Spec, KeepsPromise, Promise!Spec

-----------------------------------------------------------------------------
(* Conservation, step by step *)

LEMMA PendingNext ==
    /\ Pending' = count' + isr' + Queued(queue') - shaft'
    /\ MotorInv' => ErrSplit'
<1>1. Pending' = count' + isr' + Queued(queue') - shaft'
  BY DEF Pending, Queued
<1> QED
  BY <1>1, SplitErr, PTL

\* A step that moves h from what is pending into the position keeps the error.
LEMMA MovedKeepsErr ==
    ASSUME MotorInv, MotorInv', NEW h \in Int,
           position' = Wrap(position + h), Pending' = Pending - h
    PROVE  Err' = Err
<1>1. ErrSplit /\ ErrSplit'
  BY SplitErr, PendingNext
<1>2. Pending \in Int /\ position \in Int /\ Err = Wrap(position + Pending)
  BY <1>1 DEF ErrSplit
<1>3. Err' = Wrap(position' + Pending')
  BY <1>1 DEF ErrSplit, Wrap
<1>4. Wrap(Wrap(position + h) + (Pending - h)) = Wrap(position + Pending)
  BY <1>2, ErrMoved
<1> QED
  BY <1>2, <1>3, <1>4

\* A step that leaves the position and the sum of what is pending keeps it too.
LEMMA RestKeepsErr ==
    ASSUME MotorInv, MotorInv', position' = position, Pending' = Pending
    PROVE  Err' = Err
<1>1. ErrSplit /\ ErrSplit'
  BY SplitErr, PendingNext
<1>2. Err = Wrap(position + Pending) /\ Err' = Wrap(position' + Pending')
  BY <1>1 DEF ErrSplit, Wrap
<1> QED
  BY <1>2

\* An entry of 0, a wake, is no edge.
LEMMA WakeKeepsErr ==
    ASSUME MotorInv, MotorInv', queue' = queue \/ queue' = Append(queue, 0),
           position' = position, UNCHANGED plant
    PROVE  Err' = Err
<1>1. queue \in Seq(Events) /\ 0 \in Events
  BY DEF MotorInv, TypeOK, PlantType, Events
<1>2. Queued(queue') = Queued(queue)
  <2>1. Queued(queue) \in Int /\ Queued(Append(queue, 0)) = Queued(queue) + 0
    BY <1>1, QueuedAppend
  <2>2. Queued(Append(queue, 0)) = Queued(queue)
    BY <2>1
  <2>3. CASE queue' = queue
    BY <2>3
  <2>4. CASE queue' = Append(queue, 0)
    BY <2>2, <2>4
  <2> QED
    BY <2>3, <2>4
<1>3. Pending' = Pending
  BY <1>2, PendingNext DEF Pending, plant
<1> QED
  BY <1>3, RestKeepsErr

\* Taking the head off the queue into the position.
LEMMA TakeKeepsErr ==
    ASSUME MotorInv, MotorInv', queue # <<>>, queue' = Tail(queue),
           position' = Wrap(position + Head(queue)), UNCHANGED plant
    PROVE  Err' = Err
<1>1. queue \in Seq(Events) /\ count \in Int /\ isr \in Int /\ shaft \in Int
  BY MotorAssumption DEF MotorInv, TypeOK, PlantType, Events
<1>2. Head(queue) \in Int
  BY <1>1, HeadTailProperties, MotorAssumption DEF Events
<1>3. /\ Queued(Tail(queue)) \in Int
      /\ Queued(queue) = Queued(Tail(queue)) + Head(queue)
  BY <1>1, QueuedTail
<1>4. Pending' = count + isr + Queued(Tail(queue)) - shaft
  BY PendingNext DEF plant
<1>5. Pending' = Pending - Head(queue)
  BY <1>1, <1>2, <1>3, <1>4 DEF Pending
<1> QED
  BY <1>2, <1>5, MovedKeepsErr

LEMMA CommandQueue == Command => queue' = queue \/ queue' = Append(queue, 0)
<1> SUFFICES ASSUME Command PROVE queue' = queue \/ queue' = Append(queue, 0)
  OBVIOUS
<1>1. ASSUME NEW p, UpdateTarget(p) PROVE queue' = queue \/ queue' = Append(queue, 0)
  BY <1>1 DEF UpdateTarget
<1>2. ASSUME NEW p, GoPercent(p) PROVE queue' = queue \/ queue' = Append(queue, 0)
  BY <1>1, <1>2 DEF GoPercent
<1>3. ASSUME NEW up, GoDirection(up) PROVE queue' = queue \/ queue' = Append(queue, 0)
  BY <1>1, <1>2, <1>3 DEF GoDirection
<1> QED
  BY <1>1, <1>2, <1>3
  DEF Command, GoPosition, Nudge, Stop, SetSetup, SetMin, SetMax, SetOffset

\* Every step keeps the error, or is one of the three leaks or a restart.
LEMMA StepConserves ==
    ASSUME MotorInv, MotorInv', [Next]_vars
    PROVE  \/ Err' = Err
           \/ EdgeUnseen \/ EventLost \/ SampleStale \/ PcntFault \/ Restart
<1>1. /\ count \in Int /\ isr \in {-Watch, 0, Watch} /\ shaft \in Int
      /\ position \in Pos /\ queue \in Seq(Events) /\ Queued(queue) \in Int
      /\ Watch \in Int /\ Len(queue) <= QueueLen /\ unit \in BOOLEAN
  <2>1. queue \in Seq(Events) /\ 0 \in Events
    BY DEF MotorInv, TypeOK, PlantType, Events
  <2>2. Queued(queue) \in Int
    BY <2>1, QueuedAppend
  <2> QED
    BY <2>1, <2>2, MotorAssumption DEF MotorInv, TypeOK, PlantType, FieldType
<1>2. isr # 0 \/ count # 0 => unit
  BY DEF MotorInv, PowerInv
\* An edge moves the shaft and the counter, or the shaft alone.
<1>3. ASSUME NEW d \in {-1, 1}, Edge(d) PROVE Err' = Err \/ EdgeUnseen
  <2>1. CASE unit
    <3>1. count' + isr' - shaft' = count + isr - shaft
      BY <1>1, <1>3, <2>1 DEF Edge
    <3>2. queue' = queue /\ position' = position
      BY <1>3 DEF Edge, memory
    <3>3. count' \in Int /\ isr' \in Int /\ shaft' \in Int
      BY <1>1, <1>3, <2>1 DEF Edge
    <3>4. Pending' = count' + isr' + Queued(queue) - shaft'
      BY <3>2, PendingNext
    <3>5. Pending = count + isr + Queued(queue) - shaft
      BY DEF Pending
    <3>6. count \in Int /\ isr \in Int /\ shaft \in Int /\ Queued(queue) \in Int
      BY <1>1
    <3>7. Pending' = Pending
      <4>1. PICK a \in Int, b \in Int, c \in Int :
               a = count' /\ b = isr' /\ c = shaft'
        BY <3>3
      <4>2. a + b - c = count + isr - shaft
        BY <3>1, <4>1
      <4>3. a + b + Queued(queue) - c = count + isr + Queued(queue) - shaft
        BY <3>6, <4>2
      <4> QED
        BY <3>4, <3>5, <4>1, <4>3
    <3> QED
      BY <3>2, <3>7, RestKeepsErr
  <2>2. CASE ~unit
    BY <1>1, <1>3, <2>2 DEF Edge, EdgeUnseen
  <2> QED
    BY <2>1, <2>2
\* The interrupt puts its watch point into the queue.
<1>4. CASE PcntCb
  <2>1. CASE Len(queue) = QueueLen \/ count # 0
    BY <1>4, <2>1 DEF PcntCb, EventLost
  <2>2. CASE ~(Len(queue) = QueueLen \/ count # 0)
    <3>1. Len(queue) < QueueLen
      BY <1>1, <2>2, LenProperties, MotorAssumption
    <3>2. /\ queue' = Append(queue, isr) /\ count' = 0 /\ isr' = 0
          /\ shaft' = shaft /\ position' = position
      BY <1>4, <3>1 DEF PcntCb, memory
    <3>3. Queued(queue') = Queued(queue) + isr
      BY <1>1, <3>2, QueuedAppend DEF Events
    <3>4. Pending' = 0 + 0 + (Queued(queue) + isr) - shaft
      BY <3>2, <3>3, PendingNext
    <3>5. Pending' = Pending
      BY <1>1, <2>2, <3>4 DEF Pending
    <3> QED
      BY <3>2, <3>5, RestKeepsErr
  <2> QED
    BY <2>1, <2>2
\* The two readers of the queue.
<1>5. CASE Receive
  BY <1>5, TakeKeepsErr DEF Receive
<1>6. CASE Poll
  <2>1. CASE queue = <<>>
    BY <1>6, <2>1, WakeKeepsErr DEF Poll
  <2>2. CASE queue # <<>>
    BY <1>6, <2>2, TakeKeepsErr DEF Poll
  <2> QED
    BY <2>1, <2>2
\* The power cycles of the encoder.
<1>7. CASE Warm
  <2>1. ~unit
    BY <1>7 DEF Warm, Runs, MotorInv, PowerInv
  <2>2. /\ count' = count /\ isr' = isr /\ shaft' = shaft /\ queue' = queue
        /\ position' = position
    BY <1>1, <1>2, <1>7, <2>1 DEF Warm, memory
  <2>3. Pending' = Pending
    BY <2>2, PendingNext DEF Pending
  <2> QED
    BY <2>2, <2>3, RestKeepsErr
<1>8. CASE PowerOff
  <2>1. isr = 0 /\ unit
    BY <1>8 DEF PowerOff, Runs, MotorInv, PowerInv
  <2>2. CASE exact # Wrap(position + count)
    BY <1>8, <2>1, <2>2 DEF PowerOff, SampleStale
  <2>3. CASE exact = Wrap(position + count)
    <3>1. /\ count' = 0 /\ isr' = isr /\ shaft' = shaft /\ queue' = queue
          /\ position' = Wrap(position + count)
      BY <1>8, <2>3 DEF PowerOff
    <3>2. Pending' = 0 + isr + Queued(queue) - shaft
      BY <3>1, PendingNext
    <3>3. Pending' = Pending - count
      BY <1>1, <3>2 DEF Pending
    <3> QED
      BY <1>1, <3>1, <3>3, MovedKeepsErr
  <2> QED
    BY <2>2, <2>3
\* The rest moves no edge.
<1>9. ASSUME position' = position, queue' = queue, UNCHANGED plant
      PROVE  Err' = Err
  BY <1>9, WakeKeepsErr
<1>10. CASE Sample \/ Tell \/ Diff \/ Ramp \/ Halt \/ Save
  BY <1>9, <1>10 DEF Sample, Tell, Diff, Ramp, Halt, Save, memory
<1>11. CASE AppStep
  BY <1>9, <1>11, WakeKeepsErr
  DEF AppStep, IdSpin, IdSettle, IdWake, LoadEnds, MoveCallback, AppTell, memory
<1>12. CASE Command
  <2>1. Handled
    BY <1>12, CommandHandled
  <2>2. queue' = queue \/ queue' = Append(queue, 0)
    BY <1>12, CommandQueue
  <2> QED
    BY <2>1, <2>2, WakeKeepsErr DEF Handled, memory
<1>13. CASE UNCHANGED vars
  BY <1>9, <1>13 DEF vars, memory
<1> QED
  BY <1>3, <1>4, <1>5, <1>6, <1>7, <1>8, <1>10, <1>11, <1>12, <1>13
  DEF Next, MotorStep

\* No edge is lost or counted twice, whatever the size of the counter, the
\* queue and the positions, and however the interrupt, the two readers of the
\* queue, commands and the encoder's power cycles interleave: where the tracked
\* position differs from the shaft, an edge came with the encoder off, a watch
\* event found the queue full or was overtaken by an edge, the counter was
\* deleted after its last sample, or the chip restarted.
THEOREM MotorConserves == Spec => CountsConserved
<1>1. MotorInv /\ MotorInv' /\ [Next]_vars =>
        [Err' = Err \/ EdgeUnseen \/ EventLost \/ SampleStale
           \/ PcntFault \/ Restart]_vars
  BY StepConserves
<1> QED
  BY <1>1, MotorInvariant, PTL DEF Spec, CountsConserved

-----------------------------------------------------------------------------
(* Left alone, the program comes to rest: every step of its own lowers Work. *)

LEMMA WorkTypes ==
    ASSUME MotorInv
    PROVE  /\ Turns \in 0 .. 2 * Patience + 1
           /\ Round \in 0 .. Entry - 1
           /\ Load \in Nat
<1>1. /\ movingCheck \in 0 .. Patience /\ Patience \in Nat
      /\ Len(queue) \in Nat /\ pc \in PCs /\ boot \in Boots
  <2>1. queue \in Seq(Events)
    BY DEF MotorInv, TypeOK, PlantType, Events
  <2>2. Len(queue) \in Nat
    BY <2>1, LenProperties
  <2> QED
    BY <2>2, MotorAssumption DEF MotorInv, TypeOK, TaskType
<1>2. Turns \in 0 .. 2 * Patience + 1
  BY <1>1 DEF Turns
<1>3. Round \in 0 .. Entry - 1
  <2>1. /\ 6 * Turns + 11 \in 0 .. Entry - 1
        /\ 6 * Turns + 10 \in 0 .. Entry - 1 /\ 6 * Turns + 9 \in 0 .. Entry - 1
        /\ 6 * Turns + 8 \in 0 .. Entry - 1 /\ 6 * Turns + 7 \in 0 .. Entry - 1
        /\ 6 * Turns + 6 \in 0 .. Entry - 1
        /\ {0, 1, 2, 3, 4} \subseteq 0 .. Entry - 1
    BY <1>1, <1>2 DEF Entry
  <2> QED
    BY <2>1, Zenon DEF Round
<1>4. Load \in Nat
  <2>1. BootLeft \in 0 .. 6
    BY <1>1 DEF BootLeft, Boots
  <2>2. (IF isr = 0 THEN 0 ELSE 2) \in Nat
    OBVIOUS
  <2> QED
    BY <1>1, <2>1, <2>2 DEF Load
<1> QED
  BY <1>2, <1>3, <1>4

WorkType ==
    /\ Round \in 0 .. Entry - 1
    /\ Load \in Nat

\* Less to load outweighs any round.
LEMMA LessLoad ==
    ASSUME NEW r \in 0 .. Entry - 1, NEW s \in 0 .. Entry - 1,
           NEW k \in Nat, NEW l \in Nat, l < k
    PROVE  s + Entry * l < r + Entry * k
<1>1. Entry \in Nat \ {0}
  BY MotorAssumption DEF Entry
<1> HIDE DEF Entry
<1>2. Entry * l <= Entry * (k - 1)
  <2>1. PICK n \in Nat : k - 1 = l + n
    BY Z3
  <2>2. Entry * (l + n) = Entry * l + Entry * n /\ Entry * n \in Nat
    BY <1>1
  <2> QED
    BY <1>1, <2>1, <2>2
<1>3. Entry * (k - 1) = Entry * k - Entry
  BY <1>1
<1>4. Entry * l \in Int /\ Entry * k \in Int /\ r \in Int /\ s \in Int
  BY <1>1
<1> QED
  BY <1>1, <1>2, <1>3, <1>4

LEMMA WorkNext ==
    ASSUME WorkType, WorkType',
           Load' < Load \/ (Load' = Load /\ Round' < Round)
    PROVE  Work' < Work
<1>1. /\ Round \in 0 .. Entry - 1 /\ Load \in Nat
      /\ Round' \in 0 .. Entry - 1 /\ Load' \in Nat
  BY DEF WorkType, Entry
<1>2. Entry \in Nat \ {0}
  BY MotorAssumption DEF Entry
<1>3. Work = Round + Entry * Load /\ Work' = Round' + Entry * Load'
  BY DEF Work, Entry
<1> HIDE DEF Entry
<1>4. CASE Load' < Load
  BY <1>1, <1>3, <1>4, LessLoad
<1>5. CASE Load' = Load /\ Round' < Round
  <2>1. PICK r \in Nat, s \in Nat, e \in Int :
          r = Round /\ s = Round' /\ e = Entry * Load
    BY <1>1, <1>2
  <2>2. s + e < r + e
    BY <1>5, <2>1
  <2> QED
    BY <1>3, <1>5, <2>1, <2>2
<1> QED
  BY <1>4, <1>5

LEMMA TypedWork == MotorInv => WorkType
BY WorkTypes DEF WorkType

LEMMA TypedWorkNext == MotorInv' => WorkType'
BY TypedWork, PTL

\* What a turn's length depends on.
LEMMA TurnsKept ==
    ASSUME UNCHANGED <<lastLocal, movingCheck, position, count>>
    PROVE  Turns' = Turns
BY DEF Turns, Recent, Wrap

LEMMA LoadKept ==
    ASSUME UNCHANGED <<queue, boot, isr>>
    PROVE  Load' = Load
BY DEF Load, BootLeft

\* Taking an entry off the queue.
LEMMA LoadTaken ==
    ASSUME MotorInv, queue # <<>>, queue' = Tail(queue), UNCHANGED <<boot, isr>>
    PROVE  Load' < Load
<1>1. queue \in Seq(Events)
  BY DEF MotorInv, TypeOK, PlantType, Events
<1>2. Len(Tail(queue)) = Len(queue) - 1 /\ Len(queue) \in Nat
  BY <1>1, HeadTailProperties, LenProperties
<1>3. BootLeft \in 0 .. 6 /\ BootLeft' = BootLeft
  BY DEF MotorInv, TypeOK, TaskType, BootLeft, Boots
<1>4. Load = Len(queue) + 2 * BootLeft + (IF isr = 0 THEN 0 ELSE 2)
  BY DEF Load
<1>5. Load' = (Len(queue) - 1) + 2 * BootLeft + (IF isr = 0 THEN 0 ELSE 2)
  BY <1>2, <1>3 DEF Load
<1>6. (IF isr = 0 THEN 0 ELSE 2) \in Nat
  OBVIOUS
<1> QED
  BY <1>2, <1>3, <1>4, <1>5, <1>6

LEMMA MotorStepSettles ==
    ASSUME MotorInv, MotorInv', MotorStep
    PROVE  Work' < Work
<1>1. WorkType /\ WorkType' /\ Turns \in Int /\ Turns \in Nat
  BY TypedWork, TypedWorkNext, WorkTypes
<1>2. movingCheck \in 0 .. Patience /\ Patience \in Nat
  BY MotorAssumption DEF MotorInv, TypeOK, TaskType
<1>3. ASSUME Load' = Load, Round' < Round PROVE Work' < Work
  BY <1>1, <1>3, WorkNext
<1>4. CASE Receive
  <2>1. Load' < Load
    BY <1>4, LoadTaken DEF Receive, plant
  <2> QED
    BY <1>1, <2>1, WorkNext
\* A sample that finds the position moved turns what was recent into patience.
<1>5. CASE Sample
  <2>1. /\ Runs("sample") /\ pc' \in {"report", "diff"}
        /\ UNCHANGED <<queue, boot, isr, position, count>>
        /\ lastLocal' = Wrap(position + count)
        /\ movingCheck' = IF Recent THEN Patience ELSE movingCheck
    BY <1>5 DEF Sample, plant, Recent
  <2>2. ~Recent'
    BY <2>1 DEF Recent, Wrap
  <2>3. Turns' = movingCheck'
    BY <1>2, <2>1, <2>2 DEF Turns
  <2>4. Turns' \in Nat /\ Turns' <= Turns
    BY <1>2, <2>1, <2>3 DEF Turns
  <2>5. Round = 6 * Turns + 11 /\ Round' \in {6 * Turns' + 10, 6 * Turns' + 9}
    BY <2>1 DEF Round, Runs
  <2>6. PICK t \in Nat, u \in Nat : t = Turns /\ u = Turns'
    BY <1>1, <2>4
  <2>7. u <= t /\ Round = 6 * t + 11 /\ Round' \in {6 * u + 10, 6 * u + 9}
    BY <2>4, <2>5, <2>6
  <2>8. Round' < Round
    BY <2>7
  <2> QED
    BY <1>3, <2>1, <2>8, LoadKept
<1>12. CASE Tell
  <2>1. /\ Runs("report") /\ pc' = "diff"
        /\ UNCHANGED <<queue, boot, isr, lastLocal, movingCheck, position, count>>
    BY <1>12 DEF Tell, plant, memory, locals
  <2>2. Turns' = Turns
    BY <2>1, TurnsKept
  <2>3. Round = 6 * Turns + 10 /\ Round' = 6 * Turns + 9
    BY <2>1, <2>2 DEF Round, Runs
  <2>4. Round' < Round
    BY <1>1, <2>3
  <2> QED
    BY <1>3, <2>1, <2>4, LoadKept
<1>6. CASE Diff
  <2>1. /\ Runs("diff") /\ (pc' = "halt" \/ pc' = "ramp")
        /\ UNCHANGED <<queue, boot, isr, lastLocal, movingCheck, position, count>>
    BY <1>6 DEF Diff, plant, memory
  <2>2. Turns' = Turns
    BY <2>1, TurnsKept
  <2>3. Round = 6 * Turns + 9 /\ (Round' = 4 \/ Round' = 6 * Turns + 8)
    BY <2>1, <2>2 DEF Round, Runs
  <2>4. Round' < Round
    BY <1>1, <2>3
  <2> QED
    BY <1>3, <2>1, <2>4, LoadKept
<1>7. CASE Ramp
  <2>1. /\ Runs("ramp") /\ (pc' = "warm" \/ pc' = "delay") /\ exit' = exit
        /\ UNCHANGED <<queue, boot, isr, lastLocal, movingCheck, position, count>>
    BY <1>7 DEF Ramp, UpdateSpeed, plant, memory
  <2>2. Turns' = Turns
    BY <2>1, TurnsKept
  <2>3. exit = "none"
    BY <2>1 DEF MotorInv, ExitInv, Runs
  <2>4. Round = 6 * Turns + 8 /\ (Round' = 6 * Turns + 7 \/ Round' = 6 * Turns + 6)
    BY <2>1, <2>2, <2>3 DEF Round, Runs
  <2>5. Round' < Round
    BY <1>1, <2>4
  <2> QED
    BY <1>3, <2>1, <2>5, LoadKept
\* The counter that starts from zero replaces one that held nothing.
<1>8. CASE Warm
  <2>1. /\ Runs("warm") /\ pc' = (IF exit = "none" THEN "delay" ELSE "save")
        /\ count' = 0 /\ exit' = exit
        /\ UNCHANGED <<queue, boot, isr, lastLocal, movingCheck, position>>
    BY <1>8 DEF Warm, locals, memory
  <2>2. count = 0
    BY <2>1 DEF MotorInv, PowerInv, Runs
  <2>3. Turns' = Turns
    BY <2>1, <2>2, TurnsKept
  <2>4. CASE exit = "none"
    <3>1. Round = 6 * Turns + 7 /\ Round' = 6 * Turns + 6
      BY <2>1, <2>3, <2>4 DEF Round, Runs
    <3>2. Round' < Round
      BY <1>1, <3>1
    <3> QED
      BY <1>3, <2>1, <3>2, LoadKept
  <2>5. CASE exit # "none"
    <3>1. Round = 3 /\ Round' = 2
      BY <2>1, <2>5 DEF Round, Runs
    <3> QED
      BY <1>3, <2>1, <3>1, LoadKept
  <2> QED
    BY <2>4, <2>5
<1>9. CASE Poll
  <2>1. CASE queue # <<>>
    <3>1. Load' < Load
      BY <1>9, <2>1, LoadTaken DEF Poll, plant
    <3> QED
      BY <1>1, <3>1, WorkNext
  <2>2. CASE queue = <<>>
    <3>1. /\ Runs("delay")
          /\ UNCHANGED <<queue, boot, isr, lastLocal, position, count>>
      BY <1>9, <2>2 DEF Poll, plant
    <3>2. CASE movingCheck > 0
      <4>1. movingCheck' = movingCheck - 1 /\ pc' = "sample"
        BY <1>9, <3>2 DEF Poll
      <4>2. Recent' = Recent
        BY <3>1 DEF Recent, Wrap
      <4>3. Turns' = Turns - 1
        BY <1>2, <4>1, <4>2 DEF Turns
      <4>4. Round = 6 * Turns + 6 /\ Round' = 6 * (Turns - 1) + 11
        BY <3>1, <4>1, <4>3 DEF Round, Runs
      <4>5. Round' < Round
        BY <1>1, <4>4
      <4> QED
        BY <1>3, <3>1, <4>5, LoadKept
    <3>3. CASE ~(movingCheck > 0)
      <4>1. pc' = "halt"
        BY <1>9, <3>3 DEF Poll
      <4>2. Round = 6 * Turns + 6 /\ Round' = 4
        BY <3>1, <4>1 DEF Round, Runs
      <4>3. Round' < Round
        BY <1>1, <4>2
      <4> QED
        BY <1>3, <3>1, <4>3, LoadKept
    <3> QED
      BY <3>2, <3>3
  <2> QED
    BY <2>1, <2>2
<1>10. CASE Halt
  <2>1. /\ Runs("halt") /\ (pc' = "warm" \/ pc' = "save") /\ exit' = exit
        /\ UNCHANGED <<queue, boot, isr>>
    BY <1>10 DEF Halt, UpdateSpeed, plant, locals
  <2>2. exit # "none"
    BY <2>1 DEF MotorInv, ExitInv, Runs
  <2>3. Round = 4 /\ (Round' = 3 \/ Round' = 2)
    BY <2>1, <2>2 DEF Round, Runs
  <2> QED
    BY <1>3, <2>1, <2>3, LoadKept
<1>11. CASE Save \/ PowerOff
  <2>1. UNCHANGED <<queue, boot, isr>>
    BY <1>11 DEF Save, PowerOff, plant
  <2>2. (Round = 2 /\ Round' = 1) \/ (Round = 1 /\ Round' = 0)
    BY <1>11 DEF Save, PowerOff, Round, Runs
  <2> QED
    BY <1>3, <2>1, <2>2, LoadKept
<1> QED
  BY <1>4, <1>5, <1>6, <1>7, <1>8, <1>9, <1>10, <1>11, <1>12 DEF MotorStep

LEMMA InterruptSettles ==
    ASSUME MotorInv, MotorInv', PcntCb
    PROVE  Work' < Work
<1>1. WorkType /\ WorkType'
  BY TypedWork, TypedWorkNext
<1>2. queue \in Seq(Events) /\ isr \in Events
  BY DEF MotorInv, TypeOK, PlantType, Events
<1>3. Len(queue) \in Nat /\ Len(Append(queue, isr)) = Len(queue) + 1
  BY <1>2, LenProperties, AppendProperties
<1>4. BootLeft \in 0 .. 6 /\ BootLeft' = BootLeft
  BY DEF PcntCb, MotorInv, TypeOK, TaskType, BootLeft, Boots
<1>5. /\ Len(queue') \in {Len(queue), Len(queue) + 1}
      /\ isr # 0 /\ isr' = 0
  BY <1>3 DEF PcntCb
<1>6. Load = Len(queue) + 2 * BootLeft + 2
  BY <1>5 DEF Load
<1>7. Load' = Len(queue') + 2 * BootLeft + 0
  BY <1>4, <1>5 DEF Load
<1>8. Load' < Load
  BY <1>3, <1>4, <1>5, <1>6, <1>7
<1> QED
  BY <1>1, <1>8, WorkNext

LEMMA AppSettles ==
    ASSUME MotorInv, MotorInv', AppStep
    PROVE  Work' < Work
<1>1. WorkType /\ WorkType'
  BY TypedWork, TypedWorkNext
<1>2. queue \in Seq(Events) /\ 0 \in Events
  BY DEF MotorInv, TypeOK, PlantType, Events
<1>3. Len(queue) \in Nat /\ Len(Append(queue, 0)) = Len(queue) + 1
  BY <1>2, LenProperties, AppendProperties
<1>4. /\ isr = 0 /\ isr' = 0
      /\ BootLeft \in 1 .. 6 /\ BootLeft' \in 0 .. BootLeft - 1
  BY DEF AppStep, IdSpin, IdSettle, IdWake, LoadEnds, MoveCallback, AppTell, AppRuns,
         plant, BootLeft
<1>5. Len(queue') \in {Len(queue), Len(queue) + 1}
  BY <1>3
  DEF AppStep, IdSpin, IdSettle, IdWake, LoadEnds, MoveCallback, AppTell
<1>6. Load = Len(queue) + 2 * BootLeft + 0 /\ Load' = Len(queue') + 2 * BootLeft' + 0
  BY <1>4 DEF Load
<1>7. PICK m \in Nat, b \in Nat : m = Len(queue') /\ b = BootLeft'
  BY <1>3, <1>4, <1>5
<1>8. Load' < Load
  BY <1>3, <1>4, <1>5, <1>6, <1>7
<1> QED
  BY <1>1, <1>8, WorkNext

\* Work is a natural number that every step of the program lowers: after an
\* edge, a command or a restart the motor task, the interrupt and app_main take
\* at most Work more steps, for any patience, queue and table of targets.
THEOREM MotorSettles == Spec => SettlesDown
<1>1. MotorInv /\ MotorInv' /\ [Next]_vars =>
        [PcntCb \/ MotorStep \/ AppStep => Work' < Work]_vars
  BY MotorStepSettles, InterruptSettles, AppSettles
<1> QED
  BY <1>1, MotorInvariant, PTL DEF Spec, SettlesDown

\* And where it ends, the motor is off, its encoder is off, and no event waits:
\* with MotorSettles this is ComesToRest but for the scheduling.
THEOREM SettledIsRest == Spec => []DoneIsRest
<1>1. ASSUME MotorInv, Work = 0 PROVE AtRest
  <2>1. Round \in 0 .. Entry - 1 /\ Load \in Nat
    BY <1>1, WorkTypes
  <2>2. Entry \in Nat \ {0} /\ Work = Round + Entry * Load
    BY MotorAssumption DEF Entry, Work
  <2>3. Load = 0 /\ Round = 0
    <3> HIDE DEF Entry
    <3>1. ASSUME Load # 0 PROVE FALSE
      <4>1. Entry * Load >= Entry
        BY <2>1, <2>2, <3>1
      <4> QED
        BY <1>1, <2>1, <2>2, <4>1
    <3>2. Load = 0
      BY <3>1
    <3>3. Entry * Load = 0
      BY <2>2, <3>2
    <3> QED
      BY <1>1, <2>1, <2>2, <3>2, <3>3
  <2>4. queue \in Seq(Events) /\ Len(queue) \in Nat
    <3>1. queue \in Seq(Events)
      BY <1>1 DEF MotorInv, TypeOK, PlantType, Events
    <3> QED
      BY <3>1, LenProperties
  <2>5. BootLeft \in 0 .. 6 /\ (BootLeft = 0 => boot = "done")
    BY <1>1 DEF MotorInv, TypeOK, TaskType, BootLeft, Boots
  <2>6. Len(queue) = 0 /\ BootLeft = 0
    BY <2>3, <2>4, <2>5 DEF Load
  <2>7. queue = <<>> /\ boot = "done"
    BY <2>4, <2>5, <2>6, EmptySeq
  <2>8. pc = "wait" \/ pc = "none"
    <3>1. Turns \in Nat
      BY <1>1, WorkTypes
    <3>2. /\ 6 * Turns + 11 # 0 /\ 6 * Turns + 10 # 0 /\ 6 * Turns + 9 # 0 /\ 6 * Turns + 8 # 0
          /\ 6 * Turns + 7 # 0 /\ 6 * Turns + 6 # 0
      BY <3>1
    <3>3. pc \in PCs
      BY <1>1 DEF MotorInv, TypeOK, TaskType
    <3> QED
      BY <2>3, <3>2, <3>3 DEF Round, PCs
  <2> QED
    BY <1>1, <2>7, <2>8 DEF MotorInv, BootInv, PowerInv, AtRest, Asleep, Handed
<1>2. MotorInv => DoneIsRest
  BY <1>1 DEF DoneIsRest
<1> QED
  BY <1>2, MotorInvariant, PTL
=============================================================================
