------------------------------ MODULE MotorSpeed ------------------------------
(***************************************************************************)
(* From a desired speed to the duty of the two PWM channels:               *)
(* BlindMotor::updateDesired and updateSpeed of main/ext/motor.cpp in their *)
(* integer widths, with the setters the Zigbee handlers call.              *)
(*                                                                         *)
(* updateDesired runs in the motor task and reads _maxSpeed, _minSpeed,     *)
(* _offsetDir and _offset one after the other; a handler of the Zigbee task *)
(* comes between any two reads, and sets what it sets at once.  Which speed *)
(* is asked for is Motor's ramp: here it is any.                           *)
(***************************************************************************)
EXTENDS Integers

CONSTANTS
    Desireds,    \* speeds the ramp may ask for, of -Steps .. Steps
    Velocities,  \* what the velocity attribute may hold, a uint16_t
    MinSpeeds,   \* what the minimum-speed attribute may hold, an int32_t
    Offsets,     \* what the offset attribute may hold, a uint16_t
    Steps,       \* 100: full speed
    BaseSpeed,   \* 24000: _maxSpeed at velocity 0
    FullSpeed,   \* 0x8000: the speed at which the duty is the whole period
    Word         \* 2^16: the width of speedRange, maxOffset and duty

\* Whatever the velocity, _maxSpeed stays below FullSpeed; FullSpeed is the top
\* bit of the word.  A minimum speed so far out (beyond 2^28) that the int
\* arithmetic of the code overflows is not considered.
ASSUME SpeedAssumption ==
    /\ Steps \in Nat /\ Steps >= 2 /\ Desireds \subseteq -Steps .. Steps
    /\ Word \in Nat \ {0} /\ BaseSpeed \in Nat /\ FullSpeed \in Nat
    /\ Velocities \subseteq 0 .. Word - 1 /\ Offsets \subseteq 0 .. Word - 1
    /\ MinSpeeds \subseteq Int
    /\ BaseSpeed + ((Word - 1) \div 8) < FullSpeed
    /\ Word = 2 * FullSpeed /\ FullSpeed % 8 = 0

VARIABLES
    maxSpeed, minSpeed,   \* _maxSpeed, _minSpeed
    offset, offsetDir,    \* _offset, _offsetDir: the sign that is helped
    pc,                   \* where updateDesired is
    desired,              \* its argument
    range, lerp,          \* speedRange, lerp
    speed,                \* _speed
    forth, back,          \* the duty of the two channels
    crossed,              \* history: a setting changed under this call
    before                \* history: the call before, under the same settings

settings == <<maxSpeed, minSpeed, offset, offsetDir>>
locals   == <<desired, range, lerp>>
drive    == <<speed, forth, back>>
vars     == <<settings, pc, locals, drive, crossed, before>>

NoCall == [desired |-> 0, speed |-> 0]

Magnitude(x) == IF x < 0 THEN -x ELSE x

TypeOK ==
    /\ maxSpeed \in BaseSpeed .. FullSpeed - 1 /\ minSpeed \in Int
    /\ offset \in 0 .. Word - 1 /\ offsetDir \in BOOLEAN
    /\ pc \in {"idle", "range", "lerp", "offset", "duty"}
    /\ desired \in -Steps .. Steps /\ range \in 0 .. Word - 1
    /\ lerp \in Int /\ speed \in Int
    /\ forth \in 0 .. Word - 1 /\ back \in 0 .. Word - 1
    /\ crossed \in BOOLEAN
    /\ before \in [desired : -Steps .. Steps, speed : Int]

Speed(v) == BaseSpeed + (v \div 8)

Init ==
    /\ maxSpeed \in {Speed(v) : v \in Velocities}
    /\ minSpeed \in MinSpeeds /\ offset \in Offsets /\ offsetDir \in BOOLEAN
    /\ pc = "idle" /\ desired = 0 /\ range = 0 /\ lerp = 0
    /\ speed = 0 /\ forth = 0 /\ back = 0
    /\ crossed = FALSE /\ before = NoCall

-----------------------------------------------------------------------------
(* updateDesired and updateSpeed *)

UpdateDesired ==
    /\ pc = "idle"
    /\ desired' \in Desireds /\ pc' = "range" /\ crossed' = FALSE
    /\ UNCHANGED <<settings, range, lerp, drive, before>>

\* speedRange is unsigned and 16 bits wide.
ReadRange ==
    /\ pc = "range"
    /\ range' = (maxSpeed - minSpeed) % Word /\ pc' = "lerp"
    /\ UNCHANGED <<settings, desired, lerp, drive, crossed, before>>

\* Mutation: the product is cut to 16 bits.
ReadLerpNarrow ==
    /\ pc = "lerp"
    /\ lerp' = minSpeed + (((Magnitude(desired) - 1) * range) % Word) \div (Steps - 1)
    /\ pc' = "offset"
    /\ UNCHANGED <<settings, desired, range, drive, crossed, before>>

\* The second read of _minSpeed: step 1 is the minimum, step Steps the maximum.
\* What step 0 gives is not used.
ReadLerp ==
    /\ pc = "lerp"
    /\ lerp' = minSpeed + ((Magnitude(desired) - 1) * range) \div (Steps - 1)
    /\ pc' = "offset"
    /\ UNCHANGED <<settings, desired, range, drive, crossed, before>>

\* What the offset adds at most: to the whole period, cut to 16 bits.
MaxOffset(l) == ((FullSpeed - l) * 4) % Word

Helped == offsetDir <=> desired < 0

\* Mutation: the offset is not capped.
ReadOffsetUncapped ==
    /\ pc = "offset"
    /\ lerp' = IF Helped THEN lerp + offset \div 4 ELSE lerp
    /\ pc' = "duty"
    /\ UNCHANGED <<settings, desired, range, drive, crossed, before>>

\* A quarter of the capped offset helps the one direction.
ReadOffset ==
    /\ pc = "offset"
    /\ LET cap == MaxOffset(lerp)
           local == IF offset > cap THEN cap ELSE offset
       IN lerp' = IF Helped THEN lerp + local \div 4 ELSE lerp
    /\ pc' = "duty"
    /\ UNCHANGED <<settings, desired, range, drive, crossed, before>>

\* Mutation: the other channel keeps its duty.
UpdateSpeedKeepsOther ==
    /\ pc = "duty" /\ pc' = "idle"
    /\ speed' = IF desired = 0 THEN 0 ELSE IF desired < 0 THEN -lerp ELSE lerp
    /\ LET duty == (Magnitude(speed') \div 8) % Word IN
       IF speed' > 0 THEN forth' = duty /\ UNCHANGED back
                     ELSE back' = duty /\ UNCHANGED forth
    /\ before' = IF crossed THEN NoCall ELSE [desired |-> desired, speed |-> speed']
    /\ range' = 0 /\ lerp' = 0
    /\ UNCHANGED <<settings, desired, crossed>>

\* updateSpeed: an eighth of the speed, on the channel of its direction.  The
\* locals are gone after it.
UpdateSpeed ==
    /\ pc = "duty" /\ pc' = "idle"
    /\ speed' = IF desired = 0 THEN 0 ELSE IF desired < 0 THEN -lerp ELSE lerp
    /\ LET duty == (Magnitude(speed') \div 8) % Word IN
       /\ forth' = IF speed' > 0 THEN duty ELSE 0
       /\ back' = IF speed' > 0 THEN 0 ELSE duty
    /\ before' = IF crossed THEN NoCall ELSE [desired |-> desired, speed |-> speed']
    /\ range' = 0 /\ lerp' = 0
    /\ UNCHANGED <<settings, desired, crossed>>

Update == UpdateDesired \/ ReadRange \/ ReadLerp \/ ReadOffset \/ UpdateSpeed

-----------------------------------------------------------------------------
(* The setters *)

Set ==
    /\ crossed' = TRUE /\ before' = NoCall
    /\ UNCHANGED <<pc, locals, drive>>

SetVelocity(v) ==
    maxSpeed' = Speed(v) /\ Set /\ UNCHANGED <<minSpeed, offset, offsetDir>>

SetMinSpeed(s) ==
    minSpeed' = s /\ Set /\ UNCHANGED <<maxSpeed, offset, offsetDir>>

\* setOffset is given the offset and the direction invert makes it help.
SetOffset(o, dir) ==
    offset' = o /\ offsetDir' = dir /\ Set /\ UNCHANGED <<maxSpeed, minSpeed>>

Setter ==
    \/ \E v \in Velocities : SetVelocity(v)
    \/ \E s \in MinSpeeds : SetMinSpeed(s)
    \/ \E o \in Offsets, dir \in BOOLEAN : SetOffset(o, dir)

Next == Update \/ Setter

Spec == Init /\ [][Next]_vars

-----------------------------------------------------------------------------
(* What the speed should be *)

\* The settings a blind can be driven with: the slowest step turns the motor,
\* and is not above the fastest.
Sane == 8 <= minSpeed /\ minSpeed <= maxSpeed

\* The line from the minimum, at step 1, to the maximum, at step Steps.
Line(d) ==
    minSpeed + ((Magnitude(d) - 1) * (maxSpeed - minSpeed)) \div (Steps - 1)

\* The offset lifts it up to the whole period, or, from the lower half, only up
\* to the middle.
Lifted(l) ==
    LET lifted == l + offset \div 4
        top == IF l > FullSpeed \div 2 THEN FullSpeed ELSE FullSpeed \div 2
    IN IF lifted > top THEN top ELSE lifted

\* The magnitude meant for a step d that is not 0.
Meant(d) == IF offsetDir <=> d < 0 THEN Lifted(Line(d)) ELSE Line(d)

Signed(d, x) == IF d = 0 THEN 0 ELSE IF d < 0 THEN -x ELSE x

-----------------------------------------------------------------------------
(* Properties *)

\* A call no setter came between follows the line: each local is what its
\* reads of the settings make it, and so is the result of the call before.
CallInv ==
    /\ pc # "idle" /\ ~crossed /\ Sane =>
         /\ pc \in {"lerp", "offset", "duty"} => range = maxSpeed - minSpeed
         /\ pc = "offset" /\ desired # 0 => lerp = Line(desired)
         /\ pc = "duty" /\ desired # 0 => lerp = Meant(desired)
    /\ Sane => before.speed = Signed(before.desired, Meant(before.desired))

\* The duty is that of the speed, and on one channel only.
DutyInv ==
    /\ forth = IF speed > 0 THEN (speed \div 8) % Word ELSE 0
    /\ back = IF speed > 0 THEN 0 ELSE ((-speed) \div 8) % Word
    /\ pc = "idle" /\ ~crossed /\ Sane => speed = Signed(desired, Meant(desired))

\* The integer arithmetic of updateDesired, with its unsigned wraps and its cap
\* cut to 16 bits, computes the speed that is meant, in every interleaving with
\* the setters that leaves the call alone.
SpeedInv == TypeOK /\ CallInv /\ DutyInv

\* What Motor takes for granted: with sane settings a nonzero step turns the
\* motor, the right way round and with a duty the 12-bit timer has, and step 0
\* stops it; a setter between two reads can spoil one call, not the next.
DrivesAsAsked ==
    pc = "idle" /\ ~crossed /\ Sane =>
        /\ forth \in (IF desired > 0 THEN 1 .. FullSpeed \div 8 ELSE {0})
        /\ back \in (IF desired < 0 THEN 1 .. FullSpeed \div 8 ELSE {0})

\* Further up the ramp is never slower: of two calls under the same sane
\* settings in one direction, the one that asks for more gets no less, in spite
\* of the offset that the cap's wrap takes away from the lower half.
NeverSlower ==
    [][pc = "duty" /\ pc' = "idle" /\ ~crossed /\ Sane
       /\ (desired < 0 <=> before.desired < 0)
       /\ 0 < Magnitude(before.desired)
       /\ Magnitude(before.desired) <= Magnitude(desired)
         => Magnitude(before.speed) <= Magnitude(speed')]_vars
=============================================================================
