--------------------------- MODULE MotorSpeedProofs ---------------------------
(***************************************************************************)
(* Theorems about MotorSpeed: for all settings, widths and numbers of steps *)
(* the speed computed is the one meant, it drives the right way round within *)
(* the timer's range, and more is never slower.                            *)
(***************************************************************************)
EXTENDS MotorSpeed, TLAPS

USE SpeedAssumption

-----------------------------------------------------------------------------
(* Division and remainder *)

LEMMA Quotient ==
    ASSUME NEW a \in Nat, NEW k \in Nat \ {0}
    PROVE  a \div k \in Nat /\ (a \div k) * k <= a /\ a < (a \div k) * k + k
OBVIOUS

LEMMA ProductMonotone ==
    ASSUME NEW a \in Int, NEW b \in Int, NEW r \in Nat, a <= b
    PROVE  a * r <= b * r
OBVIOUS

LEMMA ProductLess ==
    ASSUME NEW a \in Int, NEW b \in Int, NEW r \in Nat, a * r < b * r
    PROVE  a < b
OBVIOUS

LEMMA QuotientMonotone ==
    ASSUME NEW a \in Nat, NEW b \in Nat, NEW k \in Nat \ {0}, a <= b
    PROVE  a \div k <= b \div k
<1> DEFINE p == a \div k
           q == b \div k
<1>1. p \in Nat /\ q \in Nat /\ p * k <= a /\ b < q * k + k
  BY Quotient
<1>2. p * k < (q + 1) * k
  BY <1>1
<1> HIDE DEF p, q
<1>3. p < q + 1
  BY <1>1, <1>2, ProductLess
<1>4. p <= q
  BY <1>1, <1>3
<1> QED
  BY <1>4 DEF p, q

LEMMA QuotientBound ==
    ASSUME NEW a \in Nat, NEW r \in Nat, NEW k \in Nat \ {0}, a <= r * k
    PROVE  a \div k <= r
<1> DEFINE p == a \div k
<1>1. p \in Nat /\ p * k <= a
  BY Quotient
<1>2. p * k < (r + 1) * k
  BY <1>1
<1> HIDE DEF p
<1>3. p < r + 1
  BY <1>1, <1>2, ProductLess
<1>4. p <= r
  BY <1>1, <1>3
<1> QED
  BY <1>4 DEF p

-----------------------------------------------------------------------------
(* The line and the offset *)

\* With sane settings the line lies between the minimum and the maximum.
LEMMA LineBounds ==
    ASSUME TypeOK, Sane, NEW d \in -Steps .. Steps, d # 0
    PROVE  Line(d) \in minSpeed .. maxSpeed
<1> DEFINE m == Magnitude(d) - 1
           r == maxSpeed - minSpeed
           k == Steps - 1
<1>1. m \in 0 .. k /\ k \in Nat \ {0}
  BY DEF Magnitude
<1>2. r \in Nat /\ minSpeed \in Int /\ maxSpeed \in Int
  BY DEF TypeOK, Sane
<1> HIDE DEF m, r, k
<1>3. m * r \in Nat /\ m * r <= r * k
  BY <1>1, <1>2, ProductMonotone
<1>4. (m * r) \div k \in Nat /\ (m * r) \div k <= r
  BY <1>1, <1>2, <1>3, Quotient, QuotientBound
<1>5. Line(d) = minSpeed + (m * r) \div k
  BY DEF Line, m, r, k
<1>6. minSpeed + r = maxSpeed
  BY <1>2 DEF r, TypeOK
<1> QED
  BY <1>2, <1>4, <1>5, <1>6

\* It rises with the step.
LEMMA LineMonotone ==
    ASSUME TypeOK, Sane, NEW c \in -Steps .. Steps, NEW d \in -Steps .. Steps,
           c # 0, Magnitude(c) <= Magnitude(d)
    PROVE  Line(c) <= Line(d)
<1> DEFINE m == Magnitude(c) - 1
           n == Magnitude(d) - 1
           r == maxSpeed - minSpeed
           k == Steps - 1
<1>1. m \in Nat /\ n \in Nat /\ m <= n /\ k \in Nat \ {0}
  BY DEF Magnitude
<1>2. r \in Nat /\ minSpeed \in Int
  BY DEF TypeOK, Sane
<1>3. Line(c) = minSpeed + (m * r) \div k /\ Line(d) = minSpeed + (n * r) \div k
  BY DEF Line
<1> HIDE DEF m, n, r, k
<1>4. m * r \in Nat /\ n * r \in Nat /\ m * r <= n * r
  BY <1>1, <1>2, ProductMonotone
<1>5. (m * r) \div k <= (n * r) \div k
  BY <1>1, <1>4, QuotientMonotone
<1>6. (m * r) \div k \in Nat /\ (n * r) \div k \in Nat
  BY <1>1, <1>4, Quotient
<1> QED
  BY <1>2, <1>3, <1>5, <1>6

\* The range of a sane setting is not cut, and the code's line is Line.
LEMMA RangeKept ==
    ASSUME TypeOK, Sane
    PROVE  (maxSpeed - minSpeed) % Word = maxSpeed - minSpeed
BY DEF TypeOK, Sane

\* What the capped and wrapped offset of the code adds.
LEMMA OffsetAdds ==
    ASSUME TypeOK, NEW l \in 1 .. FullSpeed - 1
    PROVE  l + (IF offset > MaxOffset(l) THEN MaxOffset(l) ELSE offset) \div 4
             = Lifted(l)
<1> DEFINE half == FullSpeed \div 2
           room == IF l > half THEN FullSpeed - l ELSE half - l
<1>1. half \in Nat /\ FullSpeed = 2 * half /\ Word = 4 * half
  OBVIOUS
<1>2. l \in Nat /\ offset \in Nat
  BY DEF TypeOK
<1>3. room \in Nat
  BY <1>1, <1>2
<1>4. MaxOffset(l) = 4 * room
  <2>1. CASE l > half
    <3>1. (FullSpeed - l) * 4 \in 0 .. Word - 1
      BY <1>1, <1>2, <2>1
    <3> QED
      BY <1>1, <2>1, <3>1 DEF MaxOffset
  <2>2. CASE ~(l > half)
    <3>1. (FullSpeed - l) * 4 = 4 * (half - l) + Word /\ 4 * (half - l) \in 0 .. Word - 1
      BY <1>1, <1>2, <2>2
    <3>2. (4 * (half - l) + Word) % Word = 4 * (half - l)
      BY <1>1, <3>1
    <3> QED
      BY <1>1, <2>2, <3>1, <3>2 DEF MaxOffset
  <2> QED
    BY <2>1, <2>2
<1>5. (4 * room) \div 4 = room
  BY <1>3
<1>6. offset > 4 * room => offset \div 4 >= room
  BY <1>2, <1>3
<1>7. ~(offset > 4 * room) => offset \div 4 <= room
  BY <1>2, <1>3
<1>8. offset \div 4 \in Nat
  BY <1>2
<1>9. Lifted(l) = IF offset \div 4 > room THEN l + room ELSE l + offset \div 4
  BY <1>1, <1>2, <1>8 DEF Lifted
<1> HIDE DEF room
<1> QED
  BY <1>2, <1>3, <1>4, <1>5, <1>6, <1>7, <1>8, <1>9

LEMMA LiftedBounds ==
    ASSUME TypeOK, NEW l \in 1 .. FullSpeed - 1
    PROVE  Lifted(l) \in l .. FullSpeed
<1>1. offset \div 4 \in Nat
  BY DEF TypeOK
<1> QED
  BY <1>1 DEF Lifted

\* In spite of the jump in its cap.
LEMMA LiftedMonotone ==
    ASSUME TypeOK, NEW l \in 1 .. FullSpeed - 1, NEW h \in 1 .. FullSpeed - 1, l <= h
    PROVE  Lifted(l) <= Lifted(h)
<1>1. offset \div 4 \in Nat /\ FullSpeed \div 2 \in Nat /\ FullSpeed \div 2 <= FullSpeed
  BY DEF TypeOK
<1> QED
  BY <1>1 DEF Lifted

\* The speed meant for a step, and that it rises with the step.
LEMMA MeantBounds ==
    ASSUME TypeOK, Sane, NEW d \in -Steps .. Steps, d # 0
    PROVE  Meant(d) \in 8 .. FullSpeed
<1>1. Line(d) \in 8 .. FullSpeed - 1
  BY LineBounds DEF TypeOK, Sane
<1>2. Lifted(Line(d)) \in Line(d) .. FullSpeed
  BY <1>1, LiftedBounds
<1> QED
  BY <1>1, <1>2 DEF Meant

LEMMA MeantMonotone ==
    ASSUME TypeOK, Sane, NEW c \in -Steps .. Steps, NEW d \in -Steps .. Steps,
           c # 0, Magnitude(c) <= Magnitude(d), c < 0 <=> d < 0
    PROVE  Meant(c) <= Meant(d)
<1>0. d # 0
  BY DEF Magnitude
<1>1. Line(c) \in 8 .. FullSpeed - 1 /\ Line(d) \in 8 .. FullSpeed - 1
  BY <1>0, LineBounds DEF TypeOK, Sane
<1>2. Line(c) <= Line(d)
  BY LineMonotone
<1>3. Lifted(Line(c)) <= Lifted(Line(d))
  BY <1>1, <1>2, LiftedMonotone
<1> QED
  BY <1>2, <1>3 DEF Meant

-----------------------------------------------------------------------------
(* The inductive invariant *)

LEMMA InitSpeed == Init => SpeedInv
<1> SUFFICES ASSUME Init PROVE SpeedInv
  OBVIOUS
<1>1. maxSpeed \in BaseSpeed .. FullSpeed - 1
  <2>1. PICK v \in Velocities : maxSpeed = Speed(v)
    BY DEF Init
  <2>2. v \in 0 .. Word - 1 /\ v \div 8 \in Nat /\ v \div 8 <= (Word - 1) \div 8
    OBVIOUS
  <2> QED
    BY <2>1, <2>2 DEF Speed
<1>2. TypeOK
  <2>1. minSpeed \in Int /\ offset \in 0 .. Word - 1 /\ offsetDir \in BOOLEAN
    BY DEF Init
  <2>2. 0 \in -Steps .. Steps /\ 0 \in 0 .. Word - 1 /\ 0 \in Int
    OBVIOUS
  <2>3. before \in [desired : -Steps .. Steps, speed : Int]
    BY <2>2 DEF Init, NoCall
  <2> QED
    BY <1>1, <2>1, <2>2, <2>3 DEF Init, TypeOK
<1>3. CallInv
  BY DEF Init, CallInv, NoCall, Signed
<1>4. DutyInv
  BY DEF Init, DutyInv, Signed
<1> QED
  BY <1>2, <1>3, <1>4 DEF SpeedInv

\* A setter begins a new history and leaves the call in hand crossed.
LEMMA SetterSpeed == SpeedInv /\ Setter => SpeedInv'
<1> SUFFICES ASSUME SpeedInv, Setter PROVE SpeedInv'
  OBVIOUS
<1>0. TypeOK /\ DutyInv
  BY DEF SpeedInv
<1>1. /\ crossed' = TRUE /\ before' = NoCall
      /\ UNCHANGED <<pc, locals, drive>>
  BY DEF Setter, SetVelocity, SetMinSpeed, SetOffset, Set
<1>2. /\ maxSpeed' \in BaseSpeed .. FullSpeed - 1 /\ minSpeed' \in Int
      /\ offset' \in 0 .. Word - 1 /\ offsetDir' \in BOOLEAN
  <2>1. ASSUME NEW v \in Velocities, SetVelocity(v)
        PROVE  /\ maxSpeed' \in BaseSpeed .. FullSpeed - 1
               /\ UNCHANGED <<minSpeed, offset, offsetDir>>
    <3>1. v \div 8 \in Nat /\ v \div 8 <= (Word - 1) \div 8
      OBVIOUS
    <3> QED
      BY <2>1, <3>1 DEF SetVelocity, Speed
  <2>2. ASSUME NEW s \in MinSpeeds, SetMinSpeed(s)
        PROVE  minSpeed' \in Int /\ UNCHANGED <<maxSpeed, offset, offsetDir>>
    BY <2>2 DEF SetMinSpeed
  <2>3. ASSUME NEW o \in Offsets, NEW dir \in BOOLEAN, SetOffset(o, dir)
        PROVE  /\ offset' \in 0 .. Word - 1 /\ offsetDir' \in BOOLEAN
               /\ UNCHANGED <<maxSpeed, minSpeed>>
    BY <2>3 DEF SetOffset
  <2> QED
    BY <1>0, <2>1, <2>2, <2>3 DEF Setter, TypeOK
<1>3. TypeOK'
  BY <1>0, <1>1, <1>2 DEF TypeOK, NoCall, locals, drive
<1>4. CallInv'
  BY <1>1 DEF CallInv, NoCall, Signed
<1>5. DutyInv'
  BY <1>0, <1>1 DEF DutyInv, locals, drive
<1> QED
  BY <1>3, <1>4, <1>5 DEF SpeedInv

\* The steps of a call before its last: only a local and the place change.
LEMMA ReadSpeed ==
    SpeedInv /\ (UpdateDesired \/ ReadRange \/ ReadLerp \/ ReadOffset) => SpeedInv'
<1> SUFFICES ASSUME SpeedInv, UpdateDesired \/ ReadRange \/ ReadLerp \/ ReadOffset
             PROVE  SpeedInv'
  OBVIOUS
<1>0. TypeOK /\ CallInv /\ DutyInv
  BY DEF SpeedInv
<1>1. UNCHANGED <<settings, drive, before>> /\ pc' # "idle"
  BY DEF UpdateDesired, ReadRange, ReadLerp, ReadOffset
<1>2. DutyInv'
  BY <1>0, <1>1 DEF DutyInv, drive
<1>3. (Sane => before.speed = Signed(before.desired, Meant(before.desired)))'
  BY <1>0, <1>1 DEF CallInv, settings, Sane, Signed, Meant, Lifted, Line
<1>4. CASE UpdateDesired
  <2>1. TypeOK'
    BY <1>0, <1>4 DEF UpdateDesired, TypeOK, settings, drive
  <2>2. CallInv'
    BY <1>3, <1>4 DEF UpdateDesired, CallInv
  <2> QED
    BY <1>2, <2>1, <2>2 DEF SpeedInv
<1>5. CASE ReadRange
  <2>1. range' = (maxSpeed - minSpeed) % Word /\ pc' = "lerp"
        /\ UNCHANGED <<settings, desired, lerp, drive, crossed, before>>
    BY <1>5 DEF ReadRange
  <2>2. (maxSpeed - minSpeed) % Word \in 0 .. Word - 1
    BY <1>0 DEF TypeOK
  <2>3. TypeOK'
    BY <1>0, <2>1, <2>2 DEF TypeOK, settings, drive
  <2>4. Sane => range' = maxSpeed - minSpeed
    BY <1>0, <2>1, RangeKept
  <2>5. CallInv'
    BY <1>3, <2>1, <2>4 DEF CallInv, settings, Sane
  <2> QED
    BY <1>2, <2>3, <2>5 DEF SpeedInv
<1>6. CASE ReadLerp
  <2>1. /\ lerp' = minSpeed + ((Magnitude(desired) - 1) * range) \div (Steps - 1)
        /\ pc' = "offset" /\ pc = "lerp"
        /\ UNCHANGED <<settings, desired, range, drive, crossed, before>>
    BY <1>6 DEF ReadLerp
  <2>2. lerp' \in Int
    <3>1. Magnitude(desired) - 1 \in Int /\ range \in Int
      BY <1>0 DEF TypeOK, Magnitude
    <3>2. (Magnitude(desired) - 1) * range \in Int /\ Steps - 1 \in Nat \ {0}
      BY <3>1
    <3>3. ((Magnitude(desired) - 1) * range) \div (Steps - 1) \in Int
      BY <3>2
    <3> QED
      BY <1>0, <2>1, <3>3 DEF TypeOK
  <2>3. TypeOK'
    BY <1>0, <2>1, <2>2 DEF TypeOK, settings, drive
  <2>4. ~crossed /\ Sane => range = maxSpeed - minSpeed /\ lerp' = Line(desired)
    BY <1>0, <2>1 DEF CallInv, Line
  <2>5. Sane' = Sane /\ Line(desired)' = Line(desired) /\ range' = range
    BY <2>1 DEF Sane, Line, settings
  <2>6. CallInv'
    BY <1>3, <2>1, <2>4, <2>5 DEF CallInv, settings
  <2> QED
    BY <1>2, <2>3, <2>6 DEF SpeedInv
<1>7. CASE ReadOffset
  <2> DEFINE local == IF offset > MaxOffset(lerp) THEN MaxOffset(lerp) ELSE offset
  <2>1. /\ lerp' = IF Helped THEN lerp + local \div 4 ELSE lerp
        /\ pc' = "duty" /\ pc = "offset"
        /\ UNCHANGED <<settings, desired, range, drive, crossed, before>>
    BY <1>7 DEF ReadOffset
  <2>2. MaxOffset(lerp) \in Int
    BY <1>0 DEF TypeOK, MaxOffset
  <2>3. local \in Int /\ local \div 4 \in Int /\ lerp \in Int
    BY <1>0, <2>2 DEF TypeOK
  <2>4. TypeOK'
    BY <1>0, <2>1, <2>3 DEF TypeOK, settings, drive
  <2>5. ~crossed /\ Sane /\ desired # 0 => lerp' = Meant(desired)
    <3> SUFFICES ASSUME ~crossed, Sane, desired # 0 PROVE lerp' = Meant(desired)
      OBVIOUS
    <3>1. lerp = Line(desired)
      BY <1>0, <2>1 DEF CallInv
    <3>2. desired \in -Steps .. Steps
      BY <1>0 DEF TypeOK
    <3>3. Line(desired) \in 1 .. FullSpeed - 1
      BY <1>0, <3>2, LineBounds DEF TypeOK, Sane
    <3>4. Line(desired) + local \div 4 = Lifted(Line(desired))
      BY <1>0, <3>1, <3>3, OffsetAdds
    <3> QED
      BY <2>1, <3>1, <3>4 DEF Meant, Helped
  <2>6. /\ Sane' = Sane /\ Meant(desired)' = Meant(desired) /\ range' = range
        /\ maxSpeed' = maxSpeed /\ minSpeed' = minSpeed
    BY <2>1 DEF Sane, Meant, Lifted, Line, settings
  <2>7. ~crossed /\ Sane => range = maxSpeed - minSpeed
    BY <1>0, <2>1 DEF CallInv
  <2>8. CallInv'
    BY <1>3, <2>1, <2>5, <2>6, <2>7 DEF CallInv
  <2> QED
    BY <1>2, <2>4, <2>8 DEF SpeedInv
<1> QED
  BY <1>4, <1>5, <1>6, <1>7

\* The last step of a call.
LEMMA UpdateMeant ==
    ASSUME SpeedInv, UpdateSpeed, ~crossed, Sane
    PROVE  speed' = Signed(desired, Meant(desired))
<1>1. desired # 0 => lerp = Meant(desired)
  BY DEF SpeedInv, CallInv, UpdateSpeed
<1> QED
  BY <1>1 DEF UpdateSpeed, Signed

LEMMA UpdateSpeedInv == SpeedInv /\ UpdateSpeed => SpeedInv'
<1> SUFFICES ASSUME SpeedInv, UpdateSpeed PROVE SpeedInv'
  OBVIOUS
<1>0. TypeOK /\ CallInv /\ DutyInv
  BY DEF SpeedInv
<1> DEFINE duty == (Magnitude(speed') \div 8) % Word
<1>1. /\ pc' = "idle" /\ range' = 0 /\ lerp' = 0
      /\ forth' = IF speed' > 0 THEN duty ELSE 0
      /\ back' = IF speed' > 0 THEN 0 ELSE duty
      /\ before' = IF crossed THEN NoCall ELSE [desired |-> desired, speed |-> speed']
      /\ UNCHANGED <<settings, desired, crossed>>
  BY DEF UpdateSpeed
<1>2. speed' \in Int
  BY <1>0 DEF UpdateSpeed, TypeOK
<1>3. duty \in 0 .. Word - 1
  <2> HIDE DEF duty
  <2>1. \A x \in Int : (Magnitude(x) \div 8) % Word \in 0 .. Word - 1
    BY DEF Magnitude
  <2> QED
    BY <1>2, <2>1 DEF duty
<1>4. TypeOK'
  BY <1>0, <1>1, <1>2, <1>3 DEF TypeOK, settings, NoCall
<1>5. UNCHANGED <<maxSpeed, minSpeed, offset, offsetDir, desired, crossed>>
  BY <1>1 DEF settings
<1>6. ~crossed' /\ Sane' => speed' = Signed(desired, Meant(desired))'
  <2>1. ~crossed /\ Sane => speed' = Signed(desired, Meant(desired))
    BY UpdateMeant
  <2> QED
    BY <1>5, <2>1 DEF Sane, Signed, Meant, Lifted, Line
<1>7. DutyInv'
  <2>1. speed' > 0 => duty = (speed' \div 8) % Word
    BY <1>2 DEF Magnitude
  <2>2. ~(speed' > 0) => duty = ((-speed') \div 8) % Word
    BY <1>2 DEF Magnitude
  <2> QED
    BY <1>1, <1>6, <2>1, <2>2 DEF DutyInv
<1>8. (Sane => before.speed = Signed(before.desired, Meant(before.desired)))'
  <2>1. CASE crossed
    BY <1>1, <2>1 DEF NoCall, Signed
  <2>2. CASE ~crossed
    <3>1. before'.desired = desired' /\ before'.speed = speed'
      BY <1>1, <1>5, <2>2
    <3> QED
      BY <1>5, <1>6, <2>2, <3>1 DEF Signed, Meant, Lifted, Line
  <2> QED
    BY <2>1, <2>2
<1>9. CallInv'
  BY <1>1, <1>8 DEF CallInv
<1> QED
  BY <1>4, <1>7, <1>9 DEF SpeedInv

LEMMA NextSpeed == SpeedInv /\ [Next]_vars => SpeedInv'
<1> SUFFICES ASSUME SpeedInv, [Next]_vars PROVE SpeedInv'
  OBVIOUS
<1>1. CASE Next
  BY <1>1, SetterSpeed, ReadSpeed, UpdateSpeedInv DEF Next, Update
<1>2. CASE UNCHANGED vars
  BY <1>2 DEF vars, settings, locals, drive, SpeedInv, TypeOK, CallInv, DutyInv,
              Sane, Signed, Meant, Lifted, Line
<1> QED
  BY <1>1, <1>2

-----------------------------------------------------------------------------
(* Theorems *)

\* For all settings the arithmetic of updateDesired computes the speed that is
\* meant, whatever setters come between its reads.
THEOREM SpeedInvariant == Spec => []SpeedInv
<1>1. Init => SpeedInv
  BY InitSpeed
<1>2. SpeedInv /\ [Next]_vars => SpeedInv'
  BY NextSpeed
<1> QED
  BY <1>1, <1>2, PTL DEF Spec

\* With sane settings a nonzero step gives a duty from 1 to the whole period on
\* the channel of its direction, and step 0 none: what Motor assumes.
THEOREM SaneDrive == Spec => []DrivesAsAsked
<1>1. SpeedInv => DrivesAsAsked
  <2> SUFFICES ASSUME SpeedInv, pc = "idle", ~crossed, Sane
               PROVE  /\ forth \in (IF desired > 0 THEN 1 .. FullSpeed \div 8 ELSE {0})
                      /\ back \in (IF desired < 0 THEN 1 .. FullSpeed \div 8 ELSE {0})
    BY DEF DrivesAsAsked
  <2>1. desired \in -Steps .. Steps /\ TypeOK
    BY DEF SpeedInv, TypeOK
  <2>2. /\ forth = IF speed > 0 THEN (speed \div 8) % Word ELSE 0
        /\ back = IF speed > 0 THEN 0 ELSE ((-speed) \div 8) % Word
        /\ speed = Signed(desired, Meant(desired))
    BY DEF SpeedInv, DutyInv
  <2>3. CASE desired = 0
    BY <2>2, <2>3 DEF Signed
  <2>4. CASE desired # 0
    <3> DEFINE x == Meant(desired)
    <3>1. x \in 8 .. FullSpeed
      BY <2>1, <2>4, MeantBounds
    <3> HIDE DEF x
    <3>2. x \div 8 \in 1 .. FullSpeed \div 8 /\ x \div 8 < Word
      BY <3>1
    <3>3. (x \div 8) % Word = x \div 8
      BY <3>2
    <3>4. CASE desired > 0
      <4>1. speed = x /\ speed > 0
        BY <2>1, <2>2, <2>4, <3>1, <3>4 DEF Signed, x
      <4> QED
        BY <2>1, <2>2, <3>2, <3>3, <3>4, <4>1
    <3>5. CASE desired < 0
      <4>1. speed = -x /\ ~(speed > 0) /\ -speed = x
        BY <2>1, <2>2, <2>4, <3>1, <3>5 DEF Signed, x
      <4> QED
        BY <2>1, <2>2, <3>2, <3>3, <3>5, <4>1
    <3> QED
      BY <2>1, <2>4, <3>4, <3>5
  <2> QED
    BY <2>3, <2>4
<1> QED
  BY <1>1, SpeedInvariant, PTL

\* Asking for more in one direction never gives less.
THEOREM RampRises == Spec => NeverSlower
<1> DEFINE Slower ==
      pc = "duty" /\ pc' = "idle" /\ ~crossed /\ Sane
        /\ (desired < 0 <=> before.desired < 0)
        /\ 0 < Magnitude(before.desired)
        /\ Magnitude(before.desired) <= Magnitude(desired)
          => Magnitude(before.speed) <= Magnitude(speed')
<1>1. SpeedInv /\ [Next]_vars => [Slower]_vars
  <2> SUFFICES ASSUME SpeedInv, Next,
                      pc = "duty", pc' = "idle", ~crossed, Sane,
                      desired < 0 <=> before.desired < 0,
                      0 < Magnitude(before.desired),
                      Magnitude(before.desired) <= Magnitude(desired)
               PROVE  Magnitude(before.speed) <= Magnitude(speed')
    OBVIOUS
  <2> DEFINE c == before.desired
  <2>1. c \in -Steps .. Steps /\ desired \in -Steps .. Steps /\ TypeOK
    BY DEF SpeedInv, TypeOK
  <2>2. c # 0 /\ desired # 0
    BY <2>1 DEF Magnitude
  <2>3. UpdateSpeed
    BY DEF Next, Update, Setter, SetVelocity, SetMinSpeed, SetOffset, Set,
           UpdateDesired, ReadRange, ReadLerp, ReadOffset
  <2>4. speed' = Signed(desired, Meant(desired)) /\ before.speed = Signed(c, Meant(c))
    BY <2>3, UpdateMeant DEF SpeedInv, CallInv
  <2>5. Meant(c) <= Meant(desired)
    BY <2>1, <2>2, MeantMonotone
  <2>6. Meant(c) \in 8 .. FullSpeed /\ Meant(desired) \in 8 .. FullSpeed
    BY <2>1, <2>2, MeantBounds
  <2> HIDE DEF c
  <2>7. Magnitude(before.speed) = Meant(c) /\ Magnitude(speed') = Meant(desired)
    BY <2>1, <2>2, <2>4, <2>6 DEF Signed, Magnitude
  <2> QED
    BY <2>5, <2>7
<1> QED
  BY <1>1, SpeedInvariant, PTL DEF Spec, NeverSlower
=============================================================================
