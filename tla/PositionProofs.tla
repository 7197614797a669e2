---------------------------- MODULE PositionProofs ----------------------------
(***************************************************************************)
(* Theorems about Position: for all widths, ends and positions, in every    *)
(* interleaving of the motor task with the commands, what is read of a      *)
(* position, where commands aim and what is reported.                      *)
(***************************************************************************)
EXTENDS Position, TLAPS

USE PositionAssumption

-----------------------------------------------------------------------------
(* Division, words and remainders *)

LEMMA Quotient ==
    ASSUME NEW a \in Nat, NEW k \in Nat \ {0}
    PROVE  a \div k \in Nat /\ (a \div k) * k <= a /\ a < (a \div k) * k + k
OBVIOUS

LEMMA ProductMonotone ==
    ASSUME NEW a \in Int, NEW b \in Int, NEW r \in Nat, a <= b
    PROVE  a * r <= b * r
OBVIOUS

LEMMA ProductLess ==
    ASSUME NEW a \in Int, NEW b \in Int, NEW r \in Nat, a * r < b * r
    PROVE  a < b
OBVIOUS

\* A quotient is the number whose multiples enclose it.
LEMMA QuotientIs ==
    ASSUME NEW a \in Nat, NEW k \in Nat \ {0}, NEW q \in Nat,
           q * k <= a, a < (q + 1) * k
    PROVE  a \div k = q
<1> DEFINE p == a \div k
<1>1. p \in Nat /\ p * k <= a /\ a < (p + 1) * k
  BY Quotient
<1> HIDE DEF p
<1>2. p < q + 1
  <2>1. p * k < (q + 1) * k
    BY <1>1
  <2> QED
    BY <1>1, <2>1, ProductLess
<1>3. q < p + 1
  <2>1. q * k < (p + 1) * k
    BY <1>1
  <2> QED
    BY <1>1, <2>1, ProductLess
<1>4. p = q
  BY <1>1, <1>2, <1>3
<1> QED
  BY <1>4 DEF p

LEMMA PosModNat == PosMod \in Nat \ {0} /\ PosMod > Half
BY DEF PosMod

LEMMA WrapPos ==
    ASSUME NEW x \in Int
    PROVE  Wrap(x) \in Pos
<1>1. PosMod \in Nat \ {0}
  BY PosModNat
<1> QED
  BY <1>1 DEF Wrap, Pos

LEMMA WrapSmall ==
    ASSUME NEW x \in Pos
    PROVE  Wrap(x) = x
<1>1. PosMod \in Nat \ {0}
  BY PosModNat
<1> QED
  BY <1>1 DEF Wrap, Pos

\* A distance wraps there and back.
LEMMA WrapBack ==
    ASSUME NEW a \in Pos, NEW b \in Pos
    PROVE  Wrap(Wrap(a + b) - a) = b
<1>1. PosMod \in Nat \ {0}
  BY PosModNat
<1>2. a \in 0 .. PosMod - 1 /\ b \in 0 .. PosMod - 1
  BY DEF Pos
<1> HIDE DEF Pos
<1>3. CASE a + b < PosMod
  <2>1. (a + b) % PosMod = a + b
    BY <1>1, <1>2, <1>3
  <2>2. ((a + b) - a) % PosMod = b
    BY <1>1, <1>2
  <2> QED
    BY <2>1, <2>2 DEF Wrap
<1>4. CASE ~(a + b < PosMod)
  <2> DEFINE s == a + b - PosMod
  <2>1. s \in 0 .. PosMod - 1 /\ a + b = s + PosMod
    BY <1>1, <1>2, <1>4
  <2>2. (s + PosMod) % PosMod = s
    BY <1>1, <2>1
  <2>3. s - a = b - PosMod
    BY <1>1, <1>2
  <2>4. (b - PosMod) % PosMod = b
    BY <1>1, <1>2
  <2> HIDE DEF s
  <2> QED
    BY <2>1, <2>2, <2>3, <2>4 DEF Wrap
<1> QED
  BY <1>3, <1>4

\* A position is its two words, and two words are a position.
LEMMA Split ==
    ASSUME NEW x \in Pos
    PROVE  /\ High(x) \in 0 .. Half - 1 /\ Low(x) \in 0 .. Half - 1
           /\ Half * High(x) + Low(x) = x
<1>1. x \in Nat /\ x < Half * Half
  BY DEF Pos, PosMod
<1>2. High(x) \in Nat /\ High(x) * Half <= x
  BY <1>1, Quotient DEF High
<1>3. High(x) < Half
  <2>1. High(x) * Half < Half * Half
    BY <1>1, <1>2
  <2> QED
    BY <1>2, <2>1, ProductLess
<1>4. Low(x) \in 0 .. Half - 1 /\ Half * High(x) + Low(x) = x
  BY <1>1 DEF High, Low
<1> QED
  BY <1>2, <1>3, <1>4

LEMMA Join ==
    ASSUME NEW h \in 0 .. Half - 1, NEW l \in 0 .. Half - 1
    PROVE  Half * h + l \in Pos
<1>1. h * Half <= (Half - 1) * Half
  BY ProductMonotone
<1>2. (Half - 1) * Half = Half * Half - Half
  OBVIOUS
<1> QED
  BY <1>1, <1>2 DEF Pos, PosMod

LEMMA LiftType ==
    ASSUME NEW x \in Int
    PROVE  (Wrap(x) \div Unit) % LiftMod \in 0 .. LiftMod - 1
<1>1. Wrap(x) \in Nat
  BY WrapPos DEF Pos
<1> QED
  BY <1>1

\* The products of a percentage are integers.
LEMMA ProductsInt ==
    ASSUME TypeOK, NEW p \in Nat
    PROVE  Products(p) \subseteq Int
<1> DEFINE span == Wrap(max - min)
<1>1. span \in Nat
  BY WrapPos DEF Pos, TypeOK
<1> HIDE DEF span
<1>2. p * span \in Nat /\ (p * span) \div Full \in Nat
  BY <1>1
<1> QED
  BY <1>1, <1>2 DEF Products, Pos, span

\* What is reported is in range.
LEMMA PercentByte ==
    ASSUME min \in Pos, max \in Pos, NEW x \in Pos, NEW p \in PercentOf(x)
    PROVE  p \in 0 .. ByteMod - 1
<1>1. CASE min = max
  BY <1>1 DEF PercentOf
<1>2. CASE min # max
  <2> DEFINE a == Wrap(Wrap(x - min) * (Full + 1))
             k == Wrap(max - min)
  <2>1. p = (a \div k) % ByteMod
    BY <1>2 DEF PercentOf
  <2>2. a \in Nat /\ k \in Nat
    BY WrapPos DEF Pos
  <2>3. k # 0
    <3>1. max \in 0 .. PosMod - 1 /\ min \in 0 .. PosMod - 1 /\ PosMod \in Nat \ {0}
      BY PosModNat DEF Pos
    <3>2. CASE max > min
      <4>1. (max - min) % PosMod = max - min
        BY <3>1, <3>2
      <4> QED
        BY <3>1, <3>2, <4>1 DEF Wrap
    <3>3. CASE max < min
      <4>1. (max - min) % PosMod = max - min + PosMod
        BY <3>1, <3>3
      <4> QED
        BY <3>1, <3>3, <4>1 DEF Wrap
    <3> QED
      BY <1>2, <3>1, <3>2, <3>3
  <2> HIDE DEF a, k
  <2>4. a \div k \in Nat
    BY <2>2, <2>3
  <2> QED
    BY <2>1, <2>4
<1> QED
  BY <1>1, <1>2

LEMMA TurnedByte ==
    ASSUME NEW q \in 0 .. ByteMod - 1, NEW inv \in BOOLEAN
    PROVE  TurnedPercent(q, inv) \in 0 .. ByteMod - 1
BY DEF TurnedPercent

LEMMA PercentType ==
    ASSUME TypeOK, NEW x \in Pos, NEW inv \in BOOLEAN, NEW p \in PercentOf(x)
    PROVE  TurnedPercent(p, inv) \in 0 .. ByteMod - 1
BY PercentByte, TurnedByte DEF TypeOK

LEMMA TurnedLiftType ==
    ASSUME TypeOK, NEW l \in 0 .. LiftMod - 1, NEW inv \in BOOLEAN
    PROVE  TurnedLift(l, inv) \in 0 .. LiftMod - 1
BY DEF TurnedLift, TypeOK

-----------------------------------------------------------------------------
(* What each action does *)

\* The commands that aim leave everything else alone.
Aiming ==
    \/ \E up \in BOOLEAN : GoDirection(up)
    \/ \E v \in Values : GoToValue(v)
    \/ \E q \in Percents : GoToPercentage(q)
    \/ \E d \in Nudges : Nudge(d)
    \/ Stop

LEMMA GoPercentTypes ==
    ASSUME TypeOK, NEW p \in 0 .. ByteMod - 1, NEW q \in Nat, GoPercent(p, q)
    PROVE  /\ target' \in Pos /\ torn' = torn
           /\ asked' = [kind |-> "percent", value |-> q]
           /\ UNCHANGED <<words, task, settings, report, making>>
<1>1. PICK x \in Products(p) : Aim(Wrap(min + x), [kind |-> "percent", value |-> q])
  BY DEF GoPercent
<1>2. x \in Int /\ min \in Int
  BY ProductsInt DEF TypeOK, Pos
<1>3. Wrap(min + x) \in Pos
  BY <1>2, WrapPos
<1> QED
  BY <1>1, <1>3 DEF Aim, GoPercent

LEMMA NudgeTypes ==
    ASSUME TypeOK, NEW d \in Nudges, Nudge(d)
    PROVE  /\ target' \in Pos /\ asked' = None
           /\ torn' = (torn \/ HalfCarried)
           /\ UNCHANGED <<words, task, settings, report, making>>
<1> DEFINE n == IF invert /\ d # -Short THEN -d ELSE d
<1>1. n \in Int
  OBVIOUS
<1>2. ExactPosition \in Pos
  BY Join DEF ExactPosition, TypeOK
<1>3. ExactPosition + n \in Int
  BY <1>1, <1>2 DEF Pos
<1>4. Wrap(ExactPosition + n) \in Pos
  BY <1>3, WrapPos
<1>5. Aim(Wrap(ExactPosition + n), None) /\ torn' = (torn \/ HalfCarried)
  BY DEF Nudge
<1> HIDE DEF n
<1> QED
  BY <1>4, <1>5 DEF Aim

LEMMA ValueTypes ==
    ASSUME TypeOK, NEW v \in Values, GoToValue(v)
    PROVE  /\ target' = Wrap(min + TurnedLift(v, invert) * Unit) /\ target' \in Pos
           /\ min <= target' /\ target' <= max
           /\ asked' = [kind |-> "value", value |-> v] /\ torn' = torn
           /\ UNCHANGED <<words, task, settings, report, making>>
<1> DEFINE l == TurnedLift(v, invert)
<1>1. l \in Nat /\ min \in Nat
  BY TurnedLiftType DEF TypeOK, Pos
<1>2. min + l * Unit \in Int
  BY <1>1
<1>3. Wrap(min + l * Unit) \in Pos
  BY <1>2, WrapPos
<1> HIDE DEF l
<1>4. /\ Aim(Wrap(min + l * Unit), [kind |-> "value", value |-> v]) /\ torn' = torn
      /\ min <= Wrap(min + l * Unit) /\ Wrap(min + l * Unit) <= max
  BY DEF GoToValue, l
<1>5. target' = Wrap(min + l * Unit)
  BY <1>4 DEF Aim
<1> QED
  BY <1>3, <1>4, <1>5 DEF Aim, l

LEMMA DirectionTypes ==
    ASSUME TypeOK, NEW up \in BOOLEAN, GoDirection(up)
    PROVE  /\ target' \in Pos /\ torn' = torn
           /\ \/ asked' = None
              \/ \E q \in 0 .. ByteMod - 1 :
                    /\ asked' = [kind |-> "percent", value |-> q]
                    /\ GoPercent(TurnedPercent(q, invert), q)
           /\ UNCHANGED <<words, task, settings, report, making>>
<1> DEFINE q == IF up THEN 0 ELSE Full
           p == TurnedPercent(q, invert)
<1>1. q \in 0 .. ByteMod - 1 /\ invert \in BOOLEAN
  BY DEF TypeOK
<1>2. p \in 0 .. ByteMod - 1
  BY <1>1, TurnedByte
<1> HIDE DEF q
<1>3. CASE setup
  <2>1. Aim(IF p = 0 THEN 0 ELSE PosMod - 1, None) /\ torn' = torn
    BY <1>3 DEF GoDirection, q
  <2>2. 0 \in Pos /\ PosMod - 1 \in Pos
    BY PosModNat DEF Pos
  <2> QED
    BY <2>1, <2>2 DEF Aim
<1>4. CASE ~setup
  <2>1. GoPercent(p, q)
    BY <1>4 DEF GoDirection, q
  <2>2. q \in Nat
    BY <1>1
  <2> HIDE DEF p
  <2>3. /\ target' \in Pos /\ torn' = torn
        /\ asked' = [kind |-> "percent", value |-> q]
        /\ UNCHANGED <<words, task, settings, report, making>>
    BY <1>2, <2>1, <2>2, GoPercentTypes
  <2> QED
    BY <1>1, <2>1, <2>3 DEF p
<1> QED
  BY <1>3, <1>4

LEMMA PercentageTypes ==
    ASSUME TypeOK, NEW q \in Percents, GoToPercentage(q)
    PROVE  /\ target' \in Pos /\ torn' = torn
           /\ asked' = [kind |-> "percent", value |-> q]
           /\ GoPercent(TurnedPercent(q, invert), q)
           /\ UNCHANGED <<words, task, settings, report, making>>
<1>1. q \in 0 .. ByteMod - 1 /\ invert \in BOOLEAN
  BY DEF TypeOK
<1>2. TurnedPercent(q, invert) \in 0 .. ByteMod - 1
  BY <1>1, TurnedByte
<1>3. GoPercent(TurnedPercent(q, invert), q) /\ q \in Nat
  BY <1>1 DEF GoToPercentage
<1> QED
  BY <1>2, <1>3, GoPercentTypes

LEMMA StopTypes ==
    ASSUME TypeOK, Stop
    PROVE  /\ target' = ExactPosition /\ target' \in Pos
           /\ asked' = [kind |-> "stop", value |-> 0]
           /\ torn' = (torn \/ HalfCarried)
           /\ UNCHANGED <<words, task, settings, report, making>>
<1>1. ExactPosition \in Pos
  BY Join DEF ExactPosition, TypeOK
<1> QED
  BY <1>1 DEF Stop, Aim

LEMMA AimingTypes ==
    ASSUME TypeOK, Aiming
    PROVE  /\ target' \in Pos /\ torn' \in BOOLEAN
           /\ asked' \in [kind : {"none", "value", "percent", "stop"}, value : Nat]
           /\ UNCHANGED <<words, task, settings, report, making>>
<1>0. torn \in BOOLEAN /\ HalfCarried \in BOOLEAN
  BY DEF TypeOK, HalfCarried
<1>1. ASSUME NEW up \in BOOLEAN, GoDirection(up)
      PROVE  /\ target' \in Pos /\ torn' = torn
             /\ asked' \in [kind : {"none", "value", "percent", "stop"}, value : Nat]
             /\ UNCHANGED <<words, task, settings, report, making>>
  BY <1>1, DirectionTypes DEF None
<1>2. ASSUME NEW v \in Values, GoToValue(v)
      PROVE  /\ target' \in Pos /\ torn' = torn
             /\ asked' \in [kind : {"none", "value", "percent", "stop"}, value : Nat]
             /\ UNCHANGED <<words, task, settings, report, making>>
  <2>1. v \in Nat
    OBVIOUS
  <2> QED
    BY <1>2, <2>1, ValueTypes
<1>3. ASSUME NEW q \in Percents, GoToPercentage(q)
      PROVE  /\ target' \in Pos /\ torn' = torn
             /\ asked' \in [kind : {"none", "value", "percent", "stop"}, value : Nat]
             /\ UNCHANGED <<words, task, settings, report, making>>
  <2>1. q \in Nat
    OBVIOUS
  <2> QED
    BY <1>3, <2>1, PercentageTypes
<1> QED
  BY <1>0, <1>1, <1>2, <1>3, NudgeTypes, StopTypes DEF Aiming, None

\* What the words say is the sample before or the sample now, unless the store
\* carries and is half done; and it is the sample when none is under way.
LEMMA ReadIs ==
    ASSUME PositionInv
    PROVE  /\ ~HalfCarried => ExactPosition \in {old, sample}
           /\ pc \notin {"store", "half"} => ExactPosition = sample
           /\ ExactPosition \in Pos
<1>1. sample \in Pos /\ old \in Pos
  BY DEF PositionInv, TypeOK
<1>2. Half * High(sample) + Low(sample) = sample /\ Half * High(old) + Low(old) = old
  BY <1>1, Split
<1>3. /\ hi = IF pc = "store" \/ (pc = "half" /\ first = "lo") THEN High(old)
               ELSE High(sample)
      /\ lo = IF pc = "store" \/ (pc = "half" /\ first = "hi") THEN Low(old)
               ELSE Low(sample)
  BY DEF PositionInv, WordsInv
<1>4. ExactPosition \in Pos
  BY Join DEF ExactPosition, PositionInv, TypeOK
<1>5. pc \notin {"store", "half"} => ExactPosition = sample
  BY <1>2, <1>3 DEF ExactPosition
<1>6. ~HalfCarried => ExactPosition \in {old, sample}
  <2>1. CASE pc = "half"
    <3>1. ~HalfCarried => High(sample) = High(old)
      BY <2>1 DEF HalfCarried
    <3> QED
      BY <1>2, <1>3, <2>1, <3>1 DEF ExactPosition
  <2>2. CASE pc = "store"
    BY <1>2, <1>3, <2>2 DEF ExactPosition
  <2>3. CASE pc \notin {"store", "half"}
    BY <1>5, <2>3
  <2> QED
    BY <2>1, <2>2, <2>3
<1> QED
  BY <1>4, <1>5, <1>6

\* The report that follows a change of orientation.
LEMMA PublishedIs ==
    ASSUME PositionInv, NEW inv \in BOOLEAN, Published(inv), pc \notin {"store", "half"}
    PROVE  /\ \E p \in PercentOf(sample) : percent' = TurnedPercent(p, inv)
           /\ lift' = TurnedLift(LiftOf(sample), inv) /\ behind' = FALSE
BY ReadIs DEF Published

LEMMA PublishedTypes ==
    ASSUME PositionInv, NEW inv \in BOOLEAN, Published(inv)
    PROVE  /\ percent' \in 0 .. ByteMod - 1 /\ lift' \in 0 .. LiftMod - 1
           /\ behind' = FALSE
<1>1. ExactPosition \in Pos /\ TypeOK
  BY ReadIs DEF PositionInv
<1>2. percent' \in 0 .. ByteMod - 1
  BY <1>1, PercentType DEF Published
<1>3. ExactPosition - min \in Int
  BY <1>1 DEF TypeOK, Pos
<1>4. LiftOf(ExactPosition) \in 0 .. LiftMod - 1
  BY <1>3, LiftType DEF LiftOf
<1>5. TurnedLift(LiftOf(ExactPosition), inv) \in 0 .. LiftMod - 1
  BY <1>1, <1>4, TurnedLiftType
<1> QED
  BY <1>2, <1>5 DEF Published

-----------------------------------------------------------------------------
(* The words and the limit *)

LEMMA InitPosition == Init => PositionInv
<1> SUFFICES ASSUME Init PROVE PositionInv
  OBVIOUS
<1>1. sample \in Pos /\ min \in Pos /\ max \in Pos /\ invert \in BOOLEAN
  BY DEF Init
<1>2. limit = (Wrap(max - min) \div Unit) % LiftMod
  BY DEF Init
<1>3. limit \in 0 .. LiftMod - 1
  <2>1. max - min \in Int
    BY <1>1 DEF Pos
  <2> QED
    BY <1>2, <2>1, LiftType
<1>4. hi \in 0 .. Half - 1 /\ lo \in 0 .. Half - 1
  BY <1>1, Split DEF Init
<1>5. percent \in 0 .. ByteMod - 1
  <2>1. PICK p \in PercentOf(sample) : percent = TurnedPercent(p, invert)
    BY DEF Init
  <2>2. p \in 0 .. ByteMod - 1
    BY <1>1, <2>1, PercentByte
  <2> QED
    BY <1>1, <2>1, <2>2, TurnedByte
<1>6. lift \in 0 .. LiftMod - 1
  <2>1. sample - min \in Int
    BY <1>1 DEF Pos
  <2>2. LiftOf(sample) \in 0 .. LiftMod - 1
    BY <2>1, LiftType DEF LiftOf
  <2>3. lift = TurnedLift(LiftOf(sample), invert)
    BY DEF Init
  <2> QED
    BY <1>3, <2>2, <2>3 DEF TurnedLift
<1>7. Nothing \in [percent : 0 .. ByteMod - 1, lift : 0 .. LiftMod - 1]
  BY DEF Nothing
<1>8. TypeOK
  BY <1>1, <1>3, <1>4, <1>5, <1>6, <1>7 DEF Init, TypeOK, None
<1>9. WordsInv
  BY DEF Init, WordsInv
<1> QED
  BY <1>2, <1>8, <1>9 DEF PositionInv

LEMMA SamplePosition ==
    ASSUME PositionInv, NEW d \in Jumps, Sample(d)
    PROVE  PositionInv'
<1>0. TypeOK
  BY DEF PositionInv
<1>1. /\ pc = "loop" /\ pc' = "store" /\ sample' = Wrap(sample + d) /\ old' = sample
      /\ known' = known \cup {sample'}
      /\ UNCHANGED <<words, first, target, settings, report, making, torn, asked>>
  BY DEF Sample
<1>2. sample' \in Pos
  <2>1. sample + d \in Int
    BY <1>0 DEF TypeOK, Pos
  <2> QED
    BY <1>1, <2>1, WrapPos
<1>3. TypeOK'
  BY <1>0, <1>1, <1>2 DEF TypeOK, words, settings, report, making
<1>4. WordsInv'
  BY <1>1 DEF PositionInv, WordsInv, words
<1>5. (limit = (Wrap(max - min) \div Unit) % LiftMod)'
  BY <1>1 DEF PositionInv, settings
<1> QED
  BY <1>3, <1>4, <1>5 DEF PositionInv

LEMMA StorePosition ==
    ASSUME PositionInv, (\E word \in {"hi", "lo"} : StoreFirst(word)) \/ StoreSecond
    PROVE  PositionInv'
<1>0. TypeOK /\ WordsInv
  BY DEF PositionInv
<1>1. UNCHANGED <<sample, old, known, target, settings, report, making, torn, asked>>
  BY DEF StoreFirst, StoreSecond
<1>2. High(sample) \in 0 .. Half - 1 /\ Low(sample) \in 0 .. Half - 1
  BY <1>0, Split DEF TypeOK
<1>3. /\ hi' \in 0 .. Half - 1 /\ lo' \in 0 .. Half - 1
      /\ first' \in {"hi", "lo"} /\ pc' \in {"half", "report"}
  BY <1>0, <1>2 DEF StoreFirst, StoreSecond, TypeOK
<1>4. TypeOK'
  BY <1>0, <1>1, <1>3 DEF TypeOK, settings, report, making
<1>5. WordsInv'
  BY <1>0, <1>1 DEF WordsInv, StoreFirst, StoreSecond, High, Low
<1>6. (limit = (Wrap(max - min) \div Unit) % LiftMod)'
  BY <1>1 DEF PositionInv, settings
<1> QED
  BY <1>4, <1>5, <1>6 DEF PositionInv

\* What the task reads for its report, and turns round, is in range.
LEMMA ReadTypes ==
    ASSUME PositionInv, ReadPercent \/ ReadLift \/ Turn
    PROVE  /\ got' \in [percent : 0 .. ByteMod - 1, lift : 0 .. LiftMod - 1]
           /\ pc \in {"report", "percent", "lift", "turn"}
           /\ pc' \in {"percent", "lift", "turn", "tell"}
           /\ UNCHANGED <<words, sample, first, old, known, target, settings, report,
                          crossed, torn, asked>>
<1>0. TypeOK /\ ExactPosition \in Pos
  BY ReadIs DEF PositionInv
<1>1. got \in [percent : 0 .. ByteMod - 1, lift : 0 .. LiftMod - 1] /\ invert \in BOOLEAN
  BY <1>0 DEF TypeOK
<1>2. CASE ReadPercent
  <2>1. PICK p \in PercentOf(ExactPosition) : got' = [got EXCEPT !.percent = p]
    BY <1>2 DEF ReadPercent
  <2>2. p \in 0 .. ByteMod - 1
    BY <1>0, <2>1, PercentByte DEF TypeOK
  <2>3. got' \in [percent : 0 .. ByteMod - 1, lift : 0 .. LiftMod - 1]
    BY <1>1, <2>1, <2>2
  <2> QED
    BY <1>2, <2>3 DEF ReadPercent
<1>3. CASE ReadLift
  <2>1. ExactPosition - min \in Int
    BY <1>0 DEF TypeOK, Pos
  <2>2. LiftOf(ExactPosition) \in 0 .. LiftMod - 1
    BY <2>1, LiftType DEF LiftOf
  <2>3. got' = [got EXCEPT !.lift = LiftOf(ExactPosition)]
    BY <1>3 DEF ReadLift
  <2>4. got' \in [percent : 0 .. ByteMod - 1, lift : 0 .. LiftMod - 1]
    BY <1>1, <2>2, <2>3
  <2> QED
    BY <1>3, <2>4 DEF ReadLift
<1>4. CASE Turn
  <2>1. TurnedPercent(got.percent, invert) \in 0 .. ByteMod - 1
    BY <1>1, TurnedByte
  <2>2. TurnedLift(got.lift, invert) \in 0 .. LiftMod - 1
    BY <1>0, <1>1, TurnedLiftType
  <2> QED
    BY <1>4, <2>1, <2>2 DEF Turn
<1> QED
  BY <1>2, <1>3, <1>4

LEMMA ReadPosition ==
    ASSUME PositionInv, ReadPercent \/ ReadLift \/ Turn
    PROVE  PositionInv'
<1>0. TypeOK /\ WordsInv
  BY DEF PositionInv
<1>1. /\ got' \in [percent : 0 .. ByteMod - 1, lift : 0 .. LiftMod - 1]
      /\ pc \in {"report", "percent", "lift", "turn"}
      /\ pc' \in {"percent", "lift", "turn", "tell"}
      /\ UNCHANGED <<words, sample, first, old, known, target, settings, report,
                     crossed, torn, asked>>
  BY ReadTypes
<1>2. TypeOK'
  BY <1>0, <1>1 DEF TypeOK, words, settings, report
<1>3. WordsInv'
  BY <1>0, <1>1 DEF WordsInv, words
<1>4. (limit = (Wrap(max - min) \div Unit) % LiftMod)'
  BY <1>1 DEF PositionInv, settings
<1> QED
  BY <1>2, <1>3, <1>4 DEF PositionInv

LEMMA ReportPosition ==
    ASSUME PositionInv, Report
    PROVE  PositionInv'
<1>0. TypeOK /\ WordsInv
  BY DEF PositionInv
<1>1. /\ pc = "tell" /\ pc' = "loop"
      /\ percent' = got.percent /\ lift' = got.lift /\ behind' = crossed
      /\ got' = Nothing /\ crossed' = FALSE
      /\ UNCHANGED <<words, sample, first, old, known, target, settings, torn, asked>>
  BY DEF Report
<1>2. got' \in [percent : 0 .. ByteMod - 1, lift : 0 .. LiftMod - 1]
  BY <1>1 DEF Nothing
<1>3. TypeOK'
  BY <1>0, <1>1, <1>2 DEF TypeOK, words, settings
<1>4. WordsInv'
  BY <1>0, <1>1 DEF WordsInv, words
<1>5. (limit = (Wrap(max - min) \div Unit) % LiftMod)'
  BY <1>1 DEF PositionInv, settings
<1> QED
  BY <1>3, <1>4, <1>5 DEF PositionInv

LEMMA AimingPosition ==
    ASSUME PositionInv, Aiming
    PROVE  PositionInv'
<1>0. TypeOK /\ WordsInv
  BY DEF PositionInv
<1>1. /\ target' \in Pos /\ torn' \in BOOLEAN
      /\ asked' \in [kind : {"none", "value", "percent", "stop"}, value : Nat]
      /\ UNCHANGED <<words, task, settings, report, making>>
  BY <1>0, AimingTypes
<1>2. TypeOK'
  BY <1>0, <1>1 DEF TypeOK, words, task, settings, report, making
<1>3. WordsInv'
  BY <1>0, <1>1 DEF WordsInv, words, task
<1>4. (limit = (Wrap(max - min) \div Unit) % LiftMod)'
  BY <1>1 DEF PositionInv, settings
<1> QED
  BY <1>2, <1>3, <1>4 DEF PositionInv

\* The settings' handlers leave the words and the target.
LEMMA SettingPosition ==
    ASSUME PositionInv,
           \/ \E lower \in BOOLEAN : SetLimit(lower)
           \/ \E on \in BOOLEAN : SetSetup(on)
           \/ SetInvert
    PROVE  PositionInv'
<1>0. TypeOK /\ WordsInv
  BY DEF PositionInv
<1>1. UNCHANGED <<words, task, target>>
  BY DEF SetLimit, SetSetup, SetInvert
<1>2. WordsInv'
  BY <1>0, <1>1 DEF WordsInv, words, task
<1>3. Stopped \in [kind : {"none", "value", "percent", "stop"}, value : Nat]
  BY <1>0 DEF TypeOK, Stopped, None
<1>4. ASSUME NEW lower \in BOOLEAN, SetLimit(lower) PROVE PositionInv'
  <2>1. ExactPosition \in Pos
    BY ReadIs
  <2>2. min' \in Pos /\ max' \in Pos
    BY <1>0, <1>4, <2>1 DEF SetLimit, TypeOK
  <2>3. max' - min' \in Int
    BY <2>2 DEF Pos
  <2>4. limit' = (Wrap(max' - min') \div Unit) % LiftMod
    BY <1>4 DEF SetLimit
  <2>5. limit' \in 0 .. LiftMod - 1
    BY <2>3, <2>4, LiftType
  <2>6. torn' \in BOOLEAN /\ behind' \in BOOLEAN /\ crossed' \in BOOLEAN
    BY <1>0, <1>4 DEF SetLimit, TypeOK, HalfCarried, HalfReported
  <2>7. asked' \in [kind : {"none", "value", "percent", "stop"}, value : Nat]
    BY <1>0, <1>3, <1>4 DEF SetLimit, TypeOK
  <2>8. UNCHANGED <<setup, invert, percent, lift, got>>
    BY <1>4 DEF SetLimit
  <2>9. TypeOK'
    BY <1>0, <1>1, <2>2, <2>5, <2>6, <2>7, <2>8 DEF TypeOK, words, task
  <2>10. (limit = (Wrap(max - min) \div Unit) % LiftMod)'
    BY <2>4 DEF Wrap, PosMod
  <2> QED
    BY <1>2, <2>9, <2>10 DEF PositionInv
<1>5. ASSUME NEW on \in BOOLEAN, SetSetup(on) PROVE PositionInv'
  <2>1. /\ setup' \in BOOLEAN
        /\ UNCHANGED <<words, task, target, min, max, invert, limit, report, making, torn,
                     asked>>
    BY <1>5 DEF SetSetup
  <2>2. TypeOK'
    BY <1>0, <2>1 DEF TypeOK, words, task, report, making
  <2> QED
    BY <1>2, <2>1, <2>2 DEF PositionInv
<1>6. CASE SetInvert
  <2>1. /\ invert' = ~invert /\ Published(~invert) /\ asked' = Stopped
        /\ crossed' = (crossed \/ pc = "tell")
        /\ UNCHANGED <<words, task, target, min, max, setup, limit, got, torn>>
    BY <1>6 DEF SetInvert
  <2>2. percent' \in 0 .. ByteMod - 1 /\ lift' \in 0 .. LiftMod - 1 /\ behind' = FALSE
    BY <2>1, PublishedTypes
  <2>3. TypeOK'
    BY <1>0, <1>3, <2>1, <2>2 DEF TypeOK, words, task
  <2> QED
    BY <1>2, <2>1, <2>3 DEF PositionInv
<1> QED
  BY <1>4, <1>5, <1>6

LEMMA NextIs ==
    Next <=> \/ \E d \in Jumps : Sample(d)
             \/ (\E word \in {"hi", "lo"} : StoreFirst(word)) \/ StoreSecond
             \/ ReadPercent \/ ReadLift \/ Turn
             \/ Report
             \/ Aiming
             \/ \/ \E lower \in BOOLEAN : SetLimit(lower)
                \/ \E on \in BOOLEAN : SetSetup(on)
                \/ SetInvert
BY DEF Next, MotorStep, Command, Aiming

LEMMA NextPosition == PositionInv /\ [Next]_vars => PositionInv'
<1> SUFFICES ASSUME PositionInv, [Next]_vars PROVE PositionInv'
  OBVIOUS
<1>1. CASE Next
  BY <1>1, NextIs, SamplePosition, StorePosition, ReadPosition, ReportPosition,
     AimingPosition, SettingPosition
<1>2. CASE UNCHANGED vars
  BY <1>2 DEF vars, words, task, settings, report, making, PositionInv, TypeOK, WordsInv
<1> QED
  BY <1>1, <1>2

\* In every interleaving of the stores the two words are the old or the new
\* ones the task's place tells, and the sensor's limit is that of the ends.
THEOREM PositionInvariant == Spec => []PositionInv
<1>1. Init => PositionInv
  BY InitPosition
<1>2. PositionInv /\ [Next]_vars => PositionInv'
  BY NextPosition
<1> QED
  BY <1>1, <1>2, PTL DEF Spec

-----------------------------------------------------------------------------
(* What is read is a position the blind has had *)

LEMMA NextWhole == PositionInv /\ ReadsWhole /\ [Next]_vars => ReadsWhole'
<1> SUFFICES ASSUME PositionInv, ReadsWhole, [Next]_vars PROVE ReadsWhole'
  OBVIOUS
<1>0. TypeOK /\ sample \in known /\ old \in known
  BY DEF PositionInv, WordsInv
<1>1. ~HalfCarried => ExactPosition \in known
  BY <1>0, ReadIs
<1>2. torn \in BOOLEAN /\ HalfCarried \in BOOLEAN
  BY <1>0 DEF TypeOK, HalfCarried
<1>3. CASE \E d \in Jumps : Sample(d)
  BY <1>3 DEF Sample, ReadsWhole, settings
<1>4. CASE \/ (\E word \in {"hi", "lo"} : StoreFirst(word)) \/ StoreSecond
           \/ ReadPercent \/ ReadLift \/ Turn \/ Report
  BY <1>4 DEF StoreFirst, StoreSecond, ReadPercent, ReadLift, Turn, Report, ReadsWhole,
              settings
<1>5. CASE Aiming
  <2>1. UNCHANGED <<task, settings>>
    BY <1>0, <1>5, AimingTypes
  <2>2. CASE Stop
    BY <1>1, <1>2, <2>1, <2>2 DEF Stop, Aim, ReadsWhole, task, settings
  <2>3. ASSUME NEW d \in Nudges, Nudge(d) PROVE ReadsWhole'
    BY <1>0, <1>2, <2>1, <2>3, NudgeTypes DEF ReadsWhole, task, settings, None
  <2>4. ASSUME NEW v \in Values, GoToValue(v) PROVE ReadsWhole'
    BY <1>0, <2>1, <2>4, ValueTypes DEF ReadsWhole, task, settings
  <2>5. ASSUME NEW q \in Percents, GoToPercentage(q) PROVE ReadsWhole'
    BY <1>0, <2>1, <2>5, PercentageTypes DEF ReadsWhole, task, settings
  <2>6. ASSUME NEW up \in BOOLEAN, GoDirection(up) PROVE ReadsWhole'
    BY <1>0, <2>1, <2>6, DirectionTypes DEF ReadsWhole, task, settings, None
  <2> QED
    BY <1>5, <2>2, <2>3, <2>4, <2>5, <2>6 DEF Aiming
<1>6. ASSUME NEW lower \in BOOLEAN, SetLimit(lower) PROVE ReadsWhole'
  <2>1. UNCHANGED <<task, target>>
    BY <1>6 DEF SetLimit
  <2>2. CASE setup
    BY <1>1, <1>2, <1>6, <2>1, <2>2 DEF SetLimit, ReadsWhole, Stopped, None, task
  <2>3. CASE ~setup
    BY <1>6, <2>1, <2>3 DEF SetLimit, ReadsWhole, task
  <2> QED
    BY <2>2, <2>3
<1>7. CASE (\E on \in BOOLEAN : SetSetup(on)) \/ SetInvert
  BY <1>7 DEF SetSetup, SetInvert, Stopped, None, ReadsWhole, task
<1>8. CASE UNCHANGED vars
  BY <1>8 DEF ReadsWhole, vars, task, settings
<1> QED
  BY <1>3, <1>4, <1>5, <1>6, <1>7, <1>8, NextIs

\* As long as no handler reads half a carry, an end and the target of a stop
\* are positions the blind has had, or was loaded with.
THEOREM WholeReads == Spec => []ReadsWhole
<1>1. Init => ReadsWhole
  BY DEF Init, ReadsWhole, None
<1>2. PositionInv /\ ReadsWhole /\ [Next]_vars => ReadsWhole'
  BY NextWhole
<1> QED
  BY <1>1, <1>2, PositionInvariant, PTL DEF Spec

-----------------------------------------------------------------------------
(* Where commands aim *)

\* While the command stands, the target is what it makes of the ends, the limit
\* and the orientation.
AskedValue ==
    asked.kind = "value" =>
        /\ asked.value \in 0 .. LiftMod - 1
        /\ target = Wrap(min + TurnedLift(asked.value, invert) * Unit)
        /\ min <= target /\ target <= max

AskedPercent ==
    asked.kind = "percent" =>
        /\ asked.value \in 0 .. ByteMod - 1
        /\ TurnedPercent(asked.value, invert) <= Full
        /\ \E x \in Products(TurnedPercent(asked.value, invert)) : target = Wrap(min + x)

AskedInv == AskedValue /\ AskedPercent

\* A report of the sample, turned round.
Told(p, l) ==
    /\ \E q \in PercentOf(sample) : p = TurnedPercent(q, invert)
    /\ l = TurnedLift(LiftOf(sample), invert)

\* What the task has read and turned is so unless it was crossed, and the report
\* is while it is current.
ReportInv ==
    /\ ~crossed =>
          /\ pc \in {"percent", "turn"} => got.percent \in PercentOf(sample)
          /\ pc \in {"lift", "turn"} => got.lift = LiftOf(sample)
          /\ pc = "tell" => Told(got.percent, got.lift)
    /\ Current => Told(percent, lift)

LEMMA PercentAsked ==
    ASSUME TypeOK, NEW q \in 0 .. ByteMod - 1,
           GoPercent(TurnedPercent(q, invert), q),
           asked' = [kind |-> "percent", value |-> q],
           UNCHANGED <<words, task, settings, report, making>>
    PROVE  AskedInv'
<1>1. /\ UNCHANGED <<min, max, invert, limit>>
      /\ asked'.kind = "percent" /\ asked'.value = q
  BY DEF settings
<1>2. /\ TurnedPercent(q, invert) <= Full
      /\ \E x \in Products(TurnedPercent(q, invert)) : target' = Wrap(min + x)
  BY DEF GoPercent, Aim
<1>3. TurnedPercent(asked.value, invert)' = TurnedPercent(q, invert)
  BY <1>1 DEF TurnedPercent
<1>4. Products(TurnedPercent(asked.value, invert))' = Products(TurnedPercent(q, invert))
  BY <1>1, <1>3 DEF Products, Wrap, Pos, PosMod
<1>5. AskedPercent'
  BY <1>1, <1>2, <1>3, <1>4 DEF AskedPercent, Wrap, PosMod
<1>6. AskedValue'
  BY <1>1 DEF AskedValue
<1> QED
  BY <1>5, <1>6 DEF AskedInv

\* A stop, or no command, leaves nothing to show.
LEMMA NothingAsked ==
    ASSUME asked'.kind \in {"none", "stop"}
    PROVE  AskedInv'
BY DEF AskedInv, AskedValue, AskedPercent

LEMMA StillAsked ==
    ASSUME AskedInv, UNCHANGED <<target, asked, min, max, invert, limit>>
    PROVE  AskedInv'
<1>1. AskedValue'
  BY DEF AskedInv, AskedValue, TurnedLift, Wrap, PosMod
<1>2. Products(TurnedPercent(asked.value, invert))' = Products(TurnedPercent(asked.value, invert))
  BY DEF Products, Wrap, Pos, PosMod, TurnedPercent
<1>3. AskedPercent'
  BY <1>2 DEF AskedInv, AskedPercent, TurnedPercent, Wrap, PosMod
<1> QED
  BY <1>1, <1>3 DEF AskedInv

LEMMA NextAsked == PositionInv /\ AskedInv /\ [Next]_vars => AskedInv'
<1> SUFFICES ASSUME PositionInv, AskedInv, [Next]_vars PROVE AskedInv'
  OBVIOUS
<1>0. TypeOK
  BY DEF PositionInv
<1>1. CASE MotorStep \/ UNCHANGED vars
  BY <1>1, StillAsked DEF MotorStep, Sample, StoreFirst, StoreSecond, ReadPercent,
                          ReadLift, Turn, Report, settings, vars
<1>2. CASE Aiming
  <2>1. ASSUME NEW up \in BOOLEAN, GoDirection(up) PROVE AskedInv'
    BY <1>0, <2>1, DirectionTypes, PercentAsked, NothingAsked DEF None
  <2>2. ASSUME NEW v \in Values, GoToValue(v) PROVE AskedInv'
    <3>1. /\ target' = Wrap(min + TurnedLift(v, invert) * Unit)
          /\ min <= target' /\ target' <= max
          /\ asked' = [kind |-> "value", value |-> v]
          /\ UNCHANGED <<min, max, invert, limit>>
      BY <1>0, <2>2, ValueTypes DEF settings
    <3>2. AskedValue'
      BY <3>1 DEF AskedValue, TurnedLift, Wrap, PosMod
    <3>3. AskedPercent'
      BY <3>1 DEF AskedPercent
    <3> QED
      BY <3>2, <3>3 DEF AskedInv
  <2>3. ASSUME NEW q \in Percents, GoToPercentage(q) PROVE AskedInv'
    <3>1. q \in 0 .. ByteMod - 1
      OBVIOUS
    <3> QED
      BY <1>0, <2>3, <3>1, PercentageTypes, PercentAsked
  <2>4. ASSUME NEW d \in Nudges, Nudge(d) PROVE AskedInv'
    BY <1>0, <2>4, NudgeTypes, NothingAsked DEF None
  <2>5. CASE Stop
    BY <1>0, <2>5, StopTypes, NothingAsked
  <2> QED
    BY <1>2, <2>1, <2>2, <2>3, <2>4, <2>5 DEF Aiming
<1>3. ASSUME NEW lower \in BOOLEAN, SetLimit(lower) PROVE AskedInv'
  <2>1. CASE setup
    BY <1>3, <2>1, NothingAsked DEF SetLimit, Stopped, None
  <2>2. CASE ~setup
    <3>1. UNCHANGED <<target, asked, min, max, invert>>
      BY <1>3, <2>2 DEF SetLimit
    <3>2. limit' = limit
      BY <1>3, <3>1 DEF SetLimit, PositionInv
    <3> QED
      BY <3>1, <3>2, StillAsked
  <2> QED
    BY <2>1, <2>2
<1>4. CASE \E on \in BOOLEAN : SetSetup(on)
  BY <1>4, StillAsked DEF SetSetup
<1>5. CASE SetInvert
  BY <1>5, NothingAsked DEF SetInvert, Stopped, None
<1> QED
  BY <1>1, <1>2, <1>3, <1>4, <1>5, NextIs DEF Next, MotorStep

LEMMA AlwaysAsked == Spec => []AskedInv
<1>1. Init => AskedInv
  BY DEF Init, AskedInv, AskedValue, AskedPercent, None
<1> QED
  BY <1>1, NextAsked, PositionInvariant, PTL DEF Spec

LEMMA SameReport ==
    ASSUME ReportInv,
           UNCHANGED <<pc, behind, crossed, got, sample, percent, lift, min, max, invert,
                       limit>>
    PROVE  ReportInv'
<1>1. PercentOf(sample)' = PercentOf(sample) /\ LiftOf(sample)' = LiftOf(sample)
  BY DEF PercentOf, LiftOf, Wrap, PosMod
<1> QED
  BY <1>1 DEF ReportInv, Current, Told, TurnedPercent, TurnedLift

\* The task's own steps.
LEMMA MakesReport ==
    ASSUME PositionInv, ReportInv, ReadPercent \/ ReadLift \/ Turn \/ Report
    PROVE  ReportInv'
<1>1. UNCHANGED <<sample, min, max, invert, limit>>
  BY DEF ReadPercent, ReadLift, Turn, Report, settings
<1>2. PercentOf(sample)' = PercentOf(sample) /\ LiftOf(sample)' = LiftOf(sample)
  BY <1>1 DEF PercentOf, LiftOf, Wrap, PosMod
<1>3. TypeOK
  BY DEF PositionInv
<1>4. got \in [percent : 0 .. ByteMod - 1, lift : 0 .. LiftMod - 1]
  BY <1>3 DEF TypeOK
<1>5. CASE ReadPercent
  <2>1. ExactPosition = sample
    BY <1>5, ReadIs DEF ReadPercent
  <2>2. PICK p \in PercentOf(sample) : got' = [got EXCEPT !.percent = p]
    BY <1>5, <2>1 DEF ReadPercent
  <2>3. got'.percent = p /\ got'.lift = got.lift
    BY <1>4, <2>2
  <2>4. /\ crossed' = crossed /\ pc' \in {"percent", "turn"}
        /\ pc' = "turn" => pc = "lift"
    BY <1>5 DEF ReadPercent
  <2> QED
    BY <1>2, <2>2, <2>3, <2>4 DEF ReportInv, Current
<1>6. CASE ReadLift
  <2>1. ExactPosition = sample
    BY <1>6, ReadIs DEF ReadLift
  <2>2. got' = [got EXCEPT !.lift = LiftOf(sample)]
    BY <1>6, <2>1 DEF ReadLift
  <2>3. got'.lift = LiftOf(sample) /\ got'.percent = got.percent
    BY <1>4, <2>2
  <2>4. /\ crossed' = crossed /\ pc' \in {"lift", "turn"}
        /\ pc' = "turn" => pc = "percent"
    BY <1>6 DEF ReadLift
  <2> QED
    BY <1>2, <2>3, <2>4 DEF ReportInv, Current
<1>7. CASE Turn
  <2>1. /\ pc = "turn" /\ pc' = "tell" /\ crossed' = crossed
        /\ got'.percent = TurnedPercent(got.percent, invert)
        /\ got'.lift = TurnedLift(got.lift, invert)
    BY <1>7 DEF Turn
  <2>2. ~crossed => Told(got'.percent, got'.lift)
    BY <2>1 DEF ReportInv, Told
  <2>3. ~crossed => Told(got.percent, got.lift)'
    BY <1>1, <1>2, <2>2 DEF Told, TurnedPercent, TurnedLift
  <2> QED
    BY <2>1, <2>3 DEF ReportInv, Current
<1>8. CASE Report
  <2>1. /\ pc = "tell" /\ pc' = "loop" /\ behind' = crossed
        /\ percent' = got.percent /\ lift' = got.lift
    BY <1>8 DEF Report
  <2>2. ~crossed => Told(percent, lift)'
    BY <1>1, <1>2, <2>1 DEF ReportInv, Told, TurnedPercent, TurnedLift
  <2> QED
    BY <2>1, <2>2 DEF ReportInv, Current
<1> QED
  BY <1>5, <1>6, <1>7, <1>8

\* A new orientation is reported by the handler; the task's own report is turned
\* the new way, unless it is turned already and so crossed.
LEMMA InvertReport ==
    ASSUME PositionInv, ReportInv, SetInvert
    PROVE  ReportInv'
<1>1. /\ invert' = ~invert /\ Published(~invert) /\ crossed' = (crossed \/ pc = "tell")
      /\ UNCHANGED <<pc, sample, min, max, limit, got>>
  BY DEF SetInvert, task
<1>2. PercentOf(sample)' = PercentOf(sample) /\ LiftOf(sample)' = LiftOf(sample)
  BY <1>1 DEF PercentOf, LiftOf, Wrap, PosMod
<1>3. crossed \in BOOLEAN
  BY DEF PositionInv, TypeOK
<1>4. Current' => Told(percent, lift)'
  <2> SUFFICES ASSUME Current' PROVE Told(percent, lift)'
    OBVIOUS
  <2>1. pc \notin {"store", "half"}
    BY <1>1 DEF Current
  <2>2. /\ \E p \in PercentOf(sample) : percent' = TurnedPercent(p, ~invert)
        /\ lift' = TurnedLift(LiftOf(sample), ~invert)
    BY <1>1, <2>1, PublishedIs
  <2> QED
    BY <1>1, <1>2, <2>2 DEF Told, TurnedPercent, TurnedLift
<1> QED
  BY <1>1, <1>2, <1>3, <1>4 DEF ReportInv

LEMMA NextReport == PositionInv /\ ReportInv /\ [Next]_vars => ReportInv'
<1> SUFFICES ASSUME PositionInv, ReportInv, [Next]_vars PROVE ReportInv'
  OBVIOUS
<1>0. TypeOK
  BY DEF PositionInv
<1>1. CASE (\E d \in Jumps : Sample(d))
              \/ (\E word \in {"hi", "lo"} : StoreFirst(word)) \/ StoreSecond
  BY <1>1 DEF Sample, StoreFirst, StoreSecond, ReportInv, Current
<1>2. CASE ReadPercent \/ ReadLift \/ Turn \/ Report
  BY <1>2, MakesReport
<1>3. CASE Aiming
  BY <1>0, <1>3, SameReport, AimingTypes DEF task, settings, report, making
<1>4. ASSUME NEW lower \in BOOLEAN, SetLimit(lower) PROVE ReportInv'
  <2>0. crossed \in BOOLEAN
    BY <1>0 DEF TypeOK
  <2>1. CASE setup
    <3>1. /\ behind' = TRUE /\ crossed' = (crossed \/ HalfReported) /\ pc' = pc
      BY <1>4, <2>1 DEF SetLimit, task
    <3> QED
      BY <2>0, <3>1 DEF ReportInv, Current, HalfReported
  <2>2. CASE ~setup
    <3>1. UNCHANGED <<pc, behind, crossed, got, sample, percent, lift, min, max, invert>>
      BY <1>4, <2>2 DEF SetLimit, task
    <3>2. limit' = limit
      BY <1>4, <3>1 DEF SetLimit, PositionInv
    <3> QED
      BY <3>1, <3>2, SameReport
  <2> QED
    BY <2>1, <2>2
<1>5. CASE \E on \in BOOLEAN : SetSetup(on)
  BY <1>5, SameReport DEF SetSetup, task, report, making
<1>6. CASE SetInvert
  BY <1>6, InvertReport
<1>7. CASE UNCHANGED vars
  BY <1>7, SameReport DEF vars, task, settings, report, making
<1> QED
  BY <1>1, <1>2, <1>3, <1>4, <1>5, <1>6, <1>7, NextIs

LEMMA AlwaysReported == Spec => []ReportInv
<1>1. Init => ReportInv
  BY DEF Init, ReportInv, Told
<1> QED
  BY <1>1, NextReport, PositionInvariant, PTL DEF Spec

-----------------------------------------------------------------------------
(* Percentages there and back *)

\* With the ends in order the range does not wrap.
LEMMA Span ==
    ASSUME TypeOK, Ordered
    PROVE  /\ Wrap(max - min) = max - min /\ max - min \in 1 .. Precise
           /\ min \in Nat /\ max \in Nat
<1>1. PosMod \in Nat /\ min \in 0 .. PosMod - 1 /\ max \in 0 .. PosMod - 1
  BY PosModNat DEF TypeOK, Pos
<1>2. min < max /\ max - min <= Precise
  BY DEF Ordered
<1>3. max - min \in 0 .. PosMod - 1 /\ max - min \in 1 .. Precise
  BY <1>1, <1>2
<1> QED
  BY <1>1, <1>3, WrapSmall DEF Pos

\* A product is the part of the range the percentage asks for, short of it by
\* no more than an edge.
LEMMA ProductIs ==
    ASSUME TypeOK, Ordered, NEW p \in 0 .. Full, NEW x \in Products(p)
    PROVE  /\ x \in 0 .. max - min
           /\ Full * x <= p * (max - min)
           /\ p * (max - min) <= Full * x + Full
           /\ p = 0 => x = 0
           /\ p = Full => x = max - min
<1> DEFINE span == max - min
           product == (p * span) \div Full
<1>1. span \in 1 .. Precise /\ Wrap(max - min) = span
  BY Span
<1>2. x = product \/ (x = product - 1 /\ p \in 1 .. Full - 1 /\ (p * span) % Full = 0)
  BY <1>1 DEF Products
<1>3. p * span \in Nat
  BY <1>1
<1>4. product \in Nat /\ product * Full <= p * span /\ p * span < product * Full + Full
  BY <1>3, Quotient
<1>5. p * span <= Full * span
  BY <1>1, ProductMonotone
<1>6. product <= span
  <2> HIDE DEF product, span
  <2>1. product * Full < (span + 1) * Full
    BY <1>1, <1>4, <1>5
  <2>2. product < span + 1
    BY <1>1, <1>4, <2>1, ProductLess
  <2> QED
    BY <1>1, <1>4, <2>2
<1>7. p >= 1 => p * span >= 1
  BY <1>1
<1>8. p >= 1 /\ (p * span) % Full = 0 => product >= 1 /\ product * Full = p * span
  <2>1. (p * span) % Full = 0 => product * Full = p * span
    BY <1>3
  <2> HIDE DEF product, span
  <2>2. product = 0 => product * Full = 0
    BY <1>4
  <2> QED
    BY <1>4, <1>7, <2>1, <2>2
<1>9. p = 0 => product = 0
  <2>1. p = 0 => p * span = 0
    BY <1>1
  <2> QED
    BY <2>1
<1>10. p = Full => product = span
  <2>1. p = Full => p * span = span * Full
    BY <1>1
  <2> QED
    BY <1>1, <2>1
<1> HIDE DEF product, span
<1>11. x \in 0 .. span
  BY <1>1, <1>2, <1>4, <1>6, <1>8
<1>12. Full * x <= p * span /\ p * span <= Full * x + Full
  <2>1. CASE x = product
    BY <1>3, <1>4, <2>1
  <2>2. CASE x = product - 1 /\ p \in 1 .. Full - 1 /\ (p * span) % Full = 0
    <3>1. Full * x = product * Full - Full
      BY <1>4, <2>2
    <3> QED
      BY <1>3, <1>4, <1>8, <2>2, <3>1
  <2> QED
    BY <1>2, <2>1, <2>2
<1>13. (p = 0 => x = 0) /\ (p = Full => x = span)
  BY <1>2, <1>9, <1>10
<1> QED
  BY <1>11, <1>12, <1>13 DEF span

\* Between the ends nothing wraps.
LEMMA AimKept ==
    ASSUME TypeOK, Ordered, NEW x \in 0 .. max - min
    PROVE  Wrap(min + x) = min + x
<1>1. PosMod \in Nat /\ min \in 0 .. PosMod - 1 /\ max \in 0 .. PosMod - 1
  BY PosModNat DEF TypeOK, Pos
<1>2. min + x \in 0 .. PosMod - 1
  BY <1>1
<1> QED
  BY <1>2, WrapSmall DEF Pos

\* The distance from the lower end, scaled by Full + 1, does not wrap.
LEMMA PercentIs ==
    ASSUME TypeOK, Ordered, NEW x \in 0 .. max - min
    PROVE  PercentOf(min + x) = {((x * (Full + 1)) \div (max - min)) % ByteMod}
<1> DEFINE span == max - min
<1>1. span \in 1 .. Precise /\ Wrap(max - min) = span /\ min \in Nat /\ max \in Nat
  BY Span
<1>2. (min + x) - min = x /\ x \in Nat
  BY <1>1
<1>3. x * (Full + 1) <= Precise * (Full + 1) /\ x * (Full + 1) \in Nat
  BY <1>1, <1>2, ProductMonotone
<1>4. x * (Full + 1) \in Pos
  <2> DEFINE y == x * (Full + 1)
             m == Precise * (Full + 1)
  <2>1. m < PosMod /\ m \in Nat
    OBVIOUS
  <2>2. PosMod \in Nat
    BY PosModNat
  <2> HIDE DEF y, m
  <2> QED
    BY <1>3, <2>1, <2>2 DEF Pos, y, m
<1>5. x \in Pos
  <2>1. PosMod \in Nat /\ min \in 0 .. PosMod - 1 /\ max \in 0 .. PosMod - 1
    BY PosModNat DEF TypeOK, Pos
  <2>2. x \in 0 .. PosMod - 1
    BY <1>1, <2>1
  <2> QED
    BY <2>2 DEF Pos
<1>6. Wrap((min + x) - min) = x /\ Wrap(x * (Full + 1)) = x * (Full + 1)
  BY <1>2, <1>4, <1>5, WrapSmall
<1>7. min # max
  BY <1>1
<1> QED
  BY <1>1, <1>6, <1>7 DEF PercentOf

\* In a range that is fine enough, the percentage of the product is the one
\* asked for, and at the upper end one more.
LEMMA ProductPercent ==
    ASSUME TypeOK, Fine, NEW p \in 0 .. Full, NEW x \in Products(p)
    PROVE  PercentOf(min + x) = {IF p = Full THEN Full + 1 ELSE p}
<1> DEFINE span == max - min
           a == x * (Full + 1)
<1>0. Ordered /\ Full * (Full + 1) <= span
  BY DEF Fine
<1>1. span \in 1 .. Precise /\ x \in 0 .. span
  BY <1>0, Span, ProductIs
<1>2. PercentOf(min + x) = {(a \div span) % ByteMod}
  BY <1>0, <1>1, PercentIs
<1>3. a \in Nat /\ span \in Nat \ {0}
  BY <1>1
<1>4. /\ Full * x <= p * span /\ p * span <= Full * x + Full
      /\ p = 0 => x = 0
      /\ p = Full => x = span
  BY <1>0, ProductIs
<1>5. CASE p = Full
  <2>1. a = (Full + 1) * span /\ a < (Full + 1 + 1) * span
    BY <1>1, <1>4, <1>5
  <2> HIDE DEF a, span
  <2>2. a \div span = Full + 1
    BY <1>3, <2>1, QuotientIs
  <2>3. (Full + 1) % ByteMod = Full + 1
    OBVIOUS
  <2> QED
    BY <1>2, <1>5, <2>2, <2>3
<1>6. CASE p = 0
  <2>1. a = 0
    BY <1>1, <1>4, <1>6
  <2>2. 0 * span <= a /\ a < (0 + 1) * span
    BY <1>3, <2>1
  <2> HIDE DEF a, span
  <2>3. a \div span = 0
    BY <1>3, <2>2, QuotientIs
  <2> QED
    BY <1>2, <1>6, <2>3
<1>7. CASE p \in 1 .. Full - 1
  <2> DEFINE ps == p * span
             fx == Full * x
  <2>1. a = fx + x /\ fx \in Nat /\ ps \in Nat /\ x \in Nat
    BY <1>1
  <2>2. ps \in Nat /\ (p + 1) * span = ps + span
    BY <1>1
  <2>3. p * span <= a
    <3>1. ps <= fx + Full
      BY <1>4
    <3>2. x >= Full
      <4>1. 1 * span <= p * span
        BY <1>1, <1>7, ProductMonotone
      <4>2. (Full + 1) * Full <= fx + Full
        BY <1>0, <1>1, <1>4, <4>1
      <4>3. (Full - 1) * Full < x * Full
        BY <1>1, <4>2
      <4>4. Full - 1 < x
        BY <1>1, <4>3, ProductLess
      <4> QED
        BY <1>1, <4>4
    <3> QED
      BY <2>1, <3>1, <3>2
  <2>4. a < (p + 1) * span
    <3>1. x < span
      <4>1. p * span <= (Full - 1) * span
        BY <1>1, <1>7, ProductMonotone
      <4>2. (Full - 1) * span < Full * span
        BY <1>1
      <4>3. x * Full < span * Full
        BY <1>1, <1>4, <4>1, <4>2
      <4> QED
        BY <1>1, <4>3, ProductLess
    <3>2. fx <= ps
      BY <1>4
    <3> QED
      BY <1>1, <2>1, <2>2, <3>1, <3>2
  <2> HIDE DEF a, span, ps, fx
  <2>5. a \div span = p
    BY <1>3, <1>7, <2>3, <2>4, QuotientIs
  <2>6. p % ByteMod = p
    OBVIOUS
  <2> QED
    BY <1>2, <1>7, <2>5, <2>6
<1> QED
  BY <1>5, <1>6, <1>7

\* Turned round twice, within a byte and within 16 bits, is not turned.
LEMMA TurnBackPercent ==
    ASSUME NEW q \in 0 .. ByteMod - 1, NEW inv \in BOOLEAN
    PROVE  TurnedPercent(TurnedPercent(q, inv), inv) = q
<1>1. (Full - ((Full - q) % ByteMod)) % ByteMod = q
  <2>1. CASE q <= Full
    <3>1. (Full - q) % ByteMod = Full - q
      BY <2>1
    <3> QED
      BY <2>1, <3>1
  <2>2. CASE q > Full
    <3>1. (Full - q) % ByteMod = Full - q + ByteMod
      BY <2>2
    <3>2. Full - (Full - q + ByteMod) = q - ByteMod
      OBVIOUS
    <3>3. (q - ByteMod) % ByteMod = q
      OBVIOUS
    <3> QED
      BY <3>1, <3>2, <3>3
  <2> QED
    BY <2>1, <2>2
<1> QED
  BY <1>1 DEF TurnedPercent

LEMMA TurnBackLift ==
    ASSUME TypeOK, NEW v \in 0 .. LiftMod - 1
    PROVE  TurnedLift(TurnedLift(v, invert), invert) = v
<1>1. (limit - ((limit - v) % LiftMod)) % LiftMod = v
  <2>0. limit \in 0 .. LiftMod - 1
    BY DEF TypeOK
  <2>1. CASE v <= limit
    <3>1. (limit - v) % LiftMod = limit - v
      BY <2>0, <2>1
    <3> QED
      BY <2>0, <2>1, <3>1
  <2>2. CASE v > limit
    <3>1. (limit - v) % LiftMod = limit - v + LiftMod
      BY <2>0, <2>2
    <3>2. limit - (limit - v + LiftMod) = v - LiftMod
      BY <2>0
    <3>3. (v - LiftMod) % LiftMod = v
      OBVIOUS
    <3> QED
      BY <3>1, <3>2, <3>3
  <2> QED
    BY <2>0, <2>1, <2>2
<1> QED
  BY <1>1 DEF TurnedLift

\* The lift of the position a lift stands for is that lift.
LEMMA LiftBack ==
    ASSUME TypeOK, NEW l \in 0 .. LiftMod - 1
    PROVE  LiftOf(Wrap(min + l * Unit)) = l
<1>1. l * Unit \in Pos
  <2>1. l * Unit <= (LiftMod - 1) * Unit
    BY ProductMonotone
  <2>2. (LiftMod - 1) * Unit = LiftMod * Unit - Unit
    OBVIOUS
  <2>3. l * Unit \in Nat /\ LiftMod * Unit \in Nat /\ PosMod \in Nat /\ LiftMod * Unit <= PosMod
    BY PosModNat
  <2> QED
    BY <2>1, <2>2, <2>3 DEF Pos
<1>2. Wrap(Wrap(min + l * Unit) - min) = l * Unit
  BY <1>1, WrapBack DEF TypeOK
<1>3. l * Unit \in Nat /\ l * Unit <= l * Unit /\ l * Unit < (l + 1) * Unit
  OBVIOUS
<1>4. (l * Unit) \div Unit = l
  BY <1>3, QuotientIs
<1>5. l % LiftMod = l
  OBVIOUS
<1> QED
  BY <1>2, <1>4, <1>5 DEF LiftOf

-----------------------------------------------------------------------------
(* The theorems about commands and reports *)

\* A command for a height or a percentage never aims outside the ends.
THEOREM WithinEnds == Spec => []AimsWithinEnds
<1>1. PositionInv /\ AskedInv => AimsWithinEnds
  <2> SUFFICES ASSUME PositionInv, AskedInv, asked.kind \in {"value", "percent"}, Ordered
               PROVE  min <= target /\ target <= max
    BY DEF AimsWithinEnds
  <2>1. TypeOK
    BY DEF PositionInv
  <2>2. CASE asked.kind = "value"
    BY <2>2 DEF AskedInv, AskedValue
  <2>3. CASE asked.kind = "percent"
    <3> DEFINE p == TurnedPercent(asked.value, invert)
    <3>1. asked.value \in 0 .. ByteMod - 1 /\ p <= Full /\ invert \in BOOLEAN
      BY <2>1, <2>3 DEF AskedInv, AskedPercent, TypeOK
    <3>2. p \in 0 .. Full
      BY <3>1, TurnedByte
    <3>3. PICK x \in Products(p) : target = Wrap(min + x)
      BY <2>3 DEF AskedInv, AskedPercent
    <3> HIDE DEF p
    <3>4. x \in 0 .. max - min
      BY <2>1, <3>2, ProductIs
    <3>5. target = min + x /\ min \in Nat /\ max \in Nat
      BY <2>1, <3>3, <3>4, AimKept, Span
    <3> QED
      BY <3>4, <3>5
  <2> QED
    BY <2>2, <2>3
<1> QED
  BY <1>1, PositionInvariant, AlwaysAsked, PTL

\* A blind that comes to where it was sent reports what it was told.
THEOREM ComesBack == Spec => []RoundTrip
<1>1. PositionInv /\ AskedInv /\ ReportInv => RoundTrip
  <2> SUFFICES ASSUME PositionInv, AskedInv, ReportInv, Current, sample = target
               PROVE  /\ asked.kind = "value" => lift = asked.value
                      /\ asked.kind = "percent" /\ Fine =>
                            percent = IF TurnedPercent(asked.value, invert) = Full
                                      THEN AtEnd ELSE asked.value
    BY DEF RoundTrip
  <2>1. TypeOK /\ invert \in BOOLEAN
    BY DEF PositionInv, TypeOK
  <2>2. ASSUME asked.kind = "value" PROVE lift = asked.value
    <3> DEFINE l == TurnedLift(asked.value, invert)
    <3>1. asked.value \in 0 .. LiftMod - 1 /\ sample = Wrap(min + l * Unit)
      BY <2>2 DEF AskedInv, AskedValue
    <3>2. l \in 0 .. LiftMod - 1
      BY <2>1, <3>1, TurnedLiftType
    <3>3. lift = TurnedLift(LiftOf(sample), invert)
      BY DEF ReportInv, Told
    <3>4. TurnedLift(l, invert) = asked.value
      BY <2>1, <3>1, TurnBackLift
    <3> HIDE DEF l
    <3>5. LiftOf(sample) = l
      BY <2>1, <3>1, <3>2, LiftBack
    <3> QED
      BY <3>3, <3>4, <3>5
  <2>3. ASSUME asked.kind = "percent", Fine
        PROVE  percent = IF TurnedPercent(asked.value, invert) = Full
                         THEN AtEnd ELSE asked.value
    <3> DEFINE p == TurnedPercent(asked.value, invert)
    <3>1. asked.value \in 0 .. ByteMod - 1 /\ p <= Full
      BY <2>3 DEF AskedInv, AskedPercent
    <3>2. p \in 0 .. Full /\ TurnedPercent(p, invert) = asked.value
      BY <2>1, <3>1, TurnedByte, TurnBackPercent
    <3>3. PICK x \in Products(p) : sample = Wrap(min + x)
      BY <2>3 DEF AskedInv, AskedPercent
    <3>4. PICK r \in PercentOf(sample) : percent = TurnedPercent(r, invert)
      BY DEF ReportInv, Told
    <3>5. (p = Full) = (TurnedPercent(asked.value, invert) = Full)
      OBVIOUS
    <3> HIDE DEF p
    <3>6. x \in 0 .. max - min
      BY <2>1, <2>3, <3>2, ProductIs DEF Fine
    <3>7. sample = min + x
      BY <2>1, <2>3, <3>3, <3>6, AimKept DEF Fine
    <3>8. r = IF p = Full THEN Full + 1 ELSE p
      BY <2>1, <2>3, <3>2, <3>4, <3>7, ProductPercent
    <3> QED
      BY <3>2, <3>4, <3>5, <3>8 DEF AtEnd
  <2> QED
    BY <2>2, <2>3
<1> QED
  BY <1>1, PositionInvariant, AlwaysAsked, AlwaysReported, PTL

\* Within the ends the report is a percentage, but for the one at the upper end.
THEOREM PercentReported == Spec => []ReportsPercent
<1>1. PositionInv /\ ReportInv => ReportsPercent
  <2> SUFFICES ASSUME PositionInv, ReportInv, Current, Fine, min <= sample, sample <= max
               PROVE  percent \in 0 .. Full \/ (sample = max /\ percent = AtEnd)
    BY DEF ReportsPercent
  <2> DEFINE x == sample - min
             span == max - min
             a == x * (Full + 1)
  <2>1. TypeOK /\ invert \in BOOLEAN /\ Ordered
    BY DEF PositionInv, TypeOK, Fine
  <2>2. span \in 1 .. Precise /\ min \in Nat /\ max \in Nat /\ sample \in Nat
    BY <2>1, Span DEF TypeOK, Pos
  <2>3. x \in 0 .. span /\ min + x = sample
    BY <2>2
  <2>4. PICK r \in PercentOf(sample) : percent = TurnedPercent(r, invert)
    BY DEF ReportInv, Told
  <2> HIDE DEF x
  <2>5. r = (a \div span) % ByteMod
    BY <2>1, <2>3, <2>4, PercentIs
  <2>6. a \in Nat /\ span \in Nat \ {0}
    BY <2>2, <2>3
  <2>7. CASE x = span
    <3>1. (Full + 1) * span <= a /\ a < (Full + 1 + 1) * span
      BY <2>2, <2>7
    <3>0. Full + 1 \in Nat
      OBVIOUS
    <3> HIDE DEF a, span
    <3>2. a \div span = Full + 1
      BY <2>6, <3>0, <3>1, QuotientIs
    <3>3. r = Full + 1
      BY <2>5, <3>2
    <3>4. sample = max
      BY <2>2, <2>3, <2>7 DEF span
    <3> QED
      BY <2>4, <3>3, <3>4 DEF AtEnd
  <2>8. CASE x # span
    <3>1. x < span
      BY <2>2, <2>3, <2>8
    <3>2. a < (Full + 1) * span
      BY <2>2, <2>3, <3>1
    <3> HIDE DEF a, span
    <3> DEFINE q == a \div span
    <3>3. q \in Nat /\ q * span <= a
      BY <2>6, Quotient
    <3> HIDE DEF q
    <3>4. q < Full + 1
      <4>1. q * span < (Full + 1) * span
        BY <2>6, <3>2, <3>3
      <4> QED
        BY <2>6, <3>3, <4>1, ProductLess
    <3>5. q \in 0 .. Full /\ q % ByteMod = q
      BY <3>3, <3>4
    <3>6. r \in 0 .. Full
      BY <2>5, <3>5 DEF q
    <3>7. TurnedPercent(r, invert) \in 0 .. Full
      BY <2>1, <3>6 DEF TurnedPercent
    <3> QED
      BY <2>4, <3>7
  <2> QED
    BY <2>7, <2>8
<1> QED
  BY <1>1, PositionInvariant, AlwaysReported, PTL
=============================================================================
