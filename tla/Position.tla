------------------------------- MODULE Position -------------------------------
(***************************************************************************)
(* The arithmetic of positions: what a window-covering command becomes in   *)
(* ZigbeeSensor::zbCommand and BlindMotor, and what is reported back by     *)
(* triggerCallback and setBlindState, in their integer widths.             *)
(*                                                                         *)
(* A position is a uint64_t and the core has 32-bit words.  The motor task  *)
(* stores _exactPosition in two writes, in an order the compiler chooses; a *)
(* handler of the Zigbee task may come between them and read one half old   *)
(* and one half new.  Handlers are not interrupted by the motor task.      *)
(*                                                                         *)
(* The task then reads what it reports, turns it round and waits for the     *)
(* stack's lock: a handler in between changes the ends or the orientation   *)
(* under it.  (The one report app_main makes is in Motor and in Settings.)   *)
(*                                                                         *)
(* Where the shaft goes between two samples is the world's.  The sensor's   *)
(* min is the motor's _min (Settings shows when they part).                *)
(***************************************************************************)
EXTENDS Integers

CONSTANTS
    Half,       \* 2^32: values of a word
    Precise,    \* 2^45: up to it a percentage of a range is off by less than 1/Full
    Blur,       \* 2^13: by how much a product above it may be off
    Full,       \* 100 percent
    Unit,       \* 16: edges in a unit of lift
    LiftMod,    \* 2^16: lifts are uint16_t
    ByteMod,    \* 2^8: percentages are uint8_t
    Short,      \* 2^15: a nudge is an int16_t
    Starts,     \* positions at boot
    Ends,       \* the pairs <<min, max>> the preferences may hold
    Jumps,      \* how far the shaft gets between two samples
    Values, Percents, Nudges    \* what commands may name

PosMod == Half * Half

Pos == 0 .. PosMod - 1

ASSUME PositionAssumption ==
    /\ Half \in Nat /\ Half >= 2 /\ Precise \in Nat /\ Blur \in Nat
    /\ Full \in Nat \ {0} /\ Precise * (Full + 1) < PosMod
    /\ Unit \in Nat \ {0} /\ LiftMod \in Nat \ {0} /\ LiftMod * Unit <= PosMod
    /\ ByteMod \in Nat /\ Full + 1 < ByteMod
    /\ Short \in Nat \ {0} /\ Nudges \subseteq -Short .. Short - 1
    /\ Starts \subseteq Pos /\ Ends \subseteq Pos \X Pos /\ Jumps \subseteq Int
    /\ Values \subseteq 0 .. LiftMod - 1 /\ Percents \subseteq 0 .. ByteMod - 1

Wrap(x) == x % PosMod

VARIABLES
    hi, lo,         \* the words of _exactPosition
    sample,         \* its value in the motor task
    pc,             \* where the motor task is with it
    first,          \* the word it has stored first
    target,         \* _target
    min, max,       \* _min, _max
    setup, invert,  \* _setup, and the sensor's invert
    limit,          \* the sensor's max: the range as a lift
    percent, lift,  \* the reported attributes
    old,            \* history: what sample was before
    known,          \* history: positions sampled or loaded since the boot
    torn,           \* history: a handler has used half a carry
    asked,          \* history: the command target comes from
    got,            \* what the motor task has read, and turned, for its report
    crossed,        \* history: what it has read or turned by has changed since
    behind          \* history: the last report was crossed, or an end set since

words    == <<hi, lo>>
task     == <<sample, pc, first, old, known>>
settings == <<min, max, setup, invert, limit>>
report   == <<percent, lift, behind>>
making   == <<got, crossed>>
vars == <<words, task, target, settings, report, making, torn, asked>>

None == [kind |-> "none", value |-> 0]
Nothing == [percent |-> 0, lift |-> 0]

TypeOK ==
    /\ hi \in 0 .. Half - 1 /\ lo \in 0 .. Half - 1
    /\ sample \in Pos /\ old \in Pos /\ target \in Pos /\ min \in Pos /\ max \in Pos
    /\ pc \in {"loop", "store", "half", "report", "percent", "lift", "turn", "tell"}
    /\ first \in {"hi", "lo"}
    /\ setup \in BOOLEAN /\ invert \in BOOLEAN /\ torn \in BOOLEAN
    /\ behind \in BOOLEAN /\ crossed \in BOOLEAN
    /\ got \in [percent : 0 .. ByteMod - 1, lift : 0 .. LiftMod - 1]
    /\ limit \in 0 .. LiftMod - 1 /\ lift \in 0 .. LiftMod - 1
    /\ percent \in 0 .. ByteMod - 1
    /\ known \subseteq Pos
    /\ asked \in [kind : {"none", "value", "percent", "stop"}, value : Nat]

-----------------------------------------------------------------------------
(* Conversions *)

High(x) == x \div Half
Low(x) == x % Half

\* What a reader finds in the two words.
ExactPosition == Half * hi + lo

\* Mutation: scaled by 100.
PercentOfHundred(x) ==
    IF min = max THEN 0 .. ByteMod - 1
    ELSE {((Wrap(Wrap(x - min) * Full)) \div Wrap(max - min)) % ByteMod}

\* getPercent: scaled by 101, so that a blind that stops a little short of the
\* end has reached it.  Without a range the division gives anything.
PercentOf(x) ==
    IF min = max THEN 0 .. ByteMod - 1
    ELSE {((Wrap(Wrap(x - min) * (Full + 1))) \div Wrap(max - min)) % ByteMod}

\* getPosition.
LiftOf(x) == (Wrap(x - min) \div Unit) % LiftMod

\* setBlindState, and zbCommand, turn both round if the blind is inverted.
TurnedPercent(p, inv) == IF inv THEN (Full - p) % ByteMod ELSE p
TurnedLift(l, inv) == IF inv THEN (limit - l) % LiftMod ELSE l

\* The product of goPercent is a double cut to an integer: one less where p/100
\* has been rounded down, and blurred where the range has more than 45 bits; at
\* the top it overflows.
Products(p) ==
    LET span == Wrap(max - min)
        product == (p * span) \div Full
    IN IF span <= Precise
         THEN IF p \in 1 .. Full - 1 /\ span > 0 /\ (p * span) % Full = 0
                THEN {product - 1, product}
                ELSE {product}
         ELSE {x \in product - Blur .. product + Blur : x \in Pos}
                \cup (IF product + Blur >= PosMod THEN {0} ELSE {})

-----------------------------------------------------------------------------
(* Start *)

Init ==
    /\ sample \in Starts /\ old = sample /\ target = sample
    /\ hi = High(sample) /\ lo = Low(sample)
    /\ pc = "loop" /\ first = "hi"
    /\ \E e \in Ends : min = e[1] /\ max = e[2]
    /\ setup = FALSE /\ invert \in BOOLEAN
    /\ limit = (Wrap(max - min) \div Unit) % LiftMod
    /\ \E p \in PercentOf(sample) : percent = TurnedPercent(p, invert)
    /\ lift = TurnedLift(LiftOf(sample), invert)
    /\ known = {sample, min, max}
    /\ torn = FALSE /\ asked = None /\ behind = FALSE
    /\ got = Nothing /\ crossed = FALSE

-----------------------------------------------------------------------------
(* The motor task: take a sample, store it, report it *)

Sample(d) ==
    /\ pc = "loop" /\ pc' = "store"
    /\ sample' = Wrap(sample + d) /\ old' = sample
    /\ known' = known \cup {sample'}
    /\ UNCHANGED <<words, first, target, settings, report, making, torn, asked>>

StoreFirst(word) ==
    /\ pc = "store" /\ pc' = "half" /\ first' = word
    /\ IF word = "hi" THEN hi' = High(sample) /\ UNCHANGED lo
                      ELSE lo' = Low(sample) /\ UNCHANGED hi
    /\ UNCHANGED <<sample, old, known, target, settings, report, making, torn, asked>>

StoreSecond ==
    /\ pc = "half" /\ pc' = "report"
    /\ hi' = High(sample) /\ lo' = Low(sample)
    /\ UNCHANGED <<sample, first, old, known, target, settings, report, making, torn,
                   asked>>

\* triggerCallback evaluates getPercent and getPosition in either order.
ReadPercent ==
    /\ pc \in {"report", "lift"} /\ pc' = IF pc = "report" THEN "percent" ELSE "turn"
    /\ \E p \in PercentOf(ExactPosition) : got' = [got EXCEPT !.percent = p]
    /\ UNCHANGED <<words, sample, first, old, known, target, settings, report,
                   crossed, torn, asked>>

ReadLift ==
    /\ pc \in {"report", "percent"} /\ pc' = IF pc = "report" THEN "lift" ELSE "turn"
    /\ got' = [got EXCEPT !.lift = LiftOf(ExactPosition)]
    /\ UNCHANGED <<words, sample, first, old, known, target, settings, report,
                   crossed, torn, asked>>

\* setBlindState turns both round.  These three steps read several words each:
\* a handler between two of them has the report crossed as one before or after
\* has, and nothing is claimed of a crossed report.
Turn ==
    /\ pc = "turn" /\ pc' = "tell"
    /\ got' = [percent |-> TurnedPercent(got.percent, invert),
               lift |-> TurnedLift(got.lift, invert)]
    /\ UNCHANGED <<words, sample, first, old, known, target, settings, report,
                   crossed, torn, asked>>

\* Under the stack's lock, which it may have waited for, it sets the attributes.
Report ==
    /\ pc = "tell" /\ pc' = "loop"
    /\ percent' = got.percent /\ lift' = got.lift /\ behind' = crossed
    /\ got' = Nothing /\ crossed' = FALSE
    /\ UNCHANGED <<words, sample, first, old, known, target, settings, torn, asked>>

MotorStep ==
    \/ \E d \in Jumps : Sample(d)
    \/ \E word \in {"hi", "lo"} : StoreFirst(word)
    \/ StoreSecond
    \/ ReadPercent
    \/ ReadLift
    \/ Turn
    \/ Report

-----------------------------------------------------------------------------
(* The commands *)

\* The store under way carries into the high word, and is half done.
HalfCarried == pc = "half" /\ High(sample) # High(old)

\* What the task has read for its report does not count with the new ends.
HalfReported == pc \in {"percent", "lift", "turn", "tell"}

Aim(p, why) ==
    /\ target' = p /\ asked' = why
    /\ UNCHANGED <<words, task, settings, report, making>>

\* goPercent(p), for a command that named q.
GoPercent(p, q) ==
    /\ p <= Full
    /\ \E x \in Products(p) :
          Aim(Wrap(min + x), [kind |-> "percent", value |-> q])
    /\ UNCHANGED torn

\* Up and down, turned round by invert: to an end, or in setup for ever.
GoDirection(up) ==
    LET q == IF up THEN 0 ELSE Full
        p == TurnedPercent(q, invert)
    IN IF setup THEN Aim(IF p = 0 THEN 0 ELSE PosMod - 1, None) /\ UNCHANGED torn
                ELSE GoPercent(p, q)

GoToPercentage(q) == GoPercent(TurnedPercent(q, invert), q)

\* Mutation: any position is accepted.
GoToValueAnywhere(v) ==
    LET p == Wrap(min + TurnedLift(v, invert) * Unit)
    IN /\ Aim(p, [kind |-> "value", value |-> v])
       /\ UNCHANGED torn

\* A lift, turned round by invert within 16 bits; refused outside the ends.
GoToValue(v) ==
    LET p == Wrap(min + TurnedLift(v, invert) * Unit)
    IN /\ min <= p /\ p <= max
       /\ Aim(p, [kind |-> "value", value |-> v])
       /\ UNCHANGED torn

Stop ==
    /\ Aim(ExactPosition, [kind |-> "stop", value |-> 0])
    /\ torn' = (torn \/ HalfCarried)

\* The most negative distance is its own opposite.
Nudge(dist) ==
    LET d == IF invert /\ dist # -Short THEN -dist ELSE dist
        p == Wrap(ExactPosition + d)
    IN /\ setup \/ (min <= p /\ p <= max)
       /\ Aim(p, None)
       /\ torn' = (torn \/ HalfCarried)

\* A new end or orientation is another question: only a stop still stands.
Stopped == IF asked.kind = "stop" THEN asked ELSE None

\* Mutation: the end is where the blind is going.
SetLimitAhead(lower) ==
    /\ IF ~setup THEN UNCHANGED <<min, max, asked, behind, crossed, torn>>
       ELSE /\ IF lower # invert THEN min' = target /\ UNCHANGED max
                                 ELSE max' = target /\ UNCHANGED min
            /\ asked' = Stopped /\ behind' = TRUE
            /\ crossed' = (crossed \/ HalfReported)
            /\ torn' = (torn \/ HalfCarried)
    /\ limit' = (Wrap(max' - min') \div Unit) % LiftMod
    /\ UNCHANGED <<words, task, target, setup, invert, percent, lift, got>>

\* Mutation: only the upper end brings the limit up to date.
SetLimitUpperOnly(lower) ==
    /\ IF ~setup THEN UNCHANGED <<min, max, asked, behind, crossed, torn>>
       ELSE /\ IF lower # invert THEN min' = ExactPosition /\ UNCHANGED max
                                 ELSE max' = ExactPosition /\ UNCHANGED min
            /\ asked' = Stopped /\ behind' = TRUE
            /\ crossed' = (crossed \/ HalfReported)
            /\ torn' = (torn \/ HalfCarried)
    /\ limit' = IF lower # invert THEN limit ELSE (Wrap(max' - min') \div Unit) % LiftMod
    /\ UNCHANGED <<words, task, target, setup, invert, percent, lift, got>>

\* setLimit: in setup an end moves to where the blind is; the limit follows.
SetLimit(lower) ==
    /\ IF ~setup THEN UNCHANGED <<min, max, asked, behind, crossed, torn>>
       ELSE /\ IF lower # invert THEN min' = ExactPosition /\ UNCHANGED max
                                 ELSE max' = ExactPosition /\ UNCHANGED min
            /\ asked' = Stopped /\ behind' = TRUE
            /\ crossed' = (crossed \/ HalfReported)
            /\ torn' = (torn \/ HalfCarried)
    /\ limit' = (Wrap(max' - min') \div Unit) % LiftMod
    /\ UNCHANGED <<words, task, target, setup, invert, percent, lift, got>>

SetSetup(on) ==
    /\ setup' = on
    /\ UNCHANGED <<words, task, target, min, max, invert, limit, report, making, torn,
                   asked>>

\* triggerCallback in the handler, where nothing comes between.
Published(inv) ==
    /\ \E p \in PercentOf(ExactPosition) : percent' = TurnedPercent(p, inv)
    /\ lift' = TurnedLift(LiftOf(ExactPosition), inv)
    /\ behind' = FALSE

\* Mutation: the report that follows is the old way round.
SetInvertAfter ==
    /\ invert' = ~invert
    /\ Published(invert) /\ crossed' = (crossed \/ pc = "tell")
    /\ asked' = Stopped
    /\ UNCHANGED <<words, task, target, min, max, setup, limit, got, torn>>

\* setInvert, when it changes, and the report that setOffset makes.  The task's,
\* if it is turned round already, follows with the old way round.
SetInvert ==
    /\ invert' = ~invert
    /\ Published(~invert) /\ crossed' = (crossed \/ pc = "tell")
    /\ asked' = Stopped
    /\ UNCHANGED <<words, task, target, min, max, setup, limit, got, torn>>

Command ==
    \/ \E up \in BOOLEAN : GoDirection(up)
    \/ \E v \in Values : GoToValue(v)
    \/ \E q \in Percents : GoToPercentage(q)
    \/ \E d \in Nudges : Nudge(d)
    \/ Stop
    \/ \E lower \in BOOLEAN : SetLimit(lower)
    \/ \E on \in BOOLEAN : SetSetup(on)
    \/ SetInvert

Next == MotorStep \/ Command

Spec == Init /\ [][Next]_vars

-----------------------------------------------------------------------------
(* Properties *)

\* The two words by place in the store, and what is known of the samples.
WordsInv ==
    /\ hi = IF pc = "store" \/ (pc = "half" /\ first = "lo") THEN High(old)
            ELSE High(sample)
    /\ lo = IF pc = "store" \/ (pc = "half" /\ first = "hi") THEN Low(old)
            ELSE Low(sample)
    /\ sample \in known /\ old \in known

\* The words hold the sample but while it is stored, and the limit is that of
\* the ends.
PositionInv ==
    /\ TypeOK /\ WordsInv
    /\ limit = (Wrap(max - min) \div Unit) % LiftMod

\* Positions are shared without a lock: a stop aims at a position the blind has
\* had, and an end is one, as long as no handler falls into the middle of a
\* store that carries into the high word.  A blind that was never set up
\* starts at INT64_MAX, where the first edge carries.
ReadsWhole ==
    ~torn => /\ min \in known /\ max \in known
             /\ asked.kind = "stop" => target \in known

\* Ends in order, and a range of which a double gives percentages.
Ordered == min < max /\ max - min <= Precise

\* The commands that go to a height or a percentage, turned round or not, never
\* aim outside the ends.
AimsWithinEnds ==
    asked.kind \in {"value", "percent"} /\ Ordered => min <= target /\ target <= max

\* A range in which a percent is more than the rounding.
Fine == Ordered /\ Full * (Full + 1) <= max - min

\* What the report says at the upper end, which is at 101 hundredths: turned
\* round it is 255.
AtEnd == TurnedPercent(Full + 1, invert)

\* The attributes are current when the task is between two samples, unless its
\* report was crossed: a handler that sets an end, or the orientation, while the
\* report waits for the lock is overwritten with what was read before.
Current == pc = "loop" /\ ~behind

\* A blind that has come exactly to where it was sent reports what it was told:
\* through the cut products and quotients, the scale of 101 and the turning
\* round on the way there and back.  Only the upper end says AtEnd.
RoundTrip ==
    Current /\ sample = target =>
        /\ asked.kind = "value" => lift = asked.value
        /\ asked.kind = "percent" /\ Fine =>
              percent = IF TurnedPercent(asked.value, invert) = Full THEN AtEnd
                        ELSE asked.value

\* Within the ends the report is a percentage, except exactly at the upper end.
\* (An edge below the lower end it is anything.)
ReportsPercent ==
    Current /\ Fine /\ min <= sample /\ sample <= max =>
        percent \in 0 .. Full \/ (sample = max /\ percent = AtEnd)
=============================================================================
