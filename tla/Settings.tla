-------------------------------- MODULE Settings --------------------------------
(***************************************************************************)
(* The blind's settings and its report, main/sensor.cpp: init, onConnect,   *)
(* zbAttributeSet, setInvert, setLimit and setBlindState, with the setters, *)
(* triggerCallback and moveCallback of main/ext/motor.cpp.                  *)
(*                                                                         *)
(* A setting lives in up to four places: the sensor's memory, the motor's,  *)
(* the flash and the stack's attribute.  A handler (Zigbee task) changes    *)
(* them one after the other, and may have to wait for the flash while the   *)
(* motor task or app_main make a report; a report reads its inputs step by  *)
(* step and waits for the stack's lock, which a handler holds throughout.   *)
(*                                                                         *)
(* A report is the values it is computed from: the percentage comes from    *)
(* the position and both ends, the lift from the position and the lower     *)
(* end, and both are turned round by invert and the limit.  The arithmetic  *)
(* is not modelled here.                                                   *)
(***************************************************************************)
EXTENDS Integers

CONSTANTS
    Positions,  \* of the blind
    Plain,      \* the settings that are a number, see SettingsAssumption
    Values,     \* theirs
    Unread      \* what a report has not read yet

ASSUME SettingsAssumption ==
    /\ Positions # {} /\ Values # {}
    /\ Plain \subseteq {"velocity", "minSpeed", "keepAlive", "offset"}

VARIABLES
    min, limit, invert, plain,      \* the sensor's; limit is <<min, max>>
    mMin, mMax, offsetDir, mPlain, setup,   \* the motor's
    fMin, fMax, fInvert, fPlain,    \* the flash's
    aLimit, aInvert, aReverse, aCalibrate, aPlain,  \* the attributes
    online,     \* onConnect has set the attributes
    zb,         \* the handler's next step
    arg,        \* and the setting it is about
    failed,     \* history: the settings whose last write to flash failed
    pos,        \* _exactPosition
    cb,         \* _on_move is set
    active,     \* the tasks that are making a report: motor, app
    read,       \* what each has read for it
    pub,        \* the reported attributes
    crossed,    \* history: reports whose inputs changed under way
    behind      \* history: the last one was, or an end has moved since

sensor == <<min, limit, invert, plain>>
motor == <<mMin, mMax, offsetDir, mPlain, setup>>
flash == <<fMin, fMax, fInvert, fPlain>>
attributes == <<aLimit, aInvert, aReverse, aCalibrate, aPlain, online>>
handler == <<zb, arg>>
reports == <<active, read, pub, crossed, behind>>
vars == <<sensor, motor, flash, attributes, handler, failed, pos, cb, reports>>

Keys == Plain \cup {"invert", "min", "max"}

\* keepAlive goes to the stack only.
MotorKeys == Plain \ {"keepAlive"}

Reporters == {"motor", "app"}

Percent == [at |-> pos, min |-> mMin, max |-> mMax]
Lift == [at |-> pos, min |-> mMin]
Orient == [invert |-> invert, limit |-> limit]
Current == [percent |-> Percent, lift |-> Lift, orient |-> Orient]

Percents == [at : Positions, min : Positions, max : Positions]
Lifts == [at : Positions, min : Positions]
Orients == [invert : BOOLEAN, limit : Positions \X Positions]
NoReads == [percent |-> Unread, lift |-> Unread, orient |-> Unread]

PlaceType ==
    /\ {min, mMin, mMax, fMin, fMax, pos} \subseteq Positions
    /\ limit \in Positions \X Positions /\ aLimit \in Positions \X Positions
    /\ plain \in [Plain -> Values] /\ fPlain \in [Plain -> Values]
    /\ aPlain \in [Plain -> Values] /\ mPlain \in [MotorKeys -> Values]

FlagType ==
    /\ invert \in BOOLEAN /\ offsetDir \in BOOLEAN /\ setup \in BOOLEAN
    /\ fInvert \in BOOLEAN /\ aInvert \in BOOLEAN /\ aReverse \in BOOLEAN
    /\ aCalibrate \in BOOLEAN /\ online \in BOOLEAN /\ cb \in BOOLEAN
    /\ behind \in BOOLEAN

StepType ==
    /\ zb \in {"idle", "put", "tell"} /\ arg \in Keys \cup {"none"}
    /\ zb # "idle" => arg \in Keys
    /\ failed \subseteq Keys
    /\ active \subseteq Reporters /\ crossed \subseteq Reporters

ReportType ==
    /\ read \in [Reporters -> [percent : Percents \cup {Unread},
                                lift : Lifts \cup {Unread},
                                orient : Orients \cup {Unread}]]
    /\ pub \in [percent : Percents, lift : Lifts, orient : Orients]

TypeOK == PlaceType /\ FlagType /\ StepType /\ ReportType

-----------------------------------------------------------------------------
(* Boot *)

\* The attributes have the values they were created with; nothing is reported.
Created == CHOOSE l \in Positions \X Positions : TRUE
CreatedPlain == [k \in Plain |-> CHOOSE v \in Values : TRUE]

Init ==
    /\ fMin \in Positions /\ fMax \in Positions /\ fInvert \in BOOLEAN
    /\ fPlain \in [Plain -> Values] /\ pos \in Positions
    /\ min = fMin /\ limit = <<fMin, fMax>> /\ invert = fInvert /\ plain = fPlain
    /\ mMin = fMin /\ mMax = fMax /\ setup = FALSE
    /\ offsetDir = ~fInvert /\ mPlain = [k \in MotorKeys |-> fPlain[k]]
    /\ aLimit = Created /\ aPlain = CreatedPlain
    /\ aInvert = FALSE /\ aReverse = FALSE /\ aCalibrate = FALSE
    /\ online = FALSE /\ cb = FALSE /\ zb = "idle" /\ arg = "none"
    /\ failed = {} /\ active = {} /\ crossed = {} /\ behind = FALSE
    /\ read = [r \in Reporters |-> NoReads]
    /\ pub = Current

\* ZigbeeSensor::init.
Load ==
    /\ min' = fMin /\ limit' = <<fMin, fMax>> /\ invert' = fInvert
    /\ plain' = fPlain /\ mMin' = fMin /\ mMax' = fMax
    /\ offsetDir' = ~fInvert /\ mPlain' = [k \in MotorKeys |-> fPlain[k]]

\* The chip restarts, wherever its tasks are; the position is the saved one.
\* What was reported counts no more until the callback is set again.
Restart ==
    /\ UNCHANGED flash /\ pos' \in Positions
    /\ Load /\ setup' = FALSE
    /\ aLimit' = Created /\ aPlain' = CreatedPlain
    /\ aInvert' = FALSE /\ aReverse' = FALSE /\ aCalibrate' = FALSE
    /\ online' = FALSE /\ cb' = FALSE /\ zb' = "idle" /\ arg' = "none"
    /\ failed' = {} /\ active' = {} /\ crossed' = {} /\ behind' = FALSE
    /\ read' = [r \in Reporters |-> NoReads]
    /\ UNCHANGED pub

\* onConnect, under the stack's lock.
OnConnect ==
    /\ zb = "idle" /\ ~online /\ online' = TRUE
    /\ aLimit' = limit /\ aPlain' = plain
    /\ aInvert' = invert /\ aReverse' = invert /\ aCalibrate' = setup
    /\ UNCHANGED <<sensor, motor, flash, handler, failed, pos, cb, reports>>

-----------------------------------------------------------------------------
(* The handlers.  The first step changes the sensor's memory, Put the flash, *)
(* Tell the rest.                                                           *)

\* What changes an input of a report makes those under way doubtful.
InputChanges == crossed' = crossed \cup active

\* The stack has already changed the attribute.
WriteInvert(b) ==
    /\ zb = "idle" /\ aInvert' = b
    /\ IF b # invert
         THEN /\ invert' = b /\ zb' = "put" /\ arg' = "invert"
              /\ InputChanges
              /\ UNCHANGED aReverse
         ELSE /\ aReverse' = invert
              /\ UNCHANGED <<invert, handler, crossed>>
    /\ UNCHANGED <<min, limit, plain, motor, flash, aLimit, aCalibrate, aPlain,
                   online, failed, pos, cb, active, read, pub, behind>>

WritePlain(k, v) ==
    /\ zb = "idle" /\ zb' = "put" /\ arg' = k
    /\ aPlain' = [aPlain EXCEPT ![k] = v] /\ plain' = [plain EXCEPT ![k] = v]
    /\ UNCHANGED <<min, limit, invert, motor, flash, aLimit, aInvert, aReverse,
                   aCalibrate, online, failed, pos, cb, reports>>

WriteSetup(b) ==
    /\ zb = "idle" /\ setup' = b /\ aCalibrate' = b
    /\ UNCHANGED <<sensor, mMin, mMax, offsetDir, mPlain, flash, aLimit, aInvert,
                   aReverse, aPlain, online, handler, failed, pos, cb, reports>>

\* setLimit: an end is moved to where the blind is, in setup, and else left.
\* No report follows.
SetLimit(minOrMax) ==
    LET end(old) == IF setup THEN pos ELSE old IN
    /\ zb = "idle" /\ zb' = "put"
    /\ IF minOrMax # invert
         THEN /\ arg' = "min" /\ mMin' = end(mMin) /\ min' = end(mMin)
              /\ UNCHANGED mMax
         ELSE arg' = "max" /\ mMax' = end(mMax) /\ UNCHANGED <<min, mMin>>
    /\ InputChanges /\ behind' = TRUE
    /\ UNCHANGED <<limit, invert, plain, offsetDir, mPlain, setup, flash,
                   attributes, failed, pos, cb, active, read, pub>>

Stored ==
    /\ fInvert' = IF arg = "invert" THEN invert ELSE fInvert
    /\ fMin' = IF arg = "min" THEN min ELSE fMin
    /\ fMax' = IF arg = "max" THEN mMax ELSE fMax
    /\ fPlain' = [k \in Plain |-> IF arg = k THEN plain[k] ELSE fPlain[k]]

\* Mutation: the ends share a key.
PutOneEnd ==
    /\ zb = "put" /\ zb' = "tell"
    /\ fMin' = IF arg = "min" THEN min ELSE IF arg = "max" THEN mMax ELSE fMin
    /\ fInvert' = IF arg = "invert" THEN invert ELSE fInvert
    /\ fPlain' = [k \in Plain |-> IF arg = k THEN plain[k] ELSE fPlain[k]]
    /\ failed' = failed \ {arg}
    /\ UNCHANGED <<fMax, sensor, motor, attributes, arg, pos, cb, reports>>

\* Nobody looks at what a put returns; one whose commit failed may have written.
Put ==
    /\ zb = "put" /\ zb' = "tell"
    /\ \/ Stored /\ failed' = failed \ {arg}
       \/ (Stored \/ UNCHANGED flash) /\ failed' = failed \cup {arg}
    /\ UNCHANGED <<sensor, motor, attributes, arg, pos, cb, reports>>

\* triggerCallback in the Zigbee task, which nothing interrupts here.
ReportNow ==
    IF cb THEN pub' = Current /\ behind' = FALSE ELSE UNCHANGED <<pub, behind>>

\* Mutation: setOffset does not report.
TellInvertSilent ==
    /\ zb = "tell" /\ arg = "invert" /\ zb' = "idle" /\ arg' = "none"
    /\ offsetDir' = ~invert /\ aReverse' = invert
    /\ UNCHANGED <<sensor, mMin, mMax, mPlain, setup, flash, aLimit, aInvert,
                   aCalibrate, aPlain, online, failed, pos, cb, reports>>

TellInvert ==
    /\ zb = "tell" /\ arg = "invert" /\ zb' = "idle" /\ arg' = "none"
    /\ offsetDir' = ~invert /\ aReverse' = invert
    /\ ReportNow
    /\ UNCHANGED <<sensor, mMin, mMax, mPlain, setup, flash, aLimit, aInvert,
                   aCalibrate, aPlain, online, failed, pos, cb, active,
                   read, crossed>>

TellPlain ==
    /\ zb = "tell" /\ arg \in Plain /\ zb' = "idle" /\ arg' = "none"
    /\ mPlain' = [k \in MotorKeys |-> IF k = arg THEN plain[k] ELSE mPlain[k]]
    /\ IF arg = "offset" THEN offsetDir' = ~invert /\ ReportNow
                         ELSE UNCHANGED <<offsetDir, pub, behind>>
    /\ UNCHANGED <<sensor, mMin, mMax, setup, flash, attributes, failed, pos,
                   cb, active, read, crossed>>

\* Mutation: the limit is not computed again for a new lower end.
TellLimitMaxOnly ==
    /\ zb = "tell" /\ arg \in {"min", "max"} /\ zb' = "idle" /\ arg' = "none"
    /\ limit' = IF arg = "min" THEN limit ELSE <<min, mMax>>
    /\ aLimit' = limit'
    /\ InputChanges /\ behind' = TRUE
    /\ UNCHANGED <<min, invert, plain, motor, flash, aInvert, aReverse, aCalibrate,
                   aPlain, online, failed, pos, cb, active, read, pub>>

\* The upper end is the flash's when the lower one was set.
TellLimit ==
    /\ zb = "tell" /\ arg \in {"min", "max"} /\ zb' = "idle" /\ arg' = "none"
    /\ limit' = IF arg = "min" THEN <<min, fMax>> ELSE <<min, mMax>>
    /\ aLimit' = limit'
    /\ InputChanges /\ behind' = TRUE
    /\ UNCHANGED <<min, invert, plain, motor, flash, aInvert, aReverse, aCalibrate,
                   aPlain, online, failed, pos, cb, active, read, pub>>

Handler ==
    \/ \E b \in BOOLEAN : WriteInvert(b) \/ WriteSetup(b) \/ SetLimit(b)
    \/ \E k \in Plain, v \in Values : WritePlain(k, v)
    \/ Put \/ TellInvert \/ TellPlain \/ TellLimit

-----------------------------------------------------------------------------
(* Reports *)

\* A turn of the motor task's loop: the position is sampled, then reported.
Sample ==
    /\ "motor" \notin active
    /\ pos' \in Positions
    /\ crossed' = (crossed \cup active) \ {"motor"}
    /\ active' = IF cb THEN active \cup {"motor"} ELSE active
    /\ UNCHANGED <<sensor, motor, flash, attributes, handler, failed, cb, read,
                   pub, behind>>

\* app_main's call of moveCallback.
MoveCallback ==
    /\ online /\ ~cb /\ cb' = TRUE
    /\ active' = active \cup {"app"} /\ crossed' = crossed \ {"app"}
    /\ UNCHANGED <<sensor, motor, flash, attributes, handler, failed, pos, read,
                   pub, behind>>

Reads(r, new) ==
    /\ read' = [read EXCEPT ![r] = new]
    /\ UNCHANGED <<sensor, motor, flash, attributes, handler, failed, pos, cb,
                   active, pub, crossed, behind>>

\* triggerCallback evaluates getPercent and getPosition in either order.
ReadPercent(r) ==
    /\ r \in active /\ read[r].percent = Unread
    /\ Reads(r, [read[r] EXCEPT !.percent = Percent])

ReadLift(r) ==
    /\ r \in active /\ read[r].lift = Unread
    /\ Reads(r, [read[r] EXCEPT !.lift = Lift])

\* setBlindState turns both round.  Each of these three reads several words: a
\* handler that comes between two of them has the report crossed as one that
\* comes before or after does, and nothing is claimed of that report.
Turn(r) ==
    /\ r \in active /\ read[r].percent # Unread /\ read[r].lift # Unread
    /\ read[r].orient = Unread
    /\ Reads(r, [read[r] EXCEPT !.orient = Orient])

\* It sets the attributes, under the stack's lock.
Publish(r) ==
    /\ r \in active /\ read[r].orient # Unread /\ zb = "idle"
    /\ pub' = read[r] /\ read' = [read EXCEPT ![r] = NoReads]
    /\ behind' = (r \in crossed)
    /\ active' = active \ {r} /\ crossed' = crossed \ {r}
    /\ UNCHANGED <<sensor, motor, flash, attributes, handler, failed, pos, cb>>

Report ==
    \/ MoveCallback
    \/ \E r \in Reporters : ReadPercent(r) \/ ReadLift(r) \/ Turn(r) \/ Publish(r)

Next == Restart \/ OnConnect \/ Handler \/ Sample \/ Report

Spec == Init /\ [][Next]_vars

-----------------------------------------------------------------------------
(* The inductive invariant *)

\* Setting k is on its way to the flash, or to the other places it lives in.
ToPut(k) == zb = "put" /\ arg = k
ToTell(k) == zb # "idle" /\ arg = k

\* The flash has every setting whose write did not fail.
FlashInv ==
    /\ "min" \in failed \/ ToPut("min") \/ fMin = min
    /\ "max" \in failed \/ ToPut("max") \/ fMax = mMax
    /\ "invert" \in failed \/ ToPut("invert") \/ (fInvert <=> invert)
    /\ \A k \in Plain : k \in failed \/ ToPut(k) \/ fPlain[k] = plain[k]

\* So has the motor, except that a write of the upper end that failed shows
\* when the lower one is set.
PlacesInv ==
    /\ min = mMin
    /\ \/ ToTell("min") \/ ToTell("max") \/ "max" \in failed
       \/ limit = <<min, mMax>>
    /\ ToTell("invert") \/ (offsetDir <=> ~invert)
    /\ \A k \in MotorKeys : ToTell(k) \/ mPlain[k] = plain[k]

\* So have the attributes, once onConnect has run.
AttributeInv ==
    online =>
        /\ aLimit = limit /\ aPlain = plain
        /\ aInvert <=> invert
        /\ ToTell("invert") \/ (aReverse <=> invert)
        /\ aCalibrate <=> setup

\* What an undisturbed report has read is current; a report that was published
\* undisturbed is, until the next one begins.
ReportInv ==
    /\ active # {} => cb
    /\ \A r \in Reporters :
          /\ read[r].orient # Unread =>
                read[r].percent # Unread /\ read[r].lift # Unread
          /\ r \notin active => read[r] = NoReads
    /\ \A r \in active \ crossed :
          /\ read[r].percent \in {Unread, Percent}
          /\ read[r].lift \in {Unread, Lift}
          /\ read[r].orient \in {Unread, Orient}
    /\ cb /\ active = {} /\ ~behind /\ ~ToTell("invert") => pub = Current

\* The places a setting lives in agree at every step of every handler but for
\* the setting it is about, and what tasks have read for their reports agrees
\* with them.
SettingsInv == TypeOK /\ FlashInv /\ PlacesInv /\ AttributeInv /\ ReportInv

-----------------------------------------------------------------------------
(* Properties *)

\* A restart changes no setting, wherever it strikes, but the one a handler is
\* about to write and those whose write failed; nor does it change what the
\* motor and the reports make of them.
SettingsSurvive ==
    [][online /\ ~online' /\ failed = {} /\ zb # "put" =>
         /\ min' = min /\ mMin' = mMin /\ mMax' = mMax
         /\ invert' = invert /\ plain' = plain]_vars

\* While nothing is under way, what is reported is the blind's position
\* between its ends and the way round they are now, unless the report was
\* overtaken: a setting changed, or the blind moved, between the reads and the
\* lock, or an end was moved, which nothing reports.
ReportCurrent ==
    cb /\ active = {} /\ zb = "idle" /\ ~behind => pub = Current
=============================================================================
