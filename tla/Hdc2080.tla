-------------------------------- MODULE Hdc2080 --------------------------------
(***************************************************************************)
(* The humidity sensor's driver, main/ext/hdc2080.cpp: update, as the main  *)
(* task calls it through getTemp and getHumidity, the data-ready interrupt, *)
(* and the sensor behind them.                                              *)
(*                                                                         *)
(* A measurement is its number: the n-th trigger asks for measurement n.    *)
(* What a read returns is the number of the measurement it shows.  The pin  *)
(* is high while a measurement has not been read; its rising edge gives the *)
(* binary semaphore.  The sensor is external: it finishes within the second *)
(* the driver waits, or not at all, and any transfer on its bus may fail.   *)
(***************************************************************************)
EXTENDS Integers

CONSTANT PinAtStart     \* the levels the pin may have at init

ASSUME PinAssumption == PinAtStart \subseteq BOOLEAN

VARIABLES
    pc,         \* of update: where the main task is in it
    token,      \* the semaphore "lock"
    recent,     \* less than ten seconds have passed since lastUpdate
    raw,        \* rawTemperature, rawHumidity: the measurement read last, or 0
    buses,      \* i2cdev_init and initMutex calls not yet undone
    result,     \* what the last update returned: ESP_OK or ESP_FAIL
    pin,        \* TEMP_INT_PIN
    busy,       \* the sensor is measuring
    triggered,  \* the number of measurements asked for
    data,       \* the measurement in the sensor's registers, or 0
    stale,      \* history: a token was left over by an update
    broken      \* history: a measurement never finished, or a transfer failed

driver  == <<pc, token, recent, raw, buses, result>>
sensor  == <<pin, busy, triggered, data>>
history == <<stale, broken>>
vars == <<driver, sensor, history>>

TypeOK ==
    /\ pc \in {"idle", "trigger", "level", "take", "read"}
    /\ token \in BOOLEAN /\ recent \in BOOLEAN /\ result \in {"ok", "fail"}
    /\ raw \in Nat /\ buses \in Nat
    /\ pin \in BOOLEAN /\ busy \in BOOLEAN
    /\ triggered \in Nat /\ data \in Nat
    /\ stale \in BOOLEAN /\ broken \in BOOLEAN

\* init leaves the bus down.  The sensor keeps its power over a restart of the
\* chip, and may hold a measurement that was never read.
Init ==
    /\ pc = "idle" /\ token = FALSE /\ recent = FALSE /\ result = "fail"
    /\ raw = 0 /\ buses = 0
    /\ pin \in PinAtStart /\ busy = FALSE
    /\ triggered = IF pin THEN 1 ELSE 0
    /\ data = triggered
    /\ stale = pin /\ broken = FALSE

-----------------------------------------------------------------------------
(* The sensor and the interrupt *)

\* A measurement is finished: the pin rises, if it was not up, and its edge
\* gives the semaphore.
DataReady ==
    /\ busy /\ busy' = FALSE
    /\ data' = triggered /\ pin' = TRUE
    /\ token' = IF pin THEN token ELSE TRUE
    /\ UNCHANGED <<pc, recent, raw, buses, result, triggered, history>>

SensorFails ==
    /\ busy /\ busy' = FALSE /\ broken' = TRUE
    /\ UNCHANGED <<driver, pin, triggered, data, stale>>

\* Ten seconds are far more than a measurement takes.
TenSeconds ==
    /\ pc = "idle" /\ recent /\ ~busy /\ recent' = FALSE
    /\ UNCHANGED <<pc, token, raw, buses, result, sensor, history>>

-----------------------------------------------------------------------------
(* update *)

\* Nothing is done while the last values are recent, and that succeeds, even
\* shortly after an update that failed.
Skip ==
    /\ pc = "idle" /\ recent /\ raw > 0
    /\ result' = "ok"
    /\ UNCHANGED <<pc, token, recent, raw, buses, sensor, history>>

Update ==
    /\ pc = "idle" /\ ~(recent /\ raw > 0)
    /\ recent' = TRUE /\ buses' = buses + 1 /\ pc' = "trigger"
    /\ UNCHANGED <<token, raw, result, sensor, history>>

\* A transfer fails: I2C_DEV_CHECK gives the mutex back and returns, with the
\* bus up.
TransferFails ==
    /\ pc \in {"trigger", "read"}
    /\ pc' = "idle" /\ result' = "fail" /\ broken' = TRUE
    /\ UNCHANGED <<token, recent, raw, buses, sensor, stale>>

Trigger ==
    /\ pc = "trigger" /\ pc' = "level"
    /\ busy' = TRUE /\ triggered' = triggered + 1
    /\ UNCHANGED <<token, recent, raw, buses, result, pin, data, history>>

\* The pin is already up: do not wait.  The token its edge left stays.
Level ==
    /\ pc = "level"
    /\ pc' = IF pin THEN "read" ELSE "take"
    /\ stale' = (stale \/ (pin /\ token))
    /\ UNCHANGED <<token, recent, raw, buses, result, sensor, broken>>

\* Mutation: the second passes, and the registers are read all the same.
TakeOrNot ==
    /\ pc = "take" /\ pc' = "read" /\ token' = FALSE
    /\ UNCHANGED <<recent, raw, buses, result, sensor, history>>

Take ==
    /\ pc = "take" /\ token
    /\ token' = FALSE /\ pc' = "read"
    /\ UNCHANGED <<recent, raw, buses, result, sensor, history>>

\* The second passes: the sensor has not answered, and will not.
Timeout ==
    /\ pc = "take" /\ ~token /\ ~busy
    /\ pc' = "idle" /\ result' = "fail"
    /\ UNCHANGED <<token, recent, raw, buses, sensor, history>>

\* Mutation: the old values are kept, as if they had been read.
ReadNothing ==
    /\ pc = "read" /\ pc' = "idle" /\ result' = "ok"
    /\ pin' = FALSE /\ buses' = buses - 1
    /\ UNCHANGED <<raw, token, recent, busy, triggered, data, history>>

\* Mutation: the bus stays up.
ReadLeavesBus ==
    /\ pc = "read" /\ pc' = "idle" /\ result' = "ok"
    /\ raw' = data /\ pin' = FALSE
    /\ UNCHANGED <<token, recent, buses, busy, triggered, data, history>>

\* The registers are read, which lowers the pin.
Read ==
    /\ pc = "read" /\ pc' = "idle" /\ result' = "ok"
    /\ raw' = data /\ pin' = FALSE /\ buses' = buses - 1
    /\ UNCHANGED <<token, recent, busy, triggered, data, history>>

Next ==
    \/ DataReady \/ SensorFails \/ TenSeconds
    \/ Skip \/ Update \/ TransferFails \/ Trigger \/ Level \/ Take \/ Timeout \/ Read

Spec == Init /\ [][Next]_vars

-----------------------------------------------------------------------------
(* The inductive invariant *)

\* What is read lags behind what was measured, that behind what was asked for.
OrderInv == raw <= data /\ data <= triggered

\* With a sensor and a bus that work, at most the last measurement is missing,
\* and what was read last is at most one behind it.
LagInv ==
    ~broken =>
        /\ data = IF busy THEN triggered - 1 ELSE triggered
        /\ pc = "trigger" => ~busy
        /\ pc \in {"idle", "trigger"} =>
              /\ raw > 0 => raw >= triggered - 1
              /\ result = "ok" <=> raw > 0
              /\ raw = 0 => ~busy
        /\ busy \/ pc # "idle" => recent
        /\ pc \in {"level", "take", "read"} => triggered > 0
        /\ pc = "level" => busy \/ pin
        /\ pc = "take" => (busy /\ ~pin) \/ token
        /\ pc = "read" => data > 0
        /\ token \/ pin => data > 0

\* And as long as no token or measurement was left over, update waits for its
\* own.
FreshInv ==
    ~broken /\ ~stale =>
        /\ pc \in {"idle", "trigger"} =>
              ~token /\ ~pin /\ ~busy /\ raw = triggered
        /\ pc \in {"level", "take"} =>
              (token <=> ~busy) /\ (pin <=> ~busy)
        /\ pc = "read" => ~token /\ ~busy

\* The bus is up while an update is under way.
BusInv ==
    /\ pc # "idle" => buses > 0
    /\ ~broken => buses = IF pc = "idle" THEN 0 ELSE 1

\* The driver's pc, its last values, the semaphore, the bus and the sensor
\* agree at every step of an update.
HdcInv == TypeOK /\ OrderInv /\ LagInv /\ FreshInv /\ BusInv

-----------------------------------------------------------------------------
(* Properties.  All of them are about a sensor and a bus that work.          *)

\* update has returned values.
Updated == pc = "idle" /\ result = "ok" /\ ~broken

\* What a successful update shows is the measurement it asked for, or the one
\* before it: a leftover token makes the driver lag by one measurement, and
\* never by more.
LagsAtMostOne == Updated => raw >= triggered - 1

\* Lagging starts in one way only: a measurement left unread over a restart, or
\* a task held up after the trigger until the pin was up, which then does not
\* take the token.  Until then every value is the one asked for.
FreshUntilLeftOver == Updated /\ ~stale => raw = triggered

\* getTemp and getHumidity publish whatever was read last, though update may
\* have failed (hdc2080.cpp:111): however transfers and measurements fail, what
\* they show is never older than what they showed before.
NeverBack == [][raw' >= raw]_vars

\* And an update that returns ESP_OK, in whatever order tokens were left over
\* and transfers failed, has read a measurement, never the registers of a
\* sensor that has not measured yet.
OkIsMeasured == result = "ok" => raw > 0

\* False: update waits for the data it has asked for ("Wait for data to be
\* ready", hdc2080.cpp:86).
WaitsForData == Updated => raw = triggered
=============================================================================
