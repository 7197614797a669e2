---------------------------- MODULE Hdc2080Proofs ----------------------------
(***************************************************************************)
(* Proofs about Hdc2080: the inductive invariant HdcInv, and from it how    *)
(* far behind the sensor the driver can be, for any number of measurements. *)
(***************************************************************************)
EXTENDS Hdc2080, TLAPS

LEMMA InitInv == Init => HdcInv
<1> SUFFICES ASSUME Init PROVE HdcInv
  OBVIOUS
<1>1. CASE pin = TRUE
  <2>1. /\ pc = "idle" /\ token = FALSE /\ recent = FALSE /\ result = "fail"
        /\ raw = 0 /\ buses = 0 /\ busy = FALSE /\ broken = FALSE
    BY DEF Init
  <2>2. stale = TRUE /\ triggered = 1 /\ data = 1
    BY <1>1 DEF Init
  <2>3. TypeOK
    BY <1>1, <2>1, <2>2 DEF TypeOK
  <2>4. OrderInv /\ LagInv /\ FreshInv /\ BusInv
    BY <1>1, <2>1, <2>2 DEF OrderInv, LagInv, FreshInv, BusInv
  <2> QED BY <2>3, <2>4 DEF HdcInv
<1>2. CASE pin = FALSE
  <2>1. /\ pc = "idle" /\ token = FALSE /\ recent = FALSE /\ result = "fail"
        /\ raw = 0 /\ buses = 0 /\ busy = FALSE /\ broken = FALSE
    BY DEF Init
  <2>2. stale = FALSE /\ triggered = 0 /\ data = 0
    BY <1>2 DEF Init
  <2>3. TypeOK
    BY <1>2, <2>1, <2>2 DEF TypeOK
  <2>4. OrderInv /\ LagInv /\ FreshInv /\ BusInv
    BY <1>2, <2>1, <2>2 DEF OrderInv, LagInv, FreshInv, BusInv
  <2> QED BY <2>3, <2>4 DEF HdcInv
<1> QED BY <1>1, <1>2, PinAssumption DEF Init

\* The sensor's steps and the passing of time.
LEMMA WorldInv ==
  ASSUME HdcInv, DataReady \/ SensorFails \/ TenSeconds
  PROVE  HdcInv'
<1> USE DEF HdcInv, TypeOK, OrderInv, LagInv, FreshInv, BusInv
<1>1. CASE DataReady
  <2>1. TypeOK'
    BY <1>1 DEF DataReady, history
  <2>2. OrderInv'
    BY <1>1 DEF DataReady, history
  <2>3. LagInv'
    BY <1>1 DEF DataReady, history
  <2>4. FreshInv'
    BY <1>1 DEF DataReady, history
  <2>5. BusInv'
    BY <1>1 DEF DataReady, history
  <2> QED BY <2>1, <2>2, <2>3, <2>4, <2>5
<1>2. CASE SensorFails
  BY <1>2 DEF SensorFails, driver
<1>3. CASE TenSeconds
  BY <1>3 DEF TenSeconds, sensor, history
<1> QED BY <1>1, <1>2, <1>3

\* The steps of update up to the wait.
LEMMA AskInv ==
  ASSUME HdcInv, Skip \/ Update \/ TransferFails \/ Trigger \/ Level
  PROVE  HdcInv'
<1> USE DEF HdcInv, TypeOK, OrderInv, LagInv, FreshInv, BusInv
<1>1. CASE Update
  <2>1. TypeOK'
    BY <1>1 DEF Update, sensor, history
  <2>2. OrderInv'
    BY <1>1 DEF Update, sensor, history
  <2>3. LagInv'
    BY <1>1 DEF Update, sensor, history
  <2>4. FreshInv'
    BY <1>1 DEF Update, sensor, history
  <2>5. BusInv'
    BY <1>1 DEF Update, sensor, history
  <2> QED BY <2>1, <2>2, <2>3, <2>4, <2>5
<1>2. CASE TransferFails
  BY <1>2 DEF TransferFails, sensor
<1>3. CASE Trigger
  BY <1>3 DEF Trigger, history
<1>4. CASE Level
  BY <1>4 DEF Level, sensor
<1>5. CASE Skip
  BY <1>5 DEF Skip, sensor, history
<1> QED BY <1>1, <1>2, <1>3, <1>4, <1>5

\* The wait and the read.
LEMMA AnswerInv ==
  ASSUME HdcInv, Take \/ Timeout \/ Read
  PROVE  HdcInv'
<1> USE DEF HdcInv, TypeOK, OrderInv, LagInv, FreshInv, BusInv
<1>1. CASE Take
  <2>1. TypeOK'
    BY <1>1 DEF Take, sensor, history
  <2>2. OrderInv'
    BY <1>1 DEF Take, sensor, history
  <2>3. LagInv'
    BY <1>1 DEF Take, sensor, history
  <2>4. FreshInv'
    BY <1>1 DEF Take, sensor, history
  <2>5. BusInv'
    BY <1>1 DEF Take, sensor, history
  <2> QED BY <2>1, <2>2, <2>3, <2>4, <2>5
<1>2. CASE Timeout
  <2>1. TypeOK'
    BY <1>2 DEF Timeout, sensor, history
  <2>2. OrderInv'
    BY <1>2 DEF Timeout, sensor, history
  <2>3. LagInv'
    BY <1>2 DEF Timeout, sensor, history
  <2>4. FreshInv'
    BY <1>2 DEF Timeout, sensor, history
  <2>5. BusInv'
    BY <1>2 DEF Timeout, sensor, history
  <2> QED BY <2>1, <2>2, <2>3, <2>4, <2>5
<1>3. CASE Read
  <2>1. TypeOK'
    <3>1. buses - 1 \in Nat
      BY <1>3 DEF Read
    <3> QED BY <1>3, <3>1 DEF Read, history
  <2>2. OrderInv'
    BY <1>3 DEF Read, history
  <2>3. LagInv'
    BY <1>3 DEF Read, history
  <2>4. FreshInv'
    BY <1>3 DEF Read, history
  <2>5. BusInv'
    BY <1>3 DEF Read, history
  <2> QED BY <2>1, <2>2, <2>3, <2>4, <2>5
<1> QED BY <1>1, <1>2, <1>3

LEMMA StepInv ==
  ASSUME HdcInv, [Next]_vars
  PROVE  HdcInv'
<1>1. CASE Next
  BY <1>1, WorldInv, AskInv, AnswerInv DEF Next
<1>2. CASE UNCHANGED vars
  BY <1>2 DEF vars, driver, sensor, history, HdcInv, TypeOK, OrderInv, LagInv,
              FreshInv, BusInv
<1> QED BY <1>1, <1>2

\* The driver, the semaphore, the bus and the sensor agree at every step of an
\* update, in every order of interrupts, failures and delays.
THEOREM HdcInvariant == Spec => []HdcInv
BY InitInv, StepInv, PTL DEF Spec

\* A successful update shows its own measurement or the one before it.
THEOREM LagBound == Spec => []LagsAtMostOne
<1>1. HdcInv => LagsAtMostOne
  BY DEF HdcInv, TypeOK, LagInv, LagsAtMostOne, Updated
<1> QED BY <1>1, HdcInvariant, PTL

\* Until a token or a measurement is left over it shows its own.
THEOREM FreshFirst == Spec => []FreshUntilLeftOver
<1>1. HdcInv => FreshUntilLeftOver
  BY DEF HdcInv, FreshInv, FreshUntilLeftOver, Updated
<1> QED BY <1>1, HdcInvariant, PTL

\* A token, a pin that is up and a read to come each stand for a measurement
\* in the registers, whether or not the sensor or its bus has ever failed.
HeldInv ==
    /\ token \/ pin \/ pc = "read" => data > 0
    /\ busy => triggered > 0

LEMMA HeldStep ==
  ASSUME HdcInv, HeldInv, OkIsMeasured, [Next]_vars
  PROVE  HeldInv' /\ OkIsMeasured'
<1> USE DEF HdcInv, TypeOK, OrderInv, HeldInv, OkIsMeasured
<1>1. CASE DataReady \/ SensorFails \/ TenSeconds
  <2>1. CASE DataReady
    BY <2>1 DEF DataReady, history
  <2>2. CASE SensorFails
    BY <2>2 DEF SensorFails, driver
  <2>3. CASE TenSeconds
    BY <2>3 DEF TenSeconds, sensor, history
  <2> QED BY <1>1, <2>1, <2>2, <2>3
<1>2. CASE Skip \/ Update \/ TransferFails \/ Trigger \/ Level
  BY <1>2 DEF Skip, Update, TransferFails, Trigger, Level, sensor, history
<1>3. CASE Take \/ Timeout \/ Read
  BY <1>3 DEF Take, Timeout, Read, sensor, history
<1>4. CASE UNCHANGED vars
  BY <1>4 DEF vars, driver, sensor, history
<1> QED BY <1>1, <1>2, <1>3, <1>4 DEF Next

\* ESP_OK means that a measurement was read, in every order of failures.
THEOREM OkMeans == Spec => []OkIsMeasured
<1>1. Init => HeldInv /\ OkIsMeasured
  BY PinAssumption DEF Init, HeldInv, OkIsMeasured
<1> QED BY <1>1, HdcInvariant, HeldStep, PTL DEF Spec

\* What is published is never older than what was published before: of all
\* steps only a read changes it, and what is read is at least as new.
THEOREM ForwardOnly == Spec => NeverBack
<1>1. ASSUME HdcInv, [Next]_vars PROVE [raw' >= raw]_vars
  <2> USE <1>1 DEF HdcInv, TypeOK, OrderInv
  <2>1. CASE Read
    BY <2>1 DEF Read
  <2>2. CASE DataReady \/ SensorFails \/ TenSeconds
    <3>1. raw' = raw
      BY <2>2 DEF DataReady, SensorFails, TenSeconds, driver
    <3> QED BY <3>1
  <2>3. CASE Skip \/ Update \/ TransferFails \/ Trigger \/ Level \/ Take \/ Timeout
    BY <2>3 DEF Skip, Update, TransferFails, Trigger, Level, Take, Timeout, history
  <2> QED BY <1>1, <2>1, <2>2, <2>3 DEF Next
<1> QED BY <1>1, HdcInvariant, PTL DEF Spec, NeverBack
=============================================================================
