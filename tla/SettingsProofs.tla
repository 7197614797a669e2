----------------------------- MODULE SettingsProofs -----------------------------
(***************************************************************************)
(* Proofs about Settings: the places a setting lives in agree at every step *)
(* of every handler, whatever the flash refuses and whenever the chip       *)
(* restarts; so a restart changes no setting, and a report that nothing     *)
(* overtook is current.  For any positions, settings and values.            *)
(***************************************************************************)
EXTENDS Settings, TLAPS

LEMMA CreatedType == Created \in Positions \X Positions /\ CreatedPlain \in [Plain -> Values]
<1>1. \E l \in Positions \X Positions : TRUE
  <2>1. PICK p \in Positions : TRUE
    BY SettingsAssumption
  <2>2. <<p, p>> \in Positions \X Positions
    OBVIOUS
  <2> QED BY <2>2
<1>2. Created \in Positions \X Positions
  BY <1>1 DEF Created
<1>3. (CHOOSE v \in Values : TRUE) \in Values
  BY SettingsAssumption
<1> QED BY <1>2, <1>3 DEF CreatedPlain

\* What a report may read has the type of what it keeps.
LEMMA CurrentType ==
  ASSUME TypeOK
  PROVE  /\ Percent \in Percents /\ Lift \in Lifts /\ Orient \in Orients
         /\ Current \in [percent : Percents, lift : Lifts, orient : Orients]
<1>1. Percent \in Percents /\ Lift \in Lifts /\ Orient \in Orients
  BY DEF TypeOK, PlaceType, FlagType, Percent, Lift, Orient, Percents, Lifts, Orients
<1> QED BY <1>1 DEF Current

LEMMA InitInv == Init => SettingsInv
<1> SUFFICES ASSUME Init PROVE SettingsInv
  OBVIOUS
<1> USE SettingsAssumption, CreatedType
<1>1. PlaceType
  BY DEF Init, PlaceType, MotorKeys
<1>2. FlagType
  BY DEF Init, FlagType
<1>3. StepType
  BY DEF Init, StepType, Keys
<1>4. ReportType
  BY DEF Init, ReportType, NoReads, Current, Percent, Lift, Orient, Percents, Lifts, Orients
<1>5. FlashInv
  BY DEF Init, FlashInv
<1>6. PlacesInv
  BY DEF Init, PlacesInv, MotorKeys
<1>7. AttributeInv
  BY DEF Init, AttributeInv
<1>8. ReportInv
  BY DEF Init, ReportInv, NoReads
<1> QED BY <1>1, <1>2, <1>3, <1>4, <1>5, <1>6, <1>7, <1>8 DEF SettingsInv, TypeOK

\* The chip restarts; app_main sets the attributes.
LEMMA BootInv ==
  ASSUME SettingsInv, Restart \/ OnConnect
  PROVE  SettingsInv'
<1> USE SettingsAssumption DEF SettingsInv
<1>1. CASE Restart
  <2>1. PlaceType'
    BY <1>1, CreatedType DEF TypeOK, PlaceType, MotorKeys, Restart, Load,
       NoReads, sensor, motor, flash, attributes, handler, reports
  <2>2. FlagType'
    BY <1>1, CreatedType DEF TypeOK, FlagType, Restart, Load, NoReads, sensor,
       motor, flash, attributes, handler, reports
  <2>3. StepType'
    BY <1>1, CreatedType DEF TypeOK, StepType, Keys, Reporters, Restart, Load,
       NoReads, sensor, motor, flash, attributes, handler, reports
  <2>4. ReportType'
    BY <1>1, CreatedType DEF TypeOK, ReportType, Percents, Lifts, Orients,
       Restart, Load, NoReads, sensor, motor, flash, attributes, handler,
       reports
  <2>5. FlashInv'
    BY <1>1, CreatedType DEF TypeOK, PlaceType, StepType, FlagType, Keys,
       FlashInv, ToPut, Restart, Load, NoReads, sensor, motor, flash,
       attributes, handler, reports
  <2>6. PlacesInv'
    BY <1>1, CreatedType DEF TypeOK, PlaceType, FlagType, StepType, Keys,
       PlacesInv, ToTell, MotorKeys, Restart, Load, NoReads, sensor, motor,
       flash, attributes, handler, reports
  <2>7. AttributeInv'
    BY <1>1, CreatedType DEF TypeOK, FlagType, PlaceType, StepType,
       AttributeInv, ToTell, Restart, Load, NoReads, sensor, motor, flash,
       attributes, handler, reports
  <2>8. ReportInv'
    BY <1>1, CreatedType DEF TypeOK, StepType, FlagType, ReportInv, ToTell,
       Current, Percent, Lift, Orient, Reporters, Restart, Load, NoReads,
       sensor, motor, flash, attributes, handler, reports
  <2> QED BY <2>1, <2>2, <2>3, <2>4, <2>5, <2>6, <2>7, <2>8 DEF TypeOK
<1>2. CASE OnConnect
  <2>1. PlaceType'
    BY <1>2 DEF TypeOK, PlaceType, MotorKeys, OnConnect, sensor, motor, flash,
       attributes, handler, reports
  <2>2. FlagType'
    BY <1>2 DEF TypeOK, FlagType, OnConnect, sensor, motor, flash, attributes,
       handler, reports
  <2>3. StepType'
    BY <1>2 DEF TypeOK, StepType, Keys, Reporters, OnConnect, sensor, motor,
       flash, attributes, handler, reports
  <2>4. ReportType'
    BY <1>2 DEF TypeOK, ReportType, Percents, Lifts, Orients, OnConnect,
       sensor, motor, flash, attributes, handler, reports
  <2>5. FlashInv'
    BY <1>2 DEF TypeOK, PlaceType, StepType, FlagType, Keys, FlashInv, ToPut,
       OnConnect, sensor, motor, flash, attributes, handler, reports
  <2>6. PlacesInv'
    BY <1>2 DEF TypeOK, PlaceType, FlagType, StepType, Keys, PlacesInv,
       ToTell, MotorKeys, OnConnect, sensor, motor, flash, attributes,
       handler, reports
  <2>7. AttributeInv'
    BY <1>2 DEF TypeOK, FlagType, PlaceType, StepType, AttributeInv, ToTell,
       OnConnect, sensor, motor, flash, attributes, handler, reports
  <2>8. ReportInv'
    BY <1>2 DEF TypeOK, StepType, FlagType, ReportInv, ToTell, Current,
       Percent, Lift, Orient, Reporters, OnConnect, sensor, motor, flash,
       attributes, handler, reports
  <2> QED BY <2>1, <2>2, <2>3, <2>4, <2>5, <2>6, <2>7, <2>8 DEF TypeOK
<1> QED BY <1>1, <1>2

\* The first step of a handler.
LEMMA WriteInv ==
  ASSUME SettingsInv, \/ \E b \in BOOLEAN : WriteInvert(b) \/ WriteSetup(b) \/ SetLimit(b)
         \/ \E k \in Plain, v \in Values : WritePlain(k, v)
  PROVE  SettingsInv'
<1> USE SettingsAssumption DEF SettingsInv
<1>1. CASE \E b \in BOOLEAN : WriteInvert(b)
  <2>1. PlaceType'
    BY <1>1 DEF TypeOK, PlaceType, MotorKeys, WriteInvert, InputChanges,
       sensor, motor, flash, attributes, handler, reports
  <2>2. FlagType'
    BY <1>1 DEF TypeOK, FlagType, WriteInvert, InputChanges, sensor, motor,
       flash, attributes, handler, reports
  <2>3. StepType'
    BY <1>1 DEF TypeOK, StepType, Keys, Reporters, WriteInvert, InputChanges,
       sensor, motor, flash, attributes, handler, reports
  <2>4. ReportType'
    BY <1>1 DEF TypeOK, ReportType, Percents, Lifts, Orients, WriteInvert,
       InputChanges, sensor, motor, flash, attributes, handler, reports
  <2>5. FlashInv'
    BY <1>1 DEF TypeOK, PlaceType, StepType, FlagType, Keys, FlashInv, ToPut,
       WriteInvert, InputChanges, sensor, motor, flash, attributes, handler,
       reports
  <2>6. PlacesInv'
    BY <1>1 DEF TypeOK, PlaceType, FlagType, StepType, Keys, PlacesInv,
       ToTell, MotorKeys, WriteInvert, InputChanges, sensor, motor, flash,
       attributes, handler, reports
  <2>7. AttributeInv'
    BY <1>1 DEF TypeOK, FlagType, PlaceType, StepType, AttributeInv, ToTell,
       WriteInvert, InputChanges, sensor, motor, flash, attributes, handler,
       reports
  <2>8. ReportInv'
    BY <1>1 DEF TypeOK, StepType, FlagType, ReportInv, ToTell, Current,
       Percent, Lift, Orient, Reporters, WriteInvert, InputChanges, sensor,
       motor, flash, attributes, handler, reports
  <2> QED BY <2>1, <2>2, <2>3, <2>4, <2>5, <2>6, <2>7, <2>8 DEF TypeOK
<1>2. CASE \E b \in BOOLEAN : WriteSetup(b)
  <2>1. PlaceType'
    BY <1>2 DEF TypeOK, PlaceType, MotorKeys, WriteSetup, sensor, motor,
       flash, attributes, handler, reports
  <2>2. FlagType'
    BY <1>2 DEF TypeOK, FlagType, WriteSetup, sensor, motor, flash,
       attributes, handler, reports
  <2>3. StepType'
    BY <1>2 DEF TypeOK, StepType, Keys, Reporters, WriteSetup, sensor, motor,
       flash, attributes, handler, reports
  <2>4. ReportType'
    BY <1>2 DEF TypeOK, ReportType, Percents, Lifts, Orients, WriteSetup,
       sensor, motor, flash, attributes, handler, reports
  <2>5. FlashInv'
    BY <1>2 DEF TypeOK, PlaceType, StepType, FlagType, Keys, FlashInv, ToPut,
       WriteSetup, sensor, motor, flash, attributes, handler, reports
  <2>6. PlacesInv'
    BY <1>2 DEF TypeOK, PlaceType, FlagType, StepType, Keys, PlacesInv,
       ToTell, MotorKeys, WriteSetup, sensor, motor, flash, attributes,
       handler, reports
  <2>7. AttributeInv'
    BY <1>2 DEF TypeOK, FlagType, PlaceType, StepType, AttributeInv, ToTell,
       WriteSetup, sensor, motor, flash, attributes, handler, reports
  <2>8. ReportInv'
    BY <1>2 DEF TypeOK, StepType, FlagType, ReportInv, ToTell, Current,
       Percent, Lift, Orient, Reporters, WriteSetup, sensor, motor, flash,
       attributes, handler, reports
  <2> QED BY <2>1, <2>2, <2>3, <2>4, <2>5, <2>6, <2>7, <2>8 DEF TypeOK
<1>3. CASE \E b \in BOOLEAN : SetLimit(b)
  <2>1. PlaceType'
    BY <1>3 DEF TypeOK, PlaceType, MotorKeys, SetLimit, InputChanges, sensor,
       motor, flash, attributes, handler, reports
  <2>2. FlagType'
    BY <1>3 DEF TypeOK, FlagType, SetLimit, InputChanges, sensor, motor,
       flash, attributes, handler, reports
  <2>3. StepType'
    BY <1>3 DEF TypeOK, StepType, Keys, Reporters, SetLimit, InputChanges,
       sensor, motor, flash, attributes, handler, reports
  <2>4. ReportType'
    BY <1>3 DEF TypeOK, ReportType, Percents, Lifts, Orients, SetLimit,
       InputChanges, sensor, motor, flash, attributes, handler, reports
  <2>5. FlashInv'
    BY <1>3 DEF TypeOK, PlaceType, StepType, FlagType, Keys, FlashInv, ToPut,
       SetLimit, InputChanges, sensor, motor, flash, attributes, handler,
       reports
  <2>6. PlacesInv'
    BY <1>3 DEF TypeOK, PlaceType, FlagType, StepType, Keys, PlacesInv,
       ToTell, MotorKeys, SetLimit, InputChanges, sensor, motor, flash,
       attributes, handler, reports
  <2>7. AttributeInv'
    BY <1>3 DEF TypeOK, FlagType, PlaceType, StepType, AttributeInv, ToTell,
       SetLimit, InputChanges, sensor, motor, flash, attributes, handler,
       reports
  <2>8. ReportInv'
    BY <1>3 DEF TypeOK, StepType, FlagType, ReportInv, ToTell, Current,
       Percent, Lift, Orient, Reporters, SetLimit, InputChanges, sensor,
       motor, flash, attributes, handler, reports
  <2> QED BY <2>1, <2>2, <2>3, <2>4, <2>5, <2>6, <2>7, <2>8 DEF TypeOK
<1>4. CASE \E k \in Plain, v \in Values : WritePlain(k, v)
  <2>1. PlaceType'
    BY <1>4 DEF TypeOK, PlaceType, MotorKeys, WritePlain, sensor, motor,
       flash, attributes, handler, reports
  <2>2. FlagType'
    BY <1>4 DEF TypeOK, FlagType, WritePlain, sensor, motor, flash,
       attributes, handler, reports
  <2>3. StepType'
    BY <1>4 DEF TypeOK, StepType, Keys, Reporters, WritePlain, sensor, motor,
       flash, attributes, handler, reports
  <2>4. ReportType'
    BY <1>4 DEF TypeOK, ReportType, Percents, Lifts, Orients, WritePlain,
       sensor, motor, flash, attributes, handler, reports
  <2>5. FlashInv'
    BY <1>4 DEF TypeOK, PlaceType, StepType, FlagType, Keys, FlashInv, ToPut,
       WritePlain, sensor, motor, flash, attributes, handler, reports
  <2>6. PlacesInv'
    BY <1>4 DEF TypeOK, PlaceType, FlagType, StepType, Keys, PlacesInv,
       ToTell, MotorKeys, WritePlain, sensor, motor, flash, attributes,
       handler, reports
  <2>7. AttributeInv'
    BY <1>4 DEF TypeOK, FlagType, PlaceType, StepType, AttributeInv, ToTell,
       WritePlain, sensor, motor, flash, attributes, handler, reports
  <2>8. ReportInv'
    BY <1>4 DEF TypeOK, StepType, FlagType, ReportInv, ToTell, Current,
       Percent, Lift, Orient, Reporters, WritePlain, sensor, motor, flash,
       attributes, handler, reports
  <2> QED BY <2>1, <2>2, <2>3, <2>4, <2>5, <2>6, <2>7, <2>8 DEF TypeOK
<1> QED BY <1>1, <1>2, <1>3, <1>4

\* The flash, then the motor and the attributes.
LEMMA FinishInv ==
  ASSUME SettingsInv, Put \/ TellInvert \/ TellPlain \/ TellLimit
  PROVE  SettingsInv'
<1> USE SettingsAssumption DEF SettingsInv
<1>1. CASE Put
  <2>1. PlaceType'
    BY <1>1 DEF TypeOK, PlaceType, MotorKeys, Put, Stored, sensor, motor,
       flash, attributes, handler, reports
  <2>2. FlagType'
    BY <1>1 DEF TypeOK, FlagType, Put, Stored, sensor, motor, flash,
       attributes, handler, reports
  <2>3. StepType'
    <3>1. zb = "put" /\ zb' = "tell" /\ arg' = arg
      BY <1>1 DEF Put
    <3>2. arg \in Keys
      BY <3>1 DEF TypeOK, StepType
    <3>3. failed' \subseteq Keys
      BY <1>1, <3>2 DEF TypeOK, StepType, Put
    <3>4. active' = active /\ crossed' = crossed
      BY <1>1 DEF Put, reports
    <3> QED BY <3>1, <3>2, <3>3, <3>4 DEF TypeOK, StepType
  <2>4. ReportType'
    BY <1>1 DEF TypeOK, ReportType, Percents, Lifts, Orients, Put, Stored,
       sensor, motor, flash, attributes, handler, reports
  <2>5. FlashInv'
    BY <1>1 DEF TypeOK, PlaceType, StepType, FlagType, Keys, FlashInv, ToPut,
       Put, Stored, sensor, motor, flash, attributes, handler, reports
  <2>6. PlacesInv'
    BY <1>1 DEF TypeOK, PlaceType, FlagType, StepType, Keys, PlacesInv,
       ToTell, MotorKeys, Put, Stored, sensor, motor, flash, attributes,
       handler, reports
  <2>7. AttributeInv'
    BY <1>1 DEF TypeOK, FlagType, PlaceType, StepType, AttributeInv, ToTell,
       Put, Stored, sensor, motor, flash, attributes, handler, reports
  <2>8. ReportInv'
    BY <1>1 DEF TypeOK, StepType, FlagType, ReportInv, ToTell, Current,
       Percent, Lift, Orient, Reporters, Put, Stored, sensor, motor, flash,
       attributes, handler, reports
  <2> QED BY <2>1, <2>2, <2>3, <2>4, <2>5, <2>6, <2>7, <2>8 DEF TypeOK
<1>2. CASE TellInvert
  <2>1. PlaceType'
    BY <1>2, CurrentType DEF TypeOK, PlaceType, MotorKeys, TellInvert,
       ReportNow, sensor, motor, flash, attributes, handler, reports
  <2>2. FlagType'
    BY <1>2, CurrentType DEF TypeOK, FlagType, TellInvert, ReportNow, sensor,
       motor, flash, attributes, handler, reports
  <2>3. StepType'
    BY <1>2, CurrentType DEF TypeOK, StepType, Keys, Reporters, TellInvert,
       ReportNow, sensor, motor, flash, attributes, handler, reports
  <2>4. ReportType'
    <3>1. read' = read
      BY <1>2 DEF TellInvert
    <3>2. pub' = Current \/ pub' = pub
      BY <1>2 DEF TellInvert, ReportNow, reports
    <3> QED BY <3>1, <3>2, CurrentType DEF TypeOK, ReportType
  <2>5. FlashInv'
    BY <1>2, CurrentType DEF TypeOK, PlaceType, StepType, FlagType, Keys,
       FlashInv, ToPut, TellInvert, ReportNow, sensor, motor, flash,
       attributes, handler, reports
  <2>6. PlacesInv'
    BY <1>2, CurrentType DEF TypeOK, PlaceType, FlagType, StepType, Keys,
       PlacesInv, ToTell, MotorKeys, TellInvert, ReportNow, sensor, motor,
       flash, attributes, handler, reports
  <2>7. AttributeInv'
    BY <1>2, CurrentType DEF TypeOK, FlagType, PlaceType, StepType,
       AttributeInv, ToTell, TellInvert, ReportNow, sensor, motor, flash,
       attributes, handler, reports
  <2>8. ReportInv'
    BY <1>2, CurrentType DEF TypeOK, StepType, FlagType, ReportInv, ToTell,
       Current, Percent, Lift, Orient, Reporters, TellInvert, ReportNow,
       sensor, motor, flash, attributes, handler, reports
  <2> QED BY <2>1, <2>2, <2>3, <2>4, <2>5, <2>6, <2>7, <2>8 DEF TypeOK
<1>3. CASE TellPlain
  <2>1. PlaceType'
    BY <1>3, CurrentType DEF TypeOK, PlaceType, MotorKeys, TellPlain,
       ReportNow, sensor, motor, flash, attributes, handler, reports
  <2>2. FlagType'
    BY <1>3, CurrentType DEF TypeOK, FlagType, TellPlain, ReportNow, sensor,
       motor, flash, attributes, handler, reports
  <2>3. StepType'
    BY <1>3, CurrentType DEF TypeOK, StepType, Keys, Reporters, TellPlain,
       ReportNow, sensor, motor, flash, attributes, handler, reports
  <2>4. ReportType'
    <3>1. read' = read
      BY <1>3 DEF TellPlain
    <3>2. pub' = Current \/ pub' = pub
      BY <1>3 DEF TellPlain, ReportNow, reports
    <3> QED BY <3>1, <3>2, CurrentType DEF TypeOK, ReportType
  <2>5. FlashInv'
    BY <1>3, CurrentType DEF TypeOK, PlaceType, StepType, FlagType, Keys,
       FlashInv, ToPut, TellPlain, ReportNow, sensor, motor, flash,
       attributes, handler, reports
  <2>6. PlacesInv'
    BY <1>3, CurrentType DEF TypeOK, PlaceType, FlagType, StepType, Keys,
       PlacesInv, ToTell, MotorKeys, TellPlain, ReportNow, sensor, motor,
       flash, attributes, handler, reports
  <2>7. AttributeInv'
    BY <1>3, CurrentType DEF TypeOK, FlagType, PlaceType, StepType,
       AttributeInv, ToTell, TellPlain, ReportNow, sensor, motor, flash,
       attributes, handler, reports
  <2>8. ReportInv'
    BY <1>3, CurrentType DEF TypeOK, StepType, FlagType, ReportInv, ToTell,
       Current, Percent, Lift, Orient, Reporters, TellPlain, ReportNow,
       sensor, motor, flash, attributes, handler, reports
  <2> QED BY <2>1, <2>2, <2>3, <2>4, <2>5, <2>6, <2>7, <2>8 DEF TypeOK
<1>4. CASE TellLimit
  <2>1. PlaceType'
    BY <1>4 DEF TypeOK, PlaceType, MotorKeys, TellLimit, InputChanges, sensor,
       motor, flash, attributes, handler, reports
  <2>2. FlagType'
    BY <1>4 DEF TypeOK, FlagType, TellLimit, InputChanges, sensor, motor,
       flash, attributes, handler, reports
  <2>3. StepType'
    BY <1>4 DEF TypeOK, StepType, Keys, Reporters, TellLimit, InputChanges,
       sensor, motor, flash, attributes, handler, reports
  <2>4. ReportType'
    BY <1>4 DEF TypeOK, ReportType, Percents, Lifts, Orients, TellLimit,
       InputChanges, sensor, motor, flash, attributes, handler, reports
  <2>5. FlashInv'
    BY <1>4 DEF TypeOK, PlaceType, StepType, FlagType, Keys, FlashInv, ToPut,
       TellLimit, InputChanges, sensor, motor, flash, attributes, handler,
       reports
  <2>6. PlacesInv'
    <3>1. /\ min' = mMin' /\ mMax' = mMax /\ failed' = failed /\ min' = min
          /\ zb = "tell" /\ arg \in {"min", "max"}
      BY <1>4 DEF PlacesInv, TellLimit, motor
    <3>2. "max" \in failed \/ limit' = <<min, mMax>>
      BY <1>4 DEF FlashInv, ToPut, TellLimit
    <3>3. ~ToTell("invert") /\ \A k \in MotorKeys : ~ToTell(k)
      BY <3>1 DEF ToTell, MotorKeys
    <3>4. (offsetDir' <=> ~invert') /\ \A k \in MotorKeys : mPlain'[k] = plain'[k]
      BY <1>4, <3>3 DEF PlacesInv, TellLimit, motor
    <3> QED BY <3>1, <3>2, <3>4 DEF PlacesInv
  <2>7. AttributeInv'
    BY <1>4 DEF TypeOK, FlagType, PlaceType, StepType, AttributeInv, ToTell,
       TellLimit, InputChanges, sensor, motor, flash, attributes, handler,
       reports
  <2>8. ReportInv'
    BY <1>4 DEF TypeOK, StepType, FlagType, ReportInv, ToTell, Current,
       Percent, Lift, Orient, Reporters, TellLimit, InputChanges, sensor,
       motor, flash, attributes, handler, reports
  <2> QED BY <2>1, <2>2, <2>3, <2>4, <2>5, <2>6, <2>7, <2>8 DEF TypeOK
<1> QED BY <1>1, <1>2, <1>3, <1>4

\* The reports.
LEMMA ReportsInv ==
  ASSUME SettingsInv, Sample \/ Report
  PROVE  SettingsInv'
<1> USE SettingsAssumption DEF SettingsInv
<1>1. CASE Sample
  <2>1. PlaceType'
    BY <1>1 DEF TypeOK, PlaceType, MotorKeys, Sample, sensor, motor, flash,
       attributes, handler, reports
  <2>2. FlagType'
    BY <1>1 DEF TypeOK, FlagType, Sample, sensor, motor, flash, attributes,
       handler, reports
  <2>3. StepType'
    BY <1>1 DEF TypeOK, StepType, Keys, Reporters, Sample, sensor, motor,
       flash, attributes, handler, reports
  <2>4. ReportType'
    BY <1>1 DEF TypeOK, ReportType, Percents, Lifts, Orients, Sample, sensor,
       motor, flash, attributes, handler, reports
  <2>5. FlashInv'
    BY <1>1 DEF TypeOK, PlaceType, StepType, FlagType, Keys, FlashInv, ToPut,
       Sample, sensor, motor, flash, attributes, handler, reports
  <2>6. PlacesInv'
    BY <1>1 DEF TypeOK, PlaceType, FlagType, StepType, Keys, PlacesInv,
       ToTell, MotorKeys, Sample, sensor, motor, flash, attributes, handler,
       reports
  <2>7. AttributeInv'
    BY <1>1 DEF TypeOK, FlagType, PlaceType, StepType, AttributeInv, ToTell,
       Sample, sensor, motor, flash, attributes, handler, reports
  <2>8. ReportInv'
    <3>1. active' # {} => cb'
      BY <1>1 DEF ReportInv, Sample
    <3>2. /\ read' = read /\ active \subseteq active'
          /\ active' \ crossed' \subseteq {"motor"}
          /\ read["motor"] = NoReads
      BY <1>1 DEF TypeOK, StepType, ReportInv, Sample, Reporters
    <3>3. \A r \in active' \ crossed' :
            /\ read'[r].percent = Unread /\ read'[r].lift = Unread
            /\ read'[r].orient = Unread
      BY <3>2 DEF NoReads
    <3>4. ~(cb' /\ active' = {})
      BY <1>1 DEF Sample
    <3>5. \A r \in Reporters :
             /\ read'[r].orient # Unread =>
                   read'[r].percent # Unread /\ read'[r].lift # Unread
             /\ r \notin active' => read'[r] = NoReads
      BY <3>2 DEF ReportInv
    <3> QED BY <3>1, <3>3, <3>4, <3>5 DEF ReportInv
  <2> QED BY <2>1, <2>2, <2>3, <2>4, <2>5, <2>6, <2>7, <2>8 DEF TypeOK
<1>2. CASE MoveCallback
  <2>1. PlaceType'
    BY <1>2 DEF TypeOK, PlaceType, MotorKeys, MoveCallback, sensor, motor,
       flash, attributes, handler, reports
  <2>2. FlagType'
    BY <1>2 DEF TypeOK, FlagType, MoveCallback, sensor, motor, flash,
       attributes, handler, reports
  <2>3. StepType'
    BY <1>2 DEF TypeOK, StepType, Keys, Reporters, MoveCallback, sensor,
       motor, flash, attributes, handler, reports
  <2>4. ReportType'
    BY <1>2 DEF TypeOK, ReportType, Percents, Lifts, Orients, MoveCallback,
       sensor, motor, flash, attributes, handler, reports
  <2>5. FlashInv'
    BY <1>2 DEF TypeOK, PlaceType, StepType, FlagType, Keys, FlashInv, ToPut,
       MoveCallback, sensor, motor, flash, attributes, handler, reports
  <2>6. PlacesInv'
    BY <1>2 DEF TypeOK, PlaceType, FlagType, StepType, Keys, PlacesInv,
       ToTell, MotorKeys, MoveCallback, sensor, motor, flash, attributes,
       handler, reports
  <2>7. AttributeInv'
    BY <1>2 DEF TypeOK, FlagType, PlaceType, StepType, AttributeInv, ToTell,
       MoveCallback, sensor, motor, flash, attributes, handler, reports
  <2>8. ReportInv'
    <3>1. active = {} /\ active' = {"app"} /\ cb' /\ read' = read
      BY <1>2 DEF ReportInv, MoveCallback
    <3>2. \A r \in Reporters : read'[r] = NoReads
      BY <3>1 DEF ReportInv
    <3> QED BY <3>1, <3>2 DEF ReportInv, NoReads, Reporters
  <2> QED BY <2>1, <2>2, <2>3, <2>4, <2>5, <2>6, <2>7, <2>8 DEF TypeOK
<1>3. CASE \E r \in Reporters : ReadPercent(r)
  <2>1. PlaceType'
    BY <1>3, CurrentType DEF TypeOK, PlaceType, MotorKeys, ReadPercent, Reads,
       sensor, motor, flash, attributes, handler, reports
  <2>2. FlagType'
    BY <1>3, CurrentType DEF TypeOK, FlagType, ReadPercent, Reads, sensor,
       motor, flash, attributes, handler, reports
  <2>3. StepType'
    BY <1>3, CurrentType DEF TypeOK, StepType, Keys, Reporters, ReadPercent,
       Reads, sensor, motor, flash, attributes, handler, reports
  <2>4. ReportType'
    BY <1>3, CurrentType DEF TypeOK, ReportType, Percents, Lifts, Orients,
       ReadPercent, Reads, sensor, motor, flash, attributes, handler, reports
  <2>5. FlashInv'
    BY <1>3, CurrentType DEF TypeOK, PlaceType, StepType, FlagType, Keys,
       FlashInv, ToPut, ReadPercent, Reads, sensor, motor, flash, attributes,
       handler, reports
  <2>6. PlacesInv'
    BY <1>3, CurrentType DEF TypeOK, PlaceType, FlagType, StepType, Keys,
       PlacesInv, ToTell, MotorKeys, ReadPercent, Reads, sensor, motor, flash,
       attributes, handler, reports
  <2>7. AttributeInv'
    BY <1>3, CurrentType DEF TypeOK, FlagType, PlaceType, StepType,
       AttributeInv, ToTell, ReadPercent, Reads, sensor, motor, flash,
       attributes, handler, reports
  <2>8. ReportInv'
    BY <1>3, CurrentType DEF TypeOK, StepType, FlagType, ReportInv, ToTell,
       Current, Percent, Lift, Orient, Reporters, ReadPercent, Reads, sensor,
       motor, flash, attributes, handler, reports
  <2> QED BY <2>1, <2>2, <2>3, <2>4, <2>5, <2>6, <2>7, <2>8 DEF TypeOK
<1>4. CASE \E r \in Reporters : ReadLift(r)
  <2>1. PlaceType'
    BY <1>4, CurrentType DEF TypeOK, PlaceType, MotorKeys, ReadLift, Reads,
       sensor, motor, flash, attributes, handler, reports
  <2>2. FlagType'
    BY <1>4, CurrentType DEF TypeOK, FlagType, ReadLift, Reads, sensor, motor,
       flash, attributes, handler, reports
  <2>3. StepType'
    BY <1>4, CurrentType DEF TypeOK, StepType, Keys, Reporters, ReadLift,
       Reads, sensor, motor, flash, attributes, handler, reports
  <2>4. ReportType'
    BY <1>4, CurrentType DEF TypeOK, ReportType, Percents, Lifts, Orients,
       ReadLift, Reads, sensor, motor, flash, attributes, handler, reports
  <2>5. FlashInv'
    BY <1>4, CurrentType DEF TypeOK, PlaceType, StepType, FlagType, Keys,
       FlashInv, ToPut, ReadLift, Reads, sensor, motor, flash, attributes,
       handler, reports
  <2>6. PlacesInv'
    BY <1>4, CurrentType DEF TypeOK, PlaceType, FlagType, StepType, Keys,
       PlacesInv, ToTell, MotorKeys, ReadLift, Reads, sensor, motor, flash,
       attributes, handler, reports
  <2>7. AttributeInv'
    BY <1>4, CurrentType DEF TypeOK, FlagType, PlaceType, StepType,
       AttributeInv, ToTell, ReadLift, Reads, sensor, motor, flash,
       attributes, handler, reports
  <2>8. ReportInv'
    BY <1>4, CurrentType DEF TypeOK, StepType, FlagType, ReportInv, ToTell,
       Current, Percent, Lift, Orient, Reporters, ReadLift, Reads, sensor,
       motor, flash, attributes, handler, reports
  <2> QED BY <2>1, <2>2, <2>3, <2>4, <2>5, <2>6, <2>7, <2>8 DEF TypeOK
<1>5. CASE \E r \in Reporters : Turn(r)
  <2>1. PlaceType'
    BY <1>5, CurrentType DEF TypeOK, PlaceType, MotorKeys, Turn, Reads,
       sensor, motor, flash, attributes, handler, reports
  <2>2. FlagType'
    BY <1>5, CurrentType DEF TypeOK, FlagType, Turn, Reads, sensor, motor,
       flash, attributes, handler, reports
  <2>3. StepType'
    BY <1>5, CurrentType DEF TypeOK, StepType, Keys, Reporters, Turn, Reads,
       sensor, motor, flash, attributes, handler, reports
  <2>4. ReportType'
    BY <1>5, CurrentType DEF TypeOK, ReportType, Percents, Lifts, Orients,
       Turn, Reads, sensor, motor, flash, attributes, handler, reports
  <2>5. FlashInv'
    BY <1>5, CurrentType DEF TypeOK, PlaceType, StepType, FlagType, Keys,
       FlashInv, ToPut, Turn, Reads, sensor, motor, flash, attributes,
       handler, reports
  <2>6. PlacesInv'
    BY <1>5, CurrentType DEF TypeOK, PlaceType, FlagType, StepType, Keys,
       PlacesInv, ToTell, MotorKeys, Turn, Reads, sensor, motor, flash,
       attributes, handler, reports
  <2>7. AttributeInv'
    BY <1>5, CurrentType DEF TypeOK, FlagType, PlaceType, StepType,
       AttributeInv, ToTell, Turn, Reads, sensor, motor, flash, attributes,
       handler, reports
  <2>8. ReportInv'
    BY <1>5, CurrentType DEF TypeOK, StepType, FlagType, ReportInv, ToTell,
       Current, Percent, Lift, Orient, Reporters, Turn, Reads, sensor, motor,
       flash, attributes, handler, reports
  <2> QED BY <2>1, <2>2, <2>3, <2>4, <2>5, <2>6, <2>7, <2>8 DEF TypeOK
<1>6. CASE \E r \in Reporters : Publish(r)
  <2>1. PlaceType'
    BY <1>6 DEF TypeOK, PlaceType, MotorKeys, Publish, NoReads, sensor, motor,
       flash, attributes, handler, reports
  <2>2. FlagType'
    BY <1>6 DEF TypeOK, FlagType, Publish, NoReads, sensor, motor, flash,
       attributes, handler, reports
  <2>3. StepType'
    BY <1>6 DEF TypeOK, StepType, Keys, Reporters, Publish, NoReads, sensor,
       motor, flash, attributes, handler, reports
  <2>4. ReportType'
    <3>1. PICK r \in Reporters : Publish(r)
      BY <1>6
    <3>2. /\ read[r].percent # Unread /\ read[r].lift # Unread
          /\ read[r].orient # Unread
      BY <3>1 DEF ReportInv, Publish
    <3>3. read[r] \in [percent : Percents, lift : Lifts, orient : Orients]
      BY <3>2 DEF TypeOK, ReportType
    <3>4. NoReads \in [percent : Percents \cup {Unread}, lift : Lifts \cup {Unread},
                       orient : Orients \cup {Unread}]
      BY DEF NoReads
    <3>5. pub' = read[r] /\ read' = [read EXCEPT ![r] = NoReads]
      BY <3>1 DEF Publish
    <3> QED BY <3>3, <3>4, <3>5 DEF TypeOK, ReportType
  <2>5. FlashInv'
    BY <1>6 DEF TypeOK, PlaceType, StepType, FlagType, Keys, FlashInv, ToPut,
       Publish, NoReads, sensor, motor, flash, attributes, handler, reports
  <2>6. PlacesInv'
    BY <1>6 DEF TypeOK, PlaceType, FlagType, StepType, Keys, PlacesInv,
       ToTell, MotorKeys, Publish, NoReads, sensor, motor, flash, attributes,
       handler, reports
  <2>7. AttributeInv'
    BY <1>6 DEF TypeOK, FlagType, PlaceType, StepType, AttributeInv, ToTell,
       Publish, NoReads, sensor, motor, flash, attributes, handler, reports
  <2>8. ReportInv'
    <3>1. PICK r \in Reporters : Publish(r)
      BY <1>6
    <3>2. active' = active \ {r} /\ cb' = cb /\ (active # {} => cb)
      BY <3>1 DEF Publish, ReportInv
    <3>3. \A q \in Reporters : read'[q] = IF q = r THEN NoReads ELSE read[q]
      BY <3>1 DEF Publish, TypeOK, ReportType
    <3>4. \A q \in Reporters :
            /\ read'[q].orient # Unread =>
                  read'[q].percent # Unread /\ read'[q].lift # Unread
            /\ q \notin active' => read'[q] = NoReads
      BY <3>2, <3>3 DEF ReportInv, NoReads
    <3>5. active' \ crossed' \subseteq (active \ crossed) \ {r}
      BY <3>1 DEF Publish
    <3>6. Percent' = Percent /\ Lift' = Lift /\ Orient' = Orient
      BY <3>1 DEF Publish, Percent, Lift, Orient, sensor, motor
    <3>7. \A q \in active' \ crossed' :
            /\ read'[q].percent \in {Unread, Percent'}
            /\ read'[q].lift \in {Unread, Lift'}
            /\ read'[q].orient \in {Unread, Orient'}
      BY <3>3, <3>5, <3>6 DEF ReportInv, TypeOK, StepType
    <3>8. ASSUME ~behind' PROVE pub' = Current'
      <4>1. /\ r \in active \ crossed /\ pub' = read[r]
            /\ read[r].orient # Unread
        BY <3>1, <3>8 DEF Publish
      <4>2. read[r].percent # Unread /\ read[r].lift # Unread
        BY <4>1 DEF ReportInv
      <4>3. /\ read[r].percent = Percent /\ read[r].lift = Lift
            /\ read[r].orient = Orient
        BY <4>1, <4>2 DEF ReportInv
      <4>4. read[r] = Current
        BY <4>3 DEF Current, TypeOK, ReportType
      <4> QED BY <4>1, <4>4, <3>6 DEF Current
    <3> QED BY <3>2, <3>4, <3>7, <3>8 DEF ReportInv
  <2> QED BY <2>1, <2>2, <2>3, <2>4, <2>5, <2>6, <2>7, <2>8 DEF TypeOK
<1> QED BY <1>1, <1>2, <1>3, <1>4, <1>5, <1>6 DEF Report

LEMMA StepInv ==
  ASSUME SettingsInv, [Next]_vars
  PROVE  SettingsInv'
<1>1. CASE Next
  BY <1>1, BootInv, WriteInv, FinishInv, ReportsInv DEF Next, Handler
<1>2. CASE UNCHANGED vars
  BY <1>2 DEF vars, sensor, motor, flash, attributes, handler, reports, SettingsInv,
     TypeOK, PlaceType, FlagType, StepType, ReportType, FlashInv, PlacesInv,
     AttributeInv, ReportInv, ToPut, ToTell, Current, Percent, Lift, Orient
<1> QED BY <1>1, <1>2

\* The places a setting lives in, and what is read for the reports, agree at
\* every step of the handlers, the reports and the restarts.
THEOREM SettingsInvariant == Spec => []SettingsInv
BY InitInv, StepInv, PTL DEF Spec

\* No restart changes a setting that the flash had taken.
THEOREM Survival == Spec => SettingsSurvive
<1>1. SettingsInv /\ [Next]_vars =>
        [online /\ ~online' /\ failed = {} /\ zb # "put" =>
           /\ min' = min /\ mMin' = mMin /\ mMax' = mMax
           /\ invert' = invert /\ plain' = plain]_vars
  <2> SUFFICES ASSUME SettingsInv, Next, online, ~online', failed = {}, zb # "put"
               PROVE  /\ min' = min /\ mMin' = mMin /\ mMax' = mMax
                      /\ invert' = invert /\ plain' = plain
    OBVIOUS
  <2>1. Restart
    <3>1. Handler \/ Sample \/ Report => online' = online
      BY DEF Handler, WriteInvert, WriteSetup, SetLimit, WritePlain, Put, TellInvert,
         TellPlain, TellLimit, Sample, Report, MoveCallback, ReadPercent, ReadLift,
         Turn, Reads, Publish, attributes
    <3> QED BY <3>1 DEF Next, OnConnect
  <2>2. fMin = min /\ fMax = mMax /\ (fInvert <=> invert) /\ min = mMin
    BY DEF SettingsInv, FlashInv, PlacesInv, ToPut
  <2>3. fPlain = plain
    <3>1. \A k \in Plain : fPlain[k] = plain[k]
      BY DEF SettingsInv, FlashInv, ToPut
    <3> QED BY <3>1 DEF SettingsInv, TypeOK, PlaceType
  <2>4. invert' = fInvert /\ min' = fMin /\ mMin' = fMin /\ mMax' = fMax /\ plain' = fPlain
    BY <2>1 DEF Restart, Load
  <2>5. fInvert = invert
    BY <2>2 DEF SettingsInv, TypeOK, FlagType
  <2> QED BY <2>2, <2>3, <2>4, <2>5
<1> QED BY <1>1, SettingsInvariant, PTL DEF Spec, SettingsSurvive

\* A report that nothing overtook is current.
THEOREM ReportsCurrent == Spec => []ReportCurrent
<1>1. SettingsInv => ReportCurrent
  BY DEF SettingsInv, ReportInv, ReportCurrent, ToTell
<1> QED BY <1>1, SettingsInvariant, PTL
=============================================================================
