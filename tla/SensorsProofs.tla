----------------------------- MODULE SensorsProofs -----------------------------
(***************************************************************************)
(* Theorems about Sensors, for every value of the two reopen limits and of *)
(* the factor an I2C bus has.                                              *)
(***************************************************************************)
EXTENDS Sensors, TLAPS

LEMMA TimesAtLeast ==
  ASSUME NEW a \in Nat \ {0}, NEW b \in Nat \ {0}
  PROVE  a * b \in Nat \ {0} /\ a <= a * b
<1>1. b - 1 \in Nat /\ a * (b - 1) \in Nat
  OBVIOUS
<1>2. a * b = a + a * (b - 1)
  OBVIOUS
<1> QED BY <1>1, <1>2

LEMMA SensorsConstants ==
  /\ TofLimit \in Nat \ {0} /\ TofReopenAfter * I2cFactor \in Nat \ {0}
  /\ TofLimit <= TofReopenAfter * I2cFactor
  /\ ThermalReopenAfter \in Nat \ {0}
BY SensorsAssumption, TimesAtLeast DEF SensorsAssumption, TofLimit

-----------------------------------------------------------------------------
(***************************************************************************)
(* TypeOK is not inductive: that the count of thermal failures stays in    *)
(* its range needs the handle.  The SDK is only asked with a handle open,  *)
(* opening one starts the count over, and the failure that reaches the     *)
(* limit closes it.                                                        *)
(***************************************************************************)
SdkCounts == cam # "none" => sdk /\ thFails < ThermalReopenAfter

SensorsInv == TypeOK /\ SdkCounts

LEMMA TofFailedType ==
  ASSUME TypeOK, TofFailed
  PROVE  tofOpen' \in BOOLEAN /\ tofFails' \in 0 .. TofReopenAfter * I2cFactor - 1
<1> DEFINE max == TofReopenAfter * I2cFactor
<1>1. max \in Nat \ {0} /\ TofLimit \in Nat \ {0} /\ TofLimit <= max
  BY SensorsConstants
<1>2. tofFails \in 0 .. max - 1 /\ tofOpen \in BOOLEAN
  BY DEF TypeOK
<1>3. tofOpen' \in BOOLEAN
  BY <1>2 DEF TofFailed
<1>4. tofFails' \in 0 .. max - 1
  <2> HIDE DEF max
  <2>1. CASE tofFails + 1 < TofLimit
    BY <1>1, <1>2, <2>1 DEF TofFailed
  <2>2. CASE ~(tofFails + 1 < TofLimit)
    BY <1>1, <2>2 DEF TofFailed
  <2> QED BY <2>1, <2>2
<1> QED BY <1>3, <1>4

\* The steps of the world and of the distance sensor leave the thermal stream
\* with its count as it is, or lose its handle.
LEMMA WorldSteps ==
  ASSUME SensorsInv, SensorQuiet \/ Plug \/ SensorBreaks \/ Link \/ CalmDown
  PROVE  SensorsInv'
<1> USE DEF SensorsInv, TypeOK, SdkCounts, tof, thermal, topic
<1>1. CASE SensorQuiet
  BY <1>1 DEF SensorQuiet
<1>2. CASE Plug
  <2>1. v4l2' \in {"none", "open", "stale", "streams", "dead"}
    BY <1>2, Zenon DEF Plug
  <2>2. cam' \in {"none", "live", "gone"} /\ (cam' # "none" => cam # "none")
    BY <1>2 DEF Plug
  <2>3. plugged' \in BOOLEAN /\ UNCHANGED <<calm, up, tof, imaging, sdk, stuck, thFails, fault, image, topic>>
    BY <1>2 DEF Plug
  <2> QED BY <2>1, <2>2, <2>3
<1>3. CASE SensorBreaks
  BY <1>3 DEF SensorBreaks
<1>4. CASE Link
  BY <1>4 DEF Link
<1>5. CASE CalmDown
  BY <1>5 DEF CalmDown
<1> QED BY <1>1, <1>2, <1>3, <1>4, <1>5

LEMMA TofSteps ==
  ASSUME SensorsInv, TofOpens \/ TofFrame \/ TofTimeout \/ TofGarbage
  PROVE  SensorsInv'
<1>0. tofOpen' \in BOOLEAN /\ tofFails' \in 0 .. TofReopenAfter * I2cFactor - 1
      /\ reading' \in TofStates \ {"absent"}
  <2>1. CASE TofOpens
    BY <2>1 DEF TofOpens, SensorsInv, TypeOK
  <2>2. CASE TofFrame
    <3>1. 0 \in 0 .. TofReopenAfter * I2cFactor - 1
      BY SensorsConstants
    <3> QED BY <2>2, <3>1 DEF TofFrame, SensorsInv, TypeOK, TofStates
  <2>3. CASE TofTimeout
    <3>1. reading' = reading /\ TofFailed
      BY <2>3 DEF TofTimeout
    <3> QED BY <3>1, TofFailedType DEF SensorsInv, TypeOK
  <2>4. CASE TofGarbage
    <3>1. reading' = reading /\ (TofFailed \/ (tofFails' = 0 /\ UNCHANGED tofOpen))
      BY <2>4 DEF TofGarbage
    <3>2. 0 \in 0 .. TofReopenAfter * I2cFactor - 1
      BY SensorsConstants
    <3> QED BY <3>1, <3>2, TofFailedType DEF SensorsInv, TypeOK
  <2> QED BY <2>1, <2>2, <2>3, <2>4
<1>1. UNCHANGED <<calm, up, silent, i2c, thermal, topic>>
  BY DEF TofOpens, TofFrame, TofTimeout, TofGarbage
<1> QED BY <1>0, <1>1 DEF SensorsInv, TypeOK, SdkCounts, thermal, topic

LEMMA ThermalSteps ==
  ASSUME SensorsInv,
         TryV4l2 \/ StartStream \/ V4l2Frame \/ QueryFrame \/ QueryBlocks \/ QueryFails \/ OpenSdk
  PROVE  SensorsInv'
<1>0. thFails \in Nat /\ ThermalReopenAfter \in Nat \ {0}
  BY SensorsConstants DEF SensorsInv, TypeOK
<1>1. CASE TryV4l2 \/ StartStream \/ QueryBlocks
  BY <1>1 DEF TryV4l2, StartStream, QueryBlocks, SensorsInv, TypeOK, SdkCounts, tof, topic
<1>2. CASE V4l2Frame \/ QueryFrame
  <2>1. GotImage /\ 0 \in 0 .. ThermalReopenAfter /\ 0 < ThermalReopenAfter
    BY <1>0, <1>2 DEF V4l2Frame, QueryFrame
  <2> QED BY <2>1 DEF GotImage, SensorsInv, TypeOK, SdkCounts, tof, topic
<1>3. CASE QueryFails
  <2>1. sdk /\ cam # "none" /\ thFails < ThermalReopenAfter
    BY <1>3 DEF QueryFails, Asks, Running, SensorsInv, SdkCounts
  <2>2. thFails' = thFails + 1 /\ thFails' \in 0 .. ThermalReopenAfter
    BY <1>0, <1>3, <2>1 DEF QueryFails
  <2>3. CASE thFails + 1 < ThermalReopenAfter
    BY <1>3, <2>1, <2>2, <2>3 DEF QueryFails, SensorsInv, TypeOK, SdkCounts, tof, topic
  <2>4. CASE ~(thFails + 1 < ThermalReopenAfter)
    <3>1. cam' = "none" /\ fault' \in BOOLEAN
      BY <1>3, <2>4 DEF QueryFails, SensorsInv, TypeOK
    <3> QED BY <1>3, <2>2, <3>1 DEF QueryFails, SensorsInv, TypeOK, SdkCounts, tof, topic
  <2> QED BY <2>3, <2>4
<1>4. CASE OpenSdk
  BY <1>0, <1>4 DEF OpenSdk, SensorsInv, TypeOK, SdkCounts, tof, topic
<1> QED BY <1>1, <1>2, <1>3, <1>4

LEMMA ProcessSteps ==
  ASSUME SensorsInv, StartThrows \/ Restart \/ \E beat \in BOOLEAN : Publish(beat)
  PROVE  SensorsInv'
<1>1. CASE StartThrows
  <2>1. 0 \in 0 .. TofReopenAfter * I2cFactor - 1 /\ 0 \in 0 .. ThermalReopenAfter
    BY SensorsConstants
  <2>2. /\ tofFails' = 0 /\ reading' = "weak" /\ v4l2' = "none" /\ cam' = "none" /\ thFails' = 0
        /\ {up', tofOpen', stuck', fault', image', conn'} \subseteq BOOLEAN /\ digest' = "start"
        /\ UNCHANGED <<calm, silent, i2c, plugged, imaging, sdk, shown>>
    BY <1>1 DEF StartThrows
  <2> QED BY <2>1, <2>2 DEF SensorsInv, TypeOK, SdkCounts, TofStates, Digests
<1>2. CASE Restart
  BY <1>2 DEF Restart, SensorsInv, TypeOK, SdkCounts, thermal, topic
<1>3. ASSUME NEW beat \in BOOLEAN, Publish(beat) PROVE SensorsInv'
  <2>1. Current \in Report
    <3>1. (IF tofOpen THEN reading ELSE "absent") \in TofStates
      BY DEF SensorsInv, TypeOK, TofStates
    <3>2. (IF ~ThermalOpen THEN "absent" ELSE IF image THEN "valid" ELSE "none")
             \in {"absent", "none", "valid"}
      OBVIOUS
    <3> QED BY <3>1, <3>2 DEF Current, Report
  <2>2. shown' \in Report
    BY <1>3, <2>1 DEF Publish, SensorsInv, TypeOK
  <2>3. digest' \in Digests
    BY <1>3 DEF Publish, Digest, Digests
  <2> QED BY <1>3, <2>2, <2>3 DEF Publish, SensorsInv, TypeOK, SdkCounts, tof, thermal
<1> QED BY <1>1, <1>2, <1>3

\* The failure counters of both streams stay below the limits at which the
\* streams give their handles up, on a UART as on an I2C bus, across handles
\* that are closed and opened again, cameras pulled out and processes that end.
THEOREM SensorsTypeCorrect == Spec => []TypeOK
<1>1. Init => SensorsInv
  <2>1. 0 \in 0 .. TofReopenAfter * I2cFactor - 1 /\ 0 \in 0 .. ThermalReopenAfter
    BY SensorsConstants
  <2>2. [tof |-> "absent", thermal |-> "absent"] \in Report
    BY DEF Report, TofStates
  <2> SUFFICES ASSUME Init PROVE SensorsInv
    OBVIOUS
  <2>3. SdkCounts
    BY DEF Init, Fresh, SdkCounts
  <2> QED BY <2>1, <2>2, <2>3 DEF Init, Fresh, SensorsInv, TypeOK, TofStates, Digests
<1>2. SensorsInv /\ [Next]_vars => SensorsInv'
  <2> SUFFICES ASSUME SensorsInv, [Next]_vars PROVE SensorsInv'
    OBVIOUS
  <2>1. CASE UNCHANGED vars
    BY <2>1 DEF vars, tof, thermal, topic, SensorsInv, TypeOK, SdkCounts
  <2>2. CASE Next
    BY <2>2, WorldSteps, TofSteps, ThermalSteps, ProcessSteps DEF Next
  <2> QED BY <2>1, <2>2
<1>3. SensorsInv => TypeOK
  BY DEF SensorsInv
<1> QED BY <1>1, <1>2, <1>3, PTL DEF Spec
=============================================================================
