-------------------------------- MODULE Sensors --------------------------------
(***************************************************************************)
(* The two sensor streams of the daemon and the state topic they end up in: *)
(* the thread of TofStream on a UART or an I2C bus (tof.hpp), the thread of *)
(* ThermalStream on v4l2 or with the vendor's SDK (thermal.hpp), and the    *)
(* part of the main loop that takes their status and publishes it           *)
(* (robot.hpp, main.cpp, mqtt.hpp).                                         *)
(*                                                                         *)
(* A distance is only known by whether it can be trusted; a thermal image   *)
(* by whether there has been one.                                           *)
(***************************************************************************)
EXTENDS Integers

CONSTANTS
  TofReopenAfter,     \* kReopenAfter of TofStream
  I2cFactor,          \* how many times more failures an I2C bus may have
  ThermalReopenAfter  \* kReopenAfter of ThermalStream

ASSUME SensorsAssumption ==
  {TofReopenAfter, I2cFactor, ThermalReopenAfter} \subseteq Nat \ {0}

VARIABLES
  calm,     \* nothing is unplugged, fails to answer or disconnects any more
  up,       \* the process runs
  silent,   \* the distance sensor says nothing
  i2c,      \* cfg_.i2c
  tofOpen,  \* fd_ >= 0, which st_.open follows
  tofFails, \* fails
  reading,  \* last_ of TofStream
  plugged,  \* the thermal camera is on the bus
  imaging,  \* its sensor works
  sdk,      \* cfg_.use_sdk in a build that has the SDK
  v4l2,     \* v4l2_: none, open, streams; stale, dead: the same, unplugged
  cam,      \* cam_: none, live, or gone when its device is unplugged
  stuck,    \* QueryFrame does not return
  thFails,  \* fails
  fault,    \* st_.fault
  image,    \* last_ of ThermalStream is valid
  conn,     \* the link to the broker is up
  digest,   \* last_digest
  shown     \* what the last state message said

tof == <<silent, i2c, tofOpen, tofFails, reading>>
thermal == <<plugged, imaging, sdk, v4l2, cam, stuck, thFails, fault, image>>
topic == <<conn, digest, shown>>
vars == <<calm, up, tof, thermal, topic>>

TofStates == {"absent", "weak", "valid"}
Report == [tof : TofStates, thermal : {"absent", "none", "valid"}]
Digests == {"start", "absent", "present"}

\* Every variable keeps to its range; the counters stay below their limits.
TypeOK ==
  /\ {calm, up, silent, i2c, tofOpen, plugged, imaging, sdk, stuck} \subseteq BOOLEAN
  /\ {fault, image, conn} \subseteq BOOLEAN
  /\ tofFails \in 0 .. TofReopenAfter * I2cFactor - 1
  /\ reading \in TofStates \ {"absent"}
  /\ v4l2 \in {"none", "open", "stale", "streams", "dead"}
  /\ cam \in {"none", "live", "gone"} /\ thFails \in 0 .. ThermalReopenAfter
  /\ digest \in Digests /\ shown \in Report

Fresh ==
  /\ tofOpen \in BOOLEAN /\ tofFails = 0 /\ reading = "weak"
  /\ v4l2 = "none" /\ cam = "none" /\ stuck = FALSE /\ thFails = 0
  /\ fault = FALSE /\ image = FALSE
  /\ digest = "start"

Init ==
  /\ calm = FALSE /\ up = TRUE
  /\ silent \in BOOLEAN /\ plugged \in BOOLEAN /\ imaging = TRUE
  /\ i2c \in BOOLEAN /\ sdk \in BOOLEAN
  /\ conn = FALSE /\ shown = [tof |-> "absent", thermal |-> "absent"]
  /\ Fresh

-----------------------------------------------------------------------------
(***************************************************************************)
(* The world                                                               *)
(***************************************************************************)
SensorQuiet ==
  /\ ~calm /\ silent' = ~silent
  /\ UNCHANGED <<calm, up, i2c, tofOpen, tofFails, reading, thermal, topic>>

Plug ==
  /\ ~calm /\ plugged' = ~plugged
  /\ v4l2' = CASE v4l2 = "open" -> "stale" [] v4l2 = "streams" -> "dead" [] OTHER -> v4l2
  /\ cam' = IF cam = "live" THEN "gone" ELSE cam
  /\ UNCHANGED <<calm, up, tof, imaging, sdk, stuck, thFails, fault, image, topic>>

SensorBreaks ==
  /\ ~calm /\ imaging' = ~imaging
  /\ UNCHANGED <<calm, up, tof, plugged, sdk, v4l2, cam, stuck, thFails, fault, image, topic>>

Link ==
  /\ up /\ conn' = ~conn /\ (calm => conn')
  /\ UNCHANGED <<calm, up, tof, thermal, digest, shown>>

CalmDown ==
  /\ ~silent /\ plugged /\ imaging /\ calm' = TRUE
  /\ UNCHANGED <<up, tof, thermal, topic>>

-----------------------------------------------------------------------------
(***************************************************************************)
(* TofStream::loop                                                         *)
(***************************************************************************)
\* The thread sleeps for 2 s before it opens the port again, ten periods of the
\* state topic: by then the main loop has seen it closed.
TofOpens ==
  /\ up /\ ~tofOpen /\ digest = "absent" /\ tofOpen' = TRUE
  /\ UNCHANGED <<calm, up, silent, i2c, tofFails, reading, thermal, topic>>

\* A frame whose checksum, or whose range on I2C, is right
TofFrame ==
  /\ up /\ tofOpen /\ ~silent
  /\ tofFails' = 0
  /\ reading' \in IF calm THEN {"valid"} ELSE {"valid", "weak"}
  /\ UNCHANGED <<calm, up, silent, i2c, tofOpen, thermal, topic>>

TofLimit == IF i2c THEN TofReopenAfter * I2cFactor ELSE TofReopenAfter

\* Mutant: the fault limit is never reached.
TofFailsForEver ==
  /\ tofFails' = IF tofFails + 1 < TofLimit THEN tofFails + 1 ELSE 0
  /\ UNCHANGED tofOpen

\* Mutant: the count goes on while the port is closed.
TofFailedCounts ==
  /\ tofFails' = tofFails + 1
  /\ tofOpen' = (tofFails + 1 < TofLimit)

TofFailed ==
  IF tofFails + 1 < TofLimit
  THEN tofFails' = tofFails + 1 /\ UNCHANGED tofOpen
  ELSE tofFails' = 0 /\ tofOpen' = FALSE

\* read() gave nothing, or the I2C transfer failed
TofTimeout ==
  /\ up /\ tofOpen /\ (silent \/ ~calm)
  /\ TofFailed
  /\ UNCHANGED <<calm, up, silent, i2c, reading, thermal, topic>>

\* Bytes that are no frame: on a UART they are a sign of life, on I2C a failure.
TofGarbage ==
  /\ up /\ tofOpen /\ ~silent /\ ~calm
  /\ IF i2c THEN TofFailed ELSE tofFails' = 0 /\ UNCHANGED tofOpen
  /\ UNCHANGED <<calm, up, silent, i2c, reading, thermal, topic>>

-----------------------------------------------------------------------------
(***************************************************************************)
(* ThermalStream::loop                                                     *)
(***************************************************************************)
ThermalOpen == IF sdk THEN cam # "none" ELSE v4l2 # "none"

\* The loop is past the handle it needs: the SDK is opened before v4l2 is tried.
Running == up /\ ~stuck /\ (sdk => cam # "none")

\* tryV4l2(); while the SDK holds the device it may well be refused.
TryV4l2 ==
  /\ Running /\ v4l2 = "none" /\ plugged /\ v4l2' = "open"
  /\ UNCHANGED <<calm, up, tof, plugged, imaging, sdk, cam, stuck, thFails, fault, image, topic>>

StartStream ==
  /\ Running /\ v4l2 = "open" /\ v4l2' = "streams"
  /\ UNCHANGED <<calm, up, tof, plugged, imaging, sdk, cam, stuck, thFails, fault, image, topic>>

\* The first grab() cannot start the stream: its exception ends the process.
StartThrows ==
  /\ Running /\ (v4l2 = "stale" \/ (v4l2 = "open" /\ ~calm))
  /\ up' = FALSE /\ conn' = FALSE
  /\ tofOpen' = FALSE /\ tofFails' = 0 /\ reading' = "weak"
  /\ v4l2' = "none" /\ cam' = "none" /\ stuck' = FALSE /\ thFails' = 0
  /\ fault' = FALSE /\ image' = FALSE
  /\ digest' = "start"
  /\ UNCHANGED <<calm, silent, i2c, plugged, imaging, sdk, shown>>

Restart ==
  /\ ~up /\ up' = TRUE /\ tofOpen' \in BOOLEAN
  /\ UNCHANGED <<calm, silent, i2c, tofFails, reading, thermal, topic>>

\* Mutant: the fault stays when images come again.
GotImageKeepsFault ==
  /\ image' = TRUE /\ thFails' = 0
  /\ UNCHANGED <<calm, up, tof, plugged, imaging, sdk, v4l2, cam, stuck, fault, topic>>

GotImage ==
  /\ image' = TRUE /\ thFails' = 0 /\ fault' = FALSE
  /\ UNCHANGED <<calm, up, tof, plugged, imaging, sdk, v4l2, cam, stuck, topic>>

\* grabV4l2() gave a frame.
V4l2Frame == Running /\ v4l2 = "streams" /\ imaging /\ GotImage

\* The SDK is asked when v4l2 is not open or gives nothing.
Asks == Running /\ sdk /\ (v4l2 \in {"none", "dead"} \/ (v4l2 = "streams" /\ (~calm \/ ~imaging)))

QueryFrame == Asks /\ cam = "live" /\ imaging /\ GotImage

QueryBlocks ==
  /\ Asks /\ ~calm /\ stuck' = TRUE
  /\ UNCHANGED <<calm, up, tof, plugged, imaging, sdk, v4l2, cam, thFails, fault, image, topic>>

\* After ThermalReopenAfter failures in a row the sensor is asked what is wrong,
\* and the SDK's handle is closed; v4l2_ is left as it is.
QueryFails ==
  /\ Asks /\ (~calm \/ cam = "gone")
  /\ thFails' = thFails + 1
  /\ IF thFails + 1 < ThermalReopenAfter
     THEN UNCHANGED <<cam, fault>>
     ELSE cam' = "none" /\ fault' = (fault \/ (cam = "live" /\ ~imaging))
  /\ UNCHANGED <<calm, up, tof, plugged, imaging, sdk, v4l2, stuck, image, topic>>

\* openCamera() with the SDK
OpenSdk ==
  /\ up /\ sdk /\ cam = "none" /\ plugged
  /\ cam' = "live" /\ thFails' = 0
  /\ UNCHANGED <<calm, up, tof, plugged, imaging, sdk, v4l2, stuck, fault, image, topic>>

-----------------------------------------------------------------------------
(***************************************************************************)
(* The main loop                                                           *)
(***************************************************************************)
\* What status() collects, as far as the state topic carries it.  It asks a stream
\* for ok(), latest() and status() one after the other; the answers may be a step
\* of the stream apart, which is left out here.
Current ==
  [tof |-> IF tofOpen THEN reading ELSE "absent",
   thermal |-> IF ~ThermalOpen THEN "absent" ELSE IF image THEN "valid" ELSE "none"]

\* stateDigest() does not know whether the distance can be trusted, and nothing of
\* the thermal camera.
Digest == IF tofOpen THEN "present" ELSE "absent"

\* Mutant: no heartbeat.
PublishesChanges(beat) == Digest # digest

Publishes(beat) == beat \/ Digest # digest

\* A pass at the end of a state_period: a state message goes out when the digest
\* has changed or the heartbeat is due, whether or not there is a link.
Publish(beat) ==
  /\ up /\ digest' = Digest
  /\ shown' = IF Publishes(beat) /\ conn THEN Current ELSE shown
  /\ UNCHANGED <<calm, up, tof, thermal, conn>>

Next ==
  \/ SensorQuiet \/ Plug \/ SensorBreaks \/ Link \/ CalmDown
  \/ TofOpens \/ TofFrame \/ TofTimeout \/ TofGarbage
  \/ TryV4l2 \/ StartStream \/ StartThrows \/ Restart
  \/ V4l2Frame \/ QueryFrame \/ QueryBlocks \/ QueryFails \/ OpenSdk
  \/ \E beat \in BOOLEAN : Publish(beat)

\* The threads run, their sleeps end, the library reconnects the link, and every
\* now and then a heartbeat is due.
Fairness ==
  /\ WF_vars(TofOpens) /\ WF_vars(TofFrame) /\ WF_vars(silent /\ TofTimeout)
  /\ WF_vars(~sdk /\ TryV4l2) /\ WF_vars(StartStream) /\ WF_vars(v4l2 = "stale" /\ StartThrows)
  /\ WF_vars(V4l2Frame) /\ WF_vars(QueryFrame) /\ WF_vars(cam = "gone" /\ QueryFails)
  /\ WF_vars(OpenSdk) /\ WF_vars(~conn /\ Link)
  /\ WF_vars(Publish(FALSE)) /\ WF_vars(Publish(TRUE))

Spec == Init /\ [][Next]_vars /\ Fairness

-----------------------------------------------------------------------------
(***************************************************************************)
(* Properties                                                              *)
(***************************************************************************)
\* What the state topic says agrees with the streams again some time after the
\* last disturbance, also in what the digest leaves out and for what was
\* published while the link was down.
StateCatchesUp ==
  <>[](calm /\ up) => <>[](shown.tof = "valid" /\ shown.thermal = Current.thermal)

\* A distance sensor that has fallen silent is shown as absent again and again:
\* opening its port always succeeds, so it does not stay absent.
SilenceIsShown == <>[](silent /\ conn /\ up) => []<>(shown.tof = "absent")

\* A thermal camera that is plugged in while the daemon runs is picked up, and a
\* fault it has reported is withdrawn, unless the v4l2 handle is that of a camera
\* that was unplugged or the SDK does not return.
ThermalComesUp ==
  <>[](calm /\ up /\ v4l2 # "dead" /\ ~stuck) => <>[](ThermalOpen /\ image /\ ~fault)
=============================================================================
