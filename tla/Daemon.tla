-------------------------------- MODULE Daemon --------------------------------
(***************************************************************************)
(* The whole daemon: Robot in the loop of runMqtt (main.cpp), between its  *)
(* MqttLink (mqtt.hpp) and the motors.  MqttLoop has SafeStop in the place *)
(* of the robot, Robot takes any command at any time; here the commands    *)
(* come out of the queue that the network thread fills, a tick begins only *)
(* when the queue is empty and is not interrupted by commands, and the     *)
(* alarms say what the robot's own flags say.                              *)
(*                                                                         *)
(* The steps of the network thread and of raiseAlarms are those of module  *)
(* MqttLoop, which do not change the robot; the steps of the robot are     *)
(* those of Robot.                                                         *)
(***************************************************************************)
EXTENDS Robot, Sequences

CONSTANTS
  MaxQueue,     \* kMaxQueue
  MaxBurst,     \* bound: how many commands may arrive during one pass
  SlowPass,     \* a reconnection may fit between two looks at the connection
  MaxBreaks,    \* bound: how often the link breaks, with the broker or the daemon or not
  Devices       \* whether a device of those with an alarm may be missing

ASSUME DaemonAssumption ==
  /\ MaxQueue \in Nat \ {0} /\ MaxBurst \in Nat /\ MaxBreaks \in Nat /\ SlowPass \in BOOLEAN
  /\ Devices \subseteq BOOLEAN /\ Devices # {}

VARIABLES
  pass,         \* where the loop of runMqtt is; the pc of Robot is inside it
  q,            \* these and all that follow are those of MqttLoop
  connected, live, noticed, device, prev, primed, retained, outbox,
  burst, breaks, lastword, younger

link == <<q, connected, live, noticed, device, prev, primed, retained, outbox,
          burst, breaks, lastword, younger>>
daemonVars == <<vars, pass, link>>

\* What MqttLoop knows of the robot
Cause ==
  CASE Latched.kind = "none"    -> "none"
    [] Latched.kind = "command" -> "request"
    [] OTHER                    -> "fault"

Loop == INSTANCE MqttLoop WITH
  Why <- {"none", "request", "fault"}, Nothing <- "none",
  mode <- Mode, driving <- Driving, why <- Cause,
  tripped <- Up /\ tripped, pc <- IF Up THEN pass ELSE "down"

Passes == {"top", "commands", "tick", "publish"}

DaemonInit ==
  /\ Init /\ pass = "top"
  /\ q = <<>> /\ connected = FALSE /\ live = FALSE /\ noticed = TRUE
  /\ device \in Devices
  /\ prev = [k \in Loop!Keys |-> FALSE] /\ primed = FALSE
  /\ retained = [k \in Loop!Keys |-> "none"] /\ outbox = [k \in Loop!Keys |-> "none"]
  /\ burst = 0 /\ breaks = 0 /\ lastword = "none" /\ younger = 0

-----------------------------------------------------------------------------
(***************************************************************************)
(* The network thread, and what it cannot help.  It never touches Robot.   *)
(***************************************************************************)
RobotStays == UNCHANGED <<vars, pass>>

\* What the controller sends that is driving, and nobody once it has left.
Drives == {"wheel", "stop", "reset"}

Receive(kind) ==
  /\ kind \in Drives => driver
  /\ RobotStays /\ Loop!Receive(kind)

Connects == RobotStays /\ (Loop!OnConnect \/ Loop!OnDisconnect)

LinkBreaks(restarted) == RobotStays /\ Loop!LinkBreaks(restarted)

\* The driving controller leaves; of what it has sent nothing is on the way.
DriverLeaves ==
  /\ \A i \in 1 .. Len(q) : q[i] \notin Drives
  /\ DriverGone
  /\ UNCHANGED <<pass, link>>

Contacts == Wiring /\ UNCHANGED <<pass, link>>

-----------------------------------------------------------------------------
(***************************************************************************)
(* The main thread: runMqtt                                                *)
(***************************************************************************)
At(from, to) == pass = from /\ pass' = to

NextPass == At("top", "commands") /\ UNCHANGED <<vars, link>>

\* The switch over the kind of a command; Robot refuses what it cannot do.
Obeys(kind) ==
  CASE kind = "wheel" -> \/ \E rpm \in Rpms : WheelCommand(rpm)
                         \/ \E duty \in {0, 1} : ActuatorCommand(duty)
                         \/ (estopped \/ ~drive_ok) /\ UNCHANGED vars
    [] kind = "stop"  -> StopCommand \/ (~drive_ok /\ UNCHANGED vars)
    [] kind = "estop" -> EStopCommand
    [] kind = "reset" -> ResetCommand
    [] kind = "other" -> (\E on \in Leds : LedCommand(on)) \/ UNCHANGED vars

TakeCommand ==
  /\ pass = "commands" /\ q # <<>>
  /\ q' = Tail(q)
  /\ Obeys(Head(q))
  /\ UNCHANGED <<pass, connected, live, noticed, device, prev, primed, retained, outbox,
                 burst, breaks, lastword, younger>>

\* Mutant: one command for each tick, as many as there may be.
BeginTickEarly == At("commands", "tick") /\ UNCHANGED <<vars, link>>

BeginTick == At("commands", "tick") /\ q = <<>> /\ UNCHANGED <<vars, link>>

RobotTick ==
  /\ pass = "tick"
  /\ \/ TickDrive \/ TickOvercurrent \/ TickDead \/ PollAll \/ LatchDead
     \/ \E ends \in BOOLEAN : ActAndWatchdog(ends)
  /\ UNCHANGED <<pass, link>>

\* The last part of Robot::tick, and Robot::status
TickEnds ==
  /\ At("tick", "publish")
  /\ \E k \in 1 .. MaxLag : Sleep(k)
  /\ device' \in Devices
  /\ UNCHANGED <<q, connected, live, noticed, prev, primed, retained, outbox, burst,
                 breaks, lastword, younger>>

Publish ==
  /\ At("publish", "top")
  /\ Loop!RaiseAlarms
  /\ burst' = 0
  /\ UNCHANGED <<vars, q, connected, live, device, breaks, lastword, younger>>

\* The process ends, by ~Robot or without it; the link goes with it.
Ends ==
  /\ breaks < MaxBreaks /\ breaks' = breaks + 1
  /\ Terminate \/ Crash
  /\ pass' = "top"
  /\ Loop!NoSession
  /\ UNCHANGED <<device, prev, primed, retained>>

Begins ==
  /\ Restart
  /\ Loop!NoSession /\ Loop!NewAlarms
  /\ device' \in Devices
  /\ UNCHANGED <<pass, retained, breaks>>

-----------------------------------------------------------------------------
Main == Up /\ (NextPass \/ TakeCommand \/ BeginTick \/ RobotTick \/ TickEnds \/ Publish)

Outside ==
  \/ \E kind \in Loop!Kinds : Receive(kind)
  \/ \E restarted \in BOOLEAN : LinkBreaks(restarted)
  \/ DriverLeaves \/ Contacts \/ Ends \/ Begins

DaemonNext == Main \/ Connects \/ Outside

DaemonSpec == DaemonInit /\ [][DaemonNext]_daemonVars

\* As in Robot and in MqttLoop: the loop waits for nobody, and its queue is filled
\* no faster than it empties it.
FairDaemon == DaemonSpec /\ WF_daemonVars(Main)

-----------------------------------------------------------------------------
\* Robot is inside its tick only while the loop is, and what waits in the queue
\* are commands of somebody who is still there.
DaemonTypeOK ==
  /\ TypeOK /\ Loop!TypeOK
  /\ pass \in Passes
  /\ pass # "tick" => pc \in {"commands", "down"}
  /\ pc = "down" => pass = "top"
  /\ ~driver => \A i \in 1 .. Len(q) : q[i] \notin Drives

\* The daemon does what MqttLoop says it does with SafeStop for its robot: the
\* ticks and command handlers of the real one are no more to the queue and to the
\* alarms than the abstract one's, at whatever point they meet the network thread.
ImplementsLoop == Loop!Spec

\* What has become of the last e-stop received, unless a reset followed it:
\* everything is stopped and latched, or it is still in the queue.  Only a
\* queue's length of younger commands can push it out.
EStopReachesTheRobot ==
  Up /\ lastword = "estop" /\ younger < MaxQueue =>
    (estopped /\ Stopped) \/ \E i \in 1 .. Len(q) : q[i] = "estop"

\* No tick begins before such an e-stop is latched: the motors are not sent
\* another step of a ramp, nor is anything polled, between the two.
TicksObeyEStops ==
  [][ pass = "commands" /\ pass' = "tick" /\ lastword = "estop" /\ younger < MaxQueue =>
        estopped /\ Stopped ]_daemonVars

\* At the top of the loop, with the link up, the alarms that the broker keeps are
\* the robot's own flags, also for an e-stop that came while the watchdog had the
\* robot stopped.
AlarmsAreTheFlags ==
  Up /\ pass = "top" /\ primed /\ connected /\ live =>
    /\ retained["estop"] = IF estopped THEN "on" ELSE "off"
    /\ retained["watchdog"] = IF tripped THEN "on" ELSE "off"
=============================================================================
