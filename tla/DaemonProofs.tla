----------------------------- MODULE DaemonProofs -----------------------------
(***************************************************************************)
(* Theorems about Daemon: it is a Robot, so that everything proved of      *)
(* Robot holds of it; it is a MqttLoop, so that everything proved of       *)
(* MqttLoop holds of it; and the two together say what becomes of an       *)
(* e-stop between the network thread and the motors.                       *)
(***************************************************************************)
EXTENDS Daemon, RobotProofs, SequenceTheorems

\* The theorems of MqttLoopProofs, of the MqttLoop that Daemon calls Loop.
LP == INSTANCE MqttLoopProofs WITH
  Why <- {"none", "request", "fault"}, Nothing <- "none",
  mode <- Mode, driving <- Driving, why <- Cause,
  tripped <- Up /\ tripped, pc <- IF Up THEN pass ELSE "down"

-----------------------------------------------------------------------------
(***************************************************************************)
(* The daemon is a Robot.                                                  *)
(***************************************************************************)
\* Robot is inside its tick only while the loop is, and only commands wait.
PassInv ==
  /\ pass \in Passes
  /\ pass # "tick" => pc \in {"commands", "down"}
  /\ pc = "down" => pass = "top"
  /\ q \in Seq(Loop!Kinds)

LEMMA QueueStep ==
  ASSUME q \in Seq(Loop!Kinds), MaxQueue \in Nat \ {0},
         \/ \E kind \in Loop!Kinds : Loop!Enqueue(kind)
         \/ q # <<>> /\ q' = Tail(q)
         \/ q' = <<>>
         \/ q' = q
  PROVE  q' \in Seq(Loop!Kinds)
<1>1. ASSUME NEW kind \in Loop!Kinds, Loop!Enqueue(kind) PROVE q' \in Seq(Loop!Kinds)
  <2>1. CASE Len(q) >= MaxQueue
    <3>1. q # <<>>
      BY <2>1, EmptySeq
    <3>2. Tail(q) \in Seq(Loop!Kinds)
      BY <3>1, HeadTailProperties
    <3> QED BY <1>1, <2>1, <3>2, AppendProperties DEF Loop!Enqueue
  <2>2. CASE ~(Len(q) >= MaxQueue)
    BY <1>1, <2>2, AppendProperties DEF Loop!Enqueue
  <2> QED BY <2>1, <2>2
<1>2. CASE q # <<>> /\ q' = Tail(q)
  BY <1>2, HeadTailProperties
<1> QED BY <1>1, <1>2, EmptySeq

\* Every handler is a command of Robot, or refuses.
LEMMA ObeysIsCommand ==
  ASSUME NEW kind \in Loop!Kinds, Obeys(kind)
  PROVE  Commands \/ UNCHANGED vars
BY Zenon DEF Obeys, Commands, Loop!Kinds

LEMMA DaemonRobotStep == ASSUME PassInv, [DaemonNext]_daemonVars PROVE [Next]_vars
<1>1. CASE TakeCommand
  <2>1. Head(q) \in Loop!Kinds
    BY <1>1, HeadTailProperties DEF TakeCommand, PassInv
  <2> QED BY <1>1, <2>1, ObeysIsCommand DEF TakeCommand, Next
<1>2. CASE RobotTick \/ TickEnds
  BY <1>2 DEF RobotTick, TickEnds, Next, Tick
<1>3. CASE NextPass \/ BeginTick \/ Publish
  BY <1>3 DEF NextPass, BeginTick, Publish
<1>4. CASE Connects \/ Outside
  BY <1>4 DEF Connects, Outside, Receive, LinkBreaks, RobotStays, DriverLeaves, Contacts, Ends, Begins,
    Next, Environment
<1>5. CASE UNCHANGED daemonVars
  BY <1>5 DEF daemonVars
<1> QED BY <1>1, <1>2, <1>3, <1>4, <1>5 DEF DaemonNext, Main

\* Where the calls of Robot may come from.
LEMMA CommandsStay ==
  ASSUME Commands
  PROVE  pc = "commands" /\ UNCHANGED <<pc, driver>>
BY DEF Commands, WheelCommand, ActuatorCommand, StopCommand, EStopCommand, ResetCommand,
  LedCommand, Handling, world

LEMMA PassStep == ASSUME PassInv, [DaemonNext]_daemonVars PROVE PassInv'
<1> USE DEF PassInv, Passes, At, Up
<1>0. MaxQueue \in Nat \ {0}
  BY DaemonAssumption
<1>1. ASSUME NEW kind \in Loop!Kinds, Receive(kind) PROVE PassInv'
  <2>1. q' \in Seq(Loop!Kinds)
    BY <1>0, <1>1, QueueStep DEF Receive, Loop!Receive
  <2> QED BY <1>1, <2>1 DEF Receive, RobotStays, vars
<1>2. ASSUME Connects \/ \E r \in BOOLEAN : LinkBreaks(r) PROVE PassInv'
  BY <1>2 DEF Connects, LinkBreaks, RobotStays, vars, Loop!OnConnect, Loop!OnDisconnect,
    Loop!LinkBreaks
<1>3. ASSUME DriverLeaves \/ Contacts PROVE PassInv'
  BY <1>3 DEF DriverLeaves, Contacts, DriverGone, Wiring, link
<1>4. ASSUME Up, NextPass \/ BeginTick PROVE PassInv'
  BY <1>4 DEF NextPass, BeginTick, vars, link
<1>5. ASSUME Up, TakeCommand PROVE PassInv'
  <2>1. q' \in Seq(Loop!Kinds) /\ Head(q) \in Loop!Kinds
    BY <1>0, <1>5, QueueStep, HeadTailProperties DEF TakeCommand
  <2>2. pc' = pc
    BY <1>5, <2>1, ObeysIsCommand, CommandsStay DEF TakeCommand, vars
  <2> QED BY <1>5, <2>1, <2>2 DEF TakeCommand
<1>6. ASSUME Up, RobotTick PROVE PassInv'
  BY <1>6 DEF RobotTick, link, TickDrive, TickOvercurrent, TickDead, PollAll, LatchDead,
    ActAndWatchdog
<1>7. ASSUME Up, TickEnds PROVE PassInv'
  BY <1>7 DEF TickEnds, Sleep
<1>8. ASSUME Up, Publish PROVE PassInv'
  BY <1>8 DEF Publish, vars
<1>9. ASSUME Ends PROVE PassInv'
  BY <1>9, EmptySeq DEF Ends, Terminate, Crash, Loop!NoSession
<1>10. ASSUME Begins PROVE PassInv'
  BY <1>10, EmptySeq DEF Begins, Restart, Loop!NoSession
<1>11. CASE UNCHANGED daemonVars
  BY <1>11 DEF daemonVars, vars, link
<1> QED
  BY <1>1, <1>2, <1>3, <1>4, <1>5, <1>6, <1>7, <1>8, <1>9, <1>10, <1>11
  DEF DaemonNext, Main, Outside

LEMMA PassInvariant == DaemonSpec => []PassInv
<1>1. DaemonInit => PassInv
  BY EmptySeq DEF DaemonInit, Init, PassInv, Passes
<1> QED BY <1>1, PassStep, PTL DEF DaemonSpec

\* With a queue in front of it and a network thread beside it, the robot takes
\* no step that Robot does not take: all that is proved of Robot holds.
THEOREM DaemonIsARobot == DaemonSpec => Spec
<1>1. DaemonInit => Init
  BY DEF DaemonInit
<1>2. PassInv /\ [DaemonNext]_daemonVars => [Next]_vars
  BY DaemonRobotStep
<1> QED BY <1>1, <1>2, PassInvariant, PTL DEF DaemonSpec, Spec

LEMMA DaemonLatches == DaemonSpec => [](TypeOK /\ LatchInv)
BY DaemonIsARobot, LatchInvariant, PTL

-----------------------------------------------------------------------------
(***************************************************************************)
(* The daemon is a MqttLoop.  First, what MqttLoop sees of each step of    *)
(* Robot: its latches, whether it drives, and why it does not.             *)
(***************************************************************************)
Seen == <<Mode, Driving, Cause, Up /\ tripped>>

LEMMA CauseStays == Latched' = Latched => Cause' = Cause
BY Zenon DEF Cause

LEMMA CauseType ==
  Cause \in {"none", "request", "fault"} /\ Cause' \in {"none", "request", "fault"}
BY Zenon DEF Cause

LEMMA CauseOf ==
  ASSUME Up', NEW why, reason' = why
  PROVE  /\ why.kind = "none" => Cause' = "none"
         /\ why.kind = "command" => Cause' = "request"
         /\ why.kind \in {"dead", "overcurrent"} => Cause' = "fault"
<1>1. Latched' = why
  BY DEF Latched
<1> QED BY <1>1, Zenon DEF Cause

LEMMA VarsSeen == UNCHANGED vars => UNCHANGED Seen /\ Up' = Up
<1> SUFFICES ASSUME UNCHANGED vars PROVE UNCHANGED Seen /\ Up' = Up
  OBVIOUS
<1>1. UNCHANGED <<pc, estopped, tripped, reason, act_running, pwm, driveVars>>
  BY DEF vars, gates, actuator
<1>2. Stopped' = Stopped
  BY <1>1 DEF Stopped, AtRest, driveVars, decelVars
<1>3. Latched' = Latched
  BY <1>1 DEF Latched, Up
<1> QED BY <1>1, <1>2, <1>3, CauseStays DEF Seen, Up, Mode, Driving

\* Any step that keeps the latches and sets nothing in motion.
LEMMA EasesOrRefuses ==
  ASSUME UNCHANGED <<estopped, tripped, reason>>, Up, Up', Stopped => Stopped'
  PROVE  Loop!Refuses \/ Loop!Eases
<1>1. UNCHANGED <<Mode, Cause, Up /\ tripped>>
  <2>1. Latched' = Latched
    BY DEF Latched
  <2> QED BY <2>1, CauseStays DEF Mode
<1>2. CASE Driving' = Driving
  BY <1>1, <1>2 DEF Loop!Refuses, Loop!robot, Loop!safeVars
<1>3. CASE Driving' # Driving
  <2>1. Driving' = FALSE
    BY <1>3 DEF Driving
  <2> QED BY <1>1, <2>1 DEF Loop!Eases, Loop!Ease
<1> QED BY <1>2, <1>3

\* Any step into the e-stop.
LEMMA LatchesEStop ==
  ASSUME Up, Up', estopped', Stopped', tripped' = tripped,
         estopped => reason' = reason
  PROVE  Loop!Latches
<1>1. Mode # "down" /\ Mode' = "estop" /\ Driving' = FALSE
  BY DEF Mode, Driving
<1>2. IF Mode = "estop" THEN Cause' = Cause ELSE Cause' \in {"none", "request", "fault"}
  <2>1. CASE Mode = "estop"
    <3>1. Latched' = Latched
      BY <2>1 DEF Latched, Mode
    <3> QED BY <2>1, <3>1, CauseStays
  <2>2. CASE Mode # "estop"
    BY <2>2, CauseType
  <2> QED BY <2>1, <2>2
<1>3. UNCHANGED (Up /\ tripped)
  OBVIOUS
<1> QED BY <1>1, <1>2, <1>3 DEF Loop!Latches, Loop!EmergencyStop

LEMMA AcceptsCommand ==
  ASSUME Handling, Accept, pc' = pc
  PROVE  Loop!Accepts
<1>1. Mode \in {"run", "tripped"} /\ Mode' = "run" /\ Latched' = Latched
  BY DEF Handling, Accept, Mode, Latched, Up
<1>2. Driving' \in BOOLEAN /\ (Up /\ tripped)' = FALSE
  BY DEF Driving, Accept
<1> QED BY <1>1, <1>2, CauseStays DEF Loop!Accepts, Loop!Command

-----------------------------------------------------------------------------
\* Each kind of command does to the robot what MqttLoop says.
LEMMA ObeysApplies ==
  ASSUME TypeOK, LatchInv, NEW kind \in Loop!Kinds, Obeys(kind), pc = "commands"
  PROVE  Loop!Apply(kind) /\ Up /\ Up'
<1>0. Up
  BY DEF Up
<1>1. UNCHANGED vars => Loop!Refuses /\ Up'
  BY <1>0, VarsSeen DEF Seen, Loop!Refuses, Loop!robot, Loop!safeVars
<1>2. ASSUME NEW rpm \in Rpms, WheelCommand(rpm) PROVE Loop!Accepts /\ Up'
  BY <1>2, AcceptsCommand DEF WheelCommand, Handling, Up
<1>3. ASSUME NEW duty \in {0, 1}, ActuatorCommand(duty) PROVE Loop!Accepts /\ Up'
  BY <1>3, AcceptsCommand DEF ActuatorCommand, Handling, Up
<1>4. ASSUME StopCommand PROVE (Loop!Refuses \/ Loop!Eases) /\ Up'
  <2>1. Stopped => Stopped'
    BY <1>4, DecelerateRests DEF StopCommand, Stopped, actuator
  <2>2. UNCHANGED <<estopped, tripped, reason>> /\ Up'
    BY <1>4 DEF StopCommand, Handling, Up
  <2> QED BY <1>0, <2>1, <2>2, EasesOrRefuses
<1>5. ASSUME EStopCommand
      PROVE  Loop!Latches /\ (Mode # "estop" => Cause' = "request") /\ Up'
  <2>1. Up' /\ Stopped' /\ estopped' /\ tripped' = tripped
    BY <1>0, <1>5, EStopStops DEF EStopCommand, EStop, Up
  <2>2. estopped => reason' = reason
    BY <1>5 DEF EStopCommand, EStop
  <2>3. Mode # "estop" => reason' = [kind |-> "command", axes |-> {}]
    BY <1>0, <1>5 DEF EStopCommand, EStop, Mode
  <2>4. Mode # "estop" => Cause' = "request"
    BY <2>1, <2>3, CauseOf
  <2> QED BY <1>0, <2>1, <2>2, <2>4, LatchesEStop
<1>6. ASSUME ResetCommand PROVE Loop!Release /\ ~(Up /\ tripped)' /\ Up'
  <2>1. Up' /\ Mode # "down" /\ Mode' = "run" /\ reason' = NoReason /\ ~tripped'
    BY <1>0, <1>6 DEF ResetCommand, Up, Mode
  <2>2. Driving' = Driving
    BY <1>0, <1>6, <2>1
    DEF ResetCommand, Driving, Stopped, AtRest, driveVars, decelVars, actuator
  <2>3. Cause' = "none"
    BY <2>1, CauseOf DEF NoReason
  <2> QED BY <2>1, <2>2, <2>3 DEF Loop!Release
<1>7. ASSUME NEW on \in Leds, LedCommand(on) PROVE Loop!Refuses /\ Up'
  <2>1. UNCHANGED <<driveVars, pc, gates, actuator>>
    BY <1>7 DEF LedCommand
  <2>2. Stopped' = Stopped /\ Latched' = Latched /\ Up' = Up
    BY <2>1 DEF Stopped, AtRest, driveVars, decelVars, actuator, gates, Latched, Up
  <2> QED
    BY <1>0, <2>1, <2>2, CauseStays
    DEF gates, Mode, Driving, Loop!Refuses, Loop!robot, Loop!safeVars
<1>8. CASE kind = "wheel"
  <2>1. Loop!Refuses \/ Loop!Accepts
    BY <1>1, <1>2, <1>3, <1>8, Zenon DEF Obeys
  <2>2. Up'
    BY <1>1, <1>2, <1>3, <1>8, Zenon DEF Obeys
  <2> QED BY <1>0, <1>8, <2>1, <2>2, Zenon DEF Loop!Apply
<1>9. CASE kind = "stop"
  <2>1. (Loop!Refuses \/ Loop!Eases) /\ Up'
    BY <1>1, <1>4, <1>9, Zenon DEF Obeys
  <2> QED BY <1>0, <1>9, <2>1, Zenon DEF Loop!Apply
<1>10. CASE kind = "estop"
  <2>1. EStopCommand
    BY <1>10, Zenon DEF Obeys
  <2> QED BY <1>0, <1>5, <1>10, <2>1, Zenon DEF Loop!Apply
<1>11. CASE kind = "reset"
  <2>1. ResetCommand
    BY <1>11, Zenon DEF Obeys
  <2>2. (Up /\ tripped)' = FALSE
    BY <1>6, <2>1
  <2> QED BY <1>0, <1>6, <1>11, <2>1, <2>2, Zenon DEF Loop!Apply
<1>12. CASE kind = "other"
  <2>1. Loop!Refuses /\ Up'
    BY <1>1, <1>7, <1>12, Zenon DEF Obeys
  <2> QED BY <1>0, <1>12, <2>1, Zenon DEF Loop!Apply, Loop!Refuses
<1> QED BY <1>8, <1>9, <1>10, <1>11, <1>12 DEF Loop!Kinds

\* Each step of Robot's tick is one of MqttLoop's, or nothing MqttLoop speaks of.
TickStepSeen ==
  \/ Loop!Refuses
  \/ Loop!Eases
  \/ Loop!Trip /\ (Up /\ tripped)' = TRUE
  \/ Mode # "estop" /\ Loop!Latches /\ Cause' = "fault"

LEMMA TickIsSeen ==
  ASSUME TypeOK, LatchInv,
         \/ TickDrive \/ TickOvercurrent \/ TickDead \/ PollAll \/ LatchDead
         \/ \E ends \in BOOLEAN : ActAndWatchdog(ends)
  PROVE  TickStepSeen /\ Up /\ Up'
<1> USE DEF gates, actuator, TickStepSeen
<1>0. Up /\ Up'
  BY DEF TickDrive, TickOvercurrent, TickDead, PollAll, LatchDead, ActAndWatchdog, Handling, Up
<1>1. CASE TickDrive \/ TickDead \/ PollAll
  <2>1. Stopped => Stopped'
    BY <1>1, TickRests, TickFailRests, UnchangedRests DEF TickDrive, TickDead, PollAll, Stopped
  <2>2. UNCHANGED <<estopped, tripped, reason>>
    BY <1>1 DEF TickDrive, TickDead, PollAll
  <2> QED BY <1>0, <2>1, <2>2, EasesOrRefuses
<1>2. CASE TickOvercurrent
  <2>1. Stopped' /\ estopped' /\ ~estopped /\ tripped' = tripped
    BY <1>2, TickFailRests DEF TickOvercurrent, Stopped
  <2>2. Mode # "estop"
    BY <1>0, <2>1 DEF Mode
  <2>3. Cause' = "fault"
    BY <1>0, <1>2, CauseOf DEF TickOvercurrent
  <2> QED BY <1>0, <2>1, <2>2, <2>3, LatchesEStop
<1>3. CASE LatchDead
  <2>1. Stopped' /\ estopped' /\ tripped' = tripped /\ (estopped => reason' = reason)
    BY <1>0, <1>3, EStopStops DEF LatchDead, EStop
  <2>2. CASE estopped
    <3>1. UNCHANGED <<estopped, tripped, reason>>
      BY <1>3, <2>2 DEF LatchDead, EStop, TypeOK, RobotTypeOK
    <3> QED BY <1>0, <2>1, <3>1, EasesOrRefuses
  <2>3. CASE ~estopped
    <3>1. Mode # "estop"
      BY <1>0, <2>3 DEF Mode
    <3>2. reason' = [kind |-> "dead", axes |-> DeadAxes]
      BY <1>3, <2>3 DEF LatchDead, EStop
    <3>3. Cause' = "fault"
      BY <1>0, <3>2, CauseOf
    <3> QED BY <1>0, <2>1, <3>1, <3>3, LatchesEStop
  <2> QED BY <2>2, <2>3
<1>4. ASSUME NEW ends \in BOOLEAN, ActAndWatchdog(ends) PROVE TickStepSeen
  <2>1. CASE WatchdogFires(act_running /\ ~ends)
    <3>1. AtRest' /\ tripped'
      BY <1>4, <2>1, DriveStopRests, UnchangedRests DEF ActAndWatchdog, LatchInv, Up
    <3>2. Mode = "run" /\ Mode' = "tripped" /\ Driving' = FALSE /\ Latched' = Latched
      BY <1>0, <1>4, <2>1, <3>1
      DEF ActAndWatchdog, WatchdogFires, Mode, Driving, Stopped, Latched
    <3>3. (Up /\ tripped)' = TRUE
      BY <1>0, <1>4, <2>1 DEF ActAndWatchdog
    <3> QED BY <3>2, <3>3, CauseStays DEF Loop!Trip
  <2>2. CASE ~WatchdogFires(act_running /\ ~ends)
    <3>1. Stopped => Stopped'
      BY <1>4, <2>2, UnchangedRests DEF ActAndWatchdog, Stopped
    <3>2. UNCHANGED <<estopped, tripped, reason>>
      BY <1>4, <2>2 DEF ActAndWatchdog
    <3> QED BY <1>0, <3>1, <3>2, EasesOrRefuses
  <2> QED BY <2>1, <2>2
<1> QED BY <1>0, <1>1, <1>2, <1>3, <1>4

LEMMA DaemonLoopStep ==
  ASSUME TypeOK, LatchInv, PassInv, [DaemonNext]_daemonVars
  PROVE  [Loop!Next]_(Loop!loopVars)
<1> USE DEF Loop!robot, Loop!safeVars, Loop!latches, Loop!broker, Loop!history
<1>1. ASSUME NEW kind \in Loop!Kinds, Receive(kind) PROVE Loop!Next
  BY <1>1 DEF Receive, Loop!Next, Loop!Outside
<1>2. ASSUME Connects PROVE Loop!Next
  BY <1>2 DEF Connects, Loop!Next, Loop!Network
<1>3. ASSUME NEW restarted \in BOOLEAN, LinkBreaks(restarted) PROVE Loop!Next
  BY <1>3 DEF LinkBreaks, Loop!Next, Loop!Outside
<1>4. ASSUME DriverLeaves \/ Contacts PROVE UNCHANGED Loop!loopVars
  <2>1. UNCHANGED <<pc, gates, actuator, target, decel_active, pass, link>>
    BY <1>4 DEF DriverLeaves, DriverGone, Contacts, Wiring, Disconnect, driveVars, decelVars
  <2>2. Up' = Up /\ Stopped' = Stopped /\ Latched' = Latched
    BY <2>1 DEF Up, Stopped, AtRest, Latched, gates, actuator
  <2>3. UNCHANGED <<Mode, Driving, Cause>>
    BY <2>1, <2>2, CauseStays DEF Mode, Driving, gates
  <2> QED BY <2>1, <2>2, <2>3 DEF Loop!loopVars, link, gates
<1>5. ASSUME Up, NextPass PROVE Loop!Next
  <2>1. Loop!NextPass
    BY <1>5, VarsSeen DEF NextPass, At, Seen, link, Loop!NextPass, Loop!Loop
  <2> QED BY <2>1 DEF Loop!Next, Loop!Main
<1>6. ASSUME Up, TakeCommand PROVE Loop!Next
  <2>1. Head(q) \in Loop!Kinds /\ pc = "commands"
    BY <1>6, HeadTailProperties DEF TakeCommand, PassInv, Up
  <2>2. Loop!Apply(Head(q)) /\ Up'
    BY <1>6, <2>1, ObeysApplies DEF TakeCommand
  <2>3. Loop!Handle
    BY <1>6, <2>2 DEF TakeCommand, Loop!Handle
  <2> QED BY <2>3 DEF Loop!Next, Loop!Main
<1>7. ASSUME Up, BeginTick PROVE Loop!Next
  <2>1. Loop!BeginTick
    BY <1>7, VarsSeen DEF BeginTick, At, Seen, link, Loop!BeginTick, Loop!Loop
  <2> QED BY <2>1 DEF Loop!Next, Loop!Main
<1>8. ASSUME Up, RobotTick PROVE Loop!Next \/ UNCHANGED Loop!loopVars
  <2>1. TickStepSeen /\ Up'
    BY <1>8, TickIsSeen DEF RobotTick
  <2>2. pass = "tick" /\ UNCHANGED <<pass, link>>
    BY <1>8 DEF RobotTick
  <2>3. CASE Loop!Refuses
    BY <1>8, <2>1, <2>2, <2>3 DEF Loop!Refuses, Loop!loopVars, link
  <2>4. CASE ~Loop!Refuses
    <3>1. Loop!TickStep
      BY <1>8, <2>1, <2>2, <2>4 DEF TickStepSeen, Loop!TickStep, link
    <3> QED BY <3>1 DEF Loop!Next, Loop!Main
  <2> QED BY <2>3, <2>4
<1>9. ASSUME Up, TickEnds PROVE Loop!Next
  <2>1. Up' /\ UNCHANGED <<estopped, tripped, reason, actuator, target, decel_active>>
    BY <1>9 DEF TickEnds, Sleep, Up
  <2>2. Stopped' = Stopped /\ Latched' = Latched
    BY <1>9, <2>1 DEF Stopped, AtRest, Latched, actuator
  <2>3. UNCHANGED <<Mode, Driving, Cause>>
    BY <1>9, <2>1, <2>2, CauseStays DEF Mode, Driving
  <2>4. Loop!Status
    BY <1>9, <2>1, <2>3 DEF TickEnds, At, Loop!Status, Loop!Loop
  <2> QED BY <2>4 DEF Loop!Next, Loop!Main
<1>10. ASSUME Up, Publish PROVE Loop!Next
  <2>1. Loop!Publish
    BY <1>10, VarsSeen DEF Publish, At, Seen, Loop!Publish, Loop!Loop
  <2> QED BY <2>1 DEF Loop!Next, Loop!Main
<1>11. ASSUME Ends PROVE Loop!Next
  <2>1. Up /\ ~Up'
    BY <1>11 DEF Ends, Terminate, Crash, Up
  <2>2. Driving' = FALSE /\ Mode' = "down" /\ Latched' = NoReason
    BY <2>1 DEF Driving, Mode, Latched
  <2>3. Cause' = "none"
    BY <2>2, Zenon DEF Cause, NoReason
  <2>4. Loop!End
    <3>1. (Up /\ tripped)' = FALSE /\ pass # "down"
      BY <2>1 DEF PassInv, Passes
    <3> QED BY <1>11, <2>1, <2>2, <2>3, <3>1 DEF Ends, Loop!End, Loop!Exit
  <2> QED BY <2>4 DEF Loop!Next, Loop!Outside
<1>12. ASSUME Begins PROVE Loop!Next
  <2>1. ~Up /\ Up' /\ pass = "top" /\ ~tripped' /\ ~estopped' /\ reason' = NoReason
    BY <1>12 DEF Begins, Restart, Up, PassInv
  <2>2. Driving' = FALSE
    BY <1>12 DEF Begins, Restart, NewDrive, Driving, Stopped, AtRest
  <2>3. Mode = "down" /\ Mode' = "run"
    BY <2>1 DEF Mode
  <2>4. Cause' = "none"
    BY <2>1, CauseOf DEF NoReason
  <2>5. Loop!Begin
    BY <1>12, <2>1, <2>2, <2>3, <2>4 DEF Begins, Loop!Begin, Loop!Start
  <2> QED BY <2>5 DEF Loop!Next
<1>13. ASSUME UNCHANGED daemonVars PROVE UNCHANGED Loop!loopVars
  BY <1>13, VarsSeen DEF daemonVars, Seen, link, Loop!loopVars
<1> QED
  BY <1>1, <1>2, <1>3, <1>4, <1>5, <1>6, <1>7, <1>8, <1>9, <1>10, <1>11, <1>12, <1>13
  DEF DaemonNext, Main, Outside

LEMMA DaemonLoopInit == DaemonInit => Loop!Init
<1> SUFFICES ASSUME DaemonInit PROVE Loop!Init
  OBVIOUS
<1>1. Up /\ ~tripped /\ ~estopped /\ reason = NoReason /\ Stopped
  BY DEF DaemonInit, Init, DriveInit, Up, Stopped, AtRest
<1>2. Mode = "run" /\ Driving = FALSE /\ Latched = NoReason
  BY <1>1 DEF Mode, Driving, Latched
<1>3. Cause = "none"
  BY <1>2, Zenon DEF Cause, NoReason
<1> QED BY <1>1, <1>2, <1>3 DEF DaemonInit, Loop!Init, Loop!SafeInit

\* Whatever point of a tick, a ramp or a command handler a message, a broken link
\* or the end of the process meets, the queue and the alarms fare as MqttLoop says.
THEOREM DaemonImplementsLoop == DaemonSpec => ImplementsLoop
<1>1. TypeOK /\ LatchInv /\ PassInv /\ [DaemonNext]_daemonVars => [Loop!Next]_(Loop!loopVars)
  BY DaemonLoopStep
<1> QED
  BY <1>1, DaemonLoopInit, DaemonLatches, PassInvariant, PTL
  DEF DaemonSpec, ImplementsLoop, Loop!Spec

-----------------------------------------------------------------------------
(***************************************************************************)
(* What follows of the two.  LP and Loop are the same formulas.            *)
(***************************************************************************)
LEMMA SameInit == Loop!Init <=> LP!Init
BY DEF
  Loop!Init, LP!Init, Loop!SafeInit, LP!SafeInit, Loop!Keys, LP!Keys

LEMMA SameVars == Loop!loopVars = LP!loopVars /\ Loop!loopVars' = LP!loopVars'
BY DEF
  Loop!loopVars, LP!loopVars, Loop!robot, LP!robot, Loop!safeVars, LP!safeVars, Loop!latches,
  LP!latches, Loop!broker, LP!broker, Loop!history, LP!history

LEMMA SameNext == Loop!Next <=> LP!Next
BY DEF
  Loop!Kinds, LP!Kinds, Loop!Keys, LP!Keys, Loop!robot, LP!robot, Loop!latches, LP!latches,
  Loop!broker, LP!broker, Loop!history, LP!history, Loop!NoSession, LP!NoSession,
  Loop!NewAlarms, LP!NewAlarms, Loop!Enqueue, LP!Enqueue, Loop!Receive, LP!Receive,
  Loop!Flushed, LP!Flushed, Loop!OnConnect, LP!OnConnect, Loop!OnDisconnect, LP!OnDisconnect,
  Loop!LinkBreaks, LP!LinkBreaks, Loop!Loop, LP!Loop, Loop!NextPass, LP!NextPass,
  Loop!Refuses, LP!Refuses, Loop!Accepts, LP!Accepts, Loop!Eases, LP!Eases, Loop!Latches,
  LP!Latches, Loop!Apply, LP!Apply, Loop!Handle, LP!Handle, Loop!BeginTick, LP!BeginTick,
  Loop!TickStep, LP!TickStep, Loop!Status, LP!Status, Loop!Now, LP!Now, Loop!Changed,
  LP!Changed, Loop!Sent, LP!Sent, Loop!RaiseAlarms, LP!RaiseAlarms, Loop!Publish, LP!Publish,
  Loop!End, LP!End, Loop!Begin, LP!Begin, Loop!Main, LP!Main, Loop!Network, LP!Network,
  Loop!Outside, LP!Outside, Loop!Next, LP!Next, Loop!safeVars, LP!safeVars, Loop!Command,
  LP!Command, Loop!Ease, LP!Ease, Loop!Trip, LP!Trip, Loop!EmergencyStop, LP!EmergencyStop,
  Loop!Release, LP!Release, Loop!Exit, LP!Exit, Loop!Start, LP!Start

LEMMA DaemonIsALoop == DaemonSpec => LP!Spec
<1>1. [Loop!Next]_(Loop!loopVars) => [LP!Next]_(LP!loopVars)
  BY SameVars, SameNext
<1> QED
  BY <1>1, SameInit, DaemonImplementsLoop, PTL DEF ImplementsLoop, Loop!Spec, LP!Spec

LEMMA DaemonEStops ==
  DaemonSpec => [](Up /\ lastword = "estop" /\ younger < MaxQueue =>
                     (estopped /\ Stopped) \/ \E i \in 1 .. Len(q) : q[i] = "estop")
<1>1. LatchInv /\ LP!EStopNotLost
        => (Up /\ lastword = "estop" /\ younger < MaxQueue =>
              (estopped /\ Stopped) \/ \E i \in 1 .. Len(q) : q[i] = "estop")
  BY DEF LatchInv, LatchesHold, LP!EStopNotLost, Mode
<1>2. LP!Spec => []LP!EStopNotLost
  BY LP!EStopIsNeverLost, DaemonAssumption
<1> QED BY <1>1, <1>2, DaemonIsALoop, DaemonLatches, PTL

\* The last e-stop received is in the queue or has everything stopped and latched,
\* until a reset is received or a queue's length of commands came after it.
THEOREM EStopAlwaysReachesTheRobot == DaemonSpec => []EStopReachesTheRobot
BY DaemonEStops DEF EStopReachesTheRobot

\* No tick begins before such an e-stop has everything stopped.
THEOREM TicksAlwaysObeyEStops == DaemonSpec => TicksObeyEStops
<1>1. EStopReachesTheRobot /\ [DaemonNext]_daemonVars
        => [ pass = "commands" /\ pass' = "tick" /\ lastword = "estop" /\ younger < MaxQueue =>
               estopped /\ Stopped ]_daemonVars
  <2> SUFFICES ASSUME EStopReachesTheRobot, DaemonNext,
                      pass = "commands", pass' = "tick", lastword = "estop", younger < MaxQueue
               PROVE  estopped /\ Stopped
    OBVIOUS
  <2>1. Up /\ BeginTick
    BY DEF DaemonNext, Main, Outside, NextPass, TakeCommand, RobotTick, TickEnds, Publish, At,
      Connects, Receive, LinkBreaks, RobotStays, DriverLeaves, Contacts, Ends, Begins
  <2>2. ~\E i \in 1 .. Len(q) : q[i] = "estop"
    BY <2>1, EmptySeq DEF BeginTick
  <2> QED BY <2>1, <2>2 DEF EStopReachesTheRobot
<1> QED BY <1>1, EStopAlwaysReachesTheRobot, PTL DEF DaemonSpec, TicksObeyEStops

\* When the loop has published over a session that is still up, the broker's
\* alarms are the robot's own flags.
THEOREM AlarmsAreAlwaysTheFlags == ~SlowPass => (DaemonSpec => []AlarmsAreTheFlags)
<1> SUFFICES ASSUME ~SlowPass PROVE DaemonSpec => []AlarmsAreTheFlags
  OBVIOUS
<1>1. TypeOK /\ LP!AlarmsCurrent => AlarmsAreTheFlags
  <2> SUFFICES ASSUME TypeOK, LP!AlarmsCurrent, Up, pass = "top", primed, connected, live
               PROVE  /\ retained["estop"] = IF estopped THEN "on" ELSE "off"
                      /\ retained["watchdog"] = IF tripped THEN "on" ELSE "off"
    BY DEF AlarmsAreTheFlags
  <2>1. "estop" \in LP!Keys /\ "watchdog" \in LP!Keys
    BY DEF LP!Keys
  <2>2. \A k \in LP!Keys : retained[k] = IF LP!Now[k] THEN "on" ELSE "off"
    BY DEF LP!AlarmsCurrent, LP!AlarmsMatch
  <2>3. LP!Now["estop"] = (Mode = "estop") /\ LP!Now["watchdog"] = (Up /\ tripped)
    BY <2>1, Zenon DEF LP!Now
  <2>4. (Mode = "estop") <=> estopped
    BY DEF Mode
  <2> QED BY <2>1, <2>2, <2>3, <2>4 DEF TypeOK, RobotTypeOK
<1>2. ~SlowPass => (LP!Spec => []LP!AlarmsCurrent)
  BY LP!AlarmsAlwaysCurrent, DaemonAssumption
<1>3. LP!Spec => []LP!AlarmsCurrent
  BY <1>2
<1> QED BY <1>1, <1>3, DaemonIsALoop, DaemonLatches, PTL

-----------------------------------------------------------------------------
DriverInv == ~driver => \A i \in 1 .. Len(q) : q[i] \notin Drives

LEMMA DriverStep ==
  ASSUME PassInv, LP!TypeOK, DriverInv, [DaemonNext]_daemonVars
  PROVE  DriverInv'
<1> USE DEF world
<1> SUFFICES ASSUME ~driver', NEW i \in 1 .. Len(q)' PROVE q'[i] \notin Drives
  BY DEF DriverInv
<1>0. q \in Seq(LP!Kinds) /\ Len(q) <= MaxQueue
  BY DEF LP!TypeOK
<1>1. ASSUME NEW kind \in Loop!Kinds, Receive(kind) PROVE q'[i] \notin Drives
  <2>1. kind \in LP!Kinds /\ LP!Enqueue(kind) /\ ~driver /\ kind \notin Drives
    BY <1>1 DEF Receive, RobotStays, vars, Loop!Receive, Loop!Enqueue, LP!Enqueue, Loop!Kinds, LP!Kinds
  <2>2. /\ Len(q') = IF Len(q) >= MaxQueue THEN MaxQueue ELSE Len(q) + 1
        /\ q'[Len(q')] = kind
        /\ Len(q) < MaxQueue => \A j \in 1 .. Len(q) : q'[j] = q[j]
        /\ Len(q) = MaxQueue => \A j \in 1 .. Len(q) - 1 : q'[j] = q[j + 1]
    BY <1>0, <2>1, LP!EnqueueResult, DaemonAssumption
  <2>3. Len(q) \in Nat /\ MaxQueue \in Nat \ {0}
    BY <1>0, LenProperties, DaemonAssumption
  <2>4. CASE i = Len(q')
    BY <2>1, <2>2, <2>4
  <2>5. CASE i # Len(q') /\ Len(q) < MaxQueue
    <3>1. i \in 1 .. Len(q) /\ q'[i] = q[i]
      BY <2>2, <2>3, <2>5
    <3> QED BY <2>1, <3>1 DEF DriverInv
  <2>6. CASE i # Len(q') /\ ~(Len(q) < MaxQueue)
    <3>1. i + 1 \in 1 .. Len(q) /\ q'[i] = q[i + 1]
      BY <1>0, <2>2, <2>3, <2>6
    <3> QED BY <2>1, <3>1 DEF DriverInv
  <2> QED BY <2>4, <2>5, <2>6
<1>2. CASE TakeCommand
  <2>1. Head(q) \in Loop!Kinds
    BY <1>2, HeadTailProperties DEF TakeCommand, PassInv
  <2>2. ~driver
    BY <1>2, <2>1, ObeysIsCommand, CommandsStay DEF TakeCommand, vars
  <2>3. i + 1 \in 1 .. Len(q) /\ q'[i] = q[i + 1]
    BY <1>0, <1>2, LP!HandleResult, LenProperties, DaemonAssumption DEF TakeCommand
  <2> QED BY <2>2, <2>3 DEF DriverInv
<1>3. CASE DriverLeaves
  BY <1>3 DEF DriverLeaves, link
<1>4. CASE Ends \/ Begins
  BY <1>4, EmptySeq DEF Ends, Begins, Loop!NoSession
<1>5. CASE UNCHANGED <<q, driver>>
  BY <1>5 DEF DriverInv
<1>6. CASE NextPass \/ BeginTick \/ Publish \/ Connects \/ Contacts \/ \E r \in BOOLEAN : LinkBreaks(r)
  BY <1>5, <1>6
  DEF NextPass, BeginTick, Publish, Connects, Contacts, Wiring, LinkBreaks, RobotStays, vars, link,
    Loop!OnConnect, Loop!OnDisconnect, Loop!LinkBreaks
<1>7. CASE RobotTick \/ TickEnds
  BY <1>5, <1>7
  DEF RobotTick, TickEnds, link, TickDrive, TickOvercurrent, TickDead, PollAll, LatchDead,
    ActAndWatchdog, Sleep
<1> QED
  BY <1>1, <1>2, <1>3, <1>4, <1>5, <1>6, <1>7 DEF DaemonNext, Main, Outside, daemonVars, link, vars

LEMMA DaemonLoopType == DaemonSpec => []LP!TypeOK
<1>1. LP!Spec => []LP!TypeOK
  BY LP!LoopTypeCorrect, DaemonAssumption
<1> QED BY <1>1, DaemonIsALoop, PTL

\* DaemonTypeOK holds of every reachable state: Robot, the queue and the alarms
\* keep to their ranges, and nothing that drives waits for a robot nobody drives.
THEOREM DaemonTypeCorrect == DaemonSpec => []DaemonTypeOK
<1>1. DaemonInit => DriverInv
  BY DEF DaemonInit, Init, DriverInv
<1>2. PassInv /\ LP!TypeOK /\ DriverInv /\ [DaemonNext]_daemonVars => DriverInv'
  BY DriverStep
<1>3. TypeOK /\ PassInv /\ LP!TypeOK /\ DriverInv => DaemonTypeOK
  BY DEF DaemonTypeOK, PassInv, DriverInv, Loop!TypeOK, LP!TypeOK, Loop!Kinds, LP!Kinds,
    Loop!Keys, LP!Keys, Loop!Alarm, LP!Alarm
<1> QED
  BY <1>1, <1>2, <1>3, PassInvariant, DaemonLoopType, DaemonLatches, PTL DEF DaemonSpec
==================================================================
