-------------------------------- MODULE Robot --------------------------------
(***************************************************************************)
(* The robot daemon's main thread: class Robot (robot.hpp) on top of       *)
(* Drive, driven by the loop of runMqtt (main.cpp): handle every queued    *)
(* command, then one Robot::tick(), and again.                             *)
(*                                                                         *)
(* One pass of the loop is cut where the code calls from Robot into        *)
(* another object: commands, Drive::tick, the polls of Drive::pollAll, the *)
(* actuator poll with the watchdog, and the wait for the next period.      *)
(***************************************************************************)
EXTENDS Drive

CONSTANTS
  Watchdog,     \* cfg.watchdog
  MaxLag,       \* the most periods one pass of the loop may take
  Killable,     \* whether the process may die without unwinding
  MayLeave,     \* whether the driving controller may go away
  Leds          \* what cmd/led may ask for

ASSUME RobotAssumption ==
  /\ Watchdog \in Nat /\ MaxLag \in Nat \ {0}
  /\ {Killable, MayLeave} \subseteq BOOLEAN
  /\ Leds \subseteq BOOLEAN /\ Leds # {}

VARIABLES
  pc,           \* where the main thread is, or "down" without a process
  left,         \* ticks pollAll() has still to call
  drive_ok,     \* drive_ is not null
  estopped,     \* estopped_
  tripped,      \* watchdog_tripped_
  had_command,  \* had_command_
  cmd_age,      \* now - cmd_at_
  reason,       \* estop_reason_
  act_running,  \* act_->running()
  pwm,          \* the actuator's PWM has a duty above 0
  led,          \* the work light
  driver,       \* a controller that drives the robot is still out there
  killed        \* history: a process has died without stopping anything

gates == <<drive_ok, estopped, tripped, had_command, cmd_age, reason>>
actuator == <<act_running, pwm>>
world == <<driver, killed>>
vars == <<driveVars, pc, left, gates, actuator, led, world>>

NoReason == [kind |-> "none", axes |-> {}]
Reason == [kind : {"none", "command", "overcurrent", "dead", "exit"}, axes : SUBSET Axes]
MaxAge == Watchdog + MaxLag + 1

RobotTypeOK ==
  /\ pc \in {"commands", "pollall", "act", "sleep", "down"}
  /\ left \in 0 .. N
  /\ drive_ok \in BOOLEAN /\ estopped \in BOOLEAN /\ tripped \in BOOLEAN
  /\ had_command \in BOOLEAN /\ act_running \in BOOLEAN /\ pwm \in BOOLEAN
  /\ led \in BOOLEAN /\ driver \in BOOLEAN /\ killed \in BOOLEAN
  /\ cmd_age \in 0 .. MaxAge
  /\ reason \in Reason

\* Every variable keeps to its range: ages saturate, counters stop at their
\* limits, the cursor stays on an axis.
TypeOK == DriveTypeOK /\ RobotTypeOK

Init ==
  /\ DriveInit
  /\ pc = "commands" /\ left = 0
  /\ drive_ok = TRUE
  /\ estopped = FALSE /\ tripped = FALSE /\ had_command = FALSE
  /\ cmd_age = 0 /\ reason = NoReason
  /\ act_running = FALSE /\ pwm = FALSE
  /\ led \in Leds
  /\ driver = TRUE /\ killed = FALSE

-----------------------------------------------------------------------------
(***************************************************************************)
(* Commands.  A command that is refused changes nothing.                   *)
(***************************************************************************)
Handling == pc = "commands"

\* acceptCommon(), and the cmd_at_ that every accepted command refreshes
Accept ==
  /\ ~estopped
  /\ tripped' = FALSE /\ had_command' = TRUE /\ cmd_age' = 0
  /\ UNCHANGED <<drive_ok, estopped, reason>>

\* cmd/wheel, and cmd/body once the chassis dimensions are configured
WheelCommand(rpm) ==
  /\ Handling /\ driver /\ drive_ok
  /\ Accept
  /\ SetWheelRpm(rpm)
  /\ UNCHANGED <<pc, left, actuator, led, world>>

\* cmd/actuator: duty 0 enables the PWM without turning anything
ActuatorCommand(duty) ==
  /\ Handling /\ driver
  /\ Accept
  /\ act_running' = TRUE /\ pwm' = (duty > 0)
  /\ UNCHANGED <<driveVars, pc, left, led, world>>

\* cmd/stop: not gated by the e-stop, and it does not arm the watchdog
StopCommand ==
  /\ Handling /\ driver /\ drive_ok
  /\ Decelerate
  /\ cmd_age' = 0
  /\ UNCHANGED <<pc, left, drive_ok, estopped, tripped, had_command, reason,
                 actuator, led, world>>

\* Mutant: the reason of a later e-stop replaces the first one.
EStopForgetsFirst(why) ==
  /\ reason' = why
  /\ estopped' = TRUE
  /\ IF drive_ok THEN DriveStop ELSE UNCHANGED driveVars
  /\ act_running' = FALSE /\ pwm' = FALSE
  /\ UNCHANGED <<drive_ok, tripped, had_command, cmd_age>>

\* Robot::estop: the first reason stays; everything is cut.
EStop(why) ==
  /\ reason' = IF estopped THEN reason ELSE why
  /\ estopped' = TRUE
  /\ IF drive_ok THEN DriveStop ELSE UNCHANGED driveVars
  /\ act_running' = FALSE /\ pwm' = FALSE
  /\ UNCHANGED <<drive_ok, tripped, had_command, cmd_age>>

EStopCommand ==
  /\ Handling
  /\ EStop([kind |-> "command", axes |-> {}])
  /\ UNCHANGED <<pc, left, led, world>>

\* cmd/reset: whatever state the robot is in
ResetCommand ==
  /\ Handling /\ driver
  /\ estopped' = FALSE /\ tripped' = FALSE /\ reason' = NoReason /\ cmd_age' = 0
  /\ UNCHANGED <<driveVars, pc, left, drive_ok, had_command, actuator, led, world>>

\* Mutant: the work light keeps the watchdog from firing.
LedCommandFeedsWatchdog(on) ==
  /\ Handling
  /\ led' = on /\ cmd_age' = 0
  /\ UNCHANGED <<driveVars, pc, left, drive_ok, estopped, tripped, had_command,
                 reason, actuator, world>>

\* cmd/led: passes the e-stop and does not refresh cmd_at_
LedCommand(on) ==
  /\ Handling
  /\ led' = on
  /\ UNCHANGED <<driveVars, pc, left, gates, actuator, world>>

-----------------------------------------------------------------------------
(***************************************************************************)
(* Robot::tick                                                             *)
(***************************************************************************)
\* Drive::tick said nothing is wrong, or there is nothing left to latch.
TickDrive ==
  /\ Handling
  /\ \/ ~drive_ok /\ UNCHANGED driveVars
     \/ drive_ok /\ (TickOk \/ (estopped /\ TickFail))
  /\ pc' = "act"
  /\ UNCHANGED <<left, gates, actuator, led, world>>

\* Drive::tick failed and overcurrent_ is set: latch the e-stop at once.
\* (The stop() of estop() repeats the one tick() has just sent.)
TickOvercurrent ==
  /\ Handling /\ drive_ok /\ ~estopped
  /\ TickFail /\ overcurrent'
  /\ estopped' = TRUE /\ reason' = [kind |-> "overcurrent", axes |-> {cursor}]
  /\ act_running' = FALSE /\ pwm' = FALSE
  /\ pc' = "act"
  /\ UNCHANGED <<left, drive_ok, tripped, had_command, cmd_age, led, world>>

\* Drive::tick failed otherwise: pollAll() comes before the e-stop.
TickDead ==
  /\ Handling /\ drive_ok /\ ~estopped
  /\ TickFail /\ ~overcurrent'
  /\ pc' = "pollall" /\ left' = N
  /\ UNCHANGED <<gates, actuator, led, world>>

PollAll ==
  /\ pc = "pollall" /\ left > 0
  /\ TickOk \/ TickFail
  /\ left' = left - 1
  /\ UNCHANGED <<pc, gates, actuator, led, world>>

LatchDead ==
  /\ pc = "pollall" /\ left = 0
  /\ EStop([kind |-> "dead", axes |-> DeadAxes])
  /\ pc' = "act"
  /\ UNCHANGED <<left, led, world>>

\* Mutant: without a drive nothing moves.
MovingNeedsDrive(actuatorRuns) ==
  /\ drive_ok
  /\ \/ actuatorRuns
     \/ \E i \in Axes : spinning[i] \/ Abs(target[i]) > 5

\* Robot::moving(), with the actuator as its poll has just left it.  An axis
\* whose feedback is too old counts as moving.
Moving(actuatorRuns) ==
  \/ actuatorRuns
  \/ /\ drive_ok
     /\ \E i \in Axes :
          \/ alive[i] /\ (heard[i] > MotorTimeout \/ spinning[i])
          \/ Abs(target[i]) > 5

WatchdogFires(actuatorRuns) ==
  had_command /\ ~estopped /\ ~tripped /\ cmd_age > Watchdog /\ Moving(actuatorRuns)

\* Actuator::poll may end the stroke; then the watchdog.
ActAndWatchdog(ends) ==
  LET runs == act_running /\ ~ends
  IN  /\ pc = "act"
      /\ ends => act_running
      /\ IF WatchdogFires(runs)
           THEN /\ tripped' = TRUE
                /\ IF drive_ok THEN DriveStop ELSE UNCHANGED driveVars
                /\ act_running' = FALSE /\ pwm' = FALSE
           ELSE /\ act_running' = runs
                /\ pwm' = (pwm /\ ~ends)
                /\ UNCHANGED <<driveVars, tripped>>
      /\ pc' = "sleep"
      /\ UNCHANGED <<left, drive_ok, estopped, had_command, cmd_age, reason, led, world>>

Sleep(k) ==
  /\ pc = "sleep"
  /\ DriveAges(k)
  /\ cmd_age' = Least(cmd_age + k, MaxAge)
  /\ pc' = "commands"
  /\ UNCHANGED <<motor, silent, target, decel_active, decel_from, idle_skip, cursor,
                 alive, fails, over, spinning, overcurrent>>
  /\ UNCHANGED <<left, drive_ok, estopped, tripped, had_command, reason, actuator,
                 led, world>>

-----------------------------------------------------------------------------
(***************************************************************************)
(* The process.                                                            *)
(***************************************************************************)
\* Mutant: ~Robot without the call of estop().
TerminateQuietly ==
  /\ pc \in {"commands", "act"}
  /\ pc' = "down" /\ left' = 0 /\ led' = FALSE
  /\ UNCHANGED <<driveVars, gates, actuator, world>>

\* SIGTERM between two passes, or an exception (cmd/body without dimensions, a
\* duty outside 0..100, a failing sysfs file): ~Robot calls estop(), and ~Led
\* turns the work light off.
Terminate ==
  /\ pc \in {"commands", "act"}
  /\ EStop([kind |-> "exit", axes |-> {}])
  /\ pc' = "down" /\ left' = 0 /\ led' = FALSE
  /\ UNCHANGED world

\* SIGKILL, an exception on the network thread, power lost by the computer
\* only: nothing is sent, the motors and the PWM go on.
Crash ==
  /\ Killable /\ pc # "down"
  /\ pc' = "down" /\ left' = 0
  /\ killed' = TRUE
  /\ UNCHANGED <<driveVars, gates, actuator, led, driver>>

\* systemd starts the daemon again.  One motor that does not answer the ping
\* leaves it without a drive.  setupPwm() turns the actuator off.
Restart ==
  /\ pc = "down"
  /\ pc' = "commands"
  /\ drive_ok' \in BOOLEAN
  /\ drive_ok' => silent = {}
  /\ ~drive_ok' => silent # {} \/ Noise
  /\ NewDrive
  /\ estopped' = FALSE /\ tripped' = FALSE /\ had_command' = FALSE
  /\ cmd_age' = 0 /\ reason' = NoReason
  /\ act_running' = FALSE /\ pwm' = FALSE
  /\ led' \in Leds
  /\ UNCHANGED <<motor, silent, left, world>>

\* The controller that was driving goes away for good.
DriverGone ==
  /\ MayLeave /\ driver
  /\ driver' = FALSE
  /\ UNCHANGED <<driveVars, pc, left, gates, actuator, led, killed>>

Wiring ==
  /\ \E S \in SilentSets : S # silent /\ Disconnect(S)
  /\ UNCHANGED <<pc, left, gates, actuator, led, world>>

-----------------------------------------------------------------------------
Commands ==
  \/ \E rpm \in Rpms : WheelCommand(rpm)
  \/ \E duty \in {0, 1} : ActuatorCommand(duty)
  \/ StopCommand
  \/ EStopCommand
  \/ ResetCommand
  \/ \E on \in Leds : LedCommand(on)

Tick ==
  \/ TickDrive
  \/ TickOvercurrent
  \/ TickDead
  \/ PollAll
  \/ LatchDead
  \/ \E ends \in BOOLEAN : ActAndWatchdog(ends)
  \/ \E k \in 1 .. MaxLag : Sleep(k)

Environment == Terminate \/ Crash \/ Restart \/ DriverGone \/ Wiring

Next == Commands \/ Tick \/ Environment

Spec == Init /\ [][Next]_vars

\* The loop goes on: the queue is finite, no handler waits, and tick() sleeps
\* for a bounded time.
FairSpec == Spec /\ WF_vars(Tick)
-----------------------------------------------------------------------------
(***************************************************************************)
(* Safety properties.                                                      *)
(***************************************************************************)
Up == pc # "down"

\* Nothing the daemon controls is commanded to move.
Stopped == AtRest /\ ~act_running /\ ~pwm

\* The actuator is off and no axis is driven faster than moving() can see.
Slowed == ~act_running /\ ~pwm /\ \A i \in Axes : Abs(target[i]) <= 5

\* The e-stop and the watchdog trip both hold everything stopped until they
\* are released: no command handler, deceleration step, poll result or
\* actuator event in any order moves anything while one of them is set.
LatchesHold == Up /\ (estopped \/ tripped) => Stopped

\* With a bus that loses no frame, what a motor was last told is what target_
\* says, limited to MaxRpm, unless a killed process has left it turning: no path
\* updates one and forgets the other.
MotorsFollow ==
  drive_ok /\ Up /\ had_command /\ ~killed =>
    \A i \in Axes : motor[i] \in {target[i], Clamp(target[i])}

\* Every way a process can end short of being killed leaves the motors and the
\* PWM off, and its successor, with a drive or without, drives nothing until it is
\* given a command.
QuietBeforeFirstCommand == Up /\ ~had_command /\ ~killed => motor = Still /\ ~pwm

\* What navi.service says of the daemon, without that exception: "명령을 받기
\* 전까지 모터를 돌리지 않는다".
QuietUntilCommanded == Up /\ ~had_command => motor = Still /\ ~pwm

\* Without a new command for longer than the watchdog period and one pass of
\* the loop, the actuator is off and no axis is driven faster than the 0.5 rpm
\* moving() can see, whatever was going on: a deceleration, one interrupted by
\* a command, an actuator stroke, a drive that is missing, unknown feedback.
WatchdogStops ==
  pc = "commands" /\ had_command /\ cmd_age > Watchdog + MaxLag => Slowed

\* The comment on the watchdog without the exception for slow axes
\* (robot.hpp: "새 명령 없이 이 시간이 지나면 세운다").
WatchdogStopsEveryAxis ==
  pc = "commands" /\ had_command /\ cmd_age > Watchdog + MaxLag => target = Still

\* An axis found dead or overloaded stops all axes in that very tick, and the
\* robot is latched before another command is handled.
FaultStopsEveryAxis ==
  [][ \A i \in Axes :
        /\ Up /\ Up'
        /\ \/ alive[i] /\ ~alive'[i]
           \/ over[i] < OverLimit /\ over'[i] = OverLimit
        => /\ motor' = Still /\ target' = Still /\ ~decel_active'
           /\ estopped' \/ pc' = "pollall" ]_vars

\* tick() only ever slows a motor down: apart from leaving it alone or cutting
\* it, it turns it in the sense of the deceleration in progress and no faster
\* than that deceleration started from.
TickNeverDrivesHarder ==
  [][ pc # "commands" \/ pc' # "commands" =>
        \A i \in Axes :
          \/ motor'[i] \in {0, motor[i]}
          \/ /\ decel_active
             /\ motor'[i] * decel_from[i] > 0
             /\ Abs(motor'[i]) <= Abs(decel_from[i]) ]_vars

\* The comment on decelerate(): from the speed commanded now, step by step
\* down (drive.hpp: "현재 명령속도에서 0 근처까지 단계적으로 낮춘 뒤").
DecelNeverSpeedsUp ==
  [][ pc # "commands" \/ pc' # "commands" =>
        \A i \in Axes : Abs(motor'[i]) <= Abs(motor[i]) ]_vars

-----------------------------------------------------------------------------
(***************************************************************************)
(* Liveness.  Once whoever was driving is gone, the robot comes to rest    *)
(* and stays so, even if somebody goes on switching the work light: unless *)
(* a process was killed, for as long as no successor can do anything about *)
(* it: there is none, its watchdog is not armed, or it has no drive.       *)
(***************************************************************************)
Quiet == ~pwm /\ \A i \in Axes : Abs(motor[i]) <= 5
Orphaned == killed /\ (~Up \/ ~had_command \/ ~drive_ok)
AbandonedRobotRests == ~driver ~> [](Quiet \/ Orphaned)

-----------------------------------------------------------------------------
(***************************************************************************)
(* Robot implements SafeStop.                                              *)
(***************************************************************************)
Mode == IF ~Up THEN "down"
        ELSE IF estopped THEN "estop"
        ELSE IF tripped THEN "tripped"
        ELSE "run"

Driving == Up /\ ~Stopped

Latched == IF Up THEN reason ELSE NoReason

Safe == INSTANCE SafeStop WITH
  Why <- Reason, Nothing <- NoReason,
  mode <- Mode, driving <- Driving, why <- Latched

\* The loop, the latches and the ramp together keep the promise of SafeStop:
\* no interleaving of commands, poll results, actuator events, terminations
\* and restarts drives anything while the robot is held, or releases it.
ImplementsSafeStop == Safe!SafeSpec
=============================================================================
