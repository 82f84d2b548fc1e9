-------------------------------- MODULE Drive --------------------------------
(***************************************************************************)
(* The wheel drive of the robot daemon: class Drive (drive.hpp) over the   *)
(* RS485 motors (class Motor, nurirobot.hpp).  Every operator below that   *)
(* has a primed variable is one whole method of Drive; the methods run on  *)
(* the daemon's main thread only, so each is one step.                     *)
(*                                                                         *)
(* Speeds are integers in units of 0.1 rpm, the resolution of the motor    *)
(* protocol.  Times are ages counted in main-loop periods and saturated    *)
(* just above the largest value the code compares them with.               *)
(***************************************************************************)
EXTENDS Integers

CONSTANTS
  N,            \* number of motors (motors_.size())
  Rpms,         \* the wheel-speed vectors a command may carry, functions on Axes
  MaxRpm,       \* cfg.max_wheel_rpm
  Creep,        \* kCreep: deceleration never commands less than this
  Settle,       \* kCmdSettle: feedback this young after a command is discarded
  DecelSecs,    \* cfg.decel_secs
  DecelStep,    \* kDecelStep
  IdleDivider,  \* kIdleDivider
  FailLimit,    \* cfg.motor_fail_limit
  OverLimit,    \* cfg.overcurrent_hits
  MotorTimeout, \* cfg.motor_timeout
  Losses,       \* the sets of motors that may miss a broadcast frame
  SilentSets,   \* the sets of motors that may fall off the daisy chain
  Noise,        \* whether a connected motor may miss a poll
  Feedback      \* what an answer may say of an axis that is told to turn, or is not:
                \* whether it moves, and the current

Axes == 0 .. N - 1

ASSUME DriveAssumption ==
  /\ N \in Nat \ {0}
  /\ Rpms \subseteq [Axes -> Int]
  /\ {MaxRpm, Creep, DecelSecs, IdleDivider, FailLimit, OverLimit} \subseteq Nat \ {0}
  /\ {Settle, DecelStep, MotorTimeout} \subseteq Nat \ {0}
  /\ {} \in Losses /\ Losses \subseteq SUBSET Axes
  /\ SilentSets \subseteq SUBSET Axes
  /\ Noise \in BOOLEAN
  /\ Feedback \in [BOOLEAN -> SUBSET [moves : BOOLEAN, current : {"none", "low", "high"}]]

VARIABLES
  motor,         \* per axis: the speed the motor itself was last told
  since_cmd,     \* per axis: age of Motor::cmd_at_
  silent,        \* the motors that physically do not answer
  target,        \* target_
  decel_active,  \* decel_active_
  decel_from,    \* decel_from_
  decel_age,     \* now - decel_t0_
  decel_last,    \* now - decel_last_
  idle_skip,     \* idle_skip_
  cursor,        \* cursor_
  alive,         \* state_[i].alive
  fails,         \* state_[i].consecutive_fail
  over,          \* state_[i].over_hits
  spinning,      \* |state_[i].rpm| > 0.5
  heard,         \* now - state_[i].stamp, read (and counted) only while alive
  overcurrent    \* overcurrent_

decelVars == <<decel_active, decel_from, decel_age, decel_last>>
wheelVars == <<alive, fails, over, spinning, heard>>
driveVars == <<motor, since_cmd, silent, target, decelVars, idle_skip, cursor,
               wheelVars, overcurrent>>

Abs(v) == IF v < 0 THEN -v ELSE v
Least(a, b) == IF a < b THEN a ELSE b
Clamp(v) == IF v > MaxRpm THEN MaxRpm ELSE IF v < -MaxRpm THEN -MaxRpm ELSE v
Still == [i \in Axes |-> 0]

\* Nothing is commanded and no deceleration is in progress.
AtRest == target = Still /\ ~decel_active

DriveTypeOK ==
  /\ motor \in [Axes -> Int]
  /\ since_cmd \in [Axes -> 0 .. Settle]
  /\ silent \in SUBSET Axes
  /\ target \in [Axes -> Int]
  /\ decel_active \in BOOLEAN
  /\ decel_from \in [Axes -> Int]
  /\ decel_age \in 0 .. DecelSecs
  /\ decel_last \in 0 .. DecelStep
  /\ idle_skip \in 0 .. IdleDivider - 1
  /\ cursor \in Axes
  /\ alive \in [Axes -> BOOLEAN]
  /\ fails \in [Axes -> 0 .. FailLimit]
  /\ over \in [Axes -> 0 .. OverLimit]
  /\ spinning \in [Axes -> BOOLEAN]
  /\ heard \in [Axes -> 0 .. MotorTimeout + 1]
  /\ overcurrent \in BOOLEAN

(***************************************************************************)
(* A fresh Drive object.  What the motors are doing is not touched by the  *)
(* constructors: Motor() only pings and reads the gear ratio.              *)
(***************************************************************************)
NewDrive ==
  /\ target' = Still
  /\ decel_active' = FALSE /\ decel_from' = Still
  /\ decel_age' = 0 /\ decel_last' = 0
  /\ since_cmd' = [i \in Axes |-> Settle]
  /\ idle_skip' = 0 /\ cursor' = 0
  /\ alive' = [i \in Axes |-> FALSE]
  /\ fails' = [i \in Axes |-> 0]
  /\ over' = [i \in Axes |-> 0]
  /\ spinning' = [i \in Axes |-> FALSE]
  /\ heard' = [i \in Axes |-> 0]
  /\ overcurrent' = FALSE

DriveInit ==
  /\ motor = Still /\ silent = {}
  /\ target = Still
  /\ decel_active = FALSE /\ decel_from = Still
  /\ decel_age = 0 /\ decel_last = 0
  /\ since_cmd = [i \in Axes |-> Settle]
  /\ idle_skip = 0 /\ cursor = 0
  /\ alive = [i \in Axes |-> FALSE]
  /\ fails = [i \in Axes |-> 0]
  /\ over = [i \in Axes |-> 0]
  /\ spinning = [i \in Axes |-> FALSE]
  /\ heard = [i \in Axes |-> 0]
  /\ overcurrent = FALSE

-----------------------------------------------------------------------------
(***************************************************************************)
(* Control frames are not acknowledged and not repeated: a motor that      *)
(* misses one keeps doing what it was told before.                         *)
(***************************************************************************)
Send(S, rpm) ==
  /\ \E lost \in Losses :
       motor' = [i \in Axes |-> IF i \in S \ lost THEN rpm[i] ELSE motor[i]]
  /\ since_cmd' = [i \in Axes |-> IF i \in S THEN 0 ELSE since_cmd[i]]

\* Drive::setWheelRpm.  The clamp is on what is sent, not on target_, and a
\* deceleration in progress is left active.
SetWheelRpm(rpm) ==
  /\ Send(Axes, [i \in Axes |-> Clamp(rpm[i])])
  /\ target' = rpm
  /\ UNCHANGED <<silent, decelVars, idle_skip, cursor, wheelVars, overcurrent>>

\* decel_active_ = false.  The other decel_ fields are read only while it is
\* true and are all written when it becomes true: they are kept at 0 meanwhile.
DecelOff ==
  decel_active' = FALSE /\ decel_from' = Still /\ decel_age' = 0 /\ decel_last' = 0

\* Mutants: stop() that forgets the deceleration, and one that skips dead axes.
DriveStopKeepsDecel ==
  /\ Send(Axes, Still)
  /\ target' = Still
  /\ UNCHANGED <<decelVars, silent, idle_skip, cursor, wheelVars, overcurrent>>

DriveStopSkipsDead ==
  /\ Send({i \in Axes : alive[i]}, Still)
  /\ target' = Still
  /\ DecelOff
  /\ UNCHANGED <<silent, idle_skip, cursor, wheelVars, overcurrent>>

\* Drive::stop
DriveStop ==
  /\ Send(Axes, Still)
  /\ target' = Still
  /\ DecelOff
  /\ UNCHANGED <<silent, idle_skip, cursor, wheelVars, overcurrent>>

\* Drive::decelerate, for a positive number of seconds.
Decelerate ==
  IF \A i \in Axes : Abs(target[i]) < Creep
  THEN DriveStop
  ELSE /\ decel_from' = target
       /\ decel_active' = TRUE
       /\ decel_age' = 0
       /\ decel_last' = DecelStep
       /\ UNCHANGED <<motor, since_cmd, silent, target, idle_skip, cursor,
                      wheelVars, overcurrent>>

-----------------------------------------------------------------------------
(***************************************************************************)
(* Drive::tick.  First the deceleration: stepDecel, or stop() at its end.  *)
(***************************************************************************)
DecelEnds  == decel_active /\ decel_age >= DecelSecs
DecelSteps == decel_active /\ decel_age < DecelSecs /\ decel_last >= DecelStep

\* Mutant: the sign is lost where the speed is raised to Creep.
EasedUnsigned(i) ==
  LET left == DecelSecs - decel_age
      mag  == (Abs(decel_from[i]) * left * left) \div (DecelSecs * DecelSecs)
  IN  IF mag < Creep THEN Creep ELSE IF decel_from[i] > 0 THEN mag ELSE -mag

\* The eased-out speed (1-t)^2 * from, never below Creep and never reversed.
Eased(i) ==
  LET left == DecelSecs - decel_age
      mag  == (Abs(decel_from[i]) * left * left) \div (DecelSecs * DecelSecs)
      v    == IF mag < Creep THEN Creep ELSE mag
  IN  IF decel_from[i] > 0 THEN v ELSE -v

Stepped == {i \in Axes : DecelSteps /\ Abs(decel_from[i]) >= Creep}

\* target_ and the frames sent, after the deceleration part of the tick
TickTarget ==
  [i \in Axes |-> IF DecelEnds THEN 0 ELSE IF i \in Stepped THEN Eased(i) ELSE target[i]]
TickSends == IF DecelEnds THEN Axes ELSE Stepped

TickDecel ==
  /\ Send(TickSends, TickTarget)
  /\ target' = TickTarget
  /\ IF DecelEnds
       THEN DecelOff
       ELSE /\ decel_last' = IF DecelSteps THEN 0 ELSE decel_last
            /\ UNCHANGED <<decel_active, decel_from, decel_age>>

\* No axis is commanded: only one tick in IdleDivider polls.
TickIdle ==
  /\ TickTarget = Still
  /\ idle_skip + 1 < IdleDivider
  /\ idle_skip' = idle_skip + 1
  /\ TickDecel
  /\ UNCHANGED <<silent, cursor, wheelVars, overcurrent>>

Polls == TickTarget = Still => idle_skip + 1 >= IdleDivider
\* Mutant: the round-robin over the axes does not wrap.
NextCursorPastEnd == cursor + 1

NextCursor == (cursor + 1) % N
Answers  == cursor \notin silent
Misses   == cursor \in silent \/ Noise
Settling == cursor \in TickSends \/ since_cmd[cursor] < Settle
Reported == Feedback[Abs(motor[cursor]) > 5]

\* An answer too soon after a command: it only proves that the axis is there.
PollSettling ==
  /\ Polls /\ Answers /\ Settling
  /\ TickDecel
  /\ fails' = [fails EXCEPT ![cursor] = 0]
  /\ idle_skip' = 0 /\ cursor' = NextCursor
  /\ UNCHANGED <<silent, alive, over, spinning, heard, overcurrent>>

\* over_hits after an answer.  Its current is the verdict of the median window:
\* above the limit or not, or "none" while the window is not full.
OverAfter(current) ==
  CASE current = "high" -> over[cursor] + 1
    [] current = "low"  -> 0
    [] current = "none" -> over[cursor]

PollOk(f) ==
  /\ Polls /\ Answers /\ ~Settling
  /\ ~(f.current = "high" /\ over[cursor] + 1 >= OverLimit)
  /\ TickDecel
  /\ alive' = [alive EXCEPT ![cursor] = TRUE]
  /\ fails' = [fails EXCEPT ![cursor] = 0]
  /\ over' = [over EXCEPT ![cursor] = OverAfter(f.current)]
  /\ spinning' = [spinning EXCEPT ![cursor] = f.moves]
  /\ heard' = [heard EXCEPT ![cursor] = 0]
  /\ idle_skip' = 0 /\ cursor' = NextCursor
  /\ UNCHANGED <<silent, overcurrent>>

PollMiss ==
  /\ Polls /\ Misses
  /\ fails[cursor] + 1 < FailLimit
  /\ TickDecel
  /\ fails' = [fails EXCEPT ![cursor] = @ + 1]
  /\ idle_skip' = 0 /\ cursor' = NextCursor
  /\ UNCHANGED <<silent, alive, over, spinning, heard, overcurrent>>

TickOk ==
  \/ TickIdle
  \/ PollSettling
  \/ PollMiss
  \/ \E f \in Reported : PollOk(f)

\* stop() inside tick(), after the polled axis was judged.
TickStop ==
  /\ Send(Axes, Still)
  /\ target' = Still
  /\ DecelOff
  /\ idle_skip' = 0 /\ cursor' = NextCursor
  /\ spinning' = [spinning EXCEPT ![cursor] = FALSE]
  /\ UNCHANGED silent

\* The median stayed above the limit for OverLimit polls in a row.
PollOver ==
  /\ Polls /\ Answers /\ ~Settling
  /\ \E f \in Reported : f.current = "high"
  /\ over[cursor] + 1 >= OverLimit
  /\ TickStop
  /\ alive' = [alive EXCEPT ![cursor] = TRUE]
  /\ fails' = [fails EXCEPT ![cursor] = 0]
  /\ over' = [over EXCEPT ![cursor] = OverLimit]
  /\ heard' = [heard EXCEPT ![cursor] = 0]
  /\ overcurrent' = TRUE

\* Mutant: a dead axis is reported, but the other axes go on.
PollDeadGoesOn ==
  /\ Polls /\ Misses
  /\ fails[cursor] + 1 >= FailLimit
  /\ TickDecel
  /\ alive' = [alive EXCEPT ![cursor] = FALSE]
  /\ fails' = [fails EXCEPT ![cursor] = FailLimit]
  /\ spinning' = [spinning EXCEPT ![cursor] = FALSE]
  /\ heard' = [heard EXCEPT ![cursor] = 0]
  /\ idle_skip' = 0 /\ cursor' = NextCursor
  /\ UNCHANGED <<silent, over, overcurrent>>

\* The axis has not answered FailLimit polls in a row.
PollDead ==
  /\ Polls /\ Misses
  /\ fails[cursor] + 1 >= FailLimit
  /\ TickStop
  /\ alive' = [alive EXCEPT ![cursor] = FALSE]
  /\ fails' = [fails EXCEPT ![cursor] = FailLimit]
  /\ heard' = [heard EXCEPT ![cursor] = 0]
  /\ UNCHANGED <<over, overcurrent>>

TickFail == PollOver \/ PollDead

\* Drive::deadAxes (with none, its text names failed_ instead)
DeadAxes == {i \in Axes : ~alive[i]}

-----------------------------------------------------------------------------
\* k main-loop periods pass.
DriveAges(k) ==
  /\ since_cmd' = [i \in Axes |-> Least(since_cmd[i] + k, Settle)]
  /\ decel_age' = IF decel_active THEN Least(decel_age + k, DecelSecs) ELSE decel_age
  /\ decel_last' = IF decel_active THEN Least(decel_last + k, DecelStep) ELSE decel_last
  /\ heard' = [i \in Axes |->
                 IF alive[i] THEN Least(heard[i] + k, MotorTimeout + 1) ELSE heard[i]]

\* A bad contact takes motors off the daisy chain, or gives them back.
Disconnect(S) ==
  /\ silent' = S
  /\ UNCHANGED <<motor, since_cmd, target, decelVars, idle_skip, cursor, wheelVars,
                 overcurrent>>
=============================================================================
