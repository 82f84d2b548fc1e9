------------------------------- MODULE Actuator -------------------------------
(***************************************************************************)
(* The linear actuator: class Actuator (actuator.hpp), the thread of       *)
(* HallCounter (hall.hpp) that counts the edges of the shaft's encoder,    *)
(* and the shaft itself.  The caller's thread polls; both threads write    *)
(* the count without a lock.                                               *)
(*                                                                         *)
(* One tick is at least the caller's polling period.  The shaft moves by   *)
(* whole encoder steps, at least one a tick while it is free to, and the   *)
(* levels of the two channels are the shaft's position modulo 4.           *)
(***************************************************************************)
EXTENDS Integers

CONSTANTS
  Stroke,       \* encoder steps from the RET end to the EXT end
  Grace,        \* start_grace, in ticks
  HallTimeout,  \* hall_timeout, in ticks
  Limit,        \* the limit of a blocking call, in ticks
  Tolerance,    \* tolerance
  FullPeriod,   \* kPeriodNs; a duty is a number up to it
  Restarts,     \* whether the caller starts an actuator that runs
  Overrun,      \* whether the shaft may turn by more than one step between two reads
  Killable,     \* whether the process may die without unwinding
  MaxDrift      \* bound of the instance: how far count and shaft may part

ASSUME ActuatorAssumption ==
  /\ {Stroke, Limit, FullPeriod} \subseteq Nat \ {0}
  /\ {Grace, HallTimeout, Tolerance, MaxDrift} \subseteq Nat
  /\ {Restarts, Overrun, Killable} \subseteq BOOLEAN

VARIABLES
  pc,       \* "down" without a process, "store" inside start(), else "ready"
  pwm,      \* the kernel's PWM channel
  out,      \* the direction pin
  st,       \* state_
  ran,      \* elapsed since t0_
  goal,     \* target_ with dir_ret_, or NoGoal when target_active_ is false
  job,      \* the blocking call the caller is in, or "free"
  stroke,   \* stroke_
  start,    \* the arguments of the start() under way and the position it read
  pos,      \* HallCounter::pos_
  idle,     \* sinceLastEdge()
  seen,     \* HallCounter::state_: the levels last read
  shaft,    \* where the shaft is
  stuck,    \* something holds the shaft
  polled,   \* the caller polled in this tick
  moved,    \* the shaft moved in this tick
  still,    \* ticks without movement since the last start()
  origin,   \* what the count showed with the shaft at its RET end
  lost      \* why edges have escaped the count: "turn", "start"

caller == <<pc, pwm, out, st, ran, goal, job, stroke, start>>
hall == <<pos, idle, seen>>
world == <<shaft, stuck, polled, moved, still, origin, lost>>
vars == <<caller, hall, world>>

State == {"Idle", "Running", "Reached", "EndOfStroke", "Blocked", "Fault"}
Dir == {"ext", "ret"}
Span == 0 .. Stroke
Count == -(Stroke + MaxDrift) .. Stroke + MaxDrift
MaxRan == IF Limit > Grace THEN Limit ELSE Grace + 1
MaxIdle == HallTimeout + 1
MaxStill == Grace + HallTimeout + 2
NoGoal == [ret |-> FALSE, to |-> 0, on |-> FALSE]
NoStart == [ret |-> FALSE, duty |-> 0, goal |-> NoGoal, job |-> "free", read |-> 0]
Registers == [period : 0 .. FullPeriod, duty : 0 .. FullPeriod,
              enabled : BOOLEAN, polarity : {"normal", "inversed"}]

\* Mutant: an age counts on.
UpForever(n, max) == n + 1

Up(n, max) == IF n < max THEN n + 1 ELSE max

-----------------------------------------------------------------------------
(***************************************************************************)
(* The PWM channel: writes the kernel refuses leave the register alone.    *)
(* A refused write is not noticed either: the stream is only flushed when  *)
(* it is closed.                                                           *)
(***************************************************************************)
PutPeriod(r, v) == IF v >= r.duty THEN [r EXCEPT !.period = v] ELSE r
PutDuty(r, v) ==
  IF r.period # 0 /\ v <= r.period THEN [r EXCEPT !.duty = v] ELSE r
PutEnable(r, v) == IF r.period # 0 THEN [r EXCEPT !.enabled = v] ELSE r
PutPolarity(r, v) == IF ~r.enabled THEN [r EXCEPT !.polarity = v] ELSE r

\* Current flows through the motor.
Drives(r) ==
  r.enabled /\ IF r.polarity = "normal" THEN r.duty > 0 ELSE r.duty < r.period

\* Mutant: the channel is not disabled before it is set up.
SetupWhileEnabled(r) ==
  PutDuty(PutPolarity(PutPeriod(PutDuty(r, 0), FullPeriod), "normal"), 0)

\* setupPwm(), over whatever the last process left behind
SetupPwm(r) ==
  PutDuty(PutPolarity(PutPeriod(PutDuty(PutEnable(r, FALSE), 0), FullPeriod),
                      "normal"), 0)

PwmStop(r) == PutEnable(PutDuty(r, 0), FALSE)

-----------------------------------------------------------------------------
Job == {"free", "home", "calRet", "calExt"}
Goal == [ret : BOOLEAN, to : Int, on : BOOLEAN]

\* Every variable keeps to its range; ages saturate.
TypeOK ==
  /\ pc \in {"down", "ready", "store"}
  /\ pwm \in Registers /\ out \in Dir /\ st \in State
  /\ ran \in 0 .. MaxRan /\ goal \in Goal /\ job \in Job /\ stroke \in Int
  /\ start \in [ret : BOOLEAN, duty : 0 .. FullPeriod, goal : Goal, job : Job, read : Int]
  /\ pos \in Int /\ idle \in 0 .. MaxIdle /\ seen \in 0 .. 3
  /\ shaft \in Span /\ stuck \in BOOLEAN /\ polled \in BOOLEAN /\ moved \in BOOLEAN
  /\ still \in 0 .. MaxStill /\ origin \in Int /\ lost \subseteq {"turn", "start"}

\* The two levels at a position: 00, 01, 11, 10 and around again
Levels(n) == CASE n % 4 = 0 -> 0 [] n % 4 = 1 -> 1 [] n % 4 = 2 -> 3 [] OTHER -> 2

Init ==
  /\ pc = "down" /\ out \in Dir /\ shaft \in Span
  /\ pwm \in {r \in Registers : r.duty <= r.period /\ (r.enabled => r.period > 0)}
  /\ st = "Idle" /\ ran = 0 /\ goal = NoGoal /\ job = "free" /\ stroke = 0
  /\ start = NoStart /\ pos = 0 /\ idle = 0 /\ seen = Levels(shaft)
  /\ origin = -shaft /\ lost = {} /\ still = 0 /\ polled = TRUE
  /\ stuck = FALSE /\ moved = FALSE

\* Nothing outlives the process but the registers, the pin and the shaft; a new
\* count starts at 0 wherever the shaft is.
Fresh ==
  /\ st' = "Idle" /\ ran' = 0 /\ goal' = NoGoal /\ job' = "free" /\ stroke' = 0
  /\ start' = NoStart /\ pos' = 0 /\ idle' = 0 /\ seen' = Levels(shaft)
  /\ origin' = -shaft /\ lost' = {} /\ still' = 0 /\ polled' = TRUE
  /\ UNCHANGED <<out, shaft, stuck, moved>>

\* The constructors of Actuator and HallCounter
Construct == pc = "down" /\ pc' = "ready" /\ pwm' = SetupPwm(pwm) /\ Fresh

-----------------------------------------------------------------------------
(***************************************************************************)
(* The shaft.  A motor that pushes against an obstacle does not move it.   *)
(***************************************************************************)
AtEnd == shaft = IF out = "ext" THEN Stroke ELSE 0
CanMove == Drives(pwm) /\ ~stuck /\ ~AtEnd

\* The bound of the instance on what has escaped the count
Bounded == LET d == pos - shaft - origin IN -MaxDrift <= d /\ d <= MaxDrift

\* One step.  Unless the shaft overruns it, the thread has counted the last one.
Turn ==
  /\ CanMove
  /\ seen = Levels(shaft) \/ pc = "down" \/ (Overrun /\ Bounded)
  /\ shaft' = IF out = "ext" THEN shaft + 1 ELSE shaft - 1
  /\ moved' = (st = "Running") /\ still' = 0
  /\ lost' = IF seen = Levels(shaft) THEN lost ELSE lost \union {"turn"}
  /\ UNCHANGED <<caller, hall, stuck, polled, origin>>

Obstruct ==
  /\ stuck => ~Drives(pwm)
  /\ stuck' = ~stuck
  /\ UNCHANGED <<caller, hall, shaft, polled, moved, still, origin, lost>>

-----------------------------------------------------------------------------
(***************************************************************************)
(* The hall thread: what the levels were and are says which way it went.   *)
(***************************************************************************)
Lut == <<0, 1, -1, 0, -1, 0, 0, 1, 1, 0, 0, -1, 0, -1, 1, 0>>

\* Mutant: the table is indexed the wrong way round.
StepBackwards(was, is) == Lut[4 * is + was + 1]

Step(was, is) == Lut[4 * was + is + 1]

HallEdge ==
  /\ pc # "down" /\ seen # Levels(shaft)
  /\ pos' = pos + Step(seen, Levels(shaft)) /\ idle' = 0
  /\ seen' = Levels(shaft)
  /\ lost' = IF pc = "store" THEN lost \union {"start"} ELSE lost
  /\ UNCHANGED <<caller, shaft, stuck, polled, moved, still, origin>>

-----------------------------------------------------------------------------
(***************************************************************************)
(* start(): it reads the count, writes it back with the time of the last   *)
(* edge, and only then switches the motor on.                              *)
(***************************************************************************)
Free == pc = "ready" /\ job = "free" /\ (st # "Running" \/ Restarts) /\ Bounded

Begin(ret, duty, g, j) ==
  /\ pc' = "store"
  /\ start' = [ret |-> ret, duty |-> duty, goal |-> g, job |-> j, read |-> pos]
  /\ UNCHANGED <<pwm, out, st, ran, goal, job, stroke, hall, world>>

StartDone ==
  /\ pc = "store" /\ pc' = "ready"
  /\ pos' = start.read /\ idle' = 0
  /\ out' = IF start.ret THEN "ret" ELSE "ext"
  /\ pwm' = PutEnable(PutDuty(pwm, start.duty), TRUE)
  /\ ran' = 0 /\ goal' = start.goal /\ job' = start.job /\ st' = "Running"
  /\ start' = NoStart
  /\ still' = 0 /\ polled' = TRUE
  /\ UNCHANGED <<stroke, seen, shaft, stuck, moved, origin, lost>>

\* jog(), and what cmd/actuator calls; duty 0 runs without turning
Jog(ret, duty) == Free /\ Begin(ret, duty, NoGoal, "free")

\* moveTo(): nobody calls it for an actuator that runs
MoveTo(target) ==
  /\ Free /\ st # "Running"
  /\ IF target - pos \in -Tolerance .. Tolerance
     THEN /\ st' = "Reached"
          /\ UNCHANGED <<pc, pwm, out, ran, goal, job, stroke, start, hall, world>>
     ELSE Begin(target < pos, FullPeriod, [ret |-> target < pos, to |-> target, on |-> TRUE],
                "free")

MoveBy(delta) == MoveTo(pos + delta)
MoveToRatio(half) == stroke > 0 /\ MoveTo((stroke * half) \div 2)

\* home() and calibrate() block their caller until the end of the last run
Home == Free /\ Begin(TRUE, FullPeriod, NoGoal, "home")
Calibrate == Free /\ Begin(TRUE, FullPeriod, NoGoal, "calRet")
CalibrateExt ==
  /\ pc = "ready" /\ job = "calRet" /\ st = "EndOfStroke"
  /\ Begin(FALSE, FullPeriod, NoGoal, "calExt")

\* stop() and finish(); what only a run looks at goes with the run
EndRun(outcome) ==
  /\ pwm' = PwmStop(pwm) /\ st' = outcome
  /\ ran' = 0 /\ idle' = 0 /\ still' = 0 /\ goal' = NoGoal

Stop ==
  /\ pc = "ready" /\ job = "free"
  /\ EndRun(IF st = "Running" THEN "Idle" ELSE st)
  /\ UNCHANGED <<pc, out, job, stroke, start, pos, seen, shaft, stuck, polled, moved, origin, lost>>

-----------------------------------------------------------------------------
(***************************************************************************)
(* poll(), once a tick while the actuator runs.  The smoothed current has  *)
(* settled by the time the edges have been missing for hall_timeout.       *)
(***************************************************************************)
Loads == IF Drives(pwm) /\ stuck /\ ~AtEnd THEN {"stall", "over"} ELSE {"low"}

AtGoal == goal.on /\ IF goal.ret THEN pos <= goal.to ELSE pos >= goal.to
Silent == ran > Grace /\ idle > HallTimeout

\* Mutant: a silent encoder means the end of the stroke, whatever the current.
VerdictIgnoresCurrent(fault, load) ==
  IF fault THEN "Fault" ELSE IF AtGoal THEN "Reached"
  ELSE IF Silent THEN "EndOfStroke" ELSE IF load = "over" THEN "Blocked" ELSE "Running"

\* Mutant: only a move to a position watches the encoder.
VerdictTrustsJog(fault, load) ==
  IF fault THEN "Fault" ELSE IF AtGoal THEN "Reached"
  ELSE IF goal.on /\ Silent THEN "EndOfStroke" ELSE IF load = "over" THEN "Blocked" ELSE "Running"

Verdict(fault, load) ==
  IF fault THEN "Fault"
  ELSE IF AtGoal THEN "Reached"
  ELSE IF Silent THEN IF load = "low" THEN "EndOfStroke" ELSE "Blocked"
  ELSE IF load = "over" THEN "Blocked" ELSE "Running"

\* Mutant: calibrate() goes on after a home() that met an obstacle.
FinishAnyway(outcome) ==
  /\ UNCHANGED <<pos, origin, lost, stroke>>
  /\ job' = IF job = "calRet" THEN job ELSE "free"

\* What runFor(), home() and calibrate() do with the outcome of a run
Finish(outcome) ==
  /\ IF job \in {"home", "calRet"} /\ outcome = "EndOfStroke"
     THEN pos' = 0 /\ origin' = -shaft /\ lost' = lost \ {"start"}
     ELSE UNCHANGED <<pos, origin, lost>>
  /\ stroke' = IF job = "calExt" /\ outcome = "EndOfStroke" THEN pos ELSE stroke
  /\ job' = IF job = "calRet" /\ outcome = "EndOfStroke" THEN job ELSE "free"

Poll ==
  /\ pc = "ready" /\ st = "Running" /\ ~polled /\ polled' = TRUE
  /\ \E fault \in BOOLEAN, load \in Loads :
       LET verdict == Verdict(fault, load) IN
         IF verdict # "Running" THEN EndRun(verdict) /\ Finish(verdict)
         ELSE IF job # "free" /\ ran >= Limit THEN EndRun("Idle") /\ Finish("Idle")
         ELSE UNCHANGED <<pwm, st, ran, idle, still, goal, job, stroke, pos, origin, lost>>
  /\ UNCHANGED <<pc, out, start, seen, shaft, stuck, moved>>

\* One tick of a run: the caller polled, the thread kept up, and a free shaft moved.
Tick ==
  /\ pc = "ready" /\ st = "Running" /\ polled
  /\ seen = Levels(shaft)
  /\ CanMove => moved
  /\ ran' = Up(ran, IF job = "free" THEN Grace + 1 ELSE MaxRan) /\ idle' = Up(idle, MaxIdle)
  /\ still' = IF Drives(pwm) THEN Up(still, MaxStill) ELSE still
  /\ polled' = FALSE /\ moved' = FALSE
  /\ UNCHANGED <<pc, pwm, out, st, goal, job, stroke, start, pos, seen, shaft, stuck, origin, lost>>

\* The process is gone, with its destructors (Leave) or without (Kill).
Gone == pc = "ready" /\ pc' = "down" /\ Fresh
Leave == Gone /\ pwm' = PwmStop(pwm)
Kill == Killable /\ Gone /\ UNCHANGED pwm

Next ==
  \/ Construct \/ Turn \/ Obstruct \/ HallEdge \/ StartDone
  \/ \E ret \in BOOLEAN, duty \in {0, FullPeriod} : Jog(ret, duty)
  \/ \E delta \in {-2, 2} : MoveBy(delta)
  \/ \E half \in 0 .. 2 : MoveToRatio(half)
  \/ Home \/ Calibrate \/ CalibrateExt \/ Stop \/ Poll \/ Tick \/ Leave \/ Kill

\* Both threads run and time passes; nothing makes a caller call anything.
Fairness ==
  /\ WF_vars(StartDone) /\ WF_vars(CalibrateExt) /\ WF_vars(Poll)
  /\ WF_vars(HallEdge) /\ WF_vars(Turn) /\ WF_vars(Tick)

Spec == Init /\ [][Next]_vars /\ Fairness

-----------------------------------------------------------------------------
(***************************************************************************)
(* Properties                                                              *)
(***************************************************************************)
\* Whatever a process that was killed left in the PWM registers, from the
\* constructor on the motor only turns while state_ is Running: what the
\* watchdog's hasMotionTarget() and poll() look at.
DrivenWhileRunning == pc # "down" /\ Drives(pwm) => st = "Running"

\* A motor that is on and does not turn is switched off within the grace
\* period or the hall timeout, counted from the last start(): the bound that a
\* caller loses who calls start() over and over.
StallIsCut ==
  st = "Running" /\ Drives(pwm)
    => still <= (IF Grace > HallTimeout THEN Grace ELSE HallTimeout) + 1

\* The count and the shaft agree up to the place where the count started, as
\* long as the thread saw every step and no edge came while start() held the
\* count it was about to write back.
CountIsExact ==
  pc = "ready" /\ lost = {} /\ seen = Levels(shaft) => pos = shaft + origin

\* calibrate() returns the length of the stroke: both ends were the ends and
\* not an obstacle, and the zero of the count is the RET end.
StrokeIsMeasured ==
  [][stroke' > 0 /\ stroke' # stroke /\ lost = {} => stroke' = Stroke]_vars

\* home() and calibrate() return, whatever the shaft meets.
CallsReturn == job # "free" ~> job = "free"
=============================================================================
