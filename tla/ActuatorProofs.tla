----------------------------- MODULE ActuatorProofs -----------------------------
(***************************************************************************)
(* What is proved of Actuator, for every stroke, limit, tolerance and duty. *)
(***************************************************************************)
EXTENDS Actuator, TLAPS

LEMMA Constants ==
  /\ Stroke \in Nat /\ Limit \in Nat /\ FullPeriod \in Nat
  /\ Stroke > 0 /\ Limit > 0 /\ FullPeriod > 0
  /\ Grace \in Nat /\ HallTimeout \in Nat /\ Tolerance \in Nat /\ MaxDrift \in Nat
  BY ActuatorAssumption

-----------------------------------------------------------------------------
(***************************************************************************)
(* Levels, steps and registers                                             *)
(***************************************************************************)
LEMMA LevelsRange == ASSUME NEW n \in Int PROVE Levels(n) \in 0 .. 3
  BY DEF Levels

\* The thread that sees every step counts it.
LEMMA OneStep ==
  ASSUME NEW n \in Int
  PROVE  /\ Levels(n) # Levels(n + 1) /\ Levels(n) # Levels(n - 1)
         /\ Step(Levels(n), Levels(n + 1)) = 1
         /\ Step(Levels(n), Levels(n - 1)) = -1
         /\ Step(Levels(n), Levels(n)) = 0
  BY DEF Levels, Step, Lut

LEMMA StepRange ==
  ASSUME NEW a \in 0 .. 3, NEW b \in 0 .. 3
  PROVE  Step(a, b) \in {-1, 0, 1}
  BY DEF Step, Lut

\* What each write does to the registers
LEMMA Enable ==
  ASSUME NEW r \in Registers, NEW v \in BOOLEAN, NEW q, q = PutEnable(r, v)
  PROVE  /\ q \in Registers /\ q.period = r.period /\ q.duty = r.duty /\ q.polarity = r.polarity
         /\ q.enabled = IF r.period # 0 THEN v ELSE r.enabled
  BY DEF Registers, PutEnable

LEMMA Duty ==
  ASSUME NEW r \in Registers, NEW v \in 0 .. FullPeriod, NEW q, q = PutDuty(r, v)
  PROVE  /\ q \in Registers /\ q.period = r.period /\ q.enabled = r.enabled /\ q.polarity = r.polarity
         /\ q.duty = IF r.period # 0 /\ v <= r.period THEN v ELSE r.duty
  BY DEF Registers, PutDuty

LEMMA Period ==
  ASSUME NEW r \in Registers, NEW v \in 0 .. FullPeriod, NEW q, q = PutPeriod(r, v)
  PROVE  /\ q \in Registers /\ q.duty = r.duty /\ q.enabled = r.enabled /\ q.polarity = r.polarity
         /\ q.period = IF v >= r.duty THEN v ELSE r.period
  BY DEF Registers, PutPeriod

LEMMA Polarity ==
  ASSUME NEW r \in Registers, NEW q, q = PutPolarity(r, "normal")
  PROVE  /\ q \in Registers /\ q.period = r.period /\ q.duty = r.duty /\ q.enabled = r.enabled
         /\ q.polarity = IF ~r.enabled THEN "normal" ELSE r.polarity
  BY DEF Registers, PutPolarity

\* What the constructor leaves in the registers, whatever it found there.
Silence == [period |-> FullPeriod, duty |-> 0, enabled |-> FALSE, polarity |-> "normal"]

LEMMA SetupSilences ==
  ASSUME NEW r \in Registers, r.duty <= r.period, r.enabled => r.period > 0
  PROVE  SetupPwm(r) = Silence
<1>1. PICK off : off = PutEnable(r, FALSE)
  OBVIOUS
<1>2. PICK zero : zero = PutDuty(off, 0)
  OBVIOUS
<1>3. PICK long : long = PutPeriod(zero, FullPeriod)
  OBVIOUS
<1>4. PICK plain : plain = PutPolarity(long, "normal")
  OBVIOUS
<1>5. off \in Registers /\ ~off.enabled /\ off.period = r.period /\ off.duty = r.duty
  <2>1. /\ off \in Registers /\ off.period = r.period /\ off.duty = r.duty
        /\ off.enabled = IF r.period # 0 THEN FALSE ELSE r.enabled
    BY <1>1, Enable
  <2>2. CASE r.period # 0
    BY <2>1, <2>2
  <2>3. CASE r.period = 0
    <3>1. ~r.enabled
      BY <2>3
    <3> QED BY <2>1, <2>3, <3>1
  <2> QED BY <2>2, <2>3
<1>6. zero \in Registers /\ ~zero.enabled /\ zero.duty = 0
  BY <1>2, <1>5, Duty, Constants DEF Registers
<1>7. long \in Registers /\ ~long.enabled /\ long.duty = 0 /\ long.period = FullPeriod
  BY <1>3, <1>6, Period, Constants
<1>8. /\ plain \in Registers /\ ~plain.enabled /\ plain.duty = 0 /\ plain.period = FullPeriod
      /\ plain.polarity = "normal"
  BY <1>4, <1>7, Polarity, Constants
<1>9. plain = Silence
  BY <1>8 DEF Silence, Registers
<1>10. PutDuty(plain, 0) = plain
  BY <1>8, Constants DEF PutDuty, Registers
<1> QED BY <1>1, <1>2, <1>3, <1>4, <1>9, <1>10 DEF SetupPwm

-----------------------------------------------------------------------------
(***************************************************************************)
(* The steps: every call that starts the actuator is a Begins, or finds it *)
(* where it should go.                                                     *)
(***************************************************************************)
Begins ==
  \E ret \in BOOLEAN, duty \in 0 .. FullPeriod, g \in Goal, j \in Job :
    /\ pc = "ready" /\ Begin(ret, duty, g, j)
    /\ j # "calExt" => job = "free"
    /\ j = "calExt" => job = "calRet" /\ st = "EndOfStroke"
    /\ j # "free" => duty = FullPeriod /\ (ret <=> j # "calExt")

Arrived ==
  /\ pc = "ready" /\ job = "free" /\ st # "Running" /\ st' = "Reached"
  /\ UNCHANGED <<pc, pwm, out, ran, goal, job, stroke, start, hall, world>>

LEMMA Duties == 0 \in 0 .. FullPeriod /\ FullPeriod \in 0 .. FullPeriod
  BY Constants

LEMMA MoveToCases ==
  ASSUME TypeOK, NEW target \in Int, MoveTo(target)
  PROVE  Begins \/ Arrived
<1>1. CASE target - pos \in -Tolerance .. Tolerance
  BY <1>1 DEF MoveTo, Arrived, Free
<1>2. CASE target - pos \notin -Tolerance .. Tolerance
  <2>1. PICK ret \in BOOLEAN : ret <=> target < pos
    OBVIOUS
  <2>2. [ret |-> ret, to |-> target, on |-> TRUE] \in Goal
    BY DEF Goal
  <2>3. ret = (target < pos)
    BY <2>1
  <2>4. Begin(ret, FullPeriod, [ret |-> ret, to |-> target, on |-> TRUE], "free")
    BY <1>2, <2>3 DEF MoveTo
  <2>5. pc = "ready" /\ job = "free"
    BY DEF MoveTo, Free
  <2> QED BY <2>2, <2>4, <2>5, Duties DEF Begins, Job
<1> QED BY <1>1, <1>2

LEMMA NoGoalType == NoGoal \in Goal
  BY DEF NoGoal, Goal

LEMMA NextCases ==
  ASSUME TypeOK, [Next]_vars
  PROVE  \/ UNCHANGED vars
         \/ Construct \/ Turn \/ Obstruct \/ HallEdge \/ StartDone \/ Begins \/ Arrived
         \/ Stop \/ Poll \/ Tick \/ Leave \/ Kill
<1>1. ASSUME NEW ret \in BOOLEAN, NEW duty \in {0, FullPeriod}, Jog(ret, duty) PROVE Begins
  BY <1>1, Duties, NoGoalType DEF Jog, Free, Begins, Job
<1>2. ASSUME NEW delta \in {-2, 2}, MoveBy(delta) PROVE Begins \/ Arrived
  <2>1. pos + delta \in Int
    BY DEF TypeOK
  <2> QED BY <1>2, <2>1, MoveToCases DEF MoveBy
<1>3. ASSUME NEW half \in 0 .. 2, MoveToRatio(half) PROVE Begins \/ Arrived
  <2>1. (stroke * half) \div 2 \in Int
    BY DEF TypeOK
  <2> QED BY <1>3, <2>1, MoveToCases DEF MoveToRatio
<1>4. Home => Begins
  BY Duties, NoGoalType DEF Home, Free, Begins, Job
<1>5. Calibrate => Begins
  BY Duties, NoGoalType DEF Calibrate, Free, Begins, Job
<1>6. CalibrateExt => Begins
  BY Duties, NoGoalType DEF CalibrateExt, Begins, Job
<1> QED BY <1>1, <1>2, <1>3, <1>4, <1>5, <1>6 DEF Next

-----------------------------------------------------------------------------
(***************************************************************************)
(* Types                                                                   *)
(***************************************************************************)
LEMMA Ages ==
  /\ MaxRan \in Nat /\ MaxRan > Grace /\ MaxIdle \in Nat /\ MaxStill \in Nat
  /\ MaxIdle = HallTimeout + 1 /\ MaxStill = Grace + HallTimeout + 2
  BY Constants DEF MaxRan, MaxIdle, MaxStill

LEMMA UpType ==
  ASSUME NEW m \in Nat, NEW n \in 0 .. m, NEW k \in 0 .. m
  PROVE  Up(n, k) \in 0 .. m
  BY DEF Up

LEMMA FreshType ==
  ASSUME TypeOK, Fresh, pc' \in {"down", "ready"}, pwm' \in Registers
  PROVE  TypeOK'
<1>1. seen' \in 0 .. 3 /\ origin' \in Int
  BY LevelsRange DEF TypeOK, Fresh, Span
<1>2. /\ st' \in State /\ ran' \in 0 .. MaxRan /\ goal' \in Goal /\ job' \in Job /\ stroke' \in Int
      /\ start' \in [ret : BOOLEAN, duty : 0 .. FullPeriod, goal : Goal, job : Job, read : Int]
      /\ pos' \in Int /\ idle' \in 0 .. MaxIdle /\ still' \in 0 .. MaxStill
      /\ polled' \in BOOLEAN /\ lost' \subseteq {"turn", "start"}
  BY Ages, NoGoalType, Duties DEF Fresh, State, Job, NoStart
<1> QED BY <1>1, <1>2 DEF TypeOK, Fresh

LEMMA PwmStopType == ASSUME NEW r \in Registers PROVE PwmStop(r) \in Registers
  BY Duty, Enable, Duties DEF PwmStop

LEMMA SetupType == ASSUME NEW r \in Registers PROVE SetupPwm(r) \in Registers
<1>1. PutDuty(PutEnable(r, FALSE), 0) \in Registers
  BY Duty, Enable, Duties
<1>2. PutPolarity(PutPeriod(PutDuty(PutEnable(r, FALSE), 0), FullPeriod), "normal") \in Registers
  BY <1>1, Period, Polarity, Duties
<1> QED BY <1>2, Duty, Duties DEF SetupPwm

LEMMA EndRunType ==
  ASSUME TypeOK, NEW o \in State, EndRun(o)
  PROVE  /\ pwm' \in Registers /\ st' \in State /\ ran' \in 0 .. MaxRan
         /\ idle' \in 0 .. MaxIdle /\ still' \in 0 .. MaxStill /\ goal' \in Goal
  BY PwmStopType, Ages, NoGoalType DEF TypeOK, EndRun

LEMMA FinishType ==
  ASSUME TypeOK, NEW o \in State, Finish(o)
  PROVE  pos' \in Int /\ origin' \in Int /\ lost' \subseteq {"turn", "start"} /\ stroke' \in Int /\ job' \in Job
<1>1. pos' \in Int /\ origin' \in Int
  BY DEF TypeOK, Finish, Span
<1>2. lost' \subseteq {"turn", "start"}
  BY DEF TypeOK, Finish
<1>3. stroke' \in Int
  BY DEF TypeOK, Finish
<1>4. job' \in Job
  BY DEF TypeOK, Finish, Job
<1> QED BY <1>1, <1>2, <1>3, <1>4

LEMMA VerdictType == ASSUME NEW f \in BOOLEAN, NEW l PROVE Verdict(f, l) \in State
  BY DEF Verdict, State

LEMMA ShaftType ==
  ASSUME TypeOK, Turn
  PROVE  shaft' \in Span
  BY Constants DEF TypeOK, Turn, CanMove, AtEnd, Span, Dir

LEMMA TypeStep ==
  ASSUME TypeOK, [Next]_vars
  PROVE  TypeOK'
<1>1. CASE UNCHANGED vars
  BY <1>1 DEF TypeOK, vars, caller, hall, world
<1>2. CASE Construct
  BY <1>2, SetupType, FreshType DEF Construct, TypeOK
<1>3. CASE Turn
  <2>1. moved' \in BOOLEAN
    BY <1>3 DEF Turn
  <2>2. lost' \subseteq {"turn", "start"}
    BY <1>3 DEF Turn, TypeOK
  <2>3. still' \in 0 .. MaxStill
    BY <1>3, Ages DEF Turn
  <2> QED BY <1>3, <2>1, <2>2, <2>3, ShaftType DEF Turn, TypeOK, caller, hall
<1>4. CASE Obstruct
  <2>1. stuck' \in BOOLEAN
    BY <1>4 DEF Obstruct
  <2> QED BY <1>4, <2>1 DEF Obstruct, TypeOK, caller, hall
<1>5. CASE HallEdge
  <2>1. Levels(shaft) \in 0 .. 3
    BY LevelsRange DEF TypeOK, Span
  <2>2. pos' \in Int
    BY <1>5, <2>1, StepRange DEF HallEdge, TypeOK
  <2>3. idle' \in 0 .. MaxIdle
    BY <1>5, Ages DEF HallEdge
  <2>4. lost' \subseteq {"turn", "start"}
    BY <1>5 DEF HallEdge, TypeOK
  <2> QED BY <1>5, <2>1, <2>2, <2>3, <2>4 DEF HallEdge, TypeOK, caller
<1>6. CASE StartDone
  <2>1. pwm' \in Registers
    BY <1>6, Duty, Enable DEF StartDone, TypeOK
  <2>2. /\ ran' \in 0 .. MaxRan /\ idle' \in 0 .. MaxIdle /\ still' \in 0 .. MaxStill
        /\ polled' \in BOOLEAN /\ st' \in State /\ out' \in Dir /\ pc' \in {"down", "ready", "store"}
    BY <1>6, Ages DEF StartDone, State, Dir
  <2>3. /\ start' \in [ret : BOOLEAN, duty : 0 .. FullPeriod, goal : Goal, job : Job, read : Int]
    BY <1>6, NoGoalType, Duties DEF StartDone, NoStart, Job
  <2>4. goal' \in Goal /\ job' \in Job /\ pos' \in Int
    BY <1>6 DEF StartDone, TypeOK
  <2> QED BY <1>6, <2>1, <2>2, <2>3, <2>4 DEF StartDone, TypeOK
<1>7. CASE Begins
  <2>1. start' \in [ret : BOOLEAN, duty : 0 .. FullPeriod, goal : Goal, job : Job, read : Int]
    BY <1>7 DEF Begins, Begin, TypeOK
  <2> QED BY <1>7, <2>1 DEF Begins, Begin, TypeOK, hall, world
<1>8. CASE Arrived
  BY <1>8 DEF Arrived, TypeOK, State, hall, world
<1>9. CASE Stop
  <2>1. (IF st = "Running" THEN "Idle" ELSE st) \in State
    BY DEF TypeOK, State
  <2> QED BY <1>9, <2>1, EndRunType DEF Stop, TypeOK
<1>10. CASE Poll
  <2>1. UNCHANGED <<pc, out, start, seen, shaft, stuck, moved>> /\ polled' \in BOOLEAN
    BY <1>10 DEF Poll
  <2>2. ASSUME UNCHANGED <<pwm, st, ran, idle, still, goal, job, stroke, pos, origin, lost>> PROVE TypeOK'
    BY <2>1, <2>2 DEF TypeOK
  <2>3. ASSUME NEW o \in State, EndRun(o), Finish(o) PROVE TypeOK'
    BY <2>1, <2>3, EndRunType, FinishType DEF TypeOK
  <2>4. "Idle" \in State
    BY DEF State
  <2> QED BY <1>10, <2>2, <2>3, <2>4, VerdictType DEF Poll
<1>11. CASE Tick
  <2>1. Grace + 1 \in 0 .. MaxRan /\ MaxRan \in 0 .. MaxRan
    BY Ages, Constants
  <2>2. ran' \in 0 .. MaxRan
    BY <1>11, <2>1, Ages, UpType DEF Tick, TypeOK
  <2>3. idle' \in 0 .. MaxIdle
    BY <1>11, Ages, UpType DEF Tick, TypeOK, Up
  <2>4. still' \in 0 .. MaxStill
    BY <1>11, Ages, UpType DEF Tick, TypeOK, Up
  <2>5. polled' \in BOOLEAN /\ moved' \in BOOLEAN
    BY <1>11 DEF Tick
  <2> QED BY <1>11, <2>2, <2>3, <2>4, <2>5 DEF Tick, TypeOK
<1>12. CASE Leave
  BY <1>12, FreshType, PwmStopType DEF Leave, Gone, TypeOK
<1>13. CASE Kill
  BY <1>13, FreshType DEF Kill, Gone, TypeOK
<1> QED BY <1>1, <1>2, <1>3, <1>4, <1>5, <1>6, <1>7, <1>8, <1>9, <1>10, <1>11, <1>12, <1>13, NextCases

\* Every variable keeps to its range.
THEOREM ActuatorTypeCorrect == Spec => []TypeOK
<1>1. Init => TypeOK
  <2> SUFFICES ASSUME Init PROVE TypeOK
    OBVIOUS
  <2>1. seen \in 0 .. 3 /\ origin \in Int
    BY LevelsRange DEF Init, Span
  <2>2. /\ st \in State /\ ran \in 0 .. MaxRan /\ goal \in Goal /\ job \in Job /\ stroke \in Int
        /\ start \in [ret : BOOLEAN, duty : 0 .. FullPeriod, goal : Goal, job : Job, read : Int]
        /\ pos \in Int /\ idle \in 0 .. MaxIdle /\ still \in 0 .. MaxStill
    BY Ages, NoGoalType, Duties DEF Init, State, Job, NoStart
  <2>3. polled \in BOOLEAN /\ stuck \in BOOLEAN /\ moved \in BOOLEAN /\ pwm \in Registers
    BY DEF Init
  <2> QED BY <2>1, <2>2, <2>3 DEF Init, TypeOK
<1> QED BY <1>1, TypeStep, PTL DEF Spec

-----------------------------------------------------------------------------
(***************************************************************************)
(* The registers.  A process that was killed leaves them as they are; the  *)
(* constructor of the next one silences them, and from then on the period  *)
(* and the polarity never change, and only start() enables the channel.    *)
(***************************************************************************)
RegInv ==
  /\ pwm.duty <= pwm.period
  /\ pwm.enabled => pwm.period > 0
  /\ pc # "down" => pwm.period = FullPeriod /\ pwm.polarity = "normal"
  /\ pc # "down" /\ st # "Running" => ~pwm.enabled
  /\ pc = "down" => st = "Idle"

LEMMA SilenceFields ==
  /\ Silence \in Registers /\ Silence.period = FullPeriod /\ Silence.duty = 0
  /\ Silence.polarity = "normal" /\ ~Silence.enabled
  BY Constants DEF Silence, Registers

\* What stop() and finish() leave in registers that were set up
LEMMA StopSilences ==
  ASSUME NEW r \in Registers, r.duty <= r.period, r.enabled => r.period > 0
  PROVE  LET q == PwmStop(r) IN
           /\ q \in Registers /\ q.duty <= q.period /\ (q.enabled => q.period > 0)
           /\ q.period = r.period /\ q.polarity = r.polarity
           /\ r.period > 0 => ~q.enabled /\ q.duty = 0
<1>1. PICK z : z = PutDuty(r, 0)
  OBVIOUS
<1>2. PICK q : q = PutEnable(z, FALSE)
  OBVIOUS
<1>3. /\ z \in Registers /\ z.period = r.period /\ z.enabled = r.enabled /\ z.polarity = r.polarity
      /\ z.duty = IF r.period # 0 /\ 0 <= r.period THEN 0 ELSE r.duty
  BY <1>1, Duty, Duties
<1>4. /\ q \in Registers /\ q.period = z.period /\ q.duty = z.duty /\ q.polarity = z.polarity
      /\ q.enabled = IF z.period # 0 THEN FALSE ELSE z.enabled
  BY <1>2, <1>3, Enable
<1>5. PwmStop(r) = q
  BY <1>1, <1>2 DEF PwmStop
<1>6. r.period \in Nat /\ r.duty \in Nat
  BY DEF Registers
<1>7. CASE r.period > 0
  <2>1. q.duty = 0 /\ ~q.enabled /\ q.period = r.period /\ q.polarity = r.polarity
    BY <1>3, <1>4, <1>6, <1>7
  <2>2. q.duty <= q.period
    BY <1>6, <1>7, <2>1
  <2>3. q \in Registers
    BY <1>4
  <2> QED BY <1>5, <2>1, <2>2, <2>3
<1>8. CASE r.period = 0
  <2>1. ~r.enabled
    BY <1>8
  <2>2. q.duty = r.duty /\ ~q.enabled /\ q.period = r.period /\ q.polarity = r.polarity
    BY <1>3, <1>4, <1>6, <1>8, <2>1
  <2> QED BY <1>4, <1>5, <1>6, <1>8, <2>2
<1> QED BY <1>6, <1>7, <1>8

LEMMA RegEndRun ==
  ASSUME TypeOK, RegInv, pc = "ready", pc' = "ready", NEW o, EndRun(o)
  PROVE  RegInv' /\ ~pwm'.enabled
<1>1. PICK q : q = PwmStop(pwm)
  OBVIOUS
<1>2. /\ q.duty <= q.period /\ q.period = FullPeriod /\ q.polarity = "normal" /\ ~q.enabled
  BY <1>1, StopSilences, Constants DEF TypeOK, RegInv
<1> QED BY <1>1, <1>2 DEF EndRun, RegInv

LEMMA RegStep ==
  ASSUME TypeOK, RegInv, [Next]_vars
  PROVE  RegInv'
<1>1. CASE UNCHANGED vars
  BY <1>1 DEF RegInv, vars, caller
<1>2. CASE Construct
  <2>1. pwm' = Silence
    BY <1>2, SetupSilences DEF Construct, TypeOK, RegInv
  <2> QED BY <1>2, <2>1, SilenceFields, Constants DEF Construct, RegInv
<1>3. CASE Turn \/ Obstruct \/ HallEdge \/ Tick
  BY <1>3 DEF Turn, Obstruct, HallEdge, Tick, RegInv, caller
<1>4. CASE StartDone
  <2>1. PICK z : z = PutDuty(pwm, start.duty)
    OBVIOUS
  <2>2. /\ z \in Registers /\ z.period = FullPeriod /\ z.polarity = "normal"
        /\ z.duty <= FullPeriod
    BY <1>4, <2>1, Duty, Constants DEF StartDone, TypeOK, RegInv
  <2>3. pwm' = PutEnable(z, TRUE)
    BY <1>4, <2>1 DEF StartDone
  <2>4. pwm'.period = FullPeriod /\ pwm'.polarity = "normal" /\ pwm'.duty <= FullPeriod
    BY <2>2, <2>3, Enable
  <2> QED BY <1>4, <2>4, Constants DEF StartDone, RegInv
<1>5. CASE Begins \/ Arrived
  BY <1>5 DEF Begins, Begin, Arrived, RegInv
<1>6. CASE Stop
  BY <1>6, RegEndRun DEF Stop
<1>7. CASE Poll
  BY <1>7, RegEndRun DEF Poll, RegInv
<1>8. CASE Leave
  <2>1. PICK q : q = PwmStop(pwm)
    OBVIOUS
  <2>2. q.duty <= q.period /\ (q.enabled => q.period > 0)
    BY <2>1, StopSilences DEF TypeOK, RegInv
  <2> QED BY <1>8, <2>1, <2>2 DEF Leave, Gone, Fresh, RegInv
<1>9. CASE Kill
  BY <1>9 DEF Kill, Gone, Fresh, RegInv
<1> QED BY <1>1, <1>2, <1>3, <1>4, <1>5, <1>6, <1>7, <1>8, <1>9, NextCases

LEMMA RegInvariant == Spec => []RegInv
<1>1. Init => RegInv
  BY DEF Init, RegInv
<1> QED BY <1>1, RegStep, ActuatorTypeCorrect, PTL DEF Spec

\* Whatever a killed process left in the registers, from the constructor on the
\* motor turns only while state_ is Running.
THEOREM MotorOnlyDrivenWhileRunning == Spec => []DrivenWhileRunning
<1>1. RegInv => DrivenWhileRunning
  BY DEF RegInv, DrivenWhileRunning, Drives
<1> QED BY <1>1, RegInvariant, PTL

-----------------------------------------------------------------------------
(***************************************************************************)
(* poll() goes on only with an encoder that is not silent, and finds the   *)
(* end of the stroke only where the shaft does not meet an obstacle.       *)
(***************************************************************************)
PollRest == pc = "ready" /\ st = "Running" /\ polled' /\ UNCHANGED <<pc, out, start, seen, shaft, stuck, moved>>

GoesOn ==
  /\ PollRest /\ ~Silent
  /\ UNCHANGED <<pwm, st, ran, idle, still, goal, job, stroke, pos, origin, lost>>

Ends(o) ==
  /\ PollRest /\ o \in State \ {"Running"} /\ EndRun(o) /\ Finish(o)
  /\ o = "EndOfStroke" => Silent /\ (Drives(pwm) /\ stuck => AtEnd)

LEMMA PollCases ==
  ASSUME Poll
  PROVE  GoesOn \/ \E o \in State : Ends(o)
<1>1. PollRest
  BY DEF Poll, PollRest
<1>2. PICK fault \in BOOLEAN, load \in Loads :
        LET verdict == Verdict(fault, load) IN
          IF verdict # "Running" THEN EndRun(verdict) /\ Finish(verdict)
          ELSE IF job # "free" /\ ran >= Limit THEN EndRun("Idle") /\ Finish("Idle")
          ELSE UNCHANGED <<pwm, st, ran, idle, still, goal, job, stroke, pos, origin, lost>>
  BY DEF Poll
<1>3. CASE Verdict(fault, load) # "Running"
  <2>1. Verdict(fault, load) = "EndOfStroke" => Silent /\ load = "low"
    BY DEF Verdict
  <2>2. load = "low" => (Drives(pwm) /\ stuck => AtEnd)
    BY DEF Loads
  <2> QED BY <1>1, <1>2, <1>3, <2>1, <2>2, VerdictType DEF Ends
<1>4. CASE Verdict(fault, load) = "Running" /\ job # "free" /\ ran >= Limit
  BY <1>1, <1>2, <1>4 DEF Ends, State
<1>5. CASE Verdict(fault, load) = "Running" /\ ~(job # "free" /\ ran >= Limit)
  <2>1. ~Silent
    BY <1>5 DEF Verdict
  <2> QED BY <1>1, <1>2, <1>5, <2>1 DEF GoesOn
<1> QED BY <1>3, <1>4, <1>5

-----------------------------------------------------------------------------
(***************************************************************************)
(* A motor that does not turn.  The ticks without movement are those since *)
(* the start and those since the last edge, until one of the two is past   *)
(* its limit; the poll of the tick in which both are ends the run.         *)
(***************************************************************************)
Patience == (IF Grace > HallTimeout THEN Grace ELSE HallTimeout) + 1

StallInv ==
  /\ seen # Levels(shaft) => still = 0
  /\ ran <= Grace => still <= ran
  /\ idle <= HallTimeout => still <= idle
  /\ polled /\ st = "Running" => ran <= Grace \/ idle <= HallTimeout
  /\ still <= Patience

LEMMA StallZero ==
  ASSUME TypeOK', still' = 0, st' # "Running" \/ ran' = 0
  PROVE  StallInv'
<1>1. ran' \in Nat /\ idle' \in Nat
  BY Ages DEF TypeOK
<1>2. still' <= Patience
  BY Constants DEF Patience
<1> QED BY <1>1, <1>2, Constants DEF StallInv

LEMMA StallTick ==
  ASSUME TypeOK, StallInv, Tick
  PROVE  StallInv'
<1>1. ran \in Nat /\ idle \in Nat /\ still \in Nat /\ MaxRan > Grace /\ MaxRan \in Nat
  BY Ages DEF TypeOK
<1>2. ran' = ran + 1 \/ ran' > Grace
  BY <1>1, Constants DEF Tick, Up
<1>3. idle' = idle + 1 \/ idle' > HallTimeout
  BY <1>1, Constants, Ages DEF Tick, Up
<1>4. still' = still \/ still' = (IF still < MaxStill THEN still + 1 ELSE MaxStill)
  BY DEF Tick, Up
<1>5. ran <= Grace \/ idle <= HallTimeout
  BY DEF Tick, StallInv
<1>6. still <= Patience - 1
  BY <1>1, <1>5, Constants DEF StallInv, Patience
<1>7. Patience < MaxStill
  BY Ages, Constants DEF Patience
<1>8. still' \in Nat /\ still' <= still + 1
  BY <1>1, <1>4, <1>6, <1>7, Constants, Ages DEF Patience
<1>9. still' <= Patience
  BY <1>1, <1>6, <1>8, Constants DEF Patience
<1>10. ASSUME ran' <= Grace PROVE still' <= ran'
  <2>1. ran' \in Nat
    BY TypeStep, Ages DEF TypeOK, Next
  <2>2. ran' = ran + 1
    BY <1>2, <1>10, <2>1, Constants
  <2>3. ran <= Grace
    BY <1>1, <1>10, <2>2, Constants
  <2>4. still <= ran
    BY <2>3 DEF StallInv
  <2> QED BY <1>1, <1>8, <2>2, <2>4
<1>11. ASSUME idle' <= HallTimeout PROVE still' <= idle'
  <2>1. idle' \in Nat
    BY TypeStep, Ages DEF TypeOK, Next
  <2>2. idle' = idle + 1
    BY <1>3, <1>11, <2>1, Constants
  <2>3. idle <= HallTimeout
    BY <1>1, <1>11, <2>2, Constants
  <2>4. still <= idle
    BY <2>3 DEF StallInv
  <2> QED BY <1>1, <1>8, <2>2, <2>4
<1>12. ~polled' /\ (seen = Levels(shaft))'
  BY DEF Tick
<1> QED BY <1>9, <1>10, <1>11, <1>12 DEF StallInv

LEMMA StallStep ==
  ASSUME TypeOK, StallInv, [Next]_vars
  PROVE  StallInv'
<1>0. TypeOK'
  BY TypeStep
<1>1. CASE UNCHANGED vars
  BY <1>1 DEF StallInv, vars, caller, hall, world
<1>2. CASE Construct
  BY <1>0, <1>2, StallZero DEF Construct, Fresh
<1>3. CASE Turn
  <2>1. still' = 0 /\ UNCHANGED <<ran, idle, polled, st>>
    BY <1>3 DEF Turn, caller, hall
  <2>2. ran \in Nat /\ idle \in Nat
    BY Ages DEF TypeOK
  <2> QED BY <2>1, <2>2, Constants DEF StallInv, Patience
<1>4. CASE Obstruct
  BY <1>4 DEF Obstruct, StallInv, caller, hall
<1>5. CASE HallEdge
  <2>1. still' = 0 /\ idle' = 0 /\ seen' = Levels(shaft) /\ shaft' = shaft /\ ran' = ran
    BY <1>5 DEF HallEdge, StallInv, caller
  <2>2. ran \in Nat
    BY Ages DEF TypeOK
  <2> QED BY <2>1, <2>2, Constants DEF StallInv, Patience
<1>6. CASE StartDone
  BY <1>0, <1>6, StallZero DEF StartDone
<1>7. CASE Begins
  BY <1>7 DEF Begins, Begin, StallInv, hall, world
<1>8. CASE Arrived
  BY <1>8 DEF Arrived, StallInv, hall, world
<1>9. CASE Stop
  BY <1>0, <1>9, StallZero DEF Stop, EndRun
<1>10. CASE Poll
  <2>1. CASE GoesOn
    <3>1. ran <= Grace \/ idle <= HallTimeout
      BY <2>1, Ages, Constants DEF GoesOn, Silent, TypeOK
    <3> QED BY <2>1, <3>1 DEF GoesOn, PollRest, StallInv
  <2>2. ASSUME NEW o \in State, Ends(o) PROVE StallInv'
    BY <1>0, <2>2, StallZero DEF Ends, EndRun
  <2> QED BY <1>10, <2>1, <2>2, PollCases
<1>11. CASE Tick
  BY <1>11, StallTick
<1>12. CASE Leave \/ Kill
  BY <1>0, <1>12, StallZero DEF Leave, Kill, Gone, Fresh
<1> QED BY <1>1, <1>2, <1>3, <1>4, <1>5, <1>6, <1>7, <1>8, <1>9, <1>10, <1>11, <1>12, NextCases

\* A motor that is on and does not turn is cut within the longer of the grace
\* period and the hall timeout.
THEOREM StallIsAlwaysCut == Spec => []StallIsCut
<1>1. Init => StallInv
  BY Constants DEF Init, StallInv, Patience
<1>2. StallInv => StallIsCut
  BY DEF StallInv, StallIsCut, Patience
<1> QED BY <1>1, <1>2, StallStep, ActuatorTypeCorrect, PTL DEF Spec

-----------------------------------------------------------------------------
(***************************************************************************)
(* The silence of the encoder.  A shaft that is free to turn has turned in *)
(* every tick, so that its encoder is never silent for longer than one.    *)
(***************************************************************************)
Kept == "turn" \notin lost

SilenceInv ==
  /\ Kept /\ moved /\ st = "Running" /\ seen = Levels(shaft) => idle = 0
  /\ Kept /\ st = "Running" /\ (CanMove \/ seen # Levels(shaft)) => idle <= 1

LEMMA SilenceZero ==
  ASSUME idle' = 0 \/ st' # "Running"
  PROVE  SilenceInv'
  BY DEF SilenceInv

LEMMA SilenceStep ==
  ASSUME TypeOK, RegInv, SilenceInv, [Next]_vars
  PROVE  SilenceInv'
<1>1. CASE UNCHANGED vars
  BY <1>1 DEF SilenceInv, Kept, CanMove, AtEnd, vars, caller, hall, world
<1>2. CASE Construct \/ Leave \/ Kill
  BY <1>2, SilenceZero DEF Construct, Leave, Kill, Gone, Fresh
<1>3. CASE Turn
  <2>1. CASE ~Kept' \/ st # "Running"
    BY <1>3, <2>1 DEF Turn, SilenceInv, caller
  <2>2. CASE Kept' /\ st = "Running"
    <3>1. pc # "down" /\ CanMove /\ Kept /\ UNCHANGED <<idle, seen, st>>
      BY <1>3, <2>2 DEF Turn, RegInv, Kept, caller, hall
    <3>2. seen = Levels(shaft) /\ shaft \in Int /\ shaft' \in {shaft - 1, shaft + 1}
      BY <1>3, <2>2 DEF Turn, Kept, TypeOK, Span
    <3>3. seen' # Levels(shaft')
      BY <3>1, <3>2, OneStep
    <3>4. idle <= 1
      BY <2>2, <3>1 DEF SilenceInv
    <3> QED BY <3>1, <3>3, <3>4 DEF SilenceInv
  <2> QED BY <2>1, <2>2
<1>4. CASE Obstruct
  BY <1>4 DEF Obstruct, SilenceInv, Kept, CanMove, AtEnd, caller, hall
<1>5. CASE HallEdge \/ StartDone
  BY <1>5, SilenceZero DEF HallEdge, StartDone
<1>6. CASE Begins \/ Arrived
  BY <1>6 DEF Begins, Begin, Arrived, SilenceInv, Kept, CanMove, AtEnd, hall, world
<1>7. CASE Stop
  BY <1>7, SilenceZero DEF Stop, EndRun
<1>8. CASE Poll
  <2>1. CASE GoesOn
    BY <2>1 DEF GoesOn, PollRest, SilenceInv, Kept, CanMove, AtEnd
  <2> QED BY <1>8, <2>1, PollCases, SilenceZero DEF Ends, EndRun
<1>9. CASE Tick
  <2>1. ~moved' /\ seen' = Levels(shaft') /\ (Kept' <=> Kept) /\ (CanMove' <=> CanMove) /\ st = "Running"
    BY <1>9 DEF Tick, Kept, CanMove, AtEnd
  <2>2. ASSUME Kept, CanMove PROVE idle' <= 1
    <3>1. idle = 0
      BY <1>9, <2>2 DEF Tick, SilenceInv
    <3> QED BY <1>9, <3>1, Ages, Constants DEF Tick, Up
  <2> QED BY <2>1, <2>2 DEF SilenceInv
<1> QED BY <1>1, <1>2, <1>3, <1>4, <1>5, <1>6, <1>7, <1>8, <1>9, NextCases

LEMMA SilenceInvariant == Spec => []SilenceInv
<1>1. Init => SilenceInv
  BY DEF Init, SilenceInv
<1> QED BY <1>1, SilenceStep, ActuatorTypeCorrect, RegInvariant, PTL DEF Spec

\* Where a run finds the end of the stroke, no edge is on its way and the shaft
\* does not turn.
LEMMA EndIsQuiet ==
  ASSUME TypeOK, SilenceInv, HallTimeout >= 1, Kept, Ends("EndOfStroke")
  PROVE  seen = Levels(shaft) /\ ~CanMove /\ (Drives(pwm) => AtEnd)
<1>1. idle > 1
  BY Ages, Constants DEF Ends, Silent, TypeOK
<1>2. ~(idle <= 1)
  BY <1>1, Ages DEF TypeOK
<1>3. seen = Levels(shaft) /\ ~CanMove
  BY <1>2 DEF SilenceInv, Ends, PollRest
<1> QED BY <1>3 DEF Ends, CanMove

-----------------------------------------------------------------------------
(***************************************************************************)
(* The count                                                               *)
(***************************************************************************)
CountInv ==
  /\ lost = {} /\ pc # "down" => pos + Step(seen, Levels(shaft)) = shaft + origin
  /\ pc = "store" /\ "start" \notin lost => start.read = pos

LEMMA CountFresh ==
  ASSUME TypeOK, Fresh, pc' # "store"
  PROVE  CountInv'
<1>1. shaft \in Int
  BY DEF TypeOK, Span
<1> QED BY <1>1, OneStep DEF Fresh, CountInv

LEMMA CountPoll ==
  ASSUME TypeOK, SilenceInv, CountInv, HallTimeout >= 1, Poll
  PROVE  CountInv'
<1>1. pc' = "ready" /\ pc = "ready" /\ UNCHANGED <<seen, shaft>> /\ shaft \in Int
  BY DEF Poll, TypeOK, Span
<1>2. CASE UNCHANGED <<pos, origin, lost>>
  BY <1>1, <1>2 DEF CountInv
<1>3. ASSUME Ends("EndOfStroke"), pos' = 0, origin' = -shaft, lost' = lost \ {"start"} PROVE CountInv'
  <2>1. CASE lost' # {}
    BY <1>1, <2>1 DEF CountInv
  <2>2. CASE lost' = {}
    <3>1. Kept
      BY <1>3, <2>2 DEF Kept
    <3>2. seen = Levels(shaft)
      BY <1>3, <3>1, EndIsQuiet
    <3>3. Step(seen', Levels(shaft')) = 0
      BY <1>1, <3>2, OneStep
    <3> QED BY <1>1, <1>3, <3>3 DEF CountInv
  <2> QED BY <2>1, <2>2
<1> QED BY <1>2, <1>3, PollCases DEF GoesOn, Ends, Finish

LEMMA CountStep ==
  ASSUME TypeOK, SilenceInv, CountInv, HallTimeout >= 1, [Next]_vars
  PROVE  CountInv'
<1>1. CASE UNCHANGED vars
  BY <1>1 DEF CountInv, vars, caller, hall, world
<1>2. CASE Construct \/ Leave \/ Kill
  BY <1>2, CountFresh DEF Construct, Leave, Kill, Gone
<1>3. CASE Turn
  <2>1. pc' = pc /\ start' = start /\ pos' = pos /\ origin' = origin /\ seen' = seen
    BY <1>3 DEF Turn, caller, hall
  <2>2. "start" \notin lost' => "start" \notin lost
    BY <1>3 DEF Turn
  <2>3. ASSUME lost' = {}, pc' # "down" PROVE pos' + Step(seen', Levels(shaft')) = shaft' + origin'
    <3>1. seen = Levels(shaft) /\ lost = {} /\ shaft \in Int /\ pos \in Int /\ origin \in Int
      BY <1>3, <2>3 DEF Turn, TypeOK, Span
    <3>2. pos = shaft + origin
      BY <2>1, <2>3, <3>1, OneStep DEF CountInv
    <3>3. CASE shaft' = shaft + 1
      BY <2>1, <3>1, <3>2, <3>3, OneStep
    <3>4. CASE shaft' = shaft - 1
      BY <2>1, <3>1, <3>2, <3>4, OneStep
    <3> QED BY <1>3, <3>3, <3>4 DEF Turn
  <2> QED BY <2>1, <2>2, <2>3 DEF CountInv
<1>4. CASE Obstruct
  BY <1>4 DEF Obstruct, CountInv, caller, hall
<1>5. CASE HallEdge
  <2>1. pc' = pc /\ start' = start /\ origin' = origin /\ shaft' = shaft /\ seen' = Levels(shaft)
    BY <1>5 DEF HallEdge, caller
  <2>2. pos' = pos + Step(seen, Levels(shaft)) /\ shaft \in Int
    BY <1>5 DEF HallEdge, TypeOK, Span
  <2>3. lost' = {} => lost = {}
    BY <1>5 DEF HallEdge
  <2>4. pc = "store" => "start" \in lost'
    BY <1>5 DEF HallEdge
  <2>5. Step(seen, Levels(shaft)) \in Int /\ pos \in Int /\ Step(seen', Levels(shaft')) = 0
    BY <2>1, <2>2, OneStep, StepRange, LevelsRange DEF TypeOK
  <2> QED BY <2>1, <2>2, <2>3, <2>4, <2>5 DEF CountInv
<1>6. CASE StartDone
  <2>1. pc = "store" /\ pc' = "ready" /\ pos' = start.read /\ UNCHANGED <<seen, shaft, origin, lost>>
    BY <1>6 DEF StartDone
  <2> QED BY <2>1 DEF CountInv
<1>7. CASE Begins
  <2>1. /\ pc = "ready" /\ UNCHANGED <<pos, seen, shaft, origin, lost>>
        /\ start'.read = pos
    BY <1>7 DEF Begins, Begin, hall, world
  <2> QED BY <2>1 DEF CountInv
<1>8. CASE Arrived \/ Stop \/ Tick
  BY <1>8 DEF Arrived, Stop, Tick, CountInv, hall, world
<1>9. CASE Poll
  BY <1>9, CountPoll
<1> QED BY <1>1, <1>2, <1>3, <1>4, <1>5, <1>6, <1>7, <1>8, <1>9, NextCases

LEMMA CountInvariant == HallTimeout >= 1 => (Spec => []CountInv)
<1> SUFFICES ASSUME HallTimeout >= 1 PROVE Spec => []CountInv
  OBVIOUS
<1>1. Init => CountInv
  BY DEF Init, CountInv
<1>2. TypeOK /\ SilenceInv /\ CountInv /\ [Next]_vars => CountInv'
  BY CountStep
<1> QED BY <1>1, <1>2, ActuatorTypeCorrect, SilenceInvariant, PTL DEF Spec

\* If the hall timeout is a tick at least, the count is the position of the shaft
\* up to where it began, unless an edge fell into one of the two gaps.
THEOREM CountIsAlwaysExact == HallTimeout >= 1 => (Spec => []CountIsExact)
<1>1. TypeOK /\ CountInv => CountIsExact
  <2> SUFFICES ASSUME TypeOK, CountInv, pc = "ready", lost = {}, seen = Levels(shaft)
               PROVE  pos = shaft + origin
    BY DEF CountIsExact
  <2>1. shaft \in Int /\ pos \in Int
    BY DEF TypeOK, Span
  <2> QED BY <2>1, OneStep DEF CountInv
<1> QED BY <1>1, ActuatorTypeCorrect, CountInvariant, PTL

-----------------------------------------------------------------------------
(***************************************************************************)
(* The stroke.  The motor is on, at full duty and the right way round, for *)
(* as long as a blocking call waits, so that a silent encoder means an end *)
(* of the stroke; the run that measures starts with the count at its RET   *)
(* end.                                                                    *)
(***************************************************************************)
Measures == job = "calExt" \/ (job = "calRet" /\ st # "Running") \/ (pc = "store" /\ start.job = "calExt")

JobInv ==
  /\ pc = "store" /\ start.job # "free" => start.duty = FullPeriod /\ (start.ret <=> start.job # "calExt")
  /\ st = "Running" /\ job # "free" =>
       pwm.enabled /\ pwm.duty = FullPeriod /\ out = IF job = "calExt" THEN "ext" ELSE "ret"
  /\ job # "free" => pc # "down"
  /\ Kept /\ Measures => origin = 0

\* A run of a blocking call that finds the end of the stroke is at that end.
LEMMA EndIsTheEnd ==
  ASSUME TypeOK, RegInv, SilenceInv, JobInv, HallTimeout >= 1, Kept, Ends("EndOfStroke"), job # "free"
  PROVE  shaft = IF job = "calExt" THEN Stroke ELSE 0
<1>1. pc = "ready" /\ st = "Running"
  BY DEF Ends, PollRest
<1>2. pwm.enabled /\ pwm.duty = FullPeriod /\ pwm.polarity = "normal"
  BY <1>1 DEF JobInv, RegInv
<1>3. Drives(pwm)
  BY <1>2, Constants DEF Drives
<1>4. AtEnd
  BY <1>3, EndIsQuiet
<1> QED BY <1>1, <1>4 DEF AtEnd, JobInv

LEMMA JobFree ==
  ASSUME job' = "free", pc' # "store"
  PROVE  JobInv'
  BY DEF JobInv, Measures

LEMMA JobStartDone ==
  ASSUME TypeOK, RegInv, JobInv, StartDone
  PROVE  JobInv'
<1>1. /\ pc = "store" /\ pc' = "ready" /\ st' = "Running" /\ job' = start.job
      /\ out' = (IF start.ret THEN "ret" ELSE "ext")
      /\ UNCHANGED <<origin, lost>>
  BY DEF StartDone
<1>2. ASSUME job' # "free"
      PROVE  pwm'.enabled /\ pwm'.duty = FullPeriod /\ out' = IF job' = "calExt" THEN "ext" ELSE "ret"
  <2>1. start.duty = FullPeriod /\ (start.ret <=> job' # "calExt")
    BY <1>1, <1>2 DEF JobInv
  <2>2. PICK z : z = PutDuty(pwm, start.duty)
    OBVIOUS
  <2>3. pwm.period = FullPeriod /\ pwm \in Registers
    BY <1>1 DEF RegInv, TypeOK
  <2>4. z \in Registers /\ z.period = FullPeriod /\ z.duty = FullPeriod
    BY <2>1, <2>2, <2>3, Duty, Duties, Constants
  <2>5. pwm' = PutEnable(z, TRUE)
    BY <2>2 DEF StartDone
  <2>6. pwm'.duty = FullPeriod /\ pwm'.enabled = TRUE
    <3>1. PICK q : q = PutEnable(z, TRUE)
      OBVIOUS
    <3>2. q.duty = z.duty /\ q.enabled = IF z.period # 0 THEN TRUE ELSE z.enabled
      BY <2>4, <3>1, Enable
    <3>3. z.period # 0
      BY <2>4, Constants
    <3> QED BY <2>4, <2>5, <3>1, <3>2, <3>3
  <2> QED BY <1>1, <2>1, <2>6
<1>3. Kept' /\ Measures' => origin' = 0
  BY <1>1 DEF JobInv, Measures, Kept
<1> QED BY <1>1, <1>2, <1>3 DEF JobInv

LEMMA JobPoll ==
  ASSUME TypeOK, RegInv, SilenceInv, JobInv, HallTimeout >= 1, Poll
  PROVE  JobInv'
<1>1. CASE GoesOn
  BY <1>1 DEF GoesOn, PollRest, JobInv, Measures, Kept
<1>2. ASSUME NEW o \in State, Ends(o) PROVE JobInv'
  <2>1. pc' = "ready" /\ st' = o /\ o # "Running"
    BY <1>2 DEF Ends, PollRest, EndRun
  <2>2. CASE job = "calRet" /\ o = "EndOfStroke"
    <3>1. job' = "calRet" /\ origin' = -shaft /\ lost' = lost \ {"start"}
      BY <1>2, <2>2 DEF Ends, Finish
    <3>2. Kept' => shaft = 0
      BY <1>2, <2>2, <3>1, EndIsTheEnd DEF Kept
    <3> QED BY <2>1, <3>1, <3>2 DEF JobInv
  <2>3. CASE ~(job = "calRet" /\ o = "EndOfStroke")
    BY <1>2, <2>1, <2>3, JobFree DEF Ends, Finish
  <2> QED BY <2>2, <2>3
<1> QED BY <1>1, <1>2, PollCases

LEMMA JobStep ==
  ASSUME TypeOK, RegInv, SilenceInv, JobInv, HallTimeout >= 1, [Next]_vars
  PROVE  JobInv'
<1>1. CASE UNCHANGED vars
  BY <1>1 DEF JobInv, Measures, Kept, vars, caller, hall, world
<1>2. CASE Construct \/ Leave \/ Kill
  BY <1>2, JobFree DEF Construct, Leave, Kill, Gone, Fresh
<1>3. CASE Turn \/ Obstruct \/ HallEdge \/ Tick
  <2>1. UNCHANGED <<pc, start, st, job, pwm, out, origin>>
    BY <1>3 DEF Turn, Obstruct, HallEdge, Tick, caller
  <2>2. Kept' => Kept
    BY <1>3 DEF Turn, Obstruct, HallEdge, Tick, Kept
  <2> QED BY <2>1, <2>2 DEF JobInv, Measures
<1>4. CASE StartDone
  BY <1>4, JobStartDone
<1>5. CASE Begins
  <2>1. PICK ret \in BOOLEAN, duty \in 0 .. FullPeriod, g \in Goal, j \in Job :
          /\ pc = "ready" /\ Begin(ret, duty, g, j)
          /\ j # "calExt" => job = "free"
          /\ j = "calExt" => job = "calRet" /\ st = "EndOfStroke"
          /\ j # "free" => duty = FullPeriod /\ (ret <=> j # "calExt")
    BY <1>5 DEF Begins
  <2>2. /\ UNCHANGED <<pwm, out, st, job, origin, lost>> /\ pc' = "store"
        /\ start' = [ret |-> ret, duty |-> duty, goal |-> g, job |-> j, read |-> pos]
    BY <2>1 DEF Begin, world
  <2>3. start'.job = j /\ start'.duty = duty /\ start'.ret = ret
    BY <2>2
  <2>4. Kept' /\ Measures' => Kept /\ Measures
    BY <2>1, <2>2, <2>3 DEF Kept, Measures
  <2> QED BY <2>1, <2>2, <2>3, <2>4 DEF JobInv
<1>6. CASE Arrived \/ Stop
  BY <1>6, JobFree DEF Arrived, Stop
<1>7. CASE Poll
  BY <1>7, JobPoll
<1> QED BY <1>1, <1>2, <1>3, <1>4, <1>5, <1>6, <1>7, NextCases

LEMMA JobInvariant == HallTimeout >= 1 => (Spec => []JobInv)
<1> SUFFICES ASSUME HallTimeout >= 1 PROVE Spec => []JobInv
  OBVIOUS
<1>1. Init => JobInv
  BY DEF Init, JobInv, Measures
<1>2. TypeOK /\ RegInv /\ SilenceInv /\ JobInv /\ [Next]_vars => JobInv'
  BY JobStep
<1> QED BY <1>1, <1>2, ActuatorTypeCorrect, RegInvariant, SilenceInvariant, PTL DEF Spec

\* If the hall timeout is a tick at least, what calibrate() measures is the length
\* of the stroke, unless an edge fell into one of the two gaps.
THEOREM StrokeIsAlwaysMeasured == HallTimeout >= 1 => (Spec => StrokeIsMeasured)
<1> SUFFICES ASSUME HallTimeout >= 1 PROVE Spec => StrokeIsMeasured
  OBVIOUS
<1> DEFINE Measured == stroke' > 0 /\ stroke' # stroke /\ lost = {} => stroke' = Stroke
<1>1. TypeOK /\ RegInv /\ SilenceInv /\ CountInv /\ JobInv /\ [Next]_vars => Measured
  <2> SUFFICES ASSUME TypeOK, RegInv, SilenceInv, CountInv, JobInv, [Next]_vars,
                      stroke' > 0, stroke' # stroke, lost = {}
               PROVE  stroke' = Stroke
    OBVIOUS
  <2>1. stroke' # 0
    OBVIOUS
  <2>2. Poll
    BY <2>1, NextCases DEF vars, caller, Construct, Turn, Obstruct, HallEdge, StartDone, Begins, Begin,
       Arrived, Stop, Tick, Leave, Kill, Gone, Fresh
  <2>3. PICK o \in State : Ends(o)
    BY <2>2, PollCases DEF GoesOn
  <2>4. job = "calExt" /\ o = "EndOfStroke" /\ stroke' = pos
    BY <2>3 DEF Ends, Finish
  <2>5. Kept /\ pc = "ready"
    BY <2>3 DEF Kept, Ends, PollRest
  <2>6. seen = Levels(shaft) /\ shaft = Stroke
    BY <2>3, <2>4, <2>5, EndIsQuiet, EndIsTheEnd
  <2>7. origin = 0
    BY <2>4, <2>5 DEF JobInv, Measures
  <2>8. Step(seen, Levels(shaft)) = 0
    BY <2>6, OneStep, Constants
  <2>9. pos + 0 = Stroke + 0 /\ pos \in Int
    BY <2>5, <2>6, <2>7, <2>8 DEF CountInv, TypeOK
  <2> QED BY <2>4, <2>9, Constants
<1>2. [](TypeOK /\ RegInv /\ SilenceInv /\ CountInv /\ JobInv) /\ [][Next]_vars => StrokeIsMeasured
  BY <1>1, PTL DEF StrokeIsMeasured
<1> QED BY <1>2, ActuatorTypeCorrect, RegInvariant, SilenceInvariant, CountInvariant, JobInvariant, PTL DEF Spec
=================================================================================
