----------------------------- MODULE RobotProofs -----------------------------
(***************************************************************************)
(* Theorems about Robot, for every number of axes, every set of commands,  *)
(* every limit and period, whatever frames and answers are lost, and       *)
(* whether or not the process may be killed; the theorems that need a bus  *)
(* without losses, or a process that nobody kills, say so.                 *)
(***************************************************************************)
EXTENDS Robot, TLAPS

(***************************************************************************)
(* Lemmas about the operations of Drive.                                   *)
(***************************************************************************)
\* The assumption on the constants, number by number.
LEMMA ConstantTypes ==
  /\ N \in Nat /\ N > 0 /\ MaxRpm \in Nat /\ MaxRpm > 0 /\ Creep \in Nat /\ Creep > 0
  /\ Settle \in Nat /\ Settle > 0 /\ DecelSecs \in Nat /\ DecelSecs > 0
  /\ DecelStep \in Nat /\ DecelStep > 0 /\ IdleDivider \in Nat /\ IdleDivider > 0
  /\ FailLimit \in Nat /\ FailLimit > 0 /\ OverLimit \in Nat /\ OverLimit > 0
  /\ MotorTimeout \in Nat /\ MotorTimeout > 0
  /\ Rpms \subseteq [Axes -> Int] /\ SilentSets \subseteq SUBSET Axes
BY DriveAssumption DEF DriveAssumption

LEMMA ReportedType == Reported \subseteq [moves : BOOLEAN, current : {"none", "low", "high"}]
<1>1. (Abs(motor[cursor]) > 5) \in BOOLEAN
  OBVIOUS
<1>2. Feedback \in [BOOLEAN -> SUBSET [moves : BOOLEAN, current : {"none", "low", "high"}]]
  BY DriveAssumption DEF DriveAssumption
<1> QED BY <1>1, <1>2, Zenon DEF Reported

LEMMA StillType == Still \in [Axes -> Int]
BY DEF Still

LEMMA ClampType == ASSUME NEW v \in Int PROVE Clamp(v) \in Int
BY ConstantTypes DEF Clamp

\* A speed that was clamped is within the limit.
LEMMA ClampBounds == ASSUME NEW v \in Int PROVE Abs(Clamp(v)) <= MaxRpm
BY ConstantTypes DEF Clamp, Abs

\* Frames only ever carry integers to axes, whichever of them get lost.
LEMMA SendType ==
  ASSUME DriveTypeOK, NEW S \in SUBSET Axes, NEW rpm \in [Axes -> Int], Send(S, rpm)
  PROVE  motor' \in [Axes -> Int] /\ since_cmd' \in [Axes -> 0 .. Settle]
<1>1. motor' \in [Axes -> Int]
  BY DEF Send, DriveTypeOK
<1>2. since_cmd' \in [Axes -> 0 .. Settle]
  BY ConstantTypes DEF Send, DriveTypeOK
<1> QED BY <1>1, <1>2

LEMMA SetWheelRpmType ==
  ASSUME DriveTypeOK, NEW rpm \in Rpms, SetWheelRpm(rpm)
  PROVE  DriveTypeOK'
<1>1. rpm \in [Axes -> Int]
  BY ConstantTypes
<1>2. [i \in Axes |-> Clamp(rpm[i])] \in [Axes -> Int]
  BY <1>1, ClampType
<1>3. motor' \in [Axes -> Int] /\ since_cmd' \in [Axes -> 0 .. Settle]
  BY <1>2, SendType DEF SetWheelRpm
<1> QED
  BY <1>1, <1>3 DEF SetWheelRpm, DriveTypeOK, decelVars, wheelVars

LEMMA DecelOffType == DecelOff => /\ decel_active' \in BOOLEAN
                                  /\ decel_from' \in [Axes -> Int]
                                  /\ decel_age' \in 0 .. DecelSecs
                                  /\ decel_last' \in 0 .. DecelStep
<1>1. 0 \in 0 .. DecelSecs /\ 0 \in 0 .. DecelStep
  BY ConstantTypes
<1>2. FALSE \in BOOLEAN
  OBVIOUS
<1> QED BY <1>1, <1>2, StillType DEF DecelOff

LEMMA DriveStopType ==
  ASSUME DriveTypeOK, DriveStop
  PROVE  DriveTypeOK'
<1>1. motor' \in [Axes -> Int] /\ since_cmd' \in [Axes -> 0 .. Settle]
  BY StillType, SendType DEF DriveStop
<1> QED
  BY <1>1, StillType, DecelOffType DEF DriveStop, DriveTypeOK, wheelVars

LEMMA DecelerateType ==
  ASSUME DriveTypeOK, Decelerate
  PROVE  DriveTypeOK'
<1>1. CASE \A i \in Axes : Abs(target[i]) < Creep
  BY <1>1, DriveStopType DEF Decelerate
<1>2. CASE ~ \A i \in Axes : Abs(target[i]) < Creep
  BY <1>2, ConstantTypes DEF Decelerate, DriveTypeOK, wheelVars
<1> QED BY <1>1, <1>2

-----------------------------------------------------------------------------
(***************************************************************************)
(* Drive::tick                                                             *)
(***************************************************************************)
LEMMA EasedType ==
  ASSUME DriveTypeOK, NEW i \in Axes
  PROVE  Eased(i) \in Int
<1> DEFINE rest == DecelSecs - decel_age
           top  == Abs(decel_from[i]) * rest * rest
           den  == DecelSecs * DecelSecs
<1>1. decel_from[i] \in Int /\ decel_age \in Int /\ DecelSecs \in Nat /\ DecelSecs > 0
  BY ConstantTypes DEF DriveTypeOK
<1>2. rest \in Int /\ Abs(decel_from[i]) \in Int
  BY <1>1 DEF Abs
<1>3. top \in Int /\ den \in Nat
  BY <1>1, <1>2
<1>4. den > 0
  BY <1>1
<1>5. top \div den \in Int
  <2> HIDE DEF top, den
  <2> QED BY <1>3, <1>4
<1>6. Creep \in Int
  BY ConstantTypes
<1> QED
  BY <1>1, <1>5, <1>6 DEF Eased

LEMMA TickTargetType ==
  ASSUME DriveTypeOK
  PROVE  TickTarget \in [Axes -> Int] /\ TickSends \in SUBSET Axes
<1>1. \A i \in Axes : Eased(i) \in Int
  BY EasedType
<1>2. \A i \in Axes : target[i] \in Int
  BY DEF DriveTypeOK
<1>3. TickTarget \in [Axes -> Int]
  BY <1>1, <1>2 DEF TickTarget
<1>4. TickSends \in SUBSET Axes
  BY DEF TickSends, Stepped
<1> QED BY <1>3, <1>4

LEMMA TickDecelType ==
  ASSUME DriveTypeOK, TickDecel
  PROVE  /\ motor' \in [Axes -> Int] /\ since_cmd' \in [Axes -> 0 .. Settle]
         /\ target' \in [Axes -> Int]
         /\ decel_active' \in BOOLEAN /\ decel_from' \in [Axes -> Int]
         /\ decel_age' \in 0 .. DecelSecs /\ decel_last' \in 0 .. DecelStep
<1>1. TickTarget \in [Axes -> Int] /\ TickSends \in SUBSET Axes
  BY TickTargetType
<1>2. motor' \in [Axes -> Int] /\ since_cmd' \in [Axes -> 0 .. Settle]
  BY <1>1, SendType DEF TickDecel
<1>3. target' \in [Axes -> Int]
  BY <1>1 DEF TickDecel
<1>4. CASE DecelEnds
  BY <1>2, <1>3, <1>4, DecelOffType DEF TickDecel
<1>5. CASE ~DecelEnds
  BY <1>2, <1>3, <1>5, ConstantTypes DEF TickDecel, DriveTypeOK
<1> QED BY <1>4, <1>5

LEMMA NextCursorType == ASSUME DriveTypeOK PROVE NextCursor \in Axes
BY ConstantTypes DEF DriveTypeOK, NextCursor, Axes

LEMMA TickOkType ==
  ASSUME DriveTypeOK, TickOk
  PROVE  DriveTypeOK'
<1>1. CASE TickIdle
  BY <1>1, TickDecelType, ConstantTypes DEF TickIdle, DriveTypeOK, wheelVars
<1>2. CASE PollSettling
  BY <1>2, TickDecelType, NextCursorType, ConstantTypes DEF PollSettling, DriveTypeOK
<1>3. CASE PollMiss
  BY <1>3, TickDecelType, NextCursorType, ConstantTypes DEF PollMiss, DriveTypeOK
<1>4. ASSUME NEW f \in Reported, PollOk(f) PROVE DriveTypeOK'
  <2>1. f.moves \in BOOLEAN /\ f.current \in {"none", "low", "high"}
    BY ReportedType
  <2>2. OverAfter(f.current) \in 0 .. OverLimit
    BY <1>4, <2>1, ConstantTypes DEF OverAfter, PollOk, DriveTypeOK
  <2>3. over' \in [Axes -> 0 .. OverLimit]
    BY <1>4, <2>2 DEF PollOk, DriveTypeOK
  <2> QED
    BY <1>4, <2>1, <2>3, TickDecelType, NextCursorType, ConstantTypes
    DEF PollOk, DriveTypeOK
<1> QED BY <1>1, <1>2, <1>3, <1>4 DEF TickOk

LEMMA TickStopType ==
  ASSUME DriveTypeOK, TickStop
  PROVE  /\ motor' \in [Axes -> Int] /\ since_cmd' \in [Axes -> 0 .. Settle]
         /\ target' \in [Axes -> Int]
         /\ decel_active' \in BOOLEAN /\ decel_from' \in [Axes -> Int]
         /\ decel_age' \in 0 .. DecelSecs /\ decel_last' \in 0 .. DecelStep
         /\ idle_skip' \in 0 .. IdleDivider - 1 /\ cursor' \in Axes
         /\ spinning' \in [Axes -> BOOLEAN] /\ silent' \in SUBSET Axes
<1>1. motor' \in [Axes -> Int] /\ since_cmd' \in [Axes -> 0 .. Settle]
  BY StillType, SendType DEF TickStop
<1>2. DecelOff /\ target' = Still /\ silent' = silent
  BY DEF TickStop
<1>3. idle_skip' \in 0 .. IdleDivider - 1 /\ cursor' \in Axes
  BY NextCursorType, ConstantTypes DEF TickStop
<1>4. spinning' \in [Axes -> BOOLEAN]
  BY DEF TickStop, DriveTypeOK
<1> QED
  BY <1>1, <1>2, <1>3, <1>4, StillType, DecelOffType DEF DriveTypeOK

LEMMA TickFailType ==
  ASSUME DriveTypeOK, TickFail
  PROVE  DriveTypeOK'
<1>1. CASE PollOver
  BY <1>1, TickStopType, ConstantTypes DEF PollOver, DriveTypeOK
<1>2. CASE PollDead
  BY <1>2, TickStopType, ConstantTypes DEF PollDead, DriveTypeOK
<1> QED BY <1>1, <1>2 DEF TickFail

LEMMA DriveAgesType ==
  ASSUME DriveTypeOK, NEW k \in Nat, DriveAges(k),
         UNCHANGED <<motor, silent, target, decel_active, decel_from, idle_skip, cursor,
                     alive, fails, over, spinning, overcurrent>>
  PROVE  DriveTypeOK'
<1>1. since_cmd' \in [Axes -> 0 .. Settle]
  BY ConstantTypes DEF DriveAges, DriveTypeOK, Least
<1>2. heard' \in [Axes -> 0 .. MotorTimeout + 1]
  BY ConstantTypes DEF DriveAges, DriveTypeOK, Least
<1>3. decel_age' \in 0 .. DecelSecs /\ decel_last' \in 0 .. DecelStep
  BY ConstantTypes DEF DriveAges, DriveTypeOK, Least
<1> QED BY <1>1, <1>2, <1>3 DEF DriveTypeOK

LEMMA FreshType ==
  /\ 0 \in 0 .. DecelSecs /\ 0 \in 0 .. DecelStep /\ 0 \in 0 .. IdleDivider - 1
  /\ 0 \in Axes /\ {} \in SUBSET Axes
  /\ [i \in Axes |-> Settle] \in [Axes -> 0 .. Settle]
  /\ [i \in Axes |-> FALSE] \in [Axes -> BOOLEAN]
  /\ [i \in Axes |-> 0] \in [Axes -> 0 .. FailLimit]
  /\ [i \in Axes |-> 0] \in [Axes -> 0 .. OverLimit]
  /\ [i \in Axes |-> 0] \in [Axes -> 0 .. MotorTimeout + 1]
  /\ FALSE \in BOOLEAN
<1>1. 0 \in Axes
  BY ConstantTypes DEF Axes
<1> QED BY <1>1, ConstantTypes

LEMMA NewDriveType ==
  ASSUME DriveTypeOK, NewDrive, UNCHANGED <<motor, silent>>
  PROVE  DriveTypeOK'
BY FreshType, StillType DEF NewDrive, DriveTypeOK

LEMMA DriveInitType == DriveInit => DriveTypeOK
BY FreshType, StillType DEF DriveInit, DriveTypeOK

-----------------------------------------------------------------------------
(***************************************************************************)
(* What brings the drive to rest, and what keeps it there.                 *)
(***************************************************************************)
LEMMA DriveStopRests == DriveStop => AtRest'
BY DEF DriveStop, DecelOff, AtRest

\* A drive at rest has no ramp to run: cmd/stop cuts it again.
LEMMA DecelerateRests ==
  ASSUME AtRest, Decelerate
  PROVE  AtRest'
<1>1. \A i \in Axes : Abs(target[i]) < Creep
  BY ConstantTypes DEF AtRest, Still, Abs
<1> QED BY <1>1, DriveStopRests DEF Decelerate

\* No poll, whatever it brings to light, sets a drive at rest in motion.
LEMMA TickRests ==
  ASSUME AtRest, TickOk \/ TickFail
  PROVE  AtRest'
<1>1. TickTarget = target /\ ~DecelEnds
  BY DEF AtRest, TickTarget, DecelEnds, DecelSteps, Stepped, Still
<1>2. TickDecel => AtRest'
  BY <1>1 DEF TickDecel, AtRest
<1>3. TickStop => AtRest'
  BY DEF TickStop, DecelOff, AtRest
<1> QED
  BY <1>2, <1>3 DEF TickOk, TickFail, TickIdle, PollSettling, PollMiss, PollOk,
                    PollOver, PollDead

\* A fault found by a poll leaves the drive at rest, whatever it was doing.
LEMMA TickFailRests == TickFail => AtRest'
BY DEF TickFail, PollOver, PollDead, TickStop, DecelOff, AtRest

-----------------------------------------------------------------------------
(***************************************************************************)
(* Frames.  Any of them may be missed; on a bus that loses none, what the  *)
(* motors were told and what target_ says agree.                           *)
(***************************************************************************)
\* target_ is what each motor was last told, up to the limit of what is sent.
Follows == \A i \in Axes : motor[i] \in {target[i], Clamp(target[i])}

LEMMA SendEither ==
  ASSUME DriveTypeOK, NEW S \in SUBSET Axes, NEW rpm, Send(S, rpm), NEW i \in Axes
  PROVE  motor'[i] = motor[i] \/ (i \in S /\ motor'[i] = rpm[i])
BY DEF Send

LEMMA SendAll ==
  ASSUME Losses = {{}}, NEW S \in SUBSET Axes, NEW rpm, Send(S, rpm)
  PROVE  motor' = [i \in Axes |-> IF i \in S THEN rpm[i] ELSE motor[i]]
BY DEF Send

LEMMA StopReaches ==
  ASSUME Losses = {{}}, Send(Axes, Still)
  PROVE  motor' = Still
<1>1. motor' = [i \in Axes |-> IF i \in Axes THEN Still[i] ELSE motor[i]]
  BY SendAll
<1> QED BY <1>1 DEF Still

LEMMA SetWheelRpmFollows ==
  ASSUME DriveTypeOK, Losses = {{}}, NEW rpm \in Rpms, SetWheelRpm(rpm)
  PROVE  Follows'
<1> DEFINE sent == [i \in Axes |-> Clamp(rpm[i])]
<1>1. motor' = [i \in Axes |-> IF i \in Axes THEN sent[i] ELSE motor[i]]
  BY SendAll DEF SetWheelRpm
<1>2. ASSUME NEW i \in Axes PROVE motor'[i] = Clamp(target'[i])
  BY <1>1 DEF SetWheelRpm
<1>3. \A i \in Axes : Clamp(target[i])' = Clamp(target'[i])
  BY DEF Clamp
<1> QED BY <1>2, <1>3 DEF Follows

LEMMA DriveStopFollows ==
  ASSUME Losses = {{}}, DriveStop
  PROVE  motor' = Still /\ target' = Still
BY StopReaches DEF DriveStop

LEMMA StillFollows == motor = Still /\ target = Still => Follows
BY DEF Follows

LEMMA TickFollows ==
  ASSUME DriveTypeOK, Losses = {{}}, Follows, TickDecel
  PROVE  Follows'
<1>1. motor' = [i \in Axes |-> IF i \in TickSends THEN TickTarget[i] ELSE motor[i]]
  BY TickTargetType, SendAll DEF TickDecel
<1>2. target' = TickTarget
  BY DEF TickDecel
<1>3. ASSUME NEW i \in Axes PROVE motor'[i] \in {target'[i], Clamp(target'[i])}
  <2>1. CASE i \in TickSends
    BY <1>1, <1>2, <2>1
  <2>2. CASE i \notin TickSends
    <3>1. motor'[i] = motor[i]
      BY <1>1, <2>2
    <3>2. target'[i] = target[i]
      BY <1>2, <2>2 DEF TickTarget, TickSends
    <3> QED BY <3>1, <3>2 DEF Follows
  <2> QED BY <2>1, <2>2
<1>4. \A i \in Axes : Clamp(target[i])' = Clamp(target'[i])
  BY DEF Clamp
<1> QED BY <1>3, <1>4 DEF Follows

\* What a tick leaves of the agreement, and of the rest
LEMMA TicksFollow ==
  ASSUME DriveTypeOK, Losses = {{}}, Follows, TickOk \/ TickFail
  PROVE  Follows'
<1>1. CASE TickDecel
  BY <1>1, TickFollows
<1>2. CASE TickStop
  <2>1. (motor = Still /\ target = Still)'
    BY <1>2, StopReaches DEF TickStop, Still
  <2> QED BY <2>1, StillFollows, PTL
<1> QED BY <1>1, <1>2 DEF TickOk, TickFail, TickIdle, PollSettling, PollMiss, PollOk,
                          PollOver, PollDead

LEMMA TicksStayStill ==
  ASSUME DriveTypeOK, Losses = {{}}, AtRest, motor = Still, TickOk \/ TickFail
  PROVE  motor' = Still
<1>1. TickSends = {} /\ TickTarget = Still
  BY DEF AtRest, TickSends, TickTarget, DecelEnds, DecelSteps, Stepped, Still
<1>2. CASE TickDecel
  <2>1. motor' = [i \in Axes |-> IF i \in TickSends THEN TickTarget[i] ELSE motor[i]]
    BY <1>2, TickTargetType, SendAll DEF TickDecel
  <2> QED BY <1>1, <2>1 DEF Still
<1>3. CASE TickStop
  BY <1>3, StopReaches DEF TickStop
<1> QED BY <1>2, <1>3 DEF TickOk, TickFail, TickIdle, PollSettling, PollMiss, PollOk,
                          PollOver, PollDead

\* Only a poll that ends in stop() declares an axis dead or overloaded.
LEMMA OnlyFailFinds ==
  ASSUME DriveTypeOK, TickOk, NEW i \in Axes
  PROVE  ~(alive[i] /\ ~alive'[i]) /\ ~(over[i] < OverLimit /\ over'[i] = OverLimit)
<1>1. CASE UNCHANGED <<alive, over>>
  BY <1>1 DEF DriveTypeOK
<1>2. ASSUME NEW f \in Reported, PollOk(f)
      PROVE  ~(alive[i] /\ ~alive'[i]) /\ ~(over[i] < OverLimit /\ over'[i] = OverLimit)
  <2>1. alive[i] => alive'[i]
    BY <1>2 DEF PollOk, DriveTypeOK
  <2>2. f.current \in {"none", "low", "high"}
    BY ReportedType
  <2>3. over[cursor] < OverLimit => OverAfter(f.current) # OverLimit
    BY <1>2, <2>2, ConstantTypes DEF PollOk, OverAfter, DriveTypeOK
  <2>4. over' = [over EXCEPT ![cursor] = OverAfter(f.current)]
    BY <1>2 DEF PollOk
  <2>5. ~(over[i] < OverLimit /\ over'[i] = OverLimit)
    <3>1. CASE i = cursor
      BY <2>3, <2>4, <3>1 DEF DriveTypeOK
    <3>2. CASE i # cursor
      BY <2>4, <3>2 DEF DriveTypeOK
    <3> QED BY <3>1, <3>2
  <2> QED BY <2>1, <2>5
<1> QED BY <1>1, <1>2 DEF TickOk, TickIdle, PollSettling, PollMiss, wheelVars

LEMMA FailStops ==
  ASSUME Losses = {{}}, TickFail
  PROVE  motor' = Still /\ target' = Still /\ ~decel_active'
BY StopReaches DEF TickFail, PollOver, PollDead, TickStop, DecelOff

-----------------------------------------------------------------------------
(***************************************************************************)
(* The ramp                                                                *)
(***************************************************************************)
\* A square that is scaled down stays below what it scales.
LEMMA ScaledDown ==
  ASSUME NEW a \in Nat, NEW rest \in Nat, NEW whole \in Nat, whole > 0, rest <= whole
  PROVE  (a * rest * rest) \div (whole * whole) <= a
<1>1. rest * rest <= whole * whole
  <2>1. rest * rest <= rest * whole
    OBVIOUS
  <2>2. rest * whole <= whole * whole
    OBVIOUS
  <2>3. rest * rest \in Nat /\ rest * whole \in Nat /\ whole * whole \in Nat
    OBVIOUS
  <2> QED BY <2>1, <2>2, <2>3
<1> DEFINE l == rest * rest
           w == whole * whole
<1>2. l \in Nat /\ w \in Nat /\ w > 0 /\ l <= w
  BY <1>1
<1>3. a * rest * rest = a * l
  OBVIOUS
<1> HIDE DEF l, w
<1>4. a * l <= a * w /\ a * l \in Nat /\ a * w \in Nat
  BY <1>2
<1> DEFINE top == a * l
           q == top \div w
<1>5. q \in Int /\ q * w <= top
  BY <1>2, <1>4
<1>6. q * w <= a * w
  BY <1>2, <1>4, <1>5
<1>7. q <= a
  <2> HIDE DEF q
  <2>1. CASE q >= a + 1
    <3>1. (q - a) * w >= w
      BY <1>2, <1>5, <2>1
    <3>2. (q - a) * w = q * w - a * w
      BY <1>2, <1>5
    <3> QED BY <1>2, <1>4, <1>5, <1>6, <3>1, <3>2
  <2> QED BY <1>5, <2>1
<1> QED BY <1>3, <1>7 DEF l, w

\* A step of the ramp keeps the sense of the speed it started from, and does
\* not exceed it.
LEMMA EasedBounds ==
  ASSUME DriveTypeOK, NEW i \in Stepped
  PROVE  /\ decel_active /\ decel_from[i] \in Int
         /\ Eased(i) \in Int /\ Abs(Eased(i)) <= Abs(decel_from[i])
         /\ decel_from[i] > 0 => Eased(i) > 0
         /\ ~(decel_from[i] > 0) => decel_from[i] < 0 /\ Eased(i) < 0
<1> DEFINE from == decel_from[i]
           rest == DecelSecs - decel_age
           mag  == (Abs(from) * rest * rest) \div (DecelSecs * DecelSecs)
           v    == IF mag < Creep THEN Creep ELSE mag
<1>1. i \in Axes /\ decel_active /\ decel_age < DecelSecs /\ Abs(from) >= Creep
  BY DEF Stepped, DecelSteps
<1>2. from \in Int /\ Abs(from) \in Nat /\ Creep \in Nat /\ Creep > 0
  BY <1>1, ConstantTypes DEF DriveTypeOK, Abs
<1>3. rest \in Nat /\ DecelSecs \in Nat /\ DecelSecs > 0 /\ rest <= DecelSecs
  BY <1>1, ConstantTypes DEF DriveTypeOK
<1>4. mag <= Abs(from)
  BY <1>2, <1>3, ScaledDown
<1>5. mag \in Int
  <2> DEFINE top == Abs(from) * rest * rest
             den == DecelSecs * DecelSecs
  <2>1. top \in Int /\ den \in Nat /\ den > 0
    BY <1>2, <1>3
  <2> HIDE DEF top, den
  <2>2. top \div den \in Int
    BY <2>1
  <2> QED BY <2>2 DEF top, den
<1>6. Eased(i) = IF from > 0 THEN v ELSE -v
  BY DEF Eased
<1> HIDE DEF mag, from, rest
<1>7. v \in Int /\ v > 0 /\ v <= Abs(from)
  BY <1>1, <1>2, <1>4, <1>5
<1> HIDE DEF v
<1>8. Eased(i) \in Int /\ Abs(Eased(i)) <= Abs(from)
  <2>1. Abs(v) = v /\ Abs(-v) = v
    BY <1>7 DEF Abs
  <2>2. Eased(i) = v \/ Eased(i) = -v
    BY <1>6
  <2> QED BY <1>7, <2>1, <2>2
<1>9. /\ from > 0 => Eased(i) > 0
      /\ ~(from > 0) => from < 0 /\ Eased(i) < 0
  BY <1>1, <1>2, <1>6, <1>7 DEF Abs
<1> QED BY <1>1, <1>2, <1>8, <1>9 DEF from

\* What a tick may tell a motor, whichever frames are lost
Gentle(i) ==
  \/ motor'[i] \in {0, motor[i]}
  \/ /\ decel_active
     /\ motor'[i] * decel_from[i] > 0
     /\ Abs(motor'[i]) <= Abs(decel_from[i])

LEMMA StopIsGentle ==
  ASSUME DriveTypeOK, Send(Axes, Still), NEW i \in Axes
  PROVE  Gentle(i)
<1>1. motor'[i] = motor[i] \/ motor'[i] = Still[i]
  BY SendEither
<1> QED BY <1>1 DEF Gentle, Still

LEMMA TicksAreGentle ==
  ASSUME DriveTypeOK, TickOk \/ TickFail, NEW i \in Axes
  PROVE  Gentle(i)
<1>1. CASE TickDecel
  <2>1. motor'[i] = motor[i] \/ (i \in TickSends /\ motor'[i] = TickTarget[i])
    BY <1>1, TickTargetType, SendEither DEF TickDecel
  <2>2. CASE motor'[i] = motor[i]
    BY <2>2 DEF Gentle
  <2>3. CASE i \in TickSends /\ motor'[i] = TickTarget[i] /\ DecelEnds
    BY <2>3 DEF TickTarget, Gentle
  <2>4. CASE i \in TickSends /\ motor'[i] = TickTarget[i] /\ ~DecelEnds
    <3>1. i \in Stepped /\ motor'[i] = Eased(i)
      BY <2>4 DEF TickTarget, TickSends
    <3>2. motor'[i] * decel_from[i] > 0
      <4>1. CASE decel_from[i] > 0
        BY <3>1, <4>1, EasedBounds
      <4>2. CASE ~(decel_from[i] > 0)
        BY <3>1, <4>2, EasedBounds
      <4> QED BY <4>1, <4>2
    <3> QED BY <3>1, <3>2, EasedBounds DEF Gentle
  <2> QED BY <2>1, <2>2, <2>3, <2>4
<1>2. CASE TickStop
  BY <1>2, StopIsGentle DEF TickStop
<1> QED BY <1>1, <1>2 DEF TickOk, TickFail, TickIdle, PollSettling, PollMiss, PollOk,
                          PollOver, PollDead

-----------------------------------------------------------------------------
(***************************************************************************)
(* The constants and types of Robot.                                       *)
(***************************************************************************)
LEMMA RobotConstants ==
  /\ Watchdog \in Nat /\ MaxLag \in Nat /\ MaxLag > 0
  /\ Killable \in BOOLEAN /\ MayLeave \in BOOLEAN
  /\ Leds \subseteq BOOLEAN
BY RobotAssumption DEF RobotAssumption

LEMMA ReasonType ==
  ASSUME NEW kind \in {"none", "command", "overcurrent", "dead", "exit"},
         NEW S \in SUBSET Axes
  PROVE  [kind |-> kind, axes |-> S] \in Reason
BY DEF Reason

LEMMA AgeType == 0 \in 0 .. MaxAge
BY RobotConstants DEF MaxAge

LEMMA UnchangedDriveType == DriveTypeOK /\ UNCHANGED driveVars => DriveTypeOK'
BY DEF DriveTypeOK, driveVars, decelVars, wheelVars

LEMMA EStopType ==
  ASSUME TypeOK, NEW why \in Reason, EStop(why)
  PROVE  /\ DriveTypeOK'
         /\ drive_ok' \in BOOLEAN /\ estopped' \in BOOLEAN /\ tripped' \in BOOLEAN
         /\ had_command' \in BOOLEAN /\ act_running' \in BOOLEAN /\ pwm' \in BOOLEAN
         /\ cmd_age' \in 0 .. MaxAge
         /\ reason' \in Reason
<1> USE DEF TypeOK, RobotTypeOK
<1>1. DriveTypeOK'
  BY DriveStopType, UnchangedDriveType DEF EStop
<1>2. reason' \in Reason
  BY DEF EStop
<1> QED BY <1>1, <1>2 DEF EStop

-----------------------------------------------------------------------------
(***************************************************************************)
(* Every step preserves the type invariant.                                *)
(***************************************************************************)
LEMMA CommandsType == ASSUME TypeOK, Commands PROVE TypeOK'
<1> USE DEF TypeOK, RobotTypeOK, gates, actuator, world, Handling
<1>1. ASSUME NEW rpm \in Rpms, WheelCommand(rpm) PROVE TypeOK'
  BY <1>1, SetWheelRpmType, AgeType DEF WheelCommand, Accept
<1>2. ASSUME NEW duty \in {0, 1}, ActuatorCommand(duty) PROVE TypeOK'
  <2>1. (duty > 0) \in BOOLEAN
    OBVIOUS
  <2> QED BY <1>2, <2>1, UnchangedDriveType, AgeType DEF ActuatorCommand, Accept
<1>3. ASSUME StopCommand PROVE TypeOK'
  BY <1>3, DecelerateType, AgeType DEF StopCommand
<1>4. ASSUME EStopCommand PROVE TypeOK'
  <2>1. [kind |-> "command", axes |-> {}] \in Reason
    BY ReasonType
  <2> QED BY <1>4, <2>1, EStopType DEF EStopCommand
<1>5. ASSUME ResetCommand PROVE TypeOK'
  <2>1. NoReason \in Reason
    BY ReasonType DEF NoReason
  <2> QED BY <1>5, <2>1, UnchangedDriveType, AgeType DEF ResetCommand
<1>6. ASSUME NEW on \in Leds, LedCommand(on) PROVE TypeOK'
  BY <1>6, UnchangedDriveType, RobotConstants DEF LedCommand
<1> QED BY <1>1, <1>2, <1>3, <1>4, <1>5, <1>6 DEF Commands

LEMMA TickType == ASSUME TypeOK, Tick PROVE TypeOK'
<1> USE DEF TypeOK, RobotTypeOK, gates, actuator, world, Handling
<1>1. ASSUME TickDrive PROVE TypeOK'
  BY <1>1, TickOkType, TickFailType, UnchangedDriveType DEF TickDrive
<1>2. ASSUME TickOvercurrent PROVE TypeOK'
  <2>1. {cursor} \in SUBSET Axes
    BY DEF DriveTypeOK
  <2>2. [kind |-> "overcurrent", axes |-> {cursor}] \in Reason
    BY <2>1, ReasonType
  <2> QED BY <1>2, <2>2, TickFailType DEF TickOvercurrent
<1>3. ASSUME TickDead PROVE TypeOK'
  BY <1>3, TickFailType, ConstantTypes DEF TickDead
<1>4. ASSUME PollAll PROVE TypeOK'
  <2>1. left' \in 0 .. N
    BY <1>4, ConstantTypes DEF PollAll
  <2> QED BY <1>4, <2>1, TickOkType, TickFailType DEF PollAll
<1>5. ASSUME LatchDead PROVE TypeOK'
  <2>1. [kind |-> "dead", axes |-> DeadAxes] \in Reason
    BY ReasonType DEF DeadAxes
  <2> QED BY <1>5, <2>1, EStopType DEF LatchDead
<1>6. ASSUME NEW ends \in BOOLEAN, ActAndWatchdog(ends) PROVE TypeOK'
  <2>1. (act_running /\ ~ends) \in BOOLEAN /\ (pwm /\ ~ends) \in BOOLEAN
    OBVIOUS
  <2>2. CASE WatchdogFires(act_running /\ ~ends)
    BY <1>6, <2>2, DriveStopType, UnchangedDriveType DEF ActAndWatchdog
  <2>3. CASE ~WatchdogFires(act_running /\ ~ends)
    BY <1>6, <2>1, <2>3, UnchangedDriveType DEF ActAndWatchdog
  <2> QED BY <2>2, <2>3
<1>7. ASSUME NEW k \in 1 .. MaxLag, Sleep(k) PROVE TypeOK'
  <2>1. k \in Nat
    BY RobotConstants
  <2>2. DriveTypeOK'
    BY <1>7, <2>1, DriveAgesType DEF Sleep
  <2>3. cmd_age' \in 0 .. MaxAge
    BY <1>7, <2>1, RobotConstants DEF Sleep, MaxAge, Least
  <2> QED BY <1>7, <2>2, <2>3 DEF Sleep
<1> QED BY <1>1, <1>2, <1>3, <1>4, <1>5, <1>6, <1>7 DEF Tick

LEMMA EnvironmentType == ASSUME TypeOK, Environment PROVE TypeOK'
<1> USE DEF TypeOK, RobotTypeOK, gates, actuator, world
<1>0. 0 \in 0 .. N
  BY ConstantTypes
<1>1. ASSUME Terminate PROVE TypeOK'
  <2>1. [kind |-> "exit", axes |-> {}] \in Reason
    BY ReasonType
  <2> QED BY <1>0, <1>1, <2>1, EStopType DEF Terminate
<1>2. ASSUME Crash PROVE TypeOK'
  BY <1>0, <1>2, UnchangedDriveType DEF Crash
<1>3. ASSUME Restart PROVE TypeOK'
  <2>1. NoReason \in Reason
    BY ReasonType DEF NoReason
  <2>2. DriveTypeOK'
    BY <1>3, NewDriveType DEF Restart
  <2> QED BY <1>3, <2>1, <2>2, AgeType, RobotConstants DEF Restart
<1>4. ASSUME DriverGone PROVE TypeOK'
  BY <1>4, UnchangedDriveType DEF DriverGone
<1>5. ASSUME Wiring PROVE TypeOK'
  <2>1. silent' \in SUBSET Axes
    BY <1>5, ConstantTypes DEF Wiring, Disconnect
  <2> QED BY <1>5, <2>1 DEF Wiring, Disconnect, DriveTypeOK, decelVars, wheelVars
<1> QED BY <1>1, <1>2, <1>3, <1>4, <1>5 DEF Environment

\* TypeOK holds of every reachable state.
THEOREM TypeCorrect == Spec => []TypeOK
<1>1. Init => TypeOK
  <2>1. NoReason \in Reason /\ 0 \in 0 .. N
    BY ReasonType, ConstantTypes DEF NoReason
  <2> QED
    BY <2>1, DriveInitType, AgeType, RobotConstants DEF Init, TypeOK, RobotTypeOK
<1>2. TypeOK /\ [Next]_vars => TypeOK'
  <2> SUFFICES ASSUME TypeOK, [Next]_vars PROVE TypeOK'
    OBVIOUS
  <2>1. CASE Commands
    BY <2>1, CommandsType
  <2>2. CASE Tick
    BY <2>2, TickType
  <2>3. CASE Environment
    BY <2>3, EnvironmentType
  <2>4. CASE UNCHANGED vars
    BY <2>4, UnchangedDriveType DEF vars, gates, actuator, world, TypeOK, RobotTypeOK
  <2> QED BY <2>1, <2>2, <2>3, <2>4 DEF Next
<1> QED BY <1>1, <1>2, PTL DEF Spec

-----------------------------------------------------------------------------
(***************************************************************************)
(* The latches.  LatchesHold is not inductive as it stands: an e-stop does *)
(* not reach a drive that is missing, and the ticks of pollAll() come      *)
(* after the stop and before the latch.                                    *)
(***************************************************************************)
LatchInv ==
  /\ LatchesHold
  /\ Up /\ ~drive_ok => AtRest
  /\ pc = "pollall" => AtRest
  /\ pwm => act_running

LEMMA UnchangedRests == AtRest /\ UNCHANGED driveVars => AtRest'
BY DEF AtRest, driveVars, decelVars

\* An e-stop leaves everything stopped, with or without a drive.
LEMMA EStopStops ==
  ASSUME LatchInv, Up, NEW why, EStop(why)
  PROVE  Stopped' /\ estopped' /\ ~pwm' /\ ~act_running' /\ drive_ok' = drive_ok
<1>1. AtRest'
  BY DriveStopRests, UnchangedRests DEF EStop, LatchInv
<1> QED BY <1>1 DEF EStop, Stopped

LEMMA LatchStep == ASSUME TypeOK, LatchInv, [Next]_vars PROVE LatchInv'
<1> USE DEF LatchInv, LatchesHold, Stopped, Up, gates, actuator
<1>1. ASSUME NEW rpm \in Rpms, WheelCommand(rpm) PROVE LatchInv'
  BY <1>1 DEF WheelCommand, Accept, Handling
<1>2. ASSUME NEW duty \in {0, 1}, ActuatorCommand(duty) PROVE LatchInv'
  BY <1>2, UnchangedRests DEF ActuatorCommand, Accept, Handling
<1>3. ASSUME StopCommand PROVE LatchInv'
  BY <1>3, DecelerateRests DEF StopCommand, Handling
<1>4. ASSUME EStopCommand PROVE LatchInv'
  BY <1>4, EStopStops DEF EStopCommand, Handling
<1>5. ASSUME ResetCommand PROVE LatchInv'
  BY <1>5, UnchangedRests DEF ResetCommand, Handling
<1>6. ASSUME NEW on \in Leds, LedCommand(on) PROVE LatchInv'
  BY <1>6, UnchangedRests DEF LedCommand, Handling
<1>7. ASSUME TickDrive PROVE LatchInv'
  BY <1>7, TickRests, UnchangedRests DEF TickDrive, Handling
<1>8. ASSUME TickOvercurrent PROVE LatchInv'
  BY <1>8, TickFailRests DEF TickOvercurrent, Handling
<1>9. ASSUME TickDead PROVE LatchInv'
  BY <1>9, TickFailRests DEF TickDead, Handling
<1>10. ASSUME PollAll PROVE LatchInv'
  BY <1>10, TickRests DEF PollAll
<1>11. ASSUME LatchDead PROVE LatchInv'
  BY <1>11, EStopStops DEF LatchDead
<1>12. ASSUME NEW ends \in BOOLEAN, ActAndWatchdog(ends) PROVE LatchInv'
  BY <1>12, DriveStopRests, UnchangedRests DEF ActAndWatchdog
<1>13. ASSUME NEW k \in 1 .. MaxLag, Sleep(k) PROVE LatchInv'
  BY <1>13 DEF Sleep, AtRest
<1>14. ASSUME Terminate PROVE LatchInv'
  BY <1>14, EStopStops DEF Terminate
<1>15. ASSUME Crash PROVE LatchInv'
  BY <1>15 DEF Crash
<1>16. ASSUME Restart PROVE LatchInv'
  BY <1>16 DEF Restart, NewDrive, AtRest
<1>17. ASSUME DriverGone PROVE LatchInv'
  BY <1>17, UnchangedRests DEF DriverGone
<1>18. ASSUME Wiring PROVE LatchInv'
  BY <1>18 DEF Wiring, Disconnect, AtRest, decelVars
<1>19. CASE UNCHANGED vars
  BY <1>19, UnchangedRests DEF vars
<1> QED
  BY <1>1, <1>2, <1>3, <1>4, <1>5, <1>6, <1>7, <1>8, <1>9, <1>10, <1>11, <1>12,
     <1>13, <1>14, <1>15, <1>16, <1>17, <1>18, <1>19
  DEF Next, Commands, Tick, Environment

LEMMA LatchInvariant == Spec => [](TypeOK /\ LatchInv)
<1>1. Init => LatchInv
  BY DEF Init, DriveInit, LatchInv, LatchesHold, AtRest, Up
<1>2. TypeOK /\ LatchInv /\ [Next]_vars => LatchInv'
  BY LatchStep
<1> QED BY <1>1, <1>2, TypeCorrect, PTL DEF Spec

\* While the e-stop or the watchdog trip holds, nothing is driven.
THEOREM LatchesAlwaysHold == Spec => []LatchesHold
<1>1. LatchInv => LatchesHold
  BY DEF LatchInv
<1> QED BY <1>1, LatchInvariant, PTL

-----------------------------------------------------------------------------
(***************************************************************************)
(* The watchdog.  By the end of each pass in which the last command was    *)
(* too old, either it fired, or a latch already held, or nothing moved;    *)
(* one sleep makes the command at most MaxLag older.                       *)
(***************************************************************************)
WatchdogInv ==
  /\ WatchdogStops
  /\ pc = "sleep" /\ had_command /\ cmd_age > Watchdog => Slowed

LEMMA StoppedIsSlowed == ASSUME Stopped PROVE Slowed
BY DEF Stopped, Slowed, AtRest, Still, Abs

LEMMA StoppedIsSlowedNext == ASSUME Stopped' PROVE Slowed'
BY DEF Stopped, Slowed, AtRest, Still, Abs

LEMMA UnchangedSlowed == Slowed /\ UNCHANGED <<target, act_running, pwm>> => Slowed'
BY DEF Slowed

\* The judgement at the end of a pass.
LEMMA WatchdogJudges ==
  ASSUME TypeOK, LatchInv, NEW ends \in BOOLEAN, ActAndWatchdog(ends),
         had_command, cmd_age > Watchdog
  PROVE  Slowed'
<1> DEFINE runs == act_running /\ ~ends
<1>1. CASE WatchdogFires(runs)
  <2>1. AtRest'
    BY <1>1, DriveStopRests, UnchangedRests DEF ActAndWatchdog, LatchInv, Up
  <2> QED BY <1>1, <2>1, StoppedIsSlowedNext DEF ActAndWatchdog, Stopped
<1>2. CASE ~WatchdogFires(runs)
  <2>1. UNCHANGED <<driveVars, tripped>> /\ act_running' = runs /\ pwm' = (pwm /\ ~ends)
    BY <1>2 DEF ActAndWatchdog
  <2>2. CASE estopped \/ tripped
    <3>1. Stopped
      BY <2>2 DEF LatchInv, LatchesHold, ActAndWatchdog, Up
    <3>2. Slowed
      BY <3>1, StoppedIsSlowed
    <3> QED BY <2>1, <3>1, <3>2 DEF Slowed, driveVars
  <2>3. CASE ~estopped /\ ~tripped
    <3>1. ~Moving(runs)
      BY <1>2, <2>3 DEF WatchdogFires
    <3>2. ~runs /\ ~pwm'
      BY <2>1, <3>1 DEF Moving, LatchInv
    <3>3. \A i \in Axes : Abs(target[i]) <= 5
      <4>1. CASE drive_ok
        <5>1. \A i \in Axes : ~(Abs(target[i]) > 5)
          BY <3>1, <4>1 DEF Moving
        <5>2. \A i \in Axes : Abs(target[i]) \in Int
          BY DEF TypeOK, DriveTypeOK, Abs
        <5> QED BY <5>1, <5>2
      <4>2. CASE ~drive_ok
        <5>1. target = Still
          BY <4>2 DEF LatchInv, ActAndWatchdog, Up, AtRest
        <5> QED BY <5>1 DEF Still, Abs
      <4> QED BY <4>1, <4>2
    <3> QED BY <2>1, <3>2, <3>3 DEF Slowed, driveVars
  <2> QED BY <2>2, <2>3
<1> QED BY <1>1, <1>2

LEMMA WatchdogStep == ASSUME TypeOK, LatchInv, WatchdogInv, [Next]_vars PROVE WatchdogInv'
<1> USE DEF WatchdogInv, WatchdogStops, gates, actuator
<1>0. ~(0 > Watchdog) /\ ~(0 > Watchdog + MaxLag)
  BY RobotConstants
<1>1. ASSUME NEW rpm \in Rpms, WheelCommand(rpm) PROVE WatchdogInv'
  BY <1>0, <1>1 DEF WheelCommand, Accept, Handling
<1>2. ASSUME NEW duty \in {0, 1}, ActuatorCommand(duty) PROVE WatchdogInv'
  BY <1>0, <1>2 DEF ActuatorCommand, Accept, Handling
<1>3. ASSUME StopCommand PROVE WatchdogInv'
  BY <1>0, <1>3 DEF StopCommand, Handling
<1>4. ASSUME EStopCommand PROVE WatchdogInv'
  <2>1. Stopped' /\ pc' = "commands"
    BY <1>4, EStopStops DEF EStopCommand, Handling, Up
  <2> QED BY <2>1, StoppedIsSlowedNext
<1>5. ASSUME ResetCommand PROVE WatchdogInv'
  BY <1>0, <1>5 DEF ResetCommand, Handling
<1>6. ASSUME NEW on \in Leds, LedCommand(on) PROVE WatchdogInv'
  BY <1>6, UnchangedSlowed DEF LedCommand, Handling, driveVars
<1>7. ASSUME TickDrive \/ TickOvercurrent \/ TickDead \/ PollAll \/ LatchDead
      PROVE  WatchdogInv'
  BY <1>7 DEF TickDrive, TickOvercurrent, TickDead, PollAll, LatchDead
<1>8. ASSUME NEW ends \in BOOLEAN, ActAndWatchdog(ends) PROVE WatchdogInv'
  BY <1>8, WatchdogJudges DEF ActAndWatchdog
<1>9. ASSUME NEW k \in 1 .. MaxLag, Sleep(k) PROVE WatchdogInv'
  <2>1. cmd_age \in Nat /\ k \in Nat /\ k <= MaxLag
    BY RobotConstants DEF TypeOK, RobotTypeOK, MaxAge
  <2>2. cmd_age' > Watchdog + MaxLag => cmd_age > Watchdog
    BY <1>9, <2>1, RobotConstants DEF Sleep, Least, MaxAge
  <2> QED BY <1>9, <2>2, UnchangedSlowed DEF Sleep
<1>10. ASSUME Terminate \/ Crash \/ Restart PROVE WatchdogInv'
  BY <1>10 DEF Terminate, Crash, Restart
<1>11. ASSUME DriverGone PROVE WatchdogInv'
  BY <1>11, UnchangedSlowed DEF DriverGone, driveVars
<1>12. ASSUME Wiring PROVE WatchdogInv'
  BY <1>12, UnchangedSlowed DEF Wiring, Disconnect
<1>13. CASE UNCHANGED vars
  BY <1>13, UnchangedSlowed DEF vars, driveVars
<1> QED
  BY <1>1, <1>2, <1>3, <1>4, <1>5, <1>6, <1>7, <1>8, <1>9, <1>10, <1>11, <1>12, <1>13
  DEF Next, Commands, Tick, Environment

\* No later than one pass after the watchdog period, everything the watchdog
\* can see is stopped.
THEOREM WatchdogAlwaysStops == Spec => []WatchdogStops
<1>1. Init => WatchdogInv
  BY DEF Init, WatchdogInv, WatchdogStops
<1>2. TypeOK /\ LatchInv /\ WatchdogInv /\ [Next]_vars => WatchdogInv'
  BY WatchdogStep
<1>3. WatchdogInv => WatchdogStops
  BY DEF WatchdogInv
<1> QED BY <1>1, <1>2, <1>3, LatchInvariant, PTL DEF Spec

-----------------------------------------------------------------------------
(***************************************************************************)
(* Robot implements SafeStop: each step of Robot is a step of SafeStop, or *)
(* changes nothing that SafeStop speaks of.                                *)
(***************************************************************************)
SafeStep == Safe!SafeNext \/ UNCHANGED <<Mode, Driving, Latched>>

\* Any step that keeps the latches and sets nothing in motion.
LEMMA EaseOrStutter ==
  ASSUME Mode' = Mode, Latched' = Latched, Stopped => Stopped', Up' = Up
  PROVE  SafeStep
<1>1. CASE Driving' = Driving
  BY <1>1 DEF SafeStep
<1>2. CASE Driving' # Driving
  <2>1. Driving' = FALSE
    BY <1>2 DEF Driving
  <2> QED BY <2>1 DEF SafeStep, Safe!SafeNext, Safe!Ease
<1> QED BY <1>1, <1>2

\* Any step into the e-stop.
LEMMA LatchStepIsEmergencyStop ==
  ASSUME Up, Up', estopped', Stopped', reason' \in Reason,
         estopped => reason' = reason
  PROVE  SafeStep
<1>1. Mode # "down" /\ Mode' = "estop" /\ Driving' = FALSE
  BY DEF Mode, Driving
<1>2. IF Mode = "estop" THEN Latched' = Latched ELSE Latched' \in Reason
  BY DEF Mode, Latched
<1> QED BY <1>1, <1>2 DEF SafeStep, Safe!SafeNext, Safe!EmergencyStop

\* A wheel or actuator command that is accepted.
LEMMA AcceptIsCommand ==
  ASSUME Handling, Accept, pc' = pc
  PROVE  SafeStep
<1>1. Mode \in {"run", "tripped"} /\ Mode' = "run" /\ Latched' = Latched
  BY DEF Handling, Accept, Mode, Latched, Up
<1>2. Driving' \in BOOLEAN
  BY DEF Driving
<1> QED BY <1>1, <1>2 DEF SafeStep, Safe!SafeNext, Safe!Command

LEMMA RobotSafeStep == ASSUME TypeOK, LatchInv, TypeOK', [Next]_vars PROVE SafeStep
<1> USE DEF gates, actuator
<1>1. ASSUME NEW rpm \in Rpms, WheelCommand(rpm) PROVE SafeStep
  BY <1>1, AcceptIsCommand DEF WheelCommand
<1>2. ASSUME NEW duty \in {0, 1}, ActuatorCommand(duty) PROVE SafeStep
  BY <1>2, AcceptIsCommand DEF ActuatorCommand
<1>3. ASSUME StopCommand PROVE SafeStep
  <2>1. Stopped => Stopped'
    BY <1>3, DecelerateRests DEF StopCommand, Stopped
  <2> QED
    BY <1>3, <2>1, EaseOrStutter DEF StopCommand, Handling, Up, Mode, Latched
<1>4. ASSUME EStopCommand PROVE SafeStep
  <2>1. Up /\ Up' /\ Stopped' /\ estopped'
    BY <1>4, EStopStops DEF EStopCommand, Handling, Up
  <2>2. reason' \in Reason /\ (estopped => reason' = reason)
    BY <1>4 DEF EStopCommand, EStop, TypeOK, RobotTypeOK
  <2> QED BY <2>1, <2>2, LatchStepIsEmergencyStop
<1>5. ASSUME ResetCommand PROVE SafeStep
  <2>1. Up /\ Up' /\ Mode # "down" /\ Mode' = "run" /\ Latched' = NoReason
    BY <1>5 DEF ResetCommand, Handling, Up, Mode, Latched
  <2>2. Driving' = Driving
    BY <1>5, <2>1
    DEF ResetCommand, Driving, Stopped, AtRest, driveVars, decelVars
  <2> QED BY <2>1, <2>2 DEF SafeStep, Safe!SafeNext, Safe!Release
<1>6. ASSUME NEW on \in Leds, LedCommand(on) PROVE SafeStep
  <2>1. Stopped => Stopped'
    BY <1>6, UnchangedRests DEF LedCommand, Stopped
  <2> QED BY <1>6, <2>1, EaseOrStutter DEF LedCommand, Up, Mode, Latched
<1>7. ASSUME TickDrive PROVE SafeStep
  <2>1. Stopped => Stopped'
    BY <1>7, TickRests, UnchangedRests DEF TickDrive, Stopped
  <2> QED BY <1>7, <2>1, EaseOrStutter DEF TickDrive, Handling, Up, Mode, Latched
<1>8. ASSUME TickOvercurrent PROVE SafeStep
  <2>1. Up /\ Up' /\ Stopped' /\ estopped' /\ ~estopped
    BY <1>8, TickFailRests DEF TickOvercurrent, Handling, Up, Stopped
  <2> QED BY <2>1, LatchStepIsEmergencyStop DEF TypeOK, RobotTypeOK
<1>9. ASSUME TickDead PROVE SafeStep
  <2>1. Stopped => Stopped'
    BY <1>9, TickFailRests DEF TickDead, Stopped
  <2> QED BY <1>9, <2>1, EaseOrStutter DEF TickDead, Handling, Up, Mode, Latched
<1>10. ASSUME PollAll PROVE SafeStep
  <2>1. Stopped => Stopped'
    BY <1>10, TickRests DEF PollAll, Stopped
  <2> QED BY <1>10, <2>1, EaseOrStutter DEF PollAll, Up, Mode, Latched
<1>11. ASSUME LatchDead PROVE SafeStep
  <2>1. Up /\ Up' /\ Stopped' /\ estopped'
    BY <1>11, EStopStops DEF LatchDead, Up
  <2>2. reason' \in Reason /\ (estopped => reason' = reason)
    BY <1>11 DEF LatchDead, EStop, TypeOK, RobotTypeOK
  <2> QED BY <2>1, <2>2, LatchStepIsEmergencyStop
<1>12. ASSUME NEW ends \in BOOLEAN, ActAndWatchdog(ends) PROVE SafeStep
  <2>1. CASE WatchdogFires(act_running /\ ~ends)
    <3>1. AtRest' /\ tripped'
      BY <1>12, <2>1, DriveStopRests, UnchangedRests DEF ActAndWatchdog, LatchInv, Up
    <3>2. Mode = "run" /\ Mode' = "tripped" /\ Driving' = FALSE /\ Latched' = Latched
      BY <1>12, <2>1, <3>1
      DEF ActAndWatchdog, WatchdogFires, Mode, Up, Driving, Stopped, Latched
    <3> QED BY <3>2 DEF SafeStep, Safe!SafeNext, Safe!Trip
  <2>2. CASE ~WatchdogFires(act_running /\ ~ends)
    <3>1. Stopped => Stopped'
      BY <1>12, <2>2, UnchangedRests DEF ActAndWatchdog, Stopped
    <3> QED BY <1>12, <2>2, <3>1, EaseOrStutter DEF ActAndWatchdog, Up, Mode, Latched
  <2> QED BY <2>1, <2>2
<1>13. ASSUME NEW k \in 1 .. MaxLag, Sleep(k) PROVE SafeStep
  <2>1. Stopped => Stopped'
    BY <1>13 DEF Sleep, Stopped, AtRest
  <2> QED BY <1>13, <2>1, EaseOrStutter DEF Sleep, Up, Mode, Latched
<1>14. ASSUME Terminate \/ Crash PROVE SafeStep
  <2>1. Mode' = "down" /\ Driving' = FALSE /\ Latched' = NoReason
    BY <1>14 DEF Terminate, Crash, Mode, Driving, Latched, Up
  <2> QED BY <2>1 DEF SafeStep, Safe!SafeNext, Safe!Exit
<1>15. ASSUME Restart PROVE SafeStep
  <2>1. Mode = "down" /\ Mode' = "run" /\ Driving' = FALSE /\ Latched' = NoReason
    BY <1>15
    DEF Restart, NewDrive, Mode, Driving, Stopped, AtRest, Latched, Up
  <2> QED BY <2>1 DEF SafeStep, Safe!SafeNext, Safe!Start
<1>16. ASSUME DriverGone PROVE SafeStep
  <2>1. Stopped => Stopped'
    BY <1>16, UnchangedRests DEF DriverGone, Stopped
  <2> QED BY <1>16, <2>1, EaseOrStutter DEF DriverGone, Up, Mode, Latched
<1>17. ASSUME Wiring PROVE SafeStep
  <2>1. Stopped => Stopped'
    BY <1>17 DEF Wiring, Disconnect, Stopped, AtRest, decelVars
  <2> QED BY <1>17, <2>1, EaseOrStutter DEF Wiring, Up, Mode, Latched
<1>18. CASE UNCHANGED vars
  <2>1. Stopped => Stopped'
    BY <1>18, UnchangedRests DEF vars, Stopped
  <2> QED BY <1>18, <2>1, EaseOrStutter DEF vars, Up, Mode, Latched
<1> QED
  BY <1>1, <1>2, <1>3, <1>4, <1>5, <1>6, <1>7, <1>8, <1>9, <1>10, <1>11, <1>12,
     <1>13, <1>14, <1>15, <1>16, <1>17, <1>18
  DEF Next, Commands, Tick, Environment

\* The daemon implements the abstract specification of stopping.
THEOREM RobotImplementsSafeStop == Spec => ImplementsSafeStop
<1>1. Init => Safe!SafeInit
  BY DEF Init, DriveInit, Safe!SafeInit, Mode, Driving, Stopped, AtRest, Latched, Up
<1>2. TypeOK /\ LatchInv /\ TypeOK' /\ [Next]_vars => [Safe!SafeNext]_(Safe!safeVars)
  BY RobotSafeStep DEF SafeStep, Safe!safeVars
<1> QED
  BY <1>1, <1>2, LatchInvariant, PTL DEF Spec, ImplementsSafeStop, Safe!SafeSpec

-----------------------------------------------------------------------------
(***************************************************************************)
(* A daemon that nobody kills, on a bus that loses no frame: the motors    *)
(* and the daemon agree, and a daemon without a command leaves them still. *)
(* Both properties speak of one moment of the process; FollowInv carries   *)
(* the agreement over its end and its next start, with or without a drive. *)
(***************************************************************************)
Followed ==
  /\ Up /\ drive_ok => Follows
  /\ ~Up \/ ~drive_ok => motor = Still
  /\ Up /\ ~had_command => motor = Still /\ AtRest /\ ~act_running
  /\ ~Up => ~pwm

\* Nothing is known of what a killed process has left running.
FollowInv == ~killed => Followed

LEMMA UnchangedFollows == Follows /\ UNCHANGED <<motor, target>> => Follows'
<1> SUFFICES ASSUME Follows, UNCHANGED <<motor, target>> PROVE Follows'
  OBVIOUS
<1>1. ASSUME NEW i \in Axes PROVE Clamp(target[i])' = Clamp(target[i])
  BY DEF Clamp
<1> QED BY <1>1 DEF Follows

LEMMA UnchangedFollow ==
  ASSUME Followed, UNCHANGED <<driveVars, pc, drive_ok, had_command, act_running, pwm>>
  PROVE  Followed'
<1>1. UNCHANGED <<motor, target, pc, drive_ok, had_command, act_running, pwm>>
  BY DEF driveVars
<1>2. AtRest => AtRest'
  BY UnchangedRests
<1>3. Follows => Follows'
  BY <1>1, UnchangedFollows
<1>4. Still' = Still
  BY DEF Still
<1> QED BY <1>1, <1>2, <1>3, <1>4 DEF Followed, Up

\* An e-stop of a drive that is there reaches its motors; without one they rest.
LEMMA EStopFollows ==
  ASSUME Losses = {{}}, LatchInv, Followed, Up, NEW why, EStop(why)
  PROVE  /\ motor' = Still /\ AtRest' /\ Follows'
         /\ ~act_running' /\ ~pwm' /\ drive_ok' = drive_ok /\ had_command' = had_command
<1>1. AtRest' /\ ~act_running' /\ ~pwm' /\ drive_ok' = drive_ok
  BY EStopStops DEF Stopped
<1>2. motor' = Still
  <2>1. CASE drive_ok
    BY <2>1, DriveStopFollows DEF EStop
  <2>2. CASE ~drive_ok
    BY <2>2 DEF EStop, Followed, driveVars
  <2> QED BY <2>1, <2>2
<1>3. (motor = Still /\ target = Still)'
  BY <1>1, <1>2 DEF AtRest, Still
<1>4. Follows'
  BY <1>3, StillFollows, PTL
<1> QED BY <1>1, <1>2, <1>4 DEF EStop

LEMMA TicksFollowed ==
  ASSUME TypeOK, Losses = {{}}, LatchInv, Followed, Up, Up', drive_ok, drive_ok',
         TickOk \/ TickFail, had_command' = had_command,
         act_running' => act_running
  PROVE  Followed'
<1>1. Follows'
  BY TicksFollow DEF Followed, TypeOK
<1>2. ~had_command' => motor' = Still /\ AtRest' /\ ~act_running'
  BY TicksStayStill, TickRests DEF Followed, TypeOK
<1> QED BY <1>1, <1>2 DEF Followed

LEMMA FollowStep ==
  ASSUME Losses = {{}}, ~Crash, TypeOK, LatchInv, Followed, [Next]_vars
  PROVE  Followed'
<1> USE DEF Up, gates, actuator, Handling
<1>1. ASSUME NEW rpm \in Rpms, WheelCommand(rpm) PROVE Followed'
  <2>1. Follows'
    BY <1>1, SetWheelRpmFollows DEF WheelCommand, TypeOK
  <2> QED BY <1>1, <2>1 DEF WheelCommand, Accept, Followed
<1>2. ASSUME NEW duty \in {0, 1}, ActuatorCommand(duty) PROVE Followed'
  <2>1. UNCHANGED <<motor, target, pc, drive_ok>> /\ had_command'
    BY <1>2 DEF ActuatorCommand, Accept, driveVars
  <2> QED BY <1>2, <2>1, UnchangedFollows DEF ActuatorCommand, Followed
<1>3. ASSUME StopCommand PROVE Followed'
  <2>1. /\ Decelerate /\ drive_ok /\ pc = "commands"
        /\ UNCHANGED <<pc, drive_ok, had_command, act_running, pwm>>
    BY <1>3 DEF StopCommand
  <2>2. DriveStop \/ UNCHANGED <<motor, target>>
    BY <2>1 DEF Decelerate
  <2>3. Follows'
    <3>1. CASE DriveStop
      <4>1. (motor = Still /\ target = Still)'
        BY <3>1, DriveStopFollows DEF Still
      <4> QED BY <4>1, StillFollows, PTL
    <3>2. CASE UNCHANGED <<motor, target>>
      BY <2>1, <3>2, UnchangedFollows DEF Followed
    <3> QED BY <2>2, <3>1, <3>2
  <2>4. ~had_command => motor' = Still /\ AtRest'
    BY <2>1, <2>2, DecelerateRests, DriveStopFollows DEF Followed
  <2> QED BY <2>1, <2>3, <2>4 DEF Followed
<1>4. ASSUME EStopCommand PROVE Followed'
  BY <1>4, EStopFollows DEF EStopCommand, Followed
<1>5. ASSUME ResetCommand PROVE Followed'
  BY <1>5, UnchangedFollow DEF ResetCommand
<1>6. ASSUME NEW on \in Leds, LedCommand(on) PROVE Followed'
  BY <1>6, UnchangedFollow DEF LedCommand
<1>7. ASSUME TickDrive PROVE Followed'
  <2>1. CASE ~drive_ok
    <3>1. UNCHANGED <<motor, drive_ok, had_command, act_running, pwm>> /\ UNCHANGED driveVars
      BY <1>7, <2>1 DEF TickDrive, driveVars
    <3> QED BY <1>7, <2>1, <3>1, UnchangedRests DEF TickDrive, Followed
  <2>2. CASE drive_ok
    BY <1>7, <2>2, TicksFollowed DEF TickDrive
  <2> QED BY <2>1, <2>2
<1>8. ASSUME TickOvercurrent PROVE Followed'
  BY <1>8, TicksFollowed DEF TickOvercurrent
<1>9. ASSUME TickDead PROVE Followed'
  BY <1>9, TicksFollowed DEF TickDead
<1>10. ASSUME PollAll PROVE Followed'
  <2>1. CASE drive_ok
    BY <1>10, <2>1, TicksFollowed DEF PollAll
  <2>2. CASE ~drive_ok
    <3>1. motor' = Still /\ AtRest'
      BY <1>10, <2>2, TicksStayStill, TickRests DEF PollAll, Followed, LatchInv, TypeOK
    <3> QED BY <1>10, <2>2, <3>1 DEF PollAll, Followed
  <2> QED BY <2>1, <2>2
<1>11. ASSUME LatchDead PROVE Followed'
  BY <1>11, EStopFollows DEF LatchDead, Followed
<1>12. ASSUME NEW ends \in BOOLEAN, ActAndWatchdog(ends) PROVE Followed'
  <2>1. /\ pc = "act" /\ pc' = "sleep" /\ drive_ok' = drive_ok /\ had_command' = had_command
        /\ act_running' => act_running
    BY <1>12 DEF ActAndWatchdog
  <2>2. UNCHANGED driveVars \/ (drive_ok /\ DriveStop)
    BY <1>12 DEF ActAndWatchdog
  <2>3. CASE UNCHANGED driveVars
    <3>1. UNCHANGED <<motor, target>>
      BY <2>3 DEF driveVars
    <3> QED BY <2>1, <2>3, <3>1, UnchangedRests, UnchangedFollows DEF Followed
  <2>4. CASE drive_ok /\ DriveStop
    <3>1. (motor = Still /\ target = Still)'
      BY <2>4, DriveStopFollows DEF Still
    <3>2. Follows'
      BY <3>1, StillFollows, PTL
    <3> QED BY <2>1, <2>4, <3>1, <3>2, DriveStopRests DEF Followed
  <2> QED BY <2>2, <2>3, <2>4
<1>13. ASSUME NEW k \in 1 .. MaxLag, Sleep(k) PROVE Followed'
  <2>1. UNCHANGED <<motor, target, decel_active, drive_ok, had_command, act_running, pwm>>
    BY <1>13 DEF Sleep
  <2> QED BY <1>13, <2>1, UnchangedFollows DEF Sleep, Followed, AtRest
<1>14. ASSUME Terminate PROVE Followed'
  BY <1>14, EStopFollows DEF Terminate, Followed
<1>15. ASSUME Restart PROVE Followed'
  <2>1. motor' = Still /\ target' = Still /\ AtRest' /\ ~act_running' /\ ~pwm'
    BY <1>15 DEF Restart, NewDrive, AtRest, Followed, Still
  <2>2. (motor = Still /\ target = Still)'
    BY <2>1 DEF Still
  <2>3. Follows'
    BY <2>2, StillFollows, PTL
  <2> QED BY <1>15, <2>1, <2>3 DEF Followed, Restart
<1>16. ASSUME DriverGone PROVE Followed'
  BY <1>16, UnchangedFollow DEF DriverGone
<1>17. ASSUME Wiring PROVE Followed'
  <2>1. UNCHANGED <<motor, target, decel_active, pc, drive_ok, had_command, act_running, pwm>>
    BY <1>17 DEF Wiring, Disconnect, decelVars
  <2> QED BY <2>1, UnchangedFollows DEF Followed, AtRest
<1>18. CASE UNCHANGED vars
  BY <1>18, UnchangedFollow DEF vars
<1> QED
  BY <1>1, <1>2, <1>3, <1>4, <1>5, <1>6, <1>7, <1>8, <1>9, <1>10, <1>11, <1>12,
     <1>13, <1>14, <1>15, <1>16, <1>17, <1>18
  DEF Next, Commands, Tick, Environment

LEMMA OnlyCrashKills == [Next]_vars /\ ~Crash => killed' = killed
<1> SUFFICES ASSUME [Next]_vars, ~Crash PROVE killed' = killed
  OBVIOUS
<1>1. CASE Commands
  BY <1>1 DEF Commands, WheelCommand, ActuatorCommand, StopCommand, EStopCommand, ResetCommand,
    LedCommand, world
<1>2. CASE Tick
  BY <1>2 DEF Tick, TickDrive, TickOvercurrent, TickDead, PollAll, LatchDead, ActAndWatchdog,
    Sleep, world
<1>3. CASE Environment
  BY <1>3 DEF Environment, Terminate, Restart, DriverGone, Wiring, world
<1> QED BY <1>1, <1>2, <1>3 DEF Next, vars, world

LEMMA FollowInvariant ==
  ASSUME Losses = {{}}
  PROVE  Spec => [](LatchInv /\ FollowInv)
<1>1. Init => FollowInv
  BY StillFollows DEF Init, DriveInit, FollowInv, Followed, AtRest, Up
<1>2. TypeOK /\ LatchInv /\ FollowInv /\ [Next]_vars => FollowInv'
  <2> SUFFICES ASSUME TypeOK, LatchInv, FollowInv, [Next]_vars, ~killed' PROVE Followed'
    BY DEF FollowInv
  <2>1. ~Crash
    BY DEF Crash
  <2>2. ~killed
    BY <2>1, OnlyCrashKills
  <2> QED BY <2>1, <2>2, FollowStep DEF FollowInv
<1> QED BY <1>1, <1>2, LatchInvariant, PTL DEF Spec

\* On a bus that loses no frame, what the motors were last told is what the
\* daemon believes.
THEOREM MotorsAlwaysFollow ==
  ASSUME Losses = {{}}
  PROVE  Spec => []MotorsFollow
<1>1. FollowInv => MotorsFollow
  BY DEF FollowInv, Followed, MotorsFollow, Follows
<1> QED BY <1>1, FollowInvariant, PTL

\* Whatever way short of a kill the last process ended, its successor leaves
\* motors and actuator off until its first command (navi.service:6-7).
THEOREM AlwaysQuietBeforeFirstCommand ==
  ASSUME Losses = {{}}
  PROVE  Spec => []QuietBeforeFirstCommand
<1>1. LatchInv /\ FollowInv => QuietBeforeFirstCommand
  BY DEF LatchInv, FollowInv, Followed, QuietBeforeFirstCommand
<1> QED BY <1>1, FollowInvariant, PTL

-----------------------------------------------------------------------------
(***************************************************************************)
(* Faults and ramps                                                        *)
(***************************************************************************)
LEMMA FaultStep ==
  ASSUME Losses = {{}}, TypeOK, Next, NEW i \in Axes, Up, Up',
         \/ alive[i] /\ ~alive'[i]
         \/ over[i] < OverLimit /\ over'[i] = OverLimit
  PROVE  /\ motor' = Still /\ target' = Still /\ ~decel_active'
         /\ estopped' \/ pc' = "pollall"
<1>1. ~UNCHANGED <<alive, over>> /\ ~TickOk
  BY OnlyFailFinds, ConstantTypes DEF TypeOK, DriveTypeOK
<1>2. ~DriveStop /\ ~(\E rpm \in Rpms : SetWheelRpm(rpm)) /\ ~Decelerate /\ ~UNCHANGED driveVars
  BY <1>1 DEF DriveStop, SetWheelRpm, Decelerate, driveVars, wheelVars
<1>3. ~Commands
  BY <1>2 DEF Commands, WheelCommand, ActuatorCommand, StopCommand, EStopCommand, EStop,
              ResetCommand, LedCommand
<1>4. ~Environment
  BY <1>1, <1>2 DEF Environment, Terminate, Crash, Restart, DriverGone, Wiring, Disconnect, EStop,
                    wheelVars, Up
<1>5. TickDrive \/ TickOvercurrent \/ TickDead \/ PollAll
  BY <1>1, <1>2, <1>3, <1>4 DEF Next, Tick, LatchDead, ActAndWatchdog, Sleep, EStop
<1>6. TickFail /\ (estopped' \/ pc' = "pollall")
  BY <1>1, <1>2, <1>5 DEF TickDrive, TickOvercurrent, TickDead, PollAll, gates
<1> QED BY <1>6, FailStops

\* An axis found dead or overloaded stops all axes in that very tick, and the
\* robot is latched before another command is handled.
THEOREM FaultAlwaysStopsEveryAxis == Losses = {{}} => (Spec => FaultStopsEveryAxis)
<1>1. SUFFICES ASSUME Losses = {{}} PROVE Spec => FaultStopsEveryAxis
  OBVIOUS
<1>2. TypeOK /\ [Next]_vars
        => [ \A i \in Axes :
               /\ Up /\ Up'
               /\ \/ alive[i] /\ ~alive'[i]
                  \/ over[i] < OverLimit /\ over'[i] = OverLimit
               => /\ motor' = Still /\ target' = Still /\ ~decel_active'
                  /\ estopped' \/ pc' = "pollall" ]_vars
  BY <1>1, FaultStep
<1> QED BY <1>2, TypeCorrect, PTL DEF Spec, FaultStopsEveryAxis

LEMMA GentleStep ==
  ASSUME TypeOK, Next, pc # "commands" \/ pc' # "commands", NEW i \in Axes
  PROVE  Gentle(i)
<1>1. motor' = motor => Gentle(i)
  BY DEF Gentle
<1>2. DriveStop => Gentle(i)
  BY StopIsGentle DEF DriveStop, TypeOK
<1>3. TickOk \/ TickFail => Gentle(i)
  BY TicksAreGentle DEF TypeOK
<1>4. UNCHANGED driveVars => motor' = motor
  BY DEF driveVars
<1>5. ~Commands
  BY DEF Commands, WheelCommand, ActuatorCommand, StopCommand, EStopCommand, ResetCommand,
         LedCommand, Handling
<1>6. CASE Tick
  BY <1>1, <1>2, <1>3, <1>4, <1>6
     DEF Tick, TickDrive, TickOvercurrent, TickDead, PollAll, LatchDead, ActAndWatchdog, Sleep, EStop
<1>7. CASE Environment
  BY <1>1, <1>2, <1>4, <1>7
     DEF Environment, Terminate, Crash, Restart, DriverGone, Wiring, Disconnect, EStop
<1> QED BY <1>5, <1>6, <1>7 DEF Next

\* The loop never drives a motor harder, or in another sense, than the speed
\* that the deceleration in progress started from, whatever frames are lost.
THEOREM TicksNeverDriveHarder == Spec => TickNeverDrivesHarder
<1>1. TypeOK /\ [Next]_vars
        => [ pc # "commands" \/ pc' # "commands" =>
               \A i \in Axes :
                 \/ motor'[i] \in {0, motor[i]}
                 \/ /\ decel_active
                    /\ motor'[i] * decel_from[i] > 0
                    /\ Abs(motor'[i]) <= Abs(decel_from[i]) ]_vars
  BY GentleStep DEF Gentle
<1> QED BY <1>1, TypeCorrect, PTL DEF Spec, TickNeverDrivesHarder
=============================================================================
