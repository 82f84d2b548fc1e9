------------------------------- MODULE LiftProofs -------------------------------
(***************************************************************************)
(* What is proved of Lift, for every stroke, every set of cars, every      *)
(* limit and any number of faults.                                         *)
(***************************************************************************)
EXTENDS Lift, TLAPS

LEMMA LiftConstants ==
  /\ Height \in Nat /\ StallAfter \in Nat /\ Grace \in Nat
  /\ HallTimeout \in Nat /\ Watchdog \in Nat /\ MaxFaults \in Nat
  /\ StallAfter > 0 /\ Height > 0
  /\ \A c \in Cars : c \in 0 .. Height
  BY LiftAssumption

-----------------------------------------------------------------------------
(***************************************************************************)
(* Types                                                                   *)
(***************************************************************************)
\* What is sent starts the actuator or waits.
LEMMA SendType ==
  ASSUME TypeOK, NEW c \in Way \union {"stop"}, Send(c)
  PROVE  /\ motor' \in Way \union {"off", "still"}
         /\ ran' \in 0 .. Grace + 1 /\ idle' \in 0 .. HallTimeout + 1 /\ age' \in 0 .. Watchdog + 1
         /\ waiting' \in Way \union {"none", "stop"}
  BY LiftConstants DEF TypeOK, Send, Arrives, run

LEMMA JogOrStopType ==
  ASSUME TypeOK, NEW want \in Way \union {"none"}, NEW stops, JogOrStop(want, stops)
  PROVE  /\ jogging' \in Way \union {"none"}
         /\ motor' \in Way \union {"off", "still"}
         /\ ran' \in 0 .. Grace + 1 /\ idle' \in 0 .. HallTimeout + 1 /\ age' \in 0 .. Watchdog + 1
         /\ waiting' \in Way \union {"none", "stop"}
<1>1. CASE UNCHANGED <<waiting, run>>
  BY <1>1 DEF TypeOK, JogOrStop, run
<1>2. CASE Send(want) /\ want # "none"
  BY <1>2, SendType DEF JogOrStop
<1>3. CASE Send("stop")
  BY <1>3, SendType DEF JogOrStop
<1> QED BY <1>1, <1>2, <1>3 DEF JogOrStop

LEMMA WantedType == Wanted \in Way \union {"none"}
  BY DEF Wanted, Way

LEMMA MishapType ==
  ASSUME TypeOK, Mishap
  PROVE  /\ faults' \in 0 .. MaxFaults /\ clean' \in BOOLEAN
         /\ loose' \in 0 .. MaxLoose /\ push' \in 0 .. MaxPush
<1>1. clean' \in BOOLEAN
  BY DEF Mishap
<1>2. faults' \in 0 .. MaxFaults
  BY LiftConstants DEF TypeOK, Mishap
<1>3. loose' \in 0 .. MaxLoose /\ push' \in 0 .. MaxPush
  BY LiftConstants DEF Mishap, MaxLoose, MaxPush
<1> QED BY <1>1, <1>2, <1>3

\* The operator, the world and the link
LEMMA WorldType ==
  ASSUME TypeOK, \/ \E b \in Way : Hand(b)
                 \/ Park \/ Drive \/ EStop \/ Reset \/ LinkBreaks \/ LinkUp \/ NewClient
  PROVE  TypeOK'
<1> USE DEF TypeOK, panel, loop, heard, net, run, daemon, world
<1>1. CASE \E b \in Way : Hand(b)
  BY <1>1 DEF Hand, MaxLoose
<1>2. CASE Park
  BY <1>2, LiftConstants DEF Park
<1>3. CASE Drive
  BY <1>3 DEF Drive
<1>4. CASE EStop
  BY <1>4, MishapType, LiftConstants DEF EStop
<1>5. CASE Reset
  <2>1. estop' \in BOOLEAN
    BY <1>5 DEF Reset
  <2> QED BY <1>5, <2>1, LiftConstants DEF Reset
<1>6. CASE LinkBreaks
  <2>1. link' \in BOOLEAN /\ synced' \in BOOLEAN
    BY <1>6 DEF LinkBreaks
  <2> QED BY <1>6, <2>1, MishapType, LiftConstants DEF LinkBreaks
<1>7. CASE LinkUp
  BY <1>7, LiftConstants DEF LinkUp, Arrives
<1>8. CASE NewClient
  BY <1>8 DEF NewClient
<1> QED BY <1>1, <1>2, <1>3, <1>4, <1>5, <1>6, <1>7, <1>8

LEMMA PassType ==
  ASSUME TypeOK, Pass
  PROVE  TypeOK'
<1> DEFINE up == Wanted = "up"
           q == IF since THEN quiet ELSE 0
           stops == up /\ ~blocked /\ LiftBlocked(q)
<1>1. JogOrStop(IF blocked' THEN "none" ELSE Wanted, stops)
  BY DEF Pass
<1>2. /\ jogging' \in Way \union {"none"}
      /\ motor' \in Way \union {"off", "still"}
      /\ ran' \in 0 .. Grace + 1 /\ idle' \in 0 .. HallTimeout + 1 /\ age' \in 0 .. Watchdog + 1
      /\ waiting' \in Way \union {"none", "stop"}
  BY <1>1, JogOrStopType, WantedType
<1>3. since' \in BOOLEAN /\ blocked' \in BOOLEAN
  BY DEF Pass, Latch
<1>4. quiet' \in 0 .. StallAfter
  BY LiftConstants DEF Pass, TypeOK
<1>5. loose' \in 0 .. MaxLoose /\ push' \in 0 .. MaxPush
  BY LiftConstants DEF Pass, TypeOK, MaxLoose, MaxPush
<1>6. clean' \in BOOLEAN
  BY DEF Pass, TypeOK
<1> QED BY <1>2, <1>3, <1>4, <1>5, <1>6 DEF Pass, TypeOK, heard

\* The loop's other steps, and its process
LEMMA LoopType ==
  ASSUME TypeOK, IoHangs \/ IoAnswers \/ IoLost \/ IoBack \/ Kill \/ Restart
  PROVE  TypeOK'
<1> USE DEF TypeOK, panel, loop, heard, net, run, daemon, world
<1>1. CASE IoHangs
  BY <1>1, MishapType, LiftConstants DEF IoHangs
<1>2. CASE IoAnswers
  BY <1>2 DEF IoAnswers
<1>3. CASE IoLost
  <2>1. JogOrStop("none", FALSE) /\ "none" \in Way \union {"none"} /\ TypeOK
    BY <1>3 DEF IoLost
  <2>2. /\ jogging' \in Way \union {"none"}
        /\ motor' \in Way \union {"off", "still"}
        /\ ran' \in 0 .. Grace + 1 /\ idle' \in 0 .. HallTimeout + 1 /\ age' \in 0 .. Watchdog + 1
        /\ waiting' \in Way \union {"none", "stop"}
    BY <2>1, JogOrStopType
  <2> QED BY <1>3, <2>2 DEF IoLost
<1>4. CASE IoBack
  BY <1>4 DEF IoBack
<1>5. CASE Kill
  <2>1. /\ alive' \in BOOLEAN /\ looped' \in BOOLEAN /\ since' \in BOOLEAN
        /\ blocked' \in BOOLEAN /\ link' \in BOOLEAN /\ synced' \in BOOLEAN
    BY <1>5 DEF Kill
  <2>2. seen' \in [estop : BOOLEAN, amps : BOOLEAN]
    BY <1>5 DEF Kill, NoMessage
  <2> QED BY <1>5, <2>1, <2>2, MishapType, LiftConstants DEF Kill
<1>6. CASE Restart
  BY <1>6 DEF Restart
<1> QED BY <1>1, <1>2, <1>3, <1>4, <1>5, <1>6

LEMMA UptoType ==
  ASSUME NEW max \in Nat, NEW n \in 0 .. max
  PROVE  Upto(n, max) \in 0 .. max /\ (n < max => Upto(n, max) = n + 1)
  BY DEF Upto

LEMMA PosType ==
  ASSUME TypeOK, Tick
  PROVE  pos' \in 0 .. car /\ pos' - pos \in -1 .. 1
  BY LiftConstants DEF TypeOK, Tick, Free

LEMMA PollsType ==
  ASSUME TypeOK, Polls
  PROVE  /\ amps' \in BOOLEAN /\ motor' \in Way \union {"off", "still"}
         /\ ran' \in 0 .. Grace + 1 /\ idle' \in 0 .. HallTimeout + 1 /\ age' \in 0 .. Watchdog + 1
<1> DEFINE r == Upto(ran, Grace + 1)
           i == IF Free THEN 0 ELSE Upto(idle, HallTimeout + 1)
           a == IF driving THEN 0 ELSE Upto(age, Watchdog + 1)
<1>1. r \in 0 .. Grace + 1 /\ i \in 0 .. HallTimeout + 1 /\ a \in 0 .. Watchdog + 1
  BY LiftConstants DEF TypeOK, Upto
<1>2. amps' \in BOOLEAN
  BY DEF Polls, TypeOK
<1> HIDE DEF r, i, a
<1> QED BY <1>1, <1>2, LiftConstants DEF Polls, TypeOK, r, i, a

LEMMA ReportType ==
  ASSUME TypeOK, Report, pos' \in 0 .. car, amps' \in BOOLEAN
  PROVE  /\ synced' \in BOOLEAN /\ base' \in -1 .. Height
         /\ seen' \in [estop : BOOLEAN, amps : BOOLEAN] /\ quiet' \in 0 .. StallAfter
<1>1. quiet' \in 0 .. StallAfter
  BY LiftConstants DEF TypeOK, Report, Upto
<1>2. base' \in -1 .. Height
  BY LiftConstants DEF TypeOK, Report, heard
<1>3. seen' \in [estop : BOOLEAN, amps : BOOLEAN]
  BY DEF TypeOK, Report, heard
<1>4. synced' \in BOOLEAN
  BY DEF TypeOK, Report
<1> QED BY <1>1, <1>2, <1>3, <1>4

LEMMA TickType ==
  ASSUME TypeOK, Tick
  PROVE  TypeOK'
<1>1. Polls /\ Report
  BY DEF Tick
<1>2. loose' \in 0 .. MaxLoose
  BY LiftConstants DEF TypeOK, Tick, Upto, MaxLoose
<1>3. push' \in 0 .. MaxPush
  BY LiftConstants DEF TypeOK, Tick, Upto, MaxPush
<1>4. looped' \in BOOLEAN
  BY DEF Tick
<1>5. pos' \in 0 .. car
  BY PosType
<1>6. /\ amps' \in BOOLEAN /\ motor' \in Way \union {"off", "still"}
      /\ ran' \in 0 .. Grace + 1 /\ idle' \in 0 .. HallTimeout + 1 /\ age' \in 0 .. Watchdog + 1
  BY <1>1, PollsType
<1>7. /\ synced' \in BOOLEAN /\ base' \in -1 .. Height
      /\ seen' \in [estop : BOOLEAN, amps : BOOLEAN] /\ quiet' \in 0 .. StallAfter
  BY <1>1, <1>5, <1>6, ReportType
<1> QED BY <1>2, <1>3, <1>4, <1>5, <1>6, <1>7 DEF TypeOK, Tick

LEMMA NextCases ==
  ASSUME [Next]_vars
  PROVE  \/ \/ \E b \in Way : Hand(b)
            \/ Park \/ Drive \/ EStop \/ Reset \/ LinkBreaks \/ LinkUp \/ NewClient
         \/ Pass
         \/ IoHangs \/ IoAnswers \/ IoLost \/ IoBack \/ Kill \/ Restart
         \/ Tick
         \/ UNCHANGED vars
  BY DEF Next

\* Every variable keeps to its range, whatever goes wrong and how often.
THEOREM LiftTypeCorrect == Spec => []TypeOK
<1>1. Init => TypeOK
  <2> SUFFICES ASSUME Init PROVE TypeOK
    OBVIOUS
  <2>1. /\ alive \in BOOLEAN /\ looped \in BOOLEAN /\ since \in BOOLEAN /\ blocked \in BOOLEAN
        /\ link \in BOOLEAN /\ synced \in BOOLEAN /\ amps \in BOOLEAN /\ estop \in BOOLEAN
        /\ driving \in BOOLEAN /\ clean \in BOOLEAN
    BY DEF Init
  <2>2. seen \in [estop : BOOLEAN, amps : BOOLEAN]
    BY DEF Init, NoMessage
  <2> QED BY <2>1, <2>2, LiftConstants DEF Init, TypeOK, MaxLoose, MaxPush, Way
<1>2. TypeOK /\ [Next]_vars => TypeOK'
  <2> SUFFICES ASSUME TypeOK, [Next]_vars PROVE TypeOK'
    OBVIOUS
  <2>1. CASE UNCHANGED vars
    BY <2>1 DEF TypeOK, vars, panel, loop, heard, net, run, daemon, world
  <2> QED BY <2>1, NextCases, WorldType, PassType, LoopType, TickType
<1> QED BY <1>1, <1>2, PTL DEF Spec

-----------------------------------------------------------------------------
(***************************************************************************)
(* A clean press: what holds of the loop, the motor and what was heard.    *)
(* While the press is clean nothing is broken, the motor moves only for    *)
(* the command the loop remembers, and after a pass the lift is driven up  *)
(* exactly if the button asks for it and it is not blocked.                *)
(***************************************************************************)
PressInv ==
  /\ synced => link /\ alive /\ base - pos \in -1 .. 1
  /\ clean => synced /\ io = "on" /\ ~estop
  /\ blocked \/ jogging = "up" => since
  /\ clean /\ motor \in Way => jogging = motor
  /\ clean /\ looped /\ since /\ ~blocked => motor = "up"
  /\ clean /\ looped /\ motor = "up" => quiet < StallAfter

LEMMA PressOthers ==
  ASSUME TypeOK, PressInv,
         \/ \/ \E b \in Way : Hand(b)
            \/ Park \/ Drive \/ EStop \/ Reset \/ LinkBreaks \/ LinkUp \/ NewClient
         \/ IoHangs \/ IoAnswers \/ IoLost \/ IoBack \/ Kill \/ Restart
  PROVE  PressInv'
<1> USE DEF PressInv, panel, loop, heard, net, run, daemon, world
<1>1. CASE \E b \in Way : Hand(b)
  BY <1>1 DEF Hand
<1>2. CASE Park
  BY <1>2 DEF Park
<1>3. CASE Drive
  BY <1>3 DEF Drive
<1>4. CASE EStop
  BY <1>4 DEF EStop, Mishap
<1>5. CASE Reset
  BY <1>5 DEF Reset
<1>6. CASE LinkBreaks
  BY <1>6 DEF LinkBreaks, Mishap
<1>7. CASE LinkUp
  BY <1>7 DEF LinkUp
<1>8. CASE NewClient
  BY <1>8 DEF NewClient
<1>9. CASE IoHangs
  BY <1>9 DEF IoHangs, Mishap
<1>10. CASE IoAnswers
  BY <1>10 DEF IoAnswers
<1>11. CASE IoLost
  BY <1>11 DEF IoLost, JogOrStop
<1>12. CASE IoBack
  BY <1>12 DEF IoBack
<1>13. CASE Kill
  BY <1>13 DEF Kill, Mishap
<1>14. CASE Restart
  BY <1>14 DEF Restart
<1> QED BY <1>1, <1>2, <1>3, <1>4, <1>5, <1>6, <1>7, <1>8, <1>9, <1>10, <1>11, <1>12, <1>13, <1>14

\* What the jog or the stop of a pass does when everything works
LEMMA JogOrStopClean ==
  ASSUME link, ~estop, NEW want \in Way \union {"none"}, NEW stops, JogOrStop(want, stops)
  PROVE  /\ jogging' = want
         /\ want # "none" => motor' = want \/ (looped /\ jogging = want /\ motor' = motor)
         /\ want = "none" => motor' = "still" \/ (jogging = "none" /\ motor' = motor)
  BY DEF JogOrStop, Send, Arrives, run, Way

\* A pass that ends in a clean press: the latch and the time it found
LEMMA PassClean ==
  ASSUME TypeOK, PressInv, Pass, clean'
  PROVE  /\ synced /\ link /\ alive /\ io = "on" /\ ~estop
         /\ since' <=> Wanted = "up"
         /\ since' /\ ~blocked' => quiet' < StallAfter
         /\ ~since => ~blocked' /\ quiet' = 0
         /\ ~(since' /\ ~since) => clean
<1>1. synced /\ link /\ alive /\ io = "on" /\ ~estop
  BY DEF Pass, PressInv
<1>2. since' <=> Wanted = "up"
  BY DEF Pass, Latch
<1>3. since' /\ ~blocked' => quiet' < StallAfter
  BY LiftConstants DEF Pass, Latch, LiftBlocked, TypeOK
<1>4. ~since => ~blocked' /\ quiet' = 0
  <2> SUFFICES ASSUME ~since PROVE ~blocked' /\ quiet' = 0
    OBVIOUS
  <2>1. quiet' = 0
    BY DEF Pass
  <2>2. Wanted = "up" => ~seen.amps
    BY DEF Pass
  <2>3. ~blocked
    BY DEF PressInv
  <2>4. Wanted = "up" => ~LiftBlocked(0)
    BY <2>2, LiftConstants DEF LiftBlocked
  <2>5. blocked' => Wanted = "up" /\ (blocked \/ LiftBlocked(0))
    BY DEF Pass, Latch
  <2> QED BY <2>1, <2>3, <2>4, <2>5
<1>5. ~(since' /\ ~since) => clean
  BY DEF Pass, Latch
<1> QED BY <1>1, <1>2, <1>3, <1>4, <1>5

LEMMA PressPass ==
  ASSUME TypeOK, PressInv, Pass
  PROVE  PressInv'
<1> DEFINE want == IF blocked' THEN "none" ELSE Wanted
           stops == Wanted = "up" /\ ~blocked /\ LiftBlocked(IF since THEN quiet ELSE 0)
<1>1. want \in Way \union {"none"} /\ JogOrStop(want, stops)
  BY WantedType DEF Pass
<1>2. synced' => link' /\ alive' /\ (base - pos \in -1 .. 1)'
  BY DEF Pass, PressInv, heard
<1>3. blocked' => since'
  BY DEF Pass, Latch
<1>4. jogging' = want
  BY <1>1 DEF JogOrStop
<1>5. jogging' = "up" => since' /\ ~blocked'
  BY <1>4, <1>1 DEF Pass, Latch, Way
<1>6. ASSUME clean'
      PROVE  /\ synced' /\ io' = "on" /\ ~estop'
             /\ motor' \in Way => jogging' = motor'
             /\ since' /\ ~blocked' => motor' = "up"
             /\ motor' = "up" => quiet' < StallAfter
  <2>1. /\ synced /\ link /\ alive /\ io = "on" /\ ~estop
        /\ since' <=> Wanted = "up"
        /\ since' /\ ~blocked' => quiet' < StallAfter
        /\ ~since => ~blocked' /\ quiet' = 0
        /\ ~(since' /\ ~since) => clean
    BY <1>6, PassClean
  <2>2. synced' /\ io' = "on" /\ ~estop'
    BY <2>1 DEF Pass
  <2>3. /\ want # "none" => motor' = want \/ (looped /\ jogging = want /\ motor' = motor)
        /\ want = "none" => motor' = "still" \/ (jogging = "none" /\ motor' = motor)
    BY <1>1, <2>1, JogOrStopClean
  <2>4. motor' \in Way => jogging' = motor'
    <3>1. CASE since' /\ ~since
      BY <3>1, <1>4, <2>1, <2>3 DEF Way, PressInv
    <3>2. CASE ~(since' /\ ~since)
      BY <3>2, <1>4, <2>1, <2>3 DEF Way, PressInv
    <3> QED BY <3>1, <3>2
  <2>5. since' /\ ~blocked' => motor' = "up"
    <3> SUFFICES ASSUME since', ~blocked' PROVE motor' = "up"
      OBVIOUS
    <3>1. want = "up"
      BY <2>1
    <3>2. CASE looped /\ jogging = "up"
      <4>1. since /\ ~blocked /\ clean
        BY <3>2, <2>1 DEF Pass, Latch, PressInv
      <4> QED BY <3>1, <3>2, <2>3, <4>1 DEF PressInv
    <3> QED BY <3>1, <3>2, <2>3
  <2>6. motor' = "up" => quiet' < StallAfter
    BY <2>4, <2>1, <1>5 DEF Way
  <2> QED BY <2>2, <2>4, <2>5, <2>6
<1> QED BY <1>2, <1>3, <1>5, <1>6 DEF PressInv

LEMMA PressTick ==
  ASSUME TypeOK, PressInv, Tick
  PROVE  PressInv'
<1>1. pos' - pos \in -1 .. 1
  BY PosType
<1>2. synced' => link' /\ alive' /\ (base - pos \in -1 .. 1)'
  <2>1. CASE alive /\ link
    BY <2>1, <1>1, LiftConstants DEF Tick, Report, TypeOK
  <2>2. CASE ~(alive /\ link)
    BY <2>2 DEF Tick, Report, PressInv
  <2> QED BY <2>1, <2>2
<1>3. clean' => synced' /\ io' = "on" /\ ~estop'
  BY DEF Tick, Report, PressInv
<1>4. motor' \in Way => motor' = motor
  BY DEF Tick, Polls, Way
<1>5. ~looped' /\ blocked' = blocked /\ jogging' = jogging /\ since' = since /\ clean' = clean
  BY DEF Tick
<1> QED BY <1>2, <1>3, <1>4, <1>5 DEF PressInv

LEMMA PressStep == TypeOK /\ PressInv /\ [Next]_vars => PressInv'
<1> SUFFICES ASSUME TypeOK, PressInv, [Next]_vars PROVE PressInv'
  OBVIOUS
<1>1. CASE UNCHANGED vars
  BY <1>1 DEF PressInv, vars, panel, loop, heard, net, run, daemon, world
<1> QED BY <1>1, NextCases, PressOthers, PressPass, PressTick

LEMMA PressInvariant == Spec => []PressInv
<1>1. Init => PressInv
  BY DEF Init, PressInv, Way
<1> QED BY <1>1, PressStep, LiftTypeCorrect, PTL DEF Spec

-----------------------------------------------------------------------------
(***************************************************************************)
(* The release of the button                                               *)
(***************************************************************************)
ReleaseInv ==
  /\ loose <= 1
  /\ loose > 0 => clean /\ buttons = {}
  /\ loose > 0 /\ looped => motor \notin Way

LEMMA ReleaseOthers ==
  ASSUME TypeOK, PressInv, ReleaseInv,
         \/ \/ \E b \in Way : Hand(b)
            \/ Park \/ Drive \/ EStop \/ Reset \/ LinkBreaks \/ LinkUp \/ NewClient
         \/ IoHangs \/ IoAnswers \/ IoLost \/ IoBack \/ Kill \/ Restart
  PROVE  ReleaseInv'
<1> USE DEF ReleaseInv, panel, loop, heard, net, run, daemon, world
<1>1. CASE \E b \in Way : Hand(b)
  BY <1>1 DEF Hand
<1>2. CASE Park
  BY <1>2 DEF Park
<1>3. CASE Drive
  BY <1>3 DEF Drive
<1>4. CASE EStop
  BY <1>4 DEF EStop, Mishap
<1>5. CASE Reset
  BY <1>5 DEF Reset
<1>6. CASE LinkBreaks
  BY <1>6 DEF LinkBreaks, Mishap
<1>7. CASE LinkUp
  BY <1>7 DEF LinkUp, PressInv
<1>8. CASE NewClient
  BY <1>8 DEF NewClient
<1>9. CASE IoHangs
  BY <1>9 DEF IoHangs, Mishap
<1>10. CASE IoAnswers
  BY <1>10 DEF IoAnswers
<1>11. CASE IoLost
  BY <1>11 DEF IoLost, PressInv
<1>12. CASE IoBack
  BY <1>12 DEF IoBack
<1>13. CASE Kill
  BY <1>13 DEF Kill, Mishap
<1>14. CASE Restart
  BY <1>14 DEF Restart
<1> QED BY <1>1, <1>2, <1>3, <1>4, <1>5, <1>6, <1>7, <1>8, <1>9, <1>10, <1>11, <1>12, <1>13, <1>14

LEMMA ReleasePass ==
  ASSUME TypeOK, PressInv, ReleaseInv, Pass
  PROVE  ReleaseInv'
<1>1. loose' <= 1 /\ (loose' > 0 => loose' = loose /\ clean' = clean)
  BY DEF Pass, ReleaseInv
<1>2. ASSUME loose' > 0 PROVE clean' /\ buttons' = {} /\ motor' \notin Way
  <2>1. clean /\ clean' /\ buttons = {} /\ buttons' = {}
    BY <1>1, <1>2 DEF ReleaseInv, Pass
  <2>2. Wanted = "none"
    BY <2>1 DEF Wanted
  <2>3. link /\ ~estop
    BY <2>1 DEF PressInv
  <2>4. PICK stops : JogOrStop("none", stops)
    BY <2>2 DEF Pass
  <2>5. motor' = "still" \/ (jogging = "none" /\ motor' = motor)
    BY <2>3, <2>4, JogOrStopClean
  <2> QED BY <2>1, <2>5 DEF PressInv, Way
<1> QED BY <1>1, <1>2 DEF ReleaseInv

LEMMA ReleaseTick ==
  ASSUME TypeOK, PressInv, ReleaseInv, Tick
  PROVE  ReleaseInv'
<1>1. ~looped' /\ clean' = clean /\ buttons' = buttons
  BY DEF Tick
<1>2. CASE Held \/ motor \notin Way \/ ~clean
  BY <1>1, <1>2 DEF Tick, ReleaseInv
<1>3. CASE ~Held /\ motor \in Way /\ clean
  <2>1. alive /\ io = "on" /\ looped
    BY <1>3 DEF PressInv, Tick
  <2>2. loose = 0 /\ buttons = {}
    BY <1>3, <2>1 DEF ReleaseInv, TypeOK, Held
  <2>3. loose' = 1
    BY <1>3, <2>2 DEF Tick, Upto, MaxLoose
  <2> QED BY <1>1, <1>3, <2>2, <2>3 DEF ReleaseInv
<1> QED BY <1>2, <1>3

\* When the button is let go, and nothing has gone wrong since it was pressed,
\* the lift has stopped by the end of the next tick.
THEOREM ReleaseAlwaysStops == Spec => []ReleaseStops
<1>1. Init => ReleaseInv
  BY DEF Init, ReleaseInv
<1>2. TypeOK /\ PressInv /\ ReleaseInv /\ [Next]_vars => ReleaseInv'
  <2> SUFFICES ASSUME TypeOK, PressInv, ReleaseInv, [Next]_vars PROVE ReleaseInv'
    OBVIOUS
  <2>1. CASE UNCHANGED vars
    BY <2>1 DEF ReleaseInv, vars, panel, loop, heard, net, run, daemon, world
  <2> QED BY <2>1, NextCases, ReleaseOthers, ReleasePass, ReleaseTick
<1>3. ReleaseInv => ReleaseStops
  BY DEF ReleaseInv, ReleaseStops
<1> QED BY <1>1, <1>2, <1>3, LiftTypeCorrect, PressInvariant, PTL DEF Spec

-----------------------------------------------------------------------------
(***************************************************************************)
(* The push against the car                                                *)
(***************************************************************************)
PushInv ==
  /\ push > 0 => clean /\ base = pos
  /\ push > 0 /\ since => push <= quiet + 1
  /\ push <= StallAfter + 1

LEMMA PushOthers ==
  ASSUME TypeOK, PressInv, PushInv,
         \/ \/ \E b \in Way : Hand(b)
            \/ Park \/ Drive \/ EStop \/ Reset \/ LinkBreaks \/ LinkUp \/ NewClient
         \/ IoHangs \/ IoAnswers \/ IoLost \/ IoBack \/ Kill \/ Restart
  PROVE  PushInv'
<1> USE LiftConstants DEF PushInv, panel, loop, heard, net, run, daemon, world
<1>1. CASE \E b \in Way : Hand(b)
  BY <1>1 DEF Hand
<1>2. CASE Park
  BY <1>2 DEF Park
<1>3. CASE Drive
  BY <1>3 DEF Drive
<1>4. CASE EStop
  BY <1>4 DEF EStop, Mishap
<1>5. CASE Reset
  BY <1>5 DEF Reset
<1>6. CASE LinkBreaks
  BY <1>6 DEF LinkBreaks, Mishap
<1>7. CASE LinkUp
  BY <1>7 DEF LinkUp, PressInv, TypeOK
<1>8. CASE NewClient
  BY <1>8 DEF NewClient
<1>9. CASE IoHangs
  BY <1>9 DEF IoHangs, Mishap
<1>10. CASE IoAnswers
  BY <1>10 DEF IoAnswers
<1>11. CASE IoLost
  BY <1>11 DEF IoLost, PressInv, TypeOK
<1>12. CASE IoBack
  BY <1>12 DEF IoBack
<1>13. CASE Kill
  BY <1>13 DEF Kill, Mishap
<1>14. CASE Restart
  BY <1>14 DEF Restart
<1> QED BY <1>1, <1>2, <1>3, <1>4, <1>5, <1>6, <1>7, <1>8, <1>9, <1>10, <1>11, <1>12, <1>13, <1>14

LEMMA PushPass ==
  ASSUME TypeOK, PressInv, PushInv, Pass
  PROVE  PushInv'
<1>1. push' = 0 \/ (push' = push /\ clean' = clean /\ ~(since' /\ ~since))
  BY DEF Pass, Latch
<1>2. base' = base /\ pos' = pos /\ push' <= StallAfter + 1
  BY <1>1, LiftConstants DEF Pass, heard, PushInv
<1>3. since' /\ since => quiet' = quiet
  BY DEF Pass, Latch
<1> QED BY <1>1, <1>2, <1>3, LiftConstants DEF PushInv

LEMMA OneMore ==
  ASSUME NEW a \in Nat, NEW b \in Nat PROVE /\ a <= 1 => a <= b + 1
                                           /\ \A c \in Nat : a <= b + 1 /\ b <= c => a <= c + 1
  OBVIOUS

\* A tick that pushes is one of a press, after a pass that found less than the
\* stall time, and the state message of it cannot tell of an advance.
LEMMA PushTick ==
  ASSUME TypeOK, PressInv, PushInv, Tick
  PROVE  PushInv'
<1>1. CASE ~(Pushes /\ clean)
  BY <1>1, LiftConstants DEF Tick, PushInv
<1>2. CASE Pushes /\ clean
  <2>1. motor = "up" /\ pos = car /\ clean /\ ~Free
    <3>1. motor = "up" /\ pos = car /\ clean
      BY <1>2 DEF Pushes
    <3>2. ~(pos < car)
      BY <3>1, LiftConstants DEF TypeOK
    <3> QED BY <3>1, <3>2 DEF Free
  <2>2. synced /\ link /\ alive /\ io = "on"
    BY <2>1 DEF PressInv
  <2>3. looped
    BY <2>2 DEF Tick
  <2>4. since /\ quiet < StallAfter
    BY <2>1, <2>3 DEF PressInv, Way
  <2>5. pos' = pos /\ since' = since /\ clean' = clean
    BY <2>1 DEF Tick
  <2>6. /\ base' = pos
        /\ quiet' = IF pos <= base THEN Upto(quiet, StallAfter) ELSE 0
    BY <2>2, <2>4, <2>5 DEF Tick, Report
  <2>7. push \in Nat /\ quiet \in Nat /\ pos \in Nat /\ push <= StallAfter + 1
    BY LiftConstants DEF TypeOK, PushInv
  <2>8. push' \in Nat /\ push' <= push + 1
    BY <1>2, <2>7, LiftConstants DEF Tick, Upto, MaxPush
  <2>9. push > 0 => quiet' = quiet + 1
    BY <2>4, <2>6, <2>7, LiftConstants DEF PushInv, Upto
  <2>10. quiet' \in 0 .. StallAfter
    BY <2>4, <2>6, <2>7, LiftConstants DEF Upto
  <2>11. push > 0 => push <= quiet + 1
    BY <2>4 DEF PushInv
  <2>12. push' <= quiet' + 1
    <3>1. CASE push > 0
      BY <3>1, <2>7, <2>8, <2>9, <2>11
    <3>2. CASE push = 0
      <4>1. push' <= 1
        BY <3>2, <2>8
      <4>2. push' \in Nat /\ quiet' \in Nat
        BY <2>8, <2>10, LiftConstants
      <4> QED BY <4>1, <4>2, OneMore, Zenon
    <3> QED BY <3>1, <3>2, <2>7
  <2>13. push' <= StallAfter + 1
    <3>1. push' \in Nat /\ quiet' \in Nat /\ quiet' <= StallAfter /\ StallAfter \in Nat
      BY <2>8, <2>10, LiftConstants
    <3> QED BY <3>1, <2>12, OneMore, Zenon
  <2> QED BY <2>1, <2>5, <2>6, <2>12, <2>13 DEF PushInv
<1> QED BY <1>1, <1>2

\* In a press in which nothing goes wrong the lift pushes against the car for at
\* most one tick longer than the stall time.
THEOREM PushAlwaysBounded == Spec => []PushIsBounded
<1>1. Init => PushInv
  BY LiftConstants DEF Init, PushInv
<1>2. TypeOK /\ PressInv /\ PushInv /\ [Next]_vars => PushInv'
  <2> SUFFICES ASSUME TypeOK, PressInv, PushInv, [Next]_vars PROVE PushInv'
    OBVIOUS
  <2>1. CASE UNCHANGED vars
    BY <2>1 DEF PushInv, vars, panel, loop, heard, net, run, daemon, world
  <2> QED BY <2>1, NextCases, PushOthers, PushPass, PushTick
<1>3. PushInv => PushIsBounded
  BY DEF PushInv, PushIsBounded
<1> QED BY <1>1, <1>2, <1>3, LiftTypeCorrect, PressInvariant, PTL DEF Spec

-----------------------------------------------------------------------------
(***************************************************************************)
(* The climb.  While the lift can go on up, the advance a late message     *)
(* still hides and the ticks without one cannot both grow.                 *)
(***************************************************************************)
ClimbInv == clean /\ since /\ ~blocked /\ pos < car => quiet + base - pos <= 1

LEMMA ClimbOthers ==
  ASSUME TypeOK, PressInv, ClimbInv,
         \/ \/ \E b \in Way : Hand(b)
            \/ Park \/ Drive \/ EStop \/ Reset \/ LinkBreaks \/ LinkUp \/ NewClient
         \/ IoHangs \/ IoAnswers \/ IoLost \/ IoBack \/ Kill \/ Restart
  PROVE  ClimbInv'
<1> USE DEF ClimbInv, panel, loop, heard, net, run, daemon, world
<1>1. CASE \E b \in Way : Hand(b)
  BY <1>1 DEF Hand
<1>2. CASE Park
  BY <1>2 DEF Park
<1>3. CASE Drive
  BY <1>3 DEF Drive
<1>4. CASE EStop
  BY <1>4 DEF EStop, Mishap
<1>5. CASE Reset
  BY <1>5 DEF Reset
<1>6. CASE LinkBreaks
  BY <1>6 DEF LinkBreaks, Mishap
<1>7. CASE LinkUp
  BY <1>7 DEF LinkUp
<1>8. CASE NewClient
  BY <1>8 DEF NewClient
<1>9. CASE IoHangs
  BY <1>9 DEF IoHangs, Mishap
<1>10. CASE IoAnswers
  BY <1>10 DEF IoAnswers
<1>11. CASE IoLost
  BY <1>11 DEF IoLost
<1>12. CASE IoBack
  BY <1>12 DEF IoBack
<1>13. CASE Kill
  BY <1>13 DEF Kill, Mishap
<1>14. CASE Restart
  BY <1>14 DEF Restart
<1> QED BY <1>1, <1>2, <1>3, <1>4, <1>5, <1>6, <1>7, <1>8, <1>9, <1>10, <1>11, <1>12, <1>13, <1>14

LEMMA ClimbPass ==
  ASSUME TypeOK, PressInv, ClimbInv, Pass
  PROVE  ClimbInv'
<1> SUFFICES ASSUME clean', since', ~blocked', pos' < car' PROVE (quiet + base - pos <= 1)'
  BY DEF ClimbInv
<1>1. base' = base /\ pos' = pos /\ car' = car
  BY DEF Pass, heard
<1>2. CASE ~since
  <2>1. quiet' = 0
    BY <1>2, PassClean
  <2>2. synced
    BY PassClean
  <2> QED BY <1>1, <2>1, <2>2, LiftConstants DEF PressInv, TypeOK
<1>3. CASE since
  <2>1. clean /\ quiet' = quiet /\ ~blocked
    BY <1>3 DEF Pass, Latch
  <2> QED BY <1>1, <1>3, <2>1 DEF ClimbInv
<1> QED BY <1>2, <1>3

LEMMA ClimbTick ==
  ASSUME TypeOK, PressInv, ClimbInv, Tick
  PROVE  ClimbInv'
<1> SUFFICES ASSUME clean', since', ~blocked', pos' < car' PROVE (quiet + base - pos <= 1)'
  BY DEF ClimbInv
<1>1. clean /\ since /\ ~blocked /\ car' = car /\ alive /\ link /\ looped /\ motor = "up"
  BY DEF Tick, PressInv
<1>2. Free /\ pos' = pos + 1
  BY <1>1, PosType, LiftConstants DEF Tick, Free, TypeOK
<1>3. quiet + base - pos <= 1 /\ base - pos \in -1 .. 1
  BY <1>1, <1>2 DEF ClimbInv, Free, PressInv
<1>4. PICK p \in {pos, pos'} : base' = p /\ quiet' = IF p <= base THEN Upto(quiet, StallAfter) ELSE 0
  BY <1>1 DEF Tick, Report
<1>5. Upto(quiet, StallAfter) <= quiet + 1
  BY LiftConstants DEF Upto, TypeOK
<1>6. quiet \in Nat /\ pos \in Nat /\ base \in Int /\ Upto(quiet, StallAfter) \in Nat
  BY LiftConstants DEF TypeOK, Upto
<1>7. CASE p <= base
  BY <1>2, <1>3, <1>4, <1>5, <1>6, <1>7
<1>8. CASE p > base
  BY <1>2, <1>3, <1>4, <1>6, <1>8
<1> QED BY <1>2, <1>4, <1>6, <1>7, <1>8

LEMMA ClimbInvariant == Spec => []ClimbInv
<1>1. Init => ClimbInv
  BY DEF Init, ClimbInv
<1>2. TypeOK /\ PressInv /\ ClimbInv /\ [Next]_vars => ClimbInv'
  <2> SUFFICES ASSUME TypeOK, PressInv, ClimbInv, [Next]_vars PROVE ClimbInv'
    OBVIOUS
  <2>1. CASE UNCHANGED vars
    BY <2>1 DEF ClimbInv, vars, panel, loop, heard, net, run, daemon, world
  <2> QED BY <2>1, NextCases, ClimbOthers, ClimbPass, ClimbTick
<1> QED BY <1>1, <1>2, LiftTypeCorrect, PressInvariant, PTL DEF Spec

\* If the stall time is at least three periods of the state, a lift that can still
\* go up is never declared to have arrived.
THEOREM ArrivedAlwaysMeansArrived == StallAfter >= 3 => (Spec => ArrivedMeansArrived)
<1> SUFFICES ASSUME StallAfter >= 3 PROVE Spec => ArrivedMeansArrived
  OBVIOUS
<1> DEFINE Arrives_ == ~blocked /\ blocked' /\ clean /\ ~seen.amps => pos = car
<1>1. TypeOK /\ PressInv /\ ClimbInv /\ [Next]_vars => Arrives_
  <2> SUFFICES ASSUME TypeOK, PressInv, ClimbInv, [Next]_vars,
                      ~blocked, blocked', clean, ~seen.amps
               PROVE  pos = car
    OBVIOUS
  <2>1. Pass
    BY NextCases DEF Hand, Park, Drive, EStop, Reset, LinkBreaks, LinkUp, NewClient, IoHangs,
       IoAnswers, IoLost, IoBack, Kill, Restart, Tick, loop, vars
  <2>2. LiftBlocked(IF since THEN quiet ELSE 0)
    BY <2>1 DEF Pass, Latch
  <2>3. since /\ quiet >= StallAfter
    BY <2>2, LiftConstants DEF LiftBlocked
  <2>4. base - pos \in -1 .. 1
    BY DEF PressInv
  <2> QED BY <2>3, <2>4, LiftConstants DEF ClimbInv, TypeOK
<1>2. [](TypeOK /\ PressInv /\ ClimbInv) /\ [][Next]_vars => ArrivedMeansArrived
  BY <1>1, PTL DEF ArrivedMeansArrived
<1> QED BY <1>2, LiftTypeCorrect, PressInvariant, ClimbInvariant, PTL DEF Spec

-----------------------------------------------------------------------------
(***************************************************************************)
(* Lift implements SafeStop.  Whatever reaches the actuator over the link  *)
(* is one command, refused by the e-stop or not; a period may only end a   *)
(* run.                                                                    *)
(***************************************************************************)
SafeNow == UNCHANGED <<motor, estop>>

LEMMA StutterIsSafe == SafeNow => Safe!SafeNext \/ UNCHANGED Safe!safeVars
BY DEF SafeNow, Safe!safeVars

\* A command that arrives is Command, or is refused.
LEMMA ArrivesIsCommand ==
  ASSUME NEW c, Arrives(c), estop' = estop
  PROVE  Safe!SafeNext \/ UNCHANGED Safe!safeVars
<1>1. CASE estop
  BY <1>1, StutterIsSafe DEF Arrives, run, SafeNow
<1>2. CASE ~estop
  BY <1>2 DEF Safe!SafeNext, Safe!Command
<1> QED BY <1>1, <1>2

LEMMA SendIsCommand ==
  ASSUME NEW c, Send(c), estop' = estop
  PROVE  Safe!SafeNext \/ UNCHANGED Safe!safeVars
BY ArrivesIsCommand, StutterIsSafe DEF Send, run, SafeNow

LEMMA JogOrStopIsCommand ==
  ASSUME NEW want, NEW stops, JogOrStop(want, stops), estop' = estop
  PROVE  Safe!SafeNext \/ UNCHANGED Safe!safeVars
BY SendIsCommand, StutterIsSafe DEF JogOrStop, run, SafeNow

LEMMA LiftStepIsSafe ==
  ASSUME estop \in BOOLEAN, [Next]_vars
  PROVE  Safe!SafeNext \/ UNCHANGED Safe!safeVars
<1> USE DEF panel, loop, heard, net, run, daemon, world
<1>1. CASE EStop
  BY <1>1 DEF EStop, Safe!SafeNext, Safe!EmergencyStop
<1>2. CASE Reset
  BY <1>2 DEF Reset, Safe!SafeNext, Safe!Release
<1>3. CASE LinkUp
  <2>1. estop' = estop /\ (UNCHANGED motor \/ Arrives(waiting))
    BY <1>3 DEF LinkUp
  <2> QED BY <2>1, ArrivesIsCommand, StutterIsSafe DEF SafeNow
<1>4. CASE Pass
  <2>1. estop' = estop /\ \E want, stops : JogOrStop(want, stops)
    BY <1>4 DEF Pass
  <2> QED BY <2>1, JogOrStopIsCommand
<1>5. CASE IoLost
  <2>1. estop' = estop /\ JogOrStop("none", FALSE)
    BY <1>5 DEF IoLost
  <2> QED BY <2>1, JogOrStopIsCommand
<1>6. CASE Tick
  <2>1. estop' = estop /\ motor' \in {motor, "off"}
    BY <1>6 DEF Tick, Polls
  <2>2. CASE motor' = motor
    BY <2>1, <2>2, StutterIsSafe DEF SafeNow
  <2>3. CASE motor' = "off"
    BY <2>1, <2>3 DEF Safe!SafeNext, Safe!Ease
  <2> QED BY <2>1, <2>2, <2>3
<1>7. CASE \/ \E b \in Way : Hand(b)
           \/ Park \/ Drive \/ LinkBreaks \/ NewClient
           \/ IoHangs \/ IoAnswers \/ IoBack \/ Kill \/ Restart \/ UNCHANGED vars
  <2>1. SafeNow
    BY <1>7 DEF Hand, Park, Drive, LinkBreaks, NewClient, IoHangs, IoAnswers, IoBack, Kill,
                Restart, vars, SafeNow
  <2> QED BY <2>1, StutterIsSafe
<1> QED BY <1>1, <1>2, <1>3, <1>4, <1>5, <1>6, <1>7 DEF Next

\* The lift, with its buttons, their loop and the link, implements SafeStop.
THEOREM LiftImplementsSafeStop == Spec => ImplementsSafeStop
<1>1. Init => Safe!SafeInit
  BY DEF Init, Safe!SafeInit
<1>2. TypeOK /\ [Next]_vars => [Safe!SafeNext]_Safe!safeVars
  BY LiftStepIsSafe DEF TypeOK
<1> QED BY <1>1, <1>2, LiftTypeCorrect, PTL DEF Spec, ImplementsSafeStop, Safe!SafeSpec
=================================================================================
