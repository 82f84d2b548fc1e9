---------------------------------- MODULE Lift ----------------------------------
(***************************************************************************)
(* The lift, from the buttons to the shaft: the loop of crevis_io.py over  *)
(* the Modbus inputs, its broker link (mqtt_link.py), and the actuator the *)
(* daemon drives for it (actuator.hpp, robot.hpp).  The actuator is the    *)
(* one of module Actuator, seen from outside: moved or not in a tick.      *)
(*                                                                         *)
(* A tick is one period of the repeated command, in which the loop makes   *)
(* one pass or more.  What is sent over a link that is up arrives at once; *)
(* over a broken one it waits with its client, of which the last counts,   *)
(* or goes with it.  A step of the shaft is more than STALL_MIN_ADV        *)
(* counts, and going up counts up, as crevis_io.py takes it.               *)
(***************************************************************************)
EXTENDS Integers

CONSTANTS
  Height,      \* steps from the bottom to the top end of the stroke
  Cars,        \* how far up it can go: under the cars there are, or under none
  StallAfter,  \* STALL_S, in ticks
  Grace,       \* start_grace, in ticks
  HallTimeout, \* hall_timeout, in ticks
  Watchdog,    \* watchdog, in ticks
  MaxFaults    \* bound of the instance: how often something goes wrong

ASSUME LiftAssumption ==
  /\ {Height, StallAfter, Grace, HallTimeout, Watchdog} \subseteq Nat \ {0} /\ MaxFaults \in Nat
  /\ Height \in Cars /\ Cars \subseteq 0 .. Height

VARIABLES
  faults,   \* what has gone wrong so far
  buttons,  \* the pressed ones of "up" and "down"
  alive,    \* crevis_io.py runs
  io,       \* the Modbus connection: "on", "hung" in a request, or "off"
  looped,   \* the loop made a pass in this tick, so that last_pub is fresh
  jogging,  \* jogging
  since,    \* up_since is set
  quiet,    \* ticks since adv_t or up_since, whichever is later
  blocked,  \* blocked
  base,     \* adv_pos; -1 before the first state message
  seen,     \* the last state message: estop, and whether act_cur is over the limit
  link,     \* the link to the broker is up
  synced,   \* a state message has come since it is up
  waiting,  \* the last command that waits in the client for the link
  motor,    \* the daemon's actuator: off, up, down, or still: running at duty 0
  ran,      \* ticks since t0_
  idle,     \* ticks since the last edge
  age,      \* ticks since cmd_at_
  amps,     \* i_avg_ is over the limit of crevis_io.py
  estop,    \* estopped_
  driving,  \* another controller drives the robot, which refreshes cmd_at_
  pos,      \* where the lift is, and the count
  car,      \* how far up it can go now
  clean,    \* nothing has gone wrong since the button was pressed
  loose,    \* while clean: ticks the lift has moved on without a button
  push      \* while clean: ticks the motor has pushed against the car

panel == <<buttons, alive, io, looped>>
loop == <<jogging, since, quiet, blocked>>
heard == <<base, seen>>
net == <<link, synced, waiting>>
run == <<motor, ran, idle, age>>
daemon == <<run, amps, estop, driving>>
world == <<pos, car, clean, loose, push>>
vars == <<faults, panel, loop, heard, net, daemon, world>>

Way == {"up", "down"}
Upto(n, max) == IF n < max THEN n + 1 ELSE max
MaxLoose == 2
MaxPush == StallAfter + 3

\* Every variable keeps to its range; ages saturate.
TypeOK ==
  /\ faults \in 0 .. MaxFaults
  /\ buttons \in SUBSET Way
  /\ alive \in BOOLEAN /\ io \in {"on", "hung", "off"} /\ looped \in BOOLEAN
  /\ jogging \in Way \union {"none"} /\ since \in BOOLEAN
  /\ quiet \in 0 .. StallAfter /\ blocked \in BOOLEAN
  /\ base \in -1 .. Height /\ seen \in [estop : BOOLEAN, amps : BOOLEAN]
  /\ link \in BOOLEAN /\ synced \in BOOLEAN /\ waiting \in Way \union {"none", "stop"}
  /\ motor \in Way \union {"off", "still"}
  /\ ran \in 0 .. Grace + 1 /\ idle \in 0 .. HallTimeout + 1 /\ age \in 0 .. Watchdog + 1
  /\ amps \in BOOLEAN /\ estop \in BOOLEAN /\ driving \in BOOLEAN
  /\ pos \in 0 .. car /\ car \in Cars
  /\ clean \in BOOLEAN /\ loose \in 0 .. MaxLoose /\ push \in 0 .. MaxPush

NoMessage == [estop |-> FALSE, amps |-> FALSE]

Init ==
  /\ faults = 0 /\ buttons = {} /\ alive = TRUE /\ io = "off" /\ looped = FALSE
  /\ jogging = "none" /\ since = FALSE /\ quiet = 0 /\ blocked = FALSE
  /\ base = -1 /\ seen = NoMessage
  /\ link = FALSE /\ synced = FALSE /\ waiting = "none"
  /\ motor = "off" /\ ran = 0 /\ idle = 0 /\ age = 0 /\ amps = FALSE
  /\ estop = FALSE /\ driving = FALSE
  /\ pos = 0 /\ car \in Cars /\ clean = FALSE /\ loose = 0 /\ push = 0

-----------------------------------------------------------------------------
(***************************************************************************)
(* The operator and the world                                              *)
(***************************************************************************)
Hand(b) ==
  /\ buttons' = IF b \in buttons THEN buttons \ {b} ELSE buttons \union {b}
  /\ loose' = 0
  /\ UNCHANGED <<faults, alive, io, looped, loop, heard, net, daemon, pos, car, clean, push>>

\* Something goes wrong: what is counted of the press so far is forgotten.
Mishap ==
  /\ faults < MaxFaults /\ faults' = faults + 1
  /\ clean' = FALSE /\ loose' = 0 /\ push' = 0

\* Another car comes over the lift, while it rests and nobody wants it up.
Park ==
  /\ motor = "off" /\ buttons = {} /\ ~since /\ car' \in {c \in Cars : c >= pos}
  /\ UNCHANGED <<faults, panel, loop, heard, net, daemon, pos, clean, loose, push>>

Drive ==
  /\ driving' = ~driving
  /\ UNCHANGED <<faults, panel, loop, heard, net, run, amps, estop, world>>

\* The console's emergency stop and its reset
EStop ==
  /\ ~estop /\ estop' = TRUE /\ motor' = "off" /\ ran' = 0 /\ idle' = 0 /\ age' = 0
  /\ Mishap
  /\ UNCHANGED <<panel, loop, heard, net, amps, driving, pos, car>>

Reset ==
  /\ estop /\ estop' = FALSE /\ age' = 0
  /\ UNCHANGED <<faults, panel, loop, heard, net, motor, ran, idle, amps, driving, world>>

-----------------------------------------------------------------------------
(***************************************************************************)
(* The link                                                                *)
(***************************************************************************)
\* Mutant: a stop is taken for one more direction.
ArrivesAsItIs(c) ==
  IF estop THEN UNCHANGED run
  ELSE motor' = c /\ ran' = 0 /\ idle' = 0 /\ age' = 0

\* actuatorStart(): the e-stop refuses it; each start begins the grace anew.
Arrives(c) ==
  IF estop THEN UNCHANGED run
  ELSE /\ motor' = IF c = "stop" THEN "still" ELSE c
       /\ ran' = 0 /\ idle' = 0 /\ age' = 0

Send(c) ==
  IF link THEN Arrives(c) /\ UNCHANGED waiting ELSE waiting' = c /\ UNCHANGED run

LinkBreaks ==
  /\ link /\ link' = FALSE /\ synced' = FALSE /\ Mishap
  /\ UNCHANGED <<panel, loop, heard, waiting, daemon, pos, car>>

\* The client connects, and sends what has waited with it.
LinkUp ==
  /\ alive /\ ~link /\ link' = TRUE /\ waiting' = "none"
  /\ IF waiting = "none" THEN UNCHANGED run ELSE Arrives(waiting)
  /\ UNCHANGED <<faults, panel, loop, heard, synced, amps, estop, driving, world>>

\* tick() opens a new client; what the old one had not sent is gone.
NewClient ==
  /\ alive /\ ~link /\ waiting # "none" /\ waiting' = "none"
  /\ UNCHANGED <<faults, panel, loop, heard, link, synced, daemon, world>>

-----------------------------------------------------------------------------
(***************************************************************************)
(* The loop of crevis_io.py                                                *)
(***************************************************************************)
\* decide(), and the e-stop as the last state message told it
Wanted ==
  IF seen.estop \/ buttons \in {{}, Way} THEN "none"
  ELSE IF "up" \in buttons THEN "up" ELSE "down"

\* Mutant: only the current tells that the lift is blocked.
BlockedByCurrent(q) == seen.amps

\* lift_blocked(), quiet taken from the press on
LiftBlocked(q) == seen.amps \/ q >= StallAfter

\* Mutant: the stop is left to the daemon.
JogAlone(want, stops) ==
  /\ jogging' = want
  /\ IF want # "none" /\ (want # jogging \/ ~looped) THEN Send(want) ELSE UNCHANGED <<waiting, run>>

\* The repeated jog, or the explicit stop after the last one
JogOrStop(want, stops) ==
  /\ jogging' = want
  /\ IF want # "none"
     THEN IF want # jogging \/ ~looped THEN Send(want) ELSE UNCHANGED <<waiting, run>>
     ELSE IF jogging # "none" \/ stops THEN Send("stop") ELSE UNCHANGED <<waiting, run>>

\* Mutant: the blocked lift counts as one nobody wants up.
Unlatched(up, stops) == blocked' = stops /\ since' = (up /\ ~stops)

\* A release, the second button or an e-stop releases the latch.
Latch(up, stops) == blocked' = (up /\ (blocked \/ stops)) /\ since' = up

\* One pass of the loop.  A press starts the time over.
Pass ==
  /\ alive /\ io = "on" /\ looped' = TRUE
  /\ LET up == Wanted = "up"
         q == IF since THEN quiet ELSE 0
         stops == up /\ ~blocked /\ LiftBlocked(q) IN
       /\ Latch(up, stops) /\ quiet' = (IF up THEN q ELSE 0)
       /\ JogOrStop(IF blocked' THEN "none" ELSE Wanted, stops)
       /\ IF up /\ ~since
          THEN loose' = 0 /\ push' = 0 /\ clean' = (link /\ synced /\ ~estop /\ ~seen.amps)
          ELSE UNCHANGED <<loose, push, clean>>
  /\ UNCHANGED <<faults, buttons, alive, io, heard, link, synced, amps, estop, driving, pos, car>>

IoHangs ==
  /\ alive /\ io = "on" /\ io' = "hung" /\ Mishap
  /\ UNCHANGED <<buttons, alive, looped, loop, heard, net, daemon, pos, car>>

IoAnswers ==
  /\ io = "hung" /\ io' = "on"
  /\ UNCHANGED <<faults, buttons, alive, looped, loop, heard, net, daemon, world>>

\* The request failed: the lift is stopped, the latch and up_since stay.
IoLost ==
  /\ io = "hung" /\ io' = "off" /\ JogOrStop("none", FALSE)
  /\ UNCHANGED <<faults, buttons, alive, looped, since, quiet, blocked, heard,
                 link, synced, amps, estop, driving, world>>

IoBack ==
  /\ alive /\ io = "off" /\ io' = "on"
  /\ UNCHANGED <<faults, buttons, alive, looped, loop, heard, net, daemon, world>>

\* The process dies without its finally, as it does on SIGTERM; it starts anew.
Kill ==
  /\ alive /\ alive' = FALSE /\ io' = "off" /\ looped' = FALSE
  /\ jogging' = "none" /\ since' = FALSE /\ quiet' = 0 /\ blocked' = FALSE
  /\ base' = -1 /\ seen' = NoMessage
  /\ link' = FALSE /\ synced' = FALSE /\ waiting' = "none" /\ Mishap
  /\ UNCHANGED <<buttons, daemon, pos, car>>

Restart ==
  /\ ~alive /\ alive' = TRUE
  /\ UNCHANGED <<faults, buttons, io, looped, loop, heard, net, daemon, world>>

-----------------------------------------------------------------------------
(***************************************************************************)
(* The daemon, and time                                                    *)
(***************************************************************************)
Free == (motor = "up" /\ pos < car) \/ (motor = "down" /\ pos > 0)
Pushes == motor = "up" /\ pos = car /\ car < Height
Held == buttons # {} /\ alive

\* Mutant: no end of the stroke is found.
NeverEnds(r, i) == FALSE

\* poll(): a silent encoder ends the run.
EndsRun(r, i) == r > Grace /\ i > HallTimeout
WatchdogFires(a) == a > Watchdog

\* poll() of the actuator, the watchdog, and the current, which is taken only
\* while the actuator runs; a current over its own limit trips the actuator too.
Polls ==
  LET runs == motor # "off"
      r == Upto(ran, Grace + 1)
      i == IF Free THEN 0 ELSE Upto(idle, HallTimeout + 1)
      a == IF driving THEN 0 ELSE Upto(age, Watchdog + 1) IN
    \E over, trip \in BOOLEAN :
      /\ over => Pushes
      /\ trip => over
      /\ amps' = IF runs THEN over ELSE amps
      /\ IF runs /\ ~(trip \/ EndsRun(r, i) \/ WatchdogFires(a))
         THEN motor' = motor /\ ran' = r /\ idle' = i /\ age' = a
         ELSE motor' = "off" /\ ran' = 0 /\ idle' = 0 /\ age' = 0

\* Mutant: the time of the last advance is not kept.
ReportWithoutAdvance ==
  /\ quiet' = IF since THEN Upto(quiet, StallAfter) ELSE 0
  /\ IF alive /\ link
     THEN \E p \in {pos, pos'}, c \in {amps, amps'} :
            synced' = TRUE /\ base' = p /\ seen' = [estop |-> estop, amps |-> c]
     ELSE UNCHANGED <<synced, heard>>

\* on_message(): the state of this period, from its end or from its beginning
Report ==
  IF alive /\ link
  THEN \E p \in {pos, pos'}, c \in {amps, amps'} :
         /\ synced' = TRUE /\ base' = p /\ seen' = [estop |-> estop, amps |-> c]
         /\ quiet' = IF since /\ p <= base THEN Upto(quiet, StallAfter) ELSE 0
  ELSE /\ quiet' = IF since THEN Upto(quiet, StallAfter) ELSE 0
       /\ UNCHANGED <<synced, heard>>

\* A period passes.
Tick ==
  /\ alive /\ io = "on" => looped
  /\ looped' = FALSE
  /\ Polls
  /\ pos' = IF ~Free THEN pos ELSE IF motor = "up" THEN pos + 1 ELSE pos - 1
  /\ Report
  /\ loose' = IF Held \/ motor \notin Way \/ ~clean THEN 0 ELSE Upto(loose, MaxLoose)
  /\ push' = IF Pushes /\ clean THEN Upto(push, MaxPush) ELSE 0
  /\ UNCHANGED <<faults, buttons, alive, io, jogging, since, blocked, link, waiting,
                 estop, driving, car, clean>>

Next ==
  \/ \E b \in Way : Hand(b)
  \/ Park \/ Drive \/ EStop \/ Reset
  \/ LinkBreaks \/ LinkUp \/ NewClient
  \/ Pass \/ IoHangs \/ IoAnswers \/ IoLost \/ IoBack \/ Kill \/ Restart
  \/ Tick

\* The loop runs, requests end, the link comes back, and time passes whatever
\* happens.  Nothing makes a killed process start again.
Fairness ==
  /\ WF_vars(~looped /\ Pass) /\ WF_vars(IoLost \/ IoAnswers) /\ WF_vars(IoBack)
  /\ WF_vars(LinkUp) /\ SF_vars(Tick)

Spec == Init /\ [][Next]_vars /\ Fairness

-----------------------------------------------------------------------------
(***************************************************************************)
(* Properties                                                              *)
(***************************************************************************)
\* In a press in which nothing goes wrong the lift pushes up against the car for
\* no longer than the stall time and one tick more, for a late state message.
PushIsBounded == push <= StallAfter + 1

\* When the button is let go and nothing has gone wrong, the lift has stopped
\* by the end of the next tick, whatever another controller does.
ReleaseStops == loose <= 1

\* The lift is declared to have arrived only where it can go no further: while it
\* still climbs, the messages of its advance keep coming in time.
ArrivedMeansArrived ==
  [][~blocked /\ blocked' /\ clean /\ ~seen.amps => pos = car]_vars

\* A lift nobody holds comes to rest, also when crevis_io.py has died in mid-run
\* and another controller keeps the watchdog of the daemon quiet.
LeftAloneRests == <>[]~Held => <>[](motor \notin Way)

\* A lift held up, with no e-stop, ends as blocked and at rest, and stays so: it
\* neither stops short without a word nor starts to push again.
HeldLiftArrives ==
  <>[](buttons = {"up"} /\ alive /\ ~estop) => <>[](blocked /\ motor \notin Way)

-----------------------------------------------------------------------------
(***************************************************************************)
(* The e-stop                                                              *)
(***************************************************************************)
Safe == INSTANCE SafeStop WITH
  Why <- {"none", "request"}, Nothing <- "none",
  mode <- IF estop THEN "estop" ELSE "run",
  driving <- motor # "off",
  why <- IF estop THEN "request" ELSE "none"

\* The lift keeps the promise of SafeStop whatever its buttons, their loop and
\* the link do meanwhile: a jog, a stop or a command that has waited for the
\* link never makes it run while the e-stop is latched, and none of them
\* releases the e-stop.
ImplementsSafeStop == Safe!SafeSpec
=============================================================================
