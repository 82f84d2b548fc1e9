--------------------------------- MODULE Teleop ---------------------------------
(***************************************************************************)
(* Driving by hand: the two controllers (joy_teleop.py, joy2_teleop.py),   *)
(* the console whose switch chooses between them (navi_console.py), their  *)
(* links to the broker (mqtt_link.py), and the robot as seen from there:   *)
(* who drives it, how it stops, its watchdog (robot.hpp, drive.hpp).       *)
(*                                                                         *)
(* A tick is one period of the repeated command, in which each controller  *)
(* makes one pass of its loop or more.  Commands over a link that is up    *)
(* arrive at once; the switch is told by messages that take their time.    *)
(* Which sticks and buttons ask for a motion is a choice.                  *)
(***************************************************************************)
EXTENDS Integers, Sequences

CONSTANTS
  Watchdog,      \* watchdog, in ticks
  Slow,          \* how long a deceleration takes, in ticks
  GhostGrace,    \* GHOST_GRACE, in ticks
  GhostCooldown, \* GHOST_COOLDOWN, in ticks
  MaxTold,       \* bound of the instance: switch messages under way to one controller
  MaxFaults      \* bound of the instance: how often something goes wrong

ASSUME TeleopAssumption ==
  /\ {Watchdog, Slow, GhostGrace, GhostCooldown, MaxTold} \subseteq Nat \ {0}
  /\ GhostCooldown <= GhostGrace /\ MaxFaults \in Nat

VARIABLES
  faults,  \* what has gone wrong so far
  con,     \* the console: "down", without a connection "off", or "up"
  shown,   \* what its switch shows
  wills,   \* sessions of the console that ended without the broker's knowing
  kept,    \* what the broker retains of the switch
  alive,   \* controller -> its process runs
  net,     \* controller -> its link is up
  told,    \* controller -> switch messages under way to it
  seen,    \* controller -> st["enabled"]
  hand,    \* controller -> its stick and buttons ask for a motion
  moving,  \* controller -> moving
  rest,    \* controller -> ticks until last_pub and last_ghost allow a ghost stop
  looped,  \* controller -> it made a pass in this tick
  waits,   \* controller -> the last command that waits in its client
  pad,     \* the second controller's pad: "on" or "gone"
  stale,   \* stale: no event has come from the pad for INPUT_TIMEOUT
  report,  \* the last state message has a wheel turning
  driver,  \* whose speed the wheels are commanded
  slow,    \* ticks of deceleration left
  stray,   \* an axis turns although it is not commanded
  age,     \* ticks since cmd_at_
  armed,   \* had_command_ and not watchdog_tripped_
  loose    \* ticks of being driven by one who may not or does not want to

switch == <<con, shown, wills, kept>>
links == <<alive, net, told>>
hands == <<hand, pad, stale>>
loop == <<seen, moving, rest, looped, waits>>
motion == <<driver, slow, stray, age, armed>>
wheels == <<motion, loose>>
vars == <<faults, switch, links, hands, loop, report, wheels>>

Controller == {"main", "pad"}
Value == {"on", "off"}

\* The value of the switch with which a controller may drive
Its(t) == IF t = "main" THEN "on" ELSE "off"
Upto(n, max) == IF n < max THEN n + 1 ELSE max

\* Mutant: a count goes on below zero.
DownForever(n) == n - 1

Down(n) == IF n = 0 THEN 0 ELSE n - 1
MaxLoose == Watchdog + 1

\* Every variable keeps to its range; ages saturate.
TypeOK ==
  /\ faults \in 0 .. MaxFaults
  /\ con \in {"down", "off", "up"} /\ shown \in Value
  /\ wills \in 0 .. faults /\ kept \in Value \union {"none"}
  /\ alive \in [Controller -> BOOLEAN] /\ net \in [Controller -> BOOLEAN]
  /\ told \in [Controller -> Seq(Value)] /\ \A t \in Controller : Len(told[t]) <= MaxTold
  /\ seen \in [Controller -> Value \union {"none"}]
  /\ hand \in [Controller -> BOOLEAN] /\ moving \in [Controller -> BOOLEAN]
  /\ rest \in [Controller -> 0 .. GhostGrace] /\ looped \in [Controller -> BOOLEAN]
  /\ waits \in [Controller -> {"none", "go", "stop"}]
  /\ pad \in {"on", "gone"} /\ stale \in BOOLEAN /\ report \in BOOLEAN
  /\ driver \in Controller \union {"none"} /\ slow \in 0 .. Slow /\ stray \in BOOLEAN
  /\ age \in 0 .. Watchdog + 1 /\ armed \in BOOLEAN
  /\ loose \in 0 .. MaxLoose

Init ==
  /\ faults = 0
  /\ con = "off" /\ shown = "off" /\ wills = 0 /\ kept = "none"
  /\ alive = [t \in Controller |-> TRUE] /\ net = [t \in Controller |-> FALSE]
  /\ told = [t \in Controller |-> <<>>] /\ seen = [t \in Controller |-> "none"]
  /\ hand = [t \in Controller |-> FALSE] /\ moving = [t \in Controller |-> FALSE]
  /\ rest = [t \in Controller |-> 0] /\ looped = [t \in Controller |-> FALSE]
  /\ waits = [t \in Controller |-> "none"]
  /\ pad = "on" /\ stale = FALSE /\ report = FALSE
  /\ driver = "none" /\ slow = 0 /\ stray = FALSE /\ age = 0 /\ armed = FALSE
  /\ loose = 0

Mishap == faults < MaxFaults /\ faults' = faults + 1

-----------------------------------------------------------------------------
(***************************************************************************)
(* The robot                                                               *)
(***************************************************************************)
Turning == driver # "none" \/ slow > 0 \/ stray

\* The operator of t drives: his stick is pressed, his pad is heard, and the
\* switch, as far as t can know it, is his.
Drives(t) ==
  /\ alive[t] /\ hand[t] /\ ~(t = "pad" /\ stale)
  /\ told[t] # <<>> \/ kept = Its(t)

\* cmd/wheel from t
Goes(t) ==
  driver' = t /\ slow' = 0 /\ stray' = FALSE /\ age' = 0 /\ armed' = TRUE

\* cmd/stop: a commanded speed is ramped down, else the stop frames go out again.
Stops ==
  /\ driver' = "none" /\ age' = 0 /\ UNCHANGED armed
  /\ IF driver # "none" \/ slow > 0
     THEN slow' = Slow /\ UNCHANGED stray
     ELSE slow' = 0 /\ stray' = FALSE

\* loose counts for one driver at a time.
Spell == loose' = IF driver' = driver THEN loose ELSE 0

Arrives(t, c) == IF c = "go" THEN Goes(t) ELSE Stops

\* An axis that has missed its stop frame turns on.
Strays ==
  /\ driver = "none" /\ slow = 0 /\ ~stray /\ stray' = TRUE /\ Mishap
  /\ UNCHANGED <<switch, links, hands, loop, report, driver, slow, age, armed, loose>>

-----------------------------------------------------------------------------
(***************************************************************************)
(* The switch                                                              *)
(***************************************************************************)
\* The broker retains the value and tells those who are connected.
Publish(v) ==
  /\ \A t \in Controller : net[t] => Len(told[t]) < MaxTold
  /\ kept' = v
  /\ told' = [t \in Controller |-> IF net[t] THEN Append(told[t], v) ELSE told[t]]

\* on_toggle(): off is a stop as well.  Without a connection it only shows.
Toggle ==
  /\ con # "down" /\ shown' = (IF shown = "on" THEN "off" ELSE "on")
  /\ IF con = "up"
     THEN Publish(shown') /\ (IF shown' = "off" THEN Stops ELSE UNCHANGED motion)
     ELSE UNCHANGED <<kept, told, motion>>
  /\ Spell
  /\ UNCHANGED <<faults, con, wills, alive, net, hands, loop, report>>

\* on_connect(): the switch is locked, whatever it showed or the client had kept
\* for it; set_active(False) follows, with its stop if the button was on.
ConConnects ==
  /\ con = "off" /\ con' = "up" /\ shown' = "off" /\ Publish("off")
  /\ (IF shown = "on" THEN Stops ELSE UNCHANGED motion) /\ Spell
  /\ UNCHANGED <<faults, wills, alive, net, hands, loop, report>>

\* tick() changes the path: a session that is closed leaves no will.
ConOpens ==
  /\ con = "up" /\ con' = "off"
  /\ UNCHANGED <<faults, shown, wills, kept, links, hands, loop, report, wheels>>

ConBreaks ==
  /\ con = "up" /\ con' = "off" /\ wills' = wills + 1 /\ Mishap
  /\ UNCHANGED <<shown, kept, links, hands, loop, report, wheels>>

\* The process ends, and its connection with it.
ConEnds ==
  /\ con # "down" /\ con' = "down" /\ shown' = "off" /\ Mishap
  /\ wills' = IF con = "up" THEN wills + 1 ELSE wills
  /\ UNCHANGED <<kept, links, hands, loop, report, wheels>>

ConStarts ==
  /\ con = "down" /\ con' = "off"
  /\ UNCHANGED <<faults, shown, wills, kept, links, hands, loop, report, wheels>>

\* The broker gives a session up, and publishes its will.
Will ==
  /\ wills > 0 /\ wills' = wills - 1 /\ Publish("off")
  /\ UNCHANGED <<faults, con, shown, alive, net, hands, loop, report, wheels>>

-----------------------------------------------------------------------------
(***************************************************************************)
(* The links of the controllers                                            *)
(***************************************************************************)
Told(t) ==
  /\ told[t] # <<>> /\ told' = [told EXCEPT ![t] = Tail(@)]
  /\ seen' = [seen EXCEPT ![t] = Head(told[t])]
  /\ loose' = 0
  /\ UNCHANGED <<faults, switch, alive, net, hands, moving, rest, looped, waits, report,
                 motion>>

NetBreaks(t) ==
  /\ net[t] /\ net' = [net EXCEPT ![t] = FALSE] /\ told' = [told EXCEPT ![t] = <<>>] /\ Mishap
  /\ UNCHANGED <<switch, alive, hands, loop, report, wheels>>

\* on_connect() subscribes, and the client sends what has waited with it.
NetUp(t) ==
  /\ alive[t] /\ ~net[t] /\ net' = [net EXCEPT ![t] = TRUE]
  /\ told' = [told EXCEPT ![t] = IF kept = "none" THEN <<>> ELSE <<kept>>]
  /\ waits' = [waits EXCEPT ![t] = "none"] /\ loose' = 0
  /\ IF waits[t] = "none" THEN UNCHANGED motion ELSE Arrives(t, waits[t])
  /\ UNCHANGED <<faults, switch, alive, hands, seen, moving, rest, looped, report>>

\* tick() opens a new client; what the old one had not sent is gone.
NewClient(t) ==
  /\ alive[t] /\ ~net[t] /\ waits[t] # "none" /\ waits' = [waits EXCEPT ![t] = "none"]
  /\ UNCHANGED <<faults, switch, links, hands, seen, moving, rest, looped, report, wheels>>

Send(t, c) ==
  IF net[t] THEN Arrives(t, c) /\ UNCHANGED waits
  ELSE waits' = [waits EXCEPT ![t] = c] /\ UNCHANGED motion

-----------------------------------------------------------------------------
(***************************************************************************)
(* The loops of the controllers                                            *)
(***************************************************************************)
\* Mutant: a controller that drives does not look at the switch again.
ChosenAtFirst(t) == moving[t] \/ seen[t] = Its(t)

Allowed(t) == seen[t] = Its(t)

\* Mutant: the ghost watch does not ask whether the controller is the active one.
GhostOfAnyone(t) == report /\ rest[t] = 0

\* Mutant: what turns without a command is left to the watchdog.
NoGhosts(t) == FALSE

\* The wheels turn, and this controller, the active one, has long sent nothing.
Ghost(t) == Allowed(t) /\ report /\ rest[t] = 0

\* One pass: a command, one stop after the last, or a ghost stop.  A command is
\* due once in a tick, and when the stick has moved.  While it waits for its pad
\* the second controller only stops.
Pass(t) ==
  /\ alive[t] /\ looped' = [looped EXCEPT ![t] = TRUE]
  /\ \E steered \in BOOLEAN :
       LET present == t = "pad" => pad = "on"
           want == present /\ hand[t] /\ ~(t = "pad" /\ stale) /\ Allowed(t)
           sends == want /\ (~moving[t] \/ ~looped[t] \/ steered)
           ghost == present /\ ~want /\ Ghost(t) IN
         /\ moving' = [moving EXCEPT ![t] = want]
         /\ rest' = [rest EXCEPT ![t] = IF sends THEN GhostGrace ELSE IF ghost THEN GhostCooldown ELSE @]
         /\ IF sends THEN Send(t, "go")
            ELSE IF ghost \/ (~want /\ moving[t]) THEN Send(t, "stop")
            ELSE UNCHANGED <<waits, motion>>
  /\ Spell
  /\ UNCHANGED <<faults, switch, links, hands, seen, report>>

\* The process ends: with its last stop, or killed, also by SIGTERM, without it.
Ends(t) ==
  /\ alive[t] /\ Mishap
  /\ ((net[t] /\ Stops) \/ UNCHANGED motion) /\ Spell
  /\ alive' = [alive EXCEPT ![t] = FALSE] /\ net' = [net EXCEPT ![t] = FALSE]
  /\ told' = [told EXCEPT ![t] = <<>>] /\ seen' = [seen EXCEPT ![t] = "none"]
  /\ moving' = [moving EXCEPT ![t] = FALSE] /\ rest' = [rest EXCEPT ![t] = 0]
  /\ waits' = [waits EXCEPT ![t] = "none"] /\ looped' = [looped EXCEPT ![t] = FALSE]
  /\ UNCHANGED <<switch, hands, report>>

Starts(t) ==
  /\ ~alive[t] /\ alive' = [alive EXCEPT ![t] = TRUE]
  /\ UNCHANGED <<faults, switch, net, told, hands, loop, report, wheels>>

\* The operator, and the pad with its radio
Hand(t) ==
  /\ t = "pad" => pad = "on"
  /\ hand' = [hand EXCEPT ![t] = ~@] /\ stale' = (stale /\ t # "pad")
  /\ loose' = 0
  /\ UNCHANGED <<faults, switch, links, pad, loop, report, motion>>

\* No event for INPUT_TIMEOUT: the pad is out of reach, or held as it is.
PadStales ==
  /\ hand["pad"] /\ ~stale /\ stale' = TRUE
  /\ UNCHANGED <<faults, switch, links, hand, pad, loop, report, wheels>>

PadGoes ==
  /\ pad = "on" /\ pad' = "gone" /\ Mishap
  /\ hand' = [hand EXCEPT !["pad"] = FALSE] /\ stale' = FALSE
  /\ UNCHANGED <<switch, links, loop, report, wheels>>

PadBack ==
  /\ pad = "gone" /\ pad' = "on"
  /\ hand' = [hand EXCEPT !["pad"] = FALSE] /\ stale' = FALSE
  /\ UNCHANGED <<faults, switch, links, loop, report, wheels>>

-----------------------------------------------------------------------------
(***************************************************************************)
(* Time                                                                    *)
(***************************************************************************)
WatchdogFires(a) == armed /\ a > Watchdog

\* The end of a deceleration, and the watchdog.  It may miss what turns without
\* being driven, and may take a robot at rest for a moving one.  (That it misses
\* what is driven slowly is said in Robot; speeds here are such as it sees.)
Rolls(a) ==
  \/ /\ WatchdogFires(a)
     /\ driver' = "none" /\ slow' = 0 /\ stray' = FALSE /\ armed' = FALSE
  \/ /\ WatchdogFires(a) => driver = "none"
     /\ slow' = Down(slow) /\ UNCHANGED <<driver, stray, armed>>

Tick ==
  /\ \A t \in Controller : alive[t] => looped[t]
  /\ looped' = [t \in Controller |-> FALSE] /\ rest' = [t \in Controller |-> Down(rest[t])]
  /\ Rolls(Upto(age, Watchdog + 1)) /\ age' = (IF armed' THEN Upto(age, Watchdog + 1) ELSE 0)
  /\ report' = Turning
  /\ loose' = IF driver' = "none" THEN 0 ELSE IF net[driver] /\ Drives(driver) THEN 0 ELSE Upto(loose, MaxLoose)
  /\ UNCHANGED <<faults, switch, links, hands, seen, moving, waits>>

Next ==
  \/ Strays
  \/ Toggle \/ ConConnects \/ ConOpens \/ ConBreaks \/ ConEnds \/ ConStarts \/ Will
  \/ \E t \in Controller :
       Told(t) \/ NetBreaks(t) \/ NetUp(t) \/ NewClient(t) \/ Pass(t) \/ Ends(t) \/ Starts(t) \/ Hand(t)
  \/ PadStales \/ PadGoes \/ PadBack
  \/ Tick

Fairness ==
  /\ WF_vars(\E t \in Controller : ~looped[t] /\ Pass(t))
  /\ \A t \in Controller : WF_vars(Told(t) \/ NetUp(t) \/ Starts(t))
  /\ WF_vars(PadStales)
  /\ WF_vars(Tick)

Spec == Init /\ [][Next]_vars /\ Fairness

-----------------------------------------------------------------------------
(***************************************************************************)
(* Properties                                                              *)
(***************************************************************************)
\* Whatever dies, breaks or comes late: a robot that is driven by a controller
\* whose operator has let go, whose link or pad is lost, or which the switch no
\* longer chooses, is stopped within the time of the watchdog (the controllers
\* stop once and fall silent, joy2_teleop.py:4-6; the watchdog does the rest).
HandsOffStops == loose <= Watchdog

Other(t) == IF t = "main" THEN "pad" ELSE "main"

\* The stop of a ghost watch ends the drive of the other controller only if the
\* switch has been taken from the other, or its message about that is under way
\* (joy_teleop.py:63-65: two watches would otherwise kill each other's drive).
GhostSparesTheOther ==
  [][\A t \in Controller :
       Pass(t) /\ ~moving[t] /\ driver = Other(t) /\ driver' = "none" /\ told[t] = <<>>
         => kept = Its(t)]_vars

\* Once the main stick is let go for good, the pad's is never moved again and
\* the switch stays with a controller that can listen, the robot comes to rest,
\* also an axis that has missed its stop frame (the ghost watch repeats it).
HandsOffRests ==
  /\ <>[]~hand["main"] /\ (<>[]hand["pad"] \/ <>[]~hand["pad"])
  /\ <>[](kept = "on") \/ <>[](kept = "off" /\ pad = "on")
  => <>[]~Turning
=============================================================================
