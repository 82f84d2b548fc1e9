------------------------------- MODULE MCRobot -------------------------------
(***************************************************************************)
(* Instances of Robot for TLC: two axes, so that one can be polled while   *)
(* the other is not, and a few wheel-speed vectors each.                   *)
(***************************************************************************)
EXTENDS Robot

\* One speed the watchdog can see.
OneSpeed == {[i \in Axes |-> 12]}

\* A turn on the spot with one axis slower.
Mixed == {[i \in Axes |-> IF i = 0 THEN -12 ELSE 8]}

\* All axes forward, or that turn.
TwoSpeeds == OneSpeed \union Mixed

\* 0.4 rpm: what joy2_teleop sends for a turn at 2 degrees per second.
SlowTurn == {[i \in Axes |-> IF i = 0 THEN -4 ELSE 4]}

NoLoss == {{}}

\* Axes that are seen to turn, with a verdict on the current or without, and axes
\* that are not seen to turn, whatever they are told.
Turning == [moves : {TRUE}, current : {"none"}]
Judged == [moves : {TRUE}, current : {"low", "high"}]
Standing == [moves : {FALSE}, current : {"none"}]

Answer == [told \in BOOLEAN |-> Turning]
Resting == [told \in BOOLEAN |-> Standing]
Currents == [told \in BOOLEAN |-> Judged]

AllConnected == {{}}
OneSilent == {{}, {0}}
=============================================================================
