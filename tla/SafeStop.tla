------------------------------- MODULE SafeStop -------------------------------
(***************************************************************************)
(* What the robot daemon promises about stopping, with no motors, polls or *)
(* time in it (the comment above the commands of class Robot, robot.hpp):  *)
(* a watchdog trip ends with the next command, an e-stop ends only with an *)
(* explicit reset and keeps its first reason, and while either holds       *)
(* nothing is driven.  Only a command makes the daemon drive anything.     *)
(***************************************************************************)
CONSTANTS
  Why,       \* the reasons an e-stop may have
  Nothing    \* the value of the reason when there is no e-stop

VARIABLES
  mode,      \* "down", "run", "tripped" or "estop"
  driving,   \* some output is commanded: a wheel, a deceleration, the actuator
  why        \* why the e-stop was latched

safeVars == <<mode, driving, why>>

SafeInit == mode = "run" /\ driving = FALSE /\ why = Nothing

\* A wheel or actuator command is accepted unless the e-stop is latched.
Command ==
  /\ mode \in {"run", "tripped"}
  /\ mode' = "run"
  /\ driving' \in BOOLEAN
  /\ UNCHANGED why

\* Outputs end on their own, or by cmd/stop.
Ease ==
  /\ driving' = FALSE
  /\ UNCHANGED <<mode, why>>

Trip ==
  /\ mode = "run"
  /\ mode' = "tripped" /\ driving' = FALSE
  /\ UNCHANGED why

EmergencyStop ==
  /\ mode # "down"
  /\ mode' = "estop" /\ driving' = FALSE
  /\ IF mode = "estop" THEN UNCHANGED why ELSE why' \in Why

Release ==
  /\ mode # "down"
  /\ mode' = "run" /\ why' = Nothing
  /\ UNCHANGED driving

Exit == mode' = "down" /\ driving' = FALSE /\ why' = Nothing

Start ==
  /\ mode = "down"
  /\ mode' = "run" /\ driving' = FALSE /\ why' = Nothing

SafeNext == Command \/ Ease \/ Trip \/ EmergencyStop \/ Release \/ Exit \/ Start

SafeSpec == SafeInit /\ [][SafeNext]_safeVars
=============================================================================
