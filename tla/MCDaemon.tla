------------------------------ MODULE MCDaemon ------------------------------
(***************************************************************************)
(* An instance of Daemon for TLC: one axis and a queue of one command.     *)
(***************************************************************************)
EXTENDS Daemon

OneSpeed == {[i \in Axes |-> -12]}
NoLoss == {{}}

\* The axis may fall off the bus for good.
FallsOff == {Axes}

\* An axis turns when it is told to, and is seen to.
Truthful == [told \in BOOLEAN |-> [moves : {told}, current : {"none"}]]
=============================================================================
