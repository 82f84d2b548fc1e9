------------------------------ MODULE MqttLoop ------------------------------
(***************************************************************************)
(* The daemon between the broker and the robot: class MqttLink (mqtt.hpp)  *)
(* with its network thread, and runMqtt and raiseAlarms (main.cpp) on the  *)
(* main thread.  The network thread fills a bounded queue and flips a      *)
(* flag; the main loop empties the queue, ticks the robot and publishes    *)
(* what changed.  The robot itself is SafeStop, which Robot implements,    *)
(* with the watchdog's flag, which an e-stop leaves as it is.  Daemon puts *)
(* the real robot in its place.                                            *)
(*                                                                         *)
(* State topics are left out: they are repeated and nobody relies on one.  *)
(* Alarms are retained by the broker and sent only when they change.       *)
(***************************************************************************)
EXTENDS SafeStop, Naturals, Sequences

CONSTANTS
  MaxQueue,     \* kMaxQueue
  MaxBurst,     \* bound: how many commands may arrive during one pass
  SlowPass,     \* a reconnection may fit between two looks at the connection
  MaxBreaks,    \* bound: how often the link breaks, with the broker or the daemon or not
  Devices       \* whether a device of those with an alarm may be missing

ASSUME LoopAssumption ==
  /\ MaxQueue \in Nat \ {0} /\ MaxBurst \in Nat /\ MaxBreaks \in Nat /\ SlowPass \in BOOLEAN
  /\ Nothing \in Why /\ {"request", "fault"} \subseteq Why
  /\ Devices \subseteq BOOLEAN /\ Devices # {}

\* Command::Kind: "wheel" also stands for body and actuator, "other" for
\* led, ffc, stream and for what could not be parsed.
Kinds == {"wheel", "stop", "estop", "reset", "other"}

\* The three kinds of alarms: those of the two latches, and that of a device.
Keys == {"estop", "watchdog", "device"}

VARIABLES
  tripped,      \* watchdog_tripped_
  pc,           \* where the main thread is, or "down"
  q,            \* q_
  connected,    \* connected_
  live,         \* there is a session that both ends know of
  noticed,      \* the main loop has seen connected_ FALSE since it became so
  device,       \* RobotStatus: some device is missing
  prev,         \* AlarmState, per key: what was published last
  primed,       \* AlarmState::primed
  retained,     \* the alarm topics on the broker
  outbox,       \* QoS 1 alarms published without a session, latest per key
  burst,        \* how many commands arrived in this pass
  breaks,       \* how often that happened so far
  lastword,     \* the later of the e-stops and resets received
  younger       \* how many commands were received after it, up to MaxQueue

robot == <<safeVars, tripped>>
latches == <<prev, primed>>
broker == <<retained, outbox>>
history == <<lastword, younger>>
loopVars == <<robot, pc, q, connected, live, noticed, device, latches, broker,
              burst, breaks, history>>

Alarm == {"none", "on", "off"}

\* Every variable keeps to its range; the queue never exceeds its bound.
TypeOK ==
  /\ mode \in {"down", "run", "tripped", "estop"} /\ driving \in BOOLEAN /\ why \in Why
  /\ tripped \in BOOLEAN
  /\ mode # "estop" => (tripped <=> mode = "tripped")
  /\ pc \in {"top", "commands", "tick", "publish", "down"}
  /\ pc = "down" <=> mode = "down"
  /\ q \in Seq(Kinds) /\ Len(q) <= MaxQueue
  /\ connected \in BOOLEAN /\ live \in BOOLEAN /\ noticed \in BOOLEAN
  /\ device \in BOOLEAN /\ primed \in BOOLEAN
  /\ prev \in [Keys -> BOOLEAN]
  /\ retained \in [Keys -> Alarm] /\ outbox \in [Keys -> Alarm]
  /\ burst \in 0 .. MaxBurst /\ breaks \in 0 .. MaxBreaks
  /\ lastword \in {"none", "estop", "reset"} /\ younger \in 0 .. MaxQueue

\* A MqttLink with no session and nothing in it: a fresh one, or none any more.
NoSession ==
  /\ q' = <<>>
  /\ connected' = FALSE /\ live' = FALSE /\ noticed' = TRUE
  /\ outbox' = [k \in Keys |-> "none"]
  /\ burst' = 0 /\ lastword' = "none" /\ younger' = 0

\* The AlarmState of a fresh runMqtt
NewAlarms == prev' = [k \in Keys |-> FALSE] /\ primed' = FALSE

Init ==
  /\ SafeInit /\ tripped = FALSE
  /\ pc = "top" /\ q = <<>>
  /\ connected = FALSE /\ live = FALSE /\ noticed = TRUE
  /\ device \in Devices
  /\ prev = [k \in Keys |-> FALSE] /\ primed = FALSE
  /\ retained = [k \in Keys |-> "none"] /\ outbox = [k \in Keys |-> "none"]
  /\ burst = 0 /\ breaks = 0 /\ lastword = "none" /\ younger = 0

-----------------------------------------------------------------------------
(***************************************************************************)
(* The network thread.                                                     *)
(***************************************************************************)
\* Mutant: a full queue refuses the new command instead of the oldest.
EnqueueDropsNew(kind) ==
  q' = IF Len(q) >= MaxQueue THEN q ELSE Append(q, kind)

\* Mutant: the queue has no bound.
EnqueueUnbounded(kind) == q' = Append(q, kind)

\* MqttLink::enqueue: a full queue drops its oldest command.
Enqueue(kind) ==
  q' = Append(IF Len(q) >= MaxQueue THEN Tail(q) ELSE q, kind)

\* MqttLink::onMessage
Receive(kind) ==
  /\ pc # "down" /\ live
  /\ burst < MaxBurst /\ burst' = burst + 1
  /\ Enqueue(kind)
  /\ IF kind \in {"estop", "reset"}
       THEN lastword' = kind /\ younger' = 0
       ELSE /\ younger' = IF younger < MaxQueue THEN younger + 1 ELSE younger
            /\ UNCHANGED lastword
  /\ UNCHANGED <<robot, pc, connected, live, noticed, device, latches, broker, breaks>>

\* What reached the library without a session is sent when there is one again.
Flushed == [k \in Keys |-> IF outbox[k] = "none" THEN retained[k] ELSE outbox[k]]

\* MqttLink::onConnect.  The library waits a second before it connects again:
\* normally the main loop has looked at connected_ meanwhile.
OnConnect ==
  /\ pc # "down" /\ ~connected
  /\ noticed \/ SlowPass
  /\ connected' = TRUE /\ live' = TRUE
  /\ retained' = Flushed /\ outbox' = [k \in Keys |-> "none"]
  /\ UNCHANGED <<robot, pc, q, noticed, device, latches, burst, breaks, history>>

\* MqttLink::onDisconnect: the end of the session is noticed.
OnDisconnect ==
  /\ pc # "down" /\ connected /\ ~live
  /\ connected' = FALSE /\ noticed' = FALSE
  /\ UNCHANGED <<robot, pc, q, live, device, latches, broker, burst, breaks, history>>

\* The link breaks, and the broker may come back without its retained topics.
LinkBreaks(restarted) ==
  /\ breaks < MaxBreaks
  /\ live \/ restarted
  /\ breaks' = breaks + 1
  /\ live' = FALSE
  /\ retained' = IF restarted THEN [k \in Keys |-> "none"] ELSE retained
  /\ UNCHANGED <<robot, pc, q, connected, noticed, device, latches, outbox, burst,
                 history>>

-----------------------------------------------------------------------------
(***************************************************************************)
(* The main thread.                                                        *)
(***************************************************************************)
Loop(from, to) == pc = from /\ pc' = to

NextPass ==
  /\ Loop("top", "commands")
  /\ UNCHANGED <<robot, q, connected, live, noticed, device, latches, broker, burst,
                 breaks, history>>

Refuses == UNCHANGED robot
Accepts == Command /\ tripped' = FALSE
Eases == Ease /\ UNCHANGED tripped
Latches == EmergencyStop /\ UNCHANGED tripped

\* What a command does to the robot.  It is refused while the e-stop is latched,
\* and without the device it is for; a stop may be the beginning of a deceleration.
Apply(kind) ==
  CASE kind = "wheel" -> Refuses \/ Accepts
    [] kind = "stop"  -> Refuses \/ Eases
    [] kind = "estop" -> Latches /\ (mode # "estop" => why' = "request")
    [] kind = "reset" -> Release /\ tripped' = FALSE
    [] kind = "other" -> UNCHANGED robot

\* MqttLink::nextCommand, and the switch over its kind
Handle ==
  /\ pc = "commands" /\ q # <<>>
  /\ q' = Tail(q)
  /\ Apply(Head(q))
  /\ UNCHANGED <<pc, connected, live, noticed, device, latches, broker, burst, breaks,
                 history>>

\* nextCommand() says that there is none.
BeginTick ==
  /\ Loop("commands", "tick") /\ q = <<>>
  /\ UNCHANGED <<robot, q, connected, live, noticed, device, latches, broker, burst,
                 breaks, history>>

\* Robot::tick, in which commands only queue up: motion may end, the watchdog may
\* fire, also over a wheel that turns without being driven, and a fault may latch.
TickStep ==
  /\ pc = "tick"
  /\ \/ Eases
     \/ Trip /\ tripped' = TRUE
     \/ mode # "estop" /\ Latches /\ why' = "fault"
  /\ UNCHANGED <<pc, q, connected, live, noticed, device, latches, broker, burst,
                 breaks, history>>

\* The tick ends, and Robot::status says which devices are there.
Status ==
  /\ Loop("tick", "publish")
  /\ device' \in Devices
  /\ UNCHANGED <<robot, q, connected, live, noticed, latches, broker, burst, breaks, history>>

Now == [k \in Keys |-> CASE k = "estop"    -> mode = "estop"
                         [] k = "watchdog" -> tripped
                         [] k = "device"   -> device]

\* raiseAlarms: what changed, or everything when not primed.
Changed == {k \in Keys : prev[k] # Now[k] \/ ~primed}
Sent(topics) ==
  [k \in Keys |-> IF k \in Changed THEN (IF Now[k] THEN "on" ELSE "off") ELSE topics[k]]

\* Mutant: a lost connection does not undo the priming.
RaiseAlarmsStaysPrimed ==
  IF ~connected
  THEN noticed' = TRUE /\ UNCHANGED <<primed, prev, broker>>
  ELSE /\ prev' = Now /\ primed' = TRUE
       /\ IF live THEN retained' = Sent(retained) /\ UNCHANGED outbox
                  ELSE outbox' = Sent(outbox) /\ UNCHANGED retained
       /\ UNCHANGED noticed

\* Mutant: an alarm that ends is not published.
RaiseAlarmsOnly ==
  IF ~connected
  THEN noticed' = TRUE /\ primed' = FALSE /\ UNCHANGED <<prev, broker>>
  ELSE /\ prev' = Now /\ primed' = TRUE
       /\ IF live
            THEN /\ retained' = [k \in Keys |-> IF Now[k] THEN Sent(retained)[k] ELSE retained[k]]
                 /\ UNCHANGED outbox
            ELSE outbox' = Sent(outbox) /\ UNCHANGED retained
       /\ UNCHANGED noticed

RaiseAlarms ==
  IF ~connected
  THEN noticed' = TRUE /\ primed' = FALSE /\ UNCHANGED <<prev, broker>>
  ELSE /\ prev' = Now /\ primed' = TRUE
       /\ IF live THEN retained' = Sent(retained) /\ UNCHANGED outbox
                  ELSE outbox' = Sent(outbox) /\ UNCHANGED retained
       /\ UNCHANGED noticed

\* raiseAlarms, the only part of the publication that outlives its session
Publish ==
  /\ Loop("publish", "top")
  /\ RaiseAlarms
  /\ burst' = 0
  /\ UNCHANGED <<robot, q, connected, live, device, breaks, history>>

-----------------------------------------------------------------------------
\* The process ends, in order or not: the session goes with it, and what the
\* library had not sent.  Alarms stay with the broker.
End ==
  /\ pc # "down" /\ breaks < MaxBreaks
  /\ Exit /\ tripped' = FALSE
  /\ breaks' = breaks + 1
  /\ pc' = "down"
  /\ NoSession
  /\ UNCHANGED <<device, latches, retained>>

Begin ==
  /\ pc = "down"
  /\ Start /\ UNCHANGED tripped
  /\ pc' = "top"
  /\ NoSession /\ NewAlarms
  /\ device' \in Devices
  /\ UNCHANGED <<retained, breaks>>

-----------------------------------------------------------------------------
Main == NextPass \/ Handle \/ BeginTick \/ TickStep \/ Status \/ Publish
Network == OnConnect \/ OnDisconnect
Outside ==
  \/ \E kind \in Kinds : Receive(kind)
  \/ \E restarted \in BOOLEAN : LinkBreaks(restarted)
  \/ End

Next == Main \/ Network \/ Outside \/ Begin

Spec == Init /\ [][Next]_loopVars

\* The loop does not wait for anybody and its senders are slower than it, the
\* library reconnects by itself, and systemd starts the daemon again.
FairSpec == Spec /\ WF_loopVars(Main) /\ WF_loopVars(Network) /\ WF_loopVars(Begin)

-----------------------------------------------------------------------------
AlarmsMatch == \A k \in Keys : retained[k] = IF Now[k] THEN "on" ELSE "off"

\* When the loop has published over a session that is still up, the broker's
\* alarms are the robot's state, whatever earlier processes, broken sessions
\* and broker restarts have left there.
AlarmsCurrent == pc = "top" /\ primed /\ connected /\ live => AlarmsMatch

\* An e-stop that was received after the last reset is latched, or waits in
\* the queue, unless as many commands as the queue holds came after it.
EStopNotLost ==
  lastword = "estop" /\ younger < MaxQueue =>
    mode = "estop" \/ \E i \in 1 .. Len(q) : q[i] = "estop"

\* Liveness: once the link stays up, every pass that begins finds the broker's
\* alarms to be true, again and again.
AlarmsCatchUp == []<>(pc = "top" /\ AlarmsMatch)
=============================================================================
