--------------------------- MODULE MqttLoopProofs ---------------------------
(***************************************************************************)
(* Theorems about MqttLoop, for every length of the queue and any number   *)
(* of commands, broken links, broker restarts and processes.               *)
(***************************************************************************)
EXTENDS MqttLoop, SequenceTheorems, TLAPS

LEMMA LoopConstants ==
  /\ MaxQueue \in Nat /\ MaxQueue > 0 /\ MaxBurst \in Nat /\ MaxBreaks \in Nat
  /\ SlowPass \in BOOLEAN
  /\ Nothing \in Why /\ "request" \in Why /\ "fault" \in Why
  /\ Devices \subseteq BOOLEAN
BY LoopAssumption DEF LoopAssumption

LEMMA FreshTypes ==
  /\ [k \in Keys |-> "none"] \in [Keys -> Alarm]
  /\ [k \in Keys |-> FALSE] \in [Keys -> BOOLEAN]
  /\ <<>> \in Seq(Kinds) /\ Len(<<>>) = 0
  /\ 0 \in 0 .. MaxQueue /\ 0 \in 0 .. MaxBurst /\ 0 \in 0 .. MaxBreaks
BY LoopConstants, EmptySeq DEF Alarm

\* The queue after Enqueue: it is bounded, ends with the new command, and what
\* came before kept its distance from the end.
LEMMA EnqueueResult ==
  ASSUME q \in Seq(Kinds), Len(q) <= MaxQueue, NEW kind \in Kinds, Enqueue(kind)
  PROVE  /\ q' \in Seq(Kinds)
         /\ Len(q') = IF Len(q) >= MaxQueue THEN MaxQueue ELSE Len(q) + 1
         /\ q'[Len(q')] = kind
         /\ Len(q) < MaxQueue => \A i \in 1 .. Len(q) : q'[i] = q[i]
         /\ Len(q) = MaxQueue => \A i \in 1 .. Len(q) - 1 : q'[i] = q[i + 1]
<1>1. CASE Len(q) >= MaxQueue
  <2>1. q # <<>> /\ Len(q) = MaxQueue
    BY <1>1, LoopConstants, EmptySeq, LenProperties
  <2>2. /\ Tail(q) \in Seq(Kinds) /\ Len(Tail(q)) = Len(q) - 1
        /\ \A i \in 1 .. Len(Tail(q)) : Tail(q)[i] = q[i + 1]
    BY <2>1, HeadTailProperties
  <2>3. q' = Append(Tail(q), kind)
    BY <1>1 DEF Enqueue
  <2> QED BY <2>1, <2>2, <2>3, LoopConstants, AppendProperties
<1>2. CASE ~(Len(q) >= MaxQueue)
  <2>1. q' = Append(q, kind)
    BY <1>2 DEF Enqueue
  <2> QED BY <1>2, <2>1, LoopConstants, LenProperties, AppendProperties
<1> QED BY <1>1, <1>2

LEMMA HandleResult ==
  ASSUME q \in Seq(Kinds), q # <<>>, q' = Tail(q)
  PROVE  /\ Head(q) \in Kinds /\ Head(q) = q[1]
         /\ Len(q) \in Nat \ {0}
         /\ q' \in Seq(Kinds) /\ Len(q') = Len(q) - 1
         /\ \A i \in 1 .. Len(q') : q'[i] = q[i + 1]
BY HeadTailProperties, EmptySeq, LenProperties

-----------------------------------------------------------------------------
(***************************************************************************)
(* Types.                                                                  *)
(***************************************************************************)
SafeType ==
  /\ mode \in {"down", "run", "tripped", "estop"} /\ driving \in BOOLEAN /\ why \in Why
  /\ tripped \in BOOLEAN
  /\ mode # "estop" => (tripped <=> mode = "tripped")

\* Only End and Begin make the robot go down and up.
LEMMA ApplyType ==
  ASSUME SafeType, mode # "down", NEW kind \in Kinds, Apply(kind)
  PROVE  SafeType' /\ mode' # "down"
<1> USE DEF SafeType
<1>1. CASE Refuses
  BY <1>1 DEF Refuses, robot, safeVars
<1>2. CASE Accepts
  BY <1>2 DEF Accepts, Command
<1>3. CASE Eases
  BY <1>3 DEF Eases, Ease
<1>4. CASE Latches
  BY <1>4 DEF Latches, EmergencyStop
<1>5. CASE Release /\ tripped' = FALSE
  BY <1>5, LoopConstants DEF Release
<1> QED BY <1>1, <1>2, <1>3, <1>4, <1>5 DEF Apply, Kinds, Refuses

LEMMA TickStepType ==
  ASSUME SafeType, mode # "down", TickStep
  PROVE  SafeType' /\ mode' # "down"
<1> USE DEF SafeType
<1>1. CASE Eases
  BY <1>1 DEF Eases, Ease
<1>2. CASE Trip /\ tripped' = TRUE
  BY <1>2 DEF Trip
<1>3. CASE Latches
  BY <1>3 DEF Latches, EmergencyStop
<1> QED BY <1>1, <1>2, <1>3 DEF TickStep

LEMMA AlarmsType ==
  ASSUME TypeOK, RaiseAlarms
  PROVE  /\ noticed' \in BOOLEAN /\ primed' \in BOOLEAN
         /\ prev' \in [Keys -> BOOLEAN]
         /\ retained' \in [Keys -> Alarm] /\ outbox' \in [Keys -> Alarm]
<1>1. Now \in [Keys -> BOOLEAN]
  <2>1. (mode = "estop") \in BOOLEAN
    OBVIOUS
  <2>2. tripped \in BOOLEAN /\ device \in BOOLEAN
    BY DEF TypeOK
  <2> SUFFICES ASSUME NEW k \in Keys
               PROVE  (CASE k = "estop"    -> mode = "estop"
                         [] k = "watchdog" -> tripped
                         [] k = "device"   -> device) \in BOOLEAN
    BY DEF Now
  <2> QED BY <2>1, <2>2, Zenon DEF Keys
<1>2. Sent(retained) \in [Keys -> Alarm] /\ Sent(outbox) \in [Keys -> Alarm]
  BY DEF Sent, Alarm, TypeOK
<1> QED BY <1>1, <1>2 DEF RaiseAlarms, TypeOK, broker

LEMMA NoSessionType ==
  ASSUME NoSession
  PROVE  /\ q' \in Seq(Kinds) /\ Len(q') <= MaxQueue
         /\ connected' \in BOOLEAN /\ live' \in BOOLEAN /\ noticed' \in BOOLEAN
         /\ outbox' \in [Keys -> Alarm]
         /\ burst' \in 0 .. MaxBurst
         /\ lastword' \in {"none", "estop", "reset"} /\ younger' \in 0 .. MaxQueue
<1>1. q' = <<>> /\ outbox' = [k \in Keys |-> "none"] /\ burst' = 0 /\ younger' = 0
      /\ connected' = FALSE /\ live' = FALSE /\ noticed' = TRUE /\ lastword' = "none"
  BY DEF NoSession
<1>2. q' \in Seq(Kinds) /\ Len(q') <= MaxQueue
  BY <1>1, FreshTypes, LoopConstants
<1>3. outbox' \in [Keys -> Alarm]
  BY <1>1, FreshTypes
<1>4. burst' \in 0 .. MaxBurst /\ younger' \in 0 .. MaxQueue
  BY <1>1, FreshTypes
<1> QED BY <1>1, <1>2, <1>3, <1>4

\* TypeOK holds of every reachable state.
THEOREM LoopTypeCorrect == Spec => []TypeOK
<1>1. Init => TypeOK
  <2> SUFFICES ASSUME Init PROVE TypeOK
    OBVIOUS
  <2>1. q \in Seq(Kinds) /\ Len(q) <= MaxQueue
    BY LoopConstants, FreshTypes DEF Init
  <2>2. prev \in [Keys -> BOOLEAN]
    BY FreshTypes DEF Init
  <2>3. retained \in [Keys -> Alarm] /\ outbox \in [Keys -> Alarm]
    BY FreshTypes DEF Init
  <2>4. burst \in 0 .. MaxBurst /\ breaks \in 0 .. MaxBreaks /\ younger \in 0 .. MaxQueue
    BY FreshTypes DEF Init
  <2> QED
    BY <2>1, <2>2, <2>3, <2>4, LoopConstants DEF Init, SafeInit, TypeOK
<1>2. TypeOK /\ [Next]_loopVars => TypeOK'
  <2> SUFFICES ASSUME TypeOK, [Next]_loopVars PROVE TypeOK'
    OBVIOUS
  <2> USE DEF latches, broker, history
  <2>0. SafeType
    BY DEF TypeOK, SafeType
  <2>1. ASSUME NextPass \/ BeginTick PROVE TypeOK'
    BY <2>1 DEF NextPass, BeginTick, Loop, TypeOK, robot, safeVars
  <2>2. ASSUME Handle PROVE TypeOK'
    <3>1. Head(q) \in Kinds /\ q' \in Seq(Kinds) /\ Len(q') <= MaxQueue
      BY <2>2, HandleResult, LoopConstants DEF Handle, TypeOK
    <3>2. SafeType' /\ mode' # "down"
      BY <2>0, <2>2, <3>1, ApplyType DEF Handle, TypeOK
    <3> QED BY <2>2, <3>1, <3>2 DEF Handle, TypeOK, SafeType
  <2>3. ASSUME TickStep PROVE TypeOK'
    <3>1. SafeType' /\ mode' # "down"
      BY <2>0, <2>3, TickStepType DEF TickStep, TypeOK
    <3> QED BY <2>3, <3>1 DEF TickStep, TypeOK, SafeType
  <2>12. ASSUME Status PROVE TypeOK'
    BY <2>12, LoopConstants DEF Status, Loop, TypeOK, robot, safeVars
  <2>4. ASSUME Publish PROVE TypeOK'
    <3> QED BY <2>4, AlarmsType, LoopConstants DEF Publish, Loop, TypeOK, robot, safeVars
  <2>5. ASSUME OnConnect PROVE TypeOK'
    <3>1. Flushed \in [Keys -> Alarm]
      BY DEF Flushed, TypeOK
    <3> QED BY <2>5, <3>1 DEF OnConnect, TypeOK, robot, safeVars, Alarm
  <2>6. ASSUME OnDisconnect PROVE TypeOK'
    BY <2>6 DEF OnDisconnect, TypeOK, robot, safeVars
  <2>7. ASSUME NEW kind \in Kinds, Receive(kind) PROVE TypeOK'
    <3>1. q' \in Seq(Kinds) /\ Len(q') <= MaxQueue
      BY <2>7, EnqueueResult, LoopConstants, LenProperties DEF Receive, TypeOK
    <3> QED BY <2>7, <3>1, LoopConstants DEF Receive, TypeOK, robot, safeVars
  <2>8. ASSUME NEW restarted \in BOOLEAN, LinkBreaks(restarted) PROVE TypeOK'
    <3>1. retained' \in [Keys -> Alarm]
      BY <2>8, FreshTypes DEF LinkBreaks, TypeOK
    <3>2. breaks' \in 0 .. MaxBreaks
      BY <2>8, LoopConstants DEF LinkBreaks, TypeOK
    <3>3. /\ UNCHANGED <<mode, driving, why, tripped, pc, q, connected, noticed, device, prev>>
          /\ UNCHANGED <<primed, outbox, burst, lastword, younger>>
          /\ live' = FALSE
      BY <2>8 DEF LinkBreaks, robot, safeVars
    <3>4. SafeType' /\ pc' \in {"top", "commands", "tick", "publish", "down"} /\ (pc' = "down" <=> mode' = "down")
      BY <3>3 DEF TypeOK, SafeType
    <3>5. q' \in Seq(Kinds) /\ Len(q') <= MaxQueue
      BY <3>3 DEF TypeOK
    <3>6. connected' \in BOOLEAN /\ live' \in BOOLEAN /\ noticed' \in BOOLEAN /\ device' \in BOOLEAN
      BY <3>3 DEF TypeOK
    <3>7. primed' \in BOOLEAN
      BY <3>3 DEF TypeOK
    <3>8. prev' \in [Keys -> BOOLEAN] /\ outbox' \in [Keys -> Alarm]
      BY <3>3 DEF TypeOK
    <3>9. burst' \in 0 .. MaxBurst /\ lastword' \in {"none", "estop", "reset"} /\ younger' \in 0 .. MaxQueue
      BY <3>3 DEF TypeOK
    <3> QED BY <3>1, <3>2, <3>4, <3>5, <3>6, <3>7, <3>8, <3>9 DEF TypeOK, SafeType
  <2>9. ASSUME End PROVE TypeOK'
    <3>1. breaks' \in 0 .. MaxBreaks
      BY <2>9, LoopConstants DEF End, TypeOK
    <3> QED BY <2>9, <3>1, NoSessionType, LoopConstants DEF End, Exit, TypeOK
  <2>10. ASSUME Begin PROVE TypeOK'
    <3>1. prev' \in [Keys -> BOOLEAN] /\ primed' = FALSE
      BY <2>10, FreshTypes DEF Begin, NewAlarms
    <3>2. mode' = "run" /\ driving' = FALSE /\ why' = Nothing
      BY <2>10 DEF Begin, Start
    <3>4. tripped' \in BOOLEAN /\ ~tripped'
      <4>1. mode = "down" /\ tripped' = tripped
        BY <2>10 DEF Begin, Start
      <4>2. tripped \in BOOLEAN /\ ~tripped
        BY <4>1 DEF TypeOK
      <4> QED BY <4>1, <4>2
    <3>3. device' \in BOOLEAN /\ pc' = "top" /\ UNCHANGED <<retained, breaks>>
      BY <2>10, LoopConstants DEF Begin
    <3> QED
      BY <2>10, <3>1, <3>2, <3>3, <3>4, NoSessionType, LoopConstants DEF Begin, TypeOK
  <2>11. ASSUME UNCHANGED loopVars PROVE TypeOK'
    BY <2>11 DEF loopVars, robot, safeVars, TypeOK
  <2> QED
    BY <2>1, <2>2, <2>3, <2>4, <2>5, <2>6, <2>7, <2>8, <2>9, <2>10, <2>11, <2>12
    DEF Next, Main, Network, Outside
<1> QED BY <1>1, <1>2, PTL DEF Spec

-----------------------------------------------------------------------------
(***************************************************************************)
(* Alarms.  Two facts carry the property: an alarm that is primed over a   *)
(* session that is still up is what the broker has, and the priming does   *)
(* not outlive a connection the main loop has seen broken.                 *)
(***************************************************************************)
Shown(k) == IF prev[k] THEN "on" ELSE "off"

Synced == primed /\ live => \A k \in Keys : retained[k] = Shown(k)

AlarmsInv ==
  /\ live => connected
  /\ pc # "down" /\ ~connected /\ noticed => ~primed
  /\ Synced
  /\ pc = "top" /\ primed /\ connected /\ live => prev = Now

LEMMA NowUnchanged == UNCHANGED <<mode, tripped, device>> => Now' = Now
BY DEF Now

LEMMA PublishSyncs ==
  ASSUME TypeOK, AlarmsInv, Publish
  PROVE  AlarmsInv'
<1>1. Now' = Now
  BY NowUnchanged DEF Publish, robot, safeVars
<1>2. CASE ~connected
  BY <1>2 DEF Publish, RaiseAlarms, AlarmsInv, Synced, broker, Loop
<1>3. CASE connected
  <2>1. prev' = Now /\ primed' = TRUE /\ prev' = Now'
    BY <1>1, <1>3 DEF Publish, RaiseAlarms
  <2>2. ASSUME live, NEW k \in Keys PROVE retained'[k] = Shown(k)'
    <3>1. retained'[k] = Sent(retained)[k]
      BY <1>3, <2>2 DEF Publish, RaiseAlarms
    <3>2. CASE k \in Changed
      BY <2>1, <3>1, <3>2 DEF Sent, Shown
    <3>3. CASE k \notin Changed
      <4>1. primed /\ prev[k] = Now[k] /\ retained[k] = Shown(k)
        BY <2>2, <3>3 DEF Changed, AlarmsInv, Synced
      <4> QED BY <2>1, <3>1, <3>3, <4>1 DEF Sent, Shown
    <3> QED BY <3>2, <3>3
  <2>3. Synced'
    BY <2>2 DEF Synced, Publish
  <2> QED BY <1>3, <2>1, <2>3 DEF Publish, AlarmsInv
<1> QED BY <1>2, <1>3

\* Unless a reconnection fits between two looks at the connection, the alarms
\* at the broker are the robot's state whenever the loop has published them.
THEOREM AlarmsAlwaysCurrent == ~SlowPass => (Spec => []AlarmsCurrent)
<1> SUFFICES ASSUME ~SlowPass PROVE Spec => []AlarmsCurrent
  OBVIOUS
<1>1. Init => AlarmsInv
  BY DEF Init, AlarmsInv, Synced
<1>2. TypeOK /\ AlarmsInv /\ [Next]_loopVars => AlarmsInv'
  <2> SUFFICES ASSUME TypeOK, AlarmsInv, [Next]_loopVars PROVE AlarmsInv'
    OBVIOUS
  <2> USE DEF latches, broker, history
  <2>1. ASSUME NextPass PROVE AlarmsInv'
    BY <2>1 DEF NextPass, Loop, AlarmsInv, Synced, Shown
  <2>2. ASSUME Handle PROVE AlarmsInv'
    BY <2>2 DEF Handle, AlarmsInv, Synced, Shown
  <2>3. ASSUME BeginTick \/ TickStep \/ Status PROVE AlarmsInv'
    BY <2>3 DEF BeginTick, TickStep, Status, Loop, AlarmsInv, Synced, Shown
  <2>4. ASSUME Publish PROVE AlarmsInv'
    BY <2>4, PublishSyncs
  <2>5. ASSUME OnConnect PROVE AlarmsInv'
    <3>1. ~primed'
      BY <2>5 DEF OnConnect, AlarmsInv
    <3> QED BY <2>5, <3>1 DEF OnConnect, AlarmsInv, Synced
  <2>6. ASSUME OnDisconnect PROVE AlarmsInv'
    BY <2>6 DEF OnDisconnect, AlarmsInv, Synced
  <2>7. ASSUME NEW kind \in Kinds, Receive(kind) PROVE AlarmsInv'
    <3>1. Now' = Now
      BY <2>7, NowUnchanged DEF Receive, robot, safeVars
    <3> QED BY <2>7, <3>1 DEF Receive, AlarmsInv, Synced, Shown
  <2>8. ASSUME NEW restarted \in BOOLEAN, LinkBreaks(restarted) PROVE AlarmsInv'
    BY <2>8 DEF LinkBreaks, AlarmsInv, Synced
  <2>9. ASSUME End PROVE AlarmsInv'
    BY <2>9 DEF End, NoSession, AlarmsInv, Synced
  <2>10. ASSUME Begin PROVE AlarmsInv'
    BY <2>10 DEF Begin, NoSession, NewAlarms, AlarmsInv, Synced
  <2>11. ASSUME UNCHANGED loopVars PROVE AlarmsInv'
    <3>1. Now' = Now
      BY <2>11, NowUnchanged DEF loopVars, robot, safeVars
    <3> QED BY <2>11, <3>1 DEF loopVars, AlarmsInv, Synced, Shown
  <2> QED
    BY <2>1, <2>2, <2>3, <2>4, <2>5, <2>6, <2>7, <2>8, <2>9, <2>10, <2>11
    DEF Next, Main, Network, Outside
<1>3. AlarmsInv => AlarmsCurrent
  BY DEF AlarmsInv, AlarmsCurrent, AlarmsMatch, Synced, Shown
<1> QED BY <1>1, <1>2, <1>3, LoopTypeCorrect, PTL DEF Spec

-----------------------------------------------------------------------------
(***************************************************************************)
(* E-stops.  The last e-stop received is either still in the queue, as far *)
(* from its end as commands have come after it, or it is latched; and no   *)
(* reset is behind it.                                                     *)
(***************************************************************************)
Waiting ==
  /\ younger < Len(q)
  /\ q[Len(q) - younger] = "estop"
  /\ \A i \in 1 .. Len(q) : i > Len(q) - younger => q[i] # "reset"

Done ==
  /\ mode = "estop"
  /\ \A i \in 1 .. Len(q) : q[i] # "reset"

EStopInv == lastword = "estop" /\ younger < MaxQueue => Waiting \/ Done

LEMMA ReceiveKeepsEStop ==
  ASSUME TypeOK, EStopInv, NEW kind \in Kinds, Receive(kind)
  PROVE  EStopInv'
<1> SUFFICES ASSUME lastword' = "estop", younger' < MaxQueue PROVE Waiting' \/ Done'
  BY DEF EStopInv
<1>1. /\ q' \in Seq(Kinds)
      /\ Len(q') = IF Len(q) >= MaxQueue THEN MaxQueue ELSE Len(q) + 1
      /\ q'[Len(q')] = kind
      /\ Len(q) < MaxQueue => \A i \in 1 .. Len(q) : q'[i] = q[i]
      /\ Len(q) = MaxQueue => \A i \in 1 .. Len(q) - 1 : q'[i] = q[i + 1]
  BY EnqueueResult DEF Receive, TypeOK
<1>2. Len(q) \in Nat /\ Len(q) <= MaxQueue /\ younger \in Nat /\ Len(q') \in Nat
  BY <1>1, LenProperties, LoopConstants DEF TypeOK
<1>3. CASE kind = "estop"
  <2>1. younger' = 0
    BY <1>3 DEF Receive
  <2> QED BY <1>1, <1>2, <1>3, <2>1, LoopConstants DEF Waiting
<1>4. CASE kind # "estop"
  <2>1. kind # "reset" /\ lastword = "estop" /\ younger' = younger + 1 /\ younger < MaxQueue
    BY <1>2, <1>4, LoopConstants DEF Receive
  <2>2. mode' = mode
    BY DEF Receive, robot, safeVars
  <2>3. CASE Waiting
    <3>1. CASE Len(q) < MaxQueue
      BY <1>1, <1>2, <2>1, <2>3, <3>1, LoopConstants DEF Waiting
    <3>2. CASE Len(q) = MaxQueue
      <4>1. Len(q') = Len(q) /\ \A i \in 1 .. Len(q') - 1 : q'[i] = q[i + 1]
        BY <1>1, <1>2, <3>2
      <4>2. younger' < Len(q')
        BY <1>2, <4>1, <3>2
      <4>3. q'[Len(q') - younger'] = "estop"
        <5>1. Len(q') - younger' \in 1 .. Len(q') - 1
          BY <1>2, <2>1, <4>1, <4>2
        <5>2. (Len(q') - younger') + 1 = Len(q) - younger
          BY <1>2, <2>1, <4>1
        <5> QED BY <2>3, <4>1, <5>1, <5>2 DEF Waiting
      <4>4. ASSUME NEW i \in 1 .. Len(q'), i > Len(q') - younger' PROVE q'[i] # "reset"
        <5>1. CASE i = Len(q')
          BY <1>1, <2>1, <5>1
        <5>2. CASE i # Len(q')
          <6>1. i \in 1 .. Len(q') - 1 /\ i + 1 \in 1 .. Len(q) /\ i + 1 > Len(q) - younger
            BY <1>2, <2>1, <4>1, <4>4, <5>2
          <6> QED BY <2>3, <4>1, <6>1 DEF Waiting
        <5> QED BY <5>1, <5>2
      <4>5. Waiting'
        BY <4>2, <4>3, <4>4 DEF Waiting
      <4> QED BY <4>5
    <3> QED BY <1>2, <3>1, <3>2, LoopConstants
  <2>4. CASE Done
    BY <1>1, <1>2, <2>1, <2>2, <2>4, LoopConstants DEF Done
  <2> QED BY <2>1, <2>3, <2>4 DEF EStopInv
<1> QED BY <1>3, <1>4

LEMMA HandleKeepsEStop ==
  ASSUME TypeOK, EStopInv, Handle
  PROVE  EStopInv'
<1> SUFFICES ASSUME lastword' = "estop", younger' < MaxQueue PROVE Waiting' \/ Done'
  BY DEF EStopInv
<1>1. /\ Head(q) \in Kinds /\ Head(q) = q[1]
      /\ Len(q) \in Nat \ {0}
      /\ q' \in Seq(Kinds) /\ Len(q') = Len(q) - 1
      /\ \A i \in 1 .. Len(q') : q'[i] = q[i + 1]
  BY HandleResult DEF Handle, TypeOK
<1>2. younger' = younger /\ younger \in Nat /\ (Waiting \/ Done)
  BY LoopConstants DEF Handle, history, EStopInv, TypeOK
<1>3. CASE Waiting /\ younger + 1 = Len(q)
  <2>1. Head(q) = "estop"
    BY <1>1, <1>2, <1>3 DEF Waiting
  <2>2. mode' = "estop"
    BY <2>1 DEF Handle, Apply, Latches, EmergencyStop
  <2> QED BY <1>1, <1>2, <1>3, <2>2 DEF Waiting, Done
<1>4. CASE Waiting /\ younger + 1 # Len(q)
  <2>1. younger' < Len(q') /\ younger < Len(q)
    BY <1>1, <1>2, <1>4 DEF Waiting
  <2>2. q'[Len(q') - younger'] = "estop"
    <3>1. Len(q') - younger' \in 1 .. Len(q') /\ (Len(q') - younger') + 1 = Len(q) - younger
      BY <1>1, <1>2, <2>1
    <3> QED BY <1>1, <1>4, <3>1 DEF Waiting
  <2>3. ASSUME NEW i \in 1 .. Len(q'), i > Len(q') - younger' PROVE q'[i] # "reset"
    <3>1. i + 1 \in 1 .. Len(q) /\ i + 1 > Len(q) - younger
      BY <1>1, <1>2, <2>1, <2>3
    <3> QED BY <1>1, <1>4, <3>1 DEF Waiting
  <2>4. Waiting'
    BY <2>1, <2>2, <2>3 DEF Waiting
  <2> QED BY <2>4
<1>5. CASE Done
  <2>1. Head(q) # "reset"
    BY <1>1, <1>5 DEF Done
  <2>2. mode' = "estop"
    BY <1>1, <1>5, <2>1
    DEF Done, Handle, Apply, Kinds, Refuses, Accepts, Eases, Latches, robot, safeVars,
      Command, Ease, EmergencyStop
  <2> QED BY <1>1, <1>5, <2>2 DEF Done
<1> QED BY <1>2, <1>3, <1>4, <1>5

\* No interleaving of the network thread with the main loop loses an e-stop,
\* short of a queue's length of younger commands.
THEOREM EStopIsNeverLost == Spec => []EStopNotLost
<1>1. Init => EStopInv
  BY DEF Init, EStopInv
<1>2. TypeOK /\ EStopInv /\ [Next]_loopVars => EStopInv'
  <2> SUFFICES ASSUME TypeOK, EStopInv, [Next]_loopVars PROVE EStopInv'
    OBVIOUS
  <2>1. CASE Handle
    BY <2>1, HandleKeepsEStop
  <2>2. ASSUME NEW kind \in Kinds, Receive(kind) PROVE EStopInv'
    BY <2>2, ReceiveKeepsEStop
  <2>3. CASE TickStep
    BY <2>3 DEF TickStep, EStopInv, Waiting, Done, history, Eases, Latches, Ease, Trip,
      EmergencyStop
  <2>4. CASE End \/ Begin
    BY <2>4 DEF End, Begin, NoSession, EStopInv
  <2>5. CASE UNCHANGED <<robot, q, history>>
    BY <2>5 DEF EStopInv, Waiting, Done, robot, safeVars, history
  <2>6. CASE NextPass \/ BeginTick \/ Status \/ Publish \/ Network \/ \E r \in BOOLEAN : LinkBreaks(r)
    BY <2>5, <2>6 DEF NextPass, BeginTick, Status, Publish, Network, OnConnect, OnDisconnect,
      LinkBreaks
  <2> QED BY <2>1, <2>2, <2>3, <2>4, <2>5, <2>6 DEF Next, Main, Outside, loopVars
<1>3. TypeOK /\ EStopInv => EStopNotLost
  <2> SUFFICES ASSUME TypeOK, Waiting PROVE \E i \in 1 .. Len(q) : q[i] = "estop"
    BY DEF EStopInv, Done, EStopNotLost
  <2>1. Len(q) - younger \in 1 .. Len(q)
    BY LenProperties, LoopConstants DEF TypeOK, Waiting
  <2> QED BY <2>1 DEF Waiting
<1> QED BY <1>1, <1>2, <1>3, LoopTypeCorrect, PTL DEF Spec
=============================================================================
