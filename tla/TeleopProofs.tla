------------------------------ MODULE TeleopProofs ------------------------------
(***************************************************************************)
(* What is proved of Teleop, for every time of the watchdog, every length  *)
(* of a deceleration, any number of failures and of switch messages under  *)
(* way.                                                                    *)
(***************************************************************************)
EXTENDS Teleop, SequenceTheorems, TLAPS

LEMMA TeleopConstants ==
  /\ Watchdog \in Nat /\ Watchdog > 0 /\ Slow \in Nat
  /\ GhostGrace \in Nat /\ GhostCooldown \in 0 .. GhostGrace
  /\ MaxTold \in Nat /\ MaxTold > 0 /\ MaxFaults \in Nat
  BY TeleopAssumption

LEMMA ControllerType ==
  /\ \A t \in Controller : Its(t) \in Value
  /\ "none" \notin Controller /\ "none" \notin Value /\ {"main", "pad"} = Controller
  BY DEF Controller, Value, Its

-----------------------------------------------------------------------------
(***************************************************************************)
(* Types                                                                   *)
(***************************************************************************)
MotionOK ==
  /\ driver \in Controller \union {"none"} /\ slow \in 0 .. Slow /\ stray \in BOOLEAN
  /\ age \in 0 .. Watchdog + 1 /\ armed \in BOOLEAN

LEMMA DownType ==
  ASSUME NEW max \in Nat, NEW n \in 0 .. max
  PROVE  Down(n) \in 0 .. max
  BY DEF Down

LEMMA UptoType ==
  ASSUME NEW max \in Nat, NEW n \in 0 .. max
  PROVE  Upto(n, max) \in 0 .. max /\ (n < max => Upto(n, max) = n + 1)
  BY DEF Upto

LEMMA StopsType ==
  ASSUME TypeOK, Stops
  PROVE  MotionOK'
<1>1. slow' \in 0 .. Slow
  BY TeleopConstants DEF TypeOK, Stops
<1>2. stray' \in BOOLEAN /\ armed' \in BOOLEAN
  BY DEF TypeOK, Stops
<1>3. driver' \in Controller \union {"none"} /\ age' \in 0 .. Watchdog + 1
  BY TeleopConstants DEF Stops
<1> QED BY <1>1, <1>2, <1>3 DEF MotionOK

LEMMA ArrivesType ==
  ASSUME TypeOK, NEW t \in Controller, NEW c, Arrives(t, c)
  PROVE  MotionOK'
<1>1. CASE Goes(t)
  <2>1. stray' \in BOOLEAN /\ armed' \in BOOLEAN
    BY <1>1 DEF Goes
  <2>2. driver' \in Controller /\ slow' \in 0 .. Slow /\ age' \in 0 .. Watchdog + 1
    BY <1>1, TeleopConstants DEF Goes
  <2> QED BY <2>1, <2>2 DEF MotionOK
<1> QED BY <1>1, StopsType DEF Arrives

LEMMA StillType ==
  ASSUME TypeOK, UNCHANGED motion
  PROVE  MotionOK'
  BY DEF TypeOK, MotionOK, motion

LEMMA SpellType ==
  ASSUME TypeOK, Spell
  PROVE  loose' \in 0 .. MaxLoose
  BY TeleopConstants DEF TypeOK, Spell, MaxLoose

LEMMA MishapType ==
  ASSUME TypeOK, Mishap
  PROVE  /\ faults' \in 0 .. MaxFaults /\ wills \in 0 .. faults' /\ wills + 1 \in 0 .. faults'
  BY TeleopConstants DEF TypeOK, Mishap

LEMMA PublishType ==
  ASSUME TypeOK, NEW v \in Value, Publish(v)
  PROVE  /\ kept' \in Value \union {"none"}
         /\ told' \in [Controller -> Seq(Value)]
         /\ \A t \in Controller : Len(told'[t]) <= MaxTold
<1>1. kept' = v
  BY DEF Publish
<1>2. ASSUME NEW t \in Controller
      PROVE  told'[t] \in Seq(Value) /\ Len(told'[t]) <= MaxTold
  <2>1. told[t] \in Seq(Value) /\ Len(told[t]) <= MaxTold
    BY DEF TypeOK
  <2>2. CASE net[t]
    <3>1. told'[t] = Append(told[t], v) /\ Len(told[t]) < MaxTold
      BY <2>2 DEF Publish
    <3>2. Append(told[t], v) \in Seq(Value) /\ Len(Append(told[t], v)) = Len(told[t]) + 1
      BY <2>1
    <3>3. Len(told[t]) \in Nat
      BY <2>1
    <3> QED BY <3>1, <3>2, <3>3, TeleopConstants
  <2>3. CASE ~net[t]
    BY <2>1, <2>3 DEF Publish
  <2> QED BY <2>2, <2>3
<1>3. told' = [t \in Controller |-> IF net[t] THEN Append(told[t], v) ELSE told[t]]
  BY DEF Publish
<1>4. told' \in [Controller -> Seq(Value)]
  BY <1>2, <1>3
<1> QED BY <1>1, <1>2, <1>4

\* Off and on with the switch, connections of the console, wills
LEMMA SwitchType ==
  ASSUME TypeOK, \/ Toggle \/ ConConnects \/ ConOpens \/ ConBreaks \/ ConEnds \/ ConStarts \/ Will
  PROVE  TypeOK'
<1> USE DEF TypeOK, hands, loop, links, wheels, motion
<1>1. CASE Toggle
  <2>1. shown' \in Value
    BY <1>1 DEF Toggle, Value
  <2>2. /\ kept' \in Value \union {"none"}
        /\ told' \in [Controller -> Seq(Value)]
        /\ \A t \in Controller : Len(told'[t]) <= MaxTold
    <3>1. CASE con = "up"
      BY <1>1, <2>1, <3>1, PublishType DEF Toggle
    <3>2. CASE con # "up"
      BY <1>1, <3>2 DEF Toggle
    <3> QED BY <3>1, <3>2
  <2>3. Stops \/ UNCHANGED motion
    BY <1>1 DEF Toggle
  <2>4. MotionOK'
    BY <2>3, StopsType, StillType
  <2>5. loose' \in 0 .. MaxLoose
    BY <1>1, SpellType DEF Toggle
  <2> QED BY <1>1, <2>1, <2>2, <2>4, <2>5 DEF Toggle, MotionOK
<1>2. CASE ConConnects
  <2>1. Publish("off") /\ "off" \in Value
    BY <1>2 DEF ConConnects, Value
  <2>2. /\ kept' \in Value \union {"none"}
        /\ told' \in [Controller -> Seq(Value)]
        /\ \A t \in Controller : Len(told'[t]) <= MaxTold
    BY <2>1, PublishType
  <2>3. Stops \/ UNCHANGED motion
    BY <1>2 DEF ConConnects
  <2>4. MotionOK'
    BY <2>3, StopsType, StillType
  <2>5. loose' \in 0 .. MaxLoose
    BY <1>2, SpellType DEF ConConnects
  <2> QED BY <1>2, <2>1, <2>2, <2>4, <2>5 DEF ConConnects, MotionOK
<1>3. CASE ConOpens
  BY <1>3 DEF ConOpens
<1>4. CASE ConBreaks
  <2>1. faults' \in 0 .. MaxFaults /\ wills' \in 0 .. faults'
    BY <1>4, MishapType DEF ConBreaks
  <2> QED BY <1>4, <2>1 DEF ConBreaks
<1>5. CASE ConEnds
  <2>1. faults' \in 0 .. MaxFaults /\ wills' \in 0 .. faults'
    BY <1>5, MishapType DEF ConEnds
  <2> QED BY <1>5, <2>1 DEF ConEnds, Value
<1>6. CASE ConStarts
  BY <1>6 DEF ConStarts
<1>7. CASE Will
  <2>1. Publish("off") /\ "off" \in Value
    BY <1>7 DEF Will, Value
  <2>2. /\ kept' \in Value \union {"none"}
        /\ told' \in [Controller -> Seq(Value)]
        /\ \A t \in Controller : Len(told'[t]) <= MaxTold
    BY <2>1, PublishType
  <2>3. wills' \in 0 .. faults
    BY <1>7, TeleopConstants DEF Will
  <2> QED BY <1>7, <2>2, <2>3 DEF Will
<1> QED BY <1>1, <1>2, <1>3, <1>4, <1>5, <1>6, <1>7

\* Switch messages, breaks of a controller's link, its reconnections
LEMMA LinkType ==
  ASSUME TypeOK, NEW t \in Controller, Told(t) \/ NetBreaks(t) \/ NetUp(t) \/ NewClient(t)
  PROVE  TypeOK'
<1> USE DEF TypeOK, switch, links, hands, loop, wheels, motion
<1>1. CASE Told(t)
  <2>1. told[t] \in Seq(Value) /\ told[t] # <<>> /\ Len(told[t]) <= MaxTold
    BY <1>1 DEF Told
  <2>2. /\ Tail(told[t]) \in Seq(Value) /\ Head(told[t]) \in Value
        /\ Len(Tail(told[t])) = Len(told[t]) - 1 /\ Len(told[t]) \in Nat
    BY <2>1
  <2>3. /\ told' \in [Controller -> Seq(Value)]
        /\ \A u \in Controller : Len(told'[u]) <= MaxTold
    BY <1>1, <2>1, <2>2, TeleopConstants DEF Told
  <2>4. seen' \in [Controller -> Value \union {"none"}]
    BY <1>1, <2>2 DEF Told
  <2> QED BY <1>1, <2>3, <2>4, TeleopConstants DEF Told, MaxLoose
<1>2. CASE NetBreaks(t)
  <2>1. /\ told' \in [Controller -> Seq(Value)]
        /\ \A u \in Controller : Len(told'[u]) <= MaxTold
    BY <1>2, TeleopConstants DEF NetBreaks
  <2>2. net' \in [Controller -> BOOLEAN]
    BY <1>2 DEF NetBreaks
  <2>3. faults' \in 0 .. MaxFaults /\ wills' \in 0 .. faults'
    BY <1>2, MishapType DEF NetBreaks
  <2> QED BY <1>2, <2>1, <2>2, <2>3 DEF NetBreaks
<1>3. CASE NetUp(t)
  <2> DEFINE first == IF kept = "none" THEN <<>> ELSE <<kept>>
  <2>1. first \in Seq(Value) /\ Len(first) <= MaxTold
    BY TeleopConstants
  <2>2. told' = [told EXCEPT ![t] = first]
    BY <1>3 DEF NetUp
  <2>3. /\ told' \in [Controller -> Seq(Value)]
        /\ \A u \in Controller : Len(told'[u]) <= MaxTold
    BY <2>1, <2>2
  <2>4. net' \in [Controller -> BOOLEAN]
    BY <1>3 DEF NetUp
  <2>5. waits' \in [Controller -> {"none", "go", "stop"}]
    BY <1>3 DEF NetUp
  <2>6. UNCHANGED motion \/ Arrives(t, waits[t])
    BY <1>3 DEF NetUp
  <2>7. MotionOK'
    BY <2>6, ArrivesType, StillType
  <2>8. loose' \in 0 .. MaxLoose
    BY <1>3, TeleopConstants DEF NetUp, MaxLoose
  <2> QED BY <1>3, <2>3, <2>4, <2>5, <2>7, <2>8 DEF NetUp, MotionOK
<1>4. CASE NewClient(t)
  <2>1. waits' \in [Controller -> {"none", "go", "stop"}]
    BY <1>4 DEF NewClient
  <2> QED BY <1>4, <2>1 DEF NewClient
<1> QED BY <1>1, <1>2, <1>3, <1>4

\* A pass of a controller
LEMMA PassType ==
  ASSUME TypeOK, NEW t \in Controller, Pass(t)
  PROVE  TypeOK'
<1>1. PICK steered \in BOOLEAN :
        LET present == t = "pad" => pad = "on"
            want == present /\ hand[t] /\ ~(t = "pad" /\ stale) /\ Allowed(t)
            sends == want /\ (~moving[t] \/ ~looped[t] \/ steered)
            ghost == present /\ ~want /\ Ghost(t) IN
          /\ moving' = [moving EXCEPT ![t] = want]
          /\ rest' = [rest EXCEPT ![t] = IF sends THEN GhostGrace ELSE IF ghost THEN GhostCooldown ELSE @]
          /\ IF sends THEN Send(t, "go")
             ELSE IF ghost \/ (~want /\ moving[t]) THEN Send(t, "stop")
             ELSE UNCHANGED <<waits, motion>>
  BY DEF Pass
<1> DEFINE want == /\ (t = "pad" => pad = "on") /\ hand[t] /\ ~(t = "pad" /\ stale) /\ Allowed(t)
<1>2. want \in BOOLEAN
  OBVIOUS
<1>3. moving' \in [Controller -> BOOLEAN]
  BY <1>1, <1>2 DEF TypeOK
<1>4. rest' \in [Controller -> 0 .. GhostGrace]
  <2>1. \E n \in 0 .. GhostGrace : rest' = [rest EXCEPT ![t] = n]
    <3>1. rest[t] \in 0 .. GhostGrace /\ GhostGrace \in 0 .. GhostGrace
      BY TeleopConstants DEF TypeOK
    <3> QED BY <1>1, <3>1, TeleopConstants
  <2> QED BY <2>1 DEF TypeOK
<1>5. Send(t, "go") \/ Send(t, "stop") \/ UNCHANGED <<waits, motion>>
  BY <1>1
<1>6. waits' \in [Controller -> {"none", "go", "stop"}]
  BY <1>5 DEF Send, TypeOK
<1>7. Arrives(t, "go") \/ Arrives(t, "stop") \/ UNCHANGED motion
  BY <1>5 DEF Send
<1>8. MotionOK'
  BY <1>7, ArrivesType, StillType
<1>9. loose' \in 0 .. MaxLoose
  BY SpellType DEF Pass
<1>10. looped' \in [Controller -> BOOLEAN]
  BY DEF Pass, TypeOK
<1> QED BY <1>3, <1>4, <1>6, <1>8, <1>9, <1>10 DEF Pass, TypeOK, MotionOK, switch, links, hands

\* Its process, its operator, and its pad
LEMMA PeopleType ==
  ASSUME TypeOK,
         \/ \E t \in Controller : Ends(t) \/ Starts(t) \/ Hand(t)
         \/ PadStales \/ PadGoes \/ PadBack
  PROVE  TypeOK'
<1> USE DEF TypeOK, switch, links, hands, loop, wheels, motion
<1>1. ASSUME NEW t \in Controller, Ends(t) PROVE TypeOK'
  <2>1. /\ alive' \in [Controller -> BOOLEAN] /\ net' \in [Controller -> BOOLEAN]
        /\ moving' \in [Controller -> BOOLEAN] /\ looped' \in [Controller -> BOOLEAN]
    BY <1>1 DEF Ends
  <2>2. /\ told' \in [Controller -> Seq(Value)]
        /\ \A u \in Controller : Len(told'[u]) <= MaxTold
    BY <1>1, TeleopConstants DEF Ends
  <2>3. /\ seen' \in [Controller -> Value \union {"none"}]
        /\ waits' \in [Controller -> {"none", "go", "stop"}]
    BY <1>1 DEF Ends
  <2>4. rest' \in [Controller -> 0 .. GhostGrace]
    BY <1>1, TeleopConstants DEF Ends
  <2>5. Stops \/ UNCHANGED motion
    BY <1>1 DEF Ends
  <2>6. MotionOK'
    BY <2>5, StopsType, StillType
  <2>7. loose' \in 0 .. MaxLoose
    BY <1>1, SpellType DEF Ends
  <2>8. faults' \in 0 .. MaxFaults /\ wills' \in 0 .. faults'
    BY <1>1, MishapType DEF Ends
  <2> QED BY <1>1, <2>1, <2>2, <2>3, <2>4, <2>6, <2>7, <2>8 DEF Ends, MotionOK
<1>2. ASSUME NEW t \in Controller, Starts(t) PROVE TypeOK'
  <2>1. alive' \in [Controller -> BOOLEAN]
    BY <1>2 DEF Starts
  <2> QED BY <1>2, <2>1 DEF Starts
<1>3. ASSUME NEW t \in Controller, Hand(t) PROVE TypeOK'
  <2>1. hand' \in [Controller -> BOOLEAN] /\ stale' \in BOOLEAN
    BY <1>3 DEF Hand
  <2> QED BY <1>3, <2>1, TeleopConstants DEF Hand, MaxLoose
<1>4. CASE PadStales
  <2>1. stale' \in BOOLEAN
    BY <1>4 DEF PadStales
  <2> QED BY <1>4, <2>1 DEF PadStales
<1>5. CASE PadGoes
  <2>1. hand' \in [Controller -> BOOLEAN] /\ stale' \in BOOLEAN
    BY <1>5 DEF PadGoes
  <2>2. faults' \in 0 .. MaxFaults /\ wills' \in 0 .. faults'
    BY <1>5, MishapType DEF PadGoes
  <2> QED BY <1>5, <2>1, <2>2 DEF PadGoes
<1>6. CASE PadBack
  <2>1. hand' \in [Controller -> BOOLEAN] /\ stale' \in BOOLEAN
    BY <1>6 DEF PadBack
  <2> QED BY <1>6, <2>1 DEF PadBack
<1> QED BY <1>1, <1>2, <1>3, <1>4, <1>5, <1>6

LEMMA TickType ==
  ASSUME TypeOK, Tick
  PROVE  TypeOK'
<1> DEFINE a == Upto(age, Watchdog + 1)
<1>1. a \in 0 .. Watchdog + 1
  <2>1. Watchdog + 1 \in Nat /\ age \in 0 .. Watchdog + 1
    BY TeleopConstants DEF TypeOK
  <2> QED BY <2>1, UptoType
<1>2. Rolls(a) /\ age' = IF armed' THEN a ELSE 0
  BY DEF Tick
<1>3. slow' \in 0 .. Slow
  <2>1. 0 \in 0 .. Slow /\ Down(slow) \in 0 .. Slow
    BY DownType, TeleopConstants DEF TypeOK
  <2> QED BY <1>2, <2>1 DEF Rolls
<1>4. driver' \in Controller \union {"none"}
  BY <1>2 DEF Rolls, TypeOK
<1>5. stray' \in BOOLEAN /\ armed' \in BOOLEAN
  BY <1>2 DEF Rolls, TypeOK
<1>6. age' \in 0 .. Watchdog + 1
  BY <1>1, <1>2, TeleopConstants
<1>7. loose' \in 0 .. MaxLoose
  <2>1. MaxLoose \in Nat /\ 0 \in 0 .. MaxLoose /\ loose \in 0 .. MaxLoose
    BY TeleopConstants DEF TypeOK, MaxLoose
  <2>2. Upto(loose, MaxLoose) \in 0 .. MaxLoose
    BY <2>1, UptoType
  <2> QED BY <2>1, <2>2 DEF Tick
<1>8. rest' \in [Controller -> 0 .. GhostGrace]
  <2>1. ASSUME NEW t \in Controller PROVE Down(rest[t]) \in 0 .. GhostGrace
    BY DownType, TeleopConstants DEF TypeOK
  <2> QED BY <2>1 DEF Tick
<1>9. looped' \in [Controller -> BOOLEAN] /\ report' \in BOOLEAN
  BY DEF Tick, Turning
<1> QED BY <1>3, <1>4, <1>5, <1>6, <1>7, <1>8, <1>9 DEF Tick, TypeOK, switch, links, hands

LEMMA StraysType ==
  ASSUME TypeOK, Strays
  PROVE  TypeOK'
<1>1. faults' \in 0 .. MaxFaults /\ wills' \in 0 .. faults'
  BY MishapType DEF Strays, switch
<1> QED BY <1>1 DEF Strays, TypeOK, switch, links, hands, loop

LEMMA InitType == Init => TypeOK
<1> SUFFICES ASSUME Init PROVE TypeOK
  OBVIOUS
<1>1. told \in [Controller -> Seq(Value)] /\ \A t \in Controller : Len(told[t]) <= MaxTold
  BY TeleopConstants DEF Init
<1>2. rest \in [Controller -> 0 .. GhostGrace]
  BY TeleopConstants DEF Init
<1>3. /\ faults \in 0 .. MaxFaults /\ wills \in 0 .. faults /\ slow \in 0 .. Slow
      /\ age \in 0 .. Watchdog + 1 /\ loose \in 0 .. MaxLoose
  BY TeleopConstants DEF Init, MaxLoose
<1>4. /\ con \in {"down", "off", "up"} /\ shown \in Value /\ kept \in Value \union {"none"}
      /\ pad \in {"on", "gone"} /\ driver \in Controller \union {"none"}
  BY DEF Init, Value
<1>5. stale \in BOOLEAN /\ report \in BOOLEAN /\ stray \in BOOLEAN /\ armed \in BOOLEAN
  BY DEF Init
<1>6. /\ alive \in [Controller -> BOOLEAN] /\ net \in [Controller -> BOOLEAN]
      /\ hand \in [Controller -> BOOLEAN] /\ moving \in [Controller -> BOOLEAN]
      /\ looped \in [Controller -> BOOLEAN]
      /\ seen \in [Controller -> Value \union {"none"}]
      /\ waits \in [Controller -> {"none", "go", "stop"}]
  BY DEF Init
<1> QED BY <1>1, <1>2, <1>3, <1>4, <1>5, <1>6 DEF TypeOK

LEMMA NextType == TypeOK /\ [Next]_vars => TypeOK'
<1> SUFFICES ASSUME TypeOK, [Next]_vars PROVE TypeOK'
  OBVIOUS
<1>1. CASE UNCHANGED vars
  BY <1>1 DEF TypeOK, vars, switch, links, hands, loop, wheels, motion
<1>2. CASE Strays
  BY <1>2, StraysType
<1>3. CASE Toggle \/ ConConnects \/ ConOpens \/ ConBreaks \/ ConEnds \/ ConStarts \/ Will
  BY <1>3, SwitchType
<1>4. ASSUME NEW t \in Controller, Told(t) \/ NetBreaks(t) \/ NetUp(t) \/ NewClient(t)
      PROVE  TypeOK'
  BY <1>4, LinkType
<1>5. ASSUME NEW t \in Controller, Pass(t) PROVE TypeOK'
  BY <1>5, PassType
<1>6. ASSUME NEW t \in Controller, Ends(t) \/ Starts(t) \/ Hand(t) PROVE TypeOK'
  BY <1>6, PeopleType
<1>7. CASE PadStales \/ PadGoes \/ PadBack
  BY <1>7, PeopleType
<1>8. CASE Tick
  BY <1>8, TickType
<1> QED BY <1>1, <1>2, <1>3, <1>4, <1>5, <1>6, <1>7, <1>8 DEF Next

\* Every variable of the controllers, the switch and the robot keeps to its type.
THEOREM TeleopTypeCorrect == Spec => []TypeOK
<1>1. Init => TypeOK
  BY InitType
<1>2. TypeOK /\ [Next]_vars => TypeOK'
  BY NextType
<1> QED BY <1>1, <1>2, PTL DEF Spec

-----------------------------------------------------------------------------
(***************************************************************************)
(* The switch                                                              *)
(***************************************************************************)
\* What t will know of the switch when the messages under way have come
Latest(t) == IF told[t] = <<>> THEN seen[t] ELSE told[t][Len(told[t])]

\* Who is connected will know what the broker retains.
SwitchInv ==
  \A t \in Controller :
    /\ net[t] => alive[t] /\ Latest(t) = kept
    /\ ~net[t] => told[t] = <<>>
    /\ kept = "none" => seen[t] = "none" /\ told[t] = <<>>

LEMMA SwitchStill ==
  ASSUME SwitchInv, UNCHANGED <<kept, links, seen>>
  PROVE  SwitchInv'
<1> SUFFICES ASSUME NEW t \in Controller
             PROVE  /\ net'[t] => alive'[t] /\ Latest(t)' = kept'
                    /\ ~net'[t] => told'[t] = <<>>
                    /\ kept' = "none" => seen'[t] = "none" /\ told'[t] = <<>>
  BY DEF SwitchInv
<1>1. Latest(t)' = Latest(t)
  BY DEF Latest, links
<1> QED BY <1>1 DEF SwitchInv, links

LEMMA PublishKeeps ==
  ASSUME TypeOK, SwitchInv, NEW v \in Value, Publish(v), UNCHANGED <<alive, net, seen>>
  PROVE  SwitchInv'
<1> SUFFICES ASSUME NEW t \in Controller
             PROVE  /\ net'[t] => alive'[t] /\ Latest(t)' = kept'
                    /\ ~net'[t] => told'[t] = <<>>
                    /\ kept' = "none" => seen'[t] = "none" /\ told'[t] = <<>>
  BY DEF SwitchInv
<1>1. kept' = v /\ v # "none"
  BY DEF Publish, Value
<1>2. CASE net[t]
  <2>1. told'[t] = Append(told[t], v) /\ told[t] \in Seq(Value)
    BY <1>2 DEF Publish, TypeOK
  <2>2. Append(told[t], v) # <<>> /\ Append(told[t], v)[Len(Append(told[t], v))] = v
    BY <2>1
  <2>3. Latest(t)' = v
    BY <2>1, <2>2 DEF Latest
  <2> QED BY <1>1, <1>2, <2>3 DEF SwitchInv
<1>3. CASE ~net[t]
  BY <1>1, <1>3 DEF SwitchInv, Publish
<1> QED BY <1>2, <1>3

LEMMA TellKeeps ==
  ASSUME TypeOK, SwitchInv, NEW t \in Controller,
         Told(t) \/ NetBreaks(t) \/ NetUp(t) \/ NewClient(t)
  PROVE  SwitchInv'
<1> SUFFICES ASSUME NEW u \in Controller
             PROVE  /\ net'[u] => alive'[u] /\ Latest(u)' = kept'
                    /\ ~net'[u] => told'[u] = <<>>
                    /\ kept' = "none" => seen'[u] = "none" /\ told'[u] = <<>>
  BY DEF SwitchInv
<1>1. CASE Told(t)
  <2>1. told[t] \in Seq(Value) /\ told[t] # <<>> /\ kept' = kept /\ net' = net /\ alive' = alive
    BY <1>1 DEF Told, TypeOK, switch
  <2>2. net[t] /\ kept = told[t][Len(told[t])] /\ kept # "none"
    BY <2>1 DEF SwitchInv, Latest
  <2>3. told' = [told EXCEPT ![t] = Tail(told[t])] /\ seen' = [seen EXCEPT ![t] = Head(told[t])]
    BY <1>1 DEF Told
  <2>4. CASE u = t
    <3>1. told'[t] = Tail(told[t]) /\ seen'[t] = Head(told[t])
      BY <2>3 DEF TypeOK
    <3>2. CASE Tail(told[t]) = <<>>
      <4>1. Len(told[t]) = 1
        <5>1. Len(Tail(told[t])) = Len(told[t]) - 1 /\ Len(told[t]) \in Nat
          BY <2>1, HeadTailProperties
        <5>2. Len(<< >>) = 0
          BY EmptySeq
        <5>3. Len(Tail(told[t])) = 0
          BY <3>2, <5>2, Zenon
        <5> QED BY <5>1, <5>3
      <4>2. Head(told[t]) = told[t][Len(told[t])]
        BY <2>1, <4>1
      <4>3. Latest(t)' = kept
        BY <2>2, <3>1, <3>2, <4>2 DEF Latest
      <4> QED BY <2>1, <2>2, <2>4, <4>3 DEF SwitchInv
    <3>3. CASE Tail(told[t]) # <<>>
      <4>1. Tail(told[t])[Len(Tail(told[t]))] = told[t][Len(told[t])]
        BY <2>1, <3>3
      <4>2. Latest(t)' = kept
        BY <2>2, <3>1, <3>3, <4>1 DEF Latest
      <4> QED BY <2>1, <2>2, <2>4, <4>2 DEF SwitchInv
    <3> QED BY <3>2, <3>3
  <2>5. CASE u # t
    <3>1. told'[u] = told[u] /\ seen'[u] = seen[u]
      BY <2>3, <2>5 DEF TypeOK
    <3> QED BY <2>1, <3>1 DEF SwitchInv, Latest
  <2> QED BY <2>4, <2>5
<1>2. CASE NetBreaks(t)
  <2>1. kept' = kept /\ seen' = seen /\ alive' = alive
    BY <1>2 DEF NetBreaks, switch, loop
  <2>2. CASE u = t
    <3>1. ~net'[t] /\ told'[t] = <<>>
      BY <1>2 DEF NetBreaks, TypeOK
    <3> QED BY <2>1, <2>2, <3>1 DEF SwitchInv
  <2>3. CASE u # t
    <3>1. net'[u] = net[u] /\ told'[u] = told[u]
      BY <1>2, <2>3 DEF NetBreaks, TypeOK
    <3> QED BY <2>1, <3>1 DEF SwitchInv, Latest
  <2> QED BY <2>2, <2>3
<1>3. CASE NetUp(t)
  <2>1. kept' = kept /\ seen' = seen /\ alive' = alive
    BY <1>3 DEF NetUp, switch
  <2>2. CASE u = t
    <3>1. net'[t] /\ alive[t] /\ told'[t] = IF kept = "none" THEN <<>> ELSE <<kept>>
      BY <1>3 DEF NetUp, TypeOK
    <3>2. CASE kept = "none"
      BY <2>1, <2>2, <3>1, <3>2 DEF SwitchInv, Latest
    <3>3. CASE kept # "none"
      <4>1. told'[t] # <<>> /\ told'[t][Len(told'[t])] = kept
        BY <3>1, <3>3
      <4> QED BY <2>1, <2>2, <3>1, <3>3, <4>1 DEF Latest
    <3> QED BY <3>2, <3>3
  <2>3. CASE u # t
    <3>1. net'[u] = net[u] /\ told'[u] = told[u]
      BY <1>3, <2>3 DEF NetUp, TypeOK
    <3> QED BY <2>1, <3>1 DEF SwitchInv, Latest
  <2> QED BY <2>2, <2>3
<1>4. CASE NewClient(t)
  <2>1. UNCHANGED <<kept, links, seen>>
    BY <1>4 DEF NewClient, switch
  <2> QED BY <2>1, SwitchStill DEF SwitchInv
<1> QED BY <1>1, <1>2, <1>3, <1>4

LEMMA EndsKeepSwitch ==
  ASSUME TypeOK, SwitchInv, NEW t \in Controller, Ends(t) \/ Starts(t)
  PROVE  SwitchInv'
<1> SUFFICES ASSUME NEW u \in Controller
             PROVE  /\ net'[u] => alive'[u] /\ Latest(u)' = kept'
                    /\ ~net'[u] => told'[u] = <<>>
                    /\ kept' = "none" => seen'[u] = "none" /\ told'[u] = <<>>
  BY DEF SwitchInv
<1>1. CASE Ends(t)
  <2>1. kept' = kept
    BY <1>1 DEF Ends, switch
  <2>2. CASE u = t
    <3>1. ~net'[t] /\ told'[t] = <<>> /\ seen'[t] = "none"
      BY <1>1 DEF Ends, TypeOK
    <3> QED BY <2>2, <3>1
  <2>3. CASE u # t
    <3>1. net'[u] = net[u] /\ alive'[u] = alive[u] /\ told'[u] = told[u] /\ seen'[u] = seen[u]
      BY <1>1, <2>3 DEF Ends, TypeOK
    <3> QED BY <2>1, <3>1 DEF SwitchInv, Latest
  <2> QED BY <2>2, <2>3
<1>2. CASE Starts(t)
  <2>1. kept' = kept /\ seen' = seen /\ net' = net /\ told' = told
    BY <1>2 DEF Starts, switch, loop
  <2>2. alive[u] => alive'[u]
    BY <1>2 DEF Starts, TypeOK
  <2> QED BY <2>1, <2>2 DEF SwitchInv, Latest
<1> QED BY <1>1, <1>2

LEMMA NextSwitch == TypeOK /\ SwitchInv /\ [Next]_vars => SwitchInv'
<1> SUFFICES ASSUME TypeOK, SwitchInv, [Next]_vars PROVE SwitchInv'
  OBVIOUS
<1> USE DEF switch, links, loop
<1>1. CASE UNCHANGED vars
  BY <1>1, SwitchStill DEF vars
<1>2. CASE Strays \/ ConOpens \/ ConBreaks \/ ConEnds \/ ConStarts \/ PadStales \/ PadGoes \/ PadBack \/ Tick
  BY <1>2, SwitchStill
     DEF Strays, ConOpens, ConBreaks, ConEnds, ConStarts, PadStales, PadGoes, PadBack, Tick
<1>3. CASE Toggle
  <2>1. shown' \in Value /\ UNCHANGED <<alive, net, seen>>
    BY <1>3 DEF Toggle, Value
  <2>2. Publish(shown') \/ UNCHANGED <<kept, told>>
    BY <1>3 DEF Toggle
  <2> QED BY <2>1, <2>2, PublishKeeps, SwitchStill
<1>4. CASE ConConnects \/ Will
  <2>1. Publish("off") /\ "off" \in Value /\ UNCHANGED <<alive, net, seen>>
    BY <1>4 DEF ConConnects, Will, Value
  <2> QED BY <2>1, PublishKeeps
<1>5. ASSUME NEW t \in Controller, Told(t) \/ NetBreaks(t) \/ NetUp(t) \/ NewClient(t)
      PROVE  SwitchInv'
  BY <1>5, TellKeeps
<1>6. ASSUME NEW t \in Controller, Ends(t) \/ Starts(t)
      PROVE  SwitchInv'
  BY <1>6, EndsKeepSwitch
<1>7. ASSUME NEW t \in Controller, Pass(t) \/ Hand(t)
      PROVE  SwitchInv'
  BY <1>7, SwitchStill DEF Pass, Hand
<1> QED BY <1>1, <1>2, <1>3, <1>4, <1>5, <1>6, <1>7 DEF Next

LEMMA InitSwitch == Init => SwitchInv
  BY DEF Init, SwitchInv, Latest

-----------------------------------------------------------------------------
(***************************************************************************)
(* Two ghost watches                                                       *)
(***************************************************************************)
LEMMA GhostStep ==
  ASSUME TypeOK, SwitchInv, NEW t \in Controller, Pass(t), ~moving[t],
         driver = Other(t), driver' = "none", told[t] = <<>>
  PROVE  kept = Its(t)
<1>1. driver \in Controller /\ driver # driver'
  BY DEF Other, Controller
<1>2. ~UNCHANGED motion
  BY <1>1 DEF motion
<1>3. ~Arrives(t, "go")
  BY ControllerType DEF Arrives, Goes
<1>4. Ghost(t) /\ Send(t, "stop")
  BY <1>2, <1>3 DEF Pass, Send
<1>5. net[t] /\ seen[t] = Its(t)
  BY <1>2, <1>4 DEF Send, Ghost, Allowed
<1> QED BY <1>5 DEF SwitchInv, Latest

\* The stop of a ghost watch never ends the rightful drive of the other
\* controller (joy_teleop.py:63-65).
THEOREM GhostAlwaysSparesTheOther == Spec => GhostSparesTheOther
<1>1. TypeOK /\ SwitchInv
        => [\A t \in Controller :
              Pass(t) /\ ~moving[t] /\ driver = Other(t) /\ driver' = "none" /\ told[t] = <<>>
                => kept = Its(t)]_vars
  BY GhostStep
<1>2. Spec => []SwitchInv
  <2>1. Init => SwitchInv
    BY InitSwitch
  <2>2. TypeOK /\ SwitchInv /\ [Next]_vars => SwitchInv'
    BY NextSwitch
  <2> QED BY <2>1, <2>2, TeleopTypeCorrect, PTL DEF Spec
<1> QED BY <1>1, <1>2, TeleopTypeCorrect, PTL DEF GhostSparesTheOther

-----------------------------------------------------------------------------
(***************************************************************************)
(* Hands off                                                               *)
(***************************************************************************)
\* The driver could send the next command: nothing he knows of forbids it.
Heard(t) ==
  alive[t] /\ net[t] /\ hand[t] /\ ~(t = "pad" /\ stale) /\ seen[t] = Its(t)

\* How long a robot has been driven by one who may not is less than the age of
\* the last command, and such a driver cannot send another one.
LooseInv ==
  /\ driver = "none" => loose = 0
  /\ driver # "none" => armed /\ loose <= age /\ age <= Watchdog
  /\ driver # "none" /\ loose > 0 => ~Heard(driver)
  /\ pad = "gone" => ~hand["pad"]

\* Whatever starts or stops the drive, loose counts anew.
LEMMA StopsLoose ==
  ASSUME TypeOK, LooseInv, Stops, Spell, UNCHANGED <<hand, pad>>
  PROVE  LooseInv'
<1>1. driver' = "none" /\ loose' = 0
  BY DEF Stops, Spell, LooseInv
<1> QED BY <1>1 DEF LooseInv

LEMMA StillLoose ==
  ASSUME TypeOK, LooseInv, UNCHANGED <<motion, loose, hand, pad>>,
         \A t \in Controller : Heard(t)' => Heard(t)
  PROVE  LooseInv'
<1>1. driver # "none" => driver \in Controller
  BY DEF TypeOK
<1> QED BY <1>1 DEF LooseInv, motion

LEMMA AnewLoose ==
  ASSUME TypeOK, LooseInv, UNCHANGED motion, loose' = 0, pad' = "gone" => ~hand'["pad"]
  PROVE  LooseInv'
<1>1. age \in Nat
  BY TeleopConstants DEF TypeOK
<1> QED BY <1>1 DEF LooseInv, motion

LEMMA SwitchLoose ==
  ASSUME TypeOK, LooseInv,
         \/ Toggle \/ ConConnects \/ ConOpens \/ ConBreaks \/ ConEnds \/ ConStarts \/ Will
  PROVE  LooseInv'
<1> USE DEF links, hands, loop, wheels
<1>1. CASE Toggle \/ ConConnects
  <2>1. /\ UNCHANGED <<alive, net, hands, loop>> /\ Spell
        /\ Stops \/ UNCHANGED motion
    BY <1>1 DEF Toggle, ConConnects
  <2>2. CASE Stops
    BY <2>1, <2>2, StopsLoose
  <2>3. CASE UNCHANGED motion
    <3>1. loose' = loose
      BY <2>1, <2>3 DEF Spell, motion
    <3> QED BY <2>1, <2>3, <3>1, StillLoose DEF Heard
  <2> QED BY <2>1, <2>2, <2>3
<1>2. CASE ConOpens \/ ConBreaks \/ ConEnds \/ ConStarts \/ Will
  BY <1>2, StillLoose DEF ConOpens, ConBreaks, ConEnds, ConStarts, Will, Heard
<1> QED BY <1>1, <1>2

LEMMA GoesLoose ==
  ASSUME LooseInv, NEW t \in Controller, Goes(t), loose' = 0, UNCHANGED <<hand, pad>>
  PROVE  LooseInv'
<1>1. driver' = t /\ t # "none" /\ age' = 0 /\ armed'
  BY ControllerType DEF Goes
<1> QED BY <1>1, TeleopConstants DEF LooseInv

LEMMA LinkLoose ==
  ASSUME TypeOK, LooseInv, NEW t \in Controller,
         Told(t) \/ NetBreaks(t) \/ NetUp(t) \/ NewClient(t)
  PROVE  LooseInv'
<1> USE DEF links, hands, loop, wheels
<1>1. CASE Told(t)
  <2>1. UNCHANGED <<motion, hand, pad>> /\ loose' = 0
    BY <1>1 DEF Told
  <2> QED BY <2>1, AnewLoose DEF LooseInv
<1>2. CASE NetBreaks(t)
  <2>1. UNCHANGED <<motion, loose, hand, pad>>
    BY <1>2 DEF NetBreaks
  <2>2. ASSUME NEW u \in Controller, Heard(u)' PROVE Heard(u)
    BY <1>2, <2>2 DEF NetBreaks, Heard, TypeOK
  <2> QED BY <2>1, <2>2, StillLoose
<1>3. CASE NetUp(t)
  <2>1. /\ UNCHANGED <<hand, pad>> /\ loose' = 0
        /\ UNCHANGED motion \/ Arrives(t, waits[t])
    BY <1>3 DEF NetUp
  <2>2. CASE UNCHANGED motion
    BY <2>1, <2>2, AnewLoose DEF LooseInv
  <2>3. CASE Goes(t)
    BY <2>1, <2>3, GoesLoose
  <2>4. CASE Stops
    <3>1. driver' = "none"
      BY <2>4 DEF Stops
    <3> QED BY <2>1, <3>1 DEF LooseInv
  <2> QED BY <2>1, <2>2, <2>3, <2>4 DEF Arrives
<1>4. CASE NewClient(t)
  BY <1>4, StillLoose DEF NewClient, Heard
<1> QED BY <1>1, <1>2, <1>3, <1>4

LEMMA PassLoose ==
  ASSUME TypeOK, SwitchInv, LooseInv, NEW t \in Controller, Pass(t)
  PROVE  LooseInv'
<1>1. /\ UNCHANGED <<alive, net, hand, pad, stale, seen>> /\ Spell
  BY DEF Pass, links, hands
<1>2. \/ alive[t] /\ hand[t] /\ ~(t = "pad" /\ stale) /\ Allowed(t) /\ Send(t, "go")
      \/ Send(t, "stop") \/ UNCHANGED motion
  BY DEF Pass
<1>3. \/ Heard(t) /\ Goes(t)
      \/ Stops \/ UNCHANGED motion
  BY <1>2 DEF Send, Arrives, Heard, Allowed
<1>4. CASE Heard(t) /\ Goes(t)
  <2>1. driver' = t /\ t # "none"
    BY <1>4, ControllerType DEF Goes
  <2>2. CASE driver = t
    <3>1. ~(loose > 0) /\ loose \in Nat
      BY <1>4, <2>1, <2>2, TeleopConstants DEF LooseInv, TypeOK, MaxLoose
    <3>2. loose' = 0
      BY <1>1, <2>1, <2>2, <3>1 DEF Spell
    <3> QED BY <1>1, <1>4, <3>2, GoesLoose
  <2>3. CASE driver # t
    <3>1. loose' = 0
      BY <1>1, <2>1, <2>3 DEF Spell
    <3> QED BY <1>1, <1>4, <3>1, GoesLoose
  <2> QED BY <2>2, <2>3
<1>5. CASE Stops
  BY <1>1, <1>5, StopsLoose
<1>6. CASE UNCHANGED motion
  <2>1. loose' = loose
    BY <1>1, <1>6 DEF Spell, motion
  <2> QED BY <1>1, <1>6, <2>1, StillLoose DEF Heard
<1> QED BY <1>3, <1>4, <1>5, <1>6

LEMMA PeopleLoose ==
  ASSUME TypeOK, SwitchInv, LooseInv,
         \/ \E t \in Controller : Ends(t) \/ Starts(t) \/ Hand(t)
         \/ PadStales \/ PadGoes \/ PadBack
  PROVE  LooseInv'
<1> USE DEF links, hands, loop, wheels
<1>1. ASSUME NEW t \in Controller, Ends(t) PROVE LooseInv'
  <2>1. /\ UNCHANGED <<hand, pad, stale>> /\ Spell
        /\ Stops \/ UNCHANGED motion
    BY <1>1 DEF Ends
  <2>2. CASE Stops
    BY <2>1, <2>2, StopsLoose
  <2>3. CASE UNCHANGED motion
    <3>1. loose' = loose
      BY <2>1, <2>3 DEF Spell, motion
    <3>2. ASSUME NEW u \in Controller, Heard(u)' PROVE Heard(u)
      BY <1>1, <3>2 DEF Ends, Heard, TypeOK
    <3> QED BY <2>1, <2>3, <3>1, <3>2, StillLoose
  <2> QED BY <2>1, <2>2, <2>3
<1>2. ASSUME NEW t \in Controller, Starts(t) PROVE LooseInv'
  <2>1. UNCHANGED <<motion, loose, hand, pad>>
    BY <1>2 DEF Starts
  <2>2. ASSUME NEW u \in Controller, Heard(u)' PROVE Heard(u)
    <3>1. net[u] => alive[u]
      BY DEF SwitchInv
    <3> QED BY <1>2, <2>2, <3>1 DEF Starts, Heard
  <2> QED BY <2>1, <2>2, StillLoose
<1>3. ASSUME NEW t \in Controller, Hand(t) PROVE LooseInv'
  <2>1. UNCHANGED <<motion, pad>> /\ loose' = 0
    BY <1>3 DEF Hand
  <2>2. pad' = "gone" => ~hand'["pad"]
    <3>1. pad = "gone" => t # "pad"
      BY <1>3 DEF Hand
    <3>2. pad = "gone" => hand'["pad"] = hand["pad"]
      BY <1>3, <3>1, ControllerType DEF Hand, TypeOK
    <3> QED BY <2>1, <3>2 DEF LooseInv
  <2> QED BY <2>1, <2>2, AnewLoose
<1>4. CASE PadStales
  BY <1>4, StillLoose DEF PadStales, Heard
<1>5. CASE PadGoes \/ PadBack
  <2>1. UNCHANGED <<motion, loose, alive, net, seen>>
    BY <1>5 DEF PadGoes, PadBack
  <2>2. ~hand'["pad"] /\ (hand'["main"] <=> hand["main"])
    BY <1>5, ControllerType DEF PadGoes, PadBack, TypeOK
  <2>3. ASSUME NEW u \in Controller, Heard(u)' PROVE Heard(u)
    BY <2>1, <2>2, <2>3 DEF Heard, Controller
  <2>4. driver # "none" => driver \in Controller
    BY DEF TypeOK
  <2> QED BY <2>1, <2>2, <2>3, <2>4 DEF LooseInv, motion
<1> QED BY <1>1, <1>2, <1>3, <1>4, <1>5

LEMMA TickLoose ==
  ASSUME TypeOK, SwitchInv, LooseInv, Tick
  PROVE  LooseInv'
<1> DEFINE a == Upto(age, Watchdog + 1)
<1>1. UNCHANGED <<alive, net, told, kept, hand, pad, stale, seen>>
  BY DEF Tick, links, hands, switch
<1>2. /\ Rolls(a) /\ age' = (IF armed' THEN a ELSE 0)
      /\ loose' = IF driver' = "none" THEN 0
                  ELSE IF net[driver] /\ Drives(driver) THEN 0 ELSE Upto(loose, MaxLoose)
  BY DEF Tick
<1>3. CASE driver' = "none"
  BY <1>1, <1>2, <1>3 DEF LooseInv
<1>4. CASE driver' # "none"
  <2>1. driver' = driver /\ armed' = armed /\ ~WatchdogFires(a)
    BY <1>2, <1>4 DEF Rolls
  <2>2. driver \in Controller /\ armed /\ loose <= age /\ age <= Watchdog
    BY <1>4, <2>1 DEF LooseInv, TypeOK
  <2>3. a = age + 1 /\ a <= Watchdog
    <3>1. Watchdog + 1 \in Nat /\ age \in 0 .. Watchdog + 1 /\ age < Watchdog + 1
      BY <2>2, TeleopConstants DEF TypeOK
    <3>2. a = age + 1
      BY <3>1, UptoType
    <3>3. ~(a > Watchdog)
      BY <2>1, <2>2 DEF WatchdogFires
    <3> QED BY <3>1, <3>2, <3>3, TeleopConstants
  <2>4. age' = a
    BY <1>2, <2>1, <2>2
  <2>5. loose \in Nat /\ age \in Nat /\ (loose' = 0 \/ loose' = loose + 1)
    <3>1. MaxLoose \in Nat /\ loose \in 0 .. MaxLoose /\ loose < MaxLoose /\ age \in Nat
      BY <2>2, TeleopConstants DEF TypeOK, MaxLoose
    <3>2. Upto(loose, MaxLoose) = loose + 1
      BY <3>1, UptoType
    <3> QED BY <1>2, <3>1, <3>2
  <2>6. loose' <= age' /\ age' <= Watchdog
    BY <2>2, <2>3, <2>4, <2>5
  <2>7. loose' > 0 => ~Heard(driver)'
    <3> SUFFICES ASSUME loose' > 0, Heard(driver)' PROVE FALSE
      OBVIOUS
    <3>1. ~(net[driver] /\ Drives(driver))
      BY <1>2, <1>4
    <3>2. Heard(driver)
      BY <1>1, <2>1 DEF Heard
    <3>3. told[driver] = <<>> /\ kept # Its(driver)
      BY <3>1, <3>2 DEF Heard, Drives
    <3> QED BY <2>2, <3>2, <3>3 DEF SwitchInv, Latest, Heard
  <2> QED BY <1>1, <1>4, <2>1, <2>2, <2>6, <2>7 DEF LooseInv
<1> QED BY <1>3, <1>4

LEMMA NextLoose == TypeOK /\ SwitchInv /\ LooseInv /\ [Next]_vars => LooseInv'
<1> SUFFICES ASSUME TypeOK, SwitchInv, LooseInv, [Next]_vars PROVE LooseInv'
  OBVIOUS
<1>1. CASE UNCHANGED vars
  BY <1>1, StillLoose DEF vars, links, hands, loop, wheels, Heard
<1>2. CASE Strays
  BY <1>2 DEF Strays, links, hands, loop, LooseInv
<1>3. CASE Toggle \/ ConConnects \/ ConOpens \/ ConBreaks \/ ConEnds \/ ConStarts \/ Will
  BY <1>3, SwitchLoose
<1>4. ASSUME NEW t \in Controller, Told(t) \/ NetBreaks(t) \/ NetUp(t) \/ NewClient(t)
      PROVE  LooseInv'
  BY <1>4, LinkLoose
<1>5. ASSUME NEW t \in Controller, Pass(t) PROVE LooseInv'
  BY <1>5, PassLoose
<1>6. ASSUME NEW t \in Controller, Ends(t) \/ Starts(t) \/ Hand(t) PROVE LooseInv'
  BY <1>6, PeopleLoose
<1>7. CASE PadStales \/ PadGoes \/ PadBack
  BY <1>7, PeopleLoose
<1>8. CASE Tick
  BY <1>8, TickLoose
<1> QED BY <1>1, <1>2, <1>3, <1>4, <1>5, <1>6, <1>7, <1>8 DEF Next

\* A robot that is driven by one who has let go, who cannot be heard or whom the
\* switch does not choose is stopped within the time of the watchdog, however
\* many things fail.
THEOREM HandsOffAlwaysStops == Spec => []HandsOffStops
<1>1. Init => SwitchInv
  BY InitSwitch
<1>2. Init => LooseInv
  BY DEF Init, LooseInv
<1>3. TypeOK /\ SwitchInv /\ [Next]_vars => SwitchInv'
  BY NextSwitch
<1>4. TypeOK /\ SwitchInv /\ LooseInv /\ [Next]_vars => LooseInv'
  BY NextLoose
<1>5. TypeOK /\ LooseInv => HandsOffStops
  <2> SUFFICES ASSUME TypeOK, LooseInv PROVE loose <= Watchdog
    BY DEF HandsOffStops
  <2>1. CASE driver = "none"
    BY <2>1, TeleopConstants DEF LooseInv
  <2>2. CASE driver # "none"
    BY <2>2, TeleopConstants DEF LooseInv, TypeOK, MaxLoose
  <2> QED BY <2>1, <2>2
<1> QED BY <1>1, <1>2, <1>3, <1>4, <1>5, TeleopTypeCorrect, PTL DEF Spec
===============================================================================
