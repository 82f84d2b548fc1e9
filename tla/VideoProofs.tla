------------------------------- MODULE VideoProofs -------------------------------
(***************************************************************************)
(* What is proved of Video, for any number of clients and descriptors and  *)
(* every length of a group of pictures.                                    *)
(***************************************************************************)
EXTENDS Video, SequenceTheorems, TLAPS

LEMMA VideoConstants ==
  /\ ReopenAfter \in Nat /\ Gop \in Nat /\ Nap \in Nat /\ MaxClients \in Nat /\ FdLimit \in Nat
  /\ ReopenAfter > 0 /\ Gop > 0 /\ Nap > 0 /\ MaxClients > 0 /\ FdLimit > 1
  BY VideoAssumption

-----------------------------------------------------------------------------
(***************************************************************************)
(* Sequences                                                               *)
(***************************************************************************)
LEMMA Removed ==
  ASSUME NEW S, NEW s \in Seq(S), NEW i \in 1 .. Len(s)
  PROVE  /\ RemoveAt(s, i) \in Seq(S) /\ Len(RemoveAt(s, i)) = Len(s) - 1
         /\ \A j \in 1 .. Len(s) - 1 : RemoveAt(s, i)[j] = IF j < i THEN s[j] ELSE s[j + 1]
<1>1. Len(s) \in Nat
  OBVIOUS
<1>2. SubSeq(s, 1, i - 1) \in Seq(S) /\ Len(SubSeq(s, 1, i - 1)) = i - 1
  BY <1>1
<1>3. SubSeq(s, i + 1, Len(s)) \in Seq(S) /\ Len(SubSeq(s, i + 1, Len(s))) = Len(s) - i
  BY <1>1
<1>4. PICK a \in Seq(S) : a = SubSeq(s, 1, i - 1)
  BY <1>2
<1>5. PICK b \in Seq(S) : b = SubSeq(s, i + 1, Len(s))
  BY <1>3
<1>6. Len(a) = i - 1 /\ Len(b) = Len(s) - i
  BY <1>2, <1>3, <1>4, <1>5
<1>7. \A j \in 1 .. i - 1 : a[j] = s[j]
  BY <1>1, <1>4, SubSeqProperties
<1>8. \A j \in 1 .. Len(s) - i : b[j] = s[i + j]
  BY <1>1, <1>5, SubSeqProperties
<1>9. /\ a \o b \in Seq(S) /\ Len(a \o b) = (i - 1) + (Len(s) - i)
      /\ \A j \in 1 .. (i - 1) + (Len(s) - i) : (a \o b)[j] = IF j <= i - 1 THEN a[j] ELSE b[j - (i - 1)]
  <2>1. /\ a \o b \in Seq(S) /\ Len(a \o b) = Len(a) + Len(b)
        /\ \A j \in 1 .. Len(a) + Len(b) : (a \o b)[j] = IF j <= Len(a) THEN a[j] ELSE b[j - Len(a)]
    BY ConcatProperties
  <2> QED BY <1>6, <2>1
<1>10. (i - 1) + (Len(s) - i) = Len(s) - 1
  BY <1>1
<1>11. ASSUME NEW j \in 1 .. Len(s) - 1 PROVE (a \o b)[j] = IF j < i THEN s[j] ELSE s[j + 1]
  <2>1. CASE j < i
    <3>1. j <= i - 1 /\ j \in 1 .. i - 1
      BY <1>1, <2>1
    <3> QED BY <1>7, <1>9, <1>10, <2>1, <3>1
  <2>2. CASE ~(j < i)
    <3>1. j - (i - 1) \in 1 .. Len(s) - i /\ i + (j - (i - 1)) = j + 1 /\ ~(j <= i - 1)
      BY <1>1, <2>2
    <3>2. b[j - (i - 1)] = s[j + 1]
      BY <1>8, <3>1
    <3> QED BY <1>9, <1>10, <2>2, <3>1, <3>2
  <2> QED BY <2>1, <2>2
<1>12. RemoveAt(s, i) = a \o b
  BY <1>4, <1>5 DEF RemoveAt
<1> QED BY <1>9, <1>10, <1>11, <1>12

LEMMA Appended ==
  ASSUME NEW S, NEW s \in Seq(S), NEW e \in S
  PROVE  /\ Append(s, e) \in Seq(S) /\ Len(Append(s, e)) = Len(s) + 1
         /\ \A j \in 1 .. Len(s) : Append(s, e)[j] = s[j]
         /\ Append(s, e)[Len(s) + 1] = e
  OBVIOUS

\* A change of one element
LEMMA Changed ==
  ASSUME NEW S, NEW s \in Seq(S), NEW i \in 1 .. Len(s), NEW e \in S, NEW t, t = [s EXCEPT ![i] = e]
  PROVE  /\ t \in Seq(S) /\ Len(t) = Len(s) /\ t[i] = e
         /\ \A j \in 1 .. Len(s) : j # i => t[j] = s[j]
  BY ExceptSeq

-----------------------------------------------------------------------------
(***************************************************************************)
(* What a step does to the clients and their flags                         *)
(***************************************************************************)
Good(c, p) == c.view # "garbage" /\ (c.view \in {"empty", "cut"} => p)
Pairs == \A i \in 1 .. Len(clients) : Good(clients[i], pending[i])
Lists(cs, ps) ==
  /\ cs \in Seq(Client) /\ Len(cs) <= MaxClients
  /\ ps \in Seq(BOOLEAN) /\ Len(ps) = Len(cs)

Same == UNCHANGED <<clients, pending>>
Cleared == clients' = <<>> /\ pending' = <<>>
Put(i, c, p) ==
  /\ i \in 1 .. Len(clients) /\ c \in Client /\ p \in BOOLEAN
  /\ clients' = [clients EXCEPT ![i] = c] /\ pending' = [pending EXCEPT ![i] = p]
  /\ Good(clients[i], pending[i]) => Good(c, p)

LEMMA DomainClients == ASSUME TypeOK PROVE DOMAIN clients = 1 .. Len(clients) /\ Len(clients) \in Nat
  BY DEF TypeOK

LEMMA PutSafe ==
  ASSUME Lists(clients, pending), NEW i, NEW c, NEW p, Put(i, c, p)
  PROVE  Lists(clients', pending') /\ Len(clients') = Len(clients) /\ (Pairs => Pairs')
<1>1. /\ clients' \in Seq(Client) /\ Len(clients') = Len(clients) /\ clients'[i] = c
      /\ \A j \in 1 .. Len(clients) : j # i => clients'[j] = clients[j]
  BY Changed DEF Lists, Put
<1>2. /\ pending' \in Seq(BOOLEAN) /\ Len(pending') = Len(pending) /\ pending'[i] = p
      /\ \A j \in 1 .. Len(pending) : j # i => pending'[j] = pending[j]
  BY Changed DEF Lists, Put
<1>3. ASSUME Pairs, NEW j \in 1 .. Len(clients) PROVE Good(clients'[j], pending'[j])
  <2>1. CASE j = i
    BY <1>1, <1>2, <1>3, <2>1 DEF Pairs, Put
  <2>2. CASE j # i
    BY <1>1, <1>2, <1>3, <2>2 DEF Pairs, Lists
  <2> QED BY <2>1, <2>2
<1> QED BY <1>1, <1>2, <1>3 DEF Lists, Pairs

LEMMA RemoveSafe ==
  ASSUME Lists(clients, pending), NEW i \in 1 .. Len(clients),
         clients' = RemoveAt(clients, i), pending' = RemoveAt(pending, i)
  PROVE  Lists(clients', pending') /\ Len(clients') = Len(clients) - 1 /\ (Pairs => Pairs')
<1>0. Len(clients) \in Nat /\ Len(pending) = Len(clients) /\ Len(clients) <= MaxClients
  BY DEF Lists
<1>1. /\ clients' \in Seq(Client) /\ Len(clients') = Len(clients) - 1
      /\ \A j \in 1 .. Len(clients) - 1 : clients'[j] = IF j < i THEN clients[j] ELSE clients[j + 1]
  BY Removed DEF Lists
<1>2. /\ pending' \in Seq(BOOLEAN) /\ Len(pending') = Len(clients) - 1
      /\ \A j \in 1 .. Len(clients) - 1 : pending'[j] = IF j < i THEN pending[j] ELSE pending[j + 1]
  BY <1>0, Removed DEF Lists
<1>3. ASSUME Pairs, NEW j \in 1 .. Len(clients) - 1 PROVE Good(clients'[j], pending'[j])
  <2>1. j \in 1 .. Len(clients) /\ j + 1 \in 1 .. Len(clients)
    BY <1>0
  <2>2. Good(clients[j], pending[j]) /\ Good(clients[j + 1], pending[j + 1])
    BY <1>3, <2>1 DEF Pairs
  <2> QED BY <1>1, <1>2, <2>2
<1> QED BY <1>0, <1>1, <1>2, <1>3, VideoConstants DEF Lists, Pairs

LEMMA AppendSafe ==
  ASSUME Lists(clients, pending), Len(clients) < MaxClients,
         clients' = Append(clients, NewClient), pending' = Append(pending, TRUE)
  PROVE  Lists(clients', pending') /\ Len(clients') = Len(clients) + 1 /\ (Pairs => Pairs')
<1>0. Len(clients) \in Nat /\ Len(pending) = Len(clients) /\ NewClient \in Client /\ TRUE \in BOOLEAN
  BY DEF Lists, NewClient, Client, View
<1>1. /\ clients' \in Seq(Client) /\ Len(clients') = Len(clients) + 1
      /\ \A j \in 1 .. Len(clients) : clients'[j] = clients[j]
      /\ clients'[Len(clients) + 1] = NewClient
  BY <1>0, Appended DEF Lists
<1>2. /\ pending' \in Seq(BOOLEAN) /\ Len(pending') = Len(clients) + 1
      /\ \A j \in 1 .. Len(clients) : pending'[j] = pending[j]
      /\ pending'[Len(clients) + 1] = TRUE
  <2> PICK e \in BOOLEAN : e = TRUE
    OBVIOUS
  <2>1. pending \in Seq(BOOLEAN) /\ pending' = Append(pending, e)
    BY DEF Lists
  <2>2. /\ Append(pending, e) \in Seq(BOOLEAN) /\ Len(Append(pending, e)) = Len(pending) + 1
        /\ \A j \in 1 .. Len(pending) : Append(pending, e)[j] = pending[j]
        /\ Append(pending, e)[Len(pending) + 1] = e
    BY <2>1, Appended, Zenon
  <2> QED BY <1>0, <2>1, <2>2
<1>3. Good(NewClient, TRUE)
  BY DEF Good, NewClient
<1>4. ASSUME Pairs, NEW j \in 1 .. Len(clients) + 1 PROVE Good(clients'[j], pending'[j])
  <2>1. CASE j = Len(clients) + 1
    BY <1>1, <1>2, <1>3, <2>1
  <2>2. CASE j # Len(clients) + 1
    <3>1. j \in 1 .. Len(clients)
      BY <1>0, <2>2
    <3> QED BY <1>1, <1>2, <1>4, <3>1 DEF Pairs
  <2> QED BY <2>1, <2>2
<1>5. Len(clients') <= MaxClients
  BY <1>0, <1>1, VideoConstants
<1>6. Pairs => Pairs'
  BY <1>1, <1>4 DEF Pairs
<1> QED BY <1>1, <1>2, <1>5, <1>6 DEF Lists

LEMMA ClearSafe ==
  ASSUME Cleared
  PROVE  Lists(clients', pending') /\ Len(clients') = 0 /\ Pairs'
<1>1. <<>> \in Seq(Client) /\ <<>> \in Seq(BOOLEAN) /\ Len(<<>>) = 0
  OBVIOUS
<1> QED BY <1>1, VideoConstants DEF Cleared, Lists, Pairs

Accepted == Len(clients) < MaxClients /\ clients' = Append(clients, NewClient) /\ pending' = Append(pending, TRUE)
Dropped == at \in 1 .. Len(clients) /\ clients' = RemoveAt(clients, at) /\ pending' = RemoveAt(pending, at)
Turned == \E i, c, p : Put(i, c, p)

LEMMA ElementType ==
  ASSUME TypeOK, NEW i \in 1 .. Len(clients)
  PROVE  /\ clients[i] \in Client /\ pending[i] \in BOOLEAN
         /\ pending = [pending EXCEPT ![i] = pending[i]]
<1>1. clients[i] \in Client
  BY DEF TypeOK
<1>2. i \in 1 .. Len(pending) /\ pending \in [1 .. Len(pending) -> BOOLEAN]
  BY DEF TypeOK
<1> QED BY <1>1, <1>2

\* A peer that stalls, drains or vanishes
LEMMA PeerCase ==
  ASSUME TypeOK, NEW i \in DOMAIN clients, Stall(i) \/ Drain(i) \/ Vanish(i)
  PROVE  Turned
<1>1. i \in 1 .. Len(clients)
  BY DomainClients
<1>2. PICK c : /\ c \in Client /\ c.view = clients[i].view
               /\ clients' = [clients EXCEPT ![i] = c] /\ pending' = pending
  <2>1. CASE Stall(i)
    <3>1. [clients[i] EXCEPT !.slow = ~@] \in Client
      BY <1>1, ElementType DEF Client
    <3>2. [clients[i] EXCEPT !.slow = ~@].view = clients[i].view
      BY <1>1, ElementType DEF Client
    <3> QED BY <2>1, <3>1, <3>2 DEF Stall
  <2>2. CASE Drain(i)
    <3>1. [clients[i] EXCEPT !.slow = FALSE] \in Client
      BY <1>1, ElementType DEF Client
    <3>2. [clients[i] EXCEPT !.slow = FALSE].view = clients[i].view
      BY <1>1, ElementType DEF Client
    <3> QED BY <2>2, <3>1, <3>2 DEF Drain
  <2>3. CASE Vanish(i)
    <3>1. [clients[i] EXCEPT !.alive = FALSE] \in Client
      BY <1>1, ElementType DEF Client
    <3>2. [clients[i] EXCEPT !.alive = FALSE].view = clients[i].view
      BY <1>1, ElementType DEF Client
    <3> QED BY <2>3, <3>1, <3>2 DEF Vanish
  <2> QED BY <2>1, <2>2, <2>3
<1>3. Put(i, c, pending[i])
  BY <1>1, <1>2, ElementType DEF Put, Good
<1> QED BY <1>3 DEF Turned

\* What broadcast() does to the client it has come to
LEMMA SendCase ==
  ASSUME TypeOK, SkipSlow \/ SendOk \/ SendBacklog
  PROVE  Turned
<1>1. at \in 1 .. Len(clients) /\ clients[at] \in Client /\ pending[at] \in BOOLEAN
  <2>1. at \in 1 .. Len(clients)
    BY DomainClients DEF SkipSlow, SendOk, SendBacklog, Deliverable, Sending, TypeOK
  <2> QED BY <2>1, ElementType
<1>2. PICK v \in View, p \in BOOLEAN :
        /\ clients' = [clients EXCEPT ![at] = [clients[at] EXCEPT !.view = v]]
        /\ pending' = [pending EXCEPT ![at] = p]
        /\ \/ v # "garbage" /\ (v \in {"empty", "cut"} => p)
           \/ (v = clients[at].view \/ (clients[at].view = "whole" /\ v = "gap")) /\ p = pending[at]
           \/ v = "garbage" /\ clients[at].view \notin {"whole", "gap"} /\ ~pending[at]
  <2>1. CASE SkipSlow
    <3>1. PICK v \in View : v = IF clients[at].view = "whole" THEN "gap" ELSE clients[at].view
      BY <1>1 DEF Client, View
    <3>2. /\ clients' = [clients EXCEPT ![at] = [clients[at] EXCEPT !.view = v]]
          /\ pending' = pending
      BY <2>1, <3>1 DEF SkipSlow
    <3>3. pending' = [pending EXCEPT ![at] = pending[at]]
      BY <1>1, <3>2, ElementType
    <3> QED BY <1>1, <3>1, <3>2, <3>3
  <2>2. CASE SendBacklog
    BY <2>2 DEF SendBacklog, View
  <2>3. CASE SendOk
    <3>1. PICK v \in View : v = Seen(clients[at].view)
      BY <1>1 DEF Seen, View, Client
    <3>2. clients' = [clients EXCEPT ![at] = [clients[at] EXCEPT !.view = v]] /\ pending' = [pending EXCEPT ![at] = FALSE]
      BY <2>3, <3>1 DEF SendOk
    <3>3. pending[at] => key
      BY <2>3 DEF SendOk, Deliverable
    <3>4. \/ v \in {"whole", "gap"}
          \/ v = "garbage" /\ clients[at].view \notin {"whole", "gap"} /\ ~pending[at]
      BY <3>1, <3>3 DEF Seen
    <3> QED BY <3>2, <3>4
  <2> QED BY <2>1, <2>2, <2>3
<1> DEFINE c == [clients[at] EXCEPT !.view = v]
<1>3. c \in Client /\ c.view = v
  BY <1>1, <1>2 DEF Client
<1>4. Good(clients[at], pending[at]) => Good(c, p)
  BY <1>1, <1>2, <1>3 DEF Good, Client, View
<1>5. Put(at, c, p)
  BY <1>1, <1>2, <1>3, <1>4 DEF Put
<1> QED BY <1>5 DEF Turned

LEMMA ListCases ==
  ASSUME TypeOK, [Next]_vars
  PROVE  Same \/ Cleared \/ Accepted \/ Dropped \/ Turned
<1>1. CASE UNCHANGED vars
  BY <1>1 DEF vars, server, Same
<1>2. CASE \E i \in DOMAIN clients : Stall(i) \/ Drain(i) \/ Vanish(i)
  BY <1>2, PeerCase
<1>3. CASE SkipSlow \/ SendOk \/ SendBacklog
  BY <1>3, SendCase
<1>4. CASE SendDead
  <2>1. at \in 1 .. Len(clients)
    BY <1>4, DomainClients DEF SendDead, Deliverable, Sending, TypeOK
  <2> QED BY <1>4, <2>1 DEF SendDead, Dropped
<1>5. CASE AcceptNew
  BY <1>5 DEF AcceptNew, Accepted
<1>6. CASE StartThrows
  BY <1>6 DEF StartThrows, Cleared
<1>7. CASE \/ Plug \/ CalmDown \/ StartStream \/ Restart \/ GrabFrame \/ GrabTimeout \/ Reopen
           \/ TakeFrame \/ CreateEncoder \/ EncoderFails \/ WakeUp \/ Encode \/ AwaitKey \/ EndFrame \/ Tick
  BY <1>7 DEF Same, Plug, CalmDown, StartStream, Restart, GrabFrame, GrabTimeout, Reopen, TakeFrame,
     CreateEncoder, EncoderFails, WakeUp, Encode, AwaitKey, EndFrame, Tick, server
<1> QED BY <1>1, <1>2, <1>3, <1>4, <1>5, <1>6, <1>7 DEF Next

LEMMA ListStep ==
  ASSUME TypeOK, [Next]_vars
  PROVE  Lists(clients', pending') /\ (Pairs => Pairs')
<1>1. Lists(clients, pending)
  BY DEF TypeOK, Lists
<1>2. CASE Same
  BY <1>1, <1>2 DEF Same, Pairs
<1> QED BY <1>1, <1>2, ListCases, PutSafe, RemoveSafe, AppendSafe, ClearSafe DEF Accepted, Dropped, Turned

-----------------------------------------------------------------------------
(***************************************************************************)
(* Descriptors.  The process never holds fewer than its camera, its        *)
(* listening socket and its clients, and no more unless a camera was       *)
(* opened and rejected; while it is down it holds none.                    *)
(***************************************************************************)
Cam == IF handle = "none" THEN 0 ELSE 1
Lst == IF listening THEN 1 ELSE 0

HoldInv ==
  /\ handle # "none" => fails < ReopenAfter
  /\ ~up => ~listening /\ clients = <<>> /\ handle = "none" /\ fails = 0
  /\ fds >= Cam + Lst + Len(clients)
  /\ OpenOutcomes = {"opened"} => fds = Cam + Lst + Len(clients)

Numbers == fds' \in 0 .. FdLimit /\ fails' \in 0 .. ReopenAfter

\* A step that neither opens nor closes anything
LEMMA HoldKept ==
  ASSUME TypeOK, HoldInv, UNCHANGED <<up, fds, handle, listening, fails>>, Len(clients') = Len(clients), up
  PROVE  HoldInv' /\ Numbers
  BY DEF TypeOK, HoldInv, Numbers, Cam, Lst

LEMMA HoldSame ==
  ASSUME TypeOK, HoldInv, UNCHANGED <<up, fds, handle, listening, fails, clients>>
  PROVE  HoldInv' /\ Numbers
  BY DEF TypeOK, HoldInv, Numbers, Cam, Lst

LEMMA HoldCamera ==
  ASSUME TypeOK, HoldInv, StartStream \/ StartThrows \/ Restart \/ GrabFrame \/ GrabTimeout \/ Reopen
  PROVE  HoldInv' /\ Numbers
<1>0. /\ fds \in Nat /\ fds <= FdLimit /\ Len(clients) \in Nat /\ fails \in Nat
      /\ Cam \in {0, 1} /\ Lst \in {0, 1}
  BY VideoConstants, DomainClients DEF TypeOK, Cam, Lst
<1>1. CASE StartStream
  BY <1>0, <1>1 DEF StartStream, HoldInv, Numbers, Cam, Lst, TypeOK, process, server
<1>2. CASE StartThrows
  <2>1. Len(<<>>) = 0
    OBVIOUS
  <2> QED BY <1>2, <2>1, VideoConstants DEF StartThrows, HoldInv, Numbers, Cam, Lst
<1>3. CASE Restart
  <2>1. clients = <<>> /\ fails = 0 /\ Len(clients) = 0 /\ clients' = clients /\ fails' = fails /\ up'
    BY <1>3 DEF Restart, HoldInv
  <2>2. PICK outcome \in OpenOutcomes, bound \in BOOLEAN :
          /\ listening' = bound
          /\ handle' = IF plugged /\ outcome = "opened" THEN "open" ELSE "none"
          /\ fds' = (IF plugged THEN 1 ELSE 0) + IF bound THEN 1 ELSE 0
    BY <1>3 DEF Restart
  <2>3. Numbers
    BY <2>1, <2>2, VideoConstants DEF Numbers
  <2>4. fds' >= Cam' + Lst' /\ (outcome = "opened" => fds' = Cam' + Lst')
    <3>1. Lst' = IF bound THEN 1 ELSE 0
      BY <2>2 DEF Lst
    <3>2. Cam' = IF plugged /\ outcome = "opened" THEN 1 ELSE 0
      BY <2>2 DEF Cam
    <3> QED BY <2>2, <3>1, <3>2
  <2>5. Cam' \in Nat /\ Lst' \in Nat
    BY DEF Cam, Lst
  <2>6. Len(clients') = 0 /\ Cam' + Lst' + 0 = Cam' + Lst'
    BY <2>1, <2>5
  <2>7. fds' >= Cam' + Lst' + Len(clients')
    BY <2>4, <2>6
  <2>8. OpenOutcomes = {"opened"} => fds' = Cam' + Lst' + Len(clients')
    BY <2>2, <2>4, <2>6
  <2>9. fails' < ReopenAfter
    BY <2>1, VideoConstants
  <2> QED BY <2>1, <2>3, <2>7, <2>8, <2>9 DEF HoldInv
<1>4. CASE GrabFrame
  BY <1>0, <1>4, VideoConstants DEF GrabFrame, HoldInv, Numbers, Cam, Lst, TypeOK, process, server
<1>5. CASE GrabTimeout
  <2>1. Cam = 1 /\ up /\ fails < ReopenAfter
    BY <1>5 DEF GrabTimeout, Silent, Cam, HoldInv, TypeOK
  <2>2. UNCHANGED <<up, listening, clients>> /\ fails' = fails + 1 /\ up'
    BY <1>5, <2>1 DEF GrabTimeout, server
  <2>3. CASE fails + 1 < ReopenAfter
    <3>1. UNCHANGED <<handle, fds>>
      BY <1>5, <2>3 DEF GrabTimeout
    <3> QED BY <1>0, <2>2, <2>3, <3>1, VideoConstants DEF HoldInv, Numbers, Cam, Lst
  <2>4. CASE ~(fails + 1 < ReopenAfter)
    <3>1. handle' = "none" /\ fds' = fds - 1
      BY <1>5, <2>4 DEF GrabTimeout
    <3>2. Cam' = 0 /\ Lst' = Lst /\ Len(clients') = Len(clients)
      BY <2>2, <3>1 DEF Cam, Lst
    <3>3. fds' >= Cam' + Lst' + Len(clients')
      BY <1>0, <2>1, <3>1, <3>2 DEF HoldInv
    <3>4. OpenOutcomes = {"opened"} => fds' = Cam' + Lst' + Len(clients')
      BY <1>0, <2>1, <3>1, <3>2 DEF HoldInv
    <3>5. Numbers
      BY <1>0, <2>1, <2>2, <3>1, VideoConstants DEF HoldInv, Numbers
    <3> QED BY <2>2, <3>1, <3>3, <3>4, <3>5 DEF HoldInv
  <2> QED BY <2>3, <2>4
<1>6. CASE Reopen
  <2>1. up /\ up' /\ Cam = 0 /\ fds < FdLimit /\ fds' = fds + 1 /\ UNCHANGED <<listening, clients>>
    BY <1>6 DEF Reopen, Cam, server
  <2>2. Lst' = Lst /\ Len(clients') = Len(clients)
    BY <2>1 DEF Lst
  <2>3. Cam' \in {0, 1} /\ (handle' # "none" => fails' = 0) /\ fails' \in {fails, 0}
    BY <1>6 DEF Reopen, Cam
  <2>4. OpenOutcomes = {"opened"} => Cam' = 1
    BY <1>6 DEF Reopen, Cam
  <2>5. fds' >= Cam' + Lst' + Len(clients')
    BY <1>0, <2>1, <2>2, <2>3 DEF HoldInv
  <2>6. OpenOutcomes = {"opened"} => fds' = Cam' + Lst' + Len(clients')
    BY <1>0, <2>1, <2>2, <2>4 DEF HoldInv
  <2>7. Numbers
    BY <1>0, <2>1, <2>3, VideoConstants DEF Numbers, TypeOK
  <2> QED BY <2>1, <2>3, <2>5, <2>6, <2>7, VideoConstants DEF HoldInv
<1> QED BY <1>1, <1>2, <1>3, <1>4, <1>5, <1>6

LEMMA HoldClients ==
  ASSUME TypeOK, HoldInv, AcceptNew \/ SendDead
  PROVE  HoldInv' /\ Numbers
<1>0. /\ fds \in Nat /\ fds <= FdLimit /\ Len(clients) \in Nat
      /\ Cam \in {0, 1} /\ Lst \in {0, 1} /\ Lists(clients, pending)
  BY VideoConstants, DomainClients DEF TypeOK, Cam, Lst, Lists
<1>1. UNCHANGED <<up, handle, listening, fails>> /\ Cam' = Cam /\ Lst' = Lst
  <2>1. CASE AcceptNew
    BY <2>1 DEF AcceptNew, camera, Cam, Lst
  <2>2. CASE SendDead
    BY <2>2 DEF SendDead, camera, Cam, Lst
  <2> QED BY <2>1, <2>2
<1>2. CASE AcceptNew
  <2>1. fds' = fds + 1 /\ fds < FdLimit /\ Len(clients') = Len(clients) + 1 /\ up
    BY <1>0, <1>2, AppendSafe DEF AcceptNew, HoldInv, TypeOK
  <2>2. Numbers
    BY <1>0, <1>1, <2>1, VideoConstants DEF Numbers, TypeOK
  <2>3. /\ fds' >= Cam' + Lst' + Len(clients')
        /\ OpenOutcomes = {"opened"} => fds' = Cam' + Lst' + Len(clients')
    BY <1>0, <1>1, <2>1 DEF HoldInv
  <2> QED BY <1>1, <2>1, <2>2, <2>3 DEF HoldInv
<1>3. CASE SendDead
  <2>1. at \in 1 .. Len(clients)
    BY <1>3, DomainClients DEF SendDead, Deliverable, Sending, TypeOK
  <2>2. fds' = fds - 1 /\ Len(clients') = Len(clients) - 1 /\ up
    BY <1>0, <1>3, <2>1, RemoveSafe DEF SendDead, HoldInv, TypeOK
  <2>3. /\ fds' >= Cam' + Lst' + Len(clients')
        /\ OpenOutcomes = {"opened"} => fds' = Cam' + Lst' + Len(clients')
    BY <1>0, <1>1, <2>2 DEF HoldInv
  <2>4. fds' \in 0 .. FdLimit
    BY <1>0, <2>1, <2>2, VideoConstants DEF HoldInv
  <2>5. Numbers
    BY <1>1, <2>4 DEF Numbers, TypeOK
  <2> QED BY <1>1, <2>2, <2>3, <2>5 DEF HoldInv
<1> QED BY <1>2, <1>3

LEMMA HoldTurned ==
  ASSUME TypeOK, HoldInv, Turned, UNCHANGED <<up, fds, handle, listening, fails>>
  PROVE  HoldInv' /\ Numbers
<1>1. PICK i, c, p : Put(i, c, p)
  BY DEF Turned
<1>2. Len(clients') = Len(clients)
  BY <1>1, PutSafe DEF TypeOK, Lists
<1>3. clients # <<>>
  BY <1>1 DEF Put, TypeOK
<1> QED BY <1>2, <1>3, HoldKept DEF HoldInv, TypeOK

LEMMA HoldStep ==
  ASSUME TypeOK, HoldInv, [Next]_vars
  PROVE  HoldInv' /\ Numbers
<1>1. CASE UNCHANGED vars
  BY <1>1, HoldSame DEF vars, process, camera, server
<1>2. CASE \E i \in DOMAIN clients : Stall(i) \/ Drain(i) \/ Vanish(i)
  <2>1. UNCHANGED <<up, fds, handle, listening, fails>>
    BY <1>2 DEF Stall, Drain, Vanish, process, camera
  <2> QED BY <1>2, <2>1, PeerCase, HoldTurned
<1>3. CASE SkipSlow \/ SendOk \/ SendBacklog
  <2>1. UNCHANGED <<up, fds, handle, listening, fails>>
    BY <1>3 DEF SkipSlow, SendOk, SendBacklog, process, camera
  <2> QED BY <1>3, <2>1, SendCase, HoldTurned
<1>4. CASE AcceptNew \/ SendDead
  BY <1>4, HoldClients
<1>5. CASE StartStream \/ StartThrows \/ Restart \/ GrabFrame \/ GrabTimeout \/ Reopen
  BY <1>5, HoldCamera
<1>6. CASE \/ Plug \/ CalmDown \/ TakeFrame \/ CreateEncoder \/ EncoderFails \/ WakeUp \/ Encode
           \/ AwaitKey \/ EndFrame \/ Tick
  BY <1>6, HoldSame DEF Plug, CalmDown, TakeFrame, CreateEncoder, EncoderFails, WakeUp, Encode, AwaitKey,
     EndFrame, Tick, process, camera, server
<1> QED BY <1>1, <1>2, <1>3, <1>4, <1>5, <1>6 DEF Next

-----------------------------------------------------------------------------
(***************************************************************************)
(* Types                                                                   *)
(***************************************************************************)
\* The variables that are neither lists nor counted in HoldInv
Flags ==
  /\ plugged \in BOOLEAN /\ calm \in BOOLEAN /\ gone \in BOOLEAN /\ open \in BOOLEAN
  /\ fresh \in BOOLEAN /\ up \in BOOLEAN /\ listening \in BOOLEAN
  /\ enc \in BOOLEAN /\ due \in BOOLEAN /\ key \in BOOLEAN
  /\ handle \in {"none", "open", "streams"}
  /\ gop \in 0 .. Gop - 1 /\ at \in 1 .. MaxClients + 1
  /\ vpc \in {"loop", "encode", "send", "nap"} /\ nap \in 0 .. Nap

LEMMA FlagsStep ==
  ASSUME TypeOK, [Next]_vars
  PROVE  Flags'
<1> USE DEF Flags, camera, server, process
<1>0. Flags /\ VideoAssumption
  BY VideoAssumption DEF TypeOK
<1>1. CASE UNCHANGED vars
  BY <1>0, <1>1 DEF vars
<1>2. CASE \E i \in DOMAIN clients : Stall(i) \/ Drain(i) \/ Vanish(i)
  BY <1>0, <1>2 DEF Stall, Drain, Vanish
<1>3. CASE Plug \/ CalmDown
  <2>1. calm' \in BOOLEAN /\ plugged' \in BOOLEAN /\ gone' \in BOOLEAN
    BY <1>0, <1>3 DEF Plug, CalmDown
  <2> QED BY <1>0, <1>3, <2>1 DEF Plug, CalmDown
<1>4. CASE StartThrows
  <2>1. /\ up' \in BOOLEAN /\ gone' \in BOOLEAN /\ open' \in BOOLEAN /\ fresh' \in BOOLEAN
        /\ listening' \in BOOLEAN /\ enc' \in BOOLEAN /\ due' \in BOOLEAN /\ key' \in BOOLEAN
    BY <1>4 DEF StartThrows
  <2>2. gop' \in 0 .. Gop - 1 /\ at' \in 1 .. MaxClients + 1 /\ nap' \in 0 .. Nap
    BY <1>4, VideoConstants DEF StartThrows
  <2> QED BY <1>0, <1>4, <2>1, <2>2 DEF StartThrows
<1>5. CASE Restart
  <2>1. listening' \in BOOLEAN /\ open' \in BOOLEAN /\ up' \in BOOLEAN
    BY <1>0, <1>5 DEF Restart
  <2> QED BY <1>0, <1>5, <2>1 DEF Restart
<1>6. CASE StartStream \/ GrabFrame
  <2>1. fresh' \in BOOLEAN
    BY <1>0, <1>6 DEF StartStream, GrabFrame
  <2> QED BY <1>0, <1>6, <2>1 DEF StartStream, GrabFrame
<1>7. CASE GrabTimeout
  <2>1. gone' \in BOOLEAN /\ open' \in BOOLEAN /\ handle' \in {"none", "open", "streams"}
    BY <1>0, <1>7 DEF GrabTimeout
  <2> QED BY <1>0, <1>7, <2>1 DEF GrabTimeout
<1>8. CASE Reopen
  BY <1>0, <1>8 DEF Reopen
<1>9. CASE AcceptNew \/ SendDead
  <2>1. CASE AcceptNew
    BY <1>0, <2>1 DEF AcceptNew
  <2>2. CASE SendDead
    BY <1>0, <2>2 DEF SendDead
  <2> QED BY <1>9, <2>1, <2>2
<1>10. CASE TakeFrame \/ CreateEncoder \/ WakeUp
  <2>1. fresh' \in BOOLEAN /\ due' \in BOOLEAN /\ enc' \in BOOLEAN
    BY <1>0, <1>10 DEF TakeFrame, CreateEncoder, WakeUp
  <2>2. vpc' \in {"loop", "encode", "send", "nap"}
    BY <1>0, <1>10 DEF TakeFrame, CreateEncoder, WakeUp
  <2> QED BY <1>0, <1>10, <2>1, <2>2 DEF TakeFrame, CreateEncoder, WakeUp
<1>11. CASE EncoderFails
  BY <1>0, <1>11, VideoConstants DEF EncoderFails
<1>12. CASE Encode
  <2>1. key' \in BOOLEAN /\ vpc' \in {"send", "loop"}
    BY <1>0, <1>12 DEF Encode
  <2>2. gop' \in 0 .. Gop - 1
    BY <1>0, <1>12, VideoConstants DEF Encode
  <2>3. at' \in 1 .. MaxClients + 1
    BY <1>0, <1>12, VideoConstants DEF Encode
  <2> QED BY <1>0, <1>12, <2>1, <2>2, <2>3 DEF Encode
<1>13. CASE SkipSlow \/ AwaitKey \/ SendOk \/ SendBacklog
  <2>1. at' = at + 1 /\ at <= Len(clients)
    BY <1>13 DEF SkipSlow, AwaitKey, SendOk, SendBacklog, Deliverable, Sending
  <2>2. at' \in 1 .. MaxClients + 1
    BY <1>0, <2>1, DomainClients, VideoConstants DEF TypeOK
  <2> QED BY <1>0, <1>13, <2>2 DEF SkipSlow, AwaitKey, SendOk, SendBacklog
<1>14. CASE EndFrame
  <2>1. key' \in BOOLEAN
    BY <1>14 DEF EndFrame
  <2>2. at' \in 1 .. MaxClients + 1
    BY <1>14, VideoConstants DEF EndFrame
  <2> QED BY <1>0, <1>14, <2>1, <2>2 DEF EndFrame
<1>15. CASE Tick
  <2>1. nap' \in 0 .. Nap
    BY <1>0, <1>15, VideoConstants DEF Tick
  <2> QED BY <1>0, <1>15, <2>1 DEF Tick
<1> QED BY <1>1, <1>2, <1>3, <1>4, <1>5, <1>6, <1>7, <1>8, <1>9, <1>10, <1>11, <1>12, <1>13, <1>14, <1>15 DEF Next

LEMMA VideoInvariant == Spec => [](TypeOK /\ HoldInv)
<1>1. Init => TypeOK /\ HoldInv
  <2> SUFFICES ASSUME Init PROVE TypeOK /\ HoldInv
    OBVIOUS
  <2>1. clients \in Seq(Client) /\ pending \in Seq(BOOLEAN) /\ Len(clients) = 0 /\ Len(pending) = 0
    BY DEF Init
  <2>2. HoldInv
    BY <2>1, VideoConstants DEF Init, HoldInv, Cam, Lst
  <2>3. fds \in 0 .. FdLimit /\ fails \in 0 .. ReopenAfter
    BY VideoConstants DEF Init
  <2>4. Flags
    <3>1. /\ plugged \in BOOLEAN /\ calm \in BOOLEAN /\ gone \in BOOLEAN /\ open \in BOOLEAN
          /\ fresh \in BOOLEAN /\ up \in BOOLEAN /\ listening \in BOOLEAN
          /\ enc \in BOOLEAN /\ due \in BOOLEAN /\ key \in BOOLEAN
      BY DEF Init
    <3>2. gop \in 0 .. Gop - 1 /\ at \in 1 .. MaxClients + 1 /\ nap \in 0 .. Nap
      BY VideoConstants DEF Init
    <3> QED BY <3>1, <3>2 DEF Init, Flags
  <2> QED BY <2>1, <2>2, <2>3, <2>4, VideoConstants DEF TypeOK, Flags
<1>2. TypeOK /\ HoldInv /\ [Next]_vars => TypeOK' /\ HoldInv'
  <2> SUFFICES ASSUME TypeOK, HoldInv, [Next]_vars PROVE TypeOK' /\ HoldInv'
    OBVIOUS
  <2>1. Flags' /\ Lists(clients', pending') /\ HoldInv' /\ Numbers
    BY FlagsStep, ListStep, HoldStep
  <2> QED BY <2>1 DEF TypeOK, Flags, Lists, Numbers
<1> QED BY <1>1, <1>2, PTL DEF Spec

\* Every variable keeps to its range, and no client is without its flag.
THEOREM VideoTypeCorrect == Spec => []TypeOK
  BY VideoInvariant, PTL

\* If no camera is opened and then rejected, every descriptor the process has in
\* use belongs to its camera, its listening socket or a client.
THEOREM NoDescriptorIsLost == OpenOutcomes = {"opened"} => (Spec => []NoDescriptorLeak)
<1> SUFFICES ASSUME OpenOutcomes = {"opened"} PROVE Spec => []NoDescriptorLeak
  OBVIOUS
<1>1. HoldInv => NoDescriptorLeak
  BY DEF HoldInv, NoDescriptorLeak, Cam, Lst
<1> QED BY <1>1, VideoInvariant, PTL

-----------------------------------------------------------------------------
(***************************************************************************)
(* What the decoders get: a client that has nothing, or the end of half a  *)
(* frame, waits for its header.                                            *)
(***************************************************************************)
\* No client is given a frame its decoder cannot use, however the clients stall,
\* vanish and are cut off.
THEOREM DecodersNeverGetGarbage == Spec => []NoGarbage
<1>1. Init => Pairs
  BY DEF Init, Pairs
<1>2. TypeOK /\ Pairs /\ [Next]_vars => Pairs'
  BY ListStep
<1>3. TypeOK /\ Pairs => NoGarbage
  BY DomainClients DEF Pairs, Good, NoGarbage
<1> QED BY <1>1, <1>2, <1>3, VideoTypeCorrect, PTL DEF Spec
=================================================================================
