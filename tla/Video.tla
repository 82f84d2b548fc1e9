--------------------------------- MODULE Video ---------------------------------
(***************************************************************************)
(* The video path of the daemon: the capture thread of CamStream over a    *)
(* v4l2 camera (camstream.hpp, uvccam.hpp) and the thread of VideoServer   *)
(* that encodes the newest frame and sends it to every client              *)
(* (vidserver.hpp, h264enc.hpp).                                           *)
(*                                                                         *)
(* A frame is only known by whether it is a key frame; a client by what    *)
(* its decoder can make of the bytes it got.                               *)
(***************************************************************************)
EXTENDS Integers, Sequences, SequencesExt

CONSTANTS
  ReopenAfter,  \* kReopenAfter of CamStream
  Gop,          \* frames from one key frame to the next
  Nap,          \* ticks of the pause after the encoder could not be created
  MaxClients,   \* bound of the instance: clients at a time
  FdLimit,      \* file descriptors the process may hold
  OpenOutcomes  \* how opening a camera that is there may end

ASSUME VideoAssumption ==
  /\ {ReopenAfter, Gop, Nap, MaxClients} \subseteq Nat \ {0} /\ FdLimit \in Nat \ {0, 1}
  /\ OpenOutcomes \subseteq {"opened", "rejected"}

VARIABLES
  plugged,   \* the camera is on the bus
  calm,      \* the camera stays, peers read what they are sent, encoding works
  handle,    \* cam_: no camera, an open one, or one that streams
  gone,      \* the device cam_ was opened on has left the bus
  fails,     \* fails of the capture loop
  open,      \* CamStream's st_.open
  fresh,     \* fresh_: a frame nobody has taken yet
  up,        \* the process runs
  fds,       \* descriptors in use
  listening, \* listen_fd_ >= 0
  clients,   \* clients_, each with its peer and what its decoder has
  pending,   \* pending_hdr_
  enc,       \* enc_ exists
  gop,       \* frames until the next key frame
  due,       \* next_enc_ has passed
  vpc,       \* where the server's loop is; it holds mu_ in "nap"
  at,        \* the client broadcast() has come to
  key,       \* the packet is a key frame
  nap        \* ticks left of the pause

camera == <<plugged, handle, gone, fails, open, fresh>>
server == <<listening, clients, pending, enc, gop, due, vpc, at, key, nap>>
process == <<up, fds>>
vars == <<calm, process, camera, server>>

\* The decoder has nothing, all frames since a key frame, all but some that
\* were left out, a frame that ends in the middle, or a frame it cannot use.
View == {"empty", "whole", "gap", "cut", "garbage"}
Client == [alive : BOOLEAN, slow : BOOLEAN, view : View]

\* Every variable keeps to its range, and no client is without its flag.
TypeOK ==
  /\ plugged \in BOOLEAN /\ calm \in BOOLEAN /\ gone \in BOOLEAN /\ open \in BOOLEAN
  /\ fresh \in BOOLEAN /\ up \in BOOLEAN /\ listening \in BOOLEAN
  /\ enc \in BOOLEAN /\ due \in BOOLEAN /\ key \in BOOLEAN
  /\ handle \in {"none", "open", "streams"} /\ fails \in 0 .. ReopenAfter
  /\ fds \in 0 .. FdLimit
  /\ clients \in Seq(Client) /\ Len(clients) <= MaxClients
  /\ pending \in Seq(BOOLEAN) /\ Len(pending) = Len(clients)
  /\ gop \in 0 .. Gop - 1 /\ at \in 1 .. MaxClients + 1
  /\ vpc \in {"loop", "encode", "send", "nap"} /\ nap \in 0 .. Nap

Init ==
  /\ plugged \in BOOLEAN /\ calm = FALSE /\ up = TRUE
  /\ handle = (IF plugged THEN "open" ELSE "none") /\ gone = FALSE
  /\ open = plugged /\ fails = 0 /\ fresh = FALSE
  /\ listening \in BOOLEAN
  /\ fds = (IF plugged THEN 1 ELSE 0) + IF listening THEN 1 ELSE 0
  /\ clients = <<>> /\ pending = <<>>
  /\ enc = FALSE /\ gop = 0 /\ due = TRUE
  /\ vpc = "loop" /\ at = 1 /\ key = FALSE /\ nap = 0

-----------------------------------------------------------------------------
(***************************************************************************)
(* The world: the camera comes and goes, peers stall and vanish, until the *)
(* disturbances are over.                                                  *)
(***************************************************************************)
Plug ==
  /\ ~calm /\ plugged' = ~plugged
  /\ gone' = (handle # "none")
  /\ UNCHANGED <<calm, process, handle, fails, open, fresh, server>>

Stall(i) ==
  /\ ~calm /\ clients' = [clients EXCEPT ![i].slow = ~@]
  /\ UNCHANGED <<calm, process, camera, listening, pending, enc, gop, due, vpc, at, key, nap>>

Drain(i) ==
  /\ calm /\ clients[i].slow /\ clients' = [clients EXCEPT ![i].slow = FALSE]
  /\ UNCHANGED <<calm, process, camera, listening, pending, enc, gop, due, vpc, at, key, nap>>

Vanish(i) ==
  /\ ~calm /\ clients' = [clients EXCEPT ![i].alive = FALSE]
  /\ UNCHANGED <<calm, process, camera, listening, pending, enc, gop, due, vpc, at, key, nap>>

CalmDown ==
  /\ plugged /\ calm' = TRUE
  /\ UNCHANGED <<process, camera, server>>

-----------------------------------------------------------------------------
(***************************************************************************)
(* The capture thread                                                      *)
(***************************************************************************)
\* The first grab() starts the stream.
StartStream ==
  /\ handle = "open" /\ ~gone /\ handle' = "streams"
  /\ UNCHANGED <<calm, process, plugged, gone, fails, open, fresh, server>>

\* start() throws when the stream cannot be started, and nothing in loop()
\* catches it: the process ends in the capture thread.
StartThrows ==
  /\ handle = "open" /\ (gone \/ ~calm)
  /\ up' = FALSE /\ fds' = 0
  /\ handle' = "none" /\ gone' = FALSE /\ open' = FALSE /\ fails' = 0 /\ fresh' = FALSE
  /\ listening' = FALSE /\ clients' = <<>> /\ pending' = <<>>
  /\ enc' = FALSE /\ gop' = 0 /\ due' = TRUE
  /\ vpc' = "loop" /\ at' = 1 /\ key' = FALSE /\ nap' = 0
  /\ UNCHANGED <<calm, plugged>>

\* systemd starts the daemon again.
Restart ==
  /\ ~up /\ up' = TRUE
  /\ \E outcome \in OpenOutcomes, bound \in BOOLEAN :
       /\ listening' = bound
       /\ open' = (plugged /\ outcome = "opened")
       /\ handle' = IF open' THEN "open" ELSE "none"
       /\ fds' = (IF plugged THEN 1 ELSE 0) + IF bound THEN 1 ELSE 0
  /\ UNCHANGED <<calm, plugged, gone, fails, fresh,
                 clients, pending, enc, gop, due, vpc, at, key, nap>>

GrabFrame ==
  /\ handle = "streams" /\ ~gone
  /\ fails' = 0 /\ fresh' = TRUE
  /\ UNCHANGED <<calm, process, plugged, handle, gone, open, server>>

Silent == handle = "streams" /\ (gone \/ ~calm)

\* Mutant: a timeout starts the count of timeouts over.
GrabTimeoutForgets ==
  /\ Silent /\ fails' = 1
  /\ UNCHANGED <<calm, process, plugged, handle, gone, open, fresh, server>>

\* Mutant: the count is compared before it is increased.
GrabTimeoutLate ==
  /\ Silent
  /\ IF fails < ReopenAfter
     THEN fails' = fails + 1 /\ UNCHANGED <<handle, gone, open, fds>>
     ELSE fails' = fails + 1 /\ handle' = "none" /\ gone' = FALSE /\ open' = FALSE /\ fds' = fds - 1
  /\ UNCHANGED <<calm, up, plugged, fresh, server>>

\* grab() timed out; after ReopenAfter in a row the camera is closed.
GrabTimeout ==
  /\ Silent
  /\ fails' = fails + 1
  /\ IF fails + 1 < ReopenAfter
     THEN UNCHANGED <<handle, gone, open, fds>>
     ELSE handle' = "none" /\ gone' = FALSE /\ open' = FALSE /\ fds' = fds - 1
  /\ UNCHANGED <<calm, up, plugged, fresh, server>>

\* openCamera(), once a second.  A constructor that throws after open() leaves
\* the descriptor behind: no destructor runs.
Reopen ==
  /\ up /\ handle = "none" /\ plugged /\ fds < FdLimit
  /\ \E outcome \in OpenOutcomes :
       /\ fds' = fds + 1
       /\ IF outcome = "opened"
          THEN handle' = "open" /\ open' = TRUE /\ fails' = 0
          ELSE open' = FALSE /\ UNCHANGED <<handle, fails>>
  /\ UNCHANGED <<calm, up, plugged, gone, fresh, server>>

-----------------------------------------------------------------------------
(***************************************************************************)
(* The server's loop                                                       *)
(***************************************************************************)
NewClient == [alive |-> TRUE, slow |-> FALSE, view |-> "empty"]

\* acceptNew(), at the top of the loop
AcceptNew ==
  /\ vpc = "loop" /\ listening /\ Len(clients) < MaxClients /\ fds < FdLimit
  /\ clients' = Append(clients, NewClient) /\ pending' = Append(pending, TRUE)
  /\ fds' = fds + 1
  /\ UNCHANGED <<calm, up, camera, listening, enc, gop, due, vpc, at, key, nap>>

\* latest() takes the newest frame; one that comes before its time is dropped.
TakeFrame ==
  /\ vpc = "loop" /\ clients # <<>> /\ fresh
  /\ fresh' = FALSE
  /\ due' = FALSE /\ vpc' = IF due THEN "encode" ELSE vpc
  /\ UNCHANGED <<calm, process, plugged, handle, gone, fails, open,
                 listening, clients, pending, enc, gop, at, key, nap>>

CreateEncoder ==
  /\ vpc = "encode" /\ ~enc /\ enc' = TRUE
  /\ UNCHANGED <<calm, process, camera, listening, clients, pending, gop, due, vpc, at, key, nap>>

\* The pause for the next attempt is spent inside the scope of the lock.
EncoderFails ==
  /\ vpc = "encode" /\ ~enc /\ ~calm
  /\ vpc' = "nap" /\ nap' = Nap
  /\ UNCHANGED <<calm, process, camera, listening, clients, pending, enc, gop, due, at, key>>

WakeUp ==
  /\ vpc = "nap" /\ nap = 0 /\ vpc' = "loop"
  /\ UNCHANGED <<calm, process, camera, listening, clients, pending, enc, gop, due, at, key, nap>>

\* Mutant: only the first frame is a key frame.
EncodeOneKey ==
  /\ vpc = "encode" /\ enc
  /\ \/ vpc' = "send" /\ at' = 1 /\ key' = (gop = 0) /\ gop' = 1
     \/ ~calm /\ vpc' = "loop" /\ UNCHANGED <<at, key, gop>>
  /\ UNCHANGED <<calm, process, camera, listening, clients, pending, enc, due, nap>>

\* encode() gives a packet, or now and then none
Encode ==
  /\ vpc = "encode" /\ enc
  /\ \/ vpc' = "send" /\ at' = 1 /\ key' = (gop = 0) /\ gop' = (gop + 1) % Gop
     \/ ~calm /\ vpc' = "loop" /\ UNCHANGED <<at, key, gop>>
  /\ UNCHANGED <<calm, process, camera, listening, clients, pending, enc, due, nap>>

Sending == vpc = "send" /\ at <= Len(clients)

\* A decoder can do without some frames, but not with half of one.
Seen(view) ==
  IF key THEN "whole" ELSE IF view \in {"whole", "gap"} THEN view ELSE "garbage"

\* broadcast(): more than kMaxOutQ bytes are on their way, the frame is left out.
SkipSlow ==
  /\ Sending /\ clients[at].slow
  /\ clients' = [clients EXCEPT ![at].view = IF @ = "whole" THEN "gap" ELSE @]
  /\ at' = at + 1
  /\ UNCHANGED <<calm, process, camera, listening, pending, enc, gop, due, vpc, key, nap>>

\* A client that waits for its header gets nothing before the next key frame.
AwaitKey ==
  /\ Sending /\ ~clients[at].slow /\ pending[at] /\ ~key
  /\ at' = at + 1
  /\ UNCHANGED <<calm, process, camera, listening, clients, pending, enc, gop, due, vpc, key, nap>>

Deliverable == Sending /\ ~clients[at].slow /\ (pending[at] => key)

SendOk ==
  /\ Deliverable /\ clients[at].alive
  /\ clients' = [clients EXCEPT ![at].view = Seen(@)]
  /\ pending' = [pending EXCEPT ![at] = FALSE]
  /\ at' = at + 1
  /\ UNCHANGED <<calm, process, camera, listening, enc, gop, due, vpc, key, nap>>

\* Mutant: the client goes on with the next frame after half a frame.
SendBacklogGoesOn ==
  /\ Deliverable /\ ~calm
  /\ clients' = [clients EXCEPT ![at].view = "cut"]
  /\ pending' = [pending EXCEPT ![at] = FALSE]
  /\ at' = at + 1
  /\ UNCHANGED <<calm, process, camera, listening, enc, gop, due, vpc, key, nap>>

\* sendAll() gives up in the middle: the client starts over with a header.
SendBacklog ==
  /\ Deliverable /\ ~calm
  /\ clients' = [clients EXCEPT ![at].view = "cut"]
  /\ pending' = [pending EXCEPT ![at] = TRUE]
  /\ at' = at + 1
  /\ UNCHANGED <<calm, process, camera, listening, enc, gop, due, vpc, key, nap>>

\* Mutant: the socket of a client that is gone stays open.
SendDeadLeaks ==
  /\ Deliverable /\ ~clients[at].alive
  /\ clients' = RemoveAt(clients, at) /\ pending' = RemoveAt(pending, at)
  /\ UNCHANGED <<calm, process, camera, listening, enc, gop, due, vpc, at, key, nap>>

SendDead ==
  /\ Deliverable /\ ~clients[at].alive
  /\ clients' = RemoveAt(clients, at) /\ pending' = RemoveAt(pending, at)
  /\ fds' = fds - 1
  /\ UNCHANGED <<calm, up, camera, listening, enc, gop, due, vpc, at, key, nap>>

EndFrame ==
  /\ vpc = "send" /\ at > Len(clients)
  /\ vpc' = "loop" /\ at' = 1 /\ key' = FALSE
  /\ UNCHANGED <<calm, process, camera, listening, clients, pending, enc, gop, due, nap>>

-----------------------------------------------------------------------------
\* Time: the next frame is due, the pause goes on.
Tick ==
  /\ vpc = "nap" => nap > 0
  /\ due' = TRUE /\ nap' = IF nap > 0 THEN nap - 1 ELSE 0
  /\ UNCHANGED <<calm, process, camera, listening, clients, pending, enc, gop, vpc, at, key>>

Next ==
  \/ Plug \/ CalmDown
  \/ \E i \in DOMAIN clients : Stall(i) \/ Drain(i) \/ Vanish(i)
  \/ StartStream \/ StartThrows \/ Restart \/ GrabFrame \/ GrabTimeout \/ Reopen
  \/ AcceptNew \/ TakeFrame \/ CreateEncoder \/ EncoderFails \/ WakeUp \/ Encode
  \/ SkipSlow \/ AwaitKey \/ SendOk \/ SendBacklog \/ SendDead \/ EndFrame
  \/ Tick

\* The three threads run, time passes, and a peer that reads empties its queue.
\* Nothing says that systemd starts the daemon again: it gives up after 5 times.
Fairness ==
  /\ WF_vars(StartStream) /\ WF_vars(gone /\ StartThrows)
  /\ WF_vars(GrabFrame) /\ WF_vars(gone /\ GrabTimeout) /\ WF_vars(Reopen)
  /\ WF_vars(TakeFrame) /\ WF_vars(CreateEncoder) /\ WF_vars(WakeUp)
  /\ WF_vars(Encode) /\ WF_vars(SkipSlow) /\ WF_vars(AwaitKey)
  /\ WF_vars(SendOk) /\ WF_vars(SendDead) /\ WF_vars(EndFrame)
  /\ WF_vars(Tick)
  /\ \A i \in 1 .. MaxClients : WF_vars(i \in DOMAIN clients /\ Drain(i))

Spec == Init /\ [][Next]_vars /\ Fairness

-----------------------------------------------------------------------------
(***************************************************************************)
(* Properties                                                              *)
(***************************************************************************)
\* No decoder is ever given a frame that depends on one it was not given in
\* full or on a header it does not have: after a frame cut short the next thing
\* it gets is the header and a key frame, also when other clients come and go.
NoGarbage == \A i \in DOMAIN clients : clients[i].view # "garbage"

\* The process holds one descriptor for the camera, the listening socket and
\* each client, through reconnections of all of them, as long as no camera is
\* opened and then rejected.
NoDescriptorLeak ==
  fds = (IF handle = "none" THEN 0 ELSE 1) + (IF listening THEN 1 ELSE 0) + Len(clients)

\* When the disturbances are over, every client comes to see the whole picture,
\* without connecting again: the camera is opened again, the encoder is created,
\* cut streams are resumed and gaps end with the next key frame.
PictureComesBack == calm ~> \A i \in DOMAIN clients : clients[i].view = "whole"

\* A camera that stays away is reported as closed for good.
LossIsSeen == <>[]~plugged => <>[]~open

\* A camera costs the robot its picture, never its control loop: main.cpp:502 and
\* robot.hpp:11 have every exception stop the motors, and a process that ends in
\* the capture thread stops nothing.
CamerasNeverEndTheDaemon == up
=============================================================================
