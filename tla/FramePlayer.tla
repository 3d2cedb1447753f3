----------------------------- MODULE FramePlayer -----------------------------
(***************************************************************************)
(* What the media pipeline of the sink promises, without its ring buffers, *)
(* flags, drivers or events: a player that is closed, ready or running and *)
(* a queue of SBC frames, given by the offsets at which they end.  A       *)
(* running player consumes the queue from the front, and frames are only   *)
(* ever lost by a pause, a close or a full queue.  A2dpSink implements     *)
(* this specification.                                                     *)
(***************************************************************************)
EXTENDS Naturals

CONSTANTS StartFrames,   \* frames that must be queued before playback starts
          QueueBytes,    \* bytes the queue holds
          Packets        \* media packets: [num_frames, bytes, ends]

VARIABLES player, queue
vars == <<player, queue>>

TypeOK == player \in {"closed", "ready", "running"} /\ queue \subseteq Nat \ {0}

Init == player = "closed" /\ queue = {}

\* The length of a packet's frames, one with another.
FrameSize(p) == p.bytes \div p.num_frames

\* The bytes in a queue: its last frame is whole.
Bytes(q) == CHOOSE b \in q \cup {0} : \A e \in q : e <= b

\* The queue with a packet behind it, and without its first s bytes.
Append(q, p) == q \cup {Bytes(q) + e : e \in p.ends}
Drop(q, s)   == {e - s : e \in {f \in q : f > s}}

\* Opening (or opening anew, for another codec configuration) starts empty,
\* and never interrupts a player that is running.
Open ==
  /\ player # "running"
  /\ player' = "ready"
  /\ queue' = {}

\* A packet is queued whole, or dropped whole when the queue is full; a queue
\* that is filled, by this packet's measure, may start the player.
Accept(p) ==
  /\ player # "closed"
  /\ \/ queue' = Append(queue, p)
     \/ Bytes(queue) + p.bytes > QueueBytes /\ queue' = queue
  /\ \/ player' = player
     \/ Bytes(queue') >= StartFrames * FrameSize(p) /\ player' = "running"

\* The player takes as much as a packet's frames are long, if there is as much.
Take(p) ==
  /\ player = "running"
  /\ Bytes(queue) >= FrameSize(p)
  /\ queue' = Drop(queue, FrameSize(p))
  /\ UNCHANGED player

Pause ==
  /\ player # "closed"
  /\ player' = "ready"
  /\ queue' = {}

Close == player' = "closed" /\ queue' = {}

Next ==
  \/ Open
  \/ \E p \in Packets : Accept(p) \/ Take(p)
  \/ Pause
  \/ Close

Spec == Init /\ [][Next]_vars

-----------------------------------------------------------------------------
\* Sound starts on a queue that is filled, never before.
StartsFilled ==
  [][player # "running" /\ player' = "running" =>
       \E p \in Packets : Bytes(queue') >= StartFrames * FrameSize(p)]_vars

\* As long as it plays, nothing but playing takes anything from the queue, and
\* that from the front, as much as a frame is long: a packet that does not fit
\* costs none of the frames that wait.
PlaysFromFront ==
  [][player = "running" /\ player' = "running" =>
       \/ queue \subseteq queue'
       \/ \E p \in Packets : queue' = Drop(queue, FrameSize(p))]_vars

=============================================================================
