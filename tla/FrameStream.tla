---------------------------- MODULE FrameStream ----------------------------
(***************************************************************************)
(* What the paced capture path promises to the user of the V4L2 node,      *)
(* without slots, registers, interrupts or threads: buffers are taken in   *)
(* the order in which they were queued; a buffer is filled only with a     *)
(* frame nobody was given before; no frame arrives over one that waits to  *)
(* be given; a stream that goes wrong gives back the buffer it holds and   *)
(* fills no other; and when the stream has been stopped, every buffer is   *)
(* the user's again.                                                       *)
(***************************************************************************)
EXTENDS Sequences

CONSTANTS Buffers, NoBuffer

VARIABLES
  state,     \* "off", "running" or "over": the stream fills no more buffers
  fresh,     \* a frame is in memory that no buffer was filled with
  queue,     \* buffers queued, oldest first
  taken,     \* the buffer to be filled, or NoBuffer
  returned,  \* buffers returned and not yet fetched by the user
  error      \* the user was told that the stream failed

vars == <<state, fresh, queue, taken, returned, error>>

Init ==
  /\ state = "off" /\ fresh = FALSE
  /\ queue = <<>> /\ taken = NoBuffer /\ returned = {} /\ error = FALSE

(* The user queues a buffer that is nowhere else.                           *)
Queue(b) ==
  /\ b # taken /\ b \notin returned /\ \A i \in DOMAIN queue : queue[i] # b
  /\ ~error
  /\ queue' = Append(queue, b)
  /\ UNCHANGED <<state, fresh, taken, returned, error>>

Fetch(b) ==
  /\ b \in returned /\ ~error
  /\ returned' = returned \ {b}
  /\ UNCHANGED <<state, fresh, queue, taken, error>>

Start ==
  /\ state = "off" /\ queue # <<>> /\ taken = NoBuffer
  /\ state' = "running" /\ fresh' = FALSE
  /\ UNCHANGED <<queue, taken, returned, error>>

Take ==
  /\ state = "running" /\ taken = NoBuffer /\ queue # <<>>
  /\ taken' = Head(queue) /\ queue' = Tail(queue)
  /\ UNCHANGED <<state, fresh, returned, error>>

(* A frame arrives, never over one that waits to be given.                  *)
Frame ==
  /\ state # "off" /\ ~fresh
  /\ fresh' = TRUE
  /\ UNCHANGED <<state, queue, taken, returned, error>>

(* The only way in which a running stream returns a buffer.                 *)
Deliver ==
  /\ state = "running" /\ taken # NoBuffer /\ fresh
  /\ fresh' = FALSE
  /\ returned' = returned \cup {taken} /\ taken' = NoBuffer
  /\ UNCHANGED <<state, queue, error>>

(* A frame that came from an input that was lost is never given.            *)
Forget ==
  /\ fresh' = FALSE
  /\ UNCHANGED <<state, queue, taken, returned, error>>

GiveUp ==
  /\ state = "running" /\ taken # NoBuffer
  /\ state' = "over"
  /\ returned' = returned \cup {taken} /\ taken' = NoBuffer
  /\ error' \/ UNCHANGED error
  /\ ~fresh' \/ UNCHANGED fresh
  /\ UNCHANGED queue

End ==
  /\ state = "running" /\ taken = NoBuffer
  /\ state' = "over"
  /\ UNCHANGED <<fresh, queue, taken, returned, error>>

Stop ==
  /\ state = "over" /\ taken = NoBuffer
  /\ state' = "off"
  /\ queue' = <<>> /\ returned' = {} /\ error' = FALSE
  /\ UNCHANGED <<fresh, taken>>

Next ==
  \/ \E b \in Buffers : Queue(b) \/ Fetch(b)
  \/ Start \/ Take \/ Frame \/ Deliver \/ Forget \/ GiveUp \/ End \/ Stop

Spec == Init /\ [][Next]_vars
=============================================================================
