----------------------------- MODULE FrameFifo -----------------------------
(***************************************************************************)
(* What the continuous capture path promises, without slots, registers or  *)
(* interrupts: within a session, frames 0, 1, 2, ... are written, become   *)
(* visible to the reader in order and possibly several at once, and are    *)
(* read one at a time in that order; a frame that is being read occupies a *)
(* place, so the writer never overwrites it; a session may be given up at  *)
(* any time between two reads.  A session may also break, when the device  *)
(* does what the promise excludes: nothing is promised of it any more, and *)
(* the next session is whole again.                                        *)
(***************************************************************************)
EXTENDS Naturals

CONSTANT Capacity  \* a positive number of places

VARIABLES
  written,  \* frames written in this session
  visible,  \* frames the reader knows to be complete
  taken,    \* frames the reader has taken
  reading,  \* {f} while the reader copies frame f, else {}
  broken    \* the session is broken

vars == <<written, visible, taken, reading, broken>>

Empty == written = 0 /\ visible = 0 /\ taken = 0 /\ reading = {}

Init == Empty /\ broken = FALSE

Write ==
  /\ ~broken
  /\ IF reading = {} THEN written < taken + Capacity
                     ELSE written + 1 < taken + Capacity
  /\ written' = written + 1
  /\ UNCHANGED <<visible, taken, reading, broken>>

Publish ==
  /\ ~broken
  /\ visible < visible' /\ visible' \in 0 .. written
  /\ UNCHANGED <<written, taken, reading, broken>>

Take ==
  /\ ~broken /\ reading = {} /\ taken < visible
  /\ reading' = {taken}
  /\ taken' = taken + 1
  /\ UNCHANGED <<written, visible, broken>>

Release ==
  /\ reading # {}
  /\ reading' = {}
  /\ UNCHANGED <<written, visible, taken, broken>>

Break ==
  /\ ~broken
  /\ Empty' /\ broken' = TRUE

Restart ==
  /\ reading = {}
  /\ Empty' /\ broken' = FALSE

Next == Write \/ Publish \/ Take \/ Release \/ Break \/ Restart

Spec == Init /\ [][Next]_vars
=============================================================================
