---------------------------- MODULE DmaRingInv ----------------------------
(***************************************************************************)
(* The inductive invariant behind the safety properties of DmaRing, for an *)
(* FPGA that may repeat an interrupt or complete a slot at any moment.     *)
(* What it says of the slots holds until the session loses count (slip);   *)
(* what it says of the control structure holds always.                     *)
(*                                                                         *)
(* Seen from ring_consume, the ring is a line of N slots.  The first       *)
(* Acked == acked - taken of them are signalled to the worker, those up to *)
(* Filled == produced - taken hold frames the handler has yet to mark, and *)
(* whatever is queued lies behind them.                                    *)
(***************************************************************************)
EXTENDS DmaRing, Integers

Running == ringActive /\ ringStarted

Filled == produced - taken
Acked  == acked - taken

(* The slot k places after ring_consume is s, the line being a circle.      *)
At(s, k) == IF k = N THEN s = consume ELSE Dist(consume, s) = k

ControlInv ==
  /\ lock <=> wpc = "refill"
  /\ wpc = "lost" => ~ringActive
  /\ wpc = "off" => ~Running /\ (ringActive => stopping)
  /\ wpc \in {"transfer", "start"} => ringActive
  /\ wpc = "start" => ~ringStarted
  /\ wpc \in {"wait", "copy", "refill"} => Running

IdleInv ==
  ~ringActive => /\ masked /\ ipc = "idle" /\ queued = {}
                 /\ produced = 0 /\ acked = 0 /\ taken = 0 /\ InStep

FreshInv ==
  (ringActive /\ ~ringStarted) =>
     /\ ipc = "idle" /\ (irq => masked) /\ queued = {} /\ pending = {}
     /\ produced = 0 /\ acked = 0 /\ taken = 0 /\ InStep
     /\ (~stopping \/ wpc = "off") => completed = {}

CountInv  == taken <= acked /\ acked <= produced /\ produced <= taken + N
NextInv   == At(next, Acked)
StatusInv == At(FromStatus(status), Filled) /\ (produced > 0 => status > 0)
QueuedInv == \A s \in queued : Filled <= Dist(consume, s)
PendingInv ==
  \A s \in Slots :
    s \in pending <=> \/ s \in queued
                      \/ Acked <= Dist(consume, s) /\ Dist(consume, s) < Filled
                      \/ wpc = "refill" /\ s = bank
CompletedInv ==
  ~stopping => \A s \in Slots : s \in completed <=> Dist(consume, s) < Acked
MemInv ==
  \A s \in Slots : Dist(consume, s) < Filled => mem[s] = taken + Dist(consume, s)
CopyInv ==
  wpc \in {"copy", "refill"} =>
     /\ Following(bank) = consume /\ bank \notin queued
     /\ Filled < N /\ taken > 0 /\ mem[bank] = taken - 1
     /\ wpc = "refill" => control = queued
ReportInv ==
  ipc # "idle" => /\ acked <= iproduced /\ iproduced <= produced
                  /\ istatus > 0 /\ iproduced > 0
                  /\ IF acked < iproduced
                     THEN Dist(consume, istatus - 1) = (iproduced - 1) - taken
                     ELSE FromStatus(istatus) = next
HandlerInv ==
  /\ ReportInv
  /\ (irq /\ ~masked) => produced > 0
SwallowInv ==
  /\ (~irq /\ ipc = "idle") => produced < acked + N
  /\ (~irq /\ ipc = "complete" /\ acked < iproduced) => produced < iproduced + N
  /\ ipc = "ack" => irq
FullInv ==
  ~skipped => \A s \in Slots : \/ s \in queued
                               \/ Dist(consume, s) < Filled
                               \/ wpc \in {"copy", "refill"} /\ s = bank

RunningInv ==
  (Running /\ InStep) =>
     /\ CountInv /\ NextInv /\ StatusInv /\ QueuedInv /\ PendingInv
     /\ CompletedInv /\ MemInv /\ CopyInv /\ HandlerInv /\ SwallowInv
     /\ FullInv

(* The inductive invariant: bookkeeping of the handler and the worker, and  *)
(* the registers of the FPGA, agree on one line of slots at every step.     *)
RingInv == TypeOK /\ ControlInv /\ IdleInv /\ FreshInv /\ RunningInv

-----------------------------------------------------------------------------
(***************************************************************************)
(* Refinement: the ring implements a FIFO of frames.  The frame in the     *)
(* bank that cap_copy() reads is read from memory, so that the abstract    *)
(* reader's frame is what the user's buffer gets.  A session that has lost *)
(* count is a broken one.                                                  *)
(***************************************************************************)
Reading == IF InStep /\ wpc \in {"copy", "refill"} THEN {mem[bank]} ELSE {}

Fifo == INSTANCE FrameFifo
          WITH Capacity <- N,
               written <- IF InStep THEN produced ELSE 0,
               visible <- IF InStep THEN acked ELSE 0,
               taken <- IF InStep THEN taken ELSE 0,
               reading <- Reading,
               broken <- ~InStep

(* The continuous capture path behaves as a FIFO of frames of the capacity  *)
(* of the ring: nothing is lost, repeated, reordered or overwritten between *)
(* the FPGA and cap_copy() within a session, until the session loses count. *)
ImplementsFifo == Fifo!Spec
=============================================================================
