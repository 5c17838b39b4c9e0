------------------------------ MODULE DmaRing ------------------------------
(***************************************************************************)
(* The continuous capture path of driver/gc573_capture.c (ring_active, the *)
(* 2560x1440 streams above 60 fps) with the completion logic of            *)
(* driver/gc573_dma_ring.h.  N descriptor slots, each with its own bank of *)
(* memory, circulate between three concurrent parties:                     *)
(*   - the FPGA, which fills queued slots in order, reports the last one   *)
(*     it completed in register 0x300 and raises bit 1 of register 0x10;   *)
(*   - cap_interrupt(), which reads 0x300, acknowledges, and marks slots   *)
(*     complete under engine_lock;                                         *)
(*   - cap_worker(), which waits for a slot, copies its bank to a buffer   *)
(*     of the user and queues the slot again under engine_lock.            *)
(* The STREAMOFF path and the loss of the HDMI input run against all       *)
(* three.  The driver's N is 4.                                            *)
(***************************************************************************)
EXTENDS Naturals

CONSTANTS
  N,          \* number of slots (DMA_BANKS)
  MaxFrames   \* bound: frames the FPGA writes in one session of the ring

ASSUME RingAssumption ==
  /\ N \in Nat \ {0}
  /\ MaxFrames \in Nat

VARIABLES
  (* FPGA *)
  queued,     \* slots whose bit is set in register 0x304
  status,     \* register 0x300 & 7: 0, or 1 + the slot completed last
  irq,        \* bit 1 of register 0x10
  mem,        \* mem[s]: number of the frame in the bank of slot s
  produced,   \* frames written since the ring was last enabled
  (* shared state of struct gc573_capture *)
  pending,    \* ring.pending
  next,       \* ring.next
  completed,  \* slots whose completion ring_done[s] is signalled
  ringActive, \* ring_active
  masked,     \* bit 1 of register 0x1c is clear
  lock,       \* engine_lock is held by the worker
  match,      \* what cap_input_matches() would return now
  stopping,   \* stopping
  (* cap_worker() *)
  wpc,        \* where the worker is
  ringStarted,\* ring_started
  consume,    \* ring_consume
  bank,       \* completed_bank
  control,    \* the value of 0x304 that cap_ring_refill() read
  recovering, \* the worker is in the first transfer after a recovery
  error,      \* why the worker gave up: "none", "timeout", "nolink" or "io"
  skipped,    \* history: a refill of this session was skipped
  taken,      \* history: frames taken by the worker in this session
  (* cap_interrupt() *)
  ipc,        \* where the handler is
  istatus,    \* dma_status
  iproduced,  \* history: produced when the handler read 0x300
  acked,      \* history: slots the handler has marked complete, one by one
  slip        \* history: how this session lost count, "none" if it has not:
              \* "duplicate": a report of this session that was counted before
              \* was counted again, as a whole round, because every slot was
              \* queued;
              \* "race": a slot completed between the read and the write of
              \* 0x304 in cap_ring_refill(), which queued it once more

hwVars     == <<queued, status, irq, mem, produced>>
workerVars == <<ringStarted, consume, bank, control, recovering, error,
                skipped, taken>>
irqVars    == <<ipc, istatus, iproduced>>
count      == <<acked, slip>>
vars == <<hwVars, pending, next, completed, ringActive, masked, lock, match,
          stopping, wpc, workerVars, irqVars, count>>

Slots == 0 .. N - 1

WorkerPcs == {"off", "transfer", "start", "wait", "copy", "refill", "nolink",
              "lost", "exit"}

Following(s)  == IF s = N - 1 THEN 0 ELSE s + 1
Dist(a, b)    == IF a <= b THEN b - a ELSE (b + N) - a
FromStatus(v) == IF v = N THEN 0 ELSE v

(* The session has counted its frames right so far: no repeated interrupt   *)
(* was taken for a whole round, and no slot completed inside the rewrite of *)
(* 0x304.  The promises below hold as long as that lasts.                   *)
InStep == slip = "none"

(***************************************************************************)
(* gc573_dma_ring_complete(): the slots a reported status completes.  All  *)
(* the slots from next to the reported one, or none if any of them was not *)
(* queued by the driver.                                                   *)
(***************************************************************************)
Through(n, v) == {s \in Slots : Dist(n, s) <= Dist(n, v - 1)}

\* mutant: the walk no longer stops at a slot the driver has not queued
CompleteAcrossGap(p, n, v) ==
  IF v \in 1 .. N /\ v - 1 \in p THEN Through(n, v) ELSE {}

\* mutant: only the reported slot is completed, coalesced ones are forgotten
CompleteReportedOnly(p, n, v) ==
  IF v \in 1 .. N /\ v - 1 \in p THEN {v - 1} ELSE {}

RingComplete(p, n, v) ==
  IF v \in 1 .. N /\ Through(n, v) \subseteq p THEN Through(n, v) ELSE {}

(***************************************************************************)
(* The same as the source writes it: the loop of gc573_dma_ring_complete() *)
(* with its variables and the return inside it, N turns at most.           *)
(***************************************************************************)
LoopStart(n) == [slot |-> n, done |-> {}, over |-> FALSE]

LoopTurn(p, v, l) ==
  IF l.over THEN l
  ELSE IF l.slot \notin p THEN [l EXCEPT !.done = {}, !.over = TRUE]
  ELSE [slot |-> Following(l.slot), done |-> l.done \cup {l.slot},
        over |-> l.slot = v - 1]

Loop(p, n, v) ==
  LET turn[i \in 0 .. N] ==
        IF i = 0 THEN LoopStart(n) ELSE LoopTurn(p, v, turn[i - 1])
  IN  turn[N]

LoopComplete(p, n, v) ==
  IF v \in 1 .. N /\ v - 1 \in p /\ Loop(p, n, v).over
  THEN Loop(p, n, v).done ELSE {}

-----------------------------------------------------------------------------
(* The driver has just been loaded: no stream, no session of the ring.      *)
Init ==
  /\ queued = {} /\ status \in 0 .. N /\ irq = FALSE
  /\ mem = [s \in Slots |-> 0] /\ produced = 0
  /\ pending = {} /\ next = 0 /\ completed = {}
  /\ ringActive = FALSE /\ masked = TRUE /\ lock = FALSE
  /\ match \in BOOLEAN /\ stopping = TRUE
  /\ wpc = "off" /\ ringStarted = FALSE /\ consume = 0 /\ bank = 0
  /\ control = {} /\ recovering = FALSE /\ error = "none" /\ skipped = FALSE
  /\ taken = 0
  /\ ipc = "idle" /\ istatus = 0 /\ iproduced = 0 /\ acked = 0
  /\ slip = "none"

-----------------------------------------------------------------------------
(* FPGA and HDMI source (external).                                         *)

(* The next slot in order, if it is queued, receives a frame; its bit of    *)
(* 0x304 clears, 0x300 names it and the interrupt bit is raised.  It may do *)
(* so while cap_ring_refill() is between its read and its write of 0x304.   *)
(* (Bounds: MaxFrames, and no frame in a session that has lost count.)      *)
HwComplete ==
  LET s == FromStatus(status) IN
  /\ s \in queued
  /\ produced < MaxFrames /\ InStep
  /\ queued' = queued \ {s}
  /\ status' = s + 1
  /\ irq' = TRUE
  /\ mem' = [mem EXCEPT ![s] = produced]
  /\ produced' = produced + 1
  /\ slip' = IF lock THEN "race" ELSE slip
  /\ UNCHANGED <<pending, next, completed, ringActive, masked, lock, match,
                 stopping, wpc, workerVars, irqVars, acked>>

(* Another interrupt for a completion of this session that 0x300 reported   *)
(* before.  (Bound: none in a session that has lost count.)                 *)
HwLateIrq ==
  /\ produced > 0 /\ InStep
  /\ irq' = TRUE
  /\ UNCHANGED <<queued, status, mem, produced, pending, next, completed,
                 ringActive, masked, lock, match, stopping, wpc, workerVars,
                 irqVars, count>>

(* Signal lock, geometry, frame period or HDMI readiness changes.           *)
InputChange ==
  /\ match' = ~match
  /\ UNCHANGED <<hwVars, pending, next, completed, ringActive, masked, lock,
                 stopping, wpc, workerVars, irqVars, count>>

-----------------------------------------------------------------------------
(* cap_interrupt(), one step per register access that another party can     *)
(* see.                                                                     *)

IrqRead ==
  /\ ipc = "idle" /\ irq /\ ~masked
  /\ ipc' = "ack"
  /\ istatus' = status
  /\ iproduced' = produced
  /\ UNCHANGED <<hwVars, pending, next, completed, ringActive, masked, lock,
                 match, stopping, wpc, workerVars, count>>

IrqAck ==
  /\ ipc = "ack"
  /\ irq' = FALSE
  /\ ipc' = "complete"
  /\ UNCHANGED <<queued, status, mem, produced, pending, next, completed,
                 ringActive, masked, lock, match, stopping, wpc, workerVars,
                 istatus, iproduced, count>>

IrqComplete ==
  LET done == RingComplete(pending, next, istatus) IN
  /\ ipc = "complete" /\ ~lock
  /\ ipc' = "idle" /\ istatus' = 0 /\ iproduced' = 0
  /\ IF ringActive /\ done # {}
     THEN /\ pending' = pending \ done
          /\ next' = FromStatus(istatus)
          /\ completed' = completed \cup done
          /\ acked' = acked + Dist(next, istatus - 1) + 1
          /\ slip' = IF InStep /\ pending = Slots /\ iproduced = acked /\ acked > 0
                     THEN "duplicate" ELSE slip
     ELSE UNCHANGED <<pending, next, completed, count>>
  /\ UNCHANGED <<hwVars, ringActive, masked, lock, match, stopping, wpc,
                 workerVars>>

-----------------------------------------------------------------------------
(* cap_worker() with cap_ring_transfer() and cap_ring_refill().             *)

(* cap_enable(): a new session of the ring with nothing queued, and all     *)
(* completions reinitialised ...                                            *)
NewSession ==
  /\ pending' = {} /\ next' = 0 /\ completed' = {}
  /\ ringActive' = TRUE /\ ringStarted' = FALSE

\* mutant: the interrupt bit left over from the last session is not cleared
EnableNoAck ==
  /\ NewSession
  /\ masked' = FALSE
  /\ irq' = irq

(* ... and, when nothing failed, the stale interrupt bit acknowledged and   *)
(* the interrupt unmasked.                                                  *)
Enable ==
  /\ NewSession
  /\ masked' = FALSE
  /\ irq' = FALSE

(* Where the worker goes with the result of a transfer: -ENOLINK leads to   *)
(* recovery unless this was the transfer that ended a recovery; any other   *)
(* error, and a stop, end the worker.                                       *)
Failed(result) ==
  /\ wpc' = IF result = "nolink" /\ ~recovering /\ ~stopping
            THEN "nolink" ELSE "exit"
  /\ error' = IF stopping \/ wpc' = "nolink" THEN error ELSE result

(* Entry of cap_ring_transfer(): input check, then stop check.              *)
Transfer ==
  /\ wpc = "transfer"
  /\ IF ~match THEN Failed("nolink")
     ELSE /\ wpc' = IF stopping THEN "exit"
                    ELSE IF ringStarted THEN "wait" ELSE "start"
          /\ UNCHANGED error
  /\ UNCHANGED <<hwVars, pending, next, completed, ringActive, masked, lock,
                 match, stopping, ringStarted, consume, bank, control,
                 recovering, skipped, taken, irqVars, count>>

\* mutant: the ring always starts at slot 0
RingStartAtZero ==
  /\ wpc = "start"
  /\ wpc' = "wait"
  /\ consume' = 0
  /\ next' = FromStatus(status)
  /\ pending' = Slots
  /\ queued' = Slots
  /\ ringStarted' = TRUE
  /\ UNCHANGED <<status, irq, mem, produced, completed, ringActive, masked,
                 lock, match, stopping, bank, control, recovering, error,
                 skipped, taken, irqVars, count>>

(* First transfer of a session: queue every slot under engine_lock.         *)
RingStart ==
  /\ wpc = "start"
  /\ wpc' = "wait"
  /\ consume' = FromStatus(status)
  /\ next' = FromStatus(status)
  /\ pending' = Slots
  /\ queued' = Slots
  /\ ringStarted' = TRUE
  /\ UNCHANGED <<status, irq, mem, produced, completed, ringActive, masked,
                 lock, match, stopping, bank, control, recovering, error,
                 skipped, taken, irqVars, count>>

(* wait_for_completion_timeout() returned non-zero.                         *)
WaitDone ==
  /\ wpc = "wait" /\ consume \in completed
  /\ completed' = completed \ {consume}
  /\ IF stopping
     THEN /\ wpc' = "exit"
          /\ UNCHANGED <<consume, bank, taken, recovering>>
     ELSE /\ wpc' = "copy"
          /\ bank' = consume
          /\ consume' = Following(consume)
          /\ taken' = taken + 1
          /\ recovering' = FALSE
  /\ UNCHANGED <<hwVars, pending, next, ringActive, masked, lock, match,
                 stopping, ringStarted, control, error, skipped, irqVars,
                 count>>

(* No completion within 1500 ms.                                            *)
WaitTimeout ==
  /\ wpc = "wait" /\ consume \notin completed
  /\ Failed(IF match THEN "timeout" ELSE "nolink")
  /\ UNCHANGED <<hwVars, pending, next, completed, ringActive, masked, lock,
                 match, stopping, ringStarted, consume, bank, control,
                 recovering, skipped, taken, irqVars, count>>

(* cap_copy() is over; cap_ring_refill() finds the stream stopping or the   *)
(* input changed and leaves the slot unqueued; the buffer is returned.  (A  *)
(* stop seen before the copy returns it in error: the same step here.  The  *)
(* guard bytes, damaged only by a faulty FPGA, are in CaptureStream.)       *)
RefillSkip ==
  /\ wpc = "copy"
  /\ stopping \/ ~match
  /\ skipped' = TRUE
  /\ wpc' = IF stopping THEN "exit" ELSE "transfer"
  /\ UNCHANGED <<hwVars, pending, next, completed, ringActive, masked, lock,
                 match, stopping, ringStarted, consume, bank, control,
                 recovering, error, taken, irqVars, count>>

(* cap_ring_refill() takes engine_lock, clears the slot's completion, marks *)
(* it pending and reads 0x304 ...                                           *)
RefillRead ==
  /\ wpc = "copy" /\ match /\ ~stopping
  /\ lock' = TRUE
  /\ wpc' = "refill"
  /\ completed' = completed \ {bank}
  /\ pending' = pending \cup {bank}
  /\ control' = queued
  /\ UNCHANGED <<hwVars, next, ringActive, masked, match, stopping,
                 ringStarted, consume, bank, recovering, error, skipped, taken,
                 irqVars, count>>

\* mutant: the write queues every slot instead of preserving the register
RefillWriteAll ==
  /\ wpc = "refill"
  /\ lock' = FALSE
  /\ wpc' = IF stopping THEN "exit" ELSE "transfer"
  /\ queued' = Slots
  /\ control' = {}
  /\ UNCHANGED <<status, irq, mem, produced, pending, next, completed,
                 ringActive, masked, match, stopping, ringStarted, consume,
                 bank, recovering, error, skipped, taken, irqVars, count>>

(* ... and writes it back with the slot's bit set.                          *)
RefillWrite ==
  /\ wpc = "refill"
  /\ lock' = FALSE
  /\ wpc' = IF stopping THEN "exit" ELSE "transfer"
  /\ queued' = control \cup {bank}
  /\ control' = {}
  /\ UNCHANGED <<status, irq, mem, produced, pending, next, completed,
                 ringActive, masked, match, stopping, ringStarted, consume,
                 bank, recovering, error, skipped, taken, irqVars, count>>

(* cap_stop(): video and its interrupt are switched off ...                 *)
StopMask ==
  /\ wpc \in {"nolink", "exit"} /\ ~masked
  /\ masked' = TRUE
  /\ UNCHANGED <<hwVars, pending, next, completed, ringActive, lock, match,
                 stopping, wpc, workerVars, irqVars, count>>

(* ... synchronize_irq() waits for the handler, the ring is inactive, 0x304 *)
(* is cleared and the FPGA is reset (which leaves 0x300 as it pleases).     *)
(* The session is over: its history starts again.  If the reset fails after *)
(* a loss of the input, the worker gives up.                                *)
Stop ==
  /\ wpc \in {"nolink", "exit"} /\ masked
  /\ ipc = "idle"
  /\ ringActive' = FALSE
  /\ queued' = {}
  /\ status' \in 0 .. N
  /\ wpc' \in IF wpc = "nolink" THEN {"lost", "exit"} ELSE {"off"}
  /\ error' = IF wpc' = "exit" /\ ~stopping THEN "nolink" ELSE error
  /\ produced' = 0 /\ acked' = 0 /\ taken' = 0 /\ skipped' = FALSE
  /\ slip' = "none"
  /\ mem' = [s \in Slots |-> 0]
  /\ UNCHANGED <<irq, pending, next, completed, masked, lock, match, stopping,
                 ringStarted, consume, bank, control, recovering, irqVars>>

(* The recovery loop after a loss of the input: the same input is back and  *)
(* cap_enable() starts a new session, or the stream is being stopped.       *)
Recover ==
  /\ wpc = "lost" /\ match /\ ~stopping
  /\ Enable
  /\ wpc' = "transfer"
  /\ recovering' = TRUE
  /\ UNCHANGED <<queued, status, mem, produced, lock, match, stopping,
                 consume, bank, control, error, skipped, taken, irqVars, count>>

(* cap_enable() fails, before it begins a new session or after: the worker  *)
(* gives up, its interrupt still masked.                                    *)
RecoverFails ==
  /\ wpc = "lost" /\ match /\ ~stopping
  /\ wpc' = "exit"
  /\ error' \in {"nolink", "io"}
  /\ \/ NewSession
     \/ UNCHANGED <<pending, next, completed, ringActive, ringStarted>>
  /\ UNCHANGED <<hwVars, masked, lock, match, stopping, consume, bank,
                 control, recovering, skipped, taken, irqVars, count>>

RecoverStopped ==
  /\ wpc = "lost" /\ stopping
  /\ wpc' = "exit"
  /\ UNCHANGED <<hwVars, pending, next, completed, ringActive, masked, lock,
                 match, stopping, workerVars, irqVars, count>>

-----------------------------------------------------------------------------
(* STREAMON and STREAMOFF.                                                  *)

(* cap_start_streaming() with the input present; without it the worker      *)
(* starts at once in the recovery path.                                     *)
StreamOn ==
  /\ wpc = "off" /\ stopping
  /\ stopping' = FALSE
  /\ error' = "none" /\ recovering' = FALSE
  /\ IF match
     THEN /\ Enable
          /\ wpc' = "transfer"
     ELSE /\ wpc' = "nolink"
          /\ UNCHANGED <<pending, next, completed, ringActive, masked, irq,
                         ringStarted>>
  /\ UNCHANGED <<queued, status, mem, produced, lock, match, consume, bank,
                 control, skipped, taken, irqVars, count>>

(* Its error paths: cap_enable() fails in a session it has begun, or no     *)
(* thread can be created and cap_stop() follows (places "exit" to "off").   *)
(* Without a worker nobody looks at stopping.                               *)
StreamOnFails ==
  /\ wpc = "off" /\ stopping /\ match
  /\ error' \in {"none", "nolink", "io"}
  /\ \/ NewSession /\ UNCHANGED <<masked, irq, wpc>>
     \/ Enable /\ wpc' = "exit"
  /\ UNCHANGED <<queued, status, mem, produced, lock, match, stopping, consume,
                 bank, control, recovering, skipped, taken, irqVars, count>>

\* mutant: the waiting worker is not woken
StreamOffNoWake ==
  /\ ~stopping
  /\ stopping' = TRUE
  /\ UNCHANGED <<hwVars, pending, next, completed, ringActive, masked, lock,
                 match, wpc, workerVars, irqVars, count>>

(* cap_stop_streaming(): stopping is set and every completion is signalled; *)
(* kthread_stop() then waits for wpc = "off".                               *)
StreamOff ==
  /\ ~stopping
  /\ stopping' = TRUE
  /\ completed' = Slots
  /\ UNCHANGED <<hwVars, pending, next, ringActive, masked, lock, match, wpc,
                 workerVars, irqVars, count>>

-----------------------------------------------------------------------------
Irq == IrqRead \/ IrqAck \/ IrqComplete

Worker ==
  \/ Transfer \/ RingStart \/ WaitDone \/ RefillSkip \/ RefillRead
  \/ RefillWrite \/ StopMask \/ Stop \/ Recover \/ RecoverFails \/ RecoverStopped

Next ==
  \/ HwComplete \/ HwLateIrq \/ InputChange
  \/ Irq \/ Worker \/ WaitTimeout
  \/ StreamOn \/ StreamOnFails \/ StreamOff

Spec == Init /\ [][Next]_vars

(***************************************************************************)
(* Fairness: the interrupt handler and the kernel thread keep being        *)
(* scheduled.  Nothing is assumed of the FPGA, of the HDMI source, of the  *)
(* timeout or of the user.                                                 *)
(***************************************************************************)
FairSpec == Spec /\ WF_vars(Irq) /\ WF_vars(Worker)

-----------------------------------------------------------------------------
(* Properties.                                                              *)

FlagsOK ==
  /\ irq \in BOOLEAN /\ ringActive \in BOOLEAN /\ masked \in BOOLEAN
  /\ lock \in BOOLEAN /\ match \in BOOLEAN /\ stopping \in BOOLEAN
  /\ ringStarted \in BOOLEAN /\ recovering \in BOOLEAN /\ skipped \in BOOLEAN

DataOK ==
  /\ queued \subseteq Slots /\ status \in 0 .. N
  /\ mem \in [Slots -> Nat] /\ produced \in Nat
  /\ pending \subseteq Slots /\ next \in Slots /\ completed \subseteq Slots
  /\ wpc \in WorkerPcs /\ consume \in Slots
  /\ bank \in Slots /\ control \subseteq Slots
  /\ error \in {"none", "timeout", "nolink", "io"} /\ taken \in Nat
  /\ ipc \in {"idle", "ack", "complete"} /\ istatus \in 0 .. N
  /\ iproduced \in Nat /\ acked \in Nat
  /\ slip \in {"none", "duplicate", "race"}

(* Type correctness: registers, ring state and locals of the handler and    *)
(* the worker stay in range (slots below DMA_BANKS, status at most it).     *)
TypeOK == FlagsOK /\ DataOK

(* cap_copy() never reads a bank the FPGA may write: while the worker is    *)
(* between the completion of a slot and its refill, that slot is not queued *)
(* in register 0x304.                                                       *)
BankExclusive == (InStep /\ wpc = "copy") => bank \notin queued

(* The frame copied to the user's buffer is the next one of the session:    *)
(* coalesced, delayed, repeated or lost interrupts never drop, repeat or    *)
(* reorder a frame between the FPGA and cap_copy().                         *)
FramesInOrder == (InStep /\ wpc = "copy") => mem[bank] = taken - 1

(* "never count a duplicate IRQ twice" (dma_ring.h): the handler never      *)
(* marks more slots than the FPGA has finished, unless a slot completed     *)
(* inside the rewrite of 0x304.  (The code breaks this: a repeated report   *)
(* counts as a whole round when all the slots are queued.)                  *)
NeverCountedTwice == slip # "race" => acked <= produced

(* What the code keeps of it: a report that was counted before is ignored   *)
(* as long as any slot is still out of the queue, so that no slot is        *)
(* signalled whose frame the FPGA has not finished.                         *)
CompletedIsWritten == InStep => acked <= produced

(* A slot the driver queued and the FPGA finished is never forgotten when   *)
(* an acknowledge swallows an interrupt: if the worker waits for a frame    *)
(* that is already in memory, an interrupt is still due or another slot is  *)
(* queued whose completion will report both.                                *)
NoStrandedFrame ==
  (InStep /\ wpc = "wait" /\ ~stopping /\ ~skipped /\ taken < produced)
     => consume \in completed \/ irq \/ ipc # "idle" \/ queued # {}

(* cap_worker()'s promise to "keep the userspace queue alive across loss of *)
(* the supported input": the worker never waits for a slot that is neither  *)
(* queued nor complete, a wait that can only end in -ETIMEDOUT.             *)
WaitIsBacked ==
  (InStep /\ wpc = "wait" /\ ~stopping) => consume \in pending \cup completed

(* "The worker waits without DMA when its expected FPGA input is lost and   *)
(* resumes after that input returns": a loss of the input alone never ends  *)
(* the worker.                                                              *)
LossNeverEndsStream == error # "nolink"

(* A completed bank is requeued only after its CPU copy (the comment above  *)
(* cap_ring_transfer()): no slot is in the hands of the FPGA while its      *)
(* frame is complete and not yet copied.                                    *)
RequeueAfterCopy ==
  (InStep /\ ringActive /\ ~stopping) => completed \cap queued = {}

(* For every ring state a stream reaches and every value of the three       *)
(* status bits, the loop of gc573_dma_ring_complete() completes the slots   *)
(* the set form says: all the queued slots up to the reported one, or none  *)
(* ("never infer one across a slot which software has not queued"), and     *)
(* leaves the same slot next.                                               *)
LoopAgrees ==
  \A v \in 0 .. 7 :
    /\ LoopComplete(pending, next, v) = RingComplete(pending, next, v)
    /\ LoopComplete(pending, next, v) # {} =>
         Loop(pending, next, v).slot = FromStatus(v)

(* STREAMOFF ends: kthread_stop() in cap_stop_streaming() returns although  *)
(* the worker may be waiting for a frame that never comes.                  *)
StopTerminates == stopping ~> (wpc = "off")
=============================================================================
