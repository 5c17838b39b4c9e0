--------------------------- MODULE CaptureStream ---------------------------
(***************************************************************************)
(* The paced capture path of driver/gc573_capture.c (one frame armed at a  *)
(* time; DmaRing has the continuous path) with everything around it: the   *)
(* V4L2 queue and its user, the kernel thread cap_worker(), the interrupt  *)
(* handler, loss of the HDMI input and recovery, every failure the code    *)
(* handles, and gc573_capture_destroy().                                   *)
(***************************************************************************)
EXTENDS Naturals, Sequences, FiniteSets

CONSTANTS
  N,          \* number of descriptor slots (DMA_BANKS)
  Buffers,    \* the buffers of the V4L2 queue
  NoBuffer,   \* no buffer
  MinQueued,  \* min_queued_buffers: buffers needed to start streaming
  LateSignal, \* TRUE if the first HDMI signal may arrive between the check of
              \* cap_start_streaming() and that of cap_arm()
  Faults      \* TRUE if resets, drains, thread creation, cap_enable() and
              \* guard checks may fail

ASSUME StreamAssumption ==
  /\ N \in Nat \ {0}
  /\ IsFiniteSet(Buffers) /\ NoBuffer \notin Buffers
  /\ MinQueued \in Nat \ {0}
  /\ LateSignal \in BOOLEAN /\ Faults \in BOOLEAN

VARIABLES
  (* FPGA and PCI *)
  armed,      \* slots set in register 0x304
  videoOn,    \* bit 0 of register 0x1000
  status,     \* register 0x300 & 7
  irqBit,     \* bit 1 of register 0x10
  masked,     \* bit 1 of register 0x1c is clear
  master,     \* bus mastering
  mem,        \* mem[s]: "blank", "fresh" (a frame nobody saw) or "seen"
  outstanding,\* a slot was armed and no drain has succeeded since: writes of
              \* the device may be under way
  match,      \* what cap_input_matches() would return now
  (* struct gc573_capture *)
  started, pending, complete, slot, bank, stopping, masterCleared,
  pendingDrained,
  done,       \* completion done: "no", "one" (complete()) or "all"
              \* (complete_all())
  audio,      \* c->audio is set
  (* threads *)
  wpc,        \* cap_worker()
  recovering, \* the worker is in the first transfer after a recovery
  ipc,        \* cap_interrupt()
  istatus,    \* dma_status of the handler
  upc,        \* the thread in cap_stop_streaming()
  life,       \* gc573_capture_destroy()
  (* V4L2 queue *)
  on,         \* start_streaming() has succeeded
  queue,      \* buffers queued, oldest first
  inflight,   \* the buffer the worker holds, or NoBuffer
  finished,   \* buffers returned with vb2_buffer_done(), not yet dequeued
  qerror      \* vb2_queue_error() was called

hwVars     == <<armed, videoOn, status, irqBit, masked, master, mem, outstanding>>
masterVars == <<masterCleared, pendingDrained>>
frameVars  == <<pending, complete, slot, bank>>
irqVars    == <<ipc, istatus>>
bufVars    == <<queue, inflight, finished>>
lifeVars   == <<audio, upc, life, on>>
vars == <<hwVars, match, started, masterVars, frameVars, stopping, done, wpc,
          recovering, irqVars, lifeVars, bufVars, qerror>>

Slots == 0 .. N - 1

FromStatus(v) == IF v = N THEN 0 ELSE v
Blank == [s \in Slots |-> "blank"]

(* Outcomes of a step that may fail.                                        *)
Succeeds == IF Faults THEN BOOLEAN ELSE {TRUE}

Init ==
  /\ armed = {} /\ videoOn = FALSE /\ status \in 0 .. N /\ irqBit = FALSE
  /\ masked = TRUE /\ master = FALSE /\ mem = Blank /\ outstanding = FALSE
  /\ match \in BOOLEAN
  /\ started = FALSE /\ pending = FALSE /\ complete = FALSE /\ slot = 0
  /\ bank = 0 /\ stopping = FALSE /\ masterCleared = FALSE
  /\ pendingDrained = FALSE /\ done = "no" /\ audio \in BOOLEAN
  /\ wpc = "none" /\ recovering = FALSE /\ ipc = "idle" /\ istatus = 0
  /\ upc = "idle" /\ life = "live"
  /\ on = FALSE /\ queue = <<>> /\ inflight = NoBuffer /\ finished = {}
  /\ qerror = FALSE

-----------------------------------------------------------------------------
(* FPGA, HDMI source and the audio path (external to this file).            *)

(* The armed slot receives a complete frame.                                *)
HwComplete ==
  LET s == FromStatus(status) IN
  /\ s \in armed /\ videoOn /\ master
  /\ armed' = armed \ {s}
  /\ status' = s + 1
  /\ irqBit' = TRUE
  /\ mem' = [mem EXCEPT ![s] = "fresh"]
  /\ UNCHANGED <<videoOn, masked, master, outstanding, match, started,
                 masterVars, frameVars, stopping, done, wpc, recovering,
                 irqVars, lifeVars, bufVars, qerror>>

(* The worker has not yet looked at the input of a first stream.            *)
AwaitsFirstSignal == on /\ ~started /\ wpc \in {"created", "loop", "transfer"}

InputChange ==
  /\ LateSignal \/ match \/ ~AwaitsFirstSignal
  /\ match' = ~match
  /\ UNCHANGED <<hwVars, started, masterVars, frameVars, stopping, done, wpc,
                 recovering, irqVars, lifeVars, bufVars, qerror>>

(* aud_trigger(): audio DMA switches bus mastering on.                      *)
AudioStart ==
  /\ audio /\ life = "live" /\ ~master
  /\ master' = TRUE
  /\ UNCHANGED <<armed, videoOn, status, irqBit, masked, mem, outstanding,
                 match, started, masterVars, frameVars, stopping, done, wpc,
                 recovering, irqVars, lifeVars, bufVars, qerror>>

-----------------------------------------------------------------------------
(* cap_interrupt() with the ring inactive.                                  *)

IrqRead ==
  /\ ipc = "idle" /\ irqBit /\ ~masked
  /\ life \notin {"freed", "leaked"}
  /\ ipc' = "ack" /\ istatus' = status
  /\ UNCHANGED <<hwVars, match, started, masterVars, frameVars, stopping, done,
                 wpc, recovering, lifeVars, bufVars, qerror>>

IrqAck ==
  /\ ipc = "ack"
  /\ irqBit' = FALSE
  /\ ipc' = "slot"
  /\ UNCHANGED <<armed, videoOn, status, masked, master, mem, outstanding,
                 match, started, masterVars, frameVars, stopping, done, wpc,
                 recovering, istatus, lifeVars, bufVars, qerror>>

(* Only the slot that was armed completes the transfer.                     *)
IrqSlot ==
  /\ ipc = "slot"
  /\ IF istatus = slot + 1 THEN complete' = TRUE /\ ipc' = "signal"
                           ELSE ipc' = "idle" /\ UNCHANGED complete
  /\ istatus' = 0
  /\ UNCHANGED <<hwVars, match, started, masterVars, pending, slot, bank,
                 stopping, done, wpc, recovering, lifeVars, bufVars, qerror>>

IrqSignal ==
  /\ ipc = "signal"
  /\ done' = IF done = "all" THEN "all" ELSE "one"
  /\ ipc' = "idle"
  /\ UNCHANGED <<hwVars, match, started, masterVars, frameVars, stopping, wpc,
                 recovering, istatus, lifeVars, bufVars, qerror>>

-----------------------------------------------------------------------------
(* cap_enable() and cap_stop().                                             *)

Enable ==
  /\ started' = TRUE
  /\ master' = TRUE /\ masterCleared' = FALSE /\ pendingDrained' = FALSE
  /\ videoOn' = FALSE
  /\ irqBit' = FALSE /\ masked' = FALSE

(* The part of cap_stop() after its early return: video and its interrupt   *)
(* off, wait for the handler, 0x304 cleared, bus mastering off and drained  *)
(* unless audio needs it, video reset (which leaves 0x300 as it pleases).   *)
StopEngine ==
  /\ ipc = "idle"
  /\ masked' = TRUE /\ videoOn' = FALSE /\ armed' = {}
  /\ status' \in 0 .. N
  /\ IF audio
     THEN UNCHANGED <<master, masterVars, outstanding>>
     ELSE /\ master' = FALSE /\ masterCleared' = TRUE
          /\ \E drained \in Succeeds :
               pendingDrained' = drained /\ outstanding' = (outstanding /\ ~drained)

CapStop ==
  IF started THEN StopEngine
  ELSE UNCHANGED <<armed, videoOn, status, masked, master, masterVars,
                   outstanding>>

-----------------------------------------------------------------------------
(* cap_worker(), cap_transfer() and cap_arm().                              *)

(* kthread(): the thread runs cap_worker() unless kthread_stop() came       *)
(* first (external).                                                        *)
ThreadRun ==
  /\ wpc = "created"
  /\ wpc' = IF upc = "join" THEN "exited" ELSE "loop"
  /\ UNCHANGED <<hwVars, match, started, masterVars, frameVars, stopping, done,
                 recovering, irqVars, lifeVars, bufVars, qerror>>

\* mutant: stopping is only looked at when there is a buffer
WorkerLoopNeedsBuffer ==
  /\ wpc = "loop" /\ queue # <<>>
  /\ \/ stopping /\ wpc' = "exit" /\ UNCHANGED bufVars
     \/ /\ ~stopping
        /\ inflight' = Head(queue) /\ queue' = Tail(queue)
        /\ wpc' = "transfer"
        /\ UNCHANGED finished
  /\ recovering' = FALSE
  /\ UNCHANGED <<hwVars, match, started, masterVars, frameVars, stopping, done,
                 irqVars, lifeVars, qerror>>

WorkerLoop ==
  /\ wpc = "loop"
  /\ \/ stopping /\ wpc' = "exit" /\ UNCHANGED bufVars
     \/ /\ ~stopping /\ queue # <<>>
        /\ inflight' = Head(queue) /\ queue' = Tail(queue)
        /\ wpc' = "transfer"
        /\ UNCHANGED finished
  /\ recovering' = FALSE
  /\ UNCHANGED <<hwVars, match, started, masterVars, frameVars, stopping, done,
                 irqVars, lifeVars, qerror>>

\* mutant: the failing worker keeps its buffer
FailKeepsBuffer ==
  /\ UNCHANGED bufVars
  /\ qerror' = (qerror \/ ~stopping)
  /\ wpc' = "exit"

(* The worker gives up: buffer returned in error, queue in error unless the *)
(* stream is being stopped.                                                 *)
Fail ==
  /\ finished' = finished \cup {inflight}
  /\ inflight' = NoBuffer
  /\ UNCHANGED queue
  /\ qerror' = (qerror \/ ~stopping)
  /\ wpc' = "exit"

(* A transfer returned -ENOLINK: recover, unless this was the transfer that *)
(* ended a recovery.                                                        *)
NoLink ==
  IF recovering \/ stopping THEN Fail
  ELSE wpc' = "nolink" /\ UNCHANGED <<bufVars, qerror>>

(* cap_transfer() and cap_arm() up to the checks of the input and of        *)
(* stopping ...                                                             *)
Transfer ==
  /\ wpc = "transfer"
  /\ \/ /\ pending
        /\ wpc' = "wait"
        /\ UNCHANGED <<bufVars, qerror>>
     \/ /\ ~pending /\ ~match
        /\ NoLink
     \/ /\ ~pending /\ match /\ stopping
        /\ Fail
     \/ /\ ~pending /\ match /\ ~stopping
        /\ wpc' = "reset"
        /\ UNCHANGED <<bufVars, qerror>>
  /\ UNCHANGED <<hwVars, match, started, masterVars, frameVars, stopping, done,
                 recovering, irqVars, lifeVars>>

\* mutant: complete keeps the value of the last transfer
ArmResetStale ==
  /\ wpc = "reset"
  /\ done' = "no"
  /\ wpc' = "slot"
  /\ UNCHANGED <<hwVars, match, started, masterVars, frameVars, stopping,
                 recovering, irqVars, lifeVars, bufVars, qerror>>

(* ... the reset of the completion, which also forgets the complete_all()   *)
(* of a STREAMOFF that came after the check ...                             *)
ArmReset ==
  /\ wpc = "reset"
  /\ complete' = FALSE /\ done' = "no"
  /\ wpc' = "slot"
  /\ UNCHANGED <<hwVars, match, started, masterVars, pending, slot, bank,
                 stopping, recovering, irqVars, lifeVars, bufVars, qerror>>

(* ... the slot after the one completed last, and its arming.               *)
ArmSlot ==
  /\ wpc = "slot"
  /\ slot' = FromStatus(status)
  /\ wpc' = "arm"
  /\ UNCHANGED <<hwVars, match, started, masterVars, pending, complete, bank,
                 stopping, done, recovering, irqVars, lifeVars, bufVars, qerror>>

Arm ==
  /\ wpc = "arm"
  /\ armed' = {slot} /\ videoOn' = TRUE /\ outstanding' = TRUE
  /\ pending' = TRUE
  /\ wpc' = "wait"
  /\ UNCHANGED <<status, irqBit, masked, master, mem, match, started,
                 masterVars, complete, slot, bank, stopping, done, recovering,
                 irqVars, lifeVars, bufVars, qerror>>

(* wait_for_completion_timeout(): complete() is consumed, complete_all()    *)
(* stays.                                                                   *)
WaitDone ==
  /\ wpc = "wait" /\ done # "no"
  /\ done' = IF done = "all" THEN "all" ELSE "no"
  /\ wpc' = "woken"
  /\ UNCHANGED <<hwVars, match, started, masterVars, frameVars, stopping,
                 recovering, irqVars, lifeVars, bufVars, qerror>>

\* mutant: wait_for_completion(), without a timeout
WaitForever == FALSE

WaitTimeout ==
  /\ wpc = "wait" /\ done = "no"
  /\ wpc' = "woken"
  /\ UNCHANGED <<hwVars, match, started, masterVars, frameVars, stopping, done,
                 recovering, irqVars, lifeVars, bufVars, qerror>>

(* After the wait: no frame is an error or a lost link; a frame is copied   *)
(* unless the stream is stopping or the guard bytes are damaged.            *)
Woken ==
  /\ wpc = "woken"
  /\ \/ /\ ~complete /\ match
        /\ Fail
        /\ UNCHANGED <<pending, bank>>
     \/ /\ ~complete /\ ~match
        /\ NoLink
        /\ UNCHANGED <<pending, bank>>
     \/ /\ complete
        /\ pending' = FALSE /\ bank' = slot
        /\ \E guardOk \in Succeeds :
             IF stopping \/ ~guardOk THEN Fail
             ELSE wpc' = "copy" /\ UNCHANGED <<bufVars, qerror>>
  /\ UNCHANGED <<hwVars, match, started, masterVars, complete, slot, stopping,
                 done, recovering, irqVars, lifeVars>>

(* cap_copy() is over and the buffer is returned.                           *)
CopyDone ==
  /\ wpc = "copy"
  /\ mem' = [mem EXCEPT ![bank] = "seen"]
  /\ finished' = finished \cup {inflight} /\ inflight' = NoBuffer
  /\ wpc' = "loop"
  /\ UNCHANGED <<armed, videoOn, status, irqBit, masked, master, outstanding,
                 match, started, masterVars, frameVars, stopping, done,
                 recovering, irqVars, lifeVars, queue, qerror>>

(* -ENOLINK: cap_stop(), then the recovery loop; a failed reset ends the    *)
(* worker.                                                                  *)
LinkLost ==
  /\ wpc = "nolink"
  /\ CapStop
  /\ \E resetOk \in IF started THEN Succeeds ELSE {TRUE} :
       IF resetOk THEN wpc' = "lost" /\ UNCHANGED <<bufVars, qerror>>
       ELSE Fail
  /\ UNCHANGED <<irqBit, mem, match, started, frameVars, stopping, done,
                 recovering, irqVars, lifeVars>>

(* One turn of the recovery loop that ends it: the input is back (new       *)
(* layout, cap_enable(), cap_transfer()) or the stream is being stopped.    *)
Recover ==
  /\ wpc = "lost" /\ match /\ ~stopping
  /\ mem' = Blank /\ pending' = FALSE /\ bank' = 0
  /\ recovering' = TRUE
  /\ \E enableOk \in Succeeds :
       IF enableOk
       THEN Enable /\ wpc' = "transfer" /\ UNCHANGED <<bufVars, qerror>>
       ELSE Fail /\ UNCHANGED <<started, master, masterVars, videoOn, irqBit,
                                masked>>
  /\ UNCHANGED <<armed, status, outstanding, match, complete, slot, stopping,
                 done, irqVars, lifeVars>>

\* mutant: the recovery loop does not look at stopping
RecoverIgnoresStop == FALSE

RecoverStopped ==
  /\ wpc = "lost" /\ stopping
  /\ Fail
  /\ UNCHANGED <<hwVars, match, started, masterVars, frameVars, stopping, done,
                 recovering, irqVars, lifeVars>>

WorkerExit ==
  /\ wpc = "exit"
  /\ CapStop
  /\ wpc' = "exited"
  /\ UNCHANGED <<irqBit, mem, match, started, frameVars, stopping, done,
                 recovering, irqVars, lifeVars, bufVars, qerror>>

-----------------------------------------------------------------------------
(* The user's ioctls through videobuf2.                                     *)

Owned(b) == b \in finished \/ b = inflight \/ \E i \in DOMAIN queue : queue[i] = b

QBuf(b) ==
  /\ life = "live" /\ upc = "idle" /\ ~Owned(b) /\ ~qerror
  /\ queue' = Append(queue, b)
  /\ UNCHANGED <<hwVars, match, started, masterVars, frameVars, stopping, done,
                 wpc, recovering, irqVars, lifeVars, inflight, finished, qerror>>

DqBuf(b) ==
  /\ life = "live" /\ upc = "idle" /\ b \in finished /\ ~qerror
  /\ finished' = finished \ {b}
  /\ UNCHANGED <<hwVars, match, started, masterVars, frameVars, stopping, done,
                 wpc, recovering, irqVars, lifeVars, queue, inflight, qerror>>

(* cap_start_streaming(): the engine is enabled if the input is there; the  *)
(* thread is created in any case.  A failure leaves the buffers with        *)
(* videobuf2 and, once enabled, stops the engine again.                     *)
StreamOn ==
  /\ life = "live" /\ upc = "idle" /\ ~on /\ Len(queue) >= MinQueued
  /\ stopping' = FALSE /\ recovering' = FALSE
  /\ mem' = Blank /\ pending' = FALSE /\ bank' = 0
  /\ on' = TRUE /\ wpc' = "created"
  /\ IF match THEN Enable
     ELSE UNCHANGED <<started, master, masterVars, videoOn, irqBit, masked>>
  /\ UNCHANGED <<armed, status, outstanding, match, complete, slot, done,
                 irqVars, audio, upc, life, bufVars, qerror>>

StreamOnFails ==
  /\ Faults
  /\ life = "live" /\ upc = "idle" /\ ~on /\ Len(queue) >= MinQueued
  /\ stopping' = FALSE
  /\ mem' = Blank /\ pending' = FALSE /\ bank' = 0
  /\ \/ /\ match  \* cap_enable() fails
        /\ UNCHANGED <<armed, status, masked, master, videoOn, masterVars,
                       outstanding, started, irqBit>>
     \/ /\ match  \* kthread_create() fails after cap_enable()
        /\ started' = TRUE /\ irqBit' = FALSE
        /\ StopEngine
     \/ /\ ~match  \* kthread_create() fails
        /\ CapStop
        /\ UNCHANGED <<started, irqBit>>
  /\ UNCHANGED <<match, complete, slot, done, wpc, recovering, irqVars,
                 lifeVars, bufVars, qerror>>

(* cap_stop_streaming(): by STREAMOFF, close, or vb2_video_unregister_device*)
(* in gc573_capture_destroy().                                              *)
StreamOff ==
  /\ on /\ upc = "idle"
  /\ stopping' = TRUE /\ done' = "all"
  /\ upc' = "stop"
  /\ UNCHANGED <<hwVars, match, started, masterVars, frameVars, wpc,
                 recovering, irqVars, audio, life, on, bufVars, qerror>>

KthreadStop ==
  /\ upc = "stop"
  /\ upc' = "join"
  /\ UNCHANGED <<hwVars, match, started, masterVars, frameVars, stopping, done,
                 wpc, recovering, irqVars, audio, life, on, bufVars, qerror>>

(* kthread_stop() returns; all queued buffers are returned in error and     *)
(* videobuf2 gives every buffer back to the user.                           *)
Joined ==
  /\ upc = "join" /\ wpc = "exited"
  /\ upc' = "idle" /\ wpc' = "none" /\ on' = FALSE
  /\ queue' = <<>> /\ finished' = {} /\ qerror' = FALSE
  /\ UNCHANGED <<hwVars, match, started, masterVars, frameVars, stopping, done,
                 recovering, irqVars, audio, life, inflight>>

-----------------------------------------------------------------------------
(* gc573_capture_destroy().                                                 *)

Unregister ==
  /\ life = "live"
  /\ life' = "removing"
  /\ UNCHANGED <<hwVars, match, started, masterVars, frameVars, stopping, done,
                 wpc, recovering, irqVars, audio, upc, on, bufVars, qerror>>

DestroyStop ==
  /\ life = "removing" /\ ~on /\ upc = "idle"
  /\ IF started /\ ~masterCleared THEN StopEngine
     ELSE UNCHANGED <<armed, videoOn, status, masked, master, masterVars,
                      outstanding>>
  /\ life' = "stopped"
  /\ UNCHANGED <<irqBit, mem, match, started, frameVars, stopping, done, wpc,
                 recovering, irqVars, audio, upc, on, bufVars, qerror>>

(* The IRQ callback is detached from audio, gc573_audio_destroy() clears    *)
(* bus mastering and drains.                                                *)
DestroyAudio ==
  /\ life = "stopped" /\ audio
  /\ ipc = "idle"
  /\ audio' = FALSE
  /\ master' = FALSE /\ masterCleared' = TRUE
  /\ \E drained \in Succeeds :
       pendingDrained' = drained /\ outstanding' = (outstanding /\ ~drained)
  /\ UNCHANGED <<armed, videoOn, status, irqBit, masked, mem, match, started,
                 frameVars, stopping, done, wpc, recovering, irqVars, upc, life,
                 on, bufVars, qerror>>

\* mutant: the DMA buffers are freed whether or not the drain succeeded
DestroyFreeAlways ==
  /\ life = "stopped" /\ ~audio
  /\ ipc = "idle"
  /\ life' = "freed"
  /\ UNCHANGED <<hwVars, match, started, masterVars, frameVars, stopping, done,
                 wpc, recovering, irqVars, audio, upc, on, bufVars, qerror>>

(* free_irq(), then the DMA buffers are freed or, if transactions may be    *)
(* under way, leaked.                                                       *)
DestroyFree ==
  /\ life = "stopped" /\ ~audio
  /\ ipc = "idle"
  /\ life' = IF started /\ ~pendingDrained THEN "leaked" ELSE "freed"
  /\ UNCHANGED <<hwVars, match, started, masterVars, frameVars, stopping, done,
                 wpc, recovering, irqVars, audio, upc, on, bufVars, qerror>>

(* After the removal nothing is left to do.                                 *)
Removed == life \in {"freed", "leaked"} /\ UNCHANGED vars

-----------------------------------------------------------------------------
Irq == IrqRead \/ IrqAck \/ IrqSlot \/ IrqSignal

Worker ==
  \/ ThreadRun \/ WorkerLoop \/ Transfer \/ ArmReset \/ ArmSlot \/ Arm \/ WaitDone
  \/ WaitTimeout \/ Woken \/ CopyDone \/ LinkLost \/ Recover \/ RecoverStopped
  \/ WorkerExit

User ==
  \/ \E b \in Buffers : QBuf(b) \/ DqBuf(b)
  \/ StreamOn \/ StreamOnFails \/ StreamOff \/ Unregister

Stopping == KthreadStop \/ Joined

Destroy == DestroyStop \/ DestroyAudio \/ DestroyFree

Next ==
  \/ HwComplete \/ InputChange \/ AudioStart
  \/ Irq \/ Worker \/ User \/ Stopping \/ Destroy \/ Removed

Spec == Init /\ [][Next]_vars

(***************************************************************************)
(* Fairness: the handler, the kernel thread (its 1500 ms timeout included: *)
(* the kernel's timer), and a thread inside STREAMOFF or remove keep being *)
(* scheduled, and unregistering stops a running stream.  Nothing is        *)
(* assumed of the FPGA, the HDMI source or the user.                       *)
(***************************************************************************)
FairSpec ==
  /\ Spec
  /\ WF_vars(Irq) /\ WF_vars(Worker) /\ WF_vars(Stopping) /\ WF_vars(Destroy)
  /\ WF_vars(life = "removing" /\ StreamOff)

-----------------------------------------------------------------------------
(* Properties.                                                              *)

TypeOK ==
  /\ armed \subseteq Slots /\ videoOn \in BOOLEAN /\ status \in 0 .. N
  /\ irqBit \in BOOLEAN /\ masked \in BOOLEAN /\ master \in BOOLEAN
  /\ mem \in [Slots -> {"blank", "fresh", "seen"}] /\ outstanding \in BOOLEAN
  /\ match \in BOOLEAN /\ started \in BOOLEAN /\ pending \in BOOLEAN
  /\ complete \in BOOLEAN /\ slot \in Slots /\ bank \in Slots
  /\ stopping \in BOOLEAN /\ masterCleared \in BOOLEAN
  /\ pendingDrained \in BOOLEAN /\ done \in {"no", "one", "all"} /\ audio \in BOOLEAN
  /\ wpc \in {"none", "created", "loop", "transfer", "reset", "slot", "arm",
              "wait", "woken", "copy", "nolink", "lost", "exit", "exited"}
  /\ recovering \in BOOLEAN /\ ipc \in {"idle", "ack", "slot", "signal"}
  /\ istatus \in 0 .. N /\ upc \in {"idle", "stop", "join"}
  /\ life \in {"live", "removing", "stopped", "freed", "leaked"}
  /\ on \in BOOLEAN /\ queue \in Seq(Buffers)
  /\ inflight \in Buffers \cup {NoBuffer} /\ finished \subseteq Buffers
  /\ qerror \in BOOLEAN

(* cap_copy() copies a bank that holds a whole frame nobody has seen and    *)
(* that the FPGA can no longer write, whatever the timing of the interrupt, *)
(* the timeout, a loss of the input and a restart of the stream ("without a *)
(* torn snapshot", cap_arm()).                                              *)
CopyIsFresh == wpc = "copy" => mem[bank] = "fresh" /\ bank \notin armed

(* A buffer is in one place only, and the worker holds none once the stream *)
(* is stopped: videobuf2 requires all of them back from stop_streaming().   *)
BuffersOwnedOnce ==
  /\ Cardinality({queue[i] : i \in DOMAIN queue}) = Len(queue)
  /\ inflight \notin finished
  /\ \A i \in DOMAIN queue : queue[i] # inflight /\ queue[i] \notin finished
  /\ ~on => inflight = NoBuffer

(* The paced path implements what FrameStream promises its user: a frame is *)
(* unseen in at most one slot, and the worker runs, or has been told to     *)
(* return, or is not there.                                                 *)
Stream == INSTANCE FrameStream WITH
  state    <- IF wpc = "none" THEN "off"
              ELSE IF wpc \in {"exit", "exited"} THEN "over" ELSE "running",
  fresh    <- \E s \in Slots : mem[s] = "fresh",
  taken    <- inflight,
  returned <- finished,
  error    <- qerror

ImplementsStream == Stream!Spec

(* "Failed draining retains memory instead of risking DMA into freed        *)
(* allocations": when gc573_capture_destroy() frees the DMA buffers, no     *)
(* write of the device can still be under way or start.                     *)
FreedIsSafe == life = "freed" => ~outstanding /\ (armed = {} \/ ~master)

(* "Module teardown disables both engines ... before releasing DMA          *)
(* allocations": video is off and no slot is armed when the driver is gone. *)
TeardownDisablesEngine ==
  life \in {"freed", "leaked"} => armed = {} /\ ~videoOn

(* STREAMOFF returns although the worker may wait for a frame that never    *)
(* comes, or for an input that never returns.                               *)
StopTerminates == (upc # "idle") ~> (upc = "idle")

(* The removal of the driver always ends.                                   *)
RemoveTerminates == (life = "removing") ~> (life \in {"freed", "leaked"})

(* The worker keeps a buffer for ever only while it waits for the input to  *)
(* return.                                                                  *)
BufferComesBack ==
  \A b \in Buffers : (inflight = b) ~> (inflight # b \/ wpc = "lost")
=============================================================================
