------------------------------- MODULE Audio -------------------------------
(***************************************************************************)
(* driver/gc573_audio.c: the ALSA capture device that shares the interrupt *)
(* line, engine_lock and bus mastering with video.  Its operations run in  *)
(* the process of the user under the ALSA core's rules (external), against *)
(* gc573_audio_interrupt(), against the start and stop of video streams    *)
(* (driver/gc573_capture.c), and against creation and destruction.         *)
(*                                                                         *)
(* The user is one process: the ALSA core serialises the operations of a   *)
(* substream.  engine_lock sections are single steps; the stream lock of   *)
(* the ALSA core, held around trigger and taken by the handler when it     *)
(* reports a period or an overrun, is explicit.                            *)
(***************************************************************************)
EXTENDS Naturals

CONSTANTS
  P,          \* periods in the ALSA buffer
  MaxPeriods  \* bound: periods the FPGA completes after one prepare

ASSUME AudioAssumption == P \in Nat \ {0} /\ MaxPeriods \in Nat

VARIABLES
  (* FPGA and PCI *)
  enabled,    \* bit 1 of register 0x08
  unmasked,   \* bit 5 of register 0x1c
  irqBit,     \* bit 5 of register 0x10
  slotReg,    \* register 0x14 & 3: 0, or the slot completed last
  master,     \* bus mastering
  count,      \* history: periods completed by the FPGA since prepare
  (* struct gc573_audio and struct gc573_capture *)
  running, stream, position, periods,
  published,  \* c->audio is set
  areas,      \* the two DMA areas: "owned", "freed" or "retained"
  settled,    \* history: at the last start of the engine c->audio was set, and
              \* no stop of video that had found it unset was under way
  (* ALSA core *)
  pcm,        \* state of the substream
  buffer,     \* runtime->dma_area is allocated
  streamLock, \* the user holds the stream lock
  card,       \* the card accepts operations
  (* threads *)
  upc,        \* the user's operation
  hpc,        \* gc573_audio_interrupt()
  hslot,      \* slot, read by the handler
  hposition,  \* position, read by the handler
  vpc,        \* cap_stop() of the video stream
  dpc         \* creation, then gc573_capture_destroy()/gc573_audio_destroy()

hwVars   == <<enabled, unmasked, irqBit, slotReg, master, count>>
audVars  == <<running, stream, position, periods, published, areas, settled>>
alsaVars == <<pcm, buffer, streamLock, card>>
irqVars  == <<hpc, hslot, hposition>>
vars == <<hwVars, audVars, alsaVars, upc, irqVars, vpc, dpc>>

Init ==
  /\ enabled = FALSE /\ unmasked = FALSE /\ irqBit = FALSE /\ slotReg = 0
  /\ master = FALSE /\ count = 0
  /\ running = FALSE /\ stream = FALSE /\ position = 0 /\ periods = 0
  /\ published = FALSE /\ areas = "owned" /\ settled = FALSE
  /\ pcm = "closed" /\ buffer = FALSE /\ streamLock = FALSE /\ card = TRUE
  /\ upc = "idle" /\ hpc = "idle" /\ hslot = 0 /\ hposition = 0
  /\ vpc = "idle" /\ dpc = "create"

-----------------------------------------------------------------------------
(* FPGA (external): a period is complete, the slots alternate.              *)
HwPeriod ==
  /\ enabled /\ master /\ count < MaxPeriods
  /\ count' = count + 1
  /\ slotReg' = IF slotReg = 1 THEN 2 ELSE 1
  /\ irqBit' = TRUE
  /\ UNCHANGED <<enabled, unmasked, master, audVars, alsaVars, upc, irqVars,
                 vpc, dpc>>

(* A video stream starts (cap_enable()) or stops (cap_stop(), which leaves  *)
(* bus mastering alone if it finds c->audio set), from the registration of  *)
(* the video device to its unregistration, the last step before c->audio is *)
(* cleared.                                                                 *)
Streams == dpc \in {"create", "registered", "live"}

VideoStart ==
  /\ Streams /\ vpc = "idle"
  /\ master' = TRUE
  /\ UNCHANGED <<enabled, unmasked, irqBit, slotReg, count, audVars, alsaVars,
                 upc, irqVars, vpc, dpc>>

\* mutant: every stop of video goes on to clear bus mastering
VideoStopAlways ==
  /\ Streams /\ vpc = "idle"
  /\ vpc' = "clear"
  /\ UNCHANGED <<hwVars, audVars, alsaVars, upc, irqVars, dpc>>

(* cap_stop() reads c->audio ...                                            *)
VideoStopCheck ==
  /\ Streams /\ vpc = "idle"
  /\ vpc' = IF published THEN "idle" ELSE "clear"
  /\ UNCHANGED <<hwVars, audVars, alsaVars, upc, irqVars, dpc>>

(* ... and clears bus mastering, whatever happened in between.              *)
VideoStopClear ==
  /\ vpc = "clear"
  /\ master' = FALSE
  /\ vpc' = "idle"
  /\ UNCHANGED <<enabled, unmasked, irqBit, slotReg, count, audVars, alsaVars,
                 upc, irqVars, dpc>>

-----------------------------------------------------------------------------
(* gc573_audio_interrupt() as called by cap_interrupt(), which video        *)
(* interrupts also run, so that the mask of bit 5 does not keep it out.     *)

(* Without a registered audio device the bit is only acknowledged.          *)
IrqUnpublished ==
  /\ hpc = "idle" /\ irqBit /\ ~published /\ dpc # "gone"
  /\ irqBit' = FALSE
  /\ UNCHANGED <<enabled, unmasked, slotReg, master, count, audVars, alsaVars,
                 upc, irqVars, vpc, dpc>>

IrqEnter ==
  /\ hpc = "idle" /\ irqBit /\ published
  /\ hslot' = slotReg
  /\ hpc' = "ack"
  /\ UNCHANGED <<hwVars, audVars, alsaVars, upc, hposition, vpc, dpc>>

IrqAck ==
  /\ hpc = "ack"
  /\ irqBit' = FALSE
  /\ hpc' = "check"
  /\ UNCHANGED <<enabled, unmasked, slotReg, master, count, audVars, alsaVars,
                 upc, hslot, hposition, vpc, dpc>>

\* mutant: the handler waits for the stream to run
IrqCheckSpins ==
  /\ hpc = "check"
  /\ hpc' = IF running /\ stream /\ hslot \in 1 .. 2 THEN "guard" ELSE "check"
  /\ UNCHANGED <<hwVars, audVars, alsaVars, upc, hslot, hposition, vpc, dpc>>

IrqCheck ==
  /\ hpc = "check"
  /\ hpc' = IF running /\ stream /\ hslot \in 1 .. 2 THEN "guard" ELSE "idle"
  /\ UNCHANGED <<hwVars, audVars, alsaVars, upc, hslot, hposition, vpc, dpc>>

(* aud_disable(), under engine_lock.                                        *)
Disable ==
  /\ running' = FALSE
  /\ enabled' = FALSE
  /\ unmasked' = FALSE

(* The guard bytes behind the period are checked; damage, which only a      *)
(* faulty FPGA causes, stops the engine.                                    *)
IrqGuardOk ==
  /\ hpc = "guard"
  /\ hpc' = "copy"
  /\ hposition' = position
  /\ UNCHANGED <<hwVars, audVars, alsaVars, upc, hslot, vpc, dpc>>

IrqGuardBad ==
  /\ hpc = "guard"
  /\ Disable
  /\ hpc' = "xrun"
  /\ UNCHANGED <<irqBit, slotReg, master, count, stream, position, periods,
                 published, areas, settled, alsaVars, upc, hslot, hposition,
                 vpc, dpc>>

(* The period is copied, the position moves on and wraps.                   *)
IrqCopy ==
  /\ hpc = "copy"
  /\ position' = IF hposition + 1 >= P THEN 0 ELSE hposition + 1
  /\ periods' = periods + 1
  /\ hpc' = "elapsed"
  /\ UNCHANGED <<hwVars, running, stream, published, areas, settled, alsaVars, upc,
                 hslot, hposition, vpc, dpc>>

(* snd_pcm_period_elapsed() takes the stream lock.                          *)
IrqElapsed ==
  /\ hpc = "elapsed" /\ ~streamLock
  /\ hpc' = "idle" /\ hposition' = 0 /\ hslot' = 0
  /\ UNCHANGED <<hwVars, audVars, alsaVars, upc, vpc, dpc>>

(* snd_pcm_stop_xrun() takes it too and triggers the stop.                  *)
IrqXrun ==
  /\ hpc = "xrun" /\ ~streamLock
  /\ pcm' = IF pcm = "running" THEN "xrun" ELSE pcm
  /\ Disable
  /\ hpc' = "idle" /\ hslot' = 0
  /\ UNCHANGED <<irqBit, slotReg, master, count, stream, position, periods,
                 published, areas, settled, buffer, streamLock, card, upc,
                 hposition, vpc, dpc>>

-----------------------------------------------------------------------------
(* PCM operations of the user.                                              *)

(* aud_open(), then hw_params, which allocates the managed buffer, as soon  *)
(* as the card is registered.                                               *)
Open ==
  /\ upc = "idle" /\ card /\ pcm = "closed" /\ dpc # "create"
  /\ pcm' = "setup" /\ buffer' = TRUE
  /\ UNCHANGED <<hwVars, audVars, streamLock, card, upc, irqVars, vpc, dpc>>

(* aud_prepare(): stop the engine, wait for the handler, check the signal,  *)
(* then a new stream.                                                       *)
PrepareDisable ==
  /\ upc = "idle" /\ card /\ pcm \in {"setup", "prepared", "xrun"}
  /\ Disable
  /\ upc' = "prepareSync"
  /\ UNCHANGED <<irqBit, slotReg, master, count, stream, position, periods,
                 published, areas, settled, alsaVars, irqVars, vpc, dpc>>

\* mutant: a handler that still runs is not waited for
PrepareNoSync ==
  /\ upc = "prepareSync"
  /\ upc' = "prepare"
  /\ UNCHANGED <<hwVars, audVars, alsaVars, irqVars, vpc, dpc>>

PrepareSync ==
  /\ upc = "prepareSync" /\ hpc = "idle"
  /\ upc' = "prepare"
  /\ UNCHANGED <<hwVars, audVars, alsaVars, irqVars, vpc, dpc>>

PrepareFails ==
  /\ upc = "prepare"
  /\ upc' = "idle"
  /\ UNCHANGED <<hwVars, audVars, alsaVars, irqVars, vpc, dpc>>

Prepare ==
  /\ upc = "prepare"
  /\ stream' = TRUE /\ position' = 0 /\ periods' = 0 /\ count' = 0
  /\ pcm' = "prepared"
  /\ upc' = "idle"
  /\ UNCHANGED <<enabled, unmasked, irqBit, slotReg, master, running, published,
                 areas, settled, buffer, streamLock, card, irqVars, vpc, dpc>>

(* aud_trigger(START), under both locks.                                    *)
TriggerStart ==
  /\ upc = "idle" /\ card /\ pcm = "prepared"
  /\ master' = TRUE
  /\ irqBit' = FALSE
  /\ running' = TRUE /\ unmasked' = TRUE /\ enabled' = TRUE
  /\ pcm' = "running"
  /\ settled' = (published /\ vpc = "idle")
  /\ UNCHANGED <<slotReg, count, stream, position, periods, published, areas,
                 buffer, streamLock, card, upc, irqVars, vpc, dpc>>

(* aud_trigger(STOP), for itself or as the first step of closing (also of a *)
(* disconnected device).                                                    *)
TriggerStop ==
  /\ upc = "idle" /\ pcm = "running" /\ card
  /\ streamLock' = TRUE
  /\ Disable
  /\ upc' = "stop"
  /\ UNCHANGED <<irqBit, slotReg, master, count, stream, position, periods,
                 published, areas, settled, pcm, buffer, card, irqVars, vpc, dpc>>

TriggerStopped ==
  /\ upc = "stop"
  /\ streamLock' = FALSE
  /\ pcm' = "setup"
  /\ upc' = "idle"
  /\ UNCHANGED <<hwVars, audVars, buffer, card, irqVars, vpc, dpc>>

(* Closing: the core stops a running stream first, calls aud_sync_stop(),   *)
(* frees the buffer, and calls aud_close().                                 *)
CloseBegin ==
  /\ upc = "idle" /\ pcm \notin {"closed", "running"}
  /\ upc' = "closeSync"
  /\ UNCHANGED <<hwVars, audVars, alsaVars, irqVars, vpc, dpc>>

\* mutant: sync_stop does not wait for the handler
SyncStopReturns ==
  /\ upc = "closeSync"
  /\ buffer' = FALSE
  /\ upc' = "closeDisable"
  /\ UNCHANGED <<hwVars, audVars, pcm, streamLock, card, irqVars, vpc, dpc>>

SyncStop ==
  /\ upc = "closeSync" /\ hpc = "idle"
  /\ buffer' = FALSE
  /\ upc' = "closeDisable"
  /\ UNCHANGED <<hwVars, audVars, pcm, streamLock, card, irqVars, vpc, dpc>>

CloseDisable ==
  /\ upc = "closeDisable"
  /\ Disable
  /\ upc' = "close"
  /\ UNCHANGED <<irqBit, slotReg, master, count, stream, position, periods,
                 published, areas, settled, alsaVars, irqVars, vpc, dpc>>

Close ==
  /\ upc = "close" /\ hpc = "idle"
  /\ stream' = FALSE
  /\ pcm' = "closed"
  /\ upc' = "idle"
  /\ UNCHANGED <<hwVars, running, position, periods, published, areas, settled,
                 buffer, streamLock, card, irqVars, vpc, dpc>>

-----------------------------------------------------------------------------
(* gc573_capture_create(): gc573_audio_create() registers the card, from    *)
(* where on programs may use it ...                                         *)
Register ==
  /\ dpc = "create"
  /\ dpc' = "registered"
  /\ UNCHANGED <<hwVars, audVars, alsaVars, upc, irqVars, vpc>>

(* ... and c->audio is set once it has returned.                            *)
Publish ==
  /\ dpc = "registered"
  /\ published' = TRUE
  /\ dpc' = "live"
  /\ UNCHANGED <<hwVars, running, stream, position, periods, areas, settled,
                 alsaVars, upc, irqVars, vpc>>

(* gc573_capture_destroy(), once the last stream of video has stopped,      *)
(* detaches the handler and waits for it ...                                *)
Detach ==
  /\ dpc = "live" /\ vpc = "idle"
  /\ published' = FALSE
  /\ dpc' = "detach"
  /\ UNCHANGED <<hwVars, running, stream, position, periods, areas, settled,
                 alsaVars, upc, irqVars, vpc>>

(* ... gc573_audio_destroy() disconnects the card, which stops a running    *)
(* stream and refuses further operations but close ...                      *)
Disconnect ==
  /\ dpc = "detach" /\ hpc = "idle" /\ ~streamLock
  /\ card' = FALSE
  /\ IF pcm = "running" THEN Disable /\ pcm' = "disconnected"
     ELSE UNCHANGED <<running, enabled, unmasked, pcm>>
  /\ dpc' = "disable"
  /\ UNCHANGED <<irqBit, slotReg, master, count, stream, position, periods,
                 published, areas, settled, buffer, streamLock, upc, irqVars,
                 vpc>>

(* ... stops the engine, waits for the handler ...                          *)
DestroyDisable ==
  /\ dpc = "disable"
  /\ Disable
  /\ dpc' = "sync"
  /\ UNCHANGED <<irqBit, slotReg, master, count, stream, position, periods,
                 published, areas, settled, alsaVars, upc, irqVars, vpc>>

(* ... waits until the device is closed (snd_card_free()), clears bus       *)
(* mastering and frees the areas, or retains them if the drain failed.      *)
DestroyFree ==
  /\ dpc = "sync" /\ hpc = "idle"
  /\ pcm = "closed" /\ upc = "idle"
  /\ master' = FALSE
  /\ areas' \in {"freed", "retained"}
  /\ dpc' = "gone"
  /\ UNCHANGED <<enabled, unmasked, irqBit, slotReg, count, running, stream,
                 position, periods, published, settled, alsaVars, upc, irqVars, vpc>>

Gone == dpc = "gone" /\ UNCHANGED vars

-----------------------------------------------------------------------------
Irq ==
  \/ IrqUnpublished \/ IrqEnter \/ IrqAck \/ IrqCheck \/ IrqGuardOk
  \/ IrqGuardBad \/ IrqCopy \/ IrqElapsed \/ IrqXrun

(* The steps of an operation the user has begun.                            *)
Continue ==
  \/ PrepareSync \/ PrepareFails \/ Prepare \/ TriggerStopped \/ SyncStop
  \/ CloseDisable \/ Close

Destroy == Disconnect \/ DestroyDisable \/ DestroyFree

Next ==
  \/ HwPeriod \/ VideoStart \/ VideoStopCheck \/ VideoStopClear \/ Irq
  \/ Open \/ PrepareDisable \/ TriggerStart \/ TriggerStop \/ CloseBegin
  \/ Continue \/ Register \/ Publish \/ Detach \/ Destroy \/ Gone

Spec == Init /\ [][Next]_vars

(***************************************************************************)
(* Fairness: the handler runs to its end, an operation the user began and  *)
(* the removal keep being scheduled, and the user closes a disconnected    *)
(* device.  The guard of a step that waits for the handler to be idle may  *)
(* come and go with new interrupts: synchronize_irq() only waits for the   *)
(* handlers that run, which strong fairness of those steps expresses.      *)
(***************************************************************************)
FairSpec ==
  /\ Spec
  /\ WF_vars(Irq)
  /\ SF_vars(Continue) /\ SF_vars(Destroy)
  /\ SF_vars(~card /\ CloseBegin)

-----------------------------------------------------------------------------
(* Properties.                                                              *)

TypeOK ==
  /\ enabled \in BOOLEAN /\ unmasked \in BOOLEAN /\ irqBit \in BOOLEAN
  /\ slotReg \in 0 .. 2 /\ master \in BOOLEAN /\ count \in 0 .. MaxPeriods
  /\ running \in BOOLEAN /\ stream \in BOOLEAN /\ position \in 0 .. P - 1
  /\ periods \in Nat /\ published \in BOOLEAN
  /\ areas \in {"owned", "freed", "retained"}
  /\ pcm \in {"closed", "setup", "prepared", "running", "xrun", "disconnected"}
  /\ buffer \in BOOLEAN /\ streamLock \in BOOLEAN /\ card \in BOOLEAN
  /\ upc \in {"idle", "prepareSync", "prepare", "stop", "closeSync",
              "closeDisable", "close"}
  /\ hpc \in {"idle", "ack", "check", "guard", "copy", "elapsed", "xrun"}
  /\ hslot \in 0 .. 2 /\ hposition \in 0 .. P - 1
  /\ settled \in BOOLEAN /\ vpc \in {"idle", "clear"}
  /\ dpc \in {"create", "registered", "live", "detach", "disable", "sync", "gone"}

(* The handler copies only into a buffer the ALSA core has not freed and    *)
(* from areas the driver has not freed, whatever close, prepare or a        *)
(* removal does meanwhile.                                                  *)
CopyIsSafe == hpc = "copy" => buffer /\ stream /\ areas = "owned"

(* The pointer the user sees tells how many periods were delivered since    *)
(* prepare, and they are the periods the FPGA completed since, but for at   *)
(* most one: a handler that a video interrupt entered on a stale bit 5      *)
(* before the trigger acknowledged it checks running afterwards.  Periods   *)
(* completed while the bit is still set are lost, never counted twice.      *)
PositionCounts == position = periods % P /\ periods <= count + 1

(* "Stopping video preserves an active audio engine": bus mastering stays   *)
(* on while audio DMA runs, whatever streams of video start and stop, if    *)
(* the engine was started with c->audio set and no earlier stop of video on *)
(* its way to clear bus mastering.  So the starts that can lose it are      *)
(* those between snd_card_register() and the store of c->audio, or before   *)
(* the end of a stop that read c->audio before that store; until then the   *)
(* sentence is not true of the code.                                        *)
AudioKeepsMaster == running /\ settled => master

(* The handler, which takes the stream lock in snd_pcm_period_elapsed(),    *)
(* the closing user, who waits for the handler, and the removal, which      *)
(* waits for both, never block each other for good.                         *)
AudioTerminates ==
  /\ (upc # "idle") ~> (upc = "idle")
  /\ (dpc = "detach") ~> (dpc = "gone")
=============================================================================
