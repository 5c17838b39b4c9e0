---------------------------- MODULE HdmiControl ----------------------------
(***************************************************************************)
(* The HDMI side of the running driver: the background work of             *)
(* driver/gc573_pci.c that brings the receiver chain up and watches it,    *)
(* and what shares the control bus or the FPGA's input packing with it:    *)
(* ALSA's prepare, the capture worker's reset of the video engine, probe   *)
(* and remove.                                                             *)
(*                                                                         *)
(* A mode is a choice of module parameters: "plain" (the receiver was set  *)
(* up beforehand), "startup" (hdmi_start_phase), "passthrough"             *)
(* (passthrough_only), "scaled" (scaled_capture) or "experimental"         *)
(* (scaled_capture with experimental_144hz, perhaps with hdmi_start_phase).*)
(***************************************************************************)
EXTENDS Naturals, FiniteSets

CONSTANTS
  Parameters,  \* the modes to look at
  Sources,     \* source modes <<timing, rate>>, rate in Hz
  Dual         \* timings that the receiver carries on its dual interface

FirstPhase == 6
DonePhase  == 19

ASSUME ControlAssumption ==
  /\ Parameters \subseteq {"plain", "startup", "passthrough", "scaled", "experimental"}
  /\ \A source \in Sources : source[2] \in Nat

VARIABLES
  mode,     \* the module parameters
  calm,     \* transactions do not fail and phases need not wait any more
  midSetup, \* history: the source changed while the receiver was set up
  src,      \* the HDMI source, or NoSource
  probed,   \* where probe stands: "create", "register", "schedule", "done"
  removing, \* where remove stands: "no", "cancel", "destroy", "restore", "gone"
  work,     \* card->hdmi_work: "off", "queued", or the step it is at
  control,  \* holder of card->control_mutex
  ready,    \* card->hdmi_ready
  hphase,   \* card->hdmi.phase
  error,    \* card->combined_error, external.error or hdmi.error
  ext,      \* card->external: previous snapshot, stable, configured, changes
            \* not yet seen by combined_poll
  phase,    \* card->combined_phase
  rx,       \* timing the receiver was configured for (h->receiver_video)
  period,   \* card->combined_period, as a rate
  packing,  \* registers 0x1040 bit 5 and 0x1088: "single" or "dual"
  saved,    \* packing that cap_reset() saved, "single" outside it
  lost,     \* history: a reset did not complete and took the packing with it
  cap,      \* the capture engine and who drives it
  audio     \* aud_prepare(): "idle", "locked" or "bus"

link == <<ext, phase, rx, period>>
fpga == <<packing, saved, lost>>
env  == <<mode, calm, midSetup, src>>
vars == <<env, probed, removing, work, control, ready, hphase, error, link,
          fpga, cap, audio>>

NoSource == <<"none", 0>>
Scaled   == mode \in {"scaled", "experimental"}
Interface(timing) == IF timing \in Dual THEN "dual" ELSE "single"

(* The capture video register bit 0 or a DMA slot in 0x304 is set.          *)
VideoBusy == cap \in {"dma", "stopping"}

(* probe up to gc573_capture_create().                                      *)
Init ==
  /\ mode \in Parameters
  /\ calm = FALSE /\ midSetup = FALSE
  /\ src \in Sources \cup {NoSource}
  /\ probed = "create" /\ removing = "no"
  /\ work = "off" /\ control = "free"
  /\ ready = (mode = "plain")
  /\ hphase \in CASE mode = "startup"      -> FirstPhase .. DonePhase - 1
                   [] mode = "experimental" -> {0, FirstPhase}
                   [] OTHER                 -> {0}
  /\ error = FALSE
  /\ ext = [prev |-> "none", stable |-> FALSE, configured |-> FALSE, changed |-> FALSE]
  /\ phase = 0 /\ rx = "none" /\ period = 0
  /\ packing = "single" /\ saved = "single" /\ lost = FALSE
  /\ cap = "idle" /\ audio = "idle"

(* External: the source changes its mode, goes or comes.                    *)
SourceChange ==
  /\ src' \in (Sources \cup {NoSource}) \ {src}
  /\ midSetup' = (midSetup \/ work = "phase" \/ phase = 2)
  /\ UNCHANGED <<mode, calm, probed, removing, work, control, ready, hphase,
                 error, link, fpga, cap, audio>>

(* External: the hardware settles.                                          *)
Settle ==
  /\ ~calm
  /\ calm' = TRUE
  /\ UNCHANGED <<mode, midSetup, src, probed, removing, work, control, ready,
                 hphase, error, link, fpga, cap, audio>>
-----------------------------------------------------------------------------
(* gc573_capture_create() reads the audio status over the bus if ready,     *)
(* then registers V4L2 and ALSA; probe schedules the work last.             *)
CreateCapture ==
  /\ probed = "create"
  /\ probed' = "register"
  /\ UNCHANGED <<env, removing, work, control, ready, hphase, error, link,
                 fpga, cap, audio>>

Register ==
  /\ probed = "register"
  /\ probed' = "schedule"
  /\ UNCHANGED <<env, removing, work, control, ready, hphase, error, link,
                 fpga, cap, audio>>

Schedule ==
  /\ probed = "schedule"
  /\ probed' = "done"
  /\ work' = IF mode = "plain" THEN "off" ELSE "queued"
  /\ UNCHANGED <<env, removing, control, ready, hphase, error, link, fpga, cap, audio>>
-----------------------------------------------------------------------------
(* gc573_hdmi_work() starts.  Only the scaled modes take the control mutex. *)
(* A capture worker that has just checked the input arms within the half    *)
(* second between two runs of the work (ArmIsPrompt).                       *)
ArmIsPrompt == cap # "armed"

WorkRun ==
  /\ work = "queued" /\ ArmIsPrompt
  /\ \/ /\ Scaled /\ control = "free"
        /\ control' = "work"
        /\ work' = IF mode = "scaled" THEN "ext"
                   ELSE IF hphase \in FirstPhase .. 13 THEN "start" ELSE "phase"
     \/ /\ ~Scaled
        /\ work' = IF mode = "passthrough" THEN "ext" ELSE "start"
        /\ UNCHANGED control
  /\ UNCHANGED <<env, probed, removing, ready, hphase, error, link, fpga, cap, audio>>

(* The work ends: unlock, and schedule_delayed_work() unless an error       *)
(* stopped it for good or it is being cancelled.                            *)
WorkEnds(again) ==
  /\ work' = IF again /\ removing = "no" THEN "queued" ELSE "off"
  /\ control' = IF control = "work" THEN "free" ELSE control

(***************************************************************************)
(* gc573_hdmi_poll() runs one phase: it passes, has to wait (-EAGAIN) or   *)
(* fails.  After the last phase of a startup the work publishes readiness  *)
(* and never runs again.                                                   *)
(***************************************************************************)
StartupPoll ==
  /\ work = "start" /\ mode = "startup"
  /\ \/ /\ hphase' = hphase + 1
        /\ ready' = (hphase' = DonePhase)
        /\ WorkEnds(hphase' # DonePhase)
        /\ UNCHANGED error
     \/ /\ WorkEnds(TRUE)
        /\ UNCHANGED <<hphase, ready, error>>
     \/ /\ error' = TRUE
        /\ WorkEnds(FALSE)
        /\ UNCHANGED <<hphase, ready>>
  /\ UNCHANGED <<env, probed, removing, link, fpga, cap, audio>>

(* gc573_hdmi_prepare_capture(): the cold phases up to 13; then the same    *)
(* run goes on to gc573_combined_poll().                                    *)
PreparePoll ==
  /\ work = "start" /\ mode = "experimental"
  /\ \/ /\ hphase' = hphase + 1
        /\ IF hphase' = 14 THEN work' = "phase" /\ UNCHANGED control ELSE WorkEnds(TRUE)
        /\ UNCHANGED error
     \/ /\ ~calm
        /\ WorkEnds(TRUE)
        /\ UNCHANGED <<hphase, error>>
     \/ /\ ~calm
        /\ error' = TRUE
        /\ WorkEnds(FALSE)
        /\ UNCHANGED hphase
  /\ UNCHANGED <<env, probed, removing, ready, link, fpga, cap, audio>>
-----------------------------------------------------------------------------
(* An error in the scaled modes: not ready any more, and no further run.    *)
CombinedFails ==
  /\ ~calm
  /\ ready' = FALSE
  /\ error' = TRUE
  /\ WorkEnds(FALSE)

(***************************************************************************)
(* What gc573_passthrough_poll() makes of the source: the phases before    *)
(* the first snapshot are not through, there is no source, the snapshot    *)
(* differs from the previous one, or it is stable and the output is        *)
(* configured for it (p->changes counts that), unless that has to wait or  *)
(* rejects the format.  "stable" is p->stable && !p->format_rejected.      *)
(***************************************************************************)
Snapshots ==
  IF src = NoSource
  THEN {[ext EXCEPT !.stable = FALSE, !.configured = FALSE]}
  ELSE IF src[1] # ext.prev
  THEN {[ext EXCEPT !.prev = src[1], !.stable = FALSE, !.configured = FALSE]}
         \cup {e \in {ext} : ~calm /\ ext.prev = "none"}
  ELSE IF ext.configured
  THEN {[ext EXCEPT !.stable = TRUE, !.configured = c] : c \in {TRUE, calm}}
  ELSE {[ext EXCEPT !.stable = TRUE, !.configured = TRUE, !.changed = TRUE]}
         \cup {[ext EXCEPT !.stable = st] : st \in IF ~calm THEN BOOLEAN ELSE {}}

ExternalPoll ==
  /\ work = "ext"
  /\ \/ \E e \in Snapshots :
          LET restart == ~e.stable \/ e.changed IN
          /\ ext' = [e EXCEPT !.changed = FALSE]
          /\ IF mode = "scaled" /\ restart
             THEN ready' = FALSE /\ phase' = 0 ELSE UNCHANGED <<ready, phase>>
          /\ IF mode = "scaled" /\ e.stable
             THEN work' = "phase" /\ UNCHANGED control ELSE WorkEnds(TRUE)
          /\ UNCHANGED error
     \/ /\ CombinedFails
        /\ UNCHANGED <<ext, phase>>
  /\ UNCHANGED <<env, probed, removing, hphase, rx, period, fpga,
                 cap, audio>>

(* Phase 0 of gc573_combined_poll(): the internal transmitter.              *)
PhaseSplitter ==
  /\ work = "phase" /\ phase = 0
  /\ \/ /\ src # NoSource
        /\ phase' = 1
        /\ WorkEnds(TRUE)
        /\ UNCHANGED <<ready, error>>
     \/ /\ src = NoSource \/ ~calm
        /\ WorkEnds(TRUE)
        /\ UNCHANGED <<ready, error, phase>>
     \/ CombinedFails /\ UNCHANGED phase
  /\ UNCHANGED <<env, probed, removing, hphase, ext, rx, period, fpga,
                 cap, audio>>

(* Phase 1: the receiver is set to the interface of the source's timing.    *)
PhaseReceiver ==
  /\ work = "phase" /\ phase = 1
  /\ \/ /\ src # NoSource
        /\ phase' = 2 /\ rx' = src[1]
        /\ WorkEnds(TRUE)
        /\ UNCHANGED <<ready, error>>
     \/ /\ src = NoSource \/ ~calm
        /\ WorkEnds(TRUE)
        /\ UNCHANGED <<ready, error, phase, rx>>
     \/ CombinedFails /\ UNCHANGED <<phase, rx>>
  /\ UNCHANGED <<env, probed, removing, hphase, ext, period, fpga,
                 cap, audio>>

(* What the FPGA's timing counters show agrees with the receiver's mode.    *)
FpgaAgrees == src # NoSource /\ src[1] = rx /\ packing = Interface(rx)

\* mutant: the packing changes although a transfer may be running
PhasePackingBusy ==
  /\ work = "phase" /\ phase = 2
  /\ \/ /\ packing # Interface(rx)
        /\ packing' = Interface(rx) /\ lost' = FALSE
        /\ UNCHANGED <<phase, period, ready>>
     \/ /\ FpgaAgrees
        /\ phase' = 3 /\ period' = src[2] /\ ready' = TRUE
        /\ UNCHANGED <<packing, lost>>
  /\ WorkEnds(TRUE)
  /\ UNCHANGED <<env, probed, removing, hphase, error, ext, rx, saved, cap, audio>>

(* Phase 2: the FPGA's packing follows the receiver once no transfer runs,  *)
(* which fails if the registers do not read back; in a later run, ready if  *)
(* the FPGA then sees the receiver's mode.                                  *)
PhasePacking ==
  /\ work = "phase" /\ phase = 2
  /\ \/ /\ ~VideoBusy /\ packing # Interface(rx)
        /\ packing' = Interface(rx) /\ lost' = FALSE
        /\ WorkEnds(TRUE)
        /\ UNCHANGED <<phase, period, ready, error>>
     \/ /\ ~VideoBusy /\ packing # Interface(rx)
        /\ CombinedFails
        /\ UNCHANGED <<phase, period, packing, lost>>
     \/ /\ ~VideoBusy /\ FpgaAgrees
        /\ phase' = 3 /\ period' = src[2] /\ ready' = TRUE
        /\ WorkEnds(TRUE)
        /\ UNCHANGED <<error, packing, lost>>
     \/ /\ VideoBusy \/ (packing = Interface(rx) /\ ~FpgaAgrees)
        /\ WorkEnds(TRUE)
        /\ UNCHANGED <<phase, period, ready, error, packing, lost>>
  /\ UNCHANGED <<env, probed, removing, hphase, ext, rx, saved, cap, audio>>

\* mutant: a change of rate alone goes unseen
PhaseWatchTiming ==
  /\ work = "phase" /\ phase = 3
  /\ IF FpgaAgrees THEN UNCHANGED <<ready, phase>> ELSE ready' = FALSE /\ phase' = 0
  /\ WorkEnds(TRUE)
  /\ UNCHANGED <<env, probed, removing, hphase, error, ext, rx, period, fpga, cap, audio>>

(* Phase 3: the mode is watched; a rate further than a tenth from the       *)
(* recorded one counts as another mode.                                     *)
PhaseWatch ==
  /\ work = "phase" /\ phase = 3
  /\ IF FpgaAgrees /\ 10 * src[2] < 11 * period /\ 10 * src[2] > 9 * period
     THEN UNCHANGED <<ready, phase>> ELSE ready' = FALSE /\ phase' = 0
  /\ WorkEnds(TRUE)
  /\ UNCHANGED <<env, probed, removing, hphase, error, ext, rx, period, fpga, cap, audio>>
-----------------------------------------------------------------------------
(* V4L2 and ALSA are open to programs from their registration until remove  *)
(* takes them away.                                                         *)
Registered == probed \in {"schedule", "done"} /\ removing \in {"no", "cancel"}

(* cap_input_matches() passes; cap_arm() then starts DMA.                   *)
CapMatch ==
  /\ cap = "idle" /\ Registered
  /\ ready /\ src # NoSource /\ packing = Interface(src[1])
  /\ cap' = "armed"
  /\ UNCHANGED <<env, probed, removing, work, control, ready, hphase, error,
                 link, fpga, audio>>

CapArm ==
  /\ cap = "armed"
  /\ cap' = "dma"
  /\ UNCHANGED <<env, probed, removing, work, control, ready, hphase, error,
                 link, fpga, audio>>

(* cap_stop(): video off, then the slots, then the reset of the engine.     *)
StopVideo ==
  /\ cap = "dma"
  /\ cap' = "stopping"
  /\ UNCHANGED <<env, probed, removing, work, control, ready, hphase, error,
                 link, fpga, audio>>

StopSlots ==
  /\ cap = "stopping"
  /\ cap' = "stopped"
  /\ UNCHANGED <<env, probed, removing, work, control, ready, hphase, error,
                 link, fpga, audio>>

\* mutant: cap_reset() without the control mutex
ResetBeginUnlocked ==
  /\ cap = "stopped"
  /\ cap' = "reset"
  /\ saved' = packing
  /\ packing' = "single"
  /\ UNCHANGED <<env, probed, removing, work, control, ready, hphase, error,
                 link, lost, audio>>

(* cap_reset(): the reset clears the packing, which is saved before and     *)
(* written back after, or not at all if the reset does not complete.        *)
ResetBegin ==
  /\ cap = "stopped" /\ control = "free"
  /\ control' = "capture"
  /\ cap' = "reset"
  /\ saved' = packing
  /\ packing' = "single"
  /\ UNCHANGED <<env, probed, removing, work, ready, hphase, error, link, lost,
                 audio>>

ResetEnd ==
  /\ cap = "reset"
  /\ control' = IF control = "capture" THEN "free" ELSE control
  /\ cap' = "idle" /\ saved' = "single"
  /\ \/ packing' = saved /\ UNCHANGED lost
     \/ ~calm /\ lost' = TRUE /\ UNCHANGED packing
  /\ UNCHANGED <<env, probed, removing, work, ready, hphase, error, link, audio>>
-----------------------------------------------------------------------------
\* mutant: aud_prepare() without the control mutex
PrepareLockFree ==
  /\ audio = "idle" /\ Registered
  /\ audio' = "locked"
  /\ UNCHANGED <<env, probed, removing, work, control, ready, hphase, error, link,
                 fpga, cap>>

(* aud_prepare() around its use of the bus.                                 *)
PrepareLock ==
  /\ audio = "idle" /\ Registered /\ control = "free"
  /\ control' = "audio"
  /\ audio' = "locked"
  /\ UNCHANGED <<env, probed, removing, work, ready, hphase, error, link,
                 fpga, cap>>

PrepareSignal ==
  /\ audio = "locked" /\ ready
  /\ audio' = "bus"
  /\ UNCHANGED <<env, probed, removing, work, control, ready, hphase, error,
                 link, fpga, cap>>

\* mutant: the return of an unready receiver keeps the mutex
PrepareUnlockLeaks ==
  /\ audio = "bus" \/ (audio = "locked" /\ ~ready)
  /\ audio' = "idle"
  /\ control' = IF audio = "bus" THEN "free" ELSE control
  /\ UNCHANGED <<env, probed, removing, work, ready, hphase, error, link,
                 fpga, cap>>

PrepareUnlock ==
  /\ audio = "bus" \/ (audio = "locked" /\ ~ready)
  /\ audio' = "idle"
  /\ control' = "free"
  /\ UNCHANGED <<env, probed, removing, work, ready, hphase, error, link,
                 fpga, cap>>
-----------------------------------------------------------------------------
(* gc573_remove(): the work is cancelled and waited for, readiness is       *)
(* withdrawn, V4L2 and ALSA go, then the source's EDID is restored over the *)
(* bus and the registers are unmapped.                                      *)
Remove ==
  /\ removing = "no" /\ probed = "done"
  /\ removing' = "cancel"
  /\ work' = IF work = "queued" THEN "off" ELSE work
  /\ UNCHANGED <<env, probed, control, ready, hphase, error, link, fpga, cap, audio>>

Cancelled ==
  /\ removing = "cancel" /\ work = "off"
  /\ removing' = "destroy"
  /\ ready' = FALSE
  /\ UNCHANGED <<env, probed, work, control, hphase, error, link, fpga, cap, audio>>

Destroyed ==
  /\ removing = "destroy" /\ cap = "idle" /\ audio = "idle" /\ control = "free"
  /\ \/ /\ mode \in {"passthrough", "scaled"} \* and external.prior_valid
        /\ removing' = "restore" /\ control' = "remove"
     \/ /\ removing' = "gone"
        /\ UNCHANGED control
  /\ UNCHANGED <<env, probed, work, ready, hphase, error, link, fpga,
                 cap, audio>>

Restored ==
  /\ removing = "restore"
  /\ removing' = "gone" /\ control' = "free"
  /\ UNCHANGED <<env, probed, work, ready, hphase, error, link, fpga,
                 cap, audio>>
-----------------------------------------------------------------------------
Probe   == CreateCapture \/ Register \/ Schedule
Work    == WorkRun \/ StartupPoll \/ PreparePoll \/ ExternalPoll
             \/ PhaseSplitter \/ PhaseReceiver \/ PhasePacking \/ PhaseWatch
Capture == CapArm \/ StopSlots \/ ResetBegin \/ ResetEnd
Audio   == PrepareSignal \/ PrepareUnlock
Removal == Cancelled \/ Destroyed \/ Restored

Next == SourceChange \/ Settle \/ Probe \/ Work \/ CapMatch \/ StopVideo \/ Capture
          \/ PrepareLock \/ Audio \/ Remove \/ Removal

Spec == Init /\ [][Next]_vars

(***************************************************************************)
(* The work queue and the capture worker run, the control mutex is granted *)
(* to a waiter some time, a capture whose input no longer matches is       *)
(* stopped, and an ALSA prepare returns.  Sources and programs owe         *)
(* nothing.                                                                *)
(***************************************************************************)
InputGone == ~(ready /\ src # NoSource /\ packing = Interface(src[1]))

FairSpec ==
  /\ Spec
  /\ WF_vars(Probe) /\ SF_vars(WorkRun) /\ WF_vars(Work)
  /\ SF_vars(ResetBegin) /\ WF_vars(Capture)
  /\ WF_vars((InputGone \/ removing # "no") /\ StopVideo)
  /\ WF_vars(Audio) /\ SF_vars(Destroyed) /\ WF_vars(Removal)
-----------------------------------------------------------------------------
TypeOK ==
  /\ mode \in Parameters /\ calm \in BOOLEAN /\ midSetup \in BOOLEAN
  /\ src \in Sources \cup {NoSource}
  /\ probed \in {"create", "register", "schedule", "done"}
  /\ removing \in {"no", "cancel", "destroy", "restore", "gone"}
  /\ work \in {"off", "queued", "start", "ext", "phase"}
  /\ control \in {"free", "work", "capture", "audio", "remove"}
  /\ ready \in BOOLEAN /\ error \in BOOLEAN
  /\ hphase \in {0} \cup FirstPhase .. DonePhase
  /\ phase \in 0 .. 3
  /\ packing \in {"single", "dual"} /\ saved \in {"single", "dual"}
  /\ lost \in BOOLEAN
  /\ cap \in {"idle", "armed", "dma", "stopping", "stopped", "reset"}
  /\ audio \in {"idle", "locked", "bus"}

(* The parties that have a transaction on the control bus under way.        *)
BusUsers ==
  {u \in {"probe", "work", "audio", "remove"} :
     CASE u = "probe"  -> probed = "create" /\ ready
       [] u = "work"   -> work \in {"start", "ext", "phase"}
       [] u = "audio"  -> audio = "bus"
       [] u = "remove" -> removing = "restore"}

(***************************************************************************)
(* The control bus has one user at a time, in every mode: in the scaled    *)
(* modes because of the control mutex, in the startup modes because ALSA   *)
(* stays off the bus until the work has published readiness and ended.     *)
(***************************************************************************)
BusExclusive == Cardinality(BusUsers) <= 1

(***************************************************************************)
(* In the scaled modes readiness means that the receiver was set up and    *)
(* the FPGA's packing is that of the receiver's interface; only a reset    *)
(* that is under way or did not complete takes the packing away.           *)
(***************************************************************************)
ReadyMeansConfigured ==
  Scaled /\ ready =>
    phase = 3 /\ (packing = Interface(rx) \/ cap = "reset" \/ lost)

(***************************************************************************)
(* The packing never changes from the check before a transfer until the    *)
(* slots are taken from the device: no frame is sampled half in one and    *)
(* half in another format.                                                 *)
(***************************************************************************)
PackingSteady ==
  [][packing' # packing => cap \in {"idle", "stopped", "reset"}]_vars

Captured(s) == ready /\ rx = s[1] /\ period = s[2]

(* The source stays in one mode, and no failure has stopped the work.       *)
Settled(s) ==
  Scaled /\ calm /\ src = s /\ removing = "no" /\ ~error

(***************************************************************************)
(* In the scaled modes a source that stays in one mode is captured in the  *)
(* end: readiness comes, for that mode, whatever modes, failures and waits *)
(* went before, provided that no mode before changed inside the set-up.    *)
(***************************************************************************)
SourceIsCaptured ==
  \A s \in Sources : []<>(midSetup \/ ~Settled(s)) \/ <>[]Captured(s)

(* The same whenever the modes before changed.                              *)
AnySourceIsCaptured ==
  \A s \in Sources : []<>~Settled(s) \/ <>[]Captured(s)

(* Removing the driver ends, although programs may hold the devices busy.   *)
RemoveTerminates == removing = "cancel" ~> removing = "gone"
=============================================================================
