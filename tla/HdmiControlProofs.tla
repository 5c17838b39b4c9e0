--------------------------- MODULE HdmiControlProofs ---------------------------
(***************************************************************************)
(* Proofs about HdmiControl for every choice of module parameters, sources *)
(* and dual-interface timings.                                             *)
(***************************************************************************)
EXTENDS HdmiControl, Integers, FiniteSetTheorems, TLAPS

(* The work is inside a run.                                                *)
Steps == {"start", "ext", "phase"}

(* What the life of the driver keeps out: the work runs between the end of  *)
(* probe and its cancellation, programs between registration and removal.   *)
LifeInv ==
  /\ removing # "no" => probed = "done"
  /\ probed # "done" => work = "off"
  /\ probed \in {"create", "register"} => audio = "idle" /\ cap = "idle"
  /\ removing \in {"destroy", "restore", "gone"} => work = "off" /\ ~ready
  /\ removing \in {"restore", "gone"} => audio = "idle"

(* Who holds the control mutex.  Only the scaled modes run the work under   *)
(* it.                                                                      *)
MutexInv ==
  /\ control = "work" <=> Scaled /\ work \in Steps
  /\ control = "audio" <=> audio # "idle"
  /\ control = "capture" <=> cap = "reset"
  /\ control = "remove" <=> removing = "restore"

(* What replaces the mutex in the other modes: readiness comes, if at all,  *)
(* when the work has ended; and the phases a startup still runs.            *)
ReadyInv ==
  /\ mode = "plain" => work = "off"
  /\ mode = "passthrough" => ~ready /\ audio # "bus"
  /\ mode = "startup" /\ (ready \/ audio = "bus") => work = "off" /\ probed = "done"
  /\ work \in {"ext", "phase"} => mode # "startup"
  /\ work = "start" => mode \in {"startup", "experimental"}
  /\ work = "phase" => Scaled
  /\ mode = "startup" /\ (work # "off" \/ probed # "done") => hphase \in FirstPhase .. DonePhase - 1
  /\ mode = "experimental" /\ work = "start" => hphase \in FirstPhase .. 13

(* Readiness in the scaled modes, seen through a reset of the engine, which *)
(* has the packing saved; and a capture about to arm, which matched a ready *)
(* input, outlives at most the run of the work it began in.                 *)
ConfigInv ==
  Scaled =>
    /\ ready => /\ phase = 3
                /\ lost \/ Interface(rx) = IF cap = "reset" THEN saved ELSE packing
    /\ cap = "armed" /\ work \in Steps => phase # 2

ControlInv == TypeOK /\ LifeInv /\ MutexInv /\ ReadyInv /\ ConfigInv

(* Initially the driver creates the card and nothing runs.                  *)
LEMMA InitEstablishes == Init => ControlInv
<1> SUFFICES ASSUME Init PROVE ControlInv
  OBVIOUS
<1> USE DEF Init
<1>0. mode \in {"plain", "startup", "passthrough", "scaled", "experimental"}
  BY ControlAssumption DEF ControlAssumption
<1>1. TypeOK
  <2>1. calm \in BOOLEAN /\ midSetup \in BOOLEAN /\ error \in BOOLEAN /\ lost \in BOOLEAN
    BY Zenon
  <2>2. ready \in BOOLEAN
    BY Zenon
  <2>3. hphase \in {0} \cup FirstPhase .. DonePhase
    BY <1>0 DEF FirstPhase, DonePhase
  <2> QED BY <2>1, <2>2, <2>3 DEF TypeOK
<1>2. LifeInv /\ MutexInv
  BY DEF LifeInv, MutexInv, Steps
<1>3. ReadyInv /\ ConfigInv
  BY <1>0 DEF FirstPhase, DonePhase, ReadyInv, ConfigInv, Scaled
<1> QED BY <1>1, <1>2, <1>3 DEF ControlInv

(* The modes there are.                                                     *)
LEMMA Modes ==
  ASSUME TypeOK
  PROVE  mode \in {"plain", "startup", "passthrough", "scaled", "experimental"}
  BY ControlAssumption DEF ControlAssumption, TypeOK

(* SourceChange keeps the invariant.                                        *)
LEMMA SourceChangeKeeps == ControlInv /\ SourceChange => ControlInv'
<1> SUFFICES ASSUME ControlInv, SourceChange PROVE ControlInv'
  OBVIOUS
<1> USE DEF ControlInv, SourceChange, link, fpga
<1>1. TypeOK'
  <2>1. midSetup' \in BOOLEAN
    BY Zenon DEF TypeOK
  <2> QED BY <2>1 DEF TypeOK
<1>2. LifeInv'
  BY DEF TypeOK, LifeInv, MutexInv, ReadyInv, Steps
<1>3. MutexInv'
  BY DEF TypeOK, LifeInv, MutexInv, ReadyInv, Steps, Scaled
<1>4. ReadyInv'
  BY DEF TypeOK, LifeInv, MutexInv, ReadyInv, Steps, Scaled
<1>5. ConfigInv'
  BY DEF TypeOK, LifeInv, MutexInv, ReadyInv, ConfigInv, Steps, Scaled
<1> QED BY <1>1, <1>2, <1>3, <1>4, <1>5

(* Settle keeps the invariant.                                              *)
LEMMA SettleKeeps == ControlInv /\ Settle => ControlInv'
<1> SUFFICES ASSUME ControlInv, Settle PROVE ControlInv'
  OBVIOUS
<1> USE DEF ControlInv, Settle, link, fpga
<1>1. TypeOK'
  <2>1. calm' \in BOOLEAN
    BY Zenon DEF TypeOK
  <2> QED BY <2>1 DEF TypeOK
<1>2. LifeInv'
  BY DEF TypeOK, LifeInv, MutexInv, ReadyInv, Steps
<1>3. MutexInv'
  BY DEF TypeOK, LifeInv, MutexInv, ReadyInv, Steps, Scaled
<1>4. ReadyInv'
  BY DEF TypeOK, LifeInv, MutexInv, ReadyInv, Steps, Scaled
<1>5. ConfigInv'
  BY DEF TypeOK, LifeInv, MutexInv, ReadyInv, ConfigInv, Steps, Scaled
<1> QED BY <1>1, <1>2, <1>3, <1>4, <1>5

(* CreateCapture keeps the invariant.                                       *)
LEMMA CreateCaptureKeeps == ControlInv /\ CreateCapture => ControlInv'
<1> SUFFICES ASSUME ControlInv, CreateCapture PROVE ControlInv'
  OBVIOUS
<1> USE DEF ControlInv, CreateCapture, env, link, fpga
<1>1. TypeOK'
  BY DEF TypeOK
<1>2. LifeInv'
  BY DEF TypeOK, LifeInv, MutexInv, ReadyInv, Steps
<1>3. MutexInv'
  BY DEF TypeOK, LifeInv, MutexInv, ReadyInv, Steps, Scaled
<1>4. ReadyInv'
  BY DEF TypeOK, LifeInv, MutexInv, ReadyInv, Steps, Scaled
<1>5. ConfigInv'
  BY DEF TypeOK, LifeInv, MutexInv, ReadyInv, ConfigInv, Steps, Scaled
<1> QED BY <1>1, <1>2, <1>3, <1>4, <1>5

(* Register keeps the invariant.                                            *)
LEMMA RegisterKeeps == ControlInv /\ Register => ControlInv'
<1> SUFFICES ASSUME ControlInv, Register PROVE ControlInv'
  OBVIOUS
<1> USE DEF ControlInv, Register, env, link, fpga
<1>1. TypeOK'
  BY DEF TypeOK
<1>2. LifeInv'
  BY DEF TypeOK, LifeInv, MutexInv, ReadyInv, Steps
<1>3. MutexInv'
  BY DEF TypeOK, LifeInv, MutexInv, ReadyInv, Steps, Scaled
<1>4. ReadyInv'
  BY DEF TypeOK, LifeInv, MutexInv, ReadyInv, Steps, Scaled
<1>5. ConfigInv'
  BY DEF TypeOK, LifeInv, MutexInv, ReadyInv, ConfigInv, Steps, Scaled
<1> QED BY <1>1, <1>2, <1>3, <1>4, <1>5

(* Schedule keeps the invariant.                                            *)
LEMMA ScheduleKeeps == ControlInv /\ Schedule => ControlInv'
<1> SUFFICES ASSUME ControlInv, Schedule PROVE ControlInv'
  OBVIOUS
<1> USE DEF ControlInv, Schedule, env, link, fpga
<1>1. TypeOK'
  BY DEF TypeOK
<1>2. LifeInv'
  BY DEF TypeOK, LifeInv, MutexInv, ReadyInv, Steps
<1>3. MutexInv'
  BY DEF TypeOK, LifeInv, MutexInv, ReadyInv, Steps, Scaled
<1>4. ReadyInv'
  BY DEF TypeOK, LifeInv, MutexInv, ReadyInv, Steps, Scaled
<1>5. ConfigInv'
  BY DEF TypeOK, LifeInv, MutexInv, ReadyInv, ConfigInv, Steps, Scaled
<1> QED BY <1>1, <1>2, <1>3, <1>4, <1>5

(* WorkRun keeps the invariant.                                             *)
LEMMA WorkRunKeeps == ControlInv /\ WorkRun => ControlInv'
<1> SUFFICES ASSUME ControlInv, WorkRun PROVE ControlInv'
  OBVIOUS
<1> USE DEF ControlInv, WorkRun, env, link, fpga, ArmIsPrompt
<1>1. TypeOK'
  BY DEF TypeOK
<1>2. LifeInv'
  BY DEF TypeOK, LifeInv, MutexInv, ReadyInv, Steps
<1>3. MutexInv'
  BY DEF TypeOK, LifeInv, MutexInv, ReadyInv, Steps, Scaled
<1>4. ReadyInv'
  BY Modes DEF TypeOK, LifeInv, MutexInv, ReadyInv, Steps, Scaled, FirstPhase, DonePhase
<1>5. ConfigInv'
  BY DEF TypeOK, LifeInv, MutexInv, ReadyInv, ConfigInv, Steps, Scaled
<1> QED BY <1>1, <1>2, <1>3, <1>4, <1>5

(* StartupPoll keeps the invariant.                                         *)
LEMMA StartupPollKeeps == ControlInv /\ StartupPoll => ControlInv'
<1> SUFFICES ASSUME ControlInv, StartupPoll PROVE ControlInv'
  OBVIOUS
<1> USE DEF ControlInv, StartupPoll, env, link, fpga, WorkEnds
<1>1. TypeOK'
  <2>1. ready' \in BOOLEAN /\ error' \in BOOLEAN
    BY Zenon DEF TypeOK
  <2> QED BY <2>1 DEF TypeOK, ReadyInv, FirstPhase, DonePhase
<1>2. LifeInv'
  BY DEF TypeOK, LifeInv, MutexInv, ReadyInv, Steps
<1>3. MutexInv'
  BY DEF TypeOK, LifeInv, MutexInv, ReadyInv, Steps, Scaled
<1>4. ReadyInv'
  BY DEF TypeOK, LifeInv, MutexInv, ReadyInv, Steps, Scaled, FirstPhase, DonePhase
<1>5. ConfigInv'
  BY DEF TypeOK, LifeInv, MutexInv, ReadyInv, ConfigInv, Steps, Scaled
<1> QED BY <1>1, <1>2, <1>3, <1>4, <1>5

(* PreparePoll keeps the invariant.                                         *)
LEMMA PreparePollKeeps == ControlInv /\ PreparePoll => ControlInv'
<1> SUFFICES ASSUME ControlInv, PreparePoll PROVE ControlInv'
  OBVIOUS
<1> USE DEF ControlInv, PreparePoll, env, link, fpga, WorkEnds
<1>1. TypeOK'
  <2>1. error' \in BOOLEAN
    BY Zenon DEF TypeOK
  <2> QED BY <2>1 DEF TypeOK, ReadyInv, FirstPhase, DonePhase
<1>2. LifeInv'
  BY DEF TypeOK, LifeInv, MutexInv, ReadyInv, Steps
<1>3. MutexInv'
  BY DEF TypeOK, LifeInv, MutexInv, ReadyInv, Steps, Scaled
<1>4. ReadyInv'
  BY DEF TypeOK, LifeInv, MutexInv, ReadyInv, Steps, Scaled, FirstPhase, DonePhase
<1>5. ConfigInv'
  BY DEF TypeOK, LifeInv, MutexInv, ReadyInv, ConfigInv, Steps, Scaled
<1> QED BY <1>1, <1>2, <1>3, <1>4, <1>5

(* ExternalPoll keeps the invariant.                                        *)
LEMMA ExternalPollKeeps == ControlInv /\ ExternalPoll => ControlInv'
<1> SUFFICES ASSUME ControlInv, ExternalPoll PROVE ControlInv'
  OBVIOUS
<1> USE DEF ControlInv, ExternalPoll, env, fpga, WorkEnds, CombinedFails
<1>1. TypeOK'
  <2>1. ready' \in BOOLEAN /\ error' \in BOOLEAN
    BY Zenon DEF TypeOK
  <2> QED BY <2>1 DEF TypeOK
<1>2. LifeInv'
  BY DEF TypeOK, LifeInv, MutexInv, ReadyInv, Steps
<1>3. MutexInv'
  BY DEF TypeOK, LifeInv, MutexInv, ReadyInv, Steps, Scaled
<1>4. ReadyInv'
  BY DEF TypeOK, LifeInv, MutexInv, ReadyInv, Steps, Scaled
<1>5. ConfigInv'
  BY DEF TypeOK, LifeInv, MutexInv, ReadyInv, ConfigInv, Steps, Scaled
<1> QED BY <1>1, <1>2, <1>3, <1>4, <1>5

(* PhaseSplitter keeps the invariant.                                       *)
LEMMA PhaseSplitterKeeps == ControlInv /\ PhaseSplitter => ControlInv'
<1> SUFFICES ASSUME ControlInv, PhaseSplitter PROVE ControlInv'
  OBVIOUS
<1> USE DEF ControlInv, PhaseSplitter, env, fpga, WorkEnds, CombinedFails
<1>1. TypeOK'
  <2>1. ready' \in BOOLEAN /\ error' \in BOOLEAN
    BY Zenon DEF TypeOK
  <2> QED BY <2>1 DEF TypeOK
<1>2. LifeInv'
  BY DEF TypeOK, LifeInv, MutexInv, ReadyInv, Steps
<1>3. MutexInv'
  BY DEF TypeOK, LifeInv, MutexInv, ReadyInv, Steps, Scaled
<1>4. ReadyInv'
  BY DEF TypeOK, LifeInv, MutexInv, ReadyInv, Steps, Scaled
<1>5. ConfigInv'
  BY DEF TypeOK, LifeInv, MutexInv, ReadyInv, ConfigInv, Steps, Scaled
<1> QED BY <1>1, <1>2, <1>3, <1>4, <1>5

(* PhaseReceiver keeps the invariant.                                       *)
LEMMA PhaseReceiverKeeps == ControlInv /\ PhaseReceiver => ControlInv'
<1> SUFFICES ASSUME ControlInv, PhaseReceiver PROVE ControlInv'
  OBVIOUS
<1> USE DEF ControlInv, PhaseReceiver, env, fpga, WorkEnds, CombinedFails
<1>1. TypeOK'
  <2>1. ready' \in BOOLEAN /\ error' \in BOOLEAN
    BY Zenon DEF TypeOK
  <2> QED BY <2>1 DEF TypeOK
<1>2. LifeInv'
  BY DEF TypeOK, LifeInv, MutexInv, ReadyInv, Steps
<1>3. MutexInv'
  BY DEF TypeOK, LifeInv, MutexInv, ReadyInv, Steps, Scaled
<1>4. ReadyInv'
  BY DEF TypeOK, LifeInv, MutexInv, ReadyInv, Steps, Scaled
<1>5. ConfigInv'
  BY DEF TypeOK, LifeInv, MutexInv, ReadyInv, ConfigInv, Steps, Scaled
<1> QED BY <1>1, <1>2, <1>3, <1>4, <1>5

(* PhasePacking keeps the invariant.                                        *)
LEMMA PhasePackingKeeps == ControlInv /\ PhasePacking => ControlInv'
<1> SUFFICES ASSUME ControlInv, PhasePacking PROVE ControlInv'
  OBVIOUS
<1> USE DEF ControlInv, PhasePacking, env, WorkEnds, CombinedFails, VideoBusy, FpgaAgrees
<1>1. TypeOK'
  <2>1. lost' \in BOOLEAN /\ ready' \in BOOLEAN /\ error' \in BOOLEAN
    BY Zenon DEF TypeOK
  <2> QED BY <2>1 DEF TypeOK, Interface
<1>2. LifeInv'
  BY DEF TypeOK, LifeInv, MutexInv, ReadyInv, Steps
<1>3. MutexInv'
  BY DEF TypeOK, LifeInv, MutexInv, ReadyInv, Steps, Scaled
<1>4. ReadyInv'
  BY DEF TypeOK, LifeInv, MutexInv, ReadyInv, Steps, Scaled
<1>5. ConfigInv'
  BY DEF TypeOK, LifeInv, MutexInv, ReadyInv, ConfigInv, Steps, Scaled
<1> QED BY <1>1, <1>2, <1>3, <1>4, <1>5

(* PhaseWatch keeps the invariant.                                          *)
LEMMA PhaseWatchKeeps == ControlInv /\ PhaseWatch => ControlInv'
<1> SUFFICES ASSUME ControlInv, PhaseWatch PROVE ControlInv'
  OBVIOUS
<1> USE DEF ControlInv, PhaseWatch, env, fpga, WorkEnds, FpgaAgrees
<1>1. TypeOK'
  <2>1. ready' \in BOOLEAN
    BY Zenon DEF TypeOK
  <2> QED BY <2>1 DEF TypeOK
<1>2. LifeInv'
  BY DEF TypeOK, LifeInv, MutexInv, ReadyInv, Steps
<1>3. MutexInv'
  BY DEF TypeOK, LifeInv, MutexInv, ReadyInv, Steps, Scaled
<1>4. ReadyInv'
  BY DEF TypeOK, LifeInv, MutexInv, ReadyInv, Steps, Scaled
<1>5. ConfigInv'
  BY DEF TypeOK, LifeInv, MutexInv, ReadyInv, ConfigInv, Steps, Scaled
<1> QED BY <1>1, <1>2, <1>3, <1>4, <1>5

(* CapMatch keeps the invariant.                                            *)
LEMMA CapMatchKeeps == ControlInv /\ CapMatch => ControlInv'
<1> SUFFICES ASSUME ControlInv, CapMatch PROVE ControlInv'
  OBVIOUS
<1> USE DEF ControlInv, CapMatch, env, link, fpga, Registered
<1>1. TypeOK'
  BY DEF TypeOK
<1>2. LifeInv'
  BY DEF TypeOK, LifeInv, MutexInv, ReadyInv, Steps
<1>3. MutexInv'
  BY DEF TypeOK, LifeInv, MutexInv, ReadyInv, Steps, Scaled
<1>4. ReadyInv'
  BY DEF TypeOK, LifeInv, MutexInv, ReadyInv, Steps, Scaled
<1>5. ConfigInv'
  BY DEF TypeOK, LifeInv, MutexInv, ReadyInv, ConfigInv, Steps, Scaled
<1> QED BY <1>1, <1>2, <1>3, <1>4, <1>5

(* CapArm keeps the invariant.                                              *)
LEMMA CapArmKeeps == ControlInv /\ CapArm => ControlInv'
<1> SUFFICES ASSUME ControlInv, CapArm PROVE ControlInv'
  OBVIOUS
<1> USE DEF ControlInv, CapArm, env, link, fpga
<1>1. TypeOK'
  BY DEF TypeOK
<1>2. LifeInv'
  BY DEF TypeOK, LifeInv, MutexInv, ReadyInv, Steps
<1>3. MutexInv'
  BY DEF TypeOK, LifeInv, MutexInv, ReadyInv, Steps, Scaled
<1>4. ReadyInv'
  BY DEF TypeOK, LifeInv, MutexInv, ReadyInv, Steps, Scaled
<1>5. ConfigInv'
  BY DEF TypeOK, LifeInv, MutexInv, ReadyInv, ConfigInv, Steps, Scaled
<1> QED BY <1>1, <1>2, <1>3, <1>4, <1>5

(* StopVideo keeps the invariant.                                           *)
LEMMA StopVideoKeeps == ControlInv /\ StopVideo => ControlInv'
<1> SUFFICES ASSUME ControlInv, StopVideo PROVE ControlInv'
  OBVIOUS
<1> USE DEF ControlInv, StopVideo, env, link, fpga
<1>1. TypeOK'
  BY DEF TypeOK
<1>2. LifeInv'
  BY DEF TypeOK, LifeInv, MutexInv, ReadyInv, Steps
<1>3. MutexInv'
  BY DEF TypeOK, LifeInv, MutexInv, ReadyInv, Steps, Scaled
<1>4. ReadyInv'
  BY DEF TypeOK, LifeInv, MutexInv, ReadyInv, Steps, Scaled
<1>5. ConfigInv'
  BY DEF TypeOK, LifeInv, MutexInv, ReadyInv, ConfigInv, Steps, Scaled
<1> QED BY <1>1, <1>2, <1>3, <1>4, <1>5

(* StopSlots keeps the invariant.                                           *)
LEMMA StopSlotsKeeps == ControlInv /\ StopSlots => ControlInv'
<1> SUFFICES ASSUME ControlInv, StopSlots PROVE ControlInv'
  OBVIOUS
<1> USE DEF ControlInv, StopSlots, env, link, fpga
<1>1. TypeOK'
  BY DEF TypeOK
<1>2. LifeInv'
  BY DEF TypeOK, LifeInv, MutexInv, ReadyInv, Steps
<1>3. MutexInv'
  BY DEF TypeOK, LifeInv, MutexInv, ReadyInv, Steps, Scaled
<1>4. ReadyInv'
  BY DEF TypeOK, LifeInv, MutexInv, ReadyInv, Steps, Scaled
<1>5. ConfigInv'
  BY DEF TypeOK, LifeInv, MutexInv, ReadyInv, ConfigInv, Steps, Scaled
<1> QED BY <1>1, <1>2, <1>3, <1>4, <1>5

(* ResetBegin keeps the invariant.                                          *)
LEMMA ResetBeginKeeps == ControlInv /\ ResetBegin => ControlInv'
<1> SUFFICES ASSUME ControlInv, ResetBegin PROVE ControlInv'
  OBVIOUS
<1> USE DEF ControlInv, ResetBegin, env, link
<1>1. TypeOK'
  BY DEF TypeOK
<1>2. LifeInv'
  BY DEF TypeOK, LifeInv, MutexInv, ReadyInv, Steps
<1>3. MutexInv'
  BY DEF TypeOK, LifeInv, MutexInv, ReadyInv, Steps, Scaled
<1>4. ReadyInv'
  BY DEF TypeOK, LifeInv, MutexInv, ReadyInv, Steps, Scaled
<1>5. ConfigInv'
  BY DEF TypeOK, LifeInv, MutexInv, ReadyInv, ConfigInv, Steps, Scaled
<1> QED BY <1>1, <1>2, <1>3, <1>4, <1>5

(* ResetEnd keeps the invariant.                                            *)
LEMMA ResetEndKeeps == ControlInv /\ ResetEnd => ControlInv'
<1> SUFFICES ASSUME ControlInv, ResetEnd PROVE ControlInv'
  OBVIOUS
<1> USE DEF ControlInv, ResetEnd, env, link
<1>1. TypeOK'
  <2>1. lost' \in BOOLEAN
    BY Zenon DEF TypeOK
  <2> QED BY <2>1 DEF TypeOK
<1>2. LifeInv'
  BY DEF TypeOK, LifeInv, MutexInv, ReadyInv, Steps
<1>3. MutexInv'
  BY DEF TypeOK, LifeInv, MutexInv, ReadyInv, Steps, Scaled
<1>4. ReadyInv'
  BY DEF TypeOK, LifeInv, MutexInv, ReadyInv, Steps, Scaled
<1>5. ConfigInv'
  BY DEF TypeOK, LifeInv, MutexInv, ReadyInv, ConfigInv, Steps, Scaled
<1> QED BY <1>1, <1>2, <1>3, <1>4, <1>5

(* PrepareLock keeps the invariant.                                         *)
LEMMA PrepareLockKeeps == ControlInv /\ PrepareLock => ControlInv'
<1> SUFFICES ASSUME ControlInv, PrepareLock PROVE ControlInv'
  OBVIOUS
<1> USE DEF ControlInv, PrepareLock, env, link, fpga, Registered
<1>1. TypeOK'
  BY DEF TypeOK
<1>2. LifeInv'
  BY DEF TypeOK, LifeInv, MutexInv, ReadyInv, Steps
<1>3. MutexInv'
  BY DEF TypeOK, LifeInv, MutexInv, ReadyInv, Steps, Scaled
<1>4. ReadyInv'
  BY DEF TypeOK, LifeInv, MutexInv, ReadyInv, Steps, Scaled
<1>5. ConfigInv'
  BY DEF TypeOK, LifeInv, MutexInv, ReadyInv, ConfigInv, Steps, Scaled
<1> QED BY <1>1, <1>2, <1>3, <1>4, <1>5

(* PrepareSignal keeps the invariant.                                       *)
LEMMA PrepareSignalKeeps == ControlInv /\ PrepareSignal => ControlInv'
<1> SUFFICES ASSUME ControlInv, PrepareSignal PROVE ControlInv'
  OBVIOUS
<1> USE DEF ControlInv, PrepareSignal, env, link, fpga
<1>1. TypeOK'
  BY DEF TypeOK
<1>2. LifeInv'
  BY DEF TypeOK, LifeInv, MutexInv, ReadyInv, Steps
<1>3. MutexInv'
  BY DEF TypeOK, LifeInv, MutexInv, ReadyInv, Steps, Scaled
<1>4. ReadyInv'
  BY DEF TypeOK, LifeInv, MutexInv, ReadyInv, Steps, Scaled
<1>5. ConfigInv'
  BY DEF TypeOK, LifeInv, MutexInv, ReadyInv, ConfigInv, Steps, Scaled
<1> QED BY <1>1, <1>2, <1>3, <1>4, <1>5

(* PrepareUnlock keeps the invariant.                                       *)
LEMMA PrepareUnlockKeeps == ControlInv /\ PrepareUnlock => ControlInv'
<1> SUFFICES ASSUME ControlInv, PrepareUnlock PROVE ControlInv'
  OBVIOUS
<1> USE DEF ControlInv, PrepareUnlock, env, link, fpga
<1>1. TypeOK'
  BY DEF TypeOK
<1>2. LifeInv'
  BY DEF TypeOK, LifeInv, MutexInv, ReadyInv, Steps
<1>3. MutexInv'
  BY DEF TypeOK, LifeInv, MutexInv, ReadyInv, Steps, Scaled
<1>4. ReadyInv'
  BY DEF TypeOK, LifeInv, MutexInv, ReadyInv, Steps, Scaled
<1>5. ConfigInv'
  BY DEF TypeOK, LifeInv, MutexInv, ReadyInv, ConfigInv, Steps, Scaled
<1> QED BY <1>1, <1>2, <1>3, <1>4, <1>5

(* Remove keeps the invariant.                                              *)
LEMMA RemoveKeeps == ControlInv /\ Remove => ControlInv'
<1> SUFFICES ASSUME ControlInv, Remove PROVE ControlInv'
  OBVIOUS
<1> USE DEF ControlInv, Remove, env, link, fpga
<1>1. TypeOK'
  BY DEF TypeOK
<1>2. LifeInv'
  BY DEF TypeOK, LifeInv, MutexInv, ReadyInv, Steps
<1>3. MutexInv'
  BY DEF TypeOK, LifeInv, MutexInv, ReadyInv, Steps, Scaled
<1>4. ReadyInv'
  BY DEF TypeOK, LifeInv, MutexInv, ReadyInv, Steps, Scaled
<1>5. ConfigInv'
  BY DEF TypeOK, LifeInv, MutexInv, ReadyInv, ConfigInv, Steps, Scaled
<1> QED BY <1>1, <1>2, <1>3, <1>4, <1>5

(* Cancelled keeps the invariant.                                           *)
LEMMA CancelledKeeps == ControlInv /\ Cancelled => ControlInv'
<1> SUFFICES ASSUME ControlInv, Cancelled PROVE ControlInv'
  OBVIOUS
<1> USE DEF ControlInv, Cancelled, env, link, fpga
<1>1. TypeOK'
  <2>1. ready' \in BOOLEAN
    BY Zenon DEF TypeOK
  <2> QED BY <2>1 DEF TypeOK
<1>2. LifeInv'
  BY DEF TypeOK, LifeInv, MutexInv, ReadyInv, Steps
<1>3. MutexInv'
  BY DEF TypeOK, LifeInv, MutexInv, ReadyInv, Steps, Scaled
<1>4. ReadyInv'
  BY DEF TypeOK, LifeInv, MutexInv, ReadyInv, Steps, Scaled
<1>5. ConfigInv'
  BY DEF TypeOK, LifeInv, MutexInv, ReadyInv, ConfigInv, Steps, Scaled
<1> QED BY <1>1, <1>2, <1>3, <1>4, <1>5

(* Destroyed keeps the invariant.                                           *)
LEMMA DestroyedKeeps == ControlInv /\ Destroyed => ControlInv'
<1> SUFFICES ASSUME ControlInv, Destroyed PROVE ControlInv'
  OBVIOUS
<1> USE DEF ControlInv, Destroyed, env, link, fpga
<1>1. TypeOK'
  BY DEF TypeOK
<1>2. LifeInv'
  BY DEF TypeOK, LifeInv, MutexInv, ReadyInv, Steps
<1>3. MutexInv'
  BY DEF TypeOK, LifeInv, MutexInv, ReadyInv, Steps, Scaled
<1>4. ReadyInv'
  BY DEF TypeOK, LifeInv, MutexInv, ReadyInv, Steps, Scaled
<1>5. ConfigInv'
  BY DEF TypeOK, LifeInv, MutexInv, ReadyInv, ConfigInv, Steps, Scaled
<1> QED BY <1>1, <1>2, <1>3, <1>4, <1>5

(* Restored keeps the invariant.                                            *)
LEMMA RestoredKeeps == ControlInv /\ Restored => ControlInv'
<1> SUFFICES ASSUME ControlInv, Restored PROVE ControlInv'
  OBVIOUS
<1> USE DEF ControlInv, Restored, env, link, fpga
<1>1. TypeOK'
  BY DEF TypeOK
<1>2. LifeInv'
  BY DEF TypeOK, LifeInv, MutexInv, ReadyInv, Steps
<1>3. MutexInv'
  BY DEF TypeOK, LifeInv, MutexInv, ReadyInv, Steps, Scaled
<1>4. ReadyInv'
  BY DEF TypeOK, LifeInv, MutexInv, ReadyInv, Steps, Scaled
<1>5. ConfigInv'
  BY DEF TypeOK, LifeInv, MutexInv, ReadyInv, ConfigInv, Steps, Scaled
<1> QED BY <1>1, <1>2, <1>3, <1>4, <1>5

(* Every step keeps the invariant.                                          *)
LEMMA NextKeeps == ControlInv /\ [Next]_vars => ControlInv'
<1> SUFFICES ASSUME ControlInv, [Next]_vars PROVE ControlInv'
  OBVIOUS
<1>1. CASE UNCHANGED vars
  BY <1>1 DEF ControlInv, TypeOK, LifeInv, MutexInv, ReadyInv, ConfigInv, Scaled,
    vars, env, link, fpga
<1> QED
  BY <1>1, SourceChangeKeeps, SettleKeeps, CreateCaptureKeeps, RegisterKeeps, ScheduleKeeps,
     WorkRunKeeps, StartupPollKeeps, PreparePollKeeps, ExternalPollKeeps, PhaseSplitterKeeps,
     PhaseReceiverKeeps, PhasePackingKeeps, PhaseWatchKeeps, CapMatchKeeps, CapArmKeeps,
     StopVideoKeeps, StopSlotsKeeps, ResetBeginKeeps, ResetEndKeeps, PrepareLockKeeps,
     PrepareSignalKeeps, PrepareUnlockKeeps, RemoveKeeps, CancelledKeeps, DestroyedKeeps,
     RestoredKeeps
    DEF Next, Probe, Work, Capture, Audio, Removal

(* The running driver keeps the invariant.                                  *)
THEOREM ControlInvariant == Spec => []ControlInv
  BY InitEstablishes, NextKeeps, PTL DEF Spec

(* Type correctness.                                                        *)
THEOREM ControlTypes == Spec => []TypeOK
<1>1. ControlInv => TypeOK
  BY DEF ControlInv
<1> QED BY <1>1, ControlInvariant, PTL

(* Any two users of the bus are the same one.                               *)
LEMMA OneUser ==
  ASSUME ControlInv
  PROVE  \E u : BusUsers \subseteq {u}
<1> USE DEF ControlInv
<1>1. mode \in {"plain", "startup", "passthrough", "scaled", "experimental"}
  BY Modes
<1>2. ASSUME probed = "create" PROVE BusUsers \subseteq {"probe"}
  BY <1>2 DEF BusUsers, LifeInv, TypeOK
<1>3. ASSUME work \in Steps PROVE BusUsers \subseteq {"work"}
  <2>1. probed # "create" /\ removing # "restore"
    BY <1>3 DEF LifeInv, Steps
  <2>2. audio # "bus"
    BY <1>1, <1>3 DEF MutexInv, ReadyInv, Steps, Scaled
  <2> QED BY <2>1, <2>2 DEF BusUsers
<1>4. ASSUME probed # "create", work \notin Steps, removing = "restore"
      PROVE  BusUsers \subseteq {"remove"}
  BY <1>4 DEF BusUsers, LifeInv, Steps
<1>5. ASSUME probed # "create", work \notin Steps, removing # "restore"
      PROVE  BusUsers \subseteq {"audio"}
  BY <1>5 DEF BusUsers, Steps
<1> QED BY <1>2, <1>3, <1>4, <1>5

(* gc573_hdmi_work(), aud_prepare(), probe and remove never have the        *)
(* control bus at the same time, whatever the module parameters.            *)
THEOREM BusHasOneUser == Spec => []BusExclusive
<1>1. ASSUME ControlInv PROVE BusExclusive
  <2>1. PICK u : BusUsers \subseteq {u}
    BY <1>1, OneUser
  <2>2. IsFiniteSet({u}) /\ Cardinality({u}) = 1
    BY FS_Singleton
  <2>3. Cardinality(BusUsers) <= Cardinality({u})
    BY <2>1, <2>2, FS_Subset
  <2> QED BY <2>2, <2>3 DEF BusExclusive
<1> QED BY <1>1, ControlInvariant, PTL

(* In the scaled modes hdmi_ready means a receiver that was set up and the  *)
(* FPGA's packing to match, whoever reset the video engine meanwhile.       *)
THEOREM ReadyIsConfigured == Spec => []ReadyMeansConfigured
<1>1. ControlInv => ReadyMeansConfigured
  BY DEF ControlInv, ConfigInv, ReadyMeansConfigured
<1> QED BY <1>1, ControlInvariant, PTL

(* The packing changes only between transfers: not from the check of the    *)
(* input that precedes one, until the device has no slot left.              *)
THEOREM PackingStaysSteady == Spec => PackingSteady
<1>1. ControlInv /\ [Next]_vars => (packing' # packing => cap \in {"idle", "stopped", "reset"})
  <2> SUFFICES ASSUME ControlInv, [Next]_vars, packing' # packing
               PROVE  cap \in {"idle", "stopped", "reset"}
    OBVIOUS
  <2>1. CASE PhasePacking
    BY <2>1 DEF PhasePacking, VideoBusy, ControlInv, TypeOK, ReadyInv, ConfigInv, Steps
  <2>2. CASE ResetBegin \/ ResetEnd
    BY <2>2 DEF ResetBegin, ResetEnd
  <2>3. CASE UNCHANGED vars
    BY <2>3 DEF vars, fpga
  <2>4. CASE SourceChange \/ Settle \/ Probe
    BY <2>4 DEF SourceChange, Settle, Probe, CreateCapture, Register, Schedule, fpga
  <2>5. CASE Work /\ ~PhasePacking
    BY <2>5 DEF Work, WorkRun, StartupPoll, PreparePoll, ExternalPoll, PhaseSplitter,
      PhaseReceiver, PhaseWatch, fpga
  <2>6. CASE CapMatch \/ StopVideo \/ CapArm \/ StopSlots
    BY <2>6 DEF CapMatch, StopVideo, CapArm, StopSlots, fpga
  <2>7. CASE PrepareLock \/ Audio \/ Remove \/ Removal
    BY <2>7 DEF PrepareLock, Audio, PrepareSignal, PrepareUnlock, Remove, Removal, Cancelled,
      Destroyed, Restored, fpga
  <2> QED BY <2>1, <2>2, <2>3, <2>4, <2>5, <2>6, <2>7 DEF Next, Capture
<1> QED BY <1>1, ControlInvariant, PTL DEF Spec, PackingSteady
=============================================================================
