-------------------------- MODULE CaptureStreamProofs --------------------------
(***************************************************************************)
(* Proofs about CaptureStream for every number of slots and every set of   *)
(* buffers: what cap_copy() copies, who has a buffer, what is freed, and   *)
(* that the whole implements FrameStream.                                  *)
(***************************************************************************)
EXTENDS CaptureStream, Integers, SequenceTheorems, FiniteSetTheorems, TLAPS

(* The places at which the worker holds a buffer.                           *)
Holding == {"transfer", "reset", "slot", "arm", "wait", "woken", "copy", "nolink", "lost"}

(* The places at which a transfer it started may not be over.               *)
Waiting == {"wait", "woken", "nolink", "exit"}

(* The life of the worker, of the stream and of the driver.                 *)
ThreadInv ==
  /\ on <=> wpc # "none"
  /\ upc # "idle" => on
  /\ life \in {"stopped", "freed", "leaked"} => ~on /\ masked
  /\ life \in {"freed", "leaked"} => ~audio
  /\ inflight # NoBuffer <=> wpc \in Holding
  /\ pending => wpc \in Waiting \cup {"lost", "exited", "none"}

(* Interrupts come only from an engine that cap_enable() started, and       *)
(* cap_stop() waits for the handler.                                        *)
MaskInv ==
  /\ ~masked => started
  /\ masked => ipc = "idle"
  /\ masterCleared => masked /\ ~audio /\ ~master
  /\ pendingDrained => masterCleared
  /\ wpc = "lost" => masked
  /\ wpc = "copy" => ~masked

(* No frame can complete and no completion is under way.                    *)
Quiet == ~irqBit /\ ipc \in {"idle", "signal"} /\ (armed = {} \/ ~videoOn)

(* The transfer that the worker waits for: it is under way, or its frame is *)
(* in memory and the handler at most works on its interrupt.                *)
UnderWay == armed = {slot} /\ ~complete /\ ~irqBit /\ ipc \in {"idle", "signal"}
Arrived  ==
  /\ armed = {} /\ mem[slot] = "fresh" /\ status = slot + 1
  /\ ipc \in {"ack", "slot"} => istatus = slot + 1
  /\ ipc = "slot" => ~irqBit
  /\ complete => Quiet

FrameInv ==
  /\ ~masked /\ wpc \notin Waiting => Quiet
  /\ ~masked /\ wpc \in {"wait", "woken"} => UnderWay \/ Arrived
  /\ wpc \in {"slot", "arm"} => ~complete
  /\ masked /\ wpc \in {"wait", "woken"} => ~complete
  /\ wpc = "copy" => mem[bank] = "fresh" /\ bank \notin armed

(* Where the buffers are.                                                   *)
Distinct ==
  /\ \A i, j \in 1 .. Len(queue) : queue[i] = queue[j] => i = j
  /\ \A i \in 1 .. Len(queue) : queue[i] # inflight /\ queue[i] \notin finished
  /\ inflight \notin finished

StreamInv == TypeOK /\ ThreadInv /\ MaskInv /\ FrameInv /\ Distinct

(* If the first HDMI signal does not slip in between two checks: an engine  *)
(* that was never enabled was never armed, and what was drained stays so.   *)
DrainInv ==
  /\ ~started => ~outstanding /\ armed = {} /\ ~videoOn
  /\ ~started => wpc \notin {"reset", "slot", "arm", "wait", "woken", "copy"}
  /\ ~started /\ wpc \in {"created", "loop", "transfer"} => ~match
  /\ masked /\ wpc \notin Waiting => armed = {} /\ ~videoOn
  /\ pendingDrained /\ wpc \notin Waiting => ~outstanding
  /\ life = "freed" => ~outstanding

(* Initially there is no stream.                                            *)
LEMMA InitEstablishes == Init => StreamInv
<1> SUFFICES ASSUME Init PROVE StreamInv
  OBVIOUS
<1> USE StreamAssumption DEF Init, StreamAssumption
<1>1. TypeOK
  <2>1. /\ videoOn \in BOOLEAN /\ irqBit \in BOOLEAN /\ masked \in BOOLEAN
        /\ master \in BOOLEAN /\ outstanding \in BOOLEAN /\ started \in BOOLEAN
        /\ pending \in BOOLEAN /\ complete \in BOOLEAN /\ stopping \in BOOLEAN
        /\ masterCleared \in BOOLEAN /\ pendingDrained \in BOOLEAN
        /\ recovering \in BOOLEAN /\ on \in BOOLEAN /\ qerror \in BOOLEAN
    BY Zenon
  <2>2. queue \in Seq(Buffers)
    OBVIOUS
  <2> QED BY <2>1, <2>2 DEF TypeOK, Slots, Blank
<1>2. ThreadInv /\ MaskInv
  BY DEF ThreadInv, Holding, MaskInv
<1>3. FrameInv /\ Distinct
  BY DEF FrameInv, Distinct, Waiting
<1> QED BY <1>1, <1>2, <1>3 DEF StreamInv

(* HwComplete keeps the invariant.                                          *)
LEMMA HwCompleteKeeps == StreamInv /\ HwComplete => StreamInv'
<1> SUFFICES ASSUME StreamInv, HwComplete PROVE StreamInv'
  OBVIOUS
<1> USE DEF StreamInv, HwComplete, FromStatus, masterVars, frameVars, irqVars, bufVars,
    lifeVars, Slots
<1>1. TypeOK'
  <2>1. irqBit' \in BOOLEAN
    BY Zenon DEF TypeOK
  <2> QED BY <2>1, StreamAssumption DEF TypeOK, StreamAssumption
<1>2. ThreadInv'
  BY StreamAssumption DEF TypeOK, StreamAssumption, ThreadInv, Holding, Waiting
<1>3. MaskInv'
  BY DEF TypeOK, ThreadInv, Holding, Waiting, MaskInv
<1>4. FrameInv'
  BY DEF TypeOK, ThreadInv, MaskInv, FrameInv, Holding, Waiting, Quiet, UnderWay, Arrived
<1>5. Distinct'
  BY DEF TypeOK, ThreadInv, Holding, Distinct
<1> QED BY <1>1, <1>2, <1>3, <1>4, <1>5

(* InputChange keeps the invariant.                                         *)
LEMMA InputChangeKeeps == StreamInv /\ InputChange => StreamInv'
<1> SUFFICES ASSUME StreamInv, InputChange PROVE StreamInv'
  OBVIOUS
<1> USE DEF StreamInv, InputChange, hwVars, masterVars, frameVars, irqVars, bufVars, lifeVars
<1>1. TypeOK'
  BY StreamAssumption DEF TypeOK, StreamAssumption
<1>2. ThreadInv'
  BY StreamAssumption DEF TypeOK, StreamAssumption, ThreadInv, Holding, Waiting
<1>3. MaskInv'
  BY DEF TypeOK, ThreadInv, Holding, Waiting, MaskInv
<1>4. FrameInv'
  BY DEF TypeOK, ThreadInv, MaskInv, FrameInv, Holding, Waiting, Quiet, UnderWay, Arrived
<1>5. Distinct'
  BY DEF TypeOK, ThreadInv, Holding, Distinct
<1> QED BY <1>1, <1>2, <1>3, <1>4, <1>5

(* AudioStart keeps the invariant.                                          *)
LEMMA AudioStartKeeps == StreamInv /\ AudioStart => StreamInv'
<1> SUFFICES ASSUME StreamInv, AudioStart PROVE StreamInv'
  OBVIOUS
<1> USE DEF StreamInv, AudioStart, masterVars, frameVars, irqVars, bufVars, lifeVars
<1>1. TypeOK'
  <2>1. master' \in BOOLEAN
    BY Zenon DEF TypeOK
  <2> QED BY <2>1, StreamAssumption DEF TypeOK, StreamAssumption
<1>2. ThreadInv'
  BY StreamAssumption DEF TypeOK, StreamAssumption, ThreadInv, Holding, Waiting
<1>3. MaskInv'
  BY DEF TypeOK, ThreadInv, Holding, Waiting, MaskInv
<1>4. FrameInv'
  BY DEF TypeOK, ThreadInv, MaskInv, FrameInv, Holding, Waiting, Quiet, UnderWay, Arrived
<1>5. Distinct'
  BY DEF TypeOK, ThreadInv, Holding, Distinct
<1> QED BY <1>1, <1>2, <1>3, <1>4, <1>5

(* IrqRead keeps the invariant.                                             *)
LEMMA IrqReadKeeps == StreamInv /\ IrqRead => StreamInv'
<1> SUFFICES ASSUME StreamInv, IrqRead PROVE StreamInv'
  OBVIOUS
<1> USE DEF StreamInv, IrqRead, hwVars, masterVars, frameVars, bufVars, lifeVars
<1>1. TypeOK'
  BY StreamAssumption DEF TypeOK, StreamAssumption
<1>2. ThreadInv'
  BY StreamAssumption DEF TypeOK, StreamAssumption, ThreadInv, Holding, Waiting
<1>3. MaskInv'
  BY DEF TypeOK, ThreadInv, Holding, Waiting, MaskInv
<1>4. FrameInv'
  BY DEF TypeOK, ThreadInv, MaskInv, FrameInv, Holding, Waiting, Quiet, UnderWay, Arrived
<1>5. Distinct'
  BY DEF TypeOK, ThreadInv, Holding, Distinct
<1> QED BY <1>1, <1>2, <1>3, <1>4, <1>5

(* IrqAck keeps the invariant.                                              *)
LEMMA IrqAckKeeps == StreamInv /\ IrqAck => StreamInv'
<1> SUFFICES ASSUME StreamInv, IrqAck PROVE StreamInv'
  OBVIOUS
<1> USE DEF StreamInv, IrqAck, masterVars, frameVars, bufVars, lifeVars
<1>1. TypeOK'
  <2>1. irqBit' \in BOOLEAN
    BY Zenon DEF TypeOK
  <2> QED BY <2>1, StreamAssumption DEF TypeOK, StreamAssumption
<1>2. ThreadInv'
  BY StreamAssumption DEF TypeOK, StreamAssumption, ThreadInv, Holding, Waiting
<1>3. MaskInv'
  BY DEF TypeOK, ThreadInv, Holding, Waiting, MaskInv
<1>4. FrameInv'
  BY DEF TypeOK, ThreadInv, MaskInv, FrameInv, Holding, Waiting, Quiet, UnderWay, Arrived
<1>5. Distinct'
  BY DEF TypeOK, ThreadInv, Holding, Distinct
<1> QED BY <1>1, <1>2, <1>3, <1>4, <1>5

(* IrqSlot keeps the invariant.                                             *)
LEMMA IrqSlotKeeps == StreamInv /\ IrqSlot => StreamInv'
<1> SUFFICES ASSUME StreamInv, IrqSlot PROVE StreamInv'
  OBVIOUS
<1> USE DEF StreamInv, IrqSlot, hwVars, masterVars, bufVars, lifeVars
<1>1. TypeOK'
  <2>1. complete' \in BOOLEAN
    BY Zenon DEF TypeOK
  <2> QED BY <2>1, StreamAssumption DEF TypeOK, StreamAssumption
<1>2. ThreadInv'
  BY StreamAssumption DEF TypeOK, StreamAssumption, ThreadInv, Holding, Waiting
<1>3. MaskInv'
  BY DEF TypeOK, ThreadInv, Holding, Waiting, MaskInv
<1>4. FrameInv'
  BY DEF TypeOK, ThreadInv, MaskInv, FrameInv, Holding, Waiting, Quiet, UnderWay, Arrived
<1>5. Distinct'
  BY DEF TypeOK, ThreadInv, Holding, Distinct
<1> QED BY <1>1, <1>2, <1>3, <1>4, <1>5

(* IrqSignal keeps the invariant.                                           *)
LEMMA IrqSignalKeeps == StreamInv /\ IrqSignal => StreamInv'
<1> SUFFICES ASSUME StreamInv, IrqSignal PROVE StreamInv'
  OBVIOUS
<1> USE DEF StreamInv, IrqSignal, hwVars, masterVars, frameVars, bufVars, lifeVars
<1>1. TypeOK'
  BY StreamAssumption DEF TypeOK, StreamAssumption
<1>2. ThreadInv'
  BY StreamAssumption DEF TypeOK, StreamAssumption, ThreadInv, Holding, Waiting
<1>3. MaskInv'
  BY DEF TypeOK, ThreadInv, Holding, Waiting, MaskInv
<1>4. FrameInv'
  BY DEF TypeOK, ThreadInv, MaskInv, FrameInv, Holding, Waiting, Quiet, UnderWay, Arrived
<1>5. Distinct'
  BY DEF TypeOK, ThreadInv, Holding, Distinct
<1> QED BY <1>1, <1>2, <1>3, <1>4, <1>5

(* ThreadRun keeps the invariant.                                           *)
LEMMA ThreadRunKeeps == StreamInv /\ ThreadRun => StreamInv'
<1> SUFFICES ASSUME StreamInv, ThreadRun PROVE StreamInv'
  OBVIOUS
<1> USE DEF StreamInv, ThreadRun, hwVars, masterVars, frameVars, irqVars, bufVars, lifeVars
<1>1. TypeOK'
  BY StreamAssumption DEF TypeOK, StreamAssumption
<1>2. ThreadInv'
  BY StreamAssumption DEF TypeOK, StreamAssumption, ThreadInv, Holding, Waiting
<1>3. MaskInv'
  BY DEF TypeOK, ThreadInv, Holding, Waiting, MaskInv
<1>4. FrameInv'
  BY DEF TypeOK, ThreadInv, MaskInv, FrameInv, Holding, Waiting, Quiet, UnderWay, Arrived
<1>5. Distinct'
  BY DEF TypeOK, ThreadInv, Holding, Distinct
<1> QED BY <1>1, <1>2, <1>3, <1>4, <1>5

(* WorkerLoop keeps the invariant.                                          *)
LEMMA WorkerLoopKeeps == StreamInv /\ WorkerLoop => StreamInv'
<1> SUFFICES ASSUME StreamInv, WorkerLoop PROVE StreamInv'
  OBVIOUS
<1> USE DEF StreamInv, WorkerLoop, hwVars, masterVars, frameVars, irqVars, bufVars, lifeVars
<1>1. TypeOK'
  <2>1. recovering' \in BOOLEAN
    BY Zenon DEF TypeOK
  <2> QED BY <2>1, StreamAssumption DEF TypeOK, StreamAssumption
<1>2. ThreadInv'
  BY StreamAssumption DEF TypeOK, StreamAssumption, ThreadInv, Holding, Waiting
<1>3. MaskInv'
  BY DEF TypeOK, ThreadInv, Holding, Waiting, MaskInv
<1>4. FrameInv'
  BY DEF TypeOK, ThreadInv, MaskInv, FrameInv, Holding, Waiting, Quiet, UnderWay, Arrived
<1>5. Distinct'
  <2>1. CASE stopping
    BY <2>1 DEF TypeOK, ThreadInv, Holding, Distinct
  <2>2. CASE ~stopping
    <3>1. Len(queue') = Len(queue) - 1 /\ \A i \in 1 .. Len(queue') : queue'[i] = queue[i + 1]
      BY <2>2 DEF TypeOK
    <3>2. inflight' = queue[1] /\ Len(queue) \in Nat /\ Len(queue) > 0
      BY <2>2 DEF TypeOK
    <3> QED BY <3>1, <3>2, <2>2 DEF Distinct
  <2> QED BY <2>1, <2>2
<1> QED BY <1>1, <1>2, <1>3, <1>4, <1>5

(* Transfer keeps the invariant.                                            *)
LEMMA TransferKeeps == StreamInv /\ Transfer => StreamInv'
<1> SUFFICES ASSUME StreamInv, Transfer PROVE StreamInv'
  OBVIOUS
<1> USE DEF StreamInv, Transfer, Fail, NoLink, hwVars, masterVars, frameVars, irqVars, bufVars,
    lifeVars
<1>1. TypeOK'
  <2>1. qerror' \in BOOLEAN
    BY Zenon DEF TypeOK
  <2>2. finished' \subseteq Buffers /\ inflight' \in Buffers \cup {NoBuffer}
    BY DEF TypeOK, ThreadInv, Holding
  <2> QED BY <2>1, <2>2, StreamAssumption DEF TypeOK, StreamAssumption
<1>2. ThreadInv'
  BY StreamAssumption DEF TypeOK, StreamAssumption, ThreadInv, Holding, Waiting
<1>3. MaskInv'
  BY DEF TypeOK, ThreadInv, Holding, Waiting, MaskInv
<1>4. FrameInv'
  BY DEF TypeOK, ThreadInv, MaskInv, FrameInv, Holding, Waiting, Quiet, UnderWay, Arrived
<1>5. Distinct'
  BY StreamAssumption DEF StreamAssumption, TypeOK, ThreadInv, Holding, Distinct
<1> QED BY <1>1, <1>2, <1>3, <1>4, <1>5

(* ArmReset keeps the invariant.                                            *)
LEMMA ArmResetKeeps == StreamInv /\ ArmReset => StreamInv'
<1> SUFFICES ASSUME StreamInv, ArmReset PROVE StreamInv'
  OBVIOUS
<1> USE DEF StreamInv, ArmReset, hwVars, masterVars, irqVars, bufVars, lifeVars
<1>1. TypeOK'
  <2>1. complete' \in BOOLEAN
    BY Zenon DEF TypeOK
  <2> QED BY <2>1, StreamAssumption DEF TypeOK, StreamAssumption
<1>2. ThreadInv'
  BY StreamAssumption DEF TypeOK, StreamAssumption, ThreadInv, Holding, Waiting
<1>3. MaskInv'
  BY DEF TypeOK, ThreadInv, Holding, Waiting, MaskInv
<1>4. FrameInv'
  BY DEF TypeOK, ThreadInv, MaskInv, FrameInv, Holding, Waiting, Quiet, UnderWay, Arrived
<1>5. Distinct'
  BY DEF TypeOK, ThreadInv, Holding, Distinct
<1> QED BY <1>1, <1>2, <1>3, <1>4, <1>5

(* ArmSlot keeps the invariant.                                             *)
LEMMA ArmSlotKeeps == StreamInv /\ ArmSlot => StreamInv'
<1> SUFFICES ASSUME StreamInv, ArmSlot PROVE StreamInv'
  OBVIOUS
<1> USE DEF StreamInv, ArmSlot, FromStatus, hwVars, masterVars, irqVars, bufVars, lifeVars,
    Slots
<1>1. TypeOK'
  BY StreamAssumption DEF TypeOK, StreamAssumption
<1>2. ThreadInv'
  BY StreamAssumption DEF TypeOK, StreamAssumption, ThreadInv, Holding, Waiting
<1>3. MaskInv'
  BY DEF TypeOK, ThreadInv, Holding, Waiting, MaskInv
<1>4. FrameInv'
  BY DEF TypeOK, ThreadInv, MaskInv, FrameInv, Holding, Waiting, Quiet, UnderWay, Arrived
<1>5. Distinct'
  BY DEF TypeOK, ThreadInv, Holding, Distinct
<1> QED BY <1>1, <1>2, <1>3, <1>4, <1>5

(* Arm keeps the invariant.                                                 *)
LEMMA ArmKeeps == StreamInv /\ Arm => StreamInv'
<1> SUFFICES ASSUME StreamInv, Arm PROVE StreamInv'
  OBVIOUS
<1> USE DEF StreamInv, Arm, masterVars, irqVars, bufVars, lifeVars, Slots
<1>1. TypeOK'
  <2>1. videoOn' \in BOOLEAN /\ outstanding' \in BOOLEAN /\ pending' \in BOOLEAN
    BY Zenon DEF TypeOK
  <2> QED BY <2>1, StreamAssumption DEF TypeOK, StreamAssumption
<1>2. ThreadInv'
  BY StreamAssumption DEF TypeOK, StreamAssumption, ThreadInv, Holding, Waiting
<1>3. MaskInv'
  BY DEF TypeOK, ThreadInv, Holding, Waiting, MaskInv
<1>4. FrameInv'
  BY DEF TypeOK, ThreadInv, MaskInv, FrameInv, Holding, Waiting, Quiet, UnderWay, Arrived
<1>5. Distinct'
  BY DEF TypeOK, ThreadInv, Holding, Distinct
<1> QED BY <1>1, <1>2, <1>3, <1>4, <1>5

(* WaitDone keeps the invariant.                                            *)
LEMMA WaitDoneKeeps == StreamInv /\ WaitDone => StreamInv'
<1> SUFFICES ASSUME StreamInv, WaitDone PROVE StreamInv'
  OBVIOUS
<1> USE DEF StreamInv, WaitDone, hwVars, masterVars, frameVars, irqVars, bufVars, lifeVars
<1>1. TypeOK'
  BY StreamAssumption DEF TypeOK, StreamAssumption
<1>2. ThreadInv'
  BY StreamAssumption DEF TypeOK, StreamAssumption, ThreadInv, Holding, Waiting
<1>3. MaskInv'
  BY DEF TypeOK, ThreadInv, Holding, Waiting, MaskInv
<1>4. FrameInv'
  BY DEF TypeOK, ThreadInv, MaskInv, FrameInv, Holding, Waiting, Quiet, UnderWay, Arrived
<1>5. Distinct'
  BY DEF TypeOK, ThreadInv, Holding, Distinct
<1> QED BY <1>1, <1>2, <1>3, <1>4, <1>5

(* WaitTimeout keeps the invariant.                                         *)
LEMMA WaitTimeoutKeeps == StreamInv /\ WaitTimeout => StreamInv'
<1> SUFFICES ASSUME StreamInv, WaitTimeout PROVE StreamInv'
  OBVIOUS
<1> USE DEF StreamInv, WaitTimeout, hwVars, masterVars, frameVars, irqVars, bufVars, lifeVars
<1>1. TypeOK'
  BY StreamAssumption DEF TypeOK, StreamAssumption
<1>2. ThreadInv'
  BY StreamAssumption DEF TypeOK, StreamAssumption, ThreadInv, Holding, Waiting
<1>3. MaskInv'
  BY DEF TypeOK, ThreadInv, Holding, Waiting, MaskInv
<1>4. FrameInv'
  BY DEF TypeOK, ThreadInv, MaskInv, FrameInv, Holding, Waiting, Quiet, UnderWay, Arrived
<1>5. Distinct'
  BY DEF TypeOK, ThreadInv, Holding, Distinct
<1> QED BY <1>1, <1>2, <1>3, <1>4, <1>5

(* Woken keeps the invariant.                                               *)
LEMMA WokenKeeps == StreamInv /\ Woken => StreamInv'
<1> SUFFICES ASSUME StreamInv, Woken PROVE StreamInv'
  OBVIOUS
<1> USE DEF StreamInv, Woken, Fail, NoLink, Succeeds, hwVars, masterVars, irqVars, bufVars,
    lifeVars
<1>1. TypeOK'
  <2>1. pending' \in BOOLEAN /\ qerror' \in BOOLEAN
    BY Zenon DEF TypeOK
  <2>2. finished' \subseteq Buffers /\ inflight' \in Buffers \cup {NoBuffer}
    BY DEF TypeOK, ThreadInv, Holding
  <2>3. wpc' \in {"exit", "nolink", "copy"} /\ queue' = queue
    OBVIOUS
  <2>4. bank' \in Slots
    BY DEF TypeOK
  <2> QED BY <2>1, <2>2, <2>3, <2>4, StreamAssumption DEF TypeOK, StreamAssumption
<1>2. ThreadInv'
  BY StreamAssumption DEF TypeOK, StreamAssumption, ThreadInv, Holding, Waiting
<1>3. MaskInv'
  BY DEF TypeOK, ThreadInv, Holding, Waiting, MaskInv, FrameInv
<1>4. FrameInv'
  BY DEF TypeOK, ThreadInv, MaskInv, FrameInv, Holding, Waiting, Quiet, UnderWay, Arrived
<1>5. Distinct'
  <2>1. /\ queue' = queue
        /\ \/ inflight' = NoBuffer /\ finished' = finished \cup {inflight}
           \/ UNCHANGED <<inflight, finished>>
    OBVIOUS
  <2> QED BY <2>1, StreamAssumption DEF StreamAssumption, TypeOK, ThreadInv, Holding, Distinct
<1> QED BY <1>1, <1>2, <1>3, <1>4, <1>5

(* CopyDone keeps the invariant.                                            *)
LEMMA CopyDoneKeeps == StreamInv /\ CopyDone => StreamInv'
<1> SUFFICES ASSUME StreamInv, CopyDone PROVE StreamInv'
  OBVIOUS
<1> USE DEF StreamInv, CopyDone, masterVars, frameVars, irqVars, lifeVars, Slots
<1>1. TypeOK'
  BY StreamAssumption DEF TypeOK, StreamAssumption, ThreadInv, Holding
<1>2. ThreadInv'
  BY StreamAssumption DEF TypeOK, StreamAssumption, ThreadInv, Holding, Waiting
<1>3. MaskInv'
  BY DEF TypeOK, ThreadInv, Holding, Waiting, MaskInv
<1>4. FrameInv'
  BY DEF TypeOK, ThreadInv, MaskInv, FrameInv, Holding, Waiting, Quiet, UnderWay, Arrived
<1>5. Distinct'
  BY StreamAssumption DEF StreamAssumption, TypeOK, ThreadInv, Holding, Distinct
<1> QED BY <1>1, <1>2, <1>3, <1>4, <1>5

(* LinkLost keeps the invariant.                                            *)
LEMMA LinkLostKeeps == StreamInv /\ LinkLost => StreamInv'
<1> SUFFICES ASSUME StreamInv, LinkLost PROVE StreamInv'
  OBVIOUS
<1> USE DEF StreamInv, LinkLost, CapStop, Fail, Succeeds, StopEngine, masterVars, frameVars,
    irqVars, bufVars, lifeVars
<1>1. TypeOK'
  <2>1. /\ videoOn' \in BOOLEAN /\ masked' \in BOOLEAN /\ master' \in BOOLEAN
        /\ outstanding' \in BOOLEAN /\ masterCleared' \in BOOLEAN /\ pendingDrained' \in BOOLEAN
        /\ qerror' \in BOOLEAN
    BY Zenon DEF TypeOK
  <2>2. finished' \subseteq Buffers /\ inflight' \in Buffers \cup {NoBuffer}
    BY DEF TypeOK, ThreadInv, Holding
  <2>3. armed' \subseteq Slots /\ status' \in 0 .. N
    BY DEF TypeOK
  <2>4. wpc' \in {"none", "loop", "lost", "exit", "exited"}
    BY DEF TypeOK, ThreadInv
  <2> QED BY <2>1, <2>2, <2>3, <2>4, StreamAssumption DEF TypeOK, StreamAssumption
<1>2. ThreadInv'
  BY StreamAssumption DEF TypeOK, StreamAssumption, ThreadInv, Holding, Waiting
<1>3. MaskInv'
  BY DEF TypeOK, ThreadInv, Holding, Waiting, MaskInv
<1>4. FrameInv'
  BY DEF TypeOK, ThreadInv, MaskInv, FrameInv, Holding, Waiting, Quiet, UnderWay, Arrived
<1>5. Distinct'
  BY StreamAssumption DEF StreamAssumption, TypeOK, ThreadInv, Holding, Distinct
<1> QED BY <1>1, <1>2, <1>3, <1>4, <1>5

(* Recover keeps the invariant.                                             *)
LEMMA RecoverKeeps == StreamInv /\ Recover => StreamInv'
<1> SUFFICES ASSUME StreamInv, Recover PROVE StreamInv'
  OBVIOUS
<1> USE DEF StreamInv, Recover, Enable, Fail, Succeeds, Blank, masterVars, irqVars, bufVars,
    lifeVars, Slots
<1>1. TypeOK'
  <2>1. /\ videoOn' \in BOOLEAN /\ irqBit' \in BOOLEAN /\ masked' \in BOOLEAN
        /\ master' \in BOOLEAN /\ started' \in BOOLEAN /\ pending' \in BOOLEAN
        /\ masterCleared' \in BOOLEAN /\ pendingDrained' \in BOOLEAN /\ recovering' \in BOOLEAN
        /\ qerror' \in BOOLEAN
    BY Zenon DEF TypeOK
  <2>2. finished' \subseteq Buffers /\ inflight' \in Buffers \cup {NoBuffer}
    BY DEF TypeOK, ThreadInv, Holding
  <2> QED BY <2>1, <2>2, StreamAssumption DEF TypeOK, StreamAssumption
<1>2. ThreadInv'
  BY StreamAssumption DEF TypeOK, StreamAssumption, ThreadInv, Holding, Waiting
<1>3. MaskInv'
  BY DEF TypeOK, ThreadInv, Holding, Waiting, MaskInv
<1>4. FrameInv'
  BY DEF TypeOK, ThreadInv, MaskInv, FrameInv, Holding, Waiting, Quiet, UnderWay, Arrived
<1>5. Distinct'
  BY StreamAssumption DEF StreamAssumption, TypeOK, ThreadInv, Holding, Distinct
<1> QED BY <1>1, <1>2, <1>3, <1>4, <1>5

(* RecoverStopped keeps the invariant.                                      *)
LEMMA RecoverStoppedKeeps == StreamInv /\ RecoverStopped => StreamInv'
<1> SUFFICES ASSUME StreamInv, RecoverStopped PROVE StreamInv'
  OBVIOUS
<1> USE DEF StreamInv, RecoverStopped, Fail, hwVars, masterVars, frameVars, irqVars, lifeVars
<1>1. TypeOK'
  <2>1. qerror' \in BOOLEAN
    BY Zenon DEF TypeOK
  <2>2. finished' \subseteq Buffers /\ inflight' \in Buffers \cup {NoBuffer}
    BY DEF TypeOK, ThreadInv, Holding
  <2> QED BY <2>1, <2>2, StreamAssumption DEF TypeOK, StreamAssumption
<1>2. ThreadInv'
  BY StreamAssumption DEF TypeOK, StreamAssumption, ThreadInv, Holding, Waiting
<1>3. MaskInv'
  BY DEF TypeOK, ThreadInv, Holding, Waiting, MaskInv
<1>4. FrameInv'
  BY DEF TypeOK, ThreadInv, MaskInv, FrameInv, Holding, Waiting, Quiet, UnderWay, Arrived
<1>5. Distinct'
  BY StreamAssumption DEF StreamAssumption, TypeOK, ThreadInv, Holding, Distinct
<1> QED BY <1>1, <1>2, <1>3, <1>4, <1>5

(* WorkerExit keeps the invariant.                                          *)
LEMMA WorkerExitKeeps == StreamInv /\ WorkerExit => StreamInv'
<1> SUFFICES ASSUME StreamInv, WorkerExit PROVE StreamInv'
  OBVIOUS
<1> USE DEF StreamInv, WorkerExit, CapStop, StopEngine, Succeeds, masterVars, frameVars,
    irqVars, bufVars, lifeVars
<1>1. TypeOK'
  <2>1. /\ videoOn' \in BOOLEAN /\ masked' \in BOOLEAN /\ master' \in BOOLEAN
        /\ outstanding' \in BOOLEAN /\ masterCleared' \in BOOLEAN /\ pendingDrained' \in BOOLEAN
    BY Zenon DEF TypeOK
  <2>2. armed' \subseteq Slots /\ status' \in 0 .. N
    BY DEF TypeOK
  <2>3. wpc' \in {"none", "loop", "lost", "exit", "exited"}
    BY DEF TypeOK, ThreadInv
  <2> QED BY <2>1, <2>2, <2>3, StreamAssumption DEF TypeOK, StreamAssumption
<1>2. ThreadInv'
  BY StreamAssumption DEF TypeOK, StreamAssumption, ThreadInv, Holding, Waiting
<1>3. MaskInv'
  BY DEF TypeOK, ThreadInv, Holding, Waiting, MaskInv
<1>4. FrameInv'
  BY DEF TypeOK, ThreadInv, MaskInv, FrameInv, Holding, Waiting, Quiet, UnderWay, Arrived
<1>5. Distinct'
  BY DEF TypeOK, ThreadInv, Holding, Distinct
<1> QED BY <1>1, <1>2, <1>3, <1>4, <1>5

(* QBuf keeps the invariant.                                                *)
LEMMA QBufKeeps ==
  \A b \in Buffers : StreamInv /\ QBuf(b) => StreamInv'
<1> SUFFICES ASSUME StreamInv, NEW b \in Buffers, QBuf(b) PROVE StreamInv'
  OBVIOUS
<1> USE DEF StreamInv, QBuf, Owned, hwVars, masterVars, frameVars, irqVars, lifeVars
<1>1. TypeOK'
  BY StreamAssumption DEF TypeOK, StreamAssumption
<1>2. ThreadInv'
  BY StreamAssumption DEF TypeOK, StreamAssumption, ThreadInv, Holding, Waiting
<1>3. MaskInv'
  BY DEF TypeOK, ThreadInv, Holding, Waiting, MaskInv
<1>4. FrameInv'
  BY DEF TypeOK, ThreadInv, MaskInv, FrameInv, Holding, Waiting, Quiet, UnderWay, Arrived
<1>5. Distinct'
  BY DEF TypeOK, ThreadInv, Holding, Distinct
<1> QED BY <1>1, <1>2, <1>3, <1>4, <1>5

(* DqBuf keeps the invariant.                                               *)
LEMMA DqBufKeeps ==
  \A b \in Buffers : StreamInv /\ DqBuf(b) => StreamInv'
<1> SUFFICES ASSUME StreamInv, NEW b \in Buffers, DqBuf(b) PROVE StreamInv'
  OBVIOUS
<1> USE DEF StreamInv, DqBuf, hwVars, masterVars, frameVars, irqVars, lifeVars
<1>1. TypeOK'
  BY StreamAssumption DEF TypeOK, StreamAssumption
<1>2. ThreadInv'
  BY StreamAssumption DEF TypeOK, StreamAssumption, ThreadInv, Holding, Waiting
<1>3. MaskInv'
  BY DEF TypeOK, ThreadInv, Holding, Waiting, MaskInv
<1>4. FrameInv'
  BY DEF TypeOK, ThreadInv, MaskInv, FrameInv, Holding, Waiting, Quiet, UnderWay, Arrived
<1>5. Distinct'
  BY DEF TypeOK, ThreadInv, Holding, Distinct
<1> QED BY <1>1, <1>2, <1>3, <1>4, <1>5

(* StreamOn keeps the invariant.                                            *)
LEMMA StreamOnKeeps == StreamInv /\ StreamOn => StreamInv'
<1> SUFFICES ASSUME StreamInv, StreamOn PROVE StreamInv'
  OBVIOUS
<1> USE DEF StreamInv, StreamOn, Enable, Blank, masterVars, irqVars, bufVars, Slots
<1>1. TypeOK'
  <2>1. /\ videoOn' \in BOOLEAN /\ irqBit' \in BOOLEAN /\ masked' \in BOOLEAN
        /\ master' \in BOOLEAN /\ started' \in BOOLEAN /\ pending' \in BOOLEAN
        /\ stopping' \in BOOLEAN /\ masterCleared' \in BOOLEAN /\ pendingDrained' \in BOOLEAN
        /\ recovering' \in BOOLEAN /\ on' \in BOOLEAN
    BY Zenon DEF TypeOK
  <2> QED BY <2>1, StreamAssumption DEF TypeOK, StreamAssumption
<1>2. ThreadInv'
  BY StreamAssumption DEF TypeOK, StreamAssumption, ThreadInv, Holding, Waiting
<1>3. MaskInv'
  BY DEF TypeOK, ThreadInv, Holding, Waiting, MaskInv
<1>4. FrameInv'
  BY DEF TypeOK, ThreadInv, MaskInv, FrameInv, Holding, Waiting, Quiet, UnderWay, Arrived
<1>5. Distinct'
  BY DEF TypeOK, ThreadInv, Holding, Distinct
<1> QED BY <1>1, <1>2, <1>3, <1>4, <1>5

(* StreamOnFails keeps the invariant.                                       *)
LEMMA StreamOnFailsKeeps == StreamInv /\ StreamOnFails => StreamInv'
<1> SUFFICES ASSUME StreamInv, StreamOnFails PROVE StreamInv'
  OBVIOUS
<1> USE DEF StreamInv, StreamOnFails, StopEngine, CapStop, Blank, Succeeds, masterVars,
    irqVars, bufVars, lifeVars, Slots
<1>1. TypeOK'
  <2>1. /\ videoOn' \in BOOLEAN /\ irqBit' \in BOOLEAN /\ masked' \in BOOLEAN
        /\ master' \in BOOLEAN /\ outstanding' \in BOOLEAN /\ started' \in BOOLEAN
        /\ pending' \in BOOLEAN /\ stopping' \in BOOLEAN /\ masterCleared' \in BOOLEAN
        /\ pendingDrained' \in BOOLEAN
    BY Zenon DEF TypeOK
  <2>2. armed' \subseteq Slots /\ status' \in 0 .. N
    BY DEF TypeOK
  <2>3. wpc' \in {"none", "loop", "lost", "exit", "exited"}
    BY DEF TypeOK, ThreadInv
  <2> QED BY <2>1, <2>2, <2>3, StreamAssumption DEF TypeOK, StreamAssumption
<1>2. ThreadInv'
  BY StreamAssumption DEF TypeOK, StreamAssumption, ThreadInv, Holding, Waiting
<1>3. MaskInv'
  BY DEF TypeOK, ThreadInv, Holding, Waiting, MaskInv
<1>4. FrameInv'
  <2>1. wpc' = "none" /\ armed' \subseteq armed /\ UNCHANGED <<complete, slot>>
    BY DEF ThreadInv
  <2>2. CASE ~masked'
    BY <2>1, <2>2 DEF TypeOK, MaskInv, FrameInv, ThreadInv, Holding, Waiting, Quiet
  <2>3. CASE masked'
    BY <2>1, <2>3 DEF FrameInv
  <2> QED BY <2>2, <2>3 DEF TypeOK
<1>5. Distinct'
  BY DEF TypeOK, ThreadInv, Holding, Distinct
<1> QED BY <1>1, <1>2, <1>3, <1>4, <1>5

(* StreamOff keeps the invariant.                                           *)
LEMMA StreamOffKeeps == StreamInv /\ StreamOff => StreamInv'
<1> SUFFICES ASSUME StreamInv, StreamOff PROVE StreamInv'
  OBVIOUS
<1> USE DEF StreamInv, StreamOff, hwVars, masterVars, frameVars, irqVars, bufVars
<1>1. TypeOK'
  <2>1. stopping' \in BOOLEAN
    BY Zenon DEF TypeOK
  <2> QED BY <2>1, StreamAssumption DEF TypeOK, StreamAssumption
<1>2. ThreadInv'
  BY StreamAssumption DEF TypeOK, StreamAssumption, ThreadInv, Holding, Waiting
<1>3. MaskInv'
  BY DEF TypeOK, ThreadInv, Holding, Waiting, MaskInv
<1>4. FrameInv'
  BY DEF TypeOK, ThreadInv, MaskInv, FrameInv, Holding, Waiting, Quiet, UnderWay, Arrived
<1>5. Distinct'
  BY DEF TypeOK, ThreadInv, Holding, Distinct
<1> QED BY <1>1, <1>2, <1>3, <1>4, <1>5

(* KthreadStop keeps the invariant.                                         *)
LEMMA KthreadStopKeeps == StreamInv /\ KthreadStop => StreamInv'
<1> SUFFICES ASSUME StreamInv, KthreadStop PROVE StreamInv'
  OBVIOUS
<1> USE DEF StreamInv, KthreadStop, hwVars, masterVars, frameVars, irqVars, bufVars
<1>1. TypeOK'
  BY StreamAssumption DEF TypeOK, StreamAssumption
<1>2. ThreadInv'
  BY StreamAssumption DEF TypeOK, StreamAssumption, ThreadInv, Holding, Waiting
<1>3. MaskInv'
  BY DEF TypeOK, ThreadInv, Holding, Waiting, MaskInv
<1>4. FrameInv'
  BY DEF TypeOK, ThreadInv, MaskInv, FrameInv, Holding, Waiting, Quiet, UnderWay, Arrived
<1>5. Distinct'
  BY DEF TypeOK, ThreadInv, Holding, Distinct
<1> QED BY <1>1, <1>2, <1>3, <1>4, <1>5

(* Joined keeps the invariant.                                              *)
LEMMA JoinedKeeps == StreamInv /\ Joined => StreamInv'
<1> SUFFICES ASSUME StreamInv, Joined PROVE StreamInv'
  OBVIOUS
<1> USE DEF StreamInv, Joined, hwVars, masterVars, frameVars, irqVars
<1>1. TypeOK'
  <2>1. on' \in BOOLEAN /\ qerror' \in BOOLEAN
    BY Zenon DEF TypeOK
  <2> QED BY <2>1, StreamAssumption DEF TypeOK, StreamAssumption
<1>2. ThreadInv'
  BY StreamAssumption DEF TypeOK, StreamAssumption, ThreadInv, Holding, Waiting
<1>3. MaskInv'
  BY DEF TypeOK, ThreadInv, Holding, Waiting, MaskInv
<1>4. FrameInv'
  BY DEF TypeOK, ThreadInv, MaskInv, FrameInv, Holding, Waiting, Quiet, UnderWay, Arrived
<1>5. Distinct'
  BY DEF TypeOK, ThreadInv, Holding, Distinct
<1> QED BY <1>1, <1>2, <1>3, <1>4, <1>5

(* Unregister keeps the invariant.                                          *)
LEMMA UnregisterKeeps == StreamInv /\ Unregister => StreamInv'
<1> SUFFICES ASSUME StreamInv, Unregister PROVE StreamInv'
  OBVIOUS
<1> USE DEF StreamInv, Unregister, hwVars, masterVars, frameVars, irqVars, bufVars
<1>1. TypeOK'
  BY StreamAssumption DEF TypeOK, StreamAssumption
<1>2. ThreadInv'
  BY StreamAssumption DEF TypeOK, StreamAssumption, ThreadInv, Holding, Waiting
<1>3. MaskInv'
  BY DEF TypeOK, ThreadInv, Holding, Waiting, MaskInv
<1>4. FrameInv'
  BY DEF TypeOK, ThreadInv, MaskInv, FrameInv, Holding, Waiting, Quiet, UnderWay, Arrived
<1>5. Distinct'
  BY DEF TypeOK, ThreadInv, Holding, Distinct
<1> QED BY <1>1, <1>2, <1>3, <1>4, <1>5

(* DestroyStop keeps the invariant.                                         *)
LEMMA DestroyStopKeeps == StreamInv /\ DestroyStop => StreamInv'
<1> SUFFICES ASSUME StreamInv, DestroyStop PROVE StreamInv'
  OBVIOUS
<1> USE DEF StreamInv, DestroyStop, StopEngine, Succeeds, masterVars, frameVars, irqVars,
    bufVars
<1>1. TypeOK'
  <2>1. /\ videoOn' \in BOOLEAN /\ masked' \in BOOLEAN /\ master' \in BOOLEAN
        /\ outstanding' \in BOOLEAN /\ masterCleared' \in BOOLEAN /\ pendingDrained' \in BOOLEAN
    BY Zenon DEF TypeOK
  <2>2. armed' \subseteq Slots /\ status' \in 0 .. N
    BY DEF TypeOK
  <2>3. wpc' \in {"none", "loop", "lost", "exit", "exited"}
    BY DEF TypeOK, ThreadInv
  <2> QED BY <2>1, <2>2, <2>3, StreamAssumption DEF TypeOK, StreamAssumption
<1>2. ThreadInv'
  BY StreamAssumption DEF TypeOK, StreamAssumption, ThreadInv, Holding, Waiting, MaskInv
<1>3. MaskInv'
  BY DEF TypeOK, ThreadInv, Holding, Waiting, MaskInv
<1>4. FrameInv'
  BY DEF TypeOK, ThreadInv, MaskInv, FrameInv, Holding, Waiting, Quiet, UnderWay, Arrived
<1>5. Distinct'
  BY DEF TypeOK, ThreadInv, Holding, Distinct
<1> QED BY <1>1, <1>2, <1>3, <1>4, <1>5

(* DestroyAudio keeps the invariant.                                        *)
LEMMA DestroyAudioKeeps == StreamInv /\ DestroyAudio => StreamInv'
<1> SUFFICES ASSUME StreamInv, DestroyAudio PROVE StreamInv'
  OBVIOUS
<1> USE DEF StreamInv, DestroyAudio, Succeeds, frameVars, irqVars, bufVars
<1>1. TypeOK'
  <2>1. /\ master' \in BOOLEAN /\ outstanding' \in BOOLEAN /\ masterCleared' \in BOOLEAN
        /\ pendingDrained' \in BOOLEAN /\ audio' \in BOOLEAN
    BY Zenon DEF TypeOK
  <2> QED BY <2>1, StreamAssumption DEF TypeOK, StreamAssumption
<1>2. ThreadInv'
  BY StreamAssumption DEF TypeOK, StreamAssumption, ThreadInv, Holding, Waiting
<1>3. MaskInv'
  BY DEF TypeOK, ThreadInv, Holding, Waiting, MaskInv
<1>4. FrameInv'
  BY DEF TypeOK, ThreadInv, MaskInv, FrameInv, Holding, Waiting, Quiet, UnderWay, Arrived
<1>5. Distinct'
  BY DEF TypeOK, ThreadInv, Holding, Distinct
<1> QED BY <1>1, <1>2, <1>3, <1>4, <1>5

(* DestroyFree keeps the invariant.                                         *)
LEMMA DestroyFreeKeeps == StreamInv /\ DestroyFree => StreamInv'
<1> SUFFICES ASSUME StreamInv, DestroyFree PROVE StreamInv'
  OBVIOUS
<1> USE DEF StreamInv, DestroyFree, hwVars, masterVars, frameVars, irqVars, bufVars
<1>1. TypeOK'
  BY StreamAssumption DEF TypeOK, StreamAssumption
<1>2. ThreadInv'
  BY StreamAssumption DEF TypeOK, StreamAssumption, ThreadInv, Holding, Waiting
<1>3. MaskInv'
  BY DEF TypeOK, ThreadInv, Holding, Waiting, MaskInv
<1>4. FrameInv'
  BY DEF TypeOK, ThreadInv, MaskInv, FrameInv, Holding, Waiting, Quiet, UnderWay, Arrived
<1>5. Distinct'
  BY DEF TypeOK, ThreadInv, Holding, Distinct
<1> QED BY <1>1, <1>2, <1>3, <1>4, <1>5

(* Every step keeps the invariant.                                          *)
LEMMA NextKeeps == StreamInv /\ [Next]_vars => StreamInv'
<1> SUFFICES ASSUME StreamInv, [Next]_vars PROVE StreamInv'
  OBVIOUS
<1>1. CASE UNCHANGED vars
  BY <1>1 DEF StreamInv, TypeOK, ThreadInv, MaskInv, FrameInv, Quiet, UnderWay, Arrived,
    Distinct, vars, hwVars, masterVars, frameVars, irqVars, bufVars, lifeVars
<1> QED
  BY <1>1, HwCompleteKeeps, InputChangeKeeps, AudioStartKeeps, IrqReadKeeps, IrqAckKeeps,
    IrqSlotKeeps, IrqSignalKeeps, ThreadRunKeeps, WorkerLoopKeeps, TransferKeeps,
    ArmResetKeeps, ArmSlotKeeps, ArmKeeps, WaitDoneKeeps, WaitTimeoutKeeps, WokenKeeps,
    CopyDoneKeeps, LinkLostKeeps, RecoverKeeps, RecoverStoppedKeeps, WorkerExitKeeps,
    QBufKeeps, DqBufKeeps, StreamOnKeeps, StreamOnFailsKeeps, StreamOffKeeps, KthreadStopKeeps,
    JoinedKeeps, UnregisterKeeps, DestroyStopKeeps, DestroyAudioKeeps, DestroyFreeKeeps
    DEF Next, Irq, Worker, User, Stopping, Destroy, Removed

(* The running driver keeps the invariant, LateSignal or not.               *)
THEOREM StreamInvariant == Spec => []StreamInv
  BY InitEstablishes, NextKeeps, PTL DEF Spec

(* Type correctness.                                                        *)
THEOREM StreamTypes == Spec => []TypeOK
<1>1. StreamInv => TypeOK
  BY DEF StreamInv
<1> QED BY <1>1, StreamInvariant, PTL

(* cap_copy() copies a whole frame that nobody saw and that the FPGA can no *)
(* longer write.                                                            *)
THEOREM CopiesAreFresh == Spec => []CopyIsFresh
<1>1. StreamInv => CopyIsFresh
  BY DEF StreamInv, FrameInv, CopyIsFresh
<1> QED BY <1>1, StreamInvariant, PTL

(* The entries of a queue of different buffers are as many as its places.   *)
LEMMA DistinctCount ==
  ASSUME NEW s \in Seq(Buffers), \A i, j \in 1 .. Len(s) : s[i] = s[j] => i = j
  PROVE  Cardinality({s[i] : i \in DOMAIN s}) = Len(s)
<1> DEFINE R == {s[i] : i \in DOMAIN s}
           f == [i \in 1 .. Len(s) |-> s[i]]
<1>1. Len(s) \in Nat /\ DOMAIN s = 1 .. Len(s)
  OBVIOUS
<1>2. f \in Bijection(1 .. Len(s), R)
  <2>1. f \in [1 .. Len(s) -> R]
    BY <1>1
  <2>2. \A i, j \in 1 .. Len(s) : f[i] = f[j] => i = j
    OBVIOUS
  <2>3. \A r \in R : \E i \in 1 .. Len(s) : f[i] = r
    BY <1>1
  <2> QED BY <2>1, <2>2, <2>3 DEF Bijection, Injection, Surjection, IsInjective
<1>3. ExistsBijection(1 .. Len(s), R)
  BY <1>2 DEF ExistsBijection
<1>4. IsFiniteSet(1 .. Len(s)) /\ Cardinality(1 .. Len(s)) = Len(s)
  BY <1>1, FS_Interval
<1> QED BY <1>3, <1>4, FS_Bijection

(* A buffer is in one place only, and the worker has none when the stream   *)
(* is stopped.                                                              *)
THEOREM BuffersHaveOneOwner == Spec => []BuffersOwnedOnce
<1>1. ASSUME StreamInv PROVE BuffersOwnedOnce
  <2> USE <1>1 DEF StreamInv
  <2>1. Cardinality({queue[i] : i \in DOMAIN queue}) = Len(queue)
    BY DistinctCount DEF TypeOK, Distinct
  <2>2. DOMAIN queue = 1 .. Len(queue)
    BY DEF TypeOK
  <2>3. ~on => inflight = NoBuffer
    BY DEF ThreadInv, Holding
  <2> QED BY <2>1, <2>2, <2>3 DEF Distinct, BuffersOwnedOnce
<1> QED BY <1>1, StreamInvariant, PTL

-----------------------------------------------------------------------------

(* A step keeps what the drain promises: only a started engine is armed,    *)
(* cap_stop() disarms it, and a drain that succeeded stands until then.     *)
LEMMA DrainKept ==
  ASSUME ~LateSignal, StreamInv, DrainInv, [Next]_vars
  PROVE  DrainInv'
<1> USE ~LateSignal DEF StreamInv
<1>1. CASE HwComplete
  BY <1>1 DEF TypeOK, ThreadInv, MaskInv, FrameInv, DrainInv, Waiting, HwComplete, FromStatus,
    masterVars, frameVars, irqVars, bufVars, lifeVars, Slots
<1>2. CASE InputChange
  BY <1>2 DEF TypeOK, ThreadInv, MaskInv, FrameInv, DrainInv, Waiting, InputChange, hwVars,
    masterVars, frameVars, irqVars, bufVars, lifeVars, AwaitsFirstSignal
<1>3. CASE AudioStart
  BY <1>3 DEF TypeOK, ThreadInv, MaskInv, FrameInv, DrainInv, Waiting, AudioStart, masterVars,
    frameVars, irqVars, bufVars, lifeVars
<1>4. CASE IrqRead
  BY <1>4 DEF TypeOK, ThreadInv, MaskInv, FrameInv, DrainInv, Waiting, IrqRead, hwVars,
    masterVars, frameVars, bufVars, lifeVars
<1>5. CASE IrqAck
  BY <1>5 DEF TypeOK, ThreadInv, MaskInv, FrameInv, DrainInv, Waiting, IrqAck, masterVars,
    frameVars, bufVars, lifeVars
<1>6. CASE IrqSlot
  BY <1>6 DEF TypeOK, ThreadInv, MaskInv, FrameInv, DrainInv, Waiting, IrqSlot, hwVars,
    masterVars, bufVars, lifeVars
<1>7. CASE IrqSignal
  BY <1>7 DEF TypeOK, ThreadInv, MaskInv, FrameInv, DrainInv, Waiting, IrqSignal, hwVars,
    masterVars, frameVars, bufVars, lifeVars
<1>8. CASE ThreadRun
  BY <1>8 DEF TypeOK, ThreadInv, MaskInv, FrameInv, DrainInv, Waiting, ThreadRun, hwVars,
    masterVars, frameVars, irqVars, bufVars, lifeVars
<1>9. CASE WorkerLoop
  BY <1>9 DEF TypeOK, ThreadInv, MaskInv, FrameInv, DrainInv, Waiting, WorkerLoop, hwVars,
    masterVars, frameVars, irqVars, bufVars, lifeVars
<1>10. CASE Transfer
  BY <1>10 DEF TypeOK, ThreadInv, MaskInv, FrameInv, DrainInv, Waiting, Transfer, Fail, NoLink,
    hwVars, masterVars, frameVars, irqVars, bufVars, lifeVars
<1>11. CASE ArmReset
  BY <1>11 DEF TypeOK, ThreadInv, MaskInv, FrameInv, DrainInv, Waiting, ArmReset, hwVars,
    masterVars, irqVars, bufVars, lifeVars
<1>12. CASE ArmSlot
  BY <1>12 DEF TypeOK, ThreadInv, MaskInv, FrameInv, DrainInv, Waiting, ArmSlot, FromStatus,
    hwVars, masterVars, irqVars, bufVars, lifeVars, Slots
<1>13. CASE Arm
  BY <1>13 DEF TypeOK, ThreadInv, MaskInv, FrameInv, DrainInv, Waiting, Arm, masterVars,
    irqVars, bufVars, lifeVars, Slots
<1>14. CASE WaitDone
  BY <1>14 DEF TypeOK, ThreadInv, MaskInv, FrameInv, DrainInv, Waiting, WaitDone, hwVars,
    masterVars, frameVars, irqVars, bufVars, lifeVars
<1>15. CASE WaitTimeout
  BY <1>15 DEF TypeOK, ThreadInv, MaskInv, FrameInv, DrainInv, Waiting, WaitTimeout, hwVars,
    masterVars, frameVars, irqVars, bufVars, lifeVars
<1>16. CASE Woken
  BY <1>16 DEF TypeOK, ThreadInv, MaskInv, FrameInv, DrainInv, Waiting, Woken, Fail, NoLink,
    Succeeds, hwVars, masterVars, irqVars, bufVars, lifeVars
<1>17. CASE CopyDone
  BY <1>17 DEF TypeOK, ThreadInv, MaskInv, FrameInv, DrainInv, Waiting, CopyDone, masterVars,
    frameVars, irqVars, lifeVars, Slots
<1>18. CASE LinkLost
  BY <1>18 DEF TypeOK, ThreadInv, MaskInv, FrameInv, DrainInv, Waiting, LinkLost, CapStop,
    Fail, Succeeds, StopEngine, masterVars, frameVars, irqVars, bufVars, lifeVars
<1>19. CASE Recover
  BY <1>19 DEF TypeOK, ThreadInv, MaskInv, FrameInv, DrainInv, Waiting, Recover, Enable, Fail,
    Succeeds, Blank, masterVars, irqVars, bufVars, lifeVars, Slots
<1>20. CASE RecoverStopped
  BY <1>20 DEF TypeOK, ThreadInv, MaskInv, FrameInv, DrainInv, Waiting, RecoverStopped, Fail,
    hwVars, masterVars, frameVars, irqVars, lifeVars
<1>21. CASE WorkerExit
  BY <1>21 DEF TypeOK, ThreadInv, MaskInv, FrameInv, DrainInv, Waiting, WorkerExit, CapStop,
    StopEngine, Succeeds, masterVars, frameVars, irqVars, bufVars, lifeVars
<1>22. CASE \E b \in Buffers : QBuf(b)
  BY <1>22 DEF TypeOK, ThreadInv, MaskInv, FrameInv, DrainInv, Waiting, QBuf, Owned, hwVars,
    masterVars, frameVars, irqVars, lifeVars
<1>23. CASE \E b \in Buffers : DqBuf(b)
  BY <1>23 DEF TypeOK, ThreadInv, MaskInv, FrameInv, DrainInv, Waiting, DqBuf, hwVars,
    masterVars, frameVars, irqVars, lifeVars
<1>24. CASE StreamOn
  BY <1>24 DEF TypeOK, ThreadInv, MaskInv, FrameInv, DrainInv, Waiting, StreamOn, Enable,
    Blank, masterVars, irqVars, bufVars, Slots
<1>25. CASE StreamOnFails
  <2>1. wpc' = "none" /\ life' = "live"
    BY <1>25 DEF StreamOnFails, ThreadInv, lifeVars
  <2>2. CASE UNCHANGED <<armed, videoOn, masked, pendingDrained, outstanding, started>>
    BY <1>25, <2>1, <2>2 DEF StreamOnFails, ThreadInv, DrainInv, Waiting
  <2>3. CASE StopEngine /\ started'
    <3>1. pendingDrained' => ~outstanding'
      BY <2>3, StreamAssumption DEF StreamAssumption, StopEngine, Succeeds, masterVars, TypeOK,
        MaskInv
    <3> QED BY <3>1, <2>1, <2>3 DEF DrainInv, StopEngine, Waiting
  <2>4. \/ UNCHANGED <<armed, videoOn, masked, pendingDrained, outstanding, started>>
        \/ StopEngine /\ started'
    BY <1>25 DEF StreamOnFails, CapStop, masterVars
  <2> QED BY <2>2, <2>3, <2>4
<1>26. CASE StreamOff
  BY <1>26 DEF TypeOK, ThreadInv, MaskInv, FrameInv, DrainInv, Waiting, StreamOff, hwVars,
    masterVars, frameVars, irqVars, bufVars
<1>27. CASE KthreadStop
  BY <1>27 DEF TypeOK, ThreadInv, MaskInv, FrameInv, DrainInv, Waiting, KthreadStop, hwVars,
    masterVars, frameVars, irqVars, bufVars
<1>28. CASE Joined
  BY <1>28 DEF TypeOK, ThreadInv, MaskInv, FrameInv, DrainInv, Waiting, Joined, hwVars,
    masterVars, frameVars, irqVars
<1>29. CASE Unregister
  BY <1>29 DEF TypeOK, ThreadInv, MaskInv, FrameInv, DrainInv, Waiting, Unregister, hwVars,
    masterVars, frameVars, irqVars, bufVars
<1>30. CASE DestroyStop
  BY <1>30 DEF TypeOK, ThreadInv, MaskInv, FrameInv, DrainInv, Waiting, DestroyStop,
    StopEngine, Succeeds, masterVars, frameVars, irqVars, bufVars
<1>31. CASE DestroyAudio
  BY <1>31 DEF TypeOK, ThreadInv, MaskInv, FrameInv, DrainInv, Waiting, DestroyAudio, Succeeds,
    frameVars, irqVars, bufVars
<1>32. CASE DestroyFree
  BY <1>32 DEF TypeOK, ThreadInv, MaskInv, FrameInv, DrainInv, Waiting, DestroyFree, hwVars,
    masterVars, frameVars, irqVars, bufVars
<1>33. CASE UNCHANGED vars
  BY <1>33 DEF DrainInv, vars, hwVars, masterVars, frameVars, irqVars, bufVars, lifeVars
<1> QED BY <1>1, <1>2, <1>3, <1>4, <1>5, <1>6, <1>7, <1>8, <1>9, <1>10, <1>11, <1>12, <1>13,
    <1>14, <1>15, <1>16, <1>17, <1>18, <1>19, <1>20, <1>21, <1>22, <1>23, <1>24, <1>25, <1>26,
    <1>27, <1>28, <1>29, <1>30, <1>31, <1>32, <1>33
      DEF Next, Irq, Worker, User, Stopping, Destroy, Removed

(* Initially nothing was armed.                                             *)
LEMMA DrainInitially == Init => DrainInv
  BY DEF Init, DrainInv

(* With the invariant, what is freed was drained and is not armed.          *)
LEMMA DrainSuffices == StreamInv /\ DrainInv => FreedIsSafe /\ TeardownDisablesEngine
  BY DEF StreamInv, ThreadInv, MaskInv, DrainInv, Waiting, FreedIsSafe, TeardownDisablesEngine

(* Unless the first HDMI signal falls between two checks of one start, only *)
(* a started engine is ever armed and what was drained stays drained.       *)
THEOREM DrainInvariant == ASSUME ~LateSignal PROVE Spec => []DrainInv
<1>1. StreamInv /\ DrainInv /\ [Next]_vars => DrainInv'
  BY DrainKept
<1> QED BY <1>1, DrainInitially, StreamInvariant, PTL DEF Spec

(* Unless the first HDMI signal falls between two checks of one start, the  *)
(* DMA buffers are freed only after the writes of the device were drained.  *)
THEOREM FreeIsSafe == ASSUME ~LateSignal PROVE Spec => []FreedIsSafe
  BY DrainSuffices, DrainInvariant, StreamInvariant, PTL

(* Under the same condition video is off and no slot is armed when the      *)
(* driver is gone.                                                          *)
THEOREM TeardownStopsEngine == ASSUME ~LateSignal PROVE Spec => []TeardownDisablesEngine
  BY DrainSuffices, DrainInvariant, StreamInvariant, PTL

-----------------------------------------------------------------------------

(* A frame is in memory that nobody was given.                              *)
HasFrame == \E s \in Slots : mem[s] = "fresh"

(* One slot is armed at a time, and nothing is armed while a frame waits:   *)
(* no second frame can arrive before the first was copied or wiped.         *)
FrameCount ==
  /\ \A s, t \in armed : s = t
  /\ \A s, t \in Slots : mem[s] = "fresh" /\ mem[t] = "fresh" => s = t
  /\ HasFrame => armed = {} \/ ~videoOn
  /\ HasFrame => wpc \in Waiting \cup {"copy", "lost", "exited", "none"}

(* Initially memory is blank.                                               *)
LEMMA FrameCountInitially == Init => FrameCount
  BY DEF Init, FrameCount, HasFrame, Blank

(* Every step leaves at most one frame, which waits with nothing armed.     *)
LEMMA FrameCountKept ==
  ASSUME StreamInv, DrainInv, FrameCount, [Next]_vars
  PROVE  FrameCount'
<1> USE DEF StreamInv
<1>1. CASE HwComplete
  BY <1>1 DEF TypeOK, ThreadInv, MaskInv, FrameInv, DrainInv, Quiet, FrameCount, HasFrame,
    Waiting, HwComplete, FromStatus, masterVars, frameVars, irqVars, bufVars, lifeVars, Slots
<1>2. CASE InputChange
  BY <1>2 DEF FrameCount, HasFrame, Waiting, InputChange, hwVars, masterVars, frameVars,
    irqVars, bufVars, lifeVars
<1>3. CASE AudioStart
  BY <1>3 DEF FrameCount, HasFrame, Waiting, AudioStart, masterVars, frameVars, irqVars,
    bufVars, lifeVars
<1>4. CASE IrqRead
  BY <1>4 DEF FrameCount, HasFrame, Waiting, IrqRead, hwVars, masterVars, frameVars, bufVars,
    lifeVars
<1>5. CASE IrqAck
  BY <1>5 DEF FrameCount, HasFrame, Waiting, IrqAck, masterVars, frameVars, bufVars, lifeVars
<1>6. CASE IrqSlot
  BY <1>6 DEF FrameCount, HasFrame, Waiting, IrqSlot, hwVars, masterVars, bufVars, lifeVars
<1>7. CASE IrqSignal
  BY <1>7 DEF FrameCount, HasFrame, Waiting, IrqSignal, hwVars, masterVars, frameVars, bufVars,
    lifeVars
<1>8. CASE ThreadRun
  BY <1>8 DEF FrameCount, HasFrame, Waiting, ThreadRun, hwVars, masterVars, frameVars, irqVars,
    bufVars, lifeVars
<1>9. CASE WorkerLoop
  BY <1>9 DEF FrameCount, HasFrame, Waiting, WorkerLoop, hwVars, masterVars, frameVars,
    irqVars, bufVars, lifeVars
<1>10. CASE Transfer
  BY <1>10 DEF FrameCount, HasFrame, Waiting, Transfer, Fail, NoLink, hwVars, masterVars,
    frameVars, irqVars, bufVars, lifeVars
<1>11. CASE ArmReset
  BY <1>11 DEF FrameCount, HasFrame, Waiting, ArmReset, hwVars, masterVars, irqVars, bufVars,
    lifeVars
<1>12. CASE ArmSlot
  BY <1>12 DEF FrameCount, HasFrame, Waiting, ArmSlot, FromStatus, hwVars, masterVars, irqVars,
    bufVars, lifeVars, Slots
<1>13. CASE Arm
  BY <1>13 DEF FrameCount, HasFrame, Waiting, Arm, masterVars, irqVars, bufVars, lifeVars
<1>14. CASE WaitDone
  BY <1>14 DEF FrameCount, HasFrame, Waiting, WaitDone, hwVars, masterVars, frameVars, irqVars,
    bufVars, lifeVars
<1>15. CASE WaitTimeout
  BY <1>15 DEF FrameCount, HasFrame, Waiting, WaitTimeout, hwVars, masterVars, frameVars,
    irqVars, bufVars, lifeVars
<1>16. CASE Woken
  BY <1>16 DEF FrameCount, HasFrame, Waiting, Woken, Fail, NoLink, Succeeds, hwVars,
    masterVars, irqVars, bufVars, lifeVars
<1>17. CASE CopyDone
  BY <1>17 DEF TypeOK, ThreadInv, MaskInv, FrameInv, DrainInv, Quiet, FrameCount, HasFrame,
    Waiting, CopyDone, masterVars, frameVars, irqVars, lifeVars
<1>18. CASE LinkLost
  BY <1>18 DEF FrameCount, HasFrame, Waiting, LinkLost, CapStop, Fail, Succeeds, StopEngine,
    masterVars, frameVars, irqVars, bufVars, lifeVars
<1>19. CASE Recover
  BY <1>19 DEF FrameCount, HasFrame, Waiting, Recover, Enable, Fail, Succeeds, Blank,
    masterVars, irqVars, bufVars, lifeVars, Slots
<1>20. CASE RecoverStopped
  BY <1>20 DEF FrameCount, HasFrame, Waiting, RecoverStopped, Fail, hwVars, masterVars,
    frameVars, irqVars, lifeVars
<1>21. CASE WorkerExit
  BY <1>21 DEF FrameCount, HasFrame, Waiting, WorkerExit, CapStop, StopEngine, Succeeds,
    masterVars, frameVars, irqVars, bufVars, lifeVars
<1>22. CASE \E b \in Buffers : QBuf(b)
  BY <1>22 DEF FrameCount, HasFrame, Waiting, QBuf, hwVars, masterVars, frameVars, irqVars,
    lifeVars
<1>23. CASE \E b \in Buffers : DqBuf(b)
  BY <1>23 DEF FrameCount, HasFrame, Waiting, DqBuf, hwVars, masterVars, frameVars, irqVars,
    lifeVars
<1>24. CASE StreamOn
  BY <1>24 DEF FrameCount, HasFrame, Waiting, StreamOn, Enable, Blank, masterVars, irqVars,
    bufVars, Slots
<1>25. CASE StreamOnFails
  BY <1>25 DEF FrameCount, HasFrame, Waiting, StreamOnFails, StopEngine, CapStop, Succeeds,
    Blank, masterVars, irqVars, bufVars, lifeVars, Slots
<1>26. CASE StreamOff
  BY <1>26 DEF FrameCount, HasFrame, Waiting, StreamOff, hwVars, masterVars, frameVars,
    irqVars, bufVars
<1>27. CASE KthreadStop
  BY <1>27 DEF FrameCount, HasFrame, Waiting, KthreadStop, hwVars, masterVars, frameVars,
    irqVars, bufVars
<1>28. CASE Joined
  BY <1>28 DEF FrameCount, HasFrame, Waiting, Joined, hwVars, masterVars, frameVars, irqVars
<1>29. CASE Unregister
  BY <1>29 DEF FrameCount, HasFrame, Waiting, Unregister, hwVars, masterVars, frameVars,
    irqVars, bufVars
<1>30. CASE DestroyStop
  BY <1>30 DEF FrameCount, HasFrame, Waiting, DestroyStop, StopEngine, Succeeds, masterVars,
    frameVars, irqVars, bufVars
<1>31. CASE DestroyAudio
  BY <1>31 DEF FrameCount, HasFrame, Waiting, DestroyAudio, Succeeds, frameVars, irqVars,
    bufVars
<1>32. CASE DestroyFree
  BY <1>32 DEF FrameCount, HasFrame, Waiting, DestroyFree, hwVars, masterVars, frameVars,
    irqVars, bufVars
<1>33. CASE UNCHANGED vars
  BY <1>33 DEF FrameCount, HasFrame, vars, hwVars, masterVars, frameVars, irqVars, bufVars,
    lifeVars
<1> QED BY <1>1, <1>2, <1>3, <1>4, <1>5, <1>6, <1>7, <1>8, <1>9, <1>10, <1>11, <1>12, <1>13,
    <1>14, <1>15, <1>16, <1>17, <1>18, <1>19, <1>20, <1>21, <1>22, <1>23, <1>24, <1>25, <1>26,
    <1>27, <1>28, <1>29, <1>30, <1>31, <1>32, <1>33 DEF Next, Irq, Worker, User, Stopping,
    Destroy, Removed

(* The phases of the stream in which the worker may still fill a buffer.    *)
Running == wpc \notin {"none", "exit", "exited"}

(* A step that leaves the worker's phase, the memory and the buffers alone  *)
(* is a stutter of the stream.                                              *)
LEMMA StreamStutter ==
  ASSUME UNCHANGED <<mem, bufVars, qerror>>,
         UNCHANGED wpc \/ (Running /\ Running')
  PROVE  UNCHANGED Stream!vars
<1>1. UNCHANGED HasFrame
  BY DEF HasFrame
<1>2. UNCHANGED (IF wpc = "none" THEN "off"
                 ELSE IF wpc \in {"exit", "exited"} THEN "over" ELSE "running")
  BY DEF Running
<1> QED BY <1>1, <1>2 DEF Stream!vars, HasFrame, bufVars

(* Whatever else a step does, a failing worker is a stream that gives up.   *)
LEMMA FailGivesUp ==
  ASSUME TypeOK, Fail, Running, inflight # NoBuffer, UNCHANGED HasFrame \/ ~HasFrame'
  PROVE  Stream!GiveUp
<1>1. qerror' = TRUE \/ UNCHANGED qerror
  BY Zenon DEF Fail, TypeOK
<1> QED BY <1>1 DEF Fail, Running, HasFrame, Stream!GiveUp

(* Every step of the paced path is a step of the stream or a stutter.       *)
LEMMA StreamStep ==
  ASSUME StreamInv, DrainInv, FrameCount, [Next]_vars
  PROVE  [Stream!Next]_(Stream!vars)
<1> USE DEF StreamInv
<1>1. CASE HwComplete
  <2>1. ~HasFrame /\ HasFrame' /\ wpc # "none"
    BY <1>1 DEF TypeOK, ThreadInv, MaskInv, FrameInv, DrainInv, FrameCount, HasFrame, Waiting,
      Quiet, HwComplete, FromStatus, Slots
  <2>2. Stream!Frame
    BY <1>1, <2>1 DEF HwComplete, HasFrame, bufVars, Stream!Frame
  <2> QED BY <2>2 DEF Stream!Next
<1>2. CASE InputChange
  BY <1>2, StreamStutter DEF InputChange, hwVars, bufVars, Running
<1>3. CASE AudioStart
  BY <1>3, StreamStutter DEF AudioStart, bufVars, Running
<1>4. CASE IrqRead
  BY <1>4, StreamStutter DEF IrqRead, hwVars, bufVars, Running
<1>5. CASE IrqAck
  BY <1>5, StreamStutter DEF IrqAck, bufVars, Running
<1>6. CASE IrqSlot
  BY <1>6, StreamStutter DEF IrqSlot, hwVars, bufVars, Running
<1>7. CASE IrqSignal
  BY <1>7, StreamStutter DEF IrqSignal, hwVars, bufVars, Running
<1>8. CASE ArmReset
  BY <1>8, StreamStutter DEF ArmReset, hwVars, bufVars, Running
<1>9. CASE ArmSlot
  BY <1>9, StreamStutter DEF ArmSlot, FromStatus, hwVars, bufVars, Running
<1>10. CASE Arm
  BY <1>10, StreamStutter DEF Arm, bufVars, Running
<1>11. CASE WaitDone
  BY <1>11, StreamStutter DEF WaitDone, hwVars, bufVars, Running
<1>12. CASE WaitTimeout
  BY <1>12, StreamStutter DEF WaitTimeout, hwVars, bufVars, Running
<1>13. CASE StreamOff
  BY <1>13, StreamStutter DEF StreamOff, hwVars, bufVars, Running
<1>14. CASE KthreadStop
  BY <1>14, StreamStutter DEF KthreadStop, hwVars, bufVars, Running
<1>15. CASE Unregister
  BY <1>15, StreamStutter DEF Unregister, hwVars, bufVars, Running
<1>16. CASE DestroyStop
  BY <1>16, StreamStutter DEF DestroyStop, StopEngine, Succeeds, bufVars, Running
<1>17. CASE DestroyAudio
  BY <1>17, StreamStutter DEF DestroyAudio, Succeeds, bufVars, Running
<1>18. CASE DestroyFree
  BY <1>18, StreamStutter DEF DestroyFree, hwVars, bufVars, Running
<1>19. CASE ThreadRun
  <2>1. CASE upc = "join"
    <3>1. Stream!End
      BY <1>19, <2>1 DEF TypeOK, ThreadInv, Holding, ThreadRun, HasFrame, hwVars, bufVars,
        Stream!End
    <3> QED BY <3>1 DEF Stream!Next
  <2>2. CASE upc # "join"
    BY <1>19, <2>2, StreamStutter DEF ThreadRun, Running, hwVars, bufVars
  <2> QED BY <2>1, <2>2
<1>20. CASE WorkerLoop
  <2>1. inflight = NoBuffer
    BY <1>20 DEF ThreadInv, Holding, WorkerLoop
  <2>2. Stream!End \/ Stream!Take
    BY <1>20, <2>1 DEF WorkerLoop, HasFrame, hwVars, bufVars, Stream!End, Stream!Take
  <2> QED BY <2>2 DEF Stream!Next
<1>21. CASE Transfer
  <2>1. inflight # NoBuffer
    BY <1>21 DEF ThreadInv, Holding, Transfer
  <2>2. CASE Fail
    <3>1. Stream!GiveUp
      BY <1>21, <2>1, <2>2, FailGivesUp DEF Transfer, Running, HasFrame, hwVars
    <3> QED BY <3>1 DEF Stream!Next
  <2>3. CASE ~Fail
    BY <1>21, <2>3, StreamStutter DEF Transfer, NoLink, Running, hwVars, bufVars
  <2> QED BY <2>2, <2>3
<1>22. CASE Woken
  <2>1. inflight # NoBuffer
    BY <1>22 DEF ThreadInv, Holding, Woken
  <2>2. CASE Fail
    <3>1. Stream!GiveUp
      BY <1>22, <2>1, <2>2, FailGivesUp DEF Woken, Running, HasFrame, hwVars
    <3> QED BY <3>1 DEF Stream!Next
  <2>3. CASE ~Fail
    BY <1>22, <2>3, StreamStutter DEF Woken, NoLink, Running, hwVars, bufVars
  <2> QED BY <2>2, <2>3
<1>23. CASE CopyDone
  <2>1. inflight # NoBuffer /\ mem[bank] = "fresh" /\ bank \in Slots
    BY <1>23 DEF TypeOK, ThreadInv, Holding, FrameInv, CopyDone
  <2>2. HasFrame /\ ~HasFrame'
    BY <1>23, <2>1 DEF TypeOK, FrameCount, HasFrame, CopyDone, Slots
  <2>3. Stream!Deliver
    BY <1>23, <2>1, <2>2 DEF CopyDone, HasFrame, Stream!Deliver
  <2> QED BY <2>3 DEF Stream!Next
<1>24. CASE LinkLost
  <2>1. inflight # NoBuffer
    BY <1>24 DEF ThreadInv, Holding, LinkLost
  <2>2. CASE Fail
    <3>1. Stream!GiveUp
      BY <1>24, <2>1, <2>2, FailGivesUp DEF LinkLost, Running, HasFrame
    <3> QED BY <3>1 DEF Stream!Next
  <2>3. CASE ~Fail
    BY <1>24, <2>3, StreamStutter DEF LinkLost, Running, bufVars
  <2> QED BY <2>2, <2>3
<1>25. CASE Recover
  <2>1. inflight # NoBuffer
    BY <1>25 DEF ThreadInv, Holding, Recover
  <2>2. ~HasFrame'
    BY <1>25 DEF Recover, Blank, HasFrame
  <2>3. CASE Fail
    <3>1. Stream!GiveUp
      BY <1>25, <2>1, <2>2, <2>3, FailGivesUp DEF Recover, Running
    <3> QED BY <3>1 DEF Stream!Next
  <2>4. CASE ~Fail
    <3>1. Stream!Forget
      BY <1>25, <2>2, <2>4 DEF Recover, HasFrame, bufVars, Stream!Forget
    <3> QED BY <3>1 DEF Stream!Next
  <2> QED BY <2>3, <2>4
<1>26. CASE RecoverStopped
  <2>1. inflight # NoBuffer
    BY <1>26 DEF ThreadInv, Holding, RecoverStopped
  <2>2. Stream!GiveUp
    BY <1>26, <2>1, FailGivesUp DEF RecoverStopped, Running, HasFrame, hwVars
  <2> QED BY <2>2 DEF Stream!Next
<1>27. CASE WorkerExit
  <2>1. UNCHANGED Stream!vars
    BY <1>27 DEF WorkerExit, HasFrame, bufVars, Stream!vars
  <2> QED BY <2>1
<1>28. CASE \E b \in Buffers : QBuf(b)
  <2>1. PICK b \in Buffers : QBuf(b)
    BY <1>28
  <2>2. Stream!Queue(b)
    BY <2>1 DEF QBuf, Owned, HasFrame, hwVars, Stream!Queue
  <2> QED BY <2>2 DEF Stream!Next
<1>29. CASE \E b \in Buffers : DqBuf(b)
  <2>1. PICK b \in Buffers : DqBuf(b)
    BY <1>29
  <2>2. Stream!Fetch(b)
    BY <2>1 DEF DqBuf, HasFrame, hwVars, Stream!Fetch
  <2> QED BY <2>2 DEF Stream!Next
<1>30. CASE StreamOn
  <2>1. ~HasFrame'
    BY <1>30 DEF StreamOn, Blank, HasFrame
  <2>2. queue # <<>>
    BY <1>30, StreamAssumption DEF StreamOn, StreamAssumption
  <2>3. wpc = "none" /\ inflight = NoBuffer
    BY <1>30 DEF StreamOn, ThreadInv, Holding
  <2>4. Stream!Start
    BY <1>30, <2>1, <2>2, <2>3 DEF StreamOn, HasFrame, bufVars, Stream!Start
  <2> QED BY <2>4 DEF Stream!Next
<1>31. CASE StreamOnFails
  <2>1. ~HasFrame'
    BY <1>31 DEF StreamOnFails, Blank, HasFrame
  <2>2. Stream!Forget
    BY <1>31, <2>1 DEF StreamOnFails, HasFrame, bufVars, Stream!Forget
  <2> QED BY <2>2 DEF Stream!Next
<1>32. CASE Joined
  <2>1. inflight = NoBuffer
    BY <1>32 DEF Joined, ThreadInv, Holding
  <2>2. Stream!Stop
    BY <1>32, <2>1 DEF Joined, HasFrame, hwVars, Stream!Stop
  <2> QED BY <2>2 DEF Stream!Next
<1>33. CASE UNCHANGED vars
  BY <1>33, StreamStutter DEF vars, hwVars
<1> QED BY <1>1, <1>2, <1>3, <1>4, <1>5, <1>6, <1>7, <1>8, <1>9, <1>10, <1>11, <1>12, <1>13,
    <1>14, <1>15, <1>16, <1>17, <1>18, <1>19, <1>20, <1>21, <1>22, <1>23, <1>24, <1>25, <1>26,
    <1>27, <1>28, <1>29, <1>30, <1>31, <1>32, <1>33 DEF Next, Irq, Worker, User, Stopping,
    Destroy, Removed

(* Unless the first HDMI signal falls between two checks of one start, the  *)
(* paced path implements the stream: buffers are filled in order, each with *)
(* a frame nobody was given before, and come back when anything goes wrong. *)
THEOREM PacedImplementsStream == ASSUME ~LateSignal PROVE Spec => ImplementsStream
<1>1. Init => Stream!Init
  BY DEF Init, Blank, Stream!Init
<1>2. StreamInv /\ DrainInv /\ FrameCount /\ [Next]_vars => FrameCount'
  BY FrameCountKept
<1>3. StreamInv /\ DrainInv /\ FrameCount /\ [Next]_vars => [Stream!Next]_(Stream!vars)
  BY StreamStep
<1> QED BY <1>1, <1>2, <1>3, FrameCountInitially, StreamInvariant, DrainInvariant, PTL
  DEF Spec, ImplementsStream, Stream!Spec
=============================================================================
