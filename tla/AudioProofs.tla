------------------------------ MODULE AudioProofs ------------------------------
(***************************************************************************)
(* Proofs about Audio for every number of periods in the buffer and of     *)
(* periods completed: what the handler copies, what the pointer counts,    *)
(* and that a video stop leaves bus mastering to a running stream.         *)
(***************************************************************************)
EXTENDS Audio, Integers, TLAPS

(* Where the handler stands once it has seen the stream running.            *)
Delivering == {"guard", "copy", "elapsed", "xrun"}

(* The operations of the substream: what each state of it has allocated,    *)
(* and that a running engine is that of a running substream.                *)
StreamInv ==
  /\ running => pcm = "running" /\ upc = "idle"
  /\ enabled = running
  /\ streamLock <=> upc = "stop"
  /\ upc = "stop" => pcm = "running"
  /\ pcm = "running" => upc \in {"idle", "stop"}
  /\ upc # "idle" => pcm # "closed"
  /\ upc \in {"prepareSync", "prepare"} => pcm \in {"setup", "prepared", "xrun", "disconnected"}
  /\ buffer <=> pcm # "closed" /\ upc \notin {"closeDisable", "close"}
  /\ pcm \in {"prepared", "running"} => stream

(* The handler that delivers a period: the buffer is freed, the stream      *)
(* closed or prepared anew only once it has returned.                       *)
HandlerInv ==
  /\ hpc \in Delivering =>
       buffer /\ stream /\ upc \notin {"prepare", "closeDisable", "close"} /\ pcm # "prepared"
  /\ hpc = "copy" => hposition = position
  /\ hpc # "idle" => dpc \in {"live", "detach"}

(* Creation and removal.                                                    *)
RemovalInv ==
  /\ published <=> dpc = "live"
  /\ areas # "owned" => dpc = "gone"
  /\ ~card <=> dpc \in {"disable", "sync", "gone"}
  /\ ~card => pcm # "running"

(* The completions the driver may still count: the one a handler works on,  *)
(* and the one whose bit is set.                                            *)
Owed == (IF hpc \in {"ack", "check", "guard", "copy"} THEN 1 ELSE 0)
          + (IF irqBit /\ hpc # "ack" THEN 1 ELSE 0)

(* The pointer, and how far it can be ahead of the FPGA.                    *)
CountInv ==
  /\ position = periods % P
  /\ periods <= count + 1
  /\ running \/ hpc \in {"guard", "copy"} => periods + Owed <= count + 1
  /\ pcm = "prepared" => periods = 0 /\ count = 0

AudioInv == TypeOK /\ StreamInv /\ HandlerInv /\ RemovalInv /\ CountInv

(* Bus mastering of an engine started with c->audio set and no stop of      *)
(* video under way: none that clears it can begin any more.                 *)
MasterInv ==
  running /\ settled => master /\ vpc = "idle" /\ dpc \notin {"create", "registered"}

(* A quotient and a remainder of a division.                                *)
LEMMA Divided ==
  ASSUME NEW a \in Nat, NEW n \in Nat \ {0}
  PROVE  a % n \in 0 .. n - 1 /\ a \div n \in Nat /\ a = n * (a \div n) + (a % n)
<1>1. a % n \in 0 .. n - 1
  OBVIOUS
<1>2. a \div n \in Nat
  OBVIOUS
<1>3. a = n * (a \div n) + (a % n)
  OBVIOUS
<1> QED BY <1>1, <1>2, <1>3

(* The remainder is unique.                                                 *)
LEMMA OneRemainder ==
  ASSUME NEW n \in Nat \ {0}, NEW q \in Nat, NEW r \in 0 .. n - 1,
         NEW q2 \in Nat, NEW r2 \in 0 .. n - 1, n * q + r = n * q2 + r2
  PROVE  r = r2
  OBVIOUS

(* A position that wraps counts modulo the number of periods.               *)
LEMMA WrapCounts ==
  ASSUME NEW a \in Nat, NEW n \in Nat \ {0}
  PROVE  (a + 1) % n = IF (a % n) + 1 >= n THEN 0 ELSE (a % n) + 1
<1> DEFINE q == a \div n         r == a % n
           q2 == (a + 1) \div n  r2 == (a + 1) % n
<1>1. q \in Nat /\ r \in 0 .. n - 1 /\ a = n * q + r
  BY Divided
<1>2. q2 \in Nat /\ r2 \in 0 .. n - 1 /\ a + 1 = n * q2 + r2
  <2> a + 1 \in Nat
    OBVIOUS
  <2> QED BY Divided
<1> HIDE DEF q, r, q2, r2
<1>3. r2 = IF r + 1 >= n THEN 0 ELSE r + 1
  <2>1. CASE r + 1 < n
    BY <1>1, <1>2, <2>1, r + 1 \in 0 .. n - 1, n * q + (r + 1) = n * q2 + r2, OneRemainder
  <2>2. CASE r + 1 >= n
    <3>1. r + 1 = n
      BY <1>1, <2>2
    <3>2. n * (q + 1) + 0 = n * q2 + r2
      BY <1>1, <1>2, <3>1
    <3>3. q + 1 \in Nat /\ 0 \in 0 .. n - 1
      BY <1>1
    <3>4. r2 = 0
      BY <1>2, <3>2, <3>3, OneRemainder
    <3> QED BY <3>1, <3>4
  <2> QED BY <1>1, <2>1, <2>2
<1> QED BY <1>3 DEF r, r2

(* Initially the device is closed and nothing was counted.                  *)
LEMMA InitEstablishes == Init => AudioInv
<1> SUFFICES ASSUME Init PROVE AudioInv
  OBVIOUS
<1> USE AudioAssumption DEF Init
<1>1. TypeOK
  <2>1. /\ enabled \in BOOLEAN /\ unmasked \in BOOLEAN /\ irqBit \in BOOLEAN /\ master \in BOOLEAN
        /\ running \in BOOLEAN /\ stream \in BOOLEAN /\ published \in BOOLEAN
        /\ buffer \in BOOLEAN /\ streamLock \in BOOLEAN /\ card \in BOOLEAN /\ settled \in BOOLEAN
    BY Zenon
  <2> QED BY <2>1 DEF TypeOK
<1>2. StreamInv
  BY DEF StreamInv
<1>3. HandlerInv
  BY DEF HandlerInv, Delivering
<1>4. RemovalInv
  BY DEF RemovalInv
<1>5. CountInv
  <2>1. 0 % P = 0
    OBVIOUS
  <2> QED BY <2>1 DEF CountInv, Owed
<1> QED BY <1>1, <1>2, <1>3, <1>4, <1>5 DEF AudioInv

(* HwPeriod keeps the invariant.                                            *)
LEMMA HwPeriodKeeps == AudioInv /\ HwPeriod => AudioInv'
<1> SUFFICES ASSUME AudioInv, HwPeriod PROVE AudioInv'
  OBVIOUS
<1> USE AudioAssumption DEF AudioInv, HwPeriod, audVars, alsaVars, irqVars
<1>1. TypeOK'
  BY DEF TypeOK
<1>2. StreamInv'
  BY DEF TypeOK, StreamInv, HandlerInv, RemovalInv
<1>3. HandlerInv'
  BY DEF TypeOK, StreamInv, HandlerInv, RemovalInv, Delivering
<1>4. RemovalInv'
  BY DEF TypeOK, StreamInv, RemovalInv, HandlerInv
<1>5. CountInv'
  BY DEF TypeOK, StreamInv, HandlerInv, CountInv, Owed, Delivering
<1> QED BY <1>1, <1>2, <1>3, <1>4, <1>5

(* VideoStart keeps the invariant.                                          *)
LEMMA VideoStartKeeps == AudioInv /\ VideoStart => AudioInv'
<1> SUFFICES ASSUME AudioInv, VideoStart PROVE AudioInv'
  OBVIOUS
<1> USE AudioAssumption DEF AudioInv, VideoStart, audVars, alsaVars, irqVars
<1>1. TypeOK'
  BY DEF TypeOK
<1>2. StreamInv'
  BY DEF TypeOK, StreamInv, HandlerInv, RemovalInv
<1>3. HandlerInv'
  BY DEF TypeOK, StreamInv, HandlerInv, RemovalInv, Delivering
<1>4. RemovalInv'
  BY DEF TypeOK, StreamInv, RemovalInv, HandlerInv
<1>5. CountInv'
  BY DEF TypeOK, StreamInv, HandlerInv, CountInv, Owed, Delivering
<1> QED BY <1>1, <1>2, <1>3, <1>4, <1>5

(* VideoStopCheck keeps the invariant.                                      *)
LEMMA VideoStopCheckKeeps == AudioInv /\ VideoStopCheck => AudioInv'
<1> SUFFICES ASSUME AudioInv, VideoStopCheck PROVE AudioInv'
  OBVIOUS
<1> USE AudioAssumption DEF AudioInv, VideoStopCheck, hwVars, audVars, alsaVars, irqVars
<1>1. TypeOK'
  BY DEF TypeOK
<1>2. StreamInv'
  BY DEF TypeOK, StreamInv, HandlerInv, RemovalInv
<1>3. HandlerInv'
  BY DEF TypeOK, StreamInv, HandlerInv, RemovalInv, Delivering
<1>4. RemovalInv'
  BY DEF TypeOK, StreamInv, RemovalInv, HandlerInv
<1>5. CountInv'
  BY DEF TypeOK, StreamInv, HandlerInv, CountInv, Owed, Delivering
<1> QED BY <1>1, <1>2, <1>3, <1>4, <1>5

(* VideoStopClear keeps the invariant.                                      *)
LEMMA VideoStopClearKeeps == AudioInv /\ VideoStopClear => AudioInv'
<1> SUFFICES ASSUME AudioInv, VideoStopClear PROVE AudioInv'
  OBVIOUS
<1> USE AudioAssumption DEF AudioInv, VideoStopClear, audVars, alsaVars, irqVars
<1>1. TypeOK'
  <2>1. master' \in BOOLEAN
    BY Zenon DEF TypeOK
  <2> QED BY <2>1 DEF TypeOK
<1>2. StreamInv'
  BY DEF TypeOK, StreamInv, HandlerInv, RemovalInv
<1>3. HandlerInv'
  BY DEF TypeOK, StreamInv, HandlerInv, RemovalInv, Delivering
<1>4. RemovalInv'
  BY DEF TypeOK, StreamInv, RemovalInv, HandlerInv
<1>5. CountInv'
  BY DEF TypeOK, StreamInv, HandlerInv, CountInv, Owed, Delivering
<1> QED BY <1>1, <1>2, <1>3, <1>4, <1>5

(* IrqUnpublished keeps the invariant.                                      *)
LEMMA IrqUnpublishedKeeps == AudioInv /\ IrqUnpublished => AudioInv'
<1> SUFFICES ASSUME AudioInv, IrqUnpublished PROVE AudioInv'
  OBVIOUS
<1> USE AudioAssumption DEF AudioInv, IrqUnpublished, audVars, alsaVars, irqVars
<1>1. TypeOK'
  <2>1. irqBit' \in BOOLEAN
    BY Zenon DEF TypeOK
  <2> QED BY <2>1 DEF TypeOK
<1>2. StreamInv'
  BY DEF TypeOK, StreamInv, HandlerInv, RemovalInv
<1>3. HandlerInv'
  BY DEF TypeOK, StreamInv, HandlerInv, RemovalInv, Delivering
<1>4. RemovalInv'
  BY DEF TypeOK, StreamInv, RemovalInv, HandlerInv
<1>5. CountInv'
  BY DEF TypeOK, StreamInv, HandlerInv, CountInv, Owed, Delivering
<1> QED BY <1>1, <1>2, <1>3, <1>4, <1>5

(* IrqEnter keeps the invariant.                                            *)
LEMMA IrqEnterKeeps == AudioInv /\ IrqEnter => AudioInv'
<1> SUFFICES ASSUME AudioInv, IrqEnter PROVE AudioInv'
  OBVIOUS
<1> USE AudioAssumption DEF AudioInv, IrqEnter, hwVars, audVars, alsaVars
<1>1. TypeOK'
  BY DEF TypeOK
<1>2. StreamInv'
  BY DEF TypeOK, StreamInv, HandlerInv, RemovalInv
<1>3. HandlerInv'
  BY DEF TypeOK, StreamInv, HandlerInv, RemovalInv, Delivering
<1>4. RemovalInv'
  BY DEF TypeOK, StreamInv, RemovalInv, HandlerInv
<1>5. CountInv'
  BY DEF TypeOK, StreamInv, HandlerInv, CountInv, Owed, Delivering
<1> QED BY <1>1, <1>2, <1>3, <1>4, <1>5

(* IrqAck keeps the invariant.                                              *)
LEMMA IrqAckKeeps == AudioInv /\ IrqAck => AudioInv'
<1> SUFFICES ASSUME AudioInv, IrqAck PROVE AudioInv'
  OBVIOUS
<1> USE AudioAssumption DEF AudioInv, IrqAck, audVars, alsaVars
<1>1. TypeOK'
  <2>1. irqBit' \in BOOLEAN
    BY Zenon DEF TypeOK
  <2> QED BY <2>1 DEF TypeOK
<1>2. StreamInv'
  BY DEF TypeOK, StreamInv, HandlerInv, RemovalInv
<1>3. HandlerInv'
  BY DEF TypeOK, StreamInv, HandlerInv, RemovalInv, Delivering
<1>4. RemovalInv'
  BY DEF TypeOK, StreamInv, RemovalInv, HandlerInv
<1>5. CountInv'
  BY DEF TypeOK, StreamInv, HandlerInv, CountInv, Owed, Delivering
<1> QED BY <1>1, <1>2, <1>3, <1>4, <1>5

(* IrqCheck keeps the invariant.                                            *)
LEMMA IrqCheckKeeps == AudioInv /\ IrqCheck => AudioInv'
<1> SUFFICES ASSUME AudioInv, IrqCheck PROVE AudioInv'
  OBVIOUS
<1> USE AudioAssumption DEF AudioInv, IrqCheck, hwVars, audVars, alsaVars
<1>1. TypeOK'
  BY DEF TypeOK
<1>2. StreamInv'
  BY DEF TypeOK, StreamInv, HandlerInv, RemovalInv
<1>3. HandlerInv'
  BY DEF TypeOK, StreamInv, HandlerInv, RemovalInv, Delivering
<1>4. RemovalInv'
  BY DEF TypeOK, StreamInv, RemovalInv, HandlerInv
<1>5. CountInv'
  BY DEF TypeOK, StreamInv, HandlerInv, CountInv, Owed, Delivering
<1> QED BY <1>1, <1>2, <1>3, <1>4, <1>5

(* IrqGuardOk keeps the invariant.                                          *)
LEMMA IrqGuardOkKeeps == AudioInv /\ IrqGuardOk => AudioInv'
<1> SUFFICES ASSUME AudioInv, IrqGuardOk PROVE AudioInv'
  OBVIOUS
<1> USE AudioAssumption DEF AudioInv, IrqGuardOk, hwVars, audVars, alsaVars
<1>1. TypeOK'
  BY DEF TypeOK
<1>2. StreamInv'
  BY DEF TypeOK, StreamInv, HandlerInv, RemovalInv
<1>3. HandlerInv'
  BY DEF TypeOK, StreamInv, HandlerInv, RemovalInv, Delivering
<1>4. RemovalInv'
  BY DEF TypeOK, StreamInv, RemovalInv, HandlerInv
<1>5. CountInv'
  BY DEF TypeOK, StreamInv, HandlerInv, CountInv, Owed, Delivering
<1> QED BY <1>1, <1>2, <1>3, <1>4, <1>5

(* IrqGuardBad keeps the invariant.                                         *)
LEMMA IrqGuardBadKeeps == AudioInv /\ IrqGuardBad => AudioInv'
<1> SUFFICES ASSUME AudioInv, IrqGuardBad PROVE AudioInv'
  OBVIOUS
<1> USE AudioAssumption DEF AudioInv, IrqGuardBad, alsaVars, Disable
<1>1. TypeOK'
  <2>1. running' \in BOOLEAN /\ enabled' \in BOOLEAN /\ unmasked' \in BOOLEAN
    BY Zenon DEF TypeOK
  <2> QED BY <2>1 DEF TypeOK
<1>2. StreamInv'
  BY DEF TypeOK, StreamInv, HandlerInv, RemovalInv
<1>3. HandlerInv'
  BY DEF TypeOK, StreamInv, HandlerInv, RemovalInv, Delivering
<1>4. RemovalInv'
  BY DEF TypeOK, StreamInv, RemovalInv, HandlerInv
<1>5. CountInv'
  BY DEF TypeOK, StreamInv, HandlerInv, CountInv, Owed, Delivering
<1> QED BY <1>1, <1>2, <1>3, <1>4, <1>5

(* IrqCopy keeps the invariant.                                             *)
LEMMA IrqCopyKeeps == AudioInv /\ IrqCopy => AudioInv'
<1> SUFFICES ASSUME AudioInv, IrqCopy PROVE AudioInv'
  OBVIOUS
<1> USE AudioAssumption DEF AudioInv, IrqCopy, hwVars, alsaVars
<1>1. TypeOK'
  BY DEF TypeOK
<1>2. StreamInv'
  BY DEF TypeOK, StreamInv, HandlerInv, RemovalInv
<1>3. HandlerInv'
  BY DEF TypeOK, StreamInv, HandlerInv, RemovalInv, Delivering
<1>4. RemovalInv'
  BY DEF TypeOK, StreamInv, RemovalInv, HandlerInv
<1>5. CountInv'
  <2>1. position' = periods' % P
    <3>1. periods \in Nat /\ hposition = periods % P
      BY DEF TypeOK, HandlerInv, CountInv
    <3> QED BY <3>1, WrapCounts
  <2>2. periods + (IF irqBit THEN 2 ELSE 1) <= count + 1
    BY DEF TypeOK, CountInv, Owed
  <2>3. periods \in Nat /\ count \in Nat
    BY DEF TypeOK
  <2>4. pcm' # "prepared"
    BY DEF HandlerInv, Delivering
  <2> QED BY <2>1, <2>2, <2>3, <2>4 DEF CountInv, Owed
<1> QED BY <1>1, <1>2, <1>3, <1>4, <1>5

(* IrqElapsed keeps the invariant.                                          *)
LEMMA IrqElapsedKeeps == AudioInv /\ IrqElapsed => AudioInv'
<1> SUFFICES ASSUME AudioInv, IrqElapsed PROVE AudioInv'
  OBVIOUS
<1> USE AudioAssumption DEF AudioInv, IrqElapsed, hwVars, audVars, alsaVars
<1>1. TypeOK'
  BY DEF TypeOK
<1>2. StreamInv'
  BY DEF TypeOK, StreamInv, HandlerInv, RemovalInv
<1>3. HandlerInv'
  BY DEF TypeOK, StreamInv, HandlerInv, RemovalInv, Delivering
<1>4. RemovalInv'
  BY DEF TypeOK, StreamInv, RemovalInv, HandlerInv
<1>5. CountInv'
  BY DEF TypeOK, StreamInv, HandlerInv, CountInv, Owed, Delivering
<1> QED BY <1>1, <1>2, <1>3, <1>4, <1>5

(* IrqXrun keeps the invariant.                                             *)
LEMMA IrqXrunKeeps == AudioInv /\ IrqXrun => AudioInv'
<1> SUFFICES ASSUME AudioInv, IrqXrun PROVE AudioInv'
  OBVIOUS
<1> USE AudioAssumption DEF AudioInv, IrqXrun, Disable
<1>1. TypeOK'
  <2>1. running' \in BOOLEAN /\ enabled' \in BOOLEAN /\ unmasked' \in BOOLEAN
    BY Zenon DEF TypeOK
  <2> QED BY <2>1 DEF TypeOK
<1>2. StreamInv'
  BY DEF TypeOK, StreamInv, HandlerInv, RemovalInv
<1>3. HandlerInv'
  BY DEF TypeOK, StreamInv, HandlerInv, RemovalInv, Delivering
<1>4. RemovalInv'
  BY DEF TypeOK, StreamInv, RemovalInv, HandlerInv
<1>5. CountInv'
  BY DEF TypeOK, StreamInv, HandlerInv, CountInv, Owed, Delivering
<1> QED BY <1>1, <1>2, <1>3, <1>4, <1>5

(* Open keeps the invariant.                                                *)
LEMMA OpenKeeps == AudioInv /\ Open => AudioInv'
<1> SUFFICES ASSUME AudioInv, Open PROVE AudioInv'
  OBVIOUS
<1> USE AudioAssumption DEF AudioInv, Open, hwVars, audVars, irqVars
<1>1. TypeOK'
  BY DEF TypeOK
<1>2. StreamInv'
  BY DEF TypeOK, StreamInv, HandlerInv, RemovalInv
<1>3. HandlerInv'
  BY DEF TypeOK, StreamInv, HandlerInv, RemovalInv, Delivering
<1>4. RemovalInv'
  BY DEF TypeOK, StreamInv, RemovalInv, HandlerInv
<1>5. CountInv'
  BY DEF TypeOK, StreamInv, HandlerInv, CountInv, Owed, Delivering
<1> QED BY <1>1, <1>2, <1>3, <1>4, <1>5

(* PrepareDisable keeps the invariant.                                      *)
LEMMA PrepareDisableKeeps == AudioInv /\ PrepareDisable => AudioInv'
<1> SUFFICES ASSUME AudioInv, PrepareDisable PROVE AudioInv'
  OBVIOUS
<1> USE AudioAssumption DEF AudioInv, PrepareDisable, alsaVars, irqVars, Disable
<1>1. TypeOK'
  <2>1. running' \in BOOLEAN /\ enabled' \in BOOLEAN /\ unmasked' \in BOOLEAN
    BY Zenon DEF TypeOK
  <2> QED BY <2>1 DEF TypeOK
<1>2. StreamInv'
  BY DEF TypeOK, StreamInv, HandlerInv, RemovalInv
<1>3. HandlerInv'
  BY DEF TypeOK, StreamInv, HandlerInv, RemovalInv, Delivering
<1>4. RemovalInv'
  BY DEF TypeOK, StreamInv, RemovalInv, HandlerInv
<1>5. CountInv'
  BY DEF TypeOK, StreamInv, HandlerInv, CountInv, Owed, Delivering
<1> QED BY <1>1, <1>2, <1>3, <1>4, <1>5

(* TriggerStart keeps the invariant.                                        *)
LEMMA TriggerStartKeeps == AudioInv /\ TriggerStart => AudioInv'
<1> SUFFICES ASSUME AudioInv, TriggerStart PROVE AudioInv'
  OBVIOUS
<1> USE AudioAssumption DEF AudioInv, TriggerStart, irqVars
<1>1. TypeOK'
  <2>1. irqBit' \in BOOLEAN /\ settled' \in BOOLEAN
    BY Zenon DEF TypeOK
  <2> QED BY <2>1 DEF TypeOK
<1>2. StreamInv'
  BY DEF TypeOK, StreamInv, HandlerInv, RemovalInv
<1>3. HandlerInv'
  BY DEF TypeOK, StreamInv, HandlerInv, RemovalInv, Delivering
<1>4. RemovalInv'
  BY DEF TypeOK, StreamInv, RemovalInv, HandlerInv
<1>5. CountInv'
  BY DEF TypeOK, StreamInv, HandlerInv, CountInv, Owed, Delivering
<1> QED BY <1>1, <1>2, <1>3, <1>4, <1>5

(* TriggerStop keeps the invariant.                                         *)
LEMMA TriggerStopKeeps == AudioInv /\ TriggerStop => AudioInv'
<1> SUFFICES ASSUME AudioInv, TriggerStop PROVE AudioInv'
  OBVIOUS
<1> USE AudioAssumption DEF AudioInv, TriggerStop, irqVars, Disable
<1>1. TypeOK'
  <2>1. running' \in BOOLEAN /\ enabled' \in BOOLEAN /\ unmasked' \in BOOLEAN
    BY Zenon DEF TypeOK
  <2> QED BY <2>1 DEF TypeOK
<1>2. StreamInv'
  BY DEF TypeOK, StreamInv, HandlerInv, RemovalInv
<1>3. HandlerInv'
  BY DEF TypeOK, StreamInv, HandlerInv, RemovalInv, Delivering
<1>4. RemovalInv'
  BY DEF TypeOK, StreamInv, RemovalInv, HandlerInv
<1>5. CountInv'
  BY DEF TypeOK, StreamInv, HandlerInv, CountInv, Owed, Delivering
<1> QED BY <1>1, <1>2, <1>3, <1>4, <1>5

(* CloseBegin keeps the invariant.                                          *)
LEMMA CloseBeginKeeps == AudioInv /\ CloseBegin => AudioInv'
<1> SUFFICES ASSUME AudioInv, CloseBegin PROVE AudioInv'
  OBVIOUS
<1> USE AudioAssumption DEF AudioInv, CloseBegin, hwVars, audVars, alsaVars, irqVars
<1>1. TypeOK'
  BY DEF TypeOK
<1>2. StreamInv'
  BY DEF TypeOK, StreamInv, HandlerInv, RemovalInv
<1>3. HandlerInv'
  BY DEF TypeOK, StreamInv, HandlerInv, RemovalInv, Delivering
<1>4. RemovalInv'
  BY DEF TypeOK, StreamInv, RemovalInv, HandlerInv
<1>5. CountInv'
  BY DEF TypeOK, StreamInv, HandlerInv, CountInv, Owed, Delivering
<1> QED BY <1>1, <1>2, <1>3, <1>4, <1>5

(* PrepareSync keeps the invariant.                                         *)
LEMMA PrepareSyncKeeps == AudioInv /\ PrepareSync => AudioInv'
<1> SUFFICES ASSUME AudioInv, PrepareSync PROVE AudioInv'
  OBVIOUS
<1> USE AudioAssumption DEF AudioInv, PrepareSync, hwVars, audVars, alsaVars, irqVars
<1>1. TypeOK'
  BY DEF TypeOK
<1>2. StreamInv'
  BY DEF TypeOK, StreamInv, HandlerInv, RemovalInv
<1>3. HandlerInv'
  BY DEF TypeOK, StreamInv, HandlerInv, RemovalInv, Delivering
<1>4. RemovalInv'
  BY DEF TypeOK, StreamInv, RemovalInv, HandlerInv
<1>5. CountInv'
  BY DEF TypeOK, StreamInv, HandlerInv, CountInv, Owed, Delivering
<1> QED BY <1>1, <1>2, <1>3, <1>4, <1>5

(* PrepareFails keeps the invariant.                                        *)
LEMMA PrepareFailsKeeps == AudioInv /\ PrepareFails => AudioInv'
<1> SUFFICES ASSUME AudioInv, PrepareFails PROVE AudioInv'
  OBVIOUS
<1> USE AudioAssumption DEF AudioInv, PrepareFails, hwVars, audVars, alsaVars, irqVars
<1>1. TypeOK'
  BY DEF TypeOK
<1>2. StreamInv'
  BY DEF TypeOK, StreamInv, HandlerInv, RemovalInv
<1>3. HandlerInv'
  BY DEF TypeOK, StreamInv, HandlerInv, RemovalInv, Delivering
<1>4. RemovalInv'
  BY DEF TypeOK, StreamInv, RemovalInv, HandlerInv
<1>5. CountInv'
  BY DEF TypeOK, StreamInv, HandlerInv, CountInv, Owed, Delivering
<1> QED BY <1>1, <1>2, <1>3, <1>4, <1>5

(* Prepare keeps the invariant.                                             *)
LEMMA PrepareKeeps == AudioInv /\ Prepare => AudioInv'
<1> SUFFICES ASSUME AudioInv, Prepare PROVE AudioInv'
  OBVIOUS
<1> USE AudioAssumption DEF AudioInv, Prepare, irqVars
<1>1. TypeOK'
  BY DEF TypeOK
<1>2. StreamInv'
  BY DEF TypeOK, StreamInv, HandlerInv, RemovalInv
<1>3. HandlerInv'
  BY DEF TypeOK, StreamInv, HandlerInv, RemovalInv, Delivering
<1>4. RemovalInv'
  BY DEF TypeOK, StreamInv, RemovalInv, HandlerInv
<1>5. CountInv'
  BY DEF TypeOK, StreamInv, HandlerInv, CountInv, Owed, Delivering
<1> QED BY <1>1, <1>2, <1>3, <1>4, <1>5

(* TriggerStopped keeps the invariant.                                      *)
LEMMA TriggerStoppedKeeps == AudioInv /\ TriggerStopped => AudioInv'
<1> SUFFICES ASSUME AudioInv, TriggerStopped PROVE AudioInv'
  OBVIOUS
<1> USE AudioAssumption DEF AudioInv, TriggerStopped, hwVars, audVars, irqVars
<1>1. TypeOK'
  <2>1. streamLock' \in BOOLEAN
    BY Zenon DEF TypeOK
  <2> QED BY <2>1 DEF TypeOK
<1>2. StreamInv'
  BY DEF TypeOK, StreamInv, HandlerInv, RemovalInv
<1>3. HandlerInv'
  BY DEF TypeOK, StreamInv, HandlerInv, RemovalInv, Delivering
<1>4. RemovalInv'
  BY DEF TypeOK, StreamInv, RemovalInv, HandlerInv
<1>5. CountInv'
  BY DEF TypeOK, StreamInv, HandlerInv, CountInv, Owed, Delivering
<1> QED BY <1>1, <1>2, <1>3, <1>4, <1>5

(* SyncStop keeps the invariant.                                            *)
LEMMA SyncStopKeeps == AudioInv /\ SyncStop => AudioInv'
<1> SUFFICES ASSUME AudioInv, SyncStop PROVE AudioInv'
  OBVIOUS
<1> USE AudioAssumption DEF AudioInv, SyncStop, hwVars, audVars, irqVars
<1>1. TypeOK'
  <2>1. buffer' \in BOOLEAN
    BY Zenon DEF TypeOK
  <2> QED BY <2>1 DEF TypeOK
<1>2. StreamInv'
  BY DEF TypeOK, StreamInv, HandlerInv, RemovalInv
<1>3. HandlerInv'
  BY DEF TypeOK, StreamInv, HandlerInv, RemovalInv, Delivering
<1>4. RemovalInv'
  BY DEF TypeOK, StreamInv, RemovalInv, HandlerInv
<1>5. CountInv'
  BY DEF TypeOK, StreamInv, HandlerInv, CountInv, Owed, Delivering
<1> QED BY <1>1, <1>2, <1>3, <1>4, <1>5

(* CloseDisable keeps the invariant.                                        *)
LEMMA CloseDisableKeeps == AudioInv /\ CloseDisable => AudioInv'
<1> SUFFICES ASSUME AudioInv, CloseDisable PROVE AudioInv'
  OBVIOUS
<1> USE AudioAssumption DEF AudioInv, CloseDisable, alsaVars, irqVars, Disable
<1>1. TypeOK'
  <2>1. running' \in BOOLEAN /\ enabled' \in BOOLEAN /\ unmasked' \in BOOLEAN
    BY Zenon DEF TypeOK
  <2> QED BY <2>1 DEF TypeOK
<1>2. StreamInv'
  BY DEF TypeOK, StreamInv, HandlerInv, RemovalInv
<1>3. HandlerInv'
  BY DEF TypeOK, StreamInv, HandlerInv, RemovalInv, Delivering
<1>4. RemovalInv'
  BY DEF TypeOK, StreamInv, RemovalInv, HandlerInv
<1>5. CountInv'
  BY DEF TypeOK, StreamInv, HandlerInv, CountInv, Owed, Delivering
<1> QED BY <1>1, <1>2, <1>3, <1>4, <1>5

(* Close keeps the invariant.                                               *)
LEMMA CloseKeeps == AudioInv /\ Close => AudioInv'
<1> SUFFICES ASSUME AudioInv, Close PROVE AudioInv'
  OBVIOUS
<1> USE AudioAssumption DEF AudioInv, Close, hwVars, irqVars
<1>1. TypeOK'
  <2>1. stream' \in BOOLEAN
    BY Zenon DEF TypeOK
  <2> QED BY <2>1 DEF TypeOK
<1>2. StreamInv'
  BY DEF TypeOK, StreamInv, HandlerInv, RemovalInv
<1>3. HandlerInv'
  BY DEF TypeOK, StreamInv, HandlerInv, RemovalInv, Delivering
<1>4. RemovalInv'
  BY DEF TypeOK, StreamInv, RemovalInv, HandlerInv
<1>5. CountInv'
  BY DEF TypeOK, StreamInv, HandlerInv, CountInv, Owed, Delivering
<1> QED BY <1>1, <1>2, <1>3, <1>4, <1>5

(* Register keeps the invariant.                                            *)
LEMMA RegisterKeeps == AudioInv /\ Register => AudioInv'
<1> SUFFICES ASSUME AudioInv, Register PROVE AudioInv'
  OBVIOUS
<1> USE AudioAssumption DEF AudioInv, Register, hwVars, audVars, alsaVars, irqVars
<1>1. TypeOK'
  BY DEF TypeOK
<1>2. StreamInv'
  BY DEF TypeOK, StreamInv, HandlerInv, RemovalInv
<1>3. HandlerInv'
  BY DEF TypeOK, StreamInv, HandlerInv, RemovalInv, Delivering
<1>4. RemovalInv'
  BY DEF TypeOK, StreamInv, RemovalInv, HandlerInv
<1>5. CountInv'
  BY DEF TypeOK, StreamInv, HandlerInv, CountInv, Owed, Delivering
<1> QED BY <1>1, <1>2, <1>3, <1>4, <1>5

(* Publish keeps the invariant.                                             *)
LEMMA PublishKeeps == AudioInv /\ Publish => AudioInv'
<1> SUFFICES ASSUME AudioInv, Publish PROVE AudioInv'
  OBVIOUS
<1> USE AudioAssumption DEF AudioInv, Publish, hwVars, alsaVars, irqVars
<1>1. TypeOK'
  BY DEF TypeOK
<1>2. StreamInv'
  BY DEF TypeOK, StreamInv, HandlerInv, RemovalInv
<1>3. HandlerInv'
  BY DEF TypeOK, StreamInv, HandlerInv, RemovalInv, Delivering
<1>4. RemovalInv'
  BY DEF TypeOK, StreamInv, RemovalInv, HandlerInv
<1>5. CountInv'
  BY DEF TypeOK, StreamInv, HandlerInv, CountInv, Owed, Delivering
<1> QED BY <1>1, <1>2, <1>3, <1>4, <1>5

(* Detach keeps the invariant.                                              *)
LEMMA DetachKeeps == AudioInv /\ Detach => AudioInv'
<1> SUFFICES ASSUME AudioInv, Detach PROVE AudioInv'
  OBVIOUS
<1> USE AudioAssumption DEF AudioInv, Detach, hwVars, alsaVars, irqVars
<1>1. TypeOK'
  <2>1. published' \in BOOLEAN
    BY Zenon DEF TypeOK
  <2> QED BY <2>1 DEF TypeOK
<1>2. StreamInv'
  BY DEF TypeOK, StreamInv, HandlerInv, RemovalInv
<1>3. HandlerInv'
  BY DEF TypeOK, StreamInv, HandlerInv, RemovalInv, Delivering
<1>4. RemovalInv'
  BY DEF TypeOK, StreamInv, RemovalInv, HandlerInv
<1>5. CountInv'
  BY DEF TypeOK, StreamInv, HandlerInv, CountInv, Owed, Delivering
<1> QED BY <1>1, <1>2, <1>3, <1>4, <1>5

(* Disconnect keeps the invariant.                                          *)
LEMMA DisconnectKeeps == AudioInv /\ Disconnect => AudioInv'
<1> SUFFICES ASSUME AudioInv, Disconnect PROVE AudioInv'
  OBVIOUS
<1> USE AudioAssumption DEF AudioInv, Disconnect, irqVars, Disable
<1>1. TypeOK'
  <2>1. card' \in BOOLEAN /\ running' \in BOOLEAN /\ enabled' \in BOOLEAN /\ unmasked' \in BOOLEAN
    BY Zenon DEF TypeOK
  <2> QED BY <2>1 DEF TypeOK
<1>2. StreamInv'
  BY DEF TypeOK, StreamInv, HandlerInv, RemovalInv
<1>3. HandlerInv'
  BY DEF TypeOK, StreamInv, HandlerInv, RemovalInv, Delivering
<1>4. RemovalInv'
  BY DEF TypeOK, StreamInv, RemovalInv, HandlerInv
<1>5. CountInv'
  BY DEF TypeOK, StreamInv, HandlerInv, CountInv, Owed, Delivering
<1> QED BY <1>1, <1>2, <1>3, <1>4, <1>5

(* DestroyDisable keeps the invariant.                                      *)
LEMMA DestroyDisableKeeps == AudioInv /\ DestroyDisable => AudioInv'
<1> SUFFICES ASSUME AudioInv, DestroyDisable PROVE AudioInv'
  OBVIOUS
<1> USE AudioAssumption DEF AudioInv, DestroyDisable, alsaVars, irqVars, Disable
<1>1. TypeOK'
  <2>1. running' \in BOOLEAN /\ enabled' \in BOOLEAN /\ unmasked' \in BOOLEAN
    BY Zenon DEF TypeOK
  <2> QED BY <2>1 DEF TypeOK
<1>2. StreamInv'
  BY DEF TypeOK, StreamInv, HandlerInv, RemovalInv
<1>3. HandlerInv'
  BY DEF TypeOK, StreamInv, HandlerInv, RemovalInv, Delivering
<1>4. RemovalInv'
  BY DEF TypeOK, StreamInv, RemovalInv, HandlerInv
<1>5. CountInv'
  BY DEF TypeOK, StreamInv, HandlerInv, CountInv, Owed, Delivering
<1> QED BY <1>1, <1>2, <1>3, <1>4, <1>5

(* DestroyFree keeps the invariant.                                         *)
LEMMA DestroyFreeKeeps == AudioInv /\ DestroyFree => AudioInv'
<1> SUFFICES ASSUME AudioInv, DestroyFree PROVE AudioInv'
  OBVIOUS
<1> USE AudioAssumption DEF AudioInv, DestroyFree, alsaVars, irqVars
<1>1. TypeOK'
  <2>1. master' \in BOOLEAN
    BY Zenon DEF TypeOK
  <2> QED BY <2>1 DEF TypeOK
<1>2. StreamInv'
  BY DEF TypeOK, StreamInv, HandlerInv, RemovalInv
<1>3. HandlerInv'
  BY DEF TypeOK, StreamInv, HandlerInv, RemovalInv, Delivering
<1>4. RemovalInv'
  BY DEF TypeOK, StreamInv, RemovalInv, HandlerInv
<1>5. CountInv'
  BY DEF TypeOK, StreamInv, HandlerInv, CountInv, Owed, Delivering
<1> QED BY <1>1, <1>2, <1>3, <1>4, <1>5

(* Every step keeps the invariant.                                          *)
LEMMA NextKeeps == AudioInv /\ [Next]_vars => AudioInv'
<1> SUFFICES ASSUME AudioInv, [Next]_vars PROVE AudioInv'
  OBVIOUS
<1>1. CASE UNCHANGED vars
  BY <1>1 DEF AudioInv, TypeOK, StreamInv, HandlerInv, RemovalInv, CountInv, Owed,
    vars, hwVars, audVars, alsaVars, irqVars
<1>2. CASE Gone
  BY <1>1, <1>2 DEF Gone
<1> QED
  BY <1>1, <1>2, HwPeriodKeeps, VideoStartKeeps, VideoStopCheckKeeps,
     VideoStopClearKeeps, IrqUnpublishedKeeps, IrqEnterKeeps,
     IrqAckKeeps, IrqCheckKeeps, IrqGuardOkKeeps, IrqGuardBadKeeps, IrqCopyKeeps,
     IrqElapsedKeeps, IrqXrunKeeps, OpenKeeps, PrepareDisableKeeps, TriggerStartKeeps,
     TriggerStopKeeps, CloseBeginKeeps, PrepareSyncKeeps, PrepareFailsKeeps, PrepareKeeps,
     TriggerStoppedKeeps, SyncStopKeeps, CloseDisableKeeps, CloseKeeps, RegisterKeeps, PublishKeeps,
     DetachKeeps, DisconnectKeeps, DestroyDisableKeeps, DestroyFreeKeeps
    DEF Next, Irq, Continue, Destroy

(* The audio device keeps the invariant.                                    *)
THEOREM AudioInvariant == Spec => []AudioInv
  BY InitEstablishes, NextKeeps, PTL DEF Spec

(* Type correctness, for every size of the buffer.                          *)
THEOREM AudioTypes == Spec => []TypeOK
<1>1. AudioInv => TypeOK
  BY DEF AudioInv
<1> QED BY <1>1, AudioInvariant, PTL

(* gc573_audio_interrupt() copies only into a buffer the ALSA core has not  *)
(* freed and from areas the driver has not freed, also for programs that    *)
(* open the device before gc573_capture_create() publishes it.              *)
THEOREM CopiesAreSafe == Spec => []CopyIsSafe
<1>1. AudioInv => CopyIsSafe
  BY DEF AudioInv, TypeOK, HandlerInv, RemovalInv, CopyIsSafe, Delivering
<1> QED BY <1>1, AudioInvariant, PTL

(* The pointer aud_pointer() reports counts the periods delivered, and no   *)
(* more of them than the FPGA completed, but for at most one.               *)
THEOREM PointerCounts == Spec => []PositionCounts
<1>1. AudioInv => PositionCounts
  BY DEF AudioInv, CountInv, PositionCounts
<1> QED BY <1>1, AudioInvariant, PTL

(* No step takes bus mastering from a stream that was started when c->audio *)
(* was set and no stop of video was under way.                              *)
LEMMA MasterKept == AudioInv /\ MasterInv /\ [Next]_vars => MasterInv'
<1> SUFFICES ASSUME AudioInv, MasterInv, [Next]_vars PROVE MasterInv'
  OBVIOUS
<1> USE DEF MasterInv, AudioInv, StreamInv, RemovalInv
<1>1. CASE UNCHANGED vars \/ Gone
  BY <1>1 DEF Gone, vars, hwVars, audVars, alsaVars
<1>2. CASE HwPeriod \/ VideoStart \/ VideoStopClear
  BY <1>2 DEF HwPeriod, VideoStart, VideoStopClear, audVars, alsaVars
<1>7. CASE VideoStopCheck
  <2>1. running /\ settled => published
    BY <1>7 DEF VideoStopCheck, Streams
  <2> QED BY <1>7, <2>1 DEF VideoStopCheck, hwVars, audVars, alsaVars
<1>3. CASE Irq
  BY <1>3 DEF Irq, IrqUnpublished, IrqEnter, IrqAck, IrqCheck, IrqGuardOk, IrqGuardBad, IrqCopy,
    IrqElapsed, IrqXrun, Disable, hwVars, audVars, alsaVars
<1>8. CASE TriggerStart
  <2>1. master' /\ vpc' = vpc /\ dpc' = dpc
    BY <1>8, Zenon DEF TriggerStart
  <2>2. settled' => vpc = "idle" /\ dpc = "live"
    BY <1>8, Zenon DEF TriggerStart
  <2> QED BY <2>1, <2>2
<1>4. CASE Open \/ PrepareDisable \/ TriggerStop \/ CloseBegin
  BY <1>4 DEF Open, PrepareDisable, TriggerStop, CloseBegin, Disable, hwVars, audVars, alsaVars
<1>5. CASE Continue
  BY <1>5 DEF Continue, PrepareSync, PrepareFails, Prepare, TriggerStopped, SyncStop, CloseDisable,
    Close, Disable, hwVars, audVars, alsaVars
<1>6. CASE Register \/ Publish \/ Detach \/ Destroy
  BY <1>6 DEF Register, Publish, Detach, Destroy, Disconnect, DestroyDisable, DestroyFree, Disable,
    hwVars, audVars, alsaVars
<1> QED BY <1>1, <1>2, <1>3, <1>4, <1>5, <1>6, <1>7, <1>8 DEF Next

(* "Stopping video preserves an active audio engine", if the engine was     *)
(* started with c->audio set and no stop of video under way that had found  *)
(* it unset.                                                                *)
THEOREM StopKeepsMaster == Spec => []AudioKeepsMaster
<1>1. Init => MasterInv
  BY DEF Init, MasterInv
<1>2. MasterInv => AudioKeepsMaster
  BY DEF MasterInv, AudioKeepsMaster
<1> QED BY <1>1, <1>2, MasterKept, AudioInvariant, PTL DEF Spec
=============================================================================
