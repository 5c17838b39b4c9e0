--------------------------- MODULE DmaRingProofs ---------------------------
(***************************************************************************)
(* Proofs about DmaRing, for every number of slots and every bound on the  *)
(* frames.                                                                 *)
(***************************************************************************)
EXTENDS DmaRingInv, WellFoundedInduction, TLAPS

USE RingAssumption

(* Slot arithmetic stays within the ring.                                   *)
LEMMA SlotTypes ==
  /\ \A s \in Slots : Following(s) \in Slots /\ s + 1 \in 0 .. N
  /\ \A v \in 0 .. N : FromStatus(v) \in Slots
  /\ \A a, b \in Slots : Dist(a, b) \in Slots /\ Dist(a, b) \in Nat
  /\ 0 \in Slots
  BY SMT DEF Slots, Following, FromStatus, Dist

(* What gc573_dma_ring_complete() returns: nothing, or, for a legal status, *)
(* exactly the slots up to the reported one, all of them queued.            *)
LEMMA RingCompleteSpec ==
  ASSUME NEW p \in SUBSET Slots, NEW n \in Slots, NEW v \in 0 .. N,
         RingComplete(p, n, v) # {}
  PROVE  /\ v \in 1 .. N /\ v - 1 \in Slots
         /\ RingComplete(p, n, v) = Through(n, v)
         /\ Through(n, v) \subseteq p
  BY SMT DEF RingComplete, Slots

(* The initial state is well typed.                                         *)
LEMMA TypeInit == Init => TypeOK
<1>1. Init => FlagsOK
  BY Zenon DEF Init, FlagsOK
<1>2. Init => DataOK
  BY SMT DEF Init, DataOK, Slots, WorkerPcs
<1> QED BY <1>1, <1>2 DEF TypeOK

(* Every step of the ring keeps the types.                                  *)
LEMMA TypeStep == ASSUME TypeOK, [Next]_vars PROVE TypeOK'
<1>1. ASSUME FlagsOK, [Next]_vars PROVE FlagsOK'
  <2> USE <1>1 DEF FlagsOK, hwVars, workerVars, irqVars
  <2>1. CASE HwComplete \/ HwLateIrq \/ InputChange
    BY <2>1, Zenon DEF HwComplete, HwLateIrq, InputChange
  <2>2. CASE Irq
    BY <2>2, Zenon DEF Irq, IrqRead, IrqAck, IrqComplete
  <2>3. CASE Transfer \/ WaitTimeout \/ RingStart \/ WaitDone
    BY <2>3, Zenon DEF Transfer, WaitTimeout, RingStart, WaitDone
  <2>4. CASE RefillSkip \/ RefillRead \/ RefillWrite
    BY <2>4, Zenon DEF RefillSkip, RefillRead, RefillWrite
  <2>5. CASE StopMask \/ Stop \/ RecoverStopped \/ StreamOff
    BY <2>5, Zenon DEF StopMask, Stop, RecoverStopped, StreamOff
  <2>6. CASE Recover \/ StreamOn
    BY <2>6, Zenon DEF Recover, StreamOn, Enable, NewSession
  <2>7. CASE RecoverFails
    BY <2>7, Zenon DEF RecoverFails, NewSession
  <2>8. CASE UNCHANGED vars
    BY <2>8, Zenon DEF vars
  <2>9. CASE StreamOnFails
    BY <2>9, Zenon DEF StreamOnFails, Enable, NewSession
  <2> QED BY <2>1, <2>2, <2>3, <2>4, <2>5, <2>6, <2>7, <2>8, <2>9 DEF Next, Worker
<1>2. ASSUME DataOK, [Next]_vars PROVE DataOK'
  <2> USE <1>2, SlotTypes DEF DataOK, hwVars, workerVars, irqVars, count, WorkerPcs
  <2>1. CASE HwComplete \/ HwLateIrq \/ InputChange
    BY <2>1, SMT DEF HwComplete, HwLateIrq, InputChange
  <2>2. CASE IrqRead \/ IrqAck
    BY <2>2, SMT DEF IrqRead, IrqAck
  <2>3. CASE IrqComplete
    <3>1. CASE ringActive /\ RingComplete(pending, next, istatus) # {}
      <4>1. istatus \in 1 .. N /\ istatus - 1 \in Slots
        BY <3>1, SMT DEF RingComplete, Slots
      <4>2. Dist(next, istatus - 1) \in Nat
        BY <4>1, Zenon
      <4> QED BY <2>3, <3>1, <4>1, <4>2, SMT
                 DEF IrqComplete, RingComplete, Through
    <3>2. CASE ~(ringActive /\ RingComplete(pending, next, istatus) # {})
      BY <2>3, <3>2, SMT DEF IrqComplete
    <3> QED BY <3>1, <3>2
  <2>4. CASE Transfer \/ WaitTimeout
    BY <2>4, SMT DEF Transfer, WaitTimeout, Failed
  <2>5. CASE RingStart \/ WaitDone
    BY <2>5, SMT DEF RingStart, WaitDone
  <2>6. CASE RefillSkip \/ RefillRead \/ RefillWrite
    BY <2>6, SMT DEF RefillSkip, RefillRead, RefillWrite
  <2>7. CASE StopMask \/ RecoverStopped \/ StreamOff
    BY <2>7, SMT DEF StopMask, RecoverStopped, StreamOff
  <2>10. CASE Stop
    <3>1. mem' \in [Slots -> Nat]
      BY <2>10, SMT DEF Stop
    <3>2. wpc' \in {"lost", "exit", "off"}
      BY <2>10 DEF Stop
    <3>3. error' \in {"nolink", error}
      BY <2>10 DEF Stop
    <3> QED BY <2>10, <3>1, <3>2, <3>3, SMT DEF Stop
  <2>11. CASE RecoverFails
    <3>1. next' \in Slots /\ pending' \subseteq Slots /\ completed' \subseteq Slots
      BY <2>11, Zenon DEF RecoverFails, NewSession
    <3>2. UNCHANGED <<hwVars, consume, bank, control, taken, irqVars, count>>
      BY <2>11 DEF RecoverFails
    <3>3. wpc' = "exit" /\ error' \in {"nolink", "io"}
      BY <2>11 DEF RecoverFails
    <3> QED BY <3>1, <3>2, <3>3
  <2>12. CASE StreamOnFails
    <3>1. next' \in Slots /\ pending' \subseteq Slots /\ completed' \subseteq Slots
      BY <2>12, Zenon DEF StreamOnFails, Enable, NewSession
    <3>2. UNCHANGED <<queued, status, mem, produced, consume, bank, control,
                      taken, irqVars, count>>
      BY <2>12 DEF StreamOnFails
    <3>3. wpc' \in {"off", "exit"} /\ error' \in {"none", "nolink", "io"}
      BY <2>12 DEF StreamOnFails
    <3> QED BY <3>1, <3>2, <3>3
  <2>8. CASE Recover \/ StreamOn
    <3>1. next' \in Slots /\ pending' \subseteq Slots /\ completed' \subseteq Slots
      BY <2>8, Zenon DEF Recover, StreamOn, Enable, NewSession
    <3>2. UNCHANGED <<queued, status, mem, produced, consume, bank, control,
                      taken, irqVars, count>>
      BY <2>8 DEF Recover, StreamOn
    <3>3. wpc' \in WorkerPcs /\ error' \in {"none", "timeout", "nolink", "io"}
      BY <2>8 DEF Recover, StreamOn
    <3> QED BY <3>1, <3>2, <3>3
  <2>9. CASE UNCHANGED vars
    BY <2>9, SMT DEF vars
  <2> QED BY <2>1, <2>2, <2>3, <2>4, <2>5, <2>6, <2>7, <2>8, <2>9, <2>10,
             <2>11, <2>12 DEF Next, Irq, Worker
<1> QED BY <1>1, <1>2 DEF TypeOK

(* Every variable keeps its type in every behaviour of the ring.            *)
THEOREM TypeCorrect == Spec => []TypeOK
<1>1. TypeOK /\ [Next]_vars => TypeOK'
  BY TypeStep
<1> QED BY TypeInit, <1>1, PTL DEF Spec

-----------------------------------------------------------------------------
(* Distances along the ring.                                                *)

(* Distances are at most N - 1.                                             *)
LEMMA DistRange == \A c, s \in Slots : Dist(c, s) \in 0 .. N - 1
  BY SMT DEF Slots, Dist

(* Distances from one slot tell slots apart.                                *)
LEMMA DistInjective ==
  \A c, s, t \in Slots : Dist(c, s) = Dist(c, t) => s = t
  BY SMT DEF Slots, Dist

(* Moving the origin one slot on (the worker takes a slot).                 *)
LEMMA DistFromFollowing ==
  \A c, s \in Slots :
    Dist(Following(c), s) = IF s = c THEN N - 1 ELSE Dist(c, s) - 1
  BY SMT DEF Slots, Dist, Following

(* Moving the end one slot on (the FPGA or the handler completes a slot).   *)
LEMMA DistToFollowing ==
  \A c, s \in Slots :
    Dist(c, Following(s)) = IF Dist(c, s) = N - 1 THEN 0 ELSE Dist(c, s) + 1
  BY SMT DEF Slots, Dist, Following

(* 0x300 names the slot before the one the FPGA fills next.                *)
LEMMA StatusFollowing ==
  /\ \A s \in Slots : FromStatus(s + 1) = Following(s)
  /\ \A v \in 1 .. N : v - 1 \in Slots /\ FromStatus(v) = Following(v - 1)
  BY SMT DEF Slots, FromStatus, Following

(* A slot is 0 from itself; the last slot of the line precedes its origin.  *)
LEMMA DistEnds ==
  \A c, s \in Slots :
    /\ Dist(c, s) = 0 <=> s = c
    /\ Following(s) = c <=> Dist(c, s) = N - 1
  BY SMT DEF Slots, Dist, Following

(* Between two slots of the line, distances add up.                         *)
LEMMA DistBetween ==
  \A c, n, s \in Slots :
    Dist(n, s) = IF Dist(c, n) <= Dist(c, s) THEN Dist(c, s) - Dist(c, n)
                 ELSE (Dist(c, s) + N) - Dist(c, n)
  BY SMT DEF Slots, Dist

-----------------------------------------------------------------------------
(* The loop of gc573_dma_ring_complete() and its set form.                  *)

(* Induction for a set of numbers: it has all if it has 0 and, with a       *)
(* number, the next.                                                        *)
LEMMA SetInduction ==
  ASSUME NEW T, 0 \in T, \A i \in Nat : i \in T => i + 1 \in T
  PROVE  Nat \subseteq T
<1> SUFFICES ASSUME Nat \ T # {} PROVE FALSE
  OBVIOUS
<1>1. PICK x \in Nat \ T : \A y \in Nat \ T : ~(<<y, x>> \in OpToRel(<, Nat))
  <2>1. Nat \ T \subseteq Nat
    OBVIOUS
  <2> QED BY <2>1, WFMin, NatLessThanWellFounded, Zenon
<1>2. \A y \in Nat \ T : ~(y < x)
  BY <1>1, Zenon DEF OpToRel
<1>3. x # 0 /\ x - 1 \in Nat /\ x - 1 < x
  OBVIOUS
<1>4. x - 1 \in T
  BY <1>2, <1>3
<1>5. (x - 1) + 1 = x
  OBVIOUS
<1> QED BY <1>3, <1>4, <1>5

(* f has the loop variables after each of the first m turns.                *)
IsRun(p, n, v, m, f) ==
  f = [i \in 0 .. m |-> IF i = 0 THEN LoopStart(n) ELSE LoopTurn(p, v, f[i - 1])]

(* The loop variables after each turn exist, for every number of turns.     *)
LEMMA TurnsExist ==
  ASSUME NEW p, NEW n, NEW v, NEW m \in Nat
  PROVE  \E f : IsRun(p, n, v, m, f)
<1> DEFINE T == {k \in Nat : \E f : IsRun(p, n, v, k, f)}
<1>1. 0 \in T
  <2> DEFINE f == [i \in 0 .. 0 |-> LoopStart(n)]
  <2>1. IsRun(p, n, v, 0, f)
    BY DEF IsRun
  <2> QED BY <2>1
<1>2. ASSUME NEW k \in Nat, k \in T PROVE k + 1 \in T
  <2>1. PICK f : IsRun(p, n, v, k, f)
    BY <1>2
  <2> DEFINE g == [i \in 0 .. k + 1 |-> IF i = k + 1 THEN LoopTurn(p, v, f[k]) ELSE f[i]]
  <2>2. \A i \in 0 .. k + 1 :
          g[i] = IF i = 0 THEN LoopStart(n) ELSE LoopTurn(p, v, g[i - 1])
    <3> TAKE i \in 0 .. k + 1
    <3>1. CASE i = 0
      <4>1. g[0] = f[0]
        OBVIOUS
      <4>2. f[0] = LoopStart(n)
        BY <2>1 DEF IsRun
      <4> QED BY <3>1, <4>1, <4>2
    <3>2. CASE i \in 1 .. k
      <4>1. i \in 0 .. k /\ i - 1 \in 0 .. k + 1 /\ i # 0 /\ i # k + 1 /\ i - 1 # k + 1
        BY <3>2
      <4>2. g[i] = f[i] /\ g[i - 1] = f[i - 1]
        BY <4>1
      <4>3. f[i] = LoopTurn(p, v, f[i - 1])
        BY <2>1, <4>1 DEF IsRun
      <4> QED BY <4>1, <4>2, <4>3
    <3>3. CASE i = k + 1
      <4>1. i # 0 /\ i - 1 = k /\ k \in 0 .. k + 1 /\ k # k + 1
        BY <3>3
      <4>2. g[i - 1] = f[k]
        BY <4>1
      <4>3. g[i] = LoopTurn(p, v, f[k])
        BY <3>3
      <4> QED BY <4>1, <4>2, <4>3
    <3>4. i = 0 \/ i \in 1 .. k \/ i = k + 1
      OBVIOUS
    <3> QED BY <3>1, <3>2, <3>3, <3>4
  <2>3. IsRun(p, n, v, k + 1, g)
    BY <2>2 DEF IsRun
  <2> HIDE DEF g
  <2>4. k + 1 \in Nat
    OBVIOUS
  <2> QED BY <2>3, <2>4
<1> HIDE DEF T
<1>3. m \in T
  BY <1>1, <1>2, SetInduction
<1> QED BY <1>3 DEF T

(* Which loop variables a turn finds: the slots before it were queued, and  *)
(* the reported slot was not among them; a loop that is over has found all  *)
(* the slots up to the reported one queued, or one of them not.             *)
Turned(p, n, v, i, l) ==
  \/ /\ ~l.over /\ i <= Dist(n, v - 1)
     /\ l.slot \in Slots /\ Dist(n, l.slot) = i
     /\ l.done = {s \in Slots : Dist(n, s) < i} /\ l.done \subseteq p
  \/ /\ l.over /\ l.done = Through(n, v) /\ Through(n, v) \subseteq p
     /\ l.slot = Following(v - 1)
  \/ /\ l.over /\ l.done = {} /\ ~(Through(n, v) \subseteq p)

Variables == [slot : Slots, done : SUBSET Slots, over : BOOLEAN]

(* One turn of the loop.                                                    *)
LEMMA TurnStep ==
  ASSUME NEW p \in SUBSET Slots, NEW n \in Slots, NEW v \in 1 .. N, NEW i \in Nat,
         NEW l \in Variables, Turned(p, n, v, i, l)
  PROVE  LoopTurn(p, v, l) \in Variables /\ Turned(p, n, v, i + 1, LoopTurn(p, v, l))
<1> DEFINE t == LoopTurn(p, v, l)
<1>1. CASE l.over
  BY <1>1 DEF LoopTurn, Turned
<1>2. CASE ~l.over /\ l.slot \notin p
  <2>1. t = [l EXCEPT !.done = {}, !.over = TRUE]
    BY <1>2 DEF LoopTurn
  <2>2. l.slot \in Through(n, v)
    BY <1>2 DEF Turned, Through
  <2> QED BY <1>2, <2>1, <2>2 DEF Turned, Variables
<1>3. CASE ~l.over /\ l.slot \in p
  <2>1. PICK s \in p : s = l.slot
    BY <1>3
  <2>2. t = [slot |-> Following(s), done |-> l.done \cup {s}, over |-> s = v - 1]
    BY <1>3, <2>1 DEF LoopTurn
  <2>3. /\ s \in Slots /\ Dist(n, s) = i /\ i <= Dist(n, v - 1)
        /\ l.done = {r \in Slots : Dist(n, r) < i} /\ l.done \subseteq p
    BY <1>3, <2>1 DEF Turned
  <2>4. v - 1 \in Slots /\ Following(s) \in Slots
    BY <2>3, SlotTypes, SMT DEF Slots
  <2>5. t.done = {r \in Slots : Dist(n, r) < i + 1}
    <3>1. \A r \in Slots : Dist(n, r) < i + 1 <=> (Dist(n, r) < i \/ r = s)
      <4> TAKE r \in Slots
      <4>1. Dist(n, r) \in Nat /\ (Dist(n, r) = Dist(n, s) => r = s)
        BY <2>3, DistInjective, SlotTypes
      <4> QED BY <2>3, <4>1
    <3> QED BY <2>2, <2>3, <3>1
  <2>6. t.done \subseteq p /\ t \in Variables
    <3>1. (s = v - 1) \in BOOLEAN /\ l.done \cup {s} \subseteq Slots
      BY <2>3
    <3> QED BY <2>1, <2>2, <2>3, <2>4, <3>1 DEF Variables
  <2>7. t.over = (s = v - 1) /\ t.slot = Following(s)
    BY <2>2
  <2>8. CASE s = v - 1
    <3>1. t.done = Through(n, v)
      <4>1. \A r \in Slots : Dist(n, r) < i + 1 <=> Dist(n, r) <= Dist(n, v - 1)
        <5> TAKE r \in Slots
        <5>1. Dist(n, r) \in Nat
          BY SlotTypes
        <5> QED BY <5>1, <2>3, <2>8
      <4> QED BY <2>5, <4>1 DEF Through
    <3>2. t.over
      BY <2>7, <2>8, Zenon
    <3> QED BY <2>6, <2>7, <2>8, <3>1, <3>2 DEF Turned
  <2>9. CASE s # v - 1
    <3>1. Dist(n, v - 1) <= N - 1 /\ Dist(n, v - 1) \in Nat /\ N \in Nat
      BY <2>4, DistRange
    <3>2. i < Dist(n, v - 1)
      <4>1. i # Dist(n, v - 1)
        BY <2>3, <2>4, <2>9, DistInjective
      <4> QED BY <2>3, <3>1, <4>1
    <3>3. Dist(n, Following(s)) = i + 1
      BY <2>3, <3>1, <3>2, DistToFollowing
    <3>4. i + 1 <= Dist(n, v - 1)
      BY <3>1, <3>2
    <3>5. ~t.over /\ t.slot = Following(s)
      BY <2>7, <2>9, Zenon
    <3> QED BY <2>4, <2>5, <2>6, <3>3, <3>4, <3>5 DEF Turned
  <2> QED BY <2>8, <2>9
<1> QED BY <1>1, <1>2, <1>3

(* The loop computes the set form, for every ring and every status, and     *)
(* stops behind the reported slot.                                          *)
THEOREM LoopIsSetForm ==
  ASSUME NEW p \in SUBSET Slots, NEW n \in Slots, NEW v \in Nat
  PROVE  /\ LoopComplete(p, n, v) = RingComplete(p, n, v)
         /\ LoopComplete(p, n, v) # {} => Loop(p, n, v).slot = FromStatus(v)
<1> DEFINE turn == CHOOSE f : IsRun(p, n, v, N, f)
<1>1. Loop(p, n, v) = turn[N]
  BY DEF Loop, IsRun
<1>2. turn = [i \in 0 .. N |-> IF i = 0 THEN LoopStart(n) ELSE LoopTurn(p, v, turn[i - 1])]
  <2>1. N \in Nat
    OBVIOUS
  <2>2. \E f : IsRun(p, n, v, N, f)
    BY <2>1, TurnsExist, Zenon
  <2> QED BY <2>2, Zenon DEF IsRun
<1> HIDE DEF turn
<1>3. CASE v \notin 1 .. N
  BY <1>3 DEF LoopComplete, RingComplete
<1>4. CASE v \in 1 .. N
  <2> DEFINE T == {i \in Nat : i <= N => turn[i] \in Variables /\ Turned(p, n, v, i, turn[i])}
  <2>0. v - 1 \in Slots /\ n \in Slots
    BY <1>4, SMT DEF Slots
  <2>1. 0 \in T
    <3>1. turn[0] = LoopStart(n)
      BY <1>2
    <3>2. Dist(n, n) = 0 /\ Dist(n, v - 1) \in Nat /\ \A s \in Slots : ~(Dist(n, s) < 0)
      BY <2>0, DistEnds, SlotTypes, SMT
    <3>3. turn[0] \in Variables
      BY <3>1 DEF LoopStart, Variables
    <3>4. {s \in Slots : Dist(n, s) < 0} = {}
      BY <3>2
    <3> QED BY <2>0, <3>1, <3>2, <3>3, <3>4 DEF LoopStart, Turned
  <2>2. ASSUME NEW i \in Nat, i \in T PROVE i + 1 \in T
    <3>1. CASE i + 1 <= N
      <4>1. turn[i] \in Variables /\ Turned(p, n, v, i, turn[i])
        BY <2>2, <3>1
      <4>2. i + 1 \in 0 .. N /\ i + 1 # 0 /\ (i + 1) - 1 = i
        BY <3>1
      <4>3. turn[i + 1] = LoopTurn(p, v, turn[i])
        BY <1>2, <4>2
      <4> QED BY <1>4, <4>1, <4>3, TurnStep
    <3>2. CASE ~(i + 1 <= N)
      BY <3>2
    <3> QED BY <3>1, <3>2
  <2> HIDE DEF T
  <2>3. N \in T
    BY <2>1, <2>2, SetInduction
  <2>4. turn[N] \in Variables /\ Turned(p, n, v, N, turn[N])
    BY <2>3 DEF T
  <2>5. turn[N].over
    BY <2>0, <2>4, DistRange, SMT DEF Turned
  <2>6. v - 1 \in Through(n, v)
    BY <2>0, SlotTypes, SMT DEF Through
  <2>7. Through(n, v) # {}
    BY <2>6
  <2>8. CASE Through(n, v) \subseteq p
    <3>1. FromStatus(v) = Following(v - 1)
      BY <1>4, StatusFollowing
    <3> QED BY <1>1, <1>4, <2>4, <2>5, <2>6, <2>7, <2>8, <3>1
        DEF Turned, LoopComplete, RingComplete
  <2>9. CASE ~(Through(n, v) \subseteq p)
    BY <1>1, <1>4, <2>4, <2>5, <2>7, <2>9 DEF Turned, LoopComplete, RingComplete
  <2> QED BY <2>8, <2>9
<1> QED BY <1>3, <1>4

(* In every reachable state the loop of gc573_dma_ring_complete() returns,  *)
(* for any status, what the handler is modelled to complete.                *)
THEOREM LoopAlwaysAgrees == Spec => []LoopAgrees
<1>1. TypeOK => LoopAgrees
  BY LoopIsSetForm DEF TypeOK, DataOK, LoopAgrees
<1> QED BY <1>1, TypeCorrect, PTL

-----------------------------------------------------------------------------
(* The control structure: who may run, and what an inactive or a fresh      *)
(* session looks like.                                                      *)
ShapeInv == ControlInv /\ IdleInv /\ FreshInv

(* Every step keeps the control structure.                                  *)
LEMMA ShapeStep ==
  ASSUME TypeOK, ShapeInv, [Next]_vars
  PROVE  ShapeInv'
<1> USE DEF ShapeInv, ControlInv, IdleInv, FreshInv, Running, InStep, TypeOK,
            FlagsOK, DataOK, hwVars, workerVars, irqVars, count
<1>1. CASE HwComplete \/ HwLateIrq \/ InputChange
  BY <1>1 DEF HwComplete, HwLateIrq, InputChange
<1>2. CASE IrqRead \/ IrqAck \/ IrqComplete
  BY <1>2 DEF IrqRead, IrqAck, IrqComplete, RingComplete, Through
<1>3. CASE Transfer \/ WaitTimeout
  BY <1>3 DEF Transfer, WaitTimeout, Failed
<1>4. CASE RingStart \/ WaitDone
  BY <1>4 DEF RingStart, WaitDone
<1>5. CASE RefillSkip \/ RefillRead \/ RefillWrite
  BY <1>5 DEF RefillSkip, RefillRead, RefillWrite
<1>6. CASE StopMask \/ Stop
  BY <1>6 DEF StopMask, Stop
<1>7. CASE Recover \/ RecoverStopped
  BY <1>7 DEF Recover, RecoverStopped, Enable, NewSession
<1>8. CASE StreamOn \/ StreamOff
  BY <1>8 DEF StreamOn, StreamOff, Enable, NewSession
<1>9. CASE UNCHANGED vars
  BY <1>9 DEF vars
<1>10. CASE RecoverFails
  BY <1>10 DEF RecoverFails, NewSession
<1>11. CASE StreamOnFails
  BY <1>11 DEF StreamOnFails, Enable, NewSession
<1> QED BY <1>1, <1>2, <1>3, <1>4, <1>5, <1>6, <1>7, <1>8, <1>9, <1>10, <1>11
           DEF Next, Irq, Worker

-----------------------------------------------------------------------------
(* The line of slots, action by action.                                     *)

(* Steps that leave the slots alone and neither begin a copy nor end one    *)
(* without a skipped refill.                                                *)
LEMMA FrameStep ==
  ASSUME RunningInv,
         UNCHANGED <<queued, status, irq, mem, produced, pending, next,
                     ringActive, ringStarted, consume, bank, control, taken,
                     ipc, istatus, iproduced, acked, slip>>,
         masked => masked',
         stopping' \/ (~stopping /\ completed' = completed),
         \/ wpc' = wpc /\ skipped' = skipped
         \/ /\ wpc # "refill" /\ wpc' \notin {"copy", "refill"}
            /\ skipped' \/ (wpc # "copy" /\ ~skipped)
  PROVE  RunningInv'
<1> USE DEF Running, InStep, Filled, Acked, At, Dist, Following, FromStatus
<1> SUFFICES ASSUME Running', InStep' PROVE RunningInv'
  BY DEF RunningInv
<1>1. /\ CountInv /\ NextInv /\ StatusInv /\ QueuedInv /\ PendingInv
      /\ CompletedInv /\ MemInv /\ CopyInv /\ HandlerInv /\ SwallowInv /\ FullInv
  BY DEF RunningInv
<1>2. CountInv' /\ NextInv' /\ StatusInv' /\ QueuedInv' /\ MemInv'
  BY <1>1 DEF CountInv, NextInv, StatusInv, QueuedInv, MemInv
<1>3. HandlerInv' /\ SwallowInv'
  BY <1>1 DEF HandlerInv, ReportInv, SwallowInv
<1>4. PendingInv' /\ CompletedInv'
  BY <1>1 DEF PendingInv, CompletedInv
<1>5. CopyInv' /\ FullInv'
  BY <1>1 DEF CopyInv, FullInv
<1> QED BY <1>2, <1>3, <1>4, <1>5 DEF RunningInv

(* A frame arrives: the slot at the end of the filled part was queued, so   *)
(* it is not being copied, and the filled part grows by it.                 *)
LEMMA HwCompleteStep ==
  ASSUME TypeOK, ShapeInv, RunningInv, HwComplete
  PROVE  RunningInv'
<1> SUFFICES ASSUME InStep' PROVE RunningInv'
  BY DEF RunningInv
<1> DEFINE f == FromStatus(status)
<1>1. /\ Running /\ InStep /\ f \in queued /\ f \in Slots
      /\ ~lock /\ wpc # "refill"
  BY SlotTypes DEF HwComplete, ShapeInv, ControlInv, IdleInv, FreshInv, Running,
     InStep, TypeOK, FlagsOK, DataOK
<1>2. /\ CountInv /\ NextInv /\ StatusInv /\ QueuedInv /\ PendingInv
      /\ CompletedInv /\ MemInv /\ CopyInv /\ HandlerInv /\ SwallowInv /\ FullInv
  BY <1>1 DEF RunningInv
<1>3. /\ produced' = produced + 1 /\ queued' = queued \ {f} /\ status' = f + 1
      /\ irq' = TRUE /\ mem' = [mem EXCEPT ![f] = produced]
      /\ UNCHANGED <<pending, next, completed, ringActive, masked, lock,
                     stopping, wpc, ringStarted, consume, bank, control, skipped,
                     taken, ipc, istatus, iproduced, acked>>
  BY DEF HwComplete, workerVars, irqVars
<1>4. /\ Dist(consume, f) = Filled /\ Filled < N
      /\ \A s \in Slots : Dist(consume, s) \in 0 .. N - 1
  <2>1. \A s \in Slots : Dist(consume, s) \in 0 .. N - 1
    BY SMT DEF Dist, Slots, TypeOK, DataOK
  <2>2. Filled <= Dist(consume, f)
    BY <1>1, <1>2 DEF QueuedInv
  <2> QED BY <1>1, <1>2, <2>1, <2>2, SMT DEF StatusInv, At, Filled, TypeOK, DataOK
<1>5. /\ produced \in Nat /\ taken \in Nat /\ acked \in Nat /\ consume \in Slots
      /\ mem \in [Slots -> Nat] /\ iproduced \in Nat
  BY DEF TypeOK, DataOK
<1>6. CountInv' /\ NextInv'
  BY <1>2, <1>3, <1>4, <1>5, SMT DEF CountInv, NextInv, At, Dist, Filled, Acked
<1>7. StatusInv'
  <2>1. FromStatus(f + 1) = Following(f)
    BY <1>1, StatusFollowing
  <2>2. Dist(consume, Following(f)) = IF Filled = N - 1 THEN 0 ELSE Filled + 1
    BY <1>1, <1>4, <1>5, DistToFollowing
  <2>3. Following(f) \in Slots /\ f + 1 > 0
    BY <1>1, SlotTypes, SMT DEF Slots
  <2>4. Filled' = Filled + 1 /\ consume' = consume /\ status' = f + 1
    BY <1>3, <1>5, SMT DEF Filled
  <2>5. Filled + 1 = N => Following(f) = consume
    BY <2>2, <2>3, <1>4, <1>5, DistEnds, SMT DEF Filled
  <2> QED BY <2>1, <2>2, <2>3, <2>4, <2>5, <1>4, <1>5, SMT DEF StatusInv, At, Dist, Filled
<1>8. QueuedInv' /\ PendingInv' /\ FullInv'
  <2>1. \A s \in Slots : s # f => Dist(consume, s) # Filled
    BY <1>1, <1>4, <1>5, DistInjective
  <2>2. queued \subseteq Slots
    BY DEF TypeOK, DataOK
  <2> DEFINE D(s) == Dist(consume, s)
  <2>3. Filled' = Filled + 1 /\ Acked' = Acked /\ Filled \in Int /\ Acked \in Int
        /\ Acked <= Filled
    BY <1>2, <1>3, <1>5, SMT DEF Filled, Acked, CountInv
  <2>4. \A s : Dist(consume, s)' = D(s)
    BY <1>3 DEF Dist
  <2> HIDE DEF D
  <2>5. \A s \in Slots : D(s) \in 0 .. N - 1 /\ (s # f => D(s) # Filled)
    BY <1>4, <2>1 DEF D
  <2>6. D(f) = Filled
    BY <1>4 DEF D
  <2>7. \A s \in queued : Filled <= D(s)
    BY <1>2 DEF QueuedInv, D
  <2> QED BY <1>1, <1>2, <1>3, <2>2, <2>3, <2>4, <2>5, <2>6, <2>7, SMT
             DEF QueuedInv, PendingInv, FullInv, D
<1>9. CompletedInv'
  BY <1>2, <1>3 DEF CompletedInv, Dist, Acked
<1>10. MemInv'
  BY <1>1, <1>2, <1>3, <1>4, <1>5, DistInjective, SMT DEF MemInv, Dist, Filled
<1>11. CopyInv'
  <2>1. SUFFICES ASSUME wpc = "copy" PROVE CopyInv'
    BY <1>1, <1>3 DEF CopyInv
  <2>2. /\ bank \in Slots /\ Following(bank) = consume /\ bank \notin queued
        /\ taken > 0 /\ mem[bank] = taken - 1
    BY <1>2, <2>1 DEF CopyInv, TypeOK, DataOK
  <2>3. Filled # N - 1
    BY <1>1, <1>4, <1>5, <2>2, DistEnds, DistInjective
  <2>4. Filled' < N /\ mem'[bank] = taken - 1
    BY <1>1, <1>3, <1>4, <1>5, <2>2, <2>3, SMT DEF Filled
  <2> QED BY <1>3, <2>1, <2>2, <2>4 DEF CopyInv, Following
<1>12. HandlerInv' /\ SwallowInv'
  <2>1. ReportInv'
    BY <1>2, <1>3, <1>5, SMT DEF HandlerInv, ReportInv, Dist, FromStatus
  <2> QED BY <1>2, <1>3, <1>5, <2>1, SMT DEF HandlerInv, SwallowInv, CountInv
<1> QED BY <1>6, <1>7, <1>8, <1>9, <1>10, <1>11, <1>12 DEF RunningInv

(* A repeated interrupt leaves the line alone: only a report may follow.    *)
LEMMA HwLateIrqStep ==
  ASSUME RunningInv, HwLateIrq
  PROVE  RunningInv'
<1> SUFFICES ASSUME Running, InStep PROVE RunningInv'
  BY DEF RunningInv, Running, InStep, HwLateIrq, workerVars, count
<1>1. /\ CountInv /\ NextInv /\ StatusInv /\ QueuedInv /\ PendingInv
      /\ CompletedInv /\ MemInv /\ CopyInv /\ HandlerInv /\ SwallowInv /\ FullInv
  BY DEF RunningInv
<1>2. /\ produced > 0 /\ irq' = TRUE
      /\ UNCHANGED <<queued, status, mem, produced, pending, next, completed,
                     ringActive, masked, ringStarted, stopping, wpc, consume,
                     bank, control, skipped, taken, ipc, istatus, iproduced,
                     acked>>
  BY DEF HwLateIrq, workerVars, irqVars, count
<1>3. CountInv' /\ NextInv' /\ StatusInv' /\ QueuedInv' /\ MemInv'
  BY <1>1, <1>2 DEF CountInv, NextInv, StatusInv, QueuedInv, MemInv, Filled,
                    Acked, At, Dist, FromStatus
<1>4. PendingInv' /\ CompletedInv' /\ CopyInv' /\ FullInv'
  BY <1>1, <1>2 DEF PendingInv, CompletedInv, CopyInv, FullInv, Filled, Acked,
                    Dist, Following
<1>5. HandlerInv' /\ SwallowInv'
  BY <1>1, <1>2 DEF HandlerInv, ReportInv, SwallowInv, Dist, FromStatus
<1> QED BY <1>3, <1>4, <1>5 DEF RunningInv

(* The first transfer of a session queues every slot behind an empty line.  *)
LEMMA RingStartStep ==
  ASSUME TypeOK, ShapeInv, RingStart
  PROVE  RunningInv'
<1>1. /\ ipc = "idle" /\ (irq => masked) /\ produced = 0 /\ acked = 0 /\ taken = 0
      /\ ~stopping => completed = {}
  BY DEF RingStart, ShapeInv, ControlInv, FreshInv
<1>2. /\ consume' = FromStatus(status) /\ next' = consume' /\ queued' = Slots
      /\ pending' = Slots /\ wpc' = "wait"
      /\ UNCHANGED <<status, irq, mem, produced, completed, masked, stopping,
                     taken, ipc, istatus, iproduced, acked>>
  BY DEF RingStart, irqVars, count
<1>3. consume' \in Slots
  BY <1>2, SlotTypes DEF TypeOK, DataOK
<1>4. \A s \in Slots : Dist(consume', s) \in 0 .. N - 1
  BY <1>3, DistRange
<1>5. Filled' = 0 /\ Acked' = 0
  BY <1>1, <1>2, SMT DEF Filled, Acked
<1>6. CountInv' /\ SwallowInv' /\ HandlerInv' /\ CopyInv'
  BY <1>1, <1>2, SMT DEF CountInv, SwallowInv, HandlerInv, ReportInv, CopyInv
<1>7. NextInv' /\ StatusInv'
  <2>1. Dist(consume', consume') = 0
    BY <1>3, DistEnds
  <2> QED BY <1>1, <1>2, <1>3, <1>5, <2>1, SMT DEF NextInv, StatusInv, At, Dist, FromStatus
<1>8. QueuedInv' /\ PendingInv' /\ FullInv' /\ MemInv'
  BY <1>1, <1>2, <1>4, <1>5, SMT DEF QueuedInv, PendingInv, FullInv, MemInv, Dist
<1>9. CompletedInv'
  BY <1>1, <1>2, <1>4, <1>5, SMT DEF CompletedInv, Dist
<1> QED BY <1>6, <1>7, <1>8, <1>9 DEF RunningInv

(* The handler reads 0x300: what it reports is the last frame written, one  *)
(* it has not marked yet or, after a repeated interrupt, the last it marked. *)
LEMMA IrqReadStep ==
  ASSUME TypeOK, RunningInv, IrqRead
  PROVE  RunningInv'
<1> SUFFICES ASSUME Running, InStep PROVE RunningInv'
  BY DEF RunningInv, Running, InStep, IrqRead, workerVars, count
<1>1. /\ CountInv /\ NextInv /\ StatusInv /\ QueuedInv /\ PendingInv
      /\ CompletedInv /\ MemInv /\ CopyInv /\ HandlerInv /\ SwallowInv /\ FullInv
  BY DEF RunningInv
<1>2. /\ ipc = "idle" /\ irq /\ ~masked /\ ipc' = "ack" /\ istatus' = status
      /\ iproduced' = produced
      /\ UNCHANGED <<queued, status, irq, mem, produced, pending, next,
                     completed, ringActive, masked, ringStarted, stopping, wpc,
                     consume, bank, control, skipped, taken, acked>>
  BY DEF IrqRead, hwVars, workerVars, count
<1>3. CountInv' /\ NextInv' /\ StatusInv' /\ QueuedInv' /\ MemInv'
  BY <1>1, <1>2 DEF CountInv, NextInv, StatusInv, QueuedInv, MemInv, Filled,
                    Acked, At, Dist, FromStatus
<1>4. PendingInv' /\ CompletedInv' /\ CopyInv' /\ FullInv'
  BY <1>1, <1>2 DEF PendingInv, CompletedInv, CopyInv, FullInv, Filled, Acked,
                    Dist, Following
<1>5. /\ acked <= produced /\ status > 0 /\ taken <= acked
      /\ produced > 0 /\ produced <= taken + N
  BY <1>1, <1>2, SMT DEF HandlerInv, StatusInv, CountInv, TypeOK, DataOK
<1>6. IF acked < produced THEN Dist(consume, status - 1) = (produced - 1) - taken
                          ELSE FromStatus(status) = next
  <2>0. CASE ~(acked < produced)
    <3>1. At(next, Filled) /\ At(FromStatus(status), Filled)
      BY <1>1, <1>5, <2>0, SMT
         DEF NextInv, StatusInv, Acked, Filled, TypeOK, DataOK
    <3>2. next \in Slots /\ FromStatus(status) \in Slots /\ consume \in Slots
      BY SlotTypes DEF TypeOK, DataOK
    <3> QED BY <2>0, <3>1, <3>2, DistInjective DEF At
  <2> SUFFICES ASSUME acked < produced
               PROVE  Dist(consume, status - 1) = (produced - 1) - taken
    BY <2>0
  <2>1. /\ status - 1 \in Slots /\ consume \in Slots
        /\ FromStatus(status) = Following(status - 1)
    BY <1>5, StatusFollowing, SMT DEF TypeOK, DataOK
  <2>2. Dist(consume, Following(status - 1)) =
          IF Dist(consume, status - 1) = N - 1 THEN 0
          ELSE Dist(consume, status - 1) + 1
    BY <2>1, DistToFollowing
  <2>3. /\ Following(status - 1) \in Slots
        /\ Dist(consume, status - 1) \in 0 .. N - 1
    BY <2>1, SMT DEF Following, Dist, Slots
  <2>4. At(Following(status - 1), Filled)
    BY <1>1, <2>1 DEF StatusInv
  <2>5. CASE Filled = N
    <3>1. Dist(consume, status - 1) = N - 1
      BY <2>1, <2>3, <2>4, <2>5, DistEnds DEF At
    <3> QED BY <3>1, <2>5, SMT DEF Filled, TypeOK, DataOK
  <2>6. CASE Filled # N
    <3>1. Dist(consume, Following(status - 1)) = Filled
      BY <2>4, <2>6 DEF At
    <3> QED BY <1>5, <2>2, <2>3, <3>1, SMT DEF Filled, TypeOK, DataOK
  <2> QED BY <2>5, <2>6
<1>7. HandlerInv' /\ SwallowInv'
  BY <1>2, <1>5, <1>6, SMT DEF HandlerInv, ReportInv, SwallowInv, Dist, FromStatus,
                               TypeOK, DataOK
<1> QED BY <1>3, <1>4, <1>7 DEF RunningInv

(* The acknowledge may swallow the interrupt of a later frame, but never of *)
(* a whole turn of the ring.                                                *)
LEMMA IrqAckStep ==
  ASSUME TypeOK, RunningInv, IrqAck
  PROVE  RunningInv'
<1> SUFFICES ASSUME Running, InStep PROVE RunningInv'
  BY DEF RunningInv, Running, InStep, IrqAck, workerVars, count
<1>1. /\ CountInv /\ NextInv /\ StatusInv /\ QueuedInv /\ PendingInv
      /\ CompletedInv /\ MemInv /\ CopyInv /\ HandlerInv /\ SwallowInv /\ FullInv
  BY DEF RunningInv
<1>2. /\ ipc = "ack" /\ ipc' = "complete" /\ irq' = FALSE
      /\ UNCHANGED <<queued, status, mem, produced, pending, next,
                     completed, ringActive, ringStarted, stopping, wpc, consume,
                     bank, control, skipped, taken, istatus, iproduced, acked>>
  BY DEF IrqAck, workerVars, count
<1>3. CountInv' /\ NextInv' /\ StatusInv' /\ QueuedInv' /\ MemInv'
  BY <1>1, <1>2 DEF CountInv, NextInv, StatusInv, QueuedInv, MemInv, Filled,
                    Acked, At, Dist, FromStatus
<1>4. PendingInv' /\ CompletedInv' /\ CopyInv' /\ FullInv'
  BY <1>1, <1>2 DEF PendingInv, CompletedInv, CopyInv, FullInv, Filled, Acked,
                    Dist, Following
<1>5. HandlerInv' /\ SwallowInv'
  BY <1>1, <1>2, SMT DEF HandlerInv, ReportInv, SwallowInv, CountInv, Dist,
                         FromStatus, TypeOK, DataOK
<1> QED BY <1>3, <1>4, <1>5 DEF RunningInv

(* A report that was counted before: it stands for the whole ring, so that  *)
(* it is ignored unless every slot is queued, and then the session loses    *)
(* count.                                                                   *)
LEMMA IrqRepeatStep ==
  ASSUME TypeOK, RunningInv, IrqComplete, Running, InStep, InStep',
         ~(acked < iproduced)
  PROVE  RunningInv'
<1>1. /\ CountInv /\ NextInv /\ StatusInv /\ QueuedInv /\ PendingInv
      /\ CompletedInv /\ MemInv /\ CopyInv /\ HandlerInv /\ SwallowInv /\ FullInv
  BY DEF RunningInv
<1>2. /\ ipc = "complete" /\ iproduced = acked /\ acked > 0 /\ istatus \in 1 .. N
      /\ FromStatus(istatus) = next
  BY <1>1, SMT DEF IrqComplete, HandlerInv, ReportInv, TypeOK, DataOK
<1>3. Through(next, istatus) = Slots
  <2>1. istatus - 1 \in Slots /\ Following(istatus - 1) = next /\ next \in Slots
    BY <1>2, StatusFollowing DEF TypeOK, DataOK
  <2>2. Dist(next, istatus - 1) = N - 1
    BY <2>1, DistEnds
  <2>3. \A s \in Slots : Dist(next, s) <= N - 1
    BY <2>1, DistRange, SMT
  <2> QED BY <2>2, <2>3 DEF Through
<1>4. pending # Slots /\ RingComplete(pending, next, istatus) = {}
  <2>1. Slots # {} /\ pending \subseteq Slots
    BY SlotTypes DEF TypeOK, DataOK
  <2>2. RingComplete(pending, next, istatus) # {} => pending = Slots
    BY <1>3, <2>1 DEF RingComplete
  <2>3. pending = Slots => RingComplete(pending, next, istatus) # {}
    BY <1>2, <1>3, <2>1 DEF RingComplete
  <2>4. RingComplete(pending, next, istatus) = {} \/ pending # Slots
    BY <1>2 DEF IrqComplete, InStep, Running
  <2> QED BY <2>2, <2>3, <2>4
<1>5. /\ ipc' = "idle"
      /\ UNCHANGED <<queued, status, irq, mem, produced, pending, next, completed,
                     ringActive, masked, ringStarted, stopping, wpc, consume,
                     bank, control, skipped, taken, acked>>
  BY <1>4 DEF IrqComplete, hwVars, workerVars, count
<1>6. CountInv' /\ NextInv' /\ StatusInv' /\ QueuedInv' /\ MemInv'
  BY <1>1, <1>5 DEF CountInv, NextInv, StatusInv, QueuedInv, MemInv, Filled,
                    Acked, At, Dist, FromStatus
<1>7. PendingInv' /\ CompletedInv' /\ CopyInv' /\ FullInv'
  BY <1>1, <1>5 DEF PendingInv, CompletedInv, CopyInv, FullInv, Filled, Acked,
                    Dist, Following
<1>8. produced < acked + N
  <2>1. SUFFICES ASSUME ~(produced < acked + N) PROVE FALSE
    OBVIOUS
  <2>2. Acked = 0 /\ Filled = N
    BY <1>1, <2>1, SMT DEF CountInv, Acked, Filled, TypeOK, DataOK
  <2>3. \A s \in Slots : Dist(consume, s) \in 0 .. N - 1
    BY DistRange DEF TypeOK, DataOK
  <2>4. \A s \in Slots : s \in pending
    BY <1>1, <2>2, <2>3, SMT DEF PendingInv
  <2> QED BY <1>4, <2>4 DEF TypeOK, DataOK
<1>9. HandlerInv' /\ SwallowInv'
  BY <1>1, <1>5, <1>8 DEF HandlerInv, ReportInv, SwallowInv
<1> QED BY <1>6, <1>7, <1>9 DEF RunningInv

(* The handler marks the slots up to the one it read: all of them are       *)
(* pending, so none is forgotten, and acked becomes what it read.           *)
LEMMA IrqCompleteStep ==
  ASSUME TypeOK, ShapeInv, RunningInv, IrqComplete
  PROVE  RunningInv'
<1> SUFFICES ASSUME Running, InStep, InStep', acked < iproduced PROVE RunningInv'
  <2>1. /\ Running' = Running
        /\ InStep' => InStep
    BY DEF Running, InStep, IrqComplete, workerVars, count
  <2> QED BY <2>1, IrqRepeatStep DEF RunningInv
<1>1. /\ CountInv /\ NextInv /\ StatusInv /\ QueuedInv /\ PendingInv
      /\ CompletedInv /\ MemInv /\ CopyInv /\ HandlerInv /\ SwallowInv /\ FullInv
  BY DEF RunningInv
<1> DEFINE D(s) == Dist(consume, s)
           t    == istatus - 1
<1>2. /\ produced \in Nat /\ taken \in Nat /\ acked \in Nat /\ iproduced \in Nat
      /\ consume \in Slots /\ next \in Slots /\ pending \subseteq Slots
      /\ queued \subseteq Slots
  BY DEF TypeOK, DataOK
<1>3. /\ ipc = "complete" /\ acked < iproduced /\ iproduced <= produced
      /\ istatus \in 1 .. N /\ t \in Slots
      /\ FromStatus(istatus) = Following(t)
      /\ D(t) = (iproduced - 1) - taken
      /\ taken <= acked /\ produced <= taken + N
  <2>1. /\ ipc = "complete" /\ acked < iproduced /\ iproduced <= produced
        /\ istatus > 0 /\ D(t) = (iproduced - 1) - taken
    BY <1>1 DEF IrqComplete, HandlerInv, ReportInv
  <2>2. istatus \in 1 .. N
    BY <2>1, SMT DEF TypeOK, DataOK
  <2> QED BY <1>1, <2>1, <2>2, StatusFollowing DEF CountInv
<1>4. D(next) = Acked /\ Acked < N
  BY <1>1, <1>2, <1>3, SMT DEF NextInv, At, Acked
<1>5. \A s \in Slots : D(s) \in 0 .. N - 1
  BY <1>2, DistRange
<1>6. \A s \in Slots : s \in Through(next, istatus) <=> Acked <= D(s) /\ D(s) <= D(t)
  <2>1. SUFFICES ASSUME NEW s \in Slots
                 PROVE  Dist(next, s) <= Dist(next, t) <=> Acked <= D(s) /\ D(s) <= D(t)
    BY DEF Through
  <2>2. /\ Dist(next, s) = IF D(next) <= D(s) THEN D(s) - D(next)
                           ELSE (D(s) + N) - D(next)
        /\ Dist(next, t) = IF D(next) <= D(t) THEN D(t) - D(next)
                           ELSE (D(t) + N) - D(next)
    BY <1>2, <1>3, DistBetween
  <2> HIDE DEF D
  <2>3. D(s) \in 0 .. N - 1 /\ D(t) \in 0 .. N - 1
    BY <1>3, <1>5
  <2> QED BY <1>2, <1>3, <1>4, <2>2, <2>3, SMT DEF Acked
<1>7. Dist(next, t) = D(t) - Acked
  <2>1. Dist(next, t) = IF D(next) <= D(t) THEN D(t) - D(next)
                        ELSE (D(t) + N) - D(next)
    BY <1>2, <1>3, DistBetween
  <2> HIDE DEF D
  <2> QED BY <1>2, <1>3, <1>4, <2>1, SMT DEF Acked
<1>8. Through(next, istatus) \subseteq pending
  <2>1. D(t) < Filled
    BY <1>2, <1>3, SMT DEF Filled
  <2>2. \A s \in Slots : Acked <= D(s) /\ D(s) < Filled => s \in pending
    BY <1>1 DEF PendingInv
  <2>3. Through(next, istatus) \subseteq Slots
    BY DEF Through
  <2>4. D(t) \in 0 .. N - 1 /\ Filled \in Int
    BY <1>2, <1>3, <1>5, SMT DEF Filled
  <2> HIDE DEF D
  <2> QED BY <1>5, <1>6, <2>1, <2>2, <2>3, <2>4, SMT
<1>9. /\ RingComplete(pending, next, istatus) = Through(next, istatus)
      /\ t \in Through(next, istatus)
  BY <1>2, <1>3, <1>4, <1>6, <1>8, SMT DEF RingComplete, Acked
<1>10. /\ ipc' = "idle" /\ next' = Following(t) /\ acked' = iproduced
       /\ pending' = pending \ Through(next, istatus)
       /\ completed' = completed \cup Through(next, istatus)
       /\ UNCHANGED <<queued, status, irq, mem, produced, ringActive, masked,
                      ringStarted, stopping, wpc, consume, bank, control,
                      skipped, taken>>
  <2>1. /\ ipc' = "idle" /\ next' = Following(t)
        /\ acked' = acked + Dist(next, t) + 1
        /\ pending' = pending \ Through(next, istatus)
        /\ completed' = completed \cup Through(next, istatus)
        /\ UNCHANGED <<queued, status, irq, mem, produced, ringActive, masked,
                       ringStarted, stopping, wpc, consume, bank, control,
                       skipped, taken>>
    BY <1>3, <1>9 DEF IrqComplete, Running, hwVars, workerVars
  <2>2. acked + Dist(next, t) + 1 = iproduced
    BY <1>2, <1>3, <1>7, SMT DEF Acked
  <2> QED BY <2>1, <2>2
<1>11. CountInv' /\ StatusInv' /\ QueuedInv' /\ MemInv' /\ CopyInv' /\ FullInv'
  <2>1. CountInv'
    BY <1>2, <1>3, <1>10, SMT DEF CountInv
  <2>2. StatusInv' /\ QueuedInv' /\ MemInv' /\ CopyInv' /\ FullInv'
    BY <1>1, <1>10 DEF StatusInv, QueuedInv, MemInv, CopyInv, FullInv, Filled,
                       At, Dist, Following, FromStatus
  <2> QED BY <2>1, <2>2
<1>12. Acked' = D(t) + 1 /\ Filled' = Filled
  BY <1>2, <1>3, <1>10, SMT DEF Acked, Filled
<1>13. NextInv'
  <2>1. D(Following(t)) = IF D(t) = N - 1 THEN 0 ELSE D(t) + 1
    BY <1>2, <1>3, DistToFollowing
  <2>2. D(t) = N - 1 => Following(t) = consume
    BY <1>2, <1>3, DistEnds
  <2>3. D(t) \in 0 .. N - 1
    BY <1>3, <1>5
  <2>4. NextInv' <=> IF D(t) + 1 = N THEN Following(t) = consume
                     ELSE D(Following(t)) = D(t) + 1
    BY <1>10, <1>12 DEF NextInv, At, Dist
  <2> HIDE DEF D
  <2> QED BY <2>1, <2>2, <2>3, <2>4, SMT
<1>14. PendingInv' /\ CompletedInv'
  <2>1. \A s \in Slots : D(s)' = D(s)
    BY <1>10 DEF Dist
  <2>2. wpc # "refill"
    BY DEF IrqComplete, ShapeInv, ControlInv
  <2>3. Filled = produced - taken /\ D(t) < Filled
    BY <1>2, <1>3, SMT DEF Filled
  <2>4. \A s \in queued : Filled <= D(s)
    BY <1>1 DEF QueuedInv
  <2>5. \A s \in Slots : s \in pending <=>
          s \in queued \/ (Acked <= D(s) /\ D(s) < Filled)
    BY <1>1, <2>2 DEF PendingInv
  <2>6. ~stopping => \A s \in Slots : s \in completed <=> D(s) < Acked
    BY <1>1 DEF CompletedInv
  <2>7. Acked \in Nat /\ Acked <= D(t)
    BY <1>2, <1>3, SMT DEF Acked
  <2>8. PendingInv' <=> \A s \in Slots : s \in pending' <=>
          s \in queued \/ (D(t) + 1 <= D(s) /\ D(s) < Filled)
    BY <1>10, <1>12, <2>1, <2>2 DEF PendingInv
  <2>9. CompletedInv' <=>
          (~stopping => \A s \in Slots : s \in completed' <=> D(s) < D(t) + 1)
    BY <1>10, <1>12, <2>1 DEF CompletedInv
  <2>10. D(t) \in 0 .. N - 1
    BY <1>3, <1>5
  <2> HIDE DEF D
  <2>11. PendingInv'
    BY <1>2, <1>5, <1>6, <1>10, <2>3, <2>4, <2>5, <2>7, <2>8, <2>10, SMT DEF Filled
  <2>12. CompletedInv'
    BY <1>2, <1>5, <1>6, <1>10, <2>6, <2>7, <2>9, <2>10, SMT
  <2> QED BY <2>11, <2>12
<1>15. HandlerInv' /\ SwallowInv'
  BY <1>1, <1>2, <1>3, <1>10, SMT DEF HandlerInv, ReportInv, SwallowInv
<1> QED BY <1>11, <1>13, <1>14, <1>15 DEF RunningInv

(* The worker takes the first slot of the line: the origin moves on by one, *)
(* and the slot, now last, holds the frame just counted.                    *)
LEMMA WaitDoneStep ==
  ASSUME TypeOK, ShapeInv, RunningInv, WaitDone, ~stopping
  PROVE  RunningInv'
<1> SUFFICES ASSUME InStep, InStep' PROVE RunningInv'
  BY DEF RunningInv, InStep, WaitDone, count
<1>1. Running
  BY DEF WaitDone, ShapeInv, ControlInv
<1>2. /\ CountInv /\ NextInv /\ StatusInv /\ QueuedInv /\ PendingInv
      /\ CompletedInv /\ MemInv /\ CopyInv /\ HandlerInv /\ SwallowInv /\ FullInv
  BY <1>1 DEF RunningInv
<1> DEFINE D(s) == Dist(consume, s)
           E(s) == Dist(Following(consume), s)
<1>3. /\ produced \in Nat /\ taken \in Nat /\ acked \in Nat /\ iproduced \in Nat
      /\ consume \in Slots /\ next \in Slots /\ pending \subseteq Slots
      /\ queued \subseteq Slots /\ completed \subseteq Slots
      /\ status \in 0 .. N /\ istatus \in 0 .. N
  BY DEF TypeOK, DataOK
<1>4. /\ wpc = "wait" /\ wpc' = "copy" /\ bank' = consume /\ consume \in completed
      /\ consume' = Following(consume) /\ taken' = taken + 1
      /\ completed' = completed \ {consume}
      /\ UNCHANGED <<queued, status, irq, mem, produced, pending, next,
                     ringActive, masked, ringStarted, stopping, skipped, ipc,
                     istatus, iproduced, acked>>
  BY DEF WaitDone, hwVars, irqVars, count
<1>5. \A s \in Slots : /\ D(s) \in 0 .. N - 1
                       /\ D(s) = 0 <=> s = consume
                       /\ E(s) = IF s = consume THEN N - 1 ELSE D(s) - 1
                       /\ Dist(consume, s)' = E(s)
  BY <1>3, <1>4, DistRange, DistEnds, DistFromFollowing DEF Dist
<1>6. /\ 0 < Acked /\ Acked <= Filled /\ Filled <= N
      /\ Acked \in Nat /\ Filled \in Nat
      /\ Acked' = Acked - 1 /\ Filled' = Filled - 1
  <2>1. D(consume) < Acked /\ D(consume) = 0
    BY <1>2, <1>3, <1>4, <1>5 DEF CompletedInv
  <2> HIDE DEF D
  <2> QED BY <1>2, <1>3, <1>4, <2>1, SMT DEF CountInv, Acked, Filled
<1>7. CountInv'
  BY <1>2, <1>3, <1>4, <1>6, SMT DEF CountInv, Acked
<1>8. ASSUME NEW s \in Slots, NEW k \in 1 .. N, At(s, k)
      PROVE  E(s) = k - 1
  <2>1. /\ k = N => s = consume
        /\ k # N => D(s) = k
    BY <1>8 DEF At
  <2>2. /\ D(s) = 0 <=> s = consume
        /\ E(s) = IF s = consume THEN N - 1 ELSE D(s) - 1
    BY <1>5
  <2> HIDE DEF D, E
  <2> QED BY <2>1, <2>2, SMT
<1>9. NextInv' /\ StatusInv'
  <2>1. Acked \in 1 .. N /\ Filled \in 1 .. N
    BY <1>6, SMT
  <2>2. E(next) = Acked - 1
    BY <1>2, <1>3, <1>8, <2>1 DEF NextInv
  <2>3. FromStatus(status) \in Slots
    BY <1>3, SlotTypes
  <2>4. E(FromStatus(status)) = Filled - 1
    BY <1>2, <1>8, <2>1, <2>3 DEF StatusInv
  <2>5. Acked - 1 # N /\ Filled - 1 # N
    BY <2>1, SMT
  <2>6. NextInv' <=> E(next) = Acked - 1
    BY <1>4, <1>6, <2>5 DEF NextInv, At, Dist
  <2>7. StatusInv' <=> /\ E(FromStatus(status)) = Filled - 1
                       /\ produced > 0 => status > 0
    BY <1>4, <1>6, <2>5 DEF StatusInv, At, Dist, FromStatus
  <2> QED BY <1>2, <2>2, <2>4, <2>6, <2>7 DEF StatusInv
<1>10. QueuedInv' /\ PendingInv' /\ CompletedInv' /\ FullInv'
  <2>1. \A s \in queued : Filled <= D(s)
    BY <1>2 DEF QueuedInv
  <2>2. \A s \in Slots : s \in pending <=>
          s \in queued \/ (Acked <= D(s) /\ D(s) < Filled)
    BY <1>2, <1>4 DEF PendingInv
  <2>3. \A s \in Slots : s \in completed <=> D(s) < Acked
    BY <1>2 DEF CompletedInv
  <2>4. ~skipped => \A s \in Slots : s \in queued \/ D(s) < Filled
    BY <1>2, <1>4 DEF FullInv
  <2>5. QueuedInv' <=> \A s \in queued : Filled - 1 <= E(s)
    BY <1>4, <1>6 DEF QueuedInv, Dist
  <2>6. PendingInv' <=> \A s \in Slots : s \in pending <=>
          s \in queued \/ (Acked - 1 <= E(s) /\ E(s) < Filled - 1)
    BY <1>4, <1>6 DEF PendingInv, Dist
  <2>7. CompletedInv' <=> \A s \in Slots : s \in completed' <=> E(s) < Acked - 1
    BY <1>4, <1>6 DEF CompletedInv, Dist
  <2>8. FullInv' <=> (~skipped => \A s \in Slots :
                        s \in queued \/ E(s) < Filled - 1 \/ s = consume)
    BY <1>4, <1>6 DEF FullInv, Dist
  <2>9. \A s \in Slots : /\ D(s) \in 0 .. N - 1
                         /\ D(s) = 0 <=> s = consume
                         /\ E(s) = IF s = consume THEN N - 1 ELSE D(s) - 1
    BY <1>5
  <2> HIDE DEF D, E
  <2>10. QueuedInv'
    BY <1>3, <1>6, <2>1, <2>5, <2>9, SMT
  <2>11. PendingInv'
    BY <1>3, <1>6, <2>1, <2>2, <2>6, <2>9, SMT
  <2>12. CompletedInv'
    BY <1>3, <1>4, <1>6, <2>3, <2>7, <2>9, SMT
  <2>13. FullInv'
    BY <1>3, <1>6, <2>4, <2>8, <2>9, SMT
  <2> QED BY <2>10, <2>11, <2>12, <2>13
<1>11. MemInv' /\ CopyInv'
  <2>1. \A s \in Slots : D(s) < Filled => mem[s] = taken + D(s)
    BY <1>2 DEF MemInv
  <2>2. MemInv' <=> \A s \in Slots : E(s) < Filled - 1 => mem[s] = taken + 1 + E(s)
    BY <1>4, <1>6 DEF MemInv, Dist
  <2>3. \A s \in queued : Filled <= D(s)
    BY <1>2 DEF QueuedInv
  <2>4. \A s \in Slots : /\ D(s) \in 0 .. N - 1
                         /\ D(s) = 0 <=> s = consume
                         /\ E(s) = IF s = consume THEN N - 1 ELSE D(s) - 1
    BY <1>5
  <2> HIDE DEF D, E
  <2>5. MemInv'
    BY <1>3, <1>6, <2>1, <2>2, <2>4, SMT
  <2>6. consume \notin queued /\ mem[consume] = taken
    BY <1>3, <1>6, <2>1, <2>3, <2>4, SMT
  <2>7. CopyInv'
    BY <1>3, <1>4, <1>6, <2>6, SMT DEF CopyInv, Following
  <2> QED BY <2>5, <2>7
<1>12. HandlerInv' /\ SwallowInv'
  <2>1. SwallowInv'
    BY <1>2, <1>4 DEF SwallowInv
  <2>2. ASSUME ipc # "idle", acked < iproduced
        PROVE  Dist(consume, istatus - 1)' = (iproduced - 1) - taken'
    <3>1. istatus - 1 \in Slots
      BY <1>2, <1>3, <2>2, StatusFollowing, SMT DEF HandlerInv, ReportInv
    <3>2. D(istatus - 1) = (iproduced - 1) - taken
      BY <1>2, <2>2 DEF HandlerInv, ReportInv
    <3>3. /\ D(istatus - 1) = 0 <=> istatus - 1 = consume
          /\ E(istatus - 1) = IF istatus - 1 = consume THEN N - 1
                              ELSE D(istatus - 1) - 1
          /\ Dist(consume, istatus - 1)' = E(istatus - 1)
      BY <1>4, <1>5, <3>1 DEF Dist
    <3> HIDE DEF D, E
    <3> QED BY <1>3, <1>4, <1>6, <2>2, <3>2, <3>3, SMT DEF Acked
  <2> QED BY <1>2, <1>4, <2>1, <2>2 DEF HandlerInv, ReportInv, FromStatus
<1> QED BY <1>7, <1>9, <1>10, <1>11, <1>12 DEF RunningInv

(* cap_ring_refill() takes the lock: the copied slot is pending again.      *)
LEMMA RefillReadStep ==
  ASSUME TypeOK, ShapeInv, RunningInv, RefillRead
  PROVE  RunningInv'
<1> SUFFICES ASSUME InStep, InStep' PROVE RunningInv'
  BY DEF RunningInv, InStep, RefillRead, count
<1>1. Running
  BY DEF RefillRead, ShapeInv, ControlInv
<1>2. /\ CountInv /\ NextInv /\ StatusInv /\ QueuedInv /\ PendingInv
      /\ CompletedInv /\ MemInv /\ CopyInv /\ HandlerInv /\ SwallowInv /\ FullInv
  BY <1>1 DEF RunningInv
<1>3. /\ wpc = "copy" /\ wpc' = "refill" /\ control' = queued
      /\ completed' = completed \ {bank} /\ pending' = pending \cup {bank}
      /\ UNCHANGED <<queued, status, irq, mem, produced, next, ringActive,
                     masked, ringStarted, stopping, consume, bank, skipped,
                     taken, ipc, istatus, iproduced, acked>>
  BY DEF RefillRead, hwVars, irqVars, count
<1>4. CountInv' /\ NextInv' /\ StatusInv' /\ QueuedInv' /\ MemInv'
  BY <1>2, <1>3 DEF CountInv, NextInv, StatusInv, QueuedInv, MemInv, Filled,
                    Acked, At, Dist, FromStatus
<1>5. HandlerInv' /\ SwallowInv' /\ CopyInv' /\ FullInv'
  BY <1>2, <1>3 DEF HandlerInv, ReportInv, SwallowInv, CopyInv, FullInv, Filled,
                    Dist, Following, FromStatus
<1>6. PendingInv'
  BY <1>2, <1>3 DEF PendingInv, Filled, Acked, Dist
<1>7. CompletedInv'
  <2>1. bank \in Slots /\ Dist(consume, bank) = N - 1
    BY <1>2, <1>3, DistEnds DEF CopyInv, TypeOK, DataOK
  <2>2. ~(N - 1 < Acked)
    BY <1>2, <1>3, SMT DEF CopyInv, CountInv, Filled, Acked, TypeOK, DataOK
  <2>3. ~stopping => bank \notin completed
    BY <1>2, <2>1, <2>2 DEF CompletedInv
  <2> QED BY <1>2, <1>3, <2>3 DEF CompletedInv, Acked, Dist
<1> QED BY <1>4, <1>5, <1>6, <1>7 DEF RunningInv

(* ... and writes 0x304 back: the slot is queued behind the line.           *)
LEMMA RefillWriteStep ==
  ASSUME TypeOK, ShapeInv, RunningInv, RefillWrite
  PROVE  RunningInv'
<1> SUFFICES ASSUME InStep, InStep' PROVE RunningInv'
  BY DEF RunningInv, InStep, RefillWrite, count
<1>1. Running
  BY DEF RefillWrite, ShapeInv, ControlInv
<1>2. /\ CountInv /\ NextInv /\ StatusInv /\ QueuedInv /\ PendingInv
      /\ CompletedInv /\ MemInv /\ CopyInv /\ HandlerInv /\ SwallowInv /\ FullInv
  BY <1>1 DEF RunningInv
<1>3. /\ wpc = "refill" /\ wpc' \notin {"copy", "refill"}
      /\ queued' = queued \cup {bank}
      /\ UNCHANGED <<status, irq, mem, produced, pending, next, completed,
                     ringActive, masked, ringStarted, stopping, consume, bank,
                     skipped, taken, ipc, istatus, iproduced, acked>>
  BY <1>2 DEF RefillWrite, CopyInv, irqVars, count
<1>4. CountInv' /\ NextInv' /\ StatusInv' /\ MemInv' /\ CompletedInv'
  BY <1>2, <1>3 DEF CountInv, NextInv, StatusInv, MemInv, CompletedInv, Filled,
                    Acked, At, Dist, FromStatus
<1>5. HandlerInv' /\ SwallowInv' /\ CopyInv'
  BY <1>2, <1>3 DEF HandlerInv, ReportInv, SwallowInv, CopyInv, Dist, FromStatus
<1>6. PendingInv' /\ FullInv'
  BY <1>2, <1>3 DEF PendingInv, FullInv, Filled, Acked, Dist
<1>7. QueuedInv'
  <2>1. bank \in Slots /\ Dist(consume, bank) = N - 1
    BY <1>2, <1>3, DistEnds DEF CopyInv, TypeOK, DataOK
  <2>2. Filled <= N - 1
    BY <1>2, <1>3, SMT DEF CopyInv, Filled, TypeOK, DataOK
  <2>3. \A s \in queued' : Filled <= Dist(consume, s)
    BY <1>2, <1>3, <2>1, <2>2 DEF QueuedInv
  <2> QED BY <1>3, <2>3 DEF QueuedInv, Filled, Dist
<1> QED BY <1>4, <1>5, <1>6, <1>7 DEF RunningInv

-----------------------------------------------------------------------------
(* The invariant is inductive.                                              *)
LEMMA RingInvStep ==
  ASSUME RingInv, [Next]_vars
  PROVE  RingInv'
<1>1. TypeOK /\ ShapeInv /\ RunningInv
  BY DEF RingInv, ShapeInv
<1>2. TypeOK' /\ ShapeInv'
  BY <1>1, TypeStep, ShapeStep
<1>3. RunningInv'
  <2> USE <1>1
  <2>1. CASE HwComplete
    BY <2>1, HwCompleteStep
  <2>2. CASE InputChange \/ StopMask \/ RecoverStopped \/ StreamOff
    BY <2>2, FrameStep DEF InputChange, StopMask, RecoverStopped, StreamOff,
                           hwVars, workerVars, irqVars, count, TypeOK,
                           FlagsOK
  <2>3. CASE Transfer \/ WaitTimeout
    BY <2>3, FrameStep DEF Transfer, WaitTimeout, Failed, hwVars, irqVars,
                           count, TypeOK, FlagsOK
  <2>4. CASE RefillSkip
    BY <2>4, FrameStep DEF RefillSkip, hwVars, irqVars, count, TypeOK, FlagsOK
  <2>5. CASE IrqRead \/ IrqAck \/ IrqComplete
    BY <2>5, IrqReadStep, IrqAckStep, IrqCompleteStep
  <2>6. CASE RingStart
    BY <2>6, RingStartStep
  <2>7. CASE WaitDone
    <3>1. CASE ~stopping
      BY <2>7, <3>1, WaitDoneStep
    <3>2. CASE stopping
      BY <2>7, <3>2, FrameStep DEF WaitDone, hwVars, irqVars, count
    <3> QED BY <3>1, <3>2
  <2>8. CASE RefillRead \/ RefillWrite
    BY <2>8, RefillReadStep, RefillWriteStep
  <2>9. CASE Stop \/ Recover \/ RecoverFails \/ StreamOn \/ StreamOnFails
    <3>1. ~Running'
      BY <2>9 DEF Stop, Recover, RecoverFails, StreamOn, StreamOnFails, Enable,
                  NewSession, Running, ShapeInv, ControlInv
    <3> QED BY <3>1 DEF RunningInv
  <2>10. CASE UNCHANGED vars
    BY <2>10, FrameStep DEF vars, hwVars, workerVars, irqVars, count, TypeOK,
                           FlagsOK
  <2>11. CASE HwLateIrq
    BY <2>11, HwLateIrqStep
  <2> QED BY <2>1, <2>2, <2>3, <2>4, <2>5, <2>6, <2>7, <2>8, <2>9, <2>10,
             <2>11 DEF Next, Irq, Worker
<1> QED BY <1>2, <1>3 DEF RingInv, ShapeInv

(* What the invariant says about the frames: a bank is never copied while   *)
(* the FPGA may write it, frames reach the worker in order and complete, no *)
(* completed bank is queued, and no frame in memory is forgotten.           *)
LEMMA RingInvImplies ==
  ASSUME RingInv
  PROVE  /\ BankExclusive /\ FramesInOrder /\ CompletedIsWritten
         /\ RequeueAfterCopy /\ NoStrandedFrame
<1>1. /\ TypeOK /\ ControlInv /\ IdleInv /\ FreshInv /\ RunningInv
  BY DEF RingInv
<1>2. (Running /\ InStep) => /\ CountInv /\ QueuedInv /\ CompletedInv /\ CopyInv
                             /\ SwallowInv /\ FullInv
  BY <1>1 DEF RunningInv
<1>3. BankExclusive /\ FramesInOrder
  BY <1>1, <1>2 DEF BankExclusive, FramesInOrder, ControlInv, CopyInv
<1>4. CompletedIsWritten
  BY <1>1, <1>2, SMT DEF CompletedIsWritten, Running, CountInv, IdleInv, FreshInv,
                         TypeOK, DataOK
<1>5. RequeueAfterCopy
  <2>1. ASSUME Running, InStep, ~stopping, NEW s \in completed PROVE s \notin queued
    <3>1. s \in Slots /\ Dist(consume, s) \in Nat /\ Dist(consume, s) < Acked
      BY <1>1, <1>2, <2>1, SlotTypes DEF CompletedInv, TypeOK, DataOK
    <3>2. Acked <= Filled /\ Acked \in Int /\ Filled \in Int
      BY <1>1, <1>2, <2>1, SMT DEF CountInv, Acked, Filled, TypeOK, DataOK
    <3>3. s \in queued => Filled <= Dist(consume, s)
      BY <1>2, <2>1 DEF QueuedInv
    <3> HIDE DEF Acked, Filled
    <3> QED BY <3>1, <3>2, <3>3, SMT
  <2>2. CASE Running
    BY <2>1, <2>2 DEF RequeueAfterCopy
  <2>3. CASE ~Running
    BY <1>1, <2>3 DEF RequeueAfterCopy, Running, FreshInv
  <2> QED BY <2>2, <2>3
<1>6. NoStrandedFrame
  <2>1. SUFFICES ASSUME InStep, wpc = "wait", ~stopping, ~skipped, taken < produced,
                        consume \notin completed, ~irq, ipc = "idle"
                 PROVE  queued # {}
    BY <1>1 DEF NoStrandedFrame, TypeOK, FlagsOK
  <2>2. Running
    BY <1>1, <2>1 DEF ControlInv
  <2>3. consume \in Slots /\ Dist(consume, consume) = 0
    BY <1>1, DistEnds DEF TypeOK, DataOK
  <2>4. ~(0 < Acked)
    BY <1>2, <2>1, <2>2, <2>3 DEF CompletedInv
  <2>5. Filled < N
    BY <1>1, <1>2, <2>1, <2>2, <2>4, SMT
       DEF SwallowInv, CountInv, Acked, Filled, TypeOK, DataOK
  <2>6. \E s \in Slots : Dist(consume, s) = N - 1
    <3>1. PICK s \in Slots : Following(s) = consume
      <4>1. CASE consume = 0
        BY <4>1, SMT DEF Following, Slots
      <4>2. CASE consume # 0
        BY <2>3, <4>2, SMT DEF Following, Slots
      <4> QED BY <4>1, <4>2
    <3> QED BY <2>3, <3>1, DistEnds
  <2>7. PICK s \in Slots : Dist(consume, s) = N - 1
    BY <2>6
  <2>8. ~(Dist(consume, s) < Filled)
    BY <1>1, <2>5, <2>7, SMT DEF Filled, TypeOK, DataOK
  <2> QED BY <1>2, <2>1, <2>2, <2>8 DEF FullInv
<1> QED BY <1>3, <1>4, <1>5, <1>6

(* The ring keeps the invariant: for every number of slots and every        *)
(* interleaving of FPGA, handler, worker, STREAMOFF and input losses,       *)
(* repeated interrupts and completions inside the rewrite of 0x304          *)
(* included.                                                                *)
THEOREM RingInvariant == Spec => []RingInv
<1>1. Init => RingInv
  BY TypeInit DEF Init, RingInv, ControlInv, IdleInv, FreshInv, RunningInv, Running,
                  InStep
<1>2. RingInv /\ [Next]_vars => RingInv'
  BY RingInvStep
<1> QED BY <1>1, <1>2, PTL DEF Spec

(* Safety of the capture ring, as long as a session keeps count: the slot   *)
(* that cap_copy() reads is the worker's alone, frames come in their order, *)
(* and a slot goes back to the device only after it was copied.             *)
THEOREM RingSafety ==
  Spec => [](BankExclusive /\ FramesInOrder /\ RequeueAfterCopy)
<1>1. RingInv => BankExclusive /\ FramesInOrder /\ RequeueAfterCopy
  BY RingInvImplies
<1> QED BY <1>1, RingInvariant, PTL

(* cap_interrupt() never signals a slot whose frame the FPGA has not        *)
(* finished, whatever interrupts are repeated, except by the two ways to    *)
(* lose count that slip names: a repeated report can do it only when every  *)
(* slot is queued.                                                          *)
THEOREM CompletionsAreWritten == Spec => []CompletedIsWritten
<1>1. RingInv => CompletedIsWritten
  BY RingInvImplies
<1> QED BY <1>1, RingInvariant, PTL

(* A frame the worker waits for, already in memory, still has an interrupt  *)
(* due or another slot queued that will report it, whatever interrupts an   *)
(* acknowledge swallowed, as long as the session keeps count.               *)
THEOREM FramesAreSignalled == Spec => []NoStrandedFrame
<1>1. RingInv => NoStrandedFrame
  BY RingInvImplies
<1> QED BY <1>1, RingInvariant, PTL

-----------------------------------------------------------------------------
(* Steps that no FIFO user could see.                                       *)
LEMMA FifoStutter ==
  ASSUME UNCHANGED <<produced, acked, taken, mem, bank, slip>>,
         wpc \in {"copy", "refill"} <=> wpc' \in {"copy", "refill"}
  PROVE  UNCHANGED Fifo!vars
  BY DEF Fifo!vars, Reading, InStep

(* Every step of the ring is a step of the FIFO or invisible to its user.   *)
LEMMA FifoStep ==
  ASSUME RingInv, RingInv', [Next]_vars
  PROVE  [Fifo!Next]_(Fifo!vars)
<1>1. /\ TypeOK /\ ControlInv /\ IdleInv /\ FreshInv /\ RunningInv /\ RunningInv'
      /\ ControlInv' /\ FreshInv'
  BY DEF RingInv
<1>0. ASSUME InStep, ~InStep' PROVE Fifo!Break
  BY <1>0 DEF Fifo!Break, Fifo!Empty, Reading
<1>2. HwComplete => Fifo!Write \/ Fifo!Break
  <2> SUFFICES ASSUME HwComplete, InStep, InStep' PROVE Fifo!Write
    BY <1>0 DEF HwComplete
  <2>1. Running /\ Running' /\ wpc # "refill"
    BY <1>1 DEF HwComplete, IdleInv, FreshInv, ControlInv, Running, InStep,
                workerVars, TypeOK, FlagsOK
  <2>2. /\ CountInv' /\ CopyInv /\ CopyInv'
    BY <1>1, <2>1 DEF RunningInv
  <2>3. /\ produced' = produced + 1 /\ UNCHANGED <<acked, taken, wpc, bank>>
    BY DEF HwComplete, workerVars
  <2>4. Reading' = Reading
    BY <2>2, <2>3 DEF Reading, CopyInv
  <2>5. CASE wpc = "copy"
    <3>1. produced + 1 < taken + N
      BY <1>1, <2>2, <2>3, <2>5, SMT DEF CopyInv, Filled, TypeOK, DataOK
    <3>2. Reading # {}
      BY <2>5 DEF Reading
    <3> QED BY <2>3, <2>4, <3>1, <3>2 DEF Fifo!Write
  <2>6. CASE wpc # "copy"
    <3>1. produced < taken + N
      BY <1>1, <2>2, <2>3, SMT DEF CountInv, TypeOK, DataOK
    <3>2. Reading = {}
      BY <2>1, <2>6 DEF Reading
    <3> QED BY <2>3, <2>4, <3>1, <3>2 DEF Fifo!Write
  <2> QED BY <2>5, <2>6
<1>3. IrqComplete => Fifo!Publish \/ Fifo!Break \/ UNCHANGED Fifo!vars
  <2>0. ASSUME IrqComplete, ~InStep PROVE ~InStep'
    BY <2>0 DEF IrqComplete, InStep, count
  <2>10. ASSUME ~InStep, ~InStep' PROVE UNCHANGED Fifo!vars
    BY <2>10 DEF Fifo!vars, Reading
  <2> SUFFICES ASSUME IrqComplete, InStep, InStep'
               PROVE  Fifo!Publish \/ UNCHANGED Fifo!vars
    BY <1>0, <2>0, <2>10
  <2>1. UNCHANGED <<produced, taken, mem, bank, wpc, ringActive, ringStarted>>
    BY DEF IrqComplete, hwVars, workerVars
  <2>2. CASE acked' = acked
    BY <2>1, <2>2, FifoStutter DEF InStep
  <2>3. CASE acked' # acked
    <3>1. /\ ringActive /\ RingComplete(pending, next, istatus) # {}
          /\ acked' = acked + Dist(next, istatus - 1) + 1
      BY <2>3 DEF IrqComplete, count
    <3>2. ringStarted
      BY <1>1, <3>1 DEF FreshInv, RingComplete, Through, IrqComplete, TypeOK, FlagsOK
    <3>3. acked' <= produced
      BY <1>1, <2>1, <3>1, <3>2 DEF RunningInv, Running, CountInv
    <3>4. istatus - 1 \in Slots
      BY <1>1, <3>1, SMT DEF RingComplete, TypeOK, DataOK, Slots
    <3>5. Dist(next, istatus - 1) \in Nat
      BY <1>1, <3>4, SlotTypes DEF TypeOK, DataOK
    <3>6. acked < acked' /\ acked' \in 0 .. produced
      BY <1>1, <3>1, <3>3, <3>5, SMT DEF TypeOK, DataOK
    <3> QED BY <2>1, <3>6 DEF Fifo!Publish, Reading
  <2> QED BY <2>2, <2>3
<1>4. WaitDone => Fifo!Take \/ UNCHANGED Fifo!vars
  <2>0. ASSUME ~InStep, WaitDone PROVE UNCHANGED Fifo!vars
    BY <2>0 DEF WaitDone, InStep, Fifo!vars, Reading, count
  <2> SUFFICES ASSUME InStep, InStep', WaitDone
               PROVE  Fifo!Take \/ UNCHANGED Fifo!vars
    BY <2>0 DEF WaitDone, InStep, count
  <2>1. CASE stopping
    BY <2>1, FifoStutter DEF WaitDone, hwVars, count
  <2>2. CASE ~stopping
    <3>1. /\ wpc = "wait" /\ wpc' = "copy" /\ taken' = taken + 1
          /\ consume \in completed
          /\ UNCHANGED <<produced, acked, mem, ringActive, ringStarted>>
      BY <2>2 DEF WaitDone, hwVars, count
    <3>2. Running /\ Running'
      BY <1>1, <3>1 DEF ControlInv, Running
    <3>3. mem'[bank'] = taken
      BY <1>1, <3>1, <3>2, SMT DEF RunningInv, CopyInv, TypeOK, DataOK
    <3>4. consume \in Slots /\ Dist(consume, consume) = 0
      BY <1>1, DistEnds DEF TypeOK, DataOK
    <3>5. taken < acked
      BY <1>1, <2>2, <3>1, <3>2, <3>4, SMT
         DEF RunningInv, CompletedInv, Acked, TypeOK, DataOK
    <3> QED BY <3>1, <3>3, <3>5 DEF Fifo!Take, Reading
  <2> QED BY <2>1, <2>2
<1>5. RefillSkip \/ RefillWrite => Fifo!Release \/ UNCHANGED Fifo!vars
  <2>1. ASSUME InStep, RefillSkip \/ RefillWrite PROVE Fifo!Release
    BY <2>1 DEF RefillSkip, RefillWrite, Fifo!Release, Reading, InStep, hwVars, count
  <2>2. ASSUME ~InStep, RefillSkip \/ RefillWrite PROVE UNCHANGED Fifo!vars
    BY <2>2 DEF RefillSkip, RefillWrite, Fifo!vars, Reading, InStep, count
  <2> QED BY <2>1, <2>2
<1>6. Stop => Fifo!Restart
  BY DEF Stop, Fifo!Restart, Fifo!Empty, Reading, InStep
<1>7. InputChange \/ HwLateIrq \/ IrqRead \/ IrqAck \/ RefillRead \/ UNCHANGED vars
        => UNCHANGED Fifo!vars
  BY FifoStutter DEF InputChange, HwLateIrq, IrqRead, IrqAck, RefillRead, vars,
                     hwVars, workerVars, count
<1>8. Transfer \/ WaitTimeout \/ RingStart \/ StopMask => UNCHANGED Fifo!vars
  BY FifoStutter DEF Transfer, WaitTimeout, Failed, RingStart, StopMask, hwVars,
                     workerVars, count
<1>9. Recover \/ RecoverFails \/ RecoverStopped \/ StreamOn \/ StreamOnFails
        \/ StreamOff => UNCHANGED Fifo!vars
  BY FifoStutter DEF Recover, RecoverFails, RecoverStopped, StreamOn, StreamOnFails,
                     StreamOff, Enable, hwVars, workerVars, count
<1> QED BY <1>2, <1>3, <1>4, <1>5, <1>6, <1>7, <1>8, <1>9
           DEF Next, Irq, Worker, Fifo!Next

(* The continuous capture path implements the FIFO of frames, whatever the  *)
(* FPGA does: a session that loses count is a broken one.                   *)
THEOREM RingImplementsFifo == Spec => ImplementsFifo
<1>1. Init => RingInv /\ Fifo!Init
  BY TypeInit DEF Init, RingInv, ControlInv, IdleInv, FreshInv, RunningInv, Running,
                  InStep, Fifo!Init, Fifo!Empty, Reading
<1>2. RingInv /\ [Next]_vars => RingInv'
  BY RingInvStep
<1>3. RingInv /\ RingInv' /\ [Next]_vars => [Fifo!Next]_(Fifo!vars)
  BY FifoStep
<1> QED BY <1>1, <1>2, <1>3, PTL DEF Spec, ImplementsFifo, Fifo!Spec
=============================================================================
