----------------------------- MODULE BlockBusProofs -----------------------------
(***************************************************************************)
(* Proofs about BlockBus: what an accepted byte is, how a transaction      *)
(* leaves the controller, and where the programs leave the register bank.  *)
(***************************************************************************)
EXTENDS BlockBus, TLAPS

(* A step whose transaction may find a request of an earlier, failed one    *)
(* still with the controller.                                               *)
Fresh == prog = "none" \/ (sub = 1 /\ Step.do # "data")

(* Where the caller is.                                                     *)
CallerInv ==
  /\ prog = "none" => pc = "idle"
  /\ sub > 1 => prog # "none" /\ Step.do = "switch"
  /\ prog = "status" => at <= 2

(* What the controller can be working on: nothing between command 0x10 and  *)
(* START, only the driver's request after it, and what is left of a request *)
(* that was given up until the next command 0x10.                           *)
OpInv ==
  /\ pc \in {"sample", "start"} => op.kind = "none"
  /\ pc \in {"wait", "irq", "ack", "cleanup"} =>
       op.kind = "none" \/ (op.kind = Kind /\ op.mine)
  /\ pc \in {"idle", "prepare"} /\ ~Fresh => op.kind = "none"
  /\ pc = "return" /\ ~Fresh => op.kind \in {"none", Kind}

(* A completion the driver would believe is that of its request, and what   *)
(* the RX FIFO holds was read in the bank the chip is in.                   *)
FetchInv ==
  /\ pc = "start" /\ armed => status # Kind
  /\ (pc = "wait" /\ armed /\ status = Kind) \/ (pc = "irq" /\ result = "ok") =>
       /\ op.kind = "none" /\ status \in {Kind, "absent"}
       /\ Kind = "read" => rx.mine /\ rx.bank = bank

(* What a successful transaction has left when it returns.                  *)
DoneInv ==
  /\ pc \in {"ack", "cleanup", "return"} /\ result = "ok" =>
       /\ op.kind = "none" /\ status \in {Kind, "absent"}
       /\ Kind = "read" => got.mine /\ got.bank = bank
       /\ IF pc = "ack" THEN irq => sampled ELSE ~irq
  /\ pc \in {"idle", "return"} /\ status # "absent" => divider = "saved"

(* Data steps run in their bank.  Without an audio program under way, the   *)
(* bank is zero and stays zero, unless the last switch failed.              *)
BankInv ==
  /\ prog # "none" /\ Step.do = "data" => bank = Step.bank
  /\ prog # "audio" /\ (bank # 0 \/ op.kind = "write") => switchFailed

BlockInv == TypeOK /\ CallerInv /\ OpInv /\ FetchInv /\ DoneInv /\ BankInv

(* The number of steps of the program under way.                            *)
Length == Len(Program)

(* The steps of the two programs.                                           *)
LEMMA Steps ==
  ASSUME at \in 1 .. 7, prog = "audio" \/ at <= 2
  PROVE  /\ prog = "audio" =>
              /\ Length = 7
              /\ at \in {1, 3, 5, 7} => Step.do = "switch"
              /\ at \in {2, 4, 6} => Step.do = "data"
              /\ at \in {1, 2, 7} => Step.bank = 0
              /\ at \in {3, 4} => Step.bank = 2
              /\ at \in {5, 6} => Step.bank = 1
         /\ prog # "audio" =>
              /\ Length = 2
              /\ at = 1 => Step.do = "check"
              /\ at = 2 => Step.do = "data"
              /\ Step.bank = 0
  BY DEF Length, Step, Program, AudioSignalRead, ReceiverStatus, Switch, Data

(* The step that a program under way is at.                                 *)
LEMMA Place ==
  ASSUME TypeOK, CallerInv, prog # "none"
  PROVE  /\ at \in Nat /\ Length \in Nat /\ at <= Length
         /\ IF prog = "audio" THEN at \in 1 .. 7 /\ Length = 7
                              ELSE at \in 1 .. 2 /\ Length = 2
<1>1. at \in 1 .. 7 /\ (prog = "audio" \/ at <= 2)
  BY DEF TypeOK, CallerInv
<1>2. IF prog = "audio" THEN Length = 7 ELSE Length = 2
  BY <1>1, Steps
<1> QED BY <1>1, <1>2

(* A transaction reads or writes; only a switch of the bank writes.         *)
LEMMA Kinds ==
  /\ Kind \in {"read", "write"}
  /\ Kind = "write" <=> Step.do = "switch" /\ sub = 2
  BY DEF Kind

(* While the caller waits for a transaction, its step stays.                *)
LEMMA CallerWaits ==
  ASSUME UNCHANGED caller
  PROVE  Step' = Step /\ Kind' = Kind /\ Fresh' = Fresh /\ UNCHANGED <<prog, at, sub, switchFailed>>
  BY DEF caller, Step, Program, Kind, Fresh

(* Initially nothing is under way and the chip is in bank zero.             *)
LEMMA InitEstablishes == Init => BlockInv
<1> SUFFICES ASSUME Init PROVE BlockInv
  OBVIOUS
<1> USE DEF Init, Idle
<1>1. TypeOK
  <2>1. irq \in BOOLEAN /\ armed \in BOOLEAN /\ sampled \in BOOLEAN /\ switchFailed \in BOOLEAN
    BY Zenon
  <2> QED BY <2>1 DEF TypeOK, Banks
<1>2. CallerInv /\ OpInv /\ FetchInv /\ DoneInv /\ BankInv
  BY DEF CallerInv, OpInv, FetchInv, DoneInv, BankInv, Fresh
<1> QED BY <1>1, <1>2 DEF BlockInv

(* HwDone keeps the invariant.                                              *)
LEMMA HwDoneKeeps == BlockInv /\ HwDone => BlockInv'
<1> SUFFICES ASSUME BlockInv, HwDone PROVE BlockInv'
  OBVIOUS
<1> USE DEF BlockInv
<1>0. UNCHANGED caller
  BY DEF HwDone
<1>c. Step' = Step /\ Kind' = Kind /\ Fresh' = Fresh /\ UNCHANGED <<prog, at, sub, switchFailed>>
  BY <1>0, CallerWaits
<1>1. TypeOK'
  BY <1>c, Kinds, Steps DEF HwDone, Idle, chip, txn, TypeOK, CallerInv, Banks
<1>2. CallerInv'
  BY <1>c DEF HwDone, Idle, chip, txn, CallerInv
<1>3. OpInv'
  BY <1>c, Kinds DEF HwDone, Idle, chip, txn, TypeOK, OpInv
<1>4. FetchInv'
  BY <1>c, Kinds DEF HwDone, Idle, chip, txn, TypeOK, OpInv, FetchInv
<1>5. DoneInv'
  BY <1>c, Kinds DEF HwDone, Idle, chip, txn, TypeOK, OpInv, FetchInv, DoneInv
<1>6. BankInv'
  BY <1>c, Kinds, Steps DEF HwDone, Idle, chip, txn, TypeOK, OpInv, CallerInv, BankInv, Fresh
<1> QED BY <1>1, <1>2, <1>3, <1>4, <1>5, <1>6

(* HwBusy keeps the invariant.                                              *)
LEMMA HwBusyKeeps == BlockInv /\ HwBusy => BlockInv'
<1> SUFFICES ASSUME BlockInv, HwBusy PROVE BlockInv'
  OBVIOUS
<1> USE DEF BlockInv
<1>0. UNCHANGED caller
  BY DEF HwBusy
<1>c. Step' = Step /\ Kind' = Kind /\ Fresh' = Fresh /\ UNCHANGED <<prog, at, sub, switchFailed>>
  BY <1>0, CallerWaits
<1>1. TypeOK'
  BY <1>c, Kinds, Steps DEF HwBusy, chip, txn, TypeOK, CallerInv, Banks
<1>2. CallerInv'
  BY <1>c DEF HwBusy, chip, txn, CallerInv
<1>3. OpInv'
  BY <1>c, Kinds DEF HwBusy, chip, txn, TypeOK, OpInv
<1>4. FetchInv'
  BY <1>c, Kinds DEF HwBusy, chip, txn, TypeOK, OpInv, FetchInv
<1>5. DoneInv'
  BY <1>c, Kinds DEF HwBusy, chip, txn, TypeOK, OpInv, FetchInv, DoneInv
<1>6. BankInv'
  BY <1>c, Kinds, Steps DEF HwBusy, chip, txn, TypeOK, OpInv, CallerInv, BankInv
<1> QED BY <1>1, <1>2, <1>3, <1>4, <1>5, <1>6

(* HwError keeps the invariant.                                             *)
LEMMA HwErrorKeeps == BlockInv /\ HwError => BlockInv'
<1> SUFFICES ASSUME BlockInv, HwError PROVE BlockInv'
  OBVIOUS
<1> USE DEF BlockInv
<1>0. UNCHANGED caller
  BY DEF HwError
<1>c. Step' = Step /\ Kind' = Kind /\ Fresh' = Fresh /\ UNCHANGED <<prog, at, sub, switchFailed>>
  BY <1>0, CallerWaits
<1>1. TypeOK'
  BY <1>c, Kinds, Steps DEF HwError, Idle, chip, txn, TypeOK, CallerInv, Banks
<1>2. CallerInv'
  BY <1>c DEF HwError, Idle, chip, txn, CallerInv
<1>3. OpInv'
  BY <1>c, Kinds DEF HwError, Idle, chip, txn, TypeOK, OpInv
<1>4. FetchInv'
  BY <1>c, Kinds DEF HwError, Idle, chip, txn, TypeOK, OpInv, FetchInv
<1>5. DoneInv'
  BY <1>c, Kinds DEF HwError, Idle, chip, txn, TypeOK, OpInv, FetchInv, DoneInv
<1>6. BankInv'
  BY <1>c, Kinds, Steps DEF HwError, Idle, chip, txn, TypeOK, OpInv, CallerInv, BankInv, Fresh
<1> QED BY <1>1, <1>2, <1>3, <1>4, <1>5, <1>6

(* HwGone keeps the invariant.                                              *)
LEMMA HwGoneKeeps == BlockInv /\ HwGone => BlockInv'
<1> SUFFICES ASSUME BlockInv, HwGone PROVE BlockInv'
  OBVIOUS
<1> USE DEF BlockInv
<1>0. UNCHANGED caller
  BY DEF HwGone
<1>c. Step' = Step /\ Kind' = Kind /\ Fresh' = Fresh /\ UNCHANGED <<prog, at, sub, switchFailed>>
  BY <1>0, CallerWaits
<1>1. TypeOK'
  BY <1>c, Kinds, Steps DEF HwGone, chip, txn, TypeOK, CallerInv, Banks
<1>2. CallerInv'
  BY <1>c DEF HwGone, chip, txn, CallerInv
<1>3. OpInv'
  BY <1>c, Kinds DEF HwGone, chip, txn, TypeOK, OpInv
<1>4. FetchInv'
  BY <1>c, Kinds DEF HwGone, chip, txn, TypeOK, OpInv, FetchInv
<1>5. DoneInv'
  BY <1>c, Kinds DEF HwGone, chip, txn, TypeOK, OpInv, FetchInv, DoneInv
<1>6. BankInv'
  BY <1>c, Kinds, Steps DEF HwGone, chip, txn, TypeOK, OpInv, CallerInv, BankInv
<1> QED BY <1>1, <1>2, <1>3, <1>4, <1>5, <1>6

(* Gate keeps the invariant.                                                *)
LEMMA GateKeeps == BlockInv /\ Gate => BlockInv'
<1> SUFFICES ASSUME BlockInv, Gate PROVE BlockInv'
  OBVIOUS
<1> USE DEF BlockInv
<1>0. UNCHANGED caller
  BY DEF Gate
<1>c. Step' = Step /\ Kind' = Kind /\ Fresh' = Fresh /\ UNCHANGED <<prog, at, sub, switchFailed>>
  BY <1>0, CallerWaits
<1>1. TypeOK'
  BY <1>c, Kinds, Steps DEF Gate, chip, txn, TypeOK, CallerInv, Banks
<1>2. CallerInv'
  BY <1>c DEF Gate, chip, txn, CallerInv
<1>3. OpInv'
  BY <1>c, Kinds DEF Gate, chip, txn, TypeOK, OpInv
<1>4. FetchInv'
  BY <1>c, Kinds DEF Gate, chip, txn, TypeOK, OpInv, FetchInv
<1>5. DoneInv'
  BY <1>c, Kinds DEF Gate, chip, txn, TypeOK, OpInv, FetchInv, DoneInv
<1>6. BankInv'
  BY <1>c, Kinds, Steps DEF Gate, chip, txn, TypeOK, OpInv, CallerInv, BankInv
<1> QED BY <1>1, <1>2, <1>3, <1>4, <1>5, <1>6

(* Prepare keeps the invariant.                                             *)
LEMMA PrepareKeeps == BlockInv /\ Prepare => BlockInv'
<1> SUFFICES ASSUME BlockInv, Prepare PROVE BlockInv'
  OBVIOUS
<1> USE DEF BlockInv
<1>0. UNCHANGED caller
  BY DEF Prepare
<1>c. Step' = Step /\ Kind' = Kind /\ Fresh' = Fresh /\ UNCHANGED <<prog, at, sub, switchFailed>>
  BY <1>0, CallerWaits
<1>1. TypeOK'
  BY <1>c, Kinds, Steps DEF Prepare, Idle, chip, txn, TypeOK, CallerInv, Banks
<1>2. CallerInv'
  BY <1>c DEF Prepare, Idle, chip, txn, CallerInv
<1>3. OpInv'
  BY <1>c, Kinds DEF Prepare, Idle, chip, txn, TypeOK, OpInv
<1>4. FetchInv'
  BY <1>c, Kinds DEF Prepare, Idle, chip, txn, TypeOK, OpInv, FetchInv
<1>5. DoneInv'
  BY <1>c, Kinds DEF Prepare, Idle, chip, txn, TypeOK, OpInv, FetchInv, DoneInv
<1>6. BankInv'
  BY <1>c, Kinds, Steps DEF Prepare, Idle, chip, txn, TypeOK, OpInv, CallerInv, BankInv
<1> QED BY <1>1, <1>2, <1>3, <1>4, <1>5, <1>6

(* Sample keeps the invariant.                                              *)
LEMMA SampleKeeps == BlockInv /\ Sample => BlockInv'
<1> SUFFICES ASSUME BlockInv, Sample PROVE BlockInv'
  OBVIOUS
<1> USE DEF BlockInv
<1>0. UNCHANGED caller
  BY DEF Sample
<1>c. Step' = Step /\ Kind' = Kind /\ Fresh' = Fresh /\ UNCHANGED <<prog, at, sub, switchFailed>>
  BY <1>0, CallerWaits
<1>1. TypeOK'
  BY <1>c, Kinds, Steps DEF Sample, chip, txn, TypeOK, CallerInv, Banks
<1>2. CallerInv'
  BY <1>c DEF Sample, chip, txn, CallerInv
<1>3. OpInv'
  BY <1>c, Kinds DEF Sample, chip, txn, TypeOK, OpInv
<1>4. FetchInv'
  BY <1>c, Kinds DEF Sample, chip, txn, TypeOK, OpInv, FetchInv
<1>5. DoneInv'
  BY <1>c, Kinds DEF Sample, chip, txn, TypeOK, OpInv, FetchInv, DoneInv
<1>6. BankInv'
  BY <1>c, Kinds, Steps DEF Sample, chip, txn, TypeOK, OpInv, CallerInv, BankInv
<1> QED BY <1>1, <1>2, <1>3, <1>4, <1>5, <1>6

(* StartRead keeps the invariant.                                           *)
LEMMA StartReadKeeps == BlockInv /\ StartRead => BlockInv'
<1> SUFFICES ASSUME BlockInv, StartRead PROVE BlockInv'
  OBVIOUS
<1> USE DEF BlockInv
<1>0. UNCHANGED caller
  BY DEF StartRead
<1>c. Step' = Step /\ Kind' = Kind /\ Fresh' = Fresh /\ UNCHANGED <<prog, at, sub, switchFailed>>
  BY <1>0, CallerWaits
<1>1. TypeOK'
  <2>1. Step.bank \in Banks
    BY Steps DEF StartRead, TypeOK, CallerInv, Banks
  <2>2. op' \in {op, [kind |-> Kind, value |-> Step.bank, mine |-> TRUE]}
    BY Zenon DEF StartRead, Started
  <2>3. op' \in [kind : {"none", "read", "write"}, value : Banks, mine : BOOLEAN]
    <3>1. CASE op' = op
      BY <3>1 DEF TypeOK
    <3>2. CASE op' = [kind |-> Kind, value |-> Step.bank, mine |-> TRUE]
      BY <2>1, <3>2, Kinds
    <3> QED BY <2>2, <3>1, <3>2
  <2>4. armed' \in BOOLEAN
    BY Zenon DEF StartRead, TypeOK
  <2> QED BY <1>c, <2>3, <2>4 DEF StartRead, Started, TypeOK, txn
<1>2. CallerInv'
  BY <1>c DEF StartRead, Started, chip, txn, CallerInv
<1>3. OpInv'
  BY <1>c, Kinds DEF StartRead, Started, chip, txn, TypeOK, OpInv
<1>4. FetchInv'
  BY <1>c, Kinds DEF StartRead, Started, chip, txn, TypeOK, OpInv, FetchInv
<1>5. DoneInv'
  BY <1>c, Kinds DEF StartRead, Started, chip, txn, TypeOK, OpInv, FetchInv, DoneInv
<1>6. BankInv'
  BY <1>c, Kinds, Steps DEF StartRead, Started, chip, txn, TypeOK, OpInv, CallerInv, BankInv
<1> QED BY <1>1, <1>2, <1>3, <1>4, <1>5, <1>6

(* StartWrite keeps the invariant.                                          *)
LEMMA StartWriteKeeps == BlockInv /\ StartWrite => BlockInv'
<1> SUFFICES ASSUME BlockInv, StartWrite PROVE BlockInv'
  OBVIOUS
<1> USE DEF BlockInv
<1>0. UNCHANGED caller
  BY DEF StartWrite
<1>c. Step' = Step /\ Kind' = Kind /\ Fresh' = Fresh /\ UNCHANGED <<prog, at, sub, switchFailed>>
  BY <1>0, CallerWaits
<1>1. TypeOK'
  <2>1. Step.bank \in Banks
    BY Steps DEF StartWrite, TypeOK, CallerInv, Banks
  <2>2. op' \in {op, [kind |-> Kind, value |-> Step.bank, mine |-> TRUE]}
    BY Zenon DEF StartWrite, Started
  <2>3. op' \in [kind : {"none", "read", "write"}, value : Banks, mine : BOOLEAN]
    <3>1. CASE op' = op
      BY <3>1 DEF TypeOK
    <3>2. CASE op' = [kind |-> Kind, value |-> Step.bank, mine |-> TRUE]
      BY <2>1, <3>2, Kinds
    <3> QED BY <2>2, <3>1, <3>2
  <2>4. armed' \in BOOLEAN
    BY Zenon DEF StartWrite, TypeOK
  <2> QED BY <1>c, <2>3, <2>4 DEF StartWrite, Started, TypeOK, txn
<1>2. CallerInv'
  BY <1>c DEF StartWrite, Started, chip, txn, CallerInv
<1>3. OpInv'
  BY <1>c, Kinds DEF StartWrite, Started, chip, txn, TypeOK, OpInv
<1>4. FetchInv'
  BY <1>c, Kinds DEF StartWrite, Started, chip, txn, TypeOK, OpInv, FetchInv
<1>5. DoneInv'
  BY <1>c, Kinds DEF StartWrite, Started, chip, txn, TypeOK, OpInv, FetchInv, DoneInv
<1>6. BankInv'
  BY <1>c, Kinds, Steps DEF StartWrite, Started, chip, txn, TypeOK, OpInv, CallerInv, BankInv
<1> QED BY <1>1, <1>2, <1>3, <1>4, <1>5, <1>6

(* Poll keeps the invariant.                                                *)
LEMMA PollKeeps == BlockInv /\ Poll => BlockInv'
<1> SUFFICES ASSUME BlockInv, Poll PROVE BlockInv'
  OBVIOUS
<1> USE DEF BlockInv
<1>0. UNCHANGED caller
  BY DEF Poll
<1>c. Step' = Step /\ Kind' = Kind /\ Fresh' = Fresh /\ UNCHANGED <<prog, at, sub, switchFailed>>
  BY <1>0, CallerWaits
<1>1. TypeOK'
  <2>1. armed' \in BOOLEAN
    BY Zenon DEF Poll, TypeOK
  <2> QED BY <1>c, <2>1 DEF Poll, chip, TypeOK
<1>2. CallerInv'
  BY <1>c DEF Poll, chip, txn, CallerInv
<1>3. OpInv'
  BY <1>c, Kinds DEF Poll, chip, txn, TypeOK, OpInv
<1>4. FetchInv'
  BY <1>c, Kinds DEF Poll, chip, txn, TypeOK, OpInv, FetchInv
<1>5. DoneInv'
  BY <1>c, Kinds DEF Poll, chip, txn, TypeOK, OpInv, FetchInv, DoneInv
<1>6. BankInv'
  BY <1>c, Kinds, Steps DEF Poll, chip, txn, TypeOK, OpInv, CallerInv, BankInv
<1> QED BY <1>1, <1>2, <1>3, <1>4, <1>5, <1>6

(* Timeout keeps the invariant.                                             *)
LEMMA TimeoutKeeps == BlockInv /\ Timeout => BlockInv'
<1> SUFFICES ASSUME BlockInv, Timeout PROVE BlockInv'
  OBVIOUS
<1> USE DEF BlockInv
<1>0. UNCHANGED caller
  BY DEF Timeout
<1>c. Step' = Step /\ Kind' = Kind /\ Fresh' = Fresh /\ UNCHANGED <<prog, at, sub, switchFailed>>
  BY <1>0, CallerWaits
<1>1. TypeOK'
  BY <1>c, Kinds, Steps DEF Timeout, chip, txn, TypeOK, CallerInv, Banks
<1>2. CallerInv'
  BY <1>c DEF Timeout, chip, txn, CallerInv
<1>3. OpInv'
  BY <1>c, Kinds DEF Timeout, chip, txn, TypeOK, OpInv
<1>4. FetchInv'
  BY <1>c, Kinds DEF Timeout, chip, txn, TypeOK, OpInv, FetchInv
<1>5. DoneInv'
  BY <1>c, Kinds DEF Timeout, chip, txn, TypeOK, OpInv, FetchInv, DoneInv
<1>6. BankInv'
  BY <1>c, Kinds, Steps DEF Timeout, chip, txn, TypeOK, OpInv, CallerInv, BankInv
<1> QED BY <1>1, <1>2, <1>3, <1>4, <1>5, <1>6

(* ReadFifo keeps the invariant.                                            *)
LEMMA ReadFifoKeeps == BlockInv /\ ReadFifo => BlockInv'
<1> SUFFICES ASSUME BlockInv, ReadFifo PROVE BlockInv'
  OBVIOUS
<1> USE DEF BlockInv
<1>0. UNCHANGED caller
  BY DEF ReadFifo
<1>c. Step' = Step /\ Kind' = Kind /\ Fresh' = Fresh /\ UNCHANGED <<prog, at, sub, switchFailed>>
  BY <1>0, CallerWaits
<1>1. TypeOK'
  BY <1>c, Kinds, Steps DEF ReadFifo, chip, txn, TypeOK, CallerInv, Banks
<1>2. CallerInv'
  BY <1>c DEF ReadFifo, chip, txn, CallerInv
<1>3. OpInv'
  BY <1>c, Kinds DEF ReadFifo, chip, txn, TypeOK, OpInv
<1>4. FetchInv'
  BY <1>c, Kinds DEF ReadFifo, chip, txn, TypeOK, OpInv, FetchInv
<1>5. DoneInv'
  BY <1>c, Kinds DEF ReadFifo, chip, txn, TypeOK, OpInv, FetchInv, DoneInv
<1>6. BankInv'
  BY <1>c, Kinds, Steps DEF ReadFifo, chip, txn, TypeOK, OpInv, CallerInv, BankInv
<1> QED BY <1>1, <1>2, <1>3, <1>4, <1>5, <1>6

(* Ack keeps the invariant.                                                 *)
LEMMA AckKeeps == BlockInv /\ Ack => BlockInv'
<1> SUFFICES ASSUME BlockInv, Ack PROVE BlockInv'
  OBVIOUS
<1> USE DEF BlockInv
<1>0. UNCHANGED caller
  BY DEF Ack
<1>c. Step' = Step /\ Kind' = Kind /\ Fresh' = Fresh /\ UNCHANGED <<prog, at, sub, switchFailed>>
  BY <1>0, CallerWaits
<1>1. TypeOK'
  BY <1>c, Kinds, Steps DEF Ack, chip, txn, TypeOK, CallerInv, Banks
<1>2. CallerInv'
  BY <1>c DEF Ack, chip, txn, CallerInv
<1>3. OpInv'
  BY <1>c, Kinds DEF Ack, chip, txn, TypeOK, OpInv
<1>4. FetchInv'
  BY <1>c, Kinds DEF Ack, chip, txn, TypeOK, OpInv, FetchInv
<1>5. DoneInv'
  BY <1>c, Kinds DEF Ack, chip, txn, TypeOK, OpInv, FetchInv, DoneInv
<1>6. BankInv'
  BY <1>c, Kinds, Steps DEF Ack, chip, txn, TypeOK, OpInv, CallerInv, BankInv
<1> QED BY <1>1, <1>2, <1>3, <1>4, <1>5, <1>6

(* Cleanup keeps the invariant.                                             *)
LEMMA CleanupKeeps == BlockInv /\ Cleanup => BlockInv'
<1> SUFFICES ASSUME BlockInv, Cleanup PROVE BlockInv'
  OBVIOUS
<1> USE DEF BlockInv
<1>0. UNCHANGED caller
  BY DEF Cleanup
<1>c. Step' = Step /\ Kind' = Kind /\ Fresh' = Fresh /\ UNCHANGED <<prog, at, sub, switchFailed>>
  BY <1>0, CallerWaits
<1>1. TypeOK'
  BY <1>c, Kinds, Steps DEF Cleanup, chip, txn, TypeOK, CallerInv, Banks
<1>2. CallerInv'
  BY <1>c DEF Cleanup, chip, txn, CallerInv
<1>3. OpInv'
  BY <1>c, Kinds DEF Cleanup, chip, txn, TypeOK, OpInv
<1>4. FetchInv'
  BY <1>c, Kinds DEF Cleanup, chip, txn, TypeOK, OpInv, FetchInv
<1>5. DoneInv'
  BY <1>c, Kinds DEF Cleanup, chip, txn, TypeOK, OpInv, FetchInv, DoneInv
<1>6. BankInv'
  BY <1>c, Kinds, Steps DEF Cleanup, chip, txn, TypeOK, OpInv, CallerInv, BankInv
<1> QED BY <1>1, <1>2, <1>3, <1>4, <1>5, <1>6

(* Begin keeps it.                                                          *)
LEMMA BeginKeeps == BlockInv /\ Begin => BlockInv'
<1> SUFFICES ASSUME BlockInv, Begin PROVE BlockInv'
  OBVIOUS
<1> USE DEF BlockInv, Begin
<1>s. prog' = "status" => Step'.do = "check" /\ Step'.bank = 0
  BY DEF Step, Program, ReceiverStatus
<1>a. prog' = "audio" => Step'.do = "switch" /\ Step'.bank = 0
  BY DEF Step, Program, AudioSignalRead, Switch
<1>k. Kind' = "read" /\ Fresh'
  BY <1>s, <1>a DEF Kind, Fresh
<1>1. TypeOK'
  BY DEF TypeOK, chip, txn
<1>2. CallerInv'
  BY DEF CallerInv
<1>3. OpInv'
  BY <1>k DEF CallerInv, OpInv, txn
<1>4. FetchInv'
  BY <1>k DEF CallerInv, FetchInv, txn
<1>5. DoneInv'
  BY <1>k DEF CallerInv, DoneInv, txn
<1>6. BankInv'
  BY <1>s, <1>a DEF BankInv, chip
<1> QED BY <1>1, <1>2, <1>3, <1>4, <1>5, <1>6

(* What a successful step does: it goes on, ends the program, or leads to   *)
(* the program's next step.                                                 *)
LEMMA AdvanceCases ==
  ASSUME TypeOK, CallerInv, prog # "none", Advance
  PROVE  /\ result = "ok"
         /\ \/ /\ Step.do = "switch" /\ sub < 3
               /\ prog' = prog /\ at' = at /\ sub' = sub + 1 /\ Step' = Step
               /\ switchFailed' = switchFailed
            \/ /\ Step.do # "switch" \/ sub = 3
               /\ at = Length /\ prog' = "none" /\ at' = at /\ sub' = 1
               /\ switchFailed' = (switchFailed /\ Step.do # "switch")
            \/ /\ Step.do # "switch" \/ sub = 3
               /\ at < Length /\ prog' = prog /\ at' = at + 1 /\ sub' = 1
               /\ switchFailed' = (switchFailed /\ Step.do # "switch")
<1>1. result = "ok"
  BY DEF Advance, StepOk
<1>2. CASE ~StepDone
  <2>1. Step.do = "switch" /\ sub < 3
    BY <1>2 DEF StepDone, TypeOK
  <2>2. prog' = prog /\ at' = at /\ sub' = sub + 1
    BY <1>2 DEF Advance
  <2>3. switchFailed' = switchFailed
    BY <1>2, Zenon DEF Advance, TypeOK
  <2> QED BY <1>1, <2>1, <2>2, <2>3 DEF Step, Program
<1>3. CASE StepDone
  <2>1. Step.do # "switch" \/ sub = 3
    BY <1>3 DEF StepDone
  <2>2. switchFailed' = (switchFailed /\ Step.do # "switch")
    BY <1>3, Zenon DEF Advance
  <2>3. sub' = 1 /\ IF at = Length THEN prog' = "none" /\ at' = at
                                        ELSE at' = at + 1 /\ prog' = prog
    BY <1>3 DEF Advance, Length
  <2>4. at \in Nat /\ Length \in Nat /\ at <= Length
    BY Place
  <2> QED BY <1>1, <2>1, <2>2, <2>3, <2>4
<1> QED BY <1>2, <1>3

(* A step that succeeds leads to one whose transaction finds no request     *)
(* under way.                                                               *)
LEMMA AdvanceKeeps == BlockInv /\ Return /\ Advance => BlockInv'
<1> SUFFICES ASSUME BlockInv, Return, Advance PROVE BlockInv'
  OBVIOUS
<1> USE DEF BlockInv
<1>0. /\ prog \in {"audio", "status"} /\ pc = "return" /\ pc' = "idle" /\ result = "ok"
      /\ UNCHANGED <<chip, status, rx, irq, divider, armed, result, sampled, got>>
  BY DEF Return, Advance, StepOk, CallerInv, TypeOK
<1>3. op.kind = "none" /\ UNCHANGED <<op, bank>>
  BY <1>0 DEF chip, DoneInv
<1>4. OpInv'
  BY <1>0, <1>3 DEF OpInv
<1>5. FetchInv'
  BY <1>0 DEF FetchInv
<1>6. DoneInv'
  BY <1>0 DEF DoneInv
<1>7. StepOk
  BY DEF Advance
<1>a. CASE /\ Step.do = "switch" /\ sub < 3
           /\ prog' = prog /\ at' = at /\ sub' = sub + 1 /\ Step' = Step
           /\ switchFailed' = switchFailed
  <2>1. TypeOK'
    BY <1>0, <1>3, <1>a DEF TypeOK
  <2>2. CallerInv'
    BY <1>0, <1>a DEF CallerInv
  <2>3. BankInv'
    BY <1>0, <1>3, <1>a DEF BankInv
  <2> QED BY <2>1, <2>2, <2>3, <1>4, <1>5, <1>6
<1>b. CASE /\ Step.do # "switch" \/ sub = 3
           /\ at = Length /\ prog' = "none" /\ at' = at /\ sub' = 1
           /\ switchFailed' = (switchFailed /\ Step.do # "switch")
  <2>0. switchFailed' \in BOOLEAN
    BY <1>b, Zenon
  <2>1. TypeOK'
    BY <1>0, <1>3, <1>b, <2>0 DEF TypeOK
  <2>2. CallerInv'
    BY <1>0, <1>b DEF CallerInv
  <2>3. bank # 0 => switchFailed'
    <3>1. CASE prog = "audio"
      <4>1. Step.do = "switch" /\ Step.bank = 0 /\ sub = 3
        BY <1>b, <3>1, Steps DEF TypeOK
      <4> QED BY <1>0, <1>7, <4>1, Kinds DEF StepOk, DoneInv
    <3>2. CASE prog # "audio"
      <4>1. Step.do # "switch"
        BY <1>b, <3>2, <1>0, Steps DEF TypeOK, CallerInv
      <4> QED BY <1>b, <4>1, <3>2, <1>0 DEF BankInv
    <3> QED BY <3>1, <3>2
  <2>4. BankInv'
    BY <1>3, <1>b, <2>3 DEF BankInv
  <2> QED BY <2>1, <2>2, <2>4, <1>4, <1>5, <1>6
<1>c. CASE /\ Step.do # "switch" \/ sub = 3
           /\ at < Length /\ prog' = prog /\ at' = at + 1 /\ sub' = 1
           /\ switchFailed' = (switchFailed /\ Step.do # "switch")
  <2>0. switchFailed' \in BOOLEAN
    BY <1>c, Zenon
  <2>1. TypeOK' /\ (prog' = "audio" \/ at' <= 2)
    <3>1. at' \in 1 .. 7 /\ (prog' = "audio" \/ at' <= 2)
      BY <1>0, <1>c, Place
    <3> QED BY <1>0, <1>3, <1>c, <2>0, <3>1 DEF TypeOK
  <2>2. CallerInv'
    BY <1>0, <1>c, <2>1 DEF CallerInv
  <2>3. Step'.do = "data" => bank = Step'.bank
    <3>1. CASE prog = "audio"
      <4>1. at \in 1 .. 6
        BY <1>c, <3>1, Place
      <4>2. at \in {1, 3, 5} => Step'.bank = Step.bank
        BY <1>c, <3>1 DEF Step, Program, AudioSignalRead, Switch, Data
      <4>3. at \in {2, 4, 6} => Step'.do = "switch"
        BY <1>c, <3>1 DEF Step, Program, AudioSignalRead, Switch, Data
      <4>4. at \in {1, 3, 5} => Step.do = "switch"
        BY <3>1, Steps DEF TypeOK
      <4>5. at \in {1, 3, 5} => bank = Step.bank
        BY <1>0, <1>7, <1>c, <4>4, Kinds DEF StepOk, DoneInv
      <4> QED BY <4>1, <4>2, <4>3, <4>5
    <3>2. CASE prog # "audio"
      <4>1. at = 1 /\ Step.do = "check"
        <5>1. at = 1
          BY <1>0, <1>c, <3>2, Place
        <5> QED BY <5>1, <3>2, Steps
      <4>2. Step'.bank = 0
        BY <1>c, <3>2, <4>1 DEF Step, Program, ReceiverStatus, Data
      <4>3. bank = 0
        BY <1>0, <1>7, <4>1, Kinds DEF StepOk, DoneInv
      <4> QED BY <4>2, <4>3
    <3> QED BY <3>1, <3>2
  <2>4. BankInv'
    <3>1. prog # "audio" => Step.do # "switch"
      BY <1>0, Steps DEF TypeOK, CallerInv
    <3> QED BY <1>3, <1>c, <2>3, <3>1 DEF BankInv
  <2> QED BY <2>1, <2>2, <2>4, <1>4, <1>5, <1>6
<1> QED BY <1>0, <1>a, <1>b, <1>c, AdvanceCases

(* A step that fails ends the program, or leads to the restoration.         *)
LEMMA FailKeeps == BlockInv /\ Return /\ Fail => BlockInv'
<1> SUFFICES ASSUME BlockInv, Return, Fail PROVE BlockInv'
  OBVIOUS
<1> USE DEF BlockInv
<1>0. /\ prog \in {"audio", "status"} /\ pc = "return" /\ pc' = "idle"
      /\ UNCHANGED <<chip, status, rx, irq, divider, armed, result, sampled, got>>
  BY DEF Return, CallerInv, TypeOK
<1>1. TypeOK'
  <2>1. switchFailed' \in BOOLEAN
    BY Zenon DEF Fail
  <2>2. prog' \in {"none", "audio", "status"} /\ at' \in 1 .. 7 /\ sub' \in 1 .. 3
    BY <1>0 DEF Fail, TypeOK
  <2> QED BY <1>0, <2>1, <2>2 DEF TypeOK, chip
<1>2. CallerInv' /\ sub' = 1
  BY <1>0 DEF Fail, CallerInv
<1>3. prog' # "none" => Step'.do = "switch"
  BY <1>0 DEF Fail, Step, Program, AudioSignalRead, Switch
<1>4. OpInv'
  BY <1>0, <1>2, <1>3 DEF OpInv, Fresh
<1>5. FetchInv'
  BY <1>0 DEF FetchInv
<1>6. DoneInv'
  BY <1>0 DEF DoneInv
<1>7. BankInv'
  <2>1. Step.do = "switch" => switchFailed'
    BY DEF Fail
  <2>2. switchFailed => switchFailed'
    BY DEF Fail
  <2>3. CASE prog = "audio"
    BY <1>0, <1>3, <2>1, <2>2, <2>3, Steps, Kinds
      DEF Fail, BankInv, OpInv, Fresh, chip, TypeOK
  <2>4. CASE prog # "audio"
    BY <1>0, <1>3, <2>2, <2>4 DEF Fail, BankInv, chip
  <2> QED BY <2>3, <2>4
<1> QED BY <1>1, <1>2, <1>4, <1>5, <1>6, <1>7

(* Every step keeps the invariant.                                          *)
LEMMA NextKeeps == BlockInv /\ [Next]_vars => BlockInv'
<1> SUFFICES ASSUME BlockInv, [Next]_vars PROVE BlockInv'
  OBVIOUS
<1>1. CASE UNCHANGED vars
  BY <1>1 DEF BlockInv, TypeOK, CallerInv, OpInv, FetchInv, DoneInv, BankInv,
    vars, chip, txn, caller, Fresh, Kind, Step, Program
<1>2. CASE Return
  BY <1>2, AdvanceKeeps, FailKeeps DEF Return
<1> QED BY <1>1, <1>2, BeginKeeps, HwDoneKeeps, HwBusyKeeps, HwErrorKeeps, HwGoneKeeps, GateKeeps,
          PrepareKeeps, SampleKeeps, StartReadKeeps, StartWriteKeeps, PollKeeps, TimeoutKeeps,
          ReadFifoKeeps, AckKeeps, CleanupKeeps
      DEF Next, Driver

(* The controller, the transaction and the programs keep the invariant.     *)
THEOREM BlockInvariant == Spec => []BlockInv
  BY InitEstablishes, NextKeeps, PTL DEF Spec

(* Type correctness.                                                        *)
THEOREM BlockTypes == Spec => []TypeOK
<1>1. BlockInv => TypeOK
  BY DEF BlockInv
<1> QED BY <1>1, BlockInvariant, PTL

(* A byte that a read accepts was fetched for this very request, in the     *)
(* bank the program selected, whatever completion an earlier request left   *)
(* behind or delivers late (gc573_block_identify_state()).                  *)
THEOREM BytesAreFresh == Spec => []DataIsFresh
<1>1. BlockInv => DataIsFresh
  BY Kinds DEF BlockInv, TypeOK, CallerInv, DoneInv, BankInv, DataIsFresh, Accepted
<1> QED BY <1>1, BlockInvariant, PTL

(* A transaction of gc573_block.c leaves the divider as it found it, and a  *)
(* successful one the flags that the next one requires.                     *)
THEOREM TransactionsLeaveClean == Spec => []LeavesClean
<1>1. BlockInv => LeavesClean
  BY DEF BlockInv, DoneInv, LeavesClean
<1> QED BY <1>1, BlockInvariant, PTL

(* Between programs the receiver is in bank zero unless the last switch of  *)
(* its bank failed (gc573_audio_signal_read()).                             *)
THEOREM BankIsRestored == Spec => []BankRestored
<1>1. BlockInv => BankRestored
  BY DEF BlockInv, BankInv, BankRestored
<1> QED BY <1>1, BlockInvariant, PTL
=============================================================================
