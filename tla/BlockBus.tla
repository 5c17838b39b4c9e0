------------------------------ MODULE BlockBus ------------------------------
(***************************************************************************)
(* The FPGA's block I2C controller as driver/gc573_block.c uses it: one    *)
(* read or write transaction at a time, each with a completion flag that   *)
(* may still stand from an earlier one; and two users of the receiver chip *)
(* behind it, gc573_audio_signal_read(), which moves the chip's register   *)
(* bank, and gc573_receiver_status(), which needs bank zero.  The control  *)
(* mutex keeps the users apart (HdmiControl), so programs do not overlap.  *)
(***************************************************************************)
EXTENDS Naturals, Sequences

VARIABLES
  (* chip and controller *)
  bank,     \* register 0x0f of the receiver
  status,   \* 0x1a4: "clear", "write" (1), "read" (4), "other" (8), "absent"
  op,       \* what the controller does: kind, value, and whether it is the
            \* driver's current request
  rx,       \* RX FIFO: the bank the byte was read in, and whether it belongs
            \* to the driver's current request
  irq,      \* bit 11 of 0x10
  divider,  \* 0x180: "saved" or "test"
  (* gc573_block_identify_state() or gc573_block_write_address() *)
  pc, armed, result, sampled, got,
  (* the caller *)
  prog,     \* "none", "audio" or "status"
  at,       \* its step
  sub,      \* the transaction of that step
  switchFailed  \* history: the last switch of the bank failed

chip   == <<bank, op>>
txn    == <<pc, armed, result, sampled, got>>
caller == <<prog, at, sub, switchFailed>>
vars   == <<chip, status, rx, irq, divider, txn, caller>>

Banks == 0 .. 2
Idle  == [kind |-> "none", value |-> 0, mine |-> FALSE]

Init ==
  /\ bank = 0 /\ status \in {"clear", "write", "read"} /\ op = Idle
  /\ rx = [bank |-> 0, mine |-> FALSE] /\ irq = FALSE /\ divider = "saved"
  /\ pc = "idle" /\ armed = FALSE /\ result = "ok" /\ sampled = FALSE
  /\ got = [bank |-> 0, mine |-> FALSE]
  /\ prog = "none" /\ at = 1 /\ sub = 1 /\ switchFailed = FALSE
-----------------------------------------------------------------------------
(***************************************************************************)
(* The programs.  A step switches the bank (read, write, read back), reads *)
(* data in the bank selected, or checks that the bank is zero.             *)
(***************************************************************************)
Switch(b) == [do |-> "switch", bank |-> b]
Data(b)   == [do |-> "data", bank |-> b]

AudioSignalRead ==
  <<Switch(0), Data(0), Switch(2), Data(2), Switch(1), Data(1), Switch(0)>>
ReceiverStatus  == <<[do |-> "check", bank |-> 0], Data(0)>>

Program == IF prog = "audio" THEN AudioSignalRead ELSE ReceiverStatus
Step    == Program[at]
Kind    == IF Step.do = "switch" /\ sub = 2 THEN "write" ELSE "read"

Begin ==
  /\ prog = "none"
  /\ prog' \in {"audio", "status"}
  /\ at' = 1 /\ sub' = 1
  /\ UNCHANGED <<chip, status, rx, irq, divider, txn, switchFailed>>
-----------------------------------------------------------------------------
(* The controller (external).  A request completes, fails, or never ends    *)
(* until command 0x10 prepares the next one.  A completion that comes after *)
(* the driver gave up is that of an old request.                            *)
HwDone ==
  /\ op.kind # "none" /\ status # "absent"
  /\ status' = op.kind
  /\ op' = Idle
  /\ irq' = TRUE
  /\ IF op.kind = "read"
     THEN rx' = [bank |-> bank, mine |-> op.mine] /\ UNCHANGED bank
     ELSE bank' \in {op.value, bank} /\ UNCHANGED rx
  /\ UNCHANGED <<divider, txn, caller>>

(* A completion that outlived START is dropped while the controller works.  *)
HwBusy ==
  /\ op.kind # "none" /\ status \in {"read", "write"}
  /\ status' = "clear"
  /\ UNCHANGED <<chip, rx, irq, divider, txn, caller>>

HwError ==
  /\ op.kind # "none" /\ status # "absent"
  /\ status' = "other"
  /\ op' = Idle
  /\ bank' \in IF op.kind = "write" THEN {op.value, bank} ELSE {bank}
  /\ UNCHANGED <<rx, irq, divider, txn, caller>>

(* The card drops off the PCIe bus: every register reads as all ones.       *)
HwGone ==
  /\ status # "absent"
  /\ status' = "absent"
  /\ UNCHANGED <<chip, rx, irq, divider, txn, caller>>
-----------------------------------------------------------------------------
(* The checks before a transaction: a read takes any known status, a write  *)
(* only that of a completed read.                                           *)
Gate ==
  /\ pc = "idle" /\ prog # "none"
  /\ IF status \in (IF Kind = "read" THEN {"clear", "write", "read"} ELSE {"read"})
     THEN divider' = "test" /\ pc' = "prepare" /\ UNCHANGED result
     ELSE result' = "error" /\ pc' = "return" /\ UNCHANGED divider
  /\ UNCHANGED <<chip, status, rx, irq, armed, sampled, got, caller>>

(* Command 0x10 ends an old request, and may or may not clear an old        *)
(* completion.                                                              *)
Prepare ==
  /\ pc = "prepare"
  /\ op' = Idle
  /\ status' \in IF status = "absent" THEN {status} ELSE {status, "clear"}
  /\ pc' = "sample"
  /\ UNCHANGED <<bank, rx, irq, divider, armed, result, sampled, got, caller>>

\* mutant: a completion flag that still stands counts as cleared
SampleTrusting ==
  /\ pc = "sample"
  /\ armed' = TRUE
  /\ IF status \in {"clear", "write", "read"}
     THEN pc' = "start" /\ UNCHANGED result
     ELSE pc' = "cleanup" /\ result' = "error"
  /\ UNCHANGED <<chip, status, rx, irq, divider, sampled, got, caller>>

(* prepared_status: if this kind's completion still stands, it has to be    *)
(* seen clear after START.                                                  *)
Sample ==
  /\ pc = "sample"
  /\ armed' = (status # Kind)
  /\ IF status \in {"clear", "write", "read"}
     THEN pc' = "start" /\ UNCHANGED result
     ELSE pc' = "cleanup" /\ result' = "error"
  /\ UNCHANGED <<chip, status, rx, irq, divider, sampled, got, caller>>

Started ==
  /\ op' = [kind |-> Kind, value |-> Step.bank, mine |-> TRUE]
  /\ status' \in {"clear", status}

(***************************************************************************)
(* gc573_block_start_read(): START and the first sample with interrupts    *)
(* off, so that a controller that drops the old completion at START is     *)
(* seen busy.  A write has no such sample: its gate excludes an old        *)
(* completion.                                                             *)
(***************************************************************************)
StartRead ==
  /\ pc = "start" /\ Kind = "read"
  /\ IF status = "absent"
     THEN /\ result' = "error" /\ pc' = "irq"
          /\ UNCHANGED <<op, status, armed>>
     ELSE /\ Started
          /\ armed' = (armed \/ status' = "clear")
          /\ pc' = "wait" /\ UNCHANGED result
  /\ UNCHANGED <<bank, rx, irq, divider, sampled, got, caller>>

StartWrite ==
  /\ pc = "start" /\ Kind = "write"
  /\ IF status = "absent" THEN UNCHANGED <<op, status>> ELSE Started
  /\ pc' = "wait"
  /\ UNCHANGED <<bank, rx, irq, divider, armed, result, sampled, got, caller>>

(* gc573_block_wait(), gc573_block_wait_write(): one sample of the status.  *)
Poll ==
  /\ pc = "wait"
  /\ \/ /\ status = "absent"
        /\ result' = "error" /\ pc' = "irq" /\ UNCHANGED armed
     \/ /\ status = Kind /\ armed
        /\ result' = "ok" /\ pc' = "irq" /\ UNCHANGED armed
     \/ /\ status \notin {"absent", Kind} /\ ~armed
        /\ armed' = TRUE /\ UNCHANGED <<result, pc>>
  /\ UNCHANGED <<chip, status, rx, irq, divider, sampled, got, caller>>

(* The two seconds are over, and the last sample shows no completion.       *)
Timeout ==
  /\ pc = "wait" /\ status # "absent" /\ ~(status = Kind /\ armed)
  /\ result' = "timeout" /\ pc' = "irq"
  /\ UNCHANGED <<chip, status, rx, irq, divider, armed, sampled, got, caller>>

(* irq_status is read; then the RX FIFO, if the read completed.             *)
ReadFifo ==
  /\ pc = "irq"
  /\ sampled' = irq
  /\ got' = IF Kind = "read" /\ result = "ok" THEN rx ELSE got
  /\ pc' = "ack"
  /\ UNCHANGED <<chip, status, rx, irq, divider, armed, result, caller>>

Ack ==
  /\ pc = "ack"
  /\ irq' = (irq /\ ~sampled)
  /\ pc' = "cleanup"
  /\ UNCHANGED <<chip, status, rx, divider, armed, result, sampled, got, caller>>

\* mutant: only a successful transaction restores the divider
CleanupOnSuccess ==
  /\ pc = "cleanup"
  /\ divider' = IF result = "ok" THEN "saved" ELSE divider
  /\ op' = [kind |-> op.kind, value |-> op.value, mine |-> FALSE]
  /\ rx' = [bank |-> rx.bank, mine |-> FALSE]
  /\ pc' = "return"
  /\ UNCHANGED <<bank, status, irq, armed, result, sampled, got, caller>>

(* The divider is restored; what the controller still does or holds is old. *)
Cleanup ==
  /\ pc = "cleanup"
  /\ divider' = IF status = "absent" THEN divider ELSE "saved"
  /\ op' = [kind |-> op.kind, value |-> op.value, mine |-> FALSE]
  /\ rx' = [bank |-> rx.bank, mine |-> FALSE]
  /\ pc' = "return"
  /\ UNCHANGED <<bank, status, irq, armed, result, sampled, got, caller>>
-----------------------------------------------------------------------------
(* The transaction and what the caller checks of its data.                  *)
StepOk ==
  /\ result = "ok"
  /\ Step.do = "switch" /\ sub = 3 => got.bank = Step.bank
  /\ Step.do = "check" => got.bank = 0

StepDone == IF Step.do = "switch" THEN sub = 3 ELSE TRUE

Advance ==
  /\ StepOk
  /\ switchFailed' = (switchFailed /\ ~(Step.do = "switch" /\ StepDone))
  /\ IF ~StepDone THEN sub' = sub + 1 /\ UNCHANGED <<prog, at>>
     ELSE sub' = 1 /\ IF at = Len(Program)
                      THEN prog' = "none" /\ UNCHANGED at
                      ELSE at' = at + 1 /\ UNCHANGED prog

\* mutant: a failed read returns with the bank as it is
FailNoRestore ==
  /\ ~StepOk
  /\ sub' = 1
  /\ switchFailed' = (switchFailed \/ Step.do = "switch")
  /\ prog' = "none" /\ UNCHANGED at

(* gc573_audio_signal_read() goes to its last step, the restoration of bank *)
(* zero, if it fails once bank 2 is selected.                               *)
Fail ==
  /\ ~StepOk
  /\ sub' = 1
  /\ switchFailed' = (switchFailed \/ Step.do = "switch")
  /\ IF prog = "audio" /\ at \in 4 .. 6 THEN at' = 7 /\ UNCHANGED prog
     ELSE prog' = "none" /\ UNCHANGED at

Return ==
  /\ pc = "return"
  /\ pc' = "idle"
  /\ Advance \/ Fail
  /\ UNCHANGED <<chip, status, rx, irq, divider, armed, result, sampled, got>>
-----------------------------------------------------------------------------
Driver == Gate \/ Prepare \/ Sample \/ StartRead \/ StartWrite \/ Poll
            \/ Timeout \/ ReadFifo \/ Ack \/ Cleanup \/ Return

Next == Begin \/ HwDone \/ HwBusy \/ HwError \/ HwGone \/ Driver

Spec == Init /\ [][Next]_vars
-----------------------------------------------------------------------------
TypeOK ==
  /\ bank \in Banks /\ status \in {"clear", "write", "read", "other", "absent"}
  /\ op \in [kind : {"none", "read", "write"}, value : Banks, mine : BOOLEAN]
  /\ rx \in [bank : Banks, mine : BOOLEAN] /\ irq \in BOOLEAN
  /\ divider \in {"saved", "test"}
  /\ pc \in {"idle", "prepare", "sample", "start", "wait", "irq", "ack",
             "cleanup", "return"}
  /\ armed \in BOOLEAN /\ result \in {"ok", "error", "timeout"}
  /\ sampled \in BOOLEAN /\ got \in [bank : Banks, mine : BOOLEAN]
  /\ prog \in {"none", "audio", "status"} /\ at \in 1 .. 7 /\ sub \in 1 .. 3
  /\ switchFailed \in BOOLEAN

Accepted == pc \in {"ack", "cleanup", "return"} /\ result = "ok" /\ Kind = "read"

(***************************************************************************)
(* A byte that a read accepts was fetched for this very request, whatever  *)
(* completion an earlier request left behind or delivers late, and data    *)
(* registers are read in the bank that the program selected.               *)
(***************************************************************************)
DataIsFresh ==
  Accepted => got.mine /\ (Step.do = "data" => got.bank = Step.bank)

(***************************************************************************)
(* A transaction leaves the divider as it found it; a successful one also  *)
(* leaves no interrupt pending and the status that the next one requires.  *)
(***************************************************************************)
LeavesClean ==
  pc = "return" /\ status # "absent" =>
    divider = "saved" /\ (result = "ok" => ~irq /\ status = Kind)

(***************************************************************************)
(* Between programs the chip is in bank zero, where receiver_status needs  *)
(* it, unless the last switch of the bank itself failed.                   *)
(***************************************************************************)
BankRestored == prog = "none" /\ bank # 0 => switchFailed

=============================================================================
