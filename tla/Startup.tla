------------------------------- MODULE Startup -------------------------------
(***************************************************************************)
(* Bringing the card up: tools/start-capture.py loads one diagnostic       *)
(* module after another, each of which runs one program of ChipPrograms at *)
(* probe, and keeps a checkpoint; then it loads the capture module, whose  *)
(* worker (driver/gc573_hdmi.c) runs the rest.  Any register access may    *)
(* fail, with or without its effect; the script may be killed, the machine *)
(* rebooted with the card under power, or the power cut, at any point.     *)
(***************************************************************************)
EXTENDS ChipPrograms, FiniteSets

VARIABLES
  bank, regs,      \* of the chips
  prog, pc,        \* the program that runs, its next operation
  wrote,           \* writes_started is not zero
  known,           \* bank of the receiver while bank_verified, else Unknown
  mark, late,      \* phase of the result, error kept until after the cleanup
  result,          \* "" until the program returns
  before,          \* history: the chips when the program began
  script,          \* "off", "step" or "wait" for the program
  checkpoint,      \* the file under /run: next and pending, or NoFile
  module,          \* "none" or "capture"; diagnostic modules do not stay
  phase, error,    \* gc573_hdmi
  past,            \* history: what became of each program since power-on
  calm             \* no access fails any more, and the source stays

chips == <<bank, regs>>
exec  == <<prog, pc, wrote, known, mark, late, result, before>>
host  == <<script, checkpoint, module, phase, error>>
vars  == <<chips, exec, host, past, calm>>

Unknown == 8
NoFile  == [next |-> 0, pending |-> FALSE, here |-> FALSE]
First   == 6
Last    == 19

(* PHASES of the script, and the phases of the worker.                      *)
PHASES == <<"receiver_id", "receiver_init", "receiver_calibrate",
            "splitter_startup", "splitter_prepare", "splitter_tx_finish">>

WorkerProgram ==
  <<"receiver_wait", "receiver_input", "splitter_wait", "splitter_input_hpd",
    "edid_enable", "splitter_wait", "activate", "splitter_wait", "video_clock",
    "receiver_wait", "receiver_video", "fpga_wait", "passthrough">>

Waits == {"receiver_wait", "splitter_wait", "fpga_wait"}

ReceiverWait == ReceiverStatus \o <<Ask("rcv", 0, "again")>>
SplitterWait == SplitterLinkStatus \o <<Ask("srx", 0, "again")>>
Activate     == SplitterWait \o
                <<Skip("tx", "tx1", Powered, Len(PortActivate("tx1")))>> \o
                PortActivate("tx1")

Program ==
  [receiver_id |-> ReceiverIdentify, receiver_init |-> ReceiverInit,
   receiver_calibrate |-> ReceiverCalibrate, splitter_startup |-> SplitterStartup,
   splitter_prepare |-> SplitterPrepare, splitter_tx_finish |-> SplitterTxPorts,
   receiver_wait |-> ReceiverWait, receiver_input |-> ReceiverInput,
   splitter_wait |-> SplitterWait, splitter_input_hpd |-> SplitterInputHpd,
   edid_enable |-> SplitterEdidEnable, activate |-> Activate,
   video_clock |-> SplitterVideoClock("tx1"), receiver_video |-> ReceiverVideo,
   fpga_wait |-> <<Ask("fpga", 0, "again")>>, passthrough |-> SplitterPassthrough]

This == Program[prog][pc]

Init ==
  /\ bank = [c \in Chips |-> 0] /\ regs = Registers
  /\ prog = "none" /\ pc = 1 /\ wrote = FALSE /\ known = Unknown
  /\ mark = "" /\ late = "" /\ result = "" /\ before = <<>>
  /\ script = "off" /\ checkpoint = NoFile /\ module = "none"
  /\ phase = 0 /\ error = ""
  /\ past = [p \in DOMAIN Program |-> "fresh"] /\ calm = FALSE
-----------------------------------------------------------------------------
(* Executing a program.                                                     *)
Forget == pc' = 1 /\ wrote' = FALSE /\ known' = Unknown /\ mark' = "" /\ late' = "" /\ result' = ""
Start(p) == prog' = p /\ before' = chips /\ Forget
Finish   == prog' = "none" /\ before' = <<>> /\ Forget

Running == prog # "none" /\ result = "" /\ pc <= Len(Program[prog])

Return(r) == result' = r /\ UNCHANGED pc
Goto(n)   == pc' = n /\ UNCHANGED result

(* What a write does to the chips.                                          *)
Effect ==
  IF This.kind = "reset"
  THEN /\ bank' = [bank EXCEPT ![This.chip] = 0]
       /\ regs' = [f \in DOMAIN regs |-> IF f \in Owned(This.chip)
                                         THEN Registers[f] ELSE regs[f]]
  ELSE \E v \in This.values :
         regs' = [regs EXCEPT ![This.name] = v] /\ UNCHANGED bank

Writes == {"put", "set", "poke", "reset"}

ExecWrite ==
  /\ Running /\ This.kind \in Writes
  /\ wrote' = TRUE /\ Goto(pc + 1)
  /\ IF This.kind = "put" THEN UNCHANGED chips ELSE Effect
  /\ UNCHANGED <<prog, known, mark, late, before, host, past, calm>>

ExecBank ==
  /\ Running /\ This.kind = "bank"
  /\ bank' = [bank EXCEPT ![This.chip] = This.bank]
  /\ known' = IF This.chip = "rcv" THEN This.bank ELSE known
  /\ wrote' = TRUE /\ Goto(pc + 1)
  /\ UNCHANGED <<regs, prog, mark, late, before, host, past, calm>>

(* An access fails: the read before the write, the write with or without    *)
(* its effect, or the read back.  The card's own registers are always       *)
(* written.                                                                 *)
ExecFail ==
  /\ Running /\ ~calm
  /\ This.kind \in Writes \cup {"bank", "get", "zero"}
  /\ Return("fail")
  /\ \/ This.chip # "fpga" /\ UNCHANGED <<chips, wrote, known>>
     \/ /\ This.kind \in Writes \cup {"bank"}
        /\ wrote' = TRUE
        /\ known' = IF This.kind = "bank" /\ This.chip = "rcv" THEN Unknown ELSE known
        /\ \/ This.chip # "fpga" /\ UNCHANGED chips
           \/ This.kind \in Writes \ {"put"} /\ Effect
           \/ /\ This.kind = "bank"
              /\ bank' = [bank EXCEPT ![This.chip] = This.bank] /\ UNCHANGED regs
  /\ UNCHANGED <<prog, mark, late, before, host, past, calm>>

(* What the code reads to decide: the bank, a setting, or the outside.      *)
ExecRead ==
  /\ Running
  /\ \/ This.kind = "get" /\ Goto(pc + 1) /\ UNCHANGED <<known, late>>
     \/ /\ This.kind = "zero"
        /\ IF bank[This.chip] = 0 THEN Goto(pc + 1) ELSE Return(This.err)
        /\ known' = IF This.chip = "rcv" /\ bank["rcv"] = 0 THEN 0 ELSE known
        /\ UNCHANGED late
     \/ /\ This.kind = "need"
        /\ IF regs[This.name] \in This.values THEN Goto(pc + 1) ELSE Return(This.err)
        /\ UNCHANGED <<known, late>>
     \/ /\ This.kind = "ask"
        /\ Goto(pc + 1) \/ (~calm /\ Return(This.err))
        /\ UNCHANGED <<known, late>>
     \/ /\ This.kind = "late"
        /\ \/ Goto(pc + 1) /\ UNCHANGED late
           \/ ~calm /\ Goto(pc + 1 + This.n) /\ late' = This.err
        /\ UNCHANGED known
  /\ UNCHANGED <<chips, prog, wrote, mark, before, host, past, calm>>

ExecBranch ==
  /\ Running
  /\ \/ This.kind = "maybe" /\ \E n \in {0, This.n} : Goto(pc + 1 + n)
     \/ /\ This.kind = "skip"
        /\ Goto(pc + 1 + IF regs[This.name] \in This.values THEN This.n ELSE 0)
     \/ This.kind = "due" /\ IF late = "" THEN Goto(pc + 1) ELSE Return(late)
     \/ This.kind = "leave" /\ Return(This.err)
     \/ This.kind = "mark" /\ Goto(pc + 1)
  /\ mark' = IF This.kind = "mark" THEN This.name ELSE mark
  /\ UNCHANGED <<chips, prog, wrote, known, late, before, host, past, calm>>

ExecEnd ==
  /\ prog # "none" /\ result = "" /\ pc > Len(Program[prog])
  /\ Return("ok")
  /\ UNCHANGED <<chips, prog, wrote, known, mark, late, before, host, past, calm>>
-----------------------------------------------------------------------------
(* tools/start-capture.py.                                                  *)
Remember(r) == past' = [past EXCEPT ![prog] = IF r = "ok" THEN "done"
                                              ELSE IF wrote THEN "torn" ELSE @]

\* mutant: an interrupted step is resumed like a waiting one
ScriptStartBlind ==
  /\ script = "off" /\ module = "none" /\ prog = "none" /\ regs.rout # "on"
  /\ script' = "step"
  /\ IF regs.gpio = "cold"
     THEN checkpoint' = [next |-> 0, pending |-> FALSE, here |-> TRUE]
     ELSE checkpoint.here /\ UNCHANGED checkpoint
  /\ UNCHANGED <<chips, exec, module, phase, error, past, calm>>

(* initialize(): only a card without start-up GPIO, or a checkpoint that is *)
(* not pending, is started.                                                 *)
ScriptStart ==
  /\ script = "off" /\ module = "none" /\ prog = "none" /\ regs.rout # "on"
  /\ script' = "step"
  /\ IF regs.gpio = "cold"
     THEN checkpoint' = [next |-> 0, pending |-> FALSE, here |-> TRUE]
     ELSE checkpoint.here /\ ~checkpoint.pending /\ UNCHANGED checkpoint
  /\ UNCHANGED <<chips, exec, module, phase, error, past, calm>>

StepBegin ==
  /\ script = "step" /\ checkpoint.next < First
  /\ checkpoint' = [checkpoint EXCEPT !.pending = TRUE]
  /\ Start(PHASES[checkpoint.next + 1])
  /\ script' = "wait"
  /\ UNCHANGED <<chips, module, phase, error, past, calm>>

\* mutant: the checkpoint advances whatever the step returned
StepEndAnyway ==
  /\ script = "wait" /\ result # ""
  /\ Remember(result) /\ Finish
  /\ checkpoint' = [checkpoint EXCEPT !.next = @ + 1, !.pending = FALSE]
  /\ script' = "step"
  /\ UNCHANGED <<chips, module, phase, error, calm>>

(* The file that says the step is done is written only after its success.   *)
StepEnd ==
  /\ script = "wait" /\ result # ""
  /\ Remember(result) /\ Finish
  /\ IF result = "ok"
     THEN /\ checkpoint' = [checkpoint EXCEPT !.next = @ + 1, !.pending = FALSE]
          /\ script' = "step"
     ELSE script' = "off" /\ UNCHANGED checkpoint
  /\ UNCHANGED <<chips, module, phase, error, calm>>

Handoff ==
  /\ script = "step" /\ checkpoint.next = First
  /\ checkpoint' = [checkpoint EXCEPT !.pending = TRUE]
  /\ module' = "capture" /\ phase' = First /\ error' = ""
  /\ script' = "off"
  /\ UNCHANGED <<chips, exec, past, calm>>

(* A card whose input already reaches the FPGA is not started again.        *)
LoadReady ==
  /\ script = "off" /\ module = "none" /\ prog = "none" /\ regs.rout = "on"
  /\ module' = "capture" /\ phase' = Last /\ error' = ""
  /\ Start("passthrough") /\ checkpoint' = NoFile
  /\ UNCHANGED <<chips, script, past, calm>>

(* The service is run again once the worker has finished.                   *)
Preserve ==
  /\ script = "off" /\ module = "capture" /\ prog = "none" /\ phase = Last
  /\ checkpoint.here
  /\ checkpoint' = NoFile
  /\ UNCHANGED <<chips, exec, script, module, phase, error, past, calm>>
-----------------------------------------------------------------------------
(* The worker: gc573_hdmi_poll() and phase().                               *)
WorkRun ==
  /\ module = "capture" /\ prog = "none" /\ phase \in First .. Last - 1 /\ error = ""
  /\ Start(WorkerProgram[phase - First + 1])
  /\ UNCHANGED <<chips, host, past, calm>>

VideoRetryable ==
  \/ result = "nolink" /\ mark = "preflight" /\ ~wrote
  \/ /\ known = 0
     /\ \/ mark = "format" /\ result \in {"again", "range"}
        \/ mark = "restored" /\ result = "range"

\* mutant: a link lost after the first write is waited for as well
RetryAnyLink ==
  \/ result = "again"
  \/ prog = "splitter_input_hpd" /\ result = "nopower" /\ ~wrote
  \/ prog \in {"activate", "video_clock"} /\ result = "nolink"
  \/ prog = "receiver_video" /\ VideoRetryable

\* mutant: a phase that fails is polled again
RetryForever == result # "ok"

(* The errors that only postpone a phase.                                   *)
Retry ==
  \/ result = "again"
  \/ prog = "splitter_input_hpd" /\ result = "nopower" /\ ~wrote
  \/ prog \in {"activate", "video_clock"} /\ result = "nolink" /\ ~wrote
  \/ prog = "receiver_video" /\ VideoRetryable

(* What receiver_video may do again although it wrote: it selected banks    *)
(* and latched the pixel counter, and all is as it was.  Programming of the *)
(* output (phase 6) is never repeated.                                      *)
Repeatable == prog = "receiver_video" /\ mark # "programming" /\ before = chips

(* The end of a phase; the history records what a retry would do again.     *)
WorkEnd ==
  /\ module = "capture" /\ prog # "none" /\ result # ""
  /\ Finish
  /\ IF phase < Last /\ Retry
     THEN /\ IF Repeatable THEN UNCHANGED past ELSE Remember(result)
          /\ UNCHANGED <<phase, error>>
     ELSE /\ Remember(result)
          /\ IF result = "ok" \/ prog = "passthrough"
             THEN phase' = (IF phase < Last THEN phase + 1 ELSE phase) /\ UNCHANGED error
             ELSE error' = result /\ UNCHANGED phase
  /\ UNCHANGED <<chips, script, checkpoint, module, calm>>
-----------------------------------------------------------------------------
(* The module is removed: the worker is stopped between two phases.         *)
Unload ==
  /\ module = "capture" /\ prog = "none" /\ ~calm
  /\ module' = "none" /\ phase' = 0 /\ error' = ""
  /\ UNCHANGED <<chips, exec, script, checkpoint, past, calm>>

(* The script dies; a probe that runs goes on.                              *)
Kill ==
  /\ script # "off" /\ script' = "off"
  /\ UNCHANGED <<chips, exec, checkpoint, module, phase, error, past, calm>>

ProbeEnds ==
  /\ script = "off" /\ module = "none" /\ result # ""
  /\ Remember(result) /\ Finish
  /\ UNCHANGED <<chips, host, calm>>

(* The chips keep power and state; /run is empty, the boot id another.      *)
Reboot ==
  /\ ~calm /\ Finish
  /\ IF prog = "none" THEN UNCHANGED past ELSE Remember("killed")
  /\ script' = "off" /\ checkpoint' = NoFile /\ module' = "none" /\ phase' = 0 /\ error' = ""
  /\ UNCHANGED <<chips, calm>>

PowerCycle ==
  /\ ~calm /\ Finish
  /\ bank' = [c \in Chips |-> 0] /\ regs' = Registers
  /\ past' = [p \in DOMAIN Program |-> "fresh"]
  /\ script' = "off" /\ checkpoint' = NoFile /\ module' = "none" /\ phase' = 0 /\ error' = ""
  /\ UNCHANGED calm

Settle == ~calm /\ module = "capture" /\ calm' = TRUE /\ UNCHANGED <<chips, exec, host, past>>

Exec   == ExecWrite \/ ExecBank \/ ExecFail \/ ExecRead \/ ExecBranch \/ ExecEnd
Script == ScriptStart \/ StepBegin \/ StepEnd \/ Handoff \/ LoadReady \/ Preserve
Work   == WorkRun \/ WorkEnd
Fault  == Unload \/ Kill \/ ProbeEnds \/ Reboot \/ PowerCycle \/ Settle
Next   == Exec \/ Script \/ Work \/ Fault

Spec     == Init /\ [][Next]_vars
FairSpec == Spec /\ WF_vars(Exec) /\ WF_vars(Work)
-----------------------------------------------------------------------------
(* Every access goes to the register bank it is written for, also when an   *)
(* earlier program left the chip in another bank.                           *)
RightBank ==
  Running /\ This.kind \in Writes \cup {"get", "need", "ask", "late"} =>
    bank[This.chip] = This.bank

(* A program of the start runs only after every step before it succeeded.   *)
InOrder ==
  prog # "none" /\ pc = 1 /\ result = "" =>
    \A i \in 1 .. 6 :
      (\E j \in i + 1 .. 6 : PHASES[j] = prog) \/ module = "capture" => past[PHASES[i]] = "done"

(* A program that wrote is not run again while the card has power: not by   *)
(* the script after its death or a reboot, and not by the worker, whose     *)
(* retries count as well.  Excepted are the phases that only wait, the last *)
(* one, which a later load of the module runs again, and the selection of   *)
(* banks and the latched pixel counter of receiver_video, "safe to repeat   *)
(* only after their readbacks confirm restoration".                         *)
NoReplay ==
  prog \in DOMAIN Program \ (Waits \cup {"passthrough"}) /\ pc = 1 /\ result = "" =>
    past[prog] = "fresh"

(* A phase that is tried again left every setting and every bank as it was. *)
RetryIsClean ==
  module = "capture" /\ result # "" /\ phase < Last /\ Retry =>
    before = chips /\ \A c \in Chips : bank[c] = 0

(* Hot-plug is raised towards the source only with the EDID in place: the   *)
(* receiver's after its port is ready, the splitter's never over half an    *)
(* EDID set-up.                                                             *)
HotplugHonest ==
  /\ regs.hpd = "high" => regs.rddc = "ours" /\ regs.rport = "ready"
  /\ regs.s55 = "on" => regs.sddc # "part"

(* With a source that stays and no more failures the worker finishes its    *)
(* phases or reports an error.                                              *)
SetupEnds == (calm /\ module = "capture") ~> (phase = Last \/ error # "")
=============================================================================
