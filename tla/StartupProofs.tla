--------------------------- MODULE StartupProofs ---------------------------
(***************************************************************************)
(* Proofs about Startup.  What the operations of each program are,         *)
(* Programs, shows the order of the programs and of the checkpoints.  That *)
(* a program carries what it knows about a bank or a setting to every      *)
(* operation that relies on it, Routed and GateRouted, shows which banks   *)
(* it accesses and when it raises hot-plug.  Where a program may still ask *)
(* for another try, Cuts, shows what a retry leaves behind.                *)
(***************************************************************************)
EXTENDS Startup, Integers, SequenceTheorems, TLAPS

(* What operations are made of.                                             *)
Kinds    == {"bank", "put", "get", "set", "poke", "reset", "zero", "need", "ask", "late", "due",
             "maybe", "skip", "leave", "mark"}
Settings == {"gpio", "hpd", "table", "rcal", "rddc", "rport", "tick", "rout", "base", "map",
             "scal", "s26", "s55", "sab", "sddc", "tx1", "tx2"}
Marks    == {"preflight", "sampling", "format", "measuring", "restored", "programming"}
Values   == {"cold", "part", "receiver", "board", "low", "high", "marked", "done", "clear",
             "flagged", "ours", "ready", "held", "free", "on", "off", "set", "other", "ca",
             "reset", "active", "setup"}
Errors   == {"", "fail", "again", "unsup", "nodev", "busy", "timeout", "range", "inval",
             "nolink", "nopower", "badref"}

Ops == [kind : Kinds, chip : Chips, bank : Nat, name : Settings \cup Marks \cup {""},
        values : SUBSET Values, err : Errors \cup {"ok"}, n : Nat]

(* The programs that reset the receiver or write what its hot-plug promises *)
(* and those that do so for the splitter's; the programs that may ask for   *)
(* another try.                                                             *)
InputPrograms   == {"receiver_id", "receiver_input"}
SourcePrograms  == {"splitter_input_hpd", "edid_enable"}
PatientPrograms == {"receiver_calibrate", "receiver_wait", "receiver_input", "splitter_wait",
                    "activate", "fpga_wait", "receiver_video"}

(* Operations after which start-up GPIO stays; the banks of the card itself *)
(* and of the transmitters are not used, and two errors are kept until      *)
(* after a cleanup.                                                         *)
Careful ==
  {o \in Ops : /\ o.kind \in Writes => o.name # "gpio" \/ "cold" \notin o.values
               /\ o.chip \in {"fpga", "tx"} => o.bank = 0
               /\ o.kind = "late" => o.err \in {"timeout", "range"}}

(* The operations of program p: what only some programs do.                 *)
Tame(p) ==
  {o \in Careful :
     /\ p # "receiver_video" => ~(o.kind \in Writes /\ o.name \in {"rout", "tick"})
     /\ p # "passthrough" => o.err # "ok"
     /\ p \notin PatientPrograms => o.err # "again"
     /\ p \in Waits => o.kind \notin {"set", "poke", "reset"}
     /\ p \notin InputPrograms =>
          /\ o.kind \in {"set", "poke"} => o.name \notin {"hpd", "rddc", "rport"}
          /\ o.kind = "reset" => o.chip # "rcv"
     /\ p \notin SourcePrograms /\ o.kind \in {"set", "poke"} /\ o.name \in {"s55", "sddc"} =>
          o.values = {"off"}}

-----------------------------------------------------------------------------
(* The programs.                                                            *)

(* The operations that write no setting the properties tell apart ...       *)
LEMMA PlainOps ==
  ASSUME NEW p, NEW c \in Chips, NEW b \in Nat, c \in {"fpga", "tx"} => b = 0
  PROVE  /\ Bank(c, b) \in Tame(p) /\ Put(c, b) \in Tame(p) /\ Get(c, b) \in Tame(p)
         /\ (c # "rcv" \/ p \in InputPrograms) /\ p \notin Waits => Reset(c, b) \in Tame(p)
<1> USE DEF Tame, Careful, Ops, Writes, Op, Kinds, Errors
<1>1. Bank(c, b) \in Tame(p) /\ Put(c, b) \in Tame(p)
  BY DEF Bank, Put
<1>2. /\ Get(c, b) \in Tame(p)
      /\ (c # "rcv" \/ p \in InputPrograms) /\ p \notin Waits => Reset(c, b) \in Tame(p)
  BY DEF Get, Reset
<1> QED BY <1>1, <1>2

(* ... that look at the bank ...                                            *)
LEMMA ZeroOps ==
  ASSUME NEW p, NEW c \in Chips, NEW e \in Errors, e = "again" => p \in PatientPrograms
  PROVE  Zero(c, e) \in Tame(p)
  BY DEF Zero, Tame, Careful, Ops, Writes, Op, Kinds, Errors

(* ... at a setting ...                                                     *)
LEMMA NeedOps ==
  ASSUME NEW p, NEW c \in Chips, NEW f \in Settings, NEW vs \in SUBSET Values, NEW e \in Errors,
         e = "again" => p \in PatientPrograms
  PROVE  Need(c, f, vs, e) \in Tame(p)
  BY DEF Need, Tame, Careful, Ops, Writes, Op, Kinds, Errors

(* ... at the source or the sink ...                                        *)
LEMMA AskOps ==
  ASSUME NEW p, NEW c \in Chips, NEW b \in Nat, NEW e \in Errors,
         e = "again" => p \in PatientPrograms,
         c \in {"fpga", "tx"} => b = 0
  PROVE  Ask(c, b, e) \in Tame(p)
  BY DEF Ask, Tame, Careful, Ops, Writes, Op, Kinds, Errors

(* ... and keep the error until after the cleanup ...                       *)
LEMMA LateOps ==
  ASSUME NEW p, NEW c \in Chips, NEW b \in Nat, NEW e \in {"timeout", "range"}, NEW n \in Nat,
         c \in {"fpga", "tx"} => b = 0
  PROVE  Late(c, b, e, n) \in Tame(p)
  BY DEF Late, Tame, Careful, Ops, Writes, Op, Kinds, Errors

(* ... that return ...                                                      *)
LEMMA LeaveOps ==
  ASSUME NEW p, NEW e \in Errors \cup {"ok"}, e = "ok" => p = "passthrough",
         e = "again" => p \in PatientPrograms
  PROVE  Leave(e) \in Tame(p)
  BY DEF Leave, Chips, Tame, Careful, Ops, Writes, Op, Kinds, Errors

(* ... that go elsewhere in the program ...                                 *)
LEMMA MaybeOps ==
  ASSUME NEW p, NEW n \in Nat
  PROVE  Maybe(n) \in Tame(p)
  BY DEF Maybe, Chips, Tame, Careful, Ops, Writes, Op, Kinds, Errors

(* ... also after a look at a setting ...                                   *)
LEMMA SkipOps ==
  ASSUME NEW p, NEW c \in Chips, NEW f \in Settings, NEW vs \in SUBSET Values, NEW n \in Nat
  PROVE  Skip(c, f, vs, n) \in Tame(p)
  BY DEF Skip, Tame, Careful, Ops, Writes, Op, Kinds, Errors

(* ... and that only note how far the program has come ...                  *)
LEMMA MarkOps ==
  ASSUME NEW p, NEW m \in Marks
  PROVE  Mark(m) \in Tame(p)
  BY DEF Mark, Chips, Tame, Careful, Ops, Writes, Op, Kinds, Errors

(* ... or return the error that was kept.                                   *)
LEMMA DueOp ==
  ASSUME NEW p
  PROVE  Due \in Tame(p)
  BY DEF Due, Chips, Tame, Careful, Ops, Writes, Op, Kinds, Errors

(* The operations that write a setting, and read it back ...                *)
LEMMA SetOps ==
  ASSUME NEW p, NEW c \in Chips, NEW b \in Nat, NEW f \in Settings, NEW v \in Values,
         p \notin Waits, c \in {"fpga", "tx"} => b = 0, f # "gpio" \/ v # "cold",
         f \in {"rout", "tick"} => p = "receiver_video",
         f \in {"hpd", "rddc", "rport"} => p \in InputPrograms,
         f \in {"s55", "sddc"} => v = "off" \/ p \in SourcePrograms
  PROVE  Set(c, b, f, v) \in Tame(p)
  BY DEF Set, Tame, Careful, Ops, Writes, Op, Kinds, Errors

(* ... or do not.                                                           *)
LEMMA PokeOps ==
  ASSUME NEW p, NEW c \in Chips, NEW b \in Nat, NEW f \in Settings, NEW v \in Values,
         p \notin Waits, c \in {"fpga", "tx"} => b = 0, f # "gpio" \/ v # "cold",
         f \in {"rout", "tick"} => p = "receiver_video",
         f \in {"hpd", "rddc", "rport"} => p \in InputPrograms,
         f \in {"s55", "sddc"} => v = "off" \/ p \in SourcePrograms
  PROVE  Poke(c, b, f, v) \in Tame(p)
  BY DEF Poke, Tame, Careful, Ops, Writes, Op, Kinds, Errors

(* Visiting banks writes no setting.                                        *)
LEMMA Visits ==
  ASSUME NEW p, NEW c \in Chips \ {"fpga", "tx"}, NEW banks \in Seq(Nat)
  PROVE  Visit(c, banks) \in Seq(Tame(p))
<1>1. ASSUME NEW i \in 1 .. 2 * Len(banks)
      PROVE  (IF i % 2 = 1 THEN Bank(c, banks[(i + 1) \div 2])
              ELSE Put(c, banks[i \div 2])) \in Tame(p)
  <2>1. i % 2 = 1 => (i + 1) \div 2 \in 1 .. Len(banks)
    OBVIOUS
  <2>2. i % 2 # 1 => i \div 2 \in 1 .. Len(banks)
    OBVIOUS
  <2>3. CASE i % 2 = 1
    BY <2>1, <2>3, PlainOps
  <2>4. CASE i % 2 # 1
    BY <2>2, <2>4, PlainOps
  <2> QED BY <2>3, <2>4
<1>2. 2 * Len(banks) \in Nat
  OBVIOUS
<1> QED BY <1>1, <1>2 DEF Visit

(* Nor do five samples of the pixel counter, but the counter.               *)
LEMMA PixelSamplesTame == PixelSamples \in Seq(Tame("receiver_video"))
<1>1. "receiver_video" \notin Waits /\ "rcv" \in Chips /\ "tick" \in Settings /\ "held" \in Values
        /\ "free" \in Values
  BY DEF Waits, Chips, Settings, Values
<1>2. Set("rcv", 0, "tick", "held") \in Tame("receiver_video")
        /\ Set("rcv", 0, "tick", "free") \in Tame("receiver_video")
  BY <1>1, SetOps
<1>3. Get("rcv", 0) \in Tame("receiver_video")
  BY <1>1, PlainOps
<1> QED BY <1>2, <1>3 DEF PixelSamples

(* Every operation of ReceiverIdentify (gc573_receiver_identify) is one its *)
(* program may contain.                                                     *)
LEMMA ReceiverIdentifyTame == ReceiverIdentify \in Seq(Tame("receiver_id"))
<1>1. /\ "fpga" \in Chips /\ "rcv" \in Chips
      /\ "receiver_id" \in InputPrograms
      /\ "gpio" \in Settings
      /\ "part" \in Values /\ "receiver" \in Values
      /\ "receiver_id" \notin Waits
  BY DEF Chips, InputPrograms, Settings, Values, Waits
<1> QED BY <1>1, PlainOps, SetOps DEF ReceiverIdentify

(* Every operation of ReceiverStatus (gc573_receiver_status) is one its     *)
(* program may contain.                                                     *)
LEMMA ReceiverStatusTame == ASSUME NEW p PROVE ReceiverStatus \in Seq(Tame(p))
<1>1. /\ "fpga" \in Chips /\ "rcv" \in Chips
      /\ "unsup" \in Errors /\ "nodev" \in Errors
      /\ "gpio" \in Settings
      /\ {"receiver", "board"} \in SUBSET Values
  BY DEF Chips, Errors, Settings, Values
<1> QED BY <1>1, PlainOps, ZeroOps, NeedOps DEF ReceiverStatus

(* Every operation of ReceiverInit (gc573_init_table) is one its program    *)
(* may contain.                                                             *)
LEMMA ReceiverInitTame == ASSUME NEW p, p \notin Waits PROVE ReceiverInit \in Seq(Tame(p))
<1>1. /\ "rcv" \in Chips
      /\ "table" \in Settings
      /\ "marked" \in Values /\ "done" \in Values
  BY DEF Chips, Settings, Values
<1>2. <<3, 0, 3, 0, 4, 3, 0, 3, 0, 0, 1, 0, 1, 3, 7, 0, 1, 0, 5, 0, 4, 0, 3, 0, 4, 0, 4>>
        \in Seq(Nat)
  OBVIOUS
<1>3. Visit("rcv", <<3, 0, 3, 0, 4, 3, 0, 3, 0, 0, 1, 0, 1, 3, 7, 0, 1, 0, 5, 0, 4, 0, 3, 0, 4, 0,
                     4>>)
        \in Seq(Tame(p))
  BY <1>1, <1>2, Visits
<1>4. /\ Poke("rcv", 0, "table", "marked") \in Tame(p)
      /\ Poke("rcv", 0, "table", "done") \in Tame(p)
  BY <1>1, PokeOps
<1>5. /\ <<Bank("rcv", 0), Poke("rcv", 0, "table", "marked")>> \in Seq(Tame(p))
      /\ <<Bank("rcv", 0), Poke("rcv", 0, "table", "done")>> \in Seq(Tame(p))
  BY <1>1, <1>4, PlainOps
<1> QED BY <1>3, <1>5, ReceiverStatusTame DEF ReceiverInit

(* Every operation of CalSetup (gc573_cal_setup) is one its program may     *)
(* contain.                                                                 *)
LEMMA CalSetupTame == ASSUME NEW p, p \notin Waits PROVE CalSetup \in Seq(Tame(p))
<1>1. /\ "rcv" \in Chips
      /\ "rcal" \in Settings
      /\ "flagged" \in Values
  BY DEF Chips, Settings, Values
<1>2. /\ <<3>> \in Seq(Nat)
      /\ <<7, 0, 4, 3, 7>> \in Seq(Nat)
  OBVIOUS
<1>3. /\ Visit("rcv", <<3>>) \in Seq(Tame(p))
      /\ Visit("rcv", <<7, 0, 4, 3, 7>>) \in Seq(Tame(p))
  BY <1>1, <1>2, Visits
<1>4. Bank("rcv", 0) \in Tame(p) /\ Poke("rcv", 0, "rcal", "flagged") \in Tame(p)
  BY <1>1, PlainOps, PokeOps
<1>5. /\ <<Bank("rcv", 0), Poke("rcv", 0, "rcal", "flagged")>> \in Seq(Tame(p))
      /\ <<Bank("rcv", 0)>> \in Seq(Tame(p))
  BY <1>4
<1> QED BY <1>3, <1>5 DEF CalSetup

(* Every operation of CalCleanup (gc573_cal_cleanup) is one its program may *)
(* contain.                                                                 *)
LEMMA CalCleanupTame == ASSUME NEW p, p \notin Waits PROVE CalCleanup \in Seq(Tame(p))
<1>1. /\ "rcv" \in Chips
      /\ "rcal" \in Settings
      /\ "done" \in Values
  BY DEF Chips, Settings, Values
<1>2. <<4, 3, 7>> \in Seq(Nat)
  OBVIOUS
<1>3. Visit("rcv", <<4, 3, 7>>) \in Seq(Tame(p))
  BY <1>1, <1>2, Visits
<1> QED BY <1>1, <1>3, PlainOps, PokeOps DEF CalCleanup

(* Every operation of ReceiverCalibrate (gc573_receiver_calibrate) is one   *)
(* its program may contain.                                                 *)
LEMMA ReceiverCalibrateTame == ReceiverCalibrate \in Seq(Tame("receiver_calibrate"))
<1>1. /\ "rcv" \in Chips
      /\ "receiver_calibrate" \in PatientPrograms
      /\ "busy" \in Errors /\ "again" \in Errors
      /\ "rcal" \in Settings /\ "table" \in Settings
      /\ {"clear", "done"} \in SUBSET Values /\ {"marked", "done"} \in SUBSET Values
      /\ "receiver_calibrate" \notin Waits
  BY DEF Chips, PatientPrograms, Errors, Settings, Values, Waits
<1> QED BY <1>1, PlainOps, LateOps, NeedOps, DueOp, ReceiverStatusTame, CalSetupTame,
    CalCleanupTame DEF ReceiverCalibrate, Markers

(* Every operation of ClockRecovery (gc573_receiver_clock) is one its       *)
(* program may contain.                                                     *)
LEMMA ClockRecoveryTame == ASSUME NEW p PROVE ClockRecovery \in Seq(Tame(p))
<1>1. "rcv" \in Chips
  BY DEF Chips
<1> QED BY <1>1, PlainOps, LateOps DEF ClockRecovery

(* Every operation of ReceiverClock (gc573_receiver_clock) is one its       *)
(* program may contain.                                                     *)
LEMMA ReceiverClockTame == ASSUME NEW p \in PatientPrograms PROVE ReceiverClock \in Seq(Tame(p))
<1>1. /\ "rcv" \in Chips
      /\ "again" \in Errors
      /\ "rcal" \in Settings /\ "table" \in Settings
      /\ {"flagged", "done"} \in SUBSET Values /\ {"marked", "done"} \in SUBSET Values
  BY DEF Chips, Errors, Settings, Values
<1>2. <<1, 0, 1>> \in Seq(Nat)
  OBVIOUS
<1>3. Visit("rcv", <<1, 0, 1>>) \in Seq(Tame(p))
  BY <1>1, <1>2, Visits
<1> QED BY <1>1, <1>3, PlainOps, LateOps, NeedOps, MaybeOps, DueOp, ReceiverStatusTame,
    ClockRecoveryTame DEF ReceiverClock, Markers

(* Every operation of ReceiverTiming (gc573_receiver_timing) is one its     *)
(* program may contain.                                                     *)
LEMMA ReceiverTimingTame == ASSUME NEW p \in PatientPrograms PROVE ReceiverTiming \in Seq(Tame(p))
<1>1. "rcv" \in Chips
  BY DEF Chips
<1>2. <<3, 0, 1, 0>> \in Seq(Nat)
  OBVIOUS
<1>3. Visit("rcv", <<3, 0, 1, 0>>) \in Seq(Tame(p))
  BY <1>1, <1>2, Visits
<1> QED BY <1>1, <1>3, PlainOps, ReceiverStatusTame, ReceiverClockTame DEF ReceiverTiming

(* Every operation of ReceiverEdidRead (gc573_receiver_edid_read) is one    *)
(* its program may contain.                                                 *)
LEMMA ReceiverEdidReadTame ==
  ASSUME NEW p \in PatientPrograms PROVE ReceiverEdidRead \in Seq(Tame(p))
<1>1. "rcv" \in Chips
  BY DEF Chips
<1> QED BY <1>1, PlainOps, ReceiverStatusTame, ReceiverTimingTame DEF ReceiverEdidRead

(* Every operation of DdcSnapshot (ddc_snapshot) is one its program may     *)
(* contain.                                                                 *)
LEMMA DdcSnapshotTame == ASSUME NEW p PROVE DdcSnapshot \in Seq(Tame(p))
<1>1. "rcv" \in Chips
  BY DEF Chips
<1> QED BY <1>1, PlainOps DEF DdcSnapshot

(* Every operation of ReceiverDdc (gc573_receiver_ddc) is one its program   *)
(* may contain.                                                             *)
LEMMA ReceiverDdcTame == ReceiverDdc \in Seq(Tame("receiver_input"))
<1>1. /\ "fpga" \in Chips /\ "rcv" \in Chips
      /\ "receiver_input" \in InputPrograms
      /\ "receiver_input" \in PatientPrograms
      /\ "busy" \in Errors /\ "fail" \in Errors /\ "inval" \in Errors
      /\ "rddc" \in Settings /\ "hpd" \in Settings
      /\ "part" \in Values /\ "ours" \in Values
      /\ {"low"} \in SUBSET Values /\ {"ours"} \in SUBSET Values
      /\ "receiver_input" \notin Waits
  BY DEF Chips, InputPrograms, PatientPrograms, Errors, Settings, Values, Waits
<1>2. <<4, 0, 4, 0, 4, 0>> \in Seq(Nat)
  OBVIOUS
<1>3. Visit("rcv", <<4, 0, 4, 0, 4, 0>>) \in Seq(Tame("receiver_input"))
  BY <1>1, <1>2, Visits
<1>4. /\ Set("rcv", 0, "rddc", "part") \in Tame("receiver_input")
      /\ Set("rcv", 4, "rddc", "ours") \in Tame("receiver_input")
  BY <1>1, SetOps
<1>5. /\ Ask("rcv", 0, "busy") \in Tame("receiver_input")
      /\ Ask("rcv", 0, "inval") \in Tame("receiver_input")
      /\ Need("fpga", "hpd", {"low"}, "busy") \in Tame("receiver_input")
      /\ Need("rcv", "rddc", {"ours"}, "fail") \in Tame("receiver_input")
  BY <1>1, AskOps, NeedOps
<1>6. Bank("rcv", 4) \in Tame("receiver_input") /\ Bank("rcv", 0) \in Tame("receiver_input")
  BY <1>1, PlainOps
<1> QED BY <1>1, <1>3, <1>5, <1>6, <1>4, ReceiverStatusTame, ReceiverEdidReadTame,
    DdcSnapshotTame DEF ReceiverDdc

(* Every operation of ReceiverInput (gc573_receiver_input) is one its       *)
(* program may contain.                                                     *)
LEMMA ReceiverInputTame == ReceiverInput \in Seq(Tame("receiver_input"))
<1>1. /\ "rcv" \in Chips /\ "fpga" \in Chips
      /\ "receiver_input" \in InputPrograms
      /\ "receiver_input" \in PatientPrograms
      /\ "fail" \in Errors /\ "nolink" \in Errors
      /\ "rport" \in Settings /\ "hpd" \in Settings
      /\ "part" \in Values /\ "ready" \in Values /\ "high" \in Values
      /\ {"low"} \in SUBSET Values
      /\ "receiver_input" \notin Waits
  BY DEF Chips, InputPrograms, PatientPrograms, Errors, Settings, Values, Waits
<1>2. <<0, 0, 0, 3, 7, 0, 3, 7, 0, 3, 0, 3, 0, 1>> \in Seq(Nat)
  OBVIOUS
<1>3. Visit("rcv", <<0, 0, 0, 3, 7, 0, 3, 7, 0, 3, 0, 3, 0, 1>>) \in Seq(Tame("receiver_input"))
  BY <1>1, <1>2, Visits
<1>4. /\ Set("rcv", 1, "rport", "part") \in Tame("receiver_input")
      /\ Set("rcv", 0, "rport", "ready") \in Tame("receiver_input")
      /\ Set("fpga", 0, "hpd", "high") \in Tame("receiver_input")
  BY <1>1, SetOps
<1> QED BY <1>1, <1>3, <1>4, PlainOps, AskOps, NeedOps, ReceiverStatusTame,
    ReceiverDdcTame DEF ReceiverInput

(* Every operation of ReceiverOutput (rv_output) is one its program may     *)
(* contain.                                                                 *)
LEMMA ReceiverOutputTame == ReceiverOutput \in Seq(Tame("receiver_video"))
<1>1. /\ "rcv" \in Chips
      /\ "unsup" \in Errors /\ "badref" \in Errors /\ "range" \in Errors
      /\ "rout" \in Settings
      /\ "part" \in Values /\ "on" \in Values
      /\ "measuring" \in Marks /\ "restored" \in Marks /\ "programming" \in Marks
      /\ "receiver_video" \notin Waits
  BY DEF Chips, Errors, Settings, Values, Marks, Waits
<1>2. /\ <<5, 1, 5, 1, 0, 1, 0, 1, 0, 1, 0>> \in Seq(Nat)
      /\ <<1, 0, 1>> \in Seq(Nat)
  OBVIOUS
<1>3. /\ Visit("rcv", <<5, 1, 5, 1, 0, 1, 0, 1, 0, 1, 0>>) \in Seq(Tame("receiver_video"))
      /\ Visit("rcv", <<1, 0, 1>>) \in Seq(Tame("receiver_video"))
  BY <1>1, <1>2, Visits
<1>4. /\ Set("rcv", 0, "rout", "part") \in Tame("receiver_video")
      /\ Set("rcv", 0, "rout", "on") \in Tame("receiver_video")
  BY <1>1, SetOps
<1> QED BY <1>1, <1>3, <1>4, PlainOps, AskOps, MarkOps, PixelSamplesTame DEF ReceiverOutput

(* Every operation of ReceiverVideo (gc573_receiver_video) is one its       *)
(* program may contain.                                                     *)
LEMMA ReceiverVideoTame == ReceiverVideo \in Seq(Tame("receiver_video"))
<1>1. /\ "rcv" \in Chips
      /\ "receiver_video" \in PatientPrograms
      /\ "nolink" \in Errors /\ "again" \in Errors /\ "range" \in Errors
      /\ "preflight" \in Marks /\ "sampling" \in Marks /\ "format" \in Marks
      /\ "receiver_video" \notin Waits
  BY DEF Chips, PatientPrograms, Errors, Marks, Waits
<1> QED BY <1>1, PlainOps, AskOps, MarkOps, ReceiverStatusTame,
    ReceiverOutputTame DEF ReceiverVideo

(* Every operation of SplitterIdentify (gc573_splitter_identify_state) is   *)
(* one its program may contain.                                             *)
LEMMA SplitterIdentifyTame == ASSUME NEW p PROVE SplitterIdentify \in Seq(Tame(p))
<1>1. /\ "fpga" \in Chips /\ "spl" \in Chips
      /\ "unsup" \in Errors /\ "nodev" \in Errors
      /\ "gpio" \in Settings
      /\ {"receiver", "board"} \in SUBSET Values
  BY DEF Chips, Errors, Settings, Values
<1> QED BY <1>1, PlainOps, ZeroOps, NeedOps DEF SplitterIdentify

(* Every operation of SplitterStartup (gc573_splitter_startup) is one its   *)
(* program may contain.                                                     *)
LEMMA SplitterStartupTame == ASSUME NEW p, p \notin Waits PROVE SplitterStartup \in Seq(Tame(p))
<1>1. /\ "fpga" \in Chips /\ "spl" \in Chips /\ "srx" \in Chips /\ "tx" \in Chips
      /\ "nodev" \in Errors
      /\ "gpio" \in Settings
      /\ "board" \in Values /\ "receiver" \in Values
      /\ {"receiver", "board"} \in SUBSET Values /\ {"board"} \in SUBSET Values
  BY DEF Chips, Errors, Settings, Values
<1> QED BY <1>1, PlainOps, NeedOps, SkipOps, SetOps, SplitterIdentifyTame DEF SplitterStartup

(* Every operation of SplitterPrepare (gc573_splitter_prepare) is one its   *)
(* program may contain.                                                     *)
LEMMA SplitterPrepareTame == ASSUME NEW p, p \notin Waits PROVE SplitterPrepare \in Seq(Tame(p))
<1>1. /\ "spl" \in Chips /\ "fpga" \in Chips
      /\ "fail" \in Errors /\ "nodev" \in Errors /\ "timeout" \in Errors
      /\ "base" \in Settings /\ "gpio" \in Settings
      /\ "ready" \in Values
      /\ {"board"} \in SUBSET Values
  BY DEF Chips, Errors, Settings, Values
<1> QED BY <1>1, PlainOps, ZeroOps, AskOps, NeedOps, MaybeOps, SetOps,
    SplitterIdentifyTame DEF SplitterPrepare, Board

(* Every operation of SplitterClock (gc573_splitter_clock) is one its       *)
(* program may contain.                                                     *)
LEMMA SplitterClockTame == ASSUME NEW p PROVE SplitterClock \in Seq(Tame(p))
<1>1. /\ "spl" \in Chips /\ "fpga" \in Chips
      /\ "nodev" \in Errors /\ "unsup" \in Errors
      /\ "gpio" \in Settings /\ "base" \in Settings
      /\ {"board"} \in SUBSET Values /\ {"ready"} \in SUBSET Values
  BY DEF Chips, Errors, Settings, Values
<1> QED BY <1>1, PlainOps, LateOps, NeedOps, DueOp, SplitterIdentifyTame DEF SplitterClock,
    Board, Based

(* Every operation of SplitterTiming (gc573_splitter_timing) is one its     *)
(* program may contain.                                                     *)
LEMMA SplitterTimingTame == ASSUME NEW p PROVE SplitterTiming \in Seq(Tame(p))
<1>1. /\ "spl" \in Chips
      /\ "fail" \in Errors /\ "unsup" \in Errors
      /\ "base" \in Settings
      /\ {"ready"} \in SUBSET Values
  BY DEF Chips, Errors, Settings, Values
<1> QED BY <1>1, PlainOps, ZeroOps, NeedOps, SplitterClockTame DEF SplitterTiming, Based

(* Every operation of SplitterMap (gc573_splitter_map) is one its program   *)
(* may contain.                                                             *)
LEMMA SplitterMapTame == ASSUME NEW p, p \notin Waits PROVE SplitterMap \in Seq(Tame(p))
<1>1. /\ "spl" \in Chips /\ "srx" \in Chips
      /\ "unsup" \in Errors /\ "fail" \in Errors
      /\ "map" \in Settings /\ "base" \in Settings
      /\ "set" \in Values
      /\ {"ready"} \in SUBSET Values
  BY DEF Chips, Errors, Settings, Values
<1> QED BY <1>1, PlainOps, ZeroOps, NeedOps, SetOps, SplitterTimingTame DEF SplitterMap, Based

(* Every operation of SplitterCalibrate (gc573_splitter_calibrate) is one   *)
(* its program may contain.                                                 *)
LEMMA SplitterCalibrateTame == ASSUME NEW p, p \notin Waits PROVE SplitterCalibrate \in Seq(Tame(p))
<1>1. /\ "srx" \in Chips
      /\ "fail" \in Errors /\ "busy" \in Errors
      /\ "scal" \in Settings
      /\ "flagged" \in Values /\ "done" \in Values
      /\ {"clear", "done"} \in SUBSET Values
  BY DEF Chips, Errors, Settings, Values
<1>2. <<3, 0, 3>> \in Seq(Nat)
  OBVIOUS
<1>3. Visit("srx", <<3, 0, 3>>) \in Seq(Tame(p))
  BY <1>1, <1>2, Visits
<1> QED BY <1>1, <1>3, PlainOps, ZeroOps, LateOps, NeedOps, DueOp, PokeOps,
    SplitterMapTame DEF SplitterCalibrate

(* Every operation of SplitterSetup (gc573_splitter_setup) is one its       *)
(* program may contain.                                                     *)
LEMMA SplitterSetupTame == ASSUME NEW p, p \notin Waits PROVE SplitterSetup \in Seq(Tame(p))
<1>1. /\ "srx" \in Chips
      /\ "fail" \in Errors
      /\ "s26" \in Settings
      /\ "on" \in Values
  BY DEF Chips, Errors, Settings, Values
<1>2. <<3, 0, 3, 0>> \in Seq(Nat)
  OBVIOUS
<1>3. Visit("srx", <<3, 0, 3, 0>>) \in Seq(Tame(p))
  BY <1>1, <1>2, Visits
<1> QED BY <1>1, <1>3, PlainOps, ZeroOps, SetOps, SplitterCalibrateTame DEF SplitterSetup

(* Every operation of SplitterFinish (gc573_splitter_finish) is one its     *)
(* program may contain.                                                     *)
LEMMA SplitterFinishTame == ASSUME NEW p, p \notin Waits PROVE SplitterFinish \in Seq(Tame(p))
<1>1. /\ "srx" \in Chips /\ "spl" \in Chips
      /\ "fail" \in Errors
      /\ "sab" \in Settings /\ "s26" \in Settings /\ "s55" \in Settings
      /\ "other" \in Values /\ "on" \in Values /\ "off" \in Values
  BY DEF Chips, Errors, Settings, Values
<1>2. <<3>> \in Seq(Nat)
  OBVIOUS
<1>3. Visit("srx", <<3>>) \in Seq(Tame(p))
  BY <1>1, <1>2, Visits
<1> QED BY <1>1, <1>3, PlainOps, ZeroOps, MaybeOps, SetOps, SplitterSetupTame DEF SplitterFinish

(* Every operation of SplitterTxPrepare (gc573_splitter_tx_prepare) is one  *)
(* its program may contain.                                                 *)
LEMMA SplitterTxPrepareTame == ASSUME NEW p, p \notin Waits PROVE SplitterTxPrepare \in Seq(Tame(p))
<1>1. /\ "srx" \in Chips /\ "tx" \in Chips /\ "spl" \in Chips
      /\ "fail" \in Errors /\ "unsup" \in Errors
      /\ "sddc" \in Settings /\ "base" \in Settings /\ "map" \in Settings
      /\ "off" \in Values
      /\ {"ready"} \in SUBSET Values /\ {"set"} \in SUBSET Values
  BY DEF Chips, Errors, Settings, Values
<1> QED BY <1>1, PlainOps, ZeroOps, NeedOps, SetOps, SplitterFinishTame DEF SplitterTxPrepare,
    Based, Mapped

(* Every operation of Port (port_ops) is one its program may contain.       *)
LEMMA PortTame == ASSUME NEW p PROVE Port \in Seq(Tame(p))
<1>1. "spl" \in Chips /\ "tx" \in Chips
  BY DEF Chips
<1> QED BY <1>1, PlainOps, MaybeOps DEF Port

(* Every operation of SplitterTxPorts (gc573_splitter_tx_ports) is one its  *)
(* program may contain.                                                     *)
LEMMA SplitterTxPortsTame == ASSUME NEW p, p \notin Waits PROVE SplitterTxPorts \in Seq(Tame(p))
<1>1. /\ "tx" \in Chips /\ "spl" \in Chips /\ "srx" \in Chips
      /\ "fail" \in Errors /\ "unsup" \in Errors
      /\ "tx1" \in Settings /\ "tx2" \in Settings /\ "base" \in Settings /\ "map" \in Settings
      /\ "cold" \in Values
      /\ {"ready"} \in SUBSET Values /\ {"set"} \in SUBSET Values
  BY DEF Chips, Errors, Settings, Values
<1> QED BY <1>1, PlainOps, ZeroOps, NeedOps, SetOps, SplitterTxPrepareTame,
    PortTame DEF SplitterTxPorts, Based, Mapped

(* Every operation of SplitterLinkStatus (gc573_splitter_link_status) is    *)
(* one its program may contain.                                             *)
LEMMA SplitterLinkStatusTame == ASSUME NEW p PROVE SplitterLinkStatus \in Seq(Tame(p))
<1>1. /\ "srx" \in Chips /\ "spl" \in Chips /\ "fpga" \in Chips
      /\ "unsup" \in Errors /\ "fail" \in Errors /\ "nodev" \in Errors
      /\ "gpio" \in Settings /\ "base" \in Settings /\ "map" \in Settings
      /\ {"board"} \in SUBSET Values /\ {"ready"} \in SUBSET Values /\ {"set"} \in SUBSET Values
  BY DEF Chips, Errors, Settings, Values
<1> QED BY <1>1, PlainOps, ZeroOps, NeedOps, SplitterIdentifyTame DEF SplitterLinkStatus,
    Board, Based, Mapped

(* Every operation of RaiseHotplug (gc573_splitter_input_hpd) is one its    *)
(* program may contain.                                                     *)
LEMMA RaiseHotplugTame == ASSUME NEW p \in SourcePrograms PROVE RaiseHotplug \in Seq(Tame(p))
<1>1. /\ "srx" \in Chips
      /\ "sab" \in Settings /\ "s26" \in Settings /\ "s55" \in Settings
      /\ "ca" \in Values /\ "off" \in Values /\ "on" \in Values
      /\ p \notin Waits
  BY DEF Chips, Settings, Values, Waits, SourcePrograms
<1> QED BY <1>1, PlainOps, SetOps DEF RaiseHotplug

(* Every operation of SplitterInputHpd (gc573_splitter_input_hpd) is one    *)
(* its program may contain.                                                 *)
LEMMA SplitterInputHpdTame ==
  ASSUME NEW p \in SourcePrograms PROVE SplitterInputHpd \in Seq(Tame(p))
<1>1. /\ "srx" \in Chips /\ "tx" \in Chips /\ "spl" \in Chips
      /\ "unsup" \in Errors /\ "nopower" \in Errors /\ "nolink" \in Errors
      /\ "s26" \in Settings /\ "s55" \in Settings /\ "sddc" \in Settings
      /\ "off" \in Values
      /\ {"on"} \in SUBSET Values /\ {"off"} \in SUBSET Values
      /\ p \notin Waits
  BY DEF Chips, Errors, Settings, Values, Waits, SourcePrograms
<1>2. <<3>> \in Seq(Nat)
  OBVIOUS
<1>3. Visit("srx", <<3>>) \in Seq(Tame(p))
  BY <1>1, <1>2, Visits
<1> QED BY <1>1, <1>3, PlainOps, AskOps, NeedOps, SetOps, SplitterLinkStatusTame,
    RaiseHotplugTame DEF SplitterInputHpd

(* Every operation of SplitterEdidRead (gc573_splitter_edid_read) is one    *)
(* its program may contain.                                                 *)
LEMMA SplitterEdidReadTame == ASSUME NEW p PROVE SplitterEdidRead \in Seq(Tame(p))
<1>1. /\ "srx" \in Chips
      /\ "unsup" \in Errors
      /\ "sddc" \in Settings
      /\ {"off"} \in SUBSET Values
  BY DEF Chips, Errors, Settings, Values
<1> QED BY <1>1, PlainOps, NeedOps, SplitterLinkStatusTame DEF SplitterEdidRead

(* Every operation of SplitterEdidEnable (gc573_splitter_edid_enable) is    *)
(* one its program may contain.                                             *)
LEMMA SplitterEdidEnableTame ==
  ASSUME NEW p \in SourcePrograms PROVE SplitterEdidEnable \in Seq(Tame(p))
<1>1. /\ "srx" \in Chips
      /\ "unsup" \in Errors /\ "inval" \in Errors /\ "nolink" \in Errors
      /\ "sab" \in Settings /\ "s26" \in Settings /\ "s55" \in Settings /\ "sddc" \in Settings
      /\ "other" \in Values /\ "on" \in Values /\ "off" \in Values /\ "part" \in Values
      /\ {"off"} \in SUBSET Values /\ {"on"} \in SUBSET Values /\ {"ca"} \in SUBSET Values
      /\ p \notin Waits
  BY DEF Chips, Errors, Settings, Values, Waits, SourcePrograms
<1> QED BY <1>1, PlainOps, AskOps, LeaveOps, NeedOps, SkipOps, SetOps, RaiseHotplugTame,
    SplitterEdidReadTame DEF SplitterEdidEnable

(* Every operation of PortActivate (gc573_splitter_port_activate) is one    *)
(* its program may contain.                                                 *)
LEMMA PortActivateTame ==
  ASSUME NEW p, p \notin Waits, NEW port \in {"tx1", "tx2"}
  PROVE  PortActivate(port) \in Seq(Tame(p))
<1>1. /\ "tx" \in Chips /\ "srx" \in Chips /\ "spl" \in Chips
      /\ "unsup" \in Errors /\ "nolink" \in Errors
      /\ "s26" \in Settings /\ "s55" \in Settings /\ "sddc" \in Settings /\ "tx1" \in Settings
      /\ "tx2" \in Settings
      /\ "part" \in Values /\ "active" \in Values
      /\ {"off"} \in SUBSET Values /\ {"on"} \in SUBSET Values /\ {"cold"} \in SUBSET Values
  BY DEF Chips, Errors, Settings, Values
<1> QED BY <1>1, PlainOps, AskOps, NeedOps, SetOps, SplitterLinkStatusTame DEF PortActivate

(* Every operation of VideoValidate (video_validate) is one its program may *)
(* contain.                                                                 *)
LEMMA VideoValidateTame == ASSUME NEW p PROVE VideoValidate \in Seq(Tame(p))
<1>1. /\ "srx" \in Chips
      /\ "unsup" \in Errors
  BY DEF Chips, Errors
<1> QED BY <1>1, PlainOps, AskOps DEF VideoValidate

(* Every operation of SplitterVideoClock (video_clock) is one its program   *)
(* may contain.                                                             *)
LEMMA SplitterVideoClockTame ==
  ASSUME NEW p, p \notin Waits, NEW port \in {"tx1", "tx2"}
  PROVE  SplitterVideoClock(port) \in Seq(Tame(p))
<1>1. /\ "tx" \in Chips /\ "srx" \in Chips /\ "spl" \in Chips
      /\ "nolink" \in Errors /\ "unsup" \in Errors /\ "range" \in Errors
      /\ "sddc" \in Settings /\ "tx1" \in Settings /\ "tx2" \in Settings
      /\ "setup" \in Values /\ "on" \in Values
      /\ {"on"} \in SUBSET Values /\ Powered \in SUBSET Values
  BY DEF Chips, Errors, Settings, Values, Powered
<1> QED BY <1>1, PlainOps, AskOps, NeedOps, SetOps, SplitterLinkStatusTame,
    VideoValidateTame DEF SplitterVideoClock

(* Every operation of SplitterPassthrough (gc573_splitter_passthrough) is   *)
(* one its program may contain.                                             *)
LEMMA SplitterPassthroughTame == SplitterPassthrough \in Seq(Tame("passthrough"))
<1>1. /\ "tx" \in Chips
      /\ "unsup" \in Errors /\ "nolink" \in Errors
      /\ "tx2" \in Settings
      /\ {"reset", "cold", "part", "active", "setup"} \in SUBSET Values
      /\ {"cold", "active", "setup", "on"} \in SUBSET Values /\ Powered \in SUBSET Values
      /\ "passthrough" \notin Waits
  BY DEF Chips, Errors, Settings, Values, Waits, Powered
<1>2. PortActivate("tx2") \in Seq(Tame("passthrough"))
      /\ SplitterVideoClock("tx2") \in Seq(Tame("passthrough"))
  BY <1>1, PortActivateTame, SplitterVideoClockTame
<1>3. Len(PortActivate("tx2")) \in Nat
  BY <1>2
<1> QED BY <1>1, <1>2, <1>3, PlainOps, AskOps, LeaveOps, NeedOps, MaybeOps, SkipOps,
    SplitterLinkStatusTame DEF SplitterPassthrough
-----------------------------------------------------------------------------
(* The order of the programs.                                               *)

(* The programs that must not be repeated.                                  *)
Counted == DOMAIN Program \ (Waits \cup {"passthrough"})

(* The programs of the worker from phase n on.                              *)
Ahead(n) == {WorkerProgram[j] : j \in n - 5 .. 13} \cap Counted

AllDone == \A i \in 1 .. 6 : past[PHASES[i]] = "done"

HostTypes ==
  /\ DOMAIN regs = DOMAIN Registers
  /\ prog \in DOMAIN Program \cup {"none"} /\ pc \in Nat \ {0} /\ wrote \in BOOLEAN
  /\ script \in {"off", "step", "wait"} /\ module \in {"none", "capture"}
  /\ checkpoint \in [next : 0 .. 6, pending : BOOLEAN, here : BOOLEAN]
  /\ past \in [DOMAIN Program -> {"fresh", "done", "torn"}]

(* What a cold start-up GPIO and a running output of the receiver say.      *)
ChipInv ==
  /\ regs.gpio = "cold" => \A q \in Counted : past[q] = "fresh"
  /\ regs.rout # "off" => AllDone
  /\ prog = "receiver_id" /\ (pc # 1 \/ wrote) => regs.gpio # "cold"
  /\ prog = "receiver_id" /\ pc = 1 => result \in {"", "fail"}

(* What the checkpoint says.                                                *)
CheckpointInv ==
  /\ \A i \in 1 .. checkpoint.next : past[PHASES[i]] = "done"
  /\ checkpoint.here /\ (~checkpoint.pending \/ (module = "none" /\ prog # "none")) =>
       /\ \A i \in checkpoint.next + 1 .. 6 : past[PHASES[i]] = "fresh"
       /\ \A q \in Ahead(First) : past[q] = "fresh"
  /\ checkpoint.pending => checkpoint.here

(* The script and the programs of its modules.                              *)
ScriptInv ==
  /\ script = "step" => /\ module = "none" /\ prog = "none"
                        /\ checkpoint.here /\ ~checkpoint.pending
  /\ script = "wait" => module = "none" /\ prog # "none"
  /\ module = "none" /\ prog # "none" =>
       /\ checkpoint.pending /\ checkpoint.next < 6
       /\ prog = PHASES[checkpoint.next + 1]

(* The worker and its programs.                                             *)
WorkerInv ==
  module = "capture" =>
    /\ AllDone /\ script = "off" /\ (checkpoint.here => checkpoint.pending)
    /\ phase \in First .. Last
    /\ phase < Last /\ error = "" => \A q \in Ahead(phase) : past[q] = "fresh"
    /\ prog # "none" /\ phase < Last => prog = WorkerProgram[phase - First + 1] /\ error = ""
    /\ prog # "none" /\ phase = Last => prog = "passthrough"

StartInv == HostTypes /\ ChipInv /\ CheckpointInv /\ ScriptInv /\ WorkerInv

(* What the worker tries again has not written, or only what may be written *)
(* again; RetriesAreHarmless derives it from what the programs leave.       *)
RetryHarmless ==
  module = "capture" /\ result # "" /\ phase < Last /\ Retry => ~wrote \/ Repeatable

(* The names of the programs differ as far as the proof needs it.           *)
LEMMA ProgramNames ==
  /\ DOMAIN Program = {"receiver_id", "receiver_init", "receiver_calibrate", "splitter_startup",
                       "splitter_prepare", "splitter_tx_finish", "receiver_wait",
                       "receiver_input", "splitter_wait", "splitter_input_hpd", "edid_enable",
                       "activate", "video_clock", "receiver_video", "fpga_wait", "passthrough"}
  /\ PHASES[1] = "receiver_id"
  /\ \A i \in 1 .. 6 : PHASES[i] \in Counted /\ PHASES[i] # "receiver_video"
  /\ \A i, j \in 1 .. 6 : PHASES[i] = PHASES[j] => i = j
  /\ \A j \in 1 .. 13 : /\ WorkerProgram[j] \in DOMAIN Program
                        /\ \A i \in 1 .. 6 : PHASES[i] # WorkerProgram[j]
  /\ WorkerProgram[13] = "passthrough"
<1>1. DOMAIN Program = {"receiver_id", "receiver_init", "receiver_calibrate", "splitter_startup",
                        "splitter_prepare", "splitter_tx_finish", "receiver_wait",
                        "receiver_input", "splitter_wait", "splitter_input_hpd", "edid_enable",
                        "activate", "video_clock", "receiver_video", "fpga_wait", "passthrough"}
  BY DEF Program
<1>2. /\ PHASES[1] = "receiver_id" /\ PHASES[2] = "receiver_init"
      /\ PHASES[3] = "receiver_calibrate" /\ PHASES[4] = "splitter_startup"
      /\ PHASES[5] = "splitter_prepare" /\ PHASES[6] = "splitter_tx_finish"
  BY DEF PHASES
<1>3. \A i \in 1 .. 6 : i \in {1, 2, 3, 4, 5, 6}
  OBVIOUS
<1>4. \A i \in 1 .. 6 : PHASES[i] \in Counted /\ PHASES[i] # "receiver_video"
  BY <1>1, <1>2, <1>3 DEF Counted, Waits
<1>5. \A i, j \in 1 .. 6 : PHASES[i] = PHASES[j] => i = j
  BY <1>2, <1>3
<1>6. \A j \in 1 .. 13 :
        WorkerProgram[j] \in {"receiver_wait", "receiver_input", "splitter_wait",
          "splitter_input_hpd", "edid_enable", "activate", "video_clock", "receiver_video",
          "fpga_wait", "passthrough"}
  BY DEF WorkerProgram
<1>7. \A j \in 1 .. 13 : /\ WorkerProgram[j] \in DOMAIN Program
                         /\ \A i \in 1 .. 6 : PHASES[i] # WorkerProgram[j]
  BY <1>1, <1>2, <1>3, <1>6
<1>8. WorkerProgram[13] = "passthrough"
  BY DEF WorkerProgram
<1> QED BY <1>1, <1>2, <1>4, <1>5, <1>7, <1>8

(* A phase's program, if it counts, is not among those of later phases.     *)
LEMMA PhasesDiffer ==
  /\ \A q \in Ahead(First), i \in 1 .. 6 : q # PHASES[i]
  /\ \A n \in First .. Last : Ahead(n) \subseteq Counted
  /\ \A n \in First .. Last - 1 :
       /\ Ahead(n + 1) \subseteq Ahead(n) /\ WorkerProgram[n - First + 1] \notin Ahead(n + 1)
       /\ WorkerProgram[n - First + 1] \in Counted => WorkerProgram[n - First + 1] \in Ahead(n)
<1> USE DEF First, Last
<1>1. \A q \in Ahead(First), i \in 1 .. 6 : q # PHASES[i]
  BY ProgramNames DEF Ahead
<1>2. \A n \in First .. Last : Ahead(n) \subseteq Counted
  BY DEF Ahead
<1>3. \A n \in First .. Last - 1 :
        /\ Ahead(n + 1) \subseteq Ahead(n)
        /\ WorkerProgram[n - First + 1] \in Counted => WorkerProgram[n - First + 1] \in Ahead(n)
  BY DEF Ahead
<1>4. ASSUME NEW j \in 1 .. 13, NEW k \in 1 .. 13, j < k, WorkerProgram[j] = WorkerProgram[k]
      PROVE  WorkerProgram[j] \notin Counted
  <2>1. /\ WorkerProgram[1] = "receiver_wait" /\ WorkerProgram[2] = "receiver_input"
        /\ WorkerProgram[3] = "splitter_wait" /\ WorkerProgram[4] = "splitter_input_hpd"
        /\ WorkerProgram[5] = "edid_enable" /\ WorkerProgram[6] = "splitter_wait"
        /\ WorkerProgram[7] = "activate" /\ WorkerProgram[8] = "splitter_wait"
        /\ WorkerProgram[9] = "video_clock" /\ WorkerProgram[10] = "receiver_wait"
        /\ WorkerProgram[11] = "receiver_video" /\ WorkerProgram[12] = "fpga_wait"
        /\ WorkerProgram[13] = "passthrough"
    BY DEF WorkerProgram
  <2>2. j \in {1, 2, 3, 4, 5, 6, 7, 8, 9, 10, 11, 12, 13}
    OBVIOUS
  <2>3. k \in {1, 2, 3, 4, 5, 6, 7, 8, 9, 10, 11, 12, 13}
    OBVIOUS
  <2>4. WorkerProgram[j] \in Waits
    BY <1>4, <2>1, <2>2, <2>3 DEF Waits
  <2> QED BY <2>4 DEF Counted
<1>5. \A n \in First .. Last - 1 : WorkerProgram[n - First + 1] \notin Ahead(n + 1)
  BY <1>4 DEF Ahead
<1> QED BY <1>1, <1>2, <1>3, <1>5

(* The programs by their names.                                             *)
LEMMA ProgramIs ==
  /\ Program["receiver_id"] = ReceiverIdentify /\ Program["receiver_init"] = ReceiverInit
  /\ Program["receiver_calibrate"] = ReceiverCalibrate
  /\ Program["splitter_startup"] = SplitterStartup
  /\ Program["splitter_prepare"] = SplitterPrepare
  /\ Program["splitter_tx_finish"] = SplitterTxPorts
  /\ Program["receiver_wait"] = ReceiverWait /\ Program["receiver_input"] = ReceiverInput
  /\ Program["splitter_wait"] = SplitterWait
  /\ Program["splitter_input_hpd"] = SplitterInputHpd
  /\ Program["edid_enable"] = SplitterEdidEnable /\ Program["activate"] = Activate
  /\ Program["video_clock"] = SplitterVideoClock("tx1")
  /\ Program["receiver_video"] = ReceiverVideo
  /\ Program["fpga_wait"] = <<Ask("fpga", 0, "again")>>
  /\ Program["passthrough"] = SplitterPassthrough
  BY DEF Program

(* What an operation of each program may be.                                *)
LEMMA Programs ==
  ASSUME NEW p \in DOMAIN Program PROVE Program[p] \in Seq(Tame(p))
<1>1. p \in PatientPrograms =>
        /\ ReceiverWait \in Seq(Tame(p)) /\ SplitterWait \in Seq(Tame(p))
        /\ <<Ask("fpga", 0, "again")>> \in Seq(Tame(p))
  <2>1. "fpga" \in Chips /\ "rcv" \in Chips /\ "srx" \in Chips /\ "again" \in Errors
    BY DEF Chips, Errors
  <2> QED BY <2>1, AskOps, ReceiverStatusTame, SplitterLinkStatusTame DEF ReceiverWait,
      SplitterWait
<1>2. ASSUME p \in PatientPrograms \ Waits PROVE Activate \in Seq(Tame(p))
  <2>1. "tx" \in Chips /\ "tx1" \in Settings /\ Powered \in SUBSET Values
    BY DEF Chips, Settings, Values, Powered
  <2>2. PortActivate("tx1") \in Seq(Tame(p))
    BY <1>2, PortActivateTame
  <2>3. Len(PortActivate("tx1")) \in Nat
    BY <2>2
  <2>4. Skip("tx", "tx1", Powered, Len(PortActivate("tx1"))) \in Tame(p)
    BY <2>1, <2>3, SkipOps
  <2> QED BY <1>1, <1>2, <2>2, <2>4 DEF Activate
<1>3. p \notin Waits => SplitterVideoClock("tx1") \in Seq(Tame(p))
  BY SplitterVideoClockTame
<1>4. /\ p \in {"receiver_calibrate", "receiver_wait", "receiver_input", "splitter_wait",
               "activate", "fpga_wait", "receiver_video"} => p \in PatientPrograms
      /\ p \in {"splitter_input_hpd", "edid_enable"} => p \in SourcePrograms
  BY DEF PatientPrograms, SourcePrograms, Waits
<1>5. p \in Waits => p \in {"receiver_wait", "splitter_wait", "fpga_wait"}
  BY DEF Waits
<1>6. CASE p \in {"receiver_wait", "splitter_wait", "activate", "fpga_wait"}
  BY <1>1, <1>2, <1>4, <1>6, <1>5, ProgramIs
<1>7. CASE p \in {"receiver_calibrate", "splitter_input_hpd", "edid_enable"}
  BY <1>4, <1>5, <1>7, ProgramIs, ReceiverCalibrateTame, SplitterInputHpdTame,
    SplitterEdidEnableTame
<1>8. CASE p \in {"receiver_id", "receiver_init", "receiver_input", "receiver_video", "passthrough"}
  BY <1>5, <1>8, ProgramIs, ReceiverIdentifyTame, ReceiverInitTame, ReceiverInputTame,
    ReceiverVideoTame, SplitterPassthroughTame
<1>9. CASE p \in {"splitter_startup", "splitter_prepare", "splitter_tx_finish", "video_clock"}
  BY <1>3, <1>5, <1>9, ProgramIs, SplitterStartupTame, SplitterPrepareTame, SplitterTxPortsTame
<1> QED BY <1>6, <1>7, <1>8, <1>9, ProgramNames

(* The first program begins with a write of the start-up GPIO.              *)
LEMMA FirstOperation ==
  /\ Len(Program["receiver_id"]) \in Nat /\ Len(Program["receiver_id"]) > 0
  /\ Program["receiver_id"][1] = Set("fpga", 0, "gpio", "part")
  BY ProgramIs DEF ReceiverIdentify

-----------------------------------------------------------------------------
(* A step of a program.                                                     *)

(* What a step of a program does to what the invariant speaks of.           *)
Stepped ==
  /\ UNCHANGED <<prog, host, past>>
  /\ DOMAIN regs' = DOMAIN regs /\ pc' \in Nat \ {0} /\ wrote' \in BOOLEAN
  /\ regs'.gpio = "cold" => regs.gpio = "cold"
  /\ regs'.rout # "off" => regs.rout # "off" \/ prog = "receiver_video"
  /\ prog = "receiver_id" /\ (pc' # 1 \/ wrote') => regs'.gpio # "cold"
  /\ prog = "receiver_id" /\ pc' = 1 => result' \in {"", "fail"}

(* The operation that runs is one of its program.                           *)
LEMMA ThisOperation ==
  ASSUME HostTypes, Running
  PROVE  /\ This \in Tame(prog) /\ This \in Careful /\ This \in Ops
         /\ prog = "receiver_id" /\ pc = 1 => This = Set("fpga", 0, "gpio", "part")
<1>1. prog \in DOMAIN Program /\ pc \in 1 .. Len(Program[prog])
  <2>1. prog \in DOMAIN Program
    BY DEF HostTypes, Running
  <2>2. PICK n \in Nat : n = Len(Program[prog])
    BY <2>1, Programs
  <2>3. pc <= n
    BY <2>2, Zenon DEF Running
  <2>4. pc \in 1 .. n
    BY <2>3 DEF HostTypes
  <2> QED BY <2>1, <2>2, <2>4, Zenon
<1>2. This \in Tame(prog)
  BY <1>1, Programs DEF This
<1>3. This \in Careful /\ This \in Ops
  BY <1>2 DEF Tame, Careful
<1> QED BY <1>1, <1>2, <1>3, FirstOperation DEF This

(* A reset takes neither the start-up GPIO back nor starts the output.      *)
LEMMA ResetKeeps ==
  /\ \A c \in Chips : "gpio" \notin Owned(c)
  /\ Registers.rout = "off" /\ "gpio" \in DOMAIN Registers /\ "rout" \in DOMAIN Registers
  BY DEF Owned, Chips, Registers

(* What a write does to the two settings.                                   *)
LEMMA EffectOnSettings ==
  ASSUME HostTypes, Running, This.kind \in Writes \ {"put"}, Effect
  PROVE  /\ DOMAIN regs' = DOMAIN regs
         /\ regs'.gpio = "cold" => regs.gpio = "cold"
         /\ regs'.rout # "off" => regs.rout # "off" \/ prog = "receiver_video"
         /\ prog = "receiver_id" /\ pc = 1 => regs'.gpio # "cold"
<1> DEFINE O == This
<1>1. /\ O \in Careful /\ O \in Tame(prog)
      /\ prog = "receiver_id" /\ pc = 1 => O = Set("fpga", 0, "gpio", "part")
  BY ThisOperation
<1>2. DOMAIN regs = DOMAIN Registers
  BY DEF HostTypes
<1>3. CASE O.kind = "reset"
  <2>1. regs' = [f \in DOMAIN regs |-> IF f \in Owned(O.chip) THEN Registers[f] ELSE regs[f]]
    BY <1>3 DEF Effect
  <2>2. O.chip \in Chips
    BY <1>1 DEF Careful, Ops
  <2>3. ~(prog = "receiver_id" /\ pc = 1)
    BY <1>1, <1>3 DEF Set, Op
  <2> QED BY <1>2, <2>1, <2>2, <2>3, ResetKeeps
<1>4. CASE O.kind # "reset"
  <2>1. PICK v \in O.values : regs' = [regs EXCEPT ![O.name] = v]
    BY <1>4 DEF Effect
  <2>2. O.name = "gpio" => v # "cold"
    BY <1>1 DEF Careful
  <2>3. O.name = "rout" => prog = "receiver_video"
    BY <1>1 DEF Tame
  <2>4. prog = "receiver_id" /\ pc = 1 => O.name = "gpio"
    BY <1>1 DEF Set, Op
  <2> HIDE DEF O
  <2> QED BY <1>2, <2>1, <2>2, <2>3, <2>4, ResetKeeps
<1> QED BY <1>3, <1>4

(* A write.                                                                 *)
LEMMA WriteSteps == HostTypes /\ ChipInv /\ ExecWrite => Stepped
<1> SUFFICES ASSUME HostTypes, ChipInv, ExecWrite PROVE Stepped
  OBVIOUS
<1>1. /\ Running /\ This.kind \in Writes /\ wrote' = TRUE /\ pc' = pc + 1 /\ result' = result
      /\ UNCHANGED <<prog, host, past>>
      /\ IF This.kind = "put" THEN UNCHANGED chips ELSE Effect
  BY DEF ExecWrite, Goto
<1>2. pc \in Nat \ {0} /\ pc' \in Nat \ {0} /\ pc' # 1 /\ wrote' \in BOOLEAN
  BY <1>1 DEF HostTypes
<1>3. CASE This.kind = "put"
  <2>1. ~(prog = "receiver_id" /\ pc = 1)
    BY <1>1, <1>3, ThisOperation DEF Set, Op
  <2> QED BY <1>1, <1>2, <1>3, <2>1 DEF ChipInv, chips, Stepped
<1>4. CASE This.kind # "put"
  <2>1. This.kind \in Writes \ {"put"} /\ Effect
    BY <1>1, <1>4
  <2> QED BY <1>1, <1>2, <2>1, EffectOnSettings DEF ChipInv, Stepped
<1> QED BY <1>3, <1>4

(* The selection of a bank.                                                 *)
LEMMA BankSteps == HostTypes /\ ChipInv /\ ExecBank => Stepped
<1> SUFFICES ASSUME HostTypes, ChipInv, ExecBank PROVE Stepped
  OBVIOUS
<1>1. /\ Running /\ This.kind = "bank" /\ wrote' = TRUE /\ pc' = pc + 1 /\ regs' = regs
      /\ UNCHANGED <<prog, host, past>>
  BY DEF ExecBank, Goto
<1>2. ~(prog = "receiver_id" /\ pc = 1)
  BY <1>1, ThisOperation DEF Set, Op
<1>3. pc' \in Nat \ {0} /\ pc' # 1 /\ wrote' \in BOOLEAN
  BY <1>1 DEF HostTypes
<1> QED BY <1>1, <1>2, <1>3 DEF ChipInv, Stepped

(* A failing access: a write of the card's own GPIO has its effect.         *)
LEMMA FailSteps == HostTypes /\ ChipInv /\ ExecFail => Stepped
<1> SUFFICES ASSUME HostTypes, ChipInv, ExecFail PROVE Stepped
  OBVIOUS
<1>1. /\ Running /\ result' = "fail" /\ pc' = pc
      /\ UNCHANGED <<prog, host, past>>
  BY DEF ExecFail, Return
<1>2. pc \in Nat \ {0} /\ wrote \in BOOLEAN
  BY DEF HostTypes
<1>3. CASE This.chip # "fpga" /\ UNCHANGED <<chips, wrote, known>>
  BY <1>1, <1>2, <1>3 DEF ChipInv, chips, Stepped
<1>4. CASE This.kind \in Writes \ {"put"} /\ Effect /\ wrote' = TRUE
  BY <1>1, <1>2, <1>4, EffectOnSettings DEF ChipInv, Stepped
<1>5. CASE wrote' = TRUE /\ regs' = regs /\ (This.chip # "fpga" \/ This.kind = "bank")
  <2>1. ~(prog = "receiver_id" /\ pc = 1)
    BY <1>1, <1>5, ThisOperation DEF Set, Op
  <2> QED BY <1>1, <1>2, <1>5, <2>1 DEF ChipInv, Stepped
<1>6. \/ This.chip # "fpga" /\ UNCHANGED <<chips, wrote, known>>
      \/ This.kind \in Writes \ {"put"} /\ Effect /\ wrote' = TRUE
      \/ wrote' = TRUE /\ regs' = regs /\ (This.chip # "fpga" \/ This.kind = "bank")
  BY DEF ExecFail, chips
<1> QED BY <1>3, <1>4, <1>5, <1>6

(* Reads, branches and the end leave the chips alone, and the first         *)
(* operation of all is none of them.                                        *)
LEMMA OtherSteps == HostTypes /\ ChipInv /\ (ExecRead \/ ExecBranch \/ ExecEnd) => Stepped
<1> SUFFICES ASSUME HostTypes, ChipInv, ExecRead \/ ExecBranch \/ ExecEnd PROVE Stepped
  OBVIOUS
<1>1. regs' = regs /\ wrote' = wrote /\ UNCHANGED <<prog, host, past>>
  BY DEF ExecRead, ExecBranch, ExecEnd, chips
<1>2. ~(prog = "receiver_id" /\ pc = 1)
  <2>1. CASE ExecEnd
    <3>1. PICK n \in Nat : n = Len(Program["receiver_id"]) /\ n > 0
      BY FirstOperation
    <3>2. prog = "receiver_id" => pc > n
      BY <2>1, <3>1, Zenon DEF ExecEnd
    <3> QED BY <3>1, <3>2
  <2>2. CASE ExecRead
    BY <2>2, ThisOperation DEF ExecRead, Set, Op
  <2>3. CASE ExecBranch
    <3>1. Running /\ This.kind \in {"maybe", "skip", "due", "leave", "mark"}
      BY <2>3 DEF ExecBranch
    <3> QED BY <3>1, ThisOperation DEF Set, Op
  <2> QED BY <2>1, <2>2, <2>3
<1>3. pc' \in Nat \ {0} /\ (pc # 1 => pc' # 1)
  <2>1. CASE ExecEnd
    BY <2>1 DEF ExecEnd, Return, HostTypes
  <2>2. ASSUME Running PROVE This.n \in Nat
    BY <2>2, ThisOperation DEF Careful, Ops
  <2>3. CASE ExecRead
    BY <2>2, <2>3 DEF ExecRead, Return, Goto, HostTypes
  <2>4. CASE ExecBranch
    <3>1. This.n \in Nat /\ pc \in Nat \ {0}
      BY <2>2, <2>4 DEF ExecBranch, HostTypes
    <3>2. \/ pc' = pc
          \/ \E n \in {0, This.n} : pc' = pc + 1 + n
          \/ pc' = pc + 1
      BY <2>4, <3>1 DEF ExecBranch, Return, Goto
    <3> QED BY <3>1, <3>2
  <2> QED BY <2>1, <2>3, <2>4
<1> QED BY <1>1, <1>2, <1>3 DEF HostTypes, ChipInv, Stepped

-----------------------------------------------------------------------------
(* The invariant.                                                           *)

(* A program begins with its first operation.                               *)
LEMMA One == 1 \in Nat \ {0}
  OBVIOUS

(* A cold card has run nothing, so nobody is past the first program.        *)
LEMMA ColdIsFresh ==
  ASSUME StartInv, regs.gpio = "cold"
  PROVE  /\ ~AllDone /\ checkpoint.next = 0 /\ module = "none"
         /\ prog # "none" => prog = "receiver_id" /\ pc = 1 /\ ~wrote /\ result # "ok"
<1>1. past["receiver_id"] = "fresh"
  <2>1. PHASES[1] \in Counted /\ PHASES[1] = "receiver_id"
    BY ProgramNames
  <2> QED BY <2>1 DEF StartInv, ChipInv
<1>2. past[PHASES[1]] # "done"
  BY <1>1, ProgramNames
<1>3. ~AllDone /\ module = "none"
  <2>1. 1 \in 1 .. 6
    OBVIOUS
  <2>2. ~AllDone
    BY <1>2, <2>1 DEF AllDone
  <2>3. module = "none" \/ module = "capture"
    BY DEF StartInv, HostTypes
  <2> QED BY <2>2, <2>3 DEF StartInv, WorkerInv
<1>4. checkpoint.next = 0
  BY <1>2 DEF StartInv, CheckpointInv, HostTypes
<1>5. prog # "none" => prog = "receiver_id"
  BY <1>3, <1>4, ProgramNames DEF StartInv, ScriptInv
<1> QED BY <1>3, <1>4, <1>5 DEF StartInv, ChipInv, HostTypes

(* A start that is not over has no program of its own among the finished.   *)
LEMMA RunsUnfinished ==
  ASSUME StartInv, prog # "none", AllDone
  PROVE  module = "capture" /\ \A i \in 1 .. 6 : PHASES[i] # prog
<1>1. module = "capture"
  <2>1. CASE module = "none"
    <3>1. checkpoint.next \in 0 .. 5 /\ checkpoint.here
      BY <2>1 DEF StartInv, ScriptInv, CheckpointInv, HostTypes
    <3>2. past[PHASES[checkpoint.next + 1]] = "fresh"
      BY <2>1, <3>1 DEF StartInv, CheckpointInv
    <3>3. checkpoint.next + 1 \in 1 .. 6
      BY <3>1
    <3>4. past[PHASES[checkpoint.next + 1]] = "done"
      BY <3>3 DEF AllDone
    <3> QED BY <3>2, <3>4
  <2> QED BY <2>1 DEF StartInv, HostTypes
<1>2. CASE phase < Last
  <2>1. prog = WorkerProgram[phase - First + 1]
    BY <1>1, <1>2 DEF StartInv, WorkerInv
  <2>2. phase \in First .. Last
    BY <1>1 DEF StartInv, WorkerInv
  <2>3. phase - First + 1 \in 1 .. 13
    BY <1>2, <2>2 DEF First, Last
  <2> QED BY <1>1, <2>1, <2>3, ProgramNames
<1>3. CASE phase = Last
  <2>1. prog = WorkerProgram[13]
    BY <1>1, <1>3, ProgramNames DEF StartInv, WorkerInv
  <2>2. 13 \in 1 .. 13
    OBVIOUS
  <2> QED BY <1>1, <2>1, <2>2, ProgramNames
<1>4. phase < Last \/ phase = Last
  <2>1. phase \in First .. Last
    BY <1>1 DEF StartInv, WorkerInv
  <2> QED BY <2>1 DEF First, Last
<1> QED BY <1>2, <1>3, <1>4

(* What becomes of a program is noted for it alone: not for a cold card,    *)
(* and nothing that was done is undone.                                     *)
LEMMA Remembered ==
  ASSUME StartInv, prog # "none", NEW r, r = "ok" => result = "ok", Remember(r)
  PROVE  /\ past' \in [DOMAIN Program -> {"fresh", "done", "torn"}]
         /\ \A q \in DOMAIN Program : q # prog => past'[q] = past[q]
         /\ past'[prog] = IF r = "ok" THEN "done" ELSE IF wrote THEN "torn" ELSE past[prog]
         /\ regs.gpio = "cold" => \A q \in Counted : past'[q] = "fresh"
         /\ AllDone => AllDone'
<1>1. past \in [DOMAIN Program -> {"fresh", "done", "torn"}] /\ prog \in DOMAIN Program
  BY DEF StartInv, HostTypes
<1>2. /\ past' \in [DOMAIN Program -> {"fresh", "done", "torn"}]
      /\ \A q \in DOMAIN Program : q # prog => past'[q] = past[q]
      /\ past'[prog] = IF r = "ok" THEN "done" ELSE IF wrote THEN "torn" ELSE past[prog]
  BY <1>1 DEF Remember
<1>3. ASSUME regs.gpio = "cold", NEW q \in Counted PROVE past'[q] = "fresh"
  <2>1. past[q] = "fresh" /\ q \in DOMAIN Program
    BY <1>3 DEF StartInv, ChipInv, Counted
  <2>2. ~wrote /\ r # "ok"
    BY <1>3, ColdIsFresh
  <2> QED BY <1>2, <2>1, <2>2
<1>4. ASSUME AllDone PROVE AllDone'
  <2>1. \A i \in 1 .. 6 : PHASES[i] # prog
    BY <1>4, RunsUnfinished
  <2>2. \A i \in 1 .. 6 : PHASES[i] \in DOMAIN Program
    BY ProgramNames DEF Counted
  <2>3. \A i \in 1 .. 6 : past'[PHASES[i]] = "done"
    BY <1>2, <1>4, <2>1, <2>2 DEF AllDone
  <2> QED BY <2>3 DEF AllDone
<1> QED BY <1>2, <1>3, <1>4

(* The checkpoints that are written: none, that of a step, of its success.  *)
LEMMA Checkpoints ==
  /\ NoFile \in [next : 0 .. 6, pending : BOOLEAN, here : BOOLEAN]
  /\ \A n \in 0 .. 6 :
       /\ [next |-> n, pending |-> FALSE, here |-> TRUE]
            \in [next : 0 .. 6, pending : BOOLEAN, here : BOOLEAN]
       /\ [next |-> n, pending |-> TRUE, here |-> TRUE]
            \in [next : 0 .. 6, pending : BOOLEAN, here : BOOLEAN]
<1>1. \A n \in 0 .. 6, p, h \in BOOLEAN :
        [next |-> n, pending |-> p, here |-> h]
          \in [next : 0 .. 6, pending : BOOLEAN, here : BOOLEAN]
  OBVIOUS
<1>2. TRUE \in BOOLEAN /\ FALSE \in BOOLEAN /\ 0 \in 0 .. 6
  <2>1. 0 \in 0 .. 6
    OBVIOUS
  <2> QED BY <2>1, Zenon
<1> QED BY <1>1, <1>2, Zenon DEF NoFile

(* Initially nothing has run.                                               *)
LEMMA InitEstablishes == Init => StartInv
<1> SUFFICES ASSUME Init PROVE StartInv
  OBVIOUS
<1> USE DEF Init
<1>1. HostTypes
  <2>1. checkpoint \in [next : 0 .. 6, pending : BOOLEAN, here : BOOLEAN]
    BY Checkpoints
  <2>2. wrote \in BOOLEAN
    BY Zenon
  <2>3. past \in [DOMAIN Program -> {"fresh", "done", "torn"}]
    OBVIOUS
  <2>4. /\ pc \in Nat \ {0} /\ DOMAIN regs = DOMAIN Registers
        /\ prog = "none" /\ script = "off" /\ module = "none"
    BY One, Zenon
  <2> HIDE DEF Init
  <2> QED BY <2>1, <2>2, <2>3, <2>4 DEF HostTypes
<1>2. ChipInv
  <2>1. regs.rout = "off"
    BY ResetKeeps
  <2>2. prog # "receiver_id"
    OBVIOUS
  <2>3. \A q \in Counted : past[q] = "fresh"
    BY DEF Counted
  <2> QED BY <2>1, <2>2, <2>3 DEF ChipInv
<1>3. CheckpointInv
  <2>1. checkpoint.next = 0 /\ ~checkpoint.here /\ ~checkpoint.pending
    BY DEF NoFile
  <2>2. \A i \in 1 .. checkpoint.next : past[PHASES[i]] = "done"
    <3> HIDE DEF Init
    <3>1. 1 .. checkpoint.next = {}
      BY <2>1
    <3> QED BY <3>1
  <2> QED BY <2>1, <2>2, Zenon DEF CheckpointInv
<1>4. ScriptInv /\ WorkerInv
  BY DEF ScriptInv, WorkerInv
<1> QED BY <1>1, <1>2, <1>3, <1>4 DEF StartInv

(* A step of a program keeps the invariant.                                 *)
LEMMA ExecKeeps == StartInv /\ Exec => StartInv'
<1> SUFFICES ASSUME StartInv, Exec PROVE StartInv'
  OBVIOUS
<1>1. Stepped
  BY WriteSteps, BankSteps, FailSteps, OtherSteps DEF Exec, StartInv
<1>2. /\ prog' = prog /\ past' = past /\ script' = script /\ checkpoint' = checkpoint
      /\ module' = module /\ phase' = phase /\ error' = error
  BY <1>1 DEF Stepped, host
<1>3. HostTypes'
  BY <1>1, <1>2 DEF Stepped, StartInv, HostTypes
<1>4. AllDone' = AllDone
  BY <1>2 DEF AllDone
<1>5. prog = "receiver_video" => AllDone
  <2> SUFFICES ASSUME prog = "receiver_video" PROVE AllDone
    OBVIOUS
  <2>1. CASE module = "none"
    <3>1. checkpoint.next + 1 \in 1 .. 6 /\ prog = PHASES[checkpoint.next + 1]
      BY <2>1 DEF StartInv, ScriptInv, HostTypes
    <3> QED BY <3>1, ProgramNames
  <2>2. CASE module = "capture"
    BY <2>2 DEF StartInv, WorkerInv
  <2> QED BY <2>1, <2>2 DEF StartInv, HostTypes
<1>6. ChipInv'
  BY <1>1, <1>2, <1>4, <1>5 DEF Stepped, StartInv, ChipInv
<1>7. CheckpointInv' /\ ScriptInv' /\ WorkerInv'
  BY <1>2, <1>4 DEF StartInv, CheckpointInv, ScriptInv, WorkerInv
<1> QED BY <1>3, <1>6, <1>7 DEF StartInv

-----------------------------------------------------------------------------
(* The script.                                                              *)

(* A file that is not there counts no step.                                 *)
LEMMA NothingCounted ==
  ASSUME checkpoint' = NoFile
  PROVE  CheckpointInv' /\ ~checkpoint'.pending /\ ~checkpoint'.here
<1>1. checkpoint'.next = 0 /\ ~checkpoint'.pending /\ ~checkpoint'.here
  BY DEF NoFile
<1>2. \A i \in 1 .. checkpoint'.next : FALSE
  BY <1>1
<1> QED BY <1>1, <1>2, Zenon DEF CheckpointInv

(* The module that is pending, if the script waits for it, is the next one. *)
LEMMA PendingStep ==
  ASSUME StartInv, module = "none", prog # "none"
  PROVE  /\ checkpoint.pending /\ checkpoint.here
         /\ checkpoint \in [next : 0 .. 6, pending : BOOLEAN, here : BOOLEAN]
         /\ checkpoint.next \in 0 .. 5 /\ checkpoint.next + 1 \in 1 .. 6
         /\ prog = PHASES[checkpoint.next + 1]
  BY DEF StartInv, ScriptInv, CheckpointInv, HostTypes

(* The phases before the last.                                              *)
LEMMA EarlyPhase ==
  ASSUME NEW n \in First .. Last, n # Last
  PROVE  /\ n \in First .. Last - 1 /\ n < Last /\ n + 1 \in First .. Last
         /\ n - First + 1 \in 1 .. 13
  BY DEF First, Last

(* A run of the script begins with a cold card, or goes on where the last   *)
(* one has stopped between two steps.                                       *)
LEMMA ScriptStartKeeps == StartInv /\ ScriptStart => StartInv'
<1> SUFFICES ASSUME StartInv, ScriptStart PROVE StartInv'
  OBVIOUS
<1>1. /\ script' = "step" /\ module = "none" /\ prog = "none"
      /\ UNCHANGED <<chips, exec, module, phase, error, past>>
  BY DEF ScriptStart
<1>2. /\ regs' = regs /\ prog' = prog /\ pc' = pc /\ wrote' = wrote /\ result' = result
      /\ module' = module /\ phase' = phase /\ error' = error /\ past' = past
  BY <1>1 DEF chips, exec
<1>3. /\ checkpoint' \in [next : 0 .. 6, pending : BOOLEAN, here : BOOLEAN]
      /\ checkpoint'.here /\ ~checkpoint'.pending
      /\ \A i \in 1 .. checkpoint'.next : past[PHASES[i]] = "done"
      /\ \A i \in checkpoint'.next + 1 .. 6 : past[PHASES[i]] = "fresh"
      /\ \A q \in Ahead(First) : past[q] = "fresh"
  <2>1. CASE regs.gpio = "cold"
    <3>1. checkpoint' = [next |-> 0, pending |-> FALSE, here |-> TRUE]
      BY <2>1 DEF ScriptStart
    <3>2. checkpoint'.next = 0 /\ checkpoint'.here /\ ~checkpoint'.pending
      BY <3>1
    <3>3. \A q \in Counted : past[q] = "fresh"
      BY <2>1 DEF StartInv, ChipInv
    <3>4. checkpoint' \in [next : 0 .. 6, pending : BOOLEAN, here : BOOLEAN]
      BY <3>1, Checkpoints
    <3>5. \A i \in 1 .. 6 : past[PHASES[i]] = "fresh"
      BY <3>3, ProgramNames
    <3>6. \A q \in Ahead(First) : past[q] = "fresh"
      BY <3>3 DEF Ahead
    <3> QED BY <3>2, <3>4, <3>5, <3>6
  <2>2. CASE regs.gpio # "cold"
    BY <2>2 DEF ScriptStart, StartInv, HostTypes, CheckpointInv
  <2> QED BY <2>1, <2>2
<1>4. HostTypes'
  BY <1>1, <1>2, <1>3 DEF StartInv, HostTypes
<1>5. ChipInv'
  BY <1>2 DEF StartInv, ChipInv, AllDone
<1>6. CheckpointInv' /\ ScriptInv' /\ WorkerInv'
  BY <1>1, <1>2, <1>3 DEF CheckpointInv, ScriptInv, WorkerInv
<1> QED BY <1>4, <1>5, <1>6 DEF StartInv

(* A step is written as pending before its program begins.                  *)
LEMMA StepBeginKeeps == StartInv /\ StepBegin => StartInv'
<1> SUFFICES ASSUME StartInv, StepBegin PROVE StartInv'
  OBVIOUS
<1>0. wrote' \in BOOLEAN /\ pc' \in Nat \ {0}
  <2>1. wrote' = FALSE /\ pc' = 1
    BY DEF StepBegin, Start, Forget, First, chips
  <2> QED BY <2>1, One, Zenon
<1>1. /\ script = "step" /\ script' = "wait" /\ checkpoint.next < 6
      /\ checkpoint' = [checkpoint EXCEPT !.pending = TRUE]
      /\ prog' = PHASES[checkpoint.next + 1] /\ pc' = 1 /\ ~wrote' /\ result' = ""
      /\ regs' = regs /\ module' = module /\ phase' = phase /\ error' = error /\ past' = past
  BY DEF StepBegin, Start, Forget, First, chips
<1>2. /\ module = "none" /\ checkpoint.here /\ ~checkpoint.pending
      /\ checkpoint \in [next : 0 .. 6, pending : BOOLEAN, here : BOOLEAN]
  BY <1>1 DEF StartInv, ScriptInv, HostTypes
<1>3. /\ checkpoint'.next = checkpoint.next /\ checkpoint'.pending /\ checkpoint'.here
      /\ checkpoint' \in [next : 0 .. 6, pending : BOOLEAN, here : BOOLEAN]
  BY <1>1, <1>2
<1>4. prog' \in DOMAIN Program /\ prog' # "none"
  <2>1. checkpoint.next + 1 \in 1 .. 6
    <3>1. checkpoint.next < 6
      BY DEF StepBegin, First
    <3>2. checkpoint.next \in 0 .. 6
      BY <1>2
    <3> QED BY <3>1, <3>2
  <2>2. prog' \in Counted
    BY <1>1, <2>1, ProgramNames
  <2> QED BY <2>2, ProgramNames DEF Counted
<1>5. HostTypes'
  BY <1>1, <1>3, <1>4, <1>0 DEF StartInv, HostTypes
<1>6. ChipInv'
  BY <1>1 DEF StartInv, ChipInv, AllDone
<1>7. CheckpointInv'
  BY <1>1, <1>2, <1>3 DEF StartInv, CheckpointInv
<1>8. ScriptInv' /\ WorkerInv'
  BY <1>1, <1>2, <1>3, <1>4 DEF ScriptInv, WorkerInv
<1> QED BY <1>5, <1>6, <1>7, <1>8 DEF StartInv

(* The program of a step has ended: what it did is past, and the checkpoint *)
(* counts it if it succeeded.                                               *)
LEMMA StepEndKeeps == StartInv /\ StepEnd => StartInv'
<1> SUFFICES ASSUME StartInv, StepEnd PROVE StartInv'
  OBVIOUS
<1> DEFINE n == checkpoint.next
<1>0. wrote' \in BOOLEAN /\ pc' \in Nat \ {0}
  <2>1. wrote' = FALSE /\ pc' = 1
    BY DEF StepEnd, Finish, Forget, chips
  <2> QED BY <2>1, One, Zenon
<1>1. /\ script = "wait" /\ prog' = "none" /\ pc' = 1 /\ ~wrote' /\ result' = ""
      /\ regs' = regs /\ module' = module /\ phase' = phase /\ error' = error
      /\ Remember(result)
  BY DEF StepEnd, Finish, Forget, chips
<1>2. /\ module = "none" /\ prog # "none" /\ checkpoint.pending /\ checkpoint.here
      /\ checkpoint \in [next : 0 .. 6, pending : BOOLEAN, here : BOOLEAN]
      /\ n \in 0 .. 5 /\ prog = PHASES[n + 1]
  <2>1. script = "wait"
    BY DEF StepEnd
  <2>2. module = "none" /\ prog # "none"
    BY <2>1 DEF StartInv, ScriptInv
  <2> QED BY <2>2, PendingStep
<1>3. /\ past' \in [DOMAIN Program -> {"fresh", "done", "torn"}]
      /\ \A q \in DOMAIN Program : q # prog => past'[q] = past[q]
      /\ past'[prog] = IF result = "ok" THEN "done" ELSE IF wrote THEN "torn" ELSE past[prog]
      /\ regs.gpio = "cold" => \A q \in Counted : past'[q] = "fresh"
      /\ AllDone => AllDone'
  BY <1>1, <1>2, Remembered
<1>4. \A i \in 1 .. 6 : i # n + 1 => past'[PHASES[i]] = past[PHASES[i]]
  <2>1. n + 1 \in 1 .. 6
    BY <1>2
  <2>2. \A i \in 1 .. 6 : PHASES[i] \in DOMAIN Program
    BY ProgramNames DEF Counted
  <2> QED BY <1>2, <1>3, <2>1, <2>2, ProgramNames
<1>5. \A q \in Ahead(First) : past'[q] = past[q]
  <2>1. n + 1 \in 1 .. 6
    BY <1>2
  <2>2. \A q \in Ahead(First) : q # prog /\ q \in DOMAIN Program
    BY <1>2, <2>1, PhasesDiffer DEF Ahead, Counted
  <2> QED BY <1>3, <2>2
<1>6. \A i \in 1 .. n : past[PHASES[i]] = "done"
  BY DEF StartInv, CheckpointInv
<1>7. /\ \A i \in n + 1 .. 6 : past[PHASES[i]] = "fresh"
      /\ \A q \in Ahead(First) : past[q] = "fresh"
  BY <1>2 DEF StartInv, CheckpointInv
<1>8. ChipInv'
  BY <1>1, <1>3 DEF StartInv, ChipInv
<1>10. CASE result = "ok"
  <2>1. script' = "step" /\ checkpoint' = [checkpoint EXCEPT !.next = @ + 1, !.pending = FALSE]
    BY <1>10 DEF StepEnd
  <2>2. /\ checkpoint'.next = n + 1 /\ ~checkpoint'.pending /\ checkpoint'.here
        /\ checkpoint' \in [next : 0 .. 6, pending : BOOLEAN, here : BOOLEAN]
    <3>1. n + 1 \in 0 .. 6
      BY <1>2
    <3> HIDE DEF n
    <3>2. checkpoint' = [next |-> n + 1, pending |-> FALSE, here |-> checkpoint.here]
      BY <1>2, <2>1 DEF n
    <3> QED BY <1>2, <3>1, <3>2, Checkpoints
  <2>3. \A i \in 1 .. n + 1 : past'[PHASES[i]] = "done"
    <3>1. past'[PHASES[n + 1]] = "done"
      BY <1>2, <1>3, <1>10
    <3>2. \A i \in 1 .. n + 1 : i = n + 1 \/ (i \in 1 .. n /\ i \in 1 .. 6 /\ i # n + 1)
      BY <1>2
    <3> QED BY <1>4, <1>6, <3>1, <3>2
  <2>4. \A i \in n + 1 + 1 .. 6 : past'[PHASES[i]] = "fresh"
    <3>1. \A i \in n + 1 + 1 .. 6 : i \in n + 1 .. 6 /\ i \in 1 .. 6 /\ i # n + 1
      BY <1>2
    <3> QED BY <1>4, <1>7, <3>1
  <2>5. \A q \in Ahead(First) : past'[q] = "fresh"
    BY <1>5, <1>7
  <2>6. CheckpointInv'
    BY <2>2, <2>3, <2>4, <2>5 DEF CheckpointInv
  <2>7. HostTypes'
    BY <1>1, <1>3, <1>0, <2>1, <2>2 DEF StartInv, HostTypes
  <2>8. ScriptInv' /\ WorkerInv'
    BY <1>1, <1>2, <2>1, <2>2 DEF ScriptInv, WorkerInv
  <2> QED BY <1>8, <2>6, <2>7, <2>8 DEF StartInv
<1>11. CASE result # "ok"
  <2>1. script' = "off" /\ checkpoint' = checkpoint
    BY <1>11 DEF StepEnd
  <2>2. \A i \in 1 .. n : past'[PHASES[i]] = "done"
    <3>1. \A i \in 1 .. n : i \in 1 .. 6 /\ i # n + 1
      BY <1>2
    <3> QED BY <1>4, <1>6, <3>1
  <2>3. CheckpointInv'
    BY <1>1, <1>2, <2>1, <2>2 DEF CheckpointInv
  <2>4. HostTypes'
    BY <1>1, <1>3, <1>0, <2>1 DEF StartInv, HostTypes
  <2>5. ScriptInv' /\ WorkerInv'
    BY <1>1, <1>2, <2>1 DEF ScriptInv, WorkerInv
  <2> QED BY <1>8, <2>3, <2>4, <2>5 DEF StartInv
<1> QED BY <1>10, <1>11

(* The capture module is loaded after the last step ...                     *)
LEMMA HandoffKeeps == StartInv /\ Handoff => StartInv'
<1> SUFFICES ASSUME StartInv, Handoff PROVE StartInv'
  OBVIOUS
<1>1. /\ script = "step" /\ checkpoint.next = 6 /\ script' = "off"
      /\ checkpoint' = [checkpoint EXCEPT !.pending = TRUE]
      /\ module' = "capture" /\ phase' = First /\ error' = ""
      /\ regs' = regs /\ prog' = prog /\ pc' = pc /\ wrote' = wrote /\ result' = result
      /\ past' = past
  BY DEF Handoff, First, chips, exec
<1>2. /\ prog = "none" /\ checkpoint.here /\ ~checkpoint.pending
      /\ checkpoint \in [next : 0 .. 6, pending : BOOLEAN, here : BOOLEAN]
  BY <1>1 DEF StartInv, ScriptInv, HostTypes
<1>3. /\ checkpoint'.next = 6 /\ checkpoint'.pending /\ checkpoint'.here
      /\ checkpoint' \in [next : 0 .. 6, pending : BOOLEAN, here : BOOLEAN]
  BY <1>1, <1>2
<1>4. AllDone /\ \A q \in Ahead(First) : past[q] = "fresh"
  BY <1>1, <1>2 DEF StartInv, CheckpointInv, AllDone
<1>5. HostTypes'
  BY <1>1, <1>3 DEF StartInv, HostTypes
<1>6. ChipInv'
  BY <1>1 DEF StartInv, ChipInv, AllDone
<1>7. AllDone'
  BY <1>1, <1>4 DEF AllDone
<1>8. CheckpointInv' /\ ScriptInv'
  BY <1>1, <1>3, <1>7 DEF CheckpointInv, ScriptInv, AllDone
<1>9. WorkerInv'
  <2>1. First \in First .. Last /\ First # Last
    BY DEF First, Last
  <2> QED BY <1>1, <1>2, <1>3, <1>4, <1>7, <2>1 DEF WorkerInv
<1> QED BY <1>5, <1>6, <1>8, <1>9 DEF StartInv

(* ... or for a card whose output runs, which all of them have prepared.    *)
LEMMA LoadReadyKeeps == StartInv /\ LoadReady => StartInv'
<1> SUFFICES ASSUME StartInv, LoadReady PROVE StartInv'
  OBVIOUS
<1>0. wrote' \in BOOLEAN /\ pc' \in Nat \ {0}
  <2>1. wrote' = FALSE /\ pc' = 1
    BY DEF LoadReady, Start, Forget, chips
  <2> QED BY <2>1, One, Zenon
<1>1. /\ regs.rout = "on" /\ script = "off" /\ script' = "off" /\ checkpoint' = NoFile
      /\ module' = "capture" /\ phase' = Last /\ error' = ""
      /\ prog' = "passthrough" /\ pc' = 1 /\ ~wrote' /\ result' = ""
      /\ regs' = regs /\ past' = past
  BY DEF LoadReady, Start, Forget, chips
<1>2. AllDone /\ AllDone'
  <2>1. AllDone
    BY <1>1 DEF StartInv, ChipInv
  <2> QED BY <1>1, <2>1 DEF AllDone
<1>3. CheckpointInv' /\ ~checkpoint'.pending /\ ~checkpoint'.here
  BY <1>1, NothingCounted
<1>4. HostTypes'
  BY <1>1, <1>0, Checkpoints, ProgramNames DEF StartInv, HostTypes
<1>5. ChipInv'
  BY <1>1, <1>2 DEF StartInv, ChipInv
<1>6. ScriptInv' /\ WorkerInv'
  <2>1. Last \in First .. Last /\ ~(Last < Last)
    BY DEF First, Last
  <2> QED BY <1>1, <1>2, <1>3, <2>1 DEF ScriptInv, WorkerInv
<1> QED BY <1>3, <1>4, <1>5, <1>6 DEF StartInv

(* The file is removed when the worker is through.                          *)
LEMMA PreserveKeeps == StartInv /\ Preserve => StartInv'
<1> SUFFICES ASSUME StartInv, Preserve PROVE StartInv'
  OBVIOUS
<1>1. /\ script = "off" /\ module = "capture" /\ checkpoint' = NoFile
      /\ regs' = regs /\ prog' = prog /\ pc' = pc /\ wrote' = wrote /\ result' = result
      /\ script' = script /\ module' = module /\ phase' = phase /\ error' = error /\ past' = past
  BY DEF Preserve, chips, exec
<1>2. CheckpointInv' /\ ~checkpoint'.pending /\ ~checkpoint'.here
  BY <1>1, NothingCounted
<1>3. HostTypes'
  BY <1>1, Checkpoints DEF StartInv, HostTypes
<1>4. ChipInv'
  BY <1>1 DEF StartInv, ChipInv, AllDone
<1>5. ScriptInv' /\ WorkerInv'
  BY <1>1, <1>2 DEF StartInv, ScriptInv, WorkerInv, AllDone
<1> QED BY <1>2, <1>3, <1>4, <1>5 DEF StartInv

-----------------------------------------------------------------------------
(* The worker.                                                              *)

(* A phase begins.                                                          *)
LEMMA WorkRunKeeps == StartInv /\ WorkRun => StartInv'
<1> SUFFICES ASSUME StartInv, WorkRun PROVE StartInv'
  OBVIOUS
<1>0. wrote' \in BOOLEAN /\ pc' \in Nat \ {0}
  <2>1. wrote' = FALSE /\ pc' = 1
    BY DEF WorkRun, Start, Forget, chips, host
  <2> QED BY <2>1, One, Zenon
<1>1. /\ module = "capture" /\ phase \in First .. Last - 1 /\ error = ""
      /\ prog' = WorkerProgram[phase - First + 1]
      /\ pc' = 1 /\ ~wrote' /\ result' = ""
      /\ regs' = regs /\ script' = script /\ checkpoint' = checkpoint
      /\ module' = module /\ phase' = phase /\ error' = error /\ past' = past
  BY DEF WorkRun, Start, Forget, chips, host
<1>2. prog' \in DOMAIN Program /\ phase < Last /\ phase # Last
  <2>1. phase - First + 1 \in 1 .. 13 /\ phase < Last /\ phase # Last
    <3>1. phase \in First .. Last - 1
      BY DEF WorkRun
    <3> QED BY <3>1 DEF First, Last
  <2> QED BY <1>1, <2>1, ProgramNames
<1>3. HostTypes'
  BY <1>1, <1>2, <1>0 DEF StartInv, HostTypes
<1>4. ChipInv'
  BY <1>1 DEF StartInv, ChipInv, AllDone
<1>5. CheckpointInv' /\ ScriptInv' /\ WorkerInv'
  BY <1>1, <1>2 DEF StartInv, CheckpointInv, ScriptInv, WorkerInv, AllDone
<1> QED BY <1>3, <1>4, <1>5 DEF StartInv

(* A phase that is tried again leaves the history as it is.                 *)
LEMMA RetryForgets ==
  ASSUME StartInv, RetryHarmless, WorkEnd, phase < Last, Retry
  PROVE  UNCHANGED <<phase, error, past>>
<1>1. /\ ~wrote \/ Repeatable
      /\ IF Repeatable THEN past' = past ELSE Remember(result)
      /\ UNCHANGED <<phase, error>>
  BY DEF WorkEnd, RetryHarmless
<1>2. past \in [DOMAIN Program -> {"fresh", "done", "torn"}] /\ prog \in DOMAIN Program
  BY DEF StartInv, HostTypes, WorkEnd
<1>3. Retry => result # "ok"
  BY DEF Retry, VideoRetryable
<1>4. CASE ~Repeatable
  <2>1. past' = [past EXCEPT ![prog] = past[prog]]
    BY <1>1, <1>3, <1>4 DEF Remember
  <2> QED BY <1>1, <1>2, <2>1
<1> QED BY <1>1, <1>4

(* A phase ends, is tried again, or has failed.                             *)
LEMMA WorkEndKeeps == StartInv /\ RetryHarmless /\ WorkEnd => StartInv'
<1> SUFFICES ASSUME StartInv, RetryHarmless, WorkEnd PROVE StartInv'
  OBVIOUS
<1>0. wrote' \in BOOLEAN /\ pc' \in Nat \ {0}
  <2>1. wrote' = FALSE /\ pc' = 1
    BY DEF WorkEnd, Finish, Forget, chips
  <2> QED BY <2>1, One, Zenon
<1>1. /\ module = "capture" /\ prog # "none" /\ result # ""
      /\ prog' = "none" /\ pc' = 1 /\ ~wrote' /\ result' = ""
      /\ regs' = regs /\ script' = script /\ checkpoint' = checkpoint /\ module' = module
  BY DEF WorkEnd, Finish, Forget, chips
<1>2. /\ AllDone /\ script = "off" /\ phase \in First .. Last
      /\ (checkpoint.here => checkpoint.pending)
      /\ phase < Last => prog = WorkerProgram[phase - First + 1] /\ error = ""
  BY <1>1 DEF StartInv, WorkerInv
<1>3. CASE UNCHANGED <<phase, error, past>>
  <2>1. HostTypes'
    BY <1>1, <1>3, <1>0 DEF StartInv, HostTypes
  <2>2. ChipInv'
    BY <1>1, <1>3 DEF StartInv, ChipInv, AllDone
  <2>3. CheckpointInv' /\ ScriptInv' /\ WorkerInv'
    BY <1>1, <1>3 DEF StartInv, CheckpointInv, ScriptInv, WorkerInv, AllDone
  <2> QED BY <2>1, <2>2, <2>3 DEF StartInv
<1>4. CASE /\ Remember(result)
           /\ IF result = "ok" \/ prog = "passthrough"
              THEN phase' = (IF phase < Last THEN phase + 1 ELSE phase) /\ error' = error
              ELSE error' = result /\ phase' = phase
  <2>1. /\ past' \in [DOMAIN Program -> {"fresh", "done", "torn"}]
        /\ \A q \in DOMAIN Program : q # prog => past'[q] = past[q]
        /\ regs.gpio = "cold" => \A q \in Counted : past'[q] = "fresh"
        /\ AllDone'
    BY <1>1, <1>2, <1>4, Remembered
  <2>2. HostTypes'
    BY <1>1, <2>1, <1>0 DEF StartInv, HostTypes
  <2>3. ChipInv'
    BY <1>1, <2>1 DEF StartInv, ChipInv
  <2>4. CheckpointInv'
    <3>1. \A i \in 1 .. checkpoint.next : i \in 1 .. 6
      BY DEF StartInv, HostTypes
    <3>2. \A i \in 1 .. checkpoint'.next : past'[PHASES[i]] = "done"
      BY <1>1, <2>1, <3>1 DEF AllDone
    <3> QED BY <1>1, <1>2, <3>2 DEF StartInv, CheckpointInv
  <2>5. /\ phase' \in First .. Last
        /\ phase' < Last /\ error' = "" =>
             phase \in First .. Last - 1 /\ phase < Last /\ phase' = phase + 1
    <3>1. CASE phase = Last
      <4>1. phase' = phase
        <5>1. ~(Last < Last)
          BY DEF Last
        <5> QED BY <1>4, <3>1, <5>1
      <4>2. ~(phase' < Last)
        BY <3>1, <4>1 DEF Last
      <4> QED BY <1>2, <4>1, <4>2
    <3>2. CASE phase # Last
      <4>1. phase \in First .. Last - 1 /\ phase < Last /\ phase + 1 \in First .. Last
        BY <1>2, <3>2, EarlyPhase
      <4>2. phase' = phase + 1 \/ (phase' = phase /\ error' # "")
        BY <1>1, <1>4, <4>1
      <4> QED BY <1>2, <4>1, <4>2
    <3> QED BY <3>1, <3>2
  <2>6. ASSUME phase' < Last, error' = "", NEW q \in Ahead(phase')
        PROVE  past'[q] = "fresh"
    <3>1. phase \in First .. Last - 1 /\ phase' = phase + 1 /\ phase < Last
      BY <2>5, <2>6
    <3>2. prog = WorkerProgram[phase - First + 1] /\ error = ""
      BY <1>2, <3>1
    <3>3. q # prog /\ q \in Ahead(phase) /\ q \in Counted
      <4>1. q \in Ahead(phase + 1)
        BY <2>6, <3>1
      <4>2. phase + 1 \in First .. Last
        BY <2>5, <3>1
      <4> QED BY <3>1, <3>2, <4>1, <4>2, PhasesDiffer
    <3>4. past[q] = "fresh"
      BY <1>1, <3>1, <3>2, <3>3 DEF StartInv, WorkerInv
    <3> QED BY <2>1, <3>3, <3>4 DEF Counted
  <2>7. ScriptInv'
    BY <1>1, <1>2 DEF ScriptInv
  <2>8. WorkerInv'
    BY <1>1, <1>2, <2>1, <2>5, <2>6 DEF WorkerInv
  <2> QED BY <2>2, <2>3, <2>4, <2>7, <2>8 DEF StartInv
<1> QED BY <1>1, <1>3, <1>4, RetryForgets DEF WorkEnd

-----------------------------------------------------------------------------
(* Faults.                                                                  *)

(* The module is removed.                                                   *)
LEMMA UnloadKeeps == StartInv /\ Unload => StartInv'
<1> SUFFICES ASSUME StartInv, Unload PROVE StartInv'
  OBVIOUS
<1>1. /\ module = "capture" /\ prog = "none" /\ module' = "none"
      /\ regs' = regs /\ prog' = prog /\ pc' = pc /\ wrote' = wrote /\ result' = result
      /\ script' = script /\ checkpoint' = checkpoint /\ past' = past
  BY DEF Unload, chips, exec
<1>2. HostTypes' /\ ChipInv'
  BY <1>1 DEF StartInv, HostTypes, ChipInv, AllDone
<1>3. CheckpointInv' /\ ScriptInv' /\ WorkerInv'
  BY <1>1 DEF StartInv, CheckpointInv, ScriptInv, WorkerInv
<1> QED BY <1>2, <1>3 DEF StartInv

(* The script dies, or the accesses stop failing.                           *)
LEMMA KillKeeps == StartInv /\ (Kill \/ Settle) => StartInv'
<1> SUFFICES ASSUME StartInv, Kill \/ Settle PROVE StartInv'
  OBVIOUS
<1>1. /\ script' = script \/ script' = "off"
      /\ regs' = regs /\ prog' = prog /\ pc' = pc /\ wrote' = wrote /\ result' = result
      /\ checkpoint' = checkpoint /\ module' = module /\ phase' = phase /\ error' = error
      /\ past' = past
  BY DEF Kill, Settle, chips, exec, host
<1>2. HostTypes' /\ ChipInv'
  BY <1>1 DEF StartInv, HostTypes, ChipInv, AllDone
<1>3. CheckpointInv' /\ ScriptInv' /\ WorkerInv'
  BY <1>1 DEF StartInv, CheckpointInv, ScriptInv, WorkerInv, AllDone
<1> QED BY <1>2, <1>3 DEF StartInv

(* A probe ends with nobody to note it: its step stays pending.             *)
LEMMA ProbeEndsKeeps == StartInv /\ ProbeEnds => StartInv'
<1> SUFFICES ASSUME StartInv, ProbeEnds PROVE StartInv'
  OBVIOUS
<1>0. wrote' \in BOOLEAN /\ pc' \in Nat \ {0}
  <2>1. wrote' = FALSE /\ pc' = 1
    BY DEF ProbeEnds, Finish, Forget, chips, host
  <2> QED BY <2>1, One, Zenon
<1>1. /\ script = "off" /\ module = "none" /\ Remember(result)
      /\ prog' = "none" /\ pc' = 1 /\ ~wrote' /\ result' = ""
      /\ regs' = regs /\ script' = script /\ checkpoint' = checkpoint /\ module' = module
      /\ phase' = phase /\ error' = error
  BY DEF ProbeEnds, Finish, Forget, chips, host
<1>3. CASE prog = "none"
  <2>1. past' = past
    <3>1. past \in [DOMAIN Program -> {"fresh", "done", "torn"}] /\ "none" \notin DOMAIN Program
      BY ProgramNames DEF StartInv, HostTypes
    <3> QED BY <1>1, <1>3, <3>1 DEF Remember
  <2>2. HostTypes' /\ ChipInv'
    BY <1>1, <1>0, <2>1 DEF StartInv, HostTypes, ChipInv, AllDone
  <2>3. CheckpointInv' /\ ScriptInv' /\ WorkerInv'
    BY <1>1, <1>3, <2>1 DEF StartInv, CheckpointInv, ScriptInv, WorkerInv
  <2> QED BY <2>2, <2>3 DEF StartInv
<1>4. CASE prog # "none"
  <2>1. /\ past' \in [DOMAIN Program -> {"fresh", "done", "torn"}]
        /\ \A q \in DOMAIN Program : q # prog => past'[q] = past[q]
        /\ regs.gpio = "cold" => \A q \in Counted : past'[q] = "fresh"
        /\ AllDone => AllDone'
    BY <1>1, <1>4, Remembered
  <2>2. checkpoint.pending /\ checkpoint.next \in 0 .. 5 /\ prog = PHASES[checkpoint.next + 1]
    <3>1. module = "none"
      BY DEF ProbeEnds
    <3> QED BY <1>4, <3>1, PendingStep
  <2>3. \A i \in 1 .. checkpoint.next : past'[PHASES[i]] = "done"
    <3>1. \A i \in 1 .. checkpoint.next : i \in 1 .. 6 /\ i # checkpoint.next + 1
      BY <2>2
    <3>2. checkpoint.next + 1 \in 1 .. 6
      BY <2>2
    <3>3. \A i \in 1 .. checkpoint.next : PHASES[i] # prog /\ PHASES[i] \in DOMAIN Program
      BY <2>2, <3>1, <3>2, ProgramNames DEF Counted
    <3> QED BY <2>1, <3>3 DEF StartInv, CheckpointInv
  <2>4. HostTypes' /\ ChipInv'
    BY <1>1, <1>0, <2>1 DEF StartInv, HostTypes, ChipInv
  <2>5. CheckpointInv'
    BY <1>1, <2>2, <2>3 DEF StartInv, CheckpointInv
  <2>6. ScriptInv' /\ WorkerInv'
    BY <1>1 DEF ScriptInv, WorkerInv
  <2> QED BY <2>4, <2>5, <2>6 DEF StartInv
<1> QED BY <1>3, <1>4

(* A reboot takes the file with it; the chips and their past stay.          *)
LEMMA RebootKeeps == StartInv /\ Reboot => StartInv'
<1> SUFFICES ASSUME StartInv, Reboot PROVE StartInv'
  OBVIOUS
<1>0. wrote' \in BOOLEAN /\ pc' \in Nat \ {0}
  <2>1. wrote' = FALSE /\ pc' = 1
    BY DEF Reboot, Finish, Forget, chips
  <2> QED BY <2>1, One, Zenon
<1>1. /\ prog' = "none" /\ pc' = 1 /\ ~wrote' /\ result' = "" /\ regs' = regs
      /\ script' = "off" /\ checkpoint' = NoFile /\ module' = "none"
  BY DEF Reboot, Finish, Forget, chips
<1>2. /\ past' \in [DOMAIN Program -> {"fresh", "done", "torn"}]
      /\ regs.gpio = "cold" => \A q \in Counted : past'[q] = "fresh"
      /\ AllDone => AllDone'
  <2>1. CASE prog = "none"
    BY <2>1 DEF Reboot, StartInv, HostTypes, ChipInv, AllDone
  <2>2. CASE prog # "none"
    <3>1. Remember("killed")
      BY <2>2 DEF Reboot
    <3> QED BY <2>2, <3>1, Remembered
  <2> QED BY <2>1, <2>2
<1>3. CheckpointInv' /\ ~checkpoint'.pending /\ ~checkpoint'.here
  BY <1>1, NothingCounted
<1>4. HostTypes'
  BY <1>1, <1>2, <1>0, Checkpoints DEF StartInv, HostTypes
<1>5. ChipInv'
  BY <1>1, <1>2 DEF StartInv, ChipInv
<1>6. ScriptInv' /\ WorkerInv'
  BY <1>1 DEF ScriptInv, WorkerInv
<1> QED BY <1>3, <1>4, <1>5, <1>6 DEF StartInv

(* The power is cut: everything is as in the beginning.                     *)
LEMMA PowerCycleKeeps == StartInv /\ PowerCycle => StartInv'
<1> SUFFICES ASSUME StartInv, PowerCycle PROVE StartInv'
  OBVIOUS
<1>0. wrote' \in BOOLEAN /\ pc' \in Nat \ {0}
  <2>1. wrote' = FALSE /\ pc' = 1
    BY DEF PowerCycle, Finish, Forget
  <2> QED BY <2>1, One, Zenon
<1>1. /\ prog' = "none" /\ pc' = 1 /\ ~wrote' /\ result' = "" /\ regs' = Registers
      /\ past' = [p \in DOMAIN Program |-> "fresh"]
      /\ script' = "off" /\ checkpoint' = NoFile /\ module' = "none"
  BY DEF PowerCycle, Finish, Forget
<1>2. CheckpointInv' /\ ~checkpoint'.pending /\ ~checkpoint'.here
  BY <1>1, NothingCounted
<1>3. HostTypes'
  <2>2. past' \in [DOMAIN Program -> {"fresh", "done", "torn"}]
    BY <1>1
  <2> QED BY <1>0, <1>1, <2>2, Checkpoints DEF HostTypes
<1>4. ChipInv'
  <2>1. regs'.rout = "off"
    BY <1>1, ResetKeeps
  <2>2. \A q \in Counted : past'[q] = "fresh"
    BY <1>1 DEF Counted
  <2> QED BY <1>1, <2>1, <2>2 DEF ChipInv
<1>5. ScriptInv' /\ WorkerInv'
  BY <1>1 DEF ScriptInv, WorkerInv
<1> QED BY <1>2, <1>3, <1>4, <1>5 DEF StartInv

-----------------------------------------------------------------------------
(* Every step keeps the invariant.                                          *)
LEMMA NextKeeps == StartInv /\ RetryHarmless /\ [Next]_vars => StartInv'
<1> SUFFICES ASSUME StartInv, RetryHarmless, [Next]_vars PROVE StartInv'
  OBVIOUS
<1>1. CASE Exec
  BY <1>1, ExecKeeps
<1>2. CASE Script
  BY <1>2, ScriptStartKeeps, StepBeginKeeps, StepEndKeeps, HandoffKeeps, LoadReadyKeeps,
    PreserveKeeps DEF Script
<1>3. CASE Work
  BY <1>3, WorkRunKeeps, WorkEndKeeps DEF Work
<1>4. CASE Fault
  BY <1>4, UnloadKeeps, KillKeeps, ProbeEndsKeeps, RebootKeeps, PowerCycleKeeps DEF Fault
<1>5. CASE UNCHANGED vars
  BY <1>5 DEF vars, chips, exec, host, StartInv, HostTypes, ChipInv, CheckpointInv, ScriptInv,
    WorkerInv, AllDone
<1> QED BY <1>1, <1>2, <1>3, <1>4, <1>5 DEF Next

-----------------------------------------------------------------------------
(* What a program carries to the operations that rely on it.  c is a chip,  *)
(* and what is carried is its bank, or a setting, and what is carried is    *)
(* its value.                                                               *)

(* The operations that access a bank, and those that may jump.              *)
Accesses == Writes \cup {"get", "need", "ask", "late"}
Jumps    == {"maybe", "skip", "late"}

(* Bank b of chip c follows bank a by operation o.                          *)
LeadsBank(c, o, a, b) ==
  b = IF o.chip # c THEN a
      ELSE IF o.kind = "bank" THEN o.bank
      ELSE IF o.kind \in {"zero", "reset"} THEN 0 ELSE a

(* Value b of setting f follows value a by operation o.                     *)
LeadsSetting(f, o, a, b) ==
  IF o.kind \in {"set", "poke"} /\ o.name = f THEN o.values = {b}
  ELSE b = a \/ (o.kind = "need" /\ o.name = f /\ o.values = {b})

(* The chips of the programs that select a bank of c.                       *)
Side(c) == IF c = "rcv" THEN {"fpga", "rcv"} ELSE {"fpga", "spl", "srx", "tx"}

(* Operation o relies on chip c being in bank a.                            *)
WantsBank(c, o, a) ==
  /\ o.chip \in Side(c)
  /\ o.chip = c /\ o.kind \in Accesses => a = o.bank

(* Operation o relies on setting f being a: hot-plug is low while what it   *)
(* promises is written and raised when that is ready; the pixel counter     *)
(* runs when another try is asked for.                                      *)
WantsSetting(f, o, a) ==
  /\ o.kind # "reset"
  /\ f = "tick" /\ o.err \in {"again", "range"} => a = "free"
  /\ o.kind \in {"set", "poke"} =>
    /\ f = "hpd" /\ o.name \in {"rddc", "rport"} => a = "low"
    /\ f = "rddc" /\ o.name = "hpd" => a = "ours"
    /\ f = "rport" /\ o.name = "hpd" => a = "ready"
    /\ f = "s55" /\ o.name = "sddc" => a = "off"
    /\ f = "sddc" /\ o.name = "s55" /\ o.values # {"off"} => a # "part"

(* Either of the two.                                                       *)
Leads(c, o, a, b) == IF c \in Chips THEN LeadsBank(c, o, a, b) ELSE LeadsSetting(c, o, a, b)
Wants(c, o, a)    == IF c \in Chips THEN WantsBank(c, o, a) ELSE WantsSetting(c, o, a)

(* A[i] is what holds before operation i of s: it is what the operation     *)
(* relies on, what the operation makes of the one before, and the same      *)
(* wherever the operation may jump to.                                      *)
Fits(c, s, A) ==
  \A i \in 1 .. Len(s) :
    /\ Wants(c, s[i], A[i])
    /\ s[i].kind # "leave" => Leads(c, s[i], A[i], A[i + 1])
    /\ s[i].kind \in Jumps => /\ s[i].n \in Nat /\ i + s[i].n <= Len(s)
                              /\ A[i + 1 + s[i].n] = A[i]

(* Sequence s takes a to b.                                                 *)
Carries(c, s, a, b) ==
  /\ \E S : s \in Seq(S)
  /\ \E A : A[1] = a /\ A[Len(s) + 1] = b /\ Fits(c, s, A)

(* One operation does, without a jump, ...                                  *)
Steps(c, o, a, b) ==
  /\ Wants(c, o, a)
  /\ o.kind # "leave" => Leads(c, o, a, b)
  /\ o.kind \in Jumps => o.n = 0 /\ b = a

(* ... or leaves a, and may jump over the n operations after it.            *)
Hops(c, o, a, n) == Wants(c, o, a) /\ Leads(c, o, a, a) /\ o.n = n

(* Two sequences that follow one another carry on to the end.               *)
LEMMA Joined ==
  ASSUME NEW c, NEW s, NEW t, NEW a, NEW m, NEW b, Carries(c, s, a, m), Carries(c, t, m, b)
  PROVE  Carries(c, s \o t, a, b)
<1> DEFINE p == Len(s)
           q == Len(t)
           u == s \o t
<1>1. PICK S : s \in Seq(S)
  BY DEF Carries
<1>2. PICK T : t \in Seq(T)
  BY DEF Carries
<1>a. s \in Seq(S \cup T) /\ t \in Seq(S \cup T)
  BY <1>1, <1>2
<1>b. /\ p \in Nat /\ q \in Nat /\ u \in Seq(S \cup T) /\ Len(u) = p + q
      /\ \A i \in 1 .. p : u[i] = s[i]
      /\ \A i \in 1 .. q : u[i + p] = t[i]
  BY <1>a
<1>3. PICK A : A[1] = a /\ A[p + 1] = m /\ Fits(c, s, A)
  BY DEF Carries
<1>4. PICK B : B[1] = m /\ B[q + 1] = b /\ Fits(c, t, B)
  BY DEF Carries
<1> DEFINE D == [i \in 1 .. p + q + 1 |-> IF i <= p THEN A[i] ELSE B[i - p]]
<1> HIDE DEF u
<1>5. /\ \A i \in 1 .. p + 1 : D[i] = A[i]
      /\ \A i \in 1 .. q + 1 : D[i + p] = B[i]
  <2>1. \A i \in 1 .. p : D[i] = A[i]
    BY <1>b
  <2>2. ASSUME NEW i \in 1 .. q + 1 PROVE D[i + p] = B[i]
    <3>1. i + p \in 1 .. p + q + 1 /\ ~(i + p <= p) /\ (i + p) - p = i
      BY <1>b
    <3> QED BY <3>1
  <2>3. D[1 + p] = B[1]
    BY <1>b, <2>2
  <2> QED BY <1>b, <1>3, <1>4, <2>1, <2>2, <2>3
<1>6. D[1] = a /\ D[p + q + 1] = b
  BY <1>b, <1>3, <1>4, <1>5
<1> HIDE DEF D, p, q
<1>7. ASSUME NEW i \in 1 .. p + q
      PROVE  /\ Wants(c, u[i], D[i])
             /\ u[i].kind # "leave" => Leads(c, u[i], D[i], D[i + 1])
             /\ u[i].kind \in Jumps => /\ u[i].n \in Nat /\ i + u[i].n <= p + q
                                    /\ D[i + 1 + u[i].n] = D[i]
  <2>1. CASE i <= p
    <3>1. i \in 1 .. p /\ i \in 1 .. p + 1 /\ i + 1 \in 1 .. p + 1
      BY <1>b, <2>1
    <3>2. u[i] = s[i] /\ D[i] = A[i] /\ D[i + 1] = A[i + 1]
      BY <1>b, <1>5, <3>1
    <3>3. /\ Wants(c, s[i], A[i])
          /\ s[i].kind # "leave" => Leads(c, s[i], A[i], A[i + 1])
          /\ s[i].kind \in Jumps => s[i].n \in Nat /\ i + s[i].n <= p /\ A[i + 1 + s[i].n] = A[i]
      BY <1>3, <3>1 DEF Fits, p
    <3>4. ASSUME u[i].kind \in Jumps
          PROVE  u[i].n \in Nat /\ i + u[i].n <= p + q /\ D[i + 1 + u[i].n] = D[i]
      <4>1. PICK n \in Nat : n = u[i].n
        BY <3>2, <3>3, <3>4
      <4>2. i + n <= p /\ A[i + 1 + n] = A[i]
        BY <3>2, <3>3, <3>4, <4>1
      <4>3. i + n <= p + q /\ i + 1 + n \in 1 .. p + 1
        BY <1>b, <3>1, <4>2
      <4> QED BY <1>5, <3>2, <4>1, <4>2, <4>3
    <3> QED BY <3>2, <3>3, <3>4
  <2>2. CASE ~(i <= p)
    <3>1. PICK j \in 1 .. q : i = j + p
      <4>1. i - p \in 1 .. q /\ i = (i - p) + p
        BY <1>b, <2>2
      <4> QED BY <4>1
    <3>2. j \in 1 .. q + 1 /\ j + 1 \in 1 .. q + 1 /\ i + 1 = (j + 1) + p
      BY <1>b, <3>1
    <3>3. u[i] = t[j] /\ D[i] = B[j] /\ D[i + 1] = B[j + 1]
      BY <1>b, <1>5, <3>1, <3>2
    <3>4. /\ Wants(c, t[j], B[j])
          /\ t[j].kind # "leave" => Leads(c, t[j], B[j], B[j + 1])
          /\ t[j].kind \in Jumps => t[j].n \in Nat /\ j + t[j].n <= q /\ B[j + 1 + t[j].n] = B[j]
      BY <1>4, <3>1 DEF Fits, q
    <3>5. ASSUME u[i].kind \in Jumps
          PROVE  u[i].n \in Nat /\ i + u[i].n <= p + q /\ D[i + 1 + u[i].n] = D[i]
      <4>1. PICK n \in Nat : n = u[i].n
        BY <3>3, <3>4, <3>5
      <4>2. j + n <= q /\ B[j + 1 + n] = B[j]
        BY <3>3, <3>4, <3>5, <4>1
      <4>3. i + n <= p + q /\ j + 1 + n \in 1 .. q + 1 /\ i + 1 + n = (j + 1 + n) + p
        BY <1>b, <3>1, <4>2
      <4> QED BY <1>5, <3>3, <4>1, <4>2, <4>3
    <3> QED BY <3>3, <3>4, <3>5
  <2> QED BY <2>1, <2>2
<1>8. D[1] = a /\ D[Len(u) + 1] = b /\ Fits(c, u, D)
  BY <1>b, <1>6, <1>7 DEF Fits
<1>9. \E U : u \in Seq(U)
  BY <1>b
<1> QED BY <1>8, <1>9, Zenon DEF Carries, u

(* A sequence carries, if each of its operations does.                      *)
LEMMA Line ==
  ASSUME NEW c, NEW s, NEW S, s \in Seq(S), NEW A,
         \A i \in 1 .. Len(s) :
           \/ Steps(c, s[i], A[i], A[i + 1])
           \/ \E n \in Nat : /\ Hops(c, s[i], A[i], n) /\ i + n <= Len(s)
                             /\ A[i + 1] = A[i] /\ A[i + 1 + n] = A[i]
  PROVE  Carries(c, s, A[1], A[Len(s) + 1])
<1>1. ASSUME NEW i \in 1 .. Len(s)
      PROVE  /\ Wants(c, s[i], A[i])
             /\ s[i].kind # "leave" => Leads(c, s[i], A[i], A[i + 1])
             /\ s[i].kind \in Jumps => /\ s[i].n \in Nat /\ i + s[i].n <= Len(s)
                                       /\ A[i + 1 + s[i].n] = A[i]
  <2>1. CASE Steps(c, s[i], A[i], A[i + 1])
    <3>1. s[i].kind \in Jumps => s[i].n = 0 /\ A[i + 1] = A[i]
      BY <2>1 DEF Steps
    <3>2. /\ Wants(c, s[i], A[i])
          /\ s[i].kind # "leave" => Leads(c, s[i], A[i], A[i + 1])
      BY <2>1 DEF Steps
    <3>3. ASSUME NEW n, n = 0 PROVE n \in Nat /\ i + n <= Len(s) /\ i + 1 + n = i + 1
      BY <3>3
    <3>4. s[i].kind \in Jumps => /\ s[i].n \in Nat /\ i + s[i].n <= Len(s)
                                 /\ A[i + 1 + s[i].n] = A[i]
      BY <3>1, <3>3
    <3> QED BY <3>2, <3>4
  <2>2. CASE \E n \in Nat : /\ Hops(c, s[i], A[i], n) /\ i + n <= Len(s)
                            /\ A[i + 1] = A[i] /\ A[i + 1 + n] = A[i]
    <3>1. PICK n \in Nat : /\ Hops(c, s[i], A[i], n) /\ i + n <= Len(s)
                           /\ A[i + 1] = A[i] /\ A[i + 1 + n] = A[i]
      BY <2>2
    <3>2. s[i].n = n /\ Wants(c, s[i], A[i]) /\ Leads(c, s[i], A[i], A[i + 1])
      BY <3>1 DEF Hops
    <3> QED BY <3>1, <3>2, Zenon
  <2> QED BY <2>1, <2>2
<1>2. Fits(c, s, A)
  BY <1>1, Zenon DEF Fits
<1> QED BY <1>2 DEF Carries

(* The same for a sequence that changes nothing.                            *)
LEMMA Rest ==
  ASSUME NEW c, NEW s, NEW S, s \in Seq(S), NEW a,
         \A i \in 1 .. Len(s) :
           Steps(c, s[i], a, a) \/ \E n \in Nat : Hops(c, s[i], a, n) /\ i + n <= Len(s)
  PROVE  Carries(c, s, a, a)
<1> DEFINE A == [i \in Nat |-> a]
<1>1. \A i \in Nat : A[i] = a
  OBVIOUS
<1> HIDE DEF A
<1>2. Len(s) \in Nat
  OBVIOUS
<1>3. \A i \in 1 .. Len(s) :
        \/ Steps(c, s[i], A[i], A[i + 1])
        \/ \E n \in Nat : /\ Hops(c, s[i], A[i], n) /\ i + n <= Len(s)
                          /\ A[i + 1] = A[i] /\ A[i + 1 + n] = A[i]
  BY <1>1, <1>2
<1>4. Carries(c, s, A[1], A[Len(s) + 1])
  BY <1>3, Line
<1> QED BY <1>1, <1>2, <1>4

(* An operation that may jump over the whole of the sequence after it.      *)
LEMMA Over ==
  ASSUME NEW c, NEW o, NEW t, NEW a, Carries(c, t, a, a), Hops(c, o, a, Len(t))
  PROVE  Carries(c, <<o>> \o t, a, a)
<1>1. PICK T : t \in Seq(T)
  BY DEF Carries
<1>2. PICK B : B[1] = a /\ B[Len(t) + 1] = a /\ Fits(c, t, B)
  BY DEF Carries
<1> DEFINE q == Len(t)
           u == <<o>> \o t
           D == [i \in 1 .. q + 2 |-> IF i = 1 THEN a ELSE B[i - 1]]
<1>3. t \in Seq(T \cup {o}) /\ <<o>> \in Seq(T \cup {o})
  BY <1>1
<1>4. /\ q \in Nat /\ u \in Seq(T \cup {o}) /\ Len(u) = q + 1 /\ u[1] = o
      /\ \A j \in 1 .. q : u[j + 1] = t[j]
  BY <1>3
<1>5. D[1] = a /\ \A j \in 1 .. q + 1 : D[j + 1] = B[j]
  <2>1. ASSUME NEW j \in 1 .. q + 1 PROVE D[j + 1] = B[j]
    <3>1. j + 1 \in 1 .. q + 2 /\ j + 1 # 1 /\ (j + 1) - 1 = j
      BY <1>4
    <3> QED BY <3>1
  <2>2. 1 \in 1 .. q + 2
    BY <1>4
  <2> QED BY <2>1, <2>2
<1> HIDE DEF u, D
<1>6. D[2] = a /\ D[q + 2] = a
  <2>1. 1 \in 1 .. q + 1 /\ q + 1 \in 1 .. q + 1 /\ (q + 1) + 1 = q + 2
    BY <1>4
  <2>2. D[1 + 1] = B[1] /\ D[(q + 1) + 1] = B[q + 1]
    BY <1>5, <2>1
  <2> QED BY <1>2, <2>1, <2>2
<1> HIDE DEF q
<1>7. ASSUME NEW i \in 1 .. q + 1
      PROVE  /\ Wants(c, u[i], D[i])
             /\ u[i].kind # "leave" => Leads(c, u[i], D[i], D[i + 1])
             /\ u[i].kind \in Jumps => /\ u[i].n \in Nat /\ i + u[i].n <= q + 1
                                       /\ D[i + 1 + u[i].n] = D[i]
  <2>1. CASE i = 1
    <3>1. Wants(c, o, a) /\ Leads(c, o, a, a) /\ o.n = q
      BY DEF Hops, q
    <3>2. u[i] = o /\ D[i] = a /\ D[i + 1] = a
      BY <1>4, <1>5, <1>6, <2>1
    <3>3. i + q <= q + 1 /\ i + 1 + q = q + 2
      BY <1>4, <2>1
    <3> QED BY <1>4, <1>6, <3>1, <3>2, <3>3
  <2>2. CASE i # 1
    <3>1. PICK j \in 1 .. q : i = j + 1
      <4>1. i - 1 \in 1 .. q /\ i = (i - 1) + 1
        BY <1>4, <2>2
      <4> QED BY <4>1
    <3>2. j \in 1 .. q + 1 /\ j + 1 \in 1 .. q + 1 /\ i + 1 = (j + 1) + 1
      BY <1>4, <3>1
    <3>3. u[i] = t[j] /\ D[i] = B[j] /\ D[i + 1] = B[j + 1]
      BY <1>4, <1>5, <3>1, <3>2
    <3>4. /\ Wants(c, t[j], B[j])
          /\ t[j].kind # "leave" => Leads(c, t[j], B[j], B[j + 1])
          /\ t[j].kind \in Jumps => t[j].n \in Nat /\ j + t[j].n <= q /\ B[j + 1 + t[j].n] = B[j]
      BY <1>2, <3>1 DEF Fits, q
    <3>5. ASSUME u[i].kind \in Jumps
          PROVE  u[i].n \in Nat /\ i + u[i].n <= q + 1 /\ D[i + 1 + u[i].n] = D[i]
      <4>1. PICK n \in Nat : n = u[i].n
        BY <3>3, <3>4, <3>5
      <4>2. j + n <= q /\ B[j + 1 + n] = B[j]
        BY <3>3, <3>4, <3>5, <4>1
      <4>3. i + n <= q + 1 /\ j + 1 + n \in 1 .. q + 1 /\ i + 1 + n = (j + 1 + n) + 1
        BY <1>4, <3>1, <4>2
      <4> QED BY <1>5, <3>3, <4>1, <4>2, <4>3
    <3> QED BY <3>3, <3>4, <3>5
  <2> QED BY <2>1, <2>2
<1>8. D[1] = a /\ D[Len(u) + 1] = a /\ Fits(c, u, D)
  <2>1. Len(u) + 1 = q + 2
    BY <1>4
  <2> QED BY <1>4, <1>5, <1>6, <1>7, <2>1, Zenon DEF Fits
<1>9. \E U : u \in Seq(U)
  BY <1>4
<1> QED BY <1>8, <1>9, Zenon DEF Carries, u

-----------------------------------------------------------------------------
(* The banks.                                                               *)

(* The side of the card each chip is on.                                    *)
LEMMA Sides ==
  /\ \A c \in {"rcv", "spl", "srx"} : c \in Chips /\ "fpga" \in Side(c)
  /\ "rcv" \in Side("rcv")
  /\ \A c \in {"spl", "srx"} : "spl" \in Side(c) /\ "srx" \in Side(c) /\ "tx" \in Side(c)
  BY DEF Chips, Side

(* A selection leads to the bank selected ...                               *)
LEMMA BankFlow ==
  ASSUME NEW c \in Chips, NEW d \in Side(c), NEW b, NEW a
  PROVE  (c = d => Steps(c, Bank(d, b), a, b)) /\ (c # d => Steps(c, Bank(d, b), a, a))
  BY DEF Steps, Wants, Leads, WantsBank, LeadsBank, Accesses, Writes, Jumps, Bank, Op

(* ... a look whether the bank is 0 to 0 ...                                *)
LEMMA ZeroFlow ==
  ASSUME NEW c \in Chips, NEW d \in Side(c), NEW e, NEW a
  PROVE  (c = d => Steps(c, Zero(d, e), a, 0)) /\ (c # d => Steps(c, Zero(d, e), a, a))
  BY DEF Steps, Wants, Leads, WantsBank, LeadsBank, Accesses, Writes, Jumps, Zero, Op

(* ... and the other operations keep the bank: a reset of a chip in bank 0, *)
(* ...                                                                      *)
LEMMA ResetFlow ==
  ASSUME NEW c \in Chips, NEW d \in Side(c), NEW a, c # d \/ a = 0
  PROVE  Steps(c, Reset(d, 0), a, a)
  BY DEF Side, Steps, Hops, Wants, Leads, WantsBank, LeadsBank, Accesses, Writes, Jumps, Op,
    Reset

(* ... a write in the bank it is meant for, ...                             *)
LEMMA PutFlow ==
  ASSUME NEW c \in Chips, NEW d \in Side(c), NEW b, NEW a, c # d \/ a = b
  PROVE  Steps(c, Put(d, b), a, a)
  BY DEF Side, Steps, Hops, Wants, Leads, WantsBank, LeadsBank, Accesses, Writes, Jumps, Op, Put

(* ... a read, ...                                                          *)
LEMMA GetFlow ==
  ASSUME NEW c \in Chips, NEW d \in Side(c), NEW b, NEW a, c # d \/ a = b
  PROVE  Steps(c, Get(d, b), a, a)
  BY DEF Side, Steps, Hops, Wants, Leads, WantsBank, LeadsBank, Accesses, Writes, Jumps, Op, Get

(* ... a look at the source or the sink, ...                                *)
LEMMA AskFlow ==
  ASSUME NEW c \in Chips, NEW d \in Side(c), NEW b, NEW e, NEW a, c # d \/ a = b
  PROVE  Steps(c, Ask(d, b, e), a, a)
  BY DEF Side, Steps, Hops, Wants, Leads, WantsBank, LeadsBank, Accesses, Writes, Jumps, Op, Ask

(* ... one whose error is kept, ...                                         *)
LEMMA LateFlow ==
  ASSUME NEW c \in Chips, NEW d \in Side(c), NEW b, NEW e, NEW a, c # d \/ a = b
  PROVE  Steps(c, Late(d, b, e, 0), a, a)
  BY DEF Side, Steps, Hops, Wants, Leads, WantsBank, LeadsBank, Accesses, Writes, Jumps, Op,
    Late

(* ... or skips what is left, ...                                           *)
LEMMA LateHop ==
  ASSUME NEW c \in Chips, NEW d \in Side(c), NEW b, NEW e, NEW n, NEW a, c # d \/ a = b
  PROVE  Hops(c, Late(d, b, e, n), a, n)
  BY DEF Side, Steps, Hops, Wants, Leads, WantsBank, LeadsBank, Accesses, Writes, Jumps, Op,
    Late

(* ... a write of a setting, ...                                            *)
LEMMA SetFlow ==
  ASSUME NEW c \in Chips, NEW d \in Side(c), NEW b, NEW f, NEW v, NEW a, c # d \/ a = b
  PROVE  Steps(c, Set(d, b, f, v), a, a)
  BY DEF Side, Steps, Hops, Wants, Leads, WantsBank, LeadsBank, Accesses, Writes, Jumps, Op, Set

(* ... without a read back, ...                                             *)
LEMMA PokeFlow ==
  ASSUME NEW c \in Chips, NEW d \in Side(c), NEW b, NEW f, NEW v, NEW a, c # d \/ a = b
  PROVE  Steps(c, Poke(d, b, f, v), a, a)
  BY DEF Side, Steps, Hops, Wants, Leads, WantsBank, LeadsBank, Accesses, Writes, Jumps, Op,
    Poke

(* ... a look at a setting in bank 0; ...                                   *)
LEMMA NeedFlow ==
  ASSUME NEW c \in Chips, NEW d \in Side(c), NEW f, NEW vs, NEW e, NEW a, c # d \/ a = 0
  PROVE  Steps(c, Need(d, f, vs, e), a, a)
  BY DEF Side, Steps, Hops, Wants, Leads, WantsBank, LeadsBank, Accesses, Writes, Jumps, Op,
    Need

(* ... nothing follows a return, ...                                        *)
LEMMA LeaveFlow ==
  ASSUME NEW c \in Chips, NEW e, NEW b, NEW a
  PROVE  Steps(c, Leave(e), a, b)
  BY DEF Side, Steps, Hops, Wants, Leads, WantsBank, LeadsBank, Accesses, Writes, Jumps, Op,
    Leave

(* ... a mark, ...                                                          *)
LEMMA MarkFlow ==
  ASSUME NEW c \in Chips, NEW m, NEW a
  PROVE  Steps(c, Mark(m), a, a)
  BY DEF Side, Steps, Hops, Wants, Leads, WantsBank, LeadsBank, Accesses, Writes, Jumps, Op,
    Mark

(* ... a kept error, ...                                                    *)
LEMMA DueFlow ==
  ASSUME NEW c \in Chips, NEW a
  PROVE  Steps(c, Due, a, a)
  BY DEF Side, Steps, Hops, Wants, Leads, WantsBank, LeadsBank, Accesses, Writes, Jumps, Op, Due

(* ... a jump ...                                                           *)
LEMMA MaybeHop ==
  ASSUME NEW c \in Chips, NEW n, NEW a
  PROVE  Hops(c, Maybe(n), a, n)
  BY DEF Side, Steps, Hops, Wants, Leads, WantsBank, LeadsBank, Accesses, Writes, Jumps, Op,
    Maybe

(* ... or a jump after a look at a setting do not access a bank.            *)
LEMMA SkipHop ==
  ASSUME NEW c \in Chips, NEW d \in Side(c), NEW f, NEW vs, NEW n, NEW a
  PROVE  Hops(c, Skip(d, f, vs, n), a, n)
  BY DEF Side, Steps, Hops, Wants, Leads, WantsBank, LeadsBank, Accesses, Writes, Jumps, Op,
    Skip

(* A visit of a sequence of banks ends in the last of them.                 *)
LEMMA VisitFlow ==
  ASSUME NEW c \in Chips, NEW d \in Side(c), NEW banks \in Seq(Nat), NEW a,
         NEW m \in Nat \ {0}, Len(banks) = m, NEW b, banks[m] = b
  PROVE  /\ c = d => Carries(c, Visit(d, banks), a, b)
         /\ c # d => Carries(c, Visit(d, banks), a, a)
<1> DEFINE k == Len(banks)
           s == Visit(d, banks)
           A == [i \in 1 .. 2 * k + 1 |-> IF i = 1 THEN a ELSE banks[i \div 2]]
<1>1. k \in Nat /\ k > 0
  OBVIOUS
<1>2. Len(s) = 2 * k /\ \E S : s \in Seq(S)
  <2>1. \A f : \A n \in Nat : LET g == [i \in 1 .. n |-> f[i]]
                                IN  Len(g) = n /\ g \in Seq({f[i] : i \in 1 .. n})
    OBVIOUS
  <2> DEFINE f == [i \in 1 .. 2 * k |-> IF i % 2 = 1 THEN Bank(d, banks[(i + 1) \div 2])
                                        ELSE Put(d, banks[i \div 2])]
  <2>2. s = [i \in 1 .. 2 * k |-> f[i]]
    BY DEF Visit
  <2> HIDE DEF f, s
  <2>3. 2 * k \in Nat
    BY <1>1
  <2> QED BY <2>1, <2>2, <2>3
<1>3. ASSUME NEW i \in 1 .. 2 * k
      PROVE  s[i] = IF i % 2 = 1 THEN Bank(d, banks[(i + 1) \div 2]) ELSE Put(d, banks[i \div 2])
  BY <1>1 DEF Visit
<1> HIDE DEF s
<1>4. ASSUME c = d, NEW i \in 1 .. 2 * k PROVE Steps(d, s[i], A[i], A[i + 1])
  <2>1. A[i + 1] = banks[(i + 1) \div 2]
    BY <1>1
  <2>2. CASE i % 2 = 1
    <3>1. s[i] = Bank(d, banks[(i + 1) \div 2])
      BY <1>3, <2>2
    <3> QED BY <1>4, <2>1, <3>1, BankFlow
  <2>3. CASE i % 2 # 1
    <3>1. i # 1 /\ (i + 1) \div 2 = i \div 2
      BY <2>3
    <3>2. s[i] = Put(d, banks[i \div 2]) /\ A[i] = banks[i \div 2] /\ A[i + 1] = banks[i \div 2]
      BY <1>1, <1>3, <2>1, <2>3, <3>1
    <3> QED BY <1>4, <3>2, PutFlow
  <2> QED BY <2>2, <2>3
<1>5. A[1] = a /\ A[2 * k + 1] = b
  <2>1. (2 * k + 1) \div 2 = k /\ 2 * k + 1 # 1 /\ 2 * k + 1 \in 1 .. 2 * k + 1 /\ k = m
    BY <1>1
  <2> QED BY <1>1, <2>1
<1> HIDE DEF A, k
<1>6. c = d => Carries(d, s, A[1], A[Len(s) + 1])
  BY <1>2, <1>4, Line
<1>7. ASSUME c # d PROVE Carries(c, s, a, a)
  <2>1. \A i \in 1 .. Len(s) : Steps(c, s[i], a, a)
    BY <1>2, <1>3, <1>7, BankFlow, PutFlow
  <2> QED BY <1>2, <2>1, Rest
<1> QED BY <1>2, <1>5, <1>6, <1>7 DEF s

(* A sequence with one more operation, written at its end.                  *)
LEMMA Longer ==
  ASSUME NEW S, NEW n \in Nat, NEW s \in Seq(S), Len(s) = n, NEW o \in S,
         NEW u \in Seq(S), Len(u) = n + 1, u[n + 1] = o, \A i \in 1 .. n : u[i] = s[i]
  PROVE  s \o <<o>> = u
<1> DEFINE w == s \o <<o>>
<1>1. /\ w \in Seq(S) /\ Len(w) = n + 1 /\ w[n + 1] = o
      /\ \A i \in 1 .. n : w[i] = s[i]
  OBVIOUS
<1> HIDE DEF w
<1>2. \A i \in 1 .. n + 1 : w[i] = u[i]
  BY <1>1
<1>3. w = u
  BY <1>1, <1>2, SeqEqual
<1> QED BY <1>3 DEF w

(* The samples of the pixel counter (rv_output) are taken in bank 0.        *)
LEMMA PixelSamplesFlow ==
  ASSUME NEW c \in Chips, NEW a, a = 0, c = "rcv"
  PROVE  Carries(c, PixelSamples, a, a)
<1>1. "rcv" \in Chips /\ "rcv" \in Side("rcv")
  BY DEF Chips, Side
<1>2. \A i \in 1 .. 15 : Steps(c, PixelSamples[i], a, a)
  BY <1>1, GetFlow, SetFlow DEF PixelSamples
<1>3. Len(PixelSamples) = 15 /\ PixelSamples \in Seq({PixelSamples[i] : i \in 1 .. 15})
  BY DEF PixelSamples
<1> QED BY <1>2, <1>3, Rest

(* ReceiverIdentify (gc573_receiver_identify) accesses every bank it means  *)
(* to, and where it leaves its chips.                                       *)
LEMMA ReceiverIdentifyBanks ==
  Carries("rcv", ReceiverIdentify, 0, 0)
<1> DEFINE u == <<Set("fpga", 0, "gpio", "part"), Set("fpga", 0, "gpio", "receiver"),
                  Set("fpga", 0, "gpio", "part"), Reset("rcv", 0),
                  Set("fpga", 0, "gpio", "receiver"), Get("rcv", 0)>>
<1>1. Carries("rcv", u, 0, 0)
  <2>1. \A i \in 1 .. 6 : Steps("rcv", u[i], 0, 0)
    BY Sides, SetFlow, ResetFlow, GetFlow
  <2>2. u \in Seq({u[i] : i \in 1 .. 6}) /\ Len(u) = 6
    OBVIOUS
  <2> QED BY <2>1, <2>2, Rest
<1> QED BY <1>1 DEF ReceiverIdentify

(* ReceiverStatus (gc573_receiver_status) accesses every bank it means to,  *)
(* and where it leaves its chips.                                           *)
LEMMA ReceiverStatusBanks ==
  ASSUME NEW a
  PROVE  Carries("rcv", ReceiverStatus, a, 0)
<1> DEFINE u == <<Need("fpga", "gpio", {"receiver", "board"}, "nodev"), Zero("rcv", "unsup"),
                  Get("rcv", 0)>>
<1>1. Carries("rcv", u, a, 0)
  <2> DEFINE A == <<a, a, 0, 0>>
  <2>1. \A i \in 1 .. 3 : Steps("rcv", u[i], A[i], A[i + 1])
    BY Sides, NeedFlow, ZeroFlow, GetFlow
  <2>2. u \in Seq({u[i] : i \in 1 .. 3}) /\ Len(u) = 3
    OBVIOUS
  <2>3. Carries("rcv", u, A[1], A[Len(u) + 1])
    BY <2>1, <2>2, Line
  <2> QED BY <2>2, <2>3
<1> QED BY <1>1 DEF ReceiverStatus

(* ReceiverInit (gc573_init_table) accesses every bank it means to, and     *)
(* where it leaves its chips.                                               *)
LEMMA ReceiverInitBanks ==
  ASSUME NEW a
  PROVE  Carries("rcv", ReceiverInit, a, 0)
<1> DEFINE u1 == <<Bank("rcv", 0), Poke("rcv", 0, "table", "marked")>>
           u2 == <<Bank("rcv", 0), Poke("rcv", 0, "table", "done")>>
<1>1. Carries("rcv", u1, 0, 0)
  <2>1. \A i \in 1 .. 2 : Steps("rcv", u1[i], 0, 0)
    BY Sides, BankFlow, PokeFlow
  <2>2. u1 \in Seq({u1[i] : i \in 1 .. 2}) /\ Len(u1) = 2
    OBVIOUS
  <2> QED BY <2>1, <2>2, Rest
<1>2. Carries("rcv",
              Visit("rcv", <<3, 0, 3, 0, 4, 3, 0, 3, 0, 0, 1, 0, 1, 3, 7, 0, 1, 0, 5, 0, 4, 0, 3,
                             0, 4, 0, 4>>), 0, 4)
  <2>1. <<3, 0, 3, 0, 4, 3, 0, 3, 0, 0, 1, 0, 1, 3, 7, 0, 1, 0, 5, 0, 4, 0, 3, 0, 4, 0, 4>>
          \in Seq(Nat)
        /\ Len(<<3, 0, 3, 0, 4, 3, 0, 3, 0, 0, 1, 0, 1, 3, 7, 0, 1, 0, 5, 0, 4, 0, 3, 0, 4, 0,
                 4>>) = 27 /\ 27 \in Nat \ {0}
    OBVIOUS
  <2> QED BY <2>1, Sides, VisitFlow
<1>3. Carries("rcv", u2, 4, 0)
  <2> DEFINE A == <<4, 0, 0>>
  <2>1. \A i \in 1 .. 2 : Steps("rcv", u2[i], A[i], A[i + 1])
    BY Sides, BankFlow, PokeFlow
  <2>2. u2 \in Seq({u2[i] : i \in 1 .. 2}) /\ Len(u2) = 2
    OBVIOUS
  <2>3. Carries("rcv", u2, A[1], A[Len(u2) + 1])
    BY <2>1, <2>2, Line
  <2> QED BY <2>2, <2>3
<1>4. Carries("rcv", ReceiverStatus \o u1, a, 0)
  BY ReceiverStatusBanks, <1>1, Joined
<1>5. Carries("rcv", ReceiverStatus \o u1
                       \o Visit("rcv", <<3, 0, 3, 0, 4, 3, 0, 3, 0, 0, 1, 0, 1, 3, 7, 0, 1, 0, 5,
                                         0, 4, 0, 3, 0, 4, 0, 4>>), a, 4)
  BY <1>4, <1>2, Joined
<1>6. Carries("rcv", ReceiverStatus \o u1
                       \o Visit("rcv", <<3, 0, 3, 0, 4, 3, 0, 3, 0, 0, 1, 0, 1, 3, 7, 0, 1, 0, 5,
                                         0, 4, 0, 3, 0, 4, 0, 4>>) \o u2, a, 0)
  BY <1>5, <1>3, Joined
<1> QED BY <1>6, ReceiverStatusBanks, Joined DEF ReceiverInit

(* CalSetup (gc573_cal_setup) accesses every bank it means to, and where it *)
(* leaves its chips.                                                        *)
LEMMA CalSetupBanks ==
  ASSUME NEW a
  PROVE  Carries("rcv", CalSetup, a, 0)
<1> DEFINE u1 == <<Bank("rcv", 0), Poke("rcv", 0, "rcal", "flagged")>>
           u2 == <<Bank("rcv", 0)>>
<1>1. Carries("rcv", Visit("rcv", <<3>>), a, 3)
  <2>1. <<3>> \in Seq(Nat) /\ Len(<<3>>) = 1 /\ 1 \in Nat \ {0}
    OBVIOUS
  <2> QED BY <2>1, Sides, VisitFlow
<1>2. Carries("rcv", u1, 3, 0)
  <2> DEFINE A == <<3, 0, 0>>
  <2>1. \A i \in 1 .. 2 : Steps("rcv", u1[i], A[i], A[i + 1])
    BY Sides, BankFlow, PokeFlow
  <2>2. u1 \in Seq({u1[i] : i \in 1 .. 2}) /\ Len(u1) = 2
    OBVIOUS
  <2>3. Carries("rcv", u1, A[1], A[Len(u1) + 1])
    BY <2>1, <2>2, Line
  <2> QED BY <2>2, <2>3
<1>3. Carries("rcv", Visit("rcv", <<7, 0, 4, 3, 7>>), 0, 7)
  <2>1. <<7, 0, 4, 3, 7>> \in Seq(Nat) /\ Len(<<7, 0, 4, 3, 7>>) = 5 /\ 5 \in Nat \ {0}
    OBVIOUS
  <2> QED BY <2>1, Sides, VisitFlow
<1>4. Carries("rcv", u2, 7, 0)
  <2> DEFINE A == <<7, 0>>
  <2>1. \A i \in 1 .. 1 : Steps("rcv", u2[i], A[i], A[i + 1])
    BY Sides, BankFlow
  <2>2. u2 \in Seq({u2[i] : i \in 1 .. 1}) /\ Len(u2) = 1
    OBVIOUS
  <2>3. Carries("rcv", u2, A[1], A[Len(u2) + 1])
    BY <2>1, <2>2, Line
  <2> QED BY <2>2, <2>3
<1>5. Carries("rcv", Visit("rcv", <<3>>) \o u1, a, 0)
  BY <1>1, <1>2, Joined
<1>6. Carries("rcv", Visit("rcv", <<3>>) \o u1 \o Visit("rcv", <<7, 0, 4, 3, 7>>), a, 7)
  BY <1>5, <1>3, Joined
<1> QED BY <1>6, <1>4, Joined DEF CalSetup

(* CalCleanup (gc573_cal_cleanup) accesses every bank it means to, and      *)
(* where it leaves its chips.                                               *)
LEMMA CalCleanupBanks ==
  ASSUME NEW a
  PROVE  Carries("rcv", CalCleanup, a, 0)
<1> DEFINE u1 == <<Bank("rcv", 0), Poke("rcv", 0, "rcal", "done")>>
           u2 == <<Bank("rcv", 0)>>
<1>1. Carries("rcv", u1, a, 0)
  <2> DEFINE A == <<a, 0, 0>>
  <2>1. \A i \in 1 .. 2 : Steps("rcv", u1[i], A[i], A[i + 1])
    BY Sides, BankFlow, PokeFlow
  <2>2. u1 \in Seq({u1[i] : i \in 1 .. 2}) /\ Len(u1) = 2
    OBVIOUS
  <2>3. Carries("rcv", u1, A[1], A[Len(u1) + 1])
    BY <2>1, <2>2, Line
  <2> QED BY <2>2, <2>3
<1>2. Carries("rcv", Visit("rcv", <<4, 3, 7>>), 0, 7)
  <2>1. <<4, 3, 7>> \in Seq(Nat) /\ Len(<<4, 3, 7>>) = 3 /\ 3 \in Nat \ {0}
    OBVIOUS
  <2> QED BY <2>1, Sides, VisitFlow
<1>3. Carries("rcv", u2, 7, 0)
  <2> DEFINE A == <<7, 0>>
  <2>1. \A i \in 1 .. 1 : Steps("rcv", u2[i], A[i], A[i + 1])
    BY Sides, BankFlow
  <2>2. u2 \in Seq({u2[i] : i \in 1 .. 1}) /\ Len(u2) = 1
    OBVIOUS
  <2>3. Carries("rcv", u2, A[1], A[Len(u2) + 1])
    BY <2>1, <2>2, Line
  <2> QED BY <2>2, <2>3
<1>4. Carries("rcv", u1 \o Visit("rcv", <<4, 3, 7>>), a, 7)
  BY <1>1, <1>2, Joined
<1> QED BY <1>4, <1>3, Joined DEF CalCleanup

(* ReceiverCalibrate (gc573_receiver_calibrate) accesses every bank it      *)
(* means to, and where it leaves its chips.                                 *)
LEMMA ReceiverCalibrateBanks ==
  ASSUME NEW a
  PROVE  Carries("rcv", ReceiverCalibrate, a, 0)
<1> DEFINE u1 == <<Markers, Need("rcv", "rcal", {"clear", "done"}, "busy")>>
           u2 == <<Late("rcv", 0, "timeout", 0), Bank("rcv", 3), Get("rcv", 3), Bank("rcv", 7),
                   Get("rcv", 7)>>
           u3 == <<Due>>
<1>1. Carries("rcv", u1, 0, 0)
  <2>1. \A i \in 1 .. 2 : Steps("rcv", u1[i], 0, 0)
    BY Sides, NeedFlow DEF Markers
  <2>2. u1 \in Seq({u1[i] : i \in 1 .. 2}) /\ Len(u1) = 2
    OBVIOUS
  <2> QED BY <2>1, <2>2, Rest
<1>2. Carries("rcv", u2, 0, 7)
  <2> DEFINE A == <<0, 0, 3, 3, 7, 7>>
  <2>1. \A i \in 1 .. 5 : Steps("rcv", u2[i], A[i], A[i + 1])
    BY Sides, LateFlow, BankFlow, GetFlow
  <2>2. u2 \in Seq({u2[i] : i \in 1 .. 5}) /\ Len(u2) = 5
    OBVIOUS
  <2>3. Carries("rcv", u2, A[1], A[Len(u2) + 1])
    BY <2>1, <2>2, Line
  <2> QED BY <2>2, <2>3
<1>3. Carries("rcv", u3, 0, 0)
  <2>1. \A i \in 1 .. 1 : Steps("rcv", u3[i], 0, 0)
    BY Sides, DueFlow
  <2>2. u3 \in Seq({u3[i] : i \in 1 .. 1}) /\ Len(u3) = 1
    OBVIOUS
  <2> QED BY <2>1, <2>2, Rest
<1>4. Carries("rcv", ReceiverStatus \o u1, a, 0)
  BY ReceiverStatusBanks, <1>1, Joined
<1>5. Carries("rcv", ReceiverStatus \o u1 \o CalSetup, a, 0)
  BY <1>4, CalSetupBanks, Joined
<1>6. Carries("rcv", ReceiverStatus \o u1 \o CalSetup \o u2, a, 7)
  BY <1>5, <1>2, Joined
<1>7. Carries("rcv", ReceiverStatus \o u1 \o CalSetup \o u2 \o CalCleanup, a, 0)
  BY <1>6, CalCleanupBanks, Joined
<1>8. Carries("rcv", ReceiverStatus \o u1 \o CalSetup \o u2 \o CalCleanup \o ReceiverStatus, a, 0)
  BY <1>7, ReceiverStatusBanks, Joined
<1> QED BY <1>8, <1>3, Joined DEF ReceiverCalibrate

(* ReceiverClock (gc573_receiver_clock) accesses every bank it means to,    *)
(* and where it leaves its chips.                                           *)
LEMMA ReceiverClockBanks ==
  ASSUME NEW a
  PROVE  Carries("rcv", ReceiverClock, a, 0)
<1> DEFINE u1 == <<Markers, Need("rcv", "rcal", {"flagged", "done"}, "again"), Put("rcv", 0)>>
           u2 == <<Get("rcv", 1), Maybe(5), Put("rcv", 1), Late("rcv", 1, "timeout", 6),
                   Bank("rcv", 0), Put("rcv", 0), Bank("rcv", 1), Put("rcv", 1), Get("rcv", 1),
                   Late("rcv", 1, "range", 0), Put("rcv", 1), Bank("rcv", 0), Put("rcv", 0)>>
           u3 == <<Due>>
<1>1. Carries("rcv", u1, 0, 0)
  <2>1. \A i \in 1 .. 3 : Steps("rcv", u1[i], 0, 0)
    BY Sides, NeedFlow, PutFlow DEF Markers
  <2>2. u1 \in Seq({u1[i] : i \in 1 .. 3}) /\ Len(u1) = 3
    OBVIOUS
  <2> QED BY <2>1, <2>2, Rest
<1>2. Carries("rcv", Visit("rcv", <<1, 0, 1>>), 0, 1)
  <2>1. <<1, 0, 1>> \in Seq(Nat) /\ Len(<<1, 0, 1>>) = 3 /\ 3 \in Nat \ {0}
    OBVIOUS
  <2> QED BY <2>1, Sides, VisitFlow
<1>3. Carries("rcv", u2, 1, 0)
  <2> DEFINE A == <<1, 1, 1, 1, 1, 0, 0, 1, 1, 1, 1, 1, 0, 0>>
  <2>1. \A i \in (1 .. 13) \ {2, 4} : Steps("rcv", u2[i], A[i], A[i + 1])
    BY Sides, GetFlow, PutFlow, BankFlow, LateFlow
  <2>2. Hops("rcv", u2[2], 1, 5) /\ Hops("rcv", u2[4], 1, 6)
    BY Sides, MaybeHop, LateHop
  <2>3. \A i \in 1 .. 13 :
          \/ Steps("rcv", u2[i], A[i], A[i + 1])
          \/ \E n \in Nat : /\ Hops("rcv", u2[i], A[i], n) /\ i + n <= 13
                            /\ A[i + 1] = A[i] /\ A[i + 1 + n] = A[i]
    BY <2>1, <2>2
  <2>4. u2 \in Seq({u2[i] : i \in 1 .. 13}) /\ Len(u2) = 13
    OBVIOUS
  <2>5. Carries("rcv", u2, A[1], A[Len(u2) + 1])
    BY <2>3, <2>4, Line
  <2> QED BY <2>4, <2>5
<1>4. Carries("rcv", u3, 0, 0)
  <2>1. \A i \in 1 .. 1 : Steps("rcv", u3[i], 0, 0)
    BY Sides, DueFlow
  <2>2. u3 \in Seq({u3[i] : i \in 1 .. 1}) /\ Len(u3) = 1
    OBVIOUS
  <2> QED BY <2>1, <2>2, Rest
<1>5. Carries("rcv", ReceiverStatus \o u1, a, 0)
  BY ReceiverStatusBanks, <1>1, Joined
<1>6. Carries("rcv", ReceiverStatus \o u1 \o Visit("rcv", <<1, 0, 1>>), a, 1)
  BY <1>5, <1>2, Joined
<1>7. Carries("rcv", ReceiverStatus \o u1 \o Visit("rcv", <<1, 0, 1>>) \o u2, a, 0)
  BY <1>6, <1>3, Joined
<1>8. Carries("rcv", ReceiverStatus \o u1 \o Visit("rcv", <<1, 0, 1>>) \o u2
                     \o ReceiverStatus, a, 0)
  BY <1>7, ReceiverStatusBanks, Joined
<1>9. ReceiverClock = ReceiverStatus \o u1 \o Visit("rcv", <<1, 0, 1>>) \o u2 \o ReceiverStatus
        \o u3
  <2> DEFINE p == ReceiverStatus \o u1 \o Visit("rcv", <<1, 0, 1>>)
             x == <<Get("rcv", 1), Maybe(Len(ClockRecovery))>>
             y == <<Put("rcv", 1), Get("rcv", 1), Late("rcv", 1, "range", 0),
                    Put("rcv", 1), Bank("rcv", 0), Put("rcv", 0)>>
             U == {u2[i] : i \in 1 .. 13}
  <2>1. PICK S : p \in Seq(S)
    BY <1>6 DEF Carries
  <2>2. Len(ClockRecovery) = 5
    BY DEF ClockRecovery
  <2>3. x \in Seq(U) /\ ClockRecovery \in Seq(U) /\ y \in Seq(U) /\ u2 = x \o ClockRecovery \o y
    BY <2>2 DEF ClockRecovery
  <2> HIDE DEF U, x, y, p
  <2>4. PICK W : p \in Seq(W) /\ x \in Seq(W) /\ ClockRecovery \in Seq(W) /\ y \in Seq(W)
    <3>1. \A s : (s \in Seq(S) => s \in Seq(S \cup U)) /\ (s \in Seq(U) => s \in Seq(S \cup U))
      OBVIOUS
    <3> QED BY <2>1, <2>3, <3>1, Zenon
  <2>5. p \o x \o ClockRecovery \o y = p \o (x \o ClockRecovery \o y)
    <3> DEFINE w == x \o ClockRecovery
    <3>1. p \o x \o ClockRecovery = p \o w
      BY <2>4, ConcatAssociative
    <3>2. w \in Seq(W)
      BY <2>4
    <3> HIDE DEF w
    <3>3. p \o w \o y = p \o (w \o y)
      BY <2>4, <3>2, ConcatAssociative
    <3> QED BY <3>1, <3>3 DEF w
  <2> QED BY <2>3, <2>5 DEF ReceiverClock, p, x, y
<1> QED BY <1>8, <1>4, <1>9, Joined

(* ReceiverTiming (gc573_receiver_timing) accesses every bank it means to,  *)
(* and where it leaves its chips.                                           *)
LEMMA ReceiverTimingBanks ==
  ASSUME NEW a
  PROVE  Carries("rcv", ReceiverTiming, a, 0)
<1> DEFINE u == <<Bank("rcv", 0)>>
<1>1. Carries("rcv", Visit("rcv", <<3, 0, 1, 0>>), 0, 0)
  <2>1. <<3, 0, 1, 0>> \in Seq(Nat) /\ Len(<<3, 0, 1, 0>>) = 4 /\ 4 \in Nat \ {0}
    OBVIOUS
  <2> QED BY <2>1, Sides, VisitFlow
<1>2. Carries("rcv", u, 0, 0)
  <2>1. \A i \in 1 .. 1 : Steps("rcv", u[i], 0, 0)
    BY Sides, BankFlow
  <2>2. u \in Seq({u[i] : i \in 1 .. 1}) /\ Len(u) = 1
    OBVIOUS
  <2> QED BY <2>1, <2>2, Rest
<1>3. Carries("rcv", ReceiverClock \o Visit("rcv", <<3, 0, 1, 0>>), a, 0)
  BY ReceiverClockBanks, <1>1, Joined
<1>4. Carries("rcv", ReceiverClock \o Visit("rcv", <<3, 0, 1, 0>>) \o u, a, 0)
  BY <1>3, <1>2, Joined
<1> QED BY <1>4, ReceiverStatusBanks, Joined DEF ReceiverTiming

(* ReceiverEdidRead (gc573_receiver_edid_read) accesses every bank it means *)
(* to, and where it leaves its chips.                                       *)
LEMMA ReceiverEdidReadBanks ==
  ASSUME NEW a
  PROVE  Carries("rcv", ReceiverEdidRead, a, 0)
<1> DEFINE u == <<Put("rcv", 0), Get("rcv", 0)>>
<1>1. Carries("rcv", u, 0, 0)
  <2>1. \A i \in 1 .. 2 : Steps("rcv", u[i], 0, 0)
    BY Sides, PutFlow, GetFlow
  <2>2. u \in Seq({u[i] : i \in 1 .. 2}) /\ Len(u) = 2
    OBVIOUS
  <2> QED BY <2>1, <2>2, Rest
<1>2. Carries("rcv", ReceiverTiming \o u, a, 0)
  BY ReceiverTimingBanks, <1>1, Joined
<1> QED BY <1>2, ReceiverStatusBanks, Joined DEF ReceiverEdidRead

(* DdcSnapshot (ddc_snapshot) accesses every bank it means to, and where it *)
(* leaves its chips.                                                        *)
LEMMA DdcSnapshotBanks ==
  ASSUME NEW a
  PROVE  Carries("rcv", DdcSnapshot, a, 0)
<1> DEFINE u == <<Bank("rcv", 0), Get("rcv", 0), Bank("rcv", 4), Get("rcv", 4), Bank("rcv", 0)>>
<1>1. Carries("rcv", u, a, 0)
  <2> DEFINE A == <<a, 0, 0, 4, 4, 0>>
  <2>1. \A i \in 1 .. 5 : Steps("rcv", u[i], A[i], A[i + 1])
    BY Sides, BankFlow, GetFlow
  <2>2. u \in Seq({u[i] : i \in 1 .. 5}) /\ Len(u) = 5
    OBVIOUS
  <2>3. Carries("rcv", u, A[1], A[Len(u) + 1])
    BY <2>1, <2>2, Line
  <2> QED BY <2>2, <2>3
<1> QED BY <1>1 DEF DdcSnapshot

(* ReceiverDdc (gc573_receiver_ddc) accesses every bank it means to, and    *)
(* where it leaves its chips.                                               *)
LEMMA ReceiverDdcBanks ==
  ASSUME NEW a
  PROVE  Carries("rcv", ReceiverDdc, a, 0)
<1> DEFINE u1 == <<Need("fpga", "hpd", {"low"}, "busy")>>
           u2 == <<Ask("rcv", 0, "busy"), Ask("rcv", 0, "inval")>>
           u3 == <<Ask("rcv", 0, "busy"), Set("rcv", 0, "rddc", "part")>>
           u4 == <<Bank("rcv", 4), Set("rcv", 4, "rddc", "ours"), Bank("rcv", 0)>>
           u5 == <<Need("rcv", "rddc", {"ours"}, "fail")>>
<1>1. Carries("rcv", u1, a, a)
  <2>1. \A i \in 1 .. 1 : Steps("rcv", u1[i], a, a)
    BY Sides, NeedFlow
  <2>2. u1 \in Seq({u1[i] : i \in 1 .. 1}) /\ Len(u1) = 1
    OBVIOUS
  <2> QED BY <2>1, <2>2, Rest
<1>2. Carries("rcv", u2, 0, 0)
  <2>1. \A i \in 1 .. 2 : Steps("rcv", u2[i], 0, 0)
    BY Sides, AskFlow
  <2>2. u2 \in Seq({u2[i] : i \in 1 .. 2}) /\ Len(u2) = 2
    OBVIOUS
  <2> QED BY <2>1, <2>2, Rest
<1>3. Carries("rcv", u3, 0, 0)
  <2>1. \A i \in 1 .. 2 : Steps("rcv", u3[i], 0, 0)
    BY Sides, AskFlow, SetFlow
  <2>2. u3 \in Seq({u3[i] : i \in 1 .. 2}) /\ Len(u3) = 2
    OBVIOUS
  <2> QED BY <2>1, <2>2, Rest
<1>4. Carries("rcv", Visit("rcv", <<4, 0, 4, 0, 4, 0>>), 0, 0)
  <2>1. <<4, 0, 4, 0, 4, 0>> \in Seq(Nat) /\ Len(<<4, 0, 4, 0, 4, 0>>) = 6 /\ 6 \in Nat \ {0}
    OBVIOUS
  <2> QED BY <2>1, Sides, VisitFlow
<1>5. Carries("rcv", u4, 0, 0)
  <2> DEFINE A == <<0, 4, 4, 0>>
  <2>1. \A i \in 1 .. 3 : Steps("rcv", u4[i], A[i], A[i + 1])
    BY Sides, BankFlow, SetFlow
  <2>2. u4 \in Seq({u4[i] : i \in 1 .. 3}) /\ Len(u4) = 3
    OBVIOUS
  <2>3. Carries("rcv", u4, A[1], A[Len(u4) + 1])
    BY <2>1, <2>2, Line
  <2> QED BY <2>2, <2>3
<1>6. Carries("rcv", u5, 0, 0)
  <2>1. \A i \in 1 .. 1 : Steps("rcv", u5[i], 0, 0)
    BY Sides, NeedFlow
  <2>2. u5 \in Seq({u5[i] : i \in 1 .. 1}) /\ Len(u5) = 1
    OBVIOUS
  <2> QED BY <2>1, <2>2, Rest
<1>7. Carries("rcv", u1 \o ReceiverEdidRead, a, 0)
  BY <1>1, ReceiverEdidReadBanks, Joined
<1>8. Carries("rcv", u1 \o ReceiverEdidRead \o u2, a, 0)
  BY <1>7, <1>2, Joined
<1>9. Carries("rcv", u1 \o ReceiverEdidRead \o u2 \o DdcSnapshot, a, 0)
  BY <1>8, DdcSnapshotBanks, Joined
<1>10. Carries("rcv", u1 \o ReceiverEdidRead \o u2 \o DdcSnapshot \o u3, a, 0)
  BY <1>9, <1>3, Joined
<1>11. Carries("rcv", u1 \o ReceiverEdidRead \o u2 \o DdcSnapshot \o u3
                      \o Visit("rcv", <<4, 0, 4, 0, 4, 0>>), a, 0)
  BY <1>10, <1>4, Joined
<1>12. Carries("rcv", u1 \o ReceiverEdidRead \o u2 \o DdcSnapshot \o u3
                      \o Visit("rcv", <<4, 0, 4, 0, 4, 0>>) \o u4, a, 0)
  BY <1>11, <1>5, Joined
<1>13. Carries("rcv", u1 \o ReceiverEdidRead \o u2 \o DdcSnapshot \o u3
                      \o Visit("rcv", <<4, 0, 4, 0, 4, 0>>) \o u4 \o DdcSnapshot, a, 0)
  BY <1>12, DdcSnapshotBanks, Joined
<1>14. Carries("rcv", u1 \o ReceiverEdidRead \o u2 \o DdcSnapshot \o u3
                      \o Visit("rcv", <<4, 0, 4, 0, 4, 0>>) \o u4 \o DdcSnapshot \o u5, a, 0)
  BY <1>13, <1>6, Joined
<1> QED BY <1>14, ReceiverStatusBanks, Joined DEF ReceiverDdc

(* ReceiverInput (gc573_receiver_input) accesses every bank it means to,    *)
(* and where it leaves its chips.                                           *)
LEMMA ReceiverInputBanks ==
  ASSUME NEW a
  PROVE  Carries("rcv", ReceiverInput, a, 0)
<1> DEFINE u1 == <<Ask("rcv", 0, "nolink"), Bank("rcv", 1), Set("rcv", 1, "rport", "part")>>
           u2 == <<Bank("rcv", 0), Set("rcv", 0, "rport", "ready"), Ask("rcv", 0, "nolink"),
                   Need("fpga", "hpd", {"low"}, "fail"), Set("fpga", 0, "hpd", "high"),
                   Get("rcv", 0)>>
<1>1. Carries("rcv", u1, 0, 1)
  <2> DEFINE A == <<0, 0, 1, 1>>
  <2>1. \A i \in 1 .. 3 : Steps("rcv", u1[i], A[i], A[i + 1])
    BY Sides, AskFlow, BankFlow, SetFlow
  <2>2. u1 \in Seq({u1[i] : i \in 1 .. 3}) /\ Len(u1) = 3
    OBVIOUS
  <2>3. Carries("rcv", u1, A[1], A[Len(u1) + 1])
    BY <2>1, <2>2, Line
  <2> QED BY <2>2, <2>3
<1>2. Carries("rcv", Visit("rcv", <<0, 0, 0, 3, 7, 0, 3, 7, 0, 3, 0, 3, 0, 1>>), 1, 1)
  <2>1. <<0, 0, 0, 3, 7, 0, 3, 7, 0, 3, 0, 3, 0, 1>> \in Seq(Nat)
          /\ Len(<<0, 0, 0, 3, 7, 0, 3, 7, 0, 3, 0, 3, 0, 1>>) = 14 /\ 14 \in Nat \ {0}
    OBVIOUS
  <2> QED BY <2>1, Sides, VisitFlow
<1>3. Carries("rcv", u2, 1, 0)
  <2> DEFINE A == <<1, 0, 0, 0, 0, 0, 0>>
  <2>1. \A i \in 1 .. 6 : Steps("rcv", u2[i], A[i], A[i + 1])
    BY Sides, BankFlow, SetFlow, AskFlow, NeedFlow, GetFlow
  <2>2. u2 \in Seq({u2[i] : i \in 1 .. 6}) /\ Len(u2) = 6
    OBVIOUS
  <2>3. Carries("rcv", u2, A[1], A[Len(u2) + 1])
    BY <2>1, <2>2, Line
  <2> QED BY <2>2, <2>3
<1>4. Carries("rcv", ReceiverDdc \o u1, a, 1)
  BY ReceiverDdcBanks, <1>1, Joined
<1>5. Carries("rcv", ReceiverDdc \o u1
                     \o Visit("rcv", <<0, 0, 0, 3, 7, 0, 3, 7, 0, 3, 0, 3, 0, 1>>), a, 1)
  BY <1>4, <1>2, Joined
<1>6. Carries("rcv", ReceiverDdc \o u1
                     \o Visit("rcv", <<0, 0, 0, 3, 7, 0, 3, 7, 0, 3, 0, 3, 0, 1>>) \o u2, a, 0)
  BY <1>5, <1>3, Joined
<1> QED BY <1>6, ReceiverStatusBanks, Joined DEF ReceiverInput

(* ReceiverOutput (rv_output) accesses every bank it means to, and where it *)
(* leaves its chips.                                                        *)
LEMMA ReceiverOutputBanks ==
  Carries("rcv", ReceiverOutput, 0, 0)
<1> DEFINE u1 == <<Mark("measuring"), Ask("rcv", 0, "unsup"), Bank("rcv", 1), Get("rcv", 1),
                   Bank("rcv", 0)>>
           u2 == <<Mark("restored"), Ask("rcv", 0, "badref"), Ask("rcv", 0, "range"),
                   Mark("programming"), Set("rcv", 0, "rout", "part")>>
           u3 == <<Bank("rcv", 0), Set("rcv", 0, "rout", "on")>>
<1>1. Carries("rcv", u1, 0, 0)
  <2> DEFINE A == <<0, 0, 0, 1, 1, 0>>
  <2>1. \A i \in 1 .. 5 : Steps("rcv", u1[i], A[i], A[i + 1])
    BY Sides, MarkFlow, AskFlow, BankFlow, GetFlow
  <2>2. u1 \in Seq({u1[i] : i \in 1 .. 5}) /\ Len(u1) = 5
    OBVIOUS
  <2>3. Carries("rcv", u1, A[1], A[Len(u1) + 1])
    BY <2>1, <2>2, Line
  <2> QED BY <2>2, <2>3
<1>2. Carries("rcv", u2, 0, 0)
  <2>1. \A i \in 1 .. 5 : Steps("rcv", u2[i], 0, 0)
    BY Sides, MarkFlow, AskFlow, SetFlow
  <2>2. u2 \in Seq({u2[i] : i \in 1 .. 5}) /\ Len(u2) = 5
    OBVIOUS
  <2> QED BY <2>1, <2>2, Rest
<1>3. Carries("rcv", Visit("rcv", <<5, 1, 5, 1, 0, 1, 0, 1, 0, 1, 0>>), 0, 0)
  <2>1. <<5, 1, 5, 1, 0, 1, 0, 1, 0, 1, 0>> \in Seq(Nat)
          /\ Len(<<5, 1, 5, 1, 0, 1, 0, 1, 0, 1, 0>>) = 11 /\ 11 \in Nat \ {0}
    OBVIOUS
  <2> QED BY <2>1, Sides, VisitFlow
<1>4. Carries("rcv", Visit("rcv", <<1, 0, 1>>), 0, 1)
  <2>1. <<1, 0, 1>> \in Seq(Nat) /\ Len(<<1, 0, 1>>) = 3 /\ 3 \in Nat \ {0}
    OBVIOUS
  <2> QED BY <2>1, Sides, VisitFlow
<1>5. Carries("rcv", u3, 1, 0)
  <2> DEFINE A == <<1, 0, 0>>
  <2>1. \A i \in 1 .. 2 : Steps("rcv", u3[i], A[i], A[i + 1])
    BY Sides, BankFlow, SetFlow
  <2>2. u3 \in Seq({u3[i] : i \in 1 .. 2}) /\ Len(u3) = 2
    OBVIOUS
  <2>3. Carries("rcv", u3, A[1], A[Len(u3) + 1])
    BY <2>1, <2>2, Line
  <2> QED BY <2>2, <2>3
<1>6. Carries("rcv", u1 \o PixelSamples, 0, 0)
  BY <1>1, PixelSamplesFlow, Sides, Joined
<1>7. Carries("rcv", u1 \o PixelSamples \o u2, 0, 0)
  BY <1>6, <1>2, Joined
<1>8. Carries("rcv", u1 \o PixelSamples \o u2
                     \o Visit("rcv", <<5, 1, 5, 1, 0, 1, 0, 1, 0, 1, 0>>), 0, 0)
  BY <1>7, <1>3, Joined
<1>9. Carries("rcv", u1 \o PixelSamples \o u2 \o Visit("rcv", <<5, 1, 5, 1, 0, 1, 0, 1, 0, 1, 0>>)
                     \o Visit("rcv", <<1, 0, 1>>), 0, 1)
  BY <1>8, <1>4, Joined
<1> QED BY <1>9, <1>5, Joined DEF ReceiverOutput

(* ReceiverVideo (gc573_receiver_video) accesses every bank it means to,    *)
(* and where it leaves its chips.                                           *)
LEMMA ReceiverVideoBanks ==
  ASSUME NEW a
  PROVE  Carries("rcv", ReceiverVideo, a, 0)
<1> DEFINE u1 == <<Mark("preflight")>>
           u2 == <<Ask("rcv", 0, "nolink"), Mark("sampling"), Get("rcv", 0), Bank("rcv", 2),
                   Get("rcv", 2), Bank("rcv", 1), Get("rcv", 1), Bank("rcv", 0), Mark("format"),
                   Ask("rcv", 0, "again"), Ask("rcv", 0, "range")>>
<1>1. Carries("rcv", u1, a, a)
  <2>1. \A i \in 1 .. 1 : Steps("rcv", u1[i], a, a)
    BY Sides, MarkFlow
  <2>2. u1 \in Seq({u1[i] : i \in 1 .. 1}) /\ Len(u1) = 1
    OBVIOUS
  <2> QED BY <2>1, <2>2, Rest
<1>2. Carries("rcv", u2, 0, 0)
  <2> DEFINE A == <<0, 0, 0, 0, 2, 2, 1, 1, 0, 0, 0, 0>>
  <2>1. \A i \in 1 .. 11 : Steps("rcv", u2[i], A[i], A[i + 1])
    BY Sides, AskFlow, MarkFlow, GetFlow, BankFlow
  <2>2. u2 \in Seq({u2[i] : i \in 1 .. 11}) /\ Len(u2) = 11
    OBVIOUS
  <2>3. Carries("rcv", u2, A[1], A[Len(u2) + 1])
    BY <2>1, <2>2, Line
  <2> QED BY <2>2, <2>3
<1>3. Carries("rcv", u1 \o ReceiverStatus, a, 0)
  BY <1>1, ReceiverStatusBanks, Joined
<1>4. Carries("rcv", u1 \o ReceiverStatus \o u2, a, 0)
  BY <1>3, <1>2, Joined
<1> QED BY <1>4, ReceiverOutputBanks, Joined DEF ReceiverVideo

(* SplitterIdentify (gc573_splitter_identify_state) accesses every bank it  *)
(* means to, and where it leaves its chips.                                 *)
LEMMA SplitterIdentifyBanks ==
  ASSUME NEW a
  PROVE  Carries("spl", SplitterIdentify, a, 0) /\ Carries("srx", SplitterIdentify, a, a)
<1> DEFINE u == <<Need("fpga", "gpio", {"receiver", "board"}, "nodev"), Zero("spl", "unsup"),
                  Get("spl", 0)>>
<1>1. Carries("spl", SplitterIdentify, a, 0)
  <2>1. Carries("spl", u, a, 0)
    <3> DEFINE A == <<a, a, 0, 0>>
    <3>1. \A i \in 1 .. 3 : Steps("spl", u[i], A[i], A[i + 1])
      BY Sides, NeedFlow, ZeroFlow, GetFlow
    <3>2. u \in Seq({u[i] : i \in 1 .. 3}) /\ Len(u) = 3
      OBVIOUS
    <3>3. Carries("spl", u, A[1], A[Len(u) + 1])
      BY <3>1, <3>2, Line
    <3> QED BY <3>2, <3>3
  <2> QED BY <2>1 DEF SplitterIdentify
<1>2. Carries("srx", SplitterIdentify, a, a)
  <2>1. Carries("srx", u, a, a)
    <3>1. \A i \in 1 .. 3 : Steps("srx", u[i], a, a)
      BY Sides, NeedFlow, ZeroFlow, GetFlow
    <3>2. u \in Seq({u[i] : i \in 1 .. 3}) /\ Len(u) = 3
      OBVIOUS
    <3> QED BY <3>1, <3>2, Rest
  <2> QED BY <2>1 DEF SplitterIdentify
<1> QED BY <1>1, <1>2

(* SplitterStartup (gc573_splitter_startup) accesses every bank it means    *)
(* to, and where it leaves its chips.                                       *)
LEMMA SplitterStartupBanks ==
  Carries("spl", SplitterStartup, 0, 0) /\ Carries("srx", SplitterStartup, 0, 0)
<1> DEFINE u == <<Need("fpga", "gpio", {"receiver", "board"}, "nodev"),
                  Skip("fpga", "gpio", {"board"}, 6), Set("fpga", 0, "gpio", "board"),
                  Set("fpga", 0, "gpio", "receiver"), Reset("spl", 0), Reset("srx", 0),
                  Reset("tx", 0), Set("fpga", 0, "gpio", "board")>>
<1>1. Carries("spl", SplitterStartup, 0, 0)
  <2>1. Carries("spl", u, 0, 0)
    <3>1. \A i \in (1 .. 8) \ {2} : Steps("spl", u[i], 0, 0)
      BY Sides, NeedFlow, SetFlow, ResetFlow
    <3>2. Hops("spl", u[2], 0, 6)
      BY Sides, SkipHop
    <3>3. \A i \in 1 .. 8 : Steps("spl", u[i], 0, 0)
            \/ \E n \in Nat : Hops("spl", u[i], 0, n) /\ i + n <= 8
      BY <3>1, <3>2
    <3>4. u \in Seq({u[i] : i \in 1 .. 8}) /\ Len(u) = 8
      OBVIOUS
    <3> QED BY <3>3, <3>4, Rest
  <2> QED BY <2>1, SplitterIdentifyBanks, Joined DEF SplitterStartup
<1>2. Carries("srx", SplitterStartup, 0, 0)
  <2>1. Carries("srx", u, 0, 0)
    <3>1. \A i \in (1 .. 8) \ {2} : Steps("srx", u[i], 0, 0)
      BY Sides, NeedFlow, SetFlow, ResetFlow
    <3>2. Hops("srx", u[2], 0, 6)
      BY Sides, SkipHop
    <3>3. \A i \in 1 .. 8 : Steps("srx", u[i], 0, 0)
            \/ \E n \in Nat : Hops("srx", u[i], 0, n) /\ i + n <= 8
      BY <3>1, <3>2
    <3>4. u \in Seq({u[i] : i \in 1 .. 8}) /\ Len(u) = 8
      OBVIOUS
    <3> QED BY <3>3, <3>4, Rest
  <2> QED BY <2>1, SplitterIdentifyBanks, Joined DEF SplitterStartup
<1> QED BY <1>1, <1>2

(* SplitterPrepare (gc573_splitter_prepare) accesses every bank it means    *)
(* to, and where it leaves its chips.                                       *)
LEMMA SplitterPrepareBanks ==
  ASSUME NEW a
  PROVE  Carries("spl", SplitterPrepare, a, 0) /\ Carries("srx", SplitterPrepare, a, a)
<1> DEFINE u == <<Board, Reset("spl", 0), Zero("spl", "fail"), Get("spl", 0), Maybe(5),
                  Put("spl", 0), Ask("spl", 0, "timeout"), Bank("spl", 1), Put("spl", 1),
                  Bank("spl", 0), Set("spl", 0, "base", "ready"), Zero("spl", "fail")>>
<1>1. Carries("spl", SplitterPrepare, a, 0)
  <2>1. Carries("spl", u, 0, 0)
    <3> DEFINE A == <<0, 0, 0, 0, 0, 0, 0, 0, 1, 1, 0, 0, 0>>
    <3>1. \A i \in (1 .. 12) \ {5} : Steps("spl", u[i], A[i], A[i + 1])
      BY Sides, NeedFlow, ResetFlow, ZeroFlow, GetFlow, PutFlow, AskFlow, BankFlow,
        SetFlow DEF Board
    <3>2. Hops("spl", u[5], 0, 5)
      BY Sides, MaybeHop DEF Board
    <3>3. \A i \in 1 .. 12 :
            \/ Steps("spl", u[i], A[i], A[i + 1])
            \/ \E n \in Nat : /\ Hops("spl", u[i], A[i], n) /\ i + n <= 12
                              /\ A[i + 1] = A[i] /\ A[i + 1 + n] = A[i]
      BY <3>1, <3>2
    <3>4. u \in Seq({u[i] : i \in 1 .. 12}) /\ Len(u) = 12
      OBVIOUS
    <3>5. Carries("spl", u, A[1], A[Len(u) + 1])
      BY <3>3, <3>4, Line
    <3> QED BY <3>4, <3>5
  <2> QED BY SplitterIdentifyBanks, <2>1, Joined DEF SplitterPrepare
<1>2. Carries("srx", SplitterPrepare, a, a)
  <2>1. Carries("srx", u, a, a)
    <3>1. \A i \in (1 .. 12) \ {5} : Steps("srx", u[i], a, a)
      BY Sides, NeedFlow, ResetFlow, ZeroFlow, GetFlow, PutFlow, AskFlow, BankFlow,
        SetFlow DEF Board
    <3>2. Hops("srx", u[5], a, 5)
      BY Sides, MaybeHop DEF Board
    <3>3. \A i \in 1 .. 12 : Steps("srx", u[i], a, a)
            \/ \E n \in Nat : Hops("srx", u[i], a, n) /\ i + n <= 12
      BY <3>1, <3>2
    <3>4. u \in Seq({u[i] : i \in 1 .. 12}) /\ Len(u) = 12
      OBVIOUS
    <3> QED BY <3>3, <3>4, Rest
  <2> QED BY SplitterIdentifyBanks, <2>1, Joined DEF SplitterPrepare
<1> QED BY <1>1, <1>2

(* SplitterClock (gc573_splitter_clock) accesses every bank it means to,    *)
(* and where it leaves its chips.                                           *)
LEMMA SplitterClockBanks ==
  ASSUME NEW a
  PROVE  Carries("spl", SplitterClock, a, 0) /\ Carries("srx", SplitterClock, a, a)
<1> DEFINE u == <<Board, Based, Put("spl", 0), Bank("spl", 0), Put("spl", 0), Get("spl", 0),
                  Late("spl", 0, "range", 0), Put("spl", 0), Bank("spl", 0), Put("spl", 0), Due>>
<1>1. Carries("spl", SplitterClock, a, 0)
  <2>1. Carries("spl", u, 0, 0)
    <3>1. \A i \in 1 .. 11 : Steps("spl", u[i], 0, 0)
      BY Sides, NeedFlow, PutFlow, BankFlow, GetFlow, LateFlow, DueFlow DEF Board, Based
    <3>2. u \in Seq({u[i] : i \in 1 .. 11}) /\ Len(u) = 11
      OBVIOUS
    <3> QED BY <3>1, <3>2, Rest
  <2> QED BY SplitterIdentifyBanks, <2>1, Joined DEF SplitterClock
<1>2. Carries("srx", SplitterClock, a, a)
  <2>1. Carries("srx", u, a, a)
    <3>1. \A i \in 1 .. 11 : Steps("srx", u[i], a, a)
      BY Sides, NeedFlow, PutFlow, BankFlow, GetFlow, LateFlow, DueFlow DEF Board, Based
    <3>2. u \in Seq({u[i] : i \in 1 .. 11}) /\ Len(u) = 11
      OBVIOUS
    <3> QED BY <3>1, <3>2, Rest
  <2> QED BY SplitterIdentifyBanks, <2>1, Joined DEF SplitterClock
<1> QED BY <1>1, <1>2

(* SplitterTiming (gc573_splitter_timing) accesses every bank it means to,  *)
(* and where it leaves its chips.                                           *)
LEMMA SplitterTimingBanks ==
  ASSUME NEW a
  PROVE  Carries("spl", SplitterTiming, a, 0) /\ Carries("srx", SplitterTiming, a, a)
<1> DEFINE u == <<Based, Put("spl", 0), Zero("spl", "fail")>>
<1>1. Carries("spl", SplitterTiming, a, 0)
  <2>1. Carries("spl", u, 0, 0)
    <3>1. \A i \in 1 .. 3 : Steps("spl", u[i], 0, 0)
      BY Sides, NeedFlow, PutFlow, ZeroFlow DEF Based
    <3>2. u \in Seq({u[i] : i \in 1 .. 3}) /\ Len(u) = 3
      OBVIOUS
    <3> QED BY <3>1, <3>2, Rest
  <2> QED BY SplitterClockBanks, <2>1, Joined DEF SplitterTiming
<1>2. Carries("srx", SplitterTiming, a, a)
  <2>1. Carries("srx", u, a, a)
    <3>1. \A i \in 1 .. 3 : Steps("srx", u[i], a, a)
      BY Sides, NeedFlow, PutFlow, ZeroFlow DEF Based
    <3>2. u \in Seq({u[i] : i \in 1 .. 3}) /\ Len(u) = 3
      OBVIOUS
    <3> QED BY <3>1, <3>2, Rest
  <2> QED BY SplitterClockBanks, <2>1, Joined DEF SplitterTiming
<1> QED BY <1>1, <1>2

(* SplitterMap (gc573_splitter_map) accesses every bank it means to, and    *)
(* where it leaves its chips.                                               *)
LEMMA SplitterMapBanks ==
  ASSUME NEW a
  PROVE  Carries("spl", SplitterMap, a, 0) /\ Carries("srx", SplitterMap, a, 0)
<1> DEFINE u == <<Based, Set("spl", 0, "map", "set"), Based, Zero("srx", "unsup"), Get("srx", 0),
                  Zero("spl", "fail")>>
<1>1. Carries("spl", SplitterMap, a, 0)
  <2>1. Carries("spl", u, 0, 0)
    <3>1. \A i \in 1 .. 6 : Steps("spl", u[i], 0, 0)
      BY Sides, NeedFlow, SetFlow, ZeroFlow, GetFlow DEF Based
    <3>2. u \in Seq({u[i] : i \in 1 .. 6}) /\ Len(u) = 6
      OBVIOUS
    <3> QED BY <3>1, <3>2, Rest
  <2> QED BY SplitterTimingBanks, <2>1, Joined DEF SplitterMap
<1>2. Carries("srx", SplitterMap, a, 0)
  <2>1. Carries("srx", u, a, 0)
    <3> DEFINE A == <<a, a, a, a, 0, 0, 0>>
    <3>1. \A i \in 1 .. 6 : Steps("srx", u[i], A[i], A[i + 1])
      BY Sides, NeedFlow, SetFlow, ZeroFlow, GetFlow DEF Based
    <3>2. u \in Seq({u[i] : i \in 1 .. 6}) /\ Len(u) = 6
      OBVIOUS
    <3>3. Carries("srx", u, A[1], A[Len(u) + 1])
      BY <3>1, <3>2, Line
    <3> QED BY <3>2, <3>3
  <2> QED BY SplitterTimingBanks, <2>1, Joined DEF SplitterMap
<1> QED BY <1>1, <1>2

(* SplitterCalibrate (gc573_splitter_calibrate) accesses every bank it      *)
(* means to, and where it leaves its chips.                                 *)
LEMMA SplitterCalibrateBanks ==
  ASSUME NEW a
  PROVE  Carries("spl", SplitterCalibrate, a, 0) /\ Carries("srx", SplitterCalibrate, a, 0)
<1> DEFINE u1 == <<Reset("srx", 0), Zero("srx", "fail"),
                   Need("srx", "scal", {"clear", "done"}, "busy"), Bank("srx", 0),
                   Poke("srx", 0, "scal", "flagged")>>
           u2 == <<Bank("srx", 0), Late("srx", 0, "timeout", 0), Bank("srx", 3), Get("srx", 3),
                   Put("srx", 3), Bank("srx", 0), Poke("srx", 0, "scal", "done"), Put("srx", 0),
                   Zero("srx", "fail"), Get("srx", 0), Due>>
<1>1. Carries("spl", SplitterCalibrate, a, 0)
  <2>1. Carries("spl", u1, 0, 0)
    <3>1. \A i \in 1 .. 5 : Steps("spl", u1[i], 0, 0)
      BY Sides, ResetFlow, ZeroFlow, NeedFlow, BankFlow, PokeFlow
    <3>2. u1 \in Seq({u1[i] : i \in 1 .. 5}) /\ Len(u1) = 5
      OBVIOUS
    <3> QED BY <3>1, <3>2, Rest
  <2>2. Carries("spl", Visit("srx", <<3, 0, 3>>), 0, 0)
    <3>1. <<3, 0, 3>>
          \in Seq(Nat)
        /\ Len(<<3, 0, 3>>) = 3 /\ 3 \in Nat \ {0}
      OBVIOUS
    <3> QED BY <3>1, Sides, VisitFlow
  <2>3. Carries("spl", u2, 0, 0)
    <3>1. \A i \in 1 .. 11 : Steps("spl", u2[i], 0, 0)
      BY Sides, BankFlow, LateFlow, GetFlow, PutFlow, PokeFlow, ZeroFlow, DueFlow
    <3>2. u2 \in Seq({u2[i] : i \in 1 .. 11}) /\ Len(u2) = 11
      OBVIOUS
    <3> QED BY <3>1, <3>2, Rest
  <2>4. Carries("spl", SplitterMap \o u1, a, 0)
    BY SplitterMapBanks, <2>1, Joined
  <2>5. Carries("spl", SplitterMap \o u1 \o Visit("srx", <<3, 0, 3>>), a, 0)
    BY <2>4, <2>2, Joined
  <2> QED BY <2>5, <2>3, Joined DEF SplitterCalibrate
<1>2. Carries("srx", SplitterCalibrate, a, 0)
  <2>1. Carries("srx", u1, 0, 0)
    <3>1. \A i \in 1 .. 5 : Steps("srx", u1[i], 0, 0)
      BY Sides, ResetFlow, ZeroFlow, NeedFlow, BankFlow, PokeFlow
    <3>2. u1 \in Seq({u1[i] : i \in 1 .. 5}) /\ Len(u1) = 5
      OBVIOUS
    <3> QED BY <3>1, <3>2, Rest
  <2>2. Carries("srx", Visit("srx", <<3, 0, 3>>), 0, 3)
    <3>1. <<3, 0, 3>>
          \in Seq(Nat)
        /\ Len(<<3, 0, 3>>) = 3 /\ 3 \in Nat \ {0}
      OBVIOUS
    <3> QED BY <3>1, Sides, VisitFlow
  <2>3. Carries("srx", u2, 3, 0)
    <3> DEFINE A == <<3, 0, 0, 3, 3, 3, 0, 0, 0, 0, 0, 0>>
    <3>1. \A i \in 1 .. 11 : Steps("srx", u2[i], A[i], A[i + 1])
      BY Sides, BankFlow, LateFlow, GetFlow, PutFlow, PokeFlow, ZeroFlow, DueFlow
    <3>2. u2 \in Seq({u2[i] : i \in 1 .. 11}) /\ Len(u2) = 11
      OBVIOUS
    <3>3. Carries("srx", u2, A[1], A[Len(u2) + 1])
      BY <3>1, <3>2, Line
    <3> QED BY <3>2, <3>3
  <2>4. Carries("srx", SplitterMap \o u1, a, 0)
    BY SplitterMapBanks, <2>1, Joined
  <2>5. Carries("srx", SplitterMap \o u1 \o Visit("srx", <<3, 0, 3>>), a, 3)
    BY <2>4, <2>2, Joined
  <2> QED BY <2>5, <2>3, Joined DEF SplitterCalibrate
<1> QED BY <1>1, <1>2

(* SplitterSetup (gc573_splitter_setup) accesses every bank it means to,    *)
(* and where it leaves its chips.                                           *)
LEMMA SplitterSetupBanks ==
  ASSUME NEW a
  PROVE  Carries("spl", SplitterSetup, a, 0) /\ Carries("srx", SplitterSetup, a, 0)
<1> DEFINE u1 == <<Put("srx", 0)>>
           u2 == <<Set("srx", 0, "s26", "on"), Put("srx", 0), Zero("srx", "fail")>>
<1>1. Carries("spl", SplitterSetup, a, 0)
  <2>1. Carries("spl", u1, 0, 0)
    <3>1. \A i \in 1 .. 1 : Steps("spl", u1[i], 0, 0)
      BY Sides, PutFlow
    <3>2. u1 \in Seq({u1[i] : i \in 1 .. 1}) /\ Len(u1) = 1
      OBVIOUS
    <3> QED BY <3>1, <3>2, Rest
  <2>2. Carries("spl", Visit("srx", <<3, 0, 3, 0>>), 0, 0)
    <3>1. <<3, 0, 3, 0>>
          \in Seq(Nat)
        /\ Len(<<3, 0, 3, 0>>) = 4 /\ 4 \in Nat \ {0}
      OBVIOUS
    <3> QED BY <3>1, Sides, VisitFlow
  <2>3. Carries("spl", u2, 0, 0)
    <3>1. \A i \in 1 .. 3 : Steps("spl", u2[i], 0, 0)
      BY Sides, SetFlow, PutFlow, ZeroFlow
    <3>2. u2 \in Seq({u2[i] : i \in 1 .. 3}) /\ Len(u2) = 3
      OBVIOUS
    <3> QED BY <3>1, <3>2, Rest
  <2>4. Carries("spl", SplitterCalibrate \o u1, a, 0)
    BY SplitterCalibrateBanks, <2>1, Joined
  <2>5. Carries("spl", SplitterCalibrate \o u1 \o Visit("srx", <<3, 0, 3, 0>>), a, 0)
    BY <2>4, <2>2, Joined
  <2> QED BY <2>5, <2>3, Joined DEF SplitterSetup
<1>2. Carries("srx", SplitterSetup, a, 0)
  <2>1. Carries("srx", u1, 0, 0)
    <3>1. \A i \in 1 .. 1 : Steps("srx", u1[i], 0, 0)
      BY Sides, PutFlow
    <3>2. u1 \in Seq({u1[i] : i \in 1 .. 1}) /\ Len(u1) = 1
      OBVIOUS
    <3> QED BY <3>1, <3>2, Rest
  <2>2. Carries("srx", Visit("srx", <<3, 0, 3, 0>>), 0, 0)
    <3>1. <<3, 0, 3, 0>>
          \in Seq(Nat)
        /\ Len(<<3, 0, 3, 0>>) = 4 /\ 4 \in Nat \ {0}
      OBVIOUS
    <3> QED BY <3>1, Sides, VisitFlow
  <2>3. Carries("srx", u2, 0, 0)
    <3>1. \A i \in 1 .. 3 : Steps("srx", u2[i], 0, 0)
      BY Sides, SetFlow, PutFlow, ZeroFlow
    <3>2. u2 \in Seq({u2[i] : i \in 1 .. 3}) /\ Len(u2) = 3
      OBVIOUS
    <3> QED BY <3>1, <3>2, Rest
  <2>4. Carries("srx", SplitterCalibrate \o u1, a, 0)
    BY SplitterCalibrateBanks, <2>1, Joined
  <2>5. Carries("srx", SplitterCalibrate \o u1 \o Visit("srx", <<3, 0, 3, 0>>), a, 0)
    BY <2>4, <2>2, Joined
  <2> QED BY <2>5, <2>3, Joined DEF SplitterSetup
<1> QED BY <1>1, <1>2

(* SplitterFinish (gc573_splitter_finish) accesses every bank it means to,  *)
(* and where it leaves its chips.                                           *)
LEMMA SplitterFinishBanks ==
  ASSUME NEW a
  PROVE  Carries("spl", SplitterFinish, a, 0) /\ Carries("srx", SplitterFinish, a, 0)
<1> DEFINE u1 == <<Bank("srx", 3), Set("srx", 3, "sab", "other"), Bank("srx", 0), Put("srx", 0),
                   Put("spl", 0), Bank("srx", 3), Maybe(1), Put("srx", 3), Bank("srx", 0),
                   Set("srx", 0, "s26", "on"), Set("srx", 0, "s55", "off")>>
           u2 == <<Bank("srx", 0), Zero("srx", "fail"), Zero("spl", "fail"), Get("srx", 0)>>
<1>1. Carries("spl", SplitterFinish, a, 0)
  <2>1. Carries("spl", u1, 0, 0)
    <3>1. \A i \in (1 .. 11) \ {7} : Steps("spl", u1[i], 0, 0)
      BY Sides, BankFlow, SetFlow, PutFlow
    <3>2. Hops("spl", u1[7], 0, 1)
      BY Sides, MaybeHop
    <3>3. \A i \in 1 .. 11 : Steps("spl", u1[i], 0, 0)
            \/ \E n \in Nat : Hops("spl", u1[i], 0, n) /\ i + n <= 11
      BY <3>1, <3>2
    <3>4. u1 \in Seq({u1[i] : i \in 1 .. 11}) /\ Len(u1) = 11
      OBVIOUS
    <3> QED BY <3>3, <3>4, Rest
  <2>2. Carries("spl", Visit("srx", <<3>>), 0, 0)
    <3>1. <<3>> \in Seq(Nat) /\ Len(<<3>>) = 1 /\ 1 \in Nat \ {0}
      OBVIOUS
    <3> QED BY <3>1, Sides, VisitFlow
  <2>3. Carries("spl", u2, 0, 0)
    <3>1. \A i \in 1 .. 4 : Steps("spl", u2[i], 0, 0)
      BY Sides, BankFlow, ZeroFlow, GetFlow
    <3>2. u2 \in Seq({u2[i] : i \in 1 .. 4}) /\ Len(u2) = 4
      OBVIOUS
    <3> QED BY <3>1, <3>2, Rest
  <2>4. Carries("spl", SplitterSetup \o u1, a, 0)
    BY SplitterSetupBanks, <2>1, Joined
  <2>5. Carries("spl", SplitterSetup \o u1 \o Visit("srx", <<3>>), a, 0)
    BY <2>4, <2>2, Joined
  <2> QED BY <2>5, <2>3, Joined DEF SplitterFinish
<1>2. Carries("srx", SplitterFinish, a, 0)
  <2>1. Carries("srx", u1, 0, 0)
    <3> DEFINE A == <<0, 3, 3, 0, 0, 0, 3, 3, 3, 0, 0, 0>>
    <3>1. \A i \in (1 .. 11) \ {7} : Steps("srx", u1[i], A[i], A[i + 1])
      BY Sides, BankFlow, SetFlow, PutFlow
    <3>2. Hops("srx", u1[7], 3, 1)
      BY Sides, MaybeHop
    <3>3. \A i \in 1 .. 11 :
            \/ Steps("srx", u1[i], A[i], A[i + 1])
            \/ \E n \in Nat : /\ Hops("srx", u1[i], A[i], n) /\ i + n <= 11
                              /\ A[i + 1] = A[i] /\ A[i + 1 + n] = A[i]
      BY <3>1, <3>2
    <3>4. u1 \in Seq({u1[i] : i \in 1 .. 11}) /\ Len(u1) = 11
      OBVIOUS
    <3>5. Carries("srx", u1, A[1], A[Len(u1) + 1])
      BY <3>3, <3>4, Line
    <3> QED BY <3>4, <3>5
  <2>2. Carries("srx", Visit("srx", <<3>>), 0, 3)
    <3>1. <<3>> \in Seq(Nat) /\ Len(<<3>>) = 1 /\ 1 \in Nat \ {0}
      OBVIOUS
    <3> QED BY <3>1, Sides, VisitFlow
  <2>3. Carries("srx", u2, 3, 0)
    <3> DEFINE A == <<3, 0, 0, 0, 0>>
    <3>1. \A i \in 1 .. 4 : Steps("srx", u2[i], A[i], A[i + 1])
      BY Sides, BankFlow, ZeroFlow, GetFlow
    <3>2. u2 \in Seq({u2[i] : i \in 1 .. 4}) /\ Len(u2) = 4
      OBVIOUS
    <3>3. Carries("srx", u2, A[1], A[Len(u2) + 1])
      BY <3>1, <3>2, Line
    <3> QED BY <3>2, <3>3
  <2>4. Carries("srx", SplitterSetup \o u1, a, 0)
    BY SplitterSetupBanks, <2>1, Joined
  <2>5. Carries("srx", SplitterSetup \o u1 \o Visit("srx", <<3>>), a, 3)
    BY <2>4, <2>2, Joined
  <2> QED BY <2>5, <2>3, Joined DEF SplitterFinish
<1> QED BY <1>1, <1>2

(* SplitterTxPrepare (gc573_splitter_tx_prepare) accesses every bank it     *)
(* means to, and where it leaves its chips.                                 *)
LEMMA SplitterTxPrepareBanks ==
  ASSUME NEW a
  PROVE  Carries("spl", SplitterTxPrepare, a, 0) /\ Carries("srx", SplitterTxPrepare, a, 0)
<1> DEFINE u == <<Based, Set("srx", 0, "sddc", "off"), Reset("tx", 0), Mapped, Get("tx", 0),
                  Zero("srx", "fail"), Zero("spl", "fail"), Get("srx", 0)>>
<1>1. Carries("spl", SplitterTxPrepare, a, 0)
  <2>1. Carries("spl", u, 0, 0)
    <3>1. \A i \in 1 .. 8 : Steps("spl", u[i], 0, 0)
      BY Sides, NeedFlow, SetFlow, ResetFlow, GetFlow, ZeroFlow DEF Based, Mapped
    <3>2. u \in Seq({u[i] : i \in 1 .. 8}) /\ Len(u) = 8
      OBVIOUS
    <3> QED BY <3>1, <3>2, Rest
  <2> QED BY SplitterFinishBanks, <2>1, Joined DEF SplitterTxPrepare
<1>2. Carries("srx", SplitterTxPrepare, a, 0)
  <2>1. Carries("srx", u, 0, 0)
    <3>1. \A i \in 1 .. 8 : Steps("srx", u[i], 0, 0)
      BY Sides, NeedFlow, SetFlow, ResetFlow, GetFlow, ZeroFlow DEF Based, Mapped
    <3>2. u \in Seq({u[i] : i \in 1 .. 8}) /\ Len(u) = 8
      OBVIOUS
    <3> QED BY <3>1, <3>2, Rest
  <2> QED BY SplitterFinishBanks, <2>1, Joined DEF SplitterTxPrepare
<1> QED BY <1>1, <1>2

(* Port (port_ops) accesses every bank it means to, and where it leaves its *)
(* chips.                                                                   *)
LEMMA PortBanks ==
  ASSUME NEW a
  PROVE  Carries("spl", Port, 0, 0) /\ Carries("srx", Port, a, a)
<1> DEFINE u == <<Put("spl", 0), Put("tx", 0), Put("spl", 0), Get("tx", 0), Maybe(1),
                  Put("spl", 0), Put("tx", 0), Put("spl", 0), Put("tx", 0)>>
<1>1. Carries("spl", Port, 0, 0)
  <2>1. Carries("spl", u, 0, 0)
    <3>1. \A i \in (1 .. 9) \ {5} : Steps("spl", u[i], 0, 0)
      BY Sides, PutFlow, GetFlow
    <3>2. Hops("spl", u[5], 0, 1)
      BY Sides, MaybeHop
    <3>3. \A i \in 1 .. 9 : Steps("spl", u[i], 0, 0)
            \/ \E n \in Nat : Hops("spl", u[i], 0, n) /\ i + n <= 9
      BY <3>1, <3>2
    <3>4. u \in Seq({u[i] : i \in 1 .. 9}) /\ Len(u) = 9
      OBVIOUS
    <3> QED BY <3>3, <3>4, Rest
  <2> QED BY <2>1 DEF Port
<1>2. Carries("srx", Port, a, a)
  <2>1. Carries("srx", u, a, a)
    <3>1. \A i \in (1 .. 9) \ {5} : Steps("srx", u[i], a, a)
      BY Sides, PutFlow, GetFlow
    <3>2. Hops("srx", u[5], a, 1)
      BY Sides, MaybeHop
    <3>3. \A i \in 1 .. 9 : Steps("srx", u[i], a, a)
            \/ \E n \in Nat : Hops("srx", u[i], a, n) /\ i + n <= 9
      BY <3>1, <3>2
    <3>4. u \in Seq({u[i] : i \in 1 .. 9}) /\ Len(u) = 9
      OBVIOUS
    <3> QED BY <3>3, <3>4, Rest
  <2> QED BY <2>1 DEF Port
<1> QED BY <1>1, <1>2

(* SplitterTxPorts (gc573_splitter_tx_ports) accesses every bank it means   *)
(* to, and where it leaves its chips.                                       *)
LEMMA SplitterTxPortsBanks ==
  ASSUME NEW a
  PROVE  Carries("spl", SplitterTxPorts, a, 0) /\ Carries("srx", SplitterTxPorts, a, 0)
<1> DEFINE u1 == <<Based, Mapped>>
           u2 == <<Put("tx", 0), Put("spl", 0)>>
           u3 == <<Put("tx", 0), Put("spl", 0)>>
           u4 == <<Put("spl", 0), Put("tx", 0), Put("spl", 0), Bank("spl", 1), Put("spl", 1),
                   Bank("spl", 0), Put("spl", 0), Set("tx", 0, "tx1", "cold"),
                   Set("tx", 0, "tx2", "cold"), Get("tx", 0), Zero("srx", "fail"),
                   Zero("spl", "fail"), Get("srx", 0)>>
<1>1. Carries("spl", SplitterTxPorts, a, 0)
  <2>1. Carries("spl", u1, 0, 0)
    <3>1. \A i \in 1 .. 2 : Steps("spl", u1[i], 0, 0)
      BY Sides, NeedFlow DEF Based, Mapped
    <3>2. u1 \in Seq({u1[i] : i \in 1 .. 2}) /\ Len(u1) = 2
      OBVIOUS
    <3> QED BY <3>1, <3>2, Rest
  <2>2. Carries("spl", u2, 0, 0)
    <3>1. \A i \in 1 .. 2 : Steps("spl", u2[i], 0, 0)
      BY Sides, PutFlow
    <3>2. u2 \in Seq({u2[i] : i \in 1 .. 2}) /\ Len(u2) = 2
      OBVIOUS
    <3> QED BY <3>1, <3>2, Rest
  <2>3. Carries("spl", u3, 0, 0)
    <3>1. \A i \in 1 .. 2 : Steps("spl", u3[i], 0, 0)
      BY Sides, PutFlow
    <3>2. u3 \in Seq({u3[i] : i \in 1 .. 2}) /\ Len(u3) = 2
      OBVIOUS
    <3> QED BY <3>1, <3>2, Rest
  <2>4. Carries("spl", u4, 0, 0)
    <3> DEFINE A == <<0, 0, 0, 0, 1, 1, 0, 0, 0, 0, 0, 0, 0, 0>>
    <3>1. \A i \in 1 .. 13 : Steps("spl", u4[i], A[i], A[i + 1])
      BY Sides, PutFlow, BankFlow, SetFlow, GetFlow, ZeroFlow
    <3>2. u4 \in Seq({u4[i] : i \in 1 .. 13}) /\ Len(u4) = 13
      OBVIOUS
    <3>3. Carries("spl", u4, A[1], A[Len(u4) + 1])
      BY <3>1, <3>2, Line
    <3> QED BY <3>2, <3>3
  <2>5. Carries("spl", SplitterTxPrepare \o u1, a, 0)
    BY SplitterTxPrepareBanks, <2>1, Joined
  <2>6. Carries("spl", SplitterTxPrepare \o u1 \o Port, a, 0)
    BY <2>5, PortBanks, Joined
  <2>7. Carries("spl", SplitterTxPrepare \o u1 \o Port \o Port, a, 0)
    BY <2>6, PortBanks, Joined
  <2>8. Carries("spl", SplitterTxPrepare \o u1 \o Port \o Port \o u2, a, 0)
    BY <2>7, <2>2, Joined
  <2>9. Carries("spl", SplitterTxPrepare \o u1 \o Port \o Port \o u2 \o Port, a, 0)
    BY <2>8, PortBanks, Joined
  <2>10. Carries("spl", SplitterTxPrepare \o u1 \o Port \o Port \o u2 \o Port \o u3, a, 0)
    BY <2>9, <2>3, Joined
  <2>11. Carries("spl", SplitterTxPrepare \o u1 \o Port \o Port \o u2 \o Port \o u3 \o Port, a, 0)
    BY <2>10, PortBanks, Joined
  <2> QED BY <2>11, <2>4, Joined DEF SplitterTxPorts
<1>2. Carries("srx", SplitterTxPorts, a, 0)
  <2>1. Carries("srx", u1, 0, 0)
    <3>1. \A i \in 1 .. 2 : Steps("srx", u1[i], 0, 0)
      BY Sides, NeedFlow DEF Based, Mapped
    <3>2. u1 \in Seq({u1[i] : i \in 1 .. 2}) /\ Len(u1) = 2
      OBVIOUS
    <3> QED BY <3>1, <3>2, Rest
  <2>2. Carries("srx", u2, 0, 0)
    <3>1. \A i \in 1 .. 2 : Steps("srx", u2[i], 0, 0)
      BY Sides, PutFlow
    <3>2. u2 \in Seq({u2[i] : i \in 1 .. 2}) /\ Len(u2) = 2
      OBVIOUS
    <3> QED BY <3>1, <3>2, Rest
  <2>3. Carries("srx", u3, 0, 0)
    <3>1. \A i \in 1 .. 2 : Steps("srx", u3[i], 0, 0)
      BY Sides, PutFlow
    <3>2. u3 \in Seq({u3[i] : i \in 1 .. 2}) /\ Len(u3) = 2
      OBVIOUS
    <3> QED BY <3>1, <3>2, Rest
  <2>4. Carries("srx", u4, 0, 0)
    <3>1. \A i \in 1 .. 13 : Steps("srx", u4[i], 0, 0)
      BY Sides, PutFlow, BankFlow, SetFlow, GetFlow, ZeroFlow
    <3>2. u4 \in Seq({u4[i] : i \in 1 .. 13}) /\ Len(u4) = 13
      OBVIOUS
    <3> QED BY <3>1, <3>2, Rest
  <2>5. Carries("srx", SplitterTxPrepare \o u1, a, 0)
    BY SplitterTxPrepareBanks, <2>1, Joined
  <2>6. Carries("srx", SplitterTxPrepare \o u1 \o Port, a, 0)
    BY <2>5, PortBanks, Joined
  <2>7. Carries("srx", SplitterTxPrepare \o u1 \o Port \o Port, a, 0)
    BY <2>6, PortBanks, Joined
  <2>8. Carries("srx", SplitterTxPrepare \o u1 \o Port \o Port \o u2, a, 0)
    BY <2>7, <2>2, Joined
  <2>9. Carries("srx", SplitterTxPrepare \o u1 \o Port \o Port \o u2 \o Port, a, 0)
    BY <2>8, PortBanks, Joined
  <2>10. Carries("srx", SplitterTxPrepare \o u1 \o Port \o Port \o u2 \o Port \o u3, a, 0)
    BY <2>9, <2>3, Joined
  <2>11. Carries("srx", SplitterTxPrepare \o u1 \o Port \o Port \o u2 \o Port \o u3 \o Port, a, 0)
    BY <2>10, PortBanks, Joined
  <2> QED BY <2>11, <2>4, Joined DEF SplitterTxPorts
<1> QED BY <1>1, <1>2

(* SplitterLinkStatus (gc573_splitter_link_status) accesses every bank it   *)
(* means to, and where it leaves its chips.                                 *)
LEMMA SplitterLinkStatusBanks ==
  ASSUME NEW a
  PROVE  Carries("spl", SplitterLinkStatus, a, 0) /\ Carries("srx", SplitterLinkStatus, a, 0)
<1> DEFINE u == <<Board, Based, Mapped, Zero("srx", "unsup"), Get("srx", 0), Zero("srx", "fail"),
                  Zero("spl", "fail")>>
<1>1. Carries("spl", SplitterLinkStatus, a, 0)
  <2>1. Carries("spl", u, 0, 0)
    <3>1. \A i \in 1 .. 7 : Steps("spl", u[i], 0, 0)
      BY Sides, NeedFlow, ZeroFlow, GetFlow DEF Board, Based, Mapped
    <3>2. u \in Seq({u[i] : i \in 1 .. 7}) /\ Len(u) = 7
      OBVIOUS
    <3> QED BY <3>1, <3>2, Rest
  <2> QED BY SplitterIdentifyBanks, <2>1, Joined DEF SplitterLinkStatus
<1>2. Carries("srx", SplitterLinkStatus, a, 0)
  <2>1. Carries("srx", u, a, 0)
    <3> DEFINE A == <<a, a, a, a, 0, 0, 0, 0>>
    <3>1. \A i \in 1 .. 7 : Steps("srx", u[i], A[i], A[i + 1])
      BY Sides, NeedFlow, ZeroFlow, GetFlow DEF Board, Based, Mapped
    <3>2. u \in Seq({u[i] : i \in 1 .. 7}) /\ Len(u) = 7
      OBVIOUS
    <3>3. Carries("srx", u, A[1], A[Len(u) + 1])
      BY <3>1, <3>2, Line
    <3> QED BY <3>2, <3>3
  <2> QED BY SplitterIdentifyBanks, <2>1, Joined DEF SplitterLinkStatus
<1> QED BY <1>1, <1>2

(* RaiseHotplug (gc573_splitter_input_hpd) accesses every bank it means to, *)
(* and where it leaves its chips.                                           *)
LEMMA RaiseHotplugBanks ==
  ASSUME NEW a
  PROVE  Carries("spl", RaiseHotplug, a, a) /\ Carries("srx", RaiseHotplug, a, 0)
<1> DEFINE u == <<Bank("srx", 3), Set("srx", 3, "sab", "ca"), Bank("srx", 0),
                  Set("srx", 0, "s26", "off"), Set("srx", 0, "s55", "on"), Get("srx", 0)>>
<1>1. Carries("spl", RaiseHotplug, a, a)
  <2>1. Carries("spl", u, a, a)
    <3>1. \A i \in 1 .. 6 : Steps("spl", u[i], a, a)
      BY Sides, BankFlow, SetFlow, GetFlow
    <3>2. u \in Seq({u[i] : i \in 1 .. 6}) /\ Len(u) = 6
      OBVIOUS
    <3> QED BY <3>1, <3>2, Rest
  <2> QED BY <2>1 DEF RaiseHotplug
<1>2. Carries("srx", RaiseHotplug, a, 0)
  <2>1. Carries("srx", u, a, 0)
    <3> DEFINE A == <<a, 3, 3, 0, 0, 0, 0>>
    <3>1. \A i \in 1 .. 6 : Steps("srx", u[i], A[i], A[i + 1])
      BY Sides, BankFlow, SetFlow, GetFlow
    <3>2. u \in Seq({u[i] : i \in 1 .. 6}) /\ Len(u) = 6
      OBVIOUS
    <3>3. Carries("srx", u, A[1], A[Len(u) + 1])
      BY <3>1, <3>2, Line
    <3> QED BY <3>2, <3>3
  <2> QED BY <2>1 DEF RaiseHotplug
<1> QED BY <1>1, <1>2

(* SplitterInputHpd (gc573_splitter_input_hpd) accesses every bank it means *)
(* to, and where it leaves its chips.                                       *)
LEMMA SplitterInputHpdBanks ==
  ASSUME NEW a
  PROVE  Carries("spl", SplitterInputHpd, a, 0) /\ Carries("srx", SplitterInputHpd, a, 0)
<1> DEFINE u1 == <<Ask("srx", 0, "nopower"), Ask("tx", 0, "unsup"),
                   Need("srx", "s26", {"on"}, "unsup"), Need("srx", "s55", {"off"}, "unsup"),
                   Need("srx", "sddc", {"off"}, "unsup"), Put("spl", 0), Bank("srx", 0),
                   Ask("srx", 0, "nolink")>>
           u2 == <<Bank("srx", 0), Set("srx", 0, "s26", "off"), Put("spl", 0),
                   Ask("srx", 0, "nolink")>>
<1>1. Carries("spl", SplitterInputHpd, a, 0)
  <2>1. Carries("spl", u1, 0, 0)
    <3>1. \A i \in 1 .. 8 : Steps("spl", u1[i], 0, 0)
      BY Sides, AskFlow, NeedFlow, PutFlow, BankFlow
    <3>2. u1 \in Seq({u1[i] : i \in 1 .. 8}) /\ Len(u1) = 8
      OBVIOUS
    <3> QED BY <3>1, <3>2, Rest
  <2>2. Carries("spl", Visit("srx", <<3>>), 0, 0)
    <3>1. <<3>> \in Seq(Nat) /\ Len(<<3>>) = 1 /\ 1 \in Nat \ {0}
      OBVIOUS
    <3> QED BY <3>1, Sides, VisitFlow
  <2>3. Carries("spl", u2, 0, 0)
    <3>1. \A i \in 1 .. 4 : Steps("spl", u2[i], 0, 0)
      BY Sides, BankFlow, SetFlow, PutFlow, AskFlow
    <3>2. u2 \in Seq({u2[i] : i \in 1 .. 4}) /\ Len(u2) = 4
      OBVIOUS
    <3> QED BY <3>1, <3>2, Rest
  <2>4. Carries("spl", SplitterLinkStatus \o u1, a, 0)
    BY SplitterLinkStatusBanks, <2>1, Joined
  <2>5. Carries("spl", SplitterLinkStatus \o u1 \o Visit("srx", <<3>>), a, 0)
    BY <2>4, <2>2, Joined
  <2>6. Carries("spl", SplitterLinkStatus \o u1 \o Visit("srx", <<3>>) \o u2, a, 0)
    BY <2>5, <2>3, Joined
  <2> QED BY <2>6, RaiseHotplugBanks, Joined DEF SplitterInputHpd
<1>2. Carries("srx", SplitterInputHpd, a, 0)
  <2>1. Carries("srx", u1, 0, 0)
    <3>1. \A i \in 1 .. 8 : Steps("srx", u1[i], 0, 0)
      BY Sides, AskFlow, NeedFlow, PutFlow, BankFlow
    <3>2. u1 \in Seq({u1[i] : i \in 1 .. 8}) /\ Len(u1) = 8
      OBVIOUS
    <3> QED BY <3>1, <3>2, Rest
  <2>2. Carries("srx", Visit("srx", <<3>>), 0, 3)
    <3>1. <<3>> \in Seq(Nat) /\ Len(<<3>>) = 1 /\ 1 \in Nat \ {0}
      OBVIOUS
    <3> QED BY <3>1, Sides, VisitFlow
  <2>3. Carries("srx", u2, 3, 0)
    <3> DEFINE A == <<3, 0, 0, 0, 0>>
    <3>1. \A i \in 1 .. 4 : Steps("srx", u2[i], A[i], A[i + 1])
      BY Sides, BankFlow, SetFlow, PutFlow, AskFlow
    <3>2. u2 \in Seq({u2[i] : i \in 1 .. 4}) /\ Len(u2) = 4
      OBVIOUS
    <3>3. Carries("srx", u2, A[1], A[Len(u2) + 1])
      BY <3>1, <3>2, Line
    <3> QED BY <3>2, <3>3
  <2>4. Carries("srx", SplitterLinkStatus \o u1, a, 0)
    BY SplitterLinkStatusBanks, <2>1, Joined
  <2>5. Carries("srx", SplitterLinkStatus \o u1 \o Visit("srx", <<3>>), a, 3)
    BY <2>4, <2>2, Joined
  <2>6. Carries("srx", SplitterLinkStatus \o u1 \o Visit("srx", <<3>>) \o u2, a, 0)
    BY <2>5, <2>3, Joined
  <2> QED BY <2>6, RaiseHotplugBanks, Joined DEF SplitterInputHpd
<1> QED BY <1>1, <1>2

(* SplitterEdidRead (gc573_splitter_edid_read) accesses every bank it means *)
(* to, and where it leaves its chips.                                       *)
LEMMA SplitterEdidReadBanks ==
  ASSUME NEW a
  PROVE  Carries("spl", SplitterEdidRead, a, 0) /\ Carries("srx", SplitterEdidRead, a, 0)
<1> DEFINE u == <<Need("srx", "sddc", {"off"}, "unsup"), Put("srx", 0), Get("srx", 0)>>
<1>1. Carries("spl", SplitterEdidRead, a, 0)
  <2>1. Carries("spl", u, 0, 0)
    <3>1. \A i \in 1 .. 3 : Steps("spl", u[i], 0, 0)
      BY Sides, NeedFlow, PutFlow, GetFlow
    <3>2. u \in Seq({u[i] : i \in 1 .. 3}) /\ Len(u) = 3
      OBVIOUS
    <3> QED BY <3>1, <3>2, Rest
  <2> QED BY SplitterLinkStatusBanks, <2>1, Joined DEF SplitterEdidRead
<1>2. Carries("srx", SplitterEdidRead, a, 0)
  <2>1. Carries("srx", u, 0, 0)
    <3>1. \A i \in 1 .. 3 : Steps("srx", u[i], 0, 0)
      BY Sides, NeedFlow, PutFlow, GetFlow
    <3>2. u \in Seq({u[i] : i \in 1 .. 3}) /\ Len(u) = 3
      OBVIOUS
    <3> QED BY <3>1, <3>2, Rest
  <2> QED BY SplitterLinkStatusBanks, <2>1, Joined DEF SplitterEdidRead
<1> QED BY <1>1, <1>2

(* SplitterEdidEnable (gc573_splitter_edid_enable) accesses every bank it   *)
(* means to, and where it leaves its chips.                                 *)
LEMMA SplitterEdidEnableBanks ==
  ASSUME NEW a
  PROVE  Carries("spl", SplitterEdidEnable, a, 0) /\ Carries("srx", SplitterEdidEnable, a, 0)
<1> DEFINE u == <<Ask("srx", 0, "inval"), Ask("srx", 0, "unsup"),
                  Need("srx", "s26", {"off"}, "unsup"), Need("srx", "s55", {"on"}, "unsup"),
                  Bank("srx", 3), Get("srx", 3), Skip("srx", "sab", {"ca"}, 2), Bank("srx", 0),
                  Leave("unsup"), Set("srx", 3, "sab", "other"), Bank("srx", 0),
                  Set("srx", 0, "s26", "on"), Set("srx", 0, "s55", "off"), Put("srx", 0),
                  Set("srx", 0, "sddc", "part"), Set("srx", 0, "sddc", "on"), Put("srx", 0),
                  Ask("srx", 0, "nolink")>>
<1>1. Carries("spl", SplitterEdidEnable, a, 0)
  <2>1. Carries("spl", u, 0, 0)
    <3>1. \A i \in (1 .. 18) \ {7} : Steps("spl", u[i], 0, 0)
      BY Sides, AskFlow, NeedFlow, BankFlow, GetFlow, LeaveFlow, SetFlow, PutFlow
    <3>2. Hops("spl", u[7], 0, 2)
      BY Sides, SkipHop
    <3>3. \A i \in 1 .. 18 : Steps("spl", u[i], 0, 0)
            \/ \E n \in Nat : Hops("spl", u[i], 0, n) /\ i + n <= 18
      BY <3>1, <3>2
    <3>4. u \in Seq({u[i] : i \in 1 .. 18}) /\ Len(u) = 18
      OBVIOUS
    <3> QED BY <3>3, <3>4, Rest
  <2>2. Carries("spl", SplitterEdidRead \o u, a, 0)
    BY SplitterEdidReadBanks, <2>1, Joined
  <2> QED BY <2>2, RaiseHotplugBanks, Joined DEF SplitterEdidEnable
<1>2. Carries("srx", SplitterEdidEnable, a, 0)
  <2>1. Carries("srx", u, 0, 0)
    <3> DEFINE A == <<0, 0, 0, 0, 0, 3, 3, 3, 0, 3, 3, 0, 0, 0, 0, 0, 0, 0, 0>>
    <3>1. \A i \in (1 .. 18) \ {7} : Steps("srx", u[i], A[i], A[i + 1])
      BY Sides, AskFlow, NeedFlow, BankFlow, GetFlow, LeaveFlow, SetFlow, PutFlow
    <3>2. Hops("srx", u[7], 3, 2)
      BY Sides, SkipHop
    <3>3. \A i \in 1 .. 18 :
            \/ Steps("srx", u[i], A[i], A[i + 1])
            \/ \E n \in Nat : /\ Hops("srx", u[i], A[i], n) /\ i + n <= 18
                              /\ A[i + 1] = A[i] /\ A[i + 1 + n] = A[i]
      BY <3>1, <3>2
    <3>4. u \in Seq({u[i] : i \in 1 .. 18}) /\ Len(u) = 18
      OBVIOUS
    <3>5. Carries("srx", u, A[1], A[Len(u) + 1])
      BY <3>3, <3>4, Line
    <3> QED BY <3>4, <3>5
  <2>2. Carries("srx", SplitterEdidRead \o u, a, 0)
    BY SplitterEdidReadBanks, <2>1, Joined
  <2> QED BY <2>2, RaiseHotplugBanks, Joined DEF SplitterEdidEnable
<1> QED BY <1>1, <1>2

(* PortActivate (gc573_splitter_port_activate) accesses every bank it means *)
(* to, and where it leaves its chips.                                       *)
LEMMA PortActivateBanks ==
  ASSUME NEW port, NEW a
  PROVE  Carries("spl", PortActivate(port), a, 0) /\ Carries("srx", PortActivate(port), a, 0)
<1> DEFINE u == <<Ask("tx", 0, "nolink"), Need("srx", "s26", {"off"}, "unsup"),
                  Need("srx", "s55", {"on"}, "unsup"), Need("srx", "sddc", {"on"}, "unsup"),
                  Need("tx", port, {"cold"}, "unsup"), Put("spl", 0), Set("tx", 0, port, "part"),
                  Set("tx", 0, port, "active"), Get("srx", 0)>>
<1>1. Carries("spl", PortActivate(port), a, 0)
  <2>1. Carries("spl", u, 0, 0)
    <3>1. \A i \in 1 .. 9 : Steps("spl", u[i], 0, 0)
      BY Sides, AskFlow, NeedFlow, PutFlow, SetFlow, GetFlow
    <3>2. u \in Seq({u[i] : i \in 1 .. 9}) /\ Len(u) = 9
      OBVIOUS
    <3> QED BY <3>1, <3>2, Rest
  <2> QED BY SplitterLinkStatusBanks, <2>1, Joined DEF PortActivate
<1>2. Carries("srx", PortActivate(port), a, 0)
  <2>1. Carries("srx", u, 0, 0)
    <3>1. \A i \in 1 .. 9 : Steps("srx", u[i], 0, 0)
      BY Sides, AskFlow, NeedFlow, PutFlow, SetFlow, GetFlow
    <3>2. u \in Seq({u[i] : i \in 1 .. 9}) /\ Len(u) = 9
      OBVIOUS
    <3> QED BY <3>1, <3>2, Rest
  <2> QED BY SplitterLinkStatusBanks, <2>1, Joined DEF PortActivate
<1> QED BY <1>1, <1>2

(* VideoValidate (video_validate) accesses every bank it means to, and      *)
(* where it leaves its chips.                                               *)
LEMMA VideoValidateBanks ==
  ASSUME NEW a
  PROVE  Carries("spl", VideoValidate, a, a) /\ Carries("srx", VideoValidate, a, 0)
<1> DEFINE u == <<Bank("srx", 2), Get("srx", 2), Bank("srx", 0), Get("srx", 0),
                  Ask("srx", 0, "unsup")>>
<1>1. Carries("spl", VideoValidate, a, a)
  <2>1. Carries("spl", u, a, a)
    <3>1. \A i \in 1 .. 5 : Steps("spl", u[i], a, a)
      BY Sides, BankFlow, GetFlow, AskFlow
    <3>2. u \in Seq({u[i] : i \in 1 .. 5}) /\ Len(u) = 5
      OBVIOUS
    <3> QED BY <3>1, <3>2, Rest
  <2> QED BY <2>1 DEF VideoValidate
<1>2. Carries("srx", VideoValidate, a, 0)
  <2>1. Carries("srx", u, a, 0)
    <3> DEFINE A == <<a, 2, 2, 0, 0, 0>>
    <3>1. \A i \in 1 .. 5 : Steps("srx", u[i], A[i], A[i + 1])
      BY Sides, BankFlow, GetFlow, AskFlow
    <3>2. u \in Seq({u[i] : i \in 1 .. 5}) /\ Len(u) = 5
      OBVIOUS
    <3>3. Carries("srx", u, A[1], A[Len(u) + 1])
      BY <3>1, <3>2, Line
    <3> QED BY <3>2, <3>3
  <2> QED BY <2>1 DEF VideoValidate
<1> QED BY <1>1, <1>2

(* SplitterVideoClock (video_clock) accesses every bank it means to, and    *)
(* where it leaves its chips.                                               *)
LEMMA SplitterVideoClockBanks ==
  ASSUME NEW port, NEW a
  PROVE  Carries("spl", SplitterVideoClock(port), a, 0)
           /\ Carries("srx", SplitterVideoClock(port), a, 0)
<1> DEFINE u1 == <<Ask("tx", 0, "nolink"), Need("srx", "sddc", {"on"}, "nolink"), Get("spl", 0),
                   Need("tx", port, Powered, "unsup"), Put("tx", 0), Get("tx", 0),
                   Ask("srx", 0, "range"), Put("tx", 0)>>
           u2 == <<Set("tx", 0, port, "setup")>>
           u3 == <<Put("tx", 0), Ask("tx", 0, "nolink"), Set("tx", 0, port, "on")>>
<1>1. Carries("spl", SplitterVideoClock(port), a, 0)
  <2>1. Carries("spl", u1, 0, 0)
    <3>1. \A i \in 1 .. 8 : Steps("spl", u1[i], 0, 0)
      BY Sides, AskFlow, NeedFlow, GetFlow, PutFlow
    <3>2. u1 \in Seq({u1[i] : i \in 1 .. 8}) /\ Len(u1) = 8
      OBVIOUS
    <3> QED BY <3>1, <3>2, Rest
  <2>2. Carries("spl", u2, 0, 0)
    <3>1. \A i \in 1 .. 1 : Steps("spl", u2[i], 0, 0)
      BY Sides, SetFlow
    <3>2. u2 \in Seq({u2[i] : i \in 1 .. 1}) /\ Len(u2) = 1
      OBVIOUS
    <3> QED BY <3>1, <3>2, Rest
  <2>3. Carries("spl", u3, 0, 0)
    <3>1. \A i \in 1 .. 3 : Steps("spl", u3[i], 0, 0)
      BY Sides, PutFlow, AskFlow, SetFlow
    <3>2. u3 \in Seq({u3[i] : i \in 1 .. 3}) /\ Len(u3) = 3
      OBVIOUS
    <3> QED BY <3>1, <3>2, Rest
  <2>4. Carries("spl", SplitterLinkStatus \o u1, a, 0)
    BY SplitterLinkStatusBanks, <2>1, Joined
  <2>5. Carries("spl", SplitterLinkStatus \o u1 \o VideoValidate, a, 0)
    BY <2>4, VideoValidateBanks, Joined
  <2>6. Carries("spl", SplitterLinkStatus \o u1 \o VideoValidate \o u2, a, 0)
    BY <2>5, <2>2, Joined
  <2>7. Carries("spl", SplitterLinkStatus \o u1 \o VideoValidate \o u2 \o VideoValidate, a, 0)
    BY <2>6, VideoValidateBanks, Joined
  <2> QED BY <2>7, <2>3, Joined DEF SplitterVideoClock
<1>2. Carries("srx", SplitterVideoClock(port), a, 0)
  <2>1. Carries("srx", u1, 0, 0)
    <3>1. \A i \in 1 .. 8 : Steps("srx", u1[i], 0, 0)
      BY Sides, AskFlow, NeedFlow, GetFlow, PutFlow
    <3>2. u1 \in Seq({u1[i] : i \in 1 .. 8}) /\ Len(u1) = 8
      OBVIOUS
    <3> QED BY <3>1, <3>2, Rest
  <2>2. Carries("srx", u2, 0, 0)
    <3>1. \A i \in 1 .. 1 : Steps("srx", u2[i], 0, 0)
      BY Sides, SetFlow
    <3>2. u2 \in Seq({u2[i] : i \in 1 .. 1}) /\ Len(u2) = 1
      OBVIOUS
    <3> QED BY <3>1, <3>2, Rest
  <2>3. Carries("srx", u3, 0, 0)
    <3>1. \A i \in 1 .. 3 : Steps("srx", u3[i], 0, 0)
      BY Sides, PutFlow, AskFlow, SetFlow
    <3>2. u3 \in Seq({u3[i] : i \in 1 .. 3}) /\ Len(u3) = 3
      OBVIOUS
    <3> QED BY <3>1, <3>2, Rest
  <2>4. Carries("srx", SplitterLinkStatus \o u1, a, 0)
    BY SplitterLinkStatusBanks, <2>1, Joined
  <2>5. Carries("srx", SplitterLinkStatus \o u1 \o VideoValidate, a, 0)
    BY <2>4, VideoValidateBanks, Joined
  <2>6. Carries("srx", SplitterLinkStatus \o u1 \o VideoValidate \o u2, a, 0)
    BY <2>5, <2>2, Joined
  <2>7. Carries("srx", SplitterLinkStatus \o u1 \o VideoValidate \o u2 \o VideoValidate, a, 0)
    BY <2>6, VideoValidateBanks, Joined
  <2> QED BY <2>7, <2>3, Joined DEF SplitterVideoClock
<1> QED BY <1>1, <1>2
(* ReceiverWait (receiver_wait) accesses every bank it means to, and ends   *)
(* in bank 0.                                                               *)
LEMMA ReceiverWaitBanks == ASSUME NEW a PROVE Carries("rcv", ReceiverWait, a, 0)
<1> DEFINE u == <<Ask("rcv", 0, "again")>>
<1>1. Carries("rcv", u, 0, 0)
  <2>1. \A i \in 1 .. 1 : Steps("rcv", u[i], 0, 0)
    BY Sides, AskFlow
  <2>2. u \in Seq({u[i] : i \in 1 .. 1}) /\ Len(u) = 1
    OBVIOUS
  <2> QED BY <2>1, <2>2, Rest
<1> QED BY <1>1, ReceiverStatusBanks, Joined DEF ReceiverWait

(* SplitterWait (splitter_wait) accesses every bank it means to, and ends   *)
(* in bank 0.                                                               *)
LEMMA SplitterWaitBanks ==
  ASSUME NEW a
  PROVE  Carries("spl", SplitterWait, a, 0) /\ Carries("srx", SplitterWait, a, 0)
<1> DEFINE u == <<Ask("srx", 0, "again")>>
<1>1. ASSUME NEW c \in {"spl", "srx"} PROVE Carries(c, u, 0, 0)
  <2>1. \A i \in 1 .. 1 : Steps(c, u[i], 0, 0)
    BY Sides, AskFlow
  <2>2. u \in Seq({u[i] : i \in 1 .. 1}) /\ Len(u) = 1
    OBVIOUS
  <2> QED BY <2>1, <2>2, Rest
<1> QED BY <1>1, SplitterLinkStatusBanks, Joined DEF SplitterWait

(* The wait for the FPGA (fpga_wait) leaves every bank alone.               *)
LEMMA FpgaWaitBanks ==
  ASSUME NEW c \in {"rcv", "spl", "srx"}, NEW a PROVE Carries(c, <<Ask("fpga", 0, "again")>>, a, a)
<1> DEFINE u == <<Ask("fpga", 0, "again")>>
<1>1. \A i \in 1 .. 1 : Steps(c, u[i], a, a)
  <2>1. c \in Chips /\ "fpga" \in Side(c) /\ c # "fpga"
    BY Sides
  <2> QED BY <2>1, AskFlow
<1>2. u \in Seq({u[i] : i \in 1 .. 1}) /\ Len(u) = 1
  OBVIOUS
<1> QED BY <1>1, <1>2, Rest

(* SplitterPassthrough (gc573_splitter_passthrough) accesses every bank it  *)
(* means to, whichever way it takes, and ends in bank 0.                    *)
LEMMA SplitterPassthroughBanks ==
  ASSUME NEW a
  PROVE  Carries("spl", SplitterPassthrough, a, 0) /\ Carries("srx", SplitterPassthrough, a, 0)
<1> DEFINE u == <<Maybe(1), Leave("ok"), Ask("tx", 0, "nolink"), Get("tx", 0),
                  Skip("tx", "tx2", {"reset", "cold", "part", "active", "setup"}, 2), Maybe(1),
                  Leave("ok"), Need("tx", "tx2", {"cold", "active", "setup", "on"}, "unsup")>>
           x == Skip("tx", "tx2", Powered, Len(PortActivate("tx2")))
<1>1. ASSUME NEW c \in {"spl", "srx"} PROVE Carries(c, SplitterPassthrough, a, 0)
  <2>1. Carries(c, u, 0, 0)
    <3>1. \A i \in (1 .. 8) \ {1, 5, 6} : Steps(c, u[i], 0, 0)
      BY Sides, LeaveFlow, AskFlow, GetFlow, NeedFlow
    <3>2. Hops(c, u[1], 0, 1) /\ Hops(c, u[5], 0, 2) /\ Hops(c, u[6], 0, 1)
      BY Sides, MaybeHop, SkipHop
    <3>3. \A i \in 1 .. 8 :
            Steps(c, u[i], 0, 0) \/ \E n \in Nat : Hops(c, u[i], 0, n) /\ i + n <= 8
      BY <3>1, <3>2
    <3>4. u \in Seq({u[i] : i \in 1 .. 8}) /\ Len(u) = 8
      OBVIOUS
    <3> QED BY <3>3, <3>4, Rest
  <2>2. /\ Carries(c, SplitterLinkStatus, a, 0) /\ Carries(c, PortActivate("tx2"), 0, 0)
        /\ Carries(c, SplitterVideoClock("tx2"), 0, 0)
    BY SplitterLinkStatusBanks, PortActivateBanks, SplitterVideoClockBanks
  <2>3. Carries(c, SplitterLinkStatus \o u, a, 0)
    BY <2>1, <2>2, Joined
  <2>4. Hops(c, x, 0, Len(PortActivate("tx2")))
    BY Sides, SkipHop
  <2>5. Carries(c, <<x>> \o PortActivate("tx2"), 0, 0)
    BY <2>2, <2>4, Over
  <2>6. Carries(c, (SplitterLinkStatus \o u) \o (<<x>> \o PortActivate("tx2")), a, 0)
    BY <2>3, <2>5, Joined
  <2>7. (SplitterLinkStatus \o u) \o (<<x>> \o PortActivate("tx2"))
          = SplitterLinkStatus \o (u \o <<x>>) \o PortActivate("tx2")
    <3>1. PICK S : SplitterLinkStatus \o u \in Seq(S)
      BY <2>3 DEF Carries
    <3>2. PICK T : PortActivate("tx2") \in Seq(T)
      BY <2>2 DEF Carries
    <3>3. PICK U : SplitterLinkStatus \in Seq(U)
      BY <2>2 DEF Carries
    <3>4. PICK W : /\ SplitterLinkStatus \o u \in Seq(W) /\ PortActivate("tx2") \in Seq(W)
                   /\ SplitterLinkStatus \in Seq(W) /\ u \in Seq(W) /\ <<x>> \in Seq(W)
      <4> DEFINE V == S \cup T \cup U \cup {x} \cup {u[i] : i \in 1 .. 8}
      <4>1. u \in Seq({u[i] : i \in 1 .. 8})
        OBVIOUS
      <4> HIDE DEF u, x
      <4>2. /\ SplitterLinkStatus \o u \in Seq(V) /\ PortActivate("tx2") \in Seq(V)
            /\ SplitterLinkStatus \in Seq(V) /\ u \in Seq(V) /\ <<x>> \in Seq(V)
        BY <3>1, <3>2, <3>3, <4>1
      <4> QED BY <4>2
    <3> HIDE DEF u, x
    <3>5. (SplitterLinkStatus \o u) \o <<x>> = SplitterLinkStatus \o (u \o <<x>>)
      BY <3>4, ConcatAssociative
    <3>6. ((SplitterLinkStatus \o u) \o <<x>>) \o PortActivate("tx2")
            = (SplitterLinkStatus \o u) \o (<<x>> \o PortActivate("tx2"))
      BY <3>4, ConcatAssociative
    <3> QED BY <3>5, <3>6
  <2>8. SplitterPassthrough
          = SplitterLinkStatus \o (u \o <<x>>) \o PortActivate("tx2") \o SplitterVideoClock("tx2")
    <3> DEFINE S == {u[i] : i \in 1 .. 8} \cup {x}
               v == <<Maybe(1), Leave("ok"), Ask("tx", 0, "nolink"), Get("tx", 0),
                      Skip("tx", "tx2", {"reset", "cold", "part", "active", "setup"}, 2), Maybe(1),
                      Leave("ok"), Need("tx", "tx2", {"cold", "active", "setup", "on"}, "unsup"),
                      x>>
    <3>1. SplitterPassthrough
            = SplitterLinkStatus \o v \o PortActivate("tx2") \o SplitterVideoClock("tx2")
      BY DEF SplitterPassthrough
    <3>2. /\ Len(u) = 8 /\ Len(v) = 9 /\ v[9] = x /\ 8 + 1 = 9 /\ 8 \in Nat
          /\ \A i \in 1 .. 8 : v[i] = u[i]
      OBVIOUS
    <3>3. u \in Seq(S) /\ v \in Seq(S) /\ x \in S
      OBVIOUS
    <3> HIDE DEF S, u, v, x
    <3>4. u \o <<x>> = v
      BY <3>2, <3>3, Longer
    <3> QED BY <3>1, <3>4, Zenon
  <2> QED BY <2>2, <2>6, <2>7, <2>8, Joined
<1> QED BY <1>1

(* Activate (activate) accesses every bank it means to, and ends in bank 0. *)
LEMMA ActivateBanks ==
  ASSUME NEW a
  PROVE  Carries("spl", Activate, a, 0) /\ Carries("srx", Activate, a, 0)
<1> DEFINE x == Skip("tx", "tx1", Powered, Len(PortActivate("tx1")))
<1>1. ASSUME NEW c \in {"spl", "srx"} PROVE Carries(c, Activate, a, 0)
  <2>1. Carries(c, SplitterWait, a, 0) /\ Carries(c, PortActivate("tx1"), 0, 0)
    BY SplitterWaitBanks, PortActivateBanks
  <2>2. Hops(c, x, 0, Len(PortActivate("tx1")))
    BY Sides, SkipHop
  <2>3. Carries(c, <<x>> \o PortActivate("tx1"), 0, 0)
    BY <2>1, <2>2, Over
  <2>4. Carries(c, SplitterWait \o (<<x>> \o PortActivate("tx1")), a, 0)
    BY <2>1, <2>3, Joined
  <2>5. SplitterWait \o (<<x>> \o PortActivate("tx1")) = SplitterWait \o <<x>>
          \o PortActivate("tx1")
    <3>1. PICK S : SplitterWait \in Seq(S)
      BY <2>1 DEF Carries
    <3>2. PICK T : PortActivate("tx1") \in Seq(T)
      BY <2>1 DEF Carries
    <3>3. PICK W : SplitterWait \in Seq(W) /\ PortActivate("tx1") \in Seq(W) /\ <<x>> \in Seq(W)
      <4>1. /\ SplitterWait \in Seq(S \cup T \cup {x})
            /\ PortActivate("tx1") \in Seq(S \cup T \cup {x})
            /\ <<x>> \in Seq(S \cup T \cup {x})
        BY <3>1, <3>2
      <4> QED BY <4>1
    <3> HIDE DEF x
    <3> QED BY <3>3, ConcatAssociative
  <2> QED BY <2>4, <2>5 DEF Activate
<1> QED BY <1>1

-----------------------------------------------------------------------------
(* RightBank.                                                               *)

(* The chips whose bank a program depends on.                               *)
ReceiverPrograms == {"receiver_id", "receiver_init", "receiver_calibrate", "receiver_wait",
                     "receiver_input", "receiver_video"}
Watched(p) == IF p \in ReceiverPrograms THEN {"rcv"} ELSE {"spl", "srx"}

(* The bank at each operation of program p, if c begins in bank a.          *)
IsRoute(c, p, a, A) ==
  A[1] = a /\ A[Len(Program[p]) + 1] \in {0, a} /\ Fits(c, Program[p], A)
Route(c, p, a) == CHOOSE A : IsRoute(c, p, a, A)

(* The two programs that begin without a look at the bank.                  *)
Blind == {"receiver_id", "splitter_startup"}

(* Every program has such banks, and ends in bank 0 or where it began.      *)
LEMMA Routed ==
  ASSUME NEW p \in DOMAIN Program, NEW c \in Watched(p), NEW a, p \in Blind => a = 0
  PROVE  IsRoute(c, p, a, Route(c, p, a))
<1>1. \E b \in {0, a} : Carries(c, Program[p], a, b)
  <2>1. CASE p \in ReceiverPrograms
    <3>1. c = "rcv"
      BY <2>1 DEF Watched
    <3>2. p = "receiver_id" => a = 0
      BY DEF Blind
    <3>3. Carries("rcv", Program[p], a, 0)
      BY <2>1, <3>2, ProgramIs, ReceiverIdentifyBanks, ReceiverInitBanks,
        ReceiverCalibrateBanks,
        ReceiverWaitBanks, ReceiverInputBanks, ReceiverVideoBanks DEF ReceiverPrograms
    <3> QED BY <3>1, <3>3
  <2>2. CASE p \notin ReceiverPrograms
    <3>1. c \in {"spl", "srx"} /\ c \in {"rcv", "spl", "srx"}
      BY <2>2 DEF Watched
    <3>2. p = "splitter_startup" => a = 0
      BY DEF Blind
    <3>3. p \in {"splitter_startup", "splitter_prepare", "splitter_tx_finish", "splitter_wait",
                "splitter_input_hpd", "edid_enable", "activate", "video_clock", "fpga_wait",
                "passthrough"}
      BY <2>2, ProgramNames DEF ReceiverPrograms
    <3>4. CASE p = "fpga_wait"
      <4>1. Carries(c, Program[p], a, a)
        BY <3>1, <3>4, FpgaWaitBanks, ProgramIs
      <4> QED BY <4>1
    <3>5. CASE p = "splitter_startup"
      <4>1. Carries("spl", Program[p], a, 0) /\ Carries("srx", Program[p], a, 0)
        BY <3>2, <3>5, ProgramIs, SplitterStartupBanks
      <4> QED BY <3>1, <4>1
    <3>6. CASE p = "splitter_prepare"
      <4>1. Carries("spl", Program[p], a, 0) /\ Carries("srx", Program[p], a, a)
        BY <3>6, ProgramIs, SplitterPrepareBanks
      <4> QED BY <3>1, <4>1
    <3>7. CASE p \in {"splitter_tx_finish", "splitter_wait", "splitter_input_hpd", "edid_enable",
                     "activate", "video_clock", "passthrough"}
      <4>1. Carries("spl", Program[p], a, 0) /\ Carries("srx", Program[p], a, 0)
        BY <3>7, ProgramIs, SplitterTxPortsBanks, SplitterWaitBanks, SplitterInputHpdBanks,
          SplitterEdidEnableBanks, ActivateBanks, SplitterVideoClockBanks,
          SplitterPassthroughBanks
      <4> QED BY <3>1, <4>1
    <3> QED BY <3>3, <3>4, <3>5, <3>6, <3>7
  <2> QED BY <2>1, <2>2
<1>2. \E A : IsRoute(c, p, a, A)
  BY <1>1 DEF Carries, IsRoute
<1> QED BY <1>2 DEF Route

(* Neither of these selects a bank.                                         *)
LEMMA BlindSelectNone ==
  ASSUME NEW p \in Blind, NEW i \in 1 .. Len(Program[p])
  PROVE  Program[p][i].kind # "bank"
<1>1. ASSUME NEW c, NEW b, NEW f, NEW v
      PROVE  /\ Set(c, b, f, v).kind # "bank" /\ Reset(c, b).kind # "bank"
             /\ Get(c, b).kind # "bank" /\ Zero(c, f).kind # "bank"
  BY DEF Set, Reset, Get, Zero, Op
<1>4. ASSUME NEW c, NEW f, NEW v, NEW e
      PROVE  Skip(c, f, v, e).kind # "bank" /\ Need(c, f, v, e).kind # "bank"
  BY DEF Skip, Need, Op
<1>2. CASE p = "receiver_id"
  BY <1>1, <1>2, ProgramIs DEF ReceiverIdentify
<1>3. CASE p = "splitter_startup"
  BY <1>1, <1>3, <1>4, ProgramIs DEF SplitterStartup, SplitterIdentify
<1> QED BY <1>2, <1>3 DEF Blind

-----------------------------------------------------------------------------
BankTypes == bank \in [Chips -> Nat] /\ bank["fpga"] = 0 /\ bank["tx"] = 0

(* What is known of the banks while a program runs.                         *)
ProgramBanks ==
  prog # "none" =>
    /\ \A c \in {"rcv", "spl", "srx"} \ Watched(prog) : bank[c] = before[1][c]
    /\ prog \in Blind => \A c \in Watched(prog) : before[1][c] = 0
    /\ result # "fail" =>
         /\ pc \in 1 .. Len(Program[prog]) + 1
         /\ \A c \in Watched(prog) : bank[c] = Route(c, prog, before[1][c])[pc]

(* Before the two programs have run the chips are in bank 0.                *)
FreshBanks ==
  /\ past["receiver_id"] = "fresh" => bank["rcv"] = 0
  /\ past["splitter_startup"] = "fresh" => bank["spl"] = 0 /\ bank["srx"] = 0

BankInv == BankTypes /\ ProgramBanks /\ FreshBanks

(* What Routed says of one operation.                                       *)
LEMMA RouteStep ==
  ASSUME NEW p \in DOMAIN Program, NEW c \in Watched(p), NEW a, p \in Blind => a = 0,
         NEW i \in 1 .. Len(Program[p])
  PROVE  LET A == Route(c, p, a)
             o == Program[p][i]
         IN  /\ WantsBank(c, o, A[i])
             /\ o.kind # "leave" => LeadsBank(c, o, A[i], A[i + 1])
             /\ o.kind \in Jumps => /\ o.n \in Nat /\ i + o.n <= Len(Program[p])
                                    /\ A[i + 1 + o.n] = A[i]
<1>1. Fits(c, Program[p], Route(c, p, a))
  BY Routed DEF IsRoute
<1>2. c \in Chips
  BY DEF Watched, Chips
<1> QED BY <1>1, <1>2 DEF Fits, Wants, Leads

(* The operation that runs, and the banks.                                  *)
LEMMA ThisBank ==
  ASSUME HostTypes, BankInv, Running
  PROVE  /\ prog \in DOMAIN Program /\ prog # "none" /\ result = ""
         /\ pc \in 1 .. Len(Program[prog]) /\ Len(Program[prog]) \in Nat
         /\ This \in Ops /\ (This.chip \in {"fpga", "tx"} => This.bank = 0)
         /\ prog \in Blind => This.kind # "bank"
<1>1. prog \in DOMAIN Program /\ prog # "none" /\ result = ""
  BY DEF HostTypes, Running
<1>2. PICK n \in Nat : n = Len(Program[prog])
  <2>1. Program[prog] \in Seq(Tame(prog))
    BY <1>1, Programs
  <2> QED BY <2>1
<1>3. pc \in 1 .. n + 1 /\ pc <= n
  BY <1>1, <1>2 DEF BankInv, ProgramBanks, Running
<1>4. pc \in 1 .. Len(Program[prog])
  BY <1>2, <1>3
<1>5. This \in Ops /\ This \in Careful
  BY ThisOperation
<1> QED BY <1>1, <1>2, <1>4, <1>5, BlindSelectNone DEF Careful, This

(* Where a program may go.                                                  *)
LEMMA Onward ==
  ASSUME NEW m \in Nat, NEW i \in 1 .. m
  PROVE  i + 1 \in 1 .. m + 1 /\ \A n \in Nat : i + n <= m => i + 1 + n \in 1 .. m + 1
  OBVIOUS

(* ... of the chips its program depends on ...                              *)
LEMMA ThisWatched ==
  ASSUME HostTypes, BankInv, Running, NEW c \in Watched(prog),
         NEW A, A = Route(c, prog, before[1][c])
  PROVE  /\ This.chip \in Side(c)
         /\ This.chip = c /\ This.kind \in Accesses => bank[c] = This.bank
         /\ This.kind # "leave" => LeadsBank(c, This, bank[c], A[pc + 1])
         /\ This.kind \in Jumps => /\ This.n \in Nat /\ pc + This.n <= Len(Program[prog])
                                   /\ A[pc + 1 + This.n] = bank[c]
         /\ bank[c] = A[pc]
<1>1. bank[c] = A[pc] /\ (prog \in Blind => before[1][c] = 0)
  BY ThisBank DEF BankInv, ProgramBanks
<1> QED BY <1>1, ThisBank, RouteStep DEF This, WantsBank

(* ... and of the others, which it does not touch.                          *)
LEMMA ThisOther ==
  ASSUME HostTypes, BankInv, Running, NEW c \in {"rcv", "spl", "srx"} \ Watched(prog)
  PROVE  This.chip # c
<1>1. CASE prog \in ReceiverPrograms
  <2>1. "rcv" \in Watched(prog) /\ c # "rcv"
    BY <1>1 DEF Watched
  <2> QED BY <2>1, ThisWatched DEF Side
<1>2. CASE prog \notin ReceiverPrograms
  <2>1. "spl" \in Watched(prog) /\ c = "rcv"
    BY <1>2 DEF Watched
  <2> QED BY <2>1, ThisWatched DEF Side
<1> QED BY <1>1, <1>2

(* Every access goes to the bank it is written for.                         *)
LEMMA BanksAreRight == HostTypes /\ BankInv => RightBank
<1> SUFFICES ASSUME HostTypes, BankInv, Running,
                    This.kind \in Writes \cup {"get", "need", "ask", "late"}
             PROVE  bank[This.chip] = This.bank
  BY DEF RightBank
<1>1. This.chip \in Chips /\ (This.chip \in {"fpga", "tx"} => This.bank = 0)
  BY ThisBank DEF Ops
<1>2. CASE This.chip \in {"fpga", "tx"}
  BY <1>1, <1>2 DEF BankInv, BankTypes
<1>3. CASE This.chip \notin {"fpga", "tx"}
  <2>1. This.chip \in {"rcv", "spl", "srx"}
    BY <1>1, <1>3 DEF Chips
  <2>2. This.chip \in Watched(prog)
    BY <2>1, ThisOther
  <2> QED BY <2>2, ThisWatched DEF Accesses
<1> QED BY <1>2, <1>3

-----------------------------------------------------------------------------
(* The steps.                                                               *)

(* What a step of a program does to the banks.                              *)
Moves ==
  /\ prog' = prog /\ before' = before /\ past' = past
  /\ BankTypes'
  /\ \A c \in {"rcv", "spl", "srx"} \ Watched(prog) : bank'[c] = bank[c]
  /\ prog \in Blind => \A c \in Chips : bank[c] = 0 => bank'[c] = 0
  /\ result' # "fail" =>
       /\ pc' \in 1 .. Len(Program[prog]) + 1
       /\ \A c \in Watched(prog) : bank'[c] = Route(c, prog, before[1][c])[pc']

(* A write changes no bank, but a reset makes it 0.                         *)
LEMMA EffectOnBanks ==
  ASSUME HostTypes, BankInv, Running, This.kind \in Writes, UNCHANGED bank \/ Effect
  PROVE  /\ BankTypes'
         /\ \A c \in {"rcv", "spl", "srx"} \ Watched(prog) : bank'[c] = bank[c]
         /\ \A c \in Chips : bank[c] = 0 => bank'[c] = 0
<1>1. CASE UNCHANGED bank
  BY <1>1 DEF BankInv, BankTypes
<1>2. CASE Effect /\ This.kind # "reset"
  BY <1>2 DEF Effect, BankInv, BankTypes
<1>3. CASE Effect /\ This.kind = "reset"
  <2>1. bank' = [bank EXCEPT ![This.chip] = 0]
    BY <1>3 DEF Effect
  <2>2. bank \in [Chips -> Nat] /\ bank["fpga"] = 0 /\ bank["tx"] = 0
    BY DEF BankInv, BankTypes
  <2>3. bank' \in [Chips -> Nat] /\ \A c \in Chips : bank[c] = 0 => bank'[c] = 0
    BY <2>1, <2>2
  <2>4. "fpga" \in Chips /\ "tx" \in Chips /\ {"rcv", "spl", "srx"} \subseteq Chips
    BY DEF Chips
  <2>5. \A c \in {"rcv", "spl", "srx"} \ Watched(prog) : bank'[c] = bank[c]
    BY <2>1, <2>2, <2>4, ThisOther
  <2> QED BY <2>2, <2>3, <2>4, <2>5 DEF BankTypes
<1> QED BY <1>1, <1>2, <1>3

(* The same when a bank is selected.                                        *)
LEMMA SelectOnBanks ==
  ASSUME HostTypes, BankInv, Running, This.kind = "bank",
         bank' = [bank EXCEPT ![This.chip] = This.bank]
  PROVE  /\ BankTypes'
         /\ \A c \in {"rcv", "spl", "srx"} \ Watched(prog) : bank'[c] = bank[c]
         /\ prog \notin Blind
<1>1. This.bank \in Nat /\ This.chip \in Chips /\ prog \notin Blind
  BY ThisBank DEF Ops
<1>2. This.chip \in {"fpga", "tx"} => This.bank = 0
  BY ThisBank
<1> QED BY <1>1, <1>2, ThisOther DEF BankInv, BankTypes

(* A write.                                                                 *)
LEMMA WriteMoves == HostTypes /\ BankInv /\ ExecWrite => Moves
<1> SUFFICES ASSUME HostTypes, BankInv, ExecWrite PROVE Moves
  OBVIOUS
<1>1. /\ Running /\ This.kind \in Writes /\ (UNCHANGED bank \/ Effect) /\ pc' = pc + 1
      /\ prog' = prog /\ before' = before /\ past' = past
      /\ This.kind # "reset" => bank' = bank
      /\ This.kind = "reset" => bank' = [bank EXCEPT ![This.chip] = 0]
  BY DEF ExecWrite, Goto, chips, Effect
<1>2. pc' \in 1 .. Len(Program[prog]) + 1
  BY <1>1, ThisBank, Onward, Zenon
<1>3. ASSUME NEW c \in Watched(prog) PROVE bank'[c] = Route(c, prog, before[1][c])[pc']
  <2>1. LeadsBank(c, This, bank[c], Route(c, prog, before[1][c])[pc'])
    BY <1>1, ThisWatched DEF Writes
  <2>2. c \in Chips
    BY DEF Watched, Chips
  <2> QED BY <1>1, <2>1, <2>2 DEF LeadsBank, Writes, BankInv, BankTypes
<1> QED BY <1>1, <1>2, <1>3, EffectOnBanks DEF Moves

(* The selection of a bank.                                                 *)
LEMMA BankMoves == HostTypes /\ BankInv /\ ExecBank => Moves
<1> SUFFICES ASSUME HostTypes, BankInv, ExecBank PROVE Moves
  OBVIOUS
<1>1. /\ Running /\ This.kind = "bank" /\ bank' = [bank EXCEPT ![This.chip] = This.bank]
      /\ pc' = pc + 1 /\ prog' = prog /\ before' = before /\ past' = past
  BY DEF ExecBank, Goto
<1>2. pc' \in 1 .. Len(Program[prog]) + 1
  BY <1>1, ThisBank, Onward, Zenon
<1>3. ASSUME NEW c \in Watched(prog) PROVE bank'[c] = Route(c, prog, before[1][c])[pc']
  <2>1. LeadsBank(c, This, bank[c], Route(c, prog, before[1][c])[pc'])
    BY <1>1, ThisWatched
  <2>2. c \in Chips
    BY DEF Watched, Chips
  <2> QED BY <1>1, <2>1, <2>2 DEF LeadsBank, BankInv, BankTypes
<1> QED BY <1>1, <1>2, <1>3, SelectOnBanks DEF Moves

(* A failing access: where it was is not known, but the other chips are as  *)
(* they were.                                                               *)
LEMMA FailMoves == HostTypes /\ BankInv /\ ExecFail => Moves
<1> SUFFICES ASSUME HostTypes, BankInv, ExecFail PROVE Moves
  OBVIOUS
<1>1. /\ Running /\ result' = "fail" /\ prog' = prog /\ before' = before /\ past' = past
  BY DEF ExecFail, Return
<1>2. CASE UNCHANGED bank
  BY <1>1, <1>2 DEF Moves, BankInv, BankTypes
<1>3. CASE This.kind \in Writes /\ Effect
  BY <1>1, <1>3, EffectOnBanks DEF Moves
<1>4. CASE This.kind = "bank" /\ bank' = [bank EXCEPT ![This.chip] = This.bank]
  BY <1>1, <1>4, SelectOnBanks DEF Moves
<1>5. \/ UNCHANGED bank
      \/ This.kind \in Writes /\ Effect
      \/ This.kind = "bank" /\ bank' = [bank EXCEPT ![This.chip] = This.bank]
  BY DEF ExecFail, chips
<1> QED BY <1>2, <1>3, <1>4, <1>5

(* A step that changes no bank, and stays, goes on, or jumps where the      *)
(* banks are the same.                                                      *)
LEMMA QuietMoves ==
  ASSUME HostTypes, BankInv, prog # "none", result = "",
         prog' = prog, before' = before, past' = past, bank' = bank,
         \/ pc' = pc
         \/ /\ Running /\ pc' = pc + 1 /\ This.kind # "leave"
            /\ This.kind \notin {"bank", "reset"}
            /\ This.kind = "zero" => bank[This.chip] = 0
         \/ Running /\ pc' = pc + 1 + This.n /\ This.kind \in Jumps
  PROVE  Moves
<1>1. BankTypes'
  BY DEF BankInv, BankTypes
<1>2. CASE pc' = pc
  BY <1>1, <1>2 DEF BankInv, ProgramBanks, Moves
<1>3. CASE /\ Running /\ pc' = pc + 1 /\ This.kind # "leave"
           /\ This.kind \notin {"bank", "reset"}
           /\ This.kind = "zero" => bank[This.chip] = 0
  <2>1. pc' \in 1 .. Len(Program[prog]) + 1
    BY <1>3, ThisBank, Onward, Zenon
  <2>2. ASSUME NEW c \in Watched(prog) PROVE bank'[c] = Route(c, prog, before[1][c])[pc']
    <3>1. LeadsBank(c, This, bank[c], Route(c, prog, before[1][c])[pc'])
      BY <1>3, ThisWatched
    <3> QED BY <1>3, <3>1 DEF LeadsBank
  <2> QED BY <1>1, <2>1, <2>2 DEF Moves
<1>4. CASE Running /\ pc' = pc + 1 + This.n /\ This.kind \in Jumps
  <2>1. PICK c \in Watched(prog) : TRUE
    BY DEF Watched
  <2>2. This.n \in Nat /\ pc + This.n <= Len(Program[prog])
    BY <1>4, <2>1, ThisWatched
  <2>3. pc' \in 1 .. Len(Program[prog]) + 1
    BY <1>4, <2>2, ThisBank, Onward, Zenon
  <2>4. ASSUME NEW d \in Watched(prog) PROVE bank'[d] = Route(d, prog, before[1][d])[pc']
    BY <1>4, ThisWatched
  <2> QED BY <1>1, <2>3, <2>4 DEF Moves
<1> QED BY <1>2, <1>3, <1>4

(* Reads, branches and the end change no bank.                              *)
LEMMA OtherMoves == HostTypes /\ BankInv /\ (ExecRead \/ ExecBranch \/ ExecEnd) => Moves
<1> SUFFICES ASSUME HostTypes, BankInv, ExecRead \/ ExecBranch \/ ExecEnd PROVE Moves
  OBVIOUS
<1>1. prog' = prog /\ before' = before /\ past' = past /\ bank' = bank
  BY DEF ExecRead, ExecBranch, ExecEnd, chips
<1>2. prog # "none" /\ result = "" /\ pc \in Nat
  BY DEF ExecRead, ExecBranch, ExecEnd, Running, HostTypes
<1>3. \A n \in Nat : n + 1 + 0 = n + 1
  OBVIOUS
<1>4. \/ pc' = pc
      \/ /\ Running /\ pc' = pc + 1 /\ This.kind # "leave"
         /\ This.kind \notin {"bank", "reset"}
         /\ This.kind = "zero" => bank[This.chip] = 0
      \/ Running /\ pc' = pc + 1 + This.n /\ This.kind \in Jumps
  <2>1. CASE ExecRead
    BY <2>1, Zenon DEF ExecRead, Goto, Return, Jumps
  <2>2. CASE ExecBranch
    <3>1. /\ Running
          /\ \/ This.kind \in {"maybe", "skip"} /\ (pc' = pc + 1 + This.n \/ pc' = pc + 1 + 0)
             \/ This.kind \in {"due", "mark"} /\ (pc' = pc + 1 \/ pc' = pc)
             \/ pc' = pc
      BY <2>2 DEF ExecBranch, Goto, Return
    <3>2. pc + 1 + 0 = pc + 1
      BY <1>2, <1>3
    <3> QED BY <3>1, <3>2 DEF Jumps
  <2>3. CASE ExecEnd
    BY <2>3 DEF ExecEnd, Return
  <2> QED BY <2>1, <2>2, <2>3
<1> QED BY <1>1, <1>2, <1>4, QuietMoves

(* Until a chip's first program is past, no other one has used it.          *)
LEMMA Earliest ==
  ASSUME StartInv, prog # "none"
  PROVE  /\ past["receiver_id"] = "fresh" => prog = "receiver_id"
         /\ past["splitter_startup"] = "fresh" =>
              prog \in ReceiverPrograms \cup {"splitter_startup"}
<1> USE DEF StartInv
<1>0. PHASES[1] = "receiver_id" /\ PHASES[4] = "splitter_startup"
  BY DEF PHASES
<1>1. CASE module = "capture"
  <2>1. past[PHASES[1]] = "done" /\ past[PHASES[4]] = "done"
    <3>1. 1 \in 1 .. 6 /\ 4 \in 1 .. 6
      OBVIOUS
    <3> QED BY <1>1, <3>1 DEF WorkerInv, AllDone
  <2> QED BY <1>0, <2>1
<1>2. CASE module = "none"
  <2>1. checkpoint.next \in 0 .. 5 /\ prog = PHASES[checkpoint.next + 1]
    BY <1>2, PendingStep
  <2>2. \A i \in 1 .. checkpoint.next : past[PHASES[i]] = "done"
    BY DEF CheckpointInv
  <2>3. past["receiver_id"] = "fresh" => checkpoint.next = 0
    BY <1>0, <2>1, <2>2
  <2>4. past["splitter_startup"] = "fresh" => checkpoint.next \in {0, 1, 2, 3}
    BY <1>0, <2>1, <2>2
  <2>5. PHASES[0 + 1] = "receiver_id" /\ PHASES[1 + 1] = "receiver_init"
        /\ PHASES[2 + 1] = "receiver_calibrate" /\ PHASES[3 + 1] = "splitter_startup"
    BY DEF PHASES
  <2> QED BY <2>1, <2>3, <2>4, <2>5 DEF ReceiverPrograms
<1> QED BY <1>1, <1>2 DEF HostTypes

(* A step of a program keeps what is known of the banks.                    *)
LEMMA ExecBanks == StartInv /\ BankInv /\ Exec => BankInv'
<1> SUFFICES ASSUME StartInv, BankInv, Exec PROVE BankInv'
  OBVIOUS
<1>1. Moves
  BY WriteMoves, BankMoves, FailMoves, OtherMoves DEF Exec, StartInv
<1>2. prog # "none"
  BY DEF Exec, ExecWrite, ExecBank, ExecFail, ExecRead, ExecBranch, ExecEnd, Running
<1>3. ProgramBanks'
  BY <1>1, <1>2 DEF Moves, BankInv, ProgramBanks
<1>4. FreshBanks'
  <2>1. ASSUME past["receiver_id"] = "fresh" PROVE bank'["rcv"] = 0
    <3>1. prog \in Blind /\ bank["rcv"] = 0
      BY <1>2, <2>1, Earliest DEF Blind, BankInv, FreshBanks
    <3> QED BY <1>1, <3>1 DEF Moves, Chips
  <2>2. ASSUME past["splitter_startup"] = "fresh", NEW c \in {"spl", "srx"}
        PROVE  bank'[c] = 0
    <3>1. bank[c] = 0 /\ c \in Chips
      BY <2>2 DEF BankInv, FreshBanks, Chips
    <3>2. CASE prog \in ReceiverPrograms
      BY <1>1, <3>1, <3>2 DEF Moves, Watched
    <3>3. CASE prog = "splitter_startup"
      BY <1>1, <3>1, <3>3 DEF Moves, Blind
    <3> QED BY <1>2, <2>2, <3>2, <3>3, Earliest
  <2> QED BY <1>1, <2>1, <2>2 DEF Moves, FreshBanks
<1> QED BY <1>1, <1>3, <1>4 DEF BankInv, Moves

(* A program begins in the banks that are there.                            *)
LEMMA StartBanks ==
  ASSUME BankInv, NEW p \in DOMAIN Program, p \in Blind => past[p] = "fresh",
         Start(p), bank' = bank, past' = past
  PROVE  BankInv'
<1>1. prog' = p /\ before'[1] = bank /\ pc' = 1
  BY DEF Start, Forget, chips
<1>2. BankTypes' /\ FreshBanks'
  BY DEF BankInv, BankTypes, FreshBanks
<1>3. p \in Blind => \A c \in Watched(p) : bank[c] = 0
  <2>1. p = "receiver_id" => Watched(p) = {"rcv"}
    BY DEF Watched, ReceiverPrograms
  <2>2. p = "splitter_startup" => Watched(p) = {"spl", "srx"}
    BY DEF Watched, ReceiverPrograms
  <2> QED BY <2>1, <2>2 DEF Blind, BankInv, FreshBanks
<1>4. \A c \in Watched(p) : bank[c] = Route(c, p, bank[c])[1]
  BY <1>3, Routed DEF IsRoute
<1>5. 1 \in 1 .. Len(Program[p]) + 1
  <2>1. Program[p] \in Seq(Tame(p))
    BY Programs
  <2>2. Len(Program[p]) \in Nat
    BY <2>1
  <2> QED BY <2>2
<1>6. ProgramBanks'
  BY <1>1, <1>3, <1>4, <1>5 DEF ProgramBanks
<1> QED BY <1>2, <1>6 DEF BankInv

(* None runs: the banks only have to be what they were.                     *)
LEMMA IdleBanks ==
  ASSUME BankInv, prog' = "none", bank' = bank,
         \A q \in DOMAIN Program : past'[q] = "fresh" => past[q] = "fresh"
  PROVE  BankInv'
<1>1. "receiver_id" \in DOMAIN Program /\ "splitter_startup" \in DOMAIN Program
  BY ProgramNames
<1> QED BY <1>1 DEF BankInv, BankTypes, FreshBanks, ProgramBanks

(* What becomes of a program only makes it less fresh.                      *)
LEMMA NeverFresher ==
  ASSUME StartInv, NEW r, Remember(r), NEW q \in DOMAIN Program, past'[q] = "fresh"
  PROVE  past[q] = "fresh"
<1>1. past \in [DOMAIN Program -> {"fresh", "done", "torn"}]
  BY DEF StartInv, HostTypes
<1> QED BY <1>1 DEF Remember

(* Every step keeps what is known of the banks.                             *)
LEMMA NextBanks == StartInv /\ BankInv /\ [Next]_vars => BankInv'
<1> SUFFICES ASSUME StartInv, BankInv, [Next]_vars PROVE BankInv'
  OBVIOUS
<1>1. CASE UNCHANGED <<chips, exec, past>>
  BY <1>1 DEF chips, exec, BankInv, BankTypes, ProgramBanks, FreshBanks
<1>2. CASE StepBegin
  <2>1. /\ checkpoint.next < 6 /\ Start(PHASES[checkpoint.next + 1]) /\ bank' = bank
        /\ past' = past /\ checkpoint.here /\ ~checkpoint.pending
        /\ checkpoint.next \in 0 .. 6
    BY <1>2 DEF StepBegin, First, chips, StartInv, ScriptInv, HostTypes
  <2>2. checkpoint.next + 1 \in 1 .. 6 /\ checkpoint.next + 1 \in checkpoint.next + 1 .. 6
    <3> DEFINE n == checkpoint.next
    <3> HIDE DEF n
    <3>1. n \in 0 .. 6 /\ n < 6
      BY <2>1 DEF n
    <3>2. n + 1 \in 1 .. 6 /\ n + 1 \in n + 1 .. 6
      BY <3>1
    <3> QED BY <3>2 DEF n
  <2>3. past[PHASES[checkpoint.next + 1]] = "fresh"
    BY <2>1, <2>2 DEF StartInv, CheckpointInv
  <2>4. PHASES[checkpoint.next + 1] \in DOMAIN Program
    BY <2>2, ProgramNames DEF Counted
  <2> QED BY <2>1, <2>3, <2>4, StartBanks
<1>3. CASE LoadReady
  <2>1. Start("passthrough") /\ bank' = bank /\ past' = past
    BY <1>3 DEF LoadReady, chips
  <2> QED BY <2>1, ProgramNames, StartBanks DEF Blind
<1>4. CASE WorkRun
  <2>1. /\ Start(WorkerProgram[phase - First + 1]) /\ bank' = bank /\ past' = past
        /\ phase \in First .. Last - 1
    BY <1>4 DEF WorkRun, chips
  <2>2. phase - First + 1 \in 1 .. 13
    BY <2>1 DEF First, Last
  <2>3. /\ WorkerProgram[phase - First + 1] \in DOMAIN Program
        /\ WorkerProgram[phase - First + 1] \notin Blind
    <3>1. PHASES[1] = "receiver_id" /\ PHASES[4] = "splitter_startup"
      BY DEF PHASES
    <3>2. 1 \in 1 .. 6 /\ 4 \in 1 .. 6
      OBVIOUS
    <3> QED BY <2>2, <3>1, <3>2, ProgramNames DEF Blind
  <2> QED BY <2>1, <2>3, StartBanks
<1>5. CASE StepEnd \/ WorkEnd \/ ProbeEnds \/ Reboot
  <2>1. prog' = "none" /\ bank' = bank
    BY <1>5 DEF StepEnd, WorkEnd, ProbeEnds, Reboot, Finish, chips
  <2>2. past' = past \/ \E r : Remember(r)
    BY <1>5, Zenon DEF StepEnd, WorkEnd, ProbeEnds, Reboot
  <2> QED BY <2>1, <2>2, NeverFresher, IdleBanks
<1>6. CASE PowerCycle
  <2>1. prog' = "none" /\ bank' = [c \in Chips |-> 0]
    BY <1>6 DEF PowerCycle, Finish
  <2> QED BY <2>1 DEF BankInv, BankTypes, ProgramBanks, FreshBanks, Chips
<1>7. \/ Exec \/ UNCHANGED <<chips, exec, past>> \/ StepBegin \/ LoadReady \/ WorkRun
      \/ StepEnd \/ WorkEnd \/ ProbeEnds \/ Reboot \/ PowerCycle
  BY DEF Next, Script, Work, Fault, ScriptStart, Handoff, Preserve, Unload, Kill, Settle, vars
<1> QED BY <1>1, <1>2, <1>3, <1>4, <1>5, <1>6, <1>7, ExecBanks

(* Initially every chip is in bank 0.                                       *)
LEMMA InitBanks == Init => BankInv
<1> SUFFICES ASSUME Init PROVE BankInv
  OBVIOUS
<1>1. bank = [c \in Chips |-> 0] /\ prog = "none"
  BY DEF Init
<1> QED BY <1>1 DEF BankInv, BankTypes, ProgramBanks, FreshBanks, Chips

-----------------------------------------------------------------------------
(* HotplugHonest: first, what the programs do to the settings hot-plug      *)
(* depends on.                                                              *)

(* The settings hot-plug depends on, and hot-plug.                          *)
Gates == {"hpd", "rddc", "rport", "s55", "sddc"}

(* None of them is the name of a chip, or the pixel counter.                *)
LEMMA GatesAreSettings == \A f \in Gates : f \notin Chips /\ f # "tick"
  BY DEF Gates, Chips

(* A sequence that writes no setting carries every setting through.         *)
LEMMA Passes ==
  ASSUME NEW f \in Gates, NEW c, NEW x, NEW y, NEW s, Carries(c, s, x, y),
         NEW p \in Waits, s \in Seq(Tame(p)), NEW a
  PROVE  Carries(f, s, a, a)
<1>1. PICK B : Fits(c, s, B)
  BY DEF Carries
<1> DEFINE A == [i \in Nat |-> a]
<1>2. \A i \in Nat : A[i] = a
  OBVIOUS
<1> HIDE DEF A
<1>3. Len(s) \in Nat
  OBVIOUS
<1>4. \A i \in 1 .. Len(s) : s[i].kind \notin {"set", "poke", "reset"}
  BY DEF Tame
<1>5. ASSUME NEW i \in 1 .. Len(s)
      PROVE  /\ Wants(f, s[i], A[i])
             /\ s[i].kind # "leave" => Leads(f, s[i], A[i], A[i + 1])
             /\ s[i].kind \in Jumps => /\ s[i].n \in Nat /\ i + s[i].n <= Len(s)
                                       /\ A[i + 1 + s[i].n] = A[i]
  <2>1. i \in Nat /\ i + 1 \in Nat /\ \A n \in Nat : i + 1 + n \in Nat
    OBVIOUS
  <2>2. s[i].kind \in Jumps => s[i].n \in Nat /\ i + s[i].n <= Len(s)
    BY <1>1 DEF Fits
  <2>3. Wants(f, s[i], A[i]) /\ Leads(f, s[i], A[i], A[i + 1])
    BY <1>2, <1>4, <2>1, GatesAreSettings DEF Wants, WantsSetting, Leads, LeadsSetting
  <2> QED BY <1>2, <2>1, <2>2, <2>3
<1>6. A[1] = a /\ A[Len(s) + 1] = a /\ Fits(f, s, A)
  BY <1>2, <1>3, <1>5 DEF Fits
<1> QED BY <1>6, Zenon DEF Carries

(* The receiver's segments that do so.                                      *)
LEMMA ReceiverPasses ==
  ASSUME NEW f \in Gates, NEW a
  PROVE  /\ Carries(f, ReceiverStatus, a, a) /\ Carries(f, ReceiverEdidRead, a, a)
         /\ Carries(f, DdcSnapshot, a, a)
<1>1. "receiver_wait" \in Waits /\ "receiver_wait" \in PatientPrograms
  BY DEF Waits, PatientPrograms
<1>2. Carries(f, ReceiverStatus, a, a)
  BY <1>1, ReceiverStatusTame, ReceiverStatusBanks, Passes
<1>3. Carries(f, ReceiverEdidRead, a, a)
  BY <1>1, ReceiverEdidReadTame, ReceiverEdidReadBanks, Passes
<1>4. Carries(f, DdcSnapshot, a, a)
  BY <1>1, DdcSnapshotTame, DdcSnapshotBanks, Passes
<1> QED BY <1>2, <1>3, <1>4

(* The splitter's.                                                          *)
LEMMA SplitterPasses ==
  ASSUME NEW f \in Gates, NEW a
  PROVE  Carries(f, SplitterLinkStatus, a, a) /\ Carries(f, SplitterEdidRead, a, a)
<1>1. "receiver_wait" \in Waits
  BY DEF Waits
<1>2. Carries(f, SplitterLinkStatus, a, a)
  BY <1>1, SplitterLinkStatusTame, SplitterLinkStatusBanks, Passes
<1>3. Carries(f, SplitterEdidRead, a, a)
  BY <1>1, SplitterEdidReadTame, SplitterEdidReadBanks, Passes
<1> QED BY <1>2, <1>3

(* Visits.                                                                  *)
LEMMA VisitPasses ==
  ASSUME NEW f \in Gates, NEW c \in {"rcv", "srx"}, NEW banks \in Seq(Nat),
         NEW m \in Nat \ {0}, Len(banks) = m, NEW a
  PROVE  Carries(f, Visit(c, banks), a, a)
<1>1. "receiver_wait" \in Waits /\ c \in Chips \ {"fpga", "tx"} /\ c \in Side(c)
  BY DEF Waits, Chips, Side
<1>2. Carries(c, Visit(c, banks), 0, banks[m])
  BY <1>1, VisitFlow
<1>3. Visit(c, banks) \in Seq(Tame("receiver_wait"))
  BY <1>1, Visits
<1> QED BY <1>1, <1>2, <1>3, Passes

(* The operations that look.                                                *)
LEMMA LookFlow ==
  ASSUME NEW f \in Gates, NEW c, NEW b, NEW a
  PROVE  /\ Steps(f, Bank(c, b), a, a) /\ Steps(f, Put(c, b), a, a) /\ Steps(f, Get(c, b), a, a)
  BY GatesAreSettings DEF Steps, Wants, WantsSetting, Leads, LeadsSetting, Jumps, Bank, Put,
    Get, Op

(* So does a look at the source or the sink, ...                            *)
LEMMA AskPasses ==
  ASSUME NEW f \in Gates, NEW c, NEW b, NEW e, NEW a
  PROVE  Steps(f, Ask(c, b, e), a, a)
  BY GatesAreSettings DEF Steps, Wants, WantsSetting, Leads, LeadsSetting, Jumps, Ask, Op

(* ... and nothing follows a return.                                        *)
LEMMA LeavePasses ==
  ASSUME NEW f \in Gates, NEW e, NEW a
  PROVE  Steps(f, Leave(e), a, a)
  BY GatesAreSettings DEF Steps, Wants, WantsSetting, Leads, LeadsSetting, Jumps, Leave, Op

(* After a look that asks for one value, the setting has it.                *)
LEMMA NeedLeads ==
  ASSUME NEW f \in Gates, NEW c, NEW g, NEW v, NEW e, NEW a
  PROVE  Steps(f, Need(c, g, {v}, e), a, IF f = g THEN v ELSE a)
  BY GatesAreSettings DEF Steps, Wants, WantsSetting, Leads, LeadsSetting, Jumps, Need, Op

(* A write of a setting, where what it relies on holds, leads to the value. *)
LEMMA SetLeads ==
  ASSUME NEW f \in Gates, NEW c, NEW b, NEW g, NEW v, NEW a,
         f = "hpd" /\ g \in {"rddc", "rport"} => a = "low",
         f = "rddc" /\ g = "hpd" => a = "ours",
         f = "rport" /\ g = "hpd" => a = "ready",
         f = "s55" /\ g = "sddc" => a = "off",
         f = "sddc" /\ g = "s55" => v = "off" \/ a # "part"
  PROVE  Steps(f, Set(c, b, g, v), a, IF f = g THEN v ELSE a)
  BY GatesAreSettings DEF Steps, Wants, WantsSetting, Leads, LeadsSetting, Jumps, Set, Op

(* A sequence of one operation.                                             *)
LEMMA OneStep ==
  ASSUME NEW f, NEW o, NEW a, NEW b, Steps(f, o, a, b)
  PROVE  Carries(f, <<o>>, a, b)
<1> DEFINE u == <<o>>
           A == <<a, b>>
<1>1. \A i \in 1 .. 1 : Steps(f, u[i], A[i], A[i + 1])
  OBVIOUS
<1>2. u \in Seq({u[i] : i \in 1 .. 1}) /\ Len(u) = 1
  OBVIOUS
<1>3. Carries(f, u, A[1], A[Len(u) + 1])
  BY <1>1, <1>2, Line
<1> QED BY <1>2, <1>3

(* A look at another setting passes.                                        *)
LEMMA NeedStays ==
  ASSUME NEW f \in Gates, NEW c, NEW g, NEW vs, NEW e, NEW a, f # g
  PROVE  Steps(f, Need(c, g, vs, e), a, a)
  BY GatesAreSettings DEF Steps, Wants, WantsSetting, Leads, LeadsSetting, Jumps, Need, Op

(* The receiver's input keeps hot-plug low while the EDID and the port are  *)
(* written, and raises it when both are ready.                              *)
LEMMA ReceiverDdcGates ==
  ASSUME NEW a
  PROVE  /\ Carries("hpd", ReceiverDdc, a, "low")
         /\ Carries("rddc", ReceiverDdc, a, "ours")
         /\ Carries("rport", ReceiverDdc, a, a)
<1> DEFINE u1 == <<Need("fpga", "hpd", {"low"}, "busy")>>
           u2 == <<Ask("rcv", 0, "busy"), Ask("rcv", 0, "inval")>>
           u3 == <<Ask("rcv", 0, "busy"), Set("rcv", 0, "rddc", "part")>>
           u4 == <<Bank("rcv", 4), Set("rcv", 4, "rddc", "ours"), Bank("rcv", 0)>>
           u5 == <<Need("rcv", "rddc", {"ours"}, "fail")>>
           v  == Visit("rcv", <<4, 0, 4, 0, 4, 0>>)
<1>1. ASSUME NEW f \in Gates, NEW m1, NEW m2, NEW m3,
             Steps(f, Need("fpga", "hpd", {"low"}, "busy"), a, m1),
             Steps(f, Set("rcv", 0, "rddc", "part"), m1, m2),
             Steps(f, Set("rcv", 4, "rddc", "ours"), m2, m3),
             Steps(f, Need("rcv", "rddc", {"ours"}, "fail"), m3, m3)
      PROVE  Carries(f, ReceiverDdc, a, m3)
  <2>1. Carries(f, u1, a, m1)
    BY <1>1, OneStep
  <2>2. Carries(f, u2, m1, m1)
    <3>1. \A i \in 1 .. 2 : Steps(f, u2[i], m1, m1)
      BY AskPasses
    <3>2. u2 \in Seq({u2[i] : i \in 1 .. 2}) /\ Len(u2) = 2
      OBVIOUS
    <3> QED BY <3>1, <3>2, Rest
  <2>3. Carries(f, u3, m1, m2)
    <3> DEFINE A == <<m1, m1, m2>>
    <3>1. \A i \in 1 .. 2 : Steps(f, u3[i], A[i], A[i + 1])
      BY <1>1, AskPasses
    <3>2. u3 \in Seq({u3[i] : i \in 1 .. 2}) /\ Len(u3) = 2
      OBVIOUS
    <3>3. Carries(f, u3, A[1], A[Len(u3) + 1])
      BY <3>1, <3>2, Line
    <3> QED BY <3>2, <3>3
  <2>4. Carries(f, u4, m2, m3)
    <3> DEFINE A == <<m2, m2, m3, m3>>
    <3>1. \A i \in 1 .. 3 : Steps(f, u4[i], A[i], A[i + 1])
      BY <1>1, LookFlow
    <3>2. u4 \in Seq({u4[i] : i \in 1 .. 3}) /\ Len(u4) = 3
      OBVIOUS
    <3>3. Carries(f, u4, A[1], A[Len(u4) + 1])
      BY <3>1, <3>2, Line
    <3> QED BY <3>2, <3>3
  <2>5. Carries(f, u5, m3, m3)
    BY <1>1, OneStep
  <2>6. Carries(f, v, m2, m2)
    <3>1. <<4, 0, 4, 0, 4, 0>> \in Seq(Nat) /\ Len(<<4, 0, 4, 0, 4, 0>>) = 6 /\ 6 \in Nat \ {0}
      OBVIOUS
    <3> QED BY <3>1, VisitPasses
  <2>7. Carries(f, u1 \o ReceiverEdidRead \o u2 \o DdcSnapshot \o u3, a, m2)
    <3>1. Carries(f, u1 \o ReceiverEdidRead, a, m1)
      BY <2>1, ReceiverPasses, Joined
    <3>2. Carries(f, u1 \o ReceiverEdidRead \o u2, a, m1)
      BY <2>2, <3>1, Joined
    <3>3. Carries(f, u1 \o ReceiverEdidRead \o u2 \o DdcSnapshot, a, m1)
      BY <3>2, ReceiverPasses, Joined
    <3> QED BY <2>3, <3>3, Joined
  <2>8. Carries(f, u1 \o ReceiverEdidRead \o u2 \o DdcSnapshot \o u3 \o v \o u4, a, m3)
    <3>1. Carries(f, u1 \o ReceiverEdidRead \o u2 \o DdcSnapshot \o u3 \o v, a, m2)
      BY <2>6, <2>7, Joined
    <3> QED BY <2>4, <3>1, Joined
  <2>9. Carries(f, u1 \o ReceiverEdidRead \o u2 \o DdcSnapshot \o u3 \o v \o u4 \o DdcSnapshot
                   \o u5, a, m3)
    <3>1. Carries(f, u1 \o ReceiverEdidRead \o u2 \o DdcSnapshot \o u3 \o v \o u4
                     \o DdcSnapshot, a, m3)
      BY <2>8, ReceiverPasses, Joined
    <3> QED BY <2>5, <3>1, Joined
  <2> QED BY <2>9, ReceiverPasses, Joined DEF ReceiverDdc
<1>2. "hpd" \in Gates /\ "rddc" \in Gates /\ "rport" \in Gates
  BY DEF Gates
<1>3. Carries("hpd", ReceiverDdc, a, "low")
  <2>1. /\ Steps("hpd", Need("fpga", "hpd", {"low"}, "busy"), a, "low")
        /\ Steps("hpd", Set("rcv", 0, "rddc", "part"), "low", "low")
        /\ Steps("hpd", Set("rcv", 4, "rddc", "ours"), "low", "low")
        /\ Steps("hpd", Need("rcv", "rddc", {"ours"}, "fail"), "low", "low")
    BY <1>2, NeedLeads, NeedStays, SetLeads
  <2> QED BY <1>1, <1>2, <2>1
<1>4. Carries("rddc", ReceiverDdc, a, "ours")
  <2>1. /\ Steps("rddc", Need("fpga", "hpd", {"low"}, "busy"), a, a)
        /\ Steps("rddc", Set("rcv", 0, "rddc", "part"), a, "part")
        /\ Steps("rddc", Set("rcv", 4, "rddc", "ours"), "part", "ours")
        /\ Steps("rddc", Need("rcv", "rddc", {"ours"}, "fail"), "ours", "ours")
    BY <1>2, NeedLeads, NeedStays, SetLeads
  <2> QED BY <1>1, <1>2, <2>1
<1>5. Carries("rport", ReceiverDdc, a, a)
  <2>1. /\ Steps("rport", Need("fpga", "hpd", {"low"}, "busy"), a, a)
        /\ Steps("rport", Set("rcv", 0, "rddc", "part"), a, a)
        /\ Steps("rport", Set("rcv", 4, "rddc", "ours"), a, a)
        /\ Steps("rport", Need("rcv", "rddc", {"ours"}, "fail"), a, a)
    BY <1>2, NeedStays, SetLeads
  <2> QED BY <1>1, <1>2, <2>1
<1> QED BY <1>3, <1>4, <1>5

(* The whole of it.                                                         *)
LEMMA ReceiverInputGates ==
  ASSUME NEW a
  PROVE  /\ Carries("hpd", ReceiverInput, a, "high")
         /\ Carries("rddc", ReceiverInput, a, "ours")
         /\ Carries("rport", ReceiverInput, a, "ready")
<1> DEFINE u1 == <<Ask("rcv", 0, "nolink"), Bank("rcv", 1), Set("rcv", 1, "rport", "part")>>
           u2 == <<Bank("rcv", 0), Set("rcv", 0, "rport", "ready"), Ask("rcv", 0, "nolink"),
                   Need("fpga", "hpd", {"low"}, "fail"), Set("fpga", 0, "hpd", "high"),
                   Get("rcv", 0)>>
           v  == Visit("rcv", <<0, 0, 0, 3, 7, 0, 3, 7, 0, 3, 0, 3, 0, 1>>)
<1>1. ASSUME NEW f \in Gates, NEW m1, NEW m2, NEW m3, NEW m4,
             Carries(f, ReceiverDdc, a, m1),
             Steps(f, Set("rcv", 1, "rport", "part"), m1, m2),
             Steps(f, Set("rcv", 0, "rport", "ready"), m2, m3),
             Steps(f, Need("fpga", "hpd", {"low"}, "fail"), m3, m3),
             Steps(f, Set("fpga", 0, "hpd", "high"), m3, m4)
      PROVE  Carries(f, ReceiverInput, a, m4)
  <2>1. Carries(f, u1, m1, m2)
    <3> DEFINE A == <<m1, m1, m1, m2>>
    <3>1. \A i \in 1 .. 3 : Steps(f, u1[i], A[i], A[i + 1])
      BY <1>1, AskPasses, LookFlow
    <3>2. u1 \in Seq({u1[i] : i \in 1 .. 3}) /\ Len(u1) = 3
      OBVIOUS
    <3>3. Carries(f, u1, A[1], A[Len(u1) + 1])
      BY <3>1, <3>2, Line
    <3> QED BY <3>2, <3>3
  <2>2. Carries(f, v, m2, m2)
    <3>1. /\ <<0, 0, 0, 3, 7, 0, 3, 7, 0, 3, 0, 3, 0, 1>> \in Seq(Nat)
          /\ Len(<<0, 0, 0, 3, 7, 0, 3, 7, 0, 3, 0, 3, 0, 1>>) = 14 /\ 14 \in Nat \ {0}
      OBVIOUS
    <3> QED BY <3>1, VisitPasses
  <2>3. Carries(f, u2, m2, m4)
    <3> DEFINE A == <<m2, m2, m3, m3, m3, m4, m4>>
    <3>1. \A i \in 1 .. 6 : Steps(f, u2[i], A[i], A[i + 1])
      BY <1>1, AskPasses, LookFlow
    <3>2. u2 \in Seq({u2[i] : i \in 1 .. 6}) /\ Len(u2) = 6
      OBVIOUS
    <3>3. Carries(f, u2, A[1], A[Len(u2) + 1])
      BY <3>1, <3>2, Line
    <3> QED BY <3>2, <3>3
  <2>4. Carries(f, ReceiverDdc \o u1, a, m2)
    BY <1>1, <2>1, Joined
  <2>5. Carries(f, ReceiverDdc \o u1 \o v, a, m2)
    BY <2>2, <2>4, Joined
  <2>6. Carries(f, ReceiverDdc \o u1 \o v \o u2, a, m4)
    BY <2>3, <2>5, Joined
  <2> QED BY <2>6, ReceiverPasses, Joined DEF ReceiverInput
<1>2. "hpd" \in Gates /\ "rddc" \in Gates /\ "rport" \in Gates
  BY DEF Gates
<1>3. Carries("hpd", ReceiverInput, a, "high")
  <2>1. /\ Steps("hpd", Set("rcv", 1, "rport", "part"), "low", "low")
        /\ Steps("hpd", Set("rcv", 0, "rport", "ready"), "low", "low")
        /\ Steps("hpd", Need("fpga", "hpd", {"low"}, "fail"), "low", "low")
        /\ Steps("hpd", Set("fpga", 0, "hpd", "high"), "low", "high")
    BY <1>2, NeedLeads, SetLeads
  <2> QED BY <1>1, <1>2, <2>1, ReceiverDdcGates
<1>4. Carries("rddc", ReceiverInput, a, "ours")
  <2>1. /\ Steps("rddc", Set("rcv", 1, "rport", "part"), "ours", "ours")
        /\ Steps("rddc", Set("rcv", 0, "rport", "ready"), "ours", "ours")
        /\ Steps("rddc", Need("fpga", "hpd", {"low"}, "fail"), "ours", "ours")
        /\ Steps("rddc", Set("fpga", 0, "hpd", "high"), "ours", "ours")
    BY <1>2, NeedStays, SetLeads
  <2> QED BY <1>1, <1>2, <2>1, ReceiverDdcGates
<1>5. Carries("rport", ReceiverInput, a, "ready")
  <2>1. /\ Steps("rport", Set("rcv", 1, "rport", "part"), a, "part")
        /\ Steps("rport", Set("rcv", 0, "rport", "ready"), "part", "ready")
        /\ Steps("rport", Need("fpga", "hpd", {"low"}, "fail"), "ready", "ready")
        /\ Steps("rport", Set("fpga", 0, "hpd", "high"), "ready", "ready")
    BY <1>2, NeedStays, SetLeads
  <2> QED BY <1>1, <1>2, <2>1, ReceiverDdcGates
<1> QED BY <1>3, <1>4, <1>5

(* The splitter's hot-plug is raised over a whole EDID set-up or none.      *)
LEMMA RaiseHotplugGates ==
  ASSUME NEW a
  PROVE  /\ Carries("s55", RaiseHotplug, a, "on")
         /\ a # "part" => Carries("sddc", RaiseHotplug, a, a)
<1>1. ASSUME NEW f \in Gates, f # "sab", f # "s26", NEW m,
             Steps(f, Set("srx", 0, "s55", "on"), a, m)
      PROVE  Carries(f, RaiseHotplug, a, m)
  <2> DEFINE u == <<Bank("srx", 3), Set("srx", 3, "sab", "ca"), Bank("srx", 0),
                    Set("srx", 0, "s26", "off"), Set("srx", 0, "s55", "on"), Get("srx", 0)>>
             A == <<a, a, a, a, a, m, m>>
  <2>1. Steps(f, Set("srx", 3, "sab", "ca"), a, a) /\ Steps(f, Set("srx", 0, "s26", "off"), a, a)
    BY <1>1, SetLeads
  <2>2. \A i \in 1 .. 6 : Steps(f, u[i], A[i], A[i + 1])
    BY <1>1, <2>1, LookFlow
  <2>3. u \in Seq({u[i] : i \in 1 .. 6}) /\ Len(u) = 6
    OBVIOUS
  <2>4. Carries(f, u, A[1], A[Len(u) + 1])
    BY <2>2, <2>3, Line
  <2> QED BY <2>3, <2>4 DEF RaiseHotplug
<1>2. "s55" \in Gates /\ "sddc" \in Gates
  BY DEF Gates
<1>3. Steps("s55", Set("srx", 0, "s55", "on"), a, "on")
  BY <1>2, SetLeads
<1>4. a # "part" => Steps("sddc", Set("srx", 0, "s55", "on"), a, a)
  BY <1>2, SetLeads
<1> QED BY <1>1, <1>2, <1>3, <1>4

(* The first time, the EDID is not set up.                                  *)
LEMMA SplitterInputHpdGates ==
  ASSUME NEW a
  PROVE  /\ Carries("s55", SplitterInputHpd, a, "on")
         /\ Carries("sddc", SplitterInputHpd, a, "off")
<1> DEFINE u1 == <<Ask("srx", 0, "nopower"), Ask("tx", 0, "unsup"),
                   Need("srx", "s26", {"on"}, "unsup"), Need("srx", "s55", {"off"}, "unsup"),
                   Need("srx", "sddc", {"off"}, "unsup"),
                   Put("spl", 0), Bank("srx", 0), Ask("srx", 0, "nolink")>>
           u2 == <<Bank("srx", 0), Set("srx", 0, "s26", "off"), Put("spl", 0),
                   Ask("srx", 0, "nolink")>>
           v  == Visit("srx", <<3>>)
<1>1. ASSUME NEW f \in Gates, NEW m1, NEW m2, NEW m3,
             Steps(f, Need("srx", "s26", {"on"}, "unsup"), a, a),
             Steps(f, Need("srx", "s55", {"off"}, "unsup"), a, m1),
             Steps(f, Need("srx", "sddc", {"off"}, "unsup"), m1, m2),
             Steps(f, Set("srx", 0, "s26", "off"), m2, m2),
             Carries(f, RaiseHotplug, m2, m3)
      PROVE  Carries(f, SplitterInputHpd, a, m3)
  <2>1. Carries(f, u1, a, m2)
    <3> DEFINE A == <<a, a, a, a, m1, m2, m2, m2, m2>>
    <3>1. \A i \in 1 .. 8 : Steps(f, u1[i], A[i], A[i + 1])
      BY <1>1, AskPasses, LookFlow
    <3>2. u1 \in Seq({u1[i] : i \in 1 .. 8}) /\ Len(u1) = 8
      OBVIOUS
    <3>3. Carries(f, u1, A[1], A[Len(u1) + 1])
      BY <3>1, <3>2, Line
    <3> QED BY <3>2, <3>3
  <2>2. Carries(f, v, m2, m2)
    <3>1. <<3>> \in Seq(Nat) /\ Len(<<3>>) = 1 /\ 1 \in Nat \ {0}
      OBVIOUS
    <3> QED BY <3>1, VisitPasses
  <2>3. Carries(f, u2, m2, m2)
    <3>1. \A i \in 1 .. 4 : Steps(f, u2[i], m2, m2)
      BY <1>1, AskPasses, LookFlow
    <3>2. u2 \in Seq({u2[i] : i \in 1 .. 4}) /\ Len(u2) = 4
      OBVIOUS
    <3> QED BY <3>1, <3>2, Rest
  <2>4. Carries(f, SplitterLinkStatus \o u1, a, m2)
    BY <2>1, SplitterPasses, Joined
  <2>5. Carries(f, SplitterLinkStatus \o u1 \o v, a, m2)
    BY <2>2, <2>4, Joined
  <2>6. Carries(f, SplitterLinkStatus \o u1 \o v \o u2, a, m2)
    BY <2>3, <2>5, Joined
  <2> QED BY <1>1, <2>6, Joined DEF SplitterInputHpd
<1>2. "s55" \in Gates /\ "sddc" \in Gates
  BY DEF Gates
<1>3. Carries("s55", SplitterInputHpd, a, "on")
  <2>1. /\ Steps("s55", Need("srx", "s26", {"on"}, "unsup"), a, a)
        /\ Steps("s55", Need("srx", "s55", {"off"}, "unsup"), a, "off")
        /\ Steps("s55", Need("srx", "sddc", {"off"}, "unsup"), "off", "off")
        /\ Steps("s55", Set("srx", 0, "s26", "off"), "off", "off")
    BY <1>2, NeedLeads, NeedStays, SetLeads
  <2> QED BY <1>1, <1>2, <2>1, RaiseHotplugGates
<1>4. Carries("sddc", SplitterInputHpd, a, "off")
  <2>1. /\ Steps("sddc", Need("srx", "s26", {"on"}, "unsup"), a, a)
        /\ Steps("sddc", Need("srx", "s55", {"off"}, "unsup"), a, a)
        /\ Steps("sddc", Need("srx", "sddc", {"off"}, "unsup"), a, "off")
        /\ Steps("sddc", Set("srx", 0, "s26", "off"), "off", "off")
    BY <1>2, NeedLeads, NeedStays, SetLeads
  <2> QED BY <1>1, <1>2, <2>1, RaiseHotplugGates
<1> QED BY <1>3, <1>4

(* So does a jump after a look at any.                                      *)
LEMMA SkipPasses ==
  ASSUME NEW f \in Gates, NEW c, NEW g, NEW vs, NEW n, NEW a
  PROVE  Hops(f, Skip(c, g, vs, n), a, n)
  BY GatesAreSettings DEF Hops, Wants, WantsSetting, Leads, LeadsSetting, Skip, Op

(* Then it is lowered while the EDID is set up.                             *)
LEMMA SplitterEdidEnableGates ==
  ASSUME NEW a
  PROVE  /\ Carries("s55", SplitterEdidEnable, a, "on")
         /\ Carries("sddc", SplitterEdidEnable, a, "on")
<1> DEFINE u == <<Ask("srx", 0, "inval"), Ask("srx", 0, "unsup"),
                  Need("srx", "s26", {"off"}, "unsup"), Need("srx", "s55", {"on"}, "unsup"),
                  Bank("srx", 3), Get("srx", 3), Skip("srx", "sab", {"ca"}, 2),
                  Bank("srx", 0), Leave("unsup"), Set("srx", 3, "sab", "other"),
                  Bank("srx", 0), Set("srx", 0, "s26", "on"), Set("srx", 0, "s55", "off"),
                  Put("srx", 0), Set("srx", 0, "sddc", "part"), Set("srx", 0, "sddc", "on"),
                  Put("srx", 0), Ask("srx", 0, "nolink")>>
<1>1. ASSUME NEW f \in Gates, NEW m1, NEW m2, NEW m3, NEW m4, NEW m5,
             Steps(f, Need("srx", "s26", {"off"}, "unsup"), a, a),
             Steps(f, Need("srx", "s55", {"on"}, "unsup"), a, m1),
             Steps(f, Set("srx", 3, "sab", "other"), m1, m1),
             Steps(f, Set("srx", 0, "s26", "on"), m1, m1),
             Steps(f, Set("srx", 0, "s55", "off"), m1, m2),
             Steps(f, Set("srx", 0, "sddc", "part"), m2, m3),
             Steps(f, Set("srx", 0, "sddc", "on"), m3, m4),
             Carries(f, RaiseHotplug, m4, m5)
      PROVE  Carries(f, SplitterEdidEnable, a, m5)
  <2> DEFINE A == <<a, a, a, a, m1, m1, m1, m1, m1, m1, m1, m1, m1, m2, m2, m3, m4, m4, m4>>
  <2>1. \A i \in (1 .. 18) \ {7} : Steps(f, u[i], A[i], A[i + 1])
    BY <1>1, AskPasses, LookFlow, LeavePasses
  <2>2. Hops(f, u[7], A[7], 2) /\ A[8] = A[7] /\ A[10] = A[7]
    BY SkipPasses
  <2>3. u \in Seq({u[i] : i \in 1 .. 18}) /\ Len(u) = 18
    OBVIOUS
  <2>4. A[1] = a /\ A[19] = m4
    OBVIOUS
  <2> HIDE DEF u, A
  <2>5. \A i \in 1 .. 18 :
          \/ Steps(f, u[i], A[i], A[i + 1])
          \/ \E n \in Nat : /\ Hops(f, u[i], A[i], n) /\ i + n <= 18
                            /\ A[i + 1] = A[i] /\ A[i + 1 + n] = A[i]
    BY <2>1, <2>2
  <2>6. Carries(f, u, a, m4)
    <3>1. \A i \in 1 .. Len(u) :
            \/ Steps(f, u[i], A[i], A[i + 1])
            \/ \E n \in Nat : /\ Hops(f, u[i], A[i], n) /\ i + n <= Len(u)
                              /\ A[i + 1] = A[i] /\ A[i + 1 + n] = A[i]
      BY <2>3, <2>5
    <3>2. Carries(f, u, A[1], A[Len(u) + 1])
      BY <2>3, <3>1, Line
    <3> QED BY <2>3, <2>4, <3>2
  <2>7. Carries(f, SplitterEdidRead \o u, a, m4)
    BY <2>6, SplitterPasses, Joined
  <2> QED BY <1>1, <2>7, Joined DEF SplitterEdidEnable, u
<1>2. "s55" \in Gates /\ "sddc" \in Gates
  BY DEF Gates
<1>3. Carries("s55", SplitterEdidEnable, a, "on")
  <2>1. /\ Steps("s55", Need("srx", "s26", {"off"}, "unsup"), a, a)
        /\ Steps("s55", Need("srx", "s55", {"on"}, "unsup"), a, "on")
        /\ Steps("s55", Set("srx", 3, "sab", "other"), "on", "on")
        /\ Steps("s55", Set("srx", 0, "s26", "on"), "on", "on")
    BY <1>2, NeedLeads, NeedStays, SetLeads
  <2>2. /\ Steps("s55", Set("srx", 0, "s55", "off"), "on", "off")
        /\ Steps("s55", Set("srx", 0, "sddc", "part"), "off", "off")
        /\ Steps("s55", Set("srx", 0, "sddc", "on"), "off", "off")
    BY <1>2, SetLeads
  <2> QED BY <1>1, <1>2, <2>1, <2>2, RaiseHotplugGates
<1>4. Carries("sddc", SplitterEdidEnable, a, "on")
  <2>1. /\ Steps("sddc", Need("srx", "s26", {"off"}, "unsup"), a, a)
        /\ Steps("sddc", Need("srx", "s55", {"on"}, "unsup"), a, a)
        /\ Steps("sddc", Set("srx", 3, "sab", "other"), a, a)
        /\ Steps("sddc", Set("srx", 0, "s26", "on"), a, a)
    BY <1>2, NeedStays, SetLeads
  <2>2. /\ Steps("sddc", Set("srx", 0, "s55", "off"), a, a)
        /\ Steps("sddc", Set("srx", 0, "sddc", "part"), a, "part")
        /\ Steps("sddc", Set("srx", 0, "sddc", "on"), "part", "on")
    BY <1>2, SetLeads
  <2> QED BY <1>1, <1>2, <2>1, <2>2, RaiseHotplugGates
<1> QED BY <1>3, <1>4

-----------------------------------------------------------------------------
(* The settings hot-plug depends on.                                        *)

(* The settings a program writes, or relies on when it does.                *)
Guarded(p) ==
  IF p = "receiver_input" THEN {"hpd", "rddc", "rport"}
  ELSE IF p \in SourcePrograms THEN {"s55", "sddc"} ELSE {}

IsGateRoute(f, p, a, A) == A[1] = a /\ Fits(f, Program[p], A)
GateRoute(f, p, a) == CHOOSE A : IsGateRoute(f, p, a, A)

ProgramGates ==
  prog # "none" /\ result # "fail" =>
    \A f \in Guarded(prog) : regs[f] = GateRoute(f, prog, before[2][f])[pc]

FreshGates == past["receiver_id"] = "fresh" => regs.hpd = "low"

GateInv == ProgramGates /\ FreshGates /\ HotplugHonest

(* Every program that writes such a setting has values to go by.            *)
LEMMA GateRouted ==
  ASSUME NEW p \in DOMAIN Program, NEW f \in Guarded(p), NEW a
  PROVE  f \in Gates /\ IsGateRoute(f, p, a, GateRoute(f, p, a))
<1>1. f \in Gates
  BY DEF Guarded, Gates
<1>2. \E b : Carries(f, Program[p], a, b)
  <2>1. CASE p = "receiver_input"
    <3>1. f \in {"hpd", "rddc", "rport"}
      BY <2>1 DEF Guarded
    <3> QED BY <2>1, <3>1, ProgramIs, ReceiverInputGates
  <2>2. CASE p = "splitter_input_hpd"
    <3>1. f \in {"s55", "sddc"}
      BY <2>2 DEF Guarded
    <3> QED BY <2>2, <3>1, ProgramIs, SplitterInputHpdGates
  <2>3. CASE p = "edid_enable"
    <3>1. f \in {"s55", "sddc"}
      BY <2>3 DEF Guarded
    <3> QED BY <2>3, <3>1, ProgramIs, SplitterEdidEnableGates
  <2> QED BY <2>1, <2>2, <2>3 DEF Guarded, SourcePrograms
<1>3. \E A : IsGateRoute(f, p, a, A)
  BY <1>2 DEF Carries, IsGateRoute
<1> QED BY <1>1, <1>3 DEF GateRoute

(* The operation that runs, and the settings.                               *)
LEMMA ThisGate ==
  ASSUME HostTypes, BankInv, GateInv, Running, NEW f \in Guarded(prog),
         NEW A, A = GateRoute(f, prog, before[2][f])
  PROVE  /\ WantsSetting(f, This, regs[f])
         /\ This.kind # "leave" => LeadsSetting(f, This, regs[f], A[pc + 1])
         /\ This.kind \in Jumps => A[pc + 1 + This.n] = regs[f]
         /\ regs[f] = A[pc]
<1>1. regs[f] = A[pc]
  BY ThisBank DEF GateInv, ProgramGates
<1>2. f \notin Chips /\ Fits(f, Program[prog], A)
  BY ThisBank, GateRouted, GatesAreSettings DEF IsGateRoute
<1> QED BY <1>1, <1>2, ThisBank DEF Fits, Wants, Leads, This

(* The first program writes the start-up GPIO only.                         *)
LEMMA FirstWrites ==
  ASSUME NEW i \in 1 .. Len(Program["receiver_id"]),
         Program["receiver_id"][i].kind \in {"set", "poke"}
  PROVE  Program["receiver_id"][i].name = "gpio"
<1>1. ASSUME NEW c, NEW b, NEW f, NEW v
      PROVE  /\ Set(c, b, f, v).name = f /\ Reset(c, b).kind = "reset" /\ Get(c, b).kind = "get"
  BY DEF Set, Reset, Get, Op
<1> QED BY <1>1, ProgramIs DEF ReceiverIdentify

(* A program that counts has not run before.                                *)
LEMMA RunsFresh ==
  ASSUME StartInv, prog \in Counted PROVE past[prog] = "fresh"
<1>1. prog \in DOMAIN Program /\ prog # "none" /\ prog # "passthrough"
  BY ProgramNames DEF Counted
<1>2. CASE module = "none"
  <2>1. /\ checkpoint.next \in 0 .. 5 /\ prog = PHASES[checkpoint.next + 1]
        /\ checkpoint.here
    BY <1>1, <1>2 DEF StartInv, ScriptInv, CheckpointInv, HostTypes
  <2>2. checkpoint.next + 1 \in checkpoint.next + 1 .. 6
    BY <2>1
  <2> QED BY <1>1, <1>2, <2>1, <2>2 DEF StartInv, CheckpointInv
<1>3. CASE module = "capture"
  <2>1. /\ phase \in First .. Last /\ phase # Last
        /\ phase < Last => prog = WorkerProgram[phase - First + 1] /\ error = ""
    BY <1>1, <1>3 DEF StartInv, WorkerInv
  <2>2. phase \in First .. Last - 1 /\ phase < Last
    BY <2>1, EarlyPhase
  <2>3. prog \in Ahead(phase)
    BY <2>1, <2>2, PhasesDiffer
  <2> QED BY <1>3, <2>1, <2>2, <2>3 DEF StartInv, WorkerInv
<1> QED BY <1>2, <1>3 DEF StartInv, HostTypes

(* What an operation may write of them.                                     *)
LEMMA GateWrites ==
  ASSUME StartInv, BankInv, GateInv, Running, This.kind \in {"set", "poke"}
  PROVE  /\ This.name = "hpd" =>
              prog = "receiver_input" /\ regs.rddc = "ours" /\ regs.rport = "ready"
         /\ This.name \in {"rddc", "rport"} => regs.hpd = "low"
         /\ This.name = "s55" => This.values = {"off"} \/ regs.sddc # "part"
         /\ This.name = "sddc" => This.values = {"off"} \/ regs.s55 = "off"
<1>0. This \in Tame(prog) /\ prog \in DOMAIN Program
  BY ThisOperation, ThisBank DEF StartInv
<1>1. ASSUME This.name \in {"hpd", "rddc", "rport"} PROVE prog = "receiver_input"
  <2>1. prog \in InputPrograms
    BY <1>0, <1>1 DEF Tame
  <2>2. CASE prog = "receiver_id"
    <3>1. This.name = "gpio"
      BY <2>2, ThisBank, FirstWrites DEF This, StartInv
    <3> QED BY <1>1, <3>1
  <2> QED BY <2>1, <2>2 DEF InputPrograms
<1>2. ASSUME This.name \in {"s55", "sddc"}, This.values # {"off"} PROVE prog \in SourcePrograms
  BY <1>0, <1>2 DEF Tame
<1>3. prog = "receiver_input" => Guarded(prog) = {"hpd", "rddc", "rport"}
  BY DEF Guarded
<1>4. prog \in SourcePrograms => Guarded(prog) = {"s55", "sddc"}
  BY DEF Guarded, SourcePrograms
<1>5. \A f \in Guarded(prog) : WantsSetting(f, This, regs[f])
  BY ThisGate DEF StartInv
<1>6. This.name = "hpd" => prog = "receiver_input" /\ regs.rddc = "ours" /\ regs.rport = "ready"
  BY <1>1, <1>3, <1>5 DEF WantsSetting
<1>7. This.name \in {"rddc", "rport"} => regs.hpd = "low"
  BY <1>1, <1>3, <1>5 DEF WantsSetting
<1>8. This.name = "s55" => This.values = {"off"} \/ regs.sddc # "part"
  BY <1>2, <1>4, <1>5 DEF WantsSetting
<1>9. This.name = "sddc" => This.values = {"off"} \/ regs.s55 = "off"
  BY <1>2, <1>4, <1>5 DEF WantsSetting
<1> QED BY <1>6, <1>7, <1>8, <1>9

(* A write, whether it fails or not, leaves hot-plug honest.                *)
LEMMA SettingIsHonest ==
  ASSUME StartInv, BankInv, GateInv, Running, This.kind \in {"set", "poke"}, NEW v \in This.values,
         regs' = [regs EXCEPT ![This.name] = v]
  PROVE  HotplugHonest' /\ (prog = "receiver_id" => regs'.hpd = regs.hpd)
<1>1. /\ DOMAIN regs = DOMAIN Registers
      /\ {"hpd", "rddc", "rport", "s55", "sddc"} \subseteq DOMAIN regs
  BY DEF StartInv, HostTypes, Registers
<1>2. /\ \A f \in DOMAIN regs : f # This.name => regs'[f] = regs[f]
      /\ This.name \in DOMAIN regs => regs'[This.name] = v
  OBVIOUS
<1>3. regs'.hpd = "high" => regs'.rddc = "ours" /\ regs'.rport = "ready"
  <2>1. CASE This.name = "hpd"
    BY <1>1, <1>2, <2>1, GateWrites
  <2>2. CASE This.name \in {"rddc", "rport"}
    BY <1>1, <1>2, <2>2, GateWrites
  <2>3. CASE This.name \notin {"hpd", "rddc", "rport"}
    BY <1>1, <1>2, <2>3 DEF GateInv, HotplugHonest
  <2> QED BY <2>1, <2>2, <2>3
<1>4. regs'.s55 = "on" => regs'.sddc # "part"
  <2>1. CASE This.name = "s55"
    BY <1>1, <1>2, <2>1, GateWrites
  <2>2. CASE This.name = "sddc"
    BY <1>1, <1>2, <2>2, GateWrites
  <2>3. CASE This.name \notin {"s55", "sddc"}
    BY <1>1, <1>2, <2>3 DEF GateInv, HotplugHonest
  <2> QED BY <2>1, <2>2, <2>3
<1>5. prog = "receiver_id" => regs'.hpd = regs.hpd
  <2>1. prog = "receiver_id" => This.name = "gpio"
    BY ThisBank, FirstWrites DEF This, StartInv
  <2> QED BY <1>1, <1>2, <2>1
<1> QED BY <1>3, <1>4, <1>5 DEF HotplugHonest

(* So does a reset, which no program does while a source sees hot-plug.     *)
LEMMA ResetIsHonest ==
  ASSUME StartInv, BankInv, GateInv, Running, This.kind = "reset", Effect
  PROVE  HotplugHonest' /\ (prog = "receiver_id" => regs'.hpd = regs.hpd)
<1>1. /\ DOMAIN regs = DOMAIN Registers /\ This \in Tame(prog) /\ This.chip \in Chips
      /\ prog \in DOMAIN Program
  BY ThisOperation, ThisBank DEF StartInv, HostTypes, Ops
<1>2. {"hpd", "rddc", "rport", "s55", "sddc"} \subseteq DOMAIN regs
  BY <1>1 DEF Registers
<1>3. regs' = [f \in DOMAIN regs |-> IF f \in Owned(This.chip) THEN Registers[f] ELSE regs[f]]
  BY DEF Effect
<1>4. /\ "hpd" \notin Owned(This.chip) /\ "s55" \notin Owned(This.chip)
      /\ This.chip # "rcv" => "rddc" \notin Owned(This.chip) /\ "rport" \notin Owned(This.chip)
      /\ Registers.sddc # "part"
  BY <1>1 DEF Owned, Chips, Registers
<1>5. This.chip = "rcv" => regs.hpd = "low"
  <2>1. This.chip = "rcv" => prog \in InputPrograms
    BY <1>1 DEF Tame
  <2>2. prog # "receiver_input"
    <3>1. prog = "receiver_input" => "hpd" \in Guarded(prog)
      BY DEF Guarded
    <3> QED BY <3>1, ThisGate DEF StartInv, WantsSetting
  <2>3. prog = "receiver_id" => regs.hpd = "low"
    <3>1. "receiver_id" \in Counted
      BY ProgramNames DEF Counted, Waits
    <3> QED BY <3>1, RunsFresh DEF GateInv, FreshGates
  <2> QED BY <2>1, <2>2, <2>3 DEF InputPrograms
<1>6. /\ regs'.hpd = regs.hpd /\ regs'.s55 = regs.s55
      /\ This.chip # "rcv" => regs'.rddc = regs.rddc /\ regs'.rport = regs.rport
      /\ regs'.sddc = regs.sddc \/ regs'.sddc # "part"
  BY <1>2, <1>3, <1>4
<1> QED BY <1>5, <1>6 DEF GateInv, HotplugHonest

(* What a step of a program does to the settings hot-plug depends on.       *)
GateMoves ==
  /\ prog' = prog /\ before' = before /\ past' = past
  /\ HotplugHonest'
  /\ prog = "receiver_id" => regs'.hpd = regs.hpd
  /\ result' # "fail" =>
       \A f \in Guarded(prog) : regs'[f] = GateRoute(f, prog, before[2][f])[pc']

(* A write that succeeds, and one that fails.                               *)
LEMMA WriteGates == StartInv /\ BankInv /\ GateInv /\ ExecWrite => GateMoves
<1> SUFFICES ASSUME StartInv, BankInv, GateInv, ExecWrite PROVE GateMoves
  OBVIOUS
<1>1. /\ Running /\ This.kind \in Writes /\ pc' = pc + 1
      /\ prog' = prog /\ before' = before /\ past' = past
      /\ regs' = regs \/ (This.kind # "put" /\ Effect)
  BY DEF ExecWrite, Goto, chips
<1>2. This.kind # "put" => Effect
  BY DEF ExecWrite
<1>3. HostTypes
  BY DEF StartInv
<1>4. HotplugHonest' /\ (prog = "receiver_id" => regs'.hpd = regs.hpd)
  <2>1. CASE regs' = regs
    BY <2>1 DEF GateInv, HotplugHonest
  <2>2. CASE Effect /\ This.kind = "reset"
    BY <1>1, <2>2, ResetIsHonest
  <2>3. CASE Effect /\ This.kind \in {"set", "poke"}
    <3>1. PICK v \in This.values : regs' = [regs EXCEPT ![This.name] = v]
      BY <2>3 DEF Effect
    <3> QED BY <1>1, <2>3, <3>1, SettingIsHonest
  <2> QED BY <1>1, <2>1, <2>2, <2>3 DEF Writes
<1>5. ASSUME NEW f \in Guarded(prog)
      PROVE  regs'[f] = GateRoute(f, prog, before[2][f])[pc']
  <2> DEFINE A == GateRoute(f, prog, before[2][f])
  <2> HIDE DEF A
  <2>1. /\ LeadsSetting(f, This, regs[f], A[pc + 1]) /\ WantsSetting(f, This, regs[f])
    BY <1>1, <1>3, ThisGate DEF A, Writes
  <2>2. f \in DOMAIN regs
    <3>1. f \in Gates
      BY <1>1, <1>3, ThisBank, GateRouted
    <3> QED BY <3>1 DEF Gates, StartInv, HostTypes, Registers
  <2>3. CASE This.kind = "put"
    <3>1. regs' = regs
      BY <2>3 DEF ExecWrite, chips
    <3> QED BY <1>1, <2>1, <2>3, <3>1 DEF LeadsSetting, A
  <2>4. CASE This.kind \in {"set", "poke"}
    <3>1. PICK v \in This.values : regs' = [regs EXCEPT ![This.name] = v]
      BY <1>2, <2>4 DEF Effect
    <3> QED BY <1>1, <2>1, <2>2, <2>4, <3>1 DEF LeadsSetting, A
  <2>5. This.kind # "reset"
    BY <2>1 DEF WantsSetting
  <2> QED BY <1>1, <2>3, <2>4, <2>5 DEF Writes
<1> QED BY <1>1, <1>4, <1>5 DEF GateMoves

(* An access that fails leaves them honest, though a write may have reached *)
(* the chip.                                                                *)
LEMMA FailGates == StartInv /\ BankInv /\ GateInv /\ ExecFail => GateMoves
<1> SUFFICES ASSUME StartInv, BankInv, GateInv, ExecFail PROVE GateMoves
  OBVIOUS
<1>1. /\ Running /\ result' = "fail" /\ prog' = prog /\ before' = before /\ past' = past
      /\ regs' = regs \/ (This.kind \in Writes \ {"put"} /\ Effect)
  BY DEF ExecFail, Return, chips
<1>2. HotplugHonest' /\ (prog = "receiver_id" => regs'.hpd = regs.hpd)
  <2>1. CASE regs' = regs
    BY <2>1 DEF GateInv, HotplugHonest
  <2>2. CASE Effect /\ This.kind = "reset"
    BY <1>1, <2>2, ResetIsHonest
  <2>3. CASE Effect /\ This.kind \in {"set", "poke"}
    <3>1. PICK v \in This.values : regs' = [regs EXCEPT ![This.name] = v]
      BY <2>3 DEF Effect
    <3> QED BY <1>1, <2>3, <3>1, SettingIsHonest
  <2> QED BY <1>1, <2>1, <2>2, <2>3 DEF Writes
<1> QED BY <1>1, <1>2 DEF GateMoves

(* A step that writes no setting, and stays, goes on, or jumps.             *)
LEMMA QuietGates ==
  ASSUME StartInv, BankInv, GateInv, prog # "none", result = "",
         prog' = prog, before' = before, past' = past, regs' = regs,
         \/ pc' = pc
         \/ /\ Running /\ pc' = pc + 1 /\ This.kind \notin {"leave", "set", "poke"}
            /\ This.kind = "need" => regs[This.name] \in This.values
         \/ Running /\ pc' = pc + 1 + This.n /\ This.kind \in Jumps
  PROVE  GateMoves
<1>1. HotplugHonest'
  BY DEF GateInv, HotplugHonest
<1>2. HostTypes
  BY DEF StartInv
<1>3. ASSUME NEW f \in Guarded(prog)
      PROVE  regs[f] = GateRoute(f, prog, before[2][f])[pc']
  <2> DEFINE A == GateRoute(f, prog, before[2][f])
  <2> HIDE DEF A
  <2>1. CASE pc' = pc
    BY <1>2, <2>1 DEF GateInv, ProgramGates
  <2>2. CASE /\ Running /\ pc' = pc + 1 /\ This.kind \notin {"leave", "set", "poke"}
             /\ This.kind = "need" => regs[This.name] \in This.values
    <3>1. LeadsSetting(f, This, regs[f], A[pc + 1])
      BY <1>2, <2>2, ThisGate DEF A
    <3> QED BY <2>2, <3>1 DEF LeadsSetting, A
  <2>3. CASE Running /\ pc' = pc + 1 + This.n /\ This.kind \in Jumps
    BY <1>2, <2>3, ThisGate
  <2> QED BY <2>1, <2>2, <2>3
<1> QED BY <1>1, <1>3 DEF GateMoves

(* The other steps of a program.                                            *)
LEMMA OtherGates ==
  StartInv /\ BankInv /\ GateInv /\ (ExecBank \/ ExecRead \/ ExecBranch \/ ExecEnd) => GateMoves
<1> SUFFICES ASSUME StartInv, BankInv, GateInv, ExecBank \/ ExecRead \/ ExecBranch \/ ExecEnd
             PROVE  GateMoves
  OBVIOUS
<1>1. prog' = prog /\ before' = before /\ past' = past /\ regs' = regs
  BY DEF ExecBank, ExecRead, ExecBranch, ExecEnd, chips
<1>2. prog # "none" /\ result = "" /\ pc \in Nat
  BY DEF ExecBank, ExecRead, ExecBranch, ExecEnd, Running, StartInv, HostTypes
<1>3. \A n \in Nat : n + 1 + 0 = n + 1
  OBVIOUS
<1>4. \/ pc' = pc
      \/ /\ Running /\ pc' = pc + 1 /\ This.kind \notin {"leave", "set", "poke"}
         /\ This.kind = "need" => regs[This.name] \in This.values
      \/ Running /\ pc' = pc + 1 + This.n /\ This.kind \in Jumps
  <2>1. CASE ExecRead
    BY <2>1, Zenon DEF ExecRead, Goto, Return, Jumps
  <2>2. CASE ExecBranch
    <3>1. /\ Running
          /\ \/ This.kind \in {"maybe", "skip"} /\ (pc' = pc + 1 + This.n \/ pc' = pc + 1 + 0)
             \/ This.kind \in {"due", "mark"} /\ (pc' = pc + 1 \/ pc' = pc)
             \/ pc' = pc
      BY <2>2 DEF ExecBranch, Goto, Return
    <3>2. pc + 1 + 0 = pc + 1
      BY <1>2, <1>3
    <3> QED BY <3>1, <3>2 DEF Jumps
  <2>3. CASE ExecEnd
    BY <2>3 DEF ExecEnd, Return
  <2>4. CASE ExecBank
    BY <2>4 DEF ExecBank, Goto
  <2> QED BY <2>1, <2>2, <2>3, <2>4
<1> QED BY <1>1, <1>2, <1>4, QuietGates

(* A step of a program keeps what is known of these settings.               *)
LEMMA ExecGates == StartInv /\ BankInv /\ GateInv /\ Exec => GateInv'
<1> SUFFICES ASSUME StartInv, BankInv, GateInv, Exec PROVE GateInv'
  OBVIOUS
<1>1. GateMoves
  BY WriteGates, FailGates, OtherGates DEF Exec
<1>2. prog # "none"
  BY DEF Exec, ExecWrite, ExecBank, ExecFail, ExecRead, ExecBranch, ExecEnd, Running
<1>3. FreshGates'
  BY <1>1, <1>2, Earliest DEF GateMoves, GateInv, FreshGates
<1> QED BY <1>1, <1>2, <1>3 DEF GateMoves, GateInv, ProgramGates

(* A program begins with the settings that are there.                       *)
LEMMA StartGates ==
  ASSUME GateInv, NEW p \in DOMAIN Program, Start(p), regs' = regs, past' = past
  PROVE  GateInv'
<1>1. prog' = p /\ before'[2] = regs /\ pc' = 1
  BY DEF Start, Forget, chips
<1>2. \A f \in Guarded(p) : regs[f] = GateRoute(f, p, regs[f])[1]
  BY GateRouted DEF IsGateRoute
<1> QED BY <1>1, <1>2 DEF GateInv, FreshGates, HotplugHonest, ProgramGates

(* Every step keeps what is known of these settings.                        *)
LEMMA NextGates == StartInv /\ BankInv /\ GateInv /\ [Next]_vars => GateInv'
<1> SUFFICES ASSUME StartInv, BankInv, GateInv, [Next]_vars PROVE GateInv'
  OBVIOUS
<1>1. CASE UNCHANGED <<chips, exec, past>>
  BY <1>1 DEF chips, exec, GateInv, ProgramGates, FreshGates, HotplugHonest
<1>2. CASE StepBegin
  <2>1. /\ checkpoint.next < 6 /\ Start(PHASES[checkpoint.next + 1]) /\ regs' = regs
        /\ past' = past /\ checkpoint.next \in 0 .. 6
    BY <1>2 DEF StepBegin, First, chips, StartInv, HostTypes
  <2>2. checkpoint.next + 1 \in 1 .. 6
    BY <2>1
  <2>3. PHASES[checkpoint.next + 1] \in DOMAIN Program
    BY <2>2, ProgramNames DEF Counted
  <2> QED BY <2>1, <2>3, StartGates
<1>3. CASE LoadReady
  <2>1. Start("passthrough") /\ regs' = regs /\ past' = past
    BY <1>3 DEF LoadReady, chips
  <2> QED BY <2>1, ProgramNames, StartGates
<1>4. CASE WorkRun
  <2>1. /\ Start(WorkerProgram[phase - First + 1]) /\ regs' = regs /\ past' = past
        /\ phase \in First .. Last - 1
    BY <1>4 DEF WorkRun, chips
  <2>2. phase - First + 1 \in 1 .. 13
    BY <2>1 DEF First, Last
  <2>3. WorkerProgram[phase - First + 1] \in DOMAIN Program
    BY <2>2, ProgramNames
  <2> QED BY <2>1, <2>3, StartGates
<1>5. CASE StepEnd \/ WorkEnd \/ ProbeEnds \/ Reboot
  <2>1. prog' = "none" /\ regs' = regs
    BY <1>5 DEF StepEnd, WorkEnd, ProbeEnds, Reboot, Finish, chips
  <2>2. past' = past \/ \E r : Remember(r)
    BY <1>5, Zenon DEF StepEnd, WorkEnd, ProbeEnds, Reboot
  <2>3. past'["receiver_id"] = "fresh" => past["receiver_id"] = "fresh"
    BY <2>2, NeverFresher, ProgramNames
  <2> QED BY <2>1, <2>3 DEF GateInv, ProgramGates, FreshGates, HotplugHonest
<1>6. CASE PowerCycle
  <2>1. prog' = "none" /\ regs' = Registers
    BY <1>6 DEF PowerCycle, Finish
  <2> QED BY <2>1 DEF GateInv, ProgramGates, FreshGates, HotplugHonest, Registers
<1>7. \/ Exec \/ UNCHANGED <<chips, exec, past>> \/ StepBegin \/ LoadReady \/ WorkRun
      \/ StepEnd \/ WorkEnd \/ ProbeEnds \/ Reboot \/ PowerCycle
  BY DEF Next, Script, Work, Fault, ScriptStart, Handoff, Preserve, Unload, Kill, Settle, vars
<1> QED BY <1>1, <1>2, <1>3, <1>4, <1>5, <1>6, <1>7, ExecGates

(* Initially both hot-plugs are low.                                        *)
LEMMA InitGates == Init => GateInv
<1>1. Registers.hpd = "low" /\ Registers.s55 = "off"
  BY DEF Registers
<1>2. Init => prog = "none" /\ regs = Registers
  BY DEF Init
<1> QED BY <1>1, <1>2 DEF GateInv, ProgramGates, FreshGates, HotplugHonest

-----------------------------------------------------------------------------
(* What a retry leaves behind.  Every program is a part that changes        *)
(* nothing, or nothing it does not undo, and a part that asks for no retry. *)

(* What an operation may do before the program asks for another try; the    *)
(* receiver's video also turns back its banks and its pixel counter.        *)
Harmless(p) ==
  IF p = "receiver_video"
  THEN {o \in Ops : /\ o.kind \notin {"reset", "late"}
                    /\ o.kind \in {"set", "poke"} => o.name = "tick"
                    /\ o.kind = "mark" => o.name # "programming"
                    /\ o.err \in {"again", "range"} =>
                         o.kind = "ask" /\ o.chip = "rcv" /\ o.bank = 0}
  ELSE {o \in Ops : o.kind \notin Writes \cup {"bank"}}

(* The operations that do not ask for one.                                  *)
Final(p) ==
  {o \in Ops : /\ o.err # "again"
               /\ p = "receiver_video" => o.err # "range" /\ o.kind # "late"}

Splits(u, A, B) == \E s \in Seq(A), t \in Seq(B) : u = s \o t

(* A sequence of one of the two kinds is such a program ...                 *)
LEMMA SplitsOne ==
  ASSUME NEW A, NEW B, NEW u, u \in Seq(A) \/ u \in Seq(B)
  PROVE  Splits(u, A, B)
<1>1. CASE u \in Seq(A)
  <2>1. u = u \o << >> /\ << >> \in Seq(B)
    BY <1>1
  <2> QED BY <1>1, <2>1 DEF Splits
<1>2. CASE u \in Seq(B)
  <2>1. u = << >> \o u /\ << >> \in Seq(A)
    BY <1>2
  <2> QED BY <1>2, <2>1 DEF Splits
<1> QED BY <1>1, <1>2

(* ... and so is one that goes on ...                                       *)
LEMMA SplitsThen ==
  ASSUME NEW A, NEW B, NEW u, NEW w \in Seq(B), Splits(u, A, B)
  PROVE  Splits(u \o w, A, B)
<1>1. PICK s \in Seq(A), t \in Seq(B) : u = s \o t
  BY DEF Splits
<1>2. s \in Seq(A \cup B) /\ t \in Seq(A \cup B) /\ w \in Seq(A \cup B)
  BY <1>1
<1>3. u \o w = s \o (t \o w)
  BY <1>1, <1>2, ConcatAssociative
<1>4. t \o w \in Seq(B)
  BY <1>1
<1> QED BY <1>1, <1>3, <1>4 DEF Splits

(* ... or begins earlier.                                                   *)
LEMMA SplitsAfter ==
  ASSUME NEW A, NEW B, NEW u, NEW w \in Seq(A), Splits(u, A, B)
  PROVE  Splits(w \o u, A, B)
<1>1. PICK s \in Seq(A), t \in Seq(B) : u = s \o t
  BY DEF Splits
<1>2. s \in Seq(A \cup B) /\ t \in Seq(A \cup B) /\ w \in Seq(A \cup B)
  BY <1>1
<1>3. (w \o s) \o t = w \o (s \o t)
  BY <1>2, ConcatAssociative
<1>4. w \o s \in Seq(A)
  BY <1>1
<1> QED BY <1>1, <1>3, <1>4 DEF Splits

(* The two operations of a visit.                                           *)
LEMMA VisitOps ==
  ASSUME NEW S, NEW c, NEW banks \in Seq(Nat), \A b \in Nat : Bank(c, b) \in S /\ Put(c, b) \in S
  PROVE  Visit(c, banks) \in Seq(S)
<1>1. ASSUME NEW i \in 1 .. 2 * Len(banks)
      PROVE  (IF i % 2 = 1 THEN Bank(c, banks[(i + 1) \div 2])
              ELSE Put(c, banks[i \div 2])) \in S
  <2>1. i % 2 = 1 => (i + 1) \div 2 \in 1 .. Len(banks)
    OBVIOUS
  <2>2. i % 2 # 1 => i \div 2 \in 1 .. Len(banks)
    OBVIOUS
  <2> QED BY <2>1, <2>2
<1>2. 2 * Len(banks) \in Nat
  OBVIOUS
<1> QED BY <1>1, <1>2 DEF Visit

(* What the programs that are not patient are made of, and the tails.       *)
LEMMA Impatient ==
  ASSUME NEW p, p # "receiver_video"
  PROVE  /\ \A q \in DOMAIN Program \ PatientPrograms : Tame(q) \subseteq Final(p)
         /\ Tame("receiver_id") \subseteq Final(p) /\ Tame("video_clock") \subseteq Final(p)
<1>1. "receiver_id" \notin PatientPrograms /\ "video_clock" \notin PatientPrograms
  BY DEF PatientPrograms
<1> QED BY <1>1 DEF Tame, Careful, Final

(* The receiver's programs.                                                 *)
LEMMA SilentReads ==
  ASSUME NEW p
  PROVE  /\ ReceiverStatus \in Seq(Harmless(p))
         /\ p # "receiver_video" => /\ SplitterLinkStatus \in Seq(Harmless(p))
                                    /\ \A c \in Chips : Ask(c, 0, "again") \in Harmless(p)
<1>1. \A c \in Chips, b \in Nat : Get(c, b) \in Harmless(p)
  BY DEF Harmless, Get, Op, Ops, Writes, Kinds, Errors
<1>2. \A c \in Chips, e \in Errors \ {"again", "range"} : Zero(c, e) \in Harmless(p)
  BY DEF Harmless, Zero, Op, Ops, Writes, Kinds
<1>3. \A c \in Chips, f \in Settings, vs \in SUBSET Values, e \in Errors \ {"again", "range"} :
        Need(c, f, vs, e) \in Harmless(p)
  BY DEF Harmless, Need, Op, Ops, Writes, Kinds
<1>4. \A c \in Chips : p # "receiver_video" => Ask(c, 0, "again") \in Harmless(p)
  BY DEF Harmless, Ask, Op, Ops, Writes, Kinds, Errors
<1>5. /\ {"rcv", "spl", "srx", "fpga"} \subseteq Chips /\ {"gpio", "base", "map"} \subseteq Settings
      /\ {"unsup", "nodev", "fail"} \subseteq Errors \ {"again", "range"}
      /\ {"receiver", "board"} \in SUBSET Values /\ {"board"} \in SUBSET Values
      /\ {"ready"} \in SUBSET Values /\ {"set"} \in SUBSET Values
  BY DEF Chips, Settings, Errors, Values
<1>6. ReceiverStatus \in Seq(Harmless(p))
  BY <1>1, <1>2, <1>3, <1>5 DEF ReceiverStatus
<1>7. SplitterIdentify \in Seq(Harmless(p))
  BY <1>1, <1>2, <1>3, <1>5 DEF SplitterIdentify
<1>8. SplitterLinkStatus \in Seq(Harmless(p))
  BY <1>1, <1>2, <1>3, <1>5, <1>7 DEF SplitterLinkStatus, Board, Based, Mapped
<1> QED BY <1>4, <1>6, <1>8

(* The measurement asks whether the receiver is calibrated before it        *)
(* writes.                                                                  *)
LEMMA ReceiverClockSplits ==
  ASSUME NEW p \in {"receiver_calibrate", "receiver_input"}
  PROVE  Splits(ReceiverClock, Harmless(p), Final(p))
<1> DEFINE A  == Harmless(p)
           B  == Final(p)
           T  == Tame("receiver_id")
           u1 == <<Markers, Need("rcv", "rcal", {"flagged", "done"}, "again"), Put("rcv", 0)>>
           u2 == <<Get("rcv", 1), Maybe(Len(ClockRecovery))>>
           u3 == <<Put("rcv", 1), Get("rcv", 1), Late("rcv", 1, "range", 0),
                   Put("rcv", 1), Bank("rcv", 0), Put("rcv", 0)>>
<1>1. p # "receiver_video" /\ T \subseteq B
  BY Impatient
<1>2. /\ "rcv" \in Chips \ {"fpga", "tx"} /\ {"table", "rcal"} \subseteq Settings
      /\ {"marked", "done"} \in SUBSET Values /\ {"flagged", "done"} \in SUBSET Values
      /\ "again" \in Errors /\ "receiver_id" \notin Waits
  BY DEF Chips, Settings, Values, Errors, Waits
<1>3. <<Markers, Need("rcv", "rcal", {"flagged", "done"}, "again")>> \in Seq(A)
  BY <1>1, <1>2 DEF Harmless, Markers, Need, Op, Ops, Writes, Kinds
<1>4. <<Put("rcv", 0)>> \in Seq(T)
  BY <1>2, PlainOps
<1>5. u1 = <<Markers, Need("rcv", "rcal", {"flagged", "done"}, "again")>> \o <<Put("rcv", 0)>>
  OBVIOUS
<1>6. Visit("rcv", <<1, 0, 1>>) \in Seq(T)
  <2>1. <<1, 0, 1>> \in Seq(Nat)
    OBVIOUS
  <2> QED BY <1>2, <2>1, Visits
<1>7. ClockRecovery \in Seq(T)
  BY ClockRecoveryTame
<1>8. u2 \in Seq(T)
  <2>1. Len(ClockRecovery) \in Nat
    BY <1>7
  <2> QED BY <1>2, <2>1, PlainOps, MaybeOps
<1>9. u3 \in Seq(T)
  BY <1>2, PlainOps, LateOps
<1>10. ReceiverStatus \in Seq(T) /\ <<Due>> \in Seq(T)
  BY ReceiverStatusTame, DueOp
<1> HIDE DEF A, B, T, u1, u2, u3
<1>11. \A w : w \in Seq(T) => w \in Seq(B)
  BY <1>1
<1>12. Splits(u1, A, B)
  BY <1>3, <1>4, <1>5, <1>11, SplitsOne, SplitsThen
<1>13. Splits(ReceiverStatus \o u1, A, B)
  BY <1>12, SilentReads, SplitsAfter DEF A
<1>14. Splits(ReceiverStatus \o u1 \o Visit("rcv", <<1, 0, 1>>) \o u2, A, B)
  BY <1>6, <1>8, <1>11, <1>13, SplitsThen
<1>15. Splits(ReceiverStatus \o u1 \o Visit("rcv", <<1, 0, 1>>) \o u2 \o ClockRecovery \o u3, A, B)
  BY <1>7, <1>9, <1>11, <1>14, SplitsThen
<1>16. Splits(ReceiverStatus \o u1 \o Visit("rcv", <<1, 0, 1>>) \o u2 \o ClockRecovery \o u3
              \o ReceiverStatus \o <<Due>>, A, B)
  BY <1>10, <1>11, <1>15, SplitsThen
<1> QED BY <1>16 DEF ReceiverClock, A, B, u1, u2, u3

(* Its user: the input.                                                     *)
LEMMA ReceiverInputSplits ==
  Splits(ReceiverInput, Harmless("receiver_input"), Final("receiver_input"))
<1> DEFINE p  == "receiver_input"
           A  == Harmless(p)
           B  == Final(p)
           T  == Tame("receiver_id")
           d1 == <<Ask("rcv", 0, "busy"), Ask("rcv", 0, "inval")>>
           d2 == <<Ask("rcv", 0, "busy"), Set("rcv", 0, "rddc", "part")>>
           d3 == <<Bank("rcv", 4), Set("rcv", 4, "rddc", "ours"), Bank("rcv", 0)>>
           d4 == <<Need("rcv", "rddc", {"ours"}, "fail")>>
           v1 == Visit("rcv", <<4, 0, 4, 0, 4, 0>>)
           u1 == <<Ask("rcv", 0, "nolink"), Bank("rcv", 1), Set("rcv", 1, "rport", "part")>>
           u2 == <<Bank("rcv", 0), Set("rcv", 0, "rport", "ready"), Ask("rcv", 0, "nolink"),
                   Need("fpga", "hpd", {"low"}, "fail"), Set("fpga", 0, "hpd", "high"),
                   Get("rcv", 0)>>
           v2 == Visit("rcv", <<0, 0, 0, 3, 7, 0, 3, 7, 0, 3, 0, 3, 0, 1>>)
           v3 == Visit("rcv", <<3, 0, 1, 0>>)
           u3 == <<Put("rcv", 0), Get("rcv", 0)>>
<1>1. T \subseteq B
  BY Impatient
<1>2. /\ "rcv" \in Chips \ {"fpga", "tx"} /\ "fpga" \in Chips
      /\ {"rddc", "rport", "hpd"} \subseteq Settings
      /\ {"part", "ours", "ready", "high"} \subseteq Values
      /\ {"ours"} \in SUBSET Values /\ {"low"} \in SUBSET Values
      /\ {"busy", "inval", "nolink", "fail"} \subseteq Errors
      /\ "receiver_id" \notin Waits /\ "receiver_id" \in InputPrograms
  BY DEF Chips, Settings, Values, Errors, Waits, InputPrograms
<1>3. d1 \in Seq(T) /\ d2 \in Seq(T)
  BY <1>2, AskOps, SetOps
<1>4. d3 \in Seq(T)
  BY <1>2, PlainOps, SetOps
<1>5. d4 \in Seq(T)
  BY <1>2, NeedOps
<1>6. u1 \in Seq(T)
  BY <1>2, AskOps, PlainOps, SetOps
<1>7. u2 \in Seq(T)
  BY <1>2, AskOps, PlainOps, NeedOps, SetOps
<1>8. u3 \in Seq(T)
  BY <1>2, PlainOps
<1>9. v1 \in Seq(T) /\ v2 \in Seq(T) /\ v3 \in Seq(T)
  <2>1. /\ <<4, 0, 4, 0, 4, 0>> \in Seq(Nat) /\ <<3, 0, 1, 0>> \in Seq(Nat)
        /\ <<0, 0, 0, 3, 7, 0, 3, 7, 0, 3, 0, 3, 0, 1>> \in Seq(Nat)
    OBVIOUS
  <2> QED BY <1>2, <2>1, Visits
<1>10. ReceiverStatus \in Seq(T) /\ DdcSnapshot \in Seq(T) /\ <<Bank("rcv", 0)>> \in Seq(T)
  BY <1>2, ReceiverStatusTame, DdcSnapshotTame, PlainOps
<1>11. <<Need("fpga", "hpd", {"low"}, "busy")>> \in Seq(A)
  BY <1>2 DEF Harmless, Need, Op, Ops, Writes, Kinds
<1>12. Splits(ReceiverClock, A, B)
  BY ReceiverClockSplits
<1> HIDE DEF A, B, T, d1, d2, d3, d4, u1, u2, u3, v1, v2, v3
<1>13. \A w : w \in Seq(T) => w \in Seq(B)
  BY <1>1
<1>14. Splits(ReceiverTiming, A, B)
  BY <1>9, <1>10, <1>12, <1>13, SplitsThen DEF ReceiverTiming, v3
<1>15. Splits(ReceiverEdidRead, A, B)
  BY <1>8, <1>10, <1>13, <1>14, SplitsThen DEF ReceiverEdidRead, u3
<1>16. Splits(<<Need("fpga", "hpd", {"low"}, "busy")>> \o ReceiverEdidRead, A, B)
  BY <1>11, <1>15, SplitsAfter
<1>17. Splits(<<Need("fpga", "hpd", {"low"}, "busy")>> \o ReceiverEdidRead \o d1
              \o DdcSnapshot, A, B)
  BY <1>3, <1>10, <1>13, <1>16, SplitsThen
<1>18. Splits(<<Need("fpga", "hpd", {"low"}, "busy")>> \o ReceiverEdidRead \o d1 \o DdcSnapshot
              \o d2 \o v1, A, B)
  BY <1>3, <1>9, <1>13, <1>17, SplitsThen
<1>19. Splits(<<Need("fpga", "hpd", {"low"}, "busy")>> \o ReceiverEdidRead \o d1 \o DdcSnapshot
              \o d2 \o v1 \o d3 \o DdcSnapshot, A, B)
  BY <1>4, <1>10, <1>13, <1>18, SplitsThen
<1>20. Splits(ReceiverDdc, A, B)
  BY <1>5, <1>10, <1>13, <1>19, SplitsThen DEF ReceiverDdc, d1, d2, d3, d4, v1
<1>21. Splits(ReceiverDdc \o u1 \o v2, A, B)
  BY <1>6, <1>9, <1>13, <1>20, SplitsThen
<1>22. Splits(ReceiverDdc \o u1 \o v2 \o u2 \o ReceiverStatus, A, B)
  BY <1>7, <1>10, <1>13, <1>21, SplitsThen
<1> QED BY <1>22 DEF ReceiverInput, A, B, u1, u2, v2

(* The calibration.                                                         *)
LEMMA ReceiverCalibrateSplits ==
  Splits(ReceiverCalibrate, Harmless("receiver_calibrate"), Final("receiver_calibrate"))
<1> DEFINE p  == "receiver_calibrate"
           A  == Harmless(p)
           B  == Final(p)
           T  == Tame("receiver_id")
           u1 == <<Markers, Need("rcv", "rcal", {"clear", "done"}, "busy")>>
           u2 == <<Late("rcv", 0, "timeout", 0),
                   Bank("rcv", 3), Get("rcv", 3), Bank("rcv", 7), Get("rcv", 7)>>
<1>1. T \subseteq B
  BY Impatient
<1>2. /\ "rcv" \in Chips /\ {"table", "rcal"} \subseteq Settings
      /\ {"marked", "done"} \in SUBSET Values /\ {"clear", "done"} \in SUBSET Values
      /\ {"again", "busy"} \subseteq Errors /\ "receiver_id" \notin Waits
  BY DEF Chips, Settings, Values, Errors, Waits
<1>3. u1 \in Seq(A)
  BY <1>2 DEF Harmless, Markers, Need, Op, Ops, Writes, Kinds
<1>4. u2 \in Seq(T)
  BY <1>2, PlainOps, LateOps
<1>5. CalSetup \in Seq(T) /\ CalCleanup \in Seq(T)
  BY <1>2, CalSetupTame, CalCleanupTame
<1>6. ReceiverStatus \in Seq(T) /\ <<Due>> \in Seq(T)
  BY ReceiverStatusTame, DueOp
<1> HIDE DEF A, B, T, u1, u2
<1>7. \A w : w \in Seq(T) => w \in Seq(B)
  BY <1>1
<1>8. Splits(ReceiverStatus \o u1, A, B)
  BY <1>3, SilentReads, SplitsOne, SplitsAfter DEF A
<1>9. Splits(ReceiverStatus \o u1 \o CalSetup \o u2, A, B)
  BY <1>4, <1>5, <1>7, <1>8, SplitsThen
<1>10. Splits(ReceiverStatus \o u1 \o CalSetup \o u2 \o CalCleanup \o ReceiverStatus
              \o <<Due>>, A, B)
  BY <1>5, <1>6, <1>7, <1>9, SplitsThen
<1> QED BY <1>10 DEF ReceiverCalibrate, A, B, u1, u2

(* The receiver's video asks the source before it programs its output.      *)
LEMMA ReceiverVideoSplits ==
  Splits(ReceiverVideo, Harmless("receiver_video"), Final("receiver_video"))
<1> DEFINE p  == "receiver_video"
           A  == Harmless(p)
           B  == Final(p)
           u1 == <<Ask("rcv", 0, "nolink"), Mark("sampling"), Get("rcv", 0),
                   Bank("rcv", 2), Get("rcv", 2), Bank("rcv", 1), Get("rcv", 1),
                   Bank("rcv", 0), Mark("format"), Ask("rcv", 0, "again"),
                   Ask("rcv", 0, "range")>>
           u2 == <<Mark("measuring"), Ask("rcv", 0, "unsup"),
                   Bank("rcv", 1), Get("rcv", 1), Bank("rcv", 0)>>
           u3 == <<Mark("restored"), Ask("rcv", 0, "badref"), Ask("rcv", 0, "range")>>
           u4 == <<Mark("programming"), Set("rcv", 0, "rout", "part")>>
           u5 == <<Mark("restored"), Ask("rcv", 0, "badref"), Ask("rcv", 0, "range"),
                   Mark("programming"), Set("rcv", 0, "rout", "part")>>
           v1 == Visit("rcv", <<5, 1, 5, 1, 0, 1, 0, 1, 0, 1, 0>>)
           v2 == Visit("rcv", <<1, 0, 1>>)
           u6 == <<Bank("rcv", 0), Set("rcv", 0, "rout", "on")>>
<1>1. /\ {"rcv", "fpga"} \subseteq Chips /\ {"tick", "rout"} \subseteq Settings
      /\ {"held", "free", "part", "on"} \subseteq Values
      /\ {"nolink", "again", "range", "unsup", "badref", "fail"} \subseteq Errors
  BY DEF Chips, Settings, Values, Errors
<1> USE DEF Op, Ops, Kinds
<1>2. \A b \in Nat : /\ Bank("rcv", b) \in A \cap B /\ Get("rcv", b) \in A \cap B
                     /\ Put("rcv", b) \in A \cap B
  BY <1>1 DEF Harmless, Final, Bank, Get, Put
<1>3. \A m \in Marks : Mark(m) \in B /\ (m # "programming" => Mark(m) \in A)
  BY <1>1 DEF Harmless, Final, Mark, Errors
<1>4. \A e \in {"nolink", "again", "range", "unsup", "badref"} : Ask("rcv", 0, e) \in A
  BY <1>1 DEF Harmless, Ask
<1>5. Set("rcv", 0, "tick", "held") \in A /\ Set("rcv", 0, "tick", "free") \in A
  BY <1>1 DEF Harmless, Set
<1>6. Set("rcv", 0, "rout", "part") \in B /\ Set("rcv", 0, "rout", "on") \in B
  BY <1>1 DEF Final, Set
<1>7. {"preflight", "sampling", "format", "measuring", "restored", "programming"} \subseteq Marks
  BY DEF Marks
<1> HIDE DEF A, B
<1>8. /\ <<Mark("preflight")>> \in Seq(A) /\ u1 \in Seq(A) /\ u2 \in Seq(A) /\ u3 \in Seq(A)
      /\ u4 \in Seq(B) /\ u6 \in Seq(B)
  BY <1>2, <1>3, <1>4, <1>6, <1>7
<1>9. PixelSamples \in Seq(A)
  BY <1>2, <1>5 DEF PixelSamples
<1>10. v1 \in Seq(B) /\ v2 \in Seq(B)
  <2>1. <<5, 1, 5, 1, 0, 1, 0, 1, 0, 1, 0>> \in Seq(Nat) /\ <<1, 0, 1>> \in Seq(Nat)
    OBVIOUS
  <2> QED BY <1>2, <2>1, VisitOps
<1>11. u5 = u3 \o u4
  OBVIOUS
<1> HIDE DEF u1, u2, u3, u4, u5, u6, v1, v2
<1>12. Splits(u2 \o PixelSamples, A, B)
  BY <1>8, <1>9, SplitsOne, SplitsAfter
<1>13. Splits(u2 \o PixelSamples \o u5, A, B)
  <2>1. u2 \o PixelSamples \in Seq(A) /\ Splits(u5, A, B)
    BY <1>8, <1>9, <1>11, SplitsOne, SplitsThen
  <2> QED BY <2>1, SplitsAfter
<1>14. Splits(u2 \o PixelSamples \o u5 \o v1 \o v2 \o u6, A, B)
  BY <1>8, <1>10, <1>13, SplitsThen
<1>15. Splits(ReceiverOutput, A, B)
  BY <1>14 DEF ReceiverOutput, u2, u5, u6, v1, v2
<1>16. <<Mark("preflight")>> \o ReceiverStatus \o u1 \in Seq(A)
  <2>1. ReceiverStatus \in Seq(A)
    BY SilentReads DEF A
  <2> QED BY <1>8, <2>1
<1>17. Splits(<<Mark("preflight")>> \o ReceiverStatus \o u1 \o ReceiverOutput, A, B)
  BY <1>15, <1>16, SplitsAfter
<1> QED BY <1>17 DEF ReceiverVideo, A, B, u1

(* Every program.                                                           *)
LEMMA ProgramSplits ==
  ASSUME NEW p \in DOMAIN Program
  PROVE  Splits(Program[p], Harmless(p), Final(p))
<1>1. CASE p \notin PatientPrograms
  <2>1. p # "receiver_video"
    BY <1>1 DEF PatientPrograms
  <2>2. Tame(p) \subseteq Final(p) /\ Program[p] \in Seq(Tame(p))
    BY <1>1, <2>1, Impatient, Programs
  <2>3. Program[p] \in Seq(Final(p))
    BY <2>2
  <2> QED BY <2>3, SplitsOne
<1>2. CASE p = "receiver_calibrate"
  BY <1>2, ReceiverCalibrateSplits, ProgramIs
<1>3. CASE p = "receiver_input"
  BY <1>3, ReceiverInputSplits, ProgramIs
<1>4. CASE p = "receiver_video"
  BY <1>4, ReceiverVideoSplits, ProgramIs
<1>5. CASE p \in {"receiver_wait", "splitter_wait", "fpga_wait"}
  <2>1. /\ ReceiverWait \in Seq(Harmless(p)) /\ SplitterWait \in Seq(Harmless(p))
        /\ <<Ask("fpga", 0, "again")>> \in Seq(Harmless(p))
    <3>1. p # "receiver_video" /\ {"rcv", "srx", "fpga"} \subseteq Chips
      BY <1>5 DEF Chips
    <3> QED BY <3>1, SilentReads DEF ReceiverWait, SplitterWait
  <2> QED BY <1>5, <2>1, SplitsOne, ProgramIs
<1>6. CASE p = "activate"
  <2> DEFINE t == PortActivate("tx1")
             o == <<Skip("tx", "tx1", Powered, Len(t))>>
  <2>1. p # "receiver_video" /\ {"srx", "tx"} \subseteq Chips /\ "tx1" \in Settings
        /\ Powered \in SUBSET Values /\ "video_clock" \notin Waits
    BY <1>6 DEF Chips, Settings, Values, Powered, Waits
  <2>2. SplitterWait \in Seq(Harmless(p))
    BY <2>1, SilentReads DEF SplitterWait
  <2>3. t \in Seq(Tame("video_clock"))
    BY <2>1, PortActivateTame
  <2>4. o \in Seq(Tame("video_clock"))
    <3>1. Len(t) \in Nat
      BY <2>3
    <3> QED BY <2>1, <3>1, SkipOps
  <2>5. t \in Seq(Final(p)) /\ o \in Seq(Final(p))
    BY <2>1, <2>3, <2>4, Impatient
  <2>6. Splits(SplitterWait \o o \o t, Harmless(p), Final(p))
    BY <2>2, <2>5, SplitsOne, SplitsThen
  <2> QED BY <1>6, <2>6, ProgramIs DEF Activate
<1> QED BY <1>1, <1>2, <1>3, <1>4, <1>5, <1>6 DEF PatientPrograms

(* Where the harmless part of program p ends.                               *)
IsCut(p, k) ==
  \A i \in 1 .. Len(Program[p]) : /\ i <= k => Program[p][i] \in Harmless(p)
                                  /\ ~(i <= k) => Program[p][i] \in Final(p)
Cut(p) == CHOOSE k \in Nat : IsCut(p, k)

(* Every program has such an end.                                           *)
LEMMA Cuts ==
  ASSUME NEW p \in DOMAIN Program
  PROVE  Cut(p) \in Nat /\ IsCut(p, Cut(p))
<1>1. PICK s \in Seq(Harmless(p)), t \in Seq(Final(p)) : Program[p] = s \o t
  BY ProgramSplits DEF Splits
<1> DEFINE S == Harmless(p) \cup Final(p)
           u == s \o t
<1> HIDE DEF S
<1>2. s \in Seq(S) /\ t \in Seq(S)
  BY <1>1 DEF S
<1>3. /\ Len(s) \in Nat /\ Len(t) \in Nat /\ Len(u) = Len(s) + Len(t)
      /\ \A i \in 1 .. Len(s) : u[i] = s[i]
      /\ \A i \in 1 .. Len(t) : u[i + Len(s)] = t[i]
  BY <1>2
<1> HIDE DEF u
<1>4. ASSUME NEW i \in 1 .. Len(u)
      PROVE  (i <= Len(s) => u[i] \in Harmless(p)) /\ (~(i <= Len(s)) => u[i] \in Final(p))
  <2>1. CASE i <= Len(s)
    <3>1. i \in 1 .. Len(s)
      BY <1>3, <2>1
    <3> QED BY <1>3, <2>1, <3>1
  <2>2. CASE ~(i <= Len(s))
    <3>1. PICK j \in 1 .. Len(t) : i = j + Len(s)
      <4>1. i - Len(s) \in 1 .. Len(t) /\ i = (i - Len(s)) + Len(s)
        BY <1>3, <2>2
      <4> QED BY <4>1
    <3>2. t[j] \in Final(p)
      BY <3>1
    <3> QED BY <1>3, <2>2, <3>1, <3>2
  <2> QED BY <2>1, <2>2
<1>5. Program[p] = u
  BY <1>1 DEF u
<1>6. IsCut(p, Len(s))
  BY <1>4, <1>5 DEF IsCut
<1> QED BY <1>3, <1>6 DEF Cut

-----------------------------------------------------------------------------
(* The pixel counter of the receiver.                                       *)
Look == {o \in Ops : o.kind \notin {"set", "poke", "reset"} \cup Jumps}

(* An operation that only looks leaves it running.                          *)
LEMMA LookTicks ==
  ASSUME NEW s \in Seq(Look)
  PROVE  Carries("tick", s, "free", "free")
<1>1. "tick" \notin Chips
  BY DEF Chips
<1>2. ASSUME NEW o \in Look PROVE Steps("tick", o, "free", "free")
  BY <1>1 DEF Look, Steps, Wants, WantsSetting, Leads, LeadsSetting
<1>3. \A i \in 1 .. Len(s) : Steps("tick", s[i], "free", "free")
  BY <1>2
<1> QED BY <1>3, Rest

(* A write of another setting leaves it running as well.                    *)
LEMMA SetTicks ==
  ASSUME NEW c, NEW b, NEW g, NEW v, NEW a
  PROVE  /\ Steps("tick", Set(c, b, g, v), a, IF g = "tick" THEN v ELSE a)
         /\ Steps("tick", Get(c, b), a, a)
<1>1. "tick" \notin Chips
  BY DEF Chips
<1> QED BY <1>1 DEF Steps, Wants, WantsSetting, Leads, LeadsSetting, Jumps, Set, Get, Op

(* Five samples hold it and let it go.                                      *)
LEMMA PixelSamplesTick == Carries("tick", PixelSamples, "free", "free")
<1> DEFINE A == [i \in 1 .. 16 |-> IF i % 3 = 1 THEN "free" ELSE "held"]
           u == PixelSamples
<1>1. ASSUME NEW i \in 1 .. 15 PROVE Steps("tick", u[i], A[i], A[i + 1])
  <2>1. CASE i % 3 = 1
    <3>1. u[i] = Set("rcv", 0, "tick", "held") /\ A[i] = "free" /\ A[i + 1] = "held"
      BY <2>1 DEF PixelSamples
    <3> QED BY <3>1, SetTicks
  <2>2. CASE i % 3 = 2
    <3>1. u[i] = Get("rcv", 0) /\ A[i] = "held" /\ A[i + 1] = "held"
      BY <2>2 DEF PixelSamples
    <3> QED BY <3>1, SetTicks
  <2>3. CASE i % 3 = 0
    <3>1. u[i] = Set("rcv", 0, "tick", "free") /\ A[i] = "held" /\ A[i + 1] = "free"
      BY <2>3 DEF PixelSamples
    <3> QED BY <3>1, SetTicks
  <2> QED BY <2>1, <2>2, <2>3
<1>2. u \in Seq({u[i] : i \in 1 .. 15}) /\ Len(u) = 15
  BY DEF PixelSamples
<1>3. A[1] = "free" /\ A[16] = "free"
  OBVIOUS
<1> HIDE DEF u, A
<1>4. \A i \in 1 .. Len(u) : Steps("tick", u[i], A[i], A[i + 1])
  BY <1>1, <1>2
<1>5. Carries("tick", u, A[1], A[Len(u) + 1])
  BY <1>2, <1>4, Line
<1> QED BY <1>2, <1>3, <1>5 DEF u

(* The whole of the receiver's video.                                       *)
LEMMA ReceiverVideoTick == Carries("tick", ReceiverVideo, "free", "free")
<1> DEFINE u1 == <<Ask("rcv", 0, "nolink"), Mark("sampling"), Get("rcv", 0),
                   Bank("rcv", 2), Get("rcv", 2), Bank("rcv", 1), Get("rcv", 1),
                   Bank("rcv", 0), Mark("format"), Ask("rcv", 0, "again"),
                   Ask("rcv", 0, "range")>>
           u2 == <<Mark("measuring"), Ask("rcv", 0, "unsup"),
                   Bank("rcv", 1), Get("rcv", 1), Bank("rcv", 0)>>
           u3 == <<Mark("restored"), Ask("rcv", 0, "badref"), Ask("rcv", 0, "range"),
                   Mark("programming"), Set("rcv", 0, "rout", "part")>>
           v1 == Visit("rcv", <<5, 1, 5, 1, 0, 1, 0, 1, 0, 1, 0>>)
           v2 == Visit("rcv", <<1, 0, 1>>)
           u4 == <<Bank("rcv", 0), Set("rcv", 0, "rout", "on")>>
<1> DEFINE Go(s) == Carries("tick", s, "free", "free")
<1>1. /\ {"rcv", "fpga"} \subseteq Chips
      /\ {"nolink", "again", "range", "unsup", "badref", "fail", "nodev", ""} \subseteq Errors
      /\ "gpio" \in Settings /\ {"receiver", "board"} \in SUBSET Values
      /\ {"preflight", "sampling", "format", "measuring", "restored", "programming"} \subseteq Marks
  BY DEF Chips, Errors, Marks, Settings, Values
<1>2. \A b \in Nat : /\ Bank("rcv", b) \in Look /\ Get("rcv", b) \in Look
                     /\ Put("rcv", b) \in Look
  BY <1>1 DEF Look, Jumps, Bank, Get, Put, Op, Ops, Kinds
<1>3. \A m \in Marks : Mark(m) \in Look
  BY <1>1 DEF Look, Jumps, Mark, Op, Ops, Kinds
<1>4. \A e \in Errors : Ask("rcv", 0, e) \in Look /\ Zero("rcv", e) \in Look
  BY <1>1 DEF Look, Jumps, Ask, Zero, Op, Ops, Kinds
<1>5. Need("fpga", "gpio", {"receiver", "board"}, "nodev") \in Look
  BY <1>1 DEF Look, Jumps, Need, Op, Ops, Kinds
<1>6. ReceiverStatus \in Seq(Look)
  <2>1. "unsup" \in Errors
    BY <1>1
  <2> QED BY <1>2, <1>4, <1>5, <2>1 DEF ReceiverStatus
<1>7. <<Mark("preflight")>> \in Seq(Look) /\ u1 \in Seq(Look) /\ u2 \in Seq(Look)
  <2>1. /\ Mark("preflight") \in Look /\ Mark("sampling") \in Look /\ Mark("format") \in Look
        /\ Mark("measuring") \in Look
    BY <1>1, <1>3
  <2>2. /\ Ask("rcv", 0, "nolink") \in Look /\ Ask("rcv", 0, "again") \in Look
        /\ Ask("rcv", 0, "range") \in Look /\ Ask("rcv", 0, "unsup") \in Look
    BY <1>1, <1>4
  <2>3. /\ Bank("rcv", 0) \in Look /\ Bank("rcv", 1) \in Look /\ Bank("rcv", 2) \in Look
        /\ Get("rcv", 0) \in Look /\ Get("rcv", 1) \in Look /\ Get("rcv", 2) \in Look
    BY <1>2
  <2> QED BY <2>1, <2>2, <2>3
<1>8. v1 \in Seq(Look) /\ v2 \in Seq(Look)
  <2>1. <<5, 1, 5, 1, 0, 1, 0, 1, 0, 1, 0>> \in Seq(Nat) /\ <<1, 0, 1>> \in Seq(Nat)
    OBVIOUS
  <2> QED BY <1>2, <2>1, VisitOps
<1>9. Go(u3)
  <2>1. \A i \in 1 .. 4 : u3[i] \in Look
    <3>1. Mark("restored") \in Look /\ Mark("programming") \in Look
      BY <1>1, <1>3
    <3>2. Ask("rcv", 0, "badref") \in Look /\ Ask("rcv", 0, "range") \in Look
      BY <1>1, <1>4
    <3> QED BY <3>1, <3>2
  <2>2. <<u3[1], u3[2], u3[3], u3[4]>> \in Seq(Look)
    BY <2>1
  <2>3. Steps("tick", u3[5], "free", "free")
    BY SetTicks
  <2>4. Go(<<u3[1], u3[2], u3[3], u3[4]>>) /\ Go(<<u3[5]>>)
    BY <2>2, <2>3, LookTicks, OneStep
  <2>5. u3 = <<u3[1], u3[2], u3[3], u3[4]>> \o <<u3[5]>>
    OBVIOUS
  <2> HIDE DEF u3
  <2> QED BY <2>4, <2>5, Joined
<1>10. Go(u4)
  <2>1. <<Bank("rcv", 0)>> \in Seq(Look)
    BY <1>2
  <2>2. Steps("tick", Set("rcv", 0, "rout", "on"), "free", "free")
    BY SetTicks
  <2>3. Go(<<Bank("rcv", 0)>>) /\ Go(<<Set("rcv", 0, "rout", "on")>>)
    BY <2>1, <2>2, LookTicks, OneStep
  <2>4. u4 = <<Bank("rcv", 0)>> \o <<Set("rcv", 0, "rout", "on")>>
    OBVIOUS
  <2> QED BY <2>3, <2>4, Joined
<1>11. /\ Go(<<Mark("preflight")>>) /\ Go(ReceiverStatus) /\ Go(u1) /\ Go(u2) /\ Go(v1) /\ Go(v2)
       /\ Go(PixelSamples)
  BY <1>6, <1>7, <1>8, LookTicks, PixelSamplesTick
<1>12. ASSUME NEW s, NEW t, Go(s), Go(t) PROVE Go(s \o t)
  BY <1>12, Joined
<1> HIDE DEF Go, u1, u2, u3, u4, v1, v2
<1>13. Go(u2 \o PixelSamples \o u3)
  BY <1>9, <1>11, <1>12
<1>14. Go(u2 \o PixelSamples \o u3 \o v1 \o v2 \o u4)
  BY <1>10, <1>11, <1>12, <1>13
<1>15. Go(<<Mark("preflight")>> \o ReceiverStatus \o u1)
  BY <1>11, <1>12
<1> QED BY <1>12, <1>14, <1>15 DEF ReceiverVideo, ReceiverOutput, Go, u1, u2, u3, u4, v1, v2

(* The state of the counter at each operation of it.                        *)
IsTickRoute(A) == A[1] = "free" /\ Fits("tick", ReceiverVideo, A)
TickRoute == CHOOSE A : IsTickRoute(A)

(* There is such a state for each.                                          *)
LEMMA TickRouted == IsTickRoute(TickRoute)
<1>1. \E A : IsTickRoute(A)
  BY ReceiverVideoTick DEF Carries, IsTickRoute
<1> QED BY <1>1 DEF TickRoute

-----------------------------------------------------------------------------
(* What a program has left of the chips it found.                           *)
Kept ==
  IF prog = "receiver_video"
  THEN /\ mark # "programming"
       /\ \A f \in DOMAIN Registers \ {"tick"} : regs[f] = before[2][f]
  ELSE ~wrote

AllZero(b) == \A c \in Chips : b[c] = 0

(* The chips, and what is remembered of them.                               *)
Shapes ==
  /\ regs = [f \in DOMAIN Registers |-> regs[f]]
  /\ prog = "none" => result = ""
  /\ prog # "none" => /\ before = <<before[1], before[2]>> /\ before[1] \in [Chips -> Nat]
                      /\ before[2] = [f \in DOMAIN Registers |-> before[2][f]]

(* A program that runs, or has returned.                                    *)
RunClean ==
  prog # "none" =>
    /\ late \in {"", "timeout", "range"} /\ (prog = "receiver_video" => late = "")
    /\ ~wrote => before = chips
    /\ result = "ok" /\ prog # "passthrough" => pc = Len(Program[prog]) + 1
    /\ result # "fail" /\ pc <= Cut(prog) + 1 => Kept
    /\ result = "again" => Kept
    /\ prog = "receiver_video" =>
         /\ before[2].tick = "free"
         /\ result # "fail" => regs.tick = TickRoute[pc]
         /\ result \in {"again", "range"} => Kept /\ regs.tick = "free" /\ bank["rcv"] = 0

(* Between the programs of the start and of the worker every chip is in     *)
(* bank 0, and the pixel counter runs until the receiver's video holds it.  *)
HostClean ==
  /\ checkpoint.here /\ ~checkpoint.pending => AllZero(bank)
  /\ script = "wait" => AllZero(before[1])
  /\ module = "capture" /\ phase < Last /\ error = "" =>
       AllZero(IF prog = "none" THEN bank ELSE before[1])
  /\ past["receiver_video"] = "fresh" /\ prog # "receiver_video" => regs.tick = "free"

CleanInv == Shapes /\ RunClean /\ HostClean

(* The operation that runs, and the harmless part of its program.           *)
LEMMA ThisCut ==
  ASSUME HostTypes, BankInv, Running
  PROVE  /\ pc <= Cut(prog) => This \in Harmless(prog)
         /\ ~(pc <= Cut(prog)) => This \in Final(prog)
         /\ pc + 1 <= Cut(prog) + 1 => pc <= Cut(prog)
         /\ pc <= Cut(prog) => pc <= Cut(prog) + 1
         /\ This.n \in Nat
         /\ pc + 1 + This.n <= Cut(prog) + 1 => pc <= Cut(prog)
<1>1. prog \in DOMAIN Program /\ pc \in 1 .. Len(Program[prog]) /\ This \in Ops /\ pc \in Nat
  BY ThisBank DEF HostTypes
<1>2. Cut(prog) \in Nat /\ IsCut(prog, Cut(prog))
  BY <1>1, Cuts
<1>3. \A i, k, n \in Nat : /\ i + 1 <= k + 1 => i <= k
                           /\ i <= k => i <= k + 1
                           /\ i + 1 + n <= k + 1 => i <= k
  OBVIOUS
<1>4. This.n \in Nat
  BY <1>1 DEF Ops
<1>5. /\ pc <= Cut(prog) => This \in Harmless(prog)
      /\ ~(pc <= Cut(prog)) => This \in Final(prog)
  BY <1>1, <1>2 DEF IsCut, This
<1> QED BY <1>1, <1>2, <1>3, <1>4, <1>5

(* The pixel counter when an operation of the receiver's video runs.        *)
LEMMA ThisTick ==
  ASSUME HostTypes, BankInv, RunClean, Running, prog = "receiver_video"
  PROVE  /\ WantsSetting("tick", This, regs.tick)
         /\ This.kind # "leave" => LeadsSetting("tick", This, regs.tick, TickRoute[pc + 1])
         /\ This.kind \in Jumps => TickRoute[pc + 1 + This.n] = regs.tick
         /\ regs.tick = TickRoute[pc]
<1>1. regs.tick = TickRoute[pc]
  BY ThisBank DEF RunClean
<1>2. "tick" \notin Chips
  BY DEF Chips
<1>3. Program["receiver_video"] = ReceiverVideo
  BY ProgramIs
<1>4. Fits("tick", Program[prog], TickRoute)
  BY <1>3, TickRouted DEF IsTickRoute
<1> QED BY <1>1, <1>2, <1>4, ThisBank DEF Fits, Wants, Leads, This

(* An operation that asks for another try is one of the harmless part.      *)
LEMMA Asked ==
  ASSUME HostTypes, BankInv, RunClean, Running,
         This.err = "again" \/ (prog = "receiver_video" /\ This.err = "range")
  PROVE  Kept /\ (prog = "receiver_video" => regs.tick = "free" /\ bank["rcv"] = 0)
<1>1. pc <= Cut(prog) /\ This \in Harmless(prog)
  BY ThisCut DEF Final
<1>2. Kept
  BY <1>1, ThisBank, ThisCut DEF RunClean
<1>3. ASSUME prog = "receiver_video" PROVE regs.tick = "free" /\ bank["rcv"] = 0
  <2>1. regs.tick = "free"
    BY <1>3, ThisTick DEF WantsSetting
  <2>2. This.kind = "ask" /\ This.chip = "rcv" /\ This.bank = 0
    BY <1>1, <1>3 DEF Harmless
  <2>3. bank[This.chip] = This.bank
    BY <2>2, BanksAreRight DEF RightBank
  <2> QED BY <2>1, <2>2, <2>3
<1> QED BY <1>2, <1>3

-----------------------------------------------------------------------------
(* What a step of a program does.                                           *)
CleanMoves ==
  /\ UNCHANGED <<prog, before, past, host>>
  /\ regs' = [f \in DOMAIN Registers |-> regs'[f]]
  /\ prog # "receiver_video" /\ regs.tick = "free" => regs'.tick = "free"
  /\ RunClean'

(* A step that only looks: it goes on, jumps, or returns an error.          *)
LEMMA QuietClean ==
  ASSUME HostTypes, BankInv, Shapes, RunClean, prog # "none", result = "",
         UNCHANGED <<chips, prog, before, past, host, wrote>>,
         late' \in {"", "timeout", "range"}, prog = "receiver_video" => late' = "",
         \/ mark' = mark
         \/ /\ Running /\ This.kind = "mark" /\ mark' = This.name
            /\ pc' = pc + 1 /\ result' = "",
         \/ /\ Running /\ pc' = pc + 1 /\ result' = ""
            /\ This.kind \notin Writes \cup {"bank", "leave"}
            /\ This.kind = "need" => regs[This.name] \in This.values
         \/ Running /\ pc' = pc + 1 + This.n /\ This.kind \in Jumps /\ result' = ""
         \/ Running /\ pc' = pc /\ result' = This.err
         \/ pc' = pc /\ result' \in {"timeout", "range"} /\ prog # "receiver_video"
         \/ pc' = pc /\ result' = "ok" /\ pc = Len(Program[prog]) + 1
  PROVE  CleanMoves
<1>1. /\ mark' = mark => (Kept' <=> Kept)
      /\ Kept /\ mark' # "programming" => Kept'
  BY DEF Kept, chips
<1>2. /\ ~wrote' => before' = chips'
      /\ prog' = "receiver_video" => before'[2].tick = "free"
  BY DEF RunClean, chips
<1>3. ASSUME result' # "fail", pc' <= Cut(prog) + 1 PROVE Kept'
  <2>1. Kept
    BY <1>3, ThisCut DEF RunClean
  <2>2. CASE mark' = mark
    BY <1>1, <2>1, <2>2
  <2>3. CASE Running /\ This.kind = "mark" /\ mark' = This.name /\ pc' = pc + 1
    <3>1. This \in Harmless(prog)
      BY <1>3, <2>3, ThisCut
    <3>2. prog = "receiver_video" => mark' # "programming"
      BY <2>3, <3>1 DEF Harmless
    <3> QED BY <1>1, <2>1, <3>2 DEF Kept, chips
  <2> QED BY <2>2, <2>3
<1>4. result' = "again" => Kept'
  <2>1. result' = "again" => mark' = mark
    OBVIOUS
  <2> QED BY <1>1, <2>1, Asked
<1>5. result' = "ok" /\ prog # "passthrough" => pc' = Len(Program[prog]) + 1
  <2>1. Running => This \in Tame(prog)
    BY ThisOperation
  <2> QED BY <2>1 DEF Tame
<1>6. ASSUME prog = "receiver_video", result' # "fail" PROVE regs'.tick = TickRoute[pc']
  <2>1. regs' = regs
    BY DEF chips
  <2>2. CASE pc' = pc
    BY <1>6, <2>1, <2>2 DEF RunClean
  <2>3. CASE /\ Running /\ pc' = pc + 1
             /\ This.kind \notin Writes \cup {"bank", "leave"}
             /\ This.kind = "need" => regs[This.name] \in This.values
    <3>1. LeadsSetting("tick", This, regs.tick, TickRoute[pc + 1])
      BY <1>6, <2>3, ThisTick
    <3> QED BY <2>1, <2>3, <3>1 DEF LeadsSetting, Writes
  <2>4. CASE Running /\ pc' = pc + 1 + This.n /\ This.kind \in Jumps
    BY <1>6, <2>1, <2>4, ThisTick
  <2> QED BY <2>2, <2>3, <2>4
<1>7. prog = "receiver_video" /\ result' \in {"again", "range"} =>
        Kept' /\ regs'.tick = "free" /\ bank'["rcv"] = 0
  BY <1>1, Asked DEF chips
<1>8. RunClean'
  BY <1>2, <1>3, <1>4, <1>5, <1>6, <1>7 DEF RunClean
<1> QED BY <1>8 DEF CleanMoves, Shapes, chips

(* Reads, branches and the end.                                             *)
LEMMA OtherClean ==
  HostTypes /\ BankInv /\ Shapes /\ RunClean /\ (ExecRead \/ ExecBranch \/ ExecEnd) => CleanMoves
<1> SUFFICES ASSUME HostTypes, BankInv, Shapes, RunClean, ExecRead \/ ExecBranch \/ ExecEnd
             PROVE  CleanMoves
  OBVIOUS
<1>1. UNCHANGED <<chips, prog, before, past, host, wrote>>
  BY DEF ExecRead, ExecBranch, ExecEnd
<1>2. prog # "none" /\ result = "" /\ pc \in Nat /\ prog \in DOMAIN Program
  BY DEF ExecRead, ExecBranch, ExecEnd, Running, HostTypes
<1>3. \A n \in Nat : n + 1 + 0 = n + 1
  OBVIOUS
<1>4. late \in {"", "timeout", "range"} /\ (prog = "receiver_video" => late = "")
  BY <1>2 DEF RunClean
<1>5. Running => /\ This \in Careful
                 /\ This.kind = "late" => prog # "receiver_video"
                      /\ This.err \in {"timeout", "range"}
  <2>1. Running => This \in Careful /\ (This \in Harmless(prog) \/ This \in Final(prog))
    BY ThisOperation, ThisCut
  <2> QED BY <2>1 DEF Careful, Harmless, Final
<1>6. late' \in {"", "timeout", "range"} /\ (prog = "receiver_video" => late' = "")
  BY <1>4, <1>5 DEF ExecRead, ExecBranch, ExecEnd
<1>7. \/ mark' = mark
      \/ /\ Running /\ This.kind = "mark" /\ mark' = This.name
         /\ pc' = pc + 1 /\ result' = ""
  BY <1>2 DEF ExecRead, ExecBranch, ExecEnd, Goto
<1>8. \/ /\ Running /\ pc' = pc + 1 /\ result' = ""
         /\ This.kind \notin Writes \cup {"bank", "leave"}
         /\ This.kind = "need" => regs[This.name] \in This.values
      \/ Running /\ pc' = pc + 1 + This.n /\ This.kind \in Jumps /\ result' = ""
      \/ Running /\ pc' = pc /\ result' = This.err
      \/ pc' = pc /\ result' \in {"timeout", "range"} /\ prog # "receiver_video"
      \/ pc' = pc /\ result' = "ok" /\ pc = Len(Program[prog]) + 1
  <2>1. CASE ExecRead
    BY <1>2, <2>1, Zenon DEF ExecRead, Goto, Return, Jumps, Writes
  <2>2. CASE ExecBranch
    <3>1. /\ Running
          /\ \/ /\ This.kind \in {"maybe", "skip"} /\ (pc' = pc + 1 + This.n \/ pc' = pc + 1 + 0)
                /\ result' = result
             \/ This.kind \in {"due", "mark"} /\ pc' = pc + 1 /\ result' = result
             \/ late # "" /\ pc' = pc /\ result' = late
             \/ pc' = pc /\ result' = This.err
      BY <2>2 DEF ExecBranch, Goto, Return
    <3>2. pc + 1 + 0 = pc + 1
      BY <1>2, <1>3
    <3> QED BY <1>2, <1>4, <3>1, <3>2 DEF Jumps, Writes
  <2>3. CASE ExecEnd
    <3>1. pc \in 1 .. Len(Program[prog]) + 1 /\ pc > Len(Program[prog]) /\ pc' = pc
          /\ result' = "ok"
      BY <1>2, <2>3 DEF ExecEnd, Return, BankInv, ProgramBanks
    <3>2. Program[prog] \in Seq(Tame(prog))
      BY <1>2, Programs
    <3>3. pc = Len(Program[prog]) + 1
      BY <3>1, <3>2
    <3> QED BY <3>1, <3>3
  <2> QED BY <2>1, <2>2, <2>3
<1> QED BY <1>1, <1>2, <1>6, <1>7, <1>8, QuietClean

(* The settings after a write.                                              *)
LEMMA EffectClean ==
  ASSUME HostTypes, BankInv, Shapes, Running, This.kind \in Writes,
         regs' = regs \/ (This.kind # "put" /\ Effect)
  PROVE  /\ regs' = [f \in DOMAIN Registers |-> regs'[f]]
         /\ prog # "receiver_video" /\ regs.tick = "free" => regs'.tick = "free"
         /\ This \in Harmless(prog) /\ prog = "receiver_video" =>
              \A f \in DOMAIN Registers \ {"tick"} : regs'[f] = regs[f]
<1>0. /\ This \in Ops /\ This \in Tame(prog) /\ regs = [f \in DOMAIN Registers |-> regs[f]]
      /\ "tick" \in DOMAIN Registers /\ Registers.tick = "free"
  BY ThisOperation DEF Shapes, Registers
<1>1. CASE regs' = regs
  BY <1>0, <1>1
<1>2. CASE This.kind = "reset" /\ Effect
  <2>1. regs' = [f \in DOMAIN regs |-> IF f \in Owned(This.chip) THEN Registers[f] ELSE regs[f]]
    BY <1>2 DEF Effect
  <2>2. DOMAIN regs = DOMAIN Registers
    BY DEF HostTypes
  <2>3. This \in Harmless(prog) => prog # "receiver_video"
    BY <1>2 DEF Harmless
  <2> QED BY <1>0, <2>1, <2>2, <2>3
<1>3. CASE This.kind \in {"set", "poke"} /\ Effect
  <2>1. PICK v \in This.values : regs' = [regs EXCEPT ![This.name] = v]
    BY <1>3 DEF Effect
  <2>2. prog # "receiver_video" => This.name # "tick"
    BY <1>0 DEF Tame
  <2>3. This \in Harmless(prog) /\ prog = "receiver_video" => This.name = "tick"
    BY <1>3 DEF Harmless
  <2> QED BY <1>0, <2>1, <2>2, <2>3
<1> QED BY <1>1, <1>2, <1>3 DEF Writes

(* A write, or the selection of a bank.                                     *)
LEMMA WriteClean ==
  HostTypes /\ BankInv /\ Shapes /\ RunClean /\ (ExecWrite \/ ExecBank) => CleanMoves
<1> SUFFICES ASSUME HostTypes, BankInv, Shapes, RunClean, ExecWrite \/ ExecBank PROVE CleanMoves
  OBVIOUS
<1>1. /\ Running /\ This.kind \in Writes \cup {"bank"} /\ wrote' = TRUE /\ pc' = pc + 1
      /\ result' = result /\ UNCHANGED <<prog, before, past, host, late, mark>>
      /\ ExecBank => This.kind = "bank" /\ regs' = regs
      /\ ExecWrite => This.kind \in Writes /\ (regs' = regs \/ (This.kind # "put" /\ Effect))
      /\ This.kind = "put" => regs' = regs
      /\ This.kind \in {"set", "poke"} => Effect
  BY DEF ExecWrite, ExecBank, Goto, chips, Writes
<1>2. prog # "none" /\ result = ""
  BY <1>1 DEF Running
<1>3. /\ regs' = [f \in DOMAIN Registers |-> regs'[f]]
      /\ prog # "receiver_video" /\ regs.tick = "free" => regs'.tick = "free"
      /\ This \in Harmless(prog) /\ prog = "receiver_video" =>
           \A f \in DOMAIN Registers \ {"tick"} : regs'[f] = regs[f]
  <2>1. CASE ExecWrite
    BY <1>1, <2>1, EffectClean
  <2>2. CASE ExecBank
    BY <1>1, <2>2 DEF Shapes
  <2> QED BY <2>1, <2>2
<1>4. ASSUME pc' <= Cut(prog) + 1 PROVE Kept'
  <2>1. pc <= Cut(prog) /\ This \in Harmless(prog)
    BY <1>1, <1>4, ThisCut
  <2>2. prog = "receiver_video"
    BY <1>1, <2>1 DEF Harmless
  <2>3. Kept
    BY <1>1, <1>2, <2>1, ThisCut DEF RunClean
  <2> QED BY <1>1, <1>3, <2>1, <2>2, <2>3 DEF Kept
<1>5. ASSUME prog = "receiver_video" PROVE regs'.tick = TickRoute[pc']
  <2>1. LeadsSetting("tick", This, regs.tick, TickRoute[pc'])
        /\ WantsSetting("tick", This, regs.tick)
    BY <1>1, <1>5, ThisTick DEF Writes
  <2>2. CASE This.kind \in {"set", "poke"}
    <3>1. PICK v \in This.values : regs' = [regs EXCEPT ![This.name] = v]
      BY <1>1, <2>2 DEF Effect
    <3>2. "tick" \in DOMAIN regs
      BY DEF HostTypes, Registers
    <3> QED BY <2>1, <2>2, <3>1, <3>2 DEF LeadsSetting
  <2>3. CASE This.kind \in {"put", "bank"}
    <3>1. regs' = regs
      BY <1>1, <2>3 DEF Writes
    <3> QED BY <2>1, <2>3, <3>1 DEF LeadsSetting
  <2>4. This.kind # "reset"
    BY <2>1 DEF WantsSetting
  <2> QED BY <1>1, <2>2, <2>3, <2>4 DEF Writes
<1>6. RunClean'
  BY <1>1, <1>2, <1>4, <1>5 DEF RunClean
<1> QED BY <1>1, <1>3, <1>6 DEF CleanMoves

(* An access that fails.                                                    *)
LEMMA FailClean == HostTypes /\ BankInv /\ Shapes /\ RunClean /\ ExecFail => CleanMoves
<1> SUFFICES ASSUME HostTypes, BankInv, Shapes, RunClean, ExecFail PROVE CleanMoves
  OBVIOUS
<1>1. /\ Running /\ pc' = pc /\ result' = "fail" /\ UNCHANGED <<prog, before, past, host, late>>
      /\ wrote' = TRUE \/ UNCHANGED <<chips, wrote>>
      /\ regs' = regs \/ (This.kind \in Writes \ {"put"} /\ Effect)
  BY DEF ExecFail, Return, chips
<1>2. prog # "none" /\ result = ""
  BY <1>1 DEF Running
<1>3. /\ regs' = [f \in DOMAIN Registers |-> regs'[f]]
      /\ prog # "receiver_video" /\ regs.tick = "free" => regs'.tick = "free"
  <2>1. CASE regs' = regs
    BY <2>1 DEF Shapes
  <2>2. CASE This.kind \in Writes \ {"put"} /\ Effect
    BY <1>1, <2>2, EffectClean
  <2> QED BY <1>1, <2>1, <2>2
<1>4. ~wrote' => before' = chips'
  <2>1. before' = before /\ (~wrote => before = chips)
    BY <1>1, <1>2 DEF RunClean
  <2>2. (wrote' <=> TRUE) \/ (chips' = chips /\ (wrote' <=> wrote))
    BY <1>1
  <2> QED BY <2>1, <2>2, Zenon
<1>5. RunClean'
  <2>1. /\ late' = late /\ prog' = prog /\ before' = before /\ result' = "fail"
        /\ late \in {"", "timeout", "range"} /\ (prog = "receiver_video" => late = "")
        /\ prog = "receiver_video" => before[2].tick = "free"
    BY <1>1, <1>2 DEF RunClean
  <2> QED BY <1>4, <2>1, Zenon DEF RunClean
<1> QED BY <1>1, <1>3, <1>5 DEF CleanMoves

(* A step of a program keeps what is clean.                                 *)
LEMMA ExecClean == StartInv /\ BankInv /\ CleanInv /\ Exec => CleanInv'
<1> SUFFICES ASSUME StartInv, BankInv, CleanInv, Exec PROVE CleanInv'
  OBVIOUS
<1>1. CleanMoves
  BY OtherClean, WriteClean, FailClean DEF Exec, CleanInv, StartInv
<1>2. prog # "none"
  BY DEF Exec, ExecWrite, ExecBank, ExecFail, ExecRead, ExecBranch, ExecEnd, Running
<1>3. checkpoint.here => checkpoint.pending
  BY <1>2 DEF StartInv, ScriptInv, WorkerInv, HostTypes
<1>4. HostClean'
  BY <1>1, <1>2, <1>3 DEF CleanMoves, CleanInv, HostClean, AllZero, host
<1> QED BY <1>1, <1>2, <1>4 DEF CleanMoves, CleanInv, Shapes

-----------------------------------------------------------------------------
(* A program that asks for another try has left the chips as it found them, *)
(* with every bank 0.                                                       *)
LEMMA RetriesAreClean == StartInv /\ BankInv /\ CleanInv => RetryIsClean
<1> SUFFICES ASSUME StartInv, BankInv, CleanInv, module = "capture", result # "", phase < Last,
                    Retry
             PROVE  before = chips /\ \A c \in Chips : bank[c] = 0
  BY DEF RetryIsClean
<1>1. prog # "none"
  BY DEF CleanInv, Shapes
<1>2. AllZero(before[1]) /\ before = <<before[1], before[2]>> /\ before[1] \in [Chips -> Nat]
      /\ before[2] = [f \in DOMAIN Registers |-> before[2][f]]
      /\ regs = [f \in DOMAIN Registers |-> regs[f]]
  BY <1>1 DEF CleanInv, HostClean, Shapes, StartInv, WorkerInv
<1>3. ~wrote => before = chips
  BY <1>1 DEF CleanInv, RunClean
<1>4. CASE before = chips
  BY <1>2, <1>4 DEF chips, AllZero
<1>5. CASE result = "again" /\ prog # "receiver_video"
  <2>1. ~wrote
    BY <1>1, <1>5 DEF CleanInv, RunClean, Kept
  <2> QED BY <1>3, <1>4, <2>1
<1>6. CASE prog = "receiver_video" /\ result \in {"again", "range"}
  <2>1. Kept /\ regs.tick = "free" /\ bank["rcv"] = 0 /\ before[2].tick = "free"
    BY <1>1, <1>6 DEF CleanInv, RunClean
  <2>2. \A f \in DOMAIN Registers : regs[f] = before[2][f]
    BY <1>6, <2>1 DEF Kept
  <2>3. regs = before[2]
    BY <1>2, <2>2
  <2>4. bank["spl"] = before[1]["spl"] /\ bank["srx"] = before[1]["srx"]
    <3>1. "spl" \notin Watched(prog) /\ "srx" \notin Watched(prog)
      BY <1>6 DEF Watched, ReceiverPrograms
    <3> QED BY <1>1, <3>1 DEF BankInv, ProgramBanks
  <2>5. bank["fpga"] = 0 /\ bank["tx"] = 0 /\ bank \in [Chips -> Nat]
    BY DEF BankInv, BankTypes
  <2>6. \A c \in Chips : bank[c] = 0 /\ before[1][c] = 0
    BY <1>2, <2>1, <2>4, <2>5 DEF Chips, AllZero
  <2>7. bank = before[1]
    <3>1. PICK b : b = before[1]
      OBVIOUS
    <3>2. b \in [Chips -> Nat] /\ \A c \in Chips : bank[c] = b[c]
      BY <1>2, <2>6, <3>1
    <3>3. bank = [c \in Chips |-> 0] /\ b = [c \in Chips |-> 0]
      BY <1>2, <2>5, <2>6, <3>1, <3>2
    <3> QED BY <3>1, <3>3
  <2> QED BY <1>2, <2>3, <2>6, <2>7 DEF chips
<1>7. \/ result = "again" \/ ~wrote
      \/ prog = "receiver_video" /\ result \in {"again", "range"}
  BY DEF Retry, VideoRetryable
<1> QED BY <1>3, <1>4, <1>5, <1>6, <1>7

(* So nothing is written twice but what receiver_video may repeat.          *)
LEMMA RetriesAreHarmless == StartInv /\ BankInv /\ CleanInv => RetryHarmless
<1> SUFFICES ASSUME StartInv, BankInv, CleanInv, module = "capture", result # "", phase < Last,
                    Retry
             PROVE  ~wrote \/ Repeatable
  BY DEF RetryHarmless
<1>1. prog # "none" /\ before = chips
  BY RetriesAreClean DEF RetryIsClean, CleanInv, Shapes
<1>2. CASE result = "again" /\ prog # "receiver_video"
  BY <1>1, <1>2 DEF CleanInv, RunClean, Kept
<1>3. CASE prog = "receiver_video" /\ result \in {"again", "range"}
  BY <1>1, <1>3 DEF CleanInv, RunClean, Kept, Repeatable
<1>4. \/ result = "again" \/ ~wrote
      \/ prog = "receiver_video" /\ result \in {"again", "range"}
  BY DEF Retry, VideoRetryable
<1> QED BY <1>2, <1>3, <1>4

(* A program that succeeds leaves every bank 0, if it found them so.        *)
LEMMA EndBanks ==
  ASSUME StartInv, BankInv, CleanInv, prog \notin {"none", "passthrough"}, result = "ok",
         AllZero(before[1])
  PROVE  AllZero(bank)
<1>1. pc = Len(Program[prog]) + 1 /\ prog \in DOMAIN Program
  BY DEF CleanInv, RunClean, StartInv, HostTypes
<1>2. ASSUME NEW c \in Chips PROVE bank[c] = 0
  <2>1. CASE c \in Watched(prog)
    <3>1. bank[c] = Route(c, prog, before[1][c])[Len(Program[prog]) + 1]
      BY <1>1, <2>1 DEF BankInv, ProgramBanks
    <3>2. before[1][c] = 0
      BY DEF AllZero
    <3>3. Route(c, prog, 0)[Len(Program[prog]) + 1] \in {0, 0}
      BY <1>1, <2>1, Routed DEF IsRoute
    <3> QED BY <3>1, <3>2, <3>3
  <2>2. CASE c \in {"rcv", "spl", "srx"} \ Watched(prog)
    BY <2>2 DEF BankInv, ProgramBanks, AllZero
  <2>3. CASE c \in {"fpga", "tx"}
    BY <2>3 DEF BankInv, BankTypes
  <2> QED BY <2>1, <2>2, <2>3 DEF Chips
<1> QED BY <1>2 DEF AllZero

(* A program begins.                                                        *)
LEMMA StartClean ==
  ASSUME BankInv, CleanInv, NEW p \in DOMAIN Program, p # "none", Start(p), prog = "none",
         UNCHANGED <<chips, past>>, p = "receiver_video" => past[p] = "fresh"
  PROVE  /\ Shapes' /\ RunClean' /\ prog' = p /\ before'[1] = bank
         /\ past'["receiver_video"] = "fresh" /\ p # "receiver_video" => regs'.tick = "free"
<1>1. /\ prog' = p /\ before' = <<bank, regs>> /\ pc' = 1 /\ wrote' = FALSE /\ late' = ""
      /\ mark' = "" /\ result' = "" /\ bank' = bank /\ regs' = regs /\ past' = past /\ chips' = chips
  BY DEF Start, Forget, chips
<1>2. bank \in [Chips -> Nat] /\ regs = [f \in DOMAIN Registers |-> regs[f]]
  BY DEF BankInv, BankTypes, CleanInv, Shapes
<1>3. past["receiver_video"] = "fresh" => regs.tick = "free"
  BY DEF CleanInv, HostClean
<1>4. TickRoute[1] = "free"
  BY TickRouted DEF IsTickRoute
<1>5. Shapes'
  <2>1. before'[1] = bank /\ before'[2] = regs /\ before' = <<before'[1], before'[2]>>
    BY <1>1
  <2>2. before'[1] \in [Chips -> Nat] /\ before'[2] = [f \in DOMAIN Registers |-> before'[2][f]]
    BY <1>2, <2>1
  <2>3. regs' = [f \in DOMAIN Registers |-> regs'[f]]
    BY <1>1, <1>2
  <2> QED BY <1>1, <2>1, <2>2, <2>3 DEF Shapes
<1>6. Kept'
  <2>1. before'[2] = regs'
    BY <1>1
  <2> QED BY <1>1, <2>1 DEF Kept
<1>7. before' = chips' /\ before'[2] = regs
  BY <1>1 DEF chips
<1>8. RunClean'
  BY <1>1, <1>3, <1>4, <1>6, <1>7 DEF RunClean
<1> QED BY <1>1, <1>3, <1>5, <1>8

(* One is over, and what is remembered of it.                               *)
LEMMA TickAfter ==
  ASSUME StartInv, CleanInv, NEW r, Remember(r), prog # "none", past'["receiver_video"] = "fresh"
  PROVE  regs.tick = "free"
<1>1. past["receiver_video"] = "fresh"
  BY NeverFresher, ProgramNames
<1>2. CASE prog # "receiver_video"
  BY <1>1, <1>2 DEF CleanInv, HostClean
<1>3. CASE prog = "receiver_video"
  <2>1. past \in [DOMAIN Program -> {"fresh", "done", "torn"}] /\ prog \in DOMAIN Program
    BY <1>3, ProgramNames DEF StartInv, HostTypes
  <2>2. ~wrote
    BY <1>3, <2>1 DEF Remember
  <2>3. before = <<bank, regs>> /\ before[2].tick = "free"
    BY <1>3, <2>2 DEF CleanInv, RunClean, chips
  <2>4. before[2] = regs
    BY <2>3
  <2> QED BY <2>3, <2>4
<1> QED BY <1>2, <1>3

(* The worker goes on, or tries again.                                      *)
LEMMA WorkEndClean == StartInv /\ BankInv /\ CleanInv /\ WorkEnd => HostClean'
<1> SUFFICES ASSUME StartInv, BankInv, CleanInv, WorkEnd PROVE HostClean'
  OBVIOUS
<1>1. /\ module = "capture" /\ prog # "none" /\ result # "" /\ prog' = "none"
      /\ UNCHANGED <<bank, regs, script, checkpoint, module>> /\ script = "off"
      /\ checkpoint.here => checkpoint.pending
  BY DEF WorkEnd, Finish, chips, StartInv, WorkerInv
<1>2. CASE phase < Last /\ Retry
  <2>1. phase' = phase /\ error' = error /\ past' = past
    BY <1>2, RetriesAreHarmless, RetryForgets
  <2>2. before = chips /\ AllZero(bank)
    BY <1>1, <1>2, RetriesAreClean DEF RetryIsClean, AllZero
  <2>3. past["receiver_video"] = "fresh" => regs.tick = "free"
    <3>1. CASE prog = "receiver_video"
      <4>1. before[2].tick = "free" /\ before = <<bank, regs>>
        BY <2>2, <3>1 DEF CleanInv, RunClean, chips
      <4>2. before[2] = regs
        BY <4>1
      <4> QED BY <4>1, <4>2
    <3>2. CASE prog # "receiver_video"
      BY <3>2 DEF CleanInv, HostClean
    <3> QED BY <3>1, <3>2
  <2> QED BY <1>1, <2>1, <2>2, <2>3 DEF HostClean, AllZero
<1>3. CASE ~(phase < Last /\ Retry)
  <2>1. /\ Remember(result)
        /\ IF result = "ok" \/ prog = "passthrough"
           THEN phase' = (IF phase < Last THEN phase + 1 ELSE phase) /\ UNCHANGED error
           ELSE error' = result /\ UNCHANGED phase
    BY <1>3 DEF WorkEnd
  <2>2. past'["receiver_video"] = "fresh" => regs.tick = "free"
    BY <1>1, <2>1, TickAfter
  <2>3. ASSUME phase' < Last, error' = "" PROVE AllZero(bank)
    <3>1. phase \in First .. Last
      BY <1>1 DEF StartInv, WorkerInv
    <3>2. result = "ok" \/ prog = "passthrough"
      BY <1>1, <2>1, <2>3
    <3>3. phase < Last /\ (prog = "passthrough" => phase' = Last)
      <4>1. phase < Last /\ phase' = phase + 1
        <5> DEFINE n == phase
        <5>1. phase' = IF phase < Last THEN phase + 1 ELSE phase
          BY <2>1, <3>2
        <5> QED BY <2>3, <5>1
      <4>2. prog = WorkerProgram[phase - First + 1]
        BY <1>1, <4>1 DEF StartInv, WorkerInv
      <4>3. ASSUME prog = "passthrough" PROVE phase' = Last
        <5>1. \A i \in 1 .. 12 : WorkerProgram[i] # "passthrough"
          BY DEF WorkerProgram
        <5>2. phase - First + 1 \in 1 .. 13
          BY <3>1, <4>1 DEF First, Last
        <5>3. phase - First + 1 \notin 1 .. 12
          BY <4>2, <4>3, <5>1
        <5>4. phase + 1 = Last
          BY <3>1, <4>1, <5>2, <5>3 DEF First, Last
        <5> QED BY <4>1, <5>4
      <4> QED BY <4>1, <4>3
    <3>4. prog # "passthrough"
      <4>1. ~(Last < Last)
        BY DEF Last
      <4> QED BY <2>3, <3>3, <4>1, Zenon
    <3>5. AllZero(before[1])
      BY <1>1, <3>3 DEF CleanInv, HostClean, StartInv, WorkerInv
    <3> QED BY <1>1, <3>2, <3>4, <3>5, EndBanks
  <2> QED BY <1>1, <2>2, <2>3 DEF HostClean, AllZero
<1> QED BY <1>2, <1>3

(* The script.                                                              *)
LEMMA ScriptClean ==
  StartInv /\ BankInv /\ CleanInv /\ (ScriptStart \/ StepBegin \/ StepEnd \/ Handoff) => CleanInv'
<1> SUFFICES ASSUME StartInv, BankInv, CleanInv, ScriptStart \/ StepBegin \/ StepEnd \/ Handoff
             PROVE  CleanInv'
  OBVIOUS
<1>1. ASSUME UNCHANGED <<chips, exec>> PROVE Shapes' /\ RunClean'
  BY <1>1 DEF chips, exec, CleanInv, Shapes, RunClean, Kept
<1>2. CASE ScriptStart
  <2>1. /\ UNCHANGED <<chips, exec, module, phase, error, past>> /\ script' = "step"
        /\ prog = "none" /\ module = "none"
        /\ regs.gpio = "cold" \/ (checkpoint.here /\ ~checkpoint.pending)
    BY <1>2 DEF ScriptStart
  <2>2. AllZero(bank)
    <3>1. CASE regs.gpio = "cold"
      <4>1. past["receiver_id"] = "fresh" /\ past["splitter_startup"] = "fresh"
        <5>1. "receiver_id" \in Counted /\ "splitter_startup" \in Counted
          BY ProgramNames DEF Counted, Waits
        <5> QED BY <3>1, <5>1 DEF StartInv, ChipInv
      <4> QED BY <4>1 DEF BankInv, FreshBanks, BankTypes, AllZero, Chips
    <3> QED BY <2>1, <3>1 DEF CleanInv, HostClean
  <2>3. Shapes' /\ RunClean'
    BY <1>1, <2>1
  <2>4. HostClean'
    BY <2>1, <2>2 DEF CleanInv, HostClean, AllZero, chips, exec
  <2> QED BY <2>3, <2>4 DEF CleanInv
<1>3. CASE StepBegin
  <2>1. /\ script = "step" /\ checkpoint.next < 6 /\ checkpoint'.pending
        /\ Start(PHASES[checkpoint.next + 1]) /\ script' = "wait"
        /\ UNCHANGED <<chips, module, phase, error, past>>
        /\ module = "none" /\ prog = "none" /\ checkpoint.here /\ ~checkpoint.pending
        /\ checkpoint.next \in 0 .. 6
    BY <1>3 DEF StepBegin, First, StartInv, ScriptInv, HostTypes
  <2>2. checkpoint.next + 1 \in 1 .. 6
    BY <2>1
  <2>3. /\ PHASES[checkpoint.next + 1] \in DOMAIN Program \ {"none"}
        /\ PHASES[checkpoint.next + 1] # "receiver_video"
    BY <2>2, ProgramNames DEF Counted, PHASES
  <2>4. AllZero(bank)
    BY <2>1 DEF CleanInv, HostClean
  <2>5. /\ Shapes' /\ RunClean' /\ prog' # "none" /\ before'[1] = bank
        /\ past'["receiver_video"] = "fresh" => regs'.tick = "free"
    BY <2>1, <2>3, StartClean
  <2>6. HostClean'
    BY <2>1, <2>4, <2>5 DEF HostClean, AllZero
  <2> QED BY <2>5, <2>6 DEF CleanInv
<1>4. CASE StepEnd
  <2>1. /\ script = "wait" /\ Remember(result) /\ prog' = "none" /\ result' = ""
        /\ UNCHANGED <<bank, regs, module, phase, error>>
        /\ module = "none" /\ prog # "none" /\ checkpoint.pending /\ checkpoint.next \in 0 .. 5
        /\ prog = PHASES[checkpoint.next + 1]
        /\ IF result = "ok" THEN script' = "step" ELSE script' = "off" /\ UNCHANGED checkpoint
    BY <1>4, PendingStep DEF StepEnd, Finish, Forget, chips, StartInv, ScriptInv
  <2>2. prog # "passthrough" /\ prog # "receiver_video"
    <3>1. \A n \in 0 .. 5 : n + 1 \in 1 .. 6
      OBVIOUS
    <3>2. \A i \in 1 .. 6 : PHASES[i] # "passthrough" /\ PHASES[i] # "receiver_video"
      BY DEF PHASES
    <3> QED BY <2>1, <3>1, <3>2, Zenon
  <2>3. result = "ok" => AllZero(bank)
    BY <2>1, <2>2, EndBanks DEF CleanInv, HostClean
  <2>4. past'["receiver_video"] = "fresh" => regs.tick = "free"
    BY <2>1, TickAfter
  <2>5. HostClean'
    BY <2>1, <2>3, <2>4 DEF HostClean, AllZero
  <2>6. Shapes' /\ RunClean'
    BY <2>1 DEF CleanInv, Shapes, RunClean
  <2> QED BY <2>5, <2>6 DEF CleanInv
<1>5. CASE Handoff
  <2>1. /\ script = "step" /\ script' = "off" /\ checkpoint'.pending
        /\ UNCHANGED <<chips, exec, past>> /\ prog = "none"
        /\ checkpoint.here /\ ~checkpoint.pending
    BY <1>5 DEF Handoff, StartInv, ScriptInv, HostTypes
  <2>2. AllZero(bank)
    BY <2>1 DEF CleanInv, HostClean
  <2>3. HostClean'
    BY <2>1, <2>2 DEF CleanInv, HostClean, AllZero, chips, exec
  <2> QED BY <1>1, <2>1, <2>3 DEF CleanInv
<1> QED BY <1>2, <1>3, <1>4, <1>5

(* The worker, and what happens to the computer.                            *)
LEMMA HostKeepsClean ==
  StartInv /\ BankInv /\ CleanInv /\ (LoadReady \/ Preserve \/ Work \/ Fault) => CleanInv'
<1> SUFFICES ASSUME StartInv, BankInv, CleanInv, LoadReady \/ Preserve \/ Work \/ Fault
             PROVE  CleanInv'
  OBVIOUS
<1>1. ASSUME UNCHANGED <<chips, exec>> PROVE Shapes' /\ RunClean'
  BY <1>1 DEF chips, exec, CleanInv, Shapes, RunClean, Kept
<1>2. ASSUME prog' = "none", result' = "", regs' = regs PROVE Shapes' /\ RunClean'
  BY <1>2 DEF CleanInv, Shapes, RunClean
<1>3. ASSUME UNCHANGED <<chips, exec, past>>,
             \/ checkpoint' = checkpoint /\ script' = "off"
                /\ (UNCHANGED <<module, phase, error>> \/ module' = "none")
             \/ checkpoint' = NoFile /\ script' = script /\ UNCHANGED <<module, phase, error>>
             \/ UNCHANGED host
      PROVE  CleanInv'
  <2>1. bank' = bank /\ regs' = regs /\ prog' = prog /\ before' = before /\ past' = past
    BY <1>3 DEF chips, exec
  <2>2. ~NoFile.here
    BY DEF NoFile
  <2>3. checkpoint'.here /\ ~checkpoint'.pending => AllZero(bank')
    <3>1. checkpoint' = checkpoint \/ ~checkpoint'.here
      BY <1>3, <2>2 DEF host
    <3>2. checkpoint.here /\ ~checkpoint.pending => AllZero(bank)
      BY DEF CleanInv, HostClean
    <3> QED BY <2>1, <3>1, <3>2
  <2>4. script' = "wait" => AllZero(before'[1])
    <3>1. script' = "off" \/ script' = script
      BY <1>3 DEF host
    <3>2. script = "wait" => AllZero(before[1])
      BY DEF CleanInv, HostClean
    <3> QED BY <2>1, <3>1, <3>2
  <2>5. module' = "capture" /\ phase' < Last /\ error' = "" =>
          AllZero(IF prog' = "none" THEN bank' ELSE before'[1])
    <3>1. UNCHANGED <<module, phase, error>> \/ module' = "none"
      BY <1>3 DEF host
    <3>2. module = "capture" /\ phase < Last /\ error = "" =>
            AllZero(IF prog = "none" THEN bank ELSE before[1])
      BY DEF CleanInv, HostClean
    <3> QED BY <2>1, <3>1, <3>2
  <2>6. past'["receiver_video"] = "fresh" /\ prog' # "receiver_video" => regs'.tick = "free"
    BY <2>1 DEF CleanInv, HostClean
  <2>7. HostClean'
    BY <2>3, <2>4, <2>5, <2>6 DEF HostClean, AllZero
  <2> QED BY <1>1, <1>3, <2>7 DEF CleanInv
<1>4. CASE Preserve
  BY <1>3, <1>4 DEF Preserve
<1>5. CASE Unload
  <2>1. script = "off"
    BY <1>5 DEF Unload, StartInv, WorkerInv
  <2> QED BY <1>3, <1>5, <2>1 DEF Unload
<1>6. CASE Kill
  BY <1>3, <1>6 DEF Kill
<1>7. CASE Settle
  BY <1>3, <1>7 DEF Settle
<1>8. CASE LoadReady
  <2>1. /\ Start("passthrough") /\ prog = "none" /\ phase' = Last /\ checkpoint' = NoFile
        /\ script = "off" /\ script' = script /\ UNCHANGED <<chips, past>>
    BY <1>8 DEF LoadReady
  <2>2. /\ Shapes' /\ RunClean'
        /\ past'["receiver_video"] = "fresh" => regs'.tick = "free"
    BY <2>1, ProgramNames, StartClean
  <2>3. HostClean'
    <3>1. ~(Last < Last)
      BY DEF Last
    <3>2. ~checkpoint'.here /\ script' = "off" /\ ~(phase' < Last)
      BY <2>1, <3>1 DEF NoFile
    <3> QED BY <2>2, <3>2 DEF HostClean
  <2> QED BY <2>2, <2>3 DEF CleanInv
<1>9. CASE WorkRun
  <2>1. /\ Start(WorkerProgram[phase - First + 1]) /\ prog = "none"
        /\ UNCHANGED <<chips, host, past>>
        /\ phase \in First .. Last - 1 /\ error = "" /\ module = "capture"
    BY <1>9 DEF WorkRun
  <2>2. phase - First + 1 \in 1 .. 13 /\ phase < Last
    <3>1. \A n \in 6 .. 19 - 1 : n - 6 + 1 \in 1 .. 13 /\ n < 19
      OBVIOUS
    <3> QED BY <2>1, <3>1 DEF First, Last
  <2>3. WorkerProgram[phase - First + 1] \in DOMAIN Program \ {"none"}
    BY <2>2, ProgramNames
  <2>4. WorkerProgram[phase - First + 1] = "receiver_video" => past["receiver_video"] = "fresh"
    <3>1. phase - First + 1 \in phase - 5 .. 13
      <4>1. \A n \in 6 .. 19 - 1 : n - 6 + 1 \in n - 5 .. 13
        OBVIOUS
      <4> QED BY <2>1, <4>1 DEF First, Last
    <3>2. "receiver_video" \in Counted
      BY ProgramNames DEF Counted, Waits
    <3> QED BY <2>1, <2>2, <3>1, <3>2 DEF StartInv, WorkerInv, Ahead
  <2>5. AllZero(bank)
    BY <2>1, <2>2 DEF CleanInv, HostClean
  <2>6. /\ Shapes' /\ RunClean' /\ prog' = WorkerProgram[phase - First + 1] /\ before'[1] = bank
        /\ past'["receiver_video"] = "fresh" /\ prog' # "receiver_video" => regs'.tick = "free"
    BY <2>1, <2>3, <2>4, StartClean
  <2>7. script = "off" /\ (checkpoint.here => checkpoint.pending)
    BY <2>1 DEF StartInv, WorkerInv
  <2>8. HostClean'
    BY <2>1, <2>3, <2>5, <2>6, <2>7 DEF HostClean, AllZero, host
  <2> QED BY <2>6, <2>8 DEF CleanInv
<1>10. CASE WorkEnd
  <2>1. prog' = "none" /\ result' = "" /\ regs' = regs
    BY <1>10 DEF WorkEnd, Finish, Forget, chips
  <2> QED BY <1>2, <1>10, <2>1, WorkEndClean DEF CleanInv
<1>11. CASE ProbeEnds
  <2>1. /\ script = "off" /\ module = "none" /\ Remember(result) /\ prog' = "none" /\ result' = ""
        /\ UNCHANGED <<bank, regs, host>> /\ prog # "none" /\ checkpoint.pending
    <3>1. prog # "none"
      BY <1>11 DEF ProbeEnds, CleanInv, Shapes
    <3> QED BY <1>11, <3>1 DEF ProbeEnds, Finish, Forget, chips, StartInv, ScriptInv
  <2>2. past'["receiver_video"] = "fresh" => regs.tick = "free"
    BY <2>1, TickAfter
  <2>3. HostClean'
    BY <2>1, <2>2 DEF HostClean, AllZero, host
  <2> QED BY <1>2, <2>1, <2>3 DEF CleanInv
<1>12. CASE Reboot
  <2>1. /\ prog' = "none" /\ result' = "" /\ UNCHANGED <<bank, regs>>
        /\ script' = "off" /\ checkpoint' = NoFile /\ module' = "none"
        /\ IF prog = "none" THEN past' = past ELSE Remember("killed")
    BY <1>12 DEF Reboot, Finish, Forget, chips
  <2>2. past'["receiver_video"] = "fresh" => regs.tick = "free"
    <3>1. CASE prog = "none"
      <4>1. past' = past /\ prog # "receiver_video"
        BY <2>1, <3>1
      <4> QED BY <4>1 DEF CleanInv, HostClean
    <3>2. CASE prog # "none"
      BY <2>1, <3>2, TickAfter
    <3> QED BY <3>1, <3>2
  <2>3. HostClean'
    BY <2>1, <2>2 DEF HostClean, NoFile
  <2> QED BY <1>2, <2>1, <2>3 DEF CleanInv
<1>13. CASE PowerCycle
  <2>1. /\ prog' = "none" /\ result' = "" /\ regs' = Registers
        /\ script' = "off" /\ checkpoint' = NoFile /\ module' = "none"
    BY <1>13 DEF PowerCycle, Finish, Forget
  <2>2. Registers.tick = "free" /\ Registers = [f \in DOMAIN Registers |-> Registers[f]]
    BY DEF Registers
  <2>3. Shapes' /\ RunClean' /\ HostClean'
    BY <2>1, <2>2 DEF Shapes, RunClean, HostClean, NoFile
  <2> QED BY <2>3 DEF CleanInv
<1> QED BY <1>4, <1>5, <1>6, <1>7, <1>8, <1>9, <1>10, <1>11, <1>12, <1>13 DEF Work, Fault

(* Every step keeps what is clean.                                          *)
LEMMA NextClean == StartInv /\ BankInv /\ CleanInv /\ [Next]_vars => CleanInv'
<1> SUFFICES ASSUME StartInv, BankInv, CleanInv, [Next]_vars PROVE CleanInv'
  OBVIOUS
<1>1. CASE UNCHANGED vars
  <2>1. UNCHANGED chips /\ UNCHANGED exec /\ UNCHANGED host /\ UNCHANGED past
    BY <1>1 DEF vars
  <2>2. Shapes' /\ HostClean'
    BY <2>1 DEF chips, exec, host, CleanInv, Shapes, HostClean, AllZero
  <2>3. RunClean'
    BY <2>1 DEF chips, exec, host, CleanInv, RunClean, Kept
  <2> QED BY <2>2, <2>3 DEF CleanInv
<1>2. \/ Exec \/ ScriptStart \/ StepBegin \/ StepEnd \/ Handoff \/ LoadReady \/ Preserve
      \/ Work \/ Fault \/ UNCHANGED vars
  BY DEF Next, Script
<1> QED BY <1>1, <1>2, ExecClean, ScriptClean, HostKeepsClean

(* Initially no program has run.                                            *)
LEMMA InitClean == Init => CleanInv
<1>1. Registers.tick = "free" /\ Registers = [f \in DOMAIN Registers |-> Registers[f]]
  BY DEF Registers
<1>2. Init => /\ prog = "none" /\ result = "" /\ regs = Registers /\ script = "off"
              /\ module = "none" /\ checkpoint = NoFile
  BY DEF Init
<1> SUFFICES ASSUME Init PROVE CleanInv
  OBVIOUS
<1>3. prog = "none" /\ regs = Registers /\ script = "off" /\ module = "none"
      /\ ~checkpoint.here /\ result = ""
  <2>1. ~NoFile.here
    BY DEF NoFile
  <2> QED BY <1>2, <2>1
<1>4. Shapes
  BY <1>1, <1>3 DEF Shapes
<1> QED BY <1>1, <1>3, <1>4 DEF CleanInv, RunClean, HostClean

-----------------------------------------------------------------------------
(* The theorems.                                                            *)

(* The inductive invariant: a cold start-up GPIO, the checkpoint and the    *)
(* worker's phase say truly which programs have run since power-on; the     *)
(* banks, the settings hot-plug depends on and what a retry leaves are      *)
(* those the programs were written for.                                     *)
THEOREM StartInvariant == Spec => [](StartInv /\ BankInv /\ GateInv /\ CleanInv)
<1>1. Init => StartInv /\ BankInv /\ GateInv /\ CleanInv
  BY InitEstablishes, InitBanks, InitGates, InitClean
<1>2. StartInv /\ BankInv /\ GateInv /\ CleanInv /\ [Next]_vars =>
        (StartInv /\ BankInv /\ GateInv /\ CleanInv)'
  BY NextKeeps, NextBanks, NextGates, NextClean, RetriesAreHarmless
<1> QED BY <1>1, <1>2, PTL DEF Spec

(* InOrder: a program of the start runs only after every step before it     *)
(* succeeded, whatever failed, died or was rebooted in between.             *)
THEOREM ProgramsInOrder == Spec => []InOrder
<1>1. StartInv => InOrder
  <2> SUFFICES ASSUME StartInv, prog # "none", NEW i \in 1 .. 6,
                      (\E j \in i + 1 .. 6 : PHASES[j] = prog) \/ module = "capture"
               PROVE  past[PHASES[i]] = "done"
    BY DEF InOrder
  <2>1. CASE module = "capture"
    BY <2>1 DEF StartInv, WorkerInv, AllDone
  <2>2. CASE module # "capture"
    <3>1. PICK j \in i + 1 .. 6 : PHASES[j] = prog
      BY <2>2
    <3>2. module = "none"
      BY <2>2 DEF StartInv, HostTypes
    <3>3. checkpoint.next \in 0 .. 5 /\ prog = PHASES[checkpoint.next + 1]
      BY <3>2 DEF StartInv, ScriptInv, HostTypes
    <3>4. j \in 1 .. 6 /\ checkpoint.next + 1 \in 1 .. 6
      BY <3>1, <3>3
    <3>5. j = checkpoint.next + 1
      BY <3>1, <3>3, <3>4, ProgramNames
    <3>6. i \in 1 .. checkpoint.next
      BY <3>3, <3>5
    <3> QED BY <3>6 DEF StartInv, CheckpointInv
  <2> QED BY <2>1, <2>2
<1> QED BY <1>1, StartInvariant, PTL

(* NoReplay: a program that wrote is not run again while the card has       *)
(* power, neither by the script after its death or a reboot nor by a retry  *)
(* of the worker, but for what receiver_video repeats once the banks and    *)
(* the pixel counter are back.                                              *)
THEOREM NothingReplayed == Spec => []NoReplay
<1>1. StartInv => NoReplay
  <2> SUFFICES ASSUME StartInv, prog \in Counted PROVE past[prog] = "fresh"
    BY DEF NoReplay, Counted
  <2>1. prog \in DOMAIN Program /\ prog # "none" /\ prog # "passthrough"
    BY ProgramNames DEF Counted
  <2>2. CASE module = "none"
    <3>1. /\ checkpoint.next \in 0 .. 5 /\ prog = PHASES[checkpoint.next + 1]
          /\ checkpoint.here
      BY <2>1, <2>2 DEF StartInv, ScriptInv, CheckpointInv, HostTypes
    <3>2. checkpoint.next + 1 \in checkpoint.next + 1 .. 6
      BY <3>1
    <3> QED BY <2>1, <2>2, <3>1, <3>2 DEF StartInv, CheckpointInv
  <2>3. CASE module = "capture"
    <3>1. /\ phase \in First .. Last /\ phase # Last
          /\ phase < Last => prog = WorkerProgram[phase - First + 1] /\ error = ""
      BY <2>1, <2>3 DEF StartInv, WorkerInv
    <3>2. phase \in First .. Last - 1 /\ phase < Last
      BY <3>1, EarlyPhase
    <3>3. prog \in Ahead(phase)
      BY <3>1, <3>2, PhasesDiffer
    <3> QED BY <2>3, <3>1, <3>2, <3>3 DEF StartInv, WorkerInv
  <2> QED BY <2>2, <2>3 DEF StartInv, HostTypes
<1> QED BY <1>1, StartInvariant, PTL

(* RightBank: every access goes to the register bank it is written for,     *)
(* also when a program that failed or was killed left the chip in another.  *)
THEOREM BanksRight == Spec => []RightBank
<1>1. StartInv /\ BankInv => RightBank
  BY BanksAreRight DEF StartInv
<1> QED BY <1>1, StartInvariant, PTL

(* HotplugHonest: the source sees the receiver's hot-plug only over our     *)
(* EDID and a port that is ready, and the splitter's never over half an     *)
(* EDID set-up: whatever fails, is killed or started again.                 *)
THEOREM HotplugIsHonest == Spec => []HotplugHonest
<1>1. GateInv => HotplugHonest
  BY DEF GateInv
<1> QED BY <1>1, StartInvariant, PTL

(* RetryIsClean: a phase the worker tries again left every setting and      *)
(* every bank as it found them, whatever the phases before it did.          *)
THEOREM RetryLeavesClean == Spec => []RetryIsClean
<1>1. StartInv /\ BankInv /\ CleanInv => RetryIsClean
  BY RetriesAreClean
<1> QED BY <1>1, StartInvariant, PTL
=============================================================================
