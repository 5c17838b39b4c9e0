---------------------------- MODULE ChipPrograms ----------------------------
(***************************************************************************)
(* The register programs of the driver, as data: each C function that      *)
(* drives the receiver (address 0x90) or the splitter (0x58, its receiving *)
(* half 0x70 and its transmitters) is the sequence of its operations in    *)
(* the order of the code, the function it calls first included.  A run of  *)
(* writes of settings inside one register bank is one operation.  What the *)
(* properties and the preflights tell apart is a named register setting,   *)
(* Registers; Startup executes the programs.                               *)
(***************************************************************************)
EXTENDS Naturals, Sequences

Chips == {"fpga", "rcv", "spl", "srx", "tx"}

(* After power-on.  gpio is register 0x40 without bit 2, which is hpd.      *)
Registers ==
  [gpio  |-> "cold",     \* 0x1f850, "part", "receiver" 0x1f958, "board" 0x1f978
   hpd   |-> "low",      \* of the receiver's input
   table |-> "reset",    \* "marked": what the preflights test is written
   rcal  |-> "clear",    \* calibration: "flagged" until acknowledged, "done"
   rddc  |-> "resident", \* EDID substitution: "part", "ours"
   rport |-> "reset",    \* input port: "part", "ready"
   tick  |-> "free",     \* pixel counter 0x9a: "held" while sampled
   rout  |-> "off",      \* video output: "part", "on"
   base  |-> "reset",    \* splitter 0x10, 0xf0, 0xf1, 0x0e
   map   |-> "none",     \* addresses of the transmitters
   scal  |-> "clear",
   s26   |-> "on",       \* hot-plug of the splitter's input: 0x26 is 0xff ...
   s55   |-> "off",      \* ... and 0x55, which asserts it
   sab   |-> "other",    \* 0xab of bank 3: "ca" while hot-plug is asserted
   sddc  |-> "resident", \* "off", "part", "on" with the EDID in place
   tx1   |-> "reset",    \* transmitter: "cold", "part", "active", "setup", "on"
   tx2   |-> "reset"]

(* Settings a reset of the chip takes back.                                 *)
Owned(chip) ==
  CASE chip = "rcv" -> {"table", "rcal", "rddc", "rport", "tick", "rout"}
    [] chip = "spl" -> {"base", "map"}
    [] chip = "srx" -> {"sab", "sddc"}
    [] chip = "tx"  -> {"tx1", "tx2"}
    [] OTHER        -> {}
-----------------------------------------------------------------------------
Op(kind, chip, bank, name, values, err, n) ==
  [kind |-> kind, chip |-> chip, bank |-> bank, name |-> name,
   values |-> values, err |-> err, n |-> n]

(* Select a register bank: read 0x0f, write it, read it back.               *)
Bank(c, b) == Op("bank", c, b, "", {}, "fail", 0)

(* Writes and reads of settings no property tells apart.                    *)
Put(c, b) == Op("put", c, b, "", {}, "fail", 0)
Get(c, b) == Op("get", c, b, "", {}, "fail", 0)

(* Write a setting; Set reads it back, Poke does not.                       *)
Set(c, b, f, v)  == Op("set", c, b, f, {v}, "fail", 0)
Poke(c, b, f, v) == Op("poke", c, b, f, {v}, "fail", 0)

(* Reset the chip, by its GPIO or a register of its own.                    *)
Reset(c, b) == Op("reset", c, b, "", {}, "fail", 0)

(* Read 0x0f and demand bank zero.                                          *)
Zero(c, e) == Op("zero", c, 0, "", {}, e, 0)

(* Read a setting and demand one of vs.                                     *)
Need(c, f, vs, e) == Op("need", c, 0, f, vs, e, 0)

(* Read something the source or the sink decides: continue or return e.     *)
Ask(c, b, e) == Op("ask", c, b, "", {}, e, 0)

(* The same, but e is returned after the cleanup: skip n operations to it.  *)
Late(c, b, e, n) == Op("late", c, b, "", {}, e, n)
Due == Op("due", "fpga", 0, "", {}, "", 0)

(* The sink or a chip decides whether the next n operations are needed.     *)
Maybe(n) == Op("maybe", "fpga", 0, "", {}, "", n)

(* A setting in vs makes the next n operations unnecessary.                 *)
Skip(c, f, vs, n) == Op("skip", c, 0, f, vs, "", n)

(* Return without a read.                                                   *)
Leave(e) == Op("leave", "fpga", 0, "", {}, e, 0)

(* The phase recorded in the result structure.                              *)
Mark(m) == Op("mark", "fpga", 0, m, {}, "", 0)

(* Visit each bank and write settings in it.                                *)
Visit(c, banks) ==
  [i \in 1 .. 2 * Len(banks) |->
     IF i % 2 = 1 THEN Bank(c, banks[(i + 1) \div 2]) ELSE Put(c, banks[i \div 2])]
-----------------------------------------------------------------------------
(* The receiver.                                                            *)
ReceiverIdentify ==
  <<Set("fpga", 0, "gpio", "part"), Set("fpga", 0, "gpio", "receiver"),
    Set("fpga", 0, "gpio", "part"), Reset("rcv", 0),
    Set("fpga", 0, "gpio", "receiver"), Get("rcv", 0)>>

ReceiverStatus ==
  <<Need("fpga", "gpio", {"receiver", "board"}, "nodev"),
    Zero("rcv", "unsup"), Get("rcv", 0)>>

(* Registers 0x22, 0x23 and 0x2b, the markers, are written in the first     *)
(* visit to bank zero.                                                      *)
ReceiverInit ==
  ReceiverStatus \o
  <<Bank("rcv", 0), Poke("rcv", 0, "table", "marked")>> \o
  Visit("rcv", <<3, 0, 3, 0, 4, 3, 0, 3, 0, 0, 1, 0, 1, 3, 7, 0, 1, 0, 5, 0, 4,
                 0, 3, 0, 4, 0, 4>>) \o
  <<Bank("rcv", 0), Poke("rcv", 0, "table", "done")>> \o
  ReceiverStatus

Markers == Need("rcv", "table", {"marked", "done"}, "again")

(* gc573_cal_setup: the first visit to bank zero starts the calibration.    *)
CalSetup ==
  Visit("rcv", <<3>>) \o
  <<Bank("rcv", 0), Poke("rcv", 0, "rcal", "flagged")>> \o
  Visit("rcv", <<7, 0, 4, 3, 7>>) \o <<Bank("rcv", 0)>>

CalCleanup ==
  <<Bank("rcv", 0), Poke("rcv", 0, "rcal", "done")>> \o
  Visit("rcv", <<4, 3, 7>>) \o <<Bank("rcv", 0)>>

ReceiverCalibrate ==
  ReceiverStatus \o
  <<Markers, Need("rcv", "rcal", {"clear", "done"}, "busy")>> \o
  CalSetup \o
  <<Late("rcv", 0, "timeout", 0),
    Bank("rcv", 3), Get("rcv", 3), Bank("rcv", 7), Get("rcv", 7)>> \o
  CalCleanup \o ReceiverStatus \o <<Due>>

(* The measuring engine that does not answer is restarted with the keys.    *)
ClockRecovery ==
  <<Put("rcv", 1), Late("rcv", 1, "timeout", 6),
    Bank("rcv", 0), Put("rcv", 0), Bank("rcv", 1)>>

ReceiverClock ==
  ReceiverStatus \o
  <<Markers, Need("rcv", "rcal", {"flagged", "done"}, "again"), Put("rcv", 0)>> \o
  Visit("rcv", <<1, 0, 1>>) \o <<Get("rcv", 1), Maybe(Len(ClockRecovery))>> \o
  ClockRecovery \o
  <<Put("rcv", 1), Get("rcv", 1), Late("rcv", 1, "range", 0),
    Put("rcv", 1), Bank("rcv", 0), Put("rcv", 0)>> \o
  ReceiverStatus \o <<Due>>

ReceiverTiming ==
  ReceiverClock \o Visit("rcv", <<3, 0, 1, 0>>) \o <<Bank("rcv", 0)>> \o
  ReceiverStatus

ReceiverEdidRead ==
  ReceiverTiming \o <<Put("rcv", 0), Get("rcv", 0)>> \o ReceiverStatus

DdcSnapshot ==
  <<Bank("rcv", 0), Get("rcv", 0), Bank("rcv", 4), Get("rcv", 4), Bank("rcv", 0)>>

ReceiverDdc ==
  <<Need("fpga", "hpd", {"low"}, "busy")>> \o ReceiverEdidRead \o
  <<Ask("rcv", 0, "busy"), Ask("rcv", 0, "inval")>> \o DdcSnapshot \o
  <<Ask("rcv", 0, "busy"), Set("rcv", 0, "rddc", "part")>> \o
  Visit("rcv", <<4, 0, 4, 0, 4, 0>>) \o
  <<Bank("rcv", 4), Set("rcv", 4, "rddc", "ours"), Bank("rcv", 0)>> \o
  DdcSnapshot \o
  <<Need("rcv", "rddc", {"ours"}, "fail")>> \o ReceiverStatus

ReceiverInput ==
  ReceiverDdc \o <<Ask("rcv", 0, "nolink"),
                   Bank("rcv", 1), Set("rcv", 1, "rport", "part")>> \o
  Visit("rcv", <<0, 0, 0, 3, 7, 0, 3, 7, 0, 3, 0, 3, 0, 1>>) \o
  <<Bank("rcv", 0), Set("rcv", 0, "rport", "ready"),
    Ask("rcv", 0, "nolink"), Need("fpga", "hpd", {"low"}, "fail"),
    Set("fpga", 0, "hpd", "high"), Get("rcv", 0)>> \o
  ReceiverStatus

(* Five samples of the pixel counter, held while it is read.                *)
PixelSamples ==
  [i \in 1 .. 15 |-> CASE i % 3 = 1 -> Set("rcv", 0, "tick", "held")
                       [] i % 3 = 2 -> Get("rcv", 0)
                       [] OTHER     -> Set("rcv", 0, "tick", "free")]

ReceiverOutput ==
  <<Mark("measuring"), Ask("rcv", 0, "unsup"),
    Bank("rcv", 1), Get("rcv", 1), Bank("rcv", 0)>> \o PixelSamples \o
  <<Mark("restored"), Ask("rcv", 0, "badref"), Ask("rcv", 0, "range"),
    Mark("programming"), Set("rcv", 0, "rout", "part")>> \o
  Visit("rcv", <<5, 1, 5, 1, 0, 1, 0, 1, 0, 1, 0>>) \o
  Visit("rcv", <<1, 0, 1>>) \o
  <<Bank("rcv", 0), Set("rcv", 0, "rout", "on")>>

ReceiverVideo ==
  <<Mark("preflight")>> \o ReceiverStatus \o
  <<Ask("rcv", 0, "nolink"), Mark("sampling"), Get("rcv", 0),
    Bank("rcv", 2), Get("rcv", 2), Bank("rcv", 1), Get("rcv", 1),
    Bank("rcv", 0), Mark("format"), Ask("rcv", 0, "again"),
    Ask("rcv", 0, "range")>> \o ReceiverOutput
-----------------------------------------------------------------------------
(* The splitter.                                                            *)
SplitterIdentify ==
  <<Need("fpga", "gpio", {"receiver", "board"}, "nodev"),
    Zero("spl", "unsup"), Get("spl", 0)>>

(* GPIO 5 high, low, high; if it is high already the chip was started.      *)
SplitterStartup ==
  <<Need("fpga", "gpio", {"receiver", "board"}, "nodev"),
    Skip("fpga", "gpio", {"board"}, 6),
    Set("fpga", 0, "gpio", "board"), Set("fpga", 0, "gpio", "receiver"),
    Reset("spl", 0), Reset("srx", 0), Reset("tx", 0),
    Set("fpga", 0, "gpio", "board")>> \o SplitterIdentify

Board  == Need("fpga", "gpio", {"board"}, "nodev")
Based  == Need("spl", "base", {"ready"}, "unsup")
Mapped == Need("spl", "map", {"set"}, "unsup")

SplitterPrepare ==
  SplitterIdentify \o
  <<Board, Reset("spl", 0), Zero("spl", "fail"), Get("spl", 0),
    Maybe(5), Put("spl", 0), Ask("spl", 0, "timeout"),
    Bank("spl", 1), Put("spl", 1), Bank("spl", 0),
    Set("spl", 0, "base", "ready"), Zero("spl", "fail")>>

SplitterClock ==
  SplitterIdentify \o
  <<Board, Based, Put("spl", 0), Bank("spl", 0), Put("spl", 0), Get("spl", 0),
    Late("spl", 0, "range", 0), Put("spl", 0), Bank("spl", 0), Put("spl", 0), Due>>

SplitterTiming == SplitterClock \o <<Based, Put("spl", 0), Zero("spl", "fail")>>

SplitterMap ==
  SplitterTiming \o
  <<Based, Set("spl", 0, "map", "set"), Based, Zero("srx", "unsup"),
    Get("srx", 0), Zero("spl", "fail")>>

SplitterCalibrate ==
  SplitterMap \o
  <<Reset("srx", 0), Zero("srx", "fail"),
    Need("srx", "scal", {"clear", "done"}, "busy"),
    Bank("srx", 0), Poke("srx", 0, "scal", "flagged")>> \o
  Visit("srx", <<3, 0, 3>>) \o
  <<Bank("srx", 0), Late("srx", 0, "timeout", 0),
    Bank("srx", 3), Get("srx", 3), Put("srx", 3),
    Bank("srx", 0), Poke("srx", 0, "scal", "done"), Put("srx", 0),
    Zero("srx", "fail"), Get("srx", 0), Due>>

SplitterSetup ==
  SplitterCalibrate \o <<Put("srx", 0)>> \o Visit("srx", <<3, 0, 3, 0>>) \o
  <<Set("srx", 0, "s26", "on"), Put("srx", 0), Zero("srx", "fail")>>

(* Leaves hot-plug low.                                                     *)
SplitterFinish ==
  SplitterSetup \o
  <<Bank("srx", 3), Set("srx", 3, "sab", "other"), Bank("srx", 0), Put("srx", 0),
    Put("spl", 0), Bank("srx", 3), Maybe(1), Put("srx", 3),
    Bank("srx", 0), Set("srx", 0, "s26", "on"), Set("srx", 0, "s55", "off")>> \o
  Visit("srx", <<3>>) \o
  <<Bank("srx", 0), Zero("srx", "fail"), Zero("spl", "fail"), Get("srx", 0)>>

SplitterTxPrepare ==
  SplitterFinish \o
  <<Based, Set("srx", 0, "sddc", "off"), Reset("tx", 0), Mapped, Get("tx", 0),
    Zero("srx", "fail"), Zero("spl", "fail"), Get("srx", 0)>>

(* One transmitter: the prefix, the sink, the tail of the reset.            *)
Port == <<Put("spl", 0), Put("tx", 0), Put("spl", 0), Get("tx", 0),
          Maybe(1), Put("spl", 0), Put("tx", 0), Put("spl", 0), Put("tx", 0)>>

(* Ports 0 and 3, then 1 and 2, which are set up and reset before; then the *)
(* tail they share.                                                         *)
SplitterTxPorts ==
  SplitterTxPrepare \o <<Based, Mapped>> \o Port \o Port \o
  <<Put("tx", 0), Put("spl", 0)>> \o Port \o <<Put("tx", 0), Put("spl", 0)>> \o Port \o
  <<Put("spl", 0), Put("tx", 0), Put("spl", 0), Bank("spl", 1), Put("spl", 1),
    Bank("spl", 0), Put("spl", 0),
    Set("tx", 0, "tx1", "cold"), Set("tx", 0, "tx2", "cold"), Get("tx", 0),
    Zero("srx", "fail"), Zero("spl", "fail"), Get("srx", 0)>>

\* mutant: the bank of the receiving half is not checked first
SplitterLinkBlind ==
  SplitterIdentify \o
  <<Board, Based, Mapped, Get("srx", 0), Zero("srx", "fail"), Zero("spl", "fail")>>

SplitterLinkStatus ==
  SplitterIdentify \o
  <<Board, Based, Mapped, Zero("srx", "unsup"), Get("srx", 0),
    Zero("srx", "fail"), Zero("spl", "fail")>>

RaiseHotplug ==
  <<Bank("srx", 3), Set("srx", 3, "sab", "ca"), Bank("srx", 0),
    Set("srx", 0, "s26", "off"), Set("srx", 0, "s55", "on"), Get("srx", 0)>>

SplitterInputHpd ==
  SplitterLinkStatus \o
  <<Ask("srx", 0, "nopower"), Ask("tx", 0, "unsup"), Need("srx", "s26", {"on"}, "unsup"),
    Need("srx", "s55", {"off"}, "unsup"), Need("srx", "sddc", {"off"}, "unsup"),
    Put("spl", 0), Bank("srx", 0), Ask("srx", 0, "nolink")>> \o
  Visit("srx", <<3>>) \o
  <<Bank("srx", 0), Set("srx", 0, "s26", "off"), Put("spl", 0),
    Ask("srx", 0, "nolink")>> \o RaiseHotplug

SplitterEdidRead ==
  SplitterLinkStatus \o
  <<Need("srx", "sddc", {"off"}, "unsup"), Put("srx", 0), Get("srx", 0)>>

\* mutant: the EDID is switched while hot-plug is asserted
SplitterEdidEnableHot ==
  SplitterEdidRead \o
  <<Ask("srx", 0, "inval"), Ask("srx", 0, "unsup"), Need("srx", "s26", {"off"}, "unsup"),
    Need("srx", "s55", {"on"}, "unsup"), Put("srx", 0),
    Set("srx", 0, "sddc", "part"), Set("srx", 0, "sddc", "on"), Put("srx", 0),
    Ask("srx", 0, "nolink")>> \o RaiseHotplug

SplitterEdidEnable ==
  SplitterEdidRead \o
  <<Ask("srx", 0, "inval"), Ask("srx", 0, "unsup"), Need("srx", "s26", {"off"}, "unsup"),
    Need("srx", "s55", {"on"}, "unsup"), Bank("srx", 3), Get("srx", 3),
    Skip("srx", "sab", {"ca"}, 2), Bank("srx", 0), Leave("unsup"),
    Set("srx", 3, "sab", "other"), Bank("srx", 0),
    Set("srx", 0, "s26", "on"), Set("srx", 0, "s55", "off"), Put("srx", 0),
    Set("srx", 0, "sddc", "part"), Set("srx", 0, "sddc", "on"), Put("srx", 0),
    Ask("srx", 0, "nolink")>> \o RaiseHotplug

PortActivate(port) ==
  SplitterLinkStatus \o
  <<Ask("tx", 0, "nolink"), Need("srx", "s26", {"off"}, "unsup"),
    Need("srx", "s55", {"on"}, "unsup"), Need("srx", "sddc", {"on"}, "unsup"),
    Need("tx", port, {"cold"}, "unsup"), Put("spl", 0),
    Set("tx", 0, port, "part"), Set("tx", 0, port, "active"), Get("srx", 0)>>

(* Bits of 0x84 and 0x86.                                                   *)
Powered == {"active", "setup", "on"}

VideoValidate ==
  <<Bank("srx", 2), Get("srx", 2), Bank("srx", 0), Get("srx", 0),
    Ask("srx", 0, "unsup")>>

(* gc573_splitter_video_clock() with configure = 2 and no sink.             *)
SplitterVideoClock(port) ==
  SplitterLinkStatus \o
  <<Ask("tx", 0, "nolink"), Need("srx", "sddc", {"on"}, "nolink"), Get("spl", 0),
    Need("tx", port, Powered, "unsup"),
    Put("tx", 0), Get("tx", 0), Ask("srx", 0, "range"), Put("tx", 0)>> \o
  VideoValidate \o <<Set("tx", 0, port, "setup")>> \o VideoValidate \o
  <<Put("tx", 0), Ask("tx", 0, "nolink"), Set("tx", 0, port, "on")>>

(* gc573_splitter_passthrough(): no sink is no error, and an output that    *)
(* runs is kept.                                                            *)
SplitterPassthrough ==
  SplitterLinkStatus \o
  <<Maybe(1), Leave("ok"), Ask("tx", 0, "nolink"), Get("tx", 0),
    Skip("tx", "tx2", {"reset", "cold", "part", "active", "setup"}, 2), Maybe(1), Leave("ok"),
    Need("tx", "tx2", {"cold", "active", "setup", "on"}, "unsup"),
    Skip("tx", "tx2", Powered, Len(PortActivate("tx2")))>> \o
  PortActivate("tx2") \o SplitterVideoClock("tx2")
=============================================================================
