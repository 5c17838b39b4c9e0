----------------------------- MODULE Passthrough -----------------------------
(***************************************************************************)
(* HDMI OUT: the poll of driver/gc573_passthrough.c that reads the         *)
(* display's EDID, offers the source what both can do, and sets up the     *)
(* second transmitter for what the source sends, with the display channel  *)
(* of gc573_sink.c and the transmitter set-up of gc573_splitter_video.c.   *)
(* Each step is one stretch of register accesses; between two of them the  *)
(* source may change its mode or go, and the display be unplugged.         *)
(***************************************************************************)
EXTENDS Naturals, FiniteSets

CONSTANTS
  Pairs,       \* sets of modes [w, h, ht, vt, khz, vic, rgb] a source uses
  Monitors,    \* EDIDs [legacy, forum, scdc, vics, dtds]; clocks in kHz
  LinkPolls,   \* polls of a pending link before the set-up is repeated
  Changes      \* bound: changes of the source and of the display

ModeSet == [w : Nat, h : Nat, ht : Nat, vt : Nat, khz : Nat, vic : Nat, rgb : BOOLEAN]

ASSUME PassthroughAssumption ==
  /\ LinkPolls \in Nat \ {0} /\ Changes \in Nat
  /\ \A m \in Pairs : m \subseteq ModeSet

VARIABLES
  modes, monitor, scaled,  \* the source's, the display's, scaled_capture
  src, plugged, changes,   \* mode of the source, display present, their changes
  calm,      \* no more of them, and no failures
  p,         \* gc573_passthrough_state: phase, polls, error
  s,         \* its snapshots: previous, first half of the new; configured
  video,     \* its result of the set-up: waiting_link, restarts, polls, khz
  measured,  \* its result of measuring: complete, khz
  at,        \* the next step of the poll or of the restoration, "idle" outside
  op, ret,   \* transfer on the display channel and its result so far
  controls,  \* transmitter registers 0x28, 0x19, 0x1d: "saved" or "ours"
  bank,      \* of the splitter's receiving half
  tx,        \* TX2: state, clock it is set up for, link, output enabled
  edid,      \* sram and hpd, ddc towards the source; prior copy, written
  removed,   \* "no", "restoring", "gone", "failed"
  programs,  \* history: set-ups written since the last reason for a new one
  slipped    \* history: the source changed between the measurement for a
             \* set-up and the next one

env  == <<modes, monitor, scaled>>
world == <<src, plugged, changes, calm, slipped>>
chan == <<op, ret, controls>>
hw   == <<bank, tx>>
vars == <<env, world, p, s, video, measured, at, chan, hw, edid, removed, programs>>

NoMode  == [w |-> 0, h |-> 0, ht |-> 0, vt |-> 0, khz |-> 0, vic |-> 0, rgb |-> TRUE]
NoVideo == [waiting |-> FALSE, restarts |-> 0, polls |-> 0, khz |-> 0]
Lo(m)   == <<m.w, m.ht>>
Hi(m)   == <<m.h, m.vt, m.rgb>>
Shot(m) == <<Lo(m), Hi(m)>>

Lesser(a, b) == IF a < b THEN a ELSE b
-----------------------------------------------------------------------------
(* What the filtered EDID promises, build_edid().                           *)
MaxClock ==
  LET most == Lesser(IF monitor.forum # 0 THEN monitor.forum ELSE monitor.legacy, 600000)
  IN  IF monitor.scdc THEN most ELSE Lesser(most, 340000)

(* Frames of a mode per 1000 seconds.                                       *)
Rate(m, khz) == (khz * 1000) \div ((m.ht * m.vt) \div 1000)

DtdLimit(m) ==
  IF scaled
  THEN IF m.w > 2560 \/ m.h > 1440 THEN 0 ELSE IF m.w = 1280 THEN 60 ELSE 120
  ELSE CASE <<m.w, m.h>> = <<1280, 720>>  -> 120 [] <<m.w, m.h>> = <<1920, 1080>> -> 240
         [] <<m.w, m.h>> = <<2560, 1440>> -> 144 [] <<m.w, m.h>> = <<3840, 2160>> -> 60
         [] OTHER -> 0

DtdAllowed(m) == m.khz <= MaxClock /\ Rate(m, m.khz) <= DtdLimit(m) * 1000 + 100

VicAllowed(m) ==
  m.khz <= MaxClock /\ (scaled => m.vic \in {4, 16, 19, 31, 32, 33, 34, 63, 64})

Advertised == {m \in monitor.vics : VicAllowed(m)} \cup {m \in monitor.dtds : DtdAllowed(m)}

EdidUsable == monitor.legacy # 0 /\ \E m \in monitor.dtds : DtdAllowed(m)

(* video_validate(): the format that is there now, at the measured clock.   *)
Limit(m) ==
  CASE <<m.w, m.h>> \in {<<640, 480>>, <<720, 480>>, <<720, 576>>} -> 60
    [] <<m.w, m.h>> = <<1280, 720>>  -> 120 [] <<m.w, m.h>> = <<1920, 1080>> -> 240
    [] <<m.w, m.h>> = <<2560, 1440>> -> 144 [] <<m.w, m.h>> = <<3840, 2160>> -> 60
    [] OTHER -> 0

Accepted(m, khz) ==
  /\ m # NoMode /\ m.rgb
  /\ khz <= MaxClock /\ (khz > 340000 => monitor.scdc)
  /\ Rate(m, khz) <= Limit(m) * 1010

SameRate(a, b) ==
  /\ a >= (b * 9) \div 10 /\ a <= (b * 11) \div 10
  /\ (a > 340000) = (b > 340000)
-----------------------------------------------------------------------------
Init ==
  /\ modes \in Pairs /\ monitor \in Monitors /\ scaled \in BOOLEAN
  /\ src = NoMode /\ plugged = FALSE /\ changes = 0 /\ calm = FALSE
  /\ p = [phase |-> 0, polls |-> 0, error |-> FALSE]
  /\ s = [prev |-> Shot(NoMode), lo |-> Lo(NoMode), configured |-> FALSE]
  /\ video = NoVideo /\ measured = [complete |-> FALSE, khz |-> 0]
  /\ at = "idle" /\ op = "none" /\ ret = "ok" /\ controls = "saved" /\ bank = 0
  /\ tx = [state |-> "cold", khz |-> 0, link |-> "late", on |-> FALSE]
  /\ edid \in {[sram |-> "orig", hpd |-> h, ddc |-> h, prior |-> "none", written |-> FALSE] :
                 h \in BOOLEAN}
  /\ removed = "no" /\ programs = 0 /\ slipped = FALSE

(* External, as long as it matters.                                         *)
Active == ~calm /\ changes < Changes /\ removed \in {"no", "restoring"} /\ (p.error => removed # "no")

Unmeasured == at \in {"validate", "program", "recheck", "output", "finish", "revalidate", "refinish"} \/ op = "ratio"
              \/ (s.configured /\ ~measured.complete)

SourceChange ==
  /\ Active /\ src' \in (modes \cup {NoMode}) \ {src}
  /\ slipped' = (slipped \/ Unmeasured) /\ changes' = changes + 1
  /\ UNCHANGED <<env, plugged, calm, p, s, video, measured, at, chan, hw, edid, removed, programs>>

DisplayChange ==
  /\ Active /\ plugged' = ~plugged /\ changes' = changes + 1
  /\ UNCHANGED <<env, src, calm, slipped, p, s, video, measured, at, chan, hw, edid, removed, programs>>

(* The link of a transmitter comes up late, or never without a new set-up.  *)
LinkComes ==
  /\ tx.link = "late" /\ tx.state = "set"
  /\ tx' = [tx EXCEPT !.link = "up"]
  /\ UNCHANGED <<env, world, p, s, video, measured, at, chan, bank, edid, removed, programs>>

Settle ==
  /\ ~calm /\ src # NoMode /\ plugged /\ removed = "no"
  /\ calm' = TRUE
  /\ UNCHANGED <<env, src, plugged, changes, slipped, p, s, video, measured, at, chan, hw, edid, removed, programs>>

Locked == src # NoMode /\ plugged
-----------------------------------------------------------------------------
(* The poll, or the restoration, ends.                                      *)
End(r) ==
  /\ at' = "idle"
  /\ IF removed = "restoring"
     THEN removed' = (IF r = "ok" THEN "gone" ELSE "failed") /\ UNCHANGED p
     ELSE /\ p' = [p EXCEPT !.error = (r = "fail"),
                            !.phase = IF r = "ok" /\ @ < 3 THEN @ + 1 ELSE @]
          /\ UNCHANGED removed

Go(step) == at' = step /\ UNCHANGED <<p, removed>>

Fail == ~calm /\ End("fail")

(* polls, of which only every fourth matters, and only to a set-up output.  *)
Poll ==
  /\ at = "idle" /\ removed = "no" /\ ~p.error
  /\ p' = [p EXCEPT !.polls = IF scaled /\ s.configured THEN (@ + 1) % 4 ELSE 0]
  /\ at' = <<"open", "power", "low", "status">>[p.phase + 1]
  /\ op' = IF p.phase = 0 THEN "edid" ELSE "none"
  /\ UNCHANGED <<env, world, s, video, measured, ret, controls, hw, edid, removed, programs>>
-----------------------------------------------------------------------------
(* gc573_sink.c: a transfer on the display channel.  op is "edid", "status" *)
(* (reads), "ratio" or "leave" (they write the TMDS configuration).         *)
\* mutant: a display that failed during a set-up counts as one to wait for
TransferReturnsLax(r) ==
  /\ op' = "none" /\ ret' = "ok"
  /\ CASE r = "ok" /\ op = "edid"   -> End(IF EdidUsable THEN "ok" ELSE "fail")
       [] r = "ok" /\ op = "ratio"  -> Go("finish")
       [] r = "ok" /\ op \in {"status", "leave"} -> End("ok")
       [] r = "absent" /\ op = "edid" -> End("again")
       [] r \in {"absent", "nack"} /\ op \in {"status", "ratio"} -> End("again")
       [] OTHER -> End("fail")

(* What the caller makes of the result: a display that is not there, or     *)
(* whose answer failed and was cleaned up, only spoils a read.              *)
TransferReturns(r) ==
  /\ op' = "none" /\ ret' = "ok"
  /\ CASE r = "ok" /\ op = "edid"   -> End(IF EdidUsable THEN "ok" ELSE "fail")
       [] r = "ok" /\ op = "ratio"  -> Go("finish")
       [] r = "ok" /\ op \in {"status", "leave"} -> End("ok")
       [] r = "absent" /\ op = "edid" -> End("again")
       [] r \in {"absent", "nack"} /\ op = "status" -> End("ok")
       [] OTHER -> End("fail")

TransferOpen ==
  /\ at = "open"
  /\ \/ ~plugged /\ TransferReturns("absent") /\ UNCHANGED controls
     \/ plugged /\ controls' = "ours" /\ Go("transfer") /\ UNCHANGED <<op, ret>>
     \/ ~calm /\ controls' \in {controls, "ours"} /\ TransferReturns("bus")
  /\ UNCHANGED <<env, world, s, video, measured, hw, edid, programs>>

(* The commands, the wait for the display, the data.                        *)
Transfer ==
  /\ at = "transfer"
  /\ \/ plugged /\ Go("close") /\ UNCHANGED <<op, ret>>
     \/ ~plugged /\ op = "edid" /\ ret' = "gone" /\ Go("close") /\ UNCHANGED op
     \/ (~plugged \/ ~calm) /\ ret' = "nack" /\ Go("abort") /\ UNCHANGED op
     \/ ~calm /\ TransferReturns("bus")
  /\ UNCHANGED <<env, world, s, video, measured, controls, hw, edid, programs>>

TransferAbort ==
  /\ at = "abort"
  /\ \/ Go("close") /\ UNCHANGED <<op, ret>>
     \/ ~calm /\ TransferReturns("bus")
  /\ UNCHANGED <<env, world, s, video, measured, controls, hw, edid, programs>>

TransferClose ==
  /\ at = "close"
  /\ \/ controls' = "saved" /\ TransferReturns(ret)
     \/ ~calm /\ TransferReturns("bus") /\ UNCHANGED controls
  /\ UNCHANGED <<env, world, s, video, measured, hw, edid, programs>>
-----------------------------------------------------------------------------
(* Phase 1: the source has power; its hot-plug is asserted if it is not.    *)
Power ==
  /\ at = "power"
  /\ \/ src = NoMode /\ End("again") /\ UNCHANGED edid
     \/ /\ src # NoMode
        /\ IF edid.hpd = edid.ddc
           THEN End("ok") /\ edid' = [edid EXCEPT !.hpd = TRUE]
           ELSE End("fail") /\ UNCHANGED edid
     \/ Fail /\ edid' \in {edid, [edid EXCEPT !.hpd = TRUE]}
  /\ UNCHANGED <<env, world, s, video, measured, chan, hw, programs>>

(* gc573_passthrough_program_edid(), for the filtered EDID and on removal   *)
(* for the one that was there.                                              *)
\* mutant: on removal the EDID is exchanged under an asserted hot-plug
EdidLowOnce ==
  /\ at = "low"
  /\ \/ /\ edid' = IF removed = "restoring" THEN edid
                   ELSE [edid EXCEPT !.hpd = FALSE, !.ddc = FALSE]
        /\ bank' = 0 /\ Go("prior")
     \/ Fail /\ UNCHANGED <<edid, bank>>
  /\ UNCHANGED <<env, world, s, video, measured, chan, tx, programs>>

EdidLow ==
  /\ at = "low"
  /\ \/ edid' = [edid EXCEPT !.hpd = FALSE, !.ddc = FALSE] /\ bank' = 0 /\ Go("prior")
     \/ Fail /\ edid' \in {edid, [edid EXCEPT !.hpd = FALSE]} /\ bank' \in {0, 3}
  /\ UNCHANGED <<env, world, s, video, measured, chan, tx, programs>>

\* mutant: the copy is taken again before the restoration
EdidPriorAgain ==
  /\ at = "prior"
  /\ edid' = [edid EXCEPT !.prior = edid.sram] /\ Go("write")
  /\ UNCHANGED <<env, world, s, video, measured, chan, hw, programs>>

EdidPrior ==
  /\ at = "prior"
  /\ \/ Go("write") /\ edid' = IF edid.prior # "none" THEN edid
                               ELSE [edid EXCEPT !.prior = edid.sram]
     \/ Fail /\ UNCHANGED edid
  /\ UNCHANGED <<env, world, s, video, measured, chan, hw, programs>>

(* The bytes up to some point.  Only a first write that succeeds is noted;  *)
(* one that fails may still have been done, but the first byte of every     *)
(* EDID is 0x00, so that nothing has changed then.                          *)
EdidWrite ==
  /\ at = "write"
  /\ \/ edid' = [edid EXCEPT !.sram = "part", !.written = TRUE] /\ (Go("verify") \/ Fail)
     \/ Fail /\ UNCHANGED edid
  /\ UNCHANGED <<env, world, s, video, measured, chan, hw, programs>>

(* The rest of the bytes, the comparison, the checksums, the channel.       *)
EdidVerify ==
  /\ at = "verify"
  /\ LET whole == [edid EXCEPT !.sram = IF removed = "restoring" THEN edid.prior ELSE "ours"]
     IN \/ edid' = [whole EXCEPT !.ddc = TRUE] /\ (Go("high") \/ Fail)
        \/ Fail /\ edid' \in {edid, whole}
  /\ UNCHANGED <<env, world, s, video, measured, chan, hw, programs>>

(* On removal the display leaves the high TMDS ratio.                       *)
EdidHigh ==
  /\ at = "high"
  /\ \/ /\ edid' = [edid EXCEPT !.hpd = TRUE] /\ bank' = 0
        /\ IF removed = "restoring" /\ monitor.scdc
           THEN Go("open") /\ op' = "leave" /\ UNCHANGED ret
           ELSE End("ok") /\ UNCHANGED <<op, ret>>
     \/ Fail /\ edid' \in {edid, [edid EXCEPT !.hpd = TRUE]} /\ bank' \in {0, 3} /\ UNCHANGED <<op, ret>>
  /\ UNCHANGED <<env, world, s, video, measured, controls, tx, programs>>
-----------------------------------------------------------------------------
(* Phase 3, snapshot().                                                     *)
Forget == /\ video' = [video EXCEPT !.waiting = FALSE]
          /\ measured' = [measured EXCEPT !.complete = FALSE]
          /\ programs' = 0

Status ==
  /\ at = "status"
  /\ \/ Locked /\ Go("first") /\ UNCHANGED <<s, video, measured, programs>>
     \/ ~Locked /\ s' = [s EXCEPT !.configured = FALSE] /\ Forget /\ End("again")
     \/ Fail /\ UNCHANGED <<s, video, measured, programs>>
  /\ UNCHANGED <<env, world, chan, hw, edid>>

First ==
  /\ at = "first"
  /\ \/ s' = [s EXCEPT !.lo = Lo(src)] /\ Go("second")
     \/ Fail /\ UNCHANGED s
  /\ UNCHANGED <<env, world, video, measured, chan, hw, edid, programs>>

(* The other half, the colour format from bank 2, and the comparison.       *)
Second ==
  /\ at = "second"
  /\ \/ LET new == <<s.lo, Hi(src)>> IN
        /\ s' = [prev |-> new, lo |-> Lo(NoMode), configured |-> s.configured /\ new = s.prev]
        /\ IF new # s.prev
           THEN /\ Forget /\ End("again")
           ELSE /\ UNCHANGED <<video, measured, programs>>
                /\ IF 0 \in {new[1][1], new[2][1]} THEN End("again")
                   ELSE CASE ~s.configured /\ ~new[2][3] ->
                               End(IF scaled THEN "again" ELSE "fail")
                          [] ~s.configured /\ new[2][3] -> Go("tx")
                          [] s.configured ->
                               IF ~measured.complete \/ (scaled /\ p.polls = 0)
                               THEN Go("measure") ELSE End("ok")
        /\ UNCHANGED bank
     \/ Fail /\ bank' \in {0, 2} /\ UNCHANGED <<s, video, measured, programs>>
  /\ UNCHANGED <<env, world, chan, tx, edid>>

\* mutant: a clock that changed under the same timing is only recorded
MeasureRecords ==
  /\ at = "measure" /\ Locked
  /\ measured' = [complete |-> TRUE, khz |-> src.khz]
  /\ IF monitor.scdc THEN Go("open") /\ op' = "status" /\ UNCHANGED ret
                     ELSE End("ok") /\ UNCHANGED <<op, ret>>
  /\ UNCHANGED <<env, world, s, video, controls, hw, edid, programs>>

(* A set-up output is measured once, in the scaled mode at every fourth     *)
(* poll, and compared with the measurement before.                          *)
Measure ==
  /\ at = "measure"
  /\ \/ /\ ~Locked /\ measured' = [complete |-> FALSE, khz |-> 0]
        /\ s' = [s EXCEPT !.configured = FALSE] /\ programs' = 0
        /\ End("again") /\ UNCHANGED <<op, ret>>
     \/ /\ Locked /\ measured' = [complete |-> TRUE, khz |-> src.khz]
        /\ IF scaled /\ measured.khz # 0
              /\ (src.khz > (measured.khz * 11) \div 10 \/ src.khz < (measured.khz * 9) \div 10)
           THEN /\ s' = [s EXCEPT !.configured = FALSE] /\ programs' = 0
                /\ End("again") /\ UNCHANGED <<op, ret>>
           ELSE /\ UNCHANGED <<s, programs>>
                /\ IF monitor.scdc THEN Go("open") /\ op' = "status" /\ UNCHANGED ret
                                   ELSE End("ok") /\ UNCHANGED <<op, ret>>
     \/ Fail /\ UNCHANGED <<measured, s, op, ret, programs>>
  /\ UNCHANGED <<env, world, video, controls, hw, edid>>

(* The transmitter is activated the first time.                             *)
Activate ==
  /\ at = "tx"
  /\ \/ /\ tx.state # "part" /\ (tx.state = "cold" => Locked)
        /\ tx' = [tx EXCEPT !.state = IF @ = "cold" THEN "active" ELSE @]
        /\ Go(IF video.waiting THEN "resume" ELSE "setup")
     \/ ~(tx.state # "part" /\ (tx.state = "cold" => Locked)) /\ End("fail") /\ UNCHANGED tx
     \/ Fail /\ tx' \in {tx, [tx EXCEPT !.state = IF @ = "cold" THEN "part" ELSE @]}
  /\ UNCHANGED <<env, world, s, video, measured, chan, bank, edid, programs>>
-----------------------------------------------------------------------------
(* video_clock(): link, clock, validation, set-up, link.                    *)
\* mutant: the restart is noted before the set-up clears the result
SetupForgets ==
  /\ at \in {"setup", "restart"}
  /\ \/ /\ Locked /\ video' = [NoVideo EXCEPT !.khz = src.khz] /\ Go("validate")
        /\ slipped' = FALSE /\ UNCHANGED programs
     \/ /\ ~Locked /\ video' = NoVideo /\ End("again")
        /\ programs' = 0 /\ UNCHANGED slipped
     \/ Fail /\ UNCHANGED <<video, programs, slipped>>
  /\ UNCHANGED <<env, src, plugged, changes, calm, s, measured, chan, hw, edid>>

(* The result is cleared, and a restart noted in it afterwards.             *)
Setup ==
  /\ at \in {"setup", "restart"}
  /\ LET fresh == IF at = "setup" THEN NoVideo
                  ELSE [waiting |-> FALSE, restarts |-> 1, polls |-> LinkPolls, khz |-> 0] IN
     \/ /\ Locked /\ video' = [fresh EXCEPT !.khz = src.khz] /\ Go("validate")
        /\ slipped' = FALSE /\ UNCHANGED programs
     \/ /\ ~Locked /\ video' = fresh /\ End("again")
        /\ programs' = 0 /\ UNCHANGED slipped
     \/ Fail /\ video' = fresh /\ UNCHANGED <<programs, slipped>>
  /\ UNCHANGED <<env, src, plugged, changes, calm, s, measured, chan, hw, edid>>

(* The format is checked before the transmitter is reset, again before its  *)
(* output is written, and on resuming, by reads only.  One that is not      *)
(* supported is waited for in the scaled mode; found at the second check it *)
(* leaves the transmitter reset and programmed, without an output.          *)
Validate ==
  /\ at \in {"validate", "recheck", "revalidate"}
  /\ \/ /\ Accepted(src, video.khz) /\ UNCHANGED <<bank, programs>>
        /\ Go(CASE at = "validate" -> "program" [] at = "recheck" -> "output"
                [] OTHER -> "refinish")
     \/ /\ ~Accepted(src, video.khz) /\ programs' = 0 /\ UNCHANGED bank
        /\ End(IF scaled THEN "again" ELSE "fail")
     \/ Fail /\ bank' \in {0, 2} /\ UNCHANGED programs
  /\ UNCHANGED <<env, world, s, video, measured, chan, tx, edid>>

(* The reset, and the clock and analog part.                                *)
Program ==
  /\ at = "program"
  /\ \E state \in {"prepared", "part"} :
       /\ tx' = [state |-> state, khz |-> video.khz, link |-> "late", on |-> FALSE]
       /\ IF state = "prepared" THEN Go("recheck") ELSE Fail
  /\ programs' = programs + 1
  /\ UNCHANGED <<env, world, s, video, measured, chan, bank, edid>>

(* The output, and the TMDS ratio at the display.  Any set-up, the repeated *)
(* one too, can leave the link down for good.                               *)
Output ==
  /\ at = "output"
  /\ \E l \in {"up", "late", "stuck"} : tx' = [tx EXCEPT !.state = "part", !.link = l]
  /\ \/ IF monitor.scdc THEN Go("open") /\ op' = "ratio" /\ UNCHANGED ret
                        ELSE Go("finish") /\ UNCHANGED <<op, ret>>
     \/ Fail /\ UNCHANGED <<op, ret>>
  /\ UNCHANGED <<env, world, s, video, measured, controls, bank, edid, programs>>

(* The link is up: the output is enabled.  Else the set-up is complete but  *)
(* pending; after enough polls it is repeated, once.                        *)
Finish ==
  /\ at \in {"finish", "refinish"}
  /\ \/ /\ Locked /\ tx.link = "up" /\ tx.khz = src.khz
        /\ tx' = [tx EXCEPT !.state = "set", !.on = TRUE]
        /\ video' = [video EXCEPT !.waiting = FALSE]
        /\ s' = [s EXCEPT !.configured = TRUE] /\ End("ok")
     \/ /\ ~(Locked /\ tx.link = "up" /\ tx.khz = src.khz)
        /\ tx' = [tx EXCEPT !.state = "set"]
        /\ LET n == IF at = "refinish" /\ video.restarts = 0 THEN video.polls + 1 ELSE video.polls
           IN  /\ video' = [video EXCEPT !.waiting = TRUE, !.polls = n]
               /\ IF n # video.polls /\ n >= LinkPolls THEN Go("restart") ELSE End("again")
        /\ UNCHANGED s
     \/ Fail /\ UNCHANGED <<tx, video, s>>
  /\ UNCHANGED <<env, world, measured, chan, bank, edid, programs>>

(* gc573_splitter_video_resume(): the clock is measured again first.        *)
Resume ==
  /\ at = "resume"
  /\ \/ ~Locked /\ End("again") /\ UNCHANGED <<video, programs, slipped>>
     \/ /\ Locked
        /\ IF SameRate(src.khz, video.khz)
           THEN /\ video' = [video EXCEPT !.waiting = FALSE, !.khz = src.khz]
                /\ slipped' = FALSE /\ Go("revalidate") /\ UNCHANGED programs
           ELSE /\ video' = [video EXCEPT !.waiting = FALSE]
                /\ programs' = 0 /\ End("again") /\ UNCHANGED slipped
     \/ Fail /\ video' = [video EXCEPT !.waiting = FALSE] /\ UNCHANGED <<programs, slipped>>
  /\ UNCHANGED <<env, src, plugged, changes, calm, s, measured, chan, hw, edid>>
-----------------------------------------------------------------------------
(* gc573_remove(), the work being cancelled: gc573_passthrough_restore().   *)
Remove ==
  /\ at = "idle" /\ removed = "no" /\ ~calm
  /\ \/ /\ ~(edid.prior # "none" /\ edid.written)
        /\ removed' = "gone" /\ UNCHANGED at
     \/ /\ edid.prior # "none" /\ edid.written
        /\ \/ removed' = "restoring" /\ at' = "low"
           \/ p.error /\ removed' = "failed" /\ UNCHANGED at
  /\ UNCHANGED <<env, world, p, s, video, measured, chan, hw, edid, programs>>

Step ==
  \/ Poll \/ TransferOpen \/ Transfer \/ TransferAbort \/ TransferClose \/ Power
  \/ EdidLow \/ EdidPrior \/ EdidWrite \/ EdidVerify \/ EdidHigh
  \/ Status \/ First \/ Second \/ Measure \/ Activate
  \/ Setup \/ Validate \/ Program \/ Output \/ Finish \/ Resume
Next == Step \/ SourceChange \/ DisplayChange \/ LinkComes \/ Settle \/ Remove

Spec     == Init /\ [][Next]_vars
FairSpec == Spec /\ WF_vars(Step) /\ WF_vars(LinkComes)
-----------------------------------------------------------------------------
PollSet  == [phase : 0 .. 3, polls : 0 .. 3, error : BOOLEAN]
LowHalf  == Nat \X Nat
HighHalf == Nat \X Nat \X BOOLEAN
SnapSet  == [prev : LowHalf \X HighHalf, lo : LowHalf, configured : BOOLEAN]
VideoSet == [waiting : BOOLEAN, restarts : 0 .. 1, polls : Nat, khz : Nat]
MeasuredSet == [complete : BOOLEAN, khz : Nat]
TxSet    == [state : {"cold", "active", "part", "prepared", "set"}, khz : Nat,
             link : {"late", "up", "stuck"}, on : BOOLEAN]
EdidSet  == [sram : {"orig", "part", "ours"}, hpd : BOOLEAN, ddc : BOOLEAN,
             prior : {"none", "orig"}, written : BOOLEAN]
Channel  == {"open", "transfer", "abort", "close"}
Places   ==
  Channel \cup {"idle", "power", "low", "prior", "write", "verify", "high", "status",
               "first", "second", "measure", "tx", "setup", "validate", "program",
               "recheck", "output", "finish", "resume", "revalidate", "refinish", "restart"}

(* Every variable of the poll keeps its type.                               *)
TypeOK ==
  /\ src \in ModeSet /\ modes \subseteq ModeSet
  /\ scaled \in BOOLEAN /\ plugged \in BOOLEAN /\ calm \in BOOLEAN
  /\ slipped \in BOOLEAN /\ changes \in Nat
  /\ p \in PollSet /\ s \in SnapSet /\ video \in VideoSet
  /\ measured \in MeasuredSet
  /\ at \in Places /\ op \in {"none", "edid", "status", "ratio", "leave"}
  /\ ret \in {"ok", "gone", "nack"} /\ controls \in {"saved", "ours"} /\ bank \in {0, 2, 3}
  /\ tx \in TxSet /\ edid \in EdidSet
  /\ removed \in {"no", "restoring", "gone", "failed"} /\ programs \in Nat

(* A poll that postpones its work, or gives up only the display's status,   *)
(* left no display control, bank or EDID half-written, and no transmitter   *)
(* with half of its reset, analog part or output.  One whose format was     *)
(* refused after the analog part has no output, and is neither taken for    *)
(* configured nor resumed as if its link were pending: the whole set-up is  *)
(* written again.                                                           *)
StopsWhenTorn ==
  at = "idle" /\ removed = "no" /\ ~p.error =>
    /\ controls = "saved" /\ bank = 0 /\ tx.state # "part" /\ edid.sram # "part"
    /\ tx.state = "prepared" => ~tx.on /\ ~video.waiting /\ ~s.configured

(* Without a new reason a set-up is written at most twice.                  *)
RestartOnce == programs <= 2

(* The source never sees hot-plug over an EDID that is half written.        *)
SourceSeesWholeEdid == edid.hpd /\ edid.ddc => edid.sram # "part"

(* Removal that reports success leaves the EDID that was there before.      *)
EdidComesBack == removed = "gone" => edid.sram = "orig"

(* The set-up for what the source sends was repeated, its link stays down,  *)
(* and that is visible as a wait.                                           *)
Shown == s.configured /\ s.prev = Shot(src) /\ tx.on
GivenUp ==
  /\ s.prev = Shot(src) /\ SameRate(tx.khz, src.khz)
  /\ tx.state = "set" /\ tx.link = "stuck" /\ video.restarts = 1
  /\ at = "idle" => video.waiting

(* With a source that stays in a mode it was offered, and no more failures, *)
(* the output shows that mode and no torn or outdated one, for good, or an  *)
(* error is reported, or a second stalled attempt "stays visible as a       *)
(* wait".  Without scaled_capture the clock alone is not watched, and a     *)
(* clock that changed right after a set-up is not either (ClockIsNoticed).  *)
StableIsShown ==
  <>[](calm /\ src \in Advertised =>
         \/ p.error \/ GivenUp
         \/ Shown /\ (scaled /\ ~slipped => SameRate(tx.khz, src.khz)))

(* "Some 60/120 Hz timings share identical totals. Detect their clock       *)
(* change even when the timing-register snapshot is equal."                 *)
ClockIsNoticed ==
  <>[](calm /\ scaled /\ src \in Advertised =>
         p.error \/ GivenUp \/ (Shown /\ SameRate(tx.khz, src.khz)))
=============================================================================
