--------------------------- MODULE PassthroughProofs ---------------------------
(***************************************************************************)
(* Proofs about Passthrough for every set of modes and displays, every     *)
(* number of changes and of polls before a restart.                        *)
(***************************************************************************)
EXTENDS Passthrough, TLAPS

(* The EDID memory towards the source: while it is exchanged the channel is *)
(* disabled, and the copy of the earlier one is taken before the first      *)
(* byte is written.                                                         *)
EdidInv ==
  /\ edid.sram = "part" \/ at \in {"prior", "write", "verify"} => ~edid.ddc
  /\ at \in {"write", "verify", "high"} \/ edid.sram # "orig" => edid.prior = "orig"
  /\ at = "verify" \/ edid.sram # "orig" => edid.written

(* The restoration passes through the exchange and then leaves the display, *)
(* with the EDID in place.                                                  *)
RestoreInv ==
  /\ removed \in {"gone", "failed"} => at = "idle"
  /\ removed = "restoring" => at \in {"low", "prior", "write", "verify", "high"} \cup Channel
  /\ removed = "restoring" /\ at \in Channel => op = "leave"
  /\ removed = "restoring" /\ at \in {"high"} \cup Channel => edid.sram = "orig"
  /\ removed = "gone" => edid.sram = "orig"

(* What may be half-written at which place of a poll; an error ends it.     *)
TornInv ==
  /\ at \in Channel <=> op # "none"
  /\ removed = "no" /\ p.error => at = "idle"
  /\ removed = "no" /\ ~p.error =>
       /\ controls = "ours" => at \in Channel \ {"open"}
       /\ bank = 0
       /\ tx.state = "part" => at = "finish" \/ op = "ratio"
       /\ edid.sram = "part" => at = "verify"

(* A set-up is written once for a reason, and once more for the restart     *)
(* that its result remembers.                                               *)
FirstTime == {"setup", "validate", "program", "restart"}
Written   == {"recheck", "output", "finish", "revalidate", "refinish"}

RestartInv ==
  /\ programs <= 2
  /\ removed = "no" /\ ~p.error =>
       /\ s.configured =>
            ~video.waiting /\ op # "ratio" /\ at \notin FirstTime \cup Written \cup {"tx", "resume"}
       /\ at = "resume" => video.waiting
       /\ at = "setup" => programs = 0
       /\ at = "restart" => programs <= 1
       /\ at \in {"validate", "program"} => programs <= video.restarts
       /\ at \in Written \/ op = "ratio" \/ video.waiting => programs <= video.restarts + 1
       /\ ~s.configured /\ ~video.waiting /\ at \notin FirstTime \cup Written /\ op # "ratio" =>
            programs = 0

(* Only a transmitter with a whole set-up is configured, waited for or      *)
(* resumed; one that is prepared has no output yet.                         *)
SetupInv ==
  removed = "no" /\ ~p.error =>
    /\ s.configured \/ video.waiting \/ at \in {"resume", "revalidate", "refinish"} =>
         tx.state = "set"
    /\ at \in {"validate", "program", "recheck", "output"} => ~video.waiting
    /\ tx.state = "prepared" => ~tx.on

PassthroughInv == TypeOK /\ EdidInv /\ RestoreInv /\ TornInv /\ RestartInv /\ SetupInv

(* Writing fields of the EDID keeps its type.                               *)
LEMMA EdidUpdates ==
  ASSUME NEW e \in EdidSet
  PROVE  /\ \A b, c \in BOOLEAN : [e EXCEPT !.hpd = b, !.ddc = c] \in EdidSet
         /\ \A b \in BOOLEAN : [e EXCEPT !.hpd = b] \in EdidSet /\ [e EXCEPT !.ddc = b] \in EdidSet
         /\ \A v \in {"orig", "part", "ours"} :
              /\ [e EXCEPT !.sram = v] \in EdidSet
              /\ [e EXCEPT !.sram = v, !.written = TRUE] \in EdidSet
         /\ \A v \in {"none", "orig"} : [e EXCEPT !.prior = v] \in EdidSet
  BY DEF EdidSet

(* Writing fields of the set-up result keeps its type.                      *)
LEMMA VideoUpdates ==
  ASSUME NEW v \in VideoSet
  PROVE  /\ \A b \in BOOLEAN : [v EXCEPT !.waiting = b] \in VideoSet
         /\ \A k \in Nat : [v EXCEPT !.khz = k] \in VideoSet
         /\ \A b \in BOOLEAN, k \in Nat : [v EXCEPT !.waiting = b, !.khz = k] \in VideoSet
         /\ \A b \in BOOLEAN, k \in Nat : [v EXCEPT !.waiting = b, !.polls = k] \in VideoSet
  BY DEF VideoSet

(* The results a set-up starts with.                                        *)
LEMMA VideoStarts ==
  /\ NoVideo \in VideoSet
  /\ \A k \in Nat : [waiting |-> FALSE, restarts |-> 1, polls |-> k, khz |-> 0] \in VideoSet
  BY DEF VideoSet, NoVideo

(* Dropping a measurement keeps its type.                                   *)
LEMMA MeasuredUpdates ==
  ASSUME NEW m \in MeasuredSet
  PROVE  [m EXCEPT !.complete = FALSE] \in MeasuredSet
  BY DEF MeasuredSet

(* Writing fields of the snapshots keeps their type.                        *)
LEMMA SnapUpdates ==
  ASSUME NEW t \in SnapSet
  PROVE  /\ \A b \in BOOLEAN : [t EXCEPT !.configured = b] \in SnapSet
         /\ \A l \in LowHalf : [t EXCEPT !.lo = l] \in SnapSet
         /\ \A l \in LowHalf, m \in LowHalf, h \in HighHalf, b \in BOOLEAN :
              [prev |-> <<l, h>>, lo |-> m, configured |-> b] \in SnapSet
  BY DEF SnapSet

(* Writing fields of the transmitter keeps its type.                        *)
LEMMA TxUpdates ==
  ASSUME NEW t \in TxSet
  PROVE  /\ \A v \in {"cold", "active", "part", "prepared", "set"} :
              [t EXCEPT !.state = v] \in TxSet /\ [t EXCEPT !.state = v, !.on = TRUE] \in TxSet
         /\ \A v \in {"cold", "active", "part", "prepared", "set"}, l \in {"late", "up", "stuck"} :
              [t EXCEPT !.state = v, !.link = l] \in TxSet
         /\ \A v \in {"cold", "active", "part", "prepared", "set"}, l \in {"late", "up", "stuck"},
               k \in Nat, b \in BOOLEAN :
              [state |-> v, khz |-> k, link |-> l, on |-> b] \in TxSet
  BY DEF TxSet

(* The halves of a mode are typed, also those of no mode.                   *)
LEMMA ModeHalves ==
  ASSUME NEW m \in ModeSet
  PROVE  NoMode \in ModeSet /\ Lo(m) \in LowHalf /\ Hi(m) \in HighHalf /\ m.khz \in Nat
  BY DEF ModeSet, NoMode, Lo, Hi, LowHalf, HighHalf

(* How a poll ends: with the error noted, or none.                          *)
Ended(r) ==
  /\ at' = "idle" /\ p' \in PollSet /\ removed' \in {"no", "restoring", "gone", "failed"}
  /\ removed = "no" => removed' = "no" /\ (p'.error <=> r = "fail")
  /\ removed # "no" => removed' # "no"

(* End has that effect.                                                     *)
LEMMA EndEffect ==
  ASSUME TypeOK, NEW r, End(r)
  PROVE  Ended(r)
<1>1. CASE removed = "restoring"
  BY <1>1 DEF TypeOK, PollSet, End, Ended
<1>2. CASE removed # "restoring"
  <2> DEFINE n == IF r = "ok" /\ p.phase < 3 THEN p.phase + 1 ELSE p.phase
  <2>1. n \in 0 .. 3
    BY SMT DEF TypeOK, PollSet
  <2>2. p' = [p EXCEPT !.error = (r = "fail"), !.phase = n] /\ at' = "idle" /\ removed' = removed
    BY <1>2 DEF End
  <2> HIDE DEF n
  <2>3. CASE r = "fail"
    <3>1. p' = [p EXCEPT !.error = TRUE, !.phase = n]
      BY <2>2, <2>3, Zenon
    <3> QED BY <2>1, <2>2, <2>3, <3>1, <1>2 DEF TypeOK, PollSet, Ended
  <2>4. CASE r # "fail"
    <3>1. p' = [p EXCEPT !.error = FALSE, !.phase = n]
      BY <2>2, <2>4, Zenon
    <3> QED BY <2>1, <2>2, <2>4, <3>1, <1>2 DEF TypeOK, PollSet, Ended
  <2> QED BY <2>3, <2>4
<1> QED BY <1>1, <1>2

(* Abbreviations that every proof below sees through.                       *)
USE DEF Go, Fail, Ended, Channel

(* The source changes its mode or goes: registers of the card stay.         *)
LEMMA SourceChangeKeeps == PassthroughInv /\ SourceChange => PassthroughInv'
<1> SUFFICES ASSUME PassthroughInv, SourceChange PROVE PassthroughInv'
  OBVIOUS
<1>e. TypeOK /\ \A r : End(r) => Ended(r)
  BY EndEffect DEF PassthroughInv
<1>a. slipped' \in BOOLEAN
  BY Zenon DEF SourceChange
<1>b. src' \in ModeSet
  <2>1. src' \in modes \cup {NoMode}
    BY Zenon DEF SourceChange
  <2> QED BY <2>1, <1>e, ModeHalves DEF TypeOK
<1>1. TypeOK'
  BY <1>a, <1>b, <1>e DEF TypeOK, env, chan, hw, SourceChange, Active
<1>2. EdidInv'
  BY DEF PassthroughInv, EdidInv, RestoreInv, SourceChange, Active
<1>3. RestoreInv'
  BY DEF PassthroughInv, RestoreInv, EdidInv, End, chan, SourceChange, Active
<1>4. TornInv'
  BY DEF PassthroughInv, TypeOK, TornInv, RestoreInv, chan, hw, SourceChange, Active
<1>5. RestartInv'
  BY
    DEF PassthroughInv, TypeOK, TornInv, RestartInv, FirstTime, Written, RestoreInv,
        chan, SourceChange, Active
<1>6. SetupInv'
  BY <1>e
    DEF PassthroughInv, TypeOK, TornInv, RestoreInv, chan, hw, SourceChange,
        SetupInv, RestartInv, FirstTime, Written, TxSet, VideoSet, SnapSet,
        PollSet, Active
<1> QED BY <1>1, <1>2, <1>3, <1>4, <1>5, <1>6 DEF PassthroughInv

(* The display is plugged or unplugged: registers of the card stay.         *)
LEMMA DisplayChangeKeeps == PassthroughInv /\ DisplayChange => PassthroughInv'
<1> SUFFICES ASSUME PassthroughInv, DisplayChange PROVE PassthroughInv'
  OBVIOUS
<1>e. TypeOK /\ \A r : End(r) => Ended(r)
  BY EndEffect DEF PassthroughInv
<1>1. TypeOK'
  BY <1>e DEF PassthroughInv, TypeOK, env, chan, hw, DisplayChange, Active
<1>2. EdidInv'
  BY DEF PassthroughInv, EdidInv, RestoreInv, DisplayChange, Active
<1>3. RestoreInv'
  BY DEF PassthroughInv, RestoreInv, EdidInv, End, chan, DisplayChange, Active
<1>4. TornInv'
  BY DEF PassthroughInv, TypeOK, TornInv, RestoreInv, chan, hw, DisplayChange, Active
<1>5. RestartInv'
  BY
    DEF PassthroughInv, TypeOK, TornInv, RestartInv, FirstTime, Written, RestoreInv,
        chan, DisplayChange, Active
<1>6. SetupInv'
  BY <1>e
    DEF PassthroughInv, TypeOK, TornInv, RestoreInv, chan, hw, DisplayChange,
        SetupInv, RestartInv, FirstTime, Written, TxSet, VideoSet, SnapSet,
        PollSet, Active
<1> QED BY <1>1, <1>2, <1>3, <1>4, <1>5, <1>6 DEF PassthroughInv

(* A link that comes up changes no state of a set-up.                       *)
LEMMA LinkComesKeeps == PassthroughInv /\ LinkComes => PassthroughInv'
<1> SUFFICES ASSUME PassthroughInv, LinkComes PROVE PassthroughInv'
  OBVIOUS
<1>e. TypeOK /\ \A r : End(r) => Ended(r)
  BY EndEffect DEF PassthroughInv
<1>1. TypeOK'
  BY <1>e DEF PassthroughInv, TypeOK, TxSet, env, world, chan, LinkComes
<1>2. EdidInv'
  BY DEF PassthroughInv, EdidInv, RestoreInv, LinkComes
<1>3. RestoreInv'
  BY DEF PassthroughInv, RestoreInv, EdidInv, End, chan, LinkComes
<1>4. TornInv'
  BY DEF PassthroughInv, TypeOK, TornInv, RestoreInv, TxSet, chan, LinkComes
<1>5. RestartInv'
  BY
    DEF PassthroughInv, TypeOK, TornInv, RestartInv, FirstTime, Written, RestoreInv,
        chan, LinkComes
<1>6. SetupInv'
  BY <1>e
    DEF PassthroughInv, TypeOK, TornInv, RestoreInv, TxSet, chan, SetupInv,
        RestartInv, FirstTime, Written, VideoSet, SnapSet, PollSet, LinkComes
<1> QED BY <1>1, <1>2, <1>3, <1>4, <1>5, <1>6 DEF PassthroughInv

(* That nothing changes any more changes nothing.                           *)
LEMMA SettleKeeps == PassthroughInv /\ Settle => PassthroughInv'
<1> SUFFICES ASSUME PassthroughInv, Settle PROVE PassthroughInv'
  OBVIOUS
<1>e. TypeOK /\ \A r : End(r) => Ended(r)
  BY EndEffect DEF PassthroughInv
<1>1. TypeOK'
  BY <1>e DEF PassthroughInv, TypeOK, env, chan, hw, Settle
<1>2. EdidInv'
  BY DEF PassthroughInv, EdidInv, RestoreInv, Settle
<1>3. RestoreInv'
  BY DEF PassthroughInv, RestoreInv, EdidInv, End, chan, Settle
<1>4. TornInv'
  BY DEF PassthroughInv, TypeOK, TornInv, RestoreInv, chan, hw, Settle
<1>5. RestartInv'
  BY
    DEF PassthroughInv, TypeOK, TornInv, RestartInv, FirstTime, Written, RestoreInv,
        chan, Settle
<1>6. SetupInv'
  BY <1>e
    DEF PassthroughInv, TypeOK, TornInv, RestoreInv, chan, hw, SetupInv,
        RestartInv, FirstTime, Written, TxSet, VideoSet, SnapSet, PollSet, Settle
<1> QED BY <1>1, <1>2, <1>3, <1>4, <1>5, <1>6 DEF PassthroughInv

(* A poll starts at the place of its phase, with nothing half-written.      *)
LEMMA PollKeeps == PassthroughInv /\ Poll => PassthroughInv'
<1> SUFFICES ASSUME PassthroughInv, Poll PROVE PassthroughInv'
  OBVIOUS
<1>e. TypeOK /\ \A r : End(r) => Ended(r)
  BY EndEffect DEF PassthroughInv
<1>1. TypeOK'
  BY <1>e DEF PassthroughInv, TypeOK, PollSet, Places, env, world, chan, hw, Poll
<1>2. EdidInv'
  BY <1>e DEF PassthroughInv, EdidInv, TypeOK, PollSet, Poll
<1>3. RestoreInv'
  BY DEF PassthroughInv, RestoreInv, EdidInv, End, chan, Poll
<1>4. TornInv'
  BY <1>e DEF PassthroughInv, TypeOK, TornInv, RestoreInv, PollSet, chan, hw, Poll
<1>5. RestartInv'
  BY <1>e
    DEF PassthroughInv, TypeOK, TornInv, RestartInv, FirstTime, Written, RestoreInv,
        PollSet, chan, Poll
<1>6. SetupInv'
  BY <1>e
    DEF PassthroughInv, TypeOK, TornInv, RestoreInv, PollSet, chan, hw, SetupInv,
        RestartInv, FirstTime, Written, TxSet, VideoSet, SnapSet, Poll
<1> QED BY <1>1, <1>2, <1>3, <1>4, <1>5, <1>6 DEF PassthroughInv

(* The display channel is opened, or the transfer returns.                  *)
LEMMA TransferOpenKeeps == PassthroughInv /\ TransferOpen => PassthroughInv'
<1> SUFFICES ASSUME PassthroughInv, TransferOpen PROVE PassthroughInv'
  OBVIOUS
<1>e. TypeOK /\ \A r : End(r) => Ended(r)
  BY EndEffect DEF PassthroughInv
<1>1. TypeOK'
  BY <1>e
    DEF PassthroughInv, TypeOK, Places, env, world, hw, TransferOpen, TransferReturns
<1>2. EdidInv'
  BY <1>e DEF PassthroughInv, EdidInv, RestoreInv, TransferOpen, TransferReturns
<1>3. RestoreInv'
  BY DEF PassthroughInv, RestoreInv, EdidInv, End, TransferOpen, TransferReturns
<1>4. TornInv'
  BY <1>e
    DEF PassthroughInv, TypeOK, TornInv, RestoreInv, hw, TransferOpen, TransferReturns
<1>5. RestartInv'
  BY <1>e
    DEF PassthroughInv, TypeOK, TornInv, RestartInv, FirstTime, Written, RestoreInv,
        TransferOpen, TransferReturns
<1>6. SetupInv'
  BY <1>e
    DEF PassthroughInv, TypeOK, TornInv, RestoreInv, hw, TransferOpen, SetupInv,
        RestartInv, FirstTime, Written, TxSet, VideoSet, SnapSet, PollSet,
        TransferReturns
<1> QED BY <1>1, <1>2, <1>3, <1>4, <1>5, <1>6 DEF PassthroughInv

(* The commands and data of a transfer, which keeps its operation.          *)
LEMMA TransferKeeps == PassthroughInv /\ Transfer => PassthroughInv'
<1> SUFFICES ASSUME PassthroughInv, Transfer PROVE PassthroughInv'
  OBVIOUS
<1>e. TypeOK /\ \A r : End(r) => Ended(r)
  BY EndEffect DEF PassthroughInv
<1>1. TypeOK'
  BY <1>e DEF PassthroughInv, TypeOK, Places, env, world, hw, Transfer, TransferReturns
<1>2. EdidInv'
  BY <1>e DEF PassthroughInv, EdidInv, RestoreInv, Transfer, TransferReturns
<1>3. RestoreInv'
  BY DEF PassthroughInv, RestoreInv, EdidInv, End, Transfer, TransferReturns
<1>4. TornInv'
  BY <1>e DEF PassthroughInv, TypeOK, TornInv, RestoreInv, hw, Transfer, TransferReturns
<1>5. RestartInv'
  BY <1>e
    DEF PassthroughInv, TypeOK, TornInv, RestartInv, FirstTime, Written, RestoreInv,
        Transfer, TransferReturns
<1>6. SetupInv'
  BY <1>e
    DEF PassthroughInv, TypeOK, TornInv, RestoreInv, hw, Transfer, SetupInv,
        RestartInv, FirstTime, Written, TxSet, VideoSet, SnapSet, PollSet,
        TransferReturns
<1> QED BY <1>1, <1>2, <1>3, <1>4, <1>5, <1>6 DEF PassthroughInv

(* A failed transfer is aborted before the controls are restored.           *)
LEMMA TransferAbortKeeps == PassthroughInv /\ TransferAbort => PassthroughInv'
<1> SUFFICES ASSUME PassthroughInv, TransferAbort PROVE PassthroughInv'
  OBVIOUS
<1>e. TypeOK /\ \A r : End(r) => Ended(r)
  BY EndEffect DEF PassthroughInv
<1>1. TypeOK'
  BY <1>e
    DEF PassthroughInv, TypeOK, Places, env, world, hw, TransferAbort, TransferReturns
<1>2. EdidInv'
  BY <1>e DEF PassthroughInv, EdidInv, RestoreInv, TransferAbort, TransferReturns
<1>3. RestoreInv'
  BY DEF PassthroughInv, RestoreInv, EdidInv, End, TransferAbort, TransferReturns
<1>4. TornInv'
  BY <1>e
    DEF PassthroughInv, TypeOK, TornInv, RestoreInv, hw, TransferAbort,
        TransferReturns
<1>5. RestartInv'
  BY <1>e
    DEF PassthroughInv, TypeOK, TornInv, RestartInv, FirstTime, Written, RestoreInv,
        TransferAbort, TransferReturns
<1>6. SetupInv'
  BY <1>e
    DEF PassthroughInv, TypeOK, TornInv, RestoreInv, hw, TransferAbort, SetupInv,
        RestartInv, FirstTime, Written, TxSet, VideoSet, SnapSet, PollSet,
        TransferReturns
<1> QED BY <1>1, <1>2, <1>3, <1>4, <1>5, <1>6 DEF PassthroughInv

(* The controls are restored before the caller sees the result.             *)
LEMMA TransferCloseKeeps == PassthroughInv /\ TransferClose => PassthroughInv'
<1> SUFFICES ASSUME PassthroughInv, TransferClose PROVE PassthroughInv'
  OBVIOUS
<1>e. TypeOK /\ \A r : End(r) => Ended(r)
  BY EndEffect DEF PassthroughInv
<1>1. TypeOK'
  BY <1>e
    DEF PassthroughInv, TypeOK, EdidSet, Places, env, world, chan, hw, TransferClose,
        TransferReturns
<1>2. EdidInv'
  BY <1>e
    DEF PassthroughInv, EdidInv, RestoreInv, TypeOK, EdidSet, TransferClose,
        TransferReturns
<1>3. RestoreInv'
  BY
    DEF PassthroughInv, RestoreInv, EdidInv, TypeOK, EdidSet, End, chan,
        TransferClose, TransferReturns
<1>4. TornInv'
  BY <1>e
    DEF PassthroughInv, TypeOK, TornInv, RestoreInv, EdidSet, chan, hw, TransferClose,
        TransferReturns
<1>5. RestartInv'
  BY <1>e
    DEF PassthroughInv, TypeOK, TornInv, RestartInv, FirstTime, Written, RestoreInv,
        chan, TransferClose, TransferReturns
<1>6. SetupInv'
  BY <1>e
    DEF PassthroughInv, TypeOK, TornInv, RestoreInv, EdidSet, chan, hw,
        TransferClose, SetupInv, RestartInv, FirstTime, Written, TxSet, VideoSet,
        SnapSet, PollSet, TransferReturns
<1> QED BY <1>1, <1>2, <1>3, <1>4, <1>5, <1>6 DEF PassthroughInv

(* Hot-plug is asserted over an EDID that is whole, or with DDC disabled.   *)
LEMMA PowerKeeps == PassthroughInv /\ Power => PassthroughInv'
<1> SUFFICES ASSUME PassthroughInv, Power PROVE PassthroughInv'
  OBVIOUS
<1>e. TypeOK /\ \A r : End(r) => Ended(r)
  BY EndEffect DEF PassthroughInv
<1>a. edid' \in {edid, [edid EXCEPT !.hpd = TRUE]}
  BY Zenon DEF Power
<1>c. edid' \in EdidSet
  BY <1>a, <1>e, EdidUpdates DEF TypeOK
<1>1. TypeOK'
  BY <1>c, <1>e DEF TypeOK, env, world, chan, hw, Places, Power
<1>2. EdidInv'
  BY <1>e DEF PassthroughInv, EdidInv, RestoreInv, TypeOK, EdidSet, Power
<1>3. RestoreInv'
  BY DEF PassthroughInv, RestoreInv, EdidInv, TypeOK, EdidSet, End, chan, Power
<1>4. TornInv'
  BY <1>e DEF PassthroughInv, TypeOK, TornInv, RestoreInv, EdidSet, chan, hw, Power
<1>5. RestartInv'
  BY <1>e
    DEF PassthroughInv, TypeOK, TornInv, RestartInv, FirstTime, Written, RestoreInv,
        chan, Power
<1>6. SetupInv'
  BY <1>e, <1>c
    DEF PassthroughInv, TypeOK, TornInv, RestoreInv, EdidSet, chan, hw, SetupInv,
        RestartInv, FirstTime, Written, TxSet, VideoSet, SnapSet, PollSet, Power
<1> QED BY <1>1, <1>2, <1>3, <1>4, <1>5, <1>6 DEF PassthroughInv

(* Hot-plug and DDC are off before the exchange of the EDID.                *)
LEMMA EdidLowKeeps == PassthroughInv /\ EdidLow => PassthroughInv'
<1> SUFFICES ASSUME PassthroughInv, EdidLow PROVE PassthroughInv'
  OBVIOUS
<1>e. TypeOK /\ \A r : End(r) => Ended(r)
  BY EndEffect DEF PassthroughInv
<1>a. edid' \in {edid, [edid EXCEPT !.hpd = FALSE], [edid EXCEPT !.hpd = FALSE, !.ddc = FALSE]}
  BY Zenon DEF EdidLow
<1>c. edid' \in EdidSet
  BY <1>a, <1>e, EdidUpdates DEF TypeOK
<1>1. TypeOK'
  BY <1>c, <1>e DEF TypeOK, env, world, chan, hw, Places, EdidLow
<1>2. EdidInv'
  BY <1>a, <1>c, <1>e DEF PassthroughInv, EdidInv, RestoreInv, TypeOK, EdidSet, EdidLow
<1>3. RestoreInv'
  BY DEF PassthroughInv, RestoreInv, EdidInv, TypeOK, EdidSet, End, chan, EdidLow
<1>4. TornInv'
  BY <1>e DEF PassthroughInv, TypeOK, TornInv, RestoreInv, EdidSet, chan, EdidLow
<1>5. RestartInv'
  BY <1>e
    DEF PassthroughInv, TypeOK, TornInv, RestartInv, FirstTime, Written, RestoreInv,
        chan, EdidLow
<1>6. SetupInv'
  BY <1>e, <1>c
    DEF PassthroughInv, TypeOK, TornInv, RestoreInv, EdidSet, chan, SetupInv,
        RestartInv, FirstTime, Written, TxSet, VideoSet, SnapSet, PollSet, EdidLow
<1> QED BY <1>1, <1>2, <1>3, <1>4, <1>5, <1>6 DEF PassthroughInv

(* The first copy of the EDID is the one that was there.                    *)
LEMMA EdidPriorKeeps == PassthroughInv /\ EdidPrior => PassthroughInv'
<1> SUFFICES ASSUME PassthroughInv, EdidPrior PROVE PassthroughInv'
  OBVIOUS
<1>e. TypeOK /\ \A r : End(r) => Ended(r)
  BY EndEffect DEF PassthroughInv
<1>1. TypeOK'
  BY <1>e
    DEF PassthroughInv, TypeOK, EdidSet, EdidInv, Places, env, world, chan, hw,
        EdidPrior
<1>2. EdidInv'
  BY <1>e DEF PassthroughInv, EdidInv, RestoreInv, TypeOK, EdidSet, EdidPrior
<1>3. RestoreInv'
  BY DEF PassthroughInv, RestoreInv, EdidInv, TypeOK, EdidSet, End, chan, EdidPrior
<1>4. TornInv'
  BY <1>e DEF PassthroughInv, TypeOK, TornInv, RestoreInv, EdidSet, chan, hw, EdidPrior
<1>5. RestartInv'
  BY <1>e
    DEF PassthroughInv, TypeOK, TornInv, RestartInv, FirstTime, Written, RestoreInv,
        chan, EdidPrior
<1>6. SetupInv'
  BY <1>e
    DEF PassthroughInv, TypeOK, TornInv, RestoreInv, EdidSet, chan, hw, SetupInv,
        RestartInv, FirstTime, Written, TxSet, VideoSet, SnapSet, PollSet,
        EdidPrior
<1> QED BY <1>1, <1>2, <1>3, <1>4, <1>5, <1>6 DEF PassthroughInv

(* Half an EDID is only there with a copy, and with DDC off.                *)
LEMMA EdidWriteKeeps == PassthroughInv /\ EdidWrite => PassthroughInv'
<1> SUFFICES ASSUME PassthroughInv, EdidWrite PROVE PassthroughInv'
  OBVIOUS
<1>e. TypeOK /\ \A r : End(r) => Ended(r)
  BY EndEffect DEF PassthroughInv
<1>a. edid' \in {edid, [edid EXCEPT !.sram = "part", !.written = TRUE]}
  BY Zenon DEF EdidWrite
<1>c. edid' \in EdidSet
  BY <1>a, <1>e, EdidUpdates DEF TypeOK
<1>1. TypeOK'
  BY <1>c, <1>e DEF TypeOK, env, world, chan, hw, Places, EdidWrite
<1>2. EdidInv'
  BY <1>e DEF PassthroughInv, EdidInv, RestoreInv, TypeOK, EdidSet, EdidWrite
<1>3. RestoreInv'
  BY DEF PassthroughInv, RestoreInv, EdidInv, TypeOK, EdidSet, End, chan, EdidWrite
<1>4. TornInv'
  BY <1>e DEF PassthroughInv, TypeOK, TornInv, RestoreInv, EdidSet, chan, hw, EdidWrite
<1>5. RestartInv'
  BY <1>e
    DEF PassthroughInv, TypeOK, TornInv, RestartInv, FirstTime, Written, RestoreInv,
        chan, EdidWrite
<1>6. SetupInv'
  BY <1>e, <1>c
    DEF PassthroughInv, TypeOK, TornInv, RestoreInv, EdidSet, chan, hw, SetupInv,
        RestartInv, FirstTime, Written, TxSet, VideoSet, SnapSet, PollSet,
        EdidWrite
<1> QED BY <1>1, <1>2, <1>3, <1>4, <1>5, <1>6 DEF PassthroughInv

(* DDC comes back with the whole EDID, on removal with the earlier one.     *)
LEMMA EdidVerifyKeeps == PassthroughInv /\ EdidVerify => PassthroughInv'
<1> SUFFICES ASSUME PassthroughInv, EdidVerify PROVE PassthroughInv'
  OBVIOUS
<1>e. TypeOK /\ \A r : End(r) => Ended(r)
  BY EndEffect DEF PassthroughInv
<1> DEFINE whole == [edid EXCEPT !.sram = IF removed = "restoring" THEN edid.prior ELSE "ours"]
<1>a. \/ edid' = [whole EXCEPT !.ddc = TRUE]
      \/ edid' \in {edid, whole} /\ Fail
  BY Zenon DEF EdidVerify
<1>f. edid.prior = "orig" /\ edid.written /\ ~edid.ddc
  BY DEF PassthroughInv, EdidInv, EdidVerify
<1>w. /\ whole \in EdidSet /\ whole.prior = "orig" /\ whole.written /\ ~whole.ddc
      /\ whole.sram = IF removed = "restoring" THEN "orig" ELSE "ours"
  BY <1>e, <1>f DEF TypeOK, EdidSet
<1> HIDE DEF whole
<1>c. /\ edid' \in EdidSet /\ edid'.prior = "orig" /\ edid'.written
      /\ edid'.sram = "part" => ~edid'.ddc
  <2>1. CASE edid' = [whole EXCEPT !.ddc = TRUE]
    BY <2>1, <1>w DEF EdidSet
  <2>2. CASE edid' \in {edid, whole}
    BY <2>2, <1>w, <1>f, <1>e DEF TypeOK
  <2> QED BY <1>a, <2>1, <2>2
<1>1. TypeOK'
  BY <1>c, <1>e DEF TypeOK, env, world, chan, hw, Places, EdidVerify
<1>2. EdidInv'
  BY <1>c, <1>w, <1>e
    DEF PassthroughInv, EdidInv, RestoreInv, TypeOK, EdidSet, EdidVerify
<1>3. RestoreInv'
  BY DEF PassthroughInv, RestoreInv, EdidInv, TypeOK, EdidSet, End, chan, EdidVerify
<1>4. TornInv'
  BY <1>e DEF PassthroughInv, TypeOK, TornInv, RestoreInv, EdidSet, chan, hw, EdidVerify
<1>5. RestartInv'
  BY <1>e
    DEF PassthroughInv, TypeOK, TornInv, RestartInv, FirstTime, Written, RestoreInv,
        chan, EdidVerify
<1>6. SetupInv'
  BY <1>e, <1>c
    DEF PassthroughInv, TypeOK, TornInv, RestoreInv, EdidSet, chan, hw, SetupInv,
        RestartInv, FirstTime, Written, TxSet, VideoSet, SnapSet, PollSet,
        EdidVerify
<1> QED BY <1>1, <1>2, <1>3, <1>4, <1>5, <1>6 DEF PassthroughInv

(* After the exchange removal has the earlier EDID in place.                *)
LEMMA EdidHighKeeps == PassthroughInv /\ EdidHigh => PassthroughInv'
<1> SUFFICES ASSUME PassthroughInv, EdidHigh PROVE PassthroughInv'
  OBVIOUS
<1>e. TypeOK /\ \A r : End(r) => Ended(r)
  BY EndEffect DEF PassthroughInv
<1>a. edid' \in {edid, [edid EXCEPT !.hpd = TRUE]}
  BY Zenon DEF EdidHigh
<1>c. edid' \in EdidSet
  BY <1>a, <1>e, EdidUpdates DEF TypeOK
<1>1. TypeOK'
  BY <1>c, <1>e DEF TypeOK, env, world, chan, hw, Places, EdidHigh
<1>2. EdidInv'
  BY <1>e DEF PassthroughInv, EdidInv, RestoreInv, TypeOK, EdidSet, EdidHigh
<1>3. RestoreInv'
  BY DEF PassthroughInv, RestoreInv, EdidInv, TypeOK, EdidSet, End, EdidHigh
<1>4. TornInv'
  BY <1>e DEF PassthroughInv, TypeOK, TornInv, RestoreInv, EdidSet, EdidHigh
<1>5. RestartInv'
  BY <1>e
    DEF PassthroughInv, TypeOK, TornInv, RestartInv, FirstTime, Written, RestoreInv,
        VideoSet, EdidHigh
<1>6. SetupInv'
  BY <1>e, <1>c
    DEF PassthroughInv, TypeOK, TornInv, RestoreInv, EdidSet, SetupInv,
        RestartInv, FirstTime, Written, TxSet, VideoSet, SnapSet, PollSet,
        EdidHigh
<1> QED BY <1>1, <1>2, <1>3, <1>4, <1>5, <1>6 DEF PassthroughInv

(* A lost source or display is a reason for a new set-up.                   *)
LEMMA StatusKeeps == PassthroughInv /\ Status => PassthroughInv'
<1> SUFFICES ASSUME PassthroughInv, Status PROVE PassthroughInv'
  OBVIOUS
<1>e. TypeOK /\ \A r : End(r) => Ended(r)
  BY EndEffect DEF PassthroughInv
<1>a. /\ s' \in {s, [s EXCEPT !.configured = FALSE]}
      /\ video' \in {video, [video EXCEPT !.waiting = FALSE]}
      /\ measured' \in {measured, [measured EXCEPT !.complete = FALSE]}
      /\ programs' \in {programs, 0}
  BY Zenon DEF Status, Forget
<1>c. /\ s' \in SnapSet /\ video' \in VideoSet
  BY <1>a, <1>e, SnapUpdates, VideoUpdates DEF TypeOK
<1>d. measured' \in MeasuredSet /\ programs' \in Nat
  BY <1>a, <1>e, ModeHalves, MeasuredUpdates DEF TypeOK
<1>1. TypeOK'
  BY <1>c, <1>d, <1>e DEF TypeOK, env, world, chan, hw, Places, Status
<1>2. EdidInv'
  BY <1>e DEF PassthroughInv, EdidInv, RestoreInv, Status, Forget
<1>3. RestoreInv'
  BY DEF PassthroughInv, RestoreInv, EdidInv, End, chan, Status, Forget
<1>4. TornInv'
  BY <1>e DEF PassthroughInv, TypeOK, TornInv, RestoreInv, chan, hw, Status, Forget
<1>5. RestartInv'
  BY <1>e
    DEF PassthroughInv, TypeOK, TornInv, RestartInv, FirstTime, Written, RestoreInv,
        VideoSet, SnapSet, chan, Status, Forget
<1>6. SetupInv'
  BY <1>e, <1>c
    DEF PassthroughInv, TypeOK, TornInv, RestoreInv, chan, hw, Status, SetupInv,
        RestartInv, FirstTime, Written, TxSet, VideoSet, SnapSet, PollSet, Forget
<1> QED BY <1>1, <1>2, <1>3, <1>4, <1>5, <1>6 DEF PassthroughInv

(* The first half of a snapshot changes nothing else.                       *)
LEMMA FirstKeeps == PassthroughInv /\ First => PassthroughInv'
<1> SUFFICES ASSUME PassthroughInv, First PROVE PassthroughInv'
  OBVIOUS
<1>e. TypeOK /\ \A r : End(r) => Ended(r)
  BY EndEffect DEF PassthroughInv
<1>1. TypeOK'
  BY <1>e
    DEF PassthroughInv, TypeOK, SnapSet, LowHalf, HighHalf, ModeSet, Places, env,
        world, chan, hw, First, Lo
<1>2. EdidInv'
  BY <1>e DEF PassthroughInv, EdidInv, RestoreInv, First, Lo
<1>3. RestoreInv'
  BY DEF PassthroughInv, RestoreInv, EdidInv, End, chan, First, Lo
<1>4. TornInv'
  BY <1>e DEF PassthroughInv, TypeOK, TornInv, RestoreInv, chan, hw, First, Lo
<1>5. RestartInv'
  BY <1>e
    DEF PassthroughInv, TypeOK, TornInv, RestartInv, FirstTime, Written, RestoreInv,
        SnapSet, chan, First, Lo
<1>6. SetupInv'
  BY <1>e
    DEF PassthroughInv, TypeOK, TornInv, RestoreInv, chan, hw, First, SetupInv,
        RestartInv, FirstTime, Written, TxSet, VideoSet, SnapSet, PollSet, Lo
<1> QED BY <1>1, <1>2, <1>3, <1>4, <1>5, <1>6 DEF PassthroughInv

(* A snapshot that differs is a reason for a new set-up.                    *)
LEMMA SecondKeeps == PassthroughInv /\ Second => PassthroughInv'
<1> SUFFICES ASSUME PassthroughInv, Second PROVE PassthroughInv'
  OBVIOUS
<1>e. TypeOK /\ \A r : End(r) => Ended(r)
  BY EndEffect DEF PassthroughInv
<1> DEFINE new == <<s.lo, Hi(src)>>
<1>a. /\ \/ s' = [prev |-> new, lo |-> Lo(NoMode), configured |-> s.configured /\ new = s.prev]
         \/ s' = s /\ End("fail")
      /\ video' \in {video, [video EXCEPT !.waiting = FALSE]}
      /\ measured' \in {measured, [measured EXCEPT !.complete = FALSE]}
      /\ programs' \in {programs, 0}
  BY Zenon DEF Second, Forget
<1>b. Lo(NoMode) \in LowHalf /\ Hi(src) \in HighHalf /\ s.lo \in LowHalf
     /\ (s.configured /\ new = s.prev) \in BOOLEAN
  BY <1>e, ModeHalves DEF TypeOK, SnapSet
<1>s. /\ s' \in SnapSet
      /\ \/ End("fail")
         \/ s'.configured <=> s.configured /\ new = s.prev
  <2>1. CASE s' = s /\ End("fail")
    BY <2>1, <1>e DEF TypeOK
  <2>2. CASE s' = [prev |-> new, lo |-> Lo(NoMode), configured |-> s.configured /\ new = s.prev]
    <3> HIDE DEF new
    <3>1. CASE s.configured /\ new = s.prev
      <4>1. s' = [prev |-> new, lo |-> Lo(NoMode), configured |-> TRUE]
        BY <2>2, <3>1, Zenon
      <4> QED BY <4>1, <1>b, <3>1 DEF SnapSet, new
    <3>2. CASE ~(s.configured /\ new = s.prev)
      <4>1. s' = [prev |-> new, lo |-> Lo(NoMode), configured |-> FALSE]
        BY <2>2, <3>2, Zenon
      <4> QED BY <4>1, <1>b, <3>2 DEF SnapSet, new
    <3> QED BY <3>1, <3>2
  <2> QED BY <1>a, <2>1, <2>2
<1>c. video' \in VideoSet
  BY <1>a, <1>e, VideoUpdates DEF TypeOK
<1>q. \/ End("fail")
      \/ new # s.prev /\ ~video'.waiting /\ programs' = 0 /\ End("again")
      \/ new = s.prev /\ video' = video /\ programs' = programs
  <2>1. \/ End("fail")
        \/ new # s.prev /\ video' = [video EXCEPT !.waiting = FALSE] /\ programs' = 0
           /\ End("again")
        \/ new = s.prev /\ video' = video /\ programs' = programs
    BY Zenon DEF Second, Forget
  <2> HIDE DEF new
  <2> QED BY <2>1, <1>e DEF TypeOK, VideoSet
<1>d. measured' \in MeasuredSet /\ programs' \in Nat
  BY <1>a, <1>e, ModeHalves, MeasuredUpdates DEF TypeOK
<1>p. /\ at' \in {"idle", "tx", "measure"}
      /\ at' = "tx" => ~s.configured /\ Go("tx")
      /\ at' = "measure" => s.configured /\ Go("measure")
      /\ Go(at') \/ \E r : End(r)
      /\ op' = op /\ at = "second"
  BY <1>e, Zenon DEF Second, chan
<1>u. /\ bank' \in {bank, 0, 2}
      /\ UNCHANGED <<src, modes, scaled, plugged, calm, slipped, changes, op, ret, controls,
                  tx, edid>>
  BY Zenon DEF Second, env, world, chan
<1>1. TypeOK'
  BY <1>s, <1>c, <1>d, <1>p, <1>u, <1>e DEF TypeOK, Places
<1>2. EdidInv'
  BY <1>e DEF PassthroughInv, EdidInv, RestoreInv, Second, Forget
<1>3. RestoreInv'
  BY DEF PassthroughInv, RestoreInv, EdidInv, End, chan, Second, Forget
<1>4. TornInv'
  BY <1>e DEF PassthroughInv, TypeOK, TornInv, RestoreInv, chan, Second, Forget
<1>5. RestartInv'
  <2> HIDE DEF new
  <2>1. CASE End("fail")
    BY <2>1, <1>p, <1>a, <1>e DEF PassthroughInv, RestartInv, TypeOK
  <2>2. CASE ~End("fail") /\ new # s.prev
    BY <2>2, <1>s, <1>p, <1>q, <1>d, <1>e, <1>c, <1>u
      DEF TypeOK, PollSet, SnapSet, VideoSet, PassthroughInv, RestoreInv, TornInv,
          RestartInv, FirstTime, Written, TypeOK
  <2>3. CASE ~End("fail") /\ new = s.prev
    BY <2>3, <1>s, <1>p, <1>q, <1>d, <1>e, <1>c, <1>u
      DEF TypeOK, PollSet, SnapSet, VideoSet, PassthroughInv, RestoreInv, TornInv,
          RestartInv, FirstTime, Written, TypeOK
  <2> QED BY <2>1, <2>2, <2>3
<1>6. SetupInv'
  BY <1>e, <1>c, <1>s, <1>p, <1>q, <1>u
    DEF PassthroughInv, TypeOK, TornInv, RestoreInv, chan, Second, SetupInv,
        RestartInv, FirstTime, Written, TxSet, VideoSet, SnapSet, PollSet, Forget
<1> QED BY <1>1, <1>2, <1>3, <1>4, <1>5, <1>6 DEF PassthroughInv

(* A clock that changed is a reason for a new set-up.                       *)
LEMMA MeasureKeeps == PassthroughInv /\ Measure => PassthroughInv'
<1> SUFFICES ASSUME PassthroughInv, Measure PROVE PassthroughInv'
  OBVIOUS
<1>e. TypeOK /\ \A r : End(r) => Ended(r)
  BY EndEffect DEF PassthroughInv
<1>a. /\ s' \in {s, [s EXCEPT !.configured = FALSE]}
      /\ measured' \in {measured, [complete |-> FALSE, khz |-> 0],
                       [complete |-> TRUE, khz |-> src.khz]}
      /\ programs' \in {programs, 0}
  BY Zenon DEF Measure
<1>c. s' \in SnapSet
  BY <1>a, <1>e, SnapUpdates DEF TypeOK
<1>b. src.khz \in Nat
  BY <1>e, ModeHalves DEF TypeOK
<1>d. measured' \in MeasuredSet /\ programs' \in Nat
  <2>1. /\ [complete |-> TRUE, khz |-> src.khz] \in MeasuredSet
        /\ [complete |-> FALSE, khz |-> 0] \in MeasuredSet
    BY <1>b DEF MeasuredSet
  <2>2. measured' \in MeasuredSet
    BY <2>1, <1>a, <1>e, Zenon DEF TypeOK
  <2>3. programs' \in Nat
    BY <1>a, <1>e DEF TypeOK
  <2> QED BY <2>2, <2>3
<1>1. TypeOK'
  BY <1>c, <1>d, <1>e DEF TypeOK, env, world, chan, hw, Places, Measure
<1>2. EdidInv'
  BY <1>e DEF PassthroughInv, EdidInv, RestoreInv, Measure
<1>3. RestoreInv'
  BY DEF PassthroughInv, RestoreInv, EdidInv, End, Measure
<1>4. TornInv'
  BY <1>e DEF PassthroughInv, TypeOK, TornInv, RestoreInv, hw, Measure
<1>5. RestartInv'
  BY <1>e
    DEF PassthroughInv, TypeOK, TornInv, RestartInv, FirstTime, Written, RestoreInv,
        VideoSet, SnapSet, Measure
<1>6. SetupInv'
  BY <1>e, <1>c
    DEF PassthroughInv, TypeOK, TornInv, RestoreInv, hw, SetupInv, RestartInv,
        FirstTime, Written, TxSet, VideoSet, SnapSet, PollSet, Measure
<1> QED BY <1>1, <1>2, <1>3, <1>4, <1>5, <1>6 DEF PassthroughInv

(* A set-up or its resumption follows the activation.                       *)
LEMMA ActivateKeeps == PassthroughInv /\ Activate => PassthroughInv'
<1> SUFFICES ASSUME PassthroughInv, Activate PROVE PassthroughInv'
  OBVIOUS
<1>e. TypeOK /\ \A r : End(r) => Ended(r)
  BY EndEffect DEF PassthroughInv
<1>a. \E v \in {"cold", "active", "part", "prepared", "set"} : tx' \in {tx, [tx EXCEPT !.state = v]}
  BY <1>e DEF TypeOK, TxSet, Activate
<1>c. tx' \in TxSet
  BY <1>a, <1>e, TxUpdates DEF TypeOK
<1>1. TypeOK'
  BY <1>c, <1>e DEF TypeOK, Places, env, world, chan, Activate
<1>2. EdidInv'
  BY <1>e DEF PassthroughInv, EdidInv, RestoreInv, Activate
<1>3. RestoreInv'
  BY DEF PassthroughInv, RestoreInv, EdidInv, End, chan, Activate
<1>4. TornInv'
  BY <1>e DEF PassthroughInv, TypeOK, TornInv, RestoreInv, TxSet, chan, hw, Activate
<1>5. RestartInv'
  BY <1>e
    DEF PassthroughInv, TypeOK, TornInv, RestartInv, FirstTime, Written, RestoreInv,
        chan, Activate
<1>6. SetupInv'
  BY <1>e, <1>c
    DEF PassthroughInv, TypeOK, TornInv, RestoreInv, TxSet, chan, hw, SetupInv,
        RestartInv, FirstTime, Written, VideoSet, SnapSet, PollSet, Activate
<1> QED BY <1>1, <1>2, <1>3, <1>4, <1>5, <1>6 DEF PassthroughInv

(* A set-up starts with a result that remembers only the restart.           *)
LEMMA SetupKeeps == PassthroughInv /\ Setup => PassthroughInv'
<1> SUFFICES ASSUME PassthroughInv, Setup PROVE PassthroughInv'
  OBVIOUS
<1>e. TypeOK /\ \A r : End(r) => Ended(r)
  BY EndEffect DEF PassthroughInv
<1> DEFINE fresh == IF at = "setup" THEN NoVideo
                   ELSE [waiting |-> FALSE, restarts |-> 1, polls |-> LinkPolls, khz |-> 0]
<1>f. /\ fresh \in VideoSet
      /\ ~fresh.waiting /\ fresh.restarts = IF at = "setup" THEN 0 ELSE 1
  BY PassthroughAssumption, VideoStarts DEF PassthroughAssumption, NoVideo
<1>a. video' \in {fresh, [fresh EXCEPT !.khz = src.khz]}
  BY Zenon DEF Setup
<1> HIDE DEF fresh
<1>b. src.khz \in Nat
  BY <1>e, ModeHalves DEF TypeOK
<1>c. /\ video' \in VideoSet
      /\ ~video'.waiting /\ video'.restarts = IF at = "setup" THEN 0 ELSE 1
  BY <1>a, <1>b, <1>f DEF VideoSet
<1>d. slipped' \in BOOLEAN /\ programs' \in Nat
  <2>1. slipped' \in {slipped, FALSE} /\ programs' \in {programs, 0}
    BY Zenon DEF Setup
  <2>2. slipped' \in BOOLEAN
    BY <2>1, <1>e, Zenon DEF TypeOK
  <2> QED BY <2>1, <2>2, <1>e DEF TypeOK
<1>1. TypeOK'
  BY <1>c, <1>d, <1>e DEF TypeOK, env, world, chan, hw, Places, Setup
<1>2. EdidInv'
  BY <1>e DEF PassthroughInv, EdidInv, RestoreInv, Setup
<1>3. RestoreInv'
  BY DEF PassthroughInv, RestoreInv, EdidInv, End, chan, Setup
<1>4. TornInv'
  BY <1>e DEF PassthroughInv, TypeOK, TornInv, RestoreInv, chan, hw, Setup
<1>5. RestartInv'
  BY <1>c, <1>e
    DEF TypeOK, PollSet, SnapSet, VideoSet, PassthroughInv, RestoreInv, TornInv,
        RestartInv, FirstTime, Written, env, world, chan, hw, Places, Setup
<1>6. SetupInv'
  BY <1>e, <1>c
    DEF PassthroughInv, TypeOK, TornInv, RestoreInv, chan, hw, SetupInv,
        RestartInv, FirstTime, Written, TxSet, VideoSet, SnapSet, PollSet, Setup
<1> QED BY <1>1, <1>2, <1>3, <1>4, <1>5, <1>6 DEF PassthroughInv

(* The checks only read: a refusal leaves the transmitter as it was.        *)
LEMMA ValidateKeeps == PassthroughInv /\ Validate => PassthroughInv'
<1> SUFFICES ASSUME PassthroughInv, Validate PROVE PassthroughInv'
  OBVIOUS
<1>e. TypeOK /\ \A r : End(r) => Ended(r)
  BY EndEffect DEF PassthroughInv
<1>1. TypeOK'
  BY <1>e
    DEF PassthroughInv, TypeOK, VideoSet, TxSet, Places, env, world, chan, Validate
<1>2. EdidInv'
  BY <1>e DEF PassthroughInv, EdidInv, RestoreInv, Validate
<1>3. RestoreInv'
  BY DEF PassthroughInv, RestoreInv, EdidInv, End, chan, Validate
<1>4. TornInv'
  BY <1>e DEF PassthroughInv, TypeOK, TornInv, RestoreInv, TxSet, chan, Validate
<1>5. RestartInv'
  BY <1>e
    DEF PassthroughInv, TypeOK, TornInv, RestartInv, FirstTime, Written, RestoreInv,
        VideoSet, chan, Validate
<1>6. SetupInv'
  BY <1>e
    DEF PassthroughInv, TypeOK, TornInv, RestoreInv, TxSet, chan, SetupInv,
        RestartInv, FirstTime, Written, VideoSet, SnapSet, PollSet, Validate
<1> QED BY <1>1, <1>2, <1>3, <1>4, <1>5, <1>6 DEF PassthroughInv

(* The set-up is written, for the first time or as the restart.             *)
LEMMA ProgramKeeps == PassthroughInv /\ Program => PassthroughInv'
<1> SUFFICES ASSUME PassthroughInv, Program PROVE PassthroughInv'
  OBVIOUS
<1>e. TypeOK /\ \A r : End(r) => Ended(r)
  BY EndEffect DEF PassthroughInv
<1>1. TypeOK'
  BY <1>e DEF PassthroughInv, TypeOK, VideoSet, TxSet, Places, env, world, chan, Program
<1>2. EdidInv'
  BY <1>e DEF PassthroughInv, EdidInv, RestoreInv, Program
<1>3. RestoreInv'
  BY DEF PassthroughInv, RestoreInv, EdidInv, End, chan, Program
<1>4. TornInv'
  BY <1>e DEF PassthroughInv, TypeOK, TornInv, RestoreInv, chan, Program
<1>5. RestartInv'
  BY <1>e
    DEF PassthroughInv, TypeOK, TornInv, RestartInv, FirstTime, Written, RestoreInv,
        VideoSet, chan, Program
<1>6. SetupInv'
  BY <1>e
    DEF PassthroughInv, TypeOK, TornInv, RestoreInv, chan, SetupInv, RestartInv,
        FirstTime, Written, TxSet, VideoSet, SnapSet, PollSet, Program
<1> QED BY <1>1, <1>2, <1>3, <1>4, <1>5, <1>6 DEF PassthroughInv

(* The output follows with the set-up still unfinished.                     *)
LEMMA OutputKeeps == PassthroughInv /\ Output => PassthroughInv'
<1> SUFFICES ASSUME PassthroughInv, Output PROVE PassthroughInv'
  OBVIOUS
<1>e. TypeOK /\ \A r : End(r) => Ended(r)
  BY EndEffect DEF PassthroughInv
<1>a. \E l \in {"up", "late", "stuck"} : tx' = [tx EXCEPT !.state = "part", !.link = l]
  BY Zenon DEF Output
<1>c. tx' \in TxSet
  <2>1. tx \in TxSet
    BY <1>e DEF TypeOK
  <2>2. PICK l \in {"up", "late", "stuck"} : tx' = [tx EXCEPT !.state = "part", !.link = l]
    BY <1>a
  <2>3. [tx EXCEPT !.state = "part", !.link = l] \in TxSet
    BY <2>1, TxUpdates, Zenon
  <2> QED BY <2>2, <2>3
<1>1. TypeOK'
  BY <1>c, <1>e DEF PassthroughInv, TypeOK, Places, env, world, Output
<1>2. EdidInv'
  BY <1>e DEF PassthroughInv, EdidInv, RestoreInv, Output
<1>3. RestoreInv'
  BY DEF PassthroughInv, RestoreInv, EdidInv, End, Output
<1>4. TornInv'
  BY <1>e DEF PassthroughInv, TypeOK, TornInv, RestoreInv, TxSet, Output
<1>5. RestartInv'
  BY <1>e
    DEF PassthroughInv, TypeOK, TornInv, RestartInv, FirstTime, Written, RestoreInv,
        Output
<1>6. SetupInv'
  BY <1>e
    DEF PassthroughInv, TypeOK, TornInv, RestoreInv, TxSet, SetupInv, RestartInv,
        FirstTime, Written, VideoSet, SnapSet, PollSet, Output
<1> QED BY <1>1, <1>2, <1>3, <1>4, <1>5, <1>6 DEF PassthroughInv

(* A pending link is resumed, and restarted only if it was not yet.         *)
LEMMA FinishKeeps == PassthroughInv /\ Finish => PassthroughInv'
<1> SUFFICES ASSUME PassthroughInv, Finish PROVE PassthroughInv'
  OBVIOUS
<1>e. TypeOK /\ \A r : End(r) => Ended(r)
  BY EndEffect DEF PassthroughInv
<1> DEFINE n == IF at = "refinish" /\ video.restarts = 0 THEN video.polls + 1 ELSE video.polls
<1>n. n \in Nat /\ (n # video.polls => at = "refinish" /\ video.restarts = 0)
  BY <1>e DEF TypeOK, VideoSet
<1>a. \/ /\ s' = [s EXCEPT !.configured = TRUE] /\ video' = [video EXCEPT !.waiting = FALSE]
         /\ End("ok") /\ tx' = [tx EXCEPT !.state = "set", !.on = TRUE]
      \/ /\ s' = s /\ video' = [video EXCEPT !.waiting = TRUE, !.polls = n]
         /\ End("again") \/ (Go("restart") /\ n # video.polls)
         /\ tx' = [tx EXCEPT !.state = "set"]
      \/ s' = s /\ video' = video /\ End("fail") /\ tx' = tx
  <2>1. CASE /\ tx' = [tx EXCEPT !.state = "set", !.on = TRUE]
             /\ video' = [video EXCEPT !.waiting = FALSE]
             /\ s' = [s EXCEPT !.configured = TRUE] /\ End("ok")
    BY <2>1
  <2>2. CASE /\ tx' = [tx EXCEPT !.state = "set"]
             /\ video' = [video EXCEPT !.waiting = TRUE, !.polls = n]
             /\ IF n # video.polls /\ n >= LinkPolls THEN Go("restart") ELSE End("again")
             /\ UNCHANGED s
    BY <2>2
  <2>3. CASE Fail /\ UNCHANGED <<tx, video, s>>
    BY <2>3 DEF Fail
  <2> QED BY <2>1, <2>2, <2>3 DEF Finish
<1> HIDE DEF n
<1>c. /\ video' \in VideoSet /\ s' \in SnapSet /\ tx' \in TxSet
      /\ video'.restarts = video.restarts
      /\ \/ End("ok") /\ s'.configured /\ ~video'.waiting /\ tx'.state = "set"
         \/ End("again") /\ s' = s /\ video'.waiting /\ tx'.state = "set"
         \/ Go("restart") /\ s' = s /\ video'.waiting /\ video.restarts = 0 /\ tx'.state = "set"
         \/ End("fail")
  <2>1. tx \in TxSet /\ video \in VideoSet /\ s \in SnapSet
    BY <1>e DEF TypeOK
  <2>2. CASE /\ s' = [s EXCEPT !.configured = TRUE] /\ video' = [video EXCEPT !.waiting = FALSE]
             /\ End("ok") /\ tx' = [tx EXCEPT !.state = "set", !.on = TRUE]
    BY <2>1, <2>2 DEF VideoSet, SnapSet, TxSet
  <2>3. CASE /\ s' = s /\ video' = [video EXCEPT !.waiting = TRUE, !.polls = n]
             /\ End("again") \/ (Go("restart") /\ n # video.polls)
             /\ tx' = [tx EXCEPT !.state = "set"]
    BY <2>1, <2>3, <1>n DEF VideoSet, TxSet
  <2> QED BY <1>a, <2>1, <2>2, <2>3
<1>1. TypeOK'
  BY <1>c, <1>e DEF TypeOK, env, world, chan, Places, Finish
<1>2. EdidInv'
  BY <1>e DEF PassthroughInv, EdidInv, RestoreInv, Finish
<1>3. RestoreInv'
  BY DEF PassthroughInv, RestoreInv, EdidInv, End, chan, Finish
<1>4. TornInv'
  BY <1>e DEF PassthroughInv, TypeOK, TornInv, RestoreInv, TxSet, chan, Finish
<1>5. RestartInv'
  BY <1>c, <1>e
    DEF TypeOK, PollSet, SnapSet, VideoSet, PassthroughInv, RestoreInv, TornInv,
        RestartInv, FirstTime, Written, env, world, chan, Finish
<1>6. SetupInv'
  BY <1>e, <1>c
    DEF PassthroughInv, TypeOK, TornInv, RestoreInv, TxSet, chan, SetupInv,
        RestartInv, FirstTime, Written, VideoSet, SnapSet, PollSet, Finish
<1> QED BY <1>1, <1>2, <1>3, <1>4, <1>5, <1>6 DEF PassthroughInv

(* Resuming writes no set-up, and a changed clock is a new reason.          *)
LEMMA ResumeKeeps == PassthroughInv /\ Resume => PassthroughInv'
<1> SUFFICES ASSUME PassthroughInv, Resume PROVE PassthroughInv'
  OBVIOUS
<1>e. TypeOK /\ \A r : End(r) => Ended(r)
  BY EndEffect DEF PassthroughInv
<1>a. video' \in {video, [video EXCEPT !.waiting = FALSE, !.khz = src.khz],
                    [video EXCEPT !.waiting = FALSE]}
  BY Zenon DEF Resume
<1>b. src.khz \in Nat /\ video \in VideoSet
  BY <1>e, ModeHalves DEF TypeOK
<1>c. /\ video' \in VideoSet
      /\ video'.restarts = video.restarts /\ (video' = video \/ ~video'.waiting)
  BY <1>a, <1>b DEF VideoSet
<1>d. slipped' \in BOOLEAN /\ programs' \in Nat
  <2>1. slipped' \in {slipped, FALSE} /\ programs' \in {programs, 0}
    BY Zenon DEF Resume
  <2>2. slipped' \in BOOLEAN
    BY <2>1, <1>e, Zenon DEF TypeOK
  <2> QED BY <2>1, <2>2, <1>e DEF TypeOK
<1>1. TypeOK'
  BY <1>c, <1>d, <1>e DEF TypeOK, env, world, chan, hw, Places, Resume
<1>2. EdidInv'
  BY <1>e DEF PassthroughInv, EdidInv, RestoreInv, Resume
<1>3. RestoreInv'
  BY DEF PassthroughInv, RestoreInv, EdidInv, End, chan, Resume
<1>4. TornInv'
  BY <1>e DEF PassthroughInv, TypeOK, TornInv, RestoreInv, chan, hw, Resume
<1>5. RestartInv'
  BY <1>c, <1>e
    DEF TypeOK, PollSet, SnapSet, VideoSet, PassthroughInv, RestoreInv, TornInv,
        RestartInv, FirstTime, Written, env, world, chan, hw, Places, Resume
<1>6. SetupInv'
  BY <1>e, <1>c
    DEF PassthroughInv, TypeOK, TornInv, RestoreInv, chan, hw, SetupInv,
        RestartInv, FirstTime, Written, TxSet, VideoSet, SnapSet, PollSet, Resume
<1> QED BY <1>1, <1>2, <1>3, <1>4, <1>5, <1>6 DEF PassthroughInv

(* Removal restores an EDID only if one was written.                        *)
LEMMA RemoveKeeps == PassthroughInv /\ Remove => PassthroughInv'
<1> SUFFICES ASSUME PassthroughInv, Remove PROVE PassthroughInv'
  OBVIOUS
<1>e. TypeOK /\ \A r : End(r) => Ended(r)
  BY EndEffect DEF PassthroughInv
<1>1. TypeOK'
  BY <1>e DEF PassthroughInv, TypeOK, Places, env, world, chan, hw, Remove
<1>2. EdidInv'
  BY DEF PassthroughInv, EdidInv, RestoreInv, Remove
<1>3. RestoreInv'
  BY DEF PassthroughInv, RestoreInv, EdidInv, End, chan, Remove
<1>4. TornInv'
  BY DEF PassthroughInv, TypeOK, TornInv, RestoreInv, chan, hw, Remove
<1>5. RestartInv'
  BY
    DEF PassthroughInv, TypeOK, TornInv, RestartInv, FirstTime, Written, RestoreInv,
        chan, Remove
<1>6. SetupInv'
  BY <1>e
    DEF PassthroughInv, TypeOK, TornInv, RestoreInv, chan, hw, SetupInv,
        RestartInv, FirstTime, Written, TxSet, VideoSet, SnapSet, PollSet, Remove
<1> QED BY <1>1, <1>2, <1>3, <1>4, <1>5, <1>6 DEF PassthroughInv

(* The driver starts without an EDID of its own and nothing set up.         *)
LEMMA InitEstablishes == Init => PassthroughInv
<1> SUFFICES ASSUME Init PROVE PassthroughInv
  OBVIOUS
<1>1. modes \subseteq ModeSet
  BY PassthroughAssumption DEF Init, PassthroughAssumption
<1>2. NoMode \in ModeSet
  BY DEF NoMode, ModeSet
<1>3. s \in SnapSet /\ ~s.configured
  <2>1. Shot(NoMode) \in LowHalf \X HighHalf /\ Lo(NoMode) \in LowHalf
    BY <1>2, ModeHalves DEF Shot
  <2> QED BY <2>1 DEF Init, SnapSet
<1>4. /\ video \in VideoSet /\ ~video.waiting /\ measured \in MeasuredSet
      /\ p \in PollSet /\ tx \in TxSet /\ tx.state = "cold"
  BY DEF Init, VideoSet, NoVideo, MeasuredSet, PollSet, TxSet
<1>5. edid \in EdidSet /\ edid.sram = "orig"
  <2>1. PICK h \in BOOLEAN : edid = [sram |-> "orig", hpd |-> h, ddc |-> h, prior |-> "none",
                                    written |-> FALSE]
    BY Zenon DEF Init
  <2> QED BY <2>1 DEF EdidSet
<1>6. TypeOK
  BY <1>1, <1>2, <1>3, <1>4, <1>5 DEF Init, TypeOK, Places, Channel
<1>7. EdidInv /\ RestoreInv /\ TornInv
  BY <1>3, <1>4, <1>5 DEF Init, EdidInv, RestoreInv, TornInv, Channel
<1>8. RestartInv /\ SetupInv
  BY <1>3, <1>4 DEF Init, RestartInv, SetupInv, FirstTime, Written
<1> QED BY <1>6, <1>7, <1>8 DEF PassthroughInv

(* Every step keeps the invariant.                                          *)
LEMMA NextKeeps == PassthroughInv /\ [Next]_vars => PassthroughInv'
<1> SUFFICES ASSUME PassthroughInv, [Next]_vars PROVE PassthroughInv'
  OBVIOUS
<1>1. CASE UNCHANGED vars
  BY <1>1 DEF vars, env, world, chan, hw, PassthroughInv, TypeOK, EdidInv, RestoreInv,
              TornInv, RestartInv, SetupInv
<1>2. CASE Next
  BY <1>2,
     SourceChangeKeeps, DisplayChangeKeeps, LinkComesKeeps, SettleKeeps,
     RemoveKeeps, PollKeeps, TransferOpenKeeps, TransferKeeps,
     TransferAbortKeeps, TransferCloseKeeps, PowerKeeps, EdidLowKeeps,
     EdidPriorKeeps, EdidWriteKeeps, EdidVerifyKeeps, EdidHighKeeps,
     StatusKeeps, FirstKeeps, SecondKeeps, MeasureKeeps, ActivateKeeps,
     SetupKeeps, ValidateKeeps, ProgramKeeps, OutputKeeps, FinishKeeps,
     ResumeKeeps
     DEF Next, Step
<1> QED BY <1>1, <1>2

(* For every set of source modes, every display and every schedule of       *)
(* changes and failures: the poll keeps its types and the agreement of EDID *)
(* memory, restoration, display channel and set-up.                         *)
THEOREM PassthroughInvariant == Spec => []PassthroughInv
  BY InitEstablishes, NextKeeps, PTL DEF Spec

(* The state of the poll is well typed.                                     *)
THEOREM PassthroughTypes == Spec => []TypeOK
<1>1. PassthroughInv => TypeOK
  BY DEF PassthroughInv
<1> QED BY <1>1, PassthroughInvariant, PTL

(* A poll that only postpones its work left nothing half-written, and what  *)
(* was programmed for a format it refused is neither used nor resumed.      *)
THEOREM NothingTorn == Spec => []StopsWhenTorn
<1>1. PassthroughInv => StopsWhenTorn
  BY DEF PassthroughInv, TypeOK, TornInv, SetupInv, StopsWhenTorn, Channel
<1> QED BY <1>1, PassthroughInvariant, PTL

(* However long a link stays down, a set-up is repeated once.               *)
THEOREM OneRestart == Spec => []RestartOnce
<1>1. PassthroughInv => RestartOnce
  BY DEF PassthroughInv, RestartInv, RestartOnce
<1> QED BY <1>1, PassthroughInvariant, PTL

(* Hot-plug with an enabled channel never shows the source half an EDID.    *)
THEOREM WholeEdid == Spec => []SourceSeesWholeEdid
<1>1. PassthroughInv => SourceSeesWholeEdid
  BY DEF PassthroughInv, EdidInv, SourceSeesWholeEdid
<1> QED BY <1>1, PassthroughInvariant, PTL

(* A removal that succeeds leaves the EDID that was there before.           *)
THEOREM EdidRestored == Spec => []EdidComesBack
<1>1. PassthroughInv => EdidComesBack
  BY DEF PassthroughInv, RestoreInv, EdidComesBack
<1> QED BY <1>1, PassthroughInvariant, PTL
=============================================================================
