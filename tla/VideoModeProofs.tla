-------------------------- MODULE VideoModeProofs --------------------------
(***************************************************************************)
(* Proofs about VideoMode for every set of links, geometries, periods,     *)
(* requests and buffer sizes.                                              *)
(***************************************************************************)
EXTENDS VideoMode, TLAPS

(* The rates that gc573_capture_profile_max_fps() allows.                   *)
LEMMA MaxFpsCases ==
  ASSUME NEW g \in {HD, FHD, QHD}, NEW b \in Nat
  PROVE  /\ ProfileMaxFps(g, b, Experimental) \in {0, 60, 120}
         /\ ProfileMaxFps(g, b, Experimental) = 0 => g = QHD
         /\ ProfileMaxFps(g, b, Experimental) = 120 => g = QHD /\ ~Experimental
         /\ g = QHD /\ ProfileMaxFps(g, b, Experimental) # 0 => b >= 16000
  BY ModeAssumption
  DEF ProfileMaxFps, CaptureMaxFps, ModeSupported, HD, FHD, QHD, ModeAssumption

(* gc573_capture_rate() gives 24 to 60 or 120 for a supported maximum.      *)
LEMMA CaptureRateValid ==
  ASSUME NEW r \in Nat, NEW maximum \in {60, 120}
  PROVE  /\ CaptureRate(r, maximum) \in 24 .. 60 \cup {120}
         /\ CaptureRate(r, maximum) = 120 => maximum = 120
  BY DEF CaptureRate

(* The requested rate is a natural number.                                  *)
LEMMA RequestedRateType ==
  ASSUME NEW i \in Nat \X Nat
  PROVE  RequestedRate(i) \in Nat
<1>1. i[1] \in Nat /\ i[2] \in Nat
  OBVIOUS
<1>2. ASSUME NEW a \in Nat, NEW b \in Nat, a # 0
      PROVE  (b + a \div 2) \div a \in Nat
  <2>1. a \div 2 \in Nat
    OBVIOUS
  <2>2. DEFINE n == b + a \div 2
  <2>3. n \in Nat
    BY <2>1
  <2>4. n \div a \in Nat
    <3> HIDE DEF n
    <3> QED BY <1>2, <2>3
  <2> QED BY <2>4
<1> QED BY <1>1, <1>2 DEF RequestedRate

(***************************************************************************)
(* gc573_capture_timer() in the continuous ring: the timer is a frame of   *)
(* 1/120 s or longer and no shorter than the source's frame.               *)
(***************************************************************************)
LEMMA CaptureTimerBound ==
  ASSUME NEW f \in Nat, NEW p \in Nat, f > 60, CaptureTimer(f, p) # 0
  PROVE  /\ CaptureTimer(f, p) >= FullTimer
         /\ 200 * CaptureTimer(f, p) >= 297 * p
<1> DEFINE source == 1485 * (p \div 1000) + (1485 * (p % 1000) + 999) \div 1000
<1>1. source \in Nat /\ 200 * source >= 297 * p
  BY SMT
<1>2. FullTimer \in Nat
  BY SMT DEF FullTimer
<1>3. CaptureTimer(f, p) = IF source > FullTimer THEN source ELSE FullTimer
  BY SMT DEF CaptureTimer
<1> HIDE DEF source
<1> QED BY SMT, <1>1, <1>2, <1>3

LEMMA CaptureTimerPaced ==
  ASSUME NEW f \in Nat, NEW p \in Nat, f <= 60
  PROVE  CaptureTimer(f, p) = PacedTimer
  BY SMT DEF CaptureTimer

LEMMA CaptureTimerType ==
  ASSUME NEW f \in Nat, NEW p \in Nat
  PROVE  CaptureTimer(f, p) \in Nat
  BY SMT DEF CaptureTimer, PacedTimer, FullTimer

LEMMA PacedTimerType == PacedTimer \in Nat
  BY SMT DEF PacedTimer

(* A frame has a size whatever the format.                                  *)
LEMMA ModeBytesType == \A g \in {HD, FHD, QHD} : ModeBytes(g) \in Nat
  BY DEF ModeBytes, InputSupported, ModeSupported, HD, FHD, QHD

LEMMA GeometryType ==
  /\ {HD, FHD, QHD} \subseteq Nat \X Nat
  /\ \A g : ModeSupported(g) => g \in {HD, FHD, QHD}
  BY DEF HD, FHD, QHD, ModeSupported
-----------------------------------------------------------------------------
LEMMA NegotiatedInit == Init => Negotiated
<1> SUFFICES ASSUME Init PROVE Negotiated
  OBVIOUS
<1>1. fmt \in {HD, FHD, QHD}
  BY GeometryType DEF Init
<1>2. input \in Nat \X Nat /\ frameBytes \in Nat
  BY <1>1, GeometryType, ModeBytesType DEF Init
<1>3. RateValid /\ BuffersFit
  BY DEF Init, RateValid, BuffersFit
<1> QED
  BY <1>1, <1>2, <1>3, ModeAssumption, PacedTimerType
  DEF Init, Negotiated, TypeOK, ModeAssumption, Sources, Unarmed

LEMMA NegotiatedStep == Negotiated /\ [Next]_vars => Negotiated'
<1> SUFFICES ASSUME Negotiated, [Next]_vars PROVE Negotiated'
  OBVIOUS
<1> USE ModeAssumption DEF ModeAssumption
<1>1. CASE LinkRetrain
  BY <1>1 DEF LinkRetrain, Negotiated, TypeOK, RateValid, BuffersFit, user
<1>2. CASE SourceLoss
  BY <1>2 DEF SourceLoss, Negotiated, TypeOK, RateValid, BuffersFit, user, Sources
<1>3. CASE SourceLock
  BY <1>3 DEF SourceLock, Negotiated, TypeOK, RateValid, BuffersFit, user
<1>4. ASSUME NEW g \in Requests, SetFormat(g) PROVE Negotiated'
  <2>1. bandwidth \in Nat
    BY DEF Negotiated, TypeOK
  <2>2. /\ TryFormat(g) \in {HD, FHD, QHD}
        /\ TryFormat(g) = QHD => MaxFps(QHD) # 0
    BY DEF TryFormat, HD, FHD, QHD
  <2>3. MaxFps(fmt') \in {60, 120}
        /\ (MaxFps(fmt') = 120 => fmt' = QHD /\ ~Experimental)
    BY <1>4, <2>1, <2>2, MaxFpsCases DEF SetFormat, MaxFps
  <2>4. RateValid'
    BY <1>4, <2>3 DEF SetFormat, Negotiated, RateValid, MaxFps
  <2>5. BuffersFit'
    BY <1>4 DEF SetFormat, Negotiated, BuffersFit
  <2>6. TypeOK'
    BY <1>4, <2>2, <2>4, ModeBytesType DEF SetFormat, Negotiated, TypeOK, RateValid
  <2> QED BY <1>4, <2>4, <2>5, <2>6 DEF SetFormat, Negotiated
<1>5. ASSUME NEW i \in Intervals, SetParm(i) PROVE Negotiated'
  <2>1. bandwidth \in Nat /\ fmt \in {HD, FHD, QHD}
    BY DEF Negotiated, TypeOK
  <2>2. MaxFps(fmt) \in {60, 120} /\ (MaxFps(fmt) = 120 => fmt = QHD /\ ~Experimental)
    BY <1>5, <2>1, MaxFpsCases DEF SetParm, MaxFps
  <2>3. RequestedRate(i) \in Nat
    BY <1>5, RequestedRateType
  <2>4. RateValid'
    BY <1>5, <2>2, <2>3, CaptureRateValid DEF SetParm, RateValid
  <2> QED BY <1>5, <2>4 DEF SetParm, Negotiated, TypeOK, BuffersFit, RateValid
<1>6. CASE ReqBufs
  BY <1>6 DEF ReqBufs, Negotiated, TypeOK, RateValid, BuffersFit
<1>7. ASSUME NEW s \in Sizes, CreateBufs(s) PROVE Negotiated'
  BY <1>7 DEF CreateBufs, Negotiated, TypeOK, RateValid, BuffersFit
<1>8. ASSUME NEW s \in bufs \cup Sizes, QBuf(s) PROVE Negotiated'
  BY <1>8 DEF QBuf, BufPrepare, Negotiated, TypeOK, RateValid, BuffersFit, user
<1>9. CASE StreamOn
  BY <1>9, ModeBytesType DEF StreamOn, Negotiated, TypeOK, RateValid, BuffersFit, user
<1>10. CASE StreamOff
  BY <1>10, PacedTimerType DEF StreamOff, Negotiated, TypeOK, RateValid, BuffersFit, user, Unarmed
<1>11. CASE Recover
  BY <1>11 DEF Recover, Negotiated, TypeOK, RateValid, BuffersFit, user
<1>12. CASE LatchWidth
  BY <1>12 DEF LatchWidth, Negotiated, TypeOK, RateValid, BuffersFit, user, Sources
<1>13. CASE LatchHeight
  BY <1>13, ModeBytesType
  DEF LatchHeight, Negotiated, TypeOK, RateValid, BuffersFit, user, Sources
<1>14. CASE Match
  BY <1>14 DEF Match, Negotiated, TypeOK, RateValid, BuffersFit, user
<1>15. CASE EnableCheck
  <2>1. ring' \in BOOLEAN
    <3>1. FullRate \in BOOLEAN
      BY DEF FullRate
    <3>2. ring \in BOOLEAN
      BY DEF Negotiated, TypeOK
    <3>3. ring' = FullRate \/ ring' = ring
      BY <1>15 DEF EnableCheck
    <3> QED BY <3>1, <3>2, <3>3
  <2>2. pc' \in {"timer", "failed", "off"} /\ pc = "enable"
    BY <1>15 DEF EnableCheck, Fail
  <2>3. /\ bandwidth' = link /\ armed' = [link |-> link, period |-> 0]
        /\ UNCHANGED <<link, src, user, frameBytes, input, queued, recovering, timer>>
    BY <1>15 DEF EnableCheck
  <2> QED BY <2>1, <2>2, <2>3 DEF Negotiated, TypeOK, RateValid, BuffersFit, user
<1>16. CASE EnableTimer
  <2>1. src.period \in Nat /\ fps \in Nat
    BY DEF Negotiated, TypeOK, Sources
  <2>2. CaptureTimer(fps, src.period) \in Nat
    BY <2>1, CaptureTimerType
  <2> QED BY <1>16, <2>1, <2>2
          DEF EnableTimer, Fail, Negotiated, TypeOK, RateValid, BuffersFit, user
<1>17. CASE CopyFrame
  BY <1>17 DEF CopyFrame, Negotiated, TypeOK, RateValid, BuffersFit, user
<1>18. CASE ArmUnchecked
  BY <1>18 DEF ArmUnchecked, Negotiated, TypeOK, RateValid, BuffersFit, user
<1>19. CASE InputLost
  BY <1>19, PacedTimerType DEF InputLost, Negotiated, TypeOK, RateValid, BuffersFit, user, Unarmed
<1>20. CASE UNCHANGED vars
  BY <1>20 DEF vars, Negotiated, TypeOK, RateValid, BuffersFit
<1> QED
  BY <1>1, <1>2, <1>3, <1>4, <1>5, <1>6, <1>7, <1>8, <1>9, <1>10, <1>11, <1>12,
     <1>13, <1>14, <1>15, <1>16, <1>17, <1>18, <1>19, <1>20
  DEF Next, User, Worker

(***************************************************************************)
(* Whatever the source, the link and the program do, even if a signal      *)
(* comes inside STREAMON: the rate is one that the driver can pace, and    *)
(* queued buffers hold a frame of the selected format.                     *)
(***************************************************************************)
THEOREM NegotiationSafe == Spec => [](RateValid /\ BuffersFit)
<1>1. Negotiated => RateValid /\ BuffersFit
  BY DEF Negotiated
<1> QED BY NegotiatedInit, NegotiatedStep, <1>1, PTL DEF Spec
-----------------------------------------------------------------------------
LEMMA CheckedInit == Init => Checked
  BY DEF Init, Checked

(* Steps that leave alone everything that Checked speaks of.                *)
LEMMA CheckedFrame ==
  ASSUME Checked,
         UNCHANGED <<fmt, fps, input, pc, ring, timer, armed>>
  PROVE  Checked'
  BY DEF Checked, FullRate

(* Away from the states it constrains, Checked says nothing.                *)
LEMMA CheckedElsewhere ==
  ASSUME pc' \notin {"timer", "run"}
  PROVE  Checked'
  BY DEF Checked

LEMMA CheckedStep ==
  ASSUME Negotiated, Checked, [Next]_vars
  PROVE  Checked'
<1>1. CASE LinkRetrain
  BY <1>1, CheckedFrame DEF LinkRetrain, user
<1>2. CASE SourceLoss
  BY <1>2, CheckedFrame DEF SourceLoss, user
<1>3. CASE SourceLock
  BY <1>3, CheckedFrame DEF SourceLock, user
<1>4. ASSUME NEW g \in Requests, SetFormat(g) PROVE Checked'
  <2>1. pc = "off" /\ pc' = "off"
    BY <1>4 DEF SetFormat, Negotiated
  <2> QED BY <2>1, CheckedElsewhere
<1>5. ASSUME NEW i \in Intervals, SetParm(i) PROVE Checked'
  <2>1. pc = "off" /\ pc' = "off"
    BY <1>5 DEF SetParm, Negotiated
  <2> QED BY <2>1, CheckedElsewhere
<1>6. CASE ReqBufs
  BY <1>6, CheckedElsewhere DEF ReqBufs
<1>7. ASSUME NEW s \in Sizes, CreateBufs(s) PROVE Checked'
  BY <1>7, CheckedFrame DEF CreateBufs
<1>8. ASSUME NEW s \in bufs \cup Sizes, QBuf(s) PROVE Checked'
  BY <1>8, CheckedFrame DEF QBuf, user
<1>9. CASE StreamOn
  BY <1>9, CheckedElsewhere DEF StreamOn
<1>10. CASE StreamOff
  BY <1>10, CheckedElsewhere DEF StreamOff
<1>11. CASE Recover
  BY <1>11, CheckedElsewhere DEF Recover
<1>12. CASE LatchWidth
  BY <1>12, CheckedElsewhere DEF LatchWidth
<1>13. CASE LatchHeight
  BY <1>13, CheckedElsewhere DEF LatchHeight
<1>14. CASE Match
  BY <1>14, CheckedElsewhere DEF Match
<1>15. CASE EnableCheck
  <2>1. CASE pc' = "timer"
    <3>1. /\ fps <= ProfileMaxFps(fmt, link, Experimental)
          /\ ScalerAccepts(input, fmt)
          /\ ring' = FullRate
      BY <1>15, <2>1 DEF EnableCheck, Fail
    <3>2. armed'.link = link /\ UNCHANGED <<fmt, fps, input>>
      BY <1>15 DEF EnableCheck, user
    <3>3. FullRate' = FullRate
      BY <3>2 DEF FullRate
    <3> QED BY <2>1, <3>1, <3>2, <3>3 DEF Checked
  <2>2. CASE pc' # "timer"
    BY <1>15, <2>2, CheckedElsewhere DEF EnableCheck, Fail
  <2> QED BY <2>1, <2>2
<1>16. CASE EnableTimer
  <2>1. CASE pc' = "run"
    <3>1. /\ pc = "timer"
          /\ timer' = CaptureTimer(fps, src.period) /\ timer' # 0
      BY <1>16, <2>1 DEF EnableTimer, Fail
    <3>2. /\ armed'.period = src.period /\ armed'.link = armed.link
          /\ UNCHANGED <<fmt, fps, input, ring>>
      BY <1>16 DEF EnableTimer, user
    <3>3. FullRate' = FullRate
      BY <3>2 DEF FullRate
    <3> QED BY <2>1, <3>1, <3>2, <3>3 DEF Checked
  <2>2. CASE pc' # "run"
    BY <1>16, <2>2, CheckedElsewhere DEF EnableTimer, Fail
  <2> QED BY <2>1, <2>2
<1>17. CASE CopyFrame
  BY <1>17, CheckedFrame DEF CopyFrame, user
<1>18. CASE ArmUnchecked
  BY <1>18, CheckedElsewhere DEF ArmUnchecked
<1>19. CASE InputLost
  BY <1>19, CheckedElsewhere DEF InputLost
<1>20. CASE UNCHANGED vars
  BY <1>20, CheckedFrame DEF vars
<1> QED
  BY <1>1, <1>2, <1>3, <1>4, <1>5, <1>6, <1>7, <1>8, <1>9, <1>10, <1>11, <1>12,
     <1>13, <1>14, <1>15, <1>16, <1>17, <1>18, <1>19, <1>20
  DEF Next, User, Worker

(* What holds while DMA runs follows from the invariant.                    *)
LEMMA CheckedImplies ==
  ASSUME Negotiated, Checked
  PROVE  TimerBounded /\ LargeFrameNeedsLink /\ DmaInputSupported
<1> SUFFICES ASSUME pc = "run"
             PROVE  TimerBounded /\ LargeFrameNeedsLink /\ DmaInputSupported
  BY DEF TimerBounded, LargeFrameNeedsLink, DmaInputSupported
<1>1. /\ fmt \in {HD, FHD, QHD} /\ fps \in Nat
      /\ armed.link \in Nat /\ armed.period \in Nat
      /\ RateValid
  BY DEF Negotiated, TypeOK
<1>2. /\ ScalerAccepts(input, fmt)
      /\ fps <= ProfileMaxFps(fmt, armed.link, Experimental)
      /\ ring = FullRate
      /\ timer = CaptureTimer(fps, armed.period) /\ timer # 0
  BY DEF Checked
<1>3. TimerBounded
  <2>1. CASE fps > 60
    <3>1. fmt = QHD
      BY <1>1, <2>1 DEF RateValid
    <3>2. ring
      BY <1>2, <2>1, <3>1 DEF FullRate, QHD
    <3> QED BY <1>1, <1>2, <2>1, <3>2, CaptureTimerBound DEF TimerBounded
  <2>2. CASE fps <= 60
    <3>1. ~ring
      <4>1. ~FullRate
        BY <1>1, <2>2 DEF FullRate
      <4> QED BY <1>2, <4>1
    <3> QED BY <1>1, <1>2, <2>2, <3>1, CaptureTimerPaced DEF TimerBounded
  <2> QED BY <1>1, <2>1, <2>2
<1>4. LargeFrameNeedsLink
  <2>1. fps >= 24
    BY <1>1 DEF RateValid
  <2>2. ProfileMaxFps(fmt, armed.link, Experimental) # 0
    BY <1>1, <1>2, <2>1
  <2> QED BY <1>1, <2>2, MaxFpsCases DEF LargeFrameNeedsLink
<1>5. DmaInputSupported
  BY <1>2 DEF DmaInputSupported, ScalerAccepts, InputSupported, ModeSupported,
              HD, FHD, QHD
<1> QED BY <1>3, <1>4, <1>5

(* Negotiation and admission keep the invariant: for every link, source and *)
(* program.                                                                 *)
THEOREM ModeInvariant == Spec => [](Negotiated /\ Checked)
<1>1. Init => Negotiated /\ Checked
  BY NegotiatedInit, CheckedInit
<1>2. Negotiated /\ Checked /\ [Next]_vars => (Negotiated /\ Checked)'
  BY NegotiatedStep, CheckedStep
<1> QED BY <1>1, <1>2, PTL DEF Spec

(* While DMA runs that cap_enable() let through, the continuous ring never  *)
(* samples faster than 120 Hz or than the source that cap_enable() saw.     *)
THEOREM DmaTimer == Spec => []TimerBounded
  BY ModeInvariant, CheckedImplies, PTL

(* 1440p runs only on a link that could carry it when cap_enable() looked.  *)
THEOREM DmaLink == Spec => []LargeFrameNeedsLink
  BY ModeInvariant, CheckedImplies, PTL

(* The input of a capture that cap_enable() let through is one that the     *)
(* scaler takes.                                                            *)
THEOREM DmaInput == Spec => []DmaInputSupported
  BY ModeInvariant, CheckedImplies, PTL

(* For an interval of b / a frames per second, none of which is a half off  *)
(* a whole rate, cap_set_parm() selects the rate rounded up.                *)
LEMMA IntervalSelects ==
  ASSUME NEW g \in {HD, FHD, QHD}, NEW maximum \in {0, 60, 120},
         maximum = 120 => g = QHD, NEW i \in EnumIntervals(g, maximum)
  PROVE  LET rate == CaptureRate(RequestedRate(i), maximum) IN
         rate * i[1] >= i[2] /\ (rate - 1) * i[1] < i[2]
<1>1. maximum \in {60, 120}
  BY DEF EnumIntervals
<1>2. /\ i \in {<<1, 60>>, <<1001, 60000>>, <<1, 50>>, <<1, 30>>, <<1001, 30000>>, <<1, 25>>,
                <<1, 24>>, <<1001, 24000>>, <<1, 120>>, <<1001, 120000>>}
      /\ i \in {<<1, 120>>, <<1001, 120000>>} => maximum = 120
  BY <1>1 DEF EnumIntervals
<1>3. CASE i = <<1, 60>>
  BY <1>1, <1>3 DEF RequestedRate, CaptureRate
<1>4. CASE i = <<1001, 60000>>
  BY <1>1, <1>4 DEF RequestedRate, CaptureRate
<1>5. CASE i = <<1, 50>>
  BY <1>1, <1>5 DEF RequestedRate, CaptureRate
<1>6. CASE i = <<1, 30>>
  BY <1>1, <1>6 DEF RequestedRate, CaptureRate
<1>7. CASE i = <<1001, 30000>>
  BY <1>1, <1>7 DEF RequestedRate, CaptureRate
<1>8. CASE i = <<1, 25>>
  BY <1>1, <1>8 DEF RequestedRate, CaptureRate
<1>9. CASE i = <<1, 24>>
  BY <1>1, <1>9 DEF RequestedRate, CaptureRate
<1>10. CASE i = <<1001, 24000>>
  BY <1>1, <1>10 DEF RequestedRate, CaptureRate
<1>11. CASE i = <<1, 120>>
  BY <1>2, <1>11 DEF RequestedRate, CaptureRate
<1>12. CASE i = <<1001, 120000>>
  BY <1>2, <1>12 DEF RequestedRate, CaptureRate
<1> QED BY <1>2, <1>3, <1>4, <1>5, <1>6, <1>7, <1>8, <1>9, <1>10, <1>11, <1>12

(* Every interval cap_enum_interval() offers is honoured by cap_set_parm(), *)
(* whatever the link and the selected format.                               *)
THEOREM OffersHonoured == Spec => []IntervalsHonoured
<1>1. ASSUME Negotiated PROVE IntervalsHonoured
  <2>1. fmt \in {HD, FHD, QHD} /\ bandwidth \in Nat
    BY <1>1, ModeAssumption DEF Negotiated, TypeOK
  <2>2. MaxFps(fmt) \in {0, 60, 120} /\ (MaxFps(fmt) = 120 => fmt = QHD)
    BY <2>1, MaxFpsCases DEF MaxFps
  <2> SUFFICES ASSUME NEW i \in EnumIntervals(fmt, MaxFps(fmt))
               PROVE  LET rate == CaptureRate(RequestedRate(i), MaxFps(fmt)) IN
                      rate * i[1] >= i[2] /\ (rate - 1) * i[1] < i[2]
    BY DEF IntervalsHonoured
  <2> QED BY <2>1, <2>2, IntervalSelects
<1> QED BY <1>1, ModeInvariant, PTL
=============================================================================
