------------------------------- MODULE Modes -------------------------------
(***************************************************************************)
(* The pure functions of driver/gc573_modes.h: geometries, capture rates   *)
(* and timer periods.  A geometry is a pair <<width, height>>; a function  *)
(* that is a truth value in the code is one here.                          *)
(***************************************************************************)
EXTENDS Naturals

HD   == <<1280, 720>>
FHD  == <<1920, 1080>>
QHD  == <<2560, 1440>>

(* gc573_mode_supported(), gc573_input_supported(), gc573_mode_bytes().     *)
ModeSupported(g)  == g \in {HD, FHD}
InputSupported(g) == ModeSupported(g) \/ g = QHD
ModeBytes(g)      == IF InputSupported(g) THEN g[1] * g[2] * 3 ELSE 0

(* gc573_capture_max_fps(): 1440p needs the bandwidth of a Gen2 x4 link.    *)
CaptureMaxFps(g, bandwidth) ==
  IF ModeSupported(g) THEN 60
  ELSE IF g = QHD /\ bandwidth >= 16000 THEN 120 ELSE 0

(* gc573_capture_profile_max_fps(): the opt-in 144 Hz input stays at 60.    *)
ProfileMaxFps(g, bandwidth, experimental) ==
  LET maximum == CaptureMaxFps(g, bandwidth) IN
  IF experimental /\ maximum > 60 THEN 60 ELSE maximum

(* gc573_input_period_supported(): 23 to 121 Hz in ticks of 100 MHz, and    *)
(* 143 to 145 Hz for the opt-in profile.                                    *)
MinPeriod == 100000000 \div 121
MaxPeriod == 100000000 \div 23

PeriodSupported(g, period, experimental) ==
  \/ period \in MinPeriod .. MaxPeriod
  \/ /\ experimental /\ g = QHD
     /\ period \in 100000000 \div 145 .. 100000000 \div 143

(* gc573_capture_rate(): at least 24, at most the maximum, and 60 for what  *)
(* lies between the paced rates and the full rate of 120.                   *)
CaptureRate(requested, maximum) ==
  IF maximum = 0 THEN 0
  ELSE LET floor == IF requested < 24 THEN 24 ELSE requested
           rate  == IF floor > maximum THEN maximum ELSE floor
       IN  IF rate > 60 /\ rate < 120 THEN 60 ELSE rate

(* The timer's period at 60 fps, which a video reset restores, and the one  *)
(* of 120 fps.                                                              *)
PacedTimer == 2475000
FullTimer  == 148500000 \div 120

\* mutant: the source period is rounded down
CaptureTimerFloor(fps, period) ==
  LET source == 1485 * (period \div 1000) + (1485 * (period % 1000)) \div 1000 IN
  IF fps <= 60 THEN PacedTimer
  ELSE IF fps # 120 \/ period \notin MinPeriod .. MaxPeriod THEN 0
  ELSE IF source > FullTimer THEN source ELSE FullTimer

(***************************************************************************)
(* gc573_capture_timer(): the period of the capture timer in ticks of      *)
(* 148.5 MHz.  The source period is (period * 1485 + 999) / 1000 in 64     *)
(* bits; period is split in thousands here, which gives the same quotient  *)
(* and stays within TLC's integers.                                        *)
(***************************************************************************)
CaptureTimer(fps, period) ==
  LET source == 1485 * (period \div 1000)
                  + (1485 * (period % 1000) + 999) \div 1000
  IN  IF fps <= 60 THEN PacedTimer
      ELSE IF fps # 120 \/ period \notin MinPeriod .. MaxPeriod THEN 0
      ELSE IF source > FullTimer THEN source ELSE FullTimer

\* mutant: the quotient is rounded down
RequestedRateFloor(interval) ==
  IF interval[1] = 0 THEN 60 ELSE interval[2] \div interval[1]

(* cap_set_parm(): DIV_ROUND_CLOSEST_ULL(denominator, numerator) frames per *)
(* second, 60 if the numerator is zero.                                     *)
RequestedRate(interval) ==
  IF interval[1] = 0 THEN 60
  ELSE (interval[2] + interval[1] \div 2) \div interval[1]

(* cap_enum_interval(): the intervals offered for a geometry.               *)
EnumIntervals(g, maximum) ==
  IF maximum = 0 THEN {}
  ELSE {<<1, 60>>, <<1001, 60000>>, <<1, 50>>}
         \cup (IF g = HD THEN {}
               ELSE {<<1, 30>>, <<1001, 30000>>, <<1, 25>>, <<1, 24>>,
                     <<1001, 24000>>})
         \cup (IF g = QHD /\ maximum > 60 THEN {<<1, 120>>, <<1001, 120000>>}
               ELSE {})
=============================================================================
