----------------------------- MODULE VideoMode -----------------------------
(***************************************************************************)
(* The capture mode of driver/gc573_capture.c: format, rate and buffers as *)
(* the V4L2 ioctls negotiate them, and the checks that cap_start_streaming *)
(* and the worker's recovery make before video DMA runs.  The HDMI source  *)
(* and the PCIe link may change between any two register reads.            *)
(***************************************************************************)
EXTENDS Modes, FiniteSets

CONSTANTS
  Experimental,  \* c->experimental_144hz, a module parameter
  Links,         \* values of pcie_bandwidth_available(), in Mb/s
  Geometries,    \* geometries that the input timing registers report
  Periods,       \* frame periods that register 0x1010 reports
  Requests,      \* geometries that a program asks for with VIDIOC_S_FMT
  Intervals,     \* frame intervals that a program asks for
  Sizes          \* sizes of buffers that a program creates or imports

ASSUME ModeAssumption ==
  /\ Experimental \in BOOLEAN
  /\ Links \subseteq Nat /\ Links # {}
  /\ Geometries \subseteq Nat \X Nat /\ Geometries # {}
  /\ Periods \subseteq Nat /\ Periods # {}
  /\ Requests \subseteq Nat \X Nat
  /\ Intervals \subseteq Nat \X Nat
  /\ Sizes \subseteq Nat

VARIABLES
  link,       \* bandwidth of the narrowest upstream link
  src,        \* what the input registers report: [locked, geo, period];
              \* locked includes io.ready()
  bandwidth,  \* c->pcie_bandwidth
  fmt,        \* <<c->width, c->height>>
  fps,        \* c->fps
  frameBytes, \* c->frame_bytes
  input,      \* <<c->input_width, c->input_height>>
  bufs,       \* sizes of the allocated buffers; vb2_is_busy() iff not empty
  queued,     \* sizes of the buffers handed to the driver
  pc,         \* where STREAMON or the worker stands; "run" once cap_enable()
              \* has passed, "unchecked" if DMA runs without it
  recovering, \* the steps of pc belong to the worker, not to STREAMON
  ring,       \* c->ring_active
  timer,      \* register 0x103c
  armed       \* history: link and period that cap_enable() read for this
              \* capture

user == <<fmt, fps, bufs>>
vars == <<link, src, bandwidth, fmt, fps, frameBytes, input, bufs, queued,
          pc, recovering, ring, timer, armed>>

Sources == [locked : BOOLEAN, geo : Geometries, period : Periods]

(* cap_max_fps().                                                           *)
MaxFps(g) == ProfileMaxFps(g, bandwidth, Experimental)

(* What a function finds that reads the FPGA's input register by register:  *)
(* the period, which is read first, is the present one; lock, width and     *)
(* height may each be those of what the source has become meanwhile.        *)
Readings ==
  {[locked |-> l, geo |-> <<g[1], h[2]>>, period |-> src.period] :
     l \in BOOLEAN, g, h \in Geometries}

(* The part of cap_input_matches() that compares the FPGA's input.          *)
Matches(reading) ==
  /\ fmt[1] <= input[1] /\ fmt[2] <= input[2]
  /\ reading.locked /\ reading.geo = input
  /\ PeriodSupported(input, reading.period, Experimental)

\* mutant: the scaler takes any input that is large enough
ScalerAcceptsAny(in, out) == out[1] <= in[1]

(* gc573_scaler_configure(): the geometries it takes.                       *)
ScalerAccepts(in, out) ==
  in \in {HD, FHD, QHD} /\ out \in {HD, FHD, QHD} /\ out[1] <= in[1]

Unarmed == [link |-> 0, period |-> 0]

(* cap_prepare().                                                           *)
Init ==
  /\ link \in Links
  /\ src \in Sources
  /\ bandwidth = link
  /\ fmt = IF ModeSupported(src.geo) THEN src.geo ELSE FHD
  /\ input = fmt
  /\ fps = 60
  /\ frameBytes = ModeBytes(fmt)
  /\ bufs = {} /\ queued = {}
  /\ pc = "off" /\ recovering = FALSE
  /\ ring = FALSE /\ timer = PacedTimer
  /\ armed = Unarmed
-----------------------------------------------------------------------------
(* External: the PCIe link trains again, perhaps slower.                    *)
LinkRetrain ==
  /\ link' \in Links \ {link}
  /\ UNCHANGED <<src, bandwidth, user, frameBytes, input, queued, pc,
                 recovering, ring, timer, armed>>

(* External: the source goes away; it comes back in any mode.               *)
SourceLoss ==
  /\ src.locked
  /\ src' = [locked |-> FALSE, geo |-> src.geo, period |-> src.period]
  /\ UNCHANGED <<link, bandwidth, user, frameBytes, input, queued, pc,
                 recovering, ring, timer, armed>>

SourceLock ==
  /\ ~src.locked
  /\ src' \in {s \in Sources : s.locked}
  /\ UNCHANGED <<link, bandwidth, user, frameBytes, input, queued, pc,
                 recovering, ring, timer, armed>>
-----------------------------------------------------------------------------
(* The ioctls hold c->mutex, so none runs inside another's STREAMON.        *)
IoctlMayRun ==
  recovering \/ pc \in {"off", "idle", "run", "unchecked", "wait", "failed"}

(* cap_try_format().                                                        *)
TryFormat(request) ==
  IF request[1] > 1920 /\ request[2] > 1080 /\ MaxFps(QHD) # 0 THEN QHD
  ELSE IF request[1] <= 1280 /\ request[2] <= 720 THEN HD ELSE FHD

\* mutant: the format may change under allocated buffers
SetFormatBusy(request) ==
  LET g == TryFormat(request) IN
  /\ IoctlMayRun
  /\ fmt' = g
  /\ frameBytes' = ModeBytes(g)
  /\ fps' = IF fps < MaxFps(g) THEN fps ELSE MaxFps(g)
  /\ UNCHANGED <<link, src, bandwidth, input, bufs, queued, pc, recovering,
                 ring, timer, armed>>

(* cap_set_format().                                                        *)
SetFormat(request) ==
  LET g == TryFormat(request) IN
  /\ IoctlMayRun
  /\ bufs = {}
  /\ fmt' = g
  /\ frameBytes' = ModeBytes(g)
  /\ fps' = IF fps < MaxFps(g) THEN fps ELSE MaxFps(g)
  /\ UNCHANGED <<link, src, bandwidth, input, bufs, queued, pc, recovering,
                 ring, timer, armed>>

(* cap_set_parm().                                                          *)
SetParm(interval) ==
  /\ IoctlMayRun
  /\ bufs = {}
  /\ MaxFps(fmt) # 0
  /\ fps' = CaptureRate(RequestedRate(interval), MaxFps(fmt))
  /\ UNCHANGED <<link, src, bandwidth, fmt, frameBytes, input, bufs, queued,
                 pc, recovering, ring, timer, armed>>

(***************************************************************************)
(* cap_queue_setup() for VIDIOC_REQBUFS, which takes the driver's size,    *)
(* and for VIDIOC_CREATE_BUFS, which brings one.  REQBUFS frees the old    *)
(* buffers and is refused while streaming.                                 *)
(***************************************************************************)
ReqBufs ==
  /\ pc = "off"
  /\ bufs' \in {{}, {frameBytes}}
  /\ queued' = {}
  /\ UNCHANGED <<link, src, bandwidth, fmt, fps, frameBytes, input, pc,
                 recovering, ring, timer, armed>>

CreateBufs(size) ==
  /\ IoctlMayRun
  /\ size >= frameBytes
  /\ bufs' = bufs \cup {size}
  /\ UNCHANGED <<link, src, bandwidth, fmt, fps, frameBytes, input, queued,
                 pc, recovering, ring, timer, armed>>

(* cap_buf_prepare().                                                       *)
BufPrepare(size) == size >= frameBytes

(* VIDIOC_QBUF of an allocated buffer or of an imported DMABUF.             *)
QBuf(size) ==
  /\ IoctlMayRun
  /\ bufs # {}
  /\ size \in bufs \cup Sizes
  /\ BufPrepare(size)
  /\ queued' = queued \cup {size}
  /\ UNCHANGED <<link, src, bandwidth, user, frameBytes, input, pc,
                 recovering, ring, timer, armed>>
-----------------------------------------------------------------------------
(* cap_start_streaming() and each round of the worker's recovery look at    *)
(* the input first; recovery also wants it locked.                          *)
StreamOn ==
  /\ pc = "off" /\ queued # {}
  /\ \E r \in Readings :
       pc' = IF InputSupported(r.geo) THEN "width" ELSE "match"
  /\ frameBytes' = ModeBytes(fmt)
  /\ recovering' = FALSE
  /\ UNCHANGED <<link, src, bandwidth, user, input, queued, ring, timer, armed>>

Recover ==
  /\ pc = "wait"
  /\ \E r \in Readings :
       pc' = IF r.locked /\ InputSupported(r.geo) THEN "width" ELSE "match"
  /\ recovering' = TRUE
  /\ UNCHANGED <<link, src, bandwidth, user, frameBytes, input, queued, ring,
                 timer, armed>>

(* c->input_width and c->input_height are read again, one after the other.  *)
LatchWidth ==
  /\ pc = "width"
  /\ input' = <<src.geo[1], input[2]>>
  /\ pc' = "height"
  /\ UNCHANGED <<link, src, bandwidth, user, frameBytes, queued, recovering,
                 ring, timer, armed>>

LatchHeight ==
  /\ pc = "height"
  /\ input' = <<input[1], src.geo[2]>>
  /\ frameBytes' = ModeBytes(fmt)
  /\ pc' = "match"
  /\ UNCHANGED <<link, src, bandwidth, user, queued, recovering, ring, timer,
                 armed>>

Match ==
  /\ pc = "match"
  /\ \E r \in Readings :
       pc' = IF Matches(r) THEN "enable" ELSE IF recovering THEN "wait" ELSE "idle"
  /\ UNCHANGED <<link, src, bandwidth, user, frameBytes, input, queued,
                 recovering, ring, timer, armed>>

(* The mode that cap_enable() runs in the continuous ring.                  *)
FullRate == fmt[1] = 2560 /\ fps > 60

(* STREAMON returns an error; the worker reports one and ends.              *)
Fail == pc' = IF recovering THEN "failed" ELSE "off"

\* mutant: the cached bandwidth is good enough
EnableCheckCached ==
  /\ pc = "enable"
  /\ armed' = [link |-> link, period |-> 0]
  /\ \/ /\ fps <= MaxFps(fmt) /\ ScalerAccepts(input, fmt)
        /\ pc' = "timer"
        /\ ring' = FullRate
     \/ /\ ~(fps <= MaxFps(fmt) /\ ScalerAccepts(input, fmt))
        /\ Fail
        /\ UNCHANGED ring
  /\ UNCHANGED <<link, src, bandwidth, user, frameBytes, input, queued,
                 recovering, timer>>

(* cap_enable(): the link is read again, the scaler checks the geometries.  *)
EnableCheck ==
  /\ pc = "enable"
  /\ bandwidth' = link
  /\ armed' = [link |-> link, period |-> 0]
  /\ LET fits == /\ fps <= ProfileMaxFps(fmt, link, Experimental)
                 /\ ScalerAccepts(input, fmt)
     IN  \/ /\ fits
            /\ pc' = "timer"
            /\ ring' = FullRate
         \/ /\ ~fits
            /\ Fail
            /\ UNCHANGED ring
  /\ UNCHANGED <<link, src, user, frameBytes, input, queued, recovering, timer>>

(* cap_enable(): the period is read, perhaps another one than Match saw.    *)
EnableTimer ==
  /\ pc = "timer"
  /\ armed' = [link |-> armed.link, period |-> src.period]
  /\ LET ticks == CaptureTimer(fps, src.period)
     IN  \/ /\ ticks # 0
            /\ timer' = ticks
            /\ pc' = "run"
         \/ /\ ticks = 0
            /\ Fail
            /\ UNCHANGED timer
  /\ UNCHANGED <<link, src, bandwidth, user, frameBytes, input, queued,
                 recovering, ring>>
-----------------------------------------------------------------------------
(***************************************************************************)
(* The worker takes a buffer.  If the input still matches, a frame is      *)
(* copied; else cap_stop() ends DMA, whose reset restores the timer.       *)
(***************************************************************************)
CopyFrame ==
  /\ pc \in {"run", "unchecked"} /\ \E r \in Readings : Matches(r)
  /\ \E b \in queued : queued' = queued \ {b}
  /\ UNCHANGED <<link, src, bandwidth, user, frameBytes, input, pc,
                 recovering, ring, timer, armed>>

(* STREAMON saw no input and did not call cap_enable(), but the worker sees  *)
(* one: cap_arm() starts DMA all the same.                                  *)
ArmUnchecked ==
  /\ pc = "idle" /\ queued # {} /\ \E r \in Readings : Matches(r)
  /\ pc' = "unchecked"
  /\ UNCHANGED <<link, src, bandwidth, user, frameBytes, input, queued,
                 recovering, ring, timer, armed>>

InputLost ==
  /\ pc \in {"idle", "run", "unchecked"} /\ queued # {}
  /\ \E r \in Readings : ~Matches(r)
  /\ pc' = "wait"
  /\ ring' = FALSE /\ timer' = PacedTimer /\ armed' = Unarmed
  /\ UNCHANGED <<link, src, bandwidth, user, frameBytes, input, queued,
                 recovering>>

(* cap_stop_streaming(): the worker is joined, DMA ends, buffers go back.   *)
StreamOff ==
  /\ pc \in {"idle", "run", "unchecked", "wait", "failed"}
  /\ pc' = "off"
  /\ recovering' = FALSE
  /\ ring' = FALSE /\ timer' = PacedTimer /\ armed' = Unarmed
  /\ queued' = {}
  /\ UNCHANGED <<link, src, bandwidth, user, frameBytes, input>>

Worker == Recover \/ LatchWidth \/ LatchHeight \/ Match \/ EnableCheck
            \/ EnableTimer \/ CopyFrame \/ ArmUnchecked
            \/ InputLost

User ==
  \/ \E g \in Requests : SetFormat(g)
  \/ \E i \in Intervals : SetParm(i)
  \/ ReqBufs
  \/ \E s \in Sizes : CreateBufs(s)
  \/ \E s \in bufs \cup Sizes : QBuf(s)
  \/ StreamOn \/ StreamOff

Next == LinkRetrain \/ SourceLoss \/ SourceLock \/ User \/ Worker

Spec == Init /\ [][Next]_vars

-----------------------------------------------------------------------------
TypeOK ==
  /\ link \in Links /\ bandwidth \in Links
  /\ src \in Sources
  /\ fmt \in {HD, FHD, QHD} /\ input \in Nat \X Nat
  /\ fps \in Nat /\ frameBytes \in Nat /\ timer \in Nat
  /\ bufs \subseteq Nat /\ queued \subseteq Nat
  /\ pc \in {"off", "width", "height", "match", "enable", "timer", "idle",
             "run", "unchecked", "wait", "failed"}
  /\ recovering \in BOOLEAN /\ ring \in BOOLEAN
  /\ armed \in [link : Nat, period : Nat]

(***************************************************************************)
(* Whatever formats, intervals and link widths follow one another, c->fps  *)
(* is a rate that the driver can pace: 24 to 60, or 120, which only the    *)
(* continuous ring delivers, for 1440p without the opt-in profile.  It is  *)
(* never zero, which cap_parm(), cap_arm() and cap_transfer() divide by.   *)
(***************************************************************************)
RateValid ==
  /\ fps \in 24 .. 60 \cup {120}
  /\ fps = 120 => fmt = QHD /\ ~Experimental

(***************************************************************************)
(* While the continuous ring runs, its timer is no faster than 120 Hz and  *)
(* no faster than the source that cap_enable() saw (ticks of 148.5 MHz     *)
(* against ticks of 100 MHz); every other capture runs on the 60 Hz timer. *)
(* A source that goes and returns slower unseen keeps the faster timer.    *)
(***************************************************************************)
TimerBounded ==
  pc = "run" =>
    IF ring THEN timer >= FullTimer /\ 200 * timer >= 297 * armed.period
            ELSE timer = PacedTimer /\ fps <= 60

(***************************************************************************)
(* DMA of 1440p frames that cap_enable() let through runs only if the link *)
(* had the bandwidth of Gen2 x4 at that time, however it trained since     *)
(* S_FMT.                                                                  *)
(***************************************************************************)
LargeFrameNeedsLink ==
  pc = "run" /\ fmt = QHD => armed.link >= 16000

(***************************************************************************)
(* cap_enable() lets DMA run only for an input that the scaler can bring   *)
(* to the selected format, although width and height are read twice and    *)
(* the source may have changed in between.                                 *)
(***************************************************************************)
DmaInputSupported ==
  pc = "run" => InputSupported(input) /\ fmt[1] <= input[1] /\ fmt[2] <= input[2]

(***************************************************************************)
(* The size of a frame is that of the selected format, and every buffer    *)
(* that the worker may copy a frame into is at least as large.             *)
(***************************************************************************)
BuffersFit ==
  /\ frameBytes = ModeBytes(fmt)
  /\ \A b \in queued : b >= frameBytes

(***************************************************************************)
(* Every interval that cap_enum_interval() offers for the selected format  *)
(* is honoured by cap_set_parm(): the whole rate it selects is the offered *)
(* one rounded up, so 59.94 selects 60 and never 59.                       *)
(***************************************************************************)
IntervalsHonoured ==
  \A i \in EnumIntervals(fmt, MaxFps(fmt)) :
    LET rate == CaptureRate(RequestedRate(i), MaxFps(fmt)) IN
    rate * i[1] >= i[2] /\ (rate - 1) * i[1] < i[2]

(***************************************************************************)
(* The inductive strengthening.  Buffers are allocated whenever any is     *)
(* queued or a stream runs, which is what keeps S_FMT and S_PARM out; what *)
(* EnableCheck established holds as long as DMA runs.                      *)
(***************************************************************************)
Negotiated ==
  /\ TypeOK /\ RateValid /\ BuffersFit
  /\ queued # {} \/ pc # "off" => bufs # {}

Checked ==
  /\ pc \in {"timer", "run"} =>
       /\ ScalerAccepts(input, fmt)
       /\ fps <= ProfileMaxFps(fmt, armed.link, Experimental)
       /\ ring = FullRate
  /\ pc = "run" => timer = CaptureTimer(fps, armed.period) /\ timer # 0
=============================================================================
