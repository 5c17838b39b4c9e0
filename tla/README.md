# TLA+ verification of the GC573 Linux driver

This directory models the AVerMedia Live Gamer 4K (GC573) driver of this
repository in TLA+, checks the models with TLC on small instances and proves
the central results with TLAPS. `PROJECT.json` lists components, runs, mutants,
the map from definitions to source lines, findings, hazards and theorems.
Paths below are relative to the repository; `capture.c` stands for
`driver/gc573_capture.c` and so on.

To check a run: `tlc -config <run>.cfg <module>`; to check the proofs:
`tlapm` on each of the eight modules whose name ends in `Proofs`.

## 1. The system

One PCI function with an FPGA. The FPGA receives HDMI through a splitter chip
and a receiver chip that the driver programs over a block I2C controller, and
writes video and audio to host memory by bus-master DMA.

| Part | State it keeps | Operations |
|---|---|---|
| paced capture, `capture.c` | `started`, `pending`, `complete`, `slot`, `stopping`, the completion `done`, vb2's queue, slot register 0x304, interrupt bits 0x10/0x1c | `cap_start_streaming`, `cap_stop_streaming`, `cap_buf_queue`, `cap_worker` (thread), `cap_interrupt`, `cap_enable`, `cap_arm`, `cap_stop`, `gc573_capture_destroy` |
| continuous ring, `dma_ring.h`, `capture.c` | `ring.pending`, `ring.next`, `ring_done[]`, `ring_active`, `ring_consume` | `gc573_dma_ring_complete`, `cap_ring_transfer`, `cap_ring_refill` |
| modes, `modes.h`, `capture.c`, `scaler.c` | `width`, `height`, `fps`, `frame_bytes`, `input_width/height`, the timer 0x103c | S_FMT, S_PARM, REQBUFS, CREATE_BUFS, buffer preparation, the checks of STREAMON and recovery |
| audio, `audio.c` | `running`, `position`, `periods`, two DMA areas, bit 5 of 0x10/0x1c, bit 1 of 0x08 | ALSA open, prepare, trigger, sync_stop, close; `gc573_audio_interrupt`; create, destroy |
| HDMI work, `pci.c`, `hdmi.c`, `passthrough.c` | `hdmi_ready`, phase counters, the mode the receiver is set for, FPGA packing registers, `control_mutex` | `gc573_hdmi_work` and its polls, probe's scheduling, remove |
| block I2C, `block.c` | status 0x1a4, FIFO, divider 0x180, bit 11 of 0x10 | read and write transactions |
| receiver programs, `receiver_*.c` | the chip's registers and its bank; `result->phase`, `writes_started`, `bank_verified` | register sequences with preflights and read-back |
| splitter programs, `splitter*.c` | two ports' links, formats and EDID; the same result fields | register sequences, link and format waits, resume and restart of a set-up |
| start-up, `tools/start-capture.py`, `pci.c`, `hdmi.c` | the checkpoint file (`next`, `pending`), the worker's `phase` and `error` | one diagnostic module per step, then the worker's phases |
| external output, `passthrough.c` | `phase`, `polls`, `error`, `previous`, `configured`, prior and filtered EDID | `gc573_passthrough_poll`, `gc573_passthrough_restore` |
| display sink, `sink.c`, `ddc.c` | saved transmitter controls, the display's EDID and SCDC | bounded DDC transfers, abort, restoration |
| LED ring, `led.c`, `capture.c` | settings, hardware commands | set with rollback, keepalive |
| applications, packaging | none in the driver | dialogs, scripts that choose module parameters |

Interactions. Video and audio share one interrupt line, `engine_lock` (the
register 0x1c and the engine bits), bus mastering and the teardown of
`gc573_capture_destroy`. The HDMI work, ALSA's prepare, `cap_reset` and the
restoration on removal share the control bus behind `control_mutex`. The HDMI work
and `cap_reset` both write the FPGA's packing registers. `hdmi_ready` gates streaming and prepare
and changes under them. The diagnostic modules, the worker and the passthrough
poll program the same two chips one after another and rely on what the ones
before left there: register bank, start-up values, hot-plug, EDID. The poll's
set-up needs the display (DDC), the source (link, clock, format) and the
splitter's second transmitter at once.

What is hard here: the handler, the worker, user ioctls, the delayed work and
remove run concurrently; the FPGA coalesces interrupts; an acknowledge can
swallow one; input, PCIe link and source mode change between two register
reads; frames and I2C completions come late or never; draining, resets and
thread creation fail; any of some thousand register accesses of the start may
fail with or without its effect, and the process that counts the steps may die
between two of them while the chips keep their state; and waits of one party
end only by a step of another.
The hazards in `PROJECT.json` name the lines.

What makes each part correct: frames reach the user whole, new, in order and
once; a vb2 buffer has one owner and comes back; memory is not freed while the
device may write to it; a rate, a timer and a geometry that DMA runs with were
checked for the source and the link; the audio position counts delivered
periods and bus mastering stays while either engine needs it; readiness means
that the receiver and the packing fit; an accepted I2C byte belongs to its
request and its bank; a register access goes to the bank it is meant for; a
step of the start runs after the ones before it and once per power-on; what is
retried changed nothing; the source never reads half an EDID; the output shows
what the source sends; every stop, close, removal and transaction ends.

## 2. Modules

| Module | Models |
|---|---|
| `DmaRing` | the continuous (1440p120) path: FPGA, handler, worker, loss, recovery, stop |
| `DmaRingInv` | its inductive invariant, and its refinement mapping to `FrameFifo` |
| `FrameFifo` | abstract specification: a bounded FIFO of frames with one reader |
| `DmaRingProofs` | type correctness, safety, completions, refinement, the loop and its set form |
| `CaptureStream` | the paced path with queue, worker, handler, failures, destruction |
| `FrameStream` | abstract specification: buffers in order, each filled with a frame nobody was given before |
| `CaptureStreamProofs` | what is copied, who owns a buffer, what is freed, refinement of `FrameStream` |
| `Audio` | the ALSA device, its handler, its share of bus mastering, destruction |
| `AudioProofs` | what the handler copies and counts, bus mastering |
| `Modes` | the pure functions of `modes.h` and the V4L2 interval arithmetic |
| `VideoMode`, `MCVideoMode` | negotiation and the checks before DMA |
| `VideoModeProofs` | negotiation, DMA safety, offered intervals |
| `HdmiControl`, `MCHdmiControl` | the HDMI work in all five parameter modes, and its neighbours |
| `HdmiControlProofs` | exclusion on the control bus, readiness, steady packing |
| `BlockBus` | block I2C transactions and two programs that use them |
| `BlockBusProofs` | fresh bytes, a clean controller, the bank restored |
| `ChipPrograms` | the register programs of receiver and splitter, as data |
| `Startup` | script, checkpoint and worker executing them, with every fault |
| `StartupProofs` | order of the programs, no replay, banks, hot-plug, retries |
| `Passthrough`, `MCPassthrough` | HDMI OUT: poll, DDC transfers, EDID, set-up |
| `PassthroughProofs` | safety of the poll and of the restoration |

### DmaRing

`queued`, `status`, `irq` are the registers 0x304, 0x300 and bit 1 of 0x10;
`pending`, `next`, `completed` are `ring.pending`, `ring.next` and the
signalled `ring_done[]`. `mem` numbers the frame in each bank. The handler is
three steps (`IrqRead`, `IrqAck`, `IrqComplete`) because the FPGA acts between
its register accesses; the refill is a read and a write of 0x304. `Enable`,
`RingStart`, `WaitDone`, `WaitTimeout`, `Recover`, `StopMask`/`Stop` follow
`cap_enable`, `cap_ring_transfer`, `cap_worker` and `cap_stop`; `StreamOnFails`,
`RecoverFails` and the failing branch of `Stop` are the error paths of STREAMON and
of a recovery, before or after `cap_enable` has begun a new session.

The ring's completion is written as a set (`RingComplete`), which the provers
can handle; beside it stands the loop of `gc573_dma_ring_complete` as written
(`LoopComplete`, a recursive function). `LoopAgrees` checks that both compute the
same in every reachable state for every status value, and is proved for every
number of slots.

Nothing is assumed of the FPGA's interrupts: `HwLateIrq` raises bit 1 again for a
slot that was already reported, and `HwComplete` may fall between the read and
the write of 0x304 in `cap_ring_refill` (`capture.c:520`). The code cannot tell
some of these cases apart, and the history variable `slip` says how a session
has lost count: "duplicate", when a repeated report meets a full queue and is
counted as a whole round of completions; "race", when the write queues a bank
that was not yet copied. `InStep` is a session that has not. The safety
properties, and the FIFO refinement, speak of such sessions; that the first case
happens at all is finding `ring_duplicate`, and STREAMOFF ends in every session.

### CaptureStream

One frame is armed at a time. `done` is the kernel completion, with
`complete_all()` apart from `complete()`; `inflight`, `queue` and `finished`
say where each buffer is; `upc` and `life` are the threads in STREAMOFF and in
`gc573_capture_destroy`. Failures of reset, drain, `cap_enable`, thread
creation and guards are choices (`Faults`). `LateSignal` opens the window
between the check of `cap_start_streaming` and that of `cap_arm`.

`Stream` maps this to `FrameStream`: whether it runs is the worker's place, a
frame is there when some slot holds one that was not copied, and the buffers are
`queue`, `inflight` and `finished`. Interrupts, slots, masks, resets and threads
are steps the user does not see.

### Audio

The user is one process under the ALSA core's rules (marked external): the
stream lock is explicit, since the handler takes it in
`snd_pcm_period_elapsed()`. `Register` is the end of `snd_card_register()`, from
which on programs may open the card, and `Publish` the store of `c->audio` after
it. A stop of video reads `c->audio` in one step and clears bus mastering in a
later one (`VideoStopCheck`, `VideoStopClear`). `settled` records whether the
engine was started with `c->audio` set and no stop between these two steps.

### Modes and VideoMode

`Modes` has the functions of `modes.h` with their constants and rounding.
`VideoMode` is a user that negotiates in any order while source and link change
between any two reads: STREAMON latches width, then height, then compares, then
`EnableCheck` and `EnableTimer` read again, as the code does. The register reads
of one comparison (`Readings`) may be those of three sources, one for the lock,
one for the width and one for the height.

The timer computation is `period * 1485 / 1000` rounded up in 64 bits; the
model splits it into quotient and remainder so that TLC's 32-bit integers
suffice. The value is the same.

### HdmiControl

A state is the module parameters, the source, how far work, probe, remove,
capture and ALSA have come, and what receiver and FPGA are set to. A phase that
programs chips is one step that passes, waits or fails; `Settle` says that from
then on it passes. The capture's arming after a match is prompt
(`ArmIsPrompt`): the source does not change and the work does not run between
the match and the arming of the same frame, a window of a few register
accesses.

### BlockBus

`status` keeps an old completion until command 0x10 or START drops it, or not at
all; completions come late, as errors or never, and the card can vanish. The
programs are `gc573_audio_signal_read`, which moves the receiver's bank, and
`gc573_receiver_status`, which requires bank zero. Command 0x10 is taken to end
an earlier request. The 16 and 5 equal register reads of a bank are one.

### ChipPrograms and Startup

A program is a sequence of operations: select a bank, write a named setting,
write something nobody tests ("put"), require a value, ask the outside, branch.
One C function of `receiver_*.c` or `splitter*.c` is one operator, composed as
the functions call each other. Of the registers only those are named that some
preflight or wait reads back (`Registers`); the others appear as one operation
for a run of equal accesses in the same bank. Operations that no property tells
apart are thus left out, the order, the banks, every early return with its error
code and the place where `writes_started` becomes nonzero are kept.

`Startup` executes the programs one operation a step. `bank`, `regs` are the
chips; `wrote`, `known`, `mark` are `writes_started`, `bank_verified` with the
bank, and `phase` of the result struct; `late` is an error kept until after the
clean-up. `ExecFail` lets any access fail before it, in it or after it (the read
back). `script` and `checkpoint` are `initialize()` of `start-capture.py` and its
file under `/run`, whose `pending` is written before a step and cleared after its
success; `module`, `phase`, `error` are the worker of `hdmi.c`. `Kill`,
`Reboot` (the card keeps power, `/run` does not survive) and `PowerCycle` may
come at any point, in the middle of a program too, `Unload` between two phases,
as removal waits for the worker. `past` and `before` are history variables for
`NoReplay`, `InOrder` and `RetryIsClean`. A program that wrote and is retried by
the worker is recorded in `past` like one that failed. The one exception is
`Repeatable`: `receiver_video` may switch banks and latch the pixel counter
again, when it has put both back and has not begun to program the output
(`receiver_video.c:199`).

The switch of a loaded module from passthrough to capture is not part of it.

### Passthrough

A step is one stretch of register accesses of `gc573_passthrough_poll` or of
`gc573_passthrough_restore`; between any two of them the source may change its
mode or go, and the display be plugged or unplugged. `p` is the state's `phase`,
`polls` and `error`; `s` the snapshot before, the first half of the new one and
`configured`; `video` and `measured` are the two
`gc573_splitter_video_result`s; `at` is the place in the poll, `op` and `ret` the
transfer of `sink.c` under way and its result; `controls`, `bank`, `tx` and `edid`
are hardware. A snapshot is read in two halves, so that it can be torn. Modes and
EDIDs carry the numbers the code computes with: clocks in kHz, totals, the rate
limits of the EDID filter, the 340 MHz and 600 MHz limits, the 10 % tolerance.

Abstractions: `polls` counts modulo 4, since the code only tests that; the six
polls until a restart (`LinkPolls`) are two in the runs; changes of source and
display are bounded by `Changes`; the chunks and checksums of an EDID are one
step each that may fail half-way; of the first write of the EDID, byte 0, only the
success counts, since it is 0x00 in every EDID. A transmitter is "part" while a
stretch of writes to it may be half done, and "prepared" between the analog part
and the output (`video_clock`, `splitter_video.c:402-456`), where `Validate` only
reads. A link may be stuck at the first set-up and at the repeated one: `GivenUp`
is a set-up that was repeated, is still down and "stays visible as a wait"
(`splitter_video.c:515-520`). `programs` and `slipped` are history variables.

## 3. Runs

| Run | Shows | Bounds |
|---|---|---|
| `ring` | until a session loses count: the next frame, whole, is what is copied; only written slots count as complete; no written frame is stranded by a swallowed interrupt; the ring is a FIFO. In every session: the loop agrees; STREAMOFF ends | 4 slots, as in the driver; 6 frames a session, more than one round with a refill of each kind, and any number of sessions |
| `ring_blip` | violation of `WaitIsBacked` | as `ring` |
| `ring_duplicate` | violation of `NeverCountedTwice` | as `ring` |
| `stream` | implements the abstract stream; copies are new and whole, buffers have one owner, freed memory is safe; STREAMOFF and removal end; a queued buffer comes back while the input is there | 2 slots, so that slots wrap at every second frame, and 2 buffers, so that one is queued while one is in flight |
| `stream_late_signal` | violation of `TeardownDisablesEngine` | same |
| `audio` | copies hit live memory, the position counts, mastering stays with an engine started after publication, nobody blocks | 4 periods, 6 completions: the position wraps |
| `mode` | timer, link, geometry, buffer sizes, intervals | values around each limit, see `MCVideoMode` |
| `hdmi` | one bus user, readiness, packing steady under DMA; a source that settles is captured; removal ends | three source modes, of which two differ only in their rate; all parameter modes |
| `block` | fresh data from the right bank, clean controller, bank restored | exhaustive; programs repeat without limit |
| `startup` | right bank, order, no replay, clean retries, honest hot-plug, the worker ends | exhaustive: no bound on failures, restarts, reboots, power cuts or retries |
| `passthrough` | nothing torn is taken for pending, one restart, whole EDID towards the source, EDID restored, a stable source is shown, or visibly waited for | 4 changes of source and display, enough for a torn snapshot that is seen twice or a change in each of two polls; two pairs of modes: equal totals at 60 and 120 Hz, and a YUV mode with one beyond 340 MHz; a display with SCDC and one without; both values of `scaled_capture` |
| `passthrough_rate` | violation of `ClockIsNoticed` | same |

Each property of a passing run has a mutant in `PROJECT.json`: a plausible bug
in one mapped definition that makes TLC violate it. The mutated forms are the
definitions marked `\* mutant` before the ones they replace.

The type invariants are not listed in the configurations: those of all the
modules but `Startup` are part of the proved invariants. `StartupProofs` has one
of its own (`HostTypes`), of what its proof speaks of.

### Fairness

Handlers, kernel threads, the work and a thread inside STREAMOFF, close or
remove keep being scheduled (weak fairness), and kernel timeouts expire. Strong
fairness is used where a step waits for a lock or for `synchronize_irq()`,
which the kernel hands out in the end although the condition may come and go.
A user closes a disconnected ALSA device; unregistering stops a stream. Nothing
is assumed of the FPGA, the display or the HDMI source, except where a premise says so:
`SourceIsCaptured`, `SetupEnds` and `StableIsShown` speak of a source (and a
display) that stays, and of accesses that have stopped failing (`calm`);
`StableIsShown` also of a mode the source was offered. In `Startup` programs and
worker are fair, the script is not: a service nobody starts again promises
nothing. In `Passthrough` the poll is fair, as the work requeues itself, and a
transmitter link that is not stuck comes up.

## 4. Findings

- `stream_late_signal`: a first signal between `cap_start_streaming` and
  `cap_arm` starts DMA while `started` is 0; `cap_stop` (`capture.c:190`) then
  leaves the engine on, although its comment says that such a queue "has never
  armed DMA". Such DMA has not passed the link check of `cap_enable` either
  (state "unchecked" of `VideoMode`). Without that window TLC finds no
  violation of the property.
- `ring_blip`: a refill skipped on a momentary mismatch leaves a slot that the
  worker later waits for until the timeout ends the stream.
- `ring_duplicate`: the handler signals four completions for frames that were
  never written. Frame 0 is completed, counted and copied, and its slot is queued
  again, so that all four are pending; the interrupt for frame 0 comes once more;
  0x300 still names slot 0, `ring.next` is slot 1, and
  `gc573_dma_ring_complete()` finds all the slots from 1 round to 0 pending.
  `dma_ring.h:6` says "never count a duplicate IRQ twice", `docs/protocol.md:258`
  that the handler "ignores invalid or already-completed slots". It depends on
  the FPGA raising the bit again, which the repository neither states nor
  excludes. What the code does keep is `CompletedIsWritten`: as long as one slot
  is out of the queue, a repeated report is ignored.
- `passthrough_rate`: `snapshot()` compares a measured clock with the measurement
  before it, never with the clock the output was set up for. A source that goes
  from 60 to 120 Hz under equal totals between the set-up and the first
  measurement stays unnoticed. `slipped` in `StableIsShown` excepts exactly this
  window.

Observed while modelling, without a run of its own:

- the ring's timer is set in `cap_enable` only, so a source that comes back
  slower without a loss being seen keeps the faster timer (`modes.h:73`,
  `docs/modes.md:67`);
- a failing `audio_bank(io, 2)` returns without restoring bank zero
  (`receiver_audio.c:41`), which `BankRestored` excepts;
- a loss of the input in the first transfer of a recovery ends the stream
  (`capture.c:653`; `LossNeverEndsStream` of `DmaRing` states the contrary);
- "Stopping video preserves an active audio engine" (`docs/protocol.md:69`) is
  not true of an engine started between `snd_card_register()` (`audio.c:231`) and
  the store of `c->audio` (`capture.c:1100`), or before the end of a stop that
  read `c->audio` before that store (`capture.c:203-204`): the stop takes bus
  mastering from it. `AudioKeepsMaster` without `settled` is violated;
- "Format validation precedes TX reset/analog programming"
  (`docs/protocol.md:210`), and a refusal leaves a running output alone (the
  comment above `video_validate`), but `video_output` validates once more after the
  reset and the analog part (`splitter_video.c:263`); if the format is refused
  only there, the poll waits with a transmitter that is programmed and without
  output, and the next poll writes the whole set-up again (state "prepared" of
  `Passthrough`);
- in the opt-in profile a source that changes between phases 1 and 2 leaves the
  work in phase 2 (`pci.c:435`; `AnySourceIsCaptured` of `HdmiControl`);
- after a legitimate change of mode the previous `pixel_khz` of the measurement
  is still there, so the new set-up is repeated once without need
  (`passthrough.c:225`).

## 5. Proofs

Every safety property of a passing run is also a theorem, the two refinements
included; only liveness is left to TLC. Hardly any of the properties is
inductive as it stands; each `*Proofs` module states the invariant that is, in
parts named for what they are about, proves that every action keeps it (one
lemma per action or group of actions), and derives the properties from it.
What a theorem assumes beyond the `ASSUME`s of its module is in its statement.

`DmaRingProofs` (for every number of slots and frames):

- `TypeCorrect`: `Spec => []TypeOK`, with no assumption on the FPGA.
- `RingSafety`: a copied bank is not in the hands of the FPGA and holds the next
  frame, and no complete slot is queued before its copy.
- `CompletionsAreWritten`, `FramesAreSignalled`: no completion is counted before
  its frame was written, and no frame is stranded.
- `RingImplementsFifo`: every step of the ring is a step of `FrameFifo` or a
  stutter; the step that loses count breaks the session there.

  These hold until the session loses count (`InStep`), repeated interrupts
  included; the theorems assume nothing of the FPGA.
- `LoopIsSetForm`, `LoopAlwaysAgrees`: for every number of slots, every ring and
  every status the loop of `gc573_dma_ring_complete` completes the slots of
  `RingComplete` and stops behind the reported one; so it does in every reachable
  state. The library's induction theorems cannot be instantiated, so the
  induction, and the existence of the recursive function, goes through the set of
  the naturals for which the claim holds.

The properties speak of the worker, and what they need is that registers,
handler and worker agree. `RingInv` says that,
counted from `consume`, the slots form one line: completed and not yet taken,
written and not yet counted, queued, and possibly the one being copied.
`HandlerInv` bounds what the handler's stale status can say, `SwallowInv` that
fewer than a round of frames can be written while no interrupt is due, which is
why the ambiguity of the ring distance (none or a full round) bites only when an
interrupt is repeated on a full queue.

`CaptureStreamProofs` (for every number of slots and every finite set of
buffers):

- `CopiesAreFresh`, `BuffersHaveOneOwner`: with or without a signal that slips
  in between two checks of a start, and with every failure.
- `FreeIsSafe`, `TeardownStopsEngine`: under `~LateSignal`. The run
  `stream_late_signal` shows that the second fails without that assumption, so
  the window it describes is the only cause.
- `PacedImplementsStream`: under `~LateSignal` every step is a step of
  `FrameStream` or a stutter. What the mapping adds to the invariants is
  `FrameCount`: at most one slot is armed, at most one uncopied frame is in
  memory, and nothing is armed while it waits, so no frame arrives over it.

`ThreadInv` and `MaskInv` tie the worker's place to the masks and to what
`cap_stop` has got done. `FrameInv` is the argument for the copy: while the
worker waits, either the slot is armed and nothing of it has been signalled, or
its frame is in memory and the handler at most works on its one interrupt; at
every other place the engine is quiet, so no completion of an earlier transfer
can be taken for this one. `Distinct` says where the buffers are, and the count
in `BuffersOwnedOnce` follows from it by a bijection. `DrainInv` needs the
assumption: an engine never started was never armed.

`AudioProofs` (for every number of periods in the buffer and of completions):

- `CopiesAreSafe`, `PointerCounts`: also if programs use the card before it is
  published.
- `StopKeepsMaster`: for every engine started with `c->audio` set and no earlier
  stop on its way (`settled`); programs may open the card as soon as it is
  registered, and the check and the clear of a stop are two steps (`MasterInv`).

`StreamInv` says what each state of the substream has allocated, `HandlerInv`
that a handler between its check of `running` and the end of its copy keeps the
buffer, the stream and the areas alive, which rests on the two
`synchronize_irq()`. `CountInv` with `Owed`, the completions a handler or the
interrupt bit still stands for, bounds the position; that the wrapping position
counts modulo the buffer rests on lemmas on quotient and remainder.

`VideoModeProofs` (for every set of links, geometries, periods, requests,
intervals and sizes):

- `NegotiationSafe`: the rate is one that the driver paces, queued buffers hold
  a frame. `Negotiated` adds that buffers exist while any is queued or a stream
  runs, which keeps S_FMT out.
- `DmaTimer`, `DmaLink`, `DmaInput`: while DMA that `cap_enable` let through
  runs, its timer is bounded by the source, its frames by the link, and the
  scaler takes its input. `Checked` carries the results of `EnableCheck` up to
  the running state. The timer's bound rests on lemmas on the rounding of
  `gc573_capture_timer`.
- `OffersHonoured`: what `cap_enum_interval` offers is what `cap_set_parm`
  selects; `IntervalSelects` is the lemma on the interval arithmetic.

`HdmiControlProofs` (for every set of sources and every parameter mode):

- `BusHasOneUser`: only the scaled modes run the work under `control_mutex`.
  In the others `ReadyInv` replaces the mutex: readiness, which ALSA's prepare
  demands, comes only when the work has ended, or never.
- `ReadyIsConfigured`: `ConfigInv` looks through a reset of the video engine, in
  which the packing is saved and not in the registers.
- `PackingStaysSteady`: an action property. A capture about to arm has matched a
  ready input, and the work that was running then can at most end.

`BlockBusProofs` (the model has no constants):

- `BytesAreFresh`, `TransactionsLeaveClean`, `BankIsRestored`. A byte is
  accepted on the word of a status register that may be left over. `OpInv` says
  what the controller can still be working on (an abandoned request only until
  the next command 0x10), `FetchInv` that a completion the driver would believe
  is that of its own request, and `BankInv` where the programs are in their
  banks. TLC explores this model exhaustively too; the proof says why it holds.

`PassthroughProofs` (for every set of source modes and displays, every number of
changes and of polls before a restart):

- `PassthroughInvariant`: the inductive invariant below, with `PassthroughTypes`.
- `NothingTorn`, `OneRestart`, `WholeEdid`, `EdidRestored`: the four safety
  properties of the run `passthrough`.

`StopsWhenTorn` speaks of the end of a poll only; `TornInv` says at which place
of a poll which hardware may be half-written, and `SetupInv` that a prepared
transmitter has no output and that no result of a set-up stands for it. `RestartOnce` needs that the
result of a set-up remembers the restart: `RestartInv` bounds the number of
set-ups by `restarts` at each place and says that it is 0 when neither a set-up
nor a pending link is there. `EdidInv` ties the enabled channel to a whole EDID
and the copy of the earlier EDID to the first byte written, `RestoreInv` follows
the removal. The bound `Changes` and the schedule of failures play no part in it.

`StartupProofs`:

- `ProgramsInOrder`, `NothingReplayed`. The script trusts three witnesses of the
  past: a start-up GPIO that still has its power-on value, the checkpoint file,
  and a receiver whose output runs. `StartInv` says that they tell the truth: a
  cold GPIO means that nothing has run (`ChipInv`), a checkpoint that is not
  pending means that the steps it counts succeeded and the others never began
  (`CheckpointInv`), and a running output or a loaded module that all six steps
  succeeded (`WorkerInv`).
  Of the register programs the proof uses only what `Programs` proves of them,
  one lemma per program: what its operations are made of, that none writes the
  cold value back, that only `receiver_video` starts the output, and that
  `receiver_id` begins with the GPIO, whose write takes effect even when the
  access is reported to fail.
  The worker's retries are counted: a program other than the waits asks for one
  only before its first write, `receiver_video` also when `Repeatable`.
- `BanksRight`. A program is a sequence, and what it relies on must hold at each
  place of it. `Fits` says of a program and a list of values, one per operation,
  that every operation, passed or jumped over, leads from the value before it to
  the one after, and that an access finds the bank it wants. One lemma per part
  of a program gives such a list (`Carries`); `Joined` and `Over` compose them as
  the C functions call each other, and `Routed` is the result for each whole
  program. `BankInv` then says that a program under way is in the bank its list
  has for the place where it is. A program may be killed anywhere, so nothing is
  assumed of the bank between programs, but for the chips no program has touched
  (`FreshBanks`), on which the two programs rely that begin without a look at the
  bank (`Blind`); every other one selects or requires a bank before it accesses it.
- `HotplugIsHonest`, with the same lists for the settings on which hot-plug
  depends (`GateRouted`, `GateInv`): a program raises hot-plug only where its
  list says that EDID and port are ready, and a program that spoils them has
  lowered it first.
- `RetryLeavesClean`. Every program is a harmless part, followed by one that asks
  for no retry (`ProgramSplits`, `Cuts`); in the harmless part only the
  banks and the pixel counter of the receiver are written, and both are put back
  before a retry is asked for (`TickRouted`); a program leaves each bank at zero
  or as it found it, so the worker finds them at zero (`HostClean`).
  `CleanInv` compares the settings with those at the start of the phase.

Only model-checked is all liveness, which is beyond TLAPS: `StopTerminates`,
`RemoveTerminates`, `BufferComesBack`, `AudioTerminates`, `SourceIsCaptured`,
`SetupEnds`, `StableIsShown`.

## 6. Not modelled

- The bring-up status file (`pci.c`), formatting of counters.
- Scaler coefficients, register tables and calibration values that no preflight
  reads: data.
- The profile of the splitter's internal transmitter in the combined mode beyond
  150 MHz; `HdmiControl` has its outcomes.
- `gc573_audio_signal_enable`, the receiver's write test, the arithmetic of the
  receiver's clocks.
- The LED ring: settings with rollback and a keepalive, behind a mutex and
  registers of its own.
- The byte controller of `i2c.c`, GPIO start and the allowlists of arguments.
- Error paths of probe that only release PCI resources.
- In `start-capture.py` the switch from passthrough back to capture (lines
  205 to 236), which unloads a module and polls for the packing registers.
- Two audio periods behind one interrupt: the hardware reports no count, so
  the code cannot see it; the model keeps to what it can.
- The port-1 transfer and the transmitter writes inside
  `gc573_passthrough_restore` are one step that may fail.
- Desktop applications and packaging.

## 7. Plan

Done: `DmaRing`, `CaptureStream`, `Audio`, `Modes` and `VideoMode`,
`HdmiControl`, `BlockBus`, `ChipPrograms` and `Startup`, `Passthrough`, all with
their proofs. Next, in order of what they decide:

1. The internal profile of the combined mode, as a second set-up of
   `Passthrough`'s kind.
2. `Lifecycle`: probe and create with every error path; `c->error` carries both
   creation and runtime errors.
3. `Led`: set, rollback and keepalive.
