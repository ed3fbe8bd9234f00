# A verification development for the power analyzer's display program

The repository builds one Linux program, `drm_page1`, for a Zynq board. It
receives frames from two FPGA streams by DMA, reads two FPGA register blocks,
computes a power meter's readings, and draws four pages on a DRM screen, with
touch input. This directory holds TLA+ models of its parts, the TLC runs that
check them on small instances, and proofs, checked by TLAPS, of what holds for
every value of their constants.

Paths below are relative to the repository (`src/` holds its C sources).

## 1. The system

| Part | Code | State it keeps | Operations |
|---|---|---|---|
| DMA receive engines (main, scope) | `src/dma_s2mm_linux.c` | per engine: mutex, worker thread, flags `stop_requested` and `in_transfer`, mapped buffers, latest frame, counts; shared: `g_axidma_dev`, `g_axidma_users` | init, shutdown, the worker loop, copy of the latest frame, count, watchdog |
| AXI DMA user library | `src/libaxidma.c` | one device: channel tables, file descriptor | init, destroy, blocking transfer, stop of a channel |
| Register snapshot readers | `src/power_model.c` | mapped registers, last sequence number | two lock-free snapshot reads |
| Metrics and FFT page | `src/power_model.c` | backend, demo tick, last reading | a reading from the snapshots' sums or from the demo, the FFT page from a frame |
| Amplitude compensation | `src/amp_comp.c` | none (two tables) | gain by frequency, rounding |
| Hold tracker | `src/power_model.c`, `src/drm_page1.c` | highest and lowest values, event count, frozen | update each second, clears and freeze by touch |
| Scope | `src/drm_page1.c` | ring of samples, trigger, view | push a frame, build a view |
| Touch and pages | `src/drm_page1.c` | raw coordinates, `touch_down`, page and button states, `dirty` | poll the input device, handle a tap, redraw |
| Display | `src/drm_page1.c` | list of devices, each with a CRTC and two buffers | prepare, show, flip, clean up |
| Main loop | `src/drm_page1.c` | remembered ticks, counts and flags | once per turn: count, poll input, a reading each second, the scope's frames, redraw |
| `main()` | `src/drm_page1.c` | none of its own | the order of all of the above |

How they interact. `modeset_draw` starts the engines; each starts a worker
thread that blocks in a driver call, publishes the frame under the engine's
mutex, and starts over. Everything else runs in the main thread, in a loop that
polls the engines' counts, the input device and a one-second timer, and redraws
into the buffer that is not on screen. The engines share one library device by a
reference count. The FPGA writes registers and memory with no regard for who is
reading. SIGINT ends the loop; `main` then shuts both engines down, restores the
screens, and shuts both engines down once more on the common exit path.

What is hard:

* **Concurrency**: workers, main thread, driver and FPGA. Frames are replaced
  while they are copied; a worker's mutex and buffers are freed while it may use
  them; registers change between the reads of one snapshot; a flag is read
  without the lock.
* **Partial failure**: engine init can fail at each of its steps, and so can each call
  that makes a framebuffer, flips, CRTC reads and restores. Failures are mostly printed and
  ignored, so later code runs on what is left.
* **Ordering**: stop, join, free and release at shutdown; restore before
  removing framebuffers; count before copy; `dirty` cleared before the flip.
* **Loss**: input packets that the kernel drops; frames that arrive while nobody
  looks.
* **Boundaries**: ring wrap, window clamping, truncating divisions, retries, a
  millisecond tick that wraps, a phase word without a negative, bands of bins cut
  at the ends of a spectrum.
* **Liveness**: every shutdown joins a thread that sits in a blocking call.

`PROJECT.json` lists each hazard at its line with the properties that would
catch it.

What makes each part correct: the engines never use what is freed and leak
nothing; shutdowns return; frames are whole, few are repeated and the newest one
gets through; snapshots are of one window; limits are extremes of what was
counted; views show what was received; taps do what the touched picture says;
CRTCs are not shared, buffers are not lost and the screen comes back; a reading's
numbers go together and fit the load, the FFT page fits the tones; readings come
when they are due.

## 2. The modules

| Module | Models | Run(s) | Proofs |
|---|---|---|---|
| `DmaEngine` | life cycle of the engines, worker, driver | `engine` | `DmaEngineProofs` |
| `SharedDevice` | abstract: a device open exactly while it has users | refined by `DmaEngine` | `DmaEngineProofs` |
| `AxiDmaLib` | `axidma_init` and `axidma_destroy`: descriptor and heap blocks | `main_order` | |
| `DrmMain` | the calls of `main()`; composes `DmaEngine` and `AxiDmaLib` | `main_order`, `main_assert` | `DmaEngineProofs` |
| `FrameFeed` | worker to scope history, word by word | `feed` | `FrameFeedProofs` |
| `SnapshotReader` | both register readers against the FPGA | `snapshot` | `SnapshotReaderProofs` |
| `HoldTracker` | hold limits, clears, freeze | `hold` | `HoldTrackerProofs` |
| `ScopeHistory` | ring, trigger, window, columns | `scope_view` | `ScopeHistoryProofs` |
| `Modeset` | CRTCs, framebuffers, flips, cleanup | `modeset` | `ModesetProofs` |
| `TouchPages` | input queue, fingers in slots, taps, pages, redraws | `touch` | `MainLoopProofs` |
| `MainLoop` | the loop's two timers on the wrapping tick | `loop` | `MainLoopProofs` |
| `AmpComp` | gain tables, interpolation, rounding | `gain` | `PowerMetricsProofs` |
| `IntMath` | rounding divisions and the digit-by-digit square root | `metrics` | `PowerMetricsProofs` |
| `FftView` | the FFT page from a frame of bins | `metrics` | |
| `PowerMetrics` | readings, live and demo; composes `FftView` and `AmpComp` | `metrics` | `PowerMetricsProofs` |

`MC*` modules give constants their values for TLC. Definitions under a comment
"Fault:" are not part of any behaviour: each is a plausible bug, and replacing
the definition after it by the fault makes a property fail (`mutants` in
`PROJECT.json`).

### DmaEngine, SharedDevice, AxiDmaLib, DrmMain

Every lock section is one action; every unlocked read of `stop_requested`, the
entry into the driver's blocking ioctl and its return are actions of their own.
`wpc` and `cpc` name the place in `dma_worker_thread` and in the control
thread's `dma_init_state` or `dma_shutdown_state`. `Init*` and `Shutdown*` follow
the two functions statement by statement, with an exit at each failure into the
error labels (`InitErrFreeBuffers`, `InitErrReleaseDev`, `InitErrReleaseLock`).
`Acquire` and `Release` are the shared reference count. `ChannelFor` is the
fallback to channel 0 of the table. `crashed` is a worker that looks its channel
up in a destroyed device. `holders` is history: who acquired and did not release.

`DmaEngine` lets init and shutdown come in any order as long as a shutdown is
*balanced*: the engine holds a reference, or nobody does. `DrmMain` drops this
and makes exactly the calls of `main()`, after every combination of failures,
also when no screen is found and `modeset_draw` returns before it starts them.

In `DmaEngine` opening the device is one step that succeeds or fails. `DrmMain`
takes it apart: while an acquire finds no device, `AxiDmaLib` steps through
`axidma_init` (open, probe, allocate, set up the signal), each step free to fail, and
the acquire goes on with its result; the release of the last user runs
`axidma_destroy`. `opened` and `heap` are what the process has not given back. A
failed allocation leaves `channels` pointing at freed memory, as the code does;
the next init overwrites it before it can be freed again.

### FrameFeed

The worker takes `dma->lock`, copies a frame word by word and counts it; the main
loop reads the count, handles touches (which stop and restart the scope), and
copies the frame under the lock if the count differs from the one of its last
copy. The first copy comes before the first count, as in `modeset_draw`.
`fullTransfer` is the build's choice of transfer size.

### SnapshotReader

The FPGA fills the inactive bank and commits it with two register writes, in an
order chosen once (`seqFirst`); the reader's register reads are single steps.
`seqRereadFirst` chooses the reader: td_stats rereads the sequence number first,
the PLL reader the bank. Which order the FPGA has is not in this repository, so
both are checked.

### HoldTracker

An update per reading, `ClearMax` and `ClearMin` per touch, `Freeze`. Readings
may lack a frequency. Histories keep the readings each limit should be the
extreme of, and `phantom` the frequency limits that a clear of the other one has
declared valid. `EventWrap` stands for 2^32.

### ScopeHistory

The ring with its wrap, the trigger search in the history, the trigger level
from the window, the clamped window and the columns, all with the code's integer
divisions.

### Modeset

One kernel call that may fail per step. A connector is unusable, or gets a CRTC by
`modeset_find_crtc` (its own if free, else the first free one its encoders can
use, where each encoder may fail to answer), then two buffers by three kernel
calls each. `main()` saves and takes over each CRTC; the loop flips; cleanup sets
a device's CRTC back in one step (`RestoreCrtc`) and removes its buffers in the
next (`RemoveBuffers`, all its calls at once: their results are ignored). `handles`, `fbs`, `maps` and `scan` are the kernel's side.

### TouchPages

Fingers on a panel with raw coordinates, each in a slot of its own; one packet may
carry changes of several. The kernel's side sends what changed in a slot, into a
bounded queue that on overflow keeps the end of the newest packet. The code takes
all slots for one finger: `input` is its raw coordinates and `touch_down`, and the
history `source` the slot each was last set from. `ReadPacket` is the body of `ui_poll_input` up to a
SYN_REPORT, including `ui_handle_touch_base` when it is a tap; the actions after
it are the rest of a turn of the main loop. `look` is the part of `ui_state_t`
the pages show, `shown` the one last drawn successfully.

### MainLoop

One turn is `Tick`, taps, `PollDone`, `Reading` and one of the `Feed` actions. Time
is kept twice: as the tick of 32 bits (`TickWrap`) with its remembered values, and
as the true time since the last reading and the last rebuild on time. Its names
differ from those of `TouchPages` (`part` for `pc`, `uiDirty` for `dirty`,
`TurnSpec` for `Spec`), so that one module can prove things about both halves of
the loop.

### IntMath, FftView, PowerMetrics

A behaviour of `PowerMetrics` takes one input: a window of samples whose sums the
td_stats registers hold, the PLL's words with the flags of its status, and an FFT
frame. `StepLive` is `update_monitor_view_live` and the FFT page built after it,
`StepFails` a snapshot that timed out or was empty, `StepDemo` the demo's tables.
The arithmetic is the code's, rounding by rounding; what is scaled is the width:
samples have 8 bits for 16, full scale is 500 mV and mA for 2500, a turn of phase is 720
for 2^32 and a sample clock 16384 for 2^32, so that all products fit TLC's 32
bits. The FFT has the code's 512 bins, radii and bar height. `Turned` is the
negation of the PLL's phase word, whose lowest value overflows an `int32_t`:
both outcomes a compiler can produce are in the set. `Isqrt` runs through the root's
digits by a recursive function, `after[k]` being the code's three variables after `k`
digits. `Counted` and `Gains` are the first half of a reading, `Live` what is made of them.

### AmpComp

Pure functions. A step is the next frequency of the fundamental, in centi-kHz;
the invariants look at all seven harmonics of it. Its behaviours are `SweepSpec`'s, so
that one module can prove things about it and about `PowerMetrics`.

## 3. The runs

| Run | Shows |
|---|---|
| `engine` | A worker never loses the device, its mutex, its buffers or its channel (`DeviceOutlivesWorkers`, `ResourcesOutliveWorker`); the count is exact and a down engine holds nothing, on every error path; with distinct channels only an engine's own shutdown cancels its transfer; the engines implement `SharedDevice`. Inits and shutdowns return if the hardware ends transfers; a shutdown that finds its worker in the ioctl returns even if it never does. |
| `main_order` | `main()`'s calls are safe short of the case below, the second pair of shutdowns finds nothing, and `main()` returns after SIGINT. `LibraryLosesNothing`: descriptors and blocks are exactly those of a device in use, but for two blocks lost by each failure of `setup_dma_callback`; nothing is freed twice. |
| `main_assert` | A violation: see section 7. |
| `feed` | Frames are whole, neither torn nor from a short transfer (`WholeFrames`); none is pushed three times; the newest frame counted in the loop reaches the history while the scope runs. |
| `snapshot` | Accepted snapshots are whole and their label is at most one off. The td_stats reader needs, if the FPGA raises the sequence number first, that no commit ends between its last two register reads: the property says so. Failures are earned by commits. |
| `hold` | Limits are the extremes of what was counted and enclose the reading; an event is counted exactly when a limit widens. Two exceptions are stated (`FreqExtremes`): when the PLL locks for the first time while the limits are frozen, a clear of the highest values declares the lowest frequency valid at 0, and a clear of the lowest declares the highest valid at 0. The highest is right again with the next frequency counted, the lowest only once it is cleared. `phantom` names the limits in that state; in every other one both are extremes. |
| `scope_view` | The ring is the newest samples in order; columns cover the window without gap or overrun; marker and trigger agree with the samples. |
| `modeset` | No CRTC for two screens; no buffer lost or left over, whatever fails; the loop draws off screen; screens are restored, or could not be saved or set back, and none goes dark before, so a CRTC is set back before its buffers go. |
| `touch` | Every button answers where its picture is, within 3 pixels of its edge at 1280 x 720: the footer is drawn two layout rows lower than it answers (`PicturesAnswer`). A press acts as the button's picture says, once, and a second finger does nothing (`TapsExact`). `Known` says what can make a tap go wrong: events not reported since the start or a loss, a coordinate the other finger set last and the kernel does not repeat, one finger lifted while the other stays. Input state is right again after each of them; a changed page is shown, being drawn, or was kept out by a failed flip, which the next reading makes up for. |
| `gain` | Every gain is the nearest to the measured line, except on the one falling segment of the current table (15 to 20 kHz), where it may be up to 1.5 ppm high, its end point included. |
| `loop` | A reading is attempted in the first turn a period after the last, also when the tick wraps (`ReadingsOnTime`). The scope page shows the whole history of a stopped scope; what it lacks of a running one came within 20 ms of the last rebuild, or after the tick wrapped since (`ViewFresh`): such a frame stays unseen if the stream ends. |
| `metrics` | `ReadingCoherent`: P, Q, S are a right triangle and S is V times I, up to the counts cut from rms values, also when P comes out above S; PF is P over S. `SineReading`: for sine loads at every eighth of a turn P is S cos, Q is S sin with the sign of the lag, and the mode fits. `SpectrumMeasured`: the page shows the tones in the frame, with compensated gains, against a stronger tone beside the searched bins or at DC, with leakage, up to the last bin; THD counts all harmonics, and the rms splits into fundamental and distortion. |

### Bounds, and why they are enough

* Engines: the program's two, with the two RX indices it asks for. Tables of
  two, one and no channels: own, shared, none. `BufCount` is the code's. Three
  inits bring one engine up twice or both up and one again; `main()` makes two.
* `feed`: three words, so a tear has a first, a middle and a last word; six
  frames, so stops, restarts and repeated pushes meet later frames.
* `snapshot`: three words; four retries against four windows, so the retries
  can be used up and a bank is reused twice in one read.
* `hold`: one quantity with both limits and one with only a highest, two values
  and two frequencies; `EventWrap` 6 is more than the number of limits one update
  can widen (four here), so a wrapped count still differs.
* `scope_view`: ring of six samples, frames of two, a window longer than the
  screen, samples below, at and above the hysteresis.
* `modeset`: three connectors and two CRTCs, so one must go without; own and
  shared encoders, idle, on a CRTC each, and clones.
* `touch`: two packets in the queue (one to survive, one to be lost). The scaled
  panel has five changes of the finger: two full taps and a third press; its spots
  are centres, and points just inside and outside a picture. Two fingers need four
  changes to press where the other one was, and start lifted. `Margin` is 3, the least that holds
  at 1280 x 720; `MarginAssumption` says what other sizes need.
* `gain`: every frequency to past the table's end.
* `loop`: a tick of 10 with a period of 4 and turns of up to 3, so several wraps
  and a wrap within a period; two frames behind. The proofs have no such bound.
* `metrics`: every window of up to two samples out of five, among them ones whose P
  is above S; eighth-turn lags at three amplitudes per channel, so the counts cut from a
  rms value are 1 to 2 % of it, which is what the tolerances are for (those of
  `ReadingCoherent` are of any scale, and proved); each
  combination of the PLL's flags. Fundamentals in bin 4, the lowest whose bands are
  apart, in the middle, where the second harmonic is the last or drops out, and
  at the end; a measured frequency up to three bins off.

### Fairness

* `ThreadFairness` (weak, per worker and for the control thread): threads are
  scheduled and mutexes are free again after a few statements.
* `HardwareFairness`: a pending transfer ends. It is a premise of `CallsReturn`
  and `MainReturns` only. The driver returns a cancelled transfer by itself
  (weak fairness on `CancelledReturn`), which is what AXIDMA_STOP_DMA_CHANNEL is
  for.
* `MainFairness`: once SIGINT ended the loop, `main()` makes its calls.
* `FrameFeed`: weak fairness on the main loop and on the worker's steps inside the
  lock, which it always leaves again. Starting to publish a frame carries none: no
  transfer needs to end.
* `TouchPages`: the loop runs on, readings keep coming (the one-second timer)
  and not every flip fails. The finger's changes are bounded, so polling ends.

## 4. What is proved

All proofs are by TLAPS and hold for every value of the constants under their
named assumptions, which TLC evaluates on every run. Before each proof its
inductive invariant was checked with TLC on the instance of the run; it contains
the module's type invariant. Every safety invariant and every action property of
the runs is proved, but for those named below.

* **DmaEngine** (`TypeCorrect`, `Inductive`, `DeviceSafe`, `ResourcesSafe`,
  `RefCountCorrect`, `NothingLeaks`, `Isolation`, `Refinement`): any finite set
  of engines, any channel tables. `RefCountExact` alone is not inductive: whether
  a shutdown may release depends on what init took. `IInv` says that an engine
  the control thread is not working on is `Up` or `Down`, each with its exact
  resources, and that the one it works on is `Building` or `Closing` with what
  its call has reached; a shutdown of an engine without a reference only happens
  when nobody has one. The refinement maps each step to a step of `SharedDevice`
  or a stutter.
* **DrmMain**, with `AxiDmaLib` (`MainInductive`, `EnginesSafe`, `CleanReturn`, `LibraryClean`): the
  engines' invariant cannot be taken over, because `main()` does make the
  unbalanced shutdown it excludes. `MainIInv` keeps it for as long as that has not
  happened, together with `StopInv`: an engine `main()` has shut down stays down.
  `LibInv` holds without that condition: the blocks and the descriptor at each place in
  `axidma_init`, with two blocks more per failed callback setup.
* **FrameFeed** (`FramesAreWhole`, `FewDuplicates`): any frame
  size. `LatestInv` ties the lock to what `latest_frame` holds, `OutInv` the copy
  to one frame, `CountInv` the counts to the pushes: a frame pushed twice has been
  pushed for its own count, so a third push would need a new count.
* **SnapshotReader** (`SnapshotIsWhole`, `LabelIsClose`, `FailureIsEarned`): any
  bank size and number of retries. The key is `ReadInv`: while the sequence
  number is the one read first, the words read are those in the bank, unless a
  flip has given the bank away; `RereadInv` says what each second read rules out.
* **HoldTracker** (`LimitsCorrect`, `LimitsEnclose`, `EventsCorrect`): any quantities
  and values. `LimitsCorrect` rests on what is true before the first lock (`FreshInv`) and
  on `ReadingWithinLimits`: a lock that is not valid yet was kept out by a freeze. For the events, `CountMoves` and `MovesCounted` say that the count moves by
  as many limits as widen, which is less than `EventWrap`, and so differs exactly when one does.
* **Modeset** (`Inductive`, `CrtcsNotShared`, `BuffersAccounted`, `NoTearing`,
  `ScreensComeBack`): any connectors, encoders and CRTCs. Every buffer the kernel
  holds belongs to a device of the list or to the one being made, which has what its
  place in the code has reached (`BufferInv`), and a CRTC shows what it did at the start,
  the front buffer of its own device, or nothing when it could not be restored (`ScanInv`).
  `RemoveInv` is what the order in cleanup gives: buffers go when their CRTC shows none of
  them, or could not be set back.
* **ScopeHistory** (`Inductive`, `RingCorrect`, `ViewCovers`, `MarkerCorrect`,
  `TriggerCorrect`): any ring, frame and window sizes that fit, any 16-bit samples. The
  positions of a wrapped ring are `%` of its size; lemmas turn them into sums, show that the
  truncated thresholds keep the order of the levels, and that the last column ends where the
  window does. The trigger needs the first edge of a loop: a least element, by
  well-foundedness of the naturals.
* **AmpComp** (`LookupCorrect`, `ApplyU32Nearest`, `ApplyS64Nearest`; in
  `PowerMetricsProofs`): the lookup's distance
  from the line, for every frequency and with any gains in the table, of which the program's two
  are instances; the roundings for any reading, gain and even unit, which is 1000000 in the code.
* **IntMath** (`RootFloor`): the code's square root is the root rounded down, of every
  radicand of any width. What each digit keeps (`DigitKept`) is the invariant: what is left is the
  radicand less the square of the root so far, and the radicand is below the square of the next
  candidate. There is no induction to cite: a recursive function is shown to have values by a
  least position without one (`Recursion`), and the invariant to hold by a least digit
  that breaks it (`Upwards`).
* **PowerMetrics** (`ReadingsCohere`, `MulPpmExact`): any full scales, any window of samples
  in them, any words of the PLL. The state's invariant is simple, `input \in Inputs` beside
  the property: a reading is made from one window. The work is in what a window gives
  (`LiveReadFrom`): no sum can be more than the roots allow. That the mean product is at most the
  product of the rms values, each a count up, is Cauchy and Schwarz's inequality, which
  comes out of a sum of squares that is never negative (`SumsOfForm`, `MixedSum`), and a sum
  is its last running sum (`RunningSum`). The gains are from 1 to 1.34 (`GainRange`), so each
  rounding is bounded in parts of a millionth of a count (`ReadingScale`, `PowerScale`). From there
  on `TriangleRead`, `ProductRead` and `FactorRead` are one part of the property each.
  `WidthAssumption`, true of the code's 64 bits, says that the squares fit the radicand;
  `InputAssumption` says what samples and words there are.
* **MainLoop** (`TurnInductive`, `ReadingsCorrect`, `ViewCorrect`): any tick width, periods and
  turns with period plus turn within the width. `TurnInv` says that a difference of
  ticks is the true time for as long as the tick cannot have come round; the time since a
  reading never can, the time since a rebuild is only known until then.
* **TouchPages** (`InputInductive`, `InputCorrect`, `RedrawsRemembered`, `PicturesCorrect`,
  `TapsCorrect`):
  any panels, number of fingers and length of the queue. `InputSettles` speaks of an empty
  queue; its strengthening says the same of every packet in it: what no later packet
  changes (`LastReport`) is as the kernel has it now, and each packet's fingers are those of the
  one before it but for its changes (`Follows`). `PicturesCorrect` holds for any size of
  screen: each edge of a button's picture is a sum of lengths that were scaled and rounded
  down one by one, and the edge the code tests is rounded the other way round, from
  pixels to the layout; the two are near (`NearX`, `NearY`; `NavNear`, `TabNear`, `ButtonNear`) and then
  agree on every pixel but `Margin` (`EdgeAgrees`). `MarginAssumption` says how far that is: 5
  pixels for any width, mostly the four buttons of the footer whose roundings add up, and
  a 240th of the height and one for the footer's two rows of the layout. `TapsCorrect` adds every
  order of packets, losses, turns and redraws.

Only model-checked:

* all liveness (`CallsReturn`, `CancelEndsShutdown`, `MainReturns`,
  `NewestReachesHistory`, `CatchesUp`), which this prover does not do;
* `SineReading` and `SpectrumMeasured` of `PowerMetrics`: they compare readings with what
  the inputs of the run are known to be, sines and tones with tolerances of their own; a
  theorem would need an assumption about each input that says as much as its conclusion.

## 5. What is not modelled

* The watchdog of `dma_service_state`: it only prints. (It reads `now` after
  `last_complete_ms` under the lock, so its difference does not underflow.)
* The callback signal of the library, two-way and video transfers, buffer
  registration: the program does not use them. `close()` of the device and
  AXIDMA_STOP_DMA_CHANNEL are assumed not to fail (the code asserts both, in
  `axidma_destroy` and `axidma_stop_transfer`).
* A window's sums are taken from its samples, as the FPGA does; 64-bit sums do not
  overflow for any window it can hold, and the models have no such width.
* The FFT page for a fundamental in bins 1 to 3: the bands of five bins overlap
  there, so a tone counts as its own harmonics. The code does not exclude it;
  `SpectrumMeasured` does.
* The kernel's emulation of a single-touch device, which repeats the oldest
  finger's events behind those of the slots; the search for an input device;
  `modeset_open`.
* Drawing, glyphs, number formatting. Sample values are 16 bits and their sums
  fit the code's types, so `ScopeHistory` uses unbounded integers.

## 6. Plan

Modules were written in the order of what matters most: engines, main, feed,
snapshot, hold, scope, display, touch, gains, then the library, the main loop's
timing, the readings and the FFT page. Proofs came in the same order, arithmetic last.
What could come next is a theorem about the FFT page: that the bands of neighbouring
harmonics are apart from bin 4 on, and that the bars and percentages follow from the bands'
sums as the readings follow from the window's.

## 7. Findings and disagreements

* **Unbalanced release** (run `main_assert`). `dma_shutdown_state` ends in an
  unconditional `dma_shared_release()`. If the main engine is up and the scope
  engine's init failed, its error path has released already; `main()` shuts it
  down all the same, the main engine's reference is dropped and the device is
  destroyed under its worker. The next transfer looks its channel up in the
  freed table, where `libaxidma.c:333` asserts `dma_chan != NULL`.
* No document says what the hold page should show of a frequency that was never counted;
  the code shows 0.00 KHZ, as a highest below the lowest or as a lowest nothing
  measured, in the cases `FreqExtremes` names (`power_model.c:1143-1154` set `freq_valid`
  for both limits and one value).
* `README.md:8-9` of the repository says that the program uses no touch and only
  shows the first page; the code reads touches and has four pages. The models
  follow the code.
