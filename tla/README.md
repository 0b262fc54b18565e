# Formal models of the QRAW benchmark and encoder

This directory holds TLA+ models of the concurrent core of the QRAW encoder
benchmark (`src/benchmark/cinepi_qraw_bench/vc5_bench.cpp`, called *B* below),
of the encoder library (`src/encoder_library/`, *L* for its .cpp) and of the
tools beside them (`src/tools/`), the TLC runs that check them on small instances and TLAPS proofs of their main
theorems. Every definition is translated from the source; `PROJECT.json` maps
each of them to its lines.

## 1. Inventory

QRAW turns 12/16-bit Bayer RAW frames into GoPro GPR containers: a frame is
split into four component planes, wavelet-transformed and quantised (on the GPU
or by fused CPU kernels), entropy-coded to a VC-5 payload and wrapped in a DNG
container by the Adobe DNG SDK. The same translation unit is the benchmark, the
recorder simulation and (through `CINEPI_NO_MAIN`) the encoder library.

| component | lines of B | state it keeps | operations | hard part |
|---|---|---|---|---|
| GPU/entropy pipeline, `run_pass` | 14545–15272 | RAW buffers, processing slots, GPU tokens, seven queues, frame counters | capture, split, GPU completion, N entropy workers, ordered writer, cancel, join | ownership through queues, out-of-order finishes, counters read across threads, failure of one stage |
| `Queue<T>` | 9602–9674 | items, closed, high water | push, pop, try_pop, pop_until, close | two condition variables, `cv_read_` and `cv_write_`; `notify_one` for each item and each place, waiters that may be overtaken or time out |
| `DirectGprEncoder`, container splice | 9819–10445 | template (prefix, suffix, size, count, flags) per process or per encoder; retained and in-place containers | learn, verify, publish, splice, in-place, SDK fallback | lock-free readers, decisions taken before the lock |
| container pool of the encoder | 9948–9957, 10062–10086, 10423–10438 | free containers | arm, give, recycle | containers come back from another thread |
| recorder, `run_capture_simulation` | 10580–11105 | ring, overflow, reserved pool, pending frames, flags | sensor, workers, reserver, monitor | end of a take: clock, full, failure |
| dual staged pipeline | 11184–11540 | two pairs of wavelet and entropy threads, slots with a state | produce, consume, abort | abort flag stored outside the mutex |
| adaptive staged pipeline | 11585–12013 | slots, stage assignment | produce, consume, help | as above |
| single staged pipeline | 12015–12336 | slots, queue, abort | produce, consume | as above |
| CPU GPR pipeline, `run_cpu_gpr_pipeline` | 12338–13220 | frame assignment, rendezvous, retire queue, per-worker encoders | worker, rendezvous, retire helper, ticker, hybrid verification | timeout against last arrival, shutdown of the helper, buffers returned by another thread |
| strict workers, cacheable snapshot pass | 13237–14540 | per-worker slots; snapshot ring | as `run_pass` | as `run_pass` |
| wavelet plane assistant | 5242–5440 | ticket, published rows | begin, publish, wait | rows published without a lock |
| fused wavelet kernels, quantiser, noise cleaner, CAQ | 2028–5158 | rings of rows | push row, emit row | ring depth, rounding, thresholds |
| hybrid int8/int16 storage | 7631–9240 | tile/band layouts | fit, pack, read | layout offsets, fallback |
| Vulkan pipeline | 5900–7630 | command buffers, fences | submit, wait | driver calls |
| encoder library, `src/encoder_library/` | L 107–760 | `EncoderImpl`: options, divisor table, coefficient and mask buffers, hybrid slot, one `DirectGprEncoder`; the levers of the process | create, encode, release, destroy | the caller and the environment set the same things; state shared by encoders that are said to share nothing; containers over failing calls |
| live statistics, `src/tools/seqlock_stress.cpp`, `qraw_stats_cli.cpp` | all | a sequence word and a snapshot in shared memory | publish, read, stop, wait, watch | torn snapshots, a reader that is always refused |
| `src/tools/pixel_clean_equivalence.cpp` | all | a threshold per divisor | scan, compare | one integer compare for two rules |
| `src/tools/pipeline_matrix.cpp` | all | encoders, sums of timings | create, encode, add, join, destroy | additions that meet |
| command line, reports, scripts, CRC and decode checks | – | none that outlives a call | – | – |

How they interact: `main` picks one execution (`run_pass`, strict workers, the
CPU pipeline, one of the staged pipelines, or the recorder). All of them own
one `DirectGprEncoder` per entropy worker; those encoders share the splice
template and the DNG SDK. The stages of `run_pass` and of the snapshot pass
talk only through `Queue<T>` and a few atomics; the other executions use a
mutex with condition variables of their own. The library compiles B without its
`main`: an `EncoderImpl` runs the fused wavelet and owns one
`DirectGprEncoder`, and whatever B keeps at file scope (the splice template,
the levers of Pixel Clean and Noise Clean) is shared by all encoders of the
process. The tools are clients of the library (`pipeline_matrix`), of the live
statistics (`seqlock_stress`, `qraw_stats_cli`) or hold the same functions as B
(`pixel_clean_equivalence`).

What makes each component correct is listed under `hazards` in `PROJECT.json`,
at the line where it bites, with the property that watches it.

## 2. Modules

### GpuPipeline (with OrderedDelivery, GpuPipelineProofs)

`run_pass`. One program counter per thread (capture, split, gpu, the entropy
workers, writer); one action per step that another thread can see: each queue
operation, each counter update, each test of a counter.

* RAW buffers: `captureFree`, `unallocated` (the Capture Protection Buffer
  slots not yet allocated), `camera`/`splitBuf` (in a stage's hands),
  `captureReady`. Slots: `freeq`, `splitSlot`, `gpuq`, `gpuSlot`, `entq`,
  `work`, `writeq`, `reorder`, `writing`; `gpuBusy` is what the device still
  works on. A slot carries its frame number (`slotFrame`), the frame whose
  pixels it holds (`slotData`) and its output (`slotGpr`).
* `closed` counts how far `cancel` has come through its five `close()` calls.
* `GpuFinish` is the device: a submitted slot finishes at some time.
* `notice` is the last thing the operator was told about removing power. What it
  is derived from is read and stored as the code does: the capture thread
  subtracts (`CaptureStop`), stores (`CaptureStoreStop`) and announces
  (`CaptureAnnounceStop`); the writer counts what is pending (`WriterCount`)
  before it looks at what was stored (`WriterRelease`).
* `collect` is TRUE and `final_gpr` is not null, as in the measured pass; the
  pixel work, the statistics, the CSV rows and the periodic "frames remaining"
  warning are left out. A free queue is a set: its order is never observable,
  the buffers and slots being alike. When a timed recording ends is a choice.

`OrderedDelivery` is the abstract promise of every frame pipeline: captured
frames are delivered exactly once, in capture order, and the pass returns only
when nothing is left; once a stage has failed, the camera among them, only the
order is promised.
`GpuPipeline` implements it by the refinement mapping at its end.

### QueueMonitor (with BoundedQueue, MCSyncPrimitives; proofs in SyncPrimitivesProofs)

`Queue<T>`: a mutex, two condition variables, `cv_read_` for who waits to pop and
`cv_write_` for who waits to push (B:9670), `notify_one` on the other side's after
a push or pop, `notify_all` on both in `close`. A blocked thread is in one of the
wait sets; a notification wakes any one thread of the set; a spurious wakeup and the timeout of `pop_until` are
`Wake`. `BoundedQueue` is the bounded FIFO with atomic operations that the
stages of the pipelines rely on; GpuPipeline uses its operations as steps, and
QueueMonitor shows that the code implements them, liveness included.

### SharedSplice (with MCSharedSplice, SharedSpliceProofs)

`DirectGprEncoder::encode` and `encode_hybrid` from the decision how to wrap a
payload to the end of the wrap. With `splice_shared` all encoders use one
template under `g_shared_splice.mu`, otherwise each has its own; the two
protocols are the same code on different variables, so the template is a
function of its *owner*. A payload is its size and what the SDK would put
around it (`around`); whether `splice_learn` can locate a payload in the SDK's
output depends on bytes and is a choice. Prefix and suffix are written in two
steps, so a reader that is not kept out would be seen to read half a template.
Left out: `encode_levels` (not called on this path), the self-check of the
local in-place output, allocation failures inside the SDK.

### CaptureRing (with CaptureRingProofs)

`run_capture_simulation`. The sensor (main thread), the workers and the
reserver; a block under `mu` is one step. A thread that finds its wait
predicate false keeps `mu` until it sleeps ("drowsy"), which is the window a
notification made without `mu` falls into. The buffers of the overflow are
numbered as they are allocated. `Init` is the state after the preallocation,
which may have been cut short by memory. The monitor thread only reads; nobody
waits on `cv_free`; the wavelet assistant, encoder and pixels are left out.

### StagePipelines (with StageThreads, DualStage, AdaptiveStage, HandoffStage, EveryFrameOnce, MCStagePipelines, StagePipelinesProofs)

The three staged pipelines, of which `main` selects one: `o.pipeline` is chosen
in `Init`, and `StagePipelines` composes the three modules over the variables
of `StageThreads` (one program counter per thread, the slots, `next_frame`,
`abort`).

* `DualStage`: two pairs, a producer and an entropy thread each with slots of
  their own that go free - filling - ready - encoding - free.
* `AdaptiveStage`: two producers and two entropy threads over one set of slots;
  `queue_policy` decides whose slot an entropy thread takes, `core0_reserve`
  (hard or soft) keeps slots for core 2.
* `HandoffStage`: one producer, one entropy thread and up to two normal workers
  that do both for frames of their own (w0e1, w1e0).

A thread that finds its wait predicate false keeps the mutex until it sleeps
(`Doze`, `Sleep`), the window into which an announcement made without the mutex
falls. An announcement made directly after a locked block is part of the block.
Frames are claimed with an atomic counter that goes on counting past the quota
(`ClaimWork`). When the clock of a timed pass runs out is a choice. Left out:
pixels, delays and nice values, and the phase lock of the dual pipeline, which
only delays a producer.

`EveryFrameOnce` is the abstract promise of all pipelines whose workers compete
for frames: what is taken on is encoded once, and the pass returns with nothing
left behind; after a failure only that nothing is encoded twice.

### CpuGprPipeline (with WaveRendezvous, WaveletAssistant, EveryFrameOnce, MCCpuGprPipeline, CpuGprPipelineProofs)

`run_cpu_gpr_pipeline`. Up to four workers, each of which takes a frame on
(`Assign`, under `assign_mu`), transforms, encodes, saves and releases it.

* `WaveRendezvous`: `wave_rendezvous_enter`. Arrivals and timeouts are blocks
  under `wave_rv_mu`; a timeout may come at any time.
* `WaveletAssistant`: a helper thread per job slot. Jobs go over under `mu_`,
  rows through a ring guarded by `produced_` and `consumed_`; the copy of a row
  and the publication of its counter are two steps, and so are the push and the
  consumption. The coefficients of a worker are the frame its own planes belong
  to and the row last written for every row of the assisted ones. Busy helpers
  turn an owner away, who then transforms everything itself.
* Buffers: `bytes` is what each live buffer holds (a frame, and whether it is
  what the int16 path would write). An output is on the heap, in the encoder's
  retained container (H2) or from its pool; `Recyclable`, `owns_output` and the
  retire queue decide what becomes of it. On trial, the hybrid path is compared
  with the int16 path, in two steps on one encoder.
* The retire helper keeps `retire_mu` from its test to its sleep.

What a payload's size decides is left to SharedSplice: here `ProduceBySdk` may
happen whenever a splice may. Left out: the ticker, which only reads; warm-up,
which changes what is counted; the pinning of threads; `save_gpr` itself is
modelled down to the number and content of each file.

### PixelClean (proofs in EncoderSetupProofs)

`pixel_clean_equivalence.cpp`, and the functions of the same content in B
(3210–3240). The two quantiser rules of Pixel Clean (`Literal`) and the one
integer compare the encoder applies (`Fused`); the scan for the threshold goes
one coefficient a step, as the tool's does, and `Compare` is the tool's loop
over all coefficients. Widths are C++ `int`; that nothing overflows is a
theorem, not an assumption.

### EncoderConfig, EncoderSetup (with MCEncoderSetup, EncoderSetupProofs)

`cinepi_qraw_create`, one action per stage of it, in its order: `Check`,
`Levers`, `Range`, `Source`, `CompandEnv`, `Tables`, `BandQ` (one override a
step), `Plan`, `Writer`; `Reject` is every `return nullptr` and `OutOfMemory`
every allocation. `cfg` and `env` are what the caller passes and what the
environment holds; `o`, `table` and `impl` are `Options`, the divisor table and
`EncoderImpl`. Real-valued settings are in hundredths. A created encoder then
resolves the Pixel Clean threshold of any plane and band (`ResolveBand`), which
hands the divisor that create led to - ladder, scaling, override, CAQ - to
PixelClean; where `lround` meets an exact half of a product of doubles, either
neighbour (`CoarseDivisors`). Shifts are those of the machines the code is built
for: `1 << effective_bits` of an int counts modulo 32 (`Saturation`), the
`size_t` that sizes the companding table modulo 64 (`LutEntries`). Left out: the companding curve, the ISO prototype of Noise Clean,
crops and strides, the lifecycle log, `cinepi_qraw_config_defaults` as a call of
its own (its values are `Defaults`).

### EncoderLevers, EncoderLibrary, PipelineMatrix (with EncoderService, MCPipelineMatrix, PipelineMatrixProofs)

* `EncoderLevers`: the file-scope variables of Pixel Clean and Noise Clean.
  `Fold` and `Fill` are `cpu_quant_tables_caq` (B:4034–4075) in the two steps
  another encoder can see, the table being cleared and refilled; `Read` is
  `fused_level_init` of one plane and level.
* `EncoderLibrary`: create, encode, release and destroy of each encoder. One
  program counter per encoder; a call is the steps other encoders can come
  between. `inplace_buf_`, `pool_buf_`, `pool_last_out_` are those of
  `DirectGprEncoder`, `held` is what the caller has, `heap` what each block is
  and the frame in it; an encode may fail in its wavelet, its entropy stage, its
  wrap and for want of memory, and leaves behind what the code leaves: an armed
  container, or an output that was allocated and belongs to nobody (`Orphan`), with
  the template that has learnt from it. Learning
  the splice template is one step here; its protocol is SharedSplice's subject,
  as is the wrap of the int16 path. `failedHolding` is a history variable.
* `PipelineMatrix` composes the library with its clients: `camera` is any
  program that keeps to the header, `matrix` is the tool: main, its workers and
  the compare-exchange loops on the shared sums (a spurious failure of the weak
  exchange is a stutter). The pool of source frames and the background writer
  of the tool are left out.
* `EncoderService` is what the header promises of one encoder: every call
  returns, with the container of the frame it was made for or with a failure,
  and a container stays valid and unchanged until it is released.

### LiveStats (with MCSyncPrimitives; proofs in SyncPrimitivesProofs)

The block of shared memory, the writer of `seqlock_stress` (fixed and
`--buggy`) and the readers of both tools. `qraw_live_stats.hpp` is not in the
repository; `publish`, `attach` and `snapshot` are modelled from what
`seqlock_stress.cpp` says of them and how the tools call them. Every word is
stored and loaded on its own, in any order within the copy; the accesses are
sequentially consistent, which stands for the fences of the code.
`MCSyncPrimitives` checks this module and QueueMonitor in one run: it chooses one of
them at the start and the other rests.

## 3. Runs

`tlc -workers 2 -config <cfg> <module>`; each finishes within about four
minutes.

| run | instance | shows |
|---|---|---|
| gpu | 2 slots, 1 RAW buffer with and without one to be allocated, 2 workers, 1 in flight, 2 frames, timed; one of the workers and the writer may throw | every buffer and slot has one owner, counters, what is said of the end of a take, every stage `cancel` reaches ends, `OrderedDelivery` implemented |
| gpu_hang | 1 slot, 1 buffer, 1 worker, the writer may throw | *violated*: `ErrorReachesCaller` |
| gpu_notice | 2 slots, 2 buffers, 1 worker, 2 frames, nobody fails | *violated*: `NoticeHonest` |
| primitives | 2 producers, 2 consumers, capacity 2, 4 items; or 2 words, 3 publications, both tools with every argument | no missed wakeup, `BoundedQueue` implemented, `close` releases everybody; no torn snapshot, both tools end, a watching command shows the last publication |
| splice | 2 encoders, 4 frames each, all option combinations, 3 payloads of 2 sizes | readers see whole templates, trust after exactly three comparisons, spliced bytes are the SDK's, published templates frozen |
| splice_sdk | as splice, shipped options | *violated*: `SdkSerialised` |
| capture | ring of 1, overflow of 2, 2 workers that may fail, 5 frames, both values of `capture_prealloc` | one frame per buffer, nothing dropped, `overflow_cap_frames` kept, a full or failed take returns |
| stages | seven option sets: dual with 2 slots and 3 frames, and failing with 1 slot; w0e1 with one normal worker failing by the clock, and with two; adaptive failing, with the preferred and the core-2 policy, hard and soft reserve of 2 of 3 slots | slots have one user and hold the frame they are said to hold, no producer's frames overtake each other, `EveryFrameOnce` implemented, a caught failure ends the entropy thread |
| cpu_gpr | eight option sets: three workers with rendezvous, clock and failures; one assistant for three, one for the first with failures, two-row ring and three rows; saving with a limit below the frames, with 2 and with 3 workers; one worker, five frames, outputs copied, retained and pooled, hybrid on trial | frames encoded whole, each buffer one holder, file numbers without gap or reuse, a failed comparison keeps the reference, `EveryFrameOnce` implemented, a failure ends the pass |
| setup | some 5000 calls and environments: precision asked for by caller and environment at once, `effective_bits` from 0 to 80 and 16-bit sources at every shift, frame sizes and buffers, levers with CAQ, a quant of -1, 7 and 40000; the shipped ladders m1, m5, m10; coefficients to ±16384 | codes fit int16, divisors are positive and a mode's at most 32767, the lookup table is not passed, the ladder is scaled once, buffers match the path, one compare is the two rules for every divisor create leads to |
| library | 2 encoders, 3 blocks of heap, 2 payload sizes, 2 settings, 3 frames each and 3 in all; camera and matrix | Pixel Clean and the Noise Clean profile not lowered, each block in one hand and none lost until a call fails with one, released containers recognised rightly, no addition lost, `EncoderService` implemented |
| library_levers | the same | *violated*: `OwnLevers` |

Why the bounds are enough. gpu: two slots and two workers are the least that
let frames finish out of order and send more than one END (the workers being
alike, it is enough that one of them may fail); with one buffer the camera
waits, with a second one it is allocated on the way; a stage
in the middle and the last fail at every step they can, so two frames already leave
`cancel` with every queue full or empty. With the split and the completion stage
failing as well (`Faulty = {"split", "gpu", w1, "writer"}`, 620 thousand states, a
little over five minutes) the same properties hold; a failure of the camera's
allocation has no run, and for it the safety is proved. (Larger
fault-free instances of the same module, 3 slots and 4 frames, were run while
it was written; all its safety is proved for any size.) gpu_notice: two buffers,
so that a frame can be captured while the one before is committed. primitives: two
threads on each side of the queue are the least for which the one that is notified
can be overtaken while another sleeps; capacity 2 has the queue full, empty and
between; three publications let a reader's two loads of the sequence fall into two
different ones with one between. splice: three
comparisons and one splice after them need four frames of one encoder, the
second encoder is the rival. capture: five frames fill a ring of one and an
overflow of two while frames are being encoded. stages: three frames on two
slots reuse a slot and give each pair work after the other has stopped; three
slots with a reserve of two are the least on which the reserve binds. cpu_gpr:
three workers are what the rendezvous and the assistants are built for; a ring
of two rows is filled and wraps with three rows; trust in a template and in the
hybrid path takes three frames each, with two encodings per frame on trial, so
five frames reach the splice during the trial and the trusted path after it; a
retire queue of one is full as soon as two outputs are handed over. setup: the
calls vary one group of settings at a time, each with every kind of value on
both sides of its checks; groups that read each other's results (the two
precisions, scaling and overrides; word width, shift and swap) vary together;
precisions lie on both sides of 16, 32 and 64, where the two shifts wrap.
library: three blocks are fewer than two encoders can ask for, so memory runs
out; three frames of one encoder fill a container, hand it out, take it back
and fail in it; the template starts unlearnt or verified, so the learning frames
need not be counted.

The four violations are the findings of `PROJECT.json`:

* `cancel` never closes `capture_free` and `capture_ready`; a failing stage can
  leave the capture thread waiting and `run_pass` never rethrows (B:14595).
* The writer counts what is pending (B:15088–15090) and then looks at what the
  capture thread stored when it stopped (15091). The last frame and the stop can
  fall between the two, and "BUFFER DRAIN COMPLETE: all captured frames encoded;
  power may now be removed safely." (15095) is said with a frame not encoded.
* The SDK calls said to be process-wide serialised are under different mutexes
  (B:10161, 10177, 10212).
* Encoders that are said to share nothing share the levers: once one encoder
  has been created with Pixel Clean or a Noise Clean profile, every encoder of
  the process is thresholded with it (B:4039–4048).

Other disagreements the models show without a run of their own:

* "BUFFER DRAIN COMPLETE" is missed when the last commit falls between the
  computation and the store of `capture_pending_at_stop` (B:14715–14718).
* The deadline path of the recorder stores `stop` and notifies without `mu`
  (B:10995–10996): a lost wakeup, and the join hangs. A take that fills or
  fails sets its flags under the mutex, and that it returns is checked.
* The trial of the hybrid path compares two outputs "byte for byte", but with
  the retained container (the default) and an active local template both are
  the same buffer (B:12853–12854, 10028–10045); `ReferencePrevails` therefore
  speaks of outputs in different buffers.
* With `--capture-prealloc off` the "overflow cap" (B:796) may be passed by one
  frame, because the reserver allocates outside `mu` after testing the budget;
  `OverflowWithinCap` states that one frame is the most.
* `arm_inplace_output` overwrites `inplace_buf_` with the pooled container
  (B:10073). After an encode has failed in a container, with another one
  released to the pool, the first is lost: `NothingLost` holds up to such a
  failure.
* What throws in `encode_hybrid` after the output was allocated - learning from it
  (B:10349–10375) or finding that it is no TIFF container (10403–10408) - leaves
  the block to nobody: `out` is a local variable of `cinepi_qraw_encode` (L:684),
  which returns -3 without freeing it. `NothingLost` holds up to such a failure,
  too.
* A reserve that falls short announces "the-cap-is-now-what-was-actually-reserved"
  (B:10678–10680), but nothing lowers the cap: when the reserved buffers are in
  use the sensor allocates up to `overflow_cap_frames` (10944–10966). The cap
  of `OverflowWithinCap` is `overflow_cap_frames`, the one the code tests.
* `effective_bits` is not bounded by create, as `parse_args` bounds it (B:1476).
  From 64 up the table of `make_lut` has 2^(n mod 64) entries (B:1744), while the
  check of shifted and swapped words (L:344–357) compares the shift with n: a
  caller who also gives the white level gets an encoder whose words are past its
  table. `LookupFits` is claimed below 64.
* The Noise Clean table is cleared and refilled on every frame of every encoder
  (B:4052–4068) while others read it.
* Of the library's create: the comment at L:377–385 says the in-place splice is
  not enabled, L:373 enables it; the header promises "a slower schedule" for a
  geometry the fused kernels do not take (h:49–51), create returns NULL;
  without a mode `CINEPI_COMPAND_BITS` logs that the quantiser step is applied, and
  `o.quant` is not scaled; a pruning divisor 32767 of `CINEPI_BAND_Q` becomes
  32766 in the planes CAQ coarsens.

The same kind of announcement without the mutex as on the recorder's deadline
path is made when a staged pipeline is aborted from a catch block (B:11442,
11942, 12209, 12260) and when the retire helper is told to stop (B:12998). The
models contain the window. No property claims that a failed staged pass ends, nor
that the function returns after the retire helper was told to stop: the code does
not guarantee it, and no comment or test says it does. A failing producer of the
dual pipeline does mark itself done under its mutex (B:11386), and what that
protects is `FailureEndsEntropy`.

Fairness. A thread that can take a step eventually takes it (weak fairness per
thread: the operating system schedules it). The threads of CaptureRing, the
producers and entropy threads of the staged pipelines and the workers of the
CPU pipeline compete for a mutex and get strong fairness: a thread that asks
for it again and again gets it. The normal workers of w0e1/w1e0, the assistants
and the retire helper need weak fairness only. In PipelineMatrix a
call that has been made goes on and the tool's threads run (weak fairness of
each); a camera program is owed no call. In LiveStats the reader runs, the ten seconds and the deadline pass; that a camera opens its block or
publishes again is not assumed - only a publication that has begun is finished -
and a reader may be refused as long as the
writer goes on: `ShowsLatest` is about what follows. No fairness is assumed for
spurious wakeups, for exceptions, for the end of a timed recording before its
bound, or for callers of a queue to call again.

## 4. Proofs

`GpuPipelineProofs` (for any number of slots, buffers, workers, tokens and
frames, with faults):

* `TypeCorrect`: `Spec => []TypeOK`.
* `CompletedIsCaptured`: `completed <= enqueued`. The invariant needs to know
  that every frame number in circulation was captured: the captured frames are
  counted before they are published and a slot's frame number stays below the
  count of frames taken from `captureReady`, so the inductive invariant relates
  `enqueued`, the length of `captureReady`, `split`, `slotFrame` of every slot
  in use and `completed`.
* `SafeToCloseIsTrue`: "safe to close" is only said when all captured frames are
  committed, and neither it nor "power may be removed" before the camera has
  stopped. It needs that `pendingSeen` and `pendingAtStop` are only set after the
  capture loop has ended. That "power may be removed" is only said with nothing
  pending is false (the run gpu_notice).
* `SlotsHaveOneOwner`: `SingleOwner`. `OwnInv` counts, for every slot and every
  buffer, its holders over all queues and hands. To show that a step moves a
  slot from one place to another it needs that a thread about to take one has
  empty hands (`EmptyHands`), that nothing is closed and nobody cancels before a
  failure (`FailedFirst`: a slot may be dropped only after one), and that no slot
  the device works on is beyond the completion stage (`InFlight`).
* `FramesLeaveInOrder`: `Delivery!Init /\ [][Delivery!Next]_...`, the safety of
  `ImplementsDelivery`. `DeliverInv` follows a frame along the pipeline: the RAW
  buffers hold consecutive frames in the order they wait (`NumbersExact`,
  `RawInOrder`), a slot holds the frame it is numbered for
  (`SlotsHoldTheirFrame`), its output is of that frame (`OutputsMatch`), the
  outputs committed are numbered from 0 (`DeliveredInOrder`), and a frame that is
  numbered and not committed is in a slot that is not free (`NotLost`). That the
  pass returns only when nothing is left rests on `EndInv`: while nothing fails a
  stage has stopped only after the one before it, leaving it empty, the ENDs are
  the last entries of every queue, and the ENDs the writer has seen and those in
  `writeq` are the workers that are done. So when all threads are done no slot is
  in a stage, every slot is free, and `NotLost` leaves no frame (`EmptyAtEnd`).

`SyncPrimitivesProofs`, the queue (any number of producers and consumers, any
capacity):

* `NoWakeupIsLost`: `NoMissedWakeup`, inductive together with the types and with
  `RightCall` (a producer only pushes, a consumer only pops, so that one
  notification always reaches a thread of the right side or finds none asleep).
* `StepsArePromised`: the safety of `ImplementsQueue`; waiting and waking are
  stutters of the bounded FIFO.

`CaptureRingProofs` (any ring, cap, workers and frames, workers that fail):

* `NoFrameIsLost` (`NothingDropped`): captured frames are the encoded, the
  pending and those in the hands of workers (`Counted`); that a take returns with
  all of them encoded needs `EndInOrder` (a worker leaves without an error only
  when the take was stopped and nothing is pending).
* `OverflowIsBounded` (`OverflowWithinCap`): what is owned was taken or is
  reserved (`OverflowCounted`).
* `BuffersAreExclusive` (`OneFramePerBuffer`): the free, pending, filling,
  encoding and reserved buffers are disjoint and are all there are.

`SharedSpliceProofs` (for any set of encoders, payloads and options):

* `TypeCorrect`, `ReadersAreSafe` (`ReadersSeeWhole`), `TrustIsWhole`
  (`NoPartialTrust`), `PublishedOnce` (`TemplateFrozen`), `SplicingIsExact`
  (`SpliceExact`). One inductive invariant `IInv`: the holder of a mutex is the
  one encoder past `Lock` with it (`Exclusion`); a template is empty, half
  written by exactly the encoder at "suffix", or whole and equal to what the
  SDK put around a payload of its size (`Content`); who splices has seen the
  template published (`Trusting`); a retained container was primed from the
  template as it is (`Primed`).

`StagePipelinesProofs` (dual, adaptive and handoff, for every option set that
`parse_args` accepts, any number of frames, with every stage that may throw):

* `SlotsAreHandedOver` (`SlotsHandedOver`) and `EncodedInOrder` (`InOrder`). Of
  one producer and one entropy thread `Pair` says all that is needed: a slot's
  state names the hand it is in or that it waits (`Handed`), and the frames
  encoded, in the entropy thread's hand, waiting and being transformed are
  consecutive numbers in that order (`Consecutive`), so that a slot that is used
  again cannot overtake. Each pair of the dual pipeline and the pair of the
  handoff pipeline is a `Pair`; its lemmas are proved once, over values. In the
  adaptive pipeline two producers share the slots, entropy threads take from the
  middle of the queue, and frames are numbered per producer: `Pool` is about who
  holds a slot, `Order` about frames - the queue is ascending for each producer,
  and whatever was taken of a producer is older than what waits
  (`TakenFirst`), which is what the queue policies must not break and what
  makes stealing harmless. `DualHands`, `AdaptiveHands` and their like tie the
  label of a thread to the slot it holds.
* `EveryFrameIsDeliveredOnce`: `Delivery!Init /\ [][Delivery!Next]_...`, the
  safety of `ImplementsDelivery`. Taking a frame on is `Take` of
  `EveryFrameOnce`, encoding it `Finish`, the end of the last producer `Stop`, the
  join `Return` and a failure `Fail`; all other steps are stutters. That success is told only when nothing is left rests on `DualEnd`,
  `AdaptiveEnd` and `HandoffEnd`: while nothing has failed an entropy thread ends
  after its producers, with the queue and its own hands empty, so that what was
  made and what was encoded are the same frames (`DualFrames`,
  `AdaptiveAllEncoded`, `HandoffAllEncoded`; `NoneLost` for the shared queue).

`CpuGprPipelineProofs` (up to four workers as in the code, any number of frames,
rows and ring places above one, any retire queue, every kind of output, with or
without failures, clock, rendezvous, assistants, hybrid trial and saving). Every
part rests on `FramesInv`: no two workers have the same frame, and `main` goes on
past the join only when all have ended.

* `FramesAreDelivered`: `Delivery!Init /\ [][Delivery!Next]_...`, the safety of
  `ImplementsDelivery`. Every frame taken on is finished or in a worker's hands
  unless somebody failed, so a pass that returns has encoded all it took on.
* `WholeFramesAreEncoded` (`EncodesWholeFrame`), from `AssistantInv`. A helper that
  is busy has the job last given out, and its owner is waiting for it or has
  failed and gone (`HelperOf`, `OwnerOf`). While the owner is there, the rows in
  the ring and the coefficients written so far are of the owner's frame
  (`Served`): a row is overwritten only when it was consumed, since two rows
  less than the ring's size apart have different places (`PlaceFacts`). When the
  job is completed, all rows have gone through (`Finished`), so what the owner
  encodes is its own frame, row by row. A helper whose owner has failed may keep its
  job for ever, and nobody encodes from it. The invariant ends where the assistants
  are told to stop, which is after the last worker.
* `BuffersHaveOneHolder` (`BufferHasOneHolder`) and `ReferenceAlwaysPrevails`
  (`ReferencePrevails`), from `BuffersInv`: what a worker, its encoder, the retire
  queue and the helper hold is disjoint and live (`ApartInv`, `QueuedOnce`), a new
  buffer is none of the live ones, since it is named after its frame
  (`NamesInv`), and an output is of its frame, a reference as the int16 path
  writes it (`ContentsInv`).
* `FilesAreNumbered` (`FilesExact`), from `FilesInv`. A worker above the limit adds
  to the count before it takes the number back. The numbers below `Kept`, the count
  without those about to be returned, each have one file or one writer, and nobody
  returns a number below it (`NumbersInv`).

`EncoderSetupProofs` (for every caller, environment and ladder; the Pixel Clean
part for every divisor and coefficient):

* `PrecisionFits` (`CodesFit`), `LadderScaledOnce` (`ScaledOnce`) and
  `BuffersAreThere` (`BuffersMatchPath`), from one invariant of the steps of
  create. `PrecisionInv`: the precision is reduced in the container or inside it,
  never in both, and the largest code is the container's. Every band has a divisor of at
  least 1; that it is at most 32767 is claimed of a mode's divisors, since create
  sets no upper bound on a caller's `quant`. `TableInv`: a band's
  divisor is an item of `CINEPI_BAND_Q` or the nearest one the quantiser takes to
  the scaled ladder (`LadderFits`), and what is left of the items are items of the
  environment. `BuffersInv`: from `Plan` on the frame and the mask are those of
  the path that was decided; a failure leaves nothing.
* `WordsFitLookup`: `LookupFits`, for every `effective_bits` below 64 and every
  white level. `SourceInv`: from `Source` on,
  a source that is shifted or swapped has `src_shift + effective_bits >= 16`, and no
  later override changes either. A shift by s leaves a word of 16 - s bits
  (`ShiftedWord`), and a table of 2^e entries, e below 16, holds the words of e bits
  (`PowersGrow`), a larger one every word; the prover knows powers of literals only, so both are tables.
* `FusedEquivalence`: the tool's scan and comparison keep their types and it never
  finds a mismatch; `ThresholdsAreLiteral`: nor would it with any divisor a
  created encoder comes to. The quantiser is monotone in the magnitude, so the
  scan stops at the largest magnitude whose level is at most one (the invariant
  of the scan, `ThresholdInv`), and `8|v| < 5q` is `|v| <= (5q-1) div 8`. CAQ
  leaves every band a divisor (`DivisorPositive`).
* `ProductFits`: the product inside the quantiser is below 2^31, for every
  coefficient and every divisor up to 32767. A caller's `quant` without a mode
  may be larger; for those the equivalence is of unbounded integers.

`SyncPrimitivesProofs`, the live statistics (any payload and number of
publications):

* `NoTornSnapshot`. At rest the sequence is twice the number of the publication
  all words hold; while it is written it is odd. If the sequence still is what
  the reader's first load found, every word it has loaded belongs to it.

`PipelineMatrixProofs` (any number of encoders, workers, blocks, sizes,
settings and frames):

* `BlocksAccountedFor` (`Accounted`) and `RetainedContainersFit` (`RetainedFits`),
  from `OwnershipInv`, which says hand by hand
  which block may be where (`Apart`, `Fitting`, `AllFound`), that a container is
  armed exactly as long as the encoder has one (`PendingIsArmed`) and that before
  the first failure with a block in hand none is left armed between calls
  (`LeftByFailure`).
* `CallsAreServed`: `Service!Init /\ [][Service!Next]_...`, the safety of
  `ImplementsService`. The containers a caller holds have different frames, none of
  them later than the last call's and none that of a call under way, whose own
  frame is in the armed container when it is wrapped (`Served`); with `Apart` no
  step of an encoder touches a block another has or a caller holds
  (`OthersKept`), so a call that returns adds its own frame and nothing else, and
  a release takes one frame away.
* `LeversOnlyRise`: `NotLowered`, which is about Pixel Clean and the Noise Clean
  profile. Those two dominate every encoder's own (`Covered`), since they only
  rise; the strength is the last writer's (B:4046–4048) and the ISO table is
  cleared (4052–4054), and no property bounds them.
* `TimingsAddUp`: `SumsExact`. A sum is the frames counted plus the workers
  between their addition and their count.

Assumptions are the ASSUMEs of the modules and nothing else: bounds are naturals,
`Nil` is no block, no buffer and no number (`NilAssumption`), options are ones
`parse_args` lets through (`OptionsAssumption`), ladders hold divisors 1..32767
(`ConfigAssumption`). Type correctness is part of these proofs. Only
model-checked is everything under fairness (`CancelStopsEncoding`, `CloseReleases`,
`FullTakeReturns`, `FailureEndsEntropy`, `FailureEndsPass`, `ToolsEnd`,
`ShowsLatest`) and the liveness of the refinements (`ImplementsDelivery`,
`ImplementsQueue`, `ImplementsService`), since the provers do not handle ENABLED.

## 5. Not modelled

* The strict workers and the cacheable snapshot pass: two further arrangements
  of the stages and the ordered writer GpuPipeline models; what is their own is
  the copy out of driver memory.
* Hybrid int8/int16 storage, the lifting steps, row rings and NEON kernels:
  computations on the samples of a frame whose result depends on each of them.
* Vulkan and the shaders: that a submitted slot finishes later is all the
  pipeline sees of them (`GpuFinish`).
* The DNG and GPR SDK (external): the calls SharedSplice and EncoderLibrary
  make, with any outcome.
* The class of the live statistics itself is external; the hand-over of a pooled
  container between the two threads of an adaptive pair; the pool of source
  frames and background writer of `pipeline_matrix`.
* Command line, reports, CSV, telemetry, scripts, CRC and decode checks: no
  state that outlives a call.
