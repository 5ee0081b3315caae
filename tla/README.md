# Verification of gps-sim

TLA+ models, TLC runs and TLAPS proofs for the parts of this repository in which
several threads, processes or clients share state - the dual-channel TX card, the
stream threads that feed it, the web handlers that own its slots, the live
session that produces segments ahead of the air - and for the native synthesis
engine, the C++ code that computes the samples: its worker pool and writer thread,
the mixer, the fading channel, the ranging codes and the propagation of satellites.
Source references are
repository paths (`backend/...` is `src/backend/...` in PROJECT.json).

## 1. Inventory

| component | state it keeps | operations | who it talks to |
|---|---|---|---|
| **shared TX card** `backend/rf/dual_tx.py` | `_lock`, `_card`; per card: device handle and channel mask, `active`, `queues`, `underflow`, `first_data_t`, `started`, `error`, `stop`, the pump thread | `acquire`, `register`, `ensure_channel`, `enqueue`, `unregister`, `_release`, `shut_down`, `_pump_loop` | called by stream threads; calls the RF backend; queues between producers and pump |
| **stream thread** `backend/rf/transmit.py` | loop position, cancel event, carry of the sink | open, chunk loop in slices, push, close | iterates a chunk source (file or live session), drives one sink |
| **TX slots** `backend/app.py` 334-385, 1340-1440, 1900-2135 | `_tx_slots`: slot -> entry with session and stop event | take, free, start, follow, stop, calibrate | starts stream threads from SSE generators, joins them for a bounded time |
| **live session** `backend/session/live.py`, `play_schedule.py` | `running`, `state`, `_air_gain`, worker pool, queue `out`, in-flight requests, planned T_play | `segments`, two producers, `_scheduled_first_segment`, `stop`, `jog`, `shift_time` | a generator consumed by the stream thread; worker processes |
| FPGA host `backend/fpga/tx.py`, `device.py`, `stream.py` | fed blocks, prefill gate, armed enable, last status | start, feed, poll, stop, register access | writes command buffers over DMA, registers over ssh or libiio |
| FPGA FIFO `fpga/rtl/gs_afifo.v` | binary and gray pointers of two clocks | write, read, synchronise | between command loader and datapath clocks |
| FPGA sequencer and loader `gs_seq.v`, `gs_loader.v`, `gs_scan.v`, `gs_wrap.v` | shadow banks, play index, parser state | load block, skip late, swap, underrun, resynchronise | command FIFO in, slots out |
| Start-Now calibration `lead_calib.py`, `clock_sync.py` | a JSON file of latencies | record, load | session start and end |
| observability `backend/obs/*` | listener socket and thread, recording directory | listen, stop, tee | web sockets |
| RF backends, front ends, device status | driver handles | one method per device call | libiio, libbladeRF |
| **native engine** `synth/native/engine.cpp` | block position, float buffer, two output buffers, writer thread, progress | `synth_run`, `synth_run_bands` | called over ctypes with the bands of a segment or a file; runs chunks on the pool, hands blocks to its writer |
| **worker pool** `scheduler.cpp` | mutex, two condition variables, `fn_`, `ntasks_`, `next_`, `pending_`, `gen_`, `stop_` | constructor, `run`, `loop`, destructor | the engine's thread and its workers |
| **mixer** `mixer.cpp`, `nco.hpp`, `navmsg.hpp` | per call and channel: cached chip, chip counter, 32-bit carrier phase | `mix_block_parallel`, `mix_block`, `prepare_sv`, `mix_sv_into` | codes, messages, trajectories and gain knots in; samples added to a buffer |
| **fading channel** `fading.cpp` | window of drawn random blocks, last grid interval | `at`, `value`, `normal`, `gain`, knot spacing, `fading_gain_series` | asked by the engine for the gain at knots |
| **ranging codes** `ca_code.cpp`, `l5_codes.cpp`, `l2c_codes.cpp`, `beidou_b2a_codes.cpp`, `galileo_e5a.cpp`, `codes_mem.cpp` | shift registers | `synth_code`, `synth_code_l2c`, `synth_code_l5`, ... | fill caller's buffers |
| **propagation** `ephem.cpp`, `glonass.cpp` | none between calls | `synth_sat_state_sys`, `synth_glonass_state` | called per satellite and instant |
| synthesis planning in Python, ephemerides, navigation codecs, receivers, error models | numerical state | pure transformations | files |
| scenarios, configuration, login, web front end | files, page state | request/response | HTTP |

What is hard in it, and what makes each part correct:

* **Card.** Producers, the pump, `acquire()` and `_release()` of the other port
  interleave; a mask can be changed only with the pump stopped, joins can time
  out, every device call can fail half way through. Correct means: one device,
  open exactly while it is used; every write matches the mask; joining and
  leaving of one port costs the other none of its blocks; gaps are counted; no
  thread waits for ever.
* **Slots.** Clients come, vanish, leave and stop; the generator that owns a slot
  waits only a bounded time for its thread. Correct means: an entry belongs to
  one handler; a stop ends the stream and gives the slot back.
* **Live session.** Pipelined workers, failures and retries, re-planned starts,
  stops at any point. Correct means: time advances without repeats or holes, one
  digital gain, operator input arrives after a bounded number of segments, and
  producer and consumer never wait for each other.
* **Native engine and pool.** Workers wake late or spuriously and meet the next call;
  the writer drains one buffer while the workers fill the other; a write falls
  short after its block was handed over. Correct means: every chunk is mixed
  once, no thread uses a call's function after the call has returned, the file has
  no gap, repetition or half-mixed sample, a call that returns 0 has handed over
  every sample, and every call returns.
* **Mixer and fading.** Their speed comes from caches and running phases that go
  from sample to sample, tile to tile and call to call. Correct means: a sample,
  and a gain, depends on its absolute time only.
* **Codes and propagation.** Resets, delays, advances, week roll-overs and last
  steps are off-by-ones that give plausible results. Correct means: the registers
  stay in the sequence that their polynomial defines; a state belongs to the
  instant that was asked for.
* **FPGA.** Host and engine run on different clocks with a queue between them:
  prefill against enable, underruns, late blocks, torn counter reads, gray
  pointers.

PROJECT.json lists every component with its status, and the hazards of the modelled
parts with their lines and the properties aimed at them. Hazards that are known in
parts without a model yet: the armed enable of the FPGA that fails after it
fired (`fpga/device.py:292`), its feeder against a start that gives up
(`fpga/tx.py:186`), a stop after a join that timed out (`fpga/tx.py:272`), 64-bit
counters read in halves (`fpga/device.py:182`), gray-coded pointers
(`gs_afifo.v:99`), unfinished slot banks (`gs_seq.v:93`), resynchronisation
(`gs_loader.v:299`), the listener of `receiver_feed.py:70`, the unlocked update in
`lead_calib.py:97`, recordings of one second (`recording.py:37`); and in modelled
parts, outside the model's abstraction: a card's `error` that is never cleared
(`dual_tx.py:262`), underflow counts kept from the run before (`dual_tx.py:245`), two
byte formats on one card (`dual_tx.py:349`), a calibration beside an orphaned
thread (`app.py:370`), a stop before the generator's first step (`live.py:575`), the
interpreter's switch interval (`play_schedule.py:52`), `max_duration_s` that only a
consuming client evaluates (`app.py:1997`), and a call that runs past its
trajectory knot because its block is not as long as a knot (`mixer.cpp:73`).

## 2. Modules

| module | models | uses |
|---|---|---|
| `SharedCard` | what `acquire`/`_release` promise: one tuning at a time, joined by equals, closed only without users | - |
| `DualTx` | the card with its pump, and the stream threads | instantiates `SharedCard` as its abstract specification |
| `TxService` | slot table, handlers, generators, stop, calibration | extends `DualTx`, whose thread steps it schedules |
| `LiveSession` | segment generator, both producers, Start-Now planning | - |
| `ParallelFor` | what `WorkerPool::run` promises: each task once, and return when all are done | - |
| `WorkerPool` | the pool's threads, mutex and condition variables | instantiates `ParallelFor` as its abstract specification |
| `SynthEngine` | bands, blocks, chunks, writer thread | uses the pool as `ParallelFor` describes it |
| `Mixer` | one channel in one call, sample by sample | - |
| `GridProcess` | a correlated random process with its window and its cached interval | - |
| `FadingWalk` | knot spacing, and who asks for which gain | extends `GridProcess` |
| `RangingCodes` | the code generators | - |
| `Propagation` | satellite states | - |
| `MCDualTx`, `MCTxService`, `MCLiveSession`, `MCWorkerPool`, `MCSynthEngine`, `MCMixer`, `MCFadingWalk`, `MCRangingCodes`, `MCPropagation` | instances for TLC | |
| `DualTxProofs` | theorems about the card, and about the slots above it | extends `TxService` |
| `LiveSessionProofs`, `WorkerPoolProofs`, `SynthEngineProofs`, `MixerProofs`, `RangingCodesProofs`, `PropagationProofs` | theorems about the module they are named after | |
| `FadingWalkProofs` | theorems about `GridProcess` and `FadingWalk` | extends `FadingWalk` |

### 2.1 DualTx

A *stream* is one run of `transmit.stream()`. Objects that the code replaces stay
distinguishable by name: a `_Card` (and its device handle) is named after the
stream that opened it, a queue after the stream that registered it. A stream's
`pc` says where its thread is:

    idle -> acquire -> open -> gain -> ensure -> reconfig        acquire(), `_lock` held from open on
         -> source -> push -> put                                chunk loop, enqueue()
         -> flush -> flushput -> release -> drain -> done        close(), _release()
                                \-> lost                         close() raised before _release()

The pump of a card is `new`, `top` (before a cycle), `collect` (taking one block
per channel), `write` (inside `backend.write`) or `dead`. `enqueue()` is two
actions, because it reads the queue under the card's lock and puts into it after
the lock is gone; `ensure_channel()` and `shut_down()` are split at their joins;
everything under one lock without a blocking call is one action.

Abstractions: sample counts are left out, so a chunk is a number of full blocks and
whether a carry is left to flush is open; the prefill is "a block was queued";
the byte format, the lead of `written` and the two device-underrun probes do not
appear. Timeouts are guarded by the condition under which they can fire, not by
time: a `put` may time out only when nobody drains the queue, a join only while
a device write hangs (`"hang"`). What the environment does wrong is the
constant `Faults`. `acquire()` can fail at each of its device calls, also at the mask of the
device it has just opened (`OpenMaskFails`, `dual_tx.py:408`): no `try` is around that call and
`_card` is not set yet, so the device stays open with nobody to close it. Here and in the
properties "open" means that `backend.close()` has not been called.

A slot is given to a stream when the one before has ended, or, with the fault `"late"`,
at any time (`GivenSlot`): `_acquire_tx_slot()` looks at the slot's entry only, and the
`finally` of a generator frees the entry after bounded joins with the thread still alive
(`app.py:2018-2029`). Such an orphan and its successor share the slot of the card. `crowded` is history: the
slots to which this has happened; a stream of another slot is `Alone`.

### 2.2 TxService

`_tx_slots` is a function from slot names to `Free`, a handler or `Calibration`;
the handler of a request and its stream thread share the stream's name.
`handler` follows request, generator and its `finally`; `halted` is the stop
event of the entry, which is the thread's cancel event. Live sources never end by
themselves (`Live`). `Mishaps` is what clients and slow threads do: `invalid`
requests, a response dropped before its generator ran (`vanish`), a disconnect
(`leave`), a thread that outlasts both joins of the generator (`slow`).

### 2.3 LiveSession

A segment is its number, the plan (T_play) it was requested for, the version of
the operator's state it was requested with and the segment its gain was measured
on. `taker` is the generator `segments()` in the stream thread, `maker` the
producer thread; with one worker it is `_producer`, with more
`_producer_pipelined`. `out.get` and `out.put` time out explicitly, and the
liveness test of the producer is a step after the empty `get`, as in the code.
Workers may finish in any order; the producer only waits for the oldest request,
so the order is not observable and not modelled. `Failures` is what generation
may do: an exception that is retried, a `RuntimeError` that is not, a worker
process that dies and breaks the pool. Making the pool starts no process: the first
submitted task does, the warm-up of a Start Now or the first request, and only from then
on can one die (`pool` is `idle` before). `sent`, `stopped` and `jogged` are
history for the properties.

Not in this module yet: `gnss_buffers` and `gnss_bands` (the FPGA command feed),
the arithmetic of `plan()` and `on_time()` (an attempt is late or not, freely)
and the switch-interval counter of `play_schedule.py`.

### 2.4 WorkerPool and ParallelFor

A step is one critical section of `m_`, or one thing done outside it: reading
`fn_`, executing a task, notifying from the destructor. A thread's `pc` follows
the code:

    worker: start -> wait -> woken -> take -> exec -> relock -> take ... -> wait ... -> exited
    caller: idle -> take -> exec -> relock -> ... -> waitdone -> wokendone -> idle
            idle -> notify -> join -> gone

`cv_` and `done_cv_` are the sets of threads at "wait" and "waitdone", so that a
notification nobody waits for is lost. A function passed to `run()` is named by the
number of the call, which makes "the lambda of a call that has returned"
expressible. `ParallelFor` knows only tasks started, tasks completed and whether a
call runs.

### 2.5 SynthEngine

`main` is where `synth_run_bands`/`run_one_band` are: entering a band, at the head of the
block loop, mixing, closing, returned. Chunks of a block are executed in any order,
once each: that is `ParallelFor`, which `WorkerPool` is shown to implement. A
sample's value is the set of absolute sample numbers accumulated into it, so a
stale, repeated or half-mixed sample differs from a right one. The writer thread
writes sample by sample and may stop short (`Faults`), an open may fail; `synth_run`
finds any value in the `out_mem` it does not assign. `totals` holds the sums
of samples that `synth_run_bands` adds up before the first band (`AddBand`, one band at a
time); the parts of all bands that are reported as progress are read from it. The result of `fclose()` has no
effect in the code and none in the model.

### 2.6 Mixer

One step is one sample of one channel, on one of the three paths of
`mix_sv_into()` (no modulation data, less than a chip per sample with data, general).
`p` and `loc` are the cached chip of the call and of the tile; `mixed` records which
entry of code, secondary code, message, carrier table and gain knots the sample
got. Code phases are multiples of 1/`Sub` chip and carrier phases of 1/`Cycle`
cycle: the rounding of doubles is left out. The 32-bit accumulator with its rounded
increment is kept, with its number of values `Word` (2^32 in the code) and the width
`Step` of a table entry (2^20). `CallerAssumption` names what the mixer relies on:
a block with a trajectory lies under one knot, as `abi.h:188` asks of the caller,
and no chip number reaches the value that marks an empty cache. Amplitudes are left out: channels
only add up, so one stands for all, and so is the sign of a sub-carrier, which is computed
from the phase of its own sample and kept nowhere.

### 2.7 GridProcess and FadingWalk

The q-th normal of the stream is named by block and place, and a grid value is the
sequence of the normals that were summed. `Ask`, `Normal0`, `Normal1`, `LeftEnd` and
`RightEnd` are `at()` with its two sums; `Outside`, `Overflows`, `Kept` and `Reach` are the
window of `normal()`. `FadingWalk` adds the constructor's knot spacing from the
receiver's motion and the two callers: the engine, which asks for the knots of each
block, and `fading_gain_series()`, whose times may skip, repeat and run backwards.
The Loo statistics, the sum of sinusoids and ChaCha20 are functions of these values.

### 2.8 RangingCodes

A register is the set of its stages that hold a 1. `Chip` is the common step of the
generators with two registers: short cycle (`reset`), stored sequence read from
`start` modulo `period` (the G2 delay, the advanced XB). `ChipL2C` is the modular
register, `Copy` a table. `Pilot` begins the second component of L5, L2C, E5a and B2a
when the second buffer has room for it. `n1` and `n2` run the same polynomials freely, for comparison.
`Run1` and `Run2` list those free runs up to the chip at which a register is at its first
state again (`Turn1`, `Turn2`); `PeriodAssumption` is what the source takes for granted of its
polynomials - `kXbPeriod`, the chip of a short cycle, the length of a Gold code - and
TLC evaluates it for the polynomials of the source.
Polynomials, first states and lengths in `MCRangingCodes` are those of the source.

### 2.9 Propagation

A position is named by the time it was computed for. `KeplerCall`, `Iterate`,
`OrbitPoint`, `KeplerReturns` are the record with the bounded Newton loop and the two
points of the velocity; `VectorCall`, `Integrate`, `VectorReturns` the integrator, whose
last step is cut to end at the instant. Time is counted in half seconds.

## 3. Runs

| run | instance | checks |
|---|---|---|
| `shared_card` | streams a and c on TX1, b on TX2, same tuning, two blocks for a, one for b and c, queue depth 1, failing open, gain, mask and source, hanging writes, orphaned threads | `TypeOK`, `OneOpenDevice`, `UsersKeepCardOpen`, `WriteMatchesMask`, `NoCycleOnClosedDevice`, `NothingLost`, `GaplessIsHonest` |
| `shared_card_live` | the same with c on another tuning, and failing gain, mask and write, heat, cancel | `OneOpenDevice`, `SharedLease` (refinement), `StreamEnds` |
| `tx_service` | a live and a file request for TX1, every mishap, failing open and gain, heat, hanging writes, failing source | `ServiceTypeOK`, `SlotIsOwn`, `UsersKeepCardOpen`, `StopEndsStream`, `StopFreesSlot` |
| `live_session` | a Start Now with two workers, a plain session with two, one without pipeline; queue of one, two planning attempts, every failure, six segments, one jog | `TypeOK`, `TimeAdvances`, `OneLevel`, `JogsArrive`, `KeepsPlaying`, `StopEndsSession` |
| `worker_pool` | three workers and the caller, calls with 0, 1, 2 and 4 tasks, two calls, spurious wake-ups, destructor | `NoStaleCall`, `PendingIsOutstanding`, `ImplementsParallelFor` (refinement), `RunReturns`, `DestructorEnds` |
| `synth_engine` | both entry points; one and two bands to files, memory, both or neither; blocks of one to four chunks, short last blocks, empty chunks, empty bands, block length 0 and -1; failing open and write | `SamplesInPlace`, `SuccessIsComplete`, `CallReturns` |
| `mixer` | rates below, at and above a chip a sample, with every combination of secondary code, message, satellite clock, sub-carrier and fading; carriers of both signs; trajectories; blocks in one to four chunks and tiles of three | `ChipIsOfSample`, `CarrierTracks`, `GainEncloses` |
| `fading_walk` | receivers at rest, moving, and on routes with stops, two points of one time and late fast stretches; three block lengths; six series of gains, three of them backwards or standing | `TypeOK`, `ValuesArePure`, `KnotsResolve`, `DrawnOnce` |
| `ranging_codes` | ten codes of the source and the pilots of four of them, over their whole length, with eight kinds of buffers | `ChipsOfCode`, `NoOverrun` |
| `propagation` | records of four systems and vectors, instants up to a week and a half from each epoch | `StateOfInstant`, `StepsTowards` |
| `leaked_card` | one stream per port, failing writes | `CardHasUser` is violated |
| `silent_end` | a worker process dies | `ReturnsWhenStopped` is violated |

### Bounds and why they are enough

* `Stream`: three streams give a card that is opened, joined, left by its opener,
  joined again by a successor on the same slot, closed and opened anew. Two
  slots are all the code has.
* `MaxSent`, `Depth`: a queue of one is full with one block, so two blocks
  reach "full", "empty between two blocks" and "in the pump's hands". A single
  block for b and c keeps the runs short: a is the stream that its neighbour
  (b) or its successor, or an orphan before it (c), disturbs between two blocks.
  Their one block is the carry that `close()` flushes, so it is in the queue, or
  too late for it, when the slot is released.
* `MaxSegments` = 6: more than the segments that may carry an old operator state
  (`Ahead` = 4 for the Start Now), so the bound of `JogsArrive` is tight in the run, and
  twice the pipeline, so every retry meets a full pipeline behind it.
* `MaxAttempts` = 2: one late attempt that is dropped and a last one that is kept.
* `MaxView` = 1: one jog before, during and after each request.
* `Faults` and `Failures` are split between the runs by what their
  properties can tell apart; each failure is on in at least one passing run.

* `Sizes`, `MaxRuns` of the pool: fewer and as many tasks as threads; the second call
  is the one a late worker of the first can fall into. `gen_` only grows, so a third
  call adds no new kind of lateness.
* Engine: blocks of one to four chunks, the chunk longer, equal and shorter than
  what is left; three blocks in a row use both buffers and the first one again.
* Mixer: `Word` = 256 and `Step` = 64 keep the ratio of a coarse table to a finer
  accumulator; codes of three chips wrap several times in a block; tiles of three
  in chunks of up to eight give calls that begin, go on and end in a tile.
* Fading: blocks of two normals, four taps and a window of eight blocks dropping four,
  so that windows overflow in the middle of a sum, jump and restart.
* Codes: nothing is scaled; `MCRangingCodes` takes one satellite or two per family.
* Propagation: a week of 20 half seconds and steps of 4: every wrap and every length of
  the last step occurs; five iterations stand for thirty.

### Fairness

`StreamStep`, `PumpStep`, `ThreadStep`, `TakerStep` and `MakerStep` are weakly
fair: an operating system runs a thread that can run, a chunk source answers
and a device write returns. `GeneratorLeaves` and `GeneratorEnds` are weakly
fair because the server either resumes the generator or closes it. Nothing a
user does is fair: starting, stopping, jogging, dropping the generator (`Close`),
calibrating; neither are failures. In the pool `CallerStep` and each worker's
`WorkerStep` are weakly fair, spurious wake-ups are not: no liveness rests on them. In
the engine both threads are weakly fair: a write returns, short or not.

Deadlock checking is on in the runs of the card, the slots, the session, the engine
and the propagation; the actions `AllEnded`, `AllServed`, `Over` and `Returned` stand
for a process that has nothing left to do, and only for that. It is off in
`worker_pool` (the pool is destroyed in the end), `mixer`, `fading_walk` and
`ranging_codes` (a call ends).

## 4. What the runs show where code and documentation disagree

1. **A leaked card** (`leaked_card`). `_SlotSink.close()` enqueues the carry before it
   releases. When the pump has died the enqueue raises, `_release()` is skipped,
   and the device stays open without a user; later requests join a card whose
   `error` is set.
2. **A silent end** (`silent_end`). When a worker process dies, a later `submit`
   raises in the producer thread, nothing is put into `out`, and the session ends
   as if it had been stopped. In the trace a Start Now has delivered segment 0 when an idle
   worker dies, and the first `submit` of the producer is refused. An error that is queued
   between the consumer's timed-out `get` and its `is_alive()` is lost as well; the
   property leaves that end aside, so that the run shows the one nobody reports.

Limits of the code that were met while modelling, without a run of their own:

* `_release()` drops the queue of the slot and stops the pump without draining it: the
  end of every file - all of a very short one - never reaches the device, although
  `dual_tx.py:124-125` starts a short file after a grace period. `NothingLost` speaks of
  registered streams only.
* A thread that outlasts the joins of its generator (`app.py:2018-2029`) shares the slot with
  its successor: it puts its blocks into the successor's queue, and it unregisters by slot
  name and so removes that queue; from then on the successor's blocks are dropped, and the
  silence in their place is not counted. `NothingLost` therefore speaks of streams that are
  alone on their slot, and `GaplessIsHonest` of a slot whose queue is the stream's own.
* When `set_active_channels()` fails on the device that was just opened (`dual_tx.py:408`), the
  device is not closed and no `_card` names it; the next `acquire()` opens another handle.
  `OneOpenDevice` admits this one (`Abandoned`) and no other.
* `run_one_band()` ignores the result of `fclose()` (`engine.cpp:168`): `SuccessIsComplete`
  says that samples were handed over, not that they are stored.
* `synth_run()` does not assign `out_mem` (`engine.cpp:191`) and may refuse a valid request.
* Progress is the part of all bands (`engine.cpp:159`), `abi.h:243-245` says of each band's own.
* The carrier's increment is rounded and its phase seeded in each chunk, so the output
  does depend on the chunking, against `engine.cpp:126-127`; `CarrierTracks` bounds by how
  much. With the real widths, at 2.6 MHz and 1234.567 Hz, 290 of 65536 samples get the
  neighbouring table entry when a block is cut into four.
* `l5_codes.cpp:70-72` describes the advanced XB modulo 10230, the code reads it modulo its
  period 8191, as `RunsFreely` requires; `abi.h:80-81` gives the clock correction of a state
  vector with `-tau`, `glonass.cpp:80` returns `+tau` with the sign of its own comment.

## 5. Proofs

All theorems are for every value of the constants under the modules' ASSUMEs: any
set of streams, slot assignment, tuning, queue depth, failures, workers, channels,
trajectories, generators, records. TLC evaluates the ASSUMEs in the runs.

**Card.** The invariants are proved for `AnyStep`, the thread and pump steps
without any condition on when a slot is given away, so orphaned threads are included and
layers 1 and 2 carry over to `TxService`. They build up in layers, each inductive relative
to the one before:

1. `TypeInv`: types (`TypeOK`), who is inside `_lock` (`LockInv`), which sinks and
   queues are named (`RefInv`).
2. `CardInv`: a registered stream's sink is `_card` and open; `active` is the number
   of registered streams (`CountInv`, with the library's facts on finite sets).
   This is where the error paths matter: each must count its slot out exactly once.
3. `LifeInv`: a closed card has no users and a pump that is dead or told to stop; a device
   that is open without being `_card` was never given to a sink and never had a pump
   (`SinkOpenInv`, `LeftOpenInv`). With `CountInv` - a card that nobody is registered on has
   `active` 0, and whoever brings it there closes it - this is `OneOpenDevice`.
4. `MaskInv`: during a cycle the batch covers a prefix of the mask, and the mask
   of a card with a live pump does not change.
5. `LeaseInv`: what a stream between `gain` and `ensure` knows of the open card.
6. `BlockInv`: where blocks are. Streams of a slot that was given away too early meet in one
   queue, so two things are kept apart. `MeetInv` holds for all: what a queue holds, and the
   queue a thread is about to put into, are of the same slot and card. `ExclusiveInv`,
   `QueueInv` and `OwnQueue` hold for a stream that is `Alone`: no other thread of its slot is
   running, the slot's queue is its own and holds its blocks only. Alone is what a stream
   can cease to be but not become (`StaysCrowded`). `NameInv` ties what a pump holds to the slot
   and card of its owner; `FreshInv` says that a stream leaves no trace before it registers, so the
   name of a queue is never an old one; `RestInv` that a pump holds nothing between
   two cycles. `StopInv` is the step that is easily missed in `NothingLost`: a pump that is
   told to stop while its card has users serves one channel only, so the stop is
   `ensure_channel()`'s and its join returns the blocks to a live queue. `ZeroInv`, `SnapInv`
   and `GapInv` follow a zero block from the collection, where it is counted, to the write.

| theorem | says |
|---|---|
| `TypeCorrect`, `TypesHold` | types, and who may be inside `_lock` |
| `OneOpenDeviceHolds`, `UsersKeepCardOpenHolds`, `ReferenceCount` | the card is open exactly for its users, `active` counts them, any other open device is out of use |
| `NoCycleOnClosedDeviceHolds`, `WriteMatchesMaskHolds` | pump against close and mask changes |
| `NothingLostHolds`, `GaplessIsHonestHolds` | every queued block of a registered stream that is alone on its slot is on the air, in its queue or in the pump's hands until the pump fails; a gap is counted |
| `ImplementsSharedCard` | `Spec => Shared!Spec`: every step opens, joins, leaves, closes or stutters |
| `ServiceTypes`, `ServiceKeepsCardOpen`, `SlotIsOwnHolds` | the same card under the web handlers; slot entries are their handler's |

**Live session.** `PlaceInv` says where the two threads can be together and what
they hold there (no producer before segment 0 of a Start Now is ready; an error
is the last thing in the queue). `LineInv` puts all segments in one line -
handed over, held, queued, in hand, requested - with consecutive numbers and the
current plan; a retry resets the end of that line. `LevelInv` adds the gain:
every request in flight carries the gain of the session as it is now, and while
there is none only segment 0 is in flight.

| theorem | says |
|---|---|
| `SessionTypes` | types, attempts and strikes within their limits |
| `TimeAdvancesHolds` | segments reach the device as 0, 1, 2, ... of the last plan |
| `OneLevelHolds` | all with the gain of the segment 0 that is played |
| `JogsArriveHolds` | an operator's change is on the air after at most `Ahead` further segments and stays |

`JogInv` adds what bounds the delay: `FillInv` keeps queue, pipeline, hand and held segment
within the limits whose sum is `Ahead`; `ReachInv` says that no segment anywhere has a
number beyond those requested, so at the moment of a change all segments of the
old state lie within `Ahead` of what was sent; `ViewInv` that the state never goes back
along the line. Retries and re-plans make this more than counting: a segment that is
requested again carries the state of the new request.

**Worker pool.** `PoolInv` = `TypeOK` /\ `PlaceInv` /\ `CountInv` /\ `TaskInv` /\ `UsedInv`, for any
finite set of workers and any number of calls. `PlaceInv` ties each thread's place to
what it holds; `TaskInv` says that held tasks are different and below `next_`;
`CountInv` is the number that the property needs: `pending_` is what has not been
taken plus what is held, so `pending_ = 0` leaves no holder, and with `UsedInv` (a holder
uses the current call's function) nobody is left with the function of a call
that has returned.

| theorem | says |
|---|---|
| `TypeCorrect` | types, `next_` and `pending_` within a call's tasks |
| `NoStaleCallHolds`, `PendingIsOutstandingHolds` | from `PoolInv` |
| `ImplementsParallelForHolds` | `Spec => Pool!Spec`: a step begins or ends a call, starts or completes a task once, or stutters |

**Engine.** `EngineInv` = `IType` /\ `IBand` /\ `IBuffers` /\ `IMixed` /\ `IWriter` /\
`IOut`. `ChunksCover` is the arithmetic of the chunks: `nchunk` slices of the rounded-up
length cover a block and none leaves it. So the buffer handed to the writer holds the
samples `done`, `done + 1`, ... (`IMixed`, `BlockMixed`); `IWriter` says that the writer's
buffer is the one that is not mixed into, that it holds the samples just before
`done`, and that the file ends where the writer is; a short write leaves a file
that is never continued. `EngineKeepsOrder` is `SamplesInPlace` for every request,
block length and number of threads.

`CompleteInv` adds what a call has handed over. `TotalInv` says that `totals` are the
prefix sums of the bands (they are a variable, filled by steps as in the code, so no
induction over the bands is needed), `MemoryInv` which samples of a band in memory are filled
while its chunks are mixed in any order, `DoneInv` that each band left behind is complete
unless the return code says otherwise - a late write error must reach `rc` after the
writer was joined - and `ReportInv` that the progress is the sum over all bands. From it
`SuccessIsCompleteHolds`.

**Grid process.** `GridInv` joins `TypeOK`, `WindowIsStream` (the window is a piece of the
stream, also after blocks were dropped in the middle of a sum), a partial sum that is
the beginning of the value by definition, and ends of the last interval that are the
values of its two grid points. It holds for any block size, number of taps, window
and order of calls: `GridTypes`, `ValuesArePureHolds`, `WindowIsStreamHolds`. A run and a
series are such calls (`WalkIsAccess`, `WalkValuesArePure`).

**Fading channel.** `KnotsResolveHolds` is arithmetic on fractions; `WalkTypes` only says where
the run is. `Slow` is "from here to there no faster than `vmax`", which adds up over
neighbouring pieces (`SlowAdds`). `TopSpeed` finds that `vmax` is no less than any stretch, and
`NodesSlow` joins the stretches between two points of the route: both go over an unbounded
number of stretches, by the least one that would fail (`LeastOf`, from the
library's well-foundedness of `<`). A time is before, after, or between two points
(`TimeIsPlaced`), so from any time to a later one the walk is slow (`WalkIsSlow`), and at
the spacing of the knots it covers at most one step of a grid (`GridSteps`), where the
quotients rounded down differ by one at most (`QuotientsOrdered`). `MotionAssumption` is what
`route_distance_profile()` produces: times and distances that do not decrease, and
no distance in no time.

`DrawnOnceHolds` needs it. `DrawInv` = `WindowTypes` /\ `AskedInv` /\ `ReachInv` /\ `BaseInv`, for a
run: the point asked for last is that of the knot before `j`; the window reaches the last
innovation summed, so the next is in it or just behind; and it begins no later
than the first innovation of the earliest knot still to come, which `Low` names: a
block asks again for the last two knots of the one before, so this is a knot behind the
last one asked. The step that could break it drops `Drop` blocks in the middle of a sum;
`WindowAssumption`, that what stays holds a whole sum (16384 normals of 192 in the code), is
where the window's size enters (`BlocksBack`).

| theorem | says |
|---|---|
| `KnotsResolveHolds` | the gain at neighbouring knots comes from the same or neighbouring grid points |
| `DrawnOnceHolds` | no block of the stream is drawn twice in a run |

**Mixer.** `MixInv` says of both caches (`CacheOf`, of the call and of the tile) that what is
in them belongs to the chip number they are looked up by - each of chip, period,
symbol and combined entry under its own key, and only on the paths that look at it -
and that the carrier accumulator is at the phase of its sample in the tile (`RunInv`).
The step lemmas are about the incremental updates: a chip counter that is advanced by
one and wrapped is the division of the chip number (`ModNext`, `DivDiv`), and the
phase computed for a chunk is that of the whole block (`PhaseIsOfSample`, where
`CallerAssumption` is needed). `CarrierTracksHolds` has three sources of error - the
start rounded down, the increment rounded to nearest and added once per sample, the
entry rounded to nearest - written as remainders of exact divisions, and whole
turns cancel.

| theorem | says |
|---|---|
| `ChipIsOfSampleHolds` | every sample gets the entries of its own absolute time, for every rate, length, trajectory and cut into chunks and tiles |
| `GainEnclosesHolds` | the two gain knots of a sample were computed for its block and enclose it |
| `CarrierTracksHolds` | the carrier entry is within half an entry and (n + 2)/2 units of the exact phase |

**Ranging codes.** `CodeInv` = `TypeOK` /\ `NeverStuck` /\ `LengthInv` /\ `FirstInv` /\
`SecondInv` /\ `GoldInv`: the free run of the first register is at chip `k` and the register
itself there or, after the short cycle, one chip ahead; the second one is at index `pos`
of its free run, and `pos` is `start + k` modulo the period. What is assumed is data (the
periods); what is proved is that reset, delay, advance, modulus and lengths fit them,
for every generator of these shapes, and that no register becomes empty.
`ChipsOfCodeHolds`, `NoOverrunHolds`.

**Propagation.** `PropInv` = `CallInv` /\ `PointInv` /\ `AimInv` /\ `ClockInv`: each point computed is
at its offset from the instant; the state that is integrated and the time left add up
to the instant, and the time left keeps its sign, also in the last, shorter step. Lemma
`WrapWeek`: the code adds or subtracts one week at most, which is the same time of the
week always, and the nearest one within a week and a half. `StateOfInstantHolds`,
`StepsTowardsHolds`.

**Only model-checked:**

* All liveness (`StreamEnds`, `StopEndsStream`, `StopFreesSlot`, `KeepsPlaying`,
  `StopEndsSession`, `RunReturns`, `DestructorEnds`, `CallReturns`): TLAPS does not reason about
  ENABLED and fairness.

Every safety invariant and action property that a run checks is proved.

No module here with a theorem uses RECURSIVE; the only recursive operator lists the
registers in `MCRangingCodes`.

## 6. Plan

1. *(done)* card, streams, slots: `SharedCard`, `DualTx`, `TxService`.
2. *(done, but for the FPGA feed and the play-time arithmetic)* `LiveSession`.
3. *(done)* native synthesis: `ParallelFor`, `WorkerPool`, `SynthEngine`, `Mixer`, `GridProcess`,
   `FadingWalk`, `RangingCodes`, `Propagation`.
4. `FpgaRun`: `GnssTx` against the engine - prefill gate, armed enable with fallback,
   feeder, poller and stop, torn counter reads. Properties: the engine is never
   enabled before the prefill or an accepted end of data, stop leaves it disabled
   and out of command mode, a 64-bit read lies between start and end values.
5. `AsyncFifo`: `gs_afifo.v` with both clocks and the synchroniser delay, refining a
   bounded queue; then `Sequencer` with the loader: shadow banks, late blocks,
   resynchronisation.
6. The receiver feed, recordings and the calibration file.
7. Pure algorithms against reference definitions: queue depth and prefill, play-time
   planning, command resynchronisation.
8. *(done)* the safety properties of the modules above. Next: the refinement and the
   no-overflow invariant of `AsyncFifo`; stop safety of `FpgaRun`.

## 7. Not modelled, and why

Of the native synthesis: amplitudes, quantisation and dither, ChaCha20 and the Loo
statistics, the orbit and clock polynomials, the per-satellite tables of the codes, and
the debug shims, which only call what is modelled. The Python side that plans the
bands, ephemerides, navigation codecs, error models and receivers are
floating-point or bit-level transformations without shared state: TLC cannot
enumerate them and nothing interleaves. Drivers of the RF backends appear as the calls
that `DualTx` makes, with their failures. The web front end is what clients may
send. Configuration, storage and login are sequential request handlers.
