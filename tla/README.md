# Verification of the OPQ Box 2 software

The OPQ Box measures mains power quality. An STM32F373 (the *DSP*) samples the
mains voltage, 200 samples per mains cycle, and offers each cycle as a *frame*
to a Raspberry Pi over SPI. A Linux kernel driver turns the frames into the
character device `/dev/opq0`. A C++ daemon (*triggering*) reads the device,
analyses measurements of ten frames, stores them in Redis and publishes the
analyses over ZeroMQ. A Python service (*acquisition*) answers requests of the
server with the stored measurements.

Everything on that path is a producer and a consumer around a bounded or
unbounded buffer: a ring in the firmware shared by interrupts, a ring in the
kernel shared by a work item and processes, two queues shared by threads, and
lists in Redis shared by two programs. This
directory holds TLA+ models of these, the TLC configurations that check them,
and TLAPS proofs about all of them.
Paths below are relative to the repository.

## 1. Inventory

| Component | State | Operations | Interacts with |
|---|---|---|---|
| DSP firmware, `Firmware/Src/opq.c`, `stm32f3xx_it.c`, `runtime_config.c` | `frameBuffer` (4 frames, `head`, `tail`, `currentSample`), GPS flag and counter, `hspi3`, data-ready pin | SDADC interrupt (sample, publish), TIM4 capture (GPS pulse), SPI interrupt (send), main loop (start transfer, raise pin), reset | driver, over pin and SPI |
| Kernel driver, `Software/kernel/opq_main.c` | ring of 10 slots, two positions, semaphore, mutex, work item, registered services | load, unload, GPIO interrupt, work item, open, read, release | DSP; reader thread |
| Synchronised queue, `Software/Triggering/lib/SyncQueue.hpp` | `std::queue`, counter, mutex, condition variable | push, pop, clear, size | couples the threads below |
| Triggering daemon, `Software/Triggering/src/main.cpp`, `lib/Pipeline.hpp` | three threads, a running flag each, signal status | start, stop, SIGINT | all slabs |
| - reader, `src/Reader.cpp` | measurement being filled | read frames, push | driver, measurement queue |
| - analysis, `src/LocalAnalysis.cpp`, `filters/` | filter histories, initialisation state and counter | pop, initialise filters, analyse, push, store | both queues, Redis |
| - Redis client, `src/RedisSerializer.cpp` | connection, current key and its start time | connect, flush, store with key rotation and expiry | Redis, acquisition |
| - trigger, `src/ZMQTrigger.cpp`, `src/ZMQSerializer.cpp` | socket | pop, send | analysis queue, server |
| - settings, `src/Settings.cpp` | key-value map, callbacks per key, mutex | get, set, erase, on-change, load and save a file | read by all slabs |
| Acquisition, `Software/Acquisition/opqacq` | sockets, Redis connection | ping, read a time range | Redis, server |
| DSP utilities, `Software/DSPutill` | GPIO lines | reset and flash the DSP | DSP |
| WiFi utilities and web page, `Software/opqwifi` | NetworkManager connections | scan, connect, access point | NetworkManager |

`PROJECT.json` lists all components with their status, the vendored and the
hardware parts included.

What is hard here, and hardly reached by a test (`PROJECT.json`, `hazards`,
gives each at its line):

* **Interleavings.** Three interrupt priorities in the firmware preempt each
  other and main around plain variables; in the driver an eviction can move
  `reader_pos` under a read that already passed the semaphore; in the queue
  `push` notifies after it unlocked.
* **Hand-shakes between machines.** The driver listens for a *rising edge* of
  a pin whose *level* is the firmware's state; the pin falls in the one SPI
  interrupt that finds exactly half of the transfer left; both sides hold the
  length of a transfer as separate constants.
* **Full buffers.** The driver evicts; the firmware does not look; the queues
  are unbounded.
* **Life cycles.** Load and unload of the driver against interrupts and work
  items; SIGINT against threads blocked in `pop`, in `read` and in a connection
  loop; a reset of the DSP in the middle of a transfer; a restart of the daemon,
  which flushes Redis, in the middle of a query; objects that go while a callback
  of theirs is registered.
* **Clocks.** Keys are rotated and lists expire by a wall clock that NTP may set.
* **Failures.** Ignored results of `spi_read`, `copy_to_user` and the four
  initialisation steps; a Redis or a certificate that is missing; a connection with
  Redis that is lost, where the result of `redisGetReply` is ignored.
* **Numbers.** Off-by-ones of ring positions, a counter that starts
  uninitialised, a count compared with an enumerator, an enumerator taken for a
  NaN, filter indices that wrap, strict comparisons of keys with a window.

What makes each part correct:

* *firmware*: the k-th transfer carries the k-th frame, whole; each GPS pulse is
  marked once; pin, SPI peripheral and bus master agree on where they are;
* *driver*: the semaphore counts what the ring holds, no torn or repeated frame,
  every read that can return does, unloading frees nothing in use; together: a
  lossy first-in first-out stream;
* *queue*: a first-in first-out queue, no front of an empty queue, no sleeping
  `pop` beside an item;
* *daemon*: measurements published once and in order, no trigger far ahead of
  its data, no result from half-filled filters, an end after SIGINT;
* *analysis*: each of the last samples meets one tap of a filter, decimation is
  even, each rise of the signal is one zero crossing;
* *Redis keys and acquisition*: lists expire, no measurement before its time, and a range query returns what is stored in the range; every request is
  answered;
* *settings*: no callback outlives its object;
* *firmware and driver together*: each is the environment the other assumes, and
  frames get from the ADC to a blocked reader.

## 2. Modules and their code

| Module | Models | Notes |
|---|---|---|
| `OpqDriver` | `opq_main.c` | one action per step of each handler between which something else can run |
| `FrameStream` | what `/dev/opq0` promises | abstract; `OpqDriver` implements it |
| `OpqDriverProofs` | | theorems about `OpqDriver` |
| `DspFirmware` | `Firmware/Src`, the HAL's interrupt-driven SPI transmission, `isp.reset_dsp`, and a stub of the driver as bus master | |
| `DspFirmwareProofs` | | theorems about `DspFirmware` |
| `AcquisitionLink` | pin and bus between firmware and driver | extends `OpqDriver`, instantiates `DspFirmware` with the stub replaced by the driver, and implements both |
| `AcquisitionLinkProofs` | | theorems about `AcquisitionLink`, from those about its two parts |
| `SyncQueue` | `SyncQueue.hpp` | one action per statement under or around the lock |
| `Fifo` | what a `SyncQueue` promises | abstract; `SyncQueue` implements it |
| `SyncQueueProofs` | | theorems about `SyncQueue` |
| `TriggeringPipeline` | `main.cpp`, `Pipeline.hpp`, `Reader`, `LocalAnalysis`, filters' initialisation, `RedisSerializer`, `ZMQTrigger`, `ZMQSerializer` | composes two instances of `Fifo` with the threads |
| `TriggeringPipelineProofs` | | theorems about `TriggeringPipeline` |
| `FirFilter` | the two filters in `filters/` | instantiated twice by `LocalAnalysis` |
| `FirFilterProofs` | | lemmas about `FirFilter`, instantiated twice by `LocalAnalysisProofs` |
| `LocalAnalysis` | `LocalAnalysis::initFilter` and `loop`, sample by sample | the computation inside the analysis thread |
| `LocalAnalysisProofs` | | theorems about `LocalAnalysis` |
| `RedisStore`, `MCRedisStore` | `RedisSerializer::sendToRedis`, `RedisScraper.getRange`, the clock | writer and reader of the lists in Redis composed; the second module gives the windows |
| `RedisStoreProofs` | | theorems about `RedisStore` |
| `ZmqListener` | `zmqlistener.py`, `RequestDataMessage` | request loop of the acquisition service |
| `Settings` | `Settings.cpp`, the constructor and destructor of `Reader` | |

Definitions keep the names of the code where they can (`opq_gpio_irq_handler`,
`SPI_CloseTx_ISR`, `sendToZMQ`). The operators whose names begin with `M` and
whose comments begin with "Mutant" are wrong variants of the definition below
them; no specification uses them. They are there to confirm that a property
notices the bug they contain.

### OpqDriver

`stage` and `services` follow `opq_module_init` and `opq_module_exit` step by
step; any step of init may fail when `Faults` is true, and, as in the code,
nobody looks. The interrupt sets `queued` (a pending work item is not queued
twice), the work queue clears it *before* calling the handler, and the handler
locks, reads the frame, moves the positions and unlocks. A read takes a unit of
the semaphore, locks, copies and moves `reader_pos`, unlocks; a signal may end
the wait. Frames are numbers counted from the load; 0 is the memory `kmalloc`
returned. `spi_read` and `copy_to_user` may fail, and their results are ignored
as in the code. A copy is a step of its own in `DeliveredInOrder`, so that a frame
handed out twice in a row is noticed too.

### DspFirmware

Interrupts of SPI3 and TIM4 have priority 0, of SDADC2 priority 1
(`stm32f3xx_hal_msp.c`). So the SDADC handler is split at its accesses to shared
variables and `adc` says where it stands: sample, stamp, test of the pulse flag
(`SdadcTest`), its reset (`SdadcReset`), the mark (`SdadcMark`), publication. The
other two handlers are single actions, enabled in any of these places, also between
the test and the reset; main moves only when `adc = "idle"`. A capture between test
and reset would be lost. It does not come there because a pulse that was tested is
younger than a frame and the next one more than a frame away: this is the spacing
of pulses in `HAL_TIM_IC_CaptureCallback`, and nothing in the handler.
The exception is the end of a transfer: `SPI_CloseTx_ISR` busy-waits for the bus
inside the priority-0 interrupt, which shuts everything else out (`Closing`).
The conversions already run when `init_OPQ_RunTime` resets the positions, which
`InitHead`, `InitTail` and `InitSample` do under the interrupt. A transfer of
408 bytes becomes one unit per sample and one for the rest of the frame. Power
on is a reset without a driver (`master = "absent"`). The actions of the DSP
leave the master's variables to `Next`, so that `AcquisitionLink` can use them
with another master.

### AcquisitionLink

The variables of both parts and the units still to clock. Most steps are steps
of one part. Three are joint: the rising pin runs `opq_gpio_irq_handler`, if the
interrupt has been requested (`DataReady`); `mutex_lock` begins a transfer
(`SpiBegin`); each clocked unit takes one from the DSP (`SpiClock`), and with the
last one `spi_read` returns (`SpiEnd`). `received` records what came over the
wire. `Master` and `Edge` say what the stub of `DspFirmware` is in terms of the
driver; with them `DspSpec` is the specification of the firmware and its stub,
and `StreamSpec` that of the device. The driver is loaded at any time after power
on. Unloading, resets and pulses are left to the runs of the parts: `rmmod` in
the middle of a transfer leaves the DSP in it, which is finding 2 again.

### SyncQueue and Fifo

`Pushers` push and clear, `Poppers` pop. The queue and its counter change in two
steps, as in the code; `size()`, which reads the counter without the lock, sees any
state between two steps. Waiting releases the mutex in the same
step; `notify_one` wakes any one waiting thread and is lost when there is none;
a wakeup may be spurious. Each woken thread has to get the mutex again. The
overloads of `push` and `pop` have the same control flow and are one operation.

### TriggeringPipeline

The three threads, `main` and the signal handler. `Slab::_running` and
`gSignalStatus` are read and written without a lock; they are read anew on each
turn of a loop, as every loop calls functions outside its translation unit. The
filters are abstracted to how many values of their histories come from real
input (`adf`, `lpf`), which is what the initialisation is about;
`_samplesProcessed` starts with any value of `Uninitialized`, since no
constructor sets it, and keeps its width. All exits are there: a failed read of
the device, a failed authentication or flush, an error reply to a store, missing
certificates, SIGINT before the handler is installed. When the connection is lost
in the middle of a store (`RedisLost`, `lost`) the code tests a pointer that was
never set or was freed: the process exits, dies, or goes on as if nothing had
happened, and Redis keeps nothing more.

### FirFilter and LocalAnalysis

`FirFilter` keeps the number of the input in each slot of the history and says
which input each tap weighs. It turns out that the newest input meets tap 1 and
the oldest tap 0, since `get` starts at the slot *after* the last one written:
the impulse response is rotated by one place, which for these nearly symmetric
taps with small ends is hardly audible and is not called a defect here.
`LocalAnalysis` feeds two of them as the loops do, and lets the filtered values
have any sign. `_samplesProcessed` counts there sample by sample, from any value of
`Uninitialized`, and the guards of `initFilter` read it. `FP_NAN` is the value of
glibc's enumerator, 0. The filters' `int index` is decremented past its least value
once in 2^32 samples, which C leaves undefined; the model lets it wrap, as the
compiled code does.

### RedisStore

A tick of the clock is shorter than a mains cycle; each may bring a cycle, or
not. A measurement is the times of its cycles; it waits in `queue` (the thread
queue and the analysis) until `sendToRedis` pushes it and, for a new key, sets
the expiry: two commands, between which the query's commands, the loss of the
connection (`Disconnect`, after which commands do nothing and the daemon may go on)
or the end of the daemon may come. A measurement may wait for any time. `late`
records the keys to which one was pushed after the time it would have been kept
(`KeptUntil`); such an `LPUSH` may make an expired list anew. Redis drops a list when its time is over and `LPUSH` makes a
list that is not there. The query asks for the keys, goes through them from the
least (one turn of its loop is one action, though it uses nothing that the daemon
could change) and then reads list by list. The clock
may be set back once, by which a list that was made before may then lose that
much of its time (`Retained` says so).

### ZmqListener and Settings

In `ZmqListener` a request is what the handlers tell apart; an exception that is
not caught ends the loop. `Settings` has an action per method; a `Reader` reads
the setting and registers its callback in two steps and removes it as its
destructor does.

## 3. Runs

| Run | Module, cfg | Expect | Shows |
|---|---|---|---|
| `driver` | `OpqDriver`, `OpqDriver.cfg` | pass | with failing kernel services: `SemaphoreCountsFrames`, `NoTornCopy`, `SlotsHoldLastFrames`, `RingOutlivesItsUsers`, `TransfersFollowEdges`, `DeliveredInOrder`, `NoLostWakeup`, `ClaimedReadReturns`, `UnloadCompletes` |
| `driver_first_read` | `OpqDriver`, `OpqDriver_firstread.cfg` | violation | finding 1 |
| `dsp` | `DspFirmware`, `DspFirmware.cfg` | pass | `TransfersAreFrames`, `PulseMarkedOnce`, `StampFollowsMark`, `EdgePerTransfer`, `MasterInStep` |
| `dsp_load_stall` | `DspFirmware`, `DspFirmware_load.cfg` | violation | finding 2 |
| `link` | `AcquisitionLink`, `AcquisitionLink.cfg` | pass | the composition implements `FrameStream` (`StreamSpec`) and the firmware with its stub (`DspSpec`); `NoEdgeMerged`, `FramesArriveWhole`, `FrameReachesReader` |
| `queue` | `SyncQueue`, `SyncQueue.cfg` | pass | `FrontExists`, `CountIsLength`, `WakeupPending`, the queue implements `Fifo`, `SleeperGetsItem` |
| `pipeline` | `TriggeringPipeline`, `TriggeringPipeline.cfg` | pass | `PublishedInOrder`, `TriggerHasData`, `FiltersWarm`, `SigIntEndsProcess`, `KeepsPublishing` |
| `pipeline_sigint` | `TriggeringPipeline`, `TriggeringPipeline_sigint.cfg` | violation | finding 3 |
| `analysis` | `LocalAnalysis`, `LocalAnalysis.cfg` | pass | `EachInputOneTap`, `NoInitialZeros`, `EvenlySpaced`, `OneCrossingPerRise` |
| `store` | `MCRedisStore`, `RedisStore.cfg` | pass | `ListsExpire`, `Retained`, `RangeComplete` |
| `listener_read` | `ZmqListener`, `ZmqListener.cfg` | violation | finding 4 |
| `settings_handle` | `Settings`, `Settings.cfg` | violation | finding 5 |

`driver`, `dsp`, `queue` and `pipeline` also check their module's `TypeOK`. A run
is repeated with `tlc -workers 2 -config DspFirmware.cfg DspFirmware` in this
directory; the
longest takes about three minutes.

### Bounds and why they are enough

* `driver`: four slots keep three frames; five interrupts fill the ring, lap it
  and evict while two descriptors are at any point of a read. Interrupts are
  counted per load, and a load may follow every unload. The proofs remove these
  bounds.
* `dsp`: the code's four slots, three samples per frame instead of 200: enough
  for the capture interrupt to fall before, between and after the samples, and
  for the pin to fall in the middle of a transfer. Five frames per reset let
  head lap tail (`late`) and go on; one sample may be taken before main has
  initialised the positions. Resets are unlimited. GPS pulses are more than a
  frame apart, as a pulse per second is (a frame takes 1/60 s).
* `queue`: three poppers and two pushers, so that a pop can steal the item
  another was woken for while a third sleeps; two items in the queue.
* `pipeline`: the shipped ten frames per measurement and all filter sizes of the
  code; a `uint32_t` has 65536 values instead of 2^32, and the initial values of
  `_samplesProcessed` are zero, the largest, and two from which the first one or
  two additions wrap. The producer of a queue pauses at two elements.
  Measurement numbers are counted modulo 8, more than can be in flight.
* `link`: the code's four slots in the DSP, three in the driver, so that one
  evicts and the other is lapped within six frames; two samples per frame, so a
  transfer is three units and the pin falls on the last; one descriptor, as the
  competition of several is in `driver`.
* `analysis`: eight and four taps; measurements of three frames with four samples,
  every second of which is kept; two measurements fill the filters and two give
  results. An `unsigned int` has 16 values, so both indices wrap, and
  `_samplesProcessed` wraps from one of its two initial values. A filtered value
  may have any sign, so all signals of six values occur.
* `store`: three ticks a second, a ttl of two seconds and rotation after each whole
  second, measurements of two cycles, two of which may wait: a list can hold two
  measurements, the second of which may come when it is about to expire, has
  expired, or long after. Nine ticks from the start let lists rotate, expire, be
  made anew and be flushed. The window is fixed, and the data fall on every side of
  it and exactly on its bounds, as cycles come at any tick and keys with them. Ten
  million states.
* The violation runs use the smallest constants that show the behaviour.

`pipeline` and `pipeline_sigint` do not check for deadlock because the process
ends; `driver` does not because a bounded number of interrupts may leave a module
that failed to initialise with nothing to do; `analysis` and `listener_read` stop
with the input their bounds allow.

### Fairness and why the code justifies it

* *Driver.* Work items and threads that can run do run (weak). Kernel mutexes
  and semaphores queue their waiters, so whoever waits for one gets it (strong).
  Nothing obliges the DSP to raise the pin, a process to call `read`, or anyone
  to call `rmmod`; once `opq_module_exit` began it runs on.
* *Firmware.* Pending interrupts are served (weak). Main is enabled only between
  interrupts; the sampling period leaves it time, so it gets on although it is
  interrupted again and again (strong). A driver that saw an edge reads a frame
  and clocks it to the end. Resets, pulses and the loading of the driver need
  not happen. Speed is not modelled.
* *Link.* The same for both parts. An SDADC interrupt that began ends, but no
  further sample has to come, so that `FrameReachesReader` is not met by the next
  frame overwriting the ring.
* *Listener.* The service takes its next step when it can.
* *Queue.* A thread inside a call runs on; a woken thread gets the mutex at some
  time (strong). No call and no spurious wakeup has to happen.
* *Daemon.* Threads that can run do (`ThreadFairness`). `FairSpec` adds that the
  driver delivers frames and Redis can be reached (`EnvironmentFairness`), which
  holds on a working box and not in general; `StallSpec`, used by
  `pipeline_sigint`, leaves it out. SIGINT need not come.

## 4. Findings

1. **The first read returns memory nobody wrote** (`driver_first_read`).
   `writer_pos` starts one ahead of `reader_pos`, so the frame that releases the
   first read is in slot 1 and the read returns slot 0 as `kmalloc` left it. All
   later reads are right, but one frame late (`SlotsHoldLastFrames`,
   `StreamSpec`).
2. **Loading the driver late stalls acquisition** (`dsp_load_stall`). After power
   on the DSP raises the pin for its first frame and waits to be clocked; a
   driver loaded afterwards waits for a rising edge. Only a reset of the DSP
   ends this. `FrameReachesReader` therefore excludes a missed edge.
3. **SIGINT may not end the daemon** (`pipeline_sigint`). `main` joins threads
   that leave `pop` only when one more element arrives. With a silent driver, or
   while Redis cannot be reached, none does. On a working box the stop order
   (trigger, analysis, reader) is right: each thread is woken by one that still
   runs (`SigIntEndsProcess` in `pipeline`; the reverse order is its mutant).
4. **A READ request ends the acquisition service** (`listener_read`). `read` looks
   at `message.front`; the protocol calls the field `forward`. The exception is
   caught nowhere, the loop ends, and this and all later requests stay
   unanswered. Behind it, the reply's `id`, an `int32`, is given a string.
5. **A Reader's callback outlives it** (`settings_handle`). The destructor hands
   its number of frames to `removeChangeCallback` instead of the handle that
   `onChangeCallback` returned.

Observations without a run of their own, most of which contradict no line of the
code or its documentation, but that the models show and a maintainer may want to
know:

* *A lapped DSP ring looks empty.* The SDADC interrupt advances `head` without a
  look at `tail`. When the Pi stays away for four frames `head = tail` again,
  which main takes for an empty ring, and the frames are skipped.
  `TransfersAreFrames` and `FramesArriveWhole` hold up to that moment (`late`).
* *The low pass filter's initialisation compares with the wrong constant.* In
  `LocalAnalysis.cpp:125` an enumerator of value 1 stands where the number of taps
  was meant. Ten frames per measurement fill the filter anyway (`FiltersWarm`,
  `NoInitialZeros`); with three, `FiltersWarm` fails with 60 of 64 taps filled.
* *`FP_NAN` is 0*, not a NaN. `OneCrossingPerRise` holds because of it: with a value
  that no sample has, a signal that rests at zero is counted twice.
* *Queries without a key in the window return nothing.* `getRange` looks for the
  list that begins before the window only after it has found one that begins
  inside, so a window shorter than the rotation mostly comes back empty.
* *A late LPUSH makes a list that never expires.* If a measurement is pushed after
  its key expired (a pause of the DSP or of Redis of `ttl - rotation` seconds),
  `LPUSH` recreates the list and no `EXPIRE` follows until the next start. Nothing
  in the code bounds the time a measurement waits. The run `store` reaches this;
  `ListsExpire` says that nothing else, but for a lost `EXPIRE`, leaves such a list.
* *A lost connection with Redis may go unnoticed.* `sendToRedis` means to exit with
  "Lost connection with redis" (`RedisSerializer.cpp:80`), but it ignores the result
  of `redisGetReply`, which sets no reply when it fails. The pointer it tests is
  uninitialised, or the reply of the command before, which is freed already. The
  daemon may then crash, or go on and publish triggers for measurements that nobody
  keeps; `TriggerHasData` holds up to the loss, and not beyond.
* *An unlocked size().* Between `_queue.push` and `_count++` it is one short, which
  its comment allows for ("more of a suggestion"); nobody calls it.
* *A restart flushes everything*, data that a trigger announced included.

## 5. Proofs

Eight modules hold theorems; `tlapm OpqDriverProofs.tla` in this directory checks
one of them, the largest in about a minute. Every invariant named here was checked
by TLC on the instance of the run before it was proved. The bounds of the runs
(`MaxInterrupts`, `MaxFrames`, `MaxQueue`, `MaxTime`, `MaxMeasurements`) are
constants that a theorem leaves open, so they bound nothing there.

### OpqDriverProofs

For every ring size greater than one, every finite set of descriptors, every
number of interrupts, with and without failing kernel services:
`TypeCorrect`, `SemaphoreCorrect`, `CopiesAreWhole`, `RingSafelyFreed`,
`NoUnaskedTransfer`, `SlotsCorrect` and `InOrder` prove the corresponding properties of the
runs. `ImplementsStream` proves, when kernel services do not fail, that the
driver implements `FrameStream` with `newest <- written`,
`oldest <- OldestKept`, `taken <- returned`.

The argument. `SemaphoreCountsFrames` is not inductive alone. That a copy and
an advance each change the distance of the positions by one, and the eviction
both of them, needs that only one thread is inside the critical section
(`MutexHeldInside`, which makes `NoTornCopy` an instance). That reloading
starts from a count without claims, and that nothing runs once the ring is
freed, needs what may be registered, pending or open at each stage
(`LifeCycle`). That each copy is of a newer frame than all before needs what
each slot holds (`SlotsHoldLastFrames`), and that everything returned is behind
`reader_pos` (`ReadBehindRing`). Without faults, `spi_read` can still miss the
device between `opq_release_spi` and `cancel_work_sync`, when no descriptor is
open (`FaultsOnlyAtExit`), which is why the unload order does not break the
stream. `Inv` is the conjunction. Positions are compared with `Distance`, whose
behaviour under `Advance` is four lemmas (`DistanceRange`, `WriterMoves`,
`ReaderMoves`, `Evicting`); the claims are counted with the cardinality lemmas
`ClaimTaken` and `ClaimUsed`.

### SyncQueueProofs

For every finite set of threads and any queue length: `QueueInvariant`,
`QueueTyped`, `SizeCorrect`, `FrontAlwaysExists`, `NoWakeupLost` and
`ImplementsFifo`.

The argument. `Exclusion` (the mutex belongs to the thread inside) and `OwnCode`
give that nobody empties the queue between a `pop`'s test and its `front()`.
`CountInStep` says by how much the counter differs from the length at each place
inside the lock; `SizeCorrect` follows: equal when the mutex is free, one off at
most outside `clear`.
`WakeupPending` counts: a push adds an item and a notifier at once; a
notification turns a notifier into a coming pop, or finds nobody waiting; a pop
that takes an item or goes to sleep leaves the comers, the former with one item
less, the latter only when the queue is empty. `ImplementsFifo` then maps
`PushItem`, `PopItem` and `ClearItems` to the operations of `Fifo` and all else
to stuttering, so that `TriggeringPipeline` may use `Fifo` for its queues.

### DspFirmwareProofs

For every ring of more than two slots, every frame of more than one sample, any
number of frames, pulses and resets: `FirmwareTyped`, `TransfersCorrect`,
`PulsesMarked`, `StampsCorrect`, `EdgesCorrect` and `MasterCorrect` prove all
invariants of the run `dsp`.

The argument. `Control` says where main, the SDADC interrupt and the SPI
peripheral can be at the same time; without it the type invariant already fails,
since the count of units left to send would go below zero. `Handshake` says that
an edge is unseen only while nothing of its transfer was clocked, and that a
clocking master has to clock exactly what the DSP has left: `EdgePerTransfer` and
`MasterInStep` follow. `Pulses` says when a captured pulse that waits for its frame
was captured, also while its flag has been tested (`"reset"`) or taken down (`"mark"`)
and the frame is not marked yet. It is what a second pulse within the same frame
would break: the capture's guard is false between the test and the reset, and between
the reset and the mark, because that pulse was captured in this frame or the one
before. `Ring` says which frame each slot from `tail`
to `head` holds, by the distance of the slot from `tail` (`Ahead`, with the lemmas
`HeadMoves`, `TailMoves` and `TailLeaves`), `Transfer` that the slot being sent is
not the one being filled. Both hold until `head` runs into a slot not yet sent
(`late`), since nothing in the code looks at `tail`. The actions of `init_OPQ_RunTime`
preserve `Ring` because no frame is complete when they run (`MaxBootSamples`).

### AcquisitionLinkProofs

For every size of both rings and of a frame and any finite set of readers:
`EdgesKept`, `FramesWhole`, `ImplementsDsp` and `LinkImplementsStream`.

The argument. The proofs about the firmware are instantiated with the driver as
its bus master (`Fw`), which is shown to be the specification the run checks
(`SameInit`, `SameNext`). Each step of the link is a step of the driver's
specification (`DriverStep`) and one of the firmware's (`DspStep`). The second needs
`LinkInv`: in a joint step the driver may begin a transfer only for an edge it saw,
which is what the firmware's `Handshake` says of that edge, so the two invariants
support each other. `Loaded` says that the interrupt is requested exactly when the
driver is live and that a work item that waits for the mutex is the only one;
`Delivered`, that the driver received every transfer the DSP began but the one
under way. Nothing about the firmware or the driver is proved twice.

### TriggeringPipelineProofs

For every `frames_per_measurement`, every bound on the queues, every initial value of
`_samplesProcessed`, with all exits and whenever SIGINT comes: `PipelineTyped`,
`OrderCorrect`, `DataCorrect` (until the connection with Redis is lost); and `WarmCorrect` for at least four frames per
measurement. With fewer it is false, as the observation in section 4 says: one
measurement of 20 decimated samples a frame has to fill 64 taps.

The argument. `Startup` (main starts each thread once) and `NothingYet` (no result
and nothing stored before the filters are initialised) give the first published
number its place. `PublishedInOrder` and `TriggerHasData` are stated over the chain
of numbers from Redis or ZeroMQ through both queues to the reader, which each step
extends at one end, drops from the other, or leaves as it is while it moves a
number from one place to the next (`ConsecutiveAppend`, `ConsecutiveDrop`,
`SameChain`). `Warming` follows the number of real values in each history.

### FirFilterProofs and LocalAnalysisProofs

For all numbers of taps that divide the range of the index, all decimation factors
that divide a cycle, signals of every length, and measurements that fill the
filters (`SizesAssumption`: ten frames of 200 samples against 128 and 64 taps):
`TapsCorrect`, `ZerosCorrect`, `SpacingCorrect` and `CrossingsCorrect`.

The argument. The invariant of a filter says of each *slot* how old the input in
it is; which tap weighs it follows (`FilterWeighs`), also after the index wrapped,
because the remainder of a remainder is the remainder (`RemainderOfRemainder`).
`Filled` counts what each state of the initialisation has put in. `Spaced` gives
the time since the last value went to the low pass filter as the remainder of
`sample - 1`, which at the beginning of a measurement is that of -1 and so agrees
with the end of the one before. `Crossing` says, value by value, that a
crossing is a value that is not negative after one that is; `RiseCrosses`, that
between a negative and a later non-negative value there is one: the first that is
not negative, which exists by the least-number principle (`Least`) and not by
induction.

### RedisStoreProofs

For every rotation, time to live, length of a measurement, time it waits and step of
the clock: `ExpiryCorrect` and `RetentionCorrect`; and for every window of a query, as
long as the clock was not set back, `RangeCorrect`.

The argument. The clock may go back, so each stored time is bounded by the latest
time the clock may have shown (`Latest`, `Behind`, `Stamped`). `Stored` says that a
list's time to live counts from its key and that its measurements were taken less
than a rotation after it; `Retained` follows from the two. `ListsExpire` needs to
know when `LPUSH` makes a list again that had expired. `Gone` says so: when the
current list is no longer there, though the connection stands, its time to live went
by. A measurement that goes to it all the same was taken less than a rotation after
its key and so is past `KeptUntil`, which is what `late` records (`LPushInv`). A
connection that was lost stays lost until the restart, so that it leaves one list at
most without its `EXPIRE` (`Expiring`).

`RangeInvariant` is about the query. A query is right because of what the daemon
stores, so the invariant begins with the Reader. `Ordered`: what waits is in the order
of time, inside a measurement and from one to the next. `Partition`: all keys and all
stored cycles come before everything that waits (`Past`), each cycle lies between the
key of its list and the next key, and no key is newer than the daemon's. `LPUSH` keeps
this because the measurement it stores is the oldest that waits, and goes to a new key
or to the newest list; when that list is gone and is made anew, `Newest` says that its
key still comes after all others and what they hold. `Loop`: the loop
has chosen nothing as long as a key before the window is left, and it still has one in
the window to come if the query owes something. `Owing`, over `Selected`: a list that
holds something owed, and not returned yet, is chosen, or the loop will come to it, or
is the one it has just left (`last_key`) and every key to come is later than what is
owed. The last case is the one `readout_keys.append(last_key)` is there for. A list
pushed, dropped or flushed meanwhile adds nothing that is owed (`QueryKept`), and an
`LRANGE` returns what is owed of its list. When neither keys nor chosen lists are left
nothing can be `Selected`, which is `RangeComplete`. With a clock that was set back
`Partition` is false and so is the property.

### Only model-checked

* Liveness, which this prover cannot express: `NoLostWakeup`, `ClaimedReadReturns`,
  `UnloadCompletes`, `FrameReachesReader`, `SleeperGetsItem`, `SigIntEndsProcess`,
  `KeepsPublishing`. Of `NoLostWakeup`'s and `SleeperGetsItem`'s reasons the safety
  half is proved (`SemaphoreCorrect`, `NoWakeupLost`).
* The five runs that expect a violation: a counterexample is its own proof.

The theorems are stated for `Spec`, the specification without fairness, and so hold
of `FairSpec` too.

## 6. What is not modelled, and why

* *Driver*: unloading after an initialisation step failed (releases objects that
  were never set up: undefined; `opq_release_chardev` has this guard in the model
  and not in the code); a read of fewer than 408 bytes, which gets the
  beginning of a frame; `write` and `lseek`, which do nothing; what the kernel
  does with an `spi_device` used after its release or before its set-up (the
  transfer is taken for a failed one).
* *Firmware*: clock and port configuration; the timeouts of `SPI_CloseTx_ISR`
  and the samples lost while it waits; an underrun of the SPI peripheral; its
  FIFO is one unit deep here and four bytes in the hardware. `reset_dsp` is one step:
  a transfer that the master was clocking is over when the DSP starts again, 0.1 s
  later. The serial port
  is configured and reports errors, nothing else.
* *Link*: speeds. Whether the Pi is fast enough for the DSP is not a question these
  models can answer; the master clocks a unit only when the DSP has one.
* *Redis*: a clock that jumps forward (lists expire early, as they would by any
  clock); the order inside a list, which `LPUSH` makes newest first.
* *Daemon*: floating-point results; the simulation build; a setting
  `frames_per_measurement` of 0; the interplay of the signal handler of czmq,
  which `ZMQSerializer` disables, with the one of `main`, as czmq is not part of
  the repository.
* *WiFi utilities*: scripts without state of their own around NetworkManager, whose
  behaviour is not in the repository.
* *Vendored code*: the HAL and CMSIS are most of the repository's lines. Only the
  interrupt-driven SPI transmission that the firmware relies on is modelled; the
  rest is drivers for peripherals the box does not use and register definitions.
* *Everything else* of the inventory that has no module (installation scripts,
  continuous integration, web page, hardware, bench tests): see `PROJECT.json`.

## 7. Plan

Done: all components on the path from the ADC to the server have a module, and the
two machines and the two programs that share Redis are composed. All safety
properties of the passing runs, invariants and action properties, are theorems, the
refinements (`FrameStream` twice, `Fifo`, the firmware with its stub) among them.

Left, should the code change:

1. `Settings` and `ZmqListener`: their runs show a finding each. Once these are mended
   the properties of the two runs can be expected to pass, and be proved.
2. `RedisStore`: a query without a key in its window (section 4, observations). If
   `getRange` is changed to read the list before such a window too, `Keys` can count
   the cycles of every window as `owed`, and one conjunct of `Loop` goes.
