------------------------ MODULE TriggeringPipeline ------------------------
(***************************************************************************)
(* The triggering daemon (Software/Triggering): a reader thread turns the  *)
(* frames of /dev/opq0 into measurements, an analysis thread filters and   *)
(* analyses them and stores them in Redis, a trigger thread publishes the  *)
(* analyses over ZeroMQ, and main starts the three threads and stops them  *)
(* after SIGINT.  The threads are coupled by two SyncQueues, used here     *)
(* through the Fifo they implement.                                        *)
(*                                                                         *)
(* A measurement is its number, counted modulo Cycle.  Of the filters the  *)
(* model keeps how much of their history holds real input.  A bool that is *)
(* written by one thread and read by another without a lock is read anew   *)
(* on each turn of a loop, which calls functions the compiler cannot see.  *)
(***************************************************************************)
EXTENDS Integers, Sequences, FiniteSets

CONSTANTS
    FramesPerMeasurement,   \* the setting frames_per_measurement
    Uninitialized,          \* values _samplesProcessed may start with
    UINT32_RANGE,           \* number of values of a uint32_t, scaled down
    Cycle,                  \* numbers of measurements
    MaxQueue,               \* bound: length at which a queue's producer pauses
    Faults                  \* may the driver, Redis or the certificates fail?

SAMPLES_PER_CYCLE == 200
DECIMATION_FACTOR == 10
ANTIALIASDOWNSAMPLINGFILTER_TAP_NUM == 128
LOWPASSFILTER_TAP_NUM == 64

\* enum LocalAnalysisState, with the values C++ gives its members.
INITIALIZING_DOWNSAMPLING_FILTER == 0
INITIALIZING_LOWPASS_FILTER == 1
RUNNING == 2

Samples == FramesPerMeasurement * SAMPLES_PER_CYCLE

ASSUME FramesAssumption == FramesPerMeasurement \in Nat \ {0}
ASSUME RangeAssumption ==
    /\ UINT32_RANGE \in Nat /\ UINT32_RANGE > 2 * Samples
    /\ Uninitialized \subseteq 0 .. UINT32_RANGE - 1
ASSUME BoundsAssumption == MaxQueue \in Nat \ {0} /\ Cycle \in Nat /\ Cycle > 2 * MaxQueue + 3

VARIABLES
    process,            \* "running", "returned", "exited" by exit() or "killed"
    main, slab,         \* where main is, and at which of the three slabs
    running,            \* Slab::_running of each thread
    handler,            \* is bail_handler installed?
    gSignalStatus,
    reader, analysis, trigger,      \* where each thread is
    current_frame,      \* frames in the measurement the reader is filling
    number,             \* number of that measurement
    inQ, taken,         \* the measurement queue, what the analysis popped
    outQ, message,      \* the analysis queue, what the trigger popped
    state, samplesProcessed,        \* of the filter initialisation
    adf,                \* samples in the history of the downsampling filter
    lpf,                \* outputs of a full adf in the history of the low pass
    stored,             \* last measurement known to be in Redis, or None
    lost,               \* was the connection with Redis lost?
    sent,               \* last analysis published, or None
    signalled           \* was SIGINT delivered?

mainVars     == <<main, slab, running, handler>>
readerVars   == <<reader, current_frame, number>>
filterVars   == <<state, samplesProcessed, adf, lpf>>
redisVars    == <<stored, lost>>
triggerVars  == <<trigger, message, sent>>
signalVars   == <<gSignalStatus, signalled>>
vars == <<process, main, slab, running, handler, gSignalStatus, reader, analysis, trigger,
          current_frame, number, inQ, taken, outQ, message, state, samplesProcessed,
          adf, lpf, stored, lost, sent, signalled>>

Numbers == 0 .. Cycle - 1
None == -1
Succ(n) == (n + 1) % Cycle

InQ  == INSTANCE Fifo WITH contents <- inQ, popped <- taken, Items <- Numbers
OutQ == INSTANCE Fifo WITH contents <- outQ, popped <- message, Items <- Numbers

Slabs == {"trigger", "reader", "analysis"}

StartOrder == <<"trigger", "reader", "analysis">>

\* Mutant: the threads are stopped in the order the data flows.
MStopOrder == <<"reader", "analysis", "trigger">>

StopOrder  == <<"trigger", "analysis", "reader">>

Init ==
    /\ process = "running"
    /\ main = "construct" /\ slab = 1
    /\ running = [t \in Slabs |-> FALSE]
    /\ handler = FALSE
    /\ gSignalStatus = 1
    /\ reader = "new" /\ analysis = "new" /\ trigger = "new"
    /\ current_frame = 0 /\ number = 0
    /\ inQ = <<>> /\ taken = 0
    /\ outQ = <<>> /\ message = 0
    /\ state = INITIALIZING_DOWNSAMPLING_FILTER
    /\ samplesProcessed \in Uninitialized
    /\ adf = 0 /\ lpf = 0
    /\ stored = None /\ lost = FALSE /\ sent = None
    /\ signalled = FALSE

\* exit(0) or a return from main, whatever the other threads are doing.
Exit(how) ==
    /\ process' = how
    /\ UNCHANGED <<mainVars, readerVars, analysis, filterVars, triggerVars, signalVars,
                   inQ, taken, outQ, redisVars>>

-----------------------------------------------------------------------------
(***************************************************************************)
(* main and its signal handler.                                            *)
(***************************************************************************)
\* Load the settings, open /dev/opq0, construct the queues and slabs.
MainConstruct ==
    /\ main = "construct"
    /\ main' = "start"
    /\ UNCHANGED <<process, slab, running, handler, readerVars, analysis, filterVars,
                   triggerVars, signalVars, inQ, taken, outQ, redisVars>>

MainConstructFails == main = "construct" /\ Faults /\ Exit("exited")

\* Slab::start, three times.
MainStart ==
    /\ main = "start"
    /\ running' = [running EXCEPT ![StartOrder[slab]] = TRUE]
    /\ reader'   = IF StartOrder[slab] = "reader" THEN "top" ELSE reader
    /\ analysis' = IF StartOrder[slab] = "analysis" THEN "connect" ELSE analysis
    /\ trigger'  = IF StartOrder[slab] = "trigger" THEN "connect" ELSE trigger
    /\ \/ slab < 3 /\ slab' = slab + 1 /\ UNCHANGED main
       \/ slab = 3 /\ slab' = 1 /\ main' = "install"
    /\ UNCHANGED <<process, handler, current_frame, number, filterVars, message, sent,
                   signalVars, inQ, taken, outQ, redisVars>>

MainInstall ==
    /\ main = "install"
    /\ main' = "sleep"
    /\ handler' = TRUE
    /\ UNCHANGED <<process, slab, running, readerVars, analysis, filterVars, triggerVars,
                   signalVars, inQ, taken, outQ, redisVars>>

\* SIGINT: bail_handler, or death while no handler is installed.
SigInt ==
    /\ ~signalled
    /\ signalled' = TRUE
    /\ \/ handler /\ gSignalStatus' = 0 /\ UNCHANGED process
       \/ ~handler /\ process' = "killed" /\ UNCHANGED gSignalStatus
    /\ UNCHANGED <<mainVars, readerVars, analysis, filterVars, triggerVars, inQ, taken,
                   outQ, redisVars>>

MainWake ==
    /\ main = "sleep"
    /\ gSignalStatus = 0
    /\ main' = "stop"
    /\ UNCHANGED <<process, slab, running, handler, readerVars, analysis, filterVars,
                   triggerVars, signalVars, inQ, taken, outQ, redisVars>>

\* Slab::stop clears the flag ...
MainStop ==
    /\ main = "stop"
    /\ running' = [running EXCEPT ![StopOrder[slab]] = FALSE]
    /\ main' = "join"
    /\ UNCHANGED <<process, slab, handler, readerVars, analysis, filterVars, triggerVars,
                   signalVars, inQ, taken, outQ, redisVars>>

Done(t) ==
    CASE t = "reader" -> reader = "done"
      [] t = "analysis" -> analysis = "done"
      [] t = "trigger" -> trigger = "done"

\* ... and joins the thread; after the last one main returns.
MainJoin ==
    /\ main = "join"
    /\ Done(StopOrder[slab])
    /\ \/ slab < 3 /\ slab' = slab + 1 /\ main' = "stop" /\ UNCHANGED process
       \/ slab = 3 /\ process' = "returned" /\ UNCHANGED <<slab, main>>
    /\ UNCHANGED <<running, handler, readerVars, analysis, filterVars, triggerVars,
                   signalVars, inQ, taken, outQ, redisVars>>

-----------------------------------------------------------------------------
(***************************************************************************)
(* Reader::loop.                                                           *)
(***************************************************************************)
ReaderTop ==
    /\ reader = "top"
    /\ \/ /\ running["reader"] /\ Len(inQ) < MaxQueue
          /\ reader' = "read" /\ current_frame' = 0
       \/ /\ ~running["reader"]
          /\ reader' = "done" /\ UNCHANGED current_frame
    /\ UNCHANGED <<process, mainVars, number, analysis, filterVars, triggerVars,
                   signalVars, inQ, taken, outQ, redisVars>>

\* Mutant: one frame too many.
MReaderRead ==
    /\ reader = "read"
    /\ current_frame <= FramesPerMeasurement
    /\ current_frame' = current_frame + 1
    /\ UNCHANGED <<process, mainVars, reader, number, analysis, filterVars, triggerVars,
                   signalVars, inQ, taken, outQ, redisVars>>

\* readCycle blocks until the driver has a frame.
ReaderRead ==
    /\ reader = "read"
    /\ current_frame < FramesPerMeasurement
    /\ current_frame' = current_frame + 1
    /\ UNCHANGED <<process, mainVars, reader, number, analysis, filterVars, triggerVars,
                   signalVars, inQ, taken, outQ, redisVars>>

ReaderReadFails ==
    /\ reader = "read"
    /\ current_frame < FramesPerMeasurement
    /\ Faults
    /\ Exit("exited")

ReaderPush ==
    /\ reader = "read"
    /\ current_frame = FramesPerMeasurement
    /\ InQ!Push(number)
    /\ number' = Succ(number)
    /\ reader' = "top"
    /\ UNCHANGED <<process, mainVars, current_frame, analysis, filterVars, triggerVars,
                   signalVars, outQ, redisVars>>

-----------------------------------------------------------------------------
(***************************************************************************)
(* LocalAnalysis::loop.                                                    *)
(***************************************************************************)
\* RedisSerializer's constructor tries until it is connected.  A failed try
\* changes nothing.
RedisConnect ==
    /\ analysis = "connect"
    /\ analysis' = "flush"
    /\ UNCHANGED <<process, mainVars, readerVars, filterVars, triggerVars, signalVars,
                   inQ, taken, outQ, redisVars>>

\* AUTH, when there is a password, and FLUSHALL.
RedisFlush ==
    /\ analysis = "flush"
    /\ analysis' = "top"
    /\ stored' = None
    /\ UNCHANGED <<lost, process, mainVars, readerVars, filterVars, triggerVars, signalVars,
                   inQ, taken, outQ>>

RedisFlushFails == analysis = "flush" /\ Faults /\ Exit("exited")

\* Once the trigger thread has ended nobody pops outQ again and the model does
\* not fill it any further; until then the analysis pauses at the bound.
AnalysisTop ==
    /\ analysis = "top"
    /\ \/ /\ running["analysis"]
          /\ Len(outQ) < MaxQueue \/ trigger = "done"
          /\ analysis' = "pop"
       \/ ~running["analysis"] /\ analysis' = "done"
    /\ UNCHANGED <<process, mainVars, readerVars, filterVars, triggerVars, signalVars,
                   inQ, taken, outQ, redisVars>>

AnalysisPop ==
    /\ analysis = "pop"
    /\ InQ!Pop
    /\ analysis' = "work"
    /\ UNCHANGED <<process, mainVars, readerVars, filterVars, triggerVars, signalVars,
                   outQ, redisVars>>

\* A filter's history after n more inputs.
Fill(n, taps) == IF n > taps THEN taps ELSE n

\* A measurement goes through the downsampling filter alone, or through both.
PutAdf == adf' = Fill(adf + Samples, ANTIALIASDOWNSAMPLINGFILTER_TAP_NUM)

Decimated == {i \in 0 .. Samples - 1 : i % DECIMATION_FACTOR = 0}

PutLpf ==
    lpf' = Fill(lpf + Cardinality({i \in Decimated :
                        adf + i + 1 >= ANTIALIASDOWNSAMPLINGFILTER_TAP_NUM}),
                LOWPASSFILTER_TAP_NUM)

\* Mutant: the counter is reset but the state is not changed.
MInitDownsampling ==
    /\ state = INITIALIZING_DOWNSAMPLING_FILTER
    /\ PutAdf
    /\ LET n == (samplesProcessed + Samples) % UINT32_RANGE IN
       samplesProcessed' = IF n > ANTIALIASDOWNSAMPLINGFILTER_TAP_NUM THEN 0 ELSE n
    /\ UNCHANGED <<state, lpf>>

\* Mutant: the low pass filter is not initialised.
MInitSkipsLowPass ==
    /\ state = INITIALIZING_DOWNSAMPLING_FILTER
    /\ PutAdf
    /\ LET n == (samplesProcessed + Samples) % UINT32_RANGE IN
       \/ /\ n > ANTIALIASDOWNSAMPLINGFILTER_TAP_NUM
          /\ state' = RUNNING /\ samplesProcessed' = 0
       \/ /\ n <= ANTIALIASDOWNSAMPLINGFILTER_TAP_NUM
          /\ samplesProcessed' = n /\ UNCHANGED state
    /\ UNCHANGED lpf

InitDownsampling ==
    /\ state = INITIALIZING_DOWNSAMPLING_FILTER
    /\ PutAdf
    /\ LET n == (samplesProcessed + Samples) % UINT32_RANGE IN
       \/ /\ n > ANTIALIASDOWNSAMPLINGFILTER_TAP_NUM
          /\ state' = INITIALIZING_LOWPASS_FILTER /\ samplesProcessed' = 0
       \/ /\ n <= ANTIALIASDOWNSAMPLINGFILTER_TAP_NUM
          /\ samplesProcessed' = n /\ UNCHANGED state
    /\ UNCHANGED lpf

\* The code compares the count with the enumerator, not with the taps.
InitLowPass ==
    /\ state = INITIALIZING_LOWPASS_FILTER
    /\ PutAdf /\ PutLpf
    /\ LET n == (samplesProcessed + Cardinality(Decimated)) % UINT32_RANGE IN
       \/ /\ n > INITIALIZING_LOWPASS_FILTER
          /\ state' = RUNNING /\ samplesProcessed' = 0
       \/ /\ n <= INITIALIZING_LOWPASS_FILTER
          /\ samplesProcessed' = n /\ UNCHANGED state

initFilter ==
    /\ analysis = "work"
    /\ InitDownsampling \/ InitLowPass
    /\ analysis' = "top"
    /\ UNCHANGED <<process, mainVars, readerVars, triggerVars, signalVars, inQ, taken,
                   outQ, redisVars>>

\* Mutant: when the trigger thread lags, its message is dropped.
MAnalysisPublish ==
    /\ analysis = "work" /\ state = RUNNING
    /\ PutAdf /\ PutLpf
    /\ outQ' = IF trigger = "done" \/ outQ # <<>> THEN outQ ELSE Append(outQ, taken)
    /\ analysis' = "store"
    /\ UNCHANGED <<process, mainVars, readerVars, state, samplesProcessed, triggerVars,
                   signalVars, inQ, taken, redisVars>>

\* Analyse the measurement and hand the result to the trigger thread.
AnalysisPublish ==
    /\ analysis = "work" /\ state = RUNNING
    /\ PutAdf /\ PutLpf
    /\ \/ trigger # "done" /\ OutQ!Push(taken)
       \/ trigger = "done" /\ UNCHANGED <<outQ, message>>
    /\ analysis' = "store"
    /\ UNCHANGED <<process, mainVars, readerVars, state, samplesProcessed, trigger, sent,
                   signalVars, inQ, taken, redisVars>>

\* Mutant: sendToRedis may return before it has sent anything.
MRedisStore ==
    /\ analysis = "store" /\ ~lost
    /\ stored' \in {taken, stored}
    /\ analysis' = "top"
    /\ UNCHANGED <<lost, process, mainVars, readerVars, filterVars, triggerVars, signalVars,
                   inQ, taken, outQ>>

RedisStore ==
    /\ analysis = "store" /\ ~lost
    /\ stored' = taken
    /\ analysis' = "top"
    /\ UNCHANGED <<lost, process, mainVars, readerVars, filterVars, triggerVars, signalVars,
                   inQ, taken, outQ>>

\* Redis answers with an error.
RedisStoreFails == analysis = "store" /\ Faults /\ ~lost /\ Exit("exited")

\* Without a connection redisGetReply fails and leaves its argument alone, and
\* its result is ignored: the reply that is tested and freed then is a variable
\* that was never set, or the one of the LPUSH, freed already.  The process
\* exits, dies, or goes on with the loop.  What Redis keeps is not followed any
\* further.
RedisLost ==
    /\ analysis = "store"
    /\ Faults \/ lost
    /\ lost' = TRUE
    /\ stored' = None
    /\ \/ process' \in {"exited", "killed"} /\ UNCHANGED analysis
       \/ analysis' = "top" /\ UNCHANGED process
    /\ UNCHANGED <<mainVars, readerVars, filterVars, triggerVars, signalVars, inQ, taken, outQ>>

-----------------------------------------------------------------------------
(***************************************************************************)
(* ZMQTrigger::loop.                                                       *)
(***************************************************************************)
\* ZMQSerializer's constructor: certificates and socket.
ZmqConnect ==
    /\ trigger = "connect"
    /\ trigger' = "top"
    /\ UNCHANGED <<process, mainVars, readerVars, analysis, filterVars, message, sent,
                   signalVars, inQ, taken, outQ, redisVars>>

ZmqConnectFails == trigger = "connect" /\ Faults /\ Exit("exited")

TriggerTop ==
    /\ trigger = "top"
    /\ trigger' = IF running["trigger"] THEN "pop" ELSE "done"
    /\ UNCHANGED <<process, mainVars, readerVars, analysis, filterVars, message, sent,
                   signalVars, inQ, taken, outQ, redisVars>>

TriggerPop ==
    /\ trigger = "pop"
    /\ OutQ!Pop
    /\ trigger' = "send"
    /\ UNCHANGED <<process, mainVars, readerVars, analysis, filterVars, sent, signalVars,
                   inQ, taken, redisVars>>

sendToZMQ ==
    /\ trigger = "send"
    /\ sent' = message
    /\ trigger' = "top"
    /\ UNCHANGED <<process, mainVars, readerVars, analysis, filterVars, message,
                   signalVars, inQ, taken, outQ, redisVars>>

-----------------------------------------------------------------------------
MainNext ==
    MainConstruct \/ MainConstructFails \/ MainStart \/ MainInstall \/ MainWake \/ MainStop
    \/ MainJoin
ReaderNext == ReaderTop \/ ReaderRead \/ ReaderReadFails \/ ReaderPush
AnalysisLoop ==
    RedisFlush \/ RedisFlushFails \/ AnalysisTop \/ AnalysisPop \/ initFilter
    \/ AnalysisPublish \/ RedisStore \/ RedisStoreFails \/ RedisLost
TriggerNext == ZmqConnect \/ ZmqConnectFails \/ TriggerTop \/ TriggerPop \/ sendToZMQ

Next ==
    /\ process = "running"
    /\ MainNext \/ SigInt \/ ReaderNext \/ RedisConnect \/ AnalysisLoop \/ TriggerNext

Spec == Init /\ [][Next]_vars

Step(A) == process = "running" /\ A

(***************************************************************************)
(* Threads that can run do run.  Nobody has to send SIGINT.                *)
(***************************************************************************)
ThreadFairness ==
    /\ WF_vars(Step(MainNext))
    /\ WF_vars(Step(ReaderTop \/ ReaderPush))
    /\ WF_vars(Step(AnalysisLoop))
    /\ WF_vars(Step(TriggerNext))

(***************************************************************************)
(* The driver goes on delivering frames and Redis can be reached.          *)
(***************************************************************************)
EnvironmentFairness == WF_vars(Step(ReaderRead)) /\ WF_vars(Step(RedisConnect))

FairSpec == Spec /\ ThreadFairness /\ EnvironmentFairness

\* The same threads on a box whose driver or Redis may stay silent.
StallSpec == Spec /\ ThreadFairness

-----------------------------------------------------------------------------
(***************************************************************************)
(* Correctness.                                                            *)
(***************************************************************************)
TypeOK ==
    /\ process \in {"running", "returned", "exited", "killed"}
    /\ main \in {"construct", "start", "install", "sleep", "stop", "join"}
    /\ slab \in 1 .. 3
    /\ running \in [Slabs -> BOOLEAN]
    /\ handler \in BOOLEAN /\ signalled \in BOOLEAN
    /\ gSignalStatus \in {0, 1}
    /\ reader \in {"new", "top", "read", "done"}
    /\ analysis \in {"new", "connect", "flush", "top", "pop", "work", "store", "done"}
    /\ trigger \in {"new", "connect", "top", "pop", "send", "done"}
    /\ current_frame \in 0 .. FramesPerMeasurement
    /\ number \in Numbers
    /\ inQ \in Seq(Numbers) /\ taken \in Numbers
    /\ outQ \in Seq(Numbers) /\ message \in Numbers
    /\ state \in {INITIALIZING_DOWNSAMPLING_FILTER, INITIALIZING_LOWPASS_FILTER, RUNNING}
    /\ samplesProcessed \in 0 .. UINT32_RANGE - 1
    /\ adf \in 0 .. ANTIALIASDOWNSAMPLINGFILTER_TAP_NUM
    /\ lpf \in 0 .. LOWPASSFILTER_TAP_NUM
    /\ stored \in Numbers \cup {None} /\ lost \in BOOLEAN /\ sent \in Numbers \cup {None}

When(condition, n) == IF condition THEN <<n>> ELSE <<>>

\* What was handed to the trigger thread, from the last one it published on.
Published == <<sent>> \o When(trigger = "send", message) \o outQ

Consecutive(s) == \A i \in 1 .. Len(s) - 1 : s[i] # None => s[i + 1] = Succ(s[i])

(***************************************************************************)
(* From the first analysis on, each measurement is published once and in   *)
(* order: what is published, on the way to the trigger thread, under       *)
(* analysis, on the way there and being read are consecutive measurements. *)
(***************************************************************************)
PublishedInOrder ==
    trigger # "done" =>
        Consecutive(Published \o When(analysis = "work", taken) \o inQ \o <<number>>)

(***************************************************************************)
(* Until the connection is lost Redis holds every measurement that was     *)
(* handed to the trigger thread, except the one the analysis thread is     *)
(* storing: a trigger that leads the server to ask for the data is at most *)
(* one measurement ahead of them.                                          *)
(***************************************************************************)
TriggerHasData ==
    trigger # "done" /\ ~lost =>
        LET last == Published[Len(Published)] IN
        IF analysis = "store"
        THEN last = taken /\ (stored # None => taken = Succ(stored))
        ELSE last = stored

(***************************************************************************)
(* Frequency and voltage are computed only with filters whose histories    *)
(* are full: the initialisation has replaced every zero they started with. *)
(***************************************************************************)
FiltersWarm ==
    state = RUNNING =>
        /\ adf = ANTIALIASDOWNSAMPLINGFILTER_TAP_NUM
        /\ lpf = LOWPASSFILTER_TAP_NUM

(***************************************************************************)
(* After SIGINT the process ends: each thread that is stopped while it     *)
(* waits in pop is woken by the thread before it, which still runs.        *)
(***************************************************************************)
SigIntEndsProcess == signalled ~> process # "running"

(***************************************************************************)
(* Until somebody stops the daemon, analyses keep being published.         *)
(***************************************************************************)
KeepsPublishing == []<>(trigger = "send" \/ signalled \/ process # "running")

=============================================================================
