---------------------- MODULE TriggeringPipelineProofs ----------------------
(***************************************************************************)
(* Proofs about TriggeringPipeline, for every setting of                   *)
(* frames_per_measurement, every bound on the queues and every value an    *)
(* uninitialised _samplesProcessed may have.                               *)
(***************************************************************************)
EXTENDS TriggeringPipeline, SequenceTheorems, FiniteSetTheorems, TLAPS

-----------------------------------------------------------------------------
(***************************************************************************)
(* The inductive invariant.                                                *)
(***************************************************************************)
\* main starts each thread once: the trigger thread first, the analysis last.
Startup ==
    /\ main = "construct" => slab = 1
    /\ main \in {"construct", "start"} => analysis = "new"
    /\ main \in {"construct", "start"} /\ slab = 1 => trigger = "new"

\* Until the filters are initialised nothing is analysed: there is nothing to
\* publish, and nothing in Redis.  The initialisation starts after FLUSHALL.
NothingYet ==
    /\ analysis \in {"new", "connect", "flush"} => state # RUNNING
    /\ state # RUNNING =>
           /\ sent = None /\ outQ = <<>> /\ trigger # "send"
           /\ stored = None /\ analysis # "store"

\* One measurement fills the downsampling filter, however long it is; its
\* samples that are left fill the low pass filter, when they are enough.
Warming ==
    /\ state # INITIALIZING_DOWNSAMPLING_FILTER => adf = ANTIALIASDOWNSAMPLINGFILTER_TAP_NUM
    /\ state = INITIALIZING_LOWPASS_FILTER => samplesProcessed = 0
    /\ state = RUNNING =>
           lpf >= Fill(20 * FramesPerMeasurement, LOWPASSFILTER_TAP_NUM)

Inv ==
    /\ TypeOK
    /\ Startup
    /\ NothingYet
    /\ Warming
    /\ PublishedInOrder
    /\ TriggerHasData

\* The initial state satisfies the invariant.
LEMMA InvInit == Init => Inv
<1> SUFFICES ASSUME Init PROVE Inv
  OBVIOUS
<1>1. TypeOK
  <2>1. number \in Numbers /\ taken \in Numbers /\ message \in Numbers
    BY BoundsAssumption DEF Init, Numbers
  <2>2. current_frame \in 0 .. FramesPerMeasurement
    BY FramesAssumption DEF Init
  <2>3. samplesProcessed \in 0 .. UINT32_RANGE - 1
    BY RangeAssumption DEF Init
  <2>4. running \in [Slabs -> BOOLEAN] /\ handler \in BOOLEAN /\ signalled \in BOOLEAN
    BY DEF Init
  <2>5. inQ \in Seq(Numbers) /\ outQ \in Seq(Numbers)
    BY DEF Init
  <2>6. slab \in 1 .. 3 /\ gSignalStatus \in {0, 1} /\ adf \in 0 .. 128 /\ lpf \in 0 .. 64
    BY DEF Init
  <2> QED
    BY <2>1, <2>2, <2>3, <2>4, <2>5, <2>6
    DEF Init, TypeOK, ANTIALIASDOWNSAMPLINGFILTER_TAP_NUM, LOWPASSFILTER_TAP_NUM
<1>2. Startup /\ NothingYet /\ Warming
  BY DEF Init, Startup, NothingYet, Warming, INITIALIZING_DOWNSAMPLING_FILTER,
         INITIALIZING_LOWPASS_FILTER, RUNNING
<1>3. analysis = "new" /\ stored = None /\ number = 0 /\ None = -1
  BY DEF Init, None
<1>4. Published = <<None>>
  <2>1. Published = (<<None>> \o <<>>) \o <<>>
    BY DEF Init, Published, When
  <2> QED
    BY <1>3, <2>1
<1>5. TriggerHasData
  BY <1>3, <1>4 DEF TriggerHasData
<1>6. PublishedInOrder
  <2> DEFINE chain == Published \o When(analysis = "work", taken) \o inQ \o <<number>>
  <2>1. chain = ((<<None>> \o <<>>) \o <<>>) \o <<0>>
    BY <1>3, <1>4 DEF Init, When
  <2>2. Len(chain) = 2 /\ chain[1] = None
    BY <1>3, <2>1
  <2> HIDE DEF chain
  <2>3. Consecutive(chain)
    BY <2>2 DEF Consecutive
  <2> QED
    BY <2>3 DEF PublishedInOrder, chain
<1> QED
  BY <1>1, <1>2, <1>5, <1>6 DEF Inv

-----------------------------------------------------------------------------
(***************************************************************************)
(* Types.                                                                  *)
(***************************************************************************)
\* The number of samples the downsampling filter hands on.
LEMMA DecimatedSize ==
    IsFiniteSet(Decimated) /\ Cardinality(Decimated) = 20 * FramesPerMeasurement
<1> DEFINE n == 20 * FramesPerMeasurement
           f == [k \in 1 .. n |-> 10 * (k - 1)]
<1>1. Samples = 10 * n /\ n \in Nat
  BY FramesAssumption DEF Samples, SAMPLES_PER_CYCLE
<1> HIDE DEF n
<1>2. f \in [1 .. n -> Decimated]
  BY <1>1 DEF Decimated, DECIMATION_FACTOR
<1>3. \A k, l \in 1 .. n : f[k] = f[l] => k = l
  BY <1>1
<1>4. \A d \in Decimated : \E k \in 1 .. n : f[k] = d
  <2> SUFFICES ASSUME NEW d \in Decimated PROVE \E k \in 1 .. n : f[k] = d
    OBVIOUS
  <2>1. d \in 0 .. 10 * n - 1 /\ d % 10 = 0
    BY <1>1 DEF Decimated, DECIMATION_FACTOR
  <2>2. PICK q \in Int : d = 10 * q
    BY <2>1
  <2>3. q + 1 \in 1 .. n
    BY <1>1, <2>1, <2>2
  <2> QED
    BY <2>2, <2>3
<1> HIDE DEF f
<1>5. f \in Injection(1 .. n, Decimated)
  BY <1>2, <1>3 DEF Injection, IsInjective
<1>6. f \in Surjection(1 .. n, Decimated)
  BY <1>2, <1>4 DEF Surjection
<1>7. ExistsBijection(1 .. n, Decimated)
  BY <1>5, <1>6 DEF ExistsBijection, Bijection
<1>8. IsFiniteSet(1 .. n) /\ Cardinality(1 .. n) = n
  BY <1>1, FS_Interval
<1> QED
  BY <1>7, <1>8, FS_Bijection DEF n

\* A history never holds more than the filter has taps.
LEMMA PutType ==
    ASSUME TypeOK
    PROVE  /\ PutAdf => adf' \in 0 .. ANTIALIASDOWNSAMPLINGFILTER_TAP_NUM
           /\ PutLpf => lpf' \in 0 .. LOWPASSFILTER_TAP_NUM
<1>1. PutAdf => adf' \in 0 .. ANTIALIASDOWNSAMPLINGFILTER_TAP_NUM
  BY FramesAssumption
  DEF TypeOK, PutAdf, Fill, Samples, SAMPLES_PER_CYCLE, ANTIALIASDOWNSAMPLINGFILTER_TAP_NUM
<1> DEFINE W == {i \in Decimated : adf + i + 1 >= ANTIALIASDOWNSAMPLINGFILTER_TAP_NUM}
<1>2. Cardinality(W) \in Nat
  <2>1. W \subseteq Decimated
    OBVIOUS
  <2> QED
    BY <2>1, DecimatedSize, FS_Subset, FS_CardinalityType
<1>3. PutLpf => lpf' = Fill(lpf + Cardinality(W), LOWPASSFILTER_TAP_NUM)
  BY DEF PutLpf
<1> HIDE DEF W
<1>4. lpf \in 0 .. LOWPASSFILTER_TAP_NUM
  BY DEF TypeOK
<1> QED
  BY <1>1, <1>2, <1>3, <1>4 DEF Fill, LOWPASSFILTER_TAP_NUM

\* The counter of the initialisation stays a uint32_t.
LEMMA InitType ==
    ASSUME TypeOK, InitDownsampling \/ InitLowPass
    PROVE  /\ samplesProcessed' \in 0 .. UINT32_RANGE - 1
           /\ adf' \in 0 .. ANTIALIASDOWNSAMPLINGFILTER_TAP_NUM
           /\ lpf' \in 0 .. LOWPASSFILTER_TAP_NUM
           /\ state' \in {INITIALIZING_DOWNSAMPLING_FILTER, INITIALIZING_LOWPASS_FILTER,
                          RUNNING}
<1>1. samplesProcessed \in Nat /\ Samples \in Nat /\ UINT32_RANGE \in Nat \ {0}
  BY FramesAssumption, RangeAssumption DEF TypeOK, Samples, SAMPLES_PER_CYCLE
<1>2. Cardinality(Decimated) \in Nat
  BY DecimatedSize, FramesAssumption
<1>3. lpf \in 0 .. LOWPASSFILTER_TAP_NUM
  BY DEF TypeOK
<1>4. CASE InitDownsampling
  <2>1. (samplesProcessed + Samples) % UINT32_RANGE \in 0 .. UINT32_RANGE - 1
    BY <1>1
  <2> QED
    BY <1>1, <1>3, <1>4, <2>1, PutType DEF InitDownsampling
<1>5. CASE InitLowPass
  <2>1. (samplesProcessed + Cardinality(Decimated)) % UINT32_RANGE \in 0 .. UINT32_RANGE - 1
    BY <1>1, <1>2
  <2> QED
    BY <1>1, <1>5, <2>1, PutType DEF InitLowPass
<1> QED
  BY <1>4, <1>5

\* Every step keeps the types.
LEMMA TypeStep == TypeOK /\ [Next]_vars => TypeOK'
<1> SUFFICES ASSUME TypeOK, [Next]_vars PROVE TypeOK'
  OBVIOUS
<1> USE DEF mainVars, readerVars, filterVars, redisVars, triggerVars, signalVars
<1>1. CASE \E how \in {"exited", "returned"} : Exit(how)
  BY <1>1 DEF Exit, TypeOK
<1>2. CASE MainConstruct \/ MainInstall \/ MainWake
  <2>1. CASE MainInstall
    <3>1. handler' \in BOOLEAN
      BY <2>1 DEF MainInstall
    <3> QED
      BY <2>1, <3>1 DEF MainInstall, TypeOK
  <2> QED
    BY <1>2, <2>1 DEF MainConstruct, MainWake, TypeOK
<1>3. CASE MainStart
  <2>1. StartOrder[slab] \in Slabs
    BY DEF TypeOK, StartOrder, Slabs
  <2>2. running' \in [Slabs -> BOOLEAN]
    BY <1>3, <2>1 DEF TypeOK, MainStart
  <2> QED
    BY <1>3, <2>2 DEF MainStart, TypeOK
<1>4. CASE SigInt
  BY <1>4 DEF SigInt, TypeOK
<1>5. CASE MainStop
  <2>1. running' \in [Slabs -> BOOLEAN]
    BY <1>5 DEF TypeOK, MainStop
  <2> QED
    BY <1>5, <2>1 DEF MainStop, TypeOK
<1>6. CASE MainJoin
  BY <1>6 DEF MainJoin, TypeOK
<1>7. CASE ReaderTop \/ ReaderRead
  BY <1>7, FramesAssumption DEF ReaderTop, ReaderRead, TypeOK
<1>8. CASE ReaderPush
  <2>1. Succ(number) \in Numbers
    BY BoundsAssumption DEF TypeOK, Succ, Numbers
  <2> QED
    BY <1>8, <2>1 DEF ReaderPush, InQ!Push, TypeOK
<1>9. CASE RedisConnect \/ RedisFlush \/ AnalysisTop \/ RedisStore \/ RedisLost
  <2>1. CASE RedisConnect
    BY <2>1 DEF RedisConnect, TypeOK
  <2>2. CASE RedisFlush
    BY <2>2 DEF RedisFlush, TypeOK
  <2>3. CASE AnalysisTop
    BY <2>3 DEF AnalysisTop, TypeOK
  <2>4. CASE RedisStore
    BY <2>4 DEF RedisStore, TypeOK
  <2>5. CASE RedisLost
    BY <2>5 DEF RedisLost, TypeOK
  <2> QED
    BY <1>9, <2>1, <2>2, <2>3, <2>4, <2>5
<1>10. CASE AnalysisPop
  BY <1>10 DEF AnalysisPop, InQ!Pop, TypeOK
<1>11. CASE initFilter
  BY <1>11, InitType DEF initFilter, TypeOK
<1>12. CASE AnalysisPublish
  <2>1. /\ adf' \in 0 .. ANTIALIASDOWNSAMPLINGFILTER_TAP_NUM
        /\ lpf' \in 0 .. LOWPASSFILTER_TAP_NUM
    BY <1>12, PutType DEF AnalysisPublish
  <2>2. outQ' \in Seq(Numbers) /\ message' \in Numbers
    BY <1>12 DEF AnalysisPublish, OutQ!Push, TypeOK
  <2> QED
    BY <1>12, <2>1, <2>2 DEF AnalysisPublish, TypeOK
<1>13. CASE ZmqConnect \/ TriggerTop \/ sendToZMQ
  BY <1>13 DEF ZmqConnect, TriggerTop, sendToZMQ, TypeOK
<1>14. CASE TriggerPop
  BY <1>14 DEF TriggerPop, OutQ!Pop, TypeOK
<1>15. CASE UNCHANGED vars
  BY <1>15 DEF vars, TypeOK
<1> QED
  BY <1>1, <1>2, <1>3, <1>4, <1>5, <1>6, <1>7, <1>8, <1>9, <1>10, <1>11, <1>12, <1>13,
     <1>14, <1>15
  DEF Next, MainNext, ReaderNext, AnalysisLoop, TriggerNext, MainConstructFails,
      ReaderReadFails, RedisFlushFails, RedisStoreFails, ZmqConnectFails

-----------------------------------------------------------------------------
(***************************************************************************)
(* The start of the threads and the initialisation of the filters.         *)
(***************************************************************************)
\* Every step keeps Startup and NothingYet.
LEMMA StartStep ==
    TypeOK /\ Startup /\ NothingYet /\ [Next]_vars => Startup' /\ NothingYet'
<1> SUFFICES ASSUME TypeOK, Startup, NothingYet, [Next]_vars PROVE Startup' /\ NothingYet'
  OBVIOUS
<1> USE DEF mainVars, readerVars, filterVars, triggerVars, signalVars, redisVars, Startup, NothingYet
<1>1. CASE \E how \in {"exited", "returned"} : Exit(how)
  BY <1>1 DEF Exit
<1>2. CASE MainConstruct \/ MainInstall \/ MainWake \/ SigInt \/ MainStop
  BY <1>2 DEF MainConstruct, MainInstall, MainWake, SigInt, MainStop
<1>3. CASE MainStart
  <2>1. slab \in 1 .. 3
    BY DEF TypeOK
  <2>2. CASE slab = 1
    BY <1>3, <2>2 DEF MainStart, StartOrder
  <2>3. CASE slab = 2
    BY <1>3, <2>3 DEF MainStart, StartOrder
  <2>4. CASE slab = 3
    BY <1>3, <2>4 DEF MainStart, StartOrder
  <2> QED
    BY <2>1, <2>2, <2>3, <2>4
<1>4. CASE MainJoin
  BY <1>4 DEF MainJoin
<1>5. CASE ReaderTop \/ ReaderRead
  BY <1>5 DEF ReaderTop, ReaderRead
<1>6. CASE ReaderPush
  BY <1>6 DEF ReaderPush, InQ!Push
<1>7. CASE RedisConnect \/ RedisFlush
  BY <1>7 DEF RedisConnect, RedisFlush
<1>8. CASE AnalysisTop
  BY <1>8 DEF AnalysisTop
<1>9. CASE AnalysisPop
  BY <1>9 DEF AnalysisPop, InQ!Pop
<1>10. CASE initFilter
  BY <1>10 DEF initFilter, InitDownsampling, InitLowPass, INITIALIZING_DOWNSAMPLING_FILTER,
               INITIALIZING_LOWPASS_FILTER, RUNNING
<1>11. CASE AnalysisPublish
  BY <1>11 DEF AnalysisPublish, OutQ!Push
<1>12. CASE RedisStore \/ RedisLost
  BY <1>12 DEF RedisStore, RedisLost
<1>13. CASE ZmqConnect \/ TriggerTop \/ sendToZMQ
  BY <1>13 DEF ZmqConnect, TriggerTop, sendToZMQ
<1>14. CASE TriggerPop
  BY <1>14 DEF TriggerPop, OutQ!Pop
<1>15. CASE UNCHANGED vars
  BY <1>15 DEF vars
<1> QED
  BY <1>1, <1>2, <1>3, <1>4, <1>5, <1>6, <1>7, <1>8, <1>9, <1>10, <1>11, <1>12, <1>13,
     <1>14, <1>15
  DEF Next, MainNext, ReaderNext, AnalysisLoop, TriggerNext, MainConstructFails,
      ReaderReadFails, RedisFlushFails, RedisStoreFails, ZmqConnectFails

\* With a full downsampling filter every sample it hands on is warm.
LEMMA PutWarm ==
    ASSUME TypeOK, adf = ANTIALIASDOWNSAMPLINGFILTER_TAP_NUM, PutAdf, PutLpf
    PROVE  /\ adf' = ANTIALIASDOWNSAMPLINGFILTER_TAP_NUM
           /\ lpf' = Fill(lpf + 20 * FramesPerMeasurement, LOWPASSFILTER_TAP_NUM)
<1>1. adf' = ANTIALIASDOWNSAMPLINGFILTER_TAP_NUM
  BY FramesAssumption
  DEF PutAdf, Fill, Samples, SAMPLES_PER_CYCLE, ANTIALIASDOWNSAMPLINGFILTER_TAP_NUM
<1>2. Decimated \subseteq Nat
  BY FramesAssumption DEF Decimated, Samples, SAMPLES_PER_CYCLE
<1>3. {i \in Decimated : adf + i + 1 >= ANTIALIASDOWNSAMPLINGFILTER_TAP_NUM} = Decimated
  <2>1. \A i \in Decimated : adf + i + 1 >= ANTIALIASDOWNSAMPLINGFILTER_TAP_NUM
    BY <1>2 DEF ANTIALIASDOWNSAMPLINGFILTER_TAP_NUM
  <2> QED
    BY <2>1
<1> QED
  BY <1>1, <1>3, DecimatedSize DEF PutLpf

\* Every step keeps Warming.
LEMMA WarmStep == TypeOK /\ Warming /\ [Next]_vars => Warming'
<1> SUFFICES ASSUME TypeOK, Warming, [Next]_vars PROVE Warming'
  OBVIOUS
<1> DEFINE F == FramesPerMeasurement
<1>1. /\ Samples = 200 * F /\ F \in Nat \ {0} /\ adf \in Nat /\ lpf \in 0 .. 64
      /\ samplesProcessed \in Nat /\ UINT32_RANGE \in Nat /\ UINT32_RANGE > 400 * F
  BY FramesAssumption, RangeAssumption
  DEF TypeOK, Samples, SAMPLES_PER_CYCLE, ANTIALIASDOWNSAMPLINGFILTER_TAP_NUM,
      LOWPASSFILTER_TAP_NUM
<1>2. CASE initFilter
  <2>1. CASE InitDownsampling
    <3>1. adf' = ANTIALIASDOWNSAMPLINGFILTER_TAP_NUM
      BY <1>1, <2>1
      DEF InitDownsampling, PutAdf, Fill, ANTIALIASDOWNSAMPLINGFILTER_TAP_NUM
    <3> QED
      BY <2>1, <3>1
      DEF InitDownsampling, Warming, INITIALIZING_DOWNSAMPLING_FILTER,
          INITIALIZING_LOWPASS_FILTER, RUNNING
  <2>2. CASE InitLowPass
    <3>1. adf = ANTIALIASDOWNSAMPLINGFILTER_TAP_NUM /\ samplesProcessed = 0
      BY <2>2 DEF InitLowPass, Warming, INITIALIZING_DOWNSAMPLING_FILTER,
                  INITIALIZING_LOWPASS_FILTER
    <3>2. /\ adf' = ANTIALIASDOWNSAMPLINGFILTER_TAP_NUM
          /\ lpf' = Fill(lpf + 20 * F, LOWPASSFILTER_TAP_NUM)
      BY <2>2, <3>1, PutWarm DEF InitLowPass
    <3>3. lpf' >= Fill(20 * F, LOWPASSFILTER_TAP_NUM)
      BY <1>1, <3>2 DEF Fill, LOWPASSFILTER_TAP_NUM
    <3>4. (samplesProcessed + Cardinality(Decimated)) % UINT32_RANGE = 20 * F
      BY <1>1, <3>1, DecimatedSize
    <3>5. state' = RUNNING
      BY <1>1, <2>2, <3>4 DEF InitLowPass, INITIALIZING_LOWPASS_FILTER
    <3> QED
      BY <3>2, <3>3, <3>5 DEF Warming, RUNNING, INITIALIZING_LOWPASS_FILTER
  <2> QED
    BY <1>2, <2>1, <2>2 DEF initFilter
<1>3. CASE AnalysisPublish
  <2>1. adf = ANTIALIASDOWNSAMPLINGFILTER_TAP_NUM
    BY <1>3 DEF AnalysisPublish, Warming, INITIALIZING_DOWNSAMPLING_FILTER, RUNNING
  <2>2. /\ adf' = ANTIALIASDOWNSAMPLINGFILTER_TAP_NUM
        /\ lpf' = Fill(lpf + 20 * F, LOWPASSFILTER_TAP_NUM)
    BY <1>3, <2>1, PutWarm DEF AnalysisPublish
  <2>3. lpf' >= Fill(20 * F, LOWPASSFILTER_TAP_NUM)
    BY <1>1, <2>2 DEF Fill, LOWPASSFILTER_TAP_NUM
  <2>4. UNCHANGED state /\ state = RUNNING
    BY <1>3 DEF AnalysisPublish
  <2> QED
    BY <2>2, <2>3, <2>4 DEF Warming, RUNNING, INITIALIZING_LOWPASS_FILTER
<1>4. CASE ~initFilter /\ ~AnalysisPublish
  <2>1. UNCHANGED filterVars
    BY <1>4 DEF Next, MainNext, ReaderNext, AnalysisLoop, TriggerNext, MainConstructFails,
      ReaderReadFails, RedisFlushFails, RedisStoreFails, ZmqConnectFails, Exit,
      MainConstruct, MainStart, MainInstall, SigInt, MainWake, MainStop, MainJoin, ReaderTop,
      ReaderRead, ReaderPush, RedisConnect, RedisFlush, AnalysisTop, AnalysisPop,
      RedisStore, RedisLost, ZmqConnect, TriggerTop, TriggerPop, sendToZMQ, vars, filterVars
  <2> QED
    BY <2>1 DEF filterVars, Warming
<1> QED
  BY <1>2, <1>3, <1>4

-----------------------------------------------------------------------------
(***************************************************************************)
(* Chains of consecutive measurements.                                     *)
(***************************************************************************)
Entries == Numbers \cup {None}

\* The chain of PublishedInOrder.
Chain == Published \o When(analysis = "work", taken) \o inQ \o <<number>>

\* A chain may grow at its end.
LEMMA ConsecutiveAppend ==
    ASSUME NEW s \in Seq(Entries), s # <<>>, Consecutive(s), NEW x \in Entries,
           s[Len(s)] # None => x = Succ(s[Len(s)])
    PROVE  Consecutive(Append(s, x))
BY DEF Consecutive

\* A chain may lose its first entry.
LEMMA ConsecutiveTail ==
    ASSUME NEW s \in Seq(Entries), s # <<>>, Consecutive(s)
    PROVE  Consecutive(Tail(s))
BY DEF Consecutive

\* Before anything was published a chain may lose its first measurement.
LEMMA ConsecutiveDrop ==
    ASSUME NEW a \in Entries, NEW q \in Seq(Entries), Consecutive((<<None>> \o <<a>>) \o q)
    PROVE  Consecutive((<<None>> \o <<>>) \o q)
<1> DEFINE s == (<<None>> \o <<a>>) \o q
           t == (<<None>> \o <<>>) \o q
<1>1. /\ t \in Seq(Entries) /\ Len(t) = Len(q) + 1 /\ t[1] = None
      /\ \A i \in 1 .. Len(q) : t[i + 1] = q[i]
  BY DEF Entries
<1>2. /\ s \in Seq(Entries) /\ Len(s) = Len(q) + 2
      /\ \A i \in 1 .. Len(q) : s[i + 2] = q[i]
  BY DEF Entries
<1>3. Consecutive(s)
  OBVIOUS
<1> HIDE DEF s, t
<1>4. ASSUME NEW i \in 1 .. Len(t) - 1, t[i] # None
      PROVE  t[i + 1] = Succ(t[i])
  <2>1. i \in 2 .. Len(q)
    BY <1>1, <1>4
  <2>2. i - 1 \in 1 .. Len(q) /\ i \in 1 .. Len(q) /\ (i - 1) + 1 = i /\ (i - 1) + 2 = i + 1
    BY <2>1
  <2>3. t[(i - 1) + 1] = q[i - 1] /\ s[(i - 1) + 2] = q[i - 1]
    BY <2>2, <1>1, <1>2
  <2>4. t[i + 1] = q[i] /\ s[i + 2] = q[i]
    BY <2>2, <1>1, <1>2
  <2>5. t[i] = s[i + 1] /\ t[i + 1] = s[i + 2]
    BY <2>2, <2>3, <2>4
  <2>6. i + 1 \in 1 .. Len(s) - 1 /\ (i + 1) + 1 = i + 2
    BY <1>2, <2>1
  <2>7. s[i + 1] # None => s[(i + 1) + 1] = Succ(s[i + 1])
    BY <1>3, <2>6 DEF Consecutive
  <2> QED
    BY <1>4, <2>5, <2>6, <2>7
<1> QED
  BY <1>4 DEF Consecutive, t

\* What follows the first part of a chain is the successor of its last entry.
LEMMA ConsecutiveJoint ==
    ASSUME NEW s \in Seq(Entries), s # <<>>, NEW x \in Entries, NEW q \in Seq(Entries),
           Consecutive((s \o <<x>>) \o q), s[Len(s)] # None
    PROVE  x = Succ(s[Len(s)])
<1> DEFINE c == (s \o <<x>>) \o q
           n == Len(s)
<1>1. n \in Nat \ {0} /\ n \in 1 .. Len(c) - 1 /\ c[n] = s[n] /\ c[n + 1] = x
  OBVIOUS
<1>2. Consecutive(c)
  OBVIOUS
<1> HIDE DEF c, n
<1>3. c[n] # None => c[n + 1] = Succ(c[n])
  BY <1>1, <1>2 DEF Consecutive
<1> QED
  BY <1>1, <1>3 DEF n

\* The parts of the chain are sequences of numbers and None.
LEMMA ChainType ==
    ASSUME TypeOK
    PROVE  /\ None \in Entries /\ number \in Entries /\ taken \in Entries
           /\ inQ \in Seq(Entries) /\ outQ \in Seq(Entries)
           /\ sent \in Entries /\ message \in Entries
           /\ Published \in Seq(Entries) /\ Published # <<>>
           /\ When(analysis = "work", taken) \in Seq(Entries)
<1>1. /\ None \in Entries /\ number \in Entries /\ taken \in Entries
      /\ sent \in Entries /\ message \in Entries
  BY DEF TypeOK, Entries
<1>2. inQ \in Seq(Entries) /\ outQ \in Seq(Entries)
  BY DEF TypeOK, Entries
<1>3. /\ When(trigger = "send", message) \in Seq(Entries)
      /\ When(analysis = "work", taken) \in Seq(Entries)
  BY <1>1 DEF When
<1>4. Published \in Seq(Entries) /\ Published # <<>>
  BY <1>1, <1>2, <1>3 DEF Published
<1> QED
  BY <1>1, <1>2, <1>3, <1>4

-----------------------------------------------------------------------------
(***************************************************************************)
(* Every step keeps the chain and what Redis holds.                        *)
(***************************************************************************)
\* What a step that moves no measurement has to leave alone.
LEMMA SameChain ==
    ASSUME UNCHANGED <<sent, message, outQ, taken, inQ, number>>,
           trigger' = "send" <=> trigger = "send",
           analysis' = "work" <=> analysis = "work"
    PROVE  Published' = Published /\ Chain' = Chain
<1>1. /\ When(trigger = "send", message)' = When(trigger = "send", message)
      /\ When(analysis = "work", taken)' = When(analysis = "work", taken)
  BY DEF When
<1>2. Published' = Published
  BY <1>1 DEF Published
<1> QED
  BY <1>1, <1>2 DEF Chain

\* A step that also leaves Redis alone keeps both properties.
LEMMA SameOrder ==
    ASSUME PublishedInOrder, TriggerHasData, trigger # "done",
           Published' = Published, Chain' = Chain, UNCHANGED <<stored, lost, taken>>,
           analysis' = "store" <=> analysis = "store"
    PROVE  PublishedInOrder' /\ TriggerHasData'
<1>1. PublishedInOrder'
  BY DEF PublishedInOrder, Chain
<1>2. TriggerHasData'
  BY DEF TriggerHasData
<1> QED
  BY <1>1, <1>2

\* Reader: the next number goes to the end of the chain.
LEMMA PushStep ==
    ASSUME Inv, TypeOK', ReaderPush, trigger # "done"
    PROVE  PublishedInOrder' /\ TriggerHasData'
<1> DEFINE p == Published \o When(analysis = "work", taken)
<1>1. /\ TypeOK /\ PublishedInOrder /\ TriggerHasData
      /\ p \in Seq(Entries) /\ p # <<>> /\ number \in Entries /\ inQ \in Seq(Entries)
      /\ Chain = (p \o inQ) \o <<number>>
  BY ChainType DEF Inv, Chain
<1>2. /\ inQ' = Append(inQ, number) /\ number' = Succ(number)
      /\ UNCHANGED <<sent, message, outQ, taken, trigger, analysis, stored, lost>>
  BY DEF ReaderPush, InQ!Push, triggerVars, redisVars
<1>3. number' \in Entries
  BY DEF TypeOK, Entries
<1>4. Published' = Published /\ When(analysis = "work", taken)' = When(analysis = "work", taken)
  BY <1>2 DEF Published, When
<1>5. Chain' = (p \o Append(inQ, number)) \o <<number'>>
  BY <1>2, <1>4 DEF Chain
<1> HIDE DEF p
<1>6. Chain' = Append(Chain, number')
  BY <1>1, <1>3, <1>5
<1>7. Chain \in Seq(Entries) /\ Chain # <<>> /\ Chain[Len(Chain)] = number
  BY <1>1
<1>8. Consecutive(Chain)
  BY <1>1 DEF PublishedInOrder, Chain
<1>9. Consecutive(Chain')
  BY <1>2, <1>3, <1>6, <1>7, <1>8, ConsecutiveAppend
<1>10. TriggerHasData'
  BY <1>1, <1>2, <1>4 DEF TriggerHasData
<1> QED
  BY <1>9, <1>10 DEF PublishedInOrder, Chain

\* pop: a measurement passes from the queue to the analysis thread.
LEMMA PopStep ==
    ASSUME Inv, AnalysisPop, trigger # "done"
    PROVE  PublishedInOrder' /\ TriggerHasData'
<1>1. /\ TypeOK /\ PublishedInOrder /\ TriggerHasData
      /\ Published \in Seq(Entries) /\ inQ \in Seq(Entries)
  BY ChainType DEF Inv
<1>2. /\ inQ # <<>> /\ taken' = Head(inQ) /\ inQ' = Tail(inQ)
      /\ analysis = "pop" /\ analysis' = "work"
      /\ UNCHANGED <<sent, message, outQ, trigger, number, stored, lost>>
  BY DEF AnalysisPop, InQ!Pop, triggerVars, readerVars, redisVars
<1>3. Published' = Published
  BY <1>2 DEF Published, When
<1>4. (Published \o <<Head(inQ)>>) \o Tail(inQ) = (Published \o <<>>) \o inQ
  BY <1>1, <1>2
<1>5. /\ When(analysis = "work", taken) = <<>>
      /\ When(analysis = "work", taken)' = <<Head(inQ)>>
  BY <1>2 DEF When
<1>6. Chain' = Chain
  BY <1>2, <1>3, <1>4, <1>5 DEF Chain
<1>7. PublishedInOrder'
  BY <1>1, <1>6 DEF PublishedInOrder, Chain
<1>8. TriggerHasData'
  BY <1>1, <1>2, <1>3 DEF TriggerHasData
<1> QED
  BY <1>7, <1>8

\* initFilter: before anything is published a measurement is used up.
LEMMA InitStep ==
    ASSUME Inv, initFilter, trigger # "done"
    PROVE  PublishedInOrder' /\ TriggerHasData'
<1>1. /\ TypeOK /\ PublishedInOrder /\ TriggerHasData /\ taken \in Entries
      /\ inQ \in Seq(Entries) /\ number \in Entries /\ None \in Entries
  BY ChainType DEF Inv
<1>2. /\ analysis = "work" /\ analysis' = "top" /\ state # RUNNING
      /\ UNCHANGED <<sent, message, outQ, trigger, number, stored, lost, inQ, taken>>
  BY DEF initFilter, triggerVars, readerVars, redisVars, InitDownsampling, InitLowPass,
         INITIALIZING_DOWNSAMPLING_FILTER, INITIALIZING_LOWPASS_FILTER, RUNNING
<1>3. sent = None /\ outQ = <<>> /\ trigger # "send" /\ stored = None
  BY <1>2 DEF Inv, NothingYet
<1>4. Published = <<None>> /\ Published' = <<None>>
  <2>1. Published = (<<None>> \o <<>>) \o <<>>
    BY <1>3 DEF Published, When
  <2>2. Published' = Published
    BY <1>2 DEF Published, When
  <2> QED
    BY <1>1, <2>1, <2>2
<1>5. /\ When(analysis = "work", taken) = <<taken>>
      /\ When(analysis = "work", taken)' = <<>>
  BY <1>2 DEF When
<1> DEFINE q == inQ \o <<number>>
<1>6. Chain = ((<<None>> \o <<taken>>) \o inQ) \o <<number>>
  BY <1>4, <1>5 DEF Chain
<1>7. Chain' = ((<<None>> \o <<>>) \o inQ) \o <<number>>
  BY <1>2, <1>4, <1>5 DEF Chain
<1>8. /\ q \in Seq(Entries) /\ Chain = (<<None>> \o <<taken>>) \o q
      /\ Chain' = (<<None>> \o <<>>) \o q
  <2>1. q \in Seq(Entries)
    BY <1>1
  <2>2. ((<<None>> \o <<taken>>) \o inQ) \o <<number>> = (<<None>> \o <<taken>>) \o q
    BY <1>1, ConcatAssociative
  <2>3. ((<<None>> \o <<>>) \o inQ) \o <<number>> = (<<None>> \o <<>>) \o q
    BY <1>1, ConcatAssociative
  <2> QED
    BY <1>6, <1>7, <2>1, <2>2, <2>3
<1> HIDE DEF q
<1>9. Consecutive(Chain)
  BY <1>1 DEF PublishedInOrder, Chain
<1>10. Consecutive(Chain')
  BY <1>1, <1>8, <1>9, ConsecutiveDrop
<1>11. TriggerHasData'
  BY <1>1, <1>2, <1>3, <1>4 DEF TriggerHasData
<1> QED
  BY <1>10, <1>11 DEF PublishedInOrder, Chain

\* push: the analysed measurement is handed to the trigger thread.
LEMMA PublishStep ==
    ASSUME Inv, AnalysisPublish, trigger # "done"
    PROVE  PublishedInOrder' /\ TriggerHasData'
<1>1. /\ TypeOK /\ PublishedInOrder /\ TriggerHasData /\ taken \in Entries
      /\ inQ \in Seq(Entries) /\ number \in Entries /\ outQ \in Seq(Entries)
      /\ Published \in Seq(Entries) /\ Published # <<>>
  BY ChainType DEF Inv
<1>2. /\ analysis = "work" /\ analysis' = "store" /\ outQ' = Append(outQ, taken)
      /\ UNCHANGED <<sent, message, trigger, number, stored, lost, inQ, taken>>
  BY DEF AnalysisPublish, OutQ!Push, readerVars, redisVars
<1>3. Published' = Published \o <<taken>>
  <2> DEFINE a == <<sent>> \o When(trigger = "send", message)
  <2>1. a \in Seq(Entries)
    <3>1. sent \in Entries /\ message \in Entries
      BY <1>1, ChainType
    <3> QED
      BY <3>1 DEF When
  <2>2. When(trigger = "send", message)' = When(trigger = "send", message)
    BY <1>2 DEF When
  <2>3. Published = a \o outQ /\ Published' = a \o Append(outQ, taken)
    BY <1>2, <2>2 DEF Published
  <2> HIDE DEF a
  <2>4. taken \in Entries /\ outQ \in Seq(Entries)
    BY <1>1
  <2>5. a \o Append(outQ, taken) = (a \o outQ) \o <<taken>>
    BY <2>1, <2>4
  <2> QED
    BY <2>3, <2>5
<1>4. /\ When(analysis = "work", taken) = <<taken>>
      /\ When(analysis = "work", taken)' = <<>>
  BY <1>2 DEF When
<1>5. (Published \o <<taken>>) \o <<>> = Published \o <<taken>>
  BY <1>1
<1>6. Chain' = Chain
  BY <1>2, <1>3, <1>4, <1>5 DEF Chain
<1>7. Consecutive(Chain)
  BY <1>1 DEF PublishedInOrder, Chain
<1>8. PublishedInOrder'
  BY <1>6, <1>7 DEF PublishedInOrder, Chain
<1>9. ~lost => Published[Len(Published)] = stored
  BY <1>1, <1>2 DEF TriggerHasData
<1>10. ~lost /\ stored # None => taken = Succ(stored)
  <2>1. Chain = (Published \o <<taken>>) \o (inQ \o <<number>>)
    <3>1. Chain = ((Published \o <<taken>>) \o inQ) \o <<number>>
      BY <1>4 DEF Chain
    <3> QED
      BY <1>1, <3>1, ConcatAssociative
  <2>2. inQ \o <<number>> \in Seq(Entries)
    BY <1>1
  <2> QED
    BY <1>1, <1>7, <1>9, <2>1, <2>2, ConsecutiveJoint
<1>11. Published'[Len(Published')] = taken
  BY <1>1, <1>3
<1>12. TriggerHasData'
  BY <1>2, <1>10, <1>11 DEF TriggerHasData
<1> QED
  BY <1>8, <1>12

\* pop: an analysis passes from the queue to the trigger thread.
LEMMA TriggerPopStep ==
    ASSUME Inv, TriggerPop
    PROVE  PublishedInOrder' /\ TriggerHasData'
<1>1. /\ TypeOK /\ PublishedInOrder /\ TriggerHasData /\ outQ \in Seq(Entries)
      /\ sent \in Entries
  BY ChainType DEF Inv
<1>2. /\ trigger = "pop" /\ trigger' = "send"
      /\ outQ # <<>> /\ message' = Head(outQ) /\ outQ' = Tail(outQ)
      /\ UNCHANGED <<sent, analysis, number, stored, lost, inQ, taken>>
  BY DEF TriggerPop, OutQ!Pop, readerVars, redisVars
<1>3. Published' = Published
  <2>1. Published = (<<sent>> \o <<>>) \o outQ
    BY <1>2 DEF Published, When
  <2>2. Published' = (<<sent>> \o <<Head(outQ)>>) \o Tail(outQ)
    BY <1>2 DEF Published, When
  <2> QED
    BY <1>1, <1>2, <2>1, <2>2
<1>4. Chain' = Chain
  BY <1>2, <1>3 DEF Chain, When
<1> QED
  BY <1>1, <1>2, <1>3, <1>4, SameOrder

\* send: the first entry of the chain is replaced by the second.
LEMMA SendStep ==
    ASSUME Inv, sendToZMQ
    PROVE  PublishedInOrder' /\ TriggerHasData'
<1> DEFINE w == When(analysis = "work", taken)
<1>1. /\ TypeOK /\ PublishedInOrder /\ TriggerHasData /\ outQ \in Seq(Entries)
      /\ sent \in Entries /\ message \in Entries /\ inQ \in Seq(Entries)
      /\ number \in Entries /\ w \in Seq(Entries)
      /\ Published \in Seq(Entries) /\ Published # <<>>
  BY ChainType DEF Inv
<1>2. /\ trigger = "send" /\ trigger' = "top" /\ sent' = message
      /\ UNCHANGED <<message, outQ, analysis, number, stored, lost, inQ, taken>>
  BY DEF sendToZMQ, readerVars, redisVars
<1>3. Published = (<<sent>> \o <<message>>) \o outQ
  BY <1>2 DEF Published, When
<1>4. Published' = (<<message>> \o <<>>) \o outQ
  BY <1>2 DEF Published, When
<1>5. Published' = Tail(Published)
  BY <1>1, <1>3, <1>4
<1>6. Len(Published) >= 2
  BY <1>1, <1>3
<1>7. Chain = ((Published \o w) \o inQ) \o <<number>>
  BY DEF Chain
<1>8. Chain' = ((Tail(Published) \o w) \o inQ) \o <<number>>
  BY <1>2, <1>5 DEF Chain, When
<1> HIDE DEF w
<1>9. Chain' = Tail(Chain) /\ Chain \in Seq(Entries) /\ Chain # <<>>
  <2> DEFINE r == (w \o inQ) \o <<number>>
  <2>1. r \in Seq(Entries) /\ Tail(Published) \in Seq(Entries)
    BY <1>1
  <2>2. Chain = Published \o r
    BY <1>1, <1>7, <2>1
  <2>3. Chain' = Tail(Published) \o r
    BY <1>1, <1>8, <2>1
  <2> HIDE DEF r
  <2> QED
    BY <1>1, <2>1, <2>2, <2>3
<1>10. Consecutive(Chain)
  BY <1>1, <1>2 DEF PublishedInOrder, Chain
<1>11. Consecutive(Chain')
  BY <1>9, <1>10, ConsecutiveTail
<1>12. Published'[Len(Published')] = Published[Len(Published)]
  BY <1>1, <1>5, <1>6
<1>13. TriggerHasData'
  BY <1>1, <1>2, <1>12 DEF TriggerHasData
<1> QED
  BY <1>11, <1>13 DEF PublishedInOrder, Chain

\* Every step keeps the order and what Redis holds, as far as it is known.
LEMMA OrderStep ==
    ASSUME Inv, TypeOK', [Next]_vars
    PROVE  PublishedInOrder' /\ TriggerHasData'
<1>1. CASE trigger' = "done"
  BY <1>1 DEF PublishedInOrder, TriggerHasData
<1>2. CASE trigger' # "done"
  <2> USE DEF mainVars, readerVars, triggerVars, redisVars
  <2>1. TypeOK /\ Startup /\ NothingYet /\ PublishedInOrder /\ TriggerHasData
    BY DEF Inv
  <2>2. trigger # "done"
    <3> SUFFICES ASSUME trigger = "done" PROVE FALSE
      OBVIOUS
    <3>1. ~MainStart
      BY <1>2, <2>1 DEF MainStart, Startup, StartOrder, TypeOK
    <3>2. trigger' = trigger
      BY <3>1 DEF Next, MainNext, ReaderNext, AnalysisLoop, TriggerNext,
        MainConstructFails, ReaderReadFails, RedisFlushFails, RedisStoreFails,
        ZmqConnectFails, Exit, MainConstruct, MainInstall, SigInt, MainWake, MainStop,
        MainJoin, ReaderTop, ReaderRead, ReaderPush, RedisConnect, RedisFlush, AnalysisTop,
        AnalysisPop, initFilter, AnalysisPublish, RedisStore, RedisLost, ZmqConnect, TriggerTop,
        TriggerPop, sendToZMQ, vars
    <3> QED
      BY <1>2, <3>2
  <2> DEFINE Quiet ==
        /\ UNCHANGED <<sent, message, outQ, taken, inQ, number, stored, lost>>
        /\ trigger' = "send" <=> trigger = "send"
        /\ analysis' = "work" <=> analysis = "work"
        /\ analysis' = "store" <=> analysis = "store"
  <2>3. CASE Quiet
    BY <2>1, <2>2, <2>3, SameChain, SameOrder
  <2>4. CASE \E how \in {"exited", "returned"} : Exit(how)
    BY <2>3, <2>4 DEF Exit
  <2>5. CASE MainConstruct \/ MainInstall \/ MainWake \/ SigInt \/ MainStop \/ MainJoin
    <3>1. Quiet
      BY <2>5 DEF MainConstruct, MainInstall, MainWake, SigInt, MainStop, MainJoin
    <3> QED
      BY <2>3, <3>1
  <2>6. CASE MainStart
    <3>1. slab \in {1, 2, 3} /\ analysis = "new" /\ (slab = 1 => trigger = "new")
      BY <2>1, <2>6 DEF MainStart, Startup, TypeOK
    <3>2. Quiet
      BY <2>6, <3>1 DEF MainStart, StartOrder
    <3> QED
      BY <2>3, <3>2
  <2>7. CASE ReaderTop \/ ReaderRead
    <3>1. Quiet
      BY <2>7 DEF ReaderTop, ReaderRead
    <3> QED
      BY <2>3, <3>1
  <2>8. CASE RedisConnect \/ RedisFlush \/ AnalysisTop
    <3>1. Quiet
      BY <2>1, <2>8 DEF RedisConnect, RedisFlush, AnalysisTop, NothingYet
    <3> QED
      BY <2>3, <3>1
  <2>9. CASE ZmqConnect \/ TriggerTop
    <3>1. Quiet
      BY <2>9 DEF ZmqConnect, TriggerTop
    <3> QED
      BY <2>3, <3>1
  <2>10. CASE RedisStore
    <3>1. /\ UNCHANGED <<sent, message, outQ, taken, inQ, number, trigger>>
          /\ analysis = "store" /\ analysis' = "top" /\ stored' = taken
      BY <2>10 DEF RedisStore
    <3>2. Published' = Published /\ Chain' = Chain
      BY <3>1, SameChain
    <3>3. PublishedInOrder'
      BY <2>1, <2>2, <3>2 DEF PublishedInOrder, Chain
    <3>4. lost = FALSE
      BY <2>1, <2>10 DEF RedisStore, TypeOK
    <3>5. TriggerHasData'
      BY <2>1, <2>2, <3>1, <3>2, <3>4 DEF TriggerHasData
    <3> QED
      BY <3>3, <3>5
  <2>11. CASE RedisLost
    <3>1. /\ UNCHANGED <<sent, message, outQ, taken, inQ, number, trigger>>
          /\ analysis = "store" /\ analysis' \in {"store", "top"} /\ lost' = TRUE
      BY <2>11 DEF RedisLost
    <3>2. Chain' = Chain
      BY <3>1, SameChain
    <3>3. PublishedInOrder'
      BY <2>1, <2>2, <3>2 DEF PublishedInOrder, Chain
    <3>4. TriggerHasData'
      BY <3>1 DEF TriggerHasData
    <3> QED
      BY <3>3, <3>4
  <2>12. CASE UNCHANGED vars
    BY <2>3, <2>12 DEF vars
  <2> HIDE DEF Quiet
  <2> QED
    BY <2>2, <2>4, <2>5, <2>6, <2>7, <2>8, <2>9, <2>10, <2>11, <2>12, PushStep, PopStep, InitStep,
       PublishStep, TriggerPopStep, SendStep
    DEF Next, MainNext, ReaderNext, AnalysisLoop, TriggerNext, MainConstructFails,
        ReaderReadFails, RedisFlushFails, RedisStoreFails, ZmqConnectFails
<1> QED
  BY <1>1, <1>2

-----------------------------------------------------------------------------
(***************************************************************************)
(* Inv is an invariant of the daemon, for every frames_per_measurement,    *)
(* with and without failing devices and services, and whenever SIGINT      *)
(* comes.                                                                  *)
(***************************************************************************)
THEOREM PipelineInvariant == Spec => []Inv
<1>1. Inv /\ [Next]_vars => Inv'
  BY TypeStep, StartStep, WarmStep, OrderStep DEF Inv
<1> QED
  BY InvInit, <1>1, PTL DEF Spec

(***************************************************************************)
(* The daemon stays well typed: the sample counter is a uint32_t whatever  *)
(* it started with, and no measurement gets more frames than the setting.  *)
(***************************************************************************)
THEOREM PipelineTyped == Spec => []TypeOK
<1>1. Inv => TypeOK
  BY DEF Inv
<1> QED
  BY <1>1, PipelineInvariant, PTL

(***************************************************************************)
(* Each measurement is published once and in order from the first          *)
(* analysis on, however the four threads interleave.                       *)
(***************************************************************************)
THEOREM OrderCorrect == Spec => []PublishedInOrder
<1>1. Inv => PublishedInOrder
  BY DEF Inv
<1> QED
  BY <1>1, PipelineInvariant, PTL

(***************************************************************************)
(* Until the connection is lost, Redis lags what was handed to the trigger *)
(* thread by at most the one measurement the analysis thread is storing.   *)
(***************************************************************************)
THEOREM DataCorrect == Spec => []TriggerHasData
<1>1. Inv => TriggerHasData
  BY DEF Inv
<1> QED
  BY <1>1, PipelineInvariant, PTL

(***************************************************************************)
(* Both filters are full before anything is computed with them, provided a *)
(* measurement has at least four frames: the code leaves the low pass      *)
(* state after one measurement, whose 20 samples a frame have to fill 64   *)
(* taps.                                                                   *)
(***************************************************************************)
THEOREM WarmCorrect ==
    ASSUME FramesPerMeasurement >= 4
    PROVE  Spec => []FiltersWarm
<1>1. Inv => FiltersWarm
  <2> SUFFICES ASSUME Inv, state = RUNNING
               PROVE  /\ adf = ANTIALIASDOWNSAMPLINGFILTER_TAP_NUM
                      /\ lpf = LOWPASSFILTER_TAP_NUM
    BY DEF FiltersWarm
  <2>1. adf = ANTIALIASDOWNSAMPLINGFILTER_TAP_NUM
    BY DEF Inv, Warming, RUNNING, INITIALIZING_DOWNSAMPLING_FILTER
  <2>2. lpf \in 0 .. 64 /\ lpf >= Fill(20 * FramesPerMeasurement, 64)
    BY DEF Inv, Warming, TypeOK, LOWPASSFILTER_TAP_NUM
  <2> QED
    BY <2>1, <2>2, FramesAssumption DEF Fill, LOWPASSFILTER_TAP_NUM
<1> QED
  BY <1>1, PipelineInvariant, PTL

=============================================================================
