--------------------------- MODULE LocalAnalysis ---------------------------
(***************************************************************************)
(* What the analysis thread computes (LocalAnalysis::initFilter and loop): *)
(* every sample goes into the antialiasing filter, every DECIMATION_FACTOR *)
(* -th sample of a frame takes its output into the low pass filter, whose  *)
(* output is searched for zero crossings.  The first measurement fills the *)
(* one filter, a second the other, and then results count.                 *)
(* Of a filtered value only the sign is kept.  TriggeringPipeline models   *)
(* the thread around this.                                                 *)
(***************************************************************************)
EXTENDS Integers, Sequences

CONSTANTS
    SAMPLES_PER_CYCLE,      \* 200 in the code
    DECIMATION_FACTOR,      \* 10
    FramesPerMeasurement,   \* the setting frames_per_measurement (10)
    AdfTaps, LpfTaps,       \* ANTIALIASDOWNSAMPLINGFILTER_TAP_NUM, LOWPASSFILTER_TAP_NUM
    UINT_RANGE,             \* values of an unsigned int and a uint32_t
    Uninitialized,          \* values _samplesProcessed may start with
    MaxMeasurements         \* bound: measurements analysed

Samples == FramesPerMeasurement * SAMPLES_PER_CYCLE

VARIABLES
    adfHistory, adfIndex, adfInputs,
    lpfHistory, lpfIndex, lpfInputs,
    state, samplesProcessed,        \* LocalAnalysisState, of initFilter
    sample,         \* samples of the measurement that went in
    downSampled,    \* signs of the filtered values
    zeroCrossings,  \* of the last measurement analysed
    signal,         \* history: the downSampled they were found in
    measurement,    \* history: measurements so far
    takenAt         \* history: adfInputs when the low pass last got a value

Adf == INSTANCE FirFilter WITH
    TAP_NUM <- AdfTaps, history <- adfHistory, last_index <- adfIndex, inputs <- adfInputs
Lpf == INSTANCE FirFilter WITH
    TAP_NUM <- LpfTaps, history <- lpfHistory, last_index <- lpfIndex, inputs <- lpfInputs

ASSUME FilterAssumption == Adf!FilterAssumption /\ Lpf!FilterAssumption
\* One measurement fills each filter, as ten frames do.
ASSUME SizesAssumption ==
    /\ SAMPLES_PER_CYCLE \in Nat \ {0} /\ DECIMATION_FACTOR \in Nat \ {0}
    /\ FramesPerMeasurement \in Nat /\ MaxMeasurements \in Nat
    /\ SAMPLES_PER_CYCLE % DECIMATION_FACTOR = 0
    /\ Uninitialized \subseteq 0 .. UINT_RANGE - 1
    /\ Samples > AdfTaps /\ Samples \div DECIMATION_FACTOR >= LpfTaps

adfVars    == <<adfHistory, adfIndex, adfInputs>>
lpfVars    == <<lpfHistory, lpfIndex, lpfInputs>>
resultVars == <<zeroCrossings, signal>>
vars == <<adfVars, lpfVars, state, samplesProcessed, sample, downSampled,
          resultVars, measurement, takenAt>>

Init ==
    /\ Adf!Init /\ Lpf!Init
    /\ state = "INITIALIZING_DOWNSAMPLING_FILTER"
    /\ samplesProcessed \in Uninitialized
    /\ sample = 0 /\ measurement = 0
    /\ downSampled = <<>> /\ zeroCrossings = {} /\ signal = <<>>
    /\ takenAt = 0

-----------------------------------------------------------------------------
\* Mutant: decimation counts one more.
MDecimate == (sample % SAMPLES_PER_CYCLE) % (DECIMATION_FACTOR + 1) = 0

\* Is the current sample one of its frame's that are passed on?
Decimate == (sample % SAMPLES_PER_CYCLE) % DECIMATION_FACTOR = 0

\* The first filter's output goes into the second, whose output, of any sign, is
\* a result once both are filled.
LowPass ==
    /\ Lpf!Put
    /\ takenAt' = adfInputs + 1
    /\ \/ state = "RUNNING" /\ \E x \in {-1, 0, 1} : downSampled' = Append(downSampled, x)
       \/ state # "RUNNING" /\ UNCHANGED downSampled

\* initFilter counts what the filter it fills has got.
CountIf(filling) ==
    samplesProcessed' = IF filling THEN (samplesProcessed + 1) % UINT_RANGE ELSE samplesProcessed

\* One turn of the loop over the samples of a measurement.
Sample ==
    /\ measurement < MaxMeasurements
    /\ sample < Samples
    /\ sample' = sample + 1
    /\ Adf!Put
    /\ \/ /\ state # "INITIALIZING_DOWNSAMPLING_FILTER" /\ Decimate
          /\ LowPass
          /\ CountIf(state = "INITIALIZING_LOWPASS_FILTER")
       \/ /\ state = "INITIALIZING_DOWNSAMPLING_FILTER" \/ ~Decimate
          /\ CountIf(state = "INITIALIZING_DOWNSAMPLING_FILTER")
          /\ UNCHANGED <<lpfVars, takenAt, downSampled>>
    /\ UNCHANGED <<state, resultVars, measurement>>

\* Mutant: a value no sample can have.
MFP_NAN == -9

\* An enumerator of math.h, and not a NaN: the C library numbers it 0.
FP_NAN == 0

\* The loop over _downSampled; last is the value before, FP_NAN at the start.
CrossingsOf(s) ==
    {i \in 1 .. Len(s) :
        LET last == IF i = 1 THEN FP_NAN ELSE s[i - 1] IN
        last # FP_NAN /\ ((last <= 0 /\ s[i] > 0) \/ (last < 0 /\ s[i] >= 0))}

\* Mutant: the low pass filter is not initialised.
MNextState == "RUNNING"

\* The end of initFilter.  The count may have wrapped around from where it
\* started, and in the second state is compared with the enumerator of that
\* state, 1, and not with the taps.
NextState ==
    CASE state = "INITIALIZING_DOWNSAMPLING_FILTER" /\ samplesProcessed > AdfTaps
            -> "INITIALIZING_LOWPASS_FILTER"
      [] state = "INITIALIZING_LOWPASS_FILTER" /\ samplesProcessed > 1
            -> "RUNNING"
      [] OTHER -> state

\* The end of a measurement.  The next one clears _downSampled.
Finish ==
    /\ sample = Samples
    /\ sample' = 0
    /\ measurement' = measurement + 1
    /\ state' = NextState
    /\ samplesProcessed' = IF state' # state THEN 0 ELSE samplesProcessed
    /\ downSampled' = <<>>
    /\ signal' = downSampled
    /\ zeroCrossings' = CrossingsOf(downSampled)
    /\ UNCHANGED <<adfVars, lpfVars, takenAt>>

Next == Sample \/ Finish

Spec == Init /\ [][Next]_vars

-----------------------------------------------------------------------------
(***************************************************************************)
(* Correctness.                                                            *)
(***************************************************************************)
(***************************************************************************)
(* Both filters weigh each of their last inputs by exactly one tap, the    *)
(* same by age however often the masked counters wrapped around.           *)
(***************************************************************************)
EachInputOneTap == Adf!WeighsLast /\ Lpf!WeighsLast

(***************************************************************************)
(* No result is computed from the zeros a filter started with: the low     *)
(* pass is fed only by a full antialiasing filter, and read only when it   *)
(* is full of such values itself.                                          *)
(***************************************************************************)
NoInitialZeros ==
    /\ lpfInputs > 0 => \A i \in 0 .. AdfTaps - 1 : Adf!Tap(i) > 0
    /\ downSampled # <<>> => \A i \in 0 .. LpfTaps - 1 : Lpf!Tap(i) > 0

(***************************************************************************)
(* The low pass filter gets equally spaced values: DECIMATION_FACTOR       *)
(* samples apart, also from one frame and from one measurement to the      *)
(* next.                                                                   *)
(***************************************************************************)
EvenlySpaced ==
    [][(lpfInputs' # lpfInputs /\ lpfInputs > 0) => takenAt' = takenAt + DECIMATION_FACTOR]_vars

(***************************************************************************)
(* The crossings are the rises of the signal.  Each is a value that is not *)
(* negative after one that is, and the signal does not get from negative   *)
(* to non-negative without one.  A value of exactly zero makes neither two *)
(* nor none, which the comparison with FP_NAN sees to by accident.         *)
(***************************************************************************)
OneCrossingPerRise ==
    /\ \A i \in zeroCrossings :
        i \in 2 .. Len(signal) /\ signal[i - 1] < 0 /\ signal[i] >= 0
    /\ \A i, j \in 1 .. Len(signal) :
        i < j /\ signal[i] < 0 /\ signal[j] >= 0
            => \E k \in i + 1 .. j : k \in zeroCrossings

=============================================================================
