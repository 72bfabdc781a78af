------------------------ MODULE LocalAnalysisProofs ------------------------
(***************************************************************************)
(* Proofs about LocalAnalysis: the filters never weigh a zero of their     *)
(* start in a result, the decimation is even across frames and             *)
(* measurements, and the crossings are the rises of the signal.  What the  *)
(* two filters keep is FirFilterProofs', used once for each of them.       *)
(***************************************************************************)
EXTENDS LocalAnalysis, WellFoundedInduction, TLAPS

AdfP == INSTANCE FirFilterProofs WITH
    TAP_NUM <- AdfTaps, history <- adfHistory, last_index <- adfIndex, inputs <- adfInputs
LpfP == INSTANCE FirFilterProofs WITH
    TAP_NUM <- LpfTaps, history <- lpfHistory, last_index <- lpfIndex, inputs <- lpfInputs

-----------------------------------------------------------------------------
(***************************************************************************)
(* The inductive invariant.                                                *)
(***************************************************************************)
States == {"INITIALIZING_DOWNSAMPLING_FILTER", "INITIALIZING_LOWPASS_FILTER", "RUNNING"}
Signs  == {-1, 0, 1}

Types ==
    /\ state \in States
    /\ sample \in 0 .. Samples
    /\ takenAt \in Nat
    /\ downSampled \in Seq(Signs) /\ signal \in Seq(Signs)

\* How far each state has filled the filters: the first measurement fills the
\* antialiasing filter and leaves the other empty, the second puts one in
\* DECIMATION_FACTOR samples into the other.
Filled ==
    /\ state = "INITIALIZING_DOWNSAMPLING_FILTER" => lpfInputs = 0 /\ adfInputs >= sample
    /\ state # "INITIALIZING_DOWNSAMPLING_FILTER" => adfInputs >= AdfTaps
    /\ state = "INITIALIZING_LOWPASS_FILTER" => DECIMATION_FACTOR * lpfInputs >= sample
    /\ state = "RUNNING" => lpfInputs >= LpfTaps
    /\ downSampled # <<>> => state = "RUNNING"

\* How long ago the low pass filter got a value; -1 has a remainder too, so this
\* holds across the end of a measurement.
Spaced ==
    lpfInputs > 0 => takenAt = adfInputs - ((sample - 1) % DECIMATION_FACTOR)

Inv ==
    /\ AdfP!FilterInv /\ LpfP!FilterInv
    /\ Types /\ Filled /\ Spaced
    /\ zeroCrossings = CrossingsOf(signal)

-----------------------------------------------------------------------------
(***************************************************************************)
(* Arithmetic.                                                             *)
(***************************************************************************)
\* What the assumptions say, one fact at a time.
LEMMA Sizes ==
    /\ SAMPLES_PER_CYCLE \in Nat \ {0} /\ DECIMATION_FACTOR \in Nat \ {0}
    /\ (SAMPLES_PER_CYCLE % DECIMATION_FACTOR) = 0
    /\ FramesPerMeasurement \in Nat /\ Samples \in Nat
    /\ AdfTaps \in Nat \ {0} /\ LpfTaps \in Nat \ {0}
    /\ Samples > AdfTaps
BY SizesAssumption, FilterAssumption
   DEF Samples, Adf!FilterAssumption, Lpf!FilterAssumption

\* A measurement is a whole number of decimated values, as many as the low pass
\* filter has taps or more.
LEMMA WholeMeasurement ==
    \E n \in Nat : Samples = DECIMATION_FACTOR * n /\ n >= LpfTaps
<1>1. PICK k \in Int : SAMPLES_PER_CYCLE = DECIMATION_FACTOR * k
  <2>1. /\ SAMPLES_PER_CYCLE \in Int /\ DECIMATION_FACTOR \in Nat \ {0}
        /\ (SAMPLES_PER_CYCLE % DECIMATION_FACTOR) = 0
    BY Sizes
  <2>2. PICK q \in Int : SAMPLES_PER_CYCLE
            = DECIMATION_FACTOR * q + (SAMPLES_PER_CYCLE % DECIMATION_FACTOR)
    BY <2>1, AdfP!Division, Zenon
  <2>3. SAMPLES_PER_CYCLE = DECIMATION_FACTOR * q
    <3> DEFINE p == DECIMATION_FACTOR * q
    <3>1. p \in Int
      BY <2>1, <2>2
    <3>2. SAMPLES_PER_CYCLE = p + 0
      BY <2>1, <2>2
    <3> HIDE DEF p
    <3>3. SAMPLES_PER_CYCLE = p
      BY <3>1, <3>2
    <3> QED
      BY <3>3 DEF p
  <2> QED
    BY <2>2, <2>3
<1> DEFINE n == FramesPerMeasurement * k
<1>2. n \in Int
  BY <1>1, Sizes
<1>3. Samples = DECIMATION_FACTOR * n
  <2>1. Samples = FramesPerMeasurement * (DECIMATION_FACTOR * k)
    BY <1>1, Sizes DEF Samples
  <2> QED
    BY <2>1, <1>1, Sizes
<1> HIDE DEF n
<1>4. Samples \div DECIMATION_FACTOR = n
  BY <1>2, <1>3, Sizes
<1>5. n >= LpfTaps
  BY <1>4, SizesAssumption
<1> QED
  BY <1>2, <1>3, <1>5, Sizes

\* The samples of a frame that are passed on are those of the measurement.
LEMMA DecimateByMeasurement ==
    ASSUME sample \in Nat
    PROVE  Decimate <=> (sample % DECIMATION_FACTOR) = 0
<1>1. ((sample % SAMPLES_PER_CYCLE) % DECIMATION_FACTOR) = (sample % DECIMATION_FACTOR)
  <2>1. sample \in Int
    OBVIOUS
  <2>2. /\ SAMPLES_PER_CYCLE \in Nat \ {0} /\ DECIMATION_FACTOR \in Nat \ {0}
        /\ (SAMPLES_PER_CYCLE % DECIMATION_FACTOR) = 0
    BY Sizes
  <2> QED
    BY <2>1, <2>2, AdfP!RemainderOfRemainder, Zenon
<1> QED
  BY <1>1 DEF Decimate

\* The remainder of the sample before.
LEMMA Before ==
    ASSUME NEW s \in Nat
    PROVE  /\ ((s - 1) % DECIMATION_FACTOR) \in 0 .. DECIMATION_FACTOR - 1
           /\ (s % DECIMATION_FACTOR) = 0
                => ((s - 1) % DECIMATION_FACTOR) = DECIMATION_FACTOR - 1
           /\ (s % DECIMATION_FACTOR) # 0
                => (s % DECIMATION_FACTOR) = ((s - 1) % DECIMATION_FACTOR) + 1
<1> DEFINE a == s - 1
<1>1. a \in Int /\ a + 1 = s
  OBVIOUS
<1> HIDE DEF a
<1>2. (a % DECIMATION_FACTOR) \in 0 .. DECIMATION_FACTOR - 1
  BY <1>1, Sizes, AdfP!Division
<1>3. ((a + 1) % DECIMATION_FACTOR)
        = IF (a % DECIMATION_FACTOR) + 1 = DECIMATION_FACTOR THEN 0
          ELSE (a % DECIMATION_FACTOR) + 1
  BY <1>1, Sizes, AdfP!NextRemainder
<1>4. (s % DECIMATION_FACTOR)
        = IF (a % DECIMATION_FACTOR) + 1 = DECIMATION_FACTOR THEN 0
          ELSE (a % DECIMATION_FACTOR) + 1
  BY <1>1, <1>3
<1>5. (s % DECIMATION_FACTOR) = 0 => (a % DECIMATION_FACTOR) = DECIMATION_FACTOR - 1
  BY <1>2, <1>4, Sizes
<1>6. (s % DECIMATION_FACTOR) # 0 => (s % DECIMATION_FACTOR) = (a % DECIMATION_FACTOR) + 1
  BY <1>2, <1>4, Sizes
<1> QED
  BY <1>2, <1>5, <1>6 DEF a

\* A sample that is not passed on is not a multiple of the factor.
LEMMA NoMultiple ==
    ASSUME NEW s \in Nat, NEW n \in Nat, (s % DECIMATION_FACTOR) # 0
    PROVE  s # DECIMATION_FACTOR * n
<1>1. SUFFICES ASSUME s = DECIMATION_FACTOR * n PROVE FALSE
  OBVIOUS
<1>2. s = DECIMATION_FACTOR * n + 0 /\ 0 \in 0 .. DECIMATION_FACTOR - 1
  BY <1>1, Sizes
<1>3. (s % DECIMATION_FACTOR) = 0
  BY <1>2, Sizes, AdfP!Remainder
<1> QED
  BY <1>3

\* Products grow with their factor.
LEMMA Grows ==
    ASSUME NEW d \in Nat \ {0}, NEW m \in Nat, NEW n \in Nat, d * m >= d * n
    PROVE  m >= n
<1>1. SUFFICES ASSUME m + 1 <= n PROVE FALSE
  OBVIOUS
<1>2. PICK k \in Nat : n = m + 1 + k
  <2>1. n - m - 1 \in Nat /\ n = m + 1 + (n - m - 1)
    BY <1>1
  <2> QED
    BY <2>1
<1>3. d * n = d * m + d + d * k
  BY <1>2
<1>4. d * k \in Nat /\ d * m \in Nat
  BY <1>2
<1> QED
  BY <1>3, <1>4

-----------------------------------------------------------------------------
(***************************************************************************)
(* The filters, as LocalAnalysis and as FirFilterProofs name them.         *)
(***************************************************************************)
\* The assumptions on the filters' constants.
LEMMA FilterSizes == AdfP!FilterAssumption /\ LpfP!FilterAssumption
BY FilterAssumption DEF AdfP!FilterAssumption, LpfP!FilterAssumption,
   Adf!FilterAssumption, Lpf!FilterAssumption

\* Both are empty at first.
LEMMA FiltersInit ==
    ASSUME Init
    PROVE  AdfP!FilterInv /\ LpfP!FilterInv
<1>1. AdfP!Init /\ LpfP!Init
  BY DEF Init, Adf!Init, AdfP!Init, Adf!Slots, AdfP!Slots,
     Lpf!Init, LpfP!Init, Lpf!Slots, LpfP!Slots
<1> QED
  BY <1>1, FilterSizes, AdfP!FilterInit, LpfP!FilterInit

\* A step puts an input into a filter or leaves it alone.
LEMMA AdfStep ==
    ASSUME AdfP!FilterInv, Adf!Put \/ UNCHANGED adfVars
    PROVE  AdfP!FilterInv'
<1>1. AdfP!Put \/ UNCHANGED AdfP!filterVars
  BY DEF Adf!Put, AdfP!Put, Adf!NextIndex, AdfP!NextIndex, AdfP!filterVars, adfVars
<1> QED
  BY <1>1, FilterSizes, AdfP!FilterPut, AdfP!FilterRest

\* The same of the low pass filter.
LEMMA LpfStep ==
    ASSUME LpfP!FilterInv, Lpf!Put \/ UNCHANGED lpfVars
    PROVE  LpfP!FilterInv'
<1>1. LpfP!Put \/ UNCHANGED LpfP!filterVars
  BY DEF Lpf!Put, LpfP!Put, Lpf!NextIndex, LpfP!NextIndex, LpfP!filterVars, lpfVars
<1> QED
  BY <1>1, FilterSizes, LpfP!FilterPut, LpfP!FilterRest

-----------------------------------------------------------------------------
(***************************************************************************)
(* The invariant holds at first and is kept by every action.               *)
(***************************************************************************)
\* Nothing has been analysed.
LEMMA InitInv ==
    ASSUME Init
    PROVE  Inv
<1>1. AdfP!FilterInv /\ LpfP!FilterInv
  BY FiltersInit
<1>2. /\ adfInputs = 0 /\ lpfInputs = 0
      /\ state = "INITIALIZING_DOWNSAMPLING_FILTER" /\ sample = 0 /\ takenAt = 0
      /\ downSampled = <<>> /\ zeroCrossings = {} /\ signal = <<>>
  BY DEF Init, Adf!Init, Lpf!Init
<1>3. Types /\ Filled /\ Spaced
  BY <1>2, Sizes DEF Types, Filled, Spaced, States
<1>4. zeroCrossings = CrossingsOf(signal)
  BY <1>2 DEF CrossingsOf
<1> QED
  BY <1>1, <1>3, <1>4 DEF Inv

\* A sample that feeds only the antialiasing filter.
LEMMA SampleAlone ==
    ASSUME Inv, sample < Samples, sample' = sample + 1, Adf!Put,
           state = "INITIALIZING_DOWNSAMPLING_FILTER" \/ ~Decimate,
           UNCHANGED <<lpfVars, takenAt, downSampled>>,
           UNCHANGED <<state, resultVars, measurement>>
    PROVE  Inv'
<1>1. AdfP!FilterInv' /\ LpfP!FilterInv'
  BY AdfStep, LpfStep DEF Inv, lpfVars
<1>2. /\ adfInputs' = adfInputs + 1 /\ lpfInputs' = lpfInputs
      /\ takenAt' = takenAt /\ downSampled' = downSampled /\ state' = state
      /\ signal' = signal /\ zeroCrossings' = zeroCrossings
  BY DEF Adf!Put, lpfVars, resultVars
<1>3. adfInputs \in Nat /\ lpfInputs \in Nat
  BY DEF Inv, AdfP!FilterInv, LpfP!FilterInv
<1>4. sample \in Nat /\ Samples \in Nat /\ takenAt \in Nat /\ DECIMATION_FACTOR \in Nat \ {0}
  BY Sizes DEF Inv, Types
<1>5. Types'
  BY <1>2, <1>4 DEF Inv, Types
<1>6. Filled'
  <2>1. Filled
    BY DEF Inv
  <2>2. ASSUME state = "INITIALIZING_LOWPASS_FILTER"
        PROVE  DECIMATION_FACTOR * lpfInputs >= sample + 1
    <3>1. (sample % DECIMATION_FACTOR) # 0
      BY <1>4, <2>2, DecimateByMeasurement
    <3>2. sample # DECIMATION_FACTOR * lpfInputs
      BY <1>3, <1>4, <3>1, NoMultiple
    <3>3. DECIMATION_FACTOR * lpfInputs >= sample /\ DECIMATION_FACTOR * lpfInputs \in Nat
      BY <1>3, <1>4, <2>1, <2>2 DEF Filled
    <3> QED
      BY <1>4, <3>2, <3>3
  <2>3. AdfTaps \in Nat
    BY Sizes
  <2> QED
    BY <1>2, <1>3, <1>4, <2>1, <2>2, <2>3 DEF Filled
<1>7. Spaced'
  <2> DEFINE r == sample % DECIMATION_FACTOR
             q == (sample - 1) % DECIMATION_FACTOR
  <2>1. Spaced' <=> (lpfInputs' > 0 => takenAt' = adfInputs' - r)
    <3>1. sample' - 1 = sample
      BY <1>4
    <3> QED
      BY <3>1 DEF Spaced
  <2>2. ~Decimate => r = q + 1 /\ q \in Int
    <3>1. Decimate <=> r = 0
      BY <1>4, DecimateByMeasurement
    <3>2. q \in 0 .. DECIMATION_FACTOR - 1 /\ (r # 0 => r = q + 1)
      BY <1>4, Before
    <3> HIDE DEF q, r
    <3> QED
      BY <1>4, <3>1, <3>2
  <2>3. lpfInputs > 0 => takenAt = adfInputs - q
    BY DEF Inv, Spaced
  <2>4. lpfInputs > 0 => ~Decimate
    BY <1>3 DEF Inv, Filled
  <2> HIDE DEF q, r
  <2>5. lpfInputs > 0 => takenAt' = adfInputs' - r
    BY <1>2, <1>3, <2>2, <2>3, <2>4
  <2> QED
    BY <1>2, <2>1, <2>5
<1>8. (zeroCrossings = CrossingsOf(signal))'
  BY <1>2 DEF Inv, CrossingsOf
<1> QED
  BY <1>1, <1>5, <1>6, <1>7, <1>8 DEF Inv

\* A sample whose filtered value is passed on.
LEMMA SamplePassed ==
    ASSUME Inv, sample < Samples, sample' = sample + 1, Adf!Put,
           state # "INITIALIZING_DOWNSAMPLING_FILTER", Decimate, LowPass,
           UNCHANGED <<state, resultVars, measurement>>
    PROVE  Inv'
<1>1. AdfP!FilterInv' /\ LpfP!FilterInv'
  BY AdfStep, LpfStep DEF Inv, LowPass
<1>2. /\ adfInputs' = adfInputs + 1 /\ lpfInputs' = lpfInputs + 1
      /\ takenAt' = adfInputs + 1 /\ state' = state
      /\ signal' = signal /\ zeroCrossings' = zeroCrossings
  BY DEF Adf!Put, LowPass, Lpf!Put, resultVars
<1>3. adfInputs \in Nat /\ lpfInputs \in Nat
  BY DEF Inv, AdfP!FilterInv, LpfP!FilterInv
<1>4. sample \in Nat /\ Samples \in Nat /\ DECIMATION_FACTOR \in Nat \ {0}
  BY Sizes DEF Inv, Types
<1>5. /\ downSampled' \in Seq(Signs)
      /\ downSampled' # <<>> => state = "RUNNING"
  <2>1. downSampled \in Seq(Signs) /\ (downSampled # <<>> => state = "RUNNING")
    BY DEF Inv, Types, Filled
  <2>2. CASE state # "RUNNING"
    BY <2>1, <2>2 DEF LowPass
  <2>3. CASE state = "RUNNING"
    <3>1. PICK x \in Signs : downSampled' = Append(downSampled, x)
      BY <2>3 DEF LowPass, Signs
    <3> QED
      BY <2>1, <2>3, <3>1
  <2> QED
    BY <2>2, <2>3
<1>6. Types'
  <2>1. signal \in Seq(Signs) /\ state \in States
    BY DEF Inv, Types
  <2>2. takenAt' \in Nat /\ sample' \in 0 .. Samples
    BY <1>2, <1>3, <1>4
  <2> QED
    BY <1>2, <1>5, <2>1, <2>2 DEF Types, Samples
<1>7. Filled'
  <2>1. Filled
    BY DEF Inv
  <2>2. AdfTaps \in Nat /\ LpfTaps \in Nat
    BY Sizes
  <2>3. ASSUME state = "INITIALIZING_LOWPASS_FILTER"
        PROVE  DECIMATION_FACTOR * (lpfInputs + 1) >= sample + 1
    <3>1. DECIMATION_FACTOR * lpfInputs >= sample /\ DECIMATION_FACTOR * lpfInputs \in Nat
      BY <1>3, <1>4, <2>1, <2>3 DEF Filled
    <3>2. DECIMATION_FACTOR * (lpfInputs + 1) = DECIMATION_FACTOR * lpfInputs + DECIMATION_FACTOR
      BY <1>3, <1>4
    <3> QED
      BY <1>4, <3>1, <3>2
  <2> QED
    BY <1>2, <1>3, <1>5, <2>1, <2>2, <2>3 DEF Filled
<1>8. Spaced'
  <2>1. (sample % DECIMATION_FACTOR) = 0
    BY <1>4, DecimateByMeasurement
  <2>2. sample' - 1 = sample
    BY <1>4
  <2>3. ((sample' - 1) % DECIMATION_FACTOR) = 0
    BY <2>1, <2>2
  <2>4. takenAt' = adfInputs' - ((sample' - 1) % DECIMATION_FACTOR)
    BY <1>2, <1>3, <2>3
  <2> QED
    BY <2>4 DEF Spaced
<1>9. (zeroCrossings = CrossingsOf(signal))'
  BY <1>2 DEF Inv, CrossingsOf
<1> QED
  BY <1>1, <1>6, <1>7, <1>8, <1>9 DEF Inv

\* The end of a measurement.
LEMMA FinishInv ==
    ASSUME Inv, Finish
    PROVE  Inv'
<1>1. AdfP!FilterInv' /\ LpfP!FilterInv'
  BY AdfStep, LpfStep DEF Inv, Finish
<1>2. /\ sample = Samples /\ sample' = 0 /\ state' = NextState
      /\ downSampled' = <<>> /\ signal' = downSampled
      /\ zeroCrossings' = CrossingsOf(downSampled)
      /\ adfInputs' = adfInputs /\ lpfInputs' = lpfInputs /\ takenAt' = takenAt
  BY DEF Finish, adfVars, lpfVars
<1>3. adfInputs \in Nat /\ lpfInputs \in Nat
  BY DEF Inv, AdfP!FilterInv, LpfP!FilterInv
<1>4. Samples \in Nat /\ takenAt \in Nat /\ DECIMATION_FACTOR \in Nat \ {0}
  BY Sizes DEF Inv, Types
<1>5. state \in States /\ downSampled \in Seq(Signs)
  BY DEF Inv, Types
<1>6. Types'
  <2>1. state' \in States
    BY <1>2, <1>5 DEF NextState, States
  <2>2. <<>> \in Seq(Signs) /\ 0 \in 0 .. Samples
    BY <1>4
  <2> QED
    BY <1>2, <1>4, <1>5, <2>1, <2>2 DEF Types, Samples
<1>7. PICK n \in Nat : Samples = DECIMATION_FACTOR * n /\ n >= LpfTaps
  BY WholeMeasurement
<1>8. Filled'
  <2>1. Filled
    BY DEF Inv
  <2>2. AdfTaps \in Nat /\ LpfTaps \in Nat /\ Samples > AdfTaps
    BY Sizes
  <2>3. CASE state = "INITIALIZING_DOWNSAMPLING_FILTER"
    BY <1>2, <1>3, <1>4, <2>1, <2>2, <2>3 DEF Filled, NextState
  <2>4. CASE state = "INITIALIZING_LOWPASS_FILTER"
    <3>1. DECIMATION_FACTOR * lpfInputs >= DECIMATION_FACTOR * n
      BY <1>2, <1>7, <2>1, <2>4 DEF Filled
    <3>2. lpfInputs >= LpfTaps
      <4>1. lpfInputs >= n
        BY <1>3, <1>4, <1>7, <3>1, Grows
      <4> QED
        BY <1>3, <1>7, <2>2, <4>1
    <3>3. state' \in {state, "RUNNING"}
      BY <1>2, <2>4 DEF NextState
    <3>4. adfInputs >= AdfTaps
      BY <2>1, <2>4 DEF Filled
    <3>5. DECIMATION_FACTOR * lpfInputs >= 0
      BY <1>3, <1>4
    <3> QED
      BY <1>2, <2>4, <3>2, <3>3, <3>4, <3>5 DEF Filled
  <2>5. CASE state = "RUNNING"
    BY <1>2, <2>1, <2>5 DEF Filled, NextState
  <2> QED
    BY <1>5, <2>3, <2>4, <2>5 DEF States
<1>9. Spaced'
  <2>1. SUFFICES ASSUME lpfInputs > 0
                 PROVE  takenAt = adfInputs - ((0 - 1) % DECIMATION_FACTOR)
    BY <1>2 DEF Spaced
  <2>2. (Samples % DECIMATION_FACTOR) = 0
    <3>1. Samples = DECIMATION_FACTOR * n + 0 /\ 0 \in 0 .. DECIMATION_FACTOR - 1
      BY <1>4, <1>7
    <3> QED
      BY <1>4, <1>7, <3>1, AdfP!Remainder
  <2>3. (0 % DECIMATION_FACTOR) = 0
    <3>1. 0 = DECIMATION_FACTOR * 0 + 0 /\ 0 \in 0 .. DECIMATION_FACTOR - 1
      BY <1>4
    <3> QED
      BY <1>4, <3>1, AdfP!Remainder
  <2>4. ((Samples - 1) % DECIMATION_FACTOR) = DECIMATION_FACTOR - 1
    BY <1>4, <2>2, Before
  <2>5. ((0 - 1) % DECIMATION_FACTOR) = DECIMATION_FACTOR - 1
    BY <2>3, Before
  <2>6. takenAt = adfInputs - ((Samples - 1) % DECIMATION_FACTOR)
    BY <1>2, <2>1 DEF Inv, Spaced
  <2> QED
    BY <2>4, <2>5, <2>6
<1>10. (zeroCrossings = CrossingsOf(signal))'
  BY <1>2 DEF CrossingsOf
<1> QED
  BY <1>1, <1>6, <1>8, <1>9, <1>10 DEF Inv

\* Every step.
LEMMA NextInv ==
    ASSUME Inv, [Next]_vars
    PROVE  Inv'
<1>1. CASE Sample
  <2>1. sample < Samples /\ sample' = sample + 1 /\ Adf!Put
        /\ UNCHANGED <<state, resultVars, measurement>>
    BY <1>1 DEF Sample
  <2>2. CASE state # "INITIALIZING_DOWNSAMPLING_FILTER" /\ Decimate /\ LowPass
    BY <2>1, <2>2, SamplePassed
  <2>3. CASE /\ state = "INITIALIZING_DOWNSAMPLING_FILTER" \/ ~Decimate
             /\ UNCHANGED <<lpfVars, takenAt, downSampled>>
    BY <2>1, <2>3, SampleAlone
  <2> QED
    BY <1>1, <2>2, <2>3 DEF Sample
<1>2. CASE Finish
  BY <1>2, FinishInv
<1>3. CASE UNCHANGED vars
  <2>1. UNCHANGED adfVars /\ UNCHANGED lpfVars
    BY <1>3 DEF vars
  <2>2. AdfP!FilterInv' /\ LpfP!FilterInv'
    BY <2>1, AdfStep, LpfStep DEF Inv
  <2>3. UNCHANGED <<adfInputs, lpfInputs, state, sample, downSampled, zeroCrossings, signal,
                    takenAt>>
    BY <1>3 DEF vars, adfVars, lpfVars, resultVars
  <2> QED
    BY <2>2, <2>3 DEF Inv, Types, Filled, Spaced, CrossingsOf
<1> QED
  BY <1>1, <1>2, <1>3 DEF Next

-----------------------------------------------------------------------------
(***************************************************************************)
(* The crossings of a signal.                                              *)
(***************************************************************************)
\* A set of numbers has a least one.
LEMMA Least ==
    ASSUME NEW T \in SUBSET Nat, T # {}
    PROVE  \E x \in T : \A y \in T : x <= y
<1> DEFINE R == {ss \in Nat \X Nat : ss[1] < ss[2]}
<1>1. IsWellFoundedOn(R, Nat)
  BY NatLessThanWellFounded DEF OpToRel
<1> HIDE DEF R
<1>2. PICK x \in T : \A y \in T : ~(<<y, x>> \in R)
  BY <1>1, WFMin
<1>3. \A y \in T : ~(y < x)
  BY <1>2 DEF R
<1> QED
  BY <1>3

\* A value after the first is a crossing just if it is not negative and the one
\* before is; the first is none.
LEMMA Crossing ==
    ASSUME NEW s \in Seq(Signs), NEW k \in 1 .. Len(s)
    PROVE  /\ k = 1 => k \notin CrossingsOf(s)
           /\ k # 1 => (k \in CrossingsOf(s) <=> s[k - 1] < 0 /\ s[k] >= 0)
<1>1. Len(s) \in Nat
  OBVIOUS
<1>2. ASSUME k = 1
      PROVE  k \notin CrossingsOf(s)
  BY <1>2 DEF CrossingsOf, FP_NAN
<1>3. ASSUME k # 1
      PROVE  k \in CrossingsOf(s) <=> s[k - 1] < 0 /\ s[k] >= 0
  <2>1. k - 1 \in 1 .. Len(s)
    BY <1>1, <1>3
  <2>2. s[k] \in Signs /\ s[k - 1] \in Signs
    BY <2>1
  <2>3. k \in CrossingsOf(s)
          <=> s[k - 1] # 0 /\ ((s[k - 1] <= 0 /\ s[k] > 0) \/ (s[k - 1] < 0 /\ s[k] >= 0))
    BY <1>3 DEF CrossingsOf, FP_NAN
  <2> QED
    BY <2>2, <2>3 DEF Signs
<1> QED
  BY <1>2, <1>3

\* From negative to non-negative there is a crossing: the first value that is
\* not negative.
LEMMA RiseCrosses ==
    ASSUME NEW s \in Seq(Signs), NEW i \in 1 .. Len(s), NEW j \in 1 .. Len(s), i < j,
           s[i] < 0, s[j] >= 0
    PROVE  \E k \in i + 1 .. j : k \in CrossingsOf(s)
<1>1. Len(s) \in Nat /\ i \in Nat /\ j \in Nat
  OBVIOUS
<1> DEFINE T == {k \in i + 1 .. j : s[k] >= 0}
<1>2. T \in SUBSET Nat /\ j \in T
  BY <1>1
<1>3. PICK k \in T : \A y \in T : k <= y
  BY <1>2, Least
<1>4. /\ k \in i + 1 .. j /\ s[k] >= 0
      /\ k \in 1 .. Len(s) /\ k # 1 /\ k - 1 \in 1 .. Len(s)
  BY <1>1, <1>3
<1>5. s[k - 1] < 0
  <2>1. CASE k - 1 = i
    BY <2>1
  <2>2. CASE k - 1 # i
    <3>1. k - 1 \in i + 1 .. j
      BY <1>1, <1>4, <2>2
    <3>2. ~(k - 1 \in T)
      BY <1>1, <1>3, <1>4
    <3>3. ~(s[k - 1] >= 0)
      BY <3>1, <3>2
    <3>4. s[k - 1] \in Signs
      BY <1>4
    <3> QED
      BY <3>3, <3>4 DEF Signs
  <2> QED
    BY <2>1, <2>2
<1>6. k \in CrossingsOf(s)
  BY <1>4, <1>5, Crossing
<1> QED
  BY <1>4, <1>6

-----------------------------------------------------------------------------
(***************************************************************************)
(* What it gives.                                                          *)
(***************************************************************************)
\* LocalAnalysis::loop and the two filters keep the invariant.
THEOREM AnalysisInvariant == Spec => []Inv
<1>1. Init => Inv
  BY InitInv
<1>2. Inv /\ [Next]_vars => Inv'
  BY NextInv
<1> QED
  BY <1>1, <1>2, PTL DEF Spec

\* Each of the last inputs of AntialiasDownsamplingFilter and LowPassFilter is
\* weighed by one tap, for all powers of two of taps and however often the
\* unsigned last_index wraps.
THEOREM TapsCorrect == Spec => []EachInputOneTap
<1>1. Inv => EachInputOneTap
  <2>1. SUFFICES ASSUME Inv PROVE EachInputOneTap
    OBVIOUS
  <2>2. AdfP!WeighsLast /\ LpfP!WeighsLast
    BY <2>1, FilterSizes, AdfP!FilterWeighs, LpfP!FilterWeighs DEF Inv
  <2> QED
    BY <2>2 DEF EachInputOneTap, AdfP!WeighsLast, LpfP!WeighsLast, Adf!WeighsLast,
       Lpf!WeighsLast, AdfP!Tap, LpfP!Tap, Adf!Tap, Lpf!Tap
<1> QED
  BY <1>1, AnalysisInvariant, PTL

\* No zero of a filter's start reaches a result: initFilter's two measurements
\* are enough when they are as long as the filters.
THEOREM ZerosCorrect == Spec => []NoInitialZeros
<1>1. Inv => NoInitialZeros
  <2>1. SUFFICES ASSUME Inv PROVE NoInitialZeros
    OBVIOUS
  <2>2. AdfP!FilterInv /\ LpfP!FilterInv /\ Filled
    BY <2>1 DEF Inv
  <2>3. ASSUME lpfInputs > 0
        PROVE  \A i \in 0 .. AdfTaps - 1 : Adf!Tap(i) > 0
    <3>1. adfInputs >= AdfTaps
      BY <2>2, <2>3 DEF Filled
    <3>2. \A i \in 0 .. AdfTaps - 1 : AdfP!Tap(i) > 0
      BY <2>2, <3>1, FilterSizes, AdfP!FilterFull
    <3> QED
      BY <3>2 DEF Adf!Tap, AdfP!Tap
  <2>4. ASSUME downSampled # <<>>
        PROVE  \A i \in 0 .. LpfTaps - 1 : Lpf!Tap(i) > 0
    <3>1. lpfInputs >= LpfTaps
      BY <2>2, <2>4 DEF Filled
    <3>2. \A i \in 0 .. LpfTaps - 1 : LpfP!Tap(i) > 0
      BY <2>2, <3>1, FilterSizes, LpfP!FilterFull
    <3> QED
      BY <3>2 DEF Lpf!Tap, LpfP!Tap
  <2> QED
    BY <2>3, <2>4 DEF NoInitialZeros
<1> QED
  BY <1>1, AnalysisInvariant, PTL

\* The loop over _downSampled finds each rise of any signal, and nothing else.
THEOREM CrossingsCorrect == Spec => []OneCrossingPerRise
<1>1. Inv => OneCrossingPerRise
  <2>1. SUFFICES ASSUME Inv PROVE OneCrossingPerRise
    OBVIOUS
  <2>2. signal \in Seq(Signs) /\ zeroCrossings = CrossingsOf(signal)
    BY <2>1 DEF Inv, Types
  <2>3. ASSUME NEW i \in zeroCrossings
        PROVE  i \in 2 .. Len(signal) /\ signal[i - 1] < 0 /\ signal[i] >= 0
    <3>1. i \in 1 .. Len(signal) /\ i \in CrossingsOf(signal) /\ Len(signal) \in Nat
      BY <2>2 DEF CrossingsOf
    <3>2. i # 1
      BY <2>2, <3>1, Crossing
    <3>3. signal[i - 1] < 0 /\ signal[i] >= 0
      BY <2>2, <3>1, <3>2, Crossing
    <3>4. i \in 2 .. Len(signal)
      BY <3>1, <3>2
    <3> QED
      BY <3>3, <3>4
  <2>4. ASSUME NEW i \in 1 .. Len(signal), NEW j \in 1 .. Len(signal),
               i < j, signal[i] < 0, signal[j] >= 0
        PROVE  \E k \in i + 1 .. j : k \in zeroCrossings
    BY <2>2, <2>4, RiseCrosses
  <2> QED
    BY <2>3, <2>4 DEF OneCrossingPerRise
<1> QED
  BY <1>1, AnalysisInvariant, PTL

\* The low pass filter gets a value every DECIMATION_FACTOR samples, across
\* frames and measurements.
THEOREM SpacingCorrect == Spec => EvenlySpaced
<1> DEFINE Step == (lpfInputs' # lpfInputs /\ lpfInputs > 0)
                       => takenAt' = takenAt + DECIMATION_FACTOR
<1>1. Inv /\ [Next]_vars => [Step]_vars
  <2>1. SUFFICES ASSUME Inv, Next, lpfInputs' # lpfInputs, lpfInputs > 0
                 PROVE  takenAt' = takenAt + DECIMATION_FACTOR
    OBVIOUS
  <2>2. Sample
    BY <2>1 DEF Next, Finish, lpfVars
  <2>3. Decimate /\ takenAt' = adfInputs + 1
    BY <2>1, <2>2 DEF Sample, LowPass, lpfVars
  <2>4. adfInputs \in Nat /\ sample \in Nat /\ DECIMATION_FACTOR \in Nat \ {0}
    BY <2>1, Sizes DEF Inv, Types, AdfP!FilterInv
  <2>5. takenAt = adfInputs - ((sample - 1) % DECIMATION_FACTOR)
    BY <2>1 DEF Inv, Spaced
  <2>6. ((sample - 1) % DECIMATION_FACTOR) = DECIMATION_FACTOR - 1
    BY <2>3, <2>4, DecimateByMeasurement, Before
  <2> QED
    BY <2>3, <2>4, <2>5, <2>6
<1> QED
  BY <1>1, AnalysisInvariant, PTL DEF Spec, EvenlySpaced

=============================================================================
