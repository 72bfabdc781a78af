------------------------- MODULE DspFirmwareProofs -------------------------
(***************************************************************************)
(* Proofs about DspFirmware, for every ring of more than two slots, every  *)
(* frame of more than one sample and any number of frames: what the SPI    *)
(* transfers carry, what the data-ready pin tells the Raspberry Pi, and    *)
(* how GPS pulses are marked, however the interrupts fall.                 *)
(***************************************************************************)
EXTENDS DspFirmware, TLAPS

(***************************************************************************)
(* The inductive invariant.                                                *)
(***************************************************************************)
Booting == main \in {"initHead", "initTail", "initSample"}

\* Where main, the SDADC interrupt and the SPI peripheral can be at once.
Control ==
    /\ Booting => /\ hspi3.State = "ready"
                  /\ head = 0 /\ tail = 0 /\ published = 0 /\ transfers = 0
                  /\ currentSample <= MaxBootSamples
    /\ main = "transmit" => hspi3.State = "ready"
    /\ main \in {"advance", "pin"} => hspi3.State = "busy"
    /\ hspi3.State = "ready" => fifo = 0 /\ hspi3.TxXferCount = 0
    /\ hspi3.State = "busy" => hspi3.TxXferCount >= 1
    /\ hspi3.State = "closing" => hspi3.TxXferCount = 0
    /\ hspi3.State # "ready" => Len(wire) + hspi3.TxXferCount = Units
    /\ adc = "idle" <=> currentSample < FRAME_DATA_COUNT
    /\ adc # "idle" => published < MaxFrames

\* A transfer of which no unit was clocked yet.
Untouched ==
    /\ hspi3.State = "busy"
    /\ hspi3.TxXferCount + fifo = Units

\* The pin, the edge it made and the units the master has to clock.
Handshake ==
    /\ main \in {"advance", "pin"} => Untouched /\ master # "clocking" /\ ~edge /\ pin = 0
    /\ pin = 1 => hspi3.State = "busy" /\ hspi3.TxXferCount >= Units \div 2
    /\ edge => master = "idle" /\ Untouched
    /\ master = "clocking" => /\ toClock = hspi3.TxXferCount + fifo
                              /\ toClock >= 1
                              /\ hspi3.State # "ready"

\* When the pulse that waits for its frame was captured, and the stamps.
Pulses ==
    /\ gps_last_counter = pulses
    /\ PulseMarkedOnce
    /\ gps_pulse_flag =>
          lastPulse >= (IF adc = "publish" THEN published + 1 ELSE published) * FRAME_DATA_COUNT
    /\ adc = "reset" => gps_pulse_flag
    /\ adc = "mark" => ~gps_pulse_flag /\ lastPulse >= published * FRAME_DATA_COUNT
    /\ adc \in {"flag", "reset", "mark"} =>
          frames[head].last_gps_counter
              \in IF gps_pulse_flag \/ adc = "mark" THEN {flagged, flagged + 1} ELSE {flagged}
    /\ StampFollowsMark

\* Frames whose slot tail has left.
Released == transfers - (IF main = "advance" THEN 1 ELSE 0)

\* How many slots s is ahead of t.
Ahead(t, s) == IF s >= t THEN s - t ELSE s - t + FRAME_BUFFER_SIZE

Holds(f, k) == f.counter = k /\ \A i \in 0 .. FRAME_DATA_COUNT - 1 : f.data[i] = k

\* From tail to head lie the frames after the released ones, and head fills the next.
Ring ==
    /\ published - Released = Ahead(tail, head)
    /\ \A s \in Slots : Ahead(tail, s) < Ahead(tail, head) =>
                            Holds(frames[s], Released + 1 + Ahead(tail, s))
    /\ \A i \in 0 .. FRAME_DATA_COUNT - 1 :
          i < currentSample => frames[head].data[i] = published + 1
    /\ adc \notin {"idle", "stamp"} => frames[head].counter = published + 1

\* What is being sent is not what is being filled.
Transfer ==
    /\ main \in {"transmit", "advance"} => head # tail
    /\ main = "advance" => hspi3.slot = tail
    /\ hspi3.State = "busy" => hspi3.slot # head /\ Holds(frames[hspi3.slot], transfers)
    /\ \A i \in 1 .. Len(wire) : wire[i] = transfers

Inv ==
    /\ TypeOK
    /\ Control
    /\ Handshake
    /\ Pulses
    /\ ~late => Ring /\ Transfer

-----------------------------------------------------------------------------
(***************************************************************************)
(* Facts about the constants, the ring and sample times.                   *)
(***************************************************************************)
\* Sizes of the ring, of a frame and of a transfer.
LEMMA Sizes ==
    /\ FRAME_BUFFER_SIZE \in Nat /\ FRAME_BUFFER_SIZE > 2
    /\ FRAME_DATA_COUNT \in Nat /\ FRAME_DATA_COUNT > 1
    /\ MaxFrames \in Nat
    /\ MaxBootSamples \in Nat /\ MaxBootSamples + 1 < FRAME_DATA_COUNT
    /\ Units = FRAME_DATA_COUNT + 1 /\ Units \in Nat /\ Units > 2
BY SizeAssumption, SamplesAssumption, BootAssumption, FramesAssumption DEF Units

\* The pin is lowered after the first unit and before the last.
LEMMA HalfWay == Units \div 2 \in Nat /\ Units \div 2 >= 1 /\ Units \div 2 < Units
BY Sizes

\* head and tail stay inside the array.
LEMMA WrapInSlots == 0 \in Slots /\ \A s \in Slots : Wrap(s) \in Slots
BY Sizes DEF Slots, Wrap

\* A frame takes FRAME_DATA_COUNT samples.
LEMMA FrameTime ==
    \A p \in Nat : /\ p * FRAME_DATA_COUNT \in Nat
                   /\ (p + 1) * FRAME_DATA_COUNT = p * FRAME_DATA_COUNT + FRAME_DATA_COUNT
BY Sizes

-----------------------------------------------------------------------------
(***************************************************************************)
(* What the steps write into a frame and into the state of the SPI port.   *)
(***************************************************************************)
Frame == [data : [0 .. FRAME_DATA_COUNT - 1 -> 0 .. MaxFrames],
          counter : 0 .. MaxFrames, last_gps_counter : Nat, flags : BOOLEAN]

Port == [State : {"ready", "busy", "closing"}, slot : Slots, TxXferCount : 0 .. Units]

\* The ring after a reset.
LEMMA EmptyRing == EmptyFrame \in Frame
BY Sizes DEF EmptyFrame, Frame

\* A sample goes into one place of the frame at head.
LEMMA SampleTaken ==
    ASSUME TypeOK, Control, SdadcSample
    PROVE  /\ currentSample \in 0 .. FRAME_DATA_COUNT - 1 /\ published + 1 \in 0 .. MaxFrames
           /\ frames' \in [Slots -> Frame]
           /\ \A t \in Slots : t # head => frames'[t] = frames[t]
           /\ \A j \in 0 .. FRAME_DATA_COUNT - 1 :
                 frames'[head].data[j] = IF j = currentSample THEN published + 1
                                                              ELSE frames[head].data[j]
<1>1. frames \in [Slots -> Frame] /\ head \in Slots
  BY DEF TypeOK, Frame
<1>2. currentSample \in 0 .. FRAME_DATA_COUNT /\ published \in 0 .. MaxFrames
  BY DEF TypeOK
<1>3. published < MaxFrames /\ currentSample < FRAME_DATA_COUNT
  BY DEF SdadcSample, Control
<1>4. currentSample \in 0 .. FRAME_DATA_COUNT - 1 /\ published + 1 \in 0 .. MaxFrames
  BY <1>2, <1>3, Sizes
<1>5. frames' = [frames EXCEPT ![head].data[currentSample] = published + 1]
  BY DEF SdadcSample
<1> QED
  BY <1>1, <1>4, <1>5 DEF Frame

\* Time stamp and counter of the frame at head.
LEMMA FrameStamped ==
    ASSUME TypeOK, Control, SdadcStamp
    PROVE  /\ published + 1 \in 0 .. MaxFrames
           /\ frames' \in [Slots -> Frame]
           /\ \A t \in Slots : t # head => frames'[t] = frames[t]
           /\ frames'[head].last_gps_counter = gps_last_counter
           /\ frames'[head].counter = published + 1
           /\ frames'[head].data = frames[head].data
<1>1. frames \in [Slots -> Frame] /\ head \in Slots /\ gps_last_counter \in Nat
  BY DEF TypeOK, Frame
<1>2. published \in 0 .. MaxFrames /\ published < MaxFrames
  BY DEF TypeOK, SdadcStamp, Control
<1>3. published + 1 \in 0 .. MaxFrames
  BY <1>2, Sizes
<1>4. frames' = [frames EXCEPT ![head].last_gps_counter = gps_last_counter,
                               ![head].counter = published + 1]
  BY DEF SdadcStamp
<1> QED
  BY <1>1, <1>3, <1>4 DEF Frame

\* The mark of the frame at head.
LEMMA FrameMarked ==
    ASSUME TypeOK, SdadcFlag
    PROVE  /\ frames' \in [Slots -> Frame]
           /\ \A t \in Slots : t # head => frames'[t] = frames[t]
           /\ adc = "flag" => frames'[head].flags = FALSE
           /\ adc = "mark" => frames'[head].flags = TRUE
           /\ frames'[head].last_gps_counter = frames[head].last_gps_counter
           /\ frames'[head].counter = frames[head].counter
           /\ frames'[head].data = frames[head].data
<1>1. frames \in [Slots -> Frame] /\ head \in Slots
  BY DEF TypeOK, Frame
<1>2. CASE SdadcTest
  <2>1. frames' = [frames EXCEPT ![head].flags = FALSE] /\ adc = "flag"
    BY <1>2 DEF SdadcTest
  <2> QED
    BY <1>1, <2>1 DEF Frame
<1>3. CASE SdadcReset
  <2>1. frames' = frames /\ adc = "reset"
    BY <1>3 DEF SdadcReset, Reset, frameVars
  <2> QED
    BY <1>1, <2>1
<1>4. CASE SdadcMark
  <2>1. frames' = [frames EXCEPT ![head].flags = TRUE] /\ adc = "mark"
    BY <1>4 DEF SdadcMark
  <2> QED
    BY <1>1, <2>1 DEF Frame
<1> QED
  BY <1>2, <1>3, <1>4 DEF SdadcFlag

\* The units of a frame are its samples and its counter.
LEMMA UnitRead ==
    ASSUME NEW f \in Frame, NEW i \in 0 .. FRAME_DATA_COUNT
    PROVE  /\ Unit(f, i) \in 0 .. MaxFrames
           /\ \A k : Holds(f, k) => Unit(f, i) = k
BY Sizes DEF Frame, Unit, Holds

\* The data-ready interrupt of the peripheral takes one unit off the count.
LEMMA UnitSent ==
    ASSUME TypeOK, Control, SPI3_IRQHandler
    PROVE  /\ hspi3.TxXferCount \in 1 .. Units /\ Units - hspi3.TxXferCount \in 0 .. FRAME_DATA_COUNT
           /\ hspi3' \in Port
           /\ hspi3'.State = IF hspi3.TxXferCount = 1 THEN "closing" ELSE "busy"
           /\ hspi3'.slot = hspi3.slot
           /\ hspi3'.TxXferCount = hspi3.TxXferCount - 1
<1>1. hspi3 \in Port /\ hspi3.State = "busy" /\ hspi3.TxXferCount >= 1
  BY DEF TypeOK, Control, SPI3_IRQHandler, SendUnit, Port
<1>2. hspi3.TxXferCount \in 1 .. Units /\ hspi3.TxXferCount - 1 \in 0 .. Units
  BY <1>1, Sizes DEF Port
<1> DEFINE st == IF hspi3.TxXferCount = 1 THEN "closing" ELSE hspi3.State
<1>3. hspi3' = [hspi3 EXCEPT !.TxXferCount = hspi3.TxXferCount - 1, !.State = st]
  BY DEF SPI3_IRQHandler, SendUnit
<1>4. st \in {"ready", "busy", "closing"}
  BY <1>1
<1> HIDE DEF st
<1>5. hspi3' \in Port /\ hspi3'.State = st /\ hspi3'.slot = hspi3.slot
        /\ hspi3'.TxXferCount = hspi3.TxXferCount - 1
  BY <1>1, <1>2, <1>3, <1>4 DEF Port
<1>6. st = IF hspi3.TxXferCount = 1 THEN "closing" ELSE "busy"
  BY <1>1 DEF st
<1>7. Units - hspi3.TxXferCount \in 0 .. FRAME_DATA_COUNT
  BY <1>2, Sizes
<1> QED
  BY <1>2, <1>5, <1>6, <1>7

\* What it means that the DSP does not move.
LEMMA DspRests ==
    UNCHANGED dspVars =>
        /\ UNCHANGED <<frames, head, tail, currentSample>>
        /\ UNCHANGED <<gps_pulse_flag, gps_last_counter, pulses, flagged, lastPulse>>
        /\ UNCHANGED <<hspi3, fifo, wire>>
        /\ UNCHANGED <<pin, main, adc, published, transfers, late>>
BY DEF dspVars, frameVars, gpsVars, spiVars

\* The same for the DSP and the bus master together.
LEMMA AllRest == UNCHANGED vars => UNCHANGED dspVars /\ UNCHANGED <<master, edge, toClock, missed>>
BY DEF vars, masterVars

-----------------------------------------------------------------------------
(***************************************************************************)
(* Type correctness.                                                       *)
(***************************************************************************)
\* Every step keeps the types.
LEMMA TypeStep == TypeOK /\ Control /\ Handshake /\ [Next]_vars => TypeOK'
<1> SUFFICES ASSUME TypeOK, Control, Handshake, [Next]_vars PROVE TypeOK'
  OBVIOUS
<1> USE DEF TypeOK, frameVars, gpsVars, spiVars, masterVars
<1>1. CASE reset_dsp
  <2>1. frames' \in [Slots -> Frame]
    BY <1>1, EmptyRing DEF reset_dsp
  <2>2. /\ hspi3' \in [State : {"ready", "busy", "closing"}, slot : Slots, TxXferCount : 0 .. Units]
        /\ fifo' \in {0, 1} /\ wire' \in Seq(0 .. MaxFrames)
    BY <1>1, WrapInSlots, Sizes DEF reset_dsp
  <2>3. /\ head' \in Slots /\ tail' \in Slots /\ currentSample' = 0
        /\ gps_last_counter' = 0 /\ pulses' = 0 /\ flagged' = 0 /\ lastPulse' = -Units
        /\ pin' = 0 /\ main' = "initHead" /\ adc' = "idle" /\ published' = 0 /\ transfers' = 0
    BY <1>1, WrapInSlots DEF reset_dsp
  <2>4. /\ late' \in BOOLEAN /\ missed' \in BOOLEAN /\ edge' \in BOOLEAN
        /\ gps_pulse_flag' \in BOOLEAN
    BY <1>1, Zenon DEF reset_dsp
  <2>5. master' \in {"absent", "idle", "clocking"} /\ toClock' = 0
    BY <1>1 DEF reset_dsp
  <2>6. /\ currentSample' \in 0 .. FRAME_DATA_COUNT /\ lastPulse' \in Int
        /\ published' \in 0 .. MaxFrames /\ toClock' \in 0 .. Units
    BY <2>3, <2>5, Sizes
  <2> QED
    BY <2>1, <2>2, <2>3, <2>4, <2>5, <2>6 DEF Frame
<1>2. CASE InitHead /\ UNCHANGED masterVars
  BY <1>2, WrapInSlots DEF InitHead
<1>3. CASE InitTail /\ UNCHANGED masterVars
  BY <1>3, WrapInSlots DEF InitTail
<1>4. CASE InitSample /\ UNCHANGED masterVars
  <2>1. currentSample' \in 0 .. FRAME_DATA_COUNT /\ pin' \in {0, 1} /\ main' = "check"
    BY <1>4, Sizes DEF InitSample
  <2>2. UNCHANGED <<frames, head, tail, gps_pulse_flag, gps_last_counter, pulses, flagged,
                      lastPulse, hspi3, fifo, wire, adc, published, transfers, late, master,
                      edge, toClock, missed>>
    BY <1>4 DEF InitSample
  <2> QED
    BY <2>1, <2>2
<1>5. CASE MainCheck /\ UNCHANGED masterVars
  BY <1>5 DEF MainCheck
<1>6. CASE HAL_SPI_Transmit_IT /\ UNCHANGED masterVars
  <2>1. hspi3' \in [State : {"ready", "busy", "closing"}, slot : Slots, TxXferCount : 0 .. Units]
    BY <1>6, Sizes DEF HAL_SPI_Transmit_IT, Transmit
  <2>2. wire' \in Seq(0 .. MaxFrames) /\ transfers' \in Nat /\ main' = "advance"
    BY <1>6 DEF HAL_SPI_Transmit_IT, Transmit
  <2>3. UNCHANGED <<frames, head, tail, currentSample, gps_pulse_flag, gps_last_counter,
                      pulses, flagged, lastPulse, fifo, pin, adc, published, late, master,
                      edge, toClock, missed>>
    BY <1>6 DEF HAL_SPI_Transmit_IT, Transmit
  <2> QED
    BY <2>1, <2>2, <2>3
<1>7. CASE MainAdvance /\ UNCHANGED masterVars
  BY <1>7, WrapInSlots DEF MainAdvance
<1>8. CASE SdadcSample /\ UNCHANGED masterVars
  <2>1. currentSample \in 0 .. FRAME_DATA_COUNT - 1 /\ frames' \in [Slots -> Frame]
    BY <1>8, SampleTaken DEF SdadcSample
  <2>2. currentSample' = currentSample + 1 /\ adc' \in {"idle", "stamp"}
    BY <1>8 DEF SdadcSample
  <2>3. currentSample' \in 0 .. FRAME_DATA_COUNT
    BY <2>1, <2>2, Sizes
  <2>4. UNCHANGED <<head, tail, gps_pulse_flag, gps_last_counter, pulses, flagged,
                      lastPulse, hspi3, fifo, wire, pin, main, published, transfers, late,
                      master, edge, toClock, missed>>
    BY <1>8 DEF SdadcSample
  <2> QED
    BY <2>1, <2>2, <2>3, <2>4 DEF Frame
<1>9. CASE SdadcStamp /\ UNCHANGED masterVars
  <2>1. frames' \in [Slots -> Frame]
    BY <1>9, FrameStamped DEF SdadcStamp
  <2>2. adc' = "flag"
    BY <1>9 DEF SdadcStamp
  <2>3. UNCHANGED <<head, tail, currentSample, gps_pulse_flag, gps_last_counter, pulses,
                      flagged, lastPulse, hspi3, fifo, wire, pin, main, published,
                      transfers, late, master, edge, toClock, missed>>
    BY <1>9 DEF SdadcStamp
  <2> QED
    BY <2>1, <2>2, <2>3 DEF Frame
<1>10. CASE SdadcFlag /\ UNCHANGED masterVars
  <2>1. frames' \in [Slots -> Frame]
    BY <1>10, FrameMarked
  <2>2. adc' \in {"reset", "mark", "publish"}
    BY <1>10 DEF SdadcFlag, SdadcTest, SdadcReset, Reset, SdadcMark
  <2>3. flagged' \in Nat
    <3>1. flagged' \in {flagged, flagged + 1}
      BY <1>10 DEF SdadcFlag, SdadcTest, SdadcReset, Reset, SdadcMark
    <3> QED
      BY <3>1
  <2>4. UNCHANGED <<head, tail, currentSample, gps_last_counter, pulses, lastPulse, hspi3,
                      fifo, wire, pin, main, published, transfers, late, master, edge,
                      toClock, missed>>
    BY <1>10 DEF SdadcFlag, SdadcTest, SdadcReset, Reset, SdadcMark
  <2>5. gps_pulse_flag' \in BOOLEAN /\ late' \in BOOLEAN /\ edge' \in BOOLEAN /\ missed' \in BOOLEAN
    <3>1. gps_pulse_flag' = gps_pulse_flag \/ gps_pulse_flag' = FALSE
      BY <1>10 DEF SdadcFlag, SdadcTest, SdadcReset, Reset, SdadcMark
    <3> QED
      BY <2>4, <3>1
  <2> QED
    BY <2>1, <2>2, <2>3, <2>4, <2>5 DEF Frame
<1>11. CASE SdadcPublish /\ UNCHANGED masterVars
  <2>1. late' \in BOOLEAN /\ gps_pulse_flag' \in BOOLEAN
    BY <1>11, Zenon DEF SdadcPublish, Publish
  <2>2. head' \in Slots /\ currentSample' \in 0 .. FRAME_DATA_COUNT /\ adc' = "idle"
    BY <1>11, WrapInSlots, Sizes DEF SdadcPublish, Publish
  <2>3. published' \in 0 .. MaxFrames
    BY <1>11, Sizes DEF SdadcPublish, Publish, Control
  <2>4. UNCHANGED <<frames, tail, gps_last_counter, pulses, flagged, lastPulse, hspi3,
                      fifo, wire, pin, main, transfers, master, edge, toClock, missed>>
    BY <1>11 DEF SdadcPublish, Publish
  <2> QED
    BY <2>1, <2>2, <2>3, <2>4
<1>12. CASE HAL_TIM_IC_CaptureCallback /\ UNCHANGED masterVars
  <2>1. Now \in Int
    BY <1>12, Sizes, FrameTime DEF HAL_TIM_IC_CaptureCallback, Now
  <2>2. gps_pulse_flag' \in BOOLEAN /\ gps_last_counter' \in Nat /\ pulses' \in Nat /\ lastPulse' \in Int
    BY <1>12, <2>1 DEF HAL_TIM_IC_CaptureCallback
  <2>3. UNCHANGED <<frames, head, tail, currentSample, flagged, hspi3, fifo, wire, pin,
                      main, adc, published, transfers, late, master, edge, toClock, missed>>
    BY <1>12 DEF HAL_TIM_IC_CaptureCallback
  <2> QED
    BY <2>2, <2>3
<1>13. CASE SPI3_IRQHandler /\ UNCHANGED masterVars
  <2>1. hspi3' \in Port
    BY <1>13, UnitSent DEF SPI3_IRQHandler, SendUnit
  <2>2. Units - hspi3.TxXferCount \in 0 .. FRAME_DATA_COUNT
    BY <1>13, UnitSent
  <2>3. frames[hspi3.slot] \in Frame
    BY DEF Frame
  <2>4. Unit(frames[hspi3.slot], Units - hspi3.TxXferCount) \in 0 .. MaxFrames
    BY <2>2, <2>3, UnitRead
  <2>5. wire' \in Seq(0 .. MaxFrames)
    BY <1>13, <2>4 DEF SPI3_IRQHandler, SendUnit
  <2>6. pin' \in {0, 1} /\ fifo' \in {0, 1}
    BY <1>13 DEF SPI3_IRQHandler, SendUnit
  <2>7. UNCHANGED <<frames, head, tail, currentSample, gps_pulse_flag, gps_last_counter,
                      pulses, flagged, lastPulse, main, adc, published, transfers, late,
                      master, edge, toClock, missed>>
    BY <1>13 DEF SPI3_IRQHandler, SendUnit
  <2> QED
    BY <2>1, <2>5, <2>6, <2>7 DEF Port
<1>14. CASE SPI_CloseTx_ISR /\ UNCHANGED masterVars
  <2>1. hspi3' \in [State : {"ready", "busy", "closing"}, slot : Slots, TxXferCount : 0 .. Units]
    BY <1>14 DEF SPI_CloseTx_ISR
  <2>2. UNCHANGED <<frames, head, tail, currentSample, gps_pulse_flag, gps_last_counter,
                      pulses, flagged, lastPulse, fifo, wire, pin, main, adc, published,
                      transfers, late, master, edge, toClock, missed>>
    BY <1>14 DEF SPI_CloseTx_ISR
  <2> QED
    BY <2>1, <2>2
<1>15. CASE MainPin /\ PinEdge
  BY <1>15 DEF MainPin, PinEdge
<1>16. CASE LoadDriver
  <2>1. UNCHANGED dspVars
    BY <1>16 DEF LoadDriver
  <2> QED
    BY <1>16, <2>1, DspRests DEF LoadDriver
<1>17. CASE BeginRead
  <2>1. toClock' \in 0 .. Units /\ master' \in {"idle", "clocking"}
    BY <1>17, Sizes DEF BeginRead
  <2>2. UNCHANGED dspVars
    BY <1>17 DEF BeginRead
  <2>3. edge' \in BOOLEAN /\ missed' \in BOOLEAN
    BY <1>17 DEF BeginRead
  <2> QED
    BY <2>1, <2>2, <2>3, DspRests
<1>18. CASE ClockUnit
  <2>1. toClock' \in 0 .. Units /\ master' \in {"idle", "clocking"}
    BY <1>18, Sizes DEF ClockUnit, ShiftOut, Handshake
  <2>2. fifo' = 0
    BY <1>18 DEF ClockUnit, ShiftOut
  <2>3. UNCHANGED <<frames, head, tail, currentSample, gps_pulse_flag, gps_last_counter,
                      pulses, flagged, lastPulse, hspi3, wire, pin, main, adc, published,
                      transfers, late, edge, missed>>
    BY <1>18 DEF ClockUnit, ShiftOut
  <2> QED
    BY <2>1, <2>2, <2>3
<1>19. CASE UNCHANGED vars
  BY <1>19, DspRests, AllRest
<1> QED
  BY <1>1, <1>2, <1>3, <1>4, <1>5, <1>6, <1>7, <1>8, <1>9, <1>10, <1>11, <1>12, <1>13,
     <1>14, <1>15, <1>16, <1>17, <1>18, <1>19
  DEF Next, DspNext, MasterNext, Internal, InitRunTime, MainTransmit, SDADC2_IRQHandler

\* Every step keeps main, the interrupts and the port in step.
LEMMA ControlStep == TypeOK /\ Control /\ Handshake /\ [Next]_vars => Control'
<1> SUFFICES ASSUME TypeOK, Control, Handshake, [Next]_vars PROVE Control'
  OBVIOUS
<1>a. hspi3 \in Port /\ fifo \in {0, 1} /\ currentSample \in 0 .. FRAME_DATA_COUNT
  BY DEF TypeOK, Port
<1>b. published \in 0 .. MaxFrames /\ wire \in Seq(0 .. MaxFrames)
  BY DEF TypeOK
<1> USE DEF Control, Booting, frameVars, gpsVars, spiVars, masterVars
<1>1. CASE reset_dsp
  BY <1>1, Sizes DEF reset_dsp
<1>2. CASE InitHead /\ UNCHANGED masterVars
  BY <1>2 DEF InitHead
<1>3. CASE InitTail /\ UNCHANGED masterVars
  BY <1>3 DEF InitTail
<1>4. CASE InitSample /\ UNCHANGED masterVars
  BY <1>4, Sizes DEF InitSample, MainRuns, Closing
<1>5. CASE MainCheck /\ UNCHANGED masterVars
  BY <1>5 DEF MainCheck
<1>6. CASE HAL_SPI_Transmit_IT /\ UNCHANGED masterVars
  BY <1>6, Sizes DEF HAL_SPI_Transmit_IT, Transmit
<1>7. CASE MainAdvance /\ UNCHANGED masterVars
  BY <1>7 DEF MainAdvance
<1>8. CASE SdadcSample /\ UNCHANGED masterVars
  BY <1>8, <1>a, Sizes DEF SdadcSample
<1>9. CASE SdadcStamp /\ UNCHANGED masterVars
  BY <1>9 DEF SdadcStamp
<1>10. CASE SdadcFlag /\ UNCHANGED masterVars
  BY <1>10 DEF SdadcFlag, SdadcTest, SdadcReset, Reset, SdadcMark
<1>11. CASE SdadcPublish /\ UNCHANGED masterVars
  BY <1>11, <1>a, <1>b, Sizes DEF SdadcPublish, Publish
<1>12. CASE HAL_TIM_IC_CaptureCallback /\ UNCHANGED masterVars
  BY <1>12 DEF HAL_TIM_IC_CaptureCallback
<1>13. CASE SPI3_IRQHandler /\ UNCHANGED masterVars
  <2>1. /\ hspi3.State = "busy"
        /\ UNCHANGED <<main, head, tail, published, transfers, currentSample, adc>>
    BY <1>13 DEF SPI3_IRQHandler, SendUnit
  <2>2. /\ hspi3.TxXferCount \in 1 .. Units
        /\ hspi3'.State = IF hspi3.TxXferCount = 1 THEN "closing" ELSE "busy"
        /\ hspi3'.TxXferCount = hspi3.TxXferCount - 1
    BY <1>13, UnitSent
  <2>3. ~Booting /\ main # "transmit"
    BY <2>1
  <2>4. main \in {"advance", "pin"} => hspi3.TxXferCount # 1
    BY Sizes, <1>a DEF Handshake, Untouched
  <2>5. Len(wire) \in Nat /\ Len(wire') = Len(wire) + 1
    BY <1>13, <1>b DEF SPI3_IRQHandler, SendUnit
  <2>6. Len(wire') + hspi3'.TxXferCount = Units
    BY <2>1, <2>2, <2>5, Sizes
  <2> HIDE DEF Control
  <2> QED
    BY <2>1, <2>2, <2>3, <2>4, <2>6, Sizes DEF Control
<1>14. CASE SPI_CloseTx_ISR /\ UNCHANGED masterVars
  BY <1>14, <1>a DEF SPI_CloseTx_ISR, Closing, Port
<1>15. CASE MainPin /\ PinEdge
  BY <1>15 DEF MainPin, PinEdge
<1>16. CASE LoadDriver
  <2>1. UNCHANGED dspVars
    BY <1>16 DEF LoadDriver
  <2> QED
    BY <1>16, <2>1, DspRests DEF LoadDriver
<1>17. CASE BeginRead
  <2>1. UNCHANGED dspVars
    BY <1>17 DEF BeginRead
  <2> QED
    BY <1>17, <2>1, DspRests DEF BeginRead
<1>18. CASE ClockUnit
  BY <1>18 DEF ClockUnit, ShiftOut
<1>19. CASE UNCHANGED vars
  BY <1>19, DspRests, AllRest
<1> QED
  BY <1>1, <1>2, <1>3, <1>4, <1>5, <1>6, <1>7, <1>8, <1>9, <1>10, <1>11, <1>12, <1>13,
     <1>14, <1>15, <1>16, <1>17, <1>18, <1>19
  DEF Next, DspNext, MasterNext, Internal, InitRunTime, MainTransmit, SDADC2_IRQHandler

\* Every step keeps pin, edge and clock in step with the transfer.
LEMMA HandshakeStep == TypeOK /\ Control /\ Handshake /\ [Next]_vars => Handshake'
<1> SUFFICES ASSUME TypeOK, Control, Handshake, [Next]_vars PROVE Handshake'
  OBVIOUS
<1>a. hspi3 \in Port /\ fifo \in {0, 1} /\ pin \in {0, 1} /\ master \in {"absent", "idle", "clocking"}
  BY DEF TypeOK, Port
<1>b. edge \in BOOLEAN /\ toClock \in 0 .. Units
  BY DEF TypeOK
<1> USE DEF Handshake, Untouched, frameVars, gpsVars, spiVars, masterVars
<1>1. CASE reset_dsp
  BY <1>1 DEF reset_dsp
<1>2. CASE InitHead /\ UNCHANGED masterVars
  BY <1>2 DEF InitHead
<1>3. CASE InitTail /\ UNCHANGED masterVars
  BY <1>3 DEF InitTail
<1>4. CASE InitSample /\ UNCHANGED masterVars
  BY <1>4 DEF InitSample
<1>5. CASE MainCheck /\ UNCHANGED masterVars
  BY <1>5 DEF MainCheck
<1>6. CASE HAL_SPI_Transmit_IT /\ UNCHANGED masterVars
  <2>1. hspi3.State = "ready" /\ fifo = 0
    BY <1>6 DEF HAL_SPI_Transmit_IT, Transmit, Control
  <2>2. pin = 0 /\ ~edge /\ master # "clocking"
    BY <2>1, <1>a
  <2> QED
    BY <1>6, <2>1, <2>2, Sizes DEF HAL_SPI_Transmit_IT, Transmit
<1>7. CASE MainAdvance /\ UNCHANGED masterVars
  BY <1>7 DEF MainAdvance
<1>8. CASE SdadcSample /\ UNCHANGED masterVars
  BY <1>8 DEF SdadcSample
<1>9. CASE SdadcStamp /\ UNCHANGED masterVars
  BY <1>9 DEF SdadcStamp
<1>10. CASE SdadcFlag /\ UNCHANGED masterVars
  BY <1>10 DEF SdadcFlag, SdadcTest, SdadcReset, Reset, SdadcMark
<1>11. CASE SdadcPublish /\ UNCHANGED masterVars
  BY <1>11 DEF SdadcPublish, Publish
<1>12. CASE HAL_TIM_IC_CaptureCallback /\ UNCHANGED masterVars
  BY <1>12 DEF HAL_TIM_IC_CaptureCallback
<1>13. CASE SPI3_IRQHandler /\ UNCHANGED masterVars
  <2>1. /\ hspi3.State = "busy" /\ fifo = 0 /\ fifo' = 1
        /\ pin' = IF hspi3.TxXferCount = Units \div 2 THEN 0 ELSE pin
        /\ UNCHANGED <<main, master, edge, toClock>>
    BY <1>13 DEF SPI3_IRQHandler, SendUnit
  <2>2. /\ hspi3.TxXferCount \in 1 .. Units
        /\ hspi3'.State = IF hspi3.TxXferCount = 1 THEN "closing" ELSE "busy"
        /\ hspi3'.TxXferCount = hspi3.TxXferCount - 1
    BY <1>13, UnitSent
  <2>3. hspi3'.TxXferCount + fifo' = hspi3.TxXferCount + fifo
    BY <2>1, <2>2
  <2>4. Untouched => Untouched'
    BY <2>1, <2>2, <2>3, Sizes
  <2>5. pin' = 1 => hspi3'.State = "busy" /\ hspi3'.TxXferCount >= Units \div 2
    BY <2>1, <2>2, Sizes, HalfWay
  <2>6. main \in {"advance", "pin"} => pin' = 0
    BY <2>1
  <2> QED
    BY <2>1, <2>2, <2>3, <2>4, <2>5, <2>6
<1>14. CASE SPI_CloseTx_ISR /\ UNCHANGED masterVars
  <2>1. hspi3.State = "closing" /\ hspi3.TxXferCount = 0 /\ fifo = 0
    BY <1>14 DEF SPI_CloseTx_ISR, Closing, Control
  <2>2. master # "clocking" /\ ~edge /\ pin = 0 /\ main \notin {"advance", "pin"}
    BY <2>1, <1>a, <1>b DEF Control
  <2>3. UNCHANGED <<main, pin, master, edge, toClock>>
    BY <1>14 DEF SPI_CloseTx_ISR
  <2> QED
    BY <2>2, <2>3
<1>15. CASE MainPin /\ PinEdge
  <2>1. Untouched /\ master # "clocking" /\ ~edge /\ pin = 0 /\ hspi3.State = "busy"
    BY <1>15 DEF MainPin, Control
  <2>2. hspi3.TxXferCount >= Units \div 2
    BY <2>1, <1>a, Sizes, HalfWay DEF Port
  <2>3. main' = "check" /\ pin' = 1 /\ UNCHANGED <<hspi3, fifo, master, toClock>>
    BY <1>15 DEF MainPin, PinEdge
  <2>4. edge' => master # "absent"
    BY <1>15, <2>1 DEF PinEdge
  <2> QED
    BY <2>1, <2>2, <2>3, <2>4, <1>a
<1>16. CASE LoadDriver
  <2>1. UNCHANGED dspVars
    BY <1>16 DEF LoadDriver
  <2> QED
    BY <1>16, <2>1, DspRests DEF LoadDriver
<1>17. CASE BeginRead
  <2>1. UNCHANGED dspVars
    BY <1>17 DEF BeginRead
  <2> QED
    BY <1>17, <2>1, DspRests, Sizes, <1>a DEF BeginRead
<1>18. CASE ClockUnit
  <2>1. /\ master = "clocking" /\ fifo = 1 /\ fifo' = 0 /\ toClock' = toClock - 1
        /\ master' = (IF toClock = 1 THEN "idle" ELSE "clocking")
        /\ UNCHANGED <<main, pin, hspi3, edge>>
    BY <1>18 DEF ClockUnit, ShiftOut
  <2>2. ~edge /\ main \notin {"advance", "pin"} /\ toClock \in Nat
    BY <2>1, <1>b
  <2> QED
    BY <1>a, <2>1, <2>2 DEF Port
<1>19. CASE UNCHANGED vars
  BY <1>19, DspRests, AllRest
<1> QED
  BY <1>1, <1>2, <1>3, <1>4, <1>5, <1>6, <1>7, <1>8, <1>9, <1>10, <1>11, <1>12, <1>13,
     <1>14, <1>15, <1>16, <1>17, <1>18, <1>19
  DEF Next, DspNext, MasterNext, Internal, InitRunTime, MainTransmit, SDADC2_IRQHandler

\* Every step keeps pulses, marks and stamps in step.
LEMMA PulsesStep == TypeOK /\ Control /\ Pulses /\ [Next]_vars => Pulses'
<1> SUFFICES ASSUME TypeOK, Control, Pulses, [Next]_vars PROVE Pulses'
  OBVIOUS
<1>a. /\ gps_pulse_flag \in BOOLEAN /\ pulses \in Nat /\ flagged \in Nat /\ lastPulse \in Int
      /\ published \in Nat /\ currentSample \in 0 .. FRAME_DATA_COUNT
  BY Sizes DEF TypeOK
<1>b. head \in Slots
  BY DEF TypeOK
<1> USE DEF Pulses, PulseMarkedOnce, StampFollowsMark, frameVars, gpsVars, spiVars, masterVars
<1>1. CASE reset_dsp
  BY <1>1, Sizes DEF reset_dsp
<1>2. CASE InitHead /\ UNCHANGED masterVars
  <2>1. adc = "idle"
    BY <1>2 DEF InitHead, MainRuns
  <2>2. UNCHANGED <<adc, gpsVars, published>>
    BY <1>2 DEF InitHead
  <2> QED
    BY <2>1, <2>2
<1>3. CASE InitTail /\ UNCHANGED masterVars
  BY <1>3 DEF InitTail
<1>4. CASE InitSample /\ UNCHANGED masterVars
  BY <1>4 DEF InitSample
<1>5. CASE MainCheck /\ UNCHANGED masterVars
  BY <1>5 DEF MainCheck
<1>6. CASE HAL_SPI_Transmit_IT /\ UNCHANGED masterVars
  BY <1>6 DEF HAL_SPI_Transmit_IT, Transmit
<1>7. CASE MainAdvance /\ UNCHANGED masterVars
  BY <1>7 DEF MainAdvance
<1>8. CASE SdadcSample /\ UNCHANGED masterVars
  <2>1. adc' \in {"idle", "stamp"} /\ adc = "idle"
    BY <1>8 DEF SdadcSample
  <2>2. UNCHANGED <<gpsVars, published>>
    BY <1>8 DEF SdadcSample
  <2> QED
    BY <2>1, <2>2
<1>9. CASE SdadcStamp /\ UNCHANGED masterVars
  <2>1. adc = "stamp" /\ adc' = "flag" /\ UNCHANGED <<head, gpsVars, published>>
    BY <1>9 DEF SdadcStamp
  <2>2. frames'[head].last_gps_counter = pulses
    BY <1>9, FrameStamped
  <2>3. pulses \in IF gps_pulse_flag THEN {flagged, flagged + 1} ELSE {flagged}
    BY <1>a, <2>1
  <2> QED
    BY <2>1, <2>2, <2>3
<1>10. CASE SdadcFlag /\ UNCHANGED masterVars
  <2>1. UNCHANGED <<head, gps_last_counter, pulses, lastPulse, published>>
    BY <1>10 DEF SdadcFlag, SdadcTest, SdadcReset, Reset, SdadcMark
  <2>2. frames'[head].last_gps_counter = frames[head].last_gps_counter
    BY <1>10, FrameMarked
  <2>3. CASE SdadcTest
    <3>1. /\ adc = "flag" /\ adc' = (IF gps_pulse_flag THEN "reset" ELSE "publish")
          /\ UNCHANGED <<gps_pulse_flag, flagged>>
      BY <2>3 DEF SdadcTest
    <3>2. frames'[head].flags = FALSE
      BY <1>10, <3>1, FrameMarked
    <3>3. CASE gps_pulse_flag
      BY <2>1, <2>2, <3>1, <3>3, <1>a
    <3>4. CASE ~gps_pulse_flag
      BY <2>1, <2>2, <3>1, <3>2, <3>4, <1>a
    <3> QED
      BY <3>3, <3>4
  <2>4. CASE SdadcReset
    <3>1. adc = "reset" /\ adc' = "mark" /\ gps_pulse_flag' = FALSE /\ flagged' = flagged
      BY <2>4 DEF SdadcReset, Reset
    <3> QED
      BY <2>1, <2>2, <3>1, <1>a
  <2>5. CASE SdadcMark
    <3>1. /\ adc = "mark" /\ adc' = "publish" /\ gps_pulse_flag' = gps_pulse_flag
          /\ flagged' = flagged + 1
      BY <2>5 DEF SdadcMark
    <3>2. frames'[head].flags = TRUE
      BY <1>10, <3>1, FrameMarked
    <3> QED
      BY <2>1, <2>2, <3>1, <3>2, <1>a
  <2> QED
    BY <1>10, <2>3, <2>4, <2>5 DEF SdadcFlag
<1>11. CASE SdadcPublish /\ UNCHANGED masterVars
  <2>1. adc = "publish" /\ adc' = "idle" /\ published' = published + 1
    BY <1>11 DEF SdadcPublish, Publish
  <2>2. UNCHANGED <<gps_pulse_flag, gps_last_counter, pulses, flagged, lastPulse>>
    BY <1>11 DEF SdadcPublish, Publish
  <2> QED
    BY <2>1, <2>2
<1>12. CASE HAL_TIM_IC_CaptureCallback /\ UNCHANGED masterVars
  <2>1. /\ Now - lastPulse > FRAME_DATA_COUNT
        /\ gps_pulse_flag' = TRUE /\ gps_last_counter' = pulses + 1 /\ pulses' = pulses + 1
        /\ lastPulse' = Now
        /\ UNCHANGED <<frames, head, flagged, adc, published>>
    BY <1>12 DEF HAL_TIM_IC_CaptureCallback
  <2>2. Now = published * FRAME_DATA_COUNT + currentSample
    BY DEF Now
  <2>3. adc = "publish" => currentSample = FRAME_DATA_COUNT
    BY <1>a, Sizes DEF Control
  <2>4. /\ published * FRAME_DATA_COUNT \in Nat
        /\ (published + 1) * FRAME_DATA_COUNT = published * FRAME_DATA_COUNT + FRAME_DATA_COUNT
    BY <1>a, FrameTime
  <2>5. ~gps_pulse_flag /\ adc \notin {"reset", "mark"}
    BY <2>1, <2>2, <2>4, <1>a, Sizes
  <2>6. lastPulse' >= (IF adc = "publish" THEN published + 1 ELSE published) * FRAME_DATA_COUNT
    BY <2>1, <2>2, <2>3, <2>4, <1>a, Sizes
  <2>7. pulses = flagged
    BY <2>5, <1>a
  <2> QED
    BY <2>1, <2>5, <2>6, <2>7, <1>a
<1>13. CASE SPI3_IRQHandler /\ UNCHANGED masterVars
  BY <1>13 DEF SPI3_IRQHandler, SendUnit
<1>14. CASE SPI_CloseTx_ISR /\ UNCHANGED masterVars
  BY <1>14 DEF SPI_CloseTx_ISR
<1>15. CASE MainPin /\ PinEdge
  BY <1>15 DEF MainPin, PinEdge
<1>16. CASE LoadDriver
  <2>1. UNCHANGED dspVars
    BY <1>16 DEF LoadDriver
  <2> QED
    BY <1>16, <2>1, DspRests DEF LoadDriver
<1>17. CASE BeginRead
  <2>1. UNCHANGED dspVars
    BY <1>17 DEF BeginRead
  <2> QED
    BY <1>17, <2>1, DspRests DEF BeginRead
<1>18. CASE ClockUnit
  BY <1>18 DEF ClockUnit, ShiftOut
<1>19. CASE UNCHANGED vars
  BY <1>19, DspRests, AllRest
<1> QED
  BY <1>1, <1>2, <1>3, <1>4, <1>5, <1>6, <1>7, <1>8, <1>9, <1>10, <1>11, <1>12, <1>13,
     <1>14, <1>15, <1>16, <1>17, <1>18, <1>19
  DEF Next, DspNext, MasterNext, Internal, InitRunTime, MainTransmit, SDADC2_IRQHandler

-----------------------------------------------------------------------------
(***************************************************************************)
(* The ring and the transfer.                                              *)
(***************************************************************************)
\* Slots are told apart by how far they are ahead of tail.
LEMMA AheadRange ==
    \A t, s \in Slots : /\ Ahead(t, s) \in 0 .. FRAME_BUFFER_SIZE - 1
                        /\ Ahead(t, s) = 0 <=> s = t
                        /\ \A u \in Slots : Ahead(t, s) = Ahead(t, u) => s = u
BY Sizes DEF Slots, Ahead

\* head moves away from tail, unless it runs into it.
LEMMA HeadMoves ==
    \A t, h \in Slots : Wrap(h) # t => Ahead(t, Wrap(h)) = Ahead(t, h) + 1
BY Sizes DEF Slots, Ahead, Wrap

\* tail moves towards every other slot.
LEMMA TailMoves ==
    \A t, s \in Slots : s # t => Ahead(Wrap(t), s) = Ahead(t, s) - 1
BY Sizes DEF Slots, Ahead, Wrap

\* The slot that tail leaves becomes the farthest.
LEMMA TailLeaves == \A t \in Slots : Ahead(Wrap(t), t) = FRAME_BUFFER_SIZE - 1
BY Sizes DEF Slots, Ahead, Wrap

\* A step that touches neither the ring nor what is released keeps Ring.
LEMMA RingSame ==
    ASSUME Ring, UNCHANGED <<frames, head, tail, currentSample, adc, published>>,
           Released' = Released
    PROVE  Ring'
BY DEF Ring, Holds

\* Every step keeps the frames between tail and head.
LEMMA RingStep ==
    TypeOK /\ Control /\ (~late => Ring /\ Transfer) /\ [Next]_vars => (~late' => Ring')
<1> SUFFICES ASSUME TypeOK, Control, ~late => Ring /\ Transfer, [Next]_vars, ~late'
             PROVE  Ring'
  OBVIOUS
<1>a. frames \in [Slots -> Frame] /\ head \in Slots /\ tail \in Slots
  BY DEF TypeOK, Frame
<1>b. published \in Nat /\ transfers \in Nat /\ currentSample \in 0 .. FRAME_DATA_COUNT
  BY Sizes DEF TypeOK
<1>c. Released \in Int
  BY <1>b DEF Released
<1> USE DEF frameVars, gpsVars, spiVars, masterVars
<1>1. CASE reset_dsp
  <2>1. /\ head' = 0 /\ tail' = 0 /\ currentSample' = 0 /\ adc' = "idle" /\ published' = 0
        /\ Released' = 0
    BY <1>1 DEF reset_dsp, Released
  <2>2. Ahead(0, 0) = 0 /\ \A s \in Slots : ~(Ahead(0, s) < 0)
    BY AheadRange, WrapInSlots
  <2> QED
    BY <2>1, <2>2, Sizes DEF Ring
<1>2. CASE InitHead /\ UNCHANGED masterVars
  <2>1. ~late /\ UNCHANGED <<frames, head, tail, currentSample, adc, published>>
    BY <1>2 DEF InitHead, Control, Booting
  <2>2. Released' = Released
    BY <1>2 DEF InitHead, Released
  <2> QED
    BY <2>1, <2>2, RingSame
<1>3. CASE InitTail /\ UNCHANGED masterVars
  <2>1. ~late /\ UNCHANGED <<frames, head, tail, currentSample, adc, published>>
    BY <1>3 DEF InitTail, Control, Booting
  <2>2. Released' = Released
    BY <1>3 DEF InitTail, Released
  <2> QED
    BY <2>1, <2>2, RingSame
<1>4. CASE InitSample /\ UNCHANGED masterVars
  <2>1. ~late /\ currentSample' = 0 /\ UNCHANGED <<frames, head, tail, adc, published>>
    BY <1>4 DEF InitSample
  <2>2. Released' = Released
    BY <1>4 DEF InitSample, Released
  <2> QED
    BY <2>1, <2>2 DEF Ring, Holds
<1>5. CASE MainCheck /\ UNCHANGED masterVars
  <2>1. ~late /\ UNCHANGED <<frames, head, tail, currentSample, adc, published>>
    BY <1>5 DEF MainCheck
  <2>2. Released' = Released
    BY <1>5 DEF MainCheck, Released
  <2> QED
    BY <2>1, <2>2, RingSame
<1>6. CASE HAL_SPI_Transmit_IT /\ UNCHANGED masterVars
  <2>1. ~late /\ UNCHANGED <<frames, head, tail, currentSample, adc, published>>
    BY <1>6 DEF HAL_SPI_Transmit_IT, Transmit
  <2>2. Released' = Released
    BY <1>6, <1>b DEF HAL_SPI_Transmit_IT, Transmit, Released
  <2> QED
    BY <2>1, <2>2, RingSame
<1>7. CASE MainAdvance /\ UNCHANGED masterVars
  <2>1. ~late /\ main = "advance" /\ tail' = Wrap(tail)
        /\ UNCHANGED <<frames, head, currentSample, adc, published>>
    BY <1>7 DEF MainAdvance
  <2>2. Released' = Released + 1
    BY <1>7, <1>b DEF MainAdvance, Released
  <2>3. head # tail
    BY <2>1 DEF Transfer
  <2>4. Ahead(tail', head) = Ahead(tail, head) - 1
    BY <2>1, <2>3, <1>a, TailMoves
  <2>5. published - Released' = Ahead(tail', head)
    BY <2>1, <2>2, <2>4, <1>a, <1>b, <1>c, AheadRange DEF Ring
  <2>6. ASSUME NEW s \in Slots, Ahead(tail', s) < Ahead(tail', head)
        PROVE  Holds(frames[s], Released' + 1 + Ahead(tail', s))
    <3>1. s # tail
      BY <2>1, <2>6, <1>a, AheadRange, TailLeaves, WrapInSlots, Sizes
    <3>2. Ahead(tail', s) = Ahead(tail, s) - 1
      BY <2>1, <3>1, <1>a, TailMoves
    <3>3. Ahead(tail, s) < Ahead(tail, head)
      BY <2>4, <2>6, <3>2, <1>a, AheadRange
    <3>4. Holds(frames[s], Released + 1 + Ahead(tail, s))
      BY <2>1, <3>3 DEF Ring
    <3>5. Released' + 1 + Ahead(tail', s) = Released + 1 + Ahead(tail, s)
      BY <2>2, <3>2, <1>a, <1>c, AheadRange
    <3> QED
      BY <3>4, <3>5
  <2> QED
    BY <2>1, <2>5, <2>6 DEF Ring
<1>8. CASE SdadcSample /\ UNCHANGED masterVars
  <2>1. ~late /\ UNCHANGED <<head, tail, published>>
    BY <1>8 DEF SdadcSample
  <2>2. Released' = Released
    BY <1>8 DEF SdadcSample, Released
  <2>3. \A s \in Slots : Ahead(tail, s) < Ahead(tail, head) => frames'[s] = frames[s]
    BY <1>8, <1>a, AheadRange, SampleTaken
  <2>4. \A s \in Slots : Ahead(tail, s) < Ahead(tail, head) =>
            Holds(frames'[s], Released + 1 + Ahead(tail, s))
    BY <2>1, <2>3 DEF Ring
  <2>5. \A i \in 0 .. FRAME_DATA_COUNT - 1 :
            i < currentSample' => frames'[head].data[i] = published + 1
    <3>1. currentSample' = currentSample + 1
      BY <1>8 DEF SdadcSample
    <3>2. \A i \in 0 .. FRAME_DATA_COUNT - 1 :
              frames'[head].data[i] = IF i = currentSample THEN published + 1
                                                           ELSE frames[head].data[i]
      BY <1>8, SampleTaken
    <3>3. \A i \in 0 .. FRAME_DATA_COUNT - 1 :
              i < currentSample => frames[head].data[i] = published + 1
      BY <2>1 DEF Ring
    <3> QED
      BY <3>1, <3>2, <3>3, <1>b
  <2>6. adc' \in {"idle", "stamp"}
    BY <1>8 DEF SdadcSample
  <2> QED
    BY <2>1, <2>2, <2>4, <2>5, <2>6 DEF Ring
<1>9. CASE SdadcStamp /\ UNCHANGED masterVars
  <2>1. ~late /\ UNCHANGED <<head, tail, published>>
    BY <1>9 DEF SdadcStamp
  <2>2. Released' = Released
    BY <1>9 DEF SdadcStamp, Released
  <2>3. \A s \in Slots : Ahead(tail, s) < Ahead(tail, head) => frames'[s] = frames[s]
    BY <1>9, <1>a, AheadRange, FrameStamped
  <2>4. \A s \in Slots : Ahead(tail, s) < Ahead(tail, head) =>
            Holds(frames'[s], Released + 1 + Ahead(tail, s))
    BY <2>1, <2>3 DEF Ring
  <2>5. frames'[head].counter = published + 1
    BY <1>9, FrameStamped
  <2>6. frames'[head].data = frames[head].data /\ currentSample' = currentSample
    BY <1>9, FrameStamped DEF SdadcStamp
  <2> QED
    BY <2>1, <2>2, <2>4, <2>5, <2>6 DEF Ring
<1>10. CASE SdadcFlag /\ UNCHANGED masterVars
  <2>1. ~late /\ UNCHANGED <<head, tail, published>>
    BY <1>10 DEF SdadcFlag, SdadcTest, SdadcReset, Reset, SdadcMark
  <2>2. Released' = Released
    BY <1>10 DEF SdadcFlag, SdadcTest, SdadcReset, Reset, SdadcMark, Released
  <2>3. \A s \in Slots : Ahead(tail, s) < Ahead(tail, head) => frames'[s] = frames[s]
    BY <1>10, <1>a, AheadRange, FrameMarked
  <2>4. \A s \in Slots : Ahead(tail, s) < Ahead(tail, head) =>
            Holds(frames'[s], Released + 1 + Ahead(tail, s))
    BY <2>1, <2>3 DEF Ring
  <2>5. frames'[head].counter = published + 1
    BY <1>10, <2>1, FrameMarked DEF SdadcFlag, SdadcTest, SdadcReset, Reset, SdadcMark, Ring
  <2>6. frames'[head].data = frames[head].data /\ currentSample' = currentSample
    BY <1>10, FrameMarked DEF SdadcFlag, SdadcTest, SdadcReset, Reset, SdadcMark
  <2> QED
    BY <2>1, <2>2, <2>4, <2>5, <2>6 DEF Ring
<1>11. CASE SdadcPublish /\ UNCHANGED masterVars
  <2>1. /\ ~late /\ Wrap(head) # tail /\ adc = "publish" /\ adc' = "idle"
        /\ head' = Wrap(head) /\ published' = published + 1 /\ currentSample' = 0
        /\ UNCHANGED <<frames, tail>>
    BY <1>11 DEF SdadcPublish, Publish
  <2>2. Released' = Released
    BY <1>11 DEF SdadcPublish, Publish, Released
  <2>3. Ahead(tail, head') = Ahead(tail, head) + 1
    BY <2>1, <1>a, HeadMoves
  <2>4. published' - Released = Ahead(tail, head')
    BY <2>1, <2>3, <1>a, <1>b, <1>c, AheadRange DEF Ring
  <2>5. currentSample = FRAME_DATA_COUNT
    BY <2>1, <1>b, Sizes DEF Control
  <2>6. Holds(frames[head], published + 1)
    BY <2>1, <2>5, Sizes DEF Ring, Holds
  <2>7. published + 1 = Released + 1 + Ahead(tail, head)
    BY <2>1, <1>a, <1>b, <1>c, AheadRange DEF Ring
  <2>8. ASSUME NEW s \in Slots, Ahead(tail, s) < Ahead(tail, head')
        PROVE  Holds(frames[s], Released + 1 + Ahead(tail, s))
    <3>1. CASE s = head
      BY <2>6, <2>7, <3>1
    <3>2. CASE s # head
      <4>1. Ahead(tail, s) < Ahead(tail, head)
        BY <2>3, <2>8, <3>2, <1>a, AheadRange
      <4> QED
        BY <2>1, <4>1 DEF Ring
    <3> QED
      BY <3>1, <3>2
  <2> QED
    BY <2>1, <2>2, <2>4, <2>8, Sizes DEF Ring
<1>12. CASE HAL_TIM_IC_CaptureCallback /\ UNCHANGED masterVars
  <2>1. ~late /\ UNCHANGED <<frames, head, tail, currentSample, adc, published>>
    BY <1>12 DEF HAL_TIM_IC_CaptureCallback
  <2>2. Released' = Released
    BY <1>12 DEF HAL_TIM_IC_CaptureCallback, Released
  <2> QED
    BY <2>1, <2>2, RingSame
<1>13. CASE SPI3_IRQHandler /\ UNCHANGED masterVars
  <2>1. ~late /\ UNCHANGED <<frames, head, tail, currentSample, adc, published>>
    BY <1>13 DEF SPI3_IRQHandler, SendUnit
  <2>2. Released' = Released
    BY <1>13 DEF SPI3_IRQHandler, SendUnit, Released
  <2> QED
    BY <2>1, <2>2, RingSame
<1>14. CASE SPI_CloseTx_ISR /\ UNCHANGED masterVars
  <2>1. ~late /\ UNCHANGED <<frames, head, tail, currentSample, adc, published>>
    BY <1>14 DEF SPI_CloseTx_ISR
  <2>2. Released' = Released
    BY <1>14 DEF SPI_CloseTx_ISR, Released
  <2> QED
    BY <2>1, <2>2, RingSame
<1>15. CASE MainPin /\ PinEdge
  <2>1. ~late /\ UNCHANGED <<frames, head, tail, currentSample, adc, published>>
    BY <1>15 DEF MainPin, PinEdge
  <2>2. Released' = Released
    BY <1>15 DEF MainPin, PinEdge, Released
  <2> QED
    BY <2>1, <2>2, RingSame
<1>16. CASE LoadDriver
  <2>1. UNCHANGED dspVars
    BY <1>16 DEF LoadDriver
  <2>2. ~late /\ UNCHANGED <<frames, head, tail, currentSample, adc, published>>
    BY <2>1, DspRests
  <2>3. Released' = Released
    BY <2>1, DspRests DEF Released
  <2> QED
    BY <2>2, <2>3, RingSame
<1>17. CASE BeginRead
  <2>1. UNCHANGED dspVars
    BY <1>17 DEF BeginRead
  <2>2. ~late /\ UNCHANGED <<frames, head, tail, currentSample, adc, published>>
    BY <2>1, DspRests
  <2>3. Released' = Released
    BY <2>1, DspRests DEF Released
  <2> QED
    BY <2>2, <2>3, RingSame
<1>18. CASE ClockUnit
  <2>1. ~late /\ UNCHANGED <<frames, head, tail, currentSample, adc, published>>
    BY <1>18 DEF ClockUnit, ShiftOut
  <2>2. Released' = Released
    BY <1>18 DEF ClockUnit, ShiftOut, Released
  <2> QED
    BY <2>1, <2>2, RingSame
<1>19. CASE UNCHANGED vars
  <2>1. ~late /\ UNCHANGED <<frames, head, tail, currentSample, adc, published>>
    BY <1>19, DspRests, AllRest
  <2>2. Released' = Released
    BY <1>19, DspRests, AllRest DEF Released
  <2> QED
    BY <2>1, <2>2, RingSame
<1> QED
  BY <1>1, <1>2, <1>3, <1>4, <1>5, <1>6, <1>7, <1>8, <1>9, <1>10, <1>11, <1>12, <1>13,
     <1>14, <1>15, <1>16, <1>17, <1>18, <1>19
  DEF Next, DspNext, MasterNext, Internal, InitRunTime, MainTransmit, SDADC2_IRQHandler

\* A step that touches neither the port, head, tail nor a frame on its way keeps Transfer.
LEMMA TransferSame ==
    ASSUME Transfer, UNCHANGED <<frames, head, tail, hspi3, transfers, wire>>,
           main' \in {"transmit", "advance"} => main' = main
    PROVE  Transfer'
BY DEF Transfer, Holds

\* Every step keeps the frame being sent, and what was sent of it.
LEMMA TransferStep ==
    TypeOK /\ Control /\ (~late => Ring /\ Transfer) /\ [Next]_vars => (~late' => Transfer')
<1> SUFFICES ASSUME TypeOK, Control, ~late => Ring /\ Transfer, [Next]_vars, ~late'
             PROVE  Transfer'
  OBVIOUS
<1>a. frames \in [Slots -> Frame] /\ head \in Slots /\ tail \in Slots /\ hspi3 \in Port
  BY DEF TypeOK, Frame, Port
<1>b. transfers \in Nat /\ wire \in Seq(0 .. MaxFrames)
  BY DEF TypeOK
<1> USE DEF frameVars, gpsVars, spiVars, masterVars
<1>1. CASE reset_dsp
  <2>1. hspi3'.State = "ready" /\ main' = "initHead" /\ wire' = <<>>
    BY <1>1 DEF reset_dsp
  <2> QED
    BY <2>1 DEF Transfer
<1>2. CASE InitHead /\ UNCHANGED masterVars
  <2>1. ~late /\ UNCHANGED <<frames, head, tail, hspi3, transfers, wire>>
    BY <1>2 DEF InitHead, Control, Booting
  <2>2. main' \in {"transmit", "advance"} => main' = main
    BY <1>2 DEF InitHead
  <2> QED
    BY <2>1, <2>2, TransferSame
<1>3. CASE InitTail /\ UNCHANGED masterVars
  <2>1. ~late /\ UNCHANGED <<frames, head, tail, hspi3, transfers, wire>>
    BY <1>3 DEF InitTail, Control, Booting
  <2>2. main' \in {"transmit", "advance"} => main' = main
    BY <1>3 DEF InitTail
  <2> QED
    BY <2>1, <2>2, TransferSame
<1>4. CASE InitSample /\ UNCHANGED masterVars
  <2>1. ~late /\ UNCHANGED <<frames, head, tail, hspi3, transfers, wire>>
    BY <1>4 DEF InitSample
  <2>2. main' \in {"transmit", "advance"} => main' = main
    BY <1>4 DEF InitSample
  <2> QED
    BY <2>1, <2>2, TransferSame
<1>5. CASE MainCheck /\ UNCHANGED masterVars
  <2>1. /\ ~late /\ head # tail /\ main' = "transmit"
        /\ UNCHANGED <<frames, head, tail, hspi3, transfers, wire>>
    BY <1>5 DEF MainCheck
  <2> QED
    BY <2>1 DEF Transfer, Holds
<1>6. CASE HAL_SPI_Transmit_IT /\ UNCHANGED masterVars
  <2>1. /\ ~late /\ main = "transmit" /\ main' = "advance"
        /\ hspi3'.slot = tail /\ transfers' = transfers + 1 /\ wire' = <<>>
        /\ UNCHANGED <<frames, head, tail>>
    BY <1>6 DEF HAL_SPI_Transmit_IT, Transmit
  <2>2. head # tail
    BY <2>1 DEF Transfer
  <2>3. Ahead(tail, tail) = 0 /\ Ahead(tail, tail) < Ahead(tail, head)
    BY <2>2, <1>a, AheadRange
  <2>4. Holds(frames[tail], Released + 1 + 0)
    BY <2>1, <2>3, <1>a DEF Ring
  <2>5. Released + 1 + 0 = transfers'
    BY <2>1, <1>b DEF Released
  <2> QED
    BY <2>1, <2>2, <2>4, <2>5 DEF Transfer
<1>7. CASE MainAdvance /\ UNCHANGED masterVars
  <2>1. ~late /\ main' = "pin" /\ UNCHANGED <<frames, head, hspi3, transfers, wire>>
    BY <1>7 DEF MainAdvance
  <2> QED
    BY <2>1 DEF Transfer, Holds
<1>8. CASE SdadcSample /\ UNCHANGED masterVars
  <2>1. ~late /\ UNCHANGED <<head, tail, hspi3, transfers, wire, main>>
    BY <1>8 DEF SdadcSample
  <2>2. hspi3.State = "busy" => frames'[hspi3.slot] = frames[hspi3.slot]
    BY <1>8, <1>a, <2>1, SampleTaken DEF Transfer, Port
  <2> QED
    BY <2>1, <2>2 DEF Transfer, Holds
<1>9. CASE SdadcStamp /\ UNCHANGED masterVars
  <2>1. ~late /\ UNCHANGED <<head, tail, hspi3, transfers, wire, main>>
    BY <1>9 DEF SdadcStamp
  <2>2. hspi3.State = "busy" => frames'[hspi3.slot] = frames[hspi3.slot]
    BY <1>9, <1>a, <2>1, FrameStamped DEF Transfer, Port
  <2> QED
    BY <2>1, <2>2 DEF Transfer, Holds
<1>10. CASE SdadcFlag /\ UNCHANGED masterVars
  <2>1. ~late /\ UNCHANGED <<head, tail, hspi3, transfers, wire, main>>
    BY <1>10 DEF SdadcFlag, SdadcTest, SdadcReset, Reset, SdadcMark
  <2>2. hspi3.State = "busy" => frames'[hspi3.slot] = frames[hspi3.slot]
    BY <1>10, <1>a, <2>1, FrameMarked DEF Transfer, Port
  <2> QED
    BY <2>1, <2>2 DEF Transfer, Holds
<1>11. CASE SdadcPublish /\ UNCHANGED masterVars
  <2>1. /\ ~late /\ Wrap(head) # tail /\ ~(hspi3.State = "busy" /\ Wrap(head) = hspi3.slot)
        /\ head' = Wrap(head) /\ UNCHANGED <<frames, tail, hspi3, transfers, wire, main>>
    BY <1>11 DEF SdadcPublish, Publish
  <2> QED
    BY <2>1 DEF Transfer, Holds
<1>12. CASE HAL_TIM_IC_CaptureCallback /\ UNCHANGED masterVars
  <2>1. ~late /\ UNCHANGED <<frames, head, tail, hspi3, transfers, wire>>
    BY <1>12 DEF HAL_TIM_IC_CaptureCallback
  <2>2. main' \in {"transmit", "advance"} => main' = main
    BY <1>12 DEF HAL_TIM_IC_CaptureCallback
  <2> QED
    BY <2>1, <2>2, TransferSame
<1>13. CASE SPI3_IRQHandler /\ UNCHANGED masterVars
  <2>1. ~late /\ hspi3.State = "busy" /\ UNCHANGED <<frames, head, tail, transfers, main>>
    BY <1>13 DEF SPI3_IRQHandler, SendUnit
  <2>2. wire' = Append(wire, Unit(frames[hspi3.slot], Units - hspi3.TxXferCount))
    BY <1>13 DEF SPI3_IRQHandler, SendUnit
  <2>3. Units - hspi3.TxXferCount \in 0 .. FRAME_DATA_COUNT /\ hspi3'.slot = hspi3.slot
    BY <1>13, UnitSent
  <2>4. frames[hspi3.slot] \in Frame
    BY <1>a DEF Port
  <2>5. Holds(frames[hspi3.slot], transfers)
    BY <2>1 DEF Transfer
  <2>6. Unit(frames[hspi3.slot], Units - hspi3.TxXferCount) = transfers
    BY <2>3, <2>4, <2>5, UnitRead
  <2>7. wire' = Append(wire, transfers)
    BY <2>2, <2>6
  <2>8. \A i \in 1 .. Len(wire') : wire'[i] = transfers
    BY <1>b, <2>1, <2>7 DEF Transfer
  <2> QED
    BY <2>1, <2>3, <2>8 DEF Transfer
<1>14. CASE SPI_CloseTx_ISR /\ UNCHANGED masterVars
  <2>1. /\ ~late /\ hspi3'.State = "ready" /\ hspi3.State = "closing"
        /\ UNCHANGED <<head, tail, transfers, wire, main>>
    BY <1>14, <1>a DEF SPI_CloseTx_ISR, Closing, Port
  <2>2. main \notin {"advance"}
    BY <2>1 DEF Control
  <2> QED
    BY <2>1, <2>2 DEF Transfer
<1>15. CASE MainPin /\ PinEdge
  <2>1. ~late /\ UNCHANGED <<frames, head, tail, hspi3, transfers, wire>>
    BY <1>15 DEF MainPin, PinEdge
  <2>2. main' \in {"transmit", "advance"} => main' = main
    BY <1>15 DEF MainPin, PinEdge
  <2> QED
    BY <2>1, <2>2, TransferSame
<1>16. CASE LoadDriver
  <2>1. UNCHANGED dspVars
    BY <1>16 DEF LoadDriver
  <2> QED
    BY <2>1, DspRests, TransferSame
<1>17. CASE BeginRead
  <2>1. UNCHANGED dspVars
    BY <1>17 DEF BeginRead
  <2> QED
    BY <2>1, DspRests, TransferSame
<1>18. CASE ClockUnit
  <2>1. ~late /\ UNCHANGED <<frames, head, tail, hspi3, transfers, wire>>
    BY <1>18 DEF ClockUnit, ShiftOut
  <2>2. main' \in {"transmit", "advance"} => main' = main
    BY <1>18 DEF ClockUnit, ShiftOut
  <2> QED
    BY <2>1, <2>2, TransferSame
<1>19. CASE UNCHANGED vars
  BY <1>19, DspRests, AllRest, TransferSame
<1> QED
  BY <1>1, <1>2, <1>3, <1>4, <1>5, <1>6, <1>7, <1>8, <1>9, <1>10, <1>11, <1>12, <1>13,
     <1>14, <1>15, <1>16, <1>17, <1>18, <1>19
  DEF Next, DspNext, MasterNext, Internal, InitRunTime, MainTransmit, SDADC2_IRQHandler

-----------------------------------------------------------------------------
(***************************************************************************)
(* The theorems.                                                           *)
(***************************************************************************)
\* The state after power-on.
LEMMA InvInit == Init => Inv
<1> SUFFICES ASSUME Init PROVE Inv
  OBVIOUS
<1>1. frames \in [Slots -> Frame]
  BY EmptyRing DEF Init
<1>2. /\ hspi3 \in Port /\ hspi3.State = "ready" /\ hspi3.TxXferCount = 0
      /\ fifo = 0 /\ pin = 0 /\ wire = <<>>
  BY WrapInSlots, Sizes DEF Init, Port
<1>3. /\ head = 0 /\ tail = 0 /\ currentSample = 0 /\ published = 0 /\ transfers = 0
      /\ gps_last_counter = 0 /\ pulses = 0 /\ flagged = 0 /\ lastPulse = -Units
      /\ main = "initHead" /\ adc = "idle" /\ master = "absent" /\ toClock = 0
  BY DEF Init
<1>4. ~gps_pulse_flag /\ ~edge /\ ~late /\ ~missed
  BY DEF Init
<1>5. /\ gps_pulse_flag \in BOOLEAN /\ edge \in BOOLEAN /\ late \in BOOLEAN /\ missed \in BOOLEAN
  BY Zenon DEF Init
<1>6. /\ currentSample \in 0 .. FRAME_DATA_COUNT /\ published \in 0 .. MaxFrames
      /\ toClock \in 0 .. Units /\ lastPulse \in Int /\ wire \in Seq(0 .. MaxFrames)
  BY <1>2, <1>3, Sizes
<1>7. TypeOK
  BY <1>1, <1>2, <1>3, <1>5, <1>6, WrapInSlots DEF TypeOK, Frame, Port
<1>8. Control /\ Handshake
  BY <1>2, <1>3, <1>4, Sizes DEF Control, Handshake, Booting
<1>9. Pulses
  BY <1>3, <1>4 DEF Pulses, PulseMarkedOnce, StampFollowsMark
<1>10. Ring
  <2>1. Ahead(0, 0) = 0 /\ \A s \in Slots : ~(Ahead(0, s) < 0)
    BY AheadRange, WrapInSlots
  <2>2. Released = 0
    BY <1>3 DEF Released
  <2> QED
    BY <1>3, <2>1, <2>2, Sizes DEF Ring
<1>11. Transfer
  BY <1>2, <1>3 DEF Transfer
<1> QED
  BY <1>7, <1>8, <1>9, <1>10, <1>11 DEF Inv

\* Every step of the DSP and of the bus master keeps the invariant.
LEMMA InvStep == Inv /\ [Next]_vars => Inv'
BY TypeStep, ControlStep, HandshakeStep, PulsesStep, RingStep, TransferStep DEF Inv

(***************************************************************************)
(* The inductive invariant of the firmware and its bus master.             *)
(***************************************************************************)
THEOREM FirmwareInvariant == Spec => []Inv
BY InvInit, InvStep, PTL DEF Spec

(***************************************************************************)
(* The state of the firmware is well typed: neither head nor tail leaves   *)
(* the ring, no sample is written behind the end of a frame although       *)
(* init_OPQ_RunTime resets the positions while conversions are running,    *)
(* and the count of units left never goes below zero.                      *)
(***************************************************************************)
THEOREM FirmwareTyped == Spec => []TypeOK
<1>1. Inv => TypeOK
  BY DEF Inv
<1> QED
  BY <1>1, FirmwareInvariant, PTL

(***************************************************************************)
(* The k-th transfer carries frame k, whole, unless head ran into a slot   *)
(* that was not sent yet: for every size of the ring and of a frame.       *)
(***************************************************************************)
THEOREM TransfersCorrect == Spec => []TransfersAreFrames
<1>1. Inv => TransfersAreFrames
  BY DEF Inv, TransfersAreFrames, Transfer
<1> QED
  BY <1>1, FirmwareInvariant, PTL

(***************************************************************************)
(* Every GPS pulse is marked in exactly one frame, wherever the capture    *)
(* interrupts the SDADC handler.                                           *)
(***************************************************************************)
THEOREM PulsesMarked == Spec => []PulseMarkedOnce
<1>1. Inv => PulseMarkedOnce
  BY DEF Inv, Pulses
<1> QED
  BY <1>1, FirmwareInvariant, PTL

(***************************************************************************)
(* A complete frame is stamped with the pulse its mark says, or, when it   *)
(* is marked, with the one before.                                         *)
(***************************************************************************)
THEOREM StampsCorrect == Spec => []StampFollowsMark
<1>1. Inv => StampFollowsMark
  BY DEF Inv, Pulses
<1> QED
  BY <1>1, FirmwareInvariant, PTL

(***************************************************************************)
(* Each transfer makes one rising edge: the pin is low when main raises    *)
(* it, and high only in the first half of a transfer.                      *)
(***************************************************************************)
THEOREM EdgesCorrect == Spec => []EdgePerTransfer
<1>1. Inv => EdgePerTransfer
  BY DEF Inv, Handshake, EdgePerTransfer
<1> QED
  BY <1>1, FirmwareInvariant, PTL

(***************************************************************************)
(* The bus master clocks as many units as the DSP has left to send, and    *)
(* only sees an edge for a transfer that is waiting.                       *)
(***************************************************************************)
THEOREM MasterCorrect == Spec => []MasterInStep
<1>1. Inv => MasterInStep
  BY DEF Inv, Handshake, Untouched, MasterInStep
<1> QED
  BY <1>1, FirmwareInvariant, PTL

=============================================================================
