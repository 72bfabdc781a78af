---------------------------- MODULE DspFirmware ----------------------------
(***************************************************************************)
(* The firmware of the STM32F373 (Firmware/Src).  The SDADC interrupt      *)
(* fills frames of FRAME_DATA_COUNT samples in a ring of FRAME_BUFFER_SIZE *)
(* slots, the TIM4 interrupt notes the GPS pulse per second, and the main  *)
(* loop hands complete frames to the SPI peripheral, whose interrupt feeds *)
(* them unit by unit to the Raspberry Pi, which clocks the bus after the   *)
(* data-ready pin rises.                                                   *)
(*                                                                         *)
(* SPI3 and TIM4 have interrupt priority 0, SDADC2 has 1: the first two    *)
(* preempt the SDADC handler anywhere, all preempt main, and neither of    *)
(* the first two preempts the other.                                       *)
(*                                                                         *)
(* Samples and the frame's counter are abstracted to the number of the     *)
(* frame they were taken for, captured timer values to the number of the   *)
(* pulse.  A transfer is cut into one unit per sample and one for the rest *)
(* of OPQ_Frame.                                                           *)
(***************************************************************************)
EXTENDS Integers, Sequences

CONSTANTS
    FRAME_BUFFER_SIZE,  \* slots of the ring (4 in the code)
    FRAME_DATA_COUNT,   \* samples of a frame (200 in the code)
    MaxFrames,          \* bound: frames completed since the reset
    MaxBootSamples      \* bound: samples taken before init_OPQ_RunTime is done

ASSUME SizeAssumption == FRAME_BUFFER_SIZE \in Nat /\ FRAME_BUFFER_SIZE > 2
ASSUME SamplesAssumption == FRAME_DATA_COUNT \in Nat /\ FRAME_DATA_COUNT > 1
ASSUME BootAssumption == MaxBootSamples \in 0 .. FRAME_DATA_COUNT - 2
ASSUME FramesAssumption == MaxFrames \in Nat

VARIABLES
    \* frameBuffer
    frames, head, tail, currentSample, gps_pulse_flag, gps_last_counter,
    \* hspi3 and the peripheral behind it
    hspi3,          \* [State, slot, TxXferCount]
    fifo,           \* units written to the data register and not clocked out
    pin,            \* level of the data-ready pin
    \* control
    main,           \* where main is
    adc,            \* where the SDADC interrupt is
    \* the Raspberry Pi's side of the bus
    master,         \* "absent", "idle" or "clocking"
    edge,           \* has the pin risen since the last transfer began?
    toClock,        \* units left to clock
    missed,         \* did the pin rise while nobody listened?
    \* history
    published,      \* frames completed since the reset
    transfers,      \* transfers started since the reset
    wire,           \* units sent in the current transfer
    pulses,         \* GPS pulses since the reset
    flagged,        \* frames marked OPQ_GPS_THIS_FRAME since the reset
    lastPulse,      \* sample time of the last pulse
    late            \* did head run into a slot that was not sent yet?

frameVars  == <<frames, head, tail, currentSample>>
gpsVars    == <<gps_pulse_flag, gps_last_counter, pulses, flagged, lastPulse>>
spiVars    == <<hspi3, fifo, wire>>
masterVars == <<master, edge, toClock, missed>>
dspVars    == <<frameVars, gpsVars, spiVars, pin, main, adc, published, transfers, late>>
vars == <<dspVars, masterVars>>

Slots == 0 .. FRAME_BUFFER_SIZE - 1
Units == FRAME_DATA_COUNT + 1       \* hspi3.TxXferSize

\* Mutant: wraps one slot too late.
MWrap(i) == IF i + 1 > FRAME_BUFFER_SIZE THEN 0 ELSE i + 1

\* if (++i >= FRAME_BUFFER_SIZE) i = 0;
Wrap(i) == IF i + 1 >= FRAME_BUFFER_SIZE THEN 0 ELSE i + 1

\* Sample time, to keep GPS pulses a frame apart.
Now == published * FRAME_DATA_COUNT + currentSample

\* SPI3_IRQHandler waits for the bus with every other interrupt shut out.
Closing == hspi3.State = "closing"

\* main runs when no interrupt is being served.
MainRuns == adc = "idle" /\ ~Closing

EmptyFrame == [data    |-> [i \in 0 .. FRAME_DATA_COUNT - 1 |-> 0],
               counter |-> 0, last_gps_counter |-> 0, flags |-> FALSE]

-----------------------------------------------------------------------------
(***************************************************************************)
(* Reset: static memory is zero, the pin is low, conversions are running   *)
(* before main reaches init_OPQ_RunTime.                                   *)
(***************************************************************************)
Init ==
    /\ frames = [s \in Slots |-> EmptyFrame]
    /\ head = 0 /\ tail = 0 /\ currentSample = 0
    /\ gps_pulse_flag = FALSE /\ gps_last_counter = 0
    /\ hspi3 = [State |-> "ready", slot |-> 0, TxXferCount |-> 0]
    /\ fifo = 0
    /\ pin = 0
    /\ main = "initHead"
    /\ adc = "idle"
    /\ published = 0 /\ transfers = 0 /\ wire = <<>>
    /\ pulses = 0 /\ flagged = 0 /\ lastPulse = -Units
    /\ late = FALSE /\ missed = FALSE
    /\ master = "absent" /\ edge = FALSE /\ toClock = 0

(***************************************************************************)
(* isp.reset_dsp holds the reset line low for 0.1 s: a transfer that was   *)
(* pending or in progress runs out on the dead bus meanwhile.              *)
(***************************************************************************)
reset_dsp ==
    /\ frames' = [s \in Slots |-> EmptyFrame]
    /\ head' = 0 /\ tail' = 0 /\ currentSample' = 0
    /\ gps_pulse_flag' = FALSE /\ gps_last_counter' = 0
    /\ hspi3' = [State |-> "ready", slot |-> 0, TxXferCount |-> 0]
    /\ fifo' = 0
    /\ pin' = 0
    /\ main' = "initHead"
    /\ adc' = "idle"
    /\ published' = 0 /\ transfers' = 0 /\ wire' = <<>>
    /\ pulses' = 0 /\ flagged' = 0 /\ lastPulse' = -Units
    /\ late' = FALSE /\ missed' = FALSE
    /\ edge' = FALSE /\ toClock' = 0
    /\ master' = IF master = "clocking" THEN "idle" ELSE master

InitHead ==
    /\ main = "initHead" /\ MainRuns
    /\ main' = "initTail"
    /\ head' = 0
    /\ UNCHANGED <<frames, tail, currentSample, gpsVars, spiVars, pin, adc,
                   published, transfers, late>>

InitTail ==
    /\ main = "initTail" /\ MainRuns
    /\ main' = "initSample"
    /\ tail' = 0
    /\ UNCHANGED <<frames, head, currentSample, gpsVars, spiVars, pin, adc,
                   published, transfers, late>>

\* The last assignment of init_OPQ_RunTime, and the pin low.
InitSample ==
    /\ main = "initSample" /\ MainRuns
    /\ main' = "check"
    /\ currentSample' = 0
    /\ pin' = 0
    /\ UNCHANGED <<frames, head, tail, gpsVars, spiVars, adc,
                   published, transfers, late>>

-----------------------------------------------------------------------------
(***************************************************************************)
(* The main loop.                                                          *)
(***************************************************************************)
MainCheck ==
    /\ main = "check" /\ MainRuns
    /\ hspi3.State = "ready"
    /\ head # tail
    /\ main' = "transmit"
    /\ UNCHANGED <<frameVars, gpsVars, spiVars, pin, adc,
                   published, transfers, late>>

Transmit(slot, count) ==
    /\ main = "transmit" /\ MainRuns
    /\ main' = "advance"
    /\ hspi3' = [State |-> "busy", slot |-> slot, TxXferCount |-> count]
    /\ transfers' = transfers + 1
    /\ wire' = <<>>
    /\ UNCHANGED <<frameVars, gpsVars, fifo, pin, adc, published, late>>

\* Mutant: tail is advanced before the transfer is set up.
MTransmitNext == Transmit(Wrap(tail), Units)

\* Mutant: the transfer is one unit shorter than the driver's buffer.
MTransmitShort == Transmit(tail, Units - 1)

HAL_SPI_Transmit_IT == Transmit(tail, Units)

MainAdvance ==
    /\ main = "advance" /\ MainRuns
    /\ main' = "pin"
    /\ tail' = Wrap(tail)
    /\ UNCHANGED <<frames, head, currentSample, gpsVars, spiVars, pin, adc,
                   published, transfers, late>>

\* The data-ready pin goes high.
MainPin ==
    /\ main = "pin" /\ MainRuns
    /\ main' = "check"
    /\ pin' = 1
    /\ UNCHANGED <<frameVars, gpsVars, spiVars, adc, published, transfers, late>>

-----------------------------------------------------------------------------
(***************************************************************************)
(* HAL_SDADC_InjectedConvCpltCallback, called by SDADC2_IRQHandler.        *)
(***************************************************************************)
SdadcSample ==
    /\ adc = "idle" /\ ~Closing
    /\ published < MaxFrames
    /\ main \in {"initHead", "initTail", "initSample"} => currentSample < MaxBootSamples
    /\ frames' = [frames EXCEPT ![head].data[currentSample] = published + 1]
    /\ currentSample' = currentSample + 1
    /\ adc' = IF currentSample + 1 >= FRAME_DATA_COUNT THEN "stamp" ELSE "idle"
    /\ UNCHANGED <<head, tail, gpsVars, spiVars, pin, main,
                   published, transfers, late>>

SdadcStamp ==
    /\ adc = "stamp" /\ ~Closing
    /\ adc' = "flag"
    /\ frames' = [frames EXCEPT ![head].last_gps_counter = gps_last_counter,
                                ![head].counter = published + 1]
    /\ UNCHANGED <<head, tail, currentSample, gpsVars, spiVars, pin, main,
                   published, transfers, late>>

\* flags = 0, then the test of the pulse flag that TIM4 may set at any moment.
SdadcTest ==
    /\ adc = "flag" /\ ~Closing
    /\ adc' = IF gps_pulse_flag THEN "reset" ELSE "publish"
    /\ frames' = [frames EXCEPT ![head].flags = FALSE]
    /\ UNCHANGED <<head, tail, currentSample, gpsVars, spiVars, pin, main,
                   published, transfers, late>>

Reset(left) ==
    /\ adc = "reset" /\ ~Closing
    /\ adc' = "mark"
    /\ gps_pulse_flag' = left
    /\ UNCHANGED <<frameVars, gps_last_counter, pulses, flagged, lastPulse, spiVars,
                   pin, main, published, transfers, late>>

\* Mutant: the pulse flag is not reset.
MFlagNotReset == Reset(gps_pulse_flag)

SdadcReset == Reset(FALSE)

SdadcMark ==
    /\ adc = "mark" /\ ~Closing
    /\ adc' = "publish"
    /\ frames' = [frames EXCEPT ![head].flags = TRUE]
    /\ flagged' = flagged + 1
    /\ UNCHANGED <<head, tail, currentSample, gps_pulse_flag, gps_last_counter, pulses,
                   lastPulse, spiVars, pin, main, published, transfers, late>>

SdadcFlag == SdadcTest \/ SdadcReset \/ SdadcMark

Publish(left) ==
    /\ adc = "publish" /\ ~Closing
    /\ adc' = "idle"
    /\ currentSample' = 0
    /\ head' = Wrap(head)
    /\ published' = published + 1
    /\ late' = (late \/ Wrap(head) = tail
                     \/ (hspi3.State = "busy" /\ Wrap(head) = hspi3.slot))
    /\ gps_pulse_flag' = left
    /\ UNCHANGED <<frames, tail, gps_last_counter, pulses, flagged, lastPulse, spiVars,
                   pin, main, transfers>>

\* Mutant: the pulse flag is reset at the end of the interrupt.
MFlagResetLate == Publish(FALSE)

\* The frame is complete.  Nothing compares head with tail.
SdadcPublish == Publish(gps_pulse_flag)

\* TIM4_IRQHandler, a pulse per second: more than a frame apart.
HAL_TIM_IC_CaptureCallback ==
    /\ ~Closing
    /\ Now - lastPulse > FRAME_DATA_COUNT
    /\ gps_pulse_flag' = TRUE
    /\ gps_last_counter' = pulses + 1
    /\ pulses' = pulses + 1
    /\ lastPulse' = Now
    /\ UNCHANGED <<frameVars, flagged, spiVars, pin, main, adc,
                   published, transfers, late>>

-----------------------------------------------------------------------------
(***************************************************************************)
(* SPI3_IRQHandler: the pin goes low half way; one more unit is written to *)
(* the data register; after the last one SPI_CloseTx_ISR waits until the   *)
(* bus has taken everything.                                               *)
(***************************************************************************)
Unit(f, i) == IF i < FRAME_DATA_COUNT THEN f.data[i] ELSE f.counter

SendUnit(level) ==
    /\ hspi3.State = "busy"
    /\ fifo = 0
    /\ pin' = level
    /\ wire' = Append(wire, Unit(frames[hspi3.slot], Units - hspi3.TxXferCount))
    /\ fifo' = 1
    /\ hspi3' = [hspi3 EXCEPT !.TxXferCount = @ - 1,
                              !.State = IF hspi3.TxXferCount = 1 THEN "closing" ELSE @]
    /\ UNCHANGED <<frameVars, gpsVars, main, adc, published, transfers, late>>

\* Mutant: the pin is not lowered half way.
MPinStaysHigh == SendUnit(pin)

SPI3_IRQHandler == SendUnit(IF hspi3.TxXferCount = Units \div 2 THEN 0 ELSE pin)

SPI_CloseTx_ISR ==
    /\ Closing
    /\ fifo = 0
    /\ hspi3' = [hspi3 EXCEPT !.State = "ready"]
    /\ UNCHANGED <<frameVars, gpsVars, fifo, wire, pin, main, adc,
                   published, transfers, late>>

-----------------------------------------------------------------------------
(***************************************************************************)
(* The Raspberry Pi, as Software/kernel/opq_main.c uses the bus: once      *)
(* loaded it reads one frame per rising edge, at its own pace.             *)
(***************************************************************************)
LoadDriver ==
    /\ master = "absent"
    /\ master' = "idle"
    /\ UNCHANGED <<dspVars, edge, toClock, missed>>

\* Only a rising edge is seen, by a loaded driver.
PinEdge ==
    /\ edge' = (edge \/ (pin = 0 /\ master # "absent"))
    /\ missed' = (missed \/ master = "absent")
    /\ UNCHANGED <<master, toClock>>

BeginRead ==
    /\ master = "idle" /\ edge
    /\ master' = "clocking"
    /\ edge' = FALSE
    /\ toClock' = Units
    /\ UNCHANGED <<dspVars, missed>>

\* The bus takes the unit in the data register.
ShiftOut ==
    /\ fifo = 1
    /\ fifo' = 0
    /\ UNCHANGED <<frameVars, gpsVars, hspi3, wire, pin, main, adc,
                   published, transfers, late>>

ClockUnit ==
    /\ master = "clocking"
    /\ ShiftOut
    /\ toClock' = toClock - 1
    /\ master' = IF toClock = 1 THEN "idle" ELSE "clocking"
    /\ UNCHANGED <<edge, missed>>

-----------------------------------------------------------------------------
InitRunTime == InitHead \/ InitTail \/ InitSample
MainTransmit == MainCheck \/ HAL_SPI_Transmit_IT \/ MainAdvance
SDADC2_IRQHandler == SdadcSample \/ SdadcStamp \/ SdadcFlag \/ SdadcPublish

\* What the DSP does without a change of the pin that the driver would see.
Internal ==
    \/ InitRunTime \/ MainTransmit \/ SDADC2_IRQHandler
    \/ SPI3_IRQHandler \/ SPI_CloseTx_ISR

DspNext ==
    \/ (Internal \/ HAL_TIM_IC_CaptureCallback) /\ UNCHANGED masterVars
    \/ MainPin /\ PinEdge

MasterNext == LoadDriver \/ BeginRead \/ ClockUnit

Next == reset_dsp \/ DspNext \/ MasterNext

(***************************************************************************)
(* The processor runs main when no interrupt is pending, interrupts are    *)
(* served, and a driver that saw an edge reads the frame.  Resets, pulses  *)
(* and the loading of the driver need not happen.                          *)
(***************************************************************************)
Fairness ==
    /\ SF_vars((InitRunTime \/ MainTransmit) /\ UNCHANGED masterVars)
    /\ SF_vars(MainPin /\ PinEdge)
    /\ WF_vars(SDADC2_IRQHandler /\ UNCHANGED masterVars)
    /\ WF_vars((SPI3_IRQHandler \/ SPI_CloseTx_ISR) /\ UNCHANGED masterVars)
    /\ WF_vars(BeginRead) /\ WF_vars(ClockUnit)

Spec == Init /\ [][Next]_vars

FairSpec == Spec /\ Fairness

-----------------------------------------------------------------------------
(***************************************************************************)
(* Correctness.                                                            *)
(***************************************************************************)
TypeOK ==
    /\ frames \in [Slots -> [data : [0 .. FRAME_DATA_COUNT - 1 -> 0 .. MaxFrames],
                             counter : 0 .. MaxFrames, last_gps_counter : Nat,
                             flags : BOOLEAN]]
    /\ head \in Slots /\ tail \in Slots
    /\ currentSample \in 0 .. FRAME_DATA_COUNT
    /\ gps_pulse_flag \in BOOLEAN /\ gps_last_counter \in Nat
    /\ hspi3 \in [State : {"ready", "busy", "closing"}, slot : Slots, TxXferCount : 0 .. Units]
    /\ fifo \in {0, 1} /\ pin \in {0, 1}
    /\ main \in {"initHead", "initTail", "initSample", "check", "transmit", "advance", "pin"}
    /\ adc \in {"idle", "stamp", "flag", "reset", "mark", "publish"}
    /\ master \in {"absent", "idle", "clocking"}
    /\ edge \in BOOLEAN /\ toClock \in 0 .. Units
    /\ published \in 0 .. MaxFrames /\ transfers \in Nat
    /\ wire \in Seq(0 .. MaxFrames)
    /\ pulses \in Nat /\ flagged \in Nat /\ lastPulse \in Int
    /\ late \in BOOLEAN /\ missed \in BOOLEAN

(***************************************************************************)
(* As long as head never ran into a slot that was not sent yet, the k-th   *)
(* transfer carries exactly frame k, every unit of it: no frame lost,      *)
(* repeated or torn although tail moves on before the transfer has begun   *)
(* and the SDADC interrupt never looks at tail.                            *)
(***************************************************************************)
TransfersAreFrames ==
    ~late => \A i \in 1 .. Len(wire) : wire[i] = transfers

(***************************************************************************)
(* Every pulse is marked in exactly one frame, at whichever step of the    *)
(* SDADC interrupt the capture falls: its mark is due (the flag is up, or  *)
(* taken down for the frame about to be marked) or made.  A capture        *)
(* between the test of the flag and its reset would be lost; it would have *)
(* to come within a frame of the pulse whose flag was tested.              *)
(***************************************************************************)
PulseMarkedOnce ==
    pulses = flagged + (IF gps_pulse_flag \/ adc = "mark" THEN 1 ELSE 0)

(***************************************************************************)
(* A frame without the mark is stamped with the last pulse marked before   *)
(* it; a frame with the mark, with its own pulse or, when the capture came *)
(* between stamp and flag, with the one before.                            *)
(***************************************************************************)
StampFollowsMark ==
    adc = "publish" =>
        frames[head].last_gps_counter
            \in IF frames[head].flags THEN {flagged, flagged - 1} ELSE {flagged}

(***************************************************************************)
(* The pin is low again before main raises it for the next frame, and it   *)
(* is high only while a transfer is in its first half.                     *)
(***************************************************************************)
EdgePerTransfer ==
    /\ main = "pin" => pin = 0
    /\ pin = 1 => hspi3.State = "busy" /\ hspi3.TxXferCount >= Units \div 2

(***************************************************************************)
(* The bus is clocked only for a transfer the DSP started: what is left to *)
(* clock is what is left to send.                                          *)
(***************************************************************************)
MasterInStep ==
    /\ master = "clocking" => toClock = hspi3.TxXferCount + fifo
    /\ edge => master = "idle" /\ hspi3.State = "busy"

(***************************************************************************)
(* What the driver's init script says of loading it: "Enables              *)
(* acquisition".  With the driver loaded, a frame the DSP offers is read.  *)
(***************************************************************************)
LoadEnablesAcquisition ==
    (master = "idle" /\ hspi3.State = "busy") ~> (hspi3.State = "ready")

=============================================================================
