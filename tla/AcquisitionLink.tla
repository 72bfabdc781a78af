--------------------------- MODULE AcquisitionLink ---------------------------
(***************************************************************************)
(* The DSP and the Linux driver joined by the data-ready pin and the SPI   *)
(* bus.  In DspFirmware the bus master is a stub and in OpqDriver a frame  *)
(* appears from nowhere; here the rising pin is the interrupt, the units   *)
(* clocked during spi_read are the ones the DSP shifts out, and a read of  *)
(* /dev/opq0 returns what came over the wire.                              *)
(*                                                                         *)
(* The box is powered on once and the driver loaded at any time after      *)
(* that, from "unloaded" in the four steps of opq_module_init.  Resets,    *)
(* unloading and GPS pulses are in the runs of the two parts.              *)
(***************************************************************************)
EXTENDS OpqDriver, Sequences

CONSTANTS FRAME_BUFFER_SIZE, FRAME_DATA_COUNT, MaxFrames, MaxBootSamples

\* The bounds let every data-ready edge be an interrupt.
ASSUME LinkAssumption == MaxFrames <= MaxInterrupts /\ ~Faults

\* What DspFirmware assumes of its constants.
ASSUME DspAssumption ==
    /\ FRAME_BUFFER_SIZE \in Nat /\ FRAME_BUFFER_SIZE > 2
    /\ FRAME_DATA_COUNT \in Nat /\ FRAME_DATA_COUNT > 1
    /\ MaxBootSamples \in 0 .. FRAME_DATA_COUNT - 2
    /\ MaxFrames \in Nat

VARIABLES
    \* the DSP (see DspFirmware)
    frames, head, tail, currentSample, gps_pulse_flag, gps_last_counter,
    hspi3, fifo, pin, main, adc,
    published, transfers, wire, pulses, flagged, lastPulse, late,
    \* the SPI controller of the Raspberry Pi
    toClock,    \* units that spi_read has still to clock
    missed,     \* did the pin rise while nobody listened?
    \* history
    received    \* units that each spi_read since the load brought

dspVars    == <<frames, head, tail, currentSample, gps_pulse_flag, gps_last_counter,
                hspi3, fifo, pin, main, adc,
                published, transfers, wire, pulses, flagged, lastPulse, late>>
busVars    == <<toClock, missed, received>>
driverVars == vars
linkVars   == <<vars, dspVars, busVars>>

(***************************************************************************)
(* The stub of the bus master in DspFirmware, in terms of the driver: it   *)
(* is there once the interrupt is requested, has seen an edge as long as   *)
(* the work item is pending or waits for the mutex, and clocks in          *)
(* spi_read.                                                               *)
(***************************************************************************)
Master ==
    IF "irq" \notin services THEN "absent"
    ELSE IF worker = "spi" THEN "clocking" ELSE "idle"

Edge == queued \/ worker = "lock"

Dsp == INSTANCE DspFirmware WITH master <- Master, edge <- Edge

-----------------------------------------------------------------------------
LinkInit ==
    /\ Init
    /\ Dsp!Init
    /\ missed = FALSE /\ toClock = 0 /\ received = <<>>

\* Steps of one part that the other does not see.
DspAlone ==
    /\ Dsp!Internal
    /\ UNCHANGED <<driverVars, busVars>>

LoadModule == opq_circ_buffer_init \/ opq_init_chardev \/ opq_init_spi \/ opq_init_gpio_int

DriverAlone ==
    /\ \/ LoadModule
       \/ WorkerStart \/ WorkerAdvance \/ WorkerUnlock
       \/ \E r \in Readers : ReaderNext(r)
    /\ UNCHANGED <<dspVars, busVars>>

(***************************************************************************)
(* The pin rises.  IRQF_TRIGGER_RISING: the requested interrupt runs its   *)
(* handler on an edge, and an edge before request_irq is gone.             *)
(***************************************************************************)
DataReady ==
    /\ Dsp!MainPin
    /\ \/ /\ pin = 0 /\ "irq" \in services
          /\ opq_gpio_irq_handler
       \/ /\ ~(pin = 0 /\ "irq" \in services)
          /\ UNCHANGED driverVars
    /\ missed' = (missed \/ "irq" \notin services)
    /\ UNCHANGED <<toClock, received>>

TakeLock(units) ==
    /\ WorkerLock
    /\ toClock' = units
    /\ UNCHANGED <<dspVars, missed, received>>

\* Mutant: OPQ_CYCLE_BUFFER_SIZE is a unit less than OPQ_Frame of the DSP.
MSpiBegin == TakeLock(Dsp!Units - 1)

\* mutex_lock, and spi_read begins.
SpiBegin == TakeLock(Dsp!Units)

SpiClock ==
    /\ worker = "spi" /\ toClock > 1
    /\ Dsp!ShiftOut
    /\ toClock' = toClock - 1
    /\ UNCHANGED <<driverVars, missed, received>>

\* The last unit, with which spi_read returns.
SpiEnd ==
    /\ toClock = 1
    /\ Dsp!ShiftOut
    /\ WorkerSpiRead
    /\ toClock' = 0
    /\ received' = Append(received, wire)
    /\ UNCHANGED missed

LinkNext ==
    DspAlone \/ DriverAlone \/ DataReady \/ SpiBegin \/ SpiClock \/ SpiEnd

(***************************************************************************)
(* As in the two parts: the processors run what is runnable and the bus    *)
(* clocks on.  An SDADC interrupt that began ends, but no further sample   *)
(* need come.                                                              *)
(***************************************************************************)
LinkFairness ==
    /\ SF_linkVars(DspAlone /\ Dsp!InitRunTime)
    /\ SF_linkVars(DspAlone /\ Dsp!MainTransmit)
    /\ SF_linkVars(DataReady)
    /\ WF_linkVars(DspAlone /\ (Dsp!SdadcStamp \/ Dsp!SdadcFlag \/ Dsp!SdadcPublish))
    /\ WF_linkVars(DspAlone /\ (Dsp!SPI3_IRQHandler \/ Dsp!SPI_CloseTx_ISR))
    /\ WF_linkVars(DriverAlone /\ (WorkerStart \/ WorkerAdvance \/ WorkerUnlock))
    /\ SF_linkVars(SpiBegin)
    /\ WF_linkVars(SpiClock) /\ WF_linkVars(SpiEnd)
    /\ \A r \in Readers :
          /\ SF_linkVars(DriverAlone /\ ReadDown(r))
          /\ SF_linkVars(DriverAlone /\ ReadLock(r))
          /\ WF_linkVars(DriverAlone /\ (ReadCopy(r) \/ ReadUnlock(r)))

LinkSpec == LinkInit /\ [][LinkNext]_linkVars /\ LinkFairness

-----------------------------------------------------------------------------
(***************************************************************************)
(* The driver is the bus master the firmware was modelled with: it clocks  *)
(* only after an edge, a whole frame each time, and never between frames.  *)
(***************************************************************************)
DspSpec == Dsp!Spec

(***************************************************************************)
(* queue_work drops an interrupt whose work item is still pending.  With   *)
(* this DSP that never costs a frame: each interrupt has its own transfer. *)
(***************************************************************************)
NoEdgeMerged ==
    int_cnt = written + (IF queued THEN 1 ELSE 0)
                      + (IF worker \in {"lock", "spi", "advance"} THEN 1 ELSE 0)

(***************************************************************************)
(* What the driver stores are the frames of the DSP, each whole, in order, *)
(* and none left out, as long as the SDADC interrupt did not run into a    *)
(* slot that was not sent.                                                 *)
(***************************************************************************)
FramesArriveWhole ==
    ~late => \A i \in 1 .. Len(received) :
        received[i] = [u \in 1 .. Dsp!Units |-> i]

(***************************************************************************)
(* A process blocked in read while the DSP has a complete frame gets one,  *)
(* or a signal, unless the driver came too late to see the first edge or   *)
(* the ring of the DSP was lapped.                                         *)
(***************************************************************************)
FrameReachesReader ==
    \A r \in Readers :
        (reader[r] = "down" /\ stage = "live" /\ head # tail /\ main = "check")
            ~> (reader[r] # "down" \/ missed \/ late)

=============================================================================
