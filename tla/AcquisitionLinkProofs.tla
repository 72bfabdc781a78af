----------------------- MODULE AcquisitionLinkProofs -----------------------
(***************************************************************************)
(* Proofs about AcquisitionLink, from those about its two parts: the       *)
(* driver is a bus master as the firmware needs one, so what was proved of *)
(* the firmware and of the driver holds when they are joined, and frames   *)
(* pass from one to the other whole, in order and without a gap.           *)
(***************************************************************************)
EXTENDS AcquisitionLink, OpqDriverProofs

\* The proofs about the firmware, for the bus master that the driver is.
Fw == INSTANCE DspFirmwareProofs WITH master <- Master, edge <- Edge

-----------------------------------------------------------------------------
(***************************************************************************)
(* Fw and Dsp are the same specification.                                  *)
(***************************************************************************)
\* The constants satisfy what the proofs about the firmware assume.
LEMMA FwAssumptions ==
    Fw!SizeAssumption /\ Fw!SamplesAssumption /\ Fw!BootAssumption /\ Fw!FramesAssumption
BY DspAssumption
DEF Fw!SizeAssumption, Fw!SamplesAssumption, Fw!BootAssumption, Fw!FramesAssumption

\* The initial states.
LEMMA SameInit == Fw!Init <=> Dsp!Init
BY Zenon DEF Fw!Init, Fw!Slots, Fw!EmptyFrame, Fw!Units,
             Dsp!Init, Dsp!Slots, Dsp!EmptyFrame, Dsp!Units

\* main of the DSP.
LEMMA SameMain ==
    /\ Fw!reset_dsp <=> Dsp!reset_dsp
    /\ Fw!InitRunTime <=> Dsp!InitRunTime
    /\ Fw!MainTransmit <=> Dsp!MainTransmit
    /\ Fw!MainPin <=> Dsp!MainPin
<1> USE DEF Fw!MainRuns, Fw!Closing, Fw!frameVars, Fw!gpsVars, Fw!spiVars, Fw!Units,
            Dsp!MainRuns, Dsp!Closing, Dsp!frameVars, Dsp!gpsVars, Dsp!spiVars, Dsp!Units
<1>1. Fw!reset_dsp <=> Dsp!reset_dsp
  BY Zenon DEF Fw!reset_dsp, Fw!Slots, Fw!EmptyFrame,
               Dsp!reset_dsp, Dsp!Slots, Dsp!EmptyFrame
<1>2. Fw!InitRunTime <=> Dsp!InitRunTime
  BY DEF Fw!InitRunTime, Fw!InitHead, Fw!InitTail, Fw!InitSample,
         Dsp!InitRunTime, Dsp!InitHead, Dsp!InitTail, Dsp!InitSample
<1>3. Fw!MainTransmit <=> Dsp!MainTransmit
  BY Zenon
  DEF Fw!MainTransmit, Fw!MainCheck, Fw!HAL_SPI_Transmit_IT, Fw!Transmit, Fw!MainAdvance,
      Fw!Wrap, Dsp!MainTransmit, Dsp!MainCheck, Dsp!HAL_SPI_Transmit_IT, Dsp!Transmit,
      Dsp!MainAdvance, Dsp!Wrap
<1>4. Fw!MainPin <=> Dsp!MainPin
  BY DEF Fw!MainPin, Dsp!MainPin
<1> QED
  BY <1>1, <1>2, <1>3, <1>4

\* The interrupts of the DSP.
LEMMA SameInterrupts ==
    /\ Fw!SDADC2_IRQHandler <=> Dsp!SDADC2_IRQHandler
    /\ Fw!HAL_TIM_IC_CaptureCallback <=> Dsp!HAL_TIM_IC_CaptureCallback
    /\ Fw!SPI3_IRQHandler <=> Dsp!SPI3_IRQHandler
    /\ Fw!SPI_CloseTx_ISR <=> Dsp!SPI_CloseTx_ISR
<1> USE DEF Fw!Closing, Fw!frameVars, Fw!gpsVars, Fw!spiVars, Fw!Wrap, Fw!Units,
            Dsp!Closing, Dsp!frameVars, Dsp!gpsVars, Dsp!spiVars, Dsp!Wrap, Dsp!Units
<1>1. Fw!SdadcSample <=> Dsp!SdadcSample
  BY Zenon DEF Fw!SdadcSample, Dsp!SdadcSample
<1>2. /\ Fw!SdadcStamp <=> Dsp!SdadcStamp
      /\ Fw!SdadcTest <=> Dsp!SdadcTest
      /\ Fw!SdadcReset <=> Dsp!SdadcReset
      /\ Fw!SdadcMark <=> Dsp!SdadcMark
      /\ Fw!SdadcPublish <=> Dsp!SdadcPublish
  BY Zenon DEF Fw!SdadcStamp, Fw!SdadcTest, Fw!SdadcReset, Fw!Reset, Fw!SdadcMark,
               Fw!SdadcPublish, Fw!Publish,
               Dsp!SdadcStamp, Dsp!SdadcTest, Dsp!SdadcReset, Dsp!Reset, Dsp!SdadcMark,
               Dsp!SdadcPublish, Dsp!Publish
<1>3. Fw!HAL_TIM_IC_CaptureCallback <=> Dsp!HAL_TIM_IC_CaptureCallback
  BY Zenon DEF Fw!HAL_TIM_IC_CaptureCallback, Fw!Now,
               Dsp!HAL_TIM_IC_CaptureCallback, Dsp!Now
<1>4. Fw!SPI3_IRQHandler <=> Dsp!SPI3_IRQHandler
  BY Zenon DEF Fw!SPI3_IRQHandler, Fw!SendUnit, Fw!Unit,
               Dsp!SPI3_IRQHandler, Dsp!SendUnit, Dsp!Unit
<1>5. Fw!SPI_CloseTx_ISR <=> Dsp!SPI_CloseTx_ISR
  BY Zenon DEF Fw!SPI_CloseTx_ISR, Dsp!SPI_CloseTx_ISR
<1> QED
  BY <1>1, <1>2, <1>3, <1>4, <1>5 DEF Fw!SDADC2_IRQHandler, Fw!SdadcFlag, Dsp!SDADC2_IRQHandler, Dsp!SdadcFlag

\* The bus master.
LEMMA SameMaster ==
    /\ Fw!PinEdge <=> Dsp!PinEdge
    /\ Fw!MasterNext <=> Dsp!MasterNext
<1>1. Fw!PinEdge <=> Dsp!PinEdge
  BY DEF Fw!PinEdge, Dsp!PinEdge
<1>2. Fw!MasterNext <=> Dsp!MasterNext
  BY DEF Fw!MasterNext, Fw!LoadDriver, Fw!BeginRead, Fw!ClockUnit, Fw!ShiftOut, Fw!Units,
         Fw!dspVars, Fw!frameVars, Fw!gpsVars, Fw!spiVars,
         Dsp!MasterNext, Dsp!LoadDriver, Dsp!BeginRead, Dsp!ClockUnit, Dsp!ShiftOut,
         Dsp!Units, Dsp!dspVars, Dsp!frameVars, Dsp!gpsVars, Dsp!spiVars
<1> QED
  BY <1>1, <1>2

\* The steps.
LEMMA SameNext == [Fw!Next]_(Fw!vars) <=> [Dsp!Next]_(Dsp!vars)
<1>1. Fw!Internal <=> Dsp!Internal
  BY SameMain, SameInterrupts DEF Fw!Internal, Dsp!Internal
<1>2. UNCHANGED Fw!masterVars <=> UNCHANGED Dsp!masterVars
  BY DEF Fw!masterVars, Dsp!masterVars
<1>3. Fw!DspNext <=> Dsp!DspNext
  BY <1>1, <1>2, SameMain, SameInterrupts, SameMaster DEF Fw!DspNext, Dsp!DspNext
<1>4. Fw!Next <=> Dsp!Next
  BY <1>3, SameMain, SameMaster DEF Fw!Next, Dsp!Next
<1>5. UNCHANGED Fw!vars <=> UNCHANGED Dsp!vars
  BY DEF Fw!vars, Fw!dspVars, Fw!masterVars, Fw!frameVars, Fw!gpsVars, Fw!spiVars,
         Dsp!vars, Dsp!dspVars, Dsp!masterVars, Dsp!frameVars, Dsp!gpsVars, Dsp!spiVars
<1> QED
  BY <1>4, <1>5

\* The firmware's invariant holds at power-on and is kept by every step.
LEMMA FwKept ==
    /\ Dsp!Init => Fw!Inv
    /\ Fw!Inv /\ [Dsp!Next]_(Dsp!vars) => Fw!Inv'
<1>1. Fw!Init => Fw!Inv
  BY FwAssumptions, Fw!InvInit
<1>2. Fw!Inv /\ [Fw!Next]_(Fw!vars) => Fw!Inv'
  BY FwAssumptions, Fw!InvStep
<1> QED
  BY <1>1, <1>2, SameInit, SameNext

-----------------------------------------------------------------------------
(***************************************************************************)
(* The inductive invariant.                                                *)
(***************************************************************************)
\* The driver is loaded once; a work item that waits for the mutex is the
\* only one.
Loaded ==
    /\ stage \in {"unloaded", "buffer", "chardev", "spi", "live"}
    /\ "irq" \in services <=> stage = "live"
    /\ worker = "lock" => ~queued

\* A transfer of which the driver has not got everything.
InTransfer == hspi3.State = "busy" \/ (hspi3.State = "closing" /\ fifo = 1)

\* Every transfer the DSP began was received, or is under way.
Delivered ==
    /\ received \in Seq(Seq(0 .. MaxFrames))
    /\ transfers = Len(received) + (IF InTransfer THEN 1 ELSE 0)
    /\ FramesArriveWhole

LinkInv ==
    /\ Inv
    /\ Fw!Inv
    /\ Loaded
    /\ NoEdgeMerged
    /\ Delivered

\* The parts of the firmware's invariant that the link needs.
LEMMA FwFacts ==
    ASSUME Fw!Inv
    PROVE  /\ main = "pin" => Master # "clocking" /\ ~Edge /\ pin = 0
           /\ Master = "clocking" => toClock = hspi3.TxXferCount + fifo
           /\ hspi3.State \in {"ready", "busy", "closing"} /\ hspi3.TxXferCount \in Nat
           /\ hspi3.State = "busy" => hspi3.TxXferCount >= 1
           /\ hspi3.State = "ready" => fifo = 0
           /\ hspi3.State = "closing" => hspi3.TxXferCount = 0
           /\ hspi3.State # "ready" => Len(wire) + hspi3.TxXferCount = Dsp!Units
           /\ fifo \in {0, 1} /\ pin \in {0, 1} /\ transfers \in Nat
           /\ wire \in Seq(0 .. MaxFrames) /\ Len(wire) \in Nat
           /\ main = "transmit" => hspi3.State = "ready"
           /\ ~late => \A i \in 1 .. Len(wire) : wire[i] = transfers
           /\ Dsp!Units \in Nat
<1>1. Fw!TypeOK /\ Fw!Control /\ Fw!Handshake /\ (~late => Fw!Transfer)
  BY DEF Fw!Inv
<1>2. Dsp!Units = Fw!Units /\ Fw!Units \in Nat
  BY DspAssumption DEF Fw!Units, Dsp!Units
<1>3. /\ hspi3.State \in {"ready", "busy", "closing"} /\ hspi3.TxXferCount \in Nat
      /\ fifo \in {0, 1} /\ pin \in {0, 1} /\ transfers \in Nat
      /\ wire \in Seq(0 .. MaxFrames)
  BY <1>1, <1>2 DEF Fw!TypeOK
<1>4. Len(wire) \in Nat
  BY <1>3
<1>5. /\ main = "pin" => Master # "clocking" /\ ~Edge /\ pin = 0
      /\ Master = "clocking" => toClock = hspi3.TxXferCount + fifo
  BY <1>1 DEF Fw!Handshake
<1>6. /\ hspi3.State = "busy" => hspi3.TxXferCount >= 1
      /\ hspi3.State = "ready" => fifo = 0
      /\ hspi3.State = "closing" => hspi3.TxXferCount = 0
      /\ hspi3.State # "ready" => Len(wire) + hspi3.TxXferCount = Fw!Units
      /\ main = "transmit" => hspi3.State = "ready"
  BY <1>1 DEF Fw!Control
<1>7. ~late => \A i \in 1 .. Len(wire) : wire[i] = transfers
  BY <1>1 DEF Fw!Transfer
<1> QED
  BY <1>2, <1>3, <1>4, <1>5, <1>6, <1>7

-----------------------------------------------------------------------------
(***************************************************************************)
(* Every step of the link is a step of the driver, and one of the DSP with *)
(* its bus master, or leaves the part alone.                               *)
(***************************************************************************)
\* The driver's part of every step.
LEMMA DriverStep == [LinkNext]_linkVars => [Next]_vars
<1> SUFFICES ASSUME [LinkNext]_linkVars PROVE [Next]_vars
  OBVIOUS
<1>1. CASE DspAlone
  BY <1>1 DEF DspAlone, driverVars
<1>2. CASE DriverAlone
  BY <1>2 DEF DriverAlone, LoadModule, Next, ModuleNext, opq_wq_spi_reader_handler
<1>3. CASE DataReady
  BY <1>3 DEF DataReady, driverVars, Next
<1>4. CASE SpiBegin
  BY <1>4 DEF SpiBegin, TakeLock, Next, opq_wq_spi_reader_handler
<1>5. CASE SpiClock
  BY <1>5 DEF SpiClock, driverVars
<1>6. CASE SpiEnd
  BY <1>6 DEF SpiEnd, Next, opq_wq_spi_reader_handler
<1>7. CASE UNCHANGED linkVars
  BY <1>7 DEF linkVars
<1> QED
  BY <1>1, <1>2, <1>3, <1>4, <1>5, <1>6, <1>7 DEF LinkNext

\* The DSP does not move when none of its variables does.
LEMMA DspAtRest ==
    UNCHANGED dspVars =>
        /\ UNCHANGED Dsp!dspVars
        /\ UNCHANGED <<hspi3, fifo, wire, transfers, late>>
BY DEF dspVars, Dsp!dspVars, Dsp!frameVars, Dsp!gpsVars, Dsp!spiVars

\* The bus master is where the driver is.
LEMMA MasterAtRest ==
    UNCHANGED <<services, worker, queued>> => Master' = Master /\ Edge' = Edge
BY DEF Master, Edge

\* What the driver's steps alone do to what the DSP sees of it.
LEMMA DriverAloneStep ==
    ASSUME Inv, Loaded, DriverAlone
    PROVE  /\ UNCHANGED <<dspVars, busVars>>
           /\ \/ UNCHANGED <<Master, Edge>>
              \/ Master = "absent" /\ Master' = "idle" /\ Edge' = Edge
<1> USE DEF Inv, TypeOK, LifeCycle, Loaded, ringVars, kernelVars, history
<1>1. UNCHANGED <<dspVars, busVars>>
  BY DEF DriverAlone
<1>2. CASE opq_circ_buffer_init
  BY <1>1, <1>2, MasterAtRest DEF opq_circ_buffer_init
<1>3. CASE opq_init_chardev \/ opq_init_spi
  <2>1. UNCHANGED <<worker, queued>> /\ ("irq" \in services' <=> "irq" \in services)
    BY <1>3 DEF opq_init_chardev, opq_init_spi, InitStep
  <2> QED
    BY <1>1, <2>1 DEF Master, Edge
<1>4. CASE opq_init_gpio_int
  <2>1. /\ UNCHANGED <<worker, queued>> /\ "irq" \in services' /\ "irq" \notin services
        /\ worker = "idle"
    BY <1>4, LinkAssumption DEF opq_init_gpio_int, InitStep
  <2> QED
    BY <1>1, <2>1 DEF Master, Edge
<1>5. CASE WorkerStart
  BY <1>1, <1>5 DEF WorkerStart, Master, Edge
<1>6. CASE WorkerAdvance \/ WorkerUnlock
  BY <1>1, <1>6 DEF WorkerAdvance, WorkerUnlock, Master, Edge
<1>7. ASSUME NEW r \in Readers, ReaderNext(r)
      PROVE  UNCHANGED <<Master, Edge>>
  <2>1. UNCHANGED <<services, worker, queued>>
    BY <1>7 DEF ReaderNext, opq_chardev_open, opq_chardev_release, ReadCall, opq_chardev_read,
                ReadDown, ReadInterrupted, ReadLock, ReadCopy, ReadUnlock
  <2> QED
    BY <2>1, MasterAtRest
<1> QED
  BY <1>1, <1>2, <1>3, <1>4, <1>5, <1>6, <1>7 DEF DriverAlone, LoadModule

\* The DSP's part of every step.
LEMMA DspStep == LinkInv /\ [LinkNext]_linkVars => [Dsp!Next]_(Dsp!vars)
<1> SUFFICES ASSUME LinkInv, [LinkNext]_linkVars PROVE [Dsp!Next]_(Dsp!vars)
  OBVIOUS
<1>a. Inv /\ Fw!Inv /\ Loaded
  BY DEF LinkInv
<1>b. worker # "idle" => "irq" \in services
  BY <1>a DEF Inv, LifeCycle, Loaded
<1>1. CASE DspAlone
  <2>1. UNCHANGED Dsp!masterVars
    BY <1>1, MasterAtRest DEF DspAlone, driverVars, vars, busVars, Dsp!masterVars
  <2> QED
    BY <1>1, <2>1 DEF DspAlone, Dsp!Next, Dsp!DspNext
<1>2. CASE DriverAlone
  <2>1. UNCHANGED <<dspVars, busVars>>
    BY <1>2, <1>a, DriverAloneStep
  <2>2. UNCHANGED Dsp!dspVars /\ UNCHANGED <<toClock, missed>>
    BY <2>1, DspAtRest DEF busVars
  <2>3. CASE UNCHANGED <<Master, Edge>>
    BY <2>2, <2>3 DEF Dsp!vars, Dsp!masterVars
  <2>4. CASE Master = "absent" /\ Master' = "idle" /\ Edge' = Edge
    BY <2>2, <2>4 DEF Dsp!Next, Dsp!MasterNext, Dsp!LoadDriver
  <2> QED
    BY <1>2, <1>a, <2>3, <2>4, DriverAloneStep
<1>3. CASE DataReady
  <2>1. Dsp!MainPin /\ main = "pin" /\ UNCHANGED toClock
    BY <1>3 DEF DataReady, Dsp!MainPin
  <2>2. pin = 0 /\ ~Edge
    BY <1>a, <2>1, FwFacts
  <2>3. missed' = (missed \/ Master = "absent")
    BY <1>3 DEF DataReady, Master
  <2>4. CASE "irq" \in services
    <3>1. opq_gpio_irq_handler
      BY <1>3, <2>2, <2>4 DEF DataReady
    <3>2. UNCHANGED <<services, worker>> /\ queued'
      BY <3>1 DEF opq_gpio_irq_handler
    <3>3. Master' = Master /\ Master # "absent"
      BY <2>4, <3>2 DEF Master
    <3>4. Edge' = (Edge \/ (pin = 0 /\ Master # "absent"))
      BY <2>2, <3>2, <3>3 DEF Edge
    <3> QED
      BY <2>1, <2>3, <3>3, <3>4 DEF Dsp!Next, Dsp!DspNext, Dsp!PinEdge
  <2>5. CASE "irq" \notin services
    <3>1. UNCHANGED <<services, worker, queued>>
      BY <1>3, <2>5 DEF DataReady, driverVars, vars
    <3>2. Master' = Master /\ Edge' = Edge /\ Master = "absent"
      BY <2>5, <3>1, MasterAtRest DEF Master
    <3>3. Edge' = (Edge \/ (pin = 0 /\ Master # "absent"))
      BY <3>2 DEF Edge
    <3> QED
      BY <2>1, <2>3, <3>2, <3>3 DEF Dsp!Next, Dsp!DspNext, Dsp!PinEdge
  <2> QED
    BY <2>4, <2>5
<1>4. CASE SpiBegin
  <2>1. /\ worker = "lock" /\ worker' = "spi" /\ UNCHANGED <<services, queued>>
        /\ toClock' = Dsp!Units /\ UNCHANGED missed /\ UNCHANGED dspVars
    BY <1>4 DEF SpiBegin, TakeLock, WorkerLock, kernelVars
  <2>2. ~queued /\ "irq" \in services
    BY <1>a, <1>b, <2>1 DEF Loaded
  <2>3. Master = "idle" /\ Master' = "clocking" /\ Edge /\ Edge' = FALSE
    BY <2>1, <2>2 DEF Master, Edge
  <2> QED
    BY <2>1, <2>3, DspAtRest DEF Dsp!Next, Dsp!MasterNext, Dsp!BeginRead
<1>5. CASE SpiClock
  <2>1. /\ worker = "spi" /\ Dsp!ShiftOut /\ toClock > 1 /\ toClock' = toClock - 1
        /\ UNCHANGED missed /\ UNCHANGED <<services, worker, queued>>
    BY <1>5 DEF SpiClock, driverVars, vars
  <2>2. Master = "clocking" /\ Master' = "clocking" /\ Edge' = Edge /\ toClock # 1
    BY <1>b, <2>1, MasterAtRest DEF Master
  <2> QED
    BY <2>1, <2>2 DEF Dsp!Next, Dsp!MasterNext, Dsp!ClockUnit
<1>6. CASE SpiEnd
  <2>1. /\ worker = "spi" /\ worker' = "advance" /\ Dsp!ShiftOut /\ toClock = 1
        /\ toClock' = 0 /\ UNCHANGED missed /\ UNCHANGED <<services, queued>>
    BY <1>6 DEF SpiEnd, WorkerSpiRead, kernelVars
  <2>2. Master = "clocking" /\ Master' = "idle" /\ Edge' = Edge
    BY <1>b, <2>1 DEF Master, Edge
  <2> QED
    BY <2>1, <2>2 DEF Dsp!Next, Dsp!MasterNext, Dsp!ClockUnit
<1>7. CASE UNCHANGED linkVars
  <2>1. UNCHANGED dspVars /\ UNCHANGED vars /\ UNCHANGED busVars
    BY <1>7 DEF linkVars
  <2>2. Master' = Master /\ Edge' = Edge /\ UNCHANGED <<toClock, missed>>
    BY <2>1, MasterAtRest DEF vars, busVars
  <2> QED
    BY <2>1, <2>2, DspAtRest DEF Dsp!vars, Dsp!masterVars
<1> QED
  BY <1>1, <1>2, <1>3, <1>4, <1>5, <1>6, <1>7 DEF LinkNext

-----------------------------------------------------------------------------
(***************************************************************************)
(* Every step keeps the rest of the invariant.                             *)
(***************************************************************************)
\* No second edge comes while one waits, so none is merged.
LEMMA EdgesStep == LinkInv /\ [LinkNext]_linkVars => Loaded' /\ NoEdgeMerged'
<1> SUFFICES ASSUME LinkInv, [LinkNext]_linkVars PROVE Loaded' /\ NoEdgeMerged'
  OBVIOUS
<1>a. Inv /\ Fw!Inv /\ Loaded /\ NoEdgeMerged
  BY DEF LinkInv
<1>b. /\ int_cnt \in Nat /\ written \in Nat
      /\ worker \in {"idle", "lock", "spi", "advance", "unlock"}
      /\ stage \in {"unloaded", "buffer"} => worker = "idle" /\ ~queued
  BY <1>a, BoundAssumption DEF Inv, TypeOK, LifeCycle
<1> USE DEF Loaded, NoEdgeMerged, ringVars, kernelVars, history
<1>1. ASSUME UNCHANGED <<int_cnt, written, stage, services, worker, queued>>
      PROVE  Loaded' /\ NoEdgeMerged'
  BY <1>a, <1>1
<1>2. CASE DspAlone \/ SpiClock \/ UNCHANGED linkVars
  BY <1>1, <1>2 DEF DspAlone, SpiClock, linkVars, driverVars, vars
<1>3. CASE DriverAlone
  <2>1. CASE opq_circ_buffer_init
    BY <1>a, <1>b, <2>1 DEF opq_circ_buffer_init
  <2>2. CASE opq_init_chardev \/ opq_init_spi \/ opq_init_gpio_int
    BY <1>a, <2>2, LinkAssumption DEF opq_init_chardev, opq_init_spi, opq_init_gpio_int, InitStep
  <2>3. CASE WorkerStart
    BY <1>a, <1>b, <2>3 DEF WorkerStart
  <2>4. CASE WorkerAdvance
    BY <1>a, <1>b, <2>4 DEF WorkerAdvance
  <2>5. CASE WorkerUnlock
    BY <1>a, <1>b, <2>5 DEF WorkerUnlock
  <2>6. ASSUME NEW r \in Readers, ReaderNext(r)
        PROVE  Loaded' /\ NoEdgeMerged'
    BY <1>1, <2>6
    DEF ReaderNext, opq_chardev_open, opq_chardev_release, ReadCall, opq_chardev_read,
        ReadDown, ReadInterrupted, ReadLock, ReadCopy, ReadUnlock
  <2> QED
    BY <1>3, <2>1, <2>2, <2>3, <2>4, <2>5, <2>6 DEF DriverAlone, LoadModule
<1>4. CASE DataReady
  <2>1. main = "pin"
    BY <1>4 DEF DataReady, Dsp!MainPin
  <2>2. ~queued /\ worker # "lock"
    BY <1>a, <2>1, FwFacts DEF Edge
  <2>3. CASE opq_gpio_irq_handler
    BY <1>a, <1>b, <2>2, <2>3 DEF opq_gpio_irq_handler
  <2> QED
    BY <1>1, <1>4, <2>3 DEF DataReady, driverVars, vars
<1>5. CASE SpiBegin
  BY <1>a, <1>b, <1>5 DEF SpiBegin, TakeLock, WorkerLock
<1>6. CASE SpiEnd
  BY <1>a, <1>b, <1>6 DEF SpiEnd, WorkerSpiRead
<1> QED
  BY <1>2, <1>3, <1>4, <1>5, <1>6 DEF LinkNext

\* The state of the SPI port after its interrupts.
LEMMA PortAfter ==
    ASSUME Fw!Inv
    PROVE  /\ Dsp!SPI3_IRQHandler => hspi3'.State \in {"busy", "closing"}
           /\ Dsp!SPI_CloseTx_ISR => hspi3'.State = "ready"
<1>1. Fw!TypeOK /\ Fw!Control
  BY DEF Fw!Inv
<1>2. Dsp!SPI3_IRQHandler => hspi3'.State \in {"busy", "closing"}
  <2> SUFFICES ASSUME Fw!SPI3_IRQHandler PROVE hspi3'.State \in {"busy", "closing"}
    BY SameInterrupts
  <2>1. hspi3'.State = IF hspi3.TxXferCount = 1 THEN "closing" ELSE "busy"
    BY <1>1, FwAssumptions, Fw!UnitSent
  <2> QED
    BY <2>1
<1>3. Dsp!SPI_CloseTx_ISR => hspi3'.State = "ready"
  BY <1>1 DEF Dsp!SPI_CloseTx_ISR, Fw!TypeOK
<1> QED
  BY <1>2, <1>3

\* A transfer is received when its last unit was clocked, and as it was sent.
LEMMA DeliveredStep == LinkInv /\ [LinkNext]_linkVars => Delivered'
<1> SUFFICES ASSUME LinkInv, [LinkNext]_linkVars PROVE Delivered'
  OBVIOUS
<1>a. Inv /\ Fw!Inv /\ Loaded /\ Delivered
  BY DEF LinkInv
<1>b. /\ hspi3.State \in {"ready", "busy", "closing"} /\ hspi3.TxXferCount \in Nat
      /\ fifo \in {0, 1} /\ transfers \in Nat /\ Len(received) \in Nat
      /\ received \in Seq(Seq(0 .. MaxFrames))
  BY <1>a, FwFacts DEF Delivered
<1>1. ASSUME UNCHANGED <<received, transfers>>, InTransfer' <=> InTransfer, late => late'
      PROVE  Delivered'
  BY <1>a, <1>1 DEF Delivered, FramesArriveWhole, Dsp!Units
<1>2. ASSUME UNCHANGED <<hspi3, fifo, received, transfers>>, late => late'
      PROVE  Delivered'
  BY <1>1, <1>2 DEF InTransfer
<1>3. CASE DspAlone
  <2>1. UNCHANGED received
    BY <1>3 DEF DspAlone, busVars
  <2> USE DEF Dsp!frameVars, Dsp!gpsVars, Dsp!spiVars
  <2>2. CASE Dsp!InitRunTime
    BY <1>2, <2>1, <2>2 DEF Dsp!InitRunTime, Dsp!InitHead, Dsp!InitTail, Dsp!InitSample
  <2>3. CASE Dsp!MainCheck \/ Dsp!MainAdvance
    BY <1>2, <2>1, <2>3 DEF Dsp!MainCheck, Dsp!MainAdvance
  <2>4. CASE Dsp!HAL_SPI_Transmit_IT
    <3>1. /\ main = "transmit" /\ hspi3'.State = "busy" /\ transfers' = transfers + 1
          /\ UNCHANGED late
      BY <2>4 DEF Dsp!HAL_SPI_Transmit_IT, Dsp!Transmit
    <3>2. ~InTransfer /\ InTransfer'
      BY <1>a, <3>1, FwFacts DEF InTransfer
    <3>3. transfers = Len(received) /\ FramesArriveWhole
      BY <1>a, <1>b, <3>2 DEF Delivered
    <3>4. transfers' = Len(received') + (IF InTransfer' THEN 1 ELSE 0)
      BY <1>b, <2>1, <3>1, <3>2, <3>3
    <3>5. FramesArriveWhole'
      BY <2>1, <3>1, <3>3 DEF FramesArriveWhole, Dsp!Units
    <3> QED
      BY <1>b, <2>1, <3>4, <3>5 DEF Delivered
  <2>5. CASE Dsp!SDADC2_IRQHandler
    BY <1>2, <2>1, <2>5
    DEF Dsp!SDADC2_IRQHandler, Dsp!SdadcSample, Dsp!SdadcStamp, Dsp!SdadcFlag,
        Dsp!SdadcTest, Dsp!SdadcReset, Dsp!Reset, Dsp!SdadcMark,
        Dsp!SdadcPublish, Dsp!Publish
  <2>6. CASE Dsp!SPI3_IRQHandler
    <3>1. hspi3.State = "busy" /\ fifo' = 1 /\ UNCHANGED <<transfers, late>>
      BY <2>6 DEF Dsp!SPI3_IRQHandler, Dsp!SendUnit
    <3>2. InTransfer /\ InTransfer'
      BY <1>a, <2>6, <3>1, PortAfter DEF InTransfer
    <3> QED
      BY <1>1, <2>1, <3>1, <3>2
  <2>7. CASE Dsp!SPI_CloseTx_ISR
    <3>1. hspi3.State = "closing" /\ fifo = 0 /\ UNCHANGED <<transfers, late>>
      BY <2>7 DEF Dsp!SPI_CloseTx_ISR, Dsp!Closing
    <3>2. ~InTransfer /\ ~InTransfer'
      BY <1>a, <2>7, <3>1, PortAfter DEF InTransfer
    <3> QED
      BY <1>1, <2>1, <3>1, <3>2
  <2> QED
    BY <1>3, <2>2, <2>3, <2>4, <2>5, <2>6, <2>7 DEF DspAlone, Dsp!Internal, Dsp!MainTransmit
<1>4. CASE DriverAlone \/ SpiBegin \/ UNCHANGED linkVars
  <2>1. UNCHANGED dspVars /\ UNCHANGED received
    BY <1>4 DEF DriverAlone, SpiBegin, TakeLock, linkVars, busVars
  <2> QED
    BY <1>2, <2>1, DspAtRest
<1>5. CASE DataReady
  BY <1>2, <1>5 DEF DataReady, Dsp!MainPin, Dsp!spiVars
<1>6. CASE SpiClock \/ SpiEnd
  <2>1. /\ worker = "spi" /\ fifo = 1 /\ fifo' = 0
        /\ UNCHANGED <<hspi3, wire, transfers, late>>
    BY <1>6 DEF SpiClock, SpiEnd, WorkerSpiRead, Dsp!ShiftOut
  <2>2. Master = "clocking"
    BY <1>a, <2>1 DEF Master, Inv, LifeCycle, Loaded
  <2>3. toClock = hspi3.TxXferCount + 1 /\ hspi3.State # "ready"
    BY <1>a, <1>b, <2>1, <2>2, FwFacts
  <2>4. CASE SpiClock
    <3>1. hspi3.State = "busy" /\ UNCHANGED received
      BY <1>a, <1>b, <2>3, <2>4, FwFacts DEF SpiClock
    <3> QED
      BY <1>1, <2>1, <3>1 DEF InTransfer
  <2>5. CASE SpiEnd
    <3> DEFINE n == Len(received) + 1
    <3>1. toClock = 1 /\ received' = Append(received, wire)
      BY <2>5 DEF SpiEnd
    <3>2. hspi3.State = "closing" /\ hspi3.TxXferCount = 0
      BY <1>a, <1>b, <2>3, <3>1, FwFacts
    <3>3. InTransfer /\ ~InTransfer'
      BY <2>1, <3>2 DEF InTransfer
    <3>4. transfers = n /\ Len(wire) = Dsp!Units /\ wire \in Seq(0 .. MaxFrames)
      BY <1>a, <1>b, <3>2, <3>3, FwFacts DEF Delivered
    <3>5. /\ received' \in Seq(Seq(0 .. MaxFrames)) /\ Len(received') = n /\ received'[n] = wire
          /\ \A i \in 1 .. Len(received) : received'[i] = received[i]
      BY <1>b, <3>1, <3>4
    <3>6. ~late => wire = [u \in 1 .. Dsp!Units |-> n]
      <4> SUFFICES ASSUME ~late PROVE wire = [u \in 1 .. Dsp!Units |-> n]
        OBVIOUS
      <4>1. \A i \in 1 .. Dsp!Units : wire[i] = n
        BY <1>a, <3>4, FwFacts
      <4>2. DOMAIN wire = 1 .. Dsp!Units /\ wire = [u \in DOMAIN wire |-> wire[u]]
        BY <3>4
      <4> QED
        BY <4>1, <4>2
    <3>7. transfers' = Len(received') + (IF InTransfer' THEN 1 ELSE 0)
      BY <1>b, <2>1, <3>3, <3>4, <3>5
    <3>8. FramesArriveWhole'
      <4> SUFFICES ASSUME ~late, NEW i \in 1 .. Len(received')
                   PROVE  received'[i] = [u \in 1 .. Dsp!Units |-> i]
        BY <2>1 DEF FramesArriveWhole, Dsp!Units
      <4>1. CASE i = n
        BY <3>5, <3>6, <4>1
      <4>2. CASE i \in 1 .. Len(received)
        BY <1>a, <3>5, <4>2 DEF Delivered, FramesArriveWhole
      <4> QED
        BY <1>b, <3>5, <4>1, <4>2
    <3> QED
      BY <3>5, <3>7, <3>8 DEF Delivered
  <2> QED
    BY <1>6, <2>4, <2>5
<1> QED
  BY <1>3, <1>4, <1>5, <1>6 DEF LinkNext

-----------------------------------------------------------------------------
(***************************************************************************)
(* The theorems.                                                           *)
(***************************************************************************)
\* The state after power-on, with the driver not loaded.
LEMMA LinkInvInit == LinkInit => LinkInv
<1> SUFFICES ASSUME LinkInit PROVE LinkInv
  OBVIOUS
<1>1. Inv /\ Fw!Inv
  BY InvInit, FwKept DEF LinkInit
<1>2. Loaded /\ NoEdgeMerged
  BY DEF LinkInit, Init, Loaded, NoEdgeMerged
<1>3. received = <<>> /\ transfers = 0 /\ hspi3.State = "ready"
  BY DEF LinkInit, Dsp!Init
<1>4. Delivered
  BY <1>3 DEF Delivered, InTransfer, FramesArriveWhole
<1> QED
  BY <1>1, <1>2, <1>4 DEF LinkInv

(***************************************************************************)
(* LinkInv is an invariant of the driver and the DSP on one bus, for every *)
(* size of the two rings and of a frame, and any number of readers.        *)
(***************************************************************************)
THEOREM LinkInvariant == LinkSpec => []LinkInv
<1>1. LinkInv /\ [LinkNext]_linkVars => LinkInv'
  BY DriverStep, InvStep, DspStep, FwKept, EdgesStep, DeliveredStep DEF LinkInv
<1> QED
  BY LinkInvInit, <1>1, PTL DEF LinkSpec

(***************************************************************************)
(* No interrupt is lost in queue_work: an edge never comes while the work  *)
(* item of the one before is still pending.                                *)
(***************************************************************************)
THEOREM EdgesKept == LinkSpec => []NoEdgeMerged
<1>1. LinkInv => NoEdgeMerged
  BY DEF LinkInv
<1> QED
  BY <1>1, LinkInvariant, PTL

(***************************************************************************)
(* The k-th frame that spi_read brings is frame k of the DSP, every unit   *)
(* of it, unless the ring of the DSP was lapped.                           *)
(***************************************************************************)
THEOREM FramesWhole == LinkSpec => []FramesArriveWhole
<1>1. LinkInv => FramesArriveWhole
  BY DEF LinkInv, Delivered
<1> QED
  BY <1>1, LinkInvariant, PTL

(***************************************************************************)
(* The driver is a bus master as DspFirmware describes one: all that was   *)
(* proved of the firmware holds with this driver.                          *)
(***************************************************************************)
THEOREM ImplementsDsp == LinkSpec => DspSpec
<1>1. LinkInit => Dsp!Init
  BY DEF LinkInit
<1> QED
  BY <1>1, DspStep, LinkInvariant, PTL DEF LinkSpec, DspSpec, Dsp!Spec

(***************************************************************************)
(* What the processes read from /dev/opq0 is the lossy stream FrameStream, *)
(* with the DSP as the source of the frames.                               *)
(***************************************************************************)
THEOREM LinkImplementsStream == LinkSpec => StreamSpec
<1>1. LinkInit => Init
  BY DEF LinkInit
<1>2. LinkSpec => Spec
  BY <1>1, DriverStep, PTL DEF LinkSpec, Spec
<1>3. Spec => StreamSpec
  BY LinkAssumption, ImplementsStream
<1> QED
  BY <1>2, <1>3, PTL

=============================================================================
