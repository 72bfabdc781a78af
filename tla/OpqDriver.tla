----------------------------- MODULE OpqDriver -----------------------------
(***************************************************************************)
(* The Linux driver of the box (Software/kernel/opq_main.c).  The rising   *)
(* edge of the data-ready pin interrupts the CPU; the interrupt queues a   *)
(* work item; the work item reads one frame over SPI into a ring of        *)
(* OPQ_CYCLE_BUFFER_COUNT slots, and user processes read the frames out of *)
(* /dev/opq0.  A semaphore counts the frames a reader may take, a mutex    *)
(* guards the ring, and the writer evicts the oldest frame when it catches *)
(* up with the reader.                                                     *)
(*                                                                         *)
(* A frame's 408 bytes are abstracted to its number since the driver was   *)
(* loaded; Garbage is the memory kmalloc returned.                         *)
(***************************************************************************)
EXTENDS Integers, FiniteSets

CONSTANTS
    OPQ_CYCLE_BUFFER_COUNT, \* slots of the ring (10 in the code)
    Readers,                \* file descriptors of user processes
    MaxInterrupts,          \* bound: data-ready edges since the load
    Faults                  \* may the kernel services the driver calls fail?

N == OPQ_CYCLE_BUFFER_COUNT

ASSUME CountAssumption == OPQ_CYCLE_BUFFER_COUNT \in Nat /\ OPQ_CYCLE_BUFFER_COUNT > 1
ASSUME ReadersAssumption == IsFiniteSet(Readers) /\ "worker" \notin Readers /\ "none" \notin Readers
ASSUME BoundAssumption == MaxInterrupts \in Nat
ASSUME FaultsAssumption == Faults \in BOOLEAN

VARIABLES
    \* struct opq_frame_buffer
    data,        \* slot -> frame number
    writer_pos,
    reader_pos,
    sem,         \* count of the semaphore
    mutex,       \* "none", "worker" or the reader that holds it
    \* struct opq_device and the kernel objects it registers
    int_cnt,     \* interrupts since the load
    queued,      \* is opq_wq_spi_reader pending on the work queue?
    services,    \* which of "chardev", "spi", "irq" are registered
    stage,       \* how far opq_module_init or opq_module_exit got
    \* control
    worker,      \* where opq_wq_spi_reader_handler is
    reader,      \* where each descriptor's opq_chardev_read is
    \* history
    written,     \* frames put into the ring since the load
    returned,    \* frame the last read returned, or Nothing
    faulty       \* has an spi_read failed since the load?

ringVars   == <<data, writer_pos, reader_pos, sem>>
kernelVars == <<int_cnt, queued, services, stage>>
history    == <<written, returned, faulty>>
vars == <<data, writer_pos, reader_pos, sem, mutex, int_cnt, queued, services,
          stage, worker, reader, written, returned, faulty>>

Slots == 0 .. N - 1

Garbage == 0
Nothing == -1

\* Mutant: wraps one slot too late.
MAdvance(pos) == IF pos + 1 > N THEN 0 ELSE pos + 1

\* pos++; if (pos >= OPQ_CYCLE_BUFFER_COUNT) pos = 0;
Advance(pos) == IF pos + 1 >= N THEN 0 ELSE pos + 1

Stages == {"unloaded", "buffer", "chardev", "spi", "live",
           "noChardev", "noSpi", "noIrq", "noWork"}

-----------------------------------------------------------------------------
(***************************************************************************)
(* opq_module_init: four steps, whose results are ignored.                 *)
(***************************************************************************)
Init ==
    /\ data = [s \in Slots |-> Garbage]
    /\ writer_pos = 1
    /\ reader_pos = 0
    /\ sem = 0
    /\ mutex = "none"
    /\ int_cnt = 0
    /\ queued = FALSE
    /\ services = {}
    /\ stage = "unloaded"
    /\ worker = "idle"
    /\ reader = [r \in Readers |-> "closed"]
    /\ written = 0
    /\ returned = Nothing
    /\ faulty = FALSE

opq_circ_buffer_init ==
    /\ stage = "unloaded"
    /\ stage' = "buffer"
    /\ data' = [s \in Slots |-> Garbage]
    /\ writer_pos' = 1
    /\ reader_pos' = 0
    /\ sem' = 0
    /\ mutex' = "none"
    /\ int_cnt' = 0
    /\ written' = 0
    /\ returned' = Nothing
    /\ faulty' = FALSE
    /\ UNCHANGED <<queued, services, worker, reader>>

InitStep(from, to, service) ==
    /\ stage = from
    /\ stage' = to
    /\ \/ services' = services \cup {service}
       \/ Faults /\ services' = services
    /\ UNCHANGED <<ringVars, mutex, int_cnt, queued, worker, reader, history>>

opq_init_chardev  == InitStep("buffer", "chardev", "chardev")
opq_init_spi      == InitStep("chardev", "spi", "spi")
opq_init_gpio_int == InitStep("spi", "live", "irq")

-----------------------------------------------------------------------------
(***************************************************************************)
(* opq_module_exit.  rmmod is refused while a descriptor is open.  What    *)
(* exit does after an initialisation step failed is undefined (it releases *)
(* objects that were never set up) and is not modelled.                    *)
(***************************************************************************)
opq_release_chardev ==
    /\ stage = "live"
    /\ services = {"chardev", "spi", "irq"}
    /\ \A r \in Readers : reader[r] = "closed"
    /\ stage' = "noChardev"
    /\ services' = services \ {"chardev"}
    /\ UNCHANGED <<ringVars, mutex, int_cnt, queued, worker, reader, history>>

opq_release_spi ==
    /\ stage = "noChardev"
    /\ stage' = "noSpi"
    /\ services' = services \ {"spi"}
    /\ UNCHANGED <<ringVars, mutex, int_cnt, queued, worker, reader, history>>

\* opq_release_gpio_int, first half: free_irq and gpio_free.
free_irq ==
    /\ stage = "noSpi"
    /\ stage' = "noIrq"
    /\ services' = services \ {"irq"}
    /\ UNCHANGED <<ringVars, mutex, int_cnt, queued, worker, reader, history>>

\* Mutant: cancel_work, which does not wait for a running item.
MCancelWithoutSync ==
    /\ stage = "noIrq"
    /\ stage' = "noWork"
    /\ queued' = FALSE
    /\ UNCHANGED <<ringVars, mutex, int_cnt, services, worker, reader, history>>

\* opq_release_gpio_int, second half: cancel_work_sync drops a pending work
\* item and waits for a running one; destroy_workqueue.
cancel_work_sync ==
    /\ stage = "noIrq"
    /\ worker = "idle"
    /\ stage' = "noWork"
    /\ queued' = FALSE
    /\ UNCHANGED <<ringVars, mutex, int_cnt, services, worker, reader, history>>

opq_circ_buffer_remove ==
    /\ stage = "noWork"
    /\ stage' = "unloaded"
    /\ UNCHANGED <<ringVars, mutex, int_cnt, queued, services, worker, reader, history>>

-----------------------------------------------------------------------------
(***************************************************************************)
(* The interrupt and its bottom half.                                      *)
(***************************************************************************)
\* queue_work does nothing when the item is pending already.
opq_gpio_irq_handler ==
    /\ "irq" \in services
    /\ int_cnt < MaxInterrupts
    /\ int_cnt' = int_cnt + 1
    /\ queued' = TRUE
    /\ UNCHANGED <<ringVars, mutex, services, stage, worker, reader, history>>

\* The work queue clears the pending bit before it calls the handler.
WorkerStart ==
    /\ queued
    /\ worker = "idle"
    /\ queued' = FALSE
    /\ worker' = "lock"
    /\ UNCHANGED <<ringVars, mutex, int_cnt, services, stage, reader, history>>

WorkerLock ==
    /\ worker = "lock"
    /\ mutex = "none"
    /\ mutex' = "worker"
    /\ worker' = "spi"
    /\ UNCHANGED <<ringVars, kernelVars, reader, history>>

\* Mutant: the frame goes to the slot after writer_pos.
MWorkerSpiRead ==
    /\ worker = "spi"
    /\ worker' = "advance"
    /\ data' = [data EXCEPT ![Advance(writer_pos)] = written + 1]
    /\ UNCHANGED <<writer_pos, reader_pos, sem, mutex, kernelVars, reader, history>>

\* The result of spi_read is ignored: a failed one, or one on a device that is
\* no longer registered, leaves the slot as it was.
WorkerSpiRead ==
    /\ worker = "spi"
    /\ worker' = "advance"
    /\ \/ /\ "spi" \in services
          /\ data' = [data EXCEPT ![writer_pos] = written + 1]
          /\ UNCHANGED faulty
       \/ /\ Faults \/ "spi" \notin services
          /\ faulty' = TRUE
          /\ UNCHANGED data
    /\ UNCHANGED <<writer_pos, reader_pos, sem, mutex, kernelVars, reader,
                   written, returned>>

\* Form of the mutants of WorkerAdvance.
MMoves(pos, count) ==
    /\ worker = "advance"
    /\ worker' = "unlock"
    /\ writer_pos' = Advance(writer_pos)
    /\ written' = written + 1
    /\ reader_pos' = pos
    /\ sem' = count
    /\ UNCHANGED <<data, mutex, kernelVars, reader, returned, faulty>>

MFull == Advance(writer_pos) = reader_pos
MEvicted == IF MFull THEN Advance(reader_pos) ELSE reader_pos

\* Mutant: up() on the eviction path too.
MUpOnEviction == MMoves(MEvicted, sem + 1)

\* Mutant: up() only when the ring was empty.
MUpWhenEmpty ==
    MMoves(MEvicted, IF writer_pos = Advance(reader_pos) THEN sem + 1 ELSE sem)

\* Advance the writer; evict the oldest frame, or release one more to readers.
WorkerAdvance ==
    /\ worker = "advance"
    /\ worker' = "unlock"
    /\ writer_pos' = Advance(writer_pos)
    /\ written' = written + 1
    /\ \/ /\ Advance(writer_pos) = reader_pos
          /\ reader_pos' = Advance(reader_pos)
          /\ UNCHANGED sem
       \/ /\ Advance(writer_pos) # reader_pos
          /\ sem' = sem + 1
          /\ UNCHANGED reader_pos
    /\ UNCHANGED <<data, mutex, kernelVars, reader, returned, faulty>>

\* Mutant: the handler goes round for one more frame instead of returning.
MWorkerLoops ==
    /\ worker = "unlock"
    /\ mutex' = "none"
    /\ worker' \in {"idle", "lock"}
    /\ UNCHANGED <<ringVars, kernelVars, reader, history>>

\* Mutant: the handler returns without mutex_unlock.
MWorkerKeepsLock ==
    /\ worker = "unlock"
    /\ worker' = "idle"
    /\ UNCHANGED <<ringVars, mutex, kernelVars, reader, history>>

WorkerUnlock ==
    /\ worker = "unlock"
    /\ mutex' = "none"
    /\ worker' = "idle"
    /\ UNCHANGED <<ringVars, kernelVars, reader, history>>

-----------------------------------------------------------------------------
(***************************************************************************)
(* The character device.                                                   *)
(***************************************************************************)
opq_chardev_open(r) ==
    /\ "chardev" \in services
    /\ reader[r] = "closed"
    /\ reader' = [reader EXCEPT ![r] = "open"]
    /\ UNCHANGED <<ringVars, mutex, kernelVars, worker, history>>

opq_chardev_release(r) ==
    /\ reader[r] = "open"
    /\ reader' = [reader EXCEPT ![r] = "closed"]
    /\ UNCHANGED <<ringVars, mutex, kernelVars, worker, history>>

ReadCall(r) ==
    /\ reader[r] = "open"
    /\ reader' = [reader EXCEPT ![r] = "down"]
    /\ UNCHANGED <<ringVars, mutex, kernelVars, worker, history>>

ReadDown(r) ==
    /\ reader[r] = "down"
    /\ sem > 0
    /\ sem' = sem - 1
    /\ reader' = [reader EXCEPT ![r] = "lock"]
    /\ UNCHANGED <<data, writer_pos, reader_pos, mutex, kernelVars, worker, history>>

\* A signal ends the wait: the read returns -ERESTARTSYS.
ReadInterrupted(r) ==
    /\ reader[r] = "down"
    /\ sem = 0
    /\ reader' = [reader EXCEPT ![r] = "open"]
    /\ UNCHANGED <<ringVars, mutex, kernelVars, worker, history>>

\* Mutant: the read copies without the mutex.
MReadWithoutLock(r) ==
    /\ reader[r] = "lock"
    /\ reader' = [reader EXCEPT ![r] = "copy"]
    /\ UNCHANGED <<ringVars, mutex, kernelVars, worker, history>>

ReadLock(r) ==
    /\ reader[r] = "lock"
    /\ mutex = "none"
    /\ mutex' = r
    /\ reader' = [reader EXCEPT ![r] = "copy"]
    /\ UNCHANGED <<ringVars, kernelVars, worker, history>>

\* Mutant: the read returns the frame and leaves reader_pos where it was.
MReadKeepsPos(r) ==
    /\ reader[r] = "copy"
    /\ reader' = [reader EXCEPT ![r] = "unlock"]
    /\ returned' = data[reader_pos]
    /\ UNCHANGED <<ringVars, mutex, kernelVars, worker, written, faulty>>

\* A failed copy_to_user is only logged: the frame is consumed all the same.
ReadCopy(r) ==
    /\ reader[r] = "copy"
    /\ reader' = [reader EXCEPT ![r] = "unlock"]
    /\ reader_pos' = Advance(reader_pos)
    /\ \/ returned' = data[reader_pos]
       \/ Faults /\ returned' = returned
    /\ UNCHANGED <<data, writer_pos, sem, mutex, kernelVars, worker, written, faulty>>

ReadUnlock(r) ==
    /\ reader[r] = "unlock"
    /\ mutex' = "none"
    /\ reader' = [reader EXCEPT ![r] = "open"]
    /\ UNCHANGED <<ringVars, kernelVars, worker, history>>

-----------------------------------------------------------------------------
ModuleNext ==
    \/ opq_circ_buffer_init \/ opq_init_chardev \/ opq_init_spi \/ opq_init_gpio_int
    \/ opq_release_chardev \/ opq_release_spi \/ free_irq \/ cancel_work_sync
    \/ opq_circ_buffer_remove

opq_wq_spi_reader_handler ==
    WorkerLock \/ WorkerSpiRead \/ WorkerAdvance \/ WorkerUnlock

opq_chardev_read(r) ==
    ReadDown(r) \/ ReadInterrupted(r) \/ ReadLock(r) \/ ReadCopy(r) \/ ReadUnlock(r)

ReaderNext(r) ==
    opq_chardev_open(r) \/ opq_chardev_release(r) \/ ReadCall(r) \/ opq_chardev_read(r)

Next ==
    \/ ModuleNext
    \/ opq_gpio_irq_handler
    \/ WorkerStart
    \/ opq_wq_spi_reader_handler
    \/ \E r \in Readers : ReaderNext(r)

(***************************************************************************)
(* The scheduler runs what is runnable.  Kernel mutexes and semaphores     *)
(* queue their waiters, so a waiter is not passed over for ever.  Nothing  *)
(* obliges the DSP to raise the pin, a process to read or rmmod to run;    *)
(* once rmmod started, opq_module_exit runs on.                            *)
(***************************************************************************)
Fairness ==
    /\ WF_vars(WorkerStart)
    /\ SF_vars(WorkerLock)
    /\ WF_vars(WorkerSpiRead) /\ WF_vars(WorkerAdvance) /\ WF_vars(WorkerUnlock)
    /\ WF_vars(opq_release_spi) /\ WF_vars(free_irq)
    /\ WF_vars(cancel_work_sync) /\ WF_vars(opq_circ_buffer_remove)
    /\ \A r \in Readers :
          /\ SF_vars(ReadDown(r)) /\ SF_vars(ReadLock(r))
          /\ WF_vars(ReadCopy(r)) /\ WF_vars(ReadUnlock(r))

Spec == Init /\ [][Next]_vars

FairSpec == Spec /\ Fairness

-----------------------------------------------------------------------------
(***************************************************************************)
(* Correctness.                                                            *)
(***************************************************************************)
TypeOK ==
    /\ data \in [Slots -> Nat]
    /\ writer_pos \in Slots
    /\ reader_pos \in Slots
    /\ sem \in Nat
    /\ mutex \in {"none", "worker"} \cup Readers
    /\ int_cnt \in 0 .. MaxInterrupts
    /\ queued \in BOOLEAN
    /\ services \in SUBSET {"chardev", "spi", "irq"}
    /\ stage \in Stages
    /\ worker \in {"idle", "lock", "spi", "advance", "unlock"}
    /\ reader \in [Readers -> {"closed", "open", "down", "lock", "copy", "unlock"}]
    /\ written \in Nat
    /\ returned \in Nat \cup {Nothing}
    /\ faulty \in BOOLEAN

\* How many slots position w is ahead of slot s, between 1 and N.
Distance(w, s) == IF w > s THEN w - s ELSE w - s + N

Ahead(s) == Distance(writer_pos, s)

\* Readers that took a unit of the semaphore and have not moved reader_pos yet.
Claimed == {r \in Readers : reader[r] \in {"lock", "copy"}}

\* Number of the frame that reader_pos stands for.
OldestKept == written + 1 - Ahead(reader_pos)

(***************************************************************************)
(* The semaphore counts what the ring holds: the free units and the units  *)
(* readers already took but did not use yet are together one less than the *)
(* slots from reader_pos to writer_pos, through every eviction that races  *)
(* a reader between down_interruptible and mutex_lock.  Neither position   *)
(* ever reaches the other, so no read is let through on an empty ring.     *)
(***************************************************************************)
SemaphoreCountsFrames ==
    /\ sem + Cardinality(Claimed) + 1 = Ahead(reader_pos)
    /\ reader_pos # writer_pos

(***************************************************************************)
(* copy_to_user never runs while spi_read fills a slot or the handler      *)
(* moves the positions, and two reads never copy at once: the slot copied  *)
(* is a whole frame.                                                       *)
(***************************************************************************)
NoTornCopy ==
    \A r \in Readers : reader[r] \in {"copy", "unlock"} =>
        /\ worker \notin {"spi", "advance", "unlock"}
        /\ \A q \in Readers \ {r} : reader[q] \notin {"copy", "unlock"}

(***************************************************************************)
(* As long as no spi_read failed, the slot k places behind the writer      *)
(* holds the frame written k frames ago, or nothing yet.                   *)
(***************************************************************************)
SlotsHoldLastFrames ==
    ~faulty => \A s \in Slots :
        \/ s = writer_pos /\ worker = "advance"
        \/ data[s] = IF Ahead(s) <= written THEN written + 1 - Ahead(s) ELSE Garbage

(***************************************************************************)
(* opq_module_exit after a complete opq_module_init: the ring, its mutex   *)
(* and its semaphore are freed only when no handler runs or can still run. *)
(* The SPI device is not spared so: opq_release_spi comes before the       *)
(* handler has stopped, whose spi_read may then have no device to use and  *)
(* leave a slot unfilled.  From there on no descriptor is open and none    *)
(* can be opened, so that nobody is handed such a slot.                    *)
(***************************************************************************)
RingOutlivesItsUsers ==
    /\ stage \in {"noSpi", "noIrq", "noWork", "unloaded"} =>
          "chardev" \notin services /\ \A r \in Readers : reader[r] = "closed"
    /\ stage \in {"noWork", "unloaded"} =>
          worker = "idle" /\ ~queued /\ "irq" \notin services /\ mutex = "none"

(***************************************************************************)
(* Every SPI transfer answers an interrupt of its own: interrupts may be   *)
(* merged by queue_work, but the driver never clocks the DSP unasked.      *)
(***************************************************************************)
TransfersFollowEdges ==
    written + (IF queued THEN 1 ELSE 0)
            + (IF worker \in {"lock", "spi", "advance"} THEN 1 ELSE 0) <= int_cnt

(***************************************************************************)
(* The slot that a read copies is newer than everything handed out since   *)
(* the load, at every copy_to_user of every descriptor, however often the  *)
(* writer laps the reader: no frame twice, not even to two reads in a row, *)
(* and none out of order.                                                  *)
(***************************************************************************)
DeliveredInOrder ==
    [][\A r \in Readers :
          (reader[r] = "copy" /\ reader'[r] # "copy" /\ ~faulty) => data[reader_pos] > returned]_vars

(***************************************************************************)
(* The device implements the lossy stream of FrameStream.                  *)
(***************************************************************************)
Stream == INSTANCE FrameStream WITH
    Window <- N - 1, newest <- written, oldest <- OldestKept, taken <- returned

StreamSpec == Stream!Spec

(***************************************************************************)
(* A read that waits while the ring holds a frame nobody claimed does not  *)
(* wait for ever: it gets a frame, or others took them all.                *)
(***************************************************************************)
NoLostWakeup ==
    \A r \in Readers :
        (reader[r] = "down" /\ Ahead(reader_pos) > 1 + Cardinality(Claimed))
            ~> (reader[r] # "down" \/ Ahead(reader_pos) = 1 + Cardinality(Claimed))

(***************************************************************************)
(* A read that took a unit of the semaphore returns to its caller.         *)
(***************************************************************************)
ClaimedReadReturns ==
    \A r \in Readers : (reader[r] = "lock") ~> (reader[r] = "open")

(***************************************************************************)
(* Once opq_module_exit begins it ends, whatever the handler is doing.     *)
(***************************************************************************)
UnloadCompletes == (stage = "noChardev") ~> (stage = "unloaded")

-----------------------------------------------------------------------------
(***************************************************************************)
(* What the properties above need to be inductive.                         *)
(***************************************************************************)
\* The mutex belongs to whoever is between mutex_lock and mutex_unlock.
MutexHeldInside ==
    /\ mutex = "worker" <=> worker \in {"spi", "advance", "unlock"}
    /\ \A r \in Readers : mutex = r <=> reader[r] \in {"copy", "unlock"}

\* What may be registered, running or open at each stage of load and unload.
LifeCycle ==
    /\ "irq" \in services => stage \in {"live", "noChardev", "noSpi"}
    /\ "chardev" \in services => stage \in {"chardev", "spi", "live"}
    /\ \A r \in Readers : reader[r] # "closed" => stage \in {"chardev", "spi", "live"}
    /\ queued \/ worker # "idle" => stage \in {"live", "noChardev", "noSpi", "noIrq"}

\* When nothing fails, spi_read can only miss a device that is going away.
FaultsOnlyAtExit ==
    ~Faults =>
        /\ stage \in {"spi", "live", "noChardev"} => "spi" \in services
        /\ faulty => stage \in {"noSpi", "noIrq", "noWork", "unloaded"}

\* The reader is behind the writer and everything returned is behind the reader.
ReadBehindRing ==
    /\ OldestKept >= 0
    /\ ~faulty => returned < OldestKept
    /\ ~faulty /\ worker = "advance" => data[writer_pos] = written + 1

Inv ==
    /\ TypeOK
    /\ MutexHeldInside
    /\ LifeCycle
    /\ FaultsOnlyAtExit
    /\ SemaphoreCountsFrames
    /\ SlotsHoldLastFrames
    /\ TransfersFollowEdges
    /\ ReadBehindRing

(***************************************************************************)
(* What the comment on Reader claims, and the ring does not keep: the      *)
(* first read returns the slot the ring started with.                      *)
(***************************************************************************)
ReadsReturnSamples == returned # Garbage

=============================================================================
