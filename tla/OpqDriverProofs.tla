-------------------------- MODULE OpqDriverProofs --------------------------
(***************************************************************************)
(* Proofs about OpqDriver, for every ring size above one, every finite set *)
(* of descriptors and with or without failing kernel services.             *)
(***************************************************************************)
EXTENDS OpqDriver, FiniteSetTheorems, TLAPS

\* The size of the ring, without its long name.
LEMMA RingSize == N \in Nat /\ N > 1
BY CountAssumption DEF N

\* Advancing a position stays inside the ring.
LEMMA AdvanceInSlots == \A p \in Slots : Advance(p) \in Slots
BY RingSize DEF Slots, Advance

-----------------------------------------------------------------------------
(***************************************************************************)
(* Type correctness.                                                       *)
(***************************************************************************)
\* The initial state is well typed.
LEMMA TypeInit == Init => TypeOK
<1> SUFFICES ASSUME Init PROVE TypeOK
  OBVIOUS
<1>1. queued \in BOOLEAN /\ faulty \in BOOLEAN
  BY Zenon DEF Init
<1> QED
  BY <1>1, RingSize, BoundAssumption, SMT DEF Init, TypeOK, Slots, Garbage, Nothing, Stages

\* Loading and unloading keep the types.
LEMMA TypeModule == TypeOK /\ ModuleNext => TypeOK'
<1> SUFFICES ASSUME TypeOK, ModuleNext PROVE TypeOK'
  OBVIOUS
<1> USE RingSize, BoundAssumption DEF TypeOK, Slots, Stages, ringVars, history
<1>1. CASE opq_circ_buffer_init
  <2>1. faulty' \in BOOLEAN
    BY <1>1, Zenon DEF opq_circ_buffer_init
  <2> QED
    BY <1>1, <2>1, SMT DEF opq_circ_buffer_init, Garbage, Nothing
<1>2. CASE opq_init_chardev
  BY <1>2 DEF opq_init_chardev, InitStep
<1>3. CASE opq_init_spi
  BY <1>3 DEF opq_init_spi, InitStep
<1>4. CASE opq_init_gpio_int
  BY <1>4 DEF opq_init_gpio_int, InitStep
<1>5. CASE opq_release_chardev
  BY <1>5 DEF opq_release_chardev
<1>6. CASE opq_release_spi
  BY <1>6 DEF opq_release_spi
<1>7. CASE free_irq
  BY <1>7 DEF free_irq
<1>8. CASE cancel_work_sync
  BY <1>8 DEF cancel_work_sync
<1>9. CASE opq_circ_buffer_remove
  BY <1>9 DEF opq_circ_buffer_remove
<1> QED
  BY <1>1, <1>2, <1>3, <1>4, <1>5, <1>6, <1>7, <1>8, <1>9 DEF ModuleNext

\* The interrupt and its bottom half keep the types.
LEMMA TypeWorker ==
    TypeOK /\ (opq_gpio_irq_handler \/ WorkerStart \/ opq_wq_spi_reader_handler) => TypeOK'
<1> SUFFICES ASSUME TypeOK,
                    opq_gpio_irq_handler \/ WorkerStart \/ opq_wq_spi_reader_handler
             PROVE  TypeOK'
  OBVIOUS
<1> USE DEF TypeOK, ringVars, kernelVars, history
<1>1. CASE opq_gpio_irq_handler
  <2>1. queued' \in BOOLEAN
    BY <1>1, Zenon DEF opq_gpio_irq_handler
  <2> QED
    BY <1>1, <2>1, BoundAssumption, SMT DEF opq_gpio_irq_handler
<1>2. CASE WorkerStart
  BY <1>2 DEF WorkerStart
<1>3. CASE WorkerLock
  BY <1>3 DEF WorkerLock
<1>4. CASE WorkerSpiRead
  <2>1. faulty' \in BOOLEAN
    BY <1>4, Zenon DEF WorkerSpiRead
  <2> QED
    BY <1>4, <2>1, SMT DEF WorkerSpiRead
<1>5. CASE WorkerAdvance
  BY <1>5, AdvanceInSlots DEF WorkerAdvance
<1>6. CASE WorkerUnlock
  BY <1>6 DEF WorkerUnlock
<1> QED
  BY <1>1, <1>2, <1>3, <1>4, <1>5, <1>6 DEF opq_wq_spi_reader_handler

\* The character device keeps the types.
LEMMA TypeReader == TypeOK /\ (\E r \in Readers : ReaderNext(r)) => TypeOK'
<1> SUFFICES ASSUME TypeOK, NEW r \in Readers, ReaderNext(r) PROVE TypeOK'
  OBVIOUS
<1> USE DEF TypeOK, ringVars, kernelVars, history
<1>1. CASE opq_chardev_open(r)
  BY <1>1 DEF opq_chardev_open
<1>2. CASE opq_chardev_release(r)
  BY <1>2 DEF opq_chardev_release
<1>3. CASE ReadCall(r)
  BY <1>3 DEF ReadCall
<1>4. CASE ReadDown(r)
  BY <1>4 DEF ReadDown
<1>5. CASE ReadInterrupted(r)
  BY <1>5 DEF ReadInterrupted
<1>6. CASE ReadLock(r)
  BY <1>6 DEF ReadLock
<1>7. CASE ReadCopy(r)
  BY <1>7, AdvanceInSlots DEF ReadCopy
<1>8. CASE ReadUnlock(r)
  BY <1>8 DEF ReadUnlock
<1> QED
  BY <1>1, <1>2, <1>3, <1>4, <1>5, <1>6, <1>7, <1>8 DEF ReaderNext, opq_chardev_read

\* Every step keeps the types.
LEMMA TypeStep == TypeOK /\ [Next]_vars => TypeOK'
<1> SUFFICES ASSUME TypeOK, [Next]_vars PROVE TypeOK'
  OBVIOUS
<1>1. CASE UNCHANGED vars
  BY <1>1 DEF TypeOK, vars
<1> QED
  BY <1>1, TypeModule, TypeWorker, TypeReader DEF Next

(***************************************************************************)
(* The state of the driver is well typed: in particular neither ring       *)
(* position of opq_main.c ever leaves the array.                           *)
(***************************************************************************)
THEOREM TypeCorrect == Spec => []TypeOK
BY TypeInit, TypeStep, PTL DEF Spec

-----------------------------------------------------------------------------
(***************************************************************************)
(* Arithmetic of the ring.                                                 *)
(***************************************************************************)
\* A distance lies between 1 and N, and is N only between equal positions.
LEMMA DistanceRange ==
    \A w, s \in Slots : /\ Distance(w, s) \in 1 .. N
                        /\ Distance(w, s) = N <=> w = s
BY RingSize DEF Slots, Distance

\* Moving the writer leaves one slot more between it and every other slot.
LEMMA WriterMoves ==
    \A w, s \in Slots :
        Distance(Advance(w), s) = IF s = w THEN 1 ELSE Distance(w, s) + 1
BY RingSize DEF Slots, Distance, Advance

\* Moving the reader towards the writer leaves one slot fewer between them.
LEMMA ReaderMoves ==
    \A w, s \in Slots : Distance(w, s) > 1 =>
        /\ Distance(w, Advance(s)) = Distance(w, s) - 1
        /\ Advance(s) # w
BY RingSize DEF Slots, Distance, Advance

\* A writer that runs into the reader finds the ring full, and evicting keeps it full.
LEMMA Evicting ==
    \A w, s \in Slots : Advance(w) = s =>
        /\ Distance(w, s) = N - 1
        /\ Distance(Advance(w), Advance(s)) = N - 1
        /\ Advance(w) # Advance(s)
BY RingSize DEF Slots, Distance, Advance

-----------------------------------------------------------------------------
(***************************************************************************)
(* Locking and the life cycle.                                             *)
(***************************************************************************)
\* The mutex is held exactly inside the critical sections.
LEMMA MutexStep == TypeOK /\ LifeCycle /\ MutexHeldInside /\ [Next]_vars => MutexHeldInside'
<1> SUFFICES ASSUME TypeOK, LifeCycle, MutexHeldInside, [Next]_vars PROVE MutexHeldInside'
  OBVIOUS
<1> USE ReadersAssumption DEF TypeOK, MutexHeldInside, ringVars, kernelVars, history
<1>1. CASE UNCHANGED vars
  BY <1>1 DEF vars
<1>2. CASE opq_circ_buffer_init
  BY <1>2 DEF opq_circ_buffer_init, LifeCycle
<1>3. CASE ModuleNext /\ ~opq_circ_buffer_init
  BY <1>3 DEF ModuleNext, InitStep, opq_init_chardev, opq_init_spi, opq_init_gpio_int,
       opq_release_chardev, opq_release_spi, free_irq, cancel_work_sync, opq_circ_buffer_remove
<1>4. CASE opq_gpio_irq_handler
  BY <1>4 DEF opq_gpio_irq_handler
<1>5. CASE WorkerStart
  BY <1>5 DEF WorkerStart
<1>6. CASE opq_wq_spi_reader_handler
  BY <1>6 DEF opq_wq_spi_reader_handler, WorkerLock, WorkerSpiRead, WorkerAdvance, WorkerUnlock
<1>7. ASSUME NEW r \in Readers, ReaderNext(r) PROVE MutexHeldInside'
  <2>1. CASE opq_chardev_open(r)
    BY <2>1 DEF opq_chardev_open
  <2>2. CASE opq_chardev_release(r)
    BY <2>2 DEF opq_chardev_release
  <2>3. CASE ReadCall(r)
    BY <2>3 DEF ReadCall
  <2>4. CASE ReadDown(r)
    BY <2>4 DEF ReadDown
  <2>5. CASE ReadInterrupted(r)
    BY <2>5 DEF ReadInterrupted
  <2>6. CASE ReadLock(r)
    BY <2>6 DEF ReadLock
  <2>7. CASE ReadCopy(r)
    BY <2>7 DEF ReadCopy
  <2>8. CASE ReadUnlock(r)
    BY <2>8 DEF ReadUnlock
  <2> QED
    BY <1>7, <2>1, <2>2, <2>3, <2>4, <2>5, <2>6, <2>7, <2>8 DEF ReaderNext, opq_chardev_read
<1> QED
  BY <1>1, <1>2, <1>3, <1>4, <1>5, <1>6, <1>7 DEF Next

\* What is registered, running or open fits the stage of load or unload.
LEMMA LifeStep ==
    TypeOK /\ LifeCycle /\ FaultsOnlyAtExit /\ [Next]_vars => LifeCycle' /\ FaultsOnlyAtExit'
<1> SUFFICES ASSUME TypeOK, LifeCycle, FaultsOnlyAtExit, [Next]_vars
             PROVE  LifeCycle' /\ FaultsOnlyAtExit'
  OBVIOUS
<1> USE FaultsAssumption DEF TypeOK, LifeCycle, FaultsOnlyAtExit, ringVars, kernelVars, history
<1>1. CASE UNCHANGED vars
  BY <1>1 DEF vars
<1>2. CASE opq_circ_buffer_init
  BY <1>2 DEF opq_circ_buffer_init
<1>3. CASE opq_init_chardev \/ opq_init_spi \/ opq_init_gpio_int
  BY <1>3 DEF InitStep, opq_init_chardev, opq_init_spi, opq_init_gpio_int
<1>4. CASE opq_release_chardev \/ opq_release_spi \/ free_irq
  BY <1>4 DEF opq_release_chardev, opq_release_spi, free_irq
<1>5. CASE cancel_work_sync \/ opq_circ_buffer_remove
  BY <1>5 DEF cancel_work_sync, opq_circ_buffer_remove
<1>6. CASE opq_gpio_irq_handler
  BY <1>6 DEF opq_gpio_irq_handler
<1>7. CASE WorkerStart
  BY <1>7 DEF WorkerStart
<1>8. CASE WorkerLock \/ WorkerAdvance \/ WorkerUnlock
  BY <1>8 DEF WorkerLock, WorkerAdvance, WorkerUnlock
<1>9. CASE WorkerSpiRead
  BY <1>9 DEF WorkerSpiRead
<1>10. ASSUME NEW r \in Readers, ReaderNext(r) PROVE LifeCycle' /\ FaultsOnlyAtExit'
  BY <1>10 DEF ReaderNext, opq_chardev_read, opq_chardev_open, opq_chardev_release,
       ReadCall, ReadDown, ReadInterrupted, ReadLock, ReadCopy, ReadUnlock
<1> QED
  BY <1>1, <1>2, <1>3, <1>4, <1>5, <1>6, <1>7, <1>8, <1>9, <1>10
  DEF Next, ModuleNext, opq_wq_spi_reader_handler

-----------------------------------------------------------------------------
(***************************************************************************)
(* The semaphore.                                                          *)
(***************************************************************************)
\* The set of claims is finite and its size is a number.
LEMMA ClaimsAreFinite == IsFiniteSet(Claimed) /\ Cardinality(Claimed) \in Nat
<1>1. IsFiniteSet(Claimed)
  BY ReadersAssumption, FS_Subset DEF Claimed
<1> QED
  BY <1>1, FS_CardinalityType

\* A read that takes a unit of the semaphore is one claim more.
LEMMA ClaimTaken ==
    ASSUME TypeOK, NEW r \in Readers, ReadDown(r)
    PROVE  Cardinality(Claimed') = Cardinality(Claimed) + 1
<1>1. Claimed' = Claimed \cup {r} /\ r \notin Claimed
  BY DEF Claimed, ReadDown, TypeOK
<1> QED
  BY <1>1, ClaimsAreFinite, FS_AddElement

\* A read that moves reader_pos is one claim fewer.
LEMMA ClaimUsed ==
    ASSUME TypeOK, NEW r \in Readers, ReadCopy(r)
    PROVE  /\ Cardinality(Claimed) >= 1
           /\ Cardinality(Claimed') = Cardinality(Claimed) - 1
<1>1. Claimed' = Claimed \ {r} /\ r \in Claimed
  BY DEF Claimed, ReadCopy, TypeOK
<1>2. Cardinality(Claimed') = Cardinality(Claimed) - 1
  BY <1>1, ClaimsAreFinite, FS_RemoveElement
<1>3. Cardinality(Claimed) # 0
  BY <1>1, ClaimsAreFinite, FS_EmptySet
<1> QED
  BY <1>2, <1>3, ClaimsAreFinite

\* Every step keeps the semaphore equal to what the ring holds unclaimed.
LEMMA CountStep ==
    TypeOK /\ LifeCycle /\ SemaphoreCountsFrames /\ [Next]_vars => SemaphoreCountsFrames'
<1> SUFFICES ASSUME TypeOK, LifeCycle, SemaphoreCountsFrames, [Next]_vars
             PROVE  SemaphoreCountsFrames'
  OBVIOUS
<1> DEFINE C == Cardinality(Claimed)
<1>c. C \in Nat
  BY ClaimsAreFinite
<1>t. writer_pos \in Slots /\ reader_pos \in Slots /\ sem \in Nat
  BY DEF TypeOK
<1>h. sem + C + 1 = Distance(writer_pos, reader_pos) /\ reader_pos # writer_pos
  BY DEF SemaphoreCountsFrames, Ahead
<1>g. SUFFICES /\ sem' + Cardinality(Claimed') + 1 = Distance(writer_pos', reader_pos')
               /\ reader_pos' # writer_pos'
  BY DEF SemaphoreCountsFrames, Ahead
<1>1. ASSUME Claimed' = Claimed, UNCHANGED <<writer_pos, reader_pos, sem>>
      PROVE  /\ sem' + Cardinality(Claimed') + 1 = Distance(writer_pos', reader_pos')
             /\ reader_pos' # writer_pos'
  BY <1>1, <1>h
<1>2. CASE UNCHANGED vars
  BY <1>2, <1>1 DEF vars, Claimed
<1>3. CASE opq_circ_buffer_init
  <2>1. Claimed' = {}
    BY <1>3 DEF opq_circ_buffer_init, LifeCycle, Claimed
  <2>2. Cardinality(Claimed') = 0
    BY <2>1, FS_EmptySet
  <2> QED
    BY <1>3, <2>2 DEF opq_circ_buffer_init, Distance
<1>4. CASE ModuleNext /\ ~opq_circ_buffer_init
  BY <1>1, <1>4 DEF ModuleNext, InitStep, opq_init_chardev, opq_init_spi, opq_init_gpio_int,
       opq_release_chardev, opq_release_spi, free_irq, cancel_work_sync,
       opq_circ_buffer_remove, ringVars, Claimed
<1>5. CASE opq_gpio_irq_handler \/ WorkerStart \/ WorkerLock \/ WorkerSpiRead \/ WorkerUnlock
  BY <1>1, <1>5 DEF opq_gpio_irq_handler, WorkerStart, WorkerLock, WorkerSpiRead,
       WorkerUnlock, ringVars, Claimed
<1>6. CASE WorkerAdvance
  <2>1. Claimed' = Claimed /\ writer_pos' = Advance(writer_pos)
    BY <1>6 DEF WorkerAdvance, Claimed
  <2>2. CASE Advance(writer_pos) = reader_pos
    <3>1. reader_pos' = Advance(reader_pos) /\ sem' = sem
      BY <1>6, <2>2 DEF WorkerAdvance
    <3> QED
      BY <2>1, <2>2, <3>1, <1>h, <1>t, Evicting
  <2>3. CASE Advance(writer_pos) # reader_pos
    <3>1. reader_pos' = reader_pos /\ sem' = sem + 1
      BY <1>6, <2>3 DEF WorkerAdvance
    <3> QED
      BY <2>1, <2>3, <3>1, <1>h, <1>t, <1>c, WriterMoves
  <2> QED
    BY <2>2, <2>3
<1>7. ASSUME NEW r \in Readers, ReaderNext(r)
      PROVE  /\ sem' + Cardinality(Claimed') + 1 = Distance(writer_pos', reader_pos')
             /\ reader_pos' # writer_pos'
  <2>1. CASE ReadDown(r)
    <3>1. sem' = sem - 1 /\ UNCHANGED <<writer_pos, reader_pos>>
      BY <2>1 DEF ReadDown
    <3> QED
      BY <2>1, <3>1, <1>h, <1>c, <1>t, ClaimTaken
  <2>2. CASE ReadCopy(r)
    <3>1. sem' = sem /\ writer_pos' = writer_pos /\ reader_pos' = Advance(reader_pos)
      BY <2>2 DEF ReadCopy
    <3>2. C >= 1 /\ Cardinality(Claimed') = C - 1
      BY <2>2, ClaimUsed
    <3>3. Distance(writer_pos, reader_pos) > 1
      BY <3>2, <1>h, <1>c, <1>t
    <3> QED
      BY <3>1, <3>2, <3>3, <1>h, <1>c, <1>t, ReaderMoves
  <2>3. CASE opq_chardev_open(r) \/ opq_chardev_release(r) \/ ReadCall(r)
             \/ ReadInterrupted(r) \/ ReadLock(r) \/ ReadUnlock(r)
    <3>1. Claimed' = Claimed
      BY <2>3 DEF opq_chardev_open, opq_chardev_release, ReadCall, ReadInterrupted,
           ReadLock, ReadUnlock, Claimed, TypeOK
    <3>2. UNCHANGED <<writer_pos, reader_pos, sem>>
      BY <2>3 DEF opq_chardev_open, opq_chardev_release, ReadCall, ReadInterrupted,
           ReadLock, ReadUnlock, ringVars
    <3> QED
      BY <3>1, <3>2, <1>1
  <2> QED
    BY <1>7, <2>1, <2>2, <2>3 DEF ReaderNext, opq_chardev_read
<1> QED
  BY <1>2, <1>3, <1>4, <1>5, <1>6, <1>7 DEF Next, opq_wq_spi_reader_handler

-----------------------------------------------------------------------------
(***************************************************************************)
(* Interrupts, contents of the slots and order of delivery.                *)
(***************************************************************************)
\* No transfer without an interrupt.
LEMMA EdgeStep == TypeOK /\ LifeCycle /\ TransfersFollowEdges /\ [Next]_vars => TransfersFollowEdges'
<1> SUFFICES ASSUME TypeOK, LifeCycle, TransfersFollowEdges, [Next]_vars
             PROVE  TransfersFollowEdges'
  OBVIOUS
<1> USE BoundAssumption DEF TypeOK, TransfersFollowEdges, ringVars, kernelVars, history
<1>1. CASE UNCHANGED vars
  BY <1>1 DEF vars
<1>2. CASE opq_circ_buffer_init
  BY <1>2 DEF opq_circ_buffer_init, LifeCycle
<1>3. CASE ModuleNext /\ ~opq_circ_buffer_init
  BY <1>3 DEF ModuleNext, InitStep, opq_init_chardev, opq_init_spi, opq_init_gpio_int,
       opq_release_chardev, opq_release_spi, free_irq, cancel_work_sync, opq_circ_buffer_remove
<1>4. CASE opq_gpio_irq_handler
  BY <1>4 DEF opq_gpio_irq_handler
<1>5. CASE WorkerStart
  BY <1>5 DEF WorkerStart
<1>6. CASE opq_wq_spi_reader_handler
  BY <1>6 DEF opq_wq_spi_reader_handler, WorkerLock, WorkerSpiRead, WorkerAdvance, WorkerUnlock
<1>7. ASSUME NEW r \in Readers, ReaderNext(r) PROVE TransfersFollowEdges'
  BY <1>7 DEF ReaderNext, opq_chardev_read, opq_chardev_open, opq_chardev_release,
       ReadCall, ReadDown, ReadInterrupted, ReadLock, ReadCopy, ReadUnlock
<1> QED
  BY <1>1, <1>2, <1>3, <1>4, <1>5, <1>6, <1>7 DEF Next

\* What the slot at distance d holds after k frames.
Holds(k, d) == IF d <= k THEN k + 1 - d ELSE Garbage

\* The slot just behind the writer holds the newest frame.
LEMMA HoldsNewest == \A k \in Nat : Holds(k + 1, 1) = k + 1
BY DEF Holds, Garbage

\* A read copies the frame that reader_pos stands for.
LEMMA CopiedFrame ==
    ASSUME Inv, NEW r \in Readers, reader[r] = "copy", ~faulty
    PROVE  data[reader_pos] = OldestKept
<1>1. worker # "advance"
  BY ReadersAssumption DEF Inv, MutexHeldInside
<1>2. reader_pos \in Slots /\ Ahead(reader_pos) \in Int /\ written \in Nat
  BY DistanceRange DEF Inv, TypeOK, Ahead
<1> QED
  BY <1>1, <1>2 DEF Inv, SlotsHoldLastFrames, ReadBehindRing, OldestKept, Garbage

\* A claimed frame leaves reader_pos at least two slots behind the writer.
LEMMA ClaimLeavesRoom ==
    ASSUME Inv, NEW r \in Readers, ReadCopy(r)
    PROVE  Distance(writer_pos, reader_pos) > 1
<1>1. Cardinality(Claimed) >= 1
  BY ClaimUsed DEF Inv
<1>2. sem \in Nat /\ sem + Cardinality(Claimed) + 1 = Distance(writer_pos, reader_pos)
  BY DEF Inv, TypeOK, SemaphoreCountsFrames, Ahead
<1> QED
  BY <1>1, <1>2, ClaimsAreFinite

\* The slots keep holding the last frames.
LEMMA SlotStep == Inv /\ [Next]_vars => SlotsHoldLastFrames'
<1> SUFFICES ASSUME Inv, [Next]_vars, ~faulty', NEW s \in Slots
             PROVE  \/ s = writer_pos' /\ worker' = "advance"
                    \/ data'[s] = Holds(written', Distance(writer_pos', s))
  BY DEF SlotsHoldLastFrames, Holds, Ahead
<1> DEFINE Goal == \/ s = writer_pos' /\ worker' = "advance"
                   \/ data'[s] = Holds(written', Distance(writer_pos', s))
<1>t. /\ writer_pos \in Slots /\ written \in Nat /\ data \in [Slots -> Nat]
      /\ Distance(writer_pos, s) \in 1 .. N
  BY DistanceRange DEF Inv, TypeOK
<1>h. ~faulty => \/ s = writer_pos /\ worker = "advance"
                 \/ data[s] = Holds(written, Distance(writer_pos, s))
  BY DEF Inv, SlotsHoldLastFrames, Holds, Ahead
<1>1. ASSUME UNCHANGED <<data, writer_pos, written, faulty>>, worker # "advance" \/ worker' = worker
      PROVE  Goal
  BY <1>1, <1>h
<1>2. CASE UNCHANGED vars
  BY <1>2, <1>1 DEF vars
<1>3. CASE opq_circ_buffer_init
  BY <1>3, <1>t, RingSize DEF opq_circ_buffer_init, Holds, Garbage, Distance, Slots
<1>4. CASE ModuleNext /\ ~opq_circ_buffer_init
  BY <1>1, <1>4 DEF ModuleNext, InitStep, opq_init_chardev, opq_init_spi, opq_init_gpio_int,
       opq_release_chardev, opq_release_spi, free_irq, cancel_work_sync,
       opq_circ_buffer_remove, ringVars, history
<1>5. CASE opq_gpio_irq_handler \/ WorkerStart \/ WorkerLock \/ WorkerUnlock
  BY <1>1, <1>5 DEF opq_gpio_irq_handler, WorkerStart, WorkerLock, WorkerUnlock,
       ringVars, history
<1>6. CASE WorkerSpiRead
  BY <1>6, <1>h, <1>t DEF WorkerSpiRead
<1>7. CASE WorkerAdvance
  <2>1. /\ data' = data /\ written' = written + 1 /\ writer_pos' = Advance(writer_pos)
        /\ ~faulty
    BY <1>7 DEF WorkerAdvance
  <2>2. CASE s = writer_pos
    <3>1. data[s] = written + 1
      BY <1>7, <2>1, <2>2 DEF WorkerAdvance, Inv, ReadBehindRing
    <3>2. Distance(writer_pos', s) = 1
      BY <2>1, <2>2, <1>t, WriterMoves
    <3>3. Holds(written + 1, 1) = written + 1
      BY <1>t, HoldsNewest
    <3> QED
      BY <2>1, <3>1, <3>2, <3>3
  <2>3. CASE s # writer_pos
    <3>1. data[s] = Holds(written, Distance(writer_pos, s))
      BY <2>1, <2>3, <1>h
    <3>2. Distance(writer_pos', s) = Distance(writer_pos, s) + 1
      BY <2>1, <2>3, <1>t, WriterMoves
    <3> QED
      BY <2>1, <3>1, <3>2, <1>t DEF Holds
  <2> QED
    BY <2>2, <2>3
<1>8. ASSUME NEW r \in Readers, ReaderNext(r) PROVE Goal
  BY <1>1, <1>8 DEF ReaderNext, opq_chardev_read, opq_chardev_open, opq_chardev_release,
       ReadCall, ReadDown, ReadInterrupted, ReadLock, ReadCopy, ReadUnlock, ringVars, history
<1> QED
  BY <1>2, <1>3, <1>4, <1>5, <1>6, <1>7, <1>8 DEF Next, opq_wq_spi_reader_handler

\* Everything returned stays behind reader_pos, and reader_pos behind writer_pos.
LEMMA BehindStep == Inv /\ [Next]_vars => ReadBehindRing'
<1> SUFFICES ASSUME Inv, [Next]_vars PROVE ReadBehindRing'
  OBVIOUS
<1> DEFINE D == Distance(writer_pos, reader_pos)
<1>t. /\ writer_pos \in Slots /\ reader_pos \in Slots /\ written \in Nat
      /\ data \in [Slots -> Nat] /\ returned \in Int /\ D \in 1 .. N
  BY DistanceRange DEF Inv, TypeOK, Nothing
<1>h. /\ written + 1 - D >= 0
      /\ ~faulty => returned < written + 1 - D
      /\ ~faulty /\ worker = "advance" => data[writer_pos] = written + 1
  BY DEF Inv, ReadBehindRing, OldestKept, Ahead
<1> DEFINE Goal ==
      /\ written' + 1 - Distance(writer_pos', reader_pos') >= 0
      /\ ~faulty' => returned' < written' + 1 - Distance(writer_pos', reader_pos')
      /\ ~faulty' /\ worker' = "advance" => data'[writer_pos'] = written' + 1
<1>g. SUFFICES Goal
  BY DEF ReadBehindRing, OldestKept, Ahead
<1>1. ASSUME UNCHANGED <<data, writer_pos, reader_pos, written, returned, faulty>>,
             worker' = "advance" => worker = "advance"
      PROVE  Goal
  BY <1>1, <1>h
<1>2. CASE UNCHANGED vars
  BY <1>2, <1>1 DEF vars
<1>3. CASE opq_circ_buffer_init
  BY <1>3, <1>t, RingSize DEF opq_circ_buffer_init, Distance, Nothing, Inv, LifeCycle
<1>4. CASE ModuleNext /\ ~opq_circ_buffer_init
  BY <1>1, <1>4 DEF ModuleNext, InitStep, opq_init_chardev, opq_init_spi, opq_init_gpio_int,
       opq_release_chardev, opq_release_spi, free_irq, cancel_work_sync,
       opq_circ_buffer_remove, ringVars, history
<1>5. CASE opq_gpio_irq_handler \/ WorkerStart \/ WorkerLock \/ WorkerUnlock
  BY <1>1, <1>5 DEF opq_gpio_irq_handler, WorkerStart, WorkerLock, WorkerUnlock,
       ringVars, history
<1>6. CASE WorkerSpiRead
  BY <1>6, <1>h, <1>t DEF WorkerSpiRead
<1>7. CASE WorkerAdvance
  <2>1. /\ written' = written + 1 /\ writer_pos' = Advance(writer_pos)
        /\ returned' = returned /\ faulty' = faulty /\ worker' = "unlock"
    BY <1>7 DEF WorkerAdvance
  <2>2. CASE Advance(writer_pos) = reader_pos
    <3>1. reader_pos' = Advance(reader_pos)
      BY <1>7, <2>2 DEF WorkerAdvance
    <3>2. Distance(writer_pos', reader_pos') = D
      BY <2>1, <2>2, <3>1, <1>t, Evicting
    <3> QED
      BY <2>1, <3>2, <1>h, <1>t
  <2>3. CASE Advance(writer_pos) # reader_pos
    <3>1. reader_pos' = reader_pos /\ reader_pos # writer_pos
      BY <1>7, <2>3 DEF WorkerAdvance, Inv, SemaphoreCountsFrames
    <3>2. Distance(writer_pos', reader_pos') = D + 1
      BY <2>1, <3>1, <1>t, WriterMoves
    <3> QED
      BY <2>1, <3>2, <1>h, <1>t
  <2> QED
    BY <2>2, <2>3
<1>8. ASSUME NEW r \in Readers, ReaderNext(r) PROVE Goal
  <2>1. CASE ReadCopy(r)
    <3>1. /\ writer_pos' = writer_pos /\ reader_pos' = Advance(reader_pos)
          /\ written' = written /\ faulty' = faulty /\ data' = data /\ worker' = worker
      BY <2>1 DEF ReadCopy
    <3>2. Distance(writer_pos', reader_pos') = D - 1
      BY <2>1, <3>1, <1>t, ClaimLeavesRoom, ReaderMoves
    <3>3. ~faulty => returned' \in {returned, written + 1 - D}
      BY <2>1, CopiedFrame DEF ReadCopy, OldestKept, Ahead
    <3> QED
      BY <3>1, <3>2, <3>3, <1>h, <1>t
  <2>2. CASE ~ReadCopy(r)
    BY <1>1, <1>8, <2>2 DEF ReaderNext, opq_chardev_read, opq_chardev_open,
         opq_chardev_release, ReadCall, ReadDown, ReadInterrupted, ReadLock, ReadUnlock,
         ringVars, history
  <2> QED
    BY <2>1, <2>2
<1> QED
  BY <1>2, <1>3, <1>4, <1>5, <1>6, <1>7, <1>8 DEF Next, opq_wq_spi_reader_handler

-----------------------------------------------------------------------------
(***************************************************************************)
(* The inductive invariant and what follows from it.                       *)
(***************************************************************************)
\* The invariant holds initially.
LEMMA InvInit == Init => Inv
<1> SUFFICES ASSUME Init PROVE Inv
  OBVIOUS
<1>1. TypeOK
  BY TypeInit
<1>2. MutexHeldInside /\ LifeCycle
  BY ReadersAssumption DEF Init, MutexHeldInside, LifeCycle
<1>3. FaultsOnlyAtExit /\ TransfersFollowEdges
  BY DEF Init, FaultsOnlyAtExit, TransfersFollowEdges
<1>4. Claimed = {}
  BY DEF Init, Claimed
<1>5. SemaphoreCountsFrames
  BY <1>4, FS_EmptySet DEF Init, SemaphoreCountsFrames, Ahead, Distance
<1>6. SlotsHoldLastFrames /\ ReadBehindRing
  BY RingSize DEF Init, SlotsHoldLastFrames, ReadBehindRing, OldestKept, Ahead, Distance,
       Slots, Garbage, Nothing
<1> QED
  BY <1>1, <1>2, <1>3, <1>5, <1>6 DEF Inv

\* Every step keeps the invariant.
LEMMA InvStep == Inv /\ [Next]_vars => Inv'
BY TypeStep, MutexStep, LifeStep, CountStep, EdgeStep, SlotStep, BehindStep DEF Inv

(***************************************************************************)
(* The inductive invariant of the driver.                                  *)
(***************************************************************************)
THEOREM InvHolds == Spec => []Inv
BY InvInit, InvStep, PTL DEF Spec

(***************************************************************************)
(* opq_main.c's comment on eviction, "number of items has not changed":    *)
(* semaphore, claims and ring positions agree in every state.              *)
(***************************************************************************)
THEOREM SemaphoreCorrect == Spec => []SemaphoreCountsFrames
<1>1. Inv => SemaphoreCountsFrames
  BY DEF Inv
<1> QED
  BY <1>1, InvHolds, PTL

(***************************************************************************)
(* Reads never copy a slot the work item is filling.                       *)
(***************************************************************************)
THEOREM CopiesAreWhole == Spec => []NoTornCopy
<1>1. Inv => NoTornCopy
  BY ReadersAssumption DEF Inv, MutexHeldInside, NoTornCopy
<1> QED
  BY <1>1, InvHolds, PTL

(***************************************************************************)
(* The ring is not freed under a handler or a read, and no process gets a  *)
(* slot that the handler released after opq_release_spi.                   *)
(***************************************************************************)
THEOREM RingSafelyFreed == Spec => []RingOutlivesItsUsers
<1>1. Inv => RingOutlivesItsUsers
  <2> SUFFICES ASSUME Inv PROVE RingOutlivesItsUsers
    OBVIOUS
  <2>1. stage \in {"noSpi", "noIrq", "noWork", "unloaded"} =>
            "chardev" \notin services /\ \A r \in Readers : reader[r] = "closed"
    BY DEF Inv, LifeCycle
  <2>2. stage \in {"noWork", "unloaded"} =>
            worker = "idle" /\ ~queued /\ "irq" \notin services
    BY DEF Inv, LifeCycle
  <2>3. stage \in {"noWork", "unloaded"} => mutex = "none"
    BY <2>1, <2>2 DEF Inv, MutexHeldInside, TypeOK
  <2> QED
    BY <2>1, <2>2, <2>3 DEF RingOutlivesItsUsers
<1> QED
  BY <1>1, InvHolds, PTL

(***************************************************************************)
(* The driver clocks the DSP at most once per data-ready interrupt.        *)
(***************************************************************************)
THEOREM NoUnaskedTransfer == Spec => []TransfersFollowEdges
<1>1. Inv => TransfersFollowEdges
  BY DEF Inv
<1> QED
  BY <1>1, InvHolds, PTL

(***************************************************************************)
(* Without a failed spi_read every slot holds the frame its place behind   *)
(* the writer stands for.                                                  *)
(***************************************************************************)
THEOREM SlotsCorrect == Spec => []SlotsHoldLastFrames
<1>1. Inv => SlotsHoldLastFrames
  BY DEF Inv
<1> QED
  BY <1>1, InvHolds, PTL

(***************************************************************************)
(* Every copy_to_user of opq_chardev_read gets a frame newer than all that *)
(* were handed out before: none twice, none out of the DSP's order.        *)
(***************************************************************************)
THEOREM InOrder == Spec => DeliveredInOrder
<1> DEFINE Copying(r) == reader[r] = "copy" /\ reader'[r] # "copy" /\ ~faulty
           Step == \A r \in Readers : Copying(r) => data[reader_pos] > returned
<1>1. Inv /\ [Next]_vars => [Step]_vars
  <2> SUFFICES ASSUME Inv, NEW r \in Readers, Copying(r)
               PROVE  data[reader_pos] > returned
    OBVIOUS
  <2>1. data[reader_pos] = OldestKept
    BY CopiedFrame
  <2>2. returned \in Int /\ OldestKept \in Int /\ returned < OldestKept
    BY DistanceRange DEF Inv, TypeOK, ReadBehindRing, OldestKept, Ahead, Nothing
  <2> QED
    BY <2>1, <2>2
<1> QED
  BY <1>1, InvHolds, PTL DEF Spec, DeliveredInOrder

-----------------------------------------------------------------------------
(***************************************************************************)
(* The driver implements FrameStream.                                      *)
(***************************************************************************)
\* The mapped variables in terms of the ring.
LEMMA MappedState ==
    Inv => /\ OldestKept \in Int /\ written \in Nat
           /\ Distance(writer_pos, reader_pos) \in 1 .. N - 1
           /\ OldestKept = written + 1 - Distance(writer_pos, reader_pos)
<1> SUFFICES ASSUME Inv
             PROVE  /\ OldestKept \in Int /\ written \in Nat
                    /\ Distance(writer_pos, reader_pos) \in 1 .. N - 1
                    /\ OldestKept = written + 1 - Distance(writer_pos, reader_pos)
  OBVIOUS
<1>1. /\ Distance(writer_pos, reader_pos) \in 1 .. N
      /\ Distance(writer_pos, reader_pos) # N
  BY DistanceRange DEF Inv, TypeOK, SemaphoreCountsFrames
<1> QED
  BY <1>1, RingSize DEF Inv, TypeOK, OldestKept, Ahead

\* A frame put into the ring is an arrival.
LEMMA AdvanceIsArrival == Inv /\ WorkerAdvance => Stream!Arrive
<1> SUFFICES ASSUME Inv, WorkerAdvance PROVE Stream!Arrive
  OBVIOUS
<1> DEFINE D == Distance(writer_pos, reader_pos)
<1>t. writer_pos \in Slots /\ reader_pos \in Slots /\ reader_pos # writer_pos
  BY DEF Inv, TypeOK, SemaphoreCountsFrames
<1>m. written \in Nat /\ D \in 1 .. N - 1 /\ OldestKept = written + 1 - D
  BY MappedState
<1>1. written' = written + 1 /\ returned' = returned /\ writer_pos' = Advance(writer_pos)
  BY DEF WorkerAdvance
<1>2. OldestKept' = written' + 1 - Distance(writer_pos', reader_pos')
  BY DEF OldestKept, Ahead
<1>3. CASE Advance(writer_pos) = reader_pos
  <2>1. reader_pos' = Advance(reader_pos)
    BY <1>3 DEF WorkerAdvance
  <2>2. D = N - 1 /\ Distance(writer_pos', reader_pos') = N - 1
    BY <1>1, <1>3, <1>t, <2>1, Evicting
  <2>3. OldestKept' = OldestKept + 1 /\ written + 1 - OldestKept >= N - 1
    BY <1>1, <1>2, <1>m, <2>2, RingSize
  <2> QED
    BY <1>1, <2>3 DEF Stream!Arrive
<1>4. CASE Advance(writer_pos) # reader_pos
  <2>1. reader_pos' = reader_pos
    BY <1>4 DEF WorkerAdvance
  <2>2. Distance(writer_pos', reader_pos') = D + 1
    BY <1>1, <1>t, <2>1, WriterMoves
  <2>3. D # N - 1
    BY <1>4, <1>t, RingSize DEF Distance, Advance, Slots
  <2>4. OldestKept' = OldestKept /\ ~(written + 1 - OldestKept >= N - 1)
    BY <1>1, <1>2, <1>m, <2>2, <2>3, RingSize
  <2> QED
    BY <1>1, <2>4 DEF Stream!Arrive
<1> QED
  BY <1>3, <1>4

\* A copy to the caller takes the oldest frame.
LEMMA CopyIsTake ==
    ASSUME ~Faults, Inv, NEW r \in Readers, ReadCopy(r) PROVE Stream!Take
<1>1. ~faulty
  <2>1. stage \in {"chardev", "spi", "live"}
    BY DEF ReadCopy, Inv, LifeCycle
  <2> QED
    BY <2>1 DEF Inv, FaultsOnlyAtExit
<1>2. returned' = OldestKept
  BY <1>1, CopiedFrame DEF ReadCopy
<1>3. writer_pos \in Slots /\ reader_pos \in Slots
  BY DEF Inv, TypeOK
<1>4. /\ written' = written /\ writer_pos' = writer_pos
      /\ reader_pos' = Advance(reader_pos)
  BY DEF ReadCopy
<1>5. Distance(writer_pos, reader_pos) > 1
  BY ClaimLeavesRoom
<1>6. Distance(writer_pos', reader_pos') = Distance(writer_pos, reader_pos) - 1
  BY <1>3, <1>4, <1>5, ReaderMoves
<1>7. OldestKept' = written' + 1 - Distance(writer_pos', reader_pos')
  BY DEF OldestKept, Ahead
<1>8. OldestKept' = OldestKept + 1 /\ OldestKept < written
  BY <1>4, <1>5, <1>6, <1>7, MappedState
<1> QED
  BY <1>2, <1>4, <1>8 DEF Stream!Take

(***************************************************************************)
(* When the kernel services do not fail, /dev/opq0 is the lossy stream of  *)
(* FrameStream with a window of N - 1 frames: the newest frame is never    *)
(* dropped, the oldest only when the window is full.                       *)
(***************************************************************************)
THEOREM ImplementsStream == ASSUME ~Faults PROVE Spec => StreamSpec
<1>1. Init => Stream!Init
  BY DEF Init, Stream!Init, OldestKept, Ahead, Distance, Nothing
<1>2. Inv /\ [Next]_vars => [Stream!Next]_(Stream!streamVars)
  <2> SUFFICES ASSUME Inv, [Next]_vars PROVE [Stream!Next]_(Stream!streamVars)
    OBVIOUS
  <2>1. ASSUME UNCHANGED <<writer_pos, reader_pos, written, returned>>
        PROVE  UNCHANGED Stream!streamVars
    BY <2>1 DEF Stream!streamVars, OldestKept, Ahead
  <2>2. CASE UNCHANGED vars
    BY <2>1, <2>2 DEF vars
  <2>3. CASE opq_circ_buffer_init
    <3>1. Stream!Restart
      BY <2>3 DEF opq_circ_buffer_init, Stream!Restart, OldestKept, Ahead, Distance, Nothing
    <3> QED
      BY <3>1 DEF Stream!Next
  <2>4. CASE ModuleNext /\ ~opq_circ_buffer_init
    BY <2>1, <2>4 DEF ModuleNext, InitStep, opq_init_chardev, opq_init_spi,
         opq_init_gpio_int, opq_release_chardev, opq_release_spi, free_irq,
         cancel_work_sync, opq_circ_buffer_remove, ringVars, history
  <2>5. CASE opq_gpio_irq_handler \/ WorkerStart \/ WorkerLock \/ WorkerSpiRead \/ WorkerUnlock
    BY <2>1, <2>5 DEF opq_gpio_irq_handler, WorkerStart, WorkerLock, WorkerSpiRead,
         WorkerUnlock, ringVars, history
  <2>6. CASE WorkerAdvance
    BY <2>6, AdvanceIsArrival DEF Stream!Next
  <2>7. ASSUME NEW r \in Readers, ReaderNext(r) PROVE [Stream!Next]_(Stream!streamVars)
    <3>1. CASE ReadCopy(r)
      BY <3>1, CopyIsTake DEF Stream!Next
    <3>2. CASE ~ReadCopy(r)
      BY <2>1, <2>7, <3>2 DEF ReaderNext, opq_chardev_read, opq_chardev_open,
           opq_chardev_release, ReadCall, ReadDown, ReadInterrupted, ReadLock, ReadUnlock,
           ringVars, history
    <3> QED
      BY <3>1, <3>2
  <2> QED
    BY <2>2, <2>3, <2>4, <2>5, <2>6, <2>7 DEF Next, opq_wq_spi_reader_handler
<1> QED
  BY <1>1, <1>2, InvHolds, PTL DEF Spec, StreamSpec, Stream!Spec

=============================================================================
