-------------------------- MODULE SyncQueueProofs --------------------------
(***************************************************************************)
(* Proofs about SyncQueue, for every finite number of threads, every set   *)
(* of items and every length of the queue.                                 *)
(***************************************************************************)
EXTENDS SyncQueue, FiniteSetTheorems, TLAPS

-----------------------------------------------------------------------------
\* The constructor of the queue and idle threads satisfy the invariant.
LEMMA InitInv == Init => Inv
<1> SUFFICES ASSUME Init PROVE Inv
  OBVIOUS
<1>1. TypeOK /\ OwnCode /\ FrontExists /\ CountInStep
  BY DEF Init, TypeOK, OwnCode, FrontExists, CountInStep, Threads
<1>2. Exclusion
  BY ThreadsAssumption DEF Init, Exclusion, Inside, Threads
<1>3. Waiting = {}
  BY DEF Init, Waiting, At, Threads
<1> QED
  BY <1>1, <1>2, <1>3 DEF Inv, WakeupPending

\* Every step keeps the types, the ownership of the mutex, each thread in its
\* own operation, and the counter in step with the queue.
LEMMA StepBasics ==
    Inv /\ [Next]_vars => TypeOK' /\ Exclusion' /\ OwnCode' /\ CountInStep' /\ FrontExists'
<1> SUFFICES ASSUME Inv, [Next]_vars
             PROVE  TypeOK' /\ Exclusion' /\ OwnCode' /\ CountInStep' /\ FrontExists'
  OBVIOUS
<1> USE ThreadsAssumption
    DEF Inv, TypeOK, Exclusion, OwnCode, CountInStep, FrontExists, Inside, Threads, At, Goto
<1>1. ASSUME NEW t \in Pushers, PushLock(t)
      PROVE  TypeOK' /\ Exclusion' /\ OwnCode' /\ CountInStep' /\ FrontExists'
  BY <1>1 DEF PushLock, Lock
<1>2. ASSUME NEW t \in Pushers, PushItem(t)
      PROVE  TypeOK' /\ Exclusion' /\ OwnCode' /\ CountInStep' /\ FrontExists'
  BY <1>2 DEF PushItem
<1>3. ASSUME NEW t \in Pushers, PushUnlock(t)
      PROVE  TypeOK' /\ Exclusion' /\ OwnCode' /\ CountInStep' /\ FrontExists'
  BY <1>3 DEF PushUnlock, Unlock
<1>4. ASSUME NEW t \in Pushers, NotifyOne(t)
      PROVE  TypeOK' /\ Exclusion' /\ OwnCode' /\ CountInStep' /\ FrontExists'
  BY <1>4 DEF NotifyOne, Waiting, At
<1>5. ASSUME NEW t \in Pushers, ClearLock(t)
      PROVE  TypeOK' /\ Exclusion' /\ OwnCode' /\ CountInStep' /\ FrontExists'
  BY <1>5 DEF ClearLock, Lock
<1>6. ASSUME NEW t \in Pushers, ClearItems(t)
      PROVE  TypeOK' /\ Exclusion' /\ OwnCode' /\ CountInStep' /\ FrontExists'
  BY <1>6 DEF ClearItems
<1>7. ASSUME NEW t \in Pushers, ClearUnlock(t)
      PROVE  TypeOK' /\ Exclusion' /\ OwnCode' /\ CountInStep' /\ FrontExists'
  BY <1>7 DEF ClearUnlock, Unlock
<1>8. ASSUME NEW t \in Poppers, PopLock(t)
      PROVE  TypeOK' /\ Exclusion' /\ OwnCode' /\ CountInStep' /\ FrontExists'
  BY <1>8 DEF PopLock, Lock
<1>9. ASSUME NEW t \in Poppers, PopWait(t)
      PROVE  TypeOK' /\ Exclusion' /\ OwnCode' /\ CountInStep' /\ FrontExists'
  BY <1>9 DEF PopWait, Unlock
<1>10. ASSUME NEW t \in Poppers, SpuriousWakeup(t)
       PROVE  TypeOK' /\ Exclusion' /\ OwnCode' /\ CountInStep' /\ FrontExists'
  BY <1>10 DEF SpuriousWakeup
<1>11. ASSUME NEW t \in Poppers, PopRelock(t)
       PROVE  TypeOK' /\ Exclusion' /\ OwnCode' /\ CountInStep' /\ FrontExists'
  BY <1>11 DEF PopRelock, Lock
<1>12. ASSUME NEW t \in Poppers, PopFound(t)
       PROVE  TypeOK' /\ Exclusion' /\ OwnCode' /\ CountInStep' /\ FrontExists'
  BY <1>12 DEF PopFound
<1>13. ASSUME NEW t \in Poppers, PopItem(t)
       PROVE  TypeOK' /\ Exclusion' /\ OwnCode' /\ CountInStep' /\ FrontExists'
  BY <1>13 DEF PopItem
<1>14. ASSUME NEW t \in Poppers, PopUnlock(t)
       PROVE  TypeOK' /\ Exclusion' /\ OwnCode' /\ CountInStep' /\ FrontExists'
  BY <1>14 DEF PopUnlock, Unlock
<1>15. ASSUME NEW t \in Pushers, PushCount(t)
       PROVE  TypeOK' /\ Exclusion' /\ OwnCode' /\ CountInStep' /\ FrontExists'
  BY <1>15 DEF PushCount, Count
<1>16. ASSUME NEW t \in Pushers, ClearCount(t)
       PROVE  TypeOK' /\ Exclusion' /\ OwnCode' /\ CountInStep' /\ FrontExists'
  BY <1>16 DEF ClearCount, Count
<1>17. ASSUME NEW t \in Poppers, PopCount(t)
       PROVE  TypeOK' /\ Exclusion' /\ OwnCode' /\ CountInStep' /\ FrontExists'
  BY <1>17 DEF PopCount, Count
<1>18. CASE UNCHANGED vars
  BY <1>18 DEF vars
<1> QED
  BY <1>1, <1>2, <1>3, <1>4, <1>5, <1>6, <1>7, <1>8, <1>9, <1>10, <1>11, <1>12, <1>13,
     <1>14, <1>15, <1>16, <1>17, <1>18 DEF Next, push, pop, clear

-----------------------------------------------------------------------------
\* The two groups of threads WakeupPending counts are finite.
LEMMA Counted ==
    /\ IsFiniteSet(Notifying) /\ Cardinality(Notifying) \in Nat
    /\ IsFiniteSet(Coming) /\ Cardinality(Coming) \in Nat
<1>1. IsFiniteSet(Notifying) /\ IsFiniteSet(Coming)
  BY ThreadsAssumption, FS_Subset DEF Notifying, Coming, At
<1> QED
  BY <1>1, FS_CardinalityType

\* A step of a push or a clear keeps WakeupPending: the item that is added
\* brings its own notification, and a notification is spent on a waiter.
LEMMA WakeupPush ==
    ASSUME Inv, NEW t \in Pushers, push(t) \/ clear(t)
    PROVE  WakeupPending'
<1> USE ThreadsAssumption DEF Inv, TypeOK, OwnCode, Threads, Goto
<1>1. CASE PushLock(t)
  <2>1. Notifying' = Notifying /\ Coming' = Coming /\ Waiting' = Waiting
    BY <1>1 DEF PushLock, Lock, Notifying, Coming, Waiting, At
  <2> QED
    BY <1>1, <2>1 DEF PushLock, Lock, WakeupPending
<1>2. CASE PushItem(t)
  <2>1. Notifying' = Notifying \cup {t} /\ t \notin Notifying
    BY <1>2 DEF PushItem, Notifying, Coming, Waiting, At
  <2>2. Coming' = Coming /\ Waiting' = Waiting
    BY <1>2 DEF PushItem, Notifying, Coming, Waiting, At
  <2>3. Cardinality(Notifying') = Cardinality(Notifying) + 1
    BY <2>1, Counted, FS_AddElement
  <2>4. Len(queue') = Len(queue) + 1
    BY <1>2 DEF PushItem
  <2> QED
    BY <2>2, <2>3, <2>4, Counted DEF WakeupPending
<1>3. CASE PushUnlock(t)
  <2>1. Notifying' = Notifying /\ Coming' = Coming /\ Waiting' = Waiting
    BY <1>3 DEF PushUnlock, Unlock, Notifying, Coming, Waiting, At
  <2> QED
    BY <1>3, <2>1 DEF PushUnlock, Unlock, WakeupPending
<1>4. CASE NotifyOne(t)
  <2>1. CASE Waiting = {} /\ Goto(t, "idle")
    <3>1. Waiting' = {}
      BY <2>1 DEF Notifying, Coming, Waiting, At
    <3> QED
      BY <3>1 DEF WakeupPending
  <2>2. ASSUME NEW w \in Waiting, pc' = [pc EXCEPT ![t] = "idle", ![w] = "relock"]
        PROVE  WakeupPending'
    <3>1. t # w
      BY <1>4, <2>2 DEF NotifyOne, Waiting, At
    <3>2. Notifying' = Notifying \ {t} /\ t \in Notifying
      BY <1>4, <2>2, <3>1 DEF NotifyOne, Notifying, Coming, Waiting, At
    <3>3. Coming' = Coming \cup {w} /\ w \notin Coming
      BY <1>4, <2>2, <3>1 DEF NotifyOne, Notifying, Coming, Waiting, At
    <3>4. Cardinality(Notifying') = Cardinality(Notifying) - 1
      BY <3>2, Counted, FS_RemoveElement
    <3>5. Cardinality(Coming') = Cardinality(Coming) + 1
      BY <3>3, Counted, FS_AddElement
    <3>6. Len(queue) <= Cardinality(Notifying) + Cardinality(Coming)
      BY <2>2 DEF WakeupPending
    <3>7. queue' = queue
      BY <1>4 DEF NotifyOne
    <3> QED
      BY <3>4, <3>5, <3>6, <3>7, Counted DEF WakeupPending
  <2> QED
    BY <1>4, <2>1, <2>2 DEF NotifyOne
<1>5. CASE ClearLock(t)
  <2>1. Notifying' = Notifying /\ Coming' = Coming /\ Waiting' = Waiting
    BY <1>5 DEF ClearLock, Lock, Notifying, Coming, Waiting, At
  <2> QED
    BY <1>5, <2>1 DEF ClearLock, Lock, WakeupPending
<1>6. CASE ClearItems(t)
  <2>1. Notifying' = Notifying /\ Coming' = Coming
    BY <1>6 DEF ClearItems, Notifying, Coming, Waiting, At
  <2>2. Len(queue') = 0
    BY <1>6 DEF ClearItems
  <2> QED
    BY <2>1, <2>2, Counted DEF WakeupPending
<1>7. CASE ClearUnlock(t)
  <2>1. Notifying' = Notifying /\ Coming' = Coming /\ Waiting' = Waiting
    BY <1>7 DEF ClearUnlock, Unlock, Notifying, Coming, Waiting, At
  <2> QED
    BY <1>7, <2>1 DEF ClearUnlock, Unlock, WakeupPending
<1>8. CASE PushCount(t) \/ ClearCount(t)
  <2>1. Notifying' = Notifying /\ Coming' = Coming /\ Waiting' = Waiting
    BY <1>8 DEF PushCount, ClearCount, Count, Notifying, Coming, Waiting, At
  <2> QED
    BY <1>8, <2>1 DEF PushCount, ClearCount, Count, WakeupPending
<1> QED
  BY <1>1, <1>2, <1>3, <1>4, <1>5, <1>6, <1>7, <1>8 DEF push, clear

\* A step of a pop keeps WakeupPending: a thread goes to sleep only on an
\* empty queue, and one that leaves takes an item with it.
LEMMA WakeupPop ==
    ASSUME Inv, NEW t \in Poppers, pop(t) \/ SpuriousWakeup(t)
    PROVE  WakeupPending'
<1> USE ThreadsAssumption DEF Inv, TypeOK, OwnCode, Threads, Goto
<1>1. CASE PopLock(t)
  <2>1. Notifying' = Notifying /\ Waiting' = Waiting
    BY <1>1 DEF PopLock, Lock, Notifying, Coming, Waiting, At
  <2>2. Coming' = Coming \cup {t} /\ t \notin Coming
    BY <1>1 DEF PopLock, Lock, Notifying, Coming, Waiting, At
  <2>3. Cardinality(Coming') = Cardinality(Coming) + 1
    BY <2>2, Counted, FS_AddElement
  <2>4. queue' = queue
    BY <1>1 DEF PopLock, Lock
  <2> QED
    BY <2>1, <2>3, <2>4, Counted DEF WakeupPending
<1>2. CASE PopWait(t)
  <2>1. Len(queue') = 0
    BY <1>2 DEF PopWait, Unlock
  <2>2. IsFiniteSet(Notifying') /\ IsFiniteSet(Coming')
    BY FS_Subset DEF Notifying, Coming, At
  <2>3. Cardinality(Notifying') \in Nat /\ Cardinality(Coming') \in Nat
    BY <2>2, FS_CardinalityType
  <2> QED
    BY <2>1, <2>3 DEF WakeupPending
<1>3. CASE SpuriousWakeup(t)
  <2>1. Notifying' = Notifying /\ t \in Waiting
    BY <1>3 DEF SpuriousWakeup, Notifying, Coming, Waiting, At
  <2>2. Coming' = Coming \cup {t} /\ t \notin Coming
    BY <1>3 DEF SpuriousWakeup, Notifying, Coming, Waiting, At
  <2>3. Cardinality(Coming') = Cardinality(Coming) + 1
    BY <2>2, Counted, FS_AddElement
  <2>4. queue' = queue
    BY <1>3 DEF SpuriousWakeup
  <2> QED
    BY <2>1, <2>3, <2>4, Counted DEF WakeupPending
<1>4. CASE PopRelock(t)
  <2>1. Notifying' = Notifying /\ Coming' = Coming /\ Waiting' = Waiting
    BY <1>4 DEF PopRelock, Lock, Notifying, Coming, Waiting, At
  <2> QED
    BY <1>4, <2>1 DEF PopRelock, Lock, WakeupPending
<1>5. CASE PopFound(t)
  <2>1. Notifying' = Notifying /\ Coming' = Coming /\ Waiting' = Waiting
    BY <1>5 DEF PopFound, Notifying, Coming, Waiting, At
  <2> QED
    BY <1>5, <2>1 DEF PopFound, WakeupPending
<1>6. CASE PopItem(t)
  <2>1. Notifying' = Notifying /\ Waiting' = Waiting
    BY <1>6 DEF PopItem, Notifying, Coming, Waiting, At
  <2>2. Coming' = Coming \ {t} /\ t \in Coming
    BY <1>6 DEF PopItem, Notifying, Coming, Waiting, At
  <2>3. Cardinality(Coming') = Cardinality(Coming) - 1
    BY <2>2, Counted, FS_RemoveElement
  <2>4. Len(queue') = Len(queue) - 1
    BY <1>6 DEF PopItem
  <2> QED
    BY <2>1, <2>3, <2>4, Counted DEF WakeupPending
<1>7. CASE PopUnlock(t)
  <2>1. Notifying' = Notifying /\ Coming' = Coming /\ Waiting' = Waiting
    BY <1>7 DEF PopUnlock, Unlock, Notifying, Coming, Waiting, At
  <2> QED
    BY <1>7, <2>1 DEF PopUnlock, Unlock, WakeupPending
<1>8. CASE PopCount(t)
  <2>1. Notifying' = Notifying /\ Coming' = Coming /\ Waiting' = Waiting
    BY <1>8 DEF PopCount, Count, Notifying, Coming, Waiting, At
  <2> QED
    BY <1>8, <2>1 DEF PopCount, Count, WakeupPending
<1> QED
  BY <1>1, <1>2, <1>3, <1>4, <1>5, <1>6, <1>7, <1>8 DEF pop

\* Every step of the queue keeps the invariant.
LEMMA StepInv == Inv /\ [Next]_vars => Inv'
<1> SUFFICES ASSUME Inv, [Next]_vars PROVE Inv'
  OBVIOUS
<1>1. CASE UNCHANGED vars
  BY <1>1 DEF vars, Inv, TypeOK, Exclusion, OwnCode, FrontExists, CountInStep,
     WakeupPending, Notifying, Coming, Waiting, At
<1>2. CASE Next
  <2>1. WakeupPending'
    BY <1>2, WakeupPush, WakeupPop DEF Next
  <2> QED
    BY <2>1, StepBasics DEF Inv
<1> QED
  BY <1>1, <1>2

-----------------------------------------------------------------------------
(***************************************************************************)
(* The invariant holds throughout: types, mutual exclusion, front() never  *)
(* called on an empty queue, the counter in step with the queue.           *)
(***************************************************************************)
THEOREM QueueInvariant == Spec => []Inv
<1> QED
  BY InitInv, StepInv, PTL DEF Spec

(***************************************************************************)
(* pop never calls front() on an empty queue.                              *)
(***************************************************************************)
THEOREM FrontAlwaysExists == Spec => []FrontExists
<1>1. Inv => FrontExists
  BY DEF Inv
<1> QED
  BY <1>1, QueueInvariant, PTL

(***************************************************************************)
(* The queue stays well typed, for any number of threads.                  *)
(***************************************************************************)
THEOREM QueueTyped == Spec => []TypeOK
<1>1. Inv => TypeOK
  BY DEF Inv
<1> QED
  BY <1>1, QueueInvariant, PTL

(***************************************************************************)
(* Whenever the mutex is free the counter that push, pop and clear keep by *)
(* hand is the length; an unlocked size() is at most one off, unless it    *)
(* falls into a clear.                                                     *)
(***************************************************************************)
THEOREM SizeCorrect == Spec => []CountIsLength
<1>1. Inv => CountIsLength
  <2> SUFFICES ASSUME Inv PROVE CountIsLength
    OBVIOUS
  <2>1. Len(queue) \in Nat
    BY DEF Inv, TypeOK
  <2>2. mutex = "none" => count = Len(queue)
    <3> SUFFICES ASSUME mutex = "none" PROVE count = Len(queue)
      OBVIOUS
    <3>1. At(Threads, {"pushed", "taken", "swapped"}) = {}
      BY ThreadsAssumption DEF Inv, Exclusion, Inside, Threads, At
    <3> QED
      BY <3>1 DEF Inv, CountInStep
  <2>3. At(Pushers, {"swapped"}) = {} => count \in Len(queue) - 1 .. Len(queue) + 1
    BY <2>1 DEF Inv, CountInStep, OwnCode, Threads, At
  <2> QED
    BY <2>2, <2>3 DEF CountIsLength
<1> QED
  BY <1>1, QueueInvariant, PTL

(***************************************************************************)
(* No wakeup is lost, for any number of pushing and popping threads.       *)
(***************************************************************************)
THEOREM NoWakeupLost == Spec => []WakeupPending
<1>1. Inv => WakeupPending
  BY DEF Inv
<1> QED
  BY <1>1, QueueInvariant, PTL

\* Every step of the queue is a step of the abstract one, or invisible to it.
LEMMA StepFifo == Inv /\ [Next]_vars => [Abstract!Next]_<<queue, popped>>
<1> SUFFICES ASSUME Inv, [Next]_vars PROVE [Abstract!Next]_<<queue, popped>>
  OBVIOUS
<1>1. ASSUME NEW t \in Pushers, PushItem(t) PROVE Abstract!Next
  BY <1>1 DEF Inv, TypeOK, PushItem, Abstract!Next, Abstract!Push
<1>2. ASSUME NEW t \in Pushers, ClearItems(t) PROVE Abstract!Next
  BY <1>2 DEF ClearItems, Abstract!Next, Abstract!Clear
<1>3. ASSUME NEW t \in Poppers, PopItem(t) PROVE Abstract!Next
  BY <1>3 DEF PopItem, Abstract!Next, Abstract!Pop
<1>4. ASSUME NEW t \in Pushers, PushLock(t) \/ PushUnlock(t) \/ NotifyOne(t) \/ ClearLock(t)
                                \/ ClearUnlock(t) \/ PushCount(t) \/ ClearCount(t)
      PROVE  UNCHANGED <<queue, popped>>
  BY <1>4 DEF PushLock, PushUnlock, NotifyOne, ClearLock, ClearUnlock, PushCount, ClearCount,
              Lock, Unlock, Count
<1>5. ASSUME NEW t \in Poppers, PopLock(t) \/ PopWait(t) \/ SpuriousWakeup(t) \/ PopRelock(t)
                                \/ PopFound(t) \/ PopCount(t) \/ PopUnlock(t)
      PROVE  UNCHANGED <<queue, popped>>
  BY <1>5 DEF PopLock, PopWait, SpuriousWakeup, PopRelock, PopFound, PopCount, PopUnlock,
              Lock, Unlock, Count
<1>6. CASE UNCHANGED vars
  BY <1>6 DEF vars
<1> QED
  BY <1>1, <1>2, <1>3, <1>4, <1>5, <1>6 DEF Next, push, pop, clear

(***************************************************************************)
(* The locked queue with its condition variable implements the Fifo.       *)
(***************************************************************************)
THEOREM ImplementsFifo == Spec => FifoSpec
<1>1. Init => Abstract!Init
  BY DEF Init, Abstract!Init
<1> QED
  BY <1>1, StepFifo, QueueInvariant, PTL DEF Spec, FifoSpec, Abstract!Spec

=============================================================================
