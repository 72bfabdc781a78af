----------------------------- MODULE SyncQueue -----------------------------
(***************************************************************************)
(* The queue between two threads of the triggering daemon                  *)
(* (Software/Triggering/lib/SyncQueue.hpp): a std::queue, a mutex and a    *)
(* condition variable that pop waits on and push notifies after it has     *)
(* unlocked.  Each operation changes the std::queue and its counter in two *)
(* steps, because size() reads the counter without the lock; size() itself *)
(* changes nothing, is called by nobody and is no action.                  *)
(***************************************************************************)
EXTENDS Integers, Sequences, FiniteSets

CONSTANTS
    Pushers,    \* threads that call push and clear
    Poppers,    \* threads that call pop
    Items,
    MaxQueue    \* bound: no push is begun at this length

ASSUME ThreadsAssumption ==
    /\ IsFiniteSet(Pushers) /\ IsFiniteSet(Poppers)
    /\ Pushers \cap Poppers = {}
    /\ "none" \notin Pushers \cup Poppers
ASSUME MaxQueueAssumption == MaxQueue \in Nat

VARIABLES
    queue, count,   \* _queue and _count
    mutex,          \* the thread that holds _mutex, or "none"
    pc,             \* where each thread is
    item,           \* what each pusher is pushing
    popped          \* what the last pop returned

vars == <<queue, count, mutex, pc, item, popped>>

Threads == Pushers \cup Poppers

At(S, where) == {t \in S : pc[t] \in where}

\* Threads blocked on the condition variable cond_.
Waiting == At(Poppers, {"waiting"})

Init ==
    /\ queue = <<>>
    /\ count = 0
    /\ mutex = "none"
    /\ pc = [t \in Threads |-> "idle"]
    /\ item \in [Pushers -> Items]
    /\ popped \in Items

Goto(t, where) == pc' = [pc EXCEPT ![t] = where]

\* Construct the unique_lock: block until the mutex is free.
Lock(t, from, to) ==
    /\ pc[t] = from
    /\ mutex = "none"
    /\ mutex' = t
    /\ Goto(t, to)
    /\ UNCHANGED <<queue, count, popped>>

Unlock(t, from, to) ==
    /\ pc[t] = from
    /\ mutex' = "none"
    /\ Goto(t, to)
    /\ UNCHANGED <<queue, count, item, popped>>

-----------------------------------------------------------------------------
PushLock(t) ==
    /\ Len(queue) < MaxQueue
    /\ Lock(t, "idle", "push")
    /\ \E i \in Items : item' = [item EXCEPT ![t] = i]

\* Mutant: the new item jumps the queue.
MPushFront(t) ==
    /\ pc[t] = "push"
    /\ queue' = <<item[t]>> \o queue
    /\ Goto(t, "pushed")
    /\ UNCHANGED <<count, mutex, item, popped>>

PushItem(t) ==
    /\ pc[t] = "push"
    /\ queue' = Append(queue, item[t])
    /\ Goto(t, "pushed")
    /\ UNCHANGED <<count, mutex, item, popped>>

\* The counter changes while its thread holds the mutex.
Count(t, from, to, value) ==
    /\ pc[t] = from
    /\ count' = value
    /\ Goto(t, to)
    /\ UNCHANGED <<queue, mutex, item, popped>>

PushCount(t) == Count(t, "pushed", "unlock", count + 1)

PushUnlock(t) == Unlock(t, "unlock", "notify")

\* Mutant: notifies only when the queue was empty before the push.
MNotifyFirst(t) ==
    /\ pc[t] = "notify"
    /\ \/ /\ Waiting # {} /\ Len(queue) <= 1
          /\ \E w \in Waiting : pc' = [pc EXCEPT ![t] = "idle", ![w] = "relock"]
       \/ /\ Waiting = {} \/ Len(queue) > 1
          /\ Goto(t, "idle")
    /\ UNCHANGED <<queue, count, mutex, item, popped>>

\* cond_.notify_one(), without the mutex: one waiter goes for the lock again.
NotifyOne(t) ==
    /\ pc[t] = "notify"
    /\ \/ \E w \in Waiting : pc' = [pc EXCEPT ![t] = "idle", ![w] = "relock"]
       \/ Waiting = {} /\ Goto(t, "idle")
    /\ UNCHANGED <<queue, count, mutex, item, popped>>

ClearLock(t) == Lock(t, "idle", "clear") /\ UNCHANGED item

\* Mutant: the items stay.
MClearItems(t) ==
    /\ pc[t] = "clear"
    /\ Goto(t, "swapped")
    /\ UNCHANGED <<queue, count, mutex, item, popped>>

\* std::queue<T>().swap(_queue)
ClearItems(t) ==
    /\ pc[t] = "clear"
    /\ queue' = <<>>
    /\ Goto(t, "swapped")
    /\ UNCHANGED <<count, mutex, item, popped>>

\* Mutant: the counter survives the swap.
MClearCount(t) == Count(t, "swapped", "cleared", count)

ClearCount(t) == Count(t, "swapped", "cleared", 0)

ClearUnlock(t) == Unlock(t, "cleared", "idle")

-----------------------------------------------------------------------------
PopLock(t) == Lock(t, "idle", "test") /\ UNCHANGED item

\* cond_.wait(mlock) blocks and unlocks in one step.
PopWait(t) == queue = <<>> /\ Unlock(t, "test", "waiting")

\* The condition variable may wake a thread nobody notified.
SpuriousWakeup(t) ==
    /\ pc[t] = "waiting"
    /\ Goto(t, "relock")
    /\ UNCHANGED <<queue, count, mutex, item, popped>>

\* Mutant: if instead of while, a woken thread does not test again.
MPopRelock(t) == Lock(t, "relock", "take") /\ UNCHANGED item

\* wait() returns with the mutex; the loop tests the queue again.
PopRelock(t) == Lock(t, "relock", "test") /\ UNCHANGED item

PopFound(t) ==
    /\ pc[t] = "test"
    /\ queue # <<>>
    /\ Goto(t, "take")
    /\ UNCHANGED <<queue, count, mutex, item, popped>>

\* front() and pop(); front() of an empty queue is undefined.
PopItem(t) ==
    /\ pc[t] = "take"
    /\ queue # <<>>
    /\ popped' = Head(queue)
    /\ queue' = Tail(queue)
    /\ Goto(t, "taken")
    /\ UNCHANGED <<count, mutex, item>>

PopCount(t) == Count(t, "taken", "return", count - 1)

PopUnlock(t) == Unlock(t, "return", "idle")

-----------------------------------------------------------------------------
push(t)  == PushLock(t) \/ PushItem(t) \/ PushCount(t) \/ PushUnlock(t) \/ NotifyOne(t)
clear(t) == ClearLock(t) \/ ClearItems(t) \/ ClearCount(t) \/ ClearUnlock(t)
pop(t)   ==
    \/ PopLock(t) \/ PopWait(t) \/ PopRelock(t) \/ PopFound(t)
    \/ PopItem(t) \/ PopCount(t) \/ PopUnlock(t)

Next ==
    \/ \E t \in Pushers : push(t) \/ clear(t)
    \/ \E t \in Poppers : pop(t) \/ SpuriousWakeup(t)

Spec == Init /\ [][Next]_vars

(***************************************************************************)
(* A thread that called push, clear or pop runs on, and a thread waiting   *)
(* for the mutex is not passed over for ever.  No thread has to make a     *)
(* call, and no wakeup comes without a notification.                       *)
(***************************************************************************)
Fairness ==
    /\ \A t \in Pushers :
          /\ WF_vars(PushItem(t) \/ PushCount(t) \/ PushUnlock(t) \/ NotifyOne(t))
          /\ WF_vars(ClearItems(t) \/ ClearCount(t) \/ ClearUnlock(t))
    /\ \A t \in Poppers :
          /\ SF_vars(PopRelock(t))
          /\ WF_vars(PopWait(t) \/ PopFound(t) \/ PopItem(t) \/ PopCount(t) \/ PopUnlock(t))

FairSpec == Spec /\ Fairness

-----------------------------------------------------------------------------
(***************************************************************************)
(* Correctness.                                                            *)
(***************************************************************************)
TypeOK ==
    /\ queue \in Seq(Items)
    /\ count \in Nat
    /\ mutex \in Threads \cup {"none"}
    /\ pc \in [Threads -> {"idle", "push", "pushed", "unlock", "notify",
                           "clear", "swapped", "cleared",
                           "test", "waiting", "relock", "take", "taken", "return"}]
    /\ item \in [Pushers -> Items]
    /\ popped \in Items

\* Where a thread holds the mutex.
Inside == {"push", "pushed", "unlock", "clear", "swapped", "cleared",
           "test", "take", "taken", "return"}

(***************************************************************************)
(* pop never calls front() on an empty queue, whatever other threads       *)
(* popped or cleared between the notification and the lock.                *)
(***************************************************************************)
FrontExists == \A t \in Poppers : pc[t] = "take" => queue # <<>>

(***************************************************************************)
(* Nobody who takes the lock finds a counter other than the length.  size()*)
(* does not take it ("Not thread safe, so it's more of a suggestion"): in  *)
(* the middle of a push or a pop it is off by one, in the middle of a      *)
(* clear it is the length before.                                          *)
(***************************************************************************)
CountIsLength ==
    /\ mutex = "none" => count = Len(queue)
    /\ At(Pushers, {"swapped"}) = {} => count \in Len(queue) - 1 .. Len(queue) + 1

\* The pushes that still have to notify, and the pops that are awake.
Notifying == At(Pushers, {"pushed", "unlock", "notify"})
Coming    == At(Poppers, {"relock", "test", "take"})

(***************************************************************************)
(* No wakeup is lost although push notifies after it unlocked: while a     *)
(* thread waits, every queued item has a push that still has to notify or  *)
(* a pop that is awake and on its way to the queue.                        *)
(***************************************************************************)
WakeupPending ==
    Waiting # {} => Len(queue) <= Cardinality(Notifying) + Cardinality(Coming)

(***************************************************************************)
(* Seen through its lock the queue is a Fifo.                              *)
(***************************************************************************)
Abstract == INSTANCE Fifo WITH contents <- queue

FifoSpec == Abstract!Spec

(***************************************************************************)
(* An item that waits while a pop sleeps is popped, or the queue cleared.  *)
(***************************************************************************)
SleeperGetsItem ==
    (queue # <<>> /\ Waiting # {}) ~> (queue = <<>> \/ At(Poppers, {"taken"}) # {})

-----------------------------------------------------------------------------
(***************************************************************************)
(* What the properties above need to be inductive.                         *)
(***************************************************************************)
\* The mutex belongs to the thread that is inside.
Exclusion == \A t \in Threads : pc[t] \in Inside <=> mutex = t

\* Each kind of thread is inside its own operations.
OwnCode ==
    /\ \A t \in Pushers : pc[t] \in {"idle", "push", "pushed", "unlock", "notify",
                                     "clear", "swapped", "cleared"}
    /\ \A t \in Poppers : pc[t] \in {"idle", "test", "waiting", "relock",
                                     "take", "taken", "return"}

\* How far the counter is behind the queue while a thread has it in its hands.
CountInStep ==
    /\ \A t \in Threads : /\ pc[t] = "pushed" => count = Len(queue) - 1
                          /\ pc[t] = "taken" => count = Len(queue) + 1
                          /\ pc[t] = "swapped" => queue = <<>>
    /\ At(Threads, {"pushed", "taken", "swapped"}) = {} => count = Len(queue)

Inv == TypeOK /\ Exclusion /\ OwnCode /\ FrontExists /\ CountInStep /\ WakeupPending

=============================================================================
