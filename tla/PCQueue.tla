------------------------------ MODULE PCQueue ------------------------------
(***************************************************************************)
(* The bounded producer-consumer queue of producer-consumer.c, one action  *)
(* per step that other threads can observe.  A thread takes a lock in the  *)
(* same action as its next access and gives it back in the same action as  *)
(* its last one; every read and every write of pcq_current_size that is    *)
(* not under a common lock is a step of its own.                           *)
(*                                                                         *)
(* pthread_mutex_lock and friends are assumed to succeed, so the "return   *)
(* -1" branches that follow a failed call are not modelled.                *)
(***************************************************************************)
EXTENDS Naturals, Sequences, FiniteSets

CONSTANTS Producers,    \* threads that call pcq_enqueue
          Consumers,    \* threads that call pcq_dequeue
          Elems,        \* the pointers handed to pcq_enqueue
          Garbage,      \* the contents of memory nobody has written
          NoThread,     \* the holder of a free lock
          Capacity,     \* the capacity given to pcq_create
          SizeModulus   \* size_t counts modulo this (2^64 in the program)

Threads == Producers \cup Consumers

ASSUME PCQAssumption ==
  /\ Producers \cap Consumers = {}
  /\ NoThread \notin Threads
  /\ Garbage \notin Elems
  /\ Capacity \in Nat \ {0}
  /\ SizeModulus \in Nat
  /\ Capacity < SizeModulus

VARIABLES pcq_capacity,      \* 0 while the queue is not created
          pcq_buffer,        \* the ring of slots
          pcq_head,          \* slot of the next element to load
          pcq_tail,          \* slot of the next element to store
          pcq_current_size,  \* the shared counter
          lock,              \* each of the five mutexes, mapped to its holder
          pc,                \* where each thread is
          elem,              \* the element a thread is inserting, or last loaded
          seen               \* the count a thread read in its ++ or --

ring == <<pcq_capacity, pcq_buffer, pcq_head, pcq_tail>>
vars == <<ring, pcq_current_size, lock, pc, elem, seen>>

Slots == 0 .. Capacity - 1

\* The mutexes pcq_pusher_condvar_lock, pcq_popper_condvar_lock,
\* pcq_tail_lock, pcq_head_lock and pcq_current_size_lock.
Locks == {"pusher", "popper", "tail", "head", "size"}

ProducerPC == {"idle", "e_gate", "e_full", "e_asleep", "e_store", "e_size",
               "e_inc", "e_signal"}
ConsumerPC == {"idle", "d_gate", "d_empty", "d_asleep", "d_load", "d_size",
               "d_dec", "d_signal"}

Free(l) == lock[l] = NoThread
Acquire(l, t) == Free(l) /\ lock' = [lock EXCEPT ![l] = t]
Release(ls) == lock' = [l \in Locks |-> IF l \in ls THEN NoThread ELSE lock[l]]

At(t, here) == pc[t] = here
Move(t, here, there) == At(t, here) /\ pc' = [pc EXCEPT ![t] = there]

\* pthread_cond_signal wakes one of the threads asleep on the condition, if
\* there is one; the woken thread goes back to the test of its while loop.
Sleepers(asleep) == {u \in Threads : At(u, asleep)}

Signal(t, here, asleep, retest) ==
  \/ Sleepers(asleep) = {} /\ Move(t, here, "idle")
  \/ \E u \in Sleepers(asleep) :
        At(t, here) /\ pc' = [pc EXCEPT ![t] = "idle", ![u] = retest]

-----------------------------------------------------------------------------
(* Faulty variants of the actions below: what the properties must refuse. *)

\* The tail is not wrapped at the end of the buffer.
EnqStoreNoWrap(p) == /\ Move(p, "e_store", "e_size")
                     /\ Acquire("tail", p)
                     /\ pcq_buffer' = [pcq_buffer EXCEPT ![pcq_tail] = elem[p]]
                     /\ pcq_tail' = pcq_tail + 1
                     /\ UNCHANGED <<pcq_capacity, pcq_head, pcq_current_size, elem, seen>>

\* tail_lock is not given back.
EnqWriteSizeLeak(p) == /\ Move(p, "e_inc", "e_signal")
                       /\ pcq_current_size' = (seen[p] + 1) % SizeModulus
                       /\ Release({"size"})
                       /\ UNCHANGED <<ring, elem, seen>>

\* The count is decremented outside current_size_lock.
DeqReadSizeUnlocked(c) == /\ Move(c, "d_size", "d_dec")
                          /\ seen' = [seen EXCEPT ![c] = pcq_current_size]
                          /\ UNCHANGED <<ring, pcq_current_size, lock, elem>>

\* "if" for "while" around pthread_cond_wait: a woken thread tests nothing.
EnqSpuriousNoRetest(p) == /\ Move(p, "e_asleep", "e_store")
                          /\ UNCHANGED <<ring, pcq_current_size, lock, elem, seen>>

DeqSpuriousNoRetest(c) == /\ Move(c, "d_asleep", "d_load")
                          /\ UNCHANGED <<ring, pcq_current_size, lock, elem, seen>>

\* The signal is sent without popper_condvar_lock.
EnqSignalUnlocked(p) == /\ Signal(p, "e_signal", "d_asleep", "d_gate")
                        /\ UNCHANGED <<ring, pcq_current_size, lock, elem, seen>>

\* pcq_dequeue returns without a signal.
DeqSignalForgotten(c) == /\ Free("pusher")
                         /\ Move(c, "d_signal", "idle")
                         /\ UNCHANGED <<ring, pcq_current_size, lock, elem, seen>>

\* The head is advanced before the slot is read.
DeqLoadAfterAdvance(c) ==
  /\ Move(c, "d_load", "d_size")
  /\ Acquire("head", c)
  /\ pcq_head' = (pcq_head + 1) % pcq_capacity
  /\ elem' = [elem EXCEPT ![c] = pcq_buffer[pcq_head']]
  /\ UNCHANGED <<pcq_capacity, pcq_buffer, pcq_tail, pcq_current_size, seen>>

-----------------------------------------------------------------------------
(* Life cycle *)

\* malloc gives pcq_create whatever was in memory; pcq_destroy frees the slots.
Emptied == /\ pcq_buffer' = [s \in Slots |-> Garbage]
           /\ pcq_current_size' = 0
           /\ pcq_head' = 0
           /\ pcq_tail' = 0
           /\ UNCHANGED <<lock, pc, elem, seen>>

Init == /\ pcq_capacity = 0
        /\ pcq_buffer = [s \in Slots |-> Garbage]
        /\ pcq_head = 0
        /\ pcq_tail = 0
        /\ pcq_current_size = 0
        /\ lock = [l \in Locks |-> NoThread]
        /\ pc = [t \in Threads |-> "idle"]
        /\ elem = [t \in Threads |-> Garbage]
        /\ seen = [t \in Threads |-> 0]

PcqCreate == pcq_capacity = 0 /\ pcq_capacity' = Capacity /\ Emptied

\* Legal when no thread is inside: it destroys the mutexes and conditions.
PcqDestroy == /\ pcq_capacity # 0
              /\ \A t \in Threads : At(t, "idle")
              /\ pcq_capacity' = 0
              /\ Emptied

-----------------------------------------------------------------------------
(* pcq_enqueue *)

EnqCall(p, e) == /\ pcq_capacity # 0
                 /\ Move(p, "idle", "e_gate")
                 /\ elem' = [elem EXCEPT ![p] = e]
                 /\ UNCHANGED <<ring, pcq_current_size, lock, seen>>

\* Lock pusher_condvar_lock and find the queue full: keep the lock ...
EnqFull(p) == /\ Move(p, "e_gate", "e_full")
              /\ Acquire("pusher", p)
              /\ pcq_current_size = pcq_capacity
              /\ UNCHANGED <<ring, pcq_current_size, elem, seen>>

\* ... until pthread_cond_wait releases it and puts the thread to sleep.
EnqWait(p) == /\ Move(p, "e_full", "e_asleep")
              /\ Release({"pusher"})
              /\ UNCHANGED <<ring, pcq_current_size, elem, seen>>

\* pthread_cond_wait may return with no signal.
EnqSpurious(p) == /\ Move(p, "e_asleep", "e_gate")
                  /\ UNCHANGED <<ring, pcq_current_size, lock, elem, seen>>

\* Find room, and release the lock before the slot is taken.
EnqPass(p) == /\ Move(p, "e_gate", "e_store")
              /\ Free("pusher")
              /\ pcq_current_size # pcq_capacity
              /\ UNCHANGED <<ring, pcq_current_size, lock, elem, seen>>

\* Under tail_lock, store the element and advance the tail.
EnqStore(p) == /\ Move(p, "e_store", "e_size")
               /\ Acquire("tail", p)
               /\ pcq_buffer' = [pcq_buffer EXCEPT ![pcq_tail] = elem[p]]
               /\ pcq_tail' = (pcq_tail + 1) % pcq_capacity
               /\ UNCHANGED <<pcq_capacity, pcq_head, pcq_current_size, elem, seen>>

\* Under current_size_lock as well, read the count ...
EnqReadSize(p) == /\ Move(p, "e_size", "e_inc")
                  /\ Acquire("size", p)
                  /\ seen' = [seen EXCEPT ![p] = pcq_current_size]
                  /\ UNCHANGED <<ring, pcq_current_size, elem>>

\* ... write it back one higher, and release both locks.
EnqWriteSize(p) == /\ Move(p, "e_inc", "e_signal")
                   /\ pcq_current_size' = (seen[p] + 1) % SizeModulus
                   /\ Release({"size", "tail"})
                   /\ UNCHANGED <<ring, elem, seen>>

\* Under popper_condvar_lock, signal a consumer; then return.
EnqSignal(p) == /\ Free("popper")
                /\ Signal(p, "e_signal", "d_asleep", "d_gate")
                /\ UNCHANGED <<ring, pcq_current_size, lock, elem, seen>>

-----------------------------------------------------------------------------
(* pcq_dequeue *)

DeqCall(c) == /\ pcq_capacity # 0
              /\ Move(c, "idle", "d_gate")
              /\ UNCHANGED <<ring, pcq_current_size, lock, elem, seen>>

\* Lock popper_condvar_lock and find the queue empty: keep the lock ...
DeqEmpty(c) == /\ Move(c, "d_gate", "d_empty")
               /\ Acquire("popper", c)
               /\ pcq_current_size = 0
               /\ UNCHANGED <<ring, pcq_current_size, elem, seen>>

\* ... until pthread_cond_wait releases it and puts the thread to sleep.
DeqWait(c) == /\ Move(c, "d_empty", "d_asleep")
              /\ Release({"popper"})
              /\ UNCHANGED <<ring, pcq_current_size, elem, seen>>

DeqSpurious(c) == /\ Move(c, "d_asleep", "d_gate")
                  /\ UNCHANGED <<ring, pcq_current_size, lock, elem, seen>>

\* Find an element, and release the lock before the element is taken.
DeqPass(c) == /\ Move(c, "d_gate", "d_load")
              /\ Free("popper")
              /\ pcq_current_size # 0
              /\ UNCHANGED <<ring, pcq_current_size, lock, elem, seen>>

\* Under head_lock, load the element and advance the head.
DeqLoad(c) == /\ Move(c, "d_load", "d_size")
              /\ Acquire("head", c)
              /\ elem' = [elem EXCEPT ![c] = pcq_buffer[pcq_head]]
              /\ pcq_head' = (pcq_head + 1) % pcq_capacity
              /\ UNCHANGED <<pcq_capacity, pcq_buffer, pcq_tail, pcq_current_size, seen>>

DeqReadSize(c) == /\ Move(c, "d_size", "d_dec")
                  /\ Acquire("size", c)
                  /\ seen' = [seen EXCEPT ![c] = pcq_current_size]
                  /\ UNCHANGED <<ring, pcq_current_size, elem>>

\* A size_t that is 0 wraps to SizeModulus - 1.
DeqWriteSize(c) == /\ Move(c, "d_dec", "d_signal")
                   /\ pcq_current_size' = (seen[c] + SizeModulus - 1) % SizeModulus
                   /\ Release({"size", "head"})
                   /\ UNCHANGED <<ring, elem, seen>>

\* Under pusher_condvar_lock, signal a producer; then return the element.
DeqSignal(c) == /\ Free("pusher")
                /\ Signal(c, "d_signal", "e_asleep", "e_gate")
                /\ UNCHANGED <<ring, pcq_current_size, lock, elem, seen>>

-----------------------------------------------------------------------------
(* Specification *)

\* The steps of a call that has begun.  A spurious wake-up is nobody's duty.
EnqStep(p) ==
  \/ EnqFull(p) \/ EnqWait(p) \/ EnqPass(p) \/ EnqStore(p)
  \/ EnqReadSize(p) \/ EnqWriteSize(p) \/ EnqSignal(p)

DeqStep(c) ==
  \/ DeqEmpty(c) \/ DeqWait(c) \/ DeqPass(c) \/ DeqLoad(c)
  \/ DeqReadSize(c) \/ DeqWriteSize(c) \/ DeqSignal(c)

Producer(p) == (\E e \in Elems : EnqCall(p, e)) \/ EnqStep(p) \/ EnqSpurious(p)
Consumer(c) == DeqCall(c) \/ DeqStep(c) \/ DeqSpurious(c)

Next ==
  \/ PcqCreate
  \/ PcqDestroy
  \/ \E p \in Producers : Producer(p)
  \/ \E c \in Consumers : Consumer(c)

\* Every running thread is scheduled, and a thread that waits to signal gets
\* the condition's mutex if it is freed again and again (a sleeper that wakes
\* for no reason takes it each time to test the count).  A consumer is a
\* session thread, whose loop calls pcq_dequeue again; nobody has to call
\* pcq_enqueue, create or destroy.
Fairness ==
  /\ \A p \in Producers : WF_vars(EnqStep(p)) /\ SF_vars(EnqSignal(p))
  /\ \A c \in Consumers : WF_vars(DeqCall(c) \/ DeqStep(c)) /\ SF_vars(DeqSignal(c))

Spec == Init /\ [][Next]_vars /\ Fairness

-----------------------------------------------------------------------------
(* Properties *)

\* Every variable has its type: the cursors stay inside the buffer, the count
\* inside size_t, a thread inside the function it called.
TypeOK ==
  /\ pcq_capacity \in {0, Capacity}
  /\ pcq_buffer \in [Slots -> Elems \cup {Garbage}]
  /\ pcq_head \in Slots
  /\ pcq_tail \in Slots
  /\ pcq_current_size \in 0 .. SizeModulus - 1
  /\ lock \in [Locks -> Threads \cup {NoThread}]
  /\ pc \in [Threads -> ProducerPC \cup ConsumerPC]
  /\ \A p \in Producers : pc[p] \in ProducerPC
  /\ \A c \in Consumers : pc[c] \in ConsumerPC
  /\ elem \in [Threads -> Elems \cup {Garbage}]
  /\ seen \in [Threads -> 0 .. SizeModulus - 1]

\* The states in which a thread must be the holder of a lock.
Inside(l) ==
  CASE l = "pusher" -> {"e_full"}
    [] l = "popper" -> {"d_empty"}
    [] l = "tail"   -> {"e_size", "e_inc"}
    [] l = "head"   -> {"d_size", "d_dec"}
    [] l = "size"   -> {"e_inc", "d_dec"}

\* A lock is held by the one thread that is between its lock and its unlock,
\* and free when there is none: producer-consumer.c leaks no mutex on any path
\* and no two threads are ever in the same critical section.
LockOwnership ==
  \A l \in Locks, t \in Threads : (lock[l] = t) <=> (pc[t] \in Inside(l))

\* The count a thread is about to write back is one off the count that is
\* there: no ++ or -- of pcq_current_size is ever lost to another one.
NoLostUpdate ==
  \A t \in Threads : pc[t] \in {"e_inc", "d_dec"} => seen[t] = pcq_current_size

\* The counter stays between 0 and the capacity: the gates of pcq_enqueue and
\* pcq_dequeue let nobody through that would over- or underflow it, although
\* they are left before the slot is taken.
SizeWithinCapacity == pcq_current_size \in 0 .. Capacity

\* A store and a load that can happen at the same time are of different slots,
\* for tail_lock and head_lock do not exclude each other.
SlotRaceFree ==
  \A p \in Producers, c \in Consumers :
    (At(p, "e_store") /\ At(c, "d_load")) => pcq_tail # pcq_head

\* The elements in the ring: those counted, and those stored but not counted
\* yet, less those loaded but still counted.
Stored == Cardinality({p \in Producers : pc[p] \in {"e_size", "e_inc"}})
Loaded == Cardinality({c \in Consumers : pc[c] \in {"d_size", "d_dec"}})
Live == pcq_current_size + Stored - Loaded

\* Whenever a consumer is about to load a slot there is an element to load:
\* "If the queue is empty, sleep until the queue has an element".
LoadFindsElement ==
  \A c \in Consumers : (At(c, "d_load") /\ Free("head")) => Live > 0

\* A producer sleeps while there is room, or a consumer while there is an
\* element, only when the thread that will signal it is on its way: no wake-up
\* is lost between a test and the pthread_cond_wait that follows it.
NoLostWakeup ==
  /\ \A p \in Producers :
       (At(p, "e_asleep") /\ pcq_current_size # pcq_capacity)
         => \E c \in Consumers : At(c, "d_signal")
  /\ \A c \in Consumers :
       (At(c, "d_asleep") /\ pcq_current_size # 0)
         => \E p \in Producers : At(p, "e_signal")

\* A call of pcq_enqueue returns: the consumers always make room in the end.
EnqueueReturns == \A p \in Producers : ~At(p, "idle") ~> At(p, "idle")

\* The ring read as a queue, oldest element first.
RingQueue == [i \in 1 .. Live |-> pcq_buffer[(pcq_head + i - 1) % Capacity]]

\* producer-consumer.c implements BoundedFifo: an enqueue takes effect when it
\* stores its element, a dequeue when it loads one.
Fifo == INSTANCE BoundedFifo WITH
          queue <- RingQueue,
          taken <- [c \in Consumers |-> elem[c]]
FifoSpec == Fifo!Spec
=============================================================================
