--------------------------- MODULE PCQueueProofs ---------------------------
(* Theorems about PCQueue.  First for every set of threads: what the five mutexes
   guarantee however many producers and consumers share the queue.  Then for one
   producer and one consumer: the counter is exact, no slot is touched by both
   threads and no wake-up is lost. *)
EXTENDS PCQueue, FiniteSetTheorems, TLAPS

\* A thread inside a call finds the queue created.
CreatedWhileUsed ==
  \A t \in Threads : pc[t] # "idle" => pcq_capacity = Capacity

\* What makes the properties of any number of threads inductive.
LockInv == TypeOK /\ CreatedWhileUsed /\ LockOwnership /\ NoLostUpdate

\* A remainder is a slot.
LEMMA ModInRange ==
  ASSUME NEW a \in Nat, NEW m \in Nat \ {0}
  PROVE  a % m \in 0 .. m - 1
OBVIOUS

\* The invariant holds at first, before the queue is created.
LEMMA LockInvInit == Init => LockInv
<1> SUFFICES ASSUME Init PROVE LockInv
  OBVIOUS
<1> USE PCQAssumption
<1>1. TypeOK
  BY DEF Init, TypeOK, Slots, Threads, ProducerPC, ConsumerPC
<1>2. CreatedWhileUsed
  BY DEF Init, CreatedWhileUsed
<1>3. LockOwnership
  BY DEF Init, LockOwnership, Inside, Locks
<1>4. NoLostUpdate
  BY DEF Init, NoLostUpdate
<1> QED BY <1>1, <1>2, <1>3, <1>4 DEF LockInv

\* A call of pcq_enqueue preserves the invariant.
LEMMA EnqCallInv ==
  ASSUME LockInv, NEW p \in Producers, NEW e \in Elems, EnqCall(p, e)
  PROVE  LockInv'
<1> USE PCQAssumption DEF LockInv, EnqCall, Move, At, ring, TypeOK
<1>1. TypeOK'
  BY DEF Threads, ProducerPC
<1>2. CreatedWhileUsed'
  BY DEF CreatedWhileUsed, Threads
<1>3. LockOwnership'
  BY DEF LockOwnership, Inside, Locks, Threads
<1>4. NoLostUpdate'
  BY DEF NoLostUpdate, Threads
<1> QED BY <1>1, <1>2, <1>3, <1>4

\* So does every later step of an enqueue; the two that matter are the read and
\* the write of the count, both under current_size_lock.
LEMMA EnqStepInv ==
  ASSUME LockInv, NEW p \in Producers, EnqStep(p) \/ EnqSpurious(p)
  PROVE  LockInv'
<1> USE PCQAssumption DEF LockInv, Move, At, Acquire, Release, Free, ring
<1>1. CASE EnqFull(p)
  <2>1. TypeOK'
    BY <1>1, ModInRange DEF EnqFull, TypeOK, Slots, Threads, ProducerPC, ConsumerPC, Locks, Sleepers
  <2>2. CreatedWhileUsed'
    BY <1>1 DEF EnqFull, TypeOK, CreatedWhileUsed, Threads, Sleepers
  <2>3. LockOwnership'
    BY <1>1 DEF EnqFull, TypeOK, LockOwnership, Inside, Locks, Threads, Sleepers, ProducerPC, ConsumerPC
  <2>4. NoLostUpdate'
    BY <1>1 DEF EnqFull, TypeOK, LockOwnership, NoLostUpdate, Inside, Locks, Threads, Sleepers, ProducerPC, ConsumerPC
  <2> QED BY <2>1, <2>2, <2>3, <2>4
<1>2. CASE EnqWait(p)
  <2>1. TypeOK'
    BY <1>2, ModInRange DEF EnqWait, TypeOK, Slots, Threads, ProducerPC, ConsumerPC, Locks, Sleepers
  <2>2. CreatedWhileUsed'
    BY <1>2 DEF EnqWait, TypeOK, CreatedWhileUsed, Threads, Sleepers
  <2>3. LockOwnership'
    BY <1>2 DEF EnqWait, TypeOK, LockOwnership, Inside, Locks, Threads, Sleepers, ProducerPC, ConsumerPC
  <2>4. NoLostUpdate'
    BY <1>2 DEF EnqWait, TypeOK, LockOwnership, NoLostUpdate, Inside, Locks, Threads, Sleepers, ProducerPC, ConsumerPC
  <2> QED BY <2>1, <2>2, <2>3, <2>4
<1>3. CASE EnqPass(p)
  <2>1. TypeOK'
    BY <1>3, ModInRange DEF EnqPass, TypeOK, Slots, Threads, ProducerPC, ConsumerPC, Locks, Sleepers
  <2>2. CreatedWhileUsed'
    BY <1>3 DEF EnqPass, TypeOK, CreatedWhileUsed, Threads, Sleepers
  <2>3. LockOwnership'
    BY <1>3 DEF EnqPass, TypeOK, LockOwnership, Inside, Locks, Threads, Sleepers, ProducerPC, ConsumerPC
  <2>4. NoLostUpdate'
    BY <1>3 DEF EnqPass, TypeOK, LockOwnership, NoLostUpdate, Inside, Locks, Threads, Sleepers, ProducerPC, ConsumerPC
  <2> QED BY <2>1, <2>2, <2>3, <2>4
<1>4. CASE EnqStore(p)
  <2>1. TypeOK'
    <3>1. pcq_capacity = Capacity
      BY <1>4 DEF EnqStore, TypeOK, CreatedWhileUsed, Threads
    <3>2. pcq_tail' \in Slots
      BY <1>4, <3>1, ModInRange DEF EnqStore, TypeOK, Slots
    <3> QED BY <1>4, <3>2 DEF EnqStore, TypeOK, Slots, Threads, ProducerPC, ConsumerPC, Locks
  <2>2. CreatedWhileUsed'
    BY <1>4 DEF EnqStore, TypeOK, CreatedWhileUsed, Threads, Sleepers
  <2>3. LockOwnership'
    BY <1>4 DEF EnqStore, TypeOK, LockOwnership, Inside, Locks, Threads, Sleepers, ProducerPC, ConsumerPC
  <2>4. NoLostUpdate'
    BY <1>4 DEF EnqStore, TypeOK, LockOwnership, NoLostUpdate, Inside, Locks, Threads, Sleepers, ProducerPC, ConsumerPC
  <2> QED BY <2>1, <2>2, <2>3, <2>4
<1>5. CASE EnqReadSize(p)
  <2>1. TypeOK'
    BY <1>5, ModInRange DEF EnqReadSize, TypeOK, Slots, Threads, ProducerPC, ConsumerPC, Locks, Sleepers
  <2>2. CreatedWhileUsed'
    BY <1>5 DEF EnqReadSize, TypeOK, CreatedWhileUsed, Threads, Sleepers
  <2>3. LockOwnership'
    BY <1>5 DEF EnqReadSize, TypeOK, LockOwnership, Inside, Locks, Threads, Sleepers, ProducerPC, ConsumerPC
  <2>4. NoLostUpdate'
    BY <1>5 DEF EnqReadSize, TypeOK, LockOwnership, NoLostUpdate, Inside, Locks, Threads, Sleepers, ProducerPC, ConsumerPC
  <2> QED BY <2>1, <2>2, <2>3, <2>4
<1>6. CASE EnqWriteSize(p)
  <2>1. TypeOK'
    <3>1. seen[p] + 1 \in Nat /\ SizeModulus \in Nat \ {0}
      BY DEF TypeOK, Threads
    <3>2. (seen[p] + 1) % SizeModulus \in 0 .. SizeModulus - 1
      BY <3>1, ModInRange
    <3> QED BY <1>6, <3>2 DEF EnqWriteSize, TypeOK, Slots, Threads, ProducerPC, ConsumerPC, Locks
  <2>2. CreatedWhileUsed'
    BY <1>6 DEF EnqWriteSize, TypeOK, CreatedWhileUsed, Threads, Sleepers
  <2>3. LockOwnership'
    BY <1>6 DEF EnqWriteSize, TypeOK, LockOwnership, Inside, Locks, Threads, Sleepers, ProducerPC, ConsumerPC
  <2>4. NoLostUpdate'
    BY <1>6 DEF EnqWriteSize, TypeOK, LockOwnership, NoLostUpdate, Inside, Locks, Threads, Sleepers, ProducerPC, ConsumerPC
  <2> QED BY <2>1, <2>2, <2>3, <2>4
<1>7. CASE EnqSignal(p)
  <2>1. TypeOK'
    <3>1. CASE Move(p, "e_signal", "idle")
      BY <1>7, <3>1 DEF EnqSignal, TypeOK, Threads, ProducerPC
    <3>2. CASE \E u \in Sleepers("d_asleep") : pc' = [pc EXCEPT ![p] = "idle", ![u] = "d_gate"]
      <4> PICK u \in Consumers : pc' = [pc EXCEPT ![p] = "idle", ![u] = "d_gate"]
        BY <3>2 DEF Sleepers, Threads, TypeOK, ProducerPC
      <4> QED BY <1>7 DEF EnqSignal, TypeOK, Threads, ProducerPC, ConsumerPC
    <3> QED BY <1>7, <3>1, <3>2 DEF EnqSignal, Signal
  <2>2. CreatedWhileUsed'
    BY <1>7 DEF EnqSignal, Signal, TypeOK, CreatedWhileUsed, Threads, Sleepers
  <2>3. LockOwnership'
    BY <1>7 DEF EnqSignal, Signal, TypeOK, LockOwnership, Inside, Locks, Threads, Sleepers, ProducerPC, ConsumerPC
  <2>4. NoLostUpdate'
    BY <1>7 DEF EnqSignal, Signal, TypeOK, LockOwnership, NoLostUpdate, Inside, Locks, Threads, Sleepers, ProducerPC, ConsumerPC
  <2> QED BY <2>1, <2>2, <2>3, <2>4
<1>8. CASE EnqSpurious(p)
  <2>1. TypeOK'
    BY <1>8, ModInRange DEF EnqSpurious, TypeOK, Slots, Threads, ProducerPC, ConsumerPC, Locks, Sleepers
  <2>2. CreatedWhileUsed'
    BY <1>8 DEF EnqSpurious, TypeOK, CreatedWhileUsed, Threads, Sleepers
  <2>3. LockOwnership'
    BY <1>8 DEF EnqSpurious, TypeOK, LockOwnership, Inside, Locks, Threads, Sleepers, ProducerPC, ConsumerPC
  <2>4. NoLostUpdate'
    BY <1>8 DEF EnqSpurious, TypeOK, LockOwnership, NoLostUpdate, Inside, Locks, Threads, Sleepers, ProducerPC, ConsumerPC
  <2> QED BY <2>1, <2>2, <2>3, <2>4
<1> QED BY <1>1, <1>2, <1>3, <1>4, <1>5, <1>6, <1>7, <1>8 DEF EnqStep

\* And every step of a dequeue.
LEMMA DeqStepInv ==
  ASSUME LockInv, NEW c \in Consumers, Consumer(c)
  PROVE  LockInv'
<1> USE PCQAssumption DEF LockInv, Move, At, Acquire, Release, Free, ring
<1>1. CASE DeqCall(c)
  <2>1. TypeOK'
    BY <1>1, ModInRange DEF DeqCall, TypeOK, Slots, Threads, ProducerPC, ConsumerPC, Locks, Sleepers
  <2>2. CreatedWhileUsed'
    BY <1>1 DEF DeqCall, TypeOK, CreatedWhileUsed, Threads, Sleepers
  <2>3. LockOwnership'
    BY <1>1 DEF DeqCall, TypeOK, LockOwnership, Inside, Locks, Threads, Sleepers, ProducerPC, ConsumerPC
  <2>4. NoLostUpdate'
    BY <1>1 DEF DeqCall, TypeOK, LockOwnership, NoLostUpdate, Inside, Locks, Threads, Sleepers, ProducerPC, ConsumerPC
  <2> QED BY <2>1, <2>2, <2>3, <2>4
<1>2. CASE DeqEmpty(c)
  <2>1. TypeOK'
    BY <1>2, ModInRange DEF DeqEmpty, TypeOK, Slots, Threads, ProducerPC, ConsumerPC, Locks, Sleepers
  <2>2. CreatedWhileUsed'
    BY <1>2 DEF DeqEmpty, TypeOK, CreatedWhileUsed, Threads, Sleepers
  <2>3. LockOwnership'
    BY <1>2 DEF DeqEmpty, TypeOK, LockOwnership, Inside, Locks, Threads, Sleepers, ProducerPC, ConsumerPC
  <2>4. NoLostUpdate'
    BY <1>2 DEF DeqEmpty, TypeOK, LockOwnership, NoLostUpdate, Inside, Locks, Threads, Sleepers, ProducerPC, ConsumerPC
  <2> QED BY <2>1, <2>2, <2>3, <2>4
<1>3. CASE DeqWait(c)
  <2>1. TypeOK'
    BY <1>3, ModInRange DEF DeqWait, TypeOK, Slots, Threads, ProducerPC, ConsumerPC, Locks, Sleepers
  <2>2. CreatedWhileUsed'
    BY <1>3 DEF DeqWait, TypeOK, CreatedWhileUsed, Threads, Sleepers
  <2>3. LockOwnership'
    BY <1>3 DEF DeqWait, TypeOK, LockOwnership, Inside, Locks, Threads, Sleepers, ProducerPC, ConsumerPC
  <2>4. NoLostUpdate'
    BY <1>3 DEF DeqWait, TypeOK, LockOwnership, NoLostUpdate, Inside, Locks, Threads, Sleepers, ProducerPC, ConsumerPC
  <2> QED BY <2>1, <2>2, <2>3, <2>4
<1>4. CASE DeqPass(c)
  <2>1. TypeOK'
    BY <1>4, ModInRange DEF DeqPass, TypeOK, Slots, Threads, ProducerPC, ConsumerPC, Locks, Sleepers
  <2>2. CreatedWhileUsed'
    BY <1>4 DEF DeqPass, TypeOK, CreatedWhileUsed, Threads, Sleepers
  <2>3. LockOwnership'
    BY <1>4 DEF DeqPass, TypeOK, LockOwnership, Inside, Locks, Threads, Sleepers, ProducerPC, ConsumerPC
  <2>4. NoLostUpdate'
    BY <1>4 DEF DeqPass, TypeOK, LockOwnership, NoLostUpdate, Inside, Locks, Threads, Sleepers, ProducerPC, ConsumerPC
  <2> QED BY <2>1, <2>2, <2>3, <2>4
<1>5. CASE DeqLoad(c)
  <2>1. TypeOK'
    <3>1. pcq_capacity = Capacity
      BY <1>5 DEF DeqLoad, TypeOK, CreatedWhileUsed, Threads
    <3>2. pcq_head' \in Slots
      BY <1>5, <3>1, ModInRange DEF DeqLoad, TypeOK, Slots
    <3> QED BY <1>5, <3>2 DEF DeqLoad, TypeOK, Slots, Threads, ProducerPC, ConsumerPC, Locks
  <2>2. CreatedWhileUsed'
    BY <1>5 DEF DeqLoad, TypeOK, CreatedWhileUsed, Threads, Sleepers
  <2>3. LockOwnership'
    BY <1>5 DEF DeqLoad, TypeOK, LockOwnership, Inside, Locks, Threads, Sleepers, ProducerPC, ConsumerPC
  <2>4. NoLostUpdate'
    BY <1>5 DEF DeqLoad, TypeOK, LockOwnership, NoLostUpdate, Inside, Locks, Threads, Sleepers, ProducerPC, ConsumerPC
  <2> QED BY <2>1, <2>2, <2>3, <2>4
<1>6. CASE DeqReadSize(c)
  <2>1. TypeOK'
    BY <1>6, ModInRange DEF DeqReadSize, TypeOK, Slots, Threads, ProducerPC, ConsumerPC, Locks, Sleepers
  <2>2. CreatedWhileUsed'
    BY <1>6 DEF DeqReadSize, TypeOK, CreatedWhileUsed, Threads, Sleepers
  <2>3. LockOwnership'
    BY <1>6 DEF DeqReadSize, TypeOK, LockOwnership, Inside, Locks, Threads, Sleepers, ProducerPC, ConsumerPC
  <2>4. NoLostUpdate'
    BY <1>6 DEF DeqReadSize, TypeOK, LockOwnership, NoLostUpdate, Inside, Locks, Threads, Sleepers, ProducerPC, ConsumerPC
  <2> QED BY <2>1, <2>2, <2>3, <2>4
<1>7. CASE DeqWriteSize(c)
  <2>1. TypeOK'
    <3>1. seen[c] + SizeModulus - 1 \in Nat /\ SizeModulus \in Nat \ {0}
      BY DEF TypeOK, Threads
    <3>2. (seen[c] + SizeModulus - 1) % SizeModulus \in 0 .. SizeModulus - 1
      BY <3>1, ModInRange
    <3> QED BY <1>7, <3>2 DEF DeqWriteSize, TypeOK, Slots, Threads, ProducerPC, ConsumerPC, Locks
  <2>2. CreatedWhileUsed'
    BY <1>7 DEF DeqWriteSize, TypeOK, CreatedWhileUsed, Threads, Sleepers
  <2>3. LockOwnership'
    BY <1>7 DEF DeqWriteSize, TypeOK, LockOwnership, Inside, Locks, Threads, Sleepers, ProducerPC, ConsumerPC
  <2>4. NoLostUpdate'
    BY <1>7 DEF DeqWriteSize, TypeOK, LockOwnership, NoLostUpdate, Inside, Locks, Threads, Sleepers, ProducerPC, ConsumerPC
  <2> QED BY <2>1, <2>2, <2>3, <2>4
<1>8. CASE DeqSignal(c)
  <2>1. TypeOK'
    BY <1>8 DEF DeqSignal, Signal, TypeOK, Threads, ProducerPC, ConsumerPC, Locks, Sleepers
  <2>2. CreatedWhileUsed'
    BY <1>8 DEF DeqSignal, Signal, TypeOK, CreatedWhileUsed, Threads, Sleepers
  <2>3. LockOwnership'
    BY <1>8 DEF DeqSignal, Signal, TypeOK, LockOwnership, Inside, Locks, Threads, Sleepers, ProducerPC, ConsumerPC
  <2>4. NoLostUpdate'
    BY <1>8 DEF DeqSignal, Signal, TypeOK, LockOwnership, NoLostUpdate, Inside, Locks, Threads, Sleepers, ProducerPC, ConsumerPC
  <2> QED BY <2>1, <2>2, <2>3, <2>4
<1>9. CASE DeqSpurious(c)
  <2>1. TypeOK'
    BY <1>9, ModInRange DEF DeqSpurious, TypeOK, Slots, Threads, ProducerPC, ConsumerPC, Locks, Sleepers
  <2>2. CreatedWhileUsed'
    BY <1>9 DEF DeqSpurious, TypeOK, CreatedWhileUsed, Threads, Sleepers
  <2>3. LockOwnership'
    BY <1>9 DEF DeqSpurious, TypeOK, LockOwnership, Inside, Locks, Threads, Sleepers, ProducerPC, ConsumerPC
  <2>4. NoLostUpdate'
    BY <1>9 DEF DeqSpurious, TypeOK, LockOwnership, NoLostUpdate, Inside, Locks, Threads, Sleepers, ProducerPC, ConsumerPC
  <2> QED BY <2>1, <2>2, <2>3, <2>4
<1> QED BY <1>1, <1>2, <1>3, <1>4, <1>5, <1>6, <1>7, <1>8, <1>9 DEF Consumer, DeqStep

\* The invariant is inductive.
LEMMA LockInvNext == LockInv /\ [Next]_vars => LockInv'
<1> SUFFICES ASSUME LockInv, [Next]_vars PROVE LockInv'
  OBVIOUS
<1> USE PCQAssumption
<1>1. CASE PcqCreate
  <2>1. TypeOK'
    BY <1>1 DEF PcqCreate, Emptied, LockInv, TypeOK, Slots
  <2> QED
    BY <1>1, <2>1 DEF PcqCreate, Emptied, LockInv, CreatedWhileUsed, LockOwnership, NoLostUpdate, TypeOK
<1>2. CASE PcqDestroy
  <2>1. TypeOK'
    BY <1>2 DEF PcqDestroy, Emptied, LockInv, TypeOK, Slots
  <2>2. CreatedWhileUsed' /\ NoLostUpdate'
    BY <1>2 DEF PcqDestroy, Emptied, CreatedWhileUsed, NoLostUpdate, At
  <2>3. LockOwnership'
    BY <1>2 DEF PcqDestroy, Emptied, LockInv, LockOwnership
  <2> QED BY <2>1, <2>2, <2>3 DEF LockInv
<1>3. CASE \E p \in Producers : Producer(p)
  <2> PICK p \in Producers : Producer(p)
    BY <1>3
  <2>1. CASE EnqStep(p) \/ EnqSpurious(p)
    BY <2>1, EnqStepInv
  <2>2. CASE \E e \in Elems : EnqCall(p, e)
    BY <2>2, EnqCallInv
  <2> QED BY <2>1, <2>2 DEF Producer
<1>4. CASE \E c \in Consumers : Consumer(c)
  BY <1>4, DeqStepInv
<1>5. CASE UNCHANGED vars
  BY <1>5 DEF vars, ring, LockInv, TypeOK, CreatedWhileUsed, LockOwnership, NoLostUpdate
<1> QED BY <1>1, <1>2, <1>3, <1>4, <1>5 DEF Next

\* For any number of producers and consumers: types are kept, a thread is inside
\* only a queue that exists, mutexes have the owners the code gives them and no
\* update of pcq_current_size is lost.
THEOREM AlwaysLockInv == Spec => []LockInv
  BY LockInvInit, LockInvNext, PTL DEF Spec

\* Every variable keeps its type, whatever the threads that use the queue.
THEOREM TypeCorrect == Spec => []TypeOK
  BY AlwaysLockInv, PTL DEF LockInv

\* For any number of producers and consumers, a mutex is held exactly by the
\* thread between its lock and its unlock.
THEOREM LocksAreOwned == Spec => []LockOwnership
  BY AlwaysLockInv, PTL DEF LockInv

\* For any number of producers and consumers, no ++ or -- of the counter is
\* lost.
THEOREM NoUpdateIsLost == Spec => []NoLostUpdate
  BY AlwaysLockInv, PTL DEF LockInv

-----------------------------------------------------------------------------
(* One producer and one consumer *)

\* Live, for one producer p and one consumer c.
StoredBy(p) == IF pc[p] \in {"e_size", "e_inc"} THEN 1 ELSE 0
LoadedBy(c) == IF pc[c] \in {"d_size", "d_dec"} THEN 1 ELSE 0
LiveOf(p, c) == pcq_current_size + StoredBy(p) - LoadedBy(c)

\* What a gate found stays true until the thread that passed it updates the
\* count, for only the other thread can change the count meanwhile, and it
\* changes it the other way.
Bounded(p, c) ==
  /\ pcq_current_size \in 0 .. pcq_capacity
  /\ pc[p] \in {"e_store", "e_size", "e_inc"} => pcq_current_size < pcq_capacity
  /\ pc[c] \in {"d_load", "d_size", "d_dec"} => pcq_current_size > 0

\* The elements of the ring lie between the head and the tail.
RingSpan(p, c) == pcq_tail = (pcq_head + LiveOf(p, c)) % Capacity

\* A thread that found no room, or no element, sleeps or is about to sleep
\* only while that is so, or while the other one is about to signal.
WillBeWoken(p, c) ==
  /\ (pc[p] \in {"e_full", "e_asleep"} /\ pcq_current_size # pcq_capacity)
       => pc[c] = "d_signal"
  /\ (pc[c] \in {"d_empty", "d_asleep"} /\ pcq_current_size # 0)
       => pc[p] = "e_signal"

SpscInv(p, c) == LockInv /\ Bounded(p, c) /\ RingSpan(p, c) /\ WillBeWoken(p, c)

\* A remainder by cases: what the provers need to see of %.
LEMMA ModWrap ==
  ASSUME NEW m \in Nat \ {0}, NEW a \in 0 .. 2 * m - 1
  PROVE  a % m = IF a < m THEN a ELSE a - m
<1>1. CASE a < m
  BY <1>1
<1>2. CASE a >= m
  BY <1>2
<1> QED BY <1>1, <1>2

\* An empty queue satisfies the invariant.
LEMMA SpscInit ==
  ASSUME NEW p \in Producers, NEW c \in Consumers, Init
  PROVE  SpscInv(p, c)
<1> USE PCQAssumption
<1>1. LockInv
  BY LockInvInit
<1>2. pc[p] = "idle" /\ pc[c] = "idle" /\ 0 % Capacity = 0
  BY ModWrap DEF Init, Threads
<1>3. Bounded(p, c) /\ WillBeWoken(p, c)
  BY <1>2 DEF Init, Bounded, WillBeWoken
<1>4. LiveOf(p, c) = 0
  BY <1>2 DEF Init, LiveOf, StoredBy, LoadedBy
<1>5. RingSpan(p, c)
  BY <1>2, <1>4 DEF Init, RingSpan
<1> QED BY <1>1, <1>3, <1>5 DEF SpscInv

\* The gates stay right, the span stays right and nobody sleeps in vain, as one
\* formula.
SpscRest(p, c) == Bounded(p, c) /\ RingSpan(p, c) /\ WillBeWoken(p, c)

\* Moving a cursor of the ring one slot on.
LEMMA WrapSucc ==
  ASSUME NEW m \in Nat \ {0}, NEW h \in 0 .. m - 1, NEW n \in 0 .. m - 1
  PROVE  (((h + n) % m) + 1) % m = (h + (n + 1)) % m
<1>1. CASE h + n < m - 1
  BY <1>1
<1>2. CASE h + n = m - 1
  BY <1>2
<1>3. CASE h + n >= m
  BY <1>3
<1> QED BY <1>1, <1>2, <1>3

\* One slot back, as in the wrap of size_t.
LEMMA WrapPred ==
  ASSUME NEW m \in Nat \ {0}, NEW k \in Nat, k - 1 \in 0 .. m - 1
  PROVE  (k + m - 1) % m = k - 1
<1>1. k + m - 1 >= m /\ k + m - 1 < 2 * m
  OBVIOUS
<1> QED BY <1>1

\* Taking the head one on and the length one down leaves the tail.
LEMMA WrapShift ==
  ASSUME NEW m \in Nat \ {0}, NEW h \in 0 .. m - 1, NEW n \in 1 .. m
  PROVE  (((h + 1) % m) + (n - 1)) % m = (h + n) % m
<1>1. CASE h + 1 < m /\ h + n < m
  BY <1>1
<1>2. CASE h + 1 < m /\ h + n >= m
  BY <1>2
<1>3. CASE h + 1 = m
  <2>1. (h + 1) % m = 0 /\ (h + n) % m = n - 1
    BY <1>3
  <2>2. (n - 1) % m = n - 1
    OBVIOUS
  <2> QED BY <2>1, <2>2
<1> QED BY <1>1, <1>2, <1>3

\* A step of the producer preserves it: what the gate found still holds.
LEMMA SpscEnqueue ==
  ASSUME NEW p, NEW c, Producers = {p}, Consumers = {c}, SpscInv(p, c),
         EnqStep(p) \/ EnqSpurious(p)
  PROVE  SpscRest(p, c)'
<1> USE PCQAssumption DEF Move, At, Acquire, Release, Free, ring
<1>t. /\ p # c /\ Threads = {p, c}
      /\ pc \in [{p, c} -> ProducerPC \cup ConsumerPC]
      /\ pc[p] \in ProducerPC /\ pc[c] \in ConsumerPC
  BY DEF SpscInv, LockInv, TypeOK, Threads
<1>n. pcq_capacity \in Nat /\ pcq_current_size \in Nat
  BY DEF SpscInv, LockInv, TypeOK
<1>h. /\ Free("popper") => pc[c] # "d_empty"
      /\ Free("pusher") => pc[p] # "e_full"
  BY <1>t DEF SpscInv, LockInv, LockOwnership, Locks, Inside
<1>b. Bounded(p, c) /\ RingSpan(p, c) /\ WillBeWoken(p, c)
  BY DEF SpscInv
<1>1. CASE EnqFull(p)
  BY <1>1, <1>t, <1>b, <1>n DEF EnqFull, SpscRest, Bounded, WillBeWoken, RingSpan, LiveOf, StoredBy, LoadedBy, ProducerPC, ConsumerPC
<1>2. CASE EnqWait(p)
  BY <1>2, <1>t, <1>b, <1>n DEF EnqWait, SpscRest, Bounded, WillBeWoken, RingSpan, LiveOf, StoredBy, LoadedBy, ProducerPC, ConsumerPC
<1>3. CASE EnqPass(p)
  BY <1>3, <1>t, <1>b, <1>n DEF EnqPass, SpscRest, Bounded, WillBeWoken, RingSpan, LiveOf, StoredBy, LoadedBy, ProducerPC, ConsumerPC
<1>4. CASE EnqStore(p)
  <2>1. pcq_capacity = Capacity
    BY <1>4, <1>t DEF EnqStore, SpscInv, LockInv, CreatedWhileUsed
  <2> DEFINE n == LiveOf(p, c)
  <2>2. n \in 0 .. Capacity - 1 /\ LiveOf(p, c)' = n + 1
    BY <1>4, <1>t, <1>b, <2>1 DEF EnqStore, Bounded, WillBeWoken, RingSpan, LiveOf, StoredBy, LoadedBy, ProducerPC, ConsumerPC
  <2>3. pcq_head \in 0 .. Capacity - 1 /\ pcq_head' = pcq_head
    BY <1>4 DEF EnqStore, SpscInv, LockInv, TypeOK, Slots
  <2>4. (((pcq_head + n) % Capacity) + 1) % Capacity = (pcq_head + (n + 1)) % Capacity
    BY <2>2, <2>3, WrapSucc
  <2>5. RingSpan(p, c)'
    BY <1>4, <1>b, <2>1, <2>2, <2>3, <2>4 DEF EnqStore, RingSpan
  <2>6. Bounded(p, c)' /\ WillBeWoken(p, c)'
    BY <1>4, <1>t, <1>b DEF EnqStore, Bounded, WillBeWoken
  <2> QED BY <2>5, <2>6 DEF SpscRest
<1>5. CASE EnqReadSize(p)
  BY <1>5, <1>t, <1>b, <1>n DEF EnqReadSize, SpscRest, Bounded, WillBeWoken, RingSpan, LiveOf, StoredBy, LoadedBy, ProducerPC, ConsumerPC
<1>6. CASE EnqWriteSize(p)
  <2>1. seen[p] = pcq_current_size
    BY <1>6, <1>t DEF EnqWriteSize, SpscInv, LockInv, NoLostUpdate
  <2>2. pcq_capacity = Capacity
    BY <1>6, <1>t DEF EnqWriteSize, SpscInv, LockInv, CreatedWhileUsed
  <2>3. (pcq_current_size + 1) % SizeModulus = pcq_current_size + 1
    <3>1. SizeModulus \in Nat \ {0} /\ pcq_current_size + 1 \in 0 .. SizeModulus - 1
      BY <1>6, <1>t, <1>b, <1>n, <2>2 DEF EnqWriteSize, Bounded
    <3> QED BY <1>n, <3>1
  <2>4. pcq_current_size' = pcq_current_size + 1
    BY <1>6, <2>1, <2>3 DEF EnqWriteSize
  <2> QED BY <1>6, <1>t, <1>b, <2>2, <2>4 DEF EnqWriteSize, SpscRest, Bounded, WillBeWoken, RingSpan, LiveOf, StoredBy, LoadedBy, ProducerPC, ConsumerPC
<1>7. CASE EnqSignal(p)
  <2>1. CASE Sleepers("d_asleep") = {} /\ Move(p, "e_signal", "idle")
    <3>1. pc[c] # "d_asleep"
      BY <1>t, <2>1 DEF Sleepers
    <3> QED BY <1>7, <1>t, <1>b, <2>1, <3>1, <1>h DEF EnqSignal, SpscRest, Bounded, WillBeWoken, RingSpan, LiveOf, StoredBy, LoadedBy, ProducerPC, ConsumerPC
  <2>2. CASE pc[c] = "d_asleep" /\ pc' = [pc EXCEPT ![p] = "idle", ![c] = "d_gate"]
    BY <1>7, <1>t, <1>b, <2>2 DEF EnqSignal, Signal, SpscRest, Bounded, WillBeWoken, RingSpan, LiveOf, StoredBy, LoadedBy, ProducerPC, ConsumerPC
  <2>3. \A u \in Sleepers("d_asleep") : u = c /\ pc[u] = "d_asleep"
    BY <1>t DEF Sleepers, ProducerPC, ConsumerPC
  <2> QED BY <1>7, <2>1, <2>2, <2>3 DEF EnqSignal, Signal
<1>8. CASE EnqSpurious(p)
  BY <1>8, <1>t, <1>b, <1>n DEF EnqSpurious, SpscRest, Bounded, WillBeWoken, RingSpan, LiveOf, StoredBy, LoadedBy, ProducerPC, ConsumerPC
<1> QED BY <1>1, <1>2, <1>3, <1>4, <1>5, <1>6, <1>7, <1>8 DEF EnqStep

\* A step of the consumer preserves it.
LEMMA SpscDequeue ==
  ASSUME NEW p, NEW c, Producers = {p}, Consumers = {c}, SpscInv(p, c),
         Consumer(c)
  PROVE  SpscRest(p, c)'
<1> USE PCQAssumption DEF Move, At, Acquire, Release, Free, ring
<1>t. /\ p # c /\ Threads = {p, c}
      /\ pc \in [{p, c} -> ProducerPC \cup ConsumerPC]
      /\ pc[p] \in ProducerPC /\ pc[c] \in ConsumerPC
  BY DEF SpscInv, LockInv, TypeOK, Threads
<1>n. pcq_capacity \in Nat /\ pcq_current_size \in Nat
  BY DEF SpscInv, LockInv, TypeOK
<1>h. /\ Free("popper") => pc[c] # "d_empty"
      /\ Free("pusher") => pc[p] # "e_full"
  BY <1>t DEF SpscInv, LockInv, LockOwnership, Locks, Inside
<1>b. Bounded(p, c) /\ RingSpan(p, c) /\ WillBeWoken(p, c)
  BY DEF SpscInv
<1>1. CASE DeqCall(c)
  BY <1>1, <1>t, <1>b, <1>n DEF DeqCall, SpscRest, Bounded, WillBeWoken, RingSpan, LiveOf, StoredBy, LoadedBy, ProducerPC, ConsumerPC
<1>2. CASE DeqEmpty(c)
  BY <1>2, <1>t, <1>b, <1>n DEF DeqEmpty, SpscRest, Bounded, WillBeWoken, RingSpan, LiveOf, StoredBy, LoadedBy, ProducerPC, ConsumerPC
<1>3. CASE DeqWait(c)
  BY <1>3, <1>t, <1>b, <1>n DEF DeqWait, SpscRest, Bounded, WillBeWoken, RingSpan, LiveOf, StoredBy, LoadedBy, ProducerPC, ConsumerPC
<1>4. CASE DeqPass(c)
  BY <1>4, <1>t, <1>b, <1>n DEF DeqPass, SpscRest, Bounded, WillBeWoken, RingSpan, LiveOf, StoredBy, LoadedBy, ProducerPC, ConsumerPC
<1>5. CASE DeqLoad(c)
  <2>1. pcq_capacity = Capacity
    BY <1>5, <1>t DEF DeqLoad, SpscInv, LockInv, CreatedWhileUsed
  <2> DEFINE n == LiveOf(p, c)
  <2>2. n \in 1 .. Capacity /\ LiveOf(p, c)' = n - 1
    BY <1>5, <1>t, <1>b, <2>1 DEF DeqLoad, Bounded, WillBeWoken, RingSpan, LiveOf, StoredBy, LoadedBy, ProducerPC, ConsumerPC
  <2>3. pcq_head \in 0 .. Capacity - 1 /\ pcq_tail' = pcq_tail
    BY <1>5 DEF DeqLoad, SpscInv, LockInv, TypeOK, Slots
  <2>4. (((pcq_head + 1) % Capacity) + (n - 1)) % Capacity = (pcq_head + n) % Capacity
    BY <2>2, <2>3, WrapShift
  <2>5. RingSpan(p, c)'
    BY <1>5, <1>b, <2>1, <2>2, <2>3, <2>4 DEF DeqLoad, RingSpan
  <2>6. Bounded(p, c)' /\ WillBeWoken(p, c)'
    BY <1>5, <1>t, <1>b DEF DeqLoad, Bounded, WillBeWoken
  <2> QED BY <2>5, <2>6 DEF SpscRest
<1>6. CASE DeqReadSize(c)
  BY <1>6, <1>t, <1>b, <1>n DEF DeqReadSize, SpscRest, Bounded, WillBeWoken, RingSpan, LiveOf, StoredBy, LoadedBy, ProducerPC, ConsumerPC
<1>7. CASE DeqWriteSize(c)
  <2>1. seen[c] = pcq_current_size
    BY <1>7, <1>t DEF DeqWriteSize, SpscInv, LockInv, NoLostUpdate
  <2>2. pcq_capacity = Capacity
    BY <1>7, <1>t DEF DeqWriteSize, SpscInv, LockInv, CreatedWhileUsed
  <2>3. (pcq_current_size + SizeModulus - 1) % SizeModulus = pcq_current_size - 1
    <3>1. SizeModulus \in Nat \ {0} /\ pcq_current_size - 1 \in 0 .. SizeModulus - 1
      BY <1>7, <1>t, <1>b, <1>n, <2>2 DEF DeqWriteSize, Bounded
    <3> QED BY <1>n, <3>1, WrapPred
  <2>4. pcq_current_size' = pcq_current_size - 1
    BY <1>7, <2>1, <2>3 DEF DeqWriteSize
  <2> QED BY <1>7, <1>t, <1>b, <2>2, <2>4 DEF DeqWriteSize, SpscRest, Bounded, WillBeWoken, RingSpan, LiveOf, StoredBy, LoadedBy, ProducerPC, ConsumerPC
<1>8. CASE DeqSignal(c)
  <2>1. CASE Sleepers("e_asleep") = {} /\ Move(c, "d_signal", "idle")
    <3>1. pc[p] # "e_asleep"
      BY <1>t, <2>1 DEF Sleepers
    <3> QED BY <1>8, <1>t, <1>b, <2>1, <3>1, <1>h DEF DeqSignal, SpscRest, Bounded, WillBeWoken, RingSpan, LiveOf, StoredBy, LoadedBy, ProducerPC, ConsumerPC
  <2>2. CASE pc[p] = "e_asleep" /\ pc' = [pc EXCEPT ![c] = "idle", ![p] = "e_gate"]
    BY <1>8, <1>t, <1>b, <2>2 DEF DeqSignal, Signal, SpscRest, Bounded, WillBeWoken, RingSpan, LiveOf, StoredBy, LoadedBy, ProducerPC, ConsumerPC
  <2>3. \A u \in Sleepers("e_asleep") : u = p /\ pc[u] = "e_asleep"
    BY <1>t DEF Sleepers, ProducerPC, ConsumerPC
  <2> QED BY <1>8, <2>1, <2>2, <2>3 DEF DeqSignal, Signal
<1>9. CASE DeqSpurious(c)
  BY <1>9, <1>t, <1>b, <1>n DEF DeqSpurious, SpscRest, Bounded, WillBeWoken, RingSpan, LiveOf, StoredBy, LoadedBy, ProducerPC, ConsumerPC
<1> QED BY <1>1, <1>2, <1>3, <1>4, <1>5, <1>6, <1>7, <1>8, <1>9 DEF Consumer, DeqStep

\* The invariant is inductive.
LEMMA SpscNext ==
  ASSUME NEW p, NEW c, Producers = {p}, Consumers = {c}, SpscInv(p, c), [Next]_vars
  PROVE  SpscInv(p, c)'
<1> USE PCQAssumption
<1>1. LockInv'
  BY LockInvNext DEF SpscInv
<1>2. pc[p] \in ProducerPC /\ pc[c] \in ConsumerPC /\ p # c /\ Threads = {p, c}
      /\ pc \in [Threads -> ProducerPC \cup ConsumerPC]
  BY DEF SpscInv, LockInv, TypeOK, Threads
<1>3. CASE PcqCreate \/ PcqDestroy
  <2>1. pc[p] = "idle" /\ pc[c] = "idle"
    BY <1>2, <1>3 DEF PcqCreate, PcqDestroy, SpscInv, LockInv, CreatedWhileUsed, At
  <2>2. Bounded(p, c)' /\ WillBeWoken(p, c)'
    BY <1>3, <2>1 DEF PcqCreate, PcqDestroy, Emptied, Bounded, WillBeWoken
  <2>3. LiveOf(p, c)' = 0 /\ pcq_tail' = 0 /\ pcq_head' = 0
    BY <1>3, <2>1 DEF PcqCreate, PcqDestroy, Emptied, LiveOf, StoredBy, LoadedBy
  <2>4. (0 + 0) % Capacity = 0
    BY ModWrap
  <2> QED BY <1>1, <2>2, <2>3, <2>4 DEF SpscInv, RingSpan
<1>4. CASE \E e \in Elems : EnqCall(p, e)
  BY <1>1, <1>2, <1>4 DEF EnqCall, Move, At, ring, SpscInv, Bounded, WillBeWoken, RingSpan,
     LiveOf, StoredBy, LoadedBy
<1>5. CASE EnqStep(p) \/ EnqSpurious(p)
  BY <1>1, <1>5, SpscEnqueue DEF SpscInv, SpscRest
<1>6. CASE Consumer(c)
  BY <1>1, <1>6, SpscDequeue DEF SpscInv, SpscRest
<1>7. CASE UNCHANGED vars
  BY <1>1, <1>7 DEF vars, ring, SpscInv, Bounded, WillBeWoken, RingSpan, LiveOf, StoredBy, LoadedBy
<1> QED BY <1>3, <1>4, <1>5, <1>6, <1>7 DEF Next, Producer

\* With one producer and one consumer, the count is exact up to the steps that
\* are under way, head and tail are that far apart and sleepers will be woken.
THEOREM AlwaysSpscInv ==
  ASSUME NEW CONSTANT p, NEW CONSTANT c, Producers = {p}, Consumers = {c}
  PROVE  Spec => []SpscInv(p, c)
<1>1. Init => SpscInv(p, c)
  BY SpscInit
<1>2. SpscInv(p, c) /\ [Next]_vars => SpscInv(p, c)'
  BY SpscNext
<1> QED BY <1>1, <1>2, PTL DEF Spec

\* With one producer and one consumer the counter never leaves 0 .. Capacity,
\* whatever the capacity, the elements and the width of size_t.
THEOREM SizeStaysWithinCapacity ==
  ASSUME NEW CONSTANT p, NEW CONSTANT c, Producers = {p}, Consumers = {c}
  PROVE  Spec => []SizeWithinCapacity
<1>1. SpscInv(p, c) => SizeWithinCapacity
  BY PCQAssumption DEF SpscInv, LockInv, TypeOK, Bounded, SizeWithinCapacity
<1> QED BY <1>1, AlwaysSpscInv, PTL

\* With one producer and one consumer no slot is stored and loaded at once.
THEOREM NoSlotRace ==
  ASSUME NEW CONSTANT p, NEW CONSTANT c, Producers = {p}, Consumers = {c}
  PROVE  Spec => []SlotRaceFree
<1>1. SpscInv(p, c) => SlotRaceFree
  <2> SUFFICES ASSUME SpscInv(p, c), pc[p] = "e_store", pc[c] = "d_load"
               PROVE  pcq_tail # pcq_head
    BY DEF SlotRaceFree, At
  <2> USE PCQAssumption
  <2>1. pcq_capacity = Capacity
    BY DEF SpscInv, LockInv, CreatedWhileUsed, Threads
  <2>2. LiveOf(p, c) = pcq_current_size /\ pcq_current_size \in 1 .. Capacity - 1
    BY <2>1 DEF SpscInv, LockInv, TypeOK, Bounded, LiveOf, StoredBy, LoadedBy
  <2>3. pcq_head \in 0 .. Capacity - 1
    BY DEF SpscInv, LockInv, TypeOK, Slots
  <2>4. (pcq_head + pcq_current_size) % Capacity # pcq_head
    <3>1. CASE pcq_head + pcq_current_size < Capacity
      BY <2>2, <2>3, <3>1
    <3>2. CASE pcq_head + pcq_current_size >= Capacity
      BY <2>2, <2>3, <3>2
    <3> QED BY <2>2, <2>3, <3>1, <3>2
  <2> QED BY <2>2, <2>4 DEF SpscInv, RingSpan
<1> QED BY <1>1, AlwaysSpscInv, PTL

\* With one producer and one consumer no wake-up is lost.
THEOREM NoWakeupIsLost ==
  ASSUME NEW CONSTANT p, NEW CONSTANT c, Producers = {p}, Consumers = {c}
  PROVE  Spec => []NoLostWakeup
<1>1. SpscInv(p, c) => NoLostWakeup
  BY DEF SpscInv, WillBeWoken, NoLostWakeup, At
<1> QED BY <1>1, AlwaysSpscInv, PTL
=============================================================================
