------------------------- MODULE PCQueueRefinement -------------------------
(* Used by one producer and one consumer, producer-consumer.c implements the
   safety part of BoundedFifo: a store is a Put, a load is a Get, and every
   other step leaves the queue alone. *)
EXTENDS PCQueueProofs

\* A count over one thread is 0 or 1.
LEMMA CountOfOne ==
  ASSUME NEW x, NEW S, NEW f
  PROVE  Cardinality({q \in {x} : f[q] \in S}) = IF f[x] \in S THEN 1 ELSE 0
<1>1. CASE f[x] \in S
  <2>1. {q \in {x} : f[q] \in S} = {x}
    BY <1>1
  <2> QED BY <1>1, <2>1, FS_Singleton
<1>2. CASE f[x] \notin S
  <2>1. {q \in {x} : f[q] \in S} = {}
    BY <1>2
  <2> QED BY <1>2, <2>1, FS_EmptySet
<1> QED BY <1>1, <1>2

\* The two ways to count the elements of the ring agree.
LEMMA LiveIsLiveOf ==
  ASSUME NEW p, NEW c, Producers = {p}, Consumers = {c}
  PROVE  Live = LiveOf(p, c) /\ Live' = LiveOf(p, c)'
<1>1. Stored = StoredBy(p) /\ Loaded = LoadedBy(c)
  BY CountOfOne DEF Stored, StoredBy, Loaded, LoadedBy
<1>2. Stored' = StoredBy(p)' /\ Loaded' = LoadedBy(c)'
  BY CountOfOne DEF Stored, StoredBy, Loaded, LoadedBy
<1> QED BY <1>1, <1>2 DEF Live, LiveOf

\* Two positions less than a full turn apart are different slots.
LEMMA WrapApart ==
  ASSUME NEW m \in Nat \ {0}, NEW h \in 0 .. m - 1,
         NEW i \in 0 .. m - 1, NEW n \in 0 .. m - 1, i < n
  PROVE  (h + i) % m # (h + n) % m
<1>1. CASE h + n < m
  BY <1>1
<1>2. CASE h + i < m /\ h + n >= m
  BY <1>2
<1>3. CASE h + i >= m
  BY <1>3
<1> QED BY <1>1, <1>2, <1>3

\* The ring has between 0 and Capacity elements.
LEMMA LiveInRange ==
  ASSUME NEW p, NEW c, Producers = {p}, Consumers = {c}, SpscInv(p, c)
  PROVE  Live \in 0 .. Capacity
<1> USE PCQAssumption
<1>1. Live = LiveOf(p, c)
  BY LiveIsLiveOf
<1>2. pcq_capacity \in 0 .. Capacity /\ pcq_current_size \in Nat
  BY DEF SpscInv, LockInv, TypeOK
<1> QED BY <1>1, <1>2 DEF SpscInv, Bounded, LiveOf, StoredBy, LoadedBy

\* A producer inside a call carries the element it was given.
CarriesElem == \A p \in Producers : pc[p] # "idle" => elem[p] \in Elems

\* No step loses the element.
LEMMA CarriesElemNext == LockInv /\ CarriesElem /\ [Next]_vars => CarriesElem'
<1> SUFFICES ASSUME LockInv, CarriesElem, [Next]_vars, NEW q \in Producers, pc'[q] # "idle"
             PROVE  elem'[q] \in Elems
  BY DEF CarriesElem
<1> USE PCQAssumption DEF Move, At, ring
<1>t. pc \in [Threads -> ProducerPC \cup ConsumerPC] /\ elem \in [Threads -> Elems \cup {Garbage}]
      /\ q \in Threads /\ q \notin Consumers /\ pc[q] \in ProducerPC
  BY DEF LockInv, TypeOK, Threads
<1>1. CASE \E p \in Producers, e \in Elems : EnqCall(p, e)
  BY <1>t, <1>1 DEF EnqCall, CarriesElem
<1>2. CASE \E c \in Consumers : DeqLoad(c)
  BY <1>t, <1>2 DEF DeqLoad, CarriesElem
<1>3. CASE elem' = elem /\ pc[q] # "idle"
  BY <1>3 DEF CarriesElem
<1>4. CASE PcqCreate \/ PcqDestroy
  BY <1>4 DEF PcqCreate, PcqDestroy, Emptied, CarriesElem
<1>5. ASSUME NEW p \in Producers, EnqStep(p) \/ EnqSpurious(p)
      PROVE  elem' = elem /\ pc[q] # "idle"
  <2>1. elem' = elem
    BY <1>5 DEF EnqStep, EnqFull, EnqWait, EnqPass, EnqStore, EnqReadSize, EnqWriteSize,
         EnqSignal, EnqSpurious
  <2>2. CASE EnqSignal(p)
    BY <1>t, <2>2 DEF EnqSignal, Signal, Sleepers
  <2>3. CASE ~EnqSignal(p)
    BY <1>t, <1>5, <2>3 DEF EnqStep, EnqFull, EnqWait, EnqPass, EnqStore, EnqReadSize,
         EnqWriteSize, EnqSpurious
  <2> QED BY <2>1, <2>2, <2>3
<1>6. ASSUME NEW c \in Consumers, Consumer(c), ~DeqLoad(c)
      PROVE  elem' = elem /\ pc[q] # "idle"
  <2>1. elem' = elem
    BY <1>6 DEF Consumer, DeqStep, DeqCall, DeqEmpty, DeqWait, DeqPass, DeqReadSize,
         DeqWriteSize, DeqSignal, DeqSpurious
  <2>2. CASE DeqSignal(c)
    BY <1>t, <2>2 DEF DeqSignal, Signal, Sleepers
  <2>3. CASE ~DeqSignal(c)
    BY <1>t, <1>6, <2>3 DEF Consumer, DeqStep, DeqCall, DeqEmpty, DeqWait, DeqPass,
         DeqReadSize, DeqWriteSize, DeqSpurious
  <2> QED BY <2>1, <2>2, <2>3
<1>7. CASE UNCHANGED vars
  BY <1>3, <1>7 DEF vars
<1> QED BY <1>1, <1>2, <1>3, <1>4, <1>5, <1>6, <1>7 DEF Next, Producer

\* A store appends the element to the abstract queue.
LEMMA StoreIsPut ==
  ASSUME NEW p, NEW c, Producers = {p}, Consumers = {c}, SpscInv(p, c), CarriesElem,
         EnqStore(p)
  PROVE  \E e \in Elems : Fifo!Put(e)
<1> USE PCQAssumption
<1> DEFINE n == Live
<1>1. p # c /\ pc[p] = "e_store" /\ pc' = [pc EXCEPT ![p] = "e_size"]
      /\ pc \in [Threads -> ProducerPC \cup ConsumerPC]
  BY PCQAssumption DEF EnqStore, Move, At, SpscInv, LockInv, TypeOK
<1>2. pcq_capacity = Capacity
  BY <1>1 DEF SpscInv, LockInv, CreatedWhileUsed, Threads
<1>3. n \in 0 .. Capacity - 1 /\ Live' = n + 1
  <2>1. Live = LiveOf(p, c) /\ Live' = LiveOf(p, c)'
    BY LiveIsLiveOf
  <2>2. pcq_current_size \in Nat /\ pcq_current_size' = pcq_current_size
    BY DEF SpscInv, LockInv, TypeOK, EnqStore
  <2> QED BY <1>1, <1>2, <2>1, <2>2 DEF SpscInv, Bounded, LiveOf, StoredBy, LoadedBy, Threads
<1>4. pcq_head \in 0 .. Capacity - 1 /\ pcq_head' = pcq_head
      /\ pcq_tail = (pcq_head + n) % Capacity /\ pcq_tail \in Slots
      /\ pcq_buffer \in [Slots -> Elems \cup {Garbage}]
      /\ pcq_buffer' = [pcq_buffer EXCEPT ![pcq_tail] = elem[p]]
      /\ elem' = elem /\ elem[p] \in Elems
  BY <1>1, LiveIsLiveOf DEF CarriesElem, SpscInv, LockInv, TypeOK, Slots, EnqStore, RingSpan, Threads
<1>5. ASSUME NEW i \in 1 .. n
      PROVE  pcq_buffer'[(pcq_head + i - 1) % Capacity] = pcq_buffer[(pcq_head + i - 1) % Capacity]
  <2>0. i - 1 \in 0 .. Capacity - 1 /\ i - 1 < n
    BY <1>3
  <2>1. (pcq_head + (i - 1)) % Capacity # (pcq_head + n) % Capacity
    <3> HIDE DEF n
    <3> QED BY <1>3, <1>4, <2>0, WrapApart
  <2>2. pcq_head + (i - 1) = pcq_head + i - 1
    BY <1>3, <1>4
  <2>3. (pcq_head + i - 1) % Capacity \in Slots
    BY <1>3, <1>4 DEF Slots
  <2> QED BY <1>4, <2>1, <2>2, <2>3
<1>6. pcq_buffer'[(pcq_head + (n + 1) - 1) % Capacity] = elem[p]
  <2>1. pcq_head + (n + 1) - 1 = pcq_head + n
    BY <1>3, <1>4
  <2> QED BY <1>4, <2>1
<1>7. RingQueue' = Append(RingQueue, elem[p])
  <2>1. RingQueue' = [i \in 1 .. n + 1 |-> pcq_buffer'[(pcq_head + i - 1) % Capacity]]
    BY <1>3, <1>4 DEF RingQueue
  <2>2. RingQueue = [i \in 1 .. n |-> pcq_buffer[(pcq_head + i - 1) % Capacity]]
    BY DEF RingQueue
  <2> HIDE DEF n
  <2> QED BY <1>3, <1>5, <1>6, <2>1, <2>2
<1>8. Len(RingQueue) < Capacity
  BY <1>3 DEF RingQueue
<1> QED BY <1>1, <1>4, <1>7, <1>8 DEF Fifo!Put

\* A load takes the head of the abstract queue.
LEMMA LoadIsGet ==
  ASSUME NEW p, NEW c, Producers = {p}, Consumers = {c}, SpscInv(p, c), DeqLoad(c)
  PROVE  Fifo!Get(c)
<1> USE PCQAssumption
<1> DEFINE n == Live
<1>1. p # c /\ pc[c] = "d_load" /\ pc' = [pc EXCEPT ![c] = "d_size"]
      /\ pc \in [Threads -> ProducerPC \cup ConsumerPC]
  BY DEF DeqLoad, Move, At, SpscInv, LockInv, TypeOK
<1>2. pcq_capacity = Capacity
  BY <1>1 DEF SpscInv, LockInv, CreatedWhileUsed, Threads
<1>3. n \in 1 .. Capacity /\ Live' = n - 1
  <2>1. Live = LiveOf(p, c) /\ Live' = LiveOf(p, c)'
    BY LiveIsLiveOf
  <2>2. pcq_current_size \in Nat /\ pcq_current_size' = pcq_current_size
    BY DEF SpscInv, LockInv, TypeOK, DeqLoad
  <2> QED BY <1>1, <1>2, <2>1, <2>2 DEF SpscInv, Bounded, LiveOf, StoredBy, LoadedBy, Threads
<1>4. pcq_head \in 0 .. Capacity - 1 /\ pcq_head' = (pcq_head + 1) % Capacity
      /\ pcq_buffer' = pcq_buffer
      /\ elem \in [Threads -> Elems \cup {Garbage}]
      /\ elem' = [elem EXCEPT ![c] = pcq_buffer[pcq_head]]
  BY <1>2 DEF SpscInv, LockInv, TypeOK, Slots, DeqLoad
<1>5. ASSUME NEW i \in 1 .. n - 1
      PROVE  (pcq_head' + i - 1) % Capacity = (pcq_head + (i + 1) - 1) % Capacity
  <2>1. (((pcq_head + 1) % Capacity) + (i - 1)) % Capacity = (pcq_head + i) % Capacity
    BY <1>3, <1>4, WrapShift
  <2>2. (pcq_head + 1) % Capacity \in Int
    BY <1>4
  <2>3. ((pcq_head + 1) % Capacity) + (i - 1) = ((pcq_head + 1) % Capacity) + i - 1
        /\ pcq_head + (i + 1) - 1 = pcq_head + i
    BY <1>3, <1>4, <2>2
  <2> QED BY <1>4, <2>1, <2>3
<1>6. (pcq_head + 1 - 1) % Capacity = pcq_head
  BY <1>4
<1>7. RingQueue' = [i \in 1 .. n - 1 |-> pcq_buffer[(pcq_head' + i - 1) % Capacity]]
  BY <1>3, <1>4 DEF RingQueue
<1>8. RingQueue = [i \in 1 .. n |-> pcq_buffer[(pcq_head + i - 1) % Capacity]]
  BY DEF RingQueue
<1>9. RingQueue' = Tail(RingQueue) /\ RingQueue # <<>> /\ Head(RingQueue) = pcq_buffer[pcq_head]
  <2> HIDE DEF n
  <2>1. Len(RingQueue) = n /\ RingQueue # <<>>
    BY <1>3, <1>8
  <2>2. Head(RingQueue) = pcq_buffer[pcq_head]
    BY <1>3, <1>6, <1>8
  <2>3. Tail(RingQueue) = [i \in 1 .. n - 1 |-> pcq_buffer[(pcq_head + (i + 1) - 1) % Capacity]]
    BY <1>3, <1>8, <2>1
  <2> QED BY <1>5, <1>7, <2>1, <2>2, <2>3
<1>10. [x \in Consumers |-> elem[x]]'
         = [[x \in Consumers |-> elem[x]] EXCEPT ![c] = Head(RingQueue)]
  BY <1>4, <1>9 DEF Threads
<1> QED BY <1>9, <1>10 DEF Fifo!Get

\* A step that changes neither the cells, nor the head, nor the number of live
\* elements, nor what the consumer holds is a stutter of the abstract queue.
LEMMA SameRing ==
  ASSUME pcq_buffer' = pcq_buffer, pcq_head' = pcq_head, Live' = Live,
         \A x \in Consumers : elem'[x] = elem[x]
  PROVE  UNCHANGED Fifo!fifoVars
<1>1. RingQueue' = RingQueue
  BY DEF RingQueue
<1>2. [x \in Consumers |-> elem[x]]' = [x \in Consumers |-> elem[x]]
  OBVIOUS
<1> QED BY <1>1, <1>2 DEF Fifo!fifoVars

\* Every step of the producer is a Put or a stutter.
LEMMA EnqueueRefines ==
  ASSUME NEW p, NEW c, Producers = {p}, Consumers = {c}, SpscInv(p, c), CarriesElem,
         Producer(p)
  PROVE  [Fifo!Next]_(Fifo!fifoVars)
<1> USE PCQAssumption DEF Move, At, Acquire, Release, Free, ring
<1>t. /\ p # c /\ Threads = {p, c}
      /\ pc \in [{p, c} -> ProducerPC \cup ConsumerPC]
      /\ elem \in [{p, c} -> Elems \cup {Garbage}]
      /\ pc[p] \in ProducerPC /\ pc[c] \in ConsumerPC
  BY DEF SpscInv, LockInv, TypeOK, Threads
<1>n. pcq_current_size \in Nat
  BY DEF SpscInv, LockInv, TypeOK
<1>1. CASE EnqStore(p)
  BY <1>1, StoreIsPut DEF Fifo!Next
<1>2. CASE EnqWriteSize(p)
  <2>1. pcq_current_size' = pcq_current_size + 1
    <3>1. seen[p] = pcq_current_size
      BY <1>2, <1>t DEF EnqWriteSize, SpscInv, LockInv, NoLostUpdate
    <3>2. pcq_current_size < pcq_capacity /\ pcq_capacity \in 0 .. Capacity
      BY <1>2, <1>t DEF EnqWriteSize, SpscInv, LockInv, TypeOK, Bounded
    <3>3. SizeModulus \in Nat \ {0} /\ pcq_current_size + 1 \in 0 .. SizeModulus - 1
      BY <1>n, <3>2
    <3>4. (pcq_current_size + 1) % SizeModulus = pcq_current_size + 1
      BY <1>n, <3>3
    <3> QED BY <1>2, <3>1, <3>4 DEF EnqWriteSize
  <2>2. LiveOf(p, c)' = LiveOf(p, c)
    BY <1>2, <1>t, <1>n, <2>1 DEF EnqWriteSize, LiveOf, StoredBy, LoadedBy
  <2>3. UNCHANGED <<pcq_buffer, pcq_head, elem>> /\ Live' = Live
    BY <1>2, <2>2, LiveIsLiveOf DEF EnqWriteSize
  <2> QED BY <2>3, SameRing
<1>3. CASE \E e \in Elems : EnqCall(p, e)
  <2>1. LiveOf(p, c)' = LiveOf(p, c) /\ UNCHANGED <<pcq_buffer, pcq_head>> /\ elem'[c] = elem[c]
    BY <1>3, <1>t, <1>n DEF EnqCall, LiveOf, StoredBy, LoadedBy
  <2>2. Live' = Live
    BY <2>1, LiveIsLiveOf
  <2> QED BY <2>1, <2>2, SameRing
<1>4. CASE EnqFull(p) \/ EnqWait(p) \/ EnqPass(p) \/ EnqReadSize(p) \/ EnqSpurious(p)
  <2>1. LiveOf(p, c)' = LiveOf(p, c) /\ UNCHANGED <<pcq_buffer, pcq_head, elem>>
    BY <1>4, <1>t, <1>n DEF EnqFull, EnqWait, EnqPass, EnqReadSize, EnqSpurious, LiveOf,
         StoredBy, LoadedBy
  <2>2. Live' = Live
    BY <2>1, LiveIsLiveOf
  <2> QED BY <2>1, <2>2, SameRing
<1>5. CASE EnqSignal(p)
  <2>1. UNCHANGED <<pcq_buffer, pcq_head, pcq_current_size, elem>>
    BY <1>5 DEF EnqSignal
  <2>2. StoredBy(p)' = StoredBy(p) /\ LoadedBy(c)' = LoadedBy(c)
    BY <1>5, <1>t DEF EnqSignal, Signal, Sleepers, StoredBy, LoadedBy
  <2>3. Live' = Live
    BY <2>1, <2>2, LiveIsLiveOf DEF LiveOf
  <2> QED BY <2>1, <2>3, SameRing
<1> QED BY <1>1, <1>2, <1>3, <1>4, <1>5 DEF Producer, EnqStep

\* Every step of the consumer is a Get or a stutter.
LEMMA DequeueRefines ==
  ASSUME NEW p, NEW c, Producers = {p}, Consumers = {c}, SpscInv(p, c), Consumer(c)
  PROVE  [Fifo!Next]_(Fifo!fifoVars)
<1> USE PCQAssumption DEF Move, At, Acquire, Release, Free, ring
<1>t. /\ p # c /\ Threads = {p, c}
      /\ pc \in [{p, c} -> ProducerPC \cup ConsumerPC]
      /\ pc[p] \in ProducerPC /\ pc[c] \in ConsumerPC
  BY DEF SpscInv, LockInv, TypeOK, Threads
<1>n. pcq_current_size \in Nat
  BY DEF SpscInv, LockInv, TypeOK
<1>1. CASE DeqLoad(c)
  BY <1>1, LoadIsGet DEF Fifo!Next
<1>2. CASE DeqWriteSize(c)
  <2>1. pcq_current_size' = pcq_current_size - 1
    <3>1. seen[c] = pcq_current_size
      BY <1>2, <1>t DEF DeqWriteSize, SpscInv, LockInv, NoLostUpdate
    <3>2. pcq_current_size > 0 /\ pcq_current_size \in 0 .. SizeModulus - 1
      BY <1>2, <1>t DEF DeqWriteSize, SpscInv, LockInv, TypeOK, Bounded
    <3>3. SizeModulus \in Nat \ {0} /\ pcq_current_size - 1 \in 0 .. SizeModulus - 1
      BY <1>n, <3>2
    <3>4. (pcq_current_size + SizeModulus - 1) % SizeModulus = pcq_current_size - 1
      BY <1>n, <3>3, WrapPred
    <3> QED BY <1>2, <3>1, <3>4 DEF DeqWriteSize
  <2>2. LiveOf(p, c)' = LiveOf(p, c)
    BY <1>2, <1>t, <1>n, <2>1 DEF DeqWriteSize, LiveOf, StoredBy, LoadedBy
  <2>3. UNCHANGED <<pcq_buffer, pcq_head, elem>> /\ Live' = Live
    BY <1>2, <2>2, LiveIsLiveOf DEF DeqWriteSize
  <2> QED BY <2>3, SameRing
<1>3. CASE DeqCall(c) \/ DeqEmpty(c) \/ DeqWait(c) \/ DeqPass(c) \/ DeqReadSize(c) \/ DeqSpurious(c)
  <2>1. LiveOf(p, c)' = LiveOf(p, c) /\ UNCHANGED <<pcq_buffer, pcq_head, elem>>
    BY <1>3, <1>t, <1>n DEF DeqCall, DeqEmpty, DeqWait, DeqPass, DeqReadSize, DeqSpurious,
         LiveOf, StoredBy, LoadedBy
  <2>2. Live' = Live
    BY <2>1, LiveIsLiveOf
  <2> QED BY <2>1, <2>2, SameRing
<1>4. CASE DeqSignal(c)
  <2>1. UNCHANGED <<pcq_buffer, pcq_head, pcq_current_size, elem>>
    BY <1>4 DEF DeqSignal
  <2>2. StoredBy(p)' = StoredBy(p) /\ LoadedBy(c)' = LoadedBy(c)
    BY <1>4, <1>t DEF DeqSignal, Signal, Sleepers, StoredBy, LoadedBy
  <2>3. Live' = Live
    BY <2>1, <2>2, LiveIsLiveOf DEF LiveOf
  <2> QED BY <2>1, <2>3, SameRing
<1> QED BY <1>1, <1>2, <1>3, <1>4 DEF Consumer, DeqStep

\* With one producer and one consumer, a load always finds an element.
THEOREM LoadsFindElements ==
  ASSUME NEW CONSTANT p, NEW CONSTANT c, Producers = {p}, Consumers = {c}
  PROVE  Spec => []LoadFindsElement
<1>1. SpscInv(p, c) => LoadFindsElement
  <2> SUFFICES ASSUME SpscInv(p, c), pc[c] = "d_load" PROVE Live > 0
    BY DEF LoadFindsElement, At
  <2>1. pcq_current_size > 0 /\ pcq_current_size \in Nat
    BY DEF SpscInv, LockInv, TypeOK, Bounded
  <2> QED BY <2>1, LiveIsLiveOf DEF LiveOf, StoredBy, LoadedBy
<1> QED BY <1>1, AlwaysSpscInv, PTL

\* Used by one producer and one consumer, the queue is a first-in first-out
\* queue of at most Capacity elements, whatever the interleaving.
THEOREM ImplementsFifo ==
  ASSUME NEW CONSTANT p, NEW CONSTANT c, Producers = {p}, Consumers = {c}
  PROVE  Spec => Fifo!Init /\ [][Fifo!Next]_(Fifo!fifoVars)
<1> USE PCQAssumption
<1>1. Init => Fifo!Init
  <2> SUFFICES ASSUME Init PROVE Fifo!Init
    OBVIOUS
  <2>1. Live = 0
    <3>1. pc[p] = "idle" /\ pc[c] = "idle" /\ pcq_current_size = 0
      BY DEF Init, Threads
    <3> QED BY <3>1, LiveIsLiveOf DEF LiveOf, StoredBy, LoadedBy
  <2>2. RingQueue = <<>>
    BY <2>1 DEF RingQueue
  <2>3. [x \in Consumers |-> elem[x]] = [x \in Consumers |-> Garbage]
    BY DEF Init, Threads
  <2> QED BY <2>2, <2>3 DEF Fifo!Init
<1>2. SpscInv(p, c) /\ CarriesElem /\ [Next]_vars => [Fifo!Next]_(Fifo!fifoVars)
  <2> SUFFICES ASSUME SpscInv(p, c), CarriesElem, [Next]_vars
               PROVE  [Fifo!Next]_(Fifo!fifoVars)
    OBVIOUS
  <2>1. CASE PcqCreate \/ PcqDestroy
    <3>1. pc[p] = "idle" /\ pc[c] = "idle"
      BY <2>1 DEF PcqCreate, PcqDestroy, SpscInv, LockInv, CreatedWhileUsed, At, Threads
    <3>2. LiveOf(p, c)' = 0
      BY <2>1, <3>1 DEF PcqCreate, PcqDestroy, Emptied, LiveOf, StoredBy, LoadedBy
    <3>3. RingQueue' = <<>>
      BY <3>2, LiveIsLiveOf DEF RingQueue
    <3>4. elem' = elem
      BY <2>1 DEF PcqCreate, PcqDestroy, Emptied
    <3> QED BY <3>3, <3>4 DEF Fifo!Next, Fifo!Discard
  <2>2. CASE Producer(p)
    BY <2>2, EnqueueRefines
  <2>3. CASE Consumer(c)
    BY <2>3, DequeueRefines
  <2>4. CASE UNCHANGED vars
    BY <2>4, SameRing DEF vars, ring, Live, Stored, Loaded
  <2> QED BY <2>1, <2>2, <2>3, <2>4 DEF Next
<1>3. Init => CarriesElem
  BY DEF Init, CarriesElem, Threads
<1>4. LockInv /\ CarriesElem /\ [Next]_vars => CarriesElem'
  BY CarriesElemNext
<1>5. SpscInv(p, c) => LockInv
  BY DEF SpscInv
<1> QED BY <1>1, <1>2, <1>3, <1>4, <1>5, AlwaysSpscInv, PTL DEF Spec
=============================================================================
