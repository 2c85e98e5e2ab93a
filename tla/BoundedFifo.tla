---------------------------- MODULE BoundedFifo ----------------------------
(***************************************************************************)
(* What producer-consumer.h promises of a pc_queue_t: a first-in first-out *)
(* queue of at most Capacity elements.  An enqueue adds its element at one *)
(* instant, a dequeue removes the oldest element at one instant and        *)
(* returns it, and neither happens while the queue is full or empty.       *)
(* Nothing is said of locks, counters or sleeping threads: PCQueue, which  *)
(* models the code, is checked to implement this module.                   *)
(***************************************************************************)
EXTENDS Naturals, Sequences

CONSTANTS Consumers,    \* the threads that dequeue
          Elems,        \* the pointers that are enqueued
          Garbage,      \* what a thread that has dequeued nothing holds
          Capacity      \* the capacity given to pcq_create

VARIABLES queue,        \* the elements enqueued and not yet dequeued, oldest first
          taken         \* the last element each consumer dequeued

fifoVars == <<queue, taken>>

Init == /\ queue = <<>>
        /\ taken = [c \in Consumers |-> Garbage]

Put(e) == /\ Len(queue) < Capacity
          /\ queue' = Append(queue, e)
          /\ UNCHANGED taken

Get(c) == /\ queue # <<>>
          /\ taken' = [taken EXCEPT ![c] = Head(queue)]
          /\ queue' = Tail(queue)

\* pcq_destroy drops whatever the queue still holds.
Discard == /\ queue' = <<>>
           /\ UNCHANGED taken

Next == \/ \E e \in Elems : Put(e)
        \/ \E c \in Consumers : Get(c)
        \/ Discard

\* An element that is in the queue is dequeued (or discarded) in the end.
Spec == Init /\ [][Next]_fifoVars /\ WF_fifoVars(\E c \in Consumers : Get(c))
=============================================================================
