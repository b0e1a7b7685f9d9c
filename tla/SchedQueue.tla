----------------------------- MODULE SchedQueue -----------------------------
(***************************************************************************)
(* The ready queue of the scheduler (SchedQueue in                         *)
(* kernel/src/sched/mod.rs): a ring buffer of task handles, as operators   *)
(* on a record.  Contents(q) is the sequence of handles it holds.          *)
(***************************************************************************)
EXTENDS Integers, Sequences

CONSTANTS
  QueueCapacity,  \* TASK_ARENA_CAPACITY
  NoTask          \* Option::None in a cell of the buffer

ASSUME QueueCapacityAssumption == QueueCapacity \in Nat \ {0}

Cells == 0 .. QueueCapacity - 1

NewQueue == [buf |-> [i \in Cells |-> NoTask], head |-> 0, len |-> 0]

IsFull(q) == q.len = QueueCapacity
IsEmpty(q) == q.len = 0

\* Mutated forms: the write index ignores head; head runs off the buffer.
Enqueue_AtLen(q, h) ==
  [buf |-> [q.buf EXCEPT ![q.len % QueueCapacity] = h], head |-> q.head, len |-> q.len + 1]
Dequeue_NoWrap(q) ==
  [buf |-> [q.buf EXCEPT ![q.head] = NoTask], head |-> q.head + 1, len |-> q.len - 1]

\* enqueue, when the queue is not full.
Enqueue(q, h) ==
  [buf |-> [q.buf EXCEPT ![(q.head + q.len) % QueueCapacity] = h],
   head |-> q.head,
   len |-> q.len + 1]

\* dequeue, when the queue is not empty: the handle, and the queue left.
Front(q) == q.buf[q.head]
Dequeue(q) ==
  [buf |-> [q.buf EXCEPT ![q.head] = NoTask],
   head |-> (q.head + 1) % QueueCapacity,
   len |-> q.len - 1]

Contents(q) == [i \in 1 .. q.len |-> q.buf[(q.head + i - 1) % QueueCapacity]]
=============================================================================
