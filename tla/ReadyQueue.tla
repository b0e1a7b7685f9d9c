----------------------------- MODULE ReadyQueue -----------------------------
(***************************************************************************)
(* The ring buffer of SchedQueue beside the first-in first-out queue it    *)
(* is meant to be.                                                         *)
(***************************************************************************)
EXTENDS SchedQueue

CONSTANT Handles

VARIABLES queue, fifo

queue_vars == <<queue, fifo>>

QueueInit == queue = NewQueue /\ fifo = <<>>

\* enqueue(h); a full queue hands h back and is left alone.
Push(h) ==
  /\ queue' = IF IsFull(queue) THEN queue ELSE Enqueue(queue, h)
  /\ fifo' = IF Len(fifo) = QueueCapacity THEN fifo ELSE Append(fifo, h)

\* dequeue(); None when empty.
Pop ==
  /\ queue' = IF IsEmpty(queue) THEN queue ELSE Dequeue(queue)
  /\ fifo' = IF fifo = <<>> THEN fifo ELSE Tail(fifo)

QueueNext == (\E h \in Handles : Push(h)) \/ Pop

QueueSpec == QueueInit /\ [][QueueNext]_queue_vars

-----------------------------------------------------------------------------
QueueTypeOK ==
  /\ queue \in [buf : [Cells -> Handles \cup {NoTask}],
                head : Cells, len : 0 .. QueueCapacity]
  /\ fifo \in Seq(Handles)

\* The ring buffer is a first-in first-out queue: wherever head stands and
\* however often the indices have wrapped, it holds the handles that were
\* enqueued and not dequeued, in order, and dequeue returns the oldest.
QueueIsFifo ==
  /\ Contents(queue) = fifo
  /\ fifo # <<>> => Front(queue) = Head(fifo)
=============================================================================
