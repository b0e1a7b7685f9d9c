---------------------------- MODULE Sched_proofs ----------------------------
(***************************************************************************)
(* The scheduler and its IPC bridge are correct for every number of tasks, *)
(* endpoints and table slots: the ready queue is exact, no panic is        *)
(* reachable, no wake-up is lost and what a blocked receive checked before *)
(* its context switch still holds after it.                                *)
(***************************************************************************)
EXTENDS Sched, ReadyQueue, SequenceTheorems, FiniteSetTheorems, TLAPS

(* The ring buffer.                                                        *)

\* The ring buffers of handles from H.
Queues(H) == [buf : [Cells -> H \cup {NoTask}], head : Cells, len : 0 .. QueueCapacity]

\* f is what the cells from head on hold.
Holds(q, f) ==
  /\ Len(f) = q.len
  /\ \A i \in 1 .. q.len : f[i] = q.buf[(q.head + i - 1) % QueueCapacity]

\* One wrap of the ring index is enough.
LEMMA WrapOnce ==
  \A x \in 0 .. 2 * QueueCapacity - 1 :
    /\ x % QueueCapacity = IF x < QueueCapacity THEN x ELSE x - QueueCapacity
    /\ x % QueueCapacity \in Cells
BY QueueCapacityAssumption, Z3 DEF Cells

\* Where the i-th handle of q lies, without the modulus.
CellAt(q, i) ==
  IF q.head + i - 1 < QueueCapacity THEN q.head + i - 1 ELSE q.head + i - 1 - QueueCapacity

\* CellAt is the ring index of the code.
LEMMA RingIndex ==
  ASSUME NEW H, NEW q \in Queues(H), NEW i \in 1 .. QueueCapacity
  PROVE  /\ (q.head + i - 1) % QueueCapacity = CellAt(q, i)
         /\ CellAt(q, i) \in Cells
<1>1. QueueCapacity \in Nat \ {0} /\ q.head \in 0 .. QueueCapacity - 1
  BY QueueCapacityAssumption DEF Queues, Cells
<1> DEFINE x == q.head + i - 1
<1>2. x \in 0 .. 2 * QueueCapacity - 1
  BY <1>1
<1> HIDE DEF x
<1>3. x % QueueCapacity = (IF x < QueueCapacity THEN x ELSE x - QueueCapacity)
      /\ x % QueueCapacity \in Cells
  BY <1>2, WrapOnce
<1>4. CellAt(q, i) = (IF x < QueueCapacity THEN x ELSE x - QueueCapacity)
  BY <1>1 DEF CellAt, x
<1>5. q.head + i - 1 = x
  BY DEF x
<1> QED  BY <1>3, <1>4, <1>5

\* Enqueue appends: no cell in use is overwritten.
LEMMA EnqueueAppends ==
  ASSUME NEW H, NEW q \in Queues(H), NEW h \in H, ~IsFull(q),
         NEW f \in Seq(H), Holds(q, f)
  PROVE  Enqueue(q, h) \in Queues(H) /\ Holds(Enqueue(q, h), Append(f, h))
<1> DEFINE e == Enqueue(q, h)
           n == q.len + 1
<1>1. /\ QueueCapacity \in Nat \ {0} /\ q.head \in 0 .. QueueCapacity - 1
      /\ q.len \in 0 .. QueueCapacity - 1 /\ Len(f) = q.len
      /\ q.buf \in [Cells -> H \cup {NoTask}]
  BY QueueCapacityAssumption DEF Queues, Cells, IsFull, Holds
<1>2. (q.head + q.len) % QueueCapacity = CellAt(q, n) /\ CellAt(q, n) \in Cells
  <2>1. n \in 1 .. QueueCapacity /\ q.head + n - 1 = q.head + q.len
    BY <1>1
  <2> QED  BY <2>1, RingIndex
<1>3. e = [buf |-> [q.buf EXCEPT ![CellAt(q, n)] = h], head |-> q.head, len |-> n]
  BY <1>2 DEF Enqueue
<1>4. e \in Queues(H)
  BY <1>1, <1>2, <1>3 DEF Queues, Cells
<1>5. ASSUME NEW i \in 1 .. n
      PROVE  Append(f, h)[i] = e.buf[(e.head + i - 1) % QueueCapacity]
  <2>1. i \in 1 .. QueueCapacity /\ e.head = q.head
    BY <1>1, <1>3
  <2>2. (e.head + i - 1) % QueueCapacity = CellAt(q, i) /\ CellAt(q, i) \in Cells
    BY <2>1, RingIndex
  <2>3. CASE i = n
    <3>1. Append(f, h)[i] = h
      BY <1>1, <2>3
    <3>2. e.buf = [q.buf EXCEPT ![CellAt(q, n)] = h] /\ CellAt(q, n) \in DOMAIN q.buf
      BY <1>1, <1>2, <1>3
    <3>3. e.buf[CellAt(q, n)] = h
      BY <3>2
    <3> QED  BY <2>2, <2>3, <3>1, <3>3
  <2>4. CASE i # n
    <3>1. i \in 1 .. q.len /\ CellAt(q, i) # CellAt(q, n)
      <4>1. /\ QueueCapacity \in Nat /\ q.head \in Nat /\ q.len \in Nat
            /\ i \in Nat /\ 1 =< i /\ i =< q.len
            /\ n \in Nat /\ i < n /\ n =< QueueCapacity
        BY <1>1, <2>4
      <4> HIDE DEF e, n
      <4>2. CellAt(q, i) # CellAt(q, n)
        BY <4>1, SMTT(30) DEF CellAt
      <4> QED  BY <4>1, <4>2
    <3>2. f[i] = q.buf[CellAt(q, i)]
      BY <2>1, <2>2, <3>1 DEF Holds
    <3>3. Append(f, h)[i] = f[i]
      BY <1>1, <3>1
    <3> QED  BY <1>1, <1>2, <1>3, <2>2, <3>1, <3>2, <3>3
  <2> QED  BY <2>3, <2>4, Zenon
<1>6. Len(Append(f, h)) = e.len /\ e.len = n
  BY <1>1, <1>3
<1> QED  BY <1>4, <1>5, <1>6 DEF Holds

\* Dequeue returns the oldest handle and leaves the others.
LEMMA DequeueTakesOldest ==
  ASSUME NEW H, NEW q \in Queues(H), ~IsEmpty(q), NEW f \in Seq(H), Holds(q, f)
  PROVE  /\ f # <<>> /\ Front(q) = Head(f)
         /\ Dequeue(q) \in Queues(H) /\ Holds(Dequeue(q), Tail(f))
<1> DEFINE d == Dequeue(q)
<1>1. /\ QueueCapacity \in Nat \ {0} /\ q.head \in 0 .. QueueCapacity - 1
      /\ q.len \in 1 .. QueueCapacity /\ Len(f) = q.len
      /\ q.buf \in [Cells -> H \cup {NoTask}]
  BY QueueCapacityAssumption DEF Queues, Cells, IsEmpty, Holds
<1>2. /\ (q.head + 1) % QueueCapacity = IF q.head + 1 < QueueCapacity THEN q.head + 1 ELSE 0
      /\ (q.head + 1) % QueueCapacity \in Cells
  <2> DEFINE x == q.head + 1
  <2>1. x \in 0 .. 2 * QueueCapacity - 1 /\ (x < QueueCapacity \/ x - QueueCapacity = 0)
    BY <1>1
  <2> HIDE DEF x
  <2>2. x % QueueCapacity = (IF x < QueueCapacity THEN x ELSE 0) /\ x % QueueCapacity \in Cells
    BY <2>1, WrapOnce
  <2> QED  BY <2>2, Zenon DEF x
<1>3. /\ d.buf = [q.buf EXCEPT ![q.head] = NoTask]
      /\ d.head = IF q.head + 1 < QueueCapacity THEN q.head + 1 ELSE 0
      /\ d.len = q.len - 1
  BY <1>2 DEF Dequeue
<1>4. d \in Queues(H)
  BY <1>1, <1>2 DEF Queues, Dequeue, Cells
<1> HIDE DEF d
<1>5. f # <<>> /\ Front(q) = Head(f)
  <2>1. 1 \in 1 .. QueueCapacity /\ 1 \in 1 .. q.len /\ CellAt(q, 1) = q.head
    BY <1>1 DEF CellAt
  <2>2. f[1] = q.buf[q.head]
    BY <2>1, RingIndex DEF Holds
  <2> QED  BY <1>1, <2>2 DEF Front
<1>6. Len(Tail(f)) = d.len /\ \A i \in 1 .. d.len : Tail(f)[i] = f[i + 1]
  BY <1>1, <1>3, <1>5, HeadTailProperties
<1>7. ASSUME NEW i \in 1 .. d.len
      PROVE  Tail(f)[i] = d.buf[(d.head + i - 1) % QueueCapacity]
  <2>1. i \in 1 .. QueueCapacity /\ i + 1 \in 1 .. QueueCapacity /\ i + 1 \in 1 .. q.len
    BY <1>1, <1>3
  <2>2. (d.head + i - 1) % QueueCapacity = CellAt(d, i)
    BY <1>4, <2>1, RingIndex
  <2>3. CellAt(d, i) = CellAt(q, i + 1) /\ CellAt(q, i + 1) # q.head
    <3>1. q.head + (i + 1) - 1 = q.head + i
      BY <1>1, <2>1
    <3>2. CellAt(q, i + 1) = IF q.head + i < QueueCapacity THEN q.head + i
                         ELSE q.head + i - QueueCapacity
      BY <3>1 DEF CellAt
    <3>3. CASE q.head + 1 < QueueCapacity
      <4>1. d.head = q.head + 1
        BY <1>3, <3>3
      <4>2. CellAt(d, i) = IF q.head + i < QueueCapacity THEN q.head + i
                       ELSE q.head + i - QueueCapacity
        BY <1>1, <2>1, <4>1 DEF CellAt
      <4> QED  BY <1>1, <2>1, <3>2, <4>2
    <3>4. CASE ~(q.head + 1 < QueueCapacity)
      <4>1. d.head + i - 1 = i - 1 /\ i - 1 < QueueCapacity
            /\ q.head + i >= QueueCapacity /\ q.head + i - QueueCapacity = i - 1
            /\ i - 1 # q.head
        BY <1>1, <1>3, <2>1, <3>4
      <4> QED  BY <1>1, <2>1, <3>2, <4>1 DEF CellAt
    <3> QED  BY <3>3, <3>4
  <2>4. f[i + 1] = q.buf[CellAt(q, i + 1)] /\ CellAt(q, i + 1) \in Cells
    <3> DEFINE k == i + 1
    <3>1. k \in 1 .. QueueCapacity /\ k \in 1 .. q.len
      BY <2>1
    <3> HIDE DEF k
    <3>2. f[k] = q.buf[CellAt(q, k)] /\ CellAt(q, k) \in Cells
      BY <3>1, RingIndex DEF Holds
    <3> QED  BY <3>2 DEF k
  <2> QED  BY <1>1, <1>3, <1>6, <2>2, <2>3, <2>4
<1> QED  BY <1>4, <1>5, <1>6, <1>7, Zenon DEF Holds, d

-----------------------------------------------------------------------------
(* The ring buffer as a list of different handles.                         *)

Members(q) == {Contents(q)[i] : i \in 1 .. q.len}
Once(q) == \A i, j \in 1 .. q.len : Contents(q)[i] = Contents(q)[j] => i = j

\* t comes before u in q.
Ahead(q, t, u) ==
  \E i, j \in 1 .. q.len : i < j /\ Contents(q)[i] = t /\ Contents(q)[j] = u

\* The contents of a ring buffer are a sequence of its length.
LEMMA ContentsSeq ==
  ASSUME NEW H, NEW q \in Queues(H)
  PROVE  /\ q.len \in Nat /\ Len(Contents(q)) = q.len
         /\ Members(q) \subseteq H => Contents(q) \in Seq(H)
         /\ Holds(q, Contents(q))
<1>1. q.len \in 0 .. QueueCapacity /\ QueueCapacity \in Nat
  BY QueueCapacityAssumption DEF Queues
<1>2. Len(Contents(q)) = q.len
  BY <1>1 DEF Contents
<1>3. Members(q) \subseteq H => Contents(q) \in Seq(H)
  BY <1>1 DEF Contents, Members
<1>4. Holds(q, Contents(q))
  BY <1>1, <1>2 DEF Holds, Contents
<1> QED  BY <1>1, <1>2, <1>3, <1>4

\* What Holds says of the contents, handle by handle.
LEMMA HoldsContents ==
  ASSUME NEW H, NEW q \in Queues(H), NEW f, Holds(q, f), NEW i \in 1 .. q.len
  PROVE  Contents(q)[i] = f[i]
BY DEF Holds, Contents

\* enqueue, handle by handle.
LEMMA EnqueueContents ==
  ASSUME NEW H, NEW q \in Queues(H), Members(q) \subseteq H, NEW h \in H, ~IsFull(q)
  PROVE  /\ Enqueue(q, h) \in Queues(H) /\ Enqueue(q, h).len = q.len + 1
         /\ \A i \in 1 .. q.len : Contents(Enqueue(q, h))[i] = Contents(q)[i]
         /\ Contents(Enqueue(q, h))[q.len + 1] = h
<1> DEFINE e == Enqueue(q, h)
           f == Contents(q)
<1>1. q.len \in Nat /\ Len(f) = q.len /\ f \in Seq(H) /\ Holds(q, f)
  BY ContentsSeq
<1>2. e \in Queues(H) /\ Holds(e, Append(f, h))
  BY <1>1, EnqueueAppends
<1>3. e.len = q.len + 1
  BY DEF Enqueue
<1> HIDE DEF e, f
<1>4. \A i \in 1 .. e.len : Contents(e)[i] = Append(f, h)[i]
  BY <1>2, HoldsContents, Zenon
<1>5. /\ \A i \in 1 .. q.len : Append(f, h)[i] = f[i]
      /\ Append(f, h)[q.len + 1] = h
  BY <1>1, AppendProperties
<1>6. (\A i \in 1 .. q.len : i \in 1 .. e.len) /\ q.len + 1 \in 1 .. e.len
  BY <1>1, <1>3
<1>7. (\A i \in 1 .. q.len : Contents(e)[i] = f[i]) /\ Contents(e)[q.len + 1] = h
  BY <1>4, <1>5, <1>6, Zenon
<1> QED  BY <1>2, <1>3, <1>7 DEF e, f

\* dequeue, handle by handle.
LEMMA DequeueContents ==
  ASSUME NEW H, NEW q \in Queues(H), Members(q) \subseteq H, ~IsEmpty(q)
  PROVE  /\ Dequeue(q) \in Queues(H) /\ Dequeue(q).len = q.len - 1
         /\ 1 \in 1 .. q.len /\ Front(q) = Contents(q)[1]
         /\ \A i \in 1 .. q.len - 1 : Contents(Dequeue(q))[i] = Contents(q)[i + 1]
<1> DEFINE d == Dequeue(q)
           f == Contents(q)
<1>1. q.len \in Nat /\ Len(f) = q.len /\ f \in Seq(H) /\ Holds(q, f)
  BY ContentsSeq
<1>2. f # <<>> /\ Front(q) = Head(f) /\ d \in Queues(H) /\ Holds(d, Tail(f))
  BY <1>1, DequeueTakesOldest
<1>3. d.len = q.len - 1
  BY DEF Dequeue
<1> HIDE DEF d, f
<1>4. q.len >= 1 /\ Head(f) = f[1] /\ \A i \in 1 .. q.len - 1 : Tail(f)[i] = f[i + 1]
  BY <1>1, <1>2, HeadTailProperties
<1>5. \A i \in 1 .. d.len : Contents(d)[i] = Tail(f)[i]
  BY <1>2, HoldsContents, Zenon
<1>6. \A i \in 1 .. q.len - 1 : Contents(d)[i] = f[i + 1]
  BY <1>3, <1>4, <1>5, Zenon
<1> QED  BY <1>1, <1>2, <1>3, <1>4, <1>6 DEF d, f

\* Enqueuing a handle that is not there.
LEMMA EnqueueMembers ==
  ASSUME NEW H, NEW q \in Queues(H), Members(q) \subseteq H, Once(q),
         NEW h \in H \ Members(q), ~IsFull(q)
  PROVE  /\ Enqueue(q, h) \in Queues(H)
         /\ Members(Enqueue(q, h)) = Members(q) \cup {h} /\ Once(Enqueue(q, h))
         /\ \A t \in Members(q) : Ahead(Enqueue(q, h), t, h)
         /\ \A t, u : Ahead(q, t, u) => Ahead(Enqueue(q, h), t, u)
<1> DEFINE e == Enqueue(q, h)
<1>1. /\ e \in Queues(H) /\ e.len = q.len + 1
      /\ \A i \in 1 .. q.len : Contents(e)[i] = Contents(q)[i]
      /\ Contents(e)[q.len + 1] = h
  BY EnqueueContents
<1>2. q.len \in Nat
  BY ContentsSeq
<1> HIDE DEF e
<1>3. \A i \in 1 .. e.len : i \in 1 .. q.len \/ i = q.len + 1
  BY <1>1, <1>2
<1>4. (\A i \in 1 .. q.len : i \in 1 .. e.len /\ i < q.len + 1) /\ q.len + 1 \in 1 .. e.len
  BY <1>1, <1>2
<1>5. Members(e) = Members(q) \cup {h}
  BY <1>1, <1>3, <1>4 DEF Members
<1>6. Once(e)
  <2>1. \A i \in 1 .. q.len : Contents(q)[i] # h
    BY DEF Members
  <2> QED  BY <1>1, <1>3, <2>1 DEF Once
<1>7. \A t \in Members(q) : Ahead(e, t, h)
  BY <1>1, <1>4 DEF Members, Ahead
<1>8. \A t, u : Ahead(q, t, u) => Ahead(e, t, u)
  BY <1>1, <1>4 DEF Ahead
<1> QED  BY <1>1, <1>5, <1>6, <1>7, <1>8 DEF e

\* Dequeuing: the handle that leaves was behind nobody.
LEMMA DequeueMembers ==
  ASSUME NEW H, NEW q \in Queues(H), Members(q) \subseteq H, Once(q), ~IsEmpty(q)
  PROVE  /\ Dequeue(q) \in Queues(H)
         /\ Front(q) \in Members(q)
         /\ Members(Dequeue(q)) = Members(q) \ {Front(q)} /\ Once(Dequeue(q))
         /\ \A t, u : Ahead(q, t, u) => u # Front(q)
         /\ \A t, u : Ahead(q, t, u) /\ t # Front(q) => Ahead(Dequeue(q), t, u)
<1> DEFINE d == Dequeue(q)
<1>1. /\ d \in Queues(H) /\ d.len = q.len - 1
      /\ 1 \in 1 .. q.len /\ Front(q) = Contents(q)[1]
      /\ \A i \in 1 .. q.len - 1 : Contents(d)[i] = Contents(q)[i + 1]
  BY DequeueContents
<1>2. q.len \in Nat
  BY ContentsSeq
<1> HIDE DEF d
<1>3. \A i \in 1 .. d.len : i + 1 \in 1 .. q.len /\ i + 1 # 1 /\ Contents(d)[i] = Contents(q)[i + 1]
  BY <1>1, <1>2
<1>4. \A i \in 1 .. q.len : i # 1 => i - 1 \in 1 .. d.len /\ Contents(d)[i - 1] = Contents(q)[i]
  <2> SUFFICES ASSUME NEW i \in 1 .. q.len, i # 1
               PROVE  i - 1 \in 1 .. d.len /\ Contents(d)[i - 1] = Contents(q)[i]
    OBVIOUS
  <2>1. i - 1 \in 1 .. d.len /\ (i - 1) + 1 = i
    BY <1>1, <1>2
  <2> QED  BY <1>3, <2>1
<1>5. Members(d) = Members(q) \ {Front(q)}
  <2>1. ASSUME NEW x \in Members(d) PROVE x \in Members(q) \ {Front(q)}
    BY <1>1, <1>3 DEF Members, Once
  <2>2. ASSUME NEW x \in Members(q), x # Front(q) PROVE x \in Members(d)
    <3>1. PICK i \in 1 .. q.len : x = Contents(q)[i]
      BY DEF Members
    <3>2. i - 1 \in 1 .. d.len /\ Contents(d)[i - 1] = x
      BY <1>1, <1>4, <2>2, <3>1
    <3> QED  BY <3>2, Zenon DEF Members
  <2> QED  BY <2>1, <2>2
<1>6. Once(d)
  <2> SUFFICES ASSUME NEW i \in 1 .. d.len, NEW j \in 1 .. d.len, Contents(d)[i] = Contents(d)[j]
               PROVE  i = j
    BY DEF Once
  <2>1. /\ i + 1 \in 1 .. q.len /\ Contents(d)[i] = Contents(q)[i + 1]
        /\ j + 1 \in 1 .. q.len /\ Contents(d)[j] = Contents(q)[j + 1]
    BY <1>3
  <2>2. i + 1 = j + 1
    BY <2>1, Zenon DEF Once
  <2> QED  BY <1>1, <1>2, <2>2
<1>7. \A t, u : Ahead(q, t, u) => u # Front(q)
  <2> SUFFICES ASSUME NEW i \in 1 .. q.len, NEW j \in 1 .. q.len, i < j
               PROVE  Contents(q)[j] # Front(q)
    BY DEF Ahead
  <2>1. j # 1
    BY <1>2
  <2> QED  BY <1>1, <2>1 DEF Once
<1>8. \A t, u : Ahead(q, t, u) /\ t # Front(q) => Ahead(d, t, u)
  <2> SUFFICES ASSUME NEW i \in 1 .. q.len, NEW j \in 1 .. q.len, i < j,
                      Contents(q)[i] # Front(q)
               PROVE  Ahead(d, Contents(q)[i], Contents(q)[j])
    BY DEF Ahead
  <2>1. i # 1 /\ j # 1 /\ i - 1 < j - 1
    BY <1>1, <1>2
  <2>2. /\ i - 1 \in 1 .. d.len /\ Contents(d)[i - 1] = Contents(q)[i]
        /\ j - 1 \in 1 .. d.len /\ Contents(d)[j - 1] = Contents(q)[j]
    BY <1>4, <2>1
  <2> QED  BY <2>1, <2>2 DEF Ahead
<1>9. Front(q) \in Members(q)
  BY <1>1 DEF Members
<1> QED  BY <1>1, <1>5, <1>6, <1>7, <1>8, <1>9 DEF d

\* There are no more different members of S than S has.
LEMMA AtMostAll ==
  ASSUME NEW n \in Nat, NEW S, IsFiniteSet(S), NEW f \in [1 .. n -> S],
         \A i, j \in 1 .. n : f[i] = f[j] => i = j
  PROVE  n =< Cardinality(S)
<1> DEFINE D == 1 .. n
<1>1. IsFiniteSet(D) /\ Cardinality(D) = n
  <2>1. Cardinality(1 .. n) = (IF 1 > n THEN 0 ELSE n - 1 + 1) /\ IsFiniteSet(1 .. n)
    BY FS_Interval
  <2> QED  BY <2>1
<1>2. Cardinality(S) \in Nat
  BY FS_CardinalityType
<1> HIDE DEF D
<1>3. ASSUME Cardinality(S) < Cardinality(D) PROVE FALSE
  <2>1. \E i, j \in D : i # j /\ f[i] = f[j]
    BY <1>1, <1>3, FS_PigeonHole DEF D
  <2> QED  BY <2>1 DEF D
<1> QED  BY <1>1, <1>2, <1>3

\* A ring buffer is empty when it has no members, and holds no more handles
\* than there are.
LEMMA MembersCount ==
  ASSUME NEW H, NEW q \in Queues(H), Once(q), NEW S, IsFiniteSet(S), Members(q) \subseteq S
  PROVE  /\ IsEmpty(q) <=> Members(q) = {}
         /\ q.len =< Cardinality(S)
<1>1. q.len \in Nat
  BY ContentsSeq
<1>2. IsEmpty(q) <=> Members(q) = {}
  <2>1. IsEmpty(q) => Members(q) = {}
    BY <1>1 DEF IsEmpty, Members
  <2>2. ~IsEmpty(q) => Contents(q)[1] \in Members(q)
    BY <1>1 DEF IsEmpty, Members
  <2> QED  BY <2>1, <2>2
<1>3. Contents(q) \in [1 .. q.len -> S]
  BY DEF Members, Contents
<1>4. q.len =< Cardinality(S)
  BY <1>1, <1>3, AtMostAll DEF Once
<1> QED  BY <1>2, <1>4

-----------------------------------------------------------------------------
(* The scheduler.                                                          *)

ObjectOK(o) == o.kind = "Endpoint" => o \in {EpObject(e) : e \in Endpoints}

\* The types of the endpoints and the tables; handles are in the past.
IpcOK ==
  /\ ep_arena.generation \in [EpSlots -> 0 .. GenModulus - 1]
  /\ ep_arena.next_free \in [EpSlots -> EpSlots \cup {None}]
  /\ ep_arena.free_head \in EpSlots \cup {None}
  /\ DOMAIN states = EpSlots
  /\ \A s \in EpSlots : states[s].cap # NoCap => ObjectOK(states[s].cap.object)
  /\ slot_generations \in [EpSlots -> 0 .. GenModulus - 1]
  /\ DOMAIN tables = Tasks
  /\ \A c \in Tasks : \A h \in DOMAIN tables[c] :
       h \in 0 .. next_cap - 1 /\ ObjectOK(tables[c][h].object)
  /\ next_cap \in Nat

TaskStates == [st : {"Idle", "Ready", "Blocked"}, on : Endpoints \cup {NoEp}]
ReadyIn(ts) == {t \in Tasks : ts[t].st = "Ready"}
Normal(ts) == ts \in [Tasks -> TaskStates] /\ \A t \in ReadyIn(ts) : ts[t] = ReadyTask

\* q holds exactly the tasks of S, each once.
Queues1(q, S) == q \in Queues(Tasks) /\ Once(q) /\ Members(q) = S

\* The queue holds the ready tasks except the running one; every task is
\* registered before the start and none blocks before it.
SchedOK ==
  /\ Normal(task_states)
  /\ Queues1(ready, ReadyIn(task_states) \ {current})
  /\ started \in BOOLEAN /\ panicked = FALSE
  /\ IF started THEN current \in Tasks /\ task_states[current] = ReadyTask
                     /\ \A t \in Tasks : task_states[t].st # "Idle"
     ELSE current = NoTask /\ \A t \in Tasks : ~IsBlocked(t)

\* Blocked tasks are inside ipc_recv_and_yield, and wait at a live endpoint
\* of their own.
WaitOK ==
  /\ resuming \in [Tasks -> BOOLEAN] /\ DOMAIN wait_cap = Tasks
  /\ \A t \in Tasks : IsBlocked(t) => resuming[t]
  /\ WaiterRegistered /\ SingleWaiter /\ WaitCapValid

IInv == IpcOK /\ SchedOK /\ WaitOK

-----------------------------------------------------------------------------
(* Endpoints.                                                              *)

\* Two live endpoints do not share a slot.
LEMMA LiveUnique ==
  ASSUME NEW e \in LiveEndpoints, NEW f \in LiveEndpoints, e.index = f.index
  PROVE  e = f
BY DEF LiveEndpoints, Endpoints, Contains

\* Setting the state of a live endpoint leaves the others alone.
LEMMA SetStateEffect ==
  ASSUME IpcOK, NEW e \in LiveEndpoints, NEW s, SetState(e, s)
  PROVE  /\ DOMAIN states' = EpSlots
         /\ \A i \in EpSlots : i # e.index => states'[i] = states[i]
         /\ states'[e.index] = s
         /\ slot_generations' \in [EpSlots -> 0 .. GenModulus - 1]
         /\ StateOf(e)' = s
         /\ \A f \in LiveEndpoints : f # e => StateOf(f)' = StateOf(f)
<1>1. e.index \in EpSlots /\ e.generation \in 0 .. GenModulus - 1
  BY DEF LiveEndpoints, Endpoints
<1>2. /\ DOMAIN states' = EpSlots
      /\ \A i \in EpSlots : i # e.index => states'[i] = states[i]
      /\ states'[e.index] = s
      /\ slot_generations' \in [EpSlots -> 0 .. GenModulus - 1]
      /\ \A i \in EpSlots : i # e.index => slot_generations'[i] = slot_generations[i]
      /\ slot_generations'[e.index] = e.generation
  BY <1>1 DEF IpcOK, SetState
<1>3. StateOf(e)' = s
  BY <1>2 DEF StateOf, Stale
<1>4. ASSUME NEW f \in LiveEndpoints, f # e
      PROVE  StateOf(f)' = StateOf(f)
  <2>1. f.index # e.index /\ f.index \in EpSlots
    BY <1>4, LiveUnique DEF LiveEndpoints, Endpoints
  <2> QED  BY <1>2, <2>1 DEF StateOf, Stale
<1> QED  BY <1>2, <1>3, <1>4

\* A capability in flight that a live endpoint shows is well formed.
LEMMA CarriedOK ==
  ASSUME IpcOK, NEW e \in LiveEndpoints
  PROVE  StateOf(e).cap # NoCap => ObjectOK(StateOf(e).cap.object)
BY DEF IpcOK, StateOf, IdleState, State, LiveEndpoints, Endpoints

\* What ipc_send at endpoint e does: it changes the endpoint it is accepted
\* at, and the sender's table.
Sent(t, h, x, e) ==
  /\ IpcOK' /\ UNCHANGED ep_arena /\ UNCHANGED next_cap
  /\ \A c \in Tasks : c # t => tables'[c] = tables[c]
  /\ SendOutcome(t, h, x) \in Accepted => e \in LiveEndpoints
  /\ SendOutcome(t, h, x) = "Delivered" =>
       StateOf(e).kind = "RecvWaiting" /\ StateOf(e)'.kind = "RecvComplete"
  /\ SendOutcome(t, h, x) = "Enqueued" =>
       StateOf(e).kind # "RecvWaiting" /\ StateOf(e)'.kind = "SendPending"
  /\ \A f \in LiveEndpoints :
       ~(SendOutcome(t, h, x) \in Accepted /\ f = e) => StateOf(f)' = StateOf(f)

\* ipc_send has that effect.
LEMMA SendEffect ==
  ASSUME IpcOK, NEW t \in Tasks, NEW h \in DOMAIN tables[t],
         NEW x \in DOMAIN tables[t] \cup {NoHandle}, NEW m, IpcSend(t, h, m, x),
         NEW e, e = Ep(t, h)
  PROVE  Sent(t, h, x, e)
<1> USE DEF Sent
<1>1. UNCHANGED ep_arena /\ UNCHANGED next_cap
  BY DEF IpcSend
<1>2. /\ DOMAIN tables' = Tasks
      /\ \A c \in Tasks : c # t => tables'[c] = tables[c]
      /\ \A g \in DOMAIN tables'[t] : g \in DOMAIN tables[t] /\ tables'[t][g] = tables[t][g]
  BY DEF IpcSend, Without, IpcOK
<1>3. CASE SendCheck(t, h, x) # "Ok"
  <2>1. UNCHANGED <<states, slot_generations>>
    BY <1>3 DEF IpcSend
  <2>2. SendOutcome(t, h, x) \notin Accepted /\ SendOutcome(t, h, x) \notin {"Delivered", "Enqueued"}
    BY <1>3 DEF SendOutcome, SendCheck, Accepted
  <2>3. IpcOK'
    BY <1>1, <1>2, <2>1 DEF IpcOK
  <2>4. \A f \in LiveEndpoints : StateOf(f)' = StateOf(f)
    BY <2>1 DEF StateOf, Stale
  <2> QED  BY <1>1, <1>2, <2>2, <2>3, <2>4
<1>4. CASE SendCheck(t, h, x) = "Ok"
  <2>1. e \in LiveEndpoints
    <3>1. ValidEp(t, h, "SEND") /\ Contains(ep_arena, e)
      BY <1>4 DEF SendCheck
    <3> QED  BY <3>1 DEF ValidEp, IpcOK, ObjectOK, EpObject, Ep, LiveEndpoints
  <2> DEFINE out == SendOutcome(t, h, x)
             s == IF out = "Delivered" THEN State("RecvComplete", m, Carried(t, x))
                  ELSE IF out = "Enqueued" THEN State("SendPending", m, Carried(t, x))
                  ELSE StateOf(e)
  <2>2. SetState(e, s)
    BY <1>4, Zenon DEF IpcSend
  <2>3. s.cap # NoCap => ObjectOK(s.cap.object)
    <3>1. Carried(t, x) # NoCap => ObjectOK(Carried(t, x).object)
      BY DEF Carried, IpcOK
    <3> QED  BY <2>1, <3>1, CarriedOK DEF State
  <2>4. /\ out = "Delivered" => StateOf(e).kind = "RecvWaiting" /\ s.kind = "RecvComplete"
        /\ out = "Enqueued" => StateOf(e).kind # "RecvWaiting" /\ s.kind = "SendPending"
        /\ out \notin Accepted => s = StateOf(e)
    BY <1>4 DEF SendOutcome, Accepted, State
  <2> HIDE DEF s, out
  <2>5. /\ DOMAIN states' = EpSlots
        /\ \A i \in EpSlots : i # e.index => states'[i] = states[i]
        /\ states'[e.index] = s
        /\ slot_generations' \in [EpSlots -> 0 .. GenModulus - 1]
        /\ StateOf(e)' = s
        /\ \A f \in LiveEndpoints : f # e => StateOf(f)' = StateOf(f)
    BY <2>1, <2>2, SetStateEffect
  <2>6. IpcOK'
    BY <1>1, <1>2, <2>3, <2>5, Zenon DEF IpcOK
  <2> QED  BY <1>1, <1>2, <2>1, <2>4, <2>5, <2>6 DEF out
<1> QED  BY <1>3, <1>4

\* What ipc_recv at endpoint e does: it changes the endpoint it collects from
\* or registers at, and may add a capability to the receiver's table.
Received(t, h, e) ==
  /\ IpcOK' /\ UNCHANGED ep_arena
  /\ \A c \in Tasks : c # t => tables'[c] = tables[c]
  /\ RecvResult(t, h) = "Pending" =>
       /\ RecvCheck(t, h) = "Ok" /\ e \in LiveEndpoints /\ UNCHANGED tables
       /\ StateOf(e).kind = "Idle" /\ StateOf(e)'.kind = "RecvWaiting"
  /\ \A f \in LiveEndpoints :
       \/ StateOf(f)' = StateOf(f)
       \/ f = e /\ StateOf(f).kind # "RecvWaiting" /\ RecvCheck(t, h) = "Ok"

\* ipc_recv has that effect.
LEMMA RecvEffect ==
  ASSUME IpcOK, NEW t \in Tasks, NEW h, IpcRecv(t, h), NEW e, e = Ep(t, h)
  PROVE  Received(t, h, e)
<1> USE DEF Received
<1>1. UNCHANGED ep_arena
  BY DEF IpcRecv
<1>2. CASE RecvCheck(t, h) # "Ok"
  <2>1. RecvOutcome(t, h) = "InvalidCapability" /\ RecvResult(t, h) = "InvalidCapability"
    BY <1>2 DEF RecvOutcome, RecvCheck, RecvResult, Lost
  <2>2. UNCHANGED <<states, slot_generations, tables, next_cap>>
    BY <1>2, <2>1 DEF IpcRecv
  <2>3. IpcOK'
    BY <1>1, <2>2 DEF IpcOK
  <2>4. \A f \in LiveEndpoints : StateOf(f)' = StateOf(f)
    BY <2>2 DEF StateOf, Stale
  <2>5. RecvResult(t, h) # "Pending"
    BY <2>1
  <2> QED  BY <1>1, <2>2, <2>3, <2>4, <2>5, Zenon
<1>3. CASE RecvCheck(t, h) = "Ok"
  <2>1. e \in LiveEndpoints
    <3>1. ValidEp(t, h, "RECV") /\ Contains(ep_arena, e)
      BY <1>3 DEF RecvCheck
    <3> QED  BY <3>1 DEF ValidEp, Has, IpcOK, ObjectOK, EpObject, Ep, LiveEndpoints
  <2> DEFINE out == RecvOutcome(t, h)
             installs == RecvResult(t, h) = "Received" /\ StateOf(e).cap # NoCap
             s == IF out = "Received" THEN IdleState
                  ELSE IF out = "Pending" THEN State("RecvWaiting", 0, NoCap)
                  ELSE StateOf(e)
  <2>2. /\ SetState(e, s)
        /\ tables' = IF installs THEN [tables EXCEPT ![t] = WithRoot(@, next_cap, StateOf(e).cap)]
                     ELSE tables
        /\ next_cap' = IF installs THEN next_cap + 1 ELSE next_cap
    BY <1>3, Zenon DEF IpcRecv
  <2>3. s.cap # NoCap => ObjectOK(s.cap.object)
    BY <2>1, CarriedOK DEF State, IdleState
  <2>4. /\ RecvResult(t, h) = "Pending" =>
             out = "Pending" /\ ~installs /\ StateOf(e).kind = "Idle" /\ s.kind = "RecvWaiting"
        /\ s = StateOf(e) \/ StateOf(e).kind # "RecvWaiting"
    BY <1>3, Zenon DEF RecvOutcome, RecvResult, State, Lost, Holding
  <2>5. installs => ObjectOK(StateOf(e).cap.object)
    BY <2>1, CarriedOK
  <2> HIDE DEF s, out, installs
  <2>6. /\ DOMAIN states' = EpSlots
        /\ \A i \in EpSlots : i # e.index => states'[i] = states[i]
        /\ states'[e.index] = s
        /\ slot_generations' \in [EpSlots -> 0 .. GenModulus - 1]
        /\ StateOf(e)' = s
        /\ \A f \in LiveEndpoints : f # e => StateOf(f)' = StateOf(f)
    BY <2>1, <2>2, SetStateEffect
  <2>7. /\ DOMAIN tables' = Tasks /\ next_cap' \in Nat
        /\ \A c \in Tasks : c # t => tables'[c] = tables[c]
        /\ \A c \in Tasks : \A g \in DOMAIN tables'[c] :
             g \in 0 .. next_cap' - 1 /\ ObjectOK(tables'[c][g].object)
    <3>1. CASE ~installs
      BY <2>2, <3>1 DEF IpcOK
    <3>2. CASE installs
      <4> DEFINE w == WithRoot(tables[t], next_cap, StateOf(e).cap)
      <4>1. /\ DOMAIN tables' = Tasks /\ tables'[t] = w /\ next_cap' = next_cap + 1
            /\ \A c \in Tasks : c # t => tables'[c] = tables[c]
        BY <2>2, <3>2 DEF IpcOK
      <4>2. \A g \in DOMAIN w : \/ g \in DOMAIN tables[t] /\ w[g].object = tables[t][g].object
                                \/ g = next_cap /\ w[g].object = StateOf(e).cap.object
        BY <3>2, Zenon DEF WithRoot, IpcOK
      <4> HIDE DEF w
      <4>3. next_cap \in Nat /\ next_cap' \in Nat
        BY <4>1 DEF IpcOK
      <4>4. ASSUME NEW c \in Tasks, NEW g \in DOMAIN tables'[c]
            PROVE  g \in 0 .. next_cap' - 1 /\ ObjectOK(tables'[c][g].object)
        <5>1. CASE c = t
          BY <2>5, <3>2, <4>1, <4>2, <4>3, <5>1 DEF IpcOK, ObjectOK
        <5>2. CASE c # t
          BY <4>1, <4>3, <5>2 DEF IpcOK
        <5> QED  BY <5>1, <5>2
      <4> QED  BY <4>1, <4>3, <4>4
    <3> QED  BY <3>1, <3>2
  <2>8. IpcOK'
    BY <1>1, <2>3, <2>6, <2>7 DEF IpcOK
  <2>9. RecvResult(t, h) = "Pending" => tables' = tables
    BY <2>2, <2>4
  <2>10. RecvResult(t, h) = "Pending" => StateOf(e).kind = "Idle" /\ StateOf(e)'.kind = "RecvWaiting"
    BY <2>4, <2>6
  <2>11. \A f \in LiveEndpoints : StateOf(f)' = StateOf(f) \/ (f = e /\ StateOf(f).kind # "RecvWaiting")
    BY <2>4, <2>6
  <2> QED  BY <1>1, <1>3, <2>1, <2>7, <2>8, <2>9, <2>10, <2>11, Zenon
<1> QED  BY <1>2, <1>3

-----------------------------------------------------------------------------
(* The ready queue.                                                        *)

\* The tasks are finitely many, as many as the queue has cells.
LEMMA TasksCount == IsFiniteSet(Tasks) /\ Cardinality(Tasks) = QueueCapacity
<1>1. QueueCapacity \in Nat \ {0} /\ Tasks = 0 .. QueueCapacity - 1
  BY QueueCapacityAssumption, TasksFit
<1>2. /\ IsFiniteSet(0 .. QueueCapacity - 1)
      /\ Cardinality(0 .. QueueCapacity - 1)
           = IF 0 > QueueCapacity - 1 THEN 0 ELSE QueueCapacity - 1 - 0 + 1
  BY <1>1, FS_Interval
<1> QED  BY <1>1, <1>2

\* A queue that lacks a task has room for it.
LEMMA RoomForOne ==
  ASSUME NEW S \in SUBSET Tasks, NEW t \in Tasks, t \notin S, NEW q, Queues1(q, S)
  PROVE  ~IsFull(q)
<1>1. IsFiniteSet(Tasks \ {t}) /\ Cardinality(Tasks \ {t}) = QueueCapacity - 1
  BY TasksCount, FS_RemoveElement
<1>2. q.len =< QueueCapacity - 1 /\ q.len \in Nat
  BY <1>1, MembersCount, ContentsSeq DEF Queues1
<1> QED  BY <1>2, QueueCapacityAssumption DEF IsFull

\* Enqueuing a task that is not there succeeds.
LEMMA EnqueueTask ==
  ASSUME NEW S \in SUBSET Tasks, NEW t \in Tasks, t \notin S, NEW q, Queues1(q, S)
  PROVE  /\ ~IsFull(q) /\ Queues1(Enqueue(q, t), S \cup {t})
         /\ \A u \in S : Ahead(Enqueue(q, t), u, t)
         /\ \A u, v : Ahead(q, u, v) => Ahead(Enqueue(q, t), u, v)
<1>1. ~IsFull(q)
  BY RoomForOne
<1>2. q \in Queues(Tasks) /\ Members(q) \subseteq Tasks /\ Once(q) /\ t \in Tasks \ Members(q)
  BY DEF Queues1
<1> QED  BY <1>1, <1>2, EnqueueMembers DEF Queues1

\* Dequeuing from a queue with members takes one that was behind nobody.
LEMMA DequeueTask ==
  ASSUME NEW S \in SUBSET Tasks, NEW q, Queues1(q, S)
  PROVE  /\ IsEmpty(q) <=> S = {}
         /\ S # {} => /\ Front(q) \in S /\ Queues1(Dequeue(q), S \ {Front(q)})
                      /\ \A u, v : Ahead(q, u, v) => v # Front(q)
                      /\ \A u, v : Ahead(q, u, v) /\ u # Front(q) => Ahead(Dequeue(q), u, v)
<1>1. q \in Queues(Tasks) /\ Members(q) \subseteq Tasks /\ Once(q) /\ Members(q) = S
  BY DEF Queues1
<1>2. IsEmpty(q) <=> S = {}
  BY <1>1, TasksCount, MembersCount
<1> QED  BY <1>1, <1>2, DequeueMembers DEF Queues1

\* yield_now on a sound queue: there is room for the caller, and the task at
\* the front is a ready one.
LEMMA NextTask ==
  ASSUME NEW t \in Tasks, NEW q, NEW ts, Normal(ts), ts[t] = ReadyTask,
         Queues1(q, ReadyIn(ts) \ {t}), NEW q1, q1 = Enqueue(q, t)
  PROVE  /\ ~IsFull(q) /\ Front(q1) \in Tasks /\ ts[Front(q1)] = ReadyTask
         /\ Queues1(q1, ReadyIn(ts))
         /\ Queues1(Dequeue(q1), ReadyIn(ts) \ {Front(q1)})
<1> DEFINE S == ReadyIn(ts)
<1>1. S \in SUBSET Tasks /\ t \in S
  BY DEF ReadyIn, ReadyTask, TaskState
<1>2. ~IsFull(q) /\ Queues1(q1, S)
  <2>1. (S \ {t}) \cup {t} = S /\ S \ {t} \in SUBSET Tasks
    BY <1>1
  <2> HIDE DEF S
  <2>2. ~IsFull(q) /\ Queues1(q1, (S \ {t}) \cup {t})
    BY <2>1, EnqueueTask DEF S
  <2> QED  BY <2>1, <2>2
<1>3. Front(q1) \in S /\ Queues1(Dequeue(q1), S \ {Front(q1)})
  BY <1>1, <1>2, DequeueTask, Zenon
<1>4. ts[Front(q1)] = ReadyTask /\ Front(q1) \in Tasks
  BY <1>1, <1>3 DEF Normal
<1> QED  BY <1>2, <1>3, <1>4

\* The order of the queue survives a yield, and the caller comes last.
LEMMA YieldOrder ==
  ASSUME NEW S \in SUBSET Tasks, NEW c \in Tasks, c \notin S, NEW q, Queues1(q, S),
         NEW q1, q1 = Enqueue(q, c), NEW v, NEW u, Ahead(q, v, u) \/ (v \in S /\ u = c)
  PROVE  Front(q1) = v \/ Ahead(Dequeue(q1), v, u)
<1>1. Queues1(q1, S \cup {c}) /\ Ahead(q1, v, u)
  BY EnqueueTask, Zenon
<1>2. S \cup {c} \in SUBSET Tasks /\ S \cup {c} # {}
  OBVIOUS
<1>3. PICK S1 : S1 = S \cup {c}
  BY Zenon
<1> QED  BY <1>1, <1>2, <1>3, DequeueTask, Zenon

-----------------------------------------------------------------------------
(* Waiting tasks.                                                          *)

\* A waiting task's capability names a live endpoint.
LEMMA WaitsAtLive ==
  ASSUME IpcOK, WaitOK, NEW t \in Tasks, resuming[t]
  PROVE  /\ Has(t, wait_cap[t]) /\ Ep(t, wait_cap[t]) \in LiveEndpoints
         /\ tables[t][wait_cap[t]].object = EpObject(Ep(t, wait_cap[t]))
         /\ "RECV" \in tables[t][wait_cap[t]].rights
<1>1. RecvCheck(t, wait_cap[t]) = "Ok"
  BY DEF WaitOK, WaitCapValid
<1>2. ValidEp(t, wait_cap[t], "RECV") /\ Contains(ep_arena, Ep(t, wait_cap[t]))
  BY <1>1 DEF RecvCheck
<1>3. /\ Has(t, wait_cap[t]) /\ "RECV" \in tables[t][wait_cap[t]].rights
      /\ tables[t][wait_cap[t]].object.kind = "Endpoint"
  BY <1>2, Zenon DEF ValidEp
<1>4. ObjectOK(tables[t][wait_cap[t]].object)
  BY <1>3, Zenon DEF IpcOK, Has
<1>5. PICK e \in Endpoints : tables[t][wait_cap[t]].object = EpObject(e)
  BY <1>3, <1>4, Zenon DEF ObjectOK
<1>6. Ep(t, wait_cap[t]) = e
  BY <1>5 DEF Ep, EpObject
<1> QED  BY <1>2, <1>3, <1>5, <1>6, Zenon DEF LiveEndpoints

\* A step keeps the waiting tasks sound if it blocks nobody, keeps the
\* capability of every task that goes on waiting and the endpoint it names,
\* and leaves that endpoint's waiter registered while the task is blocked.
LEMMA WaitShrinks ==
  ASSUME IpcOK, WaitOK, resuming' \in [Tasks -> BOOLEAN], DOMAIN wait_cap' = Tasks,
         \A t \in Tasks : IsBlocked(t)' => task_states'[t] = task_states[t] /\ resuming'[t],
         \A t \in Tasks : resuming'[t] =>
           /\ resuming[t] /\ wait_cap'[t] = wait_cap[t]
           /\ wait_cap[t] \in DOMAIN tables'[t]
           /\ tables'[t][wait_cap[t]] = tables[t][wait_cap[t]]
           /\ Contains(ep_arena', Ep(t, wait_cap[t])),
         \A t \in Tasks : IsBlocked(t)' =>
           StateOf(task_states[t].on)'.kind = StateOf(task_states[t].on).kind
  PROVE  WaitOK'
<1>1. \A t \in Tasks : IsBlocked(t)' =>
        /\ task_states'[t] = task_states[t] /\ IsBlocked(t) /\ resuming'[t] /\ resuming[t]
        /\ task_states[t].on = Ep(t, wait_cap[t])
  BY Zenon DEF IsBlocked, WaitOK, WaitCapValid
<1>2. WaiterRegistered'
  <2> SUFFICES ASSUME NEW t \in Tasks, IsBlocked(t)'
               PROVE  /\ task_states'[t].on \in LiveEndpoints'
                      /\ StateOf(task_states[t].on)'.kind = "RecvWaiting"
    BY <1>1, Zenon DEF WaiterRegistered
  <2>1. task_states[t].on \in LiveEndpoints /\ StateOf(task_states[t].on).kind = "RecvWaiting"
    BY <1>1, Zenon DEF WaitOK, WaiterRegistered
  <2>2. task_states'[t].on \in LiveEndpoints'
    <3>1. /\ task_states'[t] = task_states[t] /\ task_states[t].on = Ep(t, wait_cap[t])
          /\ Contains(ep_arena', Ep(t, wait_cap[t]))
      BY <1>1, Zenon
    <3>2. task_states[t].on \in Endpoints
      BY <2>1, Zenon DEF LiveEndpoints
    <3>3. PICK f : f = task_states[t].on
      BY Zenon
    <3>4. f \in Endpoints /\ Contains(ep_arena', f) /\ task_states'[t].on = f
      BY <3>1, <3>2, <3>3, Zenon
    <3>5. f \in LiveEndpoints'
      BY <3>4, Zenon DEF LiveEndpoints
    <3> QED  BY <3>4, <3>5, Zenon
  <2> QED  BY <2>1, <2>2, Zenon
<1>3. SingleWaiter'
  BY <1>1 DEF WaitOK, SingleWaiter
<1>4. WaitCapValid'
  <2> SUFFICES ASSUME NEW t \in Tasks, resuming'[t]
               PROVE  /\ RecvCheck(t, wait_cap[t])' = "Ok"
                      /\ IsBlocked(t)' => Ep(t, wait_cap[t])' = task_states'[t].on
    BY Zenon DEF WaitCapValid
  <2>1. /\ Has(t, wait_cap[t]) /\ Ep(t, wait_cap[t]) \in LiveEndpoints
        /\ tables[t][wait_cap[t]].object = EpObject(Ep(t, wait_cap[t]))
        /\ "RECV" \in tables[t][wait_cap[t]].rights
    BY WaitsAtLive, Zenon
  <2>2. Ep(t, wait_cap[t])' = Ep(t, wait_cap[t])
    BY Zenon DEF Ep
  <2>3. RecvCheck(t, wait_cap[t])' = "Ok"
    <3>1. /\ wait_cap'[t] = wait_cap[t] /\ wait_cap[t] \in DOMAIN tables'[t]
          /\ tables'[t][wait_cap[t]] = tables[t][wait_cap[t]]
          /\ Contains(ep_arena', Ep(t, wait_cap[t]))
      BY Zenon
    <3>2. EpObject(Ep(t, wait_cap[t])).kind = "Endpoint"
      BY DEF EpObject
    <3>3. ValidEp(t, wait_cap[t], "RECV")'
      <4>1. Has(t, wait_cap[t])'
        BY <3>1, Zenon DEF Has
      <4>2. tables'[t][wait_cap'[t]] = tables[t][wait_cap[t]]
        BY <3>1, Zenon
      <4>3. "RECV" \in tables'[t][wait_cap'[t]].rights
        BY <2>1, <4>2, Zenon
      <4>4. tables'[t][wait_cap'[t]].object.kind = "Endpoint"
        BY <2>1, <3>2, <4>2, Zenon
      <4> QED  BY <4>1, <4>3, <4>4, Zenon DEF ValidEp
    <3> QED  BY <2>2, <3>1, <3>3, Zenon DEF RecvCheck
  <2> QED  BY <1>1, <2>2, <2>3, Zenon
<1> QED  BY <1>1, <1>2, <1>3, <1>4, Zenon DEF WaitOK

\* Steps that leave the tables, the endpoints and the suspended calls alone.
LEMMA WaitSame ==
  ASSUME IpcOK, WaitOK, UNCHANGED <<ipc_vars, resuming, wait_cap>>,
         \A t \in Tasks : IsBlocked(t)' => task_states'[t] = task_states[t]
  PROVE  IpcOK' /\ WaitOK'
<1>1. IpcOK'
  BY Zenon DEF IpcOK, ipc_vars
<1>2. /\ resuming' \in [Tasks -> BOOLEAN] /\ DOMAIN wait_cap' = Tasks
      /\ \A t \in Tasks : IsBlocked(t)' => task_states'[t] = task_states[t] /\ resuming'[t]
  BY DEF WaitOK, IsBlocked
<1>3. \A t \in Tasks : resuming'[t] =>
           /\ resuming[t] /\ wait_cap'[t] = wait_cap[t]
           /\ wait_cap[t] \in DOMAIN tables'[t]
           /\ tables'[t][wait_cap[t]] = tables[t][wait_cap[t]]
           /\ Contains(ep_arena', Ep(t, wait_cap[t]))
  BY WaitsAtLive, Zenon DEF ipc_vars, Has, LiveEndpoints
<1>4. \A t \in Tasks : IsBlocked(t)' =>
           StateOf(task_states[t].on)'.kind = StateOf(task_states[t].on).kind
  BY Zenon DEF StateOf, Stale, ipc_vars
<1> QED  BY <1>1, <1>2, <1>3, <1>4, WaitShrinks, Zenon

-----------------------------------------------------------------------------
(* The steps.                                                              *)

\* The initial state.
LEMMA InitIInv == Init => IInv
<1> SUFFICES ASSUME Init PROVE IInv
  OBVIOUS
<1>1. IpcOK
  <2>1. 0 \in 0 .. GenModulus - 1
    BY GenAssumption
  <2>2. \A s \in EpSlots : states[s].cap = NoCap
    BY Zenon DEF Init, IdleState, State
  <2>3. /\ ep_arena.generation = [s \in EpSlots |-> 0] /\ ep_arena.free_head = None
        /\ ep_arena.next_free = [s \in EpSlots |-> None]
    BY DEF Init
  <2>4. /\ DOMAIN tables = Tasks /\ next_cap \in Nat
        /\ \A c \in Tasks : \A h \in DOMAIN tables[c] :
             h \in 0 .. next_cap - 1 /\ ObjectOK(tables[c][h].object)
    BY TablesAssumption, FreshAssumption, Zenon DEF Init, ObjectOK
  <2> QED  BY <2>1, <2>2, <2>3, <2>4, Zenon DEF Init, IpcOK
<1>2. SchedOK
  <2>1. \A t \in Tasks : task_states[t] = TaskState("Idle", NoEp)
    BY DEF Init
  <2>2. Normal(task_states) /\ ReadyIn(task_states) = {} /\ \A t \in Tasks : ~IsBlocked(t)
    BY <2>1 DEF Init, Normal, ReadyIn, TaskState, TaskStates, IsBlocked
  <2>3. NewQueue \in Queues(Tasks) /\ NewQueue.len = 0
    BY QueueCapacityAssumption DEF NewQueue, Queues, Cells
  <2>4. Once(NewQueue) /\ Members(NewQueue) = {}
    BY <2>3 DEF Once, Members
  <2>5. Queues1(ready, {})
    BY <2>3, <2>4, Zenon DEF Init, Queues1
  <2> QED  BY <2>2, <2>5, Zenon DEF Init, SchedOK
<1>3. WaitOK
  BY Zenon DEF Init, WaitOK, WaiterRegistered, SingleWaiter, WaitCapValid, IsBlocked, TaskState
<1> QED  BY <1>1, <1>2, <1>3 DEF IInv

\* add_task finds room in the queue.
LEMMA AddTaskInv ==
  ASSUME IInv, NEW t \in Tasks, AddTask(t)
  PROVE  IInv'
<1> DEFINE S == ReadyIn(task_states)
<1>1. /\ ~started /\ current = NoTask /\ NoTask \notin Tasks /\ \A u \in Tasks : ~IsBlocked(u)
      /\ task_states[t].st = "Idle" /\ S \in SUBSET Tasks /\ t \notin S
  BY TasksFit DEF IInv, SchedOK, AddTask, ReadyIn
<1>2. Queues1(ready, S)
  <2>1. S \ {current} = S
    BY <1>1
  <2> QED  BY <2>1, Zenon DEF IInv, SchedOK
<1>3. ~IsFull(ready) /\ Queues1(Enqueue(ready, t), S \cup {t})
  BY <1>1, <1>2, EnqueueTask, Zenon
<1>4. /\ ready' = Enqueue(ready, t) /\ UNCHANGED <<current, panicked, started>>
      /\ task_states' = [task_states EXCEPT ![t] = ReadyTask]
      /\ UNCHANGED <<ipc_vars, resuming, wait_cap>>
  BY <1>3 DEF AddTask
<1>5. task_states \in [Tasks -> TaskStates] /\ ReadyTask \in TaskStates /\ ReadyTask.st = "Ready"
  BY DEF IInv, SchedOK, Normal, ReadyTask, TaskState, TaskStates
<1>6. Normal(task_states') /\ ReadyIn(task_states') = S \cup {t}
  BY <1>4, <1>5 DEF Normal, ReadyIn, IInv, SchedOK
<1>7. \A u \in Tasks : ~IsBlocked(u)'
  BY <1>1, <1>4, <1>5 DEF IsBlocked
<1>8. SchedOK'
  <2>1. (S \cup {t}) \ {current'} = S \cup {t}
    BY <1>1, <1>4
  <2> HIDE DEF S
  <2> QED  BY <1>1, <1>3, <1>4, <1>6, <1>7, <2>1, Zenon DEF IInv, SchedOK
<1>9. IpcOK' /\ WaitOK'
  BY <1>4, <1>7, WaitSame DEF IInv
<1> QED  BY <1>8, <1>9 DEF IInv

\* start finds a task to run.
LEMMA StartInv ==
  ASSUME IInv, Start
  PROVE  IInv'
<1> DEFINE S == ReadyIn(task_states)
<1>1. /\ ~started /\ current = NoTask /\ NoTask \notin Tasks /\ \A u \in Tasks : ~IsBlocked(u)
      /\ \A u \in Tasks : task_states[u].st # "Idle"
      /\ task_states \in [Tasks -> TaskStates] /\ Normal(task_states)
  BY TasksFit, Zenon DEF IInv, SchedOK, Start, Normal
<1>2. S = Tasks /\ S # {}
  <2>1. 0 \in Tasks
    BY TasksFit, QueueCapacityAssumption
  <2> QED  BY <1>1, <2>1 DEF ReadyIn, IsBlocked, TaskStates
<1>3. Queues1(ready, S)
  <2>1. S \ {current} = S
    BY <1>1, <1>2
  <2> QED  BY <2>1 DEF IInv, SchedOK
<1>4. ~IsEmpty(ready) /\ Front(ready) \in S /\ Queues1(Dequeue(ready), S \ {Front(ready)})
  BY <1>2, <1>3, DequeueTask, Zenon
<1>5. /\ ready' = Dequeue(ready) /\ current' = Front(ready)
      /\ started' = TRUE /\ UNCHANGED panicked
      /\ task_states' = [task_states EXCEPT ![Front(ready)] = ReadyTask]
      /\ UNCHANGED <<ipc_vars, resuming, wait_cap>>
  BY <1>4 DEF Start
<1>6. task_states[Front(ready)] = ReadyTask /\ task_states' = task_states
  BY <1>1, <1>2, <1>4, <1>5 DEF Normal
<1>7. SchedOK'
  <2> HIDE DEF S
  <2>1. /\ started' = TRUE /\ current' \in Tasks /\ task_states'[current'] = ReadyTask
        /\ \A u \in Tasks : task_states'[u].st # "Idle"
    BY <1>1, <1>2, <1>4, <1>5, <1>6
  <2>2. Queues1(ready', S \ {current'}) /\ ReadyIn(task_states') = S
    BY <1>4, <1>5, <1>6 DEF S
  <2> QED  BY <1>1, <1>5, <1>6, <2>1, <2>2, Zenon DEF IInv, SchedOK
<1>8. IpcOK' /\ WaitOK'
  BY <1>5, <1>6, WaitSame DEF IInv
<1> QED  BY <1>7, <1>8 DEF IInv

\* What is known while task t runs.
LEMMA RunningTask ==
  ASSUME IInv, NEW t \in Tasks, started, current = t
  PROVE  /\ started = TRUE /\ panicked = FALSE /\ task_states[t] = ReadyTask
         /\ ~IsBlocked(t) /\ Normal(task_states)
         /\ Queues1(ready, ReadyIn(task_states) \ {t})
         /\ \A u \in Tasks : task_states[u].st # "Idle"
<1>1. started = TRUE /\ panicked = FALSE /\ task_states[t] = ReadyTask
  BY DEF IInv, SchedOK
<1>2. ~IsBlocked(t)
  BY <1>1 DEF IsBlocked, ReadyTask, TaskState
<1> QED  BY <1>1, <1>2, Zenon DEF IInv, SchedOK

\* What yield_now does: the caller goes to the end of the queue, the task at
\* the front runs.
LEMMA YieldEffect ==
  ASSUME IInv, NEW t \in Tasks, started, current = t, Yield(t, ready, task_states)
  PROVE  /\ UNCHANGED panicked /\ task_states' = task_states
         /\ current' \in Tasks /\ task_states[current'] = ReadyTask
         /\ Queues1(ready', ReadyIn(task_states) \ {current'})
         /\ \A v, u : Ahead(ready, v, u) => current' = v \/ Ahead(ready', v, u)
<1>1. /\ task_states[t] = ReadyTask /\ Normal(task_states)
      /\ Queues1(ready, ReadyIn(task_states) \ {t})
  BY RunningTask, Zenon
<1>2. PICK q1 : q1 = Enqueue(ready, t)
  OBVIOUS
<1>3. /\ ~IsFull(ready) /\ Front(q1) \in Tasks /\ task_states[Front(q1)] = ReadyTask
      /\ Queues1(Dequeue(q1), ReadyIn(task_states) \ {Front(q1)})
  BY <1>1, <1>2, NextTask, Zenon
<1>4. [task_states EXCEPT ![t] = ReadyTask, ![Front(q1)] = ReadyTask] = task_states
  BY <1>1, <1>3 DEF Normal
<1>5. /\ ready' = Dequeue(q1) /\ current' = Front(q1)
      /\ task_states' = task_states /\ UNCHANGED panicked
  BY <1>2, <1>3, <1>4 DEF Yield
<1>6. ASSUME NEW v, NEW u, Ahead(ready, v, u)
      PROVE  Front(q1) = v \/ Ahead(Dequeue(q1), v, u)
  <2>1. PICK S : S = ReadyIn(task_states) \ {t}
    BY Zenon
  <2>2. S \in SUBSET Tasks /\ t \notin S /\ Queues1(ready, S)
    BY <1>1, <2>1, Zenon DEF ReadyIn
  <2> QED  BY <1>2, <1>6, <2>2, YieldOrder
<1> QED  BY <1>3, <1>5, <1>6

\* yield_now.
LEMMA YieldInv ==
  ASSUME IInv, NEW t \in Tasks, YieldNow(t)
  PROVE  IInv'
<1>1. started /\ current = t /\ Yield(t, ready, task_states)
  BY DEF YieldNow, Running
<1>2. /\ started = TRUE /\ panicked = FALSE /\ Normal(task_states)
      /\ \A u \in Tasks : task_states[u].st # "Idle"
  BY <1>1, RunningTask, Zenon
<1>3. /\ UNCHANGED panicked /\ task_states' = task_states
      /\ current' \in Tasks /\ task_states[current'] = ReadyTask
      /\ Queues1(ready', ReadyIn(task_states) \ {current'})
  BY <1>1, YieldEffect
<1>4. UNCHANGED <<started, ipc_vars, resuming, wait_cap>>
  BY DEF YieldNow
<1>5. SchedOK'
  BY <1>2, <1>3, <1>4, Zenon DEF SchedOK
<1>6. IpcOK' /\ WaitOK'
  BY <1>3, <1>4, WaitSame DEF IInv
<1> QED  BY <1>5, <1>6 DEF IInv

\* The wake-up of a delivery: whoever was blocked on e is queued, and the
\* sender yields; no panic.
LEMMA UnblockEffect ==
  ASSUME IInv, NEW t \in Tasks, started, current = t, NEW e, UnblockAndYield(t, e),
         UNCHANGED started
  PROVE  /\ SchedOK'
         /\ \A u \in Tasks : IsBlocked(u)' =>
              task_states'[u] = task_states[u] /\ task_states[u].on # e
         /\ \A v, u : Ahead(ready, v, u) => current' = v \/ Ahead(ready', v, u)
         /\ \A w \in Tasks : IsBlocked(w) /\ ~IsBlocked(w)' =>
              task_states[w].on = e /\ (current' = w \/ Ahead(ready', w, t))
<1>1. /\ started = TRUE /\ panicked = FALSE /\ task_states[t] = ReadyTask /\ Normal(task_states)
      /\ Queues1(ready, ReadyIn(task_states) \ {t})
      /\ \A u \in Tasks : task_states[u].st # "Idle"
  BY RunningTask, Zenon
<1>2. \A u \in Tasks : IsBlocked(u) /\ task_states[u].on = e => u \in BlockedOn(e)
  BY <1>1, Zenon DEF BlockedOn, IsBlocked, TaskState, Normal, TaskStates
<1>3. CASE BlockedOn(e) = {}
  <2>1. Yield(t, ready, task_states)
    BY <1>3 DEF UnblockAndYield
  <2>2. /\ UNCHANGED panicked /\ task_states' = task_states
        /\ current' \in Tasks /\ task_states[current'] = ReadyTask
        /\ Queues1(ready', ReadyIn(task_states) \ {current'})
        /\ \A v, u : Ahead(ready, v, u) => current' = v \/ Ahead(ready', v, u)
    BY <2>1, YieldEffect
  <2>3. SchedOK'
    BY <1>1, <2>2, Zenon DEF SchedOK
  <2>4. \A u \in Tasks : IsBlocked(u)' => task_states'[u] = task_states[u] /\ task_states[u].on # e
    BY <1>2, <1>3, <2>2, Zenon DEF IsBlocked
  <2>5. \A u \in Tasks : IsBlocked(u)' = IsBlocked(u)
    BY <2>2, Zenon DEF IsBlocked
  <2> QED  BY <2>2, <2>3, <2>4, <2>5, Zenon
<1>4. CASE BlockedOn(e) # {}
  <2>1. PICK w \in BlockedOn(e) : TRUE
    BY <1>4
  <2>2. BlockedOn(e) = {w} /\ w \in Tasks /\ task_states[w] = TaskState("Blocked", e)
    BY <2>1 DEF BlockedOn, IsBlocked, TaskState, IInv, WaitOK, SingleWaiter
  <2>3. FirstBlocked(e) = w
    <3>1. w =< w
      BY <2>2, TasksFit
    <3> QED  BY <2>2, <3>1 DEF FirstBlocked
  <2> DEFINE S == ReadyIn(task_states)
             q == Enqueue(ready, w)
             ts == [task_states EXCEPT ![w] = ReadyTask]
  <2>4. w \notin S /\ w # t /\ S \ {t} \in SUBSET Tasks
    <3>1. TaskState("Blocked", e).st # "Ready" /\ ReadyTask # TaskState("Blocked", e)
      BY DEF TaskState, ReadyTask
    <3> QED  BY <1>1, <2>2, <3>1, Zenon DEF ReadyIn
  <2>5. ~IsFull(ready) /\ Queues1(q, (S \ {t}) \cup {w})
        /\ \A v, u : Ahead(ready, v, u) => Ahead(q, v, u)
    BY <1>1, <2>2, <2>4, EnqueueTask, Zenon
  <2>6. /\ ReadyTask \in TaskStates /\ ReadyTask.st = "Ready"
        /\ task_states \in [Tasks -> TaskStates]
    BY <1>1, Zenon DEF Normal, ReadyTask, TaskState, TaskStates
  <2>7. Normal(ts) /\ ReadyIn(ts) = S \cup {w} /\ ts[t] = ReadyTask
    BY <1>1, <2>2, <2>4, <2>6, Zenon DEF Normal, ReadyIn
  <2>8. Yield(t, q, ts)
    BY <1>4, <2>3, <2>5 DEF UnblockAndYield
  <2>9. Queues1(q, ReadyIn(ts) \ {t})
    <3>1. ReadyIn(ts) \ {t} = (S \ {t}) \cup {w}
      BY <2>4, <2>7, Zenon
    <3> QED  BY <2>5, <3>1, Zenon
  <2> HIDE DEF q, ts, S
  <2>10. /\ UNCHANGED panicked /\ task_states' = ts
         /\ current' \in Tasks /\ ts[current'] = ReadyTask
         /\ Queues1(ready', ReadyIn(ts) \ {current'})
         /\ \A v, u : Ahead(ready, v, u) => current' = v \/ Ahead(ready', v, u)
         /\ current' = w \/ Ahead(ready', w, t)
    <3>1. PICK q1 : q1 = Enqueue(q, t)
      OBVIOUS
    <3>2. /\ ~IsFull(q) /\ Front(q1) \in Tasks /\ ts[Front(q1)] = ReadyTask
          /\ Queues1(Dequeue(q1), ReadyIn(ts) \ {Front(q1)})
      BY <2>7, <2>9, <3>1, NextTask, Zenon
    <3>3. [ts EXCEPT ![t] = ReadyTask, ![Front(q1)] = ReadyTask] = ts
      BY <2>7, <2>9, <3>2 DEF Normal
    <3>4. ready' = Dequeue(q1) /\ current' = Front(q1) /\ task_states' = ts /\ UNCHANGED panicked
      BY <2>8, <3>1, <3>2, <3>3 DEF Yield
    <3>5. ASSUME NEW v, NEW u, Ahead(q, v, u) \/ (v \in (S \ {t}) \cup {w} /\ u = t)
          PROVE  Front(q1) = v \/ Ahead(Dequeue(q1), v, u)
      <4>1. PICK S1 : S1 = (S \ {t}) \cup {w}
        BY Zenon
      <4>2. S1 \in SUBSET Tasks /\ t \notin S1 /\ Queues1(q, S1)
        BY <2>2, <2>4, <2>5, <4>1
      <4>3. Ahead(q, v, u) \/ (v \in S1 /\ u = t)
        BY <3>5, <4>1
      <4> QED  BY <3>1, <4>2, <4>3, YieldOrder
    <3> QED  BY <2>5, <3>2, <3>4, <3>5, Zenon
  <2>11. \A u \in Tasks : ts[u] = IF u = w THEN ReadyTask ELSE task_states[u]
    BY <2>2, <2>6 DEF ts
  <2>12. SchedOK'
    <3>1. \A u \in Tasks : ts[u].st # "Idle"
      BY <1>1, <2>6, <2>11, Zenon
    <3> QED  BY <1>1, <2>7, <2>10, <3>1, Zenon DEF SchedOK
  <2>13. \A u \in Tasks : IsBlocked(u)' => task_states'[u] = task_states[u] /\ task_states[u].on # e
    BY <1>2, <2>2, <2>6, <2>10, <2>11, Zenon DEF IsBlocked
  <2>14. \A u \in Tasks : IsBlocked(u) /\ ~IsBlocked(u)' => u = w
    BY <2>10, <2>11, Zenon DEF IsBlocked
  <2>15. task_states[w].on = e
    BY <2>2 DEF TaskState
  <2> QED  BY <2>10, <2>12, <2>13, <2>14, <2>15, Zenon
<1> QED  BY <1>3, <1>4, Zenon

\* ipc_send_and_yield.
LEMMA SendInv ==
  ASSUME IInv, NEW t \in Tasks, NEW h \in DOMAIN tables[t],
         NEW x \in DOMAIN tables[t] \cup {NoHandle}, SendAndYield(t, h, x)
  PROVE  IInv'
<1>1. PICK e : e = Ep(t, h)
  OBVIOUS
<1>2. /\ started /\ current = t /\ ~resuming[t] /\ IpcSend(t, h, Message, x)
      /\ UNCHANGED <<started, resuming, wait_cap>>
  BY Zenon DEF SendAndYield, Running
<1>3. /\ IpcOK' /\ UNCHANGED ep_arena
      /\ \A c \in Tasks : c # t => tables'[c] = tables[c]
      /\ SendOutcome(t, h, x) = "Enqueued" => StateOf(e).kind # "RecvWaiting"
      /\ \A f \in LiveEndpoints :
           ~(SendOutcome(t, h, x) \in Accepted /\ f = e) => StateOf(f)' = StateOf(f)
  <2>1. PICK m : m = Message
    OBVIOUS
  <2>2. IpcOK /\ IpcSend(t, h, m, x)
    BY <1>2, <2>1, Zenon DEF IInv
  <2>3. Sent(t, h, x, e)
    BY <1>1, <2>2, SendEffect
  <2> QED  BY <2>3, Zenon DEF Sent
<1>4. /\ SchedOK'
      /\ \A u \in Tasks : IsBlocked(u)' => task_states'[u] = task_states[u]
      /\ SendOutcome(t, h, x) = "Delivered" =>
           \A u \in Tasks : IsBlocked(u)' => task_states[u].on # e
  <2>1. CASE SendOutcome(t, h, x) = "Delivered"
    <3>1. UnblockAndYield(t, e)
      BY <1>1, <2>1 DEF SendAndYield
    <3> QED  BY <1>2, <3>1, UnblockEffect, Zenon
  <2>2. CASE SendOutcome(t, h, x) # "Delivered"
    <3>1. UNCHANGED <<ready, task_states, current, panicked>>
      BY <2>2 DEF SendAndYield
    <3>2. SchedOK'
      BY <1>2, <3>1, Zenon DEF IInv, SchedOK, IsBlocked
    <3> QED  BY <2>2, <3>1, <3>2
  <2> QED  BY <2>1, <2>2, Zenon
<1>5. /\ resuming' \in [Tasks -> BOOLEAN] /\ DOMAIN wait_cap' = Tasks
      /\ \A u \in Tasks : IsBlocked(u)' => task_states'[u] = task_states[u] /\ IsBlocked(u) /\ resuming'[u]
  BY <1>2, <1>4, Zenon DEF IInv, WaitOK, IsBlocked
<1>6. \A u \in Tasks : resuming'[u] =>
        /\ resuming[u] /\ wait_cap'[u] = wait_cap[u]
        /\ wait_cap[u] \in DOMAIN tables'[u]
        /\ tables'[u][wait_cap[u]] = tables[u][wait_cap[u]]
        /\ Contains(ep_arena', Ep(u, wait_cap[u]))
  <2> SUFFICES ASSUME NEW u \in Tasks, resuming[u]
               PROVE  /\ wait_cap[u] \in DOMAIN tables'[u]
                      /\ tables'[u][wait_cap[u]] = tables[u][wait_cap[u]]
                      /\ Contains(ep_arena', Ep(u, wait_cap[u]))
    BY <1>2, Zenon
  <2>1. u # t /\ Has(u, wait_cap[u]) /\ Ep(u, wait_cap[u]) \in LiveEndpoints
    BY <1>2, WaitsAtLive, Zenon DEF IInv
  <2> QED  BY <1>3, <2>1, Zenon DEF Has, LiveEndpoints
<1>7. ASSUME NEW u \in Tasks, IsBlocked(u)'
      PROVE  StateOf(task_states[u].on)'.kind = StateOf(task_states[u].on).kind
  <2>1. PICK f : f = task_states[u].on
    OBVIOUS
  <2>2. f \in LiveEndpoints /\ StateOf(f).kind = "RecvWaiting" /\ task_states'[u].on = f
    BY <1>5, <1>7, <2>1, Zenon DEF IInv, WaitOK, WaiterRegistered
  <2>3. ~(SendOutcome(t, h, x) \in Accepted /\ f = e)
    BY <1>3, <1>4, <1>7, <2>1, <2>2, Zenon DEF Accepted
  <2>4. StateOf(f)' = StateOf(f)
    BY <1>3, <2>2, <2>3, Zenon
  <2> QED  BY <2>1, <2>2, <2>4, Zenon
<1>8. WaitOK'
  BY <1>5, <1>6, <1>7, WaitShrinks, Zenon DEF IInv
<1> QED  BY <1>3, <1>4, <1>8, Zenon DEF IInv

\* ipc_recv by the running task disturbs no task that waits.
LEMMA RecvWaiters ==
  ASSUME IInv, NEW t \in Tasks, started, current = t, NEW h, IpcRecv(t, h), NEW e, e = Ep(t, h)
  PROVE  /\ IpcOK' /\ UNCHANGED ep_arena
         /\ \A u \in Tasks : u # t /\ resuming[u] =>
              /\ wait_cap[u] \in DOMAIN tables'[u]
              /\ tables'[u][wait_cap[u]] = tables[u][wait_cap[u]]
              /\ Contains(ep_arena', Ep(u, wait_cap[u]))
         /\ \A f \in LiveEndpoints :
              StateOf(f).kind = "RecvWaiting" => StateOf(f)'.kind = "RecvWaiting"
         /\ RecvResult(t, h) = "Pending" =>
              /\ RecvCheck(t, h) = "Ok" /\ e \in LiveEndpoints /\ UNCHANGED tables
              /\ StateOf(e).kind = "Idle" /\ StateOf(e)'.kind = "RecvWaiting"
<1>1. /\ IpcOK' /\ UNCHANGED ep_arena
      /\ \A c \in Tasks : c # t => tables'[c] = tables[c]
      /\ RecvResult(t, h) = "Pending" =>
           /\ RecvCheck(t, h) = "Ok" /\ e \in LiveEndpoints /\ UNCHANGED tables
           /\ StateOf(e).kind = "Idle" /\ StateOf(e)'.kind = "RecvWaiting"
      /\ \A f \in LiveEndpoints : \/ StateOf(f)' = StateOf(f)
                                  \/ f = e /\ StateOf(f).kind # "RecvWaiting"
  <2>1. Received(t, h, e)
    BY RecvEffect DEF IInv
  <2> QED  BY <2>1, Zenon DEF Received
<1>2. ASSUME NEW u \in Tasks, u # t, resuming[u]
      PROVE  /\ wait_cap[u] \in DOMAIN tables'[u]
             /\ tables'[u][wait_cap[u]] = tables[u][wait_cap[u]]
             /\ Contains(ep_arena', Ep(u, wait_cap[u]))
  <2>1. Has(u, wait_cap[u]) /\ Ep(u, wait_cap[u]) \in LiveEndpoints
    BY <1>2, WaitsAtLive, Zenon DEF IInv
  <2> QED  BY <1>1, <1>2, <2>1, Zenon DEF Has, LiveEndpoints
<1>3. \A f \in LiveEndpoints : StateOf(f).kind = "RecvWaiting" => StateOf(f)'.kind = "RecvWaiting"
  BY <1>1
<1> QED  BY <1>1, <1>2, <1>3, Zenon

\* A receive that leaves the scheduler's state alone.
LEMMA RecvStays ==
  ASSUME IInv, NEW t \in Tasks, started, current = t, NEW h, IpcRecv(t, h),
         UNCHANGED <<ready, task_states, current, started, panicked>>,
         resuming' \in [Tasks -> BOOLEAN], DOMAIN wait_cap' = Tasks, ~resuming'[t],
         \A u \in Tasks : u # t => resuming'[u] = resuming[u] /\ wait_cap'[u] = wait_cap[u]
  PROVE  IInv'
<1>1. PICK e : e = Ep(t, h)
  BY Zenon
<1>2. /\ IpcOK' /\ UNCHANGED ep_arena
      /\ \A u \in Tasks : u # t /\ resuming[u] =>
           /\ wait_cap[u] \in DOMAIN tables'[u]
           /\ tables'[u][wait_cap[u]] = tables[u][wait_cap[u]]
           /\ Contains(ep_arena', Ep(u, wait_cap[u]))
      /\ \A f \in LiveEndpoints :
           StateOf(f).kind = "RecvWaiting" => StateOf(f)'.kind = "RecvWaiting"
  BY <1>1, RecvWaiters, Zenon
<1>3. \A u \in Tasks : IsBlocked(u)' =>
        IsBlocked(u) /\ task_states'[u] = task_states[u] /\ u # t /\ resuming'[u]
  BY RunningTask, Zenon DEF IsBlocked, IInv, WaitOK
<1>4. \A u \in Tasks : resuming'[u] => u # t /\ resuming[u] /\ wait_cap'[u] = wait_cap[u]
  BY Zenon
<1>5. \A u \in Tasks : IsBlocked(u)' =>
        StateOf(task_states[u].on)'.kind = StateOf(task_states[u].on).kind
  <2> SUFFICES ASSUME NEW u \in Tasks, IsBlocked(u)'
               PROVE  StateOf(task_states[u].on)'.kind = StateOf(task_states[u].on).kind
    BY Zenon
  <2>1. PICK f : f = task_states[u].on
    BY Zenon
  <2>2. f \in LiveEndpoints /\ StateOf(f).kind = "RecvWaiting" /\ task_states'[u].on = f
    BY <1>3, <2>1, Zenon DEF IInv, WaitOK, WaiterRegistered
  <2> QED  BY <1>2, <2>1, <2>2, Zenon
<1>6. WaitOK'
  BY <1>2, <1>3, <1>4, <1>5, WaitShrinks, Zenon DEF IInv
<1>7. SchedOK'
  BY Zenon DEF IInv, SchedOK, IsBlocked
<1> QED  BY <1>2, <1>6, <1>7, Zenon DEF IInv

\* The scheduler's part of blocking: the caller leaves, the next ready task
\* runs.
LEMMA BlockEffect ==
  ASSUME IInv, NEW t \in Tasks, started, current = t, NEW e \in Endpoints, ~IsEmpty(ready),
         ready' = Dequeue(ready), current' = Front(ready), UNCHANGED <<started, panicked>>,
         task_states' = [task_states EXCEPT ![t] = TaskState("Blocked", e),
                                            ![Front(ready)] = ReadyTask]
  PROVE  /\ SchedOK'
         /\ task_states'[t] = TaskState("Blocked", e)
         /\ \A u \in Tasks : u # t => task_states'[u] = task_states[u]
<1> DEFINE S == ReadyIn(task_states) \ {t}
<1>1. /\ started = TRUE /\ panicked = FALSE /\ task_states[t] = ReadyTask /\ Normal(task_states)
      /\ Queues1(ready, S)
      /\ \A u \in Tasks : task_states[u].st # "Idle"
  BY RunningTask, Zenon
<1>2. S \in SUBSET Tasks
  BY DEF ReadyIn
<1>3. Front(ready) \in S /\ Queues1(Dequeue(ready), S \ {Front(ready)})
  <2> HIDE DEF S
  <2> QED  BY <1>1, <1>2, DequeueTask, Zenon
<1>4. Front(ready) \in Tasks /\ Front(ready) # t /\ task_states[Front(ready)] = ReadyTask
  BY <1>1, <1>2, <1>3, Zenon DEF Normal
<1>5. /\ task_states' \in [Tasks -> TaskStates]
      /\ task_states'[t] = TaskState("Blocked", e) /\ TaskState("Blocked", e).st = "Blocked"
      /\ \A u \in Tasks : u # t => task_states'[u] = task_states[u]
  BY <1>1, <1>4, Zenon DEF Normal, TaskState, TaskStates
<1>6. ReadyIn(task_states') = S /\ Normal(task_states')
  BY <1>1, <1>5, Zenon DEF ReadyIn, Normal
<1>7. \A u \in Tasks : task_states'[u].st # "Idle"
  BY <1>1, <1>5, Zenon
<1>8. current' \in Tasks /\ task_states'[current'] = ReadyTask
  BY <1>4, <1>5, Zenon
<1>9. Queues1(ready', ReadyIn(task_states') \ {current'})
  BY <1>3, <1>6, Zenon
<1>10. SchedOK'
  BY <1>1, <1>6, <1>7, <1>8, <1>9, Zenon DEF SchedOK
<1> QED  BY <1>5, <1>10, Zenon

\* ipc_recv_and_yield, phases 1 and 2.
LEMMA RecvInv ==
  ASSUME IInv, NEW t \in Tasks, NEW h \in DOMAIN tables[t], RecvAndYield(t, h)
  PROVE  IInv'
<1>1. PICK e : e = Ep(t, h)
  OBVIOUS
<1>2. /\ started /\ current = t /\ ~resuming[t] /\ IpcRecv(t, h)
      /\ UNCHANGED <<started, panicked>>
  BY Zenon DEF RecvAndYield, Running
<1>3. CASE RecvResult(t, h) # "Pending" \/ IsEmpty(ready)
  <2>1. UNCHANGED <<ready, task_states, current, resuming, wait_cap>>
    BY <1>3, Zenon DEF RecvAndYield, Block
  <2>2. resuming' \in [Tasks -> BOOLEAN] /\ DOMAIN wait_cap' = Tasks
    BY <2>1, Zenon DEF IInv, WaitOK
  <2> QED  BY <1>2, <2>1, <2>2, RecvStays, Zenon
<1>4. CASE RecvResult(t, h) = "Pending" /\ ~IsEmpty(ready)
  <2>1. Block(t, h, e)
    BY <1>1, <1>4, Zenon DEF RecvAndYield
  <2>2. /\ ready' = Dequeue(ready) /\ current' = Front(ready)
        /\ task_states' = [task_states EXCEPT ![t] = TaskState("Blocked", e),
                                              ![Front(ready)] = ReadyTask]
        /\ resuming' = [resuming EXCEPT ![t] = TRUE]
        /\ wait_cap' = [wait_cap EXCEPT ![t] = h]
    BY <1>4, <2>1, Zenon DEF Block
  <2>3. /\ IpcOK' /\ UNCHANGED ep_arena
        /\ \A f \in LiveEndpoints :
             StateOf(f).kind = "RecvWaiting" => StateOf(f)'.kind = "RecvWaiting"
        /\ RecvCheck(t, h) = "Ok" /\ e \in LiveEndpoints /\ UNCHANGED tables
        /\ StateOf(e).kind = "Idle" /\ StateOf(e)'.kind = "RecvWaiting"
    BY <1>1, <1>2, <1>4, RecvWaiters, Zenon
  <2>4. /\ SchedOK'
        /\ task_states'[t] = TaskState("Blocked", e)
        /\ \A u \in Tasks : u # t => task_states'[u] = task_states[u]
    <3>1. e \in Endpoints
      BY <2>3 DEF LiveEndpoints
    <3> QED  BY <1>2, <1>4, <2>2, <3>1, BlockEffect, Zenon
  <2>5. /\ resuming' \in [Tasks -> BOOLEAN] /\ DOMAIN wait_cap' = Tasks
        /\ resuming'[t] /\ wait_cap'[t] = h
        /\ \A u \in Tasks : u # t => resuming'[u] = resuming[u] /\ wait_cap'[u] = wait_cap[u]
    BY <2>2, Zenon DEF IInv, WaitOK
  <2>6. LiveEndpoints' = LiveEndpoints
    BY <2>3 DEF LiveEndpoints
  <2>7. \A u \in Tasks : u # t /\ IsBlocked(u)' =>
          /\ IsBlocked(u) /\ task_states[u].on \in LiveEndpoints
          /\ StateOf(task_states[u].on).kind = "RecvWaiting"
    BY <2>4, Zenon DEF IsBlocked, IInv, WaitOK, WaiterRegistered
  <2>8. task_states'[t].on = e /\ task_states'[t].st = "Blocked"
    BY <2>4 DEF TaskState
  <2>9. WaiterRegistered'
    <3> SUFFICES ASSUME NEW u \in Tasks, IsBlocked(u)'
                 PROVE  /\ task_states'[u].on \in LiveEndpoints
                        /\ StateOf(task_states[u].on)'.kind = "RecvWaiting"
      BY <2>6, Zenon DEF WaiterRegistered
    <3>1. PICK f : f = task_states'[u].on
      BY Zenon
    <3>2. f \in LiveEndpoints /\ StateOf(f)'.kind = "RecvWaiting"
      BY <2>3, <2>4, <2>7, <2>8, <3>1, Zenon
    <3> QED  BY <3>1, <3>2
  <2>10. SingleWaiter'
    <3>1. \A u \in Tasks : u # t /\ IsBlocked(u)' => task_states'[u].on # e
      BY <2>3, <2>4, <2>7, Zenon
    <3>2. \A u \in Tasks : u # t /\ IsBlocked(u)' => task_states'[u].on = task_states[u].on
      BY <2>4, Zenon
    <3>3. SingleWaiter
      BY Zenon DEF IInv, WaitOK
    <3> QED  BY <2>7, <2>8, <3>1, <3>2, <3>3, Zenon DEF SingleWaiter
  <2>11. WaitCapValid'
    <3>1. \A u \in Tasks : \A g : RecvCheck(u, g)' = RecvCheck(u, g) /\ Ep(u, g)' = Ep(u, g)
      BY <2>3, Zenon DEF RecvCheck, ValidEp, Has, Ep
    <3>2. ASSUME NEW u \in Tasks, resuming'[u]
          PROVE  /\ RecvCheck(u, wait_cap'[u]) = "Ok"
                 /\ IsBlocked(u)' => Ep(u, wait_cap'[u]) = task_states'[u].on
      <4>1. CASE u = t
        BY <1>1, <2>3, <2>5, <2>8, <4>1, Zenon
      <4>2. CASE u # t
        BY <2>4, <2>5, <2>7, <3>2, <4>2, ZenonT(30) DEF IInv, WaitOK, WaitCapValid
      <4> QED  BY <4>1, <4>2, Zenon
    <3>3. ASSUME NEW u \in Tasks, resuming'[u]
          PROVE  /\ RecvCheck(u, wait_cap[u])' = "Ok"
                 /\ IsBlocked(u)' => Ep(u, wait_cap[u])' = task_states'[u].on
      <4>1. PICK g : g = wait_cap'[u]
        OBVIOUS
      <4>2. RecvCheck(u, g)' = "Ok" /\ (IsBlocked(u)' => Ep(u, g)' = task_states'[u].on)
        BY <3>1, <3>2, <3>3, <4>1, Zenon
      <4> QED  BY <4>1, <4>2, Zenon
    <3> QED  BY <3>3, Zenon DEF WaitCapValid
  <2>12. \A u \in Tasks : IsBlocked(u)' => resuming'[u]
    BY <2>5, <2>7, Zenon DEF IInv, WaitOK
  <2> QED  BY <2>3, <2>4, <2>5, <2>9, <2>10, <2>11, <2>12, Zenon DEF IInv, WaitOK
<1> QED  BY <1>3, <1>4

\* ipc_recv_and_yield, phase 3.
LEMMA ResumeInv ==
  ASSUME IInv, NEW t \in Tasks, ResumeRecv(t)
  PROVE  IInv'
<1>1. PICK h : h = wait_cap[t]
  OBVIOUS
<1>2. /\ started /\ current = t /\ IpcRecv(t, h)
      /\ UNCHANGED <<ready, task_states, current, started, panicked>>
      /\ resuming' = [resuming EXCEPT ![t] = FALSE]
      /\ wait_cap' = [wait_cap EXCEPT ![t] = NoHandle]
  BY <1>1, Zenon DEF ResumeRecv
<1>3. /\ resuming' \in [Tasks -> BOOLEAN] /\ DOMAIN wait_cap' = Tasks /\ ~resuming'[t]
      /\ \A u \in Tasks : u # t => resuming'[u] = resuming[u] /\ wait_cap'[u] = wait_cap[u]
  BY <1>2 DEF IInv, WaitOK
<1> QED  BY <1>2, <1>3, RecvStays, Zenon

\* A step of the running task that leaves the scheduler, the endpoint states
\* and the slots waited on alone.
LEMMA TablesStep ==
  ASSUME IInv, IpcOK', UNCHANGED <<states, slot_generations, sched_vars>>,
         \A u \in Tasks : resuming[u] =>
           /\ wait_cap[u] \in DOMAIN tables'[u]
           /\ tables'[u][wait_cap[u]] = tables[u][wait_cap[u]]
           /\ Contains(ep_arena', Ep(u, wait_cap[u]))
  PROVE  IInv'
<1>1. UNCHANGED <<ready, task_states, current, started, panicked, resuming, wait_cap>>
  BY Zenon DEF sched_vars
<1>2. SchedOK'
  BY <1>1, Zenon DEF IInv, SchedOK, IsBlocked
<1>3. /\ resuming' \in [Tasks -> BOOLEAN] /\ DOMAIN wait_cap' = Tasks
      /\ \A u \in Tasks : IsBlocked(u)' => task_states'[u] = task_states[u] /\ resuming'[u]
  BY <1>1, Zenon DEF IInv, WaitOK, IsBlocked
<1>4. \A u \in Tasks : IsBlocked(u)' =>
        StateOf(task_states[u].on)'.kind = StateOf(task_states[u].on).kind
  BY <1>1, Zenon DEF StateOf, Stale
<1>5. WaitOK'
  BY <1>1, <1>3, <1>4, WaitShrinks, Zenon DEF IInv
<1> QED  BY <1>2, <1>5, Zenon DEF IInv

\* cap_drop: only tasks that do not run wait.
LEMMA DropInv ==
  ASSUME IInv, NEW t \in Tasks, NEW h \in DOMAIN tables[t], DropCap(t, h)
  PROVE  IInv'
<1>1. /\ ~resuming[t] /\ UNCHANGED <<ep_arena, states, slot_generations, next_cap, sched_vars>>
      /\ tables' = [tables EXCEPT ![t] = Without(@, h)]
  BY Zenon DEF DropCap, Running
<1>2. /\ DOMAIN tables' = Tasks
      /\ \A c \in Tasks : c # t => tables'[c] = tables[c]
      /\ \A g \in DOMAIN tables'[t] : g \in DOMAIN tables[t] /\ tables'[t][g] = tables[t][g]
  BY <1>1, Zenon DEF Without, IInv, IpcOK
<1>3. IpcOK'
  BY <1>1, <1>2, ZenonT(30) DEF IInv, IpcOK
<1>4. ASSUME NEW u \in Tasks, resuming[u]
      PROVE  /\ wait_cap[u] \in DOMAIN tables'[u]
             /\ tables'[u][wait_cap[u]] = tables[u][wait_cap[u]]
             /\ Contains(ep_arena', Ep(u, wait_cap[u]))
  <2>1. u # t /\ Has(u, wait_cap[u]) /\ Ep(u, wait_cap[u]) \in LiveEndpoints
    BY <1>1, <1>4, WaitsAtLive, Zenon DEF IInv
  <2> QED  BY <1>1, <1>2, <2>1, Zenon DEF Has, LiveEndpoints
<1> QED  BY <1>1, <1>3, <1>4, TablesStep, Zenon

\* create_endpoint uses handles that no table has yet.
LEMMA CreateKeeps ==
  ASSUME IpcOK, NEW t \in Tasks, CreateEndpoint(t), NEW c \in Tasks, NEW g \in DOMAIN tables[c]
  PROVE  g \in DOMAIN tables'[c] /\ tables'[c][g] = tables[c][g]
<1>1. g # next_cap + c
  BY TasksFit, QueueCapacityAssumption DEF IpcOK
<1> QED  BY <1>1, Zenon DEF CreateEndpoint, WithRoot

\* create_endpoint: live endpoints stay, handles in use stay.
LEMMA CreateInv ==
  ASSUME IInv, NEW t \in Tasks, CreateEndpoint(t)
  PROVE  IInv'
<1> DEFINE o == EpObject(FreshId(ep_arena))
           cap(c) == [rights |-> NewRights[c], object |-> o]
<1>1. /\ ep_arena.free_head # None /\ ep_arena' = Allocate(ep_arena, "endpoint")
      /\ tables' = [c \in Tasks |-> IF TableFull(c) THEN tables[c]
                                    ELSE WithRoot(tables[c], next_cap + c, cap(c))]
      /\ next_cap' = next_cap + QueueCapacity
      /\ UNCHANGED <<states, slot_generations, sched_vars>>
  BY Zenon DEF CreateEndpoint
<1>2. ep_arena.free_head \in EpSlots
  BY <1>1, Zenon DEF IInv, IpcOK
<1>3. /\ ep_arena'.generation = ep_arena.generation
      /\ ep_arena'.next_free \in [EpSlots -> EpSlots \cup {None}]
      /\ ep_arena'.free_head \in EpSlots \cup {None}
      /\ DOMAIN ep_arena.entry \subseteq DOMAIN ep_arena'.entry
  BY <1>1, <1>2, Zenon DEF Allocate, LiveSlots, IInv, IpcOK
<1>4. ObjectOK(o)
  BY <1>2, Zenon DEF FreshId, ObjectOK, Endpoints, IInv, IpcOK
<1>5. /\ QueueCapacity \in Nat /\ next_cap \in Nat /\ next_cap' \in Nat
      /\ \A c \in Tasks : c \in Nat /\ c < QueueCapacity
  <2>1. next_cap \in Nat /\ next_cap' = next_cap + QueueCapacity
    BY <1>1, Zenon DEF IInv, IpcOK
  <2> QED  BY <2>1, TasksFit, QueueCapacityAssumption
<1> HIDE DEF o
<1>6. ASSUME NEW c \in Tasks, NEW g \in DOMAIN tables[c]
      PROVE  g \in DOMAIN tables'[c] /\ tables'[c][g] = tables[c][g]
  BY <1>6, CreateKeeps, Zenon DEF IInv
<1>7. ASSUME NEW c \in Tasks, NEW g \in DOMAIN tables'[c]
      PROVE  g \in 0 .. next_cap' - 1 /\ ObjectOK(tables'[c][g].object)
  <2>1. CASE g \in DOMAIN tables[c]
    <3>1. g \in 0 .. next_cap - 1 /\ ObjectOK(tables[c][g].object)
      BY <2>1, Zenon DEF IInv, IpcOK
    <3>2. next_cap' = next_cap + QueueCapacity
      BY <1>1, Zenon
    <3>3. g \in 0 .. next_cap' - 1
      BY <1>5, <3>1, <3>2
    <3> QED  BY <1>6, <2>1, <3>1, <3>3, Zenon
  <2>2. CASE g \notin DOMAIN tables[c]
    <3>1. g = next_cap + c /\ tables'[c][g].object = o
      BY <1>1, <1>7, <2>2, Zenon DEF WithRoot
    <3>2. next_cap' = next_cap + QueueCapacity
      BY <1>1
    <3>3. g \in 0 .. next_cap' - 1
      BY <1>5, <3>1, <3>2
    <3> QED  BY <1>4, <3>1, <3>3, Zenon
  <2> QED  BY <2>1, <2>2, Zenon
<1>8. IpcOK'
  BY <1>1, <1>3, <1>5, <1>7, Zenon DEF IInv, IpcOK
<1>9. ASSUME NEW u \in Tasks, resuming[u]
      PROVE  /\ wait_cap[u] \in DOMAIN tables'[u]
             /\ tables'[u][wait_cap[u]] = tables[u][wait_cap[u]]
             /\ Contains(ep_arena', Ep(u, wait_cap[u]))
  <2>1. Has(u, wait_cap[u]) /\ Ep(u, wait_cap[u]) \in LiveEndpoints
    BY <1>9, WaitsAtLive, Zenon DEF IInv
  <2>2. Contains(ep_arena', Ep(u, wait_cap[u]))
    BY <1>3, <2>1, Zenon DEF LiveEndpoints, Contains, ArenaSlots, LiveSlots
  <2> QED  BY <1>6, <2>1, <2>2, Zenon DEF Has
<1> QED  BY <1>1, <1>8, <1>9, TablesStep, Zenon

\* destroy_endpoint of an endpoint that no table names: nobody waits there.
LEMMA DestroyInv ==
  ASSUME IInv, NEW t \in Tasks, NEW e \in LiveEndpoints, DestroyEndpoint(t, e)
  PROVE  IInv'
<1>1. /\ ~Referenced(EpObject(e)) /\ ep_arena' = Release(ep_arena, e)
      /\ UNCHANGED <<states, slot_generations, tables, next_cap, sched_vars>>
  BY DEF DestroyEndpoint
<1>2. e.index \in EpSlots
  BY DEF LiveEndpoints, Endpoints
<1>3. /\ ep_arena'.generation \in [EpSlots -> 0 .. GenModulus - 1]
      /\ ep_arena'.next_free \in [EpSlots -> EpSlots \cup {None}]
      /\ ep_arena'.free_head \in EpSlots \cup {None}
      /\ \A i \in EpSlots : i # e.index => ep_arena'.generation[i] = ep_arena.generation[i]
      /\ DOMAIN ep_arena'.entry = DOMAIN ep_arena.entry \ {e.index}
  <2>1. \A n \in 0 .. GenModulus - 1 : (n + 1) % GenModulus \in 0 .. GenModulus - 1
    BY GenAssumption
  <2> QED  BY <1>1, <1>2, <2>1, Zenon DEF Release, LiveSlots, IInv, IpcOK
<1>4. IpcOK'
  BY <1>1, <1>3, Zenon DEF IInv, IpcOK
<1>5. ASSUME NEW u \in Tasks, resuming[u]
      PROVE  /\ wait_cap[u] \in DOMAIN tables'[u]
             /\ tables'[u][wait_cap[u]] = tables[u][wait_cap[u]]
             /\ Contains(ep_arena', Ep(u, wait_cap[u]))
  <2>1. PICK f : f = Ep(u, wait_cap[u])
    OBVIOUS
  <2>2. Has(u, wait_cap[u]) /\ f \in LiveEndpoints /\ tables[u][wait_cap[u]].object = EpObject(f)
    BY <1>5, <2>1, WaitsAtLive, Zenon DEF IInv
  <2>3. f.index # e.index /\ f.index \in EpSlots
    <3>1. f # e
      BY <1>1, <2>2, Zenon DEF Referenced, Has, Tasks
    <3> QED  BY <2>2, <3>1, LiveUnique, Zenon DEF LiveEndpoints, Endpoints
  <2>4. Contains(ep_arena', f)
    BY <1>3, <2>2, <2>3, Zenon DEF LiveEndpoints, Contains, ArenaSlots, LiveSlots, IInv, IpcOK
  <2> QED  BY <1>1, <2>1, <2>2, <2>4, Zenon DEF Has
<1> QED  BY <1>1, <1>4, <1>5, TablesStep, Zenon

-----------------------------------------------------------------------------
(* What holds in every reachable state.                                    *)

\* IInv is inductive.
LEMMA StepIInv == IInv /\ [Next]_vars => IInv'
<1> SUFFICES ASSUME IInv, [Next]_vars PROVE IInv'
  OBVIOUS
<1>1. CASE UNCHANGED vars
  <2>1. /\ UNCHANGED <<ready, task_states, current, started, panicked, resuming, wait_cap>>
        /\ UNCHANGED ipc_vars
    BY <1>1 DEF vars, sched_vars
  <2>2. SchedOK'
    BY <2>1, Zenon DEF IInv, SchedOK, IsBlocked
  <2>3. IpcOK' /\ WaitOK'
    BY <2>1, WaitSame DEF IInv
  <2> QED  BY <2>2, <2>3 DEF IInv
<1>2. CASE \E t \in Tasks : AddTask(t)
  BY <1>2, AddTaskInv
<1>3. CASE Start
  BY <1>3, StartInv
<1>4. ASSUME NEW t \in Tasks, YieldNow(t) PROVE IInv'
  BY <1>4, YieldInv
<1>5. ASSUME NEW t \in Tasks, ResumeRecv(t) PROVE IInv'
  BY <1>5, ResumeInv
<1>6. ASSUME NEW t \in Tasks, NEW h \in DOMAIN tables[t],
             NEW x \in DOMAIN tables[t] \cup {NoHandle}, SendAndYield(t, h, x)
      PROVE  IInv'
  BY <1>6, SendInv
<1>7. ASSUME NEW t \in Tasks, NEW h \in DOMAIN tables[t], RecvAndYield(t, h) PROVE IInv'
  BY <1>7, RecvInv
<1>8. ASSUME NEW t \in Tasks, NEW h \in DOMAIN tables[t], DropCap(t, h) PROVE IInv'
  BY <1>8, DropInv
<1>9. ASSUME NEW t \in Tasks, CreateEndpoint(t) PROVE IInv'
  BY <1>9, CreateInv
<1>10. ASSUME NEW t \in Tasks, NEW e \in LiveEndpoints, DestroyEndpoint(t, e) PROVE IInv'
  BY <1>10, DestroyInv
<1> QED
  BY <1>1, <1>2, <1>3, <1>4, <1>5, <1>6, <1>7, <1>8, <1>9, <1>10, Zenon DEF Next

\* The inductive invariant holds throughout.
THEOREM AlwaysIInv == Spec => []IInv
BY InitIInv, StepIInv, PTL DEF Spec

\* Every state is well typed.
THEOREM TypeTheorem == Spec => []TypeOK
<1>1. IInv => TypeOK
  <2> SUFFICES ASSUME IInv PROVE TypeOK
    OBVIOUS
  <2>1. ready \in Queues(Tasks)
    BY Zenon DEF IInv, SchedOK, Queues1
  <2>2. ready \in [buf : [Cells -> Tasks \cup {NoTask}], head : Cells, len : 0 .. QueueCapacity]
    BY <2>1 DEF Queues
  <2> QED  BY <2>2, Zenon DEF IInv, SchedOK, WaitOK, Normal, TaskStates, TypeOK
<1> QED  BY <1>1, AlwaysIInv, PTL

\* The ready queue holds exactly the ready tasks that do not run, each once:
\* no yield, wake-up or block loses a task or queues the running one.
THEOREM ReadyExactTheorem == Spec => []ReadyExact
<1>1. IInv => ReadyExact
  <2> SUFFICES ASSUME IInv PROVE ReadyExact
    OBVIOUS
  <2>1. Once(ready) /\ Members(ready) = ReadyIn(task_states) \ {current} /\ ready \in Queues(Tasks)
    BY Zenon DEF IInv, SchedOK, Queues1
  <2>2. started => current \in Tasks /\ task_states[current].st = "Ready"
    <3>1. started => current \in Tasks /\ task_states[current] = ReadyTask
      BY Zenon DEF IInv, SchedOK
    <3>2. ReadyTask.st = "Ready"
      BY DEF ReadyTask, TaskState
    <3> QED  BY <3>1, <3>2, Zenon
  <2> QED  BY <2>1, <2>2, HoldsContents, ContentsSeq, Zenon DEF ReadyExact, Once, Members,
              ReadyIn
<1> QED  BY <1>1, AlwaysIInv, PTL

\* No panic of the scheduler is reachable.
THEOREM NoPanicTheorem == Spec => []NoPanic
<1>1. IInv => NoPanic
  BY Zenon DEF IInv, SchedOK, NoPanic
<1> QED  BY <1>1, AlwaysIInv, PTL

\* No wake-up is lost: a blocked task is registered at a live endpoint.
THEOREM WaiterRegisteredTheorem == Spec => []WaiterRegistered
<1>1. IInv => WaiterRegistered
  BY DEF IInv, WaitOK
<1> QED  BY <1>1, AlwaysIInv, PTL

\* At most one task is blocked on an endpoint.
THEOREM SingleWaiterTheorem == Spec => []SingleWaiter
<1>1. IInv => SingleWaiter
  BY DEF IInv, WaitOK
<1> QED  BY <1>1, AlwaysIInv, PTL

\* What ipc_recv_and_yield checked before its context switch holds after it.
THEOREM WaitCapValidTheorem == Spec => []WaitCapValid
<1>1. IInv => WaitCapValid
  BY DEF IInv, WaitOK
<1> QED  BY <1>1, AlwaysIInv, PTL

-----------------------------------------------------------------------------
(* The ring buffer beside a sequence.                                      *)

\* The inductive invariant: types, and the cells from head on hold fifo.
QueueIInv == queue \in Queues(Handles) /\ fifo \in Seq(Handles) /\ Holds(queue, fifo)

\* It implies the properties that are checked on small queues.
LEMMA QueueIInvImplies == QueueIInv => QueueTypeOK /\ QueueIsFifo
<1> SUFFICES ASSUME QueueIInv PROVE QueueTypeOK /\ QueueIsFifo
  OBVIOUS
<1>1. queue.len \in Nat /\ Len(fifo) = queue.len
  BY QueueCapacityAssumption DEF QueueIInv, Queues, Holds
<1>2. Contents(queue) = fifo
  <2>1. fifo \in [1 .. queue.len -> Handles]
    BY <1>1, LenProperties DEF QueueIInv
  <2> QED  BY <1>1, <2>1, Zenon DEF Contents, QueueIInv, Holds
<1>3. fifo # <<>> => Front(queue) = Head(fifo)
  <2> HAVE fifo # <<>>
  <2>1. ~IsEmpty(queue)
    BY <1>1, EmptySeq DEF IsEmpty, QueueIInv
  <2> QED  BY <2>1, DequeueTakesOldest, Zenon DEF QueueIInv
<1> QED  BY <1>2, <1>3 DEF QueueIInv, QueueTypeOK, Queues, QueueIsFifo

\* Whatever is enqueued and dequeued in whatever order, the ring buffer of
\* SchedQueue holds what a FIFO queue of that capacity holds, in order.
THEOREM FifoTheorem == QueueSpec => [](QueueTypeOK /\ QueueIsFifo)
<1>1. QueueInit => QueueIInv
  <2> SUFFICES ASSUME QueueInit PROVE QueueIInv
    OBVIOUS
  <2>1. queue \in Queues(Handles)
    BY QueueCapacityAssumption DEF QueueInit, NewQueue, Queues, Cells
  <2> QED  BY <2>1 DEF QueueInit, NewQueue, QueueIInv, Holds
<1>2. QueueIInv /\ [QueueNext]_queue_vars => QueueIInv'
  <2> SUFFICES ASSUME QueueIInv, [QueueNext]_queue_vars PROVE QueueIInv'
    OBVIOUS
  <2>0. queue.len \in 0 .. QueueCapacity /\ Len(fifo) = queue.len /\ QueueCapacity \in Nat \ {0}
    BY QueueCapacityAssumption DEF QueueIInv, Queues, Holds
  <2>1. ASSUME NEW h \in Handles, Push(h) PROVE QueueIInv'
    <3>1. CASE IsFull(queue)
      BY <2>0, <2>1, <3>1 DEF Push, QueueIInv, IsFull
    <3>2. CASE ~IsFull(queue)
      <4>1. queue' = Enqueue(queue, h) /\ fifo' = Append(fifo, h)
        BY <2>0, <2>1, <3>2 DEF Push, IsFull
      <4> QED  BY <3>2, <4>1, EnqueueAppends DEF QueueIInv
    <3> QED  BY <3>1, <3>2
  <2>2. CASE Pop
    <3>1. CASE IsEmpty(queue)
      <4>1. fifo = <<>>
        BY <2>0, <3>1, EmptySeq DEF IsEmpty, QueueIInv
      <4> QED  BY <2>2, <3>1, <4>1 DEF Pop, QueueIInv
    <3>2. CASE ~IsEmpty(queue)
      <4>1. fifo # <<>> /\ Dequeue(queue) \in Queues(Handles) /\ Holds(Dequeue(queue), Tail(fifo))
        BY <3>2, DequeueTakesOldest DEF QueueIInv
      <4>2. queue' = Dequeue(queue) /\ fifo' = Tail(fifo)
        BY <2>2, <3>2, <4>1 DEF Pop
      <4> QED  BY <4>1, <4>2, HeadTailProperties, Zenon DEF QueueIInv
    <3> QED  BY <3>1, <3>2
  <2>3. CASE UNCHANGED queue_vars
    BY <2>3 DEF queue_vars, QueueIInv
  <2> QED  BY <2>1, <2>2, <2>3 DEF QueueNext
<1> QED  BY <1>1, <1>2, QueueIInvImplies, PTL DEF QueueSpec

=============================================================================
