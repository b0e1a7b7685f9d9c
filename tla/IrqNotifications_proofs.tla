----------------------- MODULE IrqNotifications_proofs -----------------------
(***************************************************************************)
(* The notification objects (Notifications), for every capacity, every     *)
(* width of the generation and every set of bits: the arena never loses a  *)
(* slot, and a stale id is harmless until the generation of its slot has   *)
(* wrapped around.  Then time, interrupts and context switches, for every  *)
(* word size, any number of tasks and interrupt lines, any frequency and   *)
(* any deadlines: the conversions between ticks and nanoseconds (Clock),   *)
(* the boot order, the acknowledge protocol, the mask of each task, the    *)
(* deadlines and the registers (Irq).                                      *)
(***************************************************************************)
EXTENDS Irq, Clock, Notifications, Threads_proofs

-----------------------------------------------------------------------------
(* Notification objects.                                                   *)

Slots == 0 .. ArenaCapacity - 1
WordMaps == UNION {[S -> SUBSET Bits] : S \in SUBSET Slots}
Arenas == [entry : WordMaps, generation : [Slots -> 0 .. GenModulus - 1],
           next_free : [Slots -> Slots \cup {None}], free_head : Slots \cup {None}]
Ids == [index : Slots, generation : 0 .. GenModulus - 1, stamp : Nat, era : Nat]

\* The generation that d frees after generation g.
Wrapped(g, d) == IF g + d < GenModulus THEN g + d ELSE g + d - GenModulus

Types ==
  /\ arena \in Arenas
  /\ stamp \in [Slots -> Nat] /\ clock \in Nat /\ \A s \in Slots : stamp[s] < clock
  /\ frees \in [Slots -> Nat]
  /\ issued \subseteq Ids
  /\ raised \in UNION {[S -> SUBSET Bits] : S \in SUBSET Nat}
  /\ \A n \in DOMAIN raised : n < clock
  /\ \A s \in LiveSlots(arena) : stamp[s] \in DOMAIN raised

\* Until its slot has been freed GenModulus times, the generation of the slot
\* tells how often it was freed since the id was issued; until it is freed
\* for the first time, the slot holds the object of the id.  No other slot
\* has the stamp of the id.
IdOk(id) ==
  LET d == frees[id.index] - id.era IN
  /\ id.stamp \in DOMAIN raised
  /\ d >= 0
  /\ d = 0 => id.index \in LiveSlots(arena) /\ stamp[id.index] = id.stamp
  /\ d < GenModulus => arena.generation[id.index] = Wrapped(id.generation, d)
  /\ \A s \in Slots : stamp[s] = id.stamp => s = id.index

NotificationInv ==
  /\ Types
  /\ ArenaFreeListExact
  /\ \A id \in issued : IdOk(id)
  /\ WordIsOwn

-----------------------------------------------------------------------------
\* One step of a generation counter, without the modulus.
LEMMA BumpGeneration ==
  ASSUME NEW g \in 0 .. GenModulus - 1
  PROVE  /\ (g + 1) % GenModulus = IF g + 1 < GenModulus THEN g + 1 ELSE 0
         /\ (g + 1) % GenModulus \in 0 .. GenModulus - 1
BY GenAssumption, Z3

\* Writing one element of an array.
LEMMA ExceptType ==
  ASSUME NEW S, NEW T, NEW f \in [S -> T], NEW i \in S, NEW v \in T
  PROVE  [f EXCEPT ![i] = v] \in [S -> T]
OBVIOUS

\* What an arena is made of.
LEMMA ArenaParts ==
  ASSUME NEW a \in Arenas
  PROVE  /\ ArenaSlots(a) = Slots /\ LiveSlots(a) \subseteq Slots
         /\ FreeSlots(a) = Slots \ LiveSlots(a)
         /\ a.entry = [s \in LiveSlots(a) |-> a.entry[s]]
         /\ \A s \in LiveSlots(a) : a.entry[s] \subseteq Bits
         /\ a.generation \in [Slots -> 0 .. GenModulus - 1]
         /\ a.next_free \in [Slots -> Slots \cup {None}]
         /\ a.free_head \in Slots \cup {None}
         /\ None \notin Slots
<1>1. a.entry \in WordMaps /\ a.generation \in [Slots -> 0 .. GenModulus - 1]
      /\ a.next_free \in [Slots -> Slots \cup {None}] /\ a.free_head \in Slots \cup {None}
  BY DEF Arenas
<1>2. PICK S \in SUBSET Slots : a.entry \in [S -> SUBSET Bits]
  BY <1>1 DEF WordMaps
<1>3. None \notin Slots
  BY DEF Slots, None
<1> QED  BY <1>1, <1>2, <1>3 DEF ArenaSlots, LiveSlots, FreeSlots

\* A free slot is taken: the arena that allocate leaves.
LEMMA AllocateParts ==
  ASSUME NEW a \in Arenas, a.free_head # None, NEW v \in SUBSET Bits
  PROVE  LET b == Allocate(a, v)
             h == a.free_head
         IN /\ b \in Arenas
            /\ LiveSlots(b) = LiveSlots(a) \cup {h}
            /\ b.entry[h] = v /\ \A s \in LiveSlots(a) \ {h} : b.entry[s] = a.entry[s]
            /\ b.generation = a.generation
            /\ b.next_free = [a.next_free EXCEPT ![h] = None]
            /\ b.free_head = a.next_free[h]
<1> DEFINE b == Allocate(a, v)
           h == a.free_head
<1>1. /\ h \in Slots /\ a.next_free[h] \in Slots \cup {None}
      /\ LiveSlots(a) \subseteq Slots /\ \A s \in LiveSlots(a) : a.entry[s] \subseteq Bits
  BY ArenaParts, ZenonT(30)
<1>2. b = [entry |-> [s \in LiveSlots(a) \cup {h} |-> IF s = h THEN v ELSE a.entry[s]],
           generation |-> a.generation,
           next_free |-> [a.next_free EXCEPT ![h] = None],
           free_head |-> a.next_free[h]]
  BY DEF Allocate
<1>3. b.entry \in WordMaps
  <2>1. b.entry \in [LiveSlots(a) \cup {h} -> SUBSET Bits]
    BY <1>1, <1>2
  <2> QED  BY <1>1, <2>1 DEF WordMaps
<1>4. b.next_free \in [Slots -> Slots \cup {None}]
  <2>1. b.next_free = [a.next_free EXCEPT ![h] = None]
    BY <1>2
  <2>2. a.next_free \in [Slots -> Slots \cup {None}] /\ None \in Slots \cup {None}
    BY ArenaParts, ZenonT(30)
  <2> HIDE DEF b, h
  <2> QED  BY <1>1, <2>1, <2>2, ExceptType
<1>5. b \in Arenas
  BY <1>1, <1>2, <1>3, <1>4, ArenaParts DEF Arenas
<1> QED  BY <1>2, <1>5 DEF LiveSlots

\* An occupied slot is given back: the arena that free leaves.
LEMMA ReleaseParts ==
  ASSUME NEW a \in Arenas, NEW id, Contains(a, id)
  PROVE  LET b == Release(a, id)
             i == id.index
         IN /\ i \in LiveSlots(a) /\ b \in Arenas
            /\ LiveSlots(b) = LiveSlots(a) \ {i}
            /\ \A s \in LiveSlots(b) : b.entry[s] = a.entry[s]
            /\ b.generation = [a.generation EXCEPT ![i] = (@ + 1) % GenModulus]
            /\ b.next_free = [a.next_free EXCEPT ![i] = a.free_head]
            /\ b.free_head = i
<1> DEFINE b == Release(a, id)
           i == id.index
<1>1. /\ i \in LiveSlots(a) /\ i \in Slots
      /\ LiveSlots(a) \subseteq Slots /\ \A s \in LiveSlots(a) : a.entry[s] \subseteq Bits
  <2>1. i \in LiveSlots(a)
    BY DEF Contains
  <2>2. LiveSlots(a) \subseteq Slots /\ \A s \in LiveSlots(a) : a.entry[s] \subseteq Bits
    BY ArenaParts, ZenonT(30)
  <2> QED  BY <2>1, <2>2
<1>2. b = [entry |-> [s \in LiveSlots(a) \ {i} |-> a.entry[s]],
           generation |-> [a.generation EXCEPT ![i] = (@ + 1) % GenModulus],
           next_free |-> [a.next_free EXCEPT ![i] = a.free_head],
           free_head |-> i]
  BY DEF Release
<1>3. b.entry \in WordMaps
  <2>1. b.entry \in [LiveSlots(a) \ {i} -> SUBSET Bits]
    BY <1>1, <1>2
  <2> QED  BY <1>1, <2>1 DEF WordMaps
<1>4. b.generation \in [Slots -> 0 .. GenModulus - 1]
  <2>1. a.generation \in [Slots -> 0 .. GenModulus - 1] /\ a.generation[i] \in 0 .. GenModulus - 1
    BY <1>1, ArenaParts, ZenonT(30)
  <2>2. (a.generation[i] + 1) % GenModulus \in 0 .. GenModulus - 1
    BY <2>1, BumpGeneration
  <2>3. b.generation = [a.generation EXCEPT ![i] = (a.generation[i] + 1) % GenModulus]
    BY <1>2
  <2> HIDE DEF b, i
  <2> QED  BY <1>1, <2>1, <2>2, <2>3, ExceptType
<1>5. b.next_free \in [Slots -> Slots \cup {None}]
  <2>1. b.next_free = [a.next_free EXCEPT ![i] = a.free_head]
    BY <1>2
  <2>2. a.next_free \in [Slots -> Slots \cup {None}] /\ a.free_head \in Slots \cup {None}
    BY ArenaParts, ZenonT(30)
  <2> HIDE DEF b, i
  <2> QED  BY <1>1, <2>1, <2>2, ExceptType
<1>6. b \in Arenas
  BY <1>1, <1>2, <1>3, <1>4, <1>5 DEF Arenas
<1> QED  BY <1>1, <1>2, <1>6 DEF LiveSlots

\* A word is replaced: the arena that get_mut leaves.
LEMMA UpdateParts ==
  ASSUME NEW a \in Arenas, NEW id, Contains(a, id), NEW v \in SUBSET Bits
  PROVE  LET b == Update(a, id, v) IN
         /\ id.index \in LiveSlots(a) /\ b \in Arenas
         /\ LiveSlots(b) = LiveSlots(a)
         /\ b.entry = [a.entry EXCEPT ![id.index] = v]
         /\ b.generation = a.generation /\ b.next_free = a.next_free
         /\ b.free_head = a.free_head
<1> DEFINE b == Update(a, id, v)
<1>1. /\ id.index \in LiveSlots(a)
      /\ LiveSlots(a) \subseteq Slots /\ \A s \in LiveSlots(a) : a.entry[s] \subseteq Bits
      /\ a.entry = [s \in LiveSlots(a) |-> a.entry[s]]
  <2>1. id.index \in LiveSlots(a)
    BY DEF Contains
  <2> QED  BY <2>1, ArenaParts
<1>2. /\ b.entry = [a.entry EXCEPT ![id.index] = v]
      /\ b = [entry |-> b.entry, generation |-> a.generation,
              next_free |-> a.next_free, free_head |-> a.free_head]
  BY DEF Update, Arenas
<1>3. b.entry \in [LiveSlots(a) -> SUBSET Bits]
  BY <1>1, <1>2
<1>4. b.entry \in WordMaps
  BY <1>1, <1>3 DEF WordMaps
<1>5. b \in Arenas
  BY <1>2, <1>4, ArenaParts DEF Arenas
<1> QED  BY <1>1, <1>2, <1>3, <1>5 DEF LiveSlots

-----------------------------------------------------------------------------
\* The initial arena: the free list runs through all slots in order.
LEMMA InitNotificationInv == NotificationInit => NotificationInv
<1> SUFFICES ASSUME NotificationInit PROVE NotificationInv
  OBVIOUS
<1>1. ArenaCapacity \in Nat /\ 0 \in Slots /\ GenModulus \in Nat /\ 0 \in 0 .. GenModulus - 1
  BY ArenaCapacityAssumption, GenAssumption DEF Slots
<1>2. arena = [entry |-> [s \in {} |-> {}],
               generation |-> [s \in Slots |-> 0],
               next_free |-> [s \in Slots |-> IF s + 1 < ArenaCapacity THEN s + 1 ELSE None],
               free_head |-> 0]
  <2>1. arena = NewArena(ArenaCapacity)
    BY DEF NotificationInit
  <2>2. (IF ArenaCapacity > 0 THEN 0 ELSE None) = 0
    BY ArenaCapacityAssumption
  <2> QED  BY <2>1, <2>2, Zenon DEF NewArena, Slots
<1>3. LiveSlots(arena) = {} /\ FreeSlots(arena) = Slots
  BY <1>2 DEF LiveSlots, FreeSlots, ArenaSlots
<1>4. arena \in Arenas
  <2>1. arena.entry \in [{} -> SUBSET Bits]
    BY <1>2
  <2>2. arena.entry \in WordMaps
    BY <2>1 DEF WordMaps
  <2>3. arena.next_free \in [Slots -> Slots \cup {None}]
    BY <1>1, <1>2 DEF Slots
  <2>4. arena.generation \in [Slots -> 0 .. GenModulus - 1] /\ arena.free_head \in Slots \cup {None}
    BY <1>1, <1>2
  <2> QED  BY <1>2, <2>2, <2>3, <2>4 DEF Arenas
<1>5. /\ stamp = [s \in Slots |-> ArenaCapacity - s] /\ clock = ArenaCapacity + 1
      /\ frees = [s \in Slots |-> 0] /\ issued = {} /\ raised = [n \in {} |-> {}]
  BY DEF NotificationInit, Slots
<1>6. \A s \in Slots : stamp[s] \in Nat /\ stamp[s] < clock
  BY <1>1, <1>5 DEF Slots
<1>7. raised \in [{} -> SUBSET Bits]
  BY <1>5
<1>8. Types
  <2>1. stamp \in [Slots -> Nat] /\ clock \in Nat /\ frees \in [Slots -> Nat] /\ issued \subseteq Ids
    BY <1>1, <1>5, <1>6
  <2>2. raised \in UNION {[S -> SUBSET Bits] : S \in SUBSET Nat} /\ DOMAIN raised = {}
    BY <1>7, ZenonT(30)
  <2> QED  BY <1>3, <1>4, <1>6, <2>1, <2>2, Zenon DEF Types
<1>9. ArenaFreeListExact
  <2>1. \A s, t \in Slots : stamp[s] = stamp[t] => s = t
    BY <1>1, <1>5 DEF Slots
  <2>2. \A t \in Slots : stamp[t] =< stamp[0]
    BY <1>1, <1>5 DEF Slots
  <2>3. ASSUME NEW s \in Slots
        PROVE  IF \A t \in Slots : stamp[t] >= stamp[s] THEN arena.next_free[s] = None
               ELSE /\ arena.next_free[s] \in Slots
                    /\ stamp[arena.next_free[s]] < stamp[s]
                    /\ \A t \in Slots : stamp[t] < stamp[s] => stamp[t] =< stamp[arena.next_free[s]]
    <3>1. CASE s + 1 < ArenaCapacity
      <4>1. s + 1 \in Slots /\ arena.next_free[s] = s + 1 /\ stamp[s + 1] = ArenaCapacity - s - 1
        BY <1>1, <1>2, <1>5, <3>1 DEF Slots
      <4>2. stamp[s] = ArenaCapacity - s
        BY <1>5
      <4>3. ~(\A t \in Slots : stamp[t] >= stamp[s])
        BY <1>1, <4>1, <4>2 DEF Slots
      <4>4. \A t \in Slots : stamp[t] < stamp[s] => stamp[t] =< stamp[s + 1]
        BY <1>1, <1>5, <4>1, <4>2 DEF Slots
      <4> QED  BY <1>1, <4>1, <4>2, <4>3, <4>4 DEF Slots
    <3>2. CASE ~(s + 1 < ArenaCapacity)
      <4>1. arena.next_free[s] = None
        BY <1>2, <3>2
      <4>2. \A t \in Slots : stamp[t] >= stamp[s]
        BY <1>1, <1>5, <3>2 DEF Slots
      <4> QED  BY <4>1, <4>2
    <3> QED  BY <3>1, <3>2
  <2> QED  BY <1>1, <1>2, <1>3, <2>1, <2>2, <2>3, ZenonT(30) DEF ArenaFreeListExact, Threaded
<1> QED  BY <1>3, <1>5, <1>8, <1>9 DEF NotificationInv, WordIsOwn

\* A generation advanced by less than a full turn is another one.
LEMMA NoFullTurn ==
  ASSUME NEW g \in 0 .. GenModulus - 1, NEW d \in Int, d >= 0, d < GenModulus, g = Wrapped(g, d)
  PROVE  d = 0
BY GenAssumption DEF Wrapped

\* A slot freed less often than that has not turned since any era.
LEMMA LessThanTurn ==
  ASSUME NEW f \in Nat, NEW e \in Nat, f < GenModulus
  PROVE  ~(f - e >= GenModulus)
BY GenAssumption

\* An id that is accepted before the generation came round names its own object.
LEMMA OwnObject ==
  ASSUME NEW x \in Ids, IdOk(x), frees \in [Slots -> Nat], Contains(arena, x),
         ~(frees[x.index] - x.era >= GenModulus)
  PROVE  stamp[x.index] = x.stamp
<1>1. PICK m : m = frees[x.index]
  OBVIOUS
<1>2. /\ m \in Nat /\ x.era \in Nat /\ x.generation \in 0 .. GenModulus - 1
      /\ ~(m - x.era >= GenModulus) /\ m - x.era >= 0
  BY <1>1, Zenon DEF IdOk, Ids
<1>3. PICK d : d = m - x.era
  OBVIOUS
<1>4. d \in Int /\ d >= 0 /\ d < GenModulus
  BY <1>2, <1>3, GenAssumption
<1>5. x.generation = Wrapped(x.generation, d)
  BY <1>1, <1>3, <1>4, Zenon DEF IdOk, Contains
<1>6. d = 0
  BY <1>2, <1>4, <1>5, NoFullTurn, Zenon
<1> QED  BY <1>1, <1>3, <1>6, Zenon DEF IdOk

\* A refused call changes nothing but the result.
LEMMA RefuseInv ==
  ASSUME NotificationInv, UNCHANGED <<arena, stamp, clock, frees, issued, raised>>
  PROVE  NotificationInv'
<1>1. /\ arena' = arena /\ stamp' = stamp /\ clock' = clock
      /\ frees' = frees /\ issued' = issued /\ raised' = raised
  OBVIOUS
<1>2. Types' /\ ArenaFreeListExact' /\ WordIsOwn'
  BY <1>1, Zenon DEF NotificationInv, Types, ArenaFreeListExact, WordIsOwn
<1>3. \A id : IdOk(id)' <=> IdOk(id)
  BY <1>1, Zenon DEF IdOk
<1> QED  BY <1>1, <1>2, <1>3, Zenon DEF NotificationInv

\* create_notification: the head of the free list is taken, under a new stamp.
LEMMA CreateInv ==
  ASSUME NotificationInv, NEW w \in SUBSET Bits, CreateNotification(w)
  PROVE  NotificationInv'
<1> DEFINE h == arena.free_head
           new == [index |-> h, generation |-> arena.generation[h], stamp |-> clock, era |-> frees[h]]
<1>1. CASE h = None
  BY <1>1, RefuseInv DEF CreateNotification, Refuse
<1>2. CASE h # None
  <2>1. /\ arena' = Allocate(arena, w) /\ issued' = issued \cup {new}
        /\ raised' = [n \in DOMAIN raised \cup {clock} |-> IF n = clock THEN w ELSE raised[n]]
        /\ stamp' = [stamp EXCEPT ![h] = clock] /\ clock' = clock + 1 /\ frees' = frees
    BY <1>2, Zenon DEF CreateNotification, FreshId, Stamped
  <2>2. /\ arena \in Arenas /\ stamp \in [Slots -> Nat] /\ clock \in Nat
        /\ \A s \in Slots : stamp[s] < clock
        /\ frees \in [Slots -> Nat] /\ issued \subseteq Ids
        /\ \A n \in DOMAIN raised : n < clock
        /\ \A s \in LiveSlots(arena) : stamp[s] \in DOMAIN raised
    BY DEF NotificationInv, Types
  <2>3. /\ arena' \in Arenas
        /\ LiveSlots(arena') = LiveSlots(arena) \cup {h}
        /\ arena'.entry[h] = w
        /\ \A s \in LiveSlots(arena) \ {h} : arena'.entry[s] = arena.entry[s]
        /\ arena'.generation = arena.generation
        /\ arena'.next_free = [arena.next_free EXCEPT ![h] = None]
        /\ arena'.free_head = arena.next_free[h]
    <3>1. PICK b : b = Allocate(arena, w)
      OBVIOUS
    <3>2. /\ b \in Arenas /\ LiveSlots(b) = LiveSlots(arena) \cup {h} /\ b.entry[h] = w
          /\ \A s \in LiveSlots(arena) \ {h} : b.entry[s] = arena.entry[s]
          /\ b.generation = arena.generation
          /\ b.next_free = [arena.next_free EXCEPT ![h] = None]
          /\ b.free_head = arena.next_free[h]
      <4>1. PICK a : a = arena
        OBVIOUS
      <4>2. a \in Arenas /\ a.free_head # None /\ b = Allocate(a, w)
        BY <1>2, <2>2, <3>1, <4>1, Zenon
      <4>3. /\ b \in Arenas /\ LiveSlots(b) = LiveSlots(a) \cup {a.free_head}
            /\ b.entry[a.free_head] = w
            /\ \A s \in LiveSlots(a) \ {a.free_head} : b.entry[s] = a.entry[s]
            /\ b.generation = a.generation
            /\ b.next_free = [a.next_free EXCEPT ![a.free_head] = None]
            /\ b.free_head = a.next_free[a.free_head]
        BY <4>2, AllocateParts, Zenon
      <4> QED  BY <4>1, <4>3, Zenon
    <3>3. arena' = b
      BY <2>1, <3>1, Zenon
    <3> QED  BY <3>2, <3>3, Zenon
  <2>4. /\ LiveSlots(arena) \subseteq Slots /\ FreeSlots(arena) = Slots \ LiveSlots(arena)
        /\ FreeSlots(arena') = Slots \ LiveSlots(arena')
        /\ arena.next_free \in [Slots -> Slots \cup {None}] /\ None \notin Slots
        /\ arena.generation \in [Slots -> 0 .. GenModulus - 1]
    BY <2>2, <2>3, ArenaParts, ZenonT(30)
  <2>5. Threaded(FreeSlots(arena), h, arena.next_free, stamp)
    BY DEF NotificationInv, ArenaFreeListExact
  <2>6. h \in FreeSlots(arena) /\ h \in Slots /\ h \notin LiveSlots(arena)
    <3>1. None \notin FreeSlots(arena)
      BY <2>4
    <3>2. h \in FreeSlots(arena)
      BY <1>2, <2>5, <3>1, ThreadedHead
    <3> QED  BY <2>4, <3>2
  <2>7. /\ stamp' \in [Slots -> Nat] /\ stamp'[h] = clock
        /\ \A s \in Slots \ {h} : stamp'[s] = stamp[s]
    BY <2>1, <2>2, <2>6, Zenon
  <2>8. Types'
    <3>1. \A s \in Slots : stamp'[s] < clock'
      BY <2>1, <2>2, <2>7
    <3>2. frees' \in [Slots -> Nat] /\ clock' \in Nat /\ new \in Ids /\ issued' \subseteq Ids
      <4>1. frees[h] \in Nat /\ arena.generation[h] \in 0 .. GenModulus - 1
        BY <2>2, <2>4, <2>6
      <4>2. new \in Ids
        BY <2>2, <2>6, <4>1, Zenon DEF Ids
      <4> QED  BY <2>1, <2>2, <4>2
    <3>3. PICK S \in SUBSET Nat : raised \in [S -> SUBSET Bits]
      BY DEF NotificationInv, Types
    <3>4. raised' \in [S \cup {clock} -> SUBSET Bits] /\ S \cup {clock} \in SUBSET Nat
      BY <2>1, <2>2, <3>3, Zenon
    <3>5. raised' \in UNION {[R -> SUBSET Bits] : R \in SUBSET Nat}
      BY <3>4
    <3>6. \A n \in DOMAIN raised' : n < clock'
      <4>1. DOMAIN raised' = DOMAIN raised \cup {clock}
        BY <2>1, Zenon
      <4>2. DOMAIN raised \subseteq Nat
        BY <3>3
      <4>3. clock \in Nat /\ clock' = clock + 1 /\ \A n \in DOMAIN raised : n < clock
        BY <2>1, <2>2, Zenon
      <4> QED  BY <4>1, <4>2, <4>3
    <3>7. \A s \in LiveSlots(arena') : stamp'[s] \in DOMAIN raised'
      <4>1. DOMAIN raised' = DOMAIN raised \cup {clock}
        BY <2>1, Zenon
      <4> HIDE DEF h
      <4>2. ASSUME NEW s \in LiveSlots(arena'), s # h PROVE stamp'[s] \in DOMAIN raised
        BY <2>2, <2>3, <2>4, <2>7, <4>2, Zenon
      <4> QED  BY <2>7, <4>1, <4>2, Zenon
    <3> QED  BY <2>3, <2>7, <3>1, <3>2, <3>5, <3>6, <3>7, Zenon DEF Types
  <2>9. ArenaFreeListExact'
    <3> DEFINE F == FreeSlots(arena) \ {h}
    <3>1. Threaded(F, arena.next_free[h], arena.next_free, stamp)
      <4>1. \A s \in FreeSlots(arena) : stamp[s] \in Int
        BY <2>2, <2>4
      <4> QED  BY <2>5, <2>6, <4>1, ThreadedPop, ZenonT(30)
    <3>2. \A s \in F : arena'.next_free[s] = arena.next_free[s] /\ stamp'[s] = stamp[s]
      BY <2>3, <2>4, <2>7, Zenon
    <3>3. FreeSlots(arena') = F
      BY <2>3, <2>4, Zenon
    <3> HIDE DEF F, h
    <3>4. Threaded(F, arena.next_free[h], arena'.next_free, stamp')
      BY <3>1, <3>2, ThreadedFrame
    <3> QED  BY <2>3, <3>3, <3>4, Zenon DEF ArenaFreeListExact
  <2>10. ASSUME NEW id \in issued' PROVE IdOk(id)'
    <3>1. CASE id = new
      <4>1. frees[h] - frees[h] = 0 /\ 0 >= 0
        BY <2>2, <2>6
      <4>2. arena.generation[h] = Wrapped(arena.generation[h], 0)
        BY <2>4, <2>6, GenAssumption DEF Wrapped
      <4>3. /\ id.index = h /\ id.stamp = clock /\ id.era = frees'[h]
            /\ id.generation = arena.generation[h]
        BY <2>1, <3>1, Zenon
      <4>4. clock \in DOMAIN raised' /\ \A s \in Slots : stamp'[s] = clock => s = h
        BY <2>1, <2>2, <2>7
      <4> HIDE DEF new, h
      <4> QED  BY <2>1, <2>3, <2>7, <4>1, <4>2, <4>3, <4>4, Zenon DEF IdOk
    <3>2. CASE id \in issued
      <4>1. IdOk(id) /\ id \in Ids
        BY <2>2, <3>2 DEF NotificationInv
      <4>2. id.stamp \in DOMAIN raised /\ id.index \in Slots
        BY <4>1, Zenon DEF IdOk, Ids
      <4>3. id.stamp \in DOMAIN raised' /\ id.stamp # clock
        <5>1. DOMAIN raised' = DOMAIN raised \cup {clock}
          BY <2>1, Zenon
        <5>2. clock \in Nat /\ \A n \in DOMAIN raised : n < clock
          BY <2>2, Zenon
        <5> QED  BY <4>2, <5>1, <5>2
      <4>4. frees[id.index] - id.era = 0 => id.index # h
        BY <2>6, <4>1, Zenon DEF IdOk
      <4> HIDE DEF h
      <4> QED  BY <2>1, <2>3, <2>7, <4>1, <4>2, <4>3, <4>4, Zenon DEF IdOk
    <3> QED  BY <2>1, <3>1, <3>2, Zenon
  <2>11. WordIsOwn'
    <3> SUFFICES ASSUME NEW s \in LiveSlots(arena'), frees'[s] < GenModulus
                 PROVE  arena'.entry[s] = raised'[stamp'[s]]
      BY DEF WordIsOwn
    <3>1. CASE s = h
      BY <2>1, <2>3, <2>7, <3>1, Zenon
    <3>2. CASE s # h
      <4>1. s \in LiveSlots(arena) /\ stamp'[s] = stamp[s] /\ arena'.entry[s] = arena.entry[s]
        BY <2>3, <2>4, <2>7, <3>2, Zenon
      <4>2. arena.entry[s] = raised[stamp[s]]
        BY <2>1, <4>1, Zenon DEF NotificationInv, WordIsOwn
      <4>3. stamp[s] # clock /\ stamp[s] \in DOMAIN raised
        BY <2>2, <2>4, <4>1
      <4> QED  BY <2>1, <4>1, <4>2, <4>3, Zenon
    <3> QED  BY <3>1, <3>2, Zenon
  <2> QED  BY <2>8, <2>9, <2>10, <2>11 DEF NotificationInv
<1> QED  BY <1>1, <1>2

\* destroy_notification: the slot goes to the head of the free list and its
\* generation moves on.
LEMMA DestroyInv ==
  ASSUME NotificationInv, NEW x \in issued, DestroyNotification(x)
  PROVE  NotificationInv'
<1> DEFINE i == x.index
<1>1. CASE ~Contains(arena, x)
  BY <1>1, RefuseInv DEF DestroyNotification, Refuse
<1>2. CASE Contains(arena, x)
  <2>1. /\ arena' = Release(arena, x) /\ issued' = issued /\ raised' = raised
        /\ stamp' = [stamp EXCEPT ![i] = clock] /\ clock' = clock + 1
        /\ frees' = [frees EXCEPT ![i] = @ + 1]
    BY <1>2 DEF DestroyNotification, Stamped
  <2>2. /\ arena \in Arenas /\ stamp \in [Slots -> Nat] /\ clock \in Nat
        /\ \A s \in Slots : stamp[s] < clock
        /\ frees \in [Slots -> Nat] /\ issued \subseteq Ids
        /\ \A n \in DOMAIN raised : n < clock
        /\ \A s \in LiveSlots(arena) : stamp[s] \in DOMAIN raised
    BY Zenon DEF NotificationInv, Types
  <2>3. /\ i \in LiveSlots(arena) /\ arena' \in Arenas
        /\ LiveSlots(arena') = LiveSlots(arena) \ {i}
        /\ \A s \in LiveSlots(arena') : arena'.entry[s] = arena.entry[s]
        /\ arena'.generation = [arena.generation EXCEPT ![i] = (@ + 1) % GenModulus]
        /\ arena'.next_free = [arena.next_free EXCEPT ![i] = arena.free_head]
        /\ arena'.free_head = i
    <3>1. arena \in Arenas /\ Contains(arena, x)
      BY <1>2, <2>2
    <3>2. /\ x.index \in LiveSlots(arena) /\ Release(arena, x) \in Arenas
          /\ LiveSlots(Release(arena, x)) = LiveSlots(arena) \ {x.index}
          /\ \A s \in LiveSlots(Release(arena, x)) : Release(arena, x).entry[s] = arena.entry[s]
          /\ Release(arena, x).generation =
               [arena.generation EXCEPT ![x.index] = (@ + 1) % GenModulus]
          /\ Release(arena, x).next_free = [arena.next_free EXCEPT ![x.index] = arena.free_head]
          /\ Release(arena, x).free_head = x.index
      BY <3>1, ReleaseParts, ZenonT(30)
    <3>3. arena' = Release(arena, x)
      BY <2>1
    <3> QED  BY <3>2, <3>3, ZenonT(30)
  <2>4. /\ LiveSlots(arena) \subseteq Slots /\ FreeSlots(arena) = Slots \ LiveSlots(arena)
        /\ FreeSlots(arena') = Slots \ LiveSlots(arena')
        /\ arena.next_free \in [Slots -> Slots \cup {None}] /\ None \notin Slots
        /\ arena.generation \in [Slots -> 0 .. GenModulus - 1]
    BY <2>2, <2>3, ArenaParts, ZenonT(30)
  <2>5. i \in Slots
    BY <2>3, <2>4, Zenon
  <2> HIDE DEF i
  <2>6. /\ stamp' \in [Slots -> Nat] /\ stamp'[i] = clock
        /\ \A s \in Slots \ {i} : stamp'[s] = stamp[s]
    BY <2>1, <2>2, <2>5
  <2>7. /\ frees' \in [Slots -> Nat] /\ frees'[i] = frees[i] + 1
        /\ \A s \in Slots \ {i} : frees'[s] = frees[s]
    <3>1. frees \in [Slots -> Nat] /\ frees[i] + 1 \in Nat
      BY <2>2, <2>5
    <3>2. frees' = [frees EXCEPT ![i] = frees[i] + 1]
      BY <2>1
    <3> QED  BY <2>5, <3>1, <3>2
  <2>8. Types'
    <3>1. \A s \in Slots : stamp'[s] < clock'
      BY <2>1, <2>2, <2>6
    <3>2. clock' \in Nat /\ issued' \subseteq Ids
      BY <2>1, <2>2
    <3>3. raised \in UNION {[S -> SUBSET Bits] : S \in SUBSET Nat}
      BY Zenon DEF NotificationInv, Types
    <3>4. DOMAIN raised \subseteq Nat
      BY <3>3, ZenonT(30)
    <3>5. \A n \in DOMAIN raised' : n < clock'
      BY <2>1, <2>2, <3>4
    <3>6. \A s \in LiveSlots(arena') : stamp'[s] \in DOMAIN raised'
      BY <2>1, <2>2, <2>3, <2>4, <2>6, Zenon
    <3> QED  BY <2>1, <2>3, <2>6, <2>7, <3>1, <3>2, <3>3, <3>5, <3>6, Zenon DEF Types
  <2>9. ArenaFreeListExact'
    <3> DEFINE F == FreeSlots(arena)
    <3>1. Threaded(F, arena.free_head, arena.next_free, stamp)
      BY DEF NotificationInv, ArenaFreeListExact
    <3>2. FreeSlots(arena') = F \cup {i} /\ i \notin F /\ None \notin F
      <4>1. \A s : s \in FreeSlots(arena') <=> s \in F \cup {i}
        BY <2>3, <2>4, <2>5, Zenon
      <4> QED  BY <2>3, <2>4, <4>1, Zenon
    <3>3. /\ \A s \in F : stamp[s] \in Int
          /\ \A s \in F : /\ arena'.next_free[s] = arena.next_free[s]
                          /\ stamp'[s] = stamp[s] /\ stamp[s] < stamp'[i]
          /\ stamp'[i] \in Int /\ arena'.next_free[i] = arena.free_head
      <4>1. F \subseteq Slots /\ i \notin F
        BY <2>3, <2>4, Zenon
      <4>2. \A s \in F : arena'.next_free[s] = arena.next_free[s] /\ stamp'[s] = stamp[s]
        BY <2>3, <2>4, <2>6, <4>1, Zenon
      <4>3. arena'.next_free[i] = arena.free_head
        BY <2>3, <2>4, <2>5, Zenon
      <4> HIDE DEF F
      <4>4. \A s \in F : stamp[s] \in Int /\ stamp[s] < clock
        BY <2>2, <4>1
      <4>5. stamp'[i] = clock /\ clock \in Int
        BY <2>2, <2>6
      <4> QED  BY <4>2, <4>3, <4>4, <4>5, Zenon
    <3> HIDE DEF F
    <3>4. Threaded(F \cup {i}, i, arena'.next_free, stamp')
      BY <3>1, <3>2, <3>3, ThreadedPush
    <3> QED  BY <2>3, <3>2, <3>4, Zenon DEF ArenaFreeListExact
  <2>10. ASSUME NEW id \in issued' PROVE IdOk(id)'
    <3>1. IdOk(id) /\ id \in Ids
      BY <2>1, <2>2 DEF NotificationInv
    <3>2. /\ id.index \in Slots /\ id.era \in Nat /\ id.stamp \in DOMAIN raised
          /\ id.generation \in 0 .. GenModulus - 1
      BY <3>1, Zenon DEF IdOk, Ids
    <3>3. \A s \in Slots : stamp'[s] = id.stamp => s = id.index
      <4>1. id.stamp # clock
        BY <2>2, <3>2
      <4> QED  BY <2>5, <2>6, <3>1, <4>1, Zenon DEF IdOk
    <3>4. CASE id.index # i
      <4>1. arena'.generation[id.index] = arena.generation[id.index]
        BY <2>3, <2>4, <2>5, <3>2, <3>4, Zenon
      <4> QED  BY <2>1, <2>3, <2>6, <2>7, <3>1, <3>2, <3>3, <3>4, <4>1, Zenon DEF IdOk
    <3>5. CASE id.index = i
      <4> DEFINE d == frees[i] - id.era
                 g == arena.generation[i]
      <4>1. d \in Int /\ d >= 0 /\ frees'[i] - id.era = d + 1
        <5>1. frees[i] \in Nat /\ frees'[i] = frees[i] + 1 /\ id.era \in Nat
          BY <2>2, <2>5, <2>7, <3>2, Zenon
        <5>2. frees[i] - id.era >= 0
          BY <3>1, <3>5, Zenon DEF IdOk
        <5> QED  BY <5>1, <5>2
      <4>2. g \in 0 .. GenModulus - 1 /\ GenModulus \in Nat
        BY <2>4, <2>5, GenAssumption
      <4>3. arena'.generation[i] = IF g + 1 < GenModulus THEN g + 1 ELSE 0
        <5>1. arena'.generation[i] = (g + 1) % GenModulus
          BY <2>3, <2>4, <2>5, Zenon
        <5> HIDE DEF g
        <5> QED  BY <4>2, <5>1, BumpGeneration
      <4>4. d < GenModulus => g = Wrapped(id.generation, d)
        BY <3>1, <3>5, Zenon DEF IdOk
      <4> HIDE DEF d, g
      <4>5. d + 1 < GenModulus => arena'.generation[i] = Wrapped(id.generation, d + 1)
        BY <3>2, <4>1, <4>2, <4>3, <4>4 DEF Wrapped
      <4>6. d + 1 >= 0 /\ d + 1 # 0
        BY <4>1
      <4> QED  BY <2>1, <3>2, <3>3, <3>5, <4>1, <4>5, <4>6, Zenon DEF IdOk
    <3> QED  BY <3>4, <3>5
  <2>11. WordIsOwn'
    <3> SUFFICES ASSUME NEW s \in LiveSlots(arena'), frees'[s] < GenModulus
                 PROVE  arena'.entry[s] = raised'[stamp'[s]]
      BY Zenon DEF WordIsOwn
    <3>1. /\ s \in LiveSlots(arena) /\ s # i /\ s \in Slots
          /\ stamp'[s] = stamp[s] /\ frees'[s] = frees[s] /\ arena'.entry[s] = arena.entry[s]
      BY <2>3, <2>4, <2>6, <2>7, Zenon
    <3> QED  BY <2>1, <3>1, Zenon DEF NotificationInv, WordIsOwn
  <2> QED  BY <2>8, <2>9, <2>10, <2>11 DEF NotificationInv
<1> QED  BY <1>1, <1>2

\* Notification::set and consume through get_mut: the word v is written, and r
\* is what is now raised for the object of the id x.
LEMMA SetWordInv ==
  ASSUME NotificationInv, NEW x \in issued, Contains(arena, x),
         NEW v \in SUBSET Bits, NEW r \in SUBSET Bits,
         arena.entry[x.index] = raised[x.stamp] => v = r,
         arena' = Update(arena, x, v), raised' = [raised EXCEPT ![x.stamp] = r],
         UNCHANGED <<stamp, clock, frees, issued>>
  PROVE  NotificationInv'
<1> DEFINE i == x.index
<1>1. /\ arena \in Arenas /\ stamp \in [Slots -> Nat] /\ clock \in Nat
      /\ \A s \in Slots : stamp[s] < clock
      /\ frees \in [Slots -> Nat] /\ issued \subseteq Ids
      /\ \A n \in DOMAIN raised : n < clock
      /\ \A s \in LiveSlots(arena) : stamp[s] \in DOMAIN raised
  BY Zenon DEF NotificationInv, Types
<1>2. /\ i \in LiveSlots(arena) /\ arena' \in Arenas
      /\ LiveSlots(arena') = LiveSlots(arena)
      /\ arena'.entry = [arena.entry EXCEPT ![i] = v]
      /\ arena'.generation = arena.generation /\ arena'.next_free = arena.next_free
      /\ arena'.free_head = arena.free_head
  <2>1. arena \in Arenas
    BY <1>1, Zenon
  <2>2. /\ x.index \in LiveSlots(arena) /\ Update(arena, x, v) \in Arenas
        /\ LiveSlots(Update(arena, x, v)) = LiveSlots(arena)
        /\ Update(arena, x, v).entry = [arena.entry EXCEPT ![x.index] = v]
        /\ Update(arena, x, v).generation = arena.generation
        /\ Update(arena, x, v).next_free = arena.next_free
        /\ Update(arena, x, v).free_head = arena.free_head
    <3>1. PICK a : a = arena
      OBVIOUS
    <3>2. a \in Arenas /\ Contains(a, x)
      BY <2>1, <3>1, Zenon
    <3>3. /\ x.index \in LiveSlots(a) /\ Update(a, x, v) \in Arenas
          /\ LiveSlots(Update(a, x, v)) = LiveSlots(a)
          /\ Update(a, x, v).entry = [a.entry EXCEPT ![x.index] = v]
          /\ Update(a, x, v).generation = a.generation
          /\ Update(a, x, v).next_free = a.next_free
          /\ Update(a, x, v).free_head = a.free_head
      BY <3>2, UpdateParts
    <3> QED  BY <3>1, <3>3, Zenon
  <2> QED  BY <2>2, ZenonT(30)
<1>3. /\ LiveSlots(arena) \subseteq Slots /\ FreeSlots(arena) = Slots \ LiveSlots(arena)
      /\ FreeSlots(arena') = Slots \ LiveSlots(arena')
      /\ arena.entry = [s \in LiveSlots(arena) |-> arena.entry[s]]
  BY <1>1, <1>2, ArenaParts, ZenonT(30)
<1>4. IdOk(x) /\ x \in Ids /\ x.stamp \in DOMAIN raised /\ i \in Slots
  BY <1>1, Zenon DEF NotificationInv, IdOk, Ids
<1>5. PICK S \in SUBSET Nat : raised \in [S -> SUBSET Bits]
  BY Zenon DEF NotificationInv, Types
<1>6. raised' \in [S -> SUBSET Bits] /\ DOMAIN raised' = DOMAIN raised
  BY <1>4, <1>5, Zenon
<1>7. Types'
  <2>1. raised' \in UNION {[R -> SUBSET Bits] : R \in SUBSET Nat}
    BY <1>5, <1>6, Zenon
  <2> QED  BY <1>1, <1>2, <1>6, <2>1, Zenon DEF Types
<1>8. ArenaFreeListExact'
  BY <1>2, <1>3, Zenon DEF NotificationInv, ArenaFreeListExact
<1>9. ASSUME NEW id \in issued' PROVE IdOk(id)'
  BY <1>2, <1>6, <1>9, Zenon DEF NotificationInv, IdOk
<1>10. WordIsOwn'
  <2> SUFFICES ASSUME NEW s \in LiveSlots(arena), frees[s] < GenModulus
               PROVE  arena'.entry[s] = raised'[stamp[s]]
    BY <1>2, ZenonT(30) DEF WordIsOwn
  <2>1. arena.entry[s] = raised[stamp[s]] /\ s \in Slots /\ stamp[s] \in DOMAIN raised
    BY <1>1, <1>3, Zenon DEF NotificationInv, WordIsOwn
  <2>2. CASE s = i
    <3>1. stamp[i] = x.stamp
      <4>1. frees[i] \in Nat /\ x.era \in Nat /\ frees[i] < GenModulus
        BY <1>1, <1>4, <2>2, Zenon DEF Ids
      <4>2. ~(frees[i] - x.era >= GenModulus)
        BY <4>1, LessThanTurn, Zenon
      <4> QED  BY <1>1, <1>4, <4>2, OwnObject, Zenon
    <3>2. v = r
      BY <2>1, <2>2, <3>1, Zenon
    <3>3. arena'.entry[i] = v
      BY <1>2, <1>3, Zenon
    <3>4. raised'[x.stamp] = r
      BY <1>4, <1>5, Zenon
    <3> QED  BY <2>2, <3>1, <3>2, <3>3, <3>4, Zenon
  <2>3. CASE s # i
    <3>1. stamp[s] # x.stamp
      BY <1>4, <2>1, <2>3, Zenon DEF IdOk
    <3>2. raised'[stamp[s]] = raised[stamp[s]]
      BY <1>5, <2>1, <3>1, Zenon
    <3>3. arena'.entry[s] = arena.entry[s]
      BY <1>2, <1>3, <2>3, Zenon
    <3> QED  BY <2>1, <3>2, <3>3, Zenon
  <2> QED  BY <2>2, <2>3, Zenon
<1> QED  BY <1>7, <1>8, <1>9, <1>10, Zenon DEF NotificationInv

\* ipc_notify ORs the bits into the word.
LEMMA NotifyInv ==
  ASSUME NotificationInv, NEW x \in issued, NEW e \in BOOLEAN, NEW b \in SUBSET Bits,
         IpcNotify(x, e, b)
  PROVE  NotificationInv'
<1>1. CASE ~e \/ ~Contains(arena, x)
  BY <1>1, RefuseInv, Zenon DEF IpcNotify, Refuse
<1>2. CASE e /\ Contains(arena, x)
  <2>1. /\ arena' = Update(arena, x, arena.entry[x.index] \cup b)
        /\ raised' = [raised EXCEPT ![x.stamp] = raised[x.stamp] \cup b]
        /\ UNCHANGED <<stamp, clock, frees, issued>>
    BY <1>2, Zenon DEF IpcNotify
  <2>2. arena.entry[x.index] \cup b \in SUBSET Bits
    <3>1. arena \in Arenas /\ x.index \in LiveSlots(arena)
      BY <1>2, Zenon DEF NotificationInv, Types, Contains
    <3> QED  BY <3>1, ArenaParts, ZenonT(30)
  <2>3. raised[x.stamp] \cup b \in SUBSET Bits
    <3>1. PICK S \in SUBSET Nat : raised \in [S -> SUBSET Bits]
      BY Zenon DEF NotificationInv, Types
    <3>2. x.stamp \in DOMAIN raised
      BY Zenon DEF NotificationInv, IdOk
    <3> QED  BY <3>1, <3>2, ZenonT(30)
  <2> QED  BY <1>2, <2>1, <2>2, <2>3, SetWordInv, ZenonT(30)
<1> QED  BY <1>1, <1>2

\* consume clears the word.
LEMMA ConsumeInv ==
  ASSUME NotificationInv, NEW x \in issued, Consume(x)
  PROVE  NotificationInv'
<1>1. CASE ~Contains(arena, x)
  BY <1>1, RefuseInv DEF Consume, Refuse
<1>2. CASE Contains(arena, x)
  <2>1. /\ arena' = Update(arena, x, {}) /\ raised' = [raised EXCEPT ![x.stamp] = {}]
        /\ UNCHANGED <<stamp, clock, frees, issued>> /\ {} \in SUBSET Bits
    BY <1>2 DEF Consume
  <2> QED  BY <1>2, <2>1, SetWordInv, ZenonT(30)
<1> QED  BY <1>1, <1>2

\* Every call keeps the invariant.
LEMMA NextNotificationInv ==
  NotificationInv /\ [NotificationNext]_notification_vars => NotificationInv'
<1> SUFFICES ASSUME NotificationInv, [NotificationNext]_notification_vars PROVE NotificationInv'
  OBVIOUS
<1>1. ASSUME NEW w \in SUBSET Bits, CreateNotification(w) PROVE NotificationInv'
  BY <1>1, CreateInv
<1>2. ASSUME NEW id \in issued, DestroyNotification(id) PROVE NotificationInv'
  BY <1>2, DestroyInv
<1>3. ASSUME NEW id \in issued, NEW e \in BOOLEAN, NEW b \in SUBSET Bits, IpcNotify(id, e, b)
      PROVE  NotificationInv'
  BY <1>3, NotifyInv
<1>4. ASSUME NEW id \in issued, Consume(id) PROVE NotificationInv'
  BY <1>4, ConsumeInv
<1>5. CASE UNCHANGED notification_vars
  BY <1>5, RefuseInv DEF notification_vars
<1> QED  BY <1>1, <1>2, <1>3, <1>4, <1>5 DEF NotificationNext

\* The inductive invariant holds throughout.
LEMMA AlwaysNotificationInv == NotificationSpec => []NotificationInv
<1>1. NotificationInit => NotificationInv
  BY InitNotificationInv
<1>2. NotificationInv /\ [NotificationNext]_notification_vars => NotificationInv'
  BY NextNotificationInv
<1> QED  BY <1>1, <1>2, PTL DEF NotificationSpec

\* The arena keeps its shape, for every capacity and set of bits.
THEOREM NotificationTypeTheorem == NotificationSpec => []NotificationTypeOK
<1>1. ASSUME NotificationInv PROVE NotificationTypeOK
  <2>1. arena \in Arenas
    BY <1>1, Zenon DEF NotificationInv, Types
  <2>2. DOMAIN arena = {"entry", "generation", "next_free", "free_head"}
    BY <2>1, Zenon DEF Arenas
  <2> QED  BY <2>1, <2>2, ArenaParts, ZenonT(30) DEF NotificationTypeOK, Slots
<1> QED  BY <1>1, AlwaysNotificationInv, PTL

\* arena.rs: the free list holds every empty slot exactly once, for every
\* capacity and every sequence of calls with live and stale ids.
THEOREM ArenaTheorem == NotificationSpec => []ArenaFreeListExact
<1>1. NotificationInv => ArenaFreeListExact
  BY DEF NotificationInv
<1> QED  BY <1>1, AlwaysNotificationInv, PTL

\* arena.rs: Arena::get accepts a stale id only after as many frees of its
\* slot as the generation has values.
THEOREM StaleIdTheorem == NotificationSpec => []StaleOnlyAfterWrap
<1>1. NotificationInv => StaleOnlyAfterWrap
  <2> SUFFICES ASSUME NotificationInv, NEW id \in issued, Contains(arena, id),
                      ~(frees[id.index] - id.era >= GenModulus)
               PROVE  stamp[id.index] = id.stamp
    BY DEF StaleOnlyAfterWrap
  <2>1. IdOk(id) /\ id \in Ids /\ frees \in [Slots -> Nat]
    BY Zenon DEF NotificationInv, Types
  <2> QED  BY <2>1, OwnObject, Zenon
<1> QED  BY <1>1, AlwaysNotificationInv, PTL

\* notification.rs: a word holds exactly what was raised through ids of its
\* own object, for every capacity, set of bits and width of the generation,
\* while the generation of its slot has not wrapped around.
THEOREM WordTheorem == NotificationSpec => []WordIsOwn
<1>1. NotificationInv => WordIsOwn
  BY DEF NotificationInv
<1> QED  BY <1>1, AlwaysNotificationInv, PTL

-----------------------------------------------------------------------------
(* Time.  Quotients are characterised by multiplication: k is at most      *)
(* a / b exactly when k * b is at most a.                                  *)

\* A product with a positive factor is ordered like the other factor.
LEMMA CancelFactor ==
  ASSUME NEW b \in Nat \ {0}, NEW x \in Int, NEW y \in Int, x * b < y * b
  PROVE  x < y
<1>1. SUFFICES ASSUME x >= y PROVE x * b >= y * b
  BY Z3
<1>2. PICK d \in Nat : x = y + d
  <2>1. x - y \in Nat /\ x = y + (x - y)
    BY <1>1
  <2> QED  BY <2>1
<1>3. x * b = y * b + d * b /\ d * b >= 0
  BY <1>2, Z3
<1> QED  BY <1>3, Z3

\* What integer division returns.
LEMMA Quotient ==
  ASSUME NEW a \in Nat, NEW b \in Nat \ {0}
  PROVE  /\ a \div b \in Nat
         /\ (a \div b) * b =< a
         /\ a < (a \div b) * b + b
BY Z3

\* Rounding down.
LEMMA Floor ==
  ASSUME NEW a \in Nat, NEW b \in Nat \ {0}, NEW k \in Nat
  PROVE  k =< a \div b <=> k * b =< a
<1> DEFINE q == a \div b
<1>1. q \in Nat /\ q * b =< a /\ a < q * b + b
  BY Quotient
<1> HIDE DEF q
<1>2. ASSUME k =< q PROVE k * b =< a
  <2>1. SUFFICES ASSUME q * b < k * b PROVE FALSE
    BY <1>1, Z3
  <2> QED  BY <1>1, <1>2, <2>1, CancelFactor
<1>3. ASSUME k * b =< a PROVE k =< q
  <2>1. (q + 1) * b = q * b + b
    BY <1>1, Z3
  <2>2. k * b < (q + 1) * b
    BY <1>1, <1>3, <2>1, Z3
  <2>3. k < q + 1
    BY <1>1, <2>2, CancelFactor
  <2> QED  BY <1>1, <2>3
<1> QED  BY <1>2, <1>3 DEF q

\* Rounding up.
LEMMA Ceiling ==
  ASSUME NEW a \in Nat, NEW b \in Nat \ {0}, NEW k \in Nat
  PROVE  (a + b - 1) \div b =< k <=> a =< k * b
<1> DEFINE q == (a + b - 1) \div b
<1>1. a + b - 1 \in Nat
  OBVIOUS
<1>2. q \in Nat /\ k + 1 \in Nat
  BY <1>1, Quotient
<1>3. k + 1 =< q <=> (k + 1) * b =< a + b - 1
  BY <1>1, <1>2, Floor
<1>4. (k + 1) * b = k * b + b /\ k * b \in Nat
  BY Z3
<1>5. k + 1 =< q <=> ~(q =< k)
  BY <1>2
<1>6. (k + 1) * b =< a + b - 1 <=> ~(a =< k * b)
  BY <1>4
<1> QED  BY <1>3, <1>5, <1>6

-----------------------------------------------------------------------------
\* The values of the conversions, where they do not saturate.
LEMMA Words ==
  ASSUME NEW f \in Nat \ {0}, NEW c \in Nat, NEW ns \in Nat
  PROVE  /\ c * Nanos \in Nat /\ ns * f \in Nat
         /\ TicksToNs(c, f) \in 0 .. MaxWord
         /\ c * Nanos =< MaxWord * f => TicksToNs(c, f) = (c * Nanos) \div f
         /\ ns * f =< MaxWord * Nanos => NsToTicks(ns, f) = (ns * f + Nanos - 1) \div Nanos
<1>1. Nanos \in Nat \ {0} /\ MaxWord \in Nat \ {0}
  BY TimerAssumption
<1>2. c * Nanos \in Nat /\ ns * f \in Nat
  BY <1>1, Z3
<1>3. (c * Nanos) \div f \in Nat /\ MaxWord + 1 \in Nat
  BY <1>1, <1>2, Quotient
<1>4. TicksToNs(c, f) \in 0 .. MaxWord
  BY <1>1, <1>3 DEF TicksToNs, Saturate
<1>5. ASSUME c * Nanos =< MaxWord * f
      PROVE  TicksToNs(c, f) = (c * Nanos) \div f
  <2>1. MaxWord + 1 =< (c * Nanos) \div f <=> (MaxWord + 1) * f =< c * Nanos
    BY <1>2, <1>3, Floor
  <2>2. (MaxWord + 1) * f = MaxWord * f + f /\ MaxWord * f \in Nat
    BY <1>1, Z3
  <2>3. ~((c * Nanos) \div f > MaxWord)
    BY <1>1, <1>2, <1>3, <1>5, <2>1, <2>2
  <2> QED  BY <2>3 DEF TicksToNs, Saturate
<1>6. ASSUME ns * f =< MaxWord * Nanos
      PROVE  NsToTicks(ns, f) = (ns * f + Nanos - 1) \div Nanos
  <2>1. (ns * f + Nanos - 1) \div Nanos =< MaxWord
    BY <1>1, <1>2, <1>6, Ceiling
  <2>2. (ns * f + Nanos - 1) \div Nanos \in Nat
    BY <1>1, <1>2, Quotient
  <2> QED  BY <1>1, <2>1, <2>2 DEF NsToTicks, Saturate
<1> QED  BY <1>2, <1>4, <1>5, <1>6, Zenon

\* A deadline is armed at the first tick at which now_ns has reached it:
\* ns_to_ticks(ns) is at most c exactly when ns is at most ticks_to_ns(c).
THEOREM DeadlineTheorem ==
  ASSUME NEW f \in Nat \ {0}, NEW c \in Nat, NEW ns \in Nat,
         ns * f =< MaxWord * Nanos, c * Nanos =< MaxWord * f
  PROVE  NsToTicks(ns, f) =< c <=> ns =< TicksToNs(c, f)
<1>1. Nanos \in Nat \ {0}
  BY TimerAssumption
<1>2. c * Nanos \in Nat /\ ns * f \in Nat
  BY Words
<1>3. NsToTicks(ns, f) = (ns * f + Nanos - 1) \div Nanos
  BY Words
<1>4. TicksToNs(c, f) = (c * Nanos) \div f
  BY Words
<1>5. (ns * f + Nanos - 1) \div Nanos =< c <=> ns * f =< c * Nanos
  BY <1>1, <1>2, Ceiling, Zenon
<1>6. ns =< (c * Nanos) \div f <=> ns * f =< c * Nanos
  BY <1>2, Floor
<1> QED  BY <1>3, <1>4, <1>5, <1>6

\* ticks_to_ns never decreases, saturation included.
LEMMA TicksMonotone ==
  ASSUME NEW f \in Nat \ {0}, NEW c \in Nat
  PROVE  TicksToNs(c, f) =< TicksToNs(c + 1, f)
<1> DEFINE q == (c * Nanos) \div f
           r == ((c + 1) * Nanos) \div f
<1>1. Nanos \in Nat \ {0} /\ MaxWord \in Nat \ {0}
  BY TimerAssumption
<1>2. c * Nanos \in Nat /\ (c + 1) * Nanos = c * Nanos + Nanos
  BY <1>1, Z3
<1>3. q \in Nat /\ q * f =< c * Nanos /\ r \in Nat
  BY <1>1, <1>2, Quotient
<1>4. q * f \in Nat
  BY <1>3, Z3
<1>5. q * f =< (c + 1) * Nanos /\ (c + 1) * Nanos \in Nat
  BY <1>1, <1>2, <1>3, <1>4
<1>6. q =< r
  BY <1>3, <1>5, Floor
<1> QED  BY <1>1, <1>3, <1>6 DEF TicksToNs, Saturate

-----------------------------------------------------------------------------
\* The inductive invariant: types, and now is the converted ticks.
ClockInv == ClockTypeOK /\ now = TicksToNs(ticks, freq)

\* The counter runs forward and the clock reads it.
LEMMA AlwaysClockInv == ClockSpec => []ClockInv
<1>1. ClockInit => ClockInv
  <2> SUFFICES ASSUME ClockInit PROVE ClockInv
    OBVIOUS
  <2>1. freq \in Nat \ {0} /\ ticks = 0
    BY MaxFreqAssumption DEF ClockInit
  <2> QED  BY <2>1, Words, TimerAssumption DEF ClockInit, ClockInv, ClockTypeOK
<1>2. ClockInv /\ [ClockNext]_clock_vars => ClockInv'
  <2> SUFFICES ASSUME ClockInv, [ClockNext]_clock_vars PROVE ClockInv'
    OBVIOUS
  <2>1. CASE ClockTick
    <3>1. freq \in Nat \ {0} /\ ticks + 1 \in Nat
      BY MaxFreqAssumption, TimerAssumption DEF ClockInv, ClockTypeOK
    <3>2. TicksToNs(ticks + 1, freq) \in 0 .. MaxWord
      BY <3>1, Words
    <3> QED  BY <2>1, <3>2, TimerAssumption DEF ClockTick, ClockInv, ClockTypeOK
  <2>2. CASE UNCHANGED clock_vars
    BY <2>2 DEF clock_vars, ClockInv, ClockTypeOK
  <2> QED  BY <2>1, <2>2 DEF ClockNext
<1> QED  BY <1>1, <1>2, PTL DEF ClockSpec

\* now_ns never goes back.
THEOREM MonotoneTheorem == ClockSpec => NowMonotone
<1>1. ClockInv /\ [ClockNext]_clock_vars => [now' >= now]_clock_vars
  <2> SUFFICES ASSUME ClockInv, ClockTick PROVE now' >= now
    BY DEF ClockNext
  <2>1. freq \in Nat \ {0} /\ ticks \in Nat
    BY MaxFreqAssumption, TimerAssumption DEF ClockInv, ClockTypeOK
  <2>2. TicksToNs(ticks, freq) =< TicksToNs(ticks + 1, freq)
    BY <2>1, TicksMonotone
  <2>3. TicksToNs(ticks, freq) \in 0 .. MaxWord /\ TicksToNs(ticks + 1, freq) \in 0 .. MaxWord
    BY <2>1, Words
  <2> QED  BY <2>2, <2>3, TimerAssumption DEF ClockTick, ClockInv
<1> QED  BY <1>1, AlwaysClockInv, PTL DEF ClockSpec, NowMonotone

\* An armed comparator has matched exactly when now_ns is at or past the
\* deadline, in every reachable state.
THEOREM ExactTheorem == ClockSpec => [](ClockTypeOK /\ DeadlineExact)
<1>1. ClockInv => ClockTypeOK /\ DeadlineExact
  <2> SUFFICES ASSUME ClockInv,
                      NEW ns \in 0 .. MaxWord,
                      ns * freq =< MaxWord * Nanos, ticks * Nanos =< MaxWord * freq
               PROVE  NsToTicks(ns, freq) =< ticks <=> ns =< now
    BY DEF ClockInv, DeadlineExact
  <2>1. freq \in Nat \ {0} /\ ticks \in Nat /\ ns \in Nat
    BY MaxFreqAssumption, TimerAssumption DEF ClockInv, ClockTypeOK
  <2>2. now = TicksToNs(ticks, freq)
    BY DEF ClockInv
  <2> QED  BY <2>1, <2>2, DeadlineTheorem
<1> QED  BY <1>1, AlwaysClockInv, PTL

\* resolution_ns: the reported resolution is the true period rounded to the
\* nearest nanosecond, and at least 1, for every frequency.
THEOREM ResolutionTheorem == ClockSpec => []ResolutionNearest
<1>1. ClockInv => ResolutionNearest
  <2> SUFFICES ASSUME ClockInv PROVE ResolutionNearest
    OBVIOUS
  <2>1. freq \in Nat \ {0} /\ Nanos \in Nat \ {0}
    BY MaxFreqAssumption, TimerAssumption DEF ClockInv, ClockTypeOK
  <2>2. PICK h : h = freq \div 2
    OBVIOUS
  <2>3. h \in Nat /\ 2 * h =< freq /\ freq =< 2 * h + 1
    BY <2>1, <2>2, Z3
  <2>4. PICK raw : raw = (Nanos + h) \div freq
    OBVIOUS
  <2>5. raw \in Nat /\ raw * freq =< Nanos + h /\ Nanos + h < raw * freq + freq
    BY <2>1, <2>3, <2>4, Quotient
  <2>6. PICK p : p = raw * freq
    OBVIOUS
  <2>7. p \in Nat /\ (raw = 0 => p = 0)
    BY <2>1, <2>5, <2>6, Z3
  <2>8. CASE raw = 0
    <3>1. ResolutionNs(freq) = 1 /\ 1 * freq = freq
      BY <2>1, <2>2, <2>4, <2>8 DEF ResolutionNs
    <3>2. 2 * (Nanos - freq) =< freq
      BY <2>1, <2>3, <2>5, <2>6, <2>7, <2>8
    <3> QED  BY <3>1, <3>2 DEF ResolutionNearest
  <2>9. CASE raw # 0
    <3>1. ResolutionNs(freq) = raw /\ raw >= 1
      BY <2>2, <2>4, <2>5, <2>9 DEF ResolutionNs
    <3>2. 2 * (Nanos - p) =< freq /\ 2 * (p - Nanos) =< freq
      BY <2>1, <2>3, <2>5, <2>6, <2>7
    <3> QED  BY <2>6, <3>1, <3>2 DEF ResolutionNearest
  <2> QED  BY <2>8, <2>9
<1> QED  BY <1>1, AlwaysClockInv, PTL

-----------------------------------------------------------------------------
(* Boot, devices and masks.                                                *)

\* The boot code before it unmasks, and where each step of it is done.
Masking == {"post_eret", "entry", "cpu", "vectors", "gic", "gic_off", "gic_configured",
            "gic_ready"}
VectorsDone == {"vectors", "gic", "gic_off", "gic_configured", "gic_ready", "setup",
                "registered", "tasks"}
GicCellDone == VectorsDone \ {"vectors"}
SpisOff == {"gic_configured", "gic_ready", "setup", "registered", "tasks"}

BootInv ==
  /\ pc \in {"reset", "halted"} \cup Masking \cup VectorsDone
  /\ handler \in {"none", "entered", "acked", "ending", "return"}
  /\ pc \in {"reset", "halted"} \cup Masking => handler = "none"
  /\ pc \in Masking => masked = TRUE
  /\ pc \notin {"reset", "halted"} => el = 1
  /\ pc \in VectorsDone => vbar = TRUE
  /\ pc \in GicCellDone => gic_cell = TRUE
  /\ IF pc \in SpisOff THEN enabled \subseteq {TimerIrq} ELSE enabled \subseteq Spis
  /\ asserted \subseteq Spis
  /\ handler \in {"acked", "ending"} => irq = TimerIrq

\* The last arm_deadline may yet lead to an interrupt.
ToCome == fired = 0 \/ (fired = 1 /\ rearmed = 1)

\* The timer interrupt is acknowledged only while the timer is on, and the
\* timer is on only while an interrupt is to come; between the two writes of
\* arm_deadline only because it was on before, and then two are to come.
DeviceInv ==
  /\ active = IF handler \in {"acked", "ending"} THEN {TimerIrq} ELSE {}
  /\ rearmed \in {0, 1}
  /\ ToCome \/ fired = 1 \/ (fired = 2 /\ rearmed = 1)
  /\ ctl = 1 => ToCome /\ quiet = FALSE
  /\ handler = "acked" => ctl = 1
  /\ handler = "ending" => quiet = FALSE
  /\ pc = "tasks" =>
       /\ tpc[current] = "cancel_gic" => ctl = 2
       /\ tpc[current] = "arm_ctl" => /\ ToCome /\ quiet = FALSE
                                      /\ ctl = 1 => fired = 0 /\ rearmed = 1

\* Only the running task is anywhere but before its first turn or inside a
\* switch.
TaskInv ==
  /\ current \in Tasks
  /\ tpc \in [Tasks -> {"new", "run", "arm_ctl", "arm_gic", "cancel_gic",
                        "entry", "guarded", "switched", "drop"}]
  /\ pc # "tasks" => \A t \in Tasks : tpc[t] = "new"
  /\ pc = "tasks" => \A t \in Tasks : t = current <=> tpc[t] \notin {"new", "switched"}

\* What a guard has saved is what its task chose.
MaskInv ==
  /\ masked \in BOOLEAN /\ spsr \in BOOLEAN
  /\ prev \in [Tasks -> BOOLEAN] /\ chosen \in [Tasks -> BOOLEAN]
  /\ \A t \in Tasks :
       /\ tpc[t] \in {"new", "entry"} => chosen[t] = TRUE
       /\ tpc[t] \in {"guarded", "switched", "drop"} => prev[t] = chosen[t]
  /\ pc = "tasks" =>
       IF tpc[current] \in {"guarded", "drop"} THEN masked = TRUE /\ handler = "none"
       ELSE IF handler = "none" THEN masked = chosen[current]
       ELSE masked = TRUE /\ spsr = chosen[current]

IInv == BootInv /\ DeviceInv /\ TaskInv /\ MaskInv

-----------------------------------------------------------------------------
(* What the three kinds of steps leave alone.                              *)

\* The boot code touches neither the timer nor the tasks' masks.
LEMMA BootLeaves ==
  ASSUME Boot
  PROVE  /\ handler = "none" /\ pc # "tasks"
         /\ UNCHANGED <<timer_vars, handler_vars, asserted, active, current, prev, chosen, turn,
                        frame>>
BY Zenon DEF Boot, ResetStub, PostEret, CpuNew, InstallVectors, PublishGic, GicOff, GicConfigure,
       GicOn, Unmask, InitContexts, StartFirst, At, BootFrame, task_vars, reg_vars, gic_vars

\* A task touches neither the boot state nor an interrupt being handled, and
\* of the lines only the timer's.
LEMMA TaskLeaves ==
  ASSUME TaskStep
  PROVE  /\ handler = "none" /\ pc = "tasks"
         /\ UNCHANGED <<boot_vars, handler_vars, asserted, active>>
         /\ enabled' \subseteq enabled \cup {TimerIrq}
BY ZenonT(30) DEF TaskStep, EnterTask, TaskUnmask, ArmCompare, ArmControl, ArmEnable, CancelControl,
       CancelDisable, EnterGuard, DropGuard, Switch, TaskAt, TaskFrame

\* The handler touches none of the tasks' variables.
LEMMA HandlerLeaves ==
  ASSUME HandlerStep
  PROVE  /\ handler # "none"
         /\ UNCHANGED <<el, vbar, gic_cell, enabled, asserted, task_vars>>
BY Zenon DEF HandlerStep, Acknowledge, Dispatch, EndOfInterrupt, Eret, HandlerFrame, boot_vars

\* The loop over the clear-enable registers reaches every shared line.
LEMMA SpisAreCleared == Spis \subseteq ClearedByInit
<1>1. ASSUME NEW w \in Nat \ {0}, NEW l \in Nat, l >= w PROVE l \div w >= 1
  BY <1>1, Z3
<1>2. RegWidth \in Nat \ {0} /\ IrqCount \in Int
  BY IrqAssumption DEF IrqCount
<1> QED  BY <1>1, <1>2 DEF Spis, ClearedByInit, Lines

\* The timer's line is private.
LEMMA TimerIsPrivate == TimerIrq \notin Spis
BY IrqAssumption DEF Spis, Lines

\* In the handler only the timer can be signalled, when it is on and its
\* comparator has matched.
LEMMA SignalledIsTimer ==
  ASSUME IInv, handler = "entered", NEW l \in Signalled
  PROVE  l = TimerIrq /\ ctl = 1 /\ count >= cval
<1>1. l \in Pending /\ l \in enabled /\ enabled \subseteq {TimerIrq} /\ asserted \subseteq Spis
  BY DEF Signalled, IInv, BootInv, Masking, VectorsDone, SpisOff
<1> QED  BY <1>1, TimerIsPrivate DEF Pending, TimerLine

-----------------------------------------------------------------------------
\* The machine comes out of reset in the invariant.
LEMMA InitIInv == Init => IInv
<1> SUFFICES ASSUME Init PROVE IInv
  OBVIOUS
<1>1. BootInv /\ DeviceInv /\ TaskInv
  BY Zenon DEF Init, BootInv, DeviceInv, ToCome, TaskInv, Masking, VectorsDone, GicCellDone,
     SpisOff
<1>2. MaskInv
  BY ZenonT(30) DEF Init, MaskInv
<1> QED  BY <1>1, <1>2 DEF IInv

-----------------------------------------------------------------------------
\* The boot order and the acknowledge protocol.
LEMMA BootInvNext ==
  ASSUME IInv, Next
  PROVE  BootInv'
<1> USE DEF BootInv, Masking, VectorsDone, GicCellDone, SpisOff
<1>0. BootInv
  BY Zenon DEF IInv
<1>1. CASE Boot
  <2>1. UNCHANGED <<handler, irq, asserted>> /\ handler = "none"
    BY <1>1, BootLeaves DEF handler_vars
  <2>2. CASE ResetStub \/ PostEret \/ CpuNew \/ InstallVectors \/ PublishGic \/ GicOff
    <3>1. Freq > 0
      BY IrqAssumption
    <3> QED  BY <1>0, <2>1, <2>2, <3>1, Zenon DEF ResetStub, PostEret, CpuNew, InstallVectors,
                PublishGic, GicOff, At, gic_vars
  <2>3. CASE GicConfigure
    BY <1>0, <2>1, <2>3, SpisAreCleared, Zenon DEF GicConfigure, At
  <2>4. CASE GicOn \/ Unmask \/ InitContexts \/ StartFirst
    BY <1>0, <2>1, <2>4, Zenon DEF GicOn, Unmask, InitContexts, StartFirst, At, gic_vars
  <2> QED  BY <1>1, <2>2, <2>3, <2>4, ZenonT(30) DEF Boot
<1>2. CASE TaskStep
  BY <1>0, <1>2, TaskLeaves, Zenon DEF boot_vars, handler_vars
<1>3. CASE TakeIrq
  BY <1>0, <1>3, Zenon DEF TakeIrq, HandlerFrame, boot_vars
<1>4. CASE HandlerStep
  <2>1. UNCHANGED <<el, vbar, gic_cell, enabled, asserted>> /\ handler # "none"
    BY <1>4, HandlerLeaves
  <2>2. CASE Acknowledge
    <3>1. Signalled \subseteq {TimerIrq} /\ pc \in SpisOff \ Masking /\ pc' = pc
      BY <1>0, <2>1, <2>2, Zenon DEF Signalled, Acknowledge, HandlerFrame, boot_vars
    <3> QED  BY <1>0, <2>1, <2>2, <3>1, Zenon DEF Acknowledge
  <2>3. CASE Dispatch
    BY <1>0, <2>1, <2>3, Zenon DEF Dispatch
  <2>4. CASE EndOfInterrupt \/ Eret
    BY <1>0, <2>1, <2>4, Zenon DEF EndOfInterrupt, Eret, HandlerFrame, boot_vars
  <2> QED  BY <1>4, <2>2, <2>3, <2>4, ZenonT(30) DEF HandlerStep
<1>5. CASE Tick
  BY <1>0, <1>5, Zenon DEF Tick, boot_vars, handler_vars, gic_vars
<1> QED  BY <1>1, <1>2, <1>3, <1>4, <1>5, ZenonT(30) DEF Next

\* The timer and the interrupt controller.
LEMMA DeviceInvNext ==
  ASSUME IInv, Next
  PROVE  DeviceInv'
<1> USE DEF DeviceInv, ToCome
<1>0. /\ DeviceInv /\ current \in Tasks /\ DOMAIN tpc = Tasks
      /\ pc # "tasks" => \A t \in Tasks : tpc[t] = "new"
      /\ pc = "tasks" => \A t \in Tasks : t = current <=> tpc[t] \notin {"new", "switched"}
  BY Zenon DEF IInv, TaskInv
<1>1. CASE Boot
  <2>1. handler = "none" /\ UNCHANGED <<timer_vars, handler, active, current>>
    BY <1>1, BootLeaves DEF handler_vars
  <2>2. pc' = "tasks" => tpc'[current] = "entry"
    BY <1>0, <1>1, Zenon DEF Boot, ResetStub, PostEret, CpuNew, InstallVectors, PublishGic, GicOff,
       GicConfigure, GicOn, Unmask, InitContexts, StartFirst, At
  <2> QED  BY <1>0, <2>1, <2>2, Zenon DEF timer_vars
<1>2. CASE TaskStep
  <2>1. handler = "none" /\ pc = "tasks" /\ UNCHANGED <<pc, handler, active>>
    BY <1>2, TaskLeaves DEF boot_vars, handler_vars
  <2>2. PICK t \in Tasks : \/ EnterTask(t) \/ TaskUnmask(t)
                           \/ \E d \in Deadlines : ArmCompare(t, d)
                           \/ ArmControl(t) \/ ArmEnable(t)
                           \/ CancelControl(t) \/ CancelDisable(t)
                           \/ EnterGuard(t) \/ DropGuard(t)
                           \/ \E u \in Tasks : Switch(t, u)
    BY <1>2, Zenon DEF TaskStep
  <2>3. CASE EnterTask(t) \/ TaskUnmask(t) \/ EnterGuard(t) \/ DropGuard(t)
    BY <1>0, <2>1, <2>3, Zenon DEF EnterTask, TaskUnmask, EnterGuard, DropGuard, TaskAt, timer_vars
  <2>4. CASE \E d \in Deadlines : ArmCompare(t, d)
    BY <1>0, <2>1, <2>4, Zenon DEF ArmCompare, Arming, TaskAt, Goto
  <2>5. CASE ArmControl(t) \/ ArmEnable(t)
    BY <1>0, <2>1, <2>5, Zenon DEF ArmControl, ArmEnable, TaskAt, Goto, timer_vars
  <2>6. CASE CancelControl(t) \/ CancelDisable(t)
    <3>1. CASE CancelControl(t)
      <4>1. /\ tpc[t] = "run" /\ tpc' = [tpc EXCEPT ![t] = "cancel_gic"] /\ ctl' = 2
            /\ fired' = fired /\ rearmed' = rearmed /\ quiet' = quiet /\ current' = t
        BY <3>1, Zenon DEF CancelControl, TaskAt, Goto
      <4>2. tpc'[t] = "cancel_gic"
        BY <1>0, <4>1, Zenon
      <4>3. ctl' # 1
        BY <4>1
      <4> QED  BY <1>0, <2>1, <4>1, <4>2, <4>3, Zenon
    <3>2. CASE CancelDisable(t)
      <4>1. /\ current = t /\ tpc[t] = "cancel_gic" /\ tpc' = [tpc EXCEPT ![t] = "run"]
            /\ fired' = fired /\ rearmed' = rearmed /\ ctl' = ctl /\ current' = t
        BY <3>2, Zenon DEF CancelDisable, TaskAt, Goto
      <4>2. tpc'[t] = "run" /\ ctl = 2
        BY <1>0, <2>1, <4>1, Zenon
      <4>3. ctl' # 1
        BY <4>1, <4>2
      <4> QED  BY <1>0, <2>1, <4>1, <4>2, <4>3, Zenon
    <3> QED  BY <2>6, <3>1, <3>2, Zenon
  <2>7. CASE \E u \in Tasks : Switch(t, u)
    BY <1>0, <2>1, <2>7, Zenon DEF Switch, TaskAt, timer_vars
  <2> QED  BY <2>2, <2>3, <2>4, <2>5, <2>6, <2>7, ZenonT(30)
<1>3. CASE TakeIrq
  BY <1>0, <1>3, Zenon DEF TakeIrq, HandlerFrame, boot_vars, task_vars, timer_vars
<1>4. CASE HandlerStep
  <2>0. handler # "none" /\ UNCHANGED <<tpc, current>> /\ BootInv
    BY <1>4, HandlerLeaves, Zenon DEF task_vars, IInv
  <2>1. CASE Acknowledge
    <3>1. UNCHANGED <<ctl, quiet, fired, rearmed, pc>> /\ handler = "entered"
      BY <2>1, Zenon DEF Acknowledge, HandlerFrame, boot_vars, timer_vars
    <3>2. CASE Signalled = {}
      BY <1>0, <2>0, <2>1, <3>1, <3>2, Zenon DEF Acknowledge
    <3>3. ASSUME NEW l \in Signalled PROVE l = TimerIrq /\ ctl = 1
      BY <3>1, <3>3, SignalledIsTimer
    <3>4. ASSUME Signalled # {} PROVE handler' = "acked" /\ ctl = 1 /\ active' = {TimerIrq}
      BY <1>0, <2>1, <3>1, <3>3, <3>4, Zenon DEF Acknowledge
    <3> QED  BY <1>0, <2>0, <3>1, <3>2, <3>4, ZenonT(30)
  <2>2. CASE Dispatch
    <3>1. handler = "acked" /\ irq = TimerIrq
      BY <2>0, <2>2, Zenon DEF Dispatch, BootInv
    <3>2. /\ ctl' = 2 /\ fired' = fired + 1 /\ handler' = "ending"
          /\ UNCHANGED <<pc, active, quiet, rearmed>>
      BY <2>2, <3>1, Zenon DEF Dispatch
    <3>3. ctl = 1 /\ ToCome /\ quiet = FALSE /\ active = {TimerIrq}
      BY <1>0, <3>1, Zenon
    <3>4. ctl' # 1 /\ (fired = 0 => fired' = 1) /\ (fired = 1 => fired' = 2)
      BY <3>2
    <3>5. pc' = "tasks" /\ tpc'[current'] = "arm_ctl" => ToCome' /\ quiet' = FALSE
      BY <1>0, <2>0, <3>2, <3>3, <3>4, Zenon
    <3>6. ToCome' \/ fired' = 1 \/ (fired' = 2 /\ rearmed' = 1)
      BY <3>2, <3>3, <3>4, Zenon
    <3> QED  BY <1>0, <2>0, <3>2, <3>3, <3>4, <3>5, <3>6, Zenon
  <2>3. CASE EndOfInterrupt \/ Eret
    BY <1>0, <2>0, <2>3, Zenon DEF EndOfInterrupt, Eret, HandlerFrame, BootInv, boot_vars,
       timer_vars
  <2> QED  BY <1>4, <2>1, <2>2, <2>3, ZenonT(30) DEF HandlerStep
<1>5. CASE Tick
  BY <1>0, <1>5, Zenon DEF Tick, boot_vars, handler_vars, gic_vars, timer_vars, task_vars
<1> QED  BY <1>1, <1>2, <1>3, <1>4, <1>5, ZenonT(30) DEF Next

-----------------------------------------------------------------------------
\* Exactly one task is outside the switch.
LEMMA TaskInvNext ==
  ASSUME IInv, Next
  PROVE  TaskInv'
<1> USE DEF TaskInv
<1>0. TaskInv
  BY DEF IInv
<1>1. CASE Boot
  <2>1. UNCHANGED current /\ pc # "tasks"
    BY <1>1, BootLeaves
  <2>2. CASE StartFirst
    BY <1>0, <2>1, <2>2, Zenon DEF StartFirst
  <2>3. CASE ~StartFirst
    <3>1. UNCHANGED tpc /\ pc' # "tasks"
      BY <1>1, <2>3, Zenon DEF Boot, ResetStub, PostEret, CpuNew, InstallVectors, PublishGic,
         GicOff,
         GicConfigure, GicOn, Unmask, InitContexts, At, BootFrame, task_vars
    <3> QED  BY <1>0, <2>1, <3>1, Zenon
  <2> QED  BY <2>2, <2>3, Zenon
<1>2. CASE TaskStep
  <2>1. pc = "tasks" /\ pc' = "tasks"
    BY <1>2, TaskLeaves DEF boot_vars
  <2>2. CASE \E t, u \in Tasks : Switch(t, u)
    BY <1>0, <2>1, <2>2 DEF Switch, TaskAt
  <2>3. CASE ~ \E t, u \in Tasks : Switch(t, u)
    <3>1. PICK t \in Tasks, p \in {"run", "arm_ctl", "arm_gic", "cancel_gic", "guarded"} :
            t = current /\ tpc' = [tpc EXCEPT ![t] = p] /\ current' = current
      <4>1. CASE \E t \in Tasks : TaskUnmask(t)
        <5>1. tpc[current] = "run" /\ UNCHANGED <<tpc, current>>
          BY <4>1 DEF TaskUnmask, TaskAt
        <5> QED  BY <1>0, <5>1
      <4>2. CASE ~ \E t \in Tasks : TaskUnmask(t)
        BY <1>2, <2>3, <4>2, ZenonT(30) DEF TaskStep, EnterTask, ArmCompare, ArmControl, ArmEnable,
           CancelControl, CancelDisable, EnterGuard, DropGuard, TaskAt, Goto
      <4> QED  BY <4>1, <4>2
    <3> QED  BY <1>0, <2>1, <3>1, Zenon
  <2> QED  BY <2>2, <2>3, Zenon
<1>3. CASE TakeIrq
  BY <1>0, <1>3, Zenon DEF TakeIrq, HandlerFrame, boot_vars, task_vars
<1>4. CASE HandlerStep
  <2>1. UNCHANGED <<current, tpc>> /\ BootInv
    BY <1>4, HandlerLeaves DEF task_vars, IInv
  <2>2. pc' = pc
    BY <1>4, <2>1, Zenon DEF HandlerStep, Acknowledge, Dispatch, EndOfInterrupt, Eret, HandlerFrame,
       boot_vars, BootInv
  <2> QED  BY <1>0, <2>1, <2>2
<1>5. CASE Tick
  BY <1>0, <1>5, Zenon DEF Tick, boot_vars, task_vars
<1> QED  BY <1>1, <1>2, <1>3, <1>4, <1>5, Zenon DEF Next

\* The mask of each task.
LEMMA MaskInvNext ==
  ASSUME IInv, Next
  PROVE  MaskInv'
<1> USE DEF MaskInv
<1>0. MaskInv /\ TaskInv
  BY Zenon DEF IInv
<1>1. CASE Boot
  <2>1. handler = "none" /\ pc # "tasks" /\ UNCHANGED <<handler, spsr, current, prev, chosen>>
    BY <1>1, BootLeaves DEF handler_vars
  <2>2. CASE StartFirst
    BY <1>0, <2>1, <2>2, ZenonT(30) DEF StartFirst, TaskInv
  <2>3. CASE ~StartFirst
    <3>1. UNCHANGED tpc /\ pc' # "tasks" /\ masked' \in BOOLEAN
      BY <1>0, <1>1, <2>3, ZenonT(30) DEF Boot, ResetStub, PostEret, CpuNew, InstallVectors, PublishGic,
         GicOff, GicConfigure, GicOn, Unmask, InitContexts, At, BootFrame, task_vars
    <3> QED  BY <1>0, <2>1, <3>1, Zenon
  <2> QED  BY <2>2, <2>3, ZenonT(30)
<1>2. CASE TaskStep
  <2>1. pc = "tasks" /\ pc' = "tasks" /\ handler = "none" /\ UNCHANGED <<handler, spsr>>
    BY <1>2, TaskLeaves DEF boot_vars, handler_vars
  <2>2. PICK t \in Tasks : \/ EnterTask(t) \/ TaskUnmask(t)
                           \/ \E d \in Deadlines : ArmCompare(t, d)
                           \/ ArmControl(t) \/ ArmEnable(t)
                           \/ CancelControl(t) \/ CancelDisable(t)
                           \/ EnterGuard(t) \/ DropGuard(t)
                           \/ \E u \in Tasks : Switch(t, u)
    BY <1>2 DEF TaskStep
  <2>3. CASE EnterTask(t)
    BY <1>0, <2>1, <2>3, Zenon DEF EnterTask, TaskAt, TaskInv
  <2>4. CASE TaskUnmask(t)
    BY <1>0, <2>1, <2>4, ZenonT(30) DEF TaskUnmask, TaskAt, TaskInv
  <2>5. CASE \/ \E d \in Deadlines : ArmCompare(t, d)
             \/ ArmControl(t) \/ ArmEnable(t) \/ CancelControl(t) \/ CancelDisable(t)
    <3>1. /\ UNCHANGED <<masked, current, prev, chosen>> /\ t = current
          /\ tpc[t] \in {"run", "arm_ctl", "arm_gic", "cancel_gic"}
      BY <2>5, Zenon DEF ArmCompare, ArmControl, ArmEnable, CancelControl, CancelDisable, TaskAt,
         Goto
    <3>2. PICK p \in {"run", "arm_ctl", "arm_gic", "cancel_gic"} : tpc' = [tpc EXCEPT ![t] = p]
      BY <2>5, Zenon DEF ArmCompare, ArmControl, ArmEnable, CancelControl, CancelDisable, Goto
    <3> QED  BY <1>0, <2>1, <3>1, <3>2, ZenonT(30) DEF TaskInv
  <2>6. CASE EnterGuard(t)
    BY <1>0, <2>1, <2>6, Zenon DEF EnterGuard, TaskAt, TaskInv
  <2>7. CASE DropGuard(t)
    BY <1>0, <2>1, <2>7, Zenon DEF DropGuard, TaskAt, TaskInv
  <2>8. CASE \E u \in Tasks : Switch(t, u)
    <3>1. PICK u \in Tasks : Switch(t, u)
      BY <2>8
    <3>2. /\ t = current /\ tpc[t] = "guarded" /\ u # t /\ current' = u
          /\ UNCHANGED <<masked, prev, chosen>>
          /\ tpc' = [tpc EXCEPT ![t] = "switched", ![u] = IF @ = "new" THEN "entry" ELSE "drop"]
      BY <3>1, Zenon DEF Switch, TaskAt
    <3>3. tpc[u] \in {"new", "switched"} /\ DOMAIN tpc = Tasks
      BY <1>0, <2>1, <3>2, Zenon DEF TaskInv
    <3>4. /\ tpc'[t] = "switched" /\ \A v \in Tasks \ {t, u} : tpc'[v] = tpc[v]
          /\ tpc[u] = "new" => tpc'[u] = "entry"
          /\ tpc[u] = "switched" => tpc'[u] = "drop"
      BY <3>2, <3>3, Zenon
    <3>5. masked = TRUE
      BY <1>0, <2>1, <3>2, Zenon
    <3>6. \A v \in Tasks : /\ tpc'[v] \in {"new", "entry"} => chosen[v] = TRUE
                           /\ tpc'[v] \in {"guarded", "switched", "drop"} => prev[v] = chosen[v]
      <4>1. \/ chosen[u] = TRUE /\ tpc'[u] = "entry"
            \/ prev[u] = chosen[u] /\ tpc'[u] = "drop"
        BY <1>0, <3>3, <3>4, Zenon DEF MaskInv
      <4>2. prev[t] = chosen[t]
        BY <1>0, <3>2, Zenon DEF MaskInv
      <4>3. ASSUME NEW v \in Tasks \ {t, u}
            PROVE  /\ tpc'[v] \in {"new", "entry"} => chosen[v] = TRUE
                   /\ tpc'[v] \in {"guarded", "switched", "drop"} => prev[v] = chosen[v]
        BY <1>0, <3>4, <4>3, Zenon DEF MaskInv
      <4> QED  BY <3>4, <4>1, <4>2, <4>3, Zenon
    <3>7. IF tpc'[u] \in {"guarded", "drop"} THEN masked = TRUE /\ handler = "none"
          ELSE masked = chosen[u]
      BY <1>0, <2>1, <3>3, <3>4, <3>5, ZenonT(30)
    <3> QED  BY <1>0, <2>1, <3>2, <3>5, <3>6, <3>7, ZenonT(30)
  <2> QED  BY <2>2, <2>3, <2>4, <2>5, <2>6, <2>7, <2>8, ZenonT(30)
<1>3. CASE TakeIrq
  BY <1>0, <1>3, Zenon DEF TakeIrq, HandlerFrame, boot_vars, task_vars
<1>4. CASE HandlerStep
  <2>1. UNCHANGED <<current, tpc, prev, chosen>> /\ handler # "none" /\ BootInv
    BY <1>4, HandlerLeaves, Zenon DEF task_vars, IInv
  <2>2. CASE Eret
    BY <1>0, <2>1, <2>2, Zenon DEF Eret, HandlerFrame, boot_vars
  <2>3. CASE ~Eret
    <3>1. UNCHANGED <<pc, masked, spsr>> /\ handler' # "none"
      BY <1>4, <2>1, <2>3, Zenon DEF HandlerStep, Acknowledge, Dispatch, EndOfInterrupt,
         HandlerFrame,
         boot_vars, BootInv
    <3> QED  BY <1>0, <2>1, <3>1, Zenon
  <2> QED  BY <2>2, <2>3, ZenonT(30)
<1>5. CASE Tick
  BY <1>0, <1>5, Zenon DEF Tick, boot_vars, handler_vars, task_vars
<1> QED  BY <1>1, <1>2, <1>3, <1>4, <1>5, ZenonT(30) DEF Next

-----------------------------------------------------------------------------
\* The invariant of the boot order, the devices, the tasks and their masks.
LEMMA AlwaysIInv == Spec => []IInv
<1>1. Init => IInv
  BY InitIInv
<1>2. IInv /\ [Next]_vars => IInv'
  <2> SUFFICES ASSUME IInv, [Next]_vars PROVE IInv'
    OBVIOUS
  <2>1. CASE Next
    BY <2>1, BootInvNext, DeviceInvNext, TaskInvNext, MaskInvNext DEF IInv
  <2>2. CASE UNCHANGED vars
    <3> USE <2>2 DEF vars, boot_vars, gic_vars, timer_vars, handler_vars, task_vars
    <3>1. BootInv'
      BY Zenon DEF IInv, BootInv, Masking, VectorsDone, GicCellDone, SpisOff
    <3>2. DeviceInv'
      BY Zenon DEF IInv, DeviceInv, ToCome
    <3>3. TaskInv'
      BY Zenon DEF IInv, TaskInv
    <3>4. MaskInv'
      BY Zenon DEF IInv, MaskInv
    <3> QED  BY <3>1, <3>2, <3>3, <3>4, Zenon DEF IInv
  <2> QED  BY <2>1, <2>2
<1> QED  BY <1>1, <1>2, PTL DEF Spec

\* boot.s and kernel_entry: no interrupt is taken before the vector table,
\* the GIC static and EL1 are in place.
THEOREM VectorsTheorem == Spec => []VectorsBeforeIrqs
<1>1. IInv => VectorsBeforeIrqs
  BY Zenon DEF IInv, BootInv, Masking, VectorsDone, GicCellDone, VectorsBeforeIrqs
<1> QED  BY <1>1, AlwaysIInv, PTL

\* QemuVirtCpu::new and irq_entry never panic, however many lines the GIC
\* has and whichever of the shared ones the firmware left enabled.
THEOREM NoUnhandledTheorem == Spec => []NoUnhandledIrq
<1>1. IInv => NoUnhandledIrq
  BY Zenon DEF IInv, BootInv, Masking, VectorsDone, NoUnhandledIrq
<1> QED  BY <1>1, AlwaysIInv, PTL

\* irq_entry: what is acknowledged has been ended when it returns, and only
\* what is acknowledged is ended.
THEOREM EndedTheorem == Spec => []AcknowledgedIsEnded
<1>1. IInv => AcknowledgedIsEnded
  BY Zenon DEF IInv, BootInv, DeviceInv, AcknowledgedIsEnded
<1> QED  BY <1>1, AlwaysIInv, PTL

\* arm_deadline and irq_entry: a call of arm_deadline fires at most once, or
\* twice if it replaced a deadline that was still armed.
THEOREM FiresOnceTheorem == Spec => []FiresOnce
<1>1. IInv => FiresOnce
  BY DEF IInv, DeviceInv, ToCome, FiresOnce
<1> QED  BY <1>1, AlwaysIInv, PTL

\* cancel_deadline: a cancelled deadline stays quiet.
THEOREM CancelTheorem == Spec => []CancelledStaysQuiet
<1>1. IInv => CancelledStaysQuiet
  BY DEF IInv, DeviceInv, CancelledStaysQuiet
<1> QED  BY <1>1, AlwaysIInv, PTL

\* IrqGuard: each task has a mask of its own, for any number of tasks.
THEOREM MaskTheorem == Spec => []MaskIsPerTask
<1>1. IInv => MaskIsPerTask
  BY DEF IInv, MaskInv, MaskIsPerTask
<1> QED  BY <1>1, AlwaysIInv, PTL

\* The scheduler's guards: no interrupt is taken inside a context switch.
THEOREM SwitchTheorem == Spec => []SwitchIsMasked
<1>1. IInv => SwitchIsMasked
  BY Zenon DEF IInv, MaskInv, SwitchIsMasked
<1> QED  BY <1>1, AlwaysIInv, PTL

-----------------------------------------------------------------------------
(* Deadlines.                                                              *)

\* A comparator programmed by arm_deadline has not matched before now_ns has
\* reached the deadline.
LEMMA NotBefore ==
  ASSUME NEW d \in 0 .. MaxWord, NEW c \in 0 .. MaxWord - 1, c >= NsToTicks(d, Freq)
  PROVE  TicksToNs(c, Freq) >= d
<1>1. Nanos \in Nat \ {0} /\ MaxWord \in Nat \ {0} /\ Freq \in Nat \ {0} /\ c \in Nat /\ d \in Nat
  BY TimerAssumption, IrqAssumption
<1>2. d * Freq \in Nat /\ c * Nanos \in Nat
  BY <1>1, Z3
<1>3. (d * Freq + Nanos - 1) \div Nanos =< c
  BY <1>1, <1>2, Quotient DEF NsToTicks, Saturate
<1>4. d * Freq =< c * Nanos
  BY <1>1, <1>2, <1>3, Ceiling, Zenon
<1>5. d =< (c * Nanos) \div Freq
  BY <1>1, <1>2, <1>4, Floor
<1> QED  BY <1>1, <1>5 DEF TicksToNs, Saturate

\* The comparator holds the deadline in ticks, and an acknowledged timer
\* interrupt has matched; the rest are types.
DeadlineInv ==
  /\ count \in 0 .. MaxCount /\ deadline \in 0 .. MaxWord
  /\ cval = NsToTicks(deadline, Freq)
  /\ handler = "acked" => count >= cval
  /\ el \in 1 .. 3 /\ late \in BOOLEAN /\ irq \in Lines /\ ctl \in 0 .. 2

\* The timer's line and line 0 are among the lines of the GIC.
LEMMA TimerLineExists == TimerIrq \in Lines /\ 0 \in Lines
<1>1. PICK n \in Nat : n = ItLinesField * RegWidth
  BY IrqAssumption
<1>2. IrqCount = n + RegWidth
  BY <1>1, IrqAssumption DEF IrqCount
<1> QED  BY <1>2, IrqAssumption DEF Lines

\* No deadline is armed at reset.
LEMMA DeadlineInvInit == Init => DeadlineInv
<1> SUFFICES ASSUME Init PROVE DeadlineInv
  OBVIOUS
<1>1. Nanos \in Nat \ {0} /\ MaxWord \in Nat \ {0} /\ Freq \in Nat
  BY TimerAssumption, IrqAssumption
<1>2. 0 * Freq = 0 /\ (Nanos - 1) \div Nanos = 0
  BY <1>1, Z3
<1>3. NsToTicks(0, Freq) = 0
  BY <1>1, <1>2 DEF NsToTicks, Saturate
<1>4. count \in 0 .. MaxCount /\ deadline \in 0 .. MaxWord /\ ctl \in 0 .. 2 /\ el \in 1 .. 3
  BY <1>1, IrqAssumption DEF Init
<1>5. cval = NsToTicks(deadline, Freq) /\ handler # "acked" /\ late \in BOOLEAN /\ irq \in Lines
  BY <1>3, TimerLineExists, Zenon DEF Init
<1> QED  BY <1>4, <1>5 DEF DeadlineInv

\* Every step keeps the comparator at the deadline.
LEMMA DeadlineInvNext ==
  ASSUME IInv, DeadlineInv, Next
  PROVE  DeadlineInv'
<1> USE DEF DeadlineInv
<1>0. late' \in BOOLEAN
  BY ZenonT(30) DEF Next, Boot, ResetStub, PostEret, CpuNew, InstallVectors, PublishGic, GicOff,
     GicConfigure,
     GicOn, Unmask, InitContexts, StartFirst, BootFrame, TaskStep, EnterTask, TaskUnmask,
     ArmCompare, ArmControl, ArmEnable, CancelControl, CancelDisable, EnterGuard, DropGuard,
     Switch, TaskFrame, TakeIrq, HandlerStep, Acknowledge, Dispatch, EndOfInterrupt, Eret,
     HandlerFrame, Tick, Lag
<1>1. CASE Boot
  <2>1. handler = "none" /\ UNCHANGED <<timer_vars, handler, irq>>
    BY <1>1, BootLeaves DEF handler_vars
  <2>2. UNCHANGED count /\ el' \in {el, 1}
    BY <1>1, Zenon DEF Boot, ResetStub, PostEret, CpuNew, InstallVectors, PublishGic, GicOff,
       GicConfigure, GicOn, Unmask, InitContexts, StartFirst, BootFrame
  <2> QED  BY <1>0, <2>1, <2>2 DEF timer_vars
<1>2. CASE TaskStep
  <2>1. handler = "none" /\ UNCHANGED <<el, handler, irq>>
    BY <1>2, TaskLeaves DEF boot_vars, handler_vars
  <2>2. UNCHANGED count /\ ctl' \in {ctl, 1, 2}
    BY <1>2, ZenonT(30) DEF TaskStep, EnterTask, TaskUnmask, ArmCompare, ArmControl, ArmEnable,
       CancelControl,
       CancelDisable, EnterGuard, DropGuard, Switch, TaskFrame, timer_vars
  <2>3. \/ UNCHANGED <<cval, deadline>>
        \/ deadline' \in Deadlines /\ cval' = NsToTicks(deadline', Freq)
    BY <1>2, ZenonT(30) DEF TaskStep, EnterTask, TaskUnmask, ArmCompare, Arming, ArmControl, ArmEnable,
       CancelControl,
       CancelDisable, EnterGuard, DropGuard, Switch, timer_vars
  <2>4. deadline' \in 0 .. MaxWord /\ cval' = NsToTicks(deadline', Freq)
    BY <2>3, IrqAssumption, Zenon
  <2>5. /\ count' \in 0 .. MaxCount /\ ctl' \in 0 .. 2 /\ handler' # "acked"
        /\ el' \in 1 .. 3 /\ irq' \in Lines
    BY <2>1, <2>2
  <2> QED  BY <1>0, <2>4, <2>5, Zenon
<1>3. CASE TakeIrq
  BY <1>0, <1>3, Zenon DEF TakeIrq, HandlerFrame, boot_vars, timer_vars
<1>4. CASE HandlerStep
  <2>1. UNCHANGED <<el, count, cval, deadline>> /\ ctl' \in {ctl, 2}
    BY <1>4, Zenon DEF HandlerStep, Acknowledge, Dispatch, EndOfInterrupt, Eret, HandlerFrame,
       boot_vars,
       timer_vars
  <2>2. handler' = "acked" => count >= cval
    BY <1>4, SignalledIsTimer, Zenon DEF HandlerStep, Acknowledge, Dispatch, EndOfInterrupt, Eret
  <2>3. irq' \in Lines
    BY <1>4, SignalledIsTimer, TimerLineExists, Zenon DEF HandlerStep, Acknowledge, Dispatch,
       EndOfInterrupt, Eret
  <2> QED  BY <1>0, <2>1, <2>2, <2>3
<1>5. CASE Tick
  <2>1. /\ count' = count + 1 /\ count < MaxCount
        /\ UNCHANGED <<el, cval, deadline, ctl, irq, handler>>
    BY <1>5, Zenon DEF Tick, boot_vars, timer_vars, handler_vars
  <2>2. MaxCount \in Nat /\ cval \in Int
    <3>1. (deadline * Freq + Nanos - 1) \div Nanos \in Int
      BY IrqAssumption, TimerAssumption, Z3
    <3> QED  BY <3>1, IrqAssumption, TimerAssumption DEF NsToTicks, Saturate
  <2> QED  BY <1>0, <2>1, <2>2
<1> QED  BY <1>1, <1>2, <1>3, <1>4, <1>5, ZenonT(30) DEF Next

\* DeadlineInv holds throughout.
LEMMA AlwaysDeadlineInv == Spec => []DeadlineInv
<1>1. IInv /\ DeadlineInv /\ [Next]_vars => DeadlineInv'
  <2> SUFFICES ASSUME IInv, DeadlineInv, [Next]_vars PROVE DeadlineInv'
    OBVIOUS
  <2>1. CASE Next
    BY <2>1, DeadlineInvNext
  <2>2. CASE UNCHANGED vars
    BY <2>2, Zenon DEF vars, boot_vars, timer_vars, handler_vars, DeadlineInv
  <2> QED  BY <2>1, <2>2
<1> QED  BY <1>1, DeadlineInvInit, AlwaysIInv, PTL DEF Spec

\* arm_deadline and irq_entry: the timer interrupt is never early, whatever
\* the frequency and however tasks re-arm.
THEOREM NeverEarlyTheorem == Spec => []NeverEarly
<1>1. DeadlineInv => NeverEarly
  <2> SUFFICES ASSUME DeadlineInv, handler = "acked"
               PROVE  TicksToNs(count, Freq) >= deadline
    BY DEF NeverEarly
  <2>1. deadline \in 0 .. MaxWord /\ count \in 0 .. MaxWord - 1 /\ count >= NsToTicks(deadline, Freq)
    BY IrqAssumption, TimerAssumption DEF DeadlineInv
  <2> QED  BY <2>1, NotBefore
<1> QED  BY <1>1, AlwaysDeadlineInv, PTL

\* Every state is well typed.
THEOREM TypeTheorem == Spec => []TypeOK
<1>1. IInv /\ DeadlineInv => TypeOK
  <2> SUFFICES ASSUME IInv, DeadlineInv PROVE TypeOK
    OBVIOUS
  <2>1. enabled \subseteq Lines /\ asserted \subseteq Spis /\ active \subseteq Lines
    BY TimerLineExists, Zenon DEF IInv, BootInv, DeviceInv, Spis
  <2>2. cval \in 0 .. MaxWord
    <3>1. PICK n : n = deadline * Freq /\ n \in Nat
      BY IrqAssumption, Z3 DEF DeadlineInv
    <3>2. Nanos \in Nat \ {0} /\ MaxWord \in Nat
      BY TimerAssumption
    <3>3. (n + Nanos - 1) \div Nanos \in Nat
      BY <3>1, <3>2, Z3
    <3> QED  BY <3>1, <3>2, <3>3 DEF DeadlineInv, NsToTicks, Saturate
  <2>3. /\ masked \in BOOLEAN /\ spsr \in BOOLEAN
        /\ prev \in [Tasks -> BOOLEAN] /\ chosen \in [Tasks -> BOOLEAN]
    BY DEF IInv, MaskInv
  <2>4. /\ handler \in {"none", "entered", "acked", "ending", "return", "panicked"}
        /\ current \in Tasks
        /\ tpc \in [Tasks -> {"new", "run", "arm_ctl", "arm_gic", "cancel_gic",
                              "entry", "guarded", "switched", "drop"}]
    BY Zenon DEF IInv, BootInv, TaskInv
  <2>5. /\ el \in 1 .. 3 /\ late \in BOOLEAN /\ ctl \in 0 .. 2 /\ count \in 0 .. MaxCount
        /\ irq \in Lines
    BY DEF DeadlineInv
  <2> QED  BY <2>1, <2>2, <2>3, <2>4, <2>5, Zenon DEF TypeOK
<1> QED  BY <1>1, AlwaysIInv, AlwaysDeadlineInv, PTL

-----------------------------------------------------------------------------
(* Registers.                                                              *)

\* Where the running program's value of register r is now, and what is kept
\* for the tasks that do not run.
Kept(r) == IF handler # "none" /\ r \in TrapFrame THEN frame[r] ELSE regs[r]
RegInv ==
  /\ DOMAIN contexts = Tasks /\ turn \in [Tasks -> {0, 1}]
  /\ \A t \in Tasks :
       /\ tpc[t] \in {"new", "entry"} => turn[t] = 0
       /\ tpc[t] = "new" /\ pc \in {"registered", "tasks"} => contexts[t] = InitContext(t)
       /\ tpc[t] = "switched" =>
            \A r \in TaskContext : contexts[t][r] = Value(t, IF r = "sp" THEN 0 ELSE turn[t])
  /\ \A r \in LiveRegs \ {"simd_scratch"} : Kept(r) = Own(r)

-----------------------------------------------------------------------------
\* Where a task computes with all of its registers.
Computing == {"run", "arm_ctl", "arm_gic", "cancel_gic", "guarded"}

\* The registers, in the boot code.
LEMMA RegInvBoot ==
  ASSUME IInv, RegInv, Boot
  PROVE  RegInv'
<1>1. /\ handler = "none" /\ handler' = "none" /\ pc # "tasks"
      /\ UNCHANGED <<current, turn, frame>>
  BY BootLeaves DEF handler_vars
<1>2. /\ DOMAIN contexts = Tasks /\ turn \in [Tasks -> {0, 1}] /\ current \in Tasks
      /\ \A t \in Tasks : tpc[t] = "new" /\ turn[t] = 0
      /\ pc = "registered" => \A t \in Tasks : contexts[t] = InitContext(t)
      /\ DOMAIN tpc = Tasks
  BY <1>1, Zenon DEF IInv, TaskInv, RegInv
<1>3. pc \notin {"reset", "post_eret", "halted"} =>
        \A r \in Regs \ {"simd_scratch"} : regs[r] = Value("boot", 0)
  BY <1>1, Zenon DEF RegInv, LiveRegs, Kept, Own
<1>4. CASE ResetStub
  BY <1>1, <1>2, <1>4, Zenon DEF ResetStub, BootFrame, task_vars, RegInv, LiveRegs
<1>5. CASE PostEret
  BY <1>1, <1>2, <1>5, Zenon DEF PostEret, task_vars, RegInv, LiveRegs, Kept, Own
<1>6. CASE CpuNew \/ InstallVectors \/ PublishGic \/ GicOff \/ GicConfigure \/ GicOn \/ Unmask
  <2>1. /\ pc \notin {"reset", "post_eret", "halted"}
        /\ pc' \notin {"reset", "post_eret", "halted", "registered", "tasks"}
        /\ UNCHANGED <<regs, contexts, tpc>>
    BY <1>6, Zenon DEF CpuNew, InstallVectors, PublishGic, GicOff, GicConfigure, GicOn, Unmask, At,
       BootFrame, task_vars, reg_vars
  <2> QED  BY <1>1, <1>2, <1>3, <2>1, Zenon DEF RegInv, LiveRegs, Kept, Own
<1>7. CASE InitContexts
  <2>1. /\ pc = "setup" /\ pc' = "registered" /\ UNCHANGED <<regs, tpc>>
        /\ contexts' = [t \in Tasks |-> InitContext(t)]
    BY <1>7, Zenon DEF InitContexts, At, reg_vars
  <2> QED  BY <1>1, <1>2, <1>3, <2>1, Zenon DEF RegInv, LiveRegs, Kept, Own
<1>8. CASE StartFirst
  <2>1. /\ pc = "registered" /\ pc' = "tasks" /\ UNCHANGED contexts
        /\ tpc' = [tpc EXCEPT ![current] = "entry"]
        /\ regs' = RestoreContext(regs, InitContext(current))
    BY <1>2, <1>8, Zenon DEF StartFirst, At
  <2>2. regs'["x30"] = Value(current, 0) /\ regs'["sp"] = Value(current, 0)
    BY <2>1, Zenon DEF RestoreContext, InitContext, TaskContext, Regs
  <2>3. tpc'[current] = "entry" /\ \A t \in Tasks \ {current} : tpc'[t] = "new"
    BY <1>2, <2>1, Zenon
  <2>4. \A r \in (LiveRegs \ {"simd_scratch"})' : Kept(r)' = Own(r)'
    BY <1>1, <1>2, <2>1, <2>2, <2>3, Zenon DEF LiveRegs, Kept, Own
  <2> QED  BY <1>1, <1>2, <2>1, <2>3, <2>4, Zenon DEF RegInv
<1> QED  BY <1>4, <1>5, <1>6, <1>7, <1>8 DEF Boot

\* The registers, while tasks compute and switch.
LEMMA RegInvTask ==
  ASSUME IInv, RegInv, TaskStep
  PROVE  RegInv'
<1>1. handler = "none" /\ handler' = "none" /\ pc = "tasks" /\ pc' = "tasks"
  BY TaskLeaves DEF handler_vars, boot_vars
<1>2. /\ DOMAIN contexts = Tasks /\ turn \in [Tasks -> {0, 1}] /\ current \in Tasks
      /\ \A t \in Tasks :
           /\ tpc[t] \in {"new", "entry"} => turn[t] = 0
           /\ tpc[t] = "new" => contexts[t] = InitContext(t)
           /\ tpc[t] = "switched" =>
                \A r \in TaskContext :
                  contexts[t][r] = Value(t, IF r = "sp" THEN 0 ELSE turn[t])
      /\ DOMAIN tpc = Tasks
      /\ \A t \in Tasks : t = current <=> tpc[t] \notin {"new", "switched"}
  BY <1>1, Zenon DEF IInv, TaskInv, RegInv
<1>3. /\ regs["sp"] = Value(current, 0)
      /\ tpc[current] \in Computing =>
           \A r \in Regs \ {"simd_scratch"} : regs[r] = Own(r)
  BY <1>1, Zenon DEF RegInv, LiveRegs, Kept, Own, Computing, Regs
<1>4. ASSUME NEW t \in Tasks, EnterTask(t) PROVE RegInv'
  <2>1. /\ t = current /\ tpc[t] = "entry" /\ tpc' = [tpc EXCEPT ![t] = "run"]
        /\ regs' = Computed(regs, t, turn[t]) /\ UNCHANGED <<current, contexts, turn>>
    BY <1>4, Zenon DEF EnterTask, TaskAt
  <2>2. \A r \in Regs : regs'[r] = Own(r)'
    BY <1>1, <1>3, <2>1, Zenon DEF Computed, Own
  <2> QED  BY <1>1, <1>2, <2>1, <2>2, Zenon DEF RegInv, LiveRegs, Kept
<1>5. ASSUME NEW t \in Tasks, DropGuard(t) PROVE RegInv'
  <2>1. /\ t = current /\ tpc[t] = "drop" /\ tpc' = [tpc EXCEPT ![t] = "run"]
        /\ turn' = [turn EXCEPT ![t] = 1 - @]
        /\ regs' = Computed(regs, t, turn'[t]) /\ UNCHANGED <<current, contexts>>
    BY <1>5, Zenon DEF DropGuard, TaskAt
  <2>2. \A r \in Regs : regs'[r] = Own(r)'
    BY <1>1, <1>3, <2>1 DEF Computed, Own
  <2>3. /\ turn' \in [Tasks -> {0, 1}] /\ \A v \in Tasks \ {t} : turn'[v] = turn[v]
        /\ tpc'[t] = "run" /\ \A v \in Tasks \ {t} : tpc'[v] = tpc[v]
    <3>1. turn \in [Tasks -> {0, 1}] /\ DOMAIN tpc = Tasks
      BY <1>2, Zenon
    <3>2. 1 - turn[t] \in {0, 1}
      BY <3>1
    <3> QED  BY <2>1, <3>1, <3>2, Zenon
  <2>4. \A r \in (LiveRegs \ {"simd_scratch"})' : Kept(r)' = Own(r)'
    BY <1>1, <2>1, <2>2, <2>3, Zenon DEF LiveRegs, Kept
  <2>5. ASSUME NEW v \in Tasks
        PROVE  /\ tpc'[v] \in {"new", "entry"} => turn'[v] = 0
               /\ tpc'[v] = "new" => contexts'[v] = InitContext(v)
               /\ tpc'[v] = "switched" =>
                    \A r \in TaskContext :
                      contexts'[v][r] = Value(v, IF r = "sp" THEN 0 ELSE turn'[v])
    <3>1. CASE v = t
      BY <2>3, <3>1, Zenon
    <3>2. CASE v # t
      <4>1. tpc'[v] = tpc[v] /\ turn'[v] = turn[v] /\ contexts'[v] = contexts[v]
        BY <2>1, <2>3, <3>2, Zenon
      <4> QED  BY <1>2, <4>1, Zenon
    <3> QED  BY <3>1, <3>2, Zenon
  <2> QED  BY <1>2, <2>1, <2>3, <2>4, <2>5, Zenon DEF RegInv
<1>6. ASSUME NEW t \in Tasks, NEW u \in Tasks, Switch(t, u) PROVE RegInv'
  <2>1. /\ t = current /\ tpc[t] = "guarded" /\ u # t /\ current' = u /\ UNCHANGED turn
        /\ contexts' = [contexts EXCEPT ![t] = SaveContext(regs)]
        /\ regs' = RestoreContext(regs, contexts[u])
        /\ tpc' = [tpc EXCEPT ![t] = "switched", ![u] = IF @ = "new" THEN "entry" ELSE "drop"]
    BY <1>6, Zenon DEF Switch, TaskAt
  <2>2. tpc[u] \in {"new", "switched"}
    BY <1>2, <2>1, Zenon
  <2>3. /\ tpc'[t] = "switched" /\ \A v \in Tasks \ {t, u} : tpc'[v] = tpc[v]
        /\ tpc[u] = "new" => tpc'[u] = "entry"
        /\ tpc[u] = "switched" => tpc'[u] = "drop"
    BY <1>2, <2>1, <2>2, Zenon
  <2>4. \A r \in TaskContext :
          contexts'[t][r] = Value(t, IF r = "sp" THEN 0 ELSE turn[t])
    BY <1>1, <1>2, <1>3, <2>1, Zenon DEF SaveContext, Own, Computing, TaskContext, Regs
  <2>5. DOMAIN contexts' = Tasks /\ \A v \in Tasks \ {t} : contexts'[v] = contexts[v]
    BY <1>2, <2>1, Zenon
  <2>6. \A r \in TaskContext : regs'[r] = contexts[u][r]
    BY <2>1, Zenon DEF RestoreContext, TaskContext, Regs
  <2>7. ASSUME NEW v \in Tasks
        PROVE  /\ tpc'[v] \in {"new", "entry"} => turn'[v] = 0
               /\ tpc'[v] = "new" => contexts'[v] = InitContext(v)
               /\ tpc'[v] = "switched" =>
                    \A r \in TaskContext :
                      contexts'[v][r] = Value(v, IF r = "sp" THEN 0 ELSE turn'[v])
    <3>1. CASE v = t
      BY <2>1, <2>3, <2>4, <3>1, Zenon
    <3>2. CASE v = u
      BY <1>2, <2>1, <2>2, <2>3, <3>2, Zenon
    <3>3. CASE v # t /\ v # u
      <4>1. tpc'[v] = tpc[v] /\ turn'[v] = turn[v] /\ contexts'[v] = contexts[v]
        BY <2>1, <2>3, <2>5, <3>3, Zenon
      <4> QED  BY <1>2, <4>1, Zenon
    <3> QED  BY <3>1, <3>2, <3>3, Zenon
  <2>8. \A r \in (LiveRegs \ {"simd_scratch"})' : Kept(r)' = Own(r)'
    <3>1. CASE tpc[u] = "new"
      <4>1. regs'["x30"] = Value(u, 0) /\ regs'["sp"] = Value(u, 0) /\ turn[u] = 0
        BY <1>2, <2>6, <3>1, Zenon DEF InitContext, TaskContext
      <4> QED  BY <1>1, <2>1, <2>3, <3>1, <4>1, Zenon DEF LiveRegs, Kept, Own
    <3>2. CASE tpc[u] = "switched"
      <4>1. \A r \in TaskContext : regs'[r] = Value(u, IF r = "sp" THEN 0 ELSE turn[u])
        BY <1>2, <2>6, <3>2, Zenon
      <4> QED  BY <1>1, <2>1, <2>3, <3>2, <4>1, Zenon DEF LiveRegs, Kept, Own, TaskContext
    <3> QED  BY <2>2, <3>1, <3>2, Zenon
  <2> QED  BY <1>2, <2>1, <2>5, <2>7, <2>8, Zenon DEF RegInv
<1>7. ASSUME NEW t \in Tasks,
             \/ TaskUnmask(t) \/ \E d \in Deadlines : ArmCompare(t, d)
             \/ ArmControl(t) \/ ArmEnable(t)
             \/ CancelControl(t) \/ CancelDisable(t) \/ EnterGuard(t)
      PROVE  RegInv'
  <2>1. /\ UNCHANGED <<regs, frame, contexts, turn, current>> /\ t = current
        /\ tpc[t] \in Computing
        /\ tpc' = tpc \/ \E p \in Computing : tpc' = [tpc EXCEPT ![t] = p]
    BY <1>7, Zenon DEF TaskUnmask, ArmCompare, ArmControl, ArmEnable, CancelControl, CancelDisable,
       EnterGuard, TaskAt, Goto, Computing, reg_vars
  <2>2. tpc'[t] \in Computing /\ \A v \in Tasks \ {t} : tpc'[v] = tpc[v]
    BY <1>2, <2>1, Zenon
  <2>3. \A r \in (LiveRegs \ {"simd_scratch"})' : Kept(r)' = Own(r)'
    BY <1>1, <1>3, <2>1, <2>2, Zenon DEF LiveRegs, Kept, Own, Computing
  <2> QED  BY <1>1, <1>2, <2>1, <2>2, <2>3, Zenon DEF RegInv, Computing
<1> QED  BY <1>4, <1>5, <1>6, <1>7, Zenon DEF TaskStep

\* The registers, across an interrupt.
LEMMA RegInvIrq ==
  ASSUME IInv, RegInv, TakeIrq \/ HandlerStep \/ Tick
  PROVE  RegInv'
<1>1. RegInv /\ BootInv
  BY DEF IInv
<1>2. UNCHANGED <<pc, current, tpc, contexts, turn>>
  <2>1. CASE HandlerStep
    BY <1>1, <2>1, Zenon DEF HandlerStep, Acknowledge, Dispatch, EndOfInterrupt, Eret, HandlerFrame,
       boot_vars, task_vars, BootInv
  <2>2. CASE TakeIrq \/ Tick
    BY <2>2, Zenon DEF TakeIrq, HandlerFrame, Tick, boot_vars, task_vars
  <2> QED  BY <2>1, <2>2, ZenonT(30)
<1>3. ASSUME NEW r \in Regs \ {"simd_scratch"} PROVE Kept(r)' = Kept(r)
  <2>1. CASE TakeIrq
    BY <2>1, Zenon DEF TakeIrq, Kept, PushFrame
  <2>2. CASE Acknowledge
    BY <2>2, Zenon DEF Acknowledge, Kept, Clobbered, CallerSaved, TrapFrame, Regs
  <2>3. CASE Dispatch \/ EndOfInterrupt
    BY <1>1, <2>3, Zenon DEF Dispatch, EndOfInterrupt, Kept, reg_vars, BootInv
  <2>4. CASE Eret
    BY <2>4, Zenon DEF Eret, Kept, PopFrame
  <2>5. CASE Tick
    BY <2>5, Zenon DEF Tick, Kept, reg_vars, handler_vars
  <2> QED  BY <2>1, <2>2, <2>3, <2>4, <2>5 DEF HandlerStep
<1>4. LiveRegs' = LiveRegs /\ LiveRegs \subseteq Regs /\ \A r \in Regs : Own(r)' = Own(r)
  BY <1>2, Zenon DEF LiveRegs, Own, Regs
<1> QED  BY <1>1, <1>2, <1>3, <1>4, Zenon DEF RegInv

\* context_switch_asm, init_context and the IRQ trampoline: whenever a task or
\* the boot code goes on, the registers it relies on are its own.
THEOREM RegistersTheorem == Spec => []RegistersSurvive
<1>1. Init => RegInv
  BY Zenon DEF Init, RegInv, LiveRegs
<1>2. IInv /\ RegInv /\ [Next]_vars => RegInv'
  <2> SUFFICES ASSUME IInv, RegInv, [Next]_vars PROVE RegInv'
    OBVIOUS
  <2>1. CASE Next
    BY <2>1, RegInvBoot, RegInvTask, RegInvIrq DEF Next
  <2>2. CASE UNCHANGED vars
    BY <2>2, Zenon DEF vars, boot_vars, handler_vars, task_vars, reg_vars, RegInv, LiveRegs,
       Kept, Own
  <2> QED  BY <2>1, <2>2
<1>3. RegInv => RegistersSurvive
  BY Zenon DEF RegInv, RegistersSurvive, Kept
<1> QED  BY <1>1, <1>2, <1>3, AlwaysIInv, PTL DEF Spec
=============================================================================
