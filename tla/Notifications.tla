--------------------------- MODULE Notifications ---------------------------
(***************************************************************************)
(* The notification objects (kernel/src/obj/notification.rs): an arena of  *)
(* words that ipc_notify ORs bits into and a consumer clears.  A word is   *)
(* the set of its bits.  Callers keep every id they were ever given, so    *)
(* they also present ids of objects that are gone.                         *)
(***************************************************************************)
EXTENDS Arena, FiniteSets

CONSTANTS
  ArenaCapacity,  \* NOTIFICATION_ARENA_CAPACITY
  Bits,           \* bit positions of the word
  MaxCreated      \* bound on the number of objects ever created

ASSUME ArenaCapacityAssumption == ArenaCapacity \in Nat \ {0}

VARIABLES
  arena,
  result,    \* what the last call returned
  stamp,     \* auxiliary: when each slot was last filled or freed
  clock,     \* auxiliary: source of stamps
  frees,     \* auxiliary: how often each slot was freed
  issued,    \* auxiliary: ids handed out, with the stamp of their object and
             \*            how often its slot had been freed by then (era)
  raised     \* auxiliary: stamp of an object -> bits set through its own id
             \*            and not yet consumed

notification_vars == <<arena, result, stamp, clock, frees, issued, raised>>

NotificationInit ==
  /\ arena = NewArena(ArenaCapacity)
  /\ result = "Ok"
  /\ stamp = [s \in 0 .. ArenaCapacity - 1 |-> ArenaCapacity - s]
  /\ clock = ArenaCapacity + 1
  /\ frees = [s \in 0 .. ArenaCapacity - 1 |-> 0]
  /\ issued = {}
  /\ raised = [n \in {} |-> {}]

Stamped(s) == stamp' = [stamp EXCEPT ![s] = clock] /\ clock' = clock + 1

Refuse(why) == result' = why /\ UNCHANGED <<arena, stamp, clock, frees, issued, raised>>

CreateNotification(word) ==
  /\ Cardinality(issued) < MaxCreated
  /\ IF arena.free_head = None THEN Refuse("ArenaFull")
     ELSE LET id == FreshId(arena) IN
          /\ arena' = Allocate(arena, word)
          /\ issued' = issued \cup
               {[index |-> id.index, generation |-> id.generation,
                 stamp |-> clock, era |-> frees[id.index]]}
          /\ raised' = [n \in DOMAIN raised \cup {clock} |->
                          IF n = clock THEN word ELSE raised[n]]
          /\ Stamped(id.index)
          /\ result' = "Ok" /\ UNCHANGED frees

DestroyNotification(id) ==
  IF ~Contains(arena, id) THEN Refuse("InvalidHandle")
  ELSE /\ arena' = Release(arena, id)
       /\ Stamped(id.index)
       /\ frees' = [frees EXCEPT ![id.index] = @ + 1]
       /\ result' = "Ok" /\ UNCHANGED <<issued, raised>>

\* ipc_notify: entitled says whether the capability presented with the id
\* carries NOTIFY; then get_mut and Notification::set.
IpcNotify(id, entitled, bits) ==
  IF ~entitled \/ ~Contains(arena, id) THEN Refuse("InvalidCapability")
  ELSE /\ arena' = Update(arena, id, arena.entry[id.index] \cup bits)
       /\ raised' = [raised EXCEPT ![id.stamp] = @ \cup bits]
       /\ result' = "Ok" /\ UNCHANGED <<stamp, clock, frees, issued>>

\* get_mut, then Notification::consume; the bits it clears go to the caller.
Consume(id) ==
  IF ~Contains(arena, id) THEN Refuse("InvalidHandle")
  ELSE /\ arena' = Update(arena, id, {})
       /\ raised' = [raised EXCEPT ![id.stamp] = {}]
       /\ result' = "Ok" /\ UNCHANGED <<stamp, clock, frees, issued>>

NotificationNext ==
  \/ \E w \in SUBSET Bits : CreateNotification(w)
  \/ \E id \in issued :
       \/ DestroyNotification(id)
       \/ \E e \in BOOLEAN, b \in SUBSET Bits : IpcNotify(id, e, b)
       \/ Consume(id)

NotificationSpec == NotificationInit /\ [][NotificationNext]_notification_vars

-----------------------------------------------------------------------------
NotificationTypeOK ==
  /\ DOMAIN arena = {"entry", "generation", "next_free", "free_head"}
  /\ ArenaSlots(arena) = 0 .. ArenaCapacity - 1
  /\ LiveSlots(arena) \subseteq ArenaSlots(arena)
  /\ \A s \in LiveSlots(arena) : arena.entry[s] \subseteq Bits
  /\ arena.generation \in [ArenaSlots(arena) -> 0 .. GenModulus - 1]
  /\ arena.next_free \in [ArenaSlots(arena) -> ArenaSlots(arena) \cup {None}]
  /\ arena.free_head \in ArenaSlots(arena) \cup {None}

\* No slot is leaked, freed twice or allocated while occupied: the free list
\* of the arena holds every empty slot exactly once, whatever mixture of live
\* and stale ids the callers free.
ArenaFreeListExact ==
  Threaded(FreeSlots(arena), arena.free_head, arena.next_free, stamp)

\* An id outlives its object unharmed: it is accepted for another object in
\* its slot only once the slot has been freed GenModulus times since (2^32 in
\* the code, where the generation of the slot wraps around).
StaleOnlyAfterWrap ==
  \A id \in issued :
    Contains(arena, id) =>
      stamp[id.index] = id.stamp \/ frees[id.index] - id.era >= GenModulus

\* A word holds exactly the bits raised through an id of this very object: a
\* notifier that kept the id of a destroyed notification can neither wake nor
\* clear the object that reuses its slot, as long as the generation of the
\* slot has not wrapped around.
WordIsOwn ==
  \A s \in LiveSlots(arena) : frees[s] < GenModulus => arena.entry[s] = raised[stamp[s]]
=============================================================================
