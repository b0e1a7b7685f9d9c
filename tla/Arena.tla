------------------------------- MODULE Arena -------------------------------
(***************************************************************************)
(* The generic object arena (kernel/src/obj/arena.rs) as operators on a    *)
(* record: the tasks, endpoints and notifications of the kernel each live  *)
(* in one.  entry is defined on the occupied slots only.                   *)
(***************************************************************************)
EXTENDS Threads

CONSTANT GenModulus   \* generations wrap at 2^32 in the code

ASSUME GenAssumption == GenModulus \in Nat \ {0}

ArenaSlots(a) == DOMAIN a.generation
LiveSlots(a) == DOMAIN a.entry
FreeSlots(a) == ArenaSlots(a) \ LiveSlots(a)

NewArena(N) ==
  [entry |-> [s \in {} |-> {}],
   generation |-> [s \in 0 .. N - 1 |-> 0],
   next_free |-> [s \in 0 .. N - 1 |-> IF s + 1 < N THEN s + 1 ELSE None],
   free_head |-> IF N > 0 THEN 0 ELSE None]

\* get / contains: the id is current and its slot is occupied.
Contains(a, id) ==
  /\ id.index \in ArenaSlots(a)
  /\ a.generation[id.index] = id.generation
  /\ id.index \in LiveSlots(a)

\* Mutated forms: a freed slot is not linked; its generation stays; its
\* generation is kept in a narrower integer.
Release_NotLinked(a, id) ==
  [entry |-> [s \in LiveSlots(a) \ {id.index} |-> a.entry[s]],
   generation |-> [a.generation EXCEPT ![id.index] = (@ + 1) % GenModulus],
   next_free |-> a.next_free,
   free_head |-> id.index]
Release_SameGeneration(a, id) ==
  [entry |-> [s \in LiveSlots(a) \ {id.index} |-> a.entry[s]],
   generation |-> a.generation,
   next_free |-> [a.next_free EXCEPT ![id.index] = a.free_head],
   free_head |-> id.index]
Release_Narrow(a, id) ==
  [entry |-> [s \in LiveSlots(a) \ {id.index} |-> a.entry[s]],
   generation |-> [a.generation EXCEPT ![id.index] = (@ + 1) % (GenModulus - 1)],
   next_free |-> [a.next_free EXCEPT ![id.index] = a.free_head],
   free_head |-> id.index]

\* allocate, when free_head is not None; the id it returns is FreshId(a).
FreshId(a) == [index |-> a.free_head, generation |-> a.generation[a.free_head]]
Allocate(a, value) ==
  LET h == a.free_head IN
  [entry |-> [s \in LiveSlots(a) \cup {h} |-> IF s = h THEN value ELSE a.entry[s]],
   generation |-> a.generation,
   next_free |-> [a.next_free EXCEPT ![h] = None],
   free_head |-> a.next_free[h]]

\* free, when Contains(a, id); a stale id changes nothing.
Release(a, id) ==
  [entry |-> [s \in LiveSlots(a) \ {id.index} |-> a.entry[s]],
   generation |-> [a.generation EXCEPT ![id.index] = (@ + 1) % GenModulus],
   next_free |-> [a.next_free EXCEPT ![id.index] = a.free_head],
   free_head |-> id.index]

\* get_mut: replace the value at a live id.
Update(a, id, value) == [a EXCEPT !.entry[id.index] = value]
=============================================================================
