------------------------------ MODULE CapTable ------------------------------
(***************************************************************************)
(* One capability table (kernel/src/cap/table.rs): generation-tagged       *)
(* handles, a free list threaded through the empty slots, and the          *)
(* derivation tree threaded through the occupied ones.                     *)
(*                                                                         *)
(* Operations without a loop are one action.  The two operations that walk *)
(* linked lists (cap_revoke, and the unlinking done by cap_drop/cap_take)  *)
(* are one action per loop iteration; `phase` says which loop is running,  *)
(* and while one runs no other operation starts (&mut self).               *)
(***************************************************************************)
EXTENDS Threads, FiniteSets

CONSTANTS
  Capacity,      \* CAP_TABLE_CAPACITY
  MaxDepth,      \* MAX_DERIVATION_DEPTH
  GenModulus,    \* generations wrap at 2^32 in the code
  Objects,       \* kernel objects a capability can name
  RightsInputs,  \* the sets of rights callers ask for
  MaxIssued      \* bound on the number of capabilities ever installed

ASSUME CapacityAssumption == Capacity \in Nat \ {0}
ASSUME DepthAssumption == MaxDepth \in Nat
ASSUME GenAssumption == GenModulus \in Nat \ {0}
ASSUME BoundAssumption == MaxIssued \in Nat

VARIABLES
  entry,         \* occupied slots only: DOMAIN entry is the set of live slots
  generation,
  next_free,
  free_head,
  result,        \* what the last completed call returned
  phase,         \* "idle", or the loop that is running
  target,        \* src_index of a revoke, index of a drop
  cursor,        \* child / gc / cursor of the loops
  descendants,   \* scratch array of cap_revoke
  desc_len,
  scan,
  stamp,         \* auxiliary: when each slot was last filled or freed
  clock,         \* auxiliary: source of stamps
  issued         \* auxiliary: every handle handed out so far

table == <<entry, generation, next_free, free_head>>
loop == <<phase, target, cursor, descendants, desc_len, scan>>
aux == <<stamp, clock, issued>>
vars == <<table, result, loop, aux>>

-----------------------------------------------------------------------------
Slots == 0 .. Capacity - 1
Links == Slots \cup {None}
Rights == {"DUPLICATE", "DERIVE", "REVOKE", "TRANSFER", "SEND", "RECV", "NOTIFY"}
ASSUME RightsAssumption == RightsInputs \subseteq SUBSET Rights

Entries == [rights : SUBSET Rights, object : Objects, parent : Links,
            first_child : Links, next_sibling : Links, depth : 0 .. MaxDepth]
Handles == [index : Slots, generation : 0 .. GenModulus - 1, stamp : Nat]
Results == {"Ok", "CapsExhausted", "InvalidHandle", "WidenedRights",
            "DerivationTooDeep", "InsufficientRights", "HasChildren"}

Live == DOMAIN entry
Free == Slots \ Live
Children(p) == {s \in Live : entry[s].parent = p}

\* resolve_handle / entry_of / lookup: the generation matches and the slot is full.
Resolves(h) == generation[h.index] = h.generation /\ h.index \in Live
RightsOf(h) == entry[h.index].rights

\* Following a link out of a slot; an empty slot ends the walk.
NextSibling(s) == IF s \in Live THEN entry[s].next_sibling ELSE None
FirstChild(s) == IF s \in Live THEN entry[s].first_child ELSE None

NoScratch == [i \in Slots |-> 0]

Init ==
  /\ entry = [s \in {} |-> {}]
  /\ generation = [s \in Slots |-> 0]
  /\ next_free = [s \in Slots |-> IF s + 1 < Capacity THEN s + 1 ELSE None]
  /\ free_head = 0
  /\ result = "Ok"
  /\ phase = "idle" /\ target = None /\ cursor = None
  /\ descendants = NoScratch /\ desc_len = 0 /\ scan = 0
  /\ stamp = [s \in Slots |-> Capacity - s]
  /\ clock = Capacity + 1
  /\ issued = {}

-----------------------------------------------------------------------------
(* Installing a capability: insert_root, cap_copy, cap_derive.             *)

\* Mutated form: the new entry forgets its older siblings.
Install_ForgetsSiblings(p, r, o, d) ==
  LET n == free_head
      new == [rights |-> r, object |-> o, parent |-> p, first_child |-> None,
              next_sibling |-> None, depth |-> d]
  IN /\ free_head' = next_free[n]
     /\ next_free' = [next_free EXCEPT ![n] = None]
     /\ entry' = [s \in Live \cup {n} |->
                   IF s = n THEN new
                   ELSE IF s = p THEN [entry[s] EXCEPT !.first_child = n]
                   ELSE entry[s]]
     /\ result' = "Ok"
     /\ stamp' = [stamp EXCEPT ![n] = clock]
     /\ clock' = clock + 1
     /\ issued' = issued \cup {[index |-> n, generation |-> generation[n], stamp |-> clock]}
     /\ UNCHANGED <<generation, loop>>

\* pop_free, then splice the new entry in front of its parent's children.
\* A parent that is not live ends cap_copy after the pop: the slot is lost.
Install(p, r, o, d) ==
  LET n == free_head
      linked == p = None \/ p \in Live
      new == [rights |-> r, object |-> o, parent |-> p, first_child |-> None,
              next_sibling |-> IF p = None THEN None ELSE entry[p].first_child,
              depth |-> d]
  IN /\ free_head' = next_free[n]
     /\ next_free' = [next_free EXCEPT ![n] = None]
     /\ entry' = IF ~linked THEN entry
                 ELSE [s \in Live \cup {n} |->
                        IF s = n THEN new
                        ELSE IF s = p THEN [entry[s] EXCEPT !.first_child = n]
                        ELSE entry[s]]
     /\ result' = IF linked THEN "Ok" ELSE "InvalidHandle"
     /\ stamp' = [stamp EXCEPT ![n] = clock]
     /\ clock' = clock + 1
     /\ issued' = IF ~linked THEN issued ELSE issued \cup
          {[index |-> n, generation |-> generation[n], stamp |-> clock]}
     /\ UNCHANGED <<generation, loop>>

\* An early return: nothing but the result changes.
Refuse(why) == result' = why /\ UNCHANGED <<table, loop, aux>>

Bounded == free_head # None => Cardinality(issued) < MaxIssued

InsertRoot(r, o) ==
  /\ phase = "idle" /\ Bounded
  /\ IF free_head = None THEN Refuse("CapsExhausted")
     ELSE Install(None, r, o, 0)

CopyCheck(h, r) ==
  IF ~Resolves(h) THEN "InvalidHandle"
  ELSE IF "DUPLICATE" \notin RightsOf(h) THEN "InsufficientRights"
  ELSE IF ~(r \subseteq RightsOf(h)) THEN "WidenedRights"
  ELSE IF free_head = None THEN "CapsExhausted"
  ELSE "Ok"

\* A peer: same object, same parent, same depth.
CapCopy(h, r) ==
  /\ phase = "idle" /\ Bounded
  /\ IF CopyCheck(h, r) # "Ok" THEN Refuse(CopyCheck(h, r))
     ELSE LET e == entry[h.index] IN Install(e.parent, r, e.object, e.depth)

\* Mutated form: rights may be widened.
DeriveCheck_Widening(h, r) ==
  IF ~Resolves(h) THEN "InvalidHandle"
  ELSE IF "DERIVE" \notin RightsOf(h) THEN "InsufficientRights"
  ELSE IF entry[h.index].depth + 1 > MaxDepth THEN "DerivationTooDeep"
  ELSE IF free_head = None THEN "CapsExhausted"
  ELSE "Ok"

DeriveCheck(h, r) ==
  IF ~Resolves(h) THEN "InvalidHandle"
  ELSE IF "DERIVE" \notin RightsOf(h) THEN "InsufficientRights"
  ELSE IF ~(r \subseteq RightsOf(h)) THEN "WidenedRights"
  ELSE IF entry[h.index].depth + 1 > MaxDepth THEN "DerivationTooDeep"
  ELSE IF free_head = None THEN "CapsExhausted"
  ELSE "Ok"

\* A child of h, one level deeper.
CapDerive(h, r, o) ==
  /\ phase = "idle" /\ Bounded
  /\ IF DeriveCheck(h, r) # "Ok" THEN Refuse(DeriveCheck(h, r))
     ELSE Install(h.index, r, o, entry[h.index].depth + 1)

-----------------------------------------------------------------------------
(* Freeing slots: cap_drop, cap_take, cap_revoke.                          *)

\* Mutated forms: the freed slot is not linked to the rest of the free list;
\* its generation stays.
FreeSlot_NotLinked(i, e) ==
  /\ entry' = [s \in DOMAIN e \ {i} |-> e[s]]
  /\ generation' = [generation EXCEPT ![i] = (@ + 1) % GenModulus]
  /\ free_head' = i
  /\ stamp' = [stamp EXCEPT ![i] = clock]
  /\ clock' = clock + 1
  /\ UNCHANGED <<next_free, issued>>
FreeSlot_SameGeneration(i, e) ==
  /\ entry' = [s \in DOMAIN e \ {i} |-> e[s]]
  /\ next_free' = [next_free EXCEPT ![i] = free_head]
  /\ free_head' = i
  /\ stamp' = [stamp EXCEPT ![i] = clock]
  /\ clock' = clock + 1
  /\ UNCHANGED <<generation, issued>>

\* free_slot(i), on the entries e.
FreeSlot(i, e) ==
  /\ entry' = [s \in DOMAIN e \ {i} |-> e[s]]
  /\ generation' = [generation EXCEPT ![i] = (@ + 1) % GenModulus]
  /\ next_free' = [next_free EXCEPT ![i] = free_head]
  /\ free_head' = i
  /\ stamp' = [stamp EXCEPT ![i] = clock]
  /\ clock' = clock + 1
  /\ UNCHANGED issued

\* The call is over: the locals of its loop are gone.
EndLoop ==
  /\ phase' = "idle" /\ target' = None /\ cursor' = None
  /\ descendants' = NoScratch /\ desc_len' = 0 /\ scan' = 0

RemoveCheck(h) ==
  IF ~Resolves(h) THEN "InvalidHandle"
  ELSE IF entry[h.index].first_child # None THEN "HasChildren"
  ELSE IF entry[h.index].parent \notin Live \cup {None} THEN "InvalidHandle"
  ELSE "Ok"

\* cap_drop and cap_take (which also hands the capability to the caller).
\* A root or the first child is unlinked at once; otherwise the sibling
\* list is searched for the predecessor.
CapRemove(h) ==
  /\ phase = "idle"
  /\ IF RemoveCheck(h) # "Ok" THEN Refuse(RemoveCheck(h))
     ELSE LET i == h.index
              p == entry[i].parent
          IN \/ /\ p = None
                /\ FreeSlot(i, entry)
                /\ result' = "Ok" /\ UNCHANGED loop
             \/ /\ p # None /\ entry[p].first_child = i
                /\ FreeSlot(i, [entry EXCEPT ![p].first_child = entry[i].next_sibling])
                /\ result' = "Ok" /\ UNCHANGED loop
             \/ /\ p # None /\ entry[p].first_child # i
                /\ phase' = "unlink" /\ target' = i
                /\ cursor' = entry[p].first_child
                /\ UNCHANGED <<table, result, descendants, desc_len, scan, aux>>

\* Mutated form: the cursor does not move.
UnlinkStep_Stuck ==
  /\ phase = "unlink"
  /\ cursor # None /\ NextSibling(cursor) = target
  /\ FreeSlot(target,
       [entry EXCEPT ![cursor].next_sibling = entry[target].next_sibling])
  /\ result' = "Ok" /\ EndLoop

\* One iteration of the search in unlink_from_siblings, then free_slot.
UnlinkStep ==
  /\ phase = "unlink"
  /\ IF cursor = None
     THEN result' = "InvalidHandle" /\ EndLoop /\ UNCHANGED <<table, aux>>
     ELSE IF NextSibling(cursor) = target
     THEN /\ FreeSlot(target,
               [entry EXCEPT ![cursor].next_sibling = entry[target].next_sibling])
          /\ result' = "Ok" /\ EndLoop
     ELSE /\ cursor' = NextSibling(cursor)
          /\ UNCHANGED <<table, result, phase, target, descendants, desc_len, scan, aux>>

RevokeCheck(h) ==
  IF ~Resolves(h) THEN "InvalidHandle"
  ELSE IF "REVOKE" \notin RightsOf(h) THEN "InsufficientRights"
  ELSE "Ok"

CapRevoke(h) ==
  /\ phase = "idle"
  /\ IF RevokeCheck(h) # "Ok" THEN Refuse(RevokeCheck(h))
     ELSE /\ phase' = "collect" /\ target' = h.index
          /\ cursor' = entry[h.index].first_child
          /\ UNCHANGED <<table, result, descendants, desc_len, scan, aux>>

\* Mutated form: the children of target are collected, not their children.
CollectStep_ChildrenOnly ==
  /\ phase = "collect"
  /\ \/ /\ cursor # None
        /\ descendants' = [descendants EXCEPT ![desc_len] = cursor]
        /\ desc_len' = desc_len + 1
        /\ cursor' = NextSibling(cursor)
        /\ UNCHANGED phase
     \/ /\ cursor = None
        /\ phase' = "free"
        /\ UNCHANGED <<cursor, descendants, desc_len>>
  /\ UNCHANGED <<table, result, target, scan, aux>>

\* One iteration of the breadth-first collection.  The children of target
\* are collected first, then those of descendants[0], descendants[1], ...;
\* a full scratch array ends the inner loop.
CollectStep ==
  /\ phase = "collect"
  /\ \/ /\ cursor # None
        /\ IF desc_len < Capacity
           THEN /\ descendants' = [descendants EXCEPT ![desc_len] = cursor]
                /\ desc_len' = desc_len + 1
                /\ cursor' = NextSibling(cursor)
           ELSE cursor' = None /\ UNCHANGED <<descendants, desc_len>>
        /\ UNCHANGED <<phase, scan>>
     \/ /\ cursor = None /\ scan < desc_len
        /\ cursor' = FirstChild(descendants[scan])
        /\ scan' = scan + 1
        /\ UNCHANGED <<phase, descendants, desc_len>>
     \/ /\ cursor = None /\ scan >= desc_len
        /\ phase' = "free" /\ scan' = 0
        /\ UNCHANGED <<cursor, descendants, desc_len>>
  /\ UNCHANGED <<table, result, target, aux>>

\* One iteration of the loop that frees what was collected, then the
\* clearing of target's child list.
FreeStep ==
  /\ phase = "free"
  /\ IF scan < desc_len
     THEN /\ FreeSlot(descendants[scan], entry)
          /\ scan' = scan + 1
          /\ UNCHANGED <<result, phase, target, cursor, descendants, desc_len>>
     ELSE /\ entry' = [s \in Live |-> IF s = target
                         THEN [entry[s] EXCEPT !.first_child = None] ELSE entry[s]]
          /\ result' = "Ok" /\ EndLoop
          /\ UNCHANGED <<generation, next_free, free_head, aux>>

-----------------------------------------------------------------------------
Call ==
  \/ \E r \in RightsInputs, o \in Objects : InsertRoot(r, o)
  \/ \E h \in issued :
       \/ \E r \in RightsInputs : CapCopy(h, r)
       \/ \E r \in RightsInputs, o \in Objects : CapDerive(h, r, o)
       \/ CapRemove(h)
       \/ CapRevoke(h)

LoopStep == UnlinkStep \/ CollectStep \/ FreeStep

Next == Call \/ LoopStep

\* A call that has begun runs to its end: the kernel is single-core and
\* nothing preempts it.  Nobody is obliged to make calls.
Spec == Init /\ [][Next]_vars /\ WF_vars(LoopStep)

-----------------------------------------------------------------------------
(* Properties.                                                             *)

TypeOK ==
  /\ Live \subseteq Slots /\ entry \in [Live -> Entries]
  /\ generation \in [Slots -> 0 .. GenModulus - 1]
  /\ next_free \in [Slots -> Links] /\ free_head \in Links
  /\ result \in Results
  /\ phase \in {"idle", "unlink", "collect", "free"}
  /\ target \in Links /\ cursor \in Links
  /\ descendants \in [Slots -> Slots]
  /\ desc_len \in 0 .. Capacity /\ scan \in 0 .. Capacity
  /\ stamp \in [Slots -> Nat] /\ clock \in Nat
  /\ issued \subseteq Handles

\* The slots a revoke has collected and not freed yet.
Doomed == IF phase = "free" THEN {descendants[i] : i \in scan .. desc_len - 1} ELSE {}

\* No slot is ever leaked, freed twice or handed out while in use: after any
\* sequence of calls, error returns included, and between any two steps of a
\* revoke, the free list holds every empty slot exactly once.
FreeListExact == Threaded(Free, free_head, next_free, stamp)

\* The embedded derivation tree is intact: the parent of every capability is
\* live, and following first_child and next_sibling from a slot visits each
\* of its children once and nothing else.  A revoke in progress may break
\* this only inside the subtree it is freeing.
TreeExact ==
  /\ \A s \in Live \ Doomed : entry[s].parent \in (Live \ Doomed) \cup {None}
  /\ \A p \in Live \ (Doomed \cup IF phase = "free" THEN {target} ELSE {}) :
       Threaded(Children(p), entry[p].first_child,
                [s \in Children(p) |-> entry[s].next_sibling], stamp)

\* Authority never grows along a derivation (cap_copy and cap_derive only
\* narrow), however copies, derivations and slot reuse are interleaved; the
\* depth counts the ancestors, so the limit really bounds every chain.
Attenuation ==
  \A s \in Live \ Doomed :
    LET p == entry[s].parent IN
    IF p = None THEN entry[s].depth = 0
    ELSE entry[s].rights \subseteq entry[p].rights /\ entry[s].depth = entry[p].depth + 1

\* A handle resolves only to the capability it was issued for: once that
\* capability is gone the handle stays dead, although its slot is reused,
\* until the slot has been reused GenModulus times (2^32 in the code) and its
\* generation has wrapped around.
Reuses(h) == Cardinality({g \in issued : g.index = h.index /\ g.stamp > h.stamp})
HandlesNameOneCap ==
  \A h \in issued : Resolves(h) => stamp[h.index] = h.stamp \/ Reuses(h) >= GenModulus

\* The states cap_revoke and unlink_from_siblings call internal bugs are
\* never reached: the scratch array always has room for the next descendant
\* (debug_assert "derivation tree contains a cycle or duplicate node"), and
\* the search for a predecessor never runs off the sibling list.
WalksSucceed ==
  /\ phase = "collect" /\ cursor # None => desc_len < Capacity
  /\ phase = "unlink" => cursor # None

\* The forest the table stands for.  A capability is named by its stamp.  A
\* revoke takes effect when its collection is complete.
NameOf(s) == IF s = None THEN None ELSE stamp[s]
Forest ==
  [n \in {stamp[s] : s \in Live \ Doomed} |->
     LET e == entry[CHOOSE s \in Live \ Doomed : stamp[s] = n]
     IN [rights |-> e.rights, object |-> e.object,
         parent |-> NameOf(e.parent), depth |-> e.depth]]
Abstract == INSTANCE CapForest WITH
  Names <- 0 .. Capacity + 2 * MaxIssued,
  NoParent <- None,
  forest <- Forest,
  used <- {h.stamp : h \in issued},
  result <- IF phase = "free" THEN "Ok" ELSE result

\* The table behaves as a forest of uniquely named capabilities with atomic
\* operations: a revoke removes exactly the descendants, a stale handle gets
\* InvalidHandle, CapsExhausted is returned only when every slot is in use,
\* HasChildren only for a capability with a live child.
RefinesForest == Abstract!Spec

\* Every call returns: the list walks terminate.
CallsReturn == phase # "idle" ~> phase = "idle"
=============================================================================
