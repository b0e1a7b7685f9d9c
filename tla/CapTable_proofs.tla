--------------------------- MODULE CapTable_proofs ---------------------------
(***************************************************************************)
(* The structure of a capability table is sound after every sequence of    *)
(* calls, for every capacity, depth limit and set of rights.  The          *)
(* inductive invariant is the checked properties and what the loops of     *)
(* unlink_from_siblings and cap_revoke know while they run; every action   *)
(* preserves it, and the properties follow.                                *)
(***************************************************************************)
EXTENDS CapTable, Threads_proofs, FiniteSetTheorems

\* Stamps are in the past.
Clocked == \A s \in Slots : stamp[s] < clock

\* The search for target's predecessor is still before it in the list.
Unlinking ==
  phase = "unlink" =>
    /\ target \in Live /\ cursor \in Live
    /\ entry[target].first_child = None
    /\ entry[target].parent \in Live
    /\ entry[cursor].parent = entry[target].parent
    /\ stamp[target] < stamp[cursor]

Collected == 0 .. desc_len - 1

\* s is target or a descendant whose children the collection has begun to visit.
Visited(s) == s = target \/ \E j \in 0 .. scan - 1 : s = descendants[j]

\* The node whose children the collection is visiting.
Visiting == IF scan = 0 THEN target ELSE descendants[scan - 1]

\* What has been collected are different descendants of target; of the nodes
\* visited so far only children at or behind the cursor are still missing.
Collecting ==
  phase = "collect" =>
    /\ target \in Live /\ scan =< desc_len
    /\ \A i \in Collected :
         /\ descendants[i] \in Live
         /\ entry[descendants[i]].depth > entry[target].depth
         /\ Visited(entry[descendants[i]].parent)
    /\ \A i, j \in Collected : descendants[i] = descendants[j] => i = j
    /\ cursor # None =>
         /\ cursor \in Live /\ entry[cursor].parent = Visiting
         /\ \A i \in Collected :
              entry[descendants[i]].parent = Visiting => stamp[cursor] < stamp[descendants[i]]
    /\ \A s \in Live : Visited(entry[s].parent) =>
         \/ \E i \in Collected : s = descendants[i]
         \/ cursor # None /\ entry[s].parent = Visiting /\ stamp[s] =< stamp[cursor]

\* What is still to be freed is live, is not target, and hangs below target
\* or another collected node; no other capability hangs below target.
Freeing ==
  phase = "free" =>
    /\ target \in Live /\ scan =< desc_len
    /\ \A i, j \in Collected : descendants[i] = descendants[j] => i = j
    /\ \A i \in Collected : i < scan => descendants[i] \notin Live
    /\ \A i \in Collected : i >= scan =>
         /\ descendants[i] \in Live /\ descendants[i] # target
         /\ entry[descendants[i]].parent = target
            \/ \E j \in Collected : entry[descendants[i]].parent = descendants[j]
    /\ \A s \in Live : entry[s].parent = target =>
         \E i \in Collected : i >= scan /\ s = descendants[i]

\* The scratch array is empty when no revoke runs.
Resting == phase \in {"idle", "unlink"} => desc_len = 0 /\ scan = 0

IInv ==
  /\ TypeOK /\ Clocked
  /\ FreeListExact /\ TreeExact /\ Attenuation
  /\ Unlinking /\ Collecting /\ Freeing /\ Resting

-----------------------------------------------------------------------------
\* None is no slot.
LEMMA NoneIsNoSlot == None \notin Slots /\ \A S \in SUBSET Slots : None \notin S
BY CapacityAssumption DEF None, Slots

\* Capacity different slots leave no slot out.
LEMMA Pigeonhole ==
  ASSUME NEW f \in [Slots -> Slots], \A i, j \in Slots : f[i] = f[j] => i = j,
         NEW t \in Slots, \A i \in Slots : f[i] # t
  PROVE  FALSE
<1>1. IsFiniteSet(Slots) /\ Cardinality(Slots) \in Nat
  BY CapacityAssumption, FS_Interval, FS_CardinalityType DEF Slots
<1>2. IsFiniteSet(Slots \ {t}) /\ Cardinality(Slots \ {t}) = Cardinality(Slots) - 1
  BY <1>1, FS_RemoveElement
<1>3. f \in [Slots -> Slots \ {t}]
  OBVIOUS
<1>4. Cardinality(Slots \ {t}) < Cardinality(Slots)
  BY <1>1, <1>2
<1> QED  BY <1>1, <1>2, <1>3, <1>4, FS_PigeonHole

\* The links of the children of p.
Siblings(p) == [s \in Children(p) |-> entry[s].next_sibling]

\* The links of the children of q other than i, in the entries e.
SiblingsBut(q, i, e) == [s \in Children(q) \ {i} |-> e[s].next_sibling]

\* A step that leaves entries and stamps alone leaves the tree alone.
LEMMA TreeFrame ==
  ASSUME TreeExact, Attenuation, UNCHANGED <<entry, stamp>>,
         \/ UNCHANGED <<phase, target, descendants, desc_len, scan>>
         \/ phase # "free" /\ phase' # "free"
  PROVE  TreeExact' /\ Attenuation'
<1> DEFINE broken == Doomed \cup IF phase = "free" THEN {target} ELSE {}
<1>1. Live' = Live /\ Doomed' = Doomed /\ broken' = broken
  BY DEF Live, Doomed
<1>2. \A p : Children(p)' = Children(p) /\ Siblings(p)' = Siblings(p)
  BY <1>1 DEF Children, Siblings
<1>3. \A p \in Live \ broken :
        Threaded(Children(p), entry[p].first_child, Siblings(p), stamp)
  BY DEF TreeExact, Siblings
<1> HIDE DEF broken
<1>4. \A p \in Live' \ broken' :
        Threaded(Children(p)', entry'[p].first_child, Siblings(p)', stamp')
  BY <1>1, <1>2, <1>3
<1>5. \A s \in Live' \ Doomed' : entry'[s].parent \in (Live' \ Doomed') \cup {None}
  BY <1>1 DEF TreeExact
<1>6. Attenuation'
  BY <1>1 DEF Attenuation
<1> QED  BY <1>4, <1>5, <1>6 DEF TreeExact, Siblings, broken

\* When no revoke is freeing, the whole tree is intact.
LEMMA WholeTree ==
  ASSUME IInv, phase # "free"
  PROVE  /\ \A s \in Live : entry[s].parent \in Live \cup {None}
         /\ \A p \in Live : Threaded(Children(p), entry[p].first_child, Siblings(p), stamp)
BY DEF IInv, TreeExact, Doomed, Siblings

\* A capability without a first child has no children.
LEMMA LeafHasNoChildren ==
  ASSUME IInv, phase # "free", NEW i \in Live, entry[i].first_child = None
  PROVE  \A s \in Live : entry[s].parent # i
<1>1. None \notin Children(i)
  BY NoneIsNoSlot DEF Children, IInv, TypeOK
<1>2. Children(i) = {}
  BY <1>1, WholeTree, ThreadedHead
<1> QED  BY <1>2 DEF Children

-----------------------------------------------------------------------------
\* The empty table.
LEMMA InitInv == Init => IInv
<1> SUFFICES ASSUME Init PROVE IInv
  OBVIOUS
<1> USE CapacityAssumption, DepthAssumption, GenAssumption
<1>1. Live = {} /\ Free = Slots
  BY DEF Init, Live, Free
<1>2. TypeOK
  <2>1. entry \in [Live -> Entries] /\ Live \subseteq Slots
    BY <1>1 DEF Init, Live
  <2>2. generation \in [Slots -> 0 .. GenModulus - 1]
    BY DEF Init
  <2>3. next_free \in [Slots -> Links] /\ free_head \in Links
    BY DEF Init, Links, Slots
  <2>4. descendants \in [Slots -> Slots]
    BY DEF Init, NoScratch, Slots
  <2>5. stamp \in [Slots -> Nat] /\ clock \in Nat
    BY DEF Init, Slots
  <2> QED  BY <2>1, <2>2, <2>3, <2>4, <2>5 DEF Init, TypeOK, Links, Results
<1>3. Clocked
  BY DEF Init, Clocked, Slots
<1>4. FreeListExact
  <2>1. \A s \in Slots : stamp[s] = Capacity - s
    BY DEF Init
  <2>2. \A s, t \in Slots : stamp[s] = stamp[t] => s = t
    BY <2>1 DEF Slots
  <2>3. free_head \in Slots /\ \A t \in Slots : stamp[t] =< stamp[free_head]
    BY <2>1 DEF Init, Slots
  <2>4. ASSUME NEW s \in Slots
        PROVE  IF \A t \in Slots : stamp[t] >= stamp[s] THEN next_free[s] = None
               ELSE /\ next_free[s] \in Slots /\ stamp[next_free[s]] < stamp[s]
                    /\ \A t \in Slots : stamp[t] < stamp[s] => stamp[t] =< stamp[next_free[s]]
    <3>1. CASE s + 1 < Capacity
      <4>1. next_free[s] = s + 1 /\ s + 1 \in Slots
        BY <3>1 DEF Init, Slots
      <4>2. ~(\A t \in Slots : stamp[t] >= stamp[s])
        BY <2>1, <4>1 DEF Slots
      <4> QED  BY <2>1, <4>1, <4>2 DEF Slots
    <3>2. CASE ~(s + 1 < Capacity)
      <4>1. next_free[s] = None
        BY <3>2 DEF Init
      <4>2. \A t \in Slots : stamp[t] >= stamp[s]
        BY <2>1, <3>2 DEF Slots
      <4> QED  BY <4>1, <4>2
    <3> QED  BY <3>1, <3>2
  <2> QED  BY <1>1, <2>2, <2>3, <2>4 DEF FreeListExact, Threaded
<1>5. TreeExact /\ Attenuation
  BY <1>1 DEF TreeExact, Attenuation
<1>6. Unlinking /\ Collecting /\ Freeing /\ Resting
  BY DEF Init, Unlinking, Collecting, Freeing, Resting
<1> QED  BY <1>2, <1>3, <1>4, <1>5, <1>6 DEF IInv

\* Installing a capability below p, or as a root.
LEMMA InstallInv ==
  ASSUME IInv, phase = "idle", free_head # None,
         NEW p \in Live \cup {None}, NEW r \in SUBSET Rights, NEW o \in Objects,
         NEW d \in 0 .. MaxDepth,
         IF p = None THEN d = 0 ELSE r \subseteq entry[p].rights /\ d = entry[p].depth + 1,
         Install(p, r, o, d)
  PROVE  IInv'
<1> DEFINE n == free_head
           new == [rights |-> r, object |-> o, parent |-> p, first_child |-> None,
                   next_sibling |-> IF p = None THEN None ELSE entry[p].first_child,
                   depth |-> d]
<1> USE CapacityAssumption, DepthAssumption, GenAssumption, NoneIsNoSlot
<1>1. TypeOK /\ Clocked
  BY DEF IInv
<1>2. n \in Slots /\ n \notin Live /\ n \in Free
  <2>1. None \notin Free
    BY DEF Free
  <2>2. n \in Free
    BY <2>1, ThreadedHead DEF IInv, FreeListExact
  <2> QED  BY <2>2 DEF Free
<1>3. /\ Live' = Live \cup {n}
      /\ entry' = [s \in Live \cup {n} |->
                    IF s = n THEN new
                    ELSE IF s = p THEN [entry[s] EXCEPT !.first_child = n] ELSE entry[s]]
      /\ free_head' = next_free[n] /\ next_free' = [next_free EXCEPT ![n] = None]
      /\ stamp' = [stamp EXCEPT ![n] = clock] /\ clock' = clock + 1
      /\ generation' = generation /\ result' = "Ok"
      /\ issued' = issued \cup {[index |-> n, generation |-> generation[n], stamp |-> clock]}
      /\ UNCHANGED loop
  BY DEF Install, Live
<1>4. new \in Entries
  BY <1>1 DEF Entries, TypeOK, Links
<1>5. \A s \in Live : entry'[s] \in Entries
                     /\ entry'[s].parent = entry[s].parent
                     /\ entry'[s].next_sibling = entry[s].next_sibling
                     /\ entry'[s].rights = entry[s].rights
                     /\ entry'[s].depth = entry[s].depth
                     /\ entry'[s].first_child = IF s = p THEN n ELSE entry[s].first_child
  BY <1>1, <1>2, <1>3 DEF TypeOK, Entries, Links
<1>6. entry'[n] = new
  BY <1>3
<1> HIDE DEF n, new
<1>7. TypeOK'
  <2>1. Live' \subseteq Slots /\ entry' \in [Live' -> Entries]
    BY <1>1, <1>2, <1>3, <1>4, <1>5, <1>6 DEF TypeOK
  <2>2. [index |-> n, generation |-> generation[n], stamp |-> clock] \in Handles
    BY <1>1, <1>2 DEF TypeOK, Handles
  <2>3. next_free' \in [Slots -> Links] /\ free_head' \in Links
    BY <1>1, <1>2, <1>3 DEF TypeOK, Links
  <2>4. stamp' \in [Slots -> Nat] /\ clock' \in Nat
    BY <1>1, <1>2, <1>3 DEF TypeOK
  <2>5. issued' \subseteq Handles
    BY <1>1, <1>3, <2>2 DEF TypeOK
  <2> QED  BY <1>1, <1>3, <2>1, <2>3, <2>4, <2>5 DEF TypeOK, loop, Results
<1>8. Clocked'
  BY <1>1, <1>2, <1>3 DEF Clocked, TypeOK
<1>9. FreeListExact'
  <2>1. Free' = Free \ {n}
    BY <1>3 DEF Free
  <2>2. \A s \in Free : stamp[s] \in Int
    BY <1>1 DEF TypeOK, Free
  <2>3. Threaded(Free \ {n}, next_free[n], next_free, stamp)
    BY <1>2, <2>2, ThreadedPop, ZenonT(30) DEF IInv, FreeListExact, n
  <2>4. \A s \in Free \ {n} : next_free'[s] = next_free[s] /\ stamp'[s] = stamp[s]
    BY <1>1, <1>3 DEF TypeOK, Free
  <2>5. Threaded(Free \ {n}, next_free[n], next_free', stamp')
    BY <2>3, <2>4, ThreadedFrame
  <2> QED  BY <1>3, <2>1, <2>5 DEF FreeListExact
<1>10. Doomed' = {} /\ phase' = "idle"
  BY <1>3 DEF Doomed, loop
<1>11. Attenuation'
  <2> SUFFICES ASSUME NEW s \in Live'
               PROVE  IF entry'[s].parent = None THEN entry'[s].depth = 0
                      ELSE /\ entry'[s].rights \subseteq entry'[entry'[s].parent].rights
                           /\ entry'[s].depth = entry'[entry'[s].parent].depth + 1
    BY <1>10 DEF Attenuation
  <2>1. CASE s = n
    BY <1>5, <1>6, <2>1 DEF new
  <2>2. CASE s # n
    <3>1. s \in Live /\ entry[s].parent \in Live \cup {None}
      BY <1>3, <2>2, WholeTree
    <3>2. IF entry[s].parent = None THEN entry[s].depth = 0
          ELSE /\ entry[s].rights \subseteq entry[entry[s].parent].rights
               /\ entry[s].depth = entry[entry[s].parent].depth + 1
      BY <3>1 DEF IInv, Attenuation, Doomed
    <3> QED  BY <1>5, <3>1, <3>2
  <2> QED  BY <2>1, <2>2
<1>12. TreeExact'
  <2>1. ASSUME NEW s \in Live' PROVE entry'[s].parent \in Live' \cup {None}
    BY <1>3, <1>5, <1>6, WholeTree DEF new
  <2>2. ASSUME NEW q \in Live'
        PROVE  Threaded(Children(q)', entry'[q].first_child, Siblings(q)', stamp')
    <3>0. \A s \in Live : stamp'[s] = stamp[s] /\ stamp[s] \in Int /\ stamp[s] < clock
                          /\ stamp'[n] = clock /\ clock \in Int
      BY <1>1, <1>2, <1>3 DEF TypeOK, Clocked
    <3>1. CASE q = n
      <4>1. Children(q)' = {}
        BY <1>2, <1>3, <1>5, <1>6, <3>1, WholeTree DEF Children, new
      <4> QED  BY <1>6, <3>1, <4>1 DEF Threaded, new
    <3>2. CASE q # n /\ q = p
      <4>1. q \in Live /\ Threaded(Children(q), entry[q].first_child, Siblings(q), stamp)
        BY <1>3, <3>2, WholeTree
      <4>2. Children(q)' = Children(q) \cup {n} /\ n \notin Children(q) /\ None \notin Children(q)
        BY <1>1, <1>2, <1>3, <1>5, <1>6, <3>2 DEF Children, new, TypeOK
      <4>3. \A s \in Children(q) :
              /\ Siblings(q)'[s] = Siblings(q)[s]
              /\ stamp'[s] = stamp[s] /\ stamp[s] < stamp'[n] /\ stamp[s] \in Int
        BY <1>5, <3>0, <4>2, Zenon DEF Siblings, Children
      <4>4. Siblings(q)'[n] = entry[q].first_child /\ stamp'[n] \in Int
        BY <1>1, <1>6, <3>0, <3>2, <4>1, <4>2 DEF Siblings, new, TypeOK
      <4>5. Threaded(Children(q) \cup {n}, n, Siblings(q)', stamp')
        BY <4>1, <4>2, <4>3, <4>4, ThreadedPush
      <4> QED  BY <1>5, <3>2, <4>1, <4>2, <4>5, Zenon
    <3>3. CASE q # n /\ q # p
      <4>1. q \in Live /\ Threaded(Children(q), entry[q].first_child, Siblings(q), stamp)
        BY <1>3, <3>3, WholeTree
      <4>2. Children(q)' = Children(q)
        BY <1>2, <1>3, <1>5, <1>6, <3>3 DEF Children, new
      <4>3. \A s \in Children(q) : Siblings(q)'[s] = Siblings(q)[s] /\ stamp'[s] = stamp[s]
        BY <1>5, <3>0, <4>2, Zenon DEF Siblings, Children
      <4> QED  BY <1>5, <3>3, <4>1, <4>2, <4>3, ThreadedFrame
    <3> QED  BY <3>1, <3>2, <3>3
  <2> QED  BY <1>10, <2>1, <2>2 DEF TreeExact, Siblings
<1>13. Unlinking' /\ Collecting' /\ Freeing' /\ Resting'
  BY <1>3, <1>10 DEF Unlinking, Collecting, Freeing, Resting, IInv, loop
<1> QED  BY <1>7, <1>8, <1>9, <1>11, <1>12, <1>13 DEF IInv

\* free_slot returns i to the free list and leaves the other slots alone.
LEMMA FreeSlotTable ==
  ASSUME TypeOK, Clocked, FreeListExact, NEW i \in Live, NEW e \in [Live -> Entries],
         FreeSlot(i, e), result' \in Results,
         phase' \in {"idle", "unlink", "collect", "free"},
         target' \in Links, cursor' \in Links, descendants' \in [Slots -> Slots],
         desc_len' \in 0 .. Capacity, scan' \in 0 .. Capacity
  PROVE  /\ TypeOK' /\ Clocked' /\ FreeListExact'
         /\ Live' = Live \ {i} /\ \A s \in Live \ {i} : entry'[s] = e[s] /\ stamp'[s] = stamp[s]
<1> USE CapacityAssumption, DepthAssumption, GenAssumption, NoneIsNoSlot
<1>2. i \in Slots
  BY DEF TypeOK
<1>3. /\ Live' = Live \ {i} /\ entry' = [s \in Live \ {i} |-> e[s]]
      /\ generation' = [generation EXCEPT ![i] = (@ + 1) % GenModulus]
      /\ next_free' = [next_free EXCEPT ![i] = free_head] /\ free_head' = i
      /\ stamp' = [stamp EXCEPT ![i] = clock] /\ clock' = clock + 1
      /\ UNCHANGED issued
  BY DEF FreeSlot, Live
<1>4. \A s \in Live \ {i} : entry'[s] = e[s] /\ e[s] \in Entries /\ stamp'[s] = stamp[s]
  BY <1>3 DEF TypeOK
<1>6. TypeOK'
  <2>1. Live' \subseteq Slots /\ entry' \in [Live' -> Entries]
    BY <1>3, <1>4 DEF TypeOK
  <2>2. generation' \in [Slots -> 0 .. GenModulus - 1]
    <3>1. (generation[i] + 1) % GenModulus \in 0 .. GenModulus - 1
      <4>1. generation[i] + 1 \in Nat
        BY <1>2 DEF TypeOK
      <4> HIDE DEF TypeOK
      <4> QED  BY <4>1, Z3
    <3> QED  BY <1>2, <1>3, <3>1 DEF TypeOK
  <2>3. next_free' \in [Slots -> Links] /\ free_head' \in Links
    BY <1>2, <1>3 DEF TypeOK, Links
  <2>4. stamp' \in [Slots -> Nat] /\ clock' \in Nat
    BY <1>2, <1>3 DEF TypeOK
  <2>5. issued' \subseteq Handles
    BY <1>3 DEF TypeOK
  <2> QED  BY <2>1, <2>2, <2>3, <2>4, <2>5 DEF TypeOK, Results
<1>7. Clocked'
  BY <1>2, <1>3 DEF Clocked, TypeOK
<1>8. FreeListExact'
  <2>1. Free' = Free \cup {i} /\ i \notin Free /\ None \notin Free
    BY <1>2, <1>3 DEF Free
  <2>2. \A s \in Free : /\ next_free'[s] = next_free[s] /\ stamp'[s] = stamp[s]
                        /\ stamp[s] \in Int /\ stamp[s] < stamp'[i]
    BY <1>2, <1>3 DEF TypeOK, Clocked, Free
  <2>3. next_free'[i] = free_head /\ stamp'[i] \in Int
    BY <1>2, <1>3 DEF TypeOK
  <2>4. Threaded(Free, free_head, next_free, stamp)
    BY DEF FreeListExact
  <2>5. Threaded(Free \cup {i}, i, next_free', stamp')
    BY <2>1, <2>2, <2>3, <2>4, ThreadedPush
  <2> QED  BY <1>3, <2>1, <2>5 DEF FreeListExact
<1> QED  BY <1>3, <1>4, <1>6, <1>7, <1>8

\* Freeing a capability i without children, once e is the tree without it.
LEMMA FreeLeafInv ==
  ASSUME IInv, phase \in {"idle", "unlink"},
         NEW i \in Live, entry[i].first_child = None,
         NEW e \in [Live -> Entries],
         \A s \in Live : /\ e[s].parent = entry[s].parent
                         /\ e[s].rights = entry[s].rights
                         /\ e[s].depth = entry[s].depth,
         \A q \in Live \ {i} :
           Threaded(Children(q) \ {i}, e[q].first_child, SiblingsBut(q, i, e), stamp),
         FreeSlot(i, e), result' = "Ok", phase' = "idle",
         target' \in Links, cursor' \in Links, descendants' \in [Slots -> Slots],
         desc_len' = 0, scan' = 0
  PROVE  IInv'
<1> USE CapacityAssumption, DepthAssumption, GenAssumption, NoneIsNoSlot
<1>1. TypeOK /\ Clocked /\ FreeListExact /\ phase # "free"
  BY DEF IInv
<1>2. /\ TypeOK' /\ Clocked' /\ FreeListExact' /\ Live' = Live \ {i}
      /\ \A s \in Live \ {i} : entry'[s] = e[s] /\ stamp'[s] = stamp[s]
  <2>1. result' \in Results /\ phase' \in {"idle", "unlink", "collect", "free"}
        /\ desc_len' \in 0 .. Capacity /\ scan' \in 0 .. Capacity
    BY DEF Results
  <2> QED  BY <1>1, <2>1, FreeSlotTable, Zenon
<1>3. Live' = Live \ {i} /\ \A s \in Live \ {i} : stamp'[s] = stamp[s]
  BY <1>2, Zenon
<1>4. \A s \in Live \ {i} : entry'[s] = e[s]
  BY <1>2, Zenon
<1>5. \A s \in Live \ {i} : entry[s].parent \in (Live \ {i}) \cup {None}
  BY <1>1, WholeTree, LeafHasNoChildren, Zenon
<1>9. Doomed' = {}
  BY DEF Doomed
<1>10. Attenuation'
  <2> SUFFICES ASSUME NEW s \in Live'
               PROVE  IF entry'[s].parent = None THEN entry'[s].depth = 0
                      ELSE /\ entry'[s].rights \subseteq entry'[entry'[s].parent].rights
                           /\ entry'[s].depth = entry'[entry'[s].parent].depth + 1
    BY <1>9, Zenon DEF Attenuation
  <2>1. s \in Live \ {i} /\ entry[s].parent \in (Live \ {i}) \cup {None}
    BY <1>3, <1>5, Zenon
  <2>2. IF entry[s].parent = None THEN entry[s].depth = 0
        ELSE /\ entry[s].rights \subseteq entry[entry[s].parent].rights
             /\ entry[s].depth = entry[entry[s].parent].depth + 1
    BY <2>1, Zenon DEF IInv, Attenuation, Doomed
  <2>3. CASE entry[s].parent = None
    BY <1>4, <2>1, <2>2, <2>3, Zenon
  <2>4. CASE entry[s].parent # None
    <3>1. PICK q \in Live \ {i} : q = entry[s].parent
      BY <2>1, <2>4, Zenon
    <3>2. /\ entry'[s].parent = q /\ entry'[s].rights = entry[s].rights
          /\ entry'[s].depth = entry[s].depth
          /\ entry'[q].rights = entry[q].rights /\ entry'[q].depth = entry[q].depth
      BY <1>4, <2>1, <3>1, Zenon
    <3> QED  BY <2>2, <2>4, <3>1, <3>2, Zenon
  <2> QED  BY <2>3, <2>4, Zenon
<1>11. TreeExact'
  <2>1. ASSUME NEW s \in Live' PROVE entry'[s].parent \in Live' \cup {None}
    BY <1>3, <1>4, <1>5, ZenonT(30)
  <2>2. ASSUME NEW q \in Live'
        PROVE  Threaded(Children(q)', entry'[q].first_child, Siblings(q)', stamp')
    <3>1. q \in Live \ {i} /\ entry'[q].first_child = e[q].first_child
      BY <1>3, <1>4, Zenon
    <3>2. Children(q)' = Children(q) \ {i}
      BY <1>3, <1>4, Zenon DEF Children
    <3>3. \A s \in Children(q) \ {i} :
            Siblings(q)'[s] = SiblingsBut(q, i, e)[s] /\ stamp'[s] = stamp[s]
      BY <1>1, <1>3, <1>4, <3>2, Zenon DEF Siblings, SiblingsBut, Children, TypeOK
    <3>4. Threaded(Children(q) \ {i}, e[q].first_child, SiblingsBut(q, i, e), stamp)
      BY <3>1, ZenonT(30)
    <3>5. Threaded(Children(q) \ {i}, e[q].first_child, Siblings(q)', stamp')
      BY <3>3, <3>4, ThreadedFrame
    <3> QED  BY <3>1, <3>2, <3>5, Zenon
  <2> QED  BY <1>9, <2>1, <2>2, Zenon DEF TreeExact, Siblings
<1>12. Unlinking' /\ Collecting' /\ Freeing' /\ Resting'
  BY Zenon DEF Unlinking, Collecting, Freeing, Resting
<1> QED  BY <1>2, <1>10, <1>11, <1>12, Zenon DEF IInv

\* An early return.
LEMMA RefuseInv ==
  ASSUME IInv, NEW w \in Results, Refuse(w)
  PROVE  IInv'
<1>1. UNCHANGED <<entry, generation, next_free, free_head, phase, target, cursor,
                  descendants, desc_len, scan, stamp, clock, issued>> /\ result' = w
  BY DEF Refuse, table, loop, aux
<1>2. TypeOK' /\ Clocked' /\ FreeListExact'
  BY <1>1 DEF IInv, TypeOK, Live, Clocked, FreeListExact, Free
<1>3. TreeExact' /\ Attenuation'
  BY <1>1, TreeFrame DEF IInv
<1>4. Unlinking' /\ Resting'
  <2>1. Unlinking /\ Resting
    BY Zenon DEF IInv
  <2> QED  BY <1>1, <2>1, Zenon DEF Unlinking, Resting, Live
<1>5. Collecting'
  <2>1. Collecting
    BY Zenon DEF IInv
  <2> QED  BY <1>1, <2>1, ZenonT(30) DEF Collecting, Live, Collected, Visited, Visiting
<1>6. Freeing'
  <2>1. Freeing
    BY Zenon DEF IInv
  <2> QED  BY <1>1, <2>1, ZenonT(30) DEF Freeing, Live, Collected
<1> QED  BY <1>2, <1>3, <1>4, <1>5, <1>6 DEF IInv

\* cap_drop and cap_take, up to the search for the predecessor.
LEMMA RemoveInv ==
  ASSUME IInv, NEW h \in issued, CapRemove(h)
  PROVE  IInv'
<1> USE NoneIsNoSlot
<1>1. CASE RemoveCheck(h) # "Ok"
  <2>1. RemoveCheck(h) \in Results
    BY DEF RemoveCheck, Results
  <2> QED  BY <1>1, <2>1, RefuseInv DEF CapRemove
<1>2. CASE RemoveCheck(h) = "Ok"
  <2> DEFINE i == h.index
             p == entry[i].parent
  <2>1. phase = "idle" /\ TypeOK /\ TreeExact /\ Attenuation
    BY Zenon DEF CapRemove, IInv
  <2>2. /\ i \in Live /\ entry[i].first_child = None
        /\ p = entry[i].parent /\ p \in Live \cup {None}
    BY <1>2, Zenon DEF RemoveCheck, Resolves
  <2>3. \A s \in Live : stamp[s] \in Int /\ s # None
    BY <2>1 DEF TypeOK
  <2> HIDE DEF i, p
  <2>4. CASE p = None /\ FreeSlot(i, entry) /\ result' = "Ok" /\ UNCHANGED loop
    <3>1. \A q \in Live \ {i} :
            Threaded(Children(q) \ {i}, entry[q].first_child, SiblingsBut(q, i, entry), stamp)
      <4> TAKE q \in Live \ {i}
      <4>1. Children(q) \ {i} = Children(q)
        BY <2>2, <2>3, <2>4, ZenonT(30) DEF Children
      <4>2. Threaded(Children(q), entry[q].first_child, Siblings(q), stamp)
        BY <2>1, WholeTree
      <4>3. SiblingsBut(q, i, entry) = Siblings(q)
        BY <4>1, Zenon DEF Siblings, SiblingsBut
      <4> QED  BY <4>1, <4>2, <4>3, Zenon
    <3>2. entry \in [Live -> Entries] /\ target' \in Links /\ cursor' \in Links
          /\ descendants' \in [Slots -> Slots] /\ phase' = "idle" /\ desc_len' = 0 /\ scan' = 0
      BY <2>1, <2>4 DEF TypeOK, loop, IInv, Resting
    <3> QED  BY <2>1, <2>2, <2>4, <3>1, <3>2, FreeLeafInv, ZenonT(30)
  <2>5. CASE /\ p # None /\ entry[p].first_child = i
             /\ FreeSlot(i, [entry EXCEPT ![p].first_child = entry[i].next_sibling])
             /\ result' = "Ok" /\ UNCHANGED loop
    <3> DEFINE e == [entry EXCEPT ![p].first_child = entry[i].next_sibling]
    <3>1. e \in [Live -> Entries]
      BY <2>1, <2>2, <2>5 DEF TypeOK, Entries
    <3>2. \A s \in Live :
            /\ e[s].parent = entry[s].parent /\ e[s].rights = entry[s].rights
            /\ e[s].depth = entry[s].depth /\ e[s].next_sibling = entry[s].next_sibling
            /\ e[s].first_child = IF s = p THEN entry[i].next_sibling ELSE entry[s].first_child
      BY <2>1, <2>2, <2>5 DEF TypeOK, Entries
    <3> HIDE DEF e
    <3>3. \A q \in Live \ {i} :
            Threaded(Children(q) \ {i}, e[q].first_child, SiblingsBut(q, i, e), stamp)
      <4> TAKE q \in Live \ {i}
      <4>1. Threaded(Children(q), entry[q].first_child, Siblings(q), stamp)
        BY <2>1, WholeTree
      <4>2. \A s \in Children(q) \ {i} : SiblingsBut(q, i, e)[s] = Siblings(q)[s]
        BY <3>2, Zenon DEF Siblings, SiblingsBut, Children
      <4>3. CASE q = p
        <5>1. i \in Children(q) /\ entry[q].first_child = i
          BY <2>2, <2>5, <4>3 DEF Children
        <5>2. Threaded(Children(q) \ {i}, Siblings(q)[i], Siblings(q), stamp)
          BY <2>3, <4>1, <5>1, ThreadedPop, Zenon DEF Children
        <5>3. Siblings(q)[i] = e[q].first_child
          BY <3>2, <4>3, <5>1 DEF Siblings
        <5>4. Threaded(Children(q) \ {i}, e[q].first_child, Siblings(q), stamp)
          BY <5>2, <5>3
        <5> QED  BY <4>2, <5>4, ThreadedFrame, Zenon
      <4>4. CASE q # p
        <5>1. Children(q) \ {i} = Children(q) /\ e[q].first_child = entry[q].first_child
          BY <2>2, <3>2, <4>4 DEF Children
        <5>2. Threaded(Children(q) \ {i}, e[q].first_child, Siblings(q), stamp)
          BY <4>1, <5>1, Zenon
        <5> QED  BY <4>2, <5>2, ThreadedFrame
      <4> QED  BY <4>3, <4>4
    <3>4. target' \in Links /\ cursor' \in Links
          /\ descendants' \in [Slots -> Slots] /\ phase' = "idle" /\ desc_len' = 0 /\ scan' = 0
      BY <2>1, <2>5 DEF TypeOK, loop, IInv, Resting
    <3>5. FreeSlot(i, e)
      BY <2>5 DEF e
    <3>6. result' = "Ok"
      BY <2>5
    <3>7. \A s \in Live : /\ e[s].parent = entry[s].parent
                          /\ e[s].rights = entry[s].rights
                          /\ e[s].depth = entry[s].depth
      BY <3>2
    <3> QED  BY <2>1, <2>2, <3>1, <3>3, <3>4, <3>5, <3>6, <3>7, FreeLeafInv, ZenonT(30)
  <2>6. CASE /\ p # None /\ entry[p].first_child # i
             /\ phase' = "unlink" /\ target' = i /\ cursor' = entry[p].first_child
             /\ UNCHANGED <<table, result, descendants, desc_len, scan, aux>>
    <3>1. UNCHANGED <<entry, generation, next_free, free_head, result, descendants, desc_len,
                      scan, stamp, clock, issued>>
      BY <2>6 DEF table, aux
    <3>2. p \in Live /\ i \in Children(p) /\ None \notin Children(p)
      BY <2>2, <2>3, <2>6, Zenon DEF Children
    <3>3. Threaded(Children(p), entry[p].first_child, Siblings(p), stamp)
      BY <2>1, <3>2, WholeTree
    <3>4. entry[p].first_child \in Children(p) /\ stamp[i] =< stamp[entry[p].first_child]
          /\ stamp[i] # stamp[entry[p].first_child]
      BY <2>6, <3>2, <3>3, Zenon DEF Threaded
    <3>5. Unlinking'
      BY <2>2, <2>3, <2>6, <3>1, <3>2, <3>4 DEF Unlinking, Live, Children
    <3>6. TypeOK'
      <4>1. entry[p].first_child \in Links /\ i \in Links
        BY <2>1, <2>2, <3>2 DEF TypeOK, Entries, Links
      <4> QED  BY <2>1, <2>6, <3>1, <4>1, Zenon DEF TypeOK, Live
    <3>7. Clocked' /\ FreeListExact' /\ Resting'
      BY <2>1, <2>6, <3>1, ZenonT(30) DEF IInv, Clocked, FreeListExact, Free, Live, Resting
    <3>8. TreeExact' /\ Attenuation'
      <4>1. phase # "free" /\ phase' # "free"
        BY <2>1, <2>6
      <4> QED  BY <2>1, <3>1, <4>1, TreeFrame
    <3>9. Collecting' /\ Freeing'
      BY <2>6, Zenon DEF Collecting, Freeing
    <3> QED  BY <3>5, <3>6, <3>7, <3>8, <3>9 DEF IInv
  <2> QED  BY <1>2, <2>4, <2>5, <2>6, Zenon DEF CapRemove, i, p
<1> QED  BY <1>1, <1>2


\* One iteration of the search for the predecessor of target.
LEMMA UnlinkInv ==
  ASSUME IInv, UnlinkStep
  PROVE  IInv'
<1> USE NoneIsNoSlot
<1> DEFINE p == entry[target].parent
<1>1. TypeOK /\ phase = "unlink"
  BY DEF UnlinkStep, IInv
<1>2. /\ target \in Live /\ cursor \in Live /\ cursor # None
      /\ entry[target].first_child = None /\ p \in Live
      /\ entry[cursor].parent = p /\ stamp[target] < stamp[cursor]
  BY <1>1, Zenon DEF IInv, Unlinking, TypeOK
<1>3. target \in Children(p) /\ cursor \in Children(p) /\ None \notin Children(p)
  BY <1>1, <1>2, Zenon DEF Children, TypeOK
<1>4. Threaded(Children(p), entry[p].first_child, Siblings(p), stamp)
  BY <1>1, <1>2, WholeTree, Zenon
<1>5. \A s \in Live : stamp[s] \in Int
  BY <1>1 DEF TypeOK
<1>6. NextSibling(cursor) = Siblings(p)[cursor]
  BY <1>2, <1>3 DEF NextSibling, Siblings
<1>7. CASE NextSibling(cursor) = target
  <2> DEFINE e == [entry EXCEPT ![cursor].next_sibling = entry[target].next_sibling]
  <2>1. e \in [Live -> Entries]
    BY <1>1, <1>2 DEF TypeOK, Entries
  <2>2. \A s \in Live :
          /\ e[s].parent = entry[s].parent /\ e[s].rights = entry[s].rights
          /\ e[s].depth = entry[s].depth /\ e[s].first_child = entry[s].first_child
          /\ e[s].next_sibling = IF s = cursor THEN entry[target].next_sibling
                                 ELSE entry[s].next_sibling
    BY <1>1, <1>2 DEF TypeOK, Entries
  <2>3. FreeSlot(target, e) /\ result' = "Ok" /\ EndLoop
    BY <1>1, <1>2, <1>7 DEF UnlinkStep
  <2> HIDE DEF e
  <2>4. \A q \in Live \ {target} :
          Threaded(Children(q) \ {target}, e[q].first_child, SiblingsBut(q, target, e), stamp)
    <3> TAKE q \in Live \ {target}
    <3>1. Threaded(Children(q), entry[q].first_child, Siblings(q), stamp)
      BY <1>1, WholeTree
    <3>2. e[q].first_child = entry[q].first_child
      BY <2>2
    <3>3. CASE q = p
      <4> DEFINE links == [s \in Children(q) |-> e[s].next_sibling]
      <4>1. /\ links[cursor] = Siblings(q)[target]
            /\ \A s \in Children(q) \ {cursor} : links[s] = Siblings(q)[s]
            /\ \A s \in Children(q) \ {target} : SiblingsBut(q, target, e)[s] = links[s]
        BY <1>3, <2>2, <3>3, Zenon DEF Siblings, SiblingsBut, Children
      <4> HIDE DEF links
      <4>2. Threaded(Children(q) \ {target}, entry[q].first_child, links, stamp)
        <5>1. /\ target \in Children(q) /\ cursor \in Children(q) /\ None \notin Children(q)
              /\ Siblings(q)[cursor] = target /\ \A s \in Children(q) : stamp[s] \in Int
          BY <1>3, <1>5, <1>6, <1>7, <3>3, ZenonT(30) DEF Children
        <5> QED  BY <3>1, <4>1, <5>1, ThreadedUnlink, ZenonT(30)
      <4>3. Threaded(Children(q) \ {target}, entry[q].first_child, SiblingsBut(q, target, e), stamp)
        BY <4>1, <4>2, ThreadedFrame, ZenonT(30)
      <4> QED  BY <3>2, <4>3
    <3>4. CASE q # p
      <4>1. Children(q) \ {target} = Children(q)
        BY <3>4 DEF Children
      <4>2. cursor \notin Children(q)
        BY <1>2, <3>4 DEF Children
      <4>3. \A s \in Children(q) \ {target} : SiblingsBut(q, target, e)[s] = Siblings(q)[s]
        BY <2>2, <4>2, Zenon DEF Siblings, SiblingsBut, Children
      <4>4. Threaded(Children(q) \ {target}, e[q].first_child, Siblings(q), stamp)
        BY <3>1, <3>2, <4>1, Zenon
      <4> QED  BY <4>3, <4>4, ThreadedFrame, Zenon
    <3> QED  BY <3>3, <3>4, Zenon
  <2>5. /\ target' \in Links /\ cursor' \in Links /\ descendants' \in [Slots -> Slots]
        /\ phase' = "idle" /\ desc_len' = 0 /\ scan' = 0
    BY <2>3, CapacityAssumption DEF EndLoop, Links, NoScratch, Slots
  <2>6. \A s \in Live : /\ e[s].parent = entry[s].parent
                        /\ e[s].rights = entry[s].rights
                        /\ e[s].depth = entry[s].depth
    BY <2>2
  <2> QED  BY <1>1, <1>2, <2>1, <2>3, <2>4, <2>5, <2>6, FreeLeafInv, ZenonT(30)
<1>8. CASE NextSibling(cursor) # target
  <2>1. /\ cursor' = NextSibling(cursor)
        /\ UNCHANGED <<entry, generation, next_free, free_head, result, phase, target,
                       descendants, desc_len, scan, stamp, clock, issued>>
    BY <1>1, <1>2, <1>8 DEF UnlinkStep, table, aux
  <2>2. /\ Siblings(p)[cursor] \in Children(p)
        /\ stamp[target] =< stamp[Siblings(p)[cursor]]
        /\ stamp[target] # stamp[Siblings(p)[cursor]]
    <3>1. ~(\A t \in Children(p) : stamp[t] >= stamp[cursor])
      BY <1>2, <1>3, <1>5
    <3>2. Siblings(p)[cursor] # target
      BY <1>6, <1>8
    <3> HIDE DEF p
    <3> QED  BY <1>2, <1>3, <1>4, <3>1, <3>2, Zenon DEF Threaded
  <2>3. Unlinking'
    BY <1>1, <1>2, <1>5, <1>6, <2>1, <2>2 DEF Unlinking, Live, Children
  <2>4. TypeOK'
    BY <1>1, <1>6, <2>1, <2>2, Zenon DEF TypeOK, Live, Links, Children
  <2>5. Clocked' /\ FreeListExact' /\ Resting'
    BY <1>1, <2>1, Zenon DEF IInv, Clocked, FreeListExact, Free, Live, Resting
  <2>6. TreeExact' /\ Attenuation'
    BY <2>1, TreeFrame DEF IInv
  <2>7. Collecting' /\ Freeing'
    BY <1>1, <2>1, Zenon DEF Collecting, Freeing
  <2> QED  BY <2>3, <2>4, <2>5, <2>6, <2>7 DEF IInv
<1> QED  BY <1>7, <1>8

-----------------------------------------------------------------------------
(* The actions.                                                            *)

\* cap_revoke, up to the collection.
LEMMA RevokeInv ==
  ASSUME IInv, NEW h \in issued, CapRevoke(h)
  PROVE  IInv'
<1> USE NoneIsNoSlot
<1> DEFINE i == h.index
<1>1. CASE RevokeCheck(h) # "Ok"
  <2>1. RevokeCheck(h) \in Results
    BY DEF RevokeCheck, Results
  <2> QED  BY <1>1, <2>1, RefuseInv DEF CapRevoke
<1>2. CASE RevokeCheck(h) = "Ok"
  <2>1. phase = "idle" /\ TypeOK /\ i \in Live /\ desc_len = 0 /\ scan = 0
    BY <1>2 DEF CapRevoke, RevokeCheck, Resolves, IInv, Resting
  <2>2. /\ phase' = "collect" /\ target' = i /\ cursor' = entry[i].first_child
        /\ UNCHANGED <<entry, generation, next_free, free_head, result,
                       descendants, desc_len, scan, stamp, clock, issued>>
    BY <1>2 DEF CapRevoke, table, aux
  <2>3. TypeOK'
    BY <2>1, <2>2 DEF TypeOK, Live, Links, Entries
  <2>4. Clocked' /\ FreeListExact' /\ Resting' /\ Unlinking' /\ Freeing'
    BY <2>2 DEF IInv, Clocked, FreeListExact, Free, Live, Resting, Unlinking, Freeing
  <2>5. TreeExact' /\ Attenuation'
    BY <2>1, <2>2, TreeFrame DEF IInv
  <2>6. Collecting'
    <3>1. Collected' = {} /\ Visiting' = i /\ Live' = Live
      BY <2>1, <2>2 DEF Collected, Visiting, Live
    <3>2. \A s : Visited(s)' <=> s = i
      BY <2>1, <2>2 DEF Visited
    <3>3. Threaded(Children(i), entry[i].first_child, Siblings(i), stamp)
      BY <2>1, WholeTree
    <3>4. \A s \in Children(i) : entry[i].first_child \in Children(i)
                                 /\ stamp[s] =< stamp[entry[i].first_child]
      BY <3>3 DEF Threaded
    <3>5. entry[i].first_child # None => entry[i].first_child \in Children(i)
      BY <3>3 DEF Threaded
    <3>6. None \notin Children(i)
      BY <2>1 DEF Children, TypeOK
    <3> QED  BY <2>1, <2>2, <3>1, <3>2, <3>4, <3>5, <3>6 DEF Collecting, Children
  <2> QED  BY <2>3, <2>4, <2>5, <2>6 DEF IInv
<1> QED  BY <1>1, <1>2, Zenon


\* While the collection has a cursor there is room for what it points to:
\* Capacity different descendants and target do not fit in the table.
LEMMA CollectHasRoom ==
  ASSUME IInv, phase = "collect"
  PROVE  desc_len < Capacity
<1> SUFFICES ASSUME ~(desc_len < Capacity) PROVE FALSE
  OBVIOUS
<1>1. desc_len = Capacity /\ descendants \in [Slots -> Slots] /\ target \in Slots
  BY CapacityAssumption DEF IInv, TypeOK, Collecting
<1>2. Collected = Slots
  BY <1>1 DEF Collected, Slots
<1>3. \A i \in Slots : descendants[i] \in Live
                       /\ entry[descendants[i]].depth > entry[target].depth
  BY <1>2 DEF IInv, Collecting
<1>4. entry[target].depth \in Int
  BY DEF IInv, TypeOK, Collecting, Entries
<1>5. \A i \in Slots : descendants[i] # target
  BY <1>3, <1>4
<1>6. \A i, j \in Slots : descendants[i] = descendants[j] => i = j
  BY <1>2 DEF IInv, Collecting
<1> QED  BY <1>1, <1>5, <1>6, Pigeonhole

\* The node being visited is live, and its children hang below target.
LEMMA VisitingIsLive ==
  ASSUME IInv, phase = "collect"
  PROVE  /\ Visiting \in Live /\ Visited(Visiting)
         /\ \A s \in Live : entry[s].parent = Visiting => entry[s].depth > entry[target].depth
<1>1. TypeOK /\ Collecting /\ scan \in Nat /\ desc_len \in Nat /\ scan =< desc_len
  BY CapacityAssumption DEF IInv, TypeOK, Collecting
<1>2. Visiting \in Live /\ Visited(Visiting) /\ entry[Visiting].depth >= entry[target].depth
  <2>1. CASE scan = 0
    BY <1>1, <2>1 DEF Visiting, Visited, Collecting, TypeOK, Entries
  <2>2. CASE scan # 0
    <3>1. scan - 1 \in Collected /\ scan - 1 \in 0 .. scan - 1 /\ Visiting = descendants[scan - 1]
      BY <1>1, <2>2 DEF Collected, Visiting
    <3>2. Visiting \in Live /\ entry[Visiting].depth > entry[target].depth /\ target \in Live
      BY <1>1, <3>1 DEF Collecting
    <3>3. Visited(Visiting)
      BY <3>1 DEF Visited
    <3> QED  BY <1>1, <3>2, <3>3 DEF TypeOK, Entries
  <2> QED  BY <2>1, <2>2
<1>3. ASSUME NEW s \in Live, entry[s].parent = Visiting
      PROVE  entry[s].depth > entry[target].depth
  <2>1. Visiting # None
    BY <1>1, <1>2, NoneIsNoSlot DEF TypeOK
  <2>2. entry[s].depth = entry[Visiting].depth + 1
    BY <1>3, <2>1 DEF IInv, Attenuation, Doomed
  <2>3. entry[Visiting].depth \in Int /\ entry[target].depth \in Int
    BY <1>1, <1>2 DEF TypeOK, Collecting, Entries
  <2> QED  BY <1>2, <2>2, <2>3
<1> QED  BY <1>2, <1>3

\* One iteration of the breadth-first collection.
LEMMA CollectInv ==
  ASSUME IInv, CollectStep
  PROVE  IInv'
<1> USE NoneIsNoSlot
<1>1. /\ TypeOK /\ Collecting /\ phase = "collect"
      /\ scan \in Nat /\ desc_len \in Nat /\ scan =< desc_len /\ Capacity \in Nat
  BY CapacityAssumption DEF IInv, TypeOK, Collecting, CollectStep
<1>2. UNCHANGED <<entry, generation, next_free, free_head, result, target, stamp, clock, issued>>
  BY DEF CollectStep, table, aux
<1>3. Live' = Live /\ \A s \in Live : stamp[s] \in Int /\ s \in Slots /\ s # None
  BY <1>1, <1>2 DEF Live, TypeOK
<1>4. Clocked' /\ FreeListExact' /\ Unlinking' /\ Resting'
  <2>1. phase' \in {"collect", "free"}
    BY <1>1 DEF CollectStep
  <2> QED  BY <1>2, <2>1 DEF IInv, Clocked, FreeListExact, Free, Live, Unlinking, Resting
<1>5. CASE cursor # None
  <2> DEFINE next == entry[cursor].next_sibling
  <2>1. /\ cursor \in Live /\ entry[cursor].parent = Visiting
        /\ \A i \in Collected : entry[descendants[i]].parent = Visiting
                                => stamp[cursor] < stamp[descendants[i]]
    BY <1>1, <1>5 DEF Collecting
  <2>2. /\ descendants' = [descendants EXCEPT ![desc_len] = cursor]
        /\ desc_len' = desc_len + 1 /\ cursor' = next /\ UNCHANGED <<phase, scan>>
    BY <1>1, <1>5, <2>1, CollectHasRoom DEF CollectStep, NextSibling
  <2>3. desc_len \in Slots /\ desc_len' \in 0 .. Capacity
    BY <1>1, <2>2, CollectHasRoom DEF Slots
  <2>4. TypeOK'
    BY <1>1, <1>2, <1>3, <2>1, <2>2, <2>3 DEF TypeOK, Links, Entries
  <2>5. TreeExact' /\ Attenuation' /\ Freeing'
    BY <1>1, <1>2, <2>2, TreeFrame, Zenon DEF IInv, Freeing
  <2>6. /\ Collected' = Collected \cup {desc_len}
        /\ \A i \in Collected : i # desc_len /\ descendants'[i] = descendants[i]
        /\ descendants'[desc_len] = cursor
    <3>1. desc_len \in Nat /\ Collected' = Collected \cup {desc_len}
      BY <2>2, <2>3 DEF Collected, Slots
    <3>2. \A i \in Collected : i # desc_len /\ i \in Slots
      BY CapacityAssumption, <2>3, <3>1 DEF Collected, Slots
    <3>3. DOMAIN descendants = Slots
      BY <1>1 DEF TypeOK
    <3> QED  BY <2>2, <2>3, <3>1, <3>2, <3>3
  <2>7. Visiting' = Visiting /\ \A s : Visited(s)' <=> Visited(s)
    <3>1. \A j \in 0 .. scan - 1 : descendants'[j] = descendants[j]
      BY <1>1, <2>6 DEF Collected
    <3>2. Visiting' = Visiting
      BY <1>1, <1>2, <2>2, <3>1 DEF Visiting
    <3> QED  BY <1>2, <2>2, <3>1, <3>2 DEF Visited
  <2>8. Threaded(Children(Visiting), entry[Visiting].first_child, Siblings(Visiting), stamp)
    BY <1>1, VisitingIsLive, WholeTree
  <2>9. cursor \in Children(Visiting) /\ Siblings(Visiting)[cursor] = next
        /\ None \notin Children(Visiting)
    BY <1>3, <2>1 DEF Siblings, Children
  <2>10. /\ next # None => next \in Children(Visiting) /\ stamp[next] < stamp[cursor]
         /\ \A s \in Children(Visiting) : stamp[s] < stamp[cursor] =>
              next # None /\ stamp[s] =< stamp[next]
    <3> HIDE DEF next
    <3>1. \A s \in Children(Visiting) : stamp[s] \in Int
      BY <1>3 DEF Children
    <3> QED  BY <2>8, <2>9, <3>1 DEF Threaded
  <2>11. ASSUME NEW i \in Collected'
         PROVE  /\ descendants'[i] \in Live
                /\ entry[descendants'[i]].depth > entry[target].depth
                /\ Visited(entry[descendants'[i]].parent)
    <3>1. CASE i = desc_len
      BY <1>1, <2>1, <2>6, <3>1, VisitingIsLive
    <3>2. CASE i \in Collected
      BY <1>1, <2>6, <3>2, Zenon DEF Collecting
    <3> QED  BY <2>6, <3>1, <3>2
  <2>12. ASSUME NEW i \in Collected', NEW j \in Collected', descendants'[i] = descendants'[j]
         PROVE  i = j
    <3>1. \A k \in Collected : descendants[k] # cursor
      <4> SUFFICES ASSUME NEW k \in Collected, descendants[k] = cursor PROVE FALSE
        OBVIOUS
      <4> QED  BY <1>3, <2>1
    <3>2. \A k, l \in Collected : descendants[k] = descendants[l] => k = l
      BY <1>1 DEF Collecting
    <3> QED  BY <2>6, <2>12, <3>1, <3>2
  <2>13. ASSUME next # None
         PROVE  /\ next \in Live /\ entry[next].parent = Visiting
                /\ \A i \in Collected' : entry[descendants'[i]].parent = Visiting
                                         => stamp[next] < stamp[descendants'[i]]
    <3>1. next \in Live /\ entry[next].parent = Visiting /\ stamp[next] < stamp[cursor]
      BY <2>10, <2>13 DEF Children
    <3> HIDE DEF next
    <3>2. \A i \in Collected : descendants[i] \in Live
      BY <1>1 DEF Collecting
    <3> QED  BY <1>3, <2>1, <2>6, <3>1, <3>2
  <2>14. ASSUME NEW s \in Live, Visited(entry[s].parent)
         PROVE  \/ \E i \in Collected' : s = descendants'[i]
                \/ next # None /\ entry[s].parent = Visiting /\ stamp[s] =< stamp[next]
    <3>1. CASE \E i \in Collected : s = descendants[i]
      BY <2>6, <3>1
    <3>2. CASE s = cursor
      BY <2>6, <3>2
    <3>3. CASE s # cursor /\ entry[s].parent = Visiting /\ stamp[s] =< stamp[cursor]
      <4>1. s \in Children(Visiting)
        BY <3>3 DEF Children
      <4>2. stamp[s] # stamp[cursor]
        BY <2>8, <2>9, <3>3, <4>1, Zenon DEF Threaded
      <4>3. stamp[s] < stamp[cursor]
        BY <1>3, <2>1, <3>3, <4>2
      <4> QED  BY <2>10, <3>3, <4>1, <4>3
    <3> QED  BY <1>1, <2>14, <3>1, <3>2, <3>3, Zenon DEF Collecting
  <2>15. Collecting'
    <3>1. target \in Live /\ scan' =< desc_len'
      BY <1>1, <2>2 DEF Collecting
    <3> HIDE DEF next
    <3> QED  BY <1>2, <1>3, <2>2, <2>7, <2>11, <2>12, <2>13, <2>14, <3>1, Zenon DEF Collecting
  <2> QED  BY <1>4, <2>4, <2>5, <2>15 DEF IInv
<1>6. CASE cursor = None /\ scan < desc_len
  <2> DEFINE d == descendants[scan]
             first == entry[d].first_child
  <2>1. scan \in Collected /\ d \in Live /\ entry[d].depth > entry[target].depth
    BY <1>1, <1>6 DEF Collected, Collecting
  <2>2. /\ cursor' = first /\ scan' = scan + 1
        /\ UNCHANGED <<phase, descendants, desc_len>>
    BY <1>1, <1>6, <2>1 DEF CollectStep, FirstChild
  <2>3. TypeOK'
    BY <1>1, <1>2, <1>3, <1>6, <2>1, <2>2 DEF TypeOK, Links, Entries
  <2>4. TreeExact' /\ Attenuation' /\ Freeing'
    BY <1>1, <1>2, <2>2, TreeFrame, Zenon DEF IInv, Freeing
  <2>5. Collected' = Collected /\ Visiting' = d
    BY <1>1, <2>2 DEF Collected, Visiting
  <2>6. \A s : Visited(s)' <=> Visited(s) \/ s = d
    <3>1. 0 .. scan' - 1 = (0 .. scan - 1) \cup {scan}
      BY <1>1, <2>2
    <3> QED  BY <1>2, <2>2, <3>1, Zenon DEF Visited
  <2>7. ~Visited(d)
    <3>1. d # target
      BY <1>1, <2>1 DEF Collecting, TypeOK, Entries
    <3>2. ASSUME NEW j \in 0 .. scan - 1 PROVE d # descendants[j]
      <4>1. j \in Collected /\ j # scan
        BY <1>1 DEF Collected
      <4>2. \A i, k \in Collected : descendants[i] = descendants[k] => i = k
        BY <1>1, Zenon DEF Collecting
      <4> QED  BY <2>1, <4>1, <4>2, Zenon
    <3> QED  BY <3>1, <3>2 DEF Visited
  <2>8. Threaded(Children(d), first, Siblings(d), stamp)
    BY <1>1, <2>1, WholeTree, Zenon
  <2>9. /\ first # None => first \in Live /\ entry[first].parent = d
        /\ \A s \in Live : entry[s].parent = d => first # None /\ stamp[s] =< stamp[first]
    <3>1. None \notin Children(d)
      BY <1>3 DEF Children
    <3>2. /\ first # None => first \in Children(d)
          /\ \A s \in Children(d) : first # None /\ stamp[s] =< stamp[first]
      <4> HIDE DEF first
      <4> QED  BY <2>8, <3>1, Zenon DEF Threaded
    <3> QED  BY <3>2, Zenon DEF Children
  <2>10. Collecting'
    <3>1. /\ target \in Live
          /\ \A i \in Collected : /\ descendants[i] \in Live
                                  /\ entry[descendants[i]].depth > entry[target].depth
                                  /\ Visited(entry[descendants[i]].parent)
          /\ \A i, j \in Collected : descendants[i] = descendants[j] => i = j
          /\ \A s \in Live : Visited(entry[s].parent) => \E i \in Collected : s = descendants[i]
      BY <1>1, <1>6, Zenon DEF Collecting
    <3>2. \A i \in Collected : entry[descendants[i]].parent # d
      BY <2>7, <3>1, Zenon
    <3>3. scan' =< desc_len'
      BY <1>1, <1>6, <2>2
    <3> HIDE DEF first, d
    <3> QED  BY <1>2, <1>3, <2>2, <2>5, <2>6, <2>9, <3>1, <3>2, <3>3, Zenon DEF Collecting
  <2> QED  BY <1>4, <2>3, <2>4, <2>10 DEF IInv
<1>7. CASE cursor = None /\ scan >= desc_len
  <2>1. phase' = "free" /\ scan' = 0 /\ UNCHANGED <<cursor, descendants, desc_len>>
    BY <1>1, <1>7 DEF CollectStep
  <2>2. TypeOK'
    BY <1>1, <1>2, <1>3, <2>1 DEF TypeOK
  <2>3. /\ target \in Live
        /\ \A i \in Collected : /\ descendants[i] \in Live
                                /\ descendants[i] # target
                                /\ Visited(entry[descendants[i]].parent)
        /\ \A i, j \in Collected : descendants[i] = descendants[j] => i = j
        /\ \A s \in Live : Visited(entry[s].parent) => \E i \in Collected : s = descendants[i]
    <3>1. entry[target].depth \in Int
      BY <1>1 DEF Collecting, TypeOK, Entries
    <3> QED  BY <1>1, <1>7, <3>1 DEF Collecting
  <2>4. \A s : Visited(s) <=> s = target \/ \E j \in Collected : s = descendants[j]
    <3>1. Collected = 0 .. scan - 1
      BY <1>1, <1>7 DEF Collected
    <3> QED  BY <3>1 DEF Visited
  <2>5. Collected' = Collected /\ \A i \in Collected : i >= 0 /\ ~(i < 0)
    BY <1>1, <2>1 DEF Collected
  <2>6. Freeing' /\ Collecting'
    <3>1. scan' =< desc_len'
      BY <1>1, <2>1
    <3> QED  BY <1>2, <1>3, <2>1, <2>3, <2>4, <2>5, <3>1, ZenonT(30) DEF Freeing, Collecting
  <2>7. Doomed' = {descendants[i] : i \in Collected} /\ Doomed = {}
    BY <1>1, <2>1 DEF Doomed, Collected
  <2>8. \A s \in Live \ Doomed' : entry[s].parent \in (Live \ Doomed') \cup {None}
    <3>1. \A s \in Live : entry[s].parent \in Live \cup {None}
      BY <1>1, WholeTree
    <3> QED  BY <2>3, <2>4, <2>7, <3>1
  <2>9. Attenuation'
    BY <1>2, <1>3, <2>7, Zenon DEF IInv, Attenuation
  <2>10. TreeExact'
    <3>1. \A q : Children(q)' = Children(q) /\ Siblings(q)' = Siblings(q)
      BY <1>2, <1>3 DEF Children, Siblings
    <3>2. \A q \in Live' : Threaded(Children(q)', entry'[q].first_child, Siblings(q)', stamp')
      BY <1>1, <1>2, <1>3, <3>1, WholeTree
    <3>3. \A s \in Live' \ Doomed' : entry'[s].parent \in (Live' \ Doomed') \cup {None}
      BY <1>2, <1>3, <2>8
    <3> QED  BY <3>2, <3>3 DEF TreeExact, Siblings
  <2> QED  BY <1>4, <2>2, <2>6, <2>9, <2>10 DEF IInv
<1> QED  BY <1>1, <1>5, <1>6, <1>7


\* One iteration of the loop that frees the collected descendants.
LEMMA FreeOneInv ==
  ASSUME IInv, phase = "free", scan < desc_len, FreeSlot(descendants[scan], entry),
         scan' = scan + 1,
         UNCHANGED <<result, phase, target, cursor, descendants, desc_len>>
  PROVE  IInv'
<1> USE NoneIsNoSlot
<1> DEFINE d == descendants[scan]
<1>1. /\ TypeOK /\ Clocked /\ FreeListExact /\ Freeing
      /\ scan \in Nat /\ desc_len \in Nat /\ Capacity \in Nat /\ desc_len =< Capacity
  BY CapacityAssumption DEF IInv, TypeOK
<1>2. scan \in Collected /\ Collected' = Collected
  BY <1>1 DEF Collected
<1>3. /\ target \in Live /\ d \in Live /\ d # target
      /\ \A i, j \in Collected : descendants[i] = descendants[j] => i = j
      /\ \A i \in Collected : i < scan => descendants[i] \notin Live
      /\ \A i \in Collected : i >= scan =>
           /\ descendants[i] \in Live /\ descendants[i] # target
           /\ entry[descendants[i]].parent = target
              \/ \E j \in Collected : entry[descendants[i]].parent = descendants[j]
      /\ \A s \in Live : entry[s].parent = target =>
           \E i \in Collected : i >= scan /\ s = descendants[i]
  BY <1>1, <1>2 DEF Freeing
<1>4. /\ TypeOK' /\ Clocked' /\ FreeListExact' /\ Live' = Live \ {d}
      /\ \A s \in Live \ {d} : entry'[s] = entry[s] /\ stamp'[s] = stamp[s]
  <2>1. /\ entry \in [Live -> Entries] /\ result' \in Results
        /\ phase' \in {"idle", "unlink", "collect", "free"}
        /\ target' \in Links /\ cursor' \in Links /\ descendants' \in [Slots -> Slots]
        /\ desc_len' \in 0 .. Capacity /\ scan' \in 0 .. Capacity
    BY <1>1 DEF TypeOK
  <2> HIDE DEF d
  <2>2. FreeSlot(d, entry)
    BY DEF d
  <2> QED  BY <1>1, <1>3, <2>1, <2>2, FreeSlotTable, Zenon
<1>5. \A i \in Collected : /\ i \in Nat /\ (i >= scan' <=> i >= scan /\ i # scan)
                           /\ (i < scan' <=> i < scan \/ i = scan)
                           /\ (i >= scan <=> ~(i < scan))
  BY <1>1 DEF Collected
<1>6. \A i \in Collected : descendants[i] = d <=> i = scan
  BY <1>2, <1>3
<1>7. Doomed = {descendants[i] : i \in {j \in Collected : j >= scan}}
      /\ Doomed' = {descendants[i] : i \in {j \in Collected : j >= scan'}}
  <2>1. scan .. desc_len - 1 = {j \in Collected : j >= scan}
        /\ scan' .. desc_len - 1 = {j \in Collected : j >= scan'}
    BY <1>1 DEF Collected
  <2> QED  BY <2>1 DEF Doomed
<1>8. d \in Doomed /\ Doomed' = Doomed \ {d}
  BY <1>2, <1>5, <1>6, <1>7
<1>9. Live' \ Doomed' = Live \ Doomed
  BY <1>4, <1>8
<1> HIDE DEF d
<1>10. Freeing'
  <2>1. scan' =< desc_len' /\ target' \in Live'
    BY <1>1, <1>3, <1>4
  <2>2. \A i \in Collected : i < scan' => descendants[i] \notin Live'
    BY <1>3, <1>4, <1>5, <1>6, Zenon
  <2>3. ASSUME NEW i \in Collected, i >= scan'
        PROVE  /\ descendants[i] \in Live' /\ descendants[i] # target
               /\ entry'[descendants[i]].parent = target
                  \/ \E j \in Collected : entry'[descendants[i]].parent = descendants[j]
    <3>1. descendants[i] \in Live \ {d} /\ i >= scan
      BY <1>3, <1>5, <1>6, <2>3, Zenon
    <3> QED  BY <1>3, <1>4, <3>1
  <2>4. ASSUME NEW s \in Live', entry'[s].parent = target
        PROVE  \E i \in Collected : i >= scan' /\ s = descendants[i]
    <3>1. s \in Live \ {d} /\ entry[s].parent = target
      BY <1>4, <2>4
    <3>2. PICK i \in Collected : i >= scan /\ s = descendants[i]
      BY <1>3, <3>1, Zenon
    <3> QED  BY <1>5, <1>6, <3>1, <3>2
  <2> QED  BY <1>2, <1>3, <2>1, <2>2, <2>3, <2>4 DEF Freeing
<1>11. \A s \in Live \ Doomed : s \in Live \ {d} /\ entry[s].parent \in (Live \ Doomed) \cup {None}
  BY <1>8, Zenon DEF IInv, TreeExact
<1>12. Attenuation'
  <2> SUFFICES ASSUME NEW s \in Live \ Doomed
               PROVE  IF entry'[s].parent = None THEN entry'[s].depth = 0
                      ELSE /\ entry'[s].rights \subseteq entry'[entry'[s].parent].rights
                           /\ entry'[s].depth = entry'[entry'[s].parent].depth + 1
    BY <1>9, Zenon DEF Attenuation
  <2>1. IF entry[s].parent = None THEN entry[s].depth = 0
        ELSE /\ entry[s].rights \subseteq entry[entry[s].parent].rights
             /\ entry[s].depth = entry[entry[s].parent].depth + 1
    BY Zenon DEF IInv, Attenuation
  <2>2. entry'[s] = entry[s] /\ (entry[s].parent # None => entry'[entry[s].parent] = entry[entry[s].parent])
    BY <1>4, <1>11, Zenon
  <2> QED  BY <2>1, <2>2, Zenon
<1>13. TreeExact'
  <2>1. \A s \in Live' \ Doomed' : entry'[s].parent \in (Live' \ Doomed') \cup {None}
    BY <1>4, <1>9, <1>11
  <2>2. ASSUME NEW q \in Live' \ (Doomed' \cup {target})
        PROVE  Threaded(Children(q)', entry'[q].first_child, Siblings(q)', stamp')
    <3>1. q \in Live \ (Doomed \cup {target}) /\ q \in Live \ {d}
      BY <1>4, <1>8, <2>2, Zenon
    <3>2. entry[d].parent # q
      <4>1. entry[d].parent = target \/ \E j \in Collected : entry[d].parent = descendants[j]
        BY <1>1, <1>2, <1>3, <1>5, Zenon DEF d
      <4>2. \A j \in Collected : descendants[j] \notin Live \/ descendants[j] \in Doomed
        BY <1>3, <1>5, <1>7, Zenon
      <4> QED  BY <3>1, <4>1, <4>2, Zenon
    <3>3. Children(q)' = Children(q) /\ d \notin Children(q)
      BY <1>4, <3>2, Zenon DEF Children
    <3>4. \A s \in Children(q) : Siblings(q)'[s] = Siblings(q)[s] /\ stamp'[s] = stamp[s]
      BY <1>4, <3>3, Zenon DEF Siblings, Children
    <3>5. Threaded(Children(q), entry[q].first_child, Siblings(q), stamp)
      BY <3>1, Zenon DEF IInv, TreeExact, Siblings
    <3>6. Threaded(Children(q), entry[q].first_child, Siblings(q)', stamp')
      BY <3>4, <3>5, ThreadedFrame, ZenonT(30)
    <3> QED  BY <1>4, <3>1, <3>3, <3>6, Zenon
  <2> QED  BY <2>1, <2>2, Zenon DEF TreeExact, Siblings
<1>14. Unlinking' /\ Collecting' /\ Resting'
  BY Zenon DEF Unlinking, Collecting, Resting
<1> QED  BY <1>4, <1>10, <1>12, <1>13, <1>14 DEF IInv

\* The end of a revoke: the child list of target is cleared.
LEMMA FreeDoneInv ==
  ASSUME IInv, phase = "free", scan >= desc_len,
         entry' = [s \in Live |-> IF s = target
                     THEN [entry[s] EXCEPT !.first_child = None] ELSE entry[s]],
         result' = "Ok", EndLoop,
         UNCHANGED <<generation, next_free, free_head, stamp, clock, issued>>
  PROVE  IInv'
<1> USE NoneIsNoSlot
<1>1. /\ TypeOK /\ Freeing /\ scan \in Nat /\ desc_len \in Nat /\ Capacity \in Nat \ {0}
      /\ target \in Live
  BY CapacityAssumption DEF IInv, TypeOK, Freeing
<1>2. Live' = Live /\ Doomed = {} /\ Doomed' = {} /\ phase' = "idle"
  BY <1>1 DEF Live, Doomed, EndLoop
<1>3. \A s \in Live :
        /\ entry'[s].parent = entry[s].parent /\ entry'[s].rights = entry[s].rights
        /\ entry'[s].depth = entry[s].depth /\ entry'[s].next_sibling = entry[s].next_sibling
        /\ entry'[s].first_child = IF s = target THEN None ELSE entry[s].first_child
        /\ entry'[s] \in Entries
  BY <1>1 DEF TypeOK, Entries, Links
<1>4. TypeOK'
  <2>1. entry' \in [Live' -> Entries]
    BY <1>2, <1>3
  <2>2. /\ target' \in Links /\ cursor' \in Links /\ descendants' \in [Slots -> Slots]
        /\ desc_len' \in 0 .. Capacity /\ scan' \in 0 .. Capacity
    BY <1>1 DEF EndLoop, Links, NoScratch, Slots
  <2> QED  BY <1>1, <1>2, <2>1, <2>2 DEF TypeOK, Results
<1>5. Clocked' /\ FreeListExact'
  BY <1>2 DEF IInv, Clocked, FreeListExact, Free
<1>6. Attenuation'
  BY <1>2, <1>3 DEF IInv, Attenuation, TreeExact
<1>7. \A q : Children(q)' = Children(q) /\ Siblings(q)' = Siblings(q)
  BY <1>2, <1>3 DEF Children, Siblings
<1>8. Children(target) = {}
  <2>1. \A i \in Collected : ~(i >= scan)
    BY <1>1 DEF Collected
  <2> QED  BY <1>1, <2>1 DEF Freeing, Children
<1>9. TreeExact'
  <2>1. \A s \in Live' : entry'[s].parent \in Live' \cup {None}
    BY <1>2, <1>3 DEF IInv, TreeExact
  <2>2. ASSUME NEW q \in Live'
        PROVE  Threaded(Children(q)', entry'[q].first_child, Siblings(q)', stamp')
    <3>1. CASE q = target
      BY <1>1, <1>3, <1>7, <1>8, <3>1, ZenonT(30) DEF Threaded
    <3>2. CASE q # target
      <4>1. Threaded(Children(q), entry[q].first_child, Siblings(q), stamp)
        BY <1>2, <3>2 DEF IInv, TreeExact, Siblings
      <4> QED  BY <1>2, <1>3, <1>7, <3>2, <4>1
    <3> QED  BY <3>1, <3>2
  <2> QED  BY <1>2, <2>1, <2>2 DEF TreeExact, Siblings
<1>10. Unlinking' /\ Collecting' /\ Freeing' /\ Resting'
  BY <1>2 DEF Unlinking, Collecting, Freeing, Resting, EndLoop
<1> QED  BY <1>4, <1>5, <1>6, <1>9, <1>10 DEF IInv


-----------------------------------------------------------------------------
\* insert_root.
LEMMA InsertRootInv ==
  ASSUME IInv, NEW r \in RightsInputs, NEW o \in Objects, InsertRoot(r, o)
  PROVE  IInv'
<1>1. CASE free_head = None
  <2>1. "CapsExhausted" \in Results
    BY DEF Results
  <2> QED  BY <1>1, <2>1, RefuseInv DEF InsertRoot
<1>2. CASE free_head # None
  <2>1. r \in SUBSET Rights /\ 0 \in 0 .. MaxDepth
    BY RightsAssumption, DepthAssumption
  <2>2. phase = "idle" /\ Install(None, r, o, 0)
    BY <1>2 DEF InsertRoot
  <2> QED  BY <1>2, <2>1, <2>2, InstallInv, Zenon
<1> QED  BY <1>1, <1>2

\* cap_copy: the copy hangs below the parent of the original, with rights
\* the original has and so its parent has.
LEMMA CopyInv ==
  ASSUME IInv, NEW h \in issued, NEW r \in RightsInputs, CapCopy(h, r)
  PROVE  IInv'
<1>1. CASE CopyCheck(h, r) # "Ok"
  <2>1. CopyCheck(h, r) \in Results
    BY DEF CopyCheck, Results
  <2> QED  BY <1>1, <2>1, RefuseInv, Zenon DEF CapCopy
<1>2. CASE CopyCheck(h, r) = "Ok"
  <2> DEFINE e == entry[h.index]
  <2>1. /\ phase = "idle" /\ free_head # None /\ h.index \in Live /\ r \subseteq e.rights
        /\ Install(e.parent, r, e.object, e.depth)
    BY <1>2, Zenon DEF CapCopy, CopyCheck, Resolves, RightsOf
  <2>2. e \in Entries
    <3>1. entry \in [Live -> Entries]
      BY DEF IInv, TypeOK
    <3> QED  BY <2>1, <3>1, Zenon
  <2>3. r \in SUBSET Rights /\ e.object \in Objects /\ e.depth \in 0 .. MaxDepth
    BY <2>2, RightsAssumption DEF Entries
  <2>4. e.parent \in Live \cup {None}
    BY <2>1, WholeTree, Zenon
  <2>5. IF e.parent = None THEN e.depth = 0
        ELSE e.rights \subseteq entry[e.parent].rights /\ e.depth = entry[e.parent].depth + 1
    BY <2>1, Zenon DEF IInv, Attenuation, Doomed
  <2>6. IF e.parent = None THEN e.depth = 0
        ELSE r \subseteq entry[e.parent].rights /\ e.depth = entry[e.parent].depth + 1
    BY <2>1, <2>5, Zenon
  <2> HIDE DEF e
  <2> QED  BY <2>1, <2>3, <2>4, <2>6, InstallInv, ZenonT(30)
<1> QED  BY <1>1, <1>2

\* cap_derive: the child hangs below h with rights h has.
LEMMA DeriveInv ==
  ASSUME IInv, NEW h \in issued, NEW r \in RightsInputs, NEW o \in Objects, CapDerive(h, r, o)
  PROVE  IInv'
<1>1. CASE DeriveCheck(h, r) # "Ok"
  <2>1. DeriveCheck(h, r) \in Results
    BY DEF DeriveCheck, Results
  <2> QED  BY <1>1, <2>1, RefuseInv DEF CapDerive
<1>2. CASE DeriveCheck(h, r) = "Ok"
  <2> DEFINE i == h.index
             d == entry[i].depth + 1
  <2>1. /\ phase = "idle" /\ free_head # None /\ i \in Live /\ r \subseteq entry[i].rights
        /\ ~(d > MaxDepth) /\ Install(i, r, o, d)
    BY <1>2, Zenon DEF CapDerive, DeriveCheck, Resolves, RightsOf
  <2>2. r \in SUBSET Rights /\ i # None
    BY <2>1, RightsAssumption, NoneIsNoSlot, Zenon DEF IInv, TypeOK
  <2>3. d \in 0 .. MaxDepth
    <3>1. entry[i].depth \in 0 .. MaxDepth
      BY <2>1, Zenon DEF IInv, TypeOK, Entries
    <3>2. ~(entry[i].depth + 1 > MaxDepth)
      BY <2>1, Zenon
    <3> HIDE DEF i
    <3> QED  BY <3>1, <3>2, DepthAssumption, SMTT(20)
  <2>4. IF i = None THEN d = 0 ELSE r \subseteq entry[i].rights /\ d = entry[i].depth + 1
    BY <2>1, <2>2, Zenon
  <2> HIDE DEF i, d
  <2> QED  BY <2>1, <2>2, <2>3, <2>4, InstallInv, Zenon
<1> QED  BY <1>1, <1>2

\* A step that changes nothing.
LEMMA StutterInv ==
  ASSUME IInv, UNCHANGED vars
  PROVE  IInv'
<1>1. UNCHANGED <<table, loop, aux>> /\ result' = result /\ result \in Results
  BY DEF vars, IInv, TypeOK
<1> QED  BY <1>1, RefuseInv DEF Refuse

\* The structure of the table is preserved by every call and by every
\* iteration of the loops of cap_drop, cap_take and cap_revoke.
THEOREM InductiveTheorem == Spec => []IInv
<1>1. IInv /\ [Next]_vars => IInv'
  <2> SUFFICES ASSUME IInv, [Next]_vars PROVE IInv'
    OBVIOUS
  <2>1. ASSUME NEW r \in RightsInputs, NEW o \in Objects, InsertRoot(r, o) PROVE IInv'
    BY <2>1, InsertRootInv
  <2>2. ASSUME NEW h \in issued, NEW r \in RightsInputs, CapCopy(h, r) PROVE IInv'
    BY <2>2, CopyInv
  <2>3. ASSUME NEW h \in issued, NEW r \in RightsInputs, NEW o \in Objects, CapDerive(h, r, o)
        PROVE  IInv'
    BY <2>3, DeriveInv
  <2>4. ASSUME NEW h \in issued, CapRemove(h) PROVE IInv'
    BY <2>4, RemoveInv
  <2>5. ASSUME NEW h \in issued, CapRevoke(h) PROVE IInv'
    BY <2>5, RevokeInv
  <2>6. CASE UnlinkStep
    BY <2>6, UnlinkInv
  <2>7. CASE CollectStep
    BY <2>7, CollectInv
  <2>8. CASE FreeStep
    <3>1. CASE scan < desc_len
      BY <2>8, <3>1, FreeOneInv DEF FreeStep
    <3>2. CASE ~(scan < desc_len)
      <4>1. scan >= desc_len /\ phase = "free"
        BY <2>8, <3>2 DEF FreeStep, IInv, TypeOK
      <4>2. /\ entry' = [s \in Live |-> IF s = target
                           THEN [entry[s] EXCEPT !.first_child = None] ELSE entry[s]]
            /\ result' = "Ok" /\ EndLoop
            /\ UNCHANGED <<generation, next_free, free_head, stamp, clock, issued>>
        BY <2>8, <3>2 DEF FreeStep, aux
      <4> QED  BY <4>1, <4>2, FreeDoneInv
    <3> QED  BY <3>1, <3>2
  <2>9. CASE UNCHANGED vars
    BY <2>9, StutterInv
  <2> QED  BY <2>1, <2>2, <2>3, <2>4, <2>5, <2>6, <2>7, <2>8, <2>9 DEF Next, Call, LoopStep
<1> QED  BY <1>1, InitInv, PTL DEF Spec

\* After any sequence of calls, and between any two steps of a revoke, the
\* free list of the table holds every empty slot exactly once.
THEOREM FreeListTheorem == Spec => [](TypeOK /\ FreeListExact)
<1>1. IInv => TypeOK /\ FreeListExact
  BY DEF IInv
<1> QED  BY <1>1, InductiveTheorem, PTL

\* The sibling lists and parent links of the table always form the
\* derivation tree, outside the subtree a revoke is freeing.
THEOREM TreeTheorem == Spec => []TreeExact
<1>1. IInv => TreeExact
  BY DEF IInv
<1> QED  BY <1>1, InductiveTheorem, PTL

\* cap_copy and cap_derive never widen rights along a derivation, and depth
\* counts the ancestors.
THEOREM AttenuationTheorem == Spec => []Attenuation
<1>1. IInv => Attenuation
  BY DEF IInv
<1> QED  BY <1>1, InductiveTheorem, PTL

\* The "internal bug" branches of cap_revoke (scratch array full) and of
\* unlink_from_siblings (predecessor not found) are unreachable.
THEOREM WalksTheorem == Spec => []WalksSucceed
<1>1. IInv => WalksSucceed
  <2> SUFFICES ASSUME IInv PROVE WalksSucceed
    OBVIOUS
  <2>1. phase = "collect" => desc_len < Capacity
    BY CollectHasRoom
  <2>2. phase = "unlink" => cursor # None
    BY NoneIsNoSlot, Zenon DEF IInv, Unlinking, TypeOK
  <2> QED  BY <2>1, <2>2 DEF WalksSucceed
<1> QED  BY <1>1, InductiveTheorem, PTL
=============================================================================
