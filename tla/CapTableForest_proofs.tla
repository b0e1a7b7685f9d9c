------------------------ MODULE CapTableForest_proofs ------------------------
(***************************************************************************)
(* A handle names one capability until the generation of its slot wraps    *)
(* around, and a capability table implements CapForest: for every          *)
(* capacity, depth limit and generation width, its slots, links,           *)
(* generations and loops are invisible.  Every call is a call on the       *)
(* forest, and a revoke takes effect at once, when its collection is       *)
(* complete.                                                               *)
(***************************************************************************)
EXTENDS CapTable_proofs

-----------------------------------------------------------------------------
(* Handles.                                                                *)

\* What a step does to the live slots, their generations and their stamps:
\* nothing, or it fills the slot n, or it empties the slot i.
Quiet == UNCHANGED <<Live, generation, stamp, clock, issued>>
Fills(n) ==
  /\ n \in Slots \ Live /\ Live' = Live \cup {n} /\ UNCHANGED generation
  /\ stamp' = [stamp EXCEPT ![n] = clock] /\ clock' = clock + 1
  /\ issued' = issued \cup {[index |-> n, generation |-> generation[n], stamp |-> clock]}
Empties(i) ==
  /\ i \in Live /\ Live' = Live \ {i}
  /\ generation' = [generation EXCEPT ![i] = (@ + 1) % GenModulus]
  /\ stamp' = [stamp EXCEPT ![i] = clock] /\ clock' = clock + 1 /\ UNCHANGED issued

\* Installing below a live parent fills the head of the free list.
LEMMA InstallFills ==
  ASSUME IInv, free_head # None, NEW p \in Live \cup {None}, NEW r, NEW o, NEW d,
         Install(p, r, o, d)
  PROVE  Fills(free_head)
<1>1. free_head \in Slots \ Live
  BY Zenon DEF IInv, FreeListExact, Threaded, Free
<1>2. p = None \/ p \in Live
  OBVIOUS
<1> QED  BY <1>1, <1>2, Zenon DEF Install, Fills, Live

\* Every step of a table has one of the three effects.
LEMMA StepEffect ==
  ASSUME IInv, [Next]_vars
  PROVE  Quiet \/ (\E n \in Slots : Fills(n)) \/ (\E i \in Slots : Empties(i))
<1> DEFINE G == Quiet \/ (\E n \in Slots : Fills(n)) \/ (\E i \in Slots : Empties(i))
<1> USE NoneIsNoSlot
<1>0. Live \subseteq Slots
  BY DEF IInv, TypeOK
<1>1. ASSUME NEW w, Refuse(w) PROVE G
  BY <1>1 DEF Refuse, Quiet, Live, table, aux
<1>2. ASSUME free_head # None, NEW p \in Live \cup {None}, NEW r, NEW o, NEW d, Install(p, r, o, d)
      PROVE  G
  <2>1. Fills(free_head)
    BY <1>2, InstallFills
  <2>2. free_head \in Slots
    BY <2>1 DEF Fills
  <2> QED  BY <2>1, <2>2
<1>3. ASSUME NEW i \in Live, NEW e, DOMAIN e = Live, FreeSlot(i, e) PROVE G
  <2>1. Empties(i)
    BY <1>3, Zenon DEF FreeSlot, Empties, Live
  <2> QED  BY <1>0, <2>1
<1>4. ASSUME NEW r \in RightsInputs, NEW o \in Objects, InsertRoot(r, o) PROVE G
  BY <1>1, <1>2, <1>4 DEF InsertRoot
<1>5. ASSUME NEW h \in issued, NEW r \in RightsInputs, CapCopy(h, r) PROVE G
  <2>1. CASE CopyCheck(h, r) # "Ok"
    BY <1>1, <1>5, <2>1, Zenon DEF CapCopy
  <2>2. CASE CopyCheck(h, r) = "Ok"
    <3>1. h.index \in Live /\ free_head # None /\ phase = "idle"
      BY <1>5, <2>2, Zenon DEF CapCopy, CopyCheck, Resolves
    <3>2. entry[h.index].parent \in Live \cup {None}
      BY <3>1, WholeTree, Zenon
    <3> QED  BY <1>2, <1>5, <2>2, <3>1, <3>2, Zenon DEF CapCopy
  <2> QED  BY <2>1, <2>2
<1>6. ASSUME NEW h \in issued, NEW r \in RightsInputs, NEW o \in Objects, CapDerive(h, r, o)
      PROVE  G
  <2>1. CASE DeriveCheck(h, r) # "Ok"
    BY <1>1, <1>6, <2>1, Zenon DEF CapDerive
  <2>2. CASE DeriveCheck(h, r) = "Ok"
    <3>1. h.index \in Live /\ free_head # None
      BY <2>2, Zenon DEF DeriveCheck, Resolves
    <3> QED  BY <1>2, <1>6, <2>2, <3>1, Zenon DEF CapDerive
  <2> QED  BY <2>1, <2>2
<1>7. ASSUME NEW h \in issued, CapRemove(h) PROVE G
  <2>1. CASE RemoveCheck(h) # "Ok"
    BY <1>1, <1>7, <2>1 DEF CapRemove
  <2>2. CASE RemoveCheck(h) = "Ok"
    <3>1. h.index \in Live
      BY <2>2, Zenon DEF RemoveCheck, Resolves
    <3>2. DOMAIN entry = Live
      BY DEF Live
    <3>3. DOMAIN [entry EXCEPT ![entry[h.index].parent].first_child = entry[h.index].next_sibling]
            = Live
      BY DEF Live
    <3>4. \/ FreeSlot(h.index, entry)
          \/ FreeSlot(h.index, [entry EXCEPT ![entry[h.index].parent].first_child
                                               = entry[h.index].next_sibling])
          \/ UNCHANGED <<table, aux>>
      BY <1>7, <2>2, Zenon DEF CapRemove
    <3>5. UNCHANGED <<table, aux>> => Quiet
      BY DEF Quiet, table, aux, Live
    <3> QED  BY <1>3, <3>1, <3>2, <3>3, <3>4, <3>5, Zenon
  <2> QED  BY <2>1, <2>2
<1>8. ASSUME UNCHANGED <<table, aux>> PROVE G
  BY <1>8 DEF Quiet, table, aux, Live
<1>9. ASSUME NEW h \in issued, CapRevoke(h) PROVE G
  BY <1>1, <1>8, <1>9, Zenon DEF CapRevoke
<1>10. ASSUME UnlinkStep PROVE G
  <2>1. target \in Live
    BY <1>10 DEF UnlinkStep, IInv, Unlinking
  <2>2. DOMAIN [entry EXCEPT ![cursor].next_sibling = entry[target].next_sibling] = Live
    BY DEF Live
  <2>3. \/ FreeSlot(target, [entry EXCEPT ![cursor].next_sibling = entry[target].next_sibling])
        \/ UNCHANGED <<table, aux>>
    BY <1>10 DEF UnlinkStep
  <2> QED  BY <1>3, <1>8, <2>1, <2>2, <2>3, Zenon
<1>11. ASSUME CollectStep PROVE G
  BY <1>8, <1>11, Zenon DEF CollectStep
<1>12. ASSUME FreeStep PROVE G
  <2>1. CASE scan < desc_len
    <3>1. scan \in Collected /\ scan >= scan
      BY <2>1 DEF IInv, TypeOK, Collected
    <3>2. descendants[scan] \in Live
      BY <1>12, <3>1 DEF FreeStep, IInv, Freeing
    <3>3. DOMAIN entry = Live /\ FreeSlot(descendants[scan], entry)
      BY <1>12, <2>1 DEF FreeStep, Live
    <3> QED  BY <1>3, <3>2, <3>3, Zenon
  <2>2. CASE ~(scan < desc_len)
    BY <1>12, <2>2 DEF FreeStep, Quiet, Live, aux
  <2> QED  BY <2>1, <2>2
<1>13. ASSUME UNCHANGED vars PROVE G
  BY <1>8, <1>13 DEF vars
<1> HIDE DEF G
<1>14. G
  BY <1>4, <1>5, <1>6, <1>7, <1>9, <1>10, <1>11, <1>12, <1>13 DEF Next, Call, LoopStep
<1> QED  BY <1>14 DEF G

\* A remainder is the only number below the divisor that differs from the
\* dividend by a multiple of it.
LEMMA Remainder ==
  ASSUME NEW a \in Nat, NEW m \in Nat \ {0}, NEW q \in Int, NEW r \in 0 .. m - 1, a = q * m + r
  PROVE  a % m = r
<1>1. PICK k : k = a \div m
  OBVIOUS
<1>2. PICK t : t = a % m
  OBVIOUS
<1>3. k \in Int /\ t \in 0 .. m - 1 /\ a = k * m + t
  BY <1>1, <1>2, Z3
<1>4. ~(q > k)
  <2> SUFFICES ASSUME q >= k + 1 PROVE FALSE
    BY <1>3
  <2>1. q * m >= (k + 1) * m
    BY <1>3, Z3
  <2>2. (k + 1) * m = k * m + m
    BY <1>3, Z3
  <2> QED  BY <1>3, <2>1, <2>2, Z3
<1>5. ~(q < k)
  <2> SUFFICES ASSUME k >= q + 1 PROVE FALSE
    BY <1>3
  <2>1. k * m >= (q + 1) * m
    BY <1>3, Z3
  <2>2. (q + 1) * m = q * m + m
    BY <1>3, Z3
  <2> QED  BY <1>3, <2>1, <2>2, Z3
<1>6. q = k
  BY <1>3, <1>4, <1>5
<1> QED  BY <1>2, <1>3, <1>6

\* Generations: the next one after a, and when a and a + k agree.
LEMMA WrapAround ==
  ASSUME NEW m \in Nat \ {0}, NEW a \in Nat
  PROVE  /\ ((a % m) + 1) % m = (a + 1) % m
         /\ a < m => a % m = a
         /\ \A x \in 0 .. m - 1, k \in Nat : a = x + k /\ a % m = x => k = 0 \/ k >= m
<1>1. PICK q : q = a \div m
  OBVIOUS
<1>2. PICK t : t = a % m
  OBVIOUS
<1>3. q \in Int /\ t \in 0 .. m - 1 /\ a = q * m + t
  BY <1>1, <1>2, Z3
<1>4. (t + 1) % m = (a + 1) % m
  <2>1. CASE t + 1 < m
    <3>1. a + 1 = q * m + (t + 1) /\ t + 1 = 0 * m + (t + 1) /\ t + 1 \in 0 .. m - 1
      BY <1>3, <2>1, Z3
    <3>2. (a + 1) % m = t + 1
      BY <1>3, <3>1, Remainder
    <3>3. (t + 1) % m = t + 1
      BY <1>3, <3>1, Remainder
    <3> QED  BY <3>2, <3>3
  <2>2. CASE t + 1 >= m
    <3>1. t + 1 = m
      BY <1>3, <2>2
    <3>2. a + 1 = (q + 1) * m + 0 /\ t + 1 = 1 * m + 0 /\ q + 1 \in Int /\ 0 \in 0 .. m - 1
      BY <1>3, <3>1, Z3
    <3>3. (a + 1) % m = 0
      BY <1>3, <3>2, Remainder
    <3>4. (t + 1) % m = 0
      BY <1>3, <3>2, Remainder
    <3> QED  BY <3>3, <3>4
  <2> QED  BY <1>3, <2>1, <2>2
<1>5. ASSUME NEW b \in Nat, b < m PROVE b % m = b
  <2>1. b = 0 * m + b /\ b \in 0 .. m - 1
    BY <1>5, Z3
  <2> QED  BY <2>1, Remainder
<1>6. ASSUME NEW x \in 0 .. m - 1, NEW k \in Nat, a = x + k, t = x, k < m PROVE k = 0
  <2>1. k = q * m
    BY <1>3, <1>6
  <2>2. k % m = 0
    BY <1>3, <2>1, Remainder
  <2>3. k % m = k
    BY <1>5, <1>6
  <2> QED  BY <2>2, <2>3
<1> QED  BY <1>2, <1>4, <1>5, <1>6

\* The handles issued for h's slot since h was.
Later(h) == {g \in issued : g.index = h.index /\ g.stamp > h.stamp}

\* The generation of a slot counts how often it was emptied: since h was
\* issued, once for each later handle and once more if it is empty now.
HandleInv ==
  /\ IsFiniteSet(issued) /\ \A h \in issued : h.stamp < clock
  /\ \A s \in Live : \E g \in issued : g.index = s /\ g.stamp = stamp[s]
  /\ \A h \in issued :
       /\ h.index \in Live => h.stamp =< stamp[h.index]
       /\ generation[h.index] =
            (h.generation + Cardinality(Later(h)) + IF h.index \in Live THEN 0 ELSE 1) % GenModulus

\* The later handles can be counted.
LEMMA LaterCount ==
  ASSUME IsFiniteSet(issued), NEW h
  PROVE  IsFiniteSet(Later(h)) /\ Cardinality(Later(h)) \in Nat
<1>1. Later(h) \subseteq issued
  BY DEF Later
<1> QED  BY <1>1, FS_Subset, FS_CardinalityType

\* A step that fills a slot issues the handle the counts call for.
LEMMA FillsHandles ==
  ASSUME IInv, HandleInv, NEW n \in Slots, Fills(n)
  PROVE  HandleInv'
<1> DEFINE new == [index |-> n, generation |-> generation[n], stamp |-> clock]
<1>0. /\ clock \in Nat /\ stamp \in [Slots -> Nat] /\ generation \in [Slots -> 0 .. GenModulus - 1]
      /\ issued \subseteq Handles /\ Live \subseteq Slots /\ GenModulus \in Nat \ {0}
  BY GenAssumption DEF IInv, TypeOK
<1>1. /\ n \notin Live /\ Live' = Live \cup {n} /\ generation' = generation
      /\ stamp' = [stamp EXCEPT ![n] = clock] /\ clock' = clock + 1
      /\ issued' = issued \cup {new}
  BY Zenon DEF Fills
<1>2. new.index = n /\ new.stamp = clock /\ new.generation = generation[n] /\ new \notin issued
  BY <1>0 DEF HandleInv
<1> HIDE DEF new
<1>3. IsFiniteSet(issued') /\ \A h \in issued' : h.stamp < clock'
  <2>1. IsFiniteSet(issued')
    BY <1>1, FS_AddElement, Zenon DEF HandleInv
  <2> QED  BY <1>0, <1>1, <1>2, <2>1 DEF HandleInv, Handles
<1>4. ASSUME NEW s \in Live' PROVE \E g \in issued' : g.index = s /\ g.stamp = stamp'[s]
  BY <1>0, <1>1, <1>2 DEF HandleInv
<1>5. ASSUME NEW h \in issued', h.index \in Live' PROVE h.stamp =< stamp'[h.index]
  BY <1>0, <1>1, <1>2, <1>5 DEF HandleInv, Handles
<1>6. ASSUME NEW h \in issued'
      PROVE  generation'[h.index] =
               (h.generation + Cardinality(Later(h)') + IF h.index \in Live' THEN 0 ELSE 1)
                 % GenModulus
  <2>1. CASE h = new
    <3>1. Later(h)' = {}
      BY <1>0, <1>1, <1>2, <2>1 DEF Later, HandleInv, Handles
    <3>2. Cardinality(Later(h)') = 0
      BY <3>1, FS_EmptySet
    <3>3. h.index \in Live' /\ generation'[h.index] = h.generation
          /\ h.generation \in Nat /\ h.generation < GenModulus
      BY <1>0, <1>1, <1>2, <2>1
    <3>4. h.generation % GenModulus = h.generation
      BY <1>0, <3>3, WrapAround, Zenon
    <3> QED  BY <3>2, <3>3, <3>4
  <2>2. CASE h # new
    <3>1. h \in issued /\ h \in Handles /\ h.stamp < clock
      BY <1>0, <1>1, <2>2, Zenon DEF HandleInv
    <3>2. PICK L : L = Later(h)
      OBVIOUS
    <3>3. IsFiniteSet(L) /\ Cardinality(L) \in Nat
      BY <3>2, LaterCount, Zenon DEF HandleInv
    <3>4. generation[h.index] =
            (h.generation + Cardinality(L) + IF h.index \in Live THEN 0 ELSE 1) % GenModulus
      BY <3>1, <3>2, Zenon DEF HandleInv
    <3>5. CASE h.index = n
      <4>1. Later(h)' = L \cup {new} /\ new \notin L
        BY <1>1, <1>2, <3>1, <3>2, <3>5 DEF Later
      <4>2. Cardinality(L \cup {new}) = Cardinality(L) + 1
        BY <3>3, <4>1, FS_AddElement, Zenon
      <4> QED  BY <1>1, <3>1, <3>3, <3>4, <3>5, <4>1, <4>2 DEF Handles
    <3>6. CASE h.index # n
      <4>1. Later(h)' = L
        BY <1>1, <1>2, <3>2, <3>6, Zenon DEF Later
      <4>2. h.index \in Live <=> h.index \in Live'
        BY <1>1, <3>6
      <4> QED  BY <1>1, <3>4, <4>1, <4>2, Zenon
    <3> QED  BY <3>5, <3>6, Zenon
  <2> QED  BY <2>1, <2>2, Zenon
<1> QED  BY <1>3, <1>4, <1>5, <1>6, Zenon DEF HandleInv

\* A step that empties slots, and moves their generations on, keeps the counts.
LEMMA EmptiesHandles ==
  ASSUME IInv, HandleInv, NEW i \in Slots, Empties(i)
  PROVE  HandleInv'
<1>0. /\ clock \in Nat /\ stamp \in [Slots -> Nat] /\ generation \in [Slots -> 0 .. GenModulus - 1]
      /\ issued \subseteq Handles /\ Live \subseteq Slots /\ GenModulus \in Nat \ {0}
  BY GenAssumption DEF IInv, TypeOK
<1>1. /\ i \in Live /\ Live' = Live \ {i} /\ issued' = issued
      /\ generation' = [generation EXCEPT ![i] = (@ + 1) % GenModulus]
      /\ stamp' = [stamp EXCEPT ![i] = clock] /\ clock' = clock + 1
  BY DEF Empties
<1>2. IsFiniteSet(issued') /\ \A h \in issued' : h.stamp < clock'
  BY <1>0, <1>1 DEF HandleInv, Handles
<1>3. \A s \in Live' : \E g \in issued' : g.index = s /\ g.stamp = stamp'[s]
  BY <1>0, <1>1, Zenon DEF HandleInv
<1>4. \A h \in issued' : h.index \in Live' => h.stamp =< stamp'[h.index]
  BY <1>0, <1>1, Zenon DEF HandleInv
<1>5. ASSUME NEW h \in issued'
      PROVE  generation'[h.index] =
               (h.generation + Cardinality(Later(h)') + IF h.index \in Live' THEN 0 ELSE 1)
                 % GenModulus
  <2>1. h \in issued /\ h.index \in Slots /\ h.generation \in Nat
    BY <1>0, <1>1 DEF Handles
  <2>2. PICK c : c = Cardinality(Later(h))
    OBVIOUS
  <2>3. c \in Nat /\ Cardinality(Later(h)') = c
    BY <1>1, <2>2, LaterCount, Zenon DEF HandleInv, Later
  <2>4. generation[h.index] = (h.generation + c + IF h.index \in Live THEN 0 ELSE 1) % GenModulus
    BY <2>1, <2>2, Zenon DEF HandleInv
  <2>5. CASE h.index = i
    <3>1. PICK a \in Nat : a = h.generation + c
      BY <2>1, <2>3
    <3>2. generation[i] = a % GenModulus
      BY <1>1, <2>4, <2>5, <3>1
    <3>3. generation'[i] = ((a % GenModulus) + 1) % GenModulus
      BY <1>0, <1>1, <3>2, Zenon
    <3>4. generation'[i] = (a + 1) % GenModulus
      BY <1>0, <3>3, WrapAround, Zenon
    <3>5. h.index \notin Live'
      BY <1>1, <2>5
    <3> QED  BY <2>3, <2>5, <3>1, <3>4, <3>5, Zenon
  <2>6. CASE h.index # i
    <3>1. generation'[h.index] = generation[h.index] /\ (h.index \in Live <=> h.index \in Live')
      BY <1>0, <1>1, <2>1, <2>6
    <3> QED  BY <2>3, <2>4, <3>1, Zenon
  <2> QED  BY <2>5, <2>6
<1> QED  BY <1>2, <1>3, <1>4, <1>5, Zenon DEF HandleInv

\* The counts are right in every reachable state.
LEMMA HandlesAlways == Spec => []HandleInv
<1>1. Init => HandleInv
  BY FS_EmptySet, Zenon DEF Init, HandleInv, Live
<1>2. IInv /\ HandleInv /\ [Next]_vars => HandleInv'
  <2> SUFFICES ASSUME IInv, HandleInv, [Next]_vars PROVE HandleInv'
    OBVIOUS
  <2>1. CASE Quiet
    BY <2>1, Zenon DEF Quiet, HandleInv, Later
  <2>2. ASSUME NEW n \in Slots, Fills(n) PROVE HandleInv'
    BY <2>2, FillsHandles
  <2>3. ASSUME NEW i \in Slots, Empties(i) PROVE HandleInv'
    BY <2>3, EmptiesHandles
  <2> QED  BY <2>1, <2>2, <2>3, StepEffect
<1> QED  BY <1>1, <1>2, InductiveTheorem, PTL DEF Spec

\* A handle resolves only to the capability it was issued for, until its
\* slot has been reused as often as there are generations.
THEOREM HandlesTheorem == Spec => []HandlesNameOneCap
<1>1. IInv /\ HandleInv => HandlesNameOneCap
  <2> SUFFICES ASSUME IInv, HandleInv, NEW h \in issued, Resolves(h),
                      ~(Cardinality(Later(h)) >= GenModulus)
               PROVE  stamp[h.index] = h.stamp
    BY Zenon DEF HandlesNameOneCap, Reuses, Later
  <2>0. /\ stamp \in [Slots -> Nat] /\ GenModulus \in Nat \ {0} /\ issued \subseteq Handles
        /\ h.index \in Slots /\ h.stamp \in Nat /\ h.generation \in 0 .. GenModulus - 1
    BY GenAssumption, Zenon DEF IInv, TypeOK, Handles
  <2>1. PICK c \in Nat : c = Cardinality(Later(h))
    BY LaterCount, Zenon DEF HandleInv
  <2>2. PICK a \in Nat : a = h.generation + c
    BY <2>0, <2>1
  <2>3. h.index \in Live /\ a % GenModulus = h.generation
    BY <2>0, <2>1, <2>2 DEF Resolves, HandleInv
  <2>4. c = 0
    BY <2>0, <2>1, <2>2, <2>3, WrapAround, Zenon
  <2>5. Later(h) = {}
    BY <2>1, <2>4, LaterCount, FS_EmptySet, Zenon DEF HandleInv
  <2>6. PICK g \in issued : g.index = h.index /\ g.stamp = stamp[h.index]
    BY <2>3, Zenon DEF HandleInv
  <2>7. ~(stamp[h.index] > h.stamp)
    BY <2>5, <2>6 DEF Later
  <2>8. h.stamp =< stamp[h.index]
    BY <2>3, Zenon DEF HandleInv
  <2> QED  BY <2>0, <2>7, <2>8
<1> QED  BY <1>1, InductiveTheorem, HandlesAlways, PTL

-----------------------------------------------------------------------------
(* The forest.                                                             *)

\* Stamps name slots, and the handle with the stamp of a live slot resolves
\* to it.  A capability costs two stamps, the second when its slot is freed,
\* so the stamps given out are bounded by the capabilities ever installed.
NameInv ==
  /\ \A s, t \in Slots : stamp[s] = stamp[t] => s = t
  /\ \A h \in issued : \A s \in Live :
       h.stamp = stamp[s] => h.index = s /\ h.generation = generation[s]
  /\ clock + Cardinality(Live) =< Capacity + 1 + 2 * Cardinality(issued)

\* A revoke that has begun has the right to.
RevokeRight == phase = "collect" => "REVOKE" \in entry[target].rights

\* The live slots can be counted.
LEMMA LiveCount ==
  ASSUME Live \subseteq Slots
  PROVE  IsFiniteSet(Live) /\ Cardinality(Live) \in Nat /\ Cardinality(Live) =< Capacity
         /\ (Cardinality(Live) = Capacity <=> Live = Slots)
<1>1. IsFiniteSet(Slots) /\ Cardinality(Slots) = Capacity
  BY CapacityAssumption, FS_Interval DEF Slots
<1> QED  BY <1>1, FS_Subset, FS_CardinalityType, Zenon

\* Filling a slot names it anew.
LEMMA FillsNames ==
  ASSUME IInv, HandleInv, NameInv, NEW n \in Slots, Fills(n)
  PROVE  NameInv'
<1> DEFINE new == [index |-> n, generation |-> generation[n], stamp |-> clock]
<1>0. /\ clock \in Nat /\ stamp \in [Slots -> Nat] /\ issued \subseteq Handles
      /\ Live \subseteq Slots /\ Clocked /\ Capacity \in Nat
  BY CapacityAssumption DEF IInv, TypeOK
<1>1. /\ n \notin Live /\ Live' = Live \cup {n} /\ generation' = generation
      /\ stamp' = [stamp EXCEPT ![n] = clock] /\ clock' = clock + 1
      /\ issued' = issued \cup {new}
  BY DEF Fills
<1>2. new.index = n /\ new.stamp = clock /\ new.generation = generation[n] /\ new \notin issued
  BY <1>0 DEF HandleInv
<1> HIDE DEF new
<1>3. \A s, t \in Slots : stamp'[s] = stamp'[t] => s = t
  BY <1>0, <1>1 DEF NameInv, Clocked
<1>4. ASSUME NEW h \in issued', NEW s \in Live', h.stamp = stamp'[s]
      PROVE  h.index = s /\ h.generation = generation'[s]
  <2>1. CASE s = n
    <3>1. h.stamp = clock
      BY <1>0, <1>1, <1>4, <2>1
    <3>2. h = new
      BY <1>0, <1>1, <3>1 DEF HandleInv
    <3> QED  BY <1>1, <1>2, <2>1, <3>2
  <2>2. CASE s # n
    <3>1. s \in Live /\ stamp'[s] = stamp[s] /\ stamp[s] < clock
      BY <1>0, <1>1, <2>2 DEF Clocked
    <3>2. h \in issued
      BY <1>0, <1>1, <1>2, <1>4, <3>1
    <3> QED  BY <1>1, <1>4, <3>1, <3>2 DEF NameInv
  <2> QED  BY <2>1, <2>2
<1>5. Cardinality(Live') = Cardinality(Live) + 1 /\ Cardinality(Live) \in Nat
  BY <1>0, <1>1, LiveCount, FS_AddElement, Zenon
<1>6. Cardinality(issued') = Cardinality(issued) + 1 /\ Cardinality(issued) \in Nat
  BY <1>1, <1>2, FS_AddElement, FS_CardinalityType DEF HandleInv
<1>7. clock' + Cardinality(Live') =< Capacity + 1 + 2 * Cardinality(issued')
  BY <1>0, <1>1, <1>5, <1>6 DEF NameInv
<1> QED  BY <1>3, <1>4, <1>7 DEF NameInv

\* Emptying a slot retires its name.
LEMMA EmptiesNames ==
  ASSUME IInv, HandleInv, NameInv, NEW i \in Slots, Empties(i)
  PROVE  NameInv'
<1>0. /\ clock \in Nat /\ stamp \in [Slots -> Nat] /\ generation \in [Slots -> 0 .. GenModulus - 1]
      /\ Live \subseteq Slots /\ Clocked /\ Capacity \in Nat
  BY CapacityAssumption DEF IInv, TypeOK
<1>1. /\ i \in Live /\ Live' = Live \ {i} /\ issued' = issued
      /\ generation' = [generation EXCEPT ![i] = (@ + 1) % GenModulus]
      /\ stamp' = [stamp EXCEPT ![i] = clock] /\ clock' = clock + 1
  BY DEF Empties
<1>2. \A s, t \in Slots : stamp'[s] = stamp'[t] => s = t
  BY <1>0, <1>1 DEF NameInv, Clocked
<1>3. ASSUME NEW h \in issued', NEW s \in Live', h.stamp = stamp'[s]
      PROVE  h.index = s /\ h.generation = generation'[s]
  <2>1. s \in Live /\ stamp'[s] = stamp[s] /\ generation'[s] = generation[s] /\ h \in issued
    BY <1>0, <1>1
  <2> QED  BY <1>3, <2>1 DEF NameInv
<1>4. Cardinality(Live') = Cardinality(Live) - 1 /\ Cardinality(Live) \in Nat
  BY <1>0, <1>1, LiveCount, FS_RemoveElement, Zenon
<1>5. Cardinality(issued) \in Nat
  BY FS_CardinalityType DEF HandleInv
<1>6. clock' + Cardinality(Live') =< Capacity + 1 + 2 * Cardinality(issued')
  BY <1>0, <1>1, <1>4, <1>5 DEF NameInv
<1> QED  BY <1>2, <1>3, <1>6 DEF NameInv

\* Only a cap_revoke that found the right begins to collect, and until the
\* collection is over no entry changes.
LEMMA RevokeRightStep ==
  ASSUME IInv, RevokeRight, [Next]_vars
  PROVE  RevokeRight'
<1>1. ASSUME NEW h \in issued, CapRevoke(h), phase' = "collect" PROVE RevokeRight'
  BY <1>1 DEF CapRevoke, Refuse, RevokeCheck, RightsOf, RevokeRight, table, loop
<1>2. ASSUME CollectStep PROVE RevokeRight'
  BY <1>2 DEF CollectStep, RevokeRight, table
<1>3. ASSUME UnlinkStep \/ FreeStep PROVE phase' # "collect"
  BY <1>3 DEF UnlinkStep, FreeStep, EndLoop
<1>4. ASSUME NEW w, Refuse(w), phase = "idle" PROVE phase' # "collect"
  BY <1>4 DEF Refuse, loop
<1>5. ASSUME NEW p, NEW r, NEW o, NEW d, Install(p, r, o, d), phase = "idle"
      PROVE  phase' # "collect"
  BY <1>5 DEF Install, loop
<1>6. ASSUME NEW h \in issued, CapRemove(h) PROVE phase' # "collect"
  BY <1>4, <1>6, Zenon DEF CapRemove, loop
<1>7. ASSUME NEW r, NEW o, InsertRoot(r, o) PROVE phase' # "collect"
  BY <1>4, <1>5, <1>7 DEF InsertRoot
<1>8. ASSUME NEW h \in issued, NEW r, CapCopy(h, r) PROVE phase' # "collect"
  BY <1>4, <1>5, <1>8 DEF CapCopy
<1>9. ASSUME NEW h \in issued, NEW r, NEW o, CapDerive(h, r, o) PROVE phase' # "collect"
  BY <1>4, <1>5, <1>9 DEF CapDerive
<1>10. ASSUME UNCHANGED vars PROVE RevokeRight'
  BY <1>10 DEF vars, table, loop, RevokeRight
<1>11. phase' # "collect" => RevokeRight'
  BY DEF RevokeRight
<1> QED  BY <1>1, <1>2, <1>3, <1>6, <1>7, <1>8, <1>9, <1>10, <1>11, Zenon DEF Next, Call, LoopStep

\* Stamps name capabilities in every reachable state.
LEMMA NamesAlways == Spec => [](NameInv /\ RevokeRight)
<1>1. Init => NameInv /\ RevokeRight
  <2> SUFFICES ASSUME Init PROVE NameInv /\ RevokeRight
    OBVIOUS
  <2>1. Live = {} /\ issued = {} /\ clock = Capacity + 1 /\ phase = "idle"
        /\ stamp = [s \in Slots |-> Capacity - s]
    BY DEF Init, Live
  <2>2. Cardinality(Live) = 0 /\ Cardinality(issued) = 0
    BY <2>1, FS_EmptySet
  <2>3. \A s, t \in Slots : stamp[s] = stamp[t] => s = t
    BY <2>1, CapacityAssumption DEF Slots
  <2>4. clock + Cardinality(Live) =< Capacity + 1 + 2 * Cardinality(issued)
    BY <2>1, <2>2, CapacityAssumption
  <2> QED  BY <2>1, <2>3, <2>4 DEF NameInv, RevokeRight
<1>2. IInv /\ HandleInv /\ NameInv /\ RevokeRight /\ [Next]_vars => NameInv' /\ RevokeRight'
  <2> SUFFICES ASSUME IInv, HandleInv, NameInv, RevokeRight, [Next]_vars
               PROVE  NameInv' /\ RevokeRight'
    OBVIOUS
  <2>1. CASE Quiet
    BY <2>1, RevokeRightStep DEF Quiet, NameInv
  <2>2. ASSUME NEW n \in Slots, Fills(n) PROVE NameInv'
    BY <2>2, FillsNames
  <2>3. ASSUME NEW i \in Slots, Empties(i) PROVE NameInv'
    BY <2>3, EmptiesNames
  <2> QED  BY <2>1, <2>2, <2>3, StepEffect, RevokeRightStep
<1> QED  BY <1>1, <1>2, InductiveTheorem, HandlesAlways, PTL DEF Spec

\* What the forest shows of slot s, given entries e and stamps st.
Name(st, l) == IF l = None THEN None ELSE st[l]
View(e, st, s) == [rights |-> e[s].rights, object |-> e[s].object,
                   parent |-> Name(st, e[s].parent), depth |-> e[s].depth]

\* The fields of a view.
LEMMA ViewParts ==
  ASSUME NEW e, NEW st, NEW s
  PROVE  /\ View(e, st, s).rights = e[s].rights /\ View(e, st, s).object = e[s].object
         /\ View(e, st, s).parent = Name(st, e[s].parent) /\ View(e, st, s).depth = e[s].depth
BY DEF View

\* F is the forest of the capabilities in S.
Shows(F, S, e, st) ==
  /\ F = [c \in DOMAIN F |-> F[c]] /\ DOMAIN F = {st[s] : s \in S}
  /\ \A s \in S : F[st[s]] = View(e, st, s)

\* The capabilities no revoke has collected.
Alive == Live \ Doomed

\* The table stands for the forest of these.
LEMMA ForestShows ==
  ASSUME \A s, t \in Alive : stamp[s] = stamp[t] => s = t
  PROVE  Shows(Forest, Alive, entry, stamp)
<1> DEFINE F == [n \in {stamp[s] : s \in Alive} |->
     LET e == entry[CHOOSE s \in Alive : stamp[s] = n]
     IN [rights |-> e.rights, object |-> e.object,
         parent |-> NameOf(e.parent), depth |-> e.depth]]
<1>1. Forest = F
  BY DEF Forest, Alive
<1>2. ASSUME NEW s \in Alive PROVE F[stamp[s]] = View(entry, stamp, s)
  <2>1. (CHOOSE t \in Alive : stamp[t] = stamp[s]) = s
    OBVIOUS
  <2>2. F[stamp[s]] = [rights |-> entry[s].rights, object |-> entry[s].object,
                       parent |-> NameOf(entry[s].parent), depth |-> entry[s].depth]
    BY <2>1, Zenon
  <2> QED  BY <2>2, Zenon DEF View, Name, NameOf
<1>3. DOMAIN F = {stamp[s] : s \in Alive} /\ F = [c \in DOMAIN F |-> F[c]]
  OBVIOUS
<1> QED  BY <1>1, <1>2, <1>3, Zenon DEF Shows

\* The forest F with one more capability, and without some.
Planted(F, n, cap) == [c \in DOMAIN F \cup {n} |-> IF c = n THEN cap ELSE F[c]]
Pruned(F, D) == [c \in DOMAIN F \ D |-> F[c]]

\* The same capabilities make the same forest.
LEMMA SameForest ==
  ASSUME NEW F, NEW G, NEW S, NEW e, NEW st, NEW e2, NEW st2,
         Shows(F, S, e, st), Shows(G, S, e2, st2),
         \A s \in S : st2[s] = st[s] /\ View(e2, st2, s) = View(e, st, s)
  PROVE  G = F
<1>1. DOMAIN G = DOMAIN F
  BY DEF Shows
<1>2. \A c \in DOMAIN F : G[c] = F[c]
  BY DEF Shows
<1> QED  BY <1>1, <1>2 DEF Shows

\* One more capability, n, with a stamp of its own.
LEMMA PlantedForest ==
  ASSUME NEW F, NEW G, NEW S, NEW n, NEW e, NEW st, NEW e2, NEW st2, n \notin S,
         Shows(F, S, e, st), Shows(G, S \cup {n}, e2, st2),
         \A s \in S : st2[s] = st[s] /\ st[s] # st2[n] /\ View(e2, st2, s) = View(e, st, s)
  PROVE  G = Planted(F, st2[n], View(e2, st2, n))
<1>1. DOMAIN G = DOMAIN F \cup {st2[n]}
  BY DEF Shows
<1>2. G[st2[n]] = View(e2, st2, n)
  BY DEF Shows
<1>3. \A c \in DOMAIN F : G[c] = F[c] /\ c # st2[n]
  BY DEF Shows
<1> QED  BY <1>1, <1>2, <1>3 DEF Shows, Planted

\* The capabilities in R are gone.
LEMMA PrunedForest ==
  ASSUME NEW F, NEW G, NEW S, NEW R, R \subseteq S, NEW e, NEW st, NEW e2, NEW st2,
         Shows(F, S, e, st), Shows(G, S \ R, e2, st2),
         \A s, t \in S : st[s] = st[t] => s = t,
         \A s \in S \ R : st2[s] = st[s] /\ View(e2, st2, s) = View(e, st, s)
  PROVE  G = Pruned(F, {st[s] : s \in R})
<1>1. DOMAIN G = DOMAIN F \ {st[s] : s \in R}
  BY DEF Shows
<1>2. \A c \in DOMAIN G : G[c] = F[c]
  BY DEF Shows
<1> QED  BY <1>1, <1>2 DEF Shows, Pruned

\* In every reachable state the forest shows the capabilities in Alive, with
\* different names, and no parent outside.
ForestShown ==
  /\ Shows(Forest, Alive, entry, stamp)
  /\ \A s, t \in Alive : stamp[s] = stamp[t] => s = t
  /\ \A s \in Alive : entry[s].parent \in Alive \cup {None}
  /\ Alive \subseteq Slots

LEMMA ShownBefore == IInv /\ NameInv => ForestShown
<1> SUFFICES ASSUME IInv, NameInv PROVE ForestShown
  OBVIOUS
<1>1. Alive \subseteq Slots
  BY DEF Alive, IInv, TypeOK
<1>2. \A s, t \in Alive : stamp[s] = stamp[t] => s = t
  BY <1>1 DEF NameInv
<1>3. \A s \in Alive : entry[s].parent \in Alive \cup {None}
  BY DEF IInv, TreeExact, Alive
<1> QED  BY <1>1, <1>2, <1>3, ForestShows DEF ForestShown

\* The same after a step.
LEMMA ShownAfter == IInv' /\ NameInv' => ForestShown'
BY ShownBefore, PTL

\* Unless a revoke is freeing what it collected, every capability is shown.
LEMMA ShownLive ==
  ASSUME ForestShown, phase # "free", NEW s \in Live
  PROVE  stamp[s] \in DOMAIN Forest /\ Forest[stamp[s]] = View(entry, stamp, s)
<1>1. s \in Alive
  BY DEF Alive, Doomed
<1> QED  BY <1>1, Zenon DEF ForestShown, Shows

\* The forest depends on the entries, the stamps and what a revoke collected.
LEMMA ForestKept ==
  ASSUME UNCHANGED <<entry, stamp>>, Doomed' = Doomed
  PROVE  Forest' = Forest
<1>1. Live' = Live /\ stamp' = stamp /\ entry' = entry
  BY DEF Live
<1> QED  BY <1>1 DEF Forest, NameOf

\* A slot's view depends on four fields of its entry and its parent's stamp.
LEMMA SameView ==
  ASSUME NEW e, NEW st, NEW e2, NEW st2, NEW s,
         e2[s].rights = e[s].rights, e2[s].object = e[s].object,
         e2[s].parent = e[s].parent, e2[s].depth = e[s].depth,
         e[s].parent # None => st2[e[s].parent] = st[e[s].parent]
  PROVE  View(e2, st2, s) = View(e, st, s)
BY DEF View, Name

\* Installing a capability plants it, under the next stamp.
LEMMA InstallForest ==
  ASSUME IInv, ForestShown, ForestShown', phase = "idle", free_head # None,
         NEW p \in Live \cup {None}, NEW r, NEW o, NEW d, Install(p, r, o, d)
  PROVE  Forest' = Planted(Forest, clock,
                     [rights |-> r, object |-> o, parent |-> NameOf(p), depth |-> d])
<1> DEFINE n == free_head
<1>0. /\ Live \subseteq Slots /\ clock \in Nat /\ stamp \in [Slots -> Nat] /\ Clocked
      /\ entry \in [Live -> Entries]
  BY DEF IInv, TypeOK
<1>1. n \in Slots \ Live /\ Live' = Live \cup {n} /\ stamp' = [stamp EXCEPT ![n] = clock]
  BY InstallFills DEF Fills
<1>2. phase' = "idle"
  BY DEF Install, loop
<1>3. Alive = Live /\ Alive' = Alive \cup {n} /\ n \notin Alive
  BY <1>1, <1>2 DEF Alive, Doomed
<1>4. entry' = [s \in Live \cup {n} |->
        IF s = n
        THEN [rights |-> r, object |-> o, parent |-> p, first_child |-> None,
              next_sibling |-> IF p = None THEN None ELSE entry[p].first_child, depth |-> d]
        ELSE IF s = p THEN [entry[s] EXCEPT !.first_child = n] ELSE entry[s]]
  BY DEF Install
<1> HIDE DEF n
<1>5. \A s \in Live : stamp'[s] = stamp[s] /\ stamp[s] # stamp'[n]
  BY <1>0, <1>1 DEF Clocked
<1>6. stamp'[n] = clock
  BY <1>0, <1>1
<1>7. ASSUME NEW s \in Live PROVE View(entry', stamp', s) = View(entry, stamp, s)
  <2>1. /\ entry'[s].rights = entry[s].rights /\ entry'[s].object = entry[s].object
        /\ entry'[s].parent = entry[s].parent /\ entry'[s].depth = entry[s].depth
    <3>1. s # n /\ entry[s] \in Entries
      BY <1>0, <1>1
    <3>2. entry'[s] = IF s = p THEN [entry[s] EXCEPT !.first_child = n] ELSE entry[s]
      BY <1>4, <3>1
    <3> QED  BY <3>1, <3>2 DEF Entries
  <2>2. entry[s].parent # None => stamp'[entry[s].parent] = stamp[entry[s].parent]
    BY <1>3, <1>5, Zenon DEF ForestShown
  <2> QED  BY <2>1, <2>2, SameView
<1>8. View(entry', stamp', n) = [rights |-> r, object |-> o, parent |-> NameOf(p), depth |-> d]
  <2>1. /\ entry'[n].rights = r /\ entry'[n].object = o
        /\ entry'[n].parent = p /\ entry'[n].depth = d
    BY <1>4
  <2>2. p # None => stamp'[p] = stamp[p]
    BY <1>5
  <2> QED  BY <2>1, <2>2 DEF View, Name, NameOf
<1>9. Shows(Forest, Alive, entry, stamp) /\ Shows(Forest', Alive \cup {n}, entry', stamp')
  BY <1>3, Zenon DEF ForestShown
<1>10. Forest' = Planted(Forest, stamp'[n], View(entry', stamp', n))
  <2>1. \A s \in Alive : /\ stamp'[s] = stamp[s] /\ stamp[s] # stamp'[n]
                          /\ View(entry', stamp', s) = View(entry, stamp, s)
    BY <1>3, <1>5, <1>7
  <2>2. n \notin Alive
    BY <1>3
  <2> QED  BY <1>9, <2>1, <2>2, PlantedForest
<1> QED  BY <1>6, <1>8, <1>10

\* e differs from the table's entries in sibling and child links only.
Relinked(e) ==
  /\ DOMAIN e = Live
  /\ \A s \in Live : /\ e[s].rights = entry[s].rights /\ e[s].object = entry[s].object
                     /\ e[s].parent = entry[s].parent /\ e[s].depth = entry[s].depth

\* Freeing a capability without children prunes it.
LEMMA FreeSlotForest ==
  ASSUME IInv, ForestShown, ForestShown', phase # "free", phase' # "free",
         NEW i \in Live, \A s \in Live : entry[s].parent # i,
         NEW e, Relinked(e), FreeSlot(i, e)
  PROVE  Forest' = Pruned(Forest, {stamp[i]})
<1>0. Live \subseteq Slots /\ clock \in Nat /\ stamp \in [Slots -> Nat]
  BY DEF IInv, TypeOK
<1>1. /\ entry' = [s \in Live \ {i} |-> e[s]] /\ Live' = Live \ {i}
      /\ stamp' = [stamp EXCEPT ![i] = clock]
  BY DEF FreeSlot, Relinked, Live
<1>2. Alive = Live /\ Alive' = Alive \ {i}
  BY <1>1 DEF Alive, Doomed
<1>3. \A s \in Live \ {i} : stamp'[s] = stamp[s]
  BY <1>0, <1>1
<1>4. ASSUME NEW s \in Live \ {i} PROVE View(entry', stamp', s) = View(entry, stamp, s)
  <2>1. entry'[s] = e[s]
    BY <1>1
  <2>2. entry[s].parent # None => stamp'[entry[s].parent] = stamp[entry[s].parent]
    BY <1>2, <1>3 DEF ForestShown
  <2> QED  BY <2>1, <2>2, SameView DEF Relinked
<1>5. Shows(Forest, Alive, entry, stamp) /\ Shows(Forest', Alive \ {i}, entry', stamp')
  BY <1>2 DEF ForestShown
<1>6. PICK R : R = {i}
  BY Zenon
<1>7. Forest' = Pruned(Forest, {stamp[s] : s \in R})
  <2>1. \A s \in Alive \ R : /\ stamp'[s] = stamp[s]
                              /\ View(entry', stamp', s) = View(entry, stamp, s)
    BY <1>2, <1>3, <1>4, <1>6, Zenon
  <2>2. R \subseteq Alive /\ \A s, t \in Alive : stamp[s] = stamp[t] => s = t
    BY <1>2, <1>6, Zenon DEF ForestShown
  <2>3. Shows(Forest', Alive \ R, entry', stamp')
    BY <1>5, <1>6, Zenon
  <2> QED  BY <1>5, <2>1, <2>2, <2>3, PrunedForest
<1>8. {stamp[s] : s \in R} = {stamp[i]}
  BY <1>6
<1> QED  BY <1>7, <1>8

\* Freeing what a revoke has collected does not show.
LEMMA FreeStepForest ==
  ASSUME IInv, ForestShown, ForestShown', FreeStep
  PROVE  Forest' = Forest
<1>0. /\ Live \subseteq Slots /\ clock \in Nat /\ stamp \in [Slots -> Nat]
      /\ desc_len \in Nat /\ scan \in Nat /\ phase = "free" /\ entry \in [Live -> Entries]
  BY CapacityAssumption DEF IInv, TypeOK, FreeStep
<1>1. Doomed = {descendants[i] : i \in scan .. desc_len - 1}
  BY <1>0 DEF Doomed
<1>2. CASE scan < desc_len
  <2> DEFINE d == descendants[scan]
  <2>1. scan \in Collected /\ scan >= scan
    BY <1>0, <1>2 DEF Collected
  <2>2. d \in Live
    BY <1>0, <2>1 DEF IInv, Freeing
  <2>3. FreeSlot(d, entry) /\ scan' = scan + 1 /\ UNCHANGED <<phase, descendants, desc_len>>
    BY <1>2 DEF FreeStep
  <2>4. /\ entry' = [s \in Live \ {d} |-> entry[s]] /\ Live' = Live \ {d}
        /\ stamp' = [stamp EXCEPT ![d] = clock]
    BY <2>3 DEF FreeSlot, Live
  <2>5. Doomed' = {descendants[i] : i \in scan + 1 .. desc_len - 1}
    BY <1>0, <2>3 DEF Doomed
  <2> HIDE DEF d
  <2>6. Doomed = Doomed' \cup {d}
    BY <1>0, <1>1, <1>2, <2>5 DEF d
  <2>7. Alive' = Alive /\ d \notin Alive
    BY <2>4, <2>6 DEF Alive
  <2>8. \A s \in Alive : stamp'[s] = stamp[s] /\ entry'[s] = entry[s]
    BY <1>0, <2>4, <2>7 DEF Alive
  <2>9. ASSUME NEW s \in Alive PROVE View(entry', stamp', s) = View(entry, stamp, s)
    <3>1. entry[s].parent # None => stamp'[entry[s].parent] = stamp[entry[s].parent]
      BY <2>8 DEF ForestShown
    <3> QED  BY <2>8, <3>1, SameView
  <2>10. Shows(Forest, Alive, entry, stamp) /\ Shows(Forest', Alive, entry', stamp')
    BY <2>7 DEF ForestShown
  <2> QED  BY <2>8, <2>9, <2>10, SameForest
<1>3. CASE ~(scan < desc_len)
  <2>1. /\ entry' = [s \in Live |-> IF s = target
                       THEN [entry[s] EXCEPT !.first_child = None] ELSE entry[s]]
        /\ phase' = "idle" /\ stamp' = stamp
    BY <1>3 DEF FreeStep, EndLoop, aux
  <2>2. Live' = Live /\ Doomed = {} /\ Doomed' = {}
    BY <1>0, <1>1, <1>3, <2>1 DEF Live, Doomed
  <2>3. Alive' = Alive /\ Alive = Live
    BY <2>2 DEF Alive
  <2>4. ASSUME NEW s \in Alive PROVE View(entry', stamp', s) = View(entry, stamp, s)
    <3>1. entry[s] \in Entries
      BY <1>0, <2>3
    <3>2. entry'[s] = IF s = target THEN [entry[s] EXCEPT !.first_child = None] ELSE entry[s]
      BY <2>1, <2>3
    <3>3. /\ entry'[s].rights = entry[s].rights /\ entry'[s].object = entry[s].object
          /\ entry'[s].parent = entry[s].parent /\ entry'[s].depth = entry[s].depth
      BY <3>1, <3>2 DEF Entries
    <3>4. entry[s].parent # None => stamp'[entry[s].parent] = stamp[entry[s].parent]
      BY <2>1
    <3> QED  BY <3>3, <3>4, SameView
  <2>5. Shows(Forest, Alive, entry, stamp) /\ Shows(Forest', Alive, entry', stamp')
    BY <2>3 DEF ForestShown
  <2> QED  BY <2>1, <2>4, <2>5, SameForest
<1> QED  BY <1>2, <1>3

\* When the collection is complete, what it has collected are the descendants
\* of target, and the forest loses them.
LEMMA CollectForest ==
  ASSUME IInv, ForestShown, ForestShown', CollectStep, phase' = "free"
  PROVE  /\ target \in Live /\ stamp[target] \in DOMAIN Forest
         /\ \E D \in SUBSET DOMAIN Forest :
              /\ D = {d \in DOMAIN Forest : Forest[d].parent \in D \cup {stamp[target]}}
              /\ Forest' = Pruned(Forest, D)
<1> DEFINE R == {descendants[i] : i \in Collected}
           D == {stamp[s] : s \in R}
<1>0. /\ Live \subseteq Slots /\ stamp \in [Slots -> Nat] /\ desc_len \in Nat /\ scan \in Nat
      /\ phase = "collect"
  BY CapacityAssumption DEF IInv, TypeOK, CollectStep
<1>1. /\ cursor = None /\ scan >= desc_len /\ scan' = 0
      /\ UNCHANGED <<descendants, desc_len, entry, stamp>>
  BY <1>0 DEF CollectStep, table, aux
<1>2. Alive = Live /\ Alive' = Alive \ R
  <2>1. Doomed = {} /\ Doomed' = R
    BY <1>0, <1>1 DEF Doomed, Collected
  <2> QED  BY <1>1, <2>1 DEF Alive, Live
<1>3. target \in Live /\ R \subseteq Live
  BY <1>0, Zenon DEF IInv, Collecting
<1>4. \A s : Visited(s) <=> s \in R \cup {target}
  BY <1>0, <1>1 DEF IInv, Collecting, Visited, Collected
<1>5. \A s \in Live : s \in R <=> entry[s].parent \in R \cup {target}
  BY <1>0, <1>1, <1>4, Zenon DEF IInv, Collecting
<1> HIDE DEF R
<1>6. /\ Shows(Forest, Alive, entry, stamp)
      /\ \A s, t \in Live : stamp[s] = stamp[t] => s = t
      /\ \A s \in Live : entry[s].parent \in Live \cup {None}
      /\ DOMAIN Forest = {stamp[s] : s \in Live}
  BY <1>2, Zenon DEF ForestShown, Shows
<1>7. D \in SUBSET DOMAIN Forest /\ stamp[target] \in DOMAIN Forest
  BY <1>3, <1>6
<1>8. ASSUME NEW s \in Live
      PROVE  stamp[s] \in D <=> Forest[stamp[s]].parent \in D \cup {stamp[target]}
  <2>1. stamp[s] \in D <=> s \in R
    BY <1>3, <1>6, Zenon
  <2>2. Forest[stamp[s]].parent = Name(stamp, entry[s].parent)
    <3>1. Forest[stamp[s]] = View(entry, stamp, s)
      BY <1>2, Zenon DEF ForestShown, Shows
    <3> QED  BY <3>1 DEF View
  <2>3. \A t \in Live : stamp[t] \in D \cup {stamp[target]} <=> t \in R \cup {target}
    BY <1>3, <1>6, Zenon
  <2>4. CASE entry[s].parent = None
    <3>1. None \notin D \cup {stamp[target]}
      BY <1>0, <1>3 DEF None
    <3>2. None \notin R \cup {target}
      BY <1>0, <1>3, NoneIsNoSlot
    <3> QED  BY <1>5, <2>1, <2>2, <2>4, <3>1, <3>2, Zenon DEF Name
  <2>5. CASE entry[s].parent # None
    BY <1>5, <1>6, <2>1, <2>2, <2>3, <2>5, Zenon DEF Name
  <2> QED  BY <2>4, <2>5, Zenon
<1>9. D = {d \in DOMAIN Forest : Forest[d].parent \in D \cup {stamp[target]}}
  <2> HIDE DEF D
  <2> QED  BY <1>6, <1>7, <1>8
<1>10. Forest' = Pruned(Forest, D)
  <2>1. \A s \in Alive \ R : stamp'[s] = stamp[s] /\ View(entry', stamp', s) = View(entry, stamp, s)
    BY <1>1
  <2>2. R \subseteq Alive /\ \A s, t \in Alive : stamp[s] = stamp[t] => s = t
    BY <1>2, <1>3, <1>6
  <2>3. Shows(Forest', Alive \ R, entry', stamp')
    BY <1>2 DEF ForestShown
  <2> QED  BY <1>6, <2>1, <2>2, <2>3, PrunedForest
<1> QED  BY <1>3, <1>7, <1>9, <1>10, Zenon

\* Every name that was given out.
Used == {h.stamp : h \in issued}

\* Between calls, what a handle resolves to is what some name given out names
\* in the forest; the name of a handle that does not resolve names nothing.
\* So a call on a handle is a call on a name.
LEMMA HandleName ==
  ASSUME IInv, HandleInv, NameInv, ForestShown, phase = "idle", NEW h \in issued
  PROVE  \E c \in Used :
           /\ ~Resolves(h) => c \notin DOMAIN Forest
           /\ Resolves(h) => /\ c = stamp[h.index] /\ c \in DOMAIN Forest
                             /\ Forest[c] = View(entry, stamp, h.index)
<1>1. Alive = Live /\ DOMAIN Forest = {stamp[s] : s \in Live}
  BY DEF Alive, Doomed, ForestShown, Shows
<1>2. CASE Resolves(h)
  <2>1. h.index \in Live
    BY <1>2 DEF Resolves
  <2>2. stamp[h.index] \in Used
    BY <2>1 DEF HandleInv, Used
  <2>3. Forest[stamp[h.index]] = View(entry, stamp, h.index)
    BY <1>1, <2>1 DEF ForestShown, Shows
  <2> QED  BY <1>1, <1>2, <2>1, <2>2, <2>3
<1>3. CASE ~Resolves(h)
  <2>1. h.stamp \in Used
    BY DEF Used
  <2>2. \A s \in Live : h.stamp # stamp[s]
    BY <1>3 DEF NameInv, Resolves
  <2> QED  BY <1>1, <1>3, <2>1, <2>2
<1> QED  BY <1>2, <1>3

\* Between calls, the free list is empty when the forest is full.
LEMMA FullTable ==
  ASSUME IInv, ForestShown, phase = "idle"
  PROVE  Cardinality(DOMAIN Forest) = Capacity <=> free_head = None
<1>1. Alive = Live /\ DOMAIN Forest = {stamp[s] : s \in Live} /\ Live \subseteq Slots
  BY DEF Alive, Doomed, ForestShown, Shows
<1>2. Cardinality(DOMAIN Forest) = Cardinality(Live)
  <2> DEFINE f == [s \in Live |-> stamp[s]]
  <2>1. f \in Bijection(Live, DOMAIN Forest)
    BY <1>1, Zenon DEF ForestShown, Bijection, Injection, Surjection, IsInjective
  <2>2. ExistsBijection(Live, DOMAIN Forest)
    BY <2>1 DEF ExistsBijection
  <2> QED  BY <1>1, <2>2, LiveCount, FS_Bijection, Zenon
<1>3. free_head = None <=> Free = {}
  BY NoneIsNoSlot, ThreadedHead DEF IInv, FreeListExact, Free
<1>4. Free = {} <=> Live = Slots
  BY <1>1 DEF Free
<1> QED  BY <1>1, <1>2, <1>3, <1>4, LiveCount

\* Between calls, a capability has a first child when one hangs below it in
\* the forest.
LEMMA ParentInForest ==
  ASSUME IInv, ForestShown, phase # "free", NEW i \in Live
  PROVE  entry[i].first_child # None <=>
           \E d \in DOMAIN Forest : Forest[d].parent = stamp[i]
<1>1. Alive = Live /\ DOMAIN Forest = {stamp[s] : s \in Live} /\ Live \subseteq Slots
  BY Zenon DEF Alive, Doomed, ForestShown, Shows
<1>2. stamp[i] \in Nat
  BY <1>1, Zenon DEF IInv, TypeOK
<1>3. ASSUME NEW s \in Live PROVE Forest[stamp[s]].parent = stamp[i] <=> entry[s].parent = i
  <2>1. Forest[stamp[s]] = View(entry, stamp, s)
    BY <1>1 DEF ForestShown, Shows
  <2>2. Forest[stamp[s]].parent = Name(stamp, entry[s].parent)
    BY <2>1 DEF View
  <2>3. entry[s].parent \in Live \cup {None} /\ i # None
    BY <1>1, NoneIsNoSlot DEF ForestShown
  <2> QED  BY <1>1, <1>2, <2>2, <2>3 DEF Name, ForestShown, None
<1>4. None \notin Children(i)
  BY <1>1, NoneIsNoSlot DEF Children
<1>5. entry[i].first_child = None <=> Children(i) = {}
  BY <1>4, WholeTree, ThreadedHead, Zenon
<1> QED  BY <1>1, <1>3, <1>5 DEF Children

\* An early return refuses the call on the forest.
LEMMA RefuseRefines ==
  ASSUME phase = "idle", NEW w, Refuse(w)
  PROVE  Abstract!Refuse(w)
<1>1. result' = w /\ phase' = "idle" /\ UNCHANGED <<entry, stamp, issued>>
  BY DEF Refuse, table, loop, aux
<1>2. Doomed' = Doomed
  BY <1>1, Zenon DEF Doomed
<1>3. Forest' = Forest
  BY <1>1, <1>2, ForestKept, Zenon
<1> QED  BY <1>1, <1>3, Zenon DEF Abstract!Refuse

\* A step of a loop that touches no slot does not show.
LEMMA StutterRefines ==
  ASSUME phase # "free", phase' # "free", UNCHANGED <<table, result, aux>>
  PROVE  UNCHANGED Abstract!vars
<1>1. UNCHANGED <<entry, stamp, issued, result>>
  BY DEF table, aux
<1>2. Doomed' = Doomed
  BY <1>1, Zenon DEF Doomed
<1>3. Forest' = Forest
  BY <1>1, <1>2, ForestKept, Zenon
<1> QED  BY <1>1, <1>3 DEF Abstract!vars

\* Installing a capability plants it under a name never given out before.
LEMMA PlantRefines ==
  ASSUME IInv, HandleInv, NameInv, ForestShown, ForestShown', phase = "idle", Bounded,
         free_head # None, NEW p \in Live \cup {None}, NEW r, NEW o, NEW d, Install(p, r, o, d)
  PROVE  Abstract!Plant(r, o, NameOf(p), d)
<1>1. Forest' = Planted(Forest, clock,
                  [rights |-> r, object |-> o, parent |-> NameOf(p), depth |-> d])
  BY InstallForest, Zenon
<1>2. phase' = "idle" /\ result' = "Ok"
  BY DEF Install, loop
<1>3. Fills(free_head)
  BY InstallFills
<1>4. Used' = Used \cup {clock}
  <2>1. PICK new :
          new = [index |-> free_head, generation |-> generation[free_head], stamp |-> clock]
    BY Zenon
  <2>2. issued' = issued \cup {new} /\ new.stamp = clock
    BY <1>3, <2>1, Zenon DEF Fills
  <2> QED  BY <2>2, Zenon DEF Used
<1>5. clock \notin Used
  <2>1. clock \in Nat /\ \A g \in issued : g.stamp < clock
    BY Zenon DEF HandleInv, IInv, TypeOK
  <2>2. ~(clock < clock)
    BY <2>1
  <2> QED  BY <2>1, <2>2, Zenon DEF Used
<1>6. clock \in 0 .. Capacity + 2 * MaxIssued
  <2>1. Cardinality(Live) \in Nat /\ Cardinality(issued) \in Nat /\ clock \in Nat
    BY LiveCount, FS_CardinalityType, Zenon DEF IInv, TypeOK, HandleInv
  <2>2. Cardinality(issued) < MaxIssued
    BY DEF Bounded
  <2>3. clock + Cardinality(Live) =< Capacity + 1 + 2 * Cardinality(issued)
    BY Zenon DEF NameInv
  <2> QED  BY <2>1, <2>2, <2>3, CapacityAssumption, BoundAssumption
<1> QED  BY <1>1, <1>2, <1>4, <1>5, <1>6, Zenon DEF Abstract!Plant, Planted, Used

\* Freeing a capability without children prunes it, and the call returns Ok.
LEMMA PruneRefines ==
  ASSUME IInv, ForestShown, ForestShown', phase # "free", phase' # "free", result' = "Ok",
         NEW i \in Live, \A s \in Live : entry[s].parent # i,
         NEW e, Relinked(e), FreeSlot(i, e)
  PROVE  Abstract!Prune({stamp[i]})
<1>1. Forest' = Pruned(Forest, {stamp[i]})
  BY FreeSlotForest, Zenon
<1>2. issued' = issued
  BY Zenon DEF FreeSlot
<1> QED  BY <1>1, <1>2, Zenon DEF Abstract!Prune, Pruned

\* CapForest counts as CapTable does.
LEMMA SameCardinality == \A S : Abstract!Cardinality(S) = Cardinality(S)
BY DEF Abstract!Cardinality, Cardinality

\* insert_root.
LEMMA InsertRootRefines ==
  ASSUME IInv, HandleInv, NameInv, ForestShown, ForestShown', NEW r, NEW o, InsertRoot(r, o)
  PROVE  Abstract!InsertRoot(r, o)
<1>1. phase = "idle" /\ Bounded
  BY DEF InsertRoot
<1>2. Abstract!Full <=> free_head = None
  BY <1>1, FullTable, SameCardinality DEF Abstract!Full
<1>3. CASE free_head = None
  <2>1. Abstract!Refuse("CapsExhausted")
    BY <1>1, <1>3, RefuseRefines DEF InsertRoot
  <2> QED  BY <1>2, <1>3, <2>1 DEF Abstract!InsertRoot
<1>4. CASE free_head # None
  <2>1. Install(None, r, o, 0) /\ None \in Live \cup {None}
    BY <1>4 DEF InsertRoot
  <2>2. Abstract!Plant(r, o, NameOf(None), 0)
    BY <1>1, <1>4, <2>1, PlantRefines
  <2>3. NameOf(None) = None
    BY DEF NameOf
  <2> QED  BY <1>2, <1>4, <2>2, <2>3 DEF Abstract!InsertRoot
<1> QED  BY <1>3, <1>4

\* cap_copy: its checks are those of the forest, in the same order.
LEMMA CopyRefines ==
  ASSUME IInv, HandleInv, NameInv, ForestShown, ForestShown', NEW h \in issued, NEW r, CapCopy(h, r)
  PROVE  \E c \in Used : Abstract!CapCopy(c, r)
<1>1. phase = "idle" /\ Bounded
  BY DEF CapCopy
<1>2. Abstract!Full <=> free_head = None
  BY <1>1, FullTable, SameCardinality DEF Abstract!Full
<1>3. PICK c \in Used :
        /\ ~Resolves(h) => c \notin DOMAIN Forest
        /\ Resolves(h) => /\ c = stamp[h.index] /\ c \in DOMAIN Forest
                          /\ Forest[c] = View(entry, stamp, h.index)
  BY <1>1, HandleName, Zenon
<1>4. Resolves(h) => /\ c \in DOMAIN Forest
                     /\ Forest[c].rights = RightsOf(h) /\ Forest[c].object = entry[h.index].object
                     /\ Forest[c].parent = NameOf(entry[h.index].parent)
                     /\ Forest[c].depth = entry[h.index].depth
  <2>1. PICK i, v : i = h.index /\ v = View(entry, stamp, i)
    BY Zenon
  <2>2. /\ v.rights = entry[i].rights /\ v.object = entry[i].object
        /\ v.parent = Name(stamp, entry[i].parent) /\ v.depth = entry[i].depth
    BY <2>1, ViewParts
  <2> QED  BY <1>3, <2>1, <2>2, Zenon DEF RightsOf, Name, NameOf
<1>5. CASE CopyCheck(h, r) # "Ok"
  <2>1. Abstract!Refuse(CopyCheck(h, r))
    BY <1>1, <1>5, RefuseRefines, Zenon DEF CapCopy
  <2>2. Abstract!CapCopy(c, r)
    BY <1>2, <1>3, <1>4, <1>5, <2>1, Zenon DEF Abstract!CapCopy, Abstract!Check, CopyCheck
  <2> QED  BY <2>2
<1>6. CASE CopyCheck(h, r) = "Ok"
  <2>1. /\ Resolves(h) /\ "DUPLICATE" \in RightsOf(h) /\ r \subseteq RightsOf(h)
        /\ free_head # None
    BY <1>6 DEF CopyCheck
  <2>2. h.index \in Live /\ entry[h.index].parent \in Live \cup {None}
    BY <1>1, <2>1, WholeTree, Zenon DEF Resolves
  <2>3. PICK p, o, d :
          p = entry[h.index].parent /\ o = entry[h.index].object /\ d = entry[h.index].depth
    BY Zenon
  <2>4. Install(p, r, o, d)
    BY <1>6, <2>3, Zenon DEF CapCopy
  <2>5. Abstract!Plant(r, o, NameOf(p), d)
    BY <1>1, <2>1, <2>2, <2>3, <2>4, PlantRefines, Zenon
  <2>6. /\ Forest[c].object = o /\ Forest[c].parent = NameOf(p) /\ Forest[c].depth = d
        /\ Forest[c].rights = RightsOf(h) /\ c \in DOMAIN Forest
    BY <1>4, <2>1, <2>3, Zenon
  <2>7. Abstract!Plant(r, Forest[c].object, Forest[c].parent, Forest[c].depth)
    BY <2>5, <2>6, Zenon DEF Abstract!Plant
  <2>8. Abstract!CapCopy(c, r)
    BY <1>2, <2>1, <2>6, <2>7, Zenon DEF Abstract!CapCopy, Abstract!Check
  <2> QED  BY <2>8
<1> QED  BY <1>5, <1>6

\* cap_derive, likewise; the depth limit is that of the forest.
LEMMA DeriveRefines ==
  ASSUME IInv, HandleInv, NameInv, ForestShown, ForestShown',
         NEW h \in issued, NEW r, NEW o, CapDerive(h, r, o)
  PROVE  \E c \in Used : Abstract!CapDerive(c, r, o)
<1>1. phase = "idle" /\ Bounded
  BY Zenon DEF CapDerive
<1>2. Abstract!Full <=> free_head = None
  BY <1>1, FullTable, SameCardinality DEF Abstract!Full
<1>3. PICK c \in Used :
        /\ ~Resolves(h) => c \notin DOMAIN Forest
        /\ Resolves(h) => /\ c = stamp[h.index] /\ c \in DOMAIN Forest
                          /\ Forest[c] = View(entry, stamp, h.index)
  BY <1>1, HandleName, Zenon
<1>4. Resolves(h) => /\ c \in DOMAIN Forest
                     /\ Forest[c].rights = RightsOf(h)
                     /\ Forest[c].depth = entry[h.index].depth
  BY <1>3 DEF View, RightsOf
<1>5. Resolves(h) => (entry[h.index].depth + 1 > MaxDepth <=> entry[h.index].depth = MaxDepth)
  <2> SUFFICES ASSUME Resolves(h)
               PROVE  entry[h.index].depth + 1 > MaxDepth <=> entry[h.index].depth = MaxDepth
    BY Zenon
  <2>1. entry[h.index] \in Entries
    BY Zenon DEF Resolves, IInv, TypeOK
  <2>2. entry[h.index].depth \in 0 .. MaxDepth
    BY <2>1, Zenon DEF Entries
  <2> QED  BY <2>2, DepthAssumption
<1>6. CASE DeriveCheck(h, r) # "Ok"
  <2>1. Abstract!Refuse(DeriveCheck(h, r))
    BY <1>1, <1>6, RefuseRefines, Zenon DEF CapDerive
  <2>2. Abstract!CapDerive(c, r, o)
    BY <1>2, <1>3, <1>4, <1>5, <1>6, <2>1, Zenon DEF Abstract!CapDerive, Abstract!Check, DeriveCheck
  <2> QED  BY <2>2
<1>7. CASE DeriveCheck(h, r) = "Ok"
  <2>1. /\ Resolves(h) /\ "DERIVE" \in RightsOf(h) /\ r \subseteq RightsOf(h)
        /\ ~(entry[h.index].depth + 1 > MaxDepth) /\ free_head # None
    BY <1>7, Zenon DEF DeriveCheck
  <2>2. h.index \in Live /\ h.index # None
    BY <2>1, NoneIsNoSlot, Zenon DEF Resolves, IInv, TypeOK
  <2>3. PICK p, d : p = h.index /\ d = entry[h.index].depth + 1
    BY Zenon
  <2>4. Install(p, r, o, d)
    BY <1>7, <2>3, Zenon DEF CapDerive
  <2>5. Abstract!Plant(r, o, NameOf(p), d)
    BY <1>1, <2>1, <2>2, <2>3, <2>4, PlantRefines, Zenon
  <2>6. /\ NameOf(p) = c /\ d = Forest[c].depth + 1 /\ Forest[c].depth # MaxDepth
        /\ Forest[c].rights = RightsOf(h) /\ c \in DOMAIN Forest
    BY <1>3, <1>4, <1>5, <2>1, <2>2, <2>3, Zenon DEF NameOf
  <2>7. Abstract!Plant(r, o, c, Forest[c].depth + 1)
    BY <2>5, <2>6, ZenonT(30) DEF Abstract!Plant
  <2>8. Abstract!CapDerive(c, r, o)
    BY <1>2, <2>1, <2>6, <2>7, Zenon DEF Abstract!CapDerive, Abstract!Check
  <2> QED  BY <2>8
<1> QED  BY <1>6, <1>7, Zenon

\* Rewriting one link of one entry shows nowhere in the forest.
LEMMA RelinkedEntries ==
  ASSUME IInv, NEW l
  PROVE  /\ Relinked(entry)
         /\ \A p \in Live : /\ Relinked([entry EXCEPT ![p].first_child = l])
                            /\ Relinked([entry EXCEPT ![p].next_sibling = l])
<1>1. entry \in [Live -> Entries]
  BY DEF IInv, TypeOK
<1>2. ASSUME NEW p \in Live, NEW e, DOMAIN e = Live,
             \A s \in Live \ {p} : e[s] = entry[s],
             \/ e[p] = [entry[p] EXCEPT !.first_child = l]
             \/ e[p] = [entry[p] EXCEPT !.next_sibling = l]
      PROVE  Relinked(e)
  <2>1. entry[p] \in Entries
    BY <1>1
  <2>2. /\ e[p].rights = entry[p].rights /\ e[p].object = entry[p].object
        /\ e[p].parent = entry[p].parent /\ e[p].depth = entry[p].depth
    BY <1>2, <2>1 DEF Entries
  <2> QED  BY <1>2, <2>2 DEF Relinked
<1>3. ASSUME NEW p \in Live PROVE Relinked([entry EXCEPT ![p].first_child = l])
  <2>1. PICK e : e = [entry EXCEPT ![p].first_child = l]
    BY Zenon
  <2>2. /\ DOMAIN e = Live /\ \A s \in Live \ {p} : e[s] = entry[s]
        /\ e[p] = [entry[p] EXCEPT !.first_child = l]
    BY <1>1, <2>1
  <2>3. Relinked(e)
    BY <1>2, <2>2, Zenon
  <2> QED  BY <2>1, <2>3
<1>4. ASSUME NEW p \in Live PROVE Relinked([entry EXCEPT ![p].next_sibling = l])
  <2>1. PICK e : e = [entry EXCEPT ![p].next_sibling = l]
    BY Zenon
  <2>2. /\ DOMAIN e = Live /\ \A s \in Live \ {p} : e[s] = entry[s]
        /\ e[p] = [entry[p] EXCEPT !.next_sibling = l]
    BY <1>1, <2>1
  <2>3. Relinked(e)
    BY <1>2, <2>2, Zenon
  <2> QED  BY <2>1, <2>3
<1>5. Relinked(entry)
  BY DEF Relinked, Live
<1> QED  BY <1>3, <1>4, <1>5

\* cap_drop and cap_take: refused as in the forest, done at once, or begun.
LEMMA RemoveRefines ==
  ASSUME IInv, HandleInv, NameInv, ForestShown, ForestShown', NEW h \in issued, CapRemove(h)
  PROVE  (\E c \in Used : Abstract!CapRemove(c)) \/ UNCHANGED Abstract!vars
<1>1. phase = "idle"
  BY Zenon DEF CapRemove
<1>2. PICK c \in Used :
        /\ ~Resolves(h) => c \notin DOMAIN Forest
        /\ Resolves(h) => c = stamp[h.index] /\ c \in DOMAIN Forest
  BY <1>1, HandleName, Zenon
<1>3. Resolves(h) => /\ h.index \in Live /\ entry[h.index].parent \in Live \cup {None}
                     /\ entry[h.index].first_child # None <=> Abstract!HasChild(c)
  BY <1>1, <1>2, WholeTree, ParentInForest, Zenon DEF Resolves, Abstract!HasChild
<1>4. CASE RemoveCheck(h) # "Ok"
  <2>1. Abstract!Refuse(RemoveCheck(h))
    BY <1>1, <1>4, RefuseRefines DEF CapRemove
  <2>2. Abstract!CapRemove(c)
    BY <1>2, <1>3, <1>4, <2>1, Zenon DEF Abstract!CapRemove, RemoveCheck
  <2> QED  BY <2>2
<1>5. CASE RemoveCheck(h) = "Ok"
  <2>1. Resolves(h) /\ entry[h.index].first_child = None
    BY <1>5, Zenon DEF RemoveCheck
  <2>2. PICK i, p, l : i = h.index /\ p = entry[i].parent /\ l = entry[i].next_sibling
    OBVIOUS
  <2>3. i \in Live /\ p \in Live \cup {None} /\ \A s \in Live : entry[s].parent # i
    BY <1>1, <1>3, <2>1, <2>2, LeafHasNoChildren, Zenon
  <2>4. ASSUME NEW e, Relinked(e), FreeSlot(i, e), result' = "Ok", UNCHANGED loop
        PROVE  Abstract!CapRemove(c)
    <3>1. phase' = "idle"
      BY <1>1, <2>4, Zenon DEF loop
    <3>2. Abstract!Prune({stamp[i]})
      BY <1>1, <2>3, <2>4, <3>1, PruneRefines, Zenon
    <3>3. Abstract!Prune({c})
      BY <1>2, <2>1, <2>2, <3>2, Zenon DEF Abstract!Prune
    <3> QED  BY <1>2, <1>3, <2>1, <3>3, Zenon DEF Abstract!CapRemove
  <2>5. CASE p = None /\ FreeSlot(i, entry) /\ result' = "Ok" /\ UNCHANGED loop
    <3>1. PICK e : e = entry
      OBVIOUS
    <3>2. FreeSlot(i, e) /\ Relinked(e)
      BY <2>5, <3>1, RelinkedEntries DEF FreeSlot
    <3> QED  BY <2>4, <2>5, <3>2, Zenon
  <2>6. CASE /\ p # None /\ FreeSlot(i, [entry EXCEPT ![p].first_child = l])
             /\ result' = "Ok" /\ UNCHANGED loop
    <3>1. PICK e : e = [entry EXCEPT ![p].first_child = l]
      BY Zenon
    <3>2. Relinked(e)
      BY <2>3, <2>6, <3>1, RelinkedEntries, Zenon
    <3>3. FreeSlot(i, e)
      BY <2>6, <3>1 DEF FreeSlot
    <3> QED  BY <2>4, <2>6, <3>2, <3>3
  <2>7. CASE phase' = "unlink" /\ UNCHANGED <<table, result, aux>>
    BY <1>1, <2>7, StutterRefines
  <2>8. \/ p = None /\ FreeSlot(i, entry) /\ result' = "Ok" /\ UNCHANGED loop
        \/ /\ p # None /\ FreeSlot(i, [entry EXCEPT ![p].first_child = l])
           /\ result' = "Ok" /\ UNCHANGED loop
        \/ phase' = "unlink" /\ UNCHANGED <<table, result, aux>>
    BY <1>5, <2>2, Zenon DEF CapRemove, FreeSlot
  <2> QED  BY <2>5, <2>6, <2>7, <2>8
<1> QED  BY <1>4, <1>5

\* The search for the predecessor does not show until it ends, and then the
\* capability is pruned.
LEMMA UnlinkRefines ==
  ASSUME IInv, HandleInv, NameInv, ForestShown, ForestShown', UnlinkStep
  PROVE  (\E c \in Used : Abstract!CapRemove(c)) \/ UNCHANGED Abstract!vars
<1>1. phase = "unlink"
  BY DEF UnlinkStep
<1>2. /\ target \in Live /\ cursor \in Live /\ cursor # None
      /\ entry[target].first_child = None
  BY <1>1, NoneIsNoSlot, Zenon DEF IInv, Unlinking, TypeOK
<1>3. CASE NextSibling(cursor) = target
  <2>1. PICK i, p, l : i = target /\ p = cursor /\ l = entry[target].next_sibling
    OBVIOUS
  <2>2. PICK e : e = [entry EXCEPT ![p].next_sibling = l]
    BY Zenon
  <2>3. i \in Live /\ \A s \in Live : entry[s].parent # i
    BY <1>1, <1>2, <2>1, LeafHasNoChildren, Zenon
  <2>4. Relinked(e)
    BY <1>2, <2>1, <2>2, RelinkedEntries, Zenon
  <2>5. FreeSlot(i, e) /\ result' = "Ok" /\ phase' = "idle"
    BY <1>2, <1>3, <2>1, <2>2, Zenon DEF UnlinkStep, EndLoop, FreeSlot
  <2>6. Abstract!Prune({stamp[i]})
    BY <1>1, <2>3, <2>4, <2>5, PruneRefines, Zenon
  <2>7. PICK c : c = stamp[i]
    OBVIOUS
  <2>8. Abstract!Prune({c})
    BY <2>6, <2>7, Zenon DEF Abstract!Prune
  <2>9. c \in Used /\ c \in DOMAIN Forest
    <3>1. c \in Used
      <4>1. PICK g \in issued : g.stamp = stamp[i]
        BY <2>3, Zenon DEF HandleInv
      <4> QED  BY <2>7, <4>1, Zenon DEF Used
    <3>2. stamp[i] \in DOMAIN Forest
      BY <1>1, <2>3, ShownLive, Zenon
    <3> QED  BY <2>7, <3>1, <3>2, Zenon
  <2>10. ~Abstract!HasChild(c)
    BY <1>1, <1>2, <2>1, <2>7, ParentInForest, Zenon DEF Abstract!HasChild
  <2>11. Abstract!CapRemove(c)
    BY <2>8, <2>9, <2>10 DEF Abstract!CapRemove
  <2> QED  BY <2>9, <2>11
<1>4. CASE NextSibling(cursor) # target
  <2>1. phase' = "unlink" /\ UNCHANGED <<table, result, aux>>
    BY <1>1, <1>2, <1>4 DEF UnlinkStep
  <2> QED  BY <1>1, <2>1, StutterRefines
<1> QED  BY <1>3, <1>4

\* cap_revoke: refused as in the forest, or begun.
LEMMA RevokeRefines ==
  ASSUME IInv, HandleInv, NameInv, ForestShown, NEW h \in issued, CapRevoke(h)
  PROVE  (\E c \in Used : Abstract!CapRevoke(c)) \/ UNCHANGED Abstract!vars
<1>1. phase = "idle"
  BY Zenon DEF CapRevoke
<1>2. PICK c \in Used :
        /\ ~Resolves(h) => c \notin DOMAIN Forest
        /\ Resolves(h) => c \in DOMAIN Forest /\ Forest[c] = View(entry, stamp, h.index)
  BY <1>1, HandleName, Zenon
<1>3. Resolves(h) => Forest[c].rights = RightsOf(h)
  <2>1. View(entry, stamp, h.index).rights = entry[h.index].rights
    BY ViewParts
  <2> QED  BY <1>2, <2>1, Zenon DEF RightsOf
<1>4. CASE RevokeCheck(h) # "Ok"
  <2>1. Abstract!Refuse(RevokeCheck(h))
    BY <1>1, <1>4, RefuseRefines, Zenon DEF CapRevoke
  <2>2. Abstract!CapRevoke(c)
    BY <1>2, <1>3, <1>4, <2>1, Zenon DEF Abstract!CapRevoke, Abstract!Check, RevokeCheck
  <2> QED  BY <2>2
<1>5. CASE RevokeCheck(h) = "Ok"
  <2>1. phase' = "collect" /\ UNCHANGED <<table, result, aux>>
    BY <1>5, Zenon DEF CapRevoke
  <2> QED  BY <1>1, <2>1, StutterRefines
<1> QED  BY <1>4, <1>5, Zenon

\* The collection does not show until it is complete, and then all
\* descendants are pruned at once.
LEMMA CollectRefines ==
  ASSUME IInv, HandleInv, NameInv, RevokeRight, ForestShown, ForestShown', CollectStep
  PROVE  (\E c \in Used : Abstract!CapRevoke(c)) \/ UNCHANGED Abstract!vars
<1>1. phase = "collect" /\ UNCHANGED <<table, result, aux>>
  BY Zenon DEF CollectStep
<1>2. CASE phase' # "free"
  BY <1>1, <1>2, StutterRefines
<1>3. CASE phase' = "free"
  <2>1. PICK c : c = stamp[target]
    OBVIOUS
  <2>2. /\ target \in Live /\ c \in DOMAIN Forest
        /\ \E D \in SUBSET DOMAIN Forest :
             /\ D = {d \in DOMAIN Forest : Forest[d].parent \in D \cup {c}}
             /\ Forest' = Pruned(Forest, D)
    BY <1>3, <2>1, CollectForest
  <2>3. c \in Used
    BY <2>1, <2>2, Zenon DEF HandleInv, Used
  <2>4. Abstract!Check(c, "REVOKE") = "Ok"
    <3>1. Forest[c] = View(entry, stamp, target)
      BY <1>1, <2>1, <2>2, ShownLive, Zenon
    <3>2. "REVOKE" \in Forest[c].rights
      <4>1. View(entry, stamp, target).rights = entry[target].rights
        BY ViewParts
      <4> QED  BY <1>1, <3>1, <4>1, Zenon DEF RevokeRight
    <3> QED  BY <2>2, <3>2, Zenon DEF Abstract!Check
  <2>5. issued' = issued
    BY <1>1 DEF aux
  <2>6. ASSUME NEW D, Forest' = Pruned(Forest, D) PROVE Abstract!Prune(D)
    BY <1>3, <2>5, <2>6 DEF Abstract!Prune, Pruned
  <2>7. Abstract!CapRevoke(c)
    BY <2>2, <2>4, <2>6, Zenon DEF Abstract!CapRevoke
  <2> QED  BY <2>3, <2>7
<1> QED  BY <1>2, <1>3

\* Freeing what was collected does not show.
LEMMA FreeRefines ==
  ASSUME IInv, ForestShown, ForestShown', FreeStep
  PROVE  UNCHANGED Abstract!vars
<1>1. Forest' = Forest
  BY FreeStepForest
<1>2. phase = "free" /\ issued' = issued /\ (phase' = "free" \/ result' = "Ok")
  BY DEF FreeStep, FreeSlot, aux
<1> QED  BY <1>1, <1>2 DEF Abstract!vars

\* The table behaves as a forest of uniquely named capabilities with atomic
\* operations: what the calls return and which capabilities there are is
\* decided by the forest alone, whatever slots, links and generations hold.
THEOREM ForestTheorem == Spec => RefinesForest
<1>1. Init => Abstract!Init
  <2> SUFFICES ASSUME Init PROVE Abstract!Init
    OBVIOUS
  <2>1. Live = {} /\ issued = {} /\ phase = "idle" /\ result = "Ok"
    BY DEF Init, Live
  <2>2. {stamp[s] : s \in Live \ Doomed} = {}
    BY <2>1
  <2>3. Forest = [n \in {} |-> {}]
    BY <2>2, Zenon DEF Forest
  <2> QED  BY <2>1, <2>3 DEF Abstract!Init
<1>2. /\ IInv /\ HandleInv /\ NameInv /\ RevokeRight
      /\ IInv' /\ NameInv' /\ [Next]_vars
      => [Abstract!Next]_Abstract!vars
  <2> SUFFICES ASSUME IInv, HandleInv, NameInv, RevokeRight, IInv', NameInv', [Next]_vars
               PROVE  Abstract!Next \/ UNCHANGED Abstract!vars
    OBVIOUS
  <2>0. ForestShown /\ ForestShown'
    BY ShownBefore, ShownAfter
  <2>1. ASSUME NEW r \in RightsInputs, NEW o \in Objects, InsertRoot(r, o)
        PROVE  Abstract!Next
    <3>1. Abstract!InsertRoot(r, o)
      BY <2>0, <2>1, InsertRootRefines
    <3> QED  BY <3>1, Zenon DEF Abstract!Next
  <2>2. ASSUME NEW h \in issued, NEW r \in RightsInputs, CapCopy(h, r) PROVE Abstract!Next
    <3>1. \E c \in Used : Abstract!CapCopy(c, r)
      BY <2>0, <2>2, CopyRefines
    <3> QED  BY <3>1, Zenon DEF Abstract!Next, Used
  <2>3. ASSUME NEW h \in issued, NEW r \in RightsInputs, NEW o \in Objects, CapDerive(h, r, o)
        PROVE  Abstract!Next
    <3>1. \E c \in Used : Abstract!CapDerive(c, r, o)
      BY <2>0, <2>3, DeriveRefines
    <3> QED  BY <3>1, Zenon DEF Abstract!Next, Used
  <2>4. (\E c \in Used : Abstract!CapRemove(c)) => Abstract!Next
    BY Zenon DEF Abstract!Next, Used
  <2>5. (\E c \in Used : Abstract!CapRevoke(c)) => Abstract!Next
    BY Zenon DEF Abstract!Next, Used
  <2>6. ASSUME NEW h \in issued, CapRemove(h) PROVE Abstract!Next \/ UNCHANGED Abstract!vars
    BY <2>0, <2>4, <2>6, RemoveRefines
  <2>7. ASSUME NEW h \in issued, CapRevoke(h) PROVE Abstract!Next \/ UNCHANGED Abstract!vars
    BY <2>0, <2>5, <2>7, RevokeRefines
  <2>8. UnlinkStep => Abstract!Next \/ UNCHANGED Abstract!vars
    BY <2>0, <2>4, UnlinkRefines
  <2>9. CollectStep => Abstract!Next \/ UNCHANGED Abstract!vars
    BY <2>0, <2>5, CollectRefines, Zenon
  <2>10. FreeStep => Abstract!Next \/ UNCHANGED Abstract!vars
    BY <2>0, FreeRefines
  <2>11. UNCHANGED vars => UNCHANGED Abstract!vars
    <3> SUFFICES ASSUME UNCHANGED vars PROVE UNCHANGED Abstract!vars
      OBVIOUS
    <3>1. /\ UNCHANGED <<entry, stamp>> /\ UNCHANGED <<issued, result>>
          /\ UNCHANGED <<phase, scan, desc_len, descendants>>
      BY DEF vars, table, loop, aux
    <3>2. Doomed' = Doomed
      BY <3>1, Zenon DEF Doomed
    <3>3. Forest' = Forest
      BY <3>1, <3>2, ForestKept, Zenon
    <3> QED  BY <3>1, <3>3 DEF Abstract!vars
  <2> QED  BY <2>1, <2>2, <2>3, <2>6, <2>7, <2>8, <2>9, <2>10, <2>11, Zenon
           DEF Next, Call, LoopStep
<1> QED  BY <1>1, <1>2, InductiveTheorem, HandlesAlways, NamesAlways, PTL
         DEF Spec, RefinesForest, Abstract!Spec
=============================================================================
