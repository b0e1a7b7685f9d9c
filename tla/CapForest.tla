------------------------------ MODULE CapForest ------------------------------
(***************************************************************************)
(* What a capability table promises, without slots, links, generations or  *)
(* loops: a forest of capabilities with unique names.  Every operation is  *)
(* one atomic step, and each error is returned exactly when its abstract   *)
(* condition holds.  CapTable implements this specification.               *)
(***************************************************************************)
EXTENDS Naturals, FiniteSets

CONSTANTS Capacity, MaxDepth, Objects, RightsInputs, Names, NoParent

VARIABLES
  forest,   \* name of a live capability -> its rights, object, parent, depth
  used,     \* every name ever given to a capability
  result    \* what the last operation returned

vars == <<forest, used, result>>

Init == forest = [n \in {} |-> {}] /\ used = {} /\ result = "Ok"

Full == Cardinality(DOMAIN forest) = Capacity
HasChild(c) == \E d \in DOMAIN forest : forest[d].parent = c

Refuse(why) == result' = why /\ UNCHANGED <<forest, used>>

\* A new capability gets a name that never named anything before.
Plant(r, o, p, d) ==
  \E n \in Names \ used :
    /\ result' = "Ok"
    /\ used' = used \cup {n}
    /\ forest' = [c \in DOMAIN forest \cup {n} |->
         IF c = n THEN [rights |-> r, object |-> o, parent |-> p, depth |-> d]
         ELSE forest[c]]

Prune(D) ==
  /\ result' = "Ok" /\ UNCHANGED used
  /\ forest' = [c \in DOMAIN forest \ D |-> forest[c]]

\* c is live and has the right that the operation needs.
Check(c, right) ==
  IF c \notin DOMAIN forest THEN "InvalidHandle"
  ELSE IF right \notin forest[c].rights THEN "InsufficientRights"
  ELSE "Ok"

InsertRoot(r, o) == IF Full THEN Refuse("CapsExhausted") ELSE Plant(r, o, NoParent, 0)

CapCopy(c, r) ==
  IF Check(c, "DUPLICATE") # "Ok" THEN Refuse(Check(c, "DUPLICATE"))
  ELSE IF ~(r \subseteq forest[c].rights) THEN Refuse("WidenedRights")
  ELSE IF Full THEN Refuse("CapsExhausted")
  ELSE Plant(r, forest[c].object, forest[c].parent, forest[c].depth)

CapDerive(c, r, o) ==
  IF Check(c, "DERIVE") # "Ok" THEN Refuse(Check(c, "DERIVE"))
  ELSE IF ~(r \subseteq forest[c].rights) THEN Refuse("WidenedRights")
  ELSE IF forest[c].depth = MaxDepth THEN Refuse("DerivationTooDeep")
  ELSE IF Full THEN Refuse("CapsExhausted")
  ELSE Plant(r, o, c, forest[c].depth + 1)

CapRemove(c) ==
  IF c \notin DOMAIN forest THEN Refuse("InvalidHandle")
  ELSE IF HasChild(c) THEN Refuse("HasChildren")
  ELSE Prune({c})

\* D is the set of all descendants of c: parent links cannot form a cycle,
\* so exactly one set satisfies the equation.
CapRevoke(c) ==
  IF Check(c, "REVOKE") # "Ok" THEN Refuse(Check(c, "REVOKE"))
  ELSE \E D \in SUBSET DOMAIN forest :
         /\ D = {d \in DOMAIN forest : forest[d].parent \in D \cup {c}}
         /\ Prune(D)

Next ==
  \/ \E r \in RightsInputs, o \in Objects : InsertRoot(r, o)
  \/ \E c \in used :
       \/ \E r \in RightsInputs : CapCopy(c, r)
       \/ \E r \in RightsInputs, o \in Objects : CapDerive(c, r, o)
       \/ CapRemove(c)
       \/ CapRevoke(c)

Spec == Init /\ [][Next]_vars
=============================================================================
