------------------------ MODULE EndpointsMoves_proofs ------------------------
(***************************************************************************)
(* For every number of callers, endpoint slots, table slots and messages:  *)
(* sending and receiving move capabilities and never copy or lose one, and *)
(* together the endpoints implement Channels.                              *)
(***************************************************************************)
EXTENDS Endpoints_proofs

-----------------------------------------------------------------------------
(* Authority.                                                              *)

\* Where the capabilities on o are: in tables, and in flight in live endpoints.
Kept(o) == UNION {{c} \X {h \in DOMAIN tables[c] : tables[c][h].object = o} : c \in Callers}
Flying(o) == {e \in LiveEps : InFlight(e, o)}

\* What a step loses: the capabilities in the endpoints that it destroys.
Sunk(o) == {e \in LiveEps \ LiveEps' : InFlight(e, o)}

\* The capabilities in the tables, one by one.
LEMMA KeptIs ==
  ASSUME NEW o, NEW c \in Callers, NEW h
  PROVE  <<c, h>> \in Kept(o) <=> h \in DOMAIN tables[c] /\ tables[c][h].object = o
BY DEF Kept

\* There is nothing else in Kept.
LEMMA KeptPairs ==
  ASSUME NEW o, NEW p \in Kept(o)
  PROVE  \E c \in Callers : \E h \in DOMAIN tables[c] : p = <<c, h>> /\ tables[c][h].object = o
BY DEF Kept

\* The same two facts about the next state.
LEMMA KeptIsNext ==
  ASSUME NEW o, NEW c \in Callers, NEW h
  PROVE  <<c, h>> \in Kept(o)' <=> h \in DOMAIN tables'[c] /\ tables'[c][h].object = o
BY DEF Kept

LEMMA KeptPairsNext ==
  ASSUME NEW o, NEW p \in Kept(o)'
  PROVE  \E c \in Callers : \E h \in DOMAIN tables'[c] : p = <<c, h>> /\ tables'[c][h].object = o
BY DEF Kept

\* Tables that hold an object at the same places keep it at the same places.
LEMMA KeptSame ==
  ASSUME NEW o,
         \A c \in Callers : \A h :
            h \in DOMAIN tables'[c] /\ tables'[c][h].object = o
            <=> h \in DOMAIN tables[c] /\ tables[c][h].object = o
  PROVE  Kept(o)' = Kept(o)
<1>1. ASSUME NEW p \in Kept(o)' PROVE p \in Kept(o)
  <2>1. PICK c \in Callers : \E h \in DOMAIN tables'[c] : p = <<c, h>> /\ tables'[c][h].object = o
    BY <1>1, KeptPairsNext, Zenon
  <2>2. PICK h \in DOMAIN tables'[c] : p = <<c, h>> /\ tables'[c][h].object = o
    BY <2>1, Zenon
  <2>3. h \in DOMAIN tables[c] /\ tables[c][h].object = o
    BY <2>2, Zenon
  <2> QED  BY <2>2, <2>3, KeptIs, Zenon
<1>2. ASSUME NEW p \in Kept(o) PROVE p \in Kept(o)'
  <2>1. PICK c \in Callers : \E h \in DOMAIN tables[c] : p = <<c, h>> /\ tables[c][h].object = o
    BY <1>2, KeptPairs, Zenon
  <2>2. PICK h \in DOMAIN tables[c] : p = <<c, h>> /\ tables[c][h].object = o
    BY <2>1, Zenon
  <2>3. h \in DOMAIN tables'[c] /\ tables'[c][h].object = o
    BY <2>2, Zenon
  <2> QED  BY <2>2, <2>3, KeptIsNext, Zenon
<1> QED  BY <1>1, <1>2, Zenon

\* Unchanged tables, in particular.
LEMMA KeptUnchanged ==
  ASSUME NEW o, tables' = tables
  PROVE  Kept(o)' = Kept(o)
BY DEF Kept

\* The holders of an object are the table entries and the messages with it.
LEMMA HoldersAre ==
  ASSUME NEW o
  PROVE  Holders(o) = Cardinality(Kept(o)) + Cardinality(Flying(o))
BY Zenon DEF Holders, Kept, Flying

LEMMA HoldersAreNext ==
  ASSUME NEW o
  PROVE  Holders(o)' = Cardinality(Kept(o)') + Cardinality(Flying(o)')
BY Zenon DEF Holders, Kept, Flying

\* They are finitely many.
LEMMA HoldersFinite ==
  ASSUME IInv, NEW o
  PROVE  /\ IsFiniteSet(Kept(o)) /\ Cardinality(Kept(o)) \in Nat
         /\ IsFiniteSet(Flying(o)) /\ Cardinality(Flying(o)) \in Nat
<1>1. IsFiniteSet(Callers) /\ next_cap \in Int
  BY CallersAssumption DEF IInv, TablesOK
<1>2. IsFiniteSet(1 .. next_cap)
  BY <1>1, FS_Interval
<1>3. IsFiniteSet(Callers \X (1 .. next_cap))
  BY <1>1, <1>2, FS_Product
<1>4. Kept(o) \in SUBSET (Callers \X (1 .. next_cap))
  <2> SUFFICES ASSUME NEW p \in Kept(o) PROVE p \in Callers \X (1 .. next_cap)
    OBVIOUS
  <2>a1. PICK c \in Callers : \E h \in DOMAIN tables[c] : p = <<c, h>>
    BY KeptPairs
  <2>1. PICK h \in DOMAIN tables[c] : p = <<c, h>>
    BY <2>a1
  <2>2. h \in 1 .. next_cap
    BY DEF IInv, TablesOK
  <2> QED  BY <2>1, <2>2
<1>5. IsFiniteSet(created) /\ Flying(o) \in SUBSET created
  BY Zenon DEF IInv, CreatedOK, LiveEps, Flying
<1>6. IsFiniteSet(Kept(o)) /\ IsFiniteSet(Flying(o))
  BY <1>3, <1>4, <1>5, FS_Subset
<1> QED  BY <1>6, FS_CardinalityType

\* The capability in a touched slot is the one it is set to, and the others
\* stay in flight.
LEMMA TouchedFlying ==
  ASSUME IInv, NEW e \in LiveEps, NEW q, Touched(e, q), created' = created, ep_arena' = ep_arena,
         NEW o
  PROVE  /\ LiveEps' = LiveEps
         /\ e \in Flying(o)' <=> q.cap # NoCap /\ q.cap.object = o
         /\ \A f : f # e => (f \in Flying(o)' <=> f \in Flying(o))
<1>1. LiveEps' = LiveEps
  BY Zenon DEF LiveEps
<1>2. StateOf(e)' = q /\ \A f \in LiveEps : f # e => StateOf(f)' = StateOf(f)
  BY TouchedShows
<1>3. \A f : f \in Flying(o)' <=> f \in LiveEps /\ StateOf(f)'.cap # NoCap /\ StateOf(f)'.cap.object = o
  BY <1>1, Zenon DEF Flying, InFlight
<1>4. \A f : f \in Flying(o) <=> f \in LiveEps /\ StateOf(f).cap # NoCap /\ StateOf(f).cap.object = o
  BY Zenon DEF Flying, InFlight
<1> QED  BY <1>1, <1>2, <1>3, <1>4, Zenon

\* A step that destroys no endpoint and keeps the number of holders loses none.
LEMMA NothingLost ==
  ASSUME IInv, NEW o, LiveEps \subseteq LiveEps', Holders(o)' = Holders(o)
  PROVE  Holders(o) = Holders(o)' + Cardinality(Sunk(o))
<1>1. Sunk(o) = {}
  BY Zenon DEF Sunk
<1>2. Cardinality(Sunk(o)) = 0
  BY <1>1, FS_EmptySet, Zenon
<1>3. PICK k, f : k = Cardinality(Kept(o)) /\ f = Cardinality(Flying(o))
  OBVIOUS
<1>4. k \in Nat /\ f \in Nat /\ Holders(o) = k + f
  BY <1>3, HoldersFinite, HoldersAre, Zenon
<1> QED  BY <1>2, <1>4

\* An accepted send moves the capability from the table into the slot.
LEMMA PutsHolders ==
  ASSUME IInv, NEW c \in Callers, NEW x, NEW e \in LiveEps, Puts(c, x, e),
         NEW d \in Callers, NEW o, o = Token(d)
  PROVE  Holders(o)' = Holders(o)
<1> DEFINE K == Kept(o)
           F == Flying(o)
<1>1. Holders(o) = Cardinality(K) + Cardinality(F)
  BY HoldersAre, Zenon
<1>2. Holders(o)' = Cardinality(Kept(o)') + Cardinality(Flying(o)')
  BY HoldersAreNext, Zenon
<1>3. IsFiniteSet(K) /\ Cardinality(K) \in Nat /\ IsFiniteSet(F) /\ Cardinality(F) \in Nat
  BY HoldersFinite
<1>4. e \notin F
  BY ShownFits, Zenon DEF Puts, Fits, Flying, InFlight
<1>5. PICK cap : cap = Carried(c, x)
  OBVIOUS
<1>6. /\ e \in Flying(o)' <=> cap # NoCap /\ cap.object = o
      /\ \A f : f # e => (f \in Flying(o)' <=> f \in F)
  <2>1. PICK k \in Holding : Touched(e, State(k, NextMsg, Carried(c, x)))
    BY Zenon DEF Puts
  <2>2. PICK q : q = State(k, NextMsg, Carried(c, x))
    OBVIOUS
  <2>3. q.cap = cap
    BY <1>5, <2>2 DEF State
  <2>4. Touched(e, q) /\ created' = created /\ ep_arena' = ep_arena
    BY <2>1, <2>2, Zenon DEF Puts
  <2> HIDE DEF F
  <2>5. /\ e \in Flying(o)' <=> q.cap # NoCap /\ q.cap.object = o
        /\ \A f : f # e => (f \in Flying(o)' <=> f \in Flying(o))
    BY <2>4, TouchedFlying, Zenon
  <2> QED  BY <2>3, <2>5, Zenon DEF F
<1>7. CASE x # NoHandle /\ tables[c][x].object = o
  <2>1. cap # NoCap /\ cap.object = o
    <3>1. tables[c][x].rights \in Grants
      BY <1>7, Zenon DEF Puts, IInv, TablesOK
    <3>2. cap = [rights |-> tables[c][x].rights, object |-> Token(d)]
      BY <1>5, <1>7 DEF Carried
    <3>3. NoCap # [rights |-> tables[c][x].rights, object |-> Token(d)]
      BY <3>1, NoCapAssumption, Zenon DEF Grants
    <3> QED  BY <3>2, <3>3
  <2>2. Flying(o)' = F \cup {e}
    BY <1>6, <2>1, Zenon
  <2>3. /\ x \in DOMAIN tables[c] /\ tables'[c] = [g \in DOMAIN tables[c] \ {x} |-> tables[c][g]]
        /\ \A b \in Callers \ {c} : tables'[b] = tables[b]
    BY <1>7, Zenon DEF Puts, Without, IInv, TablesOK
  <2>4. <<c, x>> \in K
    BY <1>7, <2>3, KeptIs, Zenon
  <2>5. Kept(o)' = K \ {<<c, x>>}
    <3>1. ASSUME NEW p \in Kept(o)' PROVE p \in K \ {<<c, x>>}
      <4>a1. PICK b \in Callers : \E h \in DOMAIN tables'[b] : p = <<b, h>> /\ tables'[b][h].object = o
        BY <3>1, KeptPairsNext, Zenon
      <4>1. PICK h \in DOMAIN tables'[b] : p = <<b, h>> /\ tables'[b][h].object = o
        BY <4>a1
      <4>2. h \in DOMAIN tables[b] /\ tables[b][h].object = o /\ p # <<c, x>>
        BY <2>3, <4>1, Zenon
      <4> QED  BY <4>1, <4>2, KeptIs, Zenon
    <3>2. ASSUME NEW p \in K, p # <<c, x>> PROVE p \in Kept(o)'
      <4>a1. PICK b \in Callers : \E h \in DOMAIN tables[b] : p = <<b, h>> /\ tables[b][h].object = o
        BY <3>2, KeptPairs
      <4>1. PICK h \in DOMAIN tables[b] : p = <<b, h>> /\ tables[b][h].object = o
        BY <4>a1
      <4>2. h \in DOMAIN tables'[b] /\ tables'[b][h].object = o
        BY <2>3, <3>2, <4>1, Zenon
      <4> QED  BY <4>1, <4>2, KeptIsNext, Zenon
    <3> QED  BY <3>1, <3>2
  <2> HIDE DEF K, F
  <2>6. Cardinality(Kept(o)') = Cardinality(K) - 1
    BY <1>3, <2>4, <2>5, FS_RemoveElement, Zenon
  <2>7. Cardinality(Flying(o)') = Cardinality(F) + 1
    BY <1>3, <1>4, <2>2, FS_AddElement, Zenon
  <2> QED  BY <1>1, <1>2, <1>3, <2>6, <2>7
<1>8. CASE ~(x # NoHandle /\ tables[c][x].object = o)
  <2>1. Flying(o)' = F
    <3>1. cap = NoCap \/ cap.object # o
      BY <1>5, <1>8, Zenon DEF Carried
    <3>2. ASSUME NEW f PROVE f \in Flying(o)' <=> f \in F
      <4>1. CASE f = e
        BY <1>4, <1>6, <3>1, <4>1, Zenon
      <4>2. CASE f # e
        BY <1>6, <4>2, Zenon
      <4> QED  BY <4>1, <4>2, Zenon
    <3> QED  BY <3>2, Zenon
  <2>2. Kept(o)' = K
    <3>1. CASE x = NoHandle
      <4>1. tables' = tables
        BY <3>1, Zenon DEF Puts
      <4> QED  BY <4>1, KeptUnchanged, Zenon
    <3>2. CASE x # NoHandle
      <4>1. /\ x \in DOMAIN tables[c] /\ tables'[c] = [g \in DOMAIN tables[c] \ {x} |-> tables[c][g]]
            /\ \A b \in Callers \ {c} : tables'[b] = tables[b] /\ tables[c][x].object # o
        BY <1>8, <3>2, Zenon DEF Puts, Without, IInv, TablesOK
      <4>2. ASSUME NEW b \in Callers, NEW h
            PROVE  h \in DOMAIN tables'[b] /\ tables'[b][h].object = o
                   <=> h \in DOMAIN tables[b] /\ tables[b][h].object = o
        <5>1. CASE b = c
          BY <1>8, <3>2, <4>1, <5>1, Zenon
        <5>2. CASE b # c
          BY <4>1, <5>2, Zenon
        <5> QED  BY <5>1, <5>2, Zenon
      <4> QED  BY <4>2, KeptSame, Zenon
    <3> QED  BY <3>1, <3>2
  <2> QED  BY <1>1, <1>2, <2>1, <2>2
<1> QED  BY <1>7, <1>8

\* A successful receive moves it from the slot into the table.
LEMMA TakesHolders ==
  ASSUME IInv, NEW c \in Callers, NEW e \in LiveEps, Takes(c, e),
         NEW d \in Callers, NEW o, o = Token(d)
  PROVE  Holders(o)' = Holders(o)
<1> DEFINE K == Kept(o)
           F == Flying(o)
<1>1. Holders(o) = Cardinality(K) + Cardinality(F)
  BY HoldersAre, Zenon
<1>2. Holders(o)' = Cardinality(Kept(o)') + Cardinality(Flying(o)')
  BY HoldersAreNext, Zenon
<1>3. IsFiniteSet(K) /\ Cardinality(K) \in Nat /\ IsFiniteSet(F) /\ Cardinality(F) \in Nat
  BY HoldersFinite
<1>4. PICK cap : cap = StateOf(e).cap
  OBVIOUS
<1>5. e \in F <=> cap # NoCap /\ cap.object = o
  BY <1>4, Zenon DEF Flying, InFlight
<1>6. PICK q : q = IdleState
  OBVIOUS
<1>7. Flying(o)' = F \ {e}
  <2>1. Touched(e, q) /\ created' = created /\ ep_arena' = ep_arena /\ q.cap = NoCap
    BY <1>6, Zenon DEF Takes, IdleState, State
  <2>2. /\ e \in Flying(o)' <=> q.cap # NoCap /\ q.cap.object = o
        /\ \A f : f # e => (f \in Flying(o)' <=> f \in Flying(o))
    BY <2>1, TouchedFlying, Zenon
  <2> QED  BY <2>1, <2>2, Zenon
<1>8. CASE cap # NoCap
  <2> DEFINE w == WithRoot(tables[c], next_cap, cap)
  <2>1. /\ tables'[c] = w /\ \A b \in Callers \ {c} : tables'[b] = tables[b]
    BY <1>4, <1>8, Zenon DEF Takes, IInv, TablesOK
  <2>2. next_cap \notin DOMAIN tables[c]
    BY DEF IInv, TablesOK
  <2>3. /\ DOMAIN w = DOMAIN tables[c] \cup {next_cap} /\ w[next_cap].object = cap.object
        /\ \A g \in DOMAIN tables[c] : w[g] = tables[c][g]
    BY <2>2, Zenon DEF WithRoot
  <2> HIDE DEF w
  <2>4. CASE cap.object = o
    <3>1. Kept(o)' = K \cup {<<c, next_cap>>}
      <4>1. ASSUME NEW p \in Kept(o)' PROVE p \in K \cup {<<c, next_cap>>}
        <5>a1. PICK b \in Callers : \E h \in DOMAIN tables'[b] : p = <<b, h>> /\ tables'[b][h].object = o
          BY <4>1, KeptPairsNext, Zenon
        <5>1. PICK h \in DOMAIN tables'[b] : p = <<b, h>> /\ tables'[b][h].object = o
          BY <5>a1
        <5>2. p = <<c, next_cap>> \/ (h \in DOMAIN tables[b] /\ tables[b][h].object = o)
          BY <2>1, <2>3, <5>1, Zenon
        <5> QED  BY <5>1, <5>2, KeptIs, Zenon
      <4>2. ASSUME NEW p \in K PROVE p \in Kept(o)'
        <5>a1. PICK b \in Callers : \E h \in DOMAIN tables[b] : p = <<b, h>> /\ tables[b][h].object = o
          BY <4>2, KeptPairs
        <5>1. PICK h \in DOMAIN tables[b] : p = <<b, h>> /\ tables[b][h].object = o
          BY <5>a1
        <5>2. h \in DOMAIN tables'[b] /\ tables'[b][h].object = o
          BY <2>1, <2>3, <5>1, Zenon
        <5> QED  BY <5>1, <5>2, KeptIsNext, Zenon
      <4>3. <<c, next_cap>> \in Kept(o)'
        <5>1. PICK n : n = next_cap
          OBVIOUS
        <5>2. n \in DOMAIN tables'[c] /\ tables'[c][n].object = o
          BY <2>1, <2>3, <2>4, <5>1, Zenon
        <5> QED  BY <5>1, <5>2, KeptIsNext, Zenon
      <4> QED  BY <4>1, <4>2, <4>3
    <3>2. <<c, next_cap>> \notin K
      BY <2>2, KeptIs
    <3>3. e \in F
      BY <1>5, <1>8, <2>4, Zenon
    <3> HIDE DEF K, F
    <3>4. Cardinality(Kept(o)') = Cardinality(K) + 1
      BY <1>3, <3>1, <3>2, FS_AddElement, Zenon
    <3>5. Cardinality(Flying(o)') = Cardinality(F) - 1
      BY <1>3, <1>7, <3>3, FS_RemoveElement, Zenon
    <3> QED  BY <1>1, <1>2, <1>3, <3>4, <3>5
  <2>5. CASE cap.object # o
    <3>1. ASSUME NEW b \in Callers, NEW h
          PROVE  h \in DOMAIN tables'[b] /\ tables'[b][h].object = o
                 <=> h \in DOMAIN tables[b] /\ tables[b][h].object = o
      <4>1. CASE b = c
        BY <2>1, <2>2, <2>3, <2>5, <4>1, Zenon
      <4>2. CASE b # c
        BY <2>1, <4>2, Zenon
      <4> QED  BY <4>1, <4>2, Zenon
    <3>2. Kept(o)' = K
      BY <3>1, KeptSame, Zenon
    <3>3. Flying(o)' = F
      BY <1>5, <1>7, <2>5, Zenon
    <3> QED  BY <1>1, <1>2, <3>2, <3>3
  <2> QED  BY <2>4, <2>5
<1>9. CASE cap = NoCap
  <2>1. Kept(o)' = K
    <3>1. tables' = tables
      BY <1>4, <1>9, Zenon DEF Takes
    <3> QED  BY <3>1, KeptUnchanged, Zenon
  <2>2. Flying(o)' = F
    BY <1>5, <1>7, <1>9, Zenon
  <2> QED  BY <1>1, <1>2, <2>1, <2>2
<1> QED  BY <1>8, <1>9

\* Any other call leaves it where it is.
LEMMA TouchedHolders ==
  ASSUME IInv, NEW e \in LiveEps, NEW q, Touched(e, q), q.cap = StateOf(e).cap,
         tables' = tables, created' = created, ep_arena' = ep_arena, NEW o
  PROVE  Holders(o)' = Holders(o)
<1>1. e \in Flying(o) <=> q.cap # NoCap /\ q.cap.object = o
  BY Zenon DEF Flying, InFlight
<1>2. /\ e \in Flying(o)' <=> q.cap # NoCap /\ q.cap.object = o
      /\ \A f : f # e => (f \in Flying(o)' <=> f \in Flying(o))
  BY TouchedFlying, Zenon
<1>3. Flying(o)' = Flying(o)
  <2>1. ASSUME NEW f PROVE f \in Flying(o)' <=> f \in Flying(o)
    <3>1. CASE f = e
      BY <1>1, <1>2, <3>1, Zenon
    <3>2. CASE f # e
      BY <1>2, <3>2, Zenon
    <3> QED  BY <3>1, <3>2, Zenon
  <2> QED  BY <2>1, Zenon
<1>4. Kept(o)' = Kept(o)
  BY KeptUnchanged, Zenon
<1> QED  BY <1>3, <1>4, HoldersAre, HoldersAreNext, Zenon

\* A new endpoint shows no message, no capability and no receiver, whatever
\* its slot was used for before.
LEMMA OpensEmpty ==
  ASSUME IInv, NEW e, Opens(e)
  PROVE  /\ LiveEps' = LiveEps \cup {e} /\ e \notin LiveEps
         /\ \A f : StateOf(f)' = StateOf(f)
         /\ StateOf(e).kind \notin Holding \cup {"RecvWaiting"}
         /\ StateOf(e).msg = 0 /\ StateOf(e).cap = NoCap
<1>1. e \in EpIds \ created /\ created' = created \cup {e}
      /\ states' = states /\ slot_generations' = slot_generations
  BY Zenon DEF Opens
<1>2. LiveEps' = LiveEps \cup {e} /\ e \notin LiveEps
  BY <1>1, OpensLive DEF LiveEps
<1>3. \A f : StateOf(f)' = StateOf(f)
  BY <1>1, Zenon DEF StateOf, Stale
<1>4. /\ StateOf(e).kind \notin Holding \cup {"RecvWaiting"}
      /\ StateOf(e).msg = 0 /\ StateOf(e).cap = NoCap
  <2>1. CASE Stale(e)
    BY <2>1, Zenon DEF StateOf, IdleState, State, Holding
  <2>2. CASE ~Stale(e)
    <3>1. e.index \in EpSlots /\ Owner(e.index) = e /\ StateOf(e) = states[e.index]
      BY <1>1, <2>2, Zenon DEF Stale, StateOf, Owner, EpIds
    <3>2. SlotOK(e.index) /\ states[e.index].kind = "Idle"
      BY <1>1, <3>1, Zenon DEF IInv, StatesOK, SlotOK
    <3> QED  BY <3>1, <3>2, Zenon DEF SlotOK, Fits, Holding
  <2> QED  BY <2>1, <2>2
<1> QED  BY <1>2, <1>3, <1>4

\* The capabilities on a new endpoint are on no token, and replace none.
LEMMA OpensKept ==
  ASSUME IInv, NEW e, Opens(e), NEW d \in Callers, NEW o, o = Token(d)
  PROVE  Kept(o)' = Kept(o)
<1>1. EpObject(e) # o
  BY DEF EpObject, Token
<1>2. ASSUME NEW c \in Callers, NEW h
      PROVE  h \in DOMAIN tables'[c] /\ tables'[c][h].object = o
             <=> h \in DOMAIN tables[c] /\ tables[c][h].object = o
  <2>1. CASE tables'[c] = tables[c]
    BY <2>1, Zenon
  <2>2. CASE tables'[c] # tables[c]
    <3>1. PICK n : n = next_cap + c
      OBVIOUS
    <3>a1. PICK r : r = [rights |-> EpRights[c], object |-> EpObject(e)]
      BY Zenon
    <3>a2. r.object = EpObject(e)
      BY <3>a1
    <3>2. tables'[c] = WithRoot(tables[c], n, r)
      BY <2>2, <3>1, <3>a1, Zenon DEF Opens
    <3>3. n \notin DOMAIN tables[c]
      <4>1. c \in Nat
        BY CallersAssumption
      <4>2. TablesOK
        BY Zenon DEF IInv
      <4>3. next_cap \in Nat /\ (n \in DOMAIN tables[c] => n \in 1 .. next_cap - 1)
        BY <4>2 DEF TablesOK
      <4> QED  BY <3>1, <4>1, <4>3
    <3>4. /\ DOMAIN tables'[c] = DOMAIN tables[c] \cup {n} /\ tables'[c][n].object = EpObject(e)
          /\ \A g \in DOMAIN tables[c] : tables'[c][g] = tables[c][g]
      <4> DEFINE w == WithRoot(tables[c], n, r)
      <4>1. /\ DOMAIN w = DOMAIN tables[c] \cup {n} /\ w[n].object = r.object
            /\ \A g \in DOMAIN tables[c] : w[g] = tables[c][g]
        BY <3>3, Zenon DEF WithRoot
      <4> HIDE DEF w
      <4>2. tables'[c] = w
        BY <3>2, Zenon DEF w
      <4> QED  BY <3>a2, <4>1, <4>2, Zenon
    <3> QED  BY <1>1, <3>3, <3>4, Zenon
  <2> QED  BY <2>1, <2>2
<1> QED  BY <1>2, KeptSame, Zenon

\* A new endpoint brings no capability back and loses none.
LEMMA OpensHolders ==
  ASSUME IInv, NEW e, Opens(e), NEW d \in Callers, NEW o, o = Token(d)
  PROVE  Holders(o) = Holders(o)' + Cardinality(Sunk(o))
<1>1. /\ LiveEps' = LiveEps \cup {e} /\ e \notin LiveEps
      /\ \A f : StateOf(f)' = StateOf(f)
      /\ StateOf(e).cap = NoCap
  BY OpensEmpty
<1>2. Flying(o)' = Flying(o)
  <2>1. ASSUME NEW f PROVE f \in Flying(o)' <=> f \in Flying(o)
    <3>1. f \in Flying(o)' <=> f \in LiveEps' /\ StateOf(f)'.cap # NoCap /\ StateOf(f)'.cap.object = o
      BY Zenon DEF Flying, InFlight
    <3>2. f \in Flying(o) <=> f \in LiveEps /\ StateOf(f).cap # NoCap /\ StateOf(f).cap.object = o
      BY Zenon DEF Flying, InFlight
    <3> QED  BY <1>1, <3>1, <3>2, Zenon
  <2> QED  BY <2>1, Zenon
<1>3. Kept(o)' = Kept(o)
  BY OpensKept
<1>4. Holders(o)' = Holders(o)
  BY <1>2, <1>3, HoldersAre, HoldersAreNext, Zenon
<1>5. LiveEps \subseteq LiveEps'
  BY <1>1, Zenon
<1> QED  BY <1>4, <1>5, NothingLost, Zenon

\* What a destroyed endpoint takes from the live ones.
LEMMA ClosesOne ==
  ASSUME IInv, NEW e \in LiveEps, Closes(e), ArenaOK'
  PROVE  /\ LiveEps' = LiveEps \ {e} /\ created' = created /\ tables' = tables
         /\ \A f : StateOf(f)' = StateOf(f)
<1>1. created' = created /\ states' = states /\ slot_generations' = slot_generations
      /\ tables' = tables
  BY Zenon DEF Closes
<1>2. LiveEps' = LiveEps \ {e}
  <2>1. created \subseteq EpIds
    BY Zenon DEF IInv, CreatedOK
  <2> QED  BY <1>1, <2>1, ClosesLive DEF LiveEps
<1>3. \A f : StateOf(f)' = StateOf(f)
  BY <1>1, Zenon DEF StateOf, Stale
<1> QED  BY <1>1, <1>2, <1>3

\* A destroyed endpoint loses the capability in flight in it and no other.
LEMMA ClosesHolders ==
  ASSUME IInv, NEW e \in LiveEps, Closes(e), ArenaOK', NEW o
  PROVE  Holders(o) = Holders(o)' + Cardinality(Sunk(o))
<1>1. LiveEps' = LiveEps \ {e} /\ tables' = tables /\ \A f : StateOf(f)' = StateOf(f)
  BY ClosesOne
<1>2. Flying(o)' = Flying(o) \ {e}
  <2>1. ASSUME NEW f PROVE f \in Flying(o)' <=> f \in Flying(o) \ {e}
    <3>1. f \in Flying(o)' <=> f \in LiveEps' /\ StateOf(f)'.cap # NoCap /\ StateOf(f)'.cap.object = o
      BY Zenon DEF Flying, InFlight
    <3>2. f \in Flying(o) <=> f \in LiveEps /\ StateOf(f).cap # NoCap /\ StateOf(f).cap.object = o
      BY Zenon DEF Flying, InFlight
    <3> QED  BY <1>1, <3>1, <3>2, Zenon
  <2> QED  BY <2>1, Zenon
<1>3. Kept(o)' = Kept(o)
  BY <1>1, KeptUnchanged, Zenon
<1>4. Sunk(o) = Flying(o) \cap {e}
  BY <1>1, Zenon DEF Sunk, Flying
<1>5. PICK k, n, l : k = Cardinality(Kept(o)) /\ n = Cardinality(Flying(o)) /\ l = Cardinality(Sunk(o))
  OBVIOUS
<1>6. k \in Nat /\ n \in Nat /\ IsFiniteSet(Flying(o))
  BY <1>5, HoldersFinite, Zenon
<1>7. Holders(o) = k + n /\ Holders(o)' = k + Cardinality(Flying(o) \ {e})
  BY <1>2, <1>3, <1>5, HoldersAre, HoldersAreNext, Zenon
<1>8. CASE e \in Flying(o)
  <2>1. Cardinality(Flying(o) \ {e}) = n - 1
    BY <1>5, <1>6, <1>8, FS_RemoveElement, Zenon
  <2>2. l = 1
    <3>1. Sunk(o) = {e}
      BY <1>4, <1>8, Zenon
    <3> QED  BY <1>5, <3>1, FS_Singleton, Zenon
  <2> QED  BY <1>5, <1>6, <1>7, <2>1, <2>2
<1>9. CASE e \notin Flying(o)
  <2>1. Cardinality(Flying(o) \ {e}) = n
    <3>1. Flying(o) \ {e} = Flying(o)
      BY <1>9, Zenon
    <3> QED  BY <1>5, <3>1, Zenon
  <2>2. l = 0
    <3>1. Sunk(o) = {}
      BY <1>4, <1>9, Zenon
    <3> QED  BY <1>5, <3>1, FS_EmptySet, Zenon
  <2> QED  BY <1>5, <1>6, <1>7, <2>1, <2>2
<1> QED  BY <1>8, <1>9

\* No send or receive, successful or refused, duplicates a capability or makes
\* one disappear; the destruction of an endpoint loses the one in flight in it
\* and no other, and no later endpoint in its slot brings it back.
THEOREM AuthorityTheorem == Spec => AuthorityConserved
<1> DEFINE A == refused' \/ <<ep_arena, states, slot_generations>>' # <<ep_arena, states, slot_generations>>
                => \A c \in Callers :
                     Holders(Token(c))
                     = Holders(Token(c))' + Cardinality({e \in LiveEps \ LiveEps' : InFlight(e, Token(c))})
<1>1. IInv /\ [Next]_vars => [A]_vars
  <2> SUFFICES ASSUME IInv, Next, NEW d \in Callers,
                      refused' \/ <<ep_arena, states, slot_generations>>'
                                  # <<ep_arena, states, slot_generations>>
               PROVE  Holders(Token(d)) = Holders(Token(d))' + Cardinality(Sunk(Token(d)))
    BY Zenon DEF Sunk
  <2>0. PICK o : o = Token(d)
    OBVIOUS
  <2> DEFINE G == Holders(o) = Holders(o)' + Cardinality(Sunk(o))
  <2>1. ASSUME created' = created, ep_arena' = ep_arena, Holders(o)' = Holders(o) PROVE G
    <3>1. LiveEps' = LiveEps
      BY <2>1, Zenon DEF LiveEps
    <3> QED  BY <2>1, <3>1, NothingLost, Zenon
  <2> HIDE DEF G
  <2>2. ASSUME Refuses PROVE G
    <3>1. created' = created /\ ep_arena' = ep_arena /\ tables' = tables
      BY <2>2, Zenon DEF Refuses
    <3>2. CASE states' = states /\ slot_generations' = slot_generations
      <4>1. Holders(o)' = Holders(o)
        <5>1. Kept(o)' = Kept(o)
          BY <3>1, KeptUnchanged, Zenon
        <5>2. Flying(o)' = Flying(o)
          BY <3>1, <3>2 DEF Flying, LiveEps, InFlight, StateOf, Stale
        <5> QED  BY <5>1, <5>2, HoldersAre, HoldersAreNext, Zenon
      <4> QED  BY <2>1, <3>1, <4>1, Zenon
    <3>3. ASSUME NEW e \in LiveEps, Touched(e, StateOf(e)) PROVE G
      <4>1. Holders(o)' = Holders(o)
        BY <3>1, <3>3, TouchedHolders, Zenon
      <4> QED  BY <2>1, <3>1, <4>1, Zenon
    <3> QED  BY <2>2, <3>2, <3>3, Zenon DEF Refuses
  <2>3. ASSUME NEW c \in Callers, NEW x, NEW e \in LiveEps, Puts(c, x, e) PROVE G
    <3>1. Holders(o)' = Holders(o)
      BY <2>0, <2>3, PutsHolders, Zenon
    <3> QED  BY <2>1, <2>3, <3>1, Zenon DEF Puts
  <2>4. ASSUME NEW c \in Callers, NEW e \in LiveEps, Takes(c, e) PROVE G
    <3>1. Holders(o)' = Holders(o)
      BY <2>0, <2>4, TakesHolders, Zenon
    <3> QED  BY <2>1, <2>4, <3>1, Zenon DEF Takes
  <2>5. ASSUME NEW e \in LiveEps, Registers(e) PROVE G
    <3>1. PICK q : q = State("RecvWaiting", 0, NoCap)
      OBVIOUS
    <3>2. Touched(e, q) /\ q.cap = NoCap /\ StateOf(e).kind = "Idle"
          /\ tables' = tables /\ created' = created /\ ep_arena' = ep_arena
      BY <2>5, <3>1 DEF Registers, State
    <3>3. StateOf(e).cap = NoCap
      BY <3>2, ShownFits, Zenon DEF Fits, Holding
    <3>4. Holders(o)' = Holders(o)
      BY <3>2, <3>3, TouchedHolders, Zenon
    <3> QED  BY <2>1, <3>2, <3>4, Zenon
  <2>6. ASSUME NEW e \in LiveEps, Closes(e), ArenaOK' PROVE G
    BY <2>6, ClosesHolders, Zenon DEF G
  <2>7. ASSUME Opens(FreshId(ep_arena)) PROVE G
    <3>1. PICK e : e = FreshId(ep_arena)
      OBVIOUS
    <3>2. Opens(e)
      BY <2>7, <3>1, Zenon
    <3> QED  BY <2>0, <3>2, OpensHolders, Zenon DEF G
  <2>8. ~Quiet
    BY Zenon DEF Quiet
  <2>9. G
    BY <2>2, <2>3, <2>4, <2>5, <2>6, <2>7, <2>8, StepCases, Zenon
  <2> QED  BY <2>0, <2>9, Zenon DEF G
<1> QED  BY <1>1, AlwaysIInv, PTL DEF Spec, AuthorityConserved

-----------------------------------------------------------------------------
(* Endpoints implement Channels.                                           *)

Box == [e \in LiveEps |-> Mail(e)]
Waiting == {e \in LiveEps : StateOf(e).kind = "RecvWaiting"}
EmptyMail == [msg |-> 0, cap |-> NoCap]

\* An endpoint that holds no message shows an empty box, and one that holds a
\* message does not.
LEMMA BoxIs ==
  ASSUME IInv, NEW e \in LiveEps
  PROVE  /\ Box[e] = Mail(e) /\ DOMAIN Box = LiveEps
         /\ StateOf(e).kind \notin Holding => Mail(e) = EmptyMail
         /\ StateOf(e).kind \in Holding => Mail(e) # EmptyMail
<1>1. Box[e] = Mail(e) /\ DOMAIN Box = LiveEps
  BY DEF Box
<1>2. StateOf(e).kind \notin Holding => Mail(e) = EmptyMail
  BY ShownFits, Zenon DEF Fits, Mail, EmptyMail
<1>3. StateOf(e).kind \in Holding => Mail(e) # EmptyMail
  <2>1. 0 \notin DOMAIN sent
    BY DEF IInv, MessagesOK
  <2> QED  BY <2>1, ShownFits, Zenon DEF Fits, Mail, EmptyMail
<1> QED  BY <1>1, <1>2, <1>3

\* A slot whose state is set changes the box of one endpoint.
LEMMA BoxStep ==
  ASSUME IInv, NEW e \in LiveEps, NEW q, Touched(e, q), created' = created, ep_arena' = ep_arena
  PROVE  /\ LiveEps' = LiveEps /\ DOMAIN Box' = LiveEps /\ DOMAIN Box = LiveEps
         /\ Box' = [Box EXCEPT ![e] = [msg |-> q.msg, cap |-> q.cap]]
         /\ Waiting' = (Waiting \ {e}) \cup (IF q.kind = "RecvWaiting" THEN {e} ELSE {})
<1>1. LiveEps' = LiveEps
  BY DEF LiveEps
<1>2. StateOf(e)' = q /\ \A f \in LiveEps : f # e => StateOf(f)' = StateOf(f)
  BY TouchedShows
<1>3. DOMAIN Box' = LiveEps /\ DOMAIN Box = LiveEps
  BY <1>1 DEF Box
<1>4. Mail(e)' = [msg |-> q.msg, cap |-> q.cap] /\ \A f \in LiveEps : f # e => Mail(f)' = Mail(f)
  BY <1>2, Zenon DEF Mail
<1>5. Box' = [f \in LiveEps |-> IF f = e THEN [msg |-> q.msg, cap |-> q.cap] ELSE Mail(f)]
  <2>1. Box' = [f \in LiveEps |-> Mail(f)']
    BY <1>1 DEF Box
  <2> QED  BY <1>4, <2>1
<1>6. Box' = [Box EXCEPT ![e] = [msg |-> q.msg, cap |-> q.cap]]
  BY <1>5, Zenon DEF Box
<1>7. Waiting' = (Waiting \ {e}) \cup (IF q.kind = "RecvWaiting" THEN {e} ELSE {})
  BY <1>1, <1>2 DEF Waiting
<1> QED  BY <1>1, <1>3, <1>6, <1>7

\* An accepted send puts a message into an empty box.
LEMMA PutsChan ==
  ASSUME IInv, NEW c \in Callers, NEW x, NEW e \in LiveEps, Puts(c, x, e)
  PROVE  Chan!Next
<1>1. PICK cap : cap = Carried(c, x)
  OBVIOUS
<1>2. PICK k \in Holding : Touched(e, State(k, NextMsg, cap))
  BY <1>1, Zenon DEF Puts
<1>3. PICK q : q = State(k, NextMsg, cap)
  OBVIOUS
<1>4. Touched(e, q) /\ q.msg = NextMsg /\ q.cap = cap /\ q.kind # "RecvWaiting"
      /\ created' = created /\ ep_arena' = ep_arena /\ StateOf(e).kind \notin Holding
  BY <1>2, <1>3, Zenon DEF State, Holding, Puts
<1>5. NextMsg # 0
  BY Numbering
<1>6. /\ LiveEps' = LiveEps /\ DOMAIN Box' = LiveEps /\ DOMAIN Box = LiveEps
      /\ Box' = [Box EXCEPT ![e] = [msg |-> q.msg, cap |-> q.cap]]
      /\ Waiting' = (Waiting \ {e}) \cup (IF q.kind = "RecvWaiting" THEN {e} ELSE {})
  BY <1>4, BoxStep, Zenon
<1>7. Box[e] = EmptyMail
  BY <1>4, BoxIs, Zenon
<1>8. Box'[e] = [msg |-> q.msg, cap |-> q.cap] /\ Box'[e] # EmptyMail
  BY <1>4, <1>5, <1>6, Zenon DEF EmptyMail
<1>9. Box' = [Box EXCEPT ![e] = Box'[e]] /\ Waiting' = Waiting \ {e}
  BY <1>4, <1>6, <1>8, Zenon
<1> QED  BY <1>4, <1>6, <1>7, <1>8, <1>9, Zenon
         DEF Chan!Next, Chan!Put, Chan!Opened, Box, Waiting, EmptyMail

\* A successful receive takes the message out of its box.
LEMMA TakesChan ==
  ASSUME IInv, NEW c \in Callers, NEW e \in LiveEps, Takes(c, e)
  PROVE  Chan!Next
<1>1. PICK q : q = IdleState
  OBVIOUS
<1>2. Touched(e, q) /\ q.msg = 0 /\ q.cap = NoCap /\ q.kind # "RecvWaiting"
      /\ created' = created /\ ep_arena' = ep_arena /\ StateOf(e).kind \in Holding
  BY <1>1, Zenon DEF State, IdleState, Takes
<1>3. /\ LiveEps' = LiveEps /\ DOMAIN Box' = LiveEps /\ DOMAIN Box = LiveEps
      /\ Box' = [Box EXCEPT ![e] = [msg |-> q.msg, cap |-> q.cap]]
      /\ Waiting' = (Waiting \ {e}) \cup (IF q.kind = "RecvWaiting" THEN {e} ELSE {})
  BY <1>2, BoxStep, Zenon
<1>4. Box[e] # EmptyMail
  BY <1>2, BoxIs
<1>5. e \notin Waiting
  BY <1>2 DEF Waiting, Holding
<1>6. Box' = [Box EXCEPT ![e] = EmptyMail] /\ Waiting' = Waiting
  BY <1>2, <1>3, <1>5, Zenon DEF EmptyMail
<1> QED  BY <1>2, <1>3, <1>4, <1>6, Zenon
         DEF Chan!Next, Chan!Take, Chan!Opened, Box, Waiting, EmptyMail

\* A receive that finds nothing registers a receiver.
LEMMA RegistersChan ==
  ASSUME IInv, NEW e \in LiveEps, Registers(e)
  PROVE  Chan!Next
<1>1. PICK q : q = State("RecvWaiting", 0, NoCap)
  OBVIOUS
<1>2. Touched(e, q) /\ q.msg = 0 /\ q.cap = NoCap /\ q.kind = "RecvWaiting"
      /\ created' = created /\ ep_arena' = ep_arena /\ StateOf(e).kind = "Idle"
  BY <1>1, Zenon DEF State, Registers
<1>3. /\ LiveEps' = LiveEps /\ DOMAIN Box' = LiveEps /\ DOMAIN Box = LiveEps
      /\ Box' = [Box EXCEPT ![e] = [msg |-> q.msg, cap |-> q.cap]]
      /\ Waiting' = (Waiting \ {e}) \cup (IF q.kind = "RecvWaiting" THEN {e} ELSE {})
  BY <1>2, BoxStep, Zenon
<1>4. Box[e] = EmptyMail /\ e \notin Waiting
  BY <1>2, BoxIs DEF Waiting, Holding
<1>5. Box' = Box
  <2>1. Box = [f \in LiveEps |-> Box[f]]
    BY DEF Box
  <2> QED  BY <1>2, <1>3, <1>4, <2>1, Zenon DEF EmptyMail
<1>6. Waiting' = Waiting \cup {e}
  BY <1>2, <1>3, <1>4, Zenon
<1> QED  BY <1>2, <1>3, <1>4, <1>5, <1>6, Zenon
         DEF Chan!Next, Chan!Wait, Chan!Opened, Box, Waiting, EmptyMail

\* A new endpoint is an empty channel without a receiver, whatever its slot
\* was used for before.
LEMMA OpensChan ==
  ASSUME IInv, NEW e, Opens(e)
  PROVE  Chan!Next
<1>1. e \in EpIds \ created /\ created' = created \cup {e}
  BY Zenon DEF Opens
<1>2. /\ LiveEps' = LiveEps \cup {e} /\ e \notin LiveEps
      /\ \A f : StateOf(f)' = StateOf(f)
      /\ StateOf(e).kind # "RecvWaiting" /\ StateOf(e).msg = 0 /\ StateOf(e).cap = NoCap
  BY OpensEmpty, Zenon
<1>3. \A f : Mail(f)' = Mail(f)
  BY <1>2, Zenon DEF Mail
<1>4. Mail(e) = EmptyMail
  BY <1>2, Zenon DEF Mail, EmptyMail
<1>5. DOMAIN Box = LiveEps /\ DOMAIN Box' = LiveEps \cup {e}
  BY <1>2 DEF Box
<1>6. Box' = [f \in DOMAIN Box \cup {e} |-> IF f = e THEN EmptyMail ELSE Box[f]]
  <2>1. Box' = [f \in LiveEps \cup {e} |-> Mail(f)']
    BY <1>2 DEF Box
  <2>2. \A f \in LiveEps : Box[f] = Mail(f)
    BY DEF Box
  <2> QED  BY <1>2, <1>3, <1>4, <1>5, <2>1, <2>2, Zenon
<1>7. Waiting' = Waiting
  BY <1>2 DEF Waiting
<1>8. e \in DOMAIN Box' \ DOMAIN Box
  BY <1>2, <1>5
<1> QED  BY <1>1, <1>6, <1>7, <1>8, Zenon
         DEF Chan!Next, Chan!Open, Chan!Opened, Box, Waiting, EmptyMail

\* A destroyed endpoint closes its channel and no other.
LEMMA ClosesChan ==
  ASSUME IInv, NEW e \in LiveEps, Closes(e), ArenaOK'
  PROVE  Chan!Next
<1>1. LiveEps' = LiveEps \ {e} /\ created' = created /\ \A f : StateOf(f)' = StateOf(f)
  BY ClosesOne
<1>2. \A f : Mail(f)' = Mail(f)
  BY <1>1, Zenon DEF Mail
<1>3. DOMAIN Box = LiveEps /\ DOMAIN Box' = LiveEps \ {e}
  BY <1>1 DEF Box
<1>4. Box' = [f \in DOMAIN Box \ {e} |-> Box[f]]
  <2>1. Box' = [f \in LiveEps \ {e} |-> Mail(f)']
    BY <1>1 DEF Box
  <2>2. \A f \in LiveEps : Box[f] = Mail(f)
    BY DEF Box
  <2> QED  BY <1>2, <1>3, <2>1, <2>2
<1>5. Waiting' = Waiting \ {e}
  BY <1>1 DEF Waiting
<1>6. e \in DOMAIN Box \ DOMAIN Box'
  BY <1>3, Zenon
<1> QED  BY <1>1, <1>4, <1>5, <1>6, Zenon
         DEF Chan!Next, Chan!Close, Chan!Opened, Box, Waiting, EmptyMail

\* The other steps do not show.
LEMMA StutterChan ==
  ASSUME IInv, Quiet \/ Refuses \/ UNCHANGED vars
  PROVE  UNCHANGED Chan!vars
<1>1. created' = created /\ ep_arena' = ep_arena
  BY DEF Quiet, Refuses, vars, ipc_vars
<1>2. LiveEps' = LiveEps
  BY <1>1 DEF LiveEps
<1>3. ASSUME NEW f \in LiveEps PROVE StateOf(f)' = StateOf(f)
  <2>1. CASE states' = states /\ slot_generations' = slot_generations
    BY <2>1, Zenon DEF StateOf, Stale
  <2>2. ASSUME NEW e \in LiveEps, Touched(e, StateOf(e)) PROVE StateOf(f)' = StateOf(f)
    BY <2>2, TouchedShows
  <2> QED  BY <2>1, <2>2, Zenon DEF Quiet, Refuses, vars, ipc_vars
<1>4. Box' = Box
  <2>1. Box' = [f \in LiveEps |-> Mail(f)'] /\ \A f \in LiveEps : Mail(f)' = Mail(f)
    BY <1>2, <1>3, Zenon DEF Box, Mail
  <2> QED  BY <2>1 DEF Box
<1>5. Waiting' = Waiting
  BY <1>2, <1>3 DEF Waiting
<1> QED  BY <1>1, <1>4, <1>5 DEF Chan!vars, Box, Waiting

\* Endpoints behave as channels of their own: a new one starts empty whatever
\* used its slot before, and a call on one leaves all others as they were.
THEOREM ChannelsTheorem == Spec => RefinesChannels
<1>1. Init => Chan!Init
  <2> SUFFICES ASSUME Init PROVE Chan!Init
    OBVIOUS
  <2>1. created = {} /\ LiveEps = {}
    BY Zenon DEF Init, LiveEps
  <2> QED  BY <2>1, Zenon DEF Chan!Init
<1>2. IInv /\ [Next]_vars => [Chan!Next]_(Chan!vars)
  <2> SUFFICES ASSUME IInv, [Next]_vars PROVE Chan!Next \/ UNCHANGED Chan!vars
    OBVIOUS
  <2>1. CASE UNCHANGED vars
    BY <2>1, StutterChan
  <2>2. CASE Next
    BY <2>2, StepCases, StutterChan, PutsChan, TakesChan, RegistersChan, OpensChan, ClosesChan,
       Zenon
  <2> QED  BY <2>1, <2>2
<1> QED  BY <1>1, <1>2, AlwaysIInv, PTL DEF Spec, RefinesChannels, Chan!Spec
=============================================================================
