-------------------------- MODULE Endpoints_proofs --------------------------
(***************************************************************************)
(* Endpoints are correct channels for every number of callers, endpoint    *)
(* slots, table slots and messages, while slots are reused: messages are   *)
(* neither lost nor received twice, and refused calls change nothing.      *)
(* EndpointsMoves_proofs goes on from here.                                *)
(***************************************************************************)
EXTENDS Endpoints, Threads_proofs, FiniteSetTheorems

EpIds == [index : EpSlots, generation : 0 .. GenModulus - 1]

\* The endpoint that last used the state of slot s.
Owner(s) == [index |-> s, generation |-> slot_generations[s]]

\* What a capability may name: the token of a caller, or an endpoint that was
\* created (and may be gone).
Tokens == {Token(c) : c \in Callers}
Named == Tokens \cup {EpObject(e) : e \in created}

\* What rights a capability may carry.
Grants == {EpRights[c] : c \in Callers} \cup {{"TRANSFER", "DERIVE"}}

\* The arena of endpoints: its parts, and a free list that threads exactly the
\* free slots.
Parts(a) ==
  /\ LiveSlots(a) \subseteq EpSlots
  /\ a.generation \in [EpSlots -> 0 .. GenModulus - 1]
  /\ a.next_free \in [EpSlots -> EpSlots \cup {None}]
  /\ a.free_head \in EpSlots \cup {None}
FreeListOK(a, stamp, clock) ==
  /\ stamp \in [EpSlots -> Nat] /\ clock \in Nat
  /\ \A s \in EpSlots : stamp[s] < clock
  /\ Threaded(EpSlots \ LiveSlots(a), a.free_head, a.next_free, stamp)
ArenaOK ==
  /\ Parts(ep_arena)
  /\ \E stamp \in [EpSlots -> Nat], clock \in Nat : FreeListOK(ep_arena, stamp, clock)

\* The endpoints created in a slot are of its earlier generations, and of the
\* present one while it lives: a fresh id is new.  There are more of them than
\* the slot's generation says, so generations do not wrap.
CreatedOK ==
  /\ created \subseteq EpIds /\ IsFiniteSet(created) /\ Cardinality(created) \in 0 .. MaxCreated
  /\ \A s \in EpSlots :
       /\ ep_arena.generation[s] =< Cardinality(created)
       /\ s \in LiveSlots(ep_arena) => ep_arena.generation[s] < Cardinality(created)
  /\ \A e \in created :
       /\ e.generation =< ep_arena.generation[e.index]
       /\ e.generation = ep_arena.generation[e.index] => e.index \in LiveSlots(ep_arena)

\* Handles are in the past; parents are in the same table; every capability
\* names something that exists or existed.
TablesOK ==
  /\ next_cap \in Nat \ {0} /\ DOMAIN tables = Callers
  /\ \A c \in Callers : \A h \in DOMAIN tables[c] :
       /\ h \in 1 .. next_cap - 1
       /\ tables[c][h].parent \in {NoParent} \cup DOMAIN tables[c]
       /\ tables[c][h].object \in Named /\ tables[c][h].rights \in Grants

\* What the state q may be, of an endpoint e: it has a message exactly when it
\* is Holding, one that was sent to e and not received, and a capability only
\* with a message.
Fits(e, q) ==
  /\ q.kind \in Kinds
  /\ IF q.kind \in Holding
     THEN q.msg \in DOMAIN sent \ DOMAIN collected /\ sent[q.msg].ep = e
     ELSE q.msg = 0 /\ q.cap = NoCap
  /\ q.cap # NoCap => q.cap.object \in Named /\ q.cap.rights \in Grants

\* The state of a slot belongs to the endpoint that last used it, which may be
\* gone by now.
SlotOK(s) ==
  /\ Fits(Owner(s), states[s])
  /\ states[s].kind # "Idle" => Owner(s) \in created
StatesOK ==
  /\ DOMAIN states = EpSlots /\ slot_generations \in [EpSlots -> 0 .. GenModulus - 1]
  /\ \A s \in EpSlots : SlotOK(s)

\* Messages are numbered from 1, each received at most once and through the
\* endpoint it was sent to, and parked there until then while it lives.
Waits(m) == StateOf(sent[m].ep).kind \in Holding /\ StateOf(sent[m].ep).msg = m
MessagesOK ==
  /\ \E n \in Nat : DOMAIN sent = 1 .. n
  /\ DOMAIN collected \subseteq DOMAIN sent
  /\ \A m \in DOMAIN sent :
       /\ sent[m].ep \in created
       /\ m \in DOMAIN collected => collected[m] = <<sent[m].ep>>
       /\ Contains(ep_arena, sent[m].ep) /\ m \notin DOMAIN collected => Waits(m)

IInv == ArenaOK /\ CreatedOK /\ TablesOK /\ StatesOK /\ MessagesOK

-----------------------------------------------------------------------------
(* The arena.                                                              *)

\* Generations do not wrap while the bound on the endpoints holds.
LEMMA NextGeneration ==
  ASSUME NEW g \in Nat, g + 1 < GenModulus
  PROVE  (g + 1) % GenModulus = g + 1 /\ g + 1 \in 0 .. GenModulus - 1
BY GenAssumption, Z3

\* create_endpoint takes a slot that was free: the id it returns is new.
LEMMA AllocateEffect ==
  ASSUME ArenaOK, ep_arena.free_head # None, ep_arena' = Allocate(ep_arena, "endpoint")
  PROVE  /\ ArenaOK' /\ ep_arena.free_head \in EpSlots \ LiveSlots(ep_arena)
         /\ ep_arena'.generation = ep_arena.generation
         /\ LiveSlots(ep_arena') = LiveSlots(ep_arena) \cup {ep_arena.free_head}
<1> DEFINE h == ep_arena.free_head
           F == EpSlots \ LiveSlots(ep_arena)
<1>1. PICK stamp \in [EpSlots -> Nat], clock \in Nat : FreeListOK(ep_arena, stamp, clock)
  BY DEF ArenaOK
<1>2. Threaded(F, h, ep_arena.next_free, stamp) /\ \A s \in EpSlots : stamp[s] < clock
  BY <1>1 DEF FreeListOK
<1>3. /\ LiveSlots(ep_arena) \subseteq EpSlots
      /\ ep_arena.generation \in [EpSlots -> 0 .. GenModulus - 1]
      /\ ep_arena.next_free \in [EpSlots -> EpSlots \cup {None}]
  BY DEF ArenaOK, Parts
<1>4. None \notin F /\ None \notin EpSlots
  BY DEF None, EpSlots
<1>5. h \in F
  BY <1>2, <1>4, ThreadedHead
<1>6. /\ ep_arena'.entry = [s \in LiveSlots(ep_arena) \cup {h} |-> IF s = h THEN "endpoint" ELSE ep_arena.entry[s]]
      /\ ep_arena'.generation = ep_arena.generation
      /\ ep_arena'.next_free = [ep_arena.next_free EXCEPT ![h] = None]
      /\ ep_arena'.free_head = ep_arena.next_free[h]
  BY DEF Allocate
<1>7. LiveSlots(ep_arena') = LiveSlots(ep_arena) \cup {h}
  BY <1>6 DEF LiveSlots
<1>8. Parts(ep_arena')
  BY <1>3, <1>5, <1>6, <1>7 DEF Parts
<1>9. FreeListOK(ep_arena', stamp, clock)
  <2>1. Threaded(F \ {h}, ep_arena.next_free[h], ep_arena.next_free, stamp)
    <3>1. \A s \in F : stamp[s] \in Int
      BY <1>1
    <3> QED  BY <1>2, <1>5, <3>1, ThreadedPop, ZenonT(30)
  <2>2. \A s \in F \ {h} : ep_arena'.next_free[s] = ep_arena.next_free[s]
    BY <1>3, <1>6
  <2>3. EpSlots \ LiveSlots(ep_arena') = F \ {h}
    BY <1>7
  <2> HIDE DEF F, h
  <2>4. Threaded(F \ {h}, ep_arena.next_free[h], ep_arena'.next_free, stamp)
    BY <2>1, <2>2, ThreadedFrame
  <2> QED  BY <1>1, <1>2, <1>6, <2>3, <2>4, Zenon DEF FreeListOK
<1> QED  BY <1>5, <1>6, <1>7, <1>8, <1>9 DEF ArenaOK

\* destroy_endpoint gives the slot back, under the next generation.
LEMMA ReleaseEffect ==
  ASSUME ArenaOK, NEW e \in EpIds, Contains(ep_arena, e), e.generation + 1 < GenModulus,
         ep_arena' = Release(ep_arena, e)
  PROVE  /\ ArenaOK'
         /\ LiveSlots(ep_arena') = LiveSlots(ep_arena) \ {e.index}
         /\ ep_arena'.generation[e.index] = e.generation + 1
         /\ \A s \in EpSlots \ {e.index} : ep_arena'.generation[s] = ep_arena.generation[s]
<1> DEFINE i == e.index
           F == EpSlots \ LiveSlots(ep_arena)
<1>1. PICK stamp \in [EpSlots -> Nat], clock \in Nat : FreeListOK(ep_arena, stamp, clock)
  BY DEF ArenaOK
<1>2. /\ Threaded(F, ep_arena.free_head, ep_arena.next_free, stamp)
      /\ \A s \in EpSlots : stamp[s] < clock
  BY <1>1 DEF FreeListOK
<1>3. /\ LiveSlots(ep_arena) \subseteq EpSlots
      /\ ep_arena.generation \in [EpSlots -> 0 .. GenModulus - 1]
      /\ ep_arena.next_free \in [EpSlots -> EpSlots \cup {None}]
      /\ ep_arena.free_head \in EpSlots \cup {None}
  BY DEF ArenaOK, Parts
<1>4. None \notin F /\ None \notin EpSlots
  BY DEF None, EpSlots
<1>5. i \in LiveSlots(ep_arena) /\ i \in EpSlots /\ i \notin F
      /\ ep_arena.generation[i] = e.generation /\ e.generation \in Nat
  BY <1>3 DEF Contains, EpIds
<1>6. /\ ep_arena'.entry = [s \in LiveSlots(ep_arena) \ {i} |-> ep_arena.entry[s]]
      /\ ep_arena'.generation = [ep_arena.generation EXCEPT ![i] = (ep_arena.generation[i] + 1) % GenModulus]
      /\ ep_arena'.next_free = [ep_arena.next_free EXCEPT ![i] = ep_arena.free_head]
      /\ ep_arena'.free_head = i
  BY DEF Release
<1>7. LiveSlots(ep_arena') = LiveSlots(ep_arena) \ {i}
  BY <1>6 DEF LiveSlots
<1>8. /\ (ep_arena.generation[i] + 1) % GenModulus = e.generation + 1
      /\ e.generation + 1 \in 0 .. GenModulus - 1
  BY <1>5, NextGeneration
<1>9. /\ ep_arena'.generation \in [EpSlots -> 0 .. GenModulus - 1]
      /\ ep_arena'.generation[i] = e.generation + 1
      /\ \A s \in EpSlots \ {i} : ep_arena'.generation[s] = ep_arena.generation[s]
  BY <1>3, <1>5, <1>6, <1>8
<1>10. Parts(ep_arena')
  BY <1>3, <1>5, <1>6, <1>7, <1>9 DEF Parts
<1>11. \E st \in [EpSlots -> Nat], ck \in Nat : FreeListOK(ep_arena', st, ck)
  <2> DEFINE st == [stamp EXCEPT ![i] = clock]
  <2>1. st \in [EpSlots -> Nat] /\ st[i] = clock /\ \A s \in EpSlots \ {i} : st[s] = stamp[s]
    BY <1>5
  <2>2. clock + 1 \in Nat /\ \A s \in EpSlots : st[s] < clock + 1
    BY <1>2, <2>1
  <2>3. \A s \in F : /\ ep_arena'.next_free[s] = ep_arena.next_free[s]
                     /\ st[s] = stamp[s] /\ stamp[s] < st[i] /\ stamp[s] \in Int
    BY <1>2, <1>3, <1>5, <1>6, <2>1
  <2>4. ep_arena'.next_free[i] = ep_arena.free_head /\ st[i] \in Int
    BY <1>3, <1>5, <1>6, <2>1
  <2>5. EpSlots \ LiveSlots(ep_arena') = F \cup {i}
    BY <1>3, <1>5, <1>7
  <2> HIDE DEF F, i, st
  <2>6. Threaded(F \cup {i}, i, ep_arena'.next_free, st)
    BY <1>2, <1>4, <1>5, <2>3, <2>4, ThreadedPush
  <2>7. FreeListOK(ep_arena', st, clock + 1)
    BY <1>6, <2>1, <2>2, <2>5, <2>6, Zenon DEF FreeListOK
  <2> QED  BY <2>1, <2>2, <2>7
<1> QED  BY <1>7, <1>9, <1>10, <1>11 DEF ArenaOK

-----------------------------------------------------------------------------
(* What the IPC calls do.                                                  *)

\* The state of the slot of e is set to q.
Touched(e, q) ==
  /\ DOMAIN states' = EpSlots /\ slot_generations' \in [EpSlots -> 0 .. GenModulus - 1]
  /\ states'[e.index] = q /\ slot_generations'[e.index] = e.generation
  /\ \A i \in EpSlots \ {e.index} :
       states'[i] = states[i] /\ slot_generations'[i] = slot_generations[i]

\* ipc_send by c is accepted at e, with the capability x.
Puts(c, x, e) ==
  /\ StateOf(e).kind \notin Holding
  /\ \E k \in Holding : Touched(e, State(k, NextMsg, Carried(c, x)))
  /\ IF x = NoHandle THEN tables' = tables
     ELSE /\ x \in DOMAIN tables[c] /\ ~HasChildren(c, x)
          /\ tables' = [tables EXCEPT ![c] = Without(@, x)]
  /\ sent' = [m \in DOMAIN sent \cup {NextMsg} |->
                IF m = NextMsg THEN [ep |-> e, cap |-> Carried(c, x)] ELSE sent[m]]
  /\ refused' = FALSE /\ ep_arena' = ep_arena /\ next_cap' = next_cap
  /\ created' = created /\ collected' = collected

\* ipc_recv by c collects the message at e, and the capability with it.
Takes(c, e) ==
  /\ StateOf(e).kind \in Holding /\ Touched(e, IdleState)
  /\ IF StateOf(e).cap = NoCap THEN tables' = tables /\ next_cap' = next_cap
     ELSE /\ tables' = [tables EXCEPT ![c] = WithRoot(@, next_cap, StateOf(e).cap)]
          /\ next_cap' = next_cap + 1
  /\ collected' = [m \in DOMAIN collected \cup {StateOf(e).msg} |->
       IF m # StateOf(e).msg THEN collected[m]
       ELSE IF m \in DOMAIN collected THEN Append(collected[m], e) ELSE <<e>>]
  /\ refused' = FALSE /\ ep_arena' = ep_arena /\ created' = created /\ sent' = sent

\* ipc_recv finds nothing at e and registers there.
Registers(e) ==
  /\ StateOf(e).kind = "Idle" /\ Touched(e, State("RecvWaiting", 0, NoCap))
  /\ refused' = FALSE /\ ep_arena' = ep_arena /\ tables' = tables /\ next_cap' = next_cap
  /\ created' = created /\ sent' = sent /\ collected' = collected

\* An error return, before or after the state of an endpoint was looked at.
Refuses ==
  /\ \/ states' = states /\ slot_generations' = slot_generations
     \/ \E e \in LiveEps : Touched(e, StateOf(e))
  /\ refused' = TRUE /\ ep_arena' = ep_arena /\ tables' = tables /\ next_cap' = next_cap
  /\ created' = created /\ sent' = sent /\ collected' = collected

\* Endpoints that were created are ids; two that live do not share a slot.
LEMMA LiveIds ==
  ASSUME IInv
  PROVE  /\ LiveEps \subseteq EpIds /\ LiveEps \subseteq created
         /\ \A e, f \in LiveEps : e.index = f.index => e = f
BY DEF IInv, CreatedOK, LiveEps, Contains, EpIds

\* set_state touches one slot.
LEMMA SetStateTouches ==
  ASSUME IInv, NEW e \in LiveEps, NEW q, SetState(e, q)
  PROVE  Touched(e, q)
<1>1. e.index \in EpSlots /\ e.generation \in 0 .. GenModulus - 1
  BY LiveIds DEF EpIds
<1> QED  BY <1>1 DEF SetState, Touched, IInv, StatesOK

\* The other endpoints are left alone.
LEMMA TouchedShows ==
  ASSUME IInv, NEW e \in LiveEps, NEW q, Touched(e, q)
  PROVE  /\ StateOf(e)' = q
         /\ \A f \in LiveEps : f # e => StateOf(f)' = StateOf(f)
<1>1. StateOf(e)' = q
  BY DEF Touched, StateOf, Stale
<1>2. ASSUME NEW f \in LiveEps, f # e PROVE StateOf(f)' = StateOf(f)
  <2>1. f.index \in EpSlots \ {e.index}
    BY <1>2, LiveIds DEF EpIds
  <2> QED  BY <2>1 DEF Touched, StateOf, Stale
<1> QED  BY <1>1, <1>2

\* What a live endpoint shows fits it.
LEMMA ShownFits ==
  ASSUME IInv, NEW e \in LiveEps
  PROVE  Fits(e, StateOf(e))
<1>1. e.index \in EpSlots /\ e = [index |-> e.index, generation |-> e.generation]
  BY LiveIds DEF EpIds
<1>2. CASE Stale(e)
  BY <1>2 DEF StateOf, Fits, IdleState, State, Holding, Kinds
<1>3. CASE ~Stale(e)
  <2>1. Owner(e.index) = e /\ StateOf(e) = states[e.index]
    BY <1>1, <1>3 DEF Owner, Stale, StateOf
  <2> QED  BY <1>1, <2>1 DEF IInv, StatesOK, SlotOK
<1> QED  BY <1>2, <1>3

\* ipc_send is accepted at a live endpoint or changes nothing.
LEMMA SendCases ==
  ASSUME IInv, NEW c \in Callers, NEW h \in HandlesOf(c), NEW x, Send(c, h, x)
  PROVE  Refuses \/ \E e \in LiveEps : Puts(c, x, e)
<1> DEFINE out == SendOutcome(c, h, x)
<1>1. PICK e : e = Ep(c, h)
  OBVIOUS
<1>2. /\ ep_arena' = ep_arena /\ next_cap' = next_cap /\ created' = created /\ collected' = collected
      /\ refused' = (out \notin Accepted)
      /\ tables' = IF out \in Accepted /\ x # NoHandle
                   THEN [tables EXCEPT ![c] = Without(@, x)] ELSE tables
      /\ sent' = IF out \notin Accepted THEN sent
                 ELSE [m \in DOMAIN sent \cup {NextMsg} |->
                        IF m = NextMsg THEN [ep |-> e, cap |-> Carried(c, x)] ELSE sent[m]]
  BY <1>1 DEF Send, IpcSend
<1>3. CASE SendCheck(c, h, x) # "Ok"
  <2>1. states' = states /\ slot_generations' = slot_generations
    BY <1>3 DEF Send, IpcSend
  <2>2. out \notin Accepted
    BY <1>3 DEF SendOutcome, SendCheck, Accepted
  <2> QED  BY <1>2, <2>1, <2>2, Zenon DEF Refuses
<1>4. CASE SendCheck(c, h, x) = "Ok"
  <2>1. e \in LiveEps
    <3>1. ValidEp(c, h, "SEND") /\ Contains(ep_arena, e)
      BY <1>1, <1>4 DEF SendCheck
    <3>2. tables[c][h].object \in Named /\ tables[c][h].object.kind = "Endpoint"
      BY <3>1 DEF ValidEp, Has, IInv, TablesOK
    <3>3. e \in created
      BY <1>1, <3>2 DEF Named, Tokens, Token, EpObject, Ep
    <3> QED  BY <3>1, <3>3 DEF LiveEps
  <2>2. x # NoHandle => x \in DOMAIN tables[c]
    BY <1>4 DEF SendCheck, Has
  <2>3. CASE out = "Delivered"
    <3>1. StateOf(e).kind \notin Holding /\ (x # NoHandle => ~HasChildren(c, x))
      BY <1>1, <1>4, <2>3 DEF SendOutcome
    <3>2. SetState(e, State("RecvComplete", NextMsg, Carried(c, x)))
      BY <1>1, <1>4, <2>3 DEF Send, IpcSend
    <3>3. Touched(e, State("RecvComplete", NextMsg, Carried(c, x)))
      BY <2>1, <3>2, SetStateTouches
    <3>4. "RecvComplete" \in Holding /\ out \in Accepted
      BY <2>3 DEF Holding, Accepted
    <3> HIDE DEF out
    <3> QED  BY <1>2, <2>1, <2>2, <3>1, <3>3, <3>4, Zenon DEF Puts
  <2>4. CASE out = "Enqueued"
    <3>1. StateOf(e).kind \notin Holding /\ (x # NoHandle => ~HasChildren(c, x))
      BY <1>1, <1>4, <2>4 DEF SendOutcome
    <3>2. SetState(e, State("SendPending", NextMsg, Carried(c, x)))
      BY <1>1, <1>4, <2>4 DEF Send, IpcSend
    <3>3. Touched(e, State("SendPending", NextMsg, Carried(c, x)))
      BY <2>1, <3>2, SetStateTouches
    <3>4. "SendPending" \in Holding /\ out \in Accepted
      BY <2>4 DEF Holding, Accepted
    <3> HIDE DEF out
    <3> QED  BY <1>2, <2>1, <2>2, <3>1, <3>3, <3>4, Zenon DEF Puts
  <2>5. CASE out \notin Accepted
    <3>1. SetState(e, StateOf(e))
      BY <1>1, <1>4, <2>5 DEF Send, IpcSend, Accepted
    <3>2. Touched(e, StateOf(e))
      BY <2>1, <3>1, SetStateTouches
    <3> HIDE DEF out
    <3> QED  BY <1>2, <2>1, <2>5, <3>2, Zenon DEF Refuses
  <2> QED  BY <2>3, <2>4, <2>5 DEF Accepted
<1> QED  BY <1>3, <1>4

\* ipc_recv collects at a live endpoint, registers there or changes nothing.
LEMMA RecvCases ==
  ASSUME IInv, NEW c \in Callers, NEW h \in HandlesOf(c), Recv(c, h)
  PROVE  Refuses \/ \E e \in LiveEps : Takes(c, e) \/ Registers(e)
<1> DEFINE out == RecvOutcome(c, h)
<1>1. PICK e : e = Ep(c, h)
  OBVIOUS
<1>2. RecvResult(c, h) = out
  BY DEF RecvResult, Lost, RecvOutcome, RecvCheck
<1>3. /\ ep_arena' = ep_arena /\ created' = created /\ sent' = sent
      /\ refused' = (out \notin {"Received", "Pending"})
      /\ tables' = IF out = "Received" /\ StateOf(e).cap # NoCap
                   THEN [tables EXCEPT ![c] = WithRoot(@, next_cap, StateOf(e).cap)] ELSE tables
      /\ next_cap' = IF out = "Received" /\ StateOf(e).cap # NoCap THEN next_cap + 1 ELSE next_cap
      /\ collected' = IF out # "Received" THEN collected
                      ELSE [m \in DOMAIN collected \cup {StateOf(e).msg} |->
                             IF m # StateOf(e).msg THEN collected[m]
                             ELSE IF m \in DOMAIN collected THEN Append(collected[m], e) ELSE <<e>>]
  BY <1>1, <1>2 DEF Recv, IpcRecv
<1>4. CASE RecvCheck(c, h) # "Ok"
  <2>1. states' = states /\ slot_generations' = slot_generations
    BY <1>4 DEF Recv, IpcRecv
  <2>2. out \notin {"Received", "Pending"}
    BY <1>4 DEF RecvOutcome, RecvCheck
  <2> QED  BY <1>3, <2>1, <2>2, Zenon DEF Refuses
<1>5. CASE RecvCheck(c, h) = "Ok"
  <2>1. e \in LiveEps
    <3>1. ValidEp(c, h, "RECV") /\ Contains(ep_arena, e)
      BY <1>1, <1>5 DEF RecvCheck
    <3>2. tables[c][h].object \in Named /\ tables[c][h].object.kind = "Endpoint"
      BY <3>1 DEF ValidEp, Has, IInv, TablesOK
    <3>3. e \in created
      BY <1>1, <3>2 DEF Named, Tokens, Token, EpObject, Ep
    <3> QED  BY <3>1, <3>3 DEF LiveEps
  <2>2. CASE out = "Received"
    <3>1. StateOf(e).kind \in Holding
      BY <1>1, <1>5, <2>2 DEF RecvOutcome
    <3>2. SetState(e, IdleState)
      BY <1>1, <1>5, <2>2 DEF Recv, IpcRecv
    <3>3. Touched(e, IdleState)
      BY <2>1, <3>2, SetStateTouches
    <3>4. Takes(c, e)
      BY <1>3, <2>2, <3>1, <3>3, Zenon DEF Takes
    <3> QED  BY <2>1, <3>4
  <2>3. CASE out = "Pending"
    <3>1. StateOf(e).kind = "Idle"
      BY <1>1, <1>5, <2>3 DEF RecvOutcome
    <3>2. SetState(e, State("RecvWaiting", 0, NoCap))
      BY <1>1, <1>5, <2>3 DEF Recv, IpcRecv
    <3>3. Touched(e, State("RecvWaiting", 0, NoCap))
      BY <2>1, <3>2, SetStateTouches
    <3>4. Registers(e)
      BY <1>3, <2>3, <3>1, <3>3, Zenon DEF Registers
    <3> QED  BY <2>1, <3>4
  <2>4. CASE out \notin {"Received", "Pending"}
    <3>1. SetState(e, StateOf(e))
      BY <1>1, <1>5, <2>4 DEF Recv, IpcRecv
    <3>2. Touched(e, StateOf(e))
      BY <2>1, <3>1, SetStateTouches
    <3> HIDE DEF out
    <3> QED  BY <1>3, <2>1, <2>4, <3>2, Zenon DEF Refuses
  <2> QED  BY <2>2, <2>3, <2>4
<1> QED  BY <1>4, <1>5

-----------------------------------------------------------------------------
(* Every step preserves the invariant.                                     *)

\* The next message number is new.
LEMMA Numbering ==
  ASSUME IInv
  PROVE  \E n \in Nat : DOMAIN sent = 1 .. n /\ NextMsg = n + 1
<1>1. PICK n \in Nat : DOMAIN sent = 1 .. n
  BY DEF IInv, MessagesOK
<1>2. Cardinality(1 .. n) = n
  BY FS_Interval
<1> QED  BY <1>1, <1>2 DEF NextMsg

\* The states after one slot is touched.
LEMMA TouchedStates ==
  ASSUME IInv, NEW e \in LiveEps, NEW q, Touched(e, q), Fits(e, q)',
         ep_arena' = ep_arena, created' = created,
         \A m \in DOMAIN sent : m \in DOMAIN sent' /\ sent'[m].ep = sent[m].ep,
         \A i \in EpSlots \ {e.index} :
           states[i].kind \in Holding => states[i].msg \notin DOMAIN collected'
  PROVE  StatesOK'
<1>1. /\ e.index \in EpSlots /\ e = [index |-> e.index, generation |-> e.generation]
      /\ e \in created /\ Contains(ep_arena, e)
  BY LiveIds DEF EpIds, LiveEps
<1>2. SlotOK(e.index)'
  <2>1. Owner(e.index)' = e /\ states'[e.index] = q
    BY <1>1 DEF Owner, Touched
  <2> QED  BY <1>1, <2>1 DEF SlotOK
<1>3. ASSUME NEW i \in EpSlots \ {e.index} PROVE SlotOK(i)'
  <2>1. Owner(i)' = Owner(i) /\ states'[i] = states[i]
    BY DEF Owner, Touched
  <2>2. SlotOK(i)
    BY DEF IInv, StatesOK
  <2>3. Fits(Owner(i), states[i])
    BY <2>2 DEF SlotOK
  <2>4. Fits(Owner(i), states[i])'
    BY <2>1, <2>3, Zenon DEF Fits, Named
  <2> QED  BY <2>1, <2>2, <2>4 DEF SlotOK
<1> QED  BY <1>2, <1>3 DEF StatesOK, Touched

\* The messages after a step that collects and adds none.
LEMMA TouchedMessages ==
  ASSUME IInv, NEW e \in LiveEps, NEW q, Touched(e, q), ep_arena' = ep_arena,
         created' = created, sent' = sent, collected' = collected,
         StateOf(e).kind \in Holding => q = StateOf(e)
  PROVE  MessagesOK'
<1>1. ASSUME NEW m \in DOMAIN sent, Contains(ep_arena, sent[m].ep), m \notin DOMAIN collected
      PROVE  Waits(m)'
  <2>1. sent[m].ep \in LiveEps /\ Waits(m)
    BY <1>1 DEF IInv, MessagesOK, LiveEps
  <2>2. StateOf(sent[m].ep)' = StateOf(sent[m].ep)
    <3>1. CASE sent[m].ep = e
      BY <2>1, <3>1, TouchedShows DEF Waits
    <3>2. CASE sent[m].ep # e
      BY <2>1, <3>2, TouchedShows
    <3> QED  BY <3>1, <3>2
  <2> QED  BY <2>1, <2>2 DEF Waits
<1> QED  BY <1>1, Zenon DEF IInv, MessagesOK

\* An error return.
LEMMA RefusesIInv ==
  ASSUME IInv, Refuses
  PROVE  IInv'
<1>1. /\ ep_arena' = ep_arena /\ tables' = tables /\ next_cap' = next_cap
      /\ created' = created /\ sent' = sent /\ collected' = collected
  BY DEF Refuses
<1>2. ArenaOK' /\ CreatedOK' /\ TablesOK'
  BY <1>1, Zenon DEF IInv, ArenaOK, CreatedOK, TablesOK, Named
<1>3. CASE states' = states /\ slot_generations' = slot_generations
  <2>1. StatesOK'
    BY <1>1, <1>3 DEF IInv, StatesOK, SlotOK, Fits, Owner, Named
  <2>2. MessagesOK'
    BY <1>1, <1>3, Zenon DEF IInv, MessagesOK, Waits, StateOf, Stale
  <2> QED  BY <1>2, <2>1, <2>2 DEF IInv
<1>4. ASSUME NEW e \in LiveEps, Touched(e, StateOf(e)) PROVE IInv'
  <2>1. PICK q : q = StateOf(e)
    OBVIOUS
  <2>2. Touched(e, q) /\ Fits(e, q)
    BY <1>4, <2>1, ShownFits
  <2>3. Fits(e, q)'
    BY <1>1, <2>2 DEF Fits, Named
  <2>4. \A i \in EpSlots \ {e.index} :
          states[i].kind \in Holding => states[i].msg \notin DOMAIN collected'
    BY <1>1 DEF IInv, StatesOK, SlotOK, Fits
  <2>5. StatesOK'
    BY <1>1, <2>2, <2>3, <2>4, TouchedStates
  <2>6. MessagesOK'
    BY <1>1, <2>1, <2>2, TouchedMessages
  <2> QED  BY <1>2, <2>5, <2>6 DEF IInv
<1> QED  BY <1>3, <1>4 DEF Refuses

\* A receiver registers.
LEMMA RegistersIInv ==
  ASSUME IInv, NEW e \in LiveEps, Registers(e)
  PROVE  IInv'
<1>1. /\ ep_arena' = ep_arena /\ tables' = tables /\ next_cap' = next_cap
      /\ created' = created /\ sent' = sent /\ collected' = collected
  BY DEF Registers
<1>2. ArenaOK' /\ CreatedOK' /\ TablesOK'
  BY <1>1, Zenon DEF IInv, ArenaOK, CreatedOK, TablesOK, Named
<1>3. PICK q : q = State("RecvWaiting", 0, NoCap)
  OBVIOUS
<1>4. Touched(e, q) /\ StateOf(e).kind \notin Holding
  BY <1>3 DEF Registers, Holding
<1>5. Fits(e, q)'
  BY <1>3 DEF Fits, State, Kinds, Holding
<1>6. \A i \in EpSlots \ {e.index} :
        states[i].kind \in Holding => states[i].msg \notin DOMAIN collected'
  BY <1>1, Zenon DEF IInv, StatesOK, SlotOK, Fits
<1>7. StatesOK'
  BY <1>1, <1>4, <1>5, <1>6, TouchedStates, Zenon
<1>8. MessagesOK'
  BY <1>1, <1>4, TouchedMessages
<1> QED  BY <1>2, <1>7, <1>8 DEF IInv

\* Handles in the past stay in the past.
LEMMA StillPast ==
  ASSUME NEW m \in Nat, NEW n \in Nat, m =< n, NEW g \in 1 .. m - 1
  PROVE  g \in 1 .. n - 1
OBVIOUS

\* An entry of a table that stays there, its parent too, is right in the next state.
LEMMA EntryStays ==
  ASSUME IInv, NEW d \in Callers, NEW g \in DOMAIN tables[d], tables'[d][g] = tables[d][g],
         Named \subseteq Named', next_cap' \in Nat, next_cap =< next_cap',
         tables[d][g].parent \in DOMAIN tables[d] => tables[d][g].parent \in DOMAIN tables'[d]
  PROVE  /\ g \in 1 .. next_cap' - 1
         /\ tables'[d][g].parent \in {NoParent} \cup DOMAIN tables'[d]
         /\ tables'[d][g].object \in Named' /\ tables'[d][g].rights \in Grants
<1>1. /\ g \in 1 .. next_cap - 1 /\ next_cap \in Nat
      /\ tables[d][g].parent \in {NoParent} \cup DOMAIN tables[d]
      /\ tables[d][g].object \in Named /\ tables[d][g].rights \in Grants
  <2>1. TablesOK
    BY Zenon DEF IInv
  <2> QED  BY <2>1, SMT DEF TablesOK
<1>2. g \in 1 .. next_cap' - 1
  <2>1. PICK m : m = next_cap
    OBVIOUS
  <2>2. PICK n : n = next_cap'
    OBVIOUS
  <2>3. m \in Nat /\ n \in Nat /\ m =< n /\ g \in 1 .. m - 1
    BY <1>1, <2>1, <2>2, Zenon
  <2> QED  BY <2>2, <2>3, StillPast, Zenon
<1>3. tables[d][g].parent \in {NoParent} \cup DOMAIN tables'[d]
  BY <1>1, Zenon
<1> QED  BY <1>1, <1>2, <1>3, Zenon

\* A capability without children leaves its table.
LEMMA WithoutTables ==
  ASSUME IInv, NEW c \in Callers, NEW x, x \in DOMAIN tables[c], ~HasChildren(c, x),
         tables' = [tables EXCEPT ![c] = Without(@, x)], next_cap' = next_cap, Named' = Named
  PROVE  TablesOK'
<1>1. next_cap \in Nat \ {0} /\ next_cap =< next_cap' /\ DOMAIN tables = Callers
  BY DEF IInv, TablesOK
<1>2. /\ DOMAIN tables' = Callers /\ tables'[c] = [g \in DOMAIN tables[c] \ {x} |-> tables[c][g]]
      /\ \A d \in Callers \ {c} : tables'[d] = tables[d]
  BY <1>1, Zenon DEF Without
<1>3. \A g \in DOMAIN tables[c] : tables[c][g].parent # x
  BY Zenon DEF HasChildren
<1>4. ASSUME NEW d \in Callers, NEW g \in DOMAIN tables'[d]
      PROVE  /\ g \in DOMAIN tables[d] /\ tables'[d][g] = tables[d][g]
             /\ tables[d][g].parent \in DOMAIN tables[d] => tables[d][g].parent \in DOMAIN tables'[d]
  <2>1. CASE d = c
    BY <1>2, <1>3, <1>4, <2>1, Zenon
  <2>2. CASE d # c
    BY <1>2, <1>4, <2>2, Zenon
  <2> QED  BY <2>1, <2>2, Zenon
<1>5. ASSUME NEW d \in Callers, NEW g \in DOMAIN tables'[d]
      PROVE  /\ g \in 1 .. next_cap' - 1
             /\ tables'[d][g].parent \in {NoParent} \cup DOMAIN tables'[d]
             /\ tables'[d][g].object \in Named' /\ tables'[d][g].rights \in Grants
  <2>1. next_cap' \in Nat /\ Named \subseteq Named'
    BY <1>1, Zenon
  <2> QED  BY <1>1, <1>4, <2>1, EntryStays, Zenon
<1> QED  BY <1>1, <1>2, <1>5, Zenon DEF TablesOK

\* A message is accepted.
LEMMA PutsIInv ==
  ASSUME IInv, NEW c \in Callers, NEW x, NEW e \in LiveEps, Puts(c, x, e)
  PROVE  IInv'
<1>1. /\ ep_arena' = ep_arena /\ next_cap' = next_cap
      /\ created' = created /\ collected' = collected
  BY DEF Puts
<1>2. PICK n \in Nat : DOMAIN sent = 1 .. n /\ NextMsg = n + 1
  BY Numbering
<1>3. PICK cap : cap = Carried(c, x)
  OBVIOUS
<1>4. PICK k \in Holding : Touched(e, State(k, n + 1, cap))
  BY <1>2, <1>3 DEF Puts
<1>5. /\ DOMAIN sent' = 1 .. n + 1 /\ n + 1 \notin DOMAIN sent
      /\ sent'[n + 1].ep = e /\ \A m \in DOMAIN sent : sent'[m] = sent[m]
  BY <1>2 DEF Puts
<1>6. ArenaOK' /\ CreatedOK' /\ Named' = Named
  BY <1>1, Zenon DEF IInv, ArenaOK, CreatedOK, Named
<1>7. TablesOK'
  <2>1. CASE x = NoHandle
    BY <1>1, <1>6, <2>1, Zenon DEF Puts, IInv, TablesOK
  <2>2. CASE x # NoHandle
    <3>1. /\ x \in DOMAIN tables[c] /\ ~HasChildren(c, x)
          /\ tables' = [tables EXCEPT ![c] = Without(@, x)]
      BY <2>2, Zenon DEF Puts
    <3> QED  BY <1>1, <1>6, <3>1, WithoutTables, Zenon
  <2> QED  BY <2>1, <2>2
<1>8. cap # NoCap => cap.object \in Named /\ cap.rights \in Grants
  BY <1>3, Zenon DEF Carried, Puts, IInv, TablesOK
<1>9. PICK q : q = State(k, n + 1, cap)
  OBVIOUS
<1>10. Touched(e, q) /\ q.kind \in Holding /\ q.msg = n + 1 /\ q.cap = cap
  BY <1>4, <1>9 DEF State
<1>11. n + 1 \notin DOMAIN collected
  BY <1>5 DEF IInv, MessagesOK
<1>12. Fits(e, q)'
  BY <1>1, <1>2, <1>5, <1>6, <1>8, <1>10, <1>11 DEF Fits, Kinds, Holding
<1>13. StatesOK'
  <2>1. \A m \in DOMAIN sent : m \in DOMAIN sent' /\ sent'[m].ep = sent[m].ep
    BY <1>2, <1>5
  <2>2. \A i \in EpSlots \ {e.index} :
          states[i].kind \in Holding => states[i].msg \notin DOMAIN collected'
    BY <1>1, Zenon DEF IInv, StatesOK, SlotOK, Fits
  <2> QED  BY <1>1, <1>10, <1>12, <2>1, <2>2, TouchedStates, Zenon
<1>14. ASSUME NEW m \in DOMAIN sent'
       PROVE  /\ sent'[m].ep \in created'
              /\ m \in DOMAIN collected' => collected'[m] = <<sent'[m].ep>>
              /\ Contains(ep_arena', sent'[m].ep) /\ m \notin DOMAIN collected' => Waits(m)'
  <2>1. CASE m = n + 1
    <3>1. sent'[m].ep = e /\ StateOf(e)' = q
      BY <1>5, <1>10, <2>1, TouchedShows, Zenon
    <3>2. Waits(m)'
      BY <1>10, <2>1, <3>1 DEF Waits
    <3>3. e \in created
      BY DEF LiveEps
    <3> QED  BY <1>1, <1>11, <2>1, <3>1, <3>2, <3>3, Zenon
  <2>2. CASE m # n + 1
    <3>1. m \in DOMAIN sent /\ sent'[m] = sent[m]
      BY <1>2, <1>5, <2>2
    <3>2. /\ sent[m].ep \in created
          /\ m \in DOMAIN collected => collected[m] = <<sent[m].ep>>
          /\ Contains(ep_arena, sent[m].ep) /\ m \notin DOMAIN collected => Waits(m)
      BY <3>1, Zenon DEF IInv, MessagesOK
    <3>3. ASSUME Contains(ep_arena, sent[m].ep), m \notin DOMAIN collected PROVE Waits(m)'
      <4>1. sent[m].ep \in LiveEps /\ sent[m].ep # e
        BY <3>2, <3>3, Zenon DEF LiveEps, Waits, Puts
      <4>2. StateOf(sent[m].ep)' = StateOf(sent[m].ep)
        BY <1>10, <3>1, <4>1, TouchedShows, Zenon
      <4> QED  BY <3>1, <3>2, <3>3, <4>2, Zenon DEF Waits
    <3> QED  BY <1>1, <3>1, <3>2, <3>3, Zenon
  <2> QED  BY <2>1, <2>2, Zenon
<1>15. MessagesOK'
  <2>1. DOMAIN collected' \subseteq DOMAIN sent' /\ n + 1 \in Nat
    BY <1>1, <1>2, <1>5 DEF IInv, MessagesOK
  <2> QED  BY <1>5, <1>14, <2>1, Zenon DEF MessagesOK
<1> QED  BY <1>6, <1>7, <1>13, <1>15 DEF IInv

\* A message is collected.
LEMMA TakesIInv ==
  ASSUME IInv, NEW c \in Callers, NEW e \in LiveEps, Takes(c, e)
  PROVE  IInv'
<1>1. ep_arena' = ep_arena /\ created' = created /\ sent' = sent
  BY DEF Takes
<1>2. PICK q : q = StateOf(e)
  OBVIOUS
<1>3. PICK r : r = q.msg
  OBVIOUS
<1>4. /\ q.kind \in Holding /\ r \in DOMAIN sent \ DOMAIN collected /\ sent[r].ep = e
      /\ q.cap # NoCap => q.cap.object \in Named /\ q.cap.rights \in Grants
  BY <1>2, <1>3, ShownFits, Zenon DEF Takes, Fits
<1>5. /\ DOMAIN collected' = DOMAIN collected \cup {r} /\ collected'[r] = <<e>>
      /\ \A m \in DOMAIN collected : collected'[m] = collected[m]
  BY <1>2, <1>3, <1>4 DEF Takes
<1>6. ArenaOK' /\ CreatedOK' /\ Named' = Named
  BY <1>1, Zenon DEF IInv, ArenaOK, CreatedOK, Named
<1>7. TablesOK'
  <2>1. CASE q.cap = NoCap
    BY <1>1, <1>2, <1>6, <2>1, Zenon DEF Takes, IInv, TablesOK
  <2>2. CASE q.cap # NoCap
    <3> DEFINE w == WithRoot(tables[c], next_cap, q.cap)
    <3>1. /\ DOMAIN tables' = Callers /\ tables'[c] = w /\ next_cap' = next_cap + 1
          /\ \A d \in Callers \ {c} : tables'[d] = tables[d]
      BY <1>2, <2>2, Zenon DEF Takes, IInv, TablesOK
    <3>2. /\ DOMAIN w = DOMAIN tables[c] \cup {next_cap}
          /\ w[next_cap].parent = NoParent /\ w[next_cap].object = q.cap.object
          /\ w[next_cap].rights = q.cap.rights
          /\ \A g \in DOMAIN tables[c] \ {next_cap} : w[g] = tables[c][g]
      BY Zenon DEF WithRoot
    <3>3. next_cap \in Nat \ {0} /\ next_cap \notin DOMAIN tables[c]
      BY DEF IInv, TablesOK
    <3> HIDE DEF w
    <3>4. ASSUME NEW d \in Callers, NEW g \in DOMAIN tables'[d]
          PROVE  /\ g \in 1 .. next_cap' - 1
                 /\ tables'[d][g].parent \in {NoParent} \cup DOMAIN tables'[d]
                 /\ tables'[d][g].object \in Named' /\ tables'[d][g].rights \in Grants
      <4>1. CASE d = c /\ g = next_cap
        BY <1>4, <1>6, <2>2, <3>1, <3>2, <3>3, <4>1
      <4>2. CASE ~(d = c /\ g = next_cap)
        <5>1. g \in DOMAIN tables[d] /\ tables'[d][g] = tables[d][g]
              /\ DOMAIN tables[d] \subseteq DOMAIN tables'[d]
          BY <3>1, <3>2, <3>3, <4>2
        <5>2. next_cap' \in Nat /\ next_cap =< next_cap'
          BY <3>1, <3>3
        <5> QED  BY <1>6, <5>1, <5>2, EntryStays, Zenon
      <4> QED  BY <4>1, <4>2, Zenon
    <3> QED  BY <3>1, <3>3, <3>4 DEF TablesOK
  <2> QED  BY <2>1, <2>2
<1>8. Touched(e, IdleState)
  BY Zenon DEF Takes
<1>9. StatesOK'
  <2>1. PICK z : z = IdleState
    OBVIOUS
  <2>2. Fits(e, z)'
    BY <2>1 DEF Fits, IdleState, State, Kinds, Holding
  <2>3. ASSUME NEW i \in EpSlots \ {e.index}, states[i].kind \in Holding
        PROVE  states[i].msg \notin DOMAIN collected'
    <3>1. states[i].msg \notin DOMAIN collected /\ sent[states[i].msg].ep = Owner(i)
      BY <2>3, Zenon DEF IInv, StatesOK, SlotOK, Fits
    <3>2. Owner(i).index # e.index
      BY Zenon DEF Owner
    <3> QED  BY <1>4, <1>5, <3>1, <3>2, Zenon
  <2> QED  BY <1>1, <1>8, <2>1, <2>2, <2>3, TouchedStates, Zenon
<1>10. ASSUME NEW m \in DOMAIN sent
       PROVE  /\ m \in DOMAIN collected' => collected'[m] = <<sent[m].ep>>
              /\ Contains(ep_arena, sent[m].ep) /\ m \notin DOMAIN collected' => Waits(m)'
  <2>1. m \in DOMAIN collected' => collected'[m] = <<sent[m].ep>>
    BY <1>4, <1>5, Zenon DEF IInv, MessagesOK
  <2>2. ASSUME Contains(ep_arena, sent[m].ep), m \notin DOMAIN collected' PROVE Waits(m)'
    <3>1. sent[m].ep \in LiveEps /\ Waits(m) /\ m # r
      BY <1>5, <2>2, Zenon DEF IInv, MessagesOK, LiveEps
    <3>2. sent[m].ep # e
      BY <1>2, <1>3, <3>1, Zenon DEF Waits
    <3>3. StateOf(sent[m].ep)' = StateOf(sent[m].ep)
      BY <1>1, <1>8, <3>1, <3>2, TouchedShows
    <3> QED  BY <1>1, <3>1, <3>3 DEF Waits
  <2> QED  BY <2>1, <2>2
<1>11. MessagesOK'
  BY <1>1, <1>4, <1>5, <1>10, Zenon DEF IInv, MessagesOK
<1> QED  BY <1>6, <1>7, <1>9, <1>11 DEF IInv

\* The states and messages when only the arena and the tables change.
LEMMA FrameStates ==
  ASSUME IInv, states' = states, slot_generations' = slot_generations,
         sent' = sent, collected' = collected, created \subseteq created'
  PROVE  StatesOK'
<1>1. ASSUME NEW s \in EpSlots PROVE SlotOK(s)'
  <2>1. SlotOK(s) /\ Owner(s)' = Owner(s)
    BY DEF IInv, StatesOK, Owner
  <2>2. Fits(Owner(s), states[s])'
    BY <2>1, Zenon DEF SlotOK, Fits, Named
  <2> QED  BY <2>1, <2>2, Zenon DEF SlotOK
<1> QED  BY <1>1 DEF IInv, StatesOK

\* See FrameStates.
LEMMA FrameMessages ==
  ASSUME IInv, states' = states, slot_generations' = slot_generations,
         sent' = sent, collected' = collected, created \subseteq created',
         \A f \in created : Contains(ep_arena', f) => Contains(ep_arena, f)
  PROVE  MessagesOK'
<1>1. \A m \in DOMAIN sent : Waits(m)' <=> Waits(m)
  BY Zenon DEF Waits, StateOf, Stale
<1> QED  BY <1>1, Zenon DEF IInv, MessagesOK

\* create_endpoint returns e.
Opens(e) ==
  /\ e \in EpIds \ created /\ created' = created \cup {e}
  /\ e.index \in EpSlots \ LiveSlots(ep_arena) /\ ep_arena.generation[e.index] = e.generation
  /\ ep_arena'.generation = ep_arena.generation
  /\ LiveSlots(ep_arena') = LiveSlots(ep_arena) \cup {e.index}
  /\ \A c \in Callers : \/ tables'[c] = tables[c]
                         \/ tables'[c] = WithRoot(tables[c], next_cap + c,
                                         [rights |-> EpRights[c], object |-> EpObject(e)])
  /\ refused' = FALSE /\ states' = states /\ slot_generations' = slot_generations
  /\ sent' = sent /\ collected' = collected

\* create_endpoint finds the arena full or returns an id that no endpoint had.
LEMMA CreateCases ==
  ASSUME IInv, CreateEndpoint
  PROVE  \/ refused' = FALSE /\ ipc_vars' = ipc_vars /\ created' = created
            /\ sent' = sent /\ collected' = collected
         \/ Opens(FreshId(ep_arena)) /\ ArenaOK' /\ Cardinality(created) < MaxCreated
<1>1. CASE ep_arena.free_head = None
  BY <1>1 DEF CreateEndpoint, ipc_vars
<1>2. CASE ep_arena.free_head # None
  <2>1. PICK e : e = FreshId(ep_arena)
    OBVIOUS
  <2>2. /\ ep_arena' = Allocate(ep_arena, "endpoint") /\ created' = created \cup {e}
        /\ Cardinality(created) < MaxCreated
        /\ \A c \in Callers : \/ tables'[c] = tables[c]
                               \/ tables'[c] = WithRoot(tables[c], next_cap + c,
                                               [rights |-> EpRights[c], object |-> EpObject(e)])
        /\ refused' = FALSE /\ states' = states /\ slot_generations' = slot_generations
        /\ sent' = sent /\ collected' = collected
    BY <1>2, <2>1 DEF CreateEndpoint
  <2>3. ArenaOK
    BY DEF IInv
  <2>4. /\ ArenaOK' /\ ep_arena.free_head \in EpSlots \ LiveSlots(ep_arena)
        /\ ep_arena'.generation = ep_arena.generation
        /\ LiveSlots(ep_arena') = LiveSlots(ep_arena) \cup {ep_arena.free_head}
    BY <1>2, <2>2, <2>3, AllocateEffect
  <2>5. /\ e.index = ep_arena.free_head /\ e.generation = ep_arena.generation[e.index]
        /\ e \in EpIds
    BY <2>1, <2>3, <2>4 DEF FreshId, EpIds, ArenaOK, Parts
  <2>6. e \notin created
    BY <2>4, <2>5 DEF IInv, CreatedOK
  <2>7. Opens(e)
    BY <2>2, <2>4, <2>5, <2>6 DEF Opens
  <2> QED  BY <2>1, <2>2, <2>4, <2>7
<1> QED  BY <1>1, <1>2, Zenon

\* What a new endpoint adds to the live ones.
LEMMA OpensLive ==
  ASSUME IInv, NEW e, Opens(e)
  PROVE  /\ \A f \in created : Contains(ep_arena', f) <=> Contains(ep_arena, f)
         /\ Contains(ep_arena', e)
         /\ \A f : Contains(ep_arena, f) => Contains(ep_arena', f)
<1>1. ASSUME NEW f \in created, Contains(ep_arena', f) PROVE Contains(ep_arena, f)
  <2>1. f \in EpIds /\ e \in EpIds /\ f # e
    BY Zenon DEF Opens, IInv, CreatedOK
  <2>2. f.index # e.index
    BY <1>1, <2>1 DEF Opens, Contains, EpIds
  <2> QED  BY <1>1, <2>2, Zenon DEF Opens, Contains, ArenaSlots
<1>2. \A f : Contains(ep_arena, f) => Contains(ep_arena', f)
  BY Zenon DEF Opens, Contains, ArenaSlots
<1>3. Contains(ep_arena', e)
  BY Zenon DEF Opens, Contains, ArenaSlots, IInv, ArenaOK, Parts
<1> QED  BY <1>1, <1>2, <1>3

\* create_endpoint.
LEMMA CreateIInv ==
  ASSUME IInv, CreateEndpoint
  PROVE  IInv'
<1>1. CASE UNCHANGED ipc_vars /\ created' = created /\ sent' = sent /\ collected' = collected
  <2>1. /\ ep_arena' = ep_arena /\ states' = states /\ slot_generations' = slot_generations
        /\ tables' = tables /\ next_cap' = next_cap
    BY <1>1 DEF ipc_vars
  <2>2. ArenaOK' /\ CreatedOK' /\ TablesOK'
    BY <1>1, <2>1, Zenon DEF IInv, ArenaOK, CreatedOK, TablesOK, Named
  <2>3. StatesOK' /\ MessagesOK'
    BY <1>1, <2>1, FrameStates, FrameMessages
  <2> QED  BY <2>2, <2>3 DEF IInv
<1>2. CASE ~(UNCHANGED ipc_vars /\ created' = created /\ sent' = sent /\ collected' = collected)
  <2>1. PICK e : e = FreshId(ep_arena)
    OBVIOUS
  <2>2. Opens(e) /\ ArenaOK' /\ Cardinality(created) < MaxCreated
    BY <1>2, <2>1, CreateCases, Zenon
  <2>3. e \in EpIds \ created /\ created' = created \cup {e} /\ states' = states
        /\ slot_generations' = slot_generations /\ sent' = sent /\ collected' = collected
    BY <2>2, Zenon DEF Opens
  <2>4. CreatedOK'
    <3>1. /\ IsFiniteSet(created) /\ Cardinality(created) \in Nat /\ MaxCreated \in Nat
          /\ created \subseteq EpIds
      BY CreatedAssumption DEF IInv, CreatedOK
    <3>2. IsFiniteSet(created') /\ Cardinality(created') = Cardinality(created) + 1
      BY <2>3, <3>1, FS_AddElement
    <3>3. created' \subseteq EpIds /\ Cardinality(created') \in 0 .. MaxCreated
      BY <2>2, <2>3, <3>1, <3>2
    <3>4. ASSUME NEW s \in EpSlots
          PROVE  /\ ep_arena'.generation[s] =< Cardinality(created')
                 /\ s \in LiveSlots(ep_arena') => ep_arena'.generation[s] < Cardinality(created')
      <4>1. ep_arena.generation[s] =< Cardinality(created) /\ ep_arena.generation[s] \in Nat
        BY DEF IInv, CreatedOK, ArenaOK, Parts
      <4>2. ep_arena'.generation[s] = ep_arena.generation[s]
        BY <2>2 DEF Opens
      <4> QED  BY <3>1, <3>2, <4>1, <4>2
    <3>5. ASSUME NEW f \in created'
          PROVE  /\ f.generation =< ep_arena'.generation[f.index]
                 /\ f.generation = ep_arena'.generation[f.index] => f.index \in LiveSlots(ep_arena')
      <4>1. CASE f = e
        <5>1. f.index \in LiveSlots(ep_arena') /\ f.generation = ep_arena'.generation[f.index]
          BY <2>2, <4>1, Zenon DEF Opens
        <5>2. f.generation \in Nat
          BY <2>3, <4>1 DEF EpIds
        <5> QED  BY <5>1, <5>2
      <4>2. CASE f \in created
        BY <2>2, <4>2, Zenon DEF Opens, IInv, CreatedOK
      <4> QED  BY <2>3, <4>1, <4>2
    <3> QED  BY <3>2, <3>3, <3>4, <3>5, Zenon DEF CreatedOK
  <2>5. TablesOK'
    <3> DEFINE N == Cardinality(Callers)
    <3>1. /\ next_cap' = next_cap + N /\ N \in Nat /\ next_cap \in Nat \ {0}
          /\ DOMAIN tables' = Callers
          /\ \A d \in Callers : \/ tables'[d] = tables[d]
                                \/ tables'[d] = WithRoot(tables[d], next_cap + d,
                                                [rights |-> EpRights[d], object |-> EpObject(e)])
      BY <1>2, <2>1, CallersAssumption, Zenon DEF CreateEndpoint, ipc_vars, IInv, TablesOK
    <3>2. Named \subseteq Named' /\ EpObject(e) \in Named'
      BY <2>3 DEF Named
    <3>3. ASSUME NEW d \in Callers, NEW g \in DOMAIN tables'[d]
          PROVE  /\ g \in 1 .. next_cap' - 1
                 /\ tables'[d][g].parent \in {NoParent} \cup DOMAIN tables'[d]
                 /\ tables'[d][g].object \in Named' /\ tables'[d][g].rights \in Grants
      <4>1. d \in 0 .. N - 1
        BY CallersAssumption
      <4>2. next_cap' \in Nat /\ next_cap =< next_cap'
        BY <3>1
      <4> HIDE DEF N
      <4>3. CASE tables'[d] = tables[d]
        BY <3>2, <3>3, <4>2, <4>3, EntryStays, Zenon
      <4>4. CASE tables'[d] = WithRoot(tables[d], next_cap + d, [rights |-> EpRights[d], object |-> EpObject(e)])
        <5>1. DOMAIN tables'[d] = DOMAIN tables[d] \cup {next_cap + d}
          BY <4>4, Zenon DEF WithRoot
        <5>2. CASE g = next_cap + d
          <6>1. tables'[d][g].parent = NoParent /\ tables'[d][g].object = EpObject(e)
                /\ tables'[d][g].rights = EpRights[d]
            BY <4>4, <5>2 DEF WithRoot
          <6>2. g \in 1 .. next_cap' - 1
            <7>1. PICK n, k : n = next_cap /\ k = N
              OBVIOUS
            <7>2. n \in Nat \ {0} /\ k \in Nat /\ d \in 0 .. k - 1
              BY <3>1, <4>1, <7>1, Zenon
            <7>3. g = n + d /\ next_cap' = n + k
              BY <3>1, <5>2, <7>1, Zenon
            <7> QED  BY <7>2, <7>3
          <6> QED  BY <3>2, <6>1, <6>2, Zenon DEF Grants
        <5>3. CASE g # next_cap + d
          <6>1. g \in DOMAIN tables[d] /\ tables'[d][g] = tables[d][g]
            BY <4>4, <5>3, Zenon DEF WithRoot
          <6> QED  BY <3>2, <4>2, <5>1, <6>1, EntryStays, Zenon
        <5> QED  BY <5>2, <5>3
      <4> QED  BY <3>1, <4>3, <4>4, Zenon
    <3>4. next_cap' \in Nat \ {0}
      <4>1. PICK n, k : n = next_cap /\ k = N
        OBVIOUS
      <4>2. n \in Nat \ {0} /\ k \in Nat /\ next_cap' = n + k
        BY <3>1, <4>1, Zenon
      <4> QED  BY <4>2
    <3> QED  BY <3>1, <3>3, <3>4, Zenon DEF TablesOK
  <2>6. StatesOK'
    BY <2>3, FrameStates
  <2>7. MessagesOK'
    BY <2>2, <2>3, OpensLive, FrameMessages, Zenon
  <2> QED  BY <2>2, <2>4, <2>5, <2>6, <2>7 DEF IInv
<1> QED  BY <1>1, <1>2

\* destroy_endpoint gives back the slot of e, with whatever its state holds.
Closes(e) ==
  /\ LiveSlots(ep_arena') = LiveSlots(ep_arena) \ {e.index}
  /\ ep_arena'.generation[e.index] = e.generation + 1
  /\ \A s \in EpSlots \ {e.index} : ep_arena'.generation[s] = ep_arena.generation[s]
  /\ refused' = FALSE /\ states' = states /\ slot_generations' = slot_generations
  /\ tables' = tables /\ next_cap' = next_cap
  /\ created' = created /\ sent' = sent /\ collected' = collected

\* destroy_endpoint does that, and the generation does not wrap.
LEMMA DestroyCases ==
  ASSUME IInv, NEW e \in created, DestroyEndpoint(e)
  PROVE  e \in LiveEps /\ Closes(e) /\ ArenaOK'
<1>1. /\ Contains(ep_arena, e) /\ ep_arena' = Release(ep_arena, e)
      /\ refused' = FALSE /\ states' = states /\ slot_generations' = slot_generations
      /\ tables' = tables /\ next_cap' = next_cap
      /\ created' = created /\ sent' = sent /\ collected' = collected
  BY DEF DestroyEndpoint
<1>2. e \in LiveEps /\ e \in EpIds /\ ArenaOK
  BY <1>1, Zenon DEF LiveEps, IInv, CreatedOK
<1>3. e.generation + 1 < GenModulus
  <2>1. e.index \in EpSlots /\ e.generation \in Nat /\ e.index \in LiveSlots(ep_arena)
        /\ ep_arena.generation[e.index] = e.generation
    BY <1>1, <1>2 DEF EpIds, Contains
  <2>2. Cardinality(created) \in 0 .. MaxCreated /\ e.generation < Cardinality(created)
    BY <2>1, Zenon DEF IInv, CreatedOK
  <2> QED  BY <2>1, <2>2, CreatedAssumption, GenAssumption
<1>4. /\ ArenaOK' /\ LiveSlots(ep_arena') = LiveSlots(ep_arena) \ {e.index}
      /\ ep_arena'.generation[e.index] = e.generation + 1
      /\ \A s \in EpSlots \ {e.index} : ep_arena'.generation[s] = ep_arena.generation[s]
  BY <1>1, <1>2, <1>3, ReleaseEffect, Zenon
<1> QED  BY <1>1, <1>2, <1>4, Zenon DEF Closes

\* What it takes from the live endpoints.
LEMMA ClosesLive ==
  ASSUME IInv, NEW e \in LiveEps, Closes(e), ArenaOK'
  PROVE  /\ ~Contains(ep_arena', e)
         /\ \A f \in EpIds : Contains(ep_arena', f) <=> (Contains(ep_arena, f) /\ f # e)
<1>1. /\ DOMAIN ep_arena.generation = EpSlots /\ DOMAIN ep_arena'.generation = EpSlots
      /\ e \in EpIds /\ Contains(ep_arena, e)
  BY LiveIds, Zenon DEF IInv, ArenaOK, Parts, LiveEps
<1>2. ~Contains(ep_arena', e)
  BY Zenon DEF Closes, Contains
<1>3. ASSUME NEW f \in EpIds, f # e PROVE Contains(ep_arena', f) <=> Contains(ep_arena, f)
  <2>1. CASE f.index = e.index
    <3>1. f.generation # e.generation
      BY <1>1, <1>3, <2>1 DEF EpIds
    <3> QED  BY <1>1, <2>1, <3>1, Zenon DEF Closes, Contains
  <2>2. CASE f.index # e.index
    BY <1>1, <2>2, Zenon DEF Closes, Contains, EpIds, ArenaSlots
  <2> QED  BY <2>1, <2>2, Zenon
<1> QED  BY <1>2, <1>3

\* destroy_endpoint.
LEMMA DestroyIInv ==
  ASSUME IInv, NEW e \in created, DestroyEndpoint(e)
  PROVE  IInv'
<1>1. e \in LiveEps /\ Closes(e) /\ ArenaOK'
  BY DestroyCases
<1>2. /\ tables' = tables /\ next_cap' = next_cap /\ created' = created
      /\ states' = states /\ slot_generations' = slot_generations /\ sent' = sent /\ collected' = collected
  BY <1>1, Zenon DEF Closes
<1>3. e \in EpIds /\ e.index \in EpSlots /\ e.generation \in Nat /\ e.index \in LiveSlots(ep_arena)
      /\ ep_arena.generation[e.index] = e.generation
  BY <1>1, LiveIds DEF EpIds, LiveEps, Contains
<1>4. CreatedOK'
  <2>1. /\ created \subseteq EpIds /\ IsFiniteSet(created) /\ Cardinality(created) \in 0 .. MaxCreated
        /\ MaxCreated \in Nat /\ ep_arena.generation \in [EpSlots -> 0 .. GenModulus - 1]
    BY CreatedAssumption, Zenon DEF IInv, CreatedOK, ArenaOK, Parts
  <2>2. ASSUME NEW s \in EpSlots
        PROVE  /\ ep_arena'.generation[s] =< Cardinality(created)
               /\ s \in LiveSlots(ep_arena') => ep_arena'.generation[s] < Cardinality(created)
    <3>1. CASE s = e.index
      <4>1. s \notin LiveSlots(ep_arena') /\ ep_arena'.generation[s] = e.generation + 1
        BY <1>1, <3>1, Zenon DEF Closes
      <4>2. e.generation < Cardinality(created)
        BY <1>3, Zenon DEF IInv, CreatedOK
      <4> QED  BY <1>3, <2>1, <4>1, <4>2
    <3>2. CASE s # e.index
      BY <1>1, <3>2, Zenon DEF Closes, IInv, CreatedOK
    <3> QED  BY <3>1, <3>2, Zenon
  <2>3. ASSUME NEW f \in created
        PROVE  /\ f.generation =< ep_arena'.generation[f.index]
               /\ f.generation = ep_arena'.generation[f.index] => f.index \in LiveSlots(ep_arena')
    <3>1. /\ f.generation =< ep_arena.generation[f.index] /\ f.generation \in Nat /\ f.index \in EpSlots
          /\ f.generation = ep_arena.generation[f.index] => f.index \in LiveSlots(ep_arena)
      BY <2>1 DEF IInv, CreatedOK, EpIds
    <3>2. CASE f.index = e.index
      <4>1. ep_arena'.generation[f.index] = e.generation + 1 /\ f.generation =< e.generation
        BY <1>1, <1>3, <3>1, <3>2, Zenon DEF Closes
      <4> QED  BY <1>3, <3>1, <4>1
    <3>3. CASE f.index # e.index
      BY <1>1, <3>1, <3>3, Zenon DEF Closes
    <3> QED  BY <3>2, <3>3, Zenon
  <2> QED  BY <1>2, <2>1, <2>2, <2>3, Zenon DEF CreatedOK
<1>5. TablesOK'
  BY <1>2, Zenon DEF IInv, TablesOK, Named
<1>6. StatesOK'
  BY <1>2, FrameStates
<1>7. MessagesOK'
  <2>1. \A f \in created : Contains(ep_arena', f) => Contains(ep_arena, f)
    BY <1>1, ClosesLive, Zenon DEF IInv, CreatedOK
  <2> QED  BY <1>2, <2>1, FrameMessages
<1> QED  BY <1>1, <1>4, <1>5, <1>6, <1>7 DEF IInv

\* cap_drop and cap_derive change one table.
LEMMA TableIInv ==
  ASSUME IInv, TablesOK', ep_arena' = ep_arena, states' = states,
         slot_generations' = slot_generations, created' = created, sent' = sent,
         collected' = collected
  PROVE  IInv'
<1>1. ArenaOK' /\ CreatedOK'
  BY Zenon DEF IInv, ArenaOK, CreatedOK
<1>2. StatesOK' /\ MessagesOK'
  BY FrameStates, FrameMessages
<1> QED  BY <1>1, <1>2 DEF IInv

\* cap_drop of a capability without children.
LEMMA DropIInv ==
  ASSUME IInv, NEW c \in Callers, NEW h \in DOMAIN tables[c], DropCap(c, h)
  PROVE  IInv'
<1>1. /\ ep_arena' = ep_arena /\ states' = states /\ slot_generations' = slot_generations
      /\ created' = created /\ sent' = sent /\ collected' = collected /\ next_cap' = next_cap
      /\ Named' = Named
  BY DEF DropCap, Named
<1>2. ~HasChildren(c, h) /\ tables' = [tables EXCEPT ![c] = Without(@, h)]
  BY Zenon DEF DropCap
<1>3. TablesOK'
  BY <1>1, <1>2, WithoutTables, Zenon
<1> QED  BY <1>1, <1>3, TableIInv

\* cap_derive of a child.
LEMMA DeriveIInv ==
  ASSUME IInv, NEW c \in Callers, NEW h \in DOMAIN tables[c], DeriveCap(c, h)
  PROVE  IInv'
<1>1. /\ ep_arena' = ep_arena /\ states' = states /\ slot_generations' = slot_generations
      /\ created' = created /\ sent' = sent /\ collected' = collected /\ next_cap' = next_cap + 1
      /\ Named' = Named
  BY DEF DeriveCap, Named
<1> DEFINE w == [g \in DOMAIN tables[c] \cup {next_cap} |->
                   IF g = next_cap THEN [tables[c][h] EXCEPT !.parent = h] ELSE tables[c][g]]
<1>2. DOMAIN tables' = Callers /\ tables'[c] = w /\ \A d \in Callers \ {c} : tables'[d] = tables[d]
  BY DEF DeriveCap, IInv, TablesOK
<1>3. next_cap \in Nat \ {0} /\ next_cap \notin DOMAIN tables[c]
  BY DEF IInv, TablesOK
<1>4. /\ DOMAIN w = DOMAIN tables[c] \cup {next_cap}
      /\ w[next_cap] = [tables[c][h] EXCEPT !.parent = h]
      /\ \A g \in DOMAIN tables[c] : w[g] = tables[c][g]
  BY <1>3
<1>5. /\ w[next_cap].object = tables[c][h].object /\ w[next_cap].rights = tables[c][h].rights
      /\ w[next_cap].parent \in DOMAIN tables[c] \cup {NoParent}
  <2>1. PICK r : r = tables[c][h]
    OBVIOUS
  <2>2. w[next_cap] = [r EXCEPT !.parent = h]
    BY <1>4, <2>1
  <2>3. [r EXCEPT !.parent = h].object = r.object /\ [r EXCEPT !.parent = h].rights = r.rights
    OBVIOUS
  <2>4. r.parent \in {NoParent} \cup DOMAIN tables[c]
    BY <2>1, Zenon DEF IInv, TablesOK
  <2>5. [r EXCEPT !.parent = h].parent \in {h, r.parent}
    OBVIOUS
  <2> QED  BY <2>1, <2>2, <2>3, <2>4, <2>5, Zenon
<1> HIDE DEF w
<1>6. ASSUME NEW d \in Callers, NEW g \in DOMAIN tables'[d]
      PROVE  /\ g \in 1 .. next_cap' - 1
             /\ tables'[d][g].parent \in {NoParent} \cup DOMAIN tables'[d]
             /\ tables'[d][g].object \in Named' /\ tables'[d][g].rights \in Grants
  <2>1. CASE d = c /\ g = next_cap
    <3>1. tables[c][h].object \in Named /\ tables[c][h].rights \in Grants
      BY Zenon DEF IInv, TablesOK
    <3>2. tables'[d] = w /\ DOMAIN w = DOMAIN tables[c] \cup {next_cap}
      BY <1>2, <1>4, <2>1
    <3>3. g \in 1 .. next_cap' - 1
      BY <1>1, <1>3, <2>1
    <3> QED  BY <1>1, <1>5, <2>1, <3>1, <3>2, <3>3, Zenon
  <2>2. CASE ~(d = c /\ g = next_cap)
    <3>1. g \in DOMAIN tables[d] /\ tables'[d][g] = tables[d][g]
          /\ DOMAIN tables[d] \subseteq DOMAIN tables'[d]
      BY <1>2, <1>4, <2>2
    <3>2. next_cap' \in Nat /\ next_cap =< next_cap' /\ Named \subseteq Named'
      BY <1>1, <1>3
    <3> QED  BY <3>1, <3>2, EntryStays, Zenon
  <2> QED  BY <2>1, <2>2, Zenon
<1>7. TablesOK'
  BY <1>1, <1>2, <1>3, <1>6 DEF TablesOK
<1> QED  BY <1>1, <1>7, TableIInv

\* At boot there is no endpoint, and the free list threads all slots.
LEMMA InitIInv == Init => IInv
<1> SUFFICES ASSUME Init PROVE IInv
  OBVIOUS
<1>1. EpCapacity \in Nat /\ GenModulus \in Nat \ {0} /\ MaxCreated \in Nat /\ 0 \in 0 .. GenModulus - 1
  BY EpCapacityAssumption, GenAssumption, CreatedAssumption
<1>2. /\ ep_arena.entry = [s \in {} |-> {}] /\ LiveSlots(ep_arena) = {}
      /\ ep_arena.generation = [s \in EpSlots |-> 0]
      /\ ep_arena.next_free = [s \in EpSlots |-> IF s + 1 < EpCapacity THEN s + 1 ELSE None]
      /\ ep_arena.free_head = IF EpCapacity > 0 THEN 0 ELSE None
  BY Zenon DEF Init, NewArena, EpSlots, LiveSlots
<1>3. ArenaOK
  <2>1. Parts(ep_arena)
    BY <1>1, <1>2 DEF Parts, EpSlots, None
  <2> DEFINE st == [s \in EpSlots |-> EpCapacity - s]
  <2>2. /\ st \in [EpSlots -> Nat] /\ EpCapacity + 1 \in Nat
        /\ \A s \in EpSlots : st[s] = EpCapacity - s /\ st[s] < EpCapacity + 1 /\ s \in Nat
    BY <1>1 DEF EpSlots
  <2> HIDE DEF st
  <2>3. Threaded(EpSlots, ep_arena.free_head, ep_arena.next_free, st)
    <3>1. \A s, t \in EpSlots : st[s] = st[t] => s = t
      BY <1>1, <2>2
    <3>2. IF EpSlots = {} THEN ep_arena.free_head = None
          ELSE ep_arena.free_head \in EpSlots /\ \A t \in EpSlots : st[t] =< st[ep_arena.free_head]
      <4>1. CASE EpCapacity = 0
        BY <1>2, <4>1 DEF EpSlots
      <4>2. CASE EpCapacity > 0
        <5>1. 0 \in EpSlots /\ ep_arena.free_head = 0
          BY <1>1, <1>2, <4>2 DEF EpSlots
        <5> QED  BY <1>1, <2>2, <5>1
      <4> QED  BY <1>1, <4>1, <4>2
    <3>3. ASSUME NEW s \in EpSlots
          PROVE  IF \A t \in EpSlots : st[t] >= st[s] THEN ep_arena.next_free[s] = None
                 ELSE /\ ep_arena.next_free[s] \in EpSlots
                      /\ st[ep_arena.next_free[s]] < st[s]
                      /\ \A t \in EpSlots : st[t] < st[s] => st[t] =< st[ep_arena.next_free[s]]
      <4>1. CASE s + 1 < EpCapacity
        <5>1. s + 1 \in EpSlots /\ ep_arena.next_free[s] = s + 1
          BY <1>1, <1>2, <4>1 DEF EpSlots
        <5>2. st[s + 1] < st[s]
          BY <1>1, <2>2, <5>1
        <5>3. \A t \in EpSlots : st[t] < st[s] => st[t] =< st[s + 1]
          BY <1>1, <2>2, <5>1
        <5>4. ~(st[s + 1] >= st[s])
          BY <1>1, <2>2, <5>1
        <5> QED  BY <5>1, <5>2, <5>3, <5>4, Zenon
      <4>2. CASE ~(s + 1 < EpCapacity)
        <5>1. ep_arena.next_free[s] = None
          BY <1>2, <4>2, Zenon
        <5>2. \A t \in EpSlots : st[t] >= st[s]
          BY <1>1, <2>2, <4>2 DEF EpSlots
        <5> QED  BY <5>1, <5>2, Zenon
      <4> QED  BY <4>1, <4>2, Zenon
    <3> QED  BY <3>1, <3>2, <3>3, Zenon DEF Threaded
  <2>4. EpSlots \ LiveSlots(ep_arena) = EpSlots
    BY <1>2, Zenon
  <2>5. FreeListOK(ep_arena, st, EpCapacity + 1)
    BY <2>2, <2>3, <2>4 DEF FreeListOK
  <2> QED  BY <2>1, <2>2, <2>5 DEF ArenaOK
<1>4. CreatedOK
  <2>1. created = {} /\ IsFiniteSet({}) /\ Cardinality({}) = 0
    BY FS_EmptySet DEF Init
  <2> QED  BY <1>1, <1>2, <2>1 DEF CreatedOK
<1>5. TablesOK
  <2> DEFINE N == Cardinality(Callers)
  <2>1. N \in Nat /\ next_cap = N + 1 /\ \A c \in Callers : c \in 0 .. N - 1
    BY CallersAssumption DEF Init
  <2>2. /\ DOMAIN tables = Callers
        /\ \A c \in Callers :
             /\ DOMAIN tables[c] \subseteq {c + 1}
             /\ \A h \in DOMAIN tables[c] :
                  /\ tables[c][h].parent = NoParent /\ tables[c][h].object = Token(c)
                  /\ tables[c][h].rights = {"TRANSFER", "DERIVE"}
    BY DEF Init
  <2>3. \A c \in Callers : Token(c) \in Named
    BY DEF Named, Tokens
  <2> HIDE DEF N
  <2> QED  BY <2>1, <2>2, <2>3 DEF TablesOK, Grants
<1>6. StatesOK
  <2>1. ASSUME NEW s \in EpSlots PROVE SlotOK(s)
    BY Zenon DEF Init, SlotOK, Fits, IdleState, State, Kinds, Holding
  <2> QED  BY <1>1, <2>1 DEF Init, StatesOK
<1>7. MessagesOK
  <2>1. DOMAIN sent = {} /\ DOMAIN collected = {} /\ 1 .. 0 = {} /\ 0 \in Nat
    BY DEF Init
  <2> QED  BY <2>1, Zenon DEF MessagesOK
<1> QED  BY <1>3, <1>4, <1>5, <1>6, <1>7 DEF IInv

\* Every step.
LEMMA NextIInv == IInv /\ [Next]_vars => IInv'
<1> SUFFICES ASSUME IInv, [Next]_vars PROVE IInv'
  OBVIOUS
<1>1. CASE CreateEndpoint
  BY <1>1, CreateIInv
<1>2. ASSUME NEW e \in created, DestroyEndpoint(e) PROVE IInv'
  BY <1>2, DestroyIInv
<1>3. ASSUME NEW c \in Callers, NEW h \in HandlesOf(c), NEW x, Send(c, h, x) PROVE IInv'
  BY <1>3, SendCases, RefusesIInv, PutsIInv
<1>4. ASSUME NEW c \in Callers, NEW h \in HandlesOf(c), Recv(c, h) PROVE IInv'
  BY <1>4, RecvCases, RefusesIInv, TakesIInv, RegistersIInv
<1>5. ASSUME NEW c \in Callers, NEW h \in DOMAIN tables[c], DropCap(c, h) PROVE IInv'
  BY <1>5, DropIInv
<1>6. ASSUME NEW c \in Callers, NEW h \in DOMAIN tables[c], DeriveCap(c, h) PROVE IInv'
  BY <1>6, DeriveIInv
<1>7. CASE UNCHANGED vars
  <2>1. /\ ep_arena' = ep_arena /\ states' = states /\ slot_generations' = slot_generations
        /\ tables' = tables /\ next_cap' = next_cap
        /\ created' = created /\ sent' = sent /\ collected' = collected
    BY <1>7 DEF vars, ipc_vars
  <2>2. TablesOK'
    BY <2>1, Zenon DEF IInv, TablesOK, Named
  <2> QED  BY <2>1, <2>2, TableIInv
<1> QED  BY <1>1, <1>2, <1>3, <1>4, <1>5, <1>6, <1>7, Zenon DEF Next

\* The inductive invariant always holds.
THEOREM AlwaysIInv == Spec => []IInv
BY InitIInv, NextIInv, PTL DEF Spec

\* The types of the state, parents that are in the table of their children,
\* and messages received only if sent.
THEOREM TypeTheorem == Spec => []TypeOK
<1>1. IInv => TypeOK
  <2> SUFFICES ASSUME IInv PROVE TypeOK
    OBVIOUS
  <2>1. LiveSlots(ep_arena) \subseteq EpSlots
    BY DEF IInv, ArenaOK, Parts
  <2>2. /\ \A s \in EpSlots : states[s].kind \in Kinds
        /\ slot_generations \in [EpSlots -> 0 .. GenModulus - 1]
    BY Zenon DEF IInv, StatesOK, SlotOK, Fits
  <2>3. \A c \in Callers : \A h \in DOMAIN tables[c] :
          h < next_cap /\ tables[c][h].parent \in {NoParent} \cup DOMAIN tables[c]
    BY DEF IInv, TablesOK
  <2>4. DOMAIN sent = 1 .. NextMsg - 1 /\ DOMAIN collected \subseteq DOMAIN sent
    <3>1. PICK n \in Nat : DOMAIN sent = 1 .. n /\ NextMsg = n + 1
      BY Numbering
    <3> QED  BY <3>1 DEF IInv, MessagesOK
  <2> QED  BY <2>1, <2>2, <2>3, <2>4, Zenon DEF TypeOK
<1> QED  BY <1>1, AlwaysIInv, PTL

\* Whatever calls fail, endpoints are destroyed and slots are reused: a
\* message is received at most once, through the endpoint it was sent to, and
\* while that endpoint lives it is received or still waits there.
THEOREM ExactlyOnceTheorem == Spec => []ExactlyOnce
<1>1. IInv => ExactlyOnce
  <2> SUFFICES ASSUME IInv, NEW m \in DOMAIN sent
               PROVE  /\ m \in DOMAIN collected => collected[m] = <<sent[m].ep>> /\ Parked(m) = {}
                      /\ Contains(ep_arena, sent[m].ep) => m \in DOMAIN collected \/ Reachable(m)
    BY Zenon DEF ExactlyOnce
  <2>1. m \in DOMAIN collected => collected[m] = <<sent[m].ep>>
    BY Zenon DEF IInv, MessagesOK
  <2>2. m \in DOMAIN collected => Parked(m) = {}
    BY Zenon DEF IInv, StatesOK, SlotOK, Fits, Parked
  <2>3. ASSUME Contains(ep_arena, sent[m].ep), m \notin DOMAIN collected PROVE Reachable(m)
    <3>1. PICK e : e = sent[m].ep
      OBVIOUS
    <3>2. e \in EpIds /\ StateOf(e).kind \in Holding /\ StateOf(e).msg = m
      BY <2>3, <3>1, Zenon DEF IInv, MessagesOK, Waits, CreatedOK
    <3>3. ~Stale(e)
      BY <3>2, Zenon DEF StateOf, IdleState, State, Holding
    <3>4. e.index \in Parked(m) /\ slot_generations[e.index] = e.generation
      BY <3>2, <3>3, Zenon DEF StateOf, Stale, Parked, EpIds
    <3> QED  BY <3>1, <3>4 DEF Reachable
  <2> QED  BY <2>1, <2>2, <2>3, Zenon
<1> QED  BY <1>1, AlwaysIInv, PTL

-----------------------------------------------------------------------------
(* What a step may never do.                                               *)

\* A step that is no send or receive, and creates or destroys no endpoint.
Quiet ==
  /\ refused' = FALSE /\ ep_arena' = ep_arena /\ states' = states
  /\ slot_generations' = slot_generations
  /\ created' = created /\ sent' = sent /\ collected' = collected

\* What the steps are, seen from the endpoints.
LEMMA StepCases ==
  ASSUME IInv, Next
  PROVE  \/ Quiet \/ Refuses
         \/ \E c \in Callers : \E x : \E e \in LiveEps : Puts(c, x, e)
         \/ \E c \in Callers : \E e \in LiveEps : Takes(c, e)
         \/ \E e \in LiveEps : Registers(e)
         \/ \E e \in LiveEps : Closes(e) /\ ArenaOK'
         \/ Opens(FreshId(ep_arena))
<1>1. CASE CreateEndpoint
  BY <1>1, CreateCases, Zenon DEF Quiet, ipc_vars
<1>2. ASSUME NEW e \in created, DestroyEndpoint(e) PROVE \E f \in LiveEps : Closes(f) /\ ArenaOK'
  BY <1>2, DestroyCases
<1>3. ASSUME NEW c \in Callers, NEW h \in HandlesOf(c), NEW x, Send(c, h, x)
      PROVE  Refuses \/ \E e \in LiveEps : Puts(c, x, e)
  BY <1>3, SendCases
<1>4. ASSUME NEW c \in Callers, NEW h \in HandlesOf(c), Recv(c, h)
      PROVE  Refuses \/ \E e \in LiveEps : Takes(c, e) \/ Registers(e)
  BY <1>4, RecvCases
<1>5. ASSUME NEW c \in Callers, NEW h \in DOMAIN tables[c], DropCap(c, h) \/ DeriveCap(c, h) PROVE Quiet
  BY <1>5 DEF DropCap, DeriveCap, Quiet
<1> QED  BY <1>1, <1>2, <1>3, <1>4, <1>5, Zenon DEF Next

\* A send or receive that returns an error leaves the tables alone, and every
\* live endpoint as the next call would have found it.
THEOREM RefusalTheorem == Spec => RefusalChangesNothing
<1> DEFINE A == refused' => /\ UNCHANGED <<tables, sent, collected>>
                            /\ \A e \in created : Contains(ep_arena, e) => StateOf(e)' = StateOf(e)
<1>1. IInv /\ [Next]_vars => [A]_vars
  <2> SUFFICES ASSUME IInv, Next, refused'
               PROVE  /\ UNCHANGED <<tables, sent, collected>>
                      /\ \A e \in LiveEps : StateOf(e)' = StateOf(e)
    BY DEF LiveEps
  <2>1. Refuses
    BY StepCases, Zenon DEF Quiet, Puts, Takes, Registers, Closes, Opens
  <2>2. CASE states' = states /\ slot_generations' = slot_generations
    BY <2>1, <2>2, Zenon DEF Refuses, StateOf, Stale
  <2>3. ASSUME NEW e \in LiveEps, Touched(e, StateOf(e))
        PROVE  \A f \in LiveEps : StateOf(f)' = StateOf(f)
    BY <2>3, TouchedShows
  <2> QED  BY <2>1, <2>2, <2>3 DEF Refuses
<1> QED  BY <1>1, AlwaysIInv, PTL DEF Spec, RefusalChangesNothing
=============================================================================
