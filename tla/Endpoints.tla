----------------------------- MODULE Endpoints -----------------------------
(***************************************************************************)
(* Endpoints through their whole life: callers create endpoints, send and  *)
(* receive through their capabilities (with capabilities riding along),    *)
(* derive and drop capabilities, and destroy endpoints whose slot a later  *)
(* endpoint reuses (kernel/src/ipc/mod.rs, kernel/src/obj/endpoint.rs).    *)
(* The IPC calls are the non-blocking primitives; Sched adds blocking.     *)
(* A message is a number, different for every send.                        *)
(***************************************************************************)
EXTENDS Ipc, Sequences

CONSTANTS
  Owners,     \* the callers that start with a capability of their own
  EpRights,   \* caller -> rights on the endpoints it is given
  MaxCreated, \* bound on the endpoints ever created
  MaxSent,    \* bound on the messages ever sent
  MaxCaps     \* bound on the handles ever issued

\* Callers are numbered from 0.
ASSUME CallersAssumption ==
  /\ IsFiniteSet(Callers) /\ Cardinality(Callers) \in Nat
  /\ Callers = 0 .. Cardinality(Callers) - 1

ASSUME EpCapacityAssumption == EpCapacity \in Nat

\* No generation wraps around: the code gives out 2^32 generations of a slot.
ASSUME CreatedAssumption == MaxCreated \in Nat /\ MaxCreated < GenModulus

VARIABLES
  refused,    \* the last step was a send or receive that returned an error
  created,    \* auxiliary: every endpoint handle ever returned
  sent,       \* auxiliary: message -> endpoint and capability it was sent with
  collected   \* auxiliary: message -> endpoints it was received through, in order

vars == <<ipc_vars, refused, created, sent, collected>>

Token(c) == [kind |-> "Other", ref |-> c]

ASSUME NoCapAssumption ==
  \A c, d \in Callers :
    \A r \in {EpRights[d], {"TRANSFER", "DERIVE"}} : NoCap # [rights |-> r, object |-> Token(c)]

\* An owner starts with one capability that it may derive from and transfer.
Init ==
  /\ ep_arena = NewArena(EpCapacity)
  /\ states = [s \in EpSlots |-> IdleState]
  /\ slot_generations = [s \in EpSlots |-> 0]
  /\ tables = [c \in Callers |-> [h \in IF c \in Owners THEN {c + 1} ELSE {} |->
       [rights |-> {"TRANSFER", "DERIVE"}, object |-> Token(c), parent |-> NoParent]]]
  /\ next_cap = Cardinality(Callers) + 1
  /\ refused = FALSE
  /\ sent = [m \in {} |-> {}]
  /\ collected = [m \in {} |-> <<>>]
  /\ created = {}

\* create_endpoint, and an insert_root of a capability on the new endpoint in
\* every table that has room, as kernel_entry hands endpoints to its tasks.
CreateEndpoint ==
  /\ IF ep_arena.free_head = None
     THEN UNCHANGED <<ep_arena, tables, next_cap, created>>
     ELSE LET e == FreshId(ep_arena) IN
          /\ Cardinality(created) < MaxCreated /\ next_cap + Cardinality(Callers) - 1 =< MaxCaps
          /\ ep_arena' = Allocate(ep_arena, "endpoint")
          /\ tables' = [c \in Callers |->
               IF TableFull(c) THEN tables[c]
               ELSE WithRoot(tables[c], next_cap + c,
                             [rights |-> EpRights[c], object |-> EpObject(e)])]
          /\ next_cap' = next_cap + Cardinality(Callers)
          /\ created' = created \cup {e}
  /\ refused' = FALSE
  /\ UNCHANGED <<states, slot_generations, sent, collected>>

\* destroy_endpoint, called by anybody at any time: it checks neither whether
\* a table still names the endpoint nor whether a message or a capability is
\* in flight in it (obj/mod.rs leaves that to the caller, and no caller exists
\* yet).  On a stale handle it returns InvalidHandle and changes nothing.
DestroyEndpoint(e) ==
  /\ Contains(ep_arena, e)
  /\ ep_arena' = Release(ep_arena, e)
  /\ refused' = FALSE
  /\ UNCHANGED <<states, slot_generations, tables, next_cap, sent, collected, created>>

NextMsg == Cardinality(DOMAIN sent) + 1

Send(c, h, x) ==
  /\ NextMsg =< MaxSent
  /\ IpcSend(c, h, NextMsg, x)
  /\ sent' = IF SendOutcome(c, h, x) \notin Accepted THEN sent
             ELSE [m \in DOMAIN sent \cup {NextMsg} |->
                    IF m = NextMsg THEN [ep |-> Ep(c, h), cap |-> Carried(c, x)] ELSE sent[m]]
  /\ refused' = (SendOutcome(c, h, x) \notin Accepted)
  /\ UNCHANGED <<created, collected>>

Recv(c, h) ==
  /\ next_cap =< MaxCaps
  /\ IpcRecv(c, h)
  /\ collected' =
       IF RecvResult(c, h) # "Received" THEN collected
       ELSE LET e == Ep(c, h)
                r == StateOf(e).msg
            IN [m \in DOMAIN collected \cup {r} |->
                 IF m # r THEN collected[m]
                 ELSE IF m \in DOMAIN collected THEN Append(collected[m], e) ELSE <<e>>]
  /\ refused' = (RecvResult(c, h) \notin {"Received", "Pending"})
  /\ UNCHANGED <<created, sent>>

\* cap_drop, on a capability without children.
DropCap(c, h) ==
  /\ ~HasChildren(c, h)
  /\ tables' = [tables EXCEPT ![c] = Without(@, h)]
  /\ refused' = FALSE
  /\ UNCHANGED <<ep_arena, states, slot_generations, next_cap, sent, collected, created>>

\* cap_derive of a child with the same rights.
DeriveCap(c, h) ==
  /\ "DERIVE" \in tables[c][h].rights
  /\ ~TableFull(c) /\ next_cap =< MaxCaps
  /\ tables' = [tables EXCEPT ![c] =
       [g \in DOMAIN @ \cup {next_cap} |->
          IF g = next_cap THEN [@[h] EXCEPT !.parent = h] ELSE @[g]]]
  /\ next_cap' = next_cap + 1
  /\ refused' = FALSE
  /\ UNCHANGED <<ep_arena, states, slot_generations, sent, collected, created>>

\* The handles of c, and one that stands for all that are stale or unknown.
NoSuchHandle == 0
HandlesOf(c) == DOMAIN tables[c] \cup {NoSuchHandle}

Next ==
  \/ CreateEndpoint
  \/ \E e \in created : DestroyEndpoint(e)
  \/ \E c \in Callers : \E h \in HandlesOf(c) :
       \/ \E x \in HandlesOf(c) \cup {NoHandle} : Send(c, h, x)
       \/ Recv(c, h)
  \/ \E c \in Callers : \E h \in DOMAIN tables[c] : DropCap(c, h) \/ DeriveCap(c, h)

Spec == Init /\ [][Next]_vars

-----------------------------------------------------------------------------
Kinds == {"Idle", "SendPending", "RecvWaiting", "RecvComplete"}

TypeOK ==
  /\ LiveSlots(ep_arena) \subseteq EpSlots
  /\ \A s \in EpSlots : states[s].kind \in Kinds
  /\ slot_generations \in [EpSlots -> 0 .. GenModulus - 1]
  /\ \A c \in Callers : \A h \in DOMAIN tables[c] :
       h < next_cap /\ tables[c][h].parent \in {NoParent} \cup DOMAIN tables[c]
  /\ DOMAIN sent = 1 .. NextMsg - 1 /\ DOMAIN collected \subseteq DOMAIN sent

\* How often message m is still waiting in an endpoint, and whether anybody
\* could still reach it there.
Parked(m) == {s \in EpSlots : states[s].kind \in Holding /\ states[s].msg = m}
Reachable(m) == \E s \in Parked(m) :
  sent[m].ep.index = s /\ sent[m].ep.generation = slot_generations[s]

\* A message is collected at most once and only through the endpoint it was
\* sent to, and is not left behind once collected.  While its endpoint lives
\* it is never lost: if it has not been collected it is still parked there
\* for the receiver, whatever calls fail, endpoints are destroyed and slots
\* are reused in between.
ExactlyOnce ==
  \A m \in DOMAIN sent :
    /\ m \in DOMAIN collected => collected[m] = <<sent[m].ep>> /\ Parked(m) = {}
    /\ Contains(ep_arena, sent[m].ep) => m \in DOMAIN collected \/ Reachable(m)

LiveEps == {e \in created : Contains(ep_arena, e)}

\* A capability on the object o travels with the message in e.
InFlight(e, o) == StateOf(e).cap # NoCap /\ StateOf(e).cap.object = o

\* The number of capabilities on o in all tables and in flight in the live
\* endpoints.
Holders(o) ==
  Cardinality(UNION {{c} \X {h \in DOMAIN tables[c] : tables[c][h].object = o} : c \in Callers})
  + Cardinality({e \in LiveEps : InFlight(e, o)})

\* Sending and receiving move capabilities: no send or receive, successful or
\* refused, duplicates one or makes one disappear.  Destroying an endpoint
\* loses the capability in flight in it and no other, and no endpoint that
\* is later created in its slot brings it back.  (A step that changes the
\* arena or a slot is one of these calls; drops and derivations change
\* neither.)
AuthorityConserved ==
  [][refused' \/ <<ep_arena, states, slot_generations>>' # <<ep_arena, states, slot_generations>>
     => \A c \in Callers :
          Holders(Token(c))
          = Holders(Token(c))' + Cardinality({e \in LiveEps \ LiveEps' : InFlight(e, Token(c))})]_vars

\* Every error return of ipc_send and ipc_recv leaves the tables alone, and
\* leaves the endpoint state as the next operation would have found it.
RefusalChangesNothing ==
  [][refused'
     => /\ UNCHANGED <<tables, sent, collected>>
        /\ \A e \in created : Contains(ep_arena, e) => StateOf(e)' = StateOf(e)]_vars

-----------------------------------------------------------------------------
\* The channels that the live endpoints implement: the arena, the slots'
\* states and their generations disappear.
Mail(e) == [msg |-> StateOf(e).msg, cap |-> StateOf(e).cap]
Chan == INSTANCE Channels WITH
  Empty <- [msg |-> 0, cap |-> NoCap],
  used <- created, box <- [e \in LiveEps |-> Mail(e)],
  waiting <- {e \in LiveEps : StateOf(e).kind = "RecvWaiting"}

\* Endpoints behave as channels of their own: whatever endpoint used a slot
\* before and whatever it left in the slot's state, a new endpoint starts
\* empty with nobody waiting, and every call on an endpoint leaves all other
\* live endpoints as they were.
RefinesChannels == Chan!Spec
=============================================================================
