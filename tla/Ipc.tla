-------------------------------- MODULE Ipc --------------------------------
(***************************************************************************)
(* The IPC primitives (kernel/src/ipc/mod.rs) over an endpoint arena, the  *)
(* depth-1 waiter state of every endpoint slot, and one capability table   *)
(* per caller.                                                             *)
(*                                                                         *)
(* A table is what CapForest says it is: a map from unique handles to      *)
(* capabilities with a parent; CapTable shows that the real table is one.  *)
(* What a message says does not matter here: the modules that extend this  *)
(* one choose the messages.                                                *)
(***************************************************************************)
EXTENDS Arena, FiniteSets

CONSTANTS
  Callers,        \* the tasks, as numbers 0 .. n-1
  EpCapacity,     \* ENDPOINT_ARENA_CAPACITY
  TableCapacity,  \* CAP_TABLE_CAPACITY
  NoCap,          \* Option::None for a capability in flight
  NoHandle        \* Option::None for the transfer argument

VARIABLES
  ep_arena,
  states,             \* endpoint slot -> waiter state
  slot_generations,   \* endpoint slot -> generation that last used it
  tables,             \* caller -> handle -> capability
  next_cap            \* source of fresh handles

ipc_vars == <<ep_arena, states, slot_generations, tables, next_cap>>

-----------------------------------------------------------------------------
(* Capability tables.                                                      *)

NoParent == 0
EpObject(e) == [kind |-> "Endpoint", ref |-> e]

Has(c, h) == h \in DOMAIN tables[c]
HasChildren(c, h) == \E g \in DOMAIN tables[c] : tables[c][g].parent = h
TableFull(c) == Cardinality(DOMAIN tables[c]) >= TableCapacity

\* Mutated form: the capability stays in the table.
Without_Kept(t, h) == t

\* cap_take of h, and insert_root of cap under the handle h, on the table t.
Without(t, h) == [g \in DOMAIN t \ {h} |-> t[g]]
WithRoot(t, h, cap) ==
  [g \in DOMAIN t \cup {h} |->
     IF g = h THEN [rights |-> cap.rights, object |-> cap.object, parent |-> NoParent]
     ELSE t[g]]

\* references_object, over all tables.
Referenced(o) == \E c \in Callers : \E h \in DOMAIN tables[c] : tables[c][h].object = o

-----------------------------------------------------------------------------
(* Endpoint states.                                                        *)

EpSlots == 0 .. EpCapacity - 1
State(k, m, cap) == [kind |-> k, msg |-> m, cap |-> cap]
IdleState == State("Idle", 0, NoCap)
Holding == {"SendPending", "RecvComplete"}

\* Mutated form: a state left by an earlier endpoint is believed.
StateOf_NoReset(e) == states[e.index]

\* peek_state / state_of: a state left by an earlier endpoint counts as Idle,
\* and looking at it resets it (reset_if_stale_generation).  A debug build
\* asserts there that the state holds no capability; this is the release build.
Stale(e) == slot_generations[e.index] # e.generation
StateOf(e) == IF Stale(e) THEN IdleState ELSE states[e.index]
SetState(e, s) ==
  /\ states' = [states EXCEPT ![e.index] = s]
  /\ slot_generations' = [slot_generations EXCEPT ![e.index] = e.generation]

\* validate_ep_cap, and the endpoint that a valid capability names.
ValidEp(c, h, right) ==
  /\ Has(c, h)
  /\ right \in tables[c][h].rights
  /\ tables[c][h].object.kind = "Endpoint"
Ep(c, h) == tables[c][h].object.ref

-----------------------------------------------------------------------------
(* ipc_send(c's table, h, m, transfer x).                                  *)

\* The checks made before the endpoint state is looked at.
SendCheck(c, h, x) ==
  IF ~ValidEp(c, h, "SEND") THEN "InvalidCapability"
  ELSE IF x # NoHandle /\ (~Has(c, x) \/ "TRANSFER" \notin tables[c][x].rights)
  THEN "InvalidTransferCap"
  ELSE IF ~Contains(ep_arena, Ep(c, h)) THEN "InvalidCapability"
  ELSE "Ok"

\* Mutated form: a capability with children is taken along.
SendOutcome_TakesParents(c, h, x) ==
  IF SendCheck(c, h, x) # "Ok" THEN SendCheck(c, h, x)
  ELSE IF StateOf(Ep(c, h)).kind \in Holding THEN "QueueFull"
  ELSE IF StateOf(Ep(c, h)).kind = "RecvWaiting" THEN "Delivered"
  ELSE "Enqueued"

SendOutcome(c, h, x) ==
  IF SendCheck(c, h, x) # "Ok" THEN SendCheck(c, h, x)
  ELSE IF StateOf(Ep(c, h)).kind \in Holding THEN "QueueFull"
  ELSE IF x # NoHandle /\ HasChildren(c, x) THEN "InvalidTransferCap"
  ELSE IF StateOf(Ep(c, h)).kind = "RecvWaiting" THEN "Delivered"
  ELSE "Enqueued"

Accepted == {"Delivered", "Enqueued"}

\* The capability that travels with the message.
Carried(c, x) ==
  IF x = NoHandle THEN NoCap
  ELSE [rights |-> tables[c][x].rights, object |-> tables[c][x].object]

IpcSend(c, h, m, x) ==
  LET out == SendOutcome(c, h, x)
      e == Ep(c, h)
  IN /\ IF SendCheck(c, h, x) # "Ok" THEN UNCHANGED <<states, slot_generations>>
        ELSE SetState(e,
               IF out = "Delivered" THEN State("RecvComplete", m, Carried(c, x))
               ELSE IF out = "Enqueued" THEN State("SendPending", m, Carried(c, x))
               ELSE StateOf(e))
     /\ tables' = IF out \in Accepted /\ x # NoHandle
                  THEN [tables EXCEPT ![c] = Without(@, x)] ELSE tables
     /\ UNCHANGED <<ep_arena, next_cap>>

-----------------------------------------------------------------------------
(* ipc_recv(c's table, h).                                                 *)

RecvCheck(c, h) ==
  IF ~ValidEp(c, h, "RECV") \/ ~Contains(ep_arena, Ep(c, h)) THEN "InvalidCapability"
  ELSE "Ok"

\* Mutated forms: no pre-flight check; a second receiver is let in.
RecvOutcome_NoPreflight(c, h) ==
  IF RecvCheck(c, h) # "Ok" THEN RecvCheck(c, h)
  ELSE LET s == StateOf(Ep(c, h)) IN
       IF s.kind \in Holding THEN "Received"
       ELSE IF s.kind = "Idle" THEN "Pending"
       ELSE "QueueFull"
RecvOutcome_SecondWaiter(c, h) ==
  IF RecvCheck(c, h) # "Ok" THEN RecvCheck(c, h)
  ELSE LET s == StateOf(Ep(c, h)) IN
       IF s.cap # NoCap /\ TableFull(c) THEN "ReceiverTableFull"
       ELSE IF s.kind \in Holding THEN "Received"
       ELSE "Pending"

\* The pre-flight check for room in the table, then the state transition.
RecvOutcome(c, h) ==
  IF RecvCheck(c, h) # "Ok" THEN RecvCheck(c, h)
  ELSE LET s == StateOf(Ep(c, h)) IN
       IF s.cap # NoCap /\ TableFull(c) THEN "ReceiverTableFull"
       ELSE IF s.kind \in Holding THEN "Received"
       ELSE IF s.kind = "Idle" THEN "Pending"
       ELSE "QueueFull"

\* install_cap_if_some fails: message and capability are gone.
Lost(c, h) ==
  RecvOutcome(c, h) = "Received" /\ StateOf(Ep(c, h)).cap # NoCap /\ TableFull(c)
RecvResult(c, h) == IF Lost(c, h) THEN "ReceiverTableFull" ELSE RecvOutcome(c, h)

IpcRecv(c, h) ==
  LET out == RecvOutcome(c, h)
      e == Ep(c, h)
      s == StateOf(e)
      installs == RecvResult(c, h) = "Received" /\ s.cap # NoCap
  IN /\ IF RecvCheck(c, h) # "Ok" THEN UNCHANGED <<states, slot_generations>>
        ELSE SetState(e,
               IF out = "Received" THEN IdleState
               ELSE IF out = "Pending" THEN State("RecvWaiting", 0, NoCap)
               ELSE s)
     /\ tables' = IF installs
                  THEN [tables EXCEPT ![c] = WithRoot(@, next_cap, s.cap)] ELSE tables
     /\ next_cap' = IF installs THEN next_cap + 1 ELSE next_cap
     /\ UNCHANGED ep_arena
=============================================================================
