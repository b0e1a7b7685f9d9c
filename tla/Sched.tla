------------------------------- MODULE Sched -------------------------------
(***************************************************************************)
(* The cooperative scheduler and its IPC bridge (kernel/src/sched/mod.rs): *)
(* add_task, start, yield_now, ipc_send_and_yield, ipc_recv_and_yield, on  *)
(* top of the primitives of Ipc and the ring buffer of SchedQueue.         *)
(*                                                                         *)
(* Everything a task does in the kernel up to a context switch is one      *)
(* action: the kernel is single-core and no interrupt handler touches this *)
(* state.  ipc_recv_and_yield is cut at its context switch: RecvAndYield   *)
(* is phases 1 and 2, ResumeRecv is phase 3, and any number of steps of    *)
(* other tasks lie in between, which may also drop capabilities, destroy   *)
(* endpoints and create others in their slots.  A task is its slot index.  *)
(***************************************************************************)
EXTENDS Ipc, SchedQueue

CONSTANTS
  InitTables,  \* caller -> handle -> capability, as the boot code fills them
  NoEp,        \* no endpoint: the task is not blocked
  NewRights,   \* caller -> rights it is given on an endpoint created later
  FirstFresh,  \* handles from here on are not in InitTables
  MaxReuse,    \* bound on the times an endpoint slot is freed
  MaxSent      \* bound on the messages ever sent

Tasks == Callers
Endpoints == [index : EpSlots, generation : 0 .. GenModulus - 1]

ASSUME TasksFit == Tasks = 0 .. QueueCapacity - 1 /\ NoTask \notin Tasks
ASSUME FreshAssumption == FirstFresh \in Nat
ASSUME TablesAssumption ==
  /\ DOMAIN InitTables = Tasks
  /\ \A c \in Tasks : \A h \in DOMAIN InitTables[c] :
       LET o == InitTables[c][h].object IN
       h \in 0 .. FirstFresh - 1 /\ (o.kind = "Endpoint" => o \in {EpObject(e) : e \in Endpoints})

VARIABLES
  ready,
  task_states,   \* task -> [st : Idle, Ready or Blocked, on : the endpoint]
  current,       \* the running task, NoTask before start
  started,
  panicked,      \* a panic! of the scheduler was reached: the kernel halts
  resuming,      \* task -> it is suspended inside ipc_recv_and_yield
  wait_cap,      \* task -> the ep_cap argument of that call
  returned,      \* the last bridge call that returned: whose, and what
  sends          \* messages sent so far

sched_vars == <<ready, task_states, current, started, panicked, resuming, wait_cap, returned,
                sends>>
vars == <<ipc_vars, sched_vars>>

-----------------------------------------------------------------------------
TaskState(st, e) == [st |-> st, on |-> e]
ReadyTask == TaskState("Ready", NoEp)
IsBlocked(t) == task_states[t].st = "Blocked"
BlockedOn(e) == {t \in Tasks : task_states[t] = TaskState("Blocked", e)}
LiveEndpoints == {e \in Endpoints : Contains(ep_arena, e)}

Init ==
  /\ ep_arena = [entry |-> [s \in EpSlots |-> "endpoint"],
                 generation |-> [s \in EpSlots |-> 0],
                 next_free |-> [s \in EpSlots |-> None], free_head |-> None]
  /\ states = [s \in EpSlots |-> IdleState]
  /\ slot_generations = [s \in EpSlots |-> 0]
  /\ tables = InitTables
  /\ next_cap = FirstFresh
  /\ ready = NewQueue
  /\ task_states = [t \in Tasks |-> TaskState("Idle", NoEp)]
  /\ current = NoTask
  /\ started = FALSE /\ panicked = FALSE
  /\ resuming = [t \in Tasks |-> FALSE]
  /\ wait_cap = [t \in Tasks |-> NoHandle]
  /\ returned = [by |-> NoTask, out |-> "Ok"]
  /\ sends = 0

Panic == panicked' = TRUE /\ UNCHANGED <<ready, task_states, current>>

-----------------------------------------------------------------------------
(* Boot.                                                                   *)

\* The boot code registers every task once and expects no QueueFull.
AddTask(t) ==
  /\ ~started /\ ~panicked
  /\ task_states[t].st = "Idle"
  /\ IF IsFull(ready) THEN Panic
     ELSE /\ ready' = Enqueue(ready, t)
          /\ task_states' = [task_states EXCEPT ![t] = ReadyTask]
          /\ UNCHANGED <<current, panicked>>
  /\ UNCHANGED <<ipc_vars, started, resuming, wait_cap, returned, sends>>

\* The boot code starts the scheduler once, after registering the tasks.
Start ==
  /\ ~started /\ ~panicked
  /\ \A t \in Tasks : task_states[t].st # "Idle"
  /\ IF IsEmpty(ready) THEN Panic /\ UNCHANGED started
     ELSE /\ ready' = Dequeue(ready)
          /\ current' = Front(ready)
          /\ task_states' = [task_states EXCEPT ![Front(ready)] = ReadyTask]
          /\ started' = TRUE /\ UNCHANGED panicked
  /\ UNCHANGED <<ipc_vars, resuming, wait_cap, returned, sends>>

-----------------------------------------------------------------------------
(* The running task.                                                       *)

\* Task t executes its own code and may enter the kernel.
Running(t) == started /\ ~panicked /\ current = t /\ ~resuming[t]

\* Mutated forms: the next task stays in the queue; the caller is not queued.
Yield_Peek(t, q, ts) ==
  IF IsFull(q) THEN Panic
  ELSE LET q1 == Enqueue(q, t) IN
       /\ ready' = q1
       /\ current' = Front(q1)
       /\ task_states' = [ts EXCEPT ![t] = ReadyTask, ![Front(q1)] = ReadyTask]
       /\ UNCHANGED panicked
Yield_CallerLost(t, q, ts) ==
  /\ ready' = IF IsEmpty(q) THEN q ELSE Dequeue(q)
  /\ current' = IF IsEmpty(q) THEN t ELSE Front(q)
  /\ task_states' = ts
  /\ UNCHANGED panicked

\* yield_now, from the queue q and the task states ts that the rest of the
\* handler left.  With no other task ready, t dequeues itself.
Yield(t, q, ts) ==
  IF IsFull(q) THEN Panic
  ELSE LET q1 == Enqueue(q, t) IN
       /\ ready' = Dequeue(q1)
       /\ current' = Front(q1)
       /\ task_states' = [ts EXCEPT ![t] = ReadyTask, ![Front(q1)] = ReadyTask]
       /\ UNCHANGED panicked

YieldNow(t) ==
  /\ Running(t)
  /\ Yield(t, ready, task_states)
  /\ UNCHANGED <<ipc_vars, started, resuming, wait_cap, returned, sends>>

\* unblock_receiver_on(e) wakes the blocked task with the least index.
FirstBlocked(e) == CHOOSE t \in BlockedOn(e) : \A u \in BlockedOn(e) : t =< u

\* Mutated forms: nobody is woken; the woken task is not queued; the sender
\* goes on without yielding.
UnblockAndYield_NoWake(t, e) == Yield(t, ready, task_states)
UnblockAndYield_NotQueued(t, e) ==
  IF BlockedOn(e) = {} THEN Yield(t, ready, task_states)
  ELSE Yield(t, ready, [task_states EXCEPT ![FirstBlocked(e)] = ReadyTask])
UnblockAndYield_NoYield(t, e) ==
  IF BlockedOn(e) = {} THEN Yield(t, ready, task_states)
  ELSE IF IsFull(ready) THEN Panic
  ELSE /\ ready' = Enqueue(ready, FirstBlocked(e))
       /\ task_states' = [task_states EXCEPT ![FirstBlocked(e)] = ReadyTask]
       /\ UNCHANGED <<current, panicked>>

UnblockAndYield(t, e) ==
  IF BlockedOn(e) = {} THEN Yield(t, ready, task_states)
  ELSE IF IsFull(ready) THEN Panic
  ELSE Yield(t, Enqueue(ready, FirstBlocked(e)),
             [task_states EXCEPT ![FirstBlocked(e)] = ReadyTask])

\* The message: what it says does not matter here.
Message == 1

SendAndYield(t, h, x) ==
  /\ Running(t) /\ sends < MaxSent
  /\ IpcSend(t, h, Message, x)
  /\ sends' = IF SendOutcome(t, h, x) \in Accepted THEN sends + 1 ELSE sends
  /\ IF SendOutcome(t, h, x) = "Delivered" THEN UnblockAndYield(t, Ep(t, h))
     ELSE UNCHANGED <<ready, task_states, current, panicked>>
  /\ returned' = [by |-> t, out |-> SendOutcome(t, h, x)]
  /\ UNCHANGED <<started, resuming, wait_cap>>

\* Phase 2: block on e and switch to the next ready task; with none, undo
\* the scheduler's part and return Deadlock.
Block(t, h, e) ==
  IF IsEmpty(ready)
  THEN /\ returned' = [by |-> t, out |-> "Deadlock"]
       /\ UNCHANGED <<ready, task_states, current, resuming, wait_cap>>
  ELSE /\ ready' = Dequeue(ready)
       /\ current' = Front(ready)
       /\ task_states' = [task_states EXCEPT ![t] = TaskState("Blocked", e),
                                             ![Front(ready)] = ReadyTask]
       /\ resuming' = [resuming EXCEPT ![t] = TRUE]
       /\ wait_cap' = [wait_cap EXCEPT ![t] = h]
       /\ UNCHANGED returned

RecvAndYield(t, h) ==
  /\ Running(t)
  /\ IpcRecv(t, h)
  /\ IF RecvResult(t, h) = "Pending" THEN Block(t, h, Ep(t, h))
     ELSE /\ returned' = [by |-> t, out |-> RecvResult(t, h)]
          /\ UNCHANGED <<ready, task_states, current, resuming, wait_cap>>
  /\ UNCHANGED <<started, panicked, sends>>

\* Phase 3: the task runs again and looks its endpoint up once more.
ResumeRecv(t) ==
  /\ started /\ ~panicked /\ current = t /\ resuming[t]
  /\ IpcRecv(t, wait_cap[t])
  /\ LET out == RecvResult(t, wait_cap[t]) IN
     returned' = [by |-> t, out |-> IF out = "Pending" THEN "PendingAfterResume" ELSE out]
  /\ resuming' = [resuming EXCEPT ![t] = FALSE]
  /\ wait_cap' = [wait_cap EXCEPT ![t] = NoHandle]
  /\ UNCHANGED <<ready, task_states, current, started, panicked, sends>>

\* The running task drops a capability (cap_drop), which makes room.
DropCap(t, h) ==
  /\ Running(t)
  /\ Has(t, h) /\ ~HasChildren(t, h)
  /\ tables' = [tables EXCEPT ![t] = Without(@, h)]
  /\ UNCHANGED <<ep_arena, states, slot_generations, next_cap, sched_vars>>

\* create_endpoint, with a capability for every task that has room.
CreateEndpoint(t) ==
  /\ Running(t) /\ ep_arena.free_head # None
  /\ ep_arena' = Allocate(ep_arena, "endpoint")
  /\ tables' = [c \in Tasks |->
       IF TableFull(c) THEN tables[c]
       ELSE WithRoot(tables[c], next_cap + c,
                     [rights |-> NewRights[c], object |-> EpObject(FreshId(ep_arena))])]
  /\ next_cap' = next_cap + QueueCapacity
  /\ UNCHANGED <<states, slot_generations, sched_vars>>

\* A destroy path that does not look for references.
DestroyEndpoint_Referenced(t, e) ==
  /\ Running(t)
  /\ StateOf(e).cap = NoCap /\ e.generation < MaxReuse
  /\ ep_arena' = Release(ep_arena, e)
  /\ UNCHANGED <<states, slot_generations, tables, next_cap, sched_vars>>

\* destroy_endpoint of an endpoint that no table names (references_object)
\* and that holds no capability in flight, as its callers must see to.
DestroyEndpoint(t, e) ==
  /\ Running(t)
  /\ ~Referenced(EpObject(e)) /\ StateOf(e).cap = NoCap /\ e.generation < MaxReuse
  /\ ep_arena' = Release(ep_arena, e)
  /\ UNCHANGED <<states, slot_generations, tables, next_cap, sched_vars>>

Next ==
  \/ \E t \in Tasks : AddTask(t)
  \/ Start
  \/ \E t \in Tasks :
       \/ YieldNow(t)
       \/ ResumeRecv(t)
       \/ \E h \in DOMAIN tables[t] :
            \/ \E x \in DOMAIN tables[t] \cup {NoHandle} : SendAndYield(t, h, x)
            \/ RecvAndYield(t, h)
            \/ DropCap(t, h)
       \/ CreateEndpoint(t)
       \/ \E e \in LiveEndpoints : DestroyEndpoint(t, e)

Spec == Init /\ [][Next]_vars

\* Cooperation: every task yields sooner or later, the bridge code of a task
\* that runs again goes on, and the boot code does its part.
Cooperative ==
  /\ Spec
  /\ WF_vars(\E t \in Tasks : AddTask(t)) /\ WF_vars(Start)
  /\ \A t \in Tasks : WF_vars(YieldNow(t)) /\ WF_vars(ResumeRecv(t))

-----------------------------------------------------------------------------
(* Properties.                                                             *)

TypeOK ==
  /\ ready \in [buf : [Cells -> Tasks \cup {NoTask}], head : Cells, len : 0 .. QueueCapacity]
  /\ task_states \in [Tasks -> [st : {"Idle", "Ready", "Blocked"}, on : Endpoints \cup {NoEp}]]
  /\ current \in Tasks \cup {NoTask}
  /\ started \in BOOLEAN /\ panicked \in BOOLEAN
  /\ resuming \in [Tasks -> BOOLEAN]

\* The queue holds exactly the ready tasks that are not running, each once:
\* no interleaving of yields, wake-ups and blocking loses a task or queues
\* the running one.
ReadyExact ==
  LET q == Contents(ready) IN
  /\ \A i, j \in 1 .. Len(q) : q[i] = q[j] => i = j
  /\ {q[i] : i \in 1 .. Len(q)} = {t \in Tasks : task_states[t].st = "Ready"} \ {current}
  /\ started => current \in Tasks /\ task_states[current].st = "Ready"

\* The panics of the scheduler ("ready queue full on unblock", "ready queue
\* full on yield re-enqueue", start with an empty queue) and the boot code's
\* "add_task failed: queue full" are unreachable.
NoPanic == ~panicked

\* No wake-up is lost: a blocked task is registered at the endpoint it waits
\* on, and that endpoint is alive, so the next send there delivers to it and
\* wakes it.
WaiterRegistered ==
  \A t \in Tasks : IsBlocked(t) =>
    /\ task_states[t].on \in LiveEndpoints
    /\ StateOf(task_states[t].on).kind = "RecvWaiting"

\* What ipc_recv_and_yield checked before its context switch still holds
\* after it: the capability still names the endpoint the task blocked on,
\* with RECV, and the endpoint lives, so phase 3 never returns
\* InvalidCapability and never receives from a newer endpoint in the slot.
WaitCapValid ==
  \A t \in Tasks : resuming[t] =>
    /\ RecvCheck(t, wait_cap[t]) = "Ok"
    /\ IsBlocked(t) => Ep(t, wait_cap[t]) = task_states[t].on

\* At most one task is blocked on an endpoint, which is what lets
\* unblock_receiver_on stop at the first one it finds.
SingleWaiter ==
  \A t, u \in Tasks :
    IsBlocked(t) /\ IsBlocked(u) /\ task_states[t].on = task_states[u].on => t = u

\* The boot code and create_endpoint give the tasks of T no right of R, and
\* no task a transferable capability with one.
KeptFrom(T, R) ==
  \A c \in Tasks :
    /\ (c \in T \/ "TRANSFER" \in NewRights[c]) => NewRights[c] \cap R = {}
    /\ \A h \in DOMAIN InitTables[c] : LET r == InitTables[c][h].rights IN
         (c \in T \/ "TRANSFER" \in r) => r \cap R = {}

\* Nobody but a and b receives and, unless they are one task, nobody else
\* sends.
Peers(a, b) ==
  /\ KeptFrom(Tasks \ {a, b}, {"RECV"})
  /\ a = b \/ KeptFrom(Tasks \ {a, b}, {"SEND"})

\* A task woken inside ipc_recv_and_yield finds its message: the second
\* ipc_recv never returns Pending (IpcError::PendingAfterResume).
ResumeFindsMessage == returned.out # "PendingAfterResume"

\* With a task registered that never receives (the idle task), blocking
\* always finds a task to switch to: SchedError::Deadlock is unreachable.
NeverDeadlock == returned.out # "Deadlock"

\* After a Deadlock return the caller can retry: the retry is not refused
\* because of what the failed call left behind.
RetryAfterDeadlock ==
  [][returned.out = "Deadlock" => returned' # [by |-> returned.by, out |-> "QueueFull"]]_vars

\* A delivery reaches the receiver: a task woken out of a blocked receive
\* runs again and returns from the call, whatever the others send, receive
\* and yield meanwhile (the queue is FIFO and loses nobody).
WokenReturns ==
  \A t \in Tasks : (resuming[t] /\ ~IsBlocked(t)) ~> ~resuming[t]
=============================================================================
