-------------------------- MODULE SchedWaits_proofs --------------------------
(***************************************************************************)
(* What the blocking receive depends on, for every number of tasks and     *)
(* endpoints: a task that may not receive keeps the system from            *)
(* deadlocking, and between two peers every wake-up brings a message.      *)
(***************************************************************************)
EXTENDS Sched_proofs

-----------------------------------------------------------------------------
(* Rights that are kept from some tasks.                                   *)

\* The tasks of T hold no right of R, and none is on its way to them.
Confined(T, R) ==
  /\ \A c \in Tasks : \A h \in DOMAIN tables[c] :
       (c \in T \/ "TRANSFER" \in tables[c][h].rights) => tables[c][h].rights \cap R = {}
  /\ \A s \in EpSlots : states[s].cap # NoCap => states[s].cap.rights \cap R = {}

\* What an endpoint holds is confined if its slot is.
LEMMA ConfinedState ==
  ASSUME NEW T, NEW R, Confined(T, R), IpcOK, NEW e \in LiveEndpoints
  PROVE  StateOf(e).cap # NoCap => StateOf(e).cap.rights \cap R = {}
BY Zenon DEF Confined, IpcOK, StateOf, IdleState, State, LiveEndpoints, Endpoints

\* ipc_send moves only transferable capabilities.
LEMMA SendConfined ==
  ASSUME NEW T, NEW R, Confined(T, R), IpcOK, NEW t \in Tasks, NEW h \in DOMAIN tables[t],
         NEW x \in DOMAIN tables[t] \cup {NoHandle}, NEW m, IpcSend(t, h, m, x)
  PROVE  Confined(T, R)'
<1>1. \A c \in Tasks : \A g \in DOMAIN tables'[c] :
        g \in DOMAIN tables[c] /\ tables'[c][g] = tables[c][g]
  BY DEF IpcSend, Without, IpcOK
<1>2. \A s \in EpSlots : states'[s].cap # NoCap => states'[s].cap.rights \cap R = {}
  <2>1. CASE SendCheck(t, h, x) # "Ok"
    BY <2>1 DEF IpcSend, Confined
  <2>2. CASE SendCheck(t, h, x) = "Ok"
    <3>1. PICK e : e = Ep(t, h)
      OBVIOUS
    <3>2. e \in LiveEndpoints
      <4>1. ValidEp(t, h, "SEND") /\ Contains(ep_arena, e)
        BY <2>2, <3>1 DEF SendCheck
      <4> QED  BY <3>1, <4>1 DEF ValidEp, IpcOK, ObjectOK, EpObject, Ep, LiveEndpoints
    <3> DEFINE out == SendOutcome(t, h, x)
               s == IF out = "Delivered" THEN State("RecvComplete", m, Carried(t, x))
                    ELSE IF out = "Enqueued" THEN State("SendPending", m, Carried(t, x))
                    ELSE StateOf(e)
    <3>3. SetState(e, s)
      BY <2>2, <3>1, Zenon DEF IpcSend
    <3>4. s.cap # NoCap => s.cap.rights \cap R = {}
      <4>1. Carried(t, x) # NoCap => Carried(t, x).rights \cap R = {}
        <5>1. x # NoHandle => "TRANSFER" \in tables[t][x].rights
          BY <2>2 DEF SendCheck
        <5> QED  BY <5>1 DEF Carried, Confined
      <4> QED  BY <3>2, <4>1, ConfinedState DEF State
    <3> HIDE DEF s, out
    <3>5. \A i \in EpSlots : states'[i] = IF i = e.index THEN s ELSE states[i]
      BY <3>3 DEF SetState, IpcOK
    <3> QED  BY <3>4, <3>5 DEF Confined
  <2> QED  BY <2>1, <2>2
<1> QED  BY <1>1, <1>2 DEF Confined

\* ipc_recv installs only confined capabilities.
LEMMA RecvConfined ==
  ASSUME NEW T, NEW R, Confined(T, R), IpcOK, NEW t \in Tasks, NEW h, IpcRecv(t, h)
  PROVE  Confined(T, R)'
<1>1. CASE RecvCheck(t, h) # "Ok"
  <2>1. UNCHANGED <<states, tables>>
    BY <1>1, Zenon DEF IpcRecv, RecvResult, RecvOutcome, RecvCheck, Lost
  <2> QED  BY <2>1 DEF Confined
<1>2. CASE RecvCheck(t, h) = "Ok"
  <2>1. PICK e : e = Ep(t, h)
    OBVIOUS
  <2>2. e \in LiveEndpoints
    <3>1. ValidEp(t, h, "RECV") /\ Contains(ep_arena, e)
      BY <1>2, <2>1 DEF RecvCheck
    <3> QED  BY <2>1, <3>1 DEF ValidEp, Has, IpcOK, ObjectOK, EpObject, Ep, LiveEndpoints
  <2> DEFINE out == RecvOutcome(t, h)
             installs == RecvResult(t, h) = "Received" /\ StateOf(e).cap # NoCap
             s == IF out = "Received" THEN IdleState
                  ELSE IF out = "Pending" THEN State("RecvWaiting", 0, NoCap)
                  ELSE StateOf(e)
  <2>3. /\ SetState(e, s)
        /\ tables' = IF installs THEN [tables EXCEPT ![t] = WithRoot(@, next_cap, StateOf(e).cap)]
                     ELSE tables
    BY <1>2, <2>1, Zenon DEF IpcRecv
  <2>4. s.cap # NoCap => s.cap.rights \cap R = {}
    BY <2>2, ConfinedState DEF State, IdleState
  <2>5. installs => StateOf(e).cap.rights \cap R = {}
    BY <2>2, ConfinedState
  <2> HIDE DEF s, out, installs
  <2>6. \A i \in EpSlots : states'[i] = IF i = e.index THEN s ELSE states[i]
    BY <2>3 DEF SetState, IpcOK
  <2>7. \A c \in Tasks : \A g \in DOMAIN tables'[c] :
          \/ g \in DOMAIN tables[c] /\ tables'[c][g] = tables[c][g]
          \/ tables'[c][g].rights \cap R = {}
    <3>1. CASE ~installs
      BY <2>3, <3>1
    <3>2. CASE installs
      <4> DEFINE w == WithRoot(tables[t], next_cap, StateOf(e).cap)
      <4>1. tables'[t] = w /\ \A c \in Tasks : c # t => tables'[c] = tables[c]
        BY <2>3, <3>2 DEF IpcOK
      <4>2. \A g \in DOMAIN w : \/ g \in DOMAIN tables[t] /\ w[g] = tables[t][g]
                                \/ w[g].rights = StateOf(e).cap.rights
        BY DEF WithRoot
      <4> HIDE DEF w
      <4> QED  BY <2>5, <3>2, <4>1, <4>2
    <3> QED  BY <3>1, <3>2
  <2> QED  BY <2>4, <2>6, <2>7, Zenon DEF Confined
<1> QED  BY <1>1, <1>2

\* Rights that the boot code and create_endpoint keep from T stay out of T.
LEMMA ConfinedInit ==
  ASSUME NEW T, NEW R, KeptFrom(T, R), Init
  PROVE  Confined(T, R)
BY TablesAssumption DEF KeptFrom, Init, Confined, IdleState, State

\* A step hands no task of T a right of R.
LEMMA ConfinedStep ==
  ASSUME NEW T, NEW R, KeptFrom(T, R), IInv, Confined(T, R), [Next]_vars
  PROVE  Confined(T, R)'
<1>0. IpcOK
  BY DEF IInv
<1>1. CASE UNCHANGED <<states, tables>>
  BY <1>1 DEF Confined
<1>2. ASSUME NEW t \in Tasks, ResumeRecv(t) PROVE Confined(T, R)'
  <2>1. PICK h : h = wait_cap[t]
    OBVIOUS
  <2>2. IpcRecv(t, h)
    BY <1>2, <2>1 DEF ResumeRecv
  <2> QED  BY <1>0, <2>2, RecvConfined
<1>3. ASSUME NEW t \in Tasks, NEW h \in DOMAIN tables[t],
             NEW x \in DOMAIN tables[t] \cup {NoHandle}, SendAndYield(t, h, x)
      PROVE  Confined(T, R)'
  <2>1. PICK m : m = Message
    OBVIOUS
  <2>2. IpcSend(t, h, m, x)
    BY <1>3, <2>1 DEF SendAndYield
  <2> QED  BY <1>0, <2>2, SendConfined
<1>4. ASSUME NEW t \in Tasks, NEW h \in DOMAIN tables[t], RecvAndYield(t, h)
      PROVE  Confined(T, R)'
  <2>1. IpcRecv(t, h)
    BY <1>4 DEF RecvAndYield
  <2> QED  BY <1>0, <2>1, RecvConfined
<1>5. ASSUME NEW t \in Tasks, NEW h \in DOMAIN tables[t], DropCap(t, h)
      PROVE  Confined(T, R)'
  <2>1. states' = states /\ \A c \in Tasks : \A g \in DOMAIN tables'[c] :
          g \in DOMAIN tables[c] /\ tables'[c][g] = tables[c][g]
    BY <1>0, <1>5 DEF DropCap, Without, IpcOK
  <2> QED  BY <2>1 DEF Confined
<1>6. ASSUME NEW t \in Tasks, CreateEndpoint(t)
      PROVE  Confined(T, R)'
  <2>1. states' = states /\ \A c \in Tasks : \A g \in DOMAIN tables'[c] :
          \/ g \in DOMAIN tables[c] /\ tables'[c][g] = tables[c][g]
          \/ tables'[c][g].rights = NewRights[c]
    BY <1>6, Zenon DEF CreateEndpoint, WithRoot
  <2> QED  BY <2>1 DEF Confined, KeptFrom
<1>7. ASSUME NEW t \in Tasks, AddTask(t) \/ YieldNow(t)
      PROVE  UNCHANGED <<states, tables>>
  BY <1>7 DEF AddTask, YieldNow, ipc_vars
<1>8. ASSUME NEW t \in Tasks, NEW e \in LiveEndpoints, DestroyEndpoint(t, e)
      PROVE  UNCHANGED <<states, tables>>
  BY <1>8 DEF DestroyEndpoint
<1>9. Start \/ UNCHANGED vars => UNCHANGED <<states, tables>>
  BY DEF Start, vars, ipc_vars
<1> QED
  BY <1>1, <1>2, <1>3, <1>4, <1>5, <1>6, <1>7, <1>8, <1>9, Zenon DEF Next

-----------------------------------------------------------------------------
(* The idle task keeps blocking from failing.                              *)

\* Delivery, yield and boot block nobody.
LEMMA UnblockSend ==
  ASSUME IInv, NEW t \in Tasks, NEW h \in DOMAIN tables[t],
         NEW x \in DOMAIN tables[t] \cup {NoHandle}, SendAndYield(t, h, x), NEW u \in Tasks
  PROVE  IsBlocked(u)' => task_states'[u] = task_states[u] /\ IsBlocked(u)
<1>1. started /\ current = t /\ UNCHANGED started
  BY DEF SendAndYield, Running
<1>2. CASE SendOutcome(t, h, x) = "Delivered"
  <2>1. PICK e : e = Ep(t, h)
    OBVIOUS
  <2>2. UnblockAndYield(t, e)
    BY <1>2, <2>1 DEF SendAndYield
  <2> QED  BY <1>1, <2>2, UnblockEffect DEF IsBlocked
<1>3. CASE SendOutcome(t, h, x) # "Delivered"
  BY <1>3 DEF SendAndYield, IsBlocked
<1> QED  BY <1>2, <1>3

\* The results of the two primitives.
LEMMA Outcomes ==
  ASSUME NEW c, NEW h, NEW x
  PROVE  /\ SendOutcome(c, h, x) \in {"Delivered", "Enqueued", "QueueFull", "InvalidCapability",
                                      "InvalidTransferCap"}
         /\ RecvResult(c, h) \in {"Received", "Pending", "QueueFull", "InvalidCapability",
                                  "ReceiverTableFull"}
<1>1. SendOutcome(c, h, x) \in {"Delivered", "Enqueued", "QueueFull", "InvalidCapability",
                                "InvalidTransferCap"}
  BY DEF SendOutcome, SendCheck
<1>2. RecvOutcome(c, h) \in {"Received", "Pending", "QueueFull", "InvalidCapability",
                             "ReceiverTableFull"}
  BY DEF RecvOutcome, RecvCheck
<1> QED  BY <1>1, <1>2 DEF RecvResult

\* A receive blocks only with RECV in the caller's table.
LEMMA PendingNeedsRecv ==
  ASSUME NEW t, NEW h, RecvCheck(t, h) = "Ok"
  PROVE  h \in DOMAIN tables[t] /\ "RECV" \in tables[t][h].rights
BY DEF RecvCheck, ValidEp, Has

\* The idle task does not block, so blocking always finds a task to run.
IdleReady(idle) ==
  Confined({idle}, {"RECV"}) /\ ~IsBlocked(idle) /\ NeverDeadlock

\* A step leaves a task that cannot receive ready.
LEMMA IdleReadyStep ==
  ASSUME NEW idle \in Tasks, KeptFrom({idle}, {"RECV"}), IInv, IdleReady(idle), [Next]_vars
  PROVE  IdleReady(idle)'
<1>1. Confined({idle}, {"RECV"})'
  BY ConfinedStep DEF IdleReady
<1>2. DOMAIN task_states = Tasks /\ ReadyTask.st = "Ready"
  BY DEF IInv, SchedOK, Normal, ReadyTask, TaskState
<1>3. ~IsBlocked(idle) /\ NeverDeadlock
  BY DEF IdleReady
<1> DEFINE G == ~IsBlocked(idle)' /\ NeverDeadlock'
<1>4. ASSUME UNCHANGED <<task_states, returned>> PROVE G
  BY <1>3, <1>4 DEF IsBlocked, NeverDeadlock
<1>5. ASSUME NEW t \in Tasks, AddTask(t) PROVE G
  <2>1. returned' = returned
    BY <1>5 DEF AddTask
  <2>2. ~IsBlocked(idle)'
    BY <1>2, <1>3, <1>5 DEF AddTask, Panic, IsBlocked
  <2> QED  BY <1>3, <2>1, <2>2 DEF NeverDeadlock
<1>6. ASSUME Start PROVE G
  <2>1. returned' = returned
    BY <1>6 DEF Start
  <2>2. ~IsBlocked(idle)'
    BY <1>2, <1>3, <1>6 DEF Start, Panic, IsBlocked
  <2> QED  BY <1>3, <2>1, <2>2 DEF NeverDeadlock
<1>7. ASSUME NEW t \in Tasks, YieldNow(t) PROVE G
  <2>1. returned' = returned /\ Yield(t, ready, task_states)
    BY <1>7 DEF YieldNow
  <2>2. ~IsBlocked(idle)'
    BY <1>2, <1>3, <2>1 DEF Yield, Panic, IsBlocked
  <2> QED  BY <1>3, <2>1, <2>2 DEF NeverDeadlock
<1>8. ASSUME NEW t \in Tasks, ResumeRecv(t) PROVE G
  <2>1. PICK h : h = wait_cap[t]
    OBVIOUS
  <2>2. returned'.out = (IF RecvResult(t, h) = "Pending" THEN "PendingAfterResume" ELSE RecvResult(t, h))
    BY <1>8, <2>1 DEF ResumeRecv
  <2>3. returned'.out # "Deadlock"
    BY <2>2, Outcomes
  <2>4. task_states' = task_states
    BY <1>8 DEF ResumeRecv
  <2> QED  BY <1>3, <2>3, <2>4 DEF NeverDeadlock, IsBlocked
<1>9. ASSUME NEW t \in Tasks, NEW h \in DOMAIN tables[t],
             NEW x \in DOMAIN tables[t] \cup {NoHandle}, SendAndYield(t, h, x)
      PROVE  G
  <2>1. returned'.out = SendOutcome(t, h, x)
    BY <1>9 DEF SendAndYield
  <2>2. returned'.out # "Deadlock"
    BY <2>1, Outcomes
  <2>3. ~IsBlocked(idle)'
    BY <1>3, <1>9, UnblockSend
  <2> QED  BY <2>2, <2>3 DEF NeverDeadlock
<1>10. ASSUME NEW t \in Tasks, NEW h \in DOMAIN tables[t], RecvAndYield(t, h)
       PROVE  G
  <2>1. PICK e : e = Ep(t, h)
    OBVIOUS
  <2>2. started /\ current = t /\ IpcRecv(t, h)
    BY <1>10, Zenon DEF RecvAndYield, Running
  <2>3. CASE RecvResult(t, h) # "Pending"
    <3>1. returned'.out = RecvResult(t, h) /\ task_states' = task_states
      BY <1>10, <2>3 DEF RecvAndYield
    <3>2. returned'.out # "Deadlock"
      BY <3>1, Outcomes
    <3> QED  BY <1>3, <3>1, <3>2 DEF NeverDeadlock, IsBlocked
  <2>4. CASE RecvResult(t, h) = "Pending"
    <3>1. RecvCheck(t, h) = "Ok"
      BY <2>1, <2>2, <2>4, RecvWaiters, Zenon
    <3>2. t # idle
      BY <3>1, PendingNeedsRecv, Zenon DEF IdleReady, Confined
    <3>3. idle \in ReadyIn(task_states) \ {t}
      <4>1. task_states[idle].st # "Idle" /\ task_states[idle] \in TaskStates
        BY <2>2, RunningTask, Zenon DEF Normal
      <4> QED  BY <1>3, <3>2, <4>1, Zenon DEF ReadyIn, IsBlocked, TaskStates
    <3>4. ~IsEmpty(ready)
      <4> DEFINE S == ReadyIn(task_states) \ {t}
      <4>1. S \in SUBSET Tasks /\ S # {} /\ Queues1(ready, S)
        BY <2>2, <3>3, RunningTask, Zenon DEF ReadyIn
      <4> HIDE DEF S
      <4> QED  BY <4>1, DequeueTask, Zenon
    <3>5. /\ returned' = returned
          /\ task_states' = [task_states EXCEPT ![t] = TaskState("Blocked", e),
                                                ![Front(ready)] = ReadyTask]
      BY <1>10, <2>1, <2>4, <3>4 DEF RecvAndYield, Block
    <3>6. ~IsBlocked(idle)'
      BY <1>2, <1>3, <3>2, <3>5 DEF IsBlocked
    <3> QED  BY <1>3, <3>5, <3>6 DEF NeverDeadlock
  <2> QED  BY <2>3, <2>4
<1>11. ASSUME NEW t \in Tasks, NEW h \in DOMAIN tables[t], DropCap(t, h)
       PROVE  UNCHANGED <<task_states, returned>>
  BY <1>11 DEF DropCap, sched_vars
<1>12. ASSUME NEW t \in Tasks, CreateEndpoint(t) PROVE UNCHANGED <<task_states, returned>>
  BY <1>12 DEF CreateEndpoint, sched_vars
<1>13. ASSUME NEW t \in Tasks, NEW e \in LiveEndpoints, DestroyEndpoint(t, e)
       PROVE  UNCHANGED <<task_states, returned>>
  BY <1>13 DEF DestroyEndpoint, sched_vars
<1>14. UNCHANGED vars => UNCHANGED <<task_states, returned>>
  BY DEF vars, sched_vars
<1>15. G
  BY <1>4, <1>5, <1>6, <1>7, <1>8, <1>9, <1>10, <1>11, <1>12, <1>13, <1>14, Zenon DEF Next
<1> QED  BY <1>1, <1>15 DEF IdleReady

\* Where one task is never given RECV, the idle task of the boot code,
\* SchedError::Deadlock is unreachable.
THEOREM NeverDeadlockTheorem ==
  ASSUME NEW idle \in Tasks, KeptFrom({idle}, {"RECV"})
  PROVE  Spec => []NeverDeadlock
<1>1. Init => IdleReady(idle)
  <2>1. Init => ~IsBlocked(idle) /\ NeverDeadlock
    BY DEF Init, IsBlocked, TaskState, NeverDeadlock
  <2> QED  BY <2>1, ConfinedInit DEF IdleReady
<1>2. IInv /\ IdleReady(idle) /\ [Next]_vars => IdleReady(idle)'
  BY IdleReadyStep
<1>3. IdleReady(idle) => NeverDeadlock
  BY DEF IdleReady
<1> QED  BY <1>1, <1>2, <1>3, AlwaysIInv, PTL DEF Spec

-----------------------------------------------------------------------------
(* A woken task finds its message.                                         *)

\* t was woken inside ipc_recv_and_yield and has not yet gone on.
Woken(t) == resuming[t] /\ ~IsBlocked(t)

\* Its message is still there, and none of P runs before it.
Served(t, P) ==
  /\ StateOf(Ep(t, wait_cap[t])).kind = "RecvComplete"
  /\ \A u \in P \ {t} : current = t \/ Ahead(ready, t, u)

PeersOK(a, b) ==
  /\ Confined(Tasks \ {a, b}, {"RECV"})
  /\ a = b \/ Confined(Tasks \ {a, b}, {"SEND"})
  /\ ~started => \A t \in Tasks : ~resuming[t]
  /\ \A t \in Tasks : Woken(t) => Served(t, {a, b})
  /\ ResumeFindsMessage

\* Only the peers wait.
LEMMA WaiterIsPeer ==
  ASSUME NEW a, NEW b, IInv, PeersOK(a, b), NEW t \in Tasks, resuming[t]
  PROVE  t \in {a, b}
BY WaitsAtLive, Zenon DEF IInv, PeersOK, Confined, Has

\* While a peer runs, no other task is woken.
LEMMA OnlyRunnerWoken ==
  ASSUME NEW a, NEW b, IInv, PeersOK(a, b), NEW c \in Tasks, c \in {a, b}, started, current = c,
         NEW t \in Tasks, Woken(t)
  PROVE  t = c
<1> SUFFICES ASSUME t # c PROVE FALSE
  OBVIOUS
<1>1. Ahead(ready, t, c)
  BY Zenon DEF PeersOK, Served
<1>2. c \in Members(ready)
  BY <1>1 DEF Ahead, Members
<1>3. Members(ready) = ReadyIn(task_states) \ {c}
  BY RunningTask, Zenon DEF Queues1
<1> QED  BY <1>2, <1>3

\* A woken task stays served by a step that leaves its message, keeps the
\* order of the queue and lets nobody else run in its place.
LEMMA StaysServed ==
  ASSUME NEW a, NEW b, IInv, PeersOK(a, b), NEW t \in Tasks, Woken(t),
         wait_cap'[t] = wait_cap[t],
         tables'[t][wait_cap[t]] = tables[t][wait_cap[t]],
         \A f \in LiveEndpoints : StateOf(f).kind = "RecvComplete" => StateOf(f)' = StateOf(f),
         \A u : Ahead(ready, t, u) => current' = t \/ Ahead(ready', t, u),
         current = t => current' = t
  PROVE  Served(t, {a, b})'
<1>1. PICK f : f = Ep(t, wait_cap[t])
  BY Zenon
<1>2. f \in LiveEndpoints /\ StateOf(f).kind = "RecvComplete"
  BY <1>1, WaitsAtLive, Zenon DEF IInv, Woken, PeersOK, Served
<1>3. Ep(t, wait_cap[t])' = f
  BY <1>1, Zenon DEF Ep
<1>4. StateOf(Ep(t, wait_cap[t]))'.kind = "RecvComplete"
  <2>1. StateOf(f)'.kind = "RecvComplete"
    BY <1>2, Zenon
  <2> QED  BY <1>3, <2>1, Zenon DEF StateOf, Stale
<1>5. \A u \in {a, b} \ {t} : current' = t \/ Ahead(ready', t, u)
  BY Zenon DEF PeersOK, Served
<1> QED  BY <1>4, <1>5, Zenon DEF Served

\* A send wakes a peer, ahead of the other one.
LEMMA SendServed ==
  ASSUME NEW a, NEW b, IInv, PeersOK(a, b), NEW c \in Tasks, NEW h \in DOMAIN tables[c],
         NEW x \in DOMAIN tables[c] \cup {NoHandle}, SendAndYield(c, h, x),
         NEW t \in Tasks, Woken(t)'
  PROVE  Served(t, {a, b})'
<1>1. PICK e : e = Ep(c, h)
  OBVIOUS
<1>2. /\ started /\ current = c /\ ~resuming[c] /\ IpcSend(c, h, Message, x)
      /\ UNCHANGED <<started, resuming, wait_cap>>
  BY Zenon DEF SendAndYield, Running
<1>3. /\ \A d \in Tasks : d # c => tables'[d] = tables[d]
      /\ SendOutcome(c, h, x) = "Delivered" =>
           e \in LiveEndpoints /\ StateOf(e)'.kind = "RecvComplete"
      /\ \A f \in LiveEndpoints :
           ~(SendOutcome(c, h, x) \in Accepted /\ f = e) => StateOf(f)' = StateOf(f)
  <2>1. PICK m : m = Message
    OBVIOUS
  <2>2. IpcOK /\ IpcSend(c, h, m, x)
    BY <1>2, <2>1 DEF IInv
  <2>3. SendOutcome(c, h, x) = "Delivered" => SendOutcome(c, h, x) \in Accepted
    BY DEF Accepted
  <2>4. Sent(c, h, x, e)
    BY <1>1, <2>2, SendEffect
  <2> QED  BY <2>3, <2>4, Zenon DEF Sent
<1>4. \A f \in LiveEndpoints : StateOf(f).kind = "RecvComplete" => StateOf(f)' = StateOf(f)
  <2>1. SendOutcome(c, h, x) \in Accepted => StateOf(e).kind \notin Holding
    BY <1>1, Zenon DEF SendOutcome, SendCheck, Accepted
  <2> QED  BY <1>3, <2>1, Zenon DEF Holding
<1>5. resuming[t] /\ t # c /\ tables'[t] = tables[t] /\ wait_cap'[t] = wait_cap[t]
  BY <1>2, <1>3, Zenon DEF Woken
<1>6. CASE SendOutcome(c, h, x) # "Delivered"
  <2>1. UNCHANGED <<ready, task_states, current>>
    BY <1>6, Zenon DEF SendAndYield
  <2>2. Woken(t)
    BY <1>2, <2>1, Zenon DEF Woken, IsBlocked
  <2> QED  BY <1>4, <1>5, <2>1, <2>2, StaysServed, Zenon
<1>7. CASE SendOutcome(c, h, x) = "Delivered"
  <2>1. /\ \A v, u : Ahead(ready, v, u) => current' = v \/ Ahead(ready', v, u)
        /\ \A w \in Tasks : IsBlocked(w) /\ ~IsBlocked(w)' =>
             task_states[w].on = e /\ (current' = w \/ Ahead(ready', w, c))
    <3>1. UnblockAndYield(c, e)
      BY <1>1, <1>7, Zenon DEF SendAndYield
    <3> QED  BY <1>2, <3>1, UnblockEffect, Zenon
  <2>2. CASE Woken(t)
    BY <1>2, <1>4, <1>5, <2>1, <2>2, StaysServed, Zenon
  <2>3. CASE ~Woken(t)
    <3>1. IsBlocked(t) /\ task_states[t].on = e /\ (current' = t \/ Ahead(ready', t, c))
      BY <1>5, <2>1, <2>3, Zenon DEF Woken
    <3>2. Ep(t, wait_cap[t])' = e
      BY <1>5, <3>1, Zenon DEF Ep, IInv, WaitOK, WaitCapValid
    <3>3. StateOf(Ep(t, wait_cap[t]))'.kind = "RecvComplete"
      <4>1. StateOf(e)'.kind = "RecvComplete"
        BY <1>3, <1>7, Zenon
      <4> QED  BY <3>2, <4>1, Zenon DEF StateOf, Stale
    <3>4. \A u \in {a, b} \ {t} : u = c
      <4>1. t \in {a, b}
        BY <1>5, WaiterIsPeer, Zenon
      <4>2. "SEND" \in tables[c][h].rights
        BY <1>7, Zenon DEF SendOutcome, SendCheck, ValidEp
      <4>3. a # b => c \in {a, b}
        BY <4>2, Zenon DEF PeersOK, Confined
      <4> QED  BY <1>5, <4>1, <4>3, Zenon
    <3> QED  BY <3>1, <3>3, <3>4, Zenon DEF Served
  <2> QED  BY <2>2, <2>3
<1> QED  BY <1>6, <1>7

\* A receive by a task that is not woken: were it a peer, nobody would be.
LEMMA RecvServed ==
  ASSUME NEW a, NEW b, IInv, PeersOK(a, b), NEW c \in Tasks, NEW h \in DOMAIN tables[c],
         RecvAndYield(c, h), NEW t \in Tasks, Woken(t)'
  PROVE  Served(t, {a, b})'
<1>1. PICK e : e = Ep(c, h)
  OBVIOUS
<1>2. started /\ current = c /\ ~resuming[c] /\ IpcRecv(c, h) /\ UNCHANGED started
  BY Zenon DEF RecvAndYield, Running
<1>3. /\ UNCHANGED ep_arena
      /\ \A d \in Tasks : d # c => tables'[d] = tables[d]
      /\ RecvResult(c, h) = "Pending" => RecvCheck(c, h) = "Ok" /\ e \in LiveEndpoints
      /\ \A f \in LiveEndpoints : StateOf(f)' = StateOf(f) \/ RecvCheck(c, h) = "Ok"
  <2>1. Received(c, h, e)
    BY <1>1, <1>2, RecvEffect, Zenon DEF IInv
  <2> QED  BY <2>1, Zenon DEF Received
<1>4. CASE RecvCheck(c, h) # "Ok"
  <2>1. UNCHANGED <<ready, task_states, current, resuming, wait_cap>>
    BY <1>3, <1>4, Zenon DEF RecvAndYield
  <2>2. Woken(t) /\ t # c
    BY <1>2, <2>1, Zenon DEF Woken, IsBlocked
  <2> QED  BY <1>3, <1>4, <2>1, <2>2, StaysServed, Zenon
<1>5. CASE RecvCheck(c, h) = "Ok"
  <2>1. c \in {a, b}
    BY <1>5, PendingNeedsRecv, Zenon DEF PeersOK, Confined
  <2>2. ~Woken(t)
    BY <1>2, <2>1, OnlyRunnerWoken, Zenon DEF Woken
  <2>3. CASE UNCHANGED <<task_states, resuming>>
    BY <2>2, <2>3 DEF Woken, IsBlocked
  <2>4. CASE ~UNCHANGED <<task_states, resuming>>
    <3>1. RecvResult(c, h) = "Pending" /\ ~IsEmpty(ready) /\ Block(c, h, e)
      BY <1>1, <2>4, Zenon DEF RecvAndYield, Block
    <3>2. /\ ready' = Dequeue(ready) /\ current' = Front(ready)
          /\ task_states' = [task_states EXCEPT ![c] = TaskState("Blocked", e),
                                                ![Front(ready)] = ReadyTask]
          /\ resuming' = [resuming EXCEPT ![c] = TRUE] /\ UNCHANGED panicked
      BY <3>1, Zenon DEF Block, RecvAndYield
    <3>3. e \in Endpoints
      BY <1>3, <3>1, Zenon DEF LiveEndpoints
    <3>4. /\ task_states'[c] = TaskState("Blocked", e)
          /\ \A u \in Tasks : u # c => task_states'[u] = task_states[u]
      BY <1>2, <3>1, <3>2, <3>3, BlockEffect, Zenon
    <3>5. CASE t = c
      BY <3>4, <3>5 DEF Woken, IsBlocked, TaskState
    <3>6. CASE t # c
      BY <2>2, <3>2, <3>4, <3>6, Zenon DEF Woken, IsBlocked, IInv, WaitOK
    <3> QED  BY <3>5, <3>6
  <2> QED  BY <2>3, <2>4
<1> QED  BY <1>4, <1>5

\* Phase 3 of a woken task collects its message.
LEMMA ResumeServed ==
  ASSUME NEW a, NEW b, IInv, PeersOK(a, b), NEW c \in Tasks, ResumeRecv(c)
  PROVE  ResumeFindsMessage' /\ \A t \in Tasks : ~Woken(t)'
<1>1. /\ started /\ current = c /\ resuming[c] /\ task_states' = task_states
      /\ resuming' = [resuming EXCEPT ![c] = FALSE]
  BY Zenon DEF ResumeRecv
<1>2. Woken(c)
  BY <1>1, RunningTask, Zenon DEF Woken
<1>3. ResumeFindsMessage'
  <2>1. PICK h : h = wait_cap[c]
    OBVIOUS
  <2>2. RecvCheck(c, h) = "Ok" /\ StateOf(Ep(c, h)).kind = "RecvComplete"
    BY <1>1, <1>2, <2>1, Zenon DEF IInv, WaitOK, WaitCapValid, PeersOK, Served
  <2>3. RecvResult(c, h) # "Pending"
    BY <2>2 DEF RecvResult, RecvOutcome, Holding
  <2>4. returned'.out = RecvResult(c, h)
    BY <2>1, <2>3, Zenon DEF ResumeRecv
  <2>5. returned'.out # "PendingAfterResume"
    BY <2>4, Outcomes
  <2> QED  BY <2>5 DEF ResumeFindsMessage
<1>4. ASSUME NEW t \in Tasks, Woken(t)' PROVE FALSE
  <2>1. t # c /\ Woken(t)
    BY <1>1, <1>4, Zenon DEF Woken, IsBlocked, IInv, WaitOK
  <2>2. c \in {a, b}
    BY <1>1, WaiterIsPeer
  <2> QED  BY <1>1, <2>1, <2>2, OnlyRunnerWoken, Zenon
<1> QED  BY <1>3, <1>4

\* Steps that leave the scheduler and the waiter states alone.
LEMMA TablesServed ==
  ASSUME NEW a, NEW b, IInv, PeersOK(a, b), UNCHANGED <<states, slot_generations, sched_vars>>,
         \A u \in Tasks : resuming[u] => tables'[u][wait_cap[u]] = tables[u][wait_cap[u]],
         NEW t \in Tasks, Woken(t)'
  PROVE  Served(t, {a, b})'
<1>1. UNCHANGED <<ready, task_states, current, resuming, wait_cap>>
  BY Zenon DEF sched_vars
<1>2. Woken(t) /\ resuming[t]
  BY <1>1, Zenon DEF Woken, IsBlocked
<1>3. \A f \in LiveEndpoints : StateOf(f)' = StateOf(f)
  BY Zenon DEF StateOf, Stale
<1> QED  BY <1>1, <1>2, <1>3, StaysServed, Zenon

\* Every step keeps the peers' woken receivers served.
LEMMA PeersStep ==
  ASSUME NEW a \in Tasks, NEW b \in Tasks, Peers(a, b), IInv, PeersOK(a, b), [Next]_vars
  PROVE  PeersOK(a, b)'
<1>1. /\ Confined(Tasks \ {a, b}, {"RECV"})'
      /\ a = b \/ Confined(Tasks \ {a, b}, {"SEND"})'
  BY ConfinedStep, Zenon DEF Peers, PeersOK
<1>2. /\ ~started => \A t \in Tasks : ~resuming[t]
      /\ ResumeFindsMessage
  BY DEF PeersOK
<1> DEFINE G == /\ ~started' => \A t \in Tasks : ~resuming'[t]
                /\ \A t \in Tasks : Woken(t)' => Served(t, {a, b})'
                /\ ResumeFindsMessage'
<1>3. ASSUME UNCHANGED <<states, slot_generations, sched_vars>>,
             \A u \in Tasks : resuming[u] => tables'[u][wait_cap[u]] = tables[u][wait_cap[u]]
      PROVE  G
  <2>1. \A t \in Tasks : Woken(t)' => Served(t, {a, b})'
    BY <1>3, TablesServed, Zenon
  <2>2. UNCHANGED <<started, resuming, returned>>
    BY <1>3, Zenon DEF sched_vars
  <2> QED  BY <1>2, <2>1, <2>2, Zenon DEF ResumeFindsMessage
<1>4. ASSUME UNCHANGED vars PROVE G
  <2>1. UNCHANGED <<states, slot_generations, tables, sched_vars>>
    BY <1>4 DEF vars, ipc_vars
  <2> QED  BY <1>3, <2>1, Zenon
<1>5. ASSUME ~started, UNCHANGED <<resuming, returned>> PROVE G
  BY <1>2, <1>5 DEF Woken, ResumeFindsMessage
<1>6. ASSUME NEW t \in Tasks, AddTask(t) PROVE G
  BY <1>5, <1>6, Zenon DEF AddTask
<1>7. ASSUME Start PROVE G
  BY <1>5, <1>7, Zenon DEF Start
<1>8. ASSUME NEW c \in Tasks, YieldNow(c) PROVE G
  <2>1. /\ started /\ current = c /\ ~resuming[c] /\ Yield(c, ready, task_states)
        /\ UNCHANGED <<ipc_vars, started, resuming, wait_cap, returned>>
    BY <1>8 DEF YieldNow, Running
  <2>2. /\ task_states' = task_states
        /\ \A v, u : Ahead(ready, v, u) => current' = v \/ Ahead(ready', v, u)
    BY <2>1, YieldEffect, Zenon
  <2>3. UNCHANGED tables /\ \A f \in LiveEndpoints : StateOf(f)' = StateOf(f)
    BY <2>1, Zenon DEF StateOf, Stale, ipc_vars
  <2>4. ASSUME NEW t \in Tasks, Woken(t)' PROVE Served(t, {a, b})'
    <3>1. Woken(t) /\ t # c
      BY <2>1, <2>2, <2>4, Zenon DEF Woken, IsBlocked
    <3> QED  BY <2>1, <2>2, <2>3, <3>1, StaysServed, Zenon
  <2> QED  BY <1>2, <2>1, <2>4 DEF ResumeFindsMessage
<1>9. ASSUME NEW c \in Tasks, ResumeRecv(c) PROVE G
  <2>1. ResumeFindsMessage' /\ \A t \in Tasks : ~Woken(t)'
    BY <1>9, ResumeServed
  <2>2. started' = started /\ started
    BY <1>9, Zenon DEF ResumeRecv
  <2> QED  BY <2>1, <2>2
<1>10. ASSUME NEW c \in Tasks, NEW h \in DOMAIN tables[c],
              NEW x \in DOMAIN tables[c] \cup {NoHandle}, SendAndYield(c, h, x)
       PROVE  G
  <2>1. \A t \in Tasks : Woken(t)' => Served(t, {a, b})'
    BY <1>10, SendServed
  <2>2. started' = started /\ started /\ returned'.out = SendOutcome(c, h, x)
    BY <1>10, Zenon DEF SendAndYield, Running
  <2>3. returned'.out # "PendingAfterResume"
    BY <2>2, Outcomes, Zenon
  <2> QED  BY <2>1, <2>2, <2>3, Zenon DEF ResumeFindsMessage
<1>11. ASSUME NEW c \in Tasks, NEW h \in DOMAIN tables[c], RecvAndYield(c, h) PROVE G
  <2>1. \A t \in Tasks : Woken(t)' => Served(t, {a, b})'
    BY <1>11, RecvServed
  <2>2. started' = started /\ started
    BY <1>11, Zenon DEF RecvAndYield, Running
  <2>3. returned' = returned \/ returned'.out = "Deadlock" \/ returned'.out = RecvResult(c, h)
    BY <1>11 DEF RecvAndYield, Block
  <2>4. ResumeFindsMessage'
    BY <1>2, <2>3, Outcomes, Zenon DEF ResumeFindsMessage
  <2> QED  BY <2>1, <2>2, <2>4, Zenon
<1>12. ASSUME NEW c \in Tasks, NEW h \in DOMAIN tables[c], DropCap(c, h) PROVE G
  <2>1. /\ ~resuming[c] /\ UNCHANGED <<states, slot_generations, sched_vars>>
        /\ tables' = [tables EXCEPT ![c] = Without(@, h)]
    BY <1>12, Zenon DEF DropCap, Running
  <2>2. \A u \in Tasks : resuming[u] => tables'[u][wait_cap[u]] = tables[u][wait_cap[u]]
    BY <2>1
  <2> QED  BY <1>3, <2>1, <2>2, Zenon
<1>13. ASSUME NEW c \in Tasks, CreateEndpoint(c) PROVE G
  <2>1. UNCHANGED <<states, slot_generations, sched_vars>>
    BY <1>13, Zenon DEF CreateEndpoint
  <2>2. \A u \in Tasks : resuming[u] => tables'[u][wait_cap[u]] = tables[u][wait_cap[u]]
    BY <1>13, WaitsAtLive, CreateKeeps, Zenon DEF IInv, Has
  <2> QED  BY <1>3, <2>1, <2>2, Zenon
<1>14. ASSUME NEW c \in Tasks, NEW e \in LiveEndpoints, DestroyEndpoint(c, e) PROVE G
  BY <1>3, <1>14, Zenon DEF DestroyEndpoint
<1>15. G
  <2> HIDE DEF G
  <2> QED  BY <1>4, <1>6, <1>7, <1>8, <1>9, <1>10, <1>11, <1>12, <1>13, <1>14, Zenon DEF Next
<1> QED  BY <1>1, <1>15, Zenon DEF PeersOK

\* Where only two tasks send and receive, as in the boot code's demo, or only
\* one receives, a woken task finds its message: PendingAfterResume is
\* unreachable.
THEOREM ResumeFindsMessageTheorem ==
  ASSUME NEW a \in Tasks, NEW b \in Tasks, Peers(a, b)
  PROVE  Spec => []ResumeFindsMessage
<1>1. Init => PeersOK(a, b)
  <2> SUFFICES ASSUME Init PROVE PeersOK(a, b)
    OBVIOUS
  <2>1. /\ Confined(Tasks \ {a, b}, {"RECV"})
        /\ a = b \/ Confined(Tasks \ {a, b}, {"SEND"})
    BY ConfinedInit DEF Peers
  <2>2. (\A t \in Tasks : ~resuming[t]) /\ ResumeFindsMessage
    BY Zenon DEF Init, ResumeFindsMessage
  <2> QED  BY <2>1, <2>2 DEF PeersOK, Woken
<1>2. IInv /\ PeersOK(a, b) /\ [Next]_vars => PeersOK(a, b)'
  BY PeersStep
<1>3. PeersOK(a, b) => ResumeFindsMessage
  BY DEF PeersOK
<1> QED  BY <1>1, <1>2, <1>3, AlwaysIInv, PTL DEF Spec
=============================================================================
