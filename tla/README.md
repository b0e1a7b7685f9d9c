# A TLA+ model of the Tyrne kernel

Tyrne is a capability microkernel in Rust: one core, no preemption, no heap. Tasks
hold capabilities in per-task tables, exchange messages through endpoints, and hand
capabilities along. This directory holds TLA+ modules for the parts of the kernel
where the order of events matters, the TLC configurations that check them on small
instances, and TLAPS proofs of the properties that matter most for every instance.

`PROJECT.json` says for every definition which lines of the source it models.

## The system and its parts

| part | source | module | status |
|---|---|---|---|
| capability table | `kernel/src/cap/` | `CapTable`, `CapForest` | modelled, proved |
| object arena | `kernel/src/obj/arena.rs` | `Arena` | modelled, proved |
| notifications | `kernel/src/obj/notification.rs`, `ipc_notify` | `Notifications` | modelled, proved |
| endpoints | `kernel/src/obj/endpoint.rs` | `Endpoints`, `Channels` | modelled, proved |
| task objects | `kernel/src/obj/task.rs` | `Sched` | partly |
| IPC primitives | `kernel/src/ipc/mod.rs` | `Ipc` | modelled, proved as part of `Endpoints` and `Sched` |
| ready queue | `SchedQueue` in `kernel/src/sched/mod.rs` | `SchedQueue`, `ReadyQueue` | modelled, proved |
| scheduler, IPC bridge | `kernel/src/sched/mod.rs` | `Sched` | partly, safety proved |
| two-task demo | `bsp-qemu-virt/src/main.rs` | `Demo` | modelled |
| time conversions | `hal/src/timer.rs` | `Timer`, `Clock` | modelled, proved |
| timer and GIC drivers | `bsp-qemu-virt/src/cpu.rs`, `gic.rs` | `Irq` | modelled, safety proved |
| exception entry, boot | `bsp-qemu-virt/src/vectors.s`, `exceptions.rs`, `boot.s`, `main.rs` | `Irq`, `Registers` | partly, safety proved |
| interrupt mask, context switch | `hal/src/cpu.rs`, `context_switch.rs`, `cpu.rs` | `Irq`, `Registers`, `Sched` | modelled, safety proved |
| MMU, console, panic path, crate roots, test doubles | | | not modelled |

How they interact: a task calls the bridge of the scheduler; the bridge looks up the
endpoint capability in the task's table, runs the IPC primitive on the endpoint's
waiter state, moves a capability between a table and that state, wakes or blocks
tasks, and switches. Endpoints live in an arena whose slots are reused, so every
handle carries a generation. Interrupts touch none of this state: `irq_entry` only
masks the timer and ends the interrupt.

## Modules, state and actions

**`Threads`** says what an intact intrusive list is. Both kinds of list in the kernel
grow only at the head, so an intact list is its members by decreasing arrival time.
The arrival times (`stamp`, drawn from `clock`) are auxiliary. They make list
integrity a statement about single links, with no reachability, and that is what
makes it provable.

**`CapTable`** has the fields of `CapabilityTable` as variables. `entry` is defined on
the occupied slots only. Operations without a loop are one action. `cap_revoke` and
the sibling search of `cap_drop`/`cap_take` are one action per loop iteration, with
the locals (`cursor`, `descendants`, `desc_len`, `scan`) as variables and `phase`
saying which loop runs. `issued` remembers all handles ever returned, so callers also
present dead ones. `cap_drop` and `cap_take` differ only in what they return and share
`CapRemove`. When a copy finds its parent dead after `pop_free`, the model loses the
slot as the code does.

**`CapForest`** is what a table promises: a forest of uniquely named capabilities with
atomic operations. `CapTable` implements it, a capability being named by its stamp. A
revoke takes effect when its collection is complete (`Doomed`).

**`Arena`** gives the arena's operations as operators on a record. **`Notifications`**
uses it with words of bits. Callers keep every id; `frees` counts how often each slot
was freed and `era` remembers that count in each id, so that a property can say when a
generation has wrapped around.

**`Ipc`** has `ipc_send` and `ipc_recv` over an endpoint arena, the state of each
endpoint slot and one table per caller. A table is a map from unique handles to
capabilities: the abstraction `CapForest` justifies. Reading the state of a reused
slot resets it, also on the error paths, as `reset_if_stale_generation` does.
**`Endpoints`** adds the life of endpoints around it and uses non-blocking calls. No
code in the repository calls `destroy_endpoint` yet. The function checks only that the
handle is current, and so does `DestroyEndpoint`: tables may still name the endpoint, and
messages and capabilities may be in flight in it. `ipc/mod.rs` asks future callers to
drain the endpoint first; a `debug_assert!` in `reset_if_stale_generation` would stop a debug build
where they did not. The model goes on as the release build does, and
`AuthorityConserved` says what that costs: the capability in flight in the destroyed
endpoint, and nothing else.

**`Channels`** is what endpoints promise: one-place channels without slots, generations
or stale state. `Endpoints` implements it. A channel is the history of one endpoint
object (named by its creation), its box is the `SendPending` or `RecvComplete` message
of the slot if the slot's recorded generation is current, and an empty one if it is not:
the lazy reset is invisible.

**`SchedQueue`** is the ring buffer, **`ReadyQueue`** runs it beside a sequence.

**`Sched`** puts `Ipc` and `SchedQueue` under `add_task`, `start`, `yield_now` and the
two bridge calls. What a task does up to a context switch is one action, since
nothing interrupts it there in a way that touches this state. `ipc_recv_and_yield` is
cut at its switch: `RecvAndYield` is phases 1 and 2, `ResumeRecv` phase 3. Tasks may
also drop capabilities, destroy an endpoint that no table names, and create another in its
slot, so the capability that phase 3 presents again could have gone stale (`WaitCapValid`).
The guard `~Referenced` of the destruction is not in `destroy_endpoint`. It is the check
that `obj/mod.rs` (lines 23-28) leaves to callers, and `WaitCapValid` and `WaiterRegistered`
rest on it: a caller without it leaves blocked tasks behind that nobody can wake. A
`QueueFull` of `add_task` is a panic, because the boot code `expect`s success.
**`Demo`** runs `task_a`, `task_b` and `idle_entry` on it in `kernel_entry`'s order.

**`Timer`** has the three conversions, **`Clock`** a counter read through them.

**`Registers`** has the register file by classes that the assembly treats alike
(x0-x18, x19-x29, x30, sp, d8-d15, the other SIMD registers), the trap frame, the task
context, and what `context_switch_asm`, `init_context` and the IRQ trampoline do to
them. A value says whose it is and from which of its turns on the core (turns alternate
between 0 and 1).

**`Irq`** has one action per register write: boot from any firmware state, GIC
initialisation, tasks that arm, cancel, unmask and switch, and the steps of
`irq_entry`. `CpuNew` has both assertions of `QemuVirtCpu::new`, the exception level and the
counter frequency. A task that has unmasked interrupts does not mask them again except
through an `IrqGuard`, as in the code. A switch is `EnterGuard`, `Switch` (save and restore of the contexts),
`DropGuard`; an interrupt pushes the frame, clobbers what compiled code may clobber, and
pops it. Between these steps a task computes, so all of its registers change. GICv2, the
generic timer and the reset state are external and modelled from how the drivers use
them; the private (banked) lines are assumed off at reset. `init` leaves their register
alone, so for a private line that firmware left enabled `NoUnhandledIrq` claims nothing. A lowered line may still be seen one step late, which gives spurious
acknowledges.

The `MC*` modules hold constant values for TLC. Operators named `X_Something` above a
definition `X` are mutated forms of it: plausible mistakes that the properties are
shown to catch. They are used by no specification.

## Runs

| run | what it shows | states | result |
|---|---|---|---|
| `captable` | free list, tree, rights, handles and walks of a table are right after any calls and between loop steps; the table implements `CapForest`; every call returns | 249,612 | pass |
| `notifications` | the arena's free list; stale ids reach a successor only after a wrap-around | 705,861 | pass |
| `ready_queue` | the ring buffer is a FIFO | 120 | pass |
| `endpoints` | messages collected at most once and not lost; authority conserved, but for what is in flight in a destroyed endpoint; refusals change nothing; the endpoints implement `Channels` | 101,813 | pass |
| `sched_structure` | queue, task states and endpoint states agree while endpoints come and go; no lost wake-up; no panic; a blocked task's capability stays valid | 554,158 | pass |
| `sched_pingpong` | a woken receiver finds its message and returns; no deadlock | 268,444 | pass |
| `clock` | conversions exact to the tick, monotone, nearest resolution | 960 | pass |
| `irq` | boot order, acknowledge/end pairing, deadlines, interrupt masks, registers; a deadline is delivered if the core is unmasked again and again | 262,920 | pass |
| `sched_stolen_message`, `sched_retry_after_deadlock`, `irq_masked_tasks`, `demo_completes` | see Findings | | violation |

`TypeOK` is a run's invariant for `Endpoints`, `Sched` and `Irq`; for the others it is only
part of what is proved.

Bounds, and why they are enough:

* `CapTable`: 4 slots, depth 2, 5 capabilities ever. A chain of three, a parent with
  three children (so a search that passes a sibling), a full table, slot reuse and
  `DerivationTooDeep` all occur. Capabilities carry the three rights that the table
  itself tests, or DERIVE alone, so that copies and revokes are refused and a narrowed
  capability is derived from. Generations wrap at 3, so that a slot can be reused often
  enough for an old handle to match again.
* `Notifications`: 2 slots, 5 objects, generations modulo 3: reuse, frees out of order,
  and wrap-around.
* `Endpoints`: 2 endpoint slots, 2 endpoints ever, 2 callers, tables of 3, 2 messages:
  two endpoints side by side, a full arena, slot reuse with a message or a capability
  parked, full tables, capabilities with children. One caller starts with a capability to
  hand on; the other gets it, or a child of it, through the endpoints.
* `Sched`: 3 tasks, one endpoint slot that is freed at most once, 3 messages, tables of
  2, so that a transfer can meet a full table. `sched_structure` has two receivers, `sched_pingpong` the demo's two
  peers and an idle task. Three messages let a second delivery meet a resumed task on an
  endpoint that was created anew.
* `ReadyQueue`: capacity 3, every head position and content.
* `Clock`: words up to 31 and 12 "nanoseconds" a second, so that saturation,
  frequencies above and below the unit and all remainders occur.
* `Irq`: 2 tasks, 2 lines per register and 2 registers, 3 deadlines, 3 ticks: a
  deadline between ticks, re-arming before and after a match, a foreign line.

Deadlock checking is off where the model's bounds end a behaviour (`Clock`, `Irq`,
`Endpoints`), and in the demo, where the end of the run is the question.

Fairness:

* `CapTable`: a loop that runs goes on. Kernel calls are not preempted.
* `Sched` (`Cooperative`): the boot code does its part, every task yields again and
  again, and a resumed call goes on. Cooperative scheduling requires exactly this of
  tasks; nothing is assumed of sends and receives. An idle task that sleeps in `WFI` before
  it yields meets the assumption only if something wakes the core; in the demo nothing does
  (finding 1).
* `Irq` (`FairSpec`): code runs on, time passes, and an interrupt that is unmasked
  again and again is taken. Tasks need not arm, cancel, yield or unmask: that the core
  is unmasked again and again is a premise of `DeliveredIfUnmasked`, stated in it, and
  `irq_masked_tasks` shows what happens without it.
* `Demo`: some enabled statement is executed.

## Findings

1. `demo_completes`: after task A's first send the queue is idle, B, A; the idle task
   executes `WFI` and nothing is armed or enabled that could wake the core. The guide
   lists "tyrne: all tasks complete" as output, and `idle_entry`'s comment calls the
   `WFI` "structurally unreachable in the demo path". The run assumes that `WFI` waits
   for an interrupt, as QEMU's does; the architecture lets it complete earlier.
   The same run has the idle task running while both application tasks are ready;
   `kernel_entry` says it "only ever runs when both application tasks are blocked".
2. `sched_stolen_message`: with two holders of RECV, the second can collect the message
   delivered to the first, which then gets `PendingAfterResume`. `ipc.md` calls that
   error a kernel-internal invariant violation. With one receiver per direction it
   cannot occur (`sched_pingpong`).
3. `sched_retry_after_deadlock`: after `Deadlock` the endpoint stays `RecvWaiting`, so
   a retry gets `QueueFull`; `scheduler.md` says callers can retry.
4. `irq_masked_tasks`: `start` never drops its `IrqGuard`, so tasks run with IRQs masked
   and a reached deadline is not delivered; a comment in `kernel_entry` says later
   `enable` calls will deliver.

Met while reading, and not runs of their own: `exceptions.md` gives the deadline
conversion with a floor where the code (rightly) takes the ceiling; `hal/src/timer.rs`
says deadlines round to the nearest multiple of the resolution where they round up;
above 1 GHz `ns_to_ticks` saturates for late deadlines.

## Proofs

All theorems hold for every value of the constants, under the assumptions named in
the modules: `Capacity`, `QueueCapacity`, `GenModulus`, `Nanos`, `MaxWord` positive,
`MaxDepth`, `MaxIssued`, `MaxFreq` natural, the rights asked for are known rights;
`ArenaCapacity`, `Freq` and `RegWidth` positive, `TimerIrq` a line of the first register
(it is INTID 27 of 32), deadlines are words, and the counter stays below the largest word
(the comparator saturates there, and a deadline cut off at the largest word would match
too early: at 62.5 MHz that is some 9000 years away). `Sched` has one queue cell per
task, as `TASK_ARENA_CAPACITY` sizes both, and its boot tables name endpoints that exist.
`Endpoints` has finitely many callers, numbered from 0, and fewer endpoints are ever created
(`MaxCreated`) than there are generations: after 2^32 reuses of one slot an old id is
accepted again, and messages of two endpoints could be mixed up. For `CapTable` and
`Notifications` there is no such premise; their theorems say what a wrap-around does.

The modules with proofs, and their arguments:

* **`Threads_proofs`**: lemmas about the intrusive linked lists of the capability table and
  the arenas. Pushing, popping and unlinking keep such a list threaded.
* **`CapTable_proofs`**: `FreeListTheorem`, `TreeTheorem`,
  `AttenuationTheorem`, `WalksTheorem`, all from `InductiveTheorem`. The properties are not
  inductive alone: whether a revoke frees the right slots depends on what its first loop
  collected. The inductive invariant `IInv` adds `Clocked` (stamps lie before the clock),
  `Unlinking` (the cursor is a sibling before the target), `Collecting` (what is in the
  scratch array are distinct descendants, closed under children up to the cursor),
  `Freeing` (what is still to be freed is live, is not the target and hangs below the
  target or another collected node, and no other capability hangs below the target) and
  `Resting` (the scratch array is empty when no revoke runs). The scratch array has room
  because its members are distinct slots other than the target: a pigeonhole argument.
  There is one lemma per action; freeing is shared by `FreeSlotTable`.
* **`CapTableForest_proofs`**: `HandlesTheorem` and `ForestTheorem`. The first needs more than
  that invariant: `HandleInv` says that the generation of a handle's slot is the generation of the handle plus the number of handles issued for
  the slot since (`Later`), plus one if the slot is empty now, modulo `GenModulus`. A
  handle that resolves has the slot's generation, so that number is a multiple of
  `GenModulus`: zero, and the slot still holds its capability, or at least `GenModulus`.
  Every step either fills one slot, or empties some, or does neither (`StepEffect`), and
  each of the three keeps the count.

  `ForestTheorem` is the refinement of `CapForest`. A capability is
  named by the stamp of its slot, so three more facts are needed (`NameInv`): stamps of
  different slots differ; the handle with the stamp of a live slot is the one that resolves
  to it; and the clock is bounded by the capabilities ever installed (each costs two stamps,
  the second when its slot is freed), so that a new name is always one of `Names`.
  `RevokeRight` says that a revoke which is collecting had the right to. `HandleName` turns a
  call on a handle into a call on a name: if the handle resolves, the name of what it
  resolves to (also after a wrap-around, when that is not what the handle was issued for),
  otherwise its own name, which names nothing. `FullTable` and `ParentInForest` say that an
  empty free list and a first child mean what `CapsExhausted` and `HasChildren` claim.
  Installing plants a capability, freeing one without children prunes it, and completing a
  collection prunes exactly the descendants: `Collecting`, with no cursor left, says that the
  collected slots are closed under children and hang below the target. All other steps of
  the loops, the freeing of what was collected included, leave the forest as it is.
* **`Endpoints_proofs`**: `TypeTheorem`, `ExactlyOnceTheorem` and `RefusalTheorem`; and
  **`EndpointsMoves_proofs`**: `AuthorityTheorem` and `ChannelsTheorem`, for any number of
  callers, endpoint slots, table slots and messages, all from
  `AlwaysIInv`. `IInv` has five parts. `ArenaOK`: the free list threads the free slots, by stamps that exist (the model has none here).
  `CreatedOK`: the endpoints created in a slot are of its earlier generations, or of the
  present one while it lives, so a fresh id is new and a live one is the last of its slot.
  `TablesOK`: handles are in the past and parents in the same table. `StatesOK`: the state of
  a slot belongs to the endpoint of its recorded generation, and holds a message only if
  that was sent to it and not yet received.
  `MessagesOK`: a message that was not received waits at its endpoint while that lives.
  `SendCases` and `RecvCases` reduce both primitives, with all their error paths and resets,
  to four effects: put a message, take one, register a receiver, or nothing that a later
  call can see (`Touched` covers the lazy reset). Each theorem is then one argument per
  effect; for `AuthorityTheorem` it is a count of table entries and live endpoints that one
  moves between. A new endpoint adds nothing to it, because the state of its
  slot is idle or belongs to an earlier endpoint; a destroyed one takes at most itself out of the count.
* **`Sched_proofs`**: first the ring buffer. Enqueuing and dequeuing append to and remove from
  the sequence it stands for (the window that starts at `head`; the work is in the arithmetic
  of the wrapped indices), so they add and remove a member and keep the order of the others;
  `FifoTheorem` follows. Then
  `TypeTheorem`, `ReadyExactTheorem`, `NoPanicTheorem`, `WaiterRegisteredTheorem`,
  `SingleWaiterTheorem` and `WaitCapValidTheorem`, for any number of tasks, endpoints, table
  slots and boot tables, all from `AlwaysIInv`. None of these is
  inductive alone. `IInv` has three parts. `IpcOK` types the endpoint arena, the waiter
  states and the tables, and says that handles are in the past, so that a new one hides
  none. `SchedOK` says that the queue holds the ready tasks except the running one, each
  once, that the running task is ready, and that no task blocks before the start; room in
  the queue follows, since the running task is not in it. `WaitOK` joins the three wait
  properties: a blocked task is inside `ipc_recv_and_yield`, its endpoint is live and in
  `RecvWaiting`, nobody else waits there, and the capability it will present again is in its
  table and names that endpoint. They need each other: a delivery wakes the right task
  because it is the only waiter, and a second receiver cannot register because the state is
  `RecvWaiting`; the endpoint cannot be destroyed because the waiter's table names it.
  `SendEffect` and `RecvEffect` say once what `ipc_send` and `ipc_recv` do to a table and an
  endpoint, with all their outcomes; there is one lemma per action of `Sched`.
* **`SchedWaits_proofs`**: two theorems with a premise about the boot tables, which TLC
  evaluates for the tables of the demo (`PingPongIdle` in `MCSched`). `KeptFrom(T, R)` says
  that the tasks of T get no right of R and that no transferable capability has one.
  `Confined` carries it through copies in tables and capabilities in flight.
  `NeverDeadlockTheorem`: if RECV is kept from some task, that task never blocks, is
  therefore ready or running, and every block finds a task to switch to.
  `ResumeFindsMessageTheorem`: if nobody but two peers receives or sends, a woken receiver
  finds its message. The invariant `PeersOK` says that each woken peer which has not
  resumed has its message waiting (`RecvComplete`) and comes before the other peer in the
  queue, if that one is in it: the other peer cannot run, and so cannot take the message,
  before it. `sched_stolen_message` shows that the premise is needed.
* **`IrqNotifications_proofs`**, the clock: `DeadlineTheorem`, about the conversions alone: a count
  reaches the ceiling of a deadline exactly when the floor of its time reaches the deadline.
  `ExactTheorem` follows for the running counter; `MonotoneTheorem` and `ResolutionTheorem`
  are beside it.
* **`IrqNotifications_proofs`**, interrupts: theorems on the boot order, the acknowledge protocol,
  deadlines and masks, for any number of tasks, lines and deadlines. The invariant has four
  parts: `BootInv` (which step of the boot code guarantees what; masked until the vector
  table, the GIC static and the GIC are ready; afterwards only the timer's line is enabled),
  `DeviceInv` (an interrupt is acknowledged only while the timer is on, and it is on only
  while the last `arm_deadline` still has an interrupt to come, `ToCome`: none was handled
  since, or one was and that call replaced an armed deadline), `TaskInv` (only the running task is
  outside a switch) and `MaskInv` (a guard has saved what its task chose).
  `NeverEarlyTheorem` and `TypeTheorem` add `DeadlineInv`: the comparator always holds the
  deadline in ticks, and when an acknowledge has returned the timer's line the counter has
  reached it; the rest is the floor and ceiling argument of the clock.
* **`IrqNotifications_proofs`**, registers: `RegistersTheorem`. `RegInv` says where each value of the
  running program is (in the frame during an interrupt if the frame holds it, in the
  register otherwise), and that the context of every other task is fresh or holds the
  values of its last turn.
* **`IrqNotifications_proofs`**, notification objects: `NotificationTypeTheorem`,
  `ArenaTheorem`, `StaleIdTheorem`, `WordTheorem`. What makes the last two inductive is
  `IdOk`, said of every id ever issued: as long as its slot was freed fewer than `GenModulus` times since, the
  generation of the slot is that of the id advanced by the number of frees; as long as
  it was not freed at all, the slot holds the object of the id; and no other slot has
  its stamp. Then an id that is accepted before the wrap-around was never freed, so it
  names its own object. Creating and destroying are the push and pop of
  `Threads_proofs`; notifying and consuming share `SetWordInv`.

Every safety property that a passing run checks has a theorem. Only model-checked are the
liveness properties (`CallsReturn`, `WokenReturns`, `DeliveredIfUnmasked`): liveness under
fairness and `ENABLED` are outside what the prover handles, as are induction over data and
recursive operators; no module uses a recursive operator. `Demo` is one fixed program and is
only run.

## Not modelled

* The MMU: a trait and its types; the kernel has no implementation and no caller, so
  there is no behaviour to model.
* Console, panic path, crate roots: output without state that other parts read.
* Test doubles (`test-hal`): fakes for unit tests, not part of the kernel.
* `create_task`/`destroy_task`: `allocate` and `free` of the arena that `Notifications`
  checks and `IrqNotifications_proofs` proves. Nothing destroys a task, and the scheduler
  has no operation that takes a task out, so `Sched` keeps its tasks for good.
* A second `add_task` of the same task: the code does not check for it and the boot code
  does not do it.
* BSS clearing and FP enabling in `boot.s`, the bit encoding of rights and messages, the
  alignment of stacks: no property here reads them.
* Registers v0-v7 and v16-v31 across an interrupt: the trap frame leaves them out, and
  whether `irq_entry` uses them is up to the compiler. `RegistersSurvive` claims nothing
  of them.
* Composition of `Sched` and `Irq`: `irq_entry` touches no state of the scheduler, and
  `Irq` already lets any task switch to any other. The order in which the ready queue
  would pick them changes none of its properties.

When `arm_deadline` replaces a deadline that is still armed, the timer is on while the
comparator already holds the new value. If the new deadline has passed, `irq_entry` may run
between the two writes and mask the timer, and the control write turns it on again: one
deadline is then handled twice. `FiresOnce` allows this case (`rearmed`) and no other; it is
never early.

## Further work

1. `Endpoints` with generations that wrap around: which of its theorems survive in the form
   of `HandlesNameOneCap`.
2. An abstract scheduler (a set of ready tasks with a FIFO order), refined by `Sched`.
3. Preemption and `destroy_task`, when the kernel gets them.
