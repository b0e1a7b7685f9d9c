-------------------------------- MODULE Irq --------------------------------
(***************************************************************************)
(* Interrupts of the QEMU virt board: the boot order that makes them safe  *)
(* to take (bsp-qemu-virt/src/boot.s, kernel_entry in main.rs), the GICv2  *)
(* driver (gic.rs), the vector table and irq_entry (vectors.s,             *)
(* exceptions.rs), the deadline half of the Timer impl (cpu.rs), the       *)
(* IrqGuards around the context switches of the scheduler (hal/src/cpu.rs, *)
(* kernel/src/sched/mod.rs), and what all of this does to the registers.   *)
(*                                                                         *)
(* One core: an interrupt is taken between two instructions of the code it *)
(* interrupts, so every write to a device or system register is an action. *)
(* Here a task is any code that arms, cancels, unmasks and yields.         *)
(***************************************************************************)
EXTENDS Timer, Registers

CONSTANTS
  Tasks,
  Deadlines,      \* arguments of arm_deadline, in nanoseconds
  Freq,           \* CNTFRQ_EL0
  RegWidth,       \* lines per enable register (32)
  ItLinesField,   \* GICD_TYPER[4:0]
  TimerIrq,       \* TIMER_IRQ_ID, a line of register 0
  TasksUnmask,    \* whether tasks call restore_irq_state(IrqState(0))
  MaxCount        \* bound on the counter, short of the end of its range

ASSUME IrqAssumption ==
  /\ Freq \in Nat \ {0} /\ RegWidth \in Nat \ {0} /\ ItLinesField \in Nat
  /\ TimerIrq \in 0 .. RegWidth - 1 /\ TasksUnmask \in BOOLEAN
  /\ MaxCount \in 0 .. MaxWord - 1 /\ Deadlines \subseteq 0 .. MaxWord

VARIABLES
  pc,          \* where the boot code is; then "tasks"
  el,          \* CurrentEL
  masked,      \* PSTATE.I
  vbar,        \* VBAR_EL1 points to tyrne_vectors
  gic_cell,    \* the static GIC is written
  gic_on,      \* GICD_CTLR and GICC_CTLR enabled
  enabled,     \* lines enabled in GICD_ISENABLER
  asserted,    \* device lines that are up, other than the timer's
  active,      \* lines acknowledged and not yet ended
  ctl, cval,   \* CNTV_CTL_EL0, CNTV_CVAL_EL0
  count,       \* CNTVCT_EL0
  late,        \* an interrupt was signalled before the last step
  handler,     \* where irq_entry is, or "none"
  irq,         \* the line it acknowledged
  spsr,        \* PSTATE.I of the interrupted code
  current,     \* the running task
  tpc,         \* task -> where it is
  prev,        \* task -> the state saved by its IrqGuard
  regs,        \* the register file
  contexts,    \* task -> its saved context
  frame,       \* the trap frame of the interrupt being handled
  deadline,    \* auxiliary: argument of the last arm_deadline, from its first write on
  quiet,       \* auxiliary: cancel_deadline returned and nothing was armed since
  fired,       \* auxiliary: interrupts handled since that write
  rearmed,     \* auxiliary: 1 if the timer was armed at that write, else 0
  chosen,      \* auxiliary: task -> the mask it chose for itself
  turn         \* auxiliary: task -> parity of its turns on the core

boot_vars == <<pc, el, vbar, gic_cell>>
timer_vars == <<ctl, cval, deadline, quiet, fired, rearmed>>
gic_vars == <<gic_on, enabled, asserted, active>>
handler_vars == <<handler, irq, spsr>>
task_vars == <<current, tpc, prev, chosen, contexts, turn>>
reg_vars == <<regs, frame>>
vars == <<boot_vars, masked, gic_vars, timer_vars, count, late, handler_vars, task_vars, reg_vars>>

-----------------------------------------------------------------------------
(* The interrupt controller (external) as the driver programs it.          *)

IrqCount == (ItLinesField + 1) * RegWidth
Lines == 0 .. IrqCount - 1
Spis == {l \in Lines : l >= RegWidth}

\* Mutated form: the last register is forgotten.
ClearedByInit_OffByOne == {l \in Lines : l \div RegWidth \in 1 .. ItLinesField - 1}

\* The lines a loop over ICENABLER<n>, n = 1, 2, ... clears.
ClearedByInit == {l \in Lines : l \div RegWidth >= 1}

TimerLine == ctl = 1 /\ count >= cval
Pending == asserted \cup IF TimerLine THEN {TimerIrq} ELSE {}

\* Lines the CPU interface would return from GICC_IAR.
Signalled == IF gic_on /\ active = {} THEN Pending \cap enabled ELSE {}
Lag == late' = (Signalled # {})

-----------------------------------------------------------------------------
\* At reset the mask, and what firmware left enabled among the shared
\* lines, are unknown; the private lines and the timer are off.
Init ==
  /\ pc = "reset" /\ el \in 1 .. 3 /\ masked \in BOOLEAN
  /\ vbar = FALSE /\ gic_cell = FALSE
  /\ gic_on \in BOOLEAN /\ enabled \in SUBSET Spis /\ asserted \in SUBSET Spis
  /\ active = {} /\ late = FALSE
  /\ ctl = 0 /\ cval = 0 /\ count = 0
  /\ handler = "none" /\ irq = 0 /\ spsr = FALSE
  /\ current \in Tasks
  /\ tpc = [t \in Tasks |-> "new"]
  /\ prev = [t \in Tasks |-> FALSE]
  /\ deadline = 0 /\ quiet = FALSE /\ fired = 0 /\ rearmed = 0
  /\ chosen = [t \in Tasks |-> TRUE]
  /\ regs = [r \in Regs |-> Zero]
  /\ contexts = [t \in Tasks |-> NoContext] /\ frame = NoFrame
  /\ turn = [t \in Tasks |-> 0]

\* The boot code, at most as far as one register write per step.
At(from) == pc = from /\ handler = "none"
BootFrame ==
  Lag /\ UNCHANGED <<timer_vars, count, handler_vars, task_vars, reg_vars, asserted, active>>

\* Mutated form: the mask is left as the firmware had it.
ResetStub_Unmasked ==
  /\ At("reset")
  /\ IF el \in {1, 2} THEN el' = 1 /\ pc' = "post_eret" ELSE UNCHANGED el /\ pc' = "halted"
  /\ UNCHANGED <<vbar, gic_cell, gic_on, enabled, masked>> /\ BootFrame

\* _start: mask everything, drop from EL2 to EL1, halt on EL3.  PSTATE after
\* the eret comes from SPSR_EL2 = 0x3c5, with the I bit set.
ResetStub ==
  /\ At("reset")
  /\ masked' = TRUE
  /\ IF el \in {1, 2} THEN el' = 1 /\ pc' = "post_eret" ELSE UNCHANGED el /\ pc' = "halted"
  /\ UNCHANGED <<vbar, gic_cell, gic_on, enabled>> /\ BootFrame

\* The boot stack, FP/SIMD access and a clean BSS, then kernel_entry.
PostEret ==
  /\ At("post_eret") /\ pc' = "entry"
  /\ regs' = [r \in Regs |-> Value("boot", 0)]
  /\ Lag
  /\ UNCHANGED <<el, vbar, gic_cell, masked, gic_vars, timer_vars, count, handler_vars,
                 task_vars, frame>>

\* QemuVirtCpu::new asserts EL1 and a counter frequency.
CpuNew ==
  /\ At("entry")
  /\ pc' = IF el = 1 /\ Freq > 0 THEN "cpu" ELSE "panicked"
  /\ UNCHANGED <<el, masked, vbar, gic_cell, gic_on, enabled>> /\ BootFrame

InstallVectors ==
  /\ At("cpu") /\ pc' = "vectors"
  /\ vbar' = TRUE
  /\ UNCHANGED <<el, masked, gic_cell, gic_on, enabled>> /\ BootFrame

PublishGic ==
  /\ At("vectors") /\ pc' = "gic"
  /\ gic_cell' = TRUE
  /\ UNCHANGED <<el, masked, vbar, gic_on, enabled>> /\ BootFrame

\* QemuVirtGic::init: off; then clear the SPIs, priorities and targets; on.
GicOff ==
  /\ At("gic") /\ pc' = "gic_off"
  /\ gic_on' = FALSE
  /\ UNCHANGED <<el, masked, vbar, gic_cell, enabled>> /\ BootFrame

GicConfigure ==
  /\ At("gic_off") /\ pc' = "gic_configured"
  /\ enabled' = enabled \ ClearedByInit
  /\ UNCHANGED <<el, masked, vbar, gic_cell, gic_on>> /\ BootFrame

GicOn ==
  /\ At("gic_configured") /\ pc' = "gic_ready"
  /\ gic_on' = TRUE
  /\ UNCHANGED <<el, masked, vbar, gic_cell, enabled>> /\ BootFrame

Unmask ==
  /\ At("gic_ready") /\ pc' = "setup"
  /\ masked' = FALSE
  /\ UNCHANGED <<el, vbar, gic_cell, gic_on, enabled>> /\ BootFrame

\* add_task for every task.
InitContexts ==
  /\ At("setup") /\ pc' = "registered"
  /\ contexts' = [t \in Tasks |-> InitContext(t)]
  /\ Lag
  /\ UNCHANGED <<el, vbar, gic_cell, masked, gic_vars, timer_vars, count, handler_vars,
                 current, tpc, prev, chosen, turn, reg_vars>>

\* start: the guard of the bootstrap frame masks and is never dropped; the
\* bootstrap context is thrown away.
StartFirst ==
  /\ At("registered") /\ pc' = "tasks"
  /\ masked' = TRUE
  /\ tpc' = [tpc EXCEPT ![current] = "entry"]
  /\ regs' = RestoreContext(regs, contexts[current])
  /\ Lag
  /\ UNCHANGED <<el, vbar, gic_cell, gic_vars, timer_vars, count, handler_vars,
                 current, prev, chosen, contexts, turn, frame>>

Boot ==
  \/ ResetStub \/ PostEret \/ CpuNew \/ InstallVectors \/ PublishGic
  \/ GicOff \/ GicConfigure \/ GicOn \/ Unmask \/ InitContexts \/ StartFirst

-----------------------------------------------------------------------------
(* Tasks.                                                                  *)

\* Task t executes at its point p, with no interrupt being handled.
TaskAt(t, p) == pc = "tasks" /\ handler = "none" /\ current = t /\ tpc[t] = p
Goto(t, p) ==
  tpc' = [tpc EXCEPT ![t] = p] /\ UNCHANGED <<current, prev, chosen, contexts, turn, reg_vars>>
TaskFrame == Lag /\ UNCHANGED <<boot_vars, count, handler_vars, gic_on, asserted, active>>

\* The entry function of t sets its registers up.
EnterTask(t) ==
  /\ TaskAt(t, "entry")
  /\ tpc' = [tpc EXCEPT ![t] = "run"]
  /\ regs' = Computed(regs, t, turn[t])
  /\ UNCHANGED <<masked, timer_vars, enabled, current, prev, chosen, contexts, turn, frame>>
  /\ TaskFrame

TaskUnmask(t) ==
  /\ TasksUnmask /\ TaskAt(t, "run")
  /\ masked' = FALSE
  /\ chosen' = [chosen EXCEPT ![t] = FALSE]
  /\ UNCHANGED <<timer_vars, enabled, current, tpc, prev, contexts, turn, reg_vars>>
  /\ TaskFrame

\* Begin the bookkeeping of an arm_deadline(d).
Arming(d) ==
  deadline' = d /\ quiet' = FALSE /\ fired' = 0 /\ rearmed' = IF ctl = 1 THEN 1 ELSE 0

\* Mutated form: the timer is enabled before its comparator is written.
ArmCompare_ControlFirst(t, d) ==
  /\ TaskAt(t, "run") /\ Goto(t, "arm_ctl")
  /\ ctl' = 1
  /\ Arming(d)
  /\ UNCHANGED <<masked, cval, enabled>> /\ TaskFrame

\* arm_deadline: the comparator, the control register, the line at the GIC.
ArmCompare(t, d) ==
  /\ TaskAt(t, "run") /\ Goto(t, "arm_ctl")
  /\ cval' = NsToTicks(d, Freq)
  /\ Arming(d)
  /\ UNCHANGED <<masked, ctl, enabled>> /\ TaskFrame
ArmControl(t) ==
  /\ TaskAt(t, "arm_ctl") /\ Goto(t, "arm_gic")
  /\ ctl' = 1
  /\ UNCHANGED <<masked, cval, deadline, quiet, fired, rearmed, enabled>> /\ TaskFrame
ArmEnable(t) ==
  /\ TaskAt(t, "arm_gic") /\ Goto(t, "run")
  /\ enabled' = enabled \cup {TimerIrq}
  /\ UNCHANGED <<masked, timer_vars>> /\ TaskFrame

\* Mutated form: cancel_deadline does nothing.
CancelControl_NoOp(t) ==
  /\ TaskAt(t, "run") /\ Goto(t, "run")
  /\ quiet' = TRUE
  /\ UNCHANGED <<masked, ctl, cval, deadline, fired, rearmed, enabled>> /\ TaskFrame

\* cancel_deadline: the control register, then the line at the GIC.
CancelControl(t) ==
  /\ TaskAt(t, "run") /\ Goto(t, "cancel_gic")
  /\ ctl' = 2
  /\ UNCHANGED <<masked, cval, deadline, quiet, fired, rearmed, enabled>> /\ TaskFrame
CancelDisable(t) ==
  /\ TaskAt(t, "cancel_gic") /\ Goto(t, "run")
  /\ enabled' = enabled \ {TimerIrq}
  /\ quiet' = TRUE
  /\ UNCHANGED <<masked, ctl, cval, deadline, fired, rearmed>> /\ TaskFrame

\* Mutated forms: the guard does not mask; the guard always unmasks.
EnterGuard_Unmasked(t) ==
  /\ TaskAt(t, "run")
  /\ tpc' = [tpc EXCEPT ![t] = "guarded"]
  /\ prev' = [prev EXCEPT ![t] = masked]
  /\ UNCHANGED <<masked, current, chosen, contexts, turn, reg_vars, timer_vars, enabled>>
  /\ TaskFrame
DropGuard_AlwaysUnmask(t) ==
  /\ TaskAt(t, "drop")
  /\ tpc' = [tpc EXCEPT ![t] = "run"]
  /\ masked' = FALSE
  /\ turn' = [turn EXCEPT ![t] = 1 - @]
  /\ regs' = Computed(regs, t, turn'[t])
  /\ UNCHANGED <<current, prev, chosen, contexts, frame, timer_vars, enabled>> /\ TaskFrame

\* A context switch of t to u under an IrqGuard.  A task that runs for the
\* first time begins at its entry function and has no guard to drop.
EnterGuard(t) ==
  /\ TaskAt(t, "run")
  /\ tpc' = [tpc EXCEPT ![t] = "guarded"]
  /\ prev' = [prev EXCEPT ![t] = masked]
  /\ masked' = TRUE
  /\ UNCHANGED <<current, chosen, contexts, turn, reg_vars, timer_vars, enabled>> /\ TaskFrame
Switch(t, u) ==
  /\ TaskAt(t, "guarded") /\ u # t
  /\ contexts' = [contexts EXCEPT ![t] = SaveContext(regs)]
  /\ regs' = RestoreContext(regs, contexts[u])
  /\ current' = u
  /\ tpc' = [tpc EXCEPT ![t] = "switched", ![u] = IF @ = "new" THEN "entry" ELSE "drop"]
  /\ UNCHANGED <<masked, prev, chosen, turn, frame, timer_vars, enabled>> /\ TaskFrame
DropGuard(t) ==
  /\ TaskAt(t, "drop")
  /\ tpc' = [tpc EXCEPT ![t] = "run"]
  /\ masked' = prev[t]
  /\ turn' = [turn EXCEPT ![t] = 1 - @]
  /\ regs' = Computed(regs, t, turn'[t])
  /\ UNCHANGED <<current, prev, chosen, contexts, frame, timer_vars, enabled>> /\ TaskFrame

TaskStep ==
  \E t \in Tasks :
    \/ EnterTask(t) \/ TaskUnmask(t)
    \/ \E d \in Deadlines : ArmCompare(t, d)
    \/ ArmControl(t) \/ ArmEnable(t)
    \/ CancelControl(t) \/ CancelDisable(t)
    \/ EnterGuard(t) \/ DropGuard(t)
    \/ \E u \in Tasks : Switch(t, u)

-----------------------------------------------------------------------------
(* Interrupts.                                                             *)

\* The core takes an interrupt.  The signal may be one step old: a register
\* write that lowers the line can be overtaken.
HandlerFrame == Lag /\ UNCHANGED <<boot_vars, count, gic_on, enabled, asserted, task_vars>>
TakeIrq ==
  /\ handler = "none" /\ ~masked
  /\ pc \notin {"reset", "halted", "panicked"}
  /\ Signalled # {} \/ late
  /\ handler' = "entered"
  /\ spsr' = masked /\ masked' = TRUE
  /\ frame' = PushFrame(regs)
  /\ UNCHANGED <<irq, active, timer_vars, regs>> /\ HandlerFrame

\* Mutated forms: INTID 1023 is dispatched like a line; it is ended like one.
Acknowledge_NoSpurious ==
  /\ handler = "entered"
  /\ \/ /\ Signalled = {} /\ handler' = "acked" /\ irq' = 1023 /\ active' = active \cup {1023}
     \/ \E l \in Signalled :
          handler' = "acked" /\ irq' = l /\ active' = active \cup {l}
  /\ regs' = Clobbered(regs)
  /\ UNCHANGED <<spsr, masked, timer_vars, frame>> /\ HandlerFrame

Acknowledge_SpuriousEnded ==
  /\ handler = "entered"
  /\ \/ /\ Signalled = {} /\ handler' = "ending" /\ UNCHANGED <<irq, active>>
     \/ \E l \in Signalled :
          handler' = "acked" /\ irq' = l /\ active' = active \cup {l}
  /\ regs' = Clobbered(regs)
  /\ UNCHANGED <<spsr, masked, timer_vars, frame>> /\ HandlerFrame

\* irq_entry is called and acknowledges; INTID 1023 (spurious) returns
\* without an end-of-interrupt.
Acknowledge ==
  /\ handler = "entered"
  /\ \/ /\ Signalled = {} /\ handler' = "return" /\ UNCHANGED <<irq, active>>
     \/ \E l \in Signalled :
          handler' = "acked" /\ irq' = l /\ active' = active \cup {l}
  /\ regs' = Clobbered(regs)
  /\ UNCHANGED <<spsr, masked, timer_vars, frame>> /\ HandlerFrame

\* Mutated form: the timer is not masked at the source.
Dispatch_NotMasked ==
  /\ handler = "acked"
  /\ handler' = "ending" /\ fired' = fired + 1
  /\ Lag
  /\ UNCHANGED <<pc, active, irq, spsr, masked, ctl, cval, deadline, quiet, rearmed, el, vbar, gic_cell,
                 count, gic_on, enabled, asserted, task_vars, reg_vars>>

\* The timer is masked at the source; any other line is a panic.
Dispatch ==
  /\ handler = "acked"
  /\ IF irq = TimerIrq
     THEN /\ ctl' = 2 /\ fired' = fired + 1
          /\ handler' = "ending" /\ UNCHANGED <<pc, active>>
     ELSE /\ active' = active \ {irq}
          /\ pc' = "panicked" /\ handler' = "panicked" /\ UNCHANGED <<ctl, fired>>
  /\ Lag
  /\ UNCHANGED <<irq, spsr, masked, cval, deadline, quiet, rearmed, el, vbar, gic_cell,
                 count, gic_on, enabled, asserted, task_vars, reg_vars>>

\* Mutated form: the end is not signalled.
EndOfInterrupt_Forgotten ==
  /\ handler = "ending" /\ handler' = "return"
  /\ UNCHANGED <<active, irq, spsr, masked, timer_vars, reg_vars>> /\ HandlerFrame

EndOfInterrupt ==
  /\ handler = "ending" /\ handler' = "return"
  /\ active' = active \ {irq}
  /\ UNCHANGED <<irq, spsr, masked, timer_vars, reg_vars>> /\ HandlerFrame

\* The trampoline restores the frame and SPSR_EL1 and erets.
Eret ==
  /\ handler = "return" /\ handler' = "none"
  /\ masked' = spsr
  /\ regs' = PopFrame(regs, frame) /\ frame' = NoFrame
  /\ UNCHANGED <<irq, spsr, active, timer_vars>> /\ HandlerFrame

HandlerStep == Acknowledge \/ Dispatch \/ EndOfInterrupt \/ Eret

Tick ==
  /\ count < MaxCount
  /\ count' = count + 1
  /\ Lag
  /\ UNCHANGED <<boot_vars, masked, gic_vars, timer_vars, handler_vars, task_vars, reg_vars>>

Next == Boot \/ TaskStep \/ TakeIrq \/ HandlerStep \/ Tick

Spec == Init /\ [][Next]_vars

\* The code runs on, time passes, and the core takes an interrupt that is
\* unmasked again and again.
FairSpec ==
  /\ Spec
  /\ WF_vars(Boot) /\ WF_vars(HandlerStep) /\ WF_vars(Tick) /\ SF_vars(TakeIrq)
  /\ \A t \in Tasks :
       /\ WF_vars(EnterTask(t)) /\ WF_vars(DropGuard(t)) /\ WF_vars(\E u \in Tasks : Switch(t, u))
       /\ WF_vars(ArmControl(t) \/ ArmEnable(t) \/ CancelDisable(t))

-----------------------------------------------------------------------------
(* Properties.                                                             *)

TypeOK ==
  /\ el \in 1 .. 3 /\ masked \in BOOLEAN /\ spsr \in BOOLEAN /\ late \in BOOLEAN
  /\ enabled \subseteq Lines /\ asserted \subseteq Spis /\ active \subseteq Lines
  /\ ctl \in 0 .. 2 /\ cval \in 0 .. MaxWord /\ count \in 0 .. MaxCount
  /\ handler \in {"none", "entered", "acked", "ending", "return", "panicked"}
  /\ irq \in Lines /\ current \in Tasks
  /\ tpc \in [Tasks -> {"new", "run", "arm_ctl", "arm_gic", "cancel_gic",
                    "entry", "guarded", "switched", "drop"}]
  /\ prev \in [Tasks -> BOOLEAN] /\ chosen \in [Tasks -> BOOLEAN]

\* Whatever mask and whatever enabled lines the firmware leaves, irq_entry
\* runs only once the vector table is installed, the GIC static it reads is
\* written and the core is at EL1.
VectorsBeforeIrqs == handler # "none" => vbar /\ gic_cell /\ el = 1

\* The panics of QemuVirtCpu::new (wrong exception level, no frequency) and of
\* irq_entry (a line other than the timer's) are unreachable, whatever shared
\* lines the firmware left enabled and asserted.  (GIC init leaves the enable
\* register of the private lines alone: one that the firmware left enabled
\* and a device asserts would reach the panic, and Init excludes it.)
NoUnhandledIrq == pc # "panicked"

\* Acknowledging and ending are paired: every acknowledged interrupt has been
\* ended when the interrupted code goes on, so no line stays active and shuts
\* out the next deadline; and an end-of-interrupt is only written for a line
\* that is active, never after a spurious acknowledge.
AcknowledgedIsEnded ==
  /\ handler \in {"none", "return"} => active = {}
  /\ handler = "ending" => active = {irq}

\* The timer interrupt is never early: when irq_entry handles it, now_ns is
\* at or past the deadline armed last, also when it comes between the register
\* writes of an arm_deadline that replaces one still pending.
NeverEarly ==
  handler = "acked" /\ irq = TimerIrq => TicksToNs(count, Freq) >= deadline

\* An arm_deadline leads to at most one handled interrupt; to a second one only
\* if an earlier deadline was still armed when it was called: then the new
\* comparator value may already match before the control register is written,
\* and matches again afterwards.
FiresOnce == fired =< 1 + rearmed

\* After cancel_deadline has returned, and until the next arm_deadline,
\* irq_entry never handles a timer interrupt; at most it sees a spurious one.
CancelledStaysQuiet == quiet => ~(handler \in {"acked", "ending"} /\ irq = TimerIrq)

\* The interrupt mask belongs to the task: masked when it first runs, and
\* afterwards what it chose, across context switches of any nesting to tasks
\* with another mask and across interrupts.
MaskIsPerTask ==
  handler = "none" /\ pc = "tasks" /\ tpc[current] \notin {"guarded", "drop"}
    => masked = chosen[current]

\* No interrupt is taken inside a context switch.
SwitchIsMasked ==
  pc = "tasks" /\ tpc[current] \in {"guarded", "drop"} => masked /\ handler = "none"

\* The registers the running program relies on: all of them while it
\* computes, what the calling convention keeps after a call that switched
\* away and back, entry point and stack when it begins.
LiveRegs ==
  IF pc \in {"reset", "post_eret", "halted"} THEN {}
  ELSE IF pc # "tasks" THEN Regs
  ELSE IF tpc[current] = "entry" THEN {"x30", "sp"}
  ELSE IF tpc[current] = "drop" THEN {"x19_x29", "x30", "sp", "d8_d15"}
  ELSE Regs
Own(r) ==
  IF pc # "tasks" THEN Value("boot", 0)
  ELSE Value(current, IF r = "sp" THEN 0 ELSE turn[current])

\* Interrupts and context switches are invisible to the code they cut into:
\* whenever it goes on, every register it relies on holds the value of its
\* own latest turn and its stack pointer points into its own stack, however
\* interrupts and switches of the other tasks are mixed.  (The frame leaves
\* v0-v7 and v16-v31 out; nothing is claimed of them.)
RegistersSurvive ==
  handler = "none" => \A r \in LiveRegs \ {"simd_scratch"} : regs[r] = Own(r)

\* A deadline that is armed, enabled at the GIC and reached is delivered to
\* irq_entry (or cancelled or replaced).
DeadlineDelivered ==
  (pc = "tasks" /\ ctl = 1 /\ TimerIrq \in enabled /\ count >= cval) ~> (ctl # 1 \/ count < cval)

\* The same, provided the core is unmasked again and again while no handler
\* runs (by whichever task): then no interleaving of arming, re-arming,
\* interrupts, switches and late or spurious acknowledges loses a deadline.
DeliveredIfUnmasked == []<>(handler = "none" /\ ~masked) => DeadlineDelivered
=============================================================================
