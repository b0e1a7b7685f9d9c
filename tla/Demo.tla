-------------------------------- MODULE Demo --------------------------------
(***************************************************************************)
(* The two-task IPC demo of bsp-qemu-virt/src/main.rs: kernel_entry        *)
(* registers task B, task A and the idle task in this order and starts the *)
(* scheduler; the tasks run task_b, task_a and idle_entry on Sched.        *)
(***************************************************************************)
EXTENDS Sched

CONSTANTS
  A, B, IdleTask,   \* the slots that create_task gave the three tasks
  CapA, CapB,       \* EP_CAP_A, EP_CAP_B
  WakeSource        \* some enabled interrupt is pending: FALSE in the demo

VARIABLES
  boot,        \* tasks that kernel_entry has still to register, in order
  pc,          \* task -> the next statement it executes
  irq_pending  \* an interrupt is pending at the core, as WFI sees it

demo_vars == <<vars, boot, pc, irq_pending>>

DemoInit ==
  /\ Init
  /\ boot = <<B, A, IdleTask>>
  /\ pc = [t \in Tasks |-> IF t = B THEN "recv" ELSE IF t = A THEN "send" ELSE "wfi"]
  /\ irq_pending = WakeSource

KernelEntry ==
  /\ UNCHANGED <<pc, irq_pending>>
  /\ IF boot # <<>> THEN AddTask(Head(boot)) /\ boot' = Tail(boot)
     ELSE Start /\ UNCHANGED boot

\* Go to p if the call returned ok; any other result is an expect that fails.
Then(t, ok, p) == pc' = [pc EXCEPT ![t] = IF returned'.out \in ok THEN p ELSE "panic"]
TaskSteps == UNCHANGED <<boot, irq_pending>>

\* A blocking receive, with the result collected on resumption.
Receive(t, h, at, next) ==
  /\ pc[t] = at
  /\ \/ RecvAndYield(t, h) /\ IF resuming'[t] THEN UNCHANGED pc ELSE Then(t, {"Received"}, next)
     \/ ResumeRecv(t) /\ Then(t, {"Received"}, next)
  /\ TaskSteps

SendTo(t, h, at, next) ==
  /\ pc[t] = at
  /\ SendAndYield(t, h, NoHandle)
  /\ Then(t, {"Delivered", "Enqueued"}, next)
  /\ TaskSteps

YieldAt(t, at, next) ==
  /\ pc[t] = at
  /\ YieldNow(t)
  /\ pc' = [pc EXCEPT ![t] = next]
  /\ TaskSteps

TaskB == Receive(B, CapB, "recv", "reply") \/ SendTo(B, CapB, "reply", "yield")
         \/ YieldAt(B, "yield", "spin")
TaskA == SendTo(A, CapA, "send", "recv") \/ Receive(A, CapA, "recv", "complete")

\* WFI completes only once an interrupt is pending.  kernel_entry enables no
\* interrupt and no task arms a deadline, so WakeSource is FALSE in the demo.
WaitForInterrupt ==
  /\ Running(IdleTask) /\ pc[IdleTask] = "wfi" /\ irq_pending
  /\ pc' = [pc EXCEPT ![IdleTask] = "yield"]
  /\ UNCHANGED <<vars, boot, irq_pending>>
IdleEntry == WaitForInterrupt \/ YieldAt(IdleTask, "yield", "wfi")

DemoNext == KernelEntry \/ TaskA \/ TaskB \/ IdleEntry

\* Every task executes its next statement when it can.
DemoSpec == DemoInit /\ [][DemoNext]_demo_vars /\ WF_demo_vars(DemoNext)

-----------------------------------------------------------------------------
\* "all tasks complete": task A gets task B's reply.
DemoCompletes == <>(pc[A] = "complete")
=============================================================================
