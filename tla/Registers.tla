----------------------------- MODULE Registers -----------------------------
(***************************************************************************)
(* The register file of one aarch64 core, by classes of registers that the *)
(* kernel's assembly treats alike: the trap frame of the IRQ trampoline    *)
(* (bsp-qemu-virt/src/vectors.s, exceptions.rs) and the task context of    *)
(* the cooperative switch (bsp-qemu-virt/src/cpu.rs).  A value is a pair:  *)
(* whose value it is, and from which of its turns on the core.             *)
(***************************************************************************)
EXTENDS Naturals

Regs == {"x0_x18", "x19_x29", "x30", "sp", "d8_d15", "simd_scratch"}

\* simd_scratch: v0-v7, v16-v31 and the upper halves of v8-v15.
CallerSaved == {"x0_x18", "x30", "simd_scratch"}

\* Mutated forms: the link register is not in the frame; x19-x29 are not in
\* the context.
TrapFrame_NoLink == {"x0_x18"}
TaskContext_NoCallee == {"x30", "sp", "d8_d15"}

TrapFrame == {"x0_x18", "x30"}
TaskContext == {"x19_x29", "x30", "sp", "d8_d15"}

\* Values: of a program, of nobody (a zeroed context), of the handler.
Value(who, turn) == <<who, turn>>
Zero == Value("zero", 0)
Foreign == Value("handler", 0)
NoContext == [r \in TaskContext |-> Zero]
NoFrame == [r \in TrapFrame |-> Zero]

\* What program `who` leaves in the registers while it computes: everything
\* is its own, the stack pointer only moves within its stack.
Computed(file, who, turn) ==
  [r \in Regs |-> IF r = "sp" THEN file[r] ELSE Value(who, turn)]

\* init_context on a Default context: the entry point and the stack.
InitContext(who) ==
  [r \in TaskContext |-> IF r \in {"x30", "sp"} THEN Value(who, 0) ELSE Zero]

\* context_switch_asm: the stp half into the current context, the ldp half
\* from the next one.
SaveContext(file) == [r \in TaskContext |-> file[r]]
RestoreContext(file, ctx) == [r \in Regs |-> IF r \in TaskContext THEN ctx[r] ELSE file[r]]

\* The trampoline: push the frame, call compiled code that keeps the
\* procedure-call standard and nothing more, pop the frame.
PushFrame(file) == [r \in TrapFrame |-> file[r]]
Clobbered(file) == [r \in Regs |-> IF r \in CallerSaved THEN Foreign ELSE file[r]]
PopFrame(file, frame) == [r \in Regs |-> IF r \in TrapFrame THEN frame[r] ELSE file[r]]
=============================================================================
