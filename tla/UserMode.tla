------------------------------- MODULE UserMode -------------------------------
(***************************************************************************)
(* User mode and system calls: the stacks and segments usertest sets up,   *)
(* the way of a system call through syscall_entry and syscall_handler      *)
(* (syscall.c, syscall_asm.asm), and timer interrupts that switch between  *)
(* the user's task and others in the middle of it.                         *)
(*                                                                         *)
(* SHELL is the task whose shell runs usertest and so turns into the user  *)
(* program; the shell never comes back, so there is only one.  The other   *)
(* tasks stay in the kernel.  An action is one instruction where the order *)
(* matters.  Which task a timer interrupt chooses is left open here: that  *)
(* is the subject of module Scheduler.                                     *)
(*                                                                         *)
(* A place on a stack is the stack and the number of frames above it; what *)
(* lies beyond the place of a push counts as overwritten.                  *)
(***************************************************************************)
EXTENDS Integers, Sequences

CONSTANTS
  SHELL,          \* the task that runs usertest
  KernelTasks,    \* the other tasks
  Calls,          \* the system calls the user program makes
  MaxLength       \* a bound on the length passed to SYS_WRITE

ASSUME LengthAssumption == MaxLength \in Nat
ASSUME TasksAssumption == SHELL \notin KernelTasks
ASSUME CallsAssumption == Calls \subseteq {"exit", "write", "read", "yield", "unknown"}

Tasks == {SHELL} \cup KernelTasks

\* Beside a stack for each task there are secure_kernel_stack of usertest, the
\* stack of the user program, and the memory at 0, where a null pointer leads.
SECURE == "secure_kernel_stack"
USER   == "user stack"
LOW    == "address 0"
Stacks == Tasks \cup {SECURE, USER, LOW}

\* These three are memory of their own, no task's stack.
ASSUME StacksAssumption == Tasks \cap {SECURE, USER, LOW} = {}

Place(s, d) == [stack |-> s, depth |-> d]

\* The descriptors of gdt.c from index 1 on, in an order sysret cannot use and in
\* the one they have.
gdt_code_first == <<"kernel code", "kernel data", "user code", "user data", "tss">>
gdt == <<"kernel code", "kernel data", "user data", "user code", "tss">>

Descriptor(selector) == gdt[selector \div 8]

KernelCode == 8     \* GDT_KERNEL_CODE
KernelData == 16    \* GDT_KERNEL_DATA, also the base for sysret in STAR

\* Addresses in the GS registers: 0 for the user, and &cpu_data.
CPU_DATA == "cpu_data"
Bases    == {LOW, CPU_DATA}

VARIABLES
  cpu,       \* the task the processor executes
  ctx,       \* what each task is doing, where it was interrupted if it is not cpu
  IF_flag,   \* the processor takes interrupts
  mem,       \* the frames on each stack, from its top
  regs,      \* the place of the frame task->regs points to
  gs_base, kernel_gs_base,
  per_cpu,   \* kernel_stack and user_stack at each base
  rsp0,      \* tss.rsp0
  rcx,       \* where sysret goes, while syscall_entry runs
  call,      \* the number of the system call
  buf,       \* of each character SYS_WRITE has yet to print, whether it can be read
  caller     \* instruction and stack pointer of the last system call (history)

gs_vars == <<gs_base, kernel_gs_base>>
vars == <<cpu, ctx, IF_flag, mem, regs, gs_vars, per_cpu, rsp0, rcx, call, buf, caller>>

\* A task's registers: its place in the code, the user's instruction pointer, the
\* stack pointer, and the segments of code and stack.
Context(pc, ip, rsp, cs, ss) == [pc |-> pc, ip |-> ip, rsp |-> rsp, cs |-> cs, ss |-> ss]

KernelContext(t, pc) ==
  Context(pc, 0, Place(t, 0), Descriptor(KernelCode), Descriptor(KernelData))

Frame(t, c) == [task |-> t, ctx |-> c]

InUserMode == ctx[cpu].cs \in {"user code", "user data"}

Init ==
  /\ cpu = SHELL
  /\ ctx = [t \in Tasks |-> KernelContext(t, IF t = SHELL THEN "shell" ELSE "run")]
  /\ IF_flag = TRUE
  /\ mem = [s \in Stacks |->
              IF s \in KernelTasks THEN <<Frame(s, KernelContext(s, "run"))>> ELSE <<>>]
  /\ regs = [t \in Tasks |-> Place(t, 1)]
  /\ gs_base = LOW
  /\ kernel_gs_base = CPU_DATA
  /\ per_cpu = [b \in Bases |-> [kernel_stack |-> Place(LOW, 0), user_stack |-> Place(LOW, 0)]]
  /\ rsp0 = Place(LOW, 0)
  /\ rcx = 0
  /\ call = "none"
  /\ buf = <<>>
  /\ caller = <<0, Place(USER, 0)>>

\* SHELL's next instruction is the one at `from`, and the one after it at `to`.
step(from, to) ==
  /\ cpu = SHELL
  /\ ctx[SHELL].pc = from
  /\ ctx' = [ctx EXCEPT ![SHELL].pc = to]

-----------------------------------------------------------------------------
(* cmd_usertest, once both frames are allocated and mapped (module Memory).  *)

usertest ==
  /\ step("shell", "tss_set_kernel_stack")
  /\ UNCHANGED <<cpu, IF_flag, mem, regs, gs_vars, per_cpu, rsp0, rcx, call, buf, caller>>

tss_set_kernel_stack ==
  /\ step("tss_set_kernel_stack", "syscall_set_kernel_stack")
  /\ rsp0' = Place(SECURE, 0)
  /\ UNCHANGED <<cpu, IF_flag, mem, regs, gs_vars, per_cpu, rcx, call, buf, caller>>

syscall_set_kernel_stack ==
  /\ step("syscall_set_kernel_stack", "jump_to_usermode")
  /\ per_cpu' = [per_cpu EXCEPT ![CPU_DATA].kernel_stack = Place(SECURE, 0)]
  /\ UNCHANGED <<cpu, IF_flag, mem, regs, gs_vars, rsp0, rcx, call, buf, caller>>

\* cli; the user's selectors and stack are pushed; iretq.
jump_to_usermode ==
  /\ cpu = SHELL
  /\ ctx[SHELL].pc = "jump_to_usermode"
  /\ ctx' = [ctx EXCEPT ![SHELL] =
               Context("user", 0, Place(USER, 0), Descriptor(35), Descriptor(27))]
  /\ UNCHANGED <<cpu, IF_flag, mem, regs, gs_vars, per_cpu, rsp0, rcx, call, buf, caller>>

-----------------------------------------------------------------------------
(* The user program, of which user_code in usertest.c is an example. *)

user_code ==
  /\ cpu = SHELL
  /\ ctx[SHELL].pc = "user"
  /\ \E ip, depth \in {0, 1} :
       ctx' = [ctx EXCEPT ![SHELL].ip = ip, ![SHELL].rsp.depth = depth]
  /\ UNCHANGED <<cpu, IF_flag, mem, regs, gs_vars, per_cpu, rsp0, rcx, call, buf, caller>>

\* SFMASK has SFMASK_IF.
IF_after_syscall == FALSE

\* What a program may pass to SYS_WRITE: any length, and a pointer nobody checks, so
\* that each character may lie in memory that is not mapped.  A file other than 1
\* prints as little as length 0.
Buffers == UNION {[1 .. n -> BOOLEAN] : n \in 0 .. MaxLength}

\* The instruction syscall: the return address goes to rcx, the stack stays.
syscall(c) ==
  /\ cpu = SHELL
  /\ ctx[SHELL].pc = "user"
  /\ ctx' = [ctx EXCEPT ![SHELL] = Context("swapgs", 0, ctx[SHELL].rsp,
                                           Descriptor(KernelCode), Descriptor(KernelCode + 8))]
  /\ rcx' = ctx[SHELL].ip
  /\ call' = c
  /\ buf' \in IF c = "write" THEN Buffers ELSE {<<>>}
  /\ caller' = <<ctx[SHELL].ip, ctx[SHELL].rsp>>
  /\ IF_flag' = IF_after_syscall
  /\ UNCHANGED <<cpu, mem, regs, gs_vars, per_cpu, rsp0>>

-----------------------------------------------------------------------------
(* syscall_entry, instruction by instruction. *)

swapgs ==
  /\ gs_base' = kernel_gs_base
  /\ kernel_gs_base' = gs_base

swapgs_in ==
  /\ step("swapgs", "save_rsp")
  /\ swapgs
  /\ UNCHANGED <<cpu, IF_flag, mem, regs, per_cpu, rsp0, rcx, call, buf, caller>>

\* A bug: the kernel's stack pointer is loaded before the user's is saved.
save_rsp_late ==
  /\ step("save_rsp", "load_rsp")
  /\ per_cpu' = [per_cpu EXCEPT ![gs_base].user_stack = per_cpu[gs_base].kernel_stack]
  /\ UNCHANGED <<cpu, IF_flag, mem, regs, gs_vars, rsp0, rcx, call, buf, caller>>

save_rsp ==
  /\ step("save_rsp", "load_rsp")
  /\ per_cpu' = [per_cpu EXCEPT ![gs_base].user_stack = ctx[SHELL].rsp]
  /\ UNCHANGED <<cpu, IF_flag, mem, regs, gs_vars, rsp0, rcx, call, buf, caller>>

\* Loads a stack pointer for the next instruction.
load(from, to, place) ==
  /\ cpu = SHELL
  /\ ctx[SHELL].pc = from
  /\ ctx' = [ctx EXCEPT ![SHELL].pc = to, ![SHELL].rsp = place]

load_rsp ==
  /\ load("load_rsp", "push", per_cpu[gs_base].kernel_stack)
  /\ UNCHANGED <<cpu, IF_flag, mem, regs, gs_vars, per_cpu, rsp0, rcx, call, buf, caller>>

Pushed(place, f) ==
  [mem EXCEPT ![place.stack] = SubSeq(@, 1, place.depth) \o <<f>>]

\* The user's registers are pushed, and rcx is needed for an argument.
push_registers ==
  LET sp == ctx[SHELL].rsp IN
  /\ load("push", "sti", Place(sp.stack, sp.depth + 1))
  /\ mem' = Pushed(sp, Frame(SHELL, [ctx[SHELL] EXCEPT !.ip = rcx]))
  /\ rcx' = -1
  /\ UNCHANGED <<cpu, IF_flag, regs, gs_vars, per_cpu, rsp0, call, buf, caller>>

sti ==
  /\ step("sti", "syscall_handler")
  /\ IF_flag' = TRUE
  /\ UNCHANGED <<cpu, mem, regs, gs_vars, per_cpu, rsp0, rcx, call, buf, caller>>

\* A system call that waits where the code only returns.
syscall_handler_yield_waits ==
  /\ call # "yield"
  /\ step("syscall_handler", CASE call = "exit"  -> "hlt"
                               [] call = "write" -> "write"
                               [] OTHER          -> "cli")
  /\ UNCHANGED <<cpu, IF_flag, mem, regs, gs_vars, per_cpu, rsp0, rcx, call, buf, caller>>

\* SYS_EXIT stays in a hlt loop for ever, with interrupts enabled; SYS_READ, SYS_YIELD
\* and unknown calls return without doing anything.
syscall_handler ==
  /\ step("syscall_handler", CASE call = "exit"  -> "hlt"
                               [] call = "write" -> "write"
                               [] OTHER          -> "cli")
  /\ UNCHANGED <<cpu, IF_flag, mem, regs, gs_vars, per_cpu, rsp0, rcx, call, buf, caller>>

\* One turn of SYS_WRITE's loop, and its end.
write_char ==
  /\ buf # <<>> /\ Head(buf)
  /\ step("write", "write")
  /\ buf' = Tail(buf)
  /\ UNCHANGED <<cpu, IF_flag, mem, regs, gs_vars, per_cpu, rsp0, rcx, call, caller>>

write_done ==
  /\ buf = <<>>
  /\ step("write", "cli")
  /\ UNCHANGED <<cpu, IF_flag, mem, regs, gs_vars, per_cpu, rsp0, rcx, call, buf, caller>>

cli ==
  /\ step("cli", "pop")
  /\ IF_flag' = FALSE
  /\ UNCHANGED <<cpu, mem, regs, gs_vars, per_cpu, rsp0, rcx, call, buf, caller>>

pop_registers ==
  LET sp == ctx[SHELL].rsp IN
  /\ load("pop", "restore_rsp", Place(sp.stack, sp.depth - 1))
  /\ rcx' = mem[sp.stack][sp.depth].ctx.ip
  /\ UNCHANGED <<cpu, IF_flag, mem, regs, gs_vars, per_cpu, rsp0, call, buf, caller>>

restore_rsp ==
  /\ load("restore_rsp", "swapgs_back", per_cpu[gs_base].user_stack)
  /\ UNCHANGED <<cpu, IF_flag, mem, regs, gs_vars, per_cpu, rsp0, rcx, call, buf, caller>>

swapgs_out ==
  /\ step("swapgs_back", "sysret")
  /\ swapgs
  /\ UNCHANGED <<cpu, IF_flag, mem, regs, per_cpu, rsp0, rcx, call, buf, caller>>

\* The user's segments follow the base in STAR; the flags come from r11.
sysret ==
  /\ cpu = SHELL
  /\ ctx[SHELL].pc = "sysret"
  /\ ctx' = [ctx EXCEPT ![SHELL] = Context("user", rcx, ctx[SHELL].rsp,
                                           Descriptor(KernelData + 16),
                                           Descriptor(KernelData + 8))]
  /\ IF_flag' = TRUE
  /\ UNCHANGED <<cpu, mem, regs, gs_vars, per_cpu, rsp0, rcx, call, buf, caller>>

-----------------------------------------------------------------------------
(***************************************************************************)
(* A timer interrupt: in user mode the frame goes to tss.rsp0, otherwise   *)
(* to the stack in use.  irq_common_stub touches neither GS nor cpu_data.  *)
(***************************************************************************)
\* A gate with a fixed stack (IST), which every interrupt starts from its top.
interrupt_stack_fixed == rsp0

interrupt_stack == IF InUserMode THEN rsp0 ELSE ctx[cpu].rsp

\* The iretq from a frame; from a place that holds none, anything could follow.
Returned(m, place) ==
  IF place.depth \in DOMAIN m[place.stack]
    THEN m[place.stack][place.depth].ctx
    ELSE Context("lost", 0, place, "tss", "tss")

timer_irq(next) ==
  LET sp == interrupt_stack
      here == Place(sp.stack, sp.depth + 1)
      pushed == Pushed(sp, Frame(cpu, ctx[cpu]))
  IN
  /\ IF_flag
  /\ mem' = pushed
  /\ cpu' = next
  /\ regs' = IF next = cpu THEN regs ELSE [regs EXCEPT ![cpu] = here]
  /\ ctx' = IF next = cpu THEN ctx ELSE [ctx EXCEPT ![next] = Returned(pushed, regs[next])]
  /\ UNCHANGED <<IF_flag, gs_vars, per_cpu, rsp0, rcx, call, buf, caller>>

\* An exception, of an instruction of the user program or of SYS_WRITE where the
\* program's pointer leads to memory that is not mapped: isr_handler prints the
\* frame and halts with interrupts disabled, and nothing happens after that.
exception ==
  /\ cpu = SHELL
  /\ \/ ctx[SHELL].pc = "user"
     \/ ctx[SHELL].pc = "write" /\ buf # <<>> /\ ~ Head(buf)
  /\ mem' = Pushed(interrupt_stack, Frame(SHELL, ctx[SHELL]))
  /\ ctx' = [ctx EXCEPT ![SHELL].pc = "isr_handler"]
  /\ IF_flag' = FALSE
  /\ UNCHANGED <<cpu, regs, gs_vars, per_cpu, rsp0, rcx, call, buf, caller>>

halted ==
  /\ ctx[SHELL].pc = "isr_handler"
  /\ UNCHANGED vars

-----------------------------------------------------------------------------
entry_and_exit ==
  \/ swapgs_in \/ save_rsp \/ load_rsp \/ push_registers \/ sti \/ syscall_handler
  \/ write_char \/ write_done
  \/ cli \/ pop_registers \/ restore_rsp \/ swapgs_out \/ sysret

Next ==
  \/ usertest \/ tss_set_kernel_stack \/ syscall_set_kernel_stack \/ jump_to_usermode
  \/ user_code
  \/ \E c \in Calls : syscall(c)
  \/ entry_and_exit
  \/ exception \/ halted
  \/ \E t \in Tasks : timer_irq(t)

Spec == /\ Init /\ [][Next]_vars
        /\ SF_vars(entry_and_exit)
        /\ WF_vars(cpu # SHELL /\ timer_irq(SHELL))

-----------------------------------------------------------------------------
(***************************************************************************)
(* Properties                                                              *)
(***************************************************************************)
\* Whenever user code runs it runs with the user's segments, on the user's stack,
\* with interrupts enabled, and with the GS registers as syscall_entry expects
\* them (syscall_asm.asm: "GS_BASE = 0 (User), KERNEL_GS_BASE = &cpu_data"),
\* whatever switches happened since usertest or inside the last system call.
UserEnvironment ==
  ctx[cpu].pc = "user" =>
    /\ ctx[cpu].cs = "user code" /\ ctx[cpu].ss = "user data"
    /\ ctx[cpu].rsp.stack = USER
    /\ IF_flag
    /\ gs_base = LOW /\ kernel_gs_base = CPU_DATA

\* Every task that waits for the processor can go on exactly where it was: the
\* frame its regs point to lies on a kernel stack and nobody has written over it,
\* although the user's task keeps its frames on the one stack that each of its
\* system calls and interrupts starts again from the top.
FramesIntact ==
  \A t \in Tasks \ {cpu} :
    /\ regs[t].stack \in Tasks \cup {SECURE}
    /\ regs[t].depth \in DOMAIN mem[regs[t].stack]
    /\ mem[regs[t].stack][regs[t].depth] = Frame(t, ctx[t])

\* A system call returns to the instruction and to the stack it came from, although
\* both were kept in memory shared by all tasks while others ran.
ReturnsToCaller ==
  [][ctx[SHELL].pc = "sysret" /\ ctx'[SHELL].pc = "user" =>
       caller = <<ctx'[SHELL].ip, ctx'[SHELL].rsp>>]_vars

Readable == \A i \in DOMAIN buf : buf[i]

\* Every system call but exit comes back to the user program, whatever other tasks
\* run in between; a SYS_WRITE does if all it is told to print can be read.  (If
\* not, syscall_handler faults and isr_handler halts the whole system.)
CallReturns ==
  (ctx[SHELL].pc = "syscall_handler" /\ call # "exit" /\ Readable) ~> (ctx[SHELL].pc = "user")

=============================================================================
