--------------------------- MODULE UserModeProofs ---------------------------
(***************************************************************************)
(* Proofs about user mode and system calls, for any number of tasks that   *)
(* timer interrupts switch to, wherever an interrupt finds the user's task *)
(* on its way through syscall_entry.                                       *)
(***************************************************************************)
EXTENDS UserMode, SequenceTheorems, TLAPS

-----------------------------------------------------------------------------
(* The inductive invariant: a table of what the user's task finds in the   *)
(* registers, in cpu_data and on its kernel stack at every instruction.    *)

\* Before the jump to user mode, and inside of syscall_handler.
Setup   == {"shell", "tss_set_kernel_stack", "syscall_set_kernel_stack", "jump_to_usermode"}
Handler == {"syscall_handler", "hlt", "write", "cli"}

\* Instructions between syscall and sti, and between cli and sysret.
Entry == {"swapgs", "save_rsp", "load_rsp", "push", "sti"}
Exit  == {"pop", "restore_rsp", "swapgs_back", "sysret"}

\* Where interrupts are disabled; the system never leaves isr_handler.
Masked == Entry \cup Exit \cup {"isr_handler"}

Pcs == Setup \cup Handler \cup Masked \cup {"user", "run"}

\* Where the GS registers are exchanged, where the user's registers lie on the
\* stack, and where rcx and cpu_data hold what sysret needs.
Swapped  == (Entry \cup Handler \cup Exit) \ {"swapgs", "sysret"}
OnStack  == {"sti", "pop"} \cup Handler
InRcx    == (Entry \cup Exit) \ OnStack
Saved    == Swapped \ {"save_rsp", "swapgs_back"}

Segments == {"kernel code", "kernel data", "user data", "user code", "tss"}
Places   == [stack : Stacks, depth : Nat]
Contexts == [pc : Pcs, ip : Int, rsp : Places, cs : Segments, ss : Segments]
Frames   == [task : Tasks, ctx : Contexts]

at(S) == ctx[SHELL].pc \in S

Types ==
  /\ cpu \in Tasks
  /\ ctx \in [Tasks -> Contexts]
  /\ IF_flag \in BOOLEAN
  /\ mem \in [Stacks -> Seq(Frames)]
  /\ regs \in [Tasks -> Places]
  /\ gs_base \in Bases /\ kernel_gs_base \in Bases
  /\ per_cpu \in [Bases -> [kernel_stack : Places, user_stack : Places]]
  /\ rsp0 \in Places
  /\ rcx \in Int
  /\ caller \in Int \X Places

\* A kernel task is at the same place whenever it is interrupted, and keeps the
\* frame it is resumed from even while it runs.
Workers ==
  \A t \in KernelTasks :
    /\ ctx[t] = KernelContext(t, "run")
    /\ regs[t] = Place(t, 1)
    /\ 1 \in DOMAIN mem[t] /\ mem[t][1] = Frame(t, KernelContext(t, "run"))

\* Interrupts are off on the way in and out of the kernel, so no other task runs.
Masking ==
  /\ at(Pcs \ {"run"})
  /\ at(Masked) => ~ IF_flag /\ cpu = SHELL
  /\ ~ at(Masked) => IF_flag

GsRegisters ==
  /\ at(Swapped) => gs_base = CPU_DATA /\ kernel_gs_base = LOW
  /\ ~ at(Swapped \cup {"isr_handler"}) => gs_base = LOW /\ kernel_gs_base = CPU_DATA

ShellSegments ==
  /\ at({"user"}) => ctx[SHELL].cs = "user code" /\ ctx[SHELL].ss = "user data"
  /\ ~ at({"user", "isr_handler"}) => ctx[SHELL].cs = "kernel code" /\ ctx[SHELL].ss = "kernel data"

\* The stacks usertest has set up are the ones interrupts and system calls use.
KernelStacks ==
  /\ ~ at({"shell", "tss_set_kernel_stack"}) => rsp0 = Place(SECURE, 0)
  /\ ~ at(Setup \ {"jump_to_usermode"}) => per_cpu[CPU_DATA].kernel_stack = Place(SECURE, 0)

StackPointer ==
  /\ at(Setup) => ctx[SHELL].rsp = Place(SHELL, 0)
  /\ at({"user", "swapgs", "save_rsp", "load_rsp"}) => ctx[SHELL].rsp.stack = USER
  /\ at({"push", "restore_rsp"}) => ctx[SHELL].rsp = Place(SECURE, 0)
  /\ at(OnStack) => ctx[SHELL].rsp = Place(SECURE, 1)

\* What sysret will need is the caller's, wherever it is kept at the moment.
Kept ==
  /\ caller[2].stack = USER
  /\ at({"swapgs", "save_rsp", "swapgs_back", "sysret"}) => ctx[SHELL].rsp = caller[2]
  /\ at(Saved) => per_cpu[CPU_DATA].user_stack = caller[2]
  /\ at(InRcx) => rcx = caller[1]
  /\ at(OnStack) => 1 \in DOMAIN mem[SECURE] /\ mem[SECURE][1].ctx.ip = caller[1]

\* The user's task, when it waits, waits on one of its own two stacks.
Waiting ==
  cpu # SHELL =>
    /\ regs[SHELL].stack \in {SHELL, SECURE}
    /\ regs[SHELL].depth \in DOMAIN mem[regs[SHELL].stack]
    /\ mem[regs[SHELL].stack][regs[SHELL].depth] = Frame(SHELL, ctx[SHELL])

Table == Masking /\ GsRegisters /\ ShellSegments /\ KernelStacks /\ StackPointer /\ Kept

IInv == Types /\ Workers /\ Table /\ Waiting

-----------------------------------------------------------------------------
(* The constants. *)

LEMMA Distinct ==
  /\ SHELL \in Tasks /\ SHELL \notin KernelTasks
  /\ Tasks \subseteq Stacks /\ SECURE \in Stacks /\ USER \in Stacks /\ LOW \in Stacks
  /\ SECURE \notin Tasks /\ USER \notin Tasks /\ LOW \notin Tasks
  /\ SECURE # USER /\ SECURE # LOW /\ USER # LOW /\ LOW # CPU_DATA
  /\ LOW \in Bases /\ CPU_DATA \in Bases
  /\ \A t \in Tasks : t = SHELL \/ t \in KernelTasks
  /\ \A t \in KernelTasks : t \in Tasks /\ t # SECURE /\ t # SHELL
BY TasksAssumption, StacksAssumption DEF Tasks, Stacks, SECURE, USER, LOW, CPU_DATA, Bases

\* The selectors of gdt.h and the ones sysret and syscall compute lead to the
\* descriptors they are meant to.
LEMMA Selectors ==
  /\ Descriptor(KernelCode) = "kernel code" /\ Descriptor(KernelCode + 8) = "kernel data"
  /\ Descriptor(KernelData) = "kernel data"
  /\ Descriptor(KernelData + 8) = "user data" /\ Descriptor(KernelData + 16) = "user code"
  /\ Descriptor(35) = "user code" /\ Descriptor(27) = "user data"
BY DEF Descriptor, KernelCode, KernelData, gdt

LEMMA PlaceType ==
  ASSUME NEW s \in Stacks, NEW n \in Nat
  PROVE  /\ Place(s, n) \in Places
         /\ Place(s, n).stack = s /\ Place(s, n).depth = n
BY DEF Place, Places

LEMMA ContextType ==
  ASSUME NEW p \in Pcs, NEW i \in Int, NEW r \in Places, NEW c \in Segments, NEW d \in Segments
  PROVE  /\ Context(p, i, r, c, d) \in Contexts
         /\ Context(p, i, r, c, d).pc = p /\ Context(p, i, r, c, d).ip = i
         /\ Context(p, i, r, c, d).rsp = r
         /\ Context(p, i, r, c, d).cs = c /\ Context(p, i, r, c, d).ss = d
BY DEF Context, Contexts

LEMMA WorkerContext ==
  ASSUME NEW t \in Tasks, NEW p \in Pcs
  PROVE  /\ KernelContext(t, p) \in Contexts
         /\ KernelContext(t, p).pc = p /\ KernelContext(t, p).rsp = Place(t, 0)
         /\ KernelContext(t, p).cs = "kernel code" /\ KernelContext(t, p).ss = "kernel data"
<1>1. Place(t, 0) \in Places
  BY Distinct, PlaceType
<1>2. /\ Descriptor(KernelCode) = "kernel code" /\ Descriptor(KernelCode) \in Segments
      /\ Descriptor(KernelData) = "kernel data" /\ Descriptor(KernelData) \in Segments
  BY Selectors DEF Segments
<1>3. PICK a, b, r : a = Descriptor(KernelCode) /\ b = Descriptor(KernelData) /\ r = Place(t, 0)
  OBVIOUS
<1>4. KernelContext(t, p) \in Contexts
  <2>1. a \in Segments /\ b \in Segments /\ r \in Places
    BY <1>1, <1>2, <1>3
  <2>2. [pc |-> p, ip |-> 0, rsp |-> r, cs |-> a, ss |-> b] \in Contexts
    BY <2>1 DEF Contexts
  <2>3. KernelContext(t, p) = [pc |-> p, ip |-> 0, rsp |-> r, cs |-> a, ss |-> b]
    BY <1>3 DEF KernelContext, Context
  <2> QED
    BY <2>2, <2>3
<1>5. /\ KernelContext(t, p).pc = p /\ KernelContext(t, p).rsp = Place(t, 0)
      /\ KernelContext(t, p).cs = "kernel code" /\ KernelContext(t, p).ss = "kernel data"
  BY <1>2, <1>3 DEF KernelContext, Context
<1> QED
  BY <1>4, <1>5

-----------------------------------------------------------------------------
(* Instructions of the user's task. *)

LEMMA StepFacts ==
  ASSUME Types, NEW from, NEW to \in Pcs, step(from, to)
  PROVE  /\ cpu = SHELL /\ ctx[SHELL].pc = from
         /\ ctx' \in [Tasks -> Contexts]
         /\ ctx'[SHELL].pc = to /\ ctx'[SHELL].ip = ctx[SHELL].ip
         /\ ctx'[SHELL].rsp = ctx[SHELL].rsp
         /\ ctx'[SHELL].cs = ctx[SHELL].cs /\ ctx'[SHELL].ss = ctx[SHELL].ss
         /\ \A t \in KernelTasks : ctx'[t] = ctx[t]
<1>1. ctx[SHELL] \in Contexts
  BY Distinct DEF Types
<1>2. ctx' = [ctx EXCEPT ![SHELL] = [ctx[SHELL] EXCEPT !.pc = to]]
  BY DEF step
<1>3. [ctx[SHELL] EXCEPT !.pc = to] \in Contexts
  BY <1>1 DEF Contexts
<1>4. ctx'[SHELL] = [ctx[SHELL] EXCEPT !.pc = to]
  BY <1>2, Distinct DEF Types
<1>5. ctx' \in [Tasks -> Contexts] /\ \A t \in KernelTasks : ctx'[t] = ctx[t]
  BY <1>2, <1>3, Distinct DEF Types
<1>6. cpu = SHELL /\ ctx[SHELL].pc = from
  BY DEF step
<1> QED
  BY <1>1, <1>4, <1>5, <1>6 DEF Contexts

LEMMA LoadFacts ==
  ASSUME Types, NEW from, NEW to \in Pcs, NEW place \in Places, load(from, to, place)
  PROVE  /\ cpu = SHELL /\ ctx[SHELL].pc = from
         /\ ctx' \in [Tasks -> Contexts]
         /\ ctx'[SHELL].pc = to /\ ctx'[SHELL].ip = ctx[SHELL].ip
         /\ ctx'[SHELL].rsp = place
         /\ ctx'[SHELL].cs = ctx[SHELL].cs /\ ctx'[SHELL].ss = ctx[SHELL].ss
         /\ \A t \in KernelTasks : ctx'[t] = ctx[t]
<1>1. ctx[SHELL] \in Contexts
  BY Distinct DEF Types
<1>2. ctx' = [ctx EXCEPT ![SHELL] = [ctx[SHELL] EXCEPT !.pc = to, !.rsp = place]]
  BY <1>1, Distinct DEF load, Types, Contexts
<1>3. [ctx[SHELL] EXCEPT !.pc = to, !.rsp = place] \in Contexts
  BY <1>1 DEF Contexts
<1>4. ctx'[SHELL] = [ctx[SHELL] EXCEPT !.pc = to, !.rsp = place]
  BY <1>2, Distinct DEF Types
<1>5. ctx' \in [Tasks -> Contexts] /\ \A t \in KernelTasks : ctx'[t] = ctx[t]
  BY <1>2, <1>3, Distinct DEF Types
<1>6. cpu = SHELL /\ ctx[SHELL].pc = from
  BY DEF load
<1> QED
  BY <1>1, <1>4, <1>5, <1>6 DEF Contexts

LEMMA SetFacts ==
  ASSUME Types, NEW c \in Contexts, ctx' = [ctx EXCEPT ![SHELL] = c]
  PROVE  /\ ctx' \in [Tasks -> Contexts] /\ ctx'[SHELL] = c
         /\ \A t \in KernelTasks : ctx'[t] = ctx[t]
BY Distinct DEF Types

\* As long as the user's task runs and no stack is touched, the others wait as before.
LEMMA Undisturbed ==
  ASSUME Workers, cpu = SHELL, cpu' = cpu, mem' = mem, regs' = regs,
         \A t \in KernelTasks : ctx'[t] = ctx[t]
  PROVE  Workers' /\ Waiting'
BY DEF Workers, Waiting

\* One lemma for each instruction: the table before it and after it.
LEMMA UsertestStep == IInv /\ usertest => IInv'
<1> SUFFICES ASSUME IInv, usertest PROVE IInv'
  OBVIOUS
<1>0. Types /\ Workers /\ Table /\ Waiting
  BY DEF IInv
<1>1. step("shell", "tss_set_kernel_stack") /\ "tss_set_kernel_stack" \in Pcs
  BY DEF usertest, Pcs, Masked, Setup, Handler, Entry, Exit
<1>2. UNCHANGED <<cpu, IF_flag, mem, regs, gs_base, kernel_gs_base, per_cpu, rsp0, rcx, call, caller>>
  BY DEF usertest, gs_vars
<1>3. /\ cpu = SHELL /\ ctx[SHELL].pc = "shell" /\ ctx' \in [Tasks -> Contexts]
      /\ ctx'[SHELL].pc = "tss_set_kernel_stack" /\ ctx'[SHELL].rsp = ctx[SHELL].rsp
      /\ ctx'[SHELL].cs = ctx[SHELL].cs /\ ctx'[SHELL].ss = ctx[SHELL].ss
      /\ \A t \in KernelTasks : ctx'[t] = ctx[t]
  BY <1>0, <1>1, StepFacts
<1>4. Workers' /\ Waiting'
  BY <1>0, <1>2, <1>3, Undisturbed
<1>6. Types'
  BY <1>0, <1>2, <1>3 DEF Types
<1>7. Table'
  BY <1>0, <1>2, <1>3 DEF Table, Masking, GsRegisters, ShellSegments,
     KernelStacks, StackPointer, Kept, at, Setup, Handler, Entry, Exit, Masked, Pcs, Swapped,
     OnStack, InRcx, Saved
<1> QED
  BY <1>4, <1>6, <1>7 DEF IInv

LEMMA TssStep == IInv /\ tss_set_kernel_stack => IInv'
<1> SUFFICES ASSUME IInv, tss_set_kernel_stack PROVE IInv'
  OBVIOUS
<1>0. Types /\ Workers /\ Table /\ Waiting
  BY DEF IInv
<1>1. step("tss_set_kernel_stack", "syscall_set_kernel_stack") /\ "syscall_set_kernel_stack" \in Pcs
  BY DEF tss_set_kernel_stack, Pcs, Masked, Setup, Handler, Entry, Exit
<1>2. UNCHANGED <<cpu, IF_flag, mem, regs, gs_base, kernel_gs_base, per_cpu, rcx, call, caller>>
  BY DEF tss_set_kernel_stack, gs_vars
<1>3. /\ cpu = SHELL /\ ctx[SHELL].pc = "tss_set_kernel_stack" /\ ctx' \in [Tasks -> Contexts]
      /\ ctx'[SHELL].pc = "syscall_set_kernel_stack" /\ ctx'[SHELL].rsp = ctx[SHELL].rsp
      /\ ctx'[SHELL].cs = ctx[SHELL].cs /\ ctx'[SHELL].ss = ctx[SHELL].ss
      /\ \A t \in KernelTasks : ctx'[t] = ctx[t]
  BY <1>0, <1>1, StepFacts
<1>4. Workers' /\ Waiting'
  BY <1>0, <1>2, <1>3, Undisturbed
<1>5. rsp0' = Place(SECURE, 0) /\ rsp0' \in Places
  BY Distinct, PlaceType DEF tss_set_kernel_stack
<1>6. Types'
  BY <1>0, <1>2, <1>3, <1>5 DEF Types
<1>7. Table'
  BY <1>0, <1>2, <1>3, <1>5 DEF Table, Masking, GsRegisters, ShellSegments,
     KernelStacks, StackPointer, Kept, at, Setup, Handler, Entry, Exit, Masked, Pcs, Swapped,
     OnStack, InRcx, Saved
<1> QED
  BY <1>4, <1>6, <1>7 DEF IInv

LEMMA SetStackStep == IInv /\ syscall_set_kernel_stack => IInv'
<1> SUFFICES ASSUME IInv, syscall_set_kernel_stack PROVE IInv'
  OBVIOUS
<1>0. Types /\ Workers /\ Table /\ Waiting
  BY DEF IInv
<1>1. step("syscall_set_kernel_stack", "jump_to_usermode") /\ "jump_to_usermode" \in Pcs
  BY DEF syscall_set_kernel_stack, Pcs, Masked, Setup, Handler, Entry, Exit
<1>2. UNCHANGED <<cpu, IF_flag, mem, regs, gs_base, kernel_gs_base, rsp0, rcx, call, caller>>
  BY DEF syscall_set_kernel_stack, gs_vars
<1>3. /\ cpu = SHELL /\ ctx[SHELL].pc = "syscall_set_kernel_stack" /\ ctx' \in [Tasks -> Contexts]
      /\ ctx'[SHELL].pc = "jump_to_usermode" /\ ctx'[SHELL].rsp = ctx[SHELL].rsp
      /\ ctx'[SHELL].cs = ctx[SHELL].cs /\ ctx'[SHELL].ss = ctx[SHELL].ss
      /\ \A t \in KernelTasks : ctx'[t] = ctx[t]
  BY <1>0, <1>1, StepFacts
<1>4. Workers' /\ Waiting'
  BY <1>0, <1>2, <1>3, Undisturbed
<1>5. /\ per_cpu' \in [Bases -> [kernel_stack : Places, user_stack : Places]]
      /\ per_cpu'[CPU_DATA].kernel_stack = Place(SECURE, 0)
      /\ per_cpu'[CPU_DATA].user_stack = per_cpu[CPU_DATA].user_stack
  <2>1. Place(SECURE, 0) \in Places
    BY Distinct, PlaceType
  <2>2. per_cpu' = [per_cpu EXCEPT ![CPU_DATA].kernel_stack = Place(SECURE, 0)]
    BY DEF syscall_set_kernel_stack
  <2> QED
    BY <1>0, <2>1, <2>2, Distinct DEF Types
<1>6. Types'
  BY <1>0, <1>2, <1>3, <1>5 DEF Types
<1>7. Table'
  BY <1>0, <1>2, <1>3, <1>5 DEF Table, Masking, GsRegisters, ShellSegments,
     KernelStacks, StackPointer, Kept, at, Setup, Handler, Entry, Exit, Masked, Pcs, Swapped,
     OnStack, InRcx, Saved
<1> QED
  BY <1>4, <1>6, <1>7 DEF IInv

LEMMA SwapInStep == IInv /\ swapgs_in => IInv'
<1> SUFFICES ASSUME IInv, swapgs_in PROVE IInv'
  OBVIOUS
<1>0. Types /\ Workers /\ Table /\ Waiting
  BY DEF IInv
<1>1. step("swapgs", "save_rsp") /\ "save_rsp" \in Pcs
  BY DEF swapgs_in, Pcs, Masked, Setup, Handler, Entry, Exit
<1>2. UNCHANGED <<cpu, IF_flag, mem, regs, per_cpu, rsp0, rcx, call, caller>>
  BY DEF swapgs_in, gs_vars
<1>3. /\ cpu = SHELL /\ ctx[SHELL].pc = "swapgs" /\ ctx' \in [Tasks -> Contexts]
      /\ ctx'[SHELL].pc = "save_rsp" /\ ctx'[SHELL].rsp = ctx[SHELL].rsp
      /\ ctx'[SHELL].cs = ctx[SHELL].cs /\ ctx'[SHELL].ss = ctx[SHELL].ss
      /\ \A t \in KernelTasks : ctx'[t] = ctx[t]
  BY <1>0, <1>1, StepFacts
<1>4. Workers' /\ Waiting'
  BY <1>0, <1>2, <1>3, Undisturbed
<1>5. gs_base' = kernel_gs_base /\ kernel_gs_base' = gs_base
  BY DEF swapgs_in, swapgs
<1>6. Types'
  BY <1>0, <1>2, <1>3, <1>5 DEF Types
<1>7. Table'
  BY <1>0, <1>2, <1>3, <1>5 DEF Table, Masking, GsRegisters, ShellSegments,
     KernelStacks, StackPointer, Kept, at, Setup, Handler, Entry, Exit, Masked, Pcs, Swapped,
     OnStack, InRcx, Saved
<1> QED
  BY <1>4, <1>6, <1>7 DEF IInv

LEMMA SaveRspStep == IInv /\ save_rsp => IInv'
<1> SUFFICES ASSUME IInv, save_rsp PROVE IInv'
  OBVIOUS
<1>0. Types /\ Workers /\ Table /\ Waiting
  BY DEF IInv
<1>1. step("save_rsp", "load_rsp") /\ "load_rsp" \in Pcs
  BY DEF save_rsp, Pcs, Masked, Setup, Handler, Entry, Exit
<1>2. UNCHANGED <<cpu, IF_flag, mem, regs, gs_base, kernel_gs_base, rsp0, rcx, call, caller>>
  BY DEF save_rsp, gs_vars
<1>3. /\ cpu = SHELL /\ ctx[SHELL].pc = "save_rsp" /\ ctx' \in [Tasks -> Contexts]
      /\ ctx'[SHELL].pc = "load_rsp" /\ ctx'[SHELL].rsp = ctx[SHELL].rsp
      /\ ctx'[SHELL].cs = ctx[SHELL].cs /\ ctx'[SHELL].ss = ctx[SHELL].ss
      /\ \A t \in KernelTasks : ctx'[t] = ctx[t]
  BY <1>0, <1>1, StepFacts
<1>4. Workers' /\ Waiting'
  BY <1>0, <1>2, <1>3, Undisturbed
<1>5. /\ per_cpu' \in [Bases -> [kernel_stack : Places, user_stack : Places]]
      /\ per_cpu'[CPU_DATA].kernel_stack = per_cpu[CPU_DATA].kernel_stack
      /\ per_cpu'[CPU_DATA].user_stack = ctx[SHELL].rsp
  <2>1. ctx[SHELL].rsp \in Places
    BY <1>0, Distinct DEF Types, Contexts
  <2>2. gs_base = CPU_DATA
    BY <1>0, <1>3 DEF Table, GsRegisters, at, Swapped, Entry, Handler, Exit
  <2>3. per_cpu' = [per_cpu EXCEPT ![CPU_DATA].user_stack = ctx[SHELL].rsp]
    BY <2>2 DEF save_rsp
  <2> QED
    BY <1>0, <2>1, <2>3, Distinct DEF Types
<1>6. Types'
  BY <1>0, <1>2, <1>3, <1>5 DEF Types
<1>7. Table'
  BY <1>0, <1>2, <1>3, <1>5 DEF Table, Masking, GsRegisters, ShellSegments,
     KernelStacks, StackPointer, Kept, at, Setup, Handler, Entry, Exit, Masked, Pcs, Swapped,
     OnStack, InRcx, Saved
<1> QED
  BY <1>4, <1>6, <1>7 DEF IInv

LEMMA StiStep == IInv /\ sti => IInv'
<1> SUFFICES ASSUME IInv, sti PROVE IInv'
  OBVIOUS
<1>0. Types /\ Workers /\ Table /\ Waiting
  BY DEF IInv
<1>1. step("sti", "syscall_handler") /\ "syscall_handler" \in Pcs
  BY DEF sti, Pcs, Masked, Setup, Handler, Entry, Exit
<1>2. UNCHANGED <<cpu, mem, regs, gs_base, kernel_gs_base, per_cpu, rsp0, rcx, call, caller>>
  BY DEF sti, gs_vars
<1>3. /\ cpu = SHELL /\ ctx[SHELL].pc = "sti" /\ ctx' \in [Tasks -> Contexts]
      /\ ctx'[SHELL].pc = "syscall_handler" /\ ctx'[SHELL].rsp = ctx[SHELL].rsp
      /\ ctx'[SHELL].cs = ctx[SHELL].cs /\ ctx'[SHELL].ss = ctx[SHELL].ss
      /\ \A t \in KernelTasks : ctx'[t] = ctx[t]
  BY <1>0, <1>1, StepFacts
<1>4. Workers' /\ Waiting'
  BY <1>0, <1>2, <1>3, Undisturbed
<1>5. IF_flag' = TRUE /\ IF_flag' \in BOOLEAN /\ IF_flag'
  BY Zenon DEF sti
<1>6. Types'
  BY <1>0, <1>2, <1>3, <1>5 DEF Types
<1>7. Table'
  BY <1>0, <1>2, <1>3, <1>5 DEF Table, Masking, GsRegisters, ShellSegments,
     KernelStacks, StackPointer, Kept, at, Setup, Handler, Entry, Exit, Masked, Pcs, Swapped,
     OnStack, InRcx, Saved
<1> QED
  BY <1>4, <1>6, <1>7 DEF IInv

LEMMA CliStep == IInv /\ cli => IInv'
<1> SUFFICES ASSUME IInv, cli PROVE IInv'
  OBVIOUS
<1>0. Types /\ Workers /\ Table /\ Waiting
  BY DEF IInv
<1>1. step("cli", "pop") /\ "pop" \in Pcs
  BY DEF cli, Pcs, Masked, Setup, Handler, Entry, Exit
<1>2. UNCHANGED <<cpu, mem, regs, gs_base, kernel_gs_base, per_cpu, rsp0, rcx, call, caller>>
  BY DEF cli, gs_vars
<1>3. /\ cpu = SHELL /\ ctx[SHELL].pc = "cli" /\ ctx' \in [Tasks -> Contexts]
      /\ ctx'[SHELL].pc = "pop" /\ ctx'[SHELL].rsp = ctx[SHELL].rsp
      /\ ctx'[SHELL].cs = ctx[SHELL].cs /\ ctx'[SHELL].ss = ctx[SHELL].ss
      /\ \A t \in KernelTasks : ctx'[t] = ctx[t]
  BY <1>0, <1>1, StepFacts
<1>4. Workers' /\ Waiting'
  BY <1>0, <1>2, <1>3, Undisturbed
<1>5. IF_flag' = FALSE /\ IF_flag' \in BOOLEAN /\ ~ IF_flag'
  BY Zenon DEF cli
<1>6. Types'
  BY <1>0, <1>2, <1>3, <1>5 DEF Types
<1>7. Table'
  BY <1>0, <1>2, <1>3, <1>5 DEF Table, Masking, GsRegisters, ShellSegments,
     KernelStacks, StackPointer, Kept, at, Setup, Handler, Entry, Exit, Masked, Pcs, Swapped,
     OnStack, InRcx, Saved
<1> QED
  BY <1>4, <1>6, <1>7 DEF IInv

LEMMA SwapOutStep == IInv /\ swapgs_out => IInv'
<1> SUFFICES ASSUME IInv, swapgs_out PROVE IInv'
  OBVIOUS
<1>0. Types /\ Workers /\ Table /\ Waiting
  BY DEF IInv
<1>1. step("swapgs_back", "sysret") /\ "sysret" \in Pcs
  BY DEF swapgs_out, Pcs, Masked, Setup, Handler, Entry, Exit
<1>2. UNCHANGED <<cpu, IF_flag, mem, regs, per_cpu, rsp0, rcx, call, caller>>
  BY DEF swapgs_out, gs_vars
<1>3. /\ cpu = SHELL /\ ctx[SHELL].pc = "swapgs_back" /\ ctx' \in [Tasks -> Contexts]
      /\ ctx'[SHELL].pc = "sysret" /\ ctx'[SHELL].rsp = ctx[SHELL].rsp
      /\ ctx'[SHELL].cs = ctx[SHELL].cs /\ ctx'[SHELL].ss = ctx[SHELL].ss
      /\ \A t \in KernelTasks : ctx'[t] = ctx[t]
  BY <1>0, <1>1, StepFacts
<1>4. Workers' /\ Waiting'
  BY <1>0, <1>2, <1>3, Undisturbed
<1>5. gs_base' = kernel_gs_base /\ kernel_gs_base' = gs_base
  BY DEF swapgs_out, swapgs
<1>6. Types'
  BY <1>0, <1>2, <1>3, <1>5 DEF Types
<1>7. Table'
  BY <1>0, <1>2, <1>3, <1>5 DEF Table, Masking, GsRegisters, ShellSegments,
     KernelStacks, StackPointer, Kept, at, Setup, Handler, Entry, Exit, Masked, Pcs, Swapped,
     OnStack, InRcx, Saved
<1> QED
  BY <1>4, <1>6, <1>7 DEF IInv

LEMMA HandlerStep == IInv /\ syscall_handler => IInv'
<1> SUFFICES ASSUME IInv, syscall_handler PROVE IInv'
  OBVIOUS
<1>0. Types /\ Workers /\ Table /\ Waiting
  BY DEF IInv
<1>1. PICK to : to \in {"hlt", "write", "cli"} /\ step("syscall_handler", to) /\ to \in Pcs
  BY DEF syscall_handler, Pcs, Handler
<1>2. UNCHANGED <<cpu, IF_flag, mem, regs, gs_base, kernel_gs_base, per_cpu, rsp0, rcx, call, caller>>
  BY DEF syscall_handler, gs_vars
<1>3. /\ cpu = SHELL /\ ctx[SHELL].pc = "syscall_handler" /\ ctx' \in [Tasks -> Contexts]
      /\ ctx'[SHELL].pc = to /\ ctx'[SHELL].rsp = ctx[SHELL].rsp
      /\ ctx'[SHELL].cs = ctx[SHELL].cs /\ ctx'[SHELL].ss = ctx[SHELL].ss
      /\ \A t \in KernelTasks : ctx'[t] = ctx[t]
  BY <1>0, <1>1, StepFacts
<1>4. Workers' /\ Waiting'
  BY <1>0, <1>2, <1>3, Undisturbed
<1>6. Types'
  BY <1>0, <1>2, <1>3 DEF Types
<1>7. Table'
  BY <1>0, <1>1, <1>2, <1>3 DEF Table, Masking, GsRegisters, ShellSegments,
     KernelStacks, StackPointer, Kept, at, Setup, Handler, Entry, Exit, Masked, Pcs, Swapped,
     OnStack, InRcx, Saved
<1> QED
  BY <1>4, <1>6, <1>7 DEF IInv

LEMMA WriteCharStep == IInv /\ write_char => IInv'
<1> SUFFICES ASSUME IInv, write_char PROVE IInv'
  OBVIOUS
<1>0. Types /\ Workers /\ Table /\ Waiting
  BY DEF IInv
<1>1. step("write", "write") /\ "write" \in Pcs
  BY DEF write_char, Pcs, Handler
<1>2. UNCHANGED <<cpu, IF_flag, mem, regs, gs_base, kernel_gs_base, per_cpu, rsp0, rcx, call, caller>>
  BY DEF write_char, gs_vars
<1>3. /\ cpu = SHELL /\ ctx[SHELL].pc = "write" /\ ctx' \in [Tasks -> Contexts]
      /\ ctx'[SHELL].pc = "write" /\ ctx'[SHELL].rsp = ctx[SHELL].rsp
      /\ ctx'[SHELL].cs = ctx[SHELL].cs /\ ctx'[SHELL].ss = ctx[SHELL].ss
      /\ \A t \in KernelTasks : ctx'[t] = ctx[t]
  BY <1>0, <1>1, StepFacts
<1>4. Workers' /\ Waiting'
  BY <1>0, <1>2, <1>3, Undisturbed
<1>6. Types'
  BY <1>0, <1>2, <1>3 DEF Types
<1>7. Table'
  BY <1>0, <1>1, <1>2, <1>3 DEF Table, Masking, GsRegisters, ShellSegments,
     KernelStacks, StackPointer, Kept, at, Setup, Handler, Entry, Exit, Masked, Pcs, Swapped,
     OnStack, InRcx, Saved
<1> QED
  BY <1>4, <1>6, <1>7 DEF IInv

LEMMA WriteDoneStep == IInv /\ write_done => IInv'
<1> SUFFICES ASSUME IInv, write_done PROVE IInv'
  OBVIOUS
<1>0. Types /\ Workers /\ Table /\ Waiting
  BY DEF IInv
<1>1. step("write", "cli") /\ "cli" \in Pcs
  BY DEF write_done, Pcs, Handler
<1>2. UNCHANGED <<cpu, IF_flag, mem, regs, gs_base, kernel_gs_base, per_cpu, rsp0, rcx, call, caller>>
  BY DEF write_done, gs_vars
<1>3. /\ cpu = SHELL /\ ctx[SHELL].pc = "write" /\ ctx' \in [Tasks -> Contexts]
      /\ ctx'[SHELL].pc = "cli" /\ ctx'[SHELL].rsp = ctx[SHELL].rsp
      /\ ctx'[SHELL].cs = ctx[SHELL].cs /\ ctx'[SHELL].ss = ctx[SHELL].ss
      /\ \A t \in KernelTasks : ctx'[t] = ctx[t]
  BY <1>0, <1>1, StepFacts
<1>4. Workers' /\ Waiting'
  BY <1>0, <1>2, <1>3, Undisturbed
<1>6. Types'
  BY <1>0, <1>2, <1>3 DEF Types
<1>7. Table'
  BY <1>0, <1>1, <1>2, <1>3 DEF Table, Masking, GsRegisters, ShellSegments,
     KernelStacks, StackPointer, Kept, at, Setup, Handler, Entry, Exit, Masked, Pcs, Swapped,
     OnStack, InRcx, Saved
<1> QED
  BY <1>4, <1>6, <1>7 DEF IInv

LEMMA LoadRspStep == IInv /\ load_rsp => IInv'
<1> SUFFICES ASSUME IInv, load_rsp PROVE IInv'
  OBVIOUS
<1>0. Types /\ Workers /\ Table /\ Waiting
  BY DEF IInv
<1>1. ctx[SHELL].pc = "load_rsp"
  BY DEF load_rsp, load
<1>2. UNCHANGED <<cpu, IF_flag, mem, regs, gs_base, kernel_gs_base, per_cpu, rsp0, rcx, call, caller>>
  BY DEF load_rsp, gs_vars
<1>3. /\ per_cpu[gs_base].kernel_stack = Place(SECURE, 0)
      /\ Place(SECURE, 0) \in Places
  <2>1. gs_base = CPU_DATA /\ per_cpu[CPU_DATA].kernel_stack = Place(SECURE, 0)
    BY <1>0, <1>1 DEF Table, GsRegisters, KernelStacks, StackPointer, Kept,
       at, Setup, Swapped, Saved, OnStack, InRcx, Entry, Handler, Exit
  <2> QED
    BY <2>1, Distinct, PlaceType
<1>4. load("load_rsp", "push", Place(SECURE, 0)) /\ "push" \in Pcs
  BY <1>3 DEF load_rsp, Pcs, Masked, Entry, Exit
<1>5. /\ cpu = SHELL /\ ctx' \in [Tasks -> Contexts]
      /\ ctx'[SHELL].pc = "push" /\ ctx'[SHELL].rsp = Place(SECURE, 0)
      /\ ctx'[SHELL].cs = ctx[SHELL].cs /\ ctx'[SHELL].ss = ctx[SHELL].ss
      /\ \A t \in KernelTasks : ctx'[t] = ctx[t]
  BY <1>0, <1>3, <1>4, LoadFacts
<1>7. Workers' /\ Waiting'
  BY <1>0, <1>2, <1>5, Undisturbed
<1>8. Types'
  BY <1>0, <1>1, <1>2, <1>3, <1>5 DEF Types
<1>9. Table'
  BY <1>0, <1>1, <1>2, <1>3, <1>5 DEF Table, Masking, GsRegisters, ShellSegments,
     KernelStacks, StackPointer, Kept, at, Setup, Handler, Entry, Exit, Masked, Pcs, Swapped,
     OnStack, InRcx, Saved
<1> QED
  BY <1>7, <1>8, <1>9 DEF IInv

LEMMA RestoreStep == IInv /\ restore_rsp => IInv'
<1> SUFFICES ASSUME IInv, restore_rsp PROVE IInv'
  OBVIOUS
<1>0. Types /\ Workers /\ Table /\ Waiting
  BY DEF IInv
<1>1. ctx[SHELL].pc = "restore_rsp"
  BY DEF restore_rsp, load
<1>2. UNCHANGED <<cpu, IF_flag, mem, regs, gs_base, kernel_gs_base, per_cpu, rsp0, rcx, call, caller>>
  BY DEF restore_rsp, gs_vars
<1>3. /\ per_cpu[gs_base].user_stack = caller[2]
      /\ caller[2] \in Places
  <2>1. gs_base = CPU_DATA /\ per_cpu[CPU_DATA].user_stack = caller[2]
    BY <1>0, <1>1 DEF Table, GsRegisters, KernelStacks, StackPointer, Kept,
       at, Setup, Swapped, Saved, OnStack, InRcx, Entry, Handler, Exit
  <2> QED
    BY <1>0, <2>1 DEF Types
<1>4. load("restore_rsp", "swapgs_back", caller[2]) /\ "swapgs_back" \in Pcs
  BY <1>3 DEF restore_rsp, Pcs, Masked, Entry, Exit
<1>5. /\ cpu = SHELL /\ ctx' \in [Tasks -> Contexts]
      /\ ctx'[SHELL].pc = "swapgs_back" /\ ctx'[SHELL].rsp = caller[2]
      /\ ctx'[SHELL].cs = ctx[SHELL].cs /\ ctx'[SHELL].ss = ctx[SHELL].ss
      /\ \A t \in KernelTasks : ctx'[t] = ctx[t]
  BY <1>0, <1>3, <1>4, LoadFacts
<1>7. Workers' /\ Waiting'
  BY <1>0, <1>2, <1>5, Undisturbed
<1>8. Types'
  BY <1>0, <1>1, <1>2, <1>3, <1>5 DEF Types
<1>9. Table'
  BY <1>0, <1>1, <1>2, <1>3, <1>5 DEF Table, Masking, GsRegisters, ShellSegments,
     KernelStacks, StackPointer, Kept, at, Setup, Handler, Entry, Exit, Masked, Pcs, Swapped,
     OnStack, InRcx, Saved
<1> QED
  BY <1>7, <1>8, <1>9 DEF IInv

LEMMA PopStep == IInv /\ pop_registers => IInv'
<1> SUFFICES ASSUME IInv, pop_registers PROVE IInv'
  OBVIOUS
<1>0. Types /\ Workers /\ Table /\ Waiting
  BY DEF IInv
<1>1. ctx[SHELL].pc = "pop"
  BY DEF pop_registers, load
<1>2. UNCHANGED <<cpu, IF_flag, mem, regs, gs_base, kernel_gs_base, per_cpu, rsp0, call, caller>>
  BY DEF pop_registers, gs_vars
<1>3. /\ ctx[SHELL].rsp = Place(SECURE, 1)
      /\ Place(SECURE, 1).stack = SECURE /\ Place(SECURE, 1).depth = 1 /\ 1 - 1 = 0
      /\ Place(SECURE, 0) \in Places
  <2>1. ctx[SHELL].rsp = Place(SECURE, 1)
    BY <1>0, <1>1 DEF Table, GsRegisters, KernelStacks, StackPointer, Kept,
       at, Setup, Swapped, Saved, OnStack, InRcx, Entry, Handler, Exit
  <2> QED
    BY <2>1, Distinct, PlaceType
<1>4. load("pop", "restore_rsp", Place(SECURE, 0)) /\ "restore_rsp" \in Pcs
  BY <1>3 DEF pop_registers, Pcs, Masked, Entry, Exit
<1>5. /\ cpu = SHELL /\ ctx' \in [Tasks -> Contexts]
      /\ ctx'[SHELL].pc = "restore_rsp" /\ ctx'[SHELL].rsp = Place(SECURE, 0)
      /\ ctx'[SHELL].cs = ctx[SHELL].cs /\ ctx'[SHELL].ss = ctx[SHELL].ss
      /\ \A t \in KernelTasks : ctx'[t] = ctx[t]
  BY <1>0, <1>3, <1>4, LoadFacts
<1>6. rcx' = caller[1] /\ rcx' \in Int
  <2>1. rcx' = mem[SECURE][1].ctx.ip
    BY <1>3 DEF pop_registers
  <2>2. mem[SECURE][1].ctx.ip = caller[1]
    BY <1>0, <1>1 DEF Table, GsRegisters, KernelStacks, StackPointer, Kept,
       at, Setup, Swapped, Saved, OnStack, InRcx, Entry, Handler, Exit
  <2> QED
    BY <1>0, <2>1, <2>2 DEF Types
<1>7. Workers' /\ Waiting'
  BY <1>0, <1>2, <1>5, Undisturbed
<1>8. Types'
  BY <1>0, <1>1, <1>2, <1>3, <1>5, <1>6 DEF Types
<1>9. Table'
  BY <1>0, <1>1, <1>2, <1>3, <1>5, <1>6 DEF Table, Masking, GsRegisters, ShellSegments,
     KernelStacks, StackPointer, Kept, at, Setup, Handler, Entry, Exit, Masked, Pcs, Swapped,
     OnStack, InRcx, Saved
<1> QED
  BY <1>7, <1>8, <1>9 DEF IInv

\* A frame pushed at a place leaves the frames above it and the other stacks alone.
LEMMA PushFacts ==
  ASSUME mem \in [Stacks -> Seq(Frames)], NEW s \in Stacks, NEW n \in Nat, n <= Len(mem[s]),
         NEW f \in Frames, NEW place, place = Place(s, n),
         NEW m, m = Pushed(place, f)
  PROVE  /\ m \in [Stacks -> Seq(Frames)]
         /\ n + 1 \in DOMAIN m[s] /\ m[s][n + 1] = f
         /\ \A i \in 1 .. n : i \in DOMAIN m[s] /\ m[s][i] = mem[s][i]
         /\ \A x \in Stacks : x # s => m[x] = mem[x]
<1>1. place.stack = s /\ place.depth = n
  BY PlaceType
<1> DEFINE q == SubSeq(mem[s], 1, n)
<1>2. m = [mem EXCEPT ![s] = q \o <<f>>]
  BY <1>1 DEF Pushed
<1>3. mem[s] \in Seq(Frames)
  OBVIOUS
<1>4. q \in Seq(Frames) /\ Len(q) = n /\ \A i \in 1 .. n : q[i] = mem[s][i]
  <2>1. CASE n = 0
    <3>1. q = << >>
      BY <1>3, <2>1, SubSeqEmpty
    <3> QED
      BY <2>1, <3>1
  <2>2. CASE n >= 1
    <3>1. 1 \in 1 .. Len(mem[s]) /\ n \in 1 .. Len(mem[s])
      BY <1>3, <2>2
    <3>2. q \in Seq(Frames) /\ Len(q) = n
      BY <1>3, <3>1, SubSeqProperties
    <3>3. ASSUME NEW i \in 1 .. n PROVE q[i] = mem[s][i]
      BY <1>3, <3>1, SubSeqProperties
    <3> QED
      BY <3>2, <3>3
  <2> QED
    BY <2>1, <2>2
<1> HIDE DEF q
<1>5. <<f>> \in Seq(Frames) /\ Len(<<f>>) = 1 /\ <<f>>[1] = f
  OBVIOUS
<1>6. q \o <<f>> \in Seq(Frames) /\ Len(q \o <<f>>) = n + 1
  BY <1>4, <1>5, ConcatProperties
<1>7. (q \o <<f>>)[n + 1] = f /\ \A i \in 1 .. n : (q \o <<f>>)[i] = q[i]
  BY <1>4, <1>5, ConcatProperties
<1>8. m \in [Stacks -> Seq(Frames)] /\ m[s] = q \o <<f>> /\ \A x \in Stacks : x # s => m[x] = mem[x]
  BY <1>2, <1>6
<1>9. DOMAIN m[s] = 1 .. n + 1
  BY <1>6, <1>8
<1> QED
  BY <1>4, <1>7, <1>8, <1>9

LEMMA PushStep == IInv /\ push_registers => IInv'
<1> SUFFICES ASSUME IInv, push_registers PROVE IInv'
  OBVIOUS
<1>0. Types /\ Workers /\ Table /\ Waiting
  BY DEF IInv
<1>1. ctx[SHELL].pc = "push"
  BY DEF push_registers, load
<1>2. UNCHANGED <<cpu, IF_flag, regs, gs_base, kernel_gs_base, per_cpu, rsp0, call, caller>>
  BY DEF push_registers, gs_vars
<1>3. /\ ctx[SHELL].rsp = Place(SECURE, 0)
      /\ Place(SECURE, 0).stack = SECURE /\ Place(SECURE, 0).depth = 0 /\ 0 + 1 = 1
      /\ Place(SECURE, 1) \in Places
  <2>1. ctx[SHELL].rsp = Place(SECURE, 0)
    BY <1>0, <1>1 DEF Table, GsRegisters, KernelStacks, StackPointer, Kept,
       at, Setup, Swapped, Saved, OnStack, InRcx, Entry, Handler, Exit
  <2> QED
    BY <2>1, Distinct, PlaceType
<1>4. load("push", "sti", Place(SECURE, 1)) /\ "sti" \in Pcs
  BY <1>3 DEF push_registers, Pcs, Masked, Entry, Exit
<1>5. /\ cpu = SHELL /\ ctx' \in [Tasks -> Contexts]
      /\ ctx'[SHELL].pc = "sti" /\ ctx'[SHELL].rsp = Place(SECURE, 1)
      /\ ctx'[SHELL].cs = ctx[SHELL].cs /\ ctx'[SHELL].ss = ctx[SHELL].ss
      /\ \A t \in KernelTasks : ctx'[t] = ctx[t]
  BY <1>0, <1>3, <1>4, LoadFacts
<1>6. /\ mem' \in [Stacks -> Seq(Frames)] /\ rcx' \in Int
      /\ 1 \in DOMAIN mem'[SECURE] /\ mem'[SECURE][1].ctx.ip = caller[1]
      /\ \A x \in Stacks : x # SECURE => mem'[x] = mem[x]
  <2>1. PICK c, f : c = [ctx[SHELL] EXCEPT !.ip = rcx] /\ f = Frame(SHELL, c)
    OBVIOUS
  <2>2. ctx[SHELL] \in Contexts /\ rcx \in Int /\ mem \in [Stacks -> Seq(Frames)]
    BY <1>0, Distinct DEF Types
  <2>3. c \in Contexts /\ c.ip = rcx
    BY <2>1, <2>2 DEF Contexts
  <2>4. f \in Frames /\ f.ctx = c
    BY <2>1, <2>3, Distinct DEF Frame, Frames
  <2>5. rcx = caller[1]
    BY <1>0, <1>1 DEF Table, GsRegisters, KernelStacks, StackPointer, Kept,
       at, Setup, Swapped, Saved, OnStack, InRcx, Entry, Handler, Exit
  <2>6. mem' = Pushed(Place(SECURE, 0), f) /\ rcx' = -1
    BY <1>3, <2>1 DEF push_registers
  <2>7. SECURE \in Stacks /\ 0 \in Nat /\ 0 <= Len(mem[SECURE])
    BY <2>2, Distinct
  <2>8. PICK m : m = mem'
    OBVIOUS
  <2>9. /\ m \in [Stacks -> Seq(Frames)]
        /\ 0 + 1 \in DOMAIN m[SECURE] /\ m[SECURE][0 + 1] = f
        /\ \A x \in Stacks : x # SECURE => m[x] = mem[x]
    BY <2>2, <2>4, <2>6, <2>7, <2>8, PushFacts
  <2> QED
    BY <2>3, <2>4, <2>5, <2>6, <2>8, <2>9
<1>7. Workers' /\ Waiting'
  <2>1. \A t \in KernelTasks : mem'[t] = mem[t]
    BY <1>6, Distinct
  <2> QED
    BY <1>0, <1>2, <1>5, <2>1 DEF Workers, Waiting
<1>8. Types'
  BY <1>0, <1>1, <1>2, <1>3, <1>5, <1>6 DEF Types
<1>9. Table'
  BY <1>0, <1>1, <1>2, <1>3, <1>5, <1>6 DEF Table, Masking, GsRegisters, ShellSegments,
     KernelStacks, StackPointer, Kept, at, Setup, Handler, Entry, Exit, Masked, Pcs, Swapped,
     OnStack, InRcx, Saved
<1> QED
  BY <1>7, <1>8, <1>9 DEF IInv

LEMMA JumpStep == IInv /\ jump_to_usermode => IInv'
<1> SUFFICES ASSUME IInv, jump_to_usermode PROVE IInv'
  OBVIOUS
<1>0. Types /\ Workers /\ Table /\ Waiting
  BY DEF IInv
<1>1. cpu = SHELL /\ ctx[SHELL].pc = "jump_to_usermode"
  BY DEF jump_to_usermode
<1>2. UNCHANGED <<cpu, IF_flag, mem, regs, gs_base, kernel_gs_base, per_cpu, rsp0, rcx, call, caller>>
  BY DEF jump_to_usermode, gs_vars
<1>3. PICK c : c = Context("user", 0, Place(USER, 0), "user code", "user data")
  OBVIOUS
<1>4. Place(USER, 0) \in Places /\ Place(USER, 0).stack = USER
  BY Distinct, PlaceType
<1>5. c \in Contexts
  <2>1. PICK r : r = Place(USER, 0)
    OBVIOUS
  <2>2. PICK p, a, b : p = "user" /\ a = "user code" /\ b = "user data"
    OBVIOUS
  <2>3. r \in Places /\ p \in Pcs /\ a \in Segments /\ b \in Segments
    BY <1>4, <2>1, <2>2 DEF Segments, Pcs
  <2>4. c = [pc |-> p, ip |-> 0, rsp |-> r, cs |-> a, ss |-> b]
    BY <1>3, <2>1, <2>2 DEF Context
  <2> QED
    BY <2>3, <2>4 DEF Contexts
<1>6. c.pc = "user" /\ c.rsp.stack = USER /\ c.cs = "user code" /\ c.ss = "user data"
  BY <1>3, <1>4 DEF Context
<1>7. ctx' = [ctx EXCEPT ![SHELL] = c]
  BY <1>3, Selectors DEF jump_to_usermode
<1>8. /\ ctx' \in [Tasks -> Contexts] /\ ctx'[SHELL] = c
      /\ \A t \in KernelTasks : ctx'[t] = ctx[t]
  BY <1>0, <1>5, <1>7, SetFacts
<1>9. Workers' /\ Waiting'
  BY <1>0, <1>1, <1>2, <1>8, Undisturbed
<1>10. Types'
  BY <1>0, <1>2, <1>8 DEF Types
<1>11. Table'
  BY <1>0, <1>1, <1>2, <1>6, <1>8 DEF Table, Masking, GsRegisters, ShellSegments,
     KernelStacks, StackPointer, Kept, at, Setup, Handler, Entry, Exit, Masked, Pcs, Swapped,
     OnStack, InRcx, Saved
<1> QED
  BY <1>9, <1>10, <1>11 DEF IInv

LEMMA UserCodeStep == IInv /\ user_code => IInv'
<1> SUFFICES ASSUME IInv, user_code PROVE IInv'
  OBVIOUS
<1>0. Types /\ Workers /\ Table /\ Waiting
  BY DEF IInv
<1>1. cpu = SHELL /\ ctx[SHELL].pc = "user"
  BY DEF user_code
<1>2. UNCHANGED <<cpu, IF_flag, mem, regs, gs_base, kernel_gs_base, per_cpu, rsp0, rcx, call, caller>>
  BY DEF user_code, gs_vars
<1>3. PICK i, n : /\ i \in {0, 1} /\ n \in {0, 1}
                  /\ ctx' = [ctx EXCEPT ![SHELL].ip = i, ![SHELL].rsp.depth = n]
  BY DEF user_code
<1>4. ctx[SHELL] \in Contexts /\ ctx[SHELL].rsp \in Places /\ ctx \in [Tasks -> Contexts]
  BY <1>0, Distinct DEF Types, Contexts
<1>5. PICK r, c : /\ r = [ctx[SHELL].rsp EXCEPT !.depth = n]
                  /\ c = [ctx[SHELL] EXCEPT !.ip = i, !.rsp = r]
  OBVIOUS
<1>6. r \in Places /\ r.stack = ctx[SHELL].rsp.stack
  BY <1>3, <1>4, <1>5 DEF Places
<1>7. /\ c \in Contexts /\ c.pc = ctx[SHELL].pc /\ c.rsp.stack = ctx[SHELL].rsp.stack
      /\ c.cs = ctx[SHELL].cs /\ c.ss = ctx[SHELL].ss
  <2>1. PICK x : x = ctx[SHELL]
    OBVIOUS
  <2>2. x \in Contexts /\ i \in Int /\ r \in Places /\ c = [x EXCEPT !.ip = i, !.rsp = r]
    BY <1>3, <1>4, <1>5, <1>6, <2>1
  <2>3. c \in Contexts
    BY <2>2 DEF Contexts
  <2>4. c.pc = x.pc /\ c.rsp = r /\ c.cs = x.cs /\ c.ss = x.ss
    BY <2>2 DEF Contexts
  <2> QED
    BY <1>6, <2>1, <2>3, <2>4
<1>8. ctx' = [ctx EXCEPT ![SHELL] = c]
  BY <1>3, <1>4, <1>5, Distinct DEF Contexts
<1>9. /\ ctx' \in [Tasks -> Contexts] /\ ctx'[SHELL] = c
      /\ \A t \in KernelTasks : ctx'[t] = ctx[t]
  BY <1>0, <1>7, <1>8, SetFacts
<1>10. Workers' /\ Waiting'
  BY <1>0, <1>1, <1>2, <1>9, Undisturbed
<1>11. Types'
  BY <1>0, <1>2, <1>9 DEF Types
<1>12. Table'
  BY <1>0, <1>1, <1>2, <1>7, <1>9 DEF Table, Masking, GsRegisters, ShellSegments,
     KernelStacks, StackPointer, Kept, at, Setup, Handler, Entry, Exit, Masked, Pcs, Swapped,
     OnStack, InRcx, Saved
<1> QED
  BY <1>10, <1>11, <1>12 DEF IInv

LEMMA SyscallStep == ASSUME NEW k, IInv, syscall(k) PROVE IInv'
<1>0. Types /\ Workers /\ Table /\ Waiting
  BY DEF IInv
<1>1. cpu = SHELL /\ ctx[SHELL].pc = "user" /\ rcx' = ctx[SHELL].ip
      /\ caller' = <<ctx[SHELL].ip, ctx[SHELL].rsp>>
  BY DEF syscall
<1>2. UNCHANGED <<cpu, mem, regs, gs_base, kernel_gs_base, per_cpu, rsp0>>
  BY DEF syscall, gs_vars
<1>3. IF_flag' = FALSE /\ IF_flag' \in BOOLEAN /\ ~ IF_flag'
  BY Zenon DEF syscall, IF_after_syscall
<1>4. ctx[SHELL] \in Contexts /\ ctx[SHELL].ip \in Int /\ ctx[SHELL].rsp \in Places
  BY <1>0, Distinct DEF Types, Contexts
<1>5. PICK c : c = Context("swapgs", 0, ctx[SHELL].rsp, "kernel code", "kernel data")
  OBVIOUS
<1>6. /\ c \in Contexts /\ c.pc = "swapgs" /\ c.rsp = ctx[SHELL].rsp
      /\ c.cs = "kernel code" /\ c.ss = "kernel data"
  <2>1. PICK r : r = ctx[SHELL].rsp
    OBVIOUS
  <2>2. PICK p, a, b : p = "swapgs" /\ a = "kernel code" /\ b = "kernel data"
    OBVIOUS
  <2>3. r \in Places /\ p \in Pcs /\ a \in Segments /\ b \in Segments
    BY <1>4, <2>1, <2>2 DEF Segments, Pcs, Masked, Entry
  <2>4. c = [pc |-> p, ip |-> 0, rsp |-> r, cs |-> a, ss |-> b]
    BY <1>5, <2>1, <2>2 DEF Context
  <2>5. c \in Contexts
    BY <2>3, <2>4 DEF Contexts
  <2> QED
    BY <2>1, <2>2, <2>4, <2>5
<1>7. ctx' = [ctx EXCEPT ![SHELL] = c]
  BY <1>5, Selectors DEF syscall
<1>8. /\ ctx' \in [Tasks -> Contexts] /\ ctx'[SHELL] = c
      /\ \A t \in KernelTasks : ctx'[t] = ctx[t]
  BY <1>0, <1>6, <1>7, SetFacts
<1>9. Workers' /\ Waiting'
  BY <1>0, <1>1, <1>2, <1>8, Undisturbed
<1>10. Types'
  BY <1>0, <1>1, <1>2, <1>3, <1>4, <1>8 DEF Types
<1>11. caller'[1] = ctx[SHELL].ip /\ caller'[2] = ctx[SHELL].rsp
  BY <1>1
<1>12. Table'
  BY <1>0, <1>1, <1>2, <1>3, <1>6, <1>8, <1>11 DEF Table, Masking, GsRegisters, ShellSegments,
     KernelStacks, StackPointer, Kept, at, Setup, Handler, Entry, Exit, Masked, Pcs, Swapped,
     OnStack, InRcx, Saved
<1> QED
  BY <1>9, <1>10, <1>12 DEF IInv

LEMMA SysretStep == IInv /\ sysret => IInv'
<1> SUFFICES ASSUME IInv, sysret PROVE IInv'
  OBVIOUS
<1>0. Types /\ Workers /\ Table /\ Waiting
  BY DEF IInv
<1>1. cpu = SHELL /\ ctx[SHELL].pc = "sysret"
  BY DEF sysret
<1>2. UNCHANGED <<cpu, mem, regs, gs_base, kernel_gs_base, per_cpu, rsp0, rcx, call, caller>>
  BY DEF sysret, gs_vars
<1>3. IF_flag' = TRUE /\ IF_flag' \in BOOLEAN /\ IF_flag'
  BY Zenon DEF sysret
<1>4. /\ ctx[SHELL] \in Contexts /\ ctx[SHELL].rsp \in Places /\ rcx \in Int
      /\ ctx[SHELL].rsp.stack = USER
  <2>1. ctx[SHELL].rsp = caller[2] /\ caller[2].stack = USER
    BY <1>0, <1>1 DEF Table, GsRegisters, KernelStacks, StackPointer, Kept,
       at, Setup, Swapped, Saved, OnStack, InRcx, Entry, Handler, Exit
  <2> QED
    BY <1>0, <2>1, Distinct DEF Types, Contexts
<1>5. PICK c : c = Context("user", rcx, ctx[SHELL].rsp, "user code", "user data")
  OBVIOUS
<1>6. /\ c \in Contexts /\ c.pc = "user" /\ c.rsp = ctx[SHELL].rsp
      /\ c.cs = "user code" /\ c.ss = "user data"
  <2>1. PICK r : r = ctx[SHELL].rsp
    OBVIOUS
  <2>2. c = [pc |-> "user", ip |-> rcx, rsp |-> r, cs |-> "user code", ss |-> "user data"]
    BY <1>5, <2>1 DEF Context
  <2> QED
    BY <1>4, <2>1, <2>2 DEF Contexts, Segments, Pcs
<1>7. ctx' = [ctx EXCEPT ![SHELL] = c]
  BY <1>5, Selectors DEF sysret
<1>8. /\ ctx' \in [Tasks -> Contexts] /\ ctx'[SHELL] = c
      /\ \A t \in KernelTasks : ctx'[t] = ctx[t]
  BY <1>0, <1>6, <1>7, SetFacts
<1>9. Workers' /\ Waiting'
  BY <1>0, <1>1, <1>2, <1>8, Undisturbed
<1>10. Types'
  BY <1>0, <1>2, <1>3, <1>8 DEF Types
<1>11. Table'
  BY <1>0, <1>1, <1>2, <1>3, <1>4, <1>6, <1>8 DEF Table, Masking, GsRegisters, ShellSegments,
     KernelStacks, StackPointer, Kept, at, Setup, Handler, Entry, Exit, Masked, Pcs, Swapped,
     OnStack, InRcx, Saved
<1> QED
  BY <1>9, <1>10, <1>11 DEF IInv

-----------------------------------------------------------------------------
(* Timer interrupts. *)

\* The frame of an interrupt goes to the top of the running task's own stack, but
\* inside of a system call it goes below the user's registers.
LEMMA InterruptPlace ==
  ASSUME IInv, IF_flag
  PROVE  \E s, n :
           /\ s \in Stacks /\ n \in Nat /\ interrupt_stack = Place(s, n) /\ n <= Len(mem[s])
           /\ cpu = SHELL => s \in {SHELL, SECURE}
           /\ cpu = SHELL /\ at(OnStack) => s = SECURE /\ n = 1
           /\ cpu # SHELL => s = cpu /\ n = 0
<1>0. Types /\ Workers /\ Table
  BY DEF IInv
<1>1. mem \in [Stacks -> Seq(Frames)] /\ cpu \in Tasks
  BY <1>0 DEF Types
<1>2. \A x \in Stacks : 0 <= Len(mem[x])
  BY <1>1
<1>3. CASE cpu # SHELL
  <2>1. cpu \in KernelTasks /\ cpu \in Stacks
    BY <1>1, <1>3, Distinct
  <2>2. ctx[cpu] = KernelContext(cpu, "run") /\ "run" \in Pcs
    BY <1>0, <2>1 DEF Workers, Pcs
  <2>3. ctx[cpu].rsp = Place(cpu, 0) /\ ctx[cpu].cs = "kernel code"
    <3>1. PICK x, p : x = cpu /\ p = "run"
      OBVIOUS
    <3>2. x \in Tasks /\ p \in Pcs /\ ctx[x] = KernelContext(x, p)
      BY <1>1, <2>2, <3>1
    <3>3. KernelContext(x, p).rsp = Place(x, 0) /\ KernelContext(x, p).cs = "kernel code"
      BY <3>2, WorkerContext
    <3> QED
      BY <3>1, <3>2, <3>3
  <2>4. interrupt_stack = Place(cpu, 0)
    BY <2>3 DEF interrupt_stack, InUserMode
  <2> QED
    BY <1>2, <1>3, <2>1, <2>4
<1>4. CASE cpu = SHELL /\ at(Setup)
  <2>1. /\ ctx[SHELL].rsp = Place(SHELL, 0) /\ ctx[SHELL].cs = "kernel code" /\ ~ at(OnStack)
    BY <1>0, <1>4 DEF Table, StackPointer, ShellSegments, at, Setup, OnStack, Handler
  <2>2. interrupt_stack = Place(SHELL, 0)
    BY <1>4, <2>1 DEF interrupt_stack, InUserMode
  <2> QED
    BY <1>2, <1>4, <2>1, <2>2, Distinct
<1>5. CASE cpu = SHELL /\ at({"user"})
  <2>1. rsp0 = Place(SECURE, 0) /\ ctx[SHELL].cs = "user code" /\ ~ at(OnStack)
    BY <1>0, <1>5 DEF Table, KernelStacks, ShellSegments, at, Setup, OnStack, Handler
  <2>2. interrupt_stack = Place(SECURE, 0)
    BY <1>5, <2>1 DEF interrupt_stack, InUserMode
  <2> QED
    BY <1>2, <1>5, <2>1, <2>2, Distinct
<1>6. CASE cpu = SHELL /\ at(Handler)
  <2>1. /\ ctx[SHELL].rsp = Place(SECURE, 1) /\ ctx[SHELL].cs = "kernel code"
        /\ 1 \in DOMAIN mem[SECURE]
    BY <1>0, <1>6 DEF Table, StackPointer, ShellSegments, Kept, at, OnStack, Handler
  <2>2. interrupt_stack = Place(SECURE, 1)
    BY <1>6, <2>1 DEF interrupt_stack, InUserMode
  <2>3. 1 <= Len(mem[SECURE])
    <3>1. mem[SECURE] \in Seq(Frames)
      BY <1>1, Distinct
    <3>2. PICK q : q = mem[SECURE]
      OBVIOUS
    <3>3. q \in Seq(Frames) /\ 1 \in DOMAIN q
      BY <2>1, <3>1, <3>2
    <3>4. 1 <= Len(q)
      BY <3>3
    <3> QED
      BY <3>2, <3>4
  <2> QED
    BY <1>6, <2>2, <2>3, Distinct
<1>7. at(Setup) \/ at({"user"}) \/ at(Handler)
  BY <1>0 DEF Table, Masking, at, Pcs, Masked, Setup, Handler, Entry, Exit
<1> QED
  BY <1>3, <1>4, <1>5, <1>6, <1>7

\* An exception's frame goes where an interrupt's would, and nothing runs after it.
LEMMA ExceptionStep == IInv /\ exception => IInv'
<1> SUFFICES ASSUME IInv, exception PROVE IInv'
  OBVIOUS
<1>0. Types /\ Workers /\ Table /\ Waiting
  BY DEF IInv
<1>1. cpu = SHELL /\ at({"user", "write"})
  BY DEF exception, at
<1>2. IF_flag
  BY <1>0, <1>1 DEF Table, Masking, at, Masked, Entry, Exit
<1>3. PICK s, n :
        /\ s \in Stacks /\ n \in Nat /\ interrupt_stack = Place(s, n) /\ n <= Len(mem[s])
        /\ s \in {SHELL, SECURE}
  BY <1>1, <1>2, InterruptPlace
<1>4. UNCHANGED <<cpu, regs, gs_base, kernel_gs_base, per_cpu, rsp0, rcx, call, caller>>
  BY DEF exception, gs_vars
<1>5. IF_flag' = FALSE /\ IF_flag' \in BOOLEAN /\ ~ IF_flag'
  BY Zenon DEF exception
<1>6. ctx[SHELL] \in Contexts /\ ctx \in [Tasks -> Contexts] /\ mem \in [Stacks -> Seq(Frames)]
  BY <1>0, Distinct DEF Types
<1>7. PICK c, x : c = [x EXCEPT !.pc = "isr_handler"] /\ x = ctx[SHELL]
  OBVIOUS
<1>8. c \in Contexts /\ c.pc = "isr_handler"
  <2>1. "isr_handler" \in Pcs
    BY DEF Pcs, Masked
  <2> QED
    BY <1>6, <1>7, <2>1 DEF Contexts
<1>9. ctx' = [ctx EXCEPT ![SHELL] = c]
  BY <1>6, <1>7 DEF exception
<1>10. /\ ctx' \in [Tasks -> Contexts] /\ ctx'[SHELL] = c
       /\ \A t \in KernelTasks : ctx'[t] = ctx[t]
  BY <1>0, <1>8, <1>9, SetFacts
<1>11. PICK f, m, place : /\ f = Frame(SHELL, ctx[SHELL]) /\ place = Place(s, n)
                         /\ m = Pushed(place, f) /\ mem' = m
  BY <1>3 DEF exception
<1>12. f \in Frames
  BY <1>6, <1>11, Distinct DEF Frame, Frames
<1>13. m \in [Stacks -> Seq(Frames)] /\ \A y \in Stacks : y # s => m[y] = mem[y]
  BY <1>3, <1>6, <1>11, <1>12, PushFacts, SMTT(20)
<1>14. \A t \in KernelTasks : mem'[t] = mem[t]
  BY <1>3, <1>11, <1>13, Distinct
<1>15. Workers' /\ Waiting'
  BY <1>0, <1>1, <1>4, <1>10, <1>14 DEF Workers, Waiting
<1>16. Types'
  BY <1>0, <1>4, <1>5, <1>10, <1>11, <1>13 DEF Types
<1>17. ctx'[SHELL].pc = "isr_handler"
  BY <1>8, <1>10
<1>18. Table'
  BY <1>0, <1>1, <1>4, <1>5, <1>17 DEF Table, Masking, GsRegisters, ShellSegments,
     KernelStacks, StackPointer, Kept, at, Setup, Handler, Entry, Exit, Masked, Pcs, Swapped,
     OnStack, InRcx, Saved
<1> QED
  BY <1>15, <1>16, <1>18 DEF IInv

\* A switch resumes the next task where it was, so that no context changes.
LEMMA TimerStep == ASSUME NEW next \in Tasks, IInv, timer_irq(next) PROVE IInv'
<1>0. Types /\ Workers /\ Table /\ Waiting
  BY DEF IInv
<1>1. IF_flag
  BY DEF timer_irq
<1>2. PICK s, n :
        /\ s \in Stacks /\ n \in Nat /\ interrupt_stack = Place(s, n) /\ n <= Len(mem[s])
        /\ cpu = SHELL => s \in {SHELL, SECURE}
        /\ cpu = SHELL /\ at(OnStack) => s = SECURE /\ n = 1
        /\ cpu # SHELL => s = cpu /\ n = 0
  BY <1>1, InterruptPlace
<1>3. PICK me, f, m, here, c :
        /\ me = cpu /\ f = Frame(cpu, ctx[cpu]) /\ m = Pushed(Place(s, n), f)
        /\ here = Place(s, n + 1) /\ c = ctx
  OBVIOUS
<1>4. Place(s, n).stack = s /\ Place(s, n).depth = n /\ n + 1 \in Nat
  BY <1>2, PlaceType
<1>5. /\ mem' = m /\ cpu' = next
      /\ regs' = (IF next = me THEN regs ELSE [regs EXCEPT ![me] = here])
      /\ ctx' = (IF next = me THEN c ELSE [c EXCEPT ![next] = Returned(m, regs[next])])
  BY <1>2, <1>3, <1>4 DEF timer_irq
<1>6. UNCHANGED <<IF_flag, gs_base, kernel_gs_base, per_cpu, rsp0, rcx, call, caller>>
  BY DEF timer_irq, gs_vars
<1>7. /\ me \in Tasks /\ c \in [Tasks -> Contexts] /\ mem \in [Stacks -> Seq(Frames)]
      /\ regs \in [Tasks -> Places]
  BY <1>0, <1>3 DEF Types
<1>8. f \in Frames /\ f = Frame(me, c[me]) /\ f.ctx = c[me]
  BY <1>3, <1>7 DEF Frame, Frames
<1>9. /\ m \in [Stacks -> Seq(Frames)]
      /\ n + 1 \in DOMAIN m[s] /\ m[s][n + 1] = f
      /\ \A i \in 1 .. n : i \in DOMAIN m[s] /\ m[s][i] = mem[s][i]
      /\ \A x \in Stacks : x # s => m[x] = mem[x]
  <2>1. mem \in [Stacks -> Seq(Frames)] /\ s \in Stacks /\ n \in Nat /\ n <= Len(mem[s])
    BY <1>2, <1>7
  <2>2. PICK place : place = Place(s, n)
    OBVIOUS
  <2>3. m = Pushed(place, f) /\ f \in Frames
    BY <1>3, <1>8, <2>2
  <2>4. m \in [Stacks -> Seq(Frames)]
    BY <2>1, <2>2, <2>3, PushFacts, SMTT(20)
  <2>5. n + 1 \in DOMAIN m[s] /\ m[s][n + 1] = f
    BY <2>1, <2>2, <2>3, PushFacts, SMTT(20)
  <2>6. \A i \in 1 .. n : i \in DOMAIN m[s] /\ m[s][i] = mem[s][i]
    BY <2>1, <2>2, <2>3, PushFacts, SMTT(20)
  <2>7. \A x \in Stacks : x # s => m[x] = mem[x]
    BY <2>1, <2>2, <2>3, PushFacts, SMTT(20)
  <2> QED
    BY <2>4, <2>5, <2>6, <2>7
\* The stacks of the waiting tasks are not touched.
<1>10. ASSUME NEW t \in KernelTasks, t # me PROVE m[t] = mem[t]
  BY <1>2, <1>3, <1>9, <1>10, Distinct
<1>11. me # SHELL => s \notin {SHELL, SECURE}
  BY <1>2, <1>3, <1>7, Distinct
<1>12. \A x \in Tasks : x # me =>
         /\ regs[x].depth \in DOMAIN m[regs[x].stack]
         /\ m[regs[x].stack][regs[x].depth] = Frame(x, c[x])
  <2> SUFFICES ASSUME NEW x \in Tasks, x # me
               PROVE  /\ regs[x].depth \in DOMAIN m[regs[x].stack]
                      /\ m[regs[x].stack][regs[x].depth] = Frame(x, c[x])
    OBVIOUS
  <2>1. CASE x = SHELL
    <3>1. /\ regs[x].stack \in {SHELL, SECURE}
          /\ regs[x].depth \in DOMAIN mem[regs[x].stack]
          /\ mem[regs[x].stack][regs[x].depth] = Frame(x, c[x])
      BY <1>0, <1>3, <2>1 DEF Waiting
    <3>2. m[regs[x].stack] = mem[regs[x].stack]
      BY <1>9, <1>11, <2>1, <3>1, Distinct
    <3> QED
      BY <3>1, <3>2
  <2>2. CASE x \in KernelTasks
    <3>1. /\ c[x] = KernelContext(x, "run") /\ regs[x] = Place(x, 1)
          /\ 1 \in DOMAIN mem[x] /\ mem[x][1] = Frame(x, KernelContext(x, "run"))
      BY <1>0, <1>3, <2>2 DEF Workers
    <3>2. regs[x].stack = x /\ regs[x].depth = 1
      BY <3>1, Distinct, PlaceType
    <3>3. m[x] = mem[x]
      BY <1>10, <2>2
    <3> QED
      BY <3>1, <3>2, <3>3
  <2> QED
    BY <2>1, <2>2, Distinct
<1>13. ctx' = c
  <2>1. CASE next = me
    BY <1>5, <2>1
  <2>2. CASE next # me
    <3>1. /\ regs[next].depth \in DOMAIN m[regs[next].stack]
          /\ m[regs[next].stack][regs[next].depth] = Frame(next, c[next])
      BY <1>12, <2>2
    <3>2. Returned(m, regs[next]) = Frame(next, c[next]).ctx
      BY <3>1 DEF Returned
    <3>3. Returned(m, regs[next]) = c[next]
      BY <3>2 DEF Frame
    <3> QED
      BY <1>5, <1>7, <2>2, <3>3
  <2> QED
    BY <2>1, <2>2
<1>14. here \in Places
  BY <1>2, <1>3, <1>4, PlaceType
<1>15. regs' \in [Tasks -> Places] /\ \A x \in Tasks : x # me => regs'[x] = regs[x]
  BY <1>5, <1>7, <1>14
<1>16. next # me => regs'[me] = here
  BY <1>5, <1>7
<1>17. Types'
  BY <1>0, <1>5, <1>6, <1>7, <1>9, <1>13, <1>15 DEF Types
<1>18. Workers'
  <2> SUFFICES ASSUME NEW t \in KernelTasks
               PROVE  /\ ctx'[t] = KernelContext(t, "run") /\ regs'[t] = Place(t, 1)
                      /\ 1 \in DOMAIN mem'[t] /\ mem'[t][1] = Frame(t, KernelContext(t, "run"))
    BY DEF Workers
  <2>1. /\ c[t] = KernelContext(t, "run") /\ regs[t] = Place(t, 1) /\ t \in Tasks /\ t # SHELL
        /\ 1 \in DOMAIN mem[t] /\ mem[t][1] = Frame(t, KernelContext(t, "run"))
    BY <1>0, <1>3, Distinct DEF Workers
  <2>2. CASE t # me
    <3>1. regs'[t] = regs[t] /\ m[t] = mem[t]
      BY <1>10, <1>15, <2>1, <2>2
    <3> QED
      BY <1>5, <1>13, <2>1, <3>1
  <2>3. CASE t = me
    <3>1. s = t /\ n = 0 /\ 0 + 1 = 1
      BY <1>2, <1>3, <2>1, <2>3
    <3>2. 1 \in DOMAIN m[t] /\ m[t][1] = Frame(t, c[t])
      BY <1>8, <1>9, <2>3, <3>1
    <3>3. here = Place(t, 1)
      BY <1>3, <3>1
    <3>4. regs'[t] = Place(t, 1)
      BY <1>5, <1>16, <2>1, <2>3, <3>3
    <3> QED
      BY <1>5, <1>13, <2>1, <3>2, <3>4
  <2> QED
    BY <2>2, <2>3
<1>19. Waiting'
  <2> SUFFICES ASSUME next # SHELL
               PROVE  /\ regs'[SHELL].stack \in {SHELL, SECURE}
                      /\ regs'[SHELL].depth \in DOMAIN mem'[regs'[SHELL].stack]
                      /\ mem'[regs'[SHELL].stack][regs'[SHELL].depth] = Frame(SHELL, ctx'[SHELL])
    BY <1>5 DEF Waiting
  <2>1. CASE me = SHELL
    <3>1. regs'[SHELL] = here /\ s \in {SHELL, SECURE}
      BY <1>2, <1>3, <1>16, <2>1
    <3>2. here.stack = s /\ here.depth = n + 1
      BY <1>2, <1>3, <1>4, PlaceType
    <3> QED
      BY <1>5, <1>8, <1>9, <1>13, <2>1, <3>1, <3>2
  <2>2. CASE me # SHELL
    <3>1. regs'[SHELL] = regs[SHELL]
      BY <1>15, <2>2, Distinct
    <3>2. regs[SHELL].stack \in {SHELL, SECURE}
      BY <1>0, <1>3, <2>2 DEF Waiting
    <3>3. /\ regs[SHELL].depth \in DOMAIN m[regs[SHELL].stack]
          /\ m[regs[SHELL].stack][regs[SHELL].depth] = Frame(SHELL, c[SHELL])
      BY <1>12, <2>2, Distinct
    <3> QED
      BY <1>5, <1>13, <3>1, <3>2, <3>3
  <2> QED
    BY <2>1, <2>2
<1>20. at(OnStack) => 1 \in DOMAIN mem'[SECURE] /\ mem'[SECURE][1] = mem[SECURE][1]
  <2> SUFFICES ASSUME at(OnStack)
               PROVE  1 \in DOMAIN m[SECURE] /\ m[SECURE][1] = mem[SECURE][1]
    BY <1>5
  <2>1. 1 \in DOMAIN mem[SECURE]
    BY <1>0 DEF Table, Kept
  <2>2. CASE me = SHELL
    BY <1>2, <1>3, <1>9, <2>2
  <2>3. CASE me # SHELL
    BY <1>9, <1>11, <2>1, <2>3, Distinct
  <2> QED
    BY <2>2, <2>3
<1>21. at(Masked) => FALSE
  BY <1>0, <1>1, Zenon DEF Table, Masking
<1>22. ctx' = ctx
  BY <1>3, <1>13
<1>23. Masking'
  <2>1. at(Pcs \ {"run"}) /\ ~ at(Masked)
    BY <1>0, <1>21 DEF Table, Masking
  <2>2. IF_flag'
    BY <1>1, <1>6
  <2> QED
    BY <1>22, <2>1, <2>2 DEF Masking, at
<1>24. GsRegisters' /\ ShellSegments' /\ KernelStacks' /\ StackPointer'
  BY <1>0, <1>6, <1>22 DEF Table, GsRegisters, ShellSegments, KernelStacks, StackPointer, at
<1>25. Kept'
  BY <1>0, <1>6, <1>20, <1>22 DEF Table, Kept, at
<1> QED
  BY <1>17, <1>18, <1>19, <1>23, <1>24, <1>25 DEF IInv, Table

-----------------------------------------------------------------------------
(* The theorems. *)

LEMMA InitIInv == Init => IInv
<1> SUFFICES ASSUME Init PROVE IInv
  OBVIOUS
<1>1. /\ cpu = SHELL /\ IF_flag /\ IF_flag \in BOOLEAN /\ gs_base = LOW
      /\ kernel_gs_base = CPU_DATA /\ rsp0 = Place(LOW, 0) /\ rcx = 0
      /\ caller = <<0, Place(USER, 0)>>
  BY DEF Init
<1>2. "run" \in Pcs /\ "shell" \in Pcs
  BY DEF Pcs, Setup
<1>3. \A x \in Stacks : Place(x, 0) \in Places /\ Place(x, 1) \in Places /\ Place(x, 0).stack = x
  BY PlaceType
<1>4. ctx \in [Tasks -> Contexts]
  <2>1. \A t \in Tasks : KernelContext(t, IF t = SHELL THEN "shell" ELSE "run") \in Contexts
    BY <1>2, WorkerContext
  <2> QED
    BY <2>1 DEF Init
<1>5. ctx[SHELL] = KernelContext(SHELL, "shell")
  BY Distinct DEF Init
<1>6. /\ ctx[SHELL].pc = "shell" /\ ctx[SHELL].rsp = Place(SHELL, 0)
      /\ ctx[SHELL].cs = "kernel code" /\ ctx[SHELL].ss = "kernel data"
  <2>1. SHELL \in Tasks
    BY Distinct
  <2> QED
    <3>1. PICK p : p = "shell"
      OBVIOUS
    <3>2. p \in Pcs /\ ctx[SHELL] = KernelContext(SHELL, p)
      BY <1>2, <1>5, <3>1
    <3>3. KernelContext(SHELL, p).pc = p /\ KernelContext(SHELL, p).rsp = Place(SHELL, 0)
      BY <2>1, <3>2, WorkerContext
    <3>4. /\ KernelContext(SHELL, p).cs = "kernel code"
          /\ KernelContext(SHELL, p).ss = "kernel data"
      BY <2>1, <3>2, WorkerContext
    <3> QED
      BY <3>1, <3>2, <3>3, <3>4
<1>7. ASSUME NEW t \in KernelTasks
      PROVE  /\ ctx[t] = KernelContext(t, "run") /\ regs[t] = Place(t, 1)
             /\ mem[t] = <<Frame(t, KernelContext(t, "run"))>>
  <2>1. t \in Tasks /\ t # SHELL /\ t \in Stacks
    BY Distinct
  <2> QED
    BY <2>1 DEF Init
<1>8. mem \in [Stacks -> Seq(Frames)]
  <2>1. ASSUME NEW t \in KernelTasks PROVE Frame(t, KernelContext(t, "run")) \in Frames
    <3>1. KernelContext(t, "run") \in Contexts /\ t \in Tasks
      BY <1>2, Distinct, WorkerContext
    <3> QED
      BY <3>1 DEF Frame, Frames
  <2>2. ASSUME NEW t \in KernelTasks PROVE <<Frame(t, KernelContext(t, "run"))>> \in Seq(Frames)
    BY <2>1
  <2>3. << >> \in Seq(Frames)
    OBVIOUS
  <2> QED
    BY <2>2, <2>3 DEF Init
<1>9. regs \in [Tasks -> Places]
  <2>1. \A t \in Tasks : Place(t, 1) \in Places
    BY <1>3, Distinct
  <2> QED
    BY <2>1 DEF Init
<1>10. per_cpu \in [Bases -> [kernel_stack : Places, user_stack : Places]]
  <2>1. Place(LOW, 0) \in Places
    BY <1>3, Distinct
  <2> QED
    BY <2>1 DEF Init
<1>11. caller \in Int \X Places /\ caller[2].stack = USER
  <2>1. Place(USER, 0) \in Places /\ Place(USER, 0).stack = USER
    BY <1>3, Distinct
  <2> QED
    BY <1>1, <2>1
<1>12. Types
  BY <1>1, <1>3, <1>4, <1>8, <1>9, <1>10, <1>11, Distinct DEF Types
<1>13. Workers
  BY <1>7 DEF Workers
<1>14. Table
  BY <1>1, <1>6, <1>11 DEF Table, Masking, GsRegisters, ShellSegments,
     KernelStacks, StackPointer, Kept, at, Setup, Handler, Entry, Exit, Masked, Pcs, Swapped,
     OnStack, InRcx, Saved
<1>15. Waiting
  BY <1>1 DEF Waiting
<1> QED
  BY <1>12, <1>13, <1>14, <1>15 DEF IInv

LEMMA StutterStep == IInv /\ UNCHANGED vars => IInv'
<1> SUFFICES ASSUME IInv, UNCHANGED vars PROVE IInv'
  OBVIOUS
<1>1. UNCHANGED <<cpu, ctx, mem, regs, gs_base, kernel_gs_base, per_cpu, rsp0, rcx, call, caller>>
  BY DEF vars, gs_vars
<1>2. UNCHANGED IF_flag
  BY DEF vars
<1>3. Types' /\ Workers' /\ Waiting'
  BY <1>1, <1>2 DEF IInv, Types, Workers, Waiting
<1>4. Masking'
  BY <1>1, <1>2, Zenon DEF IInv, Table, Masking, at
<1>5. GsRegisters' /\ ShellSegments' /\ KernelStacks' /\ StackPointer'
  BY <1>1 DEF IInv, Table, GsRegisters, ShellSegments, KernelStacks, StackPointer, at
<1>6. Kept'
  BY <1>1 DEF IInv, Table, Kept, at
<1> QED
  BY <1>3, <1>4, <1>5, <1>6 DEF IInv, Table

LEMMA NextIInv == IInv /\ [Next]_vars => IInv'
<1> SUFFICES ASSUME IInv, [Next]_vars PROVE IInv'
  OBVIOUS
<1>1. ASSUME NEW k \in Calls, syscall(k) PROVE IInv'
  BY <1>1, SyscallStep
<1>2. ASSUME NEW t \in Tasks, timer_irq(t) PROVE IInv'
  BY <1>2, TimerStep
<1>3. CASE entry_and_exit
  BY <1>3, SwapInStep, SaveRspStep, LoadRspStep, PushStep, StiStep, HandlerStep, WriteCharStep, WriteDoneStep,
     CliStep, PopStep, RestoreStep, SwapOutStep, SysretStep DEF entry_and_exit
<1> QED
  BY <1>1, <1>2, <1>3, UsertestStep, TssStep, SetStackStep, JumpStep, UserCodeStep,
     ExceptionStep, StutterStep DEF Next, halted

\* For any number of tasks, the table of what is in the registers, in cpu_data and on
\* the secure stack holds at every instruction, across every interrupt and switch.
THEOREM Invariant == Spec => []IInv
BY InitIInv, NextIInv, PTL DEF Spec

\* Whenever user code runs, it runs with the user's segments, on the user's stack,
\* with interrupts enabled and with the GS registers syscall_entry expects, for any
\* number of other tasks and wherever the timer has switched to them.
THEOREM UserModeSound == Spec => []UserEnvironment
<1>1. IInv => UserEnvironment
  <2> SUFFICES ASSUME IInv, ctx[cpu].pc = "user"
               PROVE  /\ ctx[cpu].cs = "user code" /\ ctx[cpu].ss = "user data"
                      /\ ctx[cpu].rsp.stack = USER
                      /\ IF_flag
                      /\ gs_base = LOW /\ kernel_gs_base = CPU_DATA
    BY DEF UserEnvironment
  <2>0. Types /\ Workers /\ Table
    BY DEF IInv
  <2>1. cpu = SHELL
    <3>1. ASSUME cpu \in KernelTasks PROVE FALSE
      <4>1. ctx[cpu] = KernelContext(cpu, "run") /\ "run" \in Pcs /\ cpu \in Tasks
        BY <2>0, <3>1, Distinct DEF Workers, Pcs
      <4>2. ctx[cpu].pc = "run"
        BY <4>1, WorkerContext
      <4> QED
        BY <4>2
    <3>2. cpu \in Tasks
      BY <2>0 DEF Types
    <3> QED
      BY <3>1, <3>2, Distinct
  <2>2. ctx[SHELL].pc = "user"
    BY <2>1
  <2>3. IF_flag
    BY <2>0, <2>2 DEF Table, Masking, at, Masked, Entry, Exit
  <2>4. gs_base = LOW /\ kernel_gs_base = CPU_DATA
    BY <2>0, <2>2 DEF Table, GsRegisters, at, Swapped, Entry, Handler, Exit
  <2>5. /\ ctx[SHELL].cs = "user code" /\ ctx[SHELL].ss = "user data"
        /\ ctx[SHELL].rsp.stack = USER
    BY <2>0, <2>2 DEF Table, ShellSegments, StackPointer, at
  <2> QED
    BY <2>1, <2>3, <2>4, <2>5
<1> QED
  BY <1>1, Invariant, PTL

\* The frame a waiting task will be resumed from is on a kernel stack and intact:
\* no system call or interrupt of the user's task, which always starts from the top
\* of secure_kernel_stack, and no other task has written over it.
THEOREM SavedFramesIntact == Spec => []FramesIntact
<1>1. IInv => FramesIntact
  <2> SUFFICES ASSUME IInv, NEW t \in Tasks \ {cpu}
               PROVE  /\ regs[t].stack \in Tasks \cup {SECURE}
                      /\ regs[t].depth \in DOMAIN mem[regs[t].stack]
                      /\ mem[regs[t].stack][regs[t].depth] = Frame(t, ctx[t])
    BY DEF FramesIntact
  <2>1. CASE t = SHELL
    BY <2>1, Distinct DEF IInv, Waiting
  <2>2. CASE t \in KernelTasks
    <3>1. /\ ctx[t] = KernelContext(t, "run") /\ regs[t] = Place(t, 1)
          /\ 1 \in DOMAIN mem[t] /\ mem[t][1] = Frame(t, KernelContext(t, "run"))
      BY <2>2 DEF IInv, Workers
    <3>2. regs[t].stack = t /\ regs[t].depth = 1
      BY <3>1, Distinct, PlaceType
    <3> QED
      BY <3>1, <3>2
  <2> QED
    BY <2>1, <2>2, Distinct
<1> QED
  BY <1>1, Invariant, PTL

\* sysret goes back to the instruction after the syscall, with the stack pointer of
\* the caller, although rcx was kept on a stack that interrupts write to and rsp in
\* cpu_data, which all tasks share.
THEOREM CallsReturnRight == Spec => ReturnsToCaller
<1> DEFINE Right == ctx[SHELL].pc = "sysret" /\ ctx'[SHELL].pc = "user" =>
                      caller = <<ctx'[SHELL].ip, ctx'[SHELL].rsp>>
<1>1. IInv /\ [Next]_vars => [Right]_vars
  <2> SUFFICES ASSUME IInv, Next, ctx[SHELL].pc = "sysret"
               PROVE  caller = <<ctx'[SHELL].ip, ctx'[SHELL].rsp>>
    OBVIOUS
  <2>0. Types /\ Table
    BY DEF IInv
  <2>1. sysret
    <3>1. ~ IF_flag
      BY <2>0 DEF Table, Masking, at, Masked, Exit
    <3>2. ASSUME NEW t \in Tasks, timer_irq(t) PROVE FALSE
      BY <3>1, <3>2 DEF timer_irq
    <3>3. ASSUME NEW k \in Calls, syscall(k) PROVE FALSE
      BY <3>3 DEF syscall
    <3>4. ~ usertest /\ ~ tss_set_kernel_stack /\ ~ syscall_set_kernel_stack /\ ~ jump_to_usermode
      BY DEF usertest, tss_set_kernel_stack, syscall_set_kernel_stack, jump_to_usermode, step
    <3>5. ~ user_code /\ ~ exception /\ ~ halted
      BY DEF user_code, exception, halted
    <3>6. /\ ~ swapgs_in /\ ~ save_rsp /\ ~ load_rsp /\ ~ push_registers /\ ~ sti
          /\ ~ syscall_handler /\ ~ write_char /\ ~ write_done /\ ~ cli /\ ~ pop_registers /\ ~ restore_rsp /\ ~ swapgs_out
      BY DEF swapgs_in, save_rsp, load_rsp, push_registers, sti, syscall_handler, write_char,
         write_done, cli, pop_registers, restore_rsp, swapgs_out, step, load
    <3> QED
      BY <3>2, <3>3, <3>4, <3>5, <3>6 DEF Next, entry_and_exit
  <2>2. rcx = caller[1] /\ ctx[SHELL].rsp = caller[2]
    BY <2>0 DEF Table, Kept, at, InRcx, OnStack, Handler, Entry, Exit
  <2>3. PICK c : c = Context("user", rcx, ctx[SHELL].rsp, Descriptor(KernelData + 16),
                             Descriptor(KernelData + 8))
    OBVIOUS
  <2>4. ctx' = [ctx EXCEPT ![SHELL] = c] /\ ctx \in [Tasks -> Contexts]
    BY <2>0, <2>1, <2>3 DEF sysret, Types
  <2>5. ctx'[SHELL] = c
    BY <2>4, Distinct
  <2>6. c.ip = rcx /\ c.rsp = ctx[SHELL].rsp
    BY <2>3 DEF Context
  <2>7. caller = <<caller[1], caller[2]>>
    BY <2>0 DEF Types
  <2> QED
    BY <2>2, <2>5, <2>6, <2>7
<1> QED
  BY <1>1, Invariant, PTL DEF Spec, ReturnsToCaller

=============================================================================
