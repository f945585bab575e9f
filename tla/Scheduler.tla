------------------------------ MODULE Scheduler ------------------------------
(***************************************************************************)
(* The preemptive round-robin scheduler of KiOS: the task list of task.c,  *)
(* the timer interrupt of pit.c that drives it, and the part of the        *)
(* interrupt path (isr.c, idt_asm.asm) that swaps the stack pointer.       *)
(*                                                                         *)
(* A task is named by its index in task_list, which never changes: the     *)
(* list is only ever appended to.  An execution context is named by the    *)
(* task it was created for; MAIN is the context of kernel_main, for which  *)
(* task_init allocates the TCB with PID 0 afterwards.                      *)
(*                                                                         *)
(* The interrupt gates clear IF and there is one CPU, so a timer interrupt *)
(* is a single step from the push of the frame to the iretq.  A task runs  *)
(* with IF set and can be interrupted between any two stores.              *)
(*                                                                         *)
(* Two unbounded quantities are kept relative to the current tick, which   *)
(* is all the code ever asks of them: pit_ticks as pit_ticks % SLICE, and  *)
(* sleep_until as the number of ticks still to go, 0 once it has passed.   *)
(***************************************************************************)
EXTENDS Integers, FiniteSets

CONSTANTS
  MAX_TASKS,   \* capacity of task_list (64 in task.h)
  SLICE,       \* timer ticks per scheduler call (10 in pit.c)
  MaxSleep,    \* largest argument of task_sleep
  Calls        \* which of task_sleep ("sleep") and task_exit ("exit") tasks call

ASSUME MaxTasksAssumption == MAX_TASKS \in Nat \ {0}
ASSUME SliceAssumption    == SLICE \in Nat \ {0}
ASSUME MaxSleepAssumption == MaxSleep \in Nat
ASSUME CallsAssumption    == Calls \subseteq {"sleep", "exit"}

NULL == -1     \* the null task_t pointer
MAIN == -1     \* the context of kernel_main

Idx     == 0 .. MAX_TASKS - 1
Context == {MAIN} \cup Idx
States  == {"READY", "RUNNING", "BLOCKED", "SLEEPING", "ZOMBIE"}

(***************************************************************************)
(* task->regs: "null", "entry" (the frame task_create builds at the top of *)
(* the stack) or "stack" (a frame an interrupt pushed).  ctx is the stack  *)
(* it lies on; live says that it still holds the point where that context  *)
(* stopped, which ends when the context is resumed from it.                *)
(***************************************************************************)
Frames  == [at : {"null", "entry", "stack"}, ctx : Context, live : BOOLEAN]
NoFrame == [at |-> "null", ctx |-> MAIN, live |-> FALSE]

VARIABLES
  boot,            \* how far kernel_main is: "task_init", "task_create", "hlt"
  oom,             \* kmalloc found no page for the first TCB
  task_count_val,
  current_task,
  next_pid,
  pid, state, regs, sleep_left,   \* the TCBs, by index in task_list
  scheduler_enabled,
  slice,           \* pit_ticks % SLICE
  cpu,             \* the context the CPU is executing
  pc,              \* where each context is: "run", inside task_sleep, done, or
                   \* stopped for good by a "fault"
  slept,           \* contexts that have called task_sleep (history)
  lost,            \* contexts resumed anywhere but where they stopped (history)
  waited           \* scheduler calls a runnable task was passed over (history)

boot_vars == <<boot, oom, next_pid, scheduler_enabled>>
tcb_vars  == <<task_count_val, pid, state, regs, sleep_left>>
vars == <<boot_vars, tcb_vars, current_task, slice, cpu, pc, slept, lost,
          waited>>

Tasks == 0 .. task_count_val - 1

Owner(i) == IF pid[i] = 0 THEN MAIN ELSE i

-----------------------------------------------------------------------------
(***************************************************************************)
(* Start-up.  kernel_main runs with interrupts disabled until it has       *)
(* created its tasks, and then waits in a hlt loop for ever.               *)
(***************************************************************************)
Init ==
  /\ boot = "task_init"
  /\ oom = FALSE
  /\ task_count_val = 0
  /\ current_task = NULL
  /\ next_pid = 1
  /\ pid = [i \in Idx |-> 0]
  /\ state = [i \in Idx |-> "READY"]
  /\ regs = [i \in Idx |-> NoFrame]
  /\ sleep_left = [i \in Idx |-> 0]
  /\ scheduler_enabled = FALSE
  /\ slice = 0
  /\ cpu = MAIN
  /\ pc = [c \in Context |-> "run"]
  /\ slept = {}
  /\ lost = {}
  /\ waited = [i \in Idx |-> 0]

\* The TCB of kernel_main itself.  It stays without a frame until the first
\* switch saves one.
task_init ==
  /\ boot = "task_init"
  /\ boot' = "task_create"
  /\ \/ /\ oom' = FALSE
        /\ task_count_val' = 1
        /\ current_task' = 0
        /\ state' = [state EXCEPT ![0] = "RUNNING"]
     \/ /\ oom' = TRUE
        /\ UNCHANGED <<task_count_val, current_task, state>>
  /\ UNCHANGED <<next_pid, pid, regs, sleep_left, scheduler_enabled, slice,
                 cpu, pc, slept, lost, waited>>

(***************************************************************************)
(* A task_create of kernel_main that succeeds; one that fails leaves the   *)
(* scheduler's state alone.  Nothing is freed during start-up, so a        *)
(* kmalloc that could not map a page for the first TCB cannot map one for  *)
(* a later TCB either: success needs ~oom.                                 *)
(***************************************************************************)
\* A bug: the test lets one task too many in.
list_has_room_exact == task_count_val <= MAX_TASKS

list_has_room == task_count_val < MAX_TASKS

task_create ==
  LET i == task_count_val IN
  /\ boot = "task_create"
  /\ ~oom
  /\ list_has_room
  /\ pid' = [pid EXCEPT ![i] = next_pid]
  /\ next_pid' = next_pid + 1
  /\ regs' = [regs EXCEPT ![i] = [at |-> "entry", ctx |-> i, live |-> TRUE]]
  /\ sleep_left' = [sleep_left EXCEPT ![i] = 0]
  /\ task_count_val' = task_count_val + 1
  /\ IF current_task = NULL
       THEN /\ current_task' = i
            /\ state' = [state EXCEPT ![i] = "RUNNING"]
       ELSE /\ state' = [state EXCEPT ![i] = "READY"]
            /\ UNCHANGED current_task
  /\ UNCHANGED <<boot, oom, scheduler_enabled, slice, cpu, pc, slept, lost,
                 waited>>

\* pit_init, pit_enable_scheduler, sti and pic_clear_mask(0), in this order:
\* no timer interrupt can arrive before the last of them.
start ==
  /\ boot = "task_create"
  /\ boot' = "hlt"
  /\ scheduler_enabled' = TRUE
  /\ UNCHANGED <<oom, next_pid, tcb_vars, current_task, slice, cpu, pc, slept,
                 lost, waited>>

-----------------------------------------------------------------------------
(***************************************************************************)
(* task_switch                                                             *)
(***************************************************************************)
\* The frame irq_common_stub has pushed on the interrupted stack.
pushed == [at |-> "stack", ctx |-> cpu, live |-> TRUE]

\* Only a RUNNING task is saved and put back among the READY ones.
saves == current_task # NULL /\ state[current_task] = "RUNNING"

\* A save that forgets the frame.
saved_regs_kept == regs

saved_state == IF saves THEN [state EXCEPT ![current_task] = "READY"] ELSE state
saved_regs  == IF saves THEN [regs EXCEPT ![current_task] = pushed] ELSE regs

\* A search that starts at the head of the list every time.
Turn_from_head(c, i) == i + 1

\* When the cyclic search, which starts behind the current task and ends with
\* it, comes to task i: 1 for the first one it looks at.
Turn(c, i) == IF i > c THEN i - c ELSE i - c + task_count_val

\* Variants that skip one PID too many, that forget the sleepers, and that
\* forget to ask for the time.
Runnable_from_pid_two(i, left) ==
  /\ pid[i] > 1
  /\ saved_state[i] = "READY" \/ (saved_state[i] = "SLEEPING" /\ left[i] = 0)
Runnable_ready_only(i, left) == pid[i] # 0 /\ saved_state[i] = "READY"
Runnable_any_sleeper(i, left) ==
  pid[i] # 0 /\ saved_state[i] \in {"READY", "SLEEPING"}

\* The search takes READY tasks and sleepers whose time has come, and skips
\* PID 0.  left is sleep_left after this tick.
Runnable(i, left) ==
  /\ pid[i] # 0
  /\ \/ saved_state[i] = "READY"
     \/ saved_state[i] = "SLEEPING" /\ left[i] = 0

Candidates(left) == {i \in Tasks : Runnable(i, left)}

\* The first candidate the search comes to.
IsNext(i, left) ==
  /\ i \in Candidates(left)
  /\ \A j \in Candidates(left) : Turn(current_task, i) <= Turn(current_task, j)

\* A return that drops the new stack pointer.
Resume_old_stack(f) == UNCHANGED <<cpu, pc, lost>>

(***************************************************************************)
(* The iretq from frame f.  A live frame continues its context where it    *)
(* stopped.  A consumed "entry" frame lies above the stack the task uses   *)
(* and starts the task over.  A consumed "stack" frame may by chance lie   *)
(* where the latest interrupt pushed its own, and then be intact, or have  *)
(* been overwritten by anything the task has done since: the task goes on  *)
(* somewhere, or the iretq faults and isr_handler halts the machine.       *)
(***************************************************************************)
Resume(f) ==
  /\ cpu' = f.ctx
  /\ \/ /\ f.live \/ f.at = "stack"
        /\ UNCHANGED <<pc, lost>>
     \/ /\ ~f.live
        /\ \E p \in IF f.at = "entry" THEN {"run"} ELSE {"run", "sleep", "done", "fault"} :
             pc' = [pc EXCEPT ![f.ctx] = p]
        /\ lost' = lost \cup {f.ctx}

\* No frame of the resumed context is live any more.
Consumed(rs, c) ==
  [i \in Idx |-> [rs[i] EXCEPT !.live = rs[i].live /\ rs[i].ctx # c]]

\* A runnable task is passed over when the search ends before it.
PassedOver(next, left) ==
  [i \in Idx |-> IF i \in Candidates(left) \ {next} THEN waited[i] + 1 ELSE 0]

\* irq_handler falls back to the interrupted frame when task->regs is NULL.
switch_to(i, left) ==
  LET f == IF saved_regs[i].at = "null" THEN pushed ELSE saved_regs[i] IN
  /\ IsNext(i, left)
  /\ current_task' = i
  /\ state' = [saved_state EXCEPT ![i] = "RUNNING"]
  /\ Resume(f)
  /\ regs' = Consumed(saved_regs, f.ctx)
  /\ waited' = PassedOver(i, left)

\* Nothing to switch to: the current task goes on, whatever state it is in.
keep_current(left) ==
  /\ Candidates(left) = {}
  /\ state' = IF current_task = NULL THEN saved_state
              ELSE [saved_state EXCEPT ![current_task] = "RUNNING"]
  /\ regs' = Consumed(saved_regs, cpu)
  /\ waited' = [i \in Idx |-> 0]
  /\ UNCHANGED <<current_task, cpu, pc, lost>>

task_switch(left) ==
  \/ /\ task_count_val = 0
     /\ UNCHANGED <<current_task, state, regs, cpu, pc, lost, waited>>
  \/ /\ task_count_val # 0
     /\ \/ \E i \in Tasks : switch_to(i, left)
        \/ keep_current(left)

-----------------------------------------------------------------------------
(***************************************************************************)
(* IRQ 0: irq_common_stub, irq_handler and pit_irq_handler.                *)
(***************************************************************************)
ticked(left) == [i \in Idx |-> IF left[i] = 0 THEN 0 ELSE left[i] - 1]

\* isr_handler's cli and hlt: no interrupt is taken any more.
Halted == pc[cpu] = "fault"

halted == Halted /\ UNCHANGED vars

pit_irq_handler ==
  /\ boot = "hlt"
  /\ ~ Halted
  /\ slice' = IF slice + 1 = SLICE THEN 0 ELSE slice + 1
  /\ sleep_left' = ticked(sleep_left)
  /\ IF scheduler_enabled /\ slice' = 0
       THEN task_switch(sleep_left')
       ELSE UNCHANGED <<current_task, state, regs, cpu, pc, lost, waited>>
  /\ UNCHANGED <<boot_vars, task_count_val, pid, slept>>

-----------------------------------------------------------------------------
(***************************************************************************)
(* What a task does.  kernel_main's own context only executes hlt, and a   *)
(* task makes no call after task_exit.                                     *)
(***************************************************************************)
calls(c) ==
  /\ boot = "hlt"
  /\ cpu # MAIN
  /\ c \in Calls
  /\ pc[cpu] = "run"
  /\ current_task # NULL

\* task_sleep stores the state first ...
task_sleep ==
  /\ calls("sleep")
  /\ state' = [state EXCEPT ![current_task] = "SLEEPING"]
  /\ pc' = [pc EXCEPT ![cpu] = "sleep"]
  /\ slept' = slept \cup {cpu}
  /\ UNCHANGED <<boot_vars, task_count_val, pid, regs, sleep_left, current_task,
                 slice, cpu, lost, waited>>

\* ... and then, after a call that a timer interrupt can precede, the time.
\* The task keeps running until the scheduler takes the CPU away.
task_sleep_until ==
  /\ boot = "hlt"
  /\ cpu # MAIN
  /\ pc[cpu] = "sleep"
  /\ current_task # NULL
  /\ \E n \in 0 .. MaxSleep :
       sleep_left' = [sleep_left EXCEPT ![current_task] = n]
  /\ pc' = [pc EXCEPT ![cpu] = "run"]
  /\ UNCHANGED <<boot_vars, task_count_val, pid, state, regs, current_task,
                 slice, cpu, slept, lost, waited>>

task_exit ==
  /\ calls("exit")
  /\ state' = [state EXCEPT ![current_task] = "ZOMBIE"]
  /\ pc' = [pc EXCEPT ![cpu] = "done"]
  /\ UNCHANGED <<boot_vars, task_count_val, pid, regs, sleep_left, current_task,
                 slice, cpu, slept, lost, waited>>

-----------------------------------------------------------------------------
Next ==
  \/ task_init
  \/ task_create
  \/ start
  \/ pit_irq_handler
  \/ task_sleep
  \/ task_sleep_until
  \/ task_exit
  \/ halted

\* The PIT is periodic and every context runs with IF set (rflags 0x202 in a
\* new frame, and an interrupt can only have saved a set IF), so timer
\* interrupts keep coming until a fault halts the machine.  kernel_main's start-up
\* code runs to its end.
Fairness ==
  /\ WF_vars(task_init)
  /\ WF_vars(start)
  /\ WF_vars(pit_irq_handler)

Spec == Init /\ [][Next]_vars /\ Fairness

-----------------------------------------------------------------------------
(***************************************************************************)
(* Properties                                                              *)
(***************************************************************************)
BootType ==
  /\ boot \in {"task_init", "task_create", "hlt"}
  /\ oom \in BOOLEAN
  /\ scheduler_enabled \in BOOLEAN

ListType ==
  /\ task_count_val \in 0 .. MAX_TASKS
  /\ current_task \in {NULL} \cup Tasks
  /\ next_pid \in 1 .. MAX_TASKS
  /\ slice \in 0 .. SLICE - 1
  /\ cpu \in Context

CounterType ==
  /\ pid \in [Idx -> 0 .. MAX_TASKS - 1]
  /\ sleep_left \in [Idx -> 0 .. MaxSleep]
  /\ waited \in [Idx -> Nat]

TaskType ==
  /\ state \in [Idx -> States]
  /\ regs \in [Idx -> Frames]

ContextType ==
  /\ pc \in [Context -> {"run", "sleep", "done", "fault"}]
  /\ slept \subseteq Context
  /\ lost \subseteq Context

\* Every variable has its type.  In particular task_count_val stays within the
\* array, current_task is a task of the list, and a PID never exceeds the ones
\* given out.
TypeOK == BootType /\ ListType /\ CounterType /\ TaskType /\ ContextType

\* task_switch hands the CPU over without ever leaving two tasks RUNNING: the
\* only task that can be in that state is current_task, and the CPU is
\* executing on the stack that belongs to current_task.
CurrentOwnsCpu ==
  /\ \A i \in Tasks : state[i] = "RUNNING" => i = current_task
  /\ current_task # NULL => cpu = Owner(current_task)

\* Whatever the tasks call and whenever the timer interrupts them, a READY task
\* can be resumed: its regs point to a frame on its own stack that still holds
\* the place where it was stopped, and not to one that was already returned
\* from.
ReadyIsResumable ==
  \A i \in Tasks :
    state[i] = "READY" => regs[i].live /\ regs[i].ctx = Owner(i)

\* A task that has never called task_sleep is never continued anywhere but where
\* it was interrupted: the switch in the middle of irq_common_stub is invisible
\* to it, however often the others sleep and exit.
OnlySleepersLost == lost \subseteq slept

\* The same of every task, the ones that sleep included (ROADMAP.md: "Tasks can
\* sleep with `task_sleep()` for X ticks").
ContextKept == lost = {}

\* Round-robin is fair: a task that could run is passed over by fewer
\* scheduler calls than there are tasks in the list.
BoundedWait ==
  \A i \in Tasks : pid[i] # 0 => waited[i] < task_count_val

\* A task that does not have the CPU only changes state by being scheduled, and
\* never before its sleep is over or after it has exited.
OffCpuUndisturbed ==
  [][\A i \in Tasks :
       i # current_task /\ state'[i] # state[i] =>
         /\ i = current_task'
         /\ \/ state[i] = "READY"
            \/ state[i] = "SLEEPING" /\ sleep_left'[i] = 0]_vars

\* Every READY task gets the CPU eventually, kernel_idle apart, unless the machine
\* halts, which takes a sleeper (see OnlySleepersLost).
ReadyRuns ==
  \A i \in Idx :
    (i \in Tasks /\ pid[i] # 0 /\ state[i] = "READY") ~> (state[i] = "RUNNING" \/ Halted)

\* A task that goes to sleep runs again, unless it exits before it loses the
\* CPU, or the machine halts: the interrupt between the two stores of task_sleep
\* cannot strand it.
SleeperWakes ==
  \A i \in Idx :
    state[i] = "SLEEPING" ~> (state[i] \in {"RUNNING", "ZOMBIE"} \/ Halted)

=============================================================================
