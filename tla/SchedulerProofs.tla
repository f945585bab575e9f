--------------------------- MODULE SchedulerProofs ---------------------------
(***************************************************************************)
(* Proofs about the scheduler, for every number of tasks, slice length,    *)
(* sleeping time and choice of calls.                                      *)
(*                                                                         *)
(* The invariants of Scheduler are inductive only together with what the   *)
(* start-up code establishes (Started) and with the shape of task->regs    *)
(* (OwnFrames); BoundedWait needs the stronger TurnBound, which trades the *)
(* slices a task has waited for against its distance in the list.          *)
(***************************************************************************)
EXTENDS Scheduler, TLAPS

\* What start-up guarantees: a list is never empty with a current task nor the
\* other way round, and PIDs follow the positions in the list.
Started ==
  /\ current_task = NULL <=> task_count_val = 0
  /\ boot = "task_init" => task_count_val = 0 /\ next_pid = 1 /\ pid[0] = 0
  /\ boot = "task_create" /\ ~oom => task_count_val = next_pid
  /\ boot # "hlt" => cpu = MAIN /\ (\A i \in Idx : waited[i] = 0)

\* PID 0 is only ever the head of the list.
OneIdle == \A i \in Tasks : i # 0 => pid[i] # 0

\* A task's regs always point into its own stack, live or not.
OwnFrames ==
  \A i \in Tasks : pid[i] # 0 => regs[i].at # "null" /\ regs[i].ctx = i

\* A task that has been passed over is that much closer to its turn.
TurnBound ==
  \A i \in Tasks :
    pid[i] # 0 => waited[i] + Turn(current_task, i) <= task_count_val

IInv ==
  /\ TypeOK
  /\ Started
  /\ OneIdle
  /\ OwnFrames
  /\ CurrentOwnsCpu
  /\ ReadyIsResumable
  /\ TurnBound

\* The assumptions on the constants, for the steps that need them.
USE MaxTasksAssumption, SliceAssumption, MaxSleepAssumption

-----------------------------------------------------------------------------
(* The initial state. *)

LEMMA InitIInv == Init => IInv
<1> SUFFICES ASSUME Init PROVE IInv
  OBVIOUS
<1> USE DEF Init, Tasks, NULL, MAIN, Idx, Context
<1>0. BootType
  BY DEF BootType
<1>1. ListType
  BY DEF ListType
<1>2. CounterType /\ ContextType
  BY DEF CounterType, ContextType
<1>3. TaskType
  BY DEF TaskType, States, Frames, NoFrame
<1>4. Started
  BY DEF Started
<1>5. OneIdle /\ OwnFrames /\ CurrentOwnsCpu /\ ReadyIsResumable /\ TurnBound
  BY DEF OneIdle, OwnFrames, CurrentOwnsCpu, ReadyIsResumable, TurnBound
<1> QED
  BY <1>0, <1>1, <1>2, <1>3, <1>4, <1>5 DEF IInv, TypeOK

-----------------------------------------------------------------------------
(* Start-up. *)

LEMMA InitStep == IInv /\ task_init => IInv'
<1> SUFFICES ASSUME IInv, task_init PROVE IInv'
  OBVIOUS
<1>0. /\ BootType /\ ListType /\ CounterType /\ TaskType /\ ContextType
      /\ task_count_val = 0 /\ next_pid = 1 /\ pid[0] = 0 /\ cpu = MAIN
      /\ current_task = NULL
      /\ \A i \in Idx : waited[i] = 0
  BY DEF IInv, TypeOK, Started, task_init
<1> USE DEF task_init, NULL, MAIN, Idx, Tasks
<1>1. BootType'
  BY <1>0 DEF BootType
<1>9. ListType'
  BY <1>0 DEF ListType, Context
<1>2. CounterType' /\ ContextType'
  BY <1>0 DEF CounterType, ContextType, Context
<1>3. TaskType'
  BY <1>0 DEF TaskType, States
<1>4. Started'
  BY <1>0 DEF Started
<1>5. OneIdle' /\ OwnFrames'
  BY <1>0 DEF OneIdle, OwnFrames
<1>6. CurrentOwnsCpu'
  BY <1>0 DEF CurrentOwnsCpu, Owner
<1>7. ReadyIsResumable'
  BY <1>0 DEF ReadyIsResumable, TaskType
<1>8. TurnBound'
  BY <1>0 DEF TurnBound
<1> QED
  BY <1>1, <1>2, <1>3, <1>4, <1>5, <1>6, <1>7, <1>8, <1>9 DEF IInv, TypeOK

LEMMA CreateStep == IInv /\ task_create => IInv'
<1> SUFFICES ASSUME IInv, task_create PROVE IInv'
  OBVIOUS
<1>0. /\ BootType /\ ListType /\ CounterType /\ TaskType /\ ContextType
      /\ OneIdle /\ OwnFrames /\ CurrentOwnsCpu /\ ReadyIsResumable
  BY DEF IInv, TypeOK
<1>1. /\ boot = "task_create" /\ ~oom
      /\ task_count_val = next_pid
      /\ task_count_val > 0
      /\ task_count_val \in Idx
      /\ current_task # NULL
      /\ current_task \in Tasks
      /\ cpu = MAIN
      /\ \A i \in Idx : waited[i] = 0
  BY <1>0 DEF IInv, Started, ListType, task_create, list_has_room, Idx, NULL
<1> DEFINE i == task_count_val
<1>2. /\ pid' = [pid EXCEPT ![i] = next_pid]
      /\ next_pid' = next_pid + 1
      /\ regs' = [regs EXCEPT ![i] = [at |-> "entry", ctx |-> i, live |-> TRUE]]
      /\ sleep_left' = [sleep_left EXCEPT ![i] = 0]
      /\ task_count_val' = task_count_val + 1
      /\ state' = [state EXCEPT ![i] = "READY"]
      /\ UNCHANGED <<current_task, boot, oom, scheduler_enabled, slice, cpu, pc,
                     slept, lost, waited>>
  BY <1>1 DEF task_create
<1> USE DEF Idx, NULL, MAIN, Tasks
<1>3. BootType'
  BY <1>0, <1>2 DEF BootType
<1>4. ListType'
  BY <1>0, <1>1, <1>2 DEF ListType, Context
<1>5. CounterType'
  <2>1. next_pid \in 0 .. MAX_TASKS - 1
    BY <1>0, <1>1 DEF ListType
  <2>2. pid' \in [Idx -> 0 .. MAX_TASKS - 1]
    BY <1>0, <1>1, <1>2, <2>1 DEF CounterType
  <2>3. sleep_left' \in [Idx -> 0 .. MaxSleep]
    <3>1. sleep_left \in [Idx -> 0 .. MaxSleep]
      BY <1>0 DEF CounterType
    <3>2. 0 \in 0 .. MaxSleep
      OBVIOUS
    <3> QED
      BY <1>2, <3>1, <3>2
  <2>4. waited' \in [Idx -> Nat]
    BY <1>0, <1>2 DEF CounterType
  <2> QED
    BY <2>2, <2>3, <2>4 DEF CounterType
<1>6. TaskType'
  BY <1>0, <1>1, <1>2 DEF TaskType, States, Frames, Context
<1>7. ContextType'
  BY <1>0, <1>2 DEF ContextType, Context
<1>8. Started'
  BY <1>0, <1>1, <1>2 DEF Started, ListType
<1>9. \A j \in Tasks : /\ j \in Idx /\ j # i
                      /\ pid'[j] = pid[j] /\ state'[j] = state[j]
                      /\ regs'[j] = regs[j]
  <2> SUFFICES ASSUME NEW j \in Tasks
               PROVE  /\ j \in Idx /\ j # i
                      /\ pid'[j] = pid[j] /\ state'[j] = state[j]
                      /\ regs'[j] = regs[j]
    OBVIOUS
  <2>1. j \in Idx /\ j # i
    BY <1>0, <1>1 DEF ListType
  <2> QED
    BY <1>0, <1>2, <2>1 DEF CounterType, TaskType
<1>10. /\ pid'[i] = next_pid /\ next_pid # 0
       /\ state'[i] = "READY"
       /\ regs'[i] = [at |-> "entry", ctx |-> i, live |-> TRUE]
  BY <1>0, <1>1, <1>2 DEF CounterType, TaskType, ListType
<1>11. Tasks' = Tasks \cup {i}
  BY <1>0, <1>1, <1>2 DEF ListType
<1> HIDE DEF i, Tasks
<1>12. OneIdle' /\ OwnFrames'
  BY <1>0, <1>9, <1>10, <1>11 DEF OneIdle, OwnFrames
<1>13. CurrentOwnsCpu'
  BY <1>0, <1>1, <1>2, <1>9, <1>10, <1>11 DEF CurrentOwnsCpu, Owner
<1>14. ReadyIsResumable'
  BY <1>0, <1>9, <1>10, <1>11 DEF ReadyIsResumable, Owner
<1>15. TurnBound'
  <2> SUFFICES ASSUME NEW j \in Tasks'
               PROVE  (waited[j] + Turn(current_task, j) <= task_count_val)'
    BY DEF TurnBound
  <2>1. waited'[j] = 0
    BY <1>0, <1>1, <1>2, <1>9, <1>11 DEF i
  <2> QED
    BY <1>0, <1>1, <1>2, <2>1 DEF Turn, ListType, Tasks
<1> QED
  BY <1>3, <1>4, <1>5, <1>6, <1>7, <1>8, <1>12, <1>13, <1>14, <1>15
     DEF IInv, TypeOK

LEMMA StartStep == IInv /\ start => IInv'
<1> SUFFICES ASSUME IInv, start PROVE IInv'
  OBVIOUS
<1> USE DEF IInv, start, tcb_vars, Tasks
<1>1. TypeOK'
  BY DEF TypeOK, BootType, ListType, CounterType, TaskType, ContextType
<1>2. Started'
  BY DEF Started
<1>3. OneIdle' /\ OwnFrames' /\ CurrentOwnsCpu' /\ ReadyIsResumable' /\ TurnBound'
  BY DEF OneIdle, OwnFrames, CurrentOwnsCpu, ReadyIsResumable, TurnBound, Turn, Owner
<1> QED
  BY <1>1, <1>2, <1>3

-----------------------------------------------------------------------------
(* The timer interrupt. *)

\* What task_switch has established when it starts to search: nobody is
\* RUNNING, and every READY task can be resumed.
LEMMA SavedFacts ==
  ASSUME IInv, task_count_val # 0
  PROVE  /\ current_task \in Tasks
         /\ Tasks \subseteq Idx
         /\ saved_state \in [Idx -> States]
         /\ saved_regs \in [Idx -> Frames]
         /\ \A j \in Tasks : saved_state[j] # "RUNNING"
         /\ \A j \in Tasks : saved_state[j] = "READY" =>
                             saved_regs[j].live /\ saved_regs[j].ctx = Owner(j)
         /\ \A j \in Tasks : pid[j] # 0 =>
                             saved_regs[j].at # "null" /\ saved_regs[j].ctx = j
<1>0. /\ ListType /\ CounterType /\ TaskType /\ ContextType
      /\ OwnFrames /\ CurrentOwnsCpu /\ ReadyIsResumable
  BY DEF IInv, TypeOK
<1>1. current_task # NULL /\ current_task \in Tasks
  BY <1>0 DEF IInv, Started, ListType
<1>2. Tasks \subseteq Idx
  BY <1>0 DEF ListType, Tasks, Idx
<1>3. pushed \in Frames /\ pushed.live /\ pushed.ctx = cpu /\ pushed.at = "stack"
  BY <1>0 DEF pushed, Frames, ListType
<1>4. cpu = Owner(current_task)
  BY <1>0, <1>1 DEF CurrentOwnsCpu
<1>5. saved_state \in [Idx -> States] /\ saved_regs \in [Idx -> Frames]
  BY <1>0, <1>3 DEF saved_state, saved_regs, TaskType, States
<1>6. \A j \in Tasks : j # current_task =>
                      saved_state[j] = state[j] /\ saved_regs[j] = regs[j]
  BY <1>0, <1>2 DEF saved_state, saved_regs, TaskType
<1>7. CASE saves
  <2>1. saved_state[current_task] = "READY" /\ saved_regs[current_task] = pushed
    BY <1>0, <1>1, <1>2, <1>7 DEF saved_state, saved_regs, TaskType
  <2>2. pid[current_task] # 0 => cpu = current_task
    BY <1>4 DEF Owner
  <2> QED
    BY <1>0, <1>1, <1>2, <1>3, <1>4, <1>5, <1>6, <2>1, <2>2
       DEF CurrentOwnsCpu, ReadyIsResumable, OwnFrames
<1>8. CASE ~saves
  <2>1. saved_state = state /\ saved_regs = regs
    BY <1>8 DEF saved_state, saved_regs
  <2>2. state[current_task] # "RUNNING"
    BY <1>1, <1>8 DEF saves
  <2> QED
    BY <1>0, <1>1, <1>2, <1>5, <2>1, <2>2
       DEF CurrentOwnsCpu, ReadyIsResumable, OwnFrames
<1> QED
  BY <1>7, <1>8

\* What the return from an interrupt does to the frames.
LEMMA ConsumedFacts ==
  ASSUME NEW rs \in [Idx -> Frames], NEW c \in Context
  PROVE  /\ Consumed(rs, c) \in [Idx -> Frames]
         /\ \A j \in Idx : /\ Consumed(rs, c)[j].at = rs[j].at
                          /\ Consumed(rs, c)[j].ctx = rs[j].ctx
         /\ \A j \in Idx : rs[j].live /\ rs[j].ctx # c => Consumed(rs, c)[j].live
<1>1. \A j \in Idx : Consumed(rs, c)[j] = [rs[j] EXCEPT !.live = rs[j].live /\ rs[j].ctx # c]
  BY DEF Consumed
<1>2. \A j \in Idx : rs[j] \in Frames
  OBVIOUS
<1>3. ASSUME NEW j \in Idx
      PROVE  /\ Consumed(rs, c)[j] \in Frames
             /\ Consumed(rs, c)[j].at = rs[j].at
             /\ Consumed(rs, c)[j].ctx = rs[j].ctx
             /\ rs[j].live /\ rs[j].ctx # c => Consumed(rs, c)[j].live
  BY <1>1, <1>2 DEF Frames
<1>4. Consumed(rs, c) \in [Idx -> Frames]
  BY <1>3 DEF Consumed
<1> QED
  BY <1>3, <1>4

\* The candidate task_switch takes becomes current, and everybody else who
\* could have run is one turn closer.
LEMMA SwitchStep ==
  ASSUME IInv, task_count_val # 0, boot = "hlt",
         NEW left \in [Idx -> 0 .. MaxSleep], NEW n \in Tasks,
         switch_to(n, left), UNCHANGED <<boot_vars, task_count_val, pid, slept>>,
         slice' \in 0 .. SLICE - 1, sleep_left' = left
  PROVE  IInv'
<1>0. /\ BootType /\ ListType /\ CounterType /\ TaskType /\ ContextType
      /\ CurrentOwnsCpu /\ TurnBound /\ Started /\ OneIdle
  BY DEF IInv, TypeOK
<1>1. /\ current_task \in Tasks
      /\ Tasks \subseteq Idx
      /\ saved_state \in [Idx -> States]
      /\ saved_regs \in [Idx -> Frames]
      /\ \A j \in Tasks : saved_state[j] # "RUNNING"
      /\ \A j \in Tasks : saved_state[j] = "READY" =>
                          saved_regs[j].live /\ saved_regs[j].ctx = Owner(j)
      /\ \A j \in Tasks : pid[j] # 0 =>
                          saved_regs[j].at # "null" /\ saved_regs[j].ctx = j
  BY SavedFacts
<1>2. /\ IsNext(n, left) /\ pid[n] # 0
      /\ saved_regs[n].at # "null" /\ saved_regs[n].ctx = n
  BY <1>1 DEF switch_to, IsNext, Candidates, Runnable
<1>3. /\ current_task' = n
      /\ state' = [saved_state EXCEPT ![n] = "RUNNING"]
      /\ Resume(saved_regs[n])
      /\ regs' = Consumed(saved_regs, n)
      /\ waited' = PassedOver(n, left)
  BY <1>2 DEF switch_to
<1>4. cpu' = n
  BY <1>2, <1>3 DEF Resume
<1>5. /\ boot' = boot /\ oom' = oom /\ next_pid' = next_pid
      /\ scheduler_enabled' = scheduler_enabled
      /\ task_count_val' = task_count_val /\ pid' = pid /\ Tasks' = Tasks
  BY DEF boot_vars, Tasks
<1>6. n \in Idx /\ n \in Context
  BY <1>1 DEF Context
<1>7. /\ regs' \in [Idx -> Frames]
      /\ \A j \in Idx : regs'[j].at = saved_regs[j].at /\ regs'[j].ctx = saved_regs[j].ctx
      /\ \A j \in Idx : saved_regs[j].live /\ saved_regs[j].ctx # n => regs'[j].live
  BY <1>1, <1>3, <1>6, ConsumedFacts
<1>8. BootType'
  BY <1>0, <1>5 DEF BootType
<1>9. ListType'
  BY <1>0, <1>3, <1>4, <1>5, <1>6 DEF ListType
<1>10. CounterType'
  <2>1. waited' \in [Idx -> Nat]
    BY <1>0, <1>3 DEF PassedOver, CounterType
  <2> QED
    BY <1>0, <1>5, <2>1 DEF CounterType
<1>11. TaskType'
  BY <1>1, <1>3, <1>7 DEF TaskType, States
<1>12. ContextType'
  BY <1>0, <1>2, <1>3, <1>6 DEF ContextType, Resume
<1>13. Started'
  <2>1. current_task' # NULL
    BY <1>3, <1>6 DEF Idx, NULL
  <2> QED
    BY <1>0, <1>5, <2>1 DEF Started
<1>14. OwnFrames'
  <2> SUFFICES ASSUME NEW j \in Tasks, pid[j] # 0
               PROVE  regs'[j].at # "null" /\ regs'[j].ctx = j
    BY <1>5 DEF OwnFrames
  <2>1. j \in Idx
    BY <1>1
  <2> QED
    BY <1>1, <1>7, <2>1
<1>15. CurrentOwnsCpu'
  <2>1. \A j \in Tasks : j # n => state'[j] # "RUNNING"
    BY <1>1, <1>3
  <2> QED
    BY <1>2, <1>3, <1>4, <1>5, <2>1 DEF CurrentOwnsCpu, Owner
<1>16. ReadyIsResumable'
  <2> SUFFICES ASSUME NEW j \in Tasks, state'[j] = "READY"
               PROVE  regs'[j].live /\ regs'[j].ctx = Owner(j)'
    BY <1>5 DEF ReadyIsResumable
  <2>1. j # n /\ saved_state[j] = "READY" /\ j \in Idx
    BY <1>1, <1>3, <1>6
  <2>2. Owner(j) # n
    BY <2>1, <1>6 DEF Owner, MAIN, Idx
  <2>3. saved_regs[j].live /\ saved_regs[j].ctx = Owner(j)
    BY <1>1, <2>1
  <2>4. Owner(j)' = Owner(j)
    BY <1>5 DEF Owner
  <2> QED
    BY <1>7, <2>1, <2>2, <2>3, <2>4
<1>17. TurnBound'
  <2> SUFFICES ASSUME NEW j \in Tasks, pid[j] # 0
               PROVE  waited'[j] + Turn(n, j) <= task_count_val
    BY <1>3, <1>5 DEF TurnBound, Turn
  <2>0. /\ task_count_val \in Nat /\ j \in 0 .. task_count_val - 1
        /\ n \in 0 .. task_count_val - 1 /\ current_task \in 0 .. task_count_val - 1
        /\ waited[j] \in Nat /\ j \in Idx
    BY <1>0, <1>1 DEF ListType, CounterType, Tasks
  <2>1. Turn(n, j) <= task_count_val
    BY <2>0 DEF Turn
  <2>2. CASE j \in Candidates(left) \ {n}
    <3>1. waited'[j] = waited[j] + 1
      BY <1>3, <2>0, <2>2 DEF PassedOver
    <3>2. Turn(current_task, n) <= Turn(current_task, j) /\ j # n
      BY <1>2, <2>2 DEF IsNext
    <3>3. waited[j] + Turn(current_task, j) <= task_count_val
      BY <1>0 DEF TurnBound
    <3>4. Turn(n, j) + 1 <= Turn(current_task, j)
      BY <2>0, <3>2 DEF Turn
    <3>5. Turn(n, j) \in Int /\ Turn(current_task, j) \in Int
      BY <2>0 DEF Turn
    <3> QED
      BY <2>0, <3>1, <3>3, <3>4, <3>5
  <2>3. CASE j \notin Candidates(left) \ {n}
    <3>1. waited'[j] = 0
      BY <1>3, <2>0, <2>3 DEF PassedOver
    <3>2. Turn(n, j) \in Int
      BY <2>0 DEF Turn
    <3> QED
      BY <2>1, <3>1, <3>2
  <2> QED
    BY <2>2, <2>3
<1>18. OneIdle'
  BY <1>0, <1>5 DEF OneIdle
<1> QED
  BY <1>8, <1>9, <1>10, <1>11, <1>12, <1>13, <1>14, <1>15, <1>16, <1>17, <1>18
     DEF IInv, TypeOK

\* Without a candidate the interrupted task goes on, RUNNING again.
LEMMA KeepStep ==
  ASSUME IInv, task_count_val # 0, boot = "hlt",
         NEW left \in [Idx -> 0 .. MaxSleep],
         keep_current(left), UNCHANGED <<boot_vars, task_count_val, pid, slept>>,
         slice' \in 0 .. SLICE - 1, sleep_left' = left
  PROVE  IInv'
<1>0. /\ BootType /\ ListType /\ CounterType /\ TaskType /\ ContextType
      /\ CurrentOwnsCpu /\ Started /\ OneIdle
  BY DEF IInv, TypeOK
<1>1. /\ current_task \in Tasks
      /\ Tasks \subseteq Idx
      /\ saved_state \in [Idx -> States]
      /\ saved_regs \in [Idx -> Frames]
      /\ \A j \in Tasks : saved_state[j] # "RUNNING"
      /\ \A j \in Tasks : saved_state[j] = "READY" =>
                          saved_regs[j].live /\ saved_regs[j].ctx = Owner(j)
      /\ \A j \in Tasks : pid[j] # 0 =>
                          saved_regs[j].at # "null" /\ saved_regs[j].ctx = j
  BY SavedFacts
<1>2. current_task # NULL /\ current_task \in Idx
  BY <1>1 DEF Idx, NULL
<1>3. /\ current_task' = current_task
      /\ state' = [saved_state EXCEPT ![current_task] = "RUNNING"]
      /\ regs' = Consumed(saved_regs, cpu)
      /\ waited' = [i \in Idx |-> 0]
      /\ cpu' = cpu /\ pc' = pc /\ lost' = lost
  BY <1>2 DEF keep_current
<1>4. /\ boot' = boot /\ oom' = oom /\ next_pid' = next_pid
      /\ scheduler_enabled' = scheduler_enabled
      /\ task_count_val' = task_count_val /\ pid' = pid /\ Tasks' = Tasks
  BY DEF boot_vars, Tasks
<1>5. cpu = Owner(current_task) /\ cpu \in Context
  BY <1>0, <1>2 DEF CurrentOwnsCpu, ListType
<1>6. /\ regs' \in [Idx -> Frames]
      /\ \A j \in Idx : regs'[j].at = saved_regs[j].at /\ regs'[j].ctx = saved_regs[j].ctx
      /\ \A j \in Idx : saved_regs[j].live /\ saved_regs[j].ctx # cpu => regs'[j].live
  BY <1>1, <1>3, <1>5, ConsumedFacts
<1>7. BootType'
  BY <1>0, <1>4 DEF BootType
<1>8. ListType'
  BY <1>0, <1>3, <1>4 DEF ListType
<1>9. CounterType'
  BY <1>0, <1>3, <1>4 DEF CounterType
<1>10. TaskType'
  BY <1>1, <1>3, <1>6 DEF TaskType, States
<1>11. ContextType'
  BY <1>0, <1>3 DEF ContextType
<1>12. Started'
  BY <1>0, <1>3, <1>4 DEF Started
<1>13. OwnFrames'
  <2> SUFFICES ASSUME NEW j \in Tasks, pid[j] # 0
               PROVE  regs'[j].at # "null" /\ regs'[j].ctx = j
    BY <1>4 DEF OwnFrames
  <2>1. j \in Idx
    BY <1>1
  <2> QED
    BY <1>1, <1>6, <2>1
<1>14. CurrentOwnsCpu'
  <2>1. \A j \in Tasks : j # current_task => state'[j] # "RUNNING"
    BY <1>1, <1>3
  <2> QED
    BY <1>3, <1>4, <1>5, <2>1 DEF CurrentOwnsCpu, Owner
<1>15. ReadyIsResumable'
  <2> SUFFICES ASSUME NEW j \in Tasks, state'[j] = "READY"
               PROVE  regs'[j].live /\ regs'[j].ctx = Owner(j)'
    BY <1>4 DEF ReadyIsResumable
  <2>1. j # current_task /\ saved_state[j] = "READY" /\ j \in Idx
    BY <1>1, <1>2, <1>3
  <2>2. saved_regs[j].live /\ saved_regs[j].ctx = Owner(j)
    BY <1>1, <2>1
  <2>3. Owner(j)' = Owner(j)
    BY <1>4 DEF Owner
  <2>4. CASE pid[j] # 0
    <3>1. Owner(j) # cpu
      BY <1>2, <1>5, <2>1, <2>4 DEF Owner, MAIN, Idx
    <3> QED
      BY <1>6, <2>1, <2>2, <2>3, <3>1
  <2>5. CASE pid[j] = 0
    \* Only kernel_main's TCB has PID 0, so the CPU is on another stack.
    <3>1. Owner(j) # cpu
      BY <1>0, <1>1, <1>2, <1>5, <2>1, <2>5 DEF OneIdle, Owner, MAIN, Idx
    <3> QED
      BY <1>6, <2>1, <2>2, <2>3, <3>1
  <2> QED
    BY <2>4, <2>5
<1>16. TurnBound'
  <2> SUFFICES ASSUME NEW j \in Tasks
               PROVE  waited'[j] + Turn(current_task, j) <= task_count_val
    BY <1>3, <1>4 DEF TurnBound, Turn
  <2>1. waited'[j] = 0
    BY <1>1, <1>3
  <2> QED
    BY <1>0, <1>1, <2>1 DEF Turn, ListType, Tasks
<1>17. OneIdle'
  BY <1>0, <1>4 DEF OneIdle
<1> QED
  BY <1>7, <1>8, <1>9, <1>10, <1>11, <1>12, <1>13, <1>14, <1>15, <1>16, <1>17
     DEF IInv, TypeOK

LEMMA IrqStep == IInv /\ pit_irq_handler => IInv'
<1> SUFFICES ASSUME IInv, pit_irq_handler PROVE IInv'
  OBVIOUS
<1>0. /\ BootType /\ ListType /\ CounterType /\ TaskType /\ ContextType
  BY DEF IInv, TypeOK
<1>1. boot = "hlt" /\ UNCHANGED <<boot_vars, task_count_val, pid, slept>>
  BY DEF pit_irq_handler
<1>2. slice' \in 0 .. SLICE - 1
  BY <1>0 DEF pit_irq_handler, ListType
<1>3. sleep_left' \in [Idx -> 0 .. MaxSleep]
  <2>1. \A i \in Idx : sleep_left[i] \in 0 .. MaxSleep
    BY <1>0 DEF CounterType
  <2> QED
    BY <2>1 DEF pit_irq_handler, ticked
<1>4. CASE UNCHANGED <<current_task, state, regs, cpu, pc, lost, waited>>
  <2> USE <1>4
  <2>1. /\ boot' = boot /\ oom' = oom /\ next_pid' = next_pid
        /\ scheduler_enabled' = scheduler_enabled
        /\ task_count_val' = task_count_val /\ pid' = pid /\ Tasks' = Tasks
    BY <1>1 DEF boot_vars, Tasks
  <2>2. BootType'
    BY <1>0, <2>1 DEF BootType
  <2>3. ListType'
    BY <1>0, <1>2, <2>1 DEF ListType
  <2>4. CounterType' /\ TaskType' /\ ContextType'
    BY <1>0, <1>1, <1>3, <2>1 DEF CounterType, TaskType, ContextType
  <2>5. Started' /\ OneIdle' /\ OwnFrames'
    BY <2>1 DEF IInv, Started, OneIdle, OwnFrames
  <2>6. CurrentOwnsCpu' /\ ReadyIsResumable' /\ TurnBound'
    BY <2>1 DEF IInv, CurrentOwnsCpu, ReadyIsResumable, TurnBound, Turn, Owner
  <2> QED
    BY <2>2, <2>3, <2>4, <2>5, <2>6 DEF IInv, TypeOK
<1>5. CASE task_count_val # 0 /\ \E i \in Tasks : switch_to(i, sleep_left')
  <2>1. PICK n \in Tasks : switch_to(n, sleep_left')
    BY <1>5
  <2> QED
    BY <1>1, <1>2, <1>3, <1>5, <2>1, SwitchStep
<1>6. CASE task_count_val # 0 /\ keep_current(sleep_left')
  BY <1>1, <1>2, <1>3, <1>6, KeepStep
<1> QED
  BY <1>4, <1>5, <1>6 DEF pit_irq_handler, task_switch

-----------------------------------------------------------------------------
(* What the running task does to itself: state and pc change, or sleep_left.  *)

LEMMA OwnStateStep ==
  ASSUME IInv, NEW s \in {"SLEEPING", "ZOMBIE"}, NEW p \in {"sleep", "done"},
         current_task # NULL,
         state' = [state EXCEPT ![current_task] = s],
         pc' = [pc EXCEPT ![cpu] = p],
         slept' \in {slept, slept \cup {cpu}},
         UNCHANGED <<boot_vars, task_count_val, pid, regs, sleep_left,
                     current_task, slice, cpu, lost, waited>>
  PROVE  IInv'
<1>0. /\ BootType /\ ListType /\ CounterType /\ TaskType /\ ContextType
      /\ Started /\ OneIdle /\ OwnFrames
      /\ CurrentOwnsCpu /\ ReadyIsResumable /\ TurnBound
  BY DEF IInv, TypeOK
<1>1. /\ boot' = boot /\ oom' = oom /\ next_pid' = next_pid
      /\ scheduler_enabled' = scheduler_enabled
      /\ task_count_val' = task_count_val /\ pid' = pid /\ Tasks' = Tasks
      /\ regs' = regs /\ sleep_left' = sleep_left /\ slice' = slice
      /\ current_task' = current_task /\ cpu' = cpu /\ lost' = lost
      /\ waited' = waited
  BY DEF boot_vars, Tasks
<1>2. current_task \in Tasks /\ Tasks \subseteq Idx
  BY <1>0 DEF ListType, Tasks, Idx
<1>3. \A j \in Tasks : state'[j] # state[j] => j = current_task /\ state'[j] = s
  BY <1>0, <1>2 DEF TaskType
<1>4. BootType'
  BY <1>0, <1>1 DEF BootType
<1>5. ListType' /\ CounterType'
  BY <1>0, <1>1 DEF ListType, CounterType
<1>6. TaskType'
  BY <1>0, <1>1 DEF TaskType, States
<1>7. ContextType'
  BY <1>0, <1>1 DEF ContextType, ListType
<1>8. Started' /\ OneIdle' /\ OwnFrames' /\ TurnBound'
  BY <1>0, <1>1 DEF Started, OneIdle, OwnFrames, TurnBound, Turn
<1>9. CurrentOwnsCpu'
  BY <1>0, <1>1, <1>3 DEF CurrentOwnsCpu, Owner
<1>10. ReadyIsResumable'
  BY <1>0, <1>1, <1>3 DEF ReadyIsResumable, Owner
<1> QED
  BY <1>4, <1>5, <1>6, <1>7, <1>8, <1>9, <1>10 DEF IInv, TypeOK

LEMMA SleepUntilStep == IInv /\ task_sleep_until => IInv'
<1> SUFFICES ASSUME IInv, task_sleep_until PROVE IInv'
  OBVIOUS
<1>0. /\ BootType /\ ListType /\ CounterType /\ TaskType /\ ContextType
      /\ Started /\ OneIdle /\ OwnFrames
      /\ CurrentOwnsCpu /\ ReadyIsResumable /\ TurnBound
  BY DEF IInv, TypeOK
<1>1. /\ boot' = boot /\ oom' = oom /\ next_pid' = next_pid
      /\ scheduler_enabled' = scheduler_enabled
      /\ task_count_val' = task_count_val /\ pid' = pid /\ Tasks' = Tasks
      /\ regs' = regs /\ slice' = slice /\ state' = state
      /\ current_task' = current_task /\ cpu' = cpu /\ lost' = lost
      /\ waited' = waited
  BY DEF task_sleep_until, boot_vars, Tasks
<1>2. PICK n \in 0 .. MaxSleep :
        sleep_left' = [sleep_left EXCEPT ![current_task] = n]
  BY DEF task_sleep_until
<1>3. BootType'
  BY <1>0, <1>1 DEF BootType
<1>4. ListType'
  BY <1>0, <1>1 DEF ListType
<1>5. CounterType'
  <2>1. sleep_left \in [Idx -> 0 .. MaxSleep]
    BY <1>0 DEF CounterType
  <2>2. sleep_left' \in [Idx -> 0 .. MaxSleep]
    BY <1>2, <2>1
  <2> QED
    BY <1>0, <1>1, <2>2 DEF CounterType
<1>6. TaskType'
  BY <1>0, <1>1 DEF TaskType
<1>7. ContextType'
  BY <1>0, <1>1 DEF ContextType, task_sleep_until
<1>8. Started' /\ OneIdle' /\ OwnFrames' /\ TurnBound'
  BY <1>0, <1>1 DEF Started, OneIdle, OwnFrames, TurnBound, Turn
<1>9. CurrentOwnsCpu' /\ ReadyIsResumable'
  BY <1>0, <1>1 DEF CurrentOwnsCpu, ReadyIsResumable, Owner
<1> QED
  BY <1>3, <1>4, <1>5, <1>6, <1>7, <1>8, <1>9 DEF IInv, TypeOK

-----------------------------------------------------------------------------
(* The invariant, and the theorems that follow from it. *)

LEMMA NextIInv == IInv /\ [Next]_vars => IInv'
<1> SUFFICES ASSUME IInv, [Next]_vars PROVE IInv'
  OBVIOUS
<1>1. CASE task_init
  BY <1>1, InitStep
<1>2. CASE task_create
  BY <1>2, CreateStep
<1>3. CASE start
  BY <1>3, StartStep
<1>4. CASE pit_irq_handler
  BY <1>4, IrqStep
<1>5. CASE task_sleep
  BY <1>5, OwnStateStep DEF task_sleep, calls
<1>6. CASE task_sleep_until
  BY <1>6, SleepUntilStep
<1>7. CASE task_exit
  BY <1>7, OwnStateStep DEF task_exit, calls
<1>8. CASE UNCHANGED vars
  <2> USE <1>8 DEF vars, boot_vars, tcb_vars, IInv
  <2>1. TypeOK'
    BY DEF TypeOK, BootType, ListType, CounterType, TaskType, ContextType, Tasks
  <2>2. Started' /\ OneIdle' /\ OwnFrames'
    BY DEF Started, OneIdle, OwnFrames, Tasks
  <2>3. CurrentOwnsCpu' /\ ReadyIsResumable' /\ TurnBound'
    BY DEF CurrentOwnsCpu, ReadyIsResumable, TurnBound, Turn, Owner, Tasks
  <2> QED
    BY <2>1, <2>2, <2>3
<1> QED
  BY <1>1, <1>2, <1>3, <1>4, <1>5, <1>6, <1>7, <1>8 DEF Next, halted

\* The inductive invariant holds in every state of every behaviour.
LEMMA InvHolds == Spec => []IInv
  BY InitIInv, NextIInv, PTL DEF Spec

\* Every variable of the scheduler keeps its type: the task list never grows
\* past MAX_TASKS and current_task never leaves it.
THEOREM TypeCorrect == Spec => []TypeOK
<1>1. IInv => TypeOK
  BY DEF IInv
<1> QED
  BY <1>1, InvHolds, PTL

\* For every number of tasks and every interleaving of their calls with the
\* timer, task_switch leaves at most one task RUNNING, the current one, and
\* the CPU on that task's stack.
THEOREM OneOwner == Spec => []CurrentOwnsCpu
<1>1. IInv => CurrentOwnsCpu
  BY DEF IInv
<1> QED
  BY <1>1, InvHolds, PTL

\* For every number of tasks, a READY task has a live frame on its own stack.
THEOREM ReadyFrames == Spec => []ReadyIsResumable
<1>1. IInv => ReadyIsResumable
  BY DEF IInv
<1> QED
  BY <1>1, InvHolds, PTL

\* For every number of tasks, a task that could run is passed over by fewer
\* scheduler calls than there are tasks.
THEOREM FairShare == Spec => []BoundedWait
<1>1. IInv => BoundedWait
  <2> SUFFICES ASSUME IInv, NEW i \in Tasks, pid[i] # 0
               PROVE  waited[i] < task_count_val
    BY DEF BoundedWait
  <2>1. /\ ListType /\ CounterType
        /\ waited[i] + Turn(current_task, i) <= task_count_val
    BY DEF IInv, TypeOK, TurnBound
  <2>2. /\ task_count_val \in Nat /\ i \in 0 .. task_count_val - 1
        /\ current_task \in -1 .. task_count_val - 1
    BY <2>1 DEF ListType, Tasks, NULL
  <2>4. waited[i] \in Nat
    BY <2>1 DEF ListType, CounterType, Tasks, Idx
  <2>3. Turn(current_task, i) \in Int /\ Turn(current_task, i) >= 1
    BY <2>2 DEF Turn
  <2> QED
    BY <2>1, <2>2, <2>3, <2>4
<1> QED
  BY <1>1, InvHolds, PTL

\* The step condition of OffCpuUndisturbed.
OffCpuStep ==
  \A i \in Tasks :
    i # current_task /\ state'[i] # state[i] =>
      /\ i = current_task'
      /\ \/ state[i] = "READY"
         \/ state[i] = "SLEEPING" /\ sleep_left'[i] = 0

LEMMA SwitchOffCpu ==
  ASSUME IInv, task_count_val # 0, NEW left, NEW n \in Tasks,
         switch_to(n, left), sleep_left' = left
  PROVE  OffCpuStep
<1> SUFFICES ASSUME NEW i \in Tasks, i # current_task, state'[i] # state[i]
             PROVE  /\ i = current_task'
                    /\ \/ state[i] = "READY"
                       \/ state[i] = "SLEEPING" /\ sleep_left'[i] = 0
  BY DEF OffCpuStep
<1>1. TaskType /\ i \in Idx /\ saved_state \in [Idx -> States]
  BY SavedFacts DEF IInv, TypeOK
<1>2. saved_state[i] = state[i]
  BY <1>1 DEF saved_state, TaskType
<1>3. i = n
  BY <1>1, <1>2 DEF switch_to
<1> QED
  BY <1>2, <1>3 DEF switch_to, IsNext, Candidates, Runnable

LEMMA KeepOffCpu ==
  ASSUME IInv, task_count_val # 0, NEW left, keep_current(left)
  PROVE  OffCpuStep
<1> SUFFICES ASSUME NEW i \in Tasks, i # current_task
             PROVE  state'[i] = state[i]
  BY DEF OffCpuStep
<1>1. TaskType /\ i \in Idx /\ saved_state \in [Idx -> States]
  BY SavedFacts DEF IInv, TypeOK
<1>2. saved_state[i] = state[i]
  BY <1>1 DEF saved_state, TaskType
<1> QED
  BY <1>1, <1>2 DEF keep_current

\* For every number of tasks, a task that does not have the CPU changes state
\* only by being scheduled, and then was READY or a sleeper whose time is over.
THEOREM OffCpuTasks == Spec => OffCpuUndisturbed
<1>1. ASSUME IInv, [Next]_vars PROVE OffCpuStep \/ UNCHANGED vars
  <2>0. TaskType /\ ListType /\ Tasks \subseteq Idx
    BY <1>1 DEF IInv, TypeOK, ListType, Tasks, Idx
  <2>1. CASE task_init
    <3>1. Tasks = {}
      BY <1>1, <2>1 DEF IInv, Started, task_init, Tasks
    <3> QED
      BY <3>1 DEF OffCpuStep
  <2>2. CASE task_create
    <3>1. \A i \in Tasks : i # task_count_val
      BY <2>0 DEF ListType, Tasks
    <3> QED
      BY <2>0, <2>2, <3>1 DEF OffCpuStep, task_create, TaskType
  <2>3. CASE start \/ task_sleep_until
    BY <2>3 DEF OffCpuStep, start, task_sleep_until, tcb_vars
  <2>4. CASE pit_irq_handler
    <3>1. CASE state' = state
      BY <3>1 DEF OffCpuStep
    <3>2. CASE task_count_val # 0 /\ \E n \in Tasks : switch_to(n, sleep_left')
      <4>1. PICK n \in Tasks : switch_to(n, sleep_left')
        BY <3>2
      <4> QED
        BY <1>1, <3>2, <4>1, SwitchOffCpu
    <3>3. CASE task_count_val # 0 /\ keep_current(sleep_left')
      BY <1>1, <3>3, KeepOffCpu
    <3> QED
      BY <2>4, <3>1, <3>2, <3>3 DEF pit_irq_handler, task_switch
  <2>5. CASE task_sleep \/ task_exit
    BY <2>0, <2>5 DEF OffCpuStep, task_sleep, task_exit, TaskType
  <2> QED
    BY <1>1, <2>1, <2>2, <2>3, <2>4, <2>5 DEF Next, halted
<1>2. IInv /\ [Next]_vars => [OffCpuStep]_vars
  BY <1>1
<1> QED
  BY <1>2, InvHolds, PTL DEF Spec, OffCpuUndisturbed, OffCpuStep

\* A sleeper has called task_sleep: the only frames that are resumed although
\* they are not live belong to contexts in slept.
SleepersSlept ==
  /\ lost \subseteq slept
  /\ \A i \in Tasks : state[i] = "SLEEPING" => Owner(i) \in slept

LEMMA SleptStep ==
  ASSUME IInv, SleepersSlept, [Next]_vars
  PROVE  SleepersSlept'
<1>0. /\ TaskType /\ ListType /\ CounterType /\ OwnFrames /\ OneIdle
      /\ CurrentOwnsCpu
      /\ Tasks \subseteq Idx
  BY DEF IInv, TypeOK, ListType, Tasks, Idx
<1>1. CASE task_init
  <2>1. Tasks' = {0} \/ Tasks' = {}
    BY <1>1 DEF task_init, Tasks, IInv, Started
  <2>2. 0 \in Idx
    BY DEF Idx
  <2>3. ASSUME NEW i \in Tasks' PROVE state'[i] # "SLEEPING"
    BY <1>0, <1>1, <2>1, <2>2, <2>3 DEF task_init, TaskType, IInv, Started, Tasks
  <2> QED
    BY <1>1, <2>3 DEF SleepersSlept, task_init
<1>2. CASE task_create
  <2>0. /\ task_count_val \in Idx
        /\ Tasks' = Tasks \cup {task_count_val}
        /\ state'[task_count_val] # "SLEEPING"
        /\ \A i \in Tasks : i # task_count_val
    BY <1>0, <1>2 DEF task_create, list_has_room, Tasks, TaskType, ListType, Idx
  <2>1. ASSUME NEW i \in Tasks', state'[i] = "SLEEPING"
        PROVE  i \in Tasks /\ state[i] = "SLEEPING" /\ pid'[i] = pid[i]
    BY <1>0, <1>2, <2>0, <2>1 DEF task_create, TaskType, CounterType
  <2> QED
    BY <1>2, <2>1 DEF SleepersSlept, task_create, Owner
<1>3. CASE start \/ task_sleep_until \/ UNCHANGED vars
  BY <1>3 DEF SleepersSlept, start, task_sleep_until, boot_vars, tcb_vars, vars,
              Tasks, Owner
<1>4. CASE task_sleep
  <2>1. /\ current_task # NULL /\ Owner(current_task) = cpu
        /\ slept' = slept \cup {cpu} /\ lost' = lost /\ pid' = pid
        /\ Tasks' = Tasks
        /\ state' = [state EXCEPT ![current_task] = "SLEEPING"]
    BY <1>0, <1>4 DEF task_sleep, calls, CurrentOwnsCpu, Tasks
  <2> QED
    BY <1>0, <2>1 DEF SleepersSlept, Owner, TaskType
<1>5. CASE task_exit
  BY <1>0, <1>5 DEF SleepersSlept, task_exit, TaskType, Tasks, Owner
<1>6. CASE pit_irq_handler
  <2>0. slept' = slept /\ pid' = pid /\ Tasks' = Tasks
    BY <1>6 DEF pit_irq_handler, Tasks
  <2>1. CASE state' = state /\ lost' = lost
    BY <2>0, <2>1 DEF SleepersSlept, Owner
  <2>2. \A i \in Tasks : saved_state[i] = "SLEEPING" => state[i] = "SLEEPING"
    BY <1>0 DEF saved_state, TaskType
  <2>3. CASE task_count_val # 0 /\ \E n \in Tasks : switch_to(n, sleep_left')
    <3>1. PICK n \in Tasks : switch_to(n, sleep_left')
      BY <2>3
    <3>2. /\ n \in Idx /\ pid[n] # 0 /\ saved_state \in [Idx -> States]
          /\ saved_regs[n].at # "null" /\ saved_regs[n].ctx = n
          /\ saved_state[n] = "READY" => saved_regs[n].live
          /\ saved_state[n] \in {"READY", "SLEEPING"}
      BY <2>3, <3>1, SavedFacts DEF switch_to, IsNext, Candidates, Runnable
    <3>3. lost' \subseteq slept
      <4>1. CASE saved_state[n] = "READY"
        BY <3>1, <3>2, <4>1 DEF switch_to, Resume, SleepersSlept
      <4>2. CASE saved_state[n] = "SLEEPING"
        <5>1. n \in slept
          BY <2>2, <3>2, <4>2 DEF SleepersSlept, Owner
        <5> QED
          BY <3>1, <3>2, <5>1 DEF switch_to, Resume, SleepersSlept
      <4> QED
        BY <3>2, <4>1, <4>2
    <3> QED
      BY <1>0, <2>0, <2>2, <3>1, <3>2, <3>3 DEF SleepersSlept, switch_to, Owner
  <2>4. CASE task_count_val # 0 /\ keep_current(sleep_left')
    <3>1. saved_state \in [Idx -> States]
      BY <2>4, SavedFacts
    <3> QED
      BY <1>0, <2>0, <2>2, <2>4, <3>1 DEF SleepersSlept, keep_current, Owner
  <2> QED
    BY <1>6, <2>1, <2>3, <2>4 DEF pit_irq_handler, task_switch
<1> QED
  BY <1>1, <1>2, <1>3, <1>4, <1>5, <1>6 DEF Next, halted

\* For every number of tasks: a task that never calls task_sleep (none in the
\* tree does) is always resumed exactly where it was interrupted.
THEOREM ContextSafe == Spec => []OnlySleepersLost
<1>1. Init => SleepersSlept
  BY DEF Init, SleepersSlept, Tasks
<1>2. IInv /\ SleepersSlept /\ [Next]_vars => SleepersSlept'
  BY SleptStep
<1>3. SleepersSlept => OnlySleepersLost
  BY DEF SleepersSlept, OnlySleepersLost
<1> QED
  BY <1>1, <1>2, <1>3, InvHolds, PTL DEF Spec

=============================================================================
