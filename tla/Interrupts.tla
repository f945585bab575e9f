------------------------------ MODULE Interrupts ------------------------------
(***************************************************************************)
(* The hardware interrupts of KiOS: the two 8259 controllers as pic.c      *)
(* programs them, the gates of idt.c, the start-up of kernel_main as far   *)
(* as it touches them, and the way of an interrupt from its acknowledge    *)
(* through irq_common_stub and irq_handler (isr.c) to the iretq.           *)
(*                                                                         *)
(* A request line is its number; the lines from 8 on belong to the slave,  *)
(* which asks the master over line 2.  The processor runs ordinary code    *)
(* (kernel_main or a task) or is inside an interrupt, `cur`; `nested` is   *)
(* what cur has interrupted, should one ever interrupt another.            *)
(***************************************************************************)
EXTENDS Integers, Sequences

CONSTANTS
  Devices,      \* the lines whose devices raise requests
  BIOS_OFFSET1, \* the vectors of lines 0 and 8 as the BIOS leaves them
  BIOS_OFFSET2,
  MaxNesting    \* bound on interrupts inside interrupts

Master   == 0 .. 7
Slave    == 8 .. 15
Lines    == Master \cup Slave
Timer    == 0
Keyboard == 1
Cascade  == 2
Spurious == 7   \* what the master answers when the request has gone away

ASSUME DevicesAssumption == Devices \subseteq Lines \ {Cascade}
ASSUME OffsetAssumption  == BIOS_OFFSET1 \in Nat /\ BIOS_OFFSET2 \in Nat
ASSUME NestingAssumption == MaxNesting \in Nat

VARIABLES
  boot,           \* the next step of kernel_main
  offset,         \* the vectors of lines 0 and 8
  imr, irr, isr,  \* the lines that are masked, requested, in service
  gates,          \* the vectors with a gate in the loaded IDT
  irq_handlers,   \* the lines with a handler
  mask_read,      \* the mask pic_clear_mask has read in kernel_main
  IF_flag,        \* the processor takes interrupts
  cur,            \* the interrupt the processor is in
  nested,         \* the interrupts it has interrupted
  faulted,        \* the running code has caused an exception (history)
  halted          \* isr_handler has stopped the processor

pic_vars == <<offset, imr, irr, isr>>
cpu_vars == <<IF_flag, cur, nested, faulted, halted>>
vars == <<boot, pic_vars, gates, irq_handlers, mask_read, cpu_vars>>

\* What `cur` can be: the vector, how far irq_handler is with it, and whether
\* the request behind it had gone away.
Interrupt == [vector : Nat, phase : {"entered", "handled", "ended"}, spurious : BOOLEAN]
None      == [vector |-> 0, phase |-> "none", spurious |-> FALSE]

-----------------------------------------------------------------------------
(***************************************************************************)
(* The controllers (external).  The lower number has priority, and what is *)
(* in service holds back its own line and those behind it.                 *)
(***************************************************************************)
Open(l) ==
  IF l \in Master
    THEN \A b \in isr \cap Master : b > l
    ELSE /\ Cascade \notin imr
         /\ \A b \in isr \cap Master : b > Cascade
         /\ \A b \in isr \cap Slave : b > l

Deliverable == {l \in irr \ imr : Open(l)}

Before(l, m) ==
  LET rank(x) == IF x \in Slave THEN Cascade ELSE x
  IN  rank(l) < rank(m) \/ (rank(l) = rank(m) /\ l <= m)

IsFirst(l) == l \in Deliverable /\ \A m \in Deliverable : Before(l, m)

Vector(l) == IF l \in Master THEN offset[1] + l ELSE offset[2] + l - 8

\* A non-specific end-of-interrupt command ends the first line in service of the
\* controller it is sent to.
Ended(service, lines) ==
  service \ {l \in service \cap lines : \A m \in service \cap lines : l <= m}

\* A device raises its line; requests of masked lines are remembered too.
raise(l) ==
  /\ l \notin irr
  /\ irr' = irr \cup {l}
  /\ UNCHANGED <<boot, offset, imr, isr, gates, irq_handlers, mask_read, cpu_vars>>

-----------------------------------------------------------------------------
(* pic.c *)

\* The initialisation sequence forgets what is requested and in service.  The
\* masks are read before it and written back after it.
pic_remap(o1, o2) ==
  /\ offset' = <<o1, o2>>
  /\ irr' = {}
  /\ isr' = {}
  /\ UNCHANGED imr

pic_set_mask(m, l)   == m \cup {l}
pic_clear_mask(m, l) == m \ {l}

\* The end-of-interrupt commands irq_handler sends: to the slave for its lines,
\* and to the master always.
send_eoi(irq) ==
  Ended(IF irq >= 8 THEN Ended(isr, Slave) ELSE isr, Master)

-----------------------------------------------------------------------------
(***************************************************************************)
(* kernel_main.  Interrupts are disabled since the boot loader.            *)
(***************************************************************************)
Init ==
  /\ boot = "pic_remap"
  /\ offset = <<BIOS_OFFSET1, BIOS_OFFSET2>>
  /\ \E open \in SUBSET (Devices \cup {Cascade}) : imr = Lines \ open
  /\ irr \in SUBSET Devices
  /\ isr = {}
  /\ gates = {}
  /\ irq_handlers = {}
  /\ mask_read = {}
  /\ IF_flag = FALSE
  /\ cur = None
  /\ nested = <<>>
  /\ faulted = FALSE
  /\ halted = FALSE

\* kernel_main goes from one step to the next unless it is interrupted.
at(step, next) ==
  /\ boot = step
  /\ cur = None
  /\ ~halted
  /\ boot' = next

remap ==
  /\ at("pic_remap", "mask")
  /\ pic_remap(32, 40)
  /\ UNCHANGED <<gates, irq_handlers, mask_read, cpu_vars>>

mask_all ==
  /\ at("mask", "idt_init")
  /\ imr' = UNION {pic_set_mask(imr, l) : l \in Lines}
  /\ UNCHANGED <<offset, irr, isr, gates, irq_handlers, mask_read, cpu_vars>>

\* Gates for the exceptions and for the 16 lines; lidt.
idt_init ==
  /\ at("idt_init", "pit_init")
  /\ gates' = 0 .. 47
  /\ UNCHANGED <<pic_vars, irq_handlers, mask_read, cpu_vars>>

irq_install_handler(irq) == irq_handlers' = irq_handlers \cup {irq}

\* An initialisation that does not register its handler.
pit_init_unregistered ==
  /\ at("pit_init", "keyboard_irq_init")
  /\ UNCHANGED <<pic_vars, gates, irq_handlers, mask_read, cpu_vars>>

pit_init ==
  /\ at("pit_init", "keyboard_irq_init")
  /\ irq_install_handler(Timer)
  /\ UNCHANGED <<pic_vars, gates, mask_read, cpu_vars>>

keyboard_irq_init ==
  /\ at("keyboard_irq_init", "sti")
  /\ irq_install_handler(Keyboard)
  /\ imr' = pic_clear_mask(imr, Keyboard)
  /\ UNCHANGED <<offset, irr, isr, gates, mask_read, cpu_vars>>

sti ==
  /\ at("sti", "read_mask")
  /\ IF_flag' = TRUE
  /\ UNCHANGED <<pic_vars, gates, irq_handlers, mask_read, cur, nested, faulted, halted>>

\* pic_clear_mask(0), whose read and write can now be interrupted.
read_mask ==
  /\ at("read_mask", "write_mask")
  /\ mask_read' = imr
  /\ UNCHANGED <<pic_vars, gates, irq_handlers, cpu_vars>>

write_mask ==
  /\ at("write_mask", "hlt")
  /\ imr' = pic_clear_mask(mask_read, Timer)
  /\ UNCHANGED <<offset, irr, isr, gates, irq_handlers, mask_read, cpu_vars>>

-----------------------------------------------------------------------------
(* The way of an interrupt. *)

\* Trap gates leave the flag alone.
IF_after_entry_trap == TRUE

\* All gates are interrupt gates (type 0x8E).
IF_after_entry == FALSE

\* The processor goes through the gate of vector v.
enter(v, spurious) ==
  /\ cur' = [vector |-> v, phase |-> "entered", spurious |-> spurious]
  /\ nested' = IF cur = None THEN nested ELSE Append(nested, cur)
  /\ IF_flag' = IF_after_entry

\* The processor acknowledges the first request.
take(l) ==
  /\ IF_flag
  /\ Len(nested) < MaxNesting
  /\ IsFirst(l)
  /\ irr' = irr \ {l}
  /\ isr' = isr \cup {l} \cup (IF l \in Slave THEN {Cascade} ELSE {})
  /\ enter(Vector(l), FALSE)
  /\ UNCHANGED <<boot, offset, imr, gates, irq_handlers, mask_read, faulted, halted>>

\* The shell reads the byte behind a keyboard request from port 0x60.  The
\* request goes away, unnoticed or just when the processor acknowledges it.
kb_read_scancode ==
  /\ boot = "hlt"
  /\ cur = None
  /\ ~halted
  /\ Keyboard \in irr
  /\ irr' = irr \ {Keyboard}
  /\ \/ UNCHANGED <<IF_flag, cur, nested>>
     \/ IsFirst(Keyboard) /\ IF_flag /\ enter(Vector(Spurious), TRUE)
  /\ UNCHANGED <<boot, offset, imr, isr, gates, irq_handlers, mask_read, faulted, halted>>

\* An exception of the running code, as the fault command causes them.
exception(v) ==
  /\ boot = "hlt"
  /\ cur = None
  /\ ~halted
  /\ faulted' = TRUE
  /\ enter(v, FALSE)
  /\ UNCHANGED <<boot, pic_vars, gates, irq_handlers, mask_read, halted>>

isr_handler ==
  /\ cur.phase = "entered"
  /\ cur.vector < 32
  /\ ~halted
  /\ halted' = TRUE
  /\ UNCHANGED <<boot, pic_vars, gates, irq_handlers, mask_read, IF_flag, cur, nested,
                 faulted>>

\* The handler runs, if there is one.  It may choose another task's stack for the
\* return, which changes nothing here.
irq_handler ==
  /\ cur.phase = "entered"
  /\ cur.vector \in gates
  /\ cur.vector >= 32
  /\ cur' = [cur EXCEPT !.phase = "handled"]
  /\ UNCHANGED <<boot, pic_vars, gates, irq_handlers, mask_read, IF_flag, nested, faulted,
                 halted>>

\* A bug: no command when the handler has switched tasks.
irq_handler_eoi_unless_switched ==
  /\ cur.phase = "handled"
  /\ isr' = isr \/ isr' = send_eoi(cur.vector - 32)
  /\ cur' = [cur EXCEPT !.phase = "ended"]
  /\ UNCHANGED <<boot, offset, imr, irr, gates, irq_handlers, mask_read, IF_flag, nested,
                 faulted, halted>>

irq_handler_eoi ==
  /\ cur.phase = "handled"
  /\ isr' = send_eoi(cur.vector - 32)
  /\ cur' = [cur EXCEPT !.phase = "ended"]
  /\ UNCHANGED <<boot, offset, imr, irr, gates, irq_handlers, mask_read, IF_flag, nested,
                 faulted, halted>>

\* The return, on the same or on another stack: every frame was pushed, or built
\* by task_create, with the flag set.
iretq ==
  /\ cur.phase = "ended"
  /\ cur' = IF nested = <<>> THEN None ELSE nested[Len(nested)]
  /\ nested' = IF nested = <<>> THEN <<>> ELSE SubSeq(nested, 1, Len(nested) - 1)
  /\ IF_flag' = TRUE
  /\ UNCHANGED <<boot, pic_vars, gates, irq_handlers, mask_read, faulted, halted>>

-----------------------------------------------------------------------------
kernel_main ==
  remap \/ mask_all \/ idt_init \/ pit_init \/ keyboard_irq_init \/ sti \/ read_mask
    \/ write_mask

interrupt == irq_handler \/ irq_handler_eoi \/ iretq \/ isr_handler

Next ==
  \/ kernel_main
  \/ \E l \in Devices : raise(l)
  \/ \E l \in Lines : take(l)
  \/ kb_read_scancode
  \/ \E v \in {0, 6, 14} : exception(v)
  \/ interrupt

Spec == /\ Init /\ [][Next]_vars
        /\ WF_vars(kernel_main)
        /\ WF_vars(interrupt)
        /\ WF_vars(\E l \in Lines : take(l))

-----------------------------------------------------------------------------
(***************************************************************************)
(* Properties                                                              *)
(***************************************************************************)
\* Every variable has its type.
TypeOK ==
  /\ boot \in {"pic_remap", "mask", "idt_init", "pit_init", "keyboard_irq_init", "sti",
               "read_mask", "write_mask", "hlt"}
  /\ offset \in Nat \X Nat
  /\ imr \subseteq Lines /\ irr \subseteq Lines /\ isr \subseteq Lines
  /\ gates \subseteq Nat
  /\ irq_handlers \subseteq Lines
  /\ mask_read \subseteq Lines
  /\ IF_flag \in BOOLEAN /\ faulted \in BOOLEAN /\ halted \in BOOLEAN
  /\ cur \in Interrupt \cup {None}
  /\ nested \in Seq(Interrupt)

\* Whenever the processor takes interrupts no line is in service: irq_handler has
\* ended exactly the interrupt it was called for, whether or not the stack was
\* switched in it, and its command for an interrupt whose request had gone away
\* has ended nobody else's.
NothingInService == IF_flag => isr = {}

\* No handler is ever interrupted by another one (isr.c keeps new_task_regs, and
\* task.c its list, in global variables without a lock).
HandlersNeverNest == nested = <<>>

\* Every interrupt that arrives is expected where it arrives: its vector has a
\* gate, it is not taken for an exception nobody raised, and unless its request
\* has gone away its line has a handler.
OnlyExpected ==
  cur # None =>
    /\ cur.vector \in gates
    /\ cur.vector < 32 => faulted
    /\ cur.vector >= 32 /\ ~cur.spurious => cur.vector - 32 \in irq_handlers

\* Once kernel_main is in its idle loop a tick of the timer is served, or the
\* system has been halted by an exception: no spurious interrupt, key or task
\* switch blocks the line that drives the scheduler.
TimerServed ==
  (boot = "hlt" /\ Timer \in irr) ~> (Timer \notin irr \/ faulted)

=============================================================================
