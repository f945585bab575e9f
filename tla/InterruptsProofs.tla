--------------------------- MODULE InterruptsProofs ---------------------------
(***************************************************************************)
(* Proofs about the interrupts, for every set of devices and whatever the  *)
(* BIOS has left in the controllers.                                       *)
(*                                                                         *)
(* The three safety properties of Interrupts follow from two facts that    *)
(* are inductive together: what kernel_main has set up when it is at a     *)
(* given step (Configured), and what an interrupt in progress has left in  *)
(* service (InProgress).                                                   *)
(***************************************************************************)
EXTENDS Interrupts, TLAPS

\* Interrupts are enabled from here on, except inside an interrupt.
Live == boot \in {"read_mask", "write_mask", "hlt"}

\* Only lines with a handler are ever open, and they are the timer's and the
\* keyboard's; the gates and the vectors are in place before the first one is.
Configured ==
  /\ boot # "pic_remap" => offset = <<32, 40>>
  /\ boot \notin {"pic_remap", "mask", "idt_init"} => gates = 0 .. 47
  /\ boot \notin {"pic_remap", "mask"} =>
       \A l \in Lines \ imr : l \in {Timer, Keyboard} /\ l \in irq_handlers
  /\ boot \in {"keyboard_irq_init", "sti"} \/ Live => Timer \in irq_handlers
  /\ boot = "write_mask" => mask_read = imr

\* One interrupt at most, with its own line in service until irq_handler ends it.
InProgress ==
  /\ nested = <<>>
  /\ IF_flag <=> Live /\ cur = None
  /\ cur = None => isr = {}
  /\ cur # None =>
       /\ Live
       /\ cur.vector \in 0 .. 47
       /\ cur.vector < 32 => faulted /\ cur.phase = "entered" /\ isr = {}
       /\ cur.vector >= 32 /\ cur.spurious => cur.vector = 39 /\ isr = {}
       /\ cur.vector >= 32 /\ ~cur.spurious =>
            /\ cur.vector - 32 \in {Timer, Keyboard}
            /\ cur.vector - 32 \in irq_handlers
            /\ isr = IF cur.phase = "ended" THEN {} ELSE {cur.vector - 32}

IInv == TypeOK /\ Configured /\ InProgress

USE DevicesAssumption, OffsetAssumption, NestingAssumption
USE DEF Timer, Keyboard, Cascade, Spurious, Master, Slave, Lines

-----------------------------------------------------------------------------
(* The controllers. *)

\* What is delivered was requested, is not masked, and comes before all else.
LEMMA DeliveredIsOpen == \A l : IsFirst(l) => l \in irr \ imr
BY DEF IsFirst, Deliverable

\* With one line of the master in service, or none, irq_handler's commands leave
\* nothing in service.
LEMMA EoiEndsAll ==
  ASSUME NEW irq \in 0 .. 7, isr \subseteq {irq}
  PROVE  send_eoi(irq) = {}
<1>1. send_eoi(irq) = Ended(isr, Master)
  BY DEF send_eoi
<1>2. \A l \in isr : l = irq
  OBVIOUS
<1>3. \A l \in isr : l \in Master /\ (\A m \in isr \cap Master : l <= m)
  BY <1>2
<1>4. Ended(isr, Master) = {}
  BY <1>3 DEF Ended
<1> QED
  BY <1>1, <1>4

-----------------------------------------------------------------------------
(* The initial state. *)

LEMMA InitIInv == Init => IInv
<1> SUFFICES ASSUME Init PROVE IInv
  OBVIOUS
<1>1. TypeOK
  <2>1. imr \subseteq Lines /\ irr \subseteq Lines
    BY DEF Init
  <2>2. nested \in Seq(Interrupt)
    BY DEF Init
  <2> QED
    BY <2>1, <2>2 DEF Init, TypeOK
<1>2. Configured
  BY DEF Init, Configured, Live
<1>3. InProgress
  BY DEF Init, InProgress, Live, None
<1> QED
  BY <1>1, <1>2, <1>3 DEF IInv

-----------------------------------------------------------------------------
(* kernel_main. *)

LEMMA KernelMainStep == IInv /\ kernel_main => IInv'
<1> SUFFICES ASSUME IInv, kernel_main PROVE IInv'
  OBVIOUS
<1> USE DEF IInv, at, Live, pic_vars, cpu_vars
<1>1. CASE remap
  <2>1. TypeOK'
    BY <1>1 DEF remap, pic_remap, TypeOK
  <2>2. Configured'
    BY <1>1 DEF remap, pic_remap, Configured
  <2>3. InProgress'
    BY <1>1 DEF remap, pic_remap, InProgress
  <2> QED
    BY <2>1, <2>2, <2>3
<1>2. CASE mask_all
  <2>1. imr' = Lines
    <3>1. imr \subseteq Lines
      BY DEF TypeOK
    <3>2. imr' = UNION {imr \cup {l} : l \in Lines}
      BY <1>2, Zenon DEF mask_all, pic_set_mask
    <3>3. \A x \in imr' : x \in Lines
      BY <3>1, <3>2
    <3>4. ASSUME NEW x \in Lines PROVE x \in imr'
      BY <3>2, <3>4
    <3> QED
      BY <3>3, <3>4
  <2>2. TypeOK'
    BY <1>2, <2>1 DEF mask_all, TypeOK
  <2>3. Configured'
    BY <1>2, <2>1 DEF mask_all, Configured
  <2>4. InProgress'
    BY <1>2 DEF mask_all, InProgress
  <2> QED
    BY <2>2, <2>3, <2>4
<1>3. CASE idt_init
  <2>1. TypeOK'
    BY <1>3 DEF idt_init, TypeOK
  <2>2. Configured'
    BY <1>3 DEF idt_init, Configured
  <2>3. InProgress'
    BY <1>3 DEF idt_init, InProgress
  <2> QED
    BY <2>1, <2>2, <2>3
<1>4. CASE pit_init
  <2>1. TypeOK'
    BY <1>4 DEF pit_init, irq_install_handler, TypeOK
  <2>2. Configured'
    BY <1>4 DEF pit_init, irq_install_handler, Configured
  <2>3. InProgress'
    BY <1>4 DEF pit_init, InProgress
  <2> QED
    BY <2>1, <2>2, <2>3
<1>5. CASE keyboard_irq_init
  <2>1. TypeOK'
    BY <1>5 DEF keyboard_irq_init, irq_install_handler, pic_clear_mask, TypeOK
  <2>2. Configured'
    BY <1>5 DEF keyboard_irq_init, irq_install_handler, pic_clear_mask, Configured
  <2>3. InProgress'
    BY <1>5 DEF keyboard_irq_init, InProgress
  <2> QED
    BY <2>1, <2>2, <2>3
<1>6. CASE sti
  <2>1. TypeOK'
    BY <1>6 DEF sti, TypeOK
  <2>2. Configured'
    BY <1>6 DEF sti, Configured
  <2>3. InProgress'
    BY <1>6 DEF sti, InProgress
  <2> QED
    BY <2>1, <2>2, <2>3
<1>7. CASE read_mask
  <2>1. TypeOK'
    BY <1>7 DEF read_mask, TypeOK
  <2>2. Configured'
    BY <1>7 DEF read_mask, Configured
  <2>3. InProgress'
    BY <1>7 DEF read_mask, InProgress
  <2> QED
    BY <2>1, <2>2, <2>3
<1>8. CASE write_mask
  <2>1. TypeOK'
    BY <1>8 DEF write_mask, pic_clear_mask, TypeOK
  <2>2. Configured'
    BY <1>8 DEF write_mask, pic_clear_mask, Configured
  <2>3. InProgress'
    BY <1>8 DEF write_mask, InProgress
  <2> QED
    BY <2>1, <2>2, <2>3
<1> QED
  BY <1>1, <1>2, <1>3, <1>4, <1>5, <1>6, <1>7, <1>8 DEF kernel_main

-----------------------------------------------------------------------------
(* The way of an interrupt. *)

\* None of these steps touches what kernel_main has set up.
LEMMA ConfiguredKept ==
  ASSUME Configured, UNCHANGED <<boot, offset, imr, gates, irq_handlers, mask_read>>
  PROVE  Configured'
BY DEF Configured, Live

LEMMA InterruptStep ==
  ASSUME IInv,
         \/ \E l \in Devices : raise(l)
         \/ \E l \in Lines : take(l)
         \/ kb_read_scancode
         \/ \E v \in {0, 6, 14} : exception(v)
         \/ interrupt
  PROVE  IInv'
<1> USE DEF IInv, Live, pic_vars, cpu_vars
<1>0. Configured'
  BY ConfiguredKept DEF raise, take, kb_read_scancode, exception, interrupt, irq_handler,
     irq_handler_eoi, iretq, isr_handler
<1>1. ASSUME NEW l \in Devices, raise(l) PROVE IInv'
  <2>1. TypeOK'
    BY <1>1 DEF raise, TypeOK
  <2>2. InProgress'
    BY <1>1 DEF raise, InProgress
  <2> QED
    BY <1>0, <2>1, <2>2
<1>2. ASSUME NEW l \in Lines, take(l) PROVE IInv'
  <2>1. cur = None /\ isr = {} /\ boot \in {"read_mask", "write_mask", "hlt"}
    BY <1>2 DEF take, InProgress
  <2>2. l \in {Timer, Keyboard} /\ l \in irq_handlers
    BY <1>2, <2>1, DeliveredIsOpen DEF take, Configured
  <2>3. Vector(l) = 32 + l
    BY <2>1, <2>2 DEF Vector, Configured
  <2>4. /\ isr' = {l}
        /\ cur' = [vector |-> 32 + l, phase |-> "entered", spurious |-> FALSE]
        /\ nested' = nested
        /\ IF_flag' = FALSE
    BY <1>2, <2>1, <2>2, <2>3 DEF take, enter, IF_after_entry
  <2>5. cur' # None
    BY <2>4 DEF None
  <2>6. cur' \in Interrupt
    BY <2>2, <2>4 DEF Interrupt
  <2>7. TypeOK'
    BY <1>2, <2>2, <2>4, <2>6 DEF take, TypeOK
  <2>8. InProgress'
    BY <1>2, <2>1, <2>2, <2>4, <2>5 DEF take, InProgress
  <2> QED
    BY <1>0, <2>7, <2>8
<1>3. CASE kb_read_scancode
  <2>1. CASE UNCHANGED <<IF_flag, cur, nested>>
    <3>1. TypeOK'
      BY <1>3, <2>1 DEF kb_read_scancode, TypeOK
    <3>2. InProgress'
      BY <1>3, <2>1 DEF kb_read_scancode, InProgress
    <3> QED
      BY <1>0, <3>1, <3>2
  <2>2. CASE enter(Vector(Spurious), TRUE)
    <3>1. Vector(Spurious) = 39
      BY <1>3 DEF kb_read_scancode, Vector, Configured
    <3>2. /\ cur' = [vector |-> 39, phase |-> "entered", spurious |-> TRUE]
          /\ nested' = nested
          /\ IF_flag' = FALSE
      BY <1>3, <2>2, <3>1 DEF kb_read_scancode, enter, IF_after_entry
    <3>3. cur' # None
      BY <3>2 DEF None
    <3>4. TypeOK'
      BY <1>3, <3>2 DEF kb_read_scancode, TypeOK, Interrupt
    <3>5. InProgress'
      BY <1>3, <3>2, <3>3 DEF kb_read_scancode, InProgress
    <3> QED
      BY <1>0, <3>4, <3>5
  <2> QED
    BY <1>3, <2>1, <2>2 DEF kb_read_scancode
<1>4. ASSUME NEW v \in {0, 6, 14}, exception(v) PROVE IInv'
  <2>1. /\ cur' = [vector |-> v, phase |-> "entered", spurious |-> FALSE]
        /\ nested' = nested
        /\ IF_flag' = FALSE
    BY <1>4 DEF exception, enter, IF_after_entry
  <2>2. cur' # None
    BY <2>1 DEF None
  <2>3. cur' \in Interrupt
    BY <2>1 DEF Interrupt
  <2>4. TypeOK'
    BY <1>4, <2>1, <2>3 DEF exception, TypeOK
  <2>5. InProgress'
    BY <1>4, <2>1, <2>2 DEF exception, InProgress
  <2> QED
    BY <1>0, <2>4, <2>5
<1>5. CASE isr_handler
  <2>1. TypeOK'
    BY <1>5 DEF isr_handler, TypeOK
  <2>2. InProgress'
    BY <1>5 DEF isr_handler, InProgress
  <2> QED
    BY <1>0, <2>1, <2>2
<1>6. CASE irq_handler
  <2>1. cur # None /\ cur \in Interrupt
    BY <1>6 DEF irq_handler, None, TypeOK
  <2>2. /\ cur' = [vector |-> cur.vector, phase |-> "handled", spurious |-> cur.spurious]
        /\ cur' \in Interrupt
    BY <1>6, <2>1 DEF irq_handler, Interrupt
  <2>3. cur' # None
    BY <2>2 DEF None
  <2>4. TypeOK'
    BY <1>6, <2>2 DEF irq_handler, TypeOK
  <2>5. InProgress'
    BY <1>6, <2>1, <2>2, <2>3 DEF irq_handler, InProgress
  <2> QED
    BY <1>0, <2>4, <2>5
<1>7. CASE irq_handler_eoi
  <2>1. cur # None /\ cur \in Interrupt
    BY <1>7 DEF irq_handler_eoi, None, TypeOK
  <2>2. cur.vector - 32 \in 0 .. 7 /\ isr \subseteq {cur.vector - 32}
    BY <1>7, <2>1 DEF irq_handler_eoi, InProgress, Interrupt
  <2>3. isr' = {}
    BY <1>7, <2>2, EoiEndsAll DEF irq_handler_eoi
  <2>4. /\ cur' = [vector |-> cur.vector, phase |-> "ended", spurious |-> cur.spurious]
        /\ cur' \in Interrupt
    BY <1>7, <2>1 DEF irq_handler_eoi, Interrupt
  <2>5. cur' # None
    BY <2>4 DEF None
  <2>6. TypeOK'
    BY <1>7, <2>3, <2>4 DEF irq_handler_eoi, TypeOK
  <2>7. InProgress'
    BY <1>7, <2>1, <2>2, <2>3, <2>4, <2>5 DEF irq_handler_eoi, InProgress
  <2> QED
    BY <1>0, <2>6, <2>7
<1>8. CASE iretq
  <2>1. cur # None
    BY <1>8 DEF iretq, None
  <2>2. cur' = None /\ nested' = <<>>
    BY <1>8 DEF iretq, InProgress
  <2>3. isr = {}
    <3>1. cur.vector \in 0 .. 47 /\ cur.phase = "ended"
      BY <1>8, <2>1 DEF iretq, InProgress
    <3>2. cur.vector < 32 => cur.phase = "entered"
      BY <2>1 DEF InProgress
    <3>3. cur.vector >= 32
      BY <3>1, <3>2
    <3> QED
      BY <2>1, <3>1, <3>3 DEF InProgress
  <2>4. TypeOK'
    BY <1>8, <2>2 DEF iretq, TypeOK
  <2>5. InProgress'
    BY <1>8, <2>1, <2>2, <2>3 DEF iretq, InProgress
  <2> QED
    BY <1>0, <2>4, <2>5
<1> QED
  BY <1>1, <1>2, <1>3, <1>4, <1>5, <1>6, <1>7, <1>8 DEF interrupt

-----------------------------------------------------------------------------
(* The theorems. *)

LEMMA StutterIInv == IInv /\ UNCHANGED vars => IInv'
<1> SUFFICES ASSUME IInv, UNCHANGED vars PROVE IInv'
  OBVIOUS
<1> USE DEF IInv, vars, pic_vars, cpu_vars
<1>1. TypeOK'
  BY DEF TypeOK
<1>2. Configured'
  BY ConfiguredKept
<1>3. InProgress'
  BY DEF InProgress, Live
<1> QED
  BY <1>1, <1>2, <1>3

LEMMA Invariance == Spec => []IInv
<1>1. IInv /\ [Next]_vars => IInv'
  BY KernelMainStep, InterruptStep, StutterIInv DEF Next
<1> QED
  BY InitIInv, <1>1, PTL DEF Spec

\* Whatever the devices do, and whether or not tasks are switched, irq_handler
\* leaves nothing in service: no interrupt can block a later one.
THEOREM ServiceEnds == Spec => []NothingInService
<1>1. IInv => NothingInService
  BY DEF IInv, InProgress, NothingInService
<1> QED
  BY Invariance, <1>1, PTL

\* The handlers, and with them the scheduler, are never re-entered.
THEOREM NoNesting == Spec => []HandlersNeverNest
<1>1. IInv => HandlersNeverNest
  BY DEF IInv, InProgress, HandlersNeverNest
<1> QED
  BY Invariance, <1>1, PTL

\* From the first instruction of kernel_main on, no interrupt arrives without a
\* gate, as an exception, or on a line without a handler.
THEOREM NothingUnexpected == Spec => []OnlyExpected
<1>1. IInv => OnlyExpected
  BY DEF IInv, Configured, InProgress, Live, OnlyExpected
<1> QED
  BY Invariance, <1>1, PTL
=============================================================================
