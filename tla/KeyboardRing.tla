----------------------------- MODULE KeyboardRing -----------------------------
(***************************************************************************)
(* The interrupt-driven half of the keyboard driver, keyboard_irq.c: the   *)
(* IRQ 1 handler fills a ring buffer that one task empties with            *)
(* kb_getchar_irq, without ever disabling interrupts.                      *)
(*                                                                         *)
(* The handler runs with IF clear, so it is one step.  The reader is cut   *)
(* at every access to the shared indices, and between its test and its hlt.*)
(***************************************************************************)
EXTENDS Integers

CONSTANTS
  KB_BUFFER_SIZE,   \* slots of kb_buffer (256 in keyboard_irq.c)
  Scancodes         \* the bytes the keyboard sends; 0 is not one of them

ASSUME BufferSizeAssumption == KB_BUFFER_SIZE \in Nat \ {0, 1}
ASSUME ScancodesAssumption  == Scancodes \subseteq Nat \ {0}

Slots == 0 .. KB_BUFFER_SIZE - 1

VARIABLES
  kb_buffer, kb_buffer_read, kb_buffer_write,
  reader,     \* where kb_getchar_irq is
  scancode,   \* its local copy of the slot it has read
  got,        \* the scancode it returned last (history)
  overrun     \* whether the latest interrupt found the buffer full (history)

buffer_vars == <<kb_buffer, kb_buffer_read, kb_buffer_write>>
vars == <<buffer_vars, reader, scancode, got, overrun>>

\* keyboard_irq_init, on the zeroed buffer of the bss segment.
Init ==
  /\ kb_buffer = [i \in Slots |-> 0]
  /\ kb_buffer_read = 0
  /\ kb_buffer_write = 0
  /\ reader = "check"
  /\ scancode = 0
  /\ got = 0
  /\ overrun = FALSE

\* (i + 1) % KB_BUFFER_SIZE, for a slot i.
next_slot(i) == IF i + 1 = KB_BUFFER_SIZE THEN 0 ELSE i + 1

kb_irq_has_scancode == kb_buffer_read # kb_buffer_write

\* An interrupt ends a hlt: the loop around it tests again.
Woken == IF reader = "halted" THEN "check" ELSE reader

-----------------------------------------------------------------------------
\* A handler that does not look for room.
keyboard_irq_handler_unchecked(c) ==
  /\ kb_buffer' = [kb_buffer EXCEPT ![kb_buffer_write] = c]
  /\ kb_buffer_write' = next_slot(kb_buffer_write)
  /\ overrun' = FALSE
  /\ reader' = Woken
  /\ UNCHANGED <<kb_buffer_read, scancode, got>>

keyboard_irq_handler(c) ==
  LET next_write == next_slot(kb_buffer_write) IN
  /\ IF next_write # kb_buffer_read
       THEN /\ kb_buffer' = [kb_buffer EXCEPT ![kb_buffer_write] = c]
            /\ kb_buffer_write' = next_write
            /\ overrun' = FALSE
       ELSE /\ overrun' = TRUE
            /\ UNCHANGED <<kb_buffer, kb_buffer_write>>
  /\ reader' = Woken
  /\ UNCHANGED <<kb_buffer_read, scancode, got>>

\* A timer that is masked.
timer_irq_masked == UNCHANGED vars

\* The timer interrupt does not touch the buffer, but it ends a hlt too.
timer_irq ==
  /\ reader' = Woken
  /\ UNCHANGED <<buffer_vars, scancode, got, overrun>>

-----------------------------------------------------------------------------
(* kb_getchar_irq: while (!kb_irq_has_scancode()) hlt; ... *)

check ==
  /\ reader = "check"
  /\ reader' = IF kb_irq_has_scancode THEN "fetch" ELSE "hlt"
  /\ UNCHANGED <<buffer_vars, scancode, got, overrun>>

\* An interrupt that came since the test does not end this hlt.
hlt ==
  /\ reader = "hlt"
  /\ reader' = "halted"
  /\ UNCHANGED <<buffer_vars, scancode, got, overrun>>

(* ... kb_irq_get_scancode, which copies the slot and then frees it. *)

fetch ==
  /\ reader = "fetch"
  /\ IF kb_irq_has_scancode
       THEN scancode' = kb_buffer[kb_buffer_read] /\ reader' = "advance"
       ELSE scancode' = 0 /\ reader' = "check"
  /\ UNCHANGED <<buffer_vars, got, overrun>>

\* An increment without the wrap.
advance_unwrapped ==
  /\ reader = "advance"
  /\ kb_buffer_read' = kb_buffer_read + 1
  /\ got' = scancode
  /\ reader' = "check"
  /\ UNCHANGED <<kb_buffer, kb_buffer_write, scancode, overrun>>

advance ==
  /\ reader = "advance"
  /\ kb_buffer_read' = next_slot(kb_buffer_read)
  /\ got' = scancode
  /\ reader' = "check"
  /\ UNCHANGED <<kb_buffer, kb_buffer_write, scancode, overrun>>

-----------------------------------------------------------------------------
kb_getchar_irq == check \/ hlt \/ fetch \/ advance

Next ==
  \/ \E c \in Scancodes : keyboard_irq_handler(c)
  \/ timer_irq
  \/ kb_getchar_irq

\* The reader is scheduled again and again, and the timer is periodic.  Nothing
\* is assumed of the keyboard: a key may never be pressed.
Spec ==
  /\ Init
  /\ [][Next]_vars
  /\ WF_vars(kb_getchar_irq)
  /\ WF_vars(timer_irq)

-----------------------------------------------------------------------------
(***************************************************************************)
(* Properties                                                              *)
(***************************************************************************)
\* The indices stay inside the buffer whatever the interleaving.
TypeOK ==
  /\ kb_buffer \in [Slots -> Scancodes \cup {0}]
  /\ kb_buffer_read \in Slots
  /\ kb_buffer_write \in Slots
  /\ reader \in {"check", "hlt", "halted", "fetch", "advance"}
  /\ scancode \in Scancodes \cup {0}
  /\ got \in Scancodes \cup {0}
  /\ overrun \in BOOLEAN

\* Between copying a slot and advancing the read index the reader can be
\* interrupted any number of times: the slot it has copied is not overwritten
\* and the buffer does not look empty meanwhile.
CopyStaysCurrent ==
  reader = "advance" =>
    kb_irq_has_scancode /\ scancode = kb_buffer[kb_buffer_read]

\* Number of scancodes in the buffer, and the scancodes from the oldest on.
Count == IF kb_buffer_write >= kb_buffer_read
           THEN kb_buffer_write - kb_buffer_read
           ELSE kb_buffer_write - kb_buffer_read + KB_BUFFER_SIZE
SlotOf(k) == IF kb_buffer_read + k - 1 < KB_BUFFER_SIZE
               THEN kb_buffer_read + k - 1
               ELSE kb_buffer_read + k - 1 - KB_BUFFER_SIZE
Contents == [k \in 1 .. Count |-> kb_buffer[SlotOf(k)]]

Queue == INSTANCE ScancodeQueue WITH
           queue <- Contents, Capacity <- KB_BUFFER_SIZE - 1

\* The ring buffer implements the bounded queue: a scancode is dropped only when
\* KB_BUFFER_SIZE - 1 of them are waiting, and the others are returned once each
\* and in order, although handler and reader share the indices without a lock.
ImplementsQueue == Queue!Spec

\* A waiting scancode is fetched: the interrupt that falls between the reader's
\* test and its hlt does not leave it asleep, since the timer wakes it.
ReaderNotStuck == kb_irq_has_scancode ~> reader = "advance"

=============================================================================
