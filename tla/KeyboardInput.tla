---------------------------- MODULE KeyboardInput ----------------------------
(***************************************************************************)
(* The keyboard as the running system uses it: kernel_main enables IRQ 1,  *)
(* whose handler moves every byte into the ring buffer of keyboard_irq.c   *)
(* (module KeyboardRing), while the shell polls the controller through     *)
(* kb_getchar (keyboard.h).  Both read port 0x60.  A third task empties    *)
(* the ring buffer with kb_getchar_irq; no task of the tree does so yet,   *)
(* which is the behaviours in which this one never gets to run.            *)
(*                                                                         *)
(* Bytes are numbered in the order the keyboard sends them.  The 8042      *)
(* controller and the latch of the PIC are external: they are modelled     *)
(* from how the driver uses them.                                          *)
(***************************************************************************)
EXTENDS KeyboardRing, Sequences, SequencesExt

CONSTANT MaxKeys    \* bytes the keyboard sends: a bound for TLC

Bytes == 1 .. MaxKeys

ASSUME MaxKeysAssumption == MaxKeys \in Nat \ {0} /\ Bytes \subseteq Scancodes

VARIABLES
  data,         \* the controller's output register; keeps its value when read
  output_full,  \* KB_STATUS_OUTPUT_FULL
  irr,          \* IRQ 1 is latched in the PIC
  shell,        \* where kb_getchar is: "wait" for output, or about to "read"
  seen,         \* the bytes the shell has read (history)
  taken,        \* the bytes kb_getchar_irq has returned (history)
  dropped       \* the bytes the handler dropped (history)

port       == <<data, output_full, irr>>
input_vars == <<vars, port, shell, seen, taken, dropped>>

InputInit ==
  /\ Init
  /\ data = 0
  /\ output_full = FALSE
  /\ irr = FALSE
  /\ shell = "wait"
  /\ seen = <<>>
  /\ taken = <<>>
  /\ dropped = {}

\* The controller takes the next byte from the keyboard when its register is
\* free, and raises IRQ 1.
key ==
  /\ data < MaxKeys
  /\ ~output_full
  /\ data' = data + 1
  /\ output_full' = TRUE
  /\ irr' = TRUE
  /\ UNCHANGED <<vars, shell, seen, taken, dropped>>

\* IRQ 1: keyboard_irq_handler reads port 0x60 without looking at the status,
\* so it reads the old byte again if the shell was faster.
irq1 ==
  /\ irr
  /\ irr' = FALSE
  /\ output_full' = FALSE
  /\ keyboard_irq_handler(data)
  /\ dropped' = IF overrun' THEN dropped \cup {data} ELSE dropped
  /\ UNCHANGED <<data, shell, seen, taken>>

irq0 == timer_irq /\ UNCHANGED <<port, shell, seen, taken, dropped>>

\* The task that reads the ring buffer.
ring_task ==
  /\ kb_getchar_irq
  /\ taken' = IF reader = "advance" THEN Append(taken, got') ELSE taken
  /\ UNCHANGED <<port, shell, seen, dropped>>

\* A reader that does not wait for output before it reads.
kb_wait_output_none ==
  /\ shell = "wait"
  /\ data # 0
  /\ shell' = "read"
  /\ UNCHANGED <<vars, port, seen, taken, dropped>>

\* One round of the status loop.  When the loop gives up, kb_read_scancode
\* returns 0, kb_scancode_to_ascii finds no character for it and kb_getchar
\* starts over: only a round that finds a byte changes anything.
kb_wait_output ==
  /\ shell = "wait"
  /\ output_full
  /\ shell' = "read"
  /\ UNCHANGED <<vars, port, seen, taken, dropped>>

\* A driver that throws the byte away.
kb_read_scancode_discards ==
  /\ shell = "read"
  /\ shell' = "wait"
  /\ output_full' = FALSE
  /\ irr' = FALSE
  /\ UNCHANGED <<vars, data, seen, taken, dropped>>

\* The shell reads port 0x60.  An interrupt may have come since the test; a
\* latched one survives the read or is withdrawn with the full register.
kb_read_scancode ==
  /\ shell = "read"
  /\ shell' = "wait"
  /\ seen' = Append(seen, data)
  /\ output_full' = FALSE
  /\ irr' \in {irr, FALSE}
  /\ UNCHANGED <<vars, data, taken, dropped>>

kb_getchar == kb_wait_output \/ kb_read_scancode

InputNext == key \/ irq1 \/ irq0 \/ ring_task \/ kb_getchar

\* The two tasks are scheduled again and again, the timer is periodic, and a
\* latched interrupt is taken since every task runs with interrupts enabled.
\* Nothing is assumed of the keyboard: a key may never be pressed.
InputSpec ==
  /\ InputInit
  /\ [][InputNext]_input_vars
  /\ WF_input_vars(irq1)
  /\ WF_input_vars(irq0)
  /\ WF_input_vars(ring_task)
  /\ WF_input_vars(kb_getchar)

-----------------------------------------------------------------------------
(***************************************************************************)
(* Properties                                                              *)
(***************************************************************************)
StrictlyIncreasing(s) == \A i, j \in 1 .. Len(s) : i < j => s[i] < s[j]

\* What has gone through the ring buffer or is still in it.
Ringed == taken \o Contents

\* The two readers of port 0x60 race for every byte, and a byte can be read by
\* both; but neither the shell nor, through the ring buffer, the task that calls
\* kb_getchar_irq ever gets a byte twice, out of order, or one that was not sent.
NoRepeats ==
  /\ StrictlyIncreasing(seen) /\ ToSet(seen) \subseteq 1 .. data
  /\ StrictlyIncreasing(Ringed) /\ ToSet(Ringed) \subseteq 1 .. data

\* No byte vanishes between the two: one that has left the controller was read by
\* the shell, is in the ring buffer or has left it through kb_getchar_irq, or was
\* dropped because the buffer was full.
NoByteVanishes ==
  \A b \in 1 .. data :
    b \in ToSet(seen) \cup ToSet(Ringed) \cup dropped \/ (b = data /\ output_full)

=============================================================================
