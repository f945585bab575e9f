---------------------------- MODULE ScancodeQueue ----------------------------
(***************************************************************************)
(* What the keyboard ring buffer promises: a bounded first-in first-out    *)
(* queue of scancodes.  A scancode that arrives is queued if there is      *)
(* room and dropped only if there is none; the reader gets every queued    *)
(* scancode once, in the order of arrival.                                 *)
(***************************************************************************)
EXTENDS Naturals, Sequences

CONSTANTS Scancodes, Capacity

VARIABLES
  queue,     \* the scancodes waiting
  overrun,   \* whether the latest arrival was dropped
  got        \* the scancode the reader took last, 0 before the first

vars == <<queue, overrun, got>>

Init == queue = <<>> /\ overrun = FALSE /\ got = 0

Put(c) ==
  /\ Len(queue) < Capacity
  /\ queue' = Append(queue, c)
  /\ overrun' = FALSE
  /\ UNCHANGED got

Drop ==
  /\ Len(queue) = Capacity
  /\ overrun' = TRUE
  /\ UNCHANGED <<queue, got>>

Get ==
  /\ queue # <<>>
  /\ got' = Head(queue)
  /\ queue' = Tail(queue)
  /\ UNCHANGED overrun

Next == (\E c \in Scancodes : Put(c)) \/ Drop \/ Get

Spec == Init /\ [][Next]_vars
=============================================================================
