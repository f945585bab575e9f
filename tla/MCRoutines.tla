------------------------------ MODULE MCRoutines ------------------------------
(* The sequential routines that share no state with the rest of the kernel: *)
(* a behaviour is one call of a function of string.h, while the clock stands *)
(* still, or time commands, after a call of strlen has returned.             *)
EXTENDS Strings, MCClock

VARIABLE subject    \* what the behaviour is about

ClockAtRest ==
  /\ now = [second |-> 9, minute |-> 8, hour |-> 0, day |-> 9, month |-> 1, year |-> 8]
  /\ regB = [binary |-> TRUE, h24 |-> TRUE]
  /\ uip = FALSE /\ ticks = 0
  /\ next = 0 /\ read = [f \in Field |-> 0] /\ shown = << >>
  /\ start = now /\ since = "still"

StrlenReturned ==
  /\ mem = [k \in Cells |-> 0] /\ before = mem
  /\ call = [fn |-> "strlen", p |-> 0, q |-> 0, n |-> 0]
  /\ d = 0 /\ s = 0 /\ n = 0 /\ pc = "done" /\ ret = 0

MCInit ==
  \/ subject = "string.h" /\ Init /\ ClockAtRest
  \/ subject = "time"     /\ ClockInit /\ StrlenReturned

MCNext ==
  \/ subject = "string.h" /\ Next      /\ UNCHANGED <<clock_vars, subject>>
  \/ subject = "time"     /\ ClockNext /\ UNCHANGED <<vars, subject>>

MCSpec == MCInit /\ [][MCNext]_<<vars, clock_vars, subject>>
=============================================================================
