-------------------------------- MODULE Clock --------------------------------
(***************************************************************************)
(* The time command (commands/time.c) reading the CMOS clock one register  *)
(* at a time, while the clock goes on and other tasks may run in between   *)
(* for any length of time.                                                 *)
(*                                                                         *)
(* The clock is external.  It announces an update in bit 7 of register A   *)
(* and then changes all its registers at once, as the emulators do that    *)
(* the makefile runs the kernel on; register B, set by the firmware, says  *)
(* whether it counts in BCD or binary and in 12 or 24 hours.               *)
(***************************************************************************)
EXTENDS Integers, Sequences, FiniteSetsExt

CONSTANTS
  Instants,   \* the dates and times a behaviour may start at
  MaxTicks    \* bound on the seconds that pass

Registers == <<"second", "minute", "hour", "day", "month", "year">>
Field     == {Registers[i] : i \in DOMAIN Registers}

VARIABLES
  now,     \* the date and time the clock keeps
  regB,    \* [binary, h24 : BOOLEAN]: bits 2 and 1 of register B
  uip,     \* bit 7 of register A
  ticks,   \* seconds passed, up to MaxTicks
  next,    \* 0: waiting for uip to clear; i: about to read Registers[i]
  read,    \* the bytes read so far
  shown,   \* the digits printed for each field; << >> before
  start,   \* the time when uip was found clear (history)
  since    \* whether the clock has "moved" since, or begun a new "century" (history)

rtc  == <<now, regB, uip, ticks>>
clock_vars == <<rtc, next, read, shown, start, since>>

-----------------------------------------------------------------------------
(* The clock.                                                              *)

Limit(t) ==
  [second |-> 59, minute |-> 59, hour |-> 23, month |-> 12, year |-> 99,
   day |-> CASE t.month = 2 -> IF t.year % 4 = 0 THEN 29 ELSE 28
             [] t.month \in {4, 6, 9, 11} -> 30
             [] OTHER -> 31]
Least(f) == IF f \in {"day", "month"} THEN 1 ELSE 0

\* The dates and times there are.
Times == {t \in [Field -> Nat] : \A f \in Field : t[f] \in Least(f) .. Limit(t)[f]}

ASSUME InstantsAssumption == Instants \subseteq Times

\* One second later: a field moves on when all the ones before it are full.
Later(t) ==
  LET full(i) == t[Registers[i]] = Limit(t)[Registers[i]]
      carry   == Min({i \in DOMAIN Registers : ~ full(i)} \cup {7})
      place   == [f \in Field |-> CHOOSE i \in DOMAIN Registers : Registers[i] = f]
  IN  [f \in Field |-> CASE place[f] < carry -> Least(f)
                         [] place[f] = carry -> t[f] + 1
                         [] OTHER            -> t[f]]

update_begins ==
  /\ ticks < MaxTicks /\ ~ uip
  /\ uip' = TRUE
  /\ UNCHANGED <<now, regB, ticks, next, read, shown, start, since>>

update_ends ==
  /\ uip
  /\ uip' = FALSE
  /\ now' = Later(now)
  /\ ticks' = ticks + 1
  /\ since' = IF now'.year < now.year THEN "century"
              ELSE IF since = "still" THEN "moved" ELSE since
  /\ UNCHANGED <<regB, next, read, shown, start>>

\* The bytes in the registers: bit 7 of a 12-hour clock's hour is PM, and
\* its hours are 12, 1, ..., 11.
Coded(v) == IF regB.binary THEN v ELSE 16 * (v \div 10) + (v % 10)
Hours(h) ==
  IF regB.h24 THEN Coded(h)
  ELSE Coded(IF h % 12 = 0 THEN 12 ELSE h % 12) + (IF h >= 12 THEN 128 ELSE 0)

cmos_read(f) == IF f = "hour" THEN Hours(now.hour) ELSE Coded(now[f])

-----------------------------------------------------------------------------
(* The command.                                                            *)

ClockInit ==
  /\ now \in Instants
  /\ regB \in [binary : BOOLEAN, h24 : BOOLEAN]
  /\ uip = FALSE
  /\ ticks = 0
  /\ next = 0
  /\ read = [f \in Field |-> 0]
  /\ shown = << >>
  /\ start = now
  /\ since = "still"

\* The loop on register A; it is left when no update is announced.
wait ==
  /\ next = 0
  /\ ~ uip
  /\ next' = 1
  /\ start' = now
  /\ since' = "still"
  /\ shown' = << >>
  /\ UNCHANGED <<rtc, read>>

\* A bug: the registers are read from the year down to the second.
read_register_down ==
  /\ next \in DOMAIN Registers
  /\ LET f == Registers[7 - next] IN read' = [read EXCEPT ![f] = cmos_read(f)]
  /\ next' = next + 1
  /\ UNCHANGED <<rtc, shown, start, since>>

read_register ==
  /\ next \in DOMAIN Registers
  /\ LET f == Registers[next] IN read' = [read EXCEPT ![f] = cmos_read(f)]
  /\ next' = next + 1
  /\ UNCHANGED <<rtc, shown, start, since>>

bcd_to_bin(bcd) == (bcd \div 16) * 10 + (bcd % 16)

\* A bug: the PM bit is decoded as if it were a digit.
decoded_pm(f) ==
  IF regB.binary THEN read[f] ELSE bcd_to_bin(read[f]) % 256

\* The value of a field, in binary; an hour keeps its PM bit.
decoded(f) ==
  IF regB.binary THEN read[f]
  ELSE IF f = "hour" THEN bcd_to_bin(read[f] % 128) + 128 * (read[f] \div 128)
  ELSE bcd_to_bin(read[f])

\* A 12-hour clock's hour in 24 hours.
hour24(h) == IF ~ regB.h24 /\ h >= 128 THEN ((h % 128) + 12) % 24 ELSE h

\* The digits of a byte, and two of them at least.
vga_print_dec(v) ==
  CASE v < 10  -> <<v>>
    [] v < 100 /\ v >= 10 -> <<v \div 10, v % 10>>
    [] v >= 100 -> <<v \div 100, (v \div 10) % 10, v % 10>>
print_padded(v) == IF v < 10 THEN <<0>> \o vga_print_dec(v) ELSE vga_print_dec(v)

show ==
  /\ next = 7
  /\ shown' = [f \in Field |->
                 print_padded(IF f = "hour" THEN hour24(decoded(f)) ELSE decoded(f))]
  /\ next' = 0
  /\ UNCHANGED <<rtc, read, start, since>>

cmd_time == wait \/ read_register \/ show

ClockNext == cmd_time \/ update_begins \/ update_ends

ClockSpec == ClockInit /\ [][ClockNext]_clock_vars

-----------------------------------------------------------------------------
(* Properties.                                                             *)

Digits(v) == <<v \div 10, v % 10>>

\* The hour of a 12-hour clock between 12 and 1 o'clock.
TwelveOClock(f) == f = "hour" /\ ~ regB.h24 /\ now.hour \in {0, 12}

\* If the clock has not moved since the command found no update announced,
\* the date and time on the screen are the clock's, whichever way it counts.
\* Nothing is said here of the hour when a 12-hour clock shows 12: see
\* ShowsTheTime.
QuietIsRight ==
  shown # << >> /\ since = "still" =>
    \A f \in Field : TwelveOClock(f) \/ shown[f] = Digits(now[f])

\* time.c prints "Current time (UTC): " and then the time: if the clock has not
\* moved, that is the clock's.  The code does not keep to this: of a 12-hour clock
\* noon is shown as 00, since line 37 adds 12 to the 12 of 12 PM, and midnight as
\* 12, since nothing takes 12 from the 12 of 12 AM.
ShowsTheTime ==
  shown # << >> /\ since = "still" => \A f \in Field : shown[f] = Digits(now[f])

\* t is not after u.
NotAfter(t, u) ==
  \/ t = u
  \/ \E i \in DOMAIN Registers :
       /\ t[Registers[i]] < u[Registers[i]]
       /\ \A j \in DOMAIN Registers : j > i => t[Registers[j]] = u[Registers[j]]

\* However the clock moves while the registers are read, what is shown may
\* mix two times but is never a time before the command was run: each
\* register is read after the ones that carry into it.  (For a clock of 24
\* hours, and as long as no century ends.)
NeverBehind ==
  shown # << >> /\ regB.h24 /\ since # "century" =>
    NotAfter(start, [f \in Field |-> 10 * shown[f][1] + shown[f][2]])
=============================================================================
