------------------------------- MODULE Console -------------------------------
(***************************************************************************)
(* The VGA text console (vga.h) as functions on a screen: the characters   *)
(* of the buffer at 0xB8000 and the cursor vga_putchar writes at.  Colours *)
(* are left out: no function reads one back.                               *)
(*                                                                         *)
(* A character is a string; "\n", "\r", "\t" and "BS" are the ones         *)
(* vga_putchar treats apart, "" stands for the other codes below 32.       *)
(***************************************************************************)
EXTENDS Integers, Sequences, FiniteSetsExt, SequencesExt

CONSTANTS VGA_WIDTH, VGA_HEIGHT

ASSUME VgaAssumption == {VGA_WIDTH, VGA_HEIGHT} \subseteq Nat \ {0}

Blank == " "
Cells == 0 .. VGA_WIDTH * VGA_HEIGHT - 1

\* The cell the cursor is at.
Cursor(s) == s.y * VGA_WIDTH + s.x

\* The screen right after vga_clear.
vga_clear == [cell |-> [i \in Cells |-> Blank], x |-> 0, y |-> 0]

vga_scroll(s) ==
  [cell |-> [i \in Cells |-> IF i < (VGA_HEIGHT - 1) * VGA_WIDTH
                             THEN s.cell[i + VGA_WIDTH] ELSE Blank],
   x    |-> s.x,
   y    |-> VGA_HEIGHT - 1]

scrolled(s) == IF s.y >= VGA_HEIGHT THEN vga_scroll(s) ELSE s

vga_putchar_at(s, c, x, y) ==
  IF x \in 0 .. VGA_WIDTH - 1 /\ y \in 0 .. VGA_HEIGHT - 1
  THEN [s EXCEPT !.cell[y * VGA_WIDTH + x] = c]
  ELSE s

\* A bug: the backspace moves the cursor and leaves the character.
backspaced_unerased(s) == IF s.x > 0 THEN [s EXCEPT !.x = s.x - 1] ELSE s

\* A backspace stops at the left edge of its row.
backspaced(s) ==
  IF s.x > 0 THEN [vga_putchar_at(s, Blank, s.x - 1, s.y) EXCEPT !.x = s.x - 1]
  ELSE s

\* The effect of one character before the cursor is brought back inside.
written(s, c) ==
  CASE c = "\n" -> [s EXCEPT !.x = 0, !.y = s.y + 1]
    [] c = "\r" -> [s EXCEPT !.x = 0]
    [] c = "\t" -> [s EXCEPT !.x = (s.x \div 8 + 1) * 8]
    [] c = "BS" -> backspaced(s)
    [] c = ""   -> s
    [] OTHER    -> [vga_putchar_at(s, c, s.x, s.y) EXCEPT !.x = s.x + 1]

wrapped(s) == IF s.x >= VGA_WIDTH THEN [s EXCEPT !.x = 0, !.y = s.y + 1] ELSE s

vga_putchar(s, c) == scrolled(wrapped(written(scrolled(s), c)))

\* One character after the other.
vga_print(s, str) ==
  LET printed[i \in 0 .. Len(str)] == IF i = 0 THEN s ELSE vga_putchar(printed[i - 1], str[i])
  IN  printed[Len(str)]
vga_println(s, str) == vga_putchar(vga_print(s, str), "\n")
=============================================================================
