-------------------------------- MODULE Shell --------------------------------
(***************************************************************************)
(* The shell task: keys decoded by kb_scancode_to_ascii (keyboard.h), the  *)
(* line editor, the history and the command dispatch of shell.c, and their *)
(* effect on the console.                                                  *)
(*                                                                         *)
(* One action is one scancode the shell reads, together with all it does   *)
(* before it reads the next.  Scancodes the IRQ 1 handler takes away (see  *)
(* KeyboardInput) never reach the shell; since a key may be released here  *)
(* without having been pressed, and the other way round, every stream of   *)
(* scancodes the shell can be left with is a behaviour.                    *)
(*                                                                         *)
(* shell_buffer is the sequence of its characters, so its length is        *)
(* shell_buffer_pos.  shell_history_index always equals                    *)
(* shell_history_count and nothing reads it; it is left out.               *)
(***************************************************************************)
EXTENDS Console

CONSTANTS
  SHELL_BUFFER_SIZE, SHELL_HISTORY_SIZE,
  Keys,       \* the keys that are used
  MaxLines,   \* bound on the lines entered
  MaxTyped    \* bound on the characters typed

ASSUME SizeAssumption  == {SHELL_BUFFER_SIZE, SHELL_HISTORY_SIZE} \subseteq Nat \ {0}
ASSUME BoundAssumption == {MaxLines, MaxTyped} \subseteq Nat

-----------------------------------------------------------------------------
(* Keys.  The tables are cut down to representatives: a letter, a digit,   *)
(* the keys the editor treats apart, and one that has no character.        *)

Modifier == [lshift |-> "shift", rshift |-> "shift", lctrl |-> "ctrl", lalt |-> "alt"]

scancode_to_ascii_lower ==
  [e |-> "e", digit |-> "1", space |-> " ", enter |-> "\n", backspace |-> "BS",
   esc |-> "esc", tab |-> "\t", f1 |-> ""]
scancode_to_ascii_upper ==
  [scancode_to_ascii_lower EXCEPT !.e = "E", !.digit = "!"]

Letters == {"e"}

ASSUME KeysAssumption ==
  Keys \subseteq {"capslock"} \cup DOMAIN Modifier \cup DOMAIN scancode_to_ascii_lower

-----------------------------------------------------------------------------
VARIABLES
  screen,
  shell_buffer,
  shell_history,        \* the slots of the history
  shell_history_count,
  kb_pressed,           \* kb_shift_pressed, kb_ctrl_pressed, kb_alt_pressed
  kb_capslock_on,
  entered,              \* history variable: the lines entered so far
  origin,               \* history variable: the cell where the line starts, also
                        \*   when it has left the screen and the number is negative
  stuck,                \* history variable: since the prompt, a character was taken
                        \*   off the line that stood at the end of the row above
  typed                 \* counts the characters typed, up to MaxTyped

kb   == <<kb_pressed, kb_capslock_on>>
line == <<screen, shell_buffer, shell_history, shell_history_count, entered, origin, stuck,
          typed>>
vars == <<kb, line>>

\* "kiba@KiOS> ", cut to two characters.
Prompt == <<"K", ">">>
shell_print_prompt(s) == vga_print(s, Prompt)

\* kernel_main has cleared the screen and printed whole lines of text when
\* the shell task starts.
Init ==
  /\ \E rows \in 0 .. VGA_HEIGHT - 1 :
       screen = shell_print_prompt(
                  vga_print(vga_clear, [n \in 1 .. 2 * rows |-> IF n % 2 = 1 THEN "#" ELSE "\n"]))
  /\ shell_buffer = << >>
  /\ shell_history = [i \in 0 .. SHELL_HISTORY_SIZE - 1 |-> << >>]
  /\ shell_history_count = 0
  /\ kb_pressed = [m \in {"shift", "ctrl", "alt"} |-> FALSE]
  /\ kb_capslock_on = FALSE
  /\ entered = << >>
  /\ origin = Cursor(screen)
  /\ stuck = FALSE
  /\ typed = 0

-----------------------------------------------------------------------------
(* The line editor.                                                        *)

\* A bug: the terminator's place is given to a character.
has_room_exact == Len(shell_buffer) < SHELL_BUFFER_SIZE

has_room == Len(shell_buffer) < SHELL_BUFFER_SIZE - 1

append(c) ==
  /\ typed < MaxTyped
  /\ typed' = typed + 1
  /\ IF c \notin {"", "\t"} /\ has_room
     THEN /\ shell_buffer' = Append(shell_buffer, c)
          /\ screen' = vga_putchar(screen, c)
          /\ origin' = IF Cursor(screen) + 1 \in Cells THEN origin ELSE origin - VGA_WIDTH
     ELSE UNCHANGED <<shell_buffer, screen, origin>>
  /\ UNCHANGED <<shell_history, shell_history_count, entered, stuck>>

\* A bug: the screen is not told.
backspace_unseen ==
  /\ shell_buffer' = IF shell_buffer # << >> THEN Front(shell_buffer) ELSE << >>
  /\ UNCHANGED <<screen, shell_history, shell_history_count, entered, origin, stuck, typed>>

\* A bug: nobody asks whether the line is empty.
backspace_unguarded ==
  /\ shell_buffer' = IF shell_buffer # << >> THEN Front(shell_buffer) ELSE << >>
  /\ screen' = vga_putchar(screen, "BS")
  /\ stuck' = (stuck \/ screen.x < 1)
  /\ UNCHANGED <<shell_history, shell_history_count, entered, origin, typed>>

backspace ==
  /\ IF shell_buffer # << >>
     THEN /\ shell_buffer' = Front(shell_buffer)
          /\ screen' = vga_putchar(screen, "BS")
          /\ stuck' = (stuck \/ screen.x < 1)
     ELSE UNCHANGED <<shell_buffer, screen, stuck>>
  /\ UNCHANGED <<shell_history, shell_history_count, entered, origin, typed>>

shell_clear_line ==
  /\ screen' = vga_print(screen, [i \in DOMAIN shell_buffer |-> "BS"])
  /\ shell_buffer' = << >>
  /\ stuck' = (stuck \/ screen.x < Len(shell_buffer))
  /\ UNCHANGED <<shell_history, shell_history_count, entered, origin, typed>>

-----------------------------------------------------------------------------
(* Entering a line.                                                        *)

\* A bug: the line is compared with the slot it is about to overwrite.
newest_slot_late == shell_history_count % SHELL_HISTORY_SIZE

newest_slot == (shell_history_count - 1) % SHELL_HISTORY_SIZE

shell_add_to_history(cmd) ==
  IF cmd = << >> \/ (shell_history_count > 0 /\ cmd = shell_history[newest_slot])
  THEN UNCHANGED <<shell_history, shell_history_count>>
  ELSE /\ shell_history' =
            [shell_history EXCEPT ![shell_history_count % SHELL_HISTORY_SIZE] = cmd]
       /\ shell_history_count' = shell_history_count + 1

skip_spaces(s) ==
  LET n == Max({m \in 0 .. Len(s) : \A i \in 1 .. m : s[i] = " "})
  IN  SubSeq(s, n + 1, Len(s))

first_word(s) ==
  LET n == Max({m \in 0 .. Len(s) : \A i \in 1 .. m : s[i] # " "})
  IN  SubSeq(s, 1, n)

\* The table of commands with two that touch nothing but the screen, under
\* names of one character.
cmd_echo  == <<"e">>
cmd_clear == <<"E">>

\* The texts are cut to one character each.
unknown_command(s, name) == vga_println(vga_println(vga_print(s, <<"U">>), name), <<"T">>)

shell_execute(s, str) ==
  LET cmd  == skip_spaces(str)
      name == first_word(cmd)
      args == skip_spaces(SubSeq(cmd, Len(name) + 1, Len(cmd)))
  IN  CASE cmd = << >>       -> s
        [] name = cmd_echo   -> vga_println(s, args)
        [] name = cmd_clear  -> vga_clear
        [] OTHER             -> unknown_command(s, name)

\* The rest of shell_readline, and shell_run up to the next line.
enter ==
  /\ Len(entered) < MaxLines
  /\ screen' = shell_print_prompt(shell_execute(vga_putchar(screen, "\n"), shell_buffer))
  /\ shell_add_to_history(shell_buffer)
  /\ shell_buffer' = << >>
  /\ entered' = Append(entered, shell_buffer)
  /\ origin' = Cursor(screen')
  /\ stuck' = FALSE
  /\ UNCHANGED typed

shell_readline(c) ==
  CASE c = "\n"  -> enter
    [] c = "BS"  -> backspace
    [] c = "esc" -> shell_clear_line
    [] OTHER     -> append(c)

-----------------------------------------------------------------------------
(* Decoding a scancode.                                                    *)

release(k) ==
  /\ kb_pressed' = IF k \in DOMAIN Modifier
                   THEN [kb_pressed EXCEPT ![Modifier[k]] = FALSE] ELSE kb_pressed
  /\ UNCHANGED <<kb_capslock_on, line>>

press_modifier(k) ==
  /\ k \in DOMAIN Modifier
  /\ kb_pressed' = [kb_pressed EXCEPT ![Modifier[k]] = TRUE]
  /\ UNCHANGED <<kb_capslock_on, line>>

press_capslock(k) ==
  /\ k = "capslock"
  /\ kb_capslock_on' = ~ kb_capslock_on
  /\ UNCHANGED <<kb_pressed, line>>

use_upper(k) ==
  kb_pressed["shift"] # (kb_capslock_on /\ scancode_to_ascii_lower[k] \in Letters)

kb_scancode_to_ascii(k) ==
  IF use_upper(k) THEN scancode_to_ascii_upper[k] ELSE scancode_to_ascii_lower[k]

press(k) ==
  /\ k \in DOMAIN scancode_to_ascii_lower
  /\ kb_scancode_to_ascii(k) # ""         \* kb_getchar waits on
  /\ shell_readline(kb_scancode_to_ascii(k))
  /\ UNCHANGED kb

Next ==
  \E k \in Keys :
     \/ release(k)
     \/ press_modifier(k)
     \/ press_capslock(k)
     \/ press(k)

Spec == Init /\ [][Next]_vars

-----------------------------------------------------------------------------
(* Properties.                                                             *)

\* The cursor stays on the screen, so that vga_putchar never writes beside
\* the buffer, and the line and its terminator fit in shell_buffer.
TypeOK ==
  /\ screen.x \in 0 .. VGA_WIDTH - 1 /\ screen.y \in 0 .. VGA_HEIGHT - 1
  /\ DOMAIN screen.cell = Cells
  /\ Len(shell_buffer) < SHELL_BUFFER_SIZE
  /\ \A i \in DOMAIN shell_history : Len(shell_history[i]) < SHELL_BUFFER_SIZE
  /\ kb_pressed \in [{"shift", "ctrl", "alt"} -> BOOLEAN]
  /\ kb_capslock_on \in BOOLEAN

\* Whatever was typed, wrapped, scrolled and erased, before the cursor stand the
\* prompt and the line the shell holds, in all the rows they fill and as far as
\* they have not left the screen: the user sees what Enter will execute.  This ends
\* when a backspace finds the cursor in the first column, where vga_putchar stops:
\* the line gets shorter, but the character stays on the row above.  Until the next
\* prompt only the cursor's own row is then the end of the line.
LineShown ==
  LET shown == Prompt \o shell_buffer
      reach == IF stuck THEN screen.x ELSE Cursor(screen)
  IN  \A i \in 1 .. Min({reach, Len(shown)}) :
        screen.cell[Cursor(screen) - i] = shown[Len(shown) + 1 - i]

\* There is nothing at the cursor and behind it: erased characters and
\* scrolled rows leave no remains that new output would mix with.
BlankAhead ==
  \A i \in Cells : i >= Cursor(screen) => screen.cell[i] = Blank

\* The lines that belong into the history: those that are neither empty nor a
\* repetition of the one before, empty ones not counted.
Before(m, n) == m < n /\ entered[m] # << >> /\ \A k \in m + 1 .. n - 1 : entered[k] = << >>
Remembered ==
  {n \in DOMAIN entered :
     entered[n] # << >> /\ \A m \in DOMAIN entered : Before(m, n) => entered[m] # entered[n]}

\* The number of a line among them, from 1 on.
Number(n) == Cardinality({m \in Remembered : m <= n})

\* The history ring of shell_add_to_history holds exactly the newest lines
\* worth remembering, each in the slot its number gives it.
HistoryIsTail ==
  /\ shell_history_count = Cardinality(Remembered)
  /\ \A n \in Remembered :
       Number(n) > shell_history_count - SHELL_HISTORY_SIZE =>
         shell_history[(Number(n) - 1) % SHELL_HISTORY_SIZE] = entered[n]

\* While a line is edited, the prompt and all that was printed before it keep their
\* text, and move up together when the line scrolls the screen: shell_readline
\* never erases a character more than it has put, although a line may be entered,
\* erased over the edge of a row and entered again.
EditKeepsOutput ==
  [][entered' = entered =>
       \A i \in 0 .. origin - 1 :
         i >= origin - origin' => screen'.cell[i - (origin - origin')] = screen.cell[i]]_vars
=============================================================================
