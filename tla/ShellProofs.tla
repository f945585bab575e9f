----------------------------- MODULE ShellProofs -----------------------------
(***************************************************************************)
(* Proofs about the shell, its screen and its history, and about its time  *)
(* command (module Clock).                                                 *)
(*                                                                         *)
(* The shell, for a screen, a line buffer and a history of every size:     *)
(* what vga_putchar does to a screen whose cursor is on it is worked out   *)
(* once (PutPlain, PutNewline, PutBackspace), what a whole text does       *)
(* follows by induction over its length (Printed, UpTo), and the invariant *)
(* is that the screen Shows the prompt and the line of the editor, and     *)
(* that the line Starts where the history variable origin says.  For       *)
(* the history it is that the slot the next line is compared with holds    *)
(* the last line that was not empty (NewestKept).                          *)
(*                                                                         *)
(* The clock, for every date and time and any number of updates between    *)
(* two reads: the fields read so far and those still in the clock are      *)
(* together never a time before the start (Ahead).                         *)
(***************************************************************************)
EXTENDS Shell, Clock, FiniteSetTheorems, SequenceTheorems, WellFoundedInduction, TLAPS

\* The characters that are put on the screen as they are.
Plain == {" ", "e", "E", "1", "!", "#", "K", ">", "U", "T"}

-----------------------------------------------------------------------------
(* Numbers. *)

\* Numbers have a least element.
LEMMA LeastElement ==
  ASSUME NEW S \in SUBSET Nat, S # {}
  PROVE  \E m \in S : \A k \in S : m <= k
<1> DEFINE R == OpToRel(<, Nat)
<1>1. \E m \in S : \A k \in S : ~ (<<k, m>> \in R)
  <2>1. IsWellFoundedOn(R, Nat)
    BY NatLessThanWellFounded
  <2> HIDE DEF R
  <2> QED
    BY <2>1, WFMin
<1>2. PICK m \in S : \A k \in S : ~ (<<k, m>> \in R)
  BY <1>1
<1>3. \A k \in S : ~(k < m)
  BY <1>2 DEF OpToRel
<1> QED
  BY <1>3

\* Induction up to n, for a set of numbers.
LEMMA UpTo ==
  ASSUME NEW n \in Nat, NEW T, 0 \in T, \A i \in 0 .. n - 1 : i \in T => i + 1 \in T
  PROVE  \A i \in 0 .. n : i \in T
<1> DEFINE S == {i \in 0 .. n : i \notin T}
<1> SUFFICES ASSUME S # {} PROVE FALSE
  OBVIOUS
<1>1. S \in SUBSET Nat
  OBVIOUS
<1>2. PICK m \in S : \A k \in S : m <= k
  <2> HIDE DEF S
  <2> QED
    BY <1>1, LeastElement
<1>3. m \in 1 .. n /\ m - 1 \in 0 .. n - 1 /\ m \notin T
  BY <1>2
<1>4. m - 1 \in T
  BY <1>2, <1>3
<1> QED
  BY <1>3, <1>4

-----------------------------------------------------------------------------
(* Printing is putting one character after the other. *)

LEMMA Printed ==
  ASSUME NEW s, NEW str, Len(str) \in Nat
  PROVE  \E f : /\ f[0] = s
                /\ \A i \in 1 .. Len(str) : f[i] = vga_putchar(f[i - 1], str[i])
                /\ vga_print(s, str) = f[Len(str)]
<1> DEFINE Prints(f, n) ==
             f = [i \in 0 .. n |-> IF i = 0 THEN s ELSE vga_putchar(f[i - 1], str[i])]
           T == {n \in Nat : \E f : Prints(f, n)}
<1>1. 0 \in T
  <2> DEFINE f == [i \in 0 .. 0 |-> s]
  <2>1. Prints(f, 0)
    OBVIOUS
  <2> QED
    BY <2>1
<1>2. ASSUME NEW n \in 0 .. Len(str) - 1, n \in T PROVE n + 1 \in T
  <2>1. PICK f : Prints(f, n)
    BY <1>2
  <2> DEFINE g == [i \in 0 .. n + 1 |-> IF i = n + 1 THEN vga_putchar(f[n], str[n + 1]) ELSE f[i]]
  <2>2. ASSUME NEW i \in 0 .. n + 1
        PROVE  g[i] = IF i = 0 THEN s ELSE vga_putchar(g[i - 1], str[i])
    <3>1. CASE i = n + 1
      BY <3>1
    <3>2. CASE i \in 0 .. n
      <4>1. f[i] = IF i = 0 THEN s ELSE vga_putchar(f[i - 1], str[i])
        BY <2>1, <3>2
      <4>2. g[i] = f[i] /\ (i # 0 => g[i - 1] = f[i - 1])
        BY <3>2
      <4> QED
        BY <4>1, <4>2
    <3> QED
      BY <3>1, <3>2
  <2>3. Prints(g, n + 1)
    BY <2>2
  <2>4. n + 1 \in Nat
    OBVIOUS
  <2> QED
    BY <2>3, <2>4
<1>3. Len(str) \in T
  <2> HIDE DEF T
  <2>1. \A n \in 0 .. Len(str) - 1 : n \in T => n + 1 \in T
    BY <1>2
  <2>2. \A n \in 0 .. Len(str) : n \in T
    BY <1>1, <2>1, UpTo
  <2> QED
    BY <2>2
<1>4. PICK g : Prints(g, Len(str))
  BY <1>3
<1> DEFINE f == CHOOSE f : Prints(f, Len(str))
<1>5. Prints(f, Len(str))
  BY <1>4
<1>6. vga_print(s, str) = f[Len(str)]
  BY DEF vga_print
<1> HIDE DEF f
<1>7. f[0] = s /\ \A i \in 1 .. Len(str) : f[i] = vga_putchar(f[i - 1], str[i])
  BY <1>5
<1> QED
  BY <1>6, <1>7

-----------------------------------------------------------------------------
(* The geometry of the screen. *)

Columns == 0 .. VGA_WIDTH - 1
Lines   == 0 .. VGA_HEIGHT - 1

\* The first cell of a row, and the cell of the cursor.
Row(y) == y * VGA_WIDTH
At(s)  == Row(s.y) + s.x

\* What is on the screen, moved up by one row.
Up(cell) == [i \in Cells |-> IF i < Row(VGA_HEIGHT - 1) THEN cell[i + VGA_WIDTH] ELSE Blank]

LEMMA Sizes ==
  VGA_WIDTH \in Nat /\ VGA_WIDTH >= 1 /\ VGA_HEIGHT \in Nat /\ VGA_HEIGHT >= 1
BY VgaAssumption

LEMMA Rows ==
  /\ \A y \in Nat : Row(y) \in Nat /\ Row(y + 1) = Row(y) + VGA_WIDTH
  /\ \A a, b \in Nat : a <= b => Row(a) <= Row(b)
<1>1. ASSUME NEW y \in Nat PROVE Row(y) \in Nat /\ Row(y + 1) = Row(y) + VGA_WIDTH
  BY Sizes DEF Row
<1>2. ASSUME NEW a \in Nat, NEW b \in Nat, a <= b PROVE Row(a) <= Row(b)
  <2>1. (b - a) \in Nat /\ (b - a) * VGA_WIDTH >= 0
    BY <1>2, Sizes
  <2>2. (b - a) * VGA_WIDTH = b * VGA_WIDTH - a * VGA_WIDTH
    BY Sizes
  <2>3. a * VGA_WIDTH \in Int /\ b * VGA_WIDTH \in Int
    BY Sizes
  <2> QED
    BY <2>1, <2>2, <2>3 DEF Row
<1> QED
  BY <1>1, <1>2

LEMMA AllCells ==
  /\ Cells = 0 .. Row(VGA_HEIGHT) - 1
  /\ Row(VGA_HEIGHT) = Row(VGA_HEIGHT - 1) + VGA_WIDTH
  /\ Row(VGA_HEIGHT) \in Nat /\ Row(VGA_HEIGHT - 1) \in Nat
<1>1. VGA_HEIGHT * VGA_WIDTH = VGA_WIDTH * VGA_HEIGHT
  BY Sizes
<1>2. VGA_HEIGHT - 1 \in Nat /\ (VGA_HEIGHT - 1) + 1 = VGA_HEIGHT
  BY Sizes
<1>3. Row(VGA_HEIGHT) = Row(VGA_HEIGHT - 1) + VGA_WIDTH
  BY <1>2, Rows
<1>4. Row(VGA_HEIGHT) \in Nat /\ Row(VGA_HEIGHT - 1) \in Nat
  BY <1>2, Rows, Sizes
<1> QED
  BY <1>1, <1>3, <1>4 DEF Cells, Row

\* The cells of a row are on the screen.
LEMMA InCells ==
  ASSUME NEW x \in Columns, NEW y \in Lines
  PROVE  /\ Row(y) + x \in Cells /\ Row(y) \in Nat
         /\ Row(y + 1) = Row(y) + VGA_WIDTH
         /\ x \in Nat /\ x < VGA_WIDTH /\ y \in Nat /\ y < VGA_HEIGHT
         /\ Row(y + 1) <= Row(VGA_HEIGHT)
<1>1. x \in Nat /\ x < VGA_WIDTH /\ y \in Nat /\ y < VGA_HEIGHT /\ y + 1 \in Nat /\ y + 1 <= VGA_HEIGHT
  BY Sizes DEF Columns, Lines
<1>2. Row(y) \in Nat /\ Row(y + 1) = Row(y) + VGA_WIDTH
  BY <1>1, Rows
<1>3. Row(y + 1) <= Row(VGA_HEIGHT)
  BY <1>1, Rows, Sizes
<1> QED
  BY <1>1, <1>2, <1>3, Sizes, AllCells

\* A screen with its cursor moved.
LEMMA Moved ==
  ASSUME NEW c, NEW a, NEW b, NEW p, NEW q, NEW r, r = [cell |-> c, x |-> a, y |-> b]
  PROVE  [r EXCEPT !.x = p, !.y = q] = [cell |-> c, x |-> p, y |-> q]
<1>1. [r EXCEPT !.x = p] = [cell |-> c, x |-> p, y |-> b]
  OBVIOUS
<1>2. [[cell |-> c, x |-> p, y |-> b] EXCEPT !.y = q] = [cell |-> c, x |-> p, y |-> q]
  OBVIOUS
<1>3. [r EXCEPT !.x = p, !.y = q] = [[r EXCEPT !.x = p] EXCEPT !.y = q]
  OBVIOUS
<1> QED
  BY <1>1, <1>2, <1>3

-----------------------------------------------------------------------------
(* What vga_putchar does, for a cursor that is on the screen.              *)

\* Where the cursor goes from the start of row y, and what that moves.
Brought(cell, y) == IF y < VGA_HEIGHT THEN [cell |-> cell, x |-> 0, y |-> y]
                    ELSE [cell |-> Up(cell), x |-> 0, y |-> VGA_HEIGHT - 1]

\* A character put into a cell.
Put(cell, n, c) == [cell EXCEPT ![n] = c]

LEMMA Bring ==
  ASSUME NEW cell, NEW y \in Nat, y <= VGA_HEIGHT
  PROVE  scrolled([cell |-> cell, x |-> 0, y |-> y]) = Brought(cell, y)
BY Sizes DEF scrolled, vga_scroll, Brought, Up, Row

LEMMA PutPlain ==
  ASSUME NEW cell, NEW x \in Columns, NEW y \in Lines, NEW c \in Plain,
         NEW s, s = [cell |-> cell, x |-> x, y |-> y]
  PROVE  /\ x + 1 < VGA_WIDTH => vga_putchar(s, c) = [cell |-> Put(cell, Row(y) + x, c), x |-> x + 1, y |-> y]
         /\ ~ (x + 1 < VGA_WIDTH) => vga_putchar(s, c) = Brought(Put(cell, Row(y) + x, c), y + 1)
<1>1. x \in Nat /\ x < VGA_WIDTH /\ y \in Nat /\ y < VGA_HEIGHT
  BY InCells
<1>2. scrolled(s) = s
  BY <1>1, Sizes DEF scrolled
<1>3. PICK new : new = Put(cell, Row(y) + x, c)
  OBVIOUS
<1>4. PICK w : w = [cell |-> new, x |-> x + 1, y |-> y]
  OBVIOUS
<1>5. written(s, c) = w
  <2>1. written(s, c) = [vga_putchar_at(s, c, x, y) EXCEPT !.x = x + 1]
    BY DEF written, Plain
  <2>2. vga_putchar_at(s, c, x, y) = [s EXCEPT !.cell[Row(y) + x] = c]
    BY DEF vga_putchar_at, Row, Columns, Lines
  <2>3. [s EXCEPT !.cell[Row(y) + x] = c] = [cell |-> new, x |-> x, y |-> y]
    BY <1>3 DEF Put
  <2> QED
    BY <2>1, <2>2, <2>3, <1>4
<1>6. CASE x + 1 < VGA_WIDTH
  <2>1. wrapped(w) = w /\ scrolled(w) = w
    BY <1>1, <1>4, <1>6, Sizes DEF wrapped, scrolled
  <2> QED
    BY <1>2, <1>3, <1>4, <1>5, <1>6, <2>1 DEF vga_putchar
<1>7. CASE x + 1 = VGA_WIDTH
  <2>1. w.x = VGA_WIDTH /\ w.y = y
    BY <1>4, <1>7
  <2>2. wrapped(w) = [w EXCEPT !.x = 0, !.y = y + 1]
    BY <2>1, Sizes DEF wrapped
  <2>3. wrapped(w) = [cell |-> new, x |-> 0, y |-> y + 1]
    BY <1>4, <2>2, Moved
  <2>4. scrolled([cell |-> new, x |-> 0, y |-> y + 1]) = Brought(new, y + 1)
    BY <1>1, Bring, Sizes
  <2>5. vga_putchar(s, c) = Brought(new, y + 1)
    BY <1>2, <1>5, <2>3, <2>4 DEF vga_putchar
  <2>6. ~ (x + 1 < VGA_WIDTH)
    BY <1>1, <1>7, Sizes
  <2> QED
    BY <1>3, <2>5, <2>6
<1> QED
  BY <1>1, <1>6, <1>7, Sizes

LEMMA PutNewline ==
  ASSUME NEW cell, NEW x \in Columns, NEW y \in Lines,
         NEW s, s = [cell |-> cell, x |-> x, y |-> y]
  PROVE  vga_putchar(s, "\n") = Brought(cell, y + 1)
<1>1. x \in Nat /\ x < VGA_WIDTH /\ y \in Nat /\ y < VGA_HEIGHT
  BY InCells
<1>2. scrolled(s) = s
  BY <1>1, Sizes DEF scrolled
<1>3. PICK v : v = [cell |-> cell, x |-> 0, y |-> y + 1]
  OBVIOUS
<1>4. written(s, "\n") = v
  <2>1. written(s, "\n") = [s EXCEPT !.x = 0, !.y = y + 1]
    BY DEF written
  <2> QED
    BY <1>3, <2>1, Moved
<1>5. wrapped(v) = v
  BY <1>3, Sizes DEF wrapped
<1>6. scrolled(v) = Brought(cell, y + 1)
  BY <1>1, <1>3, Bring, Sizes
<1> QED
  BY <1>2, <1>4, <1>5, <1>6 DEF vga_putchar

LEMMA PutBackspace ==
  ASSUME NEW cell, NEW x \in Columns, NEW y \in Lines,
         NEW s, s = [cell |-> cell, x |-> x, y |-> y]
  PROVE  vga_putchar(s, "BS") =
           IF x = 0 THEN s
           ELSE [cell |-> Put(cell, Row(y) + (x - 1), Blank), x |-> x - 1, y |-> y]
<1>1. x \in Nat /\ x < VGA_WIDTH /\ y \in Nat /\ y < VGA_HEIGHT
  BY InCells
<1>2. scrolled(s) = s
  BY <1>1, Sizes DEF scrolled
<1>3. written(s, "BS") = backspaced(s)
  BY DEF written
<1>4. CASE x = 0
  <2>1. backspaced(s) = s
    BY <1>4 DEF backspaced
  <2>2. wrapped(s) = s
    BY <1>4, Sizes DEF wrapped
  <2> QED
    BY <1>2, <1>3, <1>4, <2>1, <2>2 DEF vga_putchar
<1>5. CASE x > 0
  <2>1. PICK new : new = Put(cell, Row(y) + (x - 1), Blank)
    OBVIOUS
  <2>2. PICK v : v = [cell |-> new, x |-> x - 1, y |-> y]
    OBVIOUS
  <2>3. x - 1 \in Columns
    BY <1>1, <1>5, Sizes DEF Columns
  <2>4. vga_putchar_at(s, Blank, x - 1, y) = [s EXCEPT !.cell[Row(y) + (x - 1)] = Blank]
    BY <2>3 DEF vga_putchar_at, Row, Columns, Lines
  <2>5. [s EXCEPT !.cell[Row(y) + (x - 1)] = Blank] = [cell |-> new, x |-> x, y |-> y]
    BY <2>1 DEF Put
  <2>6. backspaced(s) = v
    BY <1>5, <2>2, <2>4, <2>5 DEF backspaced
  <2>7. wrapped(v) = v /\ scrolled(v) = v
    BY <1>1, <1>5, <2>2, Sizes DEF wrapped, scrolled
  <2> QED
    BY <1>1, <1>2, <1>3, <1>5, <2>1, <2>2, <2>6, <2>7 DEF vga_putchar
<1> QED
  BY <1>1, <1>4, <1>5

-----------------------------------------------------------------------------
(* What printing keeps: the cursor is on the screen, nothing is behind it, *)
(* and the text w stands before it, as far as the screen or, in mode       *)
(* "row", as far as the cursor's row reaches.                              *)

Text == Plain \cup {"\n"}

\* Nothing from cell n on.
Empty(cell, n) == \A i \in Cells : i >= n => cell[i] = Blank

\* The last r characters of w, or as many as it has, end at cell n.
Ends(cell, n, r, w) == \A i \in 1 .. r : i <= Len(w) => cell[n - i] = w[Len(w) + 1 - i]

Reach(mode, x, y) == IF mode = "all" THEN Row(y) + x ELSE x

\* The screen that has these cells and its cursor there.
Shape(s, cell, x, y) ==
  /\ cell \in [Cells -> Plain] /\ x \in Columns /\ y \in Lines
  /\ s = [cell |-> cell, x |-> x, y |-> y]

Shows(s, w, mode) ==
  \E cell, x, y :
    /\ Shape(s, cell, x, y) /\ Empty(cell, Row(y) + x)
    /\ Ends(cell, Row(y) + x, Reach(mode, x, y), w)

Clean(s) == Shows(s, << >>, "all")

LEMMA ShowsClean ==
  ASSUME NEW s, NEW w, NEW mode, Shows(s, w, mode)
  PROVE  Clean(s)
<1>1. \A cell, n, r : Ends(cell, n, r, << >>)
  BY DEF Ends
<1> QED
  BY <1>1 DEF Shows, Clean

LEMMA UpCells ==
  ASSUME NEW cell \in [Cells -> Plain]
  PROVE  /\ Up(cell) \in [Cells -> Plain]
         /\ Empty(Up(cell), Row(VGA_HEIGHT - 1))
         /\ \A i \in Cells : i >= VGA_WIDTH => i - VGA_WIDTH \in Cells /\ Up(cell)[i - VGA_WIDTH] = cell[i]
<1>1. \A i \in Cells : i < Row(VGA_HEIGHT - 1) => i + VGA_WIDTH \in Cells
  BY Sizes, AllCells
<1>2. Blank \in Plain
  BY DEF Blank, Plain
<1>3. Up(cell) \in [Cells -> Plain]
  BY <1>1, <1>2 DEF Up
<1>4. Empty(Up(cell), Row(VGA_HEIGHT - 1))
  BY Sizes, AllCells DEF Up, Empty
<1>5. ASSUME NEW i \in Cells, i >= VGA_WIDTH
      PROVE  i - VGA_WIDTH \in Cells /\ Up(cell)[i - VGA_WIDTH] = cell[i]
  <2>1. i - VGA_WIDTH \in Cells /\ i - VGA_WIDTH < Row(VGA_HEIGHT - 1)
        /\ (i - VGA_WIDTH) + VGA_WIDTH = i
    BY <1>5, Sizes, AllCells
  <2> QED
    BY <2>1 DEF Up
<1> QED
  BY <1>3, <1>4, <1>5

LEMMA PutCells ==
  ASSUME NEW cell \in [Cells -> Plain], NEW n \in Cells, NEW c \in Plain
  PROVE  /\ Put(cell, n, c) \in [Cells -> Plain]
         /\ Put(cell, n, c)[n] = c
         /\ \A i \in Cells : i # n => Put(cell, n, c)[i] = cell[i]
BY DEF Put

LEMMA CellsAreNumbers ==
  Blank \in Plain /\ \A i \in Cells : i \in Nat
<1>1. Blank \in Plain
  BY DEF Blank, Plain
<1>2. \A i \in Cells : i \in Nat
  BY AllCells
<1> QED
  BY <1>1, <1>2

\* The cursor at the start of a row, brought back inside.
LEMMA ShowsBrought ==
  ASSUME NEW cell \in [Cells -> Plain], NEW y \in Lines, Empty(cell, Row(y + 1)), NEW w,
         NEW mode \in {"all", "row"}, Ends(cell, Row(y + 1), Reach(mode, 0, y + 1), w)
  PROVE  Shows(Brought(cell, y + 1), w, mode)
<1>1. 0 \in Columns /\ y \in Nat /\ y < VGA_HEIGHT /\ Row(y + 1) \in Nat
  BY Sizes, InCells, Rows DEF Columns
<1>2. CASE y + 1 < VGA_HEIGHT
  <2>1. y + 1 \in Lines /\ Row(y + 1) + 0 = Row(y + 1)
    BY <1>1, <1>2, Sizes DEF Lines
  <2>2. Brought(cell, y + 1) = [cell |-> cell, x |-> 0, y |-> y + 1]
    BY <1>2 DEF Brought
  <2>3. Shape(Brought(cell, y + 1), cell, 0, y + 1)
    BY <1>1, <2>1, <2>2 DEF Shape
  <2> QED
    BY <2>1, <2>3 DEF Shows
<1>3. CASE ~ (y + 1 < VGA_HEIGHT)
  <2>1. VGA_HEIGHT - 1 \in Lines /\ Row(VGA_HEIGHT - 1) + 0 = Row(VGA_HEIGHT - 1)
    BY Sizes, AllCells DEF Lines
  <2>2. Brought(cell, y + 1) = [cell |-> Up(cell), x |-> 0, y |-> VGA_HEIGHT - 1]
    BY <1>3 DEF Brought
  <2>3. Shape(Brought(cell, y + 1), Up(cell), 0, VGA_HEIGHT - 1)
    BY <1>1, <2>1, <2>2, UpCells DEF Shape
  <2>4. y + 1 = VGA_HEIGHT
    BY <1>1, <1>3, Sizes
  <2>5. ASSUME NEW i \in 1 .. Reach(mode, 0, VGA_HEIGHT - 1), i <= Len(w)
        PROVE  Up(cell)[Row(VGA_HEIGHT - 1) - i] = w[Len(w) + 1 - i]
    <3>1. mode = "all" /\ i \in Nat /\ i >= 1 /\ i <= Row(VGA_HEIGHT - 1)
      BY <2>5, AllCells DEF Reach
    <3>2. PICK j : j = Row(VGA_HEIGHT) - i
      OBVIOUS
    <3>3. j \in Cells /\ j >= VGA_WIDTH /\ j - VGA_WIDTH = Row(VGA_HEIGHT - 1) - i
      BY <3>1, <3>2, AllCells, Sizes
    <3>4. i \in 1 .. Reach(mode, 0, VGA_HEIGHT)
      BY <3>1, AllCells, Sizes DEF Reach
    <3>5. cell[j] = w[Len(w) + 1 - i]
      BY <2>4, <2>5, <3>2, <3>4 DEF Ends
    <3>6. Up(cell)[j - VGA_WIDTH] = cell[j]
      BY <3>3, UpCells
    <3> QED
      BY <3>3, <3>5, <3>6
  <2>6. Ends(Up(cell), Row(VGA_HEIGHT - 1), Reach(mode, 0, VGA_HEIGHT - 1), w)
    BY <2>5 DEF Ends
  <2> QED
    BY <2>1, <2>3, <2>6, UpCells DEF Shows
<1> QED
  BY <1>2, <1>3

\* One more character before the cursor.
LEMMA EndsAppend ==
  ASSUME NEW w \in Seq(Plain), NEW c \in Plain, NEW cell, NEW new, NEW n \in Cells,
         NEW r \in Nat, r <= n, Ends(cell, n, r, w),
         new[n] = c, \A i \in Cells : i # n => new[i] = cell[i]
  PROVE  Ends(new, n + 1, r + 1, Append(w, c))
<1>1. /\ Len(w) \in Nat /\ Len(Append(w, c)) = Len(w) + 1
      /\ \A j \in 1 .. Len(w) : Append(w, c)[j] = w[j]
      /\ Append(w, c)[Len(w) + 1] = c
  BY AppendProperties, LenProperties
<1>2. n \in Nat
  BY CellsAreNumbers
<1>3. ASSUME NEW i \in 1 .. r + 1, i <= Len(Append(w, c))
      PROVE  new[(n + 1) - i] = Append(w, c)[Len(Append(w, c)) + 1 - i]
  <2>1. CASE i = 1
    <3>1. (n + 1) - i = n /\ Len(Append(w, c)) + 1 - i = Len(w) + 1
      BY <1>1, <1>2, <2>1
    <3> QED
      BY <1>1, <3>1
  <2>2. CASE i # 1
    <3>1. PICK j : j = i - 1
      OBVIOUS
    <3>2. j \in 1 .. r /\ j <= Len(w) /\ Len(w) + 1 - j \in 1 .. Len(w)
          /\ Len(Append(w, c)) + 1 - i = Len(w) + 1 - j
          /\ (n + 1) - i = n - j
      BY <1>1, <1>2, <1>3, <2>2, <3>1
    <3>3. n - j \in Cells /\ n - j # n
      <4>1. j \in Nat /\ j >= 1 /\ j <= n
        BY <1>2, <3>2
      <4>2. n \in 0 .. Row(VGA_HEIGHT) - 1 /\ Row(VGA_HEIGHT) \in Nat
        BY AllCells
      <4>3. n - j \in 0 .. Row(VGA_HEIGHT) - 1 /\ n - j # n
        BY <1>2, <4>1, <4>2
      <4> QED
        BY <4>3, AllCells
    <3>4. cell[n - j] = w[Len(w) + 1 - j]
      BY <3>2 DEF Ends
    <3> QED
      BY <1>1, <3>2, <3>3, <3>4
  <2> QED
    BY <2>1, <2>2
<1> QED
  BY <1>3 DEF Ends

\* A character that is written stands before the cursor.
LEMMA ShowsAppend ==
  ASSUME NEW w \in Seq(Plain), NEW s, NEW mode \in {"all", "row"}, Shows(s, w, mode),
         NEW c \in Plain
  PROVE  Shows(vga_putchar(s, c), Append(w, c), mode)
<1>1. PICK cell, x, y : /\ Shape(s, cell, x, y) /\ Empty(cell, Row(y) + x)
                        /\ Ends(cell, Row(y) + x, Reach(mode, x, y), w)
  BY DEF Shows
<1>2. /\ cell \in [Cells -> Plain] /\ x \in Columns /\ y \in Lines
      /\ s = [cell |-> cell, x |-> x, y |-> y]
  BY <1>1 DEF Shape
<1>3. /\ Row(y) + x \in Cells /\ Row(y) \in Nat /\ Row(y + 1) = Row(y) + VGA_WIDTH
      /\ x \in Nat /\ x < VGA_WIDTH /\ y \in Nat /\ y < VGA_HEIGHT
      /\ Row(y + 1) <= Row(VGA_HEIGHT)
  BY <1>2, InCells
<1>4. PICK new : new = Put(cell, Row(y) + x, c)
  OBVIOUS
<1>5. /\ new \in [Cells -> Plain] /\ new[Row(y) + x] = c
      /\ \A i \in Cells : i # Row(y) + x => new[i] = cell[i]
  BY <1>2, <1>3, <1>4, PutCells
<1>6. Empty(new, Row(y) + (x + 1))
  BY <1>1, <1>3, <1>5, CellsAreNumbers DEF Empty
<1>7. PICK r : r = Reach(mode, x, y)
  OBVIOUS
<1>8. r \in Nat /\ r <= Row(y) + x /\ Reach(mode, x + 1, y) = r + 1
      /\ (Row(y) + x) + 1 = Row(y) + (x + 1)
  BY <1>3, <1>7 DEF Reach
<1>9. Ends(new, Row(y) + (x + 1), r + 1, Append(w, c))
  <2>1. Ends(cell, Row(y) + x, r, w)
    BY <1>1, <1>7
  <2>2. PICK n : n = Row(y) + x
    OBVIOUS
  <2>3. Ends(new, n + 1, r + 1, Append(w, c))
    BY <1>3, <1>5, <1>8, <2>1, <2>2, EndsAppend
  <2> QED
    BY <1>8, <2>2, <2>3
<1>10. CASE x + 1 < VGA_WIDTH
  <2>1. vga_putchar(s, c) = [cell |-> new, x |-> x + 1, y |-> y]
    BY <1>2, <1>4, <1>10, PutPlain
  <2>2. x + 1 \in Columns
    BY <1>3, <1>10, Sizes DEF Columns
  <2>3. Shape(vga_putchar(s, c), new, x + 1, y)
    BY <1>2, <1>5, <2>1, <2>2 DEF Shape
  <2> QED
    BY <1>6, <1>8, <1>9, <2>3 DEF Shows
<1>11. CASE ~ (x + 1 < VGA_WIDTH)
  <2>1. vga_putchar(s, c) = Brought(new, y + 1)
    BY <1>2, <1>4, <1>11, PutPlain
  <2>2. Row(y + 1) = Row(y) + (x + 1)
    BY <1>3, <1>11, Sizes
  <2>3. Ends(new, Row(y + 1), Reach(mode, 0, y + 1), Append(w, c))
    <3>1. CASE mode = "all"
      <4>1. Reach(mode, 0, y + 1) = r + 1
        BY <1>3, <1>7, <2>2, <3>1 DEF Reach
      <4> QED
        BY <1>9, <2>2, <4>1
    <3>2. CASE mode = "row"
      <4>1. Reach(mode, 0, y + 1) = 0
        BY <3>2 DEF Reach
      <4> QED
        BY <4>1 DEF Ends
    <3> QED
      BY <3>1, <3>2
  <2> QED
    BY <1>2, <1>5, <1>6, <2>1, <2>2, <2>3, ShowsBrought
<1> QED
  BY <1>10, <1>11

\* A new line starts at the left edge.
LEMMA ShowsNewline ==
  ASSUME NEW s, Clean(s)
  PROVE  Clean(vga_putchar(s, "\n"))
<1>1. PICK cell, x, y : Shape(s, cell, x, y) /\ Empty(cell, Row(y) + x)
  BY DEF Clean, Shows
<1>2. /\ cell \in [Cells -> Plain] /\ x \in Columns /\ y \in Lines
      /\ s = [cell |-> cell, x |-> x, y |-> y]
  BY <1>1 DEF Shape
<1>3. /\ Row(y) \in Nat /\ Row(y + 1) = Row(y) + VGA_WIDTH /\ x \in Nat /\ x < VGA_WIDTH
  BY <1>2, InCells
<1>4. vga_putchar(s, "\n") = Brought(cell, y + 1)
  BY <1>2, PutNewline
<1>5. Empty(cell, Row(y + 1))
  BY <1>1, <1>3, CellsAreNumbers, Sizes DEF Empty
<1> QED
  <2>1. Ends(cell, Row(y + 1), Reach("all", 0, y + 1), << >>)
    BY DEF Ends
  <2> QED
    BY <1>2, <1>4, <1>5, <2>1, ShowsBrought DEF Clean

LEMMA CellBefore ==
  ASSUME NEW r \in Nat, NEW x \in Nat, NEW i \in Nat, i >= r + (x - 1)
  PROVE  i = r + (x - 1) \/ i >= r + x
  OBVIOUS

\* The cursor one column to the left, if there is one, and the cells before the
\* one it went over left alone.
Erased(s, r) ==
  /\ r.y = s.y /\ r.x = IF s.x = 0 THEN 0 ELSE s.x - 1
  /\ \A i \in Cells : i < Row(s.y) \/ i < At(s) - 1 => r.cell[i] = s.cell[i]

\* What a backspace leaves of the reach.
Left(x, mode) == IF x = 0 THEN "row" ELSE mode

\* A backspace takes away the last character before the cursor; in the first
\* column it takes away nothing, and the row above is not the text's end any more.
LEMMA ShowsBackspace ==
  ASSUME NEW w \in Seq(Plain), NEW v \in Seq(Plain), NEW s, NEW mode \in {"all", "row"},
         Shows(s, w, mode), Len(w) = Len(v) + 1, \A i \in 1 .. Len(v) : w[i] = v[i]
  PROVE  Shows(vga_putchar(s, "BS"), v, Left(s.x, mode)) /\ Erased(s, vga_putchar(s, "BS"))
<1>1. PICK cell, x, y : /\ Shape(s, cell, x, y) /\ Empty(cell, Row(y) + x)
                        /\ Ends(cell, Row(y) + x, Reach(mode, x, y), w)
  BY DEF Shows
<1>2. /\ cell \in [Cells -> Plain] /\ x \in Columns /\ y \in Lines
      /\ s = [cell |-> cell, x |-> x, y |-> y]
  BY <1>1 DEF Shape
<1>3. /\ Row(y) + x \in Cells /\ Row(y) \in Nat /\ x \in Nat /\ x < VGA_WIDTH
      /\ Len(v) \in Nat /\ s.x = x /\ s.y = y /\ s.cell = cell
  BY <1>2, InCells, LenProperties
<1>4. CASE x = 0
  <2>1. vga_putchar(s, "BS") = s
    BY <1>2, <1>4, PutBackspace
  <2>2. Left(s.x, mode) = "row" /\ Reach("row", x, y) = 0
    BY <1>3, <1>4 DEF Left, Reach
  <2>3. Ends(cell, Row(y) + x, Reach("row", x, y), v)
    BY <2>2 DEF Ends
  <2>4. Shows(s, v, "row")
    BY <1>1, <2>3 DEF Shows
  <2>5. Erased(s, s)
    BY <1>3, <1>4 DEF Erased
  <2> QED
    BY <2>1, <2>2, <2>4, <2>5
<1>5. CASE x # 0
  <2>1. PICK new : new = Put(cell, Row(y) + (x - 1), Blank)
    OBVIOUS
  <2>2. vga_putchar(s, "BS") = [cell |-> new, x |-> x - 1, y |-> y]
    BY <1>2, <1>5, <2>1, PutBackspace
  <2>3. x - 1 \in Columns
    BY <1>3, <1>5, Sizes DEF Columns
  <2>4. Row(y) + (x - 1) \in Cells
    BY <1>2, <2>3, InCells
  <2>5. new \in [Cells -> Plain] /\ new[Row(y) + (x - 1)] = Blank
        /\ \A i \in Cells : i # Row(y) + (x - 1) => new[i] = cell[i]
    BY <1>2, <2>1, <2>4, CellsAreNumbers, PutCells
  <2>6. Empty(new, Row(y) + (x - 1))
    <3> SUFFICES ASSUME NEW i \in Cells, i >= Row(y) + (x - 1) PROVE new[i] = Blank
      BY DEF Empty
    <3>1. i \in Nat
      BY CellsAreNumbers
    <3>2. i = Row(y) + (x - 1) \/ i >= Row(y) + x
      BY <1>3, <3>1, CellBefore
    <3>3. CASE i >= Row(y) + x
      <4>1. cell[i] = Blank /\ i # Row(y) + (x - 1)
        BY <1>1, <1>3, <3>1, <3>3 DEF Empty
      <4> QED
        BY <2>5, <4>1
    <3> QED
      BY <2>5, <3>2, <3>3
  <2>7. PICK r : r = Reach(mode, x - 1, y)
    OBVIOUS
  <2>8. r \in Nat /\ r <= Row(y) + (x - 1) /\ Reach(mode, x, y) = r + 1
    BY <1>3, <1>5, <2>7 DEF Reach
  <2>9. ASSUME NEW i \in 1 .. r, i <= Len(v)
        PROVE  new[(Row(y) + (x - 1)) - i] = v[Len(v) + 1 - i]
    <3>1. PICK j : j = i + 1
      OBVIOUS
    <3>2. j \in 1 .. r + 1 /\ j <= Len(w) /\ Len(w) + 1 - j \in 1 .. Len(v)
          /\ Len(v) + 1 - i = Len(w) + 1 - j
          /\ (Row(y) + (x - 1)) - i = (Row(y) + x) - j
      <4>1. j \in 1 .. r + 1 /\ j <= Len(w)
        BY <1>3, <2>8, <2>9, <3>1
      <4>2. Len(w) + 1 - j \in 1 .. Len(v) /\ Len(v) + 1 - i = Len(w) + 1 - j
        BY <1>3, <2>8, <2>9, <3>1
      <4>3. (Row(y) + (x - 1)) - i = (Row(y) + x) - j
        BY <1>3, <2>9, <3>1
      <4> QED
        BY <4>1, <4>2, <4>3
    <3>3. (Row(y) + x) - j \in Cells /\ (Row(y) + x) - j # Row(y) + (x - 1)
      <4>1. j \in Nat /\ j >= 2 /\ j <= Row(y) + x
        BY <1>3, <2>8, <2>9, <3>1
      <4>2. Row(y) + x \in 0 .. Row(VGA_HEIGHT) - 1 /\ Row(VGA_HEIGHT) \in Nat
        BY <1>3, AllCells
      <4>3. (Row(y) + x) - j \in 0 .. Row(VGA_HEIGHT) - 1 /\ (Row(y) + x) - j # Row(y) + (x - 1)
        BY <1>3, <4>1, <4>2
      <4> QED
        BY <4>3, AllCells
    <3>4. cell[(Row(y) + x) - j] = w[Len(w) + 1 - j]
      BY <1>1, <2>8, <3>2 DEF Ends
    <3> QED
      BY <2>5, <3>2, <3>3, <3>4
  <2>10. Ends(new, Row(y) + (x - 1), Reach(mode, x - 1, y), v)
    BY <2>7, <2>9 DEF Ends
  <2>11. Shape(vga_putchar(s, "BS"), new, x - 1, y)
    BY <1>2, <2>2, <2>3, <2>5 DEF Shape
  <2>12. Left(s.x, mode) = mode
    BY <1>3, <1>5 DEF Left
  <2>13. At(s) = Row(y) + x
    BY <1>3 DEF At
  <2>14. \A i \in Cells : i < Row(y) \/ i < (Row(y) + x) - 1 => i # Row(y) + (x - 1)
    BY <1>3, <1>5, CellsAreNumbers
  <2>15. /\ vga_putchar(s, "BS").cell = new /\ vga_putchar(s, "BS").x = x - 1
         /\ vga_putchar(s, "BS").y = y
    BY <2>2
  <2>16. Erased(s, vga_putchar(s, "BS"))
    BY <1>3, <1>5, <2>5, <2>13, <2>14, <2>15 DEF Erased
  <2> QED
    BY <2>6, <2>10, <2>11, <2>12, <2>16 DEF Shows
<1> QED
  BY <1>4, <1>5

-----------------------------------------------------------------------------
(* Texts, and what the commands print.                                     *)

LEMMA CleanPut ==
  ASSUME NEW s, Clean(s), NEW c \in Text
  PROVE  Clean(vga_putchar(s, c))
<1>1. CASE c \in Plain
  <2>1. << >> \in Seq(Plain)
    BY EmptySeq
  <2>2. Shows(vga_putchar(s, c), Append(<< >>, c), "all")
    BY <1>1, <2>1, ShowsAppend DEF Clean
  <2> QED
    BY <2>2, ShowsClean
<1>2. CASE c = "\n"
  BY <1>2, ShowsNewline
<1> QED
  BY <1>1, <1>2 DEF Text

LEMMA CleanPrint ==
  ASSUME NEW s, Clean(s), NEW str \in Seq(Text)
  PROVE  Clean(vga_print(s, str)) /\ Clean(vga_println(s, str))
<1>1. Len(str) \in Nat /\ \A i \in 1 .. Len(str) : str[i] \in Text
  BY LenProperties, ElementOfSeq
<1>2. PICK f : /\ f[0] = s
               /\ \A i \in 1 .. Len(str) : f[i] = vga_putchar(f[i - 1], str[i])
               /\ vga_print(s, str) = f[Len(str)]
  BY <1>1, Printed
<1> DEFINE T == {i \in Nat : Clean(f[i])}
<1>3. 0 \in T
  BY <1>2
<1>4. ASSUME NEW i \in 0 .. Len(str) - 1, i \in T PROVE i + 1 \in T
  <2>1. i + 1 \in 1 .. Len(str) /\ (i + 1) - 1 = i /\ i + 1 \in Nat
    BY <1>1
  <2>2. f[i + 1] = vga_putchar(f[i], str[i + 1]) /\ str[i + 1] \in Text
    BY <1>1, <1>2, <2>1
  <2>3. Clean(f[i])
    BY <1>4
  <2>4. Clean(f[i + 1])
    BY <2>2, <2>3, CleanPut
  <2> QED
    BY <2>1, <2>4
<1> HIDE DEF T
<1>5. \A i \in 0 .. Len(str) : i \in T
  <2>1. \A i \in 0 .. Len(str) - 1 : i \in T => i + 1 \in T
    BY <1>4
  <2> QED
    BY <1>1, <1>3, <2>1, UpTo
<1>6. Clean(vga_print(s, str))
  BY <1>1, <1>2, <1>5 DEF T
<1>7. "\n" \in Text
  BY DEF Text
<1> QED
  BY <1>6, <1>7, CleanPut DEF vga_println

LEMMA CleanClear ==
  Clean(vga_clear)
<1>1. PICK cell : cell = [i \in Cells |-> Blank]
  OBVIOUS
<1>2. cell \in [Cells -> Plain] /\ \A i \in Cells : cell[i] = Blank
  BY <1>1, CellsAreNumbers
<1>3. 0 \in Columns /\ 0 \in Lines
  BY Sizes DEF Columns, Lines
<1>4. Shape(vga_clear, cell, 0, 0)
  BY <1>1, <1>2, <1>3 DEF Shape, vga_clear
<1>5. Empty(cell, Row(0) + 0) /\ Ends(cell, Row(0) + 0, Reach("all", 0, 0), << >>)
  BY <1>2 DEF Empty, Ends
<1> QED
  BY <1>4, <1>5 DEF Clean, Shows

LEMMA Twice ==
  ASSUME NEW a \in Plain, NEW b \in Plain
  PROVE  Append(Append(<< >>, a), b) = <<a, b>>
<1>1. PICK v : v = Append(<< >>, a)
  OBVIOUS
<1>2. << >> \in Seq(Plain) /\ Len(<< >>) = 0
  BY EmptySeq
<1>3. v \in Seq(Plain) /\ Len(v) = 1 /\ v[1] = a
  BY <1>1, <1>2, AppendProperties
<1>4. /\ Append(v, b) \in Seq(Plain) /\ Len(Append(v, b)) = Len(v) + 1
      /\ \A i \in 1 .. Len(v) : Append(v, b)[i] = v[i]
      /\ Append(v, b)[Len(v) + 1] = b
  <2>1. v \in Seq(Plain)
    BY <1>3
  <2> QED
    BY <2>1, AppendProperties
<1>5. Len(Append(v, b)) = 2 /\ Append(v, b)[1] = a /\ Append(v, b)[2] = b
  BY <1>3, <1>4
<1>6. <<a, b>> \in Seq(Plain) /\ Len(<<a, b>>) = 2 /\ <<a, b>>[1] = a /\ <<a, b>>[2] = b
  OBVIOUS
<1>7. \A i \in 1 .. 2 : i = 1 \/ i = 2
  OBVIOUS
<1>8. Append(v, b) = <<a, b>>
  BY <1>4, <1>5, <1>6, <1>7, SeqEqual
<1> QED
  BY <1>1, <1>8

LEMMA ShowsPrompt ==
  ASSUME NEW s, Clean(s)
  PROVE  Shows(shell_print_prompt(s), Prompt, "all")
<1>1. Len(Prompt) = 2 /\ Prompt[1] = "K" /\ Prompt[2] = ">" /\ "K" \in Plain /\ ">" \in Plain
  BY DEF Prompt, Plain
<1>2. PICK f : /\ f[0] = s
               /\ \A i \in 1 .. Len(Prompt) : f[i] = vga_putchar(f[i - 1], Prompt[i])
               /\ vga_print(s, Prompt) = f[Len(Prompt)]
  <2>1. Len(Prompt) \in Nat
    BY <1>1
  <2> QED
    BY <2>1, Printed
<1>3. f[1] = vga_putchar(s, "K") /\ f[2] = vga_putchar(f[1], ">") /\ vga_print(s, Prompt) = f[2]
  <2>1. 1 \in 1 .. Len(Prompt) /\ 2 \in 1 .. Len(Prompt) /\ 1 - 1 = 0 /\ 2 - 1 = 1
    BY <1>1
  <2> QED
    BY <1>1, <1>2, <2>1
<1>4. << >> \in Seq(Plain) /\ Append(<< >>, "K") \in Seq(Plain)
  BY <1>1, EmptySeq, AppendProperties
<1>5. Shows(f[1], Append(<< >>, "K"), "all")
  BY <1>1, <1>3, <1>4, ShowsAppend DEF Clean
<1>6. Shows(f[2], Append(Append(<< >>, "K"), ">"), "all")
  BY <1>1, <1>3, <1>4, <1>5, ShowsAppend
<1>7. Append(Append(<< >>, "K"), ">") = Prompt
  BY <1>1, Twice DEF Prompt
<1> QED
  BY <1>3, <1>6, <1>7 DEF shell_print_prompt

LEMMA MaxElement ==
  ASSUME NEW n \in Nat, NEW S \in SUBSET (0 .. n), S # {}
  PROVE  Max(S) \in S
<1> DEFINE D == {k \in 0 .. n : n - k \in S}
<1>1. D \in SUBSET Nat /\ D # {}
  <2>1. PICK m : m \in S
    OBVIOUS
  <2>2. m \in 0 .. n
    BY <2>1
  <2>3. n - m \in 0 .. n /\ n - (n - m) = m
    BY <2>2
  <2>4. n - m \in D
    BY <2>1, <2>3
  <2>5. D \subseteq Nat
    OBVIOUS
  <2> QED
    BY <2>4, <2>5
<1>2. PICK d \in D : \A k \in D : d <= k
  <2> HIDE DEF D
  <2> QED
    BY <1>1, LeastElement
<1>3. n - d \in S /\ d \in 0 .. n
  BY <1>2
<1>4. ASSUME NEW m \in S PROVE n - d >= m
  <2>1. m \in 0 .. n
    OBVIOUS
  <2>2. n - m \in 0 .. n /\ n - (n - m) = m
    BY <2>1
  <2>3. n - m \in D
    BY <2>2
  <2>4. d <= n - m
    BY <1>2, <2>3
  <2> QED
    BY <1>3, <2>1, <2>2, <2>4
<1>5. \E m \in S : \A k \in S : m >= k
  BY <1>3, <1>4
<1> QED
  BY <1>5 DEF Max

\* A piece of a line.
LEMMA Pieces ==
  ASSUME NEW s \in Seq(Plain), NEW m \in Nat, NEW n \in Nat, m >= 1, n <= Len(s)
  PROVE  SubSeq(s, m, n) \in Seq(Plain)
<1>1. Len(s) \in Nat /\ \A i \in 1 .. Len(s) : s[i] \in Plain
  BY LenProperties, ElementOfSeq
<1>2. \A i \in m .. n : s[i] \in Plain
  BY <1>1
<1> QED
  BY <1>2, SubSeqProperties

LEMMA Words ==
  ASSUME NEW s \in Seq(Plain)
  PROVE  skip_spaces(s) \in Seq(Plain) /\ first_word(s) \in Seq(Plain)
<1>1. Len(s) \in Nat
  BY LenProperties
<1> DEFINE A == {m \in 0 .. Len(s) : \A i \in 1 .. m : s[i] = " "}
           B == {m \in 0 .. Len(s) : \A i \in 1 .. m : s[i] # " "}
<1>2. /\ 0 \in A /\ A \in SUBSET (0 .. Len(s))
      /\ 0 \in B /\ B \in SUBSET (0 .. Len(s))
  <2>1. 0 \in 0 .. Len(s) /\ \A i \in 1 .. 0 : FALSE
    BY <1>1
  <2>2. 0 \in A /\ 0 \in B
    BY <2>1
  <2> QED
    BY <2>2
<1>3. skip_spaces(s) = SubSeq(s, Max(A) + 1, Len(s)) /\ first_word(s) = SubSeq(s, 1, Max(B))
  BY DEF skip_spaces, first_word
<1> HIDE DEF A, B
<1>4. Max(A) \in 0 .. Len(s) /\ Max(B) \in 0 .. Len(s)
  BY <1>1, <1>2, MaxElement
<1>5. Max(A) + 1 \in Nat /\ Max(A) + 1 >= 1 /\ Max(B) \in Nat /\ Max(B) <= Len(s)
  BY <1>1, <1>4
<1> QED
  BY <1>1, <1>3, <1>5, Pieces

LEMMA CleanExecute ==
  ASSUME NEW s, Clean(s), NEW str \in Seq(Plain)
  PROVE  Clean(shell_execute(s, str))
<1>1. PICK cmd : cmd = skip_spaces(str)
  OBVIOUS
<1>2. PICK name : name = first_word(cmd)
  OBVIOUS
<1>3. PICK args : args = skip_spaces(SubSeq(cmd, Len(name) + 1, Len(cmd)))
  OBVIOUS
<1>4. cmd \in Seq(Plain) /\ name \in Seq(Plain)
  BY <1>1, <1>2, Words
<1>5. args \in Seq(Plain)
  <2>1. Len(cmd) \in Nat /\ Len(name) + 1 \in Nat /\ Len(name) + 1 >= 1
    BY <1>4, LenProperties
  <2>2. SubSeq(cmd, Len(name) + 1, Len(cmd)) \in Seq(Plain)
    BY <1>4, <2>1, Pieces
  <2> QED
    BY <1>3, <2>2, Words
<1>6. Seq(Plain) \subseteq Seq(Text) /\ <<"U">> \in Seq(Text) /\ <<"T">> \in Seq(Text)
  <2>1. Plain \subseteq Text /\ "U" \in Text /\ "T" \in Text
    BY DEF Text, Plain
  <2>2. ASSUME NEW s1 \in Seq(Plain) PROVE s1 \in Seq(Text)
    BY <2>1
  <2> QED
    BY <2>1, <2>2
<1>7. Clean(vga_println(s, args)) /\ Clean(vga_clear)
  BY <1>5, <1>6, CleanPrint, CleanClear
<1>8. Clean(unknown_command(s, name))
  <2>1. Clean(vga_print(s, <<"U">>))
    BY <1>6, CleanPrint
  <2>2. Clean(vga_println(vga_print(s, <<"U">>), name))
    BY <1>4, <1>6, <2>1, CleanPrint
  <2>3. Clean(vga_println(vga_println(vga_print(s, <<"U">>), name), <<"T">>))
    BY <1>6, <2>2, CleanPrint
  <2> QED
    BY <2>3 DEF unknown_command
<1>9. shell_execute(s, str) = CASE cmd = << >>       -> s
                                [] name = cmd_echo   -> vga_println(s, args)
                                [] name = cmd_clear  -> vga_clear
                                [] OTHER             -> unknown_command(s, name)
  BY <1>1, <1>2, <1>3 DEF shell_execute
<1>10. shell_execute(s, str) \in {s, vga_println(s, args), vga_clear, unknown_command(s, name)}
  BY <1>9
<1> QED
  BY <1>7, <1>8, <1>10

-----------------------------------------------------------------------------
(* The line behind the prompt.                                             *)

LEMMA Shown ==
  ASSUME NEW b \in Seq(Plain)
  PROVE  /\ Prompt \o b \in Seq(Plain) /\ Len(Prompt \o b) = 2 + Len(b) /\ Len(b) \in Nat
         /\ (Prompt \o b)[1] = "K" /\ (Prompt \o b)[2] = ">"
         /\ \A i \in 1 .. Len(b) : (Prompt \o b)[2 + i] = b[i]
<1>1. Prompt \in Seq(Plain) /\ Len(Prompt) = 2 /\ Prompt[1] = "K" /\ Prompt[2] = ">"
  <2>1. "K" \in Plain /\ ">" \in Plain
    BY DEF Plain
  <2> QED
    BY <2>1 DEF Prompt
<1>2. Len(b) \in Nat
  BY LenProperties
<1>3. /\ Prompt \o b \in Seq(Plain) /\ Len(Prompt \o b) = Len(Prompt) + Len(b)
      /\ \A i \in 1 .. Len(Prompt) + Len(b) : (Prompt \o b)[i] =
           IF i <= Len(Prompt) THEN Prompt[i] ELSE b[i - Len(Prompt)]
  BY <1>1, ConcatProperties
<1>4. (Prompt \o b)[1] = "K" /\ (Prompt \o b)[2] = ">"
  BY <1>1, <1>2, <1>3
<1>5. ASSUME NEW i \in 1 .. Len(b) PROVE (Prompt \o b)[2 + i] = b[i]
  <2>1. 2 + i \in 1 .. 2 + Len(b) /\ ~ (2 + i <= 2) /\ (2 + i) - 2 = i
    BY <1>2
  <2> QED
    BY <1>1, <1>3, <2>1
<1> QED
  BY <1>1, <1>2, <1>3, <1>4, <1>5

LEMMA ShownAppend ==
  ASSUME NEW b \in Seq(Plain), NEW c \in Plain
  PROVE  Append(Prompt \o b, c) = Prompt \o Append(b, c)
<1>1. PICK w : w = Prompt \o b
  OBVIOUS
<1>2. PICK d : d = Append(b, c)
  OBVIOUS
<1>3. /\ d \in Seq(Plain) /\ Len(d) = Len(b) + 1 /\ d[Len(b) + 1] = c
      /\ \A i \in 1 .. Len(b) : d[i] = b[i]
  BY <1>2, AppendProperties
<1>4. PICK v : v = Prompt \o d
  OBVIOUS
<1>5. /\ v \in Seq(Plain) /\ Len(v) = 2 + Len(d)
      /\ v[1] = "K" /\ v[2] = ">" /\ \A i \in 1 .. Len(d) : v[2 + i] = d[i]
  BY <1>3, <1>4, Shown
<1>6. /\ w \in Seq(Plain) /\ Len(w) = 2 + Len(b) /\ Len(b) \in Nat
      /\ w[1] = "K" /\ w[2] = ">" /\ \A i \in 1 .. Len(b) : w[2 + i] = b[i]
  BY <1>1, Shown
<1>7. PICK u : u = Append(w, c)
  OBVIOUS
<1>8. /\ u \in Seq(Plain) /\ Len(u) = Len(w) + 1 /\ u[Len(w) + 1] = c
      /\ \A i \in 1 .. Len(w) : u[i] = w[i]
  BY <1>6, <1>7, AppendProperties
<1>9. ASSUME NEW i \in 1 .. Len(u) PROVE u[i] = v[i]
  <2>1. CASE i \in {1, 2}
    BY <1>5, <1>6, <1>8, <2>1
  <2>2. CASE i \in 3 .. Len(w)
    <3>1. i - 2 \in 1 .. Len(b) /\ 2 + (i - 2) = i /\ i \in 1 .. Len(w) /\ i - 2 \in 1 .. Len(d)
      BY <1>3, <1>6, <2>2
    <3> QED
      BY <1>3, <1>5, <1>6, <1>8, <3>1
  <2>3. CASE i = Len(w) + 1
    <3>1. Len(b) + 1 \in 1 .. Len(d) /\ 2 + (Len(b) + 1) = i
      BY <1>3, <1>6, <2>3
    <3> QED
      BY <1>3, <1>5, <1>8, <2>3, <3>1
  <2> QED
    BY <1>6, <1>8, <2>1, <2>2, <2>3
<1>10. Len(u) = Len(v)
  BY <1>3, <1>5, <1>6, <1>8
<1>11. u = v
  BY <1>5, <1>8, <1>9, <1>10, SeqEqual
<1> QED
  BY <1>1, <1>2, <1>4, <1>7, <1>11

LEMMA ShownEmpty ==
  Prompt \o << >> = Prompt
<1>1. Prompt \in Seq(Plain)
  BY DEF Prompt, Plain
<1> QED
  BY <1>1, ConcatEmptySeq

\* One character less.
LEMMA ShownShorter ==
  ASSUME NEW b \in Seq(Plain), NEW d \in Seq(Plain), Len(b) = Len(d) + 1,
         \A i \in 1 .. Len(d) : b[i] = d[i]
  PROVE  /\ Len(Prompt \o b) = Len(Prompt \o d) + 1
         /\ \A i \in 1 .. Len(Prompt \o d) : (Prompt \o b)[i] = (Prompt \o d)[i]
<1>1. PICK w : w = Prompt \o b
  OBVIOUS
<1>2. PICK v : v = Prompt \o d
  OBVIOUS
<1>3. /\ w \in Seq(Plain) /\ Len(w) = 2 + Len(b) /\ Len(b) \in Nat
      /\ w[1] = "K" /\ w[2] = ">" /\ \A i \in 1 .. Len(b) : w[2 + i] = b[i]
  BY <1>1, Shown
<1>4. /\ v \in Seq(Plain) /\ Len(v) = 2 + Len(d) /\ Len(d) \in Nat
      /\ v[1] = "K" /\ v[2] = ">" /\ \A i \in 1 .. Len(d) : v[2 + i] = d[i]
  BY <1>2, Shown
<1>5. ASSUME NEW i \in 1 .. Len(v) PROVE w[i] = v[i]
  <2>1. CASE i \in {1, 2}
    BY <1>3, <1>4, <2>1
  <2>2. CASE i \in 3 .. Len(v)
    <3>1. i - 2 \in 1 .. Len(d) /\ 2 + (i - 2) = i /\ i - 2 \in 1 .. Len(b)
      BY <1>3, <1>4, <2>2
    <3> QED
      BY <1>3, <1>4, <3>1
  <2> QED
    BY <1>4, <2>1, <2>2
<1>6. Len(w) = Len(v) + 1
  BY <1>3, <1>4
<1> QED
  BY <1>1, <1>2, <1>5, <1>6

\* Where the line of n characters starts, o: as far before the cursor as it is long,
\* or, when characters of it have stayed above the cursor's row, above that row.
Starts(s, n, mode, o) == IF mode = "all" THEN At(s) = o + n ELSE o <= Row(s.y)

\* The cells before o are the same in r.
SameBefore(s, r, o) == \A i \in 0 .. o - 1 : r.cell[i] = s.cell[i]

\* A cursor on the screen.
LEMMA CursorCell ==
  ASSUME NEW s, NEW w, NEW mode, Shows(s, w, mode)
  PROVE  /\ s.x \in Nat /\ s.y \in Nat /\ Row(s.y) \in Nat /\ At(s) \in Cells /\ At(s) \in Nat
         /\ At(s) = Row(s.y) + s.x
<1>1. PICK cell, x, y : Shape(s, cell, x, y)
  BY DEF Shows
<1>2. s.x = x /\ s.y = y /\ x \in Columns /\ y \in Lines
  BY <1>1 DEF Shape
<1>3. x \in Nat /\ y \in Nat /\ Row(y) \in Nat /\ Row(y) + x \in Cells
  BY <1>2, InCells
<1> QED
  BY <1>2, <1>3, CellsAreNumbers DEF At

\* The last character taken away, on the screen and in the line.
LEMMA EraseOne ==
  ASSUME NEW b \in Seq(Plain), NEW s, NEW mode \in {"all", "row"}, Shows(s, Prompt \o b, mode),
         NEW k \in Nat, Len(b) = k + 1, NEW o \in Int, Starts(s, k + 1, mode, o)
  PROVE  /\ SubSeq(b, 1, k) \in Seq(Plain) /\ Len(SubSeq(b, 1, k)) = k
         /\ Shows(vga_putchar(s, "BS"), Prompt \o SubSeq(b, 1, k), Left(s.x, mode))
         /\ Starts(vga_putchar(s, "BS"), k, Left(s.x, mode), o)
         /\ SameBefore(s, vga_putchar(s, "BS"), o)
         /\ vga_putchar(s, "BS").x = IF s.x = 0 THEN 0 ELSE s.x - 1
<1>1. PICK d : d = SubSeq(b, 1, k)
  OBVIOUS
<1>2. d \in Seq(Plain) /\ Len(d) = k /\ \A i \in 1 .. k : d[i] = b[i]
  <2>1. \A i \in 1 .. k : b[i] \in Plain
    BY ElementOfSeq
  <2>2. /\ SubSeq(b, 1, k) \in Seq(Plain)
        /\ Len(SubSeq(b, 1, k)) = IF 1 <= k THEN k - 1 + 1 ELSE 0
        /\ \A i \in 1 .. k - 1 + 1 : SubSeq(b, 1, k)[i] = b[1 + i - 1]
    BY <2>1, SubSeqProperties
  <2>3. \A i \in 1 .. k : i \in 1 .. k - 1 + 1 /\ 1 + i - 1 = i
    OBVIOUS
  <2>4. (IF 1 <= k THEN k - 1 + 1 ELSE 0) = k
    OBVIOUS
  <2> QED
    BY <1>1, <2>2, <2>3, <2>4
<1>3. /\ Len(Prompt \o b) = Len(Prompt \o d) + 1
      /\ \A i \in 1 .. Len(Prompt \o d) : (Prompt \o b)[i] = (Prompt \o d)[i]
  BY <1>2, ShownShorter
<1>4. Prompt \o b \in Seq(Plain) /\ Prompt \o d \in Seq(Plain)
  BY <1>2, Shown
<1>5. PICK r : r = vga_putchar(s, "BS")
  OBVIOUS
<1>6. Shows(r, Prompt \o d, Left(s.x, mode)) /\ Erased(s, r)
  BY <1>3, <1>4, <1>5, ShowsBackspace
<1>7. /\ s.x \in Nat /\ s.y \in Nat /\ Row(s.y) \in Nat /\ At(s) \in Cells /\ At(s) \in Nat
      /\ At(s) = Row(s.y) + s.x
  BY CursorCell
<1>8. r.y = s.y /\ r.x = (IF s.x = 0 THEN 0 ELSE s.x - 1) /\ At(r) = Row(s.y) + r.x
  BY <1>6 DEF Erased, At
<1>9. Starts(r, k, Left(s.x, mode), o)
  <2>1. CASE s.x = 0
    <3>1. o <= Row(s.y)
      BY <1>7, <2>1 DEF Starts
    <3> QED
      BY <1>8, <2>1, <3>1 DEF Starts, Left
  <2>2. CASE s.x # 0 /\ mode = "all"
    <3>1. At(s) = o + (k + 1) /\ At(r) = At(s) - 1
      BY <1>7, <1>8, <2>2 DEF Starts
    <3>2. At(r) = o + k
      BY <1>7, <3>1
    <3> QED
      BY <2>2, <3>2 DEF Starts, Left
  <2>3. CASE s.x # 0 /\ mode = "row"
    BY <1>8, <2>3 DEF Starts, Left
  <2> QED
    BY <2>1, <2>2, <2>3
<1>10. SameBefore(s, r, o)
  <2> SUFFICES ASSUME NEW i \in 0 .. o - 1 PROVE r.cell[i] = s.cell[i]
    BY DEF SameBefore
  <2>1. i < Row(s.y) \/ i < At(s) - 1
    <3>1. CASE mode = "all"
      <4>1. At(s) = o + (k + 1)
        BY <3>1 DEF Starts
      <4> QED
        BY <1>7, <4>1
    <3>2. CASE mode = "row"
      <4>1. o <= Row(s.y)
        BY <3>2 DEF Starts
      <4> QED
        BY <1>7, <4>1
    <3> QED
      BY <3>1, <3>2
  <2>2. i \in Cells
    BY <1>7, <2>1, AllCells
  <2> QED
    BY <1>6, <2>1, <2>2 DEF Erased
<1> QED
  BY <1>1, <1>2, <1>5, <1>6, <1>8, <1>9, <1>10

\* The reach after n backspaces from column x.
LeftOf(x, mode, n) == IF x < n THEN "row" ELSE mode

\* All of them taken away.
LEMMA EraseAll ==
  ASSUME NEW b \in Seq(Plain), NEW s, NEW mode \in {"all", "row"}, Shows(s, Prompt \o b, mode),
         NEW o \in Int, Starts(s, Len(b), mode, o)
  PROVE  LET r == vga_print(s, [i \in DOMAIN b |-> "BS"])
             m == LeftOf(s.x, mode, Len(b))
         IN  Shows(r, Prompt \o << >>, m) /\ Starts(r, 0, m, o) /\ SameBefore(s, r, o)
<1>1. Len(b) \in Nat /\ DOMAIN b = 1 .. Len(b) /\ \A i \in 1 .. Len(b) : b[i] \in Plain
  BY LenProperties, ElementOfSeq
<1>2. PICK str : str = [i \in DOMAIN b |-> "BS"]
  OBVIOUS
<1>3. Len(str) = Len(b) /\ \A i \in 1 .. Len(b) : str[i] = "BS"
  BY <1>1, <1>2
<1>4. PICK f : /\ f[0] = s
               /\ \A i \in 1 .. Len(str) : f[i] = vga_putchar(f[i - 1], str[i])
               /\ vga_print(s, str) = f[Len(str)]
  <2>1. Len(str) \in Nat
    BY <1>1, <1>3
  <2> QED
    BY <2>1, Printed
<1>5. s.x \in Nat
  BY CursorCell
<1> DEFINE T == {i \in 0 .. Len(b) : /\ SubSeq(b, 1, Len(b) - i) \in Seq(Plain)
                                     /\ Len(SubSeq(b, 1, Len(b) - i)) = Len(b) - i
                                     /\ Shows(f[i], Prompt \o SubSeq(b, 1, Len(b) - i),
                                              LeftOf(s.x, mode, i))
                                     /\ Starts(f[i], Len(b) - i, LeftOf(s.x, mode, i), o)
                                     /\ SameBefore(s, f[i], o)
                                     /\ f[i].x = IF s.x < i THEN 0 ELSE s.x - i}
<1>6. 0 \in T
  <2>1. SubSeq(b, 1, Len(b) - 0) = b
    BY <1>1, SubSeqFull
  <2>2. SameBefore(s, s, o) /\ LeftOf(s.x, mode, 0) = mode
    BY <1>5 DEF SameBefore, LeftOf
  <2>3. Len(b) - 0 = Len(b) /\ 0 \in 0 .. Len(b)
    BY <1>1
  <2>4. SubSeq(b, 1, Len(b) - 0) \in Seq(Plain) /\ Len(SubSeq(b, 1, Len(b) - 0)) = Len(b) - 0
    BY <2>1, <2>3
  <2>5. /\ Shows(f[0], Prompt \o SubSeq(b, 1, Len(b) - 0), LeftOf(s.x, mode, 0))
        /\ Starts(f[0], Len(b) - 0, LeftOf(s.x, mode, 0), o) /\ SameBefore(s, f[0], o)
    BY <1>4, <2>1, <2>2, <2>3
  <2>6. f[0].x = IF s.x < 0 THEN 0 ELSE s.x - 0
    BY <1>4, <1>5
  <2> QED
    BY <2>3, <2>4, <2>5, <2>6
<1>7. ASSUME NEW i \in 0 .. Len(b) - 1, i \in T PROVE i + 1 \in T
  <2>1. PICK k : k = Len(b) - (i + 1)
    OBVIOUS
  <2>2. k \in Nat /\ Len(b) - i = k + 1 /\ i + 1 \in 0 .. Len(b) /\ i + 1 \in 1 .. Len(b)
        /\ (i + 1) - 1 = i
    BY <1>1, <2>1
  <2>3. PICK d : d = SubSeq(b, 1, Len(b) - i)
    OBVIOUS
  <2>4. PICK m : m = LeftOf(s.x, mode, i)
    OBVIOUS
  <2>5. /\ d \in Seq(Plain) /\ Len(d) = k + 1 /\ Shows(f[i], Prompt \o d, m)
        /\ Starts(f[i], k + 1, m, o) /\ SameBefore(s, f[i], o)
        /\ f[i].x = IF s.x < i THEN 0 ELSE s.x - i
    BY <1>7, <2>2, <2>3, <2>4
  <2>6. f[i + 1] = vga_putchar(f[i], "BS")
    BY <1>3, <1>4, <2>2
  <2>7. m \in {"all", "row"}
    BY <2>4 DEF LeftOf
  <2>8. /\ SubSeq(d, 1, k) \in Seq(Plain) /\ Len(SubSeq(d, 1, k)) = k
        /\ Shows(f[i + 1], Prompt \o SubSeq(d, 1, k), Left(f[i].x, m))
        /\ Starts(f[i + 1], k, Left(f[i].x, m), o)
        /\ SameBefore(f[i], f[i + 1], o)
        /\ f[i + 1].x = IF f[i].x = 0 THEN 0 ELSE f[i].x - 1
    <3>1. PICK g : g = f[i]
      OBVIOUS
    <3>2. d \in Seq(Plain) /\ Len(d) = k + 1 /\ Shows(g, Prompt \o d, m) /\ Starts(g, k + 1, m, o)
      BY <2>5, <3>1
    <3>3. /\ SubSeq(d, 1, k) \in Seq(Plain) /\ Len(SubSeq(d, 1, k)) = k
          /\ Shows(vga_putchar(g, "BS"), Prompt \o SubSeq(d, 1, k), Left(g.x, m))
          /\ Starts(vga_putchar(g, "BS"), k, Left(g.x, m), o)
          /\ SameBefore(g, vga_putchar(g, "BS"), o)
          /\ vga_putchar(g, "BS").x = IF g.x = 0 THEN 0 ELSE g.x - 1
      BY <2>2, <2>7, <3>2, EraseOne
    <3> QED
      BY <2>6, <3>1, <3>3
  <2>9. Left(f[i].x, m) = LeftOf(s.x, mode, i + 1)
    <3>1. CASE s.x < i + 1
      <4>1. f[i].x = 0
        BY <1>5, <2>2, <2>5, <3>1
      <4> QED
        BY <3>1, <4>1 DEF Left, LeftOf
    <3>2. CASE ~ (s.x < i + 1)
      <4>1. ~ (s.x < i) /\ f[i].x # 0
        BY <1>5, <2>2, <2>5, <3>2
      <4> QED
        BY <2>4, <3>2, <4>1 DEF Left, LeftOf
    <3> QED
      BY <3>1, <3>2
  <2>10. f[i + 1].x = IF s.x < i + 1 THEN 0 ELSE s.x - (i + 1)
    BY <1>5, <2>2, <2>5, <2>8
  <2>11. SubSeq(d, 1, k) = SubSeq(b, 1, k)
    <3>1. /\ \A j \in 1 .. k + 1 : d[j] = b[j]
      <4>1. \A j \in 1 .. k + 1 : b[j] \in Plain
        BY <1>1, <2>2
      <4>2. \A j \in 1 .. (k + 1) - 1 + 1 : SubSeq(b, 1, k + 1)[j] = b[1 + j - 1]
        BY <2>2, <4>1, SubSeqProperties
      <4>3. \A j \in 1 .. k + 1 : j \in 1 .. (k + 1) - 1 + 1 /\ 1 + j - 1 = j
        BY <2>2
      <4> QED
        BY <2>2, <2>3, <4>2, <4>3
    <3>2. (\A j \in 1 .. k : b[j] \in Plain) /\ (\A j \in 1 .. k : d[j] \in Plain)
      BY <1>1, <2>2, <2>5, ElementOfSeq
    <3>3. /\ SubSeq(b, 1, k) \in Seq(Plain)
          /\ Len(SubSeq(b, 1, k)) = IF 1 <= k THEN k - 1 + 1 ELSE 0
          /\ \A j \in 1 .. k - 1 + 1 : SubSeq(b, 1, k)[j] = b[1 + j - 1]
      BY <2>2, <3>2, SubSeqProperties
    <3>4. \A j \in 1 .. k - 1 + 1 : SubSeq(d, 1, k)[j] = d[1 + j - 1]
      BY <2>2, <3>2, SubSeqProperties
    <3>5. \A j \in 1 .. k : j \in 1 .. k - 1 + 1 /\ 1 + j - 1 = j /\ j \in 1 .. k + 1
      BY <2>2
    <3>6. (IF 1 <= k THEN k - 1 + 1 ELSE 0) = k
      BY <2>2
    <3>7. \A j \in 1 .. k : SubSeq(d, 1, k)[j] = SubSeq(b, 1, k)[j]
      BY <3>1, <3>3, <3>4, <3>5
    <3>8. Len(SubSeq(b, 1, k)) = k
      BY <3>3, <3>6
    <3> QED
      BY <2>8, <3>3, <3>7, <3>8, SeqEqual
  <2>12. SameBefore(s, f[i + 1], o)
    BY <2>5, <2>8 DEF SameBefore
  <2>13. /\ SubSeq(b, 1, k) \in Seq(Plain) /\ Len(SubSeq(b, 1, k)) = k
         /\ Shows(f[i + 1], Prompt \o SubSeq(b, 1, k), LeftOf(s.x, mode, i + 1))
         /\ Starts(f[i + 1], k, LeftOf(s.x, mode, i + 1), o)
    BY <2>8, <2>9, <2>11
  <2> QED
    BY <2>1, <2>2, <2>10, <2>12, <2>13
<1> HIDE DEF T
<1>8. \A i \in 0 .. Len(b) : i \in T
  <2>1. \A i \in 0 .. Len(b) - 1 : i \in T => i + 1 \in T
    BY <1>7
  <2> QED
    BY <1>1, <1>6, <2>1, UpTo
<1>9. /\ Shows(f[Len(b)], Prompt \o SubSeq(b, 1, Len(b) - Len(b)), LeftOf(s.x, mode, Len(b)))
      /\ Starts(f[Len(b)], Len(b) - Len(b), LeftOf(s.x, mode, Len(b)), o)
      /\ SameBefore(s, f[Len(b)], o)
  <2>1. Len(b) \in 0 .. Len(b)
    BY <1>1
  <2>2. Len(b) \in T
    BY <1>8, <2>1
  <2> QED
    BY <2>2 DEF T
<1>10. SubSeq(b, 1, Len(b) - Len(b)) = << >> /\ Len(b) - Len(b) = 0
  BY <1>1, SubSeqEmpty
<1>11. vga_print(s, [i \in DOMAIN b |-> "BS"]) = f[Len(b)]
  BY <1>2, <1>3, <1>4
<1> QED
  BY <1>9, <1>10, <1>11

\* The cells before o are kept, and moved up if the line is, from o to p.
KeepsOutput(s, r, o, p) ==
  \A i \in 0 .. o - 1 : i >= o - p => r.cell[i - (o - p)] = s.cell[i]

LEMMA SameKeeps ==
  ASSUME NEW s, NEW r, NEW o \in Int, SameBefore(s, r, o)
  PROVE  KeepsOutput(s, r, o, o)
<1>1. \A i \in 0 .. o - 1 : i - (o - o) = i
  OBVIOUS
<1> QED
  BY <1>1 DEF KeepsOutput, SameBefore

\* Where the line starts once a character more has been put.
Onward(s, o) == IF Cursor(s) + 1 \in Cells THEN o ELSE o - VGA_WIDTH

LEMMA Further ==
  ASSUME NEW a \in Nat, NEW x \in Nat, NEW n \in Nat, NEW o \in Int, a + x = o + n
  PROVE  a + (x + 1) = o + (n + 1) /\ (a + x) + 1 = o + (n + 1)
  OBVIOUS

LEMMA InRow ==
  ASSUME NEW a \in Nat, NEW x \in Nat, NEW w \in Nat, NEW h \in Nat, a + w <= h, x + 1 < w
  PROVE  (a + x) + 1 \in 0 .. h - 1
  OBVIOUS

LEMMA PutKeeps ==
  ASSUME NEW s, NEW w, NEW mode \in {"all", "row"}, Shows(s, w, mode), NEW c \in Plain,
         NEW n \in Nat, NEW o \in Int, Starts(s, n, mode, o)
  PROVE  /\ KeepsOutput(s, vga_putchar(s, c), o, Onward(s, o))
         /\ Starts(vga_putchar(s, c), n + 1, mode, Onward(s, o))
<1>1. PICK cell, x, y : Shape(s, cell, x, y)
  BY DEF Shows
<1>2. /\ cell \in [Cells -> Plain] /\ x \in Columns /\ y \in Lines
      /\ s = [cell |-> cell, x |-> x, y |-> y]
  BY <1>1 DEF Shape
<1>3. /\ Row(y) + x \in Cells /\ Row(y) \in Nat /\ x \in Nat /\ x < VGA_WIDTH
      /\ y \in Nat /\ y < VGA_HEIGHT /\ Row(y + 1) = Row(y) + VGA_WIDTH
      /\ Row(y + 1) <= Row(VGA_HEIGHT)
  BY <1>2, InCells
<1>4. PICK new : new = Put(cell, Row(y) + x, c)
  OBVIOUS
<1>5. new \in [Cells -> Plain] /\ \A i \in Cells : i # Row(y) + x => new[i] = cell[i]
  BY <1>2, <1>3, <1>4, PutCells
<1>6. s.cell = cell /\ s.y = y /\ At(s) = Row(y) + x /\ Cursor(s) = Row(y) + x
  BY <1>2 DEF At, Cursor, Row
<1>7. o <= Row(y) + x /\ (mode = "all" => Row(y) + x = o + n) /\ (mode = "row" => o <= Row(y))
  BY <1>3, <1>6 DEF Starts
<1>8. \A i \in 0 .. o - 1 : i \in Cells /\ i # Row(y) + x
  BY <1>3, <1>7, AllCells
<1>9. \A i \in 0 .. o - 1 : new[i] = cell[i]
  BY <1>5, <1>8
<1>10. PICK r : r = vga_putchar(s, c)
  OBVIOUS
<1>11. ASSUME r.cell = new PROVE KeepsOutput(s, r, o, o)
  <2>1. SameBefore(s, r, o)
    BY <1>6, <1>9, <1>11 DEF SameBefore
  <2> QED
    BY <2>1, SameKeeps
<1>12. CASE x + 1 < VGA_WIDTH
  <2>1. r = [cell |-> new, x |-> x + 1, y |-> y]
    BY <1>2, <1>4, <1>10, <1>12, PutPlain
  <2>2. r.cell = new /\ r.y = y /\ At(r) = Row(y) + (x + 1)
    BY <2>1 DEF At
  <2>3. (Row(y) + x) + 1 \in Cells
    <3>1. Row(y) + VGA_WIDTH <= Row(VGA_HEIGHT) /\ Row(VGA_HEIGHT) \in Nat
      BY <1>3, AllCells
    <3>2. (Row(y) + x) + 1 \in 0 .. Row(VGA_HEIGHT) - 1
      BY <1>3, <1>12, <3>1, InRow, Sizes
    <3> QED
      BY <3>2, AllCells
  <2>4. Onward(s, o) = o
    BY <1>6, <2>3 DEF Onward
  <2>5. Starts(r, n + 1, mode, o)
    <3>1. CASE mode = "all"
      <4>1. Row(y) + (x + 1) = o + (n + 1)
        BY <1>3, <1>7, <3>1, Further
      <4> QED
        BY <2>2, <3>1, <4>1 DEF Starts
    <3>2. CASE mode = "row"
      BY <1>7, <2>2, <3>2 DEF Starts
    <3> QED
      BY <3>1, <3>2
  <2> QED
    BY <1>10, <1>11, <2>2, <2>4, <2>5
<1>13. CASE ~ (x + 1 < VGA_WIDTH)
  <2>1. r = Brought(new, y + 1)
    BY <1>2, <1>4, <1>10, <1>13, PutPlain
  <2>2. (Row(y) + x) + 1 = Row(y + 1)
    BY <1>3, <1>13, Sizes
  <2>3. CASE y + 1 < VGA_HEIGHT
    <3>1. r = [cell |-> new, x |-> 0, y |-> y + 1]
      BY <2>1, <2>3 DEF Brought
    <3>2. Row(y + 1) \in Nat /\ Row(y + 1) <= Row(VGA_HEIGHT - 1)
      BY <1>3, <2>3, Rows, Sizes
    <3>3. r.cell = new /\ r.y = y + 1 /\ At(r) = Row(y + 1)
      BY <3>1, <3>2 DEF At
    <3>4. Row(y + 1) \in Cells
      BY <3>2, AllCells, Sizes
    <3>5. Onward(s, o) = o
      BY <1>6, <2>2, <3>4 DEF Onward
    <3>6. Starts(r, n + 1, mode, o)
      <4>1. CASE mode = "all"
        <5>1. Row(y + 1) = o + (n + 1)
          BY <1>3, <1>7, <2>2, <4>1
        <5> QED
          BY <3>3, <4>1, <5>1 DEF Starts
      <4>2. CASE mode = "row"
        <5>1. o <= Row(y + 1)
          BY <1>3, <1>7, <4>2, Sizes
        <5> QED
          BY <3>3, <4>2, <5>1 DEF Starts
      <4> QED
        BY <4>1, <4>2
    <3> QED
      BY <1>10, <1>11, <3>3, <3>5, <3>6
  <2>4. CASE ~ (y + 1 < VGA_HEIGHT)
    <3>1. r = [cell |-> Up(new), x |-> 0, y |-> VGA_HEIGHT - 1]
      BY <2>1, <2>4 DEF Brought
    <3>2. y + 1 = VGA_HEIGHT /\ y = VGA_HEIGHT - 1
      BY <1>3, <2>4, Sizes
    <3>3. r.cell = Up(new) /\ r.y = y /\ At(r) = Row(y)
      BY <1>3, <3>1, <3>2 DEF At
    <3>4. Row(y + 1) \notin Cells
      BY <3>2, AllCells
    <3>5. Onward(s, o) = o - VGA_WIDTH
      BY <1>6, <2>2, <3>4 DEF Onward
    <3>6. Starts(r, n + 1, mode, o - VGA_WIDTH)
      <4>1. CASE mode = "all"
        <5>1. Row(y) + VGA_WIDTH = o + (n + 1)
          BY <1>3, <1>7, <2>2, <4>1, Further
        <5>2. Row(y) = (o - VGA_WIDTH) + (n + 1)
          BY <1>3, <5>1, Sizes
        <5> QED
          BY <3>3, <4>1, <5>2 DEF Starts
      <4>2. CASE mode = "row"
        <5>1. o - VGA_WIDTH <= Row(y)
          BY <1>3, <1>7, <4>2, Sizes
        <5> QED
          BY <3>3, <4>2, <5>1 DEF Starts
      <4> QED
        BY <4>1, <4>2
    <3>7. o - (o - VGA_WIDTH) = VGA_WIDTH
      BY Sizes
    <3>8. \A i \in 0 .. o - 1 : i >= VGA_WIDTH => Up(new)[i - VGA_WIDTH] = cell[i]
      BY <1>5, <1>8, <1>9, UpCells
    <3>9. KeepsOutput(s, r, o, o - VGA_WIDTH)
      BY <1>6, <3>3, <3>7, <3>8 DEF KeepsOutput
    <3> QED
      BY <1>10, <3>5, <3>6, <3>9
  <2> QED
    BY <2>3, <2>4
<1> QED
  BY <1>12, <1>13

-----------------------------------------------------------------------------
(* The editor.                                                             *)

\* A line that fits into shell_buffer with its terminator.
Line(b) == b \in Seq(Plain) /\ Len(b) < SHELL_BUFFER_SIZE

\* The line, the history and the lines entered are texts of plain characters.
Texts ==
  /\ Line(shell_buffer)
  /\ DOMAIN shell_history = 0 .. SHELL_HISTORY_SIZE - 1
  /\ \A i \in 0 .. SHELL_HISTORY_SIZE - 1 : Line(shell_history[i])
  /\ shell_history_count \in Nat
  /\ entered \in Seq(Seq(Plain))

Modifiers ==
  /\ kb_pressed \in [{"shift", "ctrl", "alt"} -> BOOLEAN]
  /\ kb_capslock_on \in BOOLEAN

\* How much of the prompt and the line the screen is sure to show.
Extent == IF stuck THEN "row" ELSE "all"

Display ==
  /\ stuck \in BOOLEAN /\ origin \in Int
  /\ Shows(screen, Prompt \o shell_buffer, Extent)
  /\ Starts(screen, Len(shell_buffer), Extent, origin)

\* The output before the line is kept.
OutputKept == KeepsOutput(screen, screen', origin, origin')

EditorInv == Texts /\ Modifiers /\ Display

\* The prompt of a new line.
LEMMA NewLine ==
  ASSUME NEW s, Shows(s, Prompt, "all")
  PROVE  /\ Shows(s, Prompt \o << >>, "all") /\ Starts(s, Len(<< >>), "all", Cursor(s))
         /\ Cursor(s) \in Int
<1>1. At(s) \in Nat /\ At(s) = Cursor(s)
  BY CursorCell DEF At, Cursor, Row
<1>2. Cursor(s) = Cursor(s) + 0 /\ Len(<< >>) = 0
  BY <1>1, EmptySeq
<1> QED
  BY <1>1, <1>2, ShownEmpty DEF Starts

LEMMA EditorInit == Init => EditorInv
<1> SUFFICES ASSUME Init PROVE EditorInv
  OBVIOUS
<1>1. SHELL_BUFFER_SIZE \in Nat /\ SHELL_BUFFER_SIZE > 0 /\ << >> \in Seq(Plain) /\ Len(<< >>) = 0
  BY SizeAssumption, EmptySeq
<1>2. Texts
  BY <1>1, EmptySeq DEF Init, Texts, Line
<1>3. Modifiers
  BY DEF Init, Modifiers
<1>4. PICK rows \in 0 .. VGA_HEIGHT - 1 :
         screen = shell_print_prompt(
                    vga_print(vga_clear, [n \in 1 .. 2 * rows |-> IF n % 2 = 1 THEN "#" ELSE "\n"]))
  BY DEF Init
<1>5. PICK str : str = [n \in 1 .. 2 * rows |-> IF n % 2 = 1 THEN "#" ELSE "\n"]
  OBVIOUS
<1>6. str \in Seq(Text)
  <2>1. "#" \in Text /\ "\n" \in Text
    BY DEF Text, Plain
  <2>2. 2 * rows \in Nat
    OBVIOUS
  <2> QED
    BY <1>5, <2>1, <2>2
<1>7. Shows(screen, Prompt, "all")
  BY <1>4, <1>5, <1>6, CleanClear, CleanPrint, ShowsPrompt
<1>8. shell_buffer = << >> /\ origin = Cursor(screen) /\ stuck = FALSE /\ Extent = "all"
  BY DEF Init, Extent
<1>9. Display
  BY <1>7, <1>8, NewLine DEF Display
<1> QED
  BY <1>2, <1>3, <1>9 DEF EditorInv

\* Nothing of the line and the screen changed.
LEMMA Idle ==
  ASSUME EditorInv, UNCHANGED <<shell_buffer, screen, origin, stuck>>
  PROVE  Display' /\ OutputKept
<1>1. SameBefore(screen, screen', origin)
  BY DEF SameBefore
<1>2. origin \in Int /\ origin' = origin
  BY DEF EditorInv, Display
<1>3. OutputKept
  BY <1>1, <1>2, SameKeeps DEF OutputKept
<1> QED
  BY <1>3 DEF EditorInv, Display, Extent

LEMMA AppendKeeps ==
  ASSUME EditorInv, NEW c \in Plain \cup {"\t"}, append(c)
  PROVE  Texts' /\ Display' /\ OutputKept /\ entered' = entered
<1>1. UNCHANGED <<shell_history, shell_history_count, entered>>
  BY DEF append
<1>2. CASE c \notin {"", "\t"} /\ has_room
  <2>1. /\ shell_buffer' = Append(shell_buffer, c) /\ screen' = vga_putchar(screen, c) /\ c \in Plain
        /\ origin' = Onward(screen, origin) /\ stuck' = stuck
    BY <1>2 DEF append, Onward
  <2>2. PICK b : b = shell_buffer
    OBVIOUS
  <2>3. b \in Seq(Plain) /\ Len(b) < SHELL_BUFFER_SIZE - 1 /\ SHELL_BUFFER_SIZE \in Nat
    BY <1>2, <2>2, SizeAssumption DEF EditorInv, Texts, Line, has_room
  <2>4. Append(b, c) \in Seq(Plain) /\ Len(Append(b, c)) = Len(b) + 1 /\ Len(b) \in Nat
    BY <2>1, <2>3, AppendProperties, LenProperties
  <2>5. Line(shell_buffer')
    BY <2>1, <2>2, <2>3, <2>4 DEF Line
  <2>6. Texts'
    BY <1>1, <2>5 DEF EditorInv, Texts
  <2>7. PICK m : m = Extent
    OBVIOUS
  <2>8. m \in {"all", "row"} /\ Extent' = m
    BY <2>1, <2>7 DEF Extent
  <2>9. /\ Shows(screen, Prompt \o b, m) /\ Prompt \o b \in Seq(Plain)
        /\ Starts(screen, Len(b), m, origin) /\ origin \in Int /\ stuck \in BOOLEAN
    BY <2>2, <2>3, <2>7, Shown DEF EditorInv, Display
  <2>10. Shows(vga_putchar(screen, c), Append(Prompt \o b, c), m)
    BY <2>1, <2>8, <2>9, ShowsAppend
  <2>11. Shows(screen', Prompt \o shell_buffer', m)
    BY <2>1, <2>2, <2>3, <2>10, ShownAppend
  <2>12. /\ KeepsOutput(screen, vga_putchar(screen, c), origin, Onward(screen, origin))
         /\ Starts(vga_putchar(screen, c), Len(b) + 1, m, Onward(screen, origin))
    BY <2>1, <2>4, <2>8, <2>9, PutKeeps
  <2>13. Starts(screen', Len(shell_buffer'), m, origin') /\ OutputKept
    BY <2>1, <2>2, <2>4, <2>12 DEF OutputKept
  <2>14. origin' \in Int
    BY <2>1, <2>9, Sizes DEF Onward
  <2>15. Display'
    BY <2>1, <2>8, <2>9, <2>11, <2>13, <2>14 DEF Display
  <2> QED
    BY <1>1, <2>6, <2>13, <2>15
<1>3. CASE ~ (c \notin {"", "\t"} /\ has_room)
  <2>1. UNCHANGED <<shell_buffer, screen, origin, stuck>>
    BY <1>3 DEF append
  <2>2. Texts'
    BY <1>1, <2>1 DEF EditorInv, Texts
  <2> QED
    BY <1>1, <2>1, <2>2, Idle
<1> QED
  BY <1>2, <1>3

LEMMA BackspaceKeeps ==
  ASSUME EditorInv, backspace
  PROVE  Texts' /\ Display' /\ OutputKept /\ entered' = entered
<1>1. UNCHANGED <<shell_history, shell_history_count, entered>>
  BY DEF backspace
<1>2. CASE shell_buffer # << >>
  <2>1. /\ shell_buffer' = Front(shell_buffer) /\ screen' = vga_putchar(screen, "BS")
        /\ origin' = origin /\ stuck' = (stuck \/ screen.x < 1)
    BY <1>2 DEF backspace
  <2>2. PICK b : b = shell_buffer
    OBVIOUS
  <2>3. b \in Seq(Plain) /\ Len(b) < SHELL_BUFFER_SIZE /\ SHELL_BUFFER_SIZE \in Nat
    BY <2>2, SizeAssumption DEF EditorInv, Texts, Line
  <2>4. Len(b) \in Nat \ {0}
    BY <1>2, <2>2, <2>3, EmptySeq
  <2>5. PICK k : k = Len(b) - 1
    OBVIOUS
  <2>6. k \in Nat /\ Len(b) = k + 1 /\ k < SHELL_BUFFER_SIZE
    BY <2>3, <2>4, <2>5
  <2>7. shell_buffer' = SubSeq(b, 1, k)
    BY <2>1, <2>2, <2>5 DEF Front
  <2>8. PICK m : m = Extent
    OBVIOUS
  <2>9. /\ m \in {"all", "row"} /\ Shows(screen, Prompt \o b, m)
        /\ Starts(screen, k + 1, m, origin) /\ origin \in Int
    BY <2>2, <2>6, <2>8 DEF EditorInv, Display, Extent
  <2>10. /\ SubSeq(b, 1, k) \in Seq(Plain) /\ Len(SubSeq(b, 1, k)) = k
         /\ Shows(vga_putchar(screen, "BS"), Prompt \o SubSeq(b, 1, k), Left(screen.x, m))
         /\ Starts(vga_putchar(screen, "BS"), k, Left(screen.x, m), origin)
         /\ SameBefore(screen, vga_putchar(screen, "BS"), origin)
    BY <2>3, <2>6, <2>9, EraseOne
  <2>11. Line(shell_buffer')
    BY <2>6, <2>7, <2>10 DEF Line
  <2>12. Texts'
    BY <1>1, <2>11 DEF EditorInv, Texts
  <2>13. stuck' \in BOOLEAN /\ Extent' = Left(screen.x, m)
    <3>1. screen.x \in Nat
      BY <2>9, CursorCell
    <3>2. screen.x < 1 <=> screen.x = 0
      BY <3>1
    <3>3. stuck' = (stuck \/ screen.x = 0)
      BY <2>1, <3>2
    <3> QED
      BY <2>8, <3>3 DEF Extent, Left
  <2>14. Display'
    BY <2>1, <2>7, <2>9, <2>10, <2>13 DEF Display
  <2>15. OutputKept
    BY <2>1, <2>9, <2>10, SameKeeps DEF OutputKept
  <2> QED
    BY <1>1, <2>12, <2>14, <2>15
<1>3. CASE ~ (shell_buffer # << >>)
  <2>1. UNCHANGED <<shell_buffer, screen, origin, stuck>>
    BY <1>3 DEF backspace
  <2>2. Texts'
    BY <1>1, <2>1 DEF EditorInv, Texts
  <2> QED
    BY <1>1, <2>1, <2>2, Idle
<1> QED
  BY <1>2, <1>3

LEMMA ClearLineKeeps ==
  ASSUME EditorInv, shell_clear_line
  PROVE  Texts' /\ Display' /\ OutputKept /\ entered' = entered
<1>1. /\ UNCHANGED <<shell_history, shell_history_count, entered>> /\ shell_buffer' = << >>
      /\ screen' = vga_print(screen, [i \in DOMAIN shell_buffer |-> "BS"])
      /\ origin' = origin /\ stuck' = (stuck \/ screen.x < Len(shell_buffer))
  BY DEF shell_clear_line
<1>2. Line(shell_buffer')
  BY <1>1, SizeAssumption, EmptySeq DEF Line
<1>3. Texts'
  BY <1>1, <1>2 DEF EditorInv, Texts
<1>4. PICK b : b = shell_buffer
  OBVIOUS
<1>5. PICK m : m = Extent
  OBVIOUS
<1>6. /\ b \in Seq(Plain) /\ m \in {"all", "row"} /\ Shows(screen, Prompt \o b, m)
      /\ Starts(screen, Len(b), m, origin) /\ origin \in Int
  BY <1>4, <1>5 DEF EditorInv, Texts, Line, Display, Extent
<1>7. PICK r : r = vga_print(screen, [i \in DOMAIN b |-> "BS"])
  OBVIOUS
<1>8. PICK q : q = LeftOf(screen.x, m, Len(b))
  OBVIOUS
<1>9. Shows(r, Prompt \o << >>, q) /\ Starts(r, 0, q, origin) /\ SameBefore(screen, r, origin)
  BY <1>6, <1>7, <1>8, EraseAll
<1>10. screen' = r /\ Len(<< >>) = 0
  BY <1>1, <1>4, <1>7, EmptySeq
<1>11. stuck' \in BOOLEAN /\ Extent' = q
  BY <1>1, <1>4, <1>5, <1>8 DEF Extent, LeftOf
<1>12. Display'
  BY <1>1, <1>6, <1>9, <1>10, <1>11 DEF Display
<1>13. OutputKept
  BY <1>1, <1>6, <1>9, <1>10, SameKeeps DEF OutputKept
<1> QED
  BY <1>1, <1>3, <1>12, <1>13

LEMMA EnterKeeps ==
  ASSUME EditorInv, enter
  PROVE  Texts' /\ Display' /\ entered' # entered
<1>1. /\ screen' = shell_print_prompt(shell_execute(vga_putchar(screen, "\n"), shell_buffer))
      /\ shell_add_to_history(shell_buffer) /\ shell_buffer' = << >>
      /\ entered' = Append(entered, shell_buffer)
  BY DEF enter
<1>2. Line(shell_buffer) /\ Line(shell_buffer')
  BY <1>1, SizeAssumption, EmptySeq DEF EditorInv, Texts, Line
<1>3. shell_buffer \in Seq(Plain) /\ entered \in Seq(Seq(Plain))
  BY <1>2 DEF EditorInv, Texts, Line
<1>4. entered' \in Seq(Seq(Plain)) /\ entered' # entered
  <2>1. /\ Append(entered, shell_buffer) \in Seq(Seq(Plain))
        /\ Len(Append(entered, shell_buffer)) = Len(entered) + 1 /\ Len(entered) \in Nat
    BY <1>3, AppendProperties, LenProperties
  <2>2. Len(entered') # Len(entered)
    BY <1>1, <2>1
  <2> QED
    BY <1>1, <2>1, <2>2
<1>5. /\ DOMAIN shell_history' = 0 .. SHELL_HISTORY_SIZE - 1
      /\ \A i \in 0 .. SHELL_HISTORY_SIZE - 1 : Line(shell_history'[i])
      /\ shell_history_count' \in Nat
  <2>1. CASE UNCHANGED <<shell_history, shell_history_count>>
    BY <2>1 DEF EditorInv, Texts
  <2>2. CASE /\ shell_history' =
                  [shell_history EXCEPT ![shell_history_count % SHELL_HISTORY_SIZE] = shell_buffer]
             /\ shell_history_count' = shell_history_count + 1
    BY <1>2, <2>2 DEF EditorInv, Texts
  <2> QED
    BY <1>1, <2>1, <2>2 DEF shell_add_to_history
<1>6. Texts'
  BY <1>2, <1>4, <1>5 DEF Texts
<1>7. Clean(screen)
  BY ShowsClean DEF EditorInv, Display
<1>8. Shows(screen', Prompt, "all")
  BY <1>1, <1>3, <1>7, ShowsNewline, CleanExecute, ShowsPrompt
<1>9. origin' = Cursor(screen') /\ stuck' = FALSE /\ Extent' = "all"
  BY DEF enter, Extent
<1>10. Display'
  BY <1>1, <1>8, <1>9, NewLine DEF Display
<1> QED
  BY <1>4, <1>6, <1>10

-----------------------------------------------------------------------------
(* Decoding a key.                                                         *)

LEMMA Decoded ==
  ASSUME NEW k \in DOMAIN scancode_to_ascii_lower
  PROVE  kb_scancode_to_ascii(k) \in {"e", "E", "1", "!", " ", "\n", "BS", "esc", "\t", ""}
<1>1. k \in {"e", "digit", "space", "enter", "backspace", "esc", "tab", "f1"}
  BY DEF scancode_to_ascii_lower
<1>2. PICK f : f = scancode_to_ascii_lower
  OBVIOUS
<1>3. /\ f["e"] = "e" /\ f["digit"] = "1" /\ f["space"] = " " /\ f["enter"] = "\n"
      /\ f["backspace"] = "BS" /\ f["esc"] = "esc" /\ f["tab"] = "\t" /\ f["f1"] = ""
  BY <1>2 DEF scancode_to_ascii_lower
<1>4. DOMAIN f = {"e", "digit", "space", "enter", "backspace", "esc", "tab", "f1"}
  BY <1>2 DEF scancode_to_ascii_lower
<1>5. PICK g : g = [f EXCEPT !["e"] = "E"]
  OBVIOUS
<1>6. /\ DOMAIN g = DOMAIN f /\ g["e"] = "E"
      /\ \A j \in DOMAIN f : j # "e" => g[j] = f[j]
  BY <1>4, <1>5
<1>7. PICK h : h = [g EXCEPT !["digit"] = "!"]
  OBVIOUS
<1>8. h["digit"] = "!" /\ \A j \in DOMAIN f : j # "digit" => h[j] = g[j]
  BY <1>4, <1>6, <1>7
<1>9. scancode_to_ascii_upper = h
  BY <1>2, <1>5, <1>7 DEF scancode_to_ascii_upper
<1>10. f[k] \in {"e", "1", " ", "\n", "BS", "esc", "\t", ""}
  BY <1>1, <1>3
<1>11. h[k] \in {"E", "!", " ", "\n", "BS", "esc", "\t", ""}
  <2>1. CASE k = "e"
    BY <1>4, <1>6, <1>8, <2>1
  <2>2. CASE k = "digit"
    BY <1>8, <2>2
  <2>3. CASE k \notin {"e", "digit"}
    <3>1. k \in DOMAIN f /\ h[k] = f[k]
      BY <1>1, <1>4, <1>6, <1>8, <2>3
    <3>2. f[k] \in {" ", "\n", "BS", "esc", "\t", ""}
      BY <1>1, <1>3, <2>3
    <3> QED
      BY <3>1, <3>2
  <2> QED
    BY <2>1, <2>2, <2>3
<1> QED
  BY <1>2, <1>9, <1>10, <1>11 DEF kb_scancode_to_ascii

\* What a key that is pressed makes the editor do.
LEMMA Pressed ==
  ASSUME NEW k, press(k)
  PROVE  \/ enter \/ backspace \/ shell_clear_line
         \/ \E c \in Plain \cup {"\t"} : append(c)
<1>1. PICK c : c = kb_scancode_to_ascii(k)
  OBVIOUS
<1>2. c # "" /\ shell_readline(c) /\ k \in DOMAIN scancode_to_ascii_lower
  BY <1>1 DEF press
<1>3. c \in {"e", "E", "1", "!", " ", "\n", "BS", "esc", "\t"}
  BY <1>1, <1>2, Decoded
<1>4. CASE c \in {"\n", "BS", "esc"}
  BY <1>2, <1>4 DEF shell_readline
<1>5. CASE c \in {"e", "E", "1", "!", " ", "\t"}
  <2>1. append(c)
    BY <1>2, <1>5 DEF shell_readline
  <2>2. c \in Plain \cup {"\t"}
    BY <1>5 DEF Plain
  <2> QED
    BY <2>1, <2>2
<1> QED
  BY <1>3, <1>4, <1>5

LEMMA ModifiersKept ==
  ASSUME Modifiers, NEW k, release(k) \/ press_modifier(k) \/ press_capslock(k)
  PROVE  Modifiers' /\ UNCHANGED line
<1>1. \A m \in DOMAIN Modifier : Modifier[m] \in {"shift", "ctrl", "alt"}
  BY DEF Modifier
<1>2. CASE release(k)
  BY <1>1, <1>2 DEF release, Modifiers
<1>3. CASE press_modifier(k)
  BY <1>1, <1>3 DEF press_modifier, Modifiers
<1>4. CASE press_capslock(k)
  BY <1>4 DEF press_capslock, Modifiers
<1> QED
  BY <1>2, <1>3, <1>4

LEMMA EditorNext ==
  ASSUME EditorInv, [Next]_vars
  PROVE  EditorInv' /\ (entered' = entered => OutputKept)
<1>1. ASSUME UNCHANGED line, Modifiers'
      PROVE  EditorInv' /\ OutputKept
  <2>1. UNCHANGED <<shell_buffer, screen, origin, stuck>> /\ Texts'
    BY <1>1 DEF line, EditorInv, Texts
  <2> QED
    BY <1>1, <2>1, Idle DEF EditorInv
<1>2. CASE UNCHANGED vars
  <2>1. UNCHANGED line /\ Modifiers'
    BY <1>2 DEF vars, kb, EditorInv, Modifiers
  <2> QED
    BY <1>1, <2>1
<1>3. ASSUME NEW k, release(k) \/ press_modifier(k) \/ press_capslock(k)
      PROVE  EditorInv' /\ OutputKept
  BY <1>1, <1>3, ModifiersKept DEF EditorInv
<1>4. ASSUME NEW k, press(k)
      PROVE  EditorInv' /\ (entered' = entered => OutputKept)
  <2>1. Modifiers'
    BY <1>4 DEF press, kb, EditorInv, Modifiers
  <2>2. Texts' /\ Display' /\ (entered' = entered => OutputKept)
    BY <1>4, Pressed, AppendKeeps, BackspaceKeeps, ClearLineKeeps, EnterKeeps
  <2> QED
    BY <2>1, <2>2 DEF EditorInv
<1> QED
  BY <1>2, <1>3, <1>4 DEF Next

LEMMA EditorTypes == EditorInv => TypeOK
<1> SUFFICES ASSUME EditorInv PROVE TypeOK
  OBVIOUS
<1>1. PICK cell, x, y : Shape(screen, cell, x, y)
  BY DEF EditorInv, Display, Shows
<1>2. /\ screen.x \in 0 .. VGA_WIDTH - 1 /\ screen.y \in 0 .. VGA_HEIGHT - 1
      /\ DOMAIN screen.cell = Cells
  BY <1>1 DEF Shape, Columns, Lines
<1> QED
  BY <1>2 DEF EditorInv, Texts, Line, Modifiers, TypeOK

LEMMA EditorBlank == EditorInv => BlankAhead
<1> SUFFICES ASSUME EditorInv PROVE BlankAhead
  OBVIOUS
<1>1. PICK cell, x, y : Shape(screen, cell, x, y) /\ Empty(cell, Row(y) + x)
  BY DEF EditorInv, Display, Shows
<1> QED
  BY <1>1 DEF Shape, Empty, Row, Cursor, BlankAhead

LEMMA MinOf ==
  ASSUME NEW a \in Nat, NEW b \in Nat
  PROVE  Min({a, b}) \in Nat /\ Min({a, b}) <= a /\ Min({a, b}) <= b
<1>1. \E m \in {a, b} : \A k \in {a, b} : m <= k
  BY LeastElement
<1>2. Min({a, b}) \in {a, b} /\ \A k \in {a, b} : Min({a, b}) <= k
  BY <1>1 DEF Min
<1> QED
  BY <1>2

LEMMA EditorShown == EditorInv => LineShown
<1> SUFFICES ASSUME EditorInv PROVE LineShown
  OBVIOUS
<1>1. PICK w : w = Prompt \o shell_buffer
  OBVIOUS
<1>2. PICK cell, x, y : /\ Shape(screen, cell, x, y)
                        /\ Ends(cell, Row(y) + x, Reach(Extent, x, y), w)
  BY <1>1 DEF EditorInv, Display, Shows
<1>3. screen.cell = cell /\ screen.x = x /\ screen.y = y /\ x \in Nat /\ Row(y) \in Nat
  BY <1>2, InCells DEF Shape
<1>4. Len(w) \in Nat
  BY <1>1, Shown DEF EditorInv, Texts, Line
<1>5. Cursor(screen) = Row(y) + x
  BY <1>3 DEF Cursor, Row
<1>6. PICK r : r = IF stuck THEN screen.x ELSE Cursor(screen)
  OBVIOUS
<1>7. r = Reach(Extent, x, y) /\ r \in Nat
  <2>1. CASE stuck
    BY <1>3, <1>6, <2>1 DEF Reach, Extent
  <2>2. CASE ~ stuck
    BY <1>3, <1>5, <1>6, <2>2 DEF Reach, Extent
  <2> QED
    BY <2>1, <2>2
<1>8. \A i \in 1 .. r : i <= Len(w) => cell[(Row(y) + x) - i] = w[Len(w) + 1 - i]
  BY <1>2, <1>7 DEF Ends
<1>9. \A i \in 1 .. Min({r, Len(w)}) : i \in 1 .. r /\ i <= Len(w)
  <2>1. PICK m : m = Min({r, Len(w)})
    OBVIOUS
  <2>2. m \in Nat /\ m <= r /\ m <= Len(w)
    BY <1>4, <1>7, <2>1, MinOf
  <2>3. \A i \in 1 .. m : i \in 1 .. r /\ i <= Len(w)
    BY <1>4, <1>7, <2>2
  <2> QED
    BY <2>1, <2>3
<1>10. \A i \in 1 .. Min({r, Len(w)}) : cell[(Row(y) + x) - i] = w[Len(w) + 1 - i]
  BY <1>8, <1>9, Zenon
<1>11. \A i \in 1 .. Min({r, Len(w)}) : screen.cell[Cursor(screen) - i] = w[Len(w) + 1 - i]
  BY <1>3, <1>5, <1>10
<1> QED
  BY <1>1, <1>6, <1>11, Zenon DEF LineShown

-----------------------------------------------------------------------------
(* The history, as a function of the lines entered.                        *)

Precedes(e, m, n) == m < n /\ e[m] # << >> /\ \A k \in m + 1 .. n - 1 : e[k] = << >>
Kept(e) ==
  {n \in DOMAIN e : e[n] # << >> /\ \A m \in DOMAIN e : Precedes(e, m, n) => e[m] # e[n]}

\* Line n is the last one that is not empty.
Final(e, n) == n \in DOMAIN e /\ e[n] # << >> /\ \A k \in n + 1 .. Len(e) : e[k] = << >>

LEMMA KeptIsRemembered == Remembered = Kept(entered)
BY DEF Remembered, Kept, Before, Precedes

\* The lines of e with one more.
Longer(e, v, f) ==
  /\ DOMAIN e = 1 .. Len(e) /\ Len(e) \in Nat /\ Len(f) = Len(e) + 1 /\ DOMAIN f = 1 .. Len(f)
  /\ f[Len(e) + 1] = v /\ \A i \in 1 .. Len(e) : f[i] = e[i]

LEMMA LongerAppend ==
  ASSUME NEW S, NEW e \in Seq(S), NEW v \in S
  PROVE  Longer(e, v, Append(e, v))
<1>1. /\ Append(e, v) \in Seq(S) /\ Len(Append(e, v)) = Len(e) + 1
      /\ Append(e, v)[Len(e) + 1] = v /\ \A i \in 1 .. Len(e) : Append(e, v)[i] = e[i]
  BY AppendProperties
<1>2. /\ DOMAIN e = 1 .. Len(e) /\ Len(e) \in Nat
      /\ DOMAIN Append(e, v) = 1 .. Len(Append(e, v))
  BY <1>1, LenProperties
<1> QED
  BY <1>1, <1>2 DEF Longer

\* Which of the old lines are kept does not change.
LEMMA KeptOld ==
  ASSUME NEW e, NEW v, NEW f, Longer(e, v, f)
  PROVE  \A n \in 1 .. Len(e) : n \in Kept(f) <=> n \in Kept(e)
<1> SUFFICES ASSUME NEW n \in 1 .. Len(e) PROVE n \in Kept(f) <=> n \in Kept(e)
  OBVIOUS
<1>1. /\ DOMAIN e = 1 .. Len(e) /\ Len(e) \in Nat /\ DOMAIN f = 1 .. Len(e) + 1
      /\ \A i \in 1 .. Len(e) : f[i] = e[i]
  BY DEF Longer
<1>2. ASSUME NEW m \in 1 .. Len(e) PROVE Precedes(f, m, n) <=> Precedes(e, m, n)
  <2>1. f[m] = e[m] /\ \A k \in m + 1 .. n - 1 : f[k] = e[k]
    BY <1>1
  <2> QED
    BY <2>1 DEF Precedes
<1>3. ~ Precedes(f, Len(e) + 1, n)
  BY <1>1 DEF Precedes
<1>4. f[n] = e[n] /\ n \in DOMAIN f /\ n \in DOMAIN e
  BY <1>1
<1>5. (\A m \in DOMAIN f : Precedes(f, m, n) => f[m] # f[n])
        <=> (\A m \in DOMAIN e : Precedes(e, m, n) => e[m] # e[n])
  <2>1. \A m \in DOMAIN f : m \in 1 .. Len(e) \/ m = Len(e) + 1
    BY <1>1
  <2>2. \A m \in DOMAIN e : m \in DOMAIN f /\ m \in 1 .. Len(e)
    BY <1>1
  <2> QED
    BY <1>1, <1>2, <1>3, <1>4, <2>1, <2>2
<1> QED
  BY <1>4, <1>5 DEF Kept

\* The new line is kept if it is not empty and not the last one again.
LEMMA KeptNew ==
  ASSUME NEW e, NEW v, NEW f, Longer(e, v, f)
  PROVE  Len(e) + 1 \in Kept(f) <=> v # << >> /\ \A m : Final(e, m) => e[m] # v
<1> DEFINE n == Len(e) + 1
<1>1. /\ DOMAIN e = 1 .. Len(e) /\ Len(e) \in Nat /\ DOMAIN f = 1 .. n /\ f[n] = v
      /\ \A i \in 1 .. Len(e) : f[i] = e[i]
  BY DEF Longer
<1>2. ASSUME NEW m \in 1 .. Len(e) PROVE Precedes(f, m, n) <=> Final(e, m)
  <2>1. f[m] = e[m] /\ m < n /\ n - 1 = Len(e) /\ m \in DOMAIN e
    BY <1>1
  <2>2. \A k \in m + 1 .. Len(e) : f[k] = e[k]
    BY <1>1
  <2> HIDE DEF n
  <2> QED
    BY <2>1, <2>2 DEF Precedes, Final
<1>3. ~ Precedes(f, n, n)
  BY <1>1 DEF Precedes
<1>4. \A m : Final(e, m) => m \in 1 .. Len(e)
  BY <1>1 DEF Final
<1>5. \A m \in DOMAIN f : m \in 1 .. Len(e) \/ m = n
  BY <1>1
<1>6. n \in DOMAIN f /\ \A m \in 1 .. Len(e) : m \in DOMAIN f
  BY <1>1
<1> HIDE DEF n
<1>7. (\A m \in DOMAIN f : Precedes(f, m, n) => f[m] # f[n])
        <=> (\A m : Final(e, m) => e[m] # v)
  BY <1>1, <1>2, <1>3, <1>4, <1>5, <1>6
<1>8. n \in Kept(f) <=> v # << >> /\ \A m : Final(e, m) => e[m] # v
  BY <1>1, <1>6, <1>7 DEF Kept
<1> QED
  BY <1>8 DEF n

\* Among lines some of which are kept one is the last that is not empty.
LEMMA LastExists ==
  ASSUME NEW S, NEW e \in Seq(S), Kept(e) # {}
  PROVE  \E n : Final(e, n)
<1>1. Len(e) \in Nat /\ DOMAIN e = 1 .. Len(e)
  BY LenProperties
<1> DEFINE D == {k \in 0 .. Len(e) : Len(e) - k \in DOMAIN e /\ e[Len(e) - k] # << >>}
<1>2. D # {}
  <2>1. PICK n \in DOMAIN e : e[n] # << >>
    BY DEF Kept
  <2>2. Len(e) - n \in 0 .. Len(e) /\ Len(e) - (Len(e) - n) = n
    BY <1>1
  <2>3. Len(e) - n \in D
    BY <2>1, <2>2
  <2> QED
    BY <2>3
<1>3. PICK d \in D : \A k \in D : d <= k
  <2>1. D \in SUBSET Nat
    OBVIOUS
  <2> HIDE DEF D
  <2> QED
    BY <1>2, <2>1, LeastElement
<1>4. d \in 0 .. Len(e) /\ Len(e) - d \in DOMAIN e /\ e[Len(e) - d] # << >>
  BY <1>3
<1>5. ASSUME NEW k \in (Len(e) - d) + 1 .. Len(e), e[k] # << >> PROVE FALSE
  <2>1. Len(e) - k \in 0 .. Len(e) /\ Len(e) - (Len(e) - k) = k /\ k \in DOMAIN e
        /\ Len(e) - k < d
    BY <1>1, <1>4
  <2>2. Len(e) - k \in D
    BY <1>5, <2>1
  <2> QED
    BY <1>1, <1>3, <1>4, <2>1, <2>2
<1>6. Final(e, Len(e) - d)
  BY <1>4, <1>5 DEF Final
<1> QED
  BY <1>6

\* Numbers less than a ring's length apart have different slots.
LEMMA SlotsDiffer ==
  ASSUME NEW N \in Nat, N >= 1, NEW a \in Nat, NEW b \in Nat, a < b, b - a < N
  PROVE  a % N # b % N
<1> SUFFICES ASSUME a % N = b % N PROVE FALSE
  OBVIOUS
<1>1. a = N * (a \div N) + (a % N) /\ b = N * (b \div N) + (b % N)
      /\ a \div N \in Int /\ b \div N \in Int /\ a % N \in 0 .. N - 1
  OBVIOUS
<1>2. PICK q : q = (b \div N) - (a \div N)
  OBVIOUS
<1>3. q \in Int /\ b - a = N * q
  BY <1>1, <1>2
<1>4. q >= 1
  BY <1>3
<1>5. N * q >= N
  BY <1>3, <1>4
<1> QED
  BY <1>3, <1>5

\* How many of the numbers in R are at most n.
Rank(R, n) == Cardinality({m \in R : m <= n})

\* The ring h holds the newest of the lines of e whose numbers are in R, c of them
\* in all.
Ring(R, e, h, c) ==
  /\ c = Cardinality(R)
  /\ \A n \in R : Rank(R, n) > c - SHELL_HISTORY_SIZE =>
                    h[(Rank(R, n) - 1) % SHELL_HISTORY_SIZE] = e[n]

LEMMA RingIsHistory ==
  HistoryIsTail <=> Ring(Kept(entered), entered, shell_history, shell_history_count)
<1>1. Remembered = Kept(entered)
  BY KeptIsRemembered
<1>2. \A n : Number(n) = Rank(Kept(entered), n)
  BY <1>1 DEF Number, Rank
<1> QED
  BY <1>1, <1>2 DEF HistoryIsTail, Ring

LEMMA Ranks ==
  ASSUME NEW N \in Nat, NEW R \in SUBSET (1 .. N), NEW n \in R
  PROVE  Rank(R, n) \in Nat /\ Rank(R, n) >= 1 /\ Rank(R, n) <= Cardinality(R)
         /\ Cardinality(R) \in Nat
<1>1. IsFiniteSet(R) /\ Cardinality(R) \in Nat
  <2>1. IsFiniteSet(1 .. N)
    BY FS_Interval
  <2>2. IsFiniteSet(R)
    BY <2>1, FS_Subset
  <2> QED
    BY <2>2, FS_CardinalityType
<1> DEFINE T == {m \in R : m <= n}
<1>2. T \in SUBSET R /\ n \in T
  <2>1. n \in Int
    OBVIOUS
  <2>2. n <= n
    BY <2>1
  <2> QED
    BY <2>2
<1> HIDE DEF T
<1>3. IsFiniteSet(T) /\ Cardinality(T) <= Cardinality(R)
  BY <1>1, <1>2, FS_Subset
<1>4. Cardinality(T) \in Nat /\ Cardinality(T) # 0
  BY <1>2, <1>3, FS_CardinalityType, FS_EmptySet
<1>5. Cardinality(T) >= 1
  BY <1>4
<1> QED
  BY <1>1, <1>3, <1>4, <1>5 DEF Rank, T

\* A line that is not kept leaves the ring alone.
LEMMA RingSame ==
  ASSUME NEW e, NEW v, NEW f, Longer(e, v, f), NEW R \in SUBSET (1 .. Len(e)),
         NEW h, NEW c, Ring(R, e, h, c)
  PROVE  Ring(R, f, h, c)
<1>1. \A n \in R : f[n] = e[n]
  BY DEF Longer
<1> QED
  BY <1>1 DEF Ring

\* A line that is kept takes the slot of the oldest one.
LEMMA RingAdd ==
  ASSUME NEW e, NEW v, NEW f, Longer(e, v, f), NEW R \in SUBSET (1 .. Len(e)),
         NEW h, NEW c, Ring(R, e, h, c),
         NEW g, g[c % SHELL_HISTORY_SIZE] = v,
         \A i \in 0 .. SHELL_HISTORY_SIZE - 1 : i # c % SHELL_HISTORY_SIZE => g[i] = h[i]
  PROVE  Ring(R \cup {Len(e) + 1}, f, g, c + 1)
<1>1. /\ Len(e) \in Nat /\ f[Len(e) + 1] = v /\ \A i \in 1 .. Len(e) : f[i] = e[i]
  BY DEF Longer
<1>2. SHELL_HISTORY_SIZE \in Nat /\ SHELL_HISTORY_SIZE >= 1
  BY SizeAssumption
<1>3. PICK n : n = Len(e) + 1
  OBVIOUS
<1>4. PICK Q : Q = R \cup {n}
  OBVIOUS
<1>5. n \in Nat /\ n \notin R /\ \A m \in R : m \in 1 .. Len(e) /\ m < n
  BY <1>1, <1>3
<1>6. IsFiniteSet(R) /\ c = Cardinality(R) /\ c \in Nat
  <2>1. IsFiniteSet(1 .. Len(e))
    BY <1>1, FS_Interval
  <2>2. IsFiniteSet(R)
    BY <2>1, FS_Subset
  <2> QED
    BY <2>2, FS_CardinalityType DEF Ring
<1>7. Cardinality(Q) = c + 1
  BY <1>4, <1>5, <1>6, FS_AddElement
<1>8. Rank(Q, n) = c + 1
  <2>1. \A m \in Q : m <= n
    BY <1>1, <1>4, <1>5
  <2>2. {m \in Q : m <= n} = Q
    BY <2>1
  <2> QED
    BY <1>7, <2>2 DEF Rank
<1>9. \A m \in R : Rank(Q, m) = Rank(R, m)
  <2> SUFFICES ASSUME NEW m \in R PROVE Rank(Q, m) = Rank(R, m)
    OBVIOUS
  <2>1. ~ (n <= m)
    BY <1>1, <1>5
  <2>2. {k \in Q : k <= m} = {k \in R : k <= m}
    BY <1>4, <2>1
  <2> QED
    BY <2>2 DEF Rank
<1>12. g[(Rank(Q, n) - 1) % SHELL_HISTORY_SIZE] = f[n]
  <2>1. (c + 1) - 1 = c
    BY <1>6
  <2> QED
    BY <1>1, <1>3, <1>8, <2>1
<1>13. ASSUME NEW m \in R, Rank(Q, m) > (c + 1) - SHELL_HISTORY_SIZE
       PROVE  g[(Rank(Q, m) - 1) % SHELL_HISTORY_SIZE] = f[m]
  <2>1. PICK r : r = Rank(R, m) - 1
    OBVIOUS
  <2>2. Rank(R, m) \in Nat /\ Rank(R, m) >= 1 /\ Rank(R, m) <= c
    BY <1>1, <1>6, Ranks
  <2>3. r \in Nat /\ r < c /\ c - r < SHELL_HISTORY_SIZE /\ Rank(R, m) > c - SHELL_HISTORY_SIZE
    BY <1>2, <1>6, <1>9, <1>13, <2>1, <2>2
  <2>4. h[r % SHELL_HISTORY_SIZE] = e[m]
    BY <2>1, <2>3 DEF Ring
  <2>5. r % SHELL_HISTORY_SIZE # c % SHELL_HISTORY_SIZE
    BY <1>2, <1>6, <2>3, SlotsDiffer
  <2>6. r % SHELL_HISTORY_SIZE \in 0 .. SHELL_HISTORY_SIZE - 1
    BY <1>2, <2>3
  <2>7. g[r % SHELL_HISTORY_SIZE] = e[m]
    BY <2>4, <2>5, <2>6
  <2> QED
    BY <1>1, <1>5, <1>9, <2>1, <2>7
<1>14. \A m \in Q : Rank(Q, m) > (c + 1) - SHELL_HISTORY_SIZE =>
                      g[(Rank(Q, m) - 1) % SHELL_HISTORY_SIZE] = f[m]
  BY <1>4, <1>12, <1>13
<1>15. Ring(Q, f, g, c + 1)
  BY <1>7, <1>14 DEF Ring
<1> QED
  BY <1>3, <1>4, <1>15

-----------------------------------------------------------------------------
(* The inductive invariant of the history.                                 *)

\* The slot shell_add_to_history compares with holds the last line that is not
\* empty.
NewestKept ==
  \A n : Final(entered, n) =>
           shell_history_count > 0 /\ shell_history[newest_slot] = entered[n]

HistoryInv == HistoryIsTail /\ NewestKept

LEMMA HistoryInit == Init => HistoryInv
<1> SUFFICES ASSUME Init PROVE HistoryInv
  OBVIOUS
<1>1. entered = << >> /\ shell_history_count = 0 /\ DOMAIN entered = {}
  BY DEF Init
<1>2. Kept(entered) = {}
  BY <1>1 DEF Kept
<1>3. HistoryIsTail
  BY <1>1, <1>2, FS_EmptySet, RingIsHistory DEF Ring
<1>4. NewestKept
  BY <1>1 DEF NewestKept, Final
<1> QED
  BY <1>3, <1>4 DEF HistoryInv

LEMMA HistoryEnter ==
  ASSUME EditorInv, HistoryInv, enter
  PROVE  HistoryInv'
<1>1. shell_add_to_history(shell_buffer) /\ entered' = Append(entered, shell_buffer)
  BY DEF enter
<1>2. PICK e : e = entered
  OBVIOUS
<1>3. PICK v : v = shell_buffer
  OBVIOUS
<1>4. PICK f : f = entered'
  OBVIOUS
<1>5. PICK c : c = shell_history_count
  OBVIOUS
<1>6. PICK h : h = shell_history
  OBVIOUS
<1>7. PICK R : R = Kept(e)
  OBVIOUS
<1>8. e \in Seq(Seq(Plain)) /\ v \in Seq(Plain) /\ c \in Nat
      /\ DOMAIN h = 0 .. SHELL_HISTORY_SIZE - 1
  BY <1>2, <1>3, <1>5, <1>6 DEF EditorInv, Texts, Line
<1>9. Longer(e, v, f)
  BY <1>1, <1>2, <1>3, <1>4, <1>8, LongerAppend
<1>10. /\ DOMAIN e = 1 .. Len(e) /\ Len(e) \in Nat /\ Len(f) = Len(e) + 1
       /\ DOMAIN f = 1 .. Len(f) /\ f[Len(e) + 1] = v /\ \A i \in 1 .. Len(e) : f[i] = e[i]
  BY <1>9 DEF Longer
<1>11. R \in SUBSET (1 .. Len(e)) /\ Ring(R, e, h, c)
  BY <1>2, <1>5, <1>6, <1>7, <1>10, RingIsHistory DEF HistoryInv, Kept
<1>12. \A n : Final(e, n) => c > 0 /\ h[(c - 1) % SHELL_HISTORY_SIZE] = e[n]
  BY <1>2, <1>5, <1>6 DEF HistoryInv, NewestKept, newest_slot
<1>13. \A n \in Kept(f) : n \in R \/ n = Len(e) + 1
  <2>1. \A n \in Kept(f) : n \in 1 .. Len(e) \/ n = Len(e) + 1
    BY <1>10 DEF Kept
  <2> QED
    BY <1>7, <1>9, <2>1, KeptOld
<1>14. R \subseteq Kept(f)
  BY <1>7, <1>9, <1>11, KeptOld
<1>15. Len(e) + 1 \in Kept(f) <=> v # << >> /\ \A m : Final(e, m) => e[m] # v
  BY <1>9, KeptNew
<1>16. SUFFICES /\ Ring(Kept(f), f, shell_history', shell_history_count')
                /\ \A n : Final(f, n) =>
                     /\ shell_history_count' > 0
                     /\ shell_history'[(shell_history_count' - 1) % SHELL_HISTORY_SIZE] = f[n]
  <2>1. HistoryIsTail' <=> Ring(Kept(f), f, shell_history', shell_history_count')
    <3>1. (HistoryIsTail <=> Ring(Kept(entered), entered, shell_history, shell_history_count))'
      BY RingIsHistory, PTL
    <3> QED
      BY <1>4, <3>1
  <2> QED
    BY <1>4, <1>16, <2>1 DEF HistoryInv, NewestKept, newest_slot
<1>17. CASE v = << >> \/ (c > 0 /\ v = h[(c - 1) % SHELL_HISTORY_SIZE])
  <2>1. shell_history' = h /\ shell_history_count' = c
    BY <1>1, <1>3, <1>5, <1>6, <1>17 DEF shell_add_to_history, newest_slot
  <2>2. Len(e) + 1 \notin Kept(f)
    <3>1. CASE v = << >>
      BY <1>15, <3>1
    <3>2. CASE c > 0 /\ v = h[(c - 1) % SHELL_HISTORY_SIZE]
      <4>1. R # {}
        BY <1>11, <3>2, FS_EmptySet DEF Ring
      <4>2. PICK m : Final(e, m)
        BY <1>7, <1>8, <4>1, LastExists
      <4>3. e[m] = v
        BY <1>12, <3>2, <4>2
      <4> QED
        BY <1>15, <4>2, <4>3
    <3> QED
      BY <1>17, <3>1, <3>2
  <2>3. Kept(f) = R
    BY <1>13, <1>14, <2>2
  <2>4. Ring(Kept(f), f, h, c)
    BY <1>9, <1>11, <2>3, RingSame
  <2>5. ASSUME NEW n, Final(f, n) PROVE c > 0 /\ h[(c - 1) % SHELL_HISTORY_SIZE] = f[n]
    <3>1. CASE n = Len(e) + 1
      <4>1. v # << >>
        BY <1>10, <2>5, <3>1 DEF Final
      <4> QED
        BY <1>10, <1>17, <3>1, <4>1
    <3>2. CASE n \in 1 .. Len(e)
      <4>1. \A k \in n + 1 .. Len(e) : f[k] = e[k] /\ k \in n + 1 .. Len(f)
        BY <1>10, <3>2
      <4>2. f[n] = e[n] /\ n \in DOMAIN e
        BY <1>10, <3>2
      <4>3. Final(e, n)
        BY <2>5, <4>1, <4>2 DEF Final
      <4> QED
        BY <1>12, <4>2, <4>3
    <3> QED
      BY <1>10, <2>5, <3>1, <3>2 DEF Final
  <2> QED
    BY <2>1, <2>4, <2>5
<1>18. CASE ~ (v = << >> \/ (c > 0 /\ v = h[(c - 1) % SHELL_HISTORY_SIZE]))
  <2>1. /\ shell_history' = [h EXCEPT ![c % SHELL_HISTORY_SIZE] = v]
        /\ shell_history_count' = c + 1
    BY <1>1, <1>3, <1>5, <1>6, <1>18 DEF shell_add_to_history, newest_slot
  <2>2. Len(e) + 1 \in Kept(f)
    BY <1>12, <1>15, <1>18
  <2>3. Kept(f) = R \cup {Len(e) + 1}
    BY <1>13, <1>14, <2>2
  <2>4. PICK g : g = [h EXCEPT ![c % SHELL_HISTORY_SIZE] = v]
    OBVIOUS
  <2>5. c % SHELL_HISTORY_SIZE \in 0 .. SHELL_HISTORY_SIZE - 1 /\ (c + 1) - 1 = c /\ c + 1 > 0
    BY <1>8, SizeAssumption
  <2>6. /\ g[c % SHELL_HISTORY_SIZE] = v
        /\ \A i \in 0 .. SHELL_HISTORY_SIZE - 1 : i # c % SHELL_HISTORY_SIZE => g[i] = h[i]
    BY <1>8, <2>4, <2>5
  <2>7. Ring(Kept(f), f, g, c + 1)
    BY <1>9, <1>11, <2>3, <2>6, RingAdd
  <2>8. ASSUME NEW n, Final(f, n) PROVE n = Len(e) + 1
    BY <1>10, <1>18, <2>8 DEF Final
  <2>9. shell_history' = g
    BY <2>1, <2>4
  <2> QED
    BY <1>10, <2>1, <2>5, <2>6, <2>7, <2>8, <2>9
<1> QED
  BY <1>17, <1>18

\* Only Enter touches the history.
LEMMA HistoryNext ==
  ASSUME EditorInv, HistoryInv, [Next]_vars
  PROVE  HistoryInv'
<1>1. ASSUME UNCHANGED <<shell_history, shell_history_count, entered>> PROVE HistoryInv'
  <2>1. HistoryIsTail'
    BY <1>1 DEF HistoryInv, HistoryIsTail, Remembered, Number, Before
  <2>2. NewestKept'
    BY <1>1 DEF HistoryInv, NewestKept, newest_slot
  <2> QED
    BY <2>1, <2>2 DEF HistoryInv
<1>2. CASE UNCHANGED vars
  BY <1>1, <1>2 DEF vars, line
<1>3. ASSUME NEW k, release(k) \/ press_modifier(k) \/ press_capslock(k) PROVE HistoryInv'
  BY <1>1, <1>3 DEF release, press_modifier, press_capslock, line
<1>4. ASSUME NEW k, press(k) PROVE HistoryInv'
  <2>1. CASE enter
    BY <2>1, HistoryEnter
  <2>2. CASE backspace \/ shell_clear_line
    BY <1>1, <2>2 DEF backspace, shell_clear_line
  <2>3. CASE \E c \in Plain \cup {"\t"} : append(c)
    BY <1>1, <2>3 DEF append
  <2> QED
    BY <1>4, <2>1, <2>2, <2>3, Pressed
<1> QED
  BY <1>2, <1>3, <1>4 DEF Next

ShellInv == EditorInv /\ HistoryInv

LEMMA ShellInvariant == Spec => []ShellInv
<1>1. Init => ShellInv
  BY EditorInit, HistoryInit DEF ShellInv
<1>2. ShellInv /\ [Next]_vars => ShellInv'
  BY EditorNext, HistoryNext DEF ShellInv
<1> QED
  BY <1>1, <1>2, PTL DEF Spec

\* For a screen, a line buffer and a history of every size, and whatever keys are
\* pressed: vga_putchar never leaves the cursor outside the screen, so it never
\* writes beside the buffer at 0xB8000, and neither shell_buffer nor a slot of
\* shell_history is ever filled beyond its terminator.
THEOREM ShellTypes == Spec => []TypeOK
<1>1. ShellInv => TypeOK
  BY EditorTypes DEF ShellInv
<1> QED
  BY <1>1, ShellInvariant, PTL

\* From a prompt on, the prompt and the line shell_readline holds stand before the
\* cursor in all the rows they fill, through every wrap, scroll, backspace and
\* cleared line, as long as no character is taken off the line whose place is on the
\* row above: vga_putchar's backspace stops in the first column and leaves that
\* character where it is.  From then on, up to the next prompt, the cursor's own row
\* is the end of the line.
THEOREM LineOnScreen == Spec => []LineShown
<1>1. ShellInv => LineShown
  BY EditorShown DEF ShellInv
<1> QED
  BY <1>1, ShellInvariant, PTL

\* There is nothing at and behind the cursor: vga_scroll and the backspaces of the
\* editor leave no remains on the screen.
THEOREM NoRemains == Spec => []BlankAhead
<1>1. ShellInv => BlankAhead
  BY EditorBlank DEF ShellInv
<1> QED
  BY <1>1, ShellInvariant, PTL

\* For any number of lines and every SHELL_HISTORY_SIZE, shell_add_to_history keeps
\* exactly the newest lines that are neither empty nor repeated, each in its slot.
THEOREM HistoryTail == Spec => []HistoryIsTail
<1>1. ShellInv => HistoryIsTail
  BY DEF ShellInv, HistoryInv
<1> QED
  BY <1>1, ShellInvariant, PTL

\* No step of the line editor changes the prompt or anything printed before it, other
\* than moving all of it up by one row when vga_putchar scrolls: shell_readline and
\* shell_clear_line send no backspace too many, at any width, height and line length.
THEOREM EditingKeepsOutput == Spec => EditKeepsOutput
<1>1. ShellInv /\ [Next]_vars => [entered' = entered => OutputKept]_vars
  BY EditorNext DEF ShellInv
<1>2. [entered' = entered => OutputKept]_vars
        => [entered' = entered =>
              \A i \in 0 .. origin - 1 :
                i >= origin - origin' => screen'.cell[i - (origin - origin')] = screen.cell[i]]_vars
  BY DEF OutputKept, KeepsOutput
<1> QED
  BY <1>1, <1>2, ShellInvariant, PTL DEF Spec, EditKeepsOutput

-----------------------------------------------------------------------------
(* The clock command.                                                      *)

\* The place of a register in the order they are read in.
Place(f) == CHOOSE i \in DOMAIN Registers : Registers[i] = f

TimeTypes ==
  /\ now \in Times /\ start \in Times
  /\ regB \in [binary : BOOLEAN, h24 : BOOLEAN]
  /\ next \in 0 .. 7
  /\ read \in [Field -> Nat]
  /\ since \in {"still", "moved", "century"}
  /\ next # 0 => shown = << >>

\* The fields read so far as they will be shown, the others as they are now.
Mixed == [f \in Field |-> IF Place(f) < next THEN decoded(f) ELSE now[f]]

\* Whatever has been read, the rest of the registers makes up for it.
Ahead ==
  next # 0 /\ regB.h24 /\ since # "century" =>
    /\ NotAfter(start, Mixed)
    /\ \A f \in Field : Place(f) < next => decoded(f) \in 0 .. 99

\* While the clock stands still, the bytes read are the ones in its registers.
Still ==
  next # 0 /\ since = "still" =>
    \A f \in Field : Place(f) < next => read[f] = cmos_read(f)

TimeInv == TimeTypes /\ Ahead /\ Still /\ QuietIsRight /\ NeverBehind

-----------------------------------------------------------------------------
(* Registers and times. *)

LEMMA Regs ==
  /\ DOMAIN Registers = 1 .. 6
  /\ Registers[1] = "second" /\ Registers[2] = "minute" /\ Registers[3] = "hour"
  /\ Registers[4] = "day" /\ Registers[5] = "month" /\ Registers[6] = "year"
  /\ Field = {"second", "minute", "hour", "day", "month", "year"}
<1>1. /\ DOMAIN Registers = 1 .. 6
      /\ Registers[1] = "second" /\ Registers[2] = "minute" /\ Registers[3] = "hour"
      /\ Registers[4] = "day" /\ Registers[5] = "month" /\ Registers[6] = "year"
  BY DEF Registers
<1>2. \A i \in 1 .. 6 : i = 1 \/ i = 2 \/ i = 3 \/ i = 4 \/ i = 5 \/ i = 6
  OBVIOUS
<1> QED
  BY <1>1, <1>2 DEF Field

LEMMA Places ==
  /\ \A i \in 1 .. 6 : Registers[i] \in Field /\ Place(Registers[i]) = i
  /\ \A f \in Field : Place(f) \in 1 .. 6 /\ Registers[Place(f)] = f
<1>1. \A i, j \in 1 .. 6 : Registers[i] = Registers[j] => i = j
  BY Regs
<1>2. \A f \in Field : \E i \in 1 .. 6 : Registers[i] = f
  BY Regs DEF Field
<1>3. \A i \in 1 .. 6 : Registers[i] \in Field
  BY Regs DEF Field
<1>4. \A f \in Field : Place(f) \in 1 .. 6 /\ Registers[Place(f)] = f
  BY <1>2, Regs DEF Place
<1> QED
  BY <1>1, <1>3, <1>4

\* The limits of every field.
LEMMA Limits ==
  ASSUME NEW t
  PROVE  /\ Limit(t)["second"] = 59 /\ Limit(t)["minute"] = 59 /\ Limit(t)["hour"] = 23
         /\ Limit(t)["month"] = 12 /\ Limit(t)["year"] = 99
         /\ Limit(t)["day"] \in 28 .. 31
         /\ \A f \in Field : Least(f) \in 0 .. 1 /\ Limit(t)[f] \in 12 .. 99
<1>1. /\ Limit(t)["second"] = 59 /\ Limit(t)["minute"] = 59 /\ Limit(t)["hour"] = 23
      /\ Limit(t)["month"] = 12 /\ Limit(t)["year"] = 99
  BY DEF Limit
<1>2. Limit(t)["day"] \in 28 .. 31
  BY DEF Limit
<1> QED
  BY <1>1, <1>2, Regs DEF Least

LEMMA TimeFields ==
  ASSUME NEW t \in Times
  PROVE  /\ t \in [Field -> Nat]
         /\ \A f \in Field : t[f] \in Least(f) .. Limit(t)[f] /\ t[f] \in 0 .. 99
         /\ t["hour"] \in 0 .. 23
<1>1. t \in [Field -> Nat] /\ \A f \in Field : t[f] \in Least(f) .. Limit(t)[f]
  BY DEF Times
<1>2. \A f \in Field : t[f] \in 0 .. 99
  BY <1>1, Limits
<1>3. t["hour"] \in 0 .. 23
  BY <1>1, Limits, Regs DEF Least
<1> QED
  BY <1>1, <1>2, <1>3

\* The limit of the day depends on month and year only.
LEMMA SameDays ==
  ASSUME NEW t, NEW u, t.month = u.month, t.year = u.year
  PROVE  Limit(t) = Limit(u)
BY DEF Limit

LEMMA FirstOf ==
  ASSUME NEW S \in SUBSET (1 .. 7), 7 \in S
  PROVE  Min(S) \in S /\ \A k \in S : Min(S) <= k
<1>1. S \in SUBSET Nat /\ S # {}
  OBVIOUS
<1>2. \E m \in S : \A k \in S : m <= k
  BY <1>1, LeastElement
<1> QED
  BY <1>2 DEF Min

\* A second later: the fields before the n-th were full and start again, the
\* n-th moves on, those behind it stay.
LEMMA LaterFields ==
  ASSUME NEW t \in Times
  PROVE  \E n \in 1 .. 7 :
           /\ \A i \in 1 .. 6 : i < n => t[Registers[i]] = Limit(t)[Registers[i]]
           /\ n # 7 => t[Registers[n]] # Limit(t)[Registers[n]]
           /\ \A i \in 1 .. 6 :
                Later(t)[Registers[i]] =
                  IF i < n THEN Least(Registers[i])
                  ELSE IF i = n THEN t[Registers[i]] + 1 ELSE t[Registers[i]]
           /\ DOMAIN Later(t) = Field
<1> DEFINE full(i) == t[Registers[i]] = Limit(t)[Registers[i]]
           S == {i \in DOMAIN Registers : ~ full(i)} \cup {7}
           n == Min(S)
           place == [f \in Field |-> CHOOSE i \in DOMAIN Registers : Registers[i] = f]
<1>1. S \in SUBSET (1 .. 7) /\ 7 \in S
  BY Regs
<1>2. n \in S /\ \A k \in S : n <= k
  <2> HIDE DEF S
  <2> QED
    BY <1>1, FirstOf
<1>3. n \in 1 .. 7
  BY <1>1, <1>2
<1>4. ASSUME NEW i \in 1 .. 6, i < n PROVE full(i)
  <2> SUFFICES ASSUME ~ full(i) PROVE FALSE
    OBVIOUS
  <2>1. i \in S
    BY Regs
  <2>2. n <= i
    BY <1>2, <2>1
  <2> HIDE DEF n
  <2> QED
    BY <1>3, <1>4, <2>2
<1>5. n # 7 => ~ full(n)
  BY <1>2
<1>6. \A i \in 1 .. 6 : place[Registers[i]] = i
  BY Places DEF Place
<1>7. Later(t) = [f \in Field |-> CASE place[f] < n -> Least(f)
                                   [] place[f] = n -> t[f] + 1
                                   [] OTHER        -> t[f]]
  BY DEF Later
<1> HIDE DEF n, place, full, S
<1>8. ASSUME NEW i \in 1 .. 6
      PROVE  Later(t)[Registers[i]] =
               IF i < n THEN Least(Registers[i])
               ELSE IF i = n THEN t[Registers[i]] + 1 ELSE t[Registers[i]]
  <2>1. Registers[i] \in Field /\ place[Registers[i]] = i
    BY <1>6, Places
  <2> QED
    BY <1>3, <1>7, <2>1
<1>9. DOMAIN Later(t) = Field
  BY <1>7
<1> QED
  BY <1>3, <1>4, <1>5, <1>8, <1>9 DEF full

LEMMA LaterIsTime ==
  ASSUME NEW t \in Times
  PROVE  Later(t) \in Times
<1>1. PICK n \in 1 .. 7 :
           /\ \A i \in 1 .. 6 : i < n => t[Registers[i]] = Limit(t)[Registers[i]]
           /\ n # 7 => t[Registers[n]] # Limit(t)[Registers[n]]
           /\ \A i \in 1 .. 6 :
                Later(t)[Registers[i]] =
                  IF i < n THEN Least(Registers[i])
                  ELSE IF i = n THEN t[Registers[i]] + 1 ELSE t[Registers[i]]
           /\ DOMAIN Later(t) = Field
  BY LaterFields
<1>2. t \in [Field -> Nat] /\ \A f \in Field : t[f] \in Least(f) .. Limit(t)[f]
  BY TimeFields
<1>3. \A i \in 1 .. 6 : Registers[i] \in Field
  BY Places
<1>4. \A f \in Field : Least(f) \in 0 .. 1 /\ Limit(t)[f] \in 12 .. 99 /\ Limit(Later(t))[f] \in 12 .. 99
  BY Limits
<1>5. ASSUME NEW i \in 1 .. 6
      PROVE  /\ Later(t)[Registers[i]] \in Nat
             /\ Later(t)[Registers[i]] \in Least(Registers[i]) .. Limit(Later(t))[Registers[i]]
  <2>1. CASE i < n
    BY <1>1, <1>3, <1>4, <2>1
  <2>2. CASE ~ (i < n)
    <3>1. Limit(Later(t))[Registers[i]] = Limit(t)[Registers[i]]
      <4>1. CASE i = 4
        <5>1. Later(t)[Registers[5]] = t[Registers[5]] /\ Later(t)[Registers[6]] = t[Registers[6]]
          BY <1>1, <2>2, <4>1
        <5>2. Later(t).month = t.month /\ Later(t).year = t.year
          BY <5>1, Regs
        <5> QED
          BY <5>2, SameDays
      <4>2. CASE i # 4
        BY <4>2, Regs, Limits
      <4> QED
        BY <4>1, <4>2
    <3>2. t[Registers[i]] \in Nat /\ t[Registers[i]] \in Least(Registers[i]) .. Limit(t)[Registers[i]]
      BY <1>2, <1>3
    <3>3. CASE i = n
      <4>1. t[Registers[i]] # Limit(t)[Registers[i]] /\ Later(t)[Registers[i]] = t[Registers[i]] + 1
        BY <1>1, <3>3
      <4> QED
        BY <1>3, <1>4, <3>1, <3>2, <4>1
    <3>4. CASE i # n
      <4>1. Later(t)[Registers[i]] = t[Registers[i]]
        BY <1>1, <2>2, <3>4
      <4> QED
        BY <3>1, <3>2, <4>1
    <3> QED
      BY <3>3, <3>4
  <2> QED
    BY <2>1, <2>2
<1>6. \A f \in Field : Later(t)[f] \in Nat /\ Later(t)[f] \in Least(f) .. Limit(Later(t))[f]
  BY <1>5, Places
<1>7. Later(t) \in [Field -> Nat]
  <2>1. Later(t) = [f \in Field |-> Later(t)[f]]
    BY DEF Later
  <2> QED
    BY <1>6, <2>1
<1> QED
  BY <1>6, <1>7 DEF Times

-----------------------------------------------------------------------------
(* The order of times. *)

\* A time one of whose fields is larger, with the same behind it, is later.
LEMMA LaterStill ==
  ASSUME NEW t, NEW u, NEW v, NEW n \in 1 .. 6,
         \A f \in Field : t[f] \in Int /\ u[f] \in Int /\ v[f] \in Int,
         NotAfter(t, u),
         u[Registers[n]] < v[Registers[n]],
         \A j \in 1 .. 6 : j > n => v[Registers[j]] = u[Registers[j]]
  PROVE  NotAfter(t, v)
<1>0. DOMAIN Registers = 1 .. 6 /\ \A i \in 1 .. 6 : Registers[i] \in Field
  BY Regs, Places
<1>1. CASE t = u
  BY <1>0, <1>1 DEF NotAfter
<1>2. CASE t # u
  <2>1. PICK i \in 1 .. 6 :
          /\ t[Registers[i]] < u[Registers[i]]
          /\ \A j \in 1 .. 6 : j > i => t[Registers[j]] = u[Registers[j]]
    BY <1>0, <1>2 DEF NotAfter
  <2>2. CASE i > n
    <3>1. t[Registers[i]] < v[Registers[i]]
      BY <2>1, <2>2
    <3>2. \A j \in 1 .. 6 : j > i => t[Registers[j]] = v[Registers[j]]
      BY <2>1, <2>2
    <3> QED
      BY <1>0, <3>1, <3>2 DEF NotAfter
  <2>3. CASE i <= n
    <3>1. t[Registers[n]] <= u[Registers[n]]
      BY <1>0, <2>1, <2>3
    <3>2. t[Registers[n]] < v[Registers[n]]
      BY <1>0, <3>1
    <3>3. \A j \in 1 .. 6 : j > n => t[Registers[j]] = v[Registers[j]]
      BY <2>1, <2>3
    <3> QED
      BY <1>0, <3>2, <3>3 DEF NotAfter
  <2> QED
    BY <2>2, <2>3
<1> QED
  BY <1>1, <1>2

-----------------------------------------------------------------------------
(* Coding and decoding. *)

LEMMA BcdBack ==
  ASSUME NEW v \in 0 .. 99
  PROVE  /\ bcd_to_bin(16 * (v \div 10) + (v % 10)) = v
         /\ 16 * (v \div 10) + (v % 10) \in 0 .. 153
         /\ v <= 23 => 16 * (v \div 10) + (v % 10) \in 0 .. 35
<1>1. /\ v \div 10 \in 0 .. 9 /\ v % 10 \in 0 .. 9 /\ v = 10 * (v \div 10) + (v % 10)
      /\ v <= 23 => v \div 10 <= 2 /\ (v \div 10 = 2 => v % 10 <= 3)
  OBVIOUS
<1>2. \A a, b \in 0 .. 9 : (16 * a + b) \div 16 = a /\ (16 * a + b) % 16 = b
  OBVIOUS
<1> QED
  BY <1>1, <1>2 DEF bcd_to_bin

LEMMA PrintTwo ==
  ASSUME NEW v \in 0 .. 99
  PROVE  /\ print_padded(v) = Digits(v)
         /\ 10 * print_padded(v)[1] + print_padded(v)[2] = v
<1>1. CASE v < 10
  <2>1. vga_print_dec(v) = <<v>>
    BY <1>1 DEF vga_print_dec
  <2>2. print_padded(v) = <<0, v>>
    <3>1. print_padded(v) = <<0>> \o <<v>>
      BY <1>1, <2>1 DEF print_padded
    <3>2. <<0>> \o <<v>> = <<0, v>>
      <4>1. <<0>> \in Seq(Nat) /\ <<v>> \in Seq(Nat) /\ <<0, v>> \in Seq(Nat)
        OBVIOUS
      <4>2. /\ <<0>> \o <<v>> \in Seq(Nat)
            /\ Len(<<0>> \o <<v>>) = 2
            /\ (<<0>> \o <<v>>)[1] = 0 /\ (<<0>> \o <<v>>)[2] = v
        BY <4>1, ConcatProperties
      <4>3. \A i \in 1 .. 2 : (<<0>> \o <<v>>)[i] = <<0, v>>[i]
        BY <4>2
      <4> QED
        BY <4>1, <4>2, <4>3, SeqEqual
    <3> QED
      BY <3>1, <3>2
  <2>3. v \div 10 = 0 /\ v % 10 = v
    BY <1>1
  <2> QED
    BY <2>2, <2>3 DEF Digits
<1>2. CASE v >= 10
  <2>1. vga_print_dec(v) = <<v \div 10, v % 10>>
    BY <1>2 DEF vga_print_dec
  <2>2. print_padded(v) = <<v \div 10, v % 10>>
    BY <1>2, <2>1 DEF print_padded
  <2> QED
    BY <2>2 DEF Digits
<1> QED
  BY <1>1, <1>2

\* A byte read is decoded to the field's value, the hour of a 24-hour clock too.
Decodes ==
  \A f \in Field :
    now \in Times /\ read[f] = cmos_read(f) /\ (f # "hour" \/ regB.h24) =>
      decoded(f) = now[f] /\ now[f] \in 0 .. 99

LEMMA DecodesBack == Decodes
<1> SUFFICES ASSUME NEW f \in Field, now \in Times, read[f] = cmos_read(f), f # "hour" \/ regB.h24
             PROVE  decoded(f) = now[f] /\ now[f] \in 0 .. 99
  BY DEF Decodes
<1>1. now[f] \in 0 .. 99 /\ now["hour"] \in 0 .. 23
  BY TimeFields
<1>2. read[f] = Coded(now[f])
  BY DEF cmos_read, Hours
<1>3. CASE regB.binary
  BY <1>1, <1>2, <1>3 DEF Coded, decoded
<1>4. CASE ~ regB.binary
  <2>1. read[f] = 16 * (now[f] \div 10) + (now[f] % 10)
    BY <1>2, <1>4 DEF Coded
  <2>2. bcd_to_bin(read[f]) = now[f] /\ read[f] \in Nat /\ (f = "hour" => read[f] \in 0 .. 35)
    BY <1>1, <2>1, BcdBack
  <2>3. f = "hour" => read[f] % 128 = read[f] /\ read[f] \div 128 = 0
    BY <2>2
  <2> QED
    BY <1>1, <1>4, <2>2, <2>3 DEF decoded
<1> QED
  BY <1>3, <1>4

LEMMA DecodesBackNext == Decodes'
BY DecodesBack, PTL

\* The hour of a 12-hour clock, as it is shown.
LEMMA HourBack ==
  ASSUME now \in Times, read["hour"] = cmos_read("hour"), ~ regB.h24
  PROVE  hour24(decoded("hour")) = IF now.hour \in {0, 12} THEN 12 - now.hour ELSE now.hour
<1> DEFINE h == now.hour
           g == IF h % 12 = 0 THEN 12 ELSE h % 12
<1>1. h \in 0 .. 23
  BY TimeFields
<1>2. g \in 1 .. 12 /\ (h < 12 => g = IF h = 0 THEN 12 ELSE h)
      /\ (h >= 12 => g = IF h = 12 THEN 12 ELSE h - 12)
  BY <1>1
<1>3. read["hour"] = Coded(g) + (IF h >= 12 THEN 128 ELSE 0)
  BY DEF cmos_read, Hours
<1> HIDE DEF g, h
<1>4. decoded("hour") = g + (IF h >= 12 THEN 128 ELSE 0)
  <2>1. CASE regB.binary
    BY <1>3, <2>1 DEF Coded, decoded
  <2>2. CASE ~ regB.binary
    <3> DEFINE b == 16 * (g \div 10) + (g % 10)
    <3>1. b \in 0 .. 35 /\ bcd_to_bin(b) = g
      BY <1>2, BcdBack
    <3>2. read["hour"] = b + (IF h >= 12 THEN 128 ELSE 0)
      BY <1>3, <2>2 DEF Coded
    <3> HIDE DEF b
    <3>3. /\ read["hour"] % 128 = b
          /\ 128 * (read["hour"] \div 128) = IF h >= 12 THEN 128 ELSE 0
      BY <3>1, <3>2
    <3> QED
      BY <2>2, <3>1, <3>3 DEF decoded
  <2> QED
    BY <2>1, <2>2
<1>5. CASE h < 12
  <2>1. decoded("hour") = g /\ ~ (g >= 128)
    BY <1>1, <1>2, <1>4, <1>5
  <2>2. hour24(g) = g
    BY <2>1 DEF hour24
  <2> QED
    BY <1>1, <1>2, <1>5, <2>1, <2>2 DEF h
<1>6. CASE h >= 12
  <2>1. decoded("hour") = g + 128 /\ (g + 128) % 128 = g /\ g + 128 >= 128
    BY <1>2, <1>4, <1>6
  <2>2. hour24(g + 128) = (g + 12) % 24
    BY <2>1 DEF hour24
  <2>3. (g + 12) % 24 = IF h = 12 THEN 0 ELSE h
    BY <1>1, <1>2, <1>6
  <2> QED
    BY <1>1, <1>6, <2>1, <2>2, <2>3 DEF h
<1> QED
  BY <1>1, <1>5, <1>6

-----------------------------------------------------------------------------
(* The steps. *)

LEMMA TimeInit == ClockInit => TimeInv
<1> SUFFICES ASSUME ClockInit PROVE TimeInv
  OBVIOUS
<1>1. /\ now \in Times /\ start = now /\ regB \in [binary : BOOLEAN, h24 : BOOLEAN]
      /\ next = 0 /\ read = [f \in Field |-> 0] /\ shown = << >> /\ since = "still"
  BY InstantsAssumption DEF ClockInit
<1>2. read \in [Field -> Nat]
  BY <1>1
<1> QED
  BY <1>1, <1>2 DEF TimeInv, TimeTypes, Ahead, Still, QuietIsRight, NeverBehind

LEMMA WaitStep == TimeInv /\ wait => TimeInv'
<1> SUFFICES ASSUME TimeInv, wait PROVE TimeInv'
  OBVIOUS
<1>1. /\ next' = 1 /\ start' = now /\ since' = "still" /\ shown' = << >>
      /\ now' = now /\ regB' = regB /\ read' = read /\ now \in Times
  BY DEF TimeInv, TimeTypes, wait, rtc
<1>2. TimeTypes'
  BY <1>1 DEF TimeInv, TimeTypes
<1>3. \A f \in Field : ~ (Place(f) < 1)
  BY Places
<1>4. Mixed' = now
  <2>1. Mixed' = [f \in Field |-> now[f]]
    BY <1>1, <1>3 DEF Mixed
  <2>2. now \in [Field -> Nat]
    BY <1>1, TimeFields
  <2> QED
    BY <2>1, <2>2
<1>5. Ahead'
  BY <1>1, <1>3, <1>4 DEF Ahead, NotAfter
<1>6. Still'
  BY <1>1, <1>3 DEF Still
<1> QED
  BY <1>1, <1>2, <1>5, <1>6 DEF TimeInv, QuietIsRight, NeverBehind

LEMMA ReadStep == TimeInv /\ read_register => TimeInv'
<1> SUFFICES ASSUME TimeInv, read_register PROVE TimeInv'
  OBVIOUS
<1>0. PICK g : g = Registers[next]
  OBVIOUS
<1>1. /\ next \in 1 .. 6 /\ next' = next + 1 /\ read' = [read EXCEPT ![g] = cmos_read(g)]
      /\ start' = start /\ since' = since /\ shown' = shown
      /\ now' = now /\ regB' = regB /\ now \in Times /\ read \in [Field -> Nat]
      /\ shown = << >>
  BY <1>0, Regs DEF TimeInv, TimeTypes, read_register, rtc
<1>2. /\ g \in Field /\ Place(g) = next
      /\ \A f \in Field : Place(f) \in 1 .. 6 /\ (Place(f) = next => f = g)
  BY <1>0, <1>1, Places
<1>3. \A f \in Field : cmos_read(f)' = cmos_read(f)
  BY <1>1 DEF cmos_read, Hours, Coded
<1>4. read'[g] = cmos_read(g)' /\ \A f \in Field : f # g => read'[f] = read[f]
  BY <1>1, <1>2, <1>3
<1>5. cmos_read(g) \in Nat
  <2>1. now[g] \in 0 .. 99 /\ now.hour \in 0 .. 23
    BY <1>1, <1>2, TimeFields
  <2>2. \A v \in 0 .. 99 : Coded(v) \in Nat
    BY DEF Coded
  <2>3. Hours(now.hour) \in Nat
    <3>1. now.hour \in 0 .. 99 /\ (IF now.hour % 12 = 0 THEN 12 ELSE now.hour % 12) \in 0 .. 99
      BY <2>1
    <3> QED
      BY <2>2, <3>1 DEF Hours
  <2> QED
    BY <2>1, <2>2, <2>3 DEF cmos_read
<1>6. TimeTypes'
  <2>1. read' \in [Field -> Nat]
    BY <1>1, <1>2, <1>5
  <2> QED
    BY <1>1, <2>1 DEF TimeInv, TimeTypes
<1>7. \A f \in Field : f # g => decoded(f)' = decoded(f)
  BY <1>1, <1>4 DEF decoded
<1>8. \A f \in Field : f # g => (Place(f) < next' <=> Place(f) < next)
  BY <1>1, <1>2
<1>9. Ahead'
  <2> SUFFICES ASSUME regB.h24, since # "century"
               PROVE  /\ NotAfter(start', Mixed')
                      /\ \A f \in Field : Place(f) < next' => decoded(f)' \in 0 .. 99
    BY <1>1 DEF Ahead
  <2>1. NotAfter(start, Mixed) /\ \A f \in Field : Place(f) < next => decoded(f) \in 0 .. 99
    BY <1>1 DEF TimeInv, Ahead
  <2>2. decoded(g)' = now'[g] /\ now'[g] \in 0 .. 99
    <3>1. now' \in Times /\ read'[g] = cmos_read(g)' /\ regB'.h24
      BY <1>1, <1>4
    <3> QED
      BY <1>2, <3>1, DecodesBackNext DEF Decodes
  <2>3. Mixed' = Mixed
    <3>1. \A f \in Field : f # g => Mixed'[f] = Mixed[f]
      BY <1>1, <1>7, <1>8 DEF Mixed
    <3>2. Mixed'[g] = Mixed[g]
      BY <1>1, <1>2, <2>2 DEF Mixed
    <3> QED
      BY <3>1, <3>2 DEF Mixed
  <2>4. ASSUME NEW f \in Field, Place(f) < next' PROVE decoded(f)' \in 0 .. 99
    <3>1. CASE f = g
      BY <1>1, <2>2, <3>1
    <3>2. CASE f # g
      BY <1>7, <1>8, <2>1, <2>4, <3>2
    <3> QED
      BY <3>1, <3>2
  <2> QED
    BY <1>1, <2>1, <2>3, <2>4
<1>10. Still'
  <2> SUFFICES ASSUME since = "still", NEW f \in Field, Place(f) < next'
               PROVE  read'[f] = cmos_read(f)'
    BY <1>1 DEF Still
  <2>1. CASE f = g
    BY <1>4, <2>1
  <2>2. CASE f # g
    <3>1. read[f] = cmos_read(f)
      BY <1>1, <1>8, <2>2 DEF TimeInv, Still
    <3> QED
      BY <1>3, <1>4, <2>2, <3>1
  <2> QED
    BY <2>1, <2>2
<1> QED
  BY <1>1, <1>6, <1>9, <1>10 DEF TimeInv, QuietIsRight, NeverBehind

LEMMA ShowStep == TimeInv /\ show => TimeInv'
<1> SUFFICES ASSUME TimeInv, show PROVE TimeInv'
  OBVIOUS
<1> DEFINE value(f) == IF f = "hour" THEN hour24(decoded(f)) ELSE decoded(f)
<1>1. /\ next = 7 /\ next' = 0 /\ shown' = [f \in Field |-> print_padded(value(f))]
      /\ start' = start /\ since' = since /\ read' = read
      /\ now' = now /\ regB' = regB /\ now \in Times /\ start \in Times
  BY DEF TimeInv, TimeTypes, show, rtc
<1>2. \A f \in Field : Place(f) < 7
  BY Places
<1>3. TimeTypes'
  BY <1>1 DEF TimeInv, TimeTypes
<1>4. Ahead' /\ Still'
  BY <1>1 DEF Ahead, Still
<1>5. QuietIsRight'
  <2> SUFFICES ASSUME since = "still", NEW f \in Field, ~ TwelveOClock(f)
               PROVE  shown'[f] = Digits(now[f])
    BY <1>1 DEF QuietIsRight, TwelveOClock
  <2>1. read[f] = cmos_read(f)
    BY <1>1, <1>2 DEF TimeInv, Still
  <2>2. CASE f # "hour" \/ regB.h24
    <3>1. decoded(f) = now[f] /\ now[f] \in 0 .. 99
      BY <1>1, <2>1, <2>2, DecodesBack DEF Decodes
    <3>2. value(f) = now[f]
      BY <2>2, <3>1 DEF hour24
    <3>3. print_padded(now[f]) = Digits(now[f])
      BY <3>1, PrintTwo
    <3> QED
      BY <1>1, <2>2, <3>2, <3>3
  <2>3. CASE f = "hour" /\ ~ regB.h24
    <3>1. value(f) = IF now.hour \in {0, 12} THEN 12 - now.hour ELSE now.hour
      BY <1>1, <2>1, <2>3, HourBack
    <3>2. now.hour \in 0 .. 23
      BY <1>1, TimeFields
    <3>3. value(f) \in 0 .. 99
      BY <3>1, <3>2
    <3>4. print_padded(value(f)) = Digits(value(f))
      <4> HIDE DEF value
      <4> QED
        BY <3>3, PrintTwo
    <3>5. value(f) = now[f]
      BY <2>3, <3>1 DEF TwelveOClock
    <3> QED
      BY <1>1, <2>3, <3>4, <3>5
  <2> QED
    BY <2>2, <2>3
<1>6. NeverBehind'
  <2> SUFFICES ASSUME regB.h24, since # "century"
               PROVE  NotAfter(start, [f \in Field |-> 10 * shown'[f][1] + shown'[f][2]])
    BY <1>1 DEF NeverBehind
  <2>1. NotAfter(start, Mixed) /\ \A f \in Field : decoded(f) \in 0 .. 99
    BY <1>1, <1>2 DEF TimeInv, Ahead
  <2>2. Mixed = [f \in Field |-> decoded(f)]
    BY <1>1, <1>2 DEF Mixed
  <2>3. ASSUME NEW f \in Field PROVE 10 * shown'[f][1] + shown'[f][2] = decoded(f)
    <3>1. value(f) = decoded(f)
      BY DEF hour24
    <3>2. shown'[f] = print_padded(decoded(f))
      BY <1>1, <3>1
    <3> QED
      BY <2>1, <3>2, PrintTwo
  <2> QED
    BY <2>1, <2>2, <2>3
<1> QED
  BY <1>3, <1>4, <1>5, <1>6 DEF TimeInv

LEMMA BeginStep == TimeInv /\ (update_begins \/ UNCHANGED clock_vars) => TimeInv'
<1> SUFFICES ASSUME TimeInv, update_begins \/ UNCHANGED clock_vars PROVE TimeInv'
  OBVIOUS
<1>1. /\ next' = next /\ start' = start /\ since' = since /\ shown' = shown
      /\ now' = now /\ regB' = regB /\ read' = read
  BY DEF update_begins, clock_vars, rtc
<1>2. \A f : decoded(f)' = decoded(f) /\ cmos_read(f)' = cmos_read(f)
  BY <1>1 DEF decoded, cmos_read, Hours, Coded
<1>3. Mixed' = Mixed
  BY <1>1, <1>2 DEF Mixed
<1>4. TimeTypes' /\ Ahead' /\ Still'
  BY <1>1, <1>2, <1>3 DEF TimeInv, TimeTypes, Ahead, Still
<1> QED
  BY <1>1, <1>4 DEF TimeInv, QuietIsRight, TwelveOClock, NeverBehind

LEMMA EndStep == TimeInv /\ update_ends => TimeInv'
<1> SUFFICES ASSUME TimeInv, update_ends PROVE TimeInv'
  OBVIOUS
<1>1. /\ next' = next /\ start' = start /\ shown' = shown
      /\ now' = Later(now) /\ regB' = regB /\ read' = read
      /\ since' = IF now'.year < now.year THEN "century"
                  ELSE IF since = "still" THEN "moved" ELSE since
      /\ now \in Times /\ start \in Times /\ since \in {"still", "moved", "century"}
      /\ next \in 0 .. 7
  BY DEF TimeInv, TimeTypes, update_ends
<1>2. now' \in Times
  BY <1>1, LaterIsTime
<1>3. since' # "still" /\ since' \in {"still", "moved", "century"}
      /\ (since' # "century" => since # "century" /\ ~ (now'.year < now.year))
  BY <1>1
<1>4. TimeTypes'
  BY <1>1, <1>2, <1>3 DEF TimeInv, TimeTypes
<1>5. Still' /\ QuietIsRight'
  BY <1>3 DEF Still, QuietIsRight
<1>6. NeverBehind'
  BY <1>1, <1>3 DEF TimeInv, NeverBehind
<1>7. Ahead'
  <2> SUFFICES ASSUME next # 0, regB.h24, since' # "century"
               PROVE  /\ NotAfter(start, Mixed')
                      /\ \A f \in Field : Place(f) < next => decoded(f)' \in 0 .. 99
    BY <1>1 DEF Ahead
  <2>1. NotAfter(start, Mixed) /\ \A f \in Field : Place(f) < next => decoded(f) \in 0 .. 99
    BY <1>3 DEF TimeInv, Ahead
  <2>2. \A f : decoded(f)' = decoded(f)
    BY <1>1 DEF decoded
  <2>3. PICK n \in 1 .. 7 :
           /\ n # 7 => now[Registers[n]] # Limit(now)[Registers[n]]
           /\ \A i \in 1 .. 6 : i < n => now[Registers[i]] = Limit(now)[Registers[i]]
           /\ \A i \in 1 .. 6 :
                now'[Registers[i]] =
                  IF i < n THEN Least(Registers[i])
                  ELSE IF i = n THEN now[Registers[i]] + 1 ELSE now[Registers[i]]
    BY <1>1, LaterFields
  <2>4. n # 7
    <3> SUFFICES ASSUME n = 7 PROVE FALSE
      OBVIOUS
    <3>1. now["year"] = 99 /\ now'["year"] = 0
      BY <2>3, Regs, Limits DEF Least
    <3> QED
      BY <1>3, <3>1
  <2>5. /\ \A i \in 1 .. 6 : Mixed[Registers[i]] = IF i < next THEN decoded(Registers[i]) ELSE now[Registers[i]]
        /\ \A i \in 1 .. 6 : Mixed'[Registers[i]] = IF i < next THEN decoded(Registers[i]) ELSE now'[Registers[i]]
    BY <1>1, <2>2, Places DEF Mixed
  <2>6. CASE n < next
    <3>1. \A i \in 1 .. 6 : Mixed'[Registers[i]] = Mixed[Registers[i]]
      BY <1>1, <2>3, <2>5, <2>6
    <3>2. \A f \in Field : Mixed'[f] = Mixed[f]
      BY <3>1, Places
    <3>3. Mixed' = Mixed
      BY <3>2 DEF Mixed
    <3> QED
      BY <2>1, <2>2, <3>3
  <2>7. CASE n >= next
    <3>1. now \in [Field -> Nat] /\ now' \in [Field -> Nat] /\ start \in [Field -> Nat]
      BY <1>1, <1>2, TimeFields
    <3>2. \A f \in Field : Mixed[f] \in Int /\ Mixed'[f] \in Int /\ start[f] \in Int
      BY <1>1, <2>1, <2>2, <3>1 DEF Mixed
    <3>3. n \in 1 .. 6
      BY <2>4
    <3>4. Mixed[Registers[n]] < Mixed'[Registers[n]]
      <4>1. Mixed[Registers[n]] = now[Registers[n]] /\ Mixed'[Registers[n]] = now[Registers[n]] + 1
        BY <1>1, <2>3, <2>5, <2>7, <3>3
      <4>2. now[Registers[n]] \in Nat
        BY <3>1, <3>3, Places
      <4> QED
        BY <4>1, <4>2
    <3>5. \A j \in 1 .. 6 : j > n => Mixed'[Registers[j]] = Mixed[Registers[j]]
      BY <1>1, <2>3, <2>5, <3>3
    <3>6. NotAfter(start, Mixed')
      BY <2>1, <3>2, <3>3, <3>4, <3>5, LaterStill
    <3> QED
      BY <2>1, <2>2, <3>6
  <2> QED
    BY <1>1, <2>6, <2>7
<1> QED
  BY <1>4, <1>5, <1>6, <1>7 DEF TimeInv

LEMMA TimeInvariance == ClockSpec => []TimeInv
<1>1. TimeInv /\ [ClockNext]_clock_vars => TimeInv'
  BY WaitStep, ReadStep, ShowStep, BeginStep, EndStep DEF ClockNext, cmd_time
<1> QED
  BY TimeInit, <1>1, PTL DEF ClockSpec

\* For every date and time a clock can keep, in all four ways of counting: if the
\* clock has not moved since the time command found no update announced, what it
\* shows is the clock's time, but for the hour that a 12-hour clock calls 12, of
\* which nothing is said (it is shown wrong: see ShowsTheTime).
THEOREM QuietTimes == ClockSpec => []QuietIsRight
<1>1. TimeInv => QuietIsRight
  BY DEF TimeInv
<1> QED
  BY <1>1, TimeInvariance, PTL

\* For every start and however many updates fall between the reads of the
\* registers: the time command never shows a time before the one it was run at.
THEOREM NoTimeTravel == ClockSpec => []NeverBehind
<1>1. TimeInv => NeverBehind
  BY DEF TimeInv
<1> QED
  BY <1>1, TimeInvariance, PTL
=============================================================================
