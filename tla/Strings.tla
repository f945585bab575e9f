------------------------------- MODULE Strings -------------------------------
(***************************************************************************)
(* The string and memory functions of string.h.  A behaviour is one call   *)
(* on an arbitrary memory, executed one round of its loop at a time; the   *)
(* properties compare what it leaves behind with what the function is for. *)
(*                                                                         *)
(* Memory is the cells 0 .. Size - 1.  An access outside of them is an     *)
(* error TLC reports, so every run also shows that no function reads or    *)
(* writes beyond what its caller has to provide.                           *)
(***************************************************************************)
EXTENDS Integers, FiniteSetsExt

CONSTANTS
  Size,     \* cells of memory
  Bytes,    \* the byte values that occur
  Values    \* the int values memset is called with

ASSUME SizeAssumption == Size \in Nat \ {0}
ASSUME ByteAssumption == 0 \in Bytes /\ Bytes \subseteq 0 .. 255 /\ Values \subseteq Int

Cells == 0 .. Size - 1

Compare == {"strlen", "strcmp", "strncmp", "memcmp"}
Copy    == {"strcpy", "strncpy", "memset", "memcpy", "memmove"}

VARIABLES
  mem,
  call,     \* the function and its arguments: p, q (or memset's val), n
  d, s, n,  \* the pointers and the counter of the loop
  pc,       \* "loop", "fill" (second loop of strncpy), "backwards", "done"
  ret,      \* the value returned by a comparison or by strlen
  before    \* the memory at the time of the call (history)

vars == <<mem, call, d, s, n, pc, ret, before>>

-----------------------------------------------------------------------------
(* What a caller has to provide.                                           *)

Nuls(m, p) == {i \in Cells : i >= p /\ m[i] = 0}

\* The length of the string at p, and how far a function may look that stops
\* at its NUL or after c characters.
Length(m, p)  == Min(Nuls(m, p)) - p
Bound(m, p, c) == IF Nuls(m, p) # {} THEN Min({c, Length(m, p) + 1}) ELSE c

Area(p, c)      == p .. p + c - 1
Apart(p, q, c, e) == Area(p, c) \cap Area(q, e) = {}

\* For strncpy the caller provides the n cells at p; what lies behind them is memory
\* too, whosever it is, and even the source may begin there.
Valid(m, f, p, q, c) ==
  CASE f = "strlen"  -> Nuls(m, p) # {}
    [] f = "strcmp"  -> Nuls(m, p) # {} /\ Nuls(m, q) # {}
    [] f = "strncmp" -> /\ Nuls(m, p) # {} \/ Area(p, c) \subseteq Cells
                        /\ Nuls(m, q) # {} \/ Area(q, c) \subseteq Cells
    [] f = "memcmp"  -> Area(p, c) \cup Area(q, c) \subseteq Cells
    [] f = "strcpy"  -> /\ Nuls(m, q) # {}
                        /\ Area(p, Length(m, q) + 1) \subseteq Cells
                        /\ Apart(p, q, Length(m, q) + 1, Length(m, q) + 1)
    [] f = "strncpy" -> /\ Nuls(m, q) # {} \/ Area(q, c) \subseteq Cells
                        /\ Area(p, c + 1) \subseteq Cells
                        /\ Apart(p, q, c, Bound(m, q, c))
    [] f = "memset"  -> Area(p, c) \subseteq Cells
    [] f = "memcpy"  -> /\ Area(p, c) \cup Area(q, c) \subseteq Cells
                        /\ Apart(p, q, c, c)
    [] f = "memmove" -> Area(p, c) \cup Area(q, c) \subseteq Cells

\* Only memset takes a value for q, and only some functions a count.
Arguments(f) ==
  [fn : {f}, p : Cells,
   q  : IF f = "memset" THEN Values ELSE IF f = "strlen" THEN {0} ELSE Cells,
   n  : IF f \in {"strlen", "strcmp", "strcpy"} THEN {0} ELSE 0 .. Size]

\* memmove of overlapping areas walks down when the destination is above; the
\* pointers then start behind the last byte.
descends_never(c) == FALSE
descends(c) == c.fn = "memmove" /\ ~ (c.p < c.q)

Init ==
  /\ mem \in [Cells -> Bytes]
  /\ \E f \in Compare \cup Copy : call \in Arguments(f)
  /\ Valid(mem, call.fn, call.p, call.q, call.n)
  /\ d = IF descends(call) THEN call.p + call.n ELSE call.p
  /\ s = IF descends(call) THEN call.q + call.n ELSE call.q
  /\ n = call.n
  /\ pc = IF descends(call) THEN "backwards" ELSE "loop"
  /\ ret = 0
  /\ before = mem

-----------------------------------------------------------------------------
in(label, fs) == pc = label /\ call.fn \in fs

return(v) ==
  /\ pc' = "done"
  /\ ret' = v
  /\ UNCHANGED <<mem, call, d, s, n, before>>

advance == d' = d + 1 /\ s' = s + 1

\* One round of a loop that only reads.
look == advance /\ UNCHANGED <<mem, call, pc, ret, before>>

\* strlen's len is n.
strlen ==
  /\ in("loop", {"strlen"})
  /\ \/ mem[d + n] # 0 /\ n' = n + 1 /\ UNCHANGED <<mem, call, d, s, pc, ret, before>>
     \/ mem[d + n] = 0 /\ return(n)

strcmp ==
  /\ in("loop", {"strcmp"})
  /\ \/ mem[d] # 0 /\ mem[d] = mem[s] /\ look /\ UNCHANGED n
     \/ (mem[d] = 0 \/ mem[d] # mem[s]) /\ return(mem[d] - mem[s])

\* A bug: the last characters are compared although n is used up.
strncmp_one_more ==
  /\ in("loop", {"strncmp"})
  /\ \/ n # 0 /\ mem[d] # 0 /\ mem[d] = mem[s] /\ look /\ n' = n - 1
     \/ n = 0 /\ {d, s} \subseteq Cells /\ return(mem[d] - mem[s])
     \/ n = 0 /\ ~ {d, s} \subseteq Cells /\ return(0)
     \/ n # 0 /\ (mem[d] = 0 \/ mem[d] # mem[s]) /\ return(mem[d] - mem[s])

strncmp ==
  /\ in("loop", {"strncmp"})
  /\ \/ n # 0 /\ mem[d] # 0 /\ mem[d] = mem[s] /\ look /\ n' = n - 1
     \/ n = 0 /\ return(0)
     \/ n # 0 /\ (mem[d] = 0 \/ mem[d] # mem[s]) /\ return(mem[d] - mem[s])

memcmp ==
  /\ in("loop", {"memcmp"})
  /\ \/ n # 0 /\ mem[d] = mem[s] /\ look /\ n' = n - 1
     \/ n # 0 /\ mem[d] # mem[s] /\ return(mem[d] - mem[s])
     \/ n = 0 /\ return(0)

strcpy ==
  /\ in("loop", {"strcpy"})
  /\ mem' = [mem EXCEPT ![d] = mem[s]]
  /\ advance
  /\ pc' = IF mem[s] = 0 THEN "done" ELSE "loop"
  /\ UNCHANGED <<call, n, ret, before>>

\* n does not count the terminating NUL, which the first loop has stored.
strncpy_copy ==
  /\ in("loop", {"strncpy"})
  /\ \/ /\ n # 0
        /\ mem' = [mem EXCEPT ![d] = mem[s]]
        /\ advance
        /\ IF mem[s] # 0 THEN n' = n - 1 /\ UNCHANGED pc ELSE pc' = "fill" /\ UNCHANGED n
     \/ n = 0 /\ pc' = "fill" /\ UNCHANGED <<mem, d, s, n>>
  /\ UNCHANGED <<call, ret, before>>

\* Stores v at a and takes one off the counter, as long as something is left.
store(a, v) ==
  /\ n # 0
  /\ mem' = [mem EXCEPT ![a] = v]
  /\ n' = n - 1
  /\ UNCHANGED <<call, pc, ret, before>>

strncpy_fill ==
  /\ in("fill", {"strncpy"})
  /\ \/ store(d, 0) /\ d' = d + 1 /\ UNCHANGED s
     \/ n = 0 /\ return(ret)

memset ==
  /\ in("loop", {"memset"})
  /\ \/ store(d, call.q % 256) /\ d' = d + 1 /\ UNCHANGED s
     \/ n = 0 /\ return(ret)

\* memcpy, and memmove to a lower address.
memcpy ==
  /\ in("loop", {"memcpy", "memmove"})
  /\ \/ n # 0 /\ store(d, mem[s]) /\ advance
     \/ n = 0 /\ return(ret)

memmove ==
  /\ in("backwards", {"memmove"})
  /\ \/ n # 0 /\ store(d - 1, mem[s - 1]) /\ d' = d - 1 /\ s' = s - 1
     \/ n = 0 /\ return(ret)

Next ==
  \/ strlen  \/ strcmp  \/ strncmp      \/ memcmp
  \/ strcpy  \/ strncpy_copy  \/ strncpy_fill
  \/ memset  \/ memcpy  \/ memmove

Spec == Init /\ [][Next]_vars

-----------------------------------------------------------------------------
(* Properties.                                                             *)

\* What a copying function is for, given as the memory it has to leave: the
\* cells of the destination hold what the source held at the time of the
\* call (also if the two overlap, for memmove) and nothing else has changed.
\* strncpy fills its n cells with NULs behind a shorter source.
Copied(c, m) ==
  LET len   == IF c.fn = "strcpy" THEN Length(m, c.q) + 1 ELSE c.n
      at(i) == CASE c.fn = "memset"  -> c.q % 256
                 [] c.fn = "strncpy" -> IF i < Bound(m, c.q, c.n) THEN m[c.q + i] ELSE 0
                 [] OTHER            -> m[c.q + i]
  IN  [k \in Cells |-> IF k \in Area(c.p, len) THEN at(k - c.p) ELSE m[k]]

\* The cell behind strncpy's destination, if the source is shorter than n.
Behind(c, m) ==
  {k \in {c.p + c.n} : c.fn = "strncpy" /\ Nuls(m, c.q) # {} /\ Length(m, c.q) < c.n}

\* After its last round a function has left that memory; one that only looks
\* has left the memory as it was.  Nothing is said here of the cell behind
\* strncpy's destination when the source is shorter: see StrncpyWithinN.
CopiesRight ==
  pc = "done" =>
    \A k \in Cells \ Behind(call, before) :
      mem[k] = IF call.fn \in Copy THEN Copied(call, before)[k] ELSE before[k]

\* string.h: "strncpy - Maximal n Zeichen kopieren".  strncpy changes nothing but
\* the n cells of its destination.  The code does not keep to this: the NUL its
\* first loop stores is not counted, and the second clears one cell too many.
StrncpyWithinN ==
  call.fn = "strncpy" => \A k \in Cells \ Area(call.p, call.n) : mem[k] = before[k]

\* What a comparison has to return: the difference, as unsigned bytes, at the
\* first place where the two differ, and 0 if they agree up to the NUL of the
\* shorter string or over all n bytes.  strlen returns the distance to the
\* first NUL.
Compared(c, m) ==
  LET limit == CASE c.fn = "strcmp"  -> Min({Length(m, c.p), Length(m, c.q)}) + 1
                 [] c.fn = "strncmp" -> Min({Bound(m, c.p, c.n), Bound(m, c.q, c.n)})
                 [] c.fn = "memcmp"  -> c.n
      places == {i \in 0 .. limit - 1 : m[c.p + i] # m[c.q + i]}
      first  == Min(places)
  IN  IF places = {} THEN 0 ELSE m[c.p + first] - m[c.q + first]

\* After its last round a comparison, or strlen, returns that value.
ComparesRight ==
  pc = "done" /\ call.fn \in Compare =>
    ret = IF call.fn = "strlen" THEN Length(before, call.p) ELSE Compared(call, before)
=============================================================================
