----------------------------- MODULE MemoryProofs -----------------------------
(***************************************************************************)
(* Proofs about the memory managers, for every number of frames, every     *)
(* memory map and every size of the heap, of its pages and of the page     *)
(* tables: the counter is the bitmap's, no frame serves two purposes, none *)
(* is lost without a message, and the blocks of kmalloc stay usable.       *)
(***************************************************************************)
EXTENDS Memory, FiniteSetTheorems, WellFoundedInduction, TLAPS

\* The frames that are never handed out.
Base == (Frames \ Usable) \cup Reserved

\* The page a command has mapped the i-th frame it holds to, while it has.
Lent(i) ==
  \/ op = "vmtest_unmap"
  \/ op = "memtest_map" /\ i <= page
  \/ op = "memtest_unmap" /\ i > page
Target(i) == IF op = "vmtest_unmap" THEN HeapPage(VMTEST_PAGE) ELSE WindowPage(i - 1)

\* A frame in use is a table, behind one page, held by the command in progress or
\* displaced by vmtest, and only one of these, except that a held frame is behind
\* the page the command has mapped it to.
Apart ==
  /\ Base \subseteq used
  /\ displaced \subseteq used \ Base
  /\ \A t \in Tables : table[t] # 0 => table[t] \in (used \ Base) \ displaced
  /\ \A v \in Pages : pte[v] # 0 => pte[v] \in (used \ Base) \ displaced
  /\ \A i \in DOMAIN held : held[i] \in (used \ Base) \ displaced
  /\ \A s, t \in Tables : table[s] # 0 /\ table[s] = table[t] => s = t
  /\ \A v, w \in Pages : pte[v] # 0 /\ pte[v] = pte[w] => v = w
  /\ \A i, j \in DOMAIN held : held[i] = held[j] => i = j
  /\ \A t \in Tables, v \in Pages : table[t] # 0 => table[t] # pte[v]
  /\ \A t \in Tables, i \in DOMAIN held : table[t] # held[i]
  /\ \A i \in DOMAIN held : IF Lent(i) THEN pte[Target(i)] = held[i]
                            ELSE \A v \in Pages : pte[v] # held[i]

\* Every page that is mapped can be reached: no table above it is missing.
Reached == \A v \in Pages : pte[v] # 0 => Present(v)

\* What the command in progress holds.
Locals ==
  /\ op \in {"none", "kmalloc"} => held = <<>>
  /\ op \in {"vmtest_map", "vmtest_unmap"} =>
       Len(held) = 1 /\ Present(HeapPage(VMTEST_PAGE))
  /\ op = "memtest_alloc" => Len(held) <= TEST_PAGES
  /\ op \in {"memtest_map", "memtest_unmap"} =>
       Len(held) = TEST_PAGES /\ page \in 0 .. TEST_PAGES
  /\ op = "usertest_stack" => Len(held) = 1
  /\ op \in {"usertest_code", "usertest_map"} => Len(held) = 2

\* Where the loop of kmalloc is, and the pages it has seen to.
Backed(v) == vmm_virt_to_phys(v) # 0 \/ v \in unmapped
Loop ==
  op = "kmalloc" =>
    /\ size >= 1 /\ heap_current_ptr + size < HeapEnd
    /\ page \in heap_current_ptr \div PAGE_UNITS .. end_page
    /\ \A n \in heap_current_ptr \div PAGE_UNITS .. page - 1 : Backed(HeapPage(n))

\* The pages of its window that memtest has mapped and not yet unmapped.
InWindow(n) == \/ op = "memtest_map" /\ n < page
               \/ op = "memtest_unmap" /\ n >= page

\* While no error has been reported, every frame in use has its purpose, and only
\* the pages memtest has just mapped are mapped in its window.
Accounted ==
  ~error =>
    /\ \A f \in used : \/ f \in Base \cup displaced
                       \/ \E t \in Tables : table[t] = f
                       \/ \E v \in Pages : pte[v] = f
                       \/ \E i \in DOMAIN held : held[i] = f
    /\ \A n \in 0 .. TEST_PAGES - 1 : pte[WindowPage(n)] # 0 => InWindow(n)

Blocks == blocks \subseteq [start : Nat, size : Nat \ {0}]

IInv ==
  /\ TypeOK /\ CountMatches
  /\ Apart /\ Reached /\ Locals /\ Accounted
  /\ Blocks /\ Loop /\ BlocksUsable

USE TotalPagesAssumption, FramesAssumption, FrameZeroAssumption, HeapAssumption,
    CommandsAssumption, UserAssumption

-----------------------------------------------------------------------------
(* Arithmetic. *)

\* What the least element of a set of numbers needs.
LEMMA Least ==
  ASSUME NEW S \in SUBSET Nat, S # {}
  PROVE  \E m \in S : \A k \in S : m <= k
<1> DEFINE R == OpToRel(<, Nat)
<1>1. \E m \in S : \A k \in S : ~ (<<k, m>> \in R)
  <2>1. IsWellFoundedOn(R, Nat)
    BY NatLessThanWellFounded
  <2> HIDE DEF R
  <2> QED
    BY <2>1, WFMin
<1>2. PICK m \in S : \A k \in S : ~ (<<k, m>> \in R)
  BY <1>1
<1>3. \A k \in S : ~(k < m)
  BY <1>2 DEF OpToRel
<1> QED
  BY <1>3

LEMMA DivBounds ==
  ASSUME NEW a \in Nat, NEW p \in Nat \ {0}
  PROVE  a \div p \in Nat /\ p * (a \div p) <= a /\ a < p * (a \div p) + p
OBVIOUS

LEMMA DivUnique ==
  ASSUME NEW a \in Nat, NEW p \in Nat \ {0}, NEW q \in Int, p * q <= a, a < p * q + p
  PROVE  a \div p = q
<1> DEFINE r == a \div p
<1>1. r \in Int /\ p * r <= a /\ a < p * r + p
  BY DivBounds
<1> HIDE DEF r
<1>2. CASE r >= q + 1
  <2>1. p * r >= p * (q + 1)
    BY <1>1, <1>2
  <2> QED
    BY <1>1, <2>1
<1>3. CASE r <= q - 1
  <2>1. p * r <= p * (q - 1)
    BY <1>1, <1>3
  <2> QED
    BY <1>1, <2>1
<1> QED
  BY <1>1, <1>2, <1>3 DEF r

\* The end address rounded up is one page behind the page of the last byte.
LEMMA RoundedUp ==
  ASSUME NEW x \in Nat \ {0}, NEW p \in Nat \ {0}
  PROVE  (x + p - 1) \div p = (x - 1) \div p + 1
<1> DEFINE q == (x - 1) \div p
<1>1. q \in Nat /\ p * q <= x - 1 /\ x - 1 < p * q + p
  BY DivBounds, x - 1 \in Nat
<1> HIDE DEF q
<1>2. p * (q + 1) = p * q + p
  BY <1>1
<1>3. p * (q + 1) <= x + p - 1 /\ x + p - 1 < p * (q + 1) + p
  BY <1>1, <1>2
<1>4. (x + p - 1) \div p = q + 1
  BY <1>1, <1>3, DivUnique, x + p - 1 \in Nat, q + 1 \in Int
<1> QED
  BY <1>4 DEF q

\* A number below n * p lies in one of the first n intervals of length p.
LEMMA DivBelow ==
  ASSUME NEW a \in Nat, NEW p \in Nat \ {0}, NEW n \in Nat, a < n * p
  PROVE  a \div p \in 0 .. n - 1
<1> DEFINE r == a \div p
<1>1. r \in Nat /\ p * r <= a
  BY DivBounds
<1> HIDE DEF r
<1>2. CASE r >= n
  <2>1. p * r >= p * n
    BY <1>1, <1>2
  <2> QED
    BY <1>1, <2>1
<1> QED
  BY <1>1, <1>2 DEF r

LEMMA DivMonotone ==
  ASSUME NEW a \in Nat, NEW b \in Nat, NEW p \in Nat \ {0}, a <= b
  PROVE  a \div p <= b \div p
<1> DEFINE r == a \div p  t == b \div p
<1>1. r \in Nat /\ p * r <= a /\ t \in Nat /\ b < p * t + p
  BY DivBounds
<1> HIDE DEF r, t
<1>2. CASE r >= t + 1
  <2>1. p * r >= p * (t + 1)
    BY <1>1, <1>2
  <2> QED
    BY <1>1, <2>1
<1> QED
  BY <1>1, <1>2 DEF r, t

-----------------------------------------------------------------------------
(* The bitmap. *)

LEMMA FramesFinite == IsFiniteSet(Frames) /\ Cardinality(Frames) = TotalPages
<1>1. 0 \in Int /\ TotalPages - 1 \in Int
  OBVIOUS
<1>2. /\ IsFiniteSet(0 .. TotalPages - 1)
      /\ Cardinality(0 .. TotalPages - 1)
           = IF 0 > TotalPages - 1 THEN 0 ELSE (TotalPages - 1) - 0 + 1
  BY <1>1, FS_Interval, Zenon
<1> QED
  BY <1>2 DEF Frames

\* Sets of frames have a cardinality between 0 and the number of frames.
LEMMA FrameSets ==
  ASSUME NEW u \in SUBSET Frames
  PROVE  IsFiniteSet(u) /\ Cardinality(u) \in 0 .. TotalPages
<1>1. IsFiniteSet(u) /\ Cardinality(u) <= Cardinality(Frames)
  BY FramesFinite, FS_Subset, Zenon
<1>2. Cardinality(u) \in Nat
  BY <1>1, FS_CardinalityType, Zenon
<1> QED
  BY <1>1, <1>2, FramesFinite

\* pmm_alloc_page returns 0 or a frame that was free.
LEMMA Alloc ==
  ASSUME NEW u \in SUBSET Frames, 0 \in u
  PROVE  \/ pmm_alloc_page(u) = 0
         \/ pmm_alloc_page(u) \in Frames \ u /\ pmm_alloc_page(u) # 0
<1>1. CASE FreeFrames(u) # {}
  <2>1. FreeFrames(u) \in SUBSET Nat
    BY DEF FreeFrames, Frames
  <2>2. \E f \in FreeFrames(u) : \A g \in FreeFrames(u) : f <= g
    BY <1>1, <2>1, Least
  <2>3. pmm_alloc_page(u) \in FreeFrames(u)
    BY <1>1, <2>2 DEF pmm_alloc_page
  <2> QED
    BY <2>3 DEF FreeFrames
<1> QED
  BY <1>1 DEF pmm_alloc_page

\* pmm_init counts the bits it leaves.
LEMMA InitCount ==
  Cardinality(Base) = TotalPages - Cardinality(Usable) + Cardinality(Usable \cap Reserved)
<1> DEFINE A == Frames \ Usable
           B == Usable \cap Reserved
<1>1. Base = A \cup B /\ A \cap B = {} /\ A \in SUBSET Frames /\ B \in SUBSET Frames
      /\ Usable \in SUBSET Frames /\ A \cup Usable = Frames /\ A \cap Usable = {}
  BY DEF Base
<1>2. /\ IsFiniteSet(A) /\ IsFiniteSet(B) /\ IsFiniteSet(Usable)
      /\ Cardinality(A) \in Nat /\ Cardinality(B) \in Nat /\ Cardinality(Usable) \in Nat
  BY <1>1, FrameSets
<1> HIDE DEF A, B
<1>3. Cardinality(Base) = Cardinality(A) + Cardinality(B)
  <2>1. Cardinality(A \cup B) = Cardinality(A) + Cardinality(B) - Cardinality(A \cap B)
    BY <1>2, FS_Union, Zenon
  <2>2. Cardinality(A \cap B) = 0
    BY <1>1, FS_EmptySet, Zenon
  <2> QED
    BY <1>1, <1>2, <2>1, <2>2
<1>4. TotalPages = Cardinality(A) + Cardinality(Usable)
  <2>1. Cardinality(A \cup Usable)
          = Cardinality(A) + Cardinality(Usable) - Cardinality(A \cap Usable)
    BY <1>2, FS_Union, Zenon
  <2>2. Cardinality(A \cap Usable) = 0
    BY <1>1, FS_EmptySet, Zenon
  <2>3. Cardinality(A \cup Usable) = TotalPages
    BY <1>1, FramesFinite, Zenon
  <2> QED
    BY <1>1, <1>2, <2>1, <2>2, <2>3
<1> QED
  BY <1>2, <1>3, <1>4 DEF B

-----------------------------------------------------------------------------
(* The walk.  Its result w extends the tables there were by frames that were *)
(* free in the bitmap u it started with, each of them once.                  *)

Extends(u, w) ==
  /\ w.used \in SUBSET Frames /\ u \subseteq w.used
  /\ w.table \in [Tables -> Frames]
  /\ \A t \in Tables : table[t] # 0 => w.table[t] = table[t]
  /\ \A t \in Tables : w.table[t] # 0 => w.table[t] = table[t] \/ w.table[t] \in w.used \ u
  /\ \A t \in Tables : w.table[t] # 0 => w.table[t] \in w.used
  /\ \A f \in w.used \ u : \E t \in Tables : w.table[t] = f
  /\ \A s, t \in Tables : w.table[s] # 0 /\ w.table[s] = w.table[t] => s = t

\* One level keeps that, and leaves a table behind unless the walk has failed.
LEMMA Level ==
  ASSUME NEW u \in SUBSET Frames, 0 \in u, NEW w, Extends(u, w), NEW t \in Tables,
         NEW x, x = WithTable(w, t)
  PROVE  /\ Extends(u, x)
         /\ \A s \in Tables : w.table[s] # 0 => x.table[s] = w.table[s]
         /\ x.ok => w.ok /\ x.table[t] # 0
<1> DEFINE f == pmm_alloc_page(w.used)
<1>0. w.used \in SUBSET Frames /\ 0 \in w.used
  BY DEF Extends
<1>1. f = 0 \/ (f \in Frames \ w.used /\ f # 0)
  BY <1>0, Alloc
<1> HIDE DEF f
<1>2. CASE ~w.ok \/ w.table[t] # 0
  <2>1. x = w
    BY <1>2 DEF WithTable
  <2> QED
    BY <1>2, <2>1
<1>3. CASE w.ok /\ w.table[t] = 0 /\ f = 0
  <2>1. x.used = w.used /\ x.table = w.table /\ x.ok = FALSE
    BY <1>3 DEF WithTable, Walked, f
  <2> QED
    BY <2>1 DEF Extends
<1>4. CASE w.ok /\ w.table[t] = 0 /\ f # 0
  <2>1. x.used = w.used \cup {f} /\ x.table = [w.table EXCEPT ![t] = f]
    BY <1>4 DEF WithTable, Walked, f
  <2>2. f \in Frames \ w.used /\ f \notin u
    BY <1>1, <1>4 DEF Extends
  <2>3. /\ x.table \in [Tables -> Frames]
        /\ x.table[t] = f
        /\ \A s \in Tables : s # t => x.table[s] = w.table[s]
    BY <2>1, <2>2 DEF Extends
  <2>4. table[t] = 0
    BY <1>4 DEF Extends
  <2>5. Extends(u, x)
    <3>1. x.used \in SUBSET Frames /\ u \subseteq x.used
      BY <1>0, <2>1, <2>2 DEF Extends
    <3>2. \A s \in Tables : table[s] # 0 => x.table[s] = table[s]
      BY <2>3, <2>4 DEF Extends
    <3>3. \A s \in Tables : x.table[s] # 0 => x.table[s] = table[s] \/ x.table[s] \in x.used \ u
      BY <2>1, <2>2, <2>3 DEF Extends
    <3>4. \A s \in Tables : x.table[s] # 0 => x.table[s] \in x.used
      BY <2>1, <2>2, <2>3 DEF Extends
    <3>5. \A g \in x.used \ u : \E s \in Tables : x.table[s] = g
      <4> SUFFICES ASSUME NEW g \in x.used \ u PROVE \E s \in Tables : x.table[s] = g
        OBVIOUS
      <4>1. CASE g = f
        BY <2>3, <4>1
      <4>2. CASE g \in w.used \ u
        <5>1. PICK s \in Tables : w.table[s] = g
          BY <4>2 DEF Extends
        <5>2. s # t
          BY <1>4, <4>2, <5>1
        <5> QED
          BY <2>3, <5>1, <5>2
      <4> QED
        BY <2>1, <4>1, <4>2
    <3>6. \A s, r \in Tables : x.table[s] # 0 /\ x.table[s] = x.table[r] => s = r
      BY <2>2, <2>3 DEF Extends
    <3> QED
      BY <2>3, <3>1, <3>2, <3>3, <3>4, <3>5, <3>6 DEF Extends
  <2> QED
    BY <1>4, <2>3, <2>5
<1> QED
  BY <1>1, <1>2, <1>3, <1>4

LEMMA WalkTables ==
  ASSUME NEW v \in Pages
  PROVE  Pdpt(v) \in Tables /\ Pd(v) \in Tables /\ Pt(v) \in Tables
BY DEF Tables

\* The whole walk; the page can be reached if it succeeds, and it succeeds without
\* taking a frame where the page could be reached before.
LEMMA Walk ==
  ASSUME NEW u \in SUBSET Frames, 0 \in u, NEW v \in Pages, NEW w, w = vmm_get_pte(u, v),
         table \in [Tables -> Frames],
         \A t \in Tables : table[t] # 0 => table[t] \in u,
         \A s, t \in Tables : table[s] # 0 /\ table[s] = table[t] => s = t
  PROVE  /\ Extends(u, w)
         /\ w.ok => w.table[Pdpt(v)] # 0 /\ w.table[Pd(v)] # 0 /\ w.table[Pt(v)] # 0
         /\ Present(v) => w.ok /\ w.used = u /\ w.table = table
<1> DEFINE a == Walked(u, table, TRUE)
           b == WithTable(a, Pdpt(v))
           c == WithTable(b, Pd(v))
<1>1. a.used = u /\ a.table = table /\ a.ok
  BY DEF Walked
<1>2. w = WithTable(c, Pt(v))
  BY DEF vmm_get_pte
<1>3. Extends(u, a)
  BY <1>1 DEF Extends
<1>4. b = WithTable(a, Pdpt(v)) /\ c = WithTable(b, Pd(v))
  OBVIOUS
<1> HIDE DEF a, b, c
<1>5. Extends(u, b) /\ (b.ok => b.table[Pdpt(v)] # 0)
  BY <1>3, <1>4, WalkTables, Level
<1>6. /\ Extends(u, c)
      /\ \A s \in Tables : b.table[s] # 0 => c.table[s] = b.table[s]
      /\ c.ok => b.ok /\ c.table[Pd(v)] # 0
  <2>1. Pd(v) \in Tables
    BY WalkTables
  <2>2. Extends(u, c)
    BY <1>4, <1>5, <2>1, Level
  <2>3. \A s \in Tables : b.table[s] # 0 => c.table[s] = b.table[s]
    BY <1>4, <1>5, <2>1, Level
  <2>4. c.ok => b.ok /\ c.table[Pd(v)] # 0
    BY <1>4, <1>5, <2>1, Level
  <2> QED
    BY <2>2, <2>3, <2>4
<1>7. /\ Extends(u, w)
      /\ \A s \in Tables : c.table[s] # 0 => w.table[s] = c.table[s]
      /\ w.ok => c.ok /\ w.table[Pt(v)] # 0
  <2>1. Pt(v) \in Tables
    BY WalkTables
  <2>2. Extends(u, w)
    BY <1>2, <1>6, <2>1, Level
  <2>3. \A s \in Tables : c.table[s] # 0 => w.table[s] = c.table[s]
    BY <1>2, <1>6, <2>1, Level
  <2>4. w.ok => c.ok /\ w.table[Pt(v)] # 0
    BY <1>2, <1>6, <2>1, Level
  <2> QED
    BY <2>2, <2>3, <2>4
<1>8. ASSUME Present(v) PROVE w.ok /\ w.used = u /\ w.table = table
  <2>1. b = a
    BY <1>1, <1>4, <1>8 DEF WithTable, Present
  <2>2. c = a
    BY <1>1, <1>4, <1>8, <2>1 DEF WithTable, Present
  <2>3. w = a
    BY <1>1, <1>2, <1>8, <2>2 DEF WithTable, Present
  <2> QED
    BY <1>1, <2>3
<1> QED
  BY <1>5, <1>6, <1>7, <1>8, WalkTables

\* The bitmap and the tables after vmm_map_page.
LEMMA MapTables ==
  ASSUME TypeOK, CountMatches, Apart, NEW u \in SUBSET Frames, used \subseteq u,
         NEW v \in Pages, NEW f \in Frames, vmm_map_page(u, v, f)
  PROVE  /\ used' \in SUBSET Frames /\ u \subseteq used'
         /\ used_pages' = Cardinality(used')
         /\ table' \in [Tables -> Frames]
         /\ \A t \in Tables : table[t] # 0 => table'[t] = table[t]
         /\ \A t \in Tables : table'[t] # 0 => table'[t] = table[t] \/ table'[t] \in used' \ u
         /\ \A g \in used' \ u : \E t \in Tables : table'[t] = g
         /\ \A s, t \in Tables : table'[s] # 0 /\ table'[s] = table'[t] => s = t
         /\ \A x \in Pages : Present(x) => Present(x)'
         /\ Present(v) => used' = u /\ table' = table
<1> DEFINE w == vmm_get_pte(u, v)
<1>1. /\ used' = w.used /\ used_pages' = used_pages + Cardinality(w.used \ used)
      /\ table' = w.table
  BY DEF vmm_map_page
<1>2. /\ 0 \in u /\ table \in [Tables -> Frames]
      /\ \A t \in Tables : table[t] # 0 => table[t] \in u
      /\ \A s, t \in Tables : table[s] # 0 /\ table[s] = table[t] => s = t
  BY DEF TypeOK, Apart, Base
<1> HIDE DEF w
<1>3. Extends(u, w) /\ (Present(v) => w.used = u /\ w.table = table)
  BY <1>2, Walk DEF w
<1>4. used' \in SUBSET Frames /\ u \subseteq used' /\ used \in SUBSET used'
  BY <1>1, <1>3 DEF Extends
<1>5. used_pages' = Cardinality(used')
  <2>1. used \in SUBSET Frames /\ (used' \ used) \in SUBSET Frames
        /\ used \cup (used' \ used) = used' /\ used \cap (used' \ used) = {}
    BY <1>4
  <2>2. /\ IsFiniteSet(used) /\ IsFiniteSet(used' \ used)
        /\ Cardinality(used) \in Nat /\ Cardinality(used' \ used) \in Nat
    BY <2>1, FrameSets
  <2>3. Cardinality(used \cup (used' \ used))
          = Cardinality(used) + Cardinality(used' \ used) - Cardinality(used \cap (used' \ used))
    BY <2>2, FS_Union, Zenon
  <2>4. Cardinality(used \cap (used' \ used)) = 0
    BY <2>1, FS_EmptySet, Zenon
  <2>5. used_pages' = Cardinality(used) + Cardinality(used' \ used)
    BY <1>1 DEF CountMatches
  <2>6. Cardinality(used') = Cardinality(used \cup (used' \ used))
    BY <2>1, Zenon
  <2> QED
    BY <2>2, <2>3, <2>4, <2>5, <2>6
<1>6. \A t \in Tables : table[t] # 0 => table'[t] = table[t]
  BY <1>1, <1>3 DEF Extends
<1>7. \A x \in Pages : Present(x) => Present(x)'
  BY <1>6, WalkTables DEF Present
<1>8. /\ table' \in [Tables -> Frames]
      /\ \A t \in Tables : table'[t] # 0 => table'[t] = table[t] \/ table'[t] \in used' \ u
      /\ \A g \in used' \ u : \E t \in Tables : table'[t] = g
      /\ \A s, t \in Tables : table'[s] # 0 /\ table'[s] = table'[t] => s = t
  BY <1>1, <1>3 DEF Extends
<1> QED
  BY <1>1, <1>3, <1>4, <1>5, <1>6, <1>7, <1>8

\* The page after vmm_map_page, which succeeds where no table was missing.
LEMMA MapPage ==
  ASSUME TypeOK, Apart, NEW u \in SUBSET Frames, used \subseteq u,
         NEW v \in Pages, NEW f \in Frames, vmm_map_page(u, v, f)
  PROVE  /\ low' = low /\ low_word' = low_word
         /\ \/ /\ pte' = [pte EXCEPT ![v] = f] /\ unmapped' = unmapped \ {v}
               /\ error' = error /\ Present(v)'
            \/ /\ ~Present(v)
               /\ pte' = pte /\ unmapped' = unmapped \cup {v} /\ error' = TRUE
<1> DEFINE w == vmm_get_pte(u, v)
<1>1. /\ pte' = IF w.ok THEN [pte EXCEPT ![v] = f] ELSE pte
      /\ unmapped' = IF w.ok THEN unmapped \ {v} ELSE unmapped \cup {v}
      /\ error' = (error \/ ~w.ok)
      /\ table' = w.table /\ low' = low /\ low_word' = low_word
  BY DEF vmm_map_page, low_vars
<1>2. /\ 0 \in u /\ table \in [Tables -> Frames]
      /\ \A t \in Tables : table[t] # 0 => table[t] \in u
      /\ \A s, t \in Tables : table[s] # 0 /\ table[s] = table[t] => s = t
  BY DEF TypeOK, Apart, Base
<1> HIDE DEF w
<1>3. /\ w.ok => w.table[Pdpt(v)] # 0 /\ w.table[Pd(v)] # 0 /\ w.table[Pt(v)] # 0
      /\ Present(v) => w.ok
  BY <1>2, Walk DEF w
<1>4. CASE w.ok
  <2>1. error' = error
    BY <1>1, <1>4, Zenon DEF TypeOK
  <2> QED
    BY <1>1, <1>3, <1>4, <2>1 DEF Present
<1>5. CASE ~w.ok
  <2>1. error' = TRUE
    BY <1>1, <1>5, Zenon
  <2> QED
    BY <1>1, <1>3, <1>5, <2>1
<1> QED
  BY <1>4, <1>5

-----------------------------------------------------------------------------
(* The heap. *)

LEMMA PagesTypes ==
  /\ \A n \in 0 .. HEAP_PAGES - 1 : HeapPage(n) \in HeapPages /\ HeapPage(n) \in Pages
  /\ \A n \in 0 .. TEST_PAGES - 1 : WindowPage(n) \in Pages
  /\ \A n, m : HeapPage(n) # WindowPage(m)
  /\ \A n, m : WindowPage(n) = WindowPage(m) => n = m
  /\ \A n, m : HeapPage(n) = HeapPage(m) => n = m
BY DEF HeapPage, WindowPage, HeapPages, WindowPages, Pages

\* Mapping a page takes none away, and this one is mapped or reported.
LEMMA MapBacked ==
  ASSUME TypeOK, CountMatches, Apart, NEW u \in SUBSET Frames, used \subseteq u,
         NEW v \in Pages, NEW f \in Frames, f # 0, vmm_map_page(u, v, f)
  PROVE  (\A x \in Pages : Backed(x) => Backed(x)') /\ Backed(v)'
<1>1. \A x \in Pages : Present(x) => Present(x)'
  BY MapTables
<1>2. CASE /\ pte' = [pte EXCEPT ![v] = f] /\ unmapped' = unmapped \ {v}
           /\ Present(v)'
  <2>1. pte'[v] = f /\ \A x \in Pages : x # v => pte'[x] = pte[x]
    BY <1>2 DEF TypeOK
  <2>2. Backed(v)'
    BY <1>2, <2>1 DEF Backed, vmm_virt_to_phys
  <2>3. ASSUME NEW x \in Pages, x # v, Backed(x) PROVE Backed(x)'
    BY <1>1, <1>2, <2>1, <2>3 DEF Backed, vmm_virt_to_phys
  <2> QED
    BY <2>2, <2>3
<1>3. CASE pte' = pte /\ unmapped' = unmapped \cup {v}
  BY <1>1, <1>3 DEF Backed, vmm_virt_to_phys
<1> QED
  BY <1>2, <1>3, MapPage

\* The pages of the loop of kmalloc are pages of the heap.
LEMMA LoopPages ==
  ASSUME TypeOK, Loop, op = "kmalloc"
  PROVE  /\ heap_current_ptr \div PAGE_UNITS \in 0 .. HEAP_PAGES
         /\ end_page \in 1 .. HEAP_PAGES /\ page \in 0 .. HEAP_PAGES
         /\ (heap_current_ptr + size - 1) \div PAGE_UNITS = end_page - 1
<1> DEFINE x == heap_current_ptr + size
<1>1. /\ x \in Nat \ {0} /\ x - 1 \in Nat /\ x - 1 < HEAP_PAGES * PAGE_UNITS
      /\ PAGE_UNITS \in Nat \ {0} /\ HEAP_PAGES \in Nat
      /\ heap_current_ptr \in Nat /\ heap_current_ptr < HEAP_PAGES * PAGE_UNITS
  BY DEF TypeOK, Loop, HeapEnd
<1> HIDE DEF x
<1>2. (x + PAGE_UNITS - 1) \div PAGE_UNITS = (x - 1) \div PAGE_UNITS + 1
  BY <1>1, RoundedUp
<1>3. (x - 1) \div PAGE_UNITS \in 0 .. HEAP_PAGES - 1
  BY <1>1, DivBelow
<1>4. end_page = (x - 1) \div PAGE_UNITS + 1
  BY <1>2 DEF end_page, x
<1>5. heap_current_ptr \div PAGE_UNITS \in 0 .. HEAP_PAGES - 1
  BY <1>1, DivBelow
<1>6. page \in heap_current_ptr \div PAGE_UNITS .. end_page
  BY DEF Loop
<1>7. (heap_current_ptr + size - 1) \div PAGE_UNITS = (x - 1) \div PAGE_UNITS
  <2>1. heap_current_ptr + size - 1 = x - 1
    BY DEF x, TypeOK
  <2> QED
    BY <2>1
<1> HIDE DEF end_page
<1> QED
  BY <1>1, <1>3, <1>4, <1>5, <1>6, <1>7

\* The pages of a block lie in the heap.
LEMMA BlockInHeap ==
  ASSUME TypeOK, Blocks, NEW b \in blocks, b.start + b.size <= heap_current_ptr
  PROVE  BlockPages(b) \subseteq HeapPages
<1>1. /\ b.start \in Nat /\ b.size \in Nat /\ b.size >= 1 /\ b.start + b.size - 1 \in Nat
      /\ b.start + b.size - 1 < HEAP_PAGES * PAGE_UNITS /\ HEAP_PAGES \in Nat
      /\ PAGE_UNITS \in Nat \ {0}
  <2>1. b \in [start : Nat, size : Nat \ {0}]
    BY DEF Blocks
  <2>2. b.start \in Nat /\ b.size \in Nat /\ b.size >= 1
    BY <2>1
  <2>3. /\ HEAP_PAGES \in Nat /\ PAGE_UNITS \in Nat \ {0} /\ heap_current_ptr \in Nat
        /\ heap_current_ptr < HEAP_PAGES * PAGE_UNITS
    BY DEF TypeOK, HeapEnd
  <2> QED
    BY <2>2, <2>3
<1>2. (b.start + b.size - 1) \div PAGE_UNITS \in 0 .. HEAP_PAGES - 1
  BY <1>1, DivBelow
<1>3. b.start \div PAGE_UNITS \in Nat
  BY <1>1, DivBounds
<1>4. \A n \in b.start \div PAGE_UNITS .. (b.start + b.size - 1) \div PAGE_UNITS :
        n \in 0 .. HEAP_PAGES - 1
  BY <1>2, <1>3
<1> QED
  BY <1>4, PagesTypes DEF BlockPages

\* Blocks stay usable as long as no page of the heap is taken away.
LEMMA BlocksKept ==
  ASSUME TypeOK, Blocks, BlocksUsable, blocks' = blocks,
         heap_current_ptr' = heap_current_ptr,
         \A x \in HeapPages : Backed(x) => Backed(x)'
  PROVE  Blocks' /\ BlocksUsable'
<1>1. Blocks'
  BY DEF Blocks
<1>2. \A b \in blocks : \A v \in BlockPages(b) : Backed(v)
  BY DEF BlocksUsable, Backed
<1>3. \A b \in blocks : BlockPages(b) \subseteq HeapPages
  BY BlockInHeap DEF BlocksUsable
<1>4. \A b \in blocks : \A v \in BlockPages(b) : Backed(v)'
  BY <1>2, <1>3
<1>5. \A b \in blocks' : \A v \in BlockPages(b)' :
        (vmm_virt_to_phys(v) # 0 \/ v \in unmapped)'
  BY <1>4 DEF Backed, BlockPages
<1> QED
  BY <1>1, <1>5 DEF BlocksUsable

LEMMA SeqElement ==
  ASSUME NEW S, NEW q \in Seq(S), NEW i \in 1 .. Len(q)
  PROVE  i \in DOMAIN q /\ q[i] \in S
OBVIOUS

\* The call of vmm_map_page in the loop of kmalloc.
LEMMA KmallocMaps ==
  ASSUME IInv, kmalloc_page, vmm_virt_to_phys(HeapPage(page)) = 0,
         NEW f, f = pmm_alloc_page(used), f # 0
  PROVE  /\ HeapPage(page) \in Pages /\ HeapPage(page) \in HeapPages
         /\ f \in Frames \ used /\ used \cup {f} \in SUBSET Frames
         /\ vmm_map_page(used \cup {f}, HeapPage(page), f)
         /\ page' = page + 1 /\ op' = op
<1>1. page \in 0 .. HEAP_PAGES - 1
  <2>1. TypeOK /\ Loop /\ op = "kmalloc" /\ page < end_page
    BY DEF IInv, kmalloc_page
  <2>2. end_page \in 1 .. HEAP_PAGES /\ page \in 0 .. HEAP_PAGES
    BY <2>1, LoopPages
  <2> QED
    BY <2>1, <2>2
<1>2. used \in SUBSET Frames /\ 0 \in used
  BY DEF IInv, TypeOK, Apart, Base
<1>3. f \in Frames \ used
  BY <1>2, Alloc
<1>4. vmm_map_page(used \cup {f}, HeapPage(page), f) /\ page' = page + 1 /\ op' = op
  BY DEF kmalloc_page
<1> QED
  BY <1>1, <1>2, <1>3, <1>4, PagesTypes

\* The call in vmtest, of a page that can be reached.
LEMMA VmtestMaps ==
  ASSUME IInv, vmtest_map
  PROVE  /\ HeapPage(VMTEST_PAGE) \in Pages /\ held[1] \in Frames /\ held[1] # 0
         /\ 1 \in DOMAIN held /\ Len(held) = 1 /\ held \in Seq(Frames)
         /\ Present(HeapPage(VMTEST_PAGE))
         /\ vmm_map_page(used, HeapPage(VMTEST_PAGE), held[1])
<1>1. VMTEST_PAGE \in 0 .. HEAP_PAGES - 1
  OBVIOUS
<1>2. Len(held) = 1 /\ held \in Seq(Frames) /\ Present(HeapPage(VMTEST_PAGE))
  BY DEF IInv, TypeOK, Locals, vmtest_map
<1>3. 1 \in DOMAIN held /\ held[1] \in Frames
  BY <1>2, 1 \in 1 .. Len(held), SeqElement
<1>4. held[1] # 0
  BY <1>3 DEF IInv, Apart, Base
<1> QED
  BY <1>1, <1>2, <1>3, <1>4, PagesTypes DEF vmtest_map

\* The call in memtest, of a frame that is not mapped yet.
LEMMA MemtestMaps ==
  ASSUME IInv, memtest_map, page < TEST_PAGES
  PROVE  /\ WindowPage(page) \in Pages /\ page \in 0 .. TEST_PAGES - 1
         /\ page + 1 \in DOMAIN held /\ held[page + 1] \in Frames /\ held[page + 1] # 0
         /\ Len(held) = TEST_PAGES /\ held \in Seq(Frames)
         /\ vmm_map_page(used, WindowPage(page), held[page + 1])
<1>1. Len(held) = TEST_PAGES /\ held \in Seq(Frames) /\ page \in 0 .. TEST_PAGES - 1
  BY DEF IInv, TypeOK, Locals, memtest_map
<1>2. page + 1 \in DOMAIN held /\ held[page + 1] \in Frames
  BY <1>1
<1>3. held[page + 1] # 0
  BY <1>2 DEF IInv, Apart, Base
<1> QED
  BY <1>1, <1>2, <1>3, PagesTypes DEF memtest_map

\* No step takes a page of the heap away without a record of it.
LEMMA HeapKept ==
  ASSUME IInv, [Next]_vars
  PROVE  \A x \in HeapPages : Backed(x) => Backed(x)'
<1>0. TypeOK /\ CountMatches /\ Apart /\ used \in SUBSET Frames /\ HeapPages \subseteq Pages
  BY DEF IInv, TypeOK, Pages
<1>1. CASE table' = table /\ pte' = pte /\ unmapped' = unmapped
  BY <1>1 DEF Backed, vmm_virt_to_phys, Present
<1>2. CASE kmalloc_page
  <2> DEFINE f == pmm_alloc_page(used)
  <2>1. CASE vmm_virt_to_phys(HeapPage(page)) = 0 /\ f # 0
    <3> HIDE DEF f
    <3>1. /\ HeapPage(page) \in Pages /\ f \in Frames /\ used \cup {f} \in SUBSET Frames
          /\ vmm_map_page(used \cup {f}, HeapPage(page), f)
      BY <1>2, <2>1, KmallocMaps DEF f
    <3> QED
      BY <1>0, <2>1, <3>1, MapBacked
  <2>2. CASE ~(vmm_virt_to_phys(HeapPage(page)) = 0 /\ f # 0)
    BY <1>1, <1>2, <2>2 DEF kmalloc_page, vmm_vars
  <2> QED
    BY <2>1, <2>2
<1>3. CASE vmtest_map
  BY <1>0, <1>3, VmtestMaps, MapBacked
<1>4. CASE memtest_map
  <2>1. CASE page < TEST_PAGES
    BY <1>0, <1>4, <2>1, MemtestMaps, MapBacked
  <2>2. CASE ~(page < TEST_PAGES)
    BY <1>1, <1>4, <2>2 DEF memtest_map, vmm_vars
  <2> QED
    BY <2>1, <2>2
<1>5. CASE vmtest_unmap
  <2>1. \A x \in HeapPages : x # HeapPage(VMTEST_PAGE) => pte'[x] = pte[x]
    BY <1>0, <1>5 DEF vmtest_unmap, vmm_unmap_page, TypeOK
  <2>2. table' = table /\ unmapped' = unmapped \cup {HeapPage(VMTEST_PAGE)}
    BY <1>5 DEF vmtest_unmap
  <2> QED
    BY <2>1, <2>2 DEF Backed, vmm_virt_to_phys, Present
<1>6. CASE memtest_unmap
  <2>1. \A x \in HeapPages : x # WindowPage(page)
    BY DEF HeapPages, HeapPage, WindowPage
  <2>2. \A x \in HeapPages : pte'[x] = pte[x]
    BY <1>0, <1>6, <2>1 DEF memtest_unmap, vmm_unmap_page, TypeOK
  <2>3. table' = table /\ unmapped' = unmapped
    BY <1>6 DEF memtest_unmap
  <2> QED
    BY <2>2, <2>3 DEF Backed, vmm_virt_to_phys, Present
<1>7. CASE \/ \E n \in 0 .. MaxSize : kmalloc(n)
           \/ kmalloc_return \/ vmtest \/ memtest \/ memtest_alloc \/ memtest_free
           \/ usertest \/ usertest_stack \/ usertest_code \/ usertest_damage \/ usertest_map
           \/ syscall \/ UNCHANGED vars
  BY <1>1, <1>7 DEF kmalloc, kmalloc_return, vmtest, memtest, memtest_alloc, memtest_free,
       usertest, usertest_stack, usertest_code, usertest_damage, usertest_map, syscall,
       vars, vmm_vars
<1> QED
  BY <1>2, <1>3, <1>4, <1>5, <1>6, <1>7 DEF Next

\* The blocks and the loop of kmalloc after a step.
LEMMA HeapStep ==
  ASSUME IInv, [Next]_vars
  PROVE  Blocks' /\ Loop' /\ BlocksUsable'
<1>0. TypeOK /\ Blocks /\ Loop /\ BlocksUsable /\ CountMatches /\ Apart
      /\ heap_current_ptr \in Nat /\ size \in Nat /\ PAGE_UNITS \in Nat \ {0}
  BY DEF IInv, TypeOK
<1>1. \A x \in HeapPages : Backed(x) => Backed(x)'
  BY HeapKept
<1>2. ASSUME blocks' = blocks, heap_current_ptr' = heap_current_ptr
      PROVE  Blocks' /\ BlocksUsable'
  BY <1>0, <1>1, <1>2, BlocksKept
<1>3. ASSUME NEW n \in 0 .. MaxSize, kmalloc(n) PROVE Blocks' /\ Loop' /\ BlocksUsable'
  <2>1. blocks' = blocks /\ heap_current_ptr' = heap_current_ptr
    BY <1>3 DEF kmalloc
  <2>2. ASSUME op' = op PROVE Loop'
    BY <1>3, <2>2 DEF Loop, kmalloc
  <2>3. ASSUME n # 0, heap_current_ptr + n < HeapEnd, size' = n,
               page' = heap_current_ptr \div PAGE_UNITS
        PROVE  Loop'
    <3> DEFINE a == heap_current_ptr \div PAGE_UNITS
               e == (heap_current_ptr + n + PAGE_UNITS - 1) \div PAGE_UNITS
    <3>1. end_page' = e /\ page' = a
      BY <2>1, <2>3 DEF end_page
    <3>2. a \in Nat /\ e \in Nat /\ a <= e
      <4>1. heap_current_ptr + n + PAGE_UNITS - 1 \in Nat
            /\ heap_current_ptr <= heap_current_ptr + n + PAGE_UNITS - 1
        BY <1>0
      <4> QED
        BY <1>0, <4>1, DivBounds, DivMonotone
    <3> HIDE DEF a, e
    <3>3. page' \in a .. end_page' /\ a .. page' - 1 = {}
      BY <3>1, <3>2
    <3>4. size' >= 1 /\ heap_current_ptr' + size' < HeapEnd
      BY <1>0, <2>1, <2>3
    <3> QED
      BY <2>1, <3>3, <3>4 DEF Loop, a, HeapEnd
  <2> QED
    BY <1>2, <1>3, <2>1, <2>2, <2>3 DEF kmalloc
<1>4. CASE kmalloc_page
  <2>1. blocks' = blocks /\ heap_current_ptr' = heap_current_ptr /\ size' = size
        /\ end_page' = end_page /\ op = "kmalloc" /\ page < end_page
    BY <1>4 DEF kmalloc_page, end_page
  <2> DEFINE a == heap_current_ptr \div PAGE_UNITS
  <2>2. a \in 0 .. HEAP_PAGES /\ end_page \in 1 .. HEAP_PAGES /\ page \in a .. end_page
        /\ \A n \in a .. page - 1 : Backed(HeapPage(n))
    BY <1>0, <2>1, LoopPages DEF Loop
  <2> HIDE DEF a
  <2>3. PICK k \in 0 .. HEAP_PAGES - 1 : k = page
    BY <2>1, <2>2
  <2>4. HeapPage(k) \in HeapPages /\ \A n \in a .. k - 1 : HeapPage(n) \in HeapPages
    BY <2>2, <2>3, PagesTypes
  <2>5. ASSUME op' # "kmalloc" PROVE Loop'
    BY <2>5 DEF Loop
  <2>6. ASSUME op' = "kmalloc" PROVE Loop'
    <3>1. page' = k + 1 /\ Backed(HeapPage(k))'
      <4>1. CASE vmm_virt_to_phys(HeapPage(page)) # 0
        <5>1. Backed(HeapPage(k))
          BY <2>3, <4>1 DEF Backed
        <5> QED
          BY <1>1, <1>4, <2>3, <2>4, <4>1, <5>1 DEF kmalloc_page
      <4>2. CASE vmm_virt_to_phys(HeapPage(page)) = 0
        <5>1. PICK f : f = pmm_alloc_page(used)
          OBVIOUS
        <5>2. f # 0
          BY <1>4, <2>6, <4>2, <5>1 DEF kmalloc_page
        <5>3. /\ HeapPage(k) \in Pages /\ f \in Frames /\ used \cup {f} \in SUBSET Frames
              /\ vmm_map_page(used \cup {f}, HeapPage(k), f) /\ page' = k + 1
          BY <1>4, <2>3, <4>2, <5>1, <5>2, KmallocMaps
        <5>4. used \subseteq used \cup {f}
          OBVIOUS
        <5>5. Backed(HeapPage(k))'
          BY <1>0, <5>2, <5>3, <5>4, MapBacked
        <5> QED
          BY <5>3, <5>5
      <4> QED
        BY <4>1, <4>2
    <3>2. ASSUME NEW n \in a .. page' - 1 PROVE Backed(HeapPage(n))'
      <4>1. n \in a .. k - 1 \/ n = k
        BY <2>2, <3>1
      <4> QED
        BY <1>1, <2>2, <2>3, <2>4, <3>1, <4>1
    <3>3. page' \in a .. end_page'
      BY <2>1, <2>2, <2>3, <3>1
    <3>4. a = heap_current_ptr' \div PAGE_UNITS
      BY <2>1 DEF a
    <3>5. size' >= 1 /\ heap_current_ptr' + size' < HeapEnd
      BY <1>0, <2>1 DEF Loop
    <3> HIDE DEF end_page
    <3> QED
      BY <3>2, <3>3, <3>4, <3>5 DEF Loop, HeapEnd
  <2> QED
    BY <1>2, <2>1, <2>5, <2>6
<1>5. CASE kmalloc_return
  <2> DEFINE h == heap_current_ptr
             b == [start |-> heap_current_ptr, size |-> size]
             a == h \div PAGE_UNITS
             e == (h + size - 1) \div PAGE_UNITS
  <2>1. blocks' = blocks \cup {b} /\ heap_current_ptr' = h + size /\ op' = "none"
        /\ op = "kmalloc" /\ page >= end_page /\ table' = table /\ pte' = pte
        /\ unmapped' = unmapped
    BY <1>5 DEF kmalloc_return, vmm_vars
  <2>2. size >= 1 /\ \A n \in a .. page - 1 : Backed(HeapPage(n))
    BY <1>0, <2>1 DEF Loop
  <2>3. a \in Nat /\ e = end_page - 1 /\ end_page \in 1 .. HEAP_PAGES
        /\ page \in 0 .. HEAP_PAGES
    BY <1>0, <2>1, LoopPages
  <2>4. b.start = h /\ b.size = size /\ b \in [start : Nat, size : Nat \ {0}]
    BY <1>0, <2>2
  <2> HIDE DEF b, h, a, e
  <2>5. Blocks'
    BY <1>0, <2>1, <2>4 DEF Blocks
  <2>6. \A n \in a .. e : Backed(HeapPage(n))
    BY <2>1, <2>2, <2>3
  <2>7. \A v \in BlockPages(b) : Backed(v)
    BY <2>4, <2>6 DEF BlockPages, a, e
  <2>8. \A c \in blocks : \A v \in BlockPages(c) : Backed(v)
    BY <1>0 DEF BlocksUsable, Backed
  <2>9. \A c \in blocks' : \A v \in BlockPages(c)' : (vmm_virt_to_phys(v) # 0 \/ v \in unmapped)'
    BY <2>1, <2>7, <2>8 DEF Backed, vmm_virt_to_phys, Present, BlockPages
  <2>10. \A c \in blocks : c.start \in Nat /\ c.size \in Nat /\ c.start + c.size <= h
    BY <1>0 DEF Blocks, BlocksUsable, h
  <2>11. \A c \in blocks' : c.start + c.size <= heap_current_ptr'
    <3> SUFFICES ASSUME NEW c \in blocks' PROVE c.start + c.size <= heap_current_ptr'
      OBVIOUS
    <3>1. h \in Nat
      BY <1>0 DEF h
    <3>2. CASE c = b
      BY <1>0, <2>1, <2>4, <3>1, <3>2
    <3>3. CASE c \in blocks
      BY <1>0, <2>1, <2>10, <3>1, <3>3
    <3> QED
      BY <2>1, <3>2, <3>3
  <2>12. \A c, d \in blocks' : c # d => \/ c.start + c.size <= d.start
                                        \/ d.start + d.size <= c.start
    <3> SUFFICES ASSUME NEW c \in blocks', NEW d \in blocks', c # d
                 PROVE  c.start + c.size <= d.start \/ d.start + d.size <= c.start
      OBVIOUS
    <3>1. CASE c \in blocks /\ d \in blocks
      BY <1>0, <3>1 DEF BlocksUsable
    <3>2. CASE c = b /\ d \in blocks
      BY <2>4, <2>10, <3>2
    <3>3. CASE c \in blocks /\ d = b
      BY <2>4, <2>10, <3>3
    <3> QED
      BY <2>1, <3>1, <3>2, <3>3
  <2>13. Loop'
    BY <2>1 DEF Loop
  <2> QED
    BY <2>5, <2>9, <2>11, <2>12, <2>13 DEF BlocksUsable
<1>6. CASE \/ vmtest \/ vmtest_map \/ vmtest_unmap \/ memtest \/ memtest_alloc \/ memtest_map
           \/ memtest_unmap \/ memtest_free \/ usertest \/ usertest_stack \/ usertest_code
           \/ usertest_damage \/ usertest_map \/ syscall
  <2>1. blocks' = blocks /\ heap_current_ptr' = heap_current_ptr
    BY <1>6 DEF vmtest, vmtest_map, vmtest_unmap, memtest, memtest_alloc, memtest_map,
         memtest_unmap, memtest_free, usertest, usertest_stack, usertest_code,
         usertest_damage, usertest_map, syscall, vars
  <2>2. op' # "kmalloc"
    BY <1>6 DEF vmtest, vmtest_map, vmtest_unmap, memtest, memtest_alloc, memtest_map,
         memtest_unmap, memtest_free, usertest, usertest_stack, usertest_code,
         usertest_damage, usertest_map, syscall, vars, AllocOr
  <2> QED
    BY <1>2, <2>1, <2>2 DEF Loop
<1>7. CASE UNCHANGED vars
  <2>1. /\ blocks' = blocks /\ heap_current_ptr' = heap_current_ptr /\ op' = op
        /\ size' = size /\ page' = page /\ table' = table /\ pte' = pte
        /\ unmapped' = unmapped
    BY <1>7 DEF vars, local_vars, vmm_vars
  <2> QED
    BY <1>0, <1>2, <2>1 DEF Loop, end_page, Backed, vmm_virt_to_phys, Present
<1> QED
  BY <1>3, <1>4, <1>5, <1>6, <1>7 DEF Next

-----------------------------------------------------------------------------
(* The frames. *)

FramesInv == TypeOK /\ CountMatches /\ Apart /\ Reached /\ Locals /\ Accounted

\* Steps that neither allocate nor map keep the purposes of the frames, provided
\* the page variable still says which of the held ones are mapped.
LEMMA Quiet ==
  ASSUME IInv,
         UNCHANGED <<used, used_pages, table, pte, held, displaced, error>>,
         \A i \in DOMAIN held : /\ Lent(i)' <=> Lent(i)
                                /\ Lent(i) => Target(i)' = Target(i),
         \A n \in 0 .. TEST_PAGES - 1 : InWindow(n) => InWindow(n)'
  PROVE  CountMatches' /\ Apart' /\ Reached' /\ Accounted'
<1>1. CountMatches' /\ Reached'
  BY DEF IInv, CountMatches, Reached, Present
<1>2. Apart'
  <2>1. \A i \in DOMAIN held : IF Lent(i)' THEN pte[Target(i)'] = held[i]
                               ELSE \A v \in Pages : pte[v] # held[i]
    BY DEF IInv, Apart
  <2> QED
    BY <2>1 DEF IInv, Apart
<1>3. Accounted'
  BY DEF IInv, Accounted
<1> QED
  BY <1>1, <1>2, <1>3

\* With nothing held, or nothing mapped of it, the page variable does not matter.
LEMMA QuietIdle ==
  ASSUME IInv,
         UNCHANGED <<used, used_pages, table, pte, held, displaced, error>>,
         held = <<>> \/ op \notin {"vmtest_unmap", "memtest_map", "memtest_unmap"},
         op \notin {"memtest_map", "memtest_unmap"},
         held = <<>> \/ op' \notin {"vmtest_unmap", "memtest_map", "memtest_unmap"}
  PROVE  CountMatches' /\ Apart' /\ Reached' /\ Accounted'
<1>1. \A i \in DOMAIN held : ~Lent(i) /\ ~Lent(i)'
  BY DEF Lent
<1>2. \A n \in 0 .. TEST_PAGES - 1 : ~InWindow(n)
  BY DEF InWindow
<1> QED
  BY <1>1, <1>2, Quiet

LEMMA KmallocFrames ==
  ASSUME IInv, NEW n \in 0 .. MaxSize, kmalloc(n)
  PROVE  FramesInv'
<1>1. /\ UNCHANGED <<used, used_pages, table, pte, held, displaced, error>>
      /\ UNCHANGED <<low, low_word, heap_current_ptr, unmapped>>
      /\ op = "none" /\ op' \in {"none", "kmalloc"}
  BY DEF kmalloc, pmm_vars, vmm_vars, low_vars
<1>2. held = <<>>
  BY <1>1 DEF IInv, Locals
<1>3. CountMatches' /\ Apart' /\ Reached' /\ Accounted'
  BY <1>1, <1>2, QuietIdle
<1>4. Locals'
  BY <1>1, <1>2 DEF Locals
<1>5. TypeOK'
  <2>1. size' \in 0 .. MaxSize /\ (page' \in 0 .. HEAP_PAGES \/ page' \in 0 .. TEST_PAGES)
    <3>1. CASE UNCHANGED <<size, page>>
      BY <3>1 DEF IInv, TypeOK
    <3>2. CASE size' = n /\ page' = heap_current_ptr \div PAGE_UNITS
      <4>1. /\ heap_current_ptr \in Nat /\ heap_current_ptr < HEAP_PAGES * PAGE_UNITS
            /\ PAGE_UNITS \in Nat \ {0} /\ HEAP_PAGES \in Nat
        BY DEF IInv, TypeOK, HeapEnd
      <4>2. heap_current_ptr \div PAGE_UNITS \in 0 .. HEAP_PAGES - 1
        BY <4>1, DivBelow
      <4> QED
        BY <3>2, <4>1, <4>2
    <3> QED
      BY <3>1, <3>2 DEF kmalloc
  <2> QED
    BY <1>1, <2>1 DEF IInv, TypeOK
<1> QED
  BY <1>3, <1>4, <1>5 DEF FramesInv

LEMMA KmallocReturnFrames ==
  ASSUME IInv, kmalloc_return
  PROVE  FramesInv'
<1>1. /\ UNCHANGED <<used, used_pages, table, pte, held, displaced, error>>
      /\ UNCHANGED <<low, low_word, size, page, unmapped>>
      /\ op = "kmalloc" /\ op' = "none" /\ heap_current_ptr' = heap_current_ptr + size
  BY DEF kmalloc_return, pmm_vars, vmm_vars, low_vars, local_vars
<1>2. held = <<>>
  BY <1>1 DEF IInv, Locals
<1>3. CountMatches' /\ Apart' /\ Reached' /\ Accounted'
  BY <1>1, <1>2, QuietIdle
<1>4. Locals'
  BY <1>1, <1>2 DEF Locals
<1>5. heap_current_ptr' \in 0 .. HeapEnd - 1
  <2>1. /\ heap_current_ptr \in Nat /\ size \in Nat /\ heap_current_ptr + size < HeapEnd
        /\ HeapEnd \in Nat
    BY <1>1 DEF IInv, TypeOK, Loop, HeapEnd
  <2> HIDE DEF HeapEnd
  <2> QED
    BY <1>1, <2>1
<1>6. TypeOK'
  BY <1>1, <1>5 DEF IInv, TypeOK, HeapEnd
<1> QED
  BY <1>3, <1>4, <1>6 DEF FramesInv

LEMMA MemtestFrames ==
  ASSUME IInv, memtest
  PROVE  FramesInv'
<1>1. /\ UNCHANGED <<used, used_pages, table, pte, held, displaced, error>>
      /\ UNCHANGED <<low, low_word, heap_current_ptr, size, page, unmapped>>
      /\ op = "none" /\ op' = "memtest_alloc"
  BY DEF memtest, pmm_vars, vmm_vars, low_vars, local_vars
<1>2. held = <<>>
  BY <1>1 DEF IInv, Locals
<1>3. CountMatches' /\ Apart' /\ Reached' /\ Accounted'
  BY <1>1, <1>2, QuietIdle
<1>4. Locals'
  BY <1>1, <1>2 DEF Locals
<1>5. TypeOK'
  BY <1>1 DEF IInv, TypeOK
<1> QED
  BY <1>3, <1>4, <1>5 DEF FramesInv

LEMMA UserFrames ==
  ASSUME IInv, usertest_code \/ usertest_damage \/ usertest_map \/ syscall
  PROVE  FramesInv'
<1>1. /\ UNCHANGED <<used, used_pages, table, pte, held, displaced, error>>
      /\ UNCHANGED <<heap_current_ptr, size, page, unmapped>>
      /\ op \in {"usertest_code", "usertest_map", "user", "damaged"}
      /\ op' \in {"usertest_map", "user", "damaged"}
      /\ op' = "usertest_map" => op = "usertest_code"
  BY DEF usertest_code, usertest_damage, usertest_map, syscall, vars, pmm_vars, vmm_vars,
         low_vars, local_vars
<1>2. CountMatches' /\ Apart' /\ Reached' /\ Accounted'
  BY <1>1, QuietIdle
<1>3. Locals'
  BY <1>1 DEF IInv, Locals
<1>4. low' \in [LowPages -> [frame : Frames, huge : BOOLEAN, user : BOOLEAN]]
      /\ low_word' \in [LowPages -> Frames]
  <2>0. low \in [LowPages -> [frame : Frames, huge : BOOLEAN, user : BOOLEAN]]
        /\ low_word \in [LowPages -> Frames] /\ held \in Seq(Frames) /\ 0 \in Frames
    BY DEF IInv, TypeOK
  <2>1. ASSUME NEW v \in LowPages, low' = [low EXCEPT ![v].user = TRUE]
        PROVE  low' \in [LowPages -> [frame : Frames, huge : BOOLEAN, user : BOOLEAN]]
    BY <2>0, <2>1
  <2>2. CASE usertest_code
    <3>1. held[1] \in Frames
      <4>1. Len(held) = 2
        BY <2>2 DEF usertest_code, IInv, Locals
      <4> QED
        BY <2>0, <4>1, 1 \in 1 .. Len(held), SeqElement
    <3>2. low_word' \in [LowPages -> Frames]
      BY <2>0, <2>2, <3>1 DEF usertest_code, vmm_map_low
    <3> QED
      BY <2>1, <2>2, <3>2 DEF usertest_code, vmm_map_low, LowPages
  <2>3. CASE usertest_map
    <3>1. held[2] \in Frames
      <4>1. Len(held) = 2
        BY <2>3 DEF usertest_map, IInv, Locals
      <4> QED
        BY <2>0, <4>1, 2 \in 1 .. Len(held), SeqElement
    <3>2. low_word' \in [LowPages -> Frames]
      BY <2>0, <2>3, <3>1 DEF usertest_map
    <3> QED
      BY <2>1, <2>3, <3>2 DEF usertest_map, LowPages
  <2>4. CASE usertest_damage \/ syscall
    BY <2>0, <2>4 DEF usertest_damage, syscall, vars, vmm_vars, low_vars
  <2> QED
    BY <2>2, <2>3, <2>4
<1>5. TypeOK'
  BY <1>1, <1>4 DEF IInv, TypeOK
<1> QED
  BY <1>2, <1>3, <1>5 DEF FramesInv

\* An allocation takes a frame that had no purpose, or fails with a message.
LEMMA AllocFrames ==
  ASSUME IInv, NEW next, AllocOr(next, TRUE), UNCHANGED <<table, pte, displaced>>,
         op \notin {"vmtest_unmap", "memtest_map", "memtest_unmap"},
         next \notin {"vmtest_unmap", "memtest_map", "memtest_unmap"}
  PROVE  /\ used' \in SUBSET Frames /\ held' \in Seq(Frames) /\ error' \in BOOLEAN
         /\ CountMatches' /\ Apart' /\ Reached' /\ Accounted'
         /\ \/ op' = "none" /\ held' = <<>>
            \/ op' = next /\ Len(held') = Len(held) + 1
<1>0. used \in SUBSET Frames /\ 0 \in used /\ held \in Seq(Frames) /\ CountMatches
  BY DEF IInv, TypeOK, Apart, Base
<1>1. Reached'
  BY DEF IInv, Reached, Present
<1>2. PICK f : f = pmm_alloc_page(used)
  OBVIOUS
<1>3. f = 0 \/ (f \in Frames \ used /\ f # 0)
  BY <1>0, <1>2, Alloc
<1>4. CASE f = 0
  <2>1. op' = "none" /\ held' = <<>> /\ used' = used /\ used_pages' = used_pages
    BY <1>2, <1>4 DEF AllocOr, pmm_vars
  <2>2. error' = TRUE
    <3>1. error' = (error \/ TRUE)
      BY <1>2, <1>4 DEF AllocOr
    <3> QED
      BY <3>1, Zenon
  <2>3. Apart'
    BY <2>1 DEF IInv, Apart
  <2>4. Accounted'
    BY <2>2 DEF Accounted
  <2>5. CountMatches'
    BY <1>0, <2>1 DEF CountMatches
  <2>6. error' \in BOOLEAN
    BY <2>2, Zenon
  <2>7. held' \in Seq(Frames)
    BY <2>1
  <2> QED
    BY <1>0, <1>1, <2>1, <2>3, <2>4, <2>5, <2>6, <2>7
<1>5. CASE f \in Frames \ used /\ f # 0
  <2>1. op' = next /\ held' = Append(held, f) /\ used' = used \cup {f}
        /\ used_pages' = used_pages + 1 /\ error' = error
    BY <1>2, <1>5 DEF AllocOr
  <2>2. /\ held' \in Seq(Frames) /\ Len(held') = Len(held) + 1 /\ Len(held) \in Nat
        /\ DOMAIN held' = 1 .. Len(held) + 1 /\ DOMAIN held = 1 .. Len(held)
        /\ held'[Len(held) + 1] = f
        /\ \A i \in 1 .. Len(held) : held'[i] = held[i]
    BY <1>0, <1>5, <2>1
  <2>3. CountMatches'
    <3>1. IsFiniteSet(used) /\ Cardinality(used) \in Nat
      BY <1>0, FrameSets
    <3>2. Cardinality(used \cup {f}) = Cardinality(used) + 1
      BY <1>5, <3>1, FS_AddElement
    <3> QED
      BY <1>0, <2>1, <3>1, <3>2 DEF CountMatches
  <2>4. \A i : ~Lent(i) /\ ~Lent(i)'
    BY <2>1 DEF Lent
  <2>5. f \notin Base /\ f \notin displaced
        /\ (\A t \in Tables : table[t] # f) /\ (\A v \in Pages : pte[v] # f)
        /\ \A i \in 1 .. Len(held) : held[i] # f
    BY <1>5, <2>2 DEF IInv, Apart
  <2>6. Apart'
    <3>1. Base \subseteq used' /\ displaced' \subseteq used' \ Base
      BY <2>1 DEF IInv, Apart
    <3>2. /\ \A t \in Tables : table'[t] # 0 => table'[t] \in (used' \ Base) \ displaced'
          /\ \A v \in Pages : pte'[v] # 0 => pte'[v] \in (used' \ Base) \ displaced'
      BY <2>1 DEF IInv, Apart
    <3>3. \A i \in DOMAIN held' : held'[i] \in (used' \ Base) \ displaced'
      BY <2>1, <2>2, <2>5 DEF IInv, Apart
    <3>4. \A i, j \in DOMAIN held' : held'[i] = held'[j] => i = j
      BY <2>2, <2>5 DEF IInv, Apart
    <3>5. \A t \in Tables, i \in DOMAIN held' : table'[t] # held'[i]
      BY <2>2, <2>5 DEF IInv, Apart
    <3>6. \A i \in DOMAIN held' : \A v \in Pages : pte'[v] # held'[i]
      BY <2>2, <2>4, <2>5 DEF IInv, Apart
    <3>7. /\ \A s, t \in Tables : table'[s] # 0 /\ table'[s] = table'[t] => s = t
          /\ \A v, w \in Pages : pte'[v] # 0 /\ pte'[v] = pte'[w] => v = w
          /\ \A t \in Tables, v \in Pages : table'[t] # 0 => table'[t] # pte'[v]
      BY DEF IInv, Apart
    <3> QED
      BY <2>4, <3>1, <3>2, <3>3, <3>4, <3>5, <3>6, <3>7 DEF Apart, Base
  <2>7. Accounted'
    <3> SUFFICES ASSUME ~error
                 PROVE  /\ \A g \in used' : \/ g \in Base \cup displaced
                                            \/ \E t \in Tables : table[t] = g
                                            \/ \E v \in Pages : pte[v] = g
                                            \/ \E i \in DOMAIN held' : held'[i] = g
                        /\ \A n \in 0 .. TEST_PAGES - 1 : pte[WindowPage(n)] = 0
      BY <2>1 DEF Accounted, Base
    <3>1. \A n \in 0 .. TEST_PAGES - 1 : ~InWindow(n)
      BY DEF InWindow
    <3>2. ASSUME NEW g \in used
          PROVE  \/ g \in Base \cup displaced
                 \/ \E t \in Tables : table[t] = g
                 \/ \E v \in Pages : pte[v] = g
                 \/ \E i \in DOMAIN held' : held'[i] = g
      BY <2>2 DEF IInv, Accounted
    <3>3. \E i \in DOMAIN held' : held'[i] = f
      BY <2>2
    <3> QED
      BY <2>1, <3>1, <3>2, <3>3 DEF IInv, Accounted
  <2>8. used' \in SUBSET Frames
    BY <1>0, <1>5, <2>1
  <2>9. error' \in BOOLEAN
    BY <2>1 DEF IInv, TypeOK
  <2> QED
    BY <1>1, <2>1, <2>2, <2>3, <2>6, <2>7, <2>8, <2>9
<1> QED
  BY <1>3, <1>4, <1>5

\* The counter of frames stays in its range.
LEMMA CountRange ==
  ASSUME CountMatches', used' \in SUBSET Frames
  PROVE  used_pages' \in 0 .. TotalPages
BY FrameSets DEF CountMatches

LEMMA CommandFrames ==
  ASSUME IInv, vmtest \/ usertest \/ usertest_stack
  PROVE  FramesInv'
<1>1. PICK next : /\ AllocOr(next, TRUE)
                  /\ \/ vmtest /\ op = "none" /\ next = "vmtest_map"
                     \/ usertest /\ op = "none" /\ next = "usertest_stack"
                     \/ usertest_stack /\ op = "usertest_stack" /\ next = "usertest_code"
  BY DEF vmtest, usertest, usertest_stack
<1>2. UNCHANGED <<table, pte, low, low_word, heap_current_ptr, size, page, unmapped, displaced>>
  BY DEF vmtest, usertest, usertest_stack, vmm_vars, low_vars
<1>3. /\ used' \in SUBSET Frames /\ held' \in Seq(Frames) /\ error' \in BOOLEAN
      /\ CountMatches' /\ Apart' /\ Reached' /\ Accounted'
      /\ \/ op' = "none" /\ held' = <<>>
         \/ op' = next /\ Len(held') = Len(held) + 1
  BY <1>1, <1>2, AllocFrames
<1>4. used_pages' \in 0 .. TotalPages
  BY <1>3, CountRange
<1>5. TypeOK'
  BY <1>1, <1>2, <1>3, <1>4 DEF IInv, TypeOK
<1>6. Locals'
  <2>1. CASE op' = "none" /\ held' = <<>>
    BY <2>1 DEF Locals
  <2>2. CASE op' = next /\ Len(held') = Len(held) + 1
    <3>1. ASSUME vmtest PROVE Present(HeapPage(VMTEST_PAGE))'
      <4>1. Present(HeapPage(0))
        BY <3>1 DEF vmtest, shell_runs, vmm_virt_to_phys
      <4>2. /\ VMTEST_PAGE \in Nat /\ PT_SPAN \in Nat \ {0}
            /\ PT_SPAN * 0 <= VMTEST_PAGE /\ VMTEST_PAGE < PT_SPAN * 0 + PT_SPAN
            /\ PT_SPAN * 0 <= 0 /\ 0 < PT_SPAN * 0 + PT_SPAN
        OBVIOUS
      <4>3. VMTEST_PAGE \div PT_SPAN = 0
        BY <4>2, DivUnique
      <4>5. 0 \div PT_SPAN = 0
        BY <4>2, DivUnique
      <4>4. /\ Pdpt(HeapPage(VMTEST_PAGE)) = Pdpt(HeapPage(0))
            /\ Pd(HeapPage(VMTEST_PAGE)) = Pd(HeapPage(0))
            /\ Pt(HeapPage(VMTEST_PAGE)) = Pt(HeapPage(0))
        BY <4>3, <4>5 DEF Pdpt, Pd, Pt, HeapPage
      <4> QED
        BY <1>2, <4>1, <4>4 DEF Present
    <3>2. Len(held) = IF op = "none" THEN 0 ELSE 1
      BY <1>1 DEF IInv, Locals
    <3> QED
      BY <1>1, <2>2, <3>1, <3>2 DEF Locals
  <2> QED
    BY <1>3, <2>1, <2>2
<1> QED
  BY <1>3, <1>5, <1>6 DEF FramesInv

LEMMA MemtestAllocFrames ==
  ASSUME IInv, memtest_alloc
  PROVE  FramesInv'
<1>1. /\ op = "memtest_alloc" /\ held \in Seq(Frames) /\ Len(held) <= TEST_PAGES
      /\ Len(held) \in Nat
      /\ UNCHANGED <<table, pte, low, low_word, heap_current_ptr, size, unmapped, displaced>>
  BY DEF IInv, TypeOK, Locals, memtest_alloc, vmm_vars, low_vars
<1>2. CASE Len(held) < TEST_PAGES
  <2>1. AllocOr("memtest_alloc", TRUE) /\ page' = page
    BY <1>2 DEF memtest_alloc
  <2>2. /\ used' \in SUBSET Frames /\ held' \in Seq(Frames) /\ error' \in BOOLEAN
        /\ CountMatches' /\ Apart' /\ Reached' /\ Accounted'
        /\ \/ op' = "none" /\ held' = <<>>
           \/ op' = "memtest_alloc" /\ Len(held') = Len(held) + 1
    BY <1>1, <2>1, AllocFrames
  <2>3. used_pages' \in 0 .. TotalPages
    BY <2>2, CountRange
  <2>4. TypeOK'
    BY <1>1, <2>1, <2>2, <2>3 DEF IInv, TypeOK
  <2>5. Locals'
    BY <1>1, <1>2, <2>2 DEF Locals
  <2> QED
    BY <2>2, <2>4, <2>5 DEF FramesInv
<1>3. CASE ~(Len(held) < TEST_PAGES)
  <2>1. /\ op' = "memtest_map" /\ page' = 0
        /\ UNCHANGED <<used, used_pages, table, pte, held, displaced, error>>
    BY <1>1, <1>3 DEF memtest_alloc, pmm_vars
  <2>2. \A i \in DOMAIN held : ~Lent(i) /\ ~Lent(i)'
    BY <1>1, <2>1 DEF Lent
  <2>3. \A n \in 0 .. TEST_PAGES - 1 : ~InWindow(n)
    BY <1>1 DEF InWindow
  <2>4. CountMatches' /\ Apart' /\ Reached' /\ Accounted'
    BY <2>1, <2>2, <2>3, Quiet
  <2>5. TypeOK'
    BY <1>1, <2>1 DEF IInv, TypeOK
  <2>6. Locals'
    BY <1>1, <1>3, <2>1 DEF Locals
  <2> QED
    BY <2>4, <2>5, <2>6 DEF FramesInv
<1> QED
  BY <1>2, <1>3

\* Mapping a frame that has no place yet, held or fresh, gives every frame at most
\* one place.
LEMMA MapApart ==
  ASSUME IInv, NEW v \in Pages, NEW f \in (Frames \ Base) \ displaced, f # 0,
         \A t \in Tables : table[t] # f, \A x \in Pages : pte[x] # f,
         vmm_map_page(used \cup {f}, v, f), displaced' = displaced
  PROVE  /\ Base \subseteq used' /\ displaced' \subseteq used' \ Base
         /\ \A t \in Tables : table'[t] # 0 => table'[t] \in (used' \ Base) \ displaced'
         /\ \A x \in Pages : pte'[x] # 0 => pte'[x] \in (used' \ Base) \ displaced'
         /\ \A s, t \in Tables : table'[s] # 0 /\ table'[s] = table'[t] => s = t
         /\ \A x, y \in Pages : pte'[x] # 0 /\ pte'[x] = pte'[y] => x = y
         /\ \A t \in Tables, x \in Pages : table'[t] # 0 => table'[t] # pte'[x]
         /\ Reached'
         /\ pte' \in [Pages -> Frames]
<1> DEFINE u == used \cup {f}
<1>0. TypeOK /\ CountMatches /\ Apart /\ Reached /\ u \in SUBSET Frames /\ used \subseteq u
  BY DEF IInv, TypeOK
<1>1. /\ u \subseteq used'
      /\ \A t \in Tables : table'[t] # 0 => table'[t] = table[t] \/ table'[t] \in used' \ u
      /\ \A s, t \in Tables : table'[s] # 0 /\ table'[s] = table'[t] => s = t
      /\ \A x \in Pages : Present(x) => Present(x)'
  BY <1>0, MapTables
<1>2. \/ pte' = [pte EXCEPT ![v] = f] /\ Present(v)'
      \/ pte' = pte
  BY <1>0, MapPage
<1>3. /\ pte' \in [Pages -> Frames]
      /\ \A x \in Pages : pte'[x] = pte[x] \/ (x = v /\ pte'[x] = f /\ Present(v)')
  BY <1>0, <1>2 DEF TypeOK
<1>4. f \in used' /\ f \in u
  BY <1>1
<1>5. Base \subseteq used' /\ displaced' \subseteq used' \ Base
  BY <1>0, <1>1 DEF Apart
<1>6. \A t \in Tables : table'[t] # 0 => table'[t] \in (used' \ Base) \ displaced'
  BY <1>0, <1>1 DEF Apart
<1>7. \A x \in Pages : pte'[x] # 0 => pte'[x] \in (used' \ Base) \ displaced'
  BY <1>0, <1>1, <1>3, <1>4 DEF Apart
<1>8. \A x, y \in Pages : pte'[x] # 0 /\ pte'[x] = pte'[y] => x = y
  BY <1>0, <1>3 DEF Apart
<1>9. \A t \in Tables, x \in Pages : table'[t] # 0 => table'[t] # pte'[x]
  <2> SUFFICES ASSUME NEW t \in Tables, NEW x \in Pages, table'[t] # 0, table'[t] = pte'[x]
               PROVE  FALSE
    OBVIOUS
  <2>1. CASE table'[t] = table[t]
    BY <1>0, <1>3, <2>1 DEF Apart
  <2>2. CASE table'[t] \in used' \ u
    <3>1. pte'[x] # f /\ pte'[x] \notin used
      BY <1>0, <1>4, <2>2
    <3> QED
      BY <1>0, <1>3, <3>1 DEF Apart
  <2> QED
    BY <1>1, <2>1, <2>2
<1>10. Reached'
  <2> SUFFICES ASSUME NEW x \in Pages, pte'[x] # 0 PROVE Present(x)'
    BY DEF Reached
  <2>1. CASE pte'[x] = pte[x]
    BY <1>0, <1>1, <2>1 DEF Reached
  <2>2. CASE x = v /\ Present(v)'
    BY <2>2
  <2> QED
    BY <1>3, <2>1, <2>2
<1> QED
  BY <1>1, <1>3, <1>5, <1>6, <1>7, <1>8, <1>9, <1>10

LEMMA KmallocPageFrames ==
  ASSUME IInv, kmalloc_page
  PROVE  FramesInv'
<1>0. /\ op = "kmalloc" /\ held = <<>> /\ held' = held /\ heap_current_ptr' = heap_current_ptr
      /\ size' = size /\ displaced' = displaced /\ op' \in {"none", "kmalloc"}
      /\ TypeOK /\ CountMatches /\ Apart /\ used \in SUBSET Frames
  BY DEF IInv, TypeOK, Locals, kmalloc_page
<1>1. Locals'
  BY <1>0 DEF Locals
<1>2. page \in 0 .. HEAP_PAGES - 1
  <2>1. Loop /\ page < end_page
    BY DEF IInv, kmalloc_page
  <2>2. end_page \in 1 .. HEAP_PAGES /\ page \in 0 .. HEAP_PAGES
    BY <1>0, <2>1, LoopPages
  <2> QED
    BY <2>1, <2>2
<1>3. CASE ~(vmm_virt_to_phys(HeapPage(page)) = 0 /\ pmm_alloc_page(used) # 0)
  <2>1. /\ UNCHANGED <<used, used_pages, table, pte, held, displaced, error>>
        /\ UNCHANGED <<low, low_word, unmapped>> /\ page' \in {page, page + 1}
    BY <1>0, <1>3 DEF kmalloc_page, pmm_vars, vmm_vars, low_vars
  <2>2. CountMatches' /\ Apart' /\ Reached' /\ Accounted'
    BY <1>0, <2>1, QuietIdle
  <2>3. page' \in 0 .. HEAP_PAGES
    BY <1>2, <2>1
  <2>4. TypeOK'
    BY <1>0, <2>1, <2>3 DEF TypeOK
  <2> QED
    BY <1>1, <2>2, <2>4 DEF FramesInv
<1>4. CASE vmm_virt_to_phys(HeapPage(page)) = 0 /\ pmm_alloc_page(used) # 0
  <2>1. PICK f, v : f = pmm_alloc_page(used) /\ v = HeapPage(page)
    OBVIOUS
  <2>2. /\ v \in Pages /\ v \in HeapPages
        /\ f \in Frames \ used /\ used \cup {f} \in SUBSET Frames
        /\ vmm_map_page(used \cup {f}, v, f) /\ page' = page + 1 /\ f # 0
    BY <1>4, <2>1, KmallocMaps
  <2>3. /\ f \in (Frames \ Base) \ displaced
        /\ \A t \in Tables : table[t] # f
        /\ \A x \in Pages : pte[x] # f
    BY <1>0, <2>2 DEF Apart
  <2>4. /\ Base \subseteq used' /\ displaced' \subseteq used' \ Base
        /\ \A t \in Tables : table'[t] # 0 => table'[t] \in (used' \ Base) \ displaced'
        /\ \A x \in Pages : pte'[x] # 0 => pte'[x] \in (used' \ Base) \ displaced'
        /\ \A s, t \in Tables : table'[s] # 0 /\ table'[s] = table'[t] => s = t
        /\ \A x, y \in Pages : pte'[x] # 0 /\ pte'[x] = pte'[y] => x = y
        /\ \A t \in Tables, x \in Pages : table'[t] # 0 => table'[t] # pte'[x]
        /\ Reached'
        /\ pte' \in [Pages -> Frames]
    BY <1>0, <2>2, <2>3, MapApart
  <2>5. Apart'
    <3>1. DOMAIN held' = {}
      BY <1>0
    <3> QED
      BY <2>4, <3>1 DEF Apart, Base
  <2>6. /\ used' \in SUBSET Frames /\ used \cup {f} \subseteq used'
        /\ used_pages' = Cardinality(used')
        /\ table' \in [Tables -> Frames]
        /\ \A t \in Tables : table[t] # 0 => table'[t] = table[t]
        /\ \A g \in used' \ (used \cup {f}) : \E t \in Tables : table'[t] = g
    <3>1. used \subseteq used \cup {f} /\ f \in Frames
      BY <2>2
    <3> QED
      BY <1>0, <2>2, <3>1, MapTables
  <2>7. CountMatches'
    BY <2>6 DEF CountMatches
  <2>8. /\ low' = low /\ low_word' = low_word
        /\ \/ /\ pte' = [pte EXCEPT ![v] = f] /\ unmapped' = unmapped \ {v} /\ error' = error
           \/ /\ unmapped' = unmapped \cup {v} /\ error' = TRUE
    <3>1. used \subseteq used \cup {f} /\ f \in Frames
      BY <2>2
    <3> QED
      BY <1>0, <2>2, <3>1, MapPage
  <2>9. error' \in BOOLEAN
    <3>1. error' = error \/ error' = TRUE
      BY <2>8
    <3> QED
      BY <1>0, <3>1, Zenon DEF TypeOK
  <2>10. TypeOK'
    <3>1. used_pages' \in 0 .. TotalPages
      BY <2>6, <2>7, CountRange
    <3>2. unmapped' \subseteq Pages
      BY <1>0, <2>2, <2>8 DEF TypeOK
    <3>3. page' \in 0 .. HEAP_PAGES
      BY <1>2, <2>2
    <3> QED
      BY <1>0, <2>4, <2>6, <2>8, <2>9, <3>1, <3>2, <3>3 DEF TypeOK
  <2>11. Accounted'
    <3> SUFFICES ASSUME ~error'
                 PROVE  /\ \A g \in used' : \/ g \in Base \cup displaced'
                                            \/ \E t \in Tables : table'[t] = g
                                            \/ \E x \in Pages : pte'[x] = g
                        /\ \A n \in 0 .. TEST_PAGES - 1 : pte'[WindowPage(n)] = 0
      BY DEF Accounted, Base
    <3>1. ~error /\ pte' = [pte EXCEPT ![v] = f]
      BY <2>8
    <3>2. pte[v] = 0
      BY <1>4, <2>1, <2>2 DEF IInv, Reached, vmm_virt_to_phys
    <3>3. pte'[v] = f /\ \A x \in Pages : x # v => pte'[x] = pte[x]
      BY <1>0, <2>2, <3>1 DEF TypeOK
    <3>4. ASSUME NEW g \in used'
          PROVE  \/ g \in Base \cup displaced'
                 \/ \E t \in Tables : table'[t] = g
                 \/ \E x \in Pages : pte'[x] = g
      <4>1. CASE g = f
        BY <2>2, <3>3, <4>1
      <4>2. CASE g \in used' \ (used \cup {f})
        BY <2>6, <4>2
      <4>3. CASE g \in used /\ g = 0
        BY <4>3 DEF Base
      <4>4. CASE g \in used /\ g # 0
        <5>1. \/ g \in Base \cup displaced
              \/ \E t \in Tables : table[t] = g
              \/ \E x \in Pages : pte[x] = g
          BY <1>0, <3>1, <4>4 DEF IInv, Accounted
        <5>2. ASSUME NEW t \in Tables, table[t] = g PROVE table'[t] = g
          BY <2>6, <4>4, <5>2
        <5>3. ASSUME NEW x \in Pages, pte[x] = g PROVE pte'[x] = g
          BY <3>2, <3>3, <4>4, <5>3
        <5> QED
          BY <1>0, <5>1, <5>2, <5>3
      <4> QED
        BY <4>1, <4>2, <4>3, <4>4
    <3>5. ASSUME NEW n \in 0 .. TEST_PAGES - 1 PROVE pte'[WindowPage(n)] = 0
      <4>1. WindowPage(n) \in Pages /\ WindowPage(n) # v
        BY <2>1, PagesTypes
      <4>2. ~InWindow(n)
        BY <1>0 DEF InWindow
      <4> QED
        BY <3>1, <3>3, <4>1, <4>2 DEF IInv, Accounted
    <3> QED
      BY <3>4, <3>5
  <2> QED
    BY <1>1, <2>4, <2>5, <2>7, <2>10, <2>11 DEF FramesInv
<1> QED
  BY <1>3, <1>4

LEMMA MemtestMapFrames ==
  ASSUME IInv, memtest_map
  PROVE  FramesInv'
<1>0. /\ op = "memtest_map" /\ heap_current_ptr' = heap_current_ptr
      /\ size' = size /\ displaced' = displaced
      /\ TypeOK /\ CountMatches /\ Apart /\ used \in SUBSET Frames
      /\ Len(held) = TEST_PAGES /\ page \in 0 .. TEST_PAGES /\ held \in Seq(Frames)
      /\ DOMAIN held = 1 .. TEST_PAGES
  BY DEF IInv, TypeOK, Locals, memtest_map
<1>1. CASE ~(page < TEST_PAGES)
  <2>1. /\ UNCHANGED <<used, used_pages, table, pte, held, displaced, error>>
        /\ UNCHANGED <<low, low_word, unmapped>>
        /\ page = TEST_PAGES /\ page' = 0 /\ op' = "memtest_unmap"
    BY <1>0, <1>1 DEF memtest_map, pmm_vars, vmm_vars, low_vars
  <2>2. \A i \in DOMAIN held : Lent(i) /\ Lent(i)' /\ Target(i)' = Target(i)
    BY <1>0, <2>1 DEF Lent, Target
  <2>3. \A n \in 0 .. TEST_PAGES - 1 : InWindow(n)'
    BY <2>1 DEF InWindow
  <2>4. CountMatches' /\ Apart' /\ Reached' /\ Accounted'
    BY <2>1, <2>2, <2>3, Quiet
  <2>5. TypeOK'
    BY <1>0, <2>1 DEF TypeOK
  <2>6. Locals'
    BY <1>0, <2>1 DEF Locals
  <2> QED
    BY <2>4, <2>5, <2>6 DEF FramesInv
<1>2. CASE page < TEST_PAGES
  <2>1. PICK k, f, v : /\ k \in 0 .. TEST_PAGES - 1 /\ k = page
                       /\ f = held[page + 1] /\ v = WindowPage(page)
    BY <1>0, <1>2
  <2>2. /\ v \in Pages /\ k + 1 \in DOMAIN held /\ f \in Frames /\ f # 0
        /\ vmm_map_page(used, v, f)
    BY <1>2, <2>1, MemtestMaps
  <2>3. f \in used /\ f \in (Frames \ Base) \ displaced
        /\ (\A t \in Tables : table[t] # f) /\ (\A x \in Pages : pte[x] # f)
    <3>1. ~Lent(k + 1)
      BY <1>0, <2>1 DEF Lent
    <3> QED
      BY <1>0, <2>1, <2>2, <3>1 DEF Apart
  <2>4. used \cup {f} = used
    BY <2>3
  <2>5. /\ Base \subseteq used' /\ displaced' \subseteq used' \ Base
        /\ \A t \in Tables : table'[t] # 0 => table'[t] \in (used' \ Base) \ displaced'
        /\ \A x \in Pages : pte'[x] # 0 => pte'[x] \in (used' \ Base) \ displaced'
        /\ \A s, t \in Tables : table'[s] # 0 /\ table'[s] = table'[t] => s = t
        /\ \A x, y \in Pages : pte'[x] # 0 /\ pte'[x] = pte'[y] => x = y
        /\ \A t \in Tables, x \in Pages : table'[t] # 0 => table'[t] # pte'[x]
        /\ Reached'
        /\ pte' \in [Pages -> Frames]
    <3>1. vmm_map_page(used \cup {f}, v, f)
      BY <2>2, <2>4
    <3> QED
      BY <1>0, <2>2, <2>3, <3>1, MapApart
  <2>6. /\ used' \in SUBSET Frames /\ used \subseteq used'
        /\ used_pages' = Cardinality(used')
        /\ table' \in [Tables -> Frames]
        /\ \A t \in Tables : table[t] # 0 => table'[t] = table[t]
        /\ \A t \in Tables : table'[t] # 0 => table'[t] = table[t] \/ table'[t] \in used' \ used
        /\ \A g \in used' \ used : \E t \in Tables : table'[t] = g
    BY <1>0, <2>2, MapTables
  <2>7. CountMatches'
    BY <2>6 DEF CountMatches
  <2>8. low' = low /\ low_word' = low_word
    BY <1>0, <2>2, MapPage
  <2>9. used_pages' \in 0 .. TotalPages
    BY <2>6, <2>7, CountRange
  <2>10. CASE pte' = [pte EXCEPT ![v] = f] /\ unmapped' = unmapped \ {v} /\ error' = error
    <3>1. held' = held /\ op' = op /\ page' = k + 1
      BY <1>2, <2>1, <2>10 DEF memtest_map
    <3>2. pte'[v] = f /\ \A x \in Pages : x # v => pte'[x] = pte[x]
      BY <1>0, <2>2, <2>10 DEF TypeOK
    <3>3. TypeOK'
      <4>1. unmapped' \subseteq Pages
        BY <1>0, <2>10 DEF TypeOK
      <4>2. page' \in 0 .. TEST_PAGES
        BY <2>1, <3>1
      <4> QED
        BY <1>0, <2>5, <2>6, <2>8, <2>9, <2>10, <3>1, <4>1, <4>2 DEF TypeOK
    <3>4. Locals'
      BY <1>0, <2>1, <3>1 DEF Locals
    <3>5. Apart'
      <4>1. \A i \in DOMAIN held' : held'[i] \in (used' \ Base) \ displaced'
        BY <1>0, <2>6, <3>1 DEF Apart
      <4>2. \A i, j \in DOMAIN held' : held'[i] = held'[j] => i = j
        BY <1>0, <3>1 DEF Apart
      <4>3. \A t \in Tables, i \in DOMAIN held' : table'[t] # held'[i]
        <5> SUFFICES ASSUME NEW t \in Tables, NEW i \in DOMAIN held PROVE table'[t] # held[i]
          BY <3>1
        <5>1. held[i] \in used /\ held[i] # 0 /\ table[t] # held[i]
          BY <1>0 DEF Apart, Base
        <5> QED
          BY <2>6, <5>1
      <4>4. ASSUME NEW i \in DOMAIN held'
            PROVE  IF Lent(i)' THEN pte'[Target(i)'] = held'[i]
                   ELSE \A x \in Pages : pte'[x] # held'[i]
        <5>1. i \in 1 .. TEST_PAGES /\ i \in DOMAIN held
          BY <1>0, <3>1, <4>4
        <5>2. (Lent(i)' <=> i <= k + 1) /\ Target(i)' = WindowPage(i - 1)
          BY <1>0, <3>1 DEF Lent, Target
        <5>3. (Lent(i) <=> i <= k) /\ Target(i) = WindowPage(i - 1)
          BY <1>0, <2>1 DEF Lent, Target
        <5>4. CASE i <= k
          <6>1. WindowPage(i - 1) \in Pages /\ WindowPage(i - 1) # v
            <7>1. i - 1 \in 0 .. TEST_PAGES - 1 /\ i - 1 # k
              BY <2>1, <5>1, <5>4
            <7> QED
              BY <2>1, <7>1, PagesTypes
          <6>2. pte[WindowPage(i - 1)] = held[i]
            BY <1>0, <5>1, <5>3, <5>4 DEF Apart
          <6>3. i <= k + 1
            BY <2>1, <5>1, <5>4
          <6> QED
            BY <3>1, <3>2, <5>2, <6>1, <6>2, <6>3
        <5>5. CASE i = k + 1
          <6>1. WindowPage(i - 1) = v /\ held[i] = f
            BY <2>1, <5>5
          <6> QED
            BY <3>1, <3>2, <5>2, <5>5, <6>1
        <5>6. CASE i > k + 1
          <6>1. ~Lent(i) /\ ~Lent(i)' /\ held[i] # f
            <7>1. held[i] # held[k + 1]
              BY <1>0, <2>2, <5>1, <5>6 DEF Apart
            <7> QED
              BY <2>1, <5>1, <5>2, <5>3, <5>6, <7>1
          <6>2. \A x \in Pages : pte[x] # held[i]
            BY <1>0, <5>1, <6>1 DEF Apart
          <6> QED
            BY <3>1, <3>2, <6>1, <6>2
        <5> QED
          BY <2>1, <5>1, <5>4, <5>5, <5>6
      <4> QED
        BY <2>5, <4>1, <4>2, <4>3, <4>4 DEF Apart, Base
    <3>6. Accounted'
      <4> SUFFICES ASSUME ~error
                   PROVE  /\ \A g \in used' : \/ g \in Base \cup displaced
                                              \/ \E t \in Tables : table'[t] = g
                                              \/ \E x \in Pages : pte'[x] = g
                                              \/ \E i \in DOMAIN held : held[i] = g
                          /\ \A n \in 0 .. TEST_PAGES - 1 : pte'[WindowPage(n)] # 0 => n < k + 1
        BY <1>0, <2>10, <3>1 DEF Accounted, Base, InWindow
      <4>1. pte[v] = 0
        <5>1. ~InWindow(k)
          BY <1>0, <2>1 DEF InWindow
        <5> QED
          BY <2>1, <5>1 DEF IInv, Accounted
      <4>2. ASSUME NEW g \in used'
            PROVE  \/ g \in Base \cup displaced
                   \/ \E t \in Tables : table'[t] = g
                   \/ \E x \in Pages : pte'[x] = g
                   \/ \E i \in DOMAIN held : held[i] = g
        <5>1. CASE g \in used' \ used
          BY <2>6, <5>1
        <5>2. CASE g = 0
          BY <5>2 DEF Base
        <5>3. CASE g \in used /\ g # 0
          <6>1. \/ g \in Base \cup displaced
                \/ \E t \in Tables : table[t] = g
                \/ \E x \in Pages : pte[x] = g
                \/ \E i \in DOMAIN held : held[i] = g
            BY <5>3 DEF IInv, Accounted
          <6>2. ASSUME NEW t \in Tables, table[t] = g PROVE table'[t] = g
            BY <2>6, <5>3, <6>2
          <6>3. ASSUME NEW x \in Pages, pte[x] = g PROVE pte'[x] = g
            BY <3>2, <4>1, <5>3, <6>3
          <6> QED
            BY <6>1, <6>2, <6>3
        <5> QED
          BY <5>1, <5>2, <5>3
      <4>3. ASSUME NEW n \in 0 .. TEST_PAGES - 1, pte'[WindowPage(n)] # 0 PROVE n < k + 1
        <5>1. CASE n = k
          BY <2>1, <5>1
        <5>2. CASE n # k
          <6>1. WindowPage(n) \in Pages /\ WindowPage(n) # v
            BY <2>1, <5>2, PagesTypes
          <6>2. InWindow(n)
            BY <3>2, <4>3, <6>1 DEF IInv, Accounted
          <6> QED
            BY <1>0, <2>1, <6>2 DEF InWindow
        <5> QED
          BY <5>1, <5>2
      <4> QED
        BY <4>2, <4>3
    <3> QED
      BY <2>5, <2>7, <3>3, <3>4, <3>5, <3>6 DEF FramesInv
  <2>11. CASE unmapped' = unmapped \cup {v} /\ error' = TRUE
    <3>1. held' = <<>> /\ op' = "none" /\ page' = page
      BY <1>2, <2>1, <2>11 DEF memtest_map
    <3>2. error' \in BOOLEAN
      BY <2>11, Zenon
    <3>3. TypeOK'
      <4>1. unmapped' \subseteq Pages
        BY <1>0, <2>2, <2>11 DEF TypeOK
      <4>2. held' \in Seq(Frames)
        BY <3>1
      <4> QED
        BY <1>0, <2>5, <2>6, <2>8, <2>9, <3>1, <3>2, <4>1, <4>2 DEF TypeOK
    <3>4. Locals'
      BY <3>1 DEF Locals
    <3>5. Apart'
      <4>1. DOMAIN held' = {}
        BY <3>1
      <4> QED
        BY <2>5, <4>1 DEF Apart, Base
    <3>6. Accounted'
      BY <2>11 DEF Accounted
    <3> QED
      BY <2>5, <2>7, <3>3, <3>4, <3>5, <3>6 DEF FramesInv
  <2> QED
    BY <1>0, <2>2, <2>10, <2>11, MapPage
<1> QED
  BY <1>1, <1>2

LEMMA VmtestMapFrames ==
  ASSUME IInv, vmtest_map
  PROVE  FramesInv'
<1>1. PICK f, v : f = held[1] /\ v = HeapPage(VMTEST_PAGE)
  OBVIOUS
<1>2. /\ v \in Pages /\ f \in Frames /\ f # 0 /\ 1 \in DOMAIN held /\ Len(held) = 1
      /\ held \in Seq(Frames) /\ Present(v) /\ vmm_map_page(used, v, f)
  BY <1>1, VmtestMaps
<1>3. /\ TypeOK /\ CountMatches /\ Apart /\ used \in SUBSET Frames
      /\ op = "vmtest_map" /\ op' = "vmtest_unmap"
      /\ UNCHANGED <<heap_current_ptr, size, page, held>>
      /\ displaced' = displaced \cup ({pte[v]} \ {0})
  BY <1>1, <1>2 DEF IInv, TypeOK, vmtest_map, local_vars, vmm_virt_to_phys
<1>4. used' = used /\ used_pages' = Cardinality(used) /\ table' = table
      /\ \A x \in Pages : Present(x) => Present(x)'
  BY <1>2, <1>3, MapTables
<1>5. /\ pte' = [pte EXCEPT ![v] = f] /\ unmapped' = unmapped \ {v} /\ error' = error
      /\ low' = low /\ low_word' = low_word
  BY <1>2, <1>3, MapPage
<1>6. /\ pte' \in [Pages -> Frames] /\ pte'[v] = f
      /\ \A x \in Pages : x # v => pte'[x] = pte[x]
  BY <1>2, <1>3, <1>5 DEF TypeOK
<1>7. /\ f \in (used \ Base) \ displaced /\ \A t \in Tables : table[t] # f
      /\ \A x \in Pages : pte[x] # f
  <2>1. ~Lent(1)
    BY <1>3 DEF Lent
  <2> QED
    BY <1>1, <1>2, <1>3, <2>1 DEF Apart
<1>8. DOMAIN held' = {1} /\ held'[1] = f
  <2>1. DOMAIN held = 1 .. 1
    BY <1>2
  <2> QED
    BY <1>1, <1>3, <2>1
<1>9. CountMatches'
  BY <1>4 DEF CountMatches
<1>10. Reached'
  BY <1>2, <1>4, <1>6 DEF IInv, Reached
<1>11. Locals'
  BY <1>1, <1>2, <1>3, <1>4 DEF Locals
<1>12. TypeOK'
  <2>1. displaced' \subseteq Frames /\ unmapped' \subseteq Pages
    BY <1>2, <1>3, <1>5 DEF TypeOK
  <2>2. used_pages' = used_pages
    BY <1>3, <1>4 DEF CountMatches
  <2> QED
    BY <1>3, <1>4, <1>5, <1>6, <2>1, <2>2 DEF TypeOK
<1>13. Apart'
  <2>1. Base \subseteq used' /\ displaced' \subseteq used' \ Base
    BY <1>2, <1>3, <1>4 DEF Apart
  <2>2. \A t \in Tables : table'[t] # 0 => table'[t] \in (used' \ Base) \ displaced'
    BY <1>2, <1>3, <1>4 DEF Apart
  <2>3. \A x \in Pages : pte'[x] # 0 => pte'[x] \in (used' \ Base) \ displaced'
    <3> SUFFICES ASSUME NEW x \in Pages, pte'[x] # 0
                 PROVE  pte'[x] \in (used' \ Base) \ displaced'
      OBVIOUS
    <3>1. CASE x = v
      BY <1>2, <1>3, <1>4, <1>6, <1>7, <3>1
    <3>2. CASE x # v
      <4>1. pte[x] # 0 /\ pte[x] # pte[v] /\ pte[x] \in (used \ Base) \ displaced
        BY <1>2, <1>3, <1>6, <3>2 DEF Apart
      <4> QED
        BY <1>3, <1>4, <1>6, <3>2, <4>1
    <3> QED
      BY <3>1, <3>2
  <2>4. \A i \in DOMAIN held' : held'[i] \in (used' \ Base) \ displaced'
    BY <1>2, <1>3, <1>4, <1>7, <1>8
  <2>5. /\ \A s, t \in Tables : table'[s] # 0 /\ table'[s] = table'[t] => s = t
        /\ \A x, y \in Pages : pte'[x] # 0 /\ pte'[x] = pte'[y] => x = y
        /\ \A i, j \in DOMAIN held' : held'[i] = held'[j] => i = j
        /\ \A t \in Tables, x \in Pages : table'[t] # 0 => table'[t] # pte'[x]
        /\ \A t \in Tables, i \in DOMAIN held' : table'[t] # held'[i]
    BY <1>3, <1>4, <1>6, <1>7, <1>8 DEF Apart
  <2>6. \A i \in DOMAIN held' : Lent(i)' /\ pte'[Target(i)'] = held'[i]
    BY <1>1, <1>3, <1>6, <1>8 DEF Lent, Target
  <2> QED
    BY <2>1, <2>2, <2>3, <2>4, <2>5, <2>6 DEF Apart, Base
<1>14. Accounted'
  <2> SUFFICES ASSUME ~error
               PROVE  /\ \A g \in used : \/ g \in Base \cup displaced'
                                         \/ \E t \in Tables : table[t] = g
                                         \/ \E x \in Pages : pte'[x] = g
                                         \/ \E i \in DOMAIN held : held[i] = g
                      /\ \A n \in 0 .. TEST_PAGES - 1 : pte'[WindowPage(n)] = 0
    BY <1>3, <1>4, <1>5 DEF Accounted, Base
  <2>1. ASSUME NEW g \in used
        PROVE  \/ g \in Base \cup displaced'
               \/ \E t \in Tables : table[t] = g
               \/ \E x \in Pages : pte'[x] = g
               \/ \E i \in DOMAIN held : held[i] = g
    <3>1. CASE g = pte[v] /\ g # 0
      BY <1>3, <3>1
    <3>2. CASE g = 0
      BY <3>2 DEF Base
    <3>3. CASE g # pte[v]
      BY <1>3, <1>6, <3>3 DEF IInv, Accounted
    <3> QED
      BY <3>1, <3>2, <3>3
  <2>2. ASSUME NEW n \in 0 .. TEST_PAGES - 1 PROVE pte'[WindowPage(n)] = 0
    <3>1. WindowPage(n) \in Pages /\ WindowPage(n) # v
      BY <1>1, PagesTypes
    <3>2. ~InWindow(n)
      BY <1>3 DEF InWindow
    <3> QED
      BY <1>6, <3>1, <3>2 DEF IInv, Accounted
  <2> QED
    BY <2>1, <2>2
<1> QED
  BY <1>9, <1>10, <1>11, <1>12, <1>13, <1>14 DEF FramesInv

\* A frame that is freed takes one off the counter.
LEMMA FreeCounts ==
  ASSUME IInv, NEW f \in used, pmm_free_page(f)
  PROVE  /\ used' = used \ {f} /\ used' \in SUBSET Frames
         /\ CountMatches' /\ used_pages' \in 0 .. TotalPages
<1>1. used' = used \ {f} /\ used_pages' = used_pages - 1
  BY DEF pmm_free_page
<1>2. used \in SUBSET Frames /\ used' \in SUBSET Frames /\ used_pages = Cardinality(used)
  BY <1>1 DEF IInv, TypeOK, CountMatches
<1>3. IsFiniteSet(used) /\ Cardinality(used) \in Nat
  BY <1>2, FrameSets
<1>4. Cardinality(used \ {f}) = Cardinality(used) - 1
  BY <1>3, FS_RemoveElement
<1>5. CountMatches'
  BY <1>1, <1>2, <1>3, <1>4 DEF CountMatches
<1> QED
  BY <1>1, <1>2, <1>5, CountRange

LEMMA VmtestUnmapFrames ==
  ASSUME IInv, vmtest_unmap
  PROVE  FramesInv'
<1>1. PICK f, v : f = held[1] /\ v = HeapPage(VMTEST_PAGE)
  OBVIOUS
<1>2. /\ op = "vmtest_unmap" /\ op' = "none" /\ held' = <<>>
      /\ UNCHANGED <<table, low, low_word, heap_current_ptr, size, page, displaced, error>>
      /\ unmapped' = unmapped \cup {v} /\ pmm_free_page(f)
      /\ TypeOK /\ Apart /\ Reached /\ Present(v) /\ Len(held) = 1 /\ held \in Seq(Frames)
  BY <1>1 DEF IInv, TypeOK, Locals, vmtest_unmap, low_vars
<1>3. v \in Pages
  BY <1>1, PagesTypes, VMTEST_PAGE \in 0 .. HEAP_PAGES - 1
<1>4. DOMAIN held = {1}
  <2>1. DOMAIN held = 1 .. 1
    BY <1>2
  <2> QED
    BY <2>1
<1>5. pte' = [pte EXCEPT ![v] = 0]
  BY <1>1, <1>2 DEF vmtest_unmap, vmm_unmap_page
<1>6. pte[v] = f /\ f \in (used \ Base) \ displaced /\ f # 0 /\ \A t \in Tables : table[t] # f
  <2>1. Lent(1) /\ Target(1) = v
    BY <1>1, <1>2 DEF Lent, Target
  <2> QED
    BY <1>1, <1>2, <1>4, <2>1 DEF Apart, Base
<1>7. /\ used' = used \ {f} /\ used' \in SUBSET Frames
      /\ CountMatches' /\ used_pages' \in 0 .. TotalPages
  BY <1>2, <1>6, FreeCounts
<1>8. /\ pte' \in [Pages -> Frames] /\ pte'[v] = 0
      /\ \A x \in Pages : x # v => pte'[x] = pte[x] /\ pte[x] # f
  BY <1>2, <1>3, <1>5, <1>6, 0 \in Frames DEF TypeOK, Apart
<1>9. TypeOK'
  <2>1. held' \in Seq(Frames) /\ unmapped' \subseteq Pages
    BY <1>2, <1>3 DEF TypeOK
  <2> QED
    BY <1>2, <1>7, <1>8, <2>1 DEF TypeOK
<1>10. Reached'
  BY <1>2, <1>8 DEF Reached, Present
<1>11. Locals'
  BY <1>2 DEF Locals
<1>12. Apart'
  <2>1. DOMAIN held' = {}
    BY <1>2
  <2>2. Base \subseteq used' /\ displaced' \subseteq used' \ Base
    BY <1>2, <1>6, <1>7 DEF Apart
  <2>3. /\ \A t \in Tables : table'[t] # 0 => table'[t] \in (used' \ Base) \ displaced'
        /\ \A x \in Pages : pte'[x] # 0 => pte'[x] \in (used' \ Base) \ displaced'
    BY <1>2, <1>6, <1>7, <1>8 DEF Apart
  <2>4. /\ \A s, t \in Tables : table'[s] # 0 /\ table'[s] = table'[t] => s = t
        /\ \A x, y \in Pages : pte'[x] # 0 /\ pte'[x] = pte'[y] => x = y
        /\ \A t \in Tables, x \in Pages : table'[t] # 0 => table'[t] # pte'[x]
    BY <1>2, <1>8 DEF Apart
  <2> QED
    BY <2>1, <2>2, <2>3, <2>4 DEF Apart, Base
<1>13. Accounted'
  <2> SUFFICES ASSUME ~error
               PROVE  /\ \A g \in used' : \/ g \in Base \cup displaced
                                          \/ \E t \in Tables : table[t] = g
                                          \/ \E x \in Pages : pte'[x] = g
                      /\ \A n \in 0 .. TEST_PAGES - 1 : pte'[WindowPage(n)] = 0
    BY <1>2 DEF Accounted, Base
  <2>1. ASSUME NEW g \in used'
        PROVE  \/ g \in Base \cup displaced
               \/ \E t \in Tables : table[t] = g
               \/ \E x \in Pages : pte'[x] = g
    <3>1. g \in used /\ g # f
      BY <1>7
    <3>2. \/ g \in Base \cup displaced
          \/ \E t \in Tables : table[t] = g
          \/ \E x \in Pages : pte[x] = g
      BY <1>1, <1>4, <3>1 DEF IInv, Accounted
    <3>3. ASSUME NEW x \in Pages, pte[x] = g PROVE pte'[x] = g
      BY <1>6, <1>8, <3>1, <3>3
    <3> QED
      BY <3>2, <3>3
  <2>2. ASSUME NEW n \in 0 .. TEST_PAGES - 1 PROVE pte'[WindowPage(n)] = 0
    <3>1. WindowPage(n) \in Pages /\ WindowPage(n) # v
      BY <1>1, PagesTypes
    <3>2. ~InWindow(n)
      BY <1>2 DEF InWindow
    <3> QED
      BY <1>8, <3>1, <3>2 DEF IInv, Accounted
  <2> QED
    BY <2>1, <2>2
<1> QED
  BY <1>7, <1>9, <1>10, <1>11, <1>12, <1>13 DEF FramesInv

LEMMA MemtestFreeFrames ==
  ASSUME IInv, memtest_free
  PROVE  FramesInv'
<1>0. /\ op = "memtest_free" /\ TypeOK /\ CountMatches /\ Apart /\ Reached
      /\ UNCHANGED <<table, pte, low, low_word, heap_current_ptr, size, page, unmapped,
                     displaced, error>>
      /\ held \in Seq(Frames) /\ Len(held) \in Nat /\ DOMAIN held = 1 .. Len(held)
  BY DEF IInv, TypeOK, memtest_free, vmm_vars, low_vars
<1>1. CASE held = <<>>
  <2>1. UNCHANGED <<used, used_pages, table, pte, held, displaced, error>> /\ op' = "none"
    BY <1>0, <1>1 DEF memtest_free, pmm_vars
  <2>2. CountMatches' /\ Apart' /\ Reached' /\ Accounted'
    BY <1>0, <1>1, <2>1, QuietIdle
  <2>3. TypeOK' /\ Locals'
    BY <1>0, <1>1, <2>1 DEF TypeOK, Locals
  <2> QED
    BY <2>2, <2>3 DEF FramesInv
<1>2. CASE held # <<>>
  <2>1. PICK f : f = Head(held)
    OBVIOUS
  <2>2. pmm_free_page(f) /\ held' = Tail(held) /\ op' = op
    BY <1>2, <2>1 DEF memtest_free
  <2>3. Len(held) >= 1 /\ f = held[1] /\ 1 \in DOMAIN held
    BY <1>0, <1>2, <2>1
  <2>4. /\ held' \in Seq(Frames) /\ DOMAIN held' = 1 .. Len(held) - 1
        /\ \A i \in 1 .. Len(held) - 1 : held'[i] = held[i + 1]
    BY <1>0, <1>2, <2>2
  <2>5. \A i : ~Lent(i) /\ ~Lent(i)'
    BY <1>0, <2>2 DEF Lent
  <2>6. /\ f \in (used \ Base) \ displaced /\ \A t \in Tables : table[t] # f
        /\ \A x \in Pages : pte[x] # f
        /\ \A i \in DOMAIN held : i # 1 => held[i] # f
    BY <1>0, <2>3, <2>5 DEF Apart
  <2>7. /\ used' = used \ {f} /\ used' \in SUBSET Frames
        /\ CountMatches' /\ used_pages' \in 0 .. TotalPages
    BY <2>2, <2>6, FreeCounts
  <2>8. TypeOK'
    BY <1>0, <2>2, <2>4, <2>7 DEF TypeOK
  <2>9. Reached'
    BY <1>0 DEF Reached, Present
  <2>10. Locals'
    BY <1>0, <2>2 DEF Locals
  <2>11. Apart'
    <3>0. \A i \in DOMAIN held' : i + 1 \in DOMAIN held /\ i + 1 # 1 /\ held'[i] = held[i + 1]
      BY <1>0, <2>4
    <3>1. Base \subseteq used' /\ displaced' \subseteq used' \ Base
      BY <1>0, <2>6, <2>7 DEF Apart
    <3>2. /\ \A t \in Tables : table'[t] # 0 => table'[t] \in (used' \ Base) \ displaced'
          /\ \A x \in Pages : pte'[x] # 0 => pte'[x] \in (used' \ Base) \ displaced'
      BY <1>0, <2>6, <2>7 DEF Apart
    <3>3. \A i \in DOMAIN held' : held'[i] \in (used' \ Base) \ displaced'
      BY <1>0, <2>6, <2>7, <3>0 DEF Apart
    <3>4. ASSUME NEW i \in DOMAIN held', NEW j \in DOMAIN held', held'[i] = held'[j]
          PROVE  i = j
      <4>1. held[i + 1] = held[j + 1] /\ i + 1 \in DOMAIN held /\ j + 1 \in DOMAIN held
        BY <3>0, <3>4
      <4>2. i + 1 = j + 1
        BY <1>0, <4>1 DEF Apart
      <4> QED
        BY <2>4, <4>2
    <3>5. \A t \in Tables, i \in DOMAIN held' : table'[t] # held'[i]
      BY <1>0, <3>0 DEF Apart
    <3>6. \A i \in DOMAIN held' : \A x \in Pages : pte'[x] # held'[i]
      BY <1>0, <2>5, <3>0 DEF Apart
    <3>7. /\ \A s, t \in Tables : table'[s] # 0 /\ table'[s] = table'[t] => s = t
          /\ \A v, w \in Pages : pte'[v] # 0 /\ pte'[v] = pte'[w] => v = w
          /\ \A t \in Tables, v \in Pages : table'[t] # 0 => table'[t] # pte'[v]
      BY <1>0 DEF Apart
    <3> QED
      BY <2>5, <3>1, <3>2, <3>3, <3>4, <3>5, <3>6, <3>7 DEF Apart, Base
  <2>12. Accounted'
    <3> SUFFICES ASSUME ~error
                 PROVE  /\ \A g \in used' : \/ g \in Base \cup displaced
                                            \/ \E t \in Tables : table[t] = g
                                            \/ \E v \in Pages : pte[v] = g
                                            \/ \E i \in DOMAIN held' : held'[i] = g
                        /\ \A n \in 0 .. TEST_PAGES - 1 : pte[WindowPage(n)] = 0
      BY <1>0 DEF Accounted, Base
    <3>1. \A n \in 0 .. TEST_PAGES - 1 : ~InWindow(n)
      BY <1>0 DEF InWindow
    <3>2. ASSUME NEW g \in used'
          PROVE  \/ g \in Base \cup displaced
                 \/ \E t \in Tables : table[t] = g
                 \/ \E v \in Pages : pte[v] = g
                 \/ \E i \in DOMAIN held' : held'[i] = g
      <4>1. g \in used /\ g # f
        BY <2>7
      <4>2. ASSUME NEW i \in DOMAIN held, held[i] = g PROVE \E j \in DOMAIN held' : held'[j] = g
        <5>1. i # 1
          BY <2>3, <4>1, <4>2
        <5>2. i - 1 \in DOMAIN held' /\ held'[i - 1] = g
          BY <1>0, <2>4, <4>2, <5>1
        <5> QED
          BY <5>2
      <4> QED
        BY <4>1, <4>2 DEF IInv, Accounted
    <3> QED
      BY <3>1, <3>2 DEF IInv, Accounted
  <2> QED
    BY <2>7, <2>8, <2>9, <2>10, <2>11, <2>12 DEF FramesInv
<1> QED
  BY <1>1, <1>2

LEMMA MemtestUnmapFrames ==
  ASSUME IInv, memtest_unmap
  PROVE  FramesInv'
<1>0. /\ op = "memtest_unmap" /\ TypeOK /\ CountMatches /\ Apart /\ Reached
      /\ UNCHANGED <<used, used_pages, table, low, low_word, heap_current_ptr, size, held,
                     unmapped, displaced, error>>
      /\ Len(held) = TEST_PAGES /\ page \in 0 .. TEST_PAGES /\ held \in Seq(Frames)
      /\ DOMAIN held = 1 .. TEST_PAGES
  BY DEF IInv, TypeOK, Locals, memtest_unmap, pmm_vars, low_vars
<1>1. CASE ~(page < TEST_PAGES)
  <2>1. op' = "memtest_free" /\ pte' = pte /\ page' = page /\ page = TEST_PAGES
    BY <1>0, <1>1 DEF memtest_unmap
  <2>2. \A i \in DOMAIN held : ~Lent(i) /\ ~Lent(i)'
    BY <1>0, <2>1 DEF Lent
  <2>3. \A n \in 0 .. TEST_PAGES - 1 : ~InWindow(n)
    BY <1>0, <2>1 DEF InWindow
  <2>4. CountMatches' /\ Apart' /\ Reached' /\ Accounted'
    BY <1>0, <2>1, <2>2, <2>3, Quiet
  <2>5. TypeOK' /\ Locals'
    BY <1>0, <2>1 DEF TypeOK, Locals
  <2> QED
    BY <2>4, <2>5 DEF FramesInv
<1>2. CASE page < TEST_PAGES
  <2>1. PICK k, v : k \in 0 .. TEST_PAGES - 1 /\ k = page /\ v = WindowPage(page)
    BY <1>0, <1>2
  <2>2. op' = op /\ page' = k + 1 /\ vmm_unmap_page(v)
    BY <1>2, <2>1 DEF memtest_unmap
  <2>3. v \in Pages /\ k + 1 \in DOMAIN held
    BY <1>0, <2>1, PagesTypes
  <2>4. pte[v] = held[k + 1] /\ pte[v] # 0
    <3>1. Lent(k + 1) /\ Target(k + 1) = v
      BY <1>0, <2>1 DEF Lent, Target
    <3> QED
      BY <1>0, <2>3, <3>1 DEF Apart, Base
  <2>5. pte' = [pte EXCEPT ![v] = 0]
    BY <1>0, <2>2, <2>3, <2>4 DEF vmm_unmap_page, Reached
  <2>6. /\ pte' \in [Pages -> Frames] /\ pte'[v] = 0
        /\ \A x \in Pages : x # v => pte'[x] = pte[x]
    BY <1>0, <2>3, <2>5, 0 \in Frames DEF TypeOK
  <2>7. TypeOK'
    <3>1. page' \in 0 .. TEST_PAGES
      BY <2>1, <2>2
    <3> QED
      BY <1>0, <2>2, <2>6, <3>1 DEF TypeOK
  <2>8. CountMatches'
    BY <1>0 DEF CountMatches
  <2>9. Reached'
    BY <1>0, <2>6 DEF Reached, Present
  <2>10. Locals'
    BY <1>0, <2>1, <2>2 DEF Locals
  <2>11. Apart'
    <3>1. /\ Base \subseteq used' /\ displaced' \subseteq used' \ Base
          /\ \A t \in Tables : table'[t] # 0 => table'[t] \in (used' \ Base) \ displaced'
          /\ \A i \in DOMAIN held' : held'[i] \in (used' \ Base) \ displaced'
          /\ \A s, t \in Tables : table'[s] # 0 /\ table'[s] = table'[t] => s = t
          /\ \A i, j \in DOMAIN held' : held'[i] = held'[j] => i = j
          /\ \A t \in Tables, i \in DOMAIN held' : table'[t] # held'[i]
      BY <1>0 DEF Apart
    <3>2. /\ \A x \in Pages : pte'[x] # 0 => pte'[x] \in (used' \ Base) \ displaced'
          /\ \A x, y \in Pages : pte'[x] # 0 /\ pte'[x] = pte'[y] => x = y
          /\ \A t \in Tables, x \in Pages : table'[t] # 0 => table'[t] # pte'[x]
      BY <1>0, <2>6 DEF Apart
    <3>3. ASSUME NEW i \in DOMAIN held'
          PROVE  IF Lent(i)' THEN pte'[Target(i)'] = held'[i]
                 ELSE \A x \in Pages : pte'[x] # held'[i]
      <4>1. i \in 1 .. TEST_PAGES /\ i \in DOMAIN held
        BY <1>0, <3>3
      <4>2. (Lent(i)' <=> i > k + 1) /\ Target(i)' = WindowPage(i - 1)
        BY <1>0, <2>2 DEF Lent, Target
      <4>3. (Lent(i) <=> i > k) /\ Target(i) = WindowPage(i - 1)
        BY <1>0, <2>1 DEF Lent, Target
      <4>4. CASE i > k + 1
        <5>1. WindowPage(i - 1) \in Pages /\ WindowPage(i - 1) # v
          <6>1. i - 1 \in 0 .. TEST_PAGES - 1 /\ i - 1 # k
            BY <2>1, <4>1, <4>4
          <6> QED
            BY <2>1, <6>1, PagesTypes
        <5>2. i > k
          BY <2>1, <4>1, <4>4
        <5>3. pte[WindowPage(i - 1)] = held[i]
          BY <1>0, <4>1, <4>3, <5>2 DEF Apart
        <5> QED
          BY <1>0, <2>6, <4>2, <4>4, <5>1, <5>3
      <4>5. CASE i = k + 1
        <5>1. \A x \in Pages : pte'[x] # held[i]
          <6>1. \A x \in Pages : x # v => pte[x] # pte[v]
            BY <1>0, <2>3, <2>4 DEF Apart
          <6> QED
            BY <2>4, <2>6, <4>5, <6>1
        <5>2. ~Lent(i)'
          BY <2>1, <4>2, <4>5
        <5> QED
          BY <1>0, <5>1, <5>2
      <4>6. CASE i <= k
        <5>1. ~Lent(i) /\ ~Lent(i)'
          BY <2>1, <4>1, <4>2, <4>3, <4>6
        <5>2. \A x \in Pages : pte[x] # held[i] /\ held[i] # 0
          BY <1>0, <4>1, <5>1 DEF Apart, Base
        <5> QED
          BY <1>0, <2>6, <5>1, <5>2
      <4> QED
        BY <2>1, <4>1, <4>4, <4>5, <4>6
    <3> QED
      BY <3>1, <3>2, <3>3 DEF Apart, Base
  <2>12. Accounted'
    <3> SUFFICES ASSUME ~error
                 PROVE  /\ \A g \in used : \/ g \in Base \cup displaced
                                           \/ \E t \in Tables : table[t] = g
                                           \/ \E x \in Pages : pte'[x] = g
                                           \/ \E i \in DOMAIN held : held[i] = g
                        /\ \A n \in 0 .. TEST_PAGES - 1 : pte'[WindowPage(n)] # 0 => n >= k + 1
      BY <1>0, <2>2 DEF Accounted, Base, InWindow
    <3>1. ASSUME NEW g \in used
          PROVE  \/ g \in Base \cup displaced
                 \/ \E t \in Tables : table[t] = g
                 \/ \E x \in Pages : pte'[x] = g
                 \/ \E i \in DOMAIN held : held[i] = g
      <4>1. CASE g = pte[v]
        BY <2>3, <2>4, <4>1
      <4>2. CASE g # pte[v]
        BY <2>6, <4>2 DEF IInv, Accounted
      <4> QED
        BY <4>1, <4>2
    <3>2. ASSUME NEW n \in 0 .. TEST_PAGES - 1, pte'[WindowPage(n)] # 0 PROVE n >= k + 1
      <4>1. n # k
        BY <2>1, <2>6, <3>2
      <4>2. WindowPage(n) \in Pages /\ WindowPage(n) # v
        BY <2>1, <4>1, PagesTypes
      <4>3. InWindow(n)
        BY <2>6, <3>2, <4>2 DEF IInv, Accounted
      <4> QED
        BY <1>0, <2>1, <4>1, <4>3 DEF InWindow
    <3> QED
      BY <3>1, <3>2
  <2> QED
    BY <2>7, <2>8, <2>9, <2>10, <2>11, <2>12 DEF FramesInv
<1> QED
  BY <1>1, <1>2

-----------------------------------------------------------------------------
(* The inductive invariant. *)

LEMMA InitIInv == Init => IInv
<1> SUFFICES ASSUME Init PROVE IInv
  OBVIOUS
<1>1. /\ used = Base /\ used_pages = Cardinality(Base)
      /\ table = [t \in Tables |-> 0] /\ pte = [v \in Pages |-> 0]
      /\ heap_current_ptr = 0 /\ op = "none" /\ size = 0 /\ page = 0 /\ held = <<>>
      /\ blocks = {} /\ unmapped = {} /\ displaced = {}
  BY InitCount DEF Init, pmm_init, Base
<1>2. Base \in SUBSET Frames /\ 0 \in Frames
  BY DEF Base
<1>3. CountMatches
  BY <1>1 DEF CountMatches
<1>4. TypeOK
  <2>1. used_pages \in 0 .. TotalPages
    BY <1>1, <1>2, FrameSets
  <2>2. error = FALSE /\ error \in BOOLEAN
    BY Zenon DEF Init
  <2>3. low \in [LowPages -> [frame : Frames, huge : BOOLEAN, user : BOOLEAN]]
    <3>1. low = [v \in LowPages |-> [frame |-> v, huge |-> TRUE, user |-> FALSE]]
      BY DEF Init
    <3> QED
      BY <3>1 DEF LowPages
  <2>4. low_word \in [LowPages -> Frames]
    BY <1>2 DEF Init
  <2>5. heap_current_ptr \in 0 .. HeapEnd - 1
    <3>1. HEAP_PAGES \in Nat \ {0} /\ PAGE_UNITS \in Nat \ {0}
      OBVIOUS
    <3>2. HEAP_PAGES * PAGE_UNITS >= 1
      BY <3>1
    <3> QED
      BY <1>1, <3>1, <3>2 DEF HeapEnd
  <2>6. held \in Seq(Frames) /\ size \in 0 .. MaxSize /\ page \in 0 .. HEAP_PAGES
    BY <1>1
  <2> QED
    BY <1>1, <1>2, <2>1, <2>2, <2>3, <2>4, <2>5, <2>6 DEF TypeOK
<1>5. Apart
  BY <1>1 DEF Apart
<1>6. Reached /\ Locals
  BY <1>1 DEF Reached, Locals
<1>7. Accounted
  <2>1. \A n \in 0 .. TEST_PAGES - 1 : pte[WindowPage(n)] = 0
    BY <1>1, PagesTypes
  <2> QED
    BY <1>1, <2>1 DEF Accounted
<1>8. Blocks /\ Loop /\ BlocksUsable
  BY <1>1 DEF Blocks, Loop, BlocksUsable
<1> QED
  BY <1>3, <1>4, <1>5, <1>6, <1>7, <1>8 DEF IInv

LEMMA StutterFrames == ASSUME IInv, UNCHANGED vars PROVE FramesInv'
<1>1. /\ UNCHANGED <<used, used_pages, table, pte, held, displaced, error>>
      /\ UNCHANGED <<low, low_word, heap_current_ptr, op, size, page, unmapped>>
  BY DEF vars, pmm_vars, vmm_vars, low_vars, local_vars
<1>2. \A i \in DOMAIN held : (Lent(i)' <=> Lent(i)) /\ Target(i)' = Target(i)
  BY <1>1 DEF Lent, Target
<1>3. \A n \in 0 .. TEST_PAGES - 1 : InWindow(n) => InWindow(n)'
  BY <1>1 DEF InWindow
<1>4. CountMatches' /\ Apart' /\ Reached' /\ Accounted'
  BY <1>1, <1>2, <1>3, Quiet
<1>5. TypeOK'
  BY <1>1 DEF IInv, TypeOK
<1>6. Locals'
  BY <1>1 DEF IInv, Locals, Present
<1> QED
  BY <1>4, <1>5, <1>6 DEF FramesInv

LEMMA NextIInv == IInv /\ [Next]_vars => IInv'
<1> SUFFICES ASSUME IInv, [Next]_vars PROVE IInv'
  OBVIOUS
<1>1. Blocks' /\ Loop' /\ BlocksUsable'
  BY HeapStep
<1>2. FramesInv'
  <2>1. CASE \E n \in 0 .. MaxSize : kmalloc(n)
    BY <2>1, KmallocFrames
  <2>2. CASE kmalloc_page
    BY <2>2, KmallocPageFrames
  <2>3. CASE kmalloc_return
    BY <2>3, KmallocReturnFrames
  <2>4. CASE vmtest \/ usertest \/ usertest_stack
    BY <2>4, CommandFrames
  <2>5. CASE vmtest_map
    BY <2>5, VmtestMapFrames
  <2>6. CASE vmtest_unmap
    BY <2>6, VmtestUnmapFrames
  <2>7. CASE memtest
    BY <2>7, MemtestFrames
  <2>8. CASE memtest_alloc
    BY <2>8, MemtestAllocFrames
  <2>9. CASE memtest_map
    BY <2>9, MemtestMapFrames
  <2>10. CASE memtest_unmap
    BY <2>10, MemtestUnmapFrames
  <2>11. CASE memtest_free
    BY <2>11, MemtestFreeFrames
  <2>12. CASE usertest_code \/ usertest_damage \/ usertest_map \/ syscall
    BY <2>12, UserFrames
  <2>13. CASE UNCHANGED vars
    BY <2>13, StutterFrames
  <2> QED
    BY <2>1, <2>2, <2>3, <2>4, <2>5, <2>6, <2>7, <2>8, <2>9, <2>10, <2>11, <2>12, <2>13
       DEF Next
<1> QED
  BY <1>1, <1>2 DEF IInv, FramesInv

LEMMA IInvHolds == Spec => []IInv
  BY InitIInv, NextIInv, PTL DEF Spec

-----------------------------------------------------------------------------
(* Theorems. *)

\* For every memory map and every size of the heap, each variable keeps its type:
\* the heap pointer stays below the end of the heap, and the counter of used pages
\* neither below 0 nor above the number of frames, through all failures.
THEOREM TypesHold == Spec => []TypeOK
<1>1. IInv => TypeOK
  BY DEF IInv
<1> QED
  BY <1>1, IInvHolds, PTL

\* For every memory map: the counter meminfo prints is the number of bits set in
\* the bitmap, after pmm_init and every allocation, failed walk and free.
THEOREM CounterRight == Spec => []CountMatches
<1>1. IInv => CountMatches
  BY DEF IInv
<1> QED
  BY <1>1, IInvHolds, PTL

\* The frames of the tables and pages, in the words of the properties.
LEMMA PlacedFrames ==
  ASSUME IInv
  PROVE  Placed = {table[t] : t \in {t \in Tables : table[t] # 0}}
                    \cup {pte[v] : v \in {v \in Pages : pte[v] # 0}}
<1>1. \A t : FrameOf(<<"table", t>>) = table[t]
  BY DEF FrameOf
<1>2. \A v : FrameOf(<<"page", v>>) = pte[v]
  BY DEF FrameOf
<1>3. ASSUME NEW f \in Placed
      PROVE  f \in {table[t] : t \in {t \in Tables : table[t] # 0}}
                     \cup {pte[v] : v \in {v \in Pages : pte[v] # 0}}
  <2>1. PICK x \in Uses : f = FrameOf(x)
    BY <1>3 DEF Placed
  <2> QED
    BY <1>1, <1>2, <2>1 DEF Uses
<1>4. ASSUME NEW t \in Tables, table[t] # 0 PROVE table[t] \in Placed
  <2>1. <<"table", t>> \in Uses
    BY <1>4 DEF Uses
  <2> QED
    BY <1>1, <2>1 DEF Placed
<1>5. ASSUME NEW v \in Pages, pte[v] # 0 PROVE pte[v] \in Placed
  <2>1. <<"page", v>> \in Uses
    BY <1>5 DEF Uses
  <2> QED
    BY <1>2, <2>1 DEF Placed
<1> QED
  BY <1>3, <1>4, <1>5

\* For every memory map and every order of the operations: no frame is used twice,
\* as two tables, two pages or one of each, and none that is in use is free in the
\* bitmap or belongs to the kernel.
THEOREM FramesApart == Spec => []NoFrameShared
<1>1. ASSUME IInv PROVE NoFrameShared
  <2>1. ASSUME NEW x \in Uses, NEW y \in Uses, FrameOf(x) = FrameOf(y) PROVE x = y
    <3>1. \/ \E t \in Tables : x = <<"table", t>> /\ table[t] # 0 /\ FrameOf(x) = table[t]
          \/ \E v \in Pages : x = <<"page", v>> /\ pte[v] # 0 /\ FrameOf(x) = pte[v]
      BY DEF Uses, FrameOf
    <3>2. \/ \E t \in Tables : y = <<"table", t>> /\ table[t] # 0 /\ FrameOf(y) = table[t]
          \/ \E v \in Pages : y = <<"page", v>> /\ pte[v] # 0 /\ FrameOf(y) = pte[v]
      BY DEF Uses, FrameOf
    <3> QED
      BY <1>1, <2>1, <3>1, <3>2 DEF IInv, Apart
  <2>2. Placed \subseteq used \ Reserved
    BY <1>1, PlacedFrames DEF IInv, Apart, Base
  <2>3. \A i \in DOMAIN held : held[i] \in used \ Reserved
    BY <1>1 DEF IInv, Apart, Base
  <2> QED
    BY <2>1, <2>2, <2>3 DEF NoFrameShared
<1> QED
  BY <1>1, IInvHolds, PTL

\* For every memory map: between operations, and unless an error message has been
\* printed, each used frame is behind a table or a page, was displaced by vmtest,
\* or was never free.
THEOREM NothingLost == Spec => []NoSilentLeak
<1>1. ASSUME IInv PROVE NoSilentLeak
  <2> SUFFICES ASSUME op = "none", ~error PROVE used = Base \cup Placed \cup displaced
    BY DEF NoSilentLeak, Base
  <2>1. DOMAIN held = {}
    BY <1>1 DEF IInv, Locals
  <2>2. used \subseteq Base \cup Placed \cup displaced
    <3> SUFFICES ASSUME NEW f \in used PROVE f \in Base \cup Placed \cup displaced
      OBVIOUS
    <3>1. CASE f = 0
      BY <3>1 DEF Base
    <3>2. CASE f # 0
      BY <1>1, <2>1, <3>2, PlacedFrames DEF IInv, Accounted
    <3> QED
      BY <3>1, <3>2
  <2>3. Base \cup Placed \cup displaced \subseteq used
    BY <1>1, PlacedFrames DEF IInv, Apart
  <2> QED
    BY <2>2, <2>3
<1> QED
  BY <1>1, IInvHolds, PTL

\* For every size of the heap and of its pages: the blocks kmalloc returns do not
\* overlap, end below the heap pointer, and their pages are mapped unless
\* vmm_map_page reported an error for them or vmtest has unmapped them.
THEOREM BlocksStayUsable == Spec => []BlocksUsable
<1>1. IInv => BlocksUsable
  BY DEF IInv
<1> QED
  BY <1>1, IInvHolds, PTL

\* For every size of the heap: a mapped page of the heap keeps its frame in every
\* step, except for the page vmtest works on in vmtest's own steps.
THEOREM HeapFramesKept == Spec => OnlyVmtestUnmaps
<1> DEFINE Keeps ==
      \A v \in HeapPages :
        pte[v] # 0 /\ pte'[v] # pte[v] =>
          v = HeapPage(VMTEST_PAGE) /\ op \in {"vmtest_map", "vmtest_unmap"}
<1>1. ASSUME IInv, [Next]_vars PROVE Keeps
  <2>0. /\ TypeOK /\ Apart /\ Reached /\ used \in SUBSET Frames
        /\ HeapPages \subseteq Pages /\ pte \in [Pages -> Frames]
    BY <1>1 DEF IInv, TypeOK, Pages
  <2>1. CASE pte' = pte
    BY <2>1
  <2>2. CASE kmalloc_page
    <3>1. CASE vmm_virt_to_phys(HeapPage(page)) = 0 /\ pmm_alloc_page(used) # 0
      <4>1. PICK f, v : f = pmm_alloc_page(used) /\ v = HeapPage(page)
        OBVIOUS
      <4>2. /\ v \in Pages /\ f \in Frames /\ used \cup {f} \in SUBSET Frames
            /\ vmm_map_page(used \cup {f}, v, f)
        BY <1>1, <2>2, <3>1, <4>1, KmallocMaps
      <4>3. pte[v] = 0
        BY <2>0, <3>1, <4>1, <4>2 DEF Reached, vmm_virt_to_phys
      <4>4. pte' = [pte EXCEPT ![v] = f] \/ pte' = pte
        <5>1. used \subseteq used \cup {f}
          OBVIOUS
        <5> QED
          BY <2>0, <4>2, <5>1, MapPage
      <4> QED
        BY <2>0, <4>2, <4>3, <4>4
    <3>2. CASE ~(vmm_virt_to_phys(HeapPage(page)) = 0 /\ pmm_alloc_page(used) # 0)
      BY <2>1, <2>2, <3>2 DEF kmalloc_page, vmm_vars
    <3> QED
      BY <3>1, <3>2
  <2>3. CASE vmtest_map
    <3>1. PICK f, v : f = held[1] /\ v = HeapPage(VMTEST_PAGE)
      OBVIOUS
    <3>2. v \in Pages /\ f \in Frames /\ vmm_map_page(used, v, f)
      BY <1>1, <2>3, <3>1, VmtestMaps
    <3>3. pte' = [pte EXCEPT ![v] = f] \/ pte' = pte
      BY <2>0, <3>2, MapPage
    <3> QED
      BY <2>0, <2>3, <3>1, <3>2, <3>3 DEF vmtest_map
  <2>4. CASE vmtest_unmap
    BY <2>0, <2>4 DEF vmtest_unmap, vmm_unmap_page
  <2>5. CASE memtest_map
    <3>1. CASE page < TEST_PAGES
      <4>1. PICK f, v : f = held[page + 1] /\ v = WindowPage(page)
        OBVIOUS
      <4>2. v \in Pages /\ f \in Frames /\ vmm_map_page(used, v, f)
        BY <1>1, <2>5, <3>1, <4>1, MemtestMaps
      <4>3. pte' = [pte EXCEPT ![v] = f] \/ pte' = pte
        BY <2>0, <4>2, MapPage
      <4>4. \A x \in HeapPages : x # v
        BY <4>1 DEF HeapPages, HeapPage, WindowPage
      <4> QED
        BY <2>0, <4>2, <4>3, <4>4
    <3>2. CASE ~(page < TEST_PAGES)
      BY <2>1, <2>5, <3>2 DEF memtest_map, vmm_vars
    <3> QED
      BY <3>1, <3>2
  <2>6. CASE memtest_unmap
    <3>1. \A x \in HeapPages : x # WindowPage(page)
      BY DEF HeapPages, HeapPage, WindowPage
    <3> QED
      BY <2>0, <2>6, <3>1 DEF memtest_unmap, vmm_unmap_page
  <2>7. CASE \/ \E n \in 0 .. MaxSize : kmalloc(n)
             \/ kmalloc_return \/ vmtest \/ memtest \/ memtest_alloc \/ memtest_free
             \/ usertest \/ usertest_stack \/ usertest_code \/ usertest_damage
             \/ usertest_map \/ syscall \/ UNCHANGED vars
    BY <2>1, <2>7 DEF kmalloc, kmalloc_return, vmtest, memtest, memtest_alloc, memtest_free,
         usertest, usertest_stack, usertest_code, usertest_damage, usertest_map, syscall,
         vars, vmm_vars
  <2> QED
    BY <1>1, <2>2, <2>3, <2>4, <2>5, <2>6, <2>7 DEF Next
<1>2. IInv /\ [Next]_vars => [Keeps]_vars
  BY <1>1
<1> QED
  BY <1>2, IInvHolds, PTL DEF Spec, OnlyVmtestUnmaps
=============================================================================
