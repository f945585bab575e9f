--------------------------- MODULE BootLoaderProofs ---------------------------
(***************************************************************************)
(* Proofs about the boot loader, for every layout of low memory in which   *)
(* the regions follow each other, every chunk size and every kernel that   *)
(* fits below the video memory, on machines whose A20 gate is open or can  *)
(* be opened by port 0x92: the kernel that starts is the one of the image, *)
(* after any number of boots, and loading it destroys neither the loader   *)
(* nor the memory map.                                                     *)
(***************************************************************************)
EXTENDS BootLoader, WellFoundedInduction, TLAPS

\* The first k sectors of the kernel lie at cell n.
KernelAt(n, k) == \A i \in 0 .. k - 1 : mem[n + i] = Disk(kernel_lba_start + i)

\* The code of stage 2 that is still executed after setup_paging.
Stage2Loaded == \A i \in 0 .. STAGE2_SECTORS - 2 : mem[STAGE2 + i] = Disk(1 + i)

\* How far the loader has come: the three counters of load_kernel_16 agree on the
\* number of sectors read, and what has been read is where they say.
Progress ==
  /\ pc \in {"stage2", "load", "protected"} => Stage2Loaded
  /\ pc = "stage2" => kernel_lba_current = kernel_lba_start
  /\ pc \in {"load", "protected"} => mem[MAP] = <<"map", 0>>
  /\ pc \in {"load", "protected", "long", "entry", "lost"} => (fast_a20 => a20)
  /\ pc = "lost" => ~ a20
  /\ pc = "load" =>
       /\ kernel_lba_current = kernel_lba_start + (kernel_sectors - cx)
       /\ bx = STAGING + (kernel_sectors - cx)
       /\ KernelAt(STAGING, kernel_sectors - cx)
  /\ pc = "protected" => KernelAt(STAGING, kernel_sectors)
  /\ pc \in {"long", "entry"} /\ a20 =>
       Stage2Loaded /\ mem[MAP] = <<"map", 0>> /\ KernelAt(MEGABYTE, kernel_sectors)

IInv == TypeOK /\ Progress

-----------------------------------------------------------------------------
(* Numbers. *)

\* The layout, one fact at a time.
LEMMA Layout ==
  /\ STAGE2 \in Nat /\ STAGE2 >= 1 /\ STAGE2_SECTORS \in Nat /\ STAGE2_SECTORS > 1
  /\ MAP \in Nat /\ STAGING \in Nat /\ STACK \in Nat /\ VIDEO \in Nat /\ MEGABYTE \in Nat
  /\ CHUNK \in Nat /\ CHUNK >= 1 /\ BSS \in Nat
  /\ kernel_lba_start \in Nat /\ kernel_lba_start > STAGE2_SECTORS
  /\ STAGE2 + STAGE2_SECTORS <= MAP /\ MAP < STAGING /\ STAGING < STACK
  /\ STACK <= VIDEO /\ VIDEO < MEGABYTE
  /\ \A k \in Sizes : k \in Nat /\ k >= 1 /\ k <= VIDEO - STAGING
BY LayoutAssumption, SizesAssumption

LEMMA Least ==
  ASSUME NEW S \in SUBSET Nat, S # {}
  PROVE  \E m \in S : \A k \in S : m <= k
<1> DEFINE R == OpToRel(<, Nat)
<1>1. \E m \in S : \A k \in S : ~ (<<k, m>> \in R)
  <2>1. IsWellFoundedOn(R, Nat)
    BY NatLessThanWellFounded
  <2> HIDE DEF R
  <2> QED
    BY <2>1, WFMin
<1>2. PICK m \in S : \A k \in S : ~ (<<k, m>> \in R)
  BY <1>1
<1>3. \A k \in S : ~(k < m)
  BY <1>2 DEF OpToRel
<1> QED
  BY <1>3

\* There is a largest kernel, for which memory has room.
LEMMA Room ==
  /\ Max(Sizes) \in Nat
  /\ \A k \in Sizes : k <= Max(Sizes)
  /\ \A k \in Sizes, i \in Nat : i < k + BSS => MEGABYTE + i \in Cells
  /\ 0 .. MEGABYTE \subseteq Cells
<1>0. VIDEO - STAGING \in Nat /\ \A k \in Sizes : k \in Nat /\ k >= 1 /\ k <= VIDEO - STAGING
  <2>1. \A k \in Sizes : k \in Nat /\ k >= 1 /\ k <= VIDEO - STAGING
    BY Layout
  <2>2. VIDEO - STAGING \in Nat
    BY Layout
  <2> QED
    BY <2>1, <2>2
<1>1. PICK B : B \in Nat /\ \A k \in Sizes : k \in Nat /\ k >= 1 /\ k <= B
  BY <1>0
<1> DEFINE T == {B - k : k \in Sizes}
<1>2. T \in SUBSET Nat /\ T # {}
  <2>1. \A k \in Sizes : B - k \in Nat
    BY <1>1
  <2>2. PICK k \in Sizes : TRUE
    BY SizesAssumption
  <2>3. B - k \in T
    OBVIOUS
  <2> QED
    BY <2>1, <2>3
<1>3. PICK m \in T : \A k \in T : m <= k
  BY <1>2, Least
<1>4. PICK x \in Sizes : m = B - x
  BY <1>3
<1>5. \A k \in Sizes : x >= k
  <2> SUFFICES ASSUME NEW k \in Sizes PROVE x >= k
    OBVIOUS
  <2>1. B - k \in T
    OBVIOUS
  <2> HIDE DEF T
  <2>2. B - x <= B - k
    BY <1>3, <1>4, <2>1
  <2> QED
    BY <1>1, <2>2
<1>6. Max(Sizes) \in Sizes /\ \A k \in Sizes : Max(Sizes) >= k
  <2>1. \E y \in Sizes : \A k \in Sizes : y >= k
    BY <1>5
  <2> QED
    BY <2>1 DEF Max
<1>7. Max(Sizes) \in Nat /\ Max(Sizes) >= 1 /\ \A k \in Sizes : k <= Max(Sizes)
  BY <1>1, <1>6
<1> HIDE DEF T
<1> QED
  BY <1>1, <1>7, Layout DEF Cells

\* The sectors of the next BIOS call.
LEMMA ChunkSize ==
  ASSUME cx \in Nat
  PROVE  chunk \in Nat /\ chunk <= cx
<1>1. CASE cx <= CHUNK
  <2>1. \E x \in {cx, CHUNK} : \A y \in {cx, CHUNK} : x <= y
    BY <1>1, Layout
  <2> QED
    BY <2>1, Layout DEF chunk, Min
<1>2. CASE CHUNK <= cx
  <2>1. \E x \in {cx, CHUNK} : \A y \in {cx, CHUNK} : x <= y
    BY <1>2, Layout
  <2> QED
    BY <2>1, Layout DEF chunk, Min
<1> QED
  BY <1>1, <1>2, Layout

\* A segment below one megabyte does not wrap.
LEMMA NoWrap ==
  ASSUME NEW a \in Nat, a < MEGABYTE
  PROVE  a % MEGABYTE = a
BY Layout

-----------------------------------------------------------------------------
(* Memory. *)

LEMMA StoredCell ==
  ASSUME NEW m, NEW n, NEW f, NEW a \in Cells
  PROVE  Stored(m, n, f)[a] =
           IF a - n \in DOMAIN f /\ a \notin VIDEO .. MEGABYTE - 1 THEN f[a - n] ELSE m[a]
BY DEF Stored

LEMMA StoredType ==
  ASSUME NEW V, NEW m \in [Cells -> V], NEW n, NEW D, NEW f \in [D -> V]
  PROVE  Stored(m, n, f) \in [Cells -> V]
BY DEF Stored

\* One cell is stored, outside of the ROM.
LEMMA StoredOne ==
  ASSUME NEW m, NEW n \in Int, NEW v, NEW a \in Cells
  PROVE  /\ a # n => Stored(m, n, One(v))[a] = m[a]
         /\ a = n /\ a \notin VIDEO .. MEGABYTE - 1 => Stored(m, n, One(v))[a] = v
<1>1. a \in Int
  BY Layout, Room DEF Cells
<1>2. (a - n \in {0}) <=> a = n
  BY <1>1
<1>3. DOMAIN One(v) = {0} /\ One(v)[0] = v
  BY DEF One
<1>4. a = n => a - n = 0
  BY <1>1
<1> QED
  BY <1>2, <1>3, <1>4, StoredCell

\* Sectors are stored at n .. n + k - 1.
LEMMA StoredInside ==
  ASSUME NEW m, NEW n \in Int, NEW k \in Int, NEW f, DOMAIN f = 0 .. k - 1,
         NEW i \in 0 .. k - 1, n + i \in Cells, n + i \notin VIDEO .. MEGABYTE - 1
  PROVE  Stored(m, n, f)[n + i] = f[i]
<1>1. (n + i) - n = i
  OBVIOUS
<1> QED
  BY <1>1, StoredCell

-----------------------------------------------------------------------------
(* The inductive invariant. *)

Values == {Disk(n) : n \in 0 .. image_sectors - 1} \cup Other

\* The state's numbers.
LEMMA Numbers ==
  ASSUME TypeOK
  PROVE  /\ kernel_sectors \in Nat /\ kernel_sectors >= 1
         /\ kernel_sectors <= VIDEO - STAGING /\ kernel_sectors \in Sizes
         /\ cx \in Nat /\ cx <= kernel_sectors
         /\ mem \in [Cells -> Values]
         /\ image_sectors \in Nat
BY Layout DEF TypeOK, image_sectors, Values

\* Steps that leave everything but the program counter alone keep the types.
LEMMA TypeKept ==
  ASSUME TypeOK, mem' = mem, UNCHANGED <<machine, regs>>, a20' \in BOOLEAN,
         pc' \in {"stage1", "stage2", "load", "protected", "long", "entry", "kernel", "halted"}
  PROVE  TypeOK'
BY DEF TypeOK, image_sectors, regs, machine

LEMMA InitIInv == Init => IInv
<1> SUFFICES ASSUME Init PROVE IInv
  OBVIOUS
<1>1. mem \in [Cells -> Values]
  BY DEF Init, Values, Other, Zero
<1>2. kernel_sectors \in Nat /\ kernel_sectors >= 1 /\ image_sectors = kernel_lba_start + kernel_sectors
  BY Layout DEF Init, image_sectors
<1>3. TypeOK
  BY <1>1, <1>2, Layout DEF Init, TypeOK, Values
<1>4. Progress
  BY DEF Init, Progress
<1> QED
  BY <1>3, <1>4 DEF IInv

LEMMA LoadStage2Step == IInv /\ load_stage2 => IInv'
<1> SUFFICES ASSUME IInv, load_stage2 PROVE IInv'
  OBVIOUS
<1> DEFINE f == [i \in 0 .. STAGE2_SECTORS - 1 |-> Disk(1 + i)]
<1>1. /\ pc' = "stage2" /\ mem' = Stored(mem, STAGE2, f) /\ a20' = a20 /\ fast_a20' = fast_a20
      /\ kernel_lba_current' = kernel_lba_start /\ kernel_sectors' = kernel_sectors
      /\ cx' = cx /\ bx' = bx /\ image_sectors' = image_sectors
  BY DEF load_stage2, machine, image_sectors
<1>2. /\ kernel_sectors \in Nat /\ mem \in [Cells -> Values] /\ image_sectors \in Nat
      /\ image_sectors = kernel_lba_start + kernel_sectors /\ TypeOK
  BY Numbers DEF IInv, image_sectors
<1>3. DOMAIN f = 0 .. STAGE2_SECTORS - 1 /\ \A i \in 0 .. STAGE2_SECTORS - 1 : f[i] = Disk(1 + i)
  OBVIOUS
<1>4. f \in [0 .. STAGE2_SECTORS - 1 -> Values]
  <2>1. \A i \in 0 .. STAGE2_SECTORS - 1 : 1 + i \in 0 .. image_sectors - 1
    BY <1>2, Layout
  <2>2. \A i \in 0 .. STAGE2_SECTORS - 1 : Disk(1 + i) \in Values
    BY <2>1 DEF Values
  <2> QED
    BY <2>2
<1> HIDE DEF f
<1>5. mem' \in [Cells -> Values]
  BY <1>1, <1>2, <1>4, StoredType
<1>6. TypeOK'
  <2>1. kernel_lba_current' \in kernel_lba_start .. image_sectors
    BY <1>1, <1>2, Layout
  <2> QED
    BY <1>1, <1>2, <1>5, <2>1 DEF TypeOK, Values
<1>7. ASSUME NEW i \in 0 .. STAGE2_SECTORS - 2 PROVE mem'[STAGE2 + i] = Disk(1 + i)
  <2>1. /\ STAGE2 + i \in Cells /\ STAGE2 + i \notin VIDEO .. MEGABYTE - 1
        /\ i \in 0 .. STAGE2_SECTORS - 1
        /\ STAGE2 \in Int /\ STAGE2_SECTORS \in Int
    BY Layout, Room
  <2>2. Stored(mem, STAGE2, f)[STAGE2 + i] = f[i]
    BY <1>3, <2>1, StoredInside
  <2> QED
    BY <1>1, <1>3, <2>1, <2>2
<1>8. Progress'
  BY <1>1, <1>7 DEF Progress, Stage2Loaded
<1> QED
  BY <1>6, <1>8 DEF IInv

LEMMA Stage2StartStep == IInv /\ stage2_start => IInv'
<1> SUFFICES ASSUME IInv, stage2_start PROVE IInv'
  OBVIOUS
<1>1. /\ pc = "stage2" /\ pc' = "load" /\ mem' = Stored(mem, MAP, One(<<"map", 0>>))
      /\ cx' = kernel_sectors /\ bx' = STAGING /\ kernel_sectors' = kernel_sectors
      /\ kernel_lba_current' = kernel_lba_current /\ image_sectors' = image_sectors
  BY DEF stage2_start, machine, image_sectors
<1>2. a20' \in BOOLEAN /\ fast_a20' \in BOOLEAN /\ (fast_a20' => a20')
  <2>1. a20' = (a20 \/ fast_a20) /\ fast_a20' = fast_a20 /\ fast_a20 \in BOOLEAN
    BY DEF stage2_start, enable_a20, machine, IInv, TypeOK
  <2> QED
    BY <2>1, Zenon
<1>3. /\ TypeOK /\ kernel_sectors \in Nat /\ mem \in [Cells -> Values]
      /\ kernel_lba_current = kernel_lba_start
      /\ \A i \in 0 .. STAGE2_SECTORS - 2 : mem[STAGE2 + i] = Disk(1 + i)
  BY <1>1, Numbers DEF IInv, Progress, Stage2Loaded
<1>4. mem' \in [Cells -> Values]
  <2>1. One(<<"map", 0>>) \in [{0} -> Values]
    BY DEF One, Values, Other
  <2> QED
    BY <1>1, <1>3, <2>1, StoredType
<1>5. TypeOK'
  BY <1>1, <1>2, <1>3, <1>4, Layout DEF TypeOK, Values
<1>6. mem'[MAP] = <<"map", 0>>
  <2>1. MAP \in Cells /\ MAP \in Int /\ MAP \notin VIDEO .. MEGABYTE - 1
    BY Layout, Room
  <2> QED
    BY <1>1, <2>1, StoredOne
<1>7. ASSUME NEW i \in 0 .. STAGE2_SECTORS - 2 PROVE mem'[STAGE2 + i] = Disk(1 + i)
  <2>1. STAGE2 + i \in Cells /\ STAGE2 + i # MAP /\ MAP \in Int
    BY Layout, Room
  <2> QED
    BY <1>1, <1>3, <2>1, StoredOne
<1>8. kernel_sectors' - cx' = 0
  BY <1>1, <1>3
<1>9. Progress'
  BY <1>1, <1>2, <1>3, <1>6, <1>7, <1>8, Layout DEF Progress, Stage2Loaded, KernelAt
<1> QED
  BY <1>5, <1>9 DEF IInv

LEMMA LoadNextStep == IInv /\ load_next => IInv'
<1> SUFFICES ASSUME IInv, load_next PROVE IInv'
  OBVIOUS
<1>0. TypeOK /\ Progress
  BY DEF IInv
<1>1. PICK c, k, b, l : /\ c = chunk /\ k = kernel_sectors - cx
                        /\ b = bx /\ l = kernel_lba_current
  OBVIOUS
<1> DEFINE f == [i \in 0 .. c - 1 |-> Disk(l + i)]
<1>2. /\ kernel_sectors \in Nat /\ kernel_sectors <= VIDEO - STAGING
      /\ cx \in Nat /\ cx <= kernel_sectors /\ mem \in [Cells -> Values]
      /\ image_sectors = kernel_lba_start + kernel_sectors /\ a20 \in BOOLEAN
  BY <1>0, Numbers DEF image_sectors, TypeOK
<1>3. c \in Nat /\ c <= cx
  BY <1>1, <1>2, ChunkSize
<1>4. /\ pc = "load" /\ pc' = "load" /\ mem' = Stored(mem, b, f)
      /\ bx' = (b + c) % MEGABYTE /\ kernel_lba_current' = l + c
      /\ cx' = cx - c /\ kernel_sectors' = kernel_sectors /\ a20' = a20
      /\ image_sectors' = image_sectors /\ fast_a20' = fast_a20
  BY <1>1 DEF load_next, next_segment, machine, image_sectors
<1>5. /\ (fast_a20 => a20) /\ mem[MAP] = <<"map", 0>> /\ l = kernel_lba_start + k
      /\ b = STAGING + k
      /\ \A i \in 0 .. k - 1 : mem[STAGING + i] = Disk(kernel_lba_start + i)
      /\ \A i \in 0 .. STAGE2_SECTORS - 2 : mem[STAGE2 + i] = Disk(1 + i)
  BY <1>0, <1>1, <1>4 DEF Progress, KernelAt, Stage2Loaded
<1>6. /\ k \in Nat /\ b \in Nat /\ l \in Nat /\ k + c <= kernel_sectors
      /\ b + c <= VIDEO /\ b + c < MEGABYTE
      /\ l + c <= kernel_lba_start + kernel_sectors
      /\ kernel_sectors' - cx' = k + c
  BY <1>1, <1>2, <1>3, <1>4, <1>5, Layout
<1>7. bx' = STAGING + (k + c)
  <2>1. b + c \in Nat
    BY <1>3, <1>6
  <2>2. (b + c) % MEGABYTE = b + c
    BY <1>6, <2>1, NoWrap
  <2>3. bx' = b + c /\ b = STAGING + k
    BY <1>4, <1>5, <2>2
  <2> QED
    BY <1>3, <1>6, <2>3, Layout
<1>8. DOMAIN f = 0 .. c - 1 /\ \A i \in 0 .. c - 1 : f[i] = Disk(l + i)
  OBVIOUS
<1>9. f \in [0 .. c - 1 -> Values]
  <2>1. \A i \in 0 .. c - 1 : l + i \in 0 .. image_sectors - 1
    BY <1>2, <1>3, <1>6, Layout
  <2>2. \A i \in 0 .. c - 1 : Disk(l + i) \in Values
    BY <2>1 DEF Values
  <2> QED
    BY <2>2
<1> HIDE DEF f
<1>10. mem' \in [Cells -> Values]
  BY <1>2, <1>4, <1>9, StoredType
<1>11. TypeOK'
  <2>1. kernel_lba_current' \in kernel_lba_start .. image_sectors
    BY <1>2, <1>3, <1>4, <1>5, <1>6, Layout
  <2>2. cx' \in 0 .. kernel_sectors /\ bx' \in STAGING .. VIDEO
    BY <1>2, <1>3, <1>4, <1>5, <1>6, <1>7, Layout
  <2> QED
    BY <1>0, <1>4, <1>10, <2>1, <2>2 DEF TypeOK, Values
<1>12. ASSUME NEW a \in Cells, a < STAGING + k PROVE mem'[a] = mem[a]
  <2>1. a \notin b .. b + c - 1
    BY <1>3, <1>5, <1>6, <1>12, Layout, Room DEF Cells
  <2>2. b \in Int /\ c \in Int
    BY <1>3, <1>6
  <2>3. DOMAIN f = 0 .. c - 1
    BY <1>8
  <2>4. a - b \notin DOMAIN f
    <3>1. a \in Int
      BY Layout, Room DEF Cells
    <3> QED
      BY <2>1, <2>2, <2>3, <3>1
  <2>5. Stored(mem, b, f)[a] = mem[a]
    BY <2>2, <2>4, StoredCell
  <2> QED
    BY <1>4, <2>5
<1>13. ASSUME NEW i \in 0 .. k + c - 1 PROVE mem'[STAGING + i] = Disk(kernel_lba_start + i)
  <2>1. STAGING + i \in Cells /\ STAGING + i \notin VIDEO .. MEGABYTE - 1
    BY <1>2, <1>3, <1>6, Layout, Room
  <2>2. CASE i < k
    <3>1. STAGING + i < STAGING + k /\ i \in 0 .. k - 1
      BY <1>3, <1>6, <2>2, Layout
    <3> QED
      BY <1>5, <1>12, <2>1, <3>1
  <2>3. CASE i >= k
    <3>1. PICK j : j = i - k
      OBVIOUS
    <3>2. j \in 0 .. c - 1 /\ b + j = STAGING + i /\ l + j = kernel_lba_start + i
          /\ b \in Int /\ c \in Int
      BY <1>3, <1>5, <1>6, <2>3, <3>1, Layout
    <3>3. b + j \in Cells /\ b + j \notin VIDEO .. MEGABYTE - 1
      BY <2>1, <3>2
    <3>4. DOMAIN f = 0 .. c - 1
      BY <1>8
    <3>5. Stored(mem, b, f)[b + j] = f[j]
      <4>1. j \in 0 .. c - 1 /\ b \in Int /\ c \in Int
        BY <3>2
      <4>2. PICK a : a = b + j
        OBVIOUS
      <4>3. a - b = j
        BY <4>1, <4>2
      <4>4. a \in Cells /\ a \notin VIDEO .. MEGABYTE - 1
        BY <3>3, <4>2
      <4>5. a - b \in DOMAIN f
        BY <3>4, <4>1, <4>3
      <4>6. Stored(mem, b, f)[a] = f[a - b]
        BY <4>4, <4>5, StoredCell
      <4> QED
        BY <4>2, <4>3, <4>6
    <3>6. f[j] = Disk(l + j)
      BY <1>8, <3>2
    <3>7. mem'[b + j] = Disk(l + j)
      BY <1>4, <3>5, <3>6
    <3> QED
      BY <3>2, <3>7
  <2> QED
    BY <1>6, <2>2, <2>3
<1>14. mem'[MAP] = <<"map", 0>>
  <2>1. MAP \in Cells /\ MAP < STAGING + k
    BY <1>6, Layout, Room
  <2> QED
    BY <1>5, <1>12, <2>1
<1>15. ASSUME NEW i \in 0 .. STAGE2_SECTORS - 2 PROVE mem'[STAGE2 + i] = Disk(1 + i)
  <2>1. STAGE2 + i \in Cells /\ STAGE2 + i < STAGING + k
    BY <1>6, Layout, Room
  <2> QED
    BY <1>5, <1>12, <2>1
<1>16. kernel_lba_current' = kernel_lba_start + (k + c)
  BY <1>3, <1>4, <1>5, <1>6, Layout
<1>17. Progress'
  <2>1. Stage2Loaded'
    BY <1>15 DEF Stage2Loaded
  <2>2. KernelAt(STAGING, kernel_sectors - cx)'
    <3>1. \A i \in 0 .. (k + c) - 1 : mem'[STAGING + i] = Disk(kernel_lba_start + i)
      <4>1. (k + c) - 1 = k + c - 1
        BY <1>3, <1>6
      <4> QED
        BY <1>13, <4>1
    <3> QED
      BY <1>6, <3>1 DEF KernelAt
  <2>3. fast_a20' => a20'
    BY <1>4, <1>5
  <2>4. kernel_lba_current' = kernel_lba_start + (kernel_sectors' - cx')
    BY <1>6, <1>16
  <2>5. bx' = STAGING + (kernel_sectors' - cx')
    BY <1>6, <1>7
  <2> HIDE DEF Stage2Loaded, KernelAt
  <2> QED
    BY <1>4, <1>14, <2>1, <2>2, <2>3, <2>4, <2>5 DEF Progress
<1> QED
  BY <1>11, <1>17 DEF IInv

\* A value that is stored outside of the loader's code, the memory map and the
\* kernel at one megabyte damages none of them.
LEMMA Harmless ==
  ASSUME NEW m, NEW w, NEW n \in Int, NEW v, w = Stored(m, n, One(v)),
         n < MEGABYTE, n # MAP, n \notin STAGE2 .. STAGE2 + STAGE2_SECTORS - 2,
         kernel_sectors \in Sizes
  PROVE  /\ \A i \in 0 .. STAGE2_SECTORS - 2 : w[STAGE2 + i] = m[STAGE2 + i]
         /\ w[MAP] = m[MAP]
         /\ \A i \in 0 .. kernel_sectors - 1 : w[MEGABYTE + i] = m[MEGABYTE + i]
<1>1. ASSUME NEW i \in 0 .. STAGE2_SECTORS - 2 PROVE w[STAGE2 + i] = m[STAGE2 + i]
  <2>1. STAGE2 + i \in Cells /\ STAGE2 + i # n
    BY Layout, Room
  <2> QED
    BY <2>1, StoredOne
<1>2. w[MAP] = m[MAP]
  <2>1. MAP \in Cells
    BY Layout, Room
  <2> QED
    BY <2>1, StoredOne
<1>3. ASSUME NEW i \in 0 .. kernel_sectors - 1 PROVE w[MEGABYTE + i] = m[MEGABYTE + i]
  <2>1. i \in Nat /\ i < kernel_sectors + BSS /\ MEGABYTE + i # n
    BY Layout
  <2>2. MEGABYTE + i \in Cells
    BY <2>1, Room
  <2> QED
    BY <2>1, <2>2, StoredOne
<1> QED
  BY <1>1, <1>2, <1>3

LEMMA OneType ==
  ASSUME NEW m \in [Cells -> Values], NEW n, NEW w \in {"stack", "table", "dirty"}
  PROVE  Stored(m, n, One(<<w, 0>>)) \in [Cells -> Values]
<1>1. One(<<w, 0>>) \in [{0} -> Values]
  BY DEF One, Values, Other
<1> QED
  BY <1>1, StoredType

LEMMA ProtectedStep == IInv /\ protected_mode_entry => IInv'
<1> SUFFICES ASSUME IInv, protected_mode_entry PROVE IInv'
  OBVIOUS
<1>0. TypeOK /\ Progress
  BY DEF IInv
<1> DEFINE f == [i \in 0 .. kernel_sectors - 1 |-> mem[STAGING + i]]
<1>1. PICK m1, m2, m3 : m1 = Copied(mem) /\ m2 = Pushed(m1) /\ m3 = Tables(m2)
  OBVIOUS
<1>2. /\ kernel_sectors \in Nat /\ kernel_sectors \in Sizes
      /\ kernel_sectors <= VIDEO - STAGING /\ mem \in [Cells -> Values]
  BY <1>0, Numbers
<1>3. /\ pc = "protected" /\ pc' \in {"long", "lost"} /\ mem' = m3 /\ a20' = a20
      /\ kernel_sectors' = kernel_sectors /\ UNCHANGED <<kernel_lba_current, cx, bx>>
      /\ image_sectors' = image_sectors /\ fast_a20' = fast_a20 /\ (a20 => pc' = "long")
  BY <1>1 DEF protected_mode_entry, protected_mode, regs, machine, image_sectors
<1>4. /\ (fast_a20 => a20) /\ mem[MAP] = <<"map", 0>>
      /\ \A i \in 0 .. kernel_sectors - 1 : mem[STAGING + i] = Disk(kernel_lba_start + i)
      /\ \A i \in 0 .. STAGE2_SECTORS - 2 : mem[STAGE2 + i] = Disk(1 + i)
  BY <1>0, <1>3 DEF Progress, KernelAt, Stage2Loaded
<1>5. m1 = Stored(mem, kernel_cell, f)
  BY <1>1 DEF Copied
<1>6. DOMAIN f = 0 .. kernel_sectors - 1 /\ f \in [0 .. kernel_sectors - 1 -> Values]
  <2>1. \A i \in 0 .. kernel_sectors - 1 : STAGING + i \in Cells
    BY <1>2, Layout, Room
  <2> QED
    BY <1>2, <2>1
<1>7. \A i \in 0 .. kernel_sectors - 1 : f[i] = Disk(kernel_lba_start + i)
  BY <1>4
<1> HIDE DEF f
<1>8. m1 \in [Cells -> Values]
  BY <1>2, <1>5, <1>6, StoredType
<1>9. m2 = Stored(m1, STACK - 1, One(<<"stack", 0>>))
      /\ m3 = Stored(m2, STAGE2 + STAGE2_SECTORS - 1, One(<<"table", 0>>))
  BY <1>1 DEF Pushed, Tables
<1>10. m2 \in [Cells -> Values]
  BY <1>8, <1>9, OneType
<1>11. m3 \in [Cells -> Values]
  BY <1>9, <1>10, OneType
<1>12. TypeOK'
  BY <1>0, <1>3, <1>11 DEF TypeOK, Values
<1>13. CASE a20
  <2>1. m1 = Stored(mem, MEGABYTE, f)
    BY <1>5, <1>13 DEF kernel_cell
  <2>2. ASSUME NEW a \in Cells, a < MEGABYTE PROVE m1[a] = mem[a]
    <3>1. a \notin MEGABYTE .. MEGABYTE + kernel_sectors - 1
      BY <1>2, <2>2, Layout, Room DEF Cells
    <3>2. MEGABYTE \in Int /\ kernel_sectors \in Int
      BY <1>2, Layout
    <3>3. DOMAIN f = 0 .. kernel_sectors - 1
      BY <1>6
    <3>4. a - MEGABYTE \notin DOMAIN f
      <4>1. a \in Int
        BY Layout, Room DEF Cells
      <4> QED
        BY <3>1, <3>2, <3>3, <4>1
    <3>5. Stored(mem, MEGABYTE, f)[a] = mem[a]
      BY <3>2, <3>4, StoredCell
    <3> QED
      BY <2>1, <3>5
  <2>3. ASSUME NEW i \in 0 .. kernel_sectors - 1 PROVE m1[MEGABYTE + i] = Disk(kernel_lba_start + i)
    <3>1. i \in Nat /\ i < kernel_sectors + BSS
      BY <1>2, Layout
    <3>2. MEGABYTE + i \in Cells /\ MEGABYTE + i \notin VIDEO .. MEGABYTE - 1
      BY <1>2, <3>1, Layout, Room
    <3>3. MEGABYTE \in Int /\ kernel_sectors \in Int
      BY <1>2, Layout
    <3>4. DOMAIN f = 0 .. kernel_sectors - 1
      BY <1>6
    <3>5. Stored(mem, MEGABYTE, f)[MEGABYTE + i] = f[i]
      BY <3>2, <3>3, <3>4, StoredInside
    <3> QED
      BY <1>7, <2>1, <3>5
  <2>4. ASSUME NEW i \in 0 .. STAGE2_SECTORS - 2 PROVE m1[STAGE2 + i] = Disk(1 + i)
    <3>1. STAGE2 + i \in Cells /\ STAGE2 + i < MEGABYTE
      BY Layout, Room
    <3> QED
      BY <1>4, <2>2, <3>1
  <2>5. m1[MAP] = <<"map", 0>>
    <3>1. MAP \in Cells /\ MAP < MEGABYTE
      BY Layout, Room
    <3> QED
      BY <1>4, <2>2, <3>1
  <2>6. /\ \A i \in 0 .. STAGE2_SECTORS - 2 : m2[STAGE2 + i] = m1[STAGE2 + i]
        /\ m2[MAP] = m1[MAP]
        /\ \A i \in 0 .. kernel_sectors - 1 : m2[MEGABYTE + i] = m1[MEGABYTE + i]
    <3>1. /\ STACK - 1 \in Int /\ STACK - 1 < MEGABYTE /\ STACK - 1 # MAP
          /\ STACK - 1 \notin STAGE2 .. STAGE2 + STAGE2_SECTORS - 2
      BY Layout
    <3> QED
      BY <1>2, <1>9, <3>1, Harmless
  <2>7. /\ \A i \in 0 .. STAGE2_SECTORS - 2 : m3[STAGE2 + i] = m2[STAGE2 + i]
        /\ m3[MAP] = m2[MAP]
        /\ \A i \in 0 .. kernel_sectors - 1 : m3[MEGABYTE + i] = m2[MEGABYTE + i]
    <3>1. PICK n : n = STAGE2 + STAGE2_SECTORS - 1
      OBVIOUS
    <3>2. n \in Int /\ n < MEGABYTE /\ n # MAP /\ n \notin STAGE2 .. STAGE2 + STAGE2_SECTORS - 2
      BY <3>1, Layout
    <3>3. m3 = Stored(m2, n, One(<<"table", 0>>))
      BY <1>9, <3>1
    <3> QED
      BY <1>2, <3>2, <3>3, Harmless
  <2>8. Progress'
    BY <1>3, <1>4, <1>13, <2>3, <2>4, <2>5, <2>6, <2>7 DEF Progress, KernelAt, Stage2Loaded
  <2> QED
    BY <1>12, <2>8 DEF IInv
<1>14. CASE ~ a20
  <2>1. Progress'
    BY <1>3, <1>4, <1>14 DEF Progress
  <2> QED
    BY <1>12, <2>1 DEF IInv
<1> QED
  BY <1>13, <1>14

LEMMA LongStep == IInv /\ long_mode_entry => IInv'
<1> SUFFICES ASSUME IInv, long_mode_entry PROVE IInv'
  OBVIOUS
<1>0. TypeOK /\ Progress
  BY DEF IInv
<1>1. /\ pc = "long" /\ pc' = "entry" /\ mem' = Stored(mem, STACK - 1, One(<<"stack", 0>>))
      /\ a20' = a20 /\ kernel_sectors' = kernel_sectors /\ UNCHANGED <<kernel_lba_current, cx, bx>>
      /\ image_sectors' = image_sectors /\ fast_a20' = fast_a20
  BY DEF long_mode_entry, Pushed, regs, machine, image_sectors
<1>2. kernel_sectors \in Sizes /\ mem \in [Cells -> Values]
  BY <1>0, Numbers
<1>3. mem' \in [Cells -> Values]
  BY <1>1, <1>2, OneType
<1>4. TypeOK'
  BY <1>0, <1>1, <1>3 DEF TypeOK, Values
<1>5. /\ \A i \in 0 .. STAGE2_SECTORS - 2 : mem'[STAGE2 + i] = mem[STAGE2 + i]
      /\ mem'[MAP] = mem[MAP]
      /\ \A i \in 0 .. kernel_sectors - 1 : mem'[MEGABYTE + i] = mem[MEGABYTE + i]
  <2>1. /\ STACK - 1 \in Int /\ STACK - 1 < MEGABYTE /\ STACK - 1 # MAP
        /\ STACK - 1 \notin STAGE2 .. STAGE2 + STAGE2_SECTORS - 2
    BY Layout
  <2> QED
    BY <1>1, <1>2, <2>1, Harmless
<1>6. Progress'
  BY <1>0, <1>1, <1>5 DEF Progress, KernelAt, Stage2Loaded
<1> QED
  BY <1>4, <1>6 DEF IInv

LEMMA KernelMainStep == IInv /\ kernel_main => IInv'
<1> SUFFICES ASSUME IInv, kernel_main PROVE IInv'
  OBVIOUS
<1>1. PICK i \in 0 .. kernel_sectors + BSS - 1 :
        mem' = Stored(mem, kernel_cell + i, One(<<"dirty", 0>>))
  BY DEF kernel_main
<1>2. /\ pc' = "kernel" /\ a20' = a20 /\ kernel_sectors' = kernel_sectors /\ fast_a20' = fast_a20
      /\ UNCHANGED <<kernel_lba_current, cx, bx>> /\ image_sectors' = image_sectors
  BY DEF kernel_main, regs, machine, image_sectors
<1>3. TypeOK /\ mem \in [Cells -> Values]
  BY Numbers DEF IInv
<1>4. mem' \in [Cells -> Values]
  BY <1>1, <1>3, OneType
<1>5. TypeOK'
  BY <1>2, <1>3, <1>4 DEF TypeOK, Values
<1>6. Progress'
  BY <1>2 DEF Progress
<1> QED
  BY <1>5, <1>6 DEF IInv

\* Steps of the program counter alone.
LEMMA JumpStep ==
  ASSUME IInv, \/ disk_error \/ load_disk_error \/ enter_protected_mode \/ kernel_start
               \/ cmd_reboot
  PROVE  IInv'
<1>0. TypeOK /\ Progress
  BY DEF IInv
<1>1. /\ mem' = mem /\ UNCHANGED <<machine, regs>>
      /\ pc' \in {"stage1", "protected", "kernel", "halted"}
  BY DEF disk_error, load_disk_error, enter_protected_mode, kernel_start, cmd_reboot
<1>2. a20' \in BOOLEAN
  <2>1. a20' = a20 \/ a20' \in BOOLEAN
    BY DEF disk_error, load_disk_error, enter_protected_mode, kernel_start, cmd_reboot
  <2> QED
    BY <1>0, <2>1 DEF TypeOK
<1>3. TypeOK'
  BY <1>0, <1>1, <1>2, TypeKept
<1>4. CASE pc' # "protected"
  <2>1. Progress'
    BY <1>1, <1>4 DEF Progress
  <2> QED
    BY <1>3, <2>1 DEF IInv
<1>5. CASE pc' = "protected"
  <2>1. pc = "load" /\ cx = 0 /\ a20' = a20
    BY <1>5 DEF disk_error, load_disk_error, enter_protected_mode, kernel_start, cmd_reboot,
         done_loading
  <2>2. kernel_sectors - cx = kernel_sectors
    BY <1>0, <2>1, Numbers
  <2>3. Progress'
    BY <1>0, <1>1, <1>5, <2>1, <2>2 DEF Progress, KernelAt, Stage2Loaded, machine
  <2> QED
    BY <1>3, <2>3 DEF IInv
<1> QED
  BY <1>4, <1>5

LEMMA NextIInv == IInv /\ [Next]_vars => IInv'
<1> SUFFICES ASSUME IInv, [Next]_vars PROVE IInv'
  OBVIOUS
<1>1. CASE load_stage2
  BY <1>1, LoadStage2Step
<1>2. CASE stage2_start
  BY <1>2, Stage2StartStep
<1>3. CASE load_next
  BY <1>3, LoadNextStep
<1>4. CASE protected_mode_entry
  BY <1>4, ProtectedStep
<1>5. CASE long_mode_entry
  BY <1>5, LongStep
<1>6. CASE kernel_main
  BY <1>6, KernelMainStep
<1>7. CASE disk_error \/ load_disk_error \/ enter_protected_mode \/ kernel_start \/ cmd_reboot
  BY <1>7, JumpStep
<1>8. CASE UNCHANGED vars
  <2>1. TypeOK'
    BY <1>8 DEF IInv, TypeOK, vars, regs, machine, image_sectors
  <2>2. Progress'
    BY <1>8 DEF IInv, Progress, KernelAt, Stage2Loaded, vars, regs, machine
  <2> QED
    BY <2>1, <2>2 DEF IInv
<1> QED
  BY <1>1, <1>2, <1>3, <1>4, <1>5, <1>6, <1>7, <1>8 DEF Next, Boot

LEMMA IInvHolds == Spec => []IInv
  BY InitIInv, NextIInv, PTL DEF Spec

-----------------------------------------------------------------------------
(* Theorems. *)

\* For every layout and kernel size: the counters of load_kernel_16 stay in their
\* ranges, so that the segment register never wraps, and memory only ever holds
\* sectors of the image and what the loader and the kernel store.
THEOREM TypesHold == Spec => []TypeOK
<1>1. IInv => TypeOK
  BY DEF IInv
<1> QED
  BY <1>1, IInvHolds, PTL

\* For every layout, chunk size and kernel size, on every machine whose A20 gate is
\* open or can be opened by port 0x92, and after any number of reboots: the memory
\* entry.asm is reached with holds the kernel of the image.
THEOREM KernelArrives == Spec => []KernelIntact
<1>1. IInv => KernelIntact
  BY DEF IInv, Progress, KernelAt, KernelIntact, A20Available
<1> QED
  BY <1>1, IInvHolds, PTL

\* For every layout, chunk size and kernel size, on such a machine: loading the
\* kernel to one megabyte (and not, with the gate closed, to 0), pushing to the
\* stack inside the load buffer and building the page tables destroy neither the
\* code of stage 2 that is still needed nor the memory map.
THEOREM LoaderSurvives == Spec => []LoaderIntact
<1>1. IInv => LoaderIntact
  BY DEF IInv, Progress, Stage2Loaded, LoaderIntact, A20Available
<1> QED
  BY <1>1, IInvHolds, PTL
=============================================================================
