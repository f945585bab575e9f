-------------------------------- MODULE Memory --------------------------------
(***************************************************************************)
(* The memory managers of KiOS as they work together: the page-frame       *)
(* bitmap (pmm.c), the page tables (vmm.c), the bump allocator of the      *)
(* kernel heap (heap.c), and the shell commands that use them directly:    *)
(* vmtest, memtest and usertest.                                           *)
(*                                                                         *)
(* Only one task of the tree allocates memory, so operations follow each   *)
(* other; an operation is cut into its allocations, because each of them   *)
(* can be the one that finds no frame.                                     *)
(*                                                                         *)
(* A virtual page is <<region, n>>: the heap and the window memtest uses   *)
(* lie under different PML4 entries.  The tables of a region are named by  *)
(* the walk that reaches them; a page table maps PT_SPAN pages.  Low       *)
(* memory, where usertest puts its program, is mapped by the 2 MB pages of *)
(* the loader and has no page tables.                                      *)
(***************************************************************************)
EXTENDS Integers, Sequences, FiniteSets

CONSTANTS
  TotalPages,     \* page frames, 0 .. TotalPages - 1
  Usable,         \* frames in the type-1 entries of the memory map
  Reserved,       \* frames of the first megabyte, the kernel and the bitmap
  HEAP_PAGES,     \* HEAP_SIZE in pages
  PAGE_UNITS,     \* 16-byte units per page, kmalloc's granularity
  PT_SPAN,        \* pages per page table (512)
  TEST_PAGES,     \* pages memtest maps (50)
  VMTEST_PAGE,    \* the heap page vmtest maps (1)
  USER_CODE,      \* the frame at physical address USER_CODE_VADDR (4 MB)
  USER_STACK,     \* the frame at physical address USER_STACK_VADDR (8 MB)
  MaxSize,        \* largest kmalloc request, in units
  Commands        \* the shell commands that are run

Frames == 0 .. TotalPages - 1

ASSUME TotalPagesAssumption == TotalPages \in Nat \ {0}
ASSUME FramesAssumption     == Usable \subseteq Frames /\ Reserved \subseteq Frames
ASSUME FrameZeroAssumption  == 0 \in Reserved
ASSUME HeapAssumption       == /\ {HEAP_PAGES, PAGE_UNITS, PT_SPAN} \subseteq Nat \ {0}
                               /\ {TEST_PAGES, MaxSize} \subseteq Nat
                               /\ VMTEST_PAGE \in 1 .. HEAP_PAGES - 1
                               /\ VMTEST_PAGE < PT_SPAN
ASSUME CommandsAssumption   == Commands \subseteq {"vmtest", "memtest", "usertest"}
ASSUME UserAssumption       == {USER_CODE, USER_STACK} \subseteq Frames \ {0}
                               /\ USER_CODE # USER_STACK

HeapPage(n)   == <<"heap", n>>
WindowPage(n) == <<"window", n>>
HeapPages     == {HeapPage(n) : n \in 0 .. HEAP_PAGES - 1}
WindowPages   == {WindowPage(n) : n \in 0 .. TEST_PAGES - 1}
Pages         == HeapPages \cup WindowPages

\* The tables the walk to a page goes through, below the PML4 of the loader.
Pdpt(v) == <<v[1], "pdpt">>
Pd(v)   == <<v[1], "pd">>
Pt(v)   == <<v[1], "pt", v[2] \div PT_SPAN>>
Tables  == UNION {{Pdpt(v), Pd(v), Pt(v)} : v \in Pages}

HeapEnd == HEAP_PAGES * PAGE_UNITS

\* The pages usertest maps; the loader's page directory maps them to the
\* frames of the same number.
LowPages == {USER_CODE, USER_STACK}

VARIABLES
  used,              \* the set bits of the frame bitmap
  used_pages,
  table,             \* the frame of each table, 0 where the entry is not present
  pte,               \* the frame each page is mapped to, 0 if it is not present
  low,               \* the entries of LowPages in the loader's page directory
  low_word,          \* the first word of the frames they point to, as an entry
  heap_current_ptr,  \* in units from HEAP_START
  op,                \* the operation in progress
  size, page,        \* locals of kmalloc: the request and the loop variable
  held,              \* locals of vmtest and memtest: the frames they allocated
  blocks,            \* what kmalloc has returned (history)
  unmapped,          \* pages vmm_map_page gave up on or vmtest unmapped (history)
  displaced,         \* heap frames vmtest has mapped its own over (history)
  error              \* an error message has been printed (history)

pmm_vars   == <<used, used_pages>>
low_vars   == <<low, low_word>>
vmm_vars   == <<table, pte, low_vars>>
local_vars == <<size, page, held>>
vars == <<pmm_vars, vmm_vars, heap_current_ptr, op, local_vars, blocks, unmapped,
          displaced, error>>

-----------------------------------------------------------------------------
(* pmm.c *)

\* Everything is used at first; type-1 memory is freed and the first megabyte,
\* the kernel and the bitmap are taken again.  Each loop counts a page only if
\* its bit changes.
pmm_init ==
  /\ used = (Frames \ Usable) \cup Reserved
  /\ used_pages = TotalPages - Cardinality(Usable) + Cardinality(Usable \cap Reserved)

FreeFrames(u) == Frames \ u

\* pmm_alloc_page takes the lowest free frame; it returns 0 if there is none.
pmm_alloc_page(u) ==
  IF FreeFrames(u) = {} THEN 0
  ELSE CHOOSE f \in FreeFrames(u) : \A g \in FreeFrames(u) : f <= g

\* The bits and the counter after pmm_free_page, which looks at the bit first.
pmm_free_page_uncounted(f) ==
  /\ used' = used \ {f}
  /\ UNCHANGED used_pages

pmm_free_page(f) ==
  /\ used' = used \ {f}
  /\ used_pages' = IF f \in used THEN used_pages - 1 ELSE used_pages

-----------------------------------------------------------------------------
(* vmm.c *)

Present(v) == table[Pdpt(v)] # 0 /\ table[Pd(v)] # 0 /\ table[Pt(v)] # 0

\* vmm_virt_to_phys of the first byte of a page.
vmm_virt_to_phys(v) == IF Present(v) THEN pte[v] ELSE 0

\* One level of vmm_get_pte_flags with create set: a missing table costs a frame,
\* and the walk ends at the first one that cannot be had.
Walked(u, t, ok) == [used |-> u, table |-> t, ok |-> ok]

WithTable(w, t) ==
  LET f == pmm_alloc_page(w.used) IN
  IF ~w.ok \/ w.table[t] # 0 THEN w
  ELSE IF f = 0 THEN Walked(w.used, w.table, FALSE)
  ELSE Walked(w.used \cup {f}, [w.table EXCEPT ![t] = f], TRUE)

vmm_get_pte(u, v) ==
  WithTable(WithTable(WithTable(Walked(u, table, TRUE), Pdpt(v)), Pd(v)), Pt(v))

\* vmm_map_page(v, f) when the bitmap is u: it cannot report a failure, and the
\* tables made on the way to one stay.
vmm_map_page(u, v, f) ==
  LET w == vmm_get_pte(u, v) IN
  /\ used' = w.used
  /\ used_pages' = used_pages + Cardinality(w.used \ used)
  /\ table' = w.table
  /\ UNCHANGED low_vars
  /\ pte' = IF w.ok THEN [pte EXCEPT ![v] = f] ELSE pte
  /\ unmapped' = IF w.ok THEN unmapped \ {v} ELSE unmapped \cup {v}
  /\ error' = (error \/ ~w.ok)

vmm_unmap_page(v) == pte' = IF Present(v) THEN [pte EXCEPT ![v] = 0] ELSE pte

\* vmm_map_page of a low page with PAGE_USER.  Every entry of the walk is there;
\* the walk gives it PAGE_USER, does not look at PAGE_SIZE_2MB and takes what the
\* entry points to for a page table.
vmm_map_low(v, f) ==
  /\ low' = [low EXCEPT ![v].user = TRUE]
  /\ low_word' = [low_word EXCEPT ![low[v].frame] = f]

\* The frame the CPU finds: at a 2 MB page its walk is over.
Translated(v) == IF low[v].huge THEN low[v].frame ELSE low_word[low[v].frame]

-----------------------------------------------------------------------------
Init ==
  /\ pmm_init
  /\ table = [t \in Tables |-> 0]
  /\ pte = [v \in Pages |-> 0]
  /\ low = [v \in LowPages |-> [frame |-> v, huge |-> TRUE, user |-> FALSE]]
  /\ low_word = [v \in LowPages |-> 0]
  /\ heap_current_ptr = 0
  /\ op = "none"
  /\ size = 0
  /\ page = 0
  /\ held = <<>>
  /\ blocks = {}
  /\ unmapped = {}
  /\ displaced = {}
  /\ error = FALSE

\* Allocates a frame for the operation, or gives up with an error message.
AllocOr(next, message) ==
  LET f == pmm_alloc_page(used) IN
  IF f = 0
    THEN /\ op' = "none"
         /\ held' = <<>>
         /\ error' = (error \/ message)
         /\ UNCHANGED pmm_vars
    ELSE /\ op' = next
         /\ held' = Append(held, f)
         /\ used' = used \cup {f}
         /\ used_pages' = used_pages + 1
         /\ UNCHANGED error

-----------------------------------------------------------------------------
(* heap.c *)

\* A limit test that is off by one.
kmalloc_off_by_one(n) ==
  /\ op = "none"
  /\ \/ /\ n = 0 \/ heap_current_ptr + n > HeapEnd
        /\ UNCHANGED <<op, size, page>>
     \/ /\ n # 0 /\ heap_current_ptr + n <= HeapEnd
        /\ op' = "kmalloc"
        /\ size' = n
        /\ page' = heap_current_ptr \div PAGE_UNITS
  /\ UNCHANGED <<pmm_vars, vmm_vars, heap_current_ptr, held, blocks, unmapped,
                 displaced, error>>

\* kmalloc's tests: a request for nothing, or one that would reach the end of
\* the heap, gets NULL and changes nothing.
kmalloc(n) ==
  /\ op = "none"
  /\ \/ /\ n = 0 \/ heap_current_ptr + n >= HeapEnd
        /\ UNCHANGED <<op, size, page>>
     \/ /\ n # 0 /\ heap_current_ptr + n < HeapEnd
        /\ op' = "kmalloc"
        /\ size' = n
        /\ page' = heap_current_ptr \div PAGE_UNITS
  /\ UNCHANGED <<pmm_vars, vmm_vars, heap_current_ptr, held, blocks, unmapped,
                 displaced, error>>

\* The first page the loop does not visit: the end address rounded up.
end_page == (heap_current_ptr + size + PAGE_UNITS - 1) \div PAGE_UNITS

\* A loop that maps every page without asking whether it is mapped.
kmalloc_page_remapping ==
  LET f == pmm_alloc_page(used) IN
  /\ op = "kmalloc"
  /\ page < end_page
  /\ f # 0
  /\ vmm_map_page(used \cup {f}, HeapPage(page), f)
  /\ page' = page + 1
  /\ UNCHANGED <<heap_current_ptr, op, size, held, blocks, displaced>>

\* One page of the loop.  Without a frame kmalloc returns NULL; the pages it has
\* mapped stay mapped for the next call.
kmalloc_page ==
  LET f == pmm_alloc_page(used) IN
  /\ op = "kmalloc"
  /\ page < end_page
  /\ \/ /\ vmm_virt_to_phys(HeapPage(page)) # 0
        /\ page' = page + 1
        /\ UNCHANGED <<pmm_vars, vmm_vars, op, unmapped, error>>
     \/ /\ vmm_virt_to_phys(HeapPage(page)) = 0
        /\ f = 0
        /\ op' = "none"
        /\ UNCHANGED <<pmm_vars, vmm_vars, page, unmapped, error>>
     \/ /\ vmm_virt_to_phys(HeapPage(page)) = 0
        /\ f # 0
        /\ vmm_map_page(used \cup {f}, HeapPage(page), f)
        /\ page' = page + 1
        /\ UNCHANGED op
  /\ UNCHANGED <<heap_current_ptr, size, held, blocks, displaced>>

\* The return that forgets to move the heap pointer past the block.
kmalloc_return_unmoved ==
  /\ op = "kmalloc"
  /\ page >= end_page
  /\ blocks' = blocks \cup {[start |-> heap_current_ptr, size |-> size]}
  /\ op' = "none"
  /\ UNCHANGED <<pmm_vars, vmm_vars, heap_current_ptr, local_vars, unmapped,
                 displaced, error>>

kmalloc_return ==
  /\ op = "kmalloc"
  /\ page >= end_page
  /\ blocks' = blocks \cup {[start |-> heap_current_ptr, size |-> size]}
  /\ heap_current_ptr' = heap_current_ptr + size
  /\ op' = "none"
  /\ UNCHANGED <<pmm_vars, vmm_vars, local_vars, unmapped, displaced, error>>

\* Commands are run by the shell task, whose TCB kmalloc has put at the
\* beginning of the heap.
shell_runs(command) ==
  /\ command \in Commands
  /\ vmm_virt_to_phys(HeapPage(0)) # 0

-----------------------------------------------------------------------------
(* vmtest: allocate a frame, map it into the heap, use it, unmap and free it. *)

vmtest ==
  /\ op = "none"
  /\ shell_runs("vmtest")
  /\ AllocOr("vmtest_map", TRUE)
  /\ UNCHANGED <<vmm_vars, heap_current_ptr, size, page, blocks, unmapped, displaced>>

\* The page lies in the page table of the heap's first page, so that the walk
\* needs no frame and the write that follows cannot fault.
vmtest_map ==
  /\ op = "vmtest_map"
  /\ vmm_map_page(used, HeapPage(VMTEST_PAGE), held[1])
  /\ displaced' = displaced \cup ({vmm_virt_to_phys(HeapPage(VMTEST_PAGE))} \ {0})
  /\ op' = "vmtest_unmap"
  /\ UNCHANGED <<heap_current_ptr, local_vars, blocks>>

vmtest_unmap ==
  /\ op = "vmtest_unmap"
  /\ vmm_unmap_page(HeapPage(VMTEST_PAGE))
  /\ pmm_free_page(held[1])
  /\ op' = "none"
  /\ held' = <<>>
  /\ unmapped' = unmapped \cup {HeapPage(VMTEST_PAGE)}
  /\ UNCHANGED <<table, low_vars, heap_current_ptr, size, page, blocks, displaced, error>>

-----------------------------------------------------------------------------
(* memtest: TEST_PAGES frames are allocated, mapped one after the other, used,   *)
(* unmapped and freed.  The heap allocations at its end are calls of kmalloc.    *)

memtest ==
  /\ op = "none"
  /\ shell_runs("memtest")
  /\ op' = "memtest_alloc"
  /\ UNCHANGED <<pmm_vars, vmm_vars, heap_current_ptr, local_vars, blocks,
                 unmapped, displaced, error>>

memtest_alloc ==
  /\ op = "memtest_alloc"
  /\ IF Len(held) < TEST_PAGES
       THEN AllocOr("memtest_alloc", TRUE) /\ UNCHANGED page
       ELSE op' = "memtest_map" /\ page' = 0 /\ UNCHANGED <<pmm_vars, held, error>>
  /\ UNCHANGED <<vmm_vars, heap_current_ptr, size, blocks, unmapped, displaced>>

\* A mapping that cannot be read back ends the command, frames and all.
memtest_map ==
  /\ op = "memtest_map"
  /\ IF page < TEST_PAGES
       THEN /\ vmm_map_page(used, WindowPage(page), held[page + 1])
            /\ IF WindowPage(page) \in unmapped'
                 THEN op' = "none" /\ held' = <<>> /\ UNCHANGED page
                 ELSE page' = page + 1 /\ UNCHANGED <<op, held>>
       ELSE /\ op' = "memtest_unmap"
            /\ page' = 0
            /\ UNCHANGED <<pmm_vars, vmm_vars, held, unmapped, error>>
  /\ UNCHANGED <<heap_current_ptr, size, blocks, displaced>>

\* Variants of the last two loops: one that frees a frame before its page is
\* unmapped, and one that frees all frames but the last.
memtest_unmap_freeing ==
  /\ op = "memtest_unmap"
  /\ pmm_free_page(held[page + 1])
  /\ page' = page + 1
  /\ op' = IF page' < TEST_PAGES THEN "memtest_unmap" ELSE "memtest_free"
  /\ UNCHANGED <<vmm_vars, heap_current_ptr, size, held, blocks, unmapped,
                 displaced, error>>
memtest_free_short ==
  /\ op = "memtest_free"
  /\ IF Len(held) > 1
       THEN pmm_free_page(Head(held)) /\ held' = Tail(held) /\ UNCHANGED op
       ELSE op' = "none" /\ held' = <<>> /\ UNCHANGED pmm_vars
  /\ UNCHANGED <<vmm_vars, heap_current_ptr, size, page, blocks, unmapped,
                 displaced, error>>

memtest_unmap ==
  /\ op = "memtest_unmap"
  /\ IF page < TEST_PAGES
       THEN vmm_unmap_page(WindowPage(page)) /\ page' = page + 1 /\ UNCHANGED op
       ELSE op' = "memtest_free" /\ UNCHANGED <<pte, page>>
  /\ UNCHANGED <<pmm_vars, table, low_vars, heap_current_ptr, size, held, blocks, unmapped,
                 displaced, error>>

memtest_free ==
  /\ op = "memtest_free"
  /\ IF held # <<>>
       THEN pmm_free_page(Head(held)) /\ held' = Tail(held) /\ UNCHANGED op
       ELSE op' = "none" /\ UNCHANGED <<pmm_vars, held>>
  /\ UNCHANGED <<vmm_vars, heap_current_ptr, size, page, blocks, unmapped,
                 displaced, error>>

-----------------------------------------------------------------------------
(* usertest: two frames, mapped as user pages, the program copied there.      *)

usertest ==
  /\ op = "none"
  /\ shell_runs("usertest")
  /\ AllocOr("usertest_stack", TRUE)
  /\ UNCHANGED <<vmm_vars, heap_current_ptr, size, page, blocks, unmapped, displaced>>

\* Without a second frame the first one is not given back.
usertest_stack ==
  /\ op = "usertest_stack"
  /\ AllocOr("usertest_code", TRUE)
  /\ UNCHANGED <<vmm_vars, heap_current_ptr, size, page, blocks, unmapped, displaced>>

\* The frames the walk and the copy write to belong to the managers' users once
\* so much has been allocated: what happens then is not followed any further.
usertest_damage ==
  /\ op = "usertest_code"
  /\ LowPages \cap used # {}
  /\ op' = "damaged"
  /\ UNCHANGED <<pmm_vars, vmm_vars, heap_current_ptr, local_vars, blocks, unmapped,
                 displaced, error>>

usertest_code ==
  /\ op = "usertest_code"
  /\ LowPages \cap used = {}
  /\ vmm_map_low(USER_CODE, held[1])
  /\ op' = "usertest_map"
  /\ UNCHANGED <<pmm_vars, table, pte, heap_current_ptr, local_vars, blocks, unmapped,
                 displaced, error>>

\* The copy of the program goes where the CPU finds USER_CODE_VADDR, here over the
\* entry that was written for it.  The command does not return.
usertest_map ==
  /\ op = "usertest_map"
  /\ low' = [low EXCEPT ![USER_STACK].user = TRUE]
  /\ low_word' = [low_word EXCEPT ![low[USER_STACK].frame] = held[2],
                                  ![Translated(USER_CODE)]  = 0]
  /\ op' = "user"
  /\ UNCHANGED <<pmm_vars, table, pte, heap_current_ptr, local_vars, blocks, unmapped,
                 displaced, error>>

\* No system call touches the memory managers.
syscall == op \in {"user", "damaged"} /\ UNCHANGED vars

-----------------------------------------------------------------------------
Next ==
  \/ \E n \in 0 .. MaxSize : kmalloc(n)
  \/ kmalloc_page
  \/ kmalloc_return
  \/ vmtest
  \/ vmtest_map
  \/ vmtest_unmap
  \/ memtest
  \/ memtest_alloc
  \/ memtest_map
  \/ memtest_unmap
  \/ memtest_free
  \/ usertest
  \/ usertest_stack
  \/ usertest_code
  \/ usertest_damage
  \/ usertest_map
  \/ syscall

Spec == Init /\ [][Next]_vars

-----------------------------------------------------------------------------
(***************************************************************************)
(* Properties                                                              *)
(***************************************************************************)
\* Every variable has its type.
TypeOK ==
  /\ used \subseteq Frames
  /\ used_pages \in 0 .. TotalPages
  /\ table \in [Tables -> Frames]
  /\ pte \in [Pages -> Frames]
  /\ low \in [LowPages -> [frame : Frames, huge : BOOLEAN, user : BOOLEAN]]
  /\ low_word \in [LowPages -> Frames]
  /\ heap_current_ptr \in 0 .. HeapEnd - 1
  /\ op \in {"none", "kmalloc", "vmtest_map", "vmtest_unmap", "memtest_alloc",
             "memtest_map", "memtest_unmap", "memtest_free", "usertest_stack",
             "usertest_code", "usertest_map", "user",
             "damaged"}
  /\ size \in 0 .. MaxSize
  /\ page \in 0 .. HEAP_PAGES \/ page \in 0 .. TEST_PAGES
  /\ held \in Seq(Frames)
  /\ unmapped \subseteq Pages
  /\ displaced \subseteq Frames
  /\ error \in BOOLEAN

\* The counter meminfo prints is the number of bits set in the bitmap, through
\* every failed allocation and every free.
CountMatches == used_pages = Cardinality(used)

\* What a frame can be used for: as a table, or behind a page.
Uses == {<<"table", t>> : t \in {t \in Tables : table[t] # 0}}
          \cup {<<"page", v>> : v \in {v \in Pages : pte[v] # 0}}
FrameOf(x) == IF x[1] = "table" THEN table[x[2]] ELSE pte[x[2]]
Placed == {FrameOf(x) : x \in Uses}

\* No frame serves two purposes, none that is in use is free in the bitmap, and
\* none belongs to the kernel or the first megabyte: a page can never turn into
\* a page table under the hands of its user.
NoFrameShared ==
  /\ \A x, y \in Uses : FrameOf(x) = FrameOf(y) => x = y
  /\ Placed \subseteq used \ Reserved
  /\ \A i \in DOMAIN held : held[i] \in used \ Reserved

\* Between operations every frame taken from the bitmap is still reachable
\* through a table or a mapping, unless an error message has been printed or
\* vmtest has mapped over it: in particular a kmalloc that fails half-way wastes
\* nothing.
NoSilentLeak ==
  op = "none" /\ ~error =>
    used = ((Frames \ Usable) \cup Reserved) \cup Placed \cup displaced

BlockPages(b) ==
  {HeapPage(n) : n \in b.start \div PAGE_UNITS .. (b.start + b.size - 1) \div PAGE_UNITS}

\* The blocks kmalloc has returned do not overlap, lie inside the heap, and are
\* mapped except for pages that vmm_map_page has reported an error for or vmtest
\* has unmapped.
BlocksUsable ==
  /\ \A b, c \in blocks : b # c => \/ b.start + b.size <= c.start
                                   \/ c.start + c.size <= b.start
  /\ \A b \in blocks :
       /\ b.start + b.size <= heap_current_ptr
       /\ \A v \in BlockPages(b) : vmm_virt_to_phys(v) # 0 \/ v \in unmapped

\* Apart from the one page vmtest works on, and while vmtest runs, a heap page
\* that is mapped keeps its frame: no kmalloc or memtest takes it away (heap.c
\* never frees; vmtest does unmap a page of the heap).
OnlyVmtestUnmaps ==
  [][\A v \in HeapPages :
       pte[v] # 0 /\ pte'[v] # pte[v] =>
         v = HeapPage(VMTEST_PAGE) /\ op \in {"vmtest_map", "vmtest_unmap"}]_vars

\* When usertest enters user mode, its code and its stack are in the frames it
\* has allocated and mapped for them (usertest.c: "Mappen mit PAGE_USER!").
UserPagesMapped ==
  op = "user" => Translated(USER_CODE) = held[1] /\ Translated(USER_STACK) = held[2]
=============================================================================
