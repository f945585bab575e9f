------------------------------ MODULE BootLoader ------------------------------
(***************************************************************************)
(* From the BIOS to the kernel: stage 1 reads stage 2 (stage1.asm), stage  *)
(* 2 opens the A20 gate, leaves a memory map, reads the kernel in chunks   *)
(* into low memory and, in protected mode, copies it to one megabyte       *)
(* (stage2.asm).  The kernel changes its memory while it runs, and a reset *)
(* starts all over with the memory as it is.                               *)
(*                                                                         *)
(* Memory is a function on cells of one sector's size, 512 bytes.  A cell  *)
(* holds <<"disk", n>>, the n-th sector of the image, or something else.   *)
(* Segment registers count cells; adding to one wraps at one megabyte.     *)
(*                                                                         *)
(* The layout, with its real values in cells:                              *)
(*    STAGE2 (63)  MAP (128)  STAGING (1024)  STACK (1152)  VIDEO (1280)   *)
(*    MEGABYTE (2048)                                                      *)
(***************************************************************************)
EXTENDS Integers, FiniteSetsExt

CONSTANTS
  STAGE2, STAGE2_SECTORS,   \* where stage 2 is loaded and its length (32)
  MAP,                      \* the memory map, 0x10000
  STAGING,                  \* where the BIOS puts the kernel, 0x80000
  STACK,                    \* the stack of protected mode, 0x90000
  VIDEO,                    \* video memory and ROM begin, 0xA0000
  MEGABYTE,                 \* KERNEL_PHYS_ADDR, and where segments wrap
  CHUNK,                    \* sectors per BIOS call (16)
  kernel_lba_start,         \* 34
  Sizes,                    \* kernel sizes, in sectors
  BSS                       \* length of .bss, in cells

\* The regions of low memory follow each other, the image has room for stage
\* 2 before the kernel, and kernels fit between the load buffer and the video
\* memory, which is what the loader takes for granted.
ASSUME LayoutAssumption ==
  /\ {STAGE2, STAGE2_SECTORS, MAP, STAGING, STACK, VIDEO, MEGABYTE, CHUNK} \subseteq Nat \ {0}
  /\ kernel_lba_start \in Nat /\ kernel_lba_start > STAGE2_SECTORS
  /\ STAGE2_SECTORS > 1 /\ STAGE2 + STAGE2_SECTORS <= MAP /\ MAP < STAGING
  /\ STAGING < STACK /\ STACK <= VIDEO /\ VIDEO < MEGABYTE
ASSUME SizesAssumption ==
  Sizes \subseteq 1 .. VIDEO - STAGING /\ Sizes # {} /\ BSS \in Nat

Cells == 0 .. MEGABYTE + Max(Sizes) + BSS - 1

Disk(n) == <<"disk", n>>
Other   == {<<what, 0>> : what \in {"zero", "rom", "map", "stack", "table", "dirty"}}
Zero    == <<"zero", 0>>

VARIABLES
  pc,
  mem,
  a20,                 \* the A20 gate is open
  fast_a20,            \* external: port 0x92 of this machine opens the gate
  kernel_sectors,      \* assembled into stage 2
  kernel_lba_current,
  cx, bx               \* load_kernel_16: sectors left, segment

regs == <<kernel_lba_current, cx, bx>>
machine == <<kernel_sectors, fast_a20>>
vars == <<pc, mem, a20, machine, regs>>

Init ==
  /\ pc = "stage1"
  /\ mem = [a \in Cells |-> IF a \in VIDEO .. MEGABYTE - 1 THEN <<"rom", 0>> ELSE Zero]
  /\ a20 \in BOOLEAN
  /\ fast_a20 \in BOOLEAN
  /\ kernel_sectors \in Sizes
  /\ kernel_lba_current = kernel_lba_start
  /\ cx = 0
  /\ bx = 0

-----------------------------------------------------------------------------
\* Memory after cells n, n + 1, ... have been written with the values of f,
\* a function on 0 .. k - 1.  Video memory and ROM do not keep them.
Stored(m, n, f) ==
  [a \in Cells |-> IF a - n \in DOMAIN f /\ a \notin VIDEO .. MEGABYTE - 1
                   THEN f[a - n] ELSE m[a]]

One(v) == [i \in {0} |-> v]

image_sectors == kernel_lba_start + kernel_sectors

-----------------------------------------------------------------------------
(* Stage 1.  The BIOS may fail, or read less than it was asked to.         *)

load_stage2 ==
  /\ pc = "stage1"
  /\ mem' = Stored(mem, STAGE2, [i \in 0 .. STAGE2_SECTORS - 1 |-> Disk(1 + i)])
  /\ kernel_lba_current' = kernel_lba_start     \* a variable of the image
  /\ pc' = "stage2"
  /\ UNCHANGED <<a20, machine, cx, bx>>

disk_error ==
  /\ pc = "stage1"
  /\ pc' = "halted"
  /\ UNCHANGED <<mem, a20, machine, regs>>

-----------------------------------------------------------------------------
(* Stage 2, real mode.                                                     *)

\* A bug: the gate is toggled.
enable_a20_toggle == IF fast_a20 THEN ~ a20 ELSE a20

\* Bit 1 of port 0x92 is set, and nobody looks whether that opened the gate.
enable_a20 == a20 \/ fast_a20

stage2_start ==
  /\ pc = "stage2"
  /\ a20' = enable_a20
  /\ mem' = Stored(mem, MAP, One(<<"map", 0>>))    \* create_fallback_memory_map
  /\ cx' = kernel_sectors
  /\ bx' = STAGING
  /\ pc' = "load"
  /\ UNCHANGED <<machine, kernel_lba_current>>

chunk == Min({cx, CHUNK})

next_segment == (bx + chunk) % MEGABYTE

done_loading == cx = 0

\* One call of the BIOS that succeeds: all its sectors are on the disk.
load_next ==
  /\ pc = "load" /\ ~ done_loading
  /\ kernel_lba_current + chunk <= image_sectors
  /\ mem' = Stored(mem, bx, [i \in 0 .. chunk - 1 |-> Disk(kernel_lba_current + i)])
  /\ bx' = next_segment
  /\ kernel_lba_current' = kernel_lba_current + chunk
  /\ cx' = cx - chunk
  /\ UNCHANGED <<pc, a20, machine>>

\* A bug: an error starts the load over, without end.
load_disk_error_retries ==
  /\ pc = "load" /\ ~ done_loading
  /\ pc' = "stage2"
  /\ UNCHANGED <<mem, a20, machine, regs>>

load_disk_error ==
  /\ pc = "load" /\ ~ done_loading
  /\ pc' = "halted"
  /\ UNCHANGED <<mem, a20, machine, regs>>

enter_protected_mode ==
  /\ pc = "load" /\ done_loading
  /\ pc' = "protected"
  /\ UNCHANGED <<mem, a20, machine, regs>>

-----------------------------------------------------------------------------
(* Stage 2, protected mode.  The stack lies inside the load buffer.        *)

\* The cell behind the address of one megabyte: with the gate closed, that address
\* line is always 0.
kernel_cell == IF a20 THEN MEGABYTE ELSE 0

Copied(m) ==
  Stored(m, kernel_cell, [i \in 0 .. kernel_sectors - 1 |-> m[STAGING + i]])

Pushed(m) == Stored(m, STACK - 1, One(<<"stack", 0>>))

Tables(m) == Stored(m, STAGE2 + STAGE2_SECTORS - 1, One(<<"table", 0>>))

\* A bug: setup_paging is called before the kernel is copied.
protected_mode_tables_first(m) == Copied(Tables(Pushed(m)))

\* The kernel is copied, then setup_paging is called.
protected_mode(m) == Tables(Pushed(Copied(m)))

\* With the gate closed, a kernel that reaches up to stage 2 is copied over the code
\* that copies it, and what is executed then is anybody's guess.
protected_mode_entry ==
  /\ pc = "protected"
  /\ mem' = protected_mode(mem)
  /\ pc' = IF a20 \/ kernel_sectors <= STAGE2 THEN "long" ELSE "lost"
  /\ UNCHANGED <<a20, machine, regs>>

long_mode_entry ==
  /\ pc = "long"
  /\ mem' = Pushed(mem)
  /\ pc' = "entry"
  /\ UNCHANGED <<a20, machine, regs>>

-----------------------------------------------------------------------------
(* The kernel.  entry.asm calls kernel_main, which stores what it likes in *)
(* its data and .bss.                                                      *)

kernel_start ==
  /\ pc = "entry"
  /\ pc' = "kernel"
  /\ UNCHANGED <<mem, a20, machine, regs>>

kernel_main ==
  /\ pc = "kernel"
  /\ \E i \in 0 .. kernel_sectors + BSS - 1 :
       mem' = Stored(mem, kernel_cell + i, One(<<"dirty", 0>>))
  /\ UNCHANGED <<pc, a20, machine, regs>>

\* The reboot command, or the reset button of a halted or lost machine.  Memory
\* keeps its contents; the BIOS may change the gate.
cmd_reboot ==
  /\ pc \in {"kernel", "halted", "lost"}
  /\ pc' = "stage1"
  /\ a20' \in BOOLEAN
  /\ UNCHANGED <<mem, machine, regs>>

Boot == \/ load_stage2 \/ disk_error
        \/ stage2_start
        \/ load_next \/ load_disk_error \/ enter_protected_mode
        \/ protected_mode_entry \/ long_mode_entry
        \/ kernel_start

Next == Boot \/ kernel_main \/ cmd_reboot

\* The processor executes the loader without pause; how a BIOS call ends, and
\* whether anyone ever reboots, is left open.
Spec == Init /\ [][Next]_vars /\ WF_vars(Boot)

-----------------------------------------------------------------------------
(* Properties.                                                             *)

\* The counters of load_kernel_16 stay in the range of their registers'
\* meaning, and memory holds the values the loader and the kernel store.
TypeOK ==
  /\ pc \in {"stage1", "stage2", "load", "protected", "long", "entry", "kernel", "halted",
             "lost"}
  /\ mem \in [Cells -> {Disk(n) : n \in 0 .. image_sectors - 1} \cup Other]
  /\ {a20, fast_a20} \subseteq BOOLEAN
  /\ kernel_sectors \in Sizes
  /\ kernel_lba_current \in kernel_lba_start .. image_sectors
  /\ cx \in 0 .. kernel_sectors
  /\ bx \in {0} \cup STAGING .. VIDEO

\* The gate is open, or stage 2 can open it.  On a machine for which this is not so
\* the loader goes on all the same, and nothing is said of what follows.
A20Available == a20 \/ fast_a20

\* Whenever entry.asm is reached, the first boot or a later one, the memory
\* at one megabyte is the kernel of the image, sector by sector, in spite of
\* the stack inside the load buffer and of what an earlier kernel left.
KernelIntact ==
  A20Available /\ pc = "entry" =>
    \A i \in 0 .. kernel_sectors - 1 : mem[MEGABYTE + i] = Disk(kernel_lba_start + i)

\* Until it has handed over, stage 2 never loads the kernel over its own code
\* or over the memory map pmm_init will read.
LoaderIntact ==
  A20Available /\ pc \in {"load", "protected", "long", "entry", "lost"} =>
    /\ \A i \in 0 .. STAGE2_SECTORS - 2 : mem[STAGE2 + i] = Disk(1 + i)
    /\ mem[MAP] = <<"map", 0>>

\* Every boot ends in a running kernel or in the halt of a disk error.
BootEnds == A20Available /\ pc = "stage1" ~> pc \in {"kernel", "halted"}

=============================================================================
