-------------------------- MODULE KeyboardProofs --------------------------
(***************************************************************************)
(* Proofs about the keyboard.                                              *)
(*                                                                         *)
(* The ring buffer, for every buffer size and every set of scancodes: the  *)
(* indices stay in range, a copied slot is not overwritten, and the ring   *)
(* implements the bounded queue.                                           *)
(*                                                                         *)
(* The two readers of port 0x60 (module KeyboardInput), for any number of  *)
(* bytes and a ring of every size: however the IRQ 1 handler, the polling  *)
(* shell and the reader of the ring buffer race, neither reader gets a     *)
(* byte twice or out of order, and no byte is lost between them.           *)
(***************************************************************************)
EXTENDS KeyboardInput, SequenceTheorems, SequencesExt, TLAPS

USE BufferSizeAssumption, ScancodesAssumption

\* CopyStaysCurrent is inductive together with the types.
RingInv == TypeOK /\ CopyStaysCurrent

LEMMA InitRing == Init => RingInv
<1> SUFFICES ASSUME Init PROVE RingInv
  OBVIOUS
<1>1. TypeOK
  <2>1. kb_buffer \in [Slots -> Scancodes \cup {0}]
    BY DEF Init
  <2>2. kb_buffer_read \in Slots /\ kb_buffer_write \in Slots
    BY DEF Init, Slots
  <2> QED
    BY <2>1, <2>2 DEF Init, TypeOK
<1>2. CopyStaysCurrent
  BY DEF Init, CopyStaysCurrent
<1> QED
  BY <1>1, <1>2 DEF RingInv

LEMMA NextSlot ==
  \A i \in Slots : next_slot(i) \in Slots /\ next_slot(i) # i
  BY DEF Slots, next_slot

LEMMA NextRing == RingInv /\ [Next]_vars => RingInv'
<1> SUFFICES ASSUME RingInv, [Next]_vars PROVE RingInv'
  OBVIOUS
<1>0. /\ kb_buffer_read \in Slots /\ kb_buffer_write \in Slots
      /\ kb_buffer \in [Slots -> Scancodes \cup {0}]
      /\ next_slot(kb_buffer_write) \in Slots
      /\ next_slot(kb_buffer_read) \in Slots
      /\ next_slot(kb_buffer_write) # kb_buffer_write
  BY NextSlot DEF RingInv, TypeOK
<1> USE DEF RingInv
<1>1. ASSUME NEW c \in Scancodes, keyboard_irq_handler(c) PROVE RingInv'
  <2>1. TypeOK'
    BY <1>0, <1>1 DEF TypeOK, keyboard_irq_handler, Woken
  <2>2. CopyStaysCurrent'
    BY <1>0, <1>1 DEF CopyStaysCurrent, keyboard_irq_handler, Woken, kb_irq_has_scancode
  <2> QED
    BY <2>1, <2>2
<1>2. CASE timer_irq
  BY <1>0, <1>2 DEF TypeOK, CopyStaysCurrent, timer_irq, Woken, buffer_vars, kb_irq_has_scancode
<1>3. CASE check \/ hlt
  BY <1>0, <1>3 DEF TypeOK, CopyStaysCurrent, check, hlt, buffer_vars
<1>4. CASE fetch
  BY <1>0, <1>4 DEF TypeOK, CopyStaysCurrent, fetch, buffer_vars, kb_irq_has_scancode
<1>5. CASE advance
  BY <1>0, <1>5 DEF TypeOK, CopyStaysCurrent, advance
<1>6. CASE UNCHANGED vars
  BY <1>6 DEF TypeOK, CopyStaysCurrent, vars, buffer_vars, kb_irq_has_scancode
<1> QED
  BY <1>1, <1>2, <1>3, <1>4, <1>5, <1>6 DEF Next, kb_getchar_irq

LEMMA RingHolds == Spec => []RingInv
  BY InitRing, NextRing, PTL DEF Spec

\* For every buffer size: the indices never leave the buffer.
THEOREM RingTypes == Spec => []TypeOK
<1>1. RingInv => TypeOK
  BY DEF RingInv
<1> QED
  BY <1>1, RingHolds, PTL

\* For every buffer size: the slot the reader has copied stays untouched until
\* it has advanced the read index, however many interrupts fall in between.
THEOREM CopySafe == Spec => []CopyStaysCurrent
<1>1. RingInv => CopyStaysCurrent
  BY DEF RingInv
<1> QED
  BY <1>1, RingHolds, PTL

-----------------------------------------------------------------------------
(* The refinement.  The queue is the stretch of slots from the read index to *)
(* the write index; the reader takes its head when it advances the index.    *)

ContentsOK ==
  /\ Count \in 0 .. KB_BUFFER_SIZE - 1
  /\ \A k \in 1 .. Count : SlotOf(k) \in Slots
  /\ Contents \in Seq(Scancodes \cup {0})
  /\ Len(Contents) = Count
  /\ \A k \in 1 .. Count : Contents[k] = kb_buffer[SlotOf(k)]

LEMMA ContentsSeq == TypeOK => ContentsOK
<1> SUFFICES ASSUME TypeOK PROVE ContentsOK
  OBVIOUS
<1>1. /\ kb_buffer_read \in Slots /\ kb_buffer_write \in Slots
      /\ kb_buffer \in [Slots -> Scancodes \cup {0}]
  BY DEF TypeOK
<1>2. Count \in 0 .. KB_BUFFER_SIZE - 1
  BY <1>1 DEF Count, Slots
<1>3. ASSUME NEW k \in 1 .. Count PROVE SlotOf(k) \in Slots
  BY <1>1, <1>2 DEF SlotOf, Slots
<1>4. Contents \in [1 .. Count -> Scancodes \cup {0}]
  BY <1>1, <1>3 DEF Contents
<1>5. Contents \in Seq(Scancodes \cup {0})
  BY <1>2, <1>4, SeqDef
<1>6. Len(Contents) = Count
  BY <1>2, <1>4, <1>5, LenProperties
<1> QED
  BY <1>2, <1>3, <1>5, <1>6 DEF Contents, ContentsOK

LEMMA ContentsSeqNext == TypeOK' => ContentsOK'
  BY ContentsSeq, PTL

LEMMA HandlerRefines ==
  ASSUME TypeOK, TypeOK', NEW c \in Scancodes, keyboard_irq_handler(c)
  PROVE  Queue!Put(c) \/ Queue!Drop
<1>0. /\ kb_buffer_read \in Slots /\ kb_buffer_write \in Slots
      /\ kb_buffer \in [Slots -> Scancodes \cup {0}]
  BY DEF TypeOK
<1>1. kb_buffer_read' = kb_buffer_read /\ got' = got
  BY DEF keyboard_irq_handler
<1>2. CASE next_slot(kb_buffer_write) # kb_buffer_read
  <2>1. /\ kb_buffer' = [kb_buffer EXCEPT ![kb_buffer_write] = c]
        /\ kb_buffer_write' = next_slot(kb_buffer_write)
        /\ overrun' = FALSE
    BY <1>2 DEF keyboard_irq_handler
  <2>2. Count < KB_BUFFER_SIZE - 1 /\ Count' = Count + 1 /\ SlotOf(Count + 1) = kb_buffer_write
    BY <1>0, <1>1, <1>2, <2>1 DEF Count, SlotOf, next_slot, Slots
  <2>3. \A k \in 1 .. Count : SlotOf(k) # kb_buffer_write
    BY <1>0 DEF Count, SlotOf, Slots
  <2>4. \A k \in 1 .. Count + 1 : SlotOf(k)' = SlotOf(k)
    BY <1>1 DEF SlotOf
  <2>5. Contents' = Append(Contents, c)
    <3>1. /\ Contents \in Seq(Scancodes \cup {0}) /\ Len(Contents) = Count
          /\ Count \in Nat
          /\ \A k \in 1 .. Count : SlotOf(k) \in Slots /\ Contents[k] = kb_buffer[SlotOf(k)]
      BY ContentsSeq DEF ContentsOK
    <3>2. /\ Contents' \in Seq(Scancodes \cup {0}) /\ Len(Contents') = Count + 1
          /\ \A k \in 1 .. Count + 1 : Contents'[k] = kb_buffer'[SlotOf(k)]
      BY <2>2, <2>4, ContentsSeqNext DEF ContentsOK
    <3>3. /\ Append(Contents, c) \in Seq(Scancodes \cup {0})
          /\ Len(Append(Contents, c)) = Count + 1
          /\ \A k \in 1 .. Count : Append(Contents, c)[k] = Contents[k]
          /\ Append(Contents, c)[Count + 1] = c
      BY <3>1, AppendProperties
    <3>4. ASSUME NEW k \in 1 .. Count + 1 PROVE Contents'[k] = Append(Contents, c)[k]
      <4>1. CASE k = Count + 1
        BY <1>0, <2>1, <2>2, <3>2, <3>3, <4>1
      <4>2. CASE k \in 1 .. Count
        BY <1>0, <2>1, <2>3, <3>1, <3>2, <3>3, <4>2
      <4> QED
        BY <3>1, <4>1, <4>2
    <3> QED
      BY <3>2, <3>3, <3>4, SeqEqual
  <2>6. Len(Contents) < KB_BUFFER_SIZE - 1
    BY <2>2, ContentsSeq DEF ContentsOK
  <2> QED
    BY <1>1, <2>1, <2>5, <2>6 DEF Queue!Put
<1>3. CASE next_slot(kb_buffer_write) = kb_buffer_read
  <2>1. UNCHANGED <<kb_buffer, kb_buffer_write>> /\ overrun' = TRUE
    BY <1>3 DEF keyboard_irq_handler
  <2>2. Contents' = Contents
    BY <1>1, <2>1 DEF Contents, Count, SlotOf
  <2>3. Len(Contents) = KB_BUFFER_SIZE - 1
    <3>1. Count = KB_BUFFER_SIZE - 1
      BY <1>0, <1>3 DEF Count, next_slot, Slots
    <3> QED
      BY <3>1, ContentsSeq DEF ContentsOK
  <2> QED
    BY <1>1, <2>1, <2>2, <2>3 DEF Queue!Drop
<1> QED
  BY <1>2, <1>3

LEMMA AdvanceRefines ==
  ASSUME RingInv, TypeOK', advance
  PROVE  Queue!Get
<1>0. /\ TypeOK
      /\ kb_buffer_read \in Slots /\ kb_buffer_write \in Slots
      /\ kb_buffer_read # kb_buffer_write
      /\ scancode = kb_buffer[kb_buffer_read]
  BY DEF RingInv, TypeOK, CopyStaysCurrent, kb_irq_has_scancode, advance
<1>1. /\ kb_buffer_read' = next_slot(kb_buffer_read) /\ got' = scancode
      /\ kb_buffer' = kb_buffer /\ kb_buffer_write' = kb_buffer_write
      /\ overrun' = overrun
  BY DEF advance
<1>2. Count \in Nat /\ Count > 0 /\ Count' = Count - 1 /\ SlotOf(1) = kb_buffer_read
  BY <1>0, <1>1 DEF Count, SlotOf, next_slot, Slots
<1>3. \A k \in 1 .. Count - 1 : SlotOf(k)' = SlotOf(k + 1)
  BY <1>0, <1>1, <1>2 DEF Count, SlotOf, next_slot, Slots
<1>4. /\ Contents \in Seq(Scancodes \cup {0}) /\ Len(Contents) = Count
      /\ \A k \in 1 .. Count : Contents[k] = kb_buffer[SlotOf(k)]
  BY <1>0, ContentsSeq DEF ContentsOK
<1>5. /\ Contents' \in Seq(Scancodes \cup {0}) /\ Len(Contents') = Count - 1
      /\ \A k \in 1 .. Count - 1 : Contents'[k] = kb_buffer[SlotOf(k + 1)]
  BY <1>1, <1>2, <1>3, ContentsSeqNext DEF ContentsOK
<1>6. Contents # <<>> /\ Head(Contents) = Contents[1]
  BY <1>2, <1>4, EmptySeq
<1>7. Contents' = Tail(Contents)
  <2>1. /\ Tail(Contents) \in Seq(Scancodes \cup {0})
        /\ Len(Tail(Contents)) = Count - 1
        /\ \A k \in 1 .. Count - 1 : Tail(Contents)[k] = Contents[k + 1]
    BY <1>4, <1>6, HeadTailProperties
  <2>2. \A k \in 1 .. Count - 1 : Contents'[k] = Tail(Contents)[k]
    BY <1>2, <1>4, <1>5, <2>1
  <2> QED
    BY <1>5, <2>1, <2>2, SeqEqual
<1>8. got' = Head(Contents)
  BY <1>0, <1>1, <1>2, <1>4, <1>6
<1> QED
  BY <1>1, <1>6, <1>7, <1>8 DEF Queue!Get

LEMMA InitQueue == Init => Queue!Init
<1> SUFFICES ASSUME Init PROVE Queue!Init
  OBVIOUS
<1>1. Count = 0
  BY DEF Init, Count
<1>2. Contents = <<>>
  BY <1>1 DEF Contents
<1> QED
  BY <1>2 DEF Init, Queue!Init

LEMMA NextQueue ==
  ASSUME RingInv, RingInv', [Next]_vars PROVE [Queue!Next]_(Queue!vars)
<1>1. ASSUME NEW c \in Scancodes, keyboard_irq_handler(c) PROVE Queue!Next
  BY <1>1, HandlerRefines DEF RingInv, Queue!Next
<1>2. CASE advance
  BY <1>2, AdvanceRefines DEF RingInv, Queue!Next
<1>3. CASE UNCHANGED <<buffer_vars, got, overrun>>
  BY <1>3 DEF Queue!vars, Contents, Count, SlotOf, buffer_vars
<1> QED
  BY <1>1, <1>2, <1>3 DEF Next, kb_getchar_irq, timer_irq, check, hlt, fetch, vars

\* For every buffer size and every interleaving of the handler with the steps
\* of the reader, the ring buffer is a bounded first-in first-out queue of
\* KB_BUFFER_SIZE - 1 scancodes that drops an arrival only when it is full.
THEOREM RingIsQueue == Spec => ImplementsQueue
  BY InitQueue, NextQueue, RingHolds, PTL DEF Spec, ImplementsQueue, Queue!Spec

-----------------------------------------------------------------------------
(* The port.  What the ring buffer contributes is Ringed, the bytes that    *)
(* went through it: the handler appends to it, and the reader leaves it     *)
(* alone, since it moves the head of the queue to the end of taken.         *)

Types ==
  /\ data \in 0 .. MaxKeys
  /\ output_full \in BOOLEAN
  /\ irr \in BOOLEAN
  /\ shell \in {"wait", "read"}
  /\ seen \in Seq(Nat)
  /\ taken \in Seq(Nat)

\* What is still to be read: a byte that makes the controller ask for an
\* interrupt is not in the ring buffer yet, and one the shell has found, or is
\* yet to find, in the register has not been read by the shell.  A full register
\* always comes with a latched interrupt.
Pending ==
  /\ output_full => irr
  /\ irr => data >= 1 /\ ToSet(Ringed) \subseteq 1 .. data - 1
  /\ output_full \/ shell = "read" => data >= 1 /\ ToSet(seen) \subseteq 1 .. data - 1

Port    == Types /\ Pending /\ NoRepeats /\ NoByteVanishes
PortInv == RingInv /\ Port

-----------------------------------------------------------------------------
(* Sequences of bytes. *)

\* Appending a byte adds it to the set of elements.
LEMMA AppendSet ==
  ASSUME NEW s \in Seq(Nat), NEW x \in Nat
  PROVE  ToSet(Append(s, x)) = ToSet(s) \cup {x}
<1> DEFINE t == Append(s, x)
<1>1. /\ Len(t) = Len(s) + 1 /\ DOMAIN t = 1 .. Len(t) /\ DOMAIN s = 1 .. Len(s)
      /\ Len(s) \in Nat
      /\ \A i \in 1 .. Len(s) : t[i] = s[i]
      /\ t[Len(s) + 1] = x
  OBVIOUS
<1> HIDE DEF t
<1>2. ToSet(t) \subseteq ToSet(s) \cup {x}
  BY <1>1 DEF ToSet
<1>3. ToSet(s) \cup {x} \subseteq ToSet(t)
  BY <1>1 DEF ToSet
<1> QED
  BY <1>2, <1>3 DEF t

\* A sequence stays strictly increasing when a byte above all of it is appended.
LEMMA AppendIncreasing ==
  ASSUME NEW s \in Seq(Nat), NEW x \in Nat,
         StrictlyIncreasing(s), ToSet(s) \subseteq 1 .. x - 1
  PROVE  StrictlyIncreasing(Append(s, x))
<1> DEFINE t == Append(s, x)
<1>1. /\ Len(t) = Len(s) + 1 /\ Len(s) \in Nat /\ DOMAIN s = 1 .. Len(s)
      /\ \A i \in 1 .. Len(s) : t[i] = s[i] /\ s[i] \in Nat
      /\ t[Len(s) + 1] = x
  OBVIOUS
<1>2. \A i \in 1 .. Len(s) : s[i] < x
  BY <1>1 DEF ToSet
<1> HIDE DEF t
<1>3. SUFFICES ASSUME NEW i \in 1 .. Len(t), NEW j \in 1 .. Len(t), i < j
               PROVE  t[i] < t[j]
  BY DEF StrictlyIncreasing, t
<1>4. i \in 1 .. Len(s)
  BY <1>1, <1>3
<1>5. CASE j = Len(s) + 1
  BY <1>1, <1>2, <1>4, <1>5
<1>6. CASE j \in 1 .. Len(s)
  BY <1>1, <1>3, <1>4, <1>6 DEF StrictlyIncreasing
<1> QED
  BY <1>1, <1>5, <1>6

LEMMA ConcatAppend ==
  ASSUME NEW s \in Seq(Nat), NEW t \in Seq(Nat), NEW x \in Nat
  PROVE  s \o Append(t, x) = Append(s \o t, x)
  OBVIOUS

\* Moving the head of t to the end of s leaves their concatenation alone.
LEMMA ConcatMove ==
  ASSUME NEW s \in Seq(Nat), NEW t \in Seq(Nat), t # <<>>
  PROVE  Append(s, Head(t)) \o Tail(t) = s \o t
<1>1. /\ Tail(t) \in Seq(Nat) /\ Head(t) \in Nat /\ Head(t) = t[1]
      /\ Len(t) \in Nat \ {0} /\ Len(Tail(t)) = Len(t) - 1
      /\ \A i \in 1 .. Len(t) - 1 : Tail(t)[i] = t[i + 1]
  BY HeadTailProperties, EmptySeq
<1>2. PICK u \in Seq(Nat) : u = Tail(t)
  BY <1>1
<1>3. PICK a \in Seq(Nat) : a = Append(s, Head(t))
  BY <1>1, AppendProperties
<1>4. /\ Len(a) = Len(s) + 1 /\ a[Len(s) + 1] = t[1] /\ Len(s) \in Nat
      /\ \A i \in 1 .. Len(s) : a[i] = s[i]
  BY <1>1, <1>3, AppendProperties, LenProperties
<1>5. /\ Len(u) = Len(t) - 1
      /\ \A i \in 1 .. Len(t) - 1 : u[i] = t[i + 1]
  BY <1>1, <1>2
<1>6. /\ a \o u \in Seq(Nat) /\ Len(a \o u) = Len(s) + Len(t)
      /\ \A i \in 1 .. Len(s) + Len(t) :
           (a \o u)[i] = IF i <= Len(s) + 1 THEN a[i] ELSE u[i - (Len(s) + 1)]
  <2>1. Len(a) + Len(u) = Len(s) + Len(t)
    BY <1>1, <1>4, <1>5
  <2>2. /\ a \o u \in Seq(Nat) /\ Len(a \o u) = Len(a) + Len(u)
        /\ \A i \in 1 .. Len(a) + Len(u) :
             (a \o u)[i] = IF i <= Len(a) THEN a[i] ELSE u[i - Len(a)]
    BY ConcatProperties
  <2> QED
    BY <1>4, <2>1, <2>2
<1>7. /\ s \o t \in Seq(Nat) /\ Len(s \o t) = Len(s) + Len(t)
      /\ \A i \in 1 .. Len(s) + Len(t) :
           (s \o t)[i] = IF i <= Len(s) THEN s[i] ELSE t[i - Len(s)]
  BY ConcatProperties
<1>8. ASSUME NEW i \in 1 .. Len(s) + Len(t) PROVE (a \o u)[i] = (s \o t)[i]
  <2>1. CASE i <= Len(s)
    BY <1>1, <1>4, <1>6, <1>7, <2>1
  <2>2. CASE i = Len(s) + 1
    BY <1>1, <1>4, <1>6, <1>7, <2>2
  <2>3. CASE i > Len(s) + 1
    <3>1. (a \o u)[i] = u[i - (Len(s) + 1)] /\ (s \o t)[i] = t[i - Len(s)]
      BY <1>1, <1>4, <1>6, <1>7, <2>3
    <3>2. /\ i - (Len(s) + 1) \in 1 .. Len(t) - 1
          /\ (i - (Len(s) + 1)) + 1 = i - Len(s)
      BY <1>1, <1>4, <2>3
    <3> QED
      BY <1>5, <3>1, <3>2
  <2>4. i <= Len(s) \/ i = Len(s) + 1 \/ i > Len(s) + 1
    BY <1>1, <1>4
  <2> QED
    BY <2>1, <2>2, <2>3, <2>4, Zenon
<1>9. a \o u = s \o t
  BY <1>6, <1>7, <1>8, SeqEqual
<1> QED
  BY <1>2, <1>3, <1>9

-----------------------------------------------------------------------------
(* What the steps do to Ringed. *)

LEMMA ContentsNat == TypeOK => Contents \in Seq(Nat)
<1> SUFFICES ASSUME TypeOK PROVE Contents \in Seq(Nat)
  OBVIOUS
<1>1. Contents \in Seq(Scancodes \cup {0})
  BY ContentsSeq DEF ContentsOK
<1>2. PICK n \in Nat : Contents \in [1 .. n -> Scancodes \cup {0}]
  BY <1>1, LenProperties
<1>3. Scancodes \cup {0} \subseteq Nat
  OBVIOUS
<1>4. Contents \in [1 .. n -> Nat]
  BY <1>2, <1>3
<1> QED
  BY <1>2, <1>4, SeqDef

LEMMA RingedSeq == TypeOK /\ taken \in Seq(Nat) => Ringed \in Seq(Nat)
  BY ContentsNat, ConcatProperties DEF Ringed

\* Every step is one of the ring buffer's, with the byte of the register as the
\* scancode, or leaves the ring buffer alone.
LEMMA InputIsRing ==
  ASSUME Types, Pending, [InputNext]_input_vars
  PROVE  [Next]_vars
<1>1. CASE irq1
  <2>1. data \in Scancodes
    BY <1>1, MaxKeysAssumption DEF Types, Pending, irq1, Bytes
  <2> QED
    BY <1>1, <2>1 DEF irq1, Next
<1>2. CASE irq0 \/ ring_task
  BY <1>2 DEF irq0, ring_task, Next
<1>3. CASE key \/ kb_getchar \/ UNCHANGED input_vars
  BY <1>3 DEF key, kb_getchar, kb_wait_output, kb_read_scancode, input_vars
<1> QED
  BY <1>1, <1>2, <1>3 DEF InputNext

LEMMA SameRinged ==
  ASSUME UNCHANGED <<buffer_vars, taken>> PROVE Ringed' = Ringed
  BY DEF Ringed, Contents, Count, SlotOf, buffer_vars

\* The handler appends the byte, or drops it.
LEMMA HandlerRinged ==
  ASSUME PortInv, TypeOK', irq1
  PROVE  \/ Ringed' = Append(Ringed, data) /\ dropped' = dropped
         \/ Ringed' = Ringed /\ dropped' = dropped \cup {data}
<1>1. /\ data \in Scancodes /\ data \in Nat /\ taken' = taken /\ TypeOK
      /\ keyboard_irq_handler(data) /\ taken \in Seq(Nat)
      /\ dropped' = IF overrun' THEN dropped \cup {data} ELSE dropped
  BY MaxKeysAssumption DEF PortInv, Port, RingInv, Types, Pending, irq1, Bytes
<1>2. Contents \in Seq(Nat)
  BY <1>1, ContentsNat
<1>3. CASE Queue!Put(data)
  <2>1. Contents' = Append(Contents, data) /\ overrun' = FALSE
    BY <1>3 DEF Queue!Put
  <2>2. taken \o Append(Contents, data) = Append(taken \o Contents, data)
    BY <1>1, <1>2, ConcatAppend
  <2> QED
    BY <1>1, <2>1, <2>2 DEF Ringed
<1>4. CASE Queue!Drop
  <2>1. Contents' = Contents /\ overrun' = TRUE
    BY <1>4 DEF Queue!Drop
  <2> QED
    BY <1>1, <2>1 DEF Ringed
<1> QED
  BY <1>1, <1>3, <1>4, HandlerRefines

\* The reader of the ring buffer takes a byte from its head, or none.
LEMMA ReaderRinged ==
  ASSUME PortInv, TypeOK', ring_task
  PROVE  Ringed' = Ringed /\ taken' \in Seq(Nat)
<1>0. taken \in Seq(Nat) /\ RingInv /\ TypeOK
  BY DEF PortInv, Port, Types, RingInv
<1>1. CASE advance
  <2>1. taken' = Append(taken, got')
    BY <1>1 DEF ring_task, advance
  <2>2. Contents # <<>> /\ Contents' = Tail(Contents) /\ got' = Head(Contents)
    BY <1>0, <1>1, AdvanceRefines DEF Queue!Get
  <2>3. Contents \in Seq(Nat)
    BY <1>0, ContentsNat
  <2>4. Append(taken, Head(Contents)) \o Tail(Contents) = taken \o Contents
    BY <1>0, <2>2, <2>3, ConcatMove
  <2>5. Append(taken, Head(Contents)) \in Seq(Nat)
    BY <1>0, <2>2, <2>3, HeadTailProperties, AppendProperties
  <2> QED
    BY <2>1, <2>2, <2>4, <2>5 DEF Ringed
<1>2. CASE check \/ hlt \/ fetch
  <2>1. UNCHANGED <<buffer_vars, taken>>
    BY <1>2 DEF ring_task, check, hlt, fetch
  <2> QED
    BY <1>0, <2>1, SameRinged
<1> QED
  BY <1>1, <1>2 DEF ring_task, kb_getchar_irq

-----------------------------------------------------------------------------
(* The inductive invariant. *)

LEMMA InitPort == InputInit => PortInv
<1> SUFFICES ASSUME InputInit PROVE PortInv
  OBVIOUS
<1>0. RingInv
  BY InitRing DEF InputInit
<1>1. data = 0 /\ output_full = FALSE /\ irr = FALSE /\ shell = "wait"
      /\ seen = <<>> /\ taken = <<>>
  BY DEF InputInit
<1>2. Ringed = <<>>
  <2>1. Count = 0
    BY DEF InputInit, Init, Count
  <2>2. Contents = <<>>
    BY <2>1 DEF Contents
  <2> QED
    BY <1>1, <2>2 DEF Ringed
<1>3. Types
  <2>1. output_full \in BOOLEAN /\ irr \in BOOLEAN
    BY <1>1, Zenon
  <2>2. seen \in Seq(Nat) /\ taken \in Seq(Nat)
    BY <1>1
  <2>3. data \in 0 .. MaxKeys
    BY <1>1, MaxKeysAssumption
  <2> QED
    BY <1>1, <2>1, <2>2, <2>3 DEF Types
<1>4. ToSet(seen) = {} /\ ToSet(Ringed) = {} /\ Len(seen) = 0 /\ Len(Ringed) = 0
  BY <1>1, <1>2 DEF ToSet
<1>5. Pending /\ NoByteVanishes
  BY <1>1, <1>4 DEF Pending, NoByteVanishes
<1>6. NoRepeats
  BY <1>1, <1>4 DEF NoRepeats, StrictlyIncreasing
<1> QED
  BY <1>0, <1>3, <1>5, <1>6 DEF PortInv, Port

LEMMA KeyStep == ASSUME PortInv, key PROVE Port'
<1>0. Ringed' = Ringed
  BY SameRinged DEF key, vars
<1>1. /\ data \in Nat /\ data < MaxKeys /\ MaxKeys \in Nat /\ data' = data + 1
      /\ ~output_full /\ output_full' = TRUE /\ irr' = TRUE
      /\ taken' = taken /\ seen' = seen /\ shell' = shell /\ dropped' = dropped
  BY MaxKeysAssumption DEF PortInv, Port, Types, key
<1>2. Types'
  BY <1>1 DEF PortInv, Port, Types
<1>3. ToSet(seen) \subseteq 1 .. data /\ ToSet(Ringed) \subseteq 1 .. data
  BY DEF PortInv, Port, NoRepeats
<1>4. ToSet(seen)' = ToSet(seen) /\ ToSet(Ringed)' = ToSet(Ringed)
  BY <1>0, <1>1 DEF ToSet
<1>5. Pending'
  BY <1>1, <1>3, <1>4 DEF Pending
<1>6. NoRepeats'
  BY <1>0, <1>1, <1>3, <1>4 DEF PortInv, Port, NoRepeats, StrictlyIncreasing
<1>7. NoByteVanishes'
  BY <1>1, <1>4 DEF PortInv, Port, NoByteVanishes
<1> QED
  BY <1>2, <1>5, <1>6, <1>7 DEF Port

LEMMA HandlerStep == ASSUME PortInv, TypeOK', irq1 PROVE Port'
<1>1. /\ data \in Nat /\ data >= 1 /\ data' = data /\ irr /\ irr' = FALSE
      /\ output_full' = FALSE /\ seen' = seen /\ shell' = shell /\ taken' = taken
      /\ ToSet(Ringed) \subseteq 1 .. data - 1
      /\ StrictlyIncreasing(Ringed)
  BY MaxKeysAssumption DEF PortInv, Port, Types, Pending, NoRepeats, irq1
<1>2. ToSet(seen)' = ToSet(seen)
  BY <1>1 DEF ToSet
<1>3. Types'
  <2>1. output_full' \in BOOLEAN /\ irr' \in BOOLEAN
    BY <1>1, Zenon
  <2> QED
    BY <1>1, <2>1 DEF PortInv, Port, Types
<1>4. Pending'
  BY <1>1, <1>2 DEF PortInv, Port, Pending
<1>5. Ringed \in Seq(Nat)
  BY RingedSeq DEF PortInv, Port, RingInv, Types
<1>6. CASE Ringed' = Append(Ringed, data) /\ dropped' = dropped
  <2>1. ToSet(Ringed)' = ToSet(Ringed) \cup {data} /\ StrictlyIncreasing(Ringed)'
    <3>1. ToSet(Append(Ringed, data)) = ToSet(Ringed) \cup {data}
      BY <1>1, <1>5, AppendSet
    <3>2. StrictlyIncreasing(Append(Ringed, data))
      BY <1>1, <1>5, AppendIncreasing
    <3> QED
      BY <1>6, <3>1, <3>2 DEF ToSet, StrictlyIncreasing
  <2>2. NoRepeats'
    BY <1>1, <1>2, <2>1 DEF PortInv, Port, NoRepeats, StrictlyIncreasing
  <2>3. NoByteVanishes'
    BY <1>1, <1>2, <1>6, <2>1 DEF PortInv, Port, NoByteVanishes
  <2> QED
    BY <1>3, <1>4, <2>2, <2>3 DEF Port
<1>7. CASE Ringed' = Ringed /\ dropped' = dropped \cup {data}
  <2>1. ToSet(Ringed)' = ToSet(Ringed)
    BY <1>7 DEF ToSet
  <2>2. NoRepeats'
    BY <1>1, <1>2, <1>7, <2>1 DEF PortInv, Port, NoRepeats, StrictlyIncreasing
  <2>3. NoByteVanishes'
    BY <1>1, <1>2, <1>7, <2>1 DEF PortInv, Port, NoByteVanishes
  <2> QED
    BY <1>3, <1>4, <2>2, <2>3 DEF Port
<1> QED
  BY <1>6, <1>7, HandlerRinged

LEMMA WaitStep == ASSUME PortInv, kb_wait_output PROVE Port'
<1>0. Ringed' = Ringed
  BY SameRinged DEF kb_wait_output, vars
<1>1. /\ output_full /\ shell' = "read" /\ data' = data /\ output_full' = output_full
      /\ irr' = irr /\ taken' = taken /\ seen' = seen /\ dropped' = dropped
  BY DEF kb_wait_output, port
<1>2. Types' /\ Pending'
  BY <1>0, <1>1 DEF PortInv, Port, Types, Pending, ToSet
<1>3. NoRepeats' /\ NoByteVanishes'
  BY <1>0, <1>1 DEF PortInv, Port, NoRepeats, NoByteVanishes, StrictlyIncreasing, ToSet
<1> QED
  BY <1>2, <1>3 DEF Port

LEMMA ReadStep == ASSUME PortInv, kb_read_scancode PROVE Port'
<1>0. /\ irr \in BOOLEAN /\ irr' \in BOOLEAN /\ (irr' => irr)
      /\ output_full' = FALSE /\ output_full' \in BOOLEAN
  <2>1. irr \in BOOLEAN /\ irr' \in {irr, FALSE} /\ output_full' = FALSE
    BY Zenon DEF PortInv, Port, Types, kb_read_scancode
  <2>2. CASE irr' = irr
    BY <2>1, <2>2, Zenon
  <2>3. CASE irr' = FALSE
    BY <2>1, <2>3, Zenon
  <2>4. irr' = irr \/ irr' = FALSE
    BY <2>1, Zenon
  <2> QED
    BY <2>2, <2>3, <2>4, Zenon
<1>1. Ringed' = Ringed
  BY SameRinged DEF kb_read_scancode, vars
<1>2. /\ data \in Nat /\ data >= 1 /\ data' = data /\ taken' = taken
      /\ shell' = "wait" /\ seen' = Append(seen, data)
      /\ dropped' = dropped /\ seen \in Seq(Nat)
      /\ ToSet(seen) \subseteq 1 .. data - 1 /\ StrictlyIncreasing(seen)
  BY MaxKeysAssumption DEF PortInv, Port, Types, Pending, NoRepeats, kb_read_scancode
<1>3. ToSet(Ringed)' = ToSet(Ringed)
  BY <1>1 DEF ToSet
<1>4. ToSet(seen)' = ToSet(seen) \cup {data} /\ StrictlyIncreasing(seen)'
  <2>1. ToSet(Append(seen, data)) = ToSet(seen) \cup {data}
    BY <1>2, AppendSet
  <2>2. StrictlyIncreasing(Append(seen, data))
    BY <1>2, AppendIncreasing
  <2> QED
    BY <1>2, <2>1, <2>2 DEF ToSet, StrictlyIncreasing
<1>5. Types'
  <2>1. seen' \in Seq(Nat)
    BY <1>2
  <2> QED
    BY <1>0, <1>2, <2>1 DEF PortInv, Port, Types
<1>6. Pending'
  BY <1>0, <1>2, <1>3 DEF PortInv, Port, Pending
<1>7. NoRepeats'
  BY <1>1, <1>2, <1>3, <1>4 DEF PortInv, Port, NoRepeats, StrictlyIncreasing
<1>8. NoByteVanishes'
  BY <1>2, <1>3, <1>4 DEF PortInv, Port, NoByteVanishes
<1> QED
  BY <1>5, <1>6, <1>7, <1>8 DEF Port

LEMMA OtherStep ==
  ASSUME PortInv, Ringed' = Ringed, taken' \in Seq(Nat),
         UNCHANGED <<port, shell, seen, dropped>>
  PROVE  Port'
<1>1. /\ data' = data /\ output_full' = output_full /\ irr' = irr
      /\ shell' = shell /\ seen' = seen /\ dropped' = dropped
  BY DEF port
<1>2. Types'
  BY <1>1 DEF PortInv, Port, Types
<1>3. Pending'
  BY <1>1 DEF PortInv, Port, Pending, ToSet
<1>4. NoRepeats'
  BY <1>1 DEF PortInv, Port, NoRepeats, StrictlyIncreasing, ToSet
<1>5. NoByteVanishes'
  BY <1>1 DEF PortInv, Port, NoByteVanishes, ToSet
<1> QED
  BY <1>2, <1>3, <1>4, <1>5 DEF Port

LEMMA NextPort == PortInv /\ [InputNext]_input_vars => PortInv'
<1> SUFFICES ASSUME PortInv, [InputNext]_input_vars PROVE PortInv'
  OBVIOUS
<1>0. RingInv' /\ TypeOK'
  <2>1. [Next]_vars
    BY InputIsRing DEF PortInv, Port
  <2>2. RingInv'
    BY <2>1, NextRing DEF PortInv
  <2> QED
    BY <2>2 DEF RingInv
<1>1. CASE key
  BY <1>0, <1>1, KeyStep DEF PortInv
<1>2. CASE irq1
  BY <1>0, <1>2, HandlerStep DEF PortInv
<1>3. CASE kb_getchar
  BY <1>0, <1>3, WaitStep, ReadStep DEF kb_getchar, PortInv
<1>4. CASE ring_task
  <2>1. Ringed' = Ringed /\ taken' \in Seq(Nat)
    BY <1>0, <1>4, ReaderRinged
  <2>2. UNCHANGED <<port, shell, seen, dropped>>
    BY <1>4 DEF ring_task
  <2> QED
    BY <1>0, <2>1, <2>2, OtherStep DEF PortInv
<1>5. CASE irq0 \/ UNCHANGED input_vars
  <2>1. UNCHANGED <<buffer_vars, taken, port, shell, seen, dropped>>
    BY <1>5 DEF irq0, timer_irq, input_vars, vars
  <2>2. Ringed' = Ringed /\ taken' \in Seq(Nat)
    BY <2>1, SameRinged DEF PortInv, Port, Types
  <2> QED
    BY <1>0, <2>1, <2>2, OtherStep DEF PortInv
<1> QED
  BY <1>1, <1>2, <1>3, <1>4, <1>5 DEF InputNext

LEMMA PortHolds == InputSpec => []PortInv
  BY InitPort, NextPort, PTL DEF InputSpec

-----------------------------------------------------------------------------
\* The ring buffer stays that queue when its bytes come from the port the shell
\* reads as well: an interrupt taken after the shell was faster to read the byte
\* is one more arrival of that byte.
THEOREM PortFeedsQueue == InputSpec => ImplementsQueue
<1>1. InputInit => Queue!Init
  BY InitQueue DEF InputInit
<1>2. ASSUME PortInv, PortInv', [InputNext]_input_vars PROVE [Queue!Next]_(Queue!vars)
  BY <1>2, InputIsRing, NextQueue DEF PortInv, Port
<1> QED
  BY <1>1, <1>2, PortHolds, PTL DEF InputSpec, ImplementsQueue, Queue!Spec

\* For any number of bytes and every ring size: neither the shell nor the task
\* behind the ring buffer gets a byte twice, out of order, or one that was not
\* sent, although kb_getchar and the IRQ 1 handler read the same port without a
\* lock, and the handler and kb_getchar_irq share the ring buffer without one.
THEOREM ReadersInOrder == InputSpec => []NoRepeats
<1>1. PortInv => NoRepeats
  BY DEF PortInv, Port
<1> QED
  BY <1>1, PortHolds, PTL

\* For any number of bytes and every ring size: every byte that has left the
\* controller was read by the shell, is in the ring buffer or has left it through
\* kb_getchar_irq, or was dropped at a full buffer.
THEOREM EveryByteRead == InputSpec => []NoByteVanishes
<1>1. PortInv => NoByteVanishes
  BY DEF PortInv, Port
<1> QED
  BY <1>1, PortHolds, PTL

=============================================================================
