--------------------------- MODULE StringsProofs ---------------------------
(***************************************************************************)
(* Proofs about the string and memory functions, for memories of every     *)
(* size, all contents and all arguments a caller may pass: the copying     *)
(* functions leave the memory they are meant to leave, the comparing ones  *)
(* return what they are meant to return.                                   *)
(***************************************************************************)
EXTENDS Strings, WellFoundedInduction, TLAPS

-----------------------------------------------------------------------------
(* The inductive invariant: one part for each loop, saying what the rounds *)
(* so far have read and written.                                           *)

\* What stays the same during a call, and the range of everything else.
Setting ==
  /\ before \in [Cells -> 0 .. 255]
  /\ call.fn \in Compare \cup Copy /\ call.p \in Cells /\ call.n \in Nat /\ call.q \in Int
  /\ call.fn # "memset" => call.q \in Cells
  /\ Valid(before, call.fn, call.p, call.q, call.n)

Ranges ==
  /\ mem \in [Cells -> 0 .. 255]
  /\ d \in Int /\ s \in Int /\ n \in Nat
  /\ pc \in {"loop", "fill", "backwards", "done"}
  /\ pc = "fill" => call.fn = "strncpy"
  /\ pc = "backwards" => call.fn = "memmove" /\ call.q <= call.p
  /\ pc = "loop" /\ call.fn = "memmove" => call.p < call.q

\* What the code leaves: strncpy writes one cell more than n when the source is shorter.
Room(m, q, c) == IF Nuls(m, q) # {} /\ Length(m, q) < c THEN c + 1 ELSE c

Stored(c, m) ==
  LET len   == CASE c.fn = "strcpy"  -> Length(m, c.q) + 1
                 [] c.fn = "strncpy" -> Room(m, c.q, c.n)
                 [] OTHER            -> c.n
      at(i) == CASE c.fn = "memset"  -> c.q % 256
                 [] c.fn = "strncpy" -> IF i < Bound(m, c.q, c.n) THEN m[c.q + i] ELSE 0
                 [] OTHER            -> m[c.q + i]
  IN  [k \in Cells |-> IF k \in Area(c.p, len) THEN at(k - c.p) ELSE m[k]]

StoresRight ==
  pc = "done" => mem = IF call.fn \in Copy THEN Stored(call, before) ELSE before

\* The cells a .. b - 1 have got their final contents, the others are as they were.
Written(a, b) ==
  \A k \in Cells : mem[k] = IF k \in a .. b - 1 THEN Stored(call, before)[k] ELSE before[k]

Measuring ==
  pc = "loop" /\ call.fn = "strlen" =>
    mem = before /\ d = call.p /\ n <= Length(before, call.p)

\* Everything so far was equal, and no string has ended.
Comparing ==
  pc = "loop" /\ call.fn \in {"strcmp", "strncmp", "memcmp"} =>
    /\ mem = before
    /\ d >= call.p /\ s = call.q + (d - call.p)
    /\ \A j \in 0 .. (d - call.p) - 1 : before[call.p + j] = before[call.q + j]
    /\ call.fn # "memcmp" => \A j \in 0 .. (d - call.p) - 1 : before[call.p + j] # 0
    /\ call.fn # "strcmp" => n = call.n - (d - call.p)

\* Everything so far has been copied, and the source has not ended.
Copying ==
  pc = "loop" /\ call.fn \in {"strcpy", "strncpy", "memcpy", "memmove"} =>
    /\ d >= call.p /\ s = call.q + (d - call.p)
    /\ Written(call.p, d)
    /\ call.fn \in {"strcpy", "strncpy"} =>
         \A j \in 0 .. (d - call.p) - 1 : before[call.q + j] # 0
    /\ call.fn # "strcpy" => n = call.n - (d - call.p)

Storing ==
  pc = "loop" /\ call.fn = "memset" =>
    d >= call.p /\ n = call.n - (d - call.p) /\ Written(call.p, d)

\* strncpy has copied what there is; n cells are left to be cleared.
Filling ==
  pc = "fill" =>
    /\ d = call.p + (Room(before, call.q, call.n) - n)
    /\ d - call.p >= Bound(before, call.q, call.n)
    /\ Written(call.p, d)

Descending ==
  pc = "backwards" =>
    /\ d = call.p + n /\ s = call.q + n /\ n <= call.n
    /\ Written(call.p + n, call.p + call.n)

Loops == Measuring /\ Comparing /\ Copying /\ Storing /\ Filling /\ Descending

IInv == Setting /\ Ranges /\ Loops /\ StoresRight /\ ComparesRight

-----------------------------------------------------------------------------
(* Least elements. *)

LEMMA Least ==
  ASSUME NEW S \in SUBSET Nat, S # {}
  PROVE  \E m \in S : \A k \in S : m <= k
<1> DEFINE R == OpToRel(<, Nat)
<1>1. \E m \in S : \A k \in S : ~ (<<k, m>> \in R)
  <2>1. IsWellFoundedOn(R, Nat)
    BY NatLessThanWellFounded
  <2> HIDE DEF R
  <2> QED
    BY <2>1, WFMin
<1>2. PICK m \in S : \A k \in S : ~ (<<k, m>> \in R)
  BY <1>1
<1>3. \A k \in S : ~(k < m)
  BY <1>2 DEF OpToRel
<1> QED
  BY <1>3

LEMMA MinFacts ==
  ASSUME NEW S \in SUBSET Nat, S # {}
  PROVE  Min(S) \in S /\ \A k \in S : Min(S) <= k
BY Least DEF Min

LEMMA MinOfTwo ==
  ASSUME NEW a \in Nat, NEW b \in Nat
  PROVE  /\ Min({a, b}) \in Nat /\ Min({a, b}) <= a /\ Min({a, b}) <= b
         /\ Min({a, b}) = a \/ Min({a, b}) = b
BY MinFacts

LEMMA MinIs ==
  ASSUME NEW S \in SUBSET Nat, NEW i \in S, \A k \in S : i <= k
  PROVE  Min(S) = i
<1>1. PICK x : x = Min(S)
  OBVIOUS
<1>2. x \in S /\ x <= i
  BY <1>1, MinFacts
<1>3. x \in Nat /\ i \in Nat /\ i <= x
  BY <1>2
<1>4. x = i
  BY <1>2, <1>3
<1> QED
  BY <1>1, <1>4

-----------------------------------------------------------------------------
(* Strings in memory. *)

LEMMA CellNumbers ==
  /\ Size \in Nat /\ Size >= 1 /\ 0 \in Cells
  /\ \A k : k \in Cells <=> k \in Nat /\ k < Size
BY SizeAssumption DEF Cells

\* The NUL of a string is in memory, and no other before it.
LEMMA LengthFacts ==
  ASSUME NEW m, NEW p \in Cells, Nuls(m, p) # {}
  PROVE  /\ Length(m, p) \in Nat /\ p + Length(m, p) \in Cells /\ m[p + Length(m, p)] = 0
         /\ \A j \in Nat : p + j \in Cells /\ m[p + j] = 0 => Length(m, p) <= j
<1>1. Nuls(m, p) \in SUBSET Nat
  BY CellNumbers DEF Nuls
<1>2. PICK x : x = Min(Nuls(m, p))
  OBVIOUS
<1>3. x \in Nuls(m, p) /\ \A k \in Nuls(m, p) : x <= k
  BY <1>1, <1>2, MinFacts
<1>4. x \in Cells /\ x \in Nat /\ p \in Nat /\ p <= x /\ m[x] = 0
  BY <1>3, CellNumbers DEF Nuls
<1>5. Length(m, p) = x - p
  BY <1>2 DEF Length
<1>6. x - p \in Nat /\ p + (x - p) = x
  BY <1>4
<1>7. ASSUME NEW j \in Nat, p + j \in Cells, m[p + j] = 0 PROVE x - p <= j
  <2>1. p + j >= p
    BY <1>4
  <2>2. p + j \in Nuls(m, p)
    BY <1>7, <2>1 DEF Nuls
  <2>3. x <= p + j
    BY <1>3, <2>2
  <2> QED
    BY <1>4, <2>3
<1> QED
  BY <1>4, <1>5, <1>6, <1>7

\* Reading on as long as there is no NUL does not lead beyond the end of a string.
LEMMA NotBeyond ==
  ASSUME NEW m, NEW p \in Cells, Nuls(m, p) # {}, NEW i \in Nat,
         \A j \in 0 .. i - 1 : m[p + j] # 0
  PROVE  /\ i <= Length(m, p) /\ p + i \in Cells
         /\ m[p + i] = 0 => Length(m, p) = i
         /\ m[p + i] # 0 => i < Length(m, p)
<1>1. PICK len : len = Length(m, p)
  OBVIOUS
<1>2. /\ len \in Nat /\ p + len \in Cells /\ m[p + len] = 0
      /\ \A j \in Nat : p + j \in Cells /\ m[p + j] = 0 => len <= j
  BY <1>1, LengthFacts
<1>3. i <= len
  <2>1. ~ (len \in 0 .. i - 1)
    BY <1>2
  <2> QED
    BY <1>2, <2>1
<1>4. p + i \in Cells
  BY <1>2, <1>3, CellNumbers
<1>5. m[p + i] = 0 => len = i
  BY <1>2, <1>3, <1>4
<1>6. m[p + i] # 0 => i < len
  BY <1>2, <1>3
<1> QED
  BY <1>1, <1>3, <1>4, <1>5, <1>6

\* A place without a NUL in reach.
LEMMA NoNul ==
  ASSUME NEW m, NEW p \in Cells, NEW j \in Nat, p + j \in Cells, m[p + j] = 0
  PROVE  Nuls(m, p) # {}
<1>1. p + j >= p
  BY CellNumbers
<1> QED
  BY <1>1 DEF Nuls

LEMMA BoundFacts ==
  ASSUME NEW m, NEW p \in Cells, NEW c \in Nat
  PROVE  /\ Bound(m, p, c) \in Nat /\ Bound(m, p, c) <= c
         /\ Nuls(m, p) # {} => Bound(m, p, c) <= Length(m, p) + 1
         /\ Nuls(m, p) = {} => Bound(m, p, c) = c
         /\ Nuls(m, p) # {} => Bound(m, p, c) = c \/ Bound(m, p, c) = Length(m, p) + 1
<1>1. CASE Nuls(m, p) # {}
  <2>1. PICK l : l = Length(m, p) + 1
    OBVIOUS
  <2>2. l \in Nat
    BY <1>1, <2>1, LengthFacts
  <2>3. Bound(m, p, c) = Min({c, l})
    BY <1>1, <2>1 DEF Bound
  <2> QED
    BY <1>1, <2>1, <2>2, <2>3, MinOfTwo
<1>2. CASE Nuls(m, p) = {}
  BY <1>2 DEF Bound
<1> QED
  BY <1>1, <1>2

-----------------------------------------------------------------------------
(* What the functions are for, one function at a time. *)

LEMMA TargetPlain ==
  ASSUME NEW c, NEW m, c.fn \in {"memcpy", "memmove"}
  PROVE  /\ Stored(c, m) = [k \in Cells |-> IF k \in Area(c.p, c.n) THEN m[c.q + (k - c.p)] ELSE m[k]]
BY DEF Stored

LEMMA TargetSet ==
  ASSUME NEW c, NEW m, c.fn = "memset"
  PROVE  Stored(c, m) = [k \in Cells |-> IF k \in Area(c.p, c.n) THEN c.q % 256 ELSE m[k]]
BY DEF Stored

LEMMA TargetString ==
  ASSUME NEW c, NEW m, c.fn = "strcpy"
  PROVE  Stored(c, m) = [k \in Cells |-> IF k \in Area(c.p, Length(m, c.q) + 1)
                                         THEN m[c.q + (k - c.p)] ELSE m[k]]
BY DEF Stored

LEMMA TargetPadded ==
  ASSUME NEW c, NEW m, c.fn = "strncpy"
  PROVE  Stored(c, m) = [k \in Cells |-> IF k \in Area(c.p, Room(m, c.q, c.n))
                                         THEN IF k - c.p < Bound(m, c.q, c.n)
                                              THEN m[c.q + (k - c.p)] ELSE 0
                                         ELSE m[k]]
BY DEF Stored

\* The first difference is the one that counts.
LEMMA FirstDifference ==
  ASSUME NEW c, NEW m, NEW limit \in Nat, NEW P,
         P = {i \in 0 .. limit - 1 : m[c.p + i] # m[c.q + i]}
  PROVE  /\ (\A j \in 0 .. limit - 1 : m[c.p + j] = m[c.q + j]) => P = {}
         /\ \A i \in Nat : /\ i < limit /\ m[c.p + i] # m[c.q + i]
                           /\ \A j \in 0 .. i - 1 : m[c.p + j] = m[c.q + j]
                           => P # {} /\ Min(P) = i
<1>1. P \in SUBSET Nat
  OBVIOUS
<1>2. ASSUME NEW i \in Nat, i < limit, m[c.p + i] # m[c.q + i],
             \A j \in 0 .. i - 1 : m[c.p + j] = m[c.q + j]
      PROVE  P # {} /\ Min(P) = i
  <2>1. i \in P
    BY <1>2
  <2>2. ASSUME NEW k \in P PROVE i <= k
    <3>1. k \in Nat /\ ~ (k \in 0 .. i - 1)
      BY <1>2
    <3> QED
      BY <3>1
  <2> QED
    BY <1>1, <2>1, <2>2, MinIs
<1> QED
  BY <1>2

LEMMA ComparedValue ==
  ASSUME NEW c, NEW m, NEW limit \in Nat, c.fn \in {"strcmp", "strncmp", "memcmp"},
         c.fn = "strcmp" => limit = Min({Length(m, c.p), Length(m, c.q)}) + 1,
         c.fn = "strncmp" => limit = Min({Bound(m, c.p, c.n), Bound(m, c.q, c.n)}),
         c.fn = "memcmp" => limit = c.n
  PROVE  /\ (\A j \in 0 .. limit - 1 : m[c.p + j] = m[c.q + j]) => Compared(c, m) = 0
         /\ \A i \in Nat : /\ i < limit /\ m[c.p + i] # m[c.q + i]
                           /\ \A j \in 0 .. i - 1 : m[c.p + j] = m[c.q + j]
                           => Compared(c, m) = m[c.p + i] - m[c.q + i]
<1>1. PICK P : P = {i \in 0 .. limit - 1 : m[c.p + i] # m[c.q + i]}
  OBVIOUS
<1>2. Compared(c, m) = IF P = {} THEN 0 ELSE m[c.p + Min(P)] - m[c.q + Min(P)]
  BY <1>1 DEF Compared
<1>3. (\A j \in 0 .. limit - 1 : m[c.p + j] = m[c.q + j]) => P = {}
  BY <1>1
<1>4. ASSUME NEW i \in Nat, i < limit, m[c.p + i] # m[c.q + i],
             \A j \in 0 .. i - 1 : m[c.p + j] = m[c.q + j]
      PROVE  Compared(c, m) = m[c.p + i] - m[c.q + i]
  <2>1. P # {} /\ Min(P) = i
    BY <1>1, <1>4, FirstDifference
  <2> QED
    BY <1>2, <2>1
<1> QED
  BY <1>2, <1>3, <1>4

\* The first i bytes are equal.
Agree(m, p, q, i) == \A j \in 0 .. i - 1 : m[p + j] = m[q + j]

Limit(c, m, limit) ==
  /\ c.fn \in {"strcmp", "strncmp", "memcmp"}
  /\ c.fn = "strcmp" => limit = Min({Length(m, c.p), Length(m, c.q)}) + 1
  /\ c.fn = "strncmp" => limit = Min({Bound(m, c.p, c.n), Bound(m, c.q, c.n)})
  /\ c.fn = "memcmp" => limit = c.n

\* The same for one place.
LEMMA ComparedAt ==
  ASSUME NEW c, NEW m, NEW limit \in Nat, Limit(c, m, limit), NEW i \in Nat, i < limit,
         m[c.p + i] # m[c.q + i], Agree(m, c.p, c.q, i)
  PROVE  Compared(c, m) = m[c.p + i] - m[c.q + i]
BY ComparedValue DEF Limit, Agree

LEMMA CopiedFunction ==
  ASSUME NEW c, NEW m
  PROVE  Stored(c, m) = [k \in Cells |-> Stored(c, m)[k]]
BY DEF Stored

-----------------------------------------------------------------------------
(* Steps that all functions share. *)

LEMMA SettingKept == ASSUME Setting, UNCHANGED <<call, before>> PROVE Setting'
BY DEF Setting

\* One more cell, at the upper end of those written or at the lower one.
LEMMA WriteUp ==
  ASSUME Ranges, NEW a \in Int, NEW e \in Cells, a <= e, Written(a, e),
         mem' = [mem EXCEPT ![e] = Stored(call, before)[e]]
  PROVE  \A k \in Cells : mem'[k] = IF k \in a .. (e + 1) - 1
                                    THEN Stored(call, before)[k] ELSE before[k]
<1> SUFFICES ASSUME NEW k \in Cells
             PROVE  mem'[k] = IF k \in a .. (e + 1) - 1 THEN Stored(call, before)[k] ELSE before[k]
  OBVIOUS
<1>1. k \in Int /\ e \in Int
  BY CellNumbers
<1>2. mem[k] = IF k \in a .. e - 1 THEN Stored(call, before)[k] ELSE before[k]
  BY DEF Written
<1>3. CASE k = e
  <2>1. k \in a .. (e + 1) - 1
    BY <1>1, <1>3
  <2>2. mem'[k] = Stored(call, before)[k]
    BY <1>3 DEF Ranges
  <2> QED
    BY <2>1, <2>2
<1>4. CASE k # e
  <2>1. k \in a .. (e + 1) - 1 <=> k \in a .. e - 1
    BY <1>1, <1>4
  <2>2. mem'[k] = mem[k]
    BY <1>4 DEF Ranges
  <2> QED
    BY <1>2, <2>1, <2>2
<1> QED
  BY <1>3, <1>4

LEMMA WriteDown ==
  ASSUME Ranges, NEW a \in Cells, NEW e \in Int, a < e, Written(a + 1, e),
         mem' = [mem EXCEPT ![a] = Stored(call, before)[a]]
  PROVE  \A k \in Cells : mem'[k] = IF k \in a .. e - 1
                                    THEN Stored(call, before)[k] ELSE before[k]
<1> SUFFICES ASSUME NEW k \in Cells
             PROVE  mem'[k] = IF k \in a .. e - 1 THEN Stored(call, before)[k] ELSE before[k]
  OBVIOUS
<1>1. k \in Int /\ a \in Int
  BY CellNumbers
<1>2. mem[k] = IF k \in a + 1 .. e - 1 THEN Stored(call, before)[k] ELSE before[k]
  BY DEF Written
<1>3. CASE k = a
  <2>1. k \in a .. e - 1
    BY <1>1, <1>3
  <2>2. mem'[k] = Stored(call, before)[k]
    BY <1>3 DEF Ranges
  <2> QED
    BY <2>1, <2>2
<1>4. CASE k # a
  <2>1. k \in a .. e - 1 <=> k \in a + 1 .. e - 1
    BY <1>1, <1>4
  <2>2. mem'[k] = mem[k]
    BY <1>4 DEF Ranges
  <2> QED
    BY <1>2, <2>1, <2>2
<1> QED
  BY <1>3, <1>4

\* All that had to be written has been written.
LEMMA Finished ==
  ASSUME NEW c, NEW m, NEW M \in [Cells -> 0 .. 255], NEW a, NEW e,
         \A k \in Cells : M[k] = IF k \in a .. e - 1 THEN Stored(c, m)[k] ELSE m[k],
         \A k \in Cells : k \notin a .. e - 1 => Stored(c, m)[k] = m[k]
  PROVE  M = Stored(c, m)
<1>1. PICK T : T = Stored(c, m)
  OBVIOUS
<1>2. T = [k \in Cells |-> T[k]]
  BY <1>1, CopiedFunction
<1>3. \A k \in Cells : M[k] = T[k]
  BY <1>1
<1>4. M = [k \in Cells |-> M[k]]
  OBVIOUS
<1>5. M = T
  BY <1>2, <1>3, <1>4
<1> QED
  BY <1>1, <1>5

LEMMA ReturnStep ==
  ASSUME IInv, NEW v, return(v),
         call.fn \in Copy => mem = Stored(call, before),
         call.fn \in Compare => mem = before,
         call.fn \in Compare =>
           v = IF call.fn = "strlen" THEN Length(before, call.p) ELSE Compared(call, before)
  PROVE  IInv'
<1>1. /\ pc' = "done" /\ ret' = v /\ mem' = mem /\ call' = call /\ d' = d /\ s' = s /\ n' = n
      /\ before' = before
  BY DEF return
<1>2. Setting' /\ call.fn \in Compare \cup Copy
  BY <1>1, SettingKept DEF IInv, Setting
<1>3. Ranges'
  BY <1>1 DEF IInv, Ranges
<1>4. Loops'
  BY <1>1 DEF Loops, Measuring, Comparing, Copying, Storing, Filling, Descending
<1>5. ~ (call.fn \in Copy /\ call.fn \in Compare)
  BY DEF Copy, Compare
<1>6. StoresRight'
  BY <1>1, <1>2, <1>5 DEF StoresRight
<1>7. ComparesRight'
  BY <1>1 DEF ComparesRight
<1> QED
  BY <1>2, <1>3, <1>4, <1>6, <1>7 DEF IInv

\* No property of the end is due before it.
LEMMA NotDone == ASSUME pc' # "done" PROVE StoresRight' /\ ComparesRight'
BY DEF StoresRight, ComparesRight

-----------------------------------------------------------------------------
(* The functions that look. *)

LEMMA StrlenStep == IInv /\ strlen => IInv'
<1> SUFFICES ASSUME IInv, strlen PROVE IInv'
  OBVIOUS
<1>0. Setting /\ Ranges /\ Loops
  BY DEF IInv
<1>1. pc = "loop" /\ call.fn = "strlen" /\ call.fn \in Compare /\ call.fn \notin Copy
  BY DEF strlen, in, Compare, Copy
<1>2. PICK p, m, len : p = call.p /\ m = before /\ len = Length(before, call.p)
  OBVIOUS
<1>3. mem = m /\ d = p /\ n <= len /\ n \in Nat
  BY <1>0, <1>1, <1>2 DEF Loops, Measuring, Ranges
<1>4. p \in Cells /\ Nuls(m, p) # {}
  BY <1>0, <1>1, <1>2 DEF Setting, Valid
<1>5. /\ len \in Nat /\ p + len \in Cells /\ m[p + len] = 0
      /\ \A j \in Nat : p + j \in Cells /\ m[p + j] = 0 => len <= j
  BY <1>2, <1>4, LengthFacts
<1>6. CASE mem[d + n] # 0 /\ n' = n + 1 /\ UNCHANGED <<mem, call, d, s, pc, ret, before>>
  <2>1. n + 1 <= len /\ n' \in Nat
    BY <1>3, <1>5, <1>6
  <2>2. Setting'
    BY <1>0, <1>6, SettingKept
  <2>3. Ranges'
    BY <1>0, <1>6, <2>1 DEF Ranges
  <2>4. Loops'
    BY <1>0, <1>1, <1>2, <1>6, <2>1
       DEF Loops, Measuring, Comparing, Copying, Storing, Filling, Descending
  <2> QED
    BY <1>1, <1>6, <2>2, <2>3, <2>4, NotDone DEF IInv
<1>7. CASE mem[d + n] = 0 /\ return(n)
  <2>1. p + n \in Cells
    BY <1>3, <1>4, <1>5, CellNumbers
  <2>2. n = len
    BY <1>3, <1>5, <1>7, <2>1
  <2> QED
    BY <1>1, <1>2, <1>3, <1>7, <2>2, ReturnStep
<1> QED
  BY <1>6, <1>7 DEF strlen

\* What the rounds of a comparison have left, in terms of the number i of rounds.
LEMMA Compares ==
  ASSUME Setting, Ranges, Comparing, pc = "loop", call.fn \in {"strcmp", "strncmp", "memcmp"},
         NEW p, NEW q, NEW m, NEW i, p = call.p, q = call.q, m = before, i = d - call.p
  PROVE  /\ i \in Nat /\ p \in Cells /\ q \in Cells /\ mem = m /\ d = p + i /\ s = q + i
         /\ \A j \in 0 .. i - 1 : m[p + j] = m[q + j]
         /\ call.fn # "memcmp" => \A j \in 0 .. i - 1 : m[p + j] # 0 /\ m[q + j] # 0
         /\ call.fn # "strcmp" => n = call.n - i
<1>1. call.fn # "memset" /\ p \in Cells /\ q \in Cells
  BY DEF Setting
<1>2. /\ mem = m /\ d >= p /\ s = q + i
      /\ \A j \in 0 .. i - 1 : m[p + j] = m[q + j]
      /\ call.fn # "memcmp" => \A j \in 0 .. i - 1 : m[p + j] # 0
      /\ call.fn # "strcmp" => n = call.n - i
  BY DEF Comparing
<1>3. d \in Int /\ p \in Int
  BY <1>1, CellNumbers DEF Ranges
<1>4. i \in Nat /\ d = p + i
  BY <1>2, <1>3
<1> QED
  BY <1>1, <1>2, <1>4

\* A round that goes on.
LEMMA LookStep ==
  ASSUME IInv, pc = "loop", call.fn \in {"strcmp", "strncmp", "memcmp"}, look,
         mem[d] = mem[s], call.fn # "memcmp" => mem[d] # 0,
         call.fn # "strcmp" => n # 0 /\ n' = n - 1, call.fn = "strcmp" => n' = n
  PROVE  IInv'
<1>0. Setting /\ Ranges /\ Comparing
  BY DEF IInv, Loops
<1>1. d' = d + 1 /\ s' = s + 1 /\ mem' = mem /\ call' = call /\ pc' = pc /\ before' = before
  BY DEF look, advance
<1>2. PICK p, q, m, i : p = call.p /\ q = call.q /\ m = before /\ i = d - call.p
  OBVIOUS
<1>3. /\ i \in Nat /\ p \in Cells /\ q \in Cells /\ mem = m /\ d = p + i /\ s = q + i
      /\ \A j \in 0 .. i - 1 : m[p + j] = m[q + j]
      /\ call.fn # "memcmp" => \A j \in 0 .. i - 1 : m[p + j] # 0 /\ m[q + j] # 0
      /\ call.fn # "strcmp" => n = call.n - i
  BY <1>0, <1>2, Compares
<1>4. p \in Int /\ q \in Int /\ n \in Nat /\ d' - p = i + 1 /\ call.n \in Nat
  BY <1>0, <1>1, <1>3, CellNumbers DEF Ranges, Setting
<1>5. n' \in Nat /\ (call.fn # "strcmp" => n' = call.n - (i + 1))
  BY <1>3, <1>4
<1>6. \A j \in 0 .. (i + 1) - 1 : m[p + j] = m[q + j]
  <2> SUFFICES ASSUME NEW j \in 0 .. (i + 1) - 1 PROVE m[p + j] = m[q + j]
    OBVIOUS
  <2>1. j \in 0 .. i - 1 \/ j = i
    BY <1>3
  <2> QED
    BY <1>3, <2>1
<1>7. call.fn # "memcmp" => \A j \in 0 .. (i + 1) - 1 : m[p + j] # 0
  <2> SUFFICES ASSUME call.fn # "memcmp", NEW j \in 0 .. (i + 1) - 1 PROVE m[p + j] # 0
    OBVIOUS
  <2>1. j \in 0 .. i - 1 \/ j = i
    BY <1>3
  <2> QED
    BY <1>3, <2>1
<1>8. Setting'
  BY <1>0, <1>1, SettingKept
<1>9. Ranges'
  BY <1>0, <1>1, <1>5 DEF Ranges
<1>10. Comparing'
  <2>1. d' >= call'.p /\ s' = call'.q + (d' - call'.p)
    BY <1>1, <1>2, <1>3, <1>4
  <2> QED
    BY <1>1, <1>2, <1>3, <1>4, <1>5, <1>6, <1>7, <2>1 DEF Comparing
<1>11. Loops'
  BY <1>1, <1>10 DEF Loops, Measuring, Copying, Storing, Filling, Descending
<1> QED
  BY <1>1, <1>8, <1>9, <1>11, NotDone DEF IInv

LEMMA StrcmpStep == IInv /\ strcmp => IInv'
<1> SUFFICES ASSUME IInv, strcmp PROVE IInv'
  OBVIOUS
<1>0. Setting /\ Ranges /\ Comparing
  BY DEF IInv, Loops
<1>1. pc = "loop" /\ call.fn = "strcmp" /\ call.fn \in Compare /\ call.fn \notin Copy
  BY DEF strcmp, in, Compare, Copy
<1>2. PICK p, q, m, i : p = call.p /\ q = call.q /\ m = before /\ i = d - call.p
  OBVIOUS
<1>3. /\ i \in Nat /\ p \in Cells /\ q \in Cells /\ mem = m /\ d = p + i /\ s = q + i
      /\ \A j \in 0 .. i - 1 : m[p + j] = m[q + j]
      /\ \A j \in 0 .. i - 1 : m[p + j] # 0
      /\ \A j \in 0 .. i - 1 : m[q + j] # 0
  BY <1>0, <1>1, <1>2, Compares
<1>4. Nuls(m, p) # {} /\ Nuls(m, q) # {}
  BY <1>0, <1>1, <1>2 DEF Setting, Valid
<1>5. PICK lp, lq : lp = Length(m, p) /\ lq = Length(m, q)
  OBVIOUS
<1>6. /\ i <= lp /\ (m[p + i] = 0 => lp = i)
      /\ i <= lq /\ (m[q + i] = 0 => lq = i)
  BY <1>3, <1>4, <1>5, NotBeyond
<1>7. lp \in Nat /\ lq \in Nat
  BY <1>3, <1>4, <1>5, LengthFacts
<1>8. CASE mem[d] # 0 /\ mem[d] = mem[s] /\ look /\ UNCHANGED n
  BY <1>1, <1>8, LookStep
<1>9. CASE (mem[d] = 0 \/ mem[d] # mem[s]) /\ return(mem[d] - mem[s])
  <2>1. PICK limit : limit = Min({lp, lq}) + 1
    OBVIOUS
  <2>2. limit \in Nat /\ i < limit /\ (lp = i => limit = i + 1)
    BY <1>3, <1>6, <1>7, <2>1, MinOfTwo
  <2>3. mem[d] - mem[s] = Compared(call, before)
    <3>1. CASE m[p + i] # m[q + i]
      <4>1. Compared(call, m) = m[p + i] - m[q + i]
        <5>1. i \in Nat /\ i < limit /\ limit \in Nat /\ p = call.p /\ q = call.q
          BY <1>2, <1>3, <2>2
        <5>2. \A j \in 0 .. i - 1 : m[p + j] = m[q + j]
          BY <1>3
        <5>3. limit = Min({Length(m, call.p), Length(m, call.q)}) + 1
          BY <1>2, <1>5, <2>1
        <5>4. Limit(call, m, limit)
          BY <1>1, <5>3 DEF Limit
        <5>5. Agree(m, call.p, call.q, i) /\ m[call.p + i] # m[call.q + i]
          BY <3>1, <5>1, <5>2 DEF Agree
        <5>6. Compared(call, m) = m[call.p + i] - m[call.q + i]
          BY <5>1, <5>4, <5>5, ComparedAt
        <5> QED
          BY <5>1, <5>6
      <4> QED
        BY <1>2, <1>3, <4>1
    <3>2. CASE m[p + i] = m[q + i]
      <4>1. m[p + i] = 0 /\ m[q + i] = 0 /\ limit = i + 1
        BY <1>3, <1>6, <1>9, <2>2, <3>2
      <4>2. \A j \in 0 .. limit - 1 : m[p + j] = m[q + j]
        <5> SUFFICES ASSUME NEW j \in 0 .. limit - 1 PROVE m[p + j] = m[q + j]
          OBVIOUS
        <5>1. j \in 0 .. i - 1 \/ j = i
          BY <1>3, <4>1
        <5> QED
          BY <1>3, <3>2, <5>1
      <4>3. Compared(call, m) = 0
        BY <1>1, <1>2, <1>5, <2>1, <2>2, <4>2, ComparedValue
      <4> QED
        BY <1>2, <1>3, <4>1, <4>3
    <3> QED
      BY <3>1, <3>2
  <2> QED
    BY <1>1, <1>2, <1>3, <1>9, <2>3, ReturnStep
<1> QED
  BY <1>8, <1>9 DEF strcmp

LEMMA StrncmpStep == IInv /\ strncmp => IInv'
<1> SUFFICES ASSUME IInv, strncmp PROVE IInv'
  OBVIOUS
<1>0. Setting /\ Ranges /\ Comparing
  BY DEF IInv, Loops
<1>1. pc = "loop" /\ call.fn = "strncmp" /\ call.fn \in Compare /\ call.fn \notin Copy
  BY DEF strncmp, in, Compare, Copy
<1>2. PICK p, q, m, i, c : /\ p = call.p /\ q = call.q /\ m = before /\ i = d - call.p
                           /\ c = call.n
  OBVIOUS
<1>3. /\ i \in Nat /\ p \in Cells /\ q \in Cells /\ mem = m /\ d = p + i /\ s = q + i
      /\ \A j \in 0 .. i - 1 : m[p + j] = m[q + j]
      /\ \A j \in 0 .. i - 1 : m[p + j] # 0
      /\ \A j \in 0 .. i - 1 : m[q + j] # 0
      /\ n = c - i
  BY <1>0, <1>1, <1>2, Compares
<1>4. c \in Nat /\ n \in Nat /\ i <= c
  <2>1. c \in Nat /\ n \in Nat
    BY <1>0, <1>2 DEF Setting, Ranges
  <2>2. i \in Nat /\ n = c - i
    BY <1>3
  <2> QED
    BY <2>1, <2>2
<1>5. PICK bp, bq, limit : bp = Bound(m, p, c) /\ bq = Bound(m, q, c) /\ limit = Min({bp, bq})
  OBVIOUS
<1>6. bp \in Nat /\ bq \in Nat /\ bp <= c /\ bq <= c
  BY <1>3, <1>4, <1>5, BoundFacts
<1>7. limit \in Nat /\ limit <= bp /\ limit <= bq /\ (limit = bp \/ limit = bq)
  BY <1>5, <1>6, MinOfTwo
<1>8. i < c => i < bp
  <2>1. CASE Nuls(m, p) = {}
    BY <1>3, <1>4, <1>5, <2>1, BoundFacts
  <2>2. CASE Nuls(m, p) # {}
    <3>1. i <= Length(m, p) /\ Length(m, p) \in Nat
      BY <1>3, <2>2, NotBeyond, LengthFacts
    <3>2. bp = c \/ bp = Length(m, p) + 1
      BY <1>3, <1>4, <1>5, <2>2, BoundFacts
    <3> QED
      BY <1>3, <1>4, <3>1, <3>2
  <2> QED
    BY <2>1, <2>2
<1>9. i < c => i < bq
  <2>1. CASE Nuls(m, q) = {}
    BY <1>3, <1>4, <1>5, <2>1, BoundFacts
  <2>2. CASE Nuls(m, q) # {}
    <3>1. i <= Length(m, q) /\ Length(m, q) \in Nat
      BY <1>3, <2>2, NotBeyond, LengthFacts
    <3>2. bq = c \/ bq = Length(m, q) + 1
      BY <1>3, <1>4, <1>5, <2>2, BoundFacts
    <3> QED
      BY <1>3, <1>4, <3>1, <3>2
  <2> QED
    BY <2>1, <2>2
<1>10. CASE n # 0 /\ mem[d] # 0 /\ mem[d] = mem[s] /\ look /\ n' = n - 1
  BY <1>1, <1>10, LookStep
<1>11. CASE n = 0 /\ return(0)
  <2>1. \A j \in 0 .. limit - 1 : m[p + j] = m[q + j]
    BY <1>3, <1>4, <1>6, <1>7, <1>11
  <2>2. Compared(call, m) = 0
    BY <1>1, <1>2, <1>5, <1>7, <2>1, ComparedValue
  <2> QED
    BY <1>1, <1>2, <1>3, <1>11, <2>2, ReturnStep
<1>12. CASE n # 0 /\ (mem[d] = 0 \/ mem[d] # mem[s]) /\ return(mem[d] - mem[s])
  <2>1. i < c /\ i < limit
    BY <1>3, <1>4, <1>6, <1>7, <1>8, <1>9, <1>12
  <2>2. mem[d] - mem[s] = Compared(call, before)
    <3>1. CASE m[p + i] # m[q + i]
      <4>1. Compared(call, m) = m[p + i] - m[q + i]
        <5>1. i \in Nat /\ i < limit /\ limit \in Nat /\ p = call.p /\ q = call.q
          BY <1>2, <1>3, <1>7, <2>1
        <5>2. \A j \in 0 .. i - 1 : m[p + j] = m[q + j]
          BY <1>3
        <5>3. limit = Min({Bound(m, call.p, call.n), Bound(m, call.q, call.n)})
          BY <1>2, <1>5
        <5>4. Limit(call, m, limit)
          BY <1>1, <5>3 DEF Limit
        <5>5. Agree(m, call.p, call.q, i) /\ m[call.p + i] # m[call.q + i]
          BY <3>1, <5>1, <5>2 DEF Agree
        <5>6. Compared(call, m) = m[call.p + i] - m[call.q + i]
          BY <5>1, <5>4, <5>5, ComparedAt
        <5> QED
          BY <5>1, <5>6
      <4> QED
        BY <1>2, <1>3, <4>1
    <3>2. CASE m[p + i] = m[q + i]
      <4>1. m[p + i] = 0 /\ m[q + i] = 0
        BY <1>3, <1>12, <3>2
      <4>2. p + i \in Cells /\ Nuls(m, p) # {}
        <5>1. CASE Nuls(m, p) # {}
          BY <1>3, <5>1, NotBeyond
        <5>2. CASE Nuls(m, p) = {}
          <6>1. Area(p, c) \subseteq Cells
            BY <1>0, <1>1, <1>2, <5>2 DEF Setting, Valid
          <6>2. p + i \in Cells
            BY <1>3, <1>4, <2>1, <6>1, CellNumbers DEF Area
          <6> QED
            BY <1>3, <4>1, <6>2, NoNul
        <5> QED
          BY <5>1, <5>2
      <4>3. Length(m, p) = i
        BY <1>3, <4>1, <4>2, NotBeyond
      <4>4. bp <= i + 1
        BY <1>3, <1>4, <1>5, <4>2, <4>3, BoundFacts
      <4>5. \A j \in 0 .. limit - 1 : m[p + j] = m[q + j]
        <5> SUFFICES ASSUME NEW j \in 0 .. limit - 1 PROVE m[p + j] = m[q + j]
          OBVIOUS
        <5>1. j \in 0 .. i - 1 \/ j = i
          BY <1>3, <1>6, <1>7, <4>4
        <5> QED
          BY <1>3, <3>2, <5>1
      <4>6. Compared(call, m) = 0
        BY <1>1, <1>2, <1>5, <1>7, <4>5, ComparedValue
      <4> QED
        BY <1>2, <1>3, <4>1, <4>6
    <3> QED
      BY <3>1, <3>2
  <2> QED
    BY <1>1, <1>2, <1>3, <1>12, <2>2, ReturnStep
<1> QED
  BY <1>10, <1>11, <1>12 DEF strncmp

LEMMA MemcmpStep == IInv /\ memcmp => IInv'
<1> SUFFICES ASSUME IInv, memcmp PROVE IInv'
  OBVIOUS
<1>0. Setting /\ Ranges /\ Comparing
  BY DEF IInv, Loops
<1>1. pc = "loop" /\ call.fn = "memcmp" /\ call.fn \in Compare /\ call.fn \notin Copy
  BY DEF memcmp, in, Compare, Copy
<1>2. PICK p, q, m, i, c : /\ p = call.p /\ q = call.q /\ m = before /\ i = d - call.p
                           /\ c = call.n
  OBVIOUS
<1>3. /\ i \in Nat /\ p \in Cells /\ q \in Cells /\ mem = m /\ d = p + i /\ s = q + i
      /\ \A j \in 0 .. i - 1 : m[p + j] = m[q + j]
      /\ n = c - i
  BY <1>0, <1>1, <1>2, Compares
<1>4. c \in Nat /\ n \in Nat /\ i <= c
  <2>1. c \in Nat /\ n \in Nat
    BY <1>0, <1>2 DEF Setting, Ranges
  <2>2. i \in Nat /\ n = c - i
    BY <1>3
  <2> QED
    BY <2>1, <2>2
<1>5. CASE n # 0 /\ mem[d] = mem[s] /\ look /\ n' = n - 1
  BY <1>1, <1>5, LookStep
<1>6. CASE n # 0 /\ mem[d] # mem[s] /\ return(mem[d] - mem[s])
  <2>1. i < c /\ m[p + i] # m[q + i]
    BY <1>3, <1>4, <1>6
  <2>2. Compared(call, m) = m[p + i] - m[q + i]
    <3>1. i \in Nat /\ i < c /\ c \in Nat /\ p = call.p /\ q = call.q /\ c = call.n
      BY <1>2, <1>3, <1>4, <2>1
    <3>2. \A j \in 0 .. i - 1 : m[p + j] = m[q + j]
      BY <1>3
    <3>3. Limit(call, m, c)
      BY <1>1, <3>1 DEF Limit
    <3>4. Agree(m, call.p, call.q, i) /\ m[call.p + i] # m[call.q + i]
      BY <2>1, <3>1, <3>2 DEF Agree
    <3>5. Compared(call, m) = m[call.p + i] - m[call.q + i]
      BY <3>1, <3>3, <3>4, ComparedAt
    <3> QED
      BY <3>1, <3>5
  <2> QED
    BY <1>1, <1>2, <1>3, <1>6, <2>2, ReturnStep
<1>7. CASE n = 0 /\ return(0)
  <2>1. i = c
    BY <1>3, <1>4, <1>7
  <2>2. Compared(call, m) = 0
    BY <1>1, <1>2, <1>3, <1>4, <2>1, ComparedValue
  <2> QED
    BY <1>1, <1>2, <1>3, <1>7, <2>2, ReturnStep
<1> QED
  BY <1>5, <1>6, <1>7 DEF memcmp

-----------------------------------------------------------------------------
(* The functions that copy. *)

\* What the rounds of a copy have left, in terms of the number i of rounds.
LEMMA Copies ==
  ASSUME Setting, Ranges, Copying, pc = "loop",
         call.fn \in {"strcpy", "strncpy", "memcpy", "memmove"},
         NEW p, NEW q, NEW m, NEW i, p = call.p, q = call.q, m = before, i = d - call.p
  PROVE  /\ i \in Nat /\ p \in Cells /\ q \in Cells /\ d = p + i /\ s = q + i
         /\ Written(p, d)
         /\ call.fn \in {"strcpy", "strncpy"} => \A j \in 0 .. i - 1 : m[q + j] # 0
         /\ call.fn # "strcpy" => n = call.n - i
<1>1. call.fn # "memset" /\ p \in Cells /\ q \in Cells
  BY DEF Setting
<1>2. /\ d >= p /\ s = q + i /\ Written(p, d)
      /\ call.fn \in {"strcpy", "strncpy"} => \A j \in 0 .. i - 1 : m[q + j] # 0
      /\ call.fn # "strcpy" => n = call.n - i
  BY DEF Copying
<1>3. d \in Int /\ p \in Int
  BY <1>1, CellNumbers DEF Ranges
<1>4. i \in Nat /\ d = p + i
  BY <1>2, <1>3
<1> QED
  BY <1>1, <1>2, <1>4

\* A cell of the source that has not been written over is copied.
LEMMA CopyRound ==
  ASSUME Ranges, Written(call.p, d), call.p \in Cells, call.p <= d, d \in Cells, s \in Cells,
         s \notin call.p .. d - 1, Stored(call, before)[d] = before[s],
         mem' = [mem EXCEPT ![d] = mem[s]]
  PROVE  /\ mem[s] = before[s] /\ mem' \in [Cells -> 0 .. 255]
         /\ \A k \in Cells : mem'[k] = IF k \in call.p .. (d + 1) - 1
                                       THEN Stored(call, before)[k] ELSE before[k]
<1>1. mem[s] = before[s]
  BY DEF Written
<1>2. mem' = [mem EXCEPT ![d] = Stored(call, before)[d]]
  BY <1>1
<1>3. call.p \in Int
  BY CellNumbers
<1>4. mem' \in [Cells -> 0 .. 255]
  BY DEF Ranges
<1>5. \A k \in Cells : mem'[k] = IF k \in call.p .. (d + 1) - 1
                                 THEN Stored(call, before)[k] ELSE before[k]
  BY <1>2, <1>3, WriteUp
<1> QED
  BY <1>1, <1>4, <1>5

\* A round that copies and goes on.
LEMMA CopyStep ==
  ASSUME IInv, pc = "loop", call.fn \in {"strcpy", "strncpy", "memcpy", "memmove"},
         d \in Cells, s \in Cells, s \notin call.p .. d - 1,
         Stored(call, before)[d] = before[s], mem' = [mem EXCEPT ![d] = mem[s]],
         call.fn \in {"strcpy", "strncpy"} => mem[s] # 0,
         call.fn # "strcpy" => n # 0 /\ n' = n - 1, call.fn = "strcpy" => n' = n,
         d' = d + 1, s' = s + 1, UNCHANGED <<call, pc, before>>
  PROVE  IInv'
<1>0. Setting /\ Ranges /\ Copying
  BY DEF IInv, Loops
<1>1. PICK p, q, m, i : p = call.p /\ q = call.q /\ m = before /\ i = d - call.p
  OBVIOUS
<1>2. /\ i \in Nat /\ p \in Cells /\ q \in Cells /\ d = p + i /\ s = q + i
      /\ Written(p, d)
      /\ call.fn \in {"strcpy", "strncpy"} => \A j \in 0 .. i - 1 : m[q + j] # 0
      /\ call.fn # "strcpy" => n = call.n - i
  BY <1>0, <1>1, Copies
<1>3. p \in Int /\ q \in Int /\ n \in Nat /\ call.n \in Nat /\ p <= d
  BY <1>0, <1>2, CellNumbers DEF Ranges, Setting
<1>4. /\ mem[s] = before[s] /\ mem' \in [Cells -> 0 .. 255]
      /\ \A k \in Cells : mem'[k] = IF k \in call.p .. (d + 1) - 1
                                    THEN Stored(call, before)[k] ELSE before[k]
  BY <1>0, <1>1, <1>2, <1>3, CopyRound
<1>5. d' - p = i + 1 /\ d' >= p /\ s' = q + (i + 1)
  BY <1>2, <1>3
<1>6. n' \in Nat /\ (call.fn # "strcpy" => n' = call.n - (i + 1))
  BY <1>2, <1>3
<1>7. call.fn \in {"strcpy", "strncpy"} => \A j \in 0 .. (i + 1) - 1 : m[q + j] # 0
  <2> SUFFICES ASSUME call.fn \in {"strcpy", "strncpy"}, NEW j \in 0 .. (i + 1) - 1
               PROVE  m[q + j] # 0
    OBVIOUS
  <2>1. j \in 0 .. i - 1 \/ j = i
    BY <1>2
  <2> QED
    BY <1>1, <1>2, <1>4, <2>1
<1>8. Setting'
  BY <1>0, SettingKept
<1>9. Ranges'
  BY <1>0, <1>4, <1>6 DEF Ranges
<1>10. Written(call.p, d)'
  BY <1>4 DEF Written
<1>11. Copying'
  BY <1>1, <1>5, <1>6, <1>7, <1>10 DEF Copying
<1>12. Loops'
  BY <1>11 DEF Loops, Measuring, Comparing, Storing, Filling, Descending
<1> QED
  BY <1>8, <1>9, <1>12, NotDone DEF IInv

LEMMA StrcpyStep == IInv /\ strcpy => IInv'
<1> SUFFICES ASSUME IInv, strcpy PROVE IInv'
  OBVIOUS
<1>0. Setting /\ Ranges /\ Copying
  BY DEF IInv, Loops
<1>1. /\ pc = "loop" /\ call.fn = "strcpy" /\ mem' = [mem EXCEPT ![d] = mem[s]]
      /\ d' = d + 1 /\ s' = s + 1 /\ UNCHANGED <<call, n, ret, before>>
      /\ pc' = (IF mem[s] = 0 THEN "done" ELSE "loop")
      /\ call.fn \in Copy /\ call.fn \notin Compare
  BY DEF strcpy, in, advance, Copy, Compare
<1>2. PICK p, q, m, i, len :
        /\ p = call.p /\ q = call.q /\ m = before /\ i = d - call.p /\ len = Length(m, q)
  OBVIOUS
<1>3. /\ i \in Nat /\ p \in Cells /\ q \in Cells /\ d = p + i /\ s = q + i
      /\ Written(p, d) /\ \A j \in 0 .. i - 1 : m[q + j] # 0
  BY <1>0, <1>1, <1>2, Copies
<1>4. /\ Nuls(m, q) # {} /\ Area(p, len + 1) \subseteq Cells
      /\ Area(p, len + 1) \cap Area(q, len + 1) = {}
  BY <1>0, <1>1, <1>2 DEF Setting, Valid, Apart
<1>5. /\ i <= len /\ q + i \in Cells /\ (m[q + i] = 0 => len = i) /\ len \in Nat
  BY <1>2, <1>3, <1>4, NotBeyond, LengthFacts
<1>6. p \in Int /\ q \in Int
  BY <1>3, CellNumbers
<1>7. d \in Area(p, len + 1) /\ s \in Area(q, len + 1) /\ p <= d
  BY <1>3, <1>5, <1>6 DEF Area
<1>8. d \in Cells /\ s \in Cells /\ s \notin p .. d - 1
  <2>1. s \notin Area(p, len + 1)
    BY <1>4, <1>7
  <2> QED
    BY <1>3, <1>4, <1>5, <1>6, <1>7, <2>1 DEF Area
<1>9. Stored(call, m) = [k \in Cells |-> IF k \in Area(p, len + 1) THEN m[q + (k - p)] ELSE m[k]]
  BY <1>1, <1>2, TargetString
<1>10. Stored(call, m)[d] = m[s]
  <2>1. d - p = i
    BY <1>3, <1>6
  <2> QED
    BY <1>3, <1>7, <1>8, <1>9, <2>1
<1>11. /\ mem[s] = m[s] /\ mem' \in [Cells -> 0 .. 255]
       /\ \A k \in Cells : mem'[k] = IF k \in p .. (d + 1) - 1 THEN Stored(call, m)[k] ELSE m[k]
  BY <1>0, <1>1, <1>2, <1>3, <1>7, <1>8, <1>10, CopyRound
<1>12. CASE mem[s] # 0
  BY <1>1, <1>2, <1>8, <1>10, <1>12, CopyStep
<1>13. CASE mem[s] = 0
  <2>1. pc' = "done" /\ len = i
    BY <1>1, <1>3, <1>5, <1>11, <1>13
  <2>2. \A k \in Cells : k \notin p .. (d + 1) - 1 => Stored(call, m)[k] = m[k]
    <3>1. Area(p, len + 1) = p .. (d + 1) - 1
      BY <1>3, <1>6, <2>1 DEF Area
    <3> QED
      BY <1>9, <3>1
  <2>3. mem' = Stored(call, m)
    <3>1. PICK M : M = mem'
      OBVIOUS
    <3>2. /\ M \in [Cells -> 0 .. 255]
          /\ \A k \in Cells : M[k] = IF k \in p .. (d + 1) - 1 THEN Stored(call, m)[k] ELSE m[k]
      BY <1>11, <3>1
    <3>3. M = Stored(call, m)
      BY <2>2, <3>2, Finished
    <3> QED
      BY <3>1, <3>3
  <2>4. Setting'
    BY <1>0, <1>1, SettingKept
  <2>5. Ranges'
    BY <1>0, <1>1, <1>11, <2>1 DEF Ranges
  <2>6. Loops'
    BY <2>1 DEF Loops, Measuring, Comparing, Copying, Storing, Filling, Descending
  <2>7. StoresRight' /\ ComparesRight'
    BY <1>1, <1>2, <2>3 DEF StoresRight, ComparesRight
  <2> QED
    BY <2>4, <2>5, <2>6, <2>7 DEF IInv
<1> QED
  BY <1>12, <1>13

\* memcpy, and memmove to a lower address: the source is ahead of the destination
\* or apart from it.
LEMMA MemcpyStep == IInv /\ memcpy => IInv'
<1> SUFFICES ASSUME IInv, memcpy PROVE IInv'
  OBVIOUS
<1>0. Setting /\ Ranges /\ Copying
  BY DEF IInv, Loops
<1>1. /\ pc = "loop" /\ call.fn \in {"memcpy", "memmove"}
      /\ call.fn \in Copy /\ call.fn \notin Compare
  BY DEF memcpy, in, Copy, Compare
<1>2. PICK p, q, m, i, c : /\ p = call.p /\ q = call.q /\ m = before /\ i = d - call.p
                           /\ c = call.n
  OBVIOUS
<1>3. /\ i \in Nat /\ p \in Cells /\ q \in Cells /\ d = p + i /\ s = q + i
      /\ Written(p, d) /\ n = c - i
  BY <1>0, <1>1, <1>2, Copies
<1>4. c \in Nat /\ n \in Nat /\ p \in Int /\ q \in Int
  BY <1>0, <1>2, <1>3, CellNumbers DEF Setting, Ranges
<1>5. /\ Area(p, c) \subseteq Cells /\ Area(q, c) \subseteq Cells
      /\ call.fn = "memcpy" => Area(p, c) \cap Area(q, c) = {}
      /\ call.fn = "memmove" => p < q
  BY <1>0, <1>1, <1>2 DEF Setting, Ranges, Valid, Apart
<1>6. Stored(call, m) = [k \in Cells |-> IF k \in Area(p, c) THEN m[q + (k - p)] ELSE m[k]]
  BY <1>1, <1>2, TargetPlain
<1>7. CASE n # 0 /\ store(d, mem[s]) /\ advance
  <2>1. /\ mem' = [mem EXCEPT ![d] = mem[s]] /\ n' = n - 1 /\ d' = d + 1 /\ s' = s + 1
        /\ UNCHANGED <<call, pc, before>>
    BY <1>7 DEF store, advance
  <2>2. d \in Area(p, c) /\ s \in Area(q, c) /\ d - p = i
    BY <1>3, <1>4, <1>7 DEF Area
  <2>3. d \in Cells /\ s \in Cells
    BY <1>5, <2>2
  <2>4. s \notin p .. d - 1
    <3>1. CASE call.fn = "memcpy"
      <4>1. s \notin Area(p, c)
        BY <1>5, <2>2, <3>1
      <4> QED
        BY <1>3, <1>4, <2>2, <4>1 DEF Area
    <3>2. CASE call.fn = "memmove"
      BY <1>3, <1>4, <1>5, <3>2
    <3> QED
      BY <1>1, <3>1, <3>2
  <2>5. Stored(call, m)[d] = m[s]
    BY <1>3, <1>6, <2>2, <2>3
  <2> QED
    BY <1>1, <1>2, <1>7, <2>1, <2>3, <2>4, <2>5, CopyStep
<1>8. CASE n = 0 /\ return(ret)
  <2>1. Area(p, c) = p .. d - 1
    BY <1>3, <1>4, <1>8 DEF Area
  <2>2. \A k \in Cells : k \notin p .. d - 1 => Stored(call, m)[k] = m[k]
    BY <1>6, <2>1
  <2>3. mem \in [Cells -> 0 .. 255]
        /\ \A k \in Cells : mem[k] = IF k \in p .. d - 1 THEN Stored(call, m)[k] ELSE m[k]
    BY <1>0, <1>2, <1>3 DEF Ranges, Written
  <2>4. mem = Stored(call, m)
    BY <2>2, <2>3, Finished
  <2> QED
    BY <1>1, <1>2, <1>8, <2>4, ReturnStep
<1> QED
  BY <1>7, <1>8 DEF memcpy

\* memmove to the same or a higher address walks down, so that it reads every byte
\* before it writes there.
LEMMA MemmoveStep == IInv /\ memmove => IInv'
<1> SUFFICES ASSUME IInv, memmove PROVE IInv'
  OBVIOUS
<1>0. Setting /\ Ranges /\ Descending
  BY DEF IInv, Loops
<1>1. /\ pc = "backwards" /\ call.fn = "memmove" /\ call.fn \in Copy /\ call.fn \notin Compare
  BY DEF memmove, in, Copy, Compare
<1>2. PICK p, q, m, c : p = call.p /\ q = call.q /\ m = before /\ c = call.n
  OBVIOUS
<1>3. /\ d = p + n /\ s = q + n /\ n <= c /\ Written(p + n, p + c)
      /\ p \in Cells /\ q \in Cells /\ q <= p
  BY <1>0, <1>1, <1>2 DEF Descending, Ranges, Setting
<1>4. c \in Nat /\ n \in Nat /\ p \in Int /\ q \in Int
  BY <1>0, <1>2, <1>3, CellNumbers DEF Setting, Ranges
<1>5. Area(p, c) \subseteq Cells /\ Area(q, c) \subseteq Cells
  BY <1>0, <1>1, <1>2 DEF Setting, Valid
<1>6. Stored(call, m) = [k \in Cells |-> IF k \in Area(p, c) THEN m[q + (k - p)] ELSE m[k]]
  BY <1>1, <1>2, TargetPlain
<1>7. CASE n # 0 /\ store(d - 1, mem[s - 1]) /\ d' = d - 1 /\ s' = s - 1
  <2>1. PICK a, b : a = d - 1 /\ b = s - 1
    OBVIOUS
  <2>2. /\ mem' = [mem EXCEPT ![a] = mem[b]] /\ n' = n - 1 /\ d' = a /\ s' = b
        /\ UNCHANGED <<call, pc, before>>
    BY <1>7, <2>1 DEF store
  <2>3. /\ a \in Int /\ b \in Int /\ a + 1 = p + n /\ a < p + c /\ p + c \in Int
        /\ q + (a - p) = b /\ b <= a
    BY <1>3, <1>4, <1>7, <2>1
  <2>4. a \in Area(p, c) /\ b \in Area(q, c)
    BY <1>3, <1>4, <1>7, <2>1 DEF Area
  <2>5. a \in Cells /\ b \in Cells
    BY <1>5, <2>4
  <2>6. mem[b] = m[b]
    <3>1. b \notin p + n .. (p + c) - 1
      BY <1>3, <1>4, <2>3
    <3> QED
      BY <1>2, <1>3, <2>5, <3>1 DEF Written
  <2>7. Stored(call, m)[a] = m[b]
    BY <1>6, <2>3, <2>4, <2>5
  <2>8. mem' = [mem EXCEPT ![a] = Stored(call, before)[a]]
    BY <1>2, <2>2, <2>6, <2>7
  <2>9. Written(a + 1, p + c)
    BY <1>3, <2>3
  <2>10. \A k \in Cells : mem'[k] = IF k \in a .. (p + c) - 1
                                    THEN Stored(call, before)[k] ELSE before[k]
    BY <1>0, <2>3, <2>5, <2>8, <2>9, WriteDown
  <2>11. mem' \in [Cells -> 0 .. 255]
    BY <1>0, <2>2, <2>5 DEF Ranges
  <2>12. n' \in Nat /\ n' <= c /\ a = p + n' /\ b = q + n'
    BY <1>3, <1>4, <1>7, <2>1, <2>2
  <2>13. Setting'
    BY <1>0, <2>2, SettingKept
  <2>14. Ranges'
    BY <1>0, <2>2, <2>3, <2>11, <2>12 DEF Ranges
  <2>15. Written(call.p + n, call.p + call.n)'
    BY <1>2, <2>2, <2>10, <2>12 DEF Written
  <2>16. Descending'
    BY <1>2, <2>2, <2>12, <2>15 DEF Descending
  <2>17. Loops'
    BY <1>1, <2>2, <2>16 DEF Loops, Measuring, Comparing, Copying, Storing, Filling
  <2> QED
    BY <1>1, <2>2, <2>13, <2>14, <2>17, NotDone DEF IInv
<1>8. CASE n = 0 /\ return(ret)
  <2>1. Area(p, c) = p + n .. (p + c) - 1
    BY <1>4, <1>8 DEF Area
  <2>2. \A k \in Cells : k \notin p + n .. (p + c) - 1 => Stored(call, m)[k] = m[k]
    BY <1>6, <2>1
  <2>3. PICK lo, hi : lo = p + n /\ hi = p + c
    OBVIOUS
  <2>4. mem \in [Cells -> 0 .. 255]
        /\ \A k \in Cells : mem[k] = IF k \in lo .. hi - 1 THEN Stored(call, m)[k] ELSE m[k]
    BY <1>0, <1>2, <1>3, <2>3 DEF Ranges, Written
  <2>5. \A k \in Cells : k \notin lo .. hi - 1 => Stored(call, m)[k] = m[k]
    BY <2>2, <2>3
  <2>6. mem = Stored(call, m)
    BY <2>4, <2>5, Finished
  <2> QED
    BY <1>1, <1>2, <1>8, <2>6, ReturnStep
<1> QED
  BY <1>7, <1>8 DEF memmove

LEMMA MemsetStep == IInv /\ memset => IInv'
<1> SUFFICES ASSUME IInv, memset PROVE IInv'
  OBVIOUS
<1>0. Setting /\ Ranges /\ Storing
  BY DEF IInv, Loops
<1>1. /\ pc = "loop" /\ call.fn = "memset" /\ call.fn \in Copy /\ call.fn \notin Compare
  BY DEF memset, in, Copy, Compare
<1>2. PICK p, m, c, v : p = call.p /\ m = before /\ c = call.n /\ v = call.q % 256
  OBVIOUS
<1>3. d >= p /\ n = c - (d - p) /\ Written(p, d) /\ p \in Cells
  BY <1>0, <1>1, <1>2 DEF Storing, Setting
<1>4. c \in Nat /\ n \in Nat /\ p \in Int /\ d \in Int
  BY <1>0, <1>2, <1>3, CellNumbers DEF Setting, Ranges
<1>5. Area(p, c) \subseteq Cells /\ v \in 0 .. 255
  BY <1>0, <1>1, <1>2 DEF Setting, Valid
<1>6. Stored(call, m) = [k \in Cells |-> IF k \in Area(p, c) THEN v ELSE m[k]]
  BY <1>1, <1>2, TargetSet
<1>7. CASE store(d, call.q % 256) /\ d' = d + 1 /\ UNCHANGED s
  <2>1. /\ n # 0 /\ mem' = [mem EXCEPT ![d] = v] /\ n' = n - 1 /\ d' = d + 1 /\ s' = s
        /\ UNCHANGED <<call, pc, before>>
    BY <1>2, <1>7 DEF store
  <2>2. d \in Area(p, c)
    BY <1>3, <1>4, <2>1 DEF Area
  <2>3. d \in Cells
    BY <1>5, <2>2
  <2>4. mem' = [mem EXCEPT ![d] = Stored(call, before)[d]]
    BY <1>2, <1>6, <2>1, <2>2, <2>3
  <2>5. \A k \in Cells : mem'[k] = IF k \in p .. (d + 1) - 1
                                   THEN Stored(call, before)[k] ELSE before[k]
    BY <1>0, <1>3, <1>4, <2>3, <2>4, WriteUp
  <2>6. mem' \in [Cells -> 0 .. 255]
    BY <1>0, <1>5, <2>1 DEF Ranges
  <2>7. n' \in Nat /\ n' = c - (d' - p) /\ d' >= p /\ d' \in Int
    BY <1>3, <1>4, <2>1
  <2>8. Setting'
    BY <1>0, <2>1, SettingKept
  <2>9. Ranges'
    BY <1>0, <2>1, <2>6, <2>7 DEF Ranges
  <2>10. Written(call.p, d)'
    BY <1>2, <2>1, <2>5 DEF Written
  <2>11. Storing'
    BY <1>2, <2>1, <2>7, <2>10 DEF Storing
  <2>12. Loops'
    BY <1>1, <2>1, <2>11 DEF Loops, Measuring, Comparing, Copying, Descending, Filling
  <2> QED
    BY <1>1, <2>1, <2>8, <2>9, <2>12, NotDone DEF IInv
<1>8. CASE n = 0 /\ return(ret)
  <2>1. Area(p, c) = p .. d - 1
    BY <1>3, <1>4, <1>8 DEF Area
  <2>2. \A k \in Cells : k \notin p .. d - 1 => Stored(call, m)[k] = m[k]
    BY <1>6, <2>1
  <2>3. mem \in [Cells -> 0 .. 255]
        /\ \A k \in Cells : mem[k] = IF k \in p .. d - 1 THEN Stored(call, m)[k] ELSE m[k]
    BY <1>0, <1>2, <1>3 DEF Ranges, Written
  <2>4. mem = Stored(call, m)
    BY <2>2, <2>3, Finished
  <2> QED
    BY <1>1, <1>2, <1>8, <2>4, ReturnStep
<1> QED
  BY <1>7, <1>8 DEF memset

\* strncpy's first loop.  A NUL it copies is not counted, so that the second loop
\* fills one cell more than the caller asked for.
LEMMA StrncpyCopyStep == IInv /\ strncpy_copy => IInv'
<1> SUFFICES ASSUME IInv, strncpy_copy PROVE IInv'
  OBVIOUS
<1>0. Setting /\ Ranges /\ Copying
  BY DEF IInv, Loops
<1>1. /\ pc = "loop" /\ call.fn = "strncpy" /\ call.fn \in Copy /\ call.fn \notin Compare
      /\ UNCHANGED <<call, before>>
  BY DEF strncpy_copy, in, Copy, Compare
<1>2. PICK p, q, m, i, c, b, room :
        /\ p = call.p /\ q = call.q /\ m = before /\ i = d - call.p /\ c = call.n
        /\ b = Bound(m, q, c) /\ room = Room(m, q, c)
  OBVIOUS
<1>3. /\ i \in Nat /\ p \in Cells /\ q \in Cells /\ d = p + i /\ s = q + i
      /\ Written(p, d) /\ n = c - i
      /\ \A j \in 0 .. i - 1 : m[q + j] # 0
  BY <1>0, <1>1, <1>2, Copies
<1>4. c \in Nat /\ n \in Nat /\ p \in Int /\ q \in Int
  BY <1>0, <1>2, <1>3, CellNumbers DEF Setting, Ranges
<1>5. /\ Nuls(m, q) # {} \/ Area(q, c) \subseteq Cells
      /\ Area(p, c + 1) \subseteq Cells /\ Area(p, c) \cap Area(q, b) = {}
  BY <1>0, <1>1, <1>2 DEF Setting, Valid, Apart
<1>6. /\ b \in Nat /\ b <= c
      /\ Nuls(m, q) = {} => b = c
      /\ Nuls(m, q) # {} => b = c \/ b = Length(m, q) + 1
      /\ Nuls(m, q) # {} => b <= Length(m, q) + 1
  BY <1>2, <1>3, <1>4, BoundFacts
<1>7. /\ room \in Nat /\ c <= room
      /\ Nuls(m, q) # {} /\ Length(m, q) < c => room = c + 1
      /\ ~ (Nuls(m, q) # {} /\ Length(m, q) < c) => room = c
  BY <1>2, <1>4 DEF Room
<1>8. Nuls(m, q) # {} => /\ i <= Length(m, q) /\ q + i \in Cells /\ Length(m, q) \in Nat
                         /\ m[q + i] = 0 => Length(m, q) = i
  BY <1>3, NotBeyond, LengthFacts
<1>9. Stored(call, m) = [k \in Cells |-> IF k \in Area(p, room)
                                         THEN IF k - p < b THEN m[q + (k - p)] ELSE 0
                                         ELSE m[k]]
  BY <1>1, <1>2, TargetPadded
<1>10. CASE /\ n # 0
            /\ mem' = [mem EXCEPT ![d] = mem[s]]
            /\ advance
            /\ IF mem[s] # 0 THEN n' = n - 1 /\ UNCHANGED pc ELSE pc' = "fill" /\ UNCHANGED n
  <2>1. i < c /\ d' = d + 1 /\ s' = s + 1
    BY <1>3, <1>4, <1>10 DEF advance
  <2>2. i < b
    BY <1>3, <1>4, <1>6, <1>8, <2>1
  <2>3. d \in Area(p, room) /\ s \in Area(q, b) /\ d - p = i /\ p <= d
    BY <1>3, <1>4, <1>6, <1>7, <2>1, <2>2 DEF Area
  <2>4. d \in Cells
    <3>1. d \in Area(p, c + 1)
      BY <1>3, <1>4, <2>1 DEF Area
    <3> QED
      BY <1>5, <3>1
  <2>5. s \in Cells
    <3>1. CASE Nuls(m, q) # {}
      BY <1>3, <1>8, <3>1
    <3>2. CASE Area(q, c) \subseteq Cells
      <4>1. s \in Area(q, c)
        BY <1>3, <1>4, <2>1 DEF Area
      <4> QED
        BY <3>2, <4>1
    <3> QED
      BY <1>5, <3>1, <3>2
  <2>6. s \notin p .. d - 1
    <3>1. s \notin Area(p, c)
      BY <1>5, <2>3
    <3> QED
      BY <1>3, <1>4, <2>1, <3>1 DEF Area
  <2>7. Stored(call, m)[d] = m[s]
    BY <1>3, <1>9, <2>2, <2>3, <2>4
  <2>8. /\ mem[s] = m[s] /\ mem' \in [Cells -> 0 .. 255]
        /\ \A k \in Cells : mem'[k] = IF k \in p .. (d + 1) - 1 THEN Stored(call, m)[k] ELSE m[k]
    BY <1>0, <1>2, <1>3, <1>10, <2>3, <2>4, <2>5, <2>6, <2>7, CopyRound
  <2>9. CASE mem[s] # 0
    <3>1. n' = n - 1 /\ pc' = pc
      BY <1>10, <2>9
    <3> QED
      BY <1>1, <1>2, <1>10, <2>1, <2>4, <2>5, <2>6, <2>7, <2>9, <3>1, CopyStep
  <2>10. CASE mem[s] = 0
    <3>1. pc' = "fill" /\ n' = n /\ m[q + i] = 0
      BY <1>3, <1>10, <2>8, <2>10
    <3>2. Nuls(m, q) # {}
      BY <1>3, <2>5, <3>1, NoNul
    <3>3. Length(m, q) = i /\ room = c + 1 /\ b = i + 1
      BY <1>3, <1>4, <1>6, <1>7, <1>8, <2>1, <2>2, <3>1, <3>2
    <3>4. d' = p + (room - n') /\ d' - p >= b
      BY <1>3, <1>4, <2>1, <3>1, <3>3
    <3>5. Setting'
      BY <1>0, <1>1, SettingKept
    <3>6. Ranges'
      BY <1>0, <1>1, <2>1, <2>8, <3>1 DEF Ranges
    <3>7. Written(call.p, d)'
      BY <1>1, <1>2, <2>1, <2>8 DEF Written
    <3>8. Filling'
      BY <1>1, <1>2, <3>4, <3>7 DEF Filling
    <3>9. Loops'
      BY <3>1, <3>8 DEF Loops, Measuring, Comparing, Copying, Storing, Descending
    <3> QED
      BY <3>1, <3>5, <3>6, <3>9, NotDone DEF IInv
  <2> QED
    BY <2>9, <2>10
<1>11. CASE n = 0 /\ pc' = "fill" /\ UNCHANGED <<mem, d, s, n>>
  <2>1. i = c
    BY <1>3, <1>4, <1>11
  <2>2. room = c
    BY <1>4, <1>7, <1>8, <2>1
  <2>3. d' = p + (room - n') /\ d' - p >= b
    BY <1>3, <1>4, <1>6, <1>11, <2>1, <2>2
  <2>4. Setting'
    BY <1>0, <1>1, SettingKept
  <2>5. Ranges'
    BY <1>0, <1>1, <1>11 DEF Ranges
  <2>6. Written(call.p, d)'
    BY <1>1, <1>2, <1>3, <1>11 DEF Written
  <2>7. Filling'
    BY <1>1, <1>2, <2>3, <2>6 DEF Filling
  <2>8. Loops'
    BY <1>11, <2>7 DEF Loops, Measuring, Comparing, Copying, Storing, Descending
  <2> QED
    BY <1>11, <2>4, <2>5, <2>8, NotDone DEF IInv
<1> QED
  BY <1>10, <1>11 DEF strncpy_copy

LEMMA StrncpyFillStep == IInv /\ strncpy_fill => IInv'
<1> SUFFICES ASSUME IInv, strncpy_fill PROVE IInv'
  OBVIOUS
<1>0. Setting /\ Ranges /\ Filling
  BY DEF IInv, Loops
<1>1. /\ pc = "fill" /\ call.fn = "strncpy" /\ call.fn \in Copy /\ call.fn \notin Compare
  BY DEF strncpy_fill, in, Copy, Compare
<1>2. PICK p, q, m, c, b, room :
        /\ p = call.p /\ q = call.q /\ m = before /\ c = call.n
        /\ b = Bound(m, q, c) /\ room = Room(m, q, c)
  OBVIOUS
<1>3. /\ d = p + (room - n) /\ d - p >= b /\ Written(p, d) /\ p \in Cells /\ q \in Cells
  BY <1>0, <1>1, <1>2 DEF Filling, Setting
<1>4. c \in Nat /\ n \in Nat /\ p \in Int /\ d \in Int
  BY <1>0, <1>2, <1>3, CellNumbers DEF Setting, Ranges
<1>5. Area(p, room) \subseteq Cells
  <2>1. Area(p, c + 1) \subseteq Cells
    BY <1>0, <1>1, <1>2 DEF Setting, Valid
  <2>2. room = c \/ room = c + 1
    BY <1>2 DEF Room
  <2> QED
    BY <1>4, <2>1, <2>2 DEF Area
<1>6. b \in Nat /\ room \in Nat
  BY <1>2, <1>3, <1>4, BoundFacts DEF Room
<1>7. Stored(call, m) = [k \in Cells |-> IF k \in Area(p, room)
                                         THEN IF k - p < b THEN m[q + (k - p)] ELSE 0
                                         ELSE m[k]]
  BY <1>1, <1>2, TargetPadded
<1>8. CASE store(d, 0) /\ d' = d + 1 /\ UNCHANGED s
  <2>1. /\ n # 0 /\ mem' = [mem EXCEPT ![d] = 0] /\ n' = n - 1 /\ d' = d + 1 /\ s' = s
        /\ UNCHANGED <<call, pc, before>>
    BY <1>8 DEF store
  <2>2. d \in Area(p, room) /\ ~ (d - p < b) /\ p <= d
    BY <1>3, <1>4, <1>6, <2>1 DEF Area
  <2>3. d \in Cells
    BY <1>5, <2>2
  <2>4. mem' = [mem EXCEPT ![d] = Stored(call, before)[d]]
    BY <1>2, <1>7, <2>1, <2>2, <2>3
  <2>5. \A k \in Cells : mem'[k] = IF k \in p .. (d + 1) - 1
                                   THEN Stored(call, before)[k] ELSE before[k]
    BY <1>0, <1>3, <1>4, <2>2, <2>3, <2>4, WriteUp
  <2>6. mem' \in [Cells -> 0 .. 255]
    <3>1. PICK z : z = 0
      OBVIOUS
    <3>2. z \in 0 .. 255 /\ mem' = [mem EXCEPT ![d] = z] /\ mem \in [Cells -> 0 .. 255]
      BY <1>0, <2>1, <3>1 DEF Ranges
    <3> QED
      BY <2>3, <3>2
  <2>7. n' \in Nat /\ d' = p + (room - n') /\ d' - p >= b /\ d' \in Int
    BY <1>3, <1>4, <1>6, <2>1
  <2>8. Setting'
    BY <1>0, <2>1, SettingKept
  <2>9. Ranges'
    BY <1>0, <2>1, <2>6, <2>7 DEF Ranges
  <2>10. Written(call.p, d)'
    BY <1>2, <2>1, <2>5 DEF Written
  <2>11. Filling'
    BY <1>2, <2>1, <2>7, <2>10 DEF Filling
  <2>12. Loops'
    BY <1>1, <2>1, <2>11 DEF Loops, Measuring, Comparing, Copying, Descending, Storing
  <2> QED
    BY <1>1, <2>1, <2>8, <2>9, <2>12, NotDone DEF IInv
<1>9. CASE n = 0 /\ return(ret)
  <2>1. Area(p, room) = p .. d - 1
    BY <1>3, <1>4, <1>6, <1>9 DEF Area
  <2>2. \A k \in Cells : k \notin p .. d - 1 => Stored(call, m)[k] = m[k]
    BY <1>7, <2>1
  <2>3. mem \in [Cells -> 0 .. 255]
        /\ \A k \in Cells : mem[k] = IF k \in p .. d - 1 THEN Stored(call, m)[k] ELSE m[k]
    BY <1>0, <1>2, <1>3 DEF Ranges, Written
  <2>4. mem = Stored(call, m)
    BY <2>2, <2>3, Finished
  <2> QED
    BY <1>1, <1>2, <1>9, <2>4, ReturnStep
<1> QED
  BY <1>8, <1>9 DEF strncpy_fill

-----------------------------------------------------------------------------
(* The theorems. *)

LEMMA InitIInv == Init => IInv
<1> SUFFICES ASSUME Init PROVE IInv
  OBVIOUS
<1>1. PICK f \in Compare \cup Copy : call \in Arguments(f)
  BY DEF Init
<1>2. call.fn = f /\ call.p \in Cells
  BY <1>1 DEF Arguments
<1>3. call.q \in Int /\ (f # "memset" => call.q \in Cells)
  <2>1. CASE f = "memset"
    BY <1>1, <2>1, ByteAssumption DEF Arguments
  <2>2. CASE f = "strlen"
    <3>1. call.q = 0
      BY <1>1, <2>2 DEF Arguments
    <3> QED
      BY <3>1, CellNumbers
  <2>3. CASE f # "memset" /\ f # "strlen"
    <3>1. call.q \in Cells
      BY <1>1, <2>3 DEF Arguments
    <3> QED
      BY <3>1, CellNumbers
  <2> QED
    BY <2>1, <2>2, <2>3
<1>4. call.n \in Nat
  <2>1. CASE f \in {"strlen", "strcmp", "strcpy"}
    BY <1>1, <2>1 DEF Arguments
  <2>2. CASE f \notin {"strlen", "strcmp", "strcpy"}
    <3>1. call.n \in 0 .. Size
      BY <1>1, <2>2 DEF Arguments
    <3> QED
      BY <3>1, CellNumbers
  <2> QED
    BY <2>1, <2>2
<1>5. mem \in [Cells -> 0 .. 255] /\ before = mem
  BY ByteAssumption DEF Init
<1>6. Setting
  BY <1>1, <1>2, <1>3, <1>4, <1>5 DEF Init, Setting
<1>7. PICK p, q, c : p = call.p /\ q = call.q /\ c = call.n
  OBVIOUS
<1>8. p \in Int /\ q \in Int /\ c \in Nat
  BY <1>2, <1>3, <1>4, <1>7, CellNumbers
<1>9. CASE descends(call)
  <2>1. d = p + c /\ s = q + c /\ n = c /\ pc = "backwards" /\ call.fn = "memmove" /\ q <= p
    BY <1>7, <1>8, <1>9 DEF Init, descends
  <2>2. Ranges
    BY <1>5, <1>7, <1>8, <2>1 DEF Ranges
  <2>3. Written(p + c, p + c)
    <3>1. \A k \in Cells : k \notin p + c .. (p + c) - 1
      BY <1>8, CellNumbers
    <3> QED
      BY <1>5, <3>1 DEF Written
  <2>4. Loops
    BY <1>7, <1>8, <2>1, <2>3
       DEF Loops, Measuring, Comparing, Copying, Storing, Filling, Descending
  <2>5. StoresRight /\ ComparesRight
    BY <2>1 DEF StoresRight, ComparesRight
  <2> QED
    BY <1>6, <2>2, <2>4, <2>5 DEF IInv
<1>10. CASE ~ descends(call)
  <2>1. d = p /\ s = q /\ n = c /\ pc = "loop" /\ (call.fn = "memmove" => p < q)
    BY <1>7, <1>8, <1>10 DEF Init, descends
  <2>2. Ranges
    BY <1>5, <1>7, <1>8, <2>1 DEF Ranges
  <2>3. Written(p, p)
    <3>1. \A k \in Cells : k \notin p .. p - 1
      BY <1>8, CellNumbers
    <3> QED
      BY <1>5, <3>1 DEF Written
  <2>4. Measuring
    <3> SUFFICES ASSUME call.fn = "strlen" PROVE n <= Length(before, call.p)
      BY <1>5, <1>7, <2>1 DEF Measuring
    <3>1. c = 0
      BY <1>1, <1>2, <1>7 DEF Arguments
    <3>2. Nuls(before, call.p) # {}
      BY <1>6 DEF Setting, Valid
    <3>3. Length(before, call.p) \in Nat
      BY <1>2, <3>2, LengthFacts
    <3> QED
      BY <2>1, <3>1, <3>3
  <2>5. d - p = 0 /\ 0 .. 0 - 1 = {} /\ q + 0 = q /\ c - 0 = c /\ d >= p
    BY <1>8, <2>1
  <2>6. Comparing
    BY <1>5, <1>7, <2>1, <2>5 DEF Comparing
  <2>7. Copying /\ Storing
    BY <1>7, <2>1, <2>3, <2>5 DEF Copying, Storing
  <2>8. Filling /\ Descending /\ StoresRight /\ ComparesRight
    BY <2>1 DEF Filling, Descending, StoresRight, ComparesRight
  <2> QED
    BY <1>6, <2>2, <2>4, <2>6, <2>7, <2>8 DEF IInv, Loops
<1> QED
  BY <1>9, <1>10

LEMMA StutterStep == IInv /\ UNCHANGED vars => IInv'
BY DEF IInv, vars, Setting, Ranges, Loops, Written, Measuring, Comparing, Copying, Storing, Filling,
   Descending, StoresRight, ComparesRight

LEMMA NextIInv == IInv /\ [Next]_vars => IInv'
BY StrlenStep, StrcmpStep, StrncmpStep, MemcmpStep, StrcpyStep, StrncpyCopyStep,
   StrncpyFillStep, MemsetStep, MemcpyStep, MemmoveStep, StutterStep DEF Next

\* For every memory and every call a caller may make, each loop of string.h keeps
\* its invariant.
THEOREM Invariant == Spec => []IInv
BY InitIInv, NextIInv, PTL DEF Spec

\* strcpy, memset, memcpy and memmove leave exactly the memory they are for,
\* overlapping areas of memmove included, and the functions that only look leave the
\* memory alone, for every memory and all arguments a caller may pass.  strncpy fills
\* its n cells as it should and changes no other, with the one exception of the cell
\* behind them, of which nothing is claimed when the source is shorter than n.
THEOREM CopiesAlwaysRight == Spec => []CopiesRight
<1>1. IInv => CopiesRight
  <2> SUFFICES ASSUME IInv, pc = "done", NEW k \in Cells \ Behind(call, before)
               PROVE  mem[k] = IF call.fn \in Copy THEN Copied(call, before)[k] ELSE before[k]
    BY DEF CopiesRight
  <2>1. mem = IF call.fn \in Copy THEN Stored(call, before) ELSE before
    BY DEF IInv, StoresRight
  <2>2. CASE call.fn \notin Copy
    BY <2>1, <2>2
  <2>3. CASE call.fn \in Copy /\ call.fn # "strncpy"
    <3>1. Stored(call, before) = Copied(call, before)
      BY <2>3 DEF Stored, Copied
    <3> QED
      BY <2>1, <2>3, <3>1
  <2>4. CASE call.fn = "strncpy"
    <3>1. PICK p, q, m, c, b, room :
            /\ p = call.p /\ q = call.q /\ m = before /\ c = call.n
            /\ b = Bound(m, q, c) /\ room = Room(m, q, c)
      OBVIOUS
    <3>2. mem[k] = IF k \in Area(p, room) THEN IF k - p < b THEN m[q + (k - p)] ELSE 0 ELSE m[k]
      BY <2>1, <2>4, <3>1 DEF Copy, Stored
    <3>3. Copied(call, before)[k] =
            IF k \in Area(p, c) THEN IF k - p < b THEN m[q + (k - p)] ELSE 0 ELSE m[k]
      BY <2>4, <3>1 DEF Copied
    <3>4. p \in Int /\ c \in Nat /\ k \in Int
      BY <3>1, CellNumbers DEF IInv, Setting
    <3>5. room = c \/ (room = c + 1 /\ k # p + c)
      BY <2>4, <3>1 DEF Room, Behind
    <3>6. k \in Area(p, room) <=> k \in Area(p, c)
      BY <3>4, <3>5 DEF Area
    <3> QED
      BY <2>4, <3>2, <3>3, <3>6 DEF Copy
  <2> QED
    BY <2>2, <2>3, <2>4
<1> QED
  BY <1>1, Invariant, PTL

\* strlen, strcmp, strncmp and memcmp return what they are for: the distance to the
\* first NUL, and the difference at the first place where the two differ, or 0.
THEOREM ComparesAlwaysRight == Spec => []ComparesRight
BY Invariant, PTL DEF IInv

=============================================================================
