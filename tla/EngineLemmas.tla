---------------------------- MODULE EngineLemmas ----------------------------
(***************************************************************************)
(* Facts about the machine and the engine that the proofs of every client  *)
(* need: arithmetic of words and addresses, the memory, the undo log, and  *)
(* what a pass of the dispatcher does to the types, counters, memory and   *)
(* log, whoever answers its hooks and whatever its sink requests.          *)
(***************************************************************************)
EXTENDS PassFunction, SequenceTheorems, WellFoundedInduction, TLAPS

-----------------------------------------------------------------------------
(* Arithmetic of words, registers and addresses.                           *)

(* The remainder of a wrapping uint32_t operation is in range.             *)
LEMMA ModRange ==
    ASSUME NEW x \in Int, NEW n \in Nat, n >= 1
    PROVE  x % n \in 0 .. n - 1
OBVIOUS

(* A quotient of naturals is a natural, not larger than the dividend.      *)
LEMMA DivRange ==
    ASSUME NEW x \in Nat, NEW n \in Nat, n >= 1
    PROVE  x \div n \in Nat /\ x \div n <= x
OBVIOUS

(* The constants' products are positive naturals.                          *)
LEMMA Sizes ==
    /\ WORD_MOD \in Nat /\ WORD_MOD >= 4
    /\ MEM_SIZE * NREGS \in Nat /\ MEM_SIZE * NREGS >= 1
    /\ MEM_SIZE * NREGS * NREGS \in Nat /\ MEM_SIZE * NREGS * NREGS >= 1
<1>1. ASSUME NEW x \in Nat, NEW y \in Nat, x >= 1, y >= 1
      PROVE  x * y \in Nat /\ x * y >= 1
  BY <1>1
<1>2. ByteBase * ByteBase \in Nat /\ ByteBase * ByteBase >= 1
  BY <1>1, MachineAssumption
<1>3. ByteBase * ByteBase * ByteBase \in Nat /\ ByteBase * ByteBase * ByteBase >= 1
  BY <1>1, <1>2, MachineAssumption
<1>4. WORD_MOD \in Nat /\ WORD_MOD >= 1
  BY <1>1, <1>3, MachineAssumption DEF WORD_MOD
<1>5. WORD_MOD >= 4
  BY <1>4, MachineAssumption
<1>6. MEM_SIZE * NREGS \in Nat /\ MEM_SIZE * NREGS >= 1
  BY <1>1, MachineAssumption
<1>7. MEM_SIZE * NREGS * NREGS \in Nat /\ MEM_SIZE * NREGS * NREGS >= 1
  BY <1>1, <1>6, MachineAssumption
<1> QED
  BY <1>4, <1>5, <1>6, <1>7

(* The fields of an instruction are in range, whatever the word.           *)
LEMMA FieldsInRange ==
    ASSUME NEW i \in Word
    PROVE  /\ decode_op(i) \in 0 .. OP_SPACE - 1
           /\ decode_dst(i) \in Reg
           /\ decode_src(i) \in Reg
           /\ decode_imm(i) \in Addr /\ decode_imm(i) \in Word
<1>1. i \in Nat
  BY Sizes DEF Word
<1>2. i \div (MEM_SIZE * NREGS * NREGS) \in Nat
  BY <1>1, DivRange, Sizes
<1>3. i \div (MEM_SIZE * NREGS) \in Nat
  BY <1>1, DivRange, Sizes
<1>4. i \div MEM_SIZE \in Nat
  BY <1>1, DivRange, MachineAssumption
<1>0. ASSUME NEW q \in Nat
      PROVE  q % OP_SPACE \in 0 .. OP_SPACE - 1 /\ q % NREGS \in 0 .. NREGS - 1
  BY MachineAssumption
<1>5. decode_op(i) \in 0 .. OP_SPACE - 1
  BY <1>0, <1>2, Zenon DEF decode_op
<1>6. decode_dst(i) \in Reg
  BY <1>0, <1>3, Zenon DEF decode_dst, Reg
<1>7. decode_src(i) \in Reg
  BY <1>0, <1>4, Zenon DEF decode_src, Reg
<1>8. decode_imm(i) \in Addr
  BY <1>1, MachineAssumption DEF decode_imm, Addr
<1>9. decode_imm(i) \in Word
  BY <1>8, MachineAssumption, Sizes DEF Addr, Word
<1> QED
  BY <1>5, <1>6, <1>7, <1>8, <1>9

-----------------------------------------------------------------------------
(* Words and the four cells that hold them.                                *)

(* MEM_MASK keeps every address in the arena.                              *)
LEMMA MaskInRange ==
    ASSUME NEW a \in Nat
    PROVE  Mask(a) \in Addr
BY MachineAssumption DEF Mask, Addr

(* The four bytes of a word are bytes.                                     *)
LEMMA BytesInRange ==
    ASSUME NEW v \in Word
    PROVE  Byte0(v) \in Byte /\ Byte1(v) \in Byte /\ Byte2(v) \in Byte /\ Byte3(v) \in Byte
<1>1. v \in Nat
  BY Sizes DEF Word
<1>2. v \div ByteBase \in Nat
  BY <1>1, DivRange, MachineAssumption
<1>3. (v \div ByteBase) \div ByteBase \in Nat
  BY <1>2, DivRange, MachineAssumption
<1>4. ((v \div ByteBase) \div ByteBase) \div ByteBase \in Nat
  BY <1>3, DivRange, MachineAssumption
<1>5. ASSUME NEW q \in Nat
      PROVE  q % ByteBase \in 0 .. ByteBase - 1
  BY MachineAssumption
<1> QED
  BY <1>1, <1>2, <1>3, <1>4, <1>5, Zenon DEF Byte0, Byte1, Byte2, Byte3, Byte

(* Splitting off the low digit of a number in base n.                      *)
LEMMA LowDigit ==
    ASSUME NEW q \in Nat, NEW n \in Nat, n >= 1, NEW r \in 0 .. n - 1
    PROVE  /\ r + n * q \in Nat
           /\ (r + n * q) % n = r
           /\ (r + n * q) \div n = q
OBVIOUS

(* A word read from four bytes is a word, and splits into the same bytes.  *)
LEMMA BytesOfWord ==
    ASSUME NEW b0 \in Byte, NEW b1 \in Byte, NEW b2 \in Byte, NEW b3 \in Byte
    PROVE  /\ FromBytes(b0, b1, b2, b3) \in Word
           /\ Byte0(FromBytes(b0, b1, b2, b3)) = b0
           /\ Byte1(FromBytes(b0, b1, b2, b3)) = b1
           /\ Byte2(FromBytes(b0, b1, b2, b3)) = b2
           /\ Byte3(FromBytes(b0, b1, b2, b3)) = b3
<1> DEFINE B  == ByteBase
           q2 == b2 + B * b3
           q1 == b1 + B * q2
           w  == b0 + B * q1
<1>0. B \in Nat /\ B >= 2 /\ b3 \in Nat /\ b3 <= B - 1
  BY MachineAssumption DEF Byte
<1>1. q2 \in Nat /\ q2 % B = b2 /\ q2 \div B = b3
  BY <1>0, LowDigit DEF Byte
<1>2. q1 \in Nat /\ q1 % B = b1 /\ q1 \div B = q2
  <2> HIDE DEF q2
  <2> QED BY <1>0, <1>1, LowDigit DEF Byte
<1>3. w \in Nat /\ w % B = b0 /\ w \div B = q1
  <2> HIDE DEF q2, q1
  <2> QED BY <1>0, <1>2, LowDigit DEF Byte
<1>4. b3 % B = b3
  BY <1>0 DEF Byte
<1>5. w \in Word
  <2>1. ASSUME NEW n \in Nat, NEW q \in Nat, q <= n - 1, NEW r \in 0 .. B - 1
        PROVE  r + B * q <= B * n - 1
    <3>1. B * q <= B * (n - 1)
      BY <2>1, <1>0
    <3>2. B * (n - 1) = B * n - B
      BY <1>0
    <3>3. B * q \in Int /\ B * n \in Int
      BY <1>0
    <3> HIDE DEF B
    <3> QED BY <2>1, <3>1, <3>2, <3>3, <1>0
  <2>2. q2 <= B * B - 1
    BY <2>1, <1>0 DEF Byte
  <2>3. q1 <= B * (B * B) - 1
    <3> HIDE DEF q2
    <3> QED BY <2>1, <2>2, <1>0, <1>1 DEF Byte
  <2>4. w <= B * (B * (B * B)) - 1
    <3> HIDE DEF q2, q1
    <3> QED BY <2>1, <2>3, <1>0, <1>2 DEF Byte
  <2>5. B * (B * (B * B)) = WORD_MOD
    BY <1>0 DEF WORD_MOD
  <2> HIDE DEF w
  <2> QED BY <2>4, <2>5, <1>3, Sizes DEF Word
<1>6. w = FromBytes(b0, b1, b2, b3)
  BY DEF FromBytes
<1> HIDE DEF w, q1, q2
<1> QED
  BY <1>1, <1>2, <1>3, <1>4, <1>5, <1>6 DEF Byte0, Byte1, Byte2, Byte3

(* Reading a word from memory.                                             *)
LEMMA LoadType ==
    ASSUME NEW m \in Memory, NEW a \in Nat
    PROVE  mem_load_u32(m, a) \in Word
<1>1. Mask(a) \in Addr /\ Mask(a) \in Nat
  BY MaskInRange DEF Addr
<1>2. Mask(Mask(a) + 1) \in Addr /\ Mask(Mask(a) + 2) \in Addr /\ Mask(Mask(a) + 3) \in Addr
  BY <1>1, MaskInRange
<1> QED
  BY <1>1, <1>2, BytesOfWord DEF mem_load_u32, Memory

(* Writing a word to memory.                                               *)
LEMMA StoreType ==
    ASSUME NEW m \in Memory, NEW a \in Nat, NEW v \in Word
    PROVE  mem_store_u32(m, a, v) \in Memory
BY BytesInRange DEF mem_store_u32, Memory

(* The four cells of an address are addresses.                             *)
LEMMA CellsAddr ==
    ASSUME NEW a \in Nat
    PROVE  Cells(a) \subseteq Addr
<1>1. Mask(a) \in Addr /\ Mask(a) \in Nat
  BY MaskInRange DEF Addr
<1> QED
  BY <1>1, MaskInRange DEF Cells

(* A store touches its four cells only, and what it leaves in them does    *)
(* not depend on what was there.                                           *)
LEMMA StoreCells ==
    ASSUME NEW m \in Memory, NEW n \in Memory, NEW a \in Nat, NEW v,
           NEW x \in Addr
    PROVE  /\ x \notin Cells(a) => mem_store_u32(m, a, v)[x] = m[x]
           /\ x \in Cells(a) => mem_store_u32(m, a, v)[x] = mem_store_u32(n, a, v)[x]
BY DEF mem_store_u32, Cells, Memory

(* Storing the word that a memory held puts its four bytes back, also when *)
(* the word is unaligned or wraps around the end of the arena.             *)
LEMMA StoreOfLoad ==
    ASSUME NEW m \in Memory, NEW n \in Memory, NEW a \in Nat, NEW x \in Cells(a)
    PROVE  mem_store_u32(n, a, mem_load_u32(m, a))[x] = m[x]
<1> DEFINE a0 == Mask(a)
           a1 == Mask(a0 + 1)
           a2 == Mask(a0 + 2)
           a3 == Mask(a0 + 3)
           w  == mem_load_u32(m, a)
<1>1. a0 \in Addr /\ a0 \in Nat
  BY MaskInRange DEF Addr
<1>2. a1 \in Addr /\ a2 \in Addr /\ a3 \in Addr
  BY <1>1, MaskInRange
<1>3. Byte0(w) = m[a0] /\ Byte1(w) = m[a1] /\ Byte2(w) = m[a2] /\ Byte3(w) = m[a3]
  BY <1>1, <1>2, BytesOfWord DEF mem_load_u32, Memory
<1>4. x \in {a0, a1, a2, a3}
  BY DEF Cells
<1>5. mem_store_u32(n, a, w) =
        [n EXCEPT ![a0] = Byte0(w), ![a1] = Byte1(w), ![a2] = Byte2(w), ![a3] = Byte3(w)]
  BY DEF mem_store_u32
<1> HIDE DEF a0, a1, a2, a3, w
<1>6. mem_store_u32(n, a, w)[x] = m[x]
  BY <1>1, <1>2, <1>3, <1>4, <1>5 DEF Memory
<1> QED
  BY <1>6 DEF w

-----------------------------------------------------------------------------
(* The undo log.                                                           *)

(* Splitting an address into page and offset loses nothing.                *)
LEMMA PageSplit ==
    ASSUME NEW a \in Nat
    PROVE  /\ a \div PAGE_SIZE \in Nat /\ a % PAGE_SIZE \in Nat
           /\ (a \div PAGE_SIZE) * PAGE_SIZE + (a % PAGE_SIZE) = a
BY MachineAssumption

(* The address of an entry is a natural.                                   *)
LEMMA DeltaAddrNat ==
    ASSUME NEW d \in MemDelta
    PROVE  DeltaAddr(d) \in Nat
BY MachineAssumption DEF MemDelta, DeltaAddr

(* A drained log leads back to the memory it was drained at.               *)
LEMMA EmptyLeadsBack ==
    ASSUME NEW m \in Memory
    PROVE  LeadsBack(<< >>, m, m)
BY DEF LeadsBack, Covered

(* Undoing an entry gives a memory; on its own cells the result does not   *)
(* depend on the memory it is applied to.                                  *)
LEMMA UndoEntry ==
    ASSUME NEW d \in MemDelta, NEW m \in Memory, NEW n \in Memory
    PROVE  /\ apply_old_value(m, d) \in Memory
           /\ Cells(DeltaAddr(d)) \subseteq Addr
           /\ \A x \in Cells(DeltaAddr(d)) : apply_old_value(m, d)[x] = apply_old_value(n, d)[x]
           /\ \A x \in Addr \ Cells(DeltaAddr(d)) : apply_old_value(m, d)[x] = m[x]
<1>1. DeltaAddr(d) \in Nat /\ d.old_value \in Word
  BY DeltaAddrNat DEF MemDelta
<1> QED
  BY <1>1, StoreType, StoreCells, CellsAddr DEF apply_old_value

(* Logging a STORE gives a log.                                            *)
LEMMA LogStoreType ==
    ASSUME NEW log \in Seq(MemDelta), NEW m \in Memory, NEW a \in Addr
    PROVE  LogStore(log, m, a) \in Seq(MemDelta)
<1>0. a \in Nat /\ Len(log) \in Nat
  BY DEF Addr
<1>1. CASE Folds(log, a)
  <2> DEFINE d == [log[Len(log)] EXCEPT !.run_count = @ + 1]
  <2>1. Len(log) \in 1 .. Len(log) /\ log[Len(log)] \in MemDelta
    BY <1>0, <1>1 DEF Folds
  <2>2. log[Len(log)].run_count + 1 \in 1 .. RUN_CAP
    BY <2>1, <1>1, MachineAssumption DEF Folds, MemDelta
  <2>3. d \in MemDelta
    BY <2>1, <2>2 DEF MemDelta
  <2> HIDE DEF d
  <2>4. [log EXCEPT ![Len(log)] = d] \in Seq(MemDelta)
    BY <2>1, <2>3, ExceptSeq
  <2> QED
    BY <1>1, <2>4 DEF LogStore, d
<1>2. CASE ~ Folds(log, a)
  BY <1>0, <1>2, PageSplit, LoadType, MachineAssumption DEF LogStore, MemDelta
<1> QED
  BY <1>1, <1>2

(* A logged STORE keeps the log leading back to where it led.              *)
LEMMA StoreLeadsBack ==
    ASSUME NEW log \in Seq(MemDelta), NEW m \in Memory, NEW b,
           NEW a \in Addr, NEW v \in Word, LeadsBack(log, m, b)
    PROVE  /\ LogStore(log, m, a) \in Seq(MemDelta)
           /\ LeadsBack(LogStore(log, m, a), mem_store_u32(m, a, v), b)
<1> DEFINE m2  == mem_store_u32(m, a, v)
           new == LogStore(log, m, a)
           n   == Len(log)
<1>0. a \in Nat /\ m2 \in Memory /\ n \in Nat
  BY StoreType DEF Addr
<1>1. \A x \in Addr \ Cells(a) : m2[x] = m[x]
  BY <1>0, StoreCells
<1>2. ASSUME NEW i \in 1 .. n, NEW x \in Cells(DeltaAddr(log[i])), ~ Covered(log, i - 1, x)
      PROVE  apply_old_value(m2, log[i])[x] = b[x]
  <2>1. log[i] \in MemDelta
    BY <1>2
  <2>2. apply_old_value(m2, log[i])[x] = apply_old_value(m, log[i])[x]
    BY <2>1, <1>0, UndoEntry
  <2> QED
    BY <2>2, <1>2 DEF LeadsBack
<1>3. CASE Folds(log, a)
  <2> DEFINE d == [log[n] EXCEPT !.run_count = @ + 1]
  <2>1. n \in 1 .. n /\ log[n] \in MemDelta
    BY <1>0, <1>3 DEF Folds
  <2>2. DeltaAddr(log[n]) = a
    <3>1. log[n].page = a \div PAGE_SIZE /\ log[n].offset = a % PAGE_SIZE
      BY <1>3 DEF Folds
    <3> QED
      BY <3>1, <1>0, PageSplit DEF DeltaAddr
  <2>3. d \in MemDelta /\ DeltaAddr(d) = DeltaAddr(log[n]) /\ d.old_value = log[n].old_value
    <3>1. log[n].run_count + 1 \in 1 .. RUN_CAP
      BY <2>1, <1>3, MachineAssumption DEF Folds, MemDelta
    <3> QED
      BY <2>1, <3>1 DEF MemDelta, DeltaAddr
  <2>4. new = [log EXCEPT ![n] = d]
    BY <1>3 DEF LogStore
  <2> HIDE DEF d
  <2>5. new \in Seq(MemDelta) /\ Len(new) = n
    BY <2>1, <2>3, <2>4, ExceptSeq
  <2>6. \A j \in 1 .. n : DeltaAddr(new[j]) = DeltaAddr(log[j])
                         /\ new[j].old_value = log[j].old_value
    BY <2>3, <2>4
  <2> HIDE DEF new
  <2>7. \A k \in 0 .. n : \A x : Covered(new, k, x) <=> Covered(log, k, x)
    BY <2>6, <1>0 DEF Covered
  <2>8. \A x \in Addr : ~ Covered(new, n, x) => m2[x] = b[x]
    <3> SUFFICES ASSUME NEW x \in Addr, ~ Covered(log, n, x)
                 PROVE  m2[x] = b[x]
      BY <2>7, <1>0
    <3>1. x \notin Cells(a)
      BY <2>1, <2>2 DEF Covered
    <3> QED
      BY <3>1, <1>1 DEF LeadsBack
  <2>9. \A i \in 1 .. n : \A x \in Cells(DeltaAddr(new[i])) :
            ~ Covered(new, i - 1, x) => apply_old_value(m2, new[i])[x] = b[x]
    <3> SUFFICES ASSUME NEW i \in 1 .. n, NEW x \in Cells(DeltaAddr(new[i])),
                        ~ Covered(new, i - 1, x)
                 PROVE  apply_old_value(m2, new[i])[x] = b[x]
      OBVIOUS
    <3>1. ~ Covered(log, i - 1, x) /\ x \in Cells(DeltaAddr(log[i]))
      BY <2>6, <2>7, <1>0
    <3>2. apply_old_value(m2, new[i]) = apply_old_value(m2, log[i])
      BY <2>6 DEF apply_old_value
    <3> QED
      BY <3>1, <3>2, <1>2
  <2> QED
    BY <2>5, <2>8, <2>9 DEF LeadsBack, new
<1>4. CASE ~ Folds(log, a)
  <2> DEFINE d == [run_count |-> 1, page |-> a \div PAGE_SIZE,
                   offset |-> a % PAGE_SIZE, old_value |-> mem_load_u32(m, a)]
  <2>1. d \in MemDelta /\ DeltaAddr(d) = a /\ d.old_value = mem_load_u32(m, a)
    BY <1>0, PageSplit, LoadType, MachineAssumption DEF MemDelta, DeltaAddr
  <2>2. new = Append(log, d)
    BY <1>4 DEF LogStore
  <2> HIDE DEF d
  <2>3. /\ new \in Seq(MemDelta) /\ Len(new) = n + 1 /\ new[n + 1] = d
        /\ \A j \in 1 .. n : new[j] = log[j]
    BY <2>1, <2>2, <1>0
  <2> HIDE DEF new
  <2>4. \A k \in 0 .. n : \A x : Covered(new, k, x) <=> Covered(log, k, x)
    BY <2>3, <1>0 DEF Covered
  <2>5. \A x \in Addr : ~ Covered(new, n + 1, x) => m2[x] = b[x]
    <3> SUFFICES ASSUME NEW x \in Addr, ~ Covered(new, n + 1, x)
                 PROVE  m2[x] = b[x]
      OBVIOUS
    <3>1. ~ Covered(log, n, x) /\ x \notin Cells(a)
      BY <2>1, <2>3, <1>0 DEF Covered
    <3> QED
      BY <3>1, <1>1 DEF LeadsBack
  <2>6. ASSUME NEW i \in 1 .. n + 1, NEW x \in Cells(DeltaAddr(new[i])),
               ~ Covered(new, i - 1, x)
        PROVE  apply_old_value(m2, new[i])[x] = b[x]
    <3>1. CASE i \in 1 .. n
      <4>1. new[i] = log[i] /\ ~ Covered(log, i - 1, x)
        BY <3>1, <2>3, <2>4, <2>6, <1>0
      <4> QED
        BY <4>1, <3>1, <1>2
    <3>2. CASE i = n + 1
      <4>1. x \in Cells(a) /\ x \in Addr
        BY <3>2, <2>1, <2>3, <1>0, CellsAddr
      <4>2. ~ Covered(log, n, x)
        BY <3>2, <2>4, <2>6, <1>0
      <4>3. m[x] = b[x]
        BY <4>1, <4>2 DEF LeadsBack
      <4>4. apply_old_value(m2, d)[x] = m[x]
        BY <4>1, <2>1, <1>0, StoreOfLoad DEF apply_old_value
      <4> QED
        BY <4>3, <4>4, <3>2, <2>3
    <3> QED
      BY <3>1, <3>2, <1>0
  <2> QED
    BY <2>3, <2>5, <2>6 DEF LeadsBack, new
<1> QED
  BY <1>3, <1>4

(* Where the undoing of a log stands when its first n entries are left:    *)
(* they still lead from memory m back to memory b.                         *)
PrefixLeadsBack(log, n, m, b) ==
    /\ \A x \in Addr : ~ Covered(log, n, x) => m[x] = b[x]
    /\ \A i \in 1 .. n : \A x \in Cells(DeltaAddr(log[i])) :
          ~ Covered(log, i - 1, x) => apply_old_value(m, log[i])[x] = b[x]

(* Before the first entry is undone, all are left.                         *)
LEMMA AllLeft ==
    ASSUME NEW log, NEW m, NEW b, LeadsBack(log, m, b)
    PROVE  PrefixLeadsBack(log, Len(log), m, b)
BY DEF LeadsBack, PrefixLeadsBack

(* Undoing the last entry that is left leaves the ones before it.          *)
LEMMA UndoLast ==
    ASSUME NEW log \in Seq(MemDelta), NEW n \in 1 .. Len(log), NEW m \in Memory, NEW b,
           PrefixLeadsBack(log, n, m, b)
    PROVE  /\ apply_old_value(m, log[n]) \in Memory
           /\ PrefixLeadsBack(log, n - 1, apply_old_value(m, log[n]), b)
<1> DEFINE d  == log[n]
           m2 == apply_old_value(m, d)
<1>1. d \in MemDelta /\ n \in Nat /\ n >= 1 /\ n \in 1 .. n
  OBVIOUS
<1>2. m2 \in Memory /\ \A x \in Addr \ Cells(DeltaAddr(d)) : m2[x] = m[x]
  BY <1>1, UndoEntry
<1>3. ASSUME NEW x \in Addr, ~ Covered(log, n - 1, x)
      PROVE  m2[x] = b[x]
  <2>1. CASE x \in Cells(DeltaAddr(d))
    BY <1>1, <1>3, <2>1 DEF PrefixLeadsBack
  <2>2. CASE x \notin Cells(DeltaAddr(d))
    <3>1. ~ Covered(log, n, x)
      <4>1. \A j \in 1 .. n : j = n \/ j \in 1 .. n - 1
        BY <1>1
      <4> QED BY <4>1, <1>3, <2>2 DEF Covered
    <3> QED BY <3>1, <2>2, <1>2 DEF PrefixLeadsBack
  <2> QED BY <2>1, <2>2
<1>4. ASSUME NEW i \in 1 .. n - 1, NEW x \in Cells(DeltaAddr(log[i])),
             ~ Covered(log, i - 1, x)
      PROVE  apply_old_value(m2, log[i])[x] = b[x]
  <2>1. log[i] \in MemDelta /\ i \in 1 .. n
    OBVIOUS
  <2>2. apply_old_value(m2, log[i])[x] = apply_old_value(m, log[i])[x]
    BY <2>1, <1>2, UndoEntry
  <2> QED BY <2>1, <2>2, <1>4 DEF PrefixLeadsBack
<1> HIDE DEF m2
<1>5. PrefixLeadsBack(log, n - 1, m2, b)
  BY <1>3, <1>4 DEF PrefixLeadsBack
<1> QED
  BY <1>2, <1>5 DEF m2

(* When no entry is left, the memory is the one the log led back to.       *)
LEMMA NoneLeft ==
    ASSUME NEW log, NEW m \in Memory, NEW b \in Memory, PrefixLeadsBack(log, 0, m, b)
    PROVE  m = b
<1>1. \A x \in Addr : m[x] = b[x]
  BY DEF PrefixLeadsBack, Covered
<1> QED
  BY <1>1 DEF Memory

-----------------------------------------------------------------------------
(* The type invariant.                                                     *)

(* Wrapping arithmetic stays in a word.                                    *)
LEMMA WordWrap ==
    ASSUME NEW x \in Int
    PROVE  x % WORD_MOD \in Word
<1>1. WORD_MOD \in Nat /\ WORD_MOD >= 1
  BY Sizes
<1> QED
  BY <1>1, ModRange DEF Word

(* The ALU computes words and flag masks.                                  *)
LEMMA AluType ==
    ASSUME NEW a \in Word, NEW b \in Word,
           NEW op \in {OP_ADD, OP_SUB, OP_MUL, OP_DIV}, op = OP_DIV => b # 0
    PROVE  AluResult(op, a, b) \in Word /\ AluFlags(op, a, b) \in 0 .. 7
<1>1. a \in Nat /\ b \in Nat /\ a < WORD_MOD /\ WORD_MOD \in Nat
  BY Sizes DEF Word
<1>2. a + b \in Int /\ a - b \in Int /\ a * b \in Int
  BY <1>1
<1>3. (a + b) % WORD_MOD \in Word /\ (a - b) % WORD_MOD \in Word /\ (a * b) % WORD_MOD \in Word
  BY <1>2, WordWrap
<1>4. b # 0 => a \div b \in Word
  BY <1>1, DivRange DEF Word
<1>5. AluResult(op, a, b) \in Word
  BY <1>3, <1>4, Zenon DEF AluResult, OP_ADD, OP_SUB, OP_MUL, OP_DIV
<1>6. AluFlags(op, a, b) \in 0 .. 7
  BY DEF AluFlags, Flags, FLAG_ZF, FLAG_CF, FLAG_SF
<1> QED
  BY <1>5, <1>6

(* What a pass computes before the handler has its type.                   *)
LEMMA PassTypes ==
    ASSUME TypeOK
    PROVE  /\ Fetched \in VMState
           /\ Ticked \in VMState
           /\ Log \in Seq(MemDelta)
           /\ Instr \in Word
           /\ dst \in Reg /\ src \in Reg /\ imm \in Addr /\ imm \in Word
<1>1. state \in VMState /\ mem \in Memory /\ deltas \in Seq(MemDelta)
  BY DEF TypeOK
<1>2. state.pc \in Nat /\ state.snap_timer \in Int /\ state.cycle_count \in Nat
  BY <1>1, Sizes DEF VMState, Word
<1>3. (state.pc + 4) % WORD_MOD \in Word /\ (state.snap_timer - 1) % WORD_MOD \in Word
  BY <1>2, WordWrap
<1>4. Fetched \in VMState
  <2> DEFINE p == (state.pc + 4) % WORD_MOD
             t == IF state.snap_interval > 0 THEN (state.snap_timer - 1) % WORD_MOD
                  ELSE state.snap_timer
  <2>1. p \in Word /\ t \in Word
    BY <1>1, <1>3 DEF VMState
  <2> DEFINE c == state.cycle_count + 1
  <2>2. c \in Nat
    BY <1>2
  <2>3. Fetched = [state EXCEPT !.pc = p, !.cycle_count = c, !.snap_timer = t]
    BY DEF Fetched
  <2>4. state \in VMState
    BY <1>1
  <2> HIDE DEF p, t, c
  <2> QED BY <2>1, <2>2, <2>3, <2>4 DEF VMState
<1>5. Ticked \in VMState
  BY <1>1, <1>4 DEF Ticked, VMState
<1>6. Log \in Seq(MemDelta)
  BY <1>1 DEF Log
<1>7. Instr \in Word
  BY <1>1, <1>2, LoadType DEF Instr
<1> QED
  BY <1>4, <1>5, <1>6, <1>7, FieldsInRange DEF dst, src, imm

(* The power-on state and a loaded memory have their types.                *)
LEMMA PowerOnType ==
    /\ PowerOn \in VMState
    /\ \A p \in Programs : load_program(ZeroMemory, p) \in Memory
<1>1. 0 \in Word /\ MEM_SIZE - 4 \in Word
  BY MachineAssumption, Sizes DEF Word
<1>2. PowerOn \in VMState
  BY <1>1 DEF PowerOn, VMState, HaltReason, HALT_RUNNING
<1>3. ASSUME NEW p \in Programs
      PROVE  load_program(ZeroMemory, p) \in Memory
  <2>1. p \in Seq(Byte) /\ 0 \in Byte
    BY VMAssumption, MachineAssumption DEF Byte
  <2>2. \A a \in Addr : a < Len(p) => p[a + 1] \in Byte
    BY <2>1, MachineAssumption DEF Addr
  <2> QED
    BY <2>1, <2>2 DEF load_program, ZeroMemory, Memory
<1> QED
  BY <1>2, <1>3

(* Retiring or trapping in a well-typed CPU state keeps the types.         *)
LEMMA RetireType ==
    ASSUME TypeOK, NEW st \in VMState, Retire(st) \/ Trap(st)
    PROVE  TypeOK'
BY PassTypes DEF TypeOK, Retire, Trap, Frame

(* A pass whose hooks may answer any word and whose sink may request any   *)
(* halt.                                                                   *)
AnyPass ==
    \/ Deterministic
    \/ \E op \in {OP_IN, OP_RAND} :
          DoThrow(op) \/ \E v \in Word \cup {NoHook} : DoNondet(op, v)
    \/ \E r \in HaltReason : SnapReturn(r)

(* The passes of module VM are of this kind.                               *)
LEMMA PassIsAnyPass ==
    ASSUME TypeOK, Pass
    PROVE  AnyPass
<1>1. SoftHalts \subseteq HaltReason /\ state.halted \in HaltReason
  BY DEF SoftHalts, HaltReason, HALT_CHECKPOINT, HALT_BREAKPOINT, HALT_STEP, TypeOK, VMState
<1>2. Inputs \cup {NoHook} \subseteq Word \cup {NoHook}
  BY VMAssumption
<1> QED
  BY <1>1, <1>2, Zenon DEF Pass, AnyPass, SoftHalt, StaleHalt

(* Every pass keeps the types.                                             *)
LEMMA PassType ==
    ASSUME TypeOK, AnyPass
    PROVE  TypeOK'
<1> USE PassTypes
<1>0. /\ state.regs \in [Reg -> Word]
      /\ Ticked.pc \in Int
  <2>1. \A w \in Word : w \in Int
    BY Sizes DEF Word
  <2>2. Ticked \in VMState /\ state \in VMState
    BY DEF TypeOK
  <2>3. Ticked.pc \in Word /\ state.regs \in [Reg -> Word]
    BY <2>2 DEF VMState
  <2> QED BY <2>1, <2>3
<1>1. CASE DoHALT
  <2>1. [Ticked EXCEPT !.halted = HALT_NORMAL] \in VMState
    BY DEF VMState, HALT_NORMAL, HaltReason
  <2> QED BY <1>1, <2>1, RetireType DEF DoHALT
<1>2. CASE DoLOAD
  <2>1. mem_load_u32(mem, imm) \in Word
    BY LoadType DEF TypeOK, Addr
  <2>2. [Ticked EXCEPT !.regs[dst] = mem_load_u32(mem, imm)] \in VMState
    BY <2>1 DEF VMState
  <2> QED BY <1>2, <2>2, RetireType DEF DoLOAD
<1>3. CASE DoSTORE
  <2>1. mem' \in Memory
    BY <1>3, <1>0, StoreType DEF DoSTORE, TypeOK, Addr
  <2>2. deltas' \in Seq(MemDelta)
    <3>1. deltas' = LogStore(Log, mem, imm)
      BY <1>3 DEF DoSTORE
    <3> QED BY <3>1, LogStoreType DEF TypeOK
  <2> QED BY <1>3, <2>1, <2>2 DEF DoSTORE, TypeOK, Frame
<1>4. ASSUME NEW op \in {OP_ADD, OP_SUB, OP_MUL, OP_DIV}, op = OP_DIV => state.regs[src] # 0,
             DoALU(op)
      PROVE  TypeOK'
  <2> DEFINE r == AluResult(op, state.regs[dst], state.regs[src])
             f == AluFlags(op, state.regs[dst], state.regs[src])
  <2>1. r \in Word /\ f \in 0 .. 7
    BY <1>0, <1>4, AluType
  <2> HIDE DEF r, f
  <2>2. [Ticked EXCEPT !.regs[dst] = r, !.flags = f] \in VMState
    BY <2>1 DEF VMState
  <2> QED BY <1>4, <2>2, RetireType DEF DoALU, r, f
<1>5. CASE DoDIV
  BY <1>4, <1>5 DEF DoDIV
<1>6. CASE DoDivZero
  <2> DEFINE p == (Ticked.pc - 4) % WORD_MOD
  <2>1. p \in Word
    <3>1. Ticked.pc - 4 \in Int
      BY <1>0
    <3> QED BY <3>1, WordWrap
  <2> HIDE DEF p
  <2>2. [Ticked EXCEPT !.pc = p, !.halted = HALT_DIV_ZERO] \in VMState
    <3>1. HALT_DIV_ZERO \in HaltReason /\ Ticked \in VMState
      BY DEF HALT_DIV_ZERO, HaltReason
    <3> HIDE PassTypes
    <3> QED BY <2>1, <3>1 DEF VMState
  <2> QED BY <1>6, <2>2, RetireType DEF DoDivZero, p
<1>7. CASE DoJUMP
  <2>1. [Ticked EXCEPT !.pc = imm] \in VMState
    BY DEF VMState
  <2> QED BY <1>7, <2>1, RetireType DEF DoJUMP
<1>8. CASE DoJNZ
  <2>1. [Ticked EXCEPT !.pc = IF state.regs[dst] # 0 THEN imm ELSE @] \in VMState
    BY DEF VMState
  <2> QED BY <1>8, <2>1, RetireType DEF DoJNZ
<1>9. ASSUME NEW op, NEW v \in Word \cup {NoHook}, DoNondet(op, v)
      PROVE  TypeOK'
  <2>1. [Ticked EXCEPT !.regs[dst] = IF v = NoHook THEN @ ELSE v] \in VMState
    BY DEF VMState
  <2> QED BY <1>9, <2>1, RetireType DEF DoNondet
<1>10. ASSUME NEW op, DoThrow(op)
       PROVE  TypeOK'
  BY <1>10, RetireType DEF DoThrow
<1>11. CASE DoLI
  <2>1. [Ticked EXCEPT !.regs[dst] = imm] \in VMState
    BY DEF VMState
  <2> QED BY <1>11, <2>1, RetireType DEF DoLI
<1>12. CASE DoUnknown
  <2>1. [Ticked EXCEPT !.halted = HALT_UNKNOWN_OP] \in VMState
    BY DEF VMState, HALT_UNKNOWN_OP, HaltReason
  <2> QED BY <1>12, <2>1, RetireType DEF DoUnknown
<1>13. ASSUME NEW r \in HaltReason, SnapReturn(r)
       PROVE  TypeOK'
  <2>1. [Ticked EXCEPT !.halted = r] \in VMState
    BY DEF VMState
  <2> QED BY <1>13, <2>1, RetireType DEF SnapReturn
<1> QED
  BY <1>1, <1>2, <1>3, <1>4, <1>5, <1>6, <1>7, <1>8, <1>9, <1>10, <1>11, <1>12,
     <1>13 DEF AnyPass, Deterministic, OP_ADD, OP_SUB, OP_MUL, OP_DIV

(* Every call of a client keeps the types.                                 *)
LEMMA ClientType ==
    ASSUME TypeOK, Client \/ Arms \/ Drains \/ Loads
    PROVE  TypeOK'
<1> USE DEF TypeOK, Frame
<1>1. CASE Run \/ LoopExit \/ take_snapshot
  <2>1. << >> \in Seq(MemDelta)
    OBVIOUS
  <2> QED BY <1>1, <2>1, Zenon DEF Run, LoopExit, take_snapshot
<1>2. CASE ClearHalt
  <2>1. state \in VMState /\ HALT_RUNNING \in HaltReason
    BY DEF HALT_RUNNING, HaltReason
  <2>2. [state EXCEPT !.halted = HALT_RUNNING] \in VMState
    <3> HIDE DEF TypeOK
    <3> QED BY <2>1 DEF VMState
  <2> QED BY <1>2, <2>2 DEF ClearHalt
<1>3. CASE \E b \in BOOLEAN : set_snapshot_sink(b)
  BY <1>3 DEF set_snapshot_sink
<1>4. CASE \E m \in DispatchModes : set_dispatch_mode(m)
  BY <1>4 DEF set_dispatch_mode
<1>5. CASE Arms
  <2> PICK n \in Intervals : set_snapshot_interval(n)
    BY <1>5 DEF Arms
  <2>1. n \in Word /\ state \in VMState
    BY VMAssumption
  <2>2. [state EXCEPT !.snap_interval = n, !.snap_timer = n] \in VMState
    BY <2>1 DEF VMState
  <2> QED BY <2>2 DEF set_snapshot_interval
<1>6. CASE reset_cpu_for_reuse
  BY <1>6, PowerOnType DEF reset_cpu_for_reuse
<1>7. CASE Loads
  BY <1>7, PowerOnType DEF Loads, ResetAndLoad
<1> QED
  BY <1>1, <1>2, <1>3, <1>4, <1>5, <1>6, <1>7 DEF Client, Drains

(* The initial state has its type.                                         *)
LEMMA InitType == Init => TypeOK
<1> SUFFICES ASSUME Init PROVE TypeOK
  OBVIOUS
<1>1. state \in VMState /\ mem \in Memory
  BY PowerOnType DEF Init
<1>2. deltas \in Seq(MemDelta)
  BY DEF Init
<1>3. snap_sink \in BOOLEAN /\ dispatch_mode \in DispatchModes /\ running \in BOOLEAN
  BY DEF Init, DispatchModes
<1> QED
  BY <1>1, <1>2, <1>3 DEF TypeOK

(* What a pass does to the counters, whichever handler it runs.            *)
LEMMA PassCounters ==
    ASSUME TypeOK, AnyPass
    PROVE  /\ state'.cycle_count = state.cycle_count + 1
           /\ state'.snap_interval = state.snap_interval
           /\ state'.snap_timer = Ticked.snap_timer
<1>0. /\ state \in VMState /\ Ticked \in VMState
      /\ Ticked.cycle_count = state.cycle_count + 1
      /\ Ticked.snap_interval = state.snap_interval
  BY PassTypes DEF TypeOK, Ticked, Fetched, VMState
<1> QED
  BY <1>0 DEF AnyPass, Deterministic, DoHALT, DoLOAD, DoSTORE, DoALU, DoDIV, DoDivZero,
     DoJUMP, DoJNZ, DoNondet, DoThrow, DoLI, DoUnknown, SnapReturn,
     Retire, Trap, VMState

(* What a pass does to memory and log: nothing but draining, or one logged *)
(* STORE after the drain.                                                  *)
LEMMA PassMemory ==
    ASSUME TypeOK, AnyPass
    PROVE  \/ mem' = mem /\ deltas' = Log
           \/ /\ mem' = mem_store_u32(mem, imm, state.regs[dst])
              /\ deltas' = LogStore(Log, mem, imm)
BY DEF AnyPass, Deterministic, DoHALT, DoLOAD, DoSTORE, DoALU, DoDIV, DoDivZero,
     DoJUMP, DoJNZ, DoNondet, DoThrow, DoLI, DoUnknown, SnapReturn,
     Retire, Trap

(* What a pass that stays in run() leaves alone, and what one that returns *)
(* leaves behind: the memory and the registers of the fetch.               *)
StaysOrReturns ==
    /\ running
    /\ running' => state'.halted = state.halted
    /\ ~ running' => /\ mem' = mem /\ deltas' = Log
                     /\ state'.regs = state.regs /\ state'.sp = state.sp
                     /\ state'.flags = state.flags

(* The fields of the CPU state that the fetch and the countdown leave.     *)
LEMMA TickedFields ==
    ASSUME TypeOK
    PROVE  /\ Ticked \in VMState /\ Fetched \in VMState
           /\ Ticked.regs = state.regs /\ Ticked.sp = state.sp
           /\ Ticked.flags = state.flags /\ Ticked.halted = state.halted
           /\ Ticked.pc = Fetched.pc
           /\ Fetched.cycle_count = state.cycle_count + 1 /\ Fetched.regs = state.regs
           /\ Fetched.sp = state.sp /\ Fetched.flags = state.flags
           /\ Fetched.halted = state.halted
<1>1. Ticked \in VMState /\ Fetched \in VMState /\ state \in VMState
  BY PassTypes DEF TypeOK
<1> QED
  BY <1>1 DEF Ticked, Fetched, VMState

(* A handler that reads nothing: HALT and an unknown opcode leave pc       *)
(* behind the instruction, a DIV trap puts it back on the DIV.             *)
LEMMA DeterministicReturns ==
    ASSUME TypeOK, Deterministic
    PROVE  /\ StaysOrReturns
           /\ ~ running' =>
                 \/ /\ state'.pc = Fetched.pc
                    /\ state'.halted \in {HALT_NORMAL, HALT_UNKNOWN_OP}
                 \/ /\ state'.pc = (Fetched.pc - 4) % WORD_MOD
                    /\ state'.halted = HALT_DIV_ZERO
<1>1. state \in VMState
  BY DEF TypeOK
<1> QED
  BY <1>1, TickedFields DEF Deterministic, DoHALT, DoLOAD, DoSTORE, DoALU, DoDIV, DoDivZero,
     DoJUMP, DoJNZ, DoLI, DoUnknown, Retire, Trap, VMState, Dispatches, CanFetch, TypeOK,
     StaysOrReturns

(* IN and RAND: an answered hook stays in run(), a hook that throws leaves *)
(* everything as the fetch left it.                                        *)
LEMMA HookReturns ==
    ASSUME TypeOK, NEW op, DoThrow(op) \/ \E v : DoNondet(op, v)
    PROVE  /\ StaysOrReturns
           /\ DoThrow(op) => ~ running'
           /\ (\E v : DoNondet(op, v)) => running'
           /\ ~ running' => state'.pc = Fetched.pc /\ state'.halted = state.halted
<1>1. state \in VMState
  BY DEF TypeOK
<1> QED
  BY <1>1, TickedFields DEF DoNondet, DoThrow, Retire, Trap, VMState, Dispatches, CanFetch,
     TypeOK, StaysOrReturns

(* A halt that is seen after a snapshot returns before the decoder.        *)
LEMMA SnapReturns ==
    ASSUME TypeOK, NEW r, SnapReturn(r)
    PROVE  /\ StaysOrReturns
           /\ ~ running' /\ state'.pc = Fetched.pc /\ state'.halted = r
<1>1. state \in VMState
  BY DEF TypeOK
<1> QED
  BY <1>1, TickedFields DEF SnapReturn, Trap, VMState, CanFetch, TypeOK, StaysOrReturns

-----------------------------------------------------------------------------
(* A pass is a function of the point it starts from and the word it reads. *)

(* Here has the fields of the CPU state.                                   *)
LEMMA HereFields ==
    ASSUME TypeOK
    PROVE  /\ Here \in Point /\ Here.mem = mem
           /\ Here.st.cycle_count = state.cycle_count /\ Here.st.regs = state.regs
           /\ Here.st.pc = state.pc /\ Here.st.sp = state.sp
           /\ Here.st.flags = state.flags /\ Here.st.halted = state.halted
           /\ Here.st.snap_interval = 0 /\ Here.st.snap_timer = 0
BY DEF TypeOK, Here, Point, CoreState, VMState

(* So it is after a step.                                                  *)
LEMMA HereNext ==
    ASSUME TypeOK'
    PROVE  Here' \in Point /\ Here'.st.cycle_count = state'.cycle_count
           /\ Here'.st.halted = state'.halted
BY DEF TypeOK, Here, Point, CoreState, VMState

(* The instruction at Here is the one the pass fetches.                    *)
LEMMA HereInstr ==
    ASSUME TypeOK
    PROVE  /\ Op(Here) = decode_op(Instr) /\ Dst(Here) = dst
           /\ Src(Here) = src /\ Imm(Here) = imm
BY HereFields DEF Op, Dst, Src, Imm, Instr, dst, src, imm

(* Two points with equal fields are equal.                                 *)
LEMMA SamePoint ==
    ASSUME NEW e \in Point, NEW c, NEW r, NEW p, NEW s, NEW f, NEW h, NEW m,
           e.st.cycle_count = c, e.st.regs = r, e.st.pc = p, e.st.sp = s,
           e.st.flags = f, e.st.halted = h, e.mem = m
    PROVE  e = [st |-> [cycle_count |-> c, regs |-> r, pc |-> p, sp |-> s, flags |-> f,
                        halted |-> h, snap_interval |-> 0, snap_timer |-> 0],
                mem |-> m]
BY DEF Point, CoreState

(* When the fields after a pass are those of Exec, so is the point.        *)
LEMMA ExecFields ==
    ASSUME TypeOK, TypeOK', NEW v,
           state'.cycle_count = state.cycle_count + 1,
           state'.regs = ExecRegs(Here, v), state'.pc = ExecPc(Here),
           state'.sp = state.sp, state'.flags = ExecFlags(Here),
           state'.halted = ExecHalted(Here), mem' = ExecMem(Here)
    PROVE  Here' = Exec(Here, v)
<1>1. /\ Here' \in Point /\ Here'.mem = mem'
      /\ Here'.st.cycle_count = state'.cycle_count /\ Here'.st.regs = state'.regs
      /\ Here'.st.pc = state'.pc /\ Here'.st.sp = state'.sp
      /\ Here'.st.flags = state'.flags /\ Here'.st.halted = state'.halted
  BY DEF TypeOK, Here, Point, CoreState, VMState
<1>2. Here.st.cycle_count = state.cycle_count /\ Here.st.sp = state.sp
  BY HereFields
<1> DEFINE e2 == Here'
<1>3. /\ e2 \in Point /\ e2.mem = ExecMem(Here)
      /\ e2.st.cycle_count = Here.st.cycle_count + 1 /\ e2.st.regs = ExecRegs(Here, v)
      /\ e2.st.pc = ExecPc(Here) /\ e2.st.sp = Here.st.sp
      /\ e2.st.flags = ExecFlags(Here) /\ e2.st.halted = ExecHalted(Here)
  BY <1>1, <1>2
<1> HIDE DEF e2
<1>4. e2 = Exec(Here, v)
  BY <1>3, SamePoint DEF Exec
<1> QED
  BY <1>4 DEF e2

(* The opcodes that a handler's name stands for.                           *)
LEMMA Opcodes ==
    /\ OP_HALT = 0 /\ OP_LOAD = 1 /\ OP_STORE = 2 /\ OP_ADD = 3 /\ OP_SUB = 4 /\ OP_MUL = 5
    /\ OP_DIV = 6 /\ OP_JUMP = 7 /\ OP_JNZ = 8 /\ OP_IN = 9 /\ OP_RAND = 10 /\ OP_LI = 11
    /\ OP_COUNT = 12
BY DEF OP_HALT, OP_LOAD, OP_STORE, OP_ADD, OP_SUB, OP_MUL, OP_DIV, OP_JUMP, OP_JNZ,
   OP_IN, OP_RAND, OP_LI, OP_COUNT

(* A handler that reads nothing is Exec, whatever word is offered.         *)
LEMMA DeterministicExec ==
    ASSUME TypeOK, Deterministic, NEW v
    PROVE  /\ Here' = Exec(Here, v) /\ ~ Reads(Here)
           /\ running /\ (running' <=> Stays(Here))
<1>0. TypeOK' /\ AnyPass /\ state'.cycle_count = state.cycle_count + 1
  BY PassType, PassCounters DEF AnyPass
<1>1. /\ Here.mem = mem /\ Here.st.regs = state.regs
      /\ Here.st.pc = state.pc /\ Here.st.sp = state.sp
      /\ Here.st.flags = state.flags /\ Here.st.halted = state.halted
  BY HereFields
<1>2. /\ Ticked \in VMState /\ Ticked.regs = state.regs /\ Ticked.sp = state.sp
      /\ Ticked.flags = state.flags /\ Ticked.halted = state.halted
      /\ Ticked.pc = (state.pc + 4) % WORD_MOD
  BY TickedFields DEF TypeOK, Fetched, VMState
<1>3. /\ Op(Here) = decode_op(Instr) /\ Dst(Here) = dst
      /\ Src(Here) = src /\ Imm(Here) = imm
  BY HereInstr
<1> USE Opcodes, <1>1, <1>2, <1>3
<1> SUFFICES /\ state'.regs = ExecRegs(Here, v) /\ state'.pc = ExecPc(Here)
             /\ state'.sp = state.sp /\ state'.flags = ExecFlags(Here)
             /\ state'.halted = ExecHalted(Here) /\ mem' = ExecMem(Here)
             /\ ~ Reads(Here) /\ running /\ (running' <=> Stays(Here))
  BY <1>0, ExecFields
<1> USE DEF Dispatches, CanFetch, Retire, Trap, VMState,
        ExecRegs, ExecReg, ExecPc, ExecFlags, ExecHalted, ExecMem, Reads, Stays, DivZero, ALU
<1>4. CASE DoHALT
  BY <1>4 DEF DoHALT
<1>5. CASE DoLOAD
  BY <1>5 DEF DoLOAD
<1>6. CASE DoSTORE
  BY <1>6 DEF DoSTORE
<1>7. ASSUME NEW op \in {OP_ADD, OP_SUB, OP_MUL, OP_DIV}, op = OP_DIV => state.regs[src] # 0,
             DoALU(op)
      PROVE  /\ state'.regs = ExecRegs(Here, v) /\ state'.pc = ExecPc(Here)
             /\ state'.sp = state.sp /\ state'.flags = ExecFlags(Here)
             /\ state'.halted = ExecHalted(Here) /\ mem' = ExecMem(Here)
             /\ ~ Reads(Here) /\ running /\ (running' <=> Stays(Here))
  BY <1>7 DEF DoALU
<1>8. CASE DoDIV
  BY <1>7, <1>8 DEF DoDIV
<1>9. CASE DoDivZero
  BY <1>9 DEF DoDivZero
<1>10. CASE DoJUMP
  BY <1>10 DEF DoJUMP
<1>11. CASE DoJNZ
  BY <1>11 DEF DoJNZ
<1>12. CASE DoLI
  BY <1>12 DEF DoLI
<1>13. CASE DoUnknown
  BY <1>13 DEF DoUnknown
<1> QED
  BY <1>4, <1>5, <1>6, <1>7, <1>8, <1>9, <1>10, <1>11, <1>12, <1>13 DEF Deterministic

(* An answered hook is Exec with the word it answered.                     *)
LEMMA NondetExec ==
    ASSUME TypeOK, NEW op \in {OP_IN, OP_RAND}, NEW v \in Word, DoNondet(op, v)
    PROVE  /\ Here' = Exec(Here, v) /\ Reads(Here) /\ Op(Here) = op
           /\ running /\ running' /\ Stays(Here)
<1>0. TypeOK' /\ AnyPass /\ state'.cycle_count = state.cycle_count + 1
  BY PassType, PassCounters DEF AnyPass
<1>1. /\ Here.mem = mem /\ Here.st.regs = state.regs
      /\ Here.st.pc = state.pc /\ Here.st.sp = state.sp
      /\ Here.st.flags = state.flags /\ Here.st.halted = state.halted
  BY HereFields
<1>2. /\ Ticked \in VMState /\ Ticked.regs = state.regs /\ Ticked.sp = state.sp
      /\ Ticked.flags = state.flags /\ Ticked.halted = state.halted
      /\ Ticked.pc = (state.pc + 4) % WORD_MOD
  BY TickedFields DEF TypeOK, Fetched, VMState
<1>3. Op(Here) = decode_op(Instr) /\ Dst(Here) = dst
  BY HereInstr
<1>4. v # NoHook
  BY VMAssumption
<1>5. /\ state'.regs = ExecRegs(Here, v) /\ state'.pc = ExecPc(Here)
      /\ state'.sp = state.sp /\ state'.flags = ExecFlags(Here)
      /\ state'.halted = ExecHalted(Here) /\ mem' = ExecMem(Here)
      /\ Reads(Here) /\ Op(Here) = op /\ running /\ running' /\ Stays(Here)
  BY Opcodes, <1>1, <1>2, <1>3, <1>4 DEF DoNondet, Dispatches, CanFetch, Retire, VMState,
     ExecRegs, ExecReg, ExecPc, ExecFlags, ExecHalted, ExecMem, Reads, Stays, DivZero, ALU
<1> QED
  BY <1>0, <1>5, ExecFields

-----------------------------------------------------------------------------
(* The instruction codec and programs in memory.                           *)

(* A digit and a remainder below its weight.                               *)
LEMMA PairBound ==
    ASSUME NEW a \in Nat, NEW aa \in Nat, a < aa, NEW b \in Nat, NEW bb \in Nat, b < bb
    PROVE  a * bb \in Nat /\ a * bb + b \in Nat /\ a * bb + b < aa * bb
<1>1. PICK k \in Nat : aa = a + 1 + k
  <2>1. aa - a - 1 \in Nat /\ aa = a + 1 + (aa - a - 1)
    OBVIOUS
  <2> QED BY <2>1
<1>2. a * bb \in Nat /\ k * bb \in Nat
  OBVIOUS
<1>3. aa * bb = a * bb + bb + k * bb
  BY <1>1
<1> QED
  BY <1>2, <1>3

(* The weights of the fields.                                              *)
LEMMA Weights ==
    /\ MEM_SIZE \in Nat /\ MEM_SIZE >= 1 /\ NREGS \in Nat /\ NREGS >= 1
    /\ NREGS * MEM_SIZE \in Nat /\ NREGS * MEM_SIZE >= 1
    /\ MEM_SIZE * NREGS = NREGS * MEM_SIZE
    /\ (NREGS * NREGS) * MEM_SIZE \in Nat /\ (NREGS * NREGS) * MEM_SIZE >= 1
    /\ MEM_SIZE * NREGS * NREGS = (NREGS * NREGS) * MEM_SIZE
    /\ NREGS * NREGS \in Nat
BY MachineAssumption, Sizes

(* Fields in range are packed without loss: each decoder gives its field   *)
(* back, and the result is a word.                                         *)
LEMMA CodecInverse ==
    ASSUME NEW op \in 0 .. OP_SPACE - 1, NEW d \in Reg, NEW s \in Reg, NEW i \in Addr
    PROVE  /\ encode(op, d, s, i) \in Word
           /\ decode_op(encode(op, d, s, i)) = op
           /\ decode_dst(encode(op, d, s, i)) = d
           /\ decode_src(encode(op, d, s, i)) = s
           /\ decode_imm(encode(op, d, s, i)) = i
<1> DEFINE M == MEM_SIZE
           N == NREGS
           e == encode(op, d, s, i)
<1>0. /\ M \in Nat /\ N \in Nat /\ OP_SPACE \in Nat /\ M >= 1 /\ N >= 1
      /\ op \in Nat /\ op < OP_SPACE /\ d \in Nat /\ d < N
      /\ s \in Nat /\ s < N /\ i \in Nat /\ i < M
  BY MachineAssumption DEF Reg, Addr
<1>1. e = ((op * N + d) * N + s) * M + i
  <2>1. ASSUME NEW x \in Nat, NEW n \in Nat, x < n PROVE x % n = x
    BY <2>1
  <2>2. op % OP_SPACE = op /\ d % N = d /\ s % N = s /\ i % M = i
    BY <1>0, <2>1
  <2> QED BY <2>2 DEF encode
<1> HIDE DEF M, N, e
<1>2. op * N + d \in Nat /\ (op * N + d) * N + s \in Nat /\ op * N \in Nat
  BY <1>0
<1>3. /\ s * M + i \in Nat /\ s * M + i < N * M
      /\ d * N + s \in Nat /\ d * N + s < N * N
  BY <1>0, PairBound
<1>4. N * N \in Nat /\ N * M \in Nat /\ N * M >= 1
  BY <1>0, Weights DEF M, N
<1>5. (d * N + s) * M + i \in Nat /\ (d * N + s) * M + i < (N * N) * M
  BY <1>0, <1>3, <1>4, PairBound
<1>6. (N * N) * M \in Nat /\ (N * N) * M >= 1
  BY Weights DEF M, N
<1>7. op * ((N * N) * M) + ((d * N + s) * M + i) < OP_SPACE * ((N * N) * M)
  BY <1>0, <1>5, <1>6, PairBound
<1>8. /\ e = i + M * ((op * N + d) * N + s)
      /\ e = (s * M + i) + (N * M) * (op * N + d)
      /\ e = ((d * N + s) * M + i) + ((N * N) * M) * op
      /\ e = op * ((N * N) * M) + ((d * N + s) * M + i)
  BY <1>0, <1>1
<1>9. e \in Nat /\ e % M = i /\ e \div M = (op * N + d) * N + s
  <2> DEFINE q == (op * N + d) * N + s
  <2>1. q \in Nat /\ M \in Nat /\ M >= 1 /\ i \in 0 .. M - 1 /\ e = i + M * q
    BY <1>0, <1>2, <1>8
  <2> HIDE DEF q
  <2>2. i + M * q \in Nat /\ (i + M * q) % M = i /\ (i + M * q) \div M = q
    BY ONLY <2>1, LowDigit
  <2> QED BY <2>1, <2>2 DEF q
<1>10. ((op * N + d) * N + s) % N = s
  <2> DEFINE q == op * N + d
  <2>1. /\ q \in Nat /\ N \in Nat /\ N >= 1 /\ s \in 0 .. N - 1
        /\ q * N + s = s + N * q
    BY <1>0, <1>2
  <2> HIDE DEF q
  <2>2. (s + N * q) % N = s
    BY ONLY <2>1, LowDigit
  <2> QED BY <2>1, <2>2 DEF q
<1>11. e \div (N * M) = op * N + d
  <2> DEFINE n == N * M
             q == op * N + d
             r == s * M + i
  <2>1. q \in Nat /\ n \in Nat /\ n >= 1 /\ r \in 0 .. n - 1 /\ e = r + n * q
    BY <1>2, <1>3, <1>4, <1>8
  <2> HIDE DEF n, q, r
  <2>2. (r + n * q) \div n = q
    BY ONLY <2>1, LowDigit
  <2> QED BY <2>1, <2>2 DEF n, q, r
<1>12. (op * N + d) % N = d
  <2>1. op * N + d = d + N * op
    BY <1>0
  <2> QED BY <1>0, <2>1, LowDigit
<1>13. e \div ((N * N) * M) = op
  <2> DEFINE n == (N * N) * M
             r == (d * N + s) * M + i
  <2>1. op \in Nat /\ n \in Nat /\ n >= 1 /\ r \in 0 .. n - 1 /\ e = r + n * op
    BY <1>0, <1>5, <1>6, <1>8
  <2> HIDE DEF n, r
  <2>2. (r + n * op) \div n = op
    BY ONLY <2>1, LowDigit
  <2> QED BY <2>1, <2>2 DEF n, r
<1>14. op % OP_SPACE = op
  BY <1>0
<1>15. MEM_SIZE * NREGS = N * M /\ MEM_SIZE * NREGS * NREGS = (N * N) * M
  BY Weights DEF M, N
<1>16. e \in Word
  <2>1. OP_SPACE * ((N * N) * M) <= WORD_MOD
    BY <1>15, LayoutAssumption
  <2>2. e < WORD_MOD
    <3> DEFINE x == OP_SPACE * ((N * N) * M)
    <3>1. x \in Nat /\ x <= WORD_MOD /\ e < x /\ WORD_MOD \in Nat
      BY <1>0, <1>6, <1>7, <1>8, <2>1, Sizes
    <3> HIDE DEF x
    <3> QED BY <1>9, <3>1
  <2> QED BY <1>9, <2>2, Sizes DEF Word
<1> QED
  BY <1>9, <1>10, <1>11, <1>12, <1>13, <1>14, <1>15, <1>16
     DEF e, M, N, decode_op, decode_dst, decode_src, decode_imm

(* A word is the one its four bytes make up.                               *)
LEMMA JoinOfSplit ==
    ASSUME NEW w \in Word
    PROVE  FromBytes(Byte0(w), Byte1(w), Byte2(w), Byte3(w)) = w
<1> DEFINE B == ByteBase
<1>1. B \in Nat /\ B >= 2 /\ w \in Nat /\ w < B * B * B * B
  BY MachineAssumption, Sizes DEF Word, WORD_MOD
<1> HIDE DEF B
<1>2. ASSUME NEW x \in Nat, NEW q \in Nat, x < B * q
      PROVE  /\ x \div B \in Nat /\ x \div B < q
             /\ x % B \in Nat /\ x = (x % B) + B * (x \div B)
  <2>1. x \div B \in Nat /\ x % B \in Nat /\ x = (x % B) + B * (x \div B)
    BY <1>1
  <2>2. x \div B < q
    <3> DEFINE y == x \div B
    <3>1. B * y <= x /\ y \in Nat
      BY <1>1, <2>1
    <3> HIDE DEF y
    <3>2. ASSUME q <= y PROVE FALSE
      <4>1. PICK k \in Nat : y = q + k
        <5>1. y - q \in Nat /\ y = q + (y - q)
          BY <3>1, <3>2
        <5> QED BY <5>1
      <4>2. B * y = B * q + B * k /\ B * k \in Nat /\ B * q \in Nat
        BY <1>1, <4>1
      <4> QED BY <1>2, <3>1, <4>2
    <3>3. y < q
      BY <3>1, <3>2
    <3> QED BY <3>3 DEF y
  <2> QED BY <2>1, <2>2
<1> DEFINE w1 == w \div B
           w2 == w1 \div B
           w3 == w2 \div B
<1>3. B * B \in Nat /\ B * B * B \in Nat /\ B * B * B * B = B * (B * B * B)
      /\ B * B * B = B * (B * B) /\ B \in Nat
  BY <1>1
<1>4. w1 \in Nat /\ w1 < B * B * B /\ w = (w % B) + B * w1
  BY <1>1, <1>2, <1>3
<1> HIDE DEF w1
<1>5. w2 \in Nat /\ w2 < B * B /\ w1 = (w1 % B) + B * w2
  BY <1>2, <1>3, <1>4
<1> HIDE DEF w2
<1>6. w3 \in Nat /\ w3 < B /\ w2 = (w2 % B) + B * w3
  BY <1>2, <1>3, <1>5
<1> HIDE DEF w3
<1>7. w3 % B = w3
  BY <1>1, <1>6
<1>8. /\ Byte0(w) = w % B /\ Byte1(w) = w1 % B /\ Byte2(w) = w2 % B /\ Byte3(w) = w3 % B
  BY DEF Byte0, Byte1, Byte2, Byte3, w1, w2, w3, B
<1> QED
  BY <1>4, <1>5, <1>6, <1>7, <1>8 DEF FromBytes, B

(* Where the bytes of the k-th word are.                                   *)
LEMMA BytesAt ==
    ASSUME NEW ws \in Seq(Word)
    PROVE  /\ BytesOf(ws) \in Seq(Byte)
           /\ Len(BytesOf(ws)) = 4 * Len(ws)
           /\ \A k \in 1 .. Len(ws) :
                /\ BytesOf(ws)[4 * (k - 1) + 1] = Byte0(ws[k])
                /\ BytesOf(ws)[4 * (k - 1) + 2] = Byte1(ws[k])
                /\ BytesOf(ws)[4 * (k - 1) + 3] = Byte2(ws[k])
                /\ BytesOf(ws)[4 * (k - 1) + 4] = Byte3(ws[k])
<1> DEFINE n == Len(ws)
           four(w) == << Byte0(w), Byte1(w), Byte2(w), Byte3(w) >>
<1>0. n \in Nat /\ \A k \in 1 .. n : ws[k] \in Word
  OBVIOUS
<1>1. BytesOf(ws) = [i \in 1 .. 4 * n |-> four(ws[(i + 3) \div 4])[((i - 1) % 4) + 1]]
  BY DEF BytesOf
<1>2. ASSUME NEW i \in 1 .. 4 * n
      PROVE  (i + 3) \div 4 \in 1 .. n /\ (i - 1) % 4 \in 0 .. 3
  BY <1>0
<1>3. \A w \in Word : four(w) \in Seq(Byte) /\ Len(four(w)) = 4
  BY BytesInRange
<1>4. ASSUME NEW i \in 1 .. 4 * n
      PROVE  four(ws[(i + 3) \div 4])[((i - 1) % 4) + 1] \in Byte
  <2> DEFINE f == four(ws[(i + 3) \div 4])
             j == ((i - 1) % 4) + 1
  <2>1. f \in Seq(Byte) /\ Len(f) = 4
    BY <1>0, <1>2, <1>3
  <2>2. j \in 1 .. 4
    BY <1>2
  <2> HIDE DEF f, j
  <2>3. f[j] \in Byte
    BY <2>1, <2>2, ElementOfSeq
  <2> QED BY <2>3 DEF f, j
<1>5. ASSUME NEW k \in 1 .. n, NEW j \in 0 .. 3
      PROVE  BytesOf(ws)[4 * (k - 1) + (j + 1)] = four(ws[k])[j + 1]
  <2> DEFINE i == 4 * (k - 1) + (j + 1)
  <2>1. i \in 1 .. 4 * n /\ (i + 3) \div 4 = k /\ (i - 1) % 4 = j
    BY <1>0
  <2> HIDE DEF four, i
  <2>2. BytesOf(ws)[i] = four(ws[k])[j + 1]
    BY <1>1, <2>1
  <2> QED BY <2>2 DEF i
<1> HIDE DEF four
<1>6. BytesOf(ws) \in [1 .. 4 * n -> Byte] /\ 4 * n \in Nat
  BY <1>0, <1>1, <1>4
<1>7. BytesOf(ws) \in Seq(Byte) /\ Len(BytesOf(ws)) = 4 * n
  BY <1>6
<1>8. ASSUME NEW k \in 1 .. n
      PROVE  /\ BytesOf(ws)[4 * (k - 1) + 1] = Byte0(ws[k])
             /\ BytesOf(ws)[4 * (k - 1) + 2] = Byte1(ws[k])
             /\ BytesOf(ws)[4 * (k - 1) + 3] = Byte2(ws[k])
             /\ BytesOf(ws)[4 * (k - 1) + 4] = Byte3(ws[k])
  <2>1. /\ four(ws[k])[1] = Byte0(ws[k]) /\ four(ws[k])[2] = Byte1(ws[k])
        /\ four(ws[k])[3] = Byte2(ws[k]) /\ four(ws[k])[4] = Byte3(ws[k])
    BY DEF four
  <2>2. /\ BytesOf(ws)[4 * (k - 1) + (0 + 1)] = four(ws[k])[0 + 1]
        /\ BytesOf(ws)[4 * (k - 1) + (1 + 1)] = four(ws[k])[1 + 1]
        /\ BytesOf(ws)[4 * (k - 1) + (2 + 1)] = four(ws[k])[2 + 1]
        /\ BytesOf(ws)[4 * (k - 1) + (3 + 1)] = four(ws[k])[3 + 1]
    BY <1>5
  <2> QED BY <2>1, <2>2
<1> QED
  BY <1>7, <1>8

(* An address below the end of memory is its own.                          *)
LEMMA SmallMask ==
    ASSUME NEW x \in Nat, x < MEM_SIZE
    PROVE  Mask(x) = x /\ x \in Addr
BY MachineAssumption DEF Mask, Addr

(* A program read back from a memory that holds its bytes.                 *)
LEMMA WordRead ==
    ASSUME NEW ws \in Seq(Word), 4 * Len(ws) <= MEM_SIZE, NEW m,
           \A x \in Addr : x < 4 * Len(ws) => m[x] = BytesOf(ws)[x + 1],
           NEW k \in 1 .. Len(ws)
    PROVE  mem_load_u32(m, 4 * (k - 1)) = ws[k]
<1> DEFINE a == 4 * (k - 1)
<1>0. /\ MEM_SIZE \in Nat /\ Len(ws) \in Nat /\ ws[k] \in Word
      /\ a \in Nat /\ a + 3 < MEM_SIZE /\ a + 3 < 4 * Len(ws)
  BY MachineAssumption
<1>1. ASSUME NEW x \in Nat, x < MEM_SIZE PROVE Mask(x) = x /\ x \in Addr
  BY <1>1, MachineAssumption, SmallMask
<1>2. mem_load_u32(m, a) = FromBytes(m[a], m[a + 1], m[a + 2], m[a + 3])
  BY <1>0, <1>1 DEF mem_load_u32
<1>3. ASSUME NEW j \in 0 .. 3 PROVE m[a + j] = BytesOf(ws)[a + (j + 1)]
  <2>1. a + j \in Addr /\ a + j < 4 * Len(ws) /\ a + j + 1 = a + (j + 1)
    BY <1>0, <1>1
  <2> QED BY <2>1
<1>4. /\ BytesOf(ws)[a + 1] = Byte0(ws[k]) /\ BytesOf(ws)[a + 2] = Byte1(ws[k])
      /\ BytesOf(ws)[a + 3] = Byte2(ws[k]) /\ BytesOf(ws)[a + 4] = Byte3(ws[k])
  BY BytesAt
<1>5. /\ m[a] = Byte0(ws[k]) /\ m[a + 1] = Byte1(ws[k])
      /\ m[a + 2] = Byte2(ws[k]) /\ m[a + 3] = Byte3(ws[k])
  <2>1. /\ m[a + 0] = BytesOf(ws)[a + (0 + 1)] /\ m[a + 1] = BytesOf(ws)[a + (1 + 1)]
        /\ m[a + 2] = BytesOf(ws)[a + (2 + 1)] /\ m[a + 3] = BytesOf(ws)[a + (3 + 1)]
    BY <1>3
  <2> HIDE DEF a
  <2> QED BY <2>1, <1>4, <1>0
<1> QED
  BY <1>0, <1>2, <1>5, JoinOfSplit

-----------------------------------------------------------------------------
(* Sequences and induction.                                                *)

(* What Append does to a sequence.                                         *)
LEMMA Appended ==
    ASSUME NEW S, NEW run \in Seq(S), NEW e \in S
    PROVE  /\ Append(run, e) \in Seq(S) /\ Len(Append(run, e)) = Len(run) + 1
           /\ Len(run) \in Nat
           /\ \A i \in 1 .. Len(run) : Append(run, e)[i] = run[i]
           /\ Append(run, e)[Len(run) + 1] = e
OBVIOUS

(* The order of the naturals, as a set of pairs.                           *)
Less == {pair \in Nat \X Nat : pair[1] < pair[2]}

(* Every nonempty set of naturals has a least element: with it a fact      *)
(* about the points of a run is proved from the first point on.            *)
LEMMA LeastElement ==
    ASSUME NEW T, T \subseteq Nat, T # {}
    PROVE  \E x \in T : \A y \in T : x <= y
<1>1. IsWellFoundedOn(Less, Nat)
  BY NatLessThanWellFounded DEF Less, OpToRel
<1>2. PICK x \in T : \A y \in T : ~ (<< y, x >> \in Less)
  BY ONLY <1>1, WFMin, T \subseteq Nat, T # {}
<1>3. ASSUME NEW y \in T PROVE x <= y
  <2>1. x \in Nat /\ y \in Nat
    OBVIOUS
  <2>2. ~ (<< y, x >> \in Nat \X Nat /\ y < x)
    BY <1>2 DEF Less
  <2> QED BY <2>1, <2>2
<1> QED
  BY <1>3

(* The values a loop computes: f[i] after its i-th iteration.              *)
Iterates(f, n, first, G) ==
    f[0] = first /\ \A i \in 1 .. n : f[i] = G[<< i, f[i - 1] >>]

(* Definition by recursion over an initial segment of the naturals: the    *)
(* loops of the model are recursive functions, and this is why they exist. *)
LEMMA RecursionUp ==
    ASSUME NEW n \in Nat, NEW S, NEW base \in S, NEW G \in [(1 .. n) \X S -> S]
    PROVE  \E f \in [0 .. n -> S] : Iterates(f, n, base, G)
<1> DEFINE Ok(k, f) == f[0] = base /\ \A i \in 1 .. k : f[i] = G[<< i, f[i - 1] >>]
           bad == {k \in 0 .. n : ~ \E f \in [0 .. k -> S] : Ok(k, f)}
<1> SUFFICES ASSUME bad # {} PROVE FALSE
  <2>1. n \in 0 .. n
    OBVIOUS
  <2> QED BY <2>1 DEF Iterates
<1>1. PICK k \in bad : \A j \in bad : k <= j
  <2>1. bad \subseteq Nat
    OBVIOUS
  <2> HIDE DEF bad
  <2> QED BY <2>1, LeastElement
<1>2. k \in 0 .. n /\ ~ \E f \in [0 .. k -> S] : Ok(k, f)
  OBVIOUS
<1>3. k # 0
  <2> SUFFICES ASSUME k = 0 PROVE FALSE
    OBVIOUS
  <2>1. [i \in 0 .. k |-> base] \in [0 .. k -> S]
    OBVIOUS
  <2>2. Ok(k, [i \in 0 .. k |-> base])
    OBVIOUS
  <2> HIDE DEF Ok
  <2> QED BY <2>1, <2>2, <1>2
<1>4. k - 1 \in 0 .. n /\ k - 1 \notin bad /\ k \in 1 .. n
  <2> HIDE DEF bad
  <2> QED BY <1>1, <1>2, <1>3
<1>5. PICK f \in [0 .. k - 1 -> S] : Ok(k - 1, f)
  BY <1>4
<1> DEFINE g == [i \in 0 .. k |-> IF i = k THEN G[<< k, f[k - 1] >>] ELSE f[i]]
<1>6. g \in [0 .. k -> S]
  <2>1. f[k - 1] \in S
    BY <1>4
  <2>2. G[<< k, f[k - 1] >>] \in S
    BY <2>1, <1>4
  <2>3. \A i \in 0 .. k : i # k => f[i] \in S
    BY <1>4
  <2> QED BY <2>2, <2>3
<1>7. g[0] = base
  BY <1>4, <1>5
<1>8. ASSUME NEW i \in 1 .. k PROVE g[i] = G[<< i, g[i - 1] >>]
  <2>1. i - 1 \in 0 .. k /\ i - 1 # k /\ i \in 0 .. k
    BY <1>4
  <2>2. g[i - 1] = f[i - 1]
    BY <2>1
  <2>3. CASE i = k
    BY <2>2, <2>3, <2>1
  <2>4. CASE i # k
    <3>1. i \in 1 .. k - 1
      BY <2>4, <1>4
    <3>2. f[i] = G[<< i, f[i - 1] >>]
      BY <3>1, <1>5
    <3> QED BY <3>2, <2>1, <2>2, <2>4
  <2> QED BY <2>3, <2>4
<1>9. Ok(k, g)
  <2> HIDE DEF g
  <2> QED BY <1>7, <1>8
<1> HIDE DEF g, Ok
<1> QED
  BY <1>6, <1>9, <1>2

(* Two loops in lock step: iterations that start alike end alike.          *)
LockStep(f, g, n) ==
    f[0] = g[0] /\ \A k \in 1 .. n : f[k - 1] = g[k - 1] => f[k] = g[k]

(* Such loops compute the same.                                            *)
LEMMA SameLoop ==
    ASSUME NEW n \in Nat, NEW f, NEW g, LockStep(f, g, n)
    PROVE  f[n] = g[n]
<1> DEFINE bad == {k \in 0 .. n : f[k] # g[k]}
<1> SUFFICES ASSUME bad # {} PROVE FALSE
  OBVIOUS
<1>1. PICK k \in bad : \A j \in bad : k <= j
  <2>1. bad \subseteq Nat
    OBVIOUS
  <2> HIDE DEF bad
  <2> QED BY <2>1, LeastElement
<1>2. k \in 1 .. n /\ k - 1 \in 0 .. n /\ ~ (k <= k - 1)
  BY DEF LockStep
<1>3. f[k - 1] = g[k - 1]
  BY <1>1, <1>2
<1> QED
  BY <1>2, <1>3 DEF LockStep

-----------------------------------------------------------------------------
(* The loop that undoes a log.                                             *)

(* The memories the loop passes through.                                   *)
LEMMA UndoLoop ==
    ASSUME NEW log \in Seq(MemDelta), NEW m \in Memory
    PROVE  \E u \in [0 .. Len(log) -> Memory] :
              /\ u[0] = m
              /\ \A k \in 1 .. Len(log) : u[k] = apply_old_value(u[k - 1], log[Len(log) - k + 1])
              /\ undo_log(log, m) = u[Len(log)]
<1> DEFINE n == Len(log)
           step(u, k) == IF k = 0 THEN m ELSE apply_old_value(u[k - 1], log[n - k + 1])
           G == [p \in (1 .. n) \X Memory |-> apply_old_value(p[2], log[n - p[1] + 1])]
           v == CHOOSE u : u = [k \in 0 .. n |-> step(u, k)]
<1>1. n \in Nat
  OBVIOUS
<1>2. G \in [(1 .. n) \X Memory -> Memory]
  <2>1. ASSUME NEW k \in 1 .. n, NEW x \in Memory
        PROVE  apply_old_value(x, log[n - k + 1]) \in Memory
    <3>1. log[n - k + 1] \in MemDelta
      OBVIOUS
    <3> QED BY <3>1, UndoEntry
  <2> QED BY <2>1
<1>3. PICK f \in [0 .. n -> Memory] : Iterates(f, n, m, G)
  <2> HIDE DEF G, n
  <2> QED BY <1>1, <1>2, RecursionUp
<1>4. ASSUME NEW i \in 1 .. n PROVE f[i] = apply_old_value(f[i - 1], log[n - i + 1])
  <2>1. f[i - 1] \in Memory
    OBVIOUS
  <2> QED BY <2>1, <1>3 DEF Iterates
<1>5. f = [k \in 0 .. n |-> step(f, k)]
  <2>1. ASSUME NEW k \in 0 .. n PROVE f[k] = step(f, k)
    <3>1. k = 0 \/ k \in 1 .. n
      OBVIOUS
    <3> QED BY <3>1, <1>3, <1>4 DEF Iterates
  <2> QED BY <2>1
<1>6. v = [k \in 0 .. n |-> step(v, k)]
  <2> HIDE DEF step, n
  <2> QED BY <1>5
<1>7. undo_log(log, m) = v[n]
  BY DEF undo_log
<1>8. LockStep(v, f, n)
  <2>1. \A k \in 0 .. n : v[k] = step(v, k)
    <3> HIDE DEF v
    <3> QED BY <1>6
  <2> HIDE DEF v
  <2>2. v[0] = f[0]
    BY <2>1, <1>3 DEF Iterates
  <2>3. ASSUME NEW k \in 1 .. n, v[k - 1] = f[k - 1] PROVE v[k] = f[k]
    BY <2>1, <2>3, <1>4
  <2> QED BY <2>2, <2>3 DEF LockStep
<1>9. v[n] = f[n]
  <2> HIDE DEF v, n
  <2> QED BY <1>1, <1>8, SameLoop
<1> QED
  BY <1>3, <1>4, <1>7, <1>9 DEF Iterates

(* The loop reaches the memory that the log leads back to.                 *)
LEMMA LoopLeadsBack ==
    ASSUME NEW log \in Seq(MemDelta), NEW m \in Memory, NEW b \in Memory,
           LeadsBack(log, m, b)
    PROVE  undo_log(log, m) = b
<1> DEFINE n == Len(log)
<1>1. n \in Nat
  OBVIOUS
<1>2. PICK u \in [0 .. n -> Memory] :
         /\ u[0] = m
         /\ \A k \in 1 .. n : u[k] = apply_old_value(u[k - 1], log[n - k + 1])
         /\ undo_log(log, m) = u[n]
  BY UndoLoop
<1> DEFINE bad == {k \in 0 .. n : ~ PrefixLeadsBack(log, n - k, u[k], b)}
<1>3. bad = {}
  <2> SUFFICES ASSUME bad # {} PROVE FALSE
    OBVIOUS
  <2>1. PICK k \in bad : \A j \in bad : k <= j
    <3>1. bad \subseteq Nat
      OBVIOUS
    <3> HIDE DEF bad
    <3> QED BY <3>1, LeastElement
  <2>2. k # 0
    BY <1>1, <1>2, AllLeft
  <2>3. k \in 1 .. n /\ k - 1 \in 0 .. n /\ k - 1 \notin bad
    <3>1. k \in 0 .. n
      OBVIOUS
    <3> HIDE DEF bad, n
    <3> QED BY <3>1, <2>1, <2>2, <1>1
  <2>4. PrefixLeadsBack(log, n - (k - 1), u[k - 1], b)
    BY <2>3
  <2>5. n - (k - 1) = n - k + 1 /\ n - k + 1 \in 1 .. n /\ n - k + 1 - 1 = n - k
    BY <2>3, <1>1
  <2>6. u[k - 1] \in Memory
    BY <2>3
  <2>7. PrefixLeadsBack(log, n - k + 1 - 1, apply_old_value(u[k - 1], log[n - k + 1]), b)
    BY <2>4, <2>5, <2>6, UndoLast
  <2>8. PrefixLeadsBack(log, n - k, u[k], b)
    BY <2>3, <2>5, <2>7, <1>2
  <2> QED BY <2>8, <2>3
<1>4. PrefixLeadsBack(log, n - n, u[n], b) /\ n - n = 0
  BY <1>1, <1>3
<1> QED
  BY <1>2, <1>4, NoneLeft

(* Every log leads back somewhere.                                         *)
LEMMA LeadsSomewhere ==
    ASSUME NEW log \in Seq(MemDelta), NEW m \in Memory
    PROVE  \E b \in Memory : LeadsBack(log, m, b)
<1> DEFINE n == Len(log)
           At(x) == {i \in 1 .. n : x \in Cells(DeltaAddr(log[i]))}
           first(x) == CHOOSE i \in At(x) : \A j \in At(x) : i <= j
           b == [x \in Addr |-> IF At(x) = {} THEN m[x]
                                ELSE apply_old_value(m, log[first(x)])[x]]
<1>1. n \in Nat
  OBVIOUS
<1>2. ASSUME NEW x \in Addr, At(x) # {}
      PROVE  first(x) \in At(x) /\ \A j \in At(x) : first(x) <= j
  <2>1. At(x) \subseteq Nat
    OBVIOUS
  <2> HIDE DEF At
  <2> QED BY <2>1, <1>2, LeastElement
<1>3. \A i \in 1 .. n : log[i] \in MemDelta
  OBVIOUS
<1> HIDE DEF first
<1>4. b \in Memory
  <2>1. ASSUME NEW x \in Addr, At(x) # {}
        PROVE  apply_old_value(m, log[first(x)])[x] \in Byte
    <3>1. first(x) \in 1 .. n
      BY <1>2, <2>1
    <3>2. apply_old_value(m, log[first(x)]) \in Memory
      BY <3>1, <1>3, UndoEntry
    <3> QED BY <3>2 DEF Memory
  <2> QED BY <2>1 DEF Memory
<1>5. ASSUME NEW x \in Addr, ~ Covered(log, n, x)
      PROVE  m[x] = b[x]
  BY <1>5 DEF Covered
<1>6. ASSUME NEW i \in 1 .. n, NEW x \in Cells(DeltaAddr(log[i])), ~ Covered(log, i - 1, x)
      PROVE  apply_old_value(m, log[i])[x] = b[x]
  <2>1. x \in Addr
    BY <1>3, UndoEntry
  <2>2. i \in At(x)
    OBVIOUS
  <2>3. first(x) \in 1 .. n /\ x \in Cells(DeltaAddr(log[first(x)])) /\ first(x) <= i
    BY <1>2, <2>1, <2>2
  <2>4. first(x) \notin 1 .. i - 1
    BY <2>3, <1>6 DEF Covered
  <2>5. first(x) = i
    <3> HIDE DEF n, At
    <3> QED BY <2>3, <2>4, <1>1
  <2> QED BY <2>1, <2>2, <2>5
<1> HIDE DEF b
<1>7. LeadsBack(log, m, b)
  BY <1>5, <1>6 DEF LeadsBack
<1> QED
  BY <1>4, <1>7

(* What the loop computes, for every log: the memory that the log leads    *)
(* back to, and no other.                                                  *)
LEMMA UndoLogMeaning ==
    ASSUME NEW log \in Seq(MemDelta), NEW m \in Memory
    PROVE  /\ undo_log(log, m) \in Memory
           /\ \A b \in Memory : undo_log(log, m) = b <=> LeadsBack(log, m, b)
<1>1. PICK c \in Memory : LeadsBack(log, m, c)
  BY LeadsSomewhere
<1>2. undo_log(log, m) = c
  BY <1>1, LoopLeadsBack
<1>3. ASSUME NEW b \in Memory PROVE undo_log(log, m) = b <=> LeadsBack(log, m, b)
  BY <1>1, <1>2, <1>3, LoopLeadsBack
<1> QED
  BY <1>2, <1>3

=============================================================================
