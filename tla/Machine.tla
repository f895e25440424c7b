------------------------------ MODULE Machine ------------------------------
(***************************************************************************)
(* The data of the RetroVM machine: words, bytes, the instruction codec,   *)
(* the byte-addressed memory, the ALU, and the records the engine keeps    *)
(* (VMState, MemDelta, Snapshot).  Constant operators only; the engine's   *)
(* steps are in module VM.                                                 *)
(*                                                                         *)
(* The machine is scaled by its constants.  In the code ByteBase = 256,    *)
(* NREGS = 8, MEM_SIZE = 2^20, OP_SPACE = 64, PAGE_SIZE = 4096 and         *)
(* RUN_CAP = 255; a word is always four bytes, as in the code.             *)
(***************************************************************************)
EXTENDS Integers, Sequences

CONSTANTS
    ByteBase,   \* values of a byte
    NREGS,      \* general purpose registers
    MEM_SIZE,   \* bytes of data memory; also the range of an immediate
    OP_SPACE,   \* values of the opcode field
    PAGE_SIZE,  \* bytes of a page in the address split of a MemDelta
    RUN_CAP     \* largest run_count of a MemDelta

WORD_MOD == ByteBase * ByteBase * ByteBase * ByteBase

ASSUME MachineAssumption ==
    /\ ByteBase \in Nat /\ ByteBase >= 2
    /\ NREGS \in Nat /\ NREGS >= 1
    /\ MEM_SIZE \in Nat /\ 4 <= MEM_SIZE /\ MEM_SIZE <= WORD_MOD
    /\ OP_SPACE \in Nat /\ OP_SPACE >= 1
    /\ PAGE_SIZE \in Nat /\ PAGE_SIZE >= 1
    /\ RUN_CAP \in Nat /\ RUN_CAP >= 1

Word == 0 .. WORD_MOD - 1
Byte == 0 .. ByteBase - 1
Addr == 0 .. MEM_SIZE - 1
Reg  == 0 .. NREGS - 1
Memory == [Addr -> Byte]

-----------------------------------------------------------------------------
(* Opcodes, halt reasons and flags (opcodes.hpp).                          *)

OP_HALT == 0
OP_LOAD == 1
OP_STORE == 2
OP_ADD == 3
OP_SUB == 4
OP_MUL == 5
OP_DIV == 6
OP_JUMP == 7
OP_JNZ == 8
OP_IN == 9
OP_RAND == 10
OP_LI == 11
OP_COUNT == 12

HALT_RUNNING == 0
HALT_NORMAL == 1
HALT_DIV_ZERO == 2
HALT_UNKNOWN_OP == 3
HALT_TRACE_EOF == 4
HALT_DIVERGED == 5
HALT_CHECKPOINT == 6
HALT_BREAKPOINT == 7
HALT_STEP == 8
HaltReason == 0 .. 8

FLAG_ZF == 1
FLAG_CF == 2
FLAG_SF == 4

(* The instruction codec: shifts and masks by powers of two are division   *)
(* and remainder by the sizes of the fields.                               *)
encode(op, dst, src, imm) ==
    (((op % OP_SPACE) * NREGS + (dst % NREGS)) * NREGS + (src % NREGS)) * MEM_SIZE
        + (imm % MEM_SIZE)

(* The fields of an instruction fit a word, and every opcode its field, as *)
(* with the 6 + 3 + 3 + 20 bits of the code.                               *)
ASSUME LayoutAssumption ==
    /\ OP_COUNT <= OP_SPACE
    /\ OP_SPACE * (MEM_SIZE * NREGS * NREGS) <= WORD_MOD

decode_op(i)  == (i \div (MEM_SIZE * NREGS * NREGS)) % OP_SPACE
decode_dst(i) == (i \div (MEM_SIZE * NREGS)) % NREGS
decode_src(i) == (i \div MEM_SIZE) % NREGS
decode_imm(i) == i % MEM_SIZE

-----------------------------------------------------------------------------
(* Memory.  A word is stored little-endian in four cells whose addresses   *)
(* wrap at the end of the arena (MEM_MASK).                                *)

Mask(a) == a % MEM_SIZE

Byte0(v) == v % ByteBase
Byte1(v) == (v \div ByteBase) % ByteBase
Byte2(v) == ((v \div ByteBase) \div ByteBase) % ByteBase
Byte3(v) == (((v \div ByteBase) \div ByteBase) \div ByteBase) % ByteBase

FromBytes(b0, b1, b2, b3) ==
    b0 + ByteBase * (b1 + ByteBase * (b2 + ByteBase * b3))

mem_load_u32(m, addr) ==
    LET a == Mask(addr)
    IN  FromBytes(m[a], m[Mask(a + 1)], m[Mask(a + 2)], m[Mask(a + 3)])

mem_store_u32(m, addr, v) ==
    LET a == Mask(addr)
    IN  [m EXCEPT ![a] = Byte0(v), ![Mask(a + 1)] = Byte1(v),
                  ![Mask(a + 2)] = Byte2(v), ![Mask(a + 3)] = Byte3(v)]

(* VM::load_program: copy the bytes of a .bin to address 0.  A longer      *)
(* program is refused by the caller's guard ProgramFits.                   *)
ProgramFits(bytes) == Len(bytes) <= MEM_SIZE

load_program(m, bytes) ==
    [a \in Addr |-> IF a < Len(bytes) THEN bytes[a + 1] ELSE m[a]]

ZeroMemory == [a \in Addr |-> 0]

(* Mutant of BytesOf: the most significant byte first.                     *)
BytesBigEndian(words) ==
    [i \in 1 .. 4 * Len(words) |->
        LET w == words[(i + 3) \div 4]
        IN  << Byte3(w), Byte2(w), Byte1(w), Byte0(w) >>[((i - 1) % 4) + 1]]

(* The bytes of a program, least significant first: what the assembler     *)
(* puts into the .bin, and what load_program gets of the built-in ones.    *)
BytesOf(words) ==
    [i \in 1 .. 4 * Len(words) |->
        LET w == words[(i + 3) \div 4]
        IN  << Byte0(w), Byte1(w), Byte2(w), Byte3(w) >>[((i - 1) % 4) + 1]]

-----------------------------------------------------------------------------
(* The undo log.  A STORE appends the word it overwrites, or is folded     *)
(* into the last entry when that entry is for the same cell and its        *)
(* uint8_t run_count has room.                                             *)

MemDelta == [run_count : 1 .. RUN_CAP, page : Nat, offset : Nat, old_value : Word]

DeltaAddr(d) == d.page * PAGE_SIZE + d.offset

(* Mutants of Folds: no room check, and a comparison of the page only.     *)
FoldsPastCap(log, imm) ==
    log # << >> /\ DeltaAddr(log[Len(log)]) = imm

FoldsInPage(log, imm) ==
    /\ log # << >>
    /\ log[Len(log)].page = imm \div PAGE_SIZE
    /\ log[Len(log)].run_count < RUN_CAP

Folds(log, imm) ==
    /\ log # << >>
    /\ log[Len(log)].page = imm \div PAGE_SIZE
    /\ log[Len(log)].offset = imm % PAGE_SIZE
    /\ log[Len(log)].run_count < RUN_CAP

(* Mutant of LogStore: a folded store is not counted.                      *)
LogStoreUncounted(log, m, imm) ==
    IF Folds(log, imm)
    THEN log
    ELSE Append(log, [run_count |-> 1,
                      page      |-> imm \div PAGE_SIZE,
                      offset    |-> imm % PAGE_SIZE,
                      old_value |-> mem_load_u32(m, imm)])

LogStore(log, m, imm) ==
    IF Folds(log, imm)
    THEN [log EXCEPT ![Len(log)].run_count = @ + 1]
    ELSE Append(log, [run_count |-> 1,
                      page      |-> imm \div PAGE_SIZE,
                      offset    |-> imm % PAGE_SIZE,
                      old_value |-> mem_load_u32(m, imm)])

apply_old_value(m, d) == mem_store_u32(m, DeltaAddr(d), d.old_value)

(* The loop of a rewind over one log, from rbegin() to rend(): undone[k]   *)
(* is the memory after k entries.                                          *)
undo_log(log, m) ==
    LET undone[k \in 0 .. Len(log)] ==
            IF k = 0 THEN m
            ELSE apply_old_value(undone[k - 1], log[Len(log) - k + 1])
    IN  undone[Len(log)]

(* What the log is for, without the loop.  LeadsBack(log, m, b): undoing   *)
(* the entries of log newest-first turns memory m into memory b.  A cell   *)
(* that no entry covers must already be right; for any other cell the      *)
(* first entry that covers it decides, since it is undone last.            *)
Cells(addr) ==
    LET a == Mask(addr)
    IN  {a, Mask(a + 1), Mask(a + 2), Mask(a + 3)}

Covered(log, n, x) == \E j \in 1 .. n : x \in Cells(DeltaAddr(log[j]))

LeadsBack(log, m, b) ==
    /\ \A x \in Addr : ~ Covered(log, Len(log), x) => m[x] = b[x]
    /\ \A i \in 1 .. Len(log) : \A x \in Cells(DeltaAddr(log[i])) :
          ~ Covered(log, i - 1, x) => apply_old_value(m, log[i])[x] = b[x]

-----------------------------------------------------------------------------
(* The ALU: the result and the flags of the four arithmetic opcodes.  DIV  *)
(* by zero is a trap and is handled by the engine.                         *)

Flags(r, carry) ==
      (IF r = 0 THEN FLAG_ZF ELSE 0)
    + (IF carry THEN FLAG_CF ELSE 0)
    + (IF r >= WORD_MOD \div 2 THEN FLAG_SF ELSE 0)

AluResult(op, a, b) ==
    CASE op = OP_ADD -> (a + b) % WORD_MOD
      [] op = OP_SUB -> (a - b) % WORD_MOD
      [] op = OP_MUL -> (a * b) % WORD_MOD
      [] op = OP_DIV -> a \div b

AluCarry(op, a, b) ==
    CASE op = OP_ADD -> (a + b) % WORD_MOD < a
      [] op = OP_SUB -> a < b
      [] op = OP_MUL -> a * b > WORD_MOD - 1
      [] op = OP_DIV -> FALSE

AluFlags(op, a, b) == Flags(AluResult(op, a, b), AluCarry(op, a, b))

-----------------------------------------------------------------------------
(* The engine's records.                                                   *)

VMState == [cycle_count : Nat, regs : [Reg -> Word], pc : Word, sp : Word,
            flags : 0 .. 7, halted : HaltReason,
            snap_interval : Word, snap_timer : Word]

Snapshot == [cycle_count : Nat, regs : [Reg -> Word], pc : Word, sp : Word,
             flags : 0 .. 7, halted : HaltReason, deltas : Seq(MemDelta)]

(* VM::reset_state, the CPU part: power-on values, the stack at the top.   *)
PowerOn == [cycle_count |-> 0, regs |-> [r \in Reg |-> 0], pc |-> 0,
            sp |-> MEM_SIZE - 4, flags |-> 0, halted |-> HALT_RUNNING,
            snap_interval |-> 0, snap_timer |-> 0]

(* VM::take_snapshot: the architectural state and the drained log.         *)
SnapshotOf(st, log) ==
    [cycle_count |-> st.cycle_count, regs |-> st.regs, pc |-> st.pc,
     sp |-> st.sp, flags |-> st.flags, halted |-> st.halted, deltas |-> log]

-----------------------------------------------------------------------------
(* The records on disk: a frame of a .trace file and the body of a .state  *)
(* file.  A .state that is missing or too short to be read is NoFile.      *)

TraceFrame == [cycle : Nat, opcode : {OP_IN, OP_RAND}, value : Word]

CheckpointState ==
    [frame_index : Nat, halted : HaltReason, flags : 0 .. 7, regs : [Reg -> Word],
     pc : Word, sp : Word]

NoFile == [frame_index |-> -1]

=============================================================================
