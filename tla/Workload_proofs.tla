--------------------------- MODULE Workload_proofs ---------------------------
(***************************************************************************)
(* What the built-in programs compute, for every loop count and machine:   *)
(* the demo passes its assertions, the workload of the benchmarks halts    *)
(* after the number of cycles the code expects, every timed run ends like  *)
(* the first, and the back benchmarks return to their steady state.        *)
(***************************************************************************)
EXTENDS Bench_proofs

-----------------------------------------------------------------------------
(* One instruction.                                                        *)

(* A handler that reads nothing, field by field.                           *)
LEMMA PlainStep ==
    ASSUME TypeOK, Deterministic
    PROVE  /\ TypeOK' /\ running /\ (running' <=> Stays(Here))
           /\ state'.cycle_count = state.cycle_count + 1 /\ state'.sp = state.sp
           /\ state'.regs = ExecRegs(Here, 0) /\ state'.pc = ExecPc(Here)
           /\ state'.flags = ExecFlags(Here) /\ state'.halted = ExecHalted(Here)
           /\ mem' = ExecMem(Here)
<1>1. TypeOK'
  BY PassType DEF AnyPass
<1>2. Here' = Exec(Here, 0) /\ running /\ (running' <=> Stays(Here))
  BY DeterministicExec
<1>3. /\ Here'.mem = mem'
      /\ Here'.st.cycle_count = state'.cycle_count /\ Here'.st.regs = state'.regs
      /\ Here'.st.pc = state'.pc /\ Here'.st.sp = state'.sp
      /\ Here'.st.flags = state'.flags /\ Here'.st.halted = state'.halted
  BY <1>1 DEF TypeOK, Here, VMState
<1>4. Here.st.cycle_count = state.cycle_count /\ Here.st.sp = state.sp
  BY HereFields
<1> HIDE DEF Here
<1> DEFINE e2 == Exec(Here, 0)
<1>5. /\ e2.mem = ExecMem(Here) /\ e2.st.cycle_count = Here.st.cycle_count + 1
      /\ e2.st.regs = ExecRegs(Here, 0) /\ e2.st.pc = ExecPc(Here) /\ e2.st.sp = Here.st.sp
      /\ e2.st.flags = ExecFlags(Here) /\ e2.st.halted = ExecHalted(Here)
  BY DEF Exec
<1> QED
  BY <1>1, <1>2, <1>3, <1>4, <1>5

(* Memory m holds the program ws.                                          *)
Holds(m, ws) == \A x \in Addr : x < 4 * Len(ws) => m[x] = BytesOf(ws)[x + 1]

(* The pass fetches the instruction (op, d, s, i).                         *)
Fetches(op, d, s, i) ==
    /\ Op(Here) = op /\ Dst(Here) = d /\ Src(Here) = s /\ Imm(Here) = i
    /\ (state.pc + 4) % WORD_MOD = state.pc + 4

(* The program ws has the instruction (op, d, s, i) at address a.          *)
Line(ws, a, op, d, s, i) ==
    /\ op \in 0 .. 11 /\ d \in 0 .. 7 /\ s \in 0 .. 7 /\ i \in Addr
    /\ \E j \in 1 .. Len(ws) : a = 4 * (j - 1) /\ ws[j] = encode(op, d, s, i)

(* A program in memory is fetched line by line.                            *)
LEMMA FetchedInstr ==
    ASSUME TypeOK, NEW ws \in Seq(Word), 4 * Len(ws) < MEM_SIZE, Holds(mem, ws),
           NEW op, NEW d, NEW s, NEW i, Line(ws, state.pc, op, d, s, i)
    PROVE  Fetches(op, d, s, i)
<1>0. PICK j \in 1 .. Len(ws) : state.pc = 4 * (j - 1) /\ ws[j] = encode(op, d, s, i)
  BY DEF Line
<1>1. mem_load_u32(mem, state.pc) = encode(op, d, s, i)
  BY <1>0, WordRead, MachineAssumption DEF Holds
<1>2. op \in 0 .. OP_SPACE - 1 /\ d \in Reg /\ s \in Reg /\ i \in Addr
  BY LayoutAssumption, BenchmarksAssumption, MachineAssumption DEF OP_COUNT, Reg, Line
<1>3. Here.mem = mem /\ Here.st.pc = state.pc
  BY HereFields
<1>4. (state.pc + 4) % WORD_MOD = state.pc + 4
  <2>1. ASSUME NEW x \in Nat, NEW n \in Nat, x < n PROVE x % n = x
    BY <2>1
  <2>2. state.pc + 4 \in Nat /\ state.pc + 4 < WORD_MOD /\ WORD_MOD \in Nat
    BY <1>0, MachineAssumption, Sizes
  <2> QED BY <2>1, <2>2
<1> QED
  BY <1>1, <1>2, <1>3, <1>4, CodecInverse DEF Fetches, Op, Dst, Src, Imm

(* What a pass that goes on leaves behind.                                 *)
Effect(rs, p, f, m) ==
    /\ state'.regs = rs /\ state'.pc = p /\ state'.flags = f /\ mem' = m
    /\ state'.sp = state.sp /\ state'.halted = state.halted
    /\ state'.cycle_count = state.cycle_count + 1 /\ running'

(* What the pass that ends the program leaves behind.                      *)
Halts(p) ==
    /\ state'.regs = state.regs /\ state'.pc = p /\ state'.flags = state.flags /\ mem' = mem
    /\ state'.sp = state.sp /\ state'.halted = HALT_NORMAL
    /\ state'.cycle_count = state.cycle_count + 1 /\ ~ running'

(* The handlers of the instructions that the programs use.                 *)
LEMMA Effects ==
    ASSUME TypeOK, Deterministic, NEW d, NEW s, NEW i
    PROVE  /\ Fetches(OP_LI, d, s, i) =>
                 Effect([state.regs EXCEPT ![d] = i], state.pc + 4, state.flags, mem)
           /\ Fetches(OP_LOAD, d, s, i) =>
                 Effect([state.regs EXCEPT ![d] = mem_load_u32(mem, i)], state.pc + 4,
                        state.flags, mem)
           /\ Fetches(OP_STORE, d, s, i) =>
                 Effect(state.regs, state.pc + 4, state.flags,
                        mem_store_u32(mem, i, state.regs[d]))
           /\ Fetches(OP_JNZ, d, s, i) =>
                 Effect(state.regs, IF state.regs[d] # 0 THEN i ELSE state.pc + 4,
                        state.flags, mem)
           /\ Fetches(OP_HALT, d, s, i) => Halts(state.pc + 4)
<1>1. /\ Here.mem = mem /\ Here.st.regs = state.regs /\ Here.st.pc = state.pc
      /\ Here.st.flags = state.flags /\ Here.st.halted = state.halted
  BY HereFields
<1> HIDE DEF Here
<1> USE <1>1, PlainStep, Opcodes DEF Fetches, Effect, Halts, Stays, DivZero, Reads, ALU, ExecRegs,
        ExecReg, ExecPc, ExecFlags, ExecHalted, ExecMem
<1>2. ASSUME Fetches(OP_LI, d, s, i)
      PROVE  Effect([state.regs EXCEPT ![d] = i], state.pc + 4, state.flags, mem)
  BY <1>2
<1>3. ASSUME Fetches(OP_LOAD, d, s, i)
      PROVE  Effect([state.regs EXCEPT ![d] = mem_load_u32(mem, i)], state.pc + 4,
                    state.flags, mem)
  BY <1>3
<1>4. ASSUME Fetches(OP_STORE, d, s, i)
      PROVE  Effect(state.regs, state.pc + 4, state.flags, mem_store_u32(mem, i, state.regs[d]))
  BY <1>4
<1>5. ASSUME Fetches(OP_JNZ, d, s, i)
      PROVE  Effect(state.regs, IF state.regs[d] # 0 THEN i ELSE state.pc + 4,
                    state.flags, mem)
  BY <1>5
<1>6. ASSUME Fetches(OP_HALT, d, s, i)
      PROVE  Halts(state.pc + 4)
  BY <1>6
<1> QED
  BY <1>2, <1>3, <1>4, <1>5, <1>6

(* The arithmetic handlers.                                                *)
LEMMA AluEffect ==
    ASSUME TypeOK, Deterministic, NEW op \in {OP_ADD, OP_SUB, OP_MUL, OP_DIV},
           NEW d, NEW s, NEW i, Fetches(op, d, s, i), op = OP_DIV => state.regs[s] # 0
    PROVE  Effect([state.regs EXCEPT ![d] = AluResult(op, state.regs[d], state.regs[s])],
                  state.pc + 4, AluFlags(op, state.regs[d], state.regs[s]), mem)
<1>1. /\ Here.mem = mem /\ Here.st.regs = state.regs /\ Here.st.pc = state.pc
      /\ Here.st.flags = state.flags /\ Here.st.halted = state.halted
  BY HereFields
<1> HIDE DEF Here
<1> QED
  BY <1>1, PlainStep, Opcodes DEF Fetches, Effect, Stays, DivZero, Reads, ALU, ExecRegs,
     ExecReg, ExecPc, ExecFlags, ExecHalted, ExecMem

-----------------------------------------------------------------------------
(* The instructions of the workload and of the demo.                       *)

(* The workload, line by line.                                             *)
LEMMA WorkloadLines ==
    /\ Line(workload, 0, OP_LI, 0, 0, kBenchmarkLoopCount)
    /\ Line(workload, 4, OP_LI, 1, 0, 1)
    /\ Line(workload, 8, OP_ADD, 2, 1, 0)
    /\ Line(workload, 12, OP_ADD, 3, 1, 0)
    /\ Line(workload, 16, OP_SUB, 4, 0, 0)
    /\ Line(workload, 20, OP_MUL, 5, 1, 0)
    /\ Line(workload, 24, OP_DIV, 6, 1, 0)
    /\ Line(workload, 28, OP_STORE, 2, 0, kCell)
    /\ Line(workload, 32, OP_LOAD, 7, 0, kCell)
    /\ Line(workload, 36, OP_SUB, 0, 1, 0)
    /\ Line(workload, 40, OP_JNZ, 0, 0, 8)
    /\ Line(workload, 44, OP_HALT, 0, 0, 0)
<1>1. /\ kCell \in Addr /\ kBenchmarkLoopCount \in Addr
      /\ 0 \in Addr /\ 1 \in Addr /\ 5 \in Addr /\ 7 \in Addr /\ 8 \in Addr
  BY BenchmarksAssumption, MachineAssumption DEF Addr
<1>2. Len(workload) = 12
  BY DEF workload
<1>3. Line(workload, 0, OP_LI, 0, 0, kBenchmarkLoopCount)
  <2>1. 1 \in 1 .. Len(workload) /\ 0 = 4 * (1 - 1)
    BY <1>2
  <2>2. workload[1] = encode(OP_LI, 0, 0, kBenchmarkLoopCount)
    BY DEF workload
  <2> QED BY <2>1, <2>2, <1>1, Opcodes DEF Line
<1>4. Line(workload, 4, OP_LI, 1, 0, 1)
  <2>1. 2 \in 1 .. Len(workload) /\ 4 = 4 * (2 - 1)
    BY <1>2
  <2>2. workload[2] = encode(OP_LI, 1, 0, 1)
    BY DEF workload
  <2> QED BY <2>1, <2>2, <1>1, Opcodes DEF Line
<1>5. Line(workload, 8, OP_ADD, 2, 1, 0)
  <2>1. 3 \in 1 .. Len(workload) /\ 8 = 4 * (3 - 1)
    BY <1>2
  <2>2. workload[3] = encode(OP_ADD, 2, 1, 0)
    BY DEF workload
  <2> QED BY <2>1, <2>2, <1>1, Opcodes DEF Line
<1>6. Line(workload, 12, OP_ADD, 3, 1, 0)
  <2>1. 4 \in 1 .. Len(workload) /\ 12 = 4 * (4 - 1)
    BY <1>2
  <2>2. workload[4] = encode(OP_ADD, 3, 1, 0)
    BY DEF workload
  <2> QED BY <2>1, <2>2, <1>1, Opcodes DEF Line
<1>7. Line(workload, 16, OP_SUB, 4, 0, 0)
  <2>1. 5 \in 1 .. Len(workload) /\ 16 = 4 * (5 - 1)
    BY <1>2
  <2>2. workload[5] = encode(OP_SUB, 4, 0, 0)
    BY DEF workload
  <2> QED BY <2>1, <2>2, <1>1, Opcodes DEF Line
<1>8. Line(workload, 20, OP_MUL, 5, 1, 0)
  <2>1. 6 \in 1 .. Len(workload) /\ 20 = 4 * (6 - 1)
    BY <1>2
  <2>2. workload[6] = encode(OP_MUL, 5, 1, 0)
    BY DEF workload
  <2> QED BY <2>1, <2>2, <1>1, Opcodes DEF Line
<1>9. Line(workload, 24, OP_DIV, 6, 1, 0)
  <2>1. 7 \in 1 .. Len(workload) /\ 24 = 4 * (7 - 1)
    BY <1>2
  <2>2. workload[7] = encode(OP_DIV, 6, 1, 0)
    BY DEF workload
  <2> QED BY <2>1, <2>2, <1>1, Opcodes DEF Line
<1>10. Line(workload, 28, OP_STORE, 2, 0, kCell)
  <2>1. 8 \in 1 .. Len(workload) /\ 28 = 4 * (8 - 1)
    BY <1>2
  <2>2. workload[8] = encode(OP_STORE, 2, 0, kCell)
    BY DEF workload
  <2> QED BY <2>1, <2>2, <1>1, Opcodes DEF Line
<1>11. Line(workload, 32, OP_LOAD, 7, 0, kCell)
  <2>1. 9 \in 1 .. Len(workload) /\ 32 = 4 * (9 - 1)
    BY <1>2
  <2>2. workload[9] = encode(OP_LOAD, 7, 0, kCell)
    BY DEF workload
  <2> QED BY <2>1, <2>2, <1>1, Opcodes DEF Line
<1>12. Line(workload, 36, OP_SUB, 0, 1, 0)
  <2>1. 10 \in 1 .. Len(workload) /\ 36 = 4 * (10 - 1)
    BY <1>2
  <2>2. workload[10] = encode(OP_SUB, 0, 1, 0)
    BY DEF workload
  <2> QED BY <2>1, <2>2, <1>1, Opcodes DEF Line
<1>13. Line(workload, 40, OP_JNZ, 0, 0, 8)
  <2>1. 11 \in 1 .. Len(workload) /\ 40 = 4 * (11 - 1)
    BY <1>2
  <2>2. workload[11] = encode(OP_JNZ, 0, 0, 8)
    BY DEF workload
  <2> QED BY <2>1, <2>2, <1>1, Opcodes DEF Line
<1>14. Line(workload, 44, OP_HALT, 0, 0, 0)
  <2>1. 12 \in 1 .. Len(workload) /\ 44 = 4 * (12 - 1)
    BY <1>2
  <2>2. workload[12] = encode(OP_HALT, 0, 0, 0)
    BY DEF workload
  <2> QED BY <2>1, <2>2, <1>1, Opcodes DEF Line
<1> QED
  BY <1>3, <1>4, <1>5, <1>6, <1>7, <1>8, <1>9, <1>10, <1>11, <1>12, <1>13, <1>14

(* What each line of the workload does when the pass at its address runs.  *)
LEMMA WorkloadEffect ==
    ASSUME TypeOK, Deterministic, Holds(mem, workload)
    PROVE  LET r == state.regs
               f == state.flags
           IN  /\ state.pc = 0 => Effect([r EXCEPT ![0] = kBenchmarkLoopCount], 4, f, mem)
               /\ state.pc = 4 => Effect([r EXCEPT ![1] = 1], 8, f, mem)
               /\ state.pc = 8 =>
                     Effect([r EXCEPT ![2] = AluResult(OP_ADD, r[2], r[1])], 12,
                            AluFlags(OP_ADD, r[2], r[1]), mem)
               /\ state.pc = 12 =>
                     Effect([r EXCEPT ![3] = AluResult(OP_ADD, r[3], r[1])], 16,
                            AluFlags(OP_ADD, r[3], r[1]), mem)
               /\ state.pc = 16 =>
                     Effect([r EXCEPT ![4] = AluResult(OP_SUB, r[4], r[0])], 20,
                            AluFlags(OP_SUB, r[4], r[0]), mem)
               /\ state.pc = 20 =>
                     Effect([r EXCEPT ![5] = AluResult(OP_MUL, r[5], r[1])], 24,
                            AluFlags(OP_MUL, r[5], r[1]), mem)
               /\ state.pc = 24 /\ r[1] # 0 =>
                     Effect([r EXCEPT ![6] = AluResult(OP_DIV, r[6], r[1])], 28,
                            AluFlags(OP_DIV, r[6], r[1]), mem)
               /\ state.pc = 28 => Effect(r, 32, f, mem_store_u32(mem, kCell, r[2]))
               /\ state.pc = 32 =>
                     Effect([r EXCEPT ![7] = mem_load_u32(mem, kCell)], 36, f, mem)
               /\ state.pc = 36 =>
                     Effect([r EXCEPT ![0] = AluResult(OP_SUB, r[0], r[1])], 40,
                            AluFlags(OP_SUB, r[0], r[1]), mem)
               /\ state.pc = 40 => Effect(r, IF r[0] # 0 THEN 8 ELSE 44, f, mem)
               /\ state.pc = 44 => Halts(48)
<1>1. workload \in Seq(Word) /\ 4 * Len(workload) < MEM_SIZE
  BY ProgramTypes, BenchmarksAssumption, MachineAssumption
<1>2. ASSUME NEW op, NEW d, NEW s, NEW i, Line(workload, state.pc, op, d, s, i)
      PROVE  Fetches(op, d, s, i)
  BY <1>1, <1>2, FetchedInstr
<1>3. ASSUME state.pc = 0
      PROVE  Effect([state.regs EXCEPT ![0] = kBenchmarkLoopCount], 4, state.flags, mem)
  <2>1. Fetches(OP_LI, 0, 0, kBenchmarkLoopCount) /\ state.pc + 4 = 4
    BY <1>2, <1>3, WorkloadLines
  <2> QED BY <2>1, <1>3, Effects
<1>4. ASSUME state.pc = 4
      PROVE  Effect([state.regs EXCEPT ![1] = 1], 8, state.flags, mem)
  <2>1. Fetches(OP_LI, 1, 0, 1) /\ state.pc + 4 = 8
    BY <1>2, <1>4, WorkloadLines
  <2> QED BY <2>1, <1>4, Effects
<1>5. ASSUME state.pc = 8
      PROVE  Effect([state.regs EXCEPT ![2] = AluResult(OP_ADD, state.regs[2], state.regs[1])],
                    12, AluFlags(OP_ADD, state.regs[2], state.regs[1]), mem)
  <2>1. Fetches(OP_ADD, 2, 1, 0) /\ state.pc + 4 = 12
    BY <1>2, <1>5, WorkloadLines
  <2>2. OP_ADD # OP_DIV
    BY Opcodes
  <2> QED BY <2>1, <2>2, <1>5, AluEffect
<1>6. ASSUME state.pc = 12
      PROVE  Effect([state.regs EXCEPT ![3] = AluResult(OP_ADD, state.regs[3], state.regs[1])],
                    16, AluFlags(OP_ADD, state.regs[3], state.regs[1]), mem)
  <2>1. Fetches(OP_ADD, 3, 1, 0) /\ state.pc + 4 = 16
    BY <1>2, <1>6, WorkloadLines
  <2>2. OP_ADD # OP_DIV
    BY Opcodes
  <2> QED BY <2>1, <2>2, <1>6, AluEffect
<1>7. ASSUME state.pc = 16
      PROVE  Effect([state.regs EXCEPT ![4] = AluResult(OP_SUB, state.regs[4], state.regs[0])],
                    20, AluFlags(OP_SUB, state.regs[4], state.regs[0]), mem)
  <2>1. Fetches(OP_SUB, 4, 0, 0) /\ state.pc + 4 = 20
    BY <1>2, <1>7, WorkloadLines
  <2>2. OP_SUB # OP_DIV
    BY Opcodes
  <2> QED BY <2>1, <2>2, <1>7, AluEffect
<1>8. ASSUME state.pc = 20
      PROVE  Effect([state.regs EXCEPT ![5] = AluResult(OP_MUL, state.regs[5], state.regs[1])],
                    24, AluFlags(OP_MUL, state.regs[5], state.regs[1]), mem)
  <2>1. Fetches(OP_MUL, 5, 1, 0) /\ state.pc + 4 = 24
    BY <1>2, <1>8, WorkloadLines
  <2>2. OP_MUL # OP_DIV
    BY Opcodes
  <2> QED BY <2>1, <2>2, <1>8, AluEffect
<1>9. ASSUME state.pc = 24, state.regs[1] # 0
      PROVE  Effect([state.regs EXCEPT ![6] = AluResult(OP_DIV, state.regs[6], state.regs[1])],
                    28, AluFlags(OP_DIV, state.regs[6], state.regs[1]), mem)
  <2>1. Fetches(OP_DIV, 6, 1, 0) /\ state.pc + 4 = 28
    BY <1>2, <1>9, WorkloadLines
  <2> QED BY <2>1, <1>9, AluEffect
<1>10. ASSUME state.pc = 28
      PROVE  Effect(state.regs, 32, state.flags, mem_store_u32(mem, kCell, state.regs[2]))
  <2>1. Fetches(OP_STORE, 2, 0, kCell) /\ state.pc + 4 = 32
    BY <1>2, <1>10, WorkloadLines
  <2> QED BY <2>1, <1>10, Effects
<1>11. ASSUME state.pc = 32
      PROVE  Effect([state.regs EXCEPT ![7] = mem_load_u32(mem, kCell)], 36,
                    state.flags, mem)
  <2>1. Fetches(OP_LOAD, 7, 0, kCell) /\ state.pc + 4 = 36
    BY <1>2, <1>11, WorkloadLines
  <2> QED BY <2>1, <1>11, Effects
<1>12. ASSUME state.pc = 36
      PROVE  Effect([state.regs EXCEPT ![0] = AluResult(OP_SUB, state.regs[0], state.regs[1])],
                    40, AluFlags(OP_SUB, state.regs[0], state.regs[1]), mem)
  <2>1. Fetches(OP_SUB, 0, 1, 0) /\ state.pc + 4 = 40
    BY <1>2, <1>12, WorkloadLines
  <2>2. OP_SUB # OP_DIV
    BY Opcodes
  <2> QED BY <2>1, <2>2, <1>12, AluEffect
<1>13. ASSUME state.pc = 40
      PROVE  Effect(state.regs, IF state.regs[0] # 0 THEN 8 ELSE 44, state.flags, mem)
  <2>1. Fetches(OP_JNZ, 0, 0, 8) /\ state.pc + 4 = 44
    BY <1>2, <1>13, WorkloadLines
  <2> QED BY <2>1, <1>13, Effects
<1>14. ASSUME state.pc = 44
      PROVE  Halts(48)
  <2>1. Fetches(OP_HALT, 0, 0, 0) /\ state.pc + 4 = 48
    BY <1>2, <1>14, WorkloadLines
  <2> QED BY <2>1, <1>14, Effects
<1> QED
  BY <1>3, <1>4, <1>5, <1>6, <1>7, <1>8, <1>9, <1>10, <1>11, <1>12, <1>13, <1>14

(* The demo, line by line.                                                 *)
LEMMA DemoLines ==
    /\ Line(demo, 0, OP_LI, 0, 0, 5)
    /\ Line(demo, 4, OP_LI, 1, 0, 7)
    /\ Line(demo, 8, OP_LI, 2, 0, 5)
    /\ Line(demo, 12, OP_ADD, 2, 1, 0)
    /\ Line(demo, 16, OP_STORE, 2, 0, kCell)
    /\ Line(demo, 20, OP_LOAD, 3, 0, kCell)
    /\ Line(demo, 24, OP_HALT, 0, 0, 0)
<1>1. /\ kCell \in Addr /\ kBenchmarkLoopCount \in Addr
      /\ 0 \in Addr /\ 1 \in Addr /\ 5 \in Addr /\ 7 \in Addr /\ 8 \in Addr
  BY BenchmarksAssumption, MachineAssumption DEF Addr
<1>2. Len(demo) = 7
  BY DEF demo
<1>3. Line(demo, 0, OP_LI, 0, 0, 5)
  <2>1. 1 \in 1 .. Len(demo) /\ 0 = 4 * (1 - 1)
    BY <1>2
  <2>2. demo[1] = encode(OP_LI, 0, 0, 5)
    BY DEF demo
  <2> QED BY <2>1, <2>2, <1>1, Opcodes DEF Line
<1>4. Line(demo, 4, OP_LI, 1, 0, 7)
  <2>1. 2 \in 1 .. Len(demo) /\ 4 = 4 * (2 - 1)
    BY <1>2
  <2>2. demo[2] = encode(OP_LI, 1, 0, 7)
    BY DEF demo
  <2> QED BY <2>1, <2>2, <1>1, Opcodes DEF Line
<1>5. Line(demo, 8, OP_LI, 2, 0, 5)
  <2>1. 3 \in 1 .. Len(demo) /\ 8 = 4 * (3 - 1)
    BY <1>2
  <2>2. demo[3] = encode(OP_LI, 2, 0, 5)
    BY DEF demo
  <2> QED BY <2>1, <2>2, <1>1, Opcodes DEF Line
<1>6. Line(demo, 12, OP_ADD, 2, 1, 0)
  <2>1. 4 \in 1 .. Len(demo) /\ 12 = 4 * (4 - 1)
    BY <1>2
  <2>2. demo[4] = encode(OP_ADD, 2, 1, 0)
    BY DEF demo
  <2> QED BY <2>1, <2>2, <1>1, Opcodes DEF Line
<1>7. Line(demo, 16, OP_STORE, 2, 0, kCell)
  <2>1. 5 \in 1 .. Len(demo) /\ 16 = 4 * (5 - 1)
    BY <1>2
  <2>2. demo[5] = encode(OP_STORE, 2, 0, kCell)
    BY DEF demo
  <2> QED BY <2>1, <2>2, <1>1, Opcodes DEF Line
<1>8. Line(demo, 20, OP_LOAD, 3, 0, kCell)
  <2>1. 6 \in 1 .. Len(demo) /\ 20 = 4 * (6 - 1)
    BY <1>2
  <2>2. demo[6] = encode(OP_LOAD, 3, 0, kCell)
    BY DEF demo
  <2> QED BY <2>1, <2>2, <1>1, Opcodes DEF Line
<1>9. Line(demo, 24, OP_HALT, 0, 0, 0)
  <2>1. 7 \in 1 .. Len(demo) /\ 24 = 4 * (7 - 1)
    BY <1>2
  <2>2. demo[7] = encode(OP_HALT, 0, 0, 0)
    BY DEF demo
  <2> QED BY <2>1, <2>2, <1>1, Opcodes DEF Line
<1> QED
  BY <1>3, <1>4, <1>5, <1>6, <1>7, <1>8, <1>9

(* What each line of the demo does.                                        *)
LEMMA DemoEffect ==
    ASSUME TypeOK, Deterministic, Holds(mem, demo)
    PROVE  LET r == state.regs
               f == state.flags
           IN  /\ state.pc = 0 => Effect([r EXCEPT ![0] = 5], 4, f, mem)
               /\ state.pc = 4 => Effect([r EXCEPT ![1] = 7], 8, f, mem)
               /\ state.pc = 8 => Effect([r EXCEPT ![2] = 5], 12, f, mem)
               /\ state.pc = 12 =>
                     Effect([r EXCEPT ![2] = AluResult(OP_ADD, r[2], r[1])], 16,
                            AluFlags(OP_ADD, r[2], r[1]), mem)
               /\ state.pc = 16 => Effect(r, 20, f, mem_store_u32(mem, kCell, r[2]))
               /\ state.pc = 20 =>
                     Effect([r EXCEPT ![3] = mem_load_u32(mem, kCell)], 24, f, mem)
               /\ state.pc = 24 => Halts(28)
<1>1. demo \in Seq(Word) /\ 4 * Len(demo) < MEM_SIZE
  BY ProgramTypes, BenchmarksAssumption, MachineAssumption
<1>2. ASSUME NEW op, NEW d, NEW s, NEW i, Line(demo, state.pc, op, d, s, i)
      PROVE  Fetches(op, d, s, i)
  BY <1>1, <1>2, FetchedInstr
<1>3. ASSUME state.pc = 0
      PROVE  Effect([state.regs EXCEPT ![0] = 5], 4, state.flags, mem)
  <2>1. Fetches(OP_LI, 0, 0, 5) /\ state.pc + 4 = 4
    BY <1>2, <1>3, DemoLines
  <2> QED BY <2>1, <1>3, Effects
<1>4. ASSUME state.pc = 4
      PROVE  Effect([state.regs EXCEPT ![1] = 7], 8, state.flags, mem)
  <2>1. Fetches(OP_LI, 1, 0, 7) /\ state.pc + 4 = 8
    BY <1>2, <1>4, DemoLines
  <2> QED BY <2>1, <1>4, Effects
<1>5. ASSUME state.pc = 8
      PROVE  Effect([state.regs EXCEPT ![2] = 5], 12, state.flags, mem)
  <2>1. Fetches(OP_LI, 2, 0, 5) /\ state.pc + 4 = 12
    BY <1>2, <1>5, DemoLines
  <2> QED BY <2>1, <1>5, Effects
<1>6. ASSUME state.pc = 12
      PROVE  Effect([state.regs EXCEPT ![2] = AluResult(OP_ADD, state.regs[2], state.regs[1])],
                    16, AluFlags(OP_ADD, state.regs[2], state.regs[1]), mem)
  <2>1. Fetches(OP_ADD, 2, 1, 0) /\ state.pc + 4 = 16
    BY <1>2, <1>6, DemoLines
  <2>2. OP_ADD # OP_DIV
    BY Opcodes
  <2> QED BY <2>1, <2>2, <1>6, AluEffect
<1>7. ASSUME state.pc = 16
      PROVE  Effect(state.regs, 20, state.flags, mem_store_u32(mem, kCell, state.regs[2]))
  <2>1. Fetches(OP_STORE, 2, 0, kCell) /\ state.pc + 4 = 20
    BY <1>2, <1>7, DemoLines
  <2> QED BY <2>1, <1>7, Effects
<1>8. ASSUME state.pc = 20
      PROVE  Effect([state.regs EXCEPT ![3] = mem_load_u32(mem, kCell)], 24,
                    state.flags, mem)
  <2>1. Fetches(OP_LOAD, 3, 0, kCell) /\ state.pc + 4 = 24
    BY <1>2, <1>8, DemoLines
  <2> QED BY <2>1, <1>8, Effects
<1>9. ASSUME state.pc = 24
      PROVE  Halts(28)
  <2>1. Fetches(OP_HALT, 0, 0, 0) /\ state.pc + 4 = 28
    BY <1>2, <1>9, DemoLines
  <2> QED BY <2>1, <1>9, Effects
<1> QED
  BY <1>3, <1>4, <1>5, <1>6, <1>7, <1>8, <1>9

-----------------------------------------------------------------------------
(* The exact course of the workload.                                       *)

N == kBenchmarkLoopCount

(* R4 after k iterations: the running total of R0, subtracted from zero.   *)
R4After ==
    CHOOSE f \in [0 .. N -> Word] :
        Iterates(f, N, 0, [q \in (1 .. N) \X Word |-> (q[2] - (N - q[1] + 1)) % WORD_MOD])

(* The registers, the ones the workload never makes non-zero left out.     *)
RegsAre(r, x0, x1, x2, x3, x4, x7) ==
    /\ r[0] = x0 /\ r[1] = x1 /\ r[2] = x2 /\ r[3] = x3 /\ r[4] = x4 /\ r[7] = x7
    /\ \A i \in Reg \ {0, 1, 2, 3, 4, 7} : r[i] = 0

(* The memory while the cell holds v, and any memory with the code intact. *)
CellMemory(v) == mem_store_u32(Image(workload), kCell, v)

Intact(m) == m \in Memory /\ \A x \in Addr \ Cells(kCell) : m[x] = Image(workload)[x]

(* The flags of a result without a carry.                                  *)
PlainFlags(v) == Flags(v, FALSE)

(* Iteration k is about to run the p-th of the nine instructions of the    *)
(* loop.  The cell is only known once this run has stored to it.           *)
LoopAt(k, p) ==
    /\ state.cycle_count = 2 + 9 * k + p /\ state.pc = 8 + 4 * p
    /\ RegsAre(state.regs, IF p <= 7 THEN N - k ELSE N - k - 1, 1,
               IF p = 0 THEN k ELSE k + 1, IF p <= 1 THEN k ELSE k + 1,
               IF p <= 2 THEN R4After[k] ELSE R4After[k + 1],
               IF p <= 6 THEN k ELSE k + 1)
    /\ p = 8 => state.flags = PlainFlags(N - k - 1)
    /\ k >= 1 \/ p >= 6 => mem = CellMemory(IF p <= 5 THEN k ELSE k + 1)

AtStart == state.cycle_count = 0 /\ state.pc = 0 /\ RegsAre(state.regs, 0, 0, 0, 0, 0, 0)

AtSecond == state.cycle_count = 1 /\ state.pc = 4 /\ RegsAre(state.regs, N, 0, 0, 0, 0, 0)

Finals(st, m) ==
    /\ RegsAre(st.regs, 0, 1, N, N, R4After[N], N)
    /\ st.flags = PlainFlags(0) /\ st.sp = MEM_SIZE - 4
    /\ m = CellMemory(N)

AtHalt == state.cycle_count = 2 + 9 * N /\ state.pc = 44 /\ Finals(state, mem)

(* The workload is on its way, and it has ended.                           *)
InRun ==
    /\ state.halted = HALT_RUNNING /\ state.sp = MEM_SIZE - 4 /\ Intact(mem)
    /\ \/ AtStart \/ AtSecond \/ AtHalt
       \/ \E k \in 0 .. N - 1 : \E p \in 0 .. 8 : LoopAt(k, p)

HasEnded(st, m) ==
    st.cycle_count = expected /\ st.pc = 48 /\ st.halted = HALT_NORMAL /\ Finals(st, m)

(* The demo, after c of its seven instructions.                            *)
DemoAt(c) ==
    /\ state.cycle_count = c /\ state.pc = 4 * c /\ state.halted = HALT_RUNNING
    /\ Holds(mem, demo) /\ mem \in Memory
    /\ c >= 1 => state.regs[0] = 5
    /\ c >= 2 => state.regs[1] = 7
    /\ c >= 3 => state.regs[2] = IF c = 3 THEN 5 ELSE 12
    /\ c >= 5 => mem_load_u32(mem, kCell) = 12
    /\ c >= 6 => state.regs[3] = 12

-----------------------------------------------------------------------------
(* The invariant of the runs.                                              *)

IsDemo == config.cmd = "demo"

(* A run of the workload from its beginning is going on, or has just       *)
(* ended: the sanity run, and every iteration of the plain benchmarks.     *)
FullRun == ~ IsDemo /\ (stage = "sanity" \/ (stage = "round" /\ ~ IsBack))

DemoOK ==
    IsDemo =>
        /\ stage \in {"loaded", "sanity", "done"}
        /\ stage # "done" => first = << >>
        /\ stage = "loaded" => DemoAt(0)
        /\ stage = "sanity" => IF running THEN \E c \in 0 .. 6 : DemoAt(c) ELSE DemoPasses

WorkloadOK ==
    ~ IsDemo =>
        /\ stage \in {"loaded", "reset"} => AtStart /\ InRun
        /\ stage = "rest" /\ ~ IsBack => Intact(mem)
        /\ FullRun => IF running THEN InRun ELSE HasEnded(state, mem)
        /\ FullRun => Intact(mem)

FirstOK ==
    ~ IsBack /\ ~ IsDemo /\ first # << >> =>
        \E st \in VMState : \E m : /\ first = << st, m >> /\ HasEnded(st, m)
                                   /\ st.snap_interval = 0 /\ st.snap_timer = 0

(* No target is set but in the iterations of the back benchmarks, and the  *)
(* timer stays at zero where nobody arms it.                               *)
QuietOK ==
    /\ exit_code = 0
    /\ ~ IsBack => target_cycle = NoTarget /\ state.snap_timer = 0
    /\ stage \in {"loaded", "sanity"} => target_cycle = NoTarget
    /\ stage = "rewound" => IsBack

RunInv == QuietOK /\ DemoOK /\ WorkloadOK /\ FirstOK

-----------------------------------------------------------------------------
(* The memory of the workload.                                             *)

(* The range of the constants, with the addresses that they name.          *)
LEMMA WorkloadSizes ==
    /\ N \in Nat /\ N >= 1 /\ N < WORD_MOD /\ N \in Word /\ N \in Addr
    /\ WORD_MOD \in Nat /\ MEM_SIZE \in Nat /\ 52 <= MEM_SIZE /\ MEM_SIZE <= WORD_MOD
    /\ kCell \in Nat /\ 48 <= kCell /\ kCell + 3 < MEM_SIZE
    /\ 0 .. 7 \subseteq Reg /\ 0 .. N \subseteq Word /\ 0 .. 12 \subseteq Word
    /\ expected = 9 * N + 3
<1>1. /\ N \in 1 .. MEM_SIZE - 1 /\ kCell \in 48 .. MEM_SIZE - 4
      /\ MEM_SIZE \in Nat /\ MEM_SIZE <= WORD_MOD /\ WORD_MOD \in Nat
      /\ NREGS \in Nat /\ NREGS >= 8
  BY BenchmarksAssumption, MachineAssumption, Sizes DEF N
<1>2. expected = 9 * N + 3
  BY <1>1 DEF expected, N
<1> HIDE DEF N
<1> QED
  BY <1>1, <1>2 DEF Word, Addr, Reg

(* The bytes of the cell.                                                  *)
LEMMA CellRange ==
    /\ Cells(kCell) = {kCell, kCell + 1, kCell + 2, kCell + 3}
    /\ Mask(kCell) = kCell /\ Mask(kCell + 1) = kCell + 1
    /\ Mask(kCell + 2) = kCell + 2 /\ Mask(kCell + 3) = kCell + 3
    /\ {kCell, kCell + 1, kCell + 2, kCell + 3} \subseteq Addr
<1>1. /\ kCell + 1 \in Nat /\ kCell + 2 \in Nat /\ kCell + 3 \in Nat /\ kCell \in Nat
      /\ kCell + 1 < MEM_SIZE /\ kCell + 2 < MEM_SIZE /\ kCell + 3 < MEM_SIZE
      /\ kCell < MEM_SIZE
  BY WorkloadSizes
<1> QED
  BY <1>1, SmallMask DEF Cells

(* A word that was stored in the cell is read back.                        *)
LEMMA CellHolds ==
    ASSUME NEW m \in Memory, NEW v \in Word
    PROVE  /\ mem_store_u32(m, kCell, v) \in Memory
           /\ mem_load_u32(mem_store_u32(m, kCell, v), kCell) = v
<1>1. kCell \in Nat
  BY WorkloadSizes
<1> DEFINE m2 == mem_store_u32(m, kCell, v)
<1>2. m2 = [m EXCEPT ![kCell] = Byte0(v), ![kCell + 1] = Byte1(v), ![kCell + 2] = Byte2(v),
                     ![kCell + 3] = Byte3(v)]
  BY CellRange DEF mem_store_u32
<1>3. m2[kCell] = Byte0(v) /\ m2[kCell + 1] = Byte1(v) /\ m2[kCell + 2] = Byte2(v)
      /\ m2[kCell + 3] = Byte3(v)
  BY <1>1, <1>2, CellRange DEF Memory
<1> HIDE DEF m2
<1>4. mem_load_u32(m2, kCell) = FromBytes(Byte0(v), Byte1(v), Byte2(v), Byte3(v))
  BY <1>3, CellRange DEF mem_load_u32
<1> QED
  BY <1>1, <1>4, JoinOfSplit, StoreType DEF m2

(* The workload is in every intact memory, and a loaded memory is intact.  *)
LEMMA IntactHolds ==
    /\ \A m : Intact(m) => Holds(m, workload)
    /\ Intact(Image(workload))
<1> DEFINE b == BytesOf(workload)
<1>1. workload \in Seq(Word) /\ Len(workload) = 12
  BY ProgramTypes
<1>2. Image(workload) \in Memory /\ Len(b) = 48
  <2>1. Len(b) = 4 * Len(workload)
    BY <1>1, BytesAt
  <2> QED BY <2>1, <1>1, ImageType
<1>3. ASSUME NEW x \in Addr, x < 48 PROVE Image(workload)[x] = b[x + 1]
  BY <1>2, <1>3 DEF Image, load_program
<1>4. ASSUME NEW x \in Addr, x < 48 PROVE x \notin Cells(kCell)
  <2>1. x \in Nat /\ kCell \in Nat /\ 48 <= kCell
    BY WorkloadSizes DEF Addr
  <2> QED BY <2>1, <1>4, CellRange
<1> HIDE DEF b
<1>5. ASSUME NEW m, Intact(m) PROVE Holds(m, workload)
  BY <1>1, <1>3, <1>4, <1>5 DEF Intact, Holds, b
<1> QED
  BY <1>2, <1>5 DEF Intact

(* A store to the cell keeps the code intact, and leaves the same memory   *)
(* whatever the cell held before.                                          *)
LEMMA CellStore ==
    ASSUME NEW m, Intact(m), NEW v \in Word
    PROVE  /\ Intact(mem_store_u32(m, kCell, v))
           /\ mem_store_u32(m, kCell, v) = CellMemory(v)
           /\ mem_load_u32(CellMemory(v), kCell) = v
<1> DEFINE z == Image(workload)
           m2 == mem_store_u32(m, kCell, v)
           z2 == mem_store_u32(z, kCell, v)
<1>1. m \in Memory /\ z \in Memory /\ kCell \in Nat
      /\ \A x \in Addr \ Cells(kCell) : m[x] = z[x]
  BY IntactHolds, WorkloadSizes DEF Intact
<1>2. m2 \in Memory /\ z2 \in Memory /\ mem_load_u32(z2, kCell) = v
  BY <1>1, CellHolds
<1>3. ASSUME NEW x \in Addr
      PROVE  /\ m2[x] = z2[x]
             /\ x \notin Cells(kCell) => m2[x] = z[x]
  <2>1. CASE x \in Cells(kCell)
    BY <2>1, <1>1, StoreCells
  <2>2. CASE x \notin Cells(kCell)
    <3>1. m2[x] = m[x] /\ z2[x] = z[x]
      BY <2>2, <1>1, StoreCells
    <3> QED BY <3>1, <2>2, <1>1
  <2> QED BY <2>1, <2>2
<1> HIDE DEF m2, z2
<1>4. m2 = z2
  BY <1>2, <1>3 DEF Memory
<1> QED
  BY <1>2, <1>3, <1>4 DEF Intact, CellMemory, m2, z2

(* R4 exists, and what it is.                                              *)
LEMMA R4Facts ==
    /\ R4After \in [0 .. N -> Word] /\ R4After[0] = 0
    /\ \A k \in 0 .. N - 1 : R4After[k + 1] = (R4After[k] - (N - k)) % WORD_MOD
<1> DEFINE G == [q \in (1 .. N) \X Word |-> (q[2] - (N - q[1] + 1)) % WORD_MOD]
<1>1. N \in Nat /\ 0 \in Word
  BY WorkloadSizes
<1>2. G \in [(1 .. N) \X Word -> Word]
  <2>1. ASSUME NEW i \in 1 .. N, NEW w \in Word PROVE (w - (N - i + 1)) % WORD_MOD \in Word
    <3>1. w - (N - i + 1) \in Int
      BY <1>1, Sizes DEF Word
    <3> QED BY <3>1, WordWrap
  <2> QED BY <2>1
<1>3. \E f \in [0 .. N -> Word] : Iterates(f, N, 0, G)
  <2> HIDE DEF G, N
  <2> QED BY <1>1, <1>2, RecursionUp
<1>4. R4After = CHOOSE f \in [0 .. N -> Word] : Iterates(f, N, 0, G)
  BY DEF R4After
<1>5. R4After \in [0 .. N -> Word] /\ Iterates(R4After, N, 0, G)
  <2> HIDE DEF G, N
  <2> QED BY <1>3, <1>4
<1> HIDE DEF N
<1>6. ASSUME NEW k \in 0 .. N - 1
      PROVE  R4After[k + 1] = (R4After[k] - (N - k)) % WORD_MOD
  <2>1. PICK i \in 1 .. N : i = k + 1 /\ i - 1 = k /\ N - i + 1 = N - k
    BY <1>1
  <2>2. R4After[k] \in Word
    BY <1>1, <1>5
  <2>3. R4After[i] = G[<< i, R4After[i - 1] >>]
    <3> HIDE DEF G
    <3> QED BY <1>5 DEF Iterates
  <2>4. G[<< i, R4After[k] >>] = (R4After[k] - (N - i + 1)) % WORD_MOD
    BY <2>2
  <2> QED BY <2>1, <2>3, <2>4
<1>7. R4After[0] = 0
  BY <1>5 DEF Iterates
<1> QED
  BY <1>5, <1>6, <1>7

-----------------------------------------------------------------------------
(* The steps of the exact course.                                          *)

(* What the instructions that write a register make of the registers.      *)
LEMMA RegsWrite ==
    ASSUME NEW r \in [Reg -> Word], NEW x0, NEW x1, NEW x2, NEW x3, NEW x4, NEW x7, NEW v,
           RegsAre(r, x0, x1, x2, x3, x4, x7)
    PROVE  /\ RegsAre([r EXCEPT ![0] = v], v, x1, x2, x3, x4, x7)
           /\ RegsAre([r EXCEPT ![1] = v], x0, v, x2, x3, x4, x7)
           /\ RegsAre([r EXCEPT ![2] = v], x0, x1, v, x3, x4, x7)
           /\ RegsAre([r EXCEPT ![3] = v], x0, x1, x2, v, x4, x7)
           /\ RegsAre([r EXCEPT ![4] = v], x0, x1, x2, x3, v, x7)
           /\ v = 0 => RegsAre([r EXCEPT ![5] = v], x0, x1, x2, x3, x4, x7)
           /\ v = 0 => RegsAre([r EXCEPT ![6] = v], x0, x1, x2, x3, x4, x7)
           /\ RegsAre([r EXCEPT ![7] = v], x0, x1, x2, x3, x4, v)
           /\ r[5] = 0 /\ r[6] = 0
<1>1. /\ 0 \in Reg /\ 1 \in Reg /\ 2 \in Reg /\ 3 \in Reg /\ 4 \in Reg /\ 5 \in Reg
      /\ 6 \in Reg /\ 7 \in Reg
  BY WorkloadSizes
<1> QED
  BY <1>1 DEF RegsAre

(* The arithmetic of the workload.                                         *)
LEMMA WorkloadAlu ==
    /\ \A a \in Nat : a + 1 < WORD_MOD => AluResult(OP_ADD, a, 1) = a + 1
    /\ \A a \in Word : a >= 1 =>
          AluResult(OP_SUB, a, 1) = a - 1 /\ AluFlags(OP_SUB, a, 1) = PlainFlags(a - 1)
    /\ \A a, b : AluResult(OP_SUB, a, b) = (a - b) % WORD_MOD
    /\ AluResult(OP_MUL, 0, 1) = 0 /\ AluResult(OP_DIV, 0, 1) = 0
<1>1. ASSUME NEW x \in Nat, NEW n \in Nat, x < n PROVE x % n = x
  BY <1>1
<1>2. WORD_MOD \in Nat /\ WORD_MOD >= 4
  BY Sizes
<1>3. ASSUME NEW a \in Nat, a + 1 < WORD_MOD PROVE AluResult(OP_ADD, a, 1) = a + 1
  <2>1. AluResult(OP_ADD, a, 1) = (a + 1) % WORD_MOD
    BY Opcodes DEF AluResult
  <2> QED BY <2>1, <1>1, <1>2, <1>3
<1>4. ASSUME NEW a, NEW b PROVE AluResult(OP_SUB, a, b) = (a - b) % WORD_MOD
  BY Opcodes DEF AluResult
<1>5. ASSUME NEW a \in Word, a >= 1
      PROVE  AluResult(OP_SUB, a, 1) = a - 1 /\ AluFlags(OP_SUB, a, 1) = PlainFlags(a - 1)
  <2>1. (a - 1) % WORD_MOD = a - 1
    BY <1>1, <1>2, <1>5 DEF Word
  <2>2. ~ AluCarry(OP_SUB, a, 1)
    BY Opcodes, <1>2, <1>5 DEF AluCarry, Word
  <2> QED BY <2>1, <2>2, <1>4 DEF AluFlags, PlainFlags, Flags
<1>6. AluResult(OP_MUL, 0, 1) = 0
  <2>1. AluResult(OP_MUL, 0, 1) = (0 * 1) % WORD_MOD
    BY Opcodes DEF AluResult
  <2> QED BY <2>1, <1>1, <1>2
<1>7. AluResult(OP_DIV, 0, 1) = 0
  <2>1. AluResult(OP_DIV, 0, 1) = 0 \div 1
    BY Opcodes DEF AluResult
  <2> QED BY <2>1
<1> QED
  BY <1>3, <1>4, <1>5, <1>6, <1>7

(* One pass in the loop.                                                   *)
LEMMA LoopStep ==
    ASSUME TypeOK, Deterministic, Intact(mem), NEW k \in 0 .. N - 1, NEW p \in 0 .. 8,
           LoopAt(k, p)
    PROVE  /\ running' /\ state'.sp = state.sp /\ state'.halted = state.halted /\ Intact(mem')
           /\ p # 8 => LoopAt(k, p + 1)'
           /\ p = 8 /\ k # N - 1 => LoopAt(k + 1, 0)'
           /\ p = 8 /\ k = N - 1 =>
                 /\ state'.cycle_count = 2 + 9 * N /\ state'.pc = 44
                 /\ RegsAre(state'.regs, 0, 1, N, N, R4After[N], N)
                 /\ state'.flags = PlainFlags(0) /\ mem' = CellMemory(N)
<1>1. /\ N \in Nat /\ k \in Nat /\ k < N /\ N < WORD_MOD /\ WORD_MOD \in Nat
      /\ k + 1 < WORD_MOD /\ k + 1 \in Word /\ N - k \in Word /\ N - k >= 1 /\ N - k \in Nat
      /\ R4After[k] \in Word
      /\ R4After[k + 1] = (R4After[k] - (N - k)) % WORD_MOD
  <2>1. N \in Nat /\ N < WORD_MOD /\ WORD_MOD \in Nat /\ 0 .. N \subseteq Word
    BY WorkloadSizes
  <2>2. k \in Nat /\ k < N /\ k + 1 \in 0 .. N /\ N - k \in 0 .. N /\ k \in 0 .. N
    BY <2>1
  <2> QED BY <2>1, <2>2, R4Facts
<1>2. state.regs \in [Reg -> Word]
  BY DEF TypeOK, VMState
<1>3. Holds(mem, workload)
  BY IntactHolds
<1>4. ASSUME NEW rs, NEW q, NEW f, NEW m, Effect(rs, q, f, m)
      PROVE  /\ state'.regs = rs /\ state'.pc = q /\ state'.flags = f /\ mem' = m
             /\ state'.sp = state.sp /\ state'.halted = state.halted
             /\ state'.cycle_count = state.cycle_count + 1 /\ running'
  BY <1>4 DEF Effect
<1> HIDE DEF N
<1>5. CASE p = 0
  <2>1. /\ state.cycle_count = 2 + 9 * k + 0 /\ state.pc = 8
        /\ RegsAre(state.regs, N - k, 1, k, k, R4After[k], k)
        /\ k >= 1 => mem = CellMemory(k)
    BY <1>5, <1>1 DEF LoopAt
  <2>2. state.regs[0] = N - k /\ state.regs[1] = 1 /\ state.regs[2] = k /\ state.regs[3] = k
        /\ state.regs[4] = R4After[k] /\ state.regs[5] = 0 /\ state.regs[6] = 0 /\ state.regs[7] = k
    BY <2>1, <1>2, RegsWrite DEF RegsAre
  <2>3. AluResult(OP_ADD, state.regs[2], state.regs[1]) = k + 1
    BY <2>2, <1>1, WorkloadAlu
  <2>4. Effect([state.regs EXCEPT ![2] = k + 1], 12,
               AluFlags(OP_ADD, state.regs[2], state.regs[1]), mem)
    BY <2>1, <2>2, <2>3, <1>3, WorkloadEffect
  <2>5. RegsAre(state'.regs, N - k, 1, k + 1, k, R4After[k], k)
    <3>1. RegsAre([state.regs EXCEPT ![2] = k + 1], N - k, 1, k + 1, k, R4After[k], k)
      BY <2>1, <1>2, RegsWrite
    <3> QED BY <2>4, <3>1, <1>4
  <2>6. LoopAt(k, 1)'
    BY <2>1, <2>4, <2>5, <1>1, <1>4 DEF LoopAt
  <2> QED BY <2>4, <2>6, <1>4, <1>5
<1>6. CASE p = 1
  <2>1. /\ state.cycle_count = 2 + 9 * k + 1 /\ state.pc = 12
        /\ RegsAre(state.regs, N - k, 1, k + 1, k, R4After[k], k)
        /\ k >= 1 => mem = CellMemory(k)
    BY <1>6, <1>1 DEF LoopAt
  <2>2. state.regs[0] = N - k /\ state.regs[1] = 1 /\ state.regs[2] = k + 1 /\ state.regs[3] = k
        /\ state.regs[4] = R4After[k] /\ state.regs[5] = 0 /\ state.regs[6] = 0 /\ state.regs[7] = k
    BY <2>1, <1>2, RegsWrite DEF RegsAre
  <2>3. AluResult(OP_ADD, state.regs[3], state.regs[1]) = k + 1
    BY <2>2, <1>1, WorkloadAlu
  <2>4. Effect([state.regs EXCEPT ![3] = k + 1], 16,
               AluFlags(OP_ADD, state.regs[3], state.regs[1]), mem)
    BY <2>1, <2>2, <2>3, <1>3, WorkloadEffect
  <2>5. RegsAre(state'.regs, N - k, 1, k + 1, k + 1, R4After[k], k)
    <3>1. RegsAre([state.regs EXCEPT ![3] = k + 1], N - k, 1, k + 1, k + 1, R4After[k], k)
      BY <2>1, <1>2, RegsWrite
    <3> QED BY <2>4, <3>1, <1>4
  <2>6. LoopAt(k, 2)'
    BY <2>1, <2>4, <2>5, <1>1, <1>4 DEF LoopAt
  <2> QED BY <2>4, <2>6, <1>4, <1>6
<1>7. CASE p = 2
  <2>1. /\ state.cycle_count = 2 + 9 * k + 2 /\ state.pc = 16
        /\ RegsAre(state.regs, N - k, 1, k + 1, k + 1, R4After[k], k)
        /\ k >= 1 => mem = CellMemory(k)
    BY <1>7, <1>1 DEF LoopAt
  <2>2. state.regs[0] = N - k /\ state.regs[1] = 1 /\ state.regs[2] = k + 1 /\ state.regs[3] = k + 1
        /\ state.regs[4] = R4After[k] /\ state.regs[5] = 0 /\ state.regs[6] = 0 /\ state.regs[7] = k
    BY <2>1, <1>2, RegsWrite DEF RegsAre
  <2>3. AluResult(OP_SUB, state.regs[4], state.regs[0]) = R4After[k + 1]
    BY <2>2, <1>1, WorkloadAlu
  <2>4. Effect([state.regs EXCEPT ![4] = R4After[k + 1]], 20,
               AluFlags(OP_SUB, state.regs[4], state.regs[0]), mem)
    BY <2>1, <2>2, <2>3, <1>3, WorkloadEffect
  <2>5. RegsAre(state'.regs, N - k, 1, k + 1, k + 1, R4After[k + 1], k)
    <3>1. RegsAre([state.regs EXCEPT ![4] = R4After[k + 1]], N - k, 1, k + 1, k + 1, R4After[k + 1], k)
      BY <2>1, <1>2, RegsWrite
    <3> QED BY <2>4, <3>1, <1>4
  <2>6. LoopAt(k, 3)'
    BY <2>1, <2>4, <2>5, <1>1, <1>4 DEF LoopAt
  <2> QED BY <2>4, <2>6, <1>4, <1>7
<1>8. CASE p = 3
  <2>1. /\ state.cycle_count = 2 + 9 * k + 3 /\ state.pc = 20
        /\ RegsAre(state.regs, N - k, 1, k + 1, k + 1, R4After[k + 1], k)
        /\ k >= 1 => mem = CellMemory(k)
    BY <1>8, <1>1 DEF LoopAt
  <2>2. state.regs[0] = N - k /\ state.regs[1] = 1 /\ state.regs[2] = k + 1 /\ state.regs[3] = k + 1
        /\ state.regs[4] = R4After[k + 1] /\ state.regs[5] = 0 /\ state.regs[6] = 0 /\ state.regs[7] = k
    BY <2>1, <1>2, RegsWrite DEF RegsAre
  <2>3. AluResult(OP_MUL, state.regs[5], state.regs[1]) = 0
    BY <2>2, <1>1, WorkloadAlu
  <2>4. Effect([state.regs EXCEPT ![5] = 0], 24,
               AluFlags(OP_MUL, state.regs[5], state.regs[1]), mem)
    BY <2>1, <2>2, <2>3, <1>3, WorkloadEffect
  <2>5. RegsAre(state'.regs, N - k, 1, k + 1, k + 1, R4After[k + 1], k)
    <3>1. RegsAre([state.regs EXCEPT ![5] = 0], N - k, 1, k + 1, k + 1, R4After[k + 1], k)
      BY <2>1, <1>2, RegsWrite
    <3> QED BY <2>4, <3>1, <1>4
  <2>6. LoopAt(k, 4)'
    BY <2>1, <2>4, <2>5, <1>1, <1>4 DEF LoopAt
  <2> QED BY <2>4, <2>6, <1>4, <1>8
<1>9. CASE p = 4
  <2>1. /\ state.cycle_count = 2 + 9 * k + 4 /\ state.pc = 24
        /\ RegsAre(state.regs, N - k, 1, k + 1, k + 1, R4After[k + 1], k)
        /\ k >= 1 => mem = CellMemory(k)
    BY <1>9, <1>1 DEF LoopAt
  <2>2. state.regs[0] = N - k /\ state.regs[1] = 1 /\ state.regs[2] = k + 1 /\ state.regs[3] = k + 1
        /\ state.regs[4] = R4After[k + 1] /\ state.regs[5] = 0 /\ state.regs[6] = 0 /\ state.regs[7] = k
    BY <2>1, <1>2, RegsWrite DEF RegsAre
  <2>3. AluResult(OP_DIV, state.regs[6], state.regs[1]) = 0
    BY <2>2, <1>1, WorkloadAlu
  <2>4. Effect([state.regs EXCEPT ![6] = 0], 28,
               AluFlags(OP_DIV, state.regs[6], state.regs[1]), mem)
    BY <2>1, <2>2, <2>3, <1>3, WorkloadEffect
  <2>5. RegsAre(state'.regs, N - k, 1, k + 1, k + 1, R4After[k + 1], k)
    <3>1. RegsAre([state.regs EXCEPT ![6] = 0], N - k, 1, k + 1, k + 1, R4After[k + 1], k)
      BY <2>1, <1>2, RegsWrite
    <3> QED BY <2>4, <3>1, <1>4
  <2>6. LoopAt(k, 5)'
    BY <2>1, <2>4, <2>5, <1>1, <1>4 DEF LoopAt
  <2> QED BY <2>4, <2>6, <1>4, <1>9
<1>10. CASE p = 5
  <2>1. /\ state.cycle_count = 2 + 9 * k + 5 /\ state.pc = 28
        /\ RegsAre(state.regs, N - k, 1, k + 1, k + 1, R4After[k + 1], k)
        /\ k >= 1 => mem = CellMemory(k)
    BY <1>10, <1>1 DEF LoopAt
  <2>2. state.regs[0] = N - k /\ state.regs[1] = 1 /\ state.regs[2] = k + 1 /\ state.regs[3] = k + 1
        /\ state.regs[4] = R4After[k + 1] /\ state.regs[5] = 0 /\ state.regs[6] = 0 /\ state.regs[7] = k
    BY <2>1, <1>2, RegsWrite DEF RegsAre
  <2>4. Effect(state.regs, 32, state.flags, CellMemory(k + 1)) /\ Intact(CellMemory(k + 1))
    <3>1. mem_store_u32(mem, kCell, k + 1) = CellMemory(k + 1) /\ Intact(CellMemory(k + 1))
      BY <1>1, CellStore
    <3> QED BY <2>1, <2>2, <3>1, <1>3, WorkloadEffect
  <2>5. RegsAre(state'.regs, N - k, 1, k + 1, k + 1, R4After[k + 1], k)
    BY <2>1, <2>4, <1>4
  <2>6. LoopAt(k, 6)'
    BY <2>1, <2>4, <2>5, <1>1, <1>4 DEF LoopAt
  <2> QED BY <2>4, <2>6, <1>4, <1>10
<1>11. CASE p = 6
  <2>1. /\ state.cycle_count = 2 + 9 * k + 6 /\ state.pc = 32
        /\ RegsAre(state.regs, N - k, 1, k + 1, k + 1, R4After[k + 1], k)
        /\ mem = CellMemory(k + 1)
    BY <1>11, <1>1 DEF LoopAt
  <2>2. state.regs[0] = N - k /\ state.regs[1] = 1 /\ state.regs[2] = k + 1 /\ state.regs[3] = k + 1
        /\ state.regs[4] = R4After[k + 1] /\ state.regs[5] = 0 /\ state.regs[6] = 0 /\ state.regs[7] = k
    BY <2>1, <1>2, RegsWrite DEF RegsAre
  <2>4. Effect([state.regs EXCEPT ![7] = k + 1], 36, state.flags, mem)
    <3>1. mem_load_u32(mem, kCell) = k + 1
      BY <2>1, <1>1, CellStore
    <3> QED BY <2>1, <3>1, <1>3, WorkloadEffect
  <2>5. RegsAre(state'.regs, N - k, 1, k + 1, k + 1, R4After[k + 1], k + 1)
    <3>1. RegsAre([state.regs EXCEPT ![7] = k + 1], N - k, 1, k + 1, k + 1, R4After[k + 1], k + 1)
      BY <2>1, <1>2, RegsWrite
    <3> QED BY <2>4, <3>1, <1>4
  <2>6. LoopAt(k, 7)'
    BY <2>1, <2>4, <2>5, <1>1, <1>4 DEF LoopAt
  <2> QED BY <2>4, <2>6, <1>4, <1>11
<1>12. CASE p = 7
  <2>1. /\ state.cycle_count = 2 + 9 * k + 7 /\ state.pc = 36
        /\ RegsAre(state.regs, N - k, 1, k + 1, k + 1, R4After[k + 1], k + 1)
        /\ mem = CellMemory(k + 1)
    BY <1>12, <1>1 DEF LoopAt
  <2>2. state.regs[0] = N - k /\ state.regs[1] = 1 /\ state.regs[2] = k + 1 /\ state.regs[3] = k + 1
        /\ state.regs[4] = R4After[k + 1] /\ state.regs[5] = 0 /\ state.regs[6] = 0 /\ state.regs[7] = k + 1
    BY <2>1, <1>2, RegsWrite DEF RegsAre
  <2>3. AluResult(OP_SUB, state.regs[0], state.regs[1]) = N - k - 1
        /\ AluFlags(OP_SUB, state.regs[0], state.regs[1]) = PlainFlags(N - k - 1)
    BY <2>2, <1>1, WorkloadAlu
  <2>4. Effect([state.regs EXCEPT ![0] = N - k - 1], 40,
               PlainFlags(N - k - 1), mem)
    BY <2>1, <2>2, <2>3, <1>3, WorkloadEffect
  <2>5. RegsAre(state'.regs, N - k - 1, 1, k + 1, k + 1, R4After[k + 1], k + 1)
    <3>1. RegsAre([state.regs EXCEPT ![0] = N - k - 1], N - k - 1, 1, k + 1, k + 1, R4After[k + 1], k + 1)
      BY <2>1, <1>2, RegsWrite
    <3> QED BY <2>4, <3>1, <1>4
  <2>6. LoopAt(k, 8)'
    BY <2>1, <2>4, <2>5, <1>1, <1>4 DEF LoopAt
  <2> QED BY <2>4, <2>6, <1>4, <1>12
<1>13. CASE p = 8
  <2>1. /\ state.cycle_count = 2 + 9 * k + 8 /\ state.pc = 40
        /\ RegsAre(state.regs, N - k - 1, 1, k + 1, k + 1, R4After[k + 1], k + 1)
        /\ state.flags = PlainFlags(N - k - 1)
        /\ mem = CellMemory(k + 1)
    BY <1>13, <1>1 DEF LoopAt
  <2>2. state.regs[0] = N - k - 1 /\ state.regs[1] = 1 /\ state.regs[2] = k + 1 /\ state.regs[3] = k + 1
        /\ state.regs[4] = R4After[k + 1] /\ state.regs[5] = 0 /\ state.regs[6] = 0 /\ state.regs[7] = k + 1
    BY <2>1, <1>2, RegsWrite DEF RegsAre
  <2>4. Effect(state.regs, IF N - k - 1 # 0 THEN 8 ELSE 44, state.flags, mem)
    BY <2>1, <2>2, <1>3, WorkloadEffect
  <2>5. CASE k # N - 1
    <3>1. N - k - 1 # 0 /\ N - k - 1 = N - (k + 1) /\ 2 + 9 * k + 8 + 1 = 2 + 9 * (k + 1) + 0
          /\ k + 1 >= 1
      BY <2>5, <1>1
    <3>2. LoopAt(k + 1, 0)'
      BY <2>1, <2>4, <3>1, <1>4 DEF LoopAt
    <3> QED BY <2>4, <2>5, <3>2, <1>4, <1>13
  <2>6. CASE k = N - 1
    <3>1. N - k - 1 = 0 /\ k + 1 = N /\ 2 + 9 * k + 8 + 1 = 2 + 9 * N
      BY <2>6, <1>1
    <3> QED BY <2>1, <2>4, <2>6, <3>1, <1>4, <1>13
  <2> QED BY <2>5, <2>6
<1> QED
  BY <1>5, <1>6, <1>7, <1>8, <1>9, <1>10, <1>11, <1>12, <1>13

(* The first two instructions.                                             *)
LEMMA StartStep ==
    ASSUME TypeOK, Deterministic, Intact(mem), AtStart \/ AtSecond
    PROVE  /\ running' /\ state'.sp = state.sp /\ state'.halted = state.halted /\ mem' = mem
           /\ AtStart => AtSecond'
           /\ AtSecond => LoopAt(0, 0)'
<1>1. state.regs \in [Reg -> Word] /\ Holds(mem, workload) /\ N \in Nat /\ N >= 1
  BY IntactHolds, WorkloadSizes DEF TypeOK, VMState
<1>2. R4After[0] = 0
  BY R4Facts
<1>3. ASSUME AtStart
      PROVE  Effect([state.regs EXCEPT ![0] = N], 4, state.flags, mem) /\ AtSecond'
  <2>1. Effect([state.regs EXCEPT ![0] = N], 4, state.flags, mem)
    BY <1>1, <1>3, WorkloadEffect DEF AtStart, N
  <2>2. RegsAre([state.regs EXCEPT ![0] = N], N, 0, 0, 0, 0, 0)
    <3> HIDE DEF N
    <3> QED BY <1>1, <1>3, RegsWrite DEF AtStart
  <2> HIDE DEF N
  <2> QED BY <2>1, <2>2, <1>3 DEF Effect, AtStart, AtSecond
<1> HIDE DEF N
<1>4. ASSUME AtSecond
      PROVE  Effect([state.regs EXCEPT ![1] = 1], 8, state.flags, mem) /\ LoopAt(0, 0)'
  <2>1. Effect([state.regs EXCEPT ![1] = 1], 8, state.flags, mem)
    BY <1>1, <1>4, WorkloadEffect DEF AtSecond
  <2>2. RegsAre([state.regs EXCEPT ![1] = 1], N, 1, 0, 0, 0, 0)
    BY <1>1, <1>4, RegsWrite DEF AtSecond
  <2>3. /\ state'.regs = [state.regs EXCEPT ![1] = 1] /\ state'.pc = 8
        /\ state'.cycle_count = 2
    BY <2>1, <1>4 DEF Effect, AtSecond
  <2>4. N - 0 = N
    BY <1>1
  <2> QED BY <2>1, <2>2, <2>3, <2>4, <1>1, <1>2 DEF LoopAt
<1> QED
  BY <1>3, <1>4 DEF Effect

(* The HALT.                                                               *)
LEMMA HaltStep ==
    ASSUME TypeOK, Deterministic, Intact(mem), AtHalt
    PROVE  ~ running' /\ HasEnded(state', mem') /\ mem' = mem
<1>1. Holds(mem, workload) /\ N \in Nat /\ expected = 9 * N + 3
  BY IntactHolds, WorkloadSizes
<1>2. Halts(48)
  BY <1>1, WorkloadEffect DEF AtHalt
<1> HIDE DEF N
<1>3. state'.cycle_count = expected
  BY <1>1, <1>2 DEF Halts, AtHalt
<1> QED
  BY <1>2, <1>3 DEF Halts, AtHalt, Finals, HasEnded

(* One pass of a run of the workload: it goes on, or it ends as expected.  *)
LEMMA RunStep ==
    ASSUME TypeOK, Deterministic, InRun
    PROVE  /\ IF running' THEN InRun' ELSE HasEnded(state', mem')
           /\ Intact(mem')
<1>1. state.halted = HALT_RUNNING /\ state.sp = MEM_SIZE - 4 /\ Intact(mem)
  BY DEF InRun
<1>2. N \in Nat /\ N >= 1
  BY WorkloadSizes
<1>3. CASE AtStart \/ AtSecond
  <2>1. /\ running' /\ state'.sp = state.sp /\ state'.halted = state.halted /\ mem' = mem
        /\ AtStart => AtSecond'
        /\ AtSecond => LoopAt(0, 0)'
    BY <1>1, <1>3, StartStep
  <2>2. Intact(mem')
    BY <2>1, <1>1
  <2>3. 0 \in 0 .. N - 1 /\ 0 \in 0 .. 8
    BY <1>2
  <2> QED BY <2>1, <2>2, <2>3, <1>1, <1>3 DEF InRun
<1>4. CASE AtHalt
  BY <1>1, <1>4, HaltStep
<1>5. ASSUME NEW k \in 0 .. N - 1, NEW p \in 0 .. 8, LoopAt(k, p)
      PROVE  running' /\ InRun' /\ Intact(mem')
  <2>1. /\ running' /\ state'.sp = state.sp /\ state'.halted = state.halted /\ Intact(mem')
        /\ p # 8 => LoopAt(k, p + 1)'
        /\ p = 8 /\ k # N - 1 => LoopAt(k + 1, 0)'
        /\ p = 8 /\ k = N - 1 =>
              /\ state'.cycle_count = 2 + 9 * N /\ state'.pc = 44
              /\ RegsAre(state'.regs, 0, 1, N, N, R4After[N], N)
              /\ state'.flags = PlainFlags(0) /\ mem' = CellMemory(N)
    BY <1>1, <1>5, LoopStep
  <2> HIDE DEF N
  <2>2. CASE p # 8
    <3>1. p + 1 \in 0 .. 8
      BY <2>2
    <3> QED BY <2>1, <2>2, <3>1, <1>1 DEF InRun
  <2>3. CASE p = 8 /\ k # N - 1
    <3>1. k + 1 \in 0 .. N - 1 /\ 0 \in 0 .. 8
      BY <2>3, <1>2
    <3> QED BY <2>1, <2>3, <3>1, <1>1 DEF InRun
  <2>4. CASE p = 8 /\ k = N - 1
    BY <2>1, <2>4, <1>1 DEF InRun, AtHalt, Finals
  <2> QED BY <2>2, <2>3, <2>4
<1> QED
  BY <1>3, <1>4, <1>5 DEF InRun

(* One pass of the demo.                                                   *)
LEMMA DemoStep ==
    ASSUME TypeOK, Deterministic, NEW c \in 0 .. 6, DemoAt(c)
    PROVE  IF running' THEN c # 6 /\ DemoAt(c + 1)' ELSE DemoPasses'
<1>1. /\ state.cycle_count = c /\ state.pc = 4 * c /\ state.halted = HALT_RUNNING
      /\ Holds(mem, demo) /\ mem \in Memory
      /\ c >= 1 => state.regs[0] = 5
      /\ c >= 2 => state.regs[1] = 7
      /\ c >= 3 => state.regs[2] = IF c = 3 THEN 5 ELSE 12
      /\ c >= 5 => mem_load_u32(mem, kCell) = 12
      /\ c >= 6 => state.regs[3] = 12
  BY DEF DemoAt
<1>2. /\ state.regs \in [Reg -> Word] /\ 0 \in Reg /\ 1 \in Reg /\ 2 \in Reg /\ 3 \in Reg
      /\ 12 \in Word
  BY WorkloadSizes DEF TypeOK, VMState
<1>3. AluResult(OP_ADD, 5, 7) = 12
  <2>1. AluResult(OP_ADD, 5, 7) = (5 + 7) % WORD_MOD
    BY Opcodes DEF AluResult
  <2>2. WORD_MOD \in Nat /\ 12 < WORD_MOD
    BY WorkloadSizes
  <2> QED BY <2>1, <2>2
<1>4. ASSUME NEW rs, NEW q, NEW f, NEW m, Effect(rs, q, f, m)
      PROVE  /\ state'.regs = rs /\ state'.pc = q /\ mem' = m
             /\ state'.halted = state.halted
             /\ state'.cycle_count = state.cycle_count + 1 /\ running'
  BY <1>4 DEF Effect
<1>5. CASE c = 0
  <2>1. Effect([state.regs EXCEPT ![0] = 5], 4, state.flags, mem)
    BY <1>1, <1>5, DemoEffect
  <2>2. DemoAt(1)'
    BY <2>1, <1>1, <1>2, <1>4, <1>5 DEF DemoAt
  <2> QED BY <2>1, <2>2, <1>4, <1>5
<1>6. CASE c = 1
  <2>1. Effect([state.regs EXCEPT ![1] = 7], 8, state.flags, mem)
    BY <1>1, <1>6, DemoEffect
  <2>2. DemoAt(2)'
    BY <2>1, <1>1, <1>2, <1>4, <1>6 DEF DemoAt
  <2> QED BY <2>1, <2>2, <1>4, <1>6
<1>7. CASE c = 2
  <2>1. Effect([state.regs EXCEPT ![2] = 5], 12, state.flags, mem)
    BY <1>1, <1>7, DemoEffect
  <2>2. DemoAt(3)'
    BY <2>1, <1>1, <1>2, <1>4, <1>7 DEF DemoAt
  <2> QED BY <2>1, <2>2, <1>4, <1>7
<1>8. CASE c = 3
  <2>1. state.regs[2] = 5 /\ state.regs[1] = 7
    BY <1>1, <1>8
  <2>2. Effect([state.regs EXCEPT ![2] = 12], 16, AluFlags(OP_ADD, 5, 7), mem)
    BY <2>1, <1>1, <1>3, <1>8, DemoEffect
  <2>3. DemoAt(4)'
    BY <2>2, <1>1, <1>2, <1>4, <1>8 DEF DemoAt
  <2> QED BY <2>2, <2>3, <1>4, <1>8
<1>9. CASE c = 4
  <2> DEFINE m2 == mem_store_u32(mem, kCell, 12)
  <2>1. Effect(state.regs, 20, state.flags, m2)
    BY <1>1, <1>9, DemoEffect
  <2>2. m2 \in Memory /\ mem_load_u32(m2, kCell) = 12
    BY <1>1, <1>2, CellHolds
  <2>3. Holds(m2, demo)
    <3>1. ASSUME NEW x \in Addr, x < 4 * Len(demo) PROVE m2[x] = mem[x]
      <4>1. x \notin Cells(kCell) /\ kCell \in Nat
        <5>1. x \in Nat /\ kCell \in Nat /\ 48 <= kCell /\ x < 28
          BY <3>1, ProgramTypes, WorkloadSizes DEF Addr
        <5> QED BY <5>1, CellRange
      <4> QED BY <4>1, <1>1, StoreCells
    <3> HIDE DEF m2
    <3> QED BY <3>1, <1>1 DEF Holds
  <2> HIDE DEF m2
  <2>4. DemoAt(5)'
    BY <2>1, <2>2, <2>3, <1>1, <1>2, <1>4, <1>9 DEF DemoAt
  <2> QED BY <2>1, <2>4, <1>4, <1>9
<1>10. CASE c = 5
  <2>1. Effect([state.regs EXCEPT ![3] = 12], 24, state.flags, mem)
    BY <1>1, <1>10, DemoEffect
  <2>2. DemoAt(6)'
    BY <2>1, <1>1, <1>2, <1>4, <1>10 DEF DemoAt
  <2> QED BY <2>1, <2>2, <1>4, <1>10
<1>11. CASE c = 6
  <2>1. Halts(28)
    BY <1>1, <1>11, DemoEffect
  <2> QED BY <2>1, <1>1, <1>11 DEF Halts, DemoPasses
<1> QED
  BY <1>5, <1>6, <1>7, <1>8, <1>9, <1>10, <1>11

-----------------------------------------------------------------------------
(* The runs keep their invariant.                                          *)

(* A reset CPU is at the start.                                            *)
LEMMA PowerOnStart ==
    /\ PowerOn.cycle_count = 0 /\ PowerOn.pc = 0 /\ PowerOn.sp = MEM_SIZE - 4
    /\ PowerOn.halted = HALT_RUNNING /\ PowerOn.snap_timer = 0 /\ PowerOn.snap_interval = 0
    /\ RegsAre(PowerOn.regs, 0, 0, 0, 0, 0, 0)
<1>1. /\ 0 \in Reg /\ 1 \in Reg /\ 2 \in Reg /\ 3 \in Reg /\ 4 \in Reg /\ 7 \in Reg
  BY WorkloadSizes
<1> QED
  BY <1>1 DEF PowerOn, RegsAre

(* A run that has ended as expected passes the sanity check.               *)
LEMMA EndedSane ==
    ASSUME RunInv, stage = "sanity", ~ running
    PROVE  Sane
BY DEF RunInv, DemoOK, WorkloadOK, FullRun, IsDemo, Sane, HasEnded

(* How the first run ended, whichever step is taken.                       *)
LEMMA FirstKept ==
    ASSUME BInv, RunInv, config' = config,
           first' = IF stage = "sanity" /\ ~ running /\ first = << >>
                    THEN << state, mem >> ELSE first
    PROVE  FirstOK'
<1> SUFFICES ASSUME ~ IsBack, ~ IsDemo, first' # << >>
             PROVE  \E st \in VMState : \E m :
                       /\ first' = << st, m >> /\ HasEnded(st, m)
                       /\ st.snap_interval = 0 /\ st.snap_timer = 0
  BY DEF FirstOK, IsBack, IsDemo
<1>1. CASE stage = "sanity" /\ ~ running /\ first = << >>
  <2>1. HasEnded(state, mem) /\ state \in VMState /\ state.snap_timer = 0
    BY <1>1 DEF RunInv, QuietOK, WorkloadOK, FullRun, BInv, BTypeOK, TypeOK
  <2>2. state.snap_interval = 0
    BY ConfigFacts DEF BInv, BTypeOK, TimerOK
  <2> QED BY <1>1, <2>1, <2>2
<1>2. CASE ~ (stage = "sanity" /\ ~ running /\ first = << >>)
  BY <1>2 DEF RunInv, FirstOK
<1> QED
  BY <1>1, <1>2

(* A pass where no target is set.                                          *)
LEMMA PlainOnly ==
    ASSUME BInv, BenchPass, target_cycle = NoTarget
    PROVE  Deterministic /\ target_cycle' = NoTarget
<1>1. ~ TargetHit
  BY DEF TargetHit
<1> QED
  BY <1>1 DEF BenchPass, StopPass, PlainPass, Sink, ringVars

(* The passes.                                                             *)
LEMMA PassRunInv ==
    ASSUME BInv, RunInv, BenchPass, first' = first
    PROVE  QuietOK' /\ DemoOK' /\ WorkloadOK'
<1>1. /\ config' = config /\ stage' = stage /\ exit_code' = exit_code /\ (IsBack <=> IsBack')
      /\ (IsDemo <=> IsDemo') /\ (FullRun <=> FullRun')
  BY PassConfig DEF IsDemo, FullRun
<1>2. TypeOK /\ AnyPass /\ running /\ stage \in {"sanity", "round"} /\ config \in Configs
  BY BenchPassFacts DEF BInv, BTypeOK, StageOK
<1>3. QuietOK /\ DemoOK /\ WorkloadOK
  BY DEF RunInv
<1>4. (~ IsBack \/ stage = "sanity") => Deterministic /\ target_cycle' = NoTarget
  BY <1>3, PlainOnly DEF QuietOK
<1>5. ~ IsBack => state'.snap_timer = 0
  <2> SUFFICES ASSUME ~ IsBack PROVE state'.snap_timer = 0
    OBVIOUS
  <2>1. state.snap_interval = 0 /\ state.snap_timer = 0
    BY <1>2, <1>3, ConfigFacts DEF BInv, TimerOK, QuietOK
  <2>2. ~ SnapFires /\ Fetched.snap_timer = 0
    BY <2>1, <1>2 DEF SnapFires, Fetched, TypeOK, VMState
  <2>3. Ticked.snap_timer = 0
    <3>1. Fetched \in VMState
      BY <1>2, PassTypes
    <3> QED BY <2>2, <3>1 DEF Ticked, VMState
  <2> QED BY <2>3, <1>2, PassCounters
<1>6. QuietOK'
  BY <1>1, <1>2, <1>3, <1>4, <1>5 DEF QuietOK
<1>7. DemoOK'
  <2> SUFFICES ASSUME IsDemo PROVE DemoOK'
    BY <1>1 DEF DemoOK
  <2>1. stage = "sanity" /\ first = << >> /\ \E c \in 0 .. 6 : DemoAt(c)
    BY <1>2, <1>3 DEF DemoOK
  <2>2. PICK c \in 0 .. 6 : DemoAt(c)
    BY <2>1
  <2>3. IF running' THEN c # 6 /\ DemoAt(c + 1)' ELSE DemoPasses'
    BY <2>1, <2>2, <1>2, <1>4, DemoStep
  <2>4. c # 6 => c + 1 \in 0 .. 6
    OBVIOUS
  <2>5. running' => \E j \in 0 .. 6 : DemoAt(j)'
    BY <2>3, <2>4
  <2> QED BY <2>1, <2>3, <2>5, <1>1 DEF DemoOK
<1>8. WorkloadOK'
  <2> SUFFICES ASSUME FullRun PROVE WorkloadOK'
    BY <1>1, <1>2 DEF WorkloadOK
  <2>1. Deterministic /\ InRun
    BY <1>2, <1>3, <1>4 DEF FullRun, WorkloadOK
  <2>2. (IF running' THEN InRun' ELSE HasEnded(state', mem')) /\ Intact(mem')
    BY <2>1, <1>2, RunStep
  <2> QED BY <2>2, <1>1, <1>2 DEF WorkloadOK
<1> QED
  BY <1>6, <1>7, <1>8

(* The steps between the passes.                                           *)
LEMMA StepRunInv ==
    ASSUME BInv, RunInv, BStep, ~ BenchPass,
           first' = IF stage = "sanity" /\ ~ running /\ first = << >>
                    THEN << state, mem >> ELSE first
    PROVE  QuietOK' /\ DemoOK' /\ WorkloadOK'
<1>0. QuietOK /\ DemoOK /\ WorkloadOK /\ StageOK
  BY DEF RunInv, BInv
<1>1. CASE StartSanity
  <2>1. /\ stage = "loaded" /\ stage' = "sanity" /\ running'
        /\ UNCHANGED << state, mem, config, exit_code, target_cycle >> /\ first' = first
        /\ (IsBack <=> IsBack') /\ (IsDemo <=> IsDemo')
    BY <1>1 DEF StartSanity, Go, Run, Rounds, Frame, IsBack, IsDemo, ringVars
  <2>2. QuietOK'
    BY <2>1, <1>0 DEF QuietOK
  <2>3. IsDemo => DemoAt(0)'
    BY <2>1, <1>0 DEF DemoOK, DemoAt
  <2>4. ~ IsDemo => InRun' /\ Intact(mem')
    BY <2>1, <1>0 DEF WorkloadOK, InRun, AtStart
  <2>5. DemoOK'
    <3>1. 0 \in 0 .. 6
      OBVIOUS
    <3> QED BY <2>1, <2>3, <3>1, <1>0 DEF DemoOK
  <2> QED BY <2>1, <2>2, <2>4, <2>5 DEF WorkloadOK
<1>2. CASE EndSanity
  <2>1. /\ stage = "sanity" /\ stage' = (IF IsDemo THEN "done" ELSE "rest") /\ ~ running
        /\ exit_code' = (IF Sane THEN exit_code ELSE FailureCode)
        /\ UNCHANGED << state, mem, running, config, target_cycle >>
        /\ (IsBack <=> IsBack') /\ (IsDemo <=> IsDemo')
    BY <1>2 DEF EndSanity, Go, IsBack, IsDemo, vmVars, ringVars
  <2>2. Sane
    BY <2>1, EndedSane
  <2>3. QuietOK'
    BY <2>1, <2>2, <1>0 DEF QuietOK
  <2>4. ~ IsDemo => Intact(mem)
    BY <2>1, <1>0 DEF WorkloadOK, FullRun
  <2> QED BY <2>1, <2>3, <2>4 DEF DemoOK, WorkloadOK, FullRun
<1>3. CASE ResetCpu
  <2>1. /\ stage = "rest" /\ stage' = "reset" /\ ~ IsBack /\ state' = PowerOn
        /\ UNCHANGED << mem, running, config, exit_code, target_cycle >> /\ first' = first
        /\ (IsBack <=> IsBack') /\ (IsDemo <=> IsDemo')
    BY <1>3 DEF ResetCpu, Go, reset_cpu_for_reuse, Rounds, Frame, IsBack, IsDemo, ringVars
  <2>2. QuietOK'
    BY <2>1, <1>0, PowerOnStart DEF QuietOK
  <2>3. ~ IsDemo /\ Intact(mem')
    BY <2>1, <1>0 DEF DemoOK, WorkloadOK
  <2>4. AtStart' /\ InRun'
    BY <2>1, <2>3, PowerOnStart DEF AtStart, InRun
  <2> QED BY <2>1, <2>2, <2>3, <2>4 DEF DemoOK, WorkloadOK, FullRun
<1>4. CASE RunAgain
  <2>1. /\ stage = "reset" /\ stage' = "round" /\ running'
        /\ UNCHANGED << state, mem, config, exit_code, target_cycle >> /\ first' = first
        /\ (IsBack <=> IsBack') /\ (IsDemo <=> IsDemo')
    BY <1>4 DEF RunAgain, Go, Run, Rounds, Frame, IsBack, IsDemo, ringVars
  <2>2. QuietOK'
    BY <2>1, <1>0 DEF QuietOK
  <2>3. ~ IsDemo
    BY <2>1, <1>0 DEF DemoOK
  <2>4. InRun' /\ Intact(mem')
    BY <2>1, <2>3, <1>0 DEF WorkloadOK, InRun, AtStart
  <2> QED BY <2>1, <2>2, <2>3, <2>4 DEF DemoOK, WorkloadOK
<1>5. CASE do_step
  <2>1. /\ stage = "rewound" /\ stage' = "round" /\ config' = config /\ exit_code' = exit_code
        /\ (IsBack <=> IsBack') /\ (IsDemo <=> IsDemo')
    BY <1>5 DEF do_step, Go, Rounds, IsBack, IsDemo
  <2>2. IsBack /\ ~ IsDemo
    BY <2>1, <1>0 DEF QuietOK, IsBack, IsDemo
  <2> QED BY <2>1, <2>2, <1>0 DEF QuietOK, DemoOK, WorkloadOK, FullRun
<1>6. CASE EndRound
  <2>1. /\ stage = "round" /\ stage' = "rest" /\ ~ running
        /\ UNCHANGED << state, mem, running, config, exit_code, target_cycle >>
        /\ (IsBack <=> IsBack') /\ (IsDemo <=> IsDemo')
    BY <1>6 DEF EndRound, Go, Rounds, IsBack, IsDemo, vmVars, ringVars
  <2>2. ~ IsDemo
    BY <2>1, <1>0 DEF DemoOK
  <2>3. ~ IsBack => Intact(mem)
    BY <2>1, <2>2, <1>0 DEF WorkloadOK, FullRun
  <2> QED BY <2>1, <2>2, <2>3, <1>0 DEF QuietOK, DemoOK, WorkloadOK, FullRun
<1>7. CASE NextMode
  <2>1. /\ stage = "rest" /\ stage' = "loaded" /\ state' = PowerOn /\ mem' = Image(workload)
        /\ UNCHANGED << running, config, exit_code, target_cycle >>
        /\ (IsBack <=> IsBack') /\ (IsDemo <=> IsDemo') /\ ~ IsBack /\ ~ IsDemo
    BY <1>7 DEF NextMode, Go, Rounds, IsBack, IsDemo, ringVars
  <2>2. QuietOK'
    BY <2>1, <1>0, PowerOnStart DEF QuietOK
  <2>3. Intact(mem')
    BY <2>1, IntactHolds
  <2>4. AtStart' /\ InRun'
    BY <2>1, <2>3, PowerOnStart DEF AtStart, InRun
  <2> QED BY <2>1, <2>2, <2>3, <2>4 DEF DemoOK, WorkloadOK, FullRun
<1>8. CASE Finish
  <2>1. /\ stage = "rest" /\ stage' = "done"
        /\ UNCHANGED << state, mem, running, config, exit_code, target_cycle >>
        /\ (IsBack <=> IsBack') /\ (IsDemo <=> IsDemo')
    BY <1>8 DEF Finish, Go, Rounds, IsBack, IsDemo, vmVars, ringVars
  <2>2. ~ IsDemo
    BY <2>1, <1>0 DEF DemoOK
  <2> QED BY <2>1, <2>2, <1>0 DEF QuietOK, DemoOK, WorkloadOK, FullRun
<1>9. CASE Ended
  <2>1. /\ UNCHANGED << stage, state, mem, running, config, exit_code, target_cycle >>
        /\ stage \in {"done", "undefined"} /\ first' = first
    BY <1>9 DEF Ended, bvars, benchVars, ringVars, vmVars
  <2> QED BY <2>1, <1>0 DEF QuietOK, DemoOK, WorkloadOK, FullRun, IsBack, IsDemo
<1> QED
  BY <1>1, <1>2, <1>3, <1>4, <1>5, <1>6, <1>7, <1>8, <1>9 DEF BStep

(* The initial state.                                                      *)
LEMMA InitRunInv == BHInit => RunInv
<1> SUFFICES ASSUME BHInit PROVE RunInv
  OBVIOUS
<1>1. /\ config \in Configs /\ stage = "loaded" /\ exit_code = 0 /\ first = << >>
      /\ state = [PowerOn EXCEPT !.snap_interval = config.interval,
                                 !.snap_timer = config.interval]
      /\ mem = Image(IF config.cmd = "demo" THEN demo ELSE workload)
      /\ running = FALSE /\ target_cycle = NoTarget
  BY DEF BHInit, BInit
<1>2. ~ IsBack => config.interval = 0
  BY <1>1, ConfigFacts
<1>3. /\ state.cycle_count = 0 /\ state.pc = 0 /\ state.halted = HALT_RUNNING
      /\ state.sp = MEM_SIZE - 4 /\ state.regs = PowerOn.regs
      /\ state.snap_timer = config.interval
  BY <1>1, PowerOnStart DEF PowerOn
<1>4. QuietOK /\ FirstOK
  BY <1>1, <1>2, <1>3 DEF QuietOK, FirstOK
<1>5. WorkloadOK
  <2> SUFFICES ASSUME ~ IsDemo PROVE WorkloadOK
    BY DEF WorkloadOK
  <2>1. Intact(mem)
    BY <1>1, IntactHolds DEF IsDemo
  <2> QED BY <2>1, <1>1, <1>3, PowerOnStart DEF WorkloadOK, FullRun, AtStart, InRun
<1>6. DemoOK
  <2> SUFFICES ASSUME IsDemo PROVE DemoOK
    BY DEF DemoOK
  <2> DEFINE b == BytesOf(demo)
  <2>1. mem = Image(demo) /\ demo \in Seq(Word)
    BY <1>1, ProgramTypes DEF IsDemo
  <2>2. mem \in Memory /\ Len(b) = 4 * Len(demo)
    BY <2>1, ImageType, BytesAt
  <2>3. Holds(mem, demo)
    BY <2>1, <2>2 DEF Holds, Image, load_program
  <2>4. DemoAt(0)
    BY <2>2, <2>3, <1>3 DEF DemoAt
  <2> QED BY <2>4, <1>1 DEF DemoOK
<1> QED
  BY <1>4, <1>5, <1>6 DEF RunInv

(* The invariant of the runs, with the properties it implies.              *)
LEMMA RunInvariant == BHSpec => [](BInv /\ RunInv)
<1>1. BHInit => BInv /\ RunInv
  BY InitBInv, InitRunInv
<1>2. BInv /\ RunInv /\ [BHNext]_bhvars => RunInv'
  <2> SUFFICES ASSUME BInv, RunInv, [BHNext]_bhvars PROVE RunInv'
    OBVIOUS
  <2>1. CASE BHBack
    <3>1. /\ stage = "rest" /\ stage' \in {"rewound", "undefined"} /\ IsBack
          /\ UNCHANGED << config, exit_code, target_cycle, first >>
          /\ (IsBack <=> IsBack') /\ (IsDemo <=> IsDemo')
      BY <2>1 DEF BHBack, bghosts, do_back, Go, Rounds, IsBack, IsDemo
    <3>2. ~ IsDemo
      BY <3>1 DEF IsBack, IsDemo
    <3> QED BY <3>1, <3>2 DEF RunInv, QuietOK, DemoOK, WorkloadOK, FullRun, FirstOK
  <2>2. CASE BHStep /\ BenchPass
    <3>1. running /\ config' = config
      BY <2>2, BenchPassFacts, PassConfig DEF BInv, BTypeOK
    <3>2. first' = first
      BY <2>2, <3>1 DEF BHStep
    <3> QED BY <2>2, <3>1, <3>2, PassRunInv, FirstKept DEF RunInv
  <2>3. CASE BHStep /\ ~ BenchPass
    <3>1. config' = config
      BY <2>3 DEF BHStep, BStep, StartSanity, EndSanity, ResetCpu, RunAgain, do_step,
         EndRound, NextMode, Finish, Ended, Rounds, bvars, benchVars
    <3> QED BY <2>3, <3>1, StepRunInv, FirstKept DEF BHStep, RunInv
  <2>4. CASE UNCHANGED bhvars
    <3>1. UNCHANGED << stage, state, mem, running, config, exit_code, target_cycle, first >>
      BY <2>4 DEF bhvars, bghosts, bvars, benchVars, ringVars, vmVars
    <3>2. InRun' = InRun /\ DemoPasses' = DemoPasses /\ AtStart' = AtStart
          /\ \A c \in 0 .. 6 : DemoAt(c)' = DemoAt(c)
      BY <3>1 DEF InRun, AtStart, AtSecond, AtHalt, LoopAt, DemoPasses, DemoAt
    <3> QED BY <3>1, <3>2 DEF RunInv, QuietOK, DemoOK, WorkloadOK, FullRun, FirstOK, IsBack, IsDemo
  <2> QED BY <2>1, <2>2, <2>3, <2>4 DEF BHNext
<1>3. BInv /\ BenchRewindExact => BInv
  OBVIOUS
<1> QED
  BY <1>1, <1>2, <1>3, BenchInvariant, PTL DEF BHSpec

(* There is only one way for the workload to end.                          *)
LEMMA EndUnique ==
    ASSUME NEW s \in VMState, NEW t \in VMState, NEW m, NEW n, HasEnded(s, m), HasEnded(t, n),
           s.snap_interval = t.snap_interval, s.snap_timer = t.snap_timer
    PROVE  s = t /\ m = n
<1>1. m = n /\ s.cycle_count = t.cycle_count /\ s.pc = t.pc /\ s.sp = t.sp
      /\ s.flags = t.flags /\ s.halted = t.halted
  BY DEF HasEnded, Finals
<1>2. s.regs = t.regs
  <2>1. s.regs \in [Reg -> Word] /\ t.regs \in [Reg -> Word]
    BY DEF VMState
  <2>2. ASSUME NEW i \in Reg PROVE s.regs[i] = t.regs[i]
    BY DEF HasEnded, Finals, RegsAre
  <2> QED BY <2>1, <2>2
<1> QED
  BY <1>1, <1>2 DEF VMState

-----------------------------------------------------------------------------
(* The theorems about the runs.                                            *)

(* For every loop count, machine and interval, and in either dispatch mode *)
(* the demo passes its assertions, and the sanity run of every benchmark   *)
(* halts normally after 2 + 9 * kBenchmarkLoopCount + 1 cycles: no command *)
(* exits with a failure (main.cpp, run_demo and the sanity checks).        *)
THEOREM SanityCorrect == BHSpec => []SanityHolds
<1>1. BInv /\ RunInv => SanityHolds
  <2> SUFFICES ASSUME BInv, RunInv PROVE SanityHolds
    OBVIOUS
  <2>1. exit_code = 0
    BY DEF RunInv, QuietOK
  <2> QED BY <2>1, EndedSane DEF SanityHolds
<1> QED
  BY <1>1, RunInvariant, PTL

(* Every run of --benchmark and --bench-dispatch-cmp ends in the CPU state *)
(* and memory of the first one, on memory that earlier runs have written   *)
(* and in either dispatch mode, so the ns/op they print divide by the      *)
(* number of cycles that were really run.                                  *)
THEOREM RunsAlikeCorrect == BHSpec => []RunsAlike
<1>1. BInv /\ RunInv => RunsAlike
  <2> SUFFICES ASSUME BInv, RunInv, stage \in {"sanity", "round"}, ~ running, ~ IsBack,
                      first # << >>
               PROVE  << state, mem >> = first
    BY DEF RunsAlike
  <2>1. ~ IsDemo
    BY DEF RunInv, DemoOK
  <2>2. PICK st \in VMState : \E m : /\ first = << st, m >> /\ HasEnded(st, m)
                                     /\ st.snap_interval = 0 /\ st.snap_timer = 0
    BY <2>1 DEF RunInv, FirstOK
  <2>3. PICK m : /\ first = << st, m >> /\ HasEnded(st, m)
                 /\ st.snap_interval = 0 /\ st.snap_timer = 0
    BY <2>2
  <2>4. HasEnded(state, mem) /\ state \in VMState /\ state.snap_timer = 0
    BY <2>1 DEF RunInv, QuietOK, WorkloadOK, FullRun, BInv, BTypeOK, TypeOK
  <2>5. state.snap_interval = 0
    BY ConfigFacts DEF BInv, BTypeOK, TimerOK
  <2>6. state = st /\ mem = m
    BY <2>3, <2>4, <2>5, EndUnique
  <2> QED BY <2>3, <2>6
<1> QED
  BY <1>1, RunInvariant, PTL

-----------------------------------------------------------------------------
(* The invariant of --bench-back.                                          *)

(* No depth of --bench-back goes back to a JNZ other than the last: the    *)
(* loop has nine instructions, and the last JNZ is followed by the HALT.   *)
NoSkippedJump ==
    \A c \in Configs : c.cmd = "bench-back" => c.depth = 1 \/ c.depth % 9 # 1

(* The CPU state st is in step with the loop: at the p-th instruction in   *)
(* the cycle of iteration k, and the counter R0 is not behind.             *)
InStep(st, k, p) ==
    /\ st.cycle_count = 2 + 9 * k + p /\ st.pc = 8 + 4 * p /\ st.regs[1] = 1
    /\ LET left == IF p <= 7 THEN N - k ELSE N - k - 1
       IN  st.regs[0] = left \/ st.regs[0] = left + 1

(* A snapshot of the first run, whose pc is already past the instruction   *)
(* that the rewind will skip, is in step unless that was a JNZ.            *)
KeepsStep(s) ==
    \A k \in 0 .. N - 1 : \A p \in 0 .. 7 : s.cycle_count = 3 + 9 * k + p => InStep(s, k, p + 1)

(* In the first run the ring holds the last snapshots, one per cycle.      *)
FillOK ==
    stage \in {"loaded", "sanity"} =>
        /\ ring = << >> <=> state.cycle_count = 0
        /\ ring # << >> =>
              /\ Len(ring) = history_index + 1
              /\ IF state.cycle_count + 1 <= kBenchRingCap THEN Len(ring) = state.cycle_count + 1
                 ELSE Len(ring) = kBenchRingCap
              /\ \A i \in 1 .. Len(ring) :
                    /\ ring[i].cycle_count = state.cycle_count - (history_index + 1 - i)
                    /\ KeepsStep(ring[i]) /\ Intact(mem_at[i])

(* The entry that every rewind goes to.                                    *)
Target == kBenchRingCap - config.depth

TargetOK ==
    stage \in {"rest", "rewound", "round"} =>
        /\ ring[Target].cycle_count = expected - config.depth
        /\ KeepsStep(ring[Target]) /\ Intact(mem_at[Target])

(* On the way to the next expected cycle.                                  *)
OnTheWay ==
    /\ Intact(mem)
    /\ state.cycle_count # expected - 1 =>
          \E k \in 0 .. N - 1 : \E p \in 0 .. 8 : InStep(state, k, p)

ShapeOK ==
    /\ stage = "rest" => Len(ring) = kBenchRingCap /\ history_index = kBenchRingCap - 1
    /\ stage = "rewound" =>
          /\ history_index = Target - 1 /\ state.cycle_count = expected - config.depth
          /\ OnTheWay
    /\ stage = "round" =>
          /\ history_index = kBenchRingCap - 1 - (expected - state.cycle_count)
          /\ state.cycle_count \in expected - config.depth .. expected
          /\ state.cycle_count = expected - config.depth \/ Len(ring) = history_index + 1
          /\ IF running THEN /\ target_cycle = expected /\ state.cycle_count < expected
                             /\ OnTheWay
             ELSE state.cycle_count = expected

SteadyInv == config.cmd = "bench-back" => FillOK /\ TargetOK /\ ShapeOK

-----------------------------------------------------------------------------
(* A run that has lost one instruction of the loop.                        *)

(* One pass, in step with the loop.                                        *)
LEMMA InStepPass ==
    ASSUME TypeOK, Deterministic, Intact(mem), NEW k \in 0 .. N - 1, NEW p \in 0 .. 8,
           InStep(state, k, p)
    PROVE  /\ running' /\ Intact(mem') /\ state'.cycle_count = state.cycle_count + 1
           /\ state'.cycle_count # expected - 1 =>
                 \E j \in 0 .. N - 1 : \E q \in 0 .. 8 : InStep(state', j, q)
<1>1. N \in Nat /\ k \in Nat /\ k < N /\ expected = 9 * N + 3
  BY WorkloadSizes
<1>2. /\ state.regs \in [Reg -> Word] /\ 0 \in Reg /\ 1 \in Reg /\ 2 \in Reg /\ 3 \in Reg
      /\ 4 \in Reg /\ 5 \in Reg /\ 6 \in Reg /\ 7 \in Reg
  BY WorkloadSizes DEF TypeOK, VMState
<1>3. Holds(mem, workload)
  BY IntactHolds
<1>4. ASSUME NEW rs, NEW pc2, NEW f, NEW m, Effect(rs, pc2, f, m)
      PROVE  /\ state'.regs = rs /\ state'.pc = pc2 /\ mem' = m
             /\ state'.cycle_count = state.cycle_count + 1 /\ running'
  BY <1>4 DEF Effect
<1> HIDE DEF N
<1>5. ASSUME p # 8, state'.regs[1] = 1, state'.pc = 12 + 4 * p,
             state'.cycle_count = state.cycle_count + 1,
             IF p = 7 THEN state'.regs[0] = state.regs[0] - 1
             ELSE state'.regs[0] = state.regs[0]
      PROVE  \E j \in 0 .. N - 1 : \E q \in 0 .. 8 : InStep(state', j, q)
  <2>1. p + 1 \in 0 .. 8
    BY <1>5
  <2>2. InStep(state', k, p + 1)
    BY <1>1, <1>5 DEF InStep
  <2> QED BY <2>1, <2>2
<1>6. CASE p = 0
  <2>1. state.pc = 8 /\ state.regs[1] = 1
    BY <1>6 DEF InStep
  <2>2. Effect([state.regs EXCEPT ![2] = AluResult(OP_ADD, state.regs[2], state.regs[1])], 12,
               AluFlags(OP_ADD, state.regs[2], state.regs[1]), mem)
    BY <2>1, <1>3, WorkloadEffect
  <2>3. state'.regs[0] = state.regs[0] /\ state'.regs[1] = 1
    BY <2>1, <2>2, <1>2, <1>4
  <2> QED BY <2>2, <2>3, <1>4, <1>5, <1>6
<1>7. CASE p = 1
  <2>1. state.pc = 12 /\ state.regs[1] = 1
    BY <1>7 DEF InStep
  <2>2. Effect([state.regs EXCEPT ![3] = AluResult(OP_ADD, state.regs[3], state.regs[1])], 16,
               AluFlags(OP_ADD, state.regs[3], state.regs[1]), mem)
    BY <2>1, <1>3, WorkloadEffect
  <2>3. state'.regs[0] = state.regs[0] /\ state'.regs[1] = 1
    BY <2>1, <2>2, <1>2, <1>4
  <2> QED BY <2>2, <2>3, <1>4, <1>5, <1>7
<1>8. CASE p = 2
  <2>1. state.pc = 16 /\ state.regs[1] = 1
    BY <1>8 DEF InStep
  <2>2. Effect([state.regs EXCEPT ![4] = AluResult(OP_SUB, state.regs[4], state.regs[0])], 20,
               AluFlags(OP_SUB, state.regs[4], state.regs[0]), mem)
    BY <2>1, <1>3, WorkloadEffect
  <2>3. state'.regs[0] = state.regs[0] /\ state'.regs[1] = 1
    BY <2>1, <2>2, <1>2, <1>4
  <2> QED BY <2>2, <2>3, <1>4, <1>5, <1>8
<1>9. CASE p = 3
  <2>1. state.pc = 20 /\ state.regs[1] = 1
    BY <1>9 DEF InStep
  <2>2. Effect([state.regs EXCEPT ![5] = AluResult(OP_MUL, state.regs[5], state.regs[1])], 24,
               AluFlags(OP_MUL, state.regs[5], state.regs[1]), mem)
    BY <2>1, <1>3, WorkloadEffect
  <2>3. state'.regs[0] = state.regs[0] /\ state'.regs[1] = 1
    BY <2>1, <2>2, <1>2, <1>4
  <2> QED BY <2>2, <2>3, <1>4, <1>5, <1>9
<1>10. CASE p = 4
  <2>1. state.pc = 24 /\ state.regs[1] = 1
    BY <1>10 DEF InStep
  <2>2. Effect([state.regs EXCEPT ![6] = AluResult(OP_DIV, state.regs[6], state.regs[1])], 28,
               AluFlags(OP_DIV, state.regs[6], state.regs[1]), mem)
    BY <2>1, <1>3, WorkloadEffect
  <2>3. state'.regs[0] = state.regs[0] /\ state'.regs[1] = 1
    BY <2>1, <2>2, <1>2, <1>4
  <2> QED BY <2>2, <2>3, <1>4, <1>5, <1>10
<1>11. CASE p = 5
  <2>1. state.pc = 28 /\ state.regs[1] = 1
    BY <1>11 DEF InStep
  <2>2. Effect(state.regs, 32, state.flags, mem_store_u32(mem, kCell, state.regs[2]))
    BY <2>1, <1>3, WorkloadEffect
  <2>3. Intact(mem_store_u32(mem, kCell, state.regs[2]))
    BY <1>2, CellStore
  <2> QED BY <2>1, <2>2, <2>3, <1>4, <1>5, <1>11
<1>12. CASE p = 6
  <2>1. state.pc = 32 /\ state.regs[1] = 1
    BY <1>12 DEF InStep
  <2>2. Effect([state.regs EXCEPT ![7] = mem_load_u32(mem, kCell)], 36, state.flags, mem)
    BY <2>1, <1>3, WorkloadEffect
  <2>3. state'.regs[0] = state.regs[0] /\ state'.regs[1] = 1
    BY <2>1, <2>2, <1>2, <1>4
  <2> QED BY <2>2, <2>3, <1>4, <1>5, <1>12
<1>13. CASE p = 7
  <2>1. state.pc = 36 /\ state.regs[1] = 1
    BY <1>13 DEF InStep
  <2>2. state.regs[0] \in Word /\ state.regs[0] >= 1
    BY <1>1, <1>2, <1>13 DEF InStep
  <2>3. AluResult(OP_SUB, state.regs[0], state.regs[1]) = state.regs[0] - 1
    BY <2>1, <2>2, WorkloadAlu
  <2>4. Effect([state.regs EXCEPT ![0] = state.regs[0] - 1], 40, AluFlags(OP_SUB, state.regs[0], state.regs[1]), mem)
    BY <2>1, <2>3, <1>3, WorkloadEffect
  <2>5. state'.regs[0] = state.regs[0] - 1 /\ state'.regs[1] = 1
    BY <2>1, <2>4, <1>2, <1>4
  <2> QED BY <2>4, <2>5, <1>4, <1>5, <1>13
<1>14. CASE p = 8
  <2>1. state.pc = 40 /\ state.regs[1] = 1
    BY <1>14 DEF InStep
  <2>2. Effect(state.regs, IF state.regs[0] # 0 THEN 8 ELSE 44, state.flags, mem)
    BY <2>1, <1>3, WorkloadEffect
  <2>3. CASE k = N - 1
    <3>1. state'.cycle_count = expected - 1
      BY <2>2, <2>3, <1>1, <1>4, <1>14 DEF InStep
    <3> QED BY <2>2, <3>1, <1>4
  <2>4. CASE k # N - 1
    <3>1. state.regs[0] # 0 /\ k + 1 \in 0 .. N - 1 /\ 0 \in 0 .. 8
      BY <2>4, <1>1, <1>14 DEF InStep
    <3>2. InStep(state', k + 1, 0)
      BY <2>1, <2>2, <3>1, <1>1, <1>4, <1>14 DEF InStep
    <3> QED BY <2>2, <3>1, <3>2, <1>4
  <2> QED BY <2>3, <2>4
<1> QED
  BY <1>6, <1>7, <1>8, <1>9, <1>10, <1>11, <1>12, <1>13, <1>14

(* What the sink gets in the first run keeps the step, and so does the     *)
(* default-constructed snapshot, to which --bench-back never goes.         *)
LEMMA FiredKeeps ==
    ASSUME TypeOK
    PROVE  /\ InRun => KeepsStep(Fired)
           /\ KeepsStep(ZeroSnapshot) /\ ZeroSnapshot.cycle_count = 0
<1>1. /\ Fetched.cycle_count = state.cycle_count + 1 /\ Fetched.regs = state.regs
      /\ Fetched.pc = (state.pc + 4) % WORD_MOD
  BY TickedFields DEF Fetched, TypeOK, VMState
<1>2. /\ Fired.cycle_count = state.cycle_count + 1 /\ Fired.regs = state.regs
      /\ Fired.pc = (state.pc + 4) % WORD_MOD
  BY <1>1 DEF Fired, SnapshotOf
<1>3. N \in Nat /\ WORD_MOD \in Nat /\ 52 <= WORD_MOD
  BY WorkloadSizes
<1>4. ZeroSnapshot.cycle_count = 0
  BY PowerOnStart DEF ZeroSnapshot, SnapshotOf, PowerOn
<1> HIDE DEF N
<1>5. KeepsStep(ZeroSnapshot)
  BY <1>3, <1>4 DEF KeepsStep
<1>6. ASSUME InRun, NEW k \in 0 .. N - 1, NEW p \in 0 .. 7, Fired.cycle_count = 3 + 9 * k + p
      PROVE  InStep(Fired, k, p + 1)
  <2>1. state.cycle_count = 2 + 9 * k + p
    BY <1>2, <1>3, <1>6 DEF TypeOK, VMState
  <2>2. PICK j \in 0 .. N - 1 : \E q \in 0 .. 8 : LoopAt(j, q)
    BY <2>1, <1>3, <1>6 DEF InRun, AtStart, AtSecond, AtHalt
  <2>3. PICK q \in 0 .. 8 : LoopAt(j, q)
    BY <2>2
  <2>4. j = k /\ q = p
    BY <2>1, <2>3, <1>3 DEF LoopAt
  <2>5. state.pc = 8 + 4 * p /\ state.regs[0] = N - k /\ state.regs[1] = 1
    BY <2>3, <2>4, <1>3 DEF LoopAt, RegsAre
  <2>6. (state.pc + 4) % WORD_MOD = 8 + 4 * (p + 1)
    <3>1. ASSUME NEW x \in Nat, NEW n \in Nat, x < n PROVE x % n = x
      BY <3>1
    <3> QED BY <3>1, <2>5, <1>3
  <2> QED BY <2>1, <2>5, <2>6, <1>2, <1>3 DEF InStep
<1> QED
  BY <1>4, <1>5, <1>6 DEF KeepsStep

-----------------------------------------------------------------------------
(* --bench-back keeps its steady state.                                    *)

(* What the command line of --bench-back says.                             *)
LEMMA BackConfig ==
    ASSUME BInv, config.cmd = "bench-back"
    PROVE  /\ IsBack /\ ~ IsDemo /\ config.interval = 1
           /\ config.depth \in Nat /\ config.depth >= 1 /\ config.depth < kBenchRingCap
           /\ kBenchRingCap \in Nat /\ kBenchRingCap <= 9 * N + 1 /\ N \in Nat /\ N >= 1
           /\ expected = 9 * N + 3 /\ Target \in 1 .. kBenchRingCap - 1
<1>1. /\ config.interval = 1 /\ config.depth \in 1 .. kBenchRingCap - 1 /\ IsBack /\ ~ IsDemo
  BY ConfigFacts DEF BInv, BTypeOK, IsBack, IsDemo
<1>2. kBenchRingCap \in 1 .. 9 * N + 1 /\ N \in Nat /\ N >= 1 /\ expected = 9 * N + 3
  BY BenchmarksAssumption, WorkloadSizes DEF N
<1> HIDE DEF N
<1> QED
  BY <1>1, <1>2 DEF Target

(* The ring of a bench-back is not empty once an iteration has begun.      *)
LEMMA RingFilled ==
    ASSUME BInv, IsBack, stage \in {"rewound", "round"}
    PROVE  ring # << >>
BY DEF BInv, EmptyOK

(* The first run fills the ring with one snapshot per cycle.               *)
LEMMA FillPass ==
    ASSUME BInv, RunInv, config.cmd = "bench-back", FillOK, stage = "sanity", BenchPass,
           PushesMemory
    PROVE  FillOK'
<1> DEFINE h == history_index
           c == state.cycle_count
           cap == kBenchRingCap
<1>1. /\ IsBack /\ ~ IsDemo /\ config.interval = 1 /\ cap \in Nat /\ cap >= 2
  BY BackConfig
<1>2. TypeOK /\ BTypeOK /\ RingOK /\ AnyPass /\ SnapFires /\ running
      /\ state'.cycle_count = c + 1 /\ stage' = stage
  BY <1>1, BenchPassFacts, PassTimerOK, PassConfig DEF BInv, BTypeOK
<1>3. /\ history_index' = NewIndex /\ NewIndex \in Nat /\ Shift \in {0, 1}
      /\ IsPush(ring', Snapshot, ring, Fired, ZeroSnapshot)
      /\ IsPush(mem_at', Memory, mem_at, mem, Image(workload))
      /\ ring = << >> <=> mem_at = << >>
  BY <1>2, SinkFacts DEF PushesMemory
<1>4. InRun /\ Intact(mem) /\ Intact(Image(workload))
  BY <1>1, <1>2, IntactHolds DEF RunInv, WorkloadOK, FullRun
<1>5. /\ KeepsStep(Fired) /\ Fired.cycle_count = c + 1
      /\ KeepsStep(ZeroSnapshot) /\ ZeroSnapshot.cycle_count = 0
  BY <1>2, <1>4, FiredKeeps, FiredType
<1>6. h \in Nat /\ c \in Nat /\ Len(ring) \in Nat /\ Len(ring) <= cap
  BY <1>2 DEF BTypeOK, TypeOK, VMState
<1>7. /\ Len(ring') = NewIndex + 1 /\ ring' # << >> /\ ring'[NewIndex + 1] = Fired
      /\ mem_at'[NewIndex + 1] = mem
      /\ \A i \in 1 .. NewIndex :
            /\ ring'[i] = IF ring = << >> THEN ZeroSnapshot ELSE ring[i + Shift]
            /\ mem_at'[i] = IF ring = << >> THEN Image(workload) ELSE mem_at[i + Shift]
  BY <1>3 DEF IsPush
<1>8. NewIndex = (IF h + 2 > cap THEN h ELSE h + 1) /\ Shift = h + 1 - NewIndex
  BY DEF NewIndex, Shift
<1>9. ring = << >> => h = 0 /\ c = 0
  BY <1>2 DEF FillOK, RingOK
<1>10. ring # << >> =>
          /\ Len(ring) = h + 1
          /\ IF c + 1 <= cap THEN Len(ring) = c + 1 ELSE Len(ring) = cap
          /\ \A i \in 1 .. Len(ring) :
                /\ ring[i].cycle_count = c - (h + 1 - i)
                /\ KeepsStep(ring[i]) /\ Intact(mem_at[i])
  BY DEF FillOK
<1> HIDE DEF h, c, cap
<1>11. IF c + 2 <= cap THEN NewIndex + 1 = c + 2 ELSE NewIndex + 1 = cap
  BY <1>1, <1>6, <1>8, <1>9, <1>10
<1>12. ASSUME NEW i \in 1 .. NewIndex + 1
       PROVE  /\ ring'[i].cycle_count = c + 1 - (NewIndex + 1 - i)
              /\ KeepsStep(ring'[i]) /\ Intact(mem_at'[i])
  <2>1. CASE i = NewIndex + 1
    BY <2>1, <1>3, <1>4, <1>5, <1>6, <1>7
  <2>2. CASE i # NewIndex + 1 /\ ring = << >>
    <3>1. i \in 1 .. NewIndex /\ h = 0 /\ c = 0 /\ NewIndex = 1
      BY <2>2, <1>1, <1>3, <1>8, <1>9
    <3>2. ring'[i] = ZeroSnapshot /\ mem_at'[i] = Image(workload)
      BY <2>2, <3>1, <1>7
    <3> QED BY <3>1, <3>2, <1>4, <1>5
  <2>3. CASE i # NewIndex + 1 /\ ring # << >>
    <3>0. i \in 1 .. NewIndex /\ Len(ring) = h + 1 /\ NewIndex + Shift = h + 1
      <4>1. i \in 1 .. NewIndex
        BY <2>3, <1>3
      <4>2. Len(ring) = h + 1
        BY <2>3, <1>10
      <4>3. NewIndex + Shift = h + 1
        BY <1>3, <1>6, <1>8
      <4> QED BY <4>1, <4>2, <4>3
    <3>1. PICK j \in 1 .. Len(ring) : j = i + Shift /\ i \in 1 .. NewIndex
      <4>1. i + Shift \in 1 .. Len(ring)
        BY <3>0, <1>3, <1>6
      <4> QED BY <3>0, <4>1
    <3>2. ring'[i] = ring[j] /\ mem_at'[i] = mem_at[j]
      BY <2>3, <3>1, <1>7
    <3>3. c - (h + 1 - j) = c + 1 - (NewIndex + 1 - i)
      BY <3>1, <1>3, <1>6, <1>8
    <3> QED BY <2>3, <3>2, <3>3, <1>10
  <2> QED BY <2>1, <2>2, <2>3
<1>13. state'.cycle_count # 0 /\ state'.cycle_count + 1 = c + 2
  BY <1>2, <1>6
<1>14. /\ Len(ring') = history_index' + 1
       /\ IF state'.cycle_count + 1 <= kBenchRingCap THEN Len(ring') = state'.cycle_count + 1
          ELSE Len(ring') = kBenchRingCap
  BY <1>3, <1>7, <1>11, <1>13 DEF cap
<1>15. ASSUME NEW i \in 1 .. Len(ring')
       PROVE  /\ ring'[i].cycle_count = state'.cycle_count - (history_index' + 1 - i)
              /\ KeepsStep(ring'[i]) /\ Intact(mem_at'[i])
  <2>1. i \in 1 .. NewIndex + 1
    BY <1>7
  <2>2. /\ ring'[i].cycle_count = c + 1 - (NewIndex + 1 - i)
        /\ KeepsStep(ring'[i]) /\ Intact(mem_at'[i])
    BY <2>1, <1>12
  <2>3. state'.cycle_count = c + 1 /\ history_index' = NewIndex
    BY <1>2, <1>3
  <2>4. state'.cycle_count - (history_index' + 1 - i) = c + 1 - (NewIndex + 1 - i)
    BY <2>1, <2>3, <1>3, <1>6
  <2> QED BY <2>2, <2>4
<1> QED
  BY <1>7, <1>13, <1>14, <1>15 DEF FillOK, KeepsStep, Intact, InStep

(* One pass of an iteration: on the way to the expected cycle, or there.   *)
LEMMA RoundPass ==
    ASSUME BInv, config.cmd = "bench-back", TargetOK, ShapeOK, stage = "round", BenchPass,
           PushesMemory
    PROVE  TargetOK' /\ ShapeOK'
<1> DEFINE h == history_index
           c == state.cycle_count
           cap == kBenchRingCap
           d == config.depth
           e == expected
<1>1. /\ IsBack /\ config.interval = 1 /\ cap \in Nat /\ d \in Nat /\ d >= 1 /\ d < cap
      /\ Target \in 1 .. cap - 1 /\ Target = cap - d /\ e \in Nat /\ d <= e
  <2>1. /\ IsBack /\ config.interval = 1 /\ cap \in Nat /\ d \in Nat /\ d >= 1 /\ d < cap
        /\ Target \in 1 .. cap - 1 /\ N \in Nat /\ cap <= 9 * N + 1 /\ e = 9 * N + 3
    BY BackConfig
  <2> QED BY <2>1 DEF Target
<1>2. TypeOK /\ BTypeOK /\ RingOK /\ AnyPass /\ SnapFires /\ running
      /\ state'.cycle_count = c + 1 /\ stage' = stage /\ config' = config
  BY <1>1, BenchPassFacts, PassTimerOK, PassConfig DEF BInv, BTypeOK
<1>3. /\ history_index' = NewIndex
      /\ IsPush(ring', Snapshot, ring, Fired, ZeroSnapshot)
      /\ IsPush(mem_at', Memory, mem_at, mem, Image(workload))
      /\ ring = << >> <=> mem_at = << >>
  BY <1>2, SinkFacts DEF PushesMemory
<1>4. /\ h = cap - 1 - (e - c) /\ c \in e - d .. e /\ target_cycle = e /\ c < e /\ OnTheWay
  BY <1>2 DEF ShapeOK
<1>5. h \in Nat /\ c \in Nat /\ Fired.cycle_count = c + 1 /\ target_cycle # NoTarget
  BY <1>1, <1>2, <1>4, FiredType, BenchmarksAssumption DEF BTypeOK, TypeOK, VMState
<1>6. ring # << >>
  BY <1>1, RingFilled
<1>7. NewIndex = (IF h + 2 > cap THEN h ELSE h + 1) /\ Shift = h + 1 - NewIndex
  BY DEF NewIndex, Shift
<1>8. /\ TargetHit <=> c + 1 >= e
      /\ target_cycle' = IF TargetHit THEN NoTarget ELSE target_cycle
  BY <1>2, <1>4, <1>5 DEF TargetHit, BenchPass, Sink
<1>9. TargetHit => ~ running'
  BY DEF BenchPass, StopPass, PlainPass, SoftHalt, SnapReturn, Trap
<1>10. ~ TargetHit => Deterministic
  BY DEF BenchPass, StopPass, PlainPass
<1> HIDE DEF h, c, cap, d, e
<1>11. NewIndex = h + 1 /\ Shift = 0 /\ Target \in 1 .. NewIndex /\ Target + Shift = Target
       /\ NewIndex = cap - 1 - (e - (c + 1)) /\ c + 1 \in e - d .. e
       /\ c + 1 # e - d
  BY <1>1, <1>4, <1>5, <1>7
<1>12. /\ ring'[Target] = ring[Target] /\ mem_at'[Target] = mem_at[Target]
       /\ Len(ring') = NewIndex + 1
  BY <1>3, <1>6, <1>11 DEF IsPush
<1>13. Target' = Target
  BY <1>2 DEF Target
<1>14. TargetOK'
  BY <1>2, <1>12, <1>13 DEF TargetOK
<1>15. CASE c + 1 = e
  <2>1. ~ running'
    BY <1>1, <1>8, <1>9, <1>15
  <2> QED BY <2>1, <1>2, <1>3, <1>11, <1>12, <1>14, <1>15 DEF ShapeOK, cap, d, e
<1>16. CASE c + 1 # e
  <2>1. ~ TargetHit /\ Deterministic /\ c + 1 < e /\ c # e - 1
    BY <1>1, <1>4, <1>5, <1>8, <1>10, <1>16
  <2>2. PICK k \in 0 .. N - 1 : \E p \in 0 .. 8 : InStep(state, k, p)
    BY <2>1, <1>4 DEF OnTheWay, c, e
  <2>3. PICK p \in 0 .. 8 : InStep(state, k, p)
    BY <2>2
  <2>4. Intact(mem)
    BY <1>4 DEF OnTheWay
  <2>5. running' /\ OnTheWay'
    <3>1. /\ running' /\ Intact(mem')
          /\ state'.cycle_count # expected - 1 =>
                \E j \in 0 .. N - 1 : \E q \in 0 .. 8 : InStep(state', j, q)
      BY <2>1, <2>3, <2>4, <1>2, InStepPass
    <3>2. InStep(state, 0, 0)' <=> InStep(state', 0, 0)
      BY DEF InStep
    <3> QED BY <3>1 DEF OnTheWay, InStep
  <2>6. target_cycle' = e
    BY <2>1, <1>4, <1>8
  <2> QED BY <2>1, <2>5, <2>6, <1>2, <1>3, <1>11, <1>12, <1>14 DEF ShapeOK, cap, d, e
<1> QED
  BY <1>1, <1>15, <1>16

(* The rewind goes to the snapshot that every iteration starts from.       *)
LEMMA SteadyBack ==
    ASSUME BInv, config.cmd = "bench-back", NoSkippedJump, TargetOK, ShapeOK, BHBack
    PROVE  TargetOK' /\ ShapeOK'
<1> DEFINE s == ring[Target]
<1>1. /\ IsBack /\ config.interval = 1 /\ kBenchRingCap \in Nat /\ config.depth \in Nat
      /\ config.depth >= 1 /\ config.depth < kBenchRingCap /\ kBenchRingCap <= 9 * N + 1
      /\ Target \in 1 .. kBenchRingCap - 1 /\ Target = kBenchRingCap - config.depth
      /\ N \in Nat /\ expected = 9 * N + 3
  BY BackConfig DEF Target
<1>2. do_back /\ mem_at' = mem_at /\ stage = "rest" /\ BInv' /\ BenchRewindExact'
  BY BackInv, BackRange DEF BHBack, bghosts
<1>3. Len(ring) = kBenchRingCap /\ history_index = kBenchRingCap - 1
      /\ s.cycle_count = expected - config.depth /\ KeepsStep(s) /\ Intact(mem_at[Target])
  BY <1>2 DEF ShapeOK, TargetOK
<1>4. InRange /\ BackTarget = Target - 1 /\ BackTarget + 1 = Target
  BY <1>1, <1>3 DEF InRange, BackTarget
<1>5. /\ stage' = "rewound" /\ state' = restore_state(s) /\ history_index' = Target - 1
      /\ ring' = ring /\ config' = config /\ Target' = Target
  BY <1>2, <1>4 DEF do_back, Go, Rounds, Target
<1>6. state'.cycle_count = s.cycle_count /\ state'.pc = s.pc /\ state'.regs = s.regs
  <2>1. state \in VMState
    BY DEF BInv, BTypeOK, TypeOK
  <2> QED BY <2>1, <1>5 DEF restore_state, VMState
<1>7. mem' = mem_at[Target]
  <2>1. state'.snap_interval = 1
    BY <1>1, <1>2, <1>5 DEF BInv, TimerOK
  <2> QED BY <2>1, <1>1, <1>2, <1>5 DEF BenchRewindExact
<1> HIDE DEF s, N
<1>8. ASSUME state'.cycle_count # expected - 1
      PROVE  \E k \in 0 .. N - 1 : \E p \in 0 .. 8 : InStep(state', k, p)
  <2>1. config.depth # 1 /\ config.depth % 9 # 1
    <3>1. config.depth # 1
      BY <1>1, <1>3, <1>6, <1>8
    <3>2. config \in Configs
      BY DEF BInv, BTypeOK
    <3> QED BY <3>1, <3>2 DEF NoSkippedJump
  <2>2. PICK x \in Nat : x = 9 * N - config.depth
    BY <1>1
  <2>3. x \div 9 \in 0 .. N - 1 /\ x % 9 \in 0 .. 7 /\ x = 9 * (x \div 9) + (x % 9)
    BY <2>1, <2>2, <1>1
  <2>4. PICK k \in 0 .. N - 1, p \in 0 .. 7 : x = 9 * k + p
    BY <2>3
  <2>5. s.cycle_count = 3 + 9 * k + p
    BY <2>2, <2>4, <1>1, <1>3
  <2>6. InStep(s, k, p + 1) /\ p + 1 \in 0 .. 8
    BY <2>4, <2>5, <1>3 DEF KeepsStep
  <2>7. InStep(state', k, p + 1)
    BY <2>6, <1>6 DEF InStep
  <2> QED BY <2>6, <2>7
<1>9. OnTheWay'
  BY <1>3, <1>7, <1>8 DEF OnTheWay, InStep
<1> QED
  BY <1>3, <1>5, <1>6, <1>9, <1>2 DEF TargetOK, ShapeOK, s

(* The ring is empty before the first cycle.                               *)
LEMMA InitSteady == BHInit => SteadyInv
<1> SUFFICES ASSUME BHInit PROVE FillOK /\ TargetOK /\ ShapeOK
  BY DEF SteadyInv
<1>1. stage = "loaded" /\ ring = << >> /\ state.cycle_count = 0
  BY PowerOnStart DEF BHInit, BInit, PowerOn
<1> QED
  BY <1>1 DEF FillOK, TargetOK, ShapeOK

(* The first run leaves a full ring, whose last snapshot is that of the    *)
(* HALT.                                                                   *)
LEMMA SteadyBegins ==
    ASSUME BInv, RunInv, config.cmd = "bench-back", FillOK, stage = "sanity", ~ running
    PROVE  /\ Len(ring) = kBenchRingCap /\ history_index = kBenchRingCap - 1
           /\ ring[Target].cycle_count = expected - config.depth
           /\ KeepsStep(ring[Target]) /\ Intact(mem_at[Target])
<1>1. /\ ~ IsDemo /\ kBenchRingCap \in Nat /\ kBenchRingCap <= 9 * N + 1 /\ N \in Nat
      /\ config.depth \in Nat /\ expected = 9 * N + 3
      /\ Target \in 1 .. kBenchRingCap - 1 /\ Target = kBenchRingCap - config.depth
  BY BackConfig DEF Target
<1>2. state.cycle_count = expected
  BY <1>1 DEF RunInv, WorkloadOK, FullRun, HasEnded
<1> HIDE DEF N
<1>3. ring # << >> /\ state.cycle_count + 1 > kBenchRingCap
  BY <1>1, <1>2 DEF FillOK
<1>4. Len(ring) = kBenchRingCap /\ Len(ring) = history_index + 1 /\ history_index \in Nat
  BY <1>1, <1>2, <1>3 DEF FillOK, BInv, BTypeOK
<1>5. Target \in 1 .. Len(ring) /\ history_index + 1 - Target = config.depth
  BY <1>1, <1>4
<1>6. /\ ring[Target].cycle_count = state.cycle_count - (history_index + 1 - Target)
      /\ KeepsStep(ring[Target]) /\ Intact(mem_at[Target])
  BY <1>3, <1>5 DEF FillOK
<1> QED
  BY <1>1, <1>2, <1>4, <1>5, <1>6

(* The steps of the command between two passes.                            *)
LEMMA SteadyStep ==
    ASSUME BInv, RunInv, config.cmd = "bench-back", FillOK, TargetOK, ShapeOK,
           BStep, ~ BenchPass, mem_at' = IF running /\ SnapFires
                                         THEN Pushed(mem_at, mem, Image(workload)) ELSE mem_at
    PROVE  FillOK' /\ TargetOK' /\ ShapeOK'
<1>0. StageOK /\ IsBack
  BY BackConfig DEF BInv
<1>1. CASE StartSanity
  <2>1. /\ stage = "loaded" /\ stage' = "sanity"
        /\ UNCHANGED << state, ring, history_index, config >>
    BY <1>1 DEF StartSanity, Go, Run, Rounds, Frame, ringVars
  <2>2. mem_at' = mem_at
    BY <2>1, <1>0 DEF StageOK
  <2> QED BY <2>1, <2>2 DEF FillOK, TargetOK, ShapeOK
<1>2. CASE EndSanity
  <2>1. /\ stage = "sanity" /\ stage' = "rest" /\ ~ running
        /\ UNCHANGED << ring, history_index, config >> /\ mem_at' = mem_at /\ Target' = Target
    BY <1>2 DEF EndSanity, Go, ringVars, Target
  <2> QED BY <2>1, SteadyBegins DEF FillOK, TargetOK, ShapeOK
<1>3. CASE do_step
  <2>1. /\ stage = "rewound" /\ stage' = "round" /\ running'
        /\ UNCHANGED << mem, ring, history_index, config >> /\ Target' = Target
        /\ state' = [state EXCEPT !.halted = HALT_RUNNING]
        /\ target_cycle' = state.cycle_count + config.depth
    BY <1>3 DEF do_step, Go, Rounds, Target
  <2>2. mem_at' = mem_at
    BY <2>1, <1>0 DEF StageOK
  <2>3. /\ state'.cycle_count = state.cycle_count /\ state'.pc = state.pc
        /\ state'.regs = state.regs
    BY <2>1 DEF BInv, BTypeOK, TypeOK, VMState
  <2>4. /\ history_index = Target - 1 /\ state.cycle_count = expected - config.depth
        /\ OnTheWay
    BY <2>1 DEF ShapeOK
  <2>5. OnTheWay'
    BY <2>1, <2>3, <2>4 DEF OnTheWay, InStep
  <2>6. TargetOK'
    BY <2>1, <2>2 DEF TargetOK
  <2>7. /\ kBenchRingCap \in Nat /\ N \in Nat /\ config.depth \in Nat /\ config.depth >= 1
        /\ expected = 9 * N + 3 /\ Target = kBenchRingCap - config.depth
    BY BackConfig DEF Target
  <2> HIDE DEF N
  <2>8. /\ target_cycle' = expected /\ state.cycle_count < expected
        /\ state.cycle_count \in expected - config.depth .. expected
        /\ history_index = kBenchRingCap - 1 - (expected - state.cycle_count)
    BY <2>1, <2>4, <2>7
  <2> QED BY <2>1, <2>3, <2>5, <2>6, <2>8, <2>4 DEF FillOK, ShapeOK
<1>4. CASE EndRound
  <2>1. /\ stage = "round" /\ stage' = "rest" /\ ~ running
        /\ UNCHANGED << ring, history_index, config >> /\ mem_at' = mem_at /\ Target' = Target
    BY <1>4 DEF EndRound, Go, Rounds, ringVars, Target
  <2>2. /\ kBenchRingCap \in Nat /\ N \in Nat /\ config.depth \in Nat /\ config.depth >= 1
        /\ expected = 9 * N + 3
    BY BackConfig
  <2> HIDE DEF N
  <2>3. /\ state.cycle_count = expected
        /\ history_index = kBenchRingCap - 1 - (expected - state.cycle_count)
        /\ state.cycle_count = expected - config.depth \/ Len(ring) = history_index + 1
    BY <2>1 DEF ShapeOK
  <2>4. history_index = kBenchRingCap - 1 /\ Len(ring) = kBenchRingCap
    BY <2>2, <2>3
  <2> QED BY <2>1, <2>4 DEF FillOK, TargetOK, ShapeOK
<1>5. CASE Finish
  <2>1. stage' = "done"
    BY <1>5 DEF Finish, Go
  <2> QED BY <2>1 DEF FillOK, TargetOK, ShapeOK
<1>6. CASE Ended
  <2>1. stage' \in {"done", "undefined"}
    BY <1>6 DEF Ended, bvars, benchVars
  <2> QED BY <2>1 DEF FillOK, TargetOK, ShapeOK
<1>7. ~ ResetCpu /\ ~ RunAgain /\ ~ NextMode
  BY <1>0 DEF ResetCpu, RunAgain, NextMode, Go, StageOK
<1> QED
  BY <1>1, <1>2, <1>3, <1>4, <1>5, <1>6, <1>7 DEF BStep

(* The invariant, where no rewind goes back to a JNZ but the last.         *)
LEMMA SteadyInvariant ==
    ASSUME NoSkippedJump
    PROVE  BHSpec => []SteadyInv
<1>1. BHInit => SteadyInv
  BY InitSteady
<1>2. BInv /\ RunInv /\ SteadyInv /\ [BHNext]_bhvars => SteadyInv'
  <2> SUFFICES ASSUME BInv, RunInv, SteadyInv, [BHNext]_bhvars, config'.cmd = "bench-back"
               PROVE  FillOK' /\ TargetOK' /\ ShapeOK'
    BY DEF SteadyInv
  <2>0. config' = config
    BY PassConfig DEF BHNext, BHStep, BHBack, BStep, BenchPass, StartSanity, EndSanity, ResetCpu,
       RunAgain, do_step, do_back, EndRound, NextMode, Finish, Ended, Rounds, bhvars, bvars,
       benchVars
  <2>1. config.cmd = "bench-back" /\ FillOK /\ TargetOK /\ ShapeOK
    BY <2>0 DEF SteadyInv
  <2>2. CASE BHBack
    <3>1. stage' \in {"rewound", "undefined"}
      BY <2>2 DEF BHBack, do_back, Go
    <3> QED BY <2>1, <2>2, <3>1, SteadyBack DEF FillOK
  <2>3. CASE BHStep /\ BenchPass
    <3>1. running /\ stage' = stage /\ stage \in {"sanity", "round"} /\ PushesMemory
      BY <2>3, BenchPassFacts, PassConfig DEF BInv, BTypeOK, StageOK, BHStep, PushesMemory
    <3>2. CASE stage = "sanity"
      BY <2>1, <2>3, <3>1, <3>2, FillPass DEF TargetOK, ShapeOK
    <3>3. CASE stage = "round"
      BY <2>1, <2>3, <3>1, <3>3, RoundPass DEF FillOK
    <3> QED BY <3>1, <3>2, <3>3
  <2>4. CASE BHStep /\ ~ BenchPass
    BY <2>1, <2>4, SteadyStep DEF BHStep
  <2>5. CASE UNCHANGED bhvars
    <3>1. UNCHANGED << stage, state, mem, running, config, target_cycle, ring, history_index,
                       mem_at >>
      BY <2>5 DEF bhvars, bghosts, bvars, benchVars, ringVars, vmVars
    <3> QED BY <2>1, <3>1 DEF FillOK, TargetOK, ShapeOK, Target, OnTheWay, InStep
  <2> QED BY <2>2, <2>3, <2>4, <2>5 DEF BHNext
<1> QED
  BY <1>1, <1>2, RunInvariant, PTL DEF BHSpec

(* The comment of cmd_benchmark_backn, "bring the ring back to the         *)
(* post-sanity steady-state shape (history_index == 255, ring full)", is   *)
(* true of the first run, the warmup and every timed iteration, for every  *)
(* loop count and ring capacity, as long as no rewind goes back to a JNZ   *)
(* other than the last.  The hypothesis is needed: the iteration skips the *)
(* instruction of its target snapshot, a skipped JNZ leaves the loop       *)
(* early, and the run with the depths it excludes violates SteadyState.    *)
THEOREM SteadyCorrect ==
    ASSUME NoSkippedJump
    PROVE  BHSpec => []SteadyState
<1>1. SteadyInv => SteadyState
  BY DEF SteadyInv, ShapeOK, SteadyState
<1> QED
  BY <1>1, SteadyInvariant, PTL

=============================================================================
