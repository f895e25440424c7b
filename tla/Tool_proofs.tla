----------------------------- MODULE Tool_proofs -----------------------------
(***************************************************************************)
(* Proofs about the assembler, run and snapshot, for every machine whose   *)
(* instructions are laid out as in the code, every source, every input,    *)
(* every failing write and every kill.                                     *)
(***************************************************************************)
EXTENDS ToolHistory, EngineLemmas

-----------------------------------------------------------------------------
(* The inductive invariant.                                                *)

(* Every value has its C++ type.                                           *)
TTypeOK ==
    /\ TypeOK
    /\ cmd \in {"none", "asm", "run", "snapshot"}
    /\ phase \in {"write", "run", "exited"}
    /\ exit_code \in {0, 1, 2, KILLED}
    /\ instrs \in Seq(Word)
    /\ bin_file = NoBin \/ bin_file \in Seq(Byte)
    /\ counter \in 0 .. MaxCycle

(* The words of accepted lines.                                            *)
WordsOf(lines) == [k \in DOMAIN lines |-> Encoded(lines[k])]

(* The first bytes of the output, however many there are.                  *)
BinPrefix(bin, ws) ==
    /\ bin \in Seq(Byte) /\ Len(bin) <= 4 * Len(ws)
    /\ \A i \in 1 .. Len(bin) : bin[i] = BytesOf(ws)[i]

(* The .bin is what asm put out for the source it was last opened for, or  *)
(* the beginning of that.                                                  *)
BinOK ==
    /\ built \in Seq(SourceLine) /\ \A k \in 1 .. Len(built) : Accepted(built[k])
    /\ bin_file = NoBin \/ BinPrefix(bin_file, WordsOf(built))
    /\ whole => bin_file # NoBin /\ Len(bin_file) = 4 * Len(built)
    /\ phase = "write" => instrs = WordsOf(built) /\ ~ whole

(* What the processes know of themselves.                                  *)
ProcessOK ==
    /\ running => phase = "run"
    /\ phase = "run" => /\ bin_file # NoBin
                        /\ counter <= state.cycle_count /\ state.cycle_count <= MaxCycle
    /\ DOMAIN snap_file = 0 .. MaxCycle - 1
    /\ faults \in Nat

(* The memory at the i-th call of the sink; before the first one there is  *)
(* the loaded program.                                                     *)
MemAt(i) == IF i = 0 THEN Loaded ELSE snaps[i].mem

(* The sink has been called once in each interval that is over, and the    *)
(* engine's log leads back to its last call.                               *)
SinkOK ==
    phase = "run" =>
        /\ snaps \in Seq([mem : Memory, ok : BOOLEAN]) /\ counter = Len(snaps)
        /\ state.snap_interval > 0 =>
              /\ state.snap_timer \in 1 .. state.snap_interval
              /\ counter * state.snap_interval + (state.snap_interval - state.snap_timer)
                    = state.cycle_count
        /\ LeadsBack(deltas, mem, MemAt(counter))

(* The process has been at one point for each cycle, and is at the last.   *)
PointsOK ==
    phase = "run" =>
        /\ points \in Seq(Point) /\ Len(points) = state.cycle_count + 1
        /\ points[Len(points)] = Here

(* The cycle of the i-th call of the sink.                                 *)
CycleOf(i) == i * state.snap_interval

(* A written file holds the cycle and the log of its call, and shows the   *)
(* point in front of the pass of that cycle.                               *)
FileOK(i) ==
    /\ snap_file[i - 1].cycle_count = CycleOf(i)
    /\ LeadsBack(snap_file[i - 1].deltas, snaps[i].mem, MemAt(i - 1))
    /\ CycleOf(i) \in 1 .. Len(points) - 1
    /\ Shows(snap_file[i - 1], points[CycleOf(i)])
    /\ snaps[i].mem = points[CycleOf(i)].mem

FilesOK == phase = "run" => \A i \in 1 .. counter : snaps[i].ok => FileOK(i)

(* A run of program p on the inputs ins: a sequence of points, each with   *)
(* the number of words read before it.                                     *)
Stage == [at : Point, reads : Nat]

After(q, ins) ==
    IF Reads(q.at) THEN [at |-> Exec(q.at, ins[q.reads + 1]), reads |-> q.reads + 1]
    ELSE [at |-> Exec(q.at, 0), reads |-> q.reads]

InputRun(p, ins, run) ==
    /\ run \in Seq(Stage) /\ Len(run) >= 1
    /\ run[1] = [at |-> Booted(p), reads |-> 0]
    /\ \A i \in 1 .. Len(run) - 1 : run[i + 1] = After(run[i], ins)
    /\ \A i \in 1 .. Len(run) : run[i].reads <= Len(ins)
    /\ run[Len(run)].reads = Len(ins)
    /\ \A i \in 1 .. Len(run) - 2 : Stays(run[i].at)

(* The last pass, if there is one, did not return from run().              *)
GoesOn(run) == Len(run) = 1 \/ Stays(run[Len(run) - 1].at)

(* The points of a run.                                                    *)
PointsOf(run, pts) ==
    /\ pts \in Seq(Point) /\ Len(pts) = Len(run)
    /\ \A i \in 1 .. Len(run) : pts[i] = run[i].at

(* The current process has gone through the points of such a run ...       *)
RunOK ==
    phase = "run" =>
        /\ inputs \in Seq(Word)
        /\ \E run : /\ InputRun(bin_file, inputs, run) /\ PointsOf(run, points)
                    /\ run[Len(run)].at = Here
                    /\ running <=> GoesOn(run)

(* ... and so had the last `run` when it ended.                            *)
RanOK ==
    ran # Nobody =>
        /\ ran.inputs \in Seq(Word)
        /\ \E run : /\ InputRun(ran.bin, ran.inputs, run) /\ PointsOf(run, ran.points)
                    /\ ~ GoesOn(run)

ToolInv ==
    /\ TTypeOK /\ BinOK /\ ProcessOK
    /\ SinkOK /\ PointsOK /\ FilesOK
    /\ RunOK /\ RanOK

-----------------------------------------------------------------------------
(* The instruction codec.                                                  *)

(* The opcode is in the last byte: without it a word is a HALT.            *)
LEMMA NoLastByte ==
    ASSUME NEW b0 \in Byte, NEW b1 \in Byte, NEW b2 \in Byte
    PROVE  decode_op(FromBytes(b0, b1, b2, 0)) = OP_HALT
<1> DEFINE B == ByteBase
           w == FromBytes(b0, b1, b2, 0)
           n == MEM_SIZE * NREGS * NREGS
<1>0. /\ B \in Nat /\ B >= 2 /\ b0 \in Nat /\ b1 \in Nat /\ b2 \in Nat
      /\ b0 < B /\ b1 < B /\ b2 < B
  BY MachineAssumption DEF Byte
<1>1. w = b0 + B * (b1 + B * b2)
  BY <1>0 DEF FromBytes
<1>2. n \in Nat /\ n >= 1 /\ B * B * B <= n
  BY Sizes, ToolchainAssumption
<1> HIDE DEF B, w, n
<1>3. b2 * B + b1 \in Nat /\ b2 * B + b1 < B * B /\ B * B \in Nat
  BY <1>0, PairBound
<1>4. (b2 * B + b1) * B + b0 \in Nat /\ (b2 * B + b1) * B + b0 < (B * B) * B
  BY <1>0, <1>3, PairBound
<1>5. w = (b2 * B + b1) * B + b0 /\ (B * B) * B = B * B * B
  BY <1>0, <1>1
<1>6. w \in Nat /\ w < n
  <2> DEFINE x == B * B * B
  <2>1. x \in Nat /\ w < x /\ x <= n /\ w \in Nat
    BY <1>0, <1>2, <1>3, <1>4, <1>5
  <2> HIDE DEF x
  <2> QED BY <1>2, <2>1
<1>7. w \div n = 0
  BY <1>2, <1>6
<1>8. 0 % OP_SPACE = 0
  BY MachineAssumption
<1> QED
  BY <1>7, <1>8 DEF decode_op, w, n, OP_HALT

-----------------------------------------------------------------------------
(* Lines of a source.                                                      *)

(* The opcode table.                                                       *)
LEMMA OpcodeTable ==
    /\ DOMAIN kOpcodes = Mnemonics
    /\ kOpcodes["HALT"] = 0 /\ kOpcodes["LOAD"] = 1 /\ kOpcodes["STORE"] = 2
    /\ kOpcodes["ADD"] = 3 /\ kOpcodes["SUB"] = 4 /\ kOpcodes["MUL"] = 5
    /\ kOpcodes["DIV"] = 6 /\ kOpcodes["JUMP"] = 7 /\ kOpcodes["JNZ"] = 8
    /\ kOpcodes["IN"] = 9 /\ kOpcodes["RAND"] = 10 /\ kOpcodes["LI"] = 11
BY Opcodes DEF kOpcodes, Mnemonics

(* No two mnemonics have the same opcode, and every opcode has a field.    *)
LEMMA OpcodesDiffer ==
    /\ \A m \in Mnemonics : kOpcodes[m] \in 0 .. OP_SPACE - 1
    /\ \A m, n \in Mnemonics : kOpcodes[m] = kOpcodes[n] => m = n
<1>1. \A m \in Mnemonics : kOpcodes[m] \in 0 .. 11
  BY OpcodeTable DEF Mnemonics
<1>2. OP_SPACE \in Nat /\ 12 <= OP_SPACE
  BY LayoutAssumption, MachineAssumption, Opcodes
<1>3. \A m \in Mnemonics : kOpcodes[m] \in 0 .. OP_SPACE - 1
  BY <1>1, <1>2
<1>4. \A m, n \in Mnemonics : kOpcodes[m] = kOpcodes[n] => m = n
  BY OpcodeTable DEF Mnemonics
<1> QED
  BY <1>3, <1>4

(* What the assembler accepts has its fields in range.                     *)
LEMMA AcceptedFields ==
    ASSUME NEW line, Accepted(line)
    PROVE  /\ line.op \in Mnemonics /\ kOpcodes[line.op] \in 0 .. OP_SPACE - 1
           /\ DstOf(line) \in Reg /\ SrcOf(line) \in Reg /\ ImmOf(line) \in Addr
<1>1. line.op \in Mnemonics /\ kOpcodes[line.op] \in 0 .. OP_SPACE - 1
  BY OpcodeTable, OpcodesDiffer DEF Accepted
<1>2. DstOf(line) # ERROR /\ SrcOf(line) # ERROR /\ ImmOf(line) # ERROR
  BY DEF Accepted
<1>3. 0 \in Reg /\ 0 \in Addr
  BY MachineAssumption DEF Reg, Addr
<1>4. DstOf(line) \in Reg /\ SrcOf(line) \in Reg
  BY <1>2, <1>3 DEF DstOf, SrcOf, parse_reg
<1>5. ImmOf(line) \in Addr
  BY <1>2, <1>3 DEF ImmOf, parse_imm
<1> QED
  BY <1>1, <1>4, <1>5

(* Its instruction is a word with these fields.                            *)
LEMMA EncodedFields ==
    ASSUME NEW line, Accepted(line)
    PROVE  /\ Encoded(line) \in Word
           /\ decode_op(Encoded(line)) = kOpcodes[line.op]
           /\ decode_dst(Encoded(line)) = DstOf(line)
           /\ decode_src(Encoded(line)) = SrcOf(line)
           /\ decode_imm(Encoded(line)) = ImmOf(line)
BY AcceptedFields, CodecInverse DEF Encoded

(* A register operand that is accepted is shown as the register it names;  *)
(* an immediate is shown as it was written, in brackets or without.        *)
LEMMA OperandsShown ==
    ASSUME NEW tok \in Token
    PROVE  /\ parse_reg(tok) # ERROR => SameOperand(RegTok(parse_reg(tok)), tok)
           /\ parse_imm(tok) # ERROR => /\ SameOperand(NumTok(parse_imm(tok)), tok)
                                        /\ SameOperand(Bracket(parse_imm(tok)), tok)
           /\ SameOperand(Missing, tok)
<1>1. tok = token(tok.kind, tok.n) /\ (tok.kind = "rword" => tok = RWord)
  <2>1. CASE tok \in [kind : {"reg", "num", "bracket"}, n : Int]
    BY <2>1 DEF token
  <2>2. CASE tok \in {Missing, RWord, BareR, Junk}
    BY <2>2 DEF token, Missing, RWord, BareR, Junk
  <2> QED BY <2>1, <2>2 DEF Token
<1>2. ASSUME parse_reg(tok) # ERROR PROVE SameOperand(RegTok(parse_reg(tok)), tok)
  <2>1. CASE tok.kind = "reg" /\ tok.n \in Reg
    BY <1>1, <2>1 DEF parse_reg, SameOperand, RegTok
  <2>2. CASE tok.kind = "rword"
    BY <1>1, <2>2 DEF parse_reg, SameOperand
  <2> QED BY <1>2, <2>1, <2>2 DEF parse_reg
<1>3. ASSUME parse_imm(tok) # ERROR
      PROVE  SameOperand(NumTok(parse_imm(tok)), tok) /\ SameOperand(Bracket(parse_imm(tok)), tok)
  BY <1>1, <1>3 DEF parse_imm, SameOperand, NumTok, Bracket, token
<1> QED
  BY <1>2, <1>3 DEF SameOperand

(* The disassembler finds the mnemonic of an opcode of the table.          *)
LEMMA MnemonicOf ==
    ASSUME NEW m \in Mnemonics
    PROVE  Mnemonic(kOpcodes[m]) = m
<1> DEFINE found == CHOOSE n \in Mnemonics : kOpcodes[n] = kOpcodes[m]
<1>1. found \in Mnemonics /\ kOpcodes[found] = kOpcodes[m]
  OBVIOUS
<1>2. found = m
  BY <1>1, OpcodesDiffer
<1>3. Mnemonic(kOpcodes[m]) = found
  BY OpcodeTable DEF Mnemonic
<1> QED
  BY <1>2, <1>3

(* Wherever the instruction of an accepted line is in memory, the          *)
(* disassembler shows that line.                                           *)
LEMMA EncodedShown ==
    ASSUME NEW line, line.a \in Token, line.b \in Token, Accepted(line), NEW m, NEW pc,
           mem_load_u32(m, pc) = Encoded(line)
    PROVE  SameLine(disassemble_one(m, pc), line)
<1> DEFINE w == Encoded(line)
           D == RegTok(DstOf(line))
           S == RegTok(SrcOf(line))
           I == NumTok(ImmOf(line))
           K == Bracket(ImmOf(line))
<1>1. line.op \in Mnemonics /\ line.a \in Token /\ line.b \in Token
  BY AcceptedFields
<1>2. /\ decode_dst(w) = DstOf(line) /\ decode_src(w) = SrcOf(line)
      /\ decode_imm(w) = ImmOf(line) /\ Mnemonic(decode_op(w)) = line.op
  BY <1>1, EncodedFields, MnemonicOf
<1>3. disassemble_one(m, pc) =
        CASE line.op \in TakesTwoRegs -> asm(line.op, D, S)
          [] line.op \in {"LOAD", "STORE"} -> asm(line.op, D, K)
          [] line.op \in {"JNZ", "LI"} -> asm(line.op, D, I)
          [] line.op \in {"IN", "RAND"} -> asm(line.op, D, Missing)
          [] line.op = "JUMP" -> asm(line.op, I, Missing)
          [] OTHER -> asm(line.op, Missing, Missing)
  BY <1>2, Zenon DEF disassemble_one
<1>4. DstOf(line) # ERROR /\ SrcOf(line) # ERROR /\ ImmOf(line) # ERROR
  BY DEF Accepted
<1>5. SameOperand(Missing, line.a) /\ SameOperand(Missing, line.b)
  BY <1>1, OperandsShown
<1>6. ASSUME NEW a, NEW b, SameOperand(a, line.a), SameOperand(b, line.b),
             disassemble_one(m, pc) = asm(line.op, a, b)
      PROVE  SameLine(disassemble_one(m, pc), line)
  BY <1>6 DEF SameLine, asm
<1>7. line.op \in TakesReg => SameOperand(D, line.a)
  BY <1>1, <1>4, OperandsShown DEF DstOf
<1>8. line.op \in TakesTwoRegs => SameOperand(S, line.b)
  BY <1>1, <1>4, OperandsShown DEF SrcOf
<1>9. line.op = "JUMP" => SameOperand(I, line.a)
  BY <1>1, <1>4, OperandsShown DEF ImmOf
<1>10. line.op \in TakesRegImm => SameOperand(I, line.b) /\ SameOperand(K, line.b)
  BY <1>1, <1>4, OperandsShown DEF ImmOf, TakesRegImm
<1> HIDE DEF D, S, I, K, w
<1>11. CASE line.op \in TakesTwoRegs
  <2>1. disassemble_one(m, pc) = asm(line.op, D, S)
    BY <1>3, <1>11 DEF TakesTwoRegs
  <2> QED BY <1>6, <1>7, <1>8, <1>11, <2>1 DEF TakesTwoRegs, TakesReg, Mnemonics
<1>12. CASE line.op \in {"LOAD", "STORE"}
  <2>1. disassemble_one(m, pc) = asm(line.op, D, K)
    BY <1>3, <1>12 DEF TakesTwoRegs
  <2> QED BY <1>6, <1>7, <1>10, <1>12, <2>1 DEF TakesRegImm, TakesReg, Mnemonics
<1>13. CASE line.op \in {"JNZ", "LI"}
  <2>1. disassemble_one(m, pc) = asm(line.op, D, I)
    BY <1>3, <1>13 DEF TakesTwoRegs
  <2> QED BY <1>6, <1>7, <1>10, <1>13, <2>1 DEF TakesRegImm, TakesReg, Mnemonics
<1>14. CASE line.op \in {"IN", "RAND"}
  <2>1. disassemble_one(m, pc) = asm(line.op, D, Missing)
    BY <1>3, <1>14 DEF TakesTwoRegs
  <2> QED BY <1>5, <1>6, <1>7, <1>14, <2>1 DEF TakesReg, Mnemonics
<1>15. CASE line.op = "JUMP"
  <2>1. disassemble_one(m, pc) = asm(line.op, I, Missing)
    BY <1>3, <1>15 DEF TakesTwoRegs
  <2> QED BY <1>5, <1>6, <1>9, <1>15, <2>1
<1>16. CASE line.op = "HALT"
  <2>1. disassemble_one(m, pc) = asm(line.op, Missing, Missing)
    BY <1>3, <1>16 DEF TakesTwoRegs
  <2> QED BY <1>5, <1>6, <1>16, <2>1
<1> QED
  BY <1>1, <1>11, <1>12, <1>13, <1>14, <1>15, <1>16 DEF Mnemonics, TakesTwoRegs

-----------------------------------------------------------------------------
(* The .bin file and what is loaded from it.                               *)

(* The loader puts a prefix of the output into a cleared memory: a word    *)
(* all of whose bytes are there is loaded as it was written, any other one *)
(* has lost its last byte and is a HALT.                                   *)
LEMMA LoadedWord ==
    ASSUME NEW ws \in Seq(Word), 4 * Len(ws) <= MEM_SIZE, NEW bin, BinPrefix(bin, ws),
           NEW k \in 1 .. Len(ws)
    PROVE  LET w == mem_load_u32(load_program(ZeroMemory, bin), 4 * (k - 1))
           IN  /\ 4 * k <= Len(bin) => w = ws[k]
               /\ Len(bin) < 4 * k => decode_op(w) = OP_HALT
<1> DEFINE m == load_program(ZeroMemory, bin)
           a == 4 * (k - 1)
           w == mem_load_u32(m, a)
<1>0. /\ MEM_SIZE \in Nat /\ Len(ws) \in Nat /\ Len(bin) \in Nat /\ k \in Nat /\ ws[k] \in Word
      /\ a \in Nat /\ a + 3 < MEM_SIZE
  BY MachineAssumption DEF BinPrefix
<1>1. ASSUME NEW x \in Nat, x < MEM_SIZE PROVE Mask(x) = x /\ x \in Addr
  BY <1>0, <1>1 DEF Mask, Addr
<1>2. w = FromBytes(m[a], m[a + 1], m[a + 2], m[a + 3])
  BY <1>0, <1>1 DEF mem_load_u32
<1>3. ASSUME NEW j \in 0 .. 3
      PROVE  /\ a + j < Len(bin) => m[a + j] = BytesOf(ws)[a + j + 1]
             /\ Len(bin) <= a + j => m[a + j] = 0
             /\ m[a + j] \in Byte
  <2>1. a + j \in Addr
    BY <1>0, <1>1
  <2>2. m[a + j] = IF a + j < Len(bin) THEN bin[a + j + 1] ELSE 0
    BY <2>1 DEF load_program, ZeroMemory
  <2>3. a + j < Len(bin) => a + j + 1 \in 1 .. Len(bin)
    BY <1>0
  <2>4. 0 \in Byte
    BY MachineAssumption DEF Byte
  <2> QED BY <2>2, <2>3, <2>4, <1>0 DEF BinPrefix
<1>4. /\ BytesOf(ws)[a + 1] = Byte0(ws[k]) /\ BytesOf(ws)[a + 2] = Byte1(ws[k])
      /\ BytesOf(ws)[a + 3] = Byte2(ws[k]) /\ BytesOf(ws)[a + 4] = Byte3(ws[k])
  BY BytesAt
<1> HIDE DEF m, w
<1>5. /\ m[a + 0] \in Byte /\ m[a + 1] \in Byte /\ m[a + 2] \in Byte
      /\ a + 0 = a
  BY <1>0, <1>3
<1>6. ASSUME 4 * k <= Len(bin) PROVE w = ws[k]
  <2>1. a + 0 < Len(bin) /\ a + 1 < Len(bin) /\ a + 2 < Len(bin) /\ a + 3 < Len(bin)
    BY <1>0, <1>6
  <2>2. /\ m[a + 0] = BytesOf(ws)[a + 0 + 1] /\ m[a + 1] = BytesOf(ws)[a + 1 + 1]
        /\ m[a + 2] = BytesOf(ws)[a + 2 + 1] /\ m[a + 3] = BytesOf(ws)[a + 3 + 1]
    BY <1>3, <2>1
  <2>3. a + 0 + 1 = a + 1 /\ a + 1 + 1 = a + 2 /\ a + 2 + 1 = a + 3 /\ a + 3 + 1 = a + 4
    BY <1>0
  <2>4. w = FromBytes(Byte0(ws[k]), Byte1(ws[k]), Byte2(ws[k]), Byte3(ws[k]))
    BY <1>2, <1>4, <1>5, <2>2, <2>3
  <2> QED BY <1>0, <2>4, JoinOfSplit
<1>7. ASSUME Len(bin) < 4 * k PROVE decode_op(w) = OP_HALT
  <2>1. m[a + 3] = 0
    BY <1>0, <1>3, <1>7
  <2> QED BY <1>2, <1>5, <2>1, NoLastByte
<1> QED
  BY <1>6, <1>7 DEF w, m

(* The words of a source, and the empty output.                            *)
LEMMA WordsType ==
    ASSUME NEW lines \in Seq(SourceLine), \A k \in 1 .. Len(lines) : Accepted(lines[k])
    PROVE  /\ WordsOf(lines) \in Seq(Word) /\ Len(WordsOf(lines)) = Len(lines)
           /\ \A k \in 1 .. Len(lines) : WordsOf(lines)[k] = Encoded(lines[k])
           /\ BinPrefix(<< >>, WordsOf(lines))
<1>1. DOMAIN lines = 1 .. Len(lines) /\ Len(lines) \in Nat
  OBVIOUS
<1>2. \A k \in 1 .. Len(lines) : Encoded(lines[k]) \in Word
  BY EncodedFields
<1>3. WordsOf(lines) \in [1 .. Len(lines) -> Word]
  BY <1>1, <1>2 DEF WordsOf
<1>4. WordsOf(lines) \in Seq(Word) /\ Len(WordsOf(lines)) = Len(lines)
  BY <1>1, <1>3
<1>5. << >> \in Seq(Byte) /\ Len(<< >>) = 0
  OBVIOUS
<1> QED
  BY <1>1, <1>4, <1>5 DEF WordsOf, BinPrefix

(* What a write leaves, completed or not, is a beginning of the output.    *)
LEMMA WrittenPrefix ==
    ASSUME NEW ws \in Seq(Word), NEW bin
    PROVE  /\ bin = BytesOf(ws) => BinPrefix(bin, ws) /\ Len(bin) = 4 * Len(ws)
           /\ bin \in Prefixes(BytesOf(ws)) => BinPrefix(bin, ws)
<1> DEFINE b == BytesOf(ws)
<1>1. b \in Seq(Byte) /\ Len(b) = 4 * Len(ws) /\ Len(b) \in Nat
  BY BytesAt
<1>2. ASSUME NEW n \in 0 .. Len(b), bin = SubSeq(b, 1, n) PROVE BinPrefix(bin, ws)
  <2> HIDE DEF b
  <2>1. bin \in Seq(Byte) /\ Len(bin) = n /\ \A i \in 1 .. n : bin[i] = b[i]
    BY <1>1, <1>2
  <2>2. Len(bin) <= 4 * Len(ws)
    BY <1>1, <2>1
  <2> QED BY <2>1, <2>2 DEF BinPrefix, b
<1> QED
  BY <1>1, <1>2 DEF Prefixes, BinPrefix

(* A .bin is not the mark of a missing one.                                *)
LEMMA BinExists ==
    ASSUME NEW bin \in Seq(Byte)
    PROVE  bin # NoBin /\ load_program(ZeroMemory, bin) \in Memory
<1>1. ASSUME bin = NoBin PROVE FALSE
  <2>1. Len(bin) = 1 /\ bin[1] = -1
    BY <1>1 DEF NoBin
  <2>2. bin[1] \in Byte
    BY <2>1, ElementOfSeq
  <2> QED BY <2>1, <2>2 DEF Byte
<1>2. ASSUME NEW a \in Addr
      PROVE  (IF a < Len(bin) THEN bin[a + 1] ELSE ZeroMemory[a]) \in Byte
  <2>1. a \in Nat /\ Len(bin) \in Nat
    BY DEF Addr
  <2>2. CASE a < Len(bin)
    <3>1. a + 1 \in 1 .. Len(bin)
      BY <2>1, <2>2
    <3> QED BY <2>2, <3>1, ElementOfSeq
  <2>3. CASE ~ (a < Len(bin))
    BY <2>3, MachineAssumption DEF ZeroMemory, Byte
  <2> QED BY <2>2, <2>3
<1> QED
  BY <1>1, <1>2 DEF load_program, Memory

-----------------------------------------------------------------------------
(* The steps around a run.                                                 *)

(* A step after which no run is in progress.                               *)
LEMMA NotRunning ==
    ASSUME ToolInv, phase' # "run", running' = FALSE, ran' = ran,
           DOMAIN snap_file' = DOMAIN snap_file, faults' \in Nat
    PROVE  ProcessOK' /\ SinkOK' /\ PointsOK' /\ FilesOK' /\ RunOK' /\ RanOK'
BY DEF ToolInv, ProcessOK, SinkOK, PointsOK, FilesOK, RunOK, RanOK

(* A step that leaves the .bin and asm alone.                              *)
LEMMA BinUntouched ==
    ASSUME ToolInv, phase' # "write",
           built' = built, whole' = whole, bin_file' = bin_file
    PROVE  BinOK'
BY DEF ToolInv, BinOK

(* A command that has run nothing is not running.                          *)
LEMMA IdleFacts ==
    ASSUME ToolInv
    PROVE  /\ phase # "run" => running = FALSE
           /\ TypeOK /\ faults \in Nat /\ faults + 1 \in Nat
           /\ built \in Seq(SourceLine) /\ WordsOf(built) \in Seq(Word)
           /\ Len(WordsOf(built)) = Len(built)
<1>1. TypeOK /\ faults \in Nat /\ built \in Seq(SourceLine)
      /\ \A k \in 1 .. Len(built) : Accepted(built[k])
  BY DEF ToolInv, TTypeOK, ProcessOK, BinOK
<1>2. phase # "run" => running = FALSE
  BY <1>1 DEF ToolInv, ProcessOK, TypeOK
<1> QED
  BY <1>1, <1>2, WordsType

(* asm, up to the output.                                                  *)
LEMMA AssembleInv ==
    ASSUME ToolInv, THAssemble
    PROVE  ToolInv'
<1>0. TTypeOK /\ TypeOK /\ faults \in Nat
  BY IdleFacts DEF ToolInv, TTypeOK
<1>1. /\ UNCHANGED vmVars /\ counter' = counter /\ snap_file' = snap_file
      /\ cmd' = "asm" /\ phase = "exited" /\ ran' = ran /\ faults' \in Nat
      /\ phase' \in {"write", "exited"} /\ exit_code' \in {exit_code, 1}
  BY <1>0 DEF THAssemble, asm_opens, asm_rejects, asm_cannot_open, AsmFrame, Starts, Exited,
     Exit, Fault
<1>2. TypeOK'
  BY <1>0, <1>1 DEF TypeOK, vmVars
<1>3. running' = FALSE /\ phase' # "run"
  <2>1. running = FALSE
    BY <1>1, IdleFacts
  <2> QED BY <1>1, <2>1 DEF vmVars
<1>4. ProcessOK' /\ SinkOK' /\ PointsOK' /\ FilesOK' /\ RunOK' /\ RanOK'
  BY <1>1, <1>3, NotRunning
<1>5. CASE \E s \in Sources : asm_opens(s) /\ built' = Code(s) /\ whole' = FALSE
  <2> PICK s \in Sources : asm_opens(s) /\ built' = Code(s) /\ whole' = FALSE
    BY <1>5
  <2>1. built' \in Seq(SourceLine) /\ \A k \in 1 .. Len(built') : Accepted(built'[k])
    <3>1. Code(s) \in Seq(SourceLine)
      BY ToolchainAssumption
    <3>2. DOMAIN Code(s) = 1 .. Len(Code(s))
      BY <3>1
    <3> QED BY <3>1, <3>2 DEF asm_opens, Assembles
  <2>2. instrs' = WordsOf(built') /\ bin_file' = << >> /\ phase' = "write"
    BY DEF asm_opens, out_instrs, WordsOf
  <2>3. WordsOf(built') \in Seq(Word) /\ BinPrefix(<< >>, WordsOf(built'))
    BY <2>1, WordsType
  <2>4. << >> \in Seq(Byte)
    OBVIOUS
  <2>5. TTypeOK'
    BY <1>0, <1>1, <1>2, <2>2, <2>3, <2>4, Zenon DEF TTypeOK
  <2>6. BinOK'
    BY <2>1, <2>2, <2>3 DEF BinOK
  <2> QED BY <1>4, <2>5, <2>6 DEF ToolInv
<1>6. CASE /\ \/ asm_cannot_open
              \/ \E s \in Sources : asm_rejects(s)
           /\ UNCHANGED << built, whole >>
  <2>1. instrs' = instrs /\ bin_file' = bin_file /\ phase' = "exited"
    BY <1>6 DEF asm_cannot_open, asm_rejects, Exit
  <2>2. TTypeOK'
    BY <1>0, <1>1, <1>2, <2>1, Zenon DEF TTypeOK
  <2>3. BinOK'
    BY <1>6, <2>1, BinUntouched
  <2> QED BY <1>4, <2>2, <2>3 DEF ToolInv
<1> QED
  BY <1>5, <1>6 DEF THAssemble

(* The output.                                                             *)
LEMMA WriteInv ==
    ASSUME ToolInv, THWrite
    PROVE  ToolInv'
<1>0. TTypeOK /\ TypeOK /\ faults \in Nat
  BY IdleFacts DEF ToolInv, TTypeOK
<1> DEFINE ws == WordsOf(built)
<1>1. /\ UNCHANGED vmVars /\ counter' = counter /\ snap_file' = snap_file
      /\ cmd' = cmd /\ instrs' = instrs /\ phase = "write" /\ ran' = ran /\ faults' \in Nat
      /\ phase' = "exited" /\ exit_code' = 0 /\ built' = built
  BY <1>0 DEF THWrite, WriteBin, WriteBinFails, AsmFrame, Exit, Fault
<1>2. TypeOK'
  BY <1>0, <1>1 DEF TypeOK, vmVars
<1>3. running' = FALSE
  <2>1. running = FALSE
    BY <1>1, IdleFacts
  <2> QED BY <1>1, <2>1 DEF vmVars
<1>4. ProcessOK' /\ SinkOK' /\ PointsOK' /\ FilesOK' /\ RunOK' /\ RanOK'
  BY <1>1, <1>3, NotRunning
<1>5. instrs = ws /\ ~ whole
  BY <1>1 DEF ToolInv, BinOK
<1>6. ws \in Seq(Word) /\ Len(ws) = Len(built)
  BY IdleFacts
<1> HIDE DEF ws
<1>7. /\ BinPrefix(bin_file', ws)
      /\ whole' => Len(bin_file') = 4 * Len(ws)
  <2>1. CASE WriteBin
    BY <1>5, <1>6, <2>1, WrittenPrefix DEF WriteBin
  <2>2. CASE WriteBinFails /\ UNCHANGED whole
    BY <1>5, <1>6, <2>2, WrittenPrefix DEF WriteBinFails
  <2> QED BY <2>1, <2>2 DEF THWrite
<1>8. bin_file' \in Seq(Byte) /\ bin_file' # NoBin
  BY <1>7, BinExists DEF BinPrefix
<1>9. TTypeOK'
  BY <1>0, <1>1, <1>2, <1>8, Zenon DEF TTypeOK
<1>10. BinOK'
  BY <1>1, <1>6, <1>7, <1>8 DEF BinOK, ToolInv, ws
<1> QED
  BY <1>4, <1>9, <1>10 DEF ToolInv

(* Killed while it writes, runs or does neither.                           *)
LEMMA KillInv ==
    ASSUME ToolInv, THKill
    PROVE  ToolInv'
<1>0. TTypeOK /\ TypeOK /\ faults \in Nat
  BY IdleFacts DEF ToolInv, TTypeOK
<1> DEFINE ws == WordsOf(built)
<1>1. /\ state' = PowerOn /\ mem' = ZeroMemory /\ deltas' = << >> /\ snap_sink' = FALSE
      /\ running' = FALSE /\ dispatch_mode' = dispatch_mode /\ counter' = counter
      /\ cmd' = "none" /\ instrs' = << >> /\ phase' = "exited" /\ exit_code' = KILLED
      /\ built' = built /\ whole' = whole /\ ran' = ran /\ faults' \in Nat
  BY <1>0 DEF THKill, Kill, Exit, Fault
<1>2. DOMAIN snap_file' = DOMAIN snap_file
  <2>1. snap_file' = snap_file \/ snap_file' = [snap_file EXCEPT ![counter] = TornSnap]
    BY DEF THKill, Kill
  <2> QED BY <2>1
<1>3. ProcessOK' /\ SinkOK' /\ PointsOK' /\ FilesOK' /\ RunOK' /\ RanOK'
  BY <1>1, <1>2, NotRunning
<1>4. TypeOK'
  <2>1. PowerOn \in VMState /\ << >> \in Seq(MemDelta)
    BY PowerOnType
  <2>2. ZeroMemory \in Memory
    BY MachineAssumption DEF ZeroMemory, Memory, Byte
  <2> QED BY <1>0, <1>1, <2>1, <2>2 DEF TypeOK
<1>5. << >> \in Seq(Word)
  OBVIOUS
<1>6. ws \in Seq(Word) /\ Len(ws) = Len(built)
  BY IdleFacts
<1> HIDE DEF ws
<1>7. CASE phase = "write"
  <2>1. instrs = ws /\ ~ whole
    BY <1>7 DEF ToolInv, BinOK, ws
  <2>2. BinPrefix(bin_file', ws)
    BY <1>6, <1>7, <2>1, WrittenPrefix DEF THKill, Kill
  <2>3. bin_file' \in Seq(Byte)
    BY <2>2 DEF BinPrefix
  <2>4. BinOK'
    BY <1>1, <2>1, <2>2 DEF BinOK, ToolInv, ws
  <2>5. TTypeOK'
    BY <1>0, <1>1, <1>4, <1>5, <2>3, Zenon DEF TTypeOK
  <2> QED BY <1>3, <2>4, <2>5 DEF ToolInv
<1>8. CASE phase # "write"
  <2>1. bin_file' = bin_file
    BY <1>8 DEF THKill, Kill
  <2>2. BinOK'
    BY <1>1, <2>1, BinUntouched
  <2>3. TTypeOK'
    BY <1>0, <1>1, <1>4, <1>5, <2>1, Zenon DEF TTypeOK
  <2> QED BY <1>3, <2>2, <2>3 DEF ToolInv
<1> QED
  BY <1>7, <1>8

(* A run of no pass.                                                       *)
LEMMA RunStart ==
    ASSUME NEW bin \in Seq(Byte)
    PROVE  LET run == << [at |-> Booted(bin), reads |-> 0] >>
           IN  InputRun(bin, << >>, run) /\ run[Len(run)].at = Booted(bin) /\ GoesOn(run)
<1> DEFINE q == [at |-> Booted(bin), reads |-> 0]
           run == << q >>
<1>1. Booted(bin) \in Point
  <2>1. PowerOn \in VMState /\ load_program(ZeroMemory, bin) \in Memory
    BY PowerOnType, BinExists
  <2>2. PowerOn \in CoreState
    BY <2>1 DEF CoreState, VMState, PowerOn
  <2> QED BY <2>1, <2>2 DEF Booted, Point
<1>2. q \in Stage /\ q.at = Booted(bin) /\ q.reads = 0
  BY <1>1 DEF Stage
<1> HIDE DEF q
<1>3. run \in Seq(Stage) /\ Len(run) = 1 /\ run[1] = q /\ Len(<< >>) = 0
  BY <1>2
<1> HIDE DEF run
<1>4. InputRun(bin, << >>, run)
  BY <1>2, <1>3 DEF InputRun, q
<1> QED
  BY <1>2, <1>3, <1>4 DEF GoesOn, run, q

(* Where a process boots.                                                  *)
LEMMA BootedHere ==
    ASSUME NEW n \in Word, NEW bin,
           state' = [PowerOn EXCEPT !.snap_interval = n, !.snap_timer = n],
           mem' = load_program(ZeroMemory, bin)
    PROVE  /\ Here' = Booted(bin) /\ state' \in VMState
           /\ state'.cycle_count = 0 /\ state'.snap_interval = n /\ state'.snap_timer = n
<1>1. PowerOn \in VMState /\ PowerOn.snap_interval = 0 /\ PowerOn.snap_timer = 0
      /\ PowerOn.cycle_count = 0
  BY PowerOnType DEF PowerOn
<1>2. /\ state' \in VMState
      /\ state'.cycle_count = 0 /\ state'.snap_interval = n /\ state'.snap_timer = n
  BY <1>1 DEF VMState
<1>3. [state' EXCEPT !.snap_interval = 0, !.snap_timer = 0] = PowerOn
  <2> DEFINE s == [PowerOn EXCEPT !.snap_interval = n, !.snap_timer = n]
  <2>1. [s EXCEPT !.snap_interval = 0, !.snap_timer = 0] = PowerOn
    BY <1>1 DEF VMState
  <2> HIDE DEF s
  <2>2. state' = s
    BY DEF s
  <2> QED BY <2>1, <2>2
<1> QED
  BY <1>2, <1>3 DEF Here, Booted

(* run and snapshot start, or refuse to.                                   *)
LEMMA BootInv ==
    ASSUME ToolInv, THBoot
    PROVE  ToolInv'
<1>0. TTypeOK /\ TypeOK /\ faults \in Nat /\ MaxCycle \in Nat
  BY IdleFacts, VMAssumption DEF ToolInv, TTypeOK
<1>1. /\ built' = built /\ whole' = whole /\ ran' = ran /\ inputs' = << >> /\ snaps' = << >>
      /\ points' = << Here' >>
  BY DEF THBoot
<1>2. ASSUME NEW c \in {"run", "snapshot"}, Refuse(c)
      PROVE  ToolInv'
  <2>1. /\ UNCHANGED vmVars /\ counter' = counter /\ snap_file' = snap_file
        /\ bin_file' = bin_file /\ instrs' = instrs /\ faults' = faults
        /\ cmd' = c /\ phase = "exited" /\ phase' = "exited" /\ exit_code' = 1
    BY <1>2 DEF Refuse, Starts, Exited, Exit, fileVars
  <2>2. TypeOK'
    BY <1>0, <2>1 DEF TypeOK, vmVars
  <2>3. running' = FALSE
    <3>1. running = FALSE
      BY <2>1, IdleFacts
    <3> QED BY <2>1, <3>1 DEF vmVars
  <2>4. ProcessOK' /\ SinkOK' /\ PointsOK' /\ FilesOK' /\ RunOK' /\ RanOK'
    BY <1>0, <1>1, <2>1, <2>3, NotRunning
  <2>5. BinOK'
    BY <1>1, <2>1, BinUntouched
  <2>6. TTypeOK'
    BY <1>0, <2>1, <2>2, Zenon DEF TTypeOK
  <2> QED BY <2>4, <2>5, <2>6 DEF ToolInv
<1>3. ASSUME NEW c \in {"run", "snapshot"}, NEW n \in Word, Boot(c, n)
      PROVE  ToolInv'
  <2>1. /\ counter' = 0 /\ snap_file' = snap_file
        /\ bin_file # NoBin /\ bin_file' = bin_file /\ instrs' = instrs /\ faults' = faults
        /\ cmd' = c /\ phase' = "run" /\ exit_code' = exit_code
        /\ state' = [PowerOn EXCEPT !.snap_interval = n, !.snap_timer = n]
        /\ mem' = load_program(ZeroMemory, bin_file) /\ deltas' = << >>
        /\ snap_sink' = (c = "snapshot") /\ dispatch_mode' = "ComputedGoto"
        /\ running' = TRUE
    BY <1>3 DEF Boot, fileVars
  <2>2. bin_file \in Seq(Byte)
    BY <1>0, <2>1 DEF TTypeOK
  <2>3. mem' \in Memory
    BY <2>1, <2>2, BinExists
  <2>4. /\ Here' = Booted(bin_file) /\ state' \in VMState
        /\ state'.cycle_count = 0 /\ state'.snap_interval = n /\ state'.snap_timer = n
    BY <2>1, BootedHere
  <2>5. TypeOK'
    <3>1. << >> \in Seq(MemDelta)
      OBVIOUS
    <3>2. snap_sink' \in BOOLEAN
      BY <2>1
    <3> QED BY <2>1, <2>3, <2>4, <3>1, <3>2 DEF TypeOK, DispatchModes
  <2>6. TTypeOK'
    <3>1. counter' \in 0 .. MaxCycle
      BY <1>0, <2>1
    <3> QED BY <1>0, <2>1, <2>5, <3>1, Zenon DEF TTypeOK
  <2>7. BinOK'
    BY <1>1, <2>1, BinUntouched
  <2>8. ProcessOK'
    BY <1>0, <2>1, <2>4 DEF ProcessOK, ToolInv
  <2>9. SinkOK'
    <3>1. snaps' \in Seq([mem : Memory, ok : BOOLEAN]) /\ counter' = Len(snaps')
      BY <1>1, <2>1
    <3>2. n \in Nat
      BY Sizes DEF Word
    <3>3. n > 0 => n \in 1 .. n /\ 0 * n + (n - n) = 0
      BY <3>2
    <3>4. MemAt(counter)' = mem'
      BY <2>1 DEF MemAt, Loaded
    <3>5. LeadsBack(deltas', mem', MemAt(counter)')
      BY <2>1, <2>3, <3>4, EmptyLeadsBack
    <3> QED BY <2>1, <2>4, <3>1, <3>3, <3>5 DEF SinkOK
  <2>10. FilesOK'
    BY <2>1 DEF FilesOK
  <2>11. RunOK'
    <3>1. inputs' \in Seq(Word)
      BY <1>1
    <3> DEFINE run == << [at |-> Booted(bin_file), reads |-> 0] >>
    <3>2. InputRun(bin_file, << >>, run) /\ run[Len(run)].at = Booted(bin_file) /\ GoesOn(run)
      BY <2>2, RunStart
    <3> HIDE DEF run
    <3>3. /\ InputRun(bin_file', inputs', run) /\ PointsOf(run, points')
          /\ run[Len(run)].at = Here' /\ (running' <=> GoesOn(run))
      <4>1. points' = << Booted(bin_file) >> /\ Len(run) = 1 /\ Booted(bin_file) \in Point
        BY <1>1, <2>4, <2>5, HereNext DEF run
      <4>2. PointsOf(run, points')
        BY <3>2, <4>1 DEF PointsOf
      <4> QED BY <1>1, <2>1, <2>4, <3>2, <4>2
    <3> QED BY <3>1, <3>3 DEF RunOK
  <2>12. RanOK'
    BY <1>1 DEF RanOK, ToolInv
  <2>13. PointsOK'
    <3>1. Here' \in Point
      BY <2>5, HereNext
    <3>2. points' \in Seq(Point) /\ Len(points') = 0 + 1 /\ points'[1] = Here'
      BY <1>1, <3>1
    <3> QED BY <2>4, <3>2 DEF PointsOK
  <2> QED BY <2>6, <2>7, <2>8, <2>9, <2>10, <2>11, <2>12, <2>13 DEF ToolInv
<1>4. 0 \in Word /\ Intervals \subseteq Word
  BY VMAssumption, Sizes DEF Word
<1> QED
  BY <1>2, <1>3, <1>4 DEF THBoot, cmd_run, cmd_snapshot

(* The end of a run.                                                       *)
LEMMA EndInv ==
    ASSUME ToolInv, THEnd
    PROVE  ToolInv'
<1>0. TTypeOK /\ TypeOK /\ faults \in Nat
  BY IdleFacts DEF ToolInv, TTypeOK
<1>1. /\ UNCHANGED vmVars /\ counter' = counter /\ snap_file' = snap_file
      /\ bin_file' = bin_file /\ instrs' = instrs /\ faults' = faults /\ cmd' = cmd
      /\ phase = "run" /\ ~ running /\ phase' = "exited" /\ exit_code' \in {0, 2}
      /\ built' = built /\ whole' = whole
      /\ ran' = IF cmd = "run" THEN [bin |-> bin_file, inputs |-> inputs, points |-> points]
                ELSE ran
  BY DEF THEnd, EndRun, Exit, fileVars
<1>2. TypeOK' /\ running' = FALSE
  BY <1>0, <1>1 DEF TypeOK, vmVars
<1>3. TTypeOK'
  BY <1>0, <1>1, <1>2, Zenon DEF TTypeOK
<1>4. BinOK'
  BY <1>1, BinUntouched
<1>5. ProcessOK' /\ SinkOK' /\ PointsOK' /\ FilesOK' /\ RunOK'
  BY <1>0, <1>1, <1>2 DEF ToolInv, ProcessOK, SinkOK, PointsOK, FilesOK, RunOK
<1>6. RanOK'
  <2>1. CASE cmd = "run"
    <3>1. /\ ran'.bin = bin_file /\ ran'.inputs = inputs /\ ran'.points = points
      BY <1>1, <2>1
    <3>2. PICK run : /\ InputRun(bin_file, inputs, run) /\ PointsOf(run, points)
                     /\ (running <=> GoesOn(run))
      BY <1>1 DEF ToolInv, RunOK
    <3>3. /\ InputRun(ran'.bin, ran'.inputs, run) /\ PointsOf(run, ran'.points)
          /\ ~ GoesOn(run) /\ ran'.inputs \in Seq(Word)
      BY <1>1, <3>1, <3>2 DEF ToolInv, RunOK
    <3> QED BY <3>3 DEF RanOK
  <2>2. CASE cmd # "run"
    BY <1>1, <2>2 DEF ToolInv, RanOK
  <2> QED BY <2>1, <2>2
<1> QED
  BY <1>3, <1>4, <1>5, <1>6 DEF ToolInv

(* The beginning.                                                          *)
LEMMA InitToolInv == THInit => ToolInv
<1> SUFFICES ASSUME THInit PROVE ToolInv
  OBVIOUS
<1>1. TypeOK
  <2>1. PowerOn \in VMState /\ << >> \in Seq(MemDelta)
    BY PowerOnType
  <2>2. ZeroMemory \in Memory
    BY MachineAssumption DEF ZeroMemory, Memory, Byte
  <2> QED BY <2>1, <2>2 DEF THInit, TInit, TypeOK, DispatchModes
<1>2. TTypeOK
  <2>1. << >> \in Seq(Word) /\ 0 \in 0 .. MaxCycle
    BY VMAssumption
  <2> QED BY <1>1, <2>1 DEF THInit, TInit, TTypeOK
<1>3. BinOK
  <2>1. << >> \in Seq(SourceLine) /\ Len(<< >>) = 0
    OBVIOUS
  <2> QED BY <2>1 DEF THInit, TInit, BinOK
<1>4. ProcessOK /\ SinkOK /\ PointsOK /\ FilesOK /\ RunOK /\ RanOK
  BY DEF THInit, TInit, ProcessOK, SinkOK, PointsOK, FilesOK, RunOK, RanOK
<1> QED
  BY <1>2, <1>3, <1>4 DEF ToolInv

-----------------------------------------------------------------------------
(* A pass of the engine.                                                   *)

(* The pass reads nothing, or the word v that its hook answers.            *)
PlainStep ==
    /\ ~ Reads(Here) /\ Here' = Exec(Here, 0)
    /\ inputs' = inputs /\ (running' <=> Stays(Here))

ReadsStep(v) ==
    /\ Reads(Here) /\ Here' = Exec(Here, v)
    /\ inputs' = Append(inputs, v) /\ running' /\ Stays(Here)

LEMMA PassSteps ==
    ASSUME TypeOK, THPass
    PROVE  /\ AnyPass /\ running /\ state.cycle_count < MaxCycle
           /\ PlainStep \/ \E v \in Word : ReadsStep(v)
<1>0. Executes /\ Op(Here) = decode_op(Instr)
  BY HereInstr DEF THPass, PlainPass, SinkPass
<1>1. inputs' = IF Reads(Here) THEN Append(inputs, state'.regs[dst]) ELSE inputs
  BY <1>0 DEF THPass, Reads
<1>2. CASE Deterministic
  <2>1. /\ Here' = Exec(Here, 0) /\ ~ Reads(Here)
        /\ running /\ (running' <=> Stays(Here))
    BY <1>2, DeterministicExec
  <2>2. state.cycle_count < MaxCycle
    BY <1>2 DEF Deterministic, DoHALT, DoLOAD, DoSTORE, DoALU, DoDIV, DoDivZero,
       DoJUMP, DoJNZ, DoLI, DoUnknown, Dispatches, CanFetch
  <2> QED BY <1>1, <1>2, <2>1, <2>2 DEF PlainStep, AnyPass
<1>3. ASSUME NEW op \in {OP_IN, OP_RAND}, NEW v \in Inputs, DoNondet(op, v)
      PROVE  /\ AnyPass /\ running /\ state.cycle_count < MaxCycle
             /\ \E u \in Word : ReadsStep(u)
  <2>1. v \in Word /\ v # NoHook
    BY VMAssumption
  <2>2. Here' = Exec(Here, v) /\ Reads(Here) /\ running /\ running' /\ Stays(Here)
    BY <1>3, <2>1, NondetExec
  <2>3. state'.regs[dst] = v
    <3>1. Ticked.regs \in [Reg -> Word] /\ Ticked \in VMState /\ dst \in Reg
      BY PassTypes DEF VMState
    <3>2. state' = [Ticked EXCEPT !.regs[dst] = v]
      BY <1>3, <2>1 DEF DoNondet, Retire
    <3> QED BY <3>1, <3>2 DEF VMState
  <2>4. state.cycle_count < MaxCycle
    BY <1>3 DEF DoNondet, Dispatches, CanFetch
  <2>5. AnyPass
    BY <1>3, <2>1 DEF AnyPass
  <2> QED BY <1>1, <2>1, <2>2, <2>3, <2>4, <2>5 DEF ReadsStep
<1> QED
  BY <1>0, <1>2, <1>3 DEF Executes

(* What a pass does besides.                                               *)
LEMMA PassFrame ==
    ASSUME ToolInv, THPass
    PROVE  /\ TTypeOK /\ TypeOK /\ TypeOK' /\ running /\ phase = "run" /\ phase' = "run"
           /\ state.cycle_count \in Nat /\ state'.cycle_count = state.cycle_count + 1
           /\ state.cycle_count < MaxCycle /\ MaxCycle \in Nat
           /\ cmd' = cmd /\ exit_code' = exit_code /\ instrs' = instrs /\ bin_file' = bin_file
           /\ built' = built /\ whole' = whole /\ ran' = ran
           /\ counter \in Nat /\ counter' = IF SnapFires THEN counter + 1 ELSE counter
           /\ counter <= state.cycle_count /\ DOMAIN snap_file = 0 .. MaxCycle - 1
           /\ faults \in Nat /\ faults' \in {faults, faults + 1}
<1>1. TTypeOK /\ TypeOK /\ MaxCycle \in Nat /\ faults \in Nat
      /\ DOMAIN snap_file = 0 .. MaxCycle - 1
  BY VMAssumption DEF ToolInv, TTypeOK, ProcessOK
<1>2. AnyPass /\ running /\ state.cycle_count < MaxCycle
  BY <1>1, PassSteps
<1>3. TypeOK' /\ state'.cycle_count = state.cycle_count + 1 /\ state.cycle_count \in Nat
  BY <1>1, <1>2, PassType, PassCounters DEF TypeOK, VMState
<1>4. phase = "run" /\ counter <= state.cycle_count /\ counter \in Nat
  BY <1>1, <1>2 DEF ToolInv, ProcessOK, TTypeOK
<1>5. /\ cmd' = cmd /\ exit_code' = exit_code /\ instrs' = instrs /\ bin_file' = bin_file
      /\ phase' = phase /\ built' = built /\ whole' = whole /\ ran' = ran
      /\ counter' = IF SnapFires THEN counter + 1 ELSE counter
      /\ faults' \in {faults, faults + 1}
  BY DEF THPass, PlainPass, SinkPass, RunFrame, Fault
<1> QED
  BY <1>1, <1>2, <1>3, <1>4, <1>5

LEMMA PassShape ==
    ASSUME ToolInv, THPass
    PROVE  TTypeOK' /\ BinOK' /\ ProcessOK' /\ RanOK'
<1> USE PassFrame
<1>1. counter' \in 0 .. MaxCycle /\ counter' <= state'.cycle_count
      /\ state'.cycle_count <= MaxCycle
  OBVIOUS
<1>2. TTypeOK'
  BY <1>1, Zenon DEF TTypeOK
<1>3. BinOK'
  BY BinUntouched
<1>4. DOMAIN snap_file' = DOMAIN snap_file
  <2>1. \/ snap_file' = snap_file
        \/ \E x : snap_file' = [snap_file EXCEPT ![counter] = x]
    BY DEF THPass, PlainPass, SinkPass
  <2> QED BY <2>1
<1>5. bin_file' # NoBin /\ faults' \in Nat
  BY DEF ToolInv, ProcessOK
<1>6. ProcessOK'
  BY <1>1, <1>4, <1>5 DEF ProcessOK
<1>7. RanOK'
  BY DEF ToolInv, RanOK
<1> QED
  BY <1>2, <1>3, <1>6, <1>7

(* The timer: the sink is called at the multiples of the interval.         *)
LEMMA PassTimer ==
    ASSUME ToolInv, THPass
    PROVE  /\ state'.snap_interval = state.snap_interval /\ state.snap_interval \in Nat
           /\ SnapFires => state.cycle_count + 1 = (counter + 1) * state.snap_interval
           /\ state'.snap_interval > 0 =>
                /\ state'.snap_timer \in 1 .. state'.snap_interval
                /\ counter' * state'.snap_interval
                      + (state'.snap_interval - state'.snap_timer) = state'.cycle_count
<1> DEFINE si == state.snap_interval
           ti == state.snap_timer
           cy == state.cycle_count
           done == counter * si
<1>1. TypeOK /\ AnyPass
  BY PassFrame, PassSteps
<1>2. si \in Nat /\ ti \in Nat /\ si < WORD_MOD /\ ti < WORD_MOD /\ WORD_MOD \in Nat
      /\ cy \in Nat /\ counter \in Nat
  <2>1. counter \in Nat
    BY PassFrame
  <2> QED BY <1>1, <2>1, Sizes DEF TypeOK, VMState, Word
<1>3. Fetched.snap_timer = IF si > 0 THEN (ti - 1) % WORD_MOD ELSE ti
  BY <1>1 DEF Fetched, TypeOK, VMState
<1>4. Ticked.snap_timer = IF SnapFires THEN si ELSE Fetched.snap_timer
  <2>1. Fetched \in VMState
    BY <1>1, PassTypes
  <2> QED BY <2>1 DEF Ticked, VMState
<1>5. /\ state'.cycle_count = cy + 1
      /\ state'.snap_interval = si
      /\ state'.snap_timer = Ticked.snap_timer
      /\ counter' = IF SnapFires THEN counter + 1 ELSE counter
  BY <1>1, PassCounters, PassFrame
<1>6. si > 0 => ti \in 1 .. si /\ done + (si - ti) = cy
  BY PassFrame DEF ToolInv, SinkOK
<1>7. si > 0 => (ti - 1) % WORD_MOD = ti - 1
  <2>1. ASSUME NEW x \in Nat, NEW n \in Nat, x < n
        PROVE  x % n = x
    BY <2>1
  <2> QED BY <2>1, <1>2, <1>6
<1>8. SnapFires <=> si > 0 /\ Fetched.snap_timer = 0
  BY DEF SnapFires
<1>9. done \in Nat /\ (counter + 1) * si = done + si
  BY <1>2
<1> HIDE DEF si, ti, cy, done
<1>10. CASE SnapFires
  <2>1. si > 0 /\ ti = 1
    BY <1>2, <1>3, <1>6, <1>7, <1>8, <1>10
  <2>2. cy + 1 = (counter + 1) * si
    BY <1>2, <1>6, <1>9, <2>1
  <2>3. state'.snap_timer = si /\ counter' = counter + 1
    BY <1>4, <1>5, <1>10
  <2>4. si \in 1 .. si /\ si - si = 0
    BY <1>2, <2>1
  <2>5. counter' * si + (si - si) = cy + 1
    BY <1>2, <2>2, <2>3, <2>4
  <2> QED BY <1>2, <1>5, <2>2, <2>3, <2>4, <2>5 DEF si, cy
<1>11. CASE ~ SnapFires /\ si > 0
  <2>1. state'.snap_timer = ti - 1 /\ ti - 1 # 0 /\ counter' = counter
    BY <1>3, <1>4, <1>5, <1>7, <1>8, <1>11
  <2>2. ti - 1 \in 1 .. si /\ done + (si - (ti - 1)) = cy + 1
    BY <1>2, <1>6, <1>9, <1>11, <2>1
  <2> QED BY <1>2, <1>5, <1>11, <2>1, <2>2 DEF si, cy, done
<1>12. CASE ~ SnapFires /\ ~ (si > 0)
  BY <1>2, <1>5, <1>12 DEF si
<1> QED
  BY <1>10, <1>11, <1>12

(* The history of the sink after a pass.                                   *)
LEMMA PassSnaps ==
    ASSUME ToolInv, THPass
    PROVE  /\ snaps \in Seq([mem : Memory, ok : BOOLEAN]) /\ counter = Len(snaps)
           /\ counter \in Nat
           /\ snaps' \in Seq([mem : Memory, ok : BOOLEAN]) /\ counter' = Len(snaps')
           /\ \A i \in 1 .. counter : snaps'[i] = snaps[i]
           /\ \A i \in 0 .. counter : MemAt(i)' = MemAt(i)
           /\ SnapFires => /\ counter' = counter + 1
                           /\ snaps'[counter + 1].mem = mem
                           /\ snaps'[counter + 1].ok => faults' = faults
                           /\ MemAt(counter)' = mem
           /\ ~ SnapFires => counter' = counter /\ snaps' = snaps
<1> DEFINE S == [mem : Memory, ok : BOOLEAN]
           new == [mem |-> mem, ok |-> faults' = faults]
<1>1. /\ snaps \in Seq(S) /\ counter = Len(snaps) /\ counter \in Nat /\ mem \in Memory
      /\ bin_file' = bin_file
  BY PassFrame DEF ToolInv, SinkOK, TypeOK
<1>2. new \in S /\ new.mem = mem /\ (new.ok => faults' = faults)
  BY <1>1
<1>3. snaps' = IF SnapFires THEN Append(snaps, new) ELSE snaps
  BY DEF THPass
<1>4. counter' = IF SnapFires THEN counter + 1 ELSE counter
  BY PassFrame
<1> HIDE DEF S, new
<1>5. /\ snaps' \in Seq(S) /\ counter' = Len(snaps')
      /\ \A i \in 1 .. counter : snaps'[i] = snaps[i]
      /\ SnapFires => snaps'[counter + 1] = new
  BY <1>1, <1>2, <1>3, <1>4, Appended
<1>6. ASSUME NEW i \in 0 .. counter PROVE MemAt(i)' = MemAt(i)
  <2>1. Loaded' = Loaded
    BY <1>1 DEF Loaded
  <2>2. i # 0 => i \in 1 .. counter
    BY <1>1
  <2> QED BY <1>5, <2>1, <2>2 DEF MemAt
<1>7. SnapFires => MemAt(counter)' = mem
  <2>1. SnapFires => counter' = counter + 1 /\ counter' # 0 /\ snaps'[counter'].mem = mem
    BY <1>1, <1>2, <1>4, <1>5
  <2> QED BY <2>1 DEF MemAt
<1> QED
  BY <1>1, <1>2, <1>3, <1>4, <1>5, <1>6, <1>7 DEF S

(* The engine's log.                                                       *)
LEMMA PassSink ==
    ASSUME ToolInv, THPass
    PROVE  SinkOK'
<1>1. TypeOK /\ AnyPass /\ mem \in Memory /\ phase = "run" /\ phase' = "run"
  BY PassFrame, PassSteps DEF TypeOK
<1> DEFINE base == MemAt(counter)'
<1>2. base = IF SnapFires THEN mem ELSE MemAt(counter)
  <2>1. ~ SnapFires => counter' = counter /\ snaps' = snaps /\ bin_file' = bin_file
    BY PassSnaps, PassFrame
  <2>2. ~ SnapFires => MemAt(counter)' = MemAt(counter)
    BY <2>1 DEF MemAt, Loaded
  <2> QED BY <2>2, PassSnaps
<1>3. LeadsBack(Log, mem, base)
  <2>1. LeadsBack(deltas, mem, MemAt(counter))
    BY <1>1 DEF ToolInv, SinkOK
  <2> QED BY <1>1, <1>2, <2>1, EmptyLeadsBack DEF Log
<1>4. Log \in Seq(MemDelta) /\ imm \in Addr /\ state.regs[dst] \in Word
  BY <1>1, PassTypes DEF TypeOK, VMState
<1> HIDE DEF base
<1>5. LeadsBack(deltas', mem', base)
  <2>1. CASE mem' = mem /\ deltas' = Log
    BY <2>1, <1>3
  <2>2. CASE /\ mem' = mem_store_u32(mem, imm, state.regs[dst])
             /\ deltas' = LogStore(Log, mem, imm)
    BY <2>2, <1>1, <1>3, <1>4, StoreLeadsBack
  <2> QED BY <2>1, <2>2, <1>1, PassMemory
<1>6. LeadsBack(deltas, mem, MemAt(counter))'
  BY <1>5 DEF base
<1>7. (snaps \in Seq([mem : Memory, ok : BOOLEAN]) /\ counter = Len(snaps))'
  BY PassSnaps
<1> QED
  BY <1>6, <1>7, PassTimer DEF SinkOK

(* The points.                                                             *)
LEMMA PassPoints ==
    ASSUME ToolInv, THPass
    PROVE  /\ PointsOK' /\ points' = Append(points, Here')
           /\ points \in Seq(Point) /\ Len(points) \in Nat /\ Len(points') = Len(points) + 1
           /\ Len(points) = state.cycle_count + 1 /\ points[Len(points)] = Here
           /\ \A c \in 1 .. Len(points) : points'[c] = points[c]
<1>1. points' = Append(points, Here') /\ Here' \in Point
  BY PassFrame, HereNext DEF THPass
<1>2. /\ points \in Seq(Point) /\ Len(points) = state.cycle_count + 1
      /\ points[Len(points)] = Here /\ Len(points) \in Nat
  BY PassFrame DEF ToolInv, PointsOK
<1>3. /\ points' \in Seq(Point) /\ Len(points') = Len(points) + 1
      /\ points'[Len(points) + 1] = Here'
      /\ \A c \in 1 .. Len(points) : points'[c] = points[c]
  BY <1>1, <1>2, Appended
<1>4. Len(points') = state'.cycle_count + 1 /\ points'[Len(points')] = Here'
  BY <1>2, <1>3, PassFrame
<1> QED
  BY <1>1, <1>2, <1>3, <1>4 DEF PointsOK

(* What the sink writes is of the point the pass starts from.              *)
LEMMA SinkShows ==
    ASSUME TypeOK
    PROVE  Shows(SnapFile(Fired), Here)
<1>1. /\ SnapFile(Fired).regs = Fetched.regs /\ SnapFile(Fired).sp = Fetched.sp
      /\ SnapFile(Fired).halted = Fetched.halted /\ SnapFile(Fired).pc = Fetched.pc
  BY DEF SnapFile, Fired, SnapshotOf
<1>2. Fetched.pc = (state.pc + 4) % WORD_MOD
  BY DEF Fetched, TypeOK, VMState
<1> QED
  BY <1>1, <1>2, TickedFields, HereFields DEF Shows

(* The files.                                                              *)
LEMMA PassFiles ==
    ASSUME ToolInv, THPass
    PROVE  FilesOK'
<1>1. /\ counter \in 0 .. MaxCycle - 1 /\ counter \in Nat /\ TypeOK
      /\ DOMAIN snap_file = 0 .. MaxCycle - 1 /\ phase = "run" /\ MaxCycle \in Nat
  BY PassFrame
<1>2. \A i : CycleOf(i)' = CycleOf(i)
  BY PassTimer DEF CycleOf
<1>3. \A i \in 1 .. counter : snap_file'[i - 1] = snap_file[i - 1]
  <2>1. \/ snap_file' = snap_file
        \/ \E x : snap_file' = [snap_file EXCEPT ![counter] = x]
    BY DEF THPass, PlainPass, SinkPass
  <2>2. \A i \in 1 .. counter : i - 1 # counter /\ i - 1 \in DOMAIN snap_file
    BY <1>1
  <2> QED BY <2>1, <2>2
<1>4. ASSUME NEW i \in 1 .. counter, snaps'[i].ok
      PROVE  FileOK(i)'
  <2>1. snaps'[i] = snaps[i] /\ MemAt(i - 1)' = MemAt(i - 1)
    <3>1. i - 1 \in 0 .. counter
      BY <1>1
    <3> QED BY <3>1, PassSnaps
  <2>2. FileOK(i)
    BY <1>1, <1>4, <2>1 DEF ToolInv, FilesOK
  <2>3. CycleOf(i)' = CycleOf(i) /\ CycleOf(i) \in 1 .. Len(points) - 1
    BY <1>2, <2>2 DEF FileOK
  <2> DEFINE c == CycleOf(i)
  <2>4. c' = c /\ c \in 1 .. Len(points') - 1 /\ points'[c] = points[c]
    <3> HIDE DEF c
    <3>1. c \in 1 .. Len(points) - 1
      BY <2>3 DEF c
    <3>2. c \in 1 .. Len(points) /\ c \in 1 .. Len(points') - 1
      BY <3>1, PassPoints
    <3>3. c' = c
      BY <2>3 DEF c
    <3> QED BY <3>2, <3>3, PassPoints
  <2>5. snap_file'[i - 1] = snap_file[i - 1]
    BY <1>3
  <2> QED BY <2>1, <2>2, <2>4, <2>5 DEF FileOK
<1>5. ASSUME SnapFires, snaps'[counter + 1].ok
      PROVE  /\ snap_file'[counter].cycle_count = CycleOf(counter + 1)
             /\ LeadsBack(snap_file'[counter].deltas, snaps'[counter + 1].mem,
                          MemAt(counter))
             /\ Shows(snap_file'[counter], Here)
             /\ snaps'[counter + 1].mem = Here.mem
             /\ CycleOf(counter + 1) = Len(points)
  <2>1. faults' = faults /\ snaps'[counter + 1].mem = mem /\ faults \in Nat
    BY <1>5, PassSnaps, PassFrame
  <2>2. snap_file' = [snap_file EXCEPT ![counter] = SnapFile(Fired)]
    BY <1>5, <2>1 DEF THPass, PlainPass, SinkPass, Fault
  <2>3. snap_file'[counter] = SnapFile(Fired)
    BY <1>1, <2>2
  <2>4. /\ SnapFile(Fired).cycle_count = Fetched.cycle_count
        /\ SnapFile(Fired).deltas = deltas
    BY DEF SnapFile, Fired, SnapshotOf
  <2>5. /\ Fetched.cycle_count = CycleOf(counter + 1)
        /\ CycleOf(counter + 1) = Len(points)
    BY <1>1, <1>5, PassTimer, PassPoints, TickedFields DEF CycleOf
  <2>6. LeadsBack(deltas, mem, MemAt(counter))
    BY <1>1 DEF ToolInv, SinkOK
  <2>7. Shows(SnapFile(Fired), Here) /\ Here.mem = mem
    BY <1>1, SinkShows, HereFields
  <2> QED BY <2>1, <2>3, <2>4, <2>5, <2>6, <2>7
<1>6. ASSUME NEW i \in 1 .. counter', snaps'[i].ok
      PROVE  FileOK(i)'
  <2>1. CASE i \in 1 .. counter
    BY <1>4, <1>6, <2>1
  <2>2. CASE i \notin 1 .. counter
    <3>1. SnapFires /\ i = counter + 1
      BY <1>1, <2>2, PassSnaps
    <3>2. i - 1 = counter /\ counter \in 0 .. counter
      BY <1>1, <3>1
    <3>3. MemAt(i - 1)' = MemAt(counter)
      <4>1. \A j \in 0 .. counter : MemAt(j)' = MemAt(j)
        BY PassSnaps
      <4> DEFINE c == counter
      <4> HIDE DEF c
      <4>2. i - 1 = c /\ i - 1 \in 0 .. counter
        BY <3>2 DEF c
      <4>3. MemAt(i - 1)' = MemAt(i - 1)
        BY <4>1, <4>2
      <4> QED BY <4>2, <4>3 DEF c
    <3>4. CycleOf(i)' = Len(points)
      BY <1>2, <1>5, <1>6, <3>1
    <3>5. Len(points) \in 1 .. Len(points') - 1 /\ points'[Len(points)] = Here
      <4>1. Len(points) \in Nat /\ Len(points) >= 1 /\ Len(points') = Len(points) + 1
        BY PassPoints, PassFrame
      <4>2. Len(points) \in 1 .. Len(points)
        BY <4>1
      <4> QED BY <4>1, <4>2, PassPoints
    <3>6. snap_file'[i - 1].cycle_count = CycleOf(i)'
      BY <1>2, <1>5, <1>6, <3>1, <3>2
    <3>7. LeadsBack(snap_file'[i - 1].deltas, snaps'[i].mem, MemAt(i - 1)')
      BY <1>5, <1>6, <3>1, <3>2, <3>3
    <3>8. Shows(snap_file'[i - 1], Here) /\ snaps'[i].mem = Here.mem
      BY <1>5, <1>6, <3>1, <3>2
    <3> QED BY <3>4, <3>5, <3>6, <3>7, <3>8 DEF FileOK
  <2> QED BY <2>1, <2>2
<1> QED
  BY <1>6 DEF FilesOK

(* The points of a longer run.                                             *)
LEMMA PointsGrow ==
    ASSUME NEW run \in Seq(Stage), NEW pts, PointsOf(run, pts), NEW q \in Stage
    PROVE  PointsOf(Append(run, q), Append(pts, q.at))
<1>1. pts \in Seq(Point) /\ Len(pts) = Len(run) /\ q.at \in Point
      /\ \A i \in 1 .. Len(run) : pts[i] = run[i].at
  BY DEF PointsOf, Stage
<1> DEFINE r == Append(run, q)
           ps == Append(pts, q.at)
           l == Len(run)
<1>2. /\ r \in Seq(Stage) /\ Len(r) = l + 1 /\ r[l + 1] = q /\ l \in Nat
      /\ \A i \in 1 .. l : r[i] = run[i]
  BY Appended
<1>3. /\ ps \in Seq(Point) /\ Len(ps) = l + 1 /\ ps[l + 1] = q.at
      /\ \A i \in 1 .. l : ps[i] = pts[i]
  BY <1>1, Appended
<1> HIDE DEF r, ps, l
<1>4. \A i \in 1 .. l + 1 : i = l + 1 \/ i \in 1 .. l
  BY <1>2
<1>5. \A i \in 1 .. l + 1 : ps[i] = r[i].at
  BY <1>1, <1>2, <1>3, <1>4 DEF l
<1>6. PointsOf(r, ps)
  BY <1>2, <1>3, <1>5 DEF PointsOf
<1> QED
  BY <1>6 DEF r, ps

(* The words ins are the first ones of more.                               *)
Begins(ins, more) ==
    /\ ins \in Seq(Word) /\ more \in Seq(Word) /\ Len(ins) <= Len(more)
    /\ \A j \in 1 .. Len(ins) : more[j] = ins[j]

(* What a step of a run that reads no more than ins leaves is the same     *)
(* with more words to come.                                                *)
LEMMA SameWord ==
    ASSUME NEW ins, NEW more, Begins(ins, more), NEW q \in Stage,
           After(q, ins).reads <= Len(ins)
    PROVE  After(q, ins) = After(q, more)
<1>1. CASE Reads(q.at)
  <2>1. After(q, ins).reads = q.reads + 1 /\ q.reads \in Nat /\ Len(ins) \in Nat
    BY <1>1 DEF After, Stage, Begins
  <2>2. q.reads + 1 \in 1 .. Len(ins)
    BY <2>1
  <2> QED BY <1>1, <2>2 DEF After, Begins
<1>2. CASE ~ Reads(q.at)
  BY <1>2 DEF After
<1> QED
  BY <1>1, <1>2

(* A pass prolongs a run; more may have been read than before.             *)
LEMMA RunGrows ==
    ASSUME NEW p, NEW ins, NEW more, Begins(ins, more), NEW run, InputRun(p, ins, run), GoesOn(run),
           NEW q \in Stage, q = After(run[Len(run)], more), q.reads = Len(more)
    PROVE  LET r == Append(run, q)
           IN  /\ InputRun(p, more, r) /\ r[Len(r)] = q
               /\ GoesOn(r) <=> Stays(run[Len(run)].at)
<1> DEFINE l == Len(run)
           r == Append(run, q)
<1>1. run \in Seq(Stage) /\ l \in Nat /\ l >= 1 /\ Len(ins) \in Nat /\ Len(more) \in Nat
      /\ Len(ins) <= Len(more)
  BY DEF InputRun, Begins
<1>2. /\ r \in Seq(Stage) /\ Len(r) = l + 1 /\ r[l + 1] = q
      /\ \A i \in 1 .. l : r[i] = run[i]
  BY <1>1, Appended
<1> HIDE DEF r
<1>3. r[1] = [at |-> Booted(p), reads |-> 0]
  BY <1>1, <1>2 DEF InputRun
<1>4. ASSUME NEW i \in 1 .. l PROVE r[i + 1] = After(r[i], more)
  <2>1. CASE i = l
    BY <1>1, <1>2, <2>1
  <2>2. CASE i # l
    <3>1. i \in 1 .. l - 1 /\ i + 1 \in 1 .. l
      BY <1>1, <2>2
    <3>2. /\ run[i + 1] = After(run[i], ins) /\ run[i + 1].reads <= Len(ins)
          /\ run[i] \in Stage
      BY <1>1, <3>1 DEF InputRun
    <3>3. After(run[i], ins) = After(run[i], more)
      BY <3>2, SameWord
    <3> QED BY <1>2, <3>1, <3>2, <3>3
  <2> QED BY <2>1, <2>2
<1>5. \A i \in 1 .. l + 1 : r[i].reads <= Len(more)
  <2>1. ASSUME NEW i \in 1 .. l PROVE r[i].reads <= Len(more)
    <3>1. run[i].reads <= Len(ins) /\ run[i] \in Stage
      BY <1>1 DEF InputRun
    <3> QED BY <1>1, <1>2, <3>1 DEF Stage
  <2>2. \A i \in 1 .. l + 1 : i = l + 1 \/ i \in 1 .. l
    BY <1>1
  <2> QED BY <1>1, <1>2, <2>1, <2>2
<1>6. \A i \in 1 .. l - 1 : Stays(r[i].at)
  <2> TAKE i \in 1 .. l - 1
  <2>1. r[i] = run[i]
    BY <1>1, <1>2
  <2>2. i = l - 1 \/ i \in 1 .. l - 2
    BY <1>1
  <2> QED BY <1>1, <2>1, <2>2 DEF InputRun, GoesOn
<1>7. InputRun(p, more, r)
  <2>1. /\ Len(r) >= 1 /\ Len(r) - 1 = l /\ Len(r) - 2 = l - 1
        /\ r[Len(r)].reads = Len(more)
    BY <1>1, <1>2
  <2> QED BY <1>2, <1>3, <1>4, <1>5, <1>6, <2>1 DEF InputRun
<1>8. r[Len(r)] = q /\ (GoesOn(r) <=> Stays(run[l].at))
  <2>1. Len(r) # 1 /\ Len(r) - 1 = l /\ r[l] = run[l]
    BY <1>1, <1>2
  <2> QED BY <1>2, <2>1 DEF GoesOn
<1> QED
  BY <1>7, <1>8 DEF r

(* The process stays at the end of its run.                                *)
LEMMA PassRun ==
    ASSUME ToolInv, THPass
    PROVE  RunOK'
<1>0. TypeOK /\ TypeOK' /\ phase = "run" /\ running /\ bin_file' = bin_file
  BY PassFrame
<1>1. Here \in Point /\ Here' \in Point /\ inputs \in Seq(Word) /\ Len(inputs) \in Nat
  BY <1>0, HereFields, HereNext DEF ToolInv, RunOK
<1>2. PICK run : /\ InputRun(bin_file, inputs, run) /\ PointsOf(run, points)
                 /\ run[Len(run)].at = Here /\ GoesOn(run)
  BY <1>0 DEF ToolInv, RunOK
<1>3. run[Len(run)].reads = Len(inputs)
  BY <1>2 DEF InputRun
<1> DEFINE q == [at |-> Here', reads |-> Len(inputs')]
           r == Append(run, q)
<1>4. ASSUME q \in Stage PROVE PointsOf(r, points')
  <2>1. q.at = Here' /\ run \in Seq(Stage) /\ points' = Append(points, q.at)
    BY <1>2, PassPoints DEF InputRun
  <2> HIDE DEF q
  <2> QED BY <1>2, <1>4, <2>1, PointsGrow
<1>5. CASE PlainStep
  <2>1. ~ Reads(Here) /\ Here' = Exec(Here, 0) /\ inputs' = inputs /\ (running' <=> Stays(Here))
    BY <1>5 DEF PlainStep
  <2>2. /\ q \in Stage /\ q.reads = Len(inputs) /\ q.at = Here'
        /\ q = After(run[Len(run)], inputs)
    BY <1>1, <1>2, <1>3, <2>1 DEF Stage, After
  <2> HIDE DEF q
  <2>3. /\ InputRun(bin_file, inputs, r) /\ r[Len(r)] = q
        /\ GoesOn(r) <=> Stays(run[Len(run)].at)
    <3> DEFINE more == inputs
    <3>1. /\ Begins(inputs, more)
          /\ q.reads = Len(more) /\ q = After(run[Len(run)], more)
      BY <1>1, <2>2 DEF Begins
    <3> HIDE DEF more
    <3>2. /\ InputRun(bin_file, more, r) /\ r[Len(r)] = q
          /\ GoesOn(r) <=> Stays(run[Len(run)].at)
      BY <1>1, <1>2, <2>2, <3>1, RunGrows
    <3> QED BY <3>2 DEF more
  <2> HIDE DEF r
  <2>4. InputRun(bin_file', inputs', r) /\ r[Len(r)].at = Here' /\ (running' <=> GoesOn(r))
    BY <1>0, <1>2, <2>1, <2>2, <2>3
  <2>5. PointsOf(r, points')
    BY <1>4, <2>2
  <2> QED BY <1>1, <2>1, <2>4, <2>5 DEF RunOK
<1>6. ASSUME NEW v \in Word, ReadsStep(v) PROVE RunOK'
  <2>1. /\ Reads(Here) /\ Here' = Exec(Here, v) /\ inputs' = Append(inputs, v)
        /\ running' /\ Stays(Here)
    BY <1>6 DEF ReadsStep
  <2>2. /\ inputs' \in Seq(Word) /\ Len(inputs') = Len(inputs) + 1
        /\ \A j \in 1 .. Len(inputs) : inputs'[j] = inputs[j]
        /\ inputs'[Len(inputs) + 1] = v /\ Begins(inputs, inputs')
    BY <1>1, <2>1, Appended DEF Begins
  <2>3. /\ q \in Stage /\ q.reads = Len(inputs') /\ q.at = Here'
        /\ q = After(run[Len(run)], inputs')
    BY <1>1, <1>2, <1>3, <2>1, <2>2 DEF Stage, After
  <2> HIDE DEF q
  <2>4. /\ InputRun(bin_file, inputs', r) /\ r[Len(r)] = q
        /\ GoesOn(r) <=> Stays(run[Len(run)].at)
    BY <1>1, <1>2, <2>2, <2>3, RunGrows
  <2> HIDE DEF r
  <2>5. InputRun(bin_file', inputs', r) /\ r[Len(r)].at = Here' /\ (running' <=> GoesOn(r))
    BY <1>0, <1>2, <2>1, <2>3, <2>4
  <2>6. PointsOf(r, points')
    BY <1>4, <2>3
  <2> QED BY <2>2, <2>5, <2>6 DEF RunOK
<1> QED
  BY <1>0, <1>5, <1>6, PassSteps

-----------------------------------------------------------------------------
LEMMA StutterInv ==
    ASSUME ToolInv, UNCHANGED thvars
    PROVE  ToolInv'
<1>1. /\ UNCHANGED << state, mem, deltas, snap_sink, dispatch_mode, running >>
      /\ UNCHANGED << cmd, phase, exit_code, instrs, counter, faults, bin_file, snap_file >>
      /\ UNCHANGED << built, whole, inputs, points, snaps, ran >>
  BY DEF thvars, tvars, vmVars, toolVars, fileVars, ghosts
<1>2. TTypeOK'
  BY <1>1 DEF ToolInv, TTypeOK, TypeOK
<1>3. BinOK' /\ ProcessOK'
  BY <1>1 DEF ToolInv, BinOK, ProcessOK
<1>4. SinkOK' /\ PointsOK' /\ FilesOK'
  BY <1>1 DEF ToolInv, SinkOK, PointsOK, FilesOK, FileOK, CycleOf, MemAt, Loaded, Here
<1>5. RunOK' /\ RanOK'
  BY <1>1 DEF ToolInv, RunOK, RanOK, Here
<1> QED
  BY <1>2, <1>3, <1>4, <1>5 DEF ToolInv

LEMMA ToolInvariant == THSpec => []ToolInv
<1>1. THInit => ToolInv
  BY InitToolInv
<1>2. ToolInv /\ [THNext]_thvars => ToolInv'
  <2> SUFFICES ASSUME ToolInv, [THNext]_thvars PROVE ToolInv'
    OBVIOUS
  <2>1. CASE THAssemble
    BY <2>1, AssembleInv
  <2>2. CASE THWrite
    BY <2>2, WriteInv
  <2>3. CASE THBoot
    BY <2>3, BootInv
  <2>4. CASE THPass
    BY <2>4, PassShape, PassSink, PassPoints, PassFiles, PassRun DEF ToolInv
  <2>5. CASE THEnd
    BY <2>5, EndInv
  <2>6. CASE THKill
    BY <2>6, KillInv
  <2>7. CASE UNCHANGED thvars
    BY <2>7, StutterInv
  <2> QED BY <2>1, <2>2, <2>3, <2>4, <2>5, <2>6, <2>7 DEF THNext
<1> QED
  BY <1>1, <1>2, PTL DEF THSpec

-----------------------------------------------------------------------------
(* What the invariant says of the properties.                              *)

(* Two runs of one program, one of which has read no other words than the  *)
(* other, agree as far as both go.                                         *)
LEMMA RunsAgree ==
    ASSUME NEW p, NEW ins, NEW more, Begins(ins, more),
           NEW r1, NEW r2, InputRun(p, ins, r1), InputRun(p, more, r2),
           NEW k \in 1 .. Len(r1), k \in 1 .. Len(r2)
    PROVE  r1[k] = r2[k]
<1> DEFINE T == {i \in Nat : i \in 1 .. Len(r1) /\ i \in 1 .. Len(r2) /\ r1[i] # r2[i]}
<1>0. Len(r1) \in Nat /\ Len(r2) \in Nat /\ r1[1] = r2[1]
  BY DEF InputRun
<1>1. ASSUME T # {} PROVE FALSE
  <2>1. PICK x \in T : \A y \in T : x <= y
    <3>1. T \subseteq Nat
      OBVIOUS
    <3> HIDE DEF T
    <3> QED BY <1>1, <3>1, LeastElement
  <2>2. x \in Nat /\ x \in 1 .. Len(r1) /\ x \in 1 .. Len(r2) /\ r1[x] # r2[x]
    OBVIOUS
  <2>3. x # 1
    BY <1>0, <2>2
  <2> DEFINE i == x - 1
  <2>4. /\ i \in Nat /\ i \in 1 .. Len(r1) - 1 /\ i \in 1 .. Len(r2) - 1
        /\ i \in 1 .. Len(r1) /\ i \in 1 .. Len(r2) /\ i + 1 = x /\ ~ (x <= i)
        /\ i + 1 \in 1 .. Len(r1)
    BY <1>0, <2>2, <2>3
  <2>5. i \notin T
    BY <2>1, <2>4
  <2> HIDE DEF i
  <2>6. r1[i] = r2[i]
    BY <2>4, <2>5
  <2>7. /\ r1[i + 1] = After(r1[i], ins) /\ r2[i + 1] = After(r2[i], more)
        /\ r1[i + 1].reads <= Len(ins) /\ r1[i] \in Stage
    BY <2>4 DEF InputRun
  <2>8. After(r1[i], ins) = After(r1[i], more)
    BY <2>7, SameWord
  <2> QED BY <2>2, <2>4, <2>6, <2>7, <2>8
<1>2. k \in Nat
  OBVIOUS
<1> QED
  BY <1>1, <1>2

(* A run is no longer than one that came to its end.                       *)
LEMMA EndedIsLonger ==
    ASSUME NEW p, NEW ins, NEW more, Begins(ins, more),
           NEW r1, NEW r2, InputRun(p, ins, r1), InputRun(p, more, r2), ~ GoesOn(r2)
    PROVE  Len(r1) <= Len(r2)
<1> DEFINE n == Len(r1)
           m == Len(r2)
           l == m - 1
<1>1. m \in Nat /\ n \in Nat /\ m >= 1
  BY DEF InputRun
<1>2. ASSUME m < n PROVE FALSE
  <2>1. m # 1 /\ ~ Stays(r2[l].at)
    BY DEF GoesOn
  <2>2. l \in 1 .. m /\ l \in 1 .. n /\ l \in 1 .. n - 2
    <3> HIDE DEF m, n
    <3> QED BY <1>1, <1>2, <2>1
  <2> HIDE DEF l
  <2>3. r1[l] = r2[l]
    BY <2>2, RunsAgree
  <2>4. Stays(r1[l].at)
    BY <2>2 DEF InputRun
  <2> QED BY <2>1, <2>3, <2>4
<1> QED
  BY <1>1, <1>2

(* Two that came to their end are equally long, and end the same.          *)
LEMMA RunsEndAlike ==
    ASSUME NEW p, NEW ins \in Seq(Word), NEW r1, NEW r2,
           InputRun(p, ins, r1), InputRun(p, ins, r2), ~ GoesOn(r1), ~ GoesOn(r2)
    PROVE  r1[Len(r1)] = r2[Len(r2)]
<1>1. Begins(ins, ins)
  BY DEF Begins
<1>2. Len(r1) \in Nat /\ Len(r2) \in Nat /\ Len(r1) >= 1
  BY DEF InputRun
<1>3. Len(r1) <= Len(r2) /\ Len(r2) <= Len(r1)
  BY <1>1, EndedIsLonger
<1>4. Len(r1) = Len(r2) /\ Len(r1) \in 1 .. Len(r1) /\ Len(r1) \in 1 .. Len(r2)
  BY <1>2, <1>3
<1> QED
  BY <1>1, <1>4, RunsAgree

(* The loaded program, word by word.                                       *)
LEMMA LoadedLines ==
    ASSUME ToolInv, Fits, NEW k \in 1 .. Len(built)
    PROVE  LET w == mem_load_u32(Loaded, 4 * (k - 1))
           IN  /\ 4 * k <= Len(bin_file) => w = Encoded(built[k])
               /\ Len(bin_file) < 4 * k => decode_op(w) = OP_HALT
<1> DEFINE ws == WordsOf(built)
<1>1. /\ built \in Seq(SourceLine) /\ \A i \in 1 .. Len(built) : Accepted(built[i])
      /\ BinPrefix(bin_file, ws) /\ 4 * Len(built) <= MEM_SIZE
  BY DEF ToolInv, BinOK, Fits
<1>2. ws \in Seq(Word) /\ Len(ws) = Len(built) /\ ws[k] = Encoded(built[k])
  BY <1>1, WordsType
<1> HIDE DEF ws
<1>3. LET w == mem_load_u32(load_program(ZeroMemory, bin_file), 4 * (k - 1))
      IN  /\ 4 * k <= Len(bin_file) => w = ws[k]
          /\ Len(bin_file) < 4 * k => decode_op(w) = OP_HALT
  BY <1>1, <1>2, LoadedWord
<1> QED
  BY <1>2, <1>3 DEF Loaded

-----------------------------------------------------------------------------
(* The theorems.                                                           *)

(* Every line the assembler accepts, with any operands, is shown by the    *)
(* disassembler as it was written (assemble_file, load_program and         *)
(* disassemble_one).                                                       *)
THEOREM EveryLineShown ==
    ASSUME NEW op, NEW a \in Token, NEW b \in Token, Accepted(asm(op, a, b))
    PROVE  LET line == asm(op, a, b)
           IN  SameLine(disassemble_one(load_program(ZeroMemory, BytesOf(<< Encoded(line) >>)), 0),
                        line)
<1> DEFINE line == asm(op, a, b)
<1>0. line.a \in Token /\ line.b \in Token /\ Accepted(line)
  BY DEF asm
<1> HIDE DEF line
<1> DEFINE ws == << Encoded(line) >>
<1>1. ws \in Seq(Word) /\ Len(ws) = 1 /\ ws[1] = Encoded(line)
  BY <1>0, EncodedFields
<1>2. 4 * Len(ws) <= MEM_SIZE /\ 1 \in 1 .. Len(ws) /\ 4 * (1 - 1) = 0 /\ 4 * 1 = 4 * Len(ws)
  BY <1>1, MachineAssumption
<1> HIDE DEF ws
<1>3. BinPrefix(BytesOf(ws), ws) /\ Len(BytesOf(ws)) = 4 * Len(ws)
  BY <1>1, WrittenPrefix
<1>4. LET w == mem_load_u32(load_program(ZeroMemory, BytesOf(ws)), 4 * (1 - 1))
      IN  4 * 1 <= Len(BytesOf(ws)) => w = ws[1]
  BY <1>1, <1>2, <1>3, LoadedWord
<1>5. mem_load_u32(load_program(ZeroMemory, BytesOf(ws)), 0) = Encoded(line)
  BY <1>1, <1>2, <1>3, <1>4
<1> QED
  BY <1>0, <1>5, EncodedShown DEF ws, line

(* The lines the model checker tries are among them.                       *)
THEOREM NoLineIsMisread == THSpec => []NoLineMisread
<1>1. NREGS \in Int /\ MEM_SIZE \in Int /\ WORD_MOD \in Int
  BY MachineAssumption, Sizes
<1>2. ASSUME NEW x \in Operands PROVE x \in Token
  <2>1. CASE x \in {Missing, RWord, BareR, Junk}
    BY <2>1 DEF Token
  <2>2. CASE x = Bracket(4)
    BY <2>2 DEF Bracket, token, Token
  <2>3. CASE \E n \in {-1, 0, NREGS - 1, NREGS} : x = RegTok(n)
    BY <1>1, <2>3 DEF RegTok, token, Token
  <2>4. CASE \E n \in {0, MEM_SIZE - 1, MEM_SIZE, WORD_MOD - 1} : x = NumTok(n)
    BY <1>1, <2>4 DEF NumTok, token, Token
  <2> QED BY <2>1, <2>2, <2>3, <2>4 DEF Operands
<1>3. NoLineMisread
  BY <1>2, EveryLineShown DEF NoLineMisread, Lines
<1> QED
  BY <1>3, PTL

(* After an asm that wrote its whole output, the loaded program is shown   *)
(* as the source, line by line, whatever was rejected, refused or killed   *)
(* since.                                                                  *)
THEOREM AssembledAsWritten == THSpec => []AsmFaithful
<1>1. ASSUME ToolInv PROVE AsmFaithful
  <2> SUFFICES ASSUME whole, Fits
               PROVE  /\ Len(bin_file) = 4 * Len(built)
                      /\ \A k \in DOMAIN built :
                            SameLine(disassemble_one(Loaded, 4 * (k - 1)), built[k])
    BY DEF AsmFaithful
  <2>1. /\ Len(bin_file) = 4 * Len(built)
        /\ built \in Seq(SourceLine) /\ \A k \in 1 .. Len(built) : Accepted(built[k])
    BY <1>1 DEF ToolInv, BinOK
  <2>2. DOMAIN built = 1 .. Len(built) /\ Len(built) \in Nat
    BY <2>1
  <2>3. ASSUME NEW k \in 1 .. Len(built)
        PROVE  SameLine(disassemble_one(Loaded, 4 * (k - 1)), built[k])
    <3>1. 4 * k <= Len(bin_file)
      BY <2>1, <2>2
    <3>2. mem_load_u32(Loaded, 4 * (k - 1)) = Encoded(built[k])
      BY <1>1, <3>1, LoadedLines
    <3>3. built[k].a \in Token /\ built[k].b \in Token /\ Accepted(built[k])
      <4>1. built[k] \in SourceLine /\ Accepted(built[k])
        BY <2>1, ElementOfSeq
      <4> QED BY <4>1 DEF SourceLine
    <3> QED BY <3>2, <3>3, EncodedShown
  <2> QED BY <2>1, <2>2, <2>3
<1> QED
  BY <1>1, ToolInvariant, PTL

(* A .bin cut off at any byte holds the first instructions of its source   *)
(* and HALTs.                                                              *)
THEOREM TornProgramHalts == THSpec => []TornBinHalts
<1>1. ASSUME ToolInv PROVE TornBinHalts
  <2> SUFFICES ASSUME Fits, NEW k \in DOMAIN built
               PROVE  LET w == mem_load_u32(Loaded, 4 * (k - 1))
                      IN  w = Encoded(built[k]) \/ decode_op(w) = OP_HALT
    BY DEF TornBinHalts
  <2>1. built \in Seq(SourceLine) /\ (bin_file \in Seq(Byte))
    BY <1>1 DEF ToolInv, BinOK, BinPrefix, Fits
  <2>2. k \in 1 .. Len(built) /\ Len(bin_file) \in Nat /\ k \in Nat
    BY <2>1
  <2>3. 4 * k <= Len(bin_file) \/ Len(bin_file) < 4 * k
    BY <2>2
  <2> QED BY <1>1, <2>2, <2>3, LoadedLines
<1> QED
  BY <1>1, ToolInvariant, PTL

(* The .snap files that were written are a chain back to the loaded        *)
(* program, at the multiples of the interval, for every interval and every *)
(* choice of writes that fail (cmd_snapshot's sink, SNAP_CHECK).           *)
THEOREM SnapFilesChain == THSpec => []SnapChain
<1>1. ASSUME ToolInv PROVE SnapChain
  <2> SUFFICES ASSUME phase = "run"
               PROVE  /\ counter = Len(snaps)
                      /\ \A i \in 1 .. counter : snaps[i].ok =>
                            /\ snap_file[i - 1].cycle_count = i * state.snap_interval
                            /\ LeadsBack(snap_file[i - 1].deltas, snaps[i].mem,
                                         IF i = 1 THEN Loaded ELSE snaps[i - 1].mem)
    BY DEF SnapChain
  <2>1. counter = Len(snaps) /\ counter \in Nat
    BY <1>1 DEF ToolInv, SinkOK, TTypeOK
  <2>2. ASSUME NEW i \in 1 .. counter
        PROVE  MemAt(i - 1) = IF i = 1 THEN Loaded ELSE snaps[i - 1].mem
    <3>1. i - 1 = 0 <=> i = 1
      BY <2>1
    <3> QED BY <3>1 DEF MemAt
  <2> QED BY <1>1, <2>1, <2>2 DEF ToolInv, FilesOK, FileOK, CycleOf
<1> QED
  BY <1>1, ToolInvariant, PTL

(* Every .snap file of a snapshot shows the instant of a run of the same   *)
(* .bin in front of the instruction of its cycle, as long as the two have  *)
(* read the same words (the sink of cmd_snapshot, the register block).     *)
THEOREM SnapFilesShowRun == THSpec => []SnapShowsRun
<1>1. ASSUME ToolInv PROVE SnapShowsRun
  <2> SUFFICES ASSUME phase = "run", ran.bin = bin_file, inputs \in Prefixes(ran.inputs),
                      NEW i \in 1 .. counter, snaps[i].ok
               PROVE  /\ i * state.snap_interval < Len(ran.points)
                      /\ Shows(snap_file[i - 1], ran.points[i * state.snap_interval])
                      /\ snaps[i].mem = ran.points[i * state.snap_interval].mem
    BY DEF SnapShowsRun
  <2>1. ran # Nobody
    BY <1>1 DEF ToolInv, ProcessOK, Nobody
  <2>2. PICK r1 : InputRun(bin_file, inputs, r1) /\ PointsOf(r1, points)
    BY <1>1 DEF ToolInv, RunOK
  <2>3. PICK r2 : /\ InputRun(bin_file, ran.inputs, r2) /\ PointsOf(r2, ran.points)
                  /\ ~ GoesOn(r2)
    BY <1>1, <2>1 DEF ToolInv, RanOK
  <2>4. Begins(inputs, ran.inputs)
    <3>1. inputs \in Seq(Word) /\ ran.inputs \in Seq(Word)
      BY <1>1, <2>1 DEF ToolInv, RunOK, RanOK
    <3>2. PICK n \in 0 .. Len(ran.inputs) : inputs = SubSeq(ran.inputs, 1, n)
      BY DEF Prefixes
    <3>3. Len(inputs) = n /\ \A j \in 1 .. n : inputs[j] = ran.inputs[j]
      BY <3>1, <3>2
    <3> QED BY <3>1, <3>3 DEF Begins
  <2> DEFINE c == CycleOf(i)
  <2>5. /\ c \in 1 .. Len(points) - 1
        /\ Shows(snap_file[i - 1], points[c]) /\ snaps[i].mem = points[c].mem
    BY <1>1 DEF ToolInv, FilesOK, FileOK
  <2>6. c = i * state.snap_interval
    BY DEF CycleOf
  <2> HIDE DEF c
  <2>7. /\ Len(r1) <= Len(r2) /\ Len(r1) = Len(points) /\ Len(r2) = Len(ran.points)
        /\ Len(r1) \in Nat /\ Len(r2) \in Nat
    <3>1. Len(r1) <= Len(r2)
      BY <2>2, <2>3, <2>4, EndedIsLonger
    <3>2. Len(r1) \in Nat /\ Len(r2) \in Nat
      BY <2>2, <2>3 DEF InputRun
    <3> QED BY <2>2, <2>3, <3>1, <3>2 DEF PointsOf
  <2>8. c \in 1 .. Len(r1) /\ c \in 1 .. Len(r2) /\ c < Len(ran.points)
    BY <2>5, <2>7
  <2>9. points[c] = ran.points[c]
    <3>1. r1[c] = r2[c]
      BY <2>2, <2>3, <2>4, <2>8, RunsAgree
    <3> QED BY <2>2, <2>3, <2>8, <3>1 DEF PointsOf
  <2> QED BY <2>5, <2>6, <2>8, <2>9
<1> QED
  BY <1>1, ToolInvariant, PTL

(* A snapshot ends where a run of the same .bin on the same inputs ended,  *)
(* for every interval and whichever files could not be written.            *)
THEOREM SnapshotsTransparent == THSpec => []SnapshotTransparent
<1>1. ASSUME ToolInv PROVE SnapshotTransparent
  <2> SUFFICES ASSUME phase = "run", ~ running, ran.bin = bin_file, ran.inputs = inputs
               PROVE  Here = ran.points[Len(ran.points)]
    BY DEF SnapshotTransparent
  <2>1. ran # Nobody
    BY <1>1 DEF ToolInv, ProcessOK, Nobody
  <2>2. PICK r1 : InputRun(bin_file, inputs, r1) /\ r1[Len(r1)].at = Here /\ ~ GoesOn(r1)
    BY <1>1 DEF ToolInv, RunOK
  <2>3. PICK r2 : /\ InputRun(bin_file, inputs, r2) /\ PointsOf(r2, ran.points)
                  /\ ~ GoesOn(r2)
    BY <1>1, <2>1 DEF ToolInv, RanOK
  <2>4. ran.points[Len(ran.points)] = r2[Len(r2)].at
    <3>1. Len(r2) \in 1 .. Len(r2) /\ Len(ran.points) = Len(r2)
      BY <2>3 DEF InputRun, PointsOf
    <3> QED BY <2>3, <3>1 DEF PointsOf
  <2>5. inputs \in Seq(Word)
    BY <1>1 DEF ToolInv, RunOK
  <2> QED BY <2>2, <2>3, <2>4, <2>5, RunsEndAlike
<1> QED
  BY <1>1, ToolInvariant, PTL

=============================================================================
