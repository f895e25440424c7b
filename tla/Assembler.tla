----------------------------- MODULE Assembler -----------------------------
(***************************************************************************)
(* The assembler (assembler.cpp) and the disassembler of `where`           *)
(* (disassemble_one in main.cpp) as operators.                             *)
(*                                                                         *)
(* A source line is its mnemonic and its first two operand tokens, with    *)
(* case, comments, commas and the notation of numbers already read; what   *)
(* follows the second operand is ignored by the code.  A token is its kind *)
(* and the number atoi or strtoul finds in it.                             *)
(***************************************************************************)
EXTENDS Machine

token(kind, n) == [kind |-> kind, n |-> n]

Missing    == token("missing", 0)   \* no token
RegTok(n)  == token("reg", n)       \* R and a number
RWord      == token("rword", 0)     \* R and letters: atoi gives 0
BareR      == token("bare", 0)      \* R alone
NumTok(n)  == token("num", n)       \* a number as strtoul reads it
Junk       == token("junk", 0)      \* anything else
Bracket(n) == token("bracket", n)   \* a number in [ ]

Token == [kind : {"reg", "num", "bracket"}, n : Int] \cup {Missing, RWord, BareR, Junk}

asm(op, a, b) == [op |-> op, a |-> a, b |-> b]

SourceLine == [op : STRING, a : Token, b : Token]

(* A line that is empty after strip_comment and trim.                      *)
Blank == asm("", Missing, Missing)

Mnemonics == {"HALT", "LOAD", "STORE", "ADD", "SUB", "MUL", "DIV", "JUMP", "JNZ",
              "IN", "RAND", "LI"}

kOpcodes ==
    [m \in Mnemonics |->
        CASE m = "HALT" -> OP_HALT
          [] m = "LOAD" -> OP_LOAD
          [] m = "STORE" -> OP_STORE
          [] m = "ADD" -> OP_ADD
          [] m = "SUB" -> OP_SUB
          [] m = "MUL" -> OP_MUL
          [] m = "DIV" -> OP_DIV
          [] m = "JUMP" -> OP_JUMP
          [] m = "JNZ" -> OP_JNZ
          [] m = "IN" -> OP_IN
          [] m = "RAND" -> OP_RAND
          [] m = "LI" -> OP_LI]

ERROR == -1

(* Mutant of parse_reg: one register too many.                             *)
parse_reg_wide(tok) ==
    IF tok.kind = "reg" /\ tok.n \in 0 .. NREGS THEN tok.n
    ELSE IF tok.kind = "rword" THEN 0
    ELSE ERROR

parse_reg(tok) ==
    IF tok.kind = "reg" /\ tok.n \in Reg THEN tok.n
    ELSE IF tok.kind = "rword" THEN 0
    ELSE ERROR

parse_imm(tok) == IF tok.kind = "num" /\ tok.n \in Addr THEN tok.n ELSE ERROR

-----------------------------------------------------------------------------
(* The operands each mnemonic takes.                                       *)
TakesReg  == Mnemonics \ {"HALT", "JUMP"}
TakesTwoRegs == {"ADD", "SUB", "MUL", "DIV"}
TakesRegImm  == {"LOAD", "STORE", "JNZ", "LI"}

DstOf(line) == IF line.op \in TakesReg THEN parse_reg(line.a) ELSE 0
SrcOf(line) == IF line.op \in TakesTwoRegs THEN parse_reg(line.b) ELSE 0
ImmOf(line) ==
    IF line.op = "JUMP" THEN parse_imm(line.a)
    ELSE IF line.op \in TakesRegImm THEN parse_imm(line.b)
    ELSE 0

Accepted(line) ==
    /\ line.op \in DOMAIN kOpcodes
    /\ ERROR \notin {DstOf(line), SrcOf(line), ImmOf(line)}

NotBlank(line) == line # Blank

(* Blank lines are skipped before anything is looked at.                   *)
Code(source) == SelectSeq(source, NotBlank)

Encoded(line) == encode(kOpcodes[line.op], DstOf(line), SrcOf(line), ImmOf(line))

(* assemble_file up to the output: 1 for any line that is not accepted,    *)
(* else the words of out_instrs.                                           *)
Assembles(source) == \A i \in DOMAIN Code(source) : Accepted(Code(source)[i])

out_instrs(source) ==
    [i \in DOMAIN Code(source) |-> Encoded(Code(source)[i])]

-----------------------------------------------------------------------------
(* disassemble_one: the word at pc as a source line.  LOAD and STORE show  *)
(* their address in brackets.                                              *)
Mnemonic(op) ==
    IF \E m \in DOMAIN kOpcodes : kOpcodes[m] = op
    THEN CHOOSE m \in DOMAIN kOpcodes : kOpcodes[m] = op
    ELSE "???"

disassemble_one(m, pc) ==
    LET w  == mem_load_u32(m, pc)
        op == Mnemonic(decode_op(w))
    IN  CASE op \in TakesTwoRegs -> asm(op, RegTok(decode_dst(w)), RegTok(decode_src(w)))
          [] op \in {"LOAD", "STORE"} -> asm(op, RegTok(decode_dst(w)), Bracket(decode_imm(w)))
          [] op \in {"JNZ", "LI"} -> asm(op, RegTok(decode_dst(w)), NumTok(decode_imm(w)))
          [] op \in {"IN", "RAND"} -> asm(op, RegTok(decode_dst(w)), Missing)
          [] op = "JUMP" -> asm(op, NumTok(decode_imm(w)), Missing)
          [] OTHER -> asm(op, Missing, Missing)

=============================================================================
