---------------------------- MODULE ToolHistory ----------------------------
(***************************************************************************)
(* The toolchain with history variables, and what its commands promise     *)
(* about the files they leave to each other.  The history variables are    *)
(* not in the code and no action reads them.                               *)
(***************************************************************************)
EXTENDS Toolchain, PassFunction

VARIABLES
    built,     \* code lines of the source the .bin was last written for
    whole,     \* TRUE when that write was completed
    inputs,    \* what the hooks answered in this process
    points,    \* where this process was after boot and after each pass
    snaps,     \* each call of the sink in this process: memory, file written
    ran        \* the last `run` that ended: its .bin, inputs and points

ghosts == << built, whole, inputs, points, snaps, ran >>
thvars == << tvars, ghosts >>

Nobody == [bin |-> NoBin, inputs |-> << >>, points |-> << >>]

THInit ==
    /\ TInit
    /\ built = << >> /\ whole = FALSE
    /\ inputs = << >> /\ points = << >> /\ snaps = << >> /\ ran = Nobody

THAssemble ==
    /\ \/ \E s \in Sources :
             \/ asm_opens(s) /\ built' = Code(s) /\ whole' = FALSE
             \/ asm_rejects(s) /\ UNCHANGED << built, whole >>
       \/ asm_cannot_open /\ UNCHANGED << built, whole >>
    /\ UNCHANGED << inputs, points, snaps, ran >>

THWrite ==
    /\ \/ WriteBin /\ whole' = TRUE
       \/ WriteBinFails /\ UNCHANGED whole
    /\ UNCHANGED << built, inputs, points, snaps, ran >>

THBoot ==
    /\ cmd_run \/ cmd_snapshot
    /\ inputs' = << >> /\ points' = << Here' >> /\ snaps' = << >>
    /\ UNCHANGED << built, whole, ran >>

THPass ==
    /\ PlainPass \/ SinkPass
    /\ inputs' = IF decode_op(Instr) \in {OP_IN, OP_RAND}
                 THEN Append(inputs, state'.regs[dst]) ELSE inputs
    /\ points' = Append(points, Here')
    /\ snaps' = IF SnapFires THEN Append(snaps, [mem |-> mem, ok |-> faults' = faults])
                ELSE snaps
    /\ UNCHANGED << built, whole, ran >>

THEnd ==
    /\ EndRun
    /\ ran' = IF cmd = "run" THEN [bin |-> bin_file, inputs |-> inputs, points |-> points]
              ELSE ran
    /\ UNCHANGED << built, whole, inputs, points, snaps >>

THKill ==
    /\ Kill
    /\ inputs' = << >> /\ points' = << >> /\ snaps' = << >>
    /\ UNCHANGED << built, whole, ran >>

THNext == THAssemble \/ THWrite \/ THBoot \/ THPass \/ THEnd \/ THKill

THSpec == THInit /\ [][THNext]_thvars

-----------------------------------------------------------------------------
Loaded == load_program(ZeroMemory, bin_file)
Fits == bin_file # NoBin /\ ProgramFits(bin_file) /\ 4 * Len(built) <= MEM_SIZE

(* A line of the source and a line of the listing say the same.  The       *)
(* listing leaves out operands the opcode does not use, and R and letters  *)
(* is R0 to the assembler.                                                 *)
SameOperand(shown, written) ==
    \/ shown = Missing
    \/ shown = written
    \/ shown = RegTok(0) /\ written = RWord
    \/ shown.kind = "bracket" /\ written = NumTok(shown.n)

SameLine(shown, written) ==
    /\ shown.op = written.op
    /\ SameOperand(shown.a, written.a)
    /\ SameOperand(shown.b, written.b)

(* After asm has written a .bin, what the machine loads shows the source,  *)
(* line by line, in the debugger's `where`: neither the opcode table, the  *)
(* field packing, the byte order nor the loader mixes anything up; and a   *)
(* source that was rejected since then has not touched the .bin.           *)
AsmFaithful ==
    whole /\ Fits =>
        /\ Len(bin_file) = 4 * Len(built)
        /\ \A k \in DOMAIN built : SameLine(disassemble_one(Loaded, 4 * (k - 1)), built[k])

(* Lines over every mnemonic and every kind of operand, an unknown one     *)
(* included.                                                               *)
Operands == {Missing, RWord, BareR, Junk, Bracket(4)}
            \cup {RegTok(n) : n \in {-1, 0, NREGS - 1, NREGS}}
            \cup {NumTok(n) : n \in {0, MEM_SIZE - 1, MEM_SIZE, WORD_MOD - 1}}

Lines == { asm(op, a, b) : op \in DOMAIN kOpcodes \cup {"NOP"}, a \in Operands, b \in Operands }

(* The assembler accepts no line it cannot express: whatever it accepts is *)
(* shown by the disassembler as it was written (parse_reg, parse_imm and   *)
(* the switch of assemble_file against disassemble_one).  No command is    *)
(* needed for this, so it is stated of the time before the first one.      *)
NoLineMisread ==
    commands = 0 => \A line \in Lines : Accepted(line) =>
        SameLine(disassemble_one(load_program(ZeroMemory, BytesOf(<< Encoded(line) >>)), 0), line)

(* A .bin that was cut off anywhere, also inside an instruction, holds the *)
(* first instructions of its source and then only HALTs: a program is      *)
(* never executed with an instruction its author did not write             *)
(* (assemble_file's output loop; the opcode is in the last byte).          *)
TornBinHalts ==
    Fits => \A k \in DOMAIN built :
        LET w == mem_load_u32(Loaded, 4 * (k - 1))
        IN  w = Encoded(built[k]) \/ decode_op(w) = OP_HALT

(* The .snap files of one run are a chain: each one's deltas lead from the *)
(* memory of its cycle back to the memory at the call before it, and those *)
(* of the first to the loaded program; file NNNN is of cycle               *)
(* (NNNN + 1) * interval.  Only a call that could not write its file has   *)
(* none: then an older run's file of that number may be in its place.      *)
SnapChain ==
    cmd = "snapshot" /\ phase = "run" =>
        /\ counter = Len(snaps)
        /\ \A i \in 1 .. counter : snaps[i].ok =>
              /\ snap_file[i - 1].cycle_count = i * state.snap_interval
              /\ LeadsBack(snap_file[i - 1].deltas, snaps[i].mem,
                           IF i = 1 THEN Loaded ELSE snaps[i - 1].mem)

(* The register block of a .snap file is of the instant e, at the sink.    *)
Shows(file, e) ==
    /\ file.regs = e.st.regs /\ file.sp = e.st.sp /\ file.halted = e.st.halted
    /\ file.pc = (e.st.pc + 4) % WORD_MOD

(* A .snap file shows an instant of the program, and the instant a plain  *)
(* `run` of the same .bin and the same inputs goes through: the one in     *)
(* front of the instruction of the file's cycle.  Registers, halt reason   *)
(* and the memory its deltas lead back from are from before that           *)
(* instruction, pc and cycle from after its fetch (the sink is called      *)
(* between the two).  Whatever the interval, and whichever other files     *)
(* could not be written.                                                   *)
SnapShowsRun ==
    /\ cmd = "snapshot" /\ phase = "run"
    /\ ran.bin = bin_file /\ inputs \in Prefixes(ran.inputs)
    => \A i \in 1 .. counter : snaps[i].ok =>
          /\ i * state.snap_interval < Len(ran.points)
          /\ Shows(snap_file[i - 1], ran.points[i * state.snap_interval])
          /\ snaps[i].mem = ran.points[i * state.snap_interval].mem

(* Taking snapshots does not change what a program does: a `snapshot` that *)
(* ends has the registers, flags, cycle count, halt reason and memory of a *)
(* `run` of the same .bin that read the same inputs, whatever the interval *)
(* and whichever files could not be written.                               *)
SnapshotTransparent ==
    /\ cmd = "snapshot" /\ phase = "run" /\ ~ running
    /\ ran.bin = bin_file /\ ran.inputs = inputs
    => Here = ran.points[Len(ran.points)]

=============================================================================
