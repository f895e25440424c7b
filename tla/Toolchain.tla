----------------------------- MODULE Toolchain -----------------------------
(***************************************************************************)
(* The commands around a .bin file: asm writes it, run and snapshot load   *)
(* and execute it, snapshot leaves one <bin>.snap.NNNN file per interval   *)
(* (cmd_assemble, cmd_run and cmd_snapshot in main.cpp).                   *)
(*                                                                         *)
(* One process exists at a time.  It may be killed between any two writes, *)
(* and a write may fail; nothing checks the result of a write, neither for *)
(* the .bin nor for a .snap file.  The files stay for the next process.    *)
(***************************************************************************)
EXTENDS VM, Assembler

CONSTANTS
    Sources,      \* the .asm files: sequences of source lines
    MaxCommands,  \* bound: processes that are started
    MaxFaults     \* bound: failed writes and kills

(* The opcode of an instruction is in its last byte, as with the           *)
(* 6 + 3 + 3 + 20 bits of the code.                                        *)
ASSUME ToolchainAssumption ==
    /\ \A s \in Sources : Code(s) \in Seq(SourceLine)
    /\ ByteBase * ByteBase * ByteBase <= MEM_SIZE * NREGS * NREGS
    /\ MaxCommands \in Nat /\ MaxFaults \in Nat

VARIABLES
    cmd,        \* "asm", "run", "snapshot", or "none"
    phase,      \* "write", "run" or "exited"
    exit_code,  \* of the last process that exited
    instrs,     \* asm: out_instrs
    bin_file,   \* the bytes of the .bin, or NoBin
    counter,    \* snapshot: *counter
    snap_file,  \* the .snap.NNNN files, by number
    commands,   \* processes started so far
    faults      \* failures so far

fileVars == << bin_file, snap_file >>
toolVars == << cmd, phase, exit_code, instrs, counter, commands, faults, fileVars >>
tvars == << vmVars, toolVars >>

Exited == phase = "exited"

KILLED == 137

NoBin == << -1 >>
NoSnap == [kind |-> "none"]      \* there is no such file
TornSnap == [kind |-> "torn"]    \* shorter than its header says

(* A .snap file: header, register block and deltas.  The CPU's flags are   *)
(* not in it.                                                              *)
SnapFileShort(s) ==
    [kind |-> "snap", cycle_count |-> s.cycle_count, halted |-> s.halted,
     regs |-> s.regs, pc |-> s.pc, sp |-> s.sp,
     deltas |-> SubSeq(s.deltas, 2, Len(s.deltas))]

(* Mutant of SnapFile: the pc of the instruction, as in a .state file.      *)
SnapFileOldPc(s) ==
    [kind |-> "snap", cycle_count |-> s.cycle_count, halted |-> s.halted,
     regs |-> s.regs, pc |-> (s.pc - 4) % WORD_MOD, sp |-> s.sp, deltas |-> s.deltas]

SnapFile(s) ==
    [kind |-> "snap", cycle_count |-> s.cycle_count, halted |-> s.halted,
     regs |-> s.regs, pc |-> s.pc, sp |-> s.sp, deltas |-> s.deltas]

Starts ==
    /\ Exited
    /\ commands < MaxCommands
    /\ commands' = commands + 1

Fault == faults < MaxFaults /\ faults' = faults + 1

Exit(code) == phase' = "exited" /\ exit_code' = code

(* What a write that stops early leaves behind.                            *)
Prefixes(bytes) == { SubSeq(bytes, 1, n) : n \in 0 .. Len(bytes) }

-----------------------------------------------------------------------------
(* asm: the whole source is translated before the output is opened.        *)

AsmFrame == UNCHANGED << vmVars, counter, snap_file >>

asm_opens(source) ==
    /\ Starts
    /\ Assembles(source)
    /\ cmd' = "asm" /\ phase' = "write"
    /\ instrs' = out_instrs(source)
    /\ bin_file' = << >>
    /\ UNCHANGED << exit_code, faults >>
    /\ AsmFrame

(* Mutant of asm_rejects: the output is opened first.                      *)
asm_rejects_late(source) ==
    /\ Starts
    /\ ~ Assembles(source)
    /\ cmd' = "asm" /\ Exit(1)
    /\ bin_file' = << >>
    /\ UNCHANGED << instrs, faults >>
    /\ AsmFrame

(* A bad line: exit code 1, and the old .bin is still there.               *)
asm_rejects(source) ==
    /\ Starts
    /\ ~ Assembles(source)
    /\ cmd' = "asm" /\ Exit(1)
    /\ UNCHANGED << instrs, bin_file, faults >>
    /\ AsmFrame

(* The source or the output cannot be opened.                              *)
asm_cannot_open ==
    /\ Starts /\ Fault
    /\ cmd' = "asm" /\ Exit(1)
    /\ UNCHANGED << instrs, bin_file >>
    /\ AsmFrame

cmd_assemble == asm_cannot_open \/ \E s \in Sources : asm_opens(s) \/ asm_rejects(s)

(* The bytes are put and the stream is closed.                             *)
WriteBin ==
    /\ phase = "write"
    /\ bin_file' = BytesOf(instrs)
    /\ Exit(0)
    /\ UNCHANGED << cmd, instrs, commands, faults >>
    /\ AsmFrame

(* put fails, and nobody looks at the state of the stream.                 *)
WriteBinFails ==
    /\ phase = "write" /\ Fault
    /\ bin_file' \in Prefixes(BytesOf(instrs))
    /\ Exit(0)
    /\ UNCHANGED << cmd, instrs, commands >>
    /\ AsmFrame

-----------------------------------------------------------------------------
(* run and snapshot.                                                       *)

(* VM::VM, load_program, and for snapshot the interval and the sink.       *)
Boot(c, interval) ==
    /\ Starts
    /\ bin_file # NoBin /\ ProgramFits(bin_file)
    /\ cmd' = c /\ phase' = "run"
    /\ counter' = 0
    /\ state' = [PowerOn EXCEPT !.snap_interval = interval, !.snap_timer = interval]
    /\ mem' = load_program(ZeroMemory, bin_file)
    /\ deltas' = << >>
    /\ snap_sink' = (c = "snapshot")
    /\ dispatch_mode' = "ComputedGoto"
    /\ running' = TRUE
    /\ UNCHANGED << exit_code, instrs, faults, fileVars >>

(* There is no .bin, or it is larger than the memory.                      *)
Refuse(c) ==
    /\ Starts
    /\ bin_file = NoBin \/ ~ ProgramFits(bin_file)
    /\ cmd' = c /\ Exit(1)
    /\ UNCHANGED << vmVars, counter, instrs, faults, fileVars >>

cmd_run == Boot("run", 0) \/ Refuse("run")

cmd_snapshot == Refuse("snapshot") \/ \E n \in Intervals : Boot("snapshot", n)

(* The default hooks answer an IN or a RAND.                               *)
Executes ==
    \/ Deterministic
    \/ \E op \in {OP_IN, OP_RAND} : \E v \in Inputs : DoNondet(op, v)

RunFrame == UNCHANGED << cmd, phase, exit_code, instrs, commands, bin_file >>

PlainPass ==
    /\ ~ SnapFires
    /\ Executes
    /\ RunFrame
    /\ UNCHANGED << counter, snap_file, faults >>

(* The sink: the next number is used up whether the file is written or not *)
(* and the program goes on.                                                *)
SinkPass ==
    /\ SnapFires
    /\ Executes
    /\ counter' = counter + 1
    /\ \/ /\ snap_file' = [snap_file EXCEPT ![counter] = SnapFile(Fired)]
          /\ UNCHANGED faults
       \/ /\ Fault
          /\ snap_file' \in {snap_file, [snap_file EXCEPT ![counter] = TornSnap]}
    /\ RunFrame

EndRun ==
    /\ phase = "run" /\ ~ running
    /\ Exit(IF state.halted = HALT_NORMAL THEN 0 ELSE 2)
    /\ UNCHANGED << vmVars, cmd, instrs, counter, commands, faults, fileVars >>

-----------------------------------------------------------------------------
(* SIGKILL: the .bin or the .snap file that is being written is cut off.   *)
Kill ==
    /\ ~ Exited /\ Fault
    /\ Exit(KILLED)
    /\ cmd' = "none" /\ instrs' = << >>
    /\ state' = PowerOn /\ mem' = ZeroMemory /\ deltas' = << >>
    /\ snap_sink' = FALSE /\ running' = FALSE
    /\ IF phase = "write"
       THEN bin_file' \in Prefixes(BytesOf(instrs))
       ELSE UNCHANGED bin_file
    /\ snap_file' \in
          {snap_file} \cup IF CanFetch /\ SnapFires
                           THEN {[snap_file EXCEPT ![counter] = TornSnap]} ELSE {}
    /\ UNCHANGED << counter, dispatch_mode, commands >>

TInit ==
    /\ state = PowerOn /\ mem = ZeroMemory /\ deltas = << >>
    /\ snap_sink = FALSE /\ dispatch_mode = "ComputedGoto" /\ running = FALSE
    /\ cmd = "none" /\ phase = "exited" /\ exit_code = 0
    /\ instrs = << >> /\ bin_file = NoBin
    /\ counter = 0 /\ snap_file = [i \in 0 .. MaxCycle - 1 |-> NoSnap]
    /\ commands = 0 /\ faults = 0

ToolStep ==
    \/ cmd_assemble \/ WriteBin \/ WriteBinFails
    \/ cmd_run \/ cmd_snapshot
    \/ PlainPass \/ SinkPass \/ EndRun

TNext == ToolStep \/ Kill

TSpec == TInit /\ [][TNext]_tvars

=============================================================================
