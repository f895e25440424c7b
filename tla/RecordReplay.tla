---------------------------- MODULE RecordReplay ----------------------------
(***************************************************************************)
(* The batch commands around a .trace file: record, replay, save and       *)
(* restore (main.cpp), with the trace writer and reader (trace.cpp) and    *)
(* the checkpoint file (checkpoint.cpp).                                   *)
(*                                                                         *)
(* One retrovm process exists at a time.  It loads a program, drives the   *)
(* engine of module VM to a halt, and leaves its results in two files: the *)
(* trace and the checkpoint.  It may be killed at any point, also between  *)
(* the writes that fill a file; the next process finds what is on disk.    *)
(* The program file may be rebuilt between two processes.                  *)
(***************************************************************************)
EXTENDS VM, FiniteSets

CONSTANT AtFrames   \* arguments of --at-frame

ASSUME RecordReplayAssumption == AtFrames \subseteq Nat

VARIABLES
    cmd,         \* the command of the process
    bin,         \* the program it loaded
    phase,       \* "run", the steps of flush_to_file, or "exited"
    exit_code,   \* of the last process that exited
    frames,      \* TraceWriter::frames_
    cursor,      \* next frame to consume
    at_frame,    \* save: --at-frame
    saved,       \* save: *saved
    trace_file,  \* the .trace on disk: [magic, frames]
    state_file   \* the .state on disk, or NoFile

procVars == << cmd, bin, phase, exit_code, frames, cursor, at_frame, saved >>
disk == << trace_file, state_file >>
rvars == << vmVars, procVars, disk >>

Phases == {"run", "open", "size", "header", "frames", "exited"}
Commands == {"none", "record", "replay", "save", "restore"}

ABORTED == 134   \* an exception nobody catches
KILLED == 137

(* What ftruncate puts where a frame will be.                              *)
ZeroFrame == [cycle |-> 0, opcode |-> 0, value |-> 0]

(* A file without the magic: absent, empty, or sized but not yet written.  *)
NoTrace == [magic |-> FALSE, frames |-> << >>]

(* TraceReader's constructor and frame_at.                                 *)
Readable == trace_file.magic
frame_count == Len(trace_file.frames)
InTrace(i) == i < frame_count
frame_at(i) == trace_file.frames[i + 1]

(* The `trace` command counts the frames by opcode and shows the first and *)
(* the last cycle of the file; it changes nothing.                         *)
frames_with(ops) ==
    Cardinality({i \in DOMAIN trace_file.frames : trace_file.frames[i].opcode \in ops})

op_in_count == frames_with({OP_IN})
op_rand_count == frames_with({OP_RAND})

(* Mutant of op_other_count: everything but RAND goes to the bucket of IN. *)
op_other_absorbed == 0

op_other_count == frame_count - op_in_count - op_rand_count
first_cycle == frame_at(0).cycle
last_cycle == frame_at(frame_count - 1).cycle

Exited == phase = "exited"

-----------------------------------------------------------------------------
(* Starting a process.                                                     *)

(* Command c makes a VM with program p and CPU state st; only save has a   *)
(* snapshot sink.                                                          *)
Boot(c, p, st, first, at) ==
    /\ cmd' = c /\ bin' = p
    /\ phase' = "run"
    /\ exit_code' = 0
    /\ frames' = << >>
    /\ cursor' = first /\ at_frame' = at /\ saved' = FALSE
    /\ state' = st
    /\ mem' = load_program(ZeroMemory, p)
    /\ deltas' = << >>
    /\ snap_sink' = (c = "save")
    /\ dispatch_mode' = "ComputedGoto"
    /\ running' = TRUE
    /\ UNCHANGED disk

(* The command returns before it runs anything.                            *)
Refuse(c, code) ==
    /\ cmd' = c
    /\ exit_code' = code
    /\ UNCHANGED << bin, phase, frames, cursor, at_frame, saved, vmVars, disk >>

cmd_record(p) == Exited /\ Boot("record", p, PowerOn, 0, 0)

cmd_replay(p) ==
    /\ Exited
    /\ IF Readable
       THEN Boot("replay", p, PowerOn, 0, 0)
       ELSE Refuse("replay", ABORTED)

cmd_save(p, k) ==
    /\ Exited
    /\ IF Readable /\ InTrace(k)
       THEN Boot("save", p, [PowerOn EXCEPT !.snap_interval = 1, !.snap_timer = 1], 0, k)
       ELSE Refuse("save", IF Readable THEN 1 ELSE ABORTED)

(* cycle_count is not in the file: it is derived from the next frame.      *)
Restored ==
    [PowerOn EXCEPT !.cycle_count = frame_at(state_file.frame_index).cycle - 1,
                    !.regs = state_file.regs, !.pc = state_file.pc,
                    !.sp = state_file.sp, !.flags = state_file.flags]

(* Mutant of CanRestore: without the guard on a zero frame.                *)
CanRestoreZero ==
    Readable /\ state_file # NoFile /\ InTrace(state_file.frame_index)

CanRestore ==
    /\ Readable
    /\ state_file # NoFile
    /\ InTrace(state_file.frame_index)
    /\ frame_at(state_file.frame_index).cycle # 0

cmd_restore(p) ==
    /\ Exited
    /\ IF CanRestore
       THEN Boot("restore", p, Restored, state_file.frame_index, 0)
       ELSE Refuse("restore", IF Readable THEN 1 ELSE ABORTED)

Start ==
    \E p \in Programs :
        \/ cmd_record(p)
        \/ cmd_replay(p)
        \/ cmd_restore(p)
        \/ \E k \in AtFrames : cmd_save(p, k)

-----------------------------------------------------------------------------
(* The engine under a command.                                             *)

RunFrame == UNCHANGED << cmd, bin, at_frame, trace_file >>

Exit(code) == phase' = "exited" /\ exit_code' = code

Goes == UNCHANGED << phase, exit_code >>

(* Mutant of append: the cycle before the increment.                       *)
AppendEarly(op, v) ==
    frames' = Append(frames, [cycle |-> state.cycle_count, opcode |-> op, value |-> v])

(* The hook of cmd_record: the host answers, on_nondeterministic appends.  *)
append(op, v) ==
    frames' = Append(frames, [cycle |-> Fetched.cycle_count, opcode |-> op, value |-> v])

RecordInput(op) ==
    /\ cmd = "record"
    /\ \E v \in Inputs : DoNondet(op, v) /\ append(op, v)
    /\ Goes
    /\ UNCHANGED cursor

(* Mutant of Consumable: any frame will do.                                *)
ConsumableAny(op) == InTrace(cursor)

(* consume, the same closure in replay, save and restore.                  *)
Consumable(op) ==
    /\ InTrace(cursor)
    /\ frame_at(cursor).cycle = Fetched.cycle_count
    /\ frame_at(cursor).opcode = op

ConsumeInput(op) ==
    /\ cmd # "record"
    /\ Consumable(op)
    /\ DoNondet(op, frame_at(cursor).value)
    /\ cursor' = cursor + 1
    /\ Goes
    /\ UNCHANGED frames

(* TraceMismatch: each command reports it and returns 3.                   *)
Divergence(op) ==
    /\ cmd # "record"
    /\ ~ Consumable(op)
    /\ DoThrow(op)
    /\ Exit(3)
    /\ UNCHANGED << cursor, frames >>

Executes ==
    \/ Deterministic /\ Goes /\ UNCHANGED << cursor, frames >>
    \/ \E op \in {OP_IN, OP_RAND} : RecordInput(op) \/ ConsumeInput(op) \/ Divergence(op)

(* The sink of cmd_save: this is the cycle of the target frame.            *)
SaveHit ==
    /\ cmd = "save" /\ SnapFires
    /\ ~ saved
    /\ cursor = at_frame
    /\ Fetched.cycle_count = frame_at(at_frame).cycle

(* Mutant of Checkpoint: the pc behind the fetched instruction.            *)
CheckpointPast ==
    [frame_index |-> at_frame, halted |-> HALT_CHECKPOINT, flags |-> state.flags,
     regs |-> state.regs, pc |-> Fetched.pc, sp |-> state.sp]

(* It writes the registers and the pc of the fetched instruction ...       *)
Checkpoint ==
    [frame_index |-> at_frame, halted |-> HALT_CHECKPOINT, flags |-> state.flags,
     regs |-> state.regs, pc |-> (Fetched.pc - 4) % WORD_MOD, sp |-> state.sp]

(* ... and stops the engine.                                               *)
SaveStop ==
    /\ SaveHit
    /\ state_file' = Checkpoint
    /\ saved' = TRUE
    /\ SoftHalt(HALT_CHECKPOINT)
    /\ Goes /\ UNCHANGED << cursor, frames >>
    /\ RunFrame

(* Mutant of SaveFails: stops the engine as if the file had been written.  *)
SaveFailsSilently ==
    /\ SaveHit
    /\ state_file' \in {state_file, NoFile}
    /\ saved' = TRUE
    /\ SoftHalt(HALT_CHECKPOINT)
    /\ Goes /\ UNCHANGED << cursor, frames >>
    /\ RunFrame

(* checkpoint_save fails, before or after it truncated the file: the sink  *)
(* gives up and the program runs on.                                       *)
SaveFails ==
    /\ SaveHit
    /\ state_file' \in {state_file, NoFile}
    /\ saved' = TRUE
    /\ Executes
    /\ RunFrame

PlainRun ==
    /\ ~ SaveHit
    /\ Executes
    /\ RunFrame
    /\ UNCHANGED << saved, state_file >>

-----------------------------------------------------------------------------
(* The end of the run.                                                     *)

Halted == phase = "run" /\ ~ running
HaltCode == IF state.halted = HALT_NORMAL THEN 0 ELSE 2
EndFrame == UNCHANGED << vmVars, cmd, bin, frames, cursor, at_frame, saved, state_file >>

Ends(c) == Halted /\ cmd = c /\ EndFrame /\ UNCHANGED trace_file

(* On to flush_to_file.                                                    *)
EndRecord == Ends("record") /\ phase' = "open" /\ UNCHANGED exit_code

(* Unread frames are a divergence too.                                     *)
EndReplay == Ends("replay") /\ Exit(IF cursor < frame_count THEN 3 ELSE HaltCode)

EndSave ==
    /\ Ends("save")
    /\ Exit(IF state.halted = HALT_CHECKPOINT /\ cursor = at_frame THEN 0 ELSE 1)

EndRestore == Ends("restore") /\ Exit(IF cursor < frame_count THEN 3 ELSE HaltCode)

EndRun == EndRecord \/ EndReplay \/ EndSave \/ EndRestore

(* TraceWriter::flush_to_file: O_TRUNC, ftruncate to the final size, the   *)
(* header, the frames one after the other, msync.                          *)
written == Cardinality({i \in DOMAIN trace_file.frames : trace_file.frames[i] # ZeroFrame})

OpenTrace ==
    /\ phase = "open"
    /\ phase' = "size" /\ trace_file' = NoTrace
    /\ EndFrame /\ UNCHANGED exit_code

SizeTrace ==
    /\ phase = "size"
    /\ phase' = "header"
    /\ trace_file' = [magic |-> FALSE, frames |-> [i \in 1 .. Len(frames) |-> ZeroFrame]]
    /\ EndFrame /\ UNCHANGED exit_code

WriteHeader ==
    /\ phase = "header"
    /\ phase' = "frames"
    /\ trace_file' = [trace_file EXCEPT !.magic = TRUE]
    /\ EndFrame /\ UNCHANGED exit_code

WriteFrame ==
    /\ phase = "frames" /\ written < Len(frames)
    /\ trace_file' = [trace_file EXCEPT !.frames[written + 1] = frames[written + 1]]
    /\ EndFrame /\ UNCHANGED << phase, exit_code >>

SyncTrace ==
    /\ phase = "frames" /\ written = Len(frames)
    /\ Exit(HaltCode)
    /\ EndFrame /\ UNCHANGED trace_file

(* open, ftruncate or mmap fails: the exception ends the process.          *)
FlushFails ==
    /\ phase \in {"open", "size", "header"}
    /\ Exit(ABORTED)
    /\ EndFrame /\ UNCHANGED trace_file

Flush == OpenTrace \/ SizeTrace \/ WriteHeader \/ WriteFrame \/ SyncTrace \/ FlushFails

-----------------------------------------------------------------------------
(* Crashes.                                                                *)

(* Nothing of a process is left but its files.                             *)
Crashes ==
    /\ ~ Exited
    /\ state' = PowerOn /\ mem' = ZeroMemory /\ deltas' = << >> /\ running' = FALSE
    /\ cmd' = "none" /\ bin' = << >> /\ frames' = << >> /\ cursor' = 0
    /\ Exit(KILLED)
    /\ snap_sink' = FALSE /\ at_frame' = 0 /\ saved' = FALSE
    /\ UNCHANGED dispatch_mode

(* SIGKILL: what was copied to the mapping or written stays.  Between      *)
(* fopen and fclose the .state file is empty.                              *)
Kill ==
    /\ Crashes
    /\ state_file' \in {state_file} \cup (IF running /\ SaveHit THEN {NoFile} ELSE {})
    /\ UNCHANGED trace_file

(* The machine stops before msync: any of the dirty bytes may be lost, and *)
(* the .state file, which is never synced.                                 *)
PowerLoss ==
    /\ Crashes
    /\ phase = "frames"
    /\ \E lost \in SUBSET DOMAIN trace_file.frames, m \in BOOLEAN :
          trace_file' = [magic |-> m,
                         frames |-> [i \in DOMAIN trace_file.frames |->
                             IF i \in lost THEN ZeroFrame ELSE trace_file.frames[i]]]
    /\ state_file' \in {state_file, NoFile}

-----------------------------------------------------------------------------
RInit ==
    /\ state = PowerOn /\ mem = ZeroMemory /\ deltas = << >>
    /\ snap_sink = FALSE /\ dispatch_mode = "ComputedGoto" /\ running = FALSE
    /\ cmd = "none" /\ bin = << >> /\ phase = "exited" /\ exit_code = 0
    /\ frames = << >> /\ cursor = 0 /\ at_frame = 0 /\ saved = FALSE
    /\ trace_file = NoTrace /\ state_file = NoFile

RunStep == SaveStop \/ SaveFails \/ PlainRun

RNext == Start \/ RunStep \/ EndRun \/ Flush \/ Kill \/ PowerLoss

RSpec == RInit /\ [][RNext]_rvars

=============================================================================
