--------------------------- MODULE ReplayHistory ---------------------------
(***************************************************************************)
(* Record, replay, save and restore with history variables, and what the   *)
(* commands promise each other across processes and crashes.  The history  *)
(* variables are not in the code and no action reads them.                 *)
(***************************************************************************)
EXTENDS RecordReplay, PassFunction

VARIABLES
    steps,     \* record, save: where this process was before each pass, and is
    recorded,  \* the run whose trace is in, or on its way to, the .trace file
    source     \* what the .state file was saved from: program, trace and run

ghosts == << steps, recorded, source >>
hrvars == << rvars, ghosts >>

Nobody == [bin |-> << >>, trace |-> << >>, path |-> << >>, code |-> -1]
NoSource == [bin |-> << >>, trace |-> << >>, path |-> << >>]

RHInit == RInit /\ steps = << >> /\ recorded = Nobody /\ source = NoSource

RHRun ==
    /\ RunStep
    /\ steps' = IF cmd \in {"record", "save"} THEN Append(steps, Here') ELSE steps
    /\ source' = IF SaveStop
                 THEN [bin |-> bin, trace |-> trace_file.frames, path |-> steps]
                 ELSE source
    /\ UNCHANGED recorded

RHOpen ==
    /\ OpenTrace
    /\ recorded' = [bin |-> bin, trace |-> frames, path |-> steps, code |-> HaltCode]
    /\ steps' = << >>
    /\ UNCHANGED source

RHStart ==
    /\ Start
    /\ steps' = IF phase' = "run" THEN << Here' >> ELSE << >>
    /\ UNCHANGED << recorded, source >>

RHRest ==
    /\ \/ EndRun \/ SizeTrace \/ WriteHeader \/ WriteFrame \/ SyncTrace \/ FlushFails
    /\ UNCHANGED ghosts

RHCrash == (Kill \/ PowerLoss) /\ steps' = << >> /\ UNCHANGED << recorded, source >>

RHNext == RHStart \/ RHRun \/ RHOpen \/ RHRest \/ RHCrash

RHSpec == RHInit /\ [][RHNext]_hrvars

-----------------------------------------------------------------------------
Reported(c) == Exited /\ cmd = c /\ bin = recorded.bin

(* Where the recorded run ended.                                           *)
final == recorded.path[Len(recorded.path)]

(* Every value has its C++ type.                                           *)
RTypeOK ==
    /\ TypeOK
    /\ cmd \in Commands /\ phase \in Phases
    /\ bin \in Programs \cup {<< >>}
    /\ exit_code \in {0, 1, 2, 3, ABORTED, KILLED}
    /\ frames \in Seq(TraceFrame)
    /\ cursor \in Nat /\ at_frame \in Nat /\ saved \in BOOLEAN
    /\ trace_file \in [magic : BOOLEAN, frames : Seq(TraceFrame \cup {ZeroFrame})]
    /\ state_file \in CheckpointState \cup {NoFile}

(* "replay VERIFIED" can be believed: when cmd_replay exits 0 or 2 on the  *)
(* program that was recorded, it ended in the registers, the cycle count   *)
(* and the memory of the recording, however the file was torn by a crash   *)
(* inside flush_to_file.                                                   *)
VerifiedIsFaithful ==
    Reported("replay") /\ exit_code \in {0, 2} => Here = final

(* A trace that was written completely replays: cmd_replay on the same     *)
(* program reports what the recording reported, never a divergence.        *)
IntactReplays ==
    /\ Reported("replay")
    /\ trace_file = [magic |-> TRUE, frames |-> recorded.trace]
    => exit_code = recorded.code

(* The trace inspector gives a torn file away: whatever a crash inside     *)
(* flush_to_file left, the file shows op_other = 0 exactly when it is the  *)
(* recorded trace, and then its last cycle is not before its first, so     *)
(* that cycle_delta has not wrapped (cmd_inspect_trace: "non-zero op_other *)
(* would indicate either a future trace format change or wire corruption").*)
TornShows ==
    Exited /\ Readable =>
        /\ op_other_count = 0 <=> trace_file.frames = recorded.trace
        /\ op_other_count = 0 /\ frame_count > 0 => first_cycle <= last_cycle

(* cmd_save exits 0 only with a readable checkpoint on disk, taken in      *)
(* front of the very IN or RAND that the requested frame belongs to.       *)
SaveTellsTruth ==
    Reported("save") /\ exit_code = 0 =>
        /\ state_file # NoFile /\ state_file.frame_index = at_frame
        /\ decode_op(mem_load_u32(mem, state_file.pc)) = frame_at(at_frame).opcode

(* cmd_restore puts the CPU where the recording was: registers, pc, sp,    *)
(* flags and the derived cycle_count are those of the recorded run in      *)
(* front of the same instruction, although cycle_count is not in the file. *)
Resumed == CanRestore /\ source.bin = recorded.bin /\ source.trace = recorded.trace

RestorePointExact ==
    Exited /\ Resumed =>
        /\ Restored.cycle_count + 1 \in DOMAIN recorded.path
        /\ Restored = recorded.path[Restored.cycle_count + 1].st

(* tests/save_restore.sh: "resuming from a saved checkpoint must produce   *)
(* the same observable state as a full run would"; main.cpp on cmd_save:   *)
(* "Memory content is implicitly correct because the trace re-drives the   *)
(* exact same STORE sequence".  So a restore that reports success ends in  *)
(* the state and the memory of the recording.                              *)
RestoreEqualsFullRun ==
    Reported("restore") /\ exit_code \in {0, 2} /\ Resumed
        => Here = final

=============================================================================
