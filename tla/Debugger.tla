------------------------------ MODULE Debugger ------------------------------
(***************************************************************************)
(* The interactive debugger (cmd_debug in main.cpp) on top of the engine:  *)
(* the REPL commands, the snapshot sink that stops at step targets and     *)
(* breakpoints, the ring of snapshots behind `back N`, and the trace       *)
(* cursor of replay mode.                                                  *)
(*                                                                         *)
(* The REPL and the engine share one thread.  A command that runs the VM   *)
(* is a sequence of passes (module VM) between two prompts; `back` is the  *)
(* loop over the undo log, one entry per step, and the restore after it.   *)
(***************************************************************************)
EXTENDS VM

CONSTANTS
    Sessions,   \* the command lines: records [bin, replay_mode, trace]
    StepArgs,   \* arguments of `step`, as uint64_t
    BackArgs,   \* arguments of `back`
    BreakArgs,  \* addresses typed after `breakpoint`
    kRingCap,   \* capacity of the ring, 256 in the code
    U64         \* 2^64

UINT64_MAX == U64 - 1

ASSUME DebuggerAssumption ==
    /\ \A s \in Sessions : /\ s.bin \in Programs
                           /\ s.replay_mode \in BOOLEAN
                           /\ s.trace \in Seq(TraceFrame)
    /\ StepArgs \subseteq 0 .. UINT64_MAX
    /\ BackArgs \subseteq Nat /\ BreakArgs \subseteq Nat
    /\ kRingCap \in Nat /\ kRingCap >= 2
    /\ U64 \in Nat /\ U64 > MaxCycle

VARIABLES
    session,        \* the command line of this process
    cursor,         \* *d.cursor : next trace frame (0 in fresh mode)
    target_cycle,   \* d.target_cycle
    breakpoints,    \* d.breakpoints
    ring,           \* d.ring : ReplSnapshots, oldest first
    history_index,  \* d.history_index, counted from 0
    rewind,         \* where the loop of `back` is, when it is active
    state_file,     \* the .state file written by `save`, or NoFile
    exited          \* TRUE once the REPL has returned

debugVars == << session, cursor, target_cycle, breakpoints, ring, history_index,
                rewind, state_file, exited >>
dvars == << vmVars, debugVars >>

replay_mode == session.replay_mode

(* The position of `back`: entry left of ring[idx] is undone next.         *)
Rewind == [active : BOOLEAN, idx : Nat, left : Nat, to : Nat]
NotRewinding == [active |-> FALSE, idx |-> 0, left |-> 0, to |-> 0]
InBack == rewind.active

ReplSnapshot == [core : Snapshot, cursor : Nat]

Prompt == ~ running /\ ~ InBack /\ ~ exited

(* ring[i] of the C++ deque, which counts from 0.                          *)
At(i) == ring[i + 1]

-----------------------------------------------------------------------------
(* The sink (install_debug_sink).                                          *)

(* The pc about to execute: the snapshot is taken after pc += 4.           *)
HaltPc == (Fired.pc - 4) % WORD_MOD

(* Mutants of StepHit: one cycle late, and the sentinel test inverted.     *)
StepHitLate == target_cycle # UINT64_MAX /\ Fired.cycle_count > target_cycle
StepHitNever == target_cycle = UINT64_MAX /\ Fired.cycle_count >= target_cycle

StepHit == target_cycle # UINT64_MAX /\ Fired.cycle_count >= target_cycle

BreakHit == ~ StepHit /\ HaltPc \in breakpoints

Stops == SnapFires /\ (StepHit \/ BreakHit)

(* Mutant of Pushed: without the resize().                                 *)
PushedOnly(seq, x) ==
    IF Len(seq) + 1 > kRingCap THEN Tail(Append(seq, x)) ELSE Append(seq, x)

(* resize() drops the snapshots that `back` went behind, push_back adds    *)
(* the new one, pop_front evicts the oldest beyond the capacity.           *)
Pushed(seq, x) ==
    LET longer == Append(SubSeq(seq, 1, history_index + 1), x)
    IN  IF Len(longer) > kRingCap THEN Tail(longer) ELSE longer

(* Mutant of Evicts: true already when the ring has just become full.      *)
EvictsEarly == history_index + 2 >= kRingCap

Evicts == history_index + 2 > kRingCap

Sink ==
    IF SnapFires
    THEN /\ ring' = Pushed(ring, [core |-> Fired, cursor |-> cursor])
         /\ history_index' = IF Evicts THEN history_index ELSE history_index + 1
         /\ target_cycle' = IF StepHit THEN UINT64_MAX ELSE target_cycle
    ELSE UNCHANGED << ring, history_index, target_cycle >>

-----------------------------------------------------------------------------
(* One pass of the engine under the debugger.                              *)

PassFrame == UNCHANGED << session, breakpoints, rewind, state_file >>

StopPass ==
    /\ Stops
    /\ SnapReturn(IF StepHit THEN HALT_STEP ELSE HALT_BREAKPOINT)
    /\ Sink /\ PassFrame
    /\ UNCHANGED << cursor, exited >>

PlainPass ==
    /\ ~ Stops
    /\ Deterministic
    /\ Sink /\ PassFrame
    /\ UNCHANGED << cursor, exited >>

(* Fresh mode: the host answers.                                           *)
FreshInput(op) ==
    /\ ~ Stops /\ ~ replay_mode
    /\ \E v \in Inputs : DoNondet(op, v)
    /\ Sink /\ PassFrame
    /\ UNCHANGED << cursor, exited >>

(* Replay mode: the frame under the cursor must be for this very cycle and *)
(* opcode.                                                                 *)
FrameMatches(op) ==
    /\ cursor < Len(session.trace)
    /\ session.trace[cursor + 1].cycle = Fetched.cycle_count
    /\ session.trace[cursor + 1].opcode = op

ReplayInput(op) ==
    /\ ~ Stops /\ replay_mode
    /\ FrameMatches(op)
    /\ DoNondet(op, session.trace[cursor + 1].value)
    /\ cursor' = cursor + 1
    /\ Sink /\ PassFrame
    /\ UNCHANGED exited

(* TraceMismatch: the REPL prints the divergence and returns.              *)
Diverge(op) ==
    /\ ~ Stops /\ replay_mode
    /\ ~ FrameMatches(op)
    /\ DoThrow(op)
    /\ exited' = TRUE
    /\ Sink /\ PassFrame
    /\ UNCHANGED cursor

DebugPass ==
    \/ StopPass \/ PlainPass
    \/ \E op \in {OP_IN, OP_RAND} : FreshInput(op) \/ ReplayInput(op) \/ Diverge(op)

-----------------------------------------------------------------------------
(* The commands.                                                           *)

(* debug_resume: a soft halt is cleared, a natural halt is refused.        *)
Resumable == state.halted \in SoftHalts \cup {HALT_RUNNING}

Resume(target) ==
    /\ Prompt
    /\ Resumable
    /\ target_cycle' = target
    /\ state' = [state EXCEPT !.halted = HALT_RUNNING]
    /\ running' = TRUE
    /\ UNCHANGED << mem, deltas, session, cursor, breakpoints, ring, history_index,
                    rewind, state_file, exited >>
    /\ Frame

(* step 0 is a no-op; the bound MaxCycle limits where a step may start and *)
(* lead, unless the uint64_t sum wraps or is the value for no target.      *)
step(n) ==
    /\ n # 0
    /\ state.cycle_count < MaxCycle
    /\ state.cycle_count + n \notin MaxCycle + 1 .. UINT64_MAX - 1
    /\ Resume((state.cycle_count + n) % U64)

continue == Resume(UINT64_MAX)

CommandFrame == Frame /\ UNCHANGED << session, target_cycle, running >>

(* Mutant of back: the loop starts behind the newest snapshot.             *)
BackSkipsNewest(n) ==
    /\ Prompt
    /\ n # 0 /\ n <= history_index
    /\ rewind' = [active |-> TRUE, idx |-> history_index - 1,
                  left |-> Len(At(history_index - 1).core.deltas),
                  to |-> history_index - n]
    /\ UNCHANGED << state, mem, deltas, cursor, breakpoints, ring, history_index,
                    state_file, exited >>
    /\ CommandFrame

(* back N: refused when the ring does not reach that far.                  *)
back(n) ==
    /\ Prompt
    /\ n # 0 /\ n <= history_index
    /\ rewind' = [active |-> TRUE, idx |-> history_index,
                  left |-> Len(At(history_index).core.deltas),
                  to |-> history_index - n]
    /\ UNCHANGED << state, mem, deltas, cursor, breakpoints, ring, history_index,
                    state_file, exited >>
    /\ CommandFrame

(* Mutant of UndoOne: the iterator does not advance.                       *)
UndoStuck ==
    /\ InBack /\ rewind.idx > rewind.to /\ rewind.left > 0
    /\ mem' = apply_old_value(mem, At(rewind.idx).core.deltas[rewind.left])
    /\ UNCHANGED << state, deltas, cursor, breakpoints, ring, history_index,
                    rewind, state_file, exited >>
    /\ CommandFrame

(* One iteration of the loop over the deltas of ring[idx], in reverse.     *)
UndoOne ==
    /\ InBack /\ rewind.idx > rewind.to /\ rewind.left > 0
    /\ mem' = apply_old_value(mem, At(rewind.idx).core.deltas[rewind.left])
    /\ rewind' = [rewind EXCEPT !.left = @ - 1]
    /\ UNCHANGED << state, deltas, cursor, breakpoints, ring, history_index,
                    state_file, exited >>
    /\ CommandFrame

(* The next older snapshot.                                                *)
UndoNext ==
    /\ InBack /\ rewind.idx > rewind.to /\ rewind.left = 0
    /\ rewind' = [rewind EXCEPT !.idx = @ - 1,
                                !.left = Len(At(rewind.idx - 1).core.deltas)]
    /\ UNCHANGED << state, mem, deltas, cursor, breakpoints, ring, history_index,
                    state_file, exited >>
    /\ CommandFrame

(* The end of `back`: the CPU state and the cursor of the target.          *)
RestoreTo(st, frame) ==
    /\ InBack /\ rewind.idx = rewind.to
    /\ state' = st
    /\ cursor' = IF replay_mode THEN frame ELSE cursor
    /\ history_index' = rewind.to
    /\ rewind' = NotRewinding
    /\ UNCHANGED << mem, deltas, breakpoints, ring, state_file, exited >>
    /\ CommandFrame

Target == At(rewind.to)

TargetState ==
    [state EXCEPT !.cycle_count = Target.core.cycle_count, !.regs = Target.core.regs,
                  !.pc = Target.core.pc, !.sp = Target.core.sp,
                  !.flags = Target.core.flags, !.halted = Target.core.halted]

(* Mutants of FinishBack: the registers, or the cursor, stay behind.       *)
FinishBackOldRegs == RestoreTo([TargetState EXCEPT !.regs = state.regs], Target.cursor)
FinishBackOldCursor == RestoreTo(TargetState, cursor)

FinishBack == RestoreTo(TargetState, Target.cursor)

BackLoop == UndoOne \/ UndoNext \/ FinishBack

(* Mutant of BreakAddr: aligned, not masked.                               *)
BreakAddrUnmasked(a) == a - (a % 4)

(* Breakpoint addresses are masked to the memory and aligned.              *)
BreakAddr(a) == Mask(a) - (Mask(a) % 4)

SetBreakpoints(bps) ==
    /\ Prompt
    /\ breakpoints' = bps
    /\ UNCHANGED << state, mem, deltas, cursor, ring, history_index, rewind,
                    state_file, exited >>
    /\ CommandFrame

breakpoint(a) == SetBreakpoints(breakpoints \cup {BreakAddr(a)})
breakpoint_d(a) == SetBreakpoints(breakpoints \ {BreakAddr(a)})

(* The pc `where` shows and `save` writes.                                 *)
visible_pc ==
    IF state.halted = HALT_RUNNING THEN state.pc ELSE (state.pc - 4) % WORD_MOD

ReplCheckpoint ==
    [frame_index |-> IF replay_mode THEN cursor ELSE 0, halted |-> state.halted,
     flags |-> state.flags, regs |-> state.regs, pc |-> visible_pc, sp |-> state.sp]

(* checkpoint_save truncates before it writes: a failed write leaves an    *)
(* unreadable file, a failed open leaves the file alone.                   *)
save ==
    /\ Prompt
    /\ state_file' \in {ReplCheckpoint, NoFile, state_file}
    /\ UNCHANGED << state, mem, deltas, cursor, breakpoints, ring, history_index,
                    rewind, exited >>
    /\ CommandFrame

(* quit, or the end of the command input.                                  *)
quit ==
    /\ Prompt
    /\ exited' = TRUE
    /\ UNCHANGED << state, mem, deltas, cursor, breakpoints, ring, history_index,
                    rewind, state_file >>
    /\ CommandFrame

Command ==
    \/ continue
    \/ \E n \in BackArgs : back(n)
    \/ \E a \in BreakArgs : breakpoint(a) \/ breakpoint_d(a)
    \/ save
    \/ quit

-----------------------------------------------------------------------------
(* cmd_debug: load the program, install the sink with interval 1, and seed *)
(* the ring with the state before the first pass.                          *)

DInit ==
    /\ session \in Sessions
    /\ mem = load_program(ZeroMemory, session.bin)
    /\ state = [PowerOn EXCEPT !.snap_interval = 1, !.snap_timer = 1]
    /\ deltas = << >>
    /\ snap_sink = TRUE
    /\ dispatch_mode = "ComputedGoto"
    /\ running = FALSE
    /\ cursor = 0
    /\ target_cycle = UINT64_MAX
    /\ breakpoints = {}
    /\ ring = << [core |-> SnapshotOf(state, << >>), cursor |-> 0] >>
    /\ history_index = 0
    /\ rewind = NotRewinding
    /\ state_file = NoFile
    /\ exited = FALSE

DNext == DebugPass \/ BackLoop \/ Command \/ \E n \in StepArgs : step(n)

DSpec == DInit /\ [][DNext]_dvars

(* The REPL's thread keeps executing a command it has begun, and the host  *)
(* answers an IN.  Nothing obliges the user to type another command.       *)
DFairSpec == DSpec /\ WF_dvars(DebugPass) /\ WF_dvars(BackLoop)

=============================================================================
