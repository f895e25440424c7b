---------------------------- MODULE DebugHistory ----------------------------
(***************************************************************************)
(* The debugger of module Debugger with history variables, and what time   *)
(* travel promises.  The history variables are not in the code and no      *)
(* action reads them.                                                      *)
(***************************************************************************)
EXTENDS Debugger

CONSTANT None   \* no instruction is waiting

VARIABLES
    mem_at,   \* the whole memory at each snapshot of the ring
    goal,     \* cycle the `step` in progress, or just stopped, should stop at
    pending   \* address fetched by the pass that stopped, not yet dispatched

hist == << mem_at, goal, pending >>
dhvars == << dvars, hist >>

DHInit ==
    /\ DInit
    /\ mem_at = << mem >>
    /\ goal = 0
    /\ pending = None

DHPass ==
    /\ DebugPass
    /\ mem_at' = IF SnapFires THEN Pushed(mem_at, mem) ELSE mem_at
    /\ pending' = IF Stops THEN state.pc ELSE None
    /\ goal' = IF running' \/ Stops THEN goal ELSE 0

DHBack ==
    /\ BackLoop
    /\ pending' = IF ~ InBack' /\ rewind.to > 0
                  THEN (state'.pc - 4) % WORD_MOD
                  ELSE None
    /\ goal' = 0
    /\ UNCHANGED mem_at

(* An argument that makes the uint64_t sum wrap puts the target in the     *)
(* past: the run should stop after one cycle.                              *)
DHStep ==
    /\ \E n \in StepArgs :
          /\ step(n)
          /\ goal' = state.cycle_count + (IF state.cycle_count + n < U64 THEN n ELSE 1)
    /\ UNCHANGED << mem_at, pending >>

DHCommand ==
    /\ Command
    /\ goal' = IF running' THEN 0 ELSE goal
    /\ UNCHANGED << mem_at, pending >>

DHNext == DHPass \/ DHBack \/ DHStep \/ DHCommand

DHSpec == DHInit /\ [][DHNext]_dhvars

DHFairSpec == DHSpec /\ WF_dhvars(DHPass) /\ WF_dhvars(DHBack)

-----------------------------------------------------------------------------
(* Every value has its C++ type.                                           *)
DTypeOK ==
    /\ TypeOK
    /\ session \in Sessions
    /\ cursor \in Nat
    /\ target_cycle \in 0 .. UINT64_MAX
    /\ breakpoints \subseteq Word
    /\ ring \in Seq(ReplSnapshot)
    /\ history_index \in Nat
    /\ rewind \in Rewind
    /\ state_file \in CheckpointState \cup {NoFile}
    /\ exited \in BOOLEAN

(* The ring is a contiguous history: it holds at most kRingCap snapshots,  *)
(* one per cycle without a gap, and history_index is the place of one of   *)
(* them (install_debug_sink: the resize, push_back and pop_front).         *)
RingContiguous ==
    /\ history_index + 1 \in 1 .. Len(ring) /\ Len(ring) <= kRingCap
    /\ \A i \in 1 .. Len(ring) - 1 :
          ring[i + 1].core.cycle_count = ring[i].core.cycle_count + 1

(* At every prompt the memory is, byte for byte, the memory of the         *)
(* snapshot under history_index: after `back N` the undone STOREs are gone *)
(* and no other byte has changed (the loop of `back` in cmd_debug_run).    *)
RewindExact == Prompt => mem = mem_at[history_index + 1]

(* Each snapshot's log leads from its memory back to the one before it,    *)
(* and nothing is pending in the engine while the user is at the prompt.   *)
RingLeadsBack ==
    /\ ~ running => deltas = << >>
    /\ \A i \in 1 .. Len(ring) - 1 :
          LeadsBack(ring[i + 1].core.deltas, mem_at[i + 1], mem_at[i])

(* history_index points at the snapshot of the applied VM state: at the    *)
(* prompt registers, counters and replay cursor are those of that snapshot *)
(* (the comment on CmdDebug::ring).  A DIV trap has moved pc back.         *)
PromptMatchesRing ==
    Prompt =>
        LET snap == At(history_index)
        IN  /\ state.cycle_count = snap.core.cycle_count
            /\ state.regs = snap.core.regs
            /\ state.sp = snap.core.sp
            /\ state.flags = snap.core.flags
            /\ cursor = snap.cursor
            /\ state.pc = IF state.halted = HALT_DIV_ZERO
                          THEN (snap.core.pc - 4) % WORD_MOD ELSE snap.core.pc

(* No frame is consumed before its time: the frames behind the cursor are  *)
(* all of cycles the machine has reached, also after `back` rewound it.    *)
CursorInPast ==
    ~ InBack => \A i \in 1 .. cursor : session.trace[i].cycle <= state.cycle_count

(* step N stops after exactly N cycles unless something else stops it      *)
(* earlier, and the run never goes past its target.  For the arguments     *)
(* that make cycle_count + N wrap (step -1), the run stops after one cycle *)
(* or, when the sum is the very UINT64_MAX that means no target, it is a   *)
(* continue.                                                               *)
StepExact ==
    /\ state.halted = HALT_STEP /\ ~ InBack => state.cycle_count = goal
    /\ running /\ target_cycle # UINT64_MAX => state.cycle_count < goal

(* A step command gives the prompt back (or the session ends).             *)
StepReturns == (running /\ target_cycle # UINT64_MAX) ~> ~ running

(* A back command gives the prompt back.                                   *)
BackReturns == InBack ~> Prompt

-----------------------------------------------------------------------------
(* What comments and documents say, and the code does not do.              *)

(* main.cpp: "Resuming after a halt rewinds pc by 4 and cycle_count by 1   *)
(* so the first TAIL_DISPATCH on resume re-fetches / re-cycles the exact   *)
(* instruction we stopped at."  So the next pass after a stop fetches the  *)
(* instruction that the stop left waiting.                                 *)
ResumesAtHaltedInstruction ==
    [][DHPass /\ pending # None => state.pc = pending]_dhvars

(* main.cpp, `back`: the cursor is rewound "so re-running IN/RAND through  *)
(* the rewound cycles consumes the same trace frames in the same order".   *)
(* So debugging a trace with the program it was recorded from never ends   *)
(* in a divergence.                                                        *)
NoSpuriousDivergence ==
    [][ \A op \in {OP_IN, OP_RAND} : ~ Diverge(op) ]_dhvars

(* README: `where` "rewinds pc by 4 when halted so the just-halted-at      *)
(* instruction is shown"; vm.cpp rewinds pc on a DIV trap "so a Phase-4    *)
(* debugger can highlight it".  So after the trap `where` shows a DIV.     *)
WhereShowsTrap ==
    Prompt /\ state.halted = HALT_DIV_ZERO =>
        decode_op(mem_load_u32(mem, visible_pc)) = OP_DIV

(* main.cpp, `breakpoint`: the address is masked "so a BP address is       *)
(* always comparable against fetch-time pc values".  So no pass dispatches *)
(* an instruction that lies at a breakpoint.                               *)
BreakpointsAlwaysHit ==
    [][PlainPass => Mask(state.pc) \notin breakpoints]_dhvars

(* main.cpp, above the REPL: its `save` "produces a checkpoint that an     *)
(* out-of-band `restore` can replay identically".  cmd_restore resumes one *)
(* cycle before the next unread frame, so the stopped instruction must be  *)
(* the one that reads that frame.                                          *)
ReplSaveRestorable ==
    [][ /\ save /\ state_file' = ReplCheckpoint
        /\ replay_mode /\ state.halted \in SoftHalts /\ cursor < Len(session.trace)
        => session.trace[cursor + 1].cycle = state.cycle_count ]_dhvars

=============================================================================
