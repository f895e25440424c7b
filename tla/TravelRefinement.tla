-------------------------- MODULE TravelRefinement --------------------------
(***************************************************************************)
(* The debugger implements the abstract time-travel machine.  The past is  *)
(* the snapshot ring together with the memory each snapshot stands for;    *)
(* the moment the user sees is the real machine while the prompt is shown, *)
(* and the snapshot under history_index while a command is executing.      *)
(***************************************************************************)
EXTENDS DebugHistory

Moment(cycle_count, regs, pc, sp, flags, frame, memory) ==
    [cycle_count |-> cycle_count, regs |-> regs, pc |-> pc, sp |-> sp,
     flags |-> flags, cursor |-> frame, mem |-> memory]

MomentOf(i) ==
    Moment(ring[i].core.cycle_count, ring[i].core.regs, ring[i].core.pc,
           ring[i].core.sp, ring[i].core.flags, ring[i].cursor, mem_at[i])

Past == [i \in 1 .. Len(ring) |-> MomentOf(i)]

(* A DIV trap has put pc back on the DIV (DoDivZero).                      *)
FetchedPc ==
    IF state.halted = HALT_DIV_ZERO THEN (state.pc + 4) % WORD_MOD ELSE state.pc

Seen ==
    IF Prompt
    THEN Moment(state.cycle_count, state.regs, FetchedPc, state.sp, state.flags,
                cursor, mem)
    ELSE MomentOf(history_index + 1)

TT == INSTANCE TimeTravel WITH
          Capacity <- kRingCap, past <- Past, pos <- history_index + 1, now <- Seen

(* The debugger implements the abstract machine: whatever mix of step,     *)
(* continue, breakpoints and back the user types, what the prompt shows    *)
(* (registers, pc, flags, counters, cursor and every byte of memory) is    *)
(* the moment the abstract machine shows, running forward only adds to the *)
(* past, and back only moves in it (install_debug_sink and the `back`      *)
(* handler of cmd_debug_run).                                              *)
ImplementsTimeTravel == TT!Spec

=============================================================================
