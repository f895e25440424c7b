----------------------------- MODULE MC_Debugger -----------------------------
(***************************************************************************)
(* Debugger sessions on the scaled machine of MC_VM.  The programs store   *)
(* to overlapping cells and over their own code, trap, loop, and read      *)
(* inputs; the traces are the ones `record` writes for these programs.     *)
(***************************************************************************)
EXTENDS TravelRefinement

frame(c, op, v) == [cycle |-> c, opcode |-> op, value |-> v]

Fresh(ws) == [bin |-> BytesOf(ws), replay_mode |-> FALSE, trace |-> << >>]
Replay(ws, t) == [bin |-> BytesOf(ws), replay_mode |-> TRUE, trace |-> t]

(* Three overlapping stores, one of an input.                              *)
Overlap == << encode(OP_LI, 1, 0, 27), encode(OP_STORE, 1, 0, 32), encode(OP_IN, 0, 0, 0),
              encode(OP_STORE, 0, 0, 34), encode(OP_STORE, 1, 0, 32) >>

(* A loop that overwrites its own first instruction with an input.         *)
SelfModify == << encode(OP_RAND, 1, 0, 0), encode(OP_STORE, 1, 0, 62),
                 encode(OP_IN, 0, 0, 0), encode(OP_JNZ, 1, 0, 4) >>

(* A trap after a store.                                                   *)
Trapping == << encode(OP_LI, 1, 0, 9), encode(OP_STORE, 1, 0, 40), encode(OP_DIV, 1, 0, 0) >>

(* Execution runs past the last word: pc leaves the 20-bit range.          *)
RunsOffTheEnd ==
    << encode(OP_LI, 0, 0, 1), encode(OP_LI, 1, 0, 2), encode(OP_JUMP, 0, 0, 60) >>
    \o [i \in 1 .. 12 |-> 0] \o << encode(OP_LI, 1, 0, 3) >>

(* Two inputs in a row, and the trace of them.                             *)
TwoInputs ==
    Replay(<< encode(OP_IN, 0, 0, 0), encode(OP_IN, 1, 0, 0) >>,
           << frame(1, OP_IN, 4), frame(2, OP_IN, 7) >>)

Recorded ==
    Replay(SelfModify, << frame(1, OP_RAND, 5), frame(3, OP_IN, 1), frame(6, OP_IN, 9) >>)

MCSessions ==
    { Fresh(Overlap), Fresh(Trapping), Fresh(<< encode(13, 0, 0, 0) >>), Recorded }

OverlapSession == { Fresh(Overlap) }
TwoInputsSession == { TwoInputs }
RecordedSession == { Recorded }
TrappingSession == { Fresh(Trapping) }
RunsOffSession == { Fresh(RunsOffTheEnd) }

MCPrograms == { s.bin : s \in MCSessions \cup RunsOffSession \cup TwoInputsSession }

=============================================================================
