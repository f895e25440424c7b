--------------------------- MODULE MC_RecordReplay ---------------------------
(***************************************************************************)
(* Record, replay, save and restore on the scaled machine.  The programs   *)
(* read two inputs; one stores before it reads, one traps on an input.     *)
(* Replaying the trace of one with the other is a rebuilt program.         *)
(***************************************************************************)
EXTENDS ReplayHistory

(* A store, two reads, and a load of what was stored.                      *)
StoreThenRead == BytesOf(<< encode(OP_LI, 1, 0, 7), encode(OP_STORE, 1, 0, 40),
                            encode(OP_IN, 0, 0, 0), encode(OP_RAND, 1, 0, 0),
                            encode(OP_LOAD, 1, 0, 40) >>)

(* The first input decides whether the second is reached or DIV traps.     *)
ReadThenDivide == BytesOf(<< encode(OP_IN, 1, 0, 0), encode(OP_DIV, 0, 1, 0),
                             encode(OP_IN, 0, 0, 0), encode(OP_STORE, 0, 0, 41) >>)

MCPrograms == { StoreThenRead, ReadThenDivide }

OneProgram == { StoreThenRead }

=============================================================================
