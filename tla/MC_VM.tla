-------------------------------- MODULE MC_VM --------------------------------
(***************************************************************************)
(* A machine of 8-valued bytes, two registers and 64 bytes of memory in 4  *)
(* pages, on which every program of three instructions from the menu runs. *)
(* The menu stores to one cell, to a cell that overlaps it without being   *)
(* aligned, and across the end of the memory.                              *)
(***************************************************************************)
EXTENDS VMHistory

Menu == { encode(OP_STORE, 1, 0, 32), encode(OP_STORE, 1, 0, 34),
          encode(OP_STORE, 0, 0, 62) }

MCPrograms ==
    { BytesOf(<< encode(OP_LI, 1, 0, 27) >> \o p) : p \in [1 .. 3 -> Menu] }
    \cup
    { BytesOf(<< encode(OP_IN, 0, 0, 0), encode(OP_DIV, 1, 0, 0),
                 encode(OP_MUL, 0, 0, 0), encode(OP_JNZ, 0, 0, 0) >>),
      BytesOf(<< encode(OP_RAND, 1, 0, 0), encode(OP_LOAD, 0, 0, 0),
                 encode(OP_ADD, 0, 1, 0), encode(OP_JUMP, 0, 0, 20),
                 0, encode(OP_SUB, 0, 1, 0), encode(15, 0, 0, 0) >>) }

=============================================================================
