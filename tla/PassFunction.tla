---------------------------- MODULE PassFunction ----------------------------
(***************************************************************************)
(* One pass of the engine as a function: the point that a pass leaves is   *)
(* determined by the point it starts from and, for IN and RAND, by the     *)
(* word its hook answers.  Snapshots and the undo log do not enter.  The   *)
(* properties and proofs that compare two runs are stated with it;         *)
(* EngineLemmas shows that the handlers of module VM compute it.           *)
(***************************************************************************)
EXTENDS VM

(* Where a run is: the CPU state without the snapshot timer, and the       *)
(* memory.                                                                 *)
Here == [st |-> [state EXCEPT !.snap_interval = 0, !.snap_timer = 0], mem |-> mem]

(* A point of a run: CPU state without the snapshot timer, and memory.     *)
CoreState == [cycle_count : Nat, regs : [Reg -> Word], pc : Word, sp : Word,
              flags : 0 .. 7, halted : HaltReason, snap_interval : {0}, snap_timer : {0}]
Point == [st : CoreState, mem : Memory]

(* The point at which a run of program p starts.                           *)
Booted(p) == [st |-> PowerOn, mem |-> load_program(ZeroMemory, p)]

Op(e)    == decode_op(mem_load_u32(e.mem, e.st.pc))
Dst(e)   == decode_dst(mem_load_u32(e.mem, e.st.pc))
Src(e)   == decode_src(mem_load_u32(e.mem, e.st.pc))
Imm(e)   == decode_imm(mem_load_u32(e.mem, e.st.pc))
Reads(e) == Op(e) \in {OP_IN, OP_RAND}

ALU == {OP_ADD, OP_SUB, OP_MUL, OP_DIV}
DivZero(e) == Op(e) = OP_DIV /\ e.st.regs[Src(e)] = 0

(* The pass at e does not return from run().                               *)
Stays(e) == Op(e) # OP_HALT /\ Op(e) < OP_COUNT /\ ~ DivZero(e)

(* What a pass at e that reads the word v leaves.                          *)
ExecReg(e, v) ==
    CASE Op(e) = OP_LOAD -> mem_load_u32(e.mem, Imm(e))
      [] Op(e) = OP_LI -> Imm(e)
      [] Reads(e) -> v
      [] OTHER -> AluResult(Op(e), e.st.regs[Dst(e)], e.st.regs[Src(e)])

ExecRegs(e, v) ==
    IF Stays(e) /\ Op(e) \notin {OP_STORE, OP_JUMP, OP_JNZ}
    THEN [e.st.regs EXCEPT ![Dst(e)] = ExecReg(e, v)] ELSE e.st.regs

ExecPc(e) ==
    IF Op(e) = OP_JUMP \/ (Op(e) = OP_JNZ /\ e.st.regs[Dst(e)] # 0) THEN Imm(e)
    ELSE IF DivZero(e) THEN (((e.st.pc + 4) % WORD_MOD) - 4) % WORD_MOD
    ELSE (e.st.pc + 4) % WORD_MOD

ExecFlags(e) ==
    IF Op(e) \in ALU /\ ~ DivZero(e)
    THEN AluFlags(Op(e), e.st.regs[Dst(e)], e.st.regs[Src(e)]) ELSE e.st.flags

ExecHalted(e) ==
    IF Op(e) = OP_HALT THEN HALT_NORMAL
    ELSE IF DivZero(e) THEN HALT_DIV_ZERO
    ELSE IF Op(e) >= OP_COUNT THEN HALT_UNKNOWN_OP
    ELSE e.st.halted

ExecMem(e) ==
    IF Op(e) = OP_STORE THEN mem_store_u32(e.mem, Imm(e), e.st.regs[Dst(e)]) ELSE e.mem

Exec(e, v) ==
    [st |-> [cycle_count |-> e.st.cycle_count + 1, regs |-> ExecRegs(e, v),
             pc |-> ExecPc(e), sp |-> e.st.sp, flags |-> ExecFlags(e),
             halted |-> ExecHalted(e), snap_interval |-> 0, snap_timer |-> 0],
     mem |-> ExecMem(e)]

=============================================================================
