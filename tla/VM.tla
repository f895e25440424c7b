--------------------------------- MODULE VM ---------------------------------
(***************************************************************************)
(* The execution engine (vm.hpp, vm.cpp): the VM class as a component.     *)
(*                                                                         *)
(* One action is one pass of TAIL_DISPATCH: fetch, advance pc and          *)
(* cycle_count, count the snapshot timer down, give a due snapshot to the  *)
(* sink, reload the timer, honour a soft halt, decode, and run the         *)
(* opcode's handler.  Nothing interleaves with a pass: run() is            *)
(* single-threaded and the sink is a callback inside it.  The client's     *)
(* calls of the other member functions happen while run() is not on the    *)
(* stack.                                                                  *)
(*                                                                         *)
(* run() has two bodies, selected by dispatch_mode.  They differ in one    *)
(* place only: the NaiveSwitch loop tests `halted` before every pass, the  *)
(* ComputedGoto chain does not test it at all except after a snapshot.     *)
(***************************************************************************)
EXTENDS Machine

CONSTANTS
    Programs,   \* the .bin files a client may load: sequences of bytes
    Inputs,     \* words the IN and RAND hooks may return
    NoHook,     \* stands for a hook that is not set (io_.in, io_.rand)
    Intervals,  \* arguments of set_snapshot_interval
    MaxCycle    \* bound: no pass starts once cycle_count reaches it

ASSUME VMAssumption ==
    /\ Programs \subseteq Seq(Byte)
    /\ \A p \in Programs : ProgramFits(p)
    /\ Inputs \subseteq Word /\ NoHook \notin Word
    /\ Intervals \subseteq Word
    /\ MaxCycle \in Nat

VARIABLES
    state,          \* state_ : the VMState
    mem,            \* mem_ : the data memory
    deltas,         \* deltas_ : undo log since the last snapshot
    snap_sink,      \* TRUE when snap_sink_ is set
    dispatch_mode,  \* "ComputedGoto" or "NaiveSwitch"
    running         \* TRUE while run() is on the stack

vmVars == << state, mem, deltas, snap_sink, dispatch_mode, running >>

DispatchModes == {"ComputedGoto", "NaiveSwitch"}

(* The halt reasons a sink passes to request_halt.                         *)
SoftHalts == {HALT_CHECKPOINT, HALT_BREAKPOINT, HALT_STEP}

-----------------------------------------------------------------------------
(* The common part of a pass, as functions of the state before it.         *)

Instr == mem_load_u32(mem, state.pc)

(* After the fetch, the two increments and the countdown.  snap_timer is a *)
(* uint32_t: 0 counts down to the largest word.                            *)
Fetched ==
    [state EXCEPT
        !.pc = (@ + 4) % WORD_MOD,
        !.cycle_count = @ + 1,
        !.snap_timer = IF state.snap_interval > 0 THEN (@ - 1) % WORD_MOD ELSE @]

SnapFires == state.snap_interval > 0 /\ Fetched.snap_timer = 0

(* What the sink receives.                                                 *)
Fired == SnapshotOf(Fetched, deltas)

(* Mutant of Ticked: the timer is not reloaded.                            *)
TickedOnce == Fetched

(* After the snapshot: the timer is reloaded before `halted` is looked at. *)
Ticked ==
    [Fetched EXCEPT !.snap_timer = IF SnapFires THEN state.snap_interval ELSE @]

(* Mutant of Log: the snapshot copies the log and leaves it in place.      *)
LogKept == deltas

(* The log after the snapshot took it (or cleared it: no sink).            *)
Log == IF SnapFires THEN << >> ELSE deltas

CanFetch ==
    /\ running
    /\ dispatch_mode = "NaiveSwitch" => state.halted = HALT_RUNNING
    /\ state.cycle_count < MaxCycle

(* The pass reaches the decoder: no snapshot was due, or nobody wants to   *)
(* stop.  A stale halt reason stops ComputedGoto at the first snapshot.    *)
Dispatches(op) ==
    /\ CanFetch
    /\ SnapFires => state.halted = HALT_RUNNING
    /\ decode_op(Instr) = op

dst == decode_dst(Instr)
src == decode_src(Instr)
imm == decode_imm(Instr)

Frame == UNCHANGED << snap_sink, dispatch_mode >>

(* The handler writes only the CPU state and goes on to the next pass.     *)
Retire(st) ==
    /\ state' = st
    /\ deltas' = Log
    /\ UNCHANGED << mem, running >>
    /\ Frame

(* The handler returns from run().                                         *)
Trap(st) ==
    /\ state' = st
    /\ deltas' = Log
    /\ running' = FALSE
    /\ UNCHANGED mem
    /\ Frame

-----------------------------------------------------------------------------
(* The opcode handlers.                                                    *)

DoHALT == Dispatches(OP_HALT) /\ Trap([Ticked EXCEPT !.halted = HALT_NORMAL])

DoLOAD ==
    /\ Dispatches(OP_LOAD)
    /\ Retire([Ticked EXCEPT !.regs[dst] = mem_load_u32(mem, imm)])

(* Mutant of DoSTORE: a store that folds into the log is not written.      *)
DoSTOREOnce ==
    /\ Dispatches(OP_STORE)
    /\ state' = Ticked
    /\ deltas' = LogStore(Log, mem, imm)
    /\ mem' = IF Folds(Log, imm) THEN mem
              ELSE mem_store_u32(mem, imm, state.regs[dst])
    /\ UNCHANGED running
    /\ Frame

DoSTORE ==
    /\ Dispatches(OP_STORE)
    /\ state' = Ticked
    /\ deltas' = LogStore(Log, mem, imm)
    /\ mem' = mem_store_u32(mem, imm, state.regs[dst])
    /\ UNCHANGED running
    /\ Frame

DoALU(op) ==
    /\ Dispatches(op)
    /\ Retire([Ticked EXCEPT
                 !.regs[dst] = AluResult(op, state.regs[dst], state.regs[src]),
                 !.flags = AluFlags(op, state.regs[dst], state.regs[src])])

DoDIV == state.regs[src] # 0 /\ DoALU(OP_DIV)

(* Division by zero: pc goes back to the DIV.                              *)
DoDivZero ==
    /\ state.regs[src] = 0
    /\ Dispatches(OP_DIV)
    /\ Trap([Ticked EXCEPT !.pc = (@ - 4) % WORD_MOD, !.halted = HALT_DIV_ZERO])

DoJUMP == Dispatches(OP_JUMP) /\ Retire([Ticked EXCEPT !.pc = imm])

DoJNZ ==
    /\ Dispatches(OP_JNZ)
    /\ Retire([Ticked EXCEPT !.pc = IF state.regs[dst] # 0 THEN imm ELSE @])

(* IN and RAND: the hook is called with the cycle of this pass and answers *)
(* v; without a hook the instruction does nothing.                         *)
DoNondet(op, v) ==
    /\ Dispatches(op)
    /\ Retire([Ticked EXCEPT !.regs[dst] = IF v = NoHook THEN @ ELSE v])

(* The hook throws (TraceMismatch): run() is unwound, `halted` stays.      *)
DoThrow(op) == Dispatches(op) /\ Trap(Ticked)

DoLI == Dispatches(OP_LI) /\ Retire([Ticked EXCEPT !.regs[dst] = imm])

(* The opcode field is past the table: pc stays behind the instruction.    *)
DoUnknown ==
    \E op \in OP_COUNT .. OP_SPACE - 1 :
        Dispatches(op) /\ Trap([Ticked EXCEPT !.halted = HALT_UNKNOWN_OP])

(* The handlers that read nothing from the world.                          *)
Deterministic ==
    \/ DoHALT \/ DoLOAD \/ DoSTORE
    \/ DoALU(OP_ADD) \/ DoALU(OP_SUB) \/ DoALU(OP_MUL) \/ DoDIV \/ DoDivZero
    \/ DoJUMP \/ DoJNZ \/ DoLI \/ DoUnknown

(* A snapshot was due and `halted` is r afterwards: run() returns r before *)
(* the fetched instruction is decoded.                                     *)
SnapReturn(r) ==
    /\ CanFetch
    /\ SnapFires
    /\ r # HALT_RUNNING
    /\ Trap([Ticked EXCEPT !.halted = r])

(* The sink calls request_halt(r), or leaves a stale halt reason alone.    *)
SoftHalt(r) == snap_sink /\ SnapReturn(r)
StaleHalt == SnapReturn(state.halted)

(* NaiveSwitch: the loop head sees a halt.                                 *)
LoopExit ==
    /\ running
    /\ dispatch_mode = "NaiveSwitch"
    /\ state.halted # HALT_RUNNING
    /\ running' = FALSE
    /\ UNCHANGED << state, mem, deltas >>
    /\ Frame

-----------------------------------------------------------------------------
(* The member functions a client calls between runs.                       *)

Run ==
    /\ ~running
    /\ running' = TRUE
    /\ UNCHANGED << state, mem, deltas >>
    /\ Frame

(* reset_state followed by load_program.                                   *)
ResetAndLoad(p) ==
    /\ ~running
    /\ ProgramFits(p)
    /\ state' = PowerOn
    /\ mem' = load_program(ZeroMemory, p)
    /\ deltas' = << >>
    /\ UNCHANGED running
    /\ Frame

(* Mutant of reset_cpu_for_reuse: the cycle counter goes on.               *)
reset_keeps_count ==
    /\ ~running
    /\ state' = [PowerOn EXCEPT !.cycle_count = state.cycle_count]
    /\ deltas' = << >>
    /\ UNCHANGED << mem, running >>
    /\ Frame

reset_cpu_for_reuse ==
    /\ ~running
    /\ state' = PowerOn
    /\ deltas' = << >>
    /\ UNCHANGED << mem, running >>
    /\ Frame

set_snapshot_interval(n) ==
    /\ ~running
    /\ state' = [state EXCEPT !.snap_interval = n, !.snap_timer = n]
    /\ UNCHANGED << mem, deltas, running >>
    /\ Frame

set_snapshot_sink(b) ==
    /\ ~running
    /\ snap_sink' = b
    /\ UNCHANGED << state, mem, deltas, dispatch_mode, running >>

set_dispatch_mode(m) ==
    /\ ~running
    /\ dispatch_mode' = m
    /\ UNCHANGED << state, mem, deltas, snap_sink, running >>

(* A client's own take_snapshot: drains the log.                           *)
take_snapshot ==
    /\ ~running
    /\ deltas' = << >>
    /\ UNCHANGED << state, mem, running >>
    /\ Frame

(* set_state with a soft halt cleared: how every client resumes.           *)
ClearHalt ==
    /\ ~running
    /\ state.halted \in SoftHalts
    /\ state' = [state EXCEPT !.halted = HALT_RUNNING]
    /\ UNCHANGED << mem, deltas, running >>
    /\ Frame

-----------------------------------------------------------------------------
(* The engine driven by an arbitrary client, sink and host.                *)

Init ==
    /\ \E p \in Programs : mem = load_program(ZeroMemory, p)
    /\ state = PowerOn
    /\ deltas = << >>
    /\ snap_sink = FALSE
    /\ dispatch_mode = "ComputedGoto"
    /\ running = FALSE

Pass ==
    \/ Deterministic
    \/ \E op \in {OP_IN, OP_RAND} :
          DoThrow(op) \/ \E v \in Inputs \cup {NoHook} : DoNondet(op, v)
    \/ \E r \in SoftHalts : SoftHalt(r)
    \/ StaleHalt

Drains == take_snapshot \/ reset_cpu_for_reuse

Arms == \E n \in Intervals : set_snapshot_interval(n)

Loads == \E p \in Programs : ResetAndLoad(p)

Client ==
    \/ Run \/ ClearHalt \/ LoopExit
    \/ \E b \in BOOLEAN : set_snapshot_sink(b)
    \/ \E m \in DispatchModes : set_dispatch_mode(m)

Next == Pass \/ Client \/ Arms \/ Drains \/ Loads

Spec == Init /\ [][Next]_vmVars

(* Every value has its C++ type.                                           *)
TypeOK ==
    /\ state \in VMState
    /\ mem \in Memory
    /\ deltas \in Seq(MemDelta)
    /\ snap_sink \in BOOLEAN
    /\ dispatch_mode \in DispatchModes
    /\ running \in BOOLEAN

=============================================================================
