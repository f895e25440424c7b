------------------------------ MODULE VMHistory ------------------------------
(***************************************************************************)
(* The engine of module VM with history variables, and what its delta      *)
(* checkpointing promises: the undo log always leads back to the memory of *)
(* the last snapshot, its run counts lose no STORE, and snapshots come     *)
(* every snap_interval cycles however the run was stopped and resumed.     *)
(* The history variables are not in the code and no action reads them.     *)
(***************************************************************************)
EXTENDS VM

VARIABLES
    base,    \* memory when the log was last empty by a drain or a reset
    stores,  \* STOREs retired since then
    armed    \* cycle_count when snap_timer was last loaded

histVars == << base, stores, armed >>
hvars == << vmVars, histVars >>

HInit ==
    /\ Init
    /\ base = mem
    /\ stores = 0
    /\ armed = 0

(* A pass hands the log over before the handler runs.                      *)
HPass ==
    /\ Pass
    /\ base' = IF SnapFires THEN mem ELSE base
    /\ stores' = (IF SnapFires THEN 0 ELSE stores)
                 + (IF running' /\ decode_op(Instr) = OP_STORE THEN 1 ELSE 0)
    /\ armed' = IF SnapFires THEN state'.cycle_count ELSE armed

HDrains ==
    /\ Drains
    /\ base' = mem
    /\ stores' = 0
    /\ UNCHANGED armed

HReset ==
    /\ Loads
    /\ base' = mem'
    /\ stores' = 0
    /\ UNCHANGED armed

HArms ==
    /\ Arms
    /\ armed' = state.cycle_count
    /\ UNCHANGED << base, stores >>

HClient == Client /\ UNCHANGED histVars

HNext == HPass \/ HDrains \/ HReset \/ HArms \/ HClient

HSpec == HInit /\ [][HNext]_hvars

-----------------------------------------------------------------------------
(* Undoing the log newest-first gives the memory of the last snapshot,     *)
(* whatever mix of folded, capped, unaligned, overlapping and wrapping     *)
(* STOREs filled it (vm.cpp label_STORE, VM::apply_old_value).             *)
UndoLog == undo_log(deltas, mem) = base

(* The STOREs that a log accounts for.                                     *)
RunTotal(log) ==
    LET total[k \in 0 .. Len(log)] ==
            IF k = 0 THEN 0 ELSE total[k - 1] + log[k].run_count
    IN  total[Len(log)]

(* The run-length fold counts every STORE once: no run_count wraps and no  *)
(* STORE goes unlogged (vm.cpp label_STORE, the run_count < 255 test).     *)
RunCountsExact == RunTotal(deltas) = stores

(* The timer never reaches run() at zero, where its countdown would wrap   *)
(* and hide every snapshot for 2^32 cycles, and it always says how many    *)
(* cycles are left to the next snapshot, across soft halts and resumes     *)
(* (the IMPORTANT comment of TAIL_DISPATCH in vm.cpp).                     *)
SnapCadence ==
    state.snap_interval > 0 =>
        /\ state.snap_timer \in 1 .. state.snap_interval
        /\ state.snap_timer + (state.cycle_count - armed) = state.snap_interval

=============================================================================
