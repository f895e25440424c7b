----------------------------- MODULE Benchmarks -----------------------------
(***************************************************************************)
(* The commands that drive a built-in program: the demo, --benchmark,      *)
(* --bench-dispatch-cmp, --bench-back and --bench-back-sweep (main.cpp).   *)
(* The last two are the second client of the engine's time travel: they    *)
(* keep a snapshot ring of their own, which starts empty, and rewind and   *)
(* step forward in a loop.  Time is left out; what remains is what is      *)
(* being timed and the checks that guard it.  A cell of the sweep has its  *)
(* own VM and ring and is a configuration of its own.                      *)
(***************************************************************************)
EXTENDS VM

CONSTANTS
    Configs,              \* the command lines: [cmd, interval, depth]
    kBenchmarkLoopCount,  \* iterations of the workload, 1024 in the code
    kCell,                \* the cell the programs store to, 0x100 in the code
    kBenchRingCap,        \* capacity of the ring, 256 in the code
    n_iters,              \* timed iterations
    NoTarget              \* UINT64_MAX in target_cycle

Commands == {"demo", "benchmark", "bench-dispatch-cmp", "bench-back", "bench-back-sweep"}

(* The code has eight registers, a cell beyond the 12 instructions, and a  *)
(* ring of 256, which the 9219 cycles of the workload fill; only the back  *)
(* benchmarks take snapshots, the first of them before the workload ends.  *)
ASSUME BenchmarksAssumption ==
    /\ NREGS >= 8
    /\ kBenchmarkLoopCount \in 1 .. MEM_SIZE - 1
    /\ kCell \in 48 .. MEM_SIZE - 4
    /\ kBenchRingCap \in 1 .. 9 * kBenchmarkLoopCount + 1
    /\ n_iters \in Nat /\ NoTarget \notin Nat
    /\ Configs \subseteq [cmd : Commands, interval : Word, depth : Nat]
    /\ \A c \in Configs :
          /\ c.interval <= 9 * kBenchmarkLoopCount
          /\ c.interval > 0 <=> c.cmd \in {"bench-back", "bench-back-sweep"}
          /\ c.cmd = "bench-back" => c.interval = 1 /\ c.depth \in 1 .. kBenchRingCap - 1

VARIABLES
    config,         \* the command line of this process
    stage,          \* where the command is, see Stages
    rounds,         \* iterations done, the warmup included
    exit_code,      \* of the process; 0 while it runs
    ring,           \* the deque of Snapshots, oldest first
    history_index,  \* counted from 0
    target_cycle    \* of do_step

ringVars == << ring, history_index, target_cycle >>
benchVars == << config, stage, rounds, exit_code, ringVars >>
bvars == << vmVars, benchVars >>

(* loaded: before the first run; sanity: the first run; rest: between two  *)
(* iterations; reset, rewound: inside one, before its run; round: its run. *)
Stages == {"loaded", "sanity", "rest", "reset", "rewound", "round", "done", "undefined"}

IsBack == config.cmd \in {"bench-back", "bench-back-sweep"}

-----------------------------------------------------------------------------
(* The built-in programs.                                                  *)

workload ==
    << encode(OP_LI, 0, 0, kBenchmarkLoopCount), encode(OP_LI, 1, 0, 1),
       encode(OP_ADD, 2, 1, 0), encode(OP_ADD, 3, 1, 0), encode(OP_SUB, 4, 0, 0),
       encode(OP_MUL, 5, 1, 0), encode(OP_DIV, 6, 1, 0),
       encode(OP_STORE, 2, 0, kCell), encode(OP_LOAD, 7, 0, kCell),
       encode(OP_SUB, 0, 1, 0), encode(OP_JNZ, 0, 0, 8), encode(OP_HALT, 0, 0, 0) >>

demo ==
    << encode(OP_LI, 0, 0, 5), encode(OP_LI, 1, 0, 7), encode(OP_LI, 2, 0, 5),
       encode(OP_ADD, 2, 1, 0), encode(OP_STORE, 2, 0, kCell),
       encode(OP_LOAD, 3, 0, kCell), encode(OP_HALT, 0, 0, 0) >>

Image(words) == load_program(ZeroMemory, BytesOf(words))

(* Mutant of expected: the HALT is not counted.                            *)
expected_no_halt == 2 + 9 * kBenchmarkLoopCount

expected == 2 + 9 * kBenchmarkLoopCount + 1

(* The assertions of the demo, and the sanity check of the others.         *)
DemoPasses ==
    /\ state.halted = HALT_NORMAL /\ state.cycle_count = 7
    /\ state.regs[0] = 5 /\ state.regs[1] = 7
    /\ state.regs[2] = 12 /\ state.regs[3] = 12
    /\ mem_load_u32(mem, kCell) = 12

Sane ==
    IF config.cmd = "demo" THEN DemoPasses
    ELSE state.halted = HALT_NORMAL /\ state.cycle_count = expected

-----------------------------------------------------------------------------
(* The sink of the two back benchmarks.                                    *)

(* A default-constructed Snapshot: resize() of the empty deque makes one.  *)
ZeroSnapshot == SnapshotOf([PowerOn EXCEPT !.sp = 0], << >>)

(* resize() to n elements.                                                 *)
Resized(seq, n, fill) ==
    IF n <= Len(seq) THEN SubSeq(seq, 1, n)
    ELSE seq \o [i \in 1 .. n - Len(seq) |-> fill]

(* Mutant of Pushed: nothing is evicted.                                   *)
PushedUnbounded(seq, x, fill) == Append(Resized(seq, history_index + 1, fill), x)

Pushed(seq, x, fill) ==
    LET longer == Append(Resized(seq, history_index + 1, fill), x)
    IN  IF Len(longer) > kBenchRingCap THEN Tail(longer) ELSE longer

TargetHit ==
    /\ SnapFires
    /\ target_cycle # NoTarget /\ Fired.cycle_count >= target_cycle

Sink ==
    IF SnapFires
    THEN /\ ring' = Pushed(ring, Fired, ZeroSnapshot)
         /\ history_index' =
               IF history_index + 2 > kBenchRingCap THEN history_index ELSE history_index + 1
         /\ target_cycle' = IF TargetHit THEN NoTarget ELSE target_cycle
    ELSE UNCHANGED ringVars

StopPass == TargetHit /\ SoftHalt(HALT_STEP)
PlainPass == ~ TargetHit /\ Deterministic

BenchPass ==
    /\ StopPass \/ PlainPass
    /\ Sink
    /\ UNCHANGED << config, stage, rounds, exit_code >>

-----------------------------------------------------------------------------
(* The steps of the commands.                                              *)

Go(from, to) == stage = from /\ stage' = to
Rounds(n) == rounds' = n /\ UNCHANGED << config, exit_code >>

(* The first run, and the check after it.                                  *)
StartSanity == Go("loaded", "sanity") /\ Run /\ Rounds(0) /\ UNCHANGED ringVars

(* A sweep prints ERR! for the cell and goes on.                           *)
FailureCode ==
    CASE config.cmd = "demo" -> 2 [] config.cmd = "bench-back-sweep" -> 0 [] OTHER -> 1

(* A failed check skips the iterations; --bench-dispatch-cmp still runs    *)
(* the other mode.                                                         *)
EndSanity ==
    /\ ~ running
    /\ Go("sanity", IF config.cmd = "demo" THEN "done" ELSE "rest")
    /\ rounds' = IF Sane THEN 0 ELSE n_iters + 1
    /\ exit_code' = IF Sane THEN exit_code ELSE FailureCode
    /\ UNCHANGED << vmVars, config, ringVars >>

More == rounds <= n_iters   \* the warmup and n_iters timed iterations

(* An iteration of --benchmark: reset_cpu_for_reuse and run.               *)
ResetCpu ==
    /\ More /\ ~ IsBack
    /\ Go("rest", "reset")
    /\ reset_cpu_for_reuse
    /\ Rounds(rounds) /\ UNCHANGED ringVars

RunAgain == Go("reset", "round") /\ Run /\ Rounds(rounds) /\ UNCHANGED ringVars

(* do_back: the deltas of ring[target + 1 .. history_index] are undone in  *)
(* reverse and the CPU gets the snapshot's state.  The sweep clamps the    *)
(* target to 0; --bench-back does not, and a wrapped index is undefined.   *)
Clamps == config.cmd = "bench-back-sweep"
BackTarget == IF config.depth > history_index THEN 0 ELSE history_index - config.depth
InRange == Clamps \/ config.depth <= history_index

(* Mutant of undo_deltas: the loop ends one snapshot early.                *)
undo_deltas_short(lo, hi) ==
    LET undone[k \in 0 .. hi - lo - 1] ==
            IF k = 0 THEN mem
            ELSE undo_log(ring[hi + 2 - k].deltas, undone[k - 1])
    IN  undone[hi - lo - 1]

undo_deltas(lo, hi) ==
    LET undone[k \in 0 .. hi - lo] ==
            IF k = 0 THEN mem
            ELSE undo_log(ring[hi + 2 - k].deltas, undone[k - 1])
    IN  undone[hi - lo]

restore_state(s) ==
    [state EXCEPT !.cycle_count = s.cycle_count, !.regs = s.regs, !.pc = s.pc,
                  !.sp = s.sp, !.flags = s.flags, !.halted = s.halted]

do_back ==
    /\ More /\ IsBack
    /\ Go("rest", IF InRange THEN "rewound" ELSE "undefined")
    /\ mem' = IF InRange THEN undo_deltas(BackTarget, history_index) ELSE mem
    /\ state' = IF InRange THEN restore_state(ring[BackTarget + 1]) ELSE state
    /\ history_index' = IF InRange THEN BackTarget ELSE history_index
    /\ Rounds(rounds)
    /\ UNCHANGED << deltas, running, ring, target_cycle >> /\ Frame

(* Mutant of do_step: one cycle short.                                     *)
do_step_short ==
    /\ Go("rewound", "round")
    /\ state' = [state EXCEPT !.halted = HALT_RUNNING]
    /\ target_cycle' = state.cycle_count + config.depth - 1
    /\ running' = TRUE
    /\ Rounds(rounds)
    /\ UNCHANGED << mem, deltas, ring, history_index >> /\ Frame

(* do_step: any halt is cleared, natural ones too.                         *)
do_step ==
    /\ Go("rewound", "round")
    /\ state' = [state EXCEPT !.halted = HALT_RUNNING]
    /\ target_cycle' = state.cycle_count + config.depth
    /\ running' = TRUE
    /\ Rounds(rounds)
    /\ UNCHANGED << mem, deltas, ring, history_index >> /\ Frame

EndRound ==
    /\ ~ running
    /\ Go("round", "rest")
    /\ Rounds(rounds + 1)
    /\ UNCHANGED << vmVars, ringVars >>

(* --bench-dispatch-cmp: the same again on a new VM with NaiveSwitch.      *)
NextMode ==
    /\ ~ More
    /\ config.cmd = "bench-dispatch-cmp" /\ dispatch_mode = "ComputedGoto"
    /\ Go("rest", "loaded")
    /\ state' = PowerOn /\ mem' = Image(workload) /\ deltas' = << >>
    /\ dispatch_mode' = "NaiveSwitch"
    /\ Rounds(0)
    /\ UNCHANGED << running, snap_sink, ringVars >>

Finish ==
    /\ ~ More
    /\ config.cmd = "bench-dispatch-cmp" => dispatch_mode = "NaiveSwitch"
    /\ Go("rest", "done")
    /\ Rounds(rounds) /\ UNCHANGED << vmVars, ringVars >>

(* The process has ended; without this step only the bound MaxCycle could  *)
(* leave a state without a successor.                                      *)
Ended == stage \in {"done", "undefined"} /\ UNCHANGED bvars

BInit ==
    /\ config \in Configs
    /\ stage = "loaded" /\ rounds = 0 /\ exit_code = 0
    /\ mem = Image(IF config.cmd = "demo" THEN demo ELSE workload)
    /\ state = [PowerOn EXCEPT !.snap_interval = config.interval,
                               !.snap_timer = config.interval]
    /\ deltas = << >> /\ running = FALSE /\ dispatch_mode = "ComputedGoto"
    /\ snap_sink = IsBack
    /\ ring = << >> /\ history_index = 0 /\ target_cycle = NoTarget

BStep ==
    \/ StartSanity \/ BenchPass \/ EndSanity \/ ResetCpu \/ RunAgain
    \/ do_step \/ EndRound \/ NextMode \/ Finish \/ Ended

BNext == BStep \/ do_back

BSpec == BInit /\ [][BNext]_bvars

=============================================================================
