---------------------------- MODULE BenchHistory ----------------------------
(***************************************************************************)
(* The benchmarks with history variables, and what their numbers rest on.  *)
(* The history variables are not in the code and no action reads them.     *)
(***************************************************************************)
EXTENDS Benchmarks

VARIABLES
    mem_at,  \* the memory at each snapshot of the ring
    first    \* how the first run ended: CPU state and memory

bghosts == << mem_at, first >>
bhvars == << bvars, bghosts >>

BHInit == BInit /\ mem_at = << >> /\ first = << >>

BHStep ==
    /\ BStep
    /\ mem_at' = IF running /\ SnapFires THEN Pushed(mem_at, mem, Image(workload)) ELSE mem_at
    /\ first' = IF stage = "sanity" /\ ~ running /\ first = << >>
                THEN << state, mem >> ELSE first

BHBack == do_back /\ UNCHANGED bghosts

BHNext == BHStep \/ BHBack

BHSpec == BHInit /\ [][BHNext]_bhvars

-----------------------------------------------------------------------------
(* Every value has its C++ type, and the ring respects its capacity.       *)
BTypeOK ==
    /\ TypeOK
    /\ config \in Configs /\ stage \in Stages /\ rounds \in Nat
    /\ exit_code \in {0, 1, 2}
    /\ ring \in Seq(Snapshot) /\ Len(ring) <= kBenchRingCap
    /\ history_index \in Nat
    /\ target_cycle \in Nat \cup {NoTarget}

(* The demo passes its assertions and no benchmark refuses its workload:   *)
(* the first run halts normally after 2 + 9 * kBenchmarkLoopCount + 1      *)
(* cycles, in either dispatch mode and with or without snapshots.          *)
SanityHolds == exit_code = 0 /\ (stage = "sanity" /\ ~ running => Sane)

(* The ns/op of cmd_benchmark and cmd_benchmark_dispatch_cmp divide by     *)
(* cycles_per_run * n_iters: every timed run, on memory the earlier runs   *)
(* have written and in either dispatch mode, must end in the same state    *)
(* and memory as the first one.                                            *)
RunsAlike ==
    stage \in {"sanity", "round"} /\ ~ running /\ ~ IsBack /\ first # << >>
        => << state, mem >> = first

(* do_back is a real rewind where it claims to mirror the debugger, with a *)
(* snapshot every cycle: memory is byte for byte that of the target        *)
(* snapshot, also for the default-constructed one that the first resize()  *)
(* of the empty ring puts in front of the history.                         *)
BenchRewindExact ==
    stage = "rewound" /\ state.snap_interval = 1 => mem = mem_at[history_index + 1]

(* main.cpp, cmd_benchmark_backn: the warmup is to "bring the ring back to *)
(* the post-sanity steady-state shape (history_index == 255, ring full)",  *)
(* and so does every timed iteration; then depth < kBenchRingCap is enough *)
(* to keep history_index - depth from wrapping.                            *)
SteadyState ==
    config.cmd = "bench-back" /\ stage = "rest" =>
        Len(ring) = kBenchRingCap /\ history_index = kBenchRingCap - 1

=============================================================================
