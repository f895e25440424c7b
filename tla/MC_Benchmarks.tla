---------------------------- MODULE MC_Benchmarks ----------------------------
(***************************************************************************)
(* The built-in programs as they are in the code, on a machine with 16-bit *)
(* words, a loop of three iterations and a ring of twelve snapshots.       *)
(***************************************************************************)
EXTENDS BenchHistory

Cfg(cmd, interval, depth) == [cmd |-> cmd, interval |-> interval, depth |-> depth]

Plain == { Cfg("demo", 0, 0), Cfg("benchmark", 0, 0), Cfg("bench-dispatch-cmp", 0, 0) }

(* Intervals with and without eviction; depths inside the ring and beyond. *)
Sweep == { Cfg("bench-back-sweep", i, d) : i \in {1, 3, 7}, d \in {1, 4, 10, 13, 40} }

(* Every depth the command line admits but the ones that go back to a JNZ  *)
(* other than the last.                                                    *)
MCConfigs == Plain \cup Sweep \cup { Cfg("bench-back", 1, d) : d \in (1 .. 11) \ {10} }

(* The depth that goes back to a JNZ.                                      *)
SkippingConfig == { Cfg("bench-back", 1, 10) }

=============================================================================
