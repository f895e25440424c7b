# RetroVM in TLA+

A verification project for RetroVM, a register VM whose selling points are
deterministic record and replay, delta checkpoints and a time-travel debugger.
The modules model the engine, the debugger, the assembler, and every command
that leaves a file or drives the engine. TLC checks them on a scaled machine;
TLAPS proves every safety invariant of the passing runs, and the refinement of an
abstract time-travel machine, for every machine size.

## 1. Inventory

| Component | State | Operations | Modelled in |
|---|---|---|---|
| Engine (`vm.cpp`, `vm.hpp`) | `state_`, `mem_`, `deltas_`, sink, dispatch mode | `run()` (two bodies), opcode handlers, snapshots, soft halts, resets, setters | `VM` |
| ISA and codec (`opcodes.hpp`) | – | `encode`, `decode_*` | `Machine` |
| Memory, undo log | bytes, `MemDelta` list | load/store with wrap, fold, `apply_old_value` | `Machine` |
| Debugger (`cmd_debug`, `main.cpp`) | snapshot ring, `history_index`, step target, breakpoints, replay cursor | sink, `step`, `continue`, `back`, `breakpoint`, `where`, `save`, `quit` | `Debugger` |
| Trace files (`trace.cpp`) | frames in memory and on disk | `append`, `flush_to_file`, reader checks, `frame_at` | `RecordReplay` |
| `record`, `replay` | writer or cursor, exit code | run to the halt, flush, compare | `RecordReplay` |
| `save`, `restore`, `.state` (`checkpoint.cpp`) | target frame, `saved`, the file | checkpoint sink, write, load, resume | `RecordReplay` |
| `trace` inspector | – | opcode counts, first and last cycle of a file | `RecordReplay` |
| Assembler (`assembler.cpp`), disassembler of `where` | – | operand parsing, encoding, listing | `Assembler` |
| `asm`, `run`, `snapshot` | the `.bin`, the `.snap.NNNN` files, file counter | translate and write, load and run, one file per snapshot | `Toolchain` |
| Demo, `--benchmark`, `--bench-dispatch-cmp`, `--bench-back`, `--bench-back-sweep` | a second snapshot ring, step target, iteration | sanity run, reset and run again, `do_back`, `do_step` | `Benchmarks` |
| `inspect`, `inspect --diff`, argument parsing | – | – | not modelled, see section 8 |

How they interact. Everything is one thread. A client (a command) sets hooks,
interval and sink, then calls `run()`; the engine calls the sink from inside a
pass, between the fetch and the decode, and the hooks from the handlers of IN
and RAND. The sink may call `request_halt`, which `run()` honours before it
decodes. The debugger's sink pushes each snapshot, with the drained undo log, on
its ring; `back` walks the ring and applies the logs in reverse. Commands meet
each other only through files: `asm` leaves the `.bin` to all others, `record` the
trace to `replay`, `save`, `restore`, `debug` and `trace`, `save` the checkpoint to
`restore`. `snapshot` and the benchmarks are further clients of the sink; the
back benchmarks repeat the debugger's ring in code of their own.

What is hard here. Not threads: it is the state left between a fetch and a
decode when the sink stops the engine, the pairing of snapshots, logs, ring
index and replay cursor over long forward/back/forward sequences, narrow
counters (`run_count`, `snap_timer`, 20-bit against 32-bit addresses, an index
that is subtracted from without a check), writes whose result nobody looks at,
and crashes between the writes that fill a file. PROJECT.json lists these hazards
line by line with the property that watches each.

## 2. Modules

- `Machine`: constant operators. Words, bytes, codec, memory, undo log with the
  loop that undoes it (`undo_log`), ALU, the output of the assembler (`BytesOf`),
  the records. Scaled by `ByteBase`, `NREGS`, `MEM_SIZE`, `OP_SPACE`,
  `PAGE_SIZE`, `RUN_CAP`; the code's values are in its header.
- `VM`: the engine. One action is one whole pass of `TAIL_DISPATCH`: `Fetched`
  (fetch and increments), `SnapFires`, `Ticked` (reload), `Log` (drain),
  `Dispatches(op)` and the handler. `SnapReturn` is the soft halt. The two
  bodies of `run()` differ only in where `halted` is tested (`CanFetch`,
  `LoopExit`). `Spec` drives the engine by an arbitrary client, sink and host.
- `VMHistory`: history variables `base` (memory at the last drain), `stores`,
  `armed`, and the engine's properties.
- `PassFunction`: one pass of the engine as a function `Exec` of the point it
  starts from and of the word it reads. Properties and proofs that compare two
  runs use it; `EngineLemmas` proves that the handlers of `VM` compute it.
- `EngineLemmas`, `VM_proofs`, `Debugger_proofs`, `TravelRefinement_proofs`,
  `Replay_proofs`, `Tool_proofs`, `Bench_proofs`, `Workload_proofs`: the theorems,
  see section 7.
- `Debugger`: the REPL on the engine. Passes of a running command are
  `DebugPass` (the engine's own actions with the sink conjoined); `back` is the
  loop `UndoOne`/`UndoNext` and `FinishBack`, one log entry per step.
- `DebugHistory`: history variables `mem_at` (whole memory of each snapshot),
  `goal`, `pending`, and the debugger's properties.
- `TimeTravel`: the abstract specification of a time-travel debugger. The state
  is a bounded past, a position in it and the moment the user sees; `Advance`
  forgets what was rewound and adds one moment, `Rewind(n)` shows an older moment.
  There is no log, no ring arithmetic and no cursor.
- `TravelRefinement`: the mapping from `Debugger` to it. The past is the ring,
  each snapshot with the whole memory it stands for (`mem_at`); the moment seen is
  the real machine while the prompt is shown and the snapshot under
  `history_index` while a command executes. So a pass is one `Advance`, the loop
  of `back` stutters until `FinishBack`, which is one `Rewind`, and whatever the
  loop did to memory has to be right by then. After a DIV trap the machine's pc
  is one instruction behind the snapshot's; `FetchedPc` accounts for it.
- `RecordReplay`: the batch commands as processes over a disk. `Start` reads the
  files, the run uses the engine's actions, `Flush` is the sequence open,
  ftruncate, header, frames, msync; `Kill` and `PowerLoss` may come anywhere
  between. The numbers shown by `trace` are operators on the file.
- `ReplayHistory`: history variables `steps` (the points this process has been at),
  `recorded` (program, trace, points and result of the recorded run) and `source`
  (the same of the run the `.state` was saved from), and the properties that
  relate one process to an earlier one.
- `Assembler`: the assembler and `disassemble_one` as operators. A source line is
  its mnemonic and two operand tokens; a token is a kind and the number `atoi`
  or `strtoul` finds in it, so that what those two accept (`Rword` is R0) is
  modelled and the characters are not.
- `Toolchain`: `asm`, `run` and `snapshot` as processes over the `.bin` and the
  `.snap` files. `asm` translates the whole source, truncates the output
  (`asm_opens`) and writes it (`WriteBin`); a write may fail unnoticed or the
  process be killed, and any prefix remains. The sink of `snapshot` uses up a
  number whether or not the file could be written (`SinkPass`).
- `ToolHistory`: history variables `built`, `whole`, `inputs`, `points` (where the
  process was after boot and each pass), `snaps`, `ran`, and the properties that
  relate a source, its `.bin` and the runs of it.
- `Benchmarks`: the built-in programs as they are in the code, the sanity run,
  the loops of reset and run, and the loops of `do_back` and `do_step` on a ring
  that starts empty. An index that wraps is the stage `undefined`.
- `BenchHistory`: history variables `mem_at`, `first`, and the properties.
- `MC_*`: the programs, sources, sessions, traces and command lines.

Operators named as mutants are plausible bugs; each breaks one property, which
shows that the property depends on the code. No specification uses them.

## 3. Runs

| Run | Checks | Shows |
|---|---|---|
| `vm` | `TypeOK`, `UndoLog`, `RunCountsExact`, `SnapCadence` | the undo log leads back to the last snapshot, no store is lost by the fold, the timer never goes silent |
| `debugger` | `DTypeOK`, `RingContiguous`, `RewindExact`, `RingLeadsBack`, `PromptMatchesRing`, `CursorInPast`, `StepExact`, `ImplementsTimeTravel`, `StepReturns`, `BackReturns` | `back` restores memory byte for byte; prompt, ring and cursor agree after any mix of commands; the session refines `TimeTravel`; a command gives the prompt back |
| `record_replay` | `RTypeOK`, `VerifiedIsFaithful`, `IntactReplays`, `TornShows`, `SaveTellsTruth`, `RestorePointExact` | "replay VERIFIED" can be believed also after a torn flush; an intact trace always replays; a torn one shows in `trace`; exit code 0 of `save` means a usable checkpoint; a restore starts with the recorded CPU state |
| `toolchain` | `AsmFaithful`, `NoLineMisread`, `TornBinHalts`, `SnapChain`, `SnapShowsRun`, `SnapshotTransparent` | the loaded `.bin` lists as its source; no accepted line spills into a neighbouring field; a torn `.bin` only halts earlier; the `.snap` files lead back step by step to the loaded program; each of them shows the instant that a plain `run` goes through in front of the instruction of its cycle; snapshots do not change what a program does |
| `benchmarks` | `BTypeOK`, `SanityHolds`, `RunsAlike`, `BenchRewindExact`, `SteadyState` | every timed run is the same run, in both dispatch modes; `do_back` is exact also past the default snapshot that the empty ring starts with; each iteration ends where it began, for every depth but one kind |
| `resume_skips`, `back_diverges`, `where_after_trap`, `breakpoint_wrap`, `repl_save`, `restore_memory`, `bench_steady` | one claim each | the claim of a comment, test or document is violated by the code (section 6) |

## 4. Bounds

A word is always four bytes; `ByteBase = 8` makes it 12 bits, wide enough for an
instruction with `OP_SPACE = 16`, two registers and a 64-byte memory. Sixty-four
bytes hold the programs and leave room for stores that overlap (32 and 34) and
that wrap around the end (62). `PAGE_SIZE = 16` puts cells on different pages,
`RUN_CAP = 2` makes the third store to a cell start a new entry. `MaxCycle` bounds
the run: no pass starts at that cycle, and `step` is not offered a target beyond
it. `kRingCap = 3` is overflowed by every session of four cycles. `U64` stands
for 2^64; `step 999` wraps around it, and the smaller steps end inside the bound. In `record_replay`
every program ends within `MaxCycle = 7`, and `Inputs = {0, 9}` decides
whether one of them traps. The process may start again any number of times: the
state space is finite without a bound on the number of commands.

`toolchain` and `benchmarks` use a 16-bit machine (`ByteBase = 16`) with eight
registers: as in the code, an instruction is then opcode, destination, source
and address with the opcode in the last byte, which `TornBinHalts` depends on.
`toolchain` starts at most four processes (`MaxCommands`: assemble, run,
snapshot and one more, so that an older run's files or a second source are
there) and has one fault (`MaxFaults`). `NoLineMisread` covers every mnemonic
with every pair of operand kinds, at and next to the limits of each field, in
the first state. `benchmarks` keeps the programs and the shape of the loop (nine
instructions) and scales the counts: `kBenchmarkLoopCount = 3` makes runs of 30
cycles, `kBenchRingCap = 12` is more than one and less than two iterations of the
loop and is filled and evicted by the first run; `n_iters = 3` follows the warmup,
and what is off after one iteration has then been amplified three times. The
sweep's intervals and depths lie on both sides of eviction and of the ring's
length. `SteadyState` passes for every depth main admits except 10, the one that
`bench_steady` is about. `BenchmarksAssumption` says what the constants of the code
have in common with these: the data cell lies behind the program, the loop count is
an immediate, the first run fills the ring, and every interval is shorter than it.

Frames are written to the mapping one by one: a crash leaves whole 16-byte
frames, as the 16-byte aligned copies do. `PowerLoss` loses any set of them,
which contains the page-wise losses of a file system.

`vm`, `toolchain` and the debugger runs turn the deadlock check off, because a
halted VM, an exited debugger and the bounds are ends. `record_replay` keeps it on,
since a new command can always be started, and so does `benchmarks`, where it shows
that every command reaches its end within `MaxCycle`.

## 5. Fairness

Only `debugger` uses any: weak fairness of `DHPass` and `DHBack`. Both are
steps of the one thread that executes the command the user typed; the operating
system keeps it running, and fresh input is assumed to arrive when an IN asks
for it. Nothing makes the user type, so commands have no fairness.

## 6. Where the code disagrees with its own words

- A soft halt drops the fetched instruction (`ResumesAtHaltedInstruction`):
  `debug_resume` does not rewind, the header comment of the debugger says it does.
- After `back`, the trace cursor is one read ahead of the instruction stream
  (`NoSpuriousDivergence`).
- `where` after a division trap points one instruction too early (`WhereShowsTrap`).
- Breakpoints do not match a pc beyond the memory (`BreakpointsAlwaysHit`).
- A checkpoint saved in the debugger restores at a wrong cycle (`ReplSaveRestorable`).
- `restore` loses the stores before the checkpoint (`RestoreEqualsFullRun`);
  `RestorePointExact` shows that everything but the memory is right.
- `--bench-back` with a depth of 10, 19, 28, ... 199 (`SteadyState`): the rewind
  lands behind a fetched JNZ, which the next step does not execute. The loop is
  left, the program halts, the ring is short, and the next rewind subtracts
  below zero. On a build of the repository `--bench-back 50 10` and `50 199`
  abort with `std::length_error`; the default depth 200 is not affected.

Seen and not worth a run: the comment on `CmdDebug::target_cycle` says a
breakpoint clears it, the sink clears it only for a step (every resume sets it
again); the comment on `FLAG_CF` speaks of a DIV remainder, DIV never sets it;
an unreadable trace ends the process by an uncaught exception, not by exit code 1;
`where` is said to mirror the syntax of `retrovm asm` but writes LOAD and STORE
addresses in brackets, which the assembler refuses; the usage text admits
`--bench-back` depths up to the ring capacity, which the command rejects; `asm`
exits 0 also when the output could not be written.

## 7. Proofs

All theorems hold for every value of the constants that satisfies the
assumptions of the modules: a memory of at least four bytes that a word can
address, at least one register, programs that fit the memory, a ring of at least
two snapshots, `step` and `back` arguments in the ranges their parsers return, and
the instruction layout of the code (6 + 3 + 3 + 20 bits): the fields fit a word
(`LayoutAssumption`). The toolchain also needs that the opcode lies in the last byte,
so three bytes are no more than register and address fields; the benchmarks that their
constants are as section 4 says. `Code(s) \in Seq(SourceLine)` is an assumption
because the library defines `SelectSeq` by recursion; TLC evaluates it, like the
others, on every run.

### The engine: `EngineLemmas`, `VM_proofs`

`EngineLemmas` holds what every client of the engine needs: the types of the
codec, the ALU and memory, what a pass does to the counters, and what it does to
memory and log. A pass is any action of the engine with any hook answer
(`AnyPass`), so the lemmas are used by the debugger and by the commands as well.

- `TypeCorrect`: `Spec => []TypeOK`. Inductive as it stands; one step per
  handler.
- `UndoLogCorrect`: `HSpec => []UndoLog`, that the loop `undo_log(deltas, mem)` ends
  in `base`. The loop is not inductive as it stands. The formula `LeadsBack(deltas,
  mem, base)` says for every cell that the first log entry that covers it holds its
  old byte, which is; `UndoLogMeaning` proves that the loop ends in the memory a log
  leads back to, and in no other. The core of the induction is `StoreLeadsBack`:
  a store either folds, and then writes only cells whose old byte is already in
  the log, or appends an entry whose four bytes are the bytes it overwrites
  (`UndoEntry`, `BytesOfWord`: splitting and joining a word is the identity),
  also when its cells wrap or overlap earlier entries.
- `RunCountsCorrect`: `HSpec => []RunCountsExact`. A store adds one to the total
  whether it folds or appends (`LogStoreTotal`). With `TypeOK`, where no count exceeds
  `RUN_CAP`, this says that the `uint8_t` never loses a store.
- `SnapCadenceCorrect`: `HSpec => []SnapCadence`. Needs in the invariant `HInv`
  that the timer is in `1 .. snap_interval` whenever snapshots are on: this is what
  the reload before the halt test guarantees.

### The debugger: `Debugger_proofs`

One inductive invariant, `DInv`, gives all seven theorems (`DebuggerTypes`,
`RingIsHistory`, `RingLogsCorrect`, `BackRestoresMemory`, `PromptShowsSnapshot`,
`CursorNeverAhead`, `StepsAreExact`). What it adds to the properties:

- `EveryCycle`: snapshots are on, with interval 1, during the whole session. The
  ring has one snapshot per cycle only for this reason.
- `CurrentSnapshot`: outside `back` the machine's cycle is that of the snapshot
  under `history_index`, and the engine's pending log leads back to its memory.
  This is `UndoLog` with the ring in the place of `base`; the next snapshot
  drains that log, which makes `RingLeadsBack` inductive.
- `AtSnapshot`: while no command executes, memory and registers are exactly those
  of that snapshot: a soft halt comes after the fetch and before the decode.
- `RewindProgress`: inside the loop of `back`, the entries of the current log that
  are not yet undone lead from the memory to that of the next older snapshot.
  Without it `RewindExact` could not be carried through the loop.
- `CursorsInPast` for every cursor in the ring, since `back` may restore any of
  them, and `StepTarget` for the two ways a `step` can have set its target.

### The refinement: `TravelRefinement_proofs`

`DebuggerImplementsTimeTravel`: `DHSpec => ImplementsTimeTravel`. The first state
maps to the first state of `TimeTravel`. Under `DInv` the moment the user sees is
always the one under `history_index` (`SeenIsCurrent`; after a trapped DIV this
needs that pc - 4 + 4 is pc modulo the word size, `BackAndForth`). A pass pushes one
snapshot and is `Advance`; `FinishBack` is `Rewind` by the number of snapshots it
went over; every other step leaves the past, the position and the moment alone.
`TimeTravel` states no fairness, so nothing of the refinement is left out.

### Record, replay, save and restore: `Replay_proofs`

A pass is a function of the point it starts from (CPU state without the snapshot
timer, and memory) and, for IN and RAND, of the word it reads: `Exec` of
`PassFunction`, with `DeterministicExec` and `NondetExec` showing that the engine's actions are that
function. A `Chain` is a run: points that follow each other by `Exec`, from
power-on, where the pass of cycle c at an IN or a RAND took the word of the frame
with cycle c, and every frame belongs to such a pass, in increasing order.

The inductive invariant `ReplayInv` has these parts:

- `RecordedOK`, `RecordingOK`: the recorded run is a complete chain over its
  trace, and so is what a recording has done so far.
- `FileOK`: wherever the `.trace` should have a frame it has that frame or zeros,
  in every state that a crash inside `flush_to_file` leaves.
- `OnPath`: a replay, or a save that has not stopped, of the recorded program is at
  the point of the chain with its cycle count; the frames behind its cursor are
  those of the cycles it has passed, and it runs as long as the chain goes on. A
  pass either stays on the path (`NextOnPath`), because a frame that is accepted
  has the cycle and opcode of the recorded one and so is not zeros, or
  diverges; on an intact file it never does (`NeverDiverges`).
- `SaveOK`, `SavingOK`, `SourceOK`: a save is itself a chain over the frames it
  consumed, and the `.state` file is its last point, in front of the pass whose
  cycle is that of the frame it names.
- `RepeatsOK`, `ResumedOK`: two chains of the same program over the same frames
  agree (`SameChain`), so a later recording with the same trace goes through the
  point that an older checkpoint was saved at.

From it: `ReplayTypes`, `VerifiedCanBeBelieved`, `IntactTraceReplays`,
`TornFileShows` (the frames of a file are those of IN, of RAND and the zeros, which
are disjoint; so `op_other` counts the zeros), `SaveIsTruthful` and
`RestorePointCorrect`. Only the CPU state of a restore is right: the run
`restore_memory` shows what happens to its memory.

### asm, run and snapshot: `Tool_proofs`

The codec first. `CodecInverse`: fields in their ranges are packed into a word from
which each decoder takes its own field again. `JoinOfSplit`: the four bytes of a word
give the word back. `NoLastByte`: three bytes below a missing one decode as opcode 0,
HALT. `EncodedShown`: an accepted line is encoded with fields in range, and the listing
of its word says the same as the line. `LoadedWord`: what is read at `4 * (k - 1)` of a
loaded prefix of the output is the k-th word when its four bytes are there, and a HALT
otherwise.

The inductive invariant `ToolInv` has these parts:

- `BinOK`: the `.bin` is a prefix of the output for `built`, the source it was last
  opened for, and all of it once `asm` has ended undisturbed. `ProcessOK`: which
  process may be at which place.
- `SinkOK`: the engine's `UndoLog` with the last call of the sink in the place of
  `base`, and the timer equation `counter * interval + elapsed = cycle_count`, which
  puts the i-th call at cycle `i * interval`.
- `PointsOK`: the process has been at one point for each cycle and is at the last one.
- `FilesOK`: every file that was written holds the cycle of its call, a log that
  leads to the call before it, and the registers and pc that the sink sees at the point
  in front of the pass of that cycle. Files of failed calls are anything.
- `RunOK`, `RanOK`: the points of the current process, and of the last `run` when it
  ended, are those of an `InputRun`: they follow each other by `Exec`, with a counter of
  the words read, and go on until a pass returns from `run()`.

The types of the variables (`TTypeOK`) are a part of it too.

From it: `AssembledAsWritten`, `TornProgramHalts`, `SnapFilesChain`, `SnapFilesShowRun`,
`SnapshotsTransparent`. The last two compare two runs of the same `.bin`, one of which
has read the first words of what the other has read. They agree as far as both go
(`RunsAgree`): otherwise there is a least index at which they differ, and the points
before it are equal. So a run is no longer than one that has ended (`EndedIsLonger`):
the point a `.snap` file is of is also a point of the ended `run`, and two runs on the
same words that both have ended end alike (`RunsEndAlike`). `EveryLineShown` is about the assembler alone and
covers any mnemonic and any two tokens; `NoLineIsMisread` is the instance of it that the
run checks.

### The demo and the benchmarks: `Bench_proofs`, `Workload_proofs`

`Bench_proofs` is about the second snapshot ring. Its inductive invariant `BInv` adds
to the types which stage may run (`StageOK`), that the timer is never at zero
(`TimerOK`), that `history_index` points into the ring (`RingOK`), that the ring is
empty only before the first snapshot (`EmptyOK`), and, with a snapshot every cycle,
that each log leads back to the snapshot before it and the pending one to the last
(`ChainOK`). From it `BenchTypes` and `BenchRewindCorrect`. `do_back` is one action
here, so what has to be shown is what its two nested loops compute: `UndoDeltasLoop`
and `RewindExact` follow the chain of the ring down to the target. `EmptyOK` is what
makes `ring[BackTarget]` exist: the interval is shorter than the first run.

`Workload_proofs` computes what the built-in programs do, for every loop count. The
listings of both programs are decoded line by line (`WorkloadLines`, `DemoLines`), each
handler is given its effect (`WorkloadEffect`, `DemoEffect`), and the invariant
`RunInv` says where a run is: before the loop, at the p-th of the nine instructions of
iteration k with every register known (`LoopAt`), in front of the HALT, or at the end.
R4 is the one register without a closed form; it is described by the recursion of the
loop, which `RecursionUp` shows to have a solution. The store goes to the data cell
only, so the code stays as loaded (`Intact`) and a second run on used memory decodes the
same program; the cell is read only after it was written. `LoopStep` is the case
analysis over the nine instructions. From `RunInv`:

- `SanityCorrect`: the demo passes its assertions, and the workload halts normally at
  the cycle the sanity checks expect.
- `RunsAlikeCorrect`: the end of the workload is one state and one memory
  (`EndUnique`), so every timed run ends like the first, in both dispatch modes.

`SteadyCorrect` is about `--bench-back`. Its hypothesis `NoSkippedJump` says that no
depth goes back to a JNZ other than the last. It is a restriction of the
command line, satisfied by the default depth 200, and it is needed: the depths it
excludes are those of the finding, on which `bench_steady` refutes `SteadyState`. The
run after a rewind is not a run of the program: it lacks the instruction that
was fetched when the target snapshot was taken. `SteadyInv` therefore only
says that such a run is in step with the loop (`InStep`): pc and cycle belong together,
and the counter R0 is exact or one too high, when the skipped instruction was the
decrement. Then the loop cannot be left before the expected cycle, each pass pushes one
snapshot, and the target snapshot of the ring is never overwritten (`TargetOK`). That
the first run fills the ring with one snapshot per cycle is `FillOK`.

TLC checked `DInv`, `ReplayInv`, `BInv`, `RunInv`, `SteadyInv` and the parts of `ToolInv`
that it can evaluate on the instances of the runs `debugger`, `record_replay`,
`benchmarks` and `toolchain` before they were proved; `RunOK` and `RanOK` quantify over
runs and are out of its reach.

### Induction over data

The library's induction theorems take an operator as a parameter, which the provers
cannot instantiate. Where a loop over data has to be reasoned about, the proofs use the
least counterexample (`LeastElement`) instead: `RecursionUp` proves that a loop over
`0 .. n` has a function of its values, `SameLoop` that two loops in lock step end alike.
`undo_log`, `RunTotal`, `undo_deltas` and R4 rest on these two.

### Only model-checked

Liveness (`StepReturns`, `BackReturns`: fairness and ENABLED are outside the prover),
that no run of `record_replay` and `benchmarks` deadlocks, and the violations of
section 6, which are counterexamples. Every other property of a passing run is a
theorem, `SteadyState` with the hypothesis above.

## 8. Not modelled

Left out for good: `inspect` and `inspect --diff`, `regs` and `help`, which print
fields and change no state; time, and the verdicts on it; argument parsing, whose
results are constants here, in the ranges main admits; the characters of a source
line; the Windows branch of the trace files; two processes on the same files at
once.
