------------------------------ MODULE VM_proofs ------------------------------
(***************************************************************************)
(* Proofs about the engine, for every machine, program, client, sink and   *)
(* host: the type invariant, the cadence of the snapshots, the correctness *)
(* of the undo log and of its run counts.                                  *)
(***************************************************************************)
EXTENDS VMHistory, EngineLemmas

(* Every variable of the engine always has its C++ type: no pass, halt,    *)
(* resume or client call takes a register, address, timer, flag mask or    *)
(* log entry out of its range (vm.cpp, VM::run and the member functions).  *)
THEOREM TypeCorrect == Spec => []TypeOK
<1>1. TypeOK /\ [Next]_vmVars => TypeOK'
  BY PassType, PassIsAnyPass, ClientType DEF Next, vmVars, TypeOK
<1> QED
  BY InitType, <1>1, PTL DEF Spec

-----------------------------------------------------------------------------
(* What the run counts of a log add up to.                                 *)

(* The sums the loop over a log passes through.                            *)
LEMMA TotalLoop ==
    ASSUME NEW log \in Seq(MemDelta)
    PROVE  \E t \in [0 .. Len(log) -> Nat] :
              /\ t[0] = 0
              /\ \A k \in 1 .. Len(log) : t[k] = t[k - 1] + log[k].run_count
              /\ RunTotal(log) = t[Len(log)]
<1> DEFINE n == Len(log)
           step(t, k) == IF k = 0 THEN 0 ELSE t[k - 1] + log[k].run_count
           G == [p \in (1 .. n) \X Nat |-> p[2] + log[p[1]].run_count]
           v == CHOOSE t : t = [k \in 0 .. n |-> step(t, k)]
<1>1. n \in Nat /\ 0 \in Nat
  OBVIOUS
<1>2. \A k \in 1 .. n : log[k].run_count \in Nat
  <2>1. ASSUME NEW d \in MemDelta PROVE d.run_count \in Nat
    BY MachineAssumption DEF MemDelta
  <2> QED BY <2>1
<1>3. G \in [(1 .. n) \X Nat -> Nat]
  BY <1>2
<1>4. PICK f \in [0 .. n -> Nat] : Iterates(f, n, 0, G)
  <2> HIDE DEF G, n
  <2> QED BY <1>1, <1>3, RecursionUp
<1>5. ASSUME NEW i \in 1 .. n PROVE f[i] = f[i - 1] + log[i].run_count
  <2>1. f[i - 1] \in Nat
    OBVIOUS
  <2> QED BY <2>1, <1>4 DEF Iterates
<1>6. f = [k \in 0 .. n |-> step(f, k)]
  <2>1. ASSUME NEW k \in 0 .. n PROVE f[k] = step(f, k)
    <3>1. k = 0 \/ k \in 1 .. n
      OBVIOUS
    <3> QED BY <3>1, <1>4, <1>5 DEF Iterates
  <2> QED BY <2>1
<1>7. v = [k \in 0 .. n |-> step(v, k)]
  <2> HIDE DEF step, n
  <2> QED BY <1>6
<1>8. RunTotal(log) = v[n]
  BY DEF RunTotal
<1>9. LockStep(v, f, n)
  <2>1. \A k \in 0 .. n : v[k] = step(v, k)
    <3> HIDE DEF v
    <3> QED BY <1>7
  <2> HIDE DEF v
  <2>2. v[0] = f[0]
    BY <2>1, <1>4 DEF Iterates
  <2>3. ASSUME NEW k \in 1 .. n, v[k - 1] = f[k - 1] PROVE v[k] = f[k]
    BY <2>1, <2>3, <1>5
  <2> QED BY <2>2, <2>3 DEF LockStep
<1>10. v[n] = f[n]
  <2> HIDE DEF v, n
  <2> QED BY <1>1, <1>9, SameLoop
<1> QED
  BY <1>4, <1>5, <1>8, <1>10 DEF Iterates

(* An empty log counts nothing.                                            *)
LEMMA EmptyTotal == RunTotal(<< >>) = 0
<1>1. << >> \in Seq(MemDelta) /\ Len(<< >>) = 0
  OBVIOUS
<1> QED
  BY <1>1, TotalLoop

(* Logging a STORE adds one, whether it folds or appends.                  *)
LEMMA LogStoreTotal ==
    ASSUME NEW log \in Seq(MemDelta), NEW m \in Memory, NEW a \in Addr
    PROVE  RunTotal(log) \in Nat /\ RunTotal(LogStore(log, m, a)) = RunTotal(log) + 1
<1> DEFINE n == Len(log)
           new == LogStore(log, m, a)
           e == [run_count |-> 1, page |-> a \div PAGE_SIZE, offset |-> a % PAGE_SIZE,
                 old_value |-> mem_load_u32(m, a)]
<1>1. new \in Seq(MemDelta) /\ n \in Nat
  BY LogStoreType
<1>2. PICK t \in [0 .. n -> Nat] :
         /\ t[0] = 0
         /\ \A k \in 1 .. n : t[k] = t[k - 1] + log[k].run_count
         /\ RunTotal(log) = t[n]
  BY TotalLoop
<1>3. PICK u \in [0 .. Len(new) -> Nat] :
         /\ u[0] = 0
         /\ \A k \in 1 .. Len(new) : u[k] = u[k - 1] + new[k].run_count
         /\ RunTotal(new) = u[Len(new)]
  <2> HIDE DEF new
  <2> QED BY <1>1, TotalLoop
<1>4. t[n] \in Nat
  BY <1>1
<1> SUFFICES RunTotal(new) = RunTotal(log) + 1
  BY <1>2, <1>4
<1>5. CASE Folds(log, a)
  <2>1. new = [log EXCEPT ![n].run_count = @ + 1] /\ n >= 1
    BY <1>5, <1>1 DEF LogStore, Folds
  <2>2. log[n] \in MemDelta /\ log[n].run_count \in Nat
    <3>1. log[n] \in MemDelta
      BY <2>1, <1>1
    <3>2. ASSUME NEW d \in MemDelta PROVE d.run_count \in Nat
      BY MachineAssumption DEF MemDelta
    <3> QED BY <3>1, <3>2
  <2>3. Len(new) = n /\ new[n].run_count = log[n].run_count + 1
        /\ \A k \in 1 .. n - 1 : new[k] = log[k]
    BY <2>1, <2>2, <1>1 DEF MemDelta
  <2>4. t[n - 1] = u[n - 1]
    <3>1. n - 1 \in Nat /\ \A k \in 1 .. n - 1 : k \in 1 .. n
      BY <2>1, <1>1
    <3>2. \A k \in 1 .. n - 1 : log[k].run_count = new[k].run_count
      BY <2>3
    <3>3. \A k \in 1 .. n - 1 : t[k] = t[k - 1] + log[k].run_count
      BY <3>1, <1>2
    <3>4. \A k \in 1 .. n - 1 : u[k] = u[k - 1] + new[k].run_count
      BY <3>1, <2>3, <1>3
    <3> HIDE DEF new, n
    <3>5. LockStep(t, u, n - 1)
      BY <3>2, <3>3, <3>4, <1>2, <1>3 DEF LockStep
    <3> QED BY <3>1, <3>5, SameLoop
  <2>5. t[n] = t[n - 1] + log[n].run_count /\ u[n] = u[n - 1] + log[n].run_count + 1
        /\ t[n - 1] \in Nat
    <3>1. n \in 1 .. n /\ n - 1 \in 0 .. n
      BY <2>1, <1>1
    <3> HIDE DEF new, n
    <3> QED BY <3>1, <2>2, <2>3, <2>4, <1>2, <1>3
  <2> HIDE DEF new, n
  <2> QED BY <2>2, <2>3, <2>4, <2>5, <1>2, <1>3, <1>4
<1>6. CASE ~ Folds(log, a)
  <2>1. new = Append(log, e)
    BY <1>6 DEF LogStore
  <2>2. Len(new) = n + 1 /\ new[n + 1].run_count = 1 /\ \A k \in 1 .. n : new[k] = log[k]
    BY <2>1, <1>1
  <2>3. t[n] = u[n]
    <3>2. \A k \in 1 .. n : log[k].run_count = new[k].run_count
      BY <2>2
    <3>4. \A k \in 1 .. n : u[k] = u[k - 1] + new[k].run_count
      BY <1>1, <2>2, <1>3
    <3> HIDE DEF new, n
    <3>5. LockStep(t, u, n)
      BY <3>2, <3>4, <1>2, <1>3 DEF LockStep
    <3> QED BY <3>5, <1>1, SameLoop
  <2>4. u[n + 1] = u[n] + 1
    <3>1. n + 1 \in 1 .. Len(new) /\ n + 1 - 1 = n
      BY <2>2, <1>1
    <3> HIDE DEF new, n
    <3>2. PICK k \in 1 .. Len(new) : k = n + 1 /\ k - 1 = n
      BY <3>1
    <3>3. u[k] = u[k - 1] + new[k].run_count
      BY <1>3
    <3> QED BY <3>2, <3>3, <2>2
  <2> HIDE DEF new, n
  <2> QED BY <2>2, <2>3, <2>4, <1>2, <1>3, <1>4
<1> QED
  BY <1>5, <1>6

-----------------------------------------------------------------------------
(* The cadence of the snapshots and the undo log.                          *)

(* What the loop of UndoLog computes, in the form that a pass preserves.   *)
LogLeadsBack == LeadsBack(deltas, mem, base)

(* The inductive invariant of the engine with its history.                 *)
HInv ==
    /\ TypeOK /\ base \in Memory /\ armed \in Nat /\ stores \in Nat
    /\ LogLeadsBack /\ RunCountsExact /\ SnapCadence

(* A pass keeps the timer in step with the cycles, whether it stops or not.*)
LEMMA PassCadence ==
    ASSUME HInv, HPass
    PROVE  SnapCadence' /\ armed' \in Nat
<1>1. TypeOK /\ AnyPass
  BY PassIsAnyPass DEF HInv, HPass
<1> DEFINE si == state.snap_interval
           ti == state.snap_timer
           cy == state.cycle_count
<1>2. si \in Nat /\ ti \in Nat /\ si < WORD_MOD /\ ti < WORD_MOD /\ WORD_MOD \in Nat
      /\ cy \in Nat /\ armed \in Nat
  BY <1>1, Sizes DEF HInv, TypeOK, VMState, Word
<1>3. Fetched.snap_timer = IF si > 0 THEN (ti - 1) % WORD_MOD ELSE ti
  BY <1>1 DEF Fetched, TypeOK, VMState
<1>4. Ticked.snap_timer = IF SnapFires THEN si ELSE Fetched.snap_timer
  <2>1. Fetched \in VMState
    BY <1>1, PassTypes
  <2> QED BY <2>1 DEF Ticked, VMState
<1>5. /\ state'.cycle_count = cy + 1
      /\ state'.snap_interval = si
      /\ state'.snap_timer = Ticked.snap_timer
  BY <1>1, PassCounters
<1>6. armed' = IF SnapFires THEN cy + 1 ELSE armed
  BY <1>5 DEF HPass
<1>7. si > 0 => ti \in 1 .. si /\ ti + (cy - armed) = si
  BY DEF HInv, SnapCadence
<1>8. si > 0 => (ti - 1) % WORD_MOD = ti - 1
  <2>1. ASSUME NEW x \in Nat, NEW n \in Nat, x < n
        PROVE  x % n = x
    BY <2>1
  <2> QED BY <2>1, <1>2, <1>7
<1>9. SnapFires <=> si > 0 /\ Fetched.snap_timer = 0
  BY DEF SnapFires
<1> HIDE DEF si, ti, cy
<1>10. si > 0 => /\ state'.snap_timer \in 1 .. si
                 /\ state'.snap_timer + (cy + 1 - armed') = si
  <2>1. CASE SnapFires
    BY <2>1, <1>2, <1>4, <1>5, <1>6
  <2>2. CASE ~ SnapFires /\ si > 0
    <3>1. state'.snap_timer = ti - 1 /\ ti - 1 # 0 /\ armed' = armed
      BY <2>2, <1>3, <1>4, <1>5, <1>6, <1>8, <1>9
    <3> QED BY <2>2, <3>1, <1>2, <1>7
  <2> QED BY <2>1, <2>2
<1> QED
  BY <1>2, <1>5, <1>6, <1>10 DEF SnapCadence

(* A pass keeps the log leading back to the memory of the last drain.      *)
LEMMA PassUndo ==
    ASSUME HInv, HPass
    PROVE  LogLeadsBack' /\ base' \in Memory
<1>1. TypeOK /\ AnyPass /\ mem \in Memory /\ base \in Memory
  BY PassIsAnyPass DEF HInv, HPass, TypeOK
<1>2. base' = IF SnapFires THEN mem ELSE base
  BY DEF HPass
<1>3. LeadsBack(Log, mem, base')
  BY <1>1, <1>2, EmptyLeadsBack DEF HInv, LogLeadsBack, Log
<1>4. Log \in Seq(MemDelta) /\ imm \in Addr /\ state.regs[dst] \in Word
  BY <1>1, PassTypes DEF TypeOK, VMState
<1>5. LeadsBack(deltas', mem', base')
  <2>1. CASE mem' = mem /\ deltas' = Log
    BY <2>1, <1>3
  <2>2. CASE /\ mem' = mem_store_u32(mem, imm, state.regs[dst])
             /\ deltas' = LogStore(Log, mem, imm)
    BY <2>2, <1>1, <1>3, <1>4, StoreLeadsBack
  <2> QED BY <2>1, <2>2, <1>1, PassMemory
<1> QED
  BY <1>1, <1>2, <1>5 DEF LogLeadsBack

(* A pass logs a STORE exactly when it retires one.                        *)
LEMMA PassLogs ==
    ASSUME TypeOK, Pass
    PROVE  deltas' = IF running' /\ decode_op(Instr) = OP_STORE
                     THEN LogStore(Log, mem, imm) ELSE Log
<1>1. CASE DoSTORE
  BY <1>1 DEF DoSTORE, Dispatches, CanFetch
<1>2. CASE \E st : Trap(st)
  BY <1>2 DEF Trap
<1>3. CASE /\ \E st : Retire(st)
           /\ \E op \in {OP_LOAD, OP_ADD, OP_SUB, OP_MUL, OP_DIV, OP_JUMP, OP_JNZ,
                         OP_IN, OP_RAND, OP_LI} : Dispatches(op)
  BY <1>3 DEF Retire, Dispatches, OP_STORE, OP_LOAD, OP_ADD, OP_SUB, OP_MUL, OP_DIV,
     OP_JUMP, OP_JNZ, OP_IN, OP_RAND, OP_LI
<1>4. CASE Deterministic /\ ~ DoSTORE
  BY <1>2, <1>3, <1>4 DEF Deterministic, DoHALT, DoLOAD, DoALU, DoDIV, DoDivZero, DoJUMP,
     DoJNZ, DoLI, DoUnknown
<1>5. CASE ~ Deterministic
  BY <1>2, <1>3, <1>5 DEF Pass, DoThrow, DoNondet, SoftHalt, StaleHalt, SnapReturn
<1> QED
  BY <1>1, <1>4, <1>5

(* A pass keeps the run counts of the log in step with the STOREs.         *)
LEMMA PassCounts ==
    ASSUME HInv, HPass
    PROVE  RunCountsExact' /\ stores' \in Nat
<1>1. TypeOK /\ AnyPass /\ Pass /\ mem \in Memory
  BY PassIsAnyPass DEF HInv, HPass, TypeOK
<1>2. Log \in Seq(MemDelta) /\ imm \in Addr
  BY <1>1, PassTypes
<1>3. RunTotal(Log) = IF SnapFires THEN 0 ELSE stores
  BY EmptyTotal DEF HInv, RunCountsExact, Log
<1>4. stores \in Nat
  BY DEF HInv
<1>5. RunTotal(LogStore(Log, mem, imm)) = RunTotal(Log) + 1
  BY <1>1, <1>2, LogStoreTotal
<1> QED
  BY <1>1, <1>3, <1>4, <1>5, PassLogs DEF RunCountsExact, HPass

(* The clients' calls keep all of it.                                      *)
LEMMA HistoryClient ==
    ASSUME HInv, HClient \/ HArms \/ HDrains \/ HReset
    PROVE  /\ LogLeadsBack' /\ RunCountsExact' /\ SnapCadence'
           /\ base' \in Memory /\ armed' \in Nat /\ stores' \in Nat
<1>0. state \in VMState /\ mem \in Memory /\ base \in Memory /\ armed \in Nat
      /\ stores \in Nat /\ LogLeadsBack /\ RunCountsExact /\ SnapCadence
  BY DEF HInv, TypeOK
<1>1. CASE HClient
  <2>1. /\ mem' = mem /\ deltas' = deltas /\ base' = base /\ armed' = armed /\ stores' = stores
        /\ state' = state \/ state' = [state EXCEPT !.halted = HALT_RUNNING]
    BY <1>1 DEF HClient, Client, histVars, Run, ClearHalt, LoopExit, set_snapshot_sink,
       set_dispatch_mode
  <2>2. /\ state'.snap_interval = state.snap_interval
        /\ state'.snap_timer = state.snap_timer
        /\ state'.cycle_count = state.cycle_count
    BY <1>0, <2>1 DEF VMState
  <2> QED BY <1>0, <2>1, <2>2 DEF LogLeadsBack, RunCountsExact, SnapCadence
<1>2. CASE HArms
  <2> PICK n \in Intervals : set_snapshot_interval(n)
    BY <1>2 DEF HArms, Arms
  <2>1. n \in Nat /\ state.cycle_count \in Nat
    BY <1>0, VMAssumption, Sizes DEF VMState, Word
  <2>2. /\ mem' = mem /\ deltas' = deltas /\ base' = base /\ stores' = stores
        /\ armed' = state.cycle_count
        /\ state' = [state EXCEPT !.snap_interval = n, !.snap_timer = n]
    BY <1>2 DEF HArms, set_snapshot_interval
  <2>3. state'.snap_interval = n /\ state'.snap_timer = n
        /\ state'.cycle_count = state.cycle_count
    BY <1>0, <2>2 DEF VMState
  <2> QED BY <1>0, <2>1, <2>2, <2>3 DEF LogLeadsBack, RunCountsExact, SnapCadence
<1>3. CASE HDrains
  <2>1. /\ mem' = mem /\ deltas' = << >> /\ base' = mem /\ armed' = armed /\ stores' = 0
        /\ state' = state \/ state' = PowerOn
    BY <1>3 DEF HDrains, Drains, take_snapshot, reset_cpu_for_reuse
  <2>2. SnapCadence'
    BY <1>0, <2>1 DEF SnapCadence, PowerOn
  <2>3. LeadsBack(deltas', mem', base')
    BY <1>0, <2>1, EmptyLeadsBack
  <2> QED BY <1>0, <2>1, <2>2, <2>3, EmptyTotal DEF LogLeadsBack, RunCountsExact
<1>4. CASE HReset
  <2>1. mem' \in Memory /\ deltas' = << >> /\ base' = mem' /\ armed' = armed
        /\ stores' = 0 /\ state' = PowerOn
    BY <1>4, PowerOnType DEF HReset, Loads, ResetAndLoad
  <2>2. LeadsBack(deltas', mem', base')
    BY <2>1, EmptyLeadsBack
  <2> QED BY <1>0, <2>1, <2>2, EmptyTotal DEF LogLeadsBack, RunCountsExact, SnapCadence, PowerOn
<1> QED
  BY <1>1, <1>2, <1>3, <1>4

(* HInv is inductive.                                                      *)
LEMMA HistoryInvariant == HSpec => []HInv
<1>1. HInit => HInv
  <2> SUFFICES ASSUME HInit PROVE HInv
    OBVIOUS
  <2>1. TypeOK /\ base = mem /\ armed = 0 /\ deltas = << >> /\ state = PowerOn /\ stores = 0
    BY InitType DEF HInit, Init
  <2>2. mem \in Memory
    BY <2>1 DEF TypeOK
  <2>3. LogLeadsBack
    BY <2>1, <2>2, EmptyLeadsBack DEF LogLeadsBack
  <2> QED BY <2>1, <2>2, <2>3, EmptyTotal DEF HInv, RunCountsExact, SnapCadence, PowerOn
<1>2. HInv /\ [HNext]_hvars => HInv'
  <2> SUFFICES ASSUME HInv, [HNext]_hvars PROVE HInv'
    OBVIOUS
  <2>1. CASE HPass
    <3>1. TypeOK'
      BY <2>1, PassType, PassIsAnyPass DEF HInv, HPass
    <3>2. SnapCadence' /\ armed' \in Nat
      BY <2>1, PassCadence
    <3>3. LogLeadsBack' /\ base' \in Memory
      BY <2>1, PassUndo
    <3>4. RunCountsExact' /\ stores' \in Nat
      BY <2>1, PassCounts
    <3> QED BY <3>1, <3>2, <3>3, <3>4 DEF HInv
  <2>2. CASE HClient \/ HArms \/ HDrains \/ HReset
    <3>1. TypeOK'
      BY <2>2, ClientType DEF HInv, HClient, HArms, HDrains, HReset
    <3>2. /\ LogLeadsBack' /\ RunCountsExact' /\ SnapCadence'
          /\ base' \in Memory /\ armed' \in Nat /\ stores' \in Nat
      BY <2>2, HistoryClient
    <3> QED BY <3>1, <3>2 DEF HInv
  <2>3. CASE UNCHANGED hvars
    BY <2>3 DEF hvars, vmVars, histVars, HInv, TypeOK, LogLeadsBack, RunCountsExact,
       SnapCadence
  <2> QED BY <2>1, <2>2, <2>3 DEF HNext
<1> QED
  BY <1>1, <1>2, PTL DEF HSpec

(* The undo log always leads back to the memory of the last snapshot, for  *)
(* every program, machine size, run cap and snapshot interval: with folded *)
(* and capped runs, unaligned and overlapping cells, and words that wrap   *)
(* around the end of memory (vm.cpp label_STORE, VM::apply_old_value).     *)
THEOREM UndoLogCorrect == HSpec => []UndoLog
<1>1. HInv => UndoLog
  BY UndoLogMeaning DEF HInv, TypeOK, LogLeadsBack, UndoLog
<1> QED
  BY <1>1, HistoryInvariant, PTL

(* The run counts of the log add up to the STOREs retired since the last   *)
(* snapshot, for every run cap: folding loses none, and a run that reaches *)
(* the cap goes on in a new entry (vm.cpp label_STORE, MemDelta.run_count).*)
THEOREM RunCountsCorrect == HSpec => []RunCountsExact
<1>1. HInv => RunCountsExact
  BY DEF HInv
<1> QED
  BY <1>1, HistoryInvariant, PTL

(* Snapshots come every snap_interval cycles and the timer never reaches   *)
(* zero between passes, also when the sink stops the run in the pass that  *)
(* reloads it (vm.cpp TAIL_DISPATCH).                                      *)
THEOREM SnapCadenceCorrect == HSpec => []SnapCadence
<1>1. HInv => SnapCadence
  BY DEF HInv
<1> QED
  BY <1>1, HistoryInvariant, PTL

=============================================================================
