---------------------------- MODULE Bench_proofs ----------------------------
(***************************************************************************)
(* Proofs about the benchmarks, for every machine, loop count, ring        *)
(* capacity, interval and depth: the type invariant, and that a rewind of  *)
(* the back benchmarks is exact.                                           *)
(***************************************************************************)
EXTENDS BenchHistory, EngineLemmas

-----------------------------------------------------------------------------
(* The inductive invariant.                                                *)

(* run() is on the stack in two stages only, and the stages of the plain   *)
(* benchmark are not those of the back benchmarks.                         *)
StageOK ==
    /\ running => stage \in {"sanity", "round"}
    /\ stage = "reset" => ~ IsBack

(* The interval is the configured one, and the timer is never at zero.     *)
TimerOK ==
    /\ state.snap_interval = config.interval
    /\ IsBack => state.snap_timer \in 1 .. config.interval

(* history_index points into the ring, or the ring is empty.               *)
RingOK ==
    /\ mem_at \in Seq(Memory) /\ Len(mem_at) = Len(ring)
    /\ IF ring = << >> THEN history_index = 0 ELSE history_index < Len(ring)
    /\ IsBack \/ ring = << >>

(* The ring of a back benchmark is empty until the first snapshot, which   *)
(* comes before the sanity check can pass.                                 *)
EmptyOK ==
    IsBack /\ ring = << >> =>
        \/ /\ stage \in {"loaded", "sanity"}
           /\ state.cycle_count + state.snap_timer = config.interval
        \/ stage \in {"rest", "done"} /\ ~ More

(* The memory at the snapshot before the next one.                         *)
LastMemory == IF ring = << >> THEN Image(workload) ELSE mem_at[history_index + 1]

(* With a snapshot every cycle each snapshot's log leads back to the       *)
(* memory of the one before it, and the pending log to the last one; it is *)
(* empty whenever run() has returned.                                      *)
ChainOK ==
    config.interval = 1 =>
        /\ \A i \in 1 .. Len(ring) - 1 : LeadsBack(ring[i + 1].deltas, mem_at[i + 1], mem_at[i])
        /\ LeadsBack(deltas, mem, LastMemory)
        /\ ~ running => deltas = << >>

BInv == BTypeOK /\ StageOK /\ TimerOK /\ RingOK /\ EmptyOK /\ ChainOK

-----------------------------------------------------------------------------
(* The built-in programs.                                                  *)

(* Every instruction is a word, and the programs fit the memory.           *)
LEMMA ProgramTypes ==
    /\ workload \in Seq(Word) /\ Len(workload) = 12
    /\ demo \in Seq(Word) /\ Len(demo) = 7
    /\ 48 <= MEM_SIZE
<1>1. 48 <= MEM_SIZE /\ kCell \in Addr /\ kBenchmarkLoopCount \in Addr
      /\ 0 \in Addr /\ 1 \in Addr /\ 5 \in Addr /\ 7 \in Addr /\ 8 \in Addr
  BY BenchmarksAssumption, MachineAssumption DEF Addr
<1>2. 0 .. 7 \subseteq Reg
  BY BenchmarksAssumption, MachineAssumption DEF Reg
<1>3. 0 .. 11 \subseteq 0 .. OP_SPACE - 1
  BY LayoutAssumption, MachineAssumption DEF OP_COUNT
<1>4. ASSUME NEW op \in 0 .. 11, NEW d \in 0 .. 7, NEW s \in 0 .. 7, NEW i \in Addr
      PROVE  encode(op, d, s, i) \in Word
  BY <1>2, <1>3, CodecInverse
<1>5. \A j \in 0 .. 7 : j \in 0 .. 7 /\ j \in 0 .. 11
  OBVIOUS
<1>6. /\ OP_LI \in 0 .. 11 /\ OP_ADD \in 0 .. 11 /\ OP_SUB \in 0 .. 11 /\ OP_MUL \in 0 .. 11
      /\ OP_DIV \in 0 .. 11 /\ OP_STORE \in 0 .. 11 /\ OP_LOAD \in 0 .. 11
      /\ OP_JNZ \in 0 .. 11 /\ OP_HALT \in 0 .. 11
  BY DEF OP_LI, OP_ADD, OP_SUB, OP_MUL, OP_DIV, OP_STORE, OP_LOAD, OP_JNZ, OP_HALT
<1>7. workload \in Seq(Word) /\ Len(workload) = 12
  <2>1. /\ encode(OP_LI, 0, 0, kBenchmarkLoopCount) \in Word
        /\ encode(OP_LI, 1, 0, 1) \in Word /\ encode(OP_ADD, 2, 1, 0) \in Word
        /\ encode(OP_ADD, 3, 1, 0) \in Word /\ encode(OP_SUB, 4, 0, 0) \in Word
        /\ encode(OP_MUL, 5, 1, 0) \in Word /\ encode(OP_DIV, 6, 1, 0) \in Word
        /\ encode(OP_STORE, 2, 0, kCell) \in Word /\ encode(OP_LOAD, 7, 0, kCell) \in Word
        /\ encode(OP_SUB, 0, 1, 0) \in Word /\ encode(OP_JNZ, 0, 0, 8) \in Word
        /\ encode(OP_HALT, 0, 0, 0) \in Word
    BY <1>1, <1>4, <1>6
  <2> QED BY <2>1 DEF workload
<1>8. demo \in Seq(Word) /\ Len(demo) = 7
  <2>1. /\ encode(OP_LI, 0, 0, 5) \in Word /\ encode(OP_LI, 1, 0, 7) \in Word
        /\ encode(OP_LI, 2, 0, 5) \in Word /\ encode(OP_ADD, 2, 1, 0) \in Word
        /\ encode(OP_STORE, 2, 0, kCell) \in Word /\ encode(OP_LOAD, 3, 0, kCell) \in Word
        /\ encode(OP_HALT, 0, 0, 0) \in Word
    BY <1>1, <1>4, <1>6
  <2> QED BY <2>1 DEF demo
<1> QED
  BY <1>1, <1>7, <1>8

(* The memory a program is loaded into is a memory.                        *)
LEMMA ImageType ==
    ASSUME NEW ws \in Seq(Word)
    PROVE  Image(ws) \in Memory
<1>1. BytesOf(ws) \in Seq(Byte) /\ 0 \in Byte
  BY BytesAt, MachineAssumption DEF Byte
<1> DEFINE p == BytesOf(ws)
<1> HIDE DEF p
<1>2. p \in Seq(Byte)
  BY <1>1 DEF p
<1>3. \A a \in Addr : a < Len(p) => p[a + 1] \in Byte
  BY <1>2, MachineAssumption DEF Addr
<1> QED
  BY <1>1, <1>3 DEF Image, p, load_program, ZeroMemory, Memory

-----------------------------------------------------------------------------
(* The ring.                                                               *)

(* Where the sink leaves history_index, and by how much older entries move *)
(* towards the front.                                                      *)
NewIndex == IF history_index + 2 > kBenchRingCap THEN history_index ELSE history_index + 1
Shift == history_index + 1 - NewIndex

(* p is what the sink makes of a sequence that is kept along the ring: x   *)
(* is at the new history_index, everything up to the old one is before it, *)
(* and the first push of all puts fill in front.                           *)
IsPush(p, S, seq, x, fill) ==
    /\ p \in Seq(S) /\ Len(p) = NewIndex + 1 /\ Len(p) <= kBenchRingCap
    /\ p # << >> /\ p[NewIndex + 1] = x
    /\ \A i \in 1 .. NewIndex : p[i] = IF seq = << >> THEN fill ELSE seq[i + Shift]

(* history_index points into the sequence.                                 *)
Indexed(seq) ==
    /\ IF seq = << >> THEN history_index = 0 ELSE history_index < Len(seq)
    /\ Len(seq) <= kBenchRingCap

(* What the sink does, whatever it pushes.                                 *)
LEMMA PushedFacts ==
    ASSUME NEW S, NEW seq \in Seq(S), NEW x \in S, NEW fill \in S, history_index \in Nat,
           Indexed(seq)
    PROVE  IsPush(Pushed(seq, x, fill), S, seq, x, fill)
<1> DEFINE h == history_index
           r == Resized(seq, h + 1, fill)
           longer == Append(r, x)
<1>1. kBenchRingCap \in Nat /\ kBenchRingCap >= 1 /\ h \in Nat /\ Len(seq) \in Nat
  BY BenchmarksAssumption
<1>2. r \in Seq(S) /\ Len(r) = h + 1
      /\ \A i \in 1 .. h + 1 : r[i] = IF seq = << >> THEN fill ELSE seq[i]
  <2>1. CASE seq = << >>
    <3>1. r = << >> \o [i \in 1 .. 1 |-> fill] /\ h = 0
      BY <2>1 DEF Resized, Indexed
    <3> DEFINE one == [i \in 1 .. 1 |-> fill]
    <3>2. one \in Seq(S) /\ Len(one) = 1 /\ one[1] = fill
      OBVIOUS
    <3> HIDE DEF one
    <3>3. << >> \o one = one
      BY <3>2
    <3>4. r = one
      BY <3>1, <3>3 DEF one
    <3> HIDE DEF r, h
    <3> QED BY <3>1, <3>2, <3>4, <2>1
  <2>2. CASE seq # << >>
    <3>1. r = SubSeq(seq, 1, h + 1) /\ h + 1 <= Len(seq)
      BY <2>2, <1>1 DEF Resized, Indexed
    <3> QED BY <3>1, <2>2, <1>1
  <2> QED BY <2>1, <2>2
<1> HIDE DEF r, h
<1>3. longer \in Seq(S) /\ Len(longer) = h + 2 /\ longer[h + 2] = x
      /\ \A i \in 1 .. h + 1 : longer[i] = r[i]
  BY <1>1, <1>2
<1>4. Pushed(seq, x, fill) = IF Len(longer) > kBenchRingCap THEN Tail(longer) ELSE longer
  BY DEF Pushed, r, h
<1> HIDE DEF longer
<1>5. h + 1 <= kBenchRingCap
  BY <1>1 DEF h, Indexed
<1>6. CASE h + 2 > kBenchRingCap
  <2>1. Pushed(seq, x, fill) = Tail(longer) /\ longer # << >>
    BY <1>1, <1>3, <1>4, <1>6
  <2>2. /\ Tail(longer) \in Seq(S) /\ Len(Tail(longer)) = h + 1
        /\ \A i \in 1 .. h + 1 : Tail(longer)[i] = longer[i + 1]
    BY <2>1, <1>1, <1>3
  <2>3. /\ Tail(longer)[h + 1] = x
        /\ \A i \in 1 .. h : Tail(longer)[i] = IF seq = << >> THEN fill ELSE seq[i + 1]
    <3>1. h + 1 \in 1 .. h + 1 /\ h + 1 + 1 = h + 2
      BY <1>1
    <3>2. ASSUME NEW i \in 1 .. h
          PROVE  i \in 1 .. h + 1 /\ i + 1 \in 1 .. h + 1
      BY <1>1
    <3> QED BY <3>1, <3>2, <2>2, <1>2, <1>3
  <2>4. h + 1 - h = 1 /\ Tail(longer) # << >>
    <3> DEFINE t == Tail(longer)
    <3>1. t \in Seq(S) /\ Len(t) = h + 1
      BY <2>2
    <3> HIDE DEF t
    <3>2. h + 1 - h = 1 /\ t # << >>
      BY <3>1, <1>1
    <3> QED BY <3>2 DEF t
  <2> QED BY <2>1, <2>2, <2>3, <2>4, <1>5, <1>6 DEF h, IsPush, NewIndex, Shift
<1>7. CASE ~ (h + 2 > kBenchRingCap)
  <2>1. Pushed(seq, x, fill) = longer
    BY <1>3, <1>4, <1>7
  <2>2. /\ h + 1 - (h + 1) = 0 /\ longer # << >> /\ h + 1 + 1 = h + 2
        /\ h + 2 <= kBenchRingCap /\ \A i \in 1 .. h + 1 : i + 0 = i
    BY <1>1, <1>3, <1>7
  <2> QED BY <2>1, <2>2, <1>2, <1>3, <1>7 DEF h, IsPush, NewIndex, Shift
<1> QED
  BY <1>6, <1>7

(* The memories that the two loops of do_back pass through, one for every  *)
(* snapshot that is undone.                                                *)
LEMMA UndoDeltasLoop ==
    ASSUME mem \in Memory, ring \in Seq(Snapshot), NEW lo \in Nat, NEW hi \in Nat,
           lo <= hi, hi < Len(ring)
    PROVE  \E u \in [0 .. hi - lo -> Memory] :
              /\ u[0] = mem
              /\ \A k \in 1 .. hi - lo : u[k] = undo_log(ring[hi + 2 - k].deltas, u[k - 1])
              /\ undo_deltas(lo, hi) = u[hi - lo]
<1> DEFINE n == hi - lo
           step(u, k) == IF k = 0 THEN mem ELSE undo_log(ring[hi + 2 - k].deltas, u[k - 1])
           G == [p \in (1 .. n) \X Memory |-> undo_log(ring[hi + 2 - p[1]].deltas, p[2])]
           v == CHOOSE u : u = [k \in 0 .. n |-> step(u, k)]
<1>1. n \in Nat
  OBVIOUS
<1>2. ASSUME NEW k \in 1 .. n PROVE ring[hi + 2 - k].deltas \in Seq(MemDelta)
  <2>1. ring[hi + 2 - k] \in Snapshot
    OBVIOUS
  <2> QED BY <2>1 DEF Snapshot
<1>3. G \in [(1 .. n) \X Memory -> Memory]
  <2>1. ASSUME NEW k \in 1 .. n, NEW x \in Memory
        PROVE  undo_log(ring[hi + 2 - k].deltas, x) \in Memory
    BY <1>2, UndoLogMeaning
  <2> QED BY <2>1
<1>4. PICK f \in [0 .. n -> Memory] : Iterates(f, n, mem, G)
  <2> HIDE DEF G, n
  <2> QED BY <1>1, <1>3, RecursionUp
<1>5. ASSUME NEW i \in 1 .. n PROVE f[i] = undo_log(ring[hi + 2 - i].deltas, f[i - 1])
  <2>1. f[i - 1] \in Memory
    OBVIOUS
  <2> QED BY <2>1, <1>4 DEF Iterates
<1>6. f = [k \in 0 .. n |-> step(f, k)]
  <2>1. ASSUME NEW k \in 0 .. n PROVE f[k] = step(f, k)
    <3>1. k = 0 \/ k \in 1 .. n
      OBVIOUS
    <3> QED BY <3>1, <1>4, <1>5 DEF Iterates
  <2> QED BY <2>1
<1>7. v = [k \in 0 .. n |-> step(v, k)]
  <2> HIDE DEF step, n
  <2> QED BY <1>6
<1>8. undo_deltas(lo, hi) = v[n]
  BY DEF undo_deltas
<1>9. LockStep(v, f, n)
  <2>1. \A k \in 0 .. n : v[k] = step(v, k)
    <3> HIDE DEF v
    <3> QED BY <1>7
  <2> HIDE DEF v
  <2>2. v[0] = f[0]
    BY <2>1, <1>4 DEF Iterates
  <2>3. ASSUME NEW k \in 1 .. n, v[k - 1] = f[k - 1] PROVE v[k] = f[k]
    BY <2>1, <2>3, <1>5
  <2> QED BY <2>2, <2>3 DEF LockStep
<1>10. v[n] = f[n]
  <2> HIDE DEF v, n
  <2> QED BY <1>1, <1>9, SameLoop
<1> QED
  BY <1>4, <1>5, <1>8, <1>10 DEF Iterates

-----------------------------------------------------------------------------
(* What a pass of the benchmarks is for the engine.                        *)

(* The configuration has its type and its limits.                          *)
LEMMA ConfigFacts ==
    ASSUME config \in Configs
    PROVE  /\ config.cmd \in Commands /\ config.interval \in Word /\ config.interval \in Nat
           /\ config.depth \in Nat
           /\ config.interval <= 9 * kBenchmarkLoopCount
           /\ config.interval > 0 <=> IsBack
           /\ config.cmd = "bench-back" =>
                 config.interval = 1 /\ config.depth \in 1 .. kBenchRingCap - 1
<1>1. config \in [cmd : Commands, interval : Word, depth : Nat]
  BY BenchmarksAssumption
<1>2. \A w \in Word : w \in Nat
  BY Sizes DEF Word
<1> QED
  BY <1>1, <1>2, BenchmarksAssumption DEF IsBack

(* It is a pass of the engine, made while run() is on the stack.           *)
LEMMA BenchPassFacts ==
    ASSUME TypeOK, BenchPass
    PROVE  /\ AnyPass /\ running
           /\ snap_sink' = snap_sink /\ dispatch_mode' = dispatch_mode
           /\ ~ running' => mem' = mem /\ deltas' = Log
<1>1. HALT_STEP \in HaltReason
  BY DEF HALT_STEP, HaltReason
<1>2. CASE StopPass
  BY <1>1, <1>2 DEF StopPass, SoftHalt, SnapReturn, CanFetch, AnyPass, Trap, Frame
<1>3. CASE PlainPass
  <2>1. AnyPass /\ StaysOrReturns
    BY <1>3, DeterministicReturns DEF PlainPass, AnyPass
  <2>2. Frame
    BY <1>3 DEF PlainPass, Deterministic, DoHALT, DoLOAD, DoSTORE, DoALU, DoDIV, DoDivZero,
       DoJUMP, DoJNZ, DoLI, DoUnknown, Retire, Trap
  <2> QED BY <2>1, <2>2 DEF StaysOrReturns, Frame
<1> QED
  BY <1>2, <1>3 DEF BenchPass

(* What the sink is given is a snapshot.                                   *)
LEMMA FiredType ==
    ASSUME TypeOK
    PROVE  /\ Fired \in Snapshot /\ Fired.deltas = deltas
           /\ Fired.cycle_count = state.cycle_count + 1
           /\ ZeroSnapshot \in Snapshot
<1>1. Fetched \in VMState /\ Fetched.cycle_count = state.cycle_count + 1
      /\ deltas \in Seq(MemDelta)
  BY TickedFields DEF TypeOK
<1>2. Fired \in Snapshot /\ Fired.deltas = deltas /\ Fired.cycle_count = state.cycle_count + 1
  BY <1>1 DEF Fired, SnapshotOf, Snapshot, VMState
<1>3. PowerOn \in VMState /\ 0 \in Word
  BY PowerOnType, Sizes DEF Word
<1>4. [PowerOn EXCEPT !.sp = 0] \in VMState
  BY <1>3 DEF VMState
<1>5. << >> \in Seq(MemDelta)
  OBVIOUS
<1> QED
  BY <1>2, <1>4, <1>5 DEF ZeroSnapshot, SnapshotOf, Snapshot, VMState

(* What the sink does to the ring and to the history kept along it.        *)
LEMMA SinkFacts ==
    ASSUME BTypeOK, RingOK, BenchPass, SnapFires, mem_at' = Pushed(mem_at, mem, Image(workload))
    PROVE  /\ history_index' = NewIndex /\ NewIndex \in Nat /\ Shift \in {0, 1}
           /\ IsPush(ring', Snapshot, ring, Fired, ZeroSnapshot)
           /\ IsPush(mem_at', Memory, mem_at, mem, Image(workload))
           /\ ring = << >> <=> mem_at = << >>
<1>1. TypeOK /\ mem \in Memory /\ ring \in Seq(Snapshot) /\ history_index \in Nat
      /\ Len(ring) <= kBenchRingCap /\ mem_at \in Seq(Memory) /\ Len(mem_at) = Len(ring)
      /\ Indexed(ring)
  BY DEF BTypeOK, TypeOK, RingOK, Indexed
<1>2. ring = << >> <=> mem_at = << >>
  BY <1>1
<1>3. ring' = Pushed(ring, Fired, ZeroSnapshot) /\ history_index' = NewIndex
  BY DEF BenchPass, Sink, NewIndex
<1>4. Image(workload) \in Memory
  BY ProgramTypes, ImageType
<1>5. Fired \in Snapshot /\ ZeroSnapshot \in Snapshot
  BY <1>1, FiredType
<1>6. IsPush(ring', Snapshot, ring, Fired, ZeroSnapshot)
  BY <1>1, <1>3, <1>5, PushedFacts
<1>7. IsPush(mem_at', Memory, mem_at, mem, Image(workload))
  <2>1. Indexed(mem_at)
    BY <1>1, <1>2 DEF Indexed
  <2> QED BY <2>1, <1>1, <1>4, PushedFacts
<1>8. NewIndex \in Nat /\ Shift \in {0, 1}
  BY <1>1 DEF NewIndex, Shift
<1> QED
  BY <1>2, <1>3, <1>6, <1>7, <1>8

-----------------------------------------------------------------------------
(* A pass keeps the invariant.                                             *)

(* What the actions of the invariant's stages leave alone.                 *)
LEMMA PassConfig ==
    ASSUME BenchPass
    PROVE  /\ config' = config /\ stage' = stage /\ rounds' = rounds
           /\ exit_code' = exit_code /\ (IsBack <=> IsBack')
BY DEF BenchPass, IsBack

(* The countdown: it fires at one, and otherwise loses one.                *)
LEMMA PassTimerOK ==
    ASSUME BInv, BenchPass
    PROVE  /\ TimerOK'
           /\ SnapFires => IsBack
           /\ IsBack /\ ~ SnapFires => state'.snap_timer = state.snap_timer - 1
           /\ config.interval = 1 => SnapFires
           /\ state'.cycle_count = state.cycle_count + 1
<1> DEFINE si == state.snap_interval
           ti == state.snap_timer
<1>1. TypeOK /\ AnyPass
  BY BenchPassFacts DEF BInv, BTypeOK
<1>2. si \in Nat /\ ti \in Nat /\ si < WORD_MOD /\ ti < WORD_MOD /\ WORD_MOD \in Nat
  BY <1>1, Sizes DEF TypeOK, VMState, Word
<1>3. Fetched.snap_timer = IF si > 0 THEN (ti - 1) % WORD_MOD ELSE ti
  BY <1>1 DEF Fetched, TypeOK, VMState
<1>4. Ticked.snap_timer = IF SnapFires THEN si ELSE Fetched.snap_timer
  <2>1. Fetched \in VMState
    BY <1>1, PassTypes
  <2> QED BY <2>1 DEF Ticked, VMState
<1>5. /\ state'.cycle_count = state.cycle_count + 1
      /\ state'.snap_interval = si /\ state'.snap_timer = Ticked.snap_timer
  BY <1>1, PassCounters
<1>6. si = config.interval /\ (config.interval > 0 <=> IsBack) /\ (IsBack => ti \in 1 .. si)
  BY ConfigFacts DEF BInv, BTypeOK, TimerOK
<1>7. SnapFires <=> si > 0 /\ Fetched.snap_timer = 0
  BY DEF SnapFires
<1> HIDE DEF si, ti
<1>8. si > 0 => (ti - 1) % WORD_MOD = ti - 1
  <2>1. ASSUME NEW x \in Nat, NEW n \in Nat, x < n PROVE x % n = x
    BY <2>1
  <2> QED BY <2>1, <1>2, <1>6
<1>9. IsBack => state'.snap_timer = IF SnapFires THEN si ELSE ti - 1
  BY <1>3, <1>4, <1>5, <1>6, <1>8
<1>10. IsBack => state'.snap_timer \in 1 .. si
  <2>1. ~ SnapFires /\ IsBack => ti - 1 # 0
    BY <1>3, <1>6, <1>7, <1>8
  <2> QED BY <2>1, <1>2, <1>6, <1>9
<1>11. TimerOK'
  BY <1>5, <1>6, <1>10, PassConfig DEF TimerOK
<1>12. config.interval = 1 => SnapFires
  BY <1>2, <1>3, <1>6, <1>7, <1>8
<1> QED
  BY <1>5, <1>6, <1>7, <1>9, <1>11, <1>12 DEF ti

(* The step of the history variable that a pass takes.                     *)
PushesMemory ==
    mem_at' = IF SnapFires THEN Pushed(mem_at, mem, Image(workload)) ELSE mem_at

(* The types and the ring.                                                 *)
LEMMA PassRingOK ==
    ASSUME BInv, BenchPass, PushesMemory
    PROVE  BTypeOK' /\ RingOK' /\ EmptyOK' /\ StageOK'
<1>1. TypeOK /\ BTypeOK /\ RingOK /\ StageOK /\ EmptyOK
  BY DEF BInv, BTypeOK
<1>2. TypeOK'
  BY <1>1, BenchPassFacts, PassType
<1>3. StageOK'
  BY <1>1, BenchPassFacts, PassConfig DEF StageOK
<1>4. target_cycle' \in Nat \cup {NoTarget}
  BY <1>1 DEF BTypeOK, BenchPass, Sink, ringVars
<1>5. config' \in Configs /\ stage' \in Stages /\ rounds' \in Nat /\ exit_code' \in {0, 1, 2}
  BY <1>1, PassConfig DEF BTypeOK
<1>6. CASE SnapFires
  <2>1. /\ history_index' = NewIndex /\ NewIndex \in Nat
        /\ IsPush(ring', Snapshot, ring, Fired, ZeroSnapshot)
        /\ IsPush(mem_at', Memory, mem_at, mem, Image(workload))
    BY <1>1, <1>6, SinkFacts DEF PushesMemory
  <2>2. BTypeOK'
    BY <2>1, <1>2, <1>4, <1>5 DEF BTypeOK, IsPush
  <2>3. IsBack'
    BY <1>6, PassTimerOK, PassConfig
  <2>4. RingOK'
    BY <2>1, <2>3 DEF RingOK, IsPush
  <2> QED BY <2>1, <2>2, <2>4, <1>3 DEF EmptyOK, IsPush
<1>7. CASE ~ SnapFires
  <2>1. ring' = ring /\ history_index' = history_index /\ mem_at' = mem_at
    BY <1>7 DEF BenchPass, Sink, ringVars, PushesMemory
  <2>2. BTypeOK'
    BY <2>1, <1>1, <1>2, <1>4, <1>5 DEF BTypeOK
  <2>3. RingOK'
    BY <2>1, <1>1, PassConfig DEF RingOK
  <2>4. EmptyOK'
    <3> SUFFICES ASSUME IsBack', ring' = << >> PROVE EmptyOK'
      BY DEF EmptyOK
    <3>1. stage \in {"sanity", "round"} /\ IsBack /\ ring = << >>
      BY <2>1, <1>1, BenchPassFacts, PassConfig DEF StageOK
    <3>2. stage \in {"loaded", "sanity"}
          /\ state.cycle_count + state.snap_timer = config.interval
      BY <3>1, <1>1 DEF EmptyOK
    <3>3. state'.cycle_count = state.cycle_count + 1
          /\ state'.snap_timer = state.snap_timer - 1
      BY <3>1, <1>7, PassTimerOK
    <3>4. state.cycle_count \in Nat /\ state.snap_timer \in Nat
      BY <1>1, Sizes DEF TypeOK, VMState, Word
    <3> QED BY <3>2, <3>3, <3>4, PassConfig DEF EmptyOK
  <2> QED BY <2>2, <2>3, <2>4, <1>3
<1> QED
  BY <1>6, <1>7

(* The chain of logs: the snapshot takes the pending log along, and the    *)
(* instruction starts a new one.                                           *)
LEMMA PassChainOK ==
    ASSUME BInv, BenchPass, PushesMemory
    PROVE  ChainOK'
<1> SUFFICES ASSUME config.interval = 1 PROVE ChainOK'
  BY PassConfig DEF ChainOK
<1>1. TypeOK /\ BTypeOK /\ RingOK /\ ChainOK /\ SnapFires /\ AnyPass
  BY PassTimerOK, BenchPassFacts DEF BInv, BTypeOK
<1>2. /\ history_index' = NewIndex /\ NewIndex \in Nat /\ Shift \in {0, 1}
      /\ IsPush(ring', Snapshot, ring, Fired, ZeroSnapshot)
      /\ IsPush(mem_at', Memory, mem_at, mem, Image(workload))
      /\ ring = << >> <=> mem_at = << >>
  BY <1>1, SinkFacts DEF PushesMemory
<1>3. mem \in Memory /\ deltas \in Seq(MemDelta) /\ state.regs \in [Reg -> Word]
      /\ history_index \in Nat /\ Len(ring) \in Nat
  BY <1>1 DEF TypeOK, BTypeOK, VMState
<1>4. Log = << >>
  BY <1>1 DEF Log
<1>5. LeadsBack(Log, mem, mem)
  BY <1>3, <1>4, EmptyLeadsBack
<1>6. LastMemory' = mem
  BY <1>2 DEF LastMemory, IsPush
<1>7. LeadsBack(deltas', mem', mem)
  <2>1. CASE mem' = mem /\ deltas' = Log
    BY <2>1, <1>5
  <2>2. CASE /\ mem' = mem_store_u32(mem, imm, state.regs[dst])
             /\ deltas' = LogStore(Log, mem, imm)
    BY <2>2, <1>1, <1>3, <1>5, PassTypes, StoreLeadsBack
  <2> QED BY <2>1, <2>2, <1>1, PassMemory
<1>8. ~ running' => deltas' = << >>
  BY <1>1, <1>4, BenchPassFacts
<1>9. ASSUME NEW i \in 1 .. Len(ring') - 1
      PROVE  LeadsBack(ring'[i + 1].deltas, mem_at'[i + 1], mem_at'[i])
  <2>1. Len(ring') = NewIndex + 1 /\ i \in 1 .. NewIndex
    BY <1>2 DEF IsPush
  <2>2. CASE i = NewIndex
    <3>1. ring'[i + 1] = Fired /\ mem_at'[i + 1] = mem /\ Fired.deltas = deltas
      BY <2>2, <1>1, <1>2, FiredType DEF IsPush
    <3>2. mem_at'[i] = LastMemory
      <4>1. NewIndex + Shift = history_index + 1
        BY <1>2, <1>3 DEF Shift
      <4> QED BY <2>1, <2>2, <4>1, <1>2 DEF IsPush, LastMemory
    <3>3. LeadsBack(deltas, mem, LastMemory)
      BY <1>1 DEF ChainOK
    <3> QED BY <3>1, <3>2, <3>3
  <2>3. CASE i # NewIndex
    <3>1. i + 1 \in 1 .. NewIndex /\ i \in 1 .. NewIndex
      BY <2>1, <2>3, <1>2
    <3>2. ring # << >>
      <4>1. ring = << >> => history_index = 0
        BY <1>1 DEF RingOK
      <4>2. NewIndex >= 2
        BY <3>1, <1>2, <2>1
      <4> QED BY <4>1, <4>2, <1>3 DEF NewIndex
    <3>3. /\ ring'[i + 1] = ring[i + 1 + Shift] /\ mem_at'[i + 1] = mem_at[i + 1 + Shift]
          /\ mem_at'[i] = mem_at[i + Shift]
      BY <3>1, <3>2, <1>2 DEF IsPush
    <3>4. i + Shift \in 1 .. Len(ring) - 1 /\ i + Shift + 1 = i + 1 + Shift
      <4>1. NewIndex + Shift = history_index + 1 /\ history_index < Len(ring)
        BY <3>2, <1>1, <1>2, <1>3 DEF Shift, RingOK
      <4> QED BY <4>1, <3>1, <1>2, <1>3
    <3>5. LeadsBack(ring[i + Shift + 1].deltas, mem_at[i + Shift + 1], mem_at[i + Shift])
      BY <3>4, <1>1 DEF ChainOK
    <3> QED BY <3>3, <3>4, <3>5
  <2> QED BY <2>2, <2>3
<1> QED
  BY <1>6, <1>7, <1>8, <1>9 DEF ChainOK

-----------------------------------------------------------------------------
(* A rewind keeps the invariant, and is exact.                             *)

(* Where a rewind goes is in the ring.                                     *)
LEMMA BackRange ==
    ASSUME BInv, do_back
    PROVE  /\ ring # << >> /\ BackTarget \in Nat /\ BackTarget <= history_index
           /\ history_index \in Nat /\ history_index < Len(ring) /\ Len(ring) \in Nat
           /\ ~ running /\ stage = "rest"
<1>1. stage = "rest" /\ More /\ IsBack
  BY DEF do_back, Go
<1>2. ring # << >> /\ ~ running
  BY <1>1 DEF BInv, EmptyOK, StageOK
<1>3. history_index \in Nat /\ history_index < Len(ring) /\ config.depth \in Nat
      /\ Len(ring) \in Nat
  BY <1>2, ConfigFacts DEF BInv, BTypeOK, RingOK
<1> QED
  BY <1>1, <1>2, <1>3 DEF BackTarget

(* With a snapshot every cycle, undoing the logs of the ring back to any   *)
(* entry gives the memory of that entry.                                   *)
LEMMA RewindExact ==
    ASSUME BInv, config.interval = 1, ring # << >>, ~ running,
           NEW lo \in Nat, lo <= history_index
    PROVE  undo_deltas(lo, history_index) = mem_at[lo + 1]
<1> DEFINE hi == history_index
           n == hi - lo
<1>1. /\ mem \in Memory /\ ring \in Seq(Snapshot) /\ hi \in Nat /\ hi < Len(ring)
      /\ mem_at \in Seq(Memory) /\ Len(mem_at) = Len(ring) /\ Len(ring) \in Nat
      /\ deltas = << >> /\ LeadsBack(deltas, mem, mem_at[hi + 1])
      /\ \A i \in 1 .. Len(ring) - 1 : LeadsBack(ring[i + 1].deltas, mem_at[i + 1], mem_at[i])
  BY DEF BInv, BTypeOK, TypeOK, RingOK, ChainOK, LastMemory
<1>2. \A i \in 1 .. Len(ring) : mem_at[i] \in Memory /\ ring[i].deltas \in Seq(MemDelta)
  <2>1. \A i \in 1 .. Len(ring) : ring[i] \in Snapshot /\ mem_at[i] \in Memory
    BY <1>1
  <2> QED BY <2>1 DEF Snapshot
<1> HIDE DEF hi
<1>3. PICK u \in [0 .. n -> Memory] :
         /\ u[0] = mem
         /\ \A k \in 1 .. n : u[k] = undo_log(ring[hi + 2 - k].deltas, u[k - 1])
         /\ undo_deltas(lo, hi) = u[n]
  BY <1>1, UndoDeltasLoop DEF hi
<1>4. mem = mem_at[hi + 1]
  <2>1. hi + 1 \in 1 .. Len(ring)
    BY <1>1
  <2>2. mem_at[hi + 1] \in Memory
    BY <1>2, <2>1
  <2>3. PrefixLeadsBack(deltas, Len(deltas), mem, mem_at[hi + 1]) /\ Len(deltas) = 0
    BY <1>1, AllLeft
  <2> QED BY <1>1, <2>2, <2>3, NoneLeft
<1> DEFINE w == [k \in 0 .. n |-> mem_at[hi + 1 - k]]
<1>5. n \in Nat
  BY <1>1 DEF hi
<1>6. LockStep(u, w, n)
  <2>1. u[0] = w[0]
    BY <1>1, <1>3, <1>4, <1>5
  <2>2. ASSUME NEW k \in 1 .. n, u[k - 1] = w[k - 1] PROVE u[k] = w[k]
    <3> DEFINE i == hi + 1 - k
    <3>1. /\ i \in 1 .. Len(ring) - 1 /\ i + 1 = hi + 2 - k /\ i + 1 \in 1 .. Len(ring)
          /\ i \in 1 .. Len(ring)
      BY <1>1, <1>5 DEF hi
    <3>2. w[k - 1] = mem_at[i + 1] /\ w[k] = mem_at[i]
      BY <1>1, <1>5
    <3> HIDE DEF i, w
    <3>3. LeadsBack(ring[i + 1].deltas, mem_at[i + 1], mem_at[i])
      BY <3>1, <1>1
    <3>4. undo_log(ring[i + 1].deltas, mem_at[i + 1]) = mem_at[i]
      BY <3>1, <3>3, <1>2, LoopLeadsBack
    <3> QED BY <3>1, <3>2, <3>4, <2>2, <1>3
  <2> HIDE DEF w
  <2> QED BY <2>1, <2>2 DEF LockStep
<1>7. u[n] = w[n]
  <2> HIDE DEF w, n
  <2> QED BY <1>5, <1>6, SameLoop
<1>8. w[n] = mem_at[lo + 1]
  BY <1>1, <1>5
<1> QED
  BY <1>3, <1>7, <1>8 DEF hi

(* do_back, whether the target is in range or undefined.                   *)
LEMMA BackInv ==
    ASSUME BInv, BHBack
    PROVE  BInv' /\ BenchRewindExact'
<1>1. do_back /\ mem_at' = mem_at /\ BTypeOK /\ StageOK /\ TimerOK /\ RingOK /\ EmptyOK /\ ChainOK
  BY DEF BHBack, bghosts, BInv
<1>2. /\ ring # << >> /\ BackTarget \in Nat /\ BackTarget <= history_index
      /\ history_index \in Nat /\ history_index < Len(ring) /\ Len(ring) \in Nat
      /\ ~ running /\ stage = "rest"
  BY <1>1, BackRange
<1>3. /\ config' = config /\ rounds' = rounds /\ exit_code' = exit_code
      /\ deltas' = deltas /\ running' = running /\ ring' = ring /\ target_cycle' = target_cycle
      /\ snap_sink' = snap_sink /\ dispatch_mode' = dispatch_mode
      /\ stage' = IF InRange THEN "rewound" ELSE "undefined"
      /\ (IsBack <=> IsBack')
  BY <1>1 DEF do_back, Go, Rounds, Frame, IsBack
<1>4. CASE InRange
  <2>1. /\ mem' = undo_deltas(BackTarget, history_index)
        /\ state' = restore_state(ring[BackTarget + 1]) /\ history_index' = BackTarget
        /\ stage' = "rewound"
    BY <1>1, <1>3, <1>4 DEF do_back
  <2>2. ring[BackTarget + 1] \in Snapshot /\ state \in VMState /\ mem \in Memory
        /\ ring \in Seq(Snapshot)
    BY <1>1, <1>2 DEF BTypeOK, TypeOK
  <2>3. state' \in VMState /\ state'.snap_interval = state.snap_interval
        /\ state'.snap_timer = state.snap_timer
    BY <2>1, <2>2 DEF restore_state, Snapshot, VMState
  <2>4. mem' \in Memory
    <3>1. PICK u \in [0 .. history_index - BackTarget -> Memory] :
             undo_deltas(BackTarget, history_index) = u[history_index - BackTarget]
      BY <2>2, <1>2, UndoDeltasLoop
    <3>2. history_index - BackTarget \in 0 .. history_index - BackTarget
      BY <1>2
    <3> QED BY <3>1, <3>2, <2>1
  <2>5. BTypeOK'
    BY <2>1, <2>3, <2>4, <1>1, <1>2, <1>3 DEF BTypeOK, TypeOK, Stages
  <2>6. StageOK' /\ TimerOK' /\ RingOK' /\ EmptyOK'
    BY <2>1, <2>3, <1>1, <1>2, <1>3 DEF StageOK, TimerOK, RingOK, EmptyOK
  <2>7. config.interval = 1 => mem' = mem_at[BackTarget + 1]
    BY <2>1, <1>2, RewindExact
  <2>8. ChainOK'
    <3> SUFFICES ASSUME config.interval = 1 PROVE ChainOK'
      BY <1>3 DEF ChainOK
    <3>1. LastMemory' = mem'
      BY <2>1, <2>7, <1>1, <1>2, <1>3 DEF LastMemory
    <3>2. deltas' = << >>
      BY <1>1, <1>2, <1>3 DEF ChainOK
    <3>3. LeadsBack(deltas', mem', LastMemory')
      BY <3>1, <3>2, <2>4, EmptyLeadsBack
    <3> QED BY <3>2, <3>3, <1>1, <1>3 DEF ChainOK
  <2>9. BenchRewindExact'
    BY <2>1, <2>3, <2>7, <1>1 DEF BenchRewindExact, TimerOK
  <2> QED BY <2>5, <2>6, <2>8, <2>9 DEF BInv
<1>5. CASE ~ InRange
  <2>1. mem' = mem /\ state' = state /\ history_index' = history_index /\ stage' = "undefined"
    BY <1>1, <1>3, <1>5 DEF do_back
  <2>2. BTypeOK'
    BY <2>1, <1>1, <1>3 DEF BTypeOK, TypeOK, Stages
  <2>3. StageOK' /\ TimerOK' /\ RingOK' /\ EmptyOK'
    BY <2>1, <1>1, <1>2, <1>3 DEF StageOK, TimerOK, RingOK, EmptyOK
  <2>4. ChainOK'
    BY <2>1, <1>1, <1>2, <1>3 DEF ChainOK, LastMemory
  <2> QED BY <2>1, <2>2, <2>3, <2>4 DEF BInv, BenchRewindExact
<1> QED
  BY <1>4, <1>5

-----------------------------------------------------------------------------
(* The other steps of the commands.                                        *)

(* The initial state.                                                      *)
LEMMA InitBInv == BHInit => BInv
<1> SUFFICES ASSUME BHInit PROVE BInv
  OBVIOUS
<1>1. /\ config \in Configs /\ stage = "loaded" /\ rounds = 0 /\ exit_code = 0
      /\ state = [PowerOn EXCEPT !.snap_interval = config.interval,
                                 !.snap_timer = config.interval]
      /\ mem = Image(IF config.cmd = "demo" THEN demo ELSE workload)
      /\ deltas = << >> /\ running = FALSE /\ dispatch_mode = "ComputedGoto"
      /\ snap_sink = IsBack
      /\ ring = << >> /\ history_index = 0 /\ target_cycle = NoTarget /\ mem_at = << >>
  BY DEF BHInit, BInit
<1>2. mem \in Memory
  BY <1>1, ProgramTypes, ImageType
<1>3. config.interval \in Word /\ config.interval \in Nat /\ (config.interval > 0 <=> IsBack)
      /\ PowerOn \in VMState
  BY <1>1, ConfigFacts, PowerOnType
<1>4. state \in VMState /\ state.snap_interval = config.interval
      /\ state.snap_timer = config.interval /\ state.cycle_count = 0
  BY <1>1, <1>3 DEF VMState, PowerOn
<1>5. snap_sink \in BOOLEAN /\ deltas \in Seq(MemDelta) /\ ring \in Seq(Snapshot)
      /\ mem_at \in Seq(Memory) /\ Len(ring) = 0 /\ Len(mem_at) = 0
  BY <1>1 DEF IsBack
<1>6. BTypeOK
  <2>1. TypeOK
    BY <1>1, <1>2, <1>4, <1>5 DEF TypeOK, DispatchModes
  <2>2. Len(ring) <= kBenchRingCap
    BY <1>5, BenchmarksAssumption
  <2> QED BY <2>1, <2>2, <1>1, <1>5 DEF BTypeOK, Stages
<1>7. StageOK /\ TimerOK /\ RingOK /\ EmptyOK
  BY <1>1, <1>3, <1>4, <1>5 DEF StageOK, TimerOK, RingOK, EmptyOK
<1>8. ChainOK
  <2> SUFFICES ASSUME config.interval = 1 PROVE ChainOK
    BY DEF ChainOK
  <2>1. LastMemory = mem
    BY <1>1, <1>3 DEF LastMemory, IsBack
  <2> QED BY <2>1, <1>1, <1>2, <1>5, EmptyLeadsBack DEF ChainOK
<1> QED
  BY <1>6, <1>7, <1>8 DEF BInv

(* A step that leaves memory, log and ring alone keeps the chain, if it    *)
(* does not end a run.                                                     *)
LEMMA ChainKept ==
    ASSUME ChainOK, UNCHANGED << config, mem, deltas, ring, history_index, mem_at >>,
           running' \/ ~ running
    PROVE  ChainOK'
BY DEF ChainOK, LastMemory

(* The steps between the runs.                                             *)
LEMMA StepInv ==
    ASSUME BInv, BStep, ~ BenchPass, mem_at' = IF running /\ SnapFires
                                              THEN Pushed(mem_at, mem, Image(workload)) ELSE mem_at
    PROVE  BInv' /\ (stage' # "rewound" \/ (UNCHANGED bvars /\ mem_at' = mem_at))
<1>0. BTypeOK /\ StageOK /\ TimerOK /\ RingOK /\ EmptyOK /\ ChainOK /\ TypeOK
      /\ config \in Configs
  BY DEF BInv, BTypeOK
<1>1. CASE StartSanity
  <2>1. /\ stage = "loaded" /\ stage' = "sanity" /\ running' = TRUE /\ rounds' = 0
        /\ UNCHANGED << state, mem, deltas, config, exit_code, ringVars, snap_sink,
                        dispatch_mode >>
        /\ mem_at' = mem_at /\ ~ running /\ (IsBack <=> IsBack')
    BY <1>1 DEF StartSanity, Go, Run, Rounds, Frame, IsBack
  <2>2. BTypeOK'
    BY <2>1, <1>0 DEF BTypeOK, TypeOK, ringVars, Stages
  <2>3. StageOK' /\ TimerOK' /\ RingOK' /\ EmptyOK'
    BY <2>1, <1>0 DEF StageOK, TimerOK, RingOK, EmptyOK, ringVars
  <2>4. ChainOK'
    BY <2>1, <1>0, ChainKept DEF ringVars
  <2> QED BY <2>1, <2>2, <2>3, <2>4 DEF BInv
<1>2. CASE EndSanity
  <2>1. /\ stage = "sanity" /\ stage' \in {"done", "rest"} /\ ~ running
        /\ rounds' = IF Sane THEN 0 ELSE n_iters + 1
        /\ exit_code' = IF Sane THEN exit_code ELSE FailureCode
        /\ UNCHANGED << vmVars, config, ringVars >> /\ mem_at' = mem_at /\ (IsBack <=> IsBack')
        /\ (IsBack => stage' = "rest")
    BY <1>2 DEF EndSanity, Go, IsBack
  <2>2. BTypeOK'
    <3>1. rounds' \in Nat /\ FailureCode \in {0, 1, 2}
      BY <2>1, BenchmarksAssumption DEF FailureCode
    <3> QED BY <2>1, <3>1, <1>0 DEF BTypeOK, TypeOK, ringVars, vmVars, Stages
  <2>3. StageOK' /\ TimerOK' /\ RingOK'
    BY <2>1, <1>0 DEF StageOK, TimerOK, RingOK, ringVars, vmVars
  <2>4. EmptyOK'
    <3> SUFFICES ASSUME IsBack, ring = << >> PROVE stage' = "rest" /\ ~ More'
      BY <2>1 DEF EmptyOK, ringVars
    <3>1. state.cycle_count + state.snap_timer = config.interval
      BY <2>1, <1>0 DEF EmptyOK
    <3>2. /\ state.cycle_count \in Nat /\ state.snap_timer \in Nat /\ state.snap_timer >= 1
          /\ kBenchmarkLoopCount \in Nat /\ config.interval \in Nat
          /\ config.interval <= 9 * kBenchmarkLoopCount
      BY <1>0, ConfigFacts, BenchmarksAssumption, MachineAssumption, Sizes
         DEF TimerOK, TypeOK, VMState, Word
    <3>3. state.cycle_count # expected
      BY <3>1, <3>2 DEF expected
    <3>4. ~ Sane
      BY <3>3 DEF Sane, IsBack
    <3> QED BY <2>1, <3>4, BenchmarksAssumption DEF More
  <2>5. ChainOK'
    BY <2>1, <1>0, ChainKept DEF ringVars, vmVars
  <2> QED BY <2>1, <2>2, <2>3, <2>4, <2>5 DEF BInv
<1>3. CASE ResetCpu
  <2>1. /\ stage = "rest" /\ stage' = "reset" /\ ~ running /\ running' = running /\ ~ IsBack
        /\ state' = PowerOn /\ deltas' = << >>
        /\ UNCHANGED << mem, config, rounds, exit_code, ringVars, snap_sink, dispatch_mode >>
        /\ mem_at' = mem_at /\ (IsBack <=> IsBack')
    BY <1>3 DEF ResetCpu, Go, reset_cpu_for_reuse, Rounds, Frame, IsBack
  <2>2. BTypeOK'
    BY <2>1, <1>0, PowerOnType DEF BTypeOK, TypeOK, ringVars, Stages
  <2>3. config.interval = 0
    BY <2>1, <1>0, ConfigFacts
  <2>4. StageOK' /\ TimerOK' /\ RingOK' /\ EmptyOK' /\ ChainOK'
    BY <2>1, <2>3, <1>0 DEF StageOK, TimerOK, RingOK, EmptyOK, ChainOK, ringVars, PowerOn
  <2> QED BY <2>1, <2>2, <2>4 DEF BInv
<1>4. CASE RunAgain
  <2>1. /\ stage = "reset" /\ stage' = "round" /\ running' = TRUE /\ ~ running
        /\ UNCHANGED << state, mem, deltas, config, rounds, exit_code, ringVars, snap_sink,
                        dispatch_mode >>
        /\ mem_at' = mem_at /\ (IsBack <=> IsBack')
    BY <1>4 DEF RunAgain, Go, Run, Rounds, Frame, IsBack
  <2>2. BTypeOK'
    BY <2>1, <1>0 DEF BTypeOK, TypeOK, ringVars, Stages
  <2>3. StageOK' /\ TimerOK' /\ RingOK' /\ EmptyOK'
    BY <2>1, <1>0 DEF StageOK, TimerOK, RingOK, EmptyOK, ringVars
  <2>4. ChainOK'
    BY <2>1, <1>0, ChainKept DEF ringVars
  <2> QED BY <2>1, <2>2, <2>3, <2>4 DEF BInv
<1>5. CASE do_step
  <2>1. /\ stage = "rewound" /\ stage' = "round" /\ running' = TRUE
        /\ state' = [state EXCEPT !.halted = HALT_RUNNING]
        /\ target_cycle' = state.cycle_count + config.depth
        /\ UNCHANGED << mem, deltas, config, rounds, exit_code, ring, history_index, snap_sink,
                        dispatch_mode >>
        /\ (IsBack <=> IsBack')
    BY <1>5 DEF do_step, Go, Rounds, Frame, IsBack
  <2>2. ~ running /\ mem_at' = mem_at
    BY <2>1, <1>0 DEF StageOK
  <2>3. state' \in VMState /\ state'.snap_interval = state.snap_interval
        /\ state'.snap_timer = state.snap_timer /\ target_cycle' \in Nat
    <3>1. state \in VMState /\ HALT_RUNNING \in HaltReason
      BY <1>0 DEF TypeOK, HALT_RUNNING, HaltReason
    <3>2. state.cycle_count \in Nat /\ config.depth \in Nat
      BY <3>1, <1>0, ConfigFacts DEF VMState
    <3>3. target_cycle' \in Nat
      BY <2>1, <3>2
    <3> QED BY <2>1, <3>1, <3>3 DEF VMState
  <2>4. BTypeOK'
    BY <2>1, <2>3, <1>0 DEF BTypeOK, TypeOK, Stages
  <2>5. StageOK' /\ TimerOK' /\ RingOK' /\ EmptyOK'
    BY <2>1, <2>2, <2>3, <1>0 DEF StageOK, TimerOK, RingOK, EmptyOK
  <2>6. ChainOK'
    BY <2>1, <2>2, <1>0, ChainKept
  <2> QED BY <2>1, <2>4, <2>5, <2>6 DEF BInv
<1>6. CASE EndRound
  <2>1. /\ stage = "round" /\ stage' = "rest" /\ ~ running /\ rounds' = rounds + 1
        /\ UNCHANGED << vmVars, config, exit_code, ringVars >>
        /\ mem_at' = mem_at /\ (IsBack <=> IsBack')
    BY <1>6 DEF EndRound, Go, Rounds, IsBack
  <2>2. BTypeOK'
    BY <2>1, <1>0 DEF BTypeOK, TypeOK, ringVars, vmVars, Stages
  <2>3. StageOK' /\ TimerOK' /\ RingOK' /\ EmptyOK'
    BY <2>1, <1>0 DEF StageOK, TimerOK, RingOK, EmptyOK, ringVars, vmVars
  <2>4. ChainOK'
    BY <2>1, <1>0, ChainKept DEF ringVars, vmVars
  <2> QED BY <2>1, <2>2, <2>3, <2>4 DEF BInv
<1>7. CASE NextMode
  <2>1. /\ stage = "rest" /\ stage' = "loaded" /\ rounds' = 0 /\ running' = running
        /\ state' = PowerOn /\ mem' = Image(workload) /\ deltas' = << >>
        /\ dispatch_mode' = "NaiveSwitch"
        /\ UNCHANGED << config, exit_code, ringVars, snap_sink >>
        /\ (IsBack <=> IsBack') /\ ~ IsBack
    BY <1>7 DEF NextMode, Go, Rounds, IsBack
  <2>2. ~ running /\ mem_at' = mem_at
    BY <2>1, <1>0 DEF StageOK
  <2>3. mem' \in Memory
    BY <2>1, ProgramTypes, ImageType
  <2>4. BTypeOK'
    BY <2>1, <2>3, <1>0, PowerOnType DEF BTypeOK, TypeOK, ringVars, Stages, DispatchModes
  <2>5. config.interval = 0
    BY <2>1, <1>0, ConfigFacts
  <2>6. StageOK' /\ TimerOK' /\ RingOK' /\ EmptyOK' /\ ChainOK'
    BY <2>1, <2>2, <2>5, <1>0 DEF StageOK, TimerOK, RingOK, EmptyOK, ChainOK, ringVars, PowerOn
  <2> QED BY <2>1, <2>4, <2>6 DEF BInv
<1>8. CASE Finish
  <2>1. /\ stage = "rest" /\ stage' = "done" /\ rounds' = rounds /\ ~ More
        /\ UNCHANGED << vmVars, config, exit_code, ringVars >> /\ (IsBack <=> IsBack')
    BY <1>8 DEF Finish, Go, Rounds, IsBack
  <2>2. ~ running /\ mem_at' = mem_at
    BY <2>1, <1>0 DEF StageOK
  <2>3. BTypeOK'
    BY <2>1, <1>0 DEF BTypeOK, TypeOK, ringVars, vmVars, Stages
  <2>4. StageOK' /\ TimerOK' /\ RingOK' /\ EmptyOK'
    BY <2>1, <2>2, <1>0 DEF StageOK, TimerOK, RingOK, EmptyOK, ringVars, vmVars, More
  <2>5. ChainOK'
    BY <2>1, <2>2, <1>0, ChainKept DEF ringVars, vmVars
  <2> QED BY <2>1, <2>3, <2>4, <2>5 DEF BInv
<1>9. CASE Ended
  <2>1. UNCHANGED bvars /\ ~ running
    BY <1>9, <1>0 DEF Ended, StageOK
  <2> QED BY <2>1 DEF bvars, benchVars, ringVars, vmVars, BInv, BTypeOK, TypeOK, StageOK,
         TimerOK, RingOK, EmptyOK, ChainOK, LastMemory, IsBack, More
<1> QED
  BY <1>1, <1>2, <1>3, <1>4, <1>5, <1>6, <1>7, <1>8, <1>9 DEF BStep

-----------------------------------------------------------------------------
(* The theorems.                                                           *)

(* BInv is inductive, and BenchRewindExact comes with it.                  *)
LEMMA BenchInvariant == BHSpec => [](BInv /\ BenchRewindExact)
<1>1. BHInit => BInv /\ BenchRewindExact
  BY InitBInv DEF BHInit, BInit, BenchRewindExact
<1>2. BInv /\ BenchRewindExact /\ [BHNext]_bhvars => BInv' /\ BenchRewindExact'
  <2> SUFFICES ASSUME BInv, BenchRewindExact, [BHNext]_bhvars
               PROVE  BInv' /\ BenchRewindExact'
    OBVIOUS
  <2>1. CASE BHBack
    BY <2>1, BackInv
  <2>2. CASE BHStep /\ BenchPass
    <3>1. running /\ stage' = stage
      BY <2>2, BenchPassFacts, PassConfig DEF BInv, BTypeOK
    <3>2. PushesMemory
      BY <2>2, <3>1 DEF BHStep, PushesMemory
    <3>3. BInv'
      BY <2>2, <3>2, PassRingOK, PassChainOK, PassTimerOK DEF BInv
    <3>4. stage' # "rewound"
      BY <3>1 DEF BInv, StageOK
    <3> QED BY <3>3, <3>4 DEF BenchRewindExact
  <2>3. CASE BHStep /\ ~ BenchPass
    <3>1. BInv' /\ (stage' # "rewound" \/ (UNCHANGED bvars /\ mem_at' = mem_at))
      BY <2>3, StepInv DEF BHStep
    <3> QED BY <3>1 DEF BenchRewindExact, bvars, benchVars, ringVars, vmVars
  <2>4. CASE UNCHANGED bhvars
    BY <2>4 DEF bhvars, bghosts, bvars, benchVars, ringVars, vmVars, BInv, BTypeOK, TypeOK,
       StageOK, TimerOK, RingOK, EmptyOK, ChainOK, LastMemory, IsBack, More, BenchRewindExact
  <2> QED BY <2>1, <2>2, <2>3, <2>4 DEF BHNext
<1> QED
  BY <1>1, <1>2, PTL DEF BHSpec

(* The benchmarks' ring, index and target keep their types: the ring never *)
(* outgrows its capacity, no rewind reads outside it or from an empty one, *)
(* and no step takes the CPU state or the memory out of range (main.cpp,   *)
(* the sink and do_back of cmd_benchmark_backn and of the sweep).          *)
THEOREM BenchTypes == BHSpec => []BTypeOK
<1>1. BInv /\ BenchRewindExact => BTypeOK
  BY DEF BInv
<1> QED
  BY <1>1, BenchInvariant, PTL

(* With a snapshot every cycle, do_back restores the memory of its target  *)
(* byte for byte, for every ring capacity and depth, across evictions, cut *)
(* off futures and the default-constructed snapshot of the first resize(). *)
THEOREM BenchRewindCorrect == BHSpec => []BenchRewindExact
<1>1. BInv /\ BenchRewindExact => BenchRewindExact
  OBVIOUS
<1> QED
  BY <1>1, BenchInvariant, PTL

=============================================================================
