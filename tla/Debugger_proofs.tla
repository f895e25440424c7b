--------------------------- MODULE Debugger_proofs ---------------------------
(***************************************************************************)
(* Proofs about the debugger, for every session, ring capacity, machine    *)
(* and sequence of commands: the ring is a contiguous history whose logs   *)
(* lead back, `back` restores memory, registers and cursor exactly, the    *)
(* cursor never runs ahead of the machine and `step` stops where it should.*)
(***************************************************************************)
EXTENDS DebugHistory, EngineLemmas

-----------------------------------------------------------------------------
(* The inductive invariant, by the part of the debugger it is about.       *)

(* The history of memories is as long as the ring.                         *)
HistoryOK ==
    /\ mem_at \in Seq(Memory)
    /\ Len(mem_at) = Len(ring)

(* A snapshot is due in every pass.                                        *)
EveryCycle == state.snap_interval = 1 /\ state.snap_timer = 1

(* The engine runs only from a cleared halt, and only inside a command, so *)
(* a snapshot is always of a running machine.                              *)
RunsFromPrompt ==
    /\ running => state.halted = HALT_RUNNING /\ ~ exited /\ ~ InBack
    /\ InBack => ~ exited
    /\ \A i \in 1 .. Len(ring) : ring[i].core.halted = HALT_RUNNING

(* Outside `back` the current snapshot is the machine's last one: its      *)
(* cycle is the machine's, and the engine's log leads back to its memory.  *)
CurrentSnapshot ==
    ~ InBack => /\ state.cycle_count = At(history_index).core.cycle_count
                /\ LeadsBack(deltas, mem, mem_at[history_index + 1])

(* While no command executes, nothing has happened since that snapshot.    *)
AtSnapshot ==
    ~ running /\ ~ InBack =>
        /\ mem = mem_at[history_index + 1]
        /\ state.regs = At(history_index).core.regs
        /\ state.sp = At(history_index).core.sp
        /\ state.flags = At(history_index).core.flags
        /\ cursor = At(history_index).cursor
        /\ state.pc = IF state.halted = HALT_DIV_ZERO
                      THEN (At(history_index).core.pc - 4) % WORD_MOD
                      ELSE At(history_index).core.pc

(* Cursors stay inside the trace and behind the machine, the current one   *)
(* and those a `back` may restore.                                         *)
PastFrames(frames, cycle) ==
    /\ frames <= Len(session.trace)
    /\ \A i \in 1 .. frames : session.trace[i].cycle <= cycle
    /\ ~ replay_mode => frames = 0

CursorsInPast ==
    /\ ~ InBack => PastFrames(cursor, state.cycle_count)
    /\ ~ replay_mode => cursor = 0
    /\ \A i \in 1 .. Len(ring) : PastFrames(ring[i].cursor, ring[i].core.cycle_count)

(* Where the loop of `back` is: the entries it has not yet undone lead     *)
(* from the memory to the one of the next older snapshot.                  *)
RewindProgress ==
    InBack =>
        /\ rewind.to < history_index
        /\ rewind.idx \in rewind.to .. history_index
        /\ rewind.left <= Len(At(rewind.idx).core.deltas)
        /\ rewind.idx > rewind.to =>
              PrefixLeadsBack(At(rewind.idx).core.deltas, rewind.left, mem, mem_at[rewind.idx])
        /\ rewind.idx = rewind.to => mem = mem_at[rewind.to + 1]

(* The target of a `step` is its goal, or lies in the past because the sum *)
(* wrapped and the goal is the next cycle.                                 *)
StepTarget ==
    running /\ target_cycle # UINT64_MAX =>
        /\ state.cycle_count < goal
        /\ \/ target_cycle = goal
           \/ goal = state.cycle_count + 1 /\ target_cycle <= state.cycle_count

DInv ==
    /\ DTypeOK /\ HistoryOK /\ EveryCycle /\ RunsFromPrompt
    /\ RingContiguous /\ RingLeadsBack
    /\ CurrentSnapshot /\ AtSnapshot /\ CursorsInPast /\ RewindProgress
    /\ goal \in Nat /\ StepTarget /\ StepExact

-----------------------------------------------------------------------------
(* The ring.                                                               *)

(* Pushed, as a function of the position as well.                          *)
PushedAt(h, seq, x) ==
    LET longer == Append(SubSeq(seq, 1, h + 1), x)
    IN  IF Len(longer) > kRingCap THEN Tail(longer) ELSE longer

(* Pushing behind position h: what is newer is dropped, the new element is *)
(* last, and beyond the capacity the oldest one is dropped.                *)
LEMMA PushedShape ==
    ASSUME NEW S, NEW seq \in Seq(S), NEW x \in S, NEW h \in Nat, h + 1 <= Len(seq)
    PROVE  /\ PushedAt(h, seq, x) \in Seq(S)
           /\ h + 2 > kRingCap =>
                 /\ Len(PushedAt(h, seq, x)) = h + 1 /\ PushedAt(h, seq, x)[h + 1] = x
                 /\ \A i \in 1 .. h : PushedAt(h, seq, x)[i] = seq[i + 1]
           /\ ~ (h + 2 > kRingCap) =>
                 /\ Len(PushedAt(h, seq, x)) = h + 2 /\ PushedAt(h, seq, x)[h + 2] = x
                 /\ \A i \in 1 .. h + 1 : PushedAt(h, seq, x)[i] = seq[i]
<1> DEFINE kept == SubSeq(seq, 1, h + 1)
           longer == Append(kept, x)
<1>0. h \in Nat /\ Len(seq) \in Nat /\ kRingCap \in Nat /\ kRingCap >= 2
  BY DebuggerAssumption
<1>1. kept \in Seq(S) /\ Len(kept) = h + 1 /\ \A i \in 1 .. h + 1 : kept[i] = seq[i]
  BY <1>0
<1> HIDE DEF kept
<1>2. /\ longer \in Seq(S) /\ Len(longer) = h + 2 /\ longer[h + 2] = x
      /\ \A i \in 1 .. h + 1 : longer[i] = seq[i]
  BY <1>0, <1>1
<1>3. PushedAt(h, seq, x) = IF h + 2 > kRingCap THEN Tail(longer) ELSE longer
  BY <1>2 DEF PushedAt, kept
<1> HIDE DEF longer
<1>4. CASE h + 2 > kRingCap
  <2>1. Tail(longer) \in Seq(S) /\ Len(Tail(longer)) = h + 1
    BY <1>0, <1>2
  <2>2. \A i \in 1 .. h + 1 : Tail(longer)[i] = longer[i + 1]
    BY <1>0, <1>2, <2>1
  <2>3. \A i \in 1 .. h : Tail(longer)[i] = seq[i + 1]
    BY <1>0, <1>2, <2>2
  <2>4. Tail(longer)[h + 1] = x
    BY <1>0, <1>2, <2>2
  <2> QED BY <1>3, <1>4, <2>1, <2>3, <2>4
<1>5. CASE ~ (h + 2 > kRingCap)
  BY <1>2, <1>3, <1>5
<1> QED
  BY <1>4, <1>5

-----------------------------------------------------------------------------
(* A pass under the debugger.                                              *)

(* The interval is one cycle, so every pass hands over a snapshot of the   *)
(* machine after the fetch, with the whole log.                            *)
LEMMA EveryPassSnaps ==
    ASSUME TypeOK, EveryCycle
    PROVE  /\ SnapFires /\ Log = << >> /\ Ticked.snap_timer = 1
           /\ Fired \in Snapshot
           /\ Fired.cycle_count = state.cycle_count + 1 /\ Fired.regs = state.regs
           /\ Fired.pc = Fetched.pc /\ Fired.sp = state.sp /\ Fired.flags = state.flags
           /\ Fired.halted = state.halted /\ Fired.deltas = deltas
<1>1. state \in VMState /\ deltas \in Seq(MemDelta)
  BY DEF TypeOK
<1>2. Fetched.snap_timer = 0
  <2>1. WORD_MOD \in Nat /\ WORD_MOD >= 4
    BY Sizes
  <2>2. 0 % WORD_MOD = 0
    BY <2>1
  <2>3. Fetched.snap_timer = (1 - 1) % WORD_MOD
    BY <1>1 DEF Fetched, EveryCycle, VMState
  <2> QED BY <2>2, <2>3
<1>3. SnapFires
  BY <1>2 DEF SnapFires, EveryCycle
<1>4. Ticked.snap_timer = 1
  BY <1>3, TickedFields DEF Ticked, EveryCycle, VMState
<1>5. /\ Fired.cycle_count = Fetched.cycle_count /\ Fired.regs = Fetched.regs
      /\ Fired.pc = Fetched.pc /\ Fired.sp = Fetched.sp /\ Fired.flags = Fetched.flags
      /\ Fired.halted = Fetched.halted /\ Fired.deltas = deltas
  BY DEF Fired, SnapshotOf
<1>6. Fired \in Snapshot
  <2>1. Fetched \in VMState
    BY TickedFields
  <2> QED BY <1>1, <2>1 DEF Fired, SnapshotOf, Snapshot, VMState
<1> QED
  BY <1>3, <1>4, <1>5, <1>6, TickedFields DEF Log

(* What any pass of the debugger does to the cursor, the halt reason and   *)
(* the session.                                                            *)
LEMMA DebugPassCases ==
    ASSUME DInv, DebugPass
    PROVE  /\ AnyPass /\ StaysOrReturns /\ Sink /\ PassFrame
           /\ \/ cursor' = cursor
              \/ /\ replay_mode /\ running' /\ cursor < Len(session.trace)
                 /\ cursor' = cursor + 1
                 /\ session.trace[cursor + 1].cycle = state.cycle_count + 1
           /\ exited' \in BOOLEAN /\ (running' => exited' = exited)
           /\ Stops => /\ ~ running' /\ state'.pc = Fetched.pc
                       /\ state'.halted = IF StepHit THEN HALT_STEP ELSE HALT_BREAKPOINT
           /\ ~ Stops /\ ~ running' =>
                 \/ /\ state'.pc = Fetched.pc
                    /\ state'.halted \in {HALT_NORMAL, HALT_UNKNOWN_OP, HALT_RUNNING}
                 \/ /\ state'.pc = (Fetched.pc - 4) % WORD_MOD
                    /\ state'.halted = HALT_DIV_ZERO
<1>0. TypeOK /\ exited \in BOOLEAN /\ (running => state.halted = HALT_RUNNING)
      /\ session \in Sessions
  BY DEF DInv, DTypeOK, RunsFromPrompt
<1>1. CASE StopPass
  <2>1. (IF StepHit THEN HALT_STEP ELSE HALT_BREAKPOINT) \in HaltReason
    BY DEF HALT_STEP, HALT_BREAKPOINT, HaltReason
  <2>2. AnyPass
    BY <1>1, <2>1, Zenon DEF StopPass, AnyPass
  <2> QED BY <1>0, <1>1, <2>2, SnapReturns DEF StopPass
<1>2. CASE PlainPass
  <2>1. Deterministic /\ ~ Stops /\ Sink /\ PassFrame /\ cursor' = cursor /\ exited' = exited
    BY <1>2 DEF PlainPass
  <2>2. AnyPass
    BY <2>1, Zenon DEF AnyPass
  <2> QED BY <1>0, <2>1, <2>2, DeterministicReturns
<1>3. ASSUME NEW op \in {OP_IN, OP_RAND}, FreshInput(op)
      PROVE  /\ AnyPass /\ StaysOrReturns /\ Sink /\ PassFrame
             /\ cursor' = cursor /\ exited' = exited /\ running' /\ ~ Stops
  <2> PICK v \in Inputs : DoNondet(op, v)
    BY <1>3 DEF FreshInput
  <2>1. AnyPass
    <3>1. v \in Word \cup {NoHook}
      BY VMAssumption
    <3> QED BY <3>1, Zenon DEF AnyPass
  <2> QED BY <1>0, <1>3, <2>1, HookReturns DEF FreshInput
<1>4. ASSUME NEW op \in {OP_IN, OP_RAND}, ReplayInput(op)
      PROVE  /\ AnyPass /\ StaysOrReturns /\ Sink /\ PassFrame
             /\ replay_mode /\ cursor < Len(session.trace) /\ cursor' = cursor + 1
             /\ session.trace[cursor + 1].cycle = state.cycle_count + 1
             /\ exited' = exited /\ running' /\ ~ Stops
  <2> DEFINE v == session.trace[cursor + 1].value
  <2>1. DoNondet(op, v)
    BY <1>4 DEF ReplayInput
  <2>2. v \in Word
    <3>1. session.trace \in Seq(TraceFrame) /\ cursor \in Nat /\ cursor < Len(session.trace)
      BY <1>0, <1>4, DebuggerAssumption DEF ReplayInput, FrameMatches, DInv, DTypeOK
    <3>2. session.trace[cursor + 1] \in TraceFrame
      BY <3>1
    <3> QED BY <3>2 DEF TraceFrame
  <2> HIDE DEF v
  <2>3. AnyPass
    BY <2>1, <2>2, Zenon DEF AnyPass
  <2> QED BY <1>0, <1>4, <2>1, <2>3, HookReturns, TickedFields DEF ReplayInput, FrameMatches
<1>5. ASSUME NEW op \in {OP_IN, OP_RAND}, Diverge(op)
      PROVE  /\ AnyPass /\ StaysOrReturns /\ Sink /\ PassFrame
             /\ cursor' = cursor /\ exited' \in BOOLEAN /\ ~ running' /\ ~ Stops
             /\ state'.pc = Fetched.pc /\ state'.halted = HALT_RUNNING
  <2>1. AnyPass
    BY <1>5, Zenon DEF Diverge, AnyPass
  <2> QED BY <1>0, <1>5, <2>1, HookReturns DEF Diverge, StaysOrReturns
<1> QED
  BY <1>0, <1>1, <1>2, <1>3, <1>4, <1>5 DEF DebugPass

(* The ring and the memories after a pass: the snapshots up to the current *)
(* one, without the oldest if e is 1, and the new one behind them.         *)
LEMMA PassRing ==
    ASSUME DInv, DHPass
    PROVE  \E e \in {0, 1} :
             /\ history_index' \in Nat /\ history_index' = history_index + 1 - e
             /\ e = 1 => history_index + 2 > kRingCap
             /\ ring' \in Seq(ReplSnapshot) /\ Len(ring') = history_index' + 1
             /\ mem_at' \in Seq(Memory) /\ Len(mem_at') = history_index' + 1
             /\ history_index' + 1 <= kRingCap
             /\ ring'[history_index' + 1] = [core |-> Fired, cursor |-> cursor]
             /\ mem_at'[history_index' + 1] = mem
             /\ \A i \in 1 .. history_index' :
                   /\ i + e \in 1 .. history_index + 1
                   /\ ring'[i] = ring[i + e] /\ mem_at'[i] = mem_at[i + e]
<1> DEFINE x == [core |-> Fired, cursor |-> cursor]
<1>1. /\ history_index \in Nat /\ history_index + 1 <= Len(ring) /\ Len(ring) <= kRingCap
      /\ ring \in Seq(ReplSnapshot) /\ mem_at \in Seq(Memory) /\ Len(mem_at) = Len(ring)
      /\ history_index + 1 <= Len(mem_at) /\ kRingCap \in Nat /\ kRingCap >= 2
  BY DebuggerAssumption DEF DInv, DTypeOK, HistoryOK, RingContiguous
<1>2. SnapFires /\ x \in ReplSnapshot /\ mem \in Memory
  BY EveryPassSnaps DEF DInv, DTypeOK, TypeOK, ReplSnapshot
<1>3. /\ ring' = Pushed(ring, x) /\ mem_at' = Pushed(mem_at, mem)
      /\ history_index' = IF Evicts THEN history_index ELSE history_index + 1
  BY <1>2, DebugPassCases DEF DHPass, Sink
<1> HIDE DEF x
<1>4. /\ ring' \in Seq(ReplSnapshot)
      /\ Evicts => /\ Len(ring') = history_index + 1 /\ ring'[history_index + 1] = x
                   /\ \A i \in 1 .. history_index : ring'[i] = ring[i + 1]
      /\ ~ Evicts => /\ Len(ring') = history_index + 2 /\ ring'[history_index + 2] = x
                     /\ \A i \in 1 .. history_index + 1 : ring'[i] = ring[i]
  <2>1. ring' = PushedAt(history_index, ring, x)
    BY <1>3 DEF Pushed, PushedAt
  <2> DEFINE p == PushedAt(history_index, ring, x)
             h == history_index
  <2>2. /\ p \in Seq(ReplSnapshot)
        /\ h + 2 > kRingCap => /\ Len(p) = h + 1 /\ p[h + 1] = x
                               /\ \A i \in 1 .. h : p[i] = ring[i + 1]
        /\ ~ (h + 2 > kRingCap) => /\ Len(p) = h + 2 /\ p[h + 2] = x
                                   /\ \A i \in 1 .. h + 1 : p[i] = ring[i]
    <3>1. /\ ring \in Seq(ReplSnapshot) /\ x \in ReplSnapshot
          /\ history_index \in Nat /\ history_index + 1 <= Len(ring)
      BY <1>1, <1>2
    <3>2. p \in Seq(ReplSnapshot)
      BY ONLY <3>1, PushedShape
    <3>3. h + 2 > kRingCap => /\ Len(p) = h + 1 /\ p[h + 1] = x
                              /\ \A i \in 1 .. h : p[i] = ring[i + 1]
      BY ONLY <3>1, PushedShape, SMTT(30)
    <3>4. ~ (h + 2 > kRingCap) => /\ Len(p) = h + 2 /\ p[h + 2] = x
                                  /\ \A i \in 1 .. h + 1 : p[i] = ring[i]
      BY ONLY <3>1, PushedShape, SMTT(30)
    <3> QED BY <3>2, <3>3, <3>4
  <2> HIDE DEF p
  <2> QED BY <2>1, <2>2 DEF Evicts, p
<1>5. /\ mem_at' \in Seq(Memory)
      /\ Evicts => /\ Len(mem_at') = history_index + 1 /\ mem_at'[history_index + 1] = mem
                   /\ \A i \in 1 .. history_index : mem_at'[i] = mem_at[i + 1]
      /\ ~ Evicts => /\ Len(mem_at') = history_index + 2 /\ mem_at'[history_index + 2] = mem
                     /\ \A i \in 1 .. history_index + 1 : mem_at'[i] = mem_at[i]
  <2>1. mem_at' = PushedAt(history_index, mem_at, mem)
    BY <1>3 DEF Pushed, PushedAt
  <2> DEFINE p == PushedAt(history_index, mem_at, mem)
             h == history_index
  <2>2. /\ p \in Seq(Memory)
        /\ h + 2 > kRingCap => /\ Len(p) = h + 1 /\ p[h + 1] = mem
                               /\ \A i \in 1 .. h : p[i] = mem_at[i + 1]
        /\ ~ (h + 2 > kRingCap) => /\ Len(p) = h + 2 /\ p[h + 2] = mem
                                   /\ \A i \in 1 .. h + 1 : p[i] = mem_at[i]
    BY ONLY <1>1, <1>2, PushedShape
  <2> HIDE DEF p
  <2> QED BY <2>1, <2>2 DEF Evicts, p
<1>6. CASE Evicts
  <2>1. history_index + 2 > kRingCap
    BY <1>6 DEF Evicts
  <2> WITNESS 1 \in {0, 1}
  <2> QED BY <1>1, <1>3, <1>4, <1>5, <1>6, <2>1 DEF x
<1>7. CASE ~ Evicts
  <2>1. history_index + 2 <= kRingCap
    BY <1>1, <1>7 DEF Evicts
  <2> WITNESS 0 \in {0, 1}
  <2> QED BY <1>1, <1>3, <1>4, <1>5, <1>7, <2>1 DEF x
<1> QED
  BY <1>6, <1>7

(* A pass keeps the types.                                                 *)
LEMMA PassDType ==
    ASSUME DInv, DHPass
    PROVE  DTypeOK' /\ HistoryOK' /\ EveryCycle'
<1>0. DTypeOK /\ TypeOK /\ EveryCycle /\ DebugPass
  BY DEF DInv, DTypeOK, DHPass
<1>1. AnyPass /\ Sink /\ PassFrame /\ exited' \in BOOLEAN /\ cursor' \in Nat
  BY <1>0, DebugPassCases DEF DTypeOK
<1>2. TypeOK'
  BY <1>0, <1>1, PassType
<1>3. ring' \in Seq(ReplSnapshot) /\ history_index' \in Nat /\ HistoryOK'
  BY PassRing DEF HistoryOK
<1>4. target_cycle' \in 0 .. UINT64_MAX
  <2>1. UINT64_MAX \in 0 .. UINT64_MAX
    BY DebuggerAssumption, VMAssumption DEF UINT64_MAX
  <2> QED BY <1>0, <1>1, <2>1 DEF Sink, DTypeOK
<1>5. DTypeOK'
  BY <1>0, <1>1, <1>2, <1>3, <1>4 DEF DTypeOK, PassFrame
<1>6. EveryCycle'
  BY <1>0, <1>1, PassCounters, EveryPassSnaps DEF EveryCycle
<1> QED
  BY <1>3, <1>5, <1>6

(* A pass extends the history: contiguous cycles, each log leading back to *)
(* the memory before, and the new snapshot is the current one.             *)
LEMMA PassHistory ==
    ASSUME DInv, DHPass
    PROVE  RingContiguous' /\ RingLeadsBack' /\ CurrentSnapshot' /\ AtSnapshot'
<1>0. DTypeOK /\ TypeOK /\ EveryCycle /\ DebugPass /\ AnyPass /\ StaysOrReturns
  BY DebugPassCases DEF DInv, DTypeOK, DHPass
<1>1. /\ RingContiguous /\ RingLeadsBack /\ ~ InBack /\ running
      /\ state.cycle_count = ring[history_index + 1].core.cycle_count
      /\ LeadsBack(deltas, mem, mem_at[history_index + 1])
  BY <1>0 DEF DInv, StaysOrReturns, RunsFromPrompt, CurrentSnapshot, At
<1> DEFINE h == history_index
           k == history_index'
           x == [core |-> Fired, cursor |-> cursor]
<1>2. PICK e \in {0, 1} :
        /\ k \in Nat /\ k = h + 1 - e
        /\ Len(ring') = k + 1 /\ k + 1 <= kRingCap
        /\ ring'[k + 1] = x /\ mem_at'[k + 1] = mem
        /\ \A i \in 1 .. k : /\ i + e \in 1 .. h + 1
                            /\ ring'[i] = ring[i + e] /\ mem_at'[i] = mem_at[i + e]
  BY PassRing
<1>3. /\ h \in Nat /\ h + 1 <= Len(ring) /\ Len(ring) \in Nat /\ kRingCap \in Nat
      /\ \A i \in 1 .. h + 1 : ring[i] \in ReplSnapshot
      /\ \A i \in 1 .. h : ring[i + 1].core.cycle_count = ring[i].core.cycle_count + 1
      /\ \A i \in 1 .. h : LeadsBack(ring[i + 1].core.deltas, mem_at[i + 1], mem_at[i])
  BY <1>0, <1>1, DebuggerAssumption DEF DTypeOK, RingContiguous, RingLeadsBack
<1>4. /\ SnapFires /\ Log = << >>
      /\ Fired.cycle_count = state.cycle_count + 1 /\ Fired.regs = state.regs
      /\ Fired.pc = Fetched.pc /\ Fired.sp = state.sp /\ Fired.flags = state.flags
      /\ Fired.deltas = deltas
  BY <1>0, EveryPassSnaps
<1>5. x.core = Fired /\ x.cursor = cursor
  OBVIOUS
<1> HIDE DEF x, k
<1>6. ASSUME NEW i \in 1 .. k
      PROVE  /\ ring'[i + 1].core.cycle_count = ring'[i].core.cycle_count + 1
             /\ LeadsBack(ring'[i + 1].core.deltas, mem_at'[i + 1], mem_at'[i])
  <2>1. CASE i = k
    <3>1. i + e = h + 1 /\ ring'[i] = ring[h + 1] /\ mem_at'[i] = mem_at[h + 1]
      BY <2>1, <1>2, <1>3
    <3> QED BY <2>1, <3>1, <1>1, <1>2, <1>4, <1>5
  <2>2. CASE i # k
    <3>1. i + 1 \in 1 .. k /\ i + e \in 1 .. h /\ (i + 1) + e = (i + e) + 1
      BY <2>2, <1>2, <1>3
    <3>2. /\ ring'[i + 1] = ring[(i + 1) + e] /\ mem_at'[i + 1] = mem_at[(i + 1) + e]
          /\ ring'[i] = ring[i + e] /\ mem_at'[i] = mem_at[i + e]
      BY <3>1, <1>2
    <3>3. /\ ring'[i + 1] = ring[(i + e) + 1] /\ mem_at'[i + 1] = mem_at[(i + e) + 1]
      BY <3>1, <3>2
    <3>4. /\ ring[(i + e) + 1].core.cycle_count = ring[i + e].core.cycle_count + 1
          /\ LeadsBack(ring[(i + e) + 1].core.deltas, mem_at[(i + e) + 1], mem_at[i + e])
      BY <3>1, <1>3
    <3> QED BY <3>2, <3>3, <3>4
  <2> QED BY <2>1, <2>2
<1>7. state'.cycle_count = ring'[k + 1].core.cycle_count
  BY <1>0, <1>2, <1>4, <1>5, PassCounters
<1>8. LeadsBack(deltas', mem', mem)
  <2>1. mem \in Memory /\ LeadsBack(<< >>, mem, mem) /\ << >> \in Seq(MemDelta)
    BY <1>0, EmptyLeadsBack DEF TypeOK
  <2>2. imm \in Addr /\ state.regs[dst] \in Word
    BY <1>0, PassTypes DEF TypeOK, VMState
  <2> QED BY <2>1, <2>2, <1>0, <1>4, PassMemory, StoreLeadsBack
<1>9. RingContiguous' /\ CurrentSnapshot'
  BY <1>2, <1>3, <1>6, <1>7, <1>8 DEF RingContiguous, CurrentSnapshot, At, k
<1>10. RingLeadsBack'
  BY <1>0, <1>2, <1>3, <1>4, <1>6 DEF RingLeadsBack, StaysOrReturns
<1>11. AtSnapshot'
  <2> SUFFICES ASSUME ~ running'
               PROVE  /\ mem' = mem_at'[k + 1]
                      /\ state'.regs = ring'[k + 1].core.regs
                      /\ state'.sp = ring'[k + 1].core.sp
                      /\ state'.flags = ring'[k + 1].core.flags
                      /\ cursor' = ring'[k + 1].cursor
                      /\ state'.pc = IF state'.halted = HALT_DIV_ZERO
                                     THEN (ring'[k + 1].core.pc - 4) % WORD_MOD
                                     ELSE ring'[k + 1].core.pc
    BY DEF AtSnapshot, At, k
  <2>1. cursor' = cursor
    BY <1>0, DebugPassCases
  <2>2. state'.pc = IF state'.halted = HALT_DIV_ZERO
                    THEN (Fetched.pc - 4) % WORD_MOD ELSE Fetched.pc
    BY <1>0, DebugPassCases DEF HALT_DIV_ZERO, HALT_NORMAL, HALT_UNKNOWN_OP, HALT_RUNNING,
       HALT_STEP, HALT_BREAKPOINT
  <2> QED BY <2>1, <2>2, <1>0, <1>2, <1>4, <1>5 DEF StaysOrReturns
<1> QED
  BY <1>9, <1>10, <1>11

(* A pass leaves the cursors in the past: the frame it consumes is of the  *)
(* cycle it executes.                                                      *)
LEMMA PassCursor ==
    ASSUME DInv, DHPass
    PROVE  CursorsInPast' /\ RunsFromPrompt' /\ RewindProgress'
<1>0. DTypeOK /\ TypeOK /\ EveryCycle /\ DebugPass /\ AnyPass /\ StaysOrReturns /\ PassFrame
  BY DebugPassCases DEF DInv, DTypeOK, DHPass
<1>1. /\ ~ InBack /\ running /\ state.halted = HALT_RUNNING /\ ~ exited
      /\ session' = session /\ rewind' = rewind /\ ~ InBack'
  BY <1>0 DEF DInv, StaysOrReturns, RunsFromPrompt, PassFrame, InBack
<1>2. /\ PastFrames(cursor, state.cycle_count) /\ (~ replay_mode => cursor = 0)
      /\ \A i \in 1 .. Len(ring) : PastFrames(ring[i].cursor, ring[i].core.cycle_count)
      /\ \A i \in 1 .. Len(ring) : ring[i].core.halted = HALT_RUNNING
  BY <1>1 DEF DInv, CursorsInPast, RunsFromPrompt
<1> DEFINE k == history_index'
<1>3. PICK e \in {0, 1} :
        /\ k \in Nat /\ Len(ring') = k + 1
        /\ ring'[k + 1] = [core |-> Fired, cursor |-> cursor]
        /\ \A i \in 1 .. k : i + e \in 1 .. history_index + 1 /\ ring'[i] = ring[i + e]
  BY PassRing
<1> HIDE DEF k
<1>4. /\ Fired.cycle_count = state.cycle_count + 1 /\ Fired.halted = HALT_RUNNING
      /\ state'.cycle_count = state.cycle_count + 1
  BY <1>0, <1>1, EveryPassSnaps, PassCounters
<1>5. /\ session.trace \in Seq(TraceFrame) /\ cursor \in Nat /\ state.cycle_count \in Nat
      /\ history_index + 1 <= Len(ring) /\ Len(ring) \in Nat /\ history_index \in Nat
  BY <1>0, DebuggerAssumption DEF DTypeOK, TypeOK, VMState, DInv, RingContiguous
<1>6. \A i \in 1 .. Len(session.trace) : session.trace[i].cycle \in Nat
  <2>1. \A i \in 1 .. Len(session.trace) : session.trace[i] \in TraceFrame
    BY <1>5
  <2> QED BY <2>1 DEF TraceFrame
<1> DEFINE c == state.cycle_count
<1>7. PastFrames(cursor, c + 1)
  <2>1. /\ cursor <= Len(session.trace) /\ (~ replay_mode => cursor = 0)
        /\ \A i \in 1 .. cursor : session.trace[i].cycle <= c
    BY <1>2 DEF PastFrames
  <2>2. Len(session.trace) \in Nat /\ c \in Nat
    BY <1>5
  <2> HIDE DEF c
  <2>3. ASSUME NEW i \in 1 .. cursor PROVE session.trace[i].cycle <= c + 1
    <3>1. session.trace[i].cycle \in Nat /\ session.trace[i].cycle <= c
      BY <1>5, <1>6, <2>1, <2>2
    <3> QED BY <2>2, <3>1
  <2> QED BY <2>1, <2>3 DEF PastFrames
<1>8. PastFrames(cursor', state.cycle_count + 1) /\ (~ replay_mode => cursor' = 0)
  <2>1. CASE cursor' = cursor
    BY <2>1, <1>2, <1>7
  <2>2. CASE /\ replay_mode /\ cursor < Len(session.trace) /\ cursor' = cursor + 1
             /\ session.trace[cursor + 1].cycle = state.cycle_count + 1
    <3>1. \A i \in 1 .. cursor + 1 : i \in 1 .. cursor \/ i = cursor + 1
      BY <1>5
    <3>2. \A i \in 1 .. cursor : session.trace[i].cycle <= c + 1
      BY <1>7 DEF PastFrames
    <3> HIDE DEF c
    <3>3. session.trace[cursor + 1].cycle <= c + 1
      BY <2>2, <1>5 DEF c
    <3>4. cursor + 1 <= Len(session.trace)
      BY <2>2, <1>5
    <3>5. PastFrames(cursor', c + 1)
      BY <2>2, <3>1, <3>2, <3>3, <3>4 DEF PastFrames
    <3> QED BY <2>2, <3>5 DEF c
  <2> QED BY <2>1, <2>2, <1>0, DebugPassCases
<1>9. ASSUME NEW i \in 1 .. k + 1
      PROVE  /\ PastFrames(ring'[i].cursor, ring'[i].core.cycle_count)
             /\ ring'[i].core.halted = HALT_RUNNING
  <2>1. CASE i = k + 1
    BY <2>1, <1>3, <1>4, <1>7
  <2>2. CASE i \in 1 .. k
    <3>1. i + e \in 1 .. history_index + 1 /\ ring'[i] = ring[i + e]
      BY <2>2, <1>3
    <3>2. i + e \in 1 .. Len(ring)
      BY <3>1, <1>5
    <3> QED BY <3>1, <3>2, <1>2
  <2>3. k \in Nat
    BY <1>3
  <2> QED BY <2>1, <2>2, <2>3
<1>10. CursorsInPast'
  BY <1>1, <1>3, <1>4, <1>8, <1>9 DEF CursorsInPast, PastFrames, replay_mode
<1>11. RunsFromPrompt'
  BY <1>0, <1>1, <1>3, <1>9, DebugPassCases DEF RunsFromPrompt, StaysOrReturns
<1> QED
  BY <1>1, <1>10, <1>11 DEF RewindProgress

(* A pass stops a `step` at its goal and not before.                       *)
LEMMA PassStep ==
    ASSUME DInv, DHPass
    PROVE  goal' \in Nat /\ StepTarget' /\ StepExact'
<1>0. /\ DTypeOK /\ TypeOK /\ EveryCycle /\ DebugPass /\ AnyPass /\ StaysOrReturns /\ Sink
      /\ goal \in Nat /\ StepTarget /\ running /\ state.halted = HALT_RUNNING
  BY DebugPassCases DEF DInv, DTypeOK, DHPass, StaysOrReturns, RunsFromPrompt
<1>1. /\ SnapFires /\ Fired.cycle_count = state.cycle_count + 1
      /\ state'.cycle_count = state.cycle_count + 1 /\ state.cycle_count \in Nat
  BY <1>0, EveryPassSnaps, PassCounters DEF TypeOK, VMState
<1>2. goal' = (IF running' \/ Stops THEN goal ELSE 0)
  BY DEF DHPass
<1>3. target_cycle' = IF StepHit THEN UINT64_MAX ELSE target_cycle
  BY <1>0, <1>1 DEF Sink
<1>4. StepHit <=> target_cycle # UINT64_MAX /\ state.cycle_count + 1 >= target_cycle
  BY <1>1 DEF StepHit
<1>5. target_cycle \in Nat
  BY <1>0 DEF DTypeOK
<1>6. StepTarget'
  <2> SUFFICES ASSUME running', target_cycle' # UINT64_MAX
               PROVE  /\ state'.cycle_count < goal'
                      /\ \/ target_cycle' = goal'
                         \/ goal' = state'.cycle_count + 1 /\ target_cycle' <= state'.cycle_count
    BY DEF StepTarget, UINT64_MAX
  <2>1. ~ StepHit /\ target_cycle' = target_cycle /\ goal' = goal
    BY <1>2, <1>3
  <2> QED BY <2>1, <1>0, <1>1, <1>4, <1>5 DEF StepTarget
<1>7. ASSUME state'.halted = HALT_STEP
      PROVE  state'.cycle_count = goal'
  <2>1. Stops /\ StepHit
    BY <1>0, <1>7, DebugPassCases DEF StaysOrReturns, HALT_STEP, HALT_BREAKPOINT, HALT_RUNNING,
       HALT_NORMAL, HALT_UNKNOWN_OP, HALT_DIV_ZERO
  <2> QED BY <2>1, <1>0, <1>1, <1>2, <1>4, <1>5 DEF StepTarget
<1>8. StepExact'
  BY <1>6, <1>7 DEF StepTarget, StepExact
<1> QED
  BY <1>0, <1>2, <1>6, <1>8

(* Every pass keeps the invariant.                                         *)
LEMMA PassDInv ==
    ASSUME DInv, DHPass
    PROVE  DInv'
BY PassDType, PassHistory, PassCursor, PassStep DEF DInv

-----------------------------------------------------------------------------
(* The commands.                                                           *)

(* debug_resume enters run() with the halt cleared; its target decides     *)
(* StepTarget.                                                             *)
LEMMA ResumeDInv ==
    ASSUME DInv, NEW t \in 0 .. UINT64_MAX, Resume(t), mem_at' = mem_at,
           goal' \in Nat, StepTarget'
    PROVE  DInv'
<1>0. /\ DTypeOK /\ HistoryOK /\ EveryCycle /\ RunsFromPrompt /\ RingContiguous
      /\ RingLeadsBack /\ CurrentSnapshot /\ CursorsInPast
  BY DEF DInv
<1>1. ~ running /\ ~ InBack /\ ~ exited
  BY DEF Resume, Prompt
<1>2. /\ state' = [state EXCEPT !.halted = HALT_RUNNING] /\ running' = TRUE /\ target_cycle' = t
      /\ mem' = mem /\ deltas' = deltas /\ snap_sink' = snap_sink
      /\ dispatch_mode' = dispatch_mode /\ session' = session /\ cursor' = cursor
      /\ breakpoints' = breakpoints /\ ring' = ring /\ history_index' = history_index
      /\ rewind' = rewind /\ state_file' = state_file /\ exited' = exited
  BY DEF Resume, Frame
<1>3. /\ state' \in VMState /\ state'.halted = HALT_RUNNING
      /\ state'.cycle_count = state.cycle_count
      /\ state'.snap_interval = state.snap_interval /\ state'.snap_timer = state.snap_timer
  <2>1. state \in VMState /\ HALT_RUNNING \in HaltReason
    BY <1>0 DEF DTypeOK, TypeOK, HALT_RUNNING, HaltReason
  <2> QED BY <1>2, <2>1 DEF VMState
<1>4. DTypeOK'
  <2>1. TypeOK'
    BY <1>0, <1>2, <1>3 DEF DTypeOK, TypeOK
  <2> QED BY <1>0, <1>2, <2>1 DEF DTypeOK, UINT64_MAX
<1>5. HistoryOK' /\ EveryCycle' /\ RingContiguous' /\ RingLeadsBack'
  BY <1>0, <1>2, <1>3 DEF HistoryOK, EveryCycle, RingContiguous, RingLeadsBack
<1>6. RunsFromPrompt' /\ CurrentSnapshot' /\ AtSnapshot' /\ RewindProgress'
  BY <1>0, <1>1, <1>2, <1>3 DEF RunsFromPrompt, CurrentSnapshot, AtSnapshot, RewindProgress,
     InBack, At
<1>7. CursorsInPast'
  BY <1>0, <1>1, <1>2, <1>3 DEF CursorsInPast, PastFrames, replay_mode, InBack
<1>8. StepExact'
  BY <1>3 DEF StepTarget, StepExact, HALT_RUNNING, HALT_STEP
<1> QED
  BY <1>4, <1>5, <1>6, <1>7, <1>8 DEF DInv

(* step N: the uint64_t sum is the goal, or has wrapped into the past.     *)
LEMMA StepDInv ==
    ASSUME DInv, DHStep
    PROVE  DInv'
<1>1. PICK n \in StepArgs :
        /\ step(n) /\ mem_at' = mem_at
        /\ goal' = state.cycle_count + (IF state.cycle_count + n < U64 THEN n ELSE 1)
  BY DEF DHStep
<1> DEFINE c == state.cycle_count
           t == (c + n) % U64
<1>2. /\ c \in Nat /\ n \in Nat /\ n # 0 /\ n <= U64 - 1 /\ c < U64
      /\ U64 \in Nat /\ U64 >= 1
  BY <1>1, DebuggerAssumption, VMAssumption DEF DInv, DTypeOK, TypeOK, VMState, step, UINT64_MAX
<1>3. Resume(t)
  BY <1>1 DEF step
<1>4. state'.cycle_count = c
  BY <1>3 DEF Resume, DInv, DTypeOK, TypeOK, VMState
<1>5. target_cycle' = t
  BY <1>3 DEF Resume
<1> HIDE DEF c
<1>6. CASE c + n < U64
  <2>1. t = c + n
    BY <1>2, <1>6
  <2>2. goal' = c + n
    BY <1>1, <1>6 DEF c
  <2> HIDE DEF t
  <2>3. StepTarget' /\ goal' \in Nat /\ t \in 0 .. UINT64_MAX
    BY <1>2, <1>4, <1>5, <1>6, <2>1, <2>2 DEF StepTarget, UINT64_MAX
  <2> QED BY <1>1, <1>3, <2>3, ResumeDInv
<1>7. CASE c + n >= U64
  <2>1. t = c + n - U64
    <3>1. c + n - U64 \in 0 .. U64 - 1
      BY <1>2, <1>7
    <3> QED BY <1>2, <3>1
  <2>2. goal' = c + 1
    BY <1>1, <1>2, <1>7 DEF c
  <2> HIDE DEF t
  <2>3. StepTarget' /\ goal' \in Nat /\ t \in 0 .. UINT64_MAX
    BY <1>2, <1>4, <1>5, <1>7, <2>1, <2>2 DEF StepTarget, UINT64_MAX
  <2> QED BY <1>1, <1>3, <2>3, ResumeDInv
<1> QED
  BY <1>2, <1>6, <1>7

(* The commands that touch neither the machine nor its history.            *)
LEMMA QuietDInv ==
    ASSUME DInv, UNCHANGED << state, mem, deltas, running, cursor, target_cycle, session >>,
           UNCHANGED << snap_sink, dispatch_mode, ring, history_index, rewind, mem_at, goal >>,
           breakpoints' \subseteq Word, state_file' \in CheckpointState \cup {NoFile},
           exited' \in BOOLEAN, Prompt
    PROVE  DInv'
<1>0. ~ running /\ ~ InBack
  BY DEF Prompt
<1>1. DTypeOK'
  BY DEF DInv, DTypeOK, TypeOK
<1>2. /\ HistoryOK' /\ EveryCycle' /\ RingContiguous' /\ RingLeadsBack' /\ CurrentSnapshot'
      /\ AtSnapshot' /\ RunsFromPrompt' /\ RewindProgress' /\ CursorsInPast'
  BY <1>0 DEF DInv, HistoryOK, EveryCycle, RingContiguous, RingLeadsBack, CurrentSnapshot,
     AtSnapshot, RunsFromPrompt, RewindProgress, CursorsInPast, PastFrames, replay_mode,
     InBack, At
<1>3. goal' \in Nat /\ StepTarget' /\ StepExact'
  BY DEF DInv, StepTarget, StepExact, InBack
<1> QED
  BY <1>1, <1>2, <1>3 DEF DInv

(* Breakpoint addresses and checkpoints have their types.                  *)
LEMMA CommandTypes ==
    ASSUME DTypeOK
    PROVE  /\ \A a \in Nat : BreakAddr(a) \in Word
           /\ ReplCheckpoint \in CheckpointState
<1>1. ASSUME NEW a \in Nat
      PROVE  BreakAddr(a) \in Word
  <2>1. Mask(a) \in Nat /\ Mask(a) < MEM_SIZE
    BY MachineAssumption DEF Mask
  <2>2. Mask(a) % 4 \in 0 .. Mask(a)
    BY <2>1
  <2>3. MEM_SIZE \in Nat /\ MEM_SIZE <= WORD_MOD /\ WORD_MOD \in Nat
    BY MachineAssumption, Sizes
  <2> QED BY <2>1, <2>2, <2>3 DEF BreakAddr, Word
<1>2. ReplCheckpoint \in CheckpointState
  <2>1. state \in VMState /\ cursor \in Nat
    BY DEF DTypeOK, TypeOK
  <2>2. state.pc \in Int
    BY <2>1, Sizes DEF VMState, Word
  <2>3. visible_pc \in Word
    BY <2>1, <2>2, WordWrap DEF visible_pc, VMState
  <2> QED BY <2>1, <2>3 DEF ReplCheckpoint, CheckpointState, VMState
<1> QED
  BY <1>1, <1>2

(* back N starts at the newest entry of the current snapshot's log.        *)
LEMMA BackDInv ==
    ASSUME DInv, NEW n \in Nat, back(n), UNCHANGED << mem_at, goal >>
    PROVE  DInv'
<1> DEFINE h == history_index
<1>0. /\ ~ running /\ ~ InBack /\ ~ exited /\ n # 0 /\ n <= h
      /\ rewind' = [active |-> TRUE, idx |-> h, left |-> Len(At(h).core.deltas), to |-> h - n]
  BY DEF back, Prompt
<1>1. UNCHANGED << state, mem, deltas, cursor, breakpoints, ring, history_index,
                   state_file, exited, snap_sink, dispatch_mode, session, target_cycle, running >>
  BY DEF back, CommandFrame, Frame
<1>2. /\ h \in Nat /\ h + 1 <= Len(ring) /\ ring \in Seq(ReplSnapshot) /\ Len(ring) \in Nat
      /\ mem = mem_at[h + 1]
  BY <1>0 DEF DInv, DTypeOK, RingContiguous, AtSnapshot
<1>3. At(h).core.deltas \in Seq(MemDelta) /\ Len(At(h).core.deltas) \in Nat
  <2>1. ring[h + 1] \in ReplSnapshot
    BY <1>2
  <2>2. ring[h + 1].core.deltas \in Seq(MemDelta)
    BY <2>1 DEF ReplSnapshot, Snapshot
  <2> QED BY <2>2 DEF At
<1>4. /\ rewind' \in Rewind /\ rewind'.active /\ rewind'.idx = h /\ rewind'.to = h - n
      /\ rewind'.left = Len(At(h).core.deltas)
  <2>1. h - n \in Nat
    BY <1>0, <1>2
  <2> HIDE DEF h
  <2> QED BY <1>0, <1>2, <1>3, <2>1 DEF Rewind
<1>5. PrefixLeadsBack(At(h).core.deltas, Len(At(h).core.deltas), mem, mem_at[h])
  <2>1. h \in 1 .. Len(ring) - 1
    BY <1>0, <1>2
  <2>2. LeadsBack(ring[h + 1].core.deltas, mem_at[h + 1], mem_at[h])
    BY <2>1 DEF DInv, RingLeadsBack
  <2> QED BY <2>2, <1>2, AllLeft DEF At
<1>6. DTypeOK'
  BY <1>1, <1>4 DEF DInv, DTypeOK, TypeOK
<1>7. /\ HistoryOK' /\ EveryCycle' /\ RingContiguous' /\ RingLeadsBack' /\ CurrentSnapshot'
      /\ AtSnapshot' /\ RunsFromPrompt' /\ CursorsInPast'
  BY <1>0, <1>1, <1>4 DEF DInv, HistoryOK, EveryCycle, RingContiguous, RingLeadsBack,
     CurrentSnapshot, AtSnapshot, RunsFromPrompt, CursorsInPast, PastFrames, replay_mode, InBack
<1>8. RewindProgress'
  <2>1. h - n < h /\ h \in h - n .. h /\ h # h - n
    BY <1>0, <1>2
  <2> QED BY <1>1, <1>3, <1>4, <1>5, <2>1 DEF RewindProgress, At
<1>9. goal' \in Nat /\ StepTarget' /\ StepExact'
  BY <1>0, <1>1, <1>4 DEF DInv, StepTarget, StepExact, InBack
<1> QED
  BY <1>6, <1>7, <1>8, <1>9 DEF DInv

(* Every command keeps the invariant.                                      *)
LEMMA CommandDInv ==
    ASSUME DInv, DHCommand
    PROVE  DInv'
<1>0. mem_at' = mem_at /\ goal' = (IF running' THEN 0 ELSE goal) /\ goal \in Nat
  BY DEF DHCommand, DInv
<1>1. CASE continue
  <2>1. Resume(UINT64_MAX) /\ UINT64_MAX \in 0 .. UINT64_MAX
    BY <1>1, DebuggerAssumption, VMAssumption DEF continue, UINT64_MAX
  <2>2. target_cycle' = UINT64_MAX /\ running'
    BY <2>1 DEF Resume
  <2> QED BY <1>0, <2>1, <2>2, ResumeDInv DEF StepTarget
<1>2. ASSUME NEW n \in BackArgs, back(n)
      PROVE  DInv'
  <2>1. ~ running' /\ n \in Nat
    BY <1>2, DebuggerAssumption DEF back, Prompt, CommandFrame
  <2> QED BY <1>0, <1>2, <2>1, BackDInv
<1>3. ASSUME NEW bps, SetBreakpoints(bps), bps \subseteq Word
      PROVE  DInv'
  <2>1. ~ running' /\ Prompt
    BY <1>3 DEF SetBreakpoints, Prompt, CommandFrame
  <2>2. state_file' \in CheckpointState \cup {NoFile} /\ exited' \in BOOLEAN
    BY <1>3 DEF SetBreakpoints, DInv, DTypeOK
  <2> QED BY <1>0, <1>3, <2>1, <2>2, QuietDInv DEF SetBreakpoints, CommandFrame, Frame
<1>4. ASSUME NEW a \in BreakArgs, breakpoint(a) \/ breakpoint_d(a)
      PROVE  DInv'
  <2>1. a \in Nat /\ breakpoints \subseteq Word
    BY DebuggerAssumption DEF DInv, DTypeOK
  <2>2. BreakAddr(a) \in Word
    BY <2>1, CommandTypes DEF DInv
  <2> QED BY <1>3, <1>4, <2>1, <2>2 DEF breakpoint, breakpoint_d
<1>5. CASE save
  <2>1. ~ running' /\ Prompt
    BY <1>5 DEF save, Prompt, CommandFrame
  <2>2. state_file' \in CheckpointState \cup {NoFile}
    BY <1>5, CommandTypes DEF save, DInv, DTypeOK
  <2>3. breakpoints' \subseteq Word /\ exited' \in BOOLEAN
    BY <1>5 DEF save, DInv, DTypeOK
  <2> QED BY <1>0, <1>5, <2>1, <2>2, <2>3, QuietDInv DEF save, CommandFrame, Frame
<1>6. CASE quit
  <2>1. ~ running' /\ Prompt
    BY <1>6 DEF quit, Prompt, CommandFrame
  <2>2. /\ breakpoints' \subseteq Word /\ exited' \in BOOLEAN
        /\ state_file' \in CheckpointState \cup {NoFile}
    BY <1>6 DEF quit, DInv, DTypeOK
  <2> QED BY <1>0, <1>6, <2>1, <2>2, QuietDInv DEF quit, CommandFrame, Frame
<1> QED
  BY <1>1, <1>2, <1>4, <1>5, <1>6 DEF DHCommand, Command

-----------------------------------------------------------------------------
(* The loop of `back`.                                                     *)

(* Inside the loop only the memory and the position change: everything     *)
(* that is not about them is kept.                                         *)
LEMMA LoopDInv ==
    ASSUME DInv, InBack, InBack', mem' \in Memory, rewind' \in Rewind, RewindProgress',
           UNCHANGED << state, deltas, cursor, breakpoints, ring, history_index,
                        state_file, exited, mem_at >>,
           CommandFrame, goal' = 0
    PROVE  DInv'
<1>0. ~ running /\ ~ running' /\ ~ exited
  BY DEF DInv, RunsFromPrompt, CommandFrame
<1>1. DTypeOK'
  BY DEF DInv, DTypeOK, TypeOK, CommandFrame, Frame
<1>2. /\ HistoryOK' /\ EveryCycle' /\ RingContiguous' /\ RingLeadsBack' /\ CurrentSnapshot'
      /\ AtSnapshot' /\ RunsFromPrompt' /\ CursorsInPast'
  BY <1>0 DEF DInv, HistoryOK, EveryCycle, RingContiguous, RingLeadsBack, CurrentSnapshot,
     AtSnapshot, RunsFromPrompt, CursorsInPast, PastFrames, replay_mode, CommandFrame
<1>3. goal' \in Nat /\ StepTarget' /\ StepExact'
  BY <1>0 DEF StepTarget, StepExact
<1> QED
  BY <1>1, <1>2, <1>3 DEF DInv

(* What the loop may rely on.                                              *)
LEMMA LoopFacts ==
    ASSUME DInv, InBack
    PROVE  /\ mem \in Memory /\ history_index \in Nat /\ history_index + 1 <= Len(ring)
           /\ ring \in Seq(ReplSnapshot) /\ Len(ring) \in Nat
           /\ \A i \in 1 .. Len(ring) : mem_at[i] \in Memory
           /\ \A i \in 1 .. Len(ring) : ring[i].core.deltas \in Seq(MemDelta)
           /\ rewind.idx \in Nat /\ rewind.to \in Nat /\ rewind.left \in Nat
           /\ rewind \in Rewind
           /\ rewind.to < history_index /\ rewind.to <= rewind.idx
           /\ rewind.idx <= history_index
           /\ rewind.left <= Len(ring[rewind.idx + 1].core.deltas)
<1>1. /\ mem \in Memory /\ history_index \in Nat /\ history_index + 1 <= Len(ring)
      /\ ring \in Seq(ReplSnapshot) /\ mem_at \in Seq(Memory) /\ Len(mem_at) = Len(ring)
      /\ rewind \in Rewind
  BY DEF DInv, DTypeOK, TypeOK, RingContiguous, HistoryOK
<1>2. \A i \in 1 .. Len(ring) : ring[i].core.deltas \in Seq(MemDelta)
  <2>1. \A i \in 1 .. Len(ring) : ring[i] \in ReplSnapshot
    BY <1>1
  <2> QED BY <2>1 DEF ReplSnapshot, Snapshot
<1>3. rewind.idx \in Nat /\ rewind.to \in Nat /\ rewind.left \in Nat
  BY <1>1 DEF Rewind
<1>4. \A i \in 1 .. Len(ring) : mem_at[i] \in Memory
  BY <1>1
<1> QED
  BY <1>1, <1>2, <1>3, <1>4 DEF DInv, RewindProgress, At

(* One entry undone.                                                       *)
LEMMA UndoOneDInv ==
    ASSUME DInv, UndoOne, mem_at' = mem_at, goal' = 0
    PROVE  DInv'
<1> DEFINE log == ring[rewind.idx + 1].core.deltas
           b   == mem_at[rewind.idx]
           n   == rewind.left
<1>0. /\ InBack /\ rewind.idx > rewind.to /\ n > 0
      /\ mem' = apply_old_value(mem, log[n])
      /\ rewind' = [rewind EXCEPT !.left = n - 1]
  BY DEF UndoOne, At
<1>1. /\ log \in Seq(MemDelta) /\ n \in 1 .. Len(log) /\ mem \in Memory /\ n \in Nat
      /\ rewind \in Rewind
  <2>1. /\ rewind.idx + 1 \in 1 .. Len(ring) /\ n \in Nat /\ n <= Len(log)
        /\ mem \in Memory /\ rewind \in Rewind
    BY <1>0, LoopFacts
  <2>2. log \in Seq(MemDelta)
    BY <1>0, <2>1, LoopFacts
  <2> HIDE DEF log, n
  <2>3. Len(log) \in Nat
    BY <2>2
  <2> QED BY <1>0, <2>1, <2>2, <2>3
<1>2. PrefixLeadsBack(log, n, mem, b)
  BY <1>0 DEF DInv, RewindProgress, At
<1>3. mem' \in Memory /\ PrefixLeadsBack(log, n - 1, mem', b)
  <2> HIDE DEF log, b, n
  <2> QED BY <1>0, <1>1, <1>2, UndoLast
<1>4. /\ rewind' \in Rewind /\ rewind'.active = rewind.active /\ rewind'.left = n - 1
      /\ rewind'.idx = rewind.idx /\ rewind'.to = rewind.to
  <2>1. n - 1 \in Nat
    BY <1>0, <1>1
  <2> HIDE DEF n
  <2> QED BY <1>0, <1>1, <2>1 DEF Rewind
<1>5. ring' = ring /\ history_index' = history_index
  BY DEF UndoOne
<1>6. n - 1 <= Len(log)
  BY <1>1
<1>7. RewindProgress'
  <2>1. /\ rewind.to < history_index /\ rewind.idx \in rewind.to .. history_index
    BY <1>0 DEF DInv, RewindProgress
  <2>2. rewind.idx # rewind.to
    BY <1>0, LoopFacts
  <2> QED BY <1>0, <1>3, <1>4, <1>5, <1>6, <2>1, <2>2 DEF RewindProgress, At
<1>8. InBack'
  BY <1>0, <1>4 DEF InBack
<1> QED
  BY <1>0, <1>3, <1>4, <1>7, <1>8, LoopDInv DEF UndoOne

(* The log of a snapshot is exhausted: the memory is that of the snapshot  *)
(* before it, whose own log is next.                                       *)
LEMMA UndoNextDInv ==
    ASSUME DInv, UndoNext, mem_at' = mem_at, goal' = 0
    PROVE  DInv'
<1> DEFINE i == rewind.idx
           log == ring[i].core.deltas
<1>0. /\ InBack /\ i > rewind.to /\ rewind.left = 0
      /\ rewind' = [rewind EXCEPT !.idx = i - 1, !.left = Len(At(i - 1).core.deltas)]
      /\ mem' = mem /\ ring' = ring /\ history_index' = history_index
  BY DEF UndoNext
<1>1. /\ i \in Nat /\ rewind.to \in Nat /\ i <= history_index /\ history_index \in Nat
      /\ history_index + 1 <= Len(ring) /\ Len(ring) \in Nat /\ i \in 1 .. Len(ring)
      /\ mem \in Memory /\ mem_at[i] \in Memory /\ rewind \in Rewind
      /\ log \in Seq(MemDelta) /\ rewind.to < history_index
  BY <1>0, LoopFacts
<1>2. mem = mem_at[i]
  <2>1. PrefixLeadsBack(At(i).core.deltas, 0, mem, mem_at[i])
    BY <1>0 DEF DInv, RewindProgress
  <2> QED BY <1>1, <2>1, NoneLeft
<1>3. At(i - 1) = ring[i]
  BY <1>1 DEF At
<1>4. /\ rewind' \in Rewind /\ rewind'.active = rewind.active /\ rewind'.left = Len(log)
      /\ rewind'.idx = i - 1 /\ rewind'.to = rewind.to
  <2>0. i \in Nat /\ rewind.to \in Nat /\ i > rewind.to /\ log \in Seq(MemDelta)
    BY <1>0, <1>1
  <2>1. i - 1 \in Nat /\ Len(log) \in Nat
    <3> HIDE DEF i, log
    <3> QED BY ONLY <2>0
  <2>2. rewind' = [rewind EXCEPT !.idx = i - 1, !.left = Len(log)]
    BY <1>0, <1>3
  <2> HIDE DEF i, log
  <2> QED BY <1>1, <2>1, <2>2 DEF Rewind
<1>5. i - 1 > rewind.to => PrefixLeadsBack(log, Len(log), mem, mem_at[i - 1])
  <2> SUFFICES ASSUME i - 1 > rewind.to
               PROVE  PrefixLeadsBack(log, Len(log), mem, mem_at[i - 1])
    OBVIOUS
  <2>1. i - 1 \in 1 .. Len(ring) - 1 /\ (i - 1) + 1 = i
    BY <1>1
  <2>2. LeadsBack(ring[i].core.deltas, mem_at[i], mem_at[i - 1])
    BY <2>1 DEF DInv, RingLeadsBack
  <2> QED BY <1>2, <2>2, AllLeft
<1>6. i - 1 = rewind.to => mem = mem_at[rewind.to + 1]
  BY <1>1, <1>2
<1>7. i - 1 \in rewind.to .. history_index
  BY <1>0, <1>1
<1>8. RewindProgress'
  <2>1. At(rewind.idx)' = ring[i]
    BY <1>0, <1>1, <1>4 DEF At
  <2>2. Len(log) <= Len(log)
    BY <1>1
  <2> HIDE DEF i, log
  <2> QED BY <1>0, <1>1, <1>4, <1>5, <1>6, <1>7, <2>1, <2>2 DEF RewindProgress, log
<1>9. InBack'
  BY <1>0, <1>4 DEF InBack
<1> QED
  BY <1>0, <1>1, <1>4, <1>8, <1>9, LoopDInv DEF UndoNext

(* The end of `back`: the machine is at the target in every respect.       *)
LEMMA FinishDInv ==
    ASSUME DInv, FinishBack, mem_at' = mem_at, goal' = 0
    PROVE  DInv'
<1> DEFINE to == rewind.to
           snap == ring[to + 1]
<1>0. /\ InBack /\ rewind.idx = to /\ state' = TargetState
      /\ cursor' = (IF replay_mode THEN snap.cursor ELSE cursor)
      /\ history_index' = to /\ rewind' = NotRewinding
      /\ UNCHANGED << mem, deltas, breakpoints, ring, state_file, exited >>
      /\ CommandFrame
  BY DEF FinishBack, RestoreTo, Target, At
<1>1. /\ to \in Nat /\ to < history_index /\ history_index \in Nat
      /\ history_index + 1 <= Len(ring) /\ Len(ring) \in Nat /\ ring \in Seq(ReplSnapshot)
      /\ mem \in Memory
  BY <1>0, LoopFacts
<1>2. to + 1 \in 1 .. Len(ring) /\ snap \in ReplSnapshot
  BY <1>1
<1>3. snap.core \in Snapshot /\ snap.cursor \in Nat
  BY <1>2 DEF ReplSnapshot
<1>4. /\ ~ running /\ ~ running' /\ ~ exited /\ ~ exited' /\ deltas = << >> /\ deltas' = << >>
      /\ session' = session /\ target_cycle' = target_cycle
      /\ snap_sink' = snap_sink /\ dispatch_mode' = dispatch_mode
  BY <1>0 DEF DInv, RunsFromPrompt, RingLeadsBack, CommandFrame, Frame
<1>5. mem = mem_at[to + 1]
  BY <1>0 DEF DInv, RewindProgress
<1>6. /\ state' \in VMState
      /\ state'.cycle_count = snap.core.cycle_count /\ state'.regs = snap.core.regs
      /\ state'.pc = snap.core.pc /\ state'.sp = snap.core.sp
      /\ state'.flags = snap.core.flags /\ state'.halted = snap.core.halted
      /\ state'.snap_interval = state.snap_interval /\ state'.snap_timer = state.snap_timer
  <2>1. state \in VMState
    BY DEF DInv, DTypeOK, TypeOK
  <2>2. state' = [state EXCEPT !.cycle_count = snap.core.cycle_count,
                     !.regs = snap.core.regs, !.pc = snap.core.pc, !.sp = snap.core.sp,
                     !.flags = snap.core.flags, !.halted = snap.core.halted]
    BY <1>0 DEF TargetState, Target, At
  <2> HIDE DEF snap
  <2> QED BY <1>3, <2>1, <2>2 DEF VMState, Snapshot
<1>7. state'.halted = HALT_RUNNING
  BY <1>2, <1>6 DEF DInv, RunsFromPrompt
<1>8. ~ InBack' /\ rewind' \in Rewind
  BY <1>0 DEF NotRewinding, InBack, Rewind
<1>9. cursor' = snap.cursor /\ PastFrames(snap.cursor, snap.core.cycle_count)
  <2>1. PastFrames(snap.cursor, snap.core.cycle_count) /\ (~ replay_mode => cursor = 0)
    BY <1>2 DEF DInv, CursorsInPast
  <2> QED BY <1>0, <2>1 DEF PastFrames
<1>10. DTypeOK'
  <2>1. TypeOK'
    <3>1. TypeOK /\ mem' = mem /\ deltas' = deltas /\ running' = running
      BY <1>0 DEF DInv, DTypeOK, CommandFrame
    <3> QED BY <1>4, <1>6, <3>1 DEF TypeOK
  <2>2. history_index' \in Nat /\ cursor' \in Nat
    BY <1>0, <1>1, <1>3, <1>9
  <2> QED BY <1>0, <1>4, <1>8, <2>1, <2>2 DEF DInv, DTypeOK
<1>11. HistoryOK' /\ EveryCycle' /\ RingLeadsBack'
  BY <1>0, <1>4, <1>6 DEF DInv, HistoryOK, EveryCycle, RingLeadsBack
<1>12. RingContiguous'
  <2>1. to + 1 \in 1 .. Len(ring)
    BY <1>2
  <2> QED BY <1>0, <2>1 DEF DInv, RingContiguous
<1>13. RunsFromPrompt'
  BY <1>0, <1>4, <1>8 DEF DInv, RunsFromPrompt
<1>14. CurrentSnapshot'
  <2>1. LeadsBack(deltas', mem', mem_at'[history_index' + 1])
    BY <1>0, <1>1, <1>4, <1>5, EmptyLeadsBack
  <2> QED BY <1>0, <1>6, <2>1 DEF CurrentSnapshot, At
<1>15. AtSnapshot'
  BY <1>0, <1>5, <1>6, <1>7, <1>9 DEF AtSnapshot, At, HALT_RUNNING, HALT_DIV_ZERO
<1>16. CursorsInPast'
  <2>1. \A i \in 1 .. Len(ring) : PastFrames(ring[i].cursor, ring[i].core.cycle_count)
    BY DEF DInv, CursorsInPast
  <2> QED BY <1>0, <1>4, <1>6, <1>9, <2>1 DEF CursorsInPast, PastFrames, replay_mode
<1>17. RewindProgress' /\ StepTarget' /\ StepExact' /\ goal' \in Nat
  BY <1>4, <1>7, <1>8 DEF RewindProgress, StepTarget, StepExact, HALT_RUNNING, HALT_STEP
<1> QED
  BY <1>10, <1>11, <1>12, <1>13, <1>14, <1>15, <1>16, <1>17 DEF DInv

-----------------------------------------------------------------------------
(* The invariant of the debugger.                                          *)

(* A session starts in the invariant.                                      *)
LEMMA InitDInv == DHInit => DInv
<1> SUFFICES ASSUME DHInit PROVE DInv
  OBVIOUS
<1> DEFINE x == [core |-> SnapshotOf(state, << >>), cursor |-> 0]
<1>0. /\ session \in Sessions /\ mem = load_program(ZeroMemory, session.bin)
      /\ state = [PowerOn EXCEPT !.snap_interval = 1, !.snap_timer = 1]
      /\ deltas = << >> /\ snap_sink = TRUE /\ dispatch_mode = "ComputedGoto"
      /\ running = FALSE /\ cursor = 0 /\ target_cycle = UINT64_MAX /\ breakpoints = {}
      /\ ring = << x >> /\ history_index = 0 /\ rewind = NotRewinding /\ state_file = NoFile
      /\ exited = FALSE /\ mem_at = << mem >> /\ goal = 0
  BY DEF DHInit, DInit
<1>1. /\ state \in VMState /\ state.snap_interval = 1 /\ state.snap_timer = 1
      /\ state.halted = HALT_RUNNING /\ state.cycle_count = 0
  <2>1. PowerOn \in VMState /\ 1 \in Word /\ PowerOn.halted = HALT_RUNNING
        /\ PowerOn.cycle_count = 0
    BY PowerOnType, Sizes DEF Word, PowerOn
  <2> QED BY <1>0, <2>1 DEF VMState
<1>2. mem \in Memory
  BY <1>0, PowerOnType, DebuggerAssumption
<1>3. TypeOK
  <2>1. snap_sink \in BOOLEAN /\ running \in BOOLEAN /\ dispatch_mode \in DispatchModes
    BY <1>0, Zenon DEF DispatchModes
  <2>2. deltas \in Seq(MemDelta)
    BY <1>0
  <2> QED BY <1>1, <1>2, <2>1, <2>2 DEF TypeOK
<1>4. /\ x \in ReplSnapshot /\ x.cursor = 0 /\ x.core.halted = HALT_RUNNING
      /\ x.core.cycle_count = state.cycle_count /\ x.core.regs = state.regs
      /\ x.core.sp = state.sp /\ x.core.flags = state.flags /\ x.core.pc = state.pc
  <2>1. << >> \in Seq(MemDelta)
    OBVIOUS
  <2> QED BY <1>1, <2>1 DEF ReplSnapshot, Snapshot, SnapshotOf, VMState
<1> HIDE DEF x
<1>5. /\ ring \in Seq(ReplSnapshot) /\ Len(ring) = 1 /\ ring[1] = x
      /\ mem_at \in Seq(Memory) /\ Len(mem_at) = 1 /\ mem_at[1] = mem
  BY <1>0, <1>2, <1>4
<1>6. DTypeOK
  <2>1. target_cycle \in 0 .. UINT64_MAX
    BY <1>0, DebuggerAssumption, VMAssumption DEF UINT64_MAX
  <2>2. rewind \in Rewind
    BY <1>0 DEF NotRewinding, Rewind
  <2> QED BY <1>0, <1>3, <1>5, <2>1, <2>2 DEF DTypeOK
<1>7. ~ InBack
  BY <1>0 DEF InBack, NotRewinding
<1>8. HistoryOK /\ EveryCycle /\ RingContiguous /\ RunsFromPrompt
  BY <1>0, <1>1, <1>4, <1>5, <1>7, DebuggerAssumption DEF HistoryOK, EveryCycle,
     RingContiguous, RunsFromPrompt
<1>9. RingLeadsBack /\ CurrentSnapshot
  BY <1>0, <1>2, <1>4, <1>5, EmptyLeadsBack DEF RingLeadsBack, CurrentSnapshot, At
<1>10. AtSnapshot
  BY <1>0, <1>1, <1>4, <1>5 DEF AtSnapshot, At, HALT_RUNNING, HALT_DIV_ZERO
<1>11. CursorsInPast
  <2>1. session.trace \in Seq(TraceFrame)
    BY <1>0, DebuggerAssumption
  <2>2. 0 <= Len(session.trace)
    BY <2>1
  <2>3. \A c : PastFrames(0, c)
    BY <2>2 DEF PastFrames
  <2> QED BY <1>0, <1>4, <1>5, <2>3 DEF CursorsInPast
<1>12. RewindProgress /\ goal \in Nat /\ StepTarget /\ StepExact
  BY <1>0, <1>1, <1>7 DEF RewindProgress, StepTarget, StepExact, HALT_RUNNING, HALT_STEP
<1> QED
  BY <1>6, <1>8, <1>9, <1>10, <1>11, <1>12 DEF DInv

(* DInv is inductive.                                                      *)
LEMMA DebuggerInvariant == DHSpec => []DInv
<1>1. DInv /\ [DHNext]_dhvars => DInv'
  <2> SUFFICES ASSUME DInv, [DHNext]_dhvars PROVE DInv'
    OBVIOUS
  <2>1. CASE DHBack
    <3>1. mem_at' = mem_at /\ goal' = 0
      BY <2>1 DEF DHBack
    <3> QED BY <2>1, <3>1, UndoOneDInv, UndoNextDInv, FinishDInv DEF DHBack, BackLoop
  <2>2. CASE UNCHANGED dhvars
    <3>1. DTypeOK'
      BY <2>2 DEF DInv, DTypeOK, TypeOK, dhvars, dvars, vmVars, debugVars, hist
    <3>2. /\ HistoryOK' /\ EveryCycle' /\ RingContiguous' /\ RingLeadsBack'
          /\ CurrentSnapshot' /\ AtSnapshot' /\ RunsFromPrompt' /\ RewindProgress'
          /\ CursorsInPast' /\ goal' \in Nat /\ StepTarget' /\ StepExact'
      BY <2>2 DEF DInv, HistoryOK, EveryCycle, RingContiguous, RingLeadsBack, CurrentSnapshot,
         AtSnapshot, RunsFromPrompt, RewindProgress, CursorsInPast, PastFrames, replay_mode,
         InBack, At, StepTarget, StepExact, dhvars, dvars, vmVars, debugVars, hist
    <3> QED BY <3>1, <3>2 DEF DInv
  <2> QED BY <2>1, <2>2, PassDInv, StepDInv, CommandDInv DEF DHNext
<1> QED
  BY <1>1, InitDInv, PTL DEF DHSpec

(* Every variable of a session has its C++ type, and no command, pass or   *)
(* rewind takes one out of it (cmd_debug_run, install_debug_sink).         *)
THEOREM DebuggerTypes == DHSpec => []DTypeOK
<1>1. DInv => DTypeOK
  BY DEF DInv
<1> QED
  BY <1>1, DebuggerInvariant, PTL

(* The ring is one contiguous stretch of history of at most kRingCap       *)
(* cycles that holds the current one, for every capacity and however often *)
(* the user goes back and runs forward again (install_debug_sink).         *)
THEOREM RingIsHistory == DHSpec => []RingContiguous
<1>1. DInv => RingContiguous
  BY DEF DInv
<1> QED
  BY <1>1, DebuggerInvariant, PTL

(* Each snapshot's log leads from its memory to the one before it, after   *)
(* any mix of pushes, truncations and evictions, and the engine's own log  *)
(* is empty whenever `back` may be typed (VM::take_snapshot, vm.cpp        *)
(* label_STORE).                                                           *)
THEOREM RingLogsCorrect == DHSpec => []RingLeadsBack
<1>1. DInv => RingLeadsBack
  BY DEF DInv
<1> QED
  BY <1>1, DebuggerInvariant, PTL

(* `back N` restores every byte of memory: at each prompt the memory is    *)
(* the one of the snapshot under history_index (the undo loop of `back`).  *)
THEOREM BackRestoresMemory == DHSpec => []RewindExact
<1>1. DInv => RewindExact
  BY DEF DInv, AtSnapshot, RewindExact, Prompt
<1> QED
  BY <1>1, DebuggerInvariant, PTL

(* At each prompt the registers, the counters and the replay cursor are    *)
(* those of the snapshot under history_index (the comment on               *)
(* CmdDebug::ring).                                                        *)
THEOREM PromptShowsSnapshot == DHSpec => []PromptMatchesRing
<1>1. DInv => PromptMatchesRing
  BY DEF DInv, AtSnapshot, CurrentSnapshot, PromptMatchesRing, Prompt
<1> QED
  BY <1>1, DebuggerInvariant, PTL

(* No trace frame is consumed before its cycle, also after `back` rewound  *)
(* the cursor (the replay hook of cmd_debug).                              *)
THEOREM CursorNeverAhead == DHSpec => []CursorInPast
<1>1. DInv => CursorInPast
  BY DEF DInv, CursorsInPast, PastFrames, CursorInPast
<1> QED
  BY <1>1, DebuggerInvariant, PTL

(* step N stops after exactly N cycles, for every N of uint64_t, those     *)
(* whose sum with cycle_count wraps included (debug_resume and the sink).  *)
THEOREM StepsAreExact == DHSpec => []StepExact
<1>1. DInv => StepExact
  BY DEF DInv
<1> QED
  BY <1>1, DebuggerInvariant, PTL

=============================================================================
