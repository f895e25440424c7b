----------------------- MODULE TravelRefinement_proofs -----------------------
(***************************************************************************)
(* The debugger implements the abstract time-travel machine, for every     *)
(* session, ring capacity and sequence of commands: a pass is a step       *)
(* forward, the end of `back` is a jump into the past, and everything else *)
(* changes nothing the user can see.                                       *)
(***************************************************************************)
EXTENDS TravelRefinement, Debugger_proofs

-----------------------------------------------------------------------------
(* The moment the user sees.                                               *)

(* Putting pc back on the trapped DIV and forward again is the identity,   *)
(* also where the word wraps.                                              *)
LEMMA BackAndForth ==
    ASSUME NEW p \in Word
    PROVE  (((p - 4) % WORD_MOD) + 4) % WORD_MOD = p
<1>0. p \in Nat /\ p < WORD_MOD /\ WORD_MOD \in Nat /\ WORD_MOD >= 4
  BY Sizes DEF Word
<1> DEFINE W == WORD_MOD
<1> HIDE DEF W
<1>1. ASSUME NEW q \in Nat, q < W, W \in Nat, W >= 4
      PROVE  q % W = q /\ (q + W) % W = q /\ (q - W) % W = q
  BY <1>1
<1>2. CASE p >= 4
  <2>1. p - 4 \in Nat /\ p - 4 < W
    BY <1>0, <1>2 DEF W
  <2>2. (p - 4) % W = p - 4
    BY <1>0, <1>1, <2>1 DEF W
  <2> QED BY <1>0, <1>1, <2>2 DEF W
<1>3. CASE p < 4
  <2>1. p - 4 + W \in Nat /\ p - 4 + W < W /\ (p - 4 + W) - W = p - 4
    BY <1>0, <1>3 DEF W
  <2>2. (p - 4) % W = p - 4 + W
    BY <1>0, <1>1, <2>1 DEF W
  <2>3. (p - 4 + W) + 4 = p + W
    BY <1>0 DEF W
  <2> QED BY <1>0, <1>1, <2>2, <2>3 DEF W
<1> QED
  BY <1>0, <1>2, <1>3

(* The prompt and a command in progress both show the moment under         *)
(* history_index.                                                          *)
LEMMA SeenIsCurrent == DInv => Seen = MomentOf(history_index + 1)
<1> SUFFICES ASSUME DInv PROVE Seen = MomentOf(history_index + 1)
  OBVIOUS
<1>1. CASE ~ Prompt
  BY <1>1 DEF Seen
<1>2. CASE Prompt
  <2> DEFINE snap == ring[history_index + 1]
  <2>1. /\ mem = mem_at[history_index + 1] /\ state.cycle_count = snap.core.cycle_count
        /\ state.regs = snap.core.regs /\ state.sp = snap.core.sp
        /\ state.flags = snap.core.flags /\ cursor = snap.cursor
        /\ state.pc = IF state.halted = HALT_DIV_ZERO
                      THEN (snap.core.pc - 4) % WORD_MOD ELSE snap.core.pc
    BY <1>2 DEF DInv, AtSnapshot, CurrentSnapshot, Prompt, At
  <2>2. snap.core.pc \in Word
    <3>1. snap \in ReplSnapshot
      BY DEF DInv, DTypeOK, RingContiguous
    <3> QED BY <3>1 DEF ReplSnapshot, Snapshot
  <2>3. FetchedPc = snap.core.pc
    BY <2>1, <2>2, BackAndForth DEF FetchedPc
  <2> QED BY <1>2, <2>1, <2>3 DEF Seen, MomentOf
<1> QED
  BY <1>1, <1>2

(* A session starts at the only moment of its past.                        *)
LEMMA TravelInit == DHInit => TT!Init
<1> SUFFICES ASSUME DHInit PROVE TT!Init
  OBVIOUS
<1>1. DInv /\ history_index = 0
  BY InitDInv DEF DHInit, DInit
<1>2. Len(ring) = 1
  BY DEF DHInit, DInit
<1>3. Seen = MomentOf(1)
  BY <1>1, SeenIsCurrent
<1>4. Past = [i \in 1 .. 1 |-> MomentOf(i)]
  BY <1>2 DEF Past
<1>5. Past = << MomentOf(1) >>
  BY <1>4
<1> QED
  BY <1>1, <1>3, <1>5 DEF TT!Init

(* A step that leaves the ring, the memories and the position alone is not *)
(* seen.                                                                   *)
LEMMA Unseen ==
    ASSUME DInv, DInv', UNCHANGED << ring, mem_at, history_index >>
    PROVE  UNCHANGED TT!ttvars
<1>1. Past' = Past /\ (history_index + 1)' = history_index + 1
  BY DEF Past, MomentOf
<1>2. Seen' = Seen
  <2>1. Seen = MomentOf(history_index + 1)
    BY SeenIsCurrent
  <2>2. (Seen = MomentOf(history_index + 1))'
    BY SeenIsCurrent, PTL
  <2> QED BY <2>1, <2>2 DEF MomentOf
<1> QED
  BY <1>1, <1>2 DEF TT!ttvars

(* A pass is one cycle forward: the future that was rewound is forgotten,  *)
(* the snapshot of this cycle is added, and the capacity is kept.          *)
LEMMA PassAdvances ==
    ASSUME DInv, DInv', DHPass
    PROVE  TT!Advance
<1> DEFINE h == history_index
           k == history_index'
           now2 == Seen'
           S == {MomentOf(i) : i \in 1 .. Len(ring)} \cup {now2}
           new == PushedAt(h, Past, now2)
           M2(i) == Moment(ring'[i].core.cycle_count, ring'[i].core.regs, ring'[i].core.pc,
                           ring'[i].core.sp, ring'[i].core.flags, ring'[i].cursor, mem_at'[i])
<1>0. /\ h \in Nat /\ h + 1 <= Len(ring) /\ Len(ring) \in Nat /\ Len(ring) <= kRingCap
      /\ kRingCap \in Nat
  BY DebuggerAssumption DEF DInv, DTypeOK, RingContiguous
<1>1. PICK e \in {0, 1} :
        /\ k \in Nat /\ k = h + 1 - e /\ k + 1 <= kRingCap /\ (e = 1 => h + 2 > kRingCap)
        /\ Len(ring') = k + 1
        /\ ring'[k + 1] = [core |-> Fired, cursor |-> cursor]
        /\ \A i \in 1 .. k : /\ i + e \in 1 .. h + 1
                            /\ ring'[i] = ring[i + e] /\ mem_at'[i] = mem_at[i + e]
  BY PassRing
<1>2. Seen = MomentOf(h + 1)
  BY SeenIsCurrent
<1>3. (Seen = MomentOf(history_index + 1))'
  BY SeenIsCurrent, PTL
<1>4. Past' = [i \in 1 .. k + 1 |-> M2(i)]
  BY <1>1 DEF Past, MomentOf
<1>5. \A i \in 1 .. k : M2(i) = MomentOf(i + e)
  BY <1>1 DEF MomentOf
<1>6. now2 = M2(k + 1)
  BY <1>3 DEF MomentOf
<1>7. Past \in Seq(S) /\ Len(Past) = Len(ring) /\ \A i \in 1 .. Len(ring) : Past[i] = MomentOf(i)
  <2>1. Past = [i \in 1 .. Len(ring) |-> MomentOf(i)]
    BY DEF Past
  <2>2. \A i \in 1 .. Len(ring) : MomentOf(i) \in S
    OBVIOUS
  <2> HIDE DEF S
  <2> QED BY <1>0, <2>1, <2>2
<1>8. /\ new \in Seq(S)
      /\ h + 2 > kRingCap => /\ Len(new) = h + 1 /\ new[h + 1] = now2
                             /\ \A i \in 1 .. h : new[i] = Past[i + 1]
      /\ ~ (h + 2 > kRingCap) => /\ Len(new) = h + 2 /\ new[h + 2] = now2
                                 /\ \A i \in 1 .. h + 1 : new[i] = Past[i]
  <2>1. Past \in Seq(S) /\ now2 \in S /\ h \in Nat /\ h + 1 <= Len(Past)
    BY <1>0, <1>7
  <2> HIDE DEF S, h, now2
  <2>2. new \in Seq(S)
    BY ONLY <2>1, PushedShape
  <2>3. h + 2 > kRingCap => /\ Len(new) = h + 1 /\ new[h + 1] = now2
                            /\ \A i \in 1 .. h : new[i] = Past[i + 1]
    BY ONLY <2>1, PushedShape
  <2>4. ~ (h + 2 > kRingCap) => /\ Len(new) = h + 2 /\ new[h + 2] = now2
                                /\ \A i \in 1 .. h + 1 : new[i] = Past[i]
    BY ONLY <2>1, PushedShape
  <2> QED BY <2>2, <2>3, <2>4
<1>9. Past' = new
  <2> DEFINE past2 == Past'
             M(i) == MomentOf(i)
  <2>0. /\ past2 = [i \in 1 .. k + 1 |-> M2(i)] /\ now2 = M2(k + 1)
        /\ \A i \in 1 .. k : M2(i) = M(i + e)
    BY <1>4, <1>5, <1>6
  <2>1. \A i \in 1 .. h + 1 : Past[i] = M(i)
    BY <1>0, <1>7
  <2>2. k \in Nat /\ k = h + 1 - e /\ k + 1 <= kRingCap /\ (e = 1 => h + 2 > kRingCap)
    BY <1>1
  <2>3. h \in Nat /\ kRingCap \in Nat
    BY <1>0
  <2> HIDE DEF k, h, S, new, now2, past2, M, M2
  <2>4. Len(new) = k + 1 /\ \A i \in 1 .. k + 1 : new[i] = M2(i)
    <3>1. CASE e = 0
      BY <3>1, <1>8, <2>0, <2>1, <2>2, <2>3
    <3>2. CASE e = 1
      BY <3>2, <1>8, <2>0, <2>1, <2>2, <2>3
    <3> QED BY <3>1, <3>2
  <2>5. past2 = new
    BY <1>8, <2>0, <2>2, <2>4
  <2> QED BY <2>5 DEF past2
<1>10. new = TT!Newest(Append(SubSeq(Past, 1, h + 1), now2))
  BY DEF PushedAt, TT!Newest
<1>11. (history_index + 1)' = Len(Past')
  BY <1>1, <1>4
<1>12. Seen'.cycle_count = Seen.cycle_count + 1
  <2>1. Seen.cycle_count = ring[h + 1].core.cycle_count
    BY <1>2 DEF MomentOf, Moment
  <2>2. Seen'.cycle_count = Fired.cycle_count
    <3>1. Seen'.cycle_count = ring'[k + 1].core.cycle_count
      BY <1>6 DEF Moment
    <3> QED BY <1>1, <3>1
  <2>3. ~ InBack /\ TypeOK /\ EveryCycle
    BY DebugPassCases DEF DHPass, DInv, DTypeOK, StaysOrReturns, RunsFromPrompt
  <2>4. state.cycle_count = ring[h + 1].core.cycle_count
    BY <2>3 DEF DInv, CurrentSnapshot, At
  <2> QED BY <2>1, <2>2, <2>3, <2>4, EveryPassSnaps
<1> QED
  BY <1>9, <1>10, <1>11, <1>12 DEF TT!Advance

(* The end of `back` jumps to the target, which is strictly in the past.   *)
LEMMA BackRewinds ==
    ASSUME DInv, DInv', FinishBack, mem_at' = mem_at
    PROVE  \E n \in 1 .. Len(Past) : TT!Rewind(n)
<1> DEFINE n == history_index - rewind.to
<1>1. InBack /\ history_index' = rewind.to /\ ring' = ring
  BY DEF FinishBack, RestoreTo
<1>2. /\ rewind.to \in Nat /\ rewind.to < history_index /\ history_index \in Nat
      /\ history_index + 1 <= Len(ring) /\ Len(ring) \in Nat
  BY <1>1, LoopFacts
<1>3. Past' = Past /\ Len(Past) = Len(ring)
  BY <1>1, <1>2 DEF Past, MomentOf
<1>4. (Seen = MomentOf(history_index + 1))'
  BY SeenIsCurrent, PTL
<1>5. Seen' = MomentOf(rewind.to + 1)
  BY <1>1, <1>4 DEF MomentOf
<1>6. Past[rewind.to + 1] = MomentOf(rewind.to + 1)
  BY <1>2 DEF Past
<1>7. /\ n \in 1 .. Len(Past) /\ n < history_index + 1
      /\ (history_index + 1) - n = rewind.to + 1
  BY <1>2, <1>3
<1>8. TT!Rewind(n)
  BY <1>1, <1>3, <1>5, <1>6, <1>7 DEF TT!Rewind
<1> QED
  BY <1>7, <1>8

(* The debugger implements the abstract time-travel machine: whatever the  *)
(* user types, each pass adds one moment to a bounded past, `back` shows   *)
(* an older moment exactly as it was, byte for byte and frame for frame,   *)
(* and no other step is visible (install_debug_sink, the `back` handler).  *)
THEOREM DebuggerImplementsTimeTravel == DHSpec => ImplementsTimeTravel
<1>1. DInv /\ DInv' /\ [DHNext]_dhvars => [TT!Next]_(TT!ttvars)
  <2> SUFFICES ASSUME DInv, DInv', [DHNext]_dhvars
               PROVE  TT!Next \/ UNCHANGED TT!ttvars
    OBVIOUS
  <2>1. CASE DHPass
    BY <2>1, PassAdvances DEF TT!Next
  <2>2. CASE DHBack
    <3>1. CASE FinishBack
      BY <2>2, <3>1, BackRewinds DEF DHBack, TT!Next
    <3>2. CASE UndoOne \/ UndoNext
      BY <2>2, <3>2, Unseen DEF DHBack, UndoOne, UndoNext
    <3> QED BY <2>2, <3>1, <3>2 DEF DHBack, BackLoop
  <2>3. CASE DHStep
    BY <2>3, Unseen DEF DHStep, step, Resume
  <2>4. CASE DHCommand
    BY <2>4, Unseen DEF DHCommand, Command, continue, Resume, back, breakpoint, breakpoint_d,
       SetBreakpoints, save, quit
  <2>5. CASE UNCHANGED dhvars
    BY <2>5, Unseen DEF dhvars, dvars, debugVars, hist
  <2> QED BY <2>1, <2>2, <2>3, <2>4, <2>5 DEF DHNext
<1> QED
  BY <1>1, TravelInit, DebuggerInvariant, PTL DEF DHSpec, ImplementsTimeTravel, TT!Spec

=============================================================================
