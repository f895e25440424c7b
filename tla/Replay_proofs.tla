---------------------------- MODULE Replay_proofs ----------------------------
(***************************************************************************)
(* Proofs about record, replay, save and restore, for every machine, every *)
(* set of programs, every input and every crash.                           *)
(*                                                                         *)
(* A pass is a function of the CPU state, the memory and, for IN and RAND, *)
(* of the word it reads (Exec).  The inductive invariant says that the     *)
(* recorded run is a chain of such passes whose words are those of its     *)
(* trace, that the .trace file holds frames of that trace or zeros, and    *)
(* that a replay or a save of the same program is somewhere on that chain, *)
(* with its cursor behind exactly the frames of the cycles it has passed.  *)
(***************************************************************************)
EXTENDS ReplayHistory, EngineLemmas, FiniteSetTheorems

-----------------------------------------------------------------------------
(* The inductive invariant.                                                *)

(* run is a chain of passes from the power-on of program p on; a pass at   *)
(* an IN or a RAND took the word of the frame of its cycle, which is among *)
(* the first n of trace.                                                   *)
Execution(p, trace, n, run) ==
    /\ run \in Seq(Point) /\ Len(run) >= 1
    /\ run[1] = Booted(p)
    /\ \A i \in 1 .. Len(run) : run[i].st.cycle_count = i - 1
    /\ \A i \in 1 .. Len(run) - 1 : ~ Reads(run[i]) => run[i + 1] = Exec(run[i], 0)
    /\ \A i \in 1 .. Len(run) - 1 : Reads(run[i]) =>
          \E j \in 1 .. n : /\ trace[j].cycle = i
                            /\ trace[j].opcode = Op(run[i])
                            /\ run[i + 1] = Exec(run[i], trace[j].value)
    /\ \A i \in 1 .. Len(run) - 2 : Stays(run[i])

(* Each of the first n frames is of a pass of run, and their cycles        *)
(* increase.                                                               *)
Stamped(trace, n, run) ==
    /\ \A j \in 1 .. n : /\ trace[j] \in TraceFrame
                         /\ trace[j].cycle \in 1 .. Len(run) - 1
                         /\ trace[j].opcode = Op(run[trace[j].cycle])
    /\ \A j, k \in 1 .. n : j < k => trace[j].cycle < trace[k].cycle

(* The run read exactly the first n frames.                                *)
Chain(p, trace, n, run) == Execution(p, trace, n, run) /\ Stamped(trace, n, run)

CodeAt(e) == IF e.st.halted = HALT_NORMAL THEN 0 ELSE 2

(* A run that came to its end.                                             *)
Complete(r) ==
    /\ r.trace \in Seq(TraceFrame)
    /\ Chain(r.bin, r.trace, Len(r.trace), r.path)
    /\ Len(r.path) >= 2 /\ ~ Stays(r.path[Len(r.path) - 1])
    /\ r.code = CodeAt(r.path[Len(r.path)])

RecordedOK == recorded = Nobody \/ Complete(recorded)

(* A recording in progress, or on its way to flush_to_file.                *)
RecordingOK ==
    cmd = "record" /\ phase \in {"run", "open"} =>
        /\ Chain(bin, frames, Len(frames), steps)
        /\ Here = steps[Len(steps)]
        /\ running <=> Len(steps) = 1 \/ Stays(steps[Len(steps) - 1])

(* Where a frame should be the file has it, or the zeros of ftruncate.     *)
Torn(file, trace) ==
    /\ Len(file) = Len(trace)
    /\ \A j \in 1 .. Len(trace) : file[j] \in {trace[j], ZeroFrame}

FileOK ==
    /\ Readable => recorded # Nobody /\ Torn(trace_file.frames, recorded.trace)
    /\ phase \in {"size", "header", "frames"} => recorded # Nobody /\ recorded.trace = frames
    /\ phase \in {"header", "frames"} => Torn(trace_file.frames, recorded.trace)
    /\ phase \in {"open", "size", "header", "frames"} => cmd = "record" /\ ~ running

(* What the commands know of themselves.                                   *)
ProcessOK ==
    /\ running => state.halted = HALT_RUNNING /\ phase = "run"
    /\ phase = "run" => cmd # "none" /\ bin \in Programs
    /\ phase = "run" /\ cmd # "record" => Readable
    /\ phase = "run" /\ cmd = "save" => InTrace(at_frame)
    /\ cmd = "replay" /\ Exited /\ exit_code \in {0, 2} => ~ running

(* A replay, or a save that has not stopped, of the recorded program.      *)
Following ==
    /\ bin = recorded.bin
    /\ \/ cmd = "replay" /\ (phase = "run" \/ (Exited /\ exit_code \in {0, 2}))
       \/ cmd = "save" /\ phase = "run" /\ running

(* It is on the recorded chain, its cursor in front of the first frame of  *)
(* a later cycle, and it runs as long as the recording has passes left.    *)
OnPath ==
    Following =>
        /\ recorded # Nobody
        /\ state.cycle_count + 1 \in 1 .. Len(recorded.path)
        /\ Here = recorded.path[state.cycle_count + 1]
        /\ cursor \in 0 .. Len(recorded.trace)
        /\ \A j \in 1 .. cursor : recorded.trace[j].cycle <= state.cycle_count
        /\ \A j \in cursor + 1 .. Len(recorded.trace) :
              recorded.trace[j].cycle > state.cycle_count
        /\ running <=> state.cycle_count + 1 < Len(recorded.path)

(* A save that stopped at a checkpoint.                                    *)
SaveOK ==
    /\ cmd = "save"
    /\ \/ phase = "run" /\ ~ running /\ state.halted = HALT_CHECKPOINT
       \/ Exited /\ exit_code = 0
    => /\ state_file # NoFile /\ state_file.frame_index = at_frame
       /\ bin = recorded.bin =>
             decode_op(mem_load_u32(mem, state_file.pc)) = frame_at(at_frame).opcode

(* A save that has not stopped is a run that read the frames in front of   *)
(* its cursor.                                                             *)
SavingOK ==
    cmd = "save" /\ phase = "run" /\ running =>
        /\ cursor <= frame_count
        /\ Chain(bin, trace_file.frames, cursor, steps)
        /\ Here = steps[Len(steps)]
        /\ Len(steps) = 1 \/ Stays(steps[Len(steps) - 1])
        /\ bin = recorded.bin => \A i \in 1 .. Len(steps) :
               i \in 1 .. Len(recorded.path) /\ steps[i] = recorded.path[i]

(* The .state file is the last point of the run it was saved from, and the *)
(* frame it names is that of the pass in front of which it was saved.      *)
SourceOK ==
    state_file # NoFile =>
        LET k == state_file.frame_index
            e == source.path[Len(source.path)].st
        IN  /\ k + 1 \in 1 .. Len(source.trace)
            /\ source.trace[k + 1].cycle = Len(source.path)
            /\ Chain(source.bin, source.trace, k, source.path)
            /\ e.halted = HALT_RUNNING
            /\ e.regs = state_file.regs /\ e.pc = state_file.pc
            /\ e.sp = state_file.sp /\ e.flags = state_file.flags

(* A recording that repeats the trace of the save repeats its run ...      *)
RepeatsOK ==
    /\ state_file # NoFile
    /\ cmd = "record" /\ phase \in {"run", "open"} /\ bin = source.bin
    /\ \A j \in 1 .. Len(frames) : j \in 1 .. Len(source.trace) /\ frames[j] = source.trace[j]
    => \A i \in 1 .. Len(steps) :
          i \in 1 .. Len(source.path) => steps[i] = source.path[i]

(* ... and so the recorded run goes through the run of the save.           *)
ResumedOK ==
    /\ state_file # NoFile /\ recorded # Nobody
    /\ source.bin = recorded.bin /\ source.trace = recorded.trace
    => \A i \in 1 .. Len(source.path) :
          i \in 1 .. Len(recorded.path) /\ recorded.path[i] = source.path[i]

ReplayInv ==
    /\ RTypeOK
    /\ RecordedOK /\ RecordingOK /\ FileOK /\ ProcessOK /\ OnPath
    /\ SaveOK /\ IntactReplays
    /\ SavingOK /\ SourceOK /\ RepeatsOK /\ ResumedOK

-----------------------------------------------------------------------------
(* Chains of passes.                                                       *)

(* A pass that reads nothing prolongs a chain.                             *)
LEMMA ChainPlain ==
    ASSUME NEW p, NEW trace, NEW n \in Nat, NEW run, NEW e \in Point,
           Chain(p, trace, n, run),
           Len(run) = 1 \/ Stays(run[Len(run) - 1]),
           ~ Reads(run[Len(run)]), e = Exec(run[Len(run)], 0)
    PROVE  Chain(p, trace, n, Append(run, e))
<1> DEFINE l == Len(run)
           r == Append(run, e)
<1>1. run \in Seq(Point) /\ l \in Nat /\ l >= 1
  BY DEF Chain, Execution
<1>2. /\ r \in Seq(Point) /\ Len(r) = l + 1 /\ r[l + 1] = e
      /\ \A i \in 1 .. l : r[i] = run[i]
  BY <1>1, Appended
<1>3. e.st.cycle_count = l
  BY <1>1 DEF Exec, Chain, Execution
<1> HIDE DEF r
<1>4. r[1] = Booted(p)
  BY <1>1, <1>2 DEF Chain, Execution
<1>5. \A i \in 1 .. l + 1 : r[i].st.cycle_count = i - 1
  <2>1. \A i \in 1 .. l : run[i].st.cycle_count = i - 1
    BY DEF Chain, Execution
  <2>2. \A i \in 1 .. l + 1 : i = l + 1 \/ i \in 1 .. l
    BY <1>1
  <2> QED BY <2>1, <2>2, <1>1, <1>2, <1>3
<1>6. \A i \in 1 .. l : ~ Reads(r[i]) => r[i + 1] = Exec(r[i], 0)
  <2> TAKE i \in 1 .. l
  <2>1. CASE i = l
    BY <2>1, <1>1, <1>2
  <2>2. CASE i \in 1 .. l - 1
    <3>1. r[i] = run[i] /\ r[i + 1] = run[i + 1]
      BY <2>2, <1>1, <1>2
    <3> QED BY <2>2, <3>1 DEF Chain, Execution
  <2> QED BY <2>1, <2>2, <1>1
<1>7. \A i \in 1 .. l : Reads(r[i]) =>
          \E j \in 1 .. n : /\ trace[j].cycle = i
                            /\ trace[j].opcode = Op(r[i])
                            /\ r[i + 1] = Exec(r[i], trace[j].value)
  <2> TAKE i \in 1 .. l
  <2>1. CASE i = l
    BY <2>1, <1>1, <1>2
  <2>2. CASE i \in 1 .. l - 1
    <3>1. r[i] = run[i] /\ r[i + 1] = run[i + 1]
      BY <2>2, <1>1, <1>2
    <3> QED BY <2>2, <3>1 DEF Chain, Execution
  <2> QED BY <2>1, <2>2, <1>1
<1>8. \A i \in 1 .. l - 1 : Stays(r[i])
  <2> TAKE i \in 1 .. l - 1
  <2>1. r[i] = run[i]
    BY <1>1, <1>2
  <2>2. i = l - 1 \/ i \in 1 .. l - 2
    BY <1>1
  <2> QED BY <1>1, <2>1, <2>2 DEF Chain, Execution
<1>9. Stamped(trace, n, r)
  <2> SUFFICES ASSUME NEW j \in 1 .. n
               PROVE  /\ trace[j] \in TraceFrame
                      /\ trace[j].cycle \in 1 .. Len(r) - 1
                      /\ trace[j].opcode = Op(r[trace[j].cycle])
    BY DEF Chain, Stamped
  <2>1. /\ trace[j] \in TraceFrame /\ trace[j].cycle \in 1 .. l - 1
        /\ trace[j].opcode = Op(run[trace[j].cycle])
    BY DEF Chain, Stamped
  <2> QED BY <2>1, <1>1, <1>2
<1>10. Execution(p, trace, n, r)
  BY <1>1, <1>2, <1>4, <1>5, <1>6, <1>7, <1>8 DEF Execution
<1> QED
  BY <1>9, <1>10 DEF Chain, r

(* A pass that reads the word of the next frame prolongs it by both; more  *)
(* may be known of the trace than before.                                  *)
LEMMA ChainReads ==
    ASSUME NEW p, NEW trace, NEW t2, NEW n \in Nat, NEW run, NEW e \in Point,
           Chain(p, trace, n, run),
           Len(run) = 1 \/ Stays(run[Len(run) - 1]),
           \A j \in 1 .. n : t2[j] = trace[j],
           t2[n + 1] \in TraceFrame, t2[n + 1].cycle = Len(run),
           t2[n + 1].opcode = Op(run[Len(run)]),
           Reads(run[Len(run)]), e = Exec(run[Len(run)], t2[n + 1].value)
    PROVE  Chain(p, t2, n + 1, Append(run, e))
<1> DEFINE l == Len(run)
           r == Append(run, e)
<1>1. run \in Seq(Point) /\ l \in Nat /\ l >= 1
  BY DEF Chain, Execution
<1>2. /\ r \in Seq(Point) /\ Len(r) = l + 1 /\ r[l + 1] = e
      /\ \A i \in 1 .. l : r[i] = run[i]
  BY <1>1, Appended
<1>3. e.st.cycle_count = l
  BY <1>1 DEF Exec, Chain, Execution
<1> HIDE DEF r
<1>4. r[1] = Booted(p)
  BY <1>1, <1>2 DEF Chain, Execution
<1>5. \A i \in 1 .. l + 1 : r[i].st.cycle_count = i - 1
  <2>1. \A i \in 1 .. l : run[i].st.cycle_count = i - 1
    BY DEF Chain, Execution
  <2>2. \A i \in 1 .. l + 1 : i = l + 1 \/ i \in 1 .. l
    BY <1>1
  <2> QED BY <2>1, <2>2, <1>1, <1>2, <1>3
<1>6. \A i \in 1 .. l : ~ Reads(r[i]) => r[i + 1] = Exec(r[i], 0)
  <2> TAKE i \in 1 .. l
  <2>1. CASE i = l
    BY <2>1, <1>1, <1>2
  <2>2. CASE i \in 1 .. l - 1
    <3>1. r[i] = run[i] /\ r[i + 1] = run[i + 1]
      BY <2>2, <1>1, <1>2
    <3> QED BY <2>2, <3>1 DEF Chain, Execution
  <2> QED BY <2>1, <2>2, <1>1
<1>7. \A i \in 1 .. l : Reads(r[i]) =>
          \E j \in 1 .. n + 1 : /\ t2[j].cycle = i
                                /\ t2[j].opcode = Op(r[i])
                                /\ r[i + 1] = Exec(r[i], t2[j].value)
  <2> TAKE i \in 1 .. l
  <2>1. CASE i = l
    BY <2>1, <1>1, <1>2
  <2>2. CASE i \in 1 .. l - 1
    <3>1. r[i] = run[i] /\ r[i + 1] = run[i + 1]
      BY <2>2, <1>1, <1>2
    <3>2. Reads(run[i]) =>
            \E j \in 1 .. n : /\ trace[j].cycle = i
                              /\ trace[j].opcode = Op(run[i])
                              /\ run[i + 1] = Exec(run[i], trace[j].value)
      BY <2>2 DEF Chain, Execution
    <3> QED BY <3>1, <3>2
  <2> QED BY <2>1, <2>2, <1>1
<1>8. \A i \in 1 .. l - 1 : Stays(r[i])
  <2> TAKE i \in 1 .. l - 1
  <2>1. r[i] = run[i]
    BY <1>1, <1>2
  <2>2. i = l - 1 \/ i \in 1 .. l - 2
    BY <1>1
  <2> QED BY <1>1, <2>1, <2>2 DEF Chain, Execution
<1>9. ASSUME NEW j \in 1 .. n + 1
      PROVE  /\ t2[j] \in TraceFrame /\ t2[j].cycle \in 1 .. Len(r) - 1
             /\ t2[j].opcode = Op(r[t2[j].cycle])
  <2>1. CASE j = n + 1
    BY <2>1, <1>1, <1>2
  <2>2. CASE j \in 1 .. n
    <3>1. /\ trace[j] \in TraceFrame /\ trace[j].cycle \in 1 .. l - 1
          /\ trace[j].opcode = Op(run[trace[j].cycle]) /\ t2[j] = trace[j]
      BY <2>2 DEF Chain, Stamped
    <3> QED BY <3>1, <1>1, <1>2
  <2> QED BY <2>1, <2>2
<1>10. ASSUME NEW j \in 1 .. n + 1, NEW k \in 1 .. n + 1, j < k
       PROVE  t2[j].cycle < t2[k].cycle
  <2>1. j \in 1 .. n /\ t2[j] = trace[j] /\ trace[j].cycle \in 1 .. l - 1
    BY <1>10 DEF Chain, Stamped
  <2>2. CASE k = n + 1
    BY <2>1, <2>2, <1>1
  <2>3. CASE k \in 1 .. n
    BY <2>1, <2>3, <1>10 DEF Chain, Stamped
  <2> QED BY <2>2, <2>3
<1>11. Execution(p, t2, n + 1, r)
  BY <1>1, <1>2, <1>4, <1>5, <1>6, <1>7, <1>8 DEF Execution
<1>12. Stamped(t2, n + 1, r)
  BY <1>9, <1>10 DEF Stamped
<1> QED
  BY <1>11, <1>12 DEF Chain, r

(* The next pass of a recorded run, seen from one that is at its cycle c   *)
(* with the frames of later cycles behind its cursor k.                    *)
LEMMA NextOnPath ==
    ASSUME NEW r, Complete(r), NEW c \in Nat, c + 1 < Len(r.path),
           NEW k \in 0 .. Len(r.trace),
           \A j \in 1 .. k : r.trace[j].cycle <= c,
           \A j \in k + 1 .. Len(r.trace) : r.trace[j].cycle > c
    PROVE  /\ ~ Reads(r.path[c + 1]) =>
                 /\ r.path[c + 2] = Exec(r.path[c + 1], 0)
                 /\ \A j \in k + 1 .. Len(r.trace) : r.trace[j].cycle > c + 1
           /\ Reads(r.path[c + 1]) =>
                 /\ k + 1 \in 1 .. Len(r.trace)
                 /\ r.trace[k + 1].cycle = c + 1
                 /\ r.trace[k + 1].opcode = Op(r.path[c + 1])
                 /\ r.path[c + 2] = Exec(r.path[c + 1], r.trace[k + 1].value)
                 /\ \A j \in k + 2 .. Len(r.trace) : r.trace[j].cycle > c + 1
           /\ Stays(r.path[c + 1]) <=> c + 2 < Len(r.path)
<1> DEFINE t == r.trace
           n == Len(r.trace)
           q == r.path
           l == Len(r.path)
<1>1. /\ n \in Nat /\ l \in Nat /\ l >= 2 /\ c + 1 \in 1 .. l - 1
      /\ Execution(r.bin, t, n, q) /\ Stamped(t, n, q) /\ ~ Stays(q[l - 1])
  BY DEF Complete, Chain, Execution
<1>2. \A j \in 1 .. n : /\ t[j].cycle \in Nat /\ t[j].cycle \in 1 .. l - 1
                       /\ t[j].opcode \in {OP_IN, OP_RAND}
                       /\ t[j].opcode = Op(q[t[j].cycle])
  BY <1>1 DEF Stamped, TraceFrame
<1>3. \A i, j \in 1 .. n : i < j => t[i].cycle < t[j].cycle
  BY <1>1 DEF Stamped
<1>4. /\ \A i \in 1 .. l - 1 : ~ Reads(q[i]) => q[i + 1] = Exec(q[i], 0)
      /\ \A i \in 1 .. l - 1 : Reads(q[i]) =>
            \E j \in 1 .. n : /\ t[j].cycle = i
                              /\ t[j].opcode = Op(q[i])
                              /\ q[i + 1] = Exec(q[i], t[j].value)
      /\ \A i \in 1 .. l - 2 : Stays(q[i])
  BY <1>1 DEF Execution
<1>5. /\ \A j \in 1 .. k : t[j].cycle <= c
      /\ \A j \in k + 1 .. n : t[j].cycle > c
      /\ k \in 0 .. n
  OBVIOUS
<1>6. \A j \in 1 .. n : t[j].cycle = c + 1 => Reads(q[c + 1])
  BY <1>2 DEF Reads
<1> HIDE DEF t, n, q, l
<1>7. ASSUME ~ Reads(q[c + 1])
      PROVE  q[c + 2] = Exec(q[c + 1], 0) /\ \A j \in k + 1 .. n : t[j].cycle > c + 1
  <2>1. (c + 1) + 1 = c + 2
    OBVIOUS
  <2>2. q[c + 2] = Exec(q[c + 1], 0)
    BY <1>7, <1>1, <1>4, <2>1
  <2>3. ASSUME NEW j \in k + 1 .. n PROVE t[j].cycle > c + 1
    <3>1. j \in 1 .. n
      BY <1>1, <1>5
    <3> QED BY <3>1, <1>2, <1>5, <1>6, <1>7
  <2> QED BY <2>2, <2>3
<1>8. ASSUME Reads(q[c + 1])
      PROVE  /\ k + 1 \in 1 .. n
             /\ t[k + 1].cycle = c + 1
             /\ t[k + 1].opcode = Op(q[c + 1])
             /\ q[c + 2] = Exec(q[c + 1], t[k + 1].value)
             /\ \A j \in k + 2 .. n : t[j].cycle > c + 1
  <2>1. PICK i \in 1 .. n : /\ t[i].cycle = c + 1
                            /\ t[i].opcode = Op(q[c + 1])
                            /\ q[(c + 1) + 1] = Exec(q[c + 1], t[i].value)
    BY <1>8, <1>1, <1>4
  <2>2. i \in k + 1 .. n
    <3>1. i \notin 1 .. k
      BY <2>1, <1>5
    <3> QED BY <3>1, <1>1, <1>5
  <2>3. k + 1 \in 1 .. n /\ k + 1 \in k + 1 .. n
    BY <2>2, <1>1, <1>5
  <2>4. i = k + 1
    <3>1. CASE k + 1 < i
      <4>1. t[k + 1].cycle < t[i].cycle /\ t[k + 1].cycle > c /\ t[k + 1].cycle \in Nat
        BY <3>1, <2>3, <1>2, <1>3, <1>5
      <4> QED BY <4>1, <2>1
    <3> QED BY <3>1, <2>2, <1>1
  <2>5. ASSUME NEW j \in k + 2 .. n PROVE t[j].cycle > c + 1
    <3>1. j \in 1 .. n /\ k + 1 < j
      BY <1>1, <1>5
    <3>2. t[k + 1].cycle < t[j].cycle /\ t[j].cycle \in Nat
      BY <3>1, <2>3, <1>2, <1>3
    <3> QED BY <3>2, <2>1, <2>4
  <2>6. (c + 1) + 1 = c + 2
    OBVIOUS
  <2> QED BY <2>1, <2>3, <2>4, <2>5, <2>6
<1>9. Stays(q[c + 1]) <=> c + 2 < l
  <2>1. c + 1 = l - 1 \/ c + 1 \in 1 .. l - 2
    BY <1>1
  <2>2. CASE c + 1 = l - 1
    BY <2>2, <1>1
  <2>3. CASE c + 1 \in 1 .. l - 2
    BY <2>3, <1>1, <1>4
  <2> QED BY <2>1, <2>2, <2>3
<1> QED
  BY <1>7, <1>8, <1>9 DEF t, n, q, l

(* Two chains of one program that read the same frames stay together: r1   *)
(* read the first n1 of t1 and stands in front of the next, and the frames *)
(* r2 read are a prefix of t1.                                             *)
LEMMA SameChain ==
    ASSUME NEW p, NEW t1, NEW n1 \in Nat, NEW r1, Chain(p, t1, n1, r1),
           NEW t2, NEW n2 \in Nat, NEW r2, Chain(p, t2, n2, r2),
           t1[n1 + 1].cycle = Len(r1), Len(r2) <= Len(r1),
           \A j \in 1 .. n2 : t2[j] = t1[j],
           \A i \in 1 .. Len(r2) - 1 : r2[i] = r1[i]
    PROVE  r2[Len(r2)] = r1[Len(r2)]
<1> DEFINE l == Len(r2)
           m == Len(r1)
<1>1. l \in Nat /\ l >= 1 /\ m \in Nat /\ m >= 1 /\ l <= m
      /\ r1[1] = Booted(p) /\ r2[1] = Booted(p)
  BY DEF Chain, Execution
<1> HIDE DEF l, m
<1>2. CASE l = 1
  BY <1>1, <1>2 DEF l
<1>3. CASE l # 1
  <2> DEFINE i == l - 1
  <2>0. i \in 1 .. l - 1 /\ i \in 1 .. m - 1 /\ i + 1 = l /\ i < m /\ i \in Nat
    BY <1>1, <1>3
  <2> HIDE DEF i
  <2>1. r2[i] = r1[i]
    BY <2>0 DEF l
  <2>2. CASE ~ Reads(r2[i])
    <3>1. r2[i + 1] = Exec(r2[i], 0)
      BY <2>0, <2>2 DEF Chain, Execution, l
    <3>2. r1[i + 1] = Exec(r1[i], 0)
      BY <2>0, <2>1, <2>2 DEF Chain, Execution, m
    <3> QED BY <2>0, <2>1, <3>1, <3>2 DEF l
  <2>3. CASE Reads(r2[i])
    <3>1. PICK j \in 1 .. n2 : t2[j].cycle = i /\ r2[i + 1] = Exec(r2[i], t2[j].value)
      BY <2>0, <2>3 DEF Chain, Execution, l
    <3>2. PICK k \in 1 .. n1 : t1[k].cycle = i /\ r1[i + 1] = Exec(r1[i], t1[k].value)
      BY <2>0, <2>1, <2>3 DEF Chain, Execution, m
    <3>3. t2[j] = t1[j]
      OBVIOUS
    <3>4. j \in 1 .. n1
      <4>1. CASE j = n1 + 1
        BY <4>1, <3>1, <3>3, <2>0 DEF m
      <4>2. CASE j > n1 + 1
        <5>1. n1 + 1 \in 1 .. n2 /\ n1 + 1 < j
          BY <4>2
        <5>2. t2[n1 + 1].cycle < t2[j].cycle
          BY <5>1 DEF Chain, Stamped
        <5>3. t2[n1 + 1] = t1[n1 + 1]
          BY <5>1
        <5>4. m < i
          BY <5>2, <5>3, <3>1 DEF m
        <5> QED BY <5>4, <2>0, <1>1
      <4> QED BY <4>1, <4>2
    <3>5. j = k
      <4>1. \A x, y \in 1 .. n1 : x < y => t1[x].cycle < t1[y].cycle
        BY DEF Chain, Stamped
      <4>2. t1[j].cycle = i /\ t1[k].cycle = i /\ i \in Nat
        BY <3>1, <3>2, <3>3, <2>0
      <4>3. ASSUME j < k PROVE FALSE
        <5>1. t1[j].cycle < t1[k].cycle
          BY <4>1, <4>3, <3>4
        <5> QED BY <5>1, <4>2
      <4>4. ASSUME k < j PROVE FALSE
        <5>1. t1[k].cycle < t1[j].cycle
          BY <4>1, <4>4, <3>4
        <5> QED BY <5>1, <4>2
      <4> QED BY <4>3, <4>4, <3>4
    <3> QED BY <3>1, <3>2, <3>3, <3>5, <2>0, <2>1 DEF l
  <2> QED BY <2>2, <2>3
<1> QED
  BY <1>2, <1>3

-----------------------------------------------------------------------------
(* Types.                                                                  *)

(* A frame of the file is a frame or zeros; one with an opcode is a frame. *)
LEMMA FrameType ==
    ASSUME RTypeOK, NEW i \in Nat, InTrace(i)
    PROVE  /\ frame_at(i) \in TraceFrame \cup {ZeroFrame}
           /\ frame_at(i).cycle \in Nat
           /\ frame_at(i).opcode \in {OP_IN, OP_RAND} \/ frame_at(i).cycle # 0
                 => frame_at(i) \in TraceFrame
<1>1. frame_at(i) \in TraceFrame \cup {ZeroFrame}
  BY DEF RTypeOK, InTrace, frame_count, frame_at
<1> QED
  BY <1>1, Opcodes DEF TraceFrame, ZeroFrame

(* What cmd_restore starts from is a CPU state: the derived cycle_count    *)
(* does not wrap below zero.                                               *)
LEMMA RestoredType ==
    ASSUME RTypeOK, CanRestore
    PROVE  /\ state_file \in CheckpointState /\ state_file.frame_index \in Nat
           /\ Restored \in VMState /\ Restored.halted = HALT_RUNNING
<1>1. state_file \in CheckpointState /\ state_file.frame_index \in Nat
  BY DEF RTypeOK, CanRestore, CheckpointState
<1> DEFINE c == frame_at(state_file.frame_index).cycle - 1
<1>2. c \in Nat
  <2>1. frame_at(state_file.frame_index).cycle \in Nat
    BY <1>1, FrameType DEF CanRestore
  <2> QED BY <2>1 DEF CanRestore
<1>3. /\ state_file.regs \in [Reg -> Word] /\ state_file.pc \in Word
      /\ state_file.sp \in Word /\ state_file.flags \in 0 .. 7
  BY <1>1 DEF CheckpointState
<1>4. Restored = [PowerOn EXCEPT !.cycle_count = c, !.regs = state_file.regs,
                    !.pc = state_file.pc, !.sp = state_file.sp, !.flags = state_file.flags]
  BY DEF Restored
<1>5. PowerOn \in VMState /\ PowerOn.halted = HALT_RUNNING
  BY PowerOnType DEF PowerOn
<1> HIDE DEF c
<1> QED
  BY <1>1, <1>2, <1>3, <1>4, <1>5 DEF VMState

(* Starting a process.                                                     *)
LEMMA BootType ==
    ASSUME RTypeOK, NEW c \in Commands, NEW p \in Programs, NEW st \in VMState,
           NEW first \in Nat, NEW at \in Nat, Boot(c, p, st, first, at)
    PROVE  RTypeOK'
<1>1. load_program(ZeroMemory, p) \in Memory
  BY PowerOnType
<1>2. << >> \in Seq(MemDelta) /\ << >> \in Seq(TraceFrame)
  OBVIOUS
<1>3. TypeOK'
  <2>1. state' \in VMState /\ mem' \in Memory /\ deltas' \in Seq(MemDelta)
    BY <1>1, <1>2 DEF Boot
  <2>2. snap_sink' \in BOOLEAN /\ dispatch_mode' \in DispatchModes /\ running' \in BOOLEAN
    BY DEF Boot, DispatchModes
  <2> QED BY <2>1, <2>2 DEF TypeOK
<1>4. frames' \in Seq(TraceFrame)
  BY <1>2 DEF Boot
<1> QED
  BY <1>3, <1>4, Zenon DEF Boot, RTypeOK, disk, Phases

(* A command that returns before it runs.                                  *)
LEMMA RefuseType ==
    ASSUME RTypeOK, NEW c \in Commands, NEW code \in {1, ABORTED}, Refuse(c, code)
    PROVE  RTypeOK'
<1>1. TypeOK'
  BY DEF Refuse, RTypeOK, TypeOK, vmVars
<1> QED
  BY <1>1 DEF Refuse, RTypeOK, disk

(* How a process starts, command by command.                               *)
LEMMA StartCases ==
    ASSUME RTypeOK, Start
    PROVE  \/ \E p \in Programs : Boot("record", p, PowerOn, 0, 0)
           \/ \E p \in Programs : Readable /\ Boot("replay", p, PowerOn, 0, 0)
           \/ \E p \in Programs, k \in AtFrames :
                /\ Readable /\ InTrace(k)
                /\ Boot("save", p, [PowerOn EXCEPT !.snap_interval = 1, !.snap_timer = 1], 0, k)
           \/ \E p \in Programs :
                CanRestore /\ Boot("restore", p, Restored, state_file.frame_index, 0)
           \/ ~ Readable /\ Refuse("replay", ABORTED)
           \/ \E code \in {1, ABORTED}, c \in {"save", "restore"} : Refuse(c, code)
BY DEF Start, cmd_record, cmd_replay, cmd_save, cmd_restore

(* Starting keeps the types.                                               *)
LEMMA StartType ==
    ASSUME RTypeOK, Start
    PROVE  RTypeOK'
<1>1. PowerOn \in VMState /\ [PowerOn EXCEPT !.snap_interval = 1, !.snap_timer = 1] \in VMState
  <2>1. PowerOn \in VMState /\ 1 \in Word
    BY PowerOnType, Sizes DEF Word
  <2> QED BY <2>1 DEF VMState
<1>2. /\ "record" \in Commands /\ "replay" \in Commands
      /\ "save" \in Commands /\ "restore" \in Commands
  BY DEF Commands
<1>3. AtFrames \subseteq Nat /\ 0 \in Nat
  BY RecordReplayAssumption
<1>4. CASE \E p \in Programs : Boot("record", p, PowerOn, 0, 0)
  BY <1>1, <1>2, <1>3, <1>4, BootType
<1>5. CASE \E p \in Programs : Readable /\ Boot("replay", p, PowerOn, 0, 0)
  BY <1>1, <1>2, <1>3, <1>5, BootType
<1>6. CASE \E p \in Programs, k \in AtFrames :
              /\ Readable /\ InTrace(k)
              /\ Boot("save", p, [PowerOn EXCEPT !.snap_interval = 1, !.snap_timer = 1], 0, k)
  BY <1>1, <1>2, <1>3, <1>6, BootType
<1>7. CASE \E p \in Programs :
              CanRestore /\ Boot("restore", p, Restored, state_file.frame_index, 0)
  BY <1>2, <1>3, <1>7, BootType, RestoredType
<1>8. CASE ~ Readable /\ Refuse("replay", ABORTED)
  BY <1>2, <1>8, RefuseType
<1>9. CASE \E code \in {1, ABORTED}, c \in {"save", "restore"} : Refuse(c, code)
  BY <1>2, <1>9, RefuseType
<1> QED
  BY <1>4, <1>5, <1>6, <1>7, <1>8, <1>9, StartCases

(* What the hooks of the commands do is a pass; what they put into frames  *)
(* and cursor has its type.                                                *)
LEMMA ExecutesType ==
    ASSUME RTypeOK, Executes
    PROVE  /\ AnyPass /\ TypeOK'
           /\ frames' \in Seq(TraceFrame) /\ cursor' \in Nat
           /\ phase' \in Phases /\ exit_code' \in {0, 1, 2, 3, ABORTED, KILLED}
<1>0. TypeOK /\ frames \in Seq(TraceFrame) /\ cursor \in Nat /\ phase \in Phases
      /\ exit_code \in {0, 1, 2, 3, ABORTED, KILLED} /\ "exited" \in Phases
  BY DEF RTypeOK, Phases
<1>1. CASE Deterministic /\ Goes /\ UNCHANGED << cursor, frames >>
  BY <1>0, <1>1, PassType DEF AnyPass, Goes
<1>2. ASSUME NEW op \in {OP_IN, OP_RAND}, RecordInput(op)
      PROVE  /\ AnyPass /\ TypeOK'
             /\ frames' \in Seq(TraceFrame) /\ cursor' \in Nat
             /\ phase' \in Phases /\ exit_code' \in {0, 1, 2, 3, ABORTED, KILLED}
  <2>1. PICK v \in Inputs : DoNondet(op, v) /\ append(op, v)
    BY <1>2 DEF RecordInput
  <2>2. v \in Word
    BY VMAssumption
  <2>3. Fetched.cycle_count \in Nat
    BY <1>0, TickedFields DEF VMState
  <2>4. frames' \in Seq(TraceFrame)
    BY <1>0, <2>1, <2>2, <2>3 DEF append, TraceFrame
  <2>5. AnyPass
    BY <2>1, <2>2 DEF AnyPass
  <2> QED BY <1>0, <1>2, <2>4, <2>5, PassType DEF RecordInput, Goes
<1>3. ASSUME NEW op \in {OP_IN, OP_RAND}, ConsumeInput(op)
      PROVE  /\ AnyPass /\ TypeOK'
             /\ frames' \in Seq(TraceFrame) /\ cursor' \in Nat
             /\ phase' \in Phases /\ exit_code' \in {0, 1, 2, 3, ABORTED, KILLED}
  <2>1. frame_at(cursor).value \in Word
    BY <1>0, <1>3, FrameType DEF ConsumeInput, Consumable, TraceFrame
  <2>2. AnyPass
    BY <1>3, <2>1 DEF AnyPass, ConsumeInput
  <2> QED BY <1>0, <1>3, <2>2, PassType DEF ConsumeInput, Goes
<1>4. ASSUME NEW op \in {OP_IN, OP_RAND}, Divergence(op)
      PROVE  /\ AnyPass /\ TypeOK'
             /\ frames' \in Seq(TraceFrame) /\ cursor' \in Nat
             /\ phase' \in Phases /\ exit_code' \in {0, 1, 2, 3, ABORTED, KILLED}
  <2>1. AnyPass
    BY <1>4 DEF AnyPass, Divergence
  <2> QED BY <1>0, <1>4, <2>1, PassType DEF Divergence, Exit
<1> QED
  BY <1>1, <1>2, <1>3, <1>4 DEF Executes

(* The checkpoint has its type.                                            *)
LEMMA CheckpointType ==
    ASSUME RTypeOK
    PROVE  Checkpoint \in CheckpointState
<1>1. state \in VMState /\ at_frame \in Nat /\ Fetched \in VMState
  BY PassTypes DEF RTypeOK, TypeOK
<1>2. Fetched.pc - 4 \in Int
  BY <1>1, Sizes DEF VMState, Word
<1>3. (Fetched.pc - 4) % WORD_MOD \in Word
  BY <1>2, WordWrap
<1>4. /\ state.flags \in 0 .. 7 /\ state.regs \in [Reg -> Word] /\ state.sp \in Word
      /\ HALT_CHECKPOINT \in HaltReason
  BY <1>1 DEF VMState, HALT_CHECKPOINT, HaltReason
<1> QED
  BY <1>1, <1>3, <1>4 DEF Checkpoint, CheckpointState

(* The engine under a command keeps the types.                             *)
LEMMA RunType ==
    ASSUME RTypeOK, RunStep
    PROVE  RTypeOK'
<1>1. CASE SaveStop
  <2>1. SnapReturn(HALT_CHECKPOINT) /\ HALT_CHECKPOINT \in HaltReason
    BY <1>1 DEF SaveStop, SoftHalt, HALT_CHECKPOINT, HaltReason
  <2>2. TypeOK'
    BY <2>1, PassType DEF AnyPass, RTypeOK
  <2>3. state_file' \in CheckpointState
    BY <1>1, CheckpointType DEF SaveStop
  <2> QED BY <1>1, <2>2, <2>3 DEF SaveStop, RTypeOK, Goes, RunFrame
<1>2. CASE SaveFails
  BY <1>2, ExecutesType DEF SaveFails, RTypeOK, RunFrame
<1>3. CASE PlainRun
  BY <1>3, ExecutesType DEF PlainRun, RTypeOK, RunFrame
<1> QED
  BY <1>1, <1>2, <1>3 DEF RunStep

(* The count of the frames written so far is a number.                     *)
LEMMA WrittenNat ==
    ASSUME RTypeOK
    PROVE  written \in Nat
<1> DEFINE D == DOMAIN trace_file.frames
           W == {i \in D : trace_file.frames[i] # ZeroFrame}
<1>1. trace_file.frames \in Seq(TraceFrame \cup {ZeroFrame})
  BY DEF RTypeOK
<1>2. D = 1 .. Len(trace_file.frames) /\ Len(trace_file.frames) \in Nat
  BY <1>1
<1>3. IsFiniteSet(D)
  BY <1>2, FS_Interval
<1>4. W \subseteq D
  OBVIOUS
<1>5. IsFiniteSet(W)
  BY <1>3, <1>4, FS_Subset
<1> QED
  BY <1>5, FS_CardinalityType DEF written

(* The end of a run and the steps of flush_to_file keep the types.         *)
LEMMA FlushType ==
    ASSUME RTypeOK, EndRun \/ Flush,
           phase = "frames" => Len(trace_file.frames) = Len(frames)
    PROVE  RTypeOK'
<1> DEFINE F == TraceFrame \cup {ZeroFrame}
<1>0. /\ trace_file \in [magic : BOOLEAN, frames : Seq(F)]
      /\ frames \in Seq(TraceFrame) /\ Len(frames) \in Nat
      /\ HaltCode \in {0, 2}
  BY DEF RTypeOK, HaltCode
<1>1. ASSUME EndFrame,
             trace_file' \in [magic : BOOLEAN, frames : Seq(F)],
             phase' \in Phases, exit_code' \in {0, 1, 2, 3, ABORTED, KILLED}
      PROVE  RTypeOK'
  <2>1. TypeOK'
    BY <1>1 DEF EndFrame, vmVars, RTypeOK, TypeOK
  <2> QED BY <1>1, <2>1 DEF EndFrame, RTypeOK
<1>2. {"open", "size", "header", "frames", "exited"} \subseteq Phases
  BY DEF Phases
<1>3. exit_code \in {0, 1, 2, 3, ABORTED, KILLED} /\ phase \in Phases
  BY DEF RTypeOK
<1> HIDE DEF F
<1>4. CASE EndRun
  <2>1. EndFrame /\ trace_file' = trace_file
    BY <1>4 DEF EndRun, EndRecord, EndReplay, EndSave, EndRestore, Ends
  <2>2. phase' \in Phases /\ exit_code' \in {0, 1, 2, 3, ABORTED, KILLED}
    BY <1>4, <1>0, <1>2, <1>3 DEF EndRun, EndRecord, EndReplay, EndSave, EndRestore, Exit
  <2> QED BY <1>0, <1>1, <2>1, <2>2
<1>5. CASE OpenTrace
  <2>1. trace_file' \in [magic : BOOLEAN, frames : Seq(F)]
    BY <1>5 DEF OpenTrace, NoTrace
  <2> QED BY <1>5, <1>1, <1>2, <1>3, <2>1 DEF OpenTrace
<1>6. CASE SizeTrace
  <2>1. [i \in 1 .. Len(frames) |-> ZeroFrame] \in Seq(F)
    BY <1>0 DEF F
  <2>2. trace_file' \in [magic : BOOLEAN, frames : Seq(F)]
    BY <1>6, <2>1 DEF SizeTrace
  <2> QED BY <1>6, <1>1, <1>2, <1>3, <2>2 DEF SizeTrace
<1>7. CASE WriteHeader
  <2>1. trace_file' \in [magic : BOOLEAN, frames : Seq(F)]
    BY <1>7, <1>0 DEF WriteHeader
  <2> QED BY <1>7, <1>1, <1>2, <1>3, <2>1 DEF WriteHeader
<1>8. CASE WriteFrame
  <2> DEFINE k == written + 1
             f == frames[written + 1]
             g == [trace_file.frames EXCEPT ![k] = f]
  <2>1. k \in 1 .. Len(frames) /\ Len(trace_file.frames) = Len(frames)
    BY <1>8, <1>0, WrittenNat DEF WriteFrame
  <2>2. f \in F
    BY <2>1, <1>0 DEF F
  <2>3. trace_file' = [trace_file EXCEPT !.frames = g]
    BY <1>8 DEF WriteFrame
  <2> HIDE DEF f, k
  <2>4. g \in Seq(F)
    BY <2>1, <2>2, <1>0, ExceptSeq
  <2> HIDE DEF g
  <2>5. trace_file' \in [magic : BOOLEAN, frames : Seq(F)]
    BY <2>3, <2>4, <1>0
  <2> QED BY <1>8, <1>1, <1>3, <2>5 DEF WriteFrame
<1>9. CASE SyncTrace \/ FlushFails
  <2>1. EndFrame /\ trace_file' = trace_file
    BY <1>9 DEF SyncTrace, FlushFails
  <2>2. phase' \in Phases /\ exit_code' \in {0, 1, 2, 3, ABORTED, KILLED}
    BY <1>9, <1>0, <1>2 DEF SyncTrace, FlushFails, Exit
  <2> QED BY <1>0, <1>1, <2>1, <2>2
<1> QED
  BY <1>4, <1>5, <1>6, <1>7, <1>8, <1>9 DEF Flush

(* A crash keeps the types of what it leaves.                              *)
LEMMA CrashType ==
    ASSUME RTypeOK, Kill \/ PowerLoss
    PROVE  RTypeOK'
<1>0. Crashes
  BY DEF Kill, PowerLoss
<1>1. << >> \in Seq(MemDelta) /\ << >> \in Seq(TraceFrame)
  OBVIOUS
<1>2. ZeroMemory \in Memory
  <2>1. 0 \in Byte
    BY MachineAssumption DEF Byte
  <2> QED BY <2>1 DEF ZeroMemory, Memory
<1>3. TypeOK'
  <2>1. state' \in VMState /\ mem' \in Memory /\ deltas' \in Seq(MemDelta)
    BY <1>0, <1>1, <1>2, PowerOnType DEF Crashes
  <2>2. snap_sink' \in BOOLEAN /\ running' \in BOOLEAN /\ dispatch_mode' \in DispatchModes
    BY <1>0 DEF Crashes, RTypeOK, TypeOK
  <2> QED BY <2>1, <2>2 DEF TypeOK
<1>4. trace_file' \in [magic : BOOLEAN, frames : Seq(TraceFrame \cup {ZeroFrame})]
  <2>1. CASE Kill
    BY <2>1 DEF Kill, RTypeOK
  <2>2. CASE PowerLoss
    <3>1. PICK lost \in SUBSET DOMAIN trace_file.frames, m \in BOOLEAN :
             trace_file' = [magic |-> m,
                            frames |-> [i \in DOMAIN trace_file.frames |->
                              IF i \in lost THEN ZeroFrame ELSE trace_file.frames[i]]]
      BY <2>2 DEF PowerLoss
    <3> DEFINE F == TraceFrame \cup {ZeroFrame}
               g == [i \in DOMAIN trace_file.frames |->
                              IF i \in lost THEN ZeroFrame ELSE trace_file.frames[i]]
    <3>2. ZeroFrame \in F /\ trace_file.frames \in Seq(F)
      BY DEF RTypeOK
    <3> HIDE DEF F
    <3>3. g \in Seq(F)
      BY <3>2
    <3> QED BY <3>1, <3>3 DEF F
  <2> QED BY <2>1, <2>2
<1>5. state_file' \in CheckpointState \cup {NoFile}
  BY DEF Kill, PowerLoss, RTypeOK
<1>6. frames' \in Seq(TraceFrame)
  BY <1>0, <1>1 DEF Crashes
<1>7. cmd' \in Commands /\ phase' \in Phases /\ bin' \in Programs \cup {<< >>}
      /\ exit_code' \in {0, 1, 2, 3, ABORTED, KILLED}
      /\ cursor' \in Nat /\ at_frame' \in Nat /\ saved' \in BOOLEAN
  BY <1>0 DEF Crashes, Exit, Commands, Phases
<1> QED
  BY <1>3, <1>4, <1>5, <1>6, <1>7 DEF RTypeOK

-----------------------------------------------------------------------------
(* Starting a process.                                                     *)

(* A process that has booted is at the first point of a chain.             *)
LEMMA ChainStart ==
    ASSUME NEW p \in Programs, NEW trace
    PROVE  Booted(p) \in Point /\ Chain(p, trace, 0, << Booted(p) >>)
<1>1. Booted(p) \in Point /\ Booted(p).st.cycle_count = 0
  <2>1. PowerOn \in VMState /\ load_program(ZeroMemory, p) \in Memory
    BY PowerOnType
  <2>2. PowerOn.snap_interval = 0 /\ PowerOn.snap_timer = 0 /\ PowerOn.cycle_count = 0
    BY DEF PowerOn
  <2>3. PowerOn \in CoreState
    BY <2>1, <2>2 DEF VMState, CoreState
  <2> QED BY <2>1, <2>2, <2>3 DEF Booted, Point
<1> DEFINE e == Booted(p)
           r == << e >>
<1>2. r \in Seq(Point) /\ Len(r) = 1 /\ r[1] = e /\ e.st.cycle_count = 0
  BY <1>1
<1> HIDE DEF e, r
<1>3. Execution(p, trace, 0, r)
  BY <1>2 DEF Execution, e
<1>4. Stamped(trace, 0, r)
  BY <1>2 DEF Stamped
<1> QED
  BY <1>1, <1>3, <1>4 DEF Chain, r, e

(* Where a process boots.                                                  *)
LEMMA BootHere ==
    ASSUME NEW c, NEW p \in Programs, NEW first, NEW at,
           \/ Boot(c, p, PowerOn, first, at)
           \/ Boot(c, p, [PowerOn EXCEPT !.snap_interval = 1, !.snap_timer = 1], first, at)
    PROVE  Here' = Booted(p) /\ state'.halted = HALT_RUNNING /\ state'.cycle_count = 0
<1>1. /\ mem' = load_program(ZeroMemory, p)
      /\ state' \in {PowerOn, [PowerOn EXCEPT !.snap_interval = 1, !.snap_timer = 1]}
  BY DEF Boot
<1>2. [state' EXCEPT !.snap_interval = 0, !.snap_timer = 0] = PowerOn
      /\ state'.halted = HALT_RUNNING /\ state'.cycle_count = 0
  <2> DEFINE one == [PowerOn EXCEPT !.snap_interval = 1, !.snap_timer = 1]
  <2>1. /\ PowerOn \in VMState /\ PowerOn.snap_interval = 0 /\ PowerOn.snap_timer = 0
        /\ PowerOn.halted = HALT_RUNNING /\ PowerOn.cycle_count = 0
    BY PowerOnType DEF PowerOn
  <2>2. [PowerOn EXCEPT !.snap_interval = 0, !.snap_timer = 0] = PowerOn
    BY <2>1 DEF VMState
  <2>3. /\ [one EXCEPT !.snap_interval = 0, !.snap_timer = 0] = PowerOn
        /\ one.halted = HALT_RUNNING /\ one.cycle_count = 0
    BY <2>1 DEF VMState
  <2> HIDE DEF one
  <2>4. state' = PowerOn \/ state' = one
    BY <1>1 DEF one
  <2> QED BY <2>1, <2>2, <2>3, <2>4
<1> QED
  BY <1>1, <1>2 DEF Here, Booted

(* What depends on the files and their history only.                       *)
LEMMA FilesUntouched ==
    ASSUME ReplayInv,
           recorded' = recorded, source' = source, state_file' \in {state_file, NoFile}
    PROVE  RecordedOK' /\ SourceOK' /\ ResumedOK'
BY DEF ReplayInv, RecordedOK, SourceOK, ResumedOK

(* A process that starts to run.                                           *)
LEMMA StartsRunning ==
    ASSUME ReplayInv, NEW c \in {"record", "replay", "save", "restore"}, NEW p \in Programs,
           NEW st, NEW first, NEW at, Boot(c, p, st, first, at),
           st.halted = HALT_RUNNING,
           c # "restore" => Here' = Booted(p) /\ first = 0 /\ st.cycle_count = 0,
           c # "record" => Readable,
           c = "save" => InTrace(at),
           steps' = << Here' >>, UNCHANGED << recorded, source >>, RTypeOK'
    PROVE  ReplayInv'
<1>1. /\ cmd' = c /\ bin' = p /\ phase' = "run" /\ frames' = << >> /\ cursor' = first
      /\ at_frame' = at /\ state' = st /\ running' /\ exit_code' = 0
      /\ trace_file' = trace_file /\ state_file' = state_file
      /\ recorded' = recorded /\ source' = source
  BY DEF Boot, disk
<1>2. RecordedOK' /\ SourceOK' /\ ResumedOK'
  BY <1>1, FilesUntouched
<1>3. FileOK'
  BY <1>1 DEF FileOK, ReplayInv, Readable
<1>4. ProcessOK'
  BY <1>1 DEF ProcessOK, Readable, InTrace, frame_count, Exited
<1>5. SaveOK' /\ IntactReplays'
  BY <1>1 DEF SaveOK, IntactReplays, Reported, Exited
<1>6. RecordingOK'
  <2> SUFFICES ASSUME c = "record"
               PROVE  /\ Chain(p, << >>, 0, << Booted(p) >>) /\ Here' = Booted(p)
                      /\ Len(<< Booted(p) >>) = 1 /\ << Booted(p) >>[1] = Booted(p)
                      /\ Len(<< >>) = 0
    BY <1>1 DEF RecordingOK
  <2> QED BY ChainStart
<1>7. ASSUME c \in {"replay", "save"}, p = recorded.bin
      PROVE  /\ Complete(recorded) /\ recorded # Nobody /\ recorded.path[1] = Booted(p)
             /\ Len(recorded.path) \in Nat /\ Len(recorded.path) >= 2
             /\ Len(recorded.trace) \in Nat
             /\ \A j \in 1 .. Len(recorded.trace) : recorded.trace[j].cycle > 0
  <2>1. Complete(recorded) /\ recorded # Nobody
    BY <1>7 DEF ReplayInv, RecordedOK, FileOK
  <2>2. /\ Chain(p, recorded.trace, Len(recorded.trace), recorded.path)
        /\ Len(recorded.path) >= 2 /\ recorded.trace \in Seq(TraceFrame)
    BY <2>1, <1>7 DEF Complete
  <2>3. recorded.path \in Seq(Point) /\ recorded.path[1] = Booted(p)
    BY <2>2 DEF Chain, Execution
  <2>4. \A j \in 1 .. Len(recorded.trace) : recorded.trace[j].cycle > 0
    BY <2>2, <2>3 DEF Chain, Stamped
  <2> QED BY <2>1, <2>2, <2>3, <2>4
<1>8. OnPath'
  <2> SUFFICES ASSUME c \in {"replay", "save"}, p = recorded.bin
               PROVE  /\ recorded # Nobody
                      /\ state'.cycle_count + 1 \in 1 .. Len(recorded.path)
                      /\ Here' = recorded.path[state'.cycle_count + 1]
                      /\ first \in 0 .. Len(recorded.trace)
                      /\ \A j \in 1 .. first : recorded.trace[j].cycle <= state'.cycle_count
                      /\ \A j \in first + 1 .. Len(recorded.trace) :
                            recorded.trace[j].cycle > state'.cycle_count
                      /\ state'.cycle_count + 1 < Len(recorded.path)
    BY <1>1 DEF OnPath, Following
  <2>1. state'.cycle_count = 0 /\ first = 0 /\ Here' = Booted(p)
    BY <1>1
  <2> QED BY <2>1, <1>7
<1>9. SavingOK'
  <2> SUFFICES ASSUME c = "save"
               PROVE  /\ 0 <= Len(trace_file.frames)
                      /\ Chain(p, trace_file.frames, 0, << Booted(p) >>)
                      /\ Here' = Booted(p)
                      /\ Len(<< Booted(p) >>) = 1 /\ << Booted(p) >>[1] = Booted(p)
                      /\ p = recorded.bin => /\ 1 \in 1 .. Len(recorded.path)
                                             /\ Booted(p) = recorded.path[1]
    BY <1>1 DEF SavingOK, frame_count
  <2>1. 0 <= Len(trace_file.frames)
    BY DEF ReplayInv, RTypeOK
  <2> QED BY <2>1, <1>7, ChainStart
<1>10. RepeatsOK'
  <2> SUFFICES ASSUME c = "record", state_file # NoFile, p = source.bin
               PROVE  << Booted(p) >>[1] = source.path[1] /\ Len(<< Booted(p) >>) = 1
    BY <1>1 DEF RepeatsOK
  <2>1. Chain(p, source.trace, state_file.frame_index, source.path)
    BY DEF ReplayInv, SourceOK
  <2> QED BY <2>1 DEF Chain, Execution
<1> QED
  BY <1>2, <1>3, <1>4, <1>5, <1>6, <1>8, <1>9, <1>10 DEF ReplayInv

(* A command that is refused.                                              *)
LEMMA Refused ==
    ASSUME ReplayInv, Exited, NEW c \in {"replay", "save", "restore"}, NEW code \in {1, ABORTED},
           Refuse(c, code), c = "replay" => ~ Readable, c = "replay" => code = ABORTED,
           UNCHANGED << recorded, source >>, RTypeOK'
    PROVE  ReplayInv'
<1>1. /\ cmd' = c /\ exit_code' = code /\ phase' = "exited" /\ bin' = bin
      /\ running' = running /\ state' = state /\ mem' = mem
      /\ trace_file' = trace_file /\ state_file' = state_file
      /\ recorded' = recorded /\ source' = source /\ ~ running
  BY DEF Refuse, disk, vmVars, Exited, ReplayInv, ProcessOK
<1>2. RecordedOK' /\ SourceOK' /\ ResumedOK'
  BY <1>1, FilesUntouched
<1>3. FileOK' /\ ProcessOK'
  BY <1>1 DEF FileOK, ProcessOK, ReplayInv, Readable, Exited, ABORTED
<1>4. SaveOK' /\ IntactReplays' /\ OnPath'
  BY <1>1 DEF SaveOK, IntactReplays, Reported, Exited, OnPath, Following, ABORTED, Readable
<1>5. RecordingOK' /\ SavingOK' /\ RepeatsOK'
  BY <1>1 DEF RecordingOK, SavingOK, RepeatsOK
<1> QED
  BY <1>2, <1>3, <1>4, <1>5 DEF ReplayInv

(* Starting keeps the invariant.                                           *)
LEMMA StartInv ==
    ASSUME ReplayInv, RHStart
    PROVE  ReplayInv'
<1>1. /\ RTypeOK' /\ Exited /\ RTypeOK /\ UNCHANGED << recorded, source >>
      /\ steps' = IF phase' = "run" THEN << Here' >> ELSE << >>
  BY StartType DEF ReplayInv, RHStart, Start, cmd_record, cmd_replay, cmd_save, cmd_restore
<1>2. \A c, p, st, first, at : Boot(c, p, st, first, at) => steps' = << Here' >>
  BY <1>1 DEF Boot
<1>3. /\ PowerOn.halted = HALT_RUNNING /\ PowerOn.cycle_count = 0
      /\ [PowerOn EXCEPT !.snap_interval = 1, !.snap_timer = 1].halted = HALT_RUNNING
      /\ [PowerOn EXCEPT !.snap_interval = 1, !.snap_timer = 1].cycle_count = 0
  BY DEF PowerOn
<1>4. CASE \E p \in Programs : Boot("record", p, PowerOn, 0, 0)
  BY <1>1, <1>2, <1>3, <1>4, BootHere, StartsRunning
<1>5. CASE \E p \in Programs : Readable /\ Boot("replay", p, PowerOn, 0, 0)
  BY <1>1, <1>2, <1>3, <1>5, BootHere, StartsRunning
<1>6. CASE \E p \in Programs, k \in AtFrames :
              /\ Readable /\ InTrace(k)
              /\ Boot("save", p, [PowerOn EXCEPT !.snap_interval = 1, !.snap_timer = 1], 0, k)
  BY <1>1, <1>2, <1>3, <1>6, BootHere, StartsRunning
<1>7. CASE \E p \in Programs :
              CanRestore /\ Boot("restore", p, Restored, state_file.frame_index, 0)
  <2>1. CanRestore => Readable /\ Restored.halted = HALT_RUNNING
    BY <1>1, RestoredType DEF CanRestore
  <2> QED BY <1>1, <1>2, <1>7, <2>1, StartsRunning
<1>8. CASE ~ Readable /\ Refuse("replay", ABORTED)
  BY <1>1, <1>8, Refused
<1>9. CASE \E code \in {1, ABORTED}, c \in {"save", "restore"} : Refuse(c, code)
  BY <1>1, <1>9, Refused
<1> QED
  BY <1>1, <1>4, <1>5, <1>6, <1>7, <1>8, <1>9, StartCases DEF RHStart

-----------------------------------------------------------------------------
(* The engine under a command: the four things a pass can be.              *)

PlainStep ==
    /\ Here' = Exec(Here, 0) /\ ~ Reads(Here)
    /\ running' <=> Stays(Here)
    /\ ~ running' => state'.halted \in {HALT_NORMAL, HALT_UNKNOWN_OP, HALT_DIV_ZERO}
    /\ UNCHANGED << phase, exit_code, cursor, frames >>

ReadsFrame(f) ==
    /\ f \in TraceFrame /\ f.cycle = state.cycle_count + 1 /\ f.opcode = Op(Here)
    /\ Reads(Here) /\ Stays(Here) /\ Here' = Exec(Here, f.value)
    /\ running' /\ UNCHANGED << phase, exit_code >>

AnsweredStep(f) ==
    /\ cmd = "record" /\ ReadsFrame(f)
    /\ frames' = Append(frames, f) /\ UNCHANGED cursor

ConsumedStep ==
    /\ cmd # "record" /\ InTrace(cursor) /\ ReadsFrame(frame_at(cursor))
    /\ cursor' = cursor + 1 /\ UNCHANGED frames

DivergedStep ==
    /\ cmd # "record" /\ Reads(Here) /\ ~ Consumable(Op(Here))
    /\ ~ running' /\ state'.halted = state.halted
    /\ phase' = "exited" /\ exit_code' = 3 /\ UNCHANGED << cursor, frames >>

(* Every pass is one of them.                                              *)
LEMMA PassKinds ==
    ASSUME RTypeOK, Executes
    PROVE  /\ TypeOK' /\ running /\ state'.cycle_count = state.cycle_count + 1
           /\ running' => state'.halted = state.halted
           /\ PlainStep \/ (\E f : AnsweredStep(f)) \/ ConsumedStep \/ DivergedStep
<1>0. /\ TypeOK /\ TypeOK' /\ AnyPass /\ cursor \in Nat
      /\ state'.cycle_count = state.cycle_count + 1
      /\ Fetched.cycle_count = state.cycle_count + 1 /\ state.cycle_count \in Nat
  BY ExecutesType, PassCounters, TickedFields DEF RTypeOK, TypeOK, VMState
<1>1. CASE Deterministic /\ Goes /\ UNCHANGED << cursor, frames >>
  <2>1. Here' = Exec(Here, 0) /\ ~ Reads(Here) /\ running /\ (running' <=> Stays(Here))
    BY <1>0, <1>1, DeterministicExec
  <2>2. /\ running' => state'.halted = state.halted
        /\ ~ running' => state'.halted \in {HALT_NORMAL, HALT_UNKNOWN_OP, HALT_DIV_ZERO}
    BY <1>0, <1>1, DeterministicReturns DEF StaysOrReturns
  <2> QED BY <1>0, <1>1, <2>1, <2>2 DEF PlainStep, Goes
<1>2. ASSUME NEW op \in {OP_IN, OP_RAND}, NEW v \in Word, DoNondet(op, v)
      PROVE  /\ Here' = Exec(Here, v) /\ Reads(Here) /\ Op(Here) = op /\ Stays(Here)
             /\ running /\ running' /\ state'.halted = state.halted
  <2>1. StaysOrReturns
    BY <1>0, <1>2, HookReturns
  <2> QED BY <1>0, <1>2, <2>1, NondetExec DEF StaysOrReturns
<1>3. ASSUME NEW op \in {OP_IN, OP_RAND}, RecordInput(op)
      PROVE  /\ running /\ (running' => state'.halted = state.halted)
             /\ \E f : AnsweredStep(f)
  <2>1. PICK v \in Inputs : DoNondet(op, v) /\ append(op, v)
    BY <1>3 DEF RecordInput
  <2>2. v \in Word
    BY VMAssumption
  <2> DEFINE f == [cycle |-> state.cycle_count + 1, opcode |-> op, value |-> v]
  <2>3. f \in TraceFrame /\ f.cycle = state.cycle_count + 1 /\ f.opcode = op /\ f.value = v
    BY <1>0, <2>2 DEF TraceFrame
  <2>4. frames' = Append(frames, f)
    BY <1>0, <2>1 DEF append
  <2> HIDE DEF f
  <2>5. AnsweredStep(f)
    BY <1>2, <1>3, <2>1, <2>2, <2>3, <2>4 DEF AnsweredStep, ReadsFrame, RecordInput, Goes
  <2> QED BY <1>2, <2>1, <2>2, <2>5
<1>4. ASSUME NEW op \in {OP_IN, OP_RAND}, ConsumeInput(op)
      PROVE  /\ running /\ (running' => state'.halted = state.halted) /\ ConsumedStep
  <2> DEFINE f == frame_at(cursor)
  <2>1. /\ InTrace(cursor) /\ f.cycle = state.cycle_count + 1 /\ f.opcode = op
        /\ DoNondet(op, f.value)
    BY <1>0, <1>4 DEF ConsumeInput, Consumable
  <2>2. f \in TraceFrame
    BY <1>0, <2>1, FrameType
  <2>3. f.value \in Word
    BY <2>2 DEF TraceFrame
  <2> HIDE DEF f
  <2>4. ReadsFrame(f)
    BY <1>2, <1>4, <2>1, <2>2, <2>3 DEF ReadsFrame, ConsumeInput, Goes
  <2>5. ConsumedStep
    BY <1>4, <2>1, <2>4 DEF ConsumedStep, ConsumeInput, f
  <2> QED BY <1>2, <2>1, <2>3, <2>5
<1>5. ASSUME NEW op \in {OP_IN, OP_RAND}, Divergence(op)
      PROVE  /\ running /\ (running' => state'.halted = state.halted) /\ DivergedStep
  <2>1. DoThrow(op)
    BY <1>5 DEF Divergence
  <2>2. running /\ ~ running' /\ state'.halted = state.halted
    BY <1>0, <2>1, HookReturns DEF StaysOrReturns
  <2>3. Op(Here) = op /\ Reads(Here)
    BY <1>0, <2>1, HereInstr DEF DoThrow, Dispatches, Reads
  <2> QED BY <1>5, <2>2, <2>3 DEF DivergedStep, Divergence, Exit
<1> QED
  BY <1>0, <1>1, <1>3, <1>4, <1>5 DEF Executes

(* What every step of the engine leaves alone.                             *)
LEMMA RunFacts ==
    ASSUME ReplayInv, RHRun
    PROVE  /\ RTypeOK /\ RTypeOK' /\ TypeOK /\ TypeOK'
           /\ running /\ phase = "run" /\ state.halted = HALT_RUNNING /\ bin \in Programs
           /\ state.cycle_count \in Nat /\ state'.cycle_count = state.cycle_count + 1
           /\ cmd' = cmd /\ bin' = bin /\ at_frame' = at_frame /\ trace_file' = trace_file
           /\ recorded' = recorded
           /\ steps' = IF cmd \in {"record", "save"} THEN Append(steps, Here') ELSE steps
           /\ ~ SaveStop => /\ Executes /\ source' = source
                            /\ state_file' \in {state_file, NoFile}
<1>1. RTypeOK /\ RTypeOK' /\ TypeOK /\ TypeOK' /\ state.cycle_count \in Nat
  BY RunType DEF ReplayInv, RHRun, RTypeOK, TypeOK, VMState
<1>2. running /\ state'.cycle_count = state.cycle_count + 1
  <2>1. CASE SaveStop
    <3>1. SnapReturn(HALT_CHECKPOINT) /\ HALT_CHECKPOINT \in HaltReason
      BY <2>1 DEF SaveStop, SoftHalt, HALT_CHECKPOINT, HaltReason
    <3>2. AnyPass
      BY <3>1 DEF AnyPass
    <3> QED BY <1>1, <3>1, <3>2, PassCounters DEF SnapReturn, CanFetch
  <2>2. CASE Executes
    BY <1>1, <2>2, PassKinds
  <2> QED BY <2>1, <2>2 DEF RHRun, RunStep, SaveFails, PlainRun
<1>3. phase = "run" /\ state.halted = HALT_RUNNING /\ bin \in Programs
  BY <1>2 DEF ReplayInv, ProcessOK
<1>4. cmd' = cmd /\ bin' = bin /\ at_frame' = at_frame /\ trace_file' = trace_file
  BY DEF RHRun, RunStep, SaveStop, SaveFails, PlainRun, RunFrame
<1> QED
  BY <1>1, <1>2, <1>3, <1>4 DEF RHRun, RunStep, SaveFails, PlainRun

(* A recording stays a chain that read exactly its own frames.             *)
LEMMA RecordingRun ==
    ASSUME ReplayInv, RHRun, ~ SaveStop, cmd = "record"
    PROVE  /\ RecordingOK' /\ Chain(bin, frames', Len(frames'), steps')
           /\ steps' = Append(steps, Here') /\ steps \in Seq(Point) /\ Here' \in Point
           /\ frames \in Seq(TraceFrame)
           /\ frames' = frames \/ \E f \in TraceFrame : frames' = Append(frames, f)
<1> DEFINE l == Len(steps)
<1>1. /\ Chain(bin, frames, Len(frames), steps) /\ Here = steps[l]
      /\ l = 1 \/ Stays(steps[l - 1])
  BY RunFacts DEF ReplayInv, RecordingOK
<1>2. /\ steps \in Seq(Point) /\ l \in Nat /\ l >= 1 /\ Here.st.cycle_count = l - 1
      /\ frames \in Seq(TraceFrame) /\ Len(frames) \in Nat /\ Here' \in Point
  <2>1. steps \in Seq(Point) /\ l \in Nat /\ l >= 1
    BY <1>1 DEF Chain, Execution
  <2>2. Here.st.cycle_count = l - 1
    BY <1>1, <2>1 DEF Chain, Execution
  <2>3. frames \in Seq(TraceFrame)
    BY RunFacts DEF RTypeOK
  <2>4. Here' \in Point
    BY HereNext, RunFacts
  <2> QED BY <2>1, <2>2, <2>3, <2>4
<1>3. state.cycle_count = l - 1
  BY <1>2, HereFields, RunFacts
<1>4. steps' = Append(steps, Here') /\ Len(steps') = l + 1 /\ steps'[l + 1] = Here'
      /\ steps'[l] = Here
  BY <1>1, <1>2, RunFacts
<1>5. \/ PlainStep
      \/ \E f : AnsweredStep(f)
  BY PassKinds, RunFacts DEF ConsumedStep, DivergedStep
<1>6. CASE PlainStep
  <2>1. frames' = frames /\ Here' = Exec(Here, 0) /\ ~ Reads(Here) /\ (running' <=> Stays(Here))
    BY <1>6 DEF PlainStep
  <2> DEFINE e == Here'
  <2>2. e \in Point /\ ~ Reads(steps[l]) /\ e = Exec(steps[l], 0)
    BY <1>1, <1>2, <2>1
  <2> HIDE DEF e
  <2>3. Chain(bin, frames, Len(frames), Append(steps, e))
    BY <1>1, <1>2, <2>2, ChainPlain
  <2>4. Chain(bin, frames', Len(frames'), steps')
    BY <1>4, <2>1, <2>3 DEF e
  <2>5. RecordingOK'
    <3>1. Len(steps') # 1 /\ Len(steps') - 1 = l
      BY <1>2, <1>4
    <3> QED BY <2>1, <2>4, <1>4, <3>1, RunFacts DEF RecordingOK
  <2> QED BY <1>2, <1>4, <2>1, <2>4, <2>5
<1>7. ASSUME NEW f, AnsweredStep(f)
      PROVE  /\ RecordingOK' /\ Chain(bin, frames', Len(frames'), steps')
             /\ f \in TraceFrame /\ frames' = Append(frames, f)
  <2>1. /\ f \in TraceFrame /\ f.cycle = l /\ f.opcode = Op(Here) /\ Reads(Here) /\ Stays(Here)
        /\ Here' = Exec(Here, f.value) /\ running' /\ frames' = Append(frames, f)
    BY <1>2, <1>3, <1>7 DEF AnsweredStep, ReadsFrame
  <2> DEFINE e == Here'
             t == frames'
             n == Len(frames)
  <2>2. /\ e \in Point /\ Reads(steps[l]) /\ e = Exec(steps[l], t[n + 1].value)
        /\ \A j \in 1 .. n : t[j] = frames[j]
        /\ t[n + 1] \in TraceFrame /\ t[n + 1].cycle = Len(steps)
        /\ t[n + 1].opcode = Op(steps[l]) /\ Len(t) = n + 1 /\ n \in Nat
    BY <1>1, <1>2, <2>1
  <2>3. Chain(bin, frames, n, steps)
    BY <1>1
  <2> HIDE DEF e, t, n
  <2>4. Chain(bin, t, n + 1, Append(steps, e))
    BY <1>1, <2>2, <2>3, ChainReads
  <2>5. Chain(bin, frames', Len(frames'), steps')
    BY <1>4, <2>2, <2>4 DEF e, t
  <2>6. RecordingOK'
    <3>1. Len(steps') # 1 /\ Len(steps') - 1 = l
      BY <1>2, <1>4
    <3> QED BY <2>1, <2>5, <1>4, <3>1, RunFacts DEF RecordingOK
  <2> QED BY <2>1, <2>5, <2>6
<1> QED
  BY <1>2, <1>4, <1>5, <1>6, <1>7

(* A recording that repeats a saved trace repeats the saved run.           *)
LEMMA RepeatsRun ==
    ASSUME ReplayInv, RHRun, ~ SaveStop, cmd = "record"
    PROVE  RepeatsOK'
<1> SUFFICES ASSUME state_file # NoFile, bin = source.bin, state_file' = state_file,
                    source' = source,
                    \A j \in 1 .. Len(frames') :
                        j \in 1 .. Len(source.trace) /\ frames'[j] = source.trace[j],
                    NEW i \in 1 .. Len(steps'), i \in 1 .. Len(source.path)
             PROVE  steps'[i] = source.path[i]
  <2>1. state_file' # NoFile => state_file' = state_file /\ state_file # NoFile
    BY RunFacts
  <2> QED BY <2>1, RunFacts DEF RepeatsOK
<1> DEFINE r2 == steps'
           t2 == frames'
           k  == state_file.frame_index
           r1 == source.path
           t1 == source.trace
<1>1. /\ Chain(bin, t2, Len(t2), r2) /\ Len(t2) \in Nat
      /\ Len(r2) = Len(steps) + 1 /\ Len(steps) \in Nat /\ Len(frames) <= Len(t2)
      /\ \A j \in 1 .. Len(steps) : r2[j] = steps[j]
      /\ \A j \in 1 .. Len(frames) : t2[j] = frames[j]
  <2>1. /\ Chain(bin, t2, Len(t2), r2) /\ r2 = Append(steps, Here') /\ steps \in Seq(Point)
        /\ Here' \in Point /\ frames \in Seq(TraceFrame)
        /\ t2 = frames \/ \E f \in TraceFrame : t2 = Append(frames, f)
    BY RecordingRun
  <2>2. /\ Len(t2) \in Nat /\ Len(frames) <= Len(t2)
        /\ \A j \in 1 .. Len(frames) : t2[j] = frames[j]
    <3> HIDE DEF t2
    <3>1. CASE t2 = frames
      BY <2>1, <3>1
    <3>2. ASSUME NEW f \in TraceFrame, t2 = Append(frames, f)
          PROVE  /\ Len(t2) \in Nat /\ Len(frames) <= Len(t2)
                 /\ \A j \in 1 .. Len(frames) : t2[j] = frames[j]
      <4>1. /\ Len(t2) = Len(frames) + 1 /\ Len(frames) \in Nat
            /\ \A j \in 1 .. Len(frames) : t2[j] = frames[j]
        BY <2>1, <3>2, Appended
      <4> QED BY <4>1
    <3> QED BY <2>1, <3>1, <3>2
  <2>3. /\ Len(r2) = Len(steps) + 1 /\ Len(steps) \in Nat
        /\ \A j \in 1 .. Len(steps) : r2[j] = steps[j]
    <3> DEFINE e == Here'
    <3>1. e \in Point /\ r2 = Append(steps, e)
      BY <2>1
    <3> HIDE DEF r2, e
    <3> QED BY <2>1, <3>1, Appended
  <2> QED BY <2>1, <2>2, <2>3
<1>2. Chain(bin, t1, k, r1) /\ t1[k + 1].cycle = Len(r1) /\ k \in Nat /\ Len(r1) \in Nat
  <2>1. Chain(bin, t1, k, r1) /\ t1[k + 1].cycle = Len(r1)
    <3>1. SourceOK
      BY DEF ReplayInv
    <3> QED BY <3>1 DEF SourceOK
  <2>2. k \in Nat
    BY RunFacts DEF RTypeOK, CheckpointState
  <2>3. r1 \in Seq(Point)
    BY <2>1 DEF Chain, Execution
  <2>4. Len(r1) \in Nat
    BY <2>3
  <2> QED BY <2>1, <2>2, <2>4
<1> HIDE DEF r2, t2, k, r1, t1
<1>3. \A j \in 1 .. Len(t2) : t2[j] = t1[j] /\ j \in 1 .. Len(t1)
  BY DEF t1, t2
<1>4. \A j \in 1 .. Len(frames) : j \in 1 .. Len(t1) /\ frames[j] = t1[j]
  <2>1. Len(frames) \in Nat
    BY RunFacts DEF RTypeOK
  <2> QED BY <2>1, <1>1, <1>3
<1>5. \A j \in 1 .. Len(steps) : j \in 1 .. Len(r1) => steps[j] = r1[j]
  BY <1>4, RunFacts DEF ReplayInv, RepeatsOK, r1, t1
<1>6. i \in 1 .. Len(steps) + 1 /\ i \in 1 .. Len(r1)
  BY <1>1 DEF r1, r2
<1>7. CASE i \in 1 .. Len(steps)
  BY <1>1, <1>5, <1>6, <1>7 DEF r1, r2
<1>8. CASE i = Len(steps) + 1
  <2>1. Len(r2) <= Len(r1)
    BY <1>1, <1>2, <1>6, <1>8
  <2>2. \A j \in 1 .. Len(r2) - 1 : r2[j] = r1[j]
    BY <2>1, <1>1, <1>2, <1>5
  <2>3. \A j \in 1 .. Len(t2) : t2[j] = t1[j]
    BY <1>3
  <2>4. r2[Len(r2)] = r1[Len(r2)]
    <3> DEFINE n2 == Len(t2)
    <3>1. /\ Chain(bin, t1, k, r1) /\ k \in Nat /\ Chain(bin, t2, n2, r2) /\ n2 \in Nat
          /\ t1[k + 1].cycle = Len(r1) /\ Len(r2) <= Len(r1)
          /\ \A j \in 1 .. n2 : t2[j] = t1[j]
          /\ \A j \in 1 .. Len(r2) - 1 : r2[j] = r1[j]
      BY <1>1, <1>2, <2>1, <2>2, <2>3
    <3> HIDE DEF n2
    <3> QED BY ONLY <3>1, SameChain
  <2> QED BY <1>1, <1>8, <2>4 DEF r1, r2
<1> QED
  BY <1>1, <1>6, <1>7, <1>8

(* A frame of the file that is not zeros is the recorded one.              *)
LEMMA FileFrame ==
    ASSUME ReplayInv, Readable, NEW i \in Nat, InTrace(i),
           frame_at(i) \in TraceFrame \/ frame_at(i).cycle # 0
    PROVE  /\ frame_count = Len(recorded.trace) /\ i + 1 \in 1 .. Len(recorded.trace)
           /\ frame_at(i) = recorded.trace[i + 1]
           /\ recorded # Nobody /\ Complete(recorded)
<1>1. recorded # Nobody /\ Complete(recorded) /\ Torn(trace_file.frames, recorded.trace)
  BY DEF ReplayInv, FileOK, RecordedOK
<1>2. Len(recorded.trace) \in Nat /\ frame_count = Len(recorded.trace)
  BY <1>1 DEF Complete, Torn, frame_count
<1>3. i + 1 \in 1 .. Len(recorded.trace)
  BY <1>2 DEF InTrace
<1>4. frame_at(i) # ZeroFrame
  BY Opcodes DEF ZeroFrame, TraceFrame
<1> QED
  BY <1>1, <1>2, <1>3, <1>4 DEF Torn, frame_at

(* The pass that a replay or a save of the recorded program makes.         *)
LEMMA FollowsPath ==
    ASSUME ReplayInv, RHRun, cmd \in {"replay", "save"}, bin = recorded.bin
    PROVE  /\ Complete(recorded) /\ recorded # Nobody
           /\ state.cycle_count + 1 < Len(recorded.path) /\ Len(recorded.path) \in Nat
           /\ Here = recorded.path[state.cycle_count + 1]
           /\ cursor \in 0 .. Len(recorded.trace) /\ Len(recorded.trace) \in Nat
           /\ \A j \in 1 .. cursor : recorded.trace[j].cycle <= state.cycle_count
           /\ \A j \in cursor + 1 .. Len(recorded.trace) :
                 recorded.trace[j].cycle > state.cycle_count
<1>1. Following /\ running
  BY RunFacts DEF Following
<1>2. Complete(recorded)
  BY <1>1 DEF ReplayInv, OnPath, RecordedOK
<1>3. recorded.trace \in Seq(TraceFrame) /\ recorded.path \in Seq(Point)
  BY <1>2 DEF Complete, Chain, Execution
<1> QED
  BY <1>1, <1>2, <1>3 DEF ReplayInv, OnPath

(* It stays on the recorded path, or it reports a divergence.              *)
LEMMA PathRun ==
    ASSUME ReplayInv, RHRun, ~ SaveStop
    PROVE  /\ OnPath'
           /\ cmd \in {"replay", "save"} /\ bin = recorded.bin /\ ~ DivergedStep =>
                 /\ state.cycle_count + 2 \in 1 .. Len(recorded.path)
                 /\ Here' = recorded.path[state.cycle_count + 2]
<1> DEFINE c == state.cycle_count
           q == recorded.path
           t == recorded.trace
<1>0. /\ c \in Nat /\ state'.cycle_count = c + 1 /\ cmd' = cmd /\ bin' = bin
      /\ recorded' = recorded /\ cursor \in Nat /\ (c + 1) + 1 = c + 2
  BY RunFacts DEF RTypeOK
<1>1. PlainStep \/ (\E f : AnsweredStep(f)) \/ ConsumedStep \/ DivergedStep
  BY PassKinds, RunFacts
<1>2. ASSUME cmd \in {"replay", "save"}, bin = recorded.bin, ~ DivergedStep
      PROVE  /\ recorded # Nobody /\ c + 2 \in 1 .. Len(q)
             /\ Here' = q[c + 2]
             /\ cursor' \in 0 .. Len(t)
             /\ \A j \in 1 .. cursor' : t[j].cycle <= c + 1
             /\ \A j \in cursor' + 1 .. Len(t) : t[j].cycle > c + 1
             /\ running' <=> c + 2 < Len(q)
  <2>1. /\ Complete(recorded) /\ recorded # Nobody /\ c + 1 < Len(q) /\ Here = q[c + 1]
        /\ Len(q) \in Nat /\ Len(t) \in Nat
        /\ cursor \in 0 .. Len(t)
        /\ \A j \in 1 .. cursor : t[j].cycle <= c
        /\ \A j \in cursor + 1 .. Len(t) : t[j].cycle > c
    BY <1>2, FollowsPath
  <2>2. /\ ~ Reads(q[c + 1]) =>
                 /\ q[c + 2] = Exec(q[c + 1], 0)
                 /\ \A j \in cursor + 1 .. Len(t) : t[j].cycle > c + 1
        /\ Reads(q[c + 1]) =>
                 /\ cursor + 1 \in 1 .. Len(t)
                 /\ t[cursor + 1].cycle = c + 1
                 /\ t[cursor + 1].opcode = Op(q[c + 1])
                 /\ q[c + 2] = Exec(q[c + 1], t[cursor + 1].value)
                 /\ \A j \in cursor + 2 .. Len(t) : t[j].cycle > c + 1
        /\ Stays(q[c + 1]) <=> c + 2 < Len(q)
    BY ONLY <2>1, <1>0, NextOnPath
  <2>3. \A j \in 1 .. cursor : t[j].cycle \in Nat
    <3>1. t \in Seq(TraceFrame)
      BY <2>1 DEF Complete
    <3> HIDE DEF t
    <3>2. \A j \in 1 .. Len(t) : t[j] \in TraceFrame
      BY <3>1
    <3> QED BY <2>1, <3>2 DEF TraceFrame
  <2>4. c + 2 \in 1 .. Len(q)
    BY <1>0, <2>1
  <2>5. CASE PlainStep
    <3>1. cursor' = cursor /\ Here' = Exec(q[c + 1], 0) /\ ~ Reads(q[c + 1])
          /\ (running' <=> Stays(q[c + 1]))
      BY <2>1, <2>5 DEF PlainStep
    <3>2. \A j \in 1 .. cursor : t[j].cycle <= c + 1
      BY <1>0, <2>1, <2>3
    <3> HIDE DEF c, q, t
    <3> QED BY <2>1, <2>2, <2>4, <3>1, <3>2
  <2>6. CASE ConsumedStep
    <3> DEFINE f == frame_at(cursor)
    <3>1. /\ InTrace(cursor) /\ f \in TraceFrame /\ Reads(q[c + 1]) /\ Stays(q[c + 1])
          /\ Here' = Exec(q[c + 1], f.value) /\ running' /\ cursor' = cursor + 1
      BY <2>1, <2>6 DEF ConsumedStep, ReadsFrame
    <3>2. f = t[cursor + 1]
      <4>1. Readable
        BY <1>2, RunFacts DEF ReplayInv, ProcessOK
      <4> QED BY <1>0, <3>1, <4>1, FileFrame
    <3> HIDE DEF f, c, q, t
    <3>3. \A j \in 1 .. cursor + 1 : t[j].cycle <= c + 1
      <4> TAKE j \in 1 .. cursor + 1
      <4>1. j = cursor + 1 \/ j \in 1 .. cursor
        BY <1>0
      <4> QED BY <4>1, <1>0, <2>1, <2>2, <2>3, <3>1
    <3>4. (cursor + 1) + 1 = cursor + 2 /\ cursor + 1 \in 0 .. Len(t)
      BY <1>0, <2>2, <3>1
    <3> QED BY <2>1, <2>2, <2>4, <3>1, <3>2, <3>3, <3>4
  <2> QED BY <1>1, <1>2, <2>5, <2>6 DEF AnsweredStep
<1>3. DivergedStep => ~ Following'
  BY <1>0 DEF DivergedStep, Following, Exited
<1>4. Following' => cmd \in {"replay", "save"} /\ bin = recorded.bin
  BY <1>0 DEF Following
<1>5. OnPath'
  BY <1>0, <1>2, <1>3, <1>4 DEF OnPath
<1> QED
  BY <1>2, <1>5

(* A save that runs on stays a chain that read the frames in front of its  *)
(* cursor.                                                                 *)
LEMMA SavingRun ==
    ASSUME ReplayInv, RHRun, ~ SaveStop
    PROVE  SavingOK'
<1> SUFFICES ASSUME cmd = "save", running'
             PROVE  /\ cursor' <= frame_count
                    /\ Chain(bin, trace_file.frames, cursor', steps')
                    /\ Here' = steps'[Len(steps')]
                    /\ Stays(steps'[Len(steps') - 1])
                    /\ bin = recorded.bin => \A i \in 1 .. Len(steps') :
                          i \in 1 .. Len(recorded.path) /\ steps'[i] = recorded.path[i]
  BY RunFacts DEF SavingOK, frame_count
<1> DEFINE l == Len(steps)
           t == trace_file.frames
<1>1. /\ cursor <= frame_count /\ Chain(bin, t, cursor, steps) /\ Here = steps[l]
      /\ l = 1 \/ Stays(steps[l - 1])
      /\ bin = recorded.bin => \A i \in 1 .. l :
                  i \in 1 .. Len(recorded.path) /\ steps[i] = recorded.path[i]
  BY RunFacts DEF ReplayInv, SavingOK
<1>2. /\ steps \in Seq(Point) /\ l \in Nat /\ l >= 1 /\ Here.st.cycle_count = l - 1
      /\ Here' \in Point /\ cursor \in Nat /\ frame_count \in Nat
  <2>1. steps \in Seq(Point) /\ l \in Nat /\ l >= 1
    BY <1>1 DEF Chain, Execution
  <2>2. Here.st.cycle_count = l - 1
    BY <1>1, <2>1 DEF Chain, Execution
  <2>3. Here' \in Point /\ cursor \in Nat
    BY HereNext, RunFacts DEF RTypeOK
  <2>4. frame_count \in Nat
    BY RunFacts DEF RTypeOK, frame_count
  <2> QED BY <2>1, <2>2, <2>3, <2>4
<1>3. state.cycle_count = l - 1
  BY <1>2, HereFields, RunFacts
<1>4. /\ steps' = Append(steps, Here') /\ Len(steps') = l + 1 /\ steps'[l + 1] = Here'
      /\ steps'[l] = Here /\ \A i \in 1 .. l : steps'[i] = steps[i]
  BY <1>1, <1>2, RunFacts
<1>5. PlainStep \/ ConsumedStep
  BY PassKinds, RunFacts DEF AnsweredStep, DivergedStep
<1>6. Stays(Here)
  BY <1>5 DEF PlainStep, ConsumedStep, ReadsFrame
<1>7. bin = recorded.bin => \A i \in 1 .. l + 1 :
          i \in 1 .. Len(recorded.path) /\ steps'[i] = recorded.path[i]
  <2> SUFFICES ASSUME bin = recorded.bin, NEW i \in 1 .. l + 1
               PROVE  i \in 1 .. Len(recorded.path) /\ steps'[i] = recorded.path[i]
    OBVIOUS
  <2>1. CASE i \in 1 .. l
    BY <2>1, <1>1, <1>4
  <2>2. CASE i = l + 1
    <3>1. ~ DivergedStep
      BY DEF DivergedStep
    <3>2. /\ state.cycle_count + 2 \in 1 .. Len(recorded.path)
          /\ Here' = recorded.path[state.cycle_count + 2]
      BY <3>1, PathRun
    <3>3. state.cycle_count + 2 = l + 1
      BY <1>2, <1>3
    <3> QED BY <2>2, <3>2, <3>3, <1>4
  <2> QED BY <2>1, <2>2, <1>2
<1>8. cursor' <= frame_count /\ Chain(bin, t, cursor', steps')
  <2> DEFINE e == Here'
  <2>0. e \in Point /\ steps' = Append(steps, e)
    BY <1>2, <1>4
  <2>1. CASE PlainStep
    <3>1. ~ Reads(steps[l]) /\ e = Exec(steps[l], 0) /\ cursor' = cursor
      BY <2>1, <1>1 DEF PlainStep
    <3> HIDE DEF e
    <3>2. Chain(bin, t, cursor, Append(steps, e))
      BY <1>1, <1>2, <2>0, <3>1, ChainPlain
    <3> QED BY <1>1, <2>0, <3>1, <3>2
  <2>2. CASE ConsumedStep
    <3>1. /\ t[cursor + 1] \in TraceFrame /\ t[cursor + 1].cycle = l
          /\ t[cursor + 1].opcode = Op(steps[l]) /\ Reads(steps[l])
          /\ e = Exec(steps[l], t[cursor + 1].value)
          /\ cursor' = cursor + 1 /\ cursor < frame_count
      BY <2>2, <1>1, <1>2, <1>3 DEF ConsumedStep, ReadsFrame, frame_at, InTrace
    <3>2. \A j \in 1 .. cursor : t[j] = t[j]
      OBVIOUS
    <3> HIDE DEF e, t
    <3>3. Chain(bin, t, cursor + 1, Append(steps, e))
      BY <1>1, <1>2, <2>0, <3>1, <3>2, ChainReads
    <3>4. cursor + 1 <= frame_count
      BY <1>2, <3>1
    <3> QED BY <2>0, <3>1, <3>3, <3>4
  <2> QED BY <2>1, <2>2, <1>5
<1>9. Len(steps') - 1 = l
  BY <1>2, <1>4
<1> QED
  BY <1>4, <1>6, <1>7, <1>8, <1>9

(* Behind the fetch, four back is the fetched instruction, also across the *)
(* end of the address space.                                               *)
LEMMA FourBack ==
    ASSUME NEW x \in Word
    PROVE  (((x + 4) % WORD_MOD) - 4) % WORD_MOD = x
<1>1. WORD_MOD \in Nat /\ WORD_MOD >= 4 /\ x \in Nat /\ x < WORD_MOD
  BY Sizes DEF Word
<1>2. ASSUME NEW y \in Nat, NEW n \in Nat, y < n
      PROVE  y % n = y /\ (y + n) % n = y /\ (y - n) % n = y
  BY <1>2
<1>3. CASE x + 4 < WORD_MOD
  <2>1. (x + 4) % WORD_MOD = x + 4
    BY <1>1, <1>2, <1>3
  <2>2. (x + 4) - 4 = x
    BY <1>1
  <2> QED BY <1>1, <1>2, <2>1, <2>2
<1>4. CASE ~ (x + 4 < WORD_MOD)
  <2> DEFINE y == x + 4 - WORD_MOD
  <2>1. y \in Nat /\ y < WORD_MOD /\ y + WORD_MOD = x + 4
    BY <1>1, <1>4
  <2>2. (x + 4) % WORD_MOD = y
    BY <1>1, <1>2, <2>1
  <2>3. y - 4 = x - WORD_MOD
    BY <1>1
  <2> HIDE DEF y
  <2> QED BY <1>1, <1>2, <2>2, <2>3
<1> QED
  BY <1>3, <1>4

(* A save that stops leaves the last point of its run in the .state file.  *)
LEMMA StopInv ==
    ASSUME ReplayInv, RHRun, SaveStop
    PROVE  ReplayInv'
<1> DEFINE t == trace_file.frames
           l == Len(steps)
           c == state.cycle_count
<1>1. /\ cmd = "save" /\ cursor = at_frame /\ Fetched.cycle_count = t[at_frame + 1].cycle
      /\ state_file' = Checkpoint /\ phase' = phase /\ exit_code' = exit_code
      /\ source' = [bin |-> bin, trace |-> t, path |-> steps]
  BY DEF SaveStop, SaveHit, frame_at, Goes, RHRun
<1>2. ~ running' /\ state'.halted = HALT_CHECKPOINT /\ mem' = mem
  <2>1. SnapReturn(HALT_CHECKPOINT)
    BY DEF SaveStop, SoftHalt
  <2> QED BY <2>1, SnapReturns, RunFacts DEF StaysOrReturns
<1>3. /\ cursor <= frame_count /\ Chain(bin, t, cursor, steps) /\ Here = steps[l]
      /\ bin = recorded.bin => \A i \in 1 .. l :
                  i \in 1 .. Len(recorded.path) /\ steps[i] = recorded.path[i]
  BY <1>1, RunFacts DEF ReplayInv, SavingOK
<1>4. /\ l \in Nat /\ l >= 1 /\ Here.st.cycle_count = l - 1
  <2>1. l \in Nat /\ l >= 1
    BY <1>3 DEF Chain, Execution
  <2> QED BY <1>3, <2>1 DEF Chain, Execution
<1>5. c = l - 1 /\ c \in Nat /\ Fetched.cycle_count = c + 1
  BY <1>4, HereFields, TickedFields, RunFacts
<1>6. /\ at_frame \in Nat /\ at_frame + 1 \in 1 .. Len(t) /\ InTrace(at_frame)
      /\ t[at_frame + 1].cycle = l /\ Readable
  <2>1. InTrace(at_frame) /\ at_frame \in Nat /\ Readable
    BY <1>1, RunFacts DEF ReplayInv, ProcessOK, RTypeOK
  <2>2. Len(t) \in Nat
    BY RunFacts DEF RTypeOK
  <2> QED BY <1>1, <1>4, <1>5, <2>1, <2>2 DEF InTrace, frame_count
<1>7. /\ Checkpoint.frame_index = at_frame /\ Checkpoint.regs = state.regs
      /\ Checkpoint.sp = state.sp /\ Checkpoint.flags = state.flags
      /\ Checkpoint.pc = state.pc /\ Checkpoint # NoFile
  <2>1. Checkpoint.pc = state.pc
    <3>1. state.pc \in Word /\ Fetched.pc = (state.pc + 4) % WORD_MOD
      BY RunFacts DEF TypeOK, VMState, Fetched
    <3> QED BY <3>1, FourBack DEF Checkpoint
  <2>2. Checkpoint \in CheckpointState
    BY CheckpointType, RunFacts
  <2>3. Checkpoint # NoFile
    BY <2>2 DEF CheckpointState, NoFile
  <2> QED BY <2>1, <2>3 DEF Checkpoint
<1>8. /\ cmd' = "save" /\ bin' = bin /\ at_frame' = at_frame /\ trace_file' = trace_file
      /\ recorded' = recorded /\ phase' = "run" /\ RTypeOK'
  BY <1>1, RunFacts
<1>9. RecordedOK' /\ RecordingOK' /\ FileOK' /\ ProcessOK' /\ OnPath' /\ IntactReplays'
      /\ SavingOK' /\ RepeatsOK'
  <2>1. RecordedOK'
    BY <1>8 DEF ReplayInv, RecordedOK
  <2>2. RecordingOK' /\ OnPath' /\ IntactReplays' /\ SavingOK' /\ RepeatsOK'
    BY <1>2, <1>8 DEF RecordingOK, OnPath, Following, IntactReplays, Reported, Exited,
       SavingOK, RepeatsOK
  <2>3. FileOK'
    BY <1>8, RunFacts DEF ReplayInv, FileOK, Readable
  <2>4. ProcessOK'
    BY <1>2, <1>6, <1>8, RunFacts DEF ProcessOK, Readable, InTrace, frame_count, Exited
  <2> QED BY <2>1, <2>2, <2>3, <2>4
<1>10. SourceOK'
  <2>1. /\ source'.trace = t /\ source'.bin = bin /\ source'.path = steps
        /\ state_file'.frame_index = at_frame
    BY <1>1, <1>7
  <2>2. /\ Here.st.regs = state.regs /\ Here.st.pc = state.pc /\ Here.st.sp = state.sp
        /\ Here.st.flags = state.flags /\ Here.st.halted = HALT_RUNNING
    BY HereFields, RunFacts
  <2> QED BY <1>1, <1>3, <1>6, <1>7, <2>1, <2>2 DEF SourceOK
<1>11. ResumedOK'
  <2>1. source'.trace = t /\ source'.bin = bin /\ source'.path = steps
    BY <1>1
  <2> SUFFICES ASSUME bin = recorded.bin
               PROVE  \A i \in 1 .. l :
                         i \in 1 .. Len(recorded.path) /\ recorded.path[i] = steps[i]
    BY <1>8, <2>1 DEF ResumedOK
  <2> QED BY <1>3
<1>12. SaveOK'
  <2> SUFFICES /\ Checkpoint # NoFile /\ Checkpoint.frame_index = at_frame
               /\ bin = recorded.bin =>
                     decode_op(mem_load_u32(mem, Checkpoint.pc)) = frame_at(at_frame).opcode
    BY <1>1, <1>2, <1>8 DEF SaveOK, frame_at
  <2>1. decode_op(mem_load_u32(mem, Checkpoint.pc)) = Op(Here)
    BY <1>7, HereFields, RunFacts DEF Op
  <2>2. ASSUME bin = recorded.bin
        PROVE  frame_at(at_frame).opcode = Op(Here)
    <3> DEFINE f == recorded.trace[at_frame + 1]
    <3>1. frame_at(at_frame) = f /\ Complete(recorded)
          /\ at_frame + 1 \in 1 .. Len(recorded.trace)
      <4>1. frame_at(at_frame).cycle # 0
        BY <1>4, <1>6 DEF frame_at
      <4> QED BY <1>6, <4>1, FileFrame
    <3>2. f.cycle = l
      BY <1>6, <3>1 DEF frame_at
    <3>3. f.opcode = Op(recorded.path[l])
      BY <3>1, <3>2 DEF Complete, Chain, Stamped
    <3>4. recorded.path[l] = Here
      BY <1>3, <1>4, <2>2
    <3> QED BY <3>1, <3>3, <3>4
  <2> QED BY <1>7, <2>1, <2>2
<1> QED
  BY <1>8, <1>9, <1>10, <1>11, <1>12 DEF ReplayInv

(* A replay of the recorded trace never diverges.                          *)
LEMMA NeverDiverges ==
    ASSUME ReplayInv, RHRun, cmd = "replay", bin = recorded.bin,
           trace_file.frames = recorded.trace
    PROVE  ~ DivergedStep
<1> DEFINE c == state.cycle_count
           q == recorded.path
           t == recorded.trace
<1>0. c \in Nat /\ cursor \in Nat /\ Fetched.cycle_count = c + 1
  BY RunFacts, TickedFields DEF RTypeOK
<1>1. /\ Complete(recorded) /\ c + 1 < Len(q) /\ Here = q[c + 1]
      /\ Len(q) \in Nat /\ Len(t) \in Nat
      /\ cursor \in 0 .. Len(t)
      /\ \A j \in 1 .. cursor : t[j].cycle <= c
      /\ \A j \in cursor + 1 .. Len(t) : t[j].cycle > c
  BY FollowsPath
<1>2. Reads(q[c + 1]) => /\ cursor + 1 \in 1 .. Len(t)
                         /\ t[cursor + 1].cycle = c + 1
                         /\ t[cursor + 1].opcode = Op(q[c + 1])
  BY ONLY <1>0, <1>1, NextOnPath
<1>3. Reads(Here) => Consumable(Op(Here))
  <2>1. Reads(Here) => cursor < Len(t)
    BY <1>0, <1>1, <1>2
  <2> QED BY <1>0, <1>1, <1>2, <2>1 DEF Consumable, InTrace, frame_count, frame_at
<1> QED
  BY <1>3 DEF DivergedStep

(* A pass of the engine keeps the invariant.                               *)
LEMMA RunInv ==
    ASSUME ReplayInv, RHRun
    PROVE  ReplayInv'
<1>1. CASE SaveStop
  BY <1>1, StopInv
<1>2. CASE ~ SaveStop
  <2>0. /\ Executes /\ source' = source /\ state_file' \in {state_file, NoFile}
        /\ recorded' = recorded /\ cmd' = cmd /\ bin' = bin /\ at_frame' = at_frame
        /\ trace_file' = trace_file /\ RTypeOK' /\ RTypeOK /\ phase = "run" /\ running
        /\ state.halted = HALT_RUNNING /\ bin \in Programs
    BY <1>2, RunFacts
  <2>1. /\ PlainStep \/ (\E f : AnsweredStep(f)) \/ ConsumedStep \/ DivergedStep
        /\ running' => state'.halted = state.halted
    BY <2>0, PassKinds
  <2>2. \/ phase' = "run" /\ exit_code' = exit_code
        \/ DivergedStep /\ phase' = "exited" /\ exit_code' = 3 /\ ~ running' /\ cmd # "record"
    BY <2>0, <2>1 DEF PlainStep, AnsweredStep, ConsumedStep, ReadsFrame, DivergedStep
  <2>3. RecordedOK' /\ SourceOK' /\ ResumedOK'
    BY <2>0, FilesUntouched
  <2>4. RecordingOK' /\ RepeatsOK'
    <3>1. CASE cmd = "record"
      BY <1>2, <3>1, RecordingRun, RepeatsRun
    <3>2. CASE cmd # "record"
      BY <2>0, <3>2 DEF RecordingOK, RepeatsOK
    <3> QED BY <3>1, <3>2
  <2>5. FileOK'
    BY <2>0, <2>2 DEF ReplayInv, FileOK, Readable
  <2>6. running' => phase' = "run"
    BY <2>2
  <2>7. ProcessOK'
    BY <2>0, <2>1, <2>2, <2>6 DEF ReplayInv, ProcessOK, Readable, InTrace, frame_count, Exited
  <2>8. OnPath' /\ SavingOK'
    BY <1>2, PathRun, SavingRun
  <2>9. SaveOK'
    <3>1. ASSUME cmd = "save", ~ running' PROVE state'.halted # HALT_CHECKPOINT
      BY <2>0, <2>1, <3>1 DEF PlainStep, AnsweredStep, ConsumedStep, ReadsFrame, DivergedStep,
         HALT_NORMAL, HALT_UNKNOWN_OP, HALT_DIV_ZERO, HALT_CHECKPOINT, HALT_RUNNING
    <3> QED BY <2>0, <2>2, <3>1 DEF SaveOK, Exited
  <2>10. IntactReplays'
    <3> SUFFICES ASSUME cmd = "replay", phase' = "exited", bin = recorded.bin,
                        trace_file = [magic |-> TRUE, frames |-> recorded.trace]
                 PROVE  FALSE
      BY <2>0 DEF IntactReplays, Reported, Exited
    <3>1. trace_file.frames = recorded.trace
      OBVIOUS
    <3> QED BY <2>2, <3>1, NeverDiverges
  <2> QED BY <2>0, <2>3, <2>4, <2>5, <2>7, <2>8, <2>9, <2>10 DEF ReplayInv
<1> QED
  BY <1>1, <1>2

-----------------------------------------------------------------------------
(* The end of a run, flush_to_file and crashes.                            *)

(* The end of a run keeps the invariant; a replay that comes to the end of *)
(* the recorded trace has consumed all of it.                              *)
LEMMA EndInv ==
    ASSUME ReplayInv, EndRun, UNCHANGED ghosts
    PROVE  ReplayInv'
<1>1. /\ phase = "run" /\ ~ running /\ EndFrame /\ trace_file' = trace_file
  BY DEF EndRun, EndRecord, EndReplay, EndSave, EndRestore, Ends, Halted
<1>2. /\ cmd' = cmd /\ bin' = bin /\ frames' = frames /\ cursor' = cursor
      /\ at_frame' = at_frame /\ state_file' = state_file /\ state' = state /\ mem' = mem
      /\ running' = running /\ recorded' = recorded /\ source' = source /\ steps' = steps
      /\ Here' = Here
  BY <1>1 DEF EndFrame, vmVars, ghosts, Here
<1>3. \/ cmd = "record" /\ phase' = "open"
      \/ cmd # "record" /\ phase' = "exited"
  BY DEF EndRun, EndRecord, EndReplay, EndSave, EndRestore, Ends, Exit
<1>4. RTypeOK' /\ RTypeOK
  BY <1>1, FlushType DEF ReplayInv
<1>5. RecordedOK' /\ SourceOK' /\ ResumedOK'
  BY <1>2, FilesUntouched
<1>6. RecordingOK' /\ RepeatsOK'
  BY <1>1, <1>2, <1>3 DEF ReplayInv, RecordingOK, RepeatsOK
<1>7. FileOK' /\ ProcessOK'
  BY <1>1, <1>2, <1>3 DEF ReplayInv, FileOK, ProcessOK, Readable, Exited
<1>8. SavingOK'
  BY <1>1, <1>2 DEF SavingOK
<1>9. OnPath'
  <2>1. Following' => Following
    BY <1>1, <1>2, <1>3 DEF Following, Exited
  <2> QED BY <1>2, <2>1 DEF ReplayInv, OnPath
<1>10. SaveOK'
  <2>1. ASSUME cmd = "save", exit_code' = 0 PROVE state.halted = HALT_CHECKPOINT
    BY <2>1 DEF EndRun, EndRecord, EndReplay, EndSave, EndRestore, Ends, Exit
  <2> QED BY <1>1, <1>2, <1>3, <2>1 DEF ReplayInv, SaveOK, frame_at
<1>11. IntactReplays'
  <2> SUFFICES ASSUME cmd = "replay", bin = recorded.bin,
                      trace_file = [magic |-> TRUE, frames |-> recorded.trace]
               PROVE  exit_code' = recorded.code
    BY <1>1, <1>2 DEF IntactReplays, Reported
  <2> DEFINE c == state.cycle_count
             q == recorded.path
             t == recorded.trace
  <2>1. /\ recorded # Nobody /\ c + 1 \in 1 .. Len(q) /\ Here = q[c + 1]
        /\ cursor \in 0 .. Len(t)
        /\ \A j \in cursor + 1 .. Len(t) : t[j].cycle > c
        /\ ~ (c + 1 < Len(q))
    BY <1>1 DEF ReplayInv, OnPath, Following
  <2>2. Complete(recorded) /\ c \in Nat
    BY <1>4, <2>1 DEF ReplayInv, RecordedOK, RTypeOK, TypeOK, VMState
  <2>3. t \in Seq(TraceFrame) /\ Len(t) \in Nat /\ Len(q) \in Nat
    BY <2>2 DEF Complete, Chain, Execution
  <2>4. c + 1 = Len(q)
    BY <2>1, <2>2, <2>3
  <2>5. \A j \in 1 .. Len(t) : t[j].cycle \in 1 .. Len(q) - 1
    BY <2>2 DEF Complete, Chain, Stamped
  <2>6. ~ (cursor < Len(t))
    <3>1. ASSUME cursor < Len(t) PROVE FALSE
      <4>1. Len(t) \in cursor + 1 .. Len(t) /\ Len(t) \in 1 .. Len(t)
        BY <2>1, <2>3, <3>1
      <4>2. t[Len(t)].cycle > c /\ t[Len(t)].cycle \in 1 .. Len(q) - 1
        BY <2>1, <2>5, <4>1
      <4> QED BY <2>2, <2>3, <2>4, <4>2
    <3> QED BY <3>1
  <2>7. exit_code' = HaltCode
    BY <2>6 DEF EndRun, EndRecord, EndReplay, EndSave, EndRestore, Ends, Exit, frame_count
  <2>8. HaltCode = CodeAt(Here)
    BY <1>4, HereFields DEF HaltCode, CodeAt, RTypeOK
  <2> QED BY <2>1, <2>2, <2>4, <2>7, <2>8 DEF Complete
<1> QED
  BY <1>4, <1>5, <1>6, <1>7, <1>8, <1>9, <1>10, <1>11 DEF ReplayInv

(* flush_to_file opens the file: from now on the run is the recorded one.  *)
LEMMA OpenInv ==
    ASSUME ReplayInv, RHOpen
    PROVE  ReplayInv'
<1>1. /\ phase = "open" /\ phase' = "size" /\ trace_file' = NoTrace /\ EndFrame
      /\ recorded' = [bin |-> bin, trace |-> frames, path |-> steps, code |-> HaltCode]
      /\ source' = source
  BY DEF RHOpen, OpenTrace
<1>2. /\ cmd' = cmd /\ bin' = bin /\ frames' = frames /\ running' = running
      /\ state_file' = state_file /\ state' = state
  BY <1>1 DEF EndFrame, vmVars
<1>3. cmd = "record" /\ ~ running
  BY <1>1 DEF ReplayInv, FileOK
<1>4. RTypeOK' /\ RTypeOK
  BY <1>1, FlushType DEF ReplayInv, RHOpen, Flush
<1>5. /\ Chain(bin, frames, Len(frames), steps) /\ Here = steps[Len(steps)]
      /\ Len(steps) # 1 /\ ~ Stays(steps[Len(steps) - 1])
  BY <1>1, <1>3 DEF ReplayInv, RecordingOK
<1>6. Len(steps) \in Nat /\ Len(steps) >= 2 /\ frames \in Seq(TraceFrame)
  <2>1. steps \in Seq(Point) /\ Len(steps) >= 1
    BY <1>5 DEF Chain, Execution
  <2>2. Len(steps) \in Nat
    BY <2>1
  <2>3. frames \in Seq(TraceFrame)
    BY <1>4 DEF RTypeOK
  <2>4. Len(steps) # 1
    BY <1>5
  <2> DEFINE n == Len(steps)
  <2>5. n \in Nat /\ n >= 1 /\ n # 1
    BY <2>1, <2>2, <2>4
  <2> HIDE DEF n
  <2>6. n >= 2
    BY ONLY <2>5
  <2> QED BY <2>2, <2>3, <2>6 DEF n
<1>7. HaltCode = CodeAt(Here) /\ HaltCode \in {0, 2}
  BY <1>4, HereFields DEF HaltCode, CodeAt, RTypeOK
<1>8. /\ recorded'.bin = bin /\ recorded'.trace = frames /\ recorded'.path = steps
      /\ recorded'.code = HaltCode
  BY <1>1
<1> DEFINE r == recorded'
<1>9. Complete(r) /\ r # Nobody
  <2>1. Complete(r)
    BY <1>5, <1>6, <1>7, <1>8 DEF Complete
  <2>2. Nobody.code = -1 /\ r.code \in {0, 2}
    BY <1>7, <1>8 DEF Nobody
  <2> QED BY <2>1, <2>2
<1>10. RecordedOK'
  BY <1>9 DEF RecordedOK
<1>11. FileOK'
  BY <1>1, <1>2, <1>3, <1>8, <1>9 DEF FileOK, Readable, NoTrace
<1>12. ProcessOK'
  BY <1>1, <1>2, <1>3 DEF ProcessOK, Exited
<1>13. RecordingOK' /\ OnPath' /\ SaveOK' /\ IntactReplays' /\ SavingOK' /\ RepeatsOK'
  BY <1>1, <1>2, <1>3 DEF RecordingOK, OnPath, Following, SaveOK, IntactReplays, Reported,
     SavingOK, RepeatsOK
<1>14. SourceOK'
  BY <1>1, <1>2 DEF ReplayInv, SourceOK
<1>15. ResumedOK'
  <2> SUFFICES ASSUME state_file # NoFile, source.bin = bin, source.trace = frames,
                      NEW i \in 1 .. Len(source.path)
               PROVE  i \in 1 .. Len(steps) /\ steps[i] = source.path[i]
    BY <1>1, <1>2, <1>8 DEF ResumedOK
  <2> DEFINE k == state_file.frame_index
  <2>1. /\ k + 1 \in 1 .. Len(source.trace)
        /\ source.trace[k + 1].cycle = Len(source.path)
        /\ Chain(source.bin, source.trace, k, source.path)
    BY DEF ReplayInv, SourceOK
  <2>2. Len(source.path) \in 1 .. Len(steps) - 1
    BY <1>5, <2>1 DEF Chain, Stamped
  <2>3. i \in 1 .. Len(steps)
    BY <1>6, <2>2
  <2>4. \A j \in 1 .. Len(frames) : j \in 1 .. Len(source.trace) /\ frames[j] = source.trace[j]
    OBVIOUS
  <2>5. steps[i] = source.path[i]
    BY <1>1, <1>3, <2>3, <2>4 DEF ReplayInv, RepeatsOK
  <2> QED BY <2>3, <2>5
<1> QED
  BY <1>4, <1>10, <1>11, <1>12, <1>13, <1>14, <1>15 DEF ReplayInv

(* The other steps of flush_to_file.                                       *)
LEMMA FlushInv ==
    ASSUME ReplayInv, SizeTrace \/ WriteHeader \/ WriteFrame \/ SyncTrace \/ FlushFails,
           UNCHANGED ghosts
    PROVE  ReplayInv'
<1>1. /\ EndFrame /\ phase \in {"open", "size", "header", "frames"}
      /\ phase' \in {"header", "frames", "exited"}
  BY DEF SizeTrace, WriteHeader, WriteFrame, SyncTrace, FlushFails, Exit
<1>2. /\ cmd' = cmd /\ bin' = bin /\ frames' = frames /\ running' = running
      /\ state_file' = state_file /\ state' = state
      /\ recorded' = recorded /\ source' = source
  BY <1>1 DEF EndFrame, vmVars, ghosts
<1>3. cmd = "record" /\ ~ running
  BY <1>1 DEF ReplayInv, FileOK
<1>4. RTypeOK' /\ RTypeOK
  <2>1. phase = "frames" => Len(trace_file.frames) = Len(frames)
    BY DEF ReplayInv, FileOK, Torn
  <2> QED BY <2>1, FlushType DEF ReplayInv, Flush
<1>5. RecordedOK' /\ SourceOK' /\ ResumedOK'
  BY <1>2, FilesUntouched
<1>6. RecordingOK' /\ OnPath' /\ SaveOK' /\ IntactReplays' /\ SavingOK' /\ RepeatsOK'
  BY <1>1, <1>2, <1>3 DEF RecordingOK, OnPath, Following, SaveOK, IntactReplays, Reported,
     SavingOK, RepeatsOK
<1>7. ProcessOK'
  BY <1>1, <1>2, <1>3 DEF ProcessOK, Exited
<1>8. FileOK'
  <2> DEFINE F == TraceFrame \cup {ZeroFrame}
  <2>0. trace_file \in [magic : BOOLEAN, frames : Seq(F)] /\ Len(frames) \in Nat
    BY <1>4 DEF RTypeOK
  <2> HIDE DEF F
  <2>1. CASE SizeTrace
    <3>1. /\ trace_file'.magic = FALSE /\ phase' = "header"
          /\ trace_file'.frames = [i \in 1 .. Len(frames) |-> ZeroFrame]
          /\ recorded # Nobody /\ recorded.trace = frames
      BY <2>1 DEF SizeTrace, ReplayInv, FileOK
    <3> DEFINE z == [i \in 1 .. Len(frames) |-> ZeroFrame]
    <3>2. Len(z) = Len(frames) /\ \A j \in 1 .. Len(frames) : z[j] = ZeroFrame
      BY <2>0
    <3> HIDE DEF z
    <3>3. Torn(z, frames)
      BY <3>2 DEF Torn
    <3> QED BY <1>2, <1>3, <3>1, <3>3 DEF FileOK, Readable, z
  <2>2. CASE WriteHeader
    <3>1. trace_file'.frames = trace_file.frames /\ phase = "header" /\ phase' = "frames"
      BY <2>0, <2>2 DEF WriteHeader
    <3> QED BY <1>2, <1>3, <3>1 DEF ReplayInv, FileOK
  <2>3. CASE WriteFrame
    <3> DEFINE w == written + 1
               g == trace_file'.frames
    <3>1. /\ phase = "frames" /\ phase' = "frames" /\ w \in 1 .. Len(frames)
          /\ g = [trace_file.frames EXCEPT ![w] = frames[w]]
          /\ recorded # Nobody /\ recorded.trace = frames /\ Torn(trace_file.frames, frames)
      BY <1>4, <2>0, <2>3, WrittenNat DEF WriteFrame, ReplayInv, FileOK
    <3>2. Torn(g, frames)
      <4> HIDE DEF w, g
      <4>1. Len(g) = Len(trace_file.frames) /\ Len(trace_file.frames) = Len(frames)
            /\ DOMAIN trace_file.frames = 1 .. Len(frames)
        BY <2>0, <3>1 DEF Torn
      <4> QED BY <3>1, <4>1 DEF Torn
    <3> QED BY <1>2, <1>3, <3>1, <3>2 DEF FileOK
  <2>4. CASE SyncTrace \/ FlushFails
    <3>1. trace_file' = trace_file /\ phase' = "exited"
      BY <2>4 DEF SyncTrace, FlushFails, Exit
    <3> QED BY <1>2, <3>1 DEF ReplayInv, FileOK, Readable
  <2> QED BY <2>1, <2>2, <2>3, <2>4
<1> QED
  BY <1>4, <1>5, <1>6, <1>7, <1>8 DEF ReplayInv

(* A crash keeps the invariant: what it loses of the file becomes zeros.   *)
LEMMA CrashInv ==
    ASSUME ReplayInv, RHCrash
    PROVE  ReplayInv'
<1>1. /\ cmd' = "none" /\ phase' = "exited" /\ ~ running' /\ exit_code' = KILLED
      /\ recorded' = recorded /\ source' = source /\ state_file' \in {state_file, NoFile}
  BY DEF RHCrash, Kill, PowerLoss, Crashes, Exit
<1>2. RTypeOK' /\ RTypeOK
  BY CrashType DEF ReplayInv, RHCrash
<1>3. RecordedOK' /\ SourceOK' /\ ResumedOK'
  BY <1>1, FilesUntouched
<1>4. RecordingOK' /\ ProcessOK' /\ OnPath' /\ SaveOK' /\ IntactReplays' /\ SavingOK' /\ RepeatsOK'
  BY <1>1 DEF RecordingOK, ProcessOK, OnPath, Following, SaveOK, IntactReplays, Reported,
     SavingOK, RepeatsOK, Exited
<1>5. FileOK'
  <2>1. CASE trace_file' = trace_file
    BY <1>1, <2>1 DEF ReplayInv, FileOK, Readable
  <2>2. CASE PowerLoss
    <3>1. PICK lost, m :
             trace_file' = [magic |-> m,
                            frames |-> [i \in DOMAIN trace_file.frames |->
                              IF i \in lost THEN ZeroFrame ELSE trace_file.frames[i]]]
      BY <2>2 DEF PowerLoss
    <3> DEFINE f == trace_file.frames
               t == recorded.trace
               g == [i \in DOMAIN f |-> IF i \in lost THEN ZeroFrame ELSE f[i]]
    <3>2. Torn(f, t) /\ recorded # Nobody /\ trace_file'.frames = g
          /\ f \in Seq(TraceFrame \cup {ZeroFrame})
      BY <1>2, <2>2, <3>1 DEF PowerLoss, ReplayInv, FileOK, RTypeOK
    <3> HIDE DEF f, t
    <3>3. DOMAIN f = 1 .. Len(f) /\ Len(g) = Len(f) /\ Len(f) = Len(t)
      BY <3>2 DEF Torn
    <3>4. \A j \in 1 .. Len(t) : g[j] \in {t[j], ZeroFrame}
      BY <3>2, <3>3 DEF Torn
    <3> HIDE DEF g
    <3>5. Torn(g, t)
      BY <3>3, <3>4 DEF Torn
    <3> QED BY <1>1, <3>2, <3>5 DEF FileOK, t
  <2> QED BY <2>1, <2>2 DEF RHCrash, Kill
<1> QED
  BY <1>2, <1>3, <1>4, <1>5 DEF ReplayInv

(* The first state.                                                        *)
LEMMA InitInv == RHInit => ReplayInv
<1> SUFFICES ASSUME RHInit PROVE ReplayInv
  OBVIOUS
<1>1. /\ state = PowerOn /\ mem = ZeroMemory /\ deltas = << >> /\ snap_sink = FALSE
      /\ dispatch_mode = "ComputedGoto" /\ running = FALSE
      /\ cmd = "none" /\ bin = << >> /\ phase = "exited" /\ exit_code = 0
      /\ frames = << >> /\ cursor = 0 /\ at_frame = 0 /\ saved = FALSE
      /\ trace_file = NoTrace /\ state_file = NoFile
      /\ recorded = Nobody
  BY DEF RHInit, RInit
<1>2. TypeOK
  <2>1. 0 \in Byte
    BY MachineAssumption DEF Byte
  <2>2. mem \in Memory
    BY <1>1, <2>1 DEF ZeroMemory, Memory
  <2>3. state \in VMState /\ deltas \in Seq(MemDelta)
    BY <1>1, PowerOnType
  <2> QED BY <1>1, <2>2, <2>3 DEF TypeOK, DispatchModes
<1>3. frames \in Seq(TraceFrame) /\ trace_file.magic = FALSE
      /\ trace_file \in [magic : BOOLEAN, frames : Seq(TraceFrame \cup {ZeroFrame})]
  BY <1>1 DEF NoTrace
<1>4. RTypeOK
  BY <1>1, <1>2, <1>3 DEF RTypeOK, Commands, Phases
<1>5. RecordedOK /\ RecordingOK /\ FileOK /\ ProcessOK
  BY <1>1, <1>3 DEF RecordedOK, RecordingOK, FileOK, ProcessOK, Readable
<1>6. OnPath /\ SaveOK /\ IntactReplays /\ SavingOK /\ SourceOK /\ RepeatsOK /\ ResumedOK
  BY <1>1 DEF OnPath, Following, SaveOK, IntactReplays, Reported, SavingOK, SourceOK,
     RepeatsOK, ResumedOK
<1> QED
  BY <1>4, <1>5, <1>6 DEF ReplayInv

(* ReplayInv is inductive.                                                 *)
LEMMA ReplayInvariant == RHSpec => []ReplayInv
<1>1. ReplayInv /\ [RHNext]_hrvars => ReplayInv'
  <2> SUFFICES ASSUME ReplayInv, [RHNext]_hrvars PROVE ReplayInv'
    OBVIOUS
  <2>1. CASE RHStart
    BY <2>1, StartInv
  <2>2. CASE RHRun
    BY <2>2, RunInv
  <2>3. CASE RHOpen
    BY <2>3, OpenInv
  <2>4. CASE RHRest
    BY <2>4, EndInv, FlushInv, OpenInv DEF RHRest
  <2>5. CASE RHCrash
    BY <2>5, CrashInv
  <2>6. CASE UNCHANGED hrvars
    BY <2>6 DEF hrvars, rvars, vmVars, procVars, disk, ghosts, ReplayInv, RTypeOK, TypeOK,
       RecordedOK, RecordingOK, FileOK, ProcessOK, OnPath, Following, SaveOK, IntactReplays,
       SavingOK, SourceOK, RepeatsOK, ResumedOK, Readable, InTrace, frame_count, frame_at,
       Exited, Reported, Here
  <2> QED BY <2>1, <2>2, <2>3, <2>4, <2>5, <2>6 DEF RHNext
<1> QED
  BY <1>1, InitInv, PTL DEF RHSpec

-----------------------------------------------------------------------------
(* What the invariant gives.                                               *)

(* A finite set of positions has a natural number of members.              *)
LEMMA PositionsCount ==
    ASSUME NEW n \in Nat, NEW S, S \subseteq 1 .. n
    PROVE  IsFiniteSet(S) /\ Cardinality(S) \in Nat
<1>1. IsFiniteSet(1 .. n)
  BY FS_Interval
<1>2. IsFiniteSet(S)
  BY <1>1, FS_Subset
<1> QED
  BY <1>2, FS_CardinalityType

(* Disjoint finite sets: their sizes add up.                               *)
LEMMA DisjointUnion ==
    ASSUME NEW S, NEW T, IsFiniteSet(S), IsFiniteSet(T), S \cap T = {}
    PROVE  IsFiniteSet(S \cup T) /\ Cardinality(S \cup T) = Cardinality(S) + Cardinality(T)
<1>1. /\ IsFiniteSet(S \cup T)
      /\ Cardinality(S \cup T) = Cardinality(S) + Cardinality(T) - Cardinality(S \cap T)
  BY FS_Union
<1>2. Cardinality(S \cap T) = 0
  BY FS_EmptySet
<1>3. Cardinality(S) \in Nat /\ Cardinality(T) \in Nat
  BY FS_CardinalityType
<1> QED
  BY <1>1, <1>2, <1>3

(* The frames of a file that holds frames or zeros are those of IN, those  *)
(* of RAND and the zeros; only the zeros are counted as op_other.          *)
LEMMA OtherCountsZeros ==
    ASSUME RTypeOK
    PROVE  op_other_count = 0 <=>
               \A j \in 1 .. frame_count : trace_file.frames[j] # ZeroFrame
<1> DEFINE f == trace_file.frames
           n == Len(f)
           I == {i \in DOMAIN f : f[i].opcode \in {OP_IN}}
           R == {i \in DOMAIN f : f[i].opcode \in {OP_RAND}}
           Z == {i \in DOMAIN f : f[i] = ZeroFrame}
<1>1. f \in Seq(TraceFrame \cup {ZeroFrame})
  BY DEF RTypeOK
<1>2. n \in Nat /\ DOMAIN f = 1 .. n
  BY <1>1
<1>3. \A j \in 1 .. n : f[j] \in TraceFrame \cup {ZeroFrame}
  BY <1>1, <1>2
<1>4. I \subseteq 1 .. n /\ R \subseteq 1 .. n /\ Z \subseteq 1 .. n
  BY <1>2
<1>5. I \cap R = {} /\ (I \cup R) \cap Z = {}
  BY Opcodes DEF ZeroFrame, OP_IN, OP_RAND
<1>6. (I \cup R) \cup Z = 1 .. n
  <2>1. ASSUME NEW j \in 1 .. n PROVE j \in (I \cup R) \cup Z
    <3>1. CASE f[j] = ZeroFrame
      BY <1>2, <3>1
    <3>2. CASE f[j] \in TraceFrame
      BY <1>2, <3>2 DEF TraceFrame
    <3> QED BY <1>3, <3>1, <3>2
  <2> QED BY <1>4, <2>1
<1>7. op_other_count = n - Cardinality(I) - Cardinality(R)
  BY DEF op_other_count, op_in_count, op_rand_count, frames_with, frame_count
<1>8. (Z = {}) <=> \A j \in 1 .. n : f[j] # ZeroFrame
  BY <1>2
<1> HIDE DEF I, R, Z, n
<1>9. /\ IsFiniteSet(I) /\ IsFiniteSet(R) /\ IsFiniteSet(Z)
      /\ Cardinality(I) \in Nat /\ Cardinality(R) \in Nat /\ Cardinality(Z) \in Nat
  BY <1>2, <1>4, PositionsCount
<1>10. IsFiniteSet(I \cup R) /\ Cardinality(I \cup R) = Cardinality(I) + Cardinality(R)
  BY <1>5, <1>9, DisjointUnion
<1>11. Cardinality((I \cup R) \cup Z) = Cardinality(I \cup R) + Cardinality(Z)
  BY <1>5, <1>9, <1>10, DisjointUnion
<1>12. Cardinality(1 .. n) = n
  <2>1. Cardinality(1 .. n) = IF 1 > n THEN 0 ELSE n - 1 + 1
    BY <1>2, FS_Interval
  <2> QED BY <1>2, <2>1
<1>13. op_other_count = Cardinality(Z)
  <2> DEFINE i == Cardinality(I)
             r == Cardinality(R)
             z == Cardinality(Z)
  <2>1. i \in Nat /\ r \in Nat /\ z \in Nat /\ n \in Nat
    BY <1>2, <1>9
  <2>2. n = i + r + z /\ op_other_count = n - i - r
    BY <1>6, <1>7, <1>10, <1>11, <1>12
  <2> HIDE DEF i, r, z
  <2>3. n - i - r = z
    BY ONLY <2>1, <2>2
  <2> QED BY <2>2, <2>3 DEF z
<1>14. Cardinality(Z) = 0 <=> Z = {}
  BY <1>9, FS_EmptySet
<1>15. frame_count = n
  BY DEF frame_count, n
<1> QED
  BY <1>8, <1>13, <1>14, <1>15

(* Every value that record, replay, save and restore handle has its C++    *)
(* type; in particular the cycle_count that cmd_restore derives never      *)
(* wraps below zero, whatever a crash left in the files.                   *)
THEOREM ReplayTypes == RHSpec => []RTypeOK
<1>1. ReplayInv => RTypeOK
  BY DEF ReplayInv
<1> QED
  BY <1>1, ReplayInvariant, PTL

(* "replay VERIFIED" can be believed: a cmd_replay of the recorded program *)
(* that exits 0 or 2 ended in the registers, the cycle count and the       *)
(* memory of the recording, for every program, input and crash.            *)
THEOREM VerifiedCanBeBelieved == RHSpec => []VerifiedIsFaithful
<1>1. ReplayInv => VerifiedIsFaithful
  <2> SUFFICES ASSUME ReplayInv, Reported("replay"), exit_code \in {0, 2} PROVE Here = final
    BY DEF VerifiedIsFaithful
  <2>1. Following /\ ~ running
    BY DEF Following, Reported, ReplayInv, ProcessOK
  <2>2. /\ recorded # Nobody /\ Here = recorded.path[state.cycle_count + 1]
        /\ state.cycle_count + 1 \in 1 .. Len(recorded.path)
        /\ running <=> state.cycle_count + 1 < Len(recorded.path)
    BY <2>1 DEF ReplayInv, OnPath
  <2>3. recorded.path \in Seq(Point)
    BY <2>2 DEF ReplayInv, RecordedOK, Complete, Chain, Execution
  <2>4. Len(recorded.path) \in Nat
    BY <2>3
  <2>5. state.cycle_count + 1 = Len(recorded.path)
    BY <2>1, <2>2, <2>4
  <2> QED BY <2>2, <2>5 DEF final
<1> QED
  BY <1>1, ReplayInvariant, PTL

(* A completely written trace replays: cmd_replay of the recorded program  *)
(* reports what the recording reported and never a divergence.             *)
THEOREM IntactTraceReplays == RHSpec => []IntactReplays
<1>1. ReplayInv => IntactReplays
  BY DEF ReplayInv
<1> QED
  BY <1>1, ReplayInvariant, PTL

(* The `trace` command gives every torn file away, and a file it finds no  *)
(* fault with is the recorded trace, whose cycles do not run backwards.    *)
THEOREM TornFileShows == RHSpec => []TornShows
<1>1. ReplayInv => TornShows
  <2> SUFFICES ASSUME ReplayInv, Readable
               PROVE  /\ op_other_count = 0 <=> trace_file.frames = recorded.trace
                      /\ op_other_count = 0 /\ frame_count > 0 => first_cycle <= last_cycle
    BY DEF TornShows
  <2> DEFINE f == trace_file.frames
             t == recorded.trace
  <2>1. Complete(recorded) /\ Torn(f, t)
    BY DEF ReplayInv, FileOK, RecordedOK
  <2>2. t \in Seq(TraceFrame) /\ f \in Seq(TraceFrame \cup {ZeroFrame})
    BY <2>1 DEF Complete, ReplayInv, RTypeOK
  <2>3. Len(t) \in Nat /\ Len(f) = Len(t) /\ frame_count = Len(t)
    BY <2>1, <2>2 DEF Torn, frame_count
  <2>4. \A j \in 1 .. Len(t) : t[j] \in TraceFrame
    BY <2>2
  <2>5. \A j \in 1 .. Len(t) : t[j] # ZeroFrame
    BY <2>4, Opcodes DEF TraceFrame, ZeroFrame
  <2>6. \A j \in 1 .. Len(t) : f[j] \in {t[j], ZeroFrame}
    BY <2>1 DEF Torn
  <2>7. op_other_count = 0 <=> \A j \in 1 .. Len(t) : f[j] # ZeroFrame
    BY <2>3, OtherCountsZeros DEF ReplayInv
  <2>8. ASSUME op_other_count = 0 PROVE f = t
    <3>1. \A j \in 1 .. Len(t) : f[j] = t[j]
      BY <2>6, <2>7, <2>8
    <3> QED BY <2>2, <2>3, <3>1
  <2>9. ASSUME f = t PROVE op_other_count = 0
    BY <2>5, <2>7, <2>9
  <2>10. ASSUME op_other_count = 0, frame_count > 0 PROVE first_cycle <= last_cycle
    <3>1. first_cycle = t[1].cycle /\ last_cycle = t[Len(t)].cycle
      <4>1. first_cycle = f[0 + 1].cycle /\ last_cycle = f[Len(t) - 1 + 1].cycle
        BY <2>3 DEF first_cycle, last_cycle, frame_at
      <4>2. 0 + 1 = 1 /\ Len(t) - 1 + 1 = Len(t)
        BY <2>3
      <4> QED BY <2>8, <2>10, <4>1, <4>2
    <3>2. 1 \in 1 .. Len(t) /\ Len(t) \in 1 .. Len(t)
      BY <2>3, <2>10
    <3>3. t[1].cycle \in Nat
      BY <2>4, <3>2 DEF TraceFrame
    <3>4. CASE Len(t) = 1
      BY <3>1, <3>3, <3>4
    <3>5. CASE 1 < Len(t)
      <4>1. \A j, k \in 1 .. Len(t) : j < k => t[j].cycle < t[k].cycle
        BY <2>1 DEF Complete, Chain, Stamped
      <4>2. t[1].cycle < t[Len(t)].cycle /\ t[Len(t)].cycle \in Nat
        BY <2>4, <3>2, <3>5, <4>1 DEF TraceFrame
      <4> DEFINE a == t[1].cycle
                 b == t[Len(t)].cycle
      <4>3. a \in Nat /\ b \in Nat /\ a < b /\ first_cycle = a /\ last_cycle = b
        BY <3>1, <3>3, <4>2
      <4> HIDE DEF a, b
      <4>4. a <= b
        BY ONLY <4>3
      <4> QED BY <4>3, <4>4
    <3>6. Len(t) = 1 \/ 1 < Len(t)
      <4> DEFINE n == Len(t)
      <4>1. n \in Nat /\ n > 0
        BY <2>3, <2>10
      <4> HIDE DEF n
      <4>2. n = 1 \/ 1 < n
        BY ONLY <4>1
      <4> QED BY <4>2 DEF n
    <3> QED BY <3>4, <3>5, <3>6
  <2> QED BY <2>8, <2>9, <2>10
<1> QED
  BY <1>1, ReplayInvariant, PTL

(* cmd_save exits 0 only with a checkpoint on disk that names the frame    *)
(* asked for and stands in front of the IN or RAND which reads it.         *)
THEOREM SaveIsTruthful == RHSpec => []SaveTellsTruth
<1>1. ReplayInv => SaveTellsTruth
  BY DEF ReplayInv, SaveOK, SaveTellsTruth, Reported
<1> QED
  BY <1>1, ReplayInvariant, PTL

(* The CPU state that cmd_restore starts from, with the cycle_count it     *)
(* derives, is that of the recording in front of the same instruction.     *)
THEOREM RestorePointCorrect == RHSpec => []RestorePointExact
<1>1. ReplayInv => RestorePointExact
  <2> SUFFICES ASSUME ReplayInv, Resumed
               PROVE  /\ Restored.cycle_count + 1 \in DOMAIN recorded.path
                      /\ Restored = recorded.path[Restored.cycle_count + 1].st
    BY DEF RestorePointExact
  <2> DEFINE k == state_file.frame_index
             n == Len(source.path)
             e == source.path[n].st
  <2>1. /\ Readable /\ state_file # NoFile /\ InTrace(k) /\ frame_at(k).cycle # 0
        /\ source.bin = recorded.bin /\ source.trace = recorded.trace
    BY DEF Resumed, CanRestore
  <2>2. k \in Nat
    BY <2>1 DEF ReplayInv, RTypeOK, CheckpointState
  <2>3. recorded # Nobody /\ Complete(recorded) /\ frame_at(k) = recorded.trace[k + 1]
    BY <2>1, <2>2, FileFrame
  <2>4. /\ source.trace[k + 1].cycle = n
        /\ Chain(source.bin, source.trace, k, source.path)
        /\ e.halted = HALT_RUNNING
        /\ e.regs = state_file.regs /\ e.pc = state_file.pc
        /\ e.sp = state_file.sp /\ e.flags = state_file.flags
    BY <2>1 DEF ReplayInv, SourceOK
  <2>5. /\ source.path \in Seq(Point) /\ n >= 1
        /\ \A i \in 1 .. n : source.path[i].st.cycle_count = i - 1
    BY <2>4 DEF Chain, Execution
  <2>6. n \in Nat /\ n \in 1 .. n
    BY <2>5
  <2>7. e.cycle_count = n - 1 /\ e \in CoreState
    <3>1. source.path[n] \in Point
      BY <2>5, <2>6
    <3> QED BY <2>5, <2>6, <3>1 DEF Point
  <2>8. n \in 1 .. Len(recorded.path) /\ recorded.path[n] = source.path[n]
    BY <2>1, <2>3, <2>6 DEF ReplayInv, ResumedOK
  <2>9. recorded.path \in Seq(Point)
    BY <2>3 DEF Complete, Chain, Execution
  <2>10. Restored = [PowerOn EXCEPT !.cycle_count = n - 1, !.regs = e.regs, !.pc = e.pc,
                                    !.sp = e.sp, !.flags = e.flags]
    BY <2>1, <2>3, <2>4 DEF Restored
  <2> HIDE DEF n, e
  <2>11. Restored = [cycle_count |-> n - 1, regs |-> e.regs, pc |-> e.pc, sp |-> e.sp,
                     flags |-> e.flags, halted |-> HALT_RUNNING,
                     snap_interval |-> 0, snap_timer |-> 0]
    BY <2>10 DEF PowerOn
  <2>12. e = [cycle_count |-> n - 1, regs |-> e.regs, pc |-> e.pc, sp |-> e.sp,
              flags |-> e.flags, halted |-> HALT_RUNNING,
              snap_interval |-> 0, snap_timer |-> 0]
    BY <2>4, <2>7 DEF CoreState
  <2>13. Restored.cycle_count + 1 = n
    BY <2>6, <2>11
  <2>14. e = recorded.path[n].st /\ n \in DOMAIN recorded.path
    BY <2>8, <2>9 DEF e
  <2> QED BY <2>11, <2>12, <2>13, <2>14
<1> QED
  BY <1>1, ReplayInvariant, PTL

=============================================================================
