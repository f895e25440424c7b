----------------------------- MODULE TimeTravel -----------------------------
(***************************************************************************)
(* What a time-travel debugger promises, without an engine, an undo log or *)
(* a replay cursor: the user looks at one moment of a bounded past.  Going *)
(* forward forgets the future that was rewound and adds one moment; going  *)
(* back shows an older moment exactly as it was and forgets nothing.       *)
(* Module Debugger is shown to implement this (TravelRefinement).          *)
(***************************************************************************)
EXTENDS Integers, Sequences

CONSTANT Capacity   \* moments that are remembered

VARIABLES
    past,  \* the remembered moments, oldest first
    pos,   \* which of them the user is at
    now    \* the moment the user sees; a record with a field cycle_count

ttvars == << past, pos, now >>

(* At most Capacity moments, the newest ones.                              *)
Newest(seq) == IF Len(seq) > Capacity THEN Tail(seq) ELSE seq

Init == past = << now >> /\ pos = 1

(* One cycle forward.                                                      *)
Advance ==
    /\ now'.cycle_count = now.cycle_count + 1
    /\ past' = Newest(Append(SubSeq(past, 1, pos), now'))
    /\ pos' = Len(past')

(* n moments back, if that many are remembered.                            *)
Rewind(n) ==
    /\ n < pos
    /\ pos' = pos - n
    /\ now' = past[pos - n]
    /\ UNCHANGED past

Next == Advance \/ \E n \in 1 .. Len(past) : Rewind(n)

Spec == Init /\ [][Next]_ttvars

=============================================================================
