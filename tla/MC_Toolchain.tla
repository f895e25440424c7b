---------------------------- MODULE MC_Toolchain ----------------------------
(***************************************************************************)
(* Sources for the toolchain on a machine with 16-bit words whose fields   *)
(* lie as in the code: the opcode is in the last byte of an instruction.   *)
(***************************************************************************)
EXTENDS ToolHistory

R0 == RegTok(0)
R1 == RegTok(1)

(* Three stores to one cell, then an overlapping one, and an implicit HALT.*)
StoresAndComments ==
    << asm("LI", R0, NumTok(63)), Blank, asm("STORE", R0, NumTok(40)),
       asm("STORE", R1, NumTok(40)), asm("STORE", R0, NumTok(41)) >>

(* Reads an input and loops on it.                                         *)
ReadsAndLoops == << asm("IN", RWord, Junk), asm("STORE", R0, NumTok(60)),
                    asm("JNZ", R0, NumTok(4)), asm("HALT", Missing, Missing) >>

(* A division that traps.                                                  *)
Traps == << asm("RAND", R1, Missing), asm("DIV", R0, R1), asm("JUMP", NumTok(0), R1) >>

(* Bad: a register the machine does not have, behind a good line.          *)
Bad == << asm("LI", R0, NumTok(1)), asm("ADD", R0, RegTok(NREGS)) >>

(* One instruction more than the memory holds.                             *)
TooLarge == [i \in 1 .. 17 |-> asm("MUL", R0, R0)]

MCSources == { StoresAndComments, ReadsAndLoops, Traps, Bad, TooLarge }

=============================================================================
