------------------------------ MODULE MTMainMC ------------------------------
(* Pairs of short programs that meet in a data memory of two words.        *)
(* Register 0 stays 0 and register 2 is 0 or 4, so that addresses are in   *)
(* range; register 1 takes any value.                                      *)
EXTENDS MTMain, SequencesExt
CONSTANT MaxLen  \* bound: instructions of a program before its HALT
I(o, d, s, t, m) == [opcode |-> o, dst |-> d, src1 |-> s, src2 |-> t, imm |-> m]
MCHalt == I("HALT", 0, 0, 0, FALSE)
MCBody == {I("ADDI", 2, 0, 4, TRUE), I("SUB", 1, 2, 1, FALSE),
           I("LOAD", 1, 2, 0, TRUE), I("STORE", 2, 2, 0, TRUE)}
MCInstructions == MCBody \cup {MCHalt}
MCPrograms == {Append(b, MCHalt) : b \in BoundedSeq(MCBody, MaxLen)}
MCImages ==
  {[prog |-> p, load |-> 2, store |-> 1, switch |-> 1,
    data_start |-> 0, data |-> [k \in 0 .. 1 |-> 5 + k]] :
     p \in [0 .. ThreadNum - 1 -> MCPrograms]}
=============================================================================
