------------------------------ MODULE MTCoreMC ------------------------------
(* Programs of two threads that meet in a data memory of two words.        *)
(* Register 0 stays 0 and register 2 is 0 or 4, so that addresses are in   *)
(* range; register 1 takes any value.                                      *)
EXTENDS MTCore, SequencesExt
CONSTANT MaxLen  \* bound: instructions of a program before its HALT
I(o, d, s, t, m) == [opcode |-> o, dst |-> d, src1 |-> s, src2 |-> t, imm |-> m]
MCHalt == I("HALT", 0, 0, 0, FALSE)
MCBody == {I("NOP", 0, 0, 0, FALSE),  I("ADDI", 2, 0, 4, TRUE),
           I("ADD", 1, 1, 2, FALSE),  I("SUB", 1, 2, 1, FALSE),
           I("SUBI", 1, 1, 3, TRUE),  I("LOAD", 1, 2, 0, TRUE),
           I("LOAD", 1, 0, 2, FALSE), I("STORE", 0, 1, 4, TRUE),
           I("STORE", 2, 1, 0, FALSE)}
MCInstructions == MCBody \cup {MCHalt}
MCPrograms == {Append(b, MCHalt) : b \in BoundedSeq(MCBody, MaxLen)}
MCImages ==
  {[prog |-> p, load |-> 2, store |-> 1, switch |-> 1,
    data_start |-> 0, data |-> [k \in 0 .. 1 |-> 5 + k]] :
     p \in [0 .. ThreadNum - 1 -> MCPrograms]}
=============================================================================
