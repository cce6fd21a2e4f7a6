------------------------------ MODULE DflowMC ------------------------------
(* Two opcodes and three registers: readers of unwritten registers, of     *)
(* register 0, of two others and of their own destination, a writer of     *)
(* register 0, and an instruction whose register does not exist.           *)
EXTENDS DflowGraph
I(o, d, s, t) == [opcode |-> o, dst |-> d, src1 |-> s, src2 |-> t]
MCInstructions ==
  {I(0, 1, 0, 0), I(1, 2, 0, 1), I(0, 2, 2, 1), I(1, 1, 1, 2), I(1, 0, 2, 2),
   I(0, 1, 1, 0), I(0, 2, 0, 0), I(0, 3, 0, 0)}
=============================================================================
