---------------------------- MODULE MTHistoryMC ----------------------------
(* All programs up to a length, under a few latencies.                     *)
EXTENDS MTHistory, SequencesExt
CONSTANT MaxLen  \* bound: instructions of a program before its HALT
MCInstructions == [opcode : {"NOP", "LOAD", "STORE", "HALT"}]
MCBody         == [opcode : {"NOP", "LOAD", "STORE"}]
(* The L, S and O lines: a latency of 0, one shorter than the switch, and  *)
(* one longer than a turn of all the threads.                              *)
MCLatencies == {<<2, 0, 1>>, <<1, 4, 2>>}
MCPrograms ==
  {Append(b, [opcode |-> "HALT"]) : b \in BoundedSeq(MCBody, MaxLen)}
MCImages == {[prog |-> p, load |-> l[1], store |-> l[2], switch |-> l[3]] :
               p \in [0 .. ThreadNum - 1 -> MCPrograms], l \in MCLatencies}
=============================================================================
