----------------------------- MODULE DflowMain -----------------------------
(***************************************************************************)
(* HW3/dflow_main.c: main reads the latencies (readOpsLatency), then the   *)
(* program (readProgram), calls analyzeProg and prints the answers to the  *)
(* queries of its command line.  One step is one call of fgets, a turn of  *)
(* the loop of analyzeProg, or a query.  The index i is numOps while the   *)
(* latencies are read.                                                     *)
(***************************************************************************)
EXTENDS Dataflow

CONSTANTS Latencies,     \* the numbers in the file of the opcodes
          Instructions,  \* the quadruples of numbers in the program file
          Quota          \* PROG_SIZE_QUOTA, 64

ASSUME MainAssumption ==
  /\ Latencies \subseteq Nat /\ Quota \in Nat \ {0}
  /\ Instructions \subseteq [opcode : Int, dst : Int, src1 : Int, src2 : Int]

VARIABLES maxInsts  \* the instructions for which progBuf has space
mainVars == <<phase, opsLatency, prog, lineNum, analysis, maxInsts>>

Init ==
  /\ phase = "latencies"
  /\ opsLatency = [o \in Registers |-> 0]
  /\ prog = [k \in {} |-> NewElem] /\ lineNum = 0 /\ maxInsts = 0
  /\ c = [k \in {} |-> NewElem] /\ dstHelp = NobodyWrote /\ i = 0

-----------------------------------------------------------------------------
(* readOpsLatency: an empty line is a latency of 0, a line that is no      *)
(* number or one too many, even an empty one, ends main.                   *)
ReadLatency ==
  /\ phase = "latencies" /\ i < MaxOps
  /\ \E n \in Latencies \cup {0} : opsLatency' = [opsLatency EXCEPT ![i] = n]
  /\ i' = i + 1
  /\ UNCHANGED <<phase, prog, lineNum, c, dstHelp, maxInsts>>

LatenciesFail ==
  /\ phase = "latencies"
  /\ phase' = "failed"
  /\ UNCHANGED <<opsLatency, prog, lineNum, analysis, maxInsts>>

LatenciesEnd ==
  /\ phase = "latencies"
  /\ phase' = "program" /\ i' = 0
  /\ UNCHANGED <<opsLatency, prog, lineNum, c, dstHelp, maxInsts>>

(* Mutant: the buffer grows a line too late.                               *)
GrownLate == IF lineNum > maxInsts THEN maxInsts + Quota ELSE maxInsts

(* readProgram asks for more space before it looks at the line.            *)
Grown == IF lineNum = maxInsts THEN maxInsts + Quota ELSE maxInsts

ReadInst ==
  /\ phase = "program"
  /\ \E inst \in Instructions :
       prog' = [k \in 0 .. lineNum |-> IF k = lineNum THEN inst ELSE prog[k]]
  /\ lineNum' = lineNum + 1 /\ maxInsts' = Grown
  /\ UNCHANGED <<phase, opsLatency, analysis>>

(* An empty line or a comment.                                             *)
SkipLine ==
  /\ phase = "program"
  /\ maxInsts' = Grown
  /\ UNCHANGED <<phase, opsLatency, prog, lineNum, analysis>>

(* The file cannot be opened, the buffer not be resized, a line has not    *)
(* four numbers, or there was no instruction.                              *)
ProgramFails ==
  /\ phase = "program"
  /\ phase' = "failed"
  /\ UNCHANGED <<opsLatency, prog, lineNum, analysis, maxInsts>>

ProgramEnd ==
  /\ phase = "program" /\ lineNum > 0
  /\ phase' = "call"
  /\ UNCHANGED <<opsLatency, prog, lineNum, analysis, maxInsts>>

Analyze == analyzeProg /\ UNCHANGED maxInsts

(* A query that is neither p nor d, or whose rest is no number, ends main; *)
(* the others print an answer and change nothing.                          *)
Answered ==
  /\ phase = "queries"
  /\ phase' \in {"failed", "done"}
  /\ UNCHANGED <<opsLatency, prog, lineNum, analysis, maxInsts>>

Next ==
  \/ ReadLatency \/ LatenciesFail \/ LatenciesEnd
  \/ ReadInst \/ SkipLine \/ ProgramFails \/ ProgramEnd
  \/ Analyze
  \/ Answered

Spec == Init /\ [][Next]_mainVars

-----------------------------------------------------------------------------
(* Every element of the context points backwards, to an instruction or to  *)
(* the entry, and no instruction is written behind the end of the buffer,  *)
(* which has at most a quota to spare (readProgram, analyzeProg).          *)
TypeOK ==
  /\ phase \in {"latencies", "program", "call", "analysis", "queries", "wild",
                "failed", "done"}
  /\ opsLatency \in [Registers -> Nat]
  /\ lineNum \in Nat /\ prog \in [Insts -> [opcode : Int, dst : Int, src1 : Int, src2 : Int]]
  /\ maxInsts \in lineNum .. lineNum + Quota
  /\ dstHelp \in [Registers -> -1 .. Max({0, lineNum - 1})]
  /\ i \in Nat
  /\ phase \in {"analysis", "queries", "done"} =>
       /\ i <= lineNum
       /\ \A k \in Insts : {c[k].src1D, c[k].src2D} \subseteq -1 .. Max({0, k - 1})
       /\ \A k \in Insts : c[k].dur >= c[k].lat
=============================================================================
