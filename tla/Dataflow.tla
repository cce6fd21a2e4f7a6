------------------------------ MODULE Dataflow ------------------------------
(***************************************************************************)
(* The dataflow calculator, HW3/dflow_calc.cpp: analyzeProg walks once     *)
(* over a program and keeps for each instruction the two instructions it   *)
(* depends on and the cycle in which it ends; the queries look that up.    *)
(* One step is one turn of the loop of analyzeProg.                        *)
(***************************************************************************)
EXTENDS Integers, FiniteSetsExt

CONSTANTS MaxOps,   \* MAX_OPS, the number of opcodes and, without a name of
                    \* its own, of registers: 32
          Contexts  \* what the global pCtx can point to: nothing sets it in
                    \* the program as it is, so that it is null; object is
                    \* what the algorithm needs, one new Ctx

ASSUME DataflowAssumption ==
  MaxOps \in Nat \ {0} /\ Contexts \subseteq {"null", "object"}

VARIABLES phase,      \* of main
          opsLatency,
          prog, lineNum,  \* progTrace, and its length numOfInsts
          c,          \* the vector of ProgElem in the context
          dstHelp, i
analysis == <<c, dstHelp, i>>

Registers == 0 .. MaxOps - 1
Insts     == 0 .. lineNum - 1

NewElem == [lat |-> 0, src1D |-> 0, src2D |-> 0, entry |-> 0, exit |-> 1, dur |-> 0]

(* The loop indexes opsLatency and dstHelp with whatever the file said.    *)
InRange(inst) == {inst.opcode, inst.dst, inst.src1, inst.src2} \subseteq Registers

-----------------------------------------------------------------------------
(* int dstHelp[MAX_OPS] = {-1} is -1 for register 0 and 0 for all others.  *)
NobodyWrote == [r \in Registers |-> IF r = 0 THEN -1 ELSE 0]

(* The head of analyzeProg writes through pCtx.                            *)
Begin ==
  /\ phase = "call" /\ "object" \in Contexts
  /\ phase' = "analysis" /\ i' = 0
  /\ c' = [k \in Insts |-> NewElem]
  /\ dstHelp' = NobodyWrote

BeginNowhere ==
  /\ phase = "call" /\ "null" \in Contexts
  /\ phase' = "wild"
  /\ UNCHANGED analysis

(* The cycle in which the instruction d ends, 0 for none; the vector holds *)
(* a 0 for the instruction that is under way.                              *)
Dur(d) == IF d = -1 THEN 0 ELSE c[d].dur

(* Mutant: an instruction waits for its first source only.                 *)
ElemFirstSource(inst, d1, d2) ==
  [lat |-> opsLatency[inst.opcode], src1D |-> d1, src2D |-> d2,
   entry |-> IF d1 = -1 /\ d2 = -1 THEN 1 ELSE 0,
   exit |-> IF i \in {d1, d2} THEN 0 ELSE 1,
   dur |-> Dur(d1) + opsLatency[inst.opcode]]

(* What the turn stores for its own instruction: its sources, whether it   *)
(* depends on the entry only, and its latency behind the later source.     *)
Elem(inst, d1, d2) ==
  [lat |-> opsLatency[inst.opcode], src1D |-> d1, src2D |-> d2,
   entry |-> IF d1 = -1 /\ d2 = -1 THEN 1 ELSE 0,
   exit |-> IF i \in {d1, d2} THEN 0 ELSE 1,
   dur |-> Max({Dur(d1), Dur(d2)}) + opsLatency[inst.opcode]]

(* Mutant: the destination is entered before the sources are looked up.    *)
WriterWithOwn(inst, r) == IF r = inst.dst THEN i ELSE dstHelp[r]

Writer(inst, r) == dstHelp[r]

(* A turn of the loop.  The sources are no exits from now on, and the      *)
(* destination is entered after they have been looked up.                  *)
AnalyzeInst ==
  LET inst == prog[i]
      d1   == Writer(inst, inst.src1)
      d2   == Writer(inst, inst.src2)
  IN /\ phase = "analysis" /\ i < lineNum /\ InRange(inst)
     /\ c' = [k \in Insts |->
                IF k = i THEN Elem(inst, d1, d2)
                ELSE IF k \in {d1, d2} THEN [c[k] EXCEPT !.exit = 0]
                ELSE c[k]]
     /\ dstHelp' = [dstHelp EXCEPT ![inst.dst] = i]
     /\ i' = i + 1
     /\ UNCHANGED phase

AnalyzeWild ==
  /\ phase = "analysis" /\ i < lineNum /\ ~InRange(prog[i])
  /\ phase' = "wild"
  /\ UNCHANGED analysis

Return ==
  /\ phase = "analysis" /\ i = lineNum
  /\ phase' = "queries"
  /\ UNCHANGED analysis

analyzeProg ==
  /\ Begin \/ BeginNowhere \/ AnalyzeInst \/ AnalyzeWild \/ Return
  /\ UNCHANGED <<opsLatency, prog, lineNum>>

-----------------------------------------------------------------------------
(* The queries.  theInst is unsigned, so a negative one is far too large.  *)
Known(k) == k \in Insts

getInstDepth(k) == IF Known(k) THEN c[k].dur - c[k].lat ELSE -1

getInstDeps(k) == IF Known(k) THEN <<c[k].src1D, c[k].src2D>> ELSE <<>>

getProgDepth == Max({0} \cup {c[k].dur : k \in {k \in Insts : c[k].exit = 1}})
=============================================================================
