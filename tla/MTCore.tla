------------------------------- MODULE MTCore -------------------------------
(***************************************************************************)
(* The whole of class MT of hw4/core_api.cpp: the scheduler with the       *)
(* contexts of the threads and the data memory of hw4/sim_api.c.  An       *)
(* instruction is a record [opcode, dst, src1, src2, imm] for the fields   *)
(* opcode, dst_index, src1_index, src2_index_imm and isSrc2Imm.            *)
(***************************************************************************)
EXTENDS MTScheduler

CONSTANTS Regs,     \* the registers, 0 .. REGS_COUNT - 1
          IntBound  \* bound: an int is in -IntBound .. IntBound - 1, where
                    \* IntBound is 2^31 in the program

(* The data memory is small against the range of its addresses.            *)
ASSUME CoreAssumption ==
  /\ IntBound \in Nat \ {0}
  /\ \A im \in Images : /\ im.data_start \in Int
                        /\ DOMAIN im.data \subseteq 0 .. IntBound \div 4 - 1

VARIABLES reg,  \* thread_ctxt
          data  \* the data memory, shared by the threads and by both runs
coreVars == <<schedVars, reg, data>>

NewContexts == [t \in Threads |-> [r \in Regs |-> 0]]

CoreInit == Init /\ reg = NewContexts /\ data = image.data

-----------------------------------------------------------------------------
(* Arithmetic on int wraps around in the build.                            *)
Wrapped(v) == ((v + IntBound) % (2 * IntBound)) - IntBound

(* SIM_MemDataRead and SIM_MemDataWrite divide towards zero and do not     *)
(* check the index: an address outside of the array is outside of data,    *)
(* but for the three in front of it, which are its first word.             *)
Index(addr) ==
  LET offset == Wrapped(addr - image.data_start)
  IN  IF offset < 0 THEN -(-offset \div 4) ELSE offset \div 4

Set(t, dst, v) == reg' = [reg EXCEPT ![t][dst] = v] /\ UNCHANGED data

(* Mutant: a register as the second source is taken for an immediate.      *)
Src2AsImm(t, i) == i.src2

Src2(t, i) == IF i.imm THEN i.src2 ELSE reg[t][i.src2]

(* The switch of op: what the instruction i of thread t does to the data.  *)
Effect(t, i) ==
  \/ i.opcode \in {"NOP", "HALT"} /\ UNCHANGED <<reg, data>>
  \/ i.opcode = "ADD"  /\ Set(t, i.dst, Wrapped(reg[t][i.src1] + reg[t][i.src2]))
  \/ i.opcode = "ADDI" /\ Set(t, i.dst, Wrapped(reg[t][i.src1] + i.src2))
  \/ i.opcode = "SUB"  /\ Set(t, i.dst, Wrapped(reg[t][i.src1] - reg[t][i.src2]))
  \/ i.opcode = "SUBI" /\ Set(t, i.dst, Wrapped(reg[t][i.src1] - i.src2))
  \/ /\ i.opcode = "LOAD"
     /\ Set(t, i.dst, data[Index(Wrapped(reg[t][i.src1] + Src2(t, i)))])
  \/ /\ i.opcode = "STORE"
     /\ data' = [data EXCEPT ![Index(Wrapped(reg[t][i.dst] + Src2(t, i)))] =
                   reg[t][i.src1]]
     /\ UNCHANGED reg

CoreStep(t) == Step(t) /\ Effect(t, Fetch(t))

CoreIdle == Idle /\ UNCHANGED <<reg, data>>

CoreNext == CoreIdle \/ \E t \in Threads : CoreStep(t)

(* The while loops run on by themselves until no thread is active.         *)
CoreSpec == CoreInit /\ [][CoreNext]_coreVars /\ WF_coreVars(CoreNext)

-----------------------------------------------------------------------------
(* The addresses of the words of the data memory, and the word at each.    *)
DataAddresses == {image.data_start + 4 * k : k \in DOMAIN data}

Machine == INSTANCE Interleaving WITH
  prog <- image.prog, pc <- thread_inst, Modulus <- 2 * IntBound,
  mem <- [a \in DataAddresses |-> data[Index(a)]]

(* Both loops run the programs as the instruction set says, one            *)
(* instruction at a time in the order of each program (op for the threads  *)
(* that pick_thread finds).                                                *)
RunsThePrograms == Machine!Steps

(* No thread is left behind: each comes to its HALT, however the others    *)
(* wait (the while loops around pick_thread).                              *)
LeavesNoThread == Machine!Fairness
=============================================================================
