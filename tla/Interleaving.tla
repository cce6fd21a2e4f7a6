---------------------------- MODULE Interleaving ----------------------------
(***************************************************************************)
(* What hw4/core_api.h promises of a multithreaded core, with no clock and *)
(* no scheduler: the threads execute their programs in program order, one  *)
(* instruction of one thread at a time, on one memory; and no thread is    *)
(* left behind before its HALT.                                            *)
(***************************************************************************)
EXTENDS Integers, Sequences

CONSTANTS Threads,
          Modulus  \* the number of values of a register

VARIABLES prog, pc, reg,
          mem  \* the data word at each address
vars == <<prog, pc, reg, mem>>

Halted == -1

(* A value as a signed register holds it.                                  *)
Signed(v) == ((v + Modulus \div 2) % Modulus) - Modulus \div 2

Result(r, i) ==
  CASE i.opcode = "ADD"  -> Signed(r[i.src1] + r[i.src2])
    [] i.opcode = "SUB"  -> Signed(r[i.src1] - r[i.src2])
    [] i.opcode = "ADDI" -> Signed(r[i.src1] + i.src2)
    [] i.opcode = "SUBI" -> Signed(r[i.src1] - i.src2)

Offset(r, i) == IF i.imm THEN i.src2 ELSE r[i.src2]

(* dst <- src1 op src2, dst <- Mem[src1 + src2], Mem[dst + src2] <- src1   *)
Execute(t) ==
  LET i == prog[t][pc[t] + 1] IN
  /\ pc[t] # Halted
  /\ pc' = [pc EXCEPT ![t] = IF i.opcode = "HALT" THEN Halted ELSE @ + 1]
  /\ reg' = CASE i.opcode \in {"ADD", "SUB", "ADDI", "SUBI"} ->
                   [reg EXCEPT ![t][i.dst] = Result(reg[t], i)]
              [] i.opcode = "LOAD" ->
                   [reg EXCEPT ![t][i.dst] =
                      mem[Signed(reg[t][i.src1] + Offset(reg[t], i))]]
              [] OTHER -> reg
  /\ mem' = IF i.opcode = "STORE"
            THEN [mem EXCEPT ![Signed(reg[t][i.dst] + Offset(reg[t], i))] =
                    reg[t][i.src1]]
            ELSE mem
  /\ UNCHANGED prog

Init ==
  /\ pc = [t \in Threads |-> 0]
  /\ \A t \in Threads : \A r \in DOMAIN reg[t] : reg[t][r] = 0

Next == \E t \in Threads : Execute(t)

Steps    == Init /\ [][Next]_vars
Fairness == \A t \in Threads : WF_vars(Execute(t))

Spec == Steps /\ Fairness
=============================================================================
