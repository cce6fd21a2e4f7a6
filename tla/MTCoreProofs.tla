---------------------------- MODULE MTCoreProofs ----------------------------
(***************************************************************************)
(* What the threads compute, proved for all numbers of threads, programs,  *)
(* latencies and sizes of the data memory: each loop implements the        *)
(* interleaving machine, and both loops end with the same registers when   *)
(* the threads do not communicate.                                         *)
(***************************************************************************)
EXTENDS MTMain, MTProofs

-----------------------------------------------------------------------------
(* What a step of the scheduler does to the programs.                      *)

LEMMA FetchedOpcode ==
  ASSUME TypeOK, NEW t \in Threads, thread_inst[t] > -1
  PROVE  /\ thread_inst[t] \in 0 .. Len(image.prog[t]) - 1
         /\ Fetch(t) \in Instructions /\ Fetch(t).opcode \in Opcodes
<1>1. thread_inst[t] \in 0 .. Len(image.prog[t]) - 1
  BY DEF TypeOK
<1>2. image.prog[t] \in Seq(Instructions) /\ Len(image.prog[t]) \in Nat
  BY SchedulerAssumption DEF TypeOK, Image
<1>3. Fetch(t) \in Instructions
  BY <1>1, <1>2 DEF Fetch
<1> QED  BY <1>1, <1>3, SchedulerAssumption

(* The program counter goes one on, or HALT takes the thread out.          *)
Advanced(t) ==
  thread_inst' = [thread_inst EXCEPT ![t] =
                    IF Fetch(t).opcode = "HALT" THEN -1 ELSE @ + 1]

LEMMA StepOfThread ==
  ASSUME TypeOK, NEW t \in Threads, Step(t)
  PROVE  /\ Ready(t) /\ thread_inst[t] > -1 /\ Advanced(t)
         /\ image' = image /\ mode' = mode /\ thread' = t
         /\ TypeOK'
<1>1. /\ t = Picked /\ Offsets # {}
      /\ thread' = t /\ clck' = clck + Penalty + 1 /\ inst' = inst + 1
      /\ image' = image /\ mode' = mode
  BY DEF Step, Compute, Load, Store, Halt, Issue
<1>2. Ready(t) /\ thread_inst[t] > -1
  BY <1>1, SearchTypes, FirstInTurn DEF Ready
<1>3. Penalty \in Nat /\ Penalty + 1 \in Nat /\ image.load \in Nat /\ image.store \in Nat
  BY PenaltyType, ImageTypes
<1>4. Advanced(t) /\ sw' \in BOOLEAN
  <2>1. CASE Compute(t)
    BY <2>1, Zenon DEF Compute, Issue, Advanced
  <2>2. CASE Load(t)
    BY <2>2, Zenon DEF Load, Issue, Wait, Advanced
  <2>3. CASE Store(t)
    BY <2>3, Zenon DEF Store, Issue, Wait, Advanced
  <2>4. CASE Halt(t)
    BY <2>4, Zenon DEF Halt, Issue, Advanced
  <2> QED  BY <2>1, <2>2, <2>3, <2>4 DEF Step
<1>5. thread_halt' \in [Threads -> Nat]
  <2>1. thread_halt \in [Threads -> Nat]
    BY DEF TypeOK
  <2>2. CASE thread_halt' = CountDown(thread_halt, Penalty + 1)
    BY <1>3, <2>1, <2>2, Down
  <2>3. ASSUME NEW latency \in Nat, Wait(t, latency)
        PROVE  thread_halt' \in [Threads -> Nat]
    <3> DEFINE h == CountDown(thread_halt, Penalty)
               g == [h EXCEPT ![t] = latency + 1]
    <3>1. h \in [Threads -> Nat]
      BY <1>3, <2>1, Down
    <3> HIDE DEF h
    <3>2. g \in [Threads -> Nat]
      BY <3>1
    <3>3. thread_halt' = CountDown(g, 1)
      BY <2>3 DEF Wait, h
    <3> HIDE DEF g
    <3> QED  BY <3>2, <3>3, Down
  <2> QED  BY <1>3, <2>2, <2>3 DEF Step, Compute, Load, Store, Halt
<1>6. /\ DOMAIN thread_inst' = Threads
      /\ \A u \in Threads : thread_inst'[u] \in -1 .. Len(image'.prog[u]) - 1
  <2>1. ASSUME Fetch(t).opcode # "HALT"
        PROVE  thread_inst[t] + 1 \in 0 .. Len(image.prog[t]) - 1
    BY <1>2, <2>1, NotLast
  <2>2. Len(image.prog[t]) \in Nat
    BY ImageTypes
  <2>3. DOMAIN thread_inst' = Threads
        /\ thread_inst'[t] \in -1 .. Len(image.prog[t]) - 1
    BY <1>1, <1>4, <2>1, <2>2 DEF TypeOK, Advanced
  <2>4. image' = image /\ \A u \in Threads \ {t} : thread_inst'[u] = thread_inst[u]
    BY <1>1, <1>4 DEF TypeOK, Advanced
  <2> QED  BY <2>3, <2>4 DEF TypeOK
<1>7. t \in 0 .. ThreadNum - 1 /\ ThreadNum \in Nat
  BY Constants DEF N
<1>8. clck' \in Nat /\ inst' \in Nat
  BY <1>1, <1>3 DEF TypeOK
<1>9. TypeOK'
  <2>1. image' \in Images /\ mode' \in Modes
    BY <1>1 DEF TypeOK
  <2>2. thread' \in -1 .. ThreadNum - 1 /\ thread' # -1
    BY <1>1, <1>7
  <2> QED  BY <1>4, <1>5, <1>6, <1>8, <2>1, <2>2 DEF TypeOK
<1> QED  BY <1>1, <1>2, <1>4, <1>9

LEMMA InitTypes == Init => TypeOK
<1> SUFFICES ASSUME Init PROVE TypeOK
  OBVIOUS
<1> USE DEF Init, NewMT
<1>1. ASSUME NEW t \in Threads
      PROVE  thread_inst[t] \in -1 .. Len(image.prog[t]) - 1
  <2>1. image.prog[t] \in Seq(Instructions) /\ WellFormed(image.prog[t])
    BY SchedulerAssumption DEF Image
  <2> QED  BY <2>1 DEF Zeros, WellFormed
<1>2. thread \in -1 .. ThreadNum - 1 /\ (thread = -1 => mode = "grained" /\ inst = 0)
  BY SchedulerAssumption DEF FirstThread
<1>3. thread_halt \in [Threads -> Nat] /\ DOMAIN thread_inst = Threads
  BY DEF Zeros
<1>4. image \in Images /\ mode \in Modes /\ clck = 0 /\ inst = 0 /\ sw = FALSE
  OBVIOUS
<1> HIDE DEF Init, NewMT
<1> QED  BY <1>1, <1>2, <1>3, <1>4 DEF TypeOK

LEMMA StepOfNobody ==
  ASSUME TypeOK, Idle
  PROVE  /\ TypeOK' /\ thread_inst' = thread_inst
         /\ image' = image /\ mode' = mode
<1>1. thread_halt' \in [Threads -> Nat]
  BY Down DEF Idle, TypeOK
<1>2. /\ clck' \in Nat
      /\ UNCHANGED <<image, mode, thread, inst, sw, thread_inst>>
  BY DEF Idle, TypeOK
<1> QED  BY <1>1, <1>2 DEF TypeOK

-----------------------------------------------------------------------------
(* The core implements the interleaving machine.                           *)

(* The address that the next instruction of thread t names.                *)
Address(t) ==
  LET i == Fetch(t)
  IN  Wrapped(reg[t][IF i.opcode = "STORE" THEN i.dst ELSE i.src1] + Src2(t, i))

(* The programs use the data memory that they have: what a LOAD or STORE   *)
(* finds at an address that is none of a data word is outside of it        *)
(* (SIM_MemDataRead and SIM_MemDataWrite check nothing).                   *)
AddressesInside ==
  \A t \in Threads :
    thread_inst[t] > -1 /\ Fetch(t).opcode \in {"LOAD", "STORE"} =>
      Address(t) \in DataAddresses

CoreInv == TypeOK /\ DOMAIN data = DOMAIN image.data

LEMMA WrappedIsSigned == \A v : Wrapped(v) = Machine!Signed(v)
<1>1. IntBound \in Nat \ {0}
  BY CoreAssumption
<1>2. (2 * IntBound) \div 2 = IntBound
  BY <1>1
<1> QED  BY <1>2 DEF Wrapped, Machine!Signed

(* The words of the data memory have addresses of their own.               *)
LEMMA IndexOfWord ==
  ASSUME CoreInv, NEW k \in DOMAIN data
  PROVE  /\ Index(image.data_start + 4 * k) = k
         /\ \A j \in DOMAIN data :
              image.data_start + 4 * j = image.data_start + 4 * k => j = k
<1> DEFINE B == IntBound
           d == image.data_start
<1>1. B \in Nat \ {0} /\ d \in Int /\ DOMAIN data \subseteq 0 .. B \div 4 - 1
  BY CoreAssumption DEF CoreInv, TypeOK
<1>2. k \in Nat /\ 4 * k < B
  BY <1>1
<1>3. (d + 4 * k) - d = 4 * k
  BY <1>1, <1>2
<1>4. Wrapped(4 * k) = 4 * k
  <2> DEFINE m == 2 * B
             y == 4 * k + B
  <2>1. m \in Nat \ {0} /\ y \in 0 .. m - 1
    BY <1>1, <1>2
  <2> HIDE DEF m, y
  <2>2. y % m = y
    BY <2>1, Remainder
  <2> QED  BY <1>1, <1>2, <2>2 DEF Wrapped, m, y
<1>5. Index(d + 4 * k) = (4 * k) \div 4
  BY <1>2, <1>3, <1>4 DEF Index
<1>6. (4 * k) \div 4 = k
  BY <1>2
<1>7. \A j \in DOMAIN data : d + 4 * j = d + 4 * k => j = k
  BY <1>1, <1>2
<1> QED  BY <1>5, <1>6, <1>7

LEMMA CoreInvStep == CoreInv /\ [CoreNext]_coreVars => CoreInv'
<1> SUFFICES ASSUME CoreInv, [CoreNext]_coreVars PROVE CoreInv'
  OBVIOUS
<1>1. CASE UNCHANGED coreVars
  BY <1>1 DEF coreVars, schedVars, sched, CoreInv, TypeOK
<1>2. CASE CoreIdle
  BY <1>2, StepOfNobody DEF CoreIdle, CoreInv
<1>3. ASSUME NEW t \in Threads, CoreStep(t)
      PROVE  CoreInv'
  <2>1. TypeOK' /\ image' = image
    BY <1>3, StepOfThread DEF CoreStep, CoreInv
  <2>2. DOMAIN data' = DOMAIN data
    BY <1>3 DEF CoreStep, Effect, Set
  <2> QED  BY <2>1, <2>2 DEF CoreInv
<1> QED  BY <1>1, <1>2, <1>3 DEF CoreNext

(* The memory of the machine after a step of the core.                     *)
LEMMA MemoryAfter ==
  ASSUME CoreInv, image' = image, NEW a \in DataAddresses, NEW v,
         data' = [data EXCEPT ![Index(a)] = v]
  PROVE  [b \in DataAddresses |-> data[Index(b)]]' =
           [[b \in DataAddresses |-> data[Index(b)]] EXCEPT ![a] = v]
<1>1. DataAddresses' = DataAddresses /\ \A b : Index(b)' = Index(b)
  BY DEF DataAddresses, Index, Wrapped
<1>2. PICK k \in DOMAIN data : a = image.data_start + 4 * k
  BY DEF DataAddresses
<1>3. Index(a) = k
  BY <1>2, IndexOfWord
<1>4. ASSUME NEW b \in DataAddresses
      PROVE  data'[Index(b)] = IF b = a THEN v ELSE data[Index(b)]
  <2>1. PICK j \in DOMAIN data : b = image.data_start + 4 * j
    BY DEF DataAddresses
  <2>2. Index(b) = j /\ (b = a => j = k)
    BY <1>2, <2>1, IndexOfWord
  <2> QED  BY <1>2, <1>3, <2>1, <2>2
<1> QED  BY <1>1, <1>4

LEMMA StepOfMachine ==
  ASSUME CoreInv, AddressesInside, NEW t \in Threads, CoreStep(t)
  PROVE  Machine!Execute(t)
<1> DEFINE i == Fetch(t)
           M == [a \in DataAddresses |-> data[Index(a)]]
<1>1. /\ thread_inst[t] > -1 /\ Advanced(t) /\ image' = image
      /\ i.opcode \in Opcodes
  BY StepOfThread, FetchedOpcode DEF CoreStep, CoreInv
<1>2. i = image.prog[t][thread_inst[t] + 1]
  BY DEF Fetch
<1>3. Effect(t, i)
  BY DEF CoreStep
<1>4. thread_inst[t] # Machine!Halted
      /\ thread_inst' = [thread_inst EXCEPT ![t] =
                           IF i.opcode = "HALT" THEN Machine!Halted ELSE @ + 1]
  BY <1>1 DEF Advanced, Machine!Halted, CoreInv, TypeOK
<1>5. data' = data => M' = M
  BY <1>1 DEF DataAddresses, Index, Wrapped
<1>6. i.opcode \in {"LOAD", "STORE"} => Address(t) \in DataAddresses
  BY <1>1 DEF AddressesInside
<1>7. /\ i.opcode \in {"ADD", "SUB", "ADDI", "SUBI"} =>
           /\ reg' = [reg EXCEPT ![t][i.dst] = Machine!Result(reg[t], i)]
           /\ M' = M
      /\ i.opcode = "LOAD" =>
           /\ reg' = [reg EXCEPT ![t][i.dst] =
                M[Machine!Signed(reg[t][i.src1] + Machine!Offset(reg[t], i))]]
           /\ M' = M
      /\ i.opcode \in {"NOP", "HALT"} => reg' = reg /\ M' = M
      /\ i.opcode = "STORE" =>
           /\ reg' = reg
           /\ M' = [M EXCEPT ![Machine!Signed(reg[t][i.dst] + Machine!Offset(reg[t], i))]
                        = reg[t][i.src1]]
  <2> HIDE DEF i, M
  <2>1. CASE i.opcode \in {"NOP", "HALT"}
    BY <1>3, <1>5, <2>1 DEF Effect
  <2>2. CASE i.opcode = "ADD"
    BY <1>3, <1>5, <2>2, WrappedIsSigned DEF Effect, Set, Machine!Result
  <2>3. CASE i.opcode = "ADDI"
    BY <1>3, <1>5, <2>3, WrappedIsSigned DEF Effect, Set, Machine!Result
  <2>4. CASE i.opcode = "SUB"
    BY <1>3, <1>5, <2>4, WrappedIsSigned DEF Effect, Set, Machine!Result
  <2>5. CASE i.opcode = "SUBI"
    BY <1>3, <1>5, <2>5, WrappedIsSigned DEF Effect, Set, Machine!Result
  <2>6. CASE i.opcode = "LOAD"
    <3> DEFINE a == Wrapped(reg[t][i.src1] + Src2(t, i))
    <3>1. a \in DataAddresses
      BY <1>6, <2>6 DEF Address, i
    <3>2. a = Machine!Signed(reg[t][i.src1] + Machine!Offset(reg[t], i))
      BY WrappedIsSigned DEF Src2, Machine!Offset
    <3>3. reg' = [reg EXCEPT ![t][i.dst] = data[Index(a)]] /\ data' = data
      BY <1>3, <2>6 DEF Effect, Set
    <3>4. data[Index(a)] = M[a]
      BY <3>1 DEF M
    <3> QED  BY <1>5, <2>6, <3>2, <3>3, <3>4
  <2>7. CASE i.opcode = "STORE"
    <3> DEFINE a == Wrapped(reg[t][i.dst] + Src2(t, i))
    <3>1. a \in DataAddresses
      BY <1>6, <2>7 DEF Address, i
    <3>2. a = Machine!Signed(reg[t][i.dst] + Machine!Offset(reg[t], i))
      BY WrappedIsSigned DEF Src2, Machine!Offset
    <3>3. data' = [data EXCEPT ![Index(a)] = reg[t][i.src1]] /\ reg' = reg
      BY <1>3, <2>7 DEF Effect
    <3> HIDE DEF a
    <3>4. M' = [M EXCEPT ![a] = reg[t][i.src1]]
      BY <1>1, <3>1, <3>3, MemoryAfter DEF M
    <3> QED  BY <2>7, <3>2, <3>3, <3>4
  <2> QED  BY <1>1, <2>1, <2>2, <2>3, <2>4, <2>5, <2>6, <2>7 DEF Opcodes
<1> HIDE DEF i, M
<1> QED
  <2>1. UNCHANGED image.prog
    BY <1>1
  <2>2. thread_inst' = [thread_inst EXCEPT ![t] =
                          IF i.opcode = "HALT" THEN Machine!Halted
                          ELSE thread_inst[t] + 1]
    BY <1>4
  <2>3. reg' = CASE i.opcode \in {"ADD", "SUB", "ADDI", "SUBI"} ->
                   [reg EXCEPT ![t][i.dst] = Machine!Result(reg[t], i)]
              [] i.opcode = "LOAD" ->
                   [reg EXCEPT ![t][i.dst] =
                      M[Machine!Signed(reg[t][i.src1] + Machine!Offset(reg[t], i))]]
              [] OTHER -> reg
    BY <1>1, <1>7 DEF Opcodes
  <2>4. M' = IF i.opcode = "STORE"
             THEN [M EXCEPT ![Machine!Signed(reg[t][i.dst] + Machine!Offset(reg[t], i))]
                        = reg[t][i.src1]]
             ELSE M
    BY <1>1, <1>7 DEF Opcodes
  <2> QED  BY <1>2, <1>4, <2>1, <2>2, <2>3, <2>4 DEF Machine!Execute, M

LEMMA CoreStarts == CoreInit => CoreInv /\ Machine!Init
<1> SUFFICES ASSUME CoreInit PROVE CoreInv /\ Machine!Init
  OBVIOUS
<1>1. Init /\ reg = NewContexts /\ data = image.data
  BY DEF CoreInit
<1>2. TypeOK
  BY <1>1, InitTypes
<1>3. Machine!Init
  BY <1>1 DEF Machine!Init, Init, NewMT, Zeros, NewContexts
<1> QED  BY <1>1, <1>2, <1>3 DEF CoreInv

LEMMA CoreRefines ==
  CoreInv /\ AddressesInside /\ [CoreNext]_coreVars =>
    [Machine!Next]_(Machine!vars)
<1> SUFFICES ASSUME CoreInv, AddressesInside, [CoreNext]_coreVars
             PROVE  Machine!Next \/ UNCHANGED Machine!vars
  OBVIOUS
<1> DEFINE M == [a \in DataAddresses |-> data[Index(a)]]
<1>1. ASSUME image' = image, thread_inst' = thread_inst, UNCHANGED <<reg, data>>
      PROVE  UNCHANGED Machine!vars
  <2>1. M' = M
    BY <1>1 DEF DataAddresses, Index, Wrapped
  <2>2. image.prog' = image.prog
    BY <1>1
  <2> HIDE DEF M
  <2> QED  BY <1>1, <2>1, <2>2 DEF Machine!vars, M
<1>2. CASE UNCHANGED coreVars
  BY <1>1, <1>2 DEF coreVars, schedVars, sched
<1>3. CASE CoreIdle
  BY <1>1, <1>3, StepOfNobody DEF CoreIdle, CoreInv
<1>4. ASSUME NEW t \in Threads, CoreStep(t)
      PROVE  Machine!Next
  BY <1>4, StepOfMachine DEF Machine!Next
<1> QED  BY <1>2, <1>3, <1>4 DEF CoreNext

(* Both loops of core_api.cpp execute the programs as an interleaving of   *)
(* single instructions in program order, on one memory, for all programs,  *)
(* numbers of threads and latencies: as long as the programs use the data  *)
(* memory that there is.                                                   *)
THEOREM CoreRunsThePrograms ==
  CoreSpec /\ []AddressesInside => RunsThePrograms
<1>1. CoreInit => Machine!Init
  BY CoreStarts
<1>2. CoreInit => CoreInv
  BY CoreStarts
<1> QED  BY <1>1, <1>2, CoreInvStep, CoreRefines, PTL
         DEF CoreSpec, RunsThePrograms, Machine!Steps

-----------------------------------------------------------------------------
(* What a thread computes alone.                                           *)

(* Two sequences that go on alike from the same start are the same.        *)
LEMMA SameSequence ==
  ASSUME NEW n \in Nat, NEW f, NEW g, f[0] = g[0],
         \A k \in 0 .. n - 1 : f[k] = g[k] => f[k + 1] = g[k + 1]
  PROVE  f[n] = g[n]
<1> DEFINE S == {k \in 0 .. n : f[k] # g[k]}
           m == Min(S)
<1> SUFFICES ASSUME n \in S PROVE FALSE
  OBVIOUS
<1>1. S \in SUBSET (0 .. (n + 1) - 1) /\ S # {} /\ n + 1 \in Nat
  OBVIOUS
<1>2. m \in S /\ \A k \in S : m <= k
  BY <1>1, LeastAndGreatest
<1> HIDE DEF m
<1>3. m \in 0 .. n /\ f[m] # g[m] /\ m # 0
  BY <1>2
<1>4. m - 1 \in 0 .. n - 1 /\ ~(m - 1 \in S)
  BY <1>2, <1>3
<1>5. f[m - 1] = g[m - 1] /\ (m - 1) + 1 = m
  BY <1>3, <1>4
<1> QED  BY <1>3, <1>4, <1>5

Goes(t, k) == image.prog[t][k + 1].opcode # "HALT"

(* The registers r after instruction i, with the memory of the image.      *)
RegsAfter(r, i) ==
  CASE i.opcode \in {"ADD", "SUB", "ADDI", "SUBI"} ->
         [r EXCEPT ![i.dst] = Machine!Result(r, i)]
    [] i.opcode = "LOAD" ->
         [r EXCEPT ![i.dst] =
            image.data[Index(Wrapped(r[i.src1] + Machine!Offset(r, i)))]]
    [] OTHER -> r

(* R lists the registers after each of the first n instructions of t.      *)
RegsOf(t, n, R) ==
  /\ R[0] = [r \in Regs |-> 0]
  /\ \A k \in 0 .. n - 1 :
       Goes(t, k) /\ R[k + 1] = RegsAfter(R[k], image.prog[t][k + 1])

Reached(t, n, r) == \E R : RegsOf(t, n, R) /\ r = R[n]

Stopped(t, r) == \E n \in Nat : Reached(t, n, r) /\ ~Goes(t, n)

LEMMA ReachedNext ==
  ASSUME NEW t, NEW n \in Nat, NEW r, Reached(t, n, r), Goes(t, n)
  PROVE  Reached(t, n + 1, RegsAfter(r, image.prog[t][n + 1]))
<1>1. PICK R : RegsOf(t, n, R) /\ r = R[n]
  BY DEF Reached
<1> DEFINE a == RegsAfter(r, image.prog[t][n + 1])
           Q == [k \in 0 .. n + 1 |-> IF k = n + 1 THEN a ELSE R[k]]
<1>2. Q[n + 1] = a /\ \A k \in 0 .. n : Q[k] = R[k]
  OBVIOUS
<1> HIDE DEF Q, a
<1>3. Q[0] = [x \in Regs |-> 0]
  BY <1>1, <1>2 DEF RegsOf
<1>4. ASSUME NEW k \in 0 .. n
      PROVE  Goes(t, k) /\ Q[k + 1] = RegsAfter(Q[k], image.prog[t][k + 1])
  <2>1. CASE k = n
    BY <1>1, <1>2, <2>1 DEF a
  <2>2. CASE k \in 0 .. n - 1
    <3>1. k + 1 \in 0 .. n
      BY <2>2
    <3> QED  BY <1>1, <1>2, <2>2, <3>1 DEF RegsOf
  <2> QED  BY <2>1, <2>2
<1>5. RegsOf(t, n + 1, Q)
  <2>1. (n + 1) - 1 = n
    OBVIOUS
  <2> QED  BY <1>3, <1>4, <2>1 DEF RegsOf
<1> QED  BY <1>2, <1>5 DEF Reached, a

(* A thread stops at its first HALT, with registers that the program and   *)
(* the memory of the image alone decide.                                   *)
LEMMA StoppedOnce ==
  ASSUME NEW t, NEW r, NEW q, Stopped(t, r), Stopped(t, q)
  PROVE  r = q
<1>1. PICK n \in Nat, m \in Nat : /\ Reached(t, n, r) /\ ~Goes(t, n)
                                  /\ Reached(t, m, q) /\ ~Goes(t, m)
  BY DEF Stopped
<1>2. PICK R : RegsOf(t, n, R) /\ r = R[n]
  BY <1>1 DEF Reached
<1>3. PICK Q : RegsOf(t, m, Q) /\ q = Q[m]
  BY <1>1 DEF Reached
<1>4. n = m
  <2>1. ~(n < m) /\ ~(m < n)
    BY <1>1, <1>2, <1>3 DEF RegsOf
  <2> QED  BY <2>1
<1>5. R[0] = Q[0]
  BY <1>2, <1>3 DEF RegsOf
<1>6. \A k \in 0 .. n - 1 : R[k] = Q[k] => R[k + 1] = Q[k + 1]
  BY <1>2, <1>3, <1>4 DEF RegsOf
<1>7. R[n] = Q[n]
  BY <1>5, <1>6, SameSequence
<1> QED  BY <1>2, <1>3, <1>4, <1>7

-----------------------------------------------------------------------------
(* The two simulations of main.                                            *)

(* The threads do not tell each other anything.                            *)
Apart == ~(Uses("LOAD") /\ Uses("STORE"))

Followed(t) ==
  \/ thread_inst[t] > -1 /\ Reached(t, thread_inst[t], reg[t])
  \/ thread_inst[t] = -1 /\ Stopped(t, reg[t])

(* Each thread has the registers of its program alone, the second time as  *)
(* the first: the memory is that of the image where a thread can load, and *)
(* the contexts are new.                                                   *)
RegistersKnown ==
  /\ DOMAIN reg = Threads
  /\ ~Uses("STORE") => data = image.data
  /\ Apart => \A t \in Threads : Followed(t)

FirstKnown ==
  mode = "grained" /\ Apart => \A t \in Threads : Stopped(t, shown["blocked"][t])

(* A context is a function of the thread and of nothing else.              *)
ContextsOf(c) == c = [t \in Threads |-> c[t]]

MainTypes ==
  /\ TypeOK
  /\ ContextsOf(reg) /\ ContextsOf(shown["blocked"])
  /\ DOMAIN shown = Modes /\ DOMAIN cycles = Modes
  /\ phase \in {"running", "done", "failed"}
  /\ phase = "done" => mode = "grained" /\ ~thread_active

AgreeInv == MainTypes /\ RegistersKnown /\ FirstKnown

LEMMA NothingDone ==
  ASSUME NEW t \in Threads, thread_inst[t] = 0, reg[t] = [r \in Regs |-> 0]
  PROVE  Followed(t)
<1> DEFINE R == [k \in 0 .. 0 |-> [r \in Regs |-> 0]]
<1>1. RegsOf(t, 0, R) /\ R[0] = [r \in Regs |-> 0]
  BY DEF RegsOf
<1> HIDE DEF R
<1> QED  BY <1>1 DEF Followed, Reached

LEMMA MainStarts == MainInit => AgreeInv
<1> SUFFICES ASSUME MainInit PROVE AgreeInv
  OBVIOUS
<1>1. /\ image \in Images /\ NewMT("blocked") /\ mode = "blocked"
      /\ reg = NewContexts /\ data = image.data /\ phase \in {"running", "failed"}
      /\ shown = [m \in Modes |-> NewContexts]
      /\ cycles = [m \in Modes |-> <<0, 0>>]
  BY DEF MainInit, NewMT
<1>2. TypeOK
  BY <1>1, InitTypes DEF Init, Modes
<1>3. MainTypes
  BY <1>1, <1>2 DEF MainTypes, ContextsOf, NewContexts, Modes
<1>4. \A t \in Threads : thread_inst[t] = 0 /\ reg[t] = [r \in Regs |-> 0]
  BY <1>1 DEF NewMT, Zeros, NewContexts
<1>5. RegistersKnown
  BY <1>1, <1>4, NothingDone DEF RegistersKnown, NewContexts
<1> QED  BY <1>1, <1>3, <1>5 DEF AgreeInv, FirstKnown

(* One instruction of a thread that does not communicate.                  *)
LEMMA RegistersStep ==
  ASSUME TypeOK, RegistersKnown, NEW t \in Threads, CoreStep(t)
  PROVE  /\ RegistersKnown'
         /\ DOMAIN reg' = DOMAIN reg
         /\ ContextsOf(reg) => ContextsOf(reg')
<1> DEFINE i == Fetch(t)
<1>1. /\ thread_inst[t] > -1 /\ Advanced(t) /\ image' = image
      /\ i.opcode \in Opcodes /\ thread_inst[t] \in 0 .. Len(image.prog[t]) - 1
  BY StepOfThread, FetchedOpcode DEF CoreStep
<1>2. i = image.prog[t][thread_inst[t] + 1] /\ Effect(t, i)
  BY DEF Fetch, CoreStep
<1>3. Uses(i.opcode)
  <2>1. image.prog[t] \in Seq(Instructions)
    BY SchedulerAssumption DEF TypeOK, Image
  <2>2. thread_inst[t] + 1 \in DOMAIN image.prog[t]
    BY <1>1, <2>1
  <2> QED  BY <1>2, <2>2 DEF Uses
<1>4. (Uses("STORE")' <=> Uses("STORE")) /\ (Uses("LOAD")' <=> Uses("LOAD"))
  BY <1>1 DEF Uses
<1> HIDE DEF i
<1>5. /\ DOMAIN reg' = DOMAIN reg
      /\ \A u \in Threads \ {t} : reg'[u] = reg[u]
      /\ ContextsOf(reg) => ContextsOf(reg')
  <2>1. \/ reg' = reg
        \/ \E d, v : reg' = [reg EXCEPT ![t][d] = v]
    BY <1>2 DEF Effect, Set
  <2>2. DOMAIN reg = Threads
    BY DEF RegistersKnown
  <2> QED  BY <2>1, <2>2 DEF ContextsOf
<1>6. ~Uses("STORE")' => data' = image'.data
  BY <1>1, <1>2, <1>3, <1>4 DEF Effect, Set, RegistersKnown, Opcodes
<1>7. ASSUME Apart
      PROVE  reg'[t] = RegsAfter(reg[t], i)
  <2>1. CASE i.opcode \in {"NOP", "HALT", "STORE"}
    BY <1>2, <2>1 DEF Effect, RegsAfter
  <2>2. CASE i.opcode \in {"ADD", "ADDI", "SUB", "SUBI"}
    BY <1>2, <2>2, WrappedIsSigned
    DEF Effect, Set, RegsAfter, Machine!Result, RegistersKnown
  <2>3. CASE i.opcode = "LOAD"
    <3>1. data = image.data
      BY <1>3, <1>7, <2>3 DEF Apart, RegistersKnown
    <3> QED  BY <1>2, <2>3, <3>1
             DEF Effect, Set, RegsAfter, Src2, Machine!Offset, RegistersKnown
  <2> QED  BY <1>1, <2>1, <2>2, <2>3 DEF Opcodes
<1>8. ASSUME Apart, NEW u \in Threads
      PROVE  Followed(u)'
  <2>1. Followed(u)
    BY <1>8 DEF RegistersKnown
  <2>2. \A n, r : (Reached(u, n, r)' <=> Reached(u, n, r))
                  /\ (Stopped(u, r)' <=> Stopped(u, r))
    BY <1>1 DEF Reached, Stopped, RegsOf, Goes, RegsAfter, Index, Wrapped,
                Machine!Result, Machine!Signed, Machine!Offset
  <2>3. CASE u # t
    <3>1. thread_inst'[u] = thread_inst[u] /\ reg'[u] = reg[u]
      BY <1>1, <1>5, <2>3 DEF Advanced, TypeOK
    <3> QED  BY <2>1, <2>2, <3>1 DEF Followed
  <2>4. CASE u = t
    <3>1. Reached(t, thread_inst[t], reg[t]) /\ thread_inst[t] \in Nat
      BY <1>1, <2>1, <2>4 DEF Followed
    <3>2. CASE i.opcode = "HALT"
      <4>1. ~Goes(t, thread_inst[t])
        BY <1>2, <3>2 DEF Goes
      <4>2. Stopped(t, reg[t])
        BY <3>1, <4>1 DEF Stopped
      <4>3. reg'[t] = reg[t] /\ thread_inst'[t] = -1
        BY <1>1, <1>8, <1>7, <3>2 DEF RegsAfter, Advanced, TypeOK, i
      <4> QED  BY <2>2, <2>4, <4>2, <4>3 DEF Followed
    <3>3. CASE i.opcode # "HALT"
      <4>1. Goes(t, thread_inst[t])
        BY <1>2, <3>3 DEF Goes
      <4>2. Reached(t, thread_inst[t] + 1, reg'[t])
        BY <1>2, <1>7, <1>8, <3>1, <4>1, ReachedNext
      <4>3. thread_inst'[t] = thread_inst[t] + 1
        BY <1>1, <3>3 DEF Advanced, TypeOK, i
      <4> QED  BY <2>2, <2>4, <3>1, <4>2, <4>3 DEF Followed
    <3> QED  BY <3>2, <3>3
  <2> QED  BY <2>3, <2>4
<1>9. Apart' <=> Apart
  BY <1>4 DEF Apart
<1> QED  BY <1>5, <1>6, <1>8, <1>9 DEF RegistersKnown

(* Reading the registers of stopped threads, in another state of main too. *)
LEMMA StoppedPrimed ==
  ASSUME image' = image, NEW t, NEW r
  PROVE  Stopped(t, r)' <=> Stopped(t, r)
BY DEF Reached, Stopped, RegsOf, Goes, RegsAfter, Index, Wrapped,
       Machine!Result, Machine!Signed, Machine!Offset

LEMMA FirstKept ==
  ASSUME FirstKnown, image' = image, mode' = mode,
         shown'["blocked"] = shown["blocked"]
  PROVE  FirstKnown'
<1>1. Apart' <=> Apart
  BY DEF Apart, Uses
<1> QED  BY <1>1, StoppedPrimed DEF FirstKnown

LEMMA AllStopped ==
  ASSUME RegistersKnown, Apart, ~thread_active, NEW t \in Threads
  PROVE  Stopped(t, reg[t])
BY DEF RegistersKnown, Followed, thread_active

LEMMA MainSimulates == AgreeInv /\ Simulate => AgreeInv'
<1> SUFFICES ASSUME AgreeInv, Simulate PROVE AgreeInv'
  OBVIOUS
<1>1. /\ TypeOK /\ RegistersKnown /\ FirstKnown /\ ContextsOf(reg)
      /\ ContextsOf(shown["blocked"])
      /\ DOMAIN shown = Modes /\ DOMAIN cycles = Modes
      /\ phase = "running" /\ phase' = phase /\ shown' = shown
      /\ cycles' = cycles /\ CoreNext
  BY DEF AgreeInv, MainTypes, Simulate
<1>2. ASSUME TypeOK', RegistersKnown', ContextsOf(reg'),
             image' = image, mode' = mode
      PROVE  AgreeInv'
  <2>1. ContextsOf(shown["blocked"])'
    BY <1>1 DEF ContextsOf
  <2>2. MainTypes'
    BY <1>1, <1>2, <2>1 DEF MainTypes, ContextsOf
  <2>3. FirstKnown'
    BY <1>1, <1>2, FirstKept
  <2> QED  BY <1>2, <2>2, <2>3 DEF AgreeInv
<1>3. CASE CoreIdle
  <2>1. /\ TypeOK' /\ thread_inst' = thread_inst
        /\ image' = image /\ mode' = mode /\ reg' = reg /\ data' = data
    BY <1>1, <1>3, StepOfNobody DEF CoreIdle
  <2>2. RegistersKnown'
    <3>1. \A t, n, r : (Reached(t, n, r)' <=> Reached(t, n, r))
                       /\ (Stopped(t, r)' <=> Stopped(t, r))
      BY <2>1 DEF Reached, Stopped, RegsOf, Goes, RegsAfter, Index, Wrapped,
                  Machine!Result, Machine!Signed, Machine!Offset
    <3>2. \A o : Uses(o)' <=> Uses(o)
      BY <2>1 DEF Uses
    <3>3. \A t \in Threads : Followed(t)' <=> Followed(t)
      BY <2>1, <3>1 DEF Followed
    <3> QED  BY <1>1, <2>1, <3>2, <3>3 DEF RegistersKnown, Apart
  <2> QED  BY <1>1, <1>2, <2>1, <2>2 DEF ContextsOf
<1>4. ASSUME NEW t \in Threads, CoreStep(t)
      PROVE  AgreeInv'
  <2>1. TypeOK' /\ image' = image /\ mode' = mode
    BY <1>1, <1>4, StepOfThread DEF CoreStep
  <2>2. RegistersKnown' /\ ContextsOf(reg')
    BY <1>1, <1>4, RegistersStep
  <2> QED  BY <1>2, <2>1, <2>2
<1> QED  BY <1>1, <1>3, <1>4 DEF CoreNext

(* The second simulation finds new contexts, and the memory of the image   *)
(* unless a thread stores.                                                 *)
LEMMA MainGoesOn == AgreeInv /\ ReportBlocked => AgreeInv'
<1> SUFFICES ASSUME AgreeInv, ReportBlocked PROVE AgreeInv'
  OBVIOUS
<1>1. /\ TypeOK /\ RegistersKnown /\ ContextsOf(reg)
      /\ DOMAIN shown = Modes /\ DOMAIN cycles = Modes
      /\ phase = "running" /\ phase' = phase /\ ~thread_active
      /\ shown' = [shown EXCEPT !["blocked"] = reg] /\ DOMAIN cycles' = Modes
      /\ NewMT("grained")' /\ reg' = NewContexts
      /\ image' = image /\ data' = data /\ mode' = "grained"
  BY DEF AgreeInv, MainTypes, ReportBlocked, Finished, NewMT, FirstThread, Zeros
<1>2. TypeOK'
  <2>1. Init'
    BY <1>1 DEF Init, Modes, TypeOK
  <2>2. Init' => TypeOK'
    BY InitTypes, PTL
  <2> QED  BY <2>1, <2>2
<1>3. shown'["blocked"] = reg /\ DOMAIN shown' = Modes
  BY <1>1 DEF Modes
<1>4. MainTypes'
  BY <1>1, <1>2, <1>3 DEF MainTypes, ContextsOf, NewContexts
<1>5. \A o : Uses(o)' <=> Uses(o)
  BY <1>1 DEF Uses
<1>6. FirstKnown'
  BY <1>1, <1>3, <1>5, AllStopped, StoppedPrimed DEF FirstKnown, Apart
<1>7. RegistersKnown'
  <2>1. ASSUME NEW t \in Threads
        PROVE  Followed(t)'
    <3>1. thread_inst'[t] = 0 /\ reg'[t] = [r \in Regs |-> 0]
      BY <1>1 DEF NewMT, Zeros, NewContexts
    <3> DEFINE R == [k \in 0 .. 0 |-> [r \in Regs |-> 0]]
    <3>2. RegsOf(t, 0, R)' /\ R[0] = [r \in Regs |-> 0]
      BY DEF RegsOf
    <3> HIDE DEF R
    <3> QED  BY <3>1, <3>2 DEF Followed, Reached
  <2> QED  BY <1>1, <1>5, <2>1 DEF RegistersKnown, NewContexts
<1> QED  BY <1>4, <1>6, <1>7 DEF AgreeInv

LEMMA MainReports == AgreeInv /\ ReportGrained => AgreeInv'
<1> SUFFICES ASSUME AgreeInv, ReportGrained PROVE AgreeInv'
  OBVIOUS
<1>1. /\ UNCHANGED coreVars /\ mode = "grained" /\ ~thread_active
      /\ phase' = "done" /\ shown'["blocked"] = shown["blocked"]
      /\ DOMAIN shown' = DOMAIN shown /\ DOMAIN cycles' = DOMAIN cycles
  BY DEF ReportGrained, Finished, AgreeInv, MainTypes
<1>2. /\ UNCHANGED <<image, mode, thread, clck, inst, sw, thread_inst,
                     thread_halt, reg, data>>
  BY <1>1 DEF coreVars, schedVars, sched
<1>3. TypeOK' /\ ~thread_active'
  BY <1>1, <1>2 DEF AgreeInv, MainTypes, TypeOK, thread_active
<1>4. MainTypes'
  BY <1>1, <1>2, <1>3 DEF AgreeInv, MainTypes, ContextsOf
<1>5. FirstKnown'
  BY <1>1, <1>2, FirstKept DEF AgreeInv
<1>6. RegistersKnown'
  <2>1. \A t, n, r : (Reached(t, n, r)' <=> Reached(t, n, r))
                     /\ (Stopped(t, r)' <=> Stopped(t, r))
    BY <1>2 DEF Reached, Stopped, RegsOf, Goes, RegsAfter, Index, Wrapped,
                Machine!Result, Machine!Signed, Machine!Offset
  <2>2. \A o : Uses(o)' <=> Uses(o)
    BY <1>2 DEF Uses
  <2>3. \A t \in Threads : Followed(t)' <=> Followed(t)
    BY <1>2, <2>1 DEF Followed
  <2> QED  BY <1>2, <2>2, <2>3 DEF AgreeInv, RegistersKnown, Apart
<1> QED  BY <1>4, <1>5, <1>6 DEF AgreeInv

LEMMA MainKnows == MainSpec => []AgreeInv
<1>1. AgreeInv /\ [MainNext]_mainVars => AgreeInv'
  <2> SUFFICES ASSUME AgreeInv, UNCHANGED mainVars PROVE AgreeInv'
    BY MainSimulates, MainGoesOn, MainReports DEF MainNext
  <2>1. UNCHANGED <<image, mode, thread, clck, inst, sw, thread_inst,
                    thread_halt, reg, data, phase, shown, cycles>>
    BY DEF mainVars, coreVars, schedVars, sched
  <2>2. \A t, n, r : (Reached(t, n, r)' <=> Reached(t, n, r))
                     /\ (Stopped(t, r)' <=> Stopped(t, r))
    BY <2>1 DEF Reached, Stopped, RegsOf, Goes, RegsAfter, Index, Wrapped,
                Machine!Result, Machine!Signed, Machine!Offset
  <2>3. \A o : Uses(o)' <=> Uses(o)
    BY <2>1 DEF Uses
  <2>4. \A t \in Threads : Followed(t)' <=> Followed(t)
    BY <2>1, <2>2 DEF Followed
  <2>5. RegistersKnown'
    BY <2>1, <2>3, <2>4 DEF AgreeInv, RegistersKnown, Apart
  <2>6. MainTypes'
    BY <2>1 DEF AgreeInv, MainTypes, TypeOK, ContextsOf, thread_active
  <2>7. FirstKnown'
    BY <2>1, FirstKept DEF AgreeInv
  <2> QED  BY <2>5, <2>6, <2>7 DEF AgreeInv
<1> QED  BY <1>1, MainStarts, PTL DEF MainSpec

(* Threads that do not communicate end with the same registers under both  *)
(* policies, for all programs, latencies, numbers of threads and word      *)
(* sizes: nothing but the memory connects the second simulation of main to *)
(* the first, nor a thread to another.                                     *)
THEOREM PoliciesAlwaysAgree == MainSpec => []PoliciesAgree
<1>1. AgreeInv => PoliciesAgree
  <2> SUFFICES ASSUME AgreeInv, phase = "done", Apart
               PROVE  reg = shown["blocked"]
    BY DEF PoliciesAgree, Apart
  <2>1. mode = "grained" /\ ~thread_active
    BY DEF AgreeInv, MainTypes
  <2>2. \A t \in Threads : reg[t] = shown["blocked"][t]
    BY <2>1, AllStopped, StoppedOnce DEF AgreeInv, FirstKnown
  <2> QED  BY <2>2 DEF AgreeInv, MainTypes, ContextsOf
<1> QED  BY <1>1, MainKnows, PTL

-----------------------------------------------------------------------------
(* A program alone.                                                        *)

Latency(i) == IF i.opcode = "LOAD" THEN image.load
              ELSE IF i.opcode = "STORE" THEN image.store ELSE 0

(* D lists when each of the first n instructions of thread 0 is due.       *)
DuesOf(n, D) ==
  /\ D[0] = 0
  /\ \A k \in 0 .. n - 1 :
       Goes(0, k) /\ D[k + 1] = D[k] + 1 + Latency(image.prog[0][k + 1])

Due(n, d) == \E D : DuesOf(n, D) /\ d = D[n]

(* The clock and the count of instructions at the end.                     *)
Takes(c) == \E n \in Nat : \E D : /\ DuesOf(n, D) /\ ~Goes(0, n)
                                   /\ c = <<D[n] + 1, n + 1>>

LEMMA DueNext ==
  ASSUME NEW n \in Nat, NEW d, Due(n, d), Goes(0, n)
  PROVE  Due(n + 1, d + 1 + Latency(image.prog[0][n + 1]))
<1>1. PICK D : DuesOf(n, D) /\ d = D[n]
  BY DEF Due
<1> DEFINE e == d + 1 + Latency(image.prog[0][n + 1])
           E == [k \in 0 .. n + 1 |-> IF k = n + 1 THEN e ELSE D[k]]
<1>2. E[n + 1] = e /\ \A k \in 0 .. n : E[k] = D[k]
  OBVIOUS
<1> HIDE DEF E, e
<1>3. E[0] = 0
  BY <1>1, <1>2 DEF DuesOf
<1>4. ASSUME NEW k \in 0 .. n
      PROVE  Goes(0, k) /\ E[k + 1] = E[k] + 1 + Latency(image.prog[0][k + 1])
  <2>1. CASE k = n
    BY <1>1, <1>2, <2>1 DEF e
  <2>2. CASE k \in 0 .. n - 1
    <3>1. k + 1 \in 0 .. n
      BY <2>2
    <3> QED  BY <1>1, <1>2, <2>2, <3>1 DEF DuesOf
  <2> QED  BY <2>1, <2>2
<1>5. DuesOf(n + 1, E)
  <2>1. (n + 1) - 1 = n
    OBVIOUS
  <2> QED  BY <1>3, <1>4, <2>1 DEF DuesOf
<1> QED  BY <1>2, <1>5 DEF Due, e

LEMMA TakesOnce ==
  ASSUME NEW c, NEW d, Takes(c), Takes(d)
  PROVE  c = d
<1>1. PICK n \in Nat : \E D : DuesOf(n, D) /\ ~Goes(0, n) /\ c = <<D[n] + 1, n + 1>>
  BY DEF Takes
<1>2. PICK m \in Nat : \E D : DuesOf(m, D) /\ ~Goes(0, m) /\ d = <<D[m] + 1, m + 1>>
  BY DEF Takes
<1>3. PICK D : DuesOf(n, D) /\ c = <<D[n] + 1, n + 1>>
  BY <1>1
<1>4. PICK E : DuesOf(m, E) /\ d = <<E[m] + 1, m + 1>>
  BY <1>2
<1>5. n = m
  <2>1. ~(n < m) /\ ~(m < n)
    BY <1>1, <1>2, <1>3, <1>4 DEF DuesOf
  <2> QED  BY <2>1
<1>6. D[0] = E[0] /\ \A k \in 0 .. n - 1 : D[k] = E[k] => D[k + 1] = E[k + 1]
  BY <1>3, <1>4, <1>5 DEF DuesOf
<1>7. D[n] = E[n]
  BY <1>6, SameSequence
<1> QED  BY <1>3, <1>4, <1>5, <1>7

(* No change of thread, and in the fine-grained loop no switch event.      *)
NoSwitch ==
  /\ mode = "blocked" => thread = 0
  /\ mode = "grained" => ~sw

(* The clock is the due time of the next instruction but for the rest of   *)
(* the wait.                                                               *)
OnTime ==
  IF thread_inst[0] = -1 THEN Takes(<<clck, inst>>)
  ELSE inst = thread_inst[0] /\ Due(inst, clck + thread_halt[0])

CyclesKnown ==
  /\ mode = "grained" => Takes(cycles["blocked"])
  /\ phase = "done" => mode = "grained" /\ Takes(cycles["grained"])

AloneInv ==
  /\ TypeOK /\ DOMAIN cycles = Modes /\ phase \in {"running", "done", "failed"}
  /\ NoSwitch /\ OnTime /\ CyclesKnown

LEMMA AloneThreads ==
  ASSUME ThreadNum = 1
  PROVE  Threads = {0}
BY DEF Threads

LEMMA StepAlone ==
  ASSUME ThreadNum = 1, TypeOK, NoSwitch, Step(0)
  PROVE  /\ thread_halt[0] = 0 /\ thread_halt'[0] = Latency(Fetch(0))
         /\ clck' = clck + 1 /\ inst' = inst + 1 /\ NoSwitch'
<1>1. 0 \in Threads /\ Threads = {0}
  BY AloneThreads
<1>2. /\ 0 = Picked /\ clck' = clck + Penalty + 1 /\ inst' = inst + 1
  BY DEF Step, Compute, Load, Store, Halt, Issue
<1>3. Ready(0) /\ mode' = mode /\ thread' = 0
  BY <1>1, StepOfThread
<1>4. ~Switches
  <2>1. mode \in {"blocked", "grained"}
    BY DEF TypeOK, Modes
  <2> QED  BY <1>2, <2>1, Zenon DEF Switches, NoSwitch
<1>5. Penalty = 0
  BY <1>4 DEF Penalty
<1>6. clck' = clck + 1 /\ clck \in Nat
  BY <1>2, <1>5 DEF TypeOK
<1>7. thread_halt[0] = 0 /\ thread_halt \in [Threads -> Nat]
  BY <1>3 DEF Ready, TypeOK
<1>8. mode = "grained" => ~sw'
  <2>1. sw' = (sw /\ ~Switches) \/ sw' = (mode = "blocked")
    BY DEF Step, Compute, Load, Store, Halt, Wait
  <2>2. mode = "grained" => ~sw
    BY DEF NoSwitch
  <2>3. mode = "grained" => mode # "blocked"
    OBVIOUS
  <2> QED  BY <2>1, <2>2, <2>3, Zenon
<1>9. thread_halt'[0] = Latency(Fetch(0))
  <2>1. ASSUME thread_halt' = CountDown(thread_halt, Penalty + 1)
        PROVE  thread_halt'[0] = 0
    BY <1>1, <1>5, <1>7, <2>1, Down DEF Less
  <2>2. ASSUME NEW latency \in Nat, Wait(0, latency)
        PROVE  thread_halt'[0] = latency
    <3> DEFINE h == CountDown(thread_halt, Penalty)
               g == [h EXCEPT ![0] = latency + 1]
    <3>1. h \in [Threads -> Nat]
      BY <1>5, <1>7, Down
    <3> HIDE DEF h
    <3>2. g \in [Threads -> Nat] /\ g[0] = latency + 1
      BY <1>1, <3>1
    <3>3. thread_halt' = CountDown(g, 1)
      BY <2>2 DEF Wait, h
    <3> HIDE DEF g
    <3>4. thread_halt'[0] = Less(latency + 1, 1)
      BY <1>1, <3>2, <3>3, Down
    <3> QED  BY <3>4 DEF Less
  <2>3. image.load \in Nat /\ image.store \in Nat
    BY ImageTypes
  <2>4. CASE Compute(0)
    BY <2>1, <2>4 DEF Compute, Issue, Latency
  <2>5. CASE Load(0)
    BY <2>2, <2>3, <2>5 DEF Load, Issue, Latency
  <2>6. CASE Store(0)
    BY <2>2, <2>3, <2>6 DEF Store, Issue, Latency
  <2>7. CASE Halt(0)
    BY <2>1, <2>7 DEF Halt, Issue, Latency
  <2> QED  BY <2>4, <2>5, <2>6, <2>7 DEF Step
<1> QED  BY <1>2, <1>3, <1>6, <1>7, <1>8, <1>9 DEF NoSwitch

LEMMA IdleAlone ==
  ASSUME ThreadNum = 1, TypeOK, NoSwitch, Idle
  PROVE  /\ thread_inst[0] > -1 /\ thread_halt[0] > 0
         /\ thread_halt'[0] = thread_halt[0] - 1 /\ clck' = clck + 1
         /\ UNCHANGED <<image, mode, inst, thread_inst>> /\ NoSwitch'
<1>1. 0 \in Threads /\ Threads = {0}
  BY AloneThreads
<1>2. thread_inst[0] > -1 /\ ~Ready(0)
  BY <1>1, SearchTypes, NobodyReady DEF Idle, thread_active
<1>3. thread_halt \in [Threads -> Nat] /\ thread_halt' = CountDown(thread_halt, 1)
  BY DEF Idle, TypeOK
<1>4. thread_halt'[0] = Less(thread_halt[0], 1) /\ thread_halt[0] \in Nat
  BY <1>1, <1>3, Down
<1>5. thread_halt[0] > 0
  BY <1>2, <1>4 DEF Ready
<1> QED  BY <1>2, <1>4, <1>5 DEF Idle, NoSwitch, Less

LEMMA SameTimes ==
  ASSUME image' = image
  PROVE  /\ \A n, d : Due(n, d)' <=> Due(n, d)
         /\ \A c : Takes(c)' <=> Takes(c)
BY DEF Due, Takes, DuesOf, Goes, Latency

LEMMA OnTimeAfter ==
  ASSUME image' = image, inst' = thread_inst'[0], thread_inst'[0] # -1,
         Due(inst', clck' + thread_halt'[0])
  PROVE  OnTime'
BY DEF OnTime, Due, DuesOf, Goes, Latency

LEMMA TimeStep ==
  ASSUME ThreadNum = 1, TypeOK, NoSwitch, OnTime, Step(0)
  PROVE  OnTime'
<1> DEFINE n == thread_inst[0]
           i == image.prog[0][n + 1]
<1>1. 0 \in Threads
  BY AloneThreads
<1>2. /\ Ready(0) /\ n > -1 /\ Advanced(0) /\ image' = image
  BY <1>1, StepOfThread
<1>3. /\ n \in Nat /\ i = Fetch(0)
  BY <1>1, <1>2, FetchedOpcode DEF Fetch
<1>4. /\ thread_halt[0] = 0 /\ thread_halt'[0] = Latency(i)
      /\ clck' = clck + 1 /\ inst' = inst + 1 /\ clck \in Nat
  BY <1>3, StepAlone DEF TypeOK
<1>5. inst = n /\ Due(n, clck)
  BY <1>2, <1>3, <1>4 DEF OnTime
<1>6. DOMAIN thread_inst = Threads
  BY DEF TypeOK
<1>7. CASE i.opcode = "HALT"
  <2>1. PICK D : DuesOf(n, D) /\ clck = D[n]
    BY <1>5 DEF Due
  <2>2. ~Goes(0, n)
    BY <1>7 DEF Goes
  <2>3. Takes(<<clck', inst'>>)
    BY <1>3, <1>4, <1>5, <2>1, <2>2 DEF Takes
  <2>4. thread_inst'[0] = -1
    BY <1>1, <1>2, <1>3, <1>6, <1>7 DEF Advanced
  <2> QED  BY <1>2, <2>3, <2>4, SameTimes DEF OnTime
<1>8. CASE i.opcode # "HALT"
  <2>1. Due(n + 1, clck + 1 + Latency(i))
    BY <1>3, <1>5, <1>8, DueNext DEF Goes
  <2>2. thread_inst'[0] = n + 1
    BY <1>1, <1>2, <1>3, <1>6, <1>8 DEF Advanced
  <2>3. thread_inst'[0] # -1
    BY <1>3, <2>2
  <2>4. Due(inst', clck' + thread_halt'[0])
    BY <1>4, <1>5, <2>1
  <2> QED  BY <1>2, <1>4, <1>5, <2>2, <2>3, <2>4, OnTimeAfter
<1> QED  BY <1>7, <1>8

LEMMA TimeIdles ==
  ASSUME ThreadNum = 1, TypeOK, NoSwitch, OnTime, Idle
  PROVE  OnTime'
<1>1. 0 \in Threads
  BY AloneThreads
<1>2. /\ thread_inst[0] > -1 /\ thread_halt[0] > 0
      /\ thread_halt'[0] = thread_halt[0] - 1 /\ clck' = clck + 1
      /\ UNCHANGED <<image, mode, inst, thread_inst>>
  BY IdleAlone
<1>3. /\ thread_halt[0] \in Nat /\ clck \in Nat /\ thread_inst[0] \in Int
  BY <1>1 DEF TypeOK
<1>4. clck' + thread_halt'[0] = clck + thread_halt[0] /\ thread_inst[0] # -1
  BY <1>2, <1>3
<1>5. inst = thread_inst[0] /\ Due(inst, clck + thread_halt[0])
  BY <1>4 DEF OnTime
<1>6. Due(inst', clck' + thread_halt'[0])
  BY <1>2, <1>4, <1>5
<1> QED  BY <1>2, <1>4, <1>5, <1>6, OnTimeAfter

LEMMA NewIsOnTime ==
  ASSUME ThreadNum = 1, NEW m \in Modes, NewMT(m)
  PROVE  NoSwitch /\ OnTime
<1>1. /\ mode = m /\ sw = FALSE /\ clck = 0 /\ inst = 0
      /\ thread = FirstThread(m) /\ thread_inst[0] = 0 /\ thread_halt[0] = 0
  BY AloneThreads DEF NewMT, Zeros
<1> DEFINE D == [k \in 0 .. 0 |-> 0]
<1>2. DuesOf(0, D) /\ D[0] = 0
  BY DEF DuesOf
<1>3. Due(0, 0 + 0)
  BY <1>2 DEF Due
<1> QED  BY <1>1, <1>3 DEF NoSwitch, OnTime, FirstThread

LEMMA GrainedIsOnTime ==
  ThreadNum = 1 /\ NewMT("grained") => NoSwitch /\ OnTime
BY NewIsOnTime DEF Modes

LEMMA AloneStarts == ThreadNum = 1 /\ MainInit => AloneInv
<1> SUFFICES ASSUME ThreadNum = 1, MainInit PROVE AloneInv
  OBVIOUS
<1>1. /\ image \in Images /\ NewMT("blocked") /\ mode = "blocked"
      /\ phase \in {"running", "failed"} /\ cycles = [m \in Modes |-> <<0, 0>>]
  BY DEF MainInit, NewMT
<1>2. TypeOK
  BY <1>1, InitTypes DEF Init, Modes
<1> QED  BY <1>1, <1>2, NewIsOnTime DEF AloneInv, CyclesKnown, Modes

LEMMA AloneSimulates == ThreadNum = 1 /\ AloneInv /\ Simulate => AloneInv'
<1> SUFFICES ASSUME ThreadNum = 1, AloneInv, Simulate PROVE AloneInv'
  OBVIOUS
<1>1. /\ TypeOK /\ NoSwitch /\ OnTime /\ CyclesKnown /\ DOMAIN cycles = Modes
      /\ phase = "running" /\ phase' = phase /\ cycles' = cycles /\ CoreNext
  BY DEF AloneInv, Simulate
<1>2. /\ TypeOK' /\ NoSwitch' /\ OnTime' /\ image' = image /\ mode' = mode
  <2>1. CASE CoreIdle
    BY <1>1, <2>1, StepOfNobody, IdleAlone, TimeIdles DEF CoreIdle
  <2>2. ASSUME NEW t \in Threads, CoreStep(t)
        PROVE  /\ TypeOK' /\ NoSwitch' /\ OnTime' /\ image' = image
               /\ mode' = mode
    <3>1. t = 0 /\ 0 \in Threads /\ Step(0)
      BY <2>2, AloneThreads DEF CoreStep
    <3> QED  BY <1>1, <3>1, StepOfThread, StepAlone, TimeStep
  <2> QED  BY <1>1, <2>1, <2>2 DEF CoreNext
<1>3. CyclesKnown'
  BY <1>1, <1>2, SameTimes DEF CyclesKnown
<1> QED  BY <1>1, <1>2, <1>3 DEF AloneInv

LEMMA AtTheEnd ==
  ASSUME ThreadNum = 1, OnTime, ~thread_active, TypeOK
  PROVE  Takes(<<clck, inst>>)
<1>1. thread_inst[0] = -1
  <2>1. 0 \in Threads
    BY AloneThreads
  <2>2. thread_inst[0] \in -1 .. Len(image.prog[0]) - 1 /\ ~(thread_inst[0] > -1)
    BY <2>1 DEF TypeOK, thread_active
  <2>3. Len(image.prog[0]) \in Nat
    BY <2>1, ImageTypes
  <2> QED  BY <2>2, <2>3
<1> QED  BY <1>1 DEF OnTime

LEMMA AloneGoesOn == ThreadNum = 1 /\ AloneInv /\ ReportBlocked => AloneInv'
<1> SUFFICES ASSUME ThreadNum = 1, AloneInv, ReportBlocked PROVE AloneInv'
  OBVIOUS
<1>1. /\ TypeOK /\ OnTime /\ ~thread_active /\ DOMAIN cycles = Modes
      /\ phase' = "running"
      /\ cycles' = [cycles EXCEPT !["blocked"] = <<clck, inst>>]
      /\ NewMT("grained")' /\ image' = image
  BY DEF AloneInv, ReportBlocked, Finished, NewMT, FirstThread, Zeros
<1>2. TypeOK'
  <2>1. Init'
    BY <1>1 DEF Init, Modes, TypeOK
  <2> QED  BY <2>1, InitTypes, PTL
<1>3. NoSwitch' /\ OnTime'
  BY <1>1, GrainedIsOnTime, PTL
<1>4. cycles'["blocked"] = <<clck, inst>> /\ DOMAIN cycles' = Modes
  BY <1>1 DEF Modes
<1>5. CyclesKnown'
  BY <1>1, <1>4, AtTheEnd, SameTimes DEF CyclesKnown
<1> QED  BY <1>1, <1>2, <1>3, <1>4, <1>5 DEF AloneInv

LEMMA AloneReports == ThreadNum = 1 /\ AloneInv /\ ReportGrained => AloneInv'
<1> SUFFICES ASSUME ThreadNum = 1, AloneInv, ReportGrained PROVE AloneInv'
  OBVIOUS
<1>1. /\ TypeOK /\ NoSwitch /\ OnTime /\ CyclesKnown /\ ~thread_active
      /\ mode = "grained" /\ phase' = "done" /\ DOMAIN cycles = Modes
      /\ cycles' = [cycles EXCEPT !["grained"] = <<clck, inst>>]
  BY DEF AloneInv, ReportGrained, Finished
<1>2. UNCHANGED <<image, mode, thread, clck, inst, sw, thread_inst, thread_halt>>
  BY DEF ReportGrained, coreVars, schedVars, sched
<1>3. TypeOK' /\ NoSwitch'
  BY <1>1, <1>2 DEF TypeOK, NoSwitch
<1>4. OnTime'
  BY <1>1, <1>2, SameTimes DEF OnTime
<1>5. /\ cycles'["grained"] = <<clck, inst>> /\ DOMAIN cycles' = Modes
      /\ cycles'["blocked"] = cycles["blocked"]
  BY <1>1 DEF Modes
<1>6. CyclesKnown'
  BY <1>1, <1>2, <1>5, AtTheEnd, SameTimes DEF CyclesKnown
<1> QED  BY <1>1, <1>3, <1>4, <1>5, <1>6 DEF AloneInv

(* AloneNoDifference, for a program of any length and any latencies: with  *)
(* one thread both loops give each instruction to op at the time that the  *)
(* instructions before it and their waits make.                            *)
THEOREM AloneSame == MainSpec => []AloneNoDifference
<1>1. CASE ThreadNum = 1
  <2>1. AloneInv /\ [MainNext]_mainVars => AloneInv'
    <3>1. CASE MainNext
      BY <1>1, <3>1, AloneSimulates, AloneGoesOn, AloneReports DEF MainNext
    <3>2. CASE UNCHANGED mainVars
      BY <3>2, SameTimes DEF AloneInv, TypeOK, NoSwitch, OnTime, CyclesKnown,
                             mainVars, coreVars, schedVars, sched
    <3> QED  BY <3>1, <3>2
  <2>2. AloneInv => AloneNoDifference
    BY TakesOnce DEF AloneInv, CyclesKnown, AloneNoDifference
  <2>3. MainInit => AloneInv
    BY <1>1, AloneStarts
  <2> QED  BY <2>1, <2>2, <2>3, PTL DEF MainSpec
<1>2. CASE ThreadNum # 1
  <2>1. AloneNoDifference
    BY <1>2 DEF AloneNoDifference
  <2> QED  BY <2>1, PTL
<1> QED  BY <1>1, <1>2
=============================================================================
