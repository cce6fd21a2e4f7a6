--------------------------- MODULE PredictorProofs ---------------------------
(***************************************************************************)
(* Proofs about the branch predictor, for all sizes of its tables, all     *)
(* kinds of configuration and all traces.                                  *)
(***************************************************************************)
EXTENDS PredictorHistory, Extremes, FiniteSetTheorems, FunctionTheorems,
        TLAPS

(* 2 ^ n is the number of subsets of n things: no prover here knows the    *)
(* powers of 2 otherwise.                                                  *)
LEMMA PowerCounts ==
  ASSUME NEW n \in Nat
  PROVE  2 ^ n \in Nat \ {0} /\ Cardinality(SUBSET (0 .. n - 1)) = 2 ^ n
<1> DEFINE S == 0 .. n - 1
<1>1. IsFiniteSet(S) /\ Cardinality(S) = n
  <2>1. 0 \in Int /\ n - 1 \in Int
    OBVIOUS
  <2>2. /\ IsFiniteSet(S)
        /\ Cardinality(S) = IF 0 > n - 1 THEN 0 ELSE n - 1 - 0 + 1
    BY ONLY <2>1, FS_Interval
  <2> QED  BY <2>2
<1> HIDE DEF S
<1>2. IsFiniteSet(SUBSET S) /\ Cardinality(SUBSET S) = 2 ^ n
  BY <1>1, FS_SUBSET
<1>3. SUBSET S # {}
  OBVIOUS
<1>4. Cardinality(SUBSET S) \in Nat \ {0}
  BY <1>2, <1>3, FS_CardinalityType, FS_EmptySet
<1> QED  BY <1>2, <1>4 DEF S

(* With one thing more the subsets are twice as many: those without it and *)
(* those with it.                                                          *)
LEMMA PowerDoubles ==
  ASSUME NEW n \in Nat
  PROVE  2 ^ (n + 1) = 2 * 2 ^ n
<1> DEFINE S == 0 .. n - 1
           T == 0 .. (n + 1) - 1
           F == [p \in (SUBSET S) \X {0, 1} |->
                   IF p[2] = 1 THEN p[1] \cup {n} ELSE p[1]]
<1>1. /\ Cardinality(SUBSET S) = 2 ^ n /\ IsFiniteSet(SUBSET S)
      /\ Cardinality(SUBSET T) = 2 ^ (n + 1)
      /\ 2 ^ n \in Nat
  <2>1. IsFiniteSet(S)
    BY FS_Interval
  <2>2. n + 1 \in Nat
    OBVIOUS
  <2> HIDE DEF S
  <2>3. IsFiniteSet(SUBSET S)
    BY <2>1, FS_SUBSET
  <2> QED  BY <2>2, <2>3, PowerCounts DEF S
<1>2. T = S \cup {n} /\ n \notin S
  OBVIOUS
<1> HIDE DEF S, T
<1>3. F \in Bijection((SUBSET S) \X {0, 1}, SUBSET T)
  <2>1. F \in [(SUBSET S) \X {0, 1} -> SUBSET T]
    BY <1>2
  <2>2. ASSUME NEW p \in (SUBSET S) \X {0, 1}, NEW q \in (SUBSET S) \X {0, 1},
               F[p] = F[q]
        PROVE  p = q
    <3>1. /\ p = <<p[1], p[2]>> /\ p[1] \subseteq S /\ p[2] \in {0, 1}
          /\ q = <<q[1], q[2]>> /\ q[1] \subseteq S /\ q[2] \in {0, 1}
      OBVIOUS
    <3>2. p[2] = 1 <=> n \in F[p]
      BY <1>2, <3>1
    <3>3. q[2] = 1 <=> n \in F[q]
      BY <1>2, <3>1
    <3>4. p[1] = F[p] \ {n} /\ q[1] = F[q] \ {n}
      BY <1>2, <3>1
    <3> QED  BY <2>2, <3>1, <3>2, <3>3, <3>4
  <2>3. ASSUME NEW U \in SUBSET T
        PROVE  \E p \in (SUBSET S) \X {0, 1} : F[p] = U
    <3> DEFINE p == <<U \ {n}, IF n \in U THEN 1 ELSE 0>>
    <3>1. p \in (SUBSET S) \X {0, 1}
      BY <1>2
    <3>2. F[p] = U
      BY <1>2, <3>1
    <3> QED  BY <3>1, <3>2
  <2> QED  BY <2>1, <2>2, <2>3, Fun_IsBij
<1>4. IsFiniteSet({0, 1}) /\ Cardinality({0, 1}) = 2
  <2>1. IsFiniteSet({0}) /\ Cardinality({0}) = 1
    BY FS_Singleton
  <2>2. {0, 1} = {0} \cup {1} /\ 1 \notin {0}
    OBVIOUS
  <2> QED  BY <2>1, <2>2, FS_AddElement
<1>5. /\ IsFiniteSet((SUBSET S) \X {0, 1})
      /\ Cardinality((SUBSET S) \X {0, 1}) = 2 ^ n * 2
  BY <1>1, <1>4, FS_Product
<1>6. Cardinality(SUBSET T) = 2 ^ n * 2
  <2>1. ExistsBijection((SUBSET S) \X {0, 1}, SUBSET T)
    BY <1>3 DEF ExistsBijection
  <2> QED  BY <1>5, <2>1, FS_Bijection
<1> QED  BY <1>1, <1>6

LEMMA PowersAreThere ==
  /\ 2 ^ RowBits \in Nat \ {0} /\ 2 ^ TagBits \in Nat \ {0}
  /\ 2 ^ AddrBits \in Nat \ {0}
  /\ 2 ^ 2 \in Nat \ {0} /\ 2 ^ (2 + RowBits) \in Nat \ {0}
  /\ \A i \in Bits : 2 ^ (2 + i) \in Nat \ {0} /\ 2 ^ (16 + i) \in Nat \ {0}
<1>1. /\ RowBits \in Nat /\ TagBits \in Nat /\ AddrBits \in Nat
      /\ 2 \in Nat /\ 2 + RowBits \in Nat
      /\ \A i \in Bits : 2 + i \in Nat /\ 16 + i \in Nat
  BY PredictorAssumption DEF Bits
<1>2. \A k \in Nat : 2 ^ k \in Nat \ {0}
  BY PowerCounts
<1> QED  BY <1>1, <1>2

(* bitExtracted returns as many bits as asked for.                         *)
LEMMA BitsInRange ==
  ASSUME NEW x \in Nat, NEW k, NEW p, 2 ^ k \in Nat \ {0}, 2 ^ p \in Nat \ {0}
  PROVE  Extract(x, k, p) \in 0 .. 2 ^ k - 1
<1> DEFINE a == 2 ^ k
           b == 2 ^ p
<1>1. a \in Nat \ {0} /\ b \in Nat \ {0}
  OBVIOUS
<1>2. Extract(x, k, p) = (x \div b) % a
  BY DEF Extract
<1> HIDE DEF a, b
<1>3. x \div b \in Nat
  BY <1>1
<1>4. Extract(x, k, p) \in 0 .. a - 1
  BY <1>1, <1>2, <1>3
<1> QED  BY <1>4 DEF a

LEMMA BranchesAreAddresses ==
  ASSUME NEW b \in Branches
  PROVE  b.pc \in Nat /\ b.target \in 0 .. 2 ^ AddrBits - 1
BY PredictorAssumption, PowersAreThere

LEMMA RowsAndTags ==
  ASSUME NEW pc \in Nat
  PROVE  RowOf(pc) \in Rows /\ TagOf(pc) \in 0 .. 2 ^ TagBits - 1
BY PowersAreThere, BitsInRange DEF RowOf, TagOf, Rows

(* A history and bits of the pc make a history again.                      *)
LEMMA PlaceIsHistory ==
  ASSUME config \in Configs, NEW pc \in Nat, NEW h \in History
  PROVE  Place(pc, h) \in History
<1>1. \A i \in Bits : PcBits(pc)[i] \in {0, 1}
  <2> SUFFICES ASSUME NEW i \in Bits PROVE PcBits(pc)[i] \in {0, 1}
    OBVIOUS
  <2>1. 2 ^ 1 = 2
    OBVIOUS
  <2>2. Extract(pc, 1, 2 + i) \in {0, 1} /\ Extract(pc, 1, 16 + i) \in {0, 1}
    <3>1. /\ Extract(pc, 1, 2 + i) \in 0 .. 2 ^ 1 - 1
          /\ Extract(pc, 1, 16 + i) \in 0 .. 2 ^ 1 - 1
      <4>1. 2 ^ 1 \in Nat \ {0}
        BY <2>1
      <4>2. 2 ^ (2 + i) \in Nat \ {0} /\ 2 ^ (16 + i) \in Nat \ {0}
        BY PowersAreThere
      <4>3. ASSUME NEW p \in {2 + i, 16 + i}
            PROVE  Extract(pc, 1, p) \in 0 .. 2 ^ 1 - 1
        <5>1. 2 ^ p \in Nat \ {0}
          BY <4>2
        <5> QED  BY <4>1, <5>1, BitsInRange
      <4> QED  BY <4>3
    <3> QED  BY <2>1, <3>1
  <2>3. config.Shared \in {"no", "lsb", "mid"}
    BY PredictorAssumption
  <2> QED  BY <2>2, <2>3 DEF PcBits
<1>2. \A i \in Bits : (PcBits(pc)[i] + h[i]) % 2 \in {0, 1}
  <2> SUFFICES ASSUME NEW i \in Bits
               PROVE  (PcBits(pc)[i] + h[i]) % 2 \in {0, 1}
    OBVIOUS
  <2>1. PcBits(pc)[i] \in {0, 1} /\ h[i] \in {0, 1}
    BY <1>1 DEF History
  <2> QED  BY <2>1
<1>3. Xor(PcBits(pc), h) \in History
  BY <1>2 DEF Xor, History
<1> QED  BY <1>3 DEF Place

LEMMA UpdatesKeepTypes ==
  ASSUME NEW h \in History, NEW s \in 0 .. 3, NEW taken \in BOOLEAN
  PROVE  historyUpdate(h, taken) \in History /\ fsmUpdate(s, taken) \in 0 .. 3
<1>1. \A i \in Bits : i > 0 => i - 1 \in Bits
  BY PredictorAssumption DEF Bits
<1> QED  BY <1>1 DEF historyUpdate, fsmUpdate, History

-----------------------------------------------------------------------------
(* The tables that BP_init makes.                                          *)
RowType == [valid : BOOLEAN, tag : 0 .. 2 ^ TagBits - 1,
            target : 0 .. 2 ^ AddrBits - 1, history : History]

Tabled == /\ rows \in [Rows -> RowType]
          /\ IF config.isGlobalTable THEN globalFsm \in Tables
             ELSE fsm \in [Rows -> Tables]

Typed ==
  /\ config \in Configs /\ globalHistory \in History
  /\ branches \in Nat /\ flushes \in 0 .. branches
  /\ phase \in {"config", "running", "reported", "rejected"}
  /\ phase \in {"running", "reported"} => Tabled

(* What a branch at pc finds: a row of the table, a history and a counter. *)
LEMMA FoundByBranch ==
  ASSUME config \in Configs, globalHistory \in History, Tabled, NEW pc \in Nat
  PROVE  /\ TenantRow(pc) \in RowType /\ rows[RowOf(pc)] \in RowType
         /\ TenantRow(pc).valid /\ TenantRow(pc).tag = TagOf(pc)
         /\ Hit(pc) => TenantRow(pc) = rows[RowOf(pc)]
         /\ ~config.isGlobalTable => /\ TenantTable(pc) \in Tables
                                     /\ fsm[RowOf(pc)] \in Tables
         /\ HistoryOf(pc) \in History
         /\ StateOf(pc) \in 0 .. 3
<1>1. RowOf(pc) \in Rows /\ TagOf(pc) \in 0 .. 2 ^ TagBits - 1
  BY RowsAndTags
<1>2. rows[RowOf(pc)] \in RowType
  BY <1>1 DEF Tabled
<1>3. NoHistory \in History
  BY DEF NoHistory, History
<1>4. /\ TenantRow(pc) \in RowType
      /\ TenantRow(pc).valid /\ TenantRow(pc).tag = TagOf(pc)
      /\ Hit(pc) => TenantRow(pc) = rows[RowOf(pc)]
  <2>1. CASE Hit(pc)
    BY <1>2, <2>1 DEF TenantRow, Hit
  <2>2. CASE ~Hit(pc)
    <3> DEFINE o == rows[RowOf(pc)]
               q == IF config.isGlobalHist THEN o.history ELSE NoHistory
    <3>1. o \in RowType /\ q \in History
      BY <1>2, <1>3 DEF RowType
    <3>2. TenantRow(pc) = [o EXCEPT !.valid = TRUE, !.tag = TagOf(pc),
                                    !.history = q]
      BY <1>2, <2>2 DEF TenantRow, RowType
    <3> HIDE DEF o, q
    <3> QED  BY <1>1, <2>2, <3>1, <3>2 DEF RowType
  <2> QED  BY <2>1, <2>2
<1>5. HistoryOf(pc) \in History
  BY <1>2 DEF HistoryOf, RowType
<1>6. ~config.isGlobalTable => TenantTable(pc) \in Tables /\ fsm[RowOf(pc)] \in Tables
  <2>1. config.fsmState \in 0 .. 3
    BY PredictorAssumption
  <2>2. NewTable \in Tables
    BY <2>1 DEF NewTable, Tables
  <2> QED  BY <1>1, <2>2 DEF Tabled, TenantTable
<1>7. StateOf(pc) \in 0 .. 3
  <2>1. Place(pc, HistoryOf(pc)) \in History
    BY <1>5, PlaceIsHistory
  <2>2. config.isGlobalTable => globalFsm \in Tables
    BY DEF Tabled
  <2> QED  BY <1>6, <2>1, <2>2 DEF StateOf, Tables
<1> QED  BY <1>2, <1>4, <1>5, <1>6, <1>7

(* What a branch leaves: its row with its target, its history one outcome  *)
(* longer, and the counter of the old history moved.                       *)
LEMMA LeftByBranch ==
  ASSUME config \in Configs, globalHistory \in History, Tabled,
         NEW b \in Branches, NEW taken \in BOOLEAN, Branch(b, taken)
  PROVE  LET t == TenantRow(b.pc)
             h == IF config.isGlobalHist THEN globalHistory ELSE t.history
             k == Place(b.pc, h)
             n == historyUpdate(h, taken)
             r == RowOf(b.pc)
         IN /\ h \in History /\ n \in History /\ k \in History
            /\ globalHistory' \in History /\ Tabled'
            /\ rows'[r].valid /\ rows'[r].tag = TagOf(b.pc)
            /\ rows'[r].target = b.target
            /\ (IF config.isGlobalHist THEN globalHistory'
                                       ELSE rows'[r].history) = n
            /\ (IF config.isGlobalTable THEN globalFsm'[k] ELSE fsm'[r][k])
                = fsmUpdate(IF config.isGlobalTable THEN globalFsm[k]
                            ELSE TenantTable(b.pc)[k], taken)
<1> DEFINE t == TenantRow(b.pc)
           h == IF config.isGlobalHist THEN globalHistory ELSE t.history
           k == Place(b.pc, h)
           n == historyUpdate(h, taken)
           r == RowOf(b.pc)
           q == IF config.isGlobalHist THEN t.history ELSE n
           e == [t EXCEPT !.target = b.target, !.history = q]
           u == TenantTable(b.pc)
<1>1. /\ b.pc \in Nat /\ b.target \in 0 .. 2 ^ AddrBits - 1 /\ r \in Rows
      /\ t \in RowType /\ t.valid /\ t.tag = TagOf(b.pc)
      /\ ~config.isGlobalTable => u \in Tables
  BY BranchesAreAddresses, RowsAndTags, FoundByBranch
<1>2. h \in History
  BY <1>1 DEF RowType
<1>3. n \in History /\ k \in History
  <2>1. 0 \in 0 .. 3
    OBVIOUS
  <2> HIDE DEF h
  <2> QED  BY <1>1, <1>2, <2>1, PlaceIsHistory, UpdatesKeepTypes
<1>4. /\ rows' = [rows EXCEPT ![r] = e]
      /\ globalHistory' = IF config.isGlobalHist THEN n ELSE globalHistory
      /\ config.isGlobalTable =>
           globalFsm' = [globalFsm EXCEPT ![k] = fsmUpdate(@, taken)]
      /\ ~config.isGlobalTable =>
           fsm' = [fsm EXCEPT ![r] = [u EXCEPT ![k] = fsmUpdate(@, taken)]]
      /\ config' = config
  <2>1. q = IF config.isGlobalHist THEN t.history ELSE n
    OBVIOUS
  <2>2. [t EXCEPT !.target = b.target,
                  !.history = IF config.isGlobalHist THEN @ ELSE n] = e
    <3> HIDE DEF t, n
    <3> QED  BY <1>1 DEF RowType
  <2>3. /\ rows' = [rows EXCEPT ![r] =
                      [t EXCEPT !.target = b.target,
                        !.history = IF config.isGlobalHist THEN @ ELSE n]]
        /\ globalHistory' = IF config.isGlobalHist THEN n ELSE globalHistory
        /\ config.isGlobalTable =>
             globalFsm' = [globalFsm EXCEPT ![k] = fsmUpdate(@, taken)]
        /\ ~config.isGlobalTable =>
             fsm' = [fsm EXCEPT ![r] = [u EXCEPT ![k] = fsmUpdate(@, taken)]]
        /\ config' = config
    BY DEF Branch
  <2> QED  BY <2>2, <2>3
<1> HIDE DEF t, h, k, n, r, u
<1>5. /\ e \in RowType /\ e.valid /\ e.tag = TagOf(b.pc)
      /\ e.target = b.target
      /\ ~config.isGlobalHist => e.history = n
  <2>1. q \in History
    BY <1>1, <1>3 DEF RowType
  <2> HIDE DEF q
  <2>2. /\ e \in RowType /\ e.valid /\ e.tag = TagOf(b.pc)
        /\ e.target = b.target /\ e.history = q
    BY <1>1, <2>1 DEF RowType
  <2> QED  BY <2>2 DEF q
<1> HIDE DEF e
<1>6. rows' \in [Rows -> RowType] /\ rows'[r] = e
  BY <1>1, <1>4, <1>5 DEF Tabled
<1>7. ASSUME config.isGlobalTable
      PROVE  /\ globalFsm' \in Tables
             /\ globalFsm'[k] = fsmUpdate(globalFsm[k], taken)
  <2>1. globalFsm \in Tables /\ globalFsm[k] \in 0 .. 3
    BY <1>3, <1>7 DEF Tabled, Tables
  <2>2. fsmUpdate(globalFsm[k], taken) \in 0 .. 3
    BY <1>2, <2>1, UpdatesKeepTypes
  <2> QED  BY <1>3, <1>4, <1>7, <2>1, <2>2 DEF Tables
<1>8. ASSUME ~config.isGlobalTable
      PROVE  /\ fsm' \in [Rows -> Tables]
             /\ fsm'[r][k] = fsmUpdate(u[k], taken)
  <2>1. u \in Tables /\ u[k] \in 0 .. 3 /\ fsm \in [Rows -> Tables]
    BY <1>1, <1>3, <1>8 DEF Tabled, Tables
  <2>2. fsmUpdate(u[k], taken) \in 0 .. 3
    BY <1>2, <2>1, UpdatesKeepTypes
  <2> DEFINE v == [u EXCEPT ![k] = fsmUpdate(u[k], taken)]
  <2>3. v \in Tables /\ v[k] = fsmUpdate(u[k], taken)
    BY <1>3, <2>1, <2>2 DEF Tables
  <2>4. fsm' = [fsm EXCEPT ![r] = v]
    BY <1>4, <1>8
  <2> HIDE DEF v
  <2> QED  BY <1>1, <2>1, <2>3, <2>4
<1>9. Tabled'
  BY <1>4, <1>6, <1>7, <1>8 DEF Tabled
<1> QED
  BY <1>2, <1>3, <1>4, <1>5, <1>6, <1>7, <1>8, <1>9 DEF t, h, k, n, r, u

(* The types are inductive once they are said of the tables in use.        *)
LEMMA TypedAtFirst == Init => Typed
<1>1. NoHistory \in History
  BY DEF NoHistory, History
<1> QED  BY <1>1 DEF Init, Typed

LEMMA BranchKeepsTyped ==
  ASSUME Typed, NEW b \in Branches, NEW taken \in BOOLEAN, Branch(b, taken)
  PROVE  Typed' /\ Tabled /\ Tabled' /\ config' = config
<1>1. /\ phase = "running" /\ phase' = phase /\ config' = config
      /\ branches' = branches + 1
      /\ flushes' \in {flushes, flushes + 1}
  BY DEF Branch
<1>2. Tabled /\ config \in Configs /\ globalHistory \in History
  BY <1>1 DEF Typed
<1>3. Tabled' /\ globalHistory' \in History
  BY <1>2, LeftByBranch
<1>4. branches' \in Nat /\ flushes' \in 0 .. branches'
  BY <1>1 DEF Typed
<1> QED  BY <1>1, <1>2, <1>3, <1>4 DEF Typed

LEMMA InitKeepsTyped ==
  ASSUME Typed, BP_init
  PROVE  Typed' /\ config' = config
<1>1. NoHistory \in History
  BY DEF NoHistory, History
<1>2. NewTable \in Tables
  <2>1. config.fsmState \in 0 .. 3
    BY PredictorAssumption DEF Typed
  <2> QED  BY <2>1 DEF NewTable, Tables
<1>3. 0 \in 0 .. 2 ^ TagBits - 1 /\ 0 \in 0 .. 2 ^ AddrBits - 1
  <2>1. \A x \in Nat \ {0} : 0 \in 0 .. x - 1
    OBVIOUS
  <2> QED  BY <2>1, PowersAreThere
<1>4. rows' \in [Rows -> RowType]
  BY <1>1, <1>3 DEF BP_init, RowType
<1>5. Tabled'
  BY <1>2, <1>4 DEF BP_init, Tabled
<1> QED  BY <1>5 DEF BP_init, Typed

LEMMA OthersKeepTyped ==
  ASSUME Typed, BadLine \/ Report \/ UNCHANGED vars
  PROVE  Typed' /\ UNCHANGED <<config, btb>>
<1>1. UNCHANGED <<config, btb>>
  BY DEF BadLine, Report, vars
<1>2. (Tabled' <=> Tabled) /\ (phase' \in {"running", "reported"} =>
                                 phase \in {"running", "reported"})
  <2>1. Tabled' <=> Tabled
    BY <1>1 DEF Tabled, btb
  <2> QED  BY <2>1 DEF BadLine, Report, vars
<1>3. phase' \in {"config", "running", "reported", "rejected"}
  BY DEF Typed, BadLine, Report, vars
<1> QED  BY <1>1, <1>2, <1>3 DEF Typed, btb

LEMMA TypedIsType == Typed => TypeOK
BY DEF Typed, TypeOK, Tabled, RowType

(* Whatever the trace says and whichever branches take over rows from each *)
(* other, the counters stay counters of two bits, the histories stay of    *)
(* their length, the tags and targets stay in their widths, and no more    *)
(* branches are flushed than there were.                                   *)
THEOREM TablesKeepTheirTypes == Spec => []TypeOK
<1>1. Init => Typed
  BY TypedAtFirst
<1>2. Typed /\ [Next]_vars => Typed'
  BY BranchKeepsTyped, InitKeepsTyped, OthersKeepTyped DEF Next
<1>3. Typed => TypeOK
  BY TypedIsType
<1> QED  BY <1>1, <1>2, <1>3, PTL DEF Spec

-----------------------------------------------------------------------------
(* The last m lines of the trace are the branch b in the direction taken.  *)
Entry(b, taken) == [pc |-> b.pc, target |-> b.target, taken |-> taken]

Repeated(b, taken, m) ==
  /\ m <= Len(log)
  /\ \A i \in Len(log) - m + 1 .. Len(log) : log[i] = Entry(b, taken)

(* What m repetitions teach: the row is the branch's own, the last m bits  *)
(* of its history are the direction, and, once they are the whole history, *)
(* each further one moves the same counter towards the direction.          *)
Taught(b, taken, m) ==
  /\ Hit(b.pc) /\ rows[RowOf(b.pc)].target = b.target
  /\ \A i \in Bits : i < m => HistoryOf(b.pc)[i] = IF taken THEN 1 ELSE 0
  /\ m > HistorySize => IF taken THEN StateOf(b.pc) >= 1 ELSE StateOf(b.pc) <= 2
  /\ m > HistorySize + 1 =>
       IF taken THEN StateOf(b.pc) >= 2 ELSE StateOf(b.pc) <= 1

Teaching == \A b \in Branches, taken \in BOOLEAN, m \in Nat \ {0} :
              Repeated(b, taken, m) => Taught(b, taken, m)

LineType == [pc : Int, target : Int, taken : BOOLEAN]

Logged ==
  /\ log \in Seq(LineType)
  /\ phase = "config" => log = <<>>
  /\ log # <<>> => Tabled

(* One more line appended: it is the last of those repeated, and the       *)
(* others were repeated before it.                                         *)
LEMMA OneMore ==
  ASSUME Logged, NEW c \in Branches, NEW went \in BOOLEAN,
         log' = Append(log, Entry(c, went)),
         NEW b \in Branches, NEW taken \in BOOLEAN, NEW m \in Nat \ {0},
         Repeated(b, taken, m)'
  PROVE  /\ c.pc = b.pc /\ c.target = b.target /\ went = taken
         /\ m > 1 => Repeated(b, taken, m - 1) /\ log # <<>>
<1> DEFINE n == Len(log)
<1>1. n \in Nat /\ Len(log') = n + 1 /\ log'[n + 1] = Entry(c, went)
      /\ \A i \in 1 .. n : log'[i] = log[i]
  BY DEF Logged
<1>2. /\ m <= n + 1
      /\ \A i \in n + 1 - m + 1 .. n + 1 : log'[i] = Entry(b, taken)
  BY <1>1 DEF Repeated, Entry
<1> HIDE DEF n
<1>3. Entry(c, went) = Entry(b, taken)
  BY <1>1, <1>2
<1>4. c.pc = b.pc /\ c.target = b.target /\ went = taken
  BY <1>3 DEF Entry
<1>5. ASSUME m > 1 PROVE Repeated(b, taken, m - 1) /\ log # <<>>
  <2>1. \A i \in n - (m - 1) + 1 .. n : log[i] = Entry(b, taken)
    BY <1>1, <1>2, <1>5
  <2>2. m - 1 <= n /\ n > 0
    BY <1>1, <1>2, <1>5
  <2> QED  BY <2>1, <2>2 DEF Repeated, n
<1> QED  BY <1>4, <1>5

(* What the line teaches.                                                  *)
LEMMA LineTeaches ==
  ASSUME Typed, Tabled, NEW b \in Branches, NEW taken \in BOOLEAN,
         Branch(b, taken), NEW m \in Nat \ {0},
         m > 1 => Taught(b, taken, m - 1)
  PROVE  Taught(b, taken, m)'
<1> DEFINE t == TenantRow(b.pc)
           h == IF config.isGlobalHist THEN globalHistory ELSE t.history
           k == Place(b.pc, h)
           n == historyUpdate(h, taken)
           r == RowOf(b.pc)
           d == IF taken THEN 1 ELSE 0
           s == IF config.isGlobalTable THEN globalFsm[k]
                ELSE TenantTable(b.pc)[k]
<1>1. config' = config /\ config \in Configs /\ globalHistory \in History
  BY DEF Typed, Branch
<1>2. /\ h \in History /\ n \in History /\ k \in History /\ Tabled'
      /\ globalHistory' \in History
      /\ rows'[r].valid /\ rows'[r].tag = TagOf(b.pc)
      /\ rows'[r].target = b.target
      /\ (IF config.isGlobalHist THEN globalHistory' ELSE rows'[r].history) = n
      /\ (IF config.isGlobalTable THEN globalFsm'[k] ELSE fsm'[r][k])
           = fsmUpdate(s, taken)
  BY <1>1, LeftByBranch
<1>3. b.pc \in Nat
  BY BranchesAreAddresses
<1>4. /\ Hit(b.pc) => t = rows[r] /\ TenantTable(b.pc) = fsm[r]
      /\ StateOf(b.pc) \in 0 .. 3
  BY <1>1, <1>3, FoundByBranch DEF TenantTable
<1>5. Hit(b.pc)' /\ HistoryOf(b.pc)' = n
  BY <1>1, <1>2 DEF Hit, HistoryOf
<1>6. \A x : Place(b.pc, x)' = Place(b.pc, x)
  BY <1>1 DEF Place, PcBits, Xor
<1>7. m > 1 => HistoryOf(b.pc) = h /\ StateOf(b.pc) = s
  BY <1>4 DEF Taught, HistoryOf, StateOf
<1>8. ASSUME NEW i \in Bits, i < m PROVE n[i] = d
  <2>1. CASE i = 0
    BY <2>1 DEF historyUpdate
  <2>2. CASE i > 0
    <3>1. m > 1 /\ i - 1 \in Bits /\ i - 1 < m - 1
      BY <1>8, <2>2, PredictorAssumption DEF Bits
    <3>2. h[i - 1] = d
      BY <1>7, <3>1 DEF Taught
    <3> QED  BY <2>2, <3>2 DEF historyUpdate
  <2> QED  BY <2>1, <2>2 DEF Bits
<1>9. ASSUME m > HistorySize PROVE m > 1 /\ h = n /\ StateOf(b.pc)' = fsmUpdate(s, taken)
  <2>1. m > 1 /\ \A i \in Bits : i < m /\ i < m - 1
    BY <1>9, PredictorAssumption DEF Bits
  <2>2. \A i \in Bits : h[i] = d /\ n[i] = d
    BY <1>7, <1>8, <2>1 DEF Taught
  <2>3. h = n
    BY <1>2, <2>2 DEF History
  <2>4. Place(b.pc, HistoryOf(b.pc))' = k
    <3>1. Place(b.pc, HistoryOf(b.pc))' = Place(b.pc, n)
      BY <1>5, <1>1 DEF Place, PcBits, Xor
    <3> QED  BY <2>3, <3>1
  <2> QED  BY <1>1, <1>2, <2>1, <2>3, <2>4 DEF StateOf
<1> HIDE DEF t, h, k, n, r, d, s
<1>10. m > HistorySize =>
         IF taken THEN StateOf(b.pc)' >= 1 ELSE StateOf(b.pc)' <= 2
  BY <1>4, <1>7, <1>9 DEF fsmUpdate
<1>11. m > HistorySize + 1 =>
         IF taken THEN StateOf(b.pc)' >= 2 ELSE StateOf(b.pc)' <= 1
  BY <1>4, <1>7, <1>9, PredictorAssumption DEF fsmUpdate, Taught
<1>12. rows'[RowOf(b.pc)].target = b.target
  BY <1>2 DEF r
<1>13. \A i \in Bits : i < m => HistoryOf(b.pc)'[i] = IF taken THEN 1 ELSE 0
  BY <1>5, <1>8 DEF d
<1> QED
  BY <1>5, <1>10, <1>11, <1>12, <1>13 DEF Taught

LEMMA LogKept ==
  ASSUME Logged, Typed, Teaching, UNCHANGED log,
         BP_init \/ BadLine \/ Report \/ UNCHANGED vars
  PROVE  Logged' /\ Teaching'
<1>1. CASE BP_init
  <2>1. log = <<>> /\ log' = <<>>
    BY <1>1 DEF BP_init, Logged
  <2>2. Len(log') = 0
    BY <2>1
  <2> QED  BY <2>1, <2>2 DEF Logged, Teaching, Repeated
<1>2. CASE BadLine \/ Report \/ UNCHANGED vars
  <2>1. UNCHANGED <<config, rows, fsm, globalHistory, globalFsm>>
        /\ (phase' = "config" => phase = "config")
    BY <1>2, OthersKeepTyped DEF BadLine, Report, vars, btb
  <2>2. Logged'
    BY <2>1 DEF Logged, Tabled
  <2>3. ASSUME NEW b \in Branches, NEW taken \in BOOLEAN, NEW m \in Nat \ {0},
               Repeated(b, taken, m)'
        PROVE  Taught(b, taken, m)'
    <3>1. Taught(b, taken, m)
      BY <2>3 DEF Teaching, Repeated, Entry
    <3>2. /\ Hit(b.pc)' = Hit(b.pc) /\ HistoryOf(b.pc)' = HistoryOf(b.pc)
      BY <2>1 DEF Hit, HistoryOf
    <3>3. StateOf(b.pc)' = StateOf(b.pc)
      BY <2>1 DEF StateOf, HistoryOf, Place, Xor, PcBits
    <3> QED  BY <2>1, <3>1, <3>2, <3>3 DEF Taught
  <2> QED  BY <2>2, <2>3 DEF Teaching
<1> QED  BY <1>1, <1>2

LEMMA LogStep ==
  ASSUME Typed, Logged, Teaching, [LogNext]_allVars
  PROVE  Typed' /\ Logged' /\ Teaching'
<1>1. ASSUME NEW b \in Branches, NEW taken \in BOOLEAN, Branch(b, taken),
             log' = Append(log, Entry(b, taken))
      PROVE  Typed' /\ Logged' /\ Teaching'
  <2>1. Typed' /\ Tabled /\ Tabled'
    BY <1>1, BranchKeepsTyped
  <2>2. Logged'
    <3>1. Entry(b, taken) \in LineType
      BY BranchesAreAddresses, PowersAreThere DEF Entry, LineType
    <3>2. phase' = "running"
      BY <1>1 DEF Branch
    <3> QED  BY <1>1, <2>1, <3>1, <3>2 DEF Logged
  <2>3. ASSUME NEW c \in Branches, NEW went \in BOOLEAN, NEW m \in Nat \ {0},
               Repeated(c, went, m)'
        PROVE  Taught(c, went, m)'
    <3>1. /\ b.pc = c.pc /\ b.target = c.target /\ taken = went
          /\ m > 1 => Repeated(c, went, m - 1)
      BY <1>1, <2>3, OneMore
    <3>2. m > 1 => Taught(c, went, m - 1)
      BY <3>1 DEF Teaching
    <3>3. m > 1 => Taught(b, taken, m - 1)
      BY <3>1, <3>2 DEF Taught
    <3>4. Taught(b, taken, m)'
      BY <1>1, <2>1, <3>3, LineTeaches
    <3> QED  BY <3>1, <3>4 DEF Taught
  <2> QED  BY <2>1, <2>2, <2>3 DEF Teaching
<1>2. ASSUME UNCHANGED log, BP_init \/ BadLine \/ Report \/ UNCHANGED vars
      PROVE  Typed' /\ Logged' /\ Teaching'
  BY <1>2, LogKept, InitKeepsTyped, OthersKeepTyped
<1> QED  BY <1>1, <1>2 DEF LogNext, allVars, Entry

(* Under every configuration, after any past and among any other branches, *)
(* a branch that has been all the trace did for HistorySize + 2 lines, in  *)
(* one direction, is predicted in that direction and to its target, as     *)
(* long as it goes on.                                                     *)
THEOREM RepeatedBranchIsLearned == LogSpec => []Learns
<1>1. LogInit => Typed /\ Logged /\ Teaching
  BY TypedAtFirst DEF LogInit, Init, Logged, Teaching, Repeated
<1>2. Typed /\ Logged /\ Teaching /\ [LogNext]_allVars
      => Typed' /\ Logged' /\ Teaching'
  BY LogStep
<1>3. Typed /\ Teaching /\ Logged => Learns
  <2> SUFFICES ASSUME Typed, Teaching, Logged, NEW b \in Branches, NEW taken \in BOOLEAN,
                      Len(log) >= HistorySize + 2,
                      \A i \in Len(log) - HistorySize - 1 .. Len(log) :
                        log[i] = Entry(b, taken)
               PROVE  Predict(b.pc) =
                        [taken |-> taken,
                         dst |-> IF taken THEN b.target ELSE Following(b.pc)]
    BY DEF Learns, Entry
  <2> DEFINE m == HistorySize + 2
  <2>1. m \in Nat \ {0} /\ m > HistorySize + 1 /\ Len(log) \in Nat
        /\ Len(log) - m + 1 = Len(log) - HistorySize - 1
    <3>1. Len(log) \in Nat
      BY DEF Logged
    <3>2. HistorySize \in Nat
      BY PredictorAssumption
    <3> QED  BY <3>1, <3>2
  <2>2. Repeated(b, taken, m)
    BY <2>1 DEF Repeated
  <2> HIDE DEF m
  <2>3. Taught(b, taken, m)
    BY <2>1, <2>2 DEF Teaching
  <2>4. Hit(b.pc) /\ rows[RowOf(b.pc)].target = b.target
        /\ (taken => StateOf(b.pc) >= 2) /\ (~taken => StateOf(b.pc) <= 1)
    BY <2>1, <2>3 DEF Taught
  <2>5. StateOf(b.pc) \in 0 .. 3
    <3>1. log # <<>> /\ config \in Configs /\ globalHistory \in History
      BY <2>1, PredictorAssumption DEF Typed, m
    <3> QED  BY <3>1, BranchesAreAddresses, FoundByBranch DEF Logged
  <2>6. PredictsTaken(StateOf(b.pc)) <=> taken
    BY <2>4, <2>5 DEF PredictsTaken
  <2> QED  BY <2>4, <2>6 DEF Predict
<1> QED  BY <1>1, <1>2, <1>3, PTL DEF LogSpec

-----------------------------------------------------------------------------
(* What the definition of PredictorHistory looks up.  A set of naturals    *)
(* that has 0, and the next of each of its members, has them all.          *)
LEMMA AllNaturals ==
  ASSUME NEW S \in SUBSET Nat, 0 \in S, \A n \in Nat : n \in S => n + 1 \in S
  PROVE  S = Nat
<1> SUFFICES ASSUME NEW c \in Nat, c \notin S PROVE FALSE
  OBVIOUS
<1> DEFINE Bad == {n \in 0 .. (c + 1) - 1 : n \notin S}
<1>1. Bad # {} /\ Bad \in SUBSET (0 .. (c + 1) - 1) /\ c + 1 \in Nat
  OBVIOUS
<1>2. PICK n \in Bad : \A x \in Bad : n <= x
  <2> HIDE DEF Bad
  <2> QED  BY <1>1, LeastAndGreatest
<1>3. n # 0 /\ n - 1 \in Nat /\ n - 1 \notin Bad /\ n - 1 \in 0 .. (c + 1) - 1
  BY <1>2
<1>4. n - 1 \in S
  BY <1>3
<1> QED  BY <1>2, <1>3, <1>4

(* f counts what Counter says, for the first n lines.                      *)
Step(T, k, i, s) ==
  IF i \in T /\ PlaceAt(log[i].pc, i) = k THEN Moved(s, log[i].taken) ELSE s

Counts(T, k, n, f) ==
  f = [i \in 0 .. n |-> IF i = 0 THEN config.fsmState
                        ELSE Step(T, k, i, f[i - 1])]

LEMMA CountsExist ==
  ASSUME NEW T, NEW k
  PROVE  \A n \in Nat : \E f : Counts(T, k, n, f)
<1> DEFINE S == {n \in Nat : \E f : Counts(T, k, n, f)}
<1>1. 0 \in S
  <2> DEFINE f == [i \in 0 .. 0 |-> config.fsmState]
  <2>1. Counts(T, k, 0, f)
    BY DEF Counts
  <2> QED  BY <2>1
<1>2. ASSUME NEW n \in Nat, NEW f, Counts(T, k, n, f)
      PROVE  \E g : Counts(T, k, n + 1, g)
  <2> DEFINE g == [i \in 0 .. n + 1 |->
                     IF i = n + 1 THEN Step(T, k, n + 1, f[n]) ELSE f[i]]
             h == [i \in 0 .. n + 1 |-> IF i = 0 THEN config.fsmState
                                        ELSE Step(T, k, i, g[i - 1])]
  <2>1. \A i \in 0 .. n : f[i] = IF i = 0 THEN config.fsmState
                                 ELSE Step(T, k, i, f[i - 1])
    BY <1>2 DEF Counts
  <2>2. ASSUME NEW i \in 0 .. n + 1 PROVE g[i] = h[i]
    <3>1. CASE i = n + 1
      <4>1. i # 0 /\ i - 1 = n /\ n \in 0 .. n + 1 /\ n # n + 1
        BY <3>1
      <4> QED  BY <3>1, <4>1
    <3>2. CASE i # n + 1 /\ i # 0
      <4>1. i \in 0 .. n /\ i - 1 \in 0 .. n + 1 /\ i - 1 # n + 1
        BY <3>2
      <4> QED  BY <2>1, <3>2, <4>1
    <3>3. CASE i # n + 1 /\ i = 0
      BY <2>1, <3>3
    <3> QED  BY <3>1, <3>2, <3>3
  <2>3. g = h
    <3> HIDE DEF Step
    <3> QED BY <2>2
  <2> HIDE DEF g
  <2>4. Counts(T, k, n + 1, g)
    BY <2>3 DEF Counts
  <2> QED  BY <2>4
<1> HIDE DEF S
<1>3. S = Nat
  <2>1. S \in SUBSET Nat /\ \A n \in Nat : n \in S => n + 1 \in S
    BY <1>2 DEF S
  <2> QED  BY <1>1, <2>1, AllNaturals
<1> QED  BY <1>3 DEF S

LEMMA CountsAgree ==
  ASSUME NEW T, NEW U, NEW k, NEW n \in Nat, NEW m \in Nat, NEW f, NEW g,
         Counts(T, k, n, f), Counts(U, k, m, g),
         \A i \in 1 .. n : i \in T <=> i \in U
  PROVE  \A i \in 0 .. n : i <= m => f[i] = g[i]
<1> DEFINE S == {i \in Nat : i <= n /\ i <= m => f[i] = g[i]}
<1>1. 0 \in S
  BY DEF Counts
<1>2. ASSUME NEW i \in Nat, i \in S PROVE i + 1 \in S
  <2> SUFFICES ASSUME i + 1 <= n, i + 1 <= m PROVE f[i + 1] = g[i + 1]
    OBVIOUS
  <2>1. /\ i + 1 \in 0 .. n /\ i + 1 \in 0 .. m /\ i + 1 \in 1 .. n
        /\ i + 1 # 0 /\ (i + 1) - 1 = i /\ i <= n /\ i <= m
    OBVIOUS
  <2>2. f[i] = g[i]
    BY <1>2, <2>1
  <2>3. f[i + 1] = Step(T, k, i + 1, f[i]) /\ g[i + 1] = Step(U, k, i + 1, g[i])
    BY <2>1 DEF Counts
  <2> QED  BY <2>1, <2>2, <2>3 DEF Step
<1> HIDE DEF S
<1>3. S = Nat
  <2>1. S \in SUBSET Nat
    BY DEF S
  <2> QED  BY <1>1, <1>2, <2>1, AllNaturals
<1> QED  BY <1>3 DEF S

LEMMA CounterIs ==
  ASSUME NEW T, NEW k, NEW n \in Nat, NEW f, Counts(T, k, n, f)
  PROVE  Counter(T, k, n) = f[n]
<1> DEFINE g == CHOOSE g : Counts(T, k, n, g)
<1>1. Counts(T, k, n, g)
  OBVIOUS
<1>2. Counter(T, k, n) = g[n]
  BY Zenon DEF Counter, Counts, Step
<1> HIDE DEF g
<1>3. g[n] = f[n]
  BY <1>1, CountsAgree
<1> QED  BY <1>2, <1>3

LEMMA CounterIsNext ==
  ASSUME NEW T, NEW k, NEW n \in Nat, NEW f
  PROVE  (Counts(T, k, n, f) => Counter(T, k, n) = f[n])'
<1>1. Counts(T, k, n, f) => Counter(T, k, n) = f[n]
  BY CounterIs
<1> QED  BY <1>1, PTL

(* What is needed of Counter: its start, its step, which lines it depends  *)
(* on, and that Moved moves as the code does.                              *)
LEMMA CounterNext ==
  ASSUME NEW T, NEW k, NEW n \in Nat
  PROVE  /\ Counter(T, k, 0) = config.fsmState
         /\ Counter(T, k, n + 1) = Step(T, k, n + 1, Counter(T, k, n))
<1>1. PICK z : Counts(T, k, 0, z)
  BY CountsExist
<1>2. PICK f : Counts(T, k, n, f)
  BY CountsExist
<1>3. PICK g : Counts(T, k, n + 1, g)
  BY CountsExist
<1>4. Counter(T, k, 0) = z[0] /\ z[0] = config.fsmState
  <2>1. 0 \in Nat
    OBVIOUS
  <2>2. Counter(T, k, 0) = z[0]
    BY <1>1, <2>1, CounterIs
  <2> QED  BY <1>1, <2>2 DEF Counts
<1>5. f[n] = g[n]
  <2>1. n \in 0 .. n /\ n <= n + 1
    OBVIOUS
  <2>2. PICK m \in Nat : m = n + 1
    OBVIOUS
  <2>3. Counts(T, k, m, g)
    BY <1>3, <2>2
  <2>4. \A i \in 0 .. n : i <= m => f[i] = g[i]
    <3>1. PICK U : U = T
      OBVIOUS
    <3>2. Counts(U, k, m, g)
      BY <2>3, <3>1
    <3>3. \A i \in 1 .. n : i \in T <=> i \in U
      BY <3>1
    <3> QED  BY <1>2, <3>2, <3>3, CountsAgree
  <2> QED  BY <2>1, <2>2, <2>4
<1>6. g[n + 1] = Step(T, k, n + 1, g[n])
  <2>1. n + 1 \in 0 .. n + 1 /\ n + 1 # 0 /\ (n + 1) - 1 = n
    OBVIOUS
  <2> QED  BY <1>3, <2>1 DEF Counts
<1>7. Counter(T, k, n) = f[n] /\ Counter(T, k, n + 1) = g[n + 1]
  BY <1>2, <1>3, CounterIs
<1> QED  BY <1>4, <1>5, <1>6, <1>7

LEMMA CounterNextNow ==
  ASSUME NEW T, NEW k, NEW n \in Nat
  PROVE  (Counter(T, k, n + 1) = Step(T, k, n + 1, Counter(T, k, n)))'
<1>1. Counter(T, k, n + 1) = Step(T, k, n + 1, Counter(T, k, n))
  BY CounterNext
<1> QED  BY <1>1, PTL

LEMMA CounterSame ==
  ASSUME NEW T, NEW U, NEW k, NEW n \in Nat,
         \A i \in 1 .. n : i \in T <=> i \in U
  PROVE  Counter(T, k, n) = Counter(U, k, n)
<1>1. PICK f : Counts(T, k, n, f)
  BY CountsExist
<1>2. PICK g : Counts(U, k, n, g)
  BY CountsExist
<1>3. f[n] = g[n]
  BY <1>1, <1>2, CountsAgree
<1> QED  BY <1>1, <1>2, <1>3, CounterIs

LEMMA CounterUnmoved ==
  ASSUME NEW k
  PROVE  \A n \in Nat : Counter({}, k, n) = config.fsmState
<1> DEFINE S == {n \in Nat : Counter({}, k, n) = config.fsmState}
<1>1. 0 \in S /\ \A n \in Nat : n \in S => n + 1 \in S
  BY CounterNext DEF Step
<1>2. S = Nat
  <2>1. S \in SUBSET Nat
    OBVIOUS
  <2> HIDE DEF S
  <2> QED  BY <1>1, <2>1, AllNaturals
<1> QED  BY <1>2

LEMMA MovedIsUpdate ==
  ASSUME NEW s \in 0 .. 3, NEW taken \in BOOLEAN
  PROVE  Moved(s, taken) = fsmUpdate(s, taken)
<1> DEFINE A == {3, s + 1}
           B == {0, s - 1}
<1>1. Min(A) \in A /\ \A x \in A : Min(A) <= x
  <2>1. A \in SUBSET (0 .. 10 - 1) /\ A # {} /\ 10 \in Nat
    OBVIOUS
  <2> HIDE DEF A
  <2> QED  BY <2>1, LeastAndGreatest
<1>2. taken => Moved(s, taken) = Min(A)
  BY DEF Moved
<1>3. CASE taken
  <2>1. Min(A) = IF s = 3 THEN 3 ELSE s + 1
    <3>1. \A m : m \in A /\ (\A x \in A : m <= x)
            => m = IF s = 3 THEN 3 ELSE s + 1
      OBVIOUS
    <3> HIDE DEF A
    <3> QED  BY <1>1, <3>1
  <2> QED  BY <1>2, <1>3, <2>1, Zenon DEF fsmUpdate
<1>4. ~taken => Moved(s, taken) = Max(B)
  BY DEF Moved
<1>5. CASE ~taken /\ s = 0
  <2>1. B = {0, -1}
    BY <1>5
  <2>2. Max(B) = 0
    BY <2>1 DEF Max
  <2> QED  BY <1>4, <1>5, <2>2 DEF fsmUpdate
<1>6. CASE ~taken /\ s # 0
  <2>1. B \in SUBSET (0 .. 10 - 1) /\ B # {} /\ 10 \in Nat
    BY <1>6
  <2>2. Max(B) \in B /\ \A x \in B : x <= Max(B)
    <3> HIDE DEF B
    <3> QED  BY <2>1, LeastAndGreatest
  <2> QED  BY <1>4, <1>6, <2>2 DEF fsmUpdate
<1> QED  BY <1>3, <1>5, <1>6

(* The first n lines of the log decide what the definition says of the     *)
(* places up to the next: no later line changes it.                        *)
Kept(n) == config' = config /\ \A i \in 1 .. n : log'[i] = log[i]

LEMMA SameRows ==
  ASSUME NEW n \in Nat, Kept(n), NEW pc, NEW i \in 1 .. n + 1
  PROVE  /\ SameRow(pc, i)' = SameRow(pc, i) /\ Own(pc, i)' = Own(pc, i)
         /\ Remembered(pc, i)' = Remembered(pc, i)
         /\ Training(pc, i)' = Training(pc, i)
         /\ Own(pc, i) \in SUBSET (1 .. i - 1)
         /\ Remembered(pc, i) \in SUBSET (1 .. i - 1)
<1>1. \A j \in 1 .. i - 1 : log'[j] = log[j]
  BY DEF Kept
<1>2. SameRow(pc, i)' = SameRow(pc, i) /\ SameRow(pc, i) \in SUBSET (1 .. i - 1)
  BY <1>1 DEF SameRow
<1>3. Own(pc, i)' = Own(pc, i) /\ Own(pc, i) \in SUBSET (1 .. i - 1)
  <2>1. \A j \in SameRow(pc, i) : log'[j] = log[j]
    BY <1>1, <1>2
  <2> QED  BY <1>2, <2>1 DEF Own
<1> QED  BY <1>2, <1>3 DEF Remembered, Training, Kept

(* The outcomes of some lines of the log as it is after the step.          *)
OutcomesNow(past) ==
  [k \in Bits |->
     IF \E j \in past : log'[j].taken /\ Cardinality({x \in past : x > j}) = k
     THEN 1 ELSE 0]

LEMMA SameOutcomes ==
  ASSUME NEW past, \A j \in past : log'[j] = log[j]
  PROVE  OutcomesNow(past) = Outcomes(past)
BY DEF OutcomesNow, Outcomes

LEMMA SamePlaces ==
  ASSUME NEW n \in Nat, Kept(n), NEW pc, NEW i \in 1 .. n + 1
  PROVE  PastOf(pc, i)' = PastOf(pc, i) /\ PlaceAt(pc, i)' = PlaceAt(pc, i)
<1>1. PICK past : past = Remembered(pc, i)
  OBVIOUS
<1>2. Remembered(pc, i)' = past /\ past \in SUBSET (1 .. i - 1)
  BY <1>1, SameRows
<1>3. PastOf(pc, i)' = PastOf(pc, i)
  <2>1. \A j \in past : log'[j] = log[j]
    BY <1>2 DEF Kept
  <2>2. OutcomesNow(past) = Outcomes(past)
    BY <2>1, SameOutcomes
  <2>3. PastOf(pc, i) = Outcomes(past)
    BY <1>1 DEF PastOf
  <2>4. PastOf(pc, i)' = OutcomesNow(past)
    BY <1>2, Zenon DEF PastOf, Outcomes, OutcomesNow
  <2> QED  BY <2>2, <2>3, <2>4
<1>4. config' = config
  BY DEF Kept
<1> QED  BY <1>3, <1>4 DEF PlaceAt, Place, PcBits, Xor

LEMMA SameCounter ==
  ASSUME NEW m \in Nat, Kept(m), NEW T, NEW k, NEW n \in 0 .. m
  PROVE  Counter(T, k, n)' = Counter(T, k, n)
<1>1. n \in Nat
  OBVIOUS
<1>2. PICK f : Counts(T, k, n, f)
  BY <1>1, CountsExist
<1>3. \A i \in 1 .. n : /\ log'[i] = log[i]
                        /\ PlaceAt(log[i].pc, i)' = PlaceAt(log[i].pc, i)
  <2>1. SUFFICES ASSUME NEW i \in 1 .. n
                 PROVE  /\ log'[i] = log[i]
                        /\ PlaceAt(log[i].pc, i)' = PlaceAt(log[i].pc, i)
    OBVIOUS
  <2>2. i \in 1 .. m /\ i \in 1 .. m + 1
    OBVIOUS
  <2>3. log'[i] = log[i]
    BY <2>2 DEF Kept
  <2>4. PICK pc : pc = log[i].pc
    OBVIOUS
  <2>5. PlaceAt(pc, i)' = PlaceAt(pc, i)
    BY <2>2, SamePlaces
  <2>6. PlaceAt(log[i].pc, i)' = PlaceAt(pc, i)'
    BY <2>3, <2>4
  <2> QED  BY <2>3, <2>4, <2>5, <2>6
<1>4. Counts(T, k, n, f)'
  <2>1. \A i \in 1 .. n : \A s : Step(T, k, i, s)' = Step(T, k, i, s)
    BY <1>3 DEF Step, Moved
  <2>2. \A i \in 0 .. n : i # 0 => i \in 1 .. n
    BY <1>1
  <2>3. config' = config
    BY DEF Kept
  <2> QED  BY <1>2, <2>1, <2>2, <2>3 DEF Counts
<1>5. Counter(T, k, n)' = f[n]
  BY <1>1, <1>4, CounterIsNext
<1>6. Counter(T, k, n) = f[n]
  BY <1>1, <1>2, CounterIs
<1> QED  BY <1>5, <1>6

(* And so the answer for a place up to the next.                           *)
LEMMA SameAnswer ==
  ASSUME NEW n \in Nat, Kept(n), NEW pc, NEW i \in 1 .. n + 1
  PROVE  Answer(pc, i)' = Answer(pc, i)
<1>1. /\ Own(pc, i)' = Own(pc, i) /\ Training(pc, i)' = Training(pc, i)
      /\ Own(pc, i) \in SUBSET (1 .. i - 1)
      /\ PlaceAt(pc, i)' = PlaceAt(pc, i)
  BY SameRows, SamePlaces
<1>2. PICK S : S = Own(pc, i)
  OBVIOUS
<1>3. S # {} => log'[Max(S)] = log[Max(S)]
  <2>1. S \in SUBSET (0 .. i - 1) /\ i \in Nat
    BY <1>1, <1>2
  <2>2. S # {} => Max(S) \in S
    BY <2>1, LeastAndGreatest
  <2> QED  BY <1>1, <1>2, <2>2 DEF Kept
<1>4. Counted(pc, i)' = Counted(pc, i)
  <2>1. PICK T : T = Training(pc, i)
    OBVIOUS
  <2>2. PICK k : k = PlaceAt(pc, i)
    OBVIOUS
  <2>3. PICK m \in 0 .. n : m = i - 1
    OBVIOUS
  <2>4. Counter(T, k, m)' = Counter(T, k, m)
    BY SameCounter
  <2>5. Counted(pc, i) = Counter(T, k, m)
    BY <2>1, <2>2, <2>3 DEF Counted
  <2>6. Counted(pc, i)' = Counter(T, k, m)'
    BY <1>1, <2>1, <2>2, <2>3 DEF Counted
  <2> QED  BY <2>4, <2>5, <2>6
<1> QED  BY <1>1, <1>2, <1>3, <1>4 DEF Answer

-----------------------------------------------------------------------------
(* One more line in the log.                                               *)
Longer(e) == /\ log \in Seq(LineType) /\ e \in LineType
             /\ log' = Append(log, e) /\ config' = config

LEMMA LinesOfLonger ==
  ASSUME NEW e, Longer(e)
  PROVE  /\ Len(log) \in Nat /\ Len(log') = Len(log) + 1
         /\ log'[Len(log) + 1] = e
         /\ \A i \in 1 .. Len(log) : log'[i] = log[i] /\ log[i] \in LineType
         /\ Kept(Len(log))
BY DEF Longer, Kept

(* A line that is remembered shifts the outcomes as the code does.         *)
LEMMA OutcomesNext ==
  ASSUME NEW e, Longer(e), NEW past \in SUBSET (1 .. Len(log)),
         NEW more, more = past \cup {Len(log) + 1}
  PROVE  OutcomesNow(more) = historyUpdate(Outcomes(past), e.taken)
<1> DEFINE m == Len(log) + 1
           Later(j) == {x \in past : x > j}
           Last(j) == {x \in more : x > j}
           At(k) == \E j \in more : log'[j].taken /\ Cardinality(Last(j)) = k
           Was(k) == \E j \in past : log[j].taken /\ Cardinality(Later(j)) = k
<1>1. /\ Len(log) \in Nat /\ log'[m] = e /\ m \notin past /\ past \in SUBSET Nat
      /\ \A j \in past : log'[j] = log[j] /\ j < m
      /\ e.taken \in BOOLEAN
  <2>1. Len(log) \in Nat /\ log'[m] = e /\ e.taken \in BOOLEAN
    BY LinesOfLonger DEF Longer, LineType
  <2>2. \A j \in past : log'[j] = log[j]
    BY LinesOfLonger
  <2>3. m \notin past /\ past \in SUBSET Nat /\ \A j \in past : j < m
    BY <2>1
  <2> QED  BY <2>1, <2>2, <2>3
<1>2. Cardinality(Last(m)) = 0
  <2>1. \A x \in more : ~(x > m)
    BY <1>1
  <2>2. Last(m) = {}
    BY <2>1
  <2> QED  BY <2>2, FS_EmptySet
<1>3. ASSUME NEW j \in past
      PROVE  /\ Cardinality(Later(j)) \in Nat
             /\ Cardinality(Last(j)) = Cardinality(Later(j)) + 1
  <2>1. IsFiniteSet(1 .. Len(log))
    BY <1>1, FS_Interval
  <2>2. Later(j) \in SUBSET (1 .. Len(log))
    OBVIOUS
  <2>3. IsFiniteSet(Later(j))
    <3> HIDE DEF Later
    <3> QED  BY <2>1, <2>2, FS_Subset
  <2>4. Last(j) = Later(j) \cup {m} /\ m \notin Later(j)
    BY <1>1
  <2> HIDE DEF Later, Last
  <2> QED  BY <2>3, <2>4, FS_AddElement, FS_CardinalityType
<1> HIDE DEF Later, Last, m
<1>4. ASSUME NEW k \in Bits PROVE At(k) <=> IF k > 0 THEN Was(k - 1) ELSE e.taken
  <2>1. k \in Nat
    BY PredictorAssumption DEF Bits
  <2>2. At(k) <=> \/ log'[m].taken /\ Cardinality(Last(m)) = k
                  \/ \E j \in past : log'[j].taken /\ Cardinality(Last(j)) = k
    BY DEF m
  <2>3. CASE k = 0
    <3>1. \A j \in past : Cardinality(Last(j)) # 0
      BY <1>3
    <3> QED  BY <1>1, <1>2, <2>2, <2>3, <3>1
  <2>4. CASE k > 0
    <3>1. \A j \in past :
            Cardinality(Last(j)) = k <=> Cardinality(Later(j)) = k - 1
      <4>1. ASSUME NEW j \in past
            PROVE  Cardinality(Last(j)) = k <=> Cardinality(Later(j)) = k - 1
        <5>1. PICK c \in Nat : /\ Cardinality(Later(j)) = c
                               /\ Cardinality(Last(j)) = c + 1
          BY <1>3
        <5> QED  BY <2>1, <5>1
      <4> QED  BY <4>1
    <3>2. Cardinality(Last(m)) # k
      BY <1>2, <2>4
    <3>3. At(k) <=> \E j \in past : log'[j].taken /\ Cardinality(Last(j)) = k
      <4> HIDE DEF At
      <4> QED  BY <2>2, <3>2
    <3>4. \A j \in past : /\ log'[j].taken /\ Cardinality(Last(j)) = k
                         <=> /\ log[j].taken /\ Cardinality(Later(j)) = k - 1
      BY <1>1, <3>1
    <3>5. At(k) <=> Was(k - 1)
      <4> HIDE DEF At
      <4> QED  BY <3>3, <3>4
    <3> QED  BY <2>4, <3>5
  <2> QED  BY <2>1, <2>3, <2>4
<1>5. Outcomes(past) = [k \in Bits |-> IF Was(k) THEN 1 ELSE 0]
  BY DEF Outcomes, Later
<1>6. \A k \in Bits : k > 0 => k - 1 \in Bits
  BY PredictorAssumption DEF Bits
<1> HIDE DEF Was
<1>7. \A k \in Bits : (IF At(k) THEN 1 ELSE 0)
                      = IF k > 0 THEN Outcomes(past)[k - 1]
                        ELSE IF e.taken THEN 1 ELSE 0
  <2> HIDE DEF At
  <2> QED  BY <1>4, <1>5, <1>6
<1> QED  BY <1>7 DEF OutcomesNow, historyUpdate, At, Last

LEMMA NoOutcomes == Outcomes({}) = NoHistory
BY DEF Outcomes, NoHistory

(* What the history of a branch is after one more line.                    *)
LEMMA PastNext ==
  ASSUME NEW e, Longer(e), NEW pc, NEW m, m = Len(log) + 1
  PROVE  /\ Remembered(pc, m + 1)' = Remembered(pc, m) \cup {m}
            => PastOf(pc, m + 1)' = historyUpdate(PastOf(pc, m), e.taken)
         /\ Remembered(pc, m + 1)' = Remembered(pc, m)
            => PastOf(pc, m + 1)' = PastOf(pc, m)
<1>1. m \in 1 .. Len(log) + 1 /\ m - 1 = Len(log) /\ Len(log) \in Nat
  BY LinesOfLonger
<1>2. PICK past : past = Remembered(pc, m)
  OBVIOUS
<1>3. past \in SUBSET (1 .. Len(log))
  <2>1. PICK n \in Nat : n = Len(log) /\ Kept(n)
    BY LinesOfLonger
  <2> QED  BY <1>1, <1>2, <2>1, SameRows
<1>4. PastOf(pc, m) = Outcomes(past)
  BY <1>2 DEF PastOf
<1>5. PICK more : more = Remembered(pc, m + 1)'
  OBVIOUS
<1>6. PastOf(pc, m + 1)' = OutcomesNow(more)
  BY <1>5, Zenon DEF PastOf, Outcomes, OutcomesNow
<1>7. ASSUME more = past \cup {m}
      PROVE  PastOf(pc, m + 1)' = historyUpdate(PastOf(pc, m), e.taken)
  <2>1. OutcomesNow(more) = historyUpdate(Outcomes(past), e.taken)
    BY <1>3, <1>7, OutcomesNext
  <2> QED  BY <1>4, <1>6, <2>1
<1>8. ASSUME more = past
      PROVE  PastOf(pc, m + 1)' = PastOf(pc, m)
  <2>1. \A j \in past : log'[j] = log[j]
    BY <1>3, LinesOfLonger
  <2>2. OutcomesNow(past) = Outcomes(past)
    BY <2>1, SameOutcomes
  <2> QED  BY <1>4, <1>6, <1>8, <2>2
<1> QED  BY <1>2, <1>5, <1>7, <1>8

(* Which lines a branch owns after one more: a line of another row changes *)
(* nothing, one with its row and tag is its own, and one with its row and  *)
(* another tag takes the row over.                                         *)
LEMMA OwnNext ==
  ASSUME NEW e, Longer(e), NEW pc, NEW m, m = Len(log) + 1
  PROVE  /\ Own(pc, m) \in SUBSET (1 .. Len(log))
         /\ RowOf(e.pc) # RowOf(pc) => Own(pc, m + 1)' = Own(pc, m)
         /\ RowOf(e.pc) = RowOf(pc) =>
              Own(pc, m + 1)' = IF TagOf(e.pc) = TagOf(pc)
                                THEN Own(pc, m) \cup {m} ELSE {}
<1> DEFINE same == SameRow(pc, m)
           more == SameRow(pc, m + 1)'
<1>1. /\ m \in 1 .. Len(log) + 1 /\ m - 1 = Len(log) /\ m \in Nat
      /\ (m + 1) - 1 = m
      /\ log'[m] = e /\ \A i \in 1 .. Len(log) : log'[i] = log[i]
  BY LinesOfLonger
<1>2. /\ Own(pc, m) \in SUBSET (1 .. Len(log))
      /\ same = {i \in 1 .. Len(log) : RowOf(log[i].pc) = RowOf(pc)}
  <2>1. PICK n \in Nat : n = Len(log) /\ Kept(n)
    BY LinesOfLonger
  <2>2. Own(pc, m) \in SUBSET (1 .. Len(log))
    BY <1>1, <2>1, SameRows
  <2> QED  BY <1>1, <2>2 DEF SameRow
<1>3. more = {i \in 1 .. m : RowOf(log'[i].pc) = RowOf(pc)}
  BY <1>1 DEF SameRow
<1>4. more = IF RowOf(e.pc) = RowOf(pc) THEN same \cup {m} ELSE same
  <2>1. 1 .. m = (1 .. Len(log)) \cup {m}
    BY <1>1
  <2> HIDE DEF same, more
  <2> QED  BY <1>1, <1>2, <1>3, <2>1
<1>5. /\ \A j \in same : j < m /\ j \in Nat /\ log'[j] = log[j]
      /\ m \notin same
  BY <1>1, <1>2
<1>6. Own(pc, m) = {i \in same : \A j \in same :
                      j >= i => TagOf(log[j].pc) = TagOf(pc)}
  BY DEF Own
<1>7. Own(pc, m + 1)' = {i \in more : \A j \in more :
                      j >= i => TagOf(log'[j].pc) = TagOf(pc)}
  BY DEF Own
<1> HIDE DEF same, more
<1>8. CASE RowOf(e.pc) # RowOf(pc)
  <2>1. more = same
    BY <1>4, <1>8
  <2>2. Own(pc, m + 1)' = Own(pc, m)
    BY <1>5, <1>6, <1>7, <2>1
  <2> QED  BY <1>2, <1>8, <2>2
<1>9. CASE RowOf(e.pc) = RowOf(pc) /\ TagOf(e.pc) = TagOf(pc)
  <2>1. more = same \cup {m}
    BY <1>4, <1>9
  <2>2. \A i \in more : (\A j \in more : j >= i => TagOf(log'[j].pc) = TagOf(pc))
          <=> i = m \/ (i \in same /\ \A j \in same :
                          j >= i => TagOf(log[j].pc) = TagOf(pc))
    BY <1>1, <1>5, <1>9, <2>1
  <2>3. Own(pc, m + 1)' = Own(pc, m) \cup {m}
    BY <1>6, <1>7, <2>1, <2>2
  <2> QED  BY <1>2, <1>9, <2>3
<1>10. CASE RowOf(e.pc) = RowOf(pc) /\ TagOf(e.pc) # TagOf(pc)
  <2>1. m \in more /\ \A i \in more : m >= i
    BY <1>1, <1>4, <1>5, <1>10
  <2>2. Own(pc, m + 1)' = {}
    BY <1>1, <1>7, <1>10, <2>1
  <2> QED  BY <1>2, <1>10, <2>2
<1> QED  BY <1>8, <1>9, <1>10

LEMMA LatestIsGreatest ==
  ASSUME NEW n \in Nat, NEW S \in SUBSET (1 .. n)
  PROVE  Max(S \cup {n + 1}) = n + 1
<1> DEFINE T == S \cup {n + 1}
<1>1. T \in SUBSET (0 .. (n + 2) - 1) /\ T # {} /\ n + 2 \in Nat
  OBVIOUS
<1>2. Max(T) \in T /\ \A x \in T : x <= Max(T)
  <2> HIDE DEF T
  <2> QED  BY <1>1, LeastAndGreatest
<1>3. n + 1 \in T /\ \A x \in T : x \in Nat /\ x <= n + 1
  OBVIOUS
<1>4. Max(T) = n + 1
  <2> HIDE DEF T
  <2> QED  BY <1>2, <1>3
<1> QED  BY <1>4

(* The last line of the log, and the one that comes next.                  *)
Ends(n, m) == n = Len(log) /\ m = n + 1

(* The counter after one more line.                                        *)
LEMMA CounterMore ==
  ASSUME NEW e, Longer(e), NEW n, NEW m, Ends(n, m), NEW U, NEW k
  PROVE  Counter(U, k, m)' = IF m \in U /\ PlaceAt(e.pc, m) = k
                             THEN Moved(Counter(U, k, n), e.taken)
                             ELSE Counter(U, k, n)
<1>1. /\ n \in Nat /\ n \in 0 .. n /\ n + 1 = m
      /\ m \in 1 .. n + 1 /\ log'[m] = e /\ Kept(n)
  BY LinesOfLonger DEF Ends
<1>2. Counter(U, k, m)' = Step(U, k, m, Counter(U, k, n))'
  BY <1>1, CounterNextNow
<1>3. Counter(U, k, n)' = Counter(U, k, n)
  BY <1>1, SameCounter
<1>4. PICK pc : pc = e.pc
  OBVIOUS
<1>5. PlaceAt(pc, m)' = PlaceAt(pc, m)
  BY <1>1, SamePlaces
<1>6. PlaceAt(log[m].pc, m)' = PlaceAt(pc, m)'
  BY <1>1, <1>4
<1>7. Step(U, k, m, Counter(U, k, n))'
      = IF m \in U /\ PlaceAt(log[m].pc, m)' = k
        THEN Moved(Counter(U, k, n)', log'[m].taken)
        ELSE Counter(U, k, n)'
  BY DEF Step, Moved
<1> QED  BY <1>1, <1>2, <1>3, <1>4, <1>5, <1>6, <1>7

-----------------------------------------------------------------------------
(* What the tables know of the branch at pc is what the definition says of *)
(* it as it comes at place m: its row, its target, its history and the     *)
(* counters it may come to.                                                *)
CounterOf(pc, k) ==
  IF config.isGlobalTable THEN globalFsm[k] ELSE fsm[RowOf(pc)][k]

Tracked(pc, m) ==
  /\ Hit(pc) <=> Own(pc, m) # {}
  /\ Hit(pc) => rows[RowOf(pc)].target = log[Max(Own(pc, m))].target
  /\ Hit(pc) \/ config.isGlobalHist => HistoryOf(pc) = PastOf(pc, m)
  /\ Hit(pc) \/ config.isGlobalTable =>
       \A k \in History : CounterOf(pc, k) = Counter(Training(pc, m), k, m - 1)

TenantHistory(pc) ==
  IF config.isGlobalHist THEN globalHistory ELSE TenantRow(pc).history

TenantCounter(pc, k) ==
  IF config.isGlobalTable THEN globalFsm[k] ELSE TenantTable(pc)[k]

(* BP_update starts from the same, also for a branch that it finds new.    *)
LEMMA TenantIsTracked ==
  ASSUME config \in Configs, globalHistory \in History, Tabled, NEW pc \in Nat,
         NEW m \in Nat \ {0}, Tracked(pc, m)
  PROVE  /\ TenantHistory(pc) = PastOf(pc, m)
         /\ \A k \in History :
              TenantCounter(pc, k) = Counter(Training(pc, m), k, m - 1)
<1>1. CASE Hit(pc)
  <2>1. TenantRow(pc) = rows[RowOf(pc)] /\ TenantTable(pc) = fsm[RowOf(pc)]
    BY <1>1, FoundByBranch DEF TenantTable
  <2>2. /\ TenantHistory(pc) = HistoryOf(pc)
        /\ \A k : TenantCounter(pc, k) = CounterOf(pc, k)
    BY <2>1 DEF TenantHistory, TenantCounter, CounterOf, HistoryOf
  <2> QED  BY <1>1, <2>2 DEF Tracked
<1>2. CASE ~Hit(pc)
  <2>1. Own(pc, m) = {}
    BY <1>2 DEF Tracked
  <2>2. ASSUME ~config.isGlobalHist PROVE TenantHistory(pc) = PastOf(pc, m)
    <3>1. PastOf(pc, m) = NoHistory
      <4>1. Remembered(pc, m) = {}
        BY <2>1, <2>2 DEF Remembered
      <4> QED  BY <4>1, NoOutcomes DEF PastOf
    <3>2. RowOf(pc) \in Rows
      BY RowsAndTags
    <3>3. rows[RowOf(pc)] \in RowType
      BY <3>2 DEF Tabled
    <3>4. TenantRow(pc).history = NoHistory
      BY <1>2, <2>2, <3>3 DEF TenantRow, RowType
    <3> QED  BY <2>2, <3>1, <3>4 DEF TenantHistory
  <2>3. config.isGlobalHist => TenantHistory(pc) = PastOf(pc, m)
    BY DEF TenantHistory, Tracked, HistoryOf
  <2>4. ASSUME ~config.isGlobalTable, NEW k \in History
        PROVE  TenantCounter(pc, k) = Counter(Training(pc, m), k, m - 1)
    <3>1. Training(pc, m) = {} /\ m - 1 \in Nat
      BY <2>1, <2>4 DEF Training
    <3>2. Counter({}, k, m - 1) = config.fsmState
      BY <3>1, CounterUnmoved
    <3>3. TenantTable(pc)[k] = config.fsmState
      BY <1>2, <2>4 DEF TenantTable, NewTable
    <3> QED  BY <2>4, <3>1, <3>2, <3>3 DEF TenantCounter
  <2>5. config.isGlobalTable =>
          \A k \in History : TenantCounter(pc, k) = Counter(Training(pc, m), k, m - 1)
    BY DEF TenantCounter, Tracked, CounterOf
  <2> QED  BY <2>2, <2>3, <2>4, <2>5
<1> QED  BY <1>1, <1>2

(* What a branch leaves alone: the other rows, the other counters.         *)
LEMMA KeptByBranch ==
  ASSUME config \in Configs, globalHistory \in History, Tabled,
         NEW b \in Branches, NEW taken \in BOOLEAN, Branch(b, taken)
  PROVE  /\ \A r \in Rows : r # RowOf(b.pc) =>
              /\ rows'[r] = rows[r]
              /\ ~config.isGlobalTable => fsm'[r] = fsm[r]
         /\ \A k \in History : k # Place(b.pc, TenantHistory(b.pc)) =>
              IF config.isGlobalTable THEN globalFsm'[k] = globalFsm[k]
              ELSE fsm'[RowOf(b.pc)][k] = TenantTable(b.pc)[k]
<1> DEFINE q == RowOf(b.pc)
           l == Place(b.pc, TenantHistory(b.pc))
           u == TenantTable(b.pc)
<1>1. b.pc \in Nat /\ q \in Rows /\ (~config.isGlobalTable => u \in Tables)
  BY BranchesAreAddresses, RowsAndTags, FoundByBranch
<1>2. \E t : rows' = [rows EXCEPT ![q] = t]
  BY Zenon DEF Branch
<1>3. /\ config.isGlobalTable =>
           globalFsm' = [globalFsm EXCEPT ![l] = fsmUpdate(@, taken)]
      /\ ~config.isGlobalTable =>
           fsm' = [fsm EXCEPT ![q] = [u EXCEPT ![l] = fsmUpdate(@, taken)]]
  BY DEF Branch, TenantHistory
<1> HIDE DEF q, l, u
<1>4. \A r \in Rows : r # q => rows'[r] = rows[r]
  BY <1>2 DEF Tabled
<1>5. config.isGlobalTable =>
        \A k \in History : k # l => globalFsm'[k] = globalFsm[k]
  BY <1>3 DEF Tabled, Tables
<1>6. ASSUME ~config.isGlobalTable
      PROVE  /\ \A r \in Rows : r # q => fsm'[r] = fsm[r]
             /\ \A k \in History : k # l => fsm'[q][k] = u[k]
  <2>1. fsm \in [Rows -> Tables] /\ u \in Tables
    BY <1>1, <1>6 DEF Tabled
  <2>2. PICK v : v = [u EXCEPT ![l] = fsmUpdate(@, taken)]
    OBVIOUS
  <2>3. \A k \in History : k # l => v[k] = u[k]
    BY <2>1, <2>2 DEF Tables
  <2>4. fsm' = [fsm EXCEPT ![q] = v]
    BY <1>3, <1>6, <2>2
  <2> QED  BY <1>1, <2>1, <2>3, <2>4
<1> QED  BY <1>4, <1>5, <1>6 DEF q, l, u

(* What a branch makes of the history and the counters that it consults.   *)
LEMMA MovedByBranch ==
  ASSUME config \in Configs, globalHistory \in History, Tabled,
         NEW b \in Branches, NEW taken \in BOOLEAN, Branch(b, taken)
  PROVE  /\ config' = config /\ Tabled' /\ Hit(b.pc)'
         /\ rows'[RowOf(b.pc)].tag = TagOf(b.pc)
         /\ rows'[RowOf(b.pc)].target = b.target
         /\ HistoryOf(b.pc)' = historyUpdate(TenantHistory(b.pc), taken)
         /\ TenantHistory(b.pc) \in History
         /\ Place(b.pc, TenantHistory(b.pc)) \in History
         /\ \A k \in History :
              /\ TenantCounter(b.pc, k) \in 0 .. 3
              /\ CounterOf(b.pc, k)' =
                   IF k = Place(b.pc, TenantHistory(b.pc))
                   THEN fsmUpdate(TenantCounter(b.pc, k), taken)
                   ELSE TenantCounter(b.pc, k)
<1> DEFINE h == TenantHistory(b.pc)
           l == Place(b.pc, h)
<1>1. config' = config
  BY DEF Branch
<1>2. /\ h \in History /\ l \in History /\ Tabled'
      /\ rows'[RowOf(b.pc)].valid
      /\ rows'[RowOf(b.pc)].tag = TagOf(b.pc)
      /\ rows'[RowOf(b.pc)].target = b.target
      /\ (IF config.isGlobalHist THEN globalHistory'
                                 ELSE rows'[RowOf(b.pc)].history)
         = historyUpdate(h, taken)
      /\ (IF config.isGlobalTable THEN globalFsm'[l] ELSE fsm'[RowOf(b.pc)][l])
         = fsmUpdate(TenantCounter(b.pc, l), taken)
  BY LeftByBranch DEF TenantHistory, TenantCounter
<1>3. \A k \in History : k # l =>
              IF config.isGlobalTable THEN globalFsm'[k] = globalFsm[k]
              ELSE fsm'[RowOf(b.pc)][k] = TenantTable(b.pc)[k]
  BY KeptByBranch
<1>4. b.pc \in Nat /\ (~config.isGlobalTable => TenantTable(b.pc) \in Tables)
  BY BranchesAreAddresses, FoundByBranch
<1>5. \A k \in History : TenantCounter(b.pc, k) \in 0 .. 3
  BY <1>4 DEF TenantCounter, Tables, Tabled
<1> HIDE DEF h, l
<1>6. \A k \in History : CounterOf(b.pc, k)' =
        IF k = l THEN fsmUpdate(TenantCounter(b.pc, k), taken)
        ELSE TenantCounter(b.pc, k)
  <2>1. \A k : CounterOf(b.pc, k)' = IF config.isGlobalTable THEN globalFsm'[k]
                                     ELSE fsm'[RowOf(b.pc)][k]
    BY <1>1 DEF CounterOf
  <2>2. \A k : TenantCounter(b.pc, k) = IF config.isGlobalTable THEN globalFsm[k]
                                        ELSE TenantTable(b.pc)[k]
    BY DEF TenantCounter
  <2> QED  BY <1>2, <1>3, <2>1, <2>2
<1>7. Hit(b.pc)' /\ HistoryOf(b.pc)' = historyUpdate(h, taken)
  BY <1>1, <1>2 DEF Hit, HistoryOf
<1> QED  BY <1>1, <1>2, <1>5, <1>6, <1>7 DEF h, l

(* The line as the log has it.                                             *)
LEMMA LineOfBranch ==
  ASSUME Logged, NEW b \in Branches, NEW taken \in BOOLEAN, Branch(b, taken),
         log' = Append(log, Entry(b, taken))
  PROVE  /\ Longer(Entry(b, taken))
         /\ Entry(b, taken).pc = b.pc /\ Entry(b, taken).target = b.target
         /\ Entry(b, taken).taken = taken
<1>1. Entry(b, taken) \in LineType
  BY BranchesAreAddresses, PowersAreThere DEF Entry, LineType
<1>2. config' = config
  BY DEF Branch
<1> QED  BY <1>1, <1>2 DEF Longer, Logged, LineType, Entry

(* One line keeps all that is tracked, of the branch itself and of every   *)
(* other: first the row and its target.                                    *)
LEMMA RowTracked ==
  ASSUME Typed, Logged, Tabled, NEW b \in Branches, NEW taken \in BOOLEAN,
         Branch(b, taken), log' = Append(log, Entry(b, taken)),
         NEW m, m = Len(log) + 1, NEW pc \in Nat, Tracked(pc, m)
  PROVE  /\ Hit(pc)' <=> Own(pc, m + 1)' # {}
         /\ Hit(pc)' => rows'[RowOf(pc)].target
                        = log'[Max(Own(pc, m + 1)')].target
         /\ RowOf(pc) # RowOf(b.pc) => /\ Own(pc, m + 1)' = Own(pc, m)
                                       /\ Hit(pc)' = Hit(pc)
         /\ RowOf(pc) = RowOf(b.pc) /\ Hit(pc)' =>
              /\ Own(pc, m + 1)' = Own(pc, m) \cup {m}
              /\ TagOf(pc) = TagOf(b.pc)
<1> DEFINE e == Entry(b, taken)
<1>1. /\ Longer(e) /\ e.pc = b.pc /\ e.target = b.target
      /\ config \in Configs /\ globalHistory \in History
      /\ RowOf(pc) \in Rows
  BY LineOfBranch, RowsAndTags DEF Typed
<1> HIDE DEF e
<1>2. /\ Len(log) \in Nat /\ log'[m] = e
      /\ \A i \in 1 .. Len(log) : log'[i] = log[i]
  BY <1>1, LinesOfLonger
<1>3. /\ Own(pc, m) \in SUBSET (1 .. Len(log))
      /\ RowOf(b.pc) # RowOf(pc) => Own(pc, m + 1)' = Own(pc, m)
      /\ RowOf(b.pc) = RowOf(pc) =>
           Own(pc, m + 1)' = IF TagOf(b.pc) = TagOf(pc)
                             THEN Own(pc, m) \cup {m} ELSE {}
  <2>1. Longer(e) /\ e.pc = b.pc /\ m = Len(log) + 1
    BY <1>1
  <2>2. /\ Own(pc, m) \in SUBSET (1 .. Len(log))
        /\ RowOf(e.pc) # RowOf(pc) => Own(pc, m + 1)' = Own(pc, m)
        /\ RowOf(e.pc) = RowOf(pc) =>
             Own(pc, m + 1)' = IF TagOf(e.pc) = TagOf(pc)
                               THEN Own(pc, m) \cup {m} ELSE {}
    BY <2>1, OwnNext, Zenon
  <2> QED  BY <2>1, <2>2
<1>4. CASE RowOf(pc) # RowOf(b.pc)
  <2>1. rows'[RowOf(pc)] = rows[RowOf(pc)]
    BY <1>1, <1>4, KeptByBranch
  <2>2. Hit(pc)' = Hit(pc)
    BY <2>1 DEF Hit
  <2>3. Own(pc, m) # {} => Max(Own(pc, m)) \in 1 .. Len(log)
    <3> DEFINE S == Own(pc, m)
    <3>1. S \in SUBSET (0 .. (Len(log) + 1) - 1) /\ Len(log) + 1 \in Nat
      BY <1>2, <1>3
    <3> HIDE DEF S
    <3>2. S # {} => Max(S) \in S
      BY <3>1, LeastAndGreatest
    <3> QED  BY <1>3, <3>2 DEF S
  <2>4. Own(pc, m + 1)' = Own(pc, m)
    BY <1>3, <1>4
  <2>5. Hit(pc)' => log'[Max(Own(pc, m + 1)')] = log[Max(Own(pc, m))]
    BY <1>2, <2>2, <2>3, <2>4 DEF Tracked
  <2> QED  BY <1>4, <2>1, <2>2, <2>4, <2>5 DEF Tracked
<1>5. CASE RowOf(pc) = RowOf(b.pc)
  <2>1. /\ Hit(b.pc)' /\ rows'[RowOf(pc)].tag = TagOf(b.pc)
        /\ rows'[RowOf(pc)].target = b.target
    BY <1>1, <1>5, MovedByBranch
  <2>2. Hit(pc)' <=> TagOf(pc) = TagOf(b.pc)
    BY <1>5, <2>1 DEF Hit
  <2>3. Max(Own(pc, m) \cup {m}) = m
    <3>1. PICK S : S = Own(pc, m)
      OBVIOUS
    <3> QED  BY <1>2, <1>3, <3>1, LatestIsGreatest
  <2> QED  BY <1>1, <1>2, <1>3, <1>5, <2>1, <2>2, <2>3
<1> QED  BY <1>4, <1>5

(* Branches of one row and tag are one branch to the tables.               *)
LEMMA OneBranch ==
  ASSUME NEW pc, NEW q, NEW m,
         RowOf(pc) = RowOf(q) /\ TagOf(pc) = TagOf(q)
  PROVE  Own(pc, m) = Own(q, m)
BY DEF Own, SameRow

(* Then the history.                                                       *)
LEMMA HistoryTracked ==
  ASSUME Typed, Logged, Tabled, NEW b \in Branches, NEW taken \in BOOLEAN,
         Branch(b, taken), log' = Append(log, Entry(b, taken)),
         NEW m, m = Len(log) + 1, NEW pc \in Nat, Tracked(pc, m),
         Tracked(b.pc, m), Hit(pc)' \/ config.isGlobalHist
  PROVE  HistoryOf(pc)' = PastOf(pc, m + 1)'
<1> DEFINE e == Entry(b, taken)
<1>1. /\ Longer(e) /\ e.pc = b.pc /\ e.taken = taken
      /\ config \in Configs /\ globalHistory \in History
      /\ RowOf(pc) \in Rows /\ b.pc \in Nat /\ config' = config
  BY LineOfBranch, RowsAndTags, BranchesAreAddresses DEF Typed, Branch
<1> HIDE DEF e
<1>2. Len(log) \in Nat /\ m \in Nat \ {0} /\ m - 1 = Len(log) /\ (m + 1) - 1 = m
  BY <1>1, LinesOfLonger
<1>3. TenantHistory(b.pc) = PastOf(b.pc, m)
  BY <1>1, <1>2, TenantIsTracked
<1>4. HistoryOf(b.pc)' = historyUpdate(PastOf(b.pc, m), taken)
  BY <1>1, <1>3, MovedByBranch
<1>5. /\ Remembered(pc, m + 1)' = Remembered(pc, m) \cup {m}
           => PastOf(pc, m + 1)' = historyUpdate(PastOf(pc, m), taken)
      /\ Remembered(pc, m + 1)' = Remembered(pc, m)
           => PastOf(pc, m + 1)' = PastOf(pc, m)
  BY <1>1, PastNext
<1>6. CASE config.isGlobalHist
  <2>1. HistoryOf(pc)' = HistoryOf(b.pc)' /\ PastOf(pc, m) = PastOf(b.pc, m)
    BY <1>1, <1>6 DEF HistoryOf, PastOf, Remembered
  <2>2. Remembered(pc, m + 1)' = 1 .. m /\ Remembered(pc, m) = 1 .. Len(log)
    BY <1>1, <1>2, <1>6 DEF Remembered
  <2>3. 1 .. m = (1 .. Len(log)) \cup {m}
    BY <1>2
  <2> QED  BY <1>4, <1>5, <2>1, <2>2, <2>3
<1>7. CASE ~config.isGlobalHist /\ RowOf(pc) = RowOf(b.pc)
  <2>1. /\ Own(pc, m + 1)' = Own(pc, m) \cup {m}
        /\ TagOf(pc) = TagOf(b.pc)
    BY <1>7, RowTracked
  <2>2. Own(pc, m) = Own(b.pc, m)
    BY <1>7, <2>1, OneBranch
  <2>3. HistoryOf(pc)' = HistoryOf(b.pc)' /\ PastOf(pc, m) = PastOf(b.pc, m)
    BY <1>1, <1>7, <2>2 DEF HistoryOf, PastOf, Remembered
  <2>4. Remembered(pc, m + 1)' = Remembered(pc, m) \cup {m}
    BY <1>1, <1>7, <2>1 DEF Remembered
  <2> QED  BY <1>4, <1>5, <2>3, <2>4
<1>8. CASE ~config.isGlobalHist /\ RowOf(pc) # RowOf(b.pc)
  <2>1. Own(pc, m + 1)' = Own(pc, m) /\ Hit(pc)' = Hit(pc)
    BY <1>8, RowTracked
  <2>2. rows'[RowOf(pc)] = rows[RowOf(pc)]
    BY <1>1, <1>8, KeptByBranch
  <2>3. HistoryOf(pc)' = HistoryOf(pc)
    BY <1>1, <1>8, <2>2 DEF HistoryOf
  <2>4. Remembered(pc, m + 1)' = Remembered(pc, m)
    BY <1>1, <1>8, <2>1 DEF Remembered
  <2>5. HistoryOf(pc) = PastOf(pc, m)
    BY <1>8, <2>1 DEF Tracked
  <2> QED  BY <1>5, <2>3, <2>4, <2>5
<1> QED  BY <1>6, <1>7, <1>8

(* Then the counters.                                                      *)
LEMMA CountersTracked ==
  ASSUME Typed, Logged, Tabled, NEW b \in Branches, NEW taken \in BOOLEAN,
         Branch(b, taken), log' = Append(log, Entry(b, taken)),
         NEW m, m = Len(log) + 1, NEW pc \in Nat, Tracked(pc, m),
         Tracked(b.pc, m), Hit(pc)' \/ config.isGlobalTable,
         NEW k \in History
  PROVE  CounterOf(pc, k)' = Counter(Training(pc, m + 1), k, m)'
<1>0. PICK e : e = Entry(b, taken)
  OBVIOUS
<1>1. /\ Longer(e) /\ e.pc = b.pc /\ e.taken = taken
      /\ config \in Configs /\ globalHistory \in History
      /\ RowOf(pc) \in Rows /\ b.pc \in Nat /\ config' = config
  BY <1>0, LineOfBranch, RowsAndTags, BranchesAreAddresses DEF Typed, Branch
<1>2. /\ Len(log) \in Nat /\ m \in Nat \ {0} /\ m - 1 = Len(log)
      /\ m \in 1 .. Len(log) + 1
  BY <1>1, LinesOfLonger
<1>3. PICK T : T = Training(pc, m)
  OBVIOUS
<1>4. PICK U : U = Training(pc, m + 1)'
  OBVIOUS
<1>5. Counter(Training(pc, m + 1), k, m)' = Counter(U, k, m)'
  BY <1>4
<1>6. T \in SUBSET (1 .. Len(log))
  <2>1. Own(pc, m) \in SUBSET (1 .. Len(log))
    BY <1>1, OwnNext
  <2> QED  BY <1>2, <1>3, <2>1 DEF Training
<1>7. PICK n : Ends(n, m)
  BY DEF Ends
<1>12. Counter(U, k, m)' = IF m \in U /\ PlaceAt(e.pc, m) = k
                             THEN Moved(Counter(U, k, n), e.taken)
                             ELSE Counter(U, k, n)
  BY <1>1, <1>7, CounterMore
<1>13. n = Len(log) /\ n \in Nat /\ n = m - 1
  BY <1>2, <1>7 DEF Ends
<1>8. ASSUME CounterOf(pc, k)' = CounterOf(b.pc, k)',
             T = Training(b.pc, m), U = T \cup {m}
      PROVE  CounterOf(pc, k)' = Counter(U, k, m)'
  <2>1. /\ TenantHistory(b.pc) = PastOf(b.pc, m)
        /\ TenantCounter(b.pc, k) = Counter(T, k, m - 1)
    BY <1>1, <1>2, <1>8, TenantIsTracked
  <2>2. Place(b.pc, TenantHistory(b.pc)) = PlaceAt(b.pc, m)
    BY <2>1 DEF PlaceAt
  <2>3. /\ TenantCounter(b.pc, k) \in 0 .. 3
        /\ CounterOf(b.pc, k)' =
             IF k = PlaceAt(b.pc, m) THEN fsmUpdate(TenantCounter(b.pc, k), taken)
             ELSE TenantCounter(b.pc, k)
    BY <1>1, <2>2, MovedByBranch
  <2>4. Moved(TenantCounter(b.pc, k), taken)
        = fsmUpdate(TenantCounter(b.pc, k), taken)
    BY <2>3, MovedIsUpdate
  <2>5. Counter(U, k, m)'
        = IF PlaceAt(b.pc, m) = k THEN Moved(Counter(T, k, m - 1), taken)
          ELSE Counter(T, k, m - 1)
    <3>1. \A i \in 1 .. n : i \in U <=> i \in T
      BY <1>8, <1>13
    <3>2. Counter(U, k, n) = Counter(T, k, n)
      BY <1>13, <3>1, CounterSame
    <3> QED  BY <1>1, <1>8, <1>12, <1>13, <3>2
  <2> QED  BY <1>8, <2>1, <2>3, <2>4, <2>5
<1>9. CASE config.isGlobalTable
  <2>1. CounterOf(pc, k)' = CounterOf(b.pc, k)'
    BY <1>1, <1>9 DEF CounterOf
  <2>2. T = Training(b.pc, m) /\ T = 1 .. Len(log) /\ U = 1 .. m
    BY <1>1, <1>2, <1>3, <1>4, <1>9 DEF Training
  <2>3. 1 .. m = (1 .. Len(log)) \cup {m}
    BY <1>2
  <2> QED  BY <1>5, <1>8, <2>1, <2>2, <2>3
<1>10. CASE ~config.isGlobalTable /\ RowOf(pc) = RowOf(b.pc)
  <2>1. /\ Own(pc, m + 1)' = Own(pc, m) \cup {m}
        /\ TagOf(pc) = TagOf(b.pc)
    BY <1>10, RowTracked
  <2>2. Own(pc, m) = Own(b.pc, m)
    BY <1>10, <2>1, OneBranch
  <2>3. CounterOf(pc, k)' = CounterOf(b.pc, k)'
    BY <1>1, <1>10 DEF CounterOf
  <2>4. T = Training(b.pc, m) /\ U = T \cup {m}
    BY <1>1, <1>3, <1>4, <1>10, <2>1, <2>2 DEF Training
  <2> QED  BY <1>5, <1>8, <2>3, <2>4
<1>11. CASE ~config.isGlobalTable /\ RowOf(pc) # RowOf(b.pc)
  <2>1. Own(pc, m + 1)' = Own(pc, m) /\ Hit(pc)' = Hit(pc)
    BY <1>11, RowTracked
  <2>2. fsm'[RowOf(pc)] = fsm[RowOf(pc)]
    BY <1>1, <1>11, KeptByBranch
  <2>3. CounterOf(pc, k)' = CounterOf(pc, k)
    BY <1>1, <1>11, <2>2 DEF CounterOf
  <2>4. U = T
    BY <1>1, <1>3, <1>4, <1>11, <2>1 DEF Training
  <2>5. CounterOf(pc, k) = Counter(T, k, m - 1)
    BY <1>3, <1>11, <2>1 DEF Tracked
  <2>6. m \notin U
    BY <1>2, <1>6, <2>4
  <2> QED  BY <1>5, <1>12, <1>13, <2>3, <2>4, <2>5, <2>6
<1> QED  BY <1>9, <1>10, <1>11

LEMMA LineTracked ==
  ASSUME Typed, Logged, Tabled, NEW b \in Branches, NEW taken \in BOOLEAN,
         Branch(b, taken), log' = Append(log, Entry(b, taken)),
         NEW m, m = Len(log) + 1, Tracked(b.pc, m),
         NEW pc \in Nat, Tracked(pc, m)
  PROVE  Tracked(pc, m + 1)'
<1>1. Len(log) \in Nat /\ (m + 1) - 1 = m
  BY LineOfBranch, LinesOfLonger
<1>2. config' = config
  BY DEF Branch
<1>3. \A k \in History : Hit(pc)' \/ config.isGlobalTable =>
        CounterOf(pc, k)' = Counter(Training(pc, m + 1), k, m)'
  BY CountersTracked
<1>4. Hit(pc)' \/ config.isGlobalTable =>
        \A k \in History :
          CounterOf(pc, k)' = Counter(Training(pc, m + 1), k, (m + 1) - 1)'
  BY <1>1, <1>3
<1>5. Hit(pc)' \/ config.isGlobalHist => HistoryOf(pc)' = PastOf(pc, m + 1)'
  BY HistoryTracked
<1>6. /\ Hit(pc)' <=> Own(pc, m + 1)' # {}
      /\ Hit(pc)' => rows'[RowOf(pc)].target
                     = log'[Max(Own(pc, m + 1)')].target
  BY RowTracked
<1> QED  BY <1>2, <1>4, <1>5, <1>6 DEF Tracked

(* At the start there is nothing to know.                                  *)
LEMMA NothingTracked ==
  ASSUME Typed, Tabled, log = <<>>, NEW pc \in Nat, globalHistory = NoHistory,
         \A r \in Rows : ~rows[r].valid,
         config.isGlobalTable => globalFsm = NewTable
  PROVE  Tracked(pc, 1)
<1>1. RowOf(pc) \in Rows /\ 1 - 1 = 0 /\ 0 \in Nat
  BY RowsAndTags
<1>2. ~Hit(pc)
  BY <1>1 DEF Hit
<1>3. 1 .. 1 - 1 = {}
  OBVIOUS
<1>4. Own(pc, 1) = {}
  BY <1>3 DEF Own, SameRow
<1>5. config.isGlobalHist => HistoryOf(pc) = PastOf(pc, 1)
  <2>1. config.isGlobalHist => Remembered(pc, 1) = {}
    BY <1>3 DEF Remembered
  <2> QED  BY <2>1, NoOutcomes DEF HistoryOf, PastOf
<1>6. config.isGlobalTable =>
        \A k \in History : CounterOf(pc, k) = Counter(Training(pc, 1), k, 1 - 1)
  <2>1. \A k : Counter(Training(pc, 1), k, 0) = config.fsmState
    BY <1>1, CounterNext
  <2> QED  BY <1>1, <2>1 DEF CounterOf, NewTable
<1> QED  BY <1>2, <1>4, <1>5, <1>6 DEF Tracked

-----------------------------------------------------------------------------
(* With all this tracked, BP_predict gives the answer of the definition.   *)
LEMMA TrackedIsAnswer ==
  ASSUME config \in Configs, globalHistory \in History, Tabled, NEW pc \in Nat,
         NEW m, Tracked(pc, m)
  PROVE  Predict(pc) = Answer(pc, m)
<1>1. CASE ~Hit(pc)
  BY <1>1 DEF Predict, Answer, Tracked
<1>2. CASE Hit(pc)
  <2>1. HistoryOf(pc) = PastOf(pc, m) /\ Own(pc, m) # {}
    BY <1>2 DEF Tracked
  <2>2. PICK k \in History : k = Place(pc, HistoryOf(pc))
    BY FoundByBranch, PlaceIsHistory
  <2>3. k = PlaceAt(pc, m)
    BY <2>1, <2>2 DEF PlaceAt
  <2>4. StateOf(pc) = CounterOf(pc, k)
    BY <2>2 DEF StateOf, CounterOf
  <2>5. StateOf(pc) = Counted(pc, m)
    BY <1>2, <2>3, <2>4 DEF Tracked, Counted
  <2>6. StateOf(pc) \in 0 .. 3
    BY FoundByBranch
  <2>7. PredictsTaken(StateOf(pc)) <=> Counted(pc, m) >= 2
    BY <2>5, <2>6 DEF PredictsTaken
  <2> QED  BY <1>2, <2>1, <2>7 DEF Predict, Answer, Tracked
<1> QED  BY <1>1, <1>2

(* The lines that main counts as flushed, before and after one more.       *)
FlushedLines == {i \in DOMAIN log : Answer(log[i].pc, i).dst # Went(i)}

LEMMA SameFlushed ==
  ASSUME NEW n \in Nat, Kept(n), NEW i \in 1 .. n
  PROVE  (Answer(log[i].pc, i).dst # Went(i))'
         <=> Answer(log[i].pc, i).dst # Went(i)
<1>1. PICK pc : pc = log[i].pc
  OBVIOUS
<1>2. log'[i] = log[i] /\ i \in 1 .. n + 1
  BY DEF Kept
<1>3. Answer(pc, i)' = Answer(pc, i)
  BY <1>2, SameAnswer
<1>4. Answer(log[i].pc, i)' = Answer(pc, i)'
  BY <1>1, <1>2
<1>5. Went(i)' = Went(i)
  BY <1>2 DEF Went
<1> QED  BY <1>1, <1>3, <1>4, <1>5

LEMMA OneMoreFlushed ==
  ASSUME Typed, Logged, Tabled, NEW b \in Branches, NEW taken \in BOOLEAN,
         Branch(b, taken), log' = Append(log, Entry(b, taken)),
         NEW m, m = Len(log) + 1, Tracked(b.pc, m)
  PROVE  /\ FlushedLines' = IF Flushed(b, taken) THEN FlushedLines \cup {m}
                            ELSE FlushedLines
         /\ m \notin FlushedLines /\ IsFiniteSet(FlushedLines)
<1>1. PICK e : e = Entry(b, taken)
  OBVIOUS
<1>2. /\ Longer(e) /\ e.pc = b.pc /\ e.target = b.target /\ e.taken = taken
      /\ config \in Configs /\ globalHistory \in History /\ b.pc \in Nat
  BY <1>1, LineOfBranch, BranchesAreAddresses DEF Typed
<1>3. PICK n \in Nat : n = Len(log) /\ Kept(n)
  BY <1>2, LinesOfLonger
<1>4. /\ m = n + 1 /\ log'[m] = e
      /\ DOMAIN log = 1 .. n /\ DOMAIN log' = 1 .. m
  BY <1>2, <1>3, LinesOfLonger DEF Longer
<1>5. Answer(b.pc, m) = Predict(b.pc)
  BY <1>2, TrackedIsAnswer
<1>6. (Answer(log[m].pc, m).dst # Went(m))' <=> Flushed(b, taken)
  <2>1. PICK pc : pc = b.pc
    OBVIOUS
  <2>2. Answer(pc, m)' = Answer(pc, m)
    BY <1>3, <1>4, SameAnswer
  <2>3. Answer(log[m].pc, m)' = Answer(pc, m)'
    BY <1>2, <1>4, <2>1
  <2>4. Went(m)' = IF taken THEN b.target ELSE Following(b.pc)
    BY <1>2, <1>4 DEF Went
  <2> QED  BY <1>5, <2>1, <2>2, <2>3, <2>4 DEF Flushed
<1>7. \A i \in 1 .. n : (Answer(log[i].pc, i).dst # Went(i))'
                        <=> Answer(log[i].pc, i).dst # Went(i)
  BY <1>3, SameFlushed
<1>8. FlushedLines = {i \in 1 .. n : Answer(log[i].pc, i).dst # Went(i)}
  BY <1>4 DEF FlushedLines
<1>9. FlushedLines' = {i \in 1 .. m : (Answer(log[i].pc, i).dst # Went(i))'}
  BY <1>4 DEF FlushedLines
<1>10. 1 .. m = (1 .. n) \cup {m} /\ m \notin 1 .. n
  BY <1>4
<1>11. IsFiniteSet(FlushedLines)
  <2>1. IsFiniteSet(1 .. n)
    BY FS_Interval
  <2> QED  BY <1>8, <2>1, FS_Subset
<1> QED  BY <1>6, <1>7, <1>8, <1>9, <1>10, <1>11

-----------------------------------------------------------------------------
(* The inductive invariant of the answers: while it runs, everything is    *)
(* tracked; the counts are of the lines in the log.                        *)
AllTracked ==
  /\ phase = "config" => globalHistory = NoHistory
  /\ phase = "running" => \A pc \in Nat : Tracked(pc, Len(log) + 1)

FlushesCounted ==
  /\ phase \in {"running", "reported"} =>
       branches = Len(log) /\ flushes = Cardinality(FlushedLines)
  /\ phase = "reported" =>
       stats.br_num = branches /\ stats.flush_num = flushes

LEMMA LineKeepsAnswers ==
  ASSUME Typed, Logged, AllTracked, FlushesCounted,
         NEW b \in Branches, NEW taken \in BOOLEAN, Branch(b, taken),
         log' = Append(log, Entry(b, taken))
  PROVE  AllTracked' /\ FlushesCounted'
<1>1. /\ phase = "running" /\ phase' = "running"
      /\ branches' = branches + 1
      /\ flushes' = IF Flushed(b, taken) THEN flushes + 1 ELSE flushes
      /\ Tabled /\ b.pc \in Nat
  BY BranchesAreAddresses DEF Branch, Typed
<1>2. PICK m \in Nat : m = Len(log) + 1
  BY DEF Logged
<1>3. Len(log') = m
  BY <1>2, LineOfBranch, LinesOfLonger
<1>4. \A pc \in Nat : Tracked(pc, m)
  BY <1>1, <1>2 DEF AllTracked
<1>5. \A pc \in Nat : Tracked(pc, m + 1)'
  BY <1>1, <1>2, <1>4, LineTracked
<1>6. AllTracked'
  <2>1. PICK q : q = m + 1
    OBVIOUS
  <2>2. \A pc \in Nat : Tracked(pc, Len(log) + 1)' <=> Tracked(pc, q)'
    BY <1>3, <2>1
  <2>3. \A pc \in Nat : Tracked(pc, q)'
    BY <1>5, <2>1
  <2> QED  BY <1>1, <2>2, <2>3 DEF AllTracked
<1>7. /\ FlushedLines' = IF Flushed(b, taken) THEN FlushedLines \cup {m}
                         ELSE FlushedLines
      /\ m \notin FlushedLines /\ IsFiniteSet(FlushedLines)
  BY <1>1, <1>2, <1>4, OneMoreFlushed
<1>8. FlushesCounted'
  <2>1. Cardinality(FlushedLines) \in Nat
        /\ Cardinality(FlushedLines \cup {m}) = Cardinality(FlushedLines) + 1
    BY <1>7, FS_AddElement, FS_CardinalityType
  <2>2. flushes' = Cardinality(FlushedLines')
    BY <1>1, <1>7, <2>1 DEF FlushesCounted
  <2>3. branches' = Len(log')
    BY <1>1, <1>2, <1>3 DEF FlushesCounted
  <2> QED  BY <1>1, <2>2, <2>3 DEF FlushesCounted
<1> QED  BY <1>6, <1>8

LEMMA NothingTrackedNow ==
  ASSUME NEW pc \in Nat
  PROVE  (/\ Typed /\ Tabled /\ log = <<>> /\ globalHistory = NoHistory
          /\ \A r \in Rows : ~rows[r].valid
          /\ config.isGlobalTable => globalFsm = NewTable
          => Tracked(pc, 1))'
<1>1. /\ Typed /\ Tabled /\ log = <<>> /\ globalHistory = NoHistory
      /\ \A r \in Rows : ~rows[r].valid
      /\ config.isGlobalTable => globalFsm = NewTable
      => Tracked(pc, 1)
  BY NothingTracked
<1> QED  BY <1>1, PTL

LEMMA StartKeepsAnswers ==
  ASSUME Typed, Logged, AllTracked, FlushesCounted, BP_init, UNCHANGED log
  PROVE  AllTracked' /\ FlushesCounted'
<1>1. Typed' /\ config' = config
  BY InitKeepsTyped
<1>2. /\ phase' = "running" /\ log = <<>> /\ log' = <<>>
      /\ globalHistory' = NoHistory /\ flushes' = 0 /\ branches' = 0
  BY DEF BP_init, Logged, AllTracked
<1>3. Tabled'
  BY <1>1, <1>2 DEF Typed
<1>4. \A r \in Rows : ~rows'[r].valid
  BY DEF BP_init
<1>5. config.isGlobalTable => globalFsm' = NewTable'
  BY <1>1 DEF BP_init, NewTable
<1>6. \A pc \in Nat : Tracked(pc, 1)'
  <2>1. NoHistory' = NoHistory
    BY DEF NoHistory
  <2> QED  BY <1>1, <1>2, <1>3, <1>4, <1>5, <2>1, NothingTrackedNow
<1>7. AllTracked'
  <2>1. Len(log') + 1 = 1
    BY <1>2
  <2>2. PICK q : q = 1
    OBVIOUS
  <2>3. \A pc \in Nat : Tracked(pc, Len(log) + 1)' <=> Tracked(pc, q)'
    BY <2>1, <2>2
  <2>4. \A pc \in Nat : Tracked(pc, q)'
    BY <1>6, <2>2
  <2> QED  BY <1>2, <2>3, <2>4 DEF AllTracked
<1>8. FlushesCounted'
  <2>1. FlushedLines' = {} /\ Len(log') = 0
    <3>1. DOMAIN log' = {}
      BY <1>2
    <3> QED  BY <1>2, <3>1 DEF FlushedLines
  <2> QED  BY <1>2, <2>1, FS_EmptySet DEF FlushesCounted
<1> QED  BY <1>7, <1>8

LEMMA SameTracked ==
  ASSUME Logged, UNCHANGED <<config, btb, log>>, NEW m, m = Len(log) + 1, NEW pc,
         Tracked(pc, m)
  PROVE  Tracked(pc, m)'
<1>1. PICK n \in Nat : n = Len(log) /\ m = n + 1 /\ Kept(n) /\ m \in 1 .. n + 1
  BY DEF Logged, Kept
<1>2. /\ Own(pc, m)' = Own(pc, m) /\ Training(pc, m)' = Training(pc, m)
      /\ PastOf(pc, m)' = PastOf(pc, m)
  BY <1>1, SameRows, SamePlaces
<1>3. UNCHANGED <<config, rows, fsm, globalHistory, globalFsm, log>>
  BY DEF btb
<1>4. Hit(pc)' = Hit(pc) /\ HistoryOf(pc)' = HistoryOf(pc)
  BY <1>3 DEF Hit, HistoryOf
<1>5. \A k : CounterOf(pc, k)' = CounterOf(pc, k)
  BY <1>3 DEF CounterOf
<1>6. PICK T : T = Training(pc, m)
  OBVIOUS
<1>7. ASSUME NEW k
      PROVE  Counter(Training(pc, m), k, m - 1)' = Counter(Training(pc, m), k, m - 1)
  <2>1. PICK l \in 0 .. n : l = m - 1
    BY <1>1
  <2>2. Counter(T, k, l)' = Counter(T, k, l)
    BY <1>1, SameCounter
  <2>3. Counter(Training(pc, m), k, m - 1)' = Counter(T, k, l)'
    BY <1>2, <1>6, <2>1
  <2> QED  BY <1>6, <2>1, <2>2, <2>3
<1>8. Hit(pc) \/ config.isGlobalTable =>
        \A k \in History :
          CounterOf(pc, k)' = Counter(Training(pc, m), k, m - 1)'
  BY <1>5, <1>7 DEF Tracked
<1>9. Hit(pc) => rows'[RowOf(pc)].target = log'[Max(Own(pc, m)')].target
  BY <1>2, <1>3 DEF Tracked
<1>10. /\ Hit(pc) <=> Own(pc, m)' # {}
       /\ Hit(pc) \/ config.isGlobalHist => HistoryOf(pc)' = PastOf(pc, m)'
  BY <1>2, <1>4 DEF Tracked
<1> QED  BY <1>3, <1>4, <1>8, <1>9, <1>10 DEF Tracked

LEMMA EndKeepsAnswers ==
  ASSUME Typed, Logged, AllTracked, FlushesCounted,
         BadLine \/ Report \/ UNCHANGED vars, UNCHANGED log
  PROVE  AllTracked' /\ FlushesCounted'
<1>1. UNCHANGED <<config, btb, log>>
  BY OthersKeepTyped
<1>2. UNCHANGED <<rows, fsm, globalHistory, globalFsm, flushes, branches>>
  BY <1>1 DEF btb
<1>3. /\ phase' \in {"config", "running"} => phase' = phase
      /\ phase' = "reported" =>
           \/ phase = phase' /\ stats' = stats
           \/ /\ phase = "running"
              /\ stats'.br_num = branches /\ stats'.flush_num = flushes
  BY DEF BadLine, Report, vars
<1>4. AllTracked'
  <2>1. PICK m : m = Len(log) + 1
    OBVIOUS
  <2>2. phase = "running" => \A pc \in Nat : Tracked(pc, m)'
    BY <1>1, <2>1, SameTracked DEF AllTracked
  <2>3. \A pc \in Nat : Tracked(pc, Len(log) + 1)' <=> Tracked(pc, m)'
    BY <1>1, <2>1
  <2>4. NoHistory' = NoHistory
    BY DEF NoHistory
  <2> QED  BY <1>2, <1>3, <2>2, <2>3, <2>4 DEF AllTracked
<1>5. FlushesCounted'
  <2>1. PICK n \in Nat : n = Len(log) /\ DOMAIN log = 1 .. n /\ Kept(n)
    BY <1>1 DEF Logged, Kept
  <2>2. FlushedLines' = FlushedLines
    <3>1. \A i \in 1 .. n : (Answer(log[i].pc, i).dst # Went(i))'
                            <=> Answer(log[i].pc, i).dst # Went(i)
      BY <2>1, SameFlushed
    <3>2. FlushedLines = {i \in 1 .. n : Answer(log[i].pc, i).dst # Went(i)}
      BY <2>1 DEF FlushedLines
    <3>3. FlushedLines' = {i \in 1 .. n : (Answer(log[i].pc, i).dst # Went(i))'}
      BY <1>1, <2>1 DEF FlushedLines
    <3> QED  BY <3>1, <3>2, <3>3
  <2>3. UNCHANGED <<branches, flushes, log>>
    BY <1>1, <1>2
  <2>4. phase' \in {"running", "reported"} => phase \in {"running", "reported"}
    BY <1>3
  <2> QED  BY <1>3, <2>2, <2>3, <2>4 DEF FlushesCounted
<1> QED  BY <1>4, <1>5

(* The invariant.                                                          *)
Answered == Typed /\ Logged /\ Teaching /\ AllTracked /\ FlushesCounted

LEMMA AnsweredAtFirst == LogInit => Answered
BY TypedAtFirst
   DEF LogInit, Init, Answered, Logged, Teaching, Repeated, AllTracked,
       FlushesCounted

LEMMA StepKeepsAnswered == Answered /\ [LogNext]_allVars => Answered'
<1> SUFFICES ASSUME Answered, [LogNext]_allVars PROVE Answered'
  OBVIOUS
<1>1. Typed' /\ Logged' /\ Teaching'
  BY LogStep DEF Answered
<1>2. ASSUME NEW b \in Branches, NEW taken \in BOOLEAN, Branch(b, taken),
             log' = Append(log, Entry(b, taken))
      PROVE  AllTracked' /\ FlushesCounted'
  BY <1>2, LineKeepsAnswers DEF Answered
<1>3. ASSUME BP_init, UNCHANGED log PROVE AllTracked' /\ FlushesCounted'
  BY <1>3, StartKeepsAnswers DEF Answered
<1>4. ASSUME BadLine \/ Report \/ UNCHANGED vars, UNCHANGED log
      PROVE  AllTracked' /\ FlushesCounted'
  BY <1>4, EndKeepsAnswers DEF Answered
<1>5. AllTracked' /\ FlushesCounted'
  BY <1>2, <1>3, <1>4 DEF LogNext, allVars, Entry
<1> QED  BY <1>1, <1>5 DEF Answered

(* For all sizes of the tables, all kinds of history, table and sharing    *)
(* and every trace, BP_predict answers for every branch what the           *)
(* definition looks up in the log: whatever rows were taken over, whatever *)
(* counters were shared.                                                   *)
THEOREM TablesAnswerAsDefined == LogSpec => []PredictsAsDefined
<1>1. Answered => PredictsAsDefined
  <2> SUFFICES ASSUME Answered, phase = "running", NEW b \in Branches
               PROVE  Predict(b.pc) = Answer(b.pc, Len(log) + 1)
    BY DEF PredictsAsDefined
  <2>1. b.pc \in Nat /\ config \in Configs /\ globalHistory \in History /\ Tabled
    BY BranchesAreAddresses DEF Answered, Typed
  <2>2. Tracked(b.pc, Len(log) + 1)
    BY <2>1 DEF Answered, AllTracked
  <2> QED  BY <2>1, <2>2, TrackedIsAnswer
<1> QED  BY <1>1, AnsweredAtFirst, StepKeepsAnswered, PTL DEF LogSpec

(* And the report counts all branches of the trace, and as flushes those   *)
(* whose answer was another address than where they went.                  *)
THEOREM ReportCountsFlushes == LogSpec => []ReportIsRight
<1>1. Answered => ReportIsRight
  BY DEF Answered, FlushesCounted, ReportIsRight, FlushedLines
<1> QED  BY <1>1, AnsweredAtFirst, StepKeepsAnswered, PTL DEF LogSpec

-----------------------------------------------------------------------------
(* A history is the set of the bits that are 1.                            *)
LEMMA HistoriesCounted ==
  Cardinality(History) = 2 ^ HistorySize
<1> DEFINE F == [S \in SUBSET Bits |-> [i \in Bits |-> IF i \in S THEN 1 ELSE 0]]
<1>1. HistorySize \in Nat
  BY PredictorAssumption
<1>2. F \in Bijection(SUBSET Bits, History)
  <2>1. F \in [SUBSET Bits -> History]
    BY DEF History
  <2>2. ASSUME NEW S \in SUBSET Bits, NEW U \in SUBSET Bits, F[S] = F[U]
        PROVE  S = U
    <3>1. \A i \in Bits : (i \in S <=> F[S][i] = 1) /\ (i \in U <=> F[U][i] = 1)
      OBVIOUS
    <3> QED  BY <2>2, <3>1
  <2>3. ASSUME NEW h \in History
        PROVE  \E S \in SUBSET Bits : F[S] = h
    <3> DEFINE S == {i \in Bits : h[i] = 1}
    <3>1. S \in SUBSET Bits
      OBVIOUS
    <3>2. \A i \in Bits : F[S][i] = h[i]
      BY <3>1 DEF History
    <3>3. F[S] \in History
      BY <2>1, <3>1
    <3>4. F[S] = h
      BY <3>2, <3>3 DEF History
    <3> QED  BY <3>1, <3>4
  <2> QED  BY <2>1, <2>2, <2>3, Fun_IsBij
<1>3. Cardinality(SUBSET Bits) = 2 ^ HistorySize /\ IsFiniteSet(Bits)
  BY <1>1, PowerCounts, FS_Interval DEF Bits
<1>4. IsFiniteSet(SUBSET Bits) /\ ExistsBijection(SUBSET Bits, History)
  BY <1>2, <1>3, FS_SUBSET DEF ExistsBijection
<1> QED  BY <1>3, <1>4, FS_Bijection

(* What the four formulas compute, over numbers: R rows of an entry of e   *)
(* bits, histories of h bits, tables of 2 * c bits.                        *)
LEMMA FourFormulas ==
  ASSUME NEW R \in Nat, NEW e \in Nat, NEW h \in Nat, NEW c \in Nat
  PROVE  /\ R * (e + h + 2 * c) = R * e + h * R + 2 * c * R
         /\ R * (e + h) + 2 * c = R * e + h * R + 2 * c * 1
         /\ R * e + h + 2 * c = R * e + h * 1 + 2 * c * 1
         /\ h + R * (e + 2 * c) = R * e + h * 1 + 2 * c * R
OBVIOUS

(* Size as the report states it.                                           *)
SizeInUse ==
  Cardinality(Rows) * (1 + TagBits + 30)
  + HistorySize * (IF config.isGlobalHist THEN 1 ELSE Cardinality(Rows))
  + 2 * Cardinality(History)
      * (IF config.isGlobalTable THEN 1 ELSE Cardinality(Rows))

LEMMA SizeIsInUse ==
  ASSUME config \in Configs
  PROVE  Size = SizeInUse
<1>1. /\ RowBits \in Nat /\ TagBits \in Nat /\ HistorySize \in Nat
      /\ config.isGlobalHist \in BOOLEAN /\ config.isGlobalTable \in BOOLEAN
  BY PredictorAssumption
<1> DEFINE R == 2 ^ RowBits
           e == TagBits + 30 + 1
           h == HistorySize
           c == 2 ^ HistorySize
<1>2. R \in Nat /\ e \in Nat /\ h \in Nat /\ c \in Nat
  <2>1. 2 ^ RowBits \in Nat /\ 2 ^ HistorySize \in Nat
    BY ONLY <1>1, PowerCounts
  <2> QED  BY <1>1, <2>1
<1>3. Cardinality(Rows) = R
  <2>1. Cardinality(0 .. R - 1) = IF 0 > R - 1 THEN 0 ELSE R - 1 - 0 + 1
    <3>1. 0 \in Int /\ R - 1 \in Int
      BY <1>2
    <3> HIDE DEF R
    <3> QED  BY <3>1, FS_Interval
  <2> HIDE DEF R
  <2> QED  BY <1>2, <2>1 DEF Rows, R
<1>4. 2 ^ (HistorySize + 1) = 2 * c /\ Cardinality(History) = c
  BY <1>1, PowerDoubles, HistoriesCounted
<1>5. Size = CASE ~config.isGlobalHist /\ ~config.isGlobalTable ->
                    R * (e + h + 2 * c)
               [] ~config.isGlobalHist /\ config.isGlobalTable ->
                    R * (e + h) + 2 * c
               [] config.isGlobalHist /\ config.isGlobalTable ->
                    R * e + h + 2 * c
               [] config.isGlobalHist /\ ~config.isGlobalTable ->
                    h + R * (e + 2 * c)
  BY <1>4 DEF Size
<1>6. SizeInUse = R * e + h * (IF config.isGlobalHist THEN 1 ELSE R)
                    + 2 * c * (IF config.isGlobalTable THEN 1 ELSE R)
  <2>1. 1 + TagBits + 30 = e
    BY <1>1
  <2> HIDE DEF R, e, c
  <2> QED  BY <1>3, <1>4, <2>1 DEF SizeInUse
<1> HIDE DEF R, e, h, c
<1>7. /\ R * (e + h + 2 * c) = R * e + h * R + 2 * c * R
      /\ R * (e + h) + 2 * c = R * e + h * R + 2 * c * 1
      /\ R * e + h + 2 * c = R * e + h * 1 + 2 * c * 1
      /\ h + R * (e + 2 * c) = R * e + h * 1 + 2 * c * R
  BY ONLY <1>2, FourFormulas
<1>8. CASE config.isGlobalHist
  <2>1. Size = IF config.isGlobalTable THEN R * e + h + 2 * c
               ELSE h + R * (e + 2 * c)
    BY ONLY <1>1, <1>5, <1>8
  <2>2. SizeInUse = R * e + h * 1 + 2 * c * (IF config.isGlobalTable THEN 1 ELSE R)
    BY ONLY <1>6, <1>8
  <2> QED  BY ONLY <1>7, <2>1, <2>2
<1>9. CASE ~config.isGlobalHist
  <2>1. Size = IF config.isGlobalTable THEN R * (e + h) + 2 * c
               ELSE R * (e + h + 2 * c)
    BY ONLY <1>1, <1>5, <1>9
  <2>2. SizeInUse = R * e + h * R + 2 * c * (IF config.isGlobalTable THEN 1 ELSE R)
    BY ONLY <1>6, <1>9
  <2> QED  BY ONLY <1>7, <2>1, <2>2
<1> QED  BY <1>8, <1>9

LEMMA StepKeepsSize ==
  ASSUME Typed, SizeIsRight, [LogNext]_allVars
  PROVE  SizeIsRight'
<1>1. SizeIsRight <=> (phase = "reported" => stats.size = SizeInUse)
  BY DEF SizeIsRight, SizeInUse
<1>2. config' = config =>
        (SizeIsRight' <=> (phase' = "reported" => stats'.size = SizeInUse))
  BY DEF SizeIsRight, SizeInUse
<1>3. CASE \E b \in Branches, taken \in BOOLEAN : Branch(b, taken)
  BY <1>3 DEF Branch, SizeIsRight
<1>4. CASE BP_init \/ BadLine
  BY <1>4 DEF BP_init, BadLine, SizeIsRight
<1>5. CASE Report
  BY <1>2, <1>5, SizeIsInUse DEF Report, Typed
<1>6. CASE UNCHANGED vars
  BY <1>1, <1>2, <1>6 DEF vars
<1> QED  BY <1>3, <1>4, <1>5, <1>6 DEF LogNext, allVars

(* The four formulas of BP_GetStats are the bits of the rows, of the       *)
(* histories and of the counters that the configuration uses, a counter of *)
(* two bits for each history that there can be, for all sizes.             *)
THEOREM SizeCountsBits == LogSpec => []SizeIsRight
<1>1. LogInit => SizeIsRight
  BY DEF LogInit, Init, SizeIsRight
<1>2. Answered => Typed
  BY DEF Answered
<1>3. Typed /\ SizeIsRight /\ [LogNext]_allVars => SizeIsRight'
  BY StepKeepsSize
<1> QED  BY <1>1, <1>2, <1>3, AnsweredAtFirst, StepKeepsAnswered, PTL DEF LogSpec
=============================================================================
