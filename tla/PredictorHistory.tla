-------------------------- MODULE PredictorHistory --------------------------
(***************************************************************************)
(* The branch predictor with the log of the trace, and what a two-level    *)
(* predictor should answer after a log: a definition without rows,         *)
(* registers or updates, which looks the past up for each question.        *)
(***************************************************************************)
EXTENDS BranchPredictor, Sequences

CONSTANT MaxBranches  \* bound of the model: the lines of a trace

ASSUME LogAssumption == MaxBranches \in Nat

VARIABLE log
allVars == <<vars, log>>

LogInit == Init /\ log = <<>>

LogNext ==
  \/ \E b \in Branches, taken \in BOOLEAN :
       /\ Len(log) < MaxBranches
       /\ Branch(b, taken)
       /\ log' = Append(log, [pc |-> b.pc, target |-> b.target, taken |-> taken])
  \/ (BP_init \/ BadLine \/ Report) /\ UNCHANGED log

LogSpec == LogInit /\ [][LogNext]_allVars

-----------------------------------------------------------------------------
(* The branches before place n that a table with tags would ascribe to the *)
(* branch at pc: those in its row since the last one with another tag.     *)
SameRow(pc, n) == {i \in 1 .. n - 1 : RowOf(log[i].pc) = RowOf(pc)}
Own(pc, n) ==
  {i \in SameRow(pc, n) : \A j \in SameRow(pc, n) :
     j >= i => TagOf(log[j].pc) = TagOf(pc)}

(* Whose outcomes make the history, and whose train the counters, of the   *)
(* branch at pc as it comes at place n.                                    *)
Remembered(pc, n) == IF config.isGlobalHist THEN 1 .. n - 1 ELSE Own(pc, n)
Training(pc, n)   == IF config.isGlobalTable THEN 1 .. n - 1 ELSE Own(pc, n)

(* The i-th bit is the outcome before which i others of those in past were *)
(* remembered.                                                             *)
Outcomes(past) ==
  [i \in Bits |->
     IF \E j \in past : log[j].taken /\ Cardinality({k \in past : k > j}) = i
     THEN 1 ELSE 0]

PastOf(pc, n)  == Outcomes(Remembered(pc, n))
PlaceAt(pc, n) == Place(pc, PastOf(pc, n))

(* One step of a state within 0 .. 3.                                      *)
Moved(s, taken) == IF taken THEN Min({3, s + 1}) ELSE Max({0, s - 1})

(* What is left of the start fsmState after those of the first n lines     *)
(* that are in T and came under place k of the table.                      *)
Counter(T, k, n) ==
  LET after[i \in 0 .. n] ==
        IF i = 0 THEN config.fsmState
        ELSE IF i \in T /\ PlaceAt(log[i].pc, i) = k
        THEN Moved(after[i - 1], log[i].taken)
        ELSE after[i - 1]
  IN  after[n]

(* The counter of the branch at pc as it comes at place n.                 *)
Counted(pc, n) == Counter(Training(pc, n), PlaceAt(pc, n), n - 1)

(* The answer for pc at place n.                                           *)
Answer(pc, n) ==
  IF Own(pc, n) # {} /\ Counted(pc, n) >= 2
  THEN [taken |-> TRUE, dst |-> log[Max(Own(pc, n))].target]
  ELSE [taken |-> FALSE, dst |-> Following(pc)]

Went(i) == IF log[i].taken THEN log[i].target ELSE Following(log[i].pc)

-----------------------------------------------------------------------------
(* BP_predict answers as the definition does, under all the kinds of       *)
(* history, table and sharing, whatever branches took over rows, shared    *)
(* counters or had the tag of another: BP_update resets all that a new     *)
(* branch must not inherit, and nothing else.                              *)
PredictsAsDefined ==
  phase = "running" =>
    \A b \in Branches : Predict(b.pc) = Answer(b.pc, Len(log) + 1)

(* A branch that is all the trace does, in one direction, is predicted     *)
(* right after HistorySize + 2 times, under every configuration and after  *)
(* any past: the history fills up and the counter needs two more steps.    *)
Learns ==
  \A b \in Branches, taken \in BOOLEAN :
    LET n == Len(log) IN
    /\ n >= HistorySize + 2
    /\ \A i \in n - HistorySize - 1 .. n :
         log[i] = [pc |-> b.pc, target |-> b.target, taken |-> taken]
    => Predict(b.pc) = [taken |-> taken,
                        dst |-> IF taken THEN b.target ELSE Following(b.pc)]

(* The report counts every branch, and as a flush each of those that went  *)
(* elsewhere than its answer (BP_update, BP_GetStats).                     *)
ReportIsRight ==
  phase = "reported" =>
    /\ stats.br_num = Len(log)
    /\ stats.flush_num =
         Cardinality({i \in DOMAIN log : Answer(log[i].pc, i).dst # Went(i)})

(* The size is the bits of what the configuration uses, local and global   *)
(* (the four formulas of BP_GetStats).                                     *)
SizeIsRight ==
  phase = "reported" =>
    stats.size =
      Cardinality(Rows) * (1 + TagBits + 30)
      + HistorySize * (IF config.isGlobalHist THEN 1 ELSE Cardinality(Rows))
      + 2 * Cardinality(History)
          * (IF config.isGlobalTable THEN 1 ELSE Cardinality(Rows))
=============================================================================
