--------------------------- MODULE BranchPredictor ---------------------------
(***************************************************************************)
(* The two-level branch predictor of hw1/bp.cpp with the loop of           *)
(* hw1/bp_main.c that drives it: each line of the trace is a prediction    *)
(* and then the update with what the branch did.  A history register is a  *)
(* function from bit to 0 or 1, bit 0 the latest outcome, so that a table  *)
(* of counters is a function of histories.                                 *)
(***************************************************************************)
EXTENDS Integers, FiniteSetsExt

CONSTANTS RowBits,      \* log2(btbSize)
          TagBits,      \* tagSize
          HistorySize,
          Configs,      \* the configuration lines: kinds of history, of
                        \* table and of sharing, and the counters' start
          Branches,     \* the branches of the trace: pc and target
          AddrBits      \* bound: the width of an address, 32 in the program

ASSUME PredictorAssumption ==
  /\ {RowBits, TagBits, AddrBits} \subseteq Nat /\ HistorySize \in Nat \ {0}
  /\ \A c \in Configs : /\ c.isGlobalHist \in BOOLEAN /\ c.isGlobalTable \in BOOLEAN
                        /\ c.Shared \in {"no", "lsb", "mid"}
                        /\ c.fsmState \in 0 .. 3
  /\ \A b \in Branches : {b.pc, b.target} \subseteq 0 .. 2 ^ AddrBits - 1

VARIABLES config, rows, fsm, globalHistory, globalFsm, flushes, branches,
          phase,  \* of main: config, running, reported, or rejected for a
                  \* bad line
          stats   \* what BP_GetStats returned
btb  == <<rows, fsm, globalHistory, globalFsm, flushes, branches>>
vars == <<config, btb, phase, stats>>

Rows    == 0 .. 2 ^ RowBits - 1
Bits    == 0 .. HistorySize - 1
History == [Bits -> {0, 1}]
Tables  == [History -> 0 .. 3]

(* bitExtracted: k bits of x from bit p on, counted from 0.                *)
Extract(x, k, p) == (x \div 2 ^ p) % 2 ^ k

RowOf(pc) == Extract(pc, RowBits, 2)
TagOf(pc) == Extract(pc, TagBits, 2 + RowBits)

(* pc + 4 as an unsigned number: the last branch of memory goes on at 0.   *)
Following(pc) == (pc + 4) % 2 ^ AddrBits

NoHistory == [i \in Bits |-> 0]
NewTable  == [h \in History |-> config.fsmState]
NoStats   == [br_num |-> 0, flush_num |-> 0, size |-> 0]

(* The table is not there yet; the globals of bp.cpp are.                  *)
Init ==
  /\ config \in Configs
  /\ rows = <<>> /\ fsm = <<>>
  /\ globalHistory = NoHistory /\ globalFsm = <<>>
  /\ flushes = 0 /\ branches = 0
  /\ phase = "config" /\ stats = NoStats

(* main reads the configuration and calls BP_init, which makes the rows    *)
(* and the counters that are used, and leaves the global history alone.    *)
BP_init ==
  /\ phase = "config"
  /\ phase' = "running"
  /\ rows' = [r \in Rows |-> [valid |-> FALSE, tag |-> 0, target |-> 0,
                              history |-> NoHistory]]
  /\ IF config.isGlobalTable
     THEN globalFsm' = NewTable /\ UNCHANGED fsm
     ELSE fsm' = [r \in Rows |-> NewTable] /\ UNCHANGED globalFsm
  /\ flushes' = 0 /\ branches' = 0
  /\ UNCHANGED <<config, globalHistory, stats>>

-----------------------------------------------------------------------------
(* extractFsmState: which counter of a table the branch at pc consults,    *)
(* with its history h.                                                     *)
PcBits(pc) ==
  [i \in Bits |-> CASE config.Shared = "no"  -> 0
                    [] config.Shared = "lsb" -> Extract(pc, 1, 2 + i)
                    [] config.Shared = "mid" -> Extract(pc, 1, 16 + i)]

Xor(g, h) == [i \in Bits |-> (g[i] + h[i]) % 2]

Place(pc, h) == IF config.isGlobalTable THEN Xor(PcBits(pc), h) ELSE h

HistoryOf(pc) ==
  IF config.isGlobalHist THEN globalHistory ELSE rows[RowOf(pc)].history

StateOf(pc) ==
  LET h == Place(pc, HistoryOf(pc))
  IN  IF config.isGlobalTable THEN globalFsm[h] ELSE fsm[RowOf(pc)][h]

(* Mutant: only the strongest state counts as taken.                       *)
StronglyTaken(s) == s > 2

PredictsTaken(s) == s > 1

Hit(pc) == rows[RowOf(pc)].valid /\ rows[RowOf(pc)].tag = TagOf(pc)

(* BP_predict: the predicted direction is whether dst is the target.       *)
Predict(pc) ==
  IF Hit(pc) /\ PredictsTaken(StateOf(pc))
  THEN [taken |-> TRUE, dst |-> rows[RowOf(pc)].target]
  ELSE [taken |-> FALSE, dst |-> Following(pc)]

(* Mutant: the counter has no ceiling.                                     *)
NoCeiling(s, taken) == IF taken THEN s + 1 ELSE IF s = 0 THEN 0 ELSE s - 1

fsmUpdate(s, taken) ==
  IF taken THEN (IF s = 3 THEN 3 ELSE s + 1) ELSE (IF s = 0 THEN 0 ELSE s - 1)

historyUpdate(h, taken) ==
  [i \in Bits |-> IF i > 0 THEN h[i - 1] ELSE IF taken THEN 1 ELSE 0]

-----------------------------------------------------------------------------
(* Mutants: a branch that takes over a row keeps the counters; a flush is  *)
(* a wrong direction.                                                      *)
TableKept(pc) == fsm[RowOf(pc)]

WrongDirection(b, taken) == Predict(b.pc).taken # taken

(* The row of pc, and its local counters, after the test for a new branch  *)
(* in BP_update: a new one starts with a local history of its own.         *)
TenantRow(pc) ==
  IF Hit(pc) THEN rows[RowOf(pc)]
  ELSE [rows[RowOf(pc)] EXCEPT !.valid = TRUE, !.tag = TagOf(pc),
          !.history = IF config.isGlobalHist THEN @ ELSE NoHistory]

TenantTable(pc) == IF Hit(pc) THEN fsm[RowOf(pc)] ELSE NewTable

(* The prediction named another address than the branch went to.           *)
Flushed(b, taken) ==
  Predict(b.pc).dst # IF taken THEN b.target ELSE Following(b.pc)

(* A good line of the trace: BP_predict, then BP_update, which moves the   *)
(* counter under the old history before it shifts the history.             *)
Branch(b, taken) ==
  LET r == RowOf(b.pc)
      t == TenantRow(b.pc)
      h == IF config.isGlobalHist THEN globalHistory ELSE t.history
      k == Place(b.pc, h)
      n == historyUpdate(h, taken)
  IN /\ phase = "running"
     /\ branches' = branches + 1
     /\ flushes' = IF Flushed(b, taken) THEN flushes + 1 ELSE flushes
     /\ rows' = [rows EXCEPT ![r] =
                   [t EXCEPT !.target = b.target,
                             !.history = IF config.isGlobalHist THEN @ ELSE n]]
     /\ globalHistory' = IF config.isGlobalHist THEN n ELSE globalHistory
     /\ IF config.isGlobalTable
        THEN /\ globalFsm' = [globalFsm EXCEPT ![k] = fsmUpdate(@, taken)]
             /\ UNCHANGED fsm
        ELSE /\ fsm' = [fsm EXCEPT ![r] =
                         [TenantTable(b.pc) EXCEPT ![k] = fsmUpdate(@, taken)]]
             /\ UNCHANGED globalFsm
     /\ UNCHANGED <<config, phase, stats>>

(* A configuration that is malformed or has a size of 0, and a line whose  *)
(* second word is neither T nor N, end main without a report.  (Too few    *)
(* words do so as well, as a null pointer for a word.)                     *)
BadLine ==
  /\ phase \in {"config", "running"}
  /\ phase' = "rejected"
  /\ UNCHANGED <<config, btb, stats>>

(* Mutant: the local tables are counted once, not once for each row.       *)
SizeOneTable ==
  LET btbSize == 2 ^ RowBits
      entry   == TagBits + 30 + 1
      table   == 2 ^ (HistorySize + 1)
  IN  (IF config.isGlobalHist THEN HistorySize + btbSize * entry
       ELSE btbSize * (entry + HistorySize)) + table

(* BP_GetStats: 30 bits for a target, and two bits for each counter.       *)
Size ==
  LET btbSize == 2 ^ RowBits
      entry   == TagBits + 30 + 1
      table   == 2 ^ (HistorySize + 1)
  IN  CASE ~config.isGlobalHist /\ ~config.isGlobalTable ->
             btbSize * (entry + HistorySize + table)
        [] ~config.isGlobalHist /\ config.isGlobalTable ->
             btbSize * (entry + HistorySize) + table
        [] config.isGlobalHist /\ config.isGlobalTable ->
             btbSize * entry + HistorySize + table
        [] config.isGlobalHist /\ ~config.isGlobalTable ->
             HistorySize + btbSize * (entry + table)

Report ==
  /\ phase = "running"
  /\ phase' = "reported"
  /\ stats' = [br_num |-> branches, flush_num |-> flushes, size |-> Size]
  /\ UNCHANGED <<config, btb>>

Next == \/ BP_init
        \/ \E b \in Branches, taken \in BOOLEAN : Branch(b, taken)
        \/ BadLine
        \/ Report

Spec == Init /\ [][Next]_vars

-----------------------------------------------------------------------------
(* A counter stays a counter of two bits and a history one of its length   *)
(* (fsmUpdate, historyUpdate).                                             *)
TypeOK ==
  /\ config \in Configs
  /\ globalHistory \in History
  /\ flushes \in 0 .. branches /\ branches \in Nat
  /\ phase \in {"running", "reported"} =>
       /\ rows \in [Rows -> [valid : BOOLEAN, tag : 0 .. 2 ^ TagBits - 1,
                             target : 0 .. 2 ^ AddrBits - 1, history : History]]
       /\ IF config.isGlobalTable THEN globalFsm \in Tables
          ELSE fsm \in [Rows -> Tables]
=============================================================================
