------------------------------ MODULE CacheSim ------------------------------
(***************************************************************************)
(* The program of hw2: main reads the trace line by line, System counts    *)
(* the accesses to each level while runCommand works on the caches, and    *)
(* calcStats makes the three printed numbers at the end of the file.       *)
(***************************************************************************)
EXTENDS CacheLru

CONSTANTS L1Cyc, L2Cyc, MemCyc,  \* the cycles of an access to each level
          MaxAccesses            \* bound of the model: the longest trace

ASSUME SimAssumption == {L1Cyc, L2Cyc, MemCyc, MaxAccesses} \subseteq Nat

VARIABLES L1count, L2count, memCount,
          status,  \* of main: starting, reading, reported or rejected
          report,  \* what calcStats computed, fractions as <<num, den>>
          cycles,  \* history: the cycles that the accesses took in sum
          fetched, \* history: the blocks that a miss has allocated
          again    \* history: those of them that missed L2 once more

counters == <<L1count, L2count, memCount>>
history  == <<cycles, fetched, again>>
simVars  == <<l1, l2, counters, status, report, history, asked>>

NoReport == [L1miss |-> <<0, 1>>, L2miss |-> <<0, 1>>, avgTime |-> <<0, 1>>]

SimInit ==
  /\ Init
  /\ L1count = 0 /\ L2count = 0 /\ memCount = 0
  /\ status = "starting" /\ report = NoReport
  /\ cycles = 0 /\ fetched = {} /\ again = {} /\ asked = <<>>

-----------------------------------------------------------------------------
(* Rational arithmetic stands for the doubles of calcStats.                *)
Plus(x, y)  == <<x[1] * y[2] + y[1] * x[2], x[2] * y[2]>>
Times(x, y) == <<x[1] * y[1], x[2] * y[2]>>
Same(x, y)  == x[1] * y[2] = y[1] * x[2]

(* Mutant: the misses of L2 over all accesses.                             *)
statsGlobalRate ==
  LET L1miss == IF L1count > 0 THEN <<L2count, L1count>> ELSE <<0, 1>>
      L2miss == IF L1count > 0 THEN <<memCount, L1count>> ELSE <<0, 1>>
  IN  [L1miss |-> L1miss, L2miss |-> L2miss,
       avgTime |-> Plus(Plus(<<L1Cyc, 1>>, Times(<<L2Cyc, 1>>, L1miss)),
                        Times(<<MemCyc, 1>>, Times(L1miss, L2miss)))]

(* The rates start as 0 in main and stay 0 when their divisor is 0.        *)
calcStats ==
  LET L1miss == IF L1count > 0 THEN <<L2count, L1count>> ELSE <<0, 1>>
      L2miss == IF L2count > 0 THEN <<memCount, L2count>> ELSE <<0, 1>>
  IN  [L1miss |-> L1miss, L2miss |-> L2miss,
       avgTime |-> Plus(Plus(<<L1Cyc, 1>>, Times(<<L2Cyc, 1>>, L1miss)),
                        Times(<<MemCyc, 1>>, Times(L1miss, L2miss)))]

(* A good line: the whole of runCommand.                                   *)
Access(op, a) ==
  LET toL2  == ~IsBlock(L1, l1, a)
      toMem == toL2 /\ ~IsBlock(L2, l2, a)
      b     == BlockOf(a)
  IN /\ status = "reading" /\ L1count < MaxAccesses
     /\ RunCommand(op, a) /\ Asked(op, a)
     /\ L1count'  = L1count + 1
     /\ L2count'  = IF toL2 THEN L2count + 1 ELSE L2count
     /\ memCount' = IF toMem THEN memCount + 1 ELSE memCount
     /\ cycles'   = cycles + L1Cyc + (IF toL2 THEN L2Cyc ELSE 0)
                           + (IF toMem THEN MemCyc ELSE 0)
     /\ fetched'  = IF toMem /\ BlockAlloc(op) THEN fetched \cup {b} ELSE fetched
     /\ again'    = IF toMem /\ b \in fetched THEN again \cup {b} ELSE again
     /\ UNCHANGED <<status, report>>

(* The arguments are right and the file is open: new caches, no reports.   *)
Start ==
  /\ status = "starting"
  /\ status' = "reading"
  /\ asked' = <<>> /\ UNCHANGED <<l1, l2, counters, report, history>>

(* Too few arguments, an unknown one or no file end main with an error and *)
(* no statistics, and so does a line without two words or, by an exception,*)
(* with an address too short for substr(2).                                *)
Reject ==
  /\ status \in {"starting", "reading"}
  /\ status' = "rejected"
  /\ asked' = <<>> /\ UNCHANGED <<l1, l2, counters, report, history>>

EndOfFile ==
  /\ status = "reading"
  /\ status' = "reported"
  /\ report' = calcStats
  /\ asked' = <<>> /\ UNCHANGED <<l1, l2, counters, history>>

SimNext == \/ \E op \in Ops, a \in Addrs : Access(op, a)
           \/ Start
           \/ Reject
           \/ EndOfFile

SimSpec == SimInit /\ [][SimNext]_simVars

-----------------------------------------------------------------------------
(* The average that is printed is the cycles the accesses took, level by   *)
(* level, divided by their number: the product of the two miss rates in    *)
(* calcStats is the rate of memory accesses, also when a divisor is 0.     *)
AvgTimeIsTheMean ==
  status = "reported" /\ L1count > 0 =>
    Same(report.avgTime, <<cycles, L1count>>)

(* A block that L2 has fetched misses L2 again only if more blocks than L2 *)
(* has ways were fetched into its set: no victim is chosen while a way is  *)
(* free and no way is ever wasted (isFree, newBlock, setInvalid).          *)
OnlyConflictsRefetch ==
  \A b \in again :
    Cardinality({x \in fetched : x % L2Sets = b % L2Sets}) > L2Ways
=============================================================================
