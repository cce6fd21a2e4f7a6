----------------------------- MODULE DflowGraph -----------------------------
(***************************************************************************)
(* What the answers of the dataflow calculator should be by dflow_calc.h:  *)
(* longest paths in the graph in which an instruction depends on the last  *)
(* writers of its sources, or on the entry.  The graph is a relation over  *)
(* the whole program and a path an enumeration of sets; neither knows the  *)
(* loop of analyzeProg.                                                    *)
(***************************************************************************)
EXTENDS DflowMain

CONSTANT MaxInsts  \* bound of the model: the instructions of a program

ASSUME GraphAssumption == MaxInsts \in Nat

GraphSpec == Init /\ [][Next /\ lineNum' <= MaxInsts]_mainVars

-----------------------------------------------------------------------------
Writers(k, r) == {j \in 0 .. k - 1 : prog[j].dst = r}

(* Which instruction the source r of instruction k depends on, -1 for the  *)
(* entry: for every register that nobody wrote.                            *)
Source(k, r) == Max({-1} \cup Writers(k, r))

Sources(k) == {Source(k, prog[k].src1), Source(k, prog[k].src2)} \ {-1}

(* A path is a set of instructions of which each but the first depends on  *)
(* the one before it, and ends a latency after that one.                   *)
Before(s, k) == {j \in s : j < k}

Path(s) == \A k \in s : Before(s, k) # {} => Max(Before(s, k)) \in Sources(k)

Lat(k) == opsLatency[prog[k].opcode]

End(s) ==
  LET end[k \in s] == IF Before(s, k) = {} THEN Lat(k)
                      ELSE end[Max(Before(s, k))] + Lat(k)
  IN  end

PathsTo(k) == {s \in SUBSET (0 .. k) : k \in s /\ Path(s)}
Longest(k) == Max({End(s)[k] : s \in PathsTo(k)})

(* An instruction that reads no register but 0 before it is written, and a *)
(* program of such ones.                                                   *)
ReadsWritten(k) ==
  \A r \in {prog[k].src1, prog[k].src2} : r = 0 \/ Writers(k, r) # {}

ReadsWhatIsWritten == \A k \in Insts : ReadsWritten(k)

Analyzed == phase = "queries"

-----------------------------------------------------------------------------
(* The depth of an instruction is the time of a longest path to it without *)
(* its own latency, at every turn of the loop, if all that it depends on,  *)
(* near or far, reads what is written, whatever the rest of the program    *)
(* reads, and instruction 0, which has nothing before it (one pass of      *)
(* analyzeProg suffices as sources are earlier; getInstDepth).             *)
DepthIsLongestPath ==
  phase \in {"analysis", "queries"} =>
    \A k \in 0 .. i - 1 :
      (\A j \in UNION PathsTo(k) : j = 0 \/ ReadsWritten(j)) =>
        getInstDepth(k) = Longest(k) - Lat(k)

(* All the answers are those that dflow_calc.h documents for a program     *)
(* that reads no register but 0 before it is written: the last writers, -1 *)
(* for the entry, depth 0 behind the entry, and the longest execution path *)
(* (dstHelp, entry_, exit_ and dur_ together).                             *)
AsDocumented ==
  Analyzed /\ ReadsWhatIsWritten =>
    /\ \A k \in Insts :
         /\ getInstDeps(k) = <<Source(k, prog[k].src1), Source(k, prog[k].src2)>>
         /\ getInstDeps(k) = <<-1, -1>> => getInstDepth(k) = 0
    /\ getProgDepth = Max({Longest(k) : k \in Insts})

(* The answer for any program is its longest path from entry to exit ("Get *)
(* the longest execution path of this program (from Entry to Exit)"), also *)
(* where it reads registers that nobody wrote (getProgDepth).              *)
ProgDepthIsLongest ==
  Analyzed => getProgDepth = Max({Longest(k) : k \in Insts})
=============================================================================
