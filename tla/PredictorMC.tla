----------------------------- MODULE PredictorMC -----------------------------
(* Two branches that contend for a row, one that has the row and the tag   *)
(* of the first and differs in the shared middle bits and in the target,   *)
(* and one in another row at the end of memory.                            *)
EXTENDS PredictorHistory
MCBranches == {[pc |-> 0, target |-> 100], [pc |-> 8, target |-> 200],
               [pc |-> 65536, target |-> 300], [pc |-> 131068, target |-> 0]}
MCConfigs ==
  {c \in [isGlobalHist : BOOLEAN, isGlobalTable : BOOLEAN,
          Shared : {"no", "lsb", "mid"}, fsmState : {1}] :
     CASE c.Shared = "no"  -> TRUE
       [] c.Shared = "lsb" -> c.isGlobalTable /\ c.isGlobalHist
       [] c.Shared = "mid" -> c.isGlobalTable /\ ~c.isGlobalHist}
=============================================================================
