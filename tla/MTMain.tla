------------------------------- MODULE MTMain -------------------------------
(***************************************************************************)
(* hw4/main.c: the blocked simulation and then the fine-grained one on the *)
(* same image, with the reports through CORE_*_CTX and CORE_*_CPI, which   *)
(* also frees the simulation.  The two objects are never alive together,   *)
(* so the variables of MTCore are those of the one that is.                *)
(***************************************************************************)
EXTENDS MTCore

VARIABLES phase,   \* of main: the simulations run, all is reported, or
                   \* the image could not be loaded
          shown,   \* the contexts reported for each of the two
          cycles,  \* the fraction behind each reported CPI
          freed,   \* the contexts that block left in memory when freed
          reused   \* whether grain was allocated in the place of block
mainVars == <<coreVars, phase, shown, cycles, freed, reused>>

(* main returns 2 before it makes anything if SIM_MemReset fails; what the *)
(* other variables hold does not matter then.                              *)
MainInit ==
  /\ image \in Images
  /\ NewMT("blocked") /\ reg = NewContexts /\ data = image.data
  /\ phase \in {"running", "failed"}
  /\ shown = [m \in Modes |-> NewContexts] /\ cycles = [m \in Modes |-> <<0, 0>>]
  /\ freed = NewContexts /\ reused = FALSE

-----------------------------------------------------------------------------
Simulate ==
  /\ phase = "running"
  /\ CoreNext
  /\ UNCHANGED <<phase, shown, cycles, freed, reused>>

Finished(m) == phase = "running" /\ mode = m /\ ~thread_active

(* Mutant: the second simulation starts with the contexts of the first.    *)
ReportBlockedKeep ==
  /\ Finished("blocked")
  /\ shown'  = [shown EXCEPT !["blocked"] = reg]
  /\ cycles' = [cycles EXCEPT !["blocked"] = <<clck, inst>>]
  /\ freed'  = reg
  /\ reused' \in BOOLEAN
  /\ mode' = "grained" /\ thread' = FirstThread("grained")
  /\ clck' = 0 /\ inst' = 0 /\ sw' = FALSE
  /\ thread_inst' = Zeros /\ thread_halt' = Zeros
  /\ UNCHANGED <<image, reg, data, phase>>

(* The contexts and the CPI of the blocked simulation; its object is freed *)
(* and the fine-grained one allocated.  The allocator may give it the same *)
(* place.  The data memory stays as the first simulation left it.          *)
ReportBlocked ==
  /\ Finished("blocked")
  /\ shown'  = [shown EXCEPT !["blocked"] = reg]
  /\ cycles' = [cycles EXCEPT !["blocked"] = <<clck, inst>>]
  /\ freed'  = reg
  /\ reused' \in BOOLEAN
  /\ mode' = "grained" /\ thread' = FirstThread("grained")
  /\ clck' = 0 /\ inst' = 0 /\ sw' = FALSE
  /\ thread_inst' = Zeros /\ thread_halt' = Zeros
  /\ reg' = NewContexts
  /\ UNCHANGED <<image, data, phase>>

(* CORE_FinegrainedMT_CTX reads through block, the pointer to the freed    *)
(* object: it finds grain there, or else what block left behind (free runs *)
(* no destructor, the contexts themselves stay allocated).                 *)
ReportGrained ==
  /\ Finished("grained")
  /\ shown'  = [shown EXCEPT !["grained"] = IF reused THEN reg ELSE freed]
  /\ cycles' = [cycles EXCEPT !["grained"] = <<clck, inst>>]
  /\ phase'  = "done"
  /\ UNCHANGED <<coreVars, freed, reused>>

MainNext == Simulate \/ ReportBlocked \/ ReportGrained

MainSpec == MainInit /\ [][MainNext]_mainVars /\ WF_mainVars(MainNext)

-----------------------------------------------------------------------------
Uses(opcode) ==
  \E t \in Threads : \E k \in DOMAIN image.prog[t] :
    image.prog[t][k].opcode = opcode

(* Where no thread stores, or none loads, the order of the threads cannot  *)
(* matter: both simulations end with the same registers.  The second one   *)
(* starts with contexts of its own, and only the memory connects it to the *)
(* first (CORE_FinegrainedMT after CORE_BlockedMT in main).                *)
PoliciesAgree ==
  phase = "done" /\ ~(Uses("LOAD") /\ Uses("STORE")) => reg = shown["blocked"]

(* A program alone takes the same cycles under both policies: the switch   *)
(* event that each of its waits raises finds no other thread, stays up and *)
(* is never paid for, however long the program (pick_thread, thread_fix).  *)
AloneNoDifference ==
  phase = "done" /\ ThreadNum = 1 => cycles["grained"] = cycles["blocked"]

(* main comes to its end: both loops end, one after the other, or there is *)
(* no image to run them on.                                                *)
MainEnds == <>(phase \in {"done", "failed"})

(* The contexts reported for the fine-grained simulation are those of its  *)
(* threads ("Get thread register file through the context pointer").       *)
GrainedReportIsItsOwn ==
  phase = "done" => shown["grained"] = reg
=============================================================================
