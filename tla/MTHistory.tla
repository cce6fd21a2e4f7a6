----------------------------- MODULE MTHistory -----------------------------
(***************************************************************************)
(* The multithreaded core with history variables that measure it against   *)
(* the clock: when a wait ends, how often a ready thread was passed over,  *)
(* and what the instructions so far may have cost.                         *)
(***************************************************************************)
EXTENDS MTScheduler

VARIABLES until,     \* for each thread, the clock at the end of its wait
          passed,    \* instructions issued since a ready thread last ran
          latencies, \* the latencies of all LOADs and STOREs in sum
          events     \* the number of LOADs, STOREs and HALTs
measures == <<until, passed, latencies, events>>
allVars  == <<schedVars, measures>>

HistoryInit ==
  /\ Init
  /\ until = [t \in Threads |-> 0] /\ passed = [t \in Threads |-> 0]
  /\ latencies = 0 /\ events = 0

Passed(t) ==
  passed' = [x \in Threads |-> IF x # t /\ Ready(x) THEN passed[x] + 1 ELSE 0]

Waiting(t, latency) ==
  /\ until' = [until EXCEPT ![t] = clck' + latency]
  /\ latencies' = latencies + latency
  /\ events' = events + 1

Measured(t) ==
  /\ Passed(t)
  /\ \/ Compute(t) /\ UNCHANGED <<until, latencies, events>>
     \/ Load(t) /\ Waiting(t, image.load)
     \/ Store(t) /\ Waiting(t, image.store)
     \/ Halt(t) /\ events' = events + 1 /\ UNCHANGED <<until, latencies>>

HistoryNext ==
  \/ Idle /\ UNCHANGED measures
  \/ thread_active /\ \E t \in Threads : Measured(t)

HistorySpec == HistoryInit /\ [][HistoryNext]_allVars

FairHistorySpec == HistorySpec /\ WF_allVars(HistoryNext)

-----------------------------------------------------------------------------
(* The timer of a thread is the time to the end of its wait: neither the   *)
(* turn that starts it nor the cycles of a switch are counted twice or not *)
(* at all ("including this clock cycle" in op, update_halt in pick_thread).*)
TimersTellTime ==
  \A t \in Threads :
    thread_halt[t] = IF until[t] > clck THEN until[t] - clck ELSE 0

(* Round robin: the fine-grained loop passes over a ready thread at most   *)
(* once for each other thread (pick_thread with start = 1).                *)
NobodyStarves ==
  mode = "grained" => \A t \in Threads : passed[t] < ThreadNum

(* No cycle is lost: the clock is at most the instructions, the latencies  *)
(* one after the other, and for the blocked loop one switch for each event *)
(* that can cause one.  get_CPI divides this clock by the instructions.    *)
ClockIsAccounted ==
  clck <= inst + latencies
            + IF mode = "blocked" THEN image.switch * events ELSE 0
=============================================================================
