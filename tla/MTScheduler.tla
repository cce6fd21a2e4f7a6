---------------------------- MODULE MTScheduler ----------------------------
(***************************************************************************)
(* Class MT of hw4/core_api.cpp and the two loops that drive it,           *)
(* CORE_BlockedMT and CORE_FinegrainedMT, as far as time and choice of the *)
(* thread go.  Programs have no branches, so neither depends on data; what *)
(* the instructions compute is in MTCore, which contains this module.      *)
(* One step is one turn of the while loop: pick_thread, op, update_halt.   *)
(***************************************************************************)
EXTENDS Integers, Sequences, FiniteSetsExt

CONSTANTS ThreadNum,    \* N of the image file
          Instructions, \* what a program can consist of
          Images        \* the image files: programs and the L, S and O lines

Threads == 0 .. ThreadNum - 1

Opcodes == {"NOP", "ADD", "SUB", "ADDI", "SUBI", "LOAD", "STORE", "HALT"}

(* The loader leaves unread memory behind a program, so one that does not  *)
(* end in HALT runs on into it: the images are those with programs that do.*)
WellFormed(p) == Len(p) > 0 /\ p[Len(p)].opcode = "HALT"

Image(im) ==
  /\ im.load \in Nat /\ im.store \in Nat /\ im.switch \in Nat
  /\ im.prog \in [Threads -> Seq(Instructions)]
  /\ \A t \in Threads : WellFormed(im.prog[t])

ASSUME SchedulerAssumption ==
  /\ ThreadNum \in Nat \ {0}
  /\ \A i \in Instructions : i.opcode \in Opcodes
  /\ \A im \in Images : Image(im)

VARIABLES image,        \* what SIM_MemReset loaded
          mode,         \* which of the two loops runs: blocked or grained
          thread, clck, inst, sw, thread_inst, thread_halt
sched == <<thread, clck, inst, sw, thread_inst, thread_halt>>
schedVars == <<image, mode, sched>>

Modes == {"blocked", "grained"}

(* new MT(), and thread_fix of the fine-grained loop.                      *)
FirstThread(m) == IF m = "grained" THEN -1 ELSE 0
Zeros == [t \in Threads |-> 0]

NewMT(m) ==
  /\ mode = m /\ thread = FirstThread(m)
  /\ clck = 0 /\ inst = 0 /\ sw = FALSE
  /\ thread_inst = Zeros /\ thread_halt = Zeros

Init == image \in Images /\ \E m \in Modes : NewMT(m)

-----------------------------------------------------------------------------
thread_active == \E t \in Threads : thread_inst[t] > -1

Ready(t) == thread_inst[t] > -1 /\ thread_halt[t] = 0

(* Mutants: both loops search from the current thread; from the next one.  *)
startHere == 0
startNext == 1

(* pick_thread searches from the current thread in the blocked loop, from  *)
(* the next one in the fine-grained loop, and takes the first ready one.   *)
start == IF mode = "blocked" THEN 0 ELSE 1
Offsets == {i \in start .. ThreadNum + start - 1 :
              Ready((thread + i) % ThreadNum)}
Picked == (thread + Min(Offsets)) % ThreadNum

(* Mutants: any change of thread is a switch; any switch event is.         *)
AnyChange == thread # Picked
AnyEvent  == sw

(* The switch event is paid for, and over, only when the thread changes.   *)
Switches == sw /\ thread # Picked
Penalty  == IF Switches THEN image.switch ELSE 0

(* n calls of update_halt.                                                 *)
CountDown(halt, n) ==
  [t \in Threads |-> IF halt[t] > n THEN halt[t] - n ELSE 0]

Fetch(t) == image.prog[t][thread_inst[t] + 1]

(* Pick a thread and let it go one instruction on, with one of opcodes ops.*)
Issue(t, ops) ==
  /\ Offsets # {} /\ t = Picked
  /\ Fetch(t).opcode \in ops
  /\ thread' = t
  /\ clck' = clck + Penalty + 1
  /\ inst' = inst + 1
  /\ UNCHANGED <<image, mode>>

Compute(t) ==
  /\ Issue(t, {"NOP", "ADD", "SUB", "ADDI", "SUBI"})
  /\ thread_inst' = [thread_inst EXCEPT ![t] = @ + 1]
  /\ thread_halt' = CountDown(thread_halt, Penalty + 1)
  /\ sw' = (sw /\ ~Switches)

(* Mutant: the timer leaves out this cycle.                                *)
WaitShort(t, latency) ==
  /\ thread_inst' = [thread_inst EXCEPT ![t] = @ + 1]
  /\ thread_halt' = CountDown([CountDown(thread_halt, Penalty)
                                 EXCEPT ![t] = latency], 1)
  /\ sw' = (mode = "blocked")

(* LOAD and STORE: idle for the latency, this cycle included in the timer; *)
(* sw_penalty makes it a switch event in the blocked loop.                 *)
Wait(t, latency) ==
  /\ thread_inst' = [thread_inst EXCEPT ![t] = @ + 1]
  /\ thread_halt' = CountDown([CountDown(thread_halt, Penalty)
                                 EXCEPT ![t] = latency + 1], 1)
  /\ sw' = (mode = "blocked")

Load(t)  == Issue(t, {"LOAD"}) /\ Wait(t, image.load)
Store(t) == Issue(t, {"STORE"}) /\ Wait(t, image.store)

(* Mutants: HALT as any other instruction, and without the switch event.   *)
HaltGoesOn(t) ==
  /\ Issue(t, {"HALT"})
  /\ thread_inst' = [thread_inst EXCEPT ![t] = @ + 1]
  /\ thread_halt' = CountDown(thread_halt, Penalty + 1)
  /\ sw' = (mode = "blocked")

HaltQuietly(t) ==
  /\ Issue(t, {"HALT"})
  /\ thread_inst' = [thread_inst EXCEPT ![t] = -1]
  /\ thread_halt' = CountDown(thread_halt, Penalty + 1)
  /\ sw' = (sw /\ ~Switches)

Halt(t) ==
  /\ Issue(t, {"HALT"})
  /\ thread_inst' = [thread_inst EXCEPT ![t] = -1]
  /\ thread_halt' = CountDown(thread_halt, Penalty + 1)
  /\ sw' = (mode = "blocked")

(* Mutant: the loop goes round without a tick.                             *)
IdleForever == thread_active /\ Offsets = {} /\ UNCHANGED schedVars

(* No thread is ready: the clock only.                                     *)
Idle ==
  /\ thread_active /\ Offsets = {}
  /\ clck' = clck + 1
  /\ thread_halt' = CountDown(thread_halt, 1)
  /\ UNCHANGED <<image, mode, thread, inst, sw, thread_inst>>

Step(t) == thread_active /\ (Compute(t) \/ Load(t) \/ Store(t) \/ Halt(t))

Next == Idle \/ \E t \in Threads : Step(t)

Spec == Init /\ [][Next]_schedVars

-----------------------------------------------------------------------------
(* The program counter of an active thread is inside its program, in       *)
(* particular after the HALT of another thread: op reads no instruction    *)
(* behind the end (SIM_MemInstRead checks nothing).                        *)
TypeOK ==
  /\ image \in Images /\ mode \in Modes
  /\ thread \in -1 .. ThreadNum - 1
  /\ thread = -1 => mode = "grained" /\ inst = 0
  /\ clck \in Nat /\ inst \in Nat /\ sw \in BOOLEAN
  /\ thread_halt \in [Threads -> Nat]
  /\ DOMAIN thread_inst = Threads
  /\ \A t \in Threads : thread_inst[t] \in -1 .. Len(image.prog[t]) - 1

(* In the blocked loop a thread that cannot go on has raised the switch    *)
(* event, so that no change of thread is free of charge.  The event may    *)
(* also be stale: it stays up when the same thread is ready again first.   *)
BlockedRaisesSwitch ==
  mode = "blocked" /\ thread_active /\ ~Ready(thread) => sw

(* Every change of thread in the blocked loop costs the switch cycles, and *)
(* nothing does in the fine-grained one (pick_thread, "Used in blocking MT *)
(* only").                                                                 *)
SwitchIsPaid ==
  [][clck' = clck + 1 + IF mode = "blocked" /\ thread' # thread
                        THEN image.switch ELSE 0]_sched

(* The blocked loop leaves a thread only when it waits or has halted.      *)
SwitchOnlyWhenBlocked ==
  [][mode = "blocked" /\ thread' # thread => ~Ready(thread)]_sched

(* Every program comes to its end under both policies.                     *)
Termination == <>(~thread_active)
=============================================================================
