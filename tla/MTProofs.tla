------------------------------ MODULE MTProofs ------------------------------
(***************************************************************************)
(* The invariants of the multithreaded core, proved for all numbers of     *)
(* threads, all programs and all latencies.                                *)
(***************************************************************************)
EXTENDS MTHistory, Extremes

N == ThreadNum

-----------------------------------------------------------------------------
(* The ring of threads.                                                    *)

(* The place of thread t in the search of pick_thread.                     *)
Turn(t) == IF t - thread >= start THEN t - thread ELSE t - thread + N

LEMMA Remainder ==
  ASSUME NEW n \in Nat \ {0}, NEW y \in Int
  PROVE  /\ y % n \in 0 .. n - 1
         /\ \A u \in 0 .. n - 1 : y = u \/ y = u + n => y % n = u
<1>1. y % n \in 0 .. n - 1
  OBVIOUS
<1>2. ASSUME NEW u \in 0 .. n - 1, y = u
      PROVE  y % n = u
  BY <1>2
<1>3. ASSUME NEW u \in 0 .. n - 1, y = u + n
      PROVE  y % n = u
  BY <1>3
<1> QED  BY <1>1, <1>2, <1>3

LEMMA Constants == N \in Nat \ {0} /\ Threads = 0 .. N - 1
BY SchedulerAssumption DEF N, Threads

(* Where the search can start.                                             *)
Searching ==
  /\ thread \in -1 .. N - 1
  /\ start \in {0, 1}
  /\ thread = -1 => start = 1

LEMMA SearchTypes == TypeOK => Searching
BY Constants DEF TypeOK, Searching, start, N

(* The search comes to every thread, at its turn.                          *)
LEMMA TurnIsOffset ==
  ASSUME Searching, NEW t \in Threads
  PROVE  /\ Turn(t) \in start .. N + start - 1
         /\ (thread + Turn(t)) % N = t
<1>1. N \in Nat \ {0} /\ t \in 0 .. N - 1
  BY Constants
<1> HIDE DEF N, start
<1>2. Turn(t) \in start .. N + start - 1
  BY <1>1 DEF Turn, Searching
<1>3. thread + Turn(t) = t \/ thread + Turn(t) = t + N
  BY <1>1 DEF Turn, Searching
<1> DEFINE y == thread + Turn(t)
<1>4. y \in Int
  BY <1>1, <1>2 DEF Searching
<1>5. y = t \/ y = t + N
  BY <1>3
<1> HIDE DEF y
<1>6. y % N = t
  BY <1>1, <1>4, <1>5, Remainder
<1> QED  BY <1>2, <1>6 DEF y

(* What it finds at an offset is a thread.                                 *)
LEMMA AtOffset ==
  ASSUME Searching, NEW i \in Int
  PROVE  (thread + i) % N \in Threads
<1>1. N \in Nat \ {0} /\ thread + i \in Int
  BY Constants DEF Searching
<1> QED  BY <1>1, Constants, Remainder

(* pick_thread takes the ready thread whose turn is first.                 *)
LEMMA FirstInTurn ==
  ASSUME Searching, Offsets # {}
  PROVE  /\ Picked \in Threads /\ Ready(Picked)
         /\ \A t \in Threads : Ready(t) => Turn(Picked) <= Turn(t)
<1> DEFINE n == N + 1
<1>1. N \in Nat \ {0} /\ n \in Nat
  BY Constants
<1>2. Offsets \in SUBSET (0 .. n - 1)
  BY <1>1 DEF Offsets, Searching, N
<1> HIDE DEF n
<1>3. Min(Offsets) \in Offsets /\ \A i \in Offsets : Min(Offsets) <= i
  BY <1>1, <1>2, LeastAndGreatest
<1> DEFINE m == Min(Offsets)
<1>4. m \in start .. N + start - 1 /\ Ready((thread + m) % N) /\ m \in Int
  BY <1>1, <1>3 DEF Offsets, N, Searching
<1>5. Picked = (thread + m) % N
  BY DEF Picked, N
<1> HIDE DEF m
<1>6. Picked \in Threads /\ Ready(Picked)
  BY <1>4, <1>5, AtOffset
<1>7. ASSUME NEW t \in Threads, Ready(t)
      PROVE  m <= Turn(t)
  <2>1. Turn(t) \in Offsets
    BY <1>7, TurnIsOffset DEF Offsets, N
  <2> QED  BY <2>1, <1>3 DEF m
<1>8. Turn(Picked) = m
  <2>1. m <= Turn(Picked)
    BY <1>6, <1>7
  <2>2. Turn(Picked) \in start .. N + start - 1
        /\ (thread + Turn(Picked)) % N = Picked
    BY <1>6, TurnIsOffset
  <2>3. CASE m = Turn(Picked)
    BY <2>3
  <2>4. CASE m < Turn(Picked)
    <3>1. thread + m \in Int /\ thread + m \in 0 .. 2 * N - 1
      BY <1>1, <1>4 DEF Searching
    <3> DEFINE y == thread + m
    <3> HIDE DEF y
    <3>2. \E u \in 0 .. N - 1 : y = u \/ y = u + N
      <4>1. y \in 0 .. N - 1 \/ y - N \in 0 .. N - 1
        BY <1>1, <3>1 DEF y
      <4>2. y = y - N + N
        BY <1>1, <3>1 DEF y
      <4> QED  BY <4>1, <4>2
    <3>3. PICK u \in 0 .. N - 1 : y = u \/ y = u + N
      BY <3>2
    <3>4. y % N = u
      BY <1>1, <3>1, <3>3, Remainder DEF y
    <3>5. Picked = y \/ Picked = y - N
      <4>1. Picked = u
        BY <1>5, <3>4 DEF y
      <4>2. y \in Int /\ (u = y \/ u = y - N)
        BY <1>1, <3>1, <3>3 DEF y
      <4> QED  BY <4>1, <4>2
    <3> USE DEF y
    <3> QED  BY <1>1, <1>4, <1>6, <2>2, <2>4, <3>5, Constants DEF Turn, Searching
  <2> QED  BY <1>4, <2>1, <2>2, <2>3, <2>4, <1>1 DEF Searching
<1> QED  BY <1>6, <1>7, <1>8

(* Nobody is found only where nobody is ready.                             *)
LEMMA NobodyReady ==
  ASSUME Searching, Offsets = {}, NEW t \in Threads
  PROVE  ~Ready(t)
BY TurnIsOffset DEF Offsets, N

-----------------------------------------------------------------------------
(* What a step does, in numbers.                                           *)

Less(h, n) == IF h > n THEN h - n ELSE 0

Types ==
  /\ TypeOK
  /\ until \in [Threads -> Nat] /\ passed \in [Threads -> Nat]
  /\ latencies \in Nat /\ events \in Nat

(* The parts of a step that all instructions have in common.               *)
Issued(t) ==
  /\ t = Picked /\ Offsets # {}
  /\ thread' = t /\ clck' = clck + Penalty + 1 /\ inst' = inst + 1
  /\ image' = image /\ mode' = mode
  /\ DOMAIN thread_inst' = Threads /\ thread_halt' \in [Threads -> Nat]
  /\ \A u \in Threads \ {t} :
       /\ thread_inst'[u] = thread_inst[u]
       /\ thread_halt'[u] = Less(thread_halt[u], Penalty + 1)
  /\ passed' = [u \in Threads |->
                  IF u # t /\ Ready(u) THEN passed[u] + 1 ELSE 0]

Computed(t) ==
  /\ thread_inst'[t] = thread_inst[t] + 1
  /\ thread_inst'[t] \in 0 .. Len(image.prog[t]) - 1
  /\ thread_halt'[t] = 0
  /\ sw' = (sw /\ ~Switches)
  /\ until' = until /\ latencies' = latencies /\ events' = events

Waited(t) == \E latency \in Nat :
  /\ thread_inst'[t] = thread_inst[t] + 1
  /\ thread_inst'[t] \in 0 .. Len(image.prog[t]) - 1
  /\ thread_halt'[t] = latency
  /\ sw' = (mode = "blocked")
  /\ until' = [until EXCEPT ![t] = clck' + latency]
  /\ latencies' = latencies + latency /\ events' = events + 1

Halted(t) ==
  /\ thread_inst'[t] = -1
  /\ thread_halt'[t] = 0
  /\ sw' = (mode = "blocked")
  /\ until' = until /\ latencies' = latencies /\ events' = events + 1

LEMMA ImageTypes ==
  ASSUME TypeOK
  PROVE  /\ image.load \in Nat /\ image.store \in Nat /\ image.switch \in Nat
         /\ \A t \in Threads :
              /\ Len(image.prog[t]) \in Nat \ {0}
              /\ image.prog[t][Len(image.prog[t])].opcode = "HALT"
<1>1. Image(image)
  BY SchedulerAssumption DEF TypeOK
<1>2. ASSUME NEW t \in Threads
      PROVE  /\ Len(image.prog[t]) \in Nat \ {0}
             /\ image.prog[t][Len(image.prog[t])].opcode = "HALT"
  <2>1. image.prog[t] \in Seq(Instructions) /\ WellFormed(image.prog[t])
    BY <1>1 DEF Image
  <2> QED  BY <2>1 DEF WellFormed
<1> QED  BY <1>1, <1>2 DEF Image

LEMMA PenaltyType ==
  ASSUME TypeOK
  PROVE  Penalty \in Nat
BY ImageTypes DEF Penalty

(* An instruction that is not HALT is not the last one.                    *)
LEMMA NotLast ==
  ASSUME TypeOK, NEW t \in Threads, Ready(t), Fetch(t).opcode # "HALT"
  PROVE  thread_inst[t] + 1 \in 0 .. Len(image.prog[t]) - 1
<1>1. thread_inst[t] \in 0 .. Len(image.prog[t]) - 1
  BY ImageTypes DEF TypeOK, Ready
<1>2. thread_inst[t] + 1 # Len(image.prog[t])
  BY ImageTypes DEF Fetch
<1> QED  BY <1>1, <1>2, ImageTypes

LEMMA Down ==
  ASSUME NEW h \in [Threads -> Nat], NEW n \in Nat
  PROVE  /\ CountDown(h, n) \in [Threads -> Nat]
         /\ \A t \in Threads : CountDown(h, n)[t] = Less(h[t], n)
BY DEF CountDown, Less

LEMMA LessTwice ==
  ASSUME NEW h \in Nat, NEW n \in Nat
  PROVE  /\ Less(h, n) \in Nat
         /\ Less(Less(h, n), 1) = Less(h, n + 1)
BY DEF Less

LEMMA Stepped ==
  ASSUME Types, thread_active, NEW t \in Threads, Measured(t)
  PROVE  /\ Ready(t) /\ Issued(t)
         /\ Computed(t) \/ Waited(t) \/ Halted(t)
<1>1. t = Picked /\ Offsets # {}
  BY DEF Measured, Compute, Load, Store, Halt, Issue
<1>2. Ready(t)
  BY <1>1, SearchTypes, FirstInTurn DEF Types
<1> DEFINE P == Penalty
<1>3. P \in Nat /\ P + 1 \in Nat /\ thread_halt \in [Threads -> Nat]
  BY PenaltyType DEF Types, TypeOK
<1> HIDE DEF P
<1>4. thread_halt[t] = 0 /\ DOMAIN thread_inst = Threads
  BY <1>2 DEF Ready, Types, TypeOK
<1>5. /\ thread' = t /\ clck' = clck + Penalty + 1 /\ inst' = inst + 1
      /\ image' = image /\ mode' = mode
      /\ passed' = [u \in Threads |->
                     IF u # t /\ Ready(u) THEN passed[u] + 1 ELSE 0]
  BY DEF Measured, Compute, Load, Store, Halt, Issue, Passed
<1>6. ASSUME thread_halt' = CountDown(thread_halt, P + 1)
      PROVE  /\ thread_halt' \in [Threads -> Nat] /\ thread_halt'[t] = 0
             /\ \A u \in Threads : thread_halt'[u] = Less(thread_halt[u], P + 1)
  BY <1>3, <1>4, <1>6, Down DEF Less
<1>7. CASE Compute(t) /\ UNCHANGED <<until, latencies, events>>
  <2>1. Fetch(t).opcode # "HALT"
    BY <1>7 DEF Compute, Issue
  <2>2. /\ thread_inst' = [thread_inst EXCEPT ![t] = @ + 1]
        /\ thread_halt' = CountDown(thread_halt, P + 1)
        /\ sw' = (sw /\ ~Switches)
    BY <1>7 DEF Compute, P
  <2>3. thread_inst'[t] \in 0 .. Len(image.prog[t]) - 1
    BY <1>2, <1>4, <2>1, <2>2, NotLast DEF Types
  <2>4. Computed(t)
    BY <1>4, <1>6, <1>7, <2>2, <2>3 DEF Computed
  <2>5. Issued(t)
    BY <1>1, <1>4, <1>5, <1>6, <2>2 DEF Issued, P
  <2> QED  BY <1>2, <2>4, <2>5
<1>8. ASSUME NEW latency \in Nat, Wait(t, latency), Waiting(t, latency),
             Fetch(t).opcode # "HALT"
      PROVE  Issued(t) /\ Waited(t)
  <2>1. thread_inst' = [thread_inst EXCEPT ![t] = @ + 1]
    BY <1>8 DEF Wait
  <2>2. thread_inst'[t] \in 0 .. Len(image.prog[t]) - 1
    BY <1>2, <1>4, <1>8, <2>1, NotLast DEF Types
  <2> DEFINE h == CountDown(thread_halt, P)
             g == [h EXCEPT ![t] = latency + 1]
  <2>3. h \in [Threads -> Nat]
        /\ \A u \in Threads : h[u] = Less(thread_halt[u], P)
    BY <1>3, Down
  <2>4. thread_halt' = CountDown(g, 1)
    BY <1>8 DEF Wait, P
  <2> HIDE DEF h
  <2>5. g \in [Threads -> Nat]
    BY <1>8, <2>3
  <2>6. g[t] = latency + 1 /\ \A u \in Threads \ {t} : g[u] = h[u]
    BY <2>3
  <2> HIDE DEF g
  <2>7. thread_halt' \in [Threads -> Nat]
        /\ \A u \in Threads : thread_halt'[u] = Less(g[u], 1)
    BY <2>4, <2>5, Down
  <2>8. thread_halt'[t] = latency
    BY <1>8, <2>6, <2>7 DEF Less
  <2>9. ASSUME NEW u \in Threads \ {t}
        PROVE  thread_halt'[u] = Less(thread_halt[u], P + 1)
    <3>1. thread_halt[u] \in Nat
      BY <1>3
    <3>2. thread_halt'[u] = Less(Less(thread_halt[u], P), 1)
      BY <2>3, <2>6, <2>7
    <3>3. Less(Less(thread_halt[u], P), 1) = Less(thread_halt[u], P + 1)
      BY <1>3, <3>1, LessTwice
    <3> QED  BY <3>2, <3>3
  <2>10. Waited(t)
    BY <1>4, <1>8, <2>1, <2>2, <2>8 DEF Waited, Wait, Waiting
  <2>11. Issued(t)
    BY <1>1, <1>4, <1>5, <2>1, <2>7, <2>9 DEF Issued, P
  <2> QED  BY <2>10, <2>11
<1>9. CASE Load(t) /\ Waiting(t, image.load)
  BY <1>2, <1>8, <1>9, ImageTypes DEF Load, Issue, Types
<1>10. CASE Store(t) /\ Waiting(t, image.store)
  BY <1>2, <1>8, <1>10, ImageTypes DEF Store, Issue, Types
<1>11. CASE Halt(t) /\ events' = events + 1 /\ UNCHANGED <<until, latencies>>
  <2>1. /\ thread_inst' = [thread_inst EXCEPT ![t] = -1]
        /\ thread_halt' = CountDown(thread_halt, P + 1)
        /\ sw' = (mode = "blocked")
    BY <1>11 DEF Halt, P
  <2>2. Halted(t)
    BY <1>4, <1>6, <1>11, <2>1 DEF Halted
  <2>3. Issued(t)
    BY <1>1, <1>4, <1>5, <1>6, <2>1 DEF Issued, P
  <2> QED  BY <1>2, <2>2, <2>3
<1> QED  BY <1>7, <1>9, <1>10, <1>11 DEF Measured

-----------------------------------------------------------------------------
(* The inductive invariant.                                                *)

SwitchRaised ==
  /\ mode = "blocked" => Ready(thread) \/ sw
  /\ mode = "grained" => ~sw

(* A ready thread was passed over only by threads whose turn came before.  *)
TurnsKept ==
  mode = "grained" => \A t \in Threads :
    IF Ready(t) THEN passed[t] + Turn(t) <= N ELSE passed[t] = 0

(* Even if the longest wait and the pending switch were over, the clock    *)
(* would be accounted for.                                                 *)
Pending == IF mode = "blocked" /\ sw THEN image.switch ELSE 0
Budget  == inst + latencies
             + IF mode = "blocked" THEN image.switch * events ELSE 0
Paid == \A t \in Threads : clck + thread_halt[t] + Pending <= Budget

IInv == Types /\ SwitchRaised /\ TimersTellTime /\ TurnsKept /\ Paid

LEMMA Initially == HistoryInit => IInv
<1> SUFFICES ASSUME HistoryInit PROVE IInv
  OBVIOUS
<1> USE DEF HistoryInit, Init, NewMT
<1>1. N \in Nat \ {0} /\ Threads = 0 .. N - 1
  BY Constants
<1>2. \A t \in Threads : /\ thread_inst[t] = 0 /\ thread_halt[t] = 0
                         /\ passed[t] = 0 /\ until[t] = 0
  BY DEF Zeros
<1>3. Types
  <2>1. image \in Images /\ mode \in Modes
    OBVIOUS
  <2>2. \A t \in Threads : Len(image.prog[t]) \in Nat \ {0}
    <3>1. Image(image)
      BY <2>1, SchedulerAssumption
    <3>2. ASSUME NEW t \in Threads
          PROVE  Len(image.prog[t]) \in Nat \ {0}
      <4>1. image.prog[t] \in Seq(Instructions) /\ WellFormed(image.prog[t])
        BY <3>1 DEF Image
      <4> QED  BY <4>1 DEF WellFormed
    <3> QED  BY <3>2
  <2>3. thread \in -1 .. N - 1 /\ (thread = -1 => mode = "grained" /\ inst = 0)
    BY <1>1 DEF FirstThread
  <2>4. \A t \in Threads : thread_inst[t] \in -1 .. Len(image.prog[t]) - 1
    BY <1>2, <2>2
  <2>5. /\ thread_halt \in [Threads -> Nat] /\ DOMAIN thread_inst = Threads
        /\ until \in [Threads -> Nat] /\ passed \in [Threads -> Nat]
    BY DEF Zeros
  <2>6. clck \in Nat /\ inst \in Nat /\ latencies \in Nat /\ events \in Nat
    OBVIOUS
  <2>7. sw \in BOOLEAN
    OBVIOUS
  <2> HIDE DEF HistoryInit, Init, NewMT
  <2> QED  BY <2>1, <2>3, <2>4, <2>5, <2>6, <2>7 DEF Types, TypeOK, N
<1>4. SwitchRaised
  <2>1. mode = "blocked" => thread \in Threads
    BY <1>1 DEF FirstThread
  <2>2. ~sw
    OBVIOUS
  <2> QED  BY <1>2, <2>1, <2>2 DEF SwitchRaised, Ready
<1>5. TimersTellTime
  BY <1>2 DEF TimersTellTime
<1>6. TurnsKept
  <2> SUFFICES ASSUME mode = "grained", NEW t \in Threads
               PROVE  Ready(t) /\ passed[t] + Turn(t) <= N
    BY DEF TurnsKept
  <2>1. Turn(t) \in start .. N + start - 1 /\ start = 1
    BY <1>3, SearchTypes, TurnIsOffset DEF Types, start
  <2> QED  BY <1>1, <1>2, <2>1 DEF Ready
<1>7. Paid
  <2>1. Pending = 0
    BY DEF Pending
  <2>2. Budget = 0
    <3>1. image.switch * 0 = 0
      BY <1>3, ImageTypes DEF Types
    <3> QED  BY <3>1 DEF Budget
  <2> QED  BY <1>2, <2>1, <2>2 DEF Paid
<1> QED  BY <1>3, <1>4, <1>5, <1>6, <1>7 DEF IInv

(* In the blocked loop a ready thread goes on.                             *)
LEMMA StaysOnReady ==
  ASSUME TypeOK, mode = "blocked", Offsets # {}, Ready(thread)
  PROVE  Picked = thread
<1>1. N \in Nat \ {0} /\ Threads = 0 .. N - 1 /\ start = 0 /\ Searching
  BY Constants, SearchTypes DEF start
<1>2. thread \in Threads
  BY <1>1 DEF Searching
<1>3. Turn(thread) = 0
  BY <1>1, <1>2 DEF Turn
<1>4. Picked \in Threads /\ Turn(Picked) <= Turn(thread)
  BY <1>1, <1>2, FirstInTurn
<1> HIDE DEF Picked
<1> QED  BY <1>1, <1>2, <1>3, <1>4 DEF Turn

(* Then a change of thread is always a paid one.                           *)
LEMMA Charged ==
  ASSUME TypeOK, SwitchRaised, Offsets # {}
  PROVE  /\ Switches <=> mode = "blocked" /\ thread # Picked
         /\ mode = "blocked" /\ thread # Picked => ~Ready(thread)
<1>1. mode = "blocked" /\ thread # Picked => ~Ready(thread)
  BY StaysOnReady
<1>2. mode \in {"blocked", "grained"}
  BY DEF TypeOK, Modes
<1> QED  BY <1>1, <1>2 DEF SwitchRaised, Switches

LEMMA StepTypes ==
  ASSUME Types, NEW t \in Threads, Issued(t),
         Computed(t) \/ Waited(t) \/ Halted(t)
  PROVE  Types'
<1>1. passed' \in [Threads -> Nat]
  <2>1. \A u \in Threads : passed[u] + 1 \in Nat
    BY DEF Types
  <2>2. \A u \in Threads :
          (IF u # t /\ Ready(u) THEN passed[u] + 1 ELSE 0) \in Nat
    BY <2>1
  <2> QED  BY <2>2 DEF Issued
<1> USE DEF Types, TypeOK, Issued
<1>2. Penalty \in Nat /\ t \in 0 .. N - 1 /\ N \in Nat
  BY PenaltyType, Constants
<1>3. sw' \in BOOLEAN
  BY Zenon DEF Computed, Waited, Halted
<1>4. \A u \in Threads : thread_inst'[u] \in -1 .. Len(image'.prog[u]) - 1
  <2>1. \A u \in Threads : Len(image.prog[u]) \in Nat \ {0}
    BY ImageTypes
  <2>2. thread_inst'[t] \in -1 .. Len(image.prog[t]) - 1
    <3>1. CASE Computed(t)
      BY <2>1, <3>1 DEF Computed
    <3>2. CASE Waited(t)
      <4>1. thread_inst'[t] \in 0 .. Len(image.prog[t]) - 1
        BY <3>2 DEF Waited
      <4> QED  BY <2>1, <4>1
    <3>3. CASE Halted(t)
      BY <2>1, <3>3 DEF Halted
    <3> QED  BY <3>1, <3>2, <3>3
  <2> QED  BY <2>2
<1>5. clck' \in Nat /\ inst' \in Nat
  BY <1>2
<1>6. until' \in [Threads -> Nat] /\ latencies' \in Nat /\ events' \in Nat
  <2>1. CASE Computed(t)
    BY <2>1 DEF Computed
  <2>2. CASE Waited(t)
    <3>1. PICK latency \in Nat :
            /\ until' = [until EXCEPT ![t] = clck' + latency]
            /\ latencies' = latencies + latency /\ events' = events + 1
      BY <2>2 DEF Waited
    <3>2. clck' + latency \in Nat
      BY <1>5
    <3>3. until' \in [Threads -> Nat]
      BY <3>1, <3>2
    <3> QED  BY <3>1, <3>3
  <2>3. CASE Halted(t)
    BY <2>3 DEF Halted
  <2> QED  BY <2>1, <2>2, <2>3
<1>7. thread' \in -1 .. ThreadNum - 1 /\ thread' # -1
  BY <1>2 DEF N
<1> QED  BY <1>3, <1>4, <1>5, <1>1, <1>6, <1>7

LEMMA StepSwitchRaised ==
  ASSUME Types, SwitchRaised, NEW t \in Threads, Ready(t), Issued(t),
         Computed(t) \/ Waited(t) \/ Halted(t)
  PROVE  SwitchRaised'
<1>1. mode' = mode /\ thread' = t
  BY DEF Issued
<1>2. CASE Computed(t)
  <2>1. Ready(t)'
    BY <1>2 DEF Computed, Ready, Types, TypeOK
  <2>2. mode = "grained" => ~sw'
    BY <1>2 DEF Computed, SwitchRaised
  <2> QED  BY <1>1, <2>1, <2>2 DEF SwitchRaised, Ready
<1>3. CASE sw' = (mode = "blocked")
  BY <1>1, <1>3 DEF SwitchRaised
<1> QED  BY <1>2, <1>3 DEF Waited, Halted

LEMMA StepTimers ==
  ASSUME Types, TimersTellTime, NEW t \in Threads, Ready(t), Issued(t),
         Computed(t) \/ Waited(t) \/ Halted(t)
  PROVE  TimersTellTime'
<1> DEFINE P == Penalty
<1>1. P \in Nat /\ clck \in Nat /\ clck' = clck + P + 1
  BY PenaltyType DEF Types, TypeOK, Issued
<1> HIDE DEF P
<1>2. ASSUME NEW u \in Threads \ {t}
      PROVE  thread_halt'[u] = IF until[u] > clck' THEN until[u] - clck' ELSE 0
  <2>1. thread_halt'[u] = Less(thread_halt[u], P + 1)
    BY DEF Issued, P
  <2>2. thread_halt[u] = IF until[u] > clck THEN until[u] - clck ELSE 0
    BY DEF TimersTellTime
  <2>3. until[u] \in Nat
    BY DEF Types
  <2> QED  BY <1>1, <2>1, <2>2, <2>3 DEF Less
<1>3. ASSUME until' = until, thread_halt'[t] = 0
      PROVE  TimersTellTime'
  <2>1. until[t] <= clck /\ until[t] \in Nat
    BY <1>1 DEF TimersTellTime, Ready, Types
  <2>2. thread_halt'[t] = IF until[t] > clck' THEN until[t] - clck' ELSE 0
    BY <1>1, <1>3, <2>1
  <2> QED  BY <1>2, <1>3, <2>2 DEF TimersTellTime
<1>4. CASE Waited(t)
  <2>1. PICK latency \in Nat :
          thread_halt'[t] = latency
          /\ until' = [until EXCEPT ![t] = clck' + latency]
    BY <1>4 DEF Waited
  <2>2. until'[t] = clck' + latency
        /\ \A u \in Threads \ {t} : until'[u] = until[u]
    BY <2>1 DEF Types
  <2>3. thread_halt'[t] = IF until'[t] > clck' THEN until'[t] - clck' ELSE 0
    BY <1>1, <2>1, <2>2
  <2> QED  BY <1>2, <2>2, <2>3 DEF TimersTellTime
<1> QED  BY <1>3, <1>4 DEF Computed, Halted

(* After the turn of thread p, the turn of every other comes earlier.      *)
LEMMA NextTurn ==
  ASSUME NEW n \in Nat \ {0}, NEW r \in -1 .. n - 1,
         NEW p \in 0 .. n - 1, NEW u \in 0 .. n - 1, u # p,
         NEW tp \in 1 .. n, NEW tu \in 1 .. n,
         tp = IF p - r >= 1 THEN p - r ELSE p - r + n,
         tu = IF u - r >= 1 THEN u - r ELSE u - r + n,
         tp <= tu
  PROVE  (IF u - p >= 1 THEN u - p ELSE u - p + n) + 1 <= tu
OBVIOUS

LEMMA StepTurns ==
  ASSUME Types, TurnsKept, NEW t \in Threads, Ready(t), Issued(t),
         Computed(t) \/ Waited(t) \/ Halted(t)
  PROVE  TurnsKept'
<1> SUFFICES ASSUME mode = "grained", NEW u \in Threads
             PROVE  IF Ready(u)' THEN passed'[u] + Turn(u)' <= N
                    ELSE passed'[u] = 0
  BY DEF TurnsKept, Issued, N
<1>1. N \in Nat \ {0} /\ Threads = 0 .. N - 1 /\ start = 1 /\ Searching
  BY Constants, SearchTypes DEF start, Types
<1>2. /\ passed'[u] = IF u # t /\ Ready(u) THEN passed[u] + 1 ELSE 0
      /\ thread' = t /\ mode' = mode
  BY DEF Issued
<1>3. Turn(u)' = IF u - t >= 1 THEN u - t ELSE u - t + N
  BY <1>2 DEF Turn, start, N
<1>4. CASE u = t \/ ~Ready(u)
  <2>1. passed'[u] = 0
    BY <1>2, <1>4
  <2>2. (IF u - t >= 1 THEN u - t ELSE u - t + N) <= N
    BY <1>1
  <2>3. 0 + Turn(u)' <= N
    BY <1>1, <1>3, <2>2
  <2> QED  BY <2>1, <2>3
<1>5. CASE u # t /\ Ready(u)
  <2>1. Ready(u)'
    <3>1. thread_inst'[u] = thread_inst[u]
          /\ thread_halt'[u] = Less(thread_halt[u], Penalty + 1)
      BY <1>5 DEF Issued
    <3>2. Penalty \in Nat
      BY PenaltyType DEF Types
    <3> QED  BY <1>5, <3>1, <3>2 DEF Ready, Less
  <2>2. passed[u] + Turn(u) <= N /\ passed[u] \in Nat
    BY <1>5 DEF TurnsKept, Types
  <2>3. t = Picked /\ Turn(t) <= Turn(u)
    BY <1>1, <1>5, FirstInTurn DEF Issued
  <2>4. Turn(t) \in 1 .. N /\ Turn(u) \in 1 .. N
    BY <1>1, TurnIsOffset
  <2>5. thread \in -1 .. N - 1
    BY <1>1 DEF Searching
  <2> DEFINE tt == Turn(t)
             tu == Turn(u)
             next == IF u - t >= 1 THEN u - t ELSE u - t + N
  <2>6. /\ tt = IF t - thread >= 1 THEN t - thread ELSE t - thread + N
        /\ tu = IF u - thread >= 1 THEN u - thread ELSE u - thread + N
    BY <1>1 DEF Turn
  <2>7. tt \in 1 .. N /\ tu \in 1 .. N /\ tt <= tu
    BY <2>3, <2>4
  <2> HIDE DEF tt, tu
  <2>8. next + 1 <= tu
    BY <1>1, <1>5, <2>5, <2>6, <2>7, NextTurn
  <2>9. next \in Int
    BY <1>1
  <2> HIDE DEF next
  <2>10. passed[u] + 1 + next <= N
    <3>1. passed[u] + tu <= N /\ passed[u] \in Nat /\ tu \in Int /\ N \in Nat
      BY <1>1, <2>2, <2>7 DEF tu
    <3> QED  BY <2>8, <2>9, <3>1
  <2>11. Turn(u)' = next
    BY <1>3 DEF next
  <2> QED  BY <1>2, <1>5, <2>1, <2>10, <2>11
<1> QED  BY <1>4, <1>5

LEMMA OneMore ==
  ASSUME NEW s \in Nat, NEW e \in Nat
  PROVE  s * e \in Nat /\ s * (e + 1) = s * e + s
OBVIOUS

LEMMA BudgetTypes ==
  ASSUME Types
  PROVE  /\ clck \in Nat /\ inst \in Nat /\ latencies \in Nat
         /\ Pending \in Nat /\ Budget \in Nat
         /\ image.switch * events \in Nat
         /\ image.switch * (events + 1) = image.switch * events + image.switch
<1>1. image.switch \in Nat /\ events \in Nat
  BY ImageTypes DEF Types
<1>2. image.switch * events \in Nat
  BY <1>1, OneMore
<1>3. image.switch * (events + 1) = image.switch * events + image.switch
  BY <1>1, OneMore
<1>4. Pending \in Nat
  BY <1>1 DEF Pending
<1>5. Budget \in Nat
  BY <1>2 DEF Budget, Types, TypeOK
<1> QED  BY <1>2, <1>3, <1>4, <1>5 DEF Types, TypeOK

(* What is pending at a switch event, and what each turn adds to the       *)
(* budget and pays of it.                                                  *)
Raised == IF mode = "blocked" THEN image.switch ELSE 0

LEMMA Payment ==
  ASSUME Types, SwitchRaised, NEW t \in Threads, Issued(t)
  PROVE  /\ Penalty \in Nat /\ Raised \in Nat /\ Penalty <= Pending
         /\ Computed(t) => Pending' = Pending - Penalty /\ Budget' = Budget + 1
         /\ Waited(t) =>
              /\ Pending' = Raised
              /\ \E latency \in Nat :
                   /\ thread_halt'[t] = latency
                   /\ Budget' = Budget + 1 + latency + Raised
         /\ Halted(t) => Pending' = Raised /\ Budget' = Budget + 1 + Raised
<1>1. image.switch \in Nat /\ image' = image /\ mode' = mode /\ inst' = inst + 1
  BY ImageTypes DEF Types, Issued
<1>2. Switches => mode = "blocked" /\ sw
  BY Charged DEF Issued, Types, Switches
<1>3. Penalty = (IF Switches THEN image.switch ELSE 0) /\ Penalty \in Nat
  BY PenaltyType DEF Penalty, Types
<1> HIDE DEF Switches, Penalty
<1>4. Penalty <= Pending
  BY <1>1, <1>2, <1>3 DEF Pending
<1>5. ASSUME Computed(t)
      PROVE  Pending' = Pending - Penalty /\ Budget' = Budget + 1
  <2>1. sw' <=> sw /\ ~Switches
    BY <1>5 DEF Computed
  <2>2. Pending' = IF mode = "blocked" /\ sw /\ ~Switches THEN image.switch ELSE 0
    BY <1>1, <2>1 DEF Pending
  <2>3. Pending' = Pending - Penalty
    BY <1>1, <1>2, <1>3, <2>2 DEF Pending
  <2>4. Budget' = Budget + 1
    <3>1. events' = events /\ latencies' = latencies
      BY <1>5 DEF Computed
    <3> QED  BY <1>1, <3>1, BudgetTypes DEF Budget
  <2> QED  BY <2>3, <2>4
<1>6. ASSUME sw' = (mode = "blocked")
      PROVE  Pending' = Raised
  BY <1>1, <1>6 DEF Pending, Raised
<1>7. ASSUME NEW latency \in Nat,
             events' = events + 1, latencies' = latencies + latency
      PROVE  Budget' = Budget + 1 + latency + Raised
  BY <1>1, <1>7, BudgetTypes DEF Budget, Raised
<1>8. Waited(t) => \E latency \in Nat :
        thread_halt'[t] = latency /\ Budget' = Budget + 1 + latency + Raised
  BY <1>7 DEF Waited
<1>9. Halted(t) => Budget' = Budget + 1 + Raised
  <2>1. Budget \in Nat /\ latencies \in Nat /\ Raised \in Nat
    BY <1>1, BudgetTypes DEF Raised
  <2>2. Halted(t) => events' = events + 1 /\ latencies' = latencies + 0
    BY <2>1 DEF Halted
  <2>3. Halted(t) => Budget' = Budget + 1 + 0 + Raised
    BY <1>7, <2>2
  <2> QED  BY <2>1, <2>3
<1> QED  BY <1>1, <1>3, <1>4, <1>5, <1>6, <1>8, <1>9 DEF Waited, Halted, Raised

LEMMA StepPaid ==
  ASSUME Types, SwitchRaised, Paid, NEW t \in Threads, Ready(t), Issued(t),
         Computed(t) \/ Waited(t) \/ Halted(t)
  PROVE  Paid'
<1> SUFFICES ASSUME NEW u \in Threads
             PROVE  clck' + thread_halt'[u] + Pending' <= Budget'
  BY DEF Paid
<1> DEFINE P == Penalty
           h == thread_halt[u]
           k == thread_halt'[u]
<1>1. /\ clck \in Nat /\ Pending \in Nat /\ Budget \in Nat /\ P \in Nat
      /\ Raised \in Nat /\ P <= Pending /\ clck' = clck + P + 1
  BY BudgetTypes, Payment DEF Issued
<1>2. h \in Nat /\ clck + h + Pending <= Budget
  BY DEF Paid, Types, TypeOK
<1>3. clck + Pending <= Budget
  BY <1>1, <1>2
<1>4. u # t => k = IF h > P + 1 THEN h - (P + 1) ELSE 0
  BY DEF Issued, Less
<1> HIDE DEF P, h, k
<1>5. CASE Computed(t)
  <2>1. Pending' = Pending - P /\ Budget' = Budget + 1
    BY <1>5, Payment DEF P
  <2>2. u = t => k = 0
    BY <1>5 DEF Computed, k
  <2>3. clck' + k + Pending' <= Budget'
    BY <1>1, <1>2, <1>3, <1>4, <2>1, <2>2
  <2> QED  BY <2>3 DEF k
<1>6. ASSUME NEW latency \in Nat, u = t => k = latency,
             Pending' = Raised, Budget' = Budget + 1 + latency + Raised
      PROVE  clck' + k + Pending' <= Budget'
  <2>1. CASE u = t
    BY <1>1, <1>3, <1>6, <2>1
  <2>2. CASE u # t
    BY <1>1, <1>2, <1>3, <1>4, <1>6, <2>2
  <2> QED  BY <2>1, <2>2
<1>7. CASE Waited(t)
  <2>1. PICK latency \in Nat :
          thread_halt'[t] = latency /\ Budget' = Budget + 1 + latency + Raised
    BY <1>7, Payment
  <2>2. Pending' = Raised
    BY <1>7, Payment
  <2> QED  BY <1>6, <2>1, <2>2 DEF k
<1>8. CASE Halted(t)
  <2>1. Pending' = Raised /\ Budget' = Budget + 1 + 0 + Raised
    BY <1>1, <1>8, Payment
  <2>2. u = t => k = 0
    BY <1>8 DEF Halted, k
  <2> QED  BY <1>6, <2>1, <2>2 DEF k
<1> QED  BY <1>5, <1>7, <1>8

-----------------------------------------------------------------------------
(* A turn in which nobody is ready.                                        *)
Idled ==
  /\ \A t \in Threads : ~Ready(t)
  /\ \E t \in Threads : thread_halt[t] > 0
  /\ clck' = clck + 1
  /\ thread_halt' \in [Threads -> Nat]
  /\ \A t \in Threads : thread_halt'[t] = Less(thread_halt[t], 1)
  /\ UNCHANGED <<image, mode, thread, inst, sw, thread_inst, measures>>

LEMMA IdleTurn ==
  ASSUME Types, Idle, UNCHANGED measures
  PROVE  Idled
<1>1. \A t \in Threads : ~Ready(t)
  BY SearchTypes, NobodyReady DEF Types, Idle
<1>2. \E t \in Threads : thread_halt[t] > 0
  BY <1>1 DEF Idle, thread_active, Ready, Types, TypeOK
<1>3. thread_halt \in [Threads -> Nat] /\ thread_halt' = CountDown(thread_halt, 1)
  BY DEF Idle, Types, TypeOK
<1> QED  BY <1>1, <1>2, <1>3, Down DEF Idled, Idle

LEMMA IdleKeeps ==
  ASSUME IInv, Idled
  PROVE  IInv'
<1> USE DEF Idled, measures
<1>1. Types'
  BY DEF IInv, Types, TypeOK
<1>2. SwitchRaised'
  <2>1. mode \in {"blocked", "grained"} /\ thread \in -1 .. N - 1
    BY DEF IInv, Types, TypeOK, Modes, N
  <2>2. mode = "blocked" => thread \in Threads
    BY <2>1, Constants DEF IInv, Types, TypeOK
  <2>3. mode = "blocked" => sw
    BY <2>2 DEF IInv, SwitchRaised
  <2> QED  BY <2>1, <2>3 DEF IInv, SwitchRaised
<1>3. TimersTellTime'
  <2> SUFFICES ASSUME NEW t \in Threads
               PROVE  thread_halt'[t] =
                        IF until'[t] > clck' THEN until'[t] - clck' ELSE 0
    BY DEF TimersTellTime
  <2>1. until[t] \in Nat /\ clck \in Nat
    BY DEF IInv, Types, TypeOK
  <2>2. thread_halt[t] = IF until[t] > clck THEN until[t] - clck ELSE 0
    BY DEF IInv, TimersTellTime
  <2> QED  BY <2>1, <2>2 DEF Less
<1>4. TurnsKept'
  <2> SUFFICES ASSUME mode = "grained", NEW t \in Threads
               PROVE  passed'[t] = 0 /\ 0 + Turn(t)' <= N
    BY DEF TurnsKept, N
  <2>1. passed'[t] = 0
    BY DEF IInv, TurnsKept
  <2>2. Turn(t)' = Turn(t)
    BY DEF Turn, start, N
  <2>3. Turn(t) \in start .. N + start - 1 /\ start = 1 /\ N \in Nat
    BY SearchTypes, TurnIsOffset, Constants DEF IInv, Types, start
  <2> QED  BY <2>1, <2>2, <2>3
<1>5. Paid'
  <2> SUFFICES ASSUME NEW t \in Threads
               PROVE  clck' + thread_halt'[t] + Pending' <= Budget'
    BY DEF Paid
  <2>1. Pending' = Pending /\ Budget' = Budget
    BY DEF Pending, Budget
  <2>2. clck \in Nat /\ Pending \in Nat /\ Budget \in Nat
    BY BudgetTypes DEF IInv
  <2>3. PICK u \in Threads : thread_halt[u] > 0
    OBVIOUS
  <2>4. thread_halt[u] \in Nat /\ thread_halt[t] \in Nat
    BY DEF IInv, Types, TypeOK
  <2>5. /\ clck + thread_halt[u] + Pending <= Budget
        /\ clck + thread_halt[t] + Pending <= Budget
    BY DEF IInv, Paid
  <2>6. clck + 1 + Pending <= Budget
    BY <2>2, <2>3, <2>4, <2>5
  <2>7. thread_halt'[t] = IF thread_halt[t] > 1 THEN thread_halt[t] - 1 ELSE 0
    BY DEF Less
  <2> DEFINE h == thread_halt[t]
  <2>8. clck + 1 + (IF h > 1 THEN h - 1 ELSE 0) + Pending <= Budget
    BY <2>2, <2>4, <2>5, <2>6
  <2> QED  BY <2>1, <2>7, <2>8
<1> QED  BY <1>1, <1>2, <1>3, <1>4, <1>5 DEF IInv

LEMMA Inductive == IInv /\ [HistoryNext]_allVars => IInv'
<1> SUFFICES ASSUME IInv, [HistoryNext]_allVars PROVE IInv'
  OBVIOUS
<1>1. CASE Idle /\ UNCHANGED measures
  BY <1>1, IdleTurn, IdleKeeps DEF IInv
<1>2. ASSUME thread_active, NEW t \in Threads, Measured(t)
      PROVE  IInv'
  <2>1. Ready(t) /\ Issued(t) /\ (Computed(t) \/ Waited(t) \/ Halted(t))
    BY <1>2, Stepped DEF IInv
  <2> HIDE DEF IInv
  <2>2. Types /\ SwitchRaised /\ TimersTellTime /\ TurnsKept /\ Paid
    BY DEF IInv
  <2>3. Types'
    BY <2>1, <2>2, StepTypes
  <2>4. SwitchRaised'
    BY <2>1, <2>2, StepSwitchRaised
  <2>5. TimersTellTime'
    BY <2>1, <2>2, StepTimers
  <2>6. TurnsKept'
    BY <2>1, <2>2, StepTurns
  <2>7. Paid'
    BY <2>1, <2>2, StepPaid
  <2> QED  BY <2>3, <2>4, <2>5, <2>6, <2>7 DEF IInv
<1>3. CASE UNCHANGED allVars
  <2> USE DEF allVars, schedVars, sched, measures
  <2>1. Types' = Types
    BY <1>3 DEF Types, TypeOK
  <2>2. \A t \in Threads : (Ready(t)' <=> Ready(t)) /\ Turn(t)' = Turn(t)
    BY <1>3 DEF Ready, Turn, start, N
  <2>3. SwitchRaised'
    BY <1>3 DEF IInv, SwitchRaised, Ready
  <2>4. TimersTellTime'
    BY <1>3 DEF IInv, TimersTellTime
  <2>5. TurnsKept'
    <3>1. mode' = mode /\ passed' = passed
      BY <1>3
    <3> HIDE DEF allVars, schedVars, sched, measures
    <3> SUFFICES ASSUME mode = "grained", NEW t \in Threads
                 PROVE  IF Ready(t)' THEN passed'[t] + Turn(t)' <= N
                        ELSE passed'[t] = 0
      BY <3>1 DEF TurnsKept, N
    <3>2. IF Ready(t) THEN passed[t] + Turn(t) <= N ELSE passed[t] = 0
      BY DEF IInv, TurnsKept
    <3> QED  BY <2>2, <3>1, <3>2
  <2>6. Paid'
    BY <1>3 DEF IInv, Paid, Pending, Budget
  <2> QED  BY <2>1, <2>3, <2>4, <2>5, <2>6 DEF IInv
<1> QED  BY <1>1, <1>2, <1>3 DEF HistoryNext

LEMMA Invariant == HistorySpec => []IInv
BY Initially, Inductive, PTL DEF HistorySpec

-----------------------------------------------------------------------------
(* The program counters stay inside of the programs, for every image with  *)
(* a HALT at the end of each: op never reads behind an end.                *)
THEOREM TypeCorrect == HistorySpec => []TypeOK
<1>1. IInv => TypeOK
  BY DEF IInv, Types
<1> QED  BY <1>1, Invariant, PTL

(* A thread that cannot go on has raised the switch event.                 *)
THEOREM SwitchAlwaysRaised == HistorySpec => []BlockedRaisesSwitch
<1>1. IInv => BlockedRaisesSwitch
  BY DEF IInv, SwitchRaised, BlockedRaisesSwitch
<1> QED  BY <1>1, Invariant, PTL

(* The timers agree with the clock, whatever the switches cost.            *)
THEOREM TimersRight == HistorySpec => []TimersTellTime
<1>1. IInv => TimersTellTime
  BY DEF IInv
<1> QED  BY <1>1, Invariant, PTL

(* The fine-grained loop is fair: N - 1 instructions of others at most.    *)
THEOREM RoundRobin == HistorySpec => []NobodyStarves
<1>1. IInv => NobodyStarves
  <2> SUFFICES ASSUME IInv, mode = "grained", NEW t \in Threads
               PROVE  passed[t] < N
    BY DEF NobodyStarves, N
  <2>1. Turn(t) \in start .. N + start - 1 /\ start = 1 /\ N \in Nat \ {0}
    BY SearchTypes, TurnIsOffset, Constants DEF IInv, Types, start
  <2>2. passed[t] \in Nat
    BY DEF IInv, Types
  <2>3. IF Ready(t) THEN passed[t] + Turn(t) <= N ELSE passed[t] = 0
    BY DEF IInv, TurnsKept
  <2> QED  BY <2>1, <2>2, <2>3
<1> QED  BY <1>1, Invariant, PTL

(* No cycle on the clock is without an instruction, a latency or a switch  *)
(* event to account for it.                                                *)
THEOREM ClockAccounted == HistorySpec => []ClockIsAccounted
<1>1. IInv => ClockIsAccounted
  <2> SUFFICES ASSUME IInv PROVE clck <= Budget
    BY DEF ClockIsAccounted, Budget
  <2>1. 0 \in Threads
    BY Constants
  <2>2. clck + thread_halt[0] + Pending <= Budget /\ thread_halt[0] \in Nat
    BY <2>1 DEF IInv, Paid, Types, TypeOK
  <2> QED  BY <2>2, BudgetTypes DEF IInv
<1> QED  BY <1>1, Invariant, PTL

(* Every change of thread in the blocked loop costs the switch cycles, and *)
(* no other step does: the switch event is up whenever the thread changes. *)
THEOREM EverySwitchIsPaid == HistorySpec => SwitchIsPaid
<1>1. IInv /\ [HistoryNext]_allVars =>
        [clck' = clck + 1 + IF mode = "blocked" /\ thread' # thread
                            THEN image.switch ELSE 0]_sched
  <2> SUFFICES ASSUME IInv, [HistoryNext]_allVars, ~UNCHANGED sched
               PROVE  clck' = clck + 1 + IF mode = "blocked" /\ thread' # thread
                                         THEN image.switch ELSE 0
    OBVIOUS
  <2>1. clck \in Nat /\ image.switch \in Nat
    BY ImageTypes, BudgetTypes DEF IInv, Types
  <2>2. CASE Idle
    BY <2>1, <2>2 DEF Idle
  <2>3. ASSUME thread_active, NEW t \in Threads, Measured(t)
        PROVE  clck' = clck + 1 + IF mode = "blocked" /\ thread' # thread
                                  THEN image.switch ELSE 0
    <3>1. Issued(t)
      BY <2>3, Stepped DEF IInv
    <3>2. Switches <=> mode = "blocked" /\ thread # t
      BY <3>1, Charged DEF Issued, IInv, Types
    <3> QED  BY <2>1, <3>1, <3>2 DEF Issued, Penalty
  <2> QED  BY <2>2, <2>3 DEF HistoryNext, allVars, schedVars
<1> QED  BY <1>1, Invariant, PTL DEF HistorySpec, SwitchIsPaid

(* The blocked loop changes the thread only when the current one waits or  *)
(* has halted.                                                             *)
THEOREM SwitchesOnlyWhenBlocked == HistorySpec => SwitchOnlyWhenBlocked
<1>1. IInv /\ [HistoryNext]_allVars =>
        [mode = "blocked" /\ thread' # thread => ~Ready(thread)]_sched
  <2> SUFFICES ASSUME IInv, [HistoryNext]_allVars, ~UNCHANGED sched,
                      mode = "blocked", thread' # thread
               PROVE  ~Ready(thread)
    OBVIOUS
  <2>1. ~Idle
    BY DEF Idle
  <2>2. ASSUME thread_active, NEW t \in Threads, Measured(t)
        PROVE  ~Ready(thread)
    <3>1. Issued(t)
      BY <2>2, Stepped DEF IInv
    <3> QED  BY <3>1, Charged DEF Issued, IInv, Types
  <2> QED  BY <2>1, <2>2 DEF HistoryNext, allVars, schedVars
<1> QED  BY <1>1, Invariant, PTL DEF HistorySpec, SwitchOnlyWhenBlocked
=============================================================================
