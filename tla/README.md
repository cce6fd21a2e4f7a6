# A verification project for the four computer-architecture simulators

The repository holds four independent simulators, homework of the course
046267: a branch predictor (`src/hw1`), a two-level cache (`src/hw2`), a
dataflow calculator (`src/HW3`) and a multithreaded core (`src/hw4`).  They
share no code, are sequential programs, and read their input from a file.  What
makes them hard to test is not concurrency but state that drifts: an age, a
timer, a pending switch event or a dirty bit that is wrong by one step long
before an output shows it.

## 1. Inventory

| Part | State | Operations | Interacts with |
|---|---|---|---|
| hw2 `Cache`, `Block` (cacheSim.h) | for each set and way: valid, dirty, address, tag, age | isBlock, isDirty, isFree, updateLRU, setDirty, writeBlock, setInvalid, chooseVictim, newBlock | called by `System` |
| hw2 `System` (cacheSim.cpp) | L1, L2, three counters, latencies | runCommand (one line of the trace), calcStats | L1 and L2 through write-back and snoop |
| hw2 `main` | position in the trace | read a line, reject it, report at the end | calls `System` |
| hw4 `MT` (core_api.cpp) | thread, clck, inst, sw, and for each thread the next instruction, the timer and the registers | thread_active, pick_thread, op, update_halt, get_context, get_CPI | reads programs, data memory and latencies of sim_api |
| hw4 loops and API (core_api.cpp) | the pointers block and grain | CORE_BlockedMT, CORE_FinegrainedMT, the _CTX and _CPI functions | two `MT` objects one after the other |
| hw4 sim_api.c | instructions, data memory, latencies, number of threads | SIM_MemReset, reads, write, getters | the data memory is shared by threads and by both simulations |
| hw4 `main` | the two register files shown | both simulations in order, reports, frees | core_api, sim_api |
| hw1 `BTB` (bp.cpp) | rows with tag, target and history; counters; global history and table; statistics | BP_init, BP_predict, BP_update, BP_GetStats | called by bp_main for each line of the trace |
| HW3 dflow_calc.cpp | dependencies, durations and exits of instructions | analyzeProg and three queries | called by dflow_main |
| HW3 dflow_main.c | latencies, program buffer | readOpsLatency, readProgram, the loop over the queries | dflow_calc |
| test inputs, reference outputs, scripts | none | none | run the four programs |

What is hard, and what makes each part correct:

* **Cache hierarchy.** A miss is a chain of up to eight calls on two caches
  (snoop, eviction, allocation, write-back, allocation), and `runCommand`
  calls `writeBlock` and `setInvalid` without a search, trusting that L1 is
  contained in L2 and that the address stored with a block leads back to it.
  The ages must stay a permutation, as `chooseVictim` searches for one value
  and returns nothing when no block has it.  Correct means: L1 is contained in
  L2, a block is in one way only, the victim is the least recently used
  block, and no write gets lost between the levels.
* **Multithreaded core.** The timers of all the threads, the clock and the
  pending switch event advance together, in two loops that share the code.
  Correct means: the threads compute what some interleaving of their programs
  computes, a timer is the time to the end of the wait, each switch is paid
  for once, every ready thread gets its turn, and the loops end.
* **Driver of the core.** The two simulations share the data memory, and the
  reports come from objects that are freed in between.
* **Loader.** The segments of an image are parsed by nested loops that share
  the line buffer: a loop that meets a line of another one has consumed it.
* **Branch predictor.** Local or global history and counters, tags that
  alias, a row that changes its branch while its counters are in use.
* **Dataflow calculator.** One pass over the program stands for longest paths
  in the graph of dependencies.

`PROJECT.json` lists the hazards with their lines and the properties that
cover them.

## 2. Plan

Order of the modules, the most important behaviour first:

1. hw2: `Cache` (operators), `CacheHierarchy` (actions), `CacheHistory`
   (history variables), `LruStore` (abstract specification of a level) and
   `CacheLru` (L2 implements it), `CacheSim` (statistics and trace loop).
   *Done.*
2. hw4: `MTScheduler` (time and choice of thread), `MTHistory` (measures),
   `MTCore` (registers and memory), `Interleaving` (abstract instruction-set
   machine), `MTMain` (both simulations and the reports).  *Done.*
3. Proofs of the cache: `CacheLemmas`, `CacheHierarchyProofs`, and of the
   scheduler: `Extremes`, `MTProofs`.  *Done.*
4. hw1: `BranchPredictor` (the tables), `PredictorHistory` (the log of the
   trace and the definition of a two-level predictor over it).  *Done.*
5. hw4: `ImageLoader`, the nested loops of `SIM_MemReset` over an abstract
   stream of lines, and `ImageHistory`, what the file says as a whole.  *Done.*
6. HW3: `Dataflow` (the loop of `analyzeProg`), `DflowMain` (both files and the
   calls of main), `DflowGraph` (longest paths in the graph of dependencies).
   *Done.*
7. Proofs of the dataflow calculator: `DflowProofs`.  *Done.*
8. Proofs of the history properties and of the refinements: in
   `CacheHierarchyProofs` the writes, the order of use, the statistics and
   `LruStore`; `MTCoreProofs`, the core implements `Interleaving` and the two
   simulations of main agree; `ImageProofs`; `PredictorProofs`.  *Done.*
9. The proofs that ask for an induction of their own: `SizeIsRight`, which
   counts the histories of each width, and `LoadsTheImage`, which follows the
   loader through the beginnings of a well-formed file.  *Done.*

## 3. The cache simulator (hw2)

### Modules

* **`Cache`** is class Cache.  A cache is a value: a function from set and way
  to a block `[valid, dirty, addr, tag, lru]`.  Each method is an operator with
  the geometry `g` (sets and ways) and the cache as arguments, so that L1 and
  L2 are two values of one module.  `bitExt` becomes division and remainder;
  sizes that are powers of two in the code are any positive numbers here.
  `chooseVictim` becomes the *set* `Victims` of what it can return: the
  address of the block of age ways-1 or, when there is none and the function
  falls off its end, any address of the trace.  (An address outside of the
  trace finds no block, as some address of `Addrs` does in the cases that
  matter.)  `updateLRU` without a match writes through an uninitialised
  pointer; its operator has no value there, and every run would stop with an
  error.  `Inclusion` is why none does.
* **`CacheHierarchy`** is `System` with one action for each path of
  `runCommand`: `HitL1`, `HitL2`, `WriteAround`, `MissFree`, `MissEvict`.  Each
  is the whole call: what the search in L2 leaves behind is handed to `FillL1`,
  the tail of `runCommand`.
* **`CacheHistory`** adds two history variables the program does not have:
  `unsaved`, the blocks written in a cache and not yet saved to memory, and
  `used`, which of two blocks of L1 was used later, as a set of pairs.
* **`CacheLru`** adds `asked`, what a command asks of L2: the block that
  missed L1 and then the dirty block that L1 gives back.
* **`LruStore`** is what a level promises, with no ages and no ways: a set of
  keys and which of two keys of a set was used later.  A key that comes into a
  full set takes the place of the one that was used before all others.
  `CacheLru!Stored` is the refinement mapping: the valid blocks of L2, and the
  pairs of a set whose ages differ.
* **`CacheSim`** adds the counters, `calcStats` with fractions for doubles, and
  main: the arguments are accepted or not, a line is an access, or it is
  malformed and main ends without a report, or the file ends and main reports.  Its histories are the
  cycles of the accesses and the blocks fetched.

### Runs

| Run | Question | Bounds |
|---|---|---|
| `caches` | `TypeOK`, `Inclusion`, `VictimIsTheBlock`, `L2AgesDense`, `L1AgesFollowUse`: are the two levels consistent after every trace, whatever an undefined victim was? `NoWriteLost`, `AllocatedIsCached`: is a write ever lost, is what is allocated cached? | 1x2 L1, 2x2 L2, three blocks that conflict in both levels and one that does so only in L1 |
| `victim_gap` | `L1VictimFound`: does a full line of L1 have its oldest block? *Violated.* | as `caches` |
| `statistics` | `AvgTimeIsTheMean`, `OnlyConflictsRefetch`: are the printed numbers the means, is no way of L2 ever wasted? `L2IsLru`: is L2 an LRU store? | L1 of 2 sets and 1 way, 2x2 L2, five addresses, two of them in one block; traces of up to `MaxAccesses` = 6 lines |

Three conflicting blocks are the fewest that evict from a 2-way set, and with
a fourth in the other set of L2 the two levels evict different blocks.  The
state space of the caches is finite without a bound, so that `caches` covers
traces of every length; only the counters of `CacheSim` need a bound, and with
six lines each conflict set overflows and is refetched.

Both levels of `caches` have two ways, so that the run meets accesses that find
no victim in L1, by the finding below.  What such an access writes *is* lost:
`FindsWay` says that an access is not one of them, and `NoWriteLost` and
`AllocatedIsCached` speak of all the others.  `L1VictimFound`, that there are
none, is what `victim_gap` refutes.  A write that hits, or that misses L1 and
hits L2, is no exception, nor is anything that happens to a dirty block later,
also in a line whose ages have a gap.

### What they show

L1 is always contained in L2, blocks are where their addresses say, and the
ages of L2 have no gaps.  L2 implements an LRU store under hits, misses and
write-backs of dirty L1 victims.  No write is lost but the allocating one that
finds no victim in L1.

**Finding `victim_gap`.**  `setInvalid` gives the invalidated block the age
`ways` with the comment "Does not play a part" (cacheSim.h:131), but leaves the
ages of the others, and a snoop can hit any block of L1.  In the trace of the run,
with blocks of two bytes, the lines are `w 0`, `w 2`, `w 4`, `w 8`.  The miss of 4
drives the dirty block of 0 out of L1, and its write-back makes it the youngest
of its set in L2.  So the miss of 8 evicts the block of 4 from L2, the snoop takes
it out of L1 although it is the younger one there, and the new block ages the
block of 2 past `ways`-1.  At the next conflict in L1 no block of the full line
has the age `chooseVictim` looks for and it returns no
value.  If the value read names no block of the line nothing is evicted, the
block is not allocated, and its dirty bit is set nowhere: the write is lost.
`L1AgesFollowUse` still holds, so that the ages are in the right order, but not
without gaps.

### What is proved

`CacheLemmas` and `CacheHierarchyProofs` prove everything the passing runs
check of the caches, for all sizes of both levels, all sets of addresses, with
and without write allocate.  The assumptions are `CacheAssumption` (addresses
and block size are numbers) and `HierarchyAssumption` (sizes are positive).

*Consistency*: `TypeOK`, `Inclusion`, `VictimIsTheBlock`, `L2AgesDense`, and
`L2VictimFound`: in a full line of L2 `chooseVictim` finds its block, so that
its undefined value is never used there.  The four are one inductive invariant,
`IInv == Good(l1, l2)`, as none of them is inductive by itself: an invalidation
by address removes the right block only if stored addresses lead back to their
ways (`VictimIsTheBlock`); the write-back of an L1 victim finds its block in L2
only because of `Inclusion`; and `Inclusion` survives an eviction from L2 only
if the victim that is snooped for is the block that is dropped, which needs
`L2AgesDense` for the victim to exist.  The lemmas say for each method what it
does to the search (`IsBlock`) and to the ages; `FullLineHasOldest` is the
pigeonhole argument that dense ages of a full line reach `ways`-1.
`FillL1Keeps` makes no use of the victim of L1 being found: it holds for the
undefined value too.

*Writes*: `WritesKept` is `NoWriteLost` and `AllocatedStays` is
`AllocatedIsCached`, for all sizes and with no hypothesis: the exception of the
finding above is in the properties, at the access that finds no victim.
`DirectMappedVictim` shows that there is no such access when L1 is direct-mapped,
as then every age is 0: `L1VictimFound` always holds.  The
argument follows the dirty bit of one block through the lemmas on
dirty bits of `CacheLemmas`: the write sets it in L1 or L2, the write-back of
the L1 victim and the snoop hand it to L2 before the block leaves L1, and what
drops out of L2 dirty is saved in the same step.

*Order of use*: `AgesAreOrderOfUse` is `L1AgesFollowUse`, with no hypothesis.
The snoops leave gaps in the ages, but they change no order, and `updateLRU`
and `newBlock` move no block past another but the one they make the youngest.

*Refinement*: `L2ImplementsLru` is `SimSpec => L2IsLru`, step by step.
`TouchedStore`, `SoiledStore` and `RemovedStore` say what `updateLRU`,
`setDirty` and `setInvalid` do to the store that a cache stands for (a use,
nothing, and the removal of a key); `VictimIsLeast` that the block of age
`ways`-1 of a full line is the least recent one of its set, which needs the
dense ages; `RoomInStore` that a free way is a set that is not full;
`CommandIsUse` puts together the paths of `runCommand`.  `FillGivesBack` shows
that at most one dirty block leaves L1 in a command, and that it is in L2.

*Statistics*: `AverageIsTheMean` is `AvgTimeIsTheMean`: the three counters count
the misses, and the product of two rates with different divisors is the mean
only because the number of accesses to L2 is the number of misses of L1.
`RefetchedByConflict` is `OnlyConflictsRefetch`: for every block that was fetched
and that L2 has no longer, more blocks of its set were fetched than L2 has ways
(`FetchInv`).  L2 gives a block up only when its line is full, of other blocks
that were all fetched, and one more comes in: one more pigeon than holes.

## 4. The multithreaded core (hw4)

### Modules

* **`MTScheduler`** is class MT with the two loops, `CORE_BlockedMT` and
  `CORE_FinegrainedMT` (variable `mode`), as far as time and the choice of the
  thread go.  One step is a turn of the loop: `pick_thread`, with the cycles of a
  switch, then `op`, then `update_halt`; or `Idle`, when `pick_thread` finds no
  thread.  One action for each kind of instruction.  Programs have no branches,
  so that neither time nor choice depends on data.
* **`MTHistory`** measures it: the clock at which each wait ends, how often a
  ready thread was passed over, the sum of the latencies, the switch events.
* **`MTCore`** adds the contexts and the data memory: `Effect` is the switch of
  `op`, and a step is a step of `MTScheduler` together with that effect.
* **`Interleaving`** is what the interface promises: an instruction-set machine
  that lets one thread at a time execute one instruction, and every thread in
  the end, on a memory of addresses and words.  `MTCore!RunsThePrograms` is the
  refinement of its steps, and `LeavesNoThread` of its fairness.
* **`MTMain`** is main: it ends at once if there is no image to load
  (main.c:10), or runs the blocked simulation, its report and the `free` of its
  object, the fine-grained one and its report.  `free` runs no destructor, so
  that what a dangling pointer finds is the old object or, when the allocator
  gave the new one the same place, the new one (`reused`).
* `MTHistoryMC`, `MTCoreMC` and `MTMainMC` define the programs for TLC.  What an
  image holds is a constant of these modules (`MTScheduler!Image` is its type);
  how it gets there is `ImageLoader`.

### Runs

| Run | Question | Bounds |
|---|---|---|
| `scheduler` | the invariants of both loops, `SwitchIsPaid`, `SwitchOnlyWhenBlocked`, `Termination` | 3 threads, all programs of up to 2 instructions and HALT over NOP, LOAD, STORE; latencies 0, 1, 2 and 4, switch 1 and 2 |
| `programs` | `RunsThePrograms`, `LeavesNoThread` | 2 threads, all programs of up to 2 instructions and HALT over nine instructions on a memory of two words; `IntBound` = 8, an int of 4 bits |
| `policies` | `PoliciesAgree`, `MainEnds` | 2 threads, programs of up to 2 instructions and HALT over four instructions |
| `alone` | `AloneNoDifference` | 1 thread, programs of up to 4 instructions and HALT |
| `grained_context` | `GrainedReportIsItsOwn`. *Violated.* | as `policies` |

Three threads are the fewest where the search can start at the wrong one and
still find another; a latency of 0 makes a thread ready in its own wait, one
shorter than the switch ends during it, and one longer than a turn of all the
threads makes the loop idle.  Two programs of two instructions each are enough
for a read between two writes.  Programs are finite, so that the runs need no
bound on the clock.  An int has 4 bits so that arithmetic wraps.

### Fairness

The while loops run on by themselves until no thread is active, so weak
fairness of the whole next-state relation is assumed, and nothing of a single
thread: that every thread comes to its HALT (the fairness of `Interleaving`,
`Termination`, `MainEnds`) is a result about the scheduler.

### What they show

Both policies execute an interleaving of the programs and starve no thread; the
timers agree with the clock; every change of thread in the blocked loop is paid
for and is due to a wait or a HALT.  The pending switch event may be stale,
which is harmless: it costs nothing unless the thread changes, and a thread
alone never pays.  Where no memory is exchanged the two simulations of main end
with the same registers.  `PoliciesAgree` says no more than that: that the data
memory is not reset between the two simulations (main.c:41) shows only in images
in which a thread loads what was stored, which the property leaves out.  The run
`grained_context` has them.

**Finding `grained_context`.**  `CORE_FinegrainedMT_CTX` reads `block`, freed by
`CORE_BlockedMT_CPI`, in place of `grain` (core_api.cpp:220), while core_api.h:42
says "Get thread register file through the context pointer".  When the
allocator does not reuse the place, the report of the fine-grained simulation
shows the registers of the blocked one.  They differ when the first simulation
has stored what the second one loads.

### What is proved

`MTProofs` proves for every number of threads, every image and all latencies,
from `SchedulerAssumption` (each program ends in HALT, the latencies are
numbers): `TypeOK`, `BlockedRaisesSwitch`, `TimersTellTime`, `NobodyStarves`,
`ClockIsAccounted`, `SwitchIsPaid` and `SwitchOnlyWhenBlocked`.  `Extremes` has
the facts about the smallest element of a set that the choice of the thread
rests on.  The inductive invariant adds to the properties:

* `Types`: `TypeOK` and the types of the measures; a step keeps the program
  counter inside its program because only HALT ends one (`NotLast`);
* `SwitchRaised`: in the blocked loop the current thread is ready or the event
  is up, also after the last HALT, and in the fine-grained one it is never up;
* `TurnsKept`: the number of times a ready thread was passed over, plus its
  distance from the current thread in the turn, is at most N.  The distance
  shrinks by one or more at each pick, which is why `NobodyStarves` is not
  inductive without it;
* `Paid`: clock, plus the timer of any thread, plus the price of a pending
  switch event, is at most the budget of `ClockIsAccounted`.  An idle cycle
  takes from a timer what it adds to the clock, and a switch from the pending
  price.

`MTCoreProofs` is about the whole core and main:

* `CoreRunsThePrograms`: `CoreSpec /\ []AddressesInside => RunsThePrograms`.
  Every turn of either loop is one instruction of `Interleaving` or a stutter.
  The hypothesis says that a thread that comes to a LOAD or STORE addresses a
  word of the data memory; the code does not check it, and the programs of the
  run and of the test images meet it.
  The core computes an index by a division and `Interleaving` has addresses:
  that these agree, for an int of any width, is what `CoreAssumption` is for
  (the array is small against the range of an int).
* `PoliciesAlwaysAgree`: `MainSpec => []PoliciesAgree`.  A thread whose inputs
  are its own registers only is a function of how far it has come:
  `RegistersKnown` says that its registers are the last ones of a list that the
  program alone decides (`RegsOf`), in both simulations, whatever the other
  threads do.  `StoppedOnce` says that there is one such list up to the HALT.
* `AloneSame`: `MainSpec => []AloneNoDifference`.  With one thread the time at
  which each instruction is executed is a function of the instructions before it
  (`OnTime`); the pending switch event is never paid for, as there is nobody to
  switch to.

## 5. The branch predictor (hw1)

### Modules

* **`BranchPredictor`** is the BTB with the loop of bp_main: one step is a line
  of the trace, `BP_predict` and then `BP_update`.  The four localities are the
  two booleans of the configuration; a history is a function from bit to 0 or 1
  so that shifting and exclusive or are what they are in the code.  `TenantRow` is
  the row after the test for a new branch, and `Branch` the whole update: counter
  under the old history, then the history.  Counters that the locality does not
  use exist in the model and stay as they are.
* **`PredictorHistory`** adds the log of the trace.  Over it a two-level
  predictor is defined without tables: the history of a branch is the outcomes
  of the branches before it that count for it; its counter is a recursive
  function over the lines, which moves at those of its outcomes that met the
  same place of the table; its target is that of the last branch a table with
  tags would take for it.

### Run `predictor`

`PredictsAsDefined`: after any trace the tables answer what the definition
says.  `Learns`: a branch that goes on in one direction is predicted right
after HistorySize + 2 times.  `ReportIsRight`: flushes and branches are
what the definition and the log say, and `SizeIsRight`: the size is the bits of
what the configuration uses.  Bounds: 2 rows, tags
of 1 bit, histories of 2 bits, traces of up to `MaxBranches` = 5 lines over four
branches: two contend for a row, one has row and tag of the first with another
target and other middle bits, one is in another row at the end of memory, where
`pc + 4` wraps around (`AddrBits` = 17 bits for an address).  The six configurations
have each locality, and each kind of sharing.  Five lines are a takeover of a
row and the return to it with a full history; one of the five may come before
the ones that `Learns` speaks of.

### What is proved

`PredictorProofs` proves for all sizes of the tables, all branches and traces of
any length, and with every configuration:

* `TablesKeepTheirTypes`: `Spec => []TypeOK`.  The inductive invariant `Typed`
  adds the phases.  What has to be shown is that the place in a table that a
  branch consults is a history whatever bits of the pc are shared
  (`PlaceIsHistory`), that rows and tags cut out of a pc are in range
  (`BitsInRange`), and that a row that changes its branch gets a history and a
  table of the right form (`FoundByBranch`, `LeftByBranch`).
* `RepeatedBranchIsLearned`: `LogSpec => []Learns`.  `Learns` says nothing of
  the lines before, so it is not inductive.  `Teaching` is: after m lines of one
  branch in one direction its row is its own, the last m bits of its history are
  the direction, and with m > HistorySize, when the history no longer changes,
  the counter has moved once, and with one line more twice.  `LineTeaches` is the
  step from m - 1 to m.  Other branches have no part in it, also with a global
  history and a shared table, because a line of another branch ends the m.

* `TablesAnswerAsDefined`: `LogSpec => []PredictsAsDefined`.  The invariant says
  of every pc, whether it is in the trace or not, what the tables know of it
  (`Tracked`): the row has its tag exactly if it owns a line of the log, the
  target is that of the last one, and, where the row or the locality makes them
  its own, the history is the outcomes of the lines remembered and **each**
  counter of the table is `Counter` of that place, not only the one that would be
  consulted now: the history moves on and comes back to the others.  A line does
  one of three things to the lines that a pc owns (`OwnNext`): none, one more, or
  all lost to another tag; `HistoryTracked` and `CountersTracked` take them one
  by one, and `TenantIsTracked` is the case of the new branch, where the reset of
  `BP_update` gives what the definition makes of no line at all.  The definition
  looks the past up anew at each place, so the proof needs that a later line does
  not change what it said of the earlier places (`SameRows`, `SamePlaces`,
  `SameCounter`, `SameAnswer`).
* `ReportCountsFlushes`: `LogSpec => []ReportIsRight`, as each line adds itself to
  the set of the flushed ones exactly when `BP_update` counts it, and no later
  line takes it out (`OneMoreFlushed`, `SameFlushed`).

`Counter` is a recursive function.  That a function satisfies its equation for
every length of the log, and that only one does (`CountsExist`, `CountsAgree`),
needs induction, which the library states with an operator as a parameter; here
it is `AllNaturals`, of a set of naturals, by the least one that is missing.

* `SizeCountsBits`: `LogSpec => []SizeIsRight`, the powers of 2 in `BP_GetStats`
  are the numbers of rows and histories.  The provers know no powers, so they
  are counted: 2 ^ n is the number of subsets of n things (`PowerCounts`, from
  `FS_SUBSET` of the library), one thing more makes twice as many
  (`PowerDoubles`), and a history is the subset of its bits that are 1
  (`HistoriesCounted`).  That 2 ^ n is a positive number, which every other proof
  here needs of rows, tags and addresses, comes from the same lemma.

The proofs rest on `PredictorAssumption` alone.

A configuration line is accepted or not, without its words.  `main` calls
`BP_init` and `BP_GetStats` once each, so that the history that `BP_init` does
not reset (bp.cpp:10) and the pointer left behind by `delete` (bp.cpp:283) have
no effect.

## 6. The image loader (hw4)

### Modules

* **`ImageLoader`** is `SIM_MemReset`, one step for each line that one of its
  four `fgets` reads, in whichever of the four loops (variable `loop`).  A line
  is what it looks like: empty or a comment, a letter with a number, a header, a
  word, an instruction.  `First` is the character the loops test, which for an
  instruction is that of its opcode, so that a STORE before the N line sets the
  store latency, as it does in the code.  `fopen` may fail, and then nothing is
  loaded (loop `failed`).  No index is checked: an instruction behind the space of
  its thread and a word behind the end of `data` are written there, and the space
  of the model grows by that index.  Such a write stops the program (`wild`) or
  not, and where it does not the loop goes on.  What belongs to the memory behind
  a space is not modelled, so that nothing but the extent of the overrun is said
  of the image after one.  `tid` before the first T line is any of `Garbage`,
  which may be a thread; code for a thread that there is not ends in `wild`, and
  so does a line of a code segment that names no opcode, for which `get_inst`
  runs off the end of `cmdStr`.  Header addresses of code segments are read and
  used nowhere in the program, so they are left out.
* **`ImageHistory`** adds the lines read so far, and which loop read each.  Over
  the whole file it defines what the file says, without loops or indexes.
* `ImageMC` has the ten kinds of lines of the run.

### Run `loader`

`LoadsTheImage`: a well-formed file is loaded as it says.  `LostOnlyInSegments`:
in any file, a header or T line behind the N line is lost only while a segment
is open.  `OverrunsAreLong`: memory behind a space is written exactly if the file
has a segment with more lines than the space has room for, however the segments
and the T lines follow each other.  That one is about the start at index 0 of
each segment: two segments of one thread do not add up to an overrun, and a
segment that is too long for its space always is one.  Files have up to
`MaxLines` = 8 lines: two threads with a program each, or one with two segments,
or code and data in either order, ended by a comment or by the end of the file.
Of these lines `MaxStray` = 1 is one that a loop skips or a data segment takes
for a word: a second one tells no more.  A space for two instructions and two
words shows the overrun with the fewest lines, and `Garbage` has a thread of the
image and one that is not.  In the program the space is 800 bytes, that is
40 instructions of 20 bytes and not the 100 that sim_api.c:200 means.

Well-formed is what the head of the example images says: a segment ends "up to
the next empty line or comment".  sim_api.h says otherwise: "Each subsequent
line up to the next "@" line" (sim_api.h:24).  The code does not do that: it
ends a code segment at a data header directly behind it and then never reads
the data, as the header is gone; the same happens to a code header behind data,
and a data header behind data becomes a word.  No test image has
segments without an empty line between them.  A second segment is laid over the
first of its kind from index 0, and a second data segment moves `data_start` for
both, although sim_api.h:23 and :27 give each segment an offset of its own, and
sim_api.h:32 says of an address that no segment defines that it is zero: behind
the end of the second segment it is what the first one left.  What `WellFormed`
files say (`CodeLoaded`, `DataLoaded`) follows the code here, and no test image
has two data segments or two code segments of one thread.  A T line in a data
segment is a word 0.

### What is proved

`ImageProofs` proves from `LoaderAssumption` (what a line of each kind holds, and
that there is room for a number of instructions and words):

* `OverrunsByLongSegments`: `FileSpec => []OverrunsAreLong`.  The extent of a space
  says nothing of the segments, so the invariant adds where the loop stands in
  the file (`OverrunInv`): in the code or the data loop the last `next` lines are
  those of the open segment, its header right before them (`OpenedAt`), and where
  the code loop has written, `tid` is a thread.  A line leaves a space longer than
  it has room for exactly if one was so before or the line is written behind its
  end (`SpacesGrow`), which is when it makes the open segment too long
  (`LongNext`).
* `LostInside`: `FileSpec => []LostOnlyInSegments`.  The inductive invariant
  relates the loop of the loader to what is open in the file: in the code loop or
  the data loop a segment has been opened that no empty line or comment has
  ended, since the last header that the outer loop has read.

* `FilesAreLoaded`: `FileSpec => []LoadsTheImage`.  Well-formed is a property of
  a whole file and the loader sees one line at a time, so the invariant
  (`LoadedSoFar`) is about beginnings of files.  `WellBegun` is what every
  beginning of a well-formed file satisfies; with a line less it still does
  (`BegunBefore`), and a file that is well-formed has begun well
  (`WellFormedBegun`).  As long as the lines read are such a beginning, two
  things hold.  `Position`: the loop knows where it stands, `tid` is the thread
  of the last T line, the open segment belongs to the last header, and `next`
  is the number of lines behind it.  And the image is what the lines so far say
  (`CodeLoaded`, `DataLoaded`, `ParamsLoaded`).  From the position, the next
  line of a file that still begins well is one for the loop that gets it, and
  there is room for it (`LineFits`), so none of the loops takes a line of
  another one or runs wild (`LineTaken`).  A line of content adds one writer to
  one index, the header of the open segment, and there is no later one
  (`WritersNext`, `LastOpen`): what it says replaces what was there, which is
  what the definition over the whole file asks for.  A well-formed file does not
  end right behind a header, so the loader does not end wild
  (`EndKeepsImage`).

The bounds `MaxLines` and `MaxStray` of `FileSpec` are any numbers here.

## 7. The dataflow calculator (HW3)

### Modules

* **`Dataflow`** is dflow_calc.cpp: a step is a turn of the loop of
  `analyzeProg`.  `NobodyWrote` is `int dstHelp[MAX_OPS] = {-1}` as C has it: -1
  in the first element, 0 in all others.  Registers and opcodes that the arrays
  do not have end in `wild`.
* **`DflowMain`** is dflow_main.c.  A line is what one `fgets` of 80 characters
  returns, an instruction, a latency, an empty line or none of them; queries
  that are answered change nothing, so that only those that end main are steps.
* **`DflowGraph`** defines the graph that dflow_calc.h documents: an instruction
  depends on the last writers of its sources, and on the entry for a register
  that nobody wrote.  A path is a set of instructions each of which depends on
  the one before, and its time is the sum of the latencies.

**The program as committed.**  `analyzeProg` writes through the global `pCtx`
(dflow_calc.cpp:47), and nothing in the repository sets it: every run of the
build ends there with a segmentation fault, which is `BeginNowhere`.  The
constant `Contexts` says what `pCtx` can be.  With `{"null"}` the model is that
program, and no query is ever answered; `"object"` is the same program with a
`Ctx` in place, and what the properties say of the algorithm is about it.  The
run has both.

### Runs `dataflow` and `prog_depth`

`TypeOK`, `DepthIsLongestPath` (at every turn of the loop) and `AsDocumented` for
every program of up to `MaxInsts` = 4 instructions out of eight, under all
choices of the latencies 0, 1 and 3 for three opcodes.  Four instructions are a
diamond, the smallest graph in which two paths of different times meet, and a
rewrite of a register behind it.  A `Quota` of 2 makes the buffer grow twice.

The one pass gives the documented answers for programs that read no register but
0 before they write it (`AsDocumented`), and for other programs the documented
depth of every instruction behind which that is so (`DepthIsLongestPath`:
`ReadsWritten` of all the instructions on its paths, but for instruction 0, which
has nothing before it).

**Finding `prog_depth`.**  For a register that nobody wrote, dflow_calc.h:55
promises "-1 if depends on "entry"", dflow_calc.h:45 depth 0, and dflow_calc.h:61
of the whole program "the longest execution path of this program (from Entry to
Exit)".  The initialiser `int dstHelp[MAX_OPS] = {-1}` (dflow_calc.cpp:38) says
-1 of register 0 only and 0 of all others, which is instruction 0.
`ProgDepthIsLongest` is violated in two ways: a first instruction that reads any
register but 0 is its own source and no exit, so that the depth of the program
that consists of it alone is 0 and not its latency (dflow_calc.cpp:120), which
is the counterexample TLC finds first; and a later instruction that reads such a
register waits for instruction 0, so that a program of an instruction 0 with
latency 3 and an independent one that reads an unwritten register, with latency
1, has depth 4 and not 3.

### What is proved

`DflowProofs` proves the three properties of `dataflow` for every program, every
table of latencies and any number of opcodes and registers: `Spec => []TypeOK`,
`[]DepthIsLongestPath`, `[]AsDocumented`, with `Spec` free of the bound
`MaxInsts`.  It assumes what `MainAssumption` says, that
latencies are naturals and a quota is not empty.

The inductive invariant `DflowInv` has two parts.  `Loaded` gives what was read
its type.  `Walking` cuts the program at the loop's index: in front of it the
elements are new, and `analyzeProg` needs that, as an instruction that is its own
source must find 0 in its own `dur_`; behind it each element has the sources that
the code finds (`CodeSource`, with instruction 0 for an unwritten register), ends its latency after the later of them, and is an exit as long as
nobody behind the loop depends on it; and `dstHelp` holds the last writers.
Neither the properties nor the types are inductive without it: they say nothing
of `dstHelp` or of the exits in the middle of the walk.

The other half is about the graph alone.  `End` is a recursive function over a
path, and TLAPS cannot do induction with the library's theorem, so `FirstFailure`
(a bounded set of numbers has a least one) stands in for it: `EndExists` and
`EndUnique` give `End` its equation, `NoLonger` says that no path beats times
that satisfy the equation of `dur_`, `OneMore` and `NoShorter` build a path that
reaches them, and `LongestIs` concludes.  The invariant is about the sources of
the code and the lemmas about those of the documentation; `DocumentedSources`
says that they are the same where what is read was written, and `WellDown` that
this is handed down a path.  `ExitsSuffice` takes the last instruction that would
beat all exits and finds a later one (`BehindNoExit`), as no instruction of a
program that reads what is written is its own source.

### Corner of the input

An empty line in the file of the latencies is an opcode of latency 0, and one at
the end of a full file ends main (`LatenciesFail`).

## 8. What is only model-checked, and what is not modelled

Every invariant, action property and refinement that a passing run checks is
also a theorem.  Only model-checked, on the instances above:

* liveness under fairness, which is out of reach of the prover: `Termination`,
  `MainEnds`, `LeavesNoThread`;
* the three findings, which are counterexamples.

Not modelled:

* images with data addresses out of range, or programs that do not end in HALT,
  as inputs of the core: what they do depends on the globals next to `data` and
  on what `malloc` returned;
* the words of command lines and of configurations, the parsing of numbers and
  the wording of outputs; `fgets` cutting lines that are too long;
* widths: the bit arithmetic of hw2 at 32 bits (`1u << 32`, cacheSim.h:27;
  `set_` of a cache smaller than a line, cacheSim.cpp:98), latencies in HW3
  whose sum leaves 32 bits;
* test inputs, reference outputs and scripts, which have no logic of their own.
