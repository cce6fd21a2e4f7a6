--------------------------- MODULE CacheHierarchy ---------------------------
(***************************************************************************)
(* The two cache levels of class System of hw2 and the effect of           *)
(* System::runCommand on them (hw2/cacheSim.cpp).  One step is one line of *)
(* the trace.  The statistics that runCommand also counts, and the loop    *)
(* that calls it, are in module CacheSim, which contains this one.         *)
(***************************************************************************)
EXTENDS Cache

CONSTANTS L1Sets, L1Ways, L2Sets, L2Ways,  \* the sizes of the two levels
          WrAlloc                          \* --wr-alloc 1: write allocate

ASSUME HierarchyAssumption ==
  /\ {L1Sets, L1Ways, L2Sets, L2Ways} \subseteq Nat \ {0}
  /\ WrAlloc \in BOOLEAN

VARIABLES l1, l2
vars == <<l1, l2>>

L1 == [sets |-> L1Sets, ways |-> L1Ways]
L2 == [sets |-> L2Sets, ways |-> L2Ways]

(* The operation is the first character of the trace line.  The code looks *)
(* for 'r' and 'w' only; "other" stands for any other character.           *)
Ops == {"r", "w", "other"}

BlockAlloc(op) == op = "r" \/ (WrAlloc /\ op = "w")

Init == l1 = EmptyCache(L1) /\ l2 = EmptyCache(L2)

-----------------------------------------------------------------------------
(* Mutant: a hit forgets that it was a write.                              *)
AccessedAsRead(g, c, op, a) == UpdateLRU(g, c, a)

(* What a hit does to the level that has the block.                        *)
Accessed(g, c, op, a) ==
  LET u == UpdateLRU(g, c, a) IN IF op = "w" THEN SetDirty(g, u, a) ELSE u

(* What the end of an allocating miss does to L1.                          *)
Filled(c, op, a) ==
  LET n == NewBlock(L1, c, a) IN IF op = "w" THEN SetDirty(L1, n, a) ELSE n

(* Mutant: a full line of L1 is not relieved of a block first.             *)
FillNoVictim(op, a, c1, c2) ==
  /\ l1' = IF BlockAlloc(op) THEN Filled(c1, op, a) ELSE c1
  /\ l2' = c2

(* After the search in L2, with c1 and c2 the caches as it left them: make *)
(* room in L1, with the write-back of a dirty victim, and allocate.        *)
FillL1(op, a, c1, c2) ==
  IF ~BlockAlloc(op) THEN l1' = c1 /\ l2' = c2
  ELSE \/ /\ IsFree(L1, c1, a)
          /\ l1' = Filled(c1, op, a)
          /\ l2' = c2
       \/ /\ ~IsFree(L1, c1, a)
          /\ \E v \in Victims(L1, c1, a) :
               /\ l1' = Filled(SetInvalid(L1, c1, v), op, a)
               /\ l2' = IF IsDirty(L1, c1, v) THEN WriteBlock(L2, c2, v)
                        ELSE c2

(* Mutants: a hit leaves the ages alone.                                   *)
HitL1NoAge(op, a) ==
  /\ IsBlock(L1, l1, a)
  /\ l1' = IF op = "w" THEN SetDirty(L1, l1, a) ELSE l1
  /\ UNCHANGED l2

HitL2NoAge(op, a) ==
  /\ ~IsBlock(L1, l1, a) /\ IsBlock(L2, l2, a)
  /\ FillL1(op, a, l1, IF op = "w" THEN SetDirty(L2, l2, a) ELSE l2)

HitL1(op, a) ==
  /\ IsBlock(L1, l1, a)
  /\ l1' = Accessed(L1, l1, op, a)
  /\ UNCHANGED l2

HitL2(op, a) ==
  /\ ~IsBlock(L1, l1, a) /\ IsBlock(L2, l2, a)
  /\ FillL1(op, a, l1, Accessed(L2, l2, op, a))

(* A miss that allocates nothing goes to memory and changes no cache.      *)
WriteAround(op, a) ==
  /\ ~IsBlock(L1, l1, a) /\ ~IsBlock(L2, l2, a) /\ ~BlockAlloc(op)
  /\ UNCHANGED vars

MissFree(op, a) ==
  /\ ~IsBlock(L1, l1, a) /\ ~IsBlock(L2, l2, a) /\ BlockAlloc(op)
  /\ IsFree(L2, l2, a)
  /\ FillL1(op, a, l1, NewBlock(L2, l2, a))

(* Mutants: a snoop that takes only dirty blocks out of L1; one that does  *)
(* not look at the dirty bit.                                              *)
SnoopedIfDirty(v) == IF IsDirty(L1, l1, v) THEN SetInvalid(L1, l1, v) ELSE l1
NotDrained(v) == l2

(* L2 gives up its victim v: the snoop sends the dirty bit of the L1 copy  *)
(* down to L2 and takes the copy out of L1, then v leaves L2.  Each of the *)
(* three changes nothing when v is not there.                              *)
Drained(v) == IF IsDirty(L1, l1, v) THEN SetDirty(L2, l2, v) ELSE l2
Snooped(v) == SetInvalid(L1, l1, v)
Dropped(v) == SetInvalid(L2, Drained(v), v)

MissEvict(op, a) ==
  /\ ~IsBlock(L1, l1, a) /\ ~IsBlock(L2, l2, a) /\ BlockAlloc(op)
  /\ ~IsFree(L2, l2, a)
  /\ \E v \in Victims(L2, l2, a) :
       FillL1(op, a, Snooped(v), NewBlock(L2, Dropped(v), a))

RunCommand(op, a) ==
  \/ HitL1(op, a)
  \/ HitL2(op, a)
  \/ WriteAround(op, a)
  \/ MissFree(op, a)
  \/ MissEvict(op, a)

Next == \E op \in Ops, a \in Addrs : RunCommand(op, a)

Spec == Init /\ [][Next]_vars

-----------------------------------------------------------------------------
(* Both levels stay caches of their geometry: ages within 0 .. ways        *)
(* (Block, Cache::updateLRU and setInvalid).                               *)
TypeOK == l1 \in CacheOf(L1) /\ l2 \in CacheOf(L2)

(* The inclusion principle that the snoop of runCommand keeps: L1 has no   *)
(* block that L2 has not.  Were it broken, the write-back of a dirty L1    *)
(* victim would reach Cache::updateLRU without a match, the wild write.    *)
Inclusion == \A a \in Addrs : IsBlock(L1, l1, a) => IsBlock(L2, l2, a)

(* Both levels hold a block once, and where its stored address says: the   *)
(* address chooseVictim returns is the one to invalidate and to snoop for. *)
VictimIsTheBlock == Consistent(L1, l1) /\ Consistent(L2, l2)

(* The ages in L2 have no gap, so that a full line of L2 always has the    *)
(* block of age ways - 1 that chooseVictim looks for, and its undefined    *)
(* return value is never read at this level (setInvalid's "Does not play a *)
(* part" is right here; in L1 a snoop makes gaps).                         *)
L2AgesDense == Dense(L2, l2)
=============================================================================
