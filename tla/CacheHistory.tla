---------------------------- MODULE CacheHistory ----------------------------
(***************************************************************************)
(* The cache hierarchy with two history variables, to say what the dirty   *)
(* bits and the ages are for: the simulator keeps no data and no time.     *)
(***************************************************************************)
EXTENDS CacheHierarchy

VARIABLES unsaved,  \* blocks written in a cache and not yet saved to memory
          used      \* pairs of blocks of L1, the first one used later
allVars == <<l1, l2, unsaved, used>>

HistoryInit == Init /\ unsaved = {} /\ used = {}

(* L1 has a way for the block of a, or a victim to make one.               *)
FindsWay(a) == IsFree(L1, l1, a) \/ Oldest(L1, l1, a) # {}

(* A write to a block that is cached, or that the write allocates.         *)
WritesCache(op, a) ==
  /\ op = "w"
  /\ \/ IsBlock(L1, l1, a) \/ IsBlock(L2, l2, a)
     \/ BlockAlloc(op) /\ FindsWay(a)

(* Memory has block b again when L2 drops it, dirty at that moment.        *)
SavedByEviction(b) ==
  /\ ~Holds(L2, l2', b)
  /\ \E v \in Addrs : BlockOf(v) = b /\ IsDirty(L2, Drained(v), v)

Remembered(op, a) ==
  /\ RunCommand(op, a)
  /\ unsaved' = {b \in unsaved \cup IF WritesCache(op, a)
                                    THEN {BlockOf(a)} ELSE {} :
                   ~SavedByEviction(b)}
  /\ used' = IF IsBlock(L1, l1, a) \/ BlockAlloc(op)
             THEN {p \in used \cup {BlockOf(a)} \X Blocks :
                     /\ p[2] # BlockOf(a)
                     /\ Holds(L1, l1', p[1]) /\ Holds(L1, l1', p[2])}
             ELSE used

HistoryNext == \E op \in Ops, a \in Addrs : Remembered(op, a)

HistorySpec == HistoryInit /\ [][HistoryNext]_allVars

-----------------------------------------------------------------------------
(* No write is lost: a block written in a cache is dirty in L1 or in L2    *)
(* until L2 drops it as a dirty block (dirty_: 0 = not dirty regarding the *)
(* lower level; write-back and snoop of System::runCommand).               *)
NoWriteLost ==
  \A b \in unsaved : HoldsDirty(L1, l1, b) \/ HoldsDirty(L2, l2, b)

(* Of two blocks of a line of L1 the younger one was used later, whatever  *)
(* the snoops took out of the line (LRU_: 0 is most recently used).        *)
L1AgesFollowUse ==
  \A s \in 0 .. L1Sets - 1, w, x \in Ways(L1) :
    /\ l1[s][w].valid /\ l1[s][x].valid
    /\ l1[s][w].lru < l1[s][x].lru
    => <<BlockOf(l1[s][w].addr), BlockOf(l1[s][x].addr)>> \in used

(* What an access allocates is in both caches after it, so that the next   *)
(* access to it is an L1 hit (runCommand: both newBlock calls).            *)
AllocatedIsCached ==
  [][\A op \in Ops, a \in Addrs :
       BlockAlloc(op) /\ FindsWay(a) /\ RunCommand(op, a) =>
         IsBlock(L1, l1', a) /\ IsBlock(L2, l2', a)]_allVars

(* A full line of L1 has a block of the age that chooseVictim looks for    *)
(* ("Search for least recently used block in set").                        *)
L1VictimFound == \A a \in Addrs : FindsWay(a)
=============================================================================
