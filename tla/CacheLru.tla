------------------------------ MODULE CacheLru ------------------------------
(***************************************************************************)
(* L2 of the cache hierarchy as an LRU store.  A history variable records  *)
(* what a command asks of L2: the block that missed L1, when L2 has it or  *)
(* allocates it, and then the dirty block that L1 gives back.              *)
(***************************************************************************)
EXTENDS CacheHierarchy

VARIABLE asked

Missed(op, a) ==
  ~IsBlock(L1, l1, a) /\ (IsBlock(L2, l2, a) \/ BlockAlloc(op))

(* The dirty blocks that leave L1 and not L2: at most one in a step.       *)
GivenBack == {b \in Blocks : /\ HoldsDirty(L1, l1, b)
                             /\ ~Holds(L1, l1', b) /\ Holds(L2, l2', b)}

Asked(op, a) ==
  asked' = IF ~Missed(op, a) THEN <<>>
           ELSE IF GivenBack = {} THEN <<BlockOf(a)>>
           ELSE <<BlockOf(a), CHOOSE b \in GivenBack : TRUE>>

-----------------------------------------------------------------------------
(* The block in way w of set s of c is b and used after block d.           *)
Younger(g, c, b, d) ==
  \E s \in 0 .. g.sets - 1 : \E w, x \in Ways(g) :
    /\ c[s][w].valid /\ c[s][x].valid /\ c[s][w].lru < c[s][x].lru
    /\ b = BlockOf(c[s][w].addr) /\ d = BlockOf(c[s][x].addr)

(* The blocks of a cache, and the order of the ages in each set.           *)
Stored(g, c) ==
  [keys  |-> {b \in Blocks : Holds(g, c, b)},
   later |-> {p \in Blocks \X Blocks : Younger(g, c, p[1], p[2])}]

(* L2 replaces the least recently used block: its blocks with their ages   *)
(* are the store of LruStore (updateLRU, chooseVictim and newBlock         *)
(* together, under the hits, the misses and the write-backs).              *)
L2Store == INSTANCE LruStore WITH Keys <- Blocks, Sets <- L2Sets,
             Depth <- L2Ways, store <- Stored(L2, l2), request <- asked
L2IsLru == L2Store!Spec
=============================================================================
