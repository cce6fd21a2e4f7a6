------------------------ MODULE CacheHierarchyProofs ------------------------
(***************************************************************************)
(* The invariants of CacheHierarchy, proved for all sizes of the two       *)
(* levels, block sizes, addresses and write policies.                      *)
(*                                                                         *)
(* None of them is inductive alone.  Inclusion needs L2 to drop exactly    *)
(* the block that the snoop looks for in L1 (VictimIsTheBlock) and to find *)
(* a victim at all (L2AgesDense); L2AgesDense and TypeOK need updateLRU    *)
(* never to run without a match, which for the write-back is Inclusion.    *)
(* So they are proved together, as one predicate of the pair of caches.    *)
(***************************************************************************)
EXTENDS CacheHistory, CacheSim, CacheLemmas

Included(c1, c2) ==
  \A a \in Addrs : IsBlock(L1, c1, a) => IsBlock(L2, c2, a)

Good(c1, c2) ==
  /\ c1 \in CacheOf(L1) /\ c2 \in CacheOf(L2)
  /\ Consistent(L1, c1) /\ Consistent(L2, c2)
  /\ Dense(L2, c2)
  /\ Included(c1, c2)

IInv == Good(l1, l2)

LEMMA Geometries == L1 \in Geometry /\ L2 \in Geometry
BY HierarchyAssumption DEF L1, L2, Geometry

LEMMA Addresses == \A a \in Addrs : a \in Nat
BY CacheAssumption

(* Addresses of one block are found together.                              *)
LEMMA SameBlockSameSearch ==
  ASSUME NEW g \in Geometry, NEW c, NEW a \in Nat, NEW b \in Nat,
         BlockOf(a) = BlockOf(b)
  PROVE  IsBlock(g, c, a) <=> IsBlock(g, c, b)
<1>1. GetSet(g, a) = GetSet(g, b) /\ GetTag(g, a) = GetTag(g, b)
  BY SetAndTagNameTheBlock
<1> QED  BY <1>1 DEF IsBlock, Match, Line

(* An access to a block of a cache, dirty or not, moves it to the front.   *)
LEMMA AccessedEffect ==
  ASSUME NEW g \in Geometry, NEW c \in CacheOf(g), NEW a \in Addrs,
         NEW op, IsBlock(g, c, a), Consistent(g, c)
  PROVE  LET d == Accessed(g, c, op, a) IN
         /\ d \in CacheOf(g) /\ Consistent(g, d) /\ SameBlocks(g, c, d)
         /\ Dense(g, c) => Dense(g, d)
<1> DEFINE e == UpdateLRU(g, c, a)
           f == SetDirty(g, e, a)
           s == GetSet(g, a)
<1>1. a \in Nat
  BY Addresses
<1>2. e \in CacheOf(g) /\ SameBlocks(g, c, e) /\ Consistent(g, e)
  BY <1>1, UpdateLRUEffect, SameBlocksConsistent
<1>3. Dense(g, c) => Dense(g, e)
  <2>1. PICK u \in Match(g, c, a) : Rejuvenated(g, c, e, s, u)
    BY <1>1, UpdateLRUEffect
  <2>2. s \in 0 .. g.sets - 1 /\ u \in Ways(g) /\ c[s][u].valid
    BY <1>1, SetInRange DEF Match, Line
  <2> HIDE DEF e, s
  <2> QED  BY <1>2, <2>1, <2>2, RejuvenatedDense
<1> HIDE DEF e
<1>4. /\ f \in CacheOf(g) /\ SameBlocks(g, e, f) /\ SameAges(g, e, f)
  BY <1>1, <1>2, SetDirtyEffect
<1> HIDE DEF f
<1>5. SameBlocks(g, c, f)
  BY <1>2, <1>4 DEF SameBlocks
<1>6. Consistent(g, f) /\ (Dense(g, e) => Dense(g, f))
  BY <1>2, <1>4, SameBlocksConsistent, SameAgesDense
<1>7. Accessed(g, c, op, a) = IF op = "w" THEN f ELSE e
  BY DEF Accessed, e, f
<1> QED  BY <1>2, <1>3, <1>4, <1>5, <1>6, <1>7

(* An absent block and a cache that may have room for it or not: newBlock  *)
(* brings in that block or nothing.                                        *)
LEMMA NewBlockKeeps ==
  ASSUME NEW g \in Geometry, NEW c \in CacheOf(g), NEW a \in Addrs,
         ~IsBlock(g, c, a), Consistent(g, c)
  PROVE  LET d == NewBlock(g, c, a) IN
         /\ d \in CacheOf(g) /\ Consistent(g, d)
         /\ \A b \in Addrs : IsBlock(g, d, b) =>
              IsBlock(g, c, b) \/ BlockOf(b) = BlockOf(a)
         /\ IsFree(g, c, a) =>
              \A b \in Addrs : IsBlock(g, d, b) <=>
                IsBlock(g, c, b) \/ BlockOf(b) = BlockOf(a)
         /\ IsFree(g, c, a) /\ Dense(g, c) => Dense(g, d)
<1> DEFINE d == NewBlock(g, c, a)
<1>1. a \in Nat
  BY Addresses
<1>2. CASE ~IsFree(g, c, a)
  <2>1. d = c
    BY <1>2 DEF NewBlock
  <2> QED  BY <1>2, <2>1
<1>3. CASE IsFree(g, c, a)
  <2>1. d \in CacheOf(g)
    BY <1>1, <1>3, NewBlockEffect
  <2>2. PICK f \in Ways(g) : Placed(g, c, d, a, f)
    BY <1>1, <1>3, NewBlockEffect
  <2> HIDE DEF d
  <2>3. Consistent(g, d)
    BY <2>2, PlacedConsistent
  <2>4. \A b \in Addrs : IsBlock(g, d, b) <=>
          IsBlock(g, c, b) \/ BlockOf(b) = BlockOf(a)
    BY <1>1, <2>2, Addresses, PlacedSearch
  <2>5. Dense(g, c) => Dense(g, d)
    BY <1>1, <2>2, PlacedDense
  <2> QED  BY <1>3, <2>1, <2>3, <2>4, <2>5 DEF d
<1> QED  BY <1>2, <1>3

LEMMA FilledKeeps ==
  ASSUME NEW c \in CacheOf(L1), NEW a \in Addrs, NEW op,
         ~IsBlock(L1, c, a), Consistent(L1, c)
  PROVE  LET d == Filled(c, op, a) IN
         /\ d \in CacheOf(L1) /\ Consistent(L1, d)
         /\ \A b \in Addrs : IsBlock(L1, d, b) =>
              IsBlock(L1, c, b) \/ BlockOf(b) = BlockOf(a)
<1> DEFINE e == NewBlock(L1, c, a)
           f == SetDirty(L1, e, a)
<1>1. /\ e \in CacheOf(L1) /\ Consistent(L1, e)
      /\ \A b \in Addrs : IsBlock(L1, e, b) =>
           IsBlock(L1, c, b) \/ BlockOf(b) = BlockOf(a)
  BY Geometries, NewBlockKeeps
<1> HIDE DEF e
<1>2. f \in CacheOf(L1) /\ SameBlocks(L1, e, f)
  BY <1>1, Geometries, Addresses, SetDirtyEffect
<1> HIDE DEF f
<1>3. Consistent(L1, f)
  BY <1>1, <1>2, Geometries, SameBlocksConsistent
<1>4. \A b \in Addrs : IsBlock(L1, f, b) <=> IsBlock(L1, e, b)
  BY <1>2, Geometries, Addresses, SameBlocksSameSearch
<1>5. Filled(c, op, a) = IF op = "w" THEN f ELSE e
  BY DEF Filled, e, f
<1> QED  BY <1>1, <1>2, <1>3, <1>4, <1>5

(* Whatever chooseVictim returns, also when it falls off its end.          *)
LEMMA VictimIsAnAddress ==
  ASSUME NEW g \in Geometry, NEW c, NEW a \in Addrs, Consistent(g, c),
         NEW v \in Victims(g, c, a)
  PROVE  v \in Addrs
<1>1. CASE Oldest(g, c, a) = {}
  BY <1>1 DEF Victims
<1>2. CASE Oldest(g, c, a) # {}
  <2> DEFINE u == Min(Oldest(g, c, a))
  <2>1. u \in Oldest(g, c, a) /\ v = Line(g, c, a)[u].addr
    BY <1>2, WaySets DEF Victims
  <2>2. GetSet(g, a) \in 0 .. g.sets - 1
    BY Addresses, SetInRange
  <2> HIDE DEF u
  <2> QED  BY <2>1, <2>2 DEF Oldest, Line, Consistent
<1> QED  BY <1>1, <1>2

(* The last part of a miss: room in L1, write-back and allocation.         *)
LEMMA FillL1Keeps ==
  ASSUME NEW c1, NEW c2, NEW a \in Addrs, NEW op \in Ops,
         Good(c1, c2), IsBlock(L2, c2, a), ~IsBlock(L1, c1, a),
         FillL1(op, a, c1, c2)
  PROVE  Good(l1', l2')
<1>1. CASE ~BlockAlloc(op)
  BY <1>1 DEF FillL1
<1>2. CASE BlockAlloc(op) /\ IsFree(L1, c1, a)
  <2>1. l1' = Filled(c1, op, a) /\ l2' = c2
    BY <1>2 DEF FillL1
  <2>2. /\ l1' \in CacheOf(L1) /\ Consistent(L1, l1')
        /\ \A b \in Addrs : IsBlock(L1, l1', b) =>
             IsBlock(L1, c1, b) \/ BlockOf(b) = BlockOf(a)
    BY <2>1, FilledKeeps DEF Good
  <2>3. Included(l1', l2')
    BY <2>1, <2>2, Geometries, Addresses, SameBlockSameSearch
    DEF Good, Included
  <2> QED  BY <2>1, <2>2, <2>3 DEF Good
<1>3. CASE BlockAlloc(op) /\ ~IsFree(L1, c1, a)
  <2>1. PICK v \in Victims(L1, c1, a) :
          /\ l1' = Filled(SetInvalid(L1, c1, v), op, a)
          /\ l2' = IF IsDirty(L1, c1, v) THEN WriteBlock(L2, c2, v) ELSE c2
    BY <1>3 DEF FillL1
  <2>2. v \in Addrs /\ v \in Nat
    BY Geometries, VictimIsAnAddress, Addresses DEF Good
  <2> DEFINE d1 == SetInvalid(L1, c1, v)
             d2 == IF IsDirty(L1, c1, v) THEN WriteBlock(L2, c2, v) ELSE c2
  <2>3. /\ d1 \in CacheOf(L1) /\ Consistent(L1, d1)
        /\ \A b \in Addrs : IsBlock(L1, d1, b) => IsBlock(L1, c1, b)
    BY <2>2, Geometries, Addresses, SetInvalidEffect, SetInvalidConsistent,
       SetInvalidSearch DEF Good
  <2>4. /\ d2 \in CacheOf(L2) /\ Consistent(L2, d2) /\ Dense(L2, d2)
        /\ SameBlocks(L2, c2, d2)
    <3>1. CASE ~IsDirty(L1, c1, v)
      BY <3>1 DEF Good, SameBlocks
    <3>2. CASE IsDirty(L1, c1, v)
      <4> DEFINE w2 == WriteBlock(L2, c2, v)
                 s == GetSet(L2, v)
      <4>1. IsBlock(L2, c2, v)
        BY <2>2, <3>2 DEF Good, Included, IsDirty, IsBlock
      <4>2. w2 \in CacheOf(L2) /\ SameBlocks(L2, c2, w2)
        BY <2>2, <4>1, Geometries, WriteBlockEffect DEF Good
      <4>3. PICK u \in Match(L2, c2, v) : Rejuvenated(L2, c2, w2, s, u)
        BY <2>2, <4>1, Geometries, WriteBlockEffect DEF Good
      <4>4. s \in 0 .. L2.sets - 1 /\ u \in Ways(L2) /\ c2[s][u].valid
        BY <2>2, Geometries, SetInRange DEF Match, Line
      <4> HIDE DEF w2, s
      <4>5. Dense(L2, w2)
        BY <4>2, <4>3, <4>4, Geometries, RejuvenatedDense DEF Good
      <4>6. Consistent(L2, w2)
        BY <4>2, Geometries, SameBlocksConsistent DEF Good
      <4> QED  BY <3>2, <4>2, <4>5, <4>6 DEF w2
    <3> QED  BY <3>1, <3>2
  <2>5. l1' = Filled(d1, op, a) /\ l2' = d2
    BY <2>1
  <2> HIDE DEF d1, d2
  <2>6. /\ l1' \in CacheOf(L1) /\ Consistent(L1, l1')
        /\ \A b \in Addrs : IsBlock(L1, l1', b) =>
             IsBlock(L1, d1, b) \/ BlockOf(b) = BlockOf(a)
    BY <2>3, <2>5, FilledKeeps
  <2>7. \A b \in Addrs : IsBlock(L2, l2', b) <=> IsBlock(L2, c2, b)
    BY <2>4, <2>5, Geometries, Addresses, SameBlocksSameSearch
  <2>8. Included(l1', l2')
    BY <2>3, <2>6, <2>7, Geometries, Addresses, SameBlockSameSearch
    DEF Good, Included
  <2> QED  BY <2>4, <2>5, <2>6, <2>8 DEF Good
<1> QED  BY <1>1, <1>2, <1>3

-----------------------------------------------------------------------------
(* The initial caches: nothing is valid.                                   *)
LEMMA InitGood == Init => IInv
<1> SUFFICES ASSUME Init PROVE Good(l1, l2)
  BY DEF IInv
<1>1. ASSUME NEW g \in Geometry
      PROVE  /\ EmptyCache(g) \in CacheOf(g)
             /\ Consistent(g, EmptyCache(g))
             /\ Dense(g, EmptyCache(g))
             /\ \A a \in Nat : ~IsBlock(g, EmptyCache(g), a)
  <2> DEFINE b == [valid |-> FALSE, dirty |-> FALSE, addr |-> 0, tag |-> 0,
                   lru |-> g.ways]
  <2>1. b \in Block(g) /\ ~b.valid /\ b.lru = g.ways
    BY DEF Block, Geometry
  <2> HIDE DEF b
  <2>2. EmptyCache(g) = [s \in 0 .. g.sets - 1 |-> [w \in Ways(g) |-> b]]
    BY DEF EmptyCache, b
  <2>3. EmptyCache(g) \in CacheOf(g)
    BY <2>1, <2>2 DEF CacheOf
  <2>4. \A s \in 0 .. g.sets - 1, w \in Ways(g) : EmptyCache(g)[s][w] = b
    BY <2>2
  <2>5. Consistent(g, EmptyCache(g)) /\ Dense(g, EmptyCache(g))
    BY <2>1, <2>4 DEF Consistent, Dense, DenseLine
  <2>6. \A a \in Nat : ~IsBlock(g, EmptyCache(g), a)
    BY <2>1, <2>4, SetInRange DEF IsBlock, Match, Line
  <2> QED  BY <2>3, <2>5, <2>6
<1> QED  BY <1>1, Geometries, Addresses DEF Init, Good, Included

(* The snoop and the eviction from L2: the victim is in neither cache      *)
(* afterwards, and L2 has room for the new block.                          *)
LEMMA EvictionKeeps ==
  ASSUME Good(l1, l2), NEW a \in Addrs, ~IsFree(L2, l2, a),
         NEW v \in Victims(L2, l2, a)
  PROVE  /\ Good(Snooped(v), Dropped(v))
         /\ IsFree(L2, Dropped(v), a)
         /\ \A b \in Addrs :
              /\ IsBlock(L1, Snooped(v), b) => IsBlock(L1, l1, b)
              /\ IsBlock(L2, Dropped(v), b) => IsBlock(L2, l2, b)
<1> DEFINE e2 == Drained(v)
           s  == GetSet(L2, v)
<1>1. a \in Nat
  BY Addresses
<1>2. /\ v \in Addrs /\ v \in Nat /\ IsBlock(L2, l2, v)
      /\ s = GetSet(L2, a)
      /\ \A w \in Match(L2, l2, v) : l2[s][w].lru = L2.ways - 1
  BY <1>1, Geometries, Addresses, VictimOfDense DEF Good
<1>3. /\ e2 \in CacheOf(L2) /\ SameBlocks(L2, l2, e2) /\ SameAges(L2, l2, e2)
  BY <1>2, Geometries, SetDirtyEffect
  DEF Drained, Good, SameBlocks, SameAges
<1>4. Consistent(L2, e2) /\ Dense(L2, e2)
  BY <1>3, Geometries, SameBlocksConsistent, SameAgesDense DEF Good
<1>5. /\ IsBlock(L2, e2, v)
      /\ \A w \in Match(L2, e2, v) : e2[s][w].lru = L2.ways - 1
      /\ \A b \in Addrs : IsBlock(L2, e2, b) <=> IsBlock(L2, l2, b)
  <2>1. s \in 0 .. L2.sets - 1
    BY <1>2, Geometries, SetInRange
  <2>2. Match(L2, e2, v) = Match(L2, l2, v)
    BY <1>2, <1>3, Geometries, SameBlocksSameSearch
  <2>3. Match(L2, l2, v) \in SUBSET Ways(L2)
    BY Geometries, WaySets
  <2>4. \A b \in Addrs : IsBlock(L2, e2, b) <=> IsBlock(L2, l2, b)
    BY <1>3, Geometries, Addresses, SameBlocksSameSearch
  <2> HIDE DEF e2, s
  <2> QED  BY <1>2, <1>3, <2>1, <2>2, <2>3, <2>4 DEF SameAges
<1>6. Dropped(v) = SetInvalid(L2, e2, v) /\ Snooped(v) = SetInvalid(L1, l1, v)
  BY DEF Dropped, Snooped
<1> HIDE DEF e2
<1>7. /\ Dropped(v) \in CacheOf(L2) /\ Consistent(L2, Dropped(v))
      /\ Dense(L2, Dropped(v)) /\ IsFree(L2, Dropped(v), v)
      /\ \A b \in Addrs : IsBlock(L2, Dropped(v), b) <=>
           IsBlock(L2, l2, b) /\ BlockOf(b) # BlockOf(v)
  BY <1>2, <1>3, <1>4, <1>5, <1>6, Geometries, Addresses, SetInvalidEffect,
     SetInvalidConsistent, SetInvalidDense, SetInvalidSearch
<1>8. /\ Snooped(v) \in CacheOf(L1) /\ Consistent(L1, Snooped(v))
      /\ \A b \in Addrs : IsBlock(L1, Snooped(v), b) <=>
           IsBlock(L1, l1, b) /\ BlockOf(b) # BlockOf(v)
  <2>1. l1 \in CacheOf(L1) /\ Consistent(L1, l1) /\ v \in Nat
    BY <1>2 DEF Good
  <2>2. Snooped(v) \in CacheOf(L1)
    BY <1>6, <2>1, Geometries, SetInvalidEffect
  <2>3. Consistent(L1, Snooped(v))
    BY <1>6, <2>1, Geometries, SetInvalidConsistent
  <2>4. \A b \in Addrs : IsBlock(L1, Snooped(v), b) <=>
           IsBlock(L1, l1, b) /\ BlockOf(b) # BlockOf(v)
    BY <1>6, <2>1, Geometries, Addresses, SetInvalidSearch
  <2> QED  BY <2>2, <2>3, <2>4
<1>9. IsFree(L2, Dropped(v), a)
  BY <1>2, <1>7 DEF IsFree, Free, Line
<1> QED  BY <1>7, <1>8, <1>9 DEF Good, Included

(* A block newly placed in L2 keeps the pair good, and is there.           *)
LEMMA PlacingInL2Keeps ==
  ASSUME NEW c1, NEW c2, NEW a \in Addrs, Good(c1, c2),
         IsFree(L2, c2, a), ~IsBlock(L2, c2, a)
  PROVE  Good(c1, NewBlock(L2, c2, a)) /\ IsBlock(L2, NewBlock(L2, c2, a), a)
<1> DEFINE d == NewBlock(L2, c2, a)
<1>1. /\ d \in CacheOf(L2) /\ Consistent(L2, d) /\ Dense(L2, d)
      /\ \A b \in Addrs : IsBlock(L2, d, b) <=>
           IsBlock(L2, c2, b) \/ BlockOf(b) = BlockOf(a)
  BY Geometries, NewBlockKeeps DEF Good
<1> HIDE DEF d
<1>2. Good(c1, d) /\ IsBlock(L2, d, a)
  BY <1>1 DEF Good, Included
<1> QED  BY <1>2 DEF d

LEMMA NextGood == IInv /\ [Next]_vars => IInv'
<1> SUFFICES ASSUME Good(l1, l2), [Next]_vars
             PROVE  Good(l1', l2')
  BY DEF IInv
<1>1. CASE UNCHANGED vars
  BY <1>1 DEF vars
<1>2. ASSUME NEW op \in Ops, NEW a \in Addrs, HitL1(op, a)
      PROVE  Good(l1', l2')
  <2>1. /\ l1' \in CacheOf(L1) /\ Consistent(L1, l1')
        /\ SameBlocks(L1, l1, l1')
    BY <1>2, Geometries, AccessedEffect DEF HitL1, Good
  <2>2. \A b \in Addrs : IsBlock(L1, l1', b) <=> IsBlock(L1, l1, b)
    BY <2>1, Geometries, Addresses, SameBlocksSameSearch
  <2> QED  BY <1>2, <2>1, <2>2 DEF HitL1, Good, Included
<1>3. ASSUME NEW op \in Ops, NEW a \in Addrs, HitL2(op, a)
      PROVE  Good(l1', l2')
  <2> DEFINE d == Accessed(L2, l2, op, a)
  <2>1. /\ d \in CacheOf(L2) /\ Consistent(L2, d) /\ Dense(L2, d)
        /\ SameBlocks(L2, l2, d)
    BY <1>3, Geometries, AccessedEffect DEF HitL2, Good
  <2>2. ~IsBlock(L1, l1, a) /\ IsBlock(L2, l2, a) /\ FillL1(op, a, l1, d)
    BY <1>3 DEF HitL2
  <2> HIDE DEF d
  <2>3. \A b \in Addrs : IsBlock(L2, d, b) <=> IsBlock(L2, l2, b)
    BY <2>1, Geometries, Addresses, SameBlocksSameSearch
  <2>4. Good(l1, d)
    BY <2>1, <2>3 DEF Good, Included
  <2> QED  BY <2>2, <2>3, <2>4, FillL1Keeps
<1>4. ASSUME NEW op \in Ops, NEW a \in Addrs, WriteAround(op, a)
      PROVE  Good(l1', l2')
  BY <1>4 DEF WriteAround, vars
<1>5. ASSUME NEW op \in Ops, NEW a \in Addrs, MissFree(op, a)
      PROVE  Good(l1', l2')
  <2> DEFINE d == NewBlock(L2, l2, a)
  <2>1. Good(l1, d) /\ IsBlock(L2, d, a)
    BY <1>5, PlacingInL2Keeps DEF MissFree
  <2>2. ~IsBlock(L1, l1, a) /\ FillL1(op, a, l1, d)
    BY <1>5 DEF MissFree
  <2> HIDE DEF d
  <2> QED  BY <2>1, <2>2, FillL1Keeps
<1>6. ASSUME NEW op \in Ops, NEW a \in Addrs, MissEvict(op, a)
      PROVE  Good(l1', l2')
  <2>1. PICK v \in Victims(L2, l2, a) :
          FillL1(op, a, Snooped(v), NewBlock(L2, Dropped(v), a))
    BY <1>6 DEF MissEvict
  <2> DEFINE c1 == Snooped(v)
             c2 == Dropped(v)
             d  == NewBlock(L2, c2, a)
  <2>2. /\ ~IsBlock(L1, l1, a) /\ ~IsBlock(L2, l2, a) /\ ~IsFree(L2, l2, a)
    BY <1>6 DEF MissEvict
  <2>3. /\ Good(c1, c2) /\ IsFree(L2, c2, a)
        /\ ~IsBlock(L1, c1, a) /\ ~IsBlock(L2, c2, a)
    BY <2>2, EvictionKeeps
  <2>4. FillL1(op, a, c1, d)
    BY <2>1
  <2> HIDE DEF c1, c2
  <2>5. Good(c1, d) /\ IsBlock(L2, d, a)
    BY <2>3, PlacingInL2Keeps
  <2> HIDE DEF d
  <2> QED  BY <2>3, <2>4, <2>5, FillL1Keeps
<1> QED  BY <1>1, <1>2, <1>3, <1>4, <1>5, <1>6 DEF Next, RunCommand

LEMMA AlwaysGood == Spec => []IInv
BY InitGood, NextGood, PTL DEF Spec

-----------------------------------------------------------------------------
(* The caches keep their type, and so does every age of a block, for all   *)
(* geometries: no updateLRU runs without a matching block.                 *)
THEOREM TypeCorrect == Spec => []TypeOK
<1>1. IInv => TypeOK
  BY DEF IInv, Good, TypeOK
<1> QED  BY <1>1, AlwaysGood, PTL

(* Everything in L1 is in L2, whatever the sizes of the two: also when the *)
(* L1 victim is the undefined value of chooseVictim.                       *)
THEOREM InclusionHolds == Spec => []Inclusion
<1>1. IInv => Inclusion
  BY DEF IInv, Good, Included, Inclusion
<1> QED  BY <1>1, AlwaysGood, PTL

(* The address of a victim names the block it was read from, and no other. *)
THEOREM VictimsAreBlocks == Spec => []VictimIsTheBlock
<1>1. IInv => VictimIsTheBlock
  BY DEF IInv, Good, VictimIsTheBlock
<1> QED  BY <1>1, AlwaysGood, PTL

(* The ages of L2 never have a gap.                                        *)
THEOREM L2AgesAlwaysDense == Spec => []L2AgesDense
<1>1. IInv => L2AgesDense
  BY DEF IInv, Good, L2AgesDense
<1> QED  BY <1>1, AlwaysGood, PTL

(* chooseVictim of L2 always returns the address of a block: the function  *)
(* does not fall off its end at this level, in any configuration.          *)
THEOREM L2VictimFound ==
  Spec => [](\A a \in Addrs : ~IsFree(L2, l2, a) => Oldest(L2, l2, a) # {})
<1>1. ASSUME IInv, NEW a \in Addrs, ~IsFree(L2, l2, a)
      PROVE  Oldest(L2, l2, a) # {}
  <2>1. GetSet(L2, a) \in 0 .. L2.sets - 1
    BY Geometries, Addresses, SetInRange
  <2>2. /\ DenseLine(L2, Line(L2, l2, a))
        /\ \A w \in Ways(L2) : Line(L2, l2, a)[w].lru \in 0 .. L2.ways
    BY <1>1, <2>1, Geometries, AgesAreNumbers DEF IInv, Good, Dense, Line
  <2>3. \A w \in Ways(L2) : Line(L2, l2, a)[w].valid
    BY <1>1 DEF IsFree, Free
  <2> QED  BY <2>2, <2>3, Geometries, FullLineHasOldest DEF Oldest
<1>2. IInv => \A a \in Addrs : ~IsFree(L2, l2, a) => Oldest(L2, l2, a) # {}
  BY <1>1
<1> QED  BY <1>2, AlwaysGood, PTL

-----------------------------------------------------------------------------
(* No write is lost (module CacheHistory).                                 *)

Dirty(c1, c2, b) == IsDirty(L1, c1, b) \/ IsDirty(L2, c2, b)

LEMMA FilledDirt ==
  ASSUME NEW c \in CacheOf(L1), NEW a \in Addrs, NEW op, Consistent(L1, c),
         ~IsBlock(L1, c, a)
  PROVE  /\ KeepsDirty(L1, c, Filled(c, op, a))
         /\ op = "w" /\ IsFree(L1, c, a) => IsDirty(L1, Filled(c, op, a), a)
<1> DEFINE n == NewBlock(L1, c, a)
           d == SetDirty(L1, n, a)
<1>1. /\ n \in CacheOf(L1) /\ KeepsDirty(L1, c, n)
      /\ IsFree(L1, c, a) => IsBlock(L1, n, a)
  <2>1. n \in CacheOf(L1) /\ (IsFree(L1, c, a) => IsBlock(L1, n, a))
    BY Geometries, Addresses, NewBlockKeeps
  <2>2. CASE IsFree(L1, c, a)
    BY <2>1, <2>2, Geometries, Addresses, NewBlockDirt
  <2>3. CASE ~IsFree(L1, c, a)
    BY <2>1, <2>3 DEF NewBlock, KeepsDirty
  <2> QED  BY <2>1, <2>2, <2>3
<1> HIDE DEF n
<1>2. KeepsDirty(L1, n, d) /\ (IsBlock(L1, n, a) => IsDirty(L1, d, a))
  BY <1>1, Geometries, Addresses, SetDirtyDirt
<1>3. KeepsDirty(L1, c, d)
  BY <1>1, <1>2 DEF KeepsDirty
<1>4. Filled(c, op, a) = IF op = "w" THEN d ELSE n
  BY DEF Filled, n
<1> QED  BY <1>1, <1>2, <1>3, <1>4

(* A victim that chooseVictim did find leaves its way to the new block.    *)
LEMMA VictimMakesRoom ==
  ASSUME NEW c \in CacheOf(L1), Consistent(L1, c), NEW a \in Addrs,
         Oldest(L1, c, a) # {}, NEW v \in Victims(L1, c, a)
  PROVE  v \in Addrs /\ IsFree(L1, SetInvalid(L1, c, v), a)
<1> DEFINE u == Min(Oldest(L1, c, a))
           s == GetSet(L1, a)
           d == SetInvalid(L1, c, v)
<1>1. s \in 0 .. L1.sets - 1
  BY Geometries, Addresses, SetInRange
<1>2. u \in Oldest(L1, c, a) /\ v = c[s][u].addr
  BY Geometries, WaySets DEF Victims, Line
<1> HIDE DEF u
<1>3. u \in Ways(L1) /\ c[s][u].valid
  BY <1>2 DEF Oldest, Line
<1>4. v \in Addrs /\ GetSet(L1, v) = s /\ GetTag(L1, v) = c[s][u].tag
  BY <1>1, <1>2, <1>3 DEF Consistent
<1>5. u \in Match(L1, c, v)
  BY <1>3, <1>4 DEF Match, Line
<1>6. ~d[s][u].valid
  BY <1>1, <1>3, <1>4, <1>5, Geometries, Addresses, SetInvalidEffect
<1> QED  BY <1>3, <1>4, <1>6 DEF IsFree, Free, Line

(* L1 as c has a way for the block of a, or finds a victim for it.         *)
Findable(c, a) == IsFree(L1, c, a) \/ Oldest(L1, c, a) # {}

LEMMA FillL1Dirt ==
  ASSUME NEW c1, NEW c2, NEW a \in Addrs, NEW op \in Ops,
         Good(c1, c2), IsBlock(L2, c2, a), ~IsBlock(L1, c1, a),
         FillL1(op, a, c1, c2)
  PROVE  /\ \A b \in Addrs : Dirty(c1, c2, b) => Dirty(l1', l2', b)
         /\ op = "w" /\ BlockAlloc(op) /\ Findable(c1, a) =>
              IsDirty(L1, l1', a)
         /\ \A b \in Addrs : IsBlock(L2, l2', b) <=> IsBlock(L2, c2, b)
<1>1. CASE ~BlockAlloc(op)
  BY <1>1 DEF FillL1
<1>2. CASE BlockAlloc(op) /\ IsFree(L1, c1, a)
  <2>1. l1' = Filled(c1, op, a) /\ l2' = c2
    BY <1>2 DEF FillL1
  <2>2. KeepsDirty(L1, c1, l1') /\ (op = "w" => IsDirty(L1, l1', a))
    BY <1>2, <2>1, FilledDirt DEF Good
  <2>3. \A b \in Addrs : IsDirty(L1, c1, b) => IsDirty(L1, l1', b)
    BY <2>2, Geometries, Addresses, KeepsDirtySearch
  <2> QED  BY <2>1, <2>2, <2>3 DEF Dirty
<1>3. CASE BlockAlloc(op) /\ ~IsFree(L1, c1, a)
  <2>1. PICK v \in Victims(L1, c1, a) :
          /\ l1' = Filled(SetInvalid(L1, c1, v), op, a)
          /\ l2' = IF IsDirty(L1, c1, v) THEN WriteBlock(L2, c2, v) ELSE c2
    BY <1>3 DEF FillL1
  <2> DEFINE d1 == SetInvalid(L1, c1, v)
  <2>2. /\ v \in Addrs /\ v \in Nat
        /\ Findable(c1, a) => IsFree(L1, d1, a)
    BY <1>3, Geometries, VictimIsAnAddress, VictimMakesRoom, Addresses
    DEF Good, Findable
  <2>3. d1 \in CacheOf(L1) /\ Consistent(L1, d1) /\ ~IsBlock(L1, d1, a)
    BY <2>2, Geometries, Addresses, SetInvalidEffect, SetInvalidConsistent,
       SetInvalidSearch DEF Good
  <2>4. \A b \in Addrs : BlockOf(b) # BlockOf(v) /\ IsDirty(L1, c1, b) =>
          IsDirty(L1, d1, b)
    BY <2>2, Geometries, Addresses, SetInvalidDirt DEF Good
  <2> HIDE DEF d1
  <2>5. /\ KeepsDirty(L1, d1, l1')
        /\ op = "w" /\ Findable(c1, a) => IsDirty(L1, l1', a)
    BY <2>1, <2>2, <2>3, FilledDirt DEF d1
  <2>6. \A b \in Addrs : IsDirty(L1, d1, b) => IsDirty(L1, l1', b)
    BY <2>5, Geometries, Addresses, KeepsDirtySearch
  <2>7. CASE ~IsDirty(L1, c1, v)
    <3>1. l2' = c2
      BY <2>1, <2>7
    <3>2. \A b \in Addrs : IsDirty(L1, c1, b) => BlockOf(b) # BlockOf(v)
      BY <2>2, <2>7, Geometries, Addresses, SameBlockSameDirt
    <3> QED  BY <2>4, <2>5, <2>6, <3>1, <3>2 DEF Dirty
  <2>8. CASE IsDirty(L1, c1, v)
    <3>1. l2' = WriteBlock(L2, c2, v) /\ IsBlock(L2, c2, v)
      BY <2>1, <2>2, <2>8, DirtyIsBlock DEF Good, Included
    <3>2. /\ SameBlocks(L2, c2, l2') /\ KeepsDirty(L2, c2, l2')
          /\ IsDirty(L2, l2', v)
      BY <2>2, <3>1, Geometries, WriteBlockEffect, WriteBlockDirt DEF Good
    <3>3. \A b \in Addrs : BlockOf(b) = BlockOf(v) => IsDirty(L2, l2', b)
      BY <2>2, <3>2, Geometries, Addresses, SameBlockSameDirt
    <3>4. \A b \in Addrs : /\ IsDirty(L2, c2, b) => IsDirty(L2, l2', b)
                           /\ IsBlock(L2, l2', b) <=> IsBlock(L2, c2, b)
      BY <3>2, Geometries, Addresses, KeepsDirtySearch, SameBlocksSameSearch
    <3> QED  BY <2>4, <2>5, <2>6, <3>3, <3>4 DEF Dirty
  <2> QED  BY <2>7, <2>8
<1> QED  BY <1>1, <1>2, <1>3

(* What L2 evicts was drained of its dirty bit before.                     *)
LEMMA EvictionDirt ==
  ASSUME Good(l1, l2), NEW a \in Addrs, ~IsFree(L2, l2, a),
         NEW v \in Victims(L2, l2, a), NEW b \in Addrs, Dirty(l1, l2, b)
  PROVE  IF BlockOf(b) = BlockOf(v) THEN IsDirty(L2, Drained(v), v)
         ELSE Dirty(Snooped(v), Dropped(v), b)
<1> DEFINE e2 == Drained(v)
<1>1. v \in Addrs /\ v \in Nat /\ b \in Nat
  BY Geometries, Addresses, VictimOfDense DEF Good
<1>2. e2 \in CacheOf(L2) /\ KeepsDirty(L2, l2, e2)
  BY <1>1, Geometries, SetDirtyEffect, SetDirtyDirt
  DEF Drained, Good, KeepsDirty
<1>3. IsDirty(L1, l1, v) => IsDirty(L2, e2, v)
  <2>1. IsDirty(L1, l1, v) => IsBlock(L2, l2, v)
    BY <1>1, DirtyIsBlock DEF Good, Included
  <2> QED  BY <1>1, <2>1, Geometries, SetDirtyDirt DEF Drained, Good
<1>4. Dropped(v) = SetInvalid(L2, e2, v) /\ Snooped(v) = SetInvalid(L1, l1, v)
  BY DEF Dropped, Snooped
<1> HIDE DEF e2
<1>5. IsDirty(L2, l2, b) => IsDirty(L2, e2, b)
  BY <1>1, <1>2, Geometries, KeepsDirtySearch
<1>6. CASE BlockOf(b) = BlockOf(v)
  <2>1. /\ IsDirty(L1, l1, b) => IsDirty(L1, l1, v)
        /\ IsDirty(L2, e2, b) => IsDirty(L2, e2, v)
    BY <1>1, <1>6, Geometries, SameBlockSameDirt
  <2> QED  BY <1>3, <1>5, <1>6, <2>1 DEF Dirty, e2
<1>7. CASE BlockOf(b) # BlockOf(v)
  BY <1>1, <1>2, <1>4, <1>5, <1>7, Geometries, SetInvalidDirt DEF Dirty, Good
<1> QED  BY <1>6, <1>7

(* A snoop frees a way of the line, or leaves the line as it is.           *)
LEMMA SnoopLeavesVictim ==
  ASSUME l1 \in CacheOf(L1), NEW v \in Addrs, NEW a \in Addrs, FindsWay(a)
  PROVE  Findable(Snooped(v), a)
<1> DEFINE c1 == Snooped(v)
<1>1. \A x \in 0 .. L1.sets - 1, w \in Ways(L1) :
        c1[x][w].valid => c1[x][w] = l1[x][w]
  BY Geometries, Addresses, SetInvalidEffect DEF Snooped
<1>2. GetSet(L1, a) \in 0 .. L1.sets - 1
  BY Geometries, Addresses, SetInRange
<1> HIDE DEF c1
<1>3. ~IsFree(L1, c1, a) =>
        ~IsFree(L1, l1, a) /\ Oldest(L1, c1, a) = Oldest(L1, l1, a)
  BY <1>1, <1>2 DEF IsFree, Free, Oldest, Line
<1>4. Findable(c1, a)
  BY <1>3 DEF Findable, FindsWay
<1> QED  BY <1>4 DEF c1

(* The dirty bits after a command: those before it but for what L2 saved,  *)
(* and the one of the address written.                                     *)
LEMMA CommandDirt ==
  ASSUME IInv, NEW op \in Ops, NEW a \in Addrs, RunCommand(op, a)
  PROVE  /\ WritesCache(op, a) => Dirty(l1', l2', a)
         /\ \A b \in Addrs : Dirty(l1, l2, b) =>
              Dirty(l1', l2', b) \/ SavedByEviction(BlockOf(b))
<1> USE DEF IInv
<1>1. a \in Nat /\ (op = "w" => op # "r")
  BY Addresses
<1>2. FindsWay(a) => Findable(l1, a)
  BY DEF FindsWay, Findable
<1>3. ASSUME NEW g \in Geometry, NEW c \in CacheOf(g), Consistent(g, c),
             IsBlock(g, c, a)
      PROVE  /\ \A b \in Addrs : IsDirty(g, c, b) =>
                  IsDirty(g, Accessed(g, c, op, a), b)
             /\ op = "w" => IsDirty(g, Accessed(g, c, op, a), a)
  <2> DEFINE e == UpdateLRU(g, c, a)
             d == SetDirty(g, e, a)
  <2>1. /\ e \in CacheOf(g) /\ IsBlock(g, e, a) /\ KeepsDirty(g, c, e)
    BY <1>1, <1>3, UpdateLRUEffect, UpdateLRUDirt, SameBlocksSameSearch
  <2> HIDE DEF e
  <2>2. KeepsDirty(g, e, d) /\ IsDirty(g, d, a)
    BY <1>1, <2>1, SetDirtyDirt
  <2>3. Accessed(g, c, op, a) = IF op = "w" THEN d ELSE e
    BY DEF Accessed, e
  <2> QED  BY <2>1, <2>2, <2>3, Addresses, KeepsDirtySearch
<1>4. CASE HitL1(op, a)
  <2>1. l1' = Accessed(L1, l1, op, a) /\ l2' = l2 /\ IsBlock(L1, l1, a)
    BY <1>4 DEF HitL1
  <2> QED  BY <1>3, <2>1, Geometries DEF Good, Dirty, WritesCache
<1>5. CASE HitL2(op, a)
  <2> DEFINE d == Accessed(L2, l2, op, a)
  <2>1. /\ d \in CacheOf(L2) /\ Consistent(L2, d) /\ Dense(L2, d)
        /\ SameBlocks(L2, l2, d)
    BY <1>5, Geometries, AccessedEffect DEF HitL2, Good
  <2>2. ~IsBlock(L1, l1, a) /\ IsBlock(L2, l2, a) /\ FillL1(op, a, l1, d)
    BY <1>5 DEF HitL2
  <2>3. /\ \A b \in Addrs : IsDirty(L2, l2, b) => IsDirty(L2, d, b)
        /\ op = "w" => IsDirty(L2, d, a)
    BY <1>3, <2>2, Geometries DEF Good
  <2> HIDE DEF d
  <2>4. \A b \in Addrs : IsBlock(L2, d, b) <=> IsBlock(L2, l2, b)
    BY <2>1, Geometries, Addresses, SameBlocksSameSearch
  <2>5. Good(l1, d) /\ IsBlock(L2, d, a)
    BY <2>1, <2>2, <2>4 DEF Good, Included
  <2>6. \A b \in Addrs : Dirty(l1, d, b) => Dirty(l1', l2', b)
    BY <2>2, <2>5, FillL1Dirt
  <2> QED  BY <2>2, <2>3, <2>6 DEF Dirty, WritesCache
<1>6. CASE WriteAround(op, a)
  BY <1>6 DEF WriteAround, WritesCache, vars
<1>7. CASE MissFree(op, a)
  <2> DEFINE d == NewBlock(L2, l2, a)
  <2>1. Good(l1, d) /\ IsBlock(L2, d, a)
    BY <1>7, PlacingInL2Keeps DEF MissFree
  <2>2. /\ ~IsBlock(L1, l1, a) /\ ~IsBlock(L2, l2, a) /\ BlockAlloc(op)
        /\ FillL1(op, a, l1, d)
    BY <1>7 DEF MissFree
  <2>3. \A b \in Addrs : IsDirty(L2, l2, b) => IsDirty(L2, d, b)
    BY <1>1, <2>2, Geometries, Addresses, NewBlockDirt, KeepsDirtySearch DEF Good
  <2> HIDE DEF d
  <2>4. /\ \A b \in Addrs : Dirty(l1, d, b) => Dirty(l1', l2', b)
        /\ op = "w" /\ FindsWay(a) => IsDirty(L1, l1', a)
    BY <1>2, <2>1, <2>2, FillL1Dirt
  <2> QED  BY <2>2, <2>3, <2>4 DEF Dirty, WritesCache
<1>8. CASE MissEvict(op, a)
  <2>1. PICK v \in Victims(L2, l2, a) :
          FillL1(op, a, Snooped(v), NewBlock(L2, Dropped(v), a))
    BY <1>8 DEF MissEvict
  <2> DEFINE c1 == Snooped(v)
             c2 == Dropped(v)
             d  == NewBlock(L2, c2, a)
  <2>2. /\ ~IsBlock(L1, l1, a) /\ ~IsBlock(L2, l2, a) /\ ~IsFree(L2, l2, a)
        /\ BlockAlloc(op)
    BY <1>8 DEF MissEvict
  <2>3. /\ Good(c1, c2) /\ IsFree(L2, c2, a)
        /\ ~IsBlock(L1, c1, a) /\ ~IsBlock(L2, c2, a)
    BY <2>2, EvictionKeeps
  <2>4. v \in Addrs /\ v \in Nat /\ IsBlock(L2, l2, v)
    BY <2>2, Geometries, Addresses, VictimOfDense DEF Good
  <2>5. FindsWay(a) => Findable(c1, a)
    BY <2>4, SnoopLeavesVictim DEF Good
  <2>6. \A b \in Nat : BlockOf(b) = BlockOf(v) => ~IsBlock(L2, c2, b)
    <3>1. Drained(v) \in CacheOf(L2)
      BY <2>4, Geometries, SetDirtyEffect DEF Drained, Good
    <3> QED  BY <2>4, <3>1, Geometries, SetInvalidSearch DEF Dropped
  <2>7. \A b \in Addrs : Dirty(l1, l2, b) =>
          IF BlockOf(b) = BlockOf(v) THEN IsDirty(L2, Drained(v), v)
          ELSE Dirty(c1, c2, b)
    BY <2>2, EvictionDirt
  <2>8. BlockOf(v) # BlockOf(a)
    BY <1>1, <2>2, <2>4, Geometries, SameBlockSameSearch
  <2>9. FillL1(op, a, c1, d)
    BY <2>1
  <2> HIDE DEF c1, c2
  <2>10. Good(c1, d) /\ IsBlock(L2, d, a)
    BY <2>3, PlacingInL2Keeps
  <2>11. \A b \in Addrs : /\ IsDirty(L2, c2, b) => IsDirty(L2, d, b)
                          /\ IsBlock(L2, d, b) <=>
                               IsBlock(L2, c2, b) \/ BlockOf(b) = BlockOf(a)
    BY <1>1, <2>3, Geometries, Addresses, NewBlockKeeps, NewBlockDirt,
       KeepsDirtySearch DEF Good
  <2> HIDE DEF d
  <2>12. /\ \A b \in Addrs : Dirty(c1, d, b) => Dirty(l1', l2', b)
         /\ op = "w" /\ FindsWay(a) => IsDirty(L1, l1', a)
         /\ \A b \in Addrs : IsBlock(L2, l2', b) <=> IsBlock(L2, d, b)
    BY <2>2, <2>3, <2>5, <2>9, <2>10, FillL1Dirt
  <2>13. ~Holds(L2, l2', BlockOf(v))
    BY <2>6, <2>8, <2>11, <2>12, Addresses DEF Holds
  <2>14. IsDirty(L2, Drained(v), v) => SavedByEviction(BlockOf(v))
    BY <2>4, <2>13 DEF SavedByEviction
  <2>15. WritesCache(op, a) => Dirty(l1', l2', a)
    BY <2>2, <2>12 DEF WritesCache, Dirty
  <2>16. \A b \in Addrs : BlockOf(b) # BlockOf(v) /\ Dirty(l1, l2, b) =>
           Dirty(l1', l2', b)
    BY <2>7, <2>11, <2>12 DEF Dirty
  <2>17. \A b \in Addrs : BlockOf(b) = BlockOf(v) /\ Dirty(l1, l2, b) =>
           SavedByEviction(BlockOf(b))
    BY <2>7, <2>14
  <2> QED  BY <2>15, <2>16, <2>17
<1> QED  BY <1>4, <1>5, <1>6, <1>7, <1>8 DEF RunCommand

UnsavedAreDirty ==
  \A u \in unsaved : \E b \in Addrs : BlockOf(b) = u /\ Dirty(l1, l2, b)

LEMMA UnsavedStep ==
  IInv /\ UnsavedAreDirty /\ [HistoryNext]_allVars => UnsavedAreDirty'
<1> SUFFICES ASSUME IInv, UnsavedAreDirty, [HistoryNext]_allVars
             PROVE  UnsavedAreDirty'
  OBVIOUS
<1>1. CASE UNCHANGED allVars
  BY <1>1 DEF allVars, UnsavedAreDirty, Dirty
<1>2. ASSUME NEW op \in Ops, NEW a \in Addrs, Remembered(op, a)
      PROVE  UnsavedAreDirty'
  <2>1. /\ WritesCache(op, a) => Dirty(l1', l2', a)
        /\ \A b \in Addrs : Dirty(l1, l2, b) =>
             Dirty(l1', l2', b) \/ SavedByEviction(BlockOf(b))
    BY <1>2, CommandDirt DEF Remembered
  <2>2. \A u \in unsaved' : /\ ~SavedByEviction(u)
                            /\ \/ u \in unsaved
                               \/ WritesCache(op, a) /\ u = BlockOf(a)
    BY <1>2 DEF Remembered
  <2>3. ASSUME NEW u \in unsaved'
        PROVE  \E b \in Addrs : BlockOf(b) = u /\ Dirty(l1', l2', b)
    BY <2>1, <2>2 DEF UnsavedAreDirty
  <2> QED  BY <2>3 DEF UnsavedAreDirty, Dirty
<1> QED  BY <1>1, <1>2 DEF HistoryNext

LEMMA HistoryIsGood == HistorySpec => []IInv
<1>1. HistoryInit => IInv
  BY InitGood DEF HistoryInit
<1>2. IInv /\ [HistoryNext]_allVars => IInv'
  <2>1. [HistoryNext]_allVars => [Next]_vars
    BY DEF HistoryNext, Remembered, Next, allVars, vars
  <2> QED  BY <2>1, NextGood
<1> QED  BY <1>1, <1>2, PTL DEF HistorySpec

(* No write is lost between the levels, for all sizes and whatever the     *)
(* undefined chooseVictim of L1 returns: the dirty bit of a block is in L1 *)
(* or L2, handed down by the write-back and by the snoop, or saved by L2.  *)
(* The only exception is the write that finds no way in L1 (WritesCache).  *)
THEOREM WritesKept == HistorySpec => []NoWriteLost
<1>1. HistoryInit => UnsavedAreDirty
  BY DEF HistoryInit, UnsavedAreDirty
<1>2. UnsavedAreDirty => NoWriteLost
  BY DEF UnsavedAreDirty, NoWriteLost, Dirty, HoldsDirty
<1> QED  BY <1>1, <1>2, HistoryIsGood, UnsavedStep, PTL DEF HistorySpec

-----------------------------------------------------------------------------
(* With one way in each line of L1 there is no gap in the ages.            *)

AllYoung(c) ==
  \A s \in 0 .. L1.sets - 1, w \in Ways(L1) : c[s][w].valid => c[s][w].lru = 0

LEMMA YoungAfterUse ==
  ASSUME L1Ways = 1, NEW c, NEW d, AllYoung(c),
         NEW s \in 0 .. L1.sets - 1, NEW u \in Ways(L1),
         Rejuvenated(L1, c, d, s, u),
         \A x \in 0 .. L1.sets - 1, w \in Ways(L1) :
           x # s => d[x][w].valid = c[x][w].valid
  PROVE  AllYoung(d)
<1>1. Ways(L1) = {0}
  BY DEF Ways, L1
<1> QED  BY <1>1 DEF AllYoung, Rejuvenated

LEMMA YoungAfterSetDirty ==
  ASSUME NEW c \in CacheOf(L1), AllYoung(c), NEW a \in Addrs
  PROVE  AllYoung(SetDirty(L1, c, a))
<1> DEFINE d == SetDirty(L1, c, a)
<1>1. SameBlocks(L1, c, d) /\ SameAges(L1, c, d)
  BY Geometries, Addresses, SetDirtyEffect
<1> HIDE DEF d
<1>2. AllYoung(d)
  BY <1>1 DEF AllYoung, SameBlocks, SameAges
<1> QED  BY <1>2 DEF d

LEMMA YoungAfterSetInvalid ==
  ASSUME NEW c \in CacheOf(L1), AllYoung(c), NEW a \in Addrs
  PROVE  AllYoung(SetInvalid(L1, c, a))
<1> DEFINE d == SetInvalid(L1, c, a)
<1>1. \A s \in 0 .. L1.sets - 1, w \in Ways(L1) :
        d[s][w].valid => d[s][w] = c[s][w]
  BY Geometries, Addresses, SetInvalidEffect
<1> HIDE DEF d
<1>2. AllYoung(d)
  BY <1>1 DEF AllYoung
<1> QED  BY <1>2 DEF d

LEMMA YoungAfterFilled ==
  ASSUME L1Ways = 1, NEW c \in CacheOf(L1), AllYoung(c), Consistent(L1, c),
         NEW a \in Addrs, NEW op, ~IsBlock(L1, c, a)
  PROVE  AllYoung(Filled(c, op, a))
<1> DEFINE n == NewBlock(L1, c, a)
           s == GetSet(L1, a)
<1>1. n \in CacheOf(L1)
  BY Geometries, NewBlockKeeps
<1>2. AllYoung(n)
  <2>1. CASE ~IsFree(L1, c, a)
    BY <2>1 DEF NewBlock
  <2>2. CASE IsFree(L1, c, a)
    <3>1. PICK f \in Ways(L1) : Placed(L1, c, n, a, f)
      BY <2>2, Geometries, Addresses, NewBlockEffect
    <3>2. s \in 0 .. L1.sets - 1
      BY Geometries, Addresses, SetInRange
    <3> HIDE DEF n
    <3> QED  BY <3>1, <3>2, YoungAfterUse DEF Placed
  <2> QED  BY <2>1, <2>2
<1> QED  BY <1>1, <1>2, YoungAfterSetDirty DEF Filled

LEMMA YoungAfterFill ==
  ASSUME L1Ways = 1, NEW c1, NEW c2, NEW a \in Addrs, NEW op \in Ops,
         Good(c1, c2), AllYoung(c1), ~IsBlock(L1, c1, a), FillL1(op, a, c1, c2)
  PROVE  AllYoung(l1')
<1>1. CASE ~BlockAlloc(op)
  BY <1>1 DEF FillL1
<1>2. CASE BlockAlloc(op) /\ IsFree(L1, c1, a)
  BY <1>2, YoungAfterFilled DEF FillL1, Good
<1>3. CASE BlockAlloc(op) /\ ~IsFree(L1, c1, a)
  <2>1. PICK v \in Victims(L1, c1, a) :
          l1' = Filled(SetInvalid(L1, c1, v), op, a)
    BY <1>3 DEF FillL1
  <2>2. v \in Addrs /\ v \in Nat
    BY Geometries, VictimIsAnAddress, Addresses DEF Good
  <2> DEFINE d == SetInvalid(L1, c1, v)
  <2>3. d \in CacheOf(L1) /\ Consistent(L1, d) /\ ~IsBlock(L1, d, a)
    BY <2>2, Geometries, Addresses, SetInvalidEffect, SetInvalidConsistent,
       SetInvalidSearch DEF Good
  <2>4. AllYoung(d)
    BY <2>2, YoungAfterSetInvalid DEF Good
  <2> QED  BY <2>1, <2>3, <2>4, YoungAfterFilled
<1> QED  BY <1>1, <1>2, <1>3

LEMMA YoungStep ==
  L1Ways = 1 /\ IInv /\ AllYoung(l1) /\ [Next]_vars => AllYoung(l1')
<1> SUFFICES ASSUME L1Ways = 1, Good(l1, l2), AllYoung(l1), [Next]_vars
             PROVE  AllYoung(l1')
  BY DEF IInv
<1>1. ASSUME NEW op \in Ops, NEW a \in Addrs, HitL1(op, a)
      PROVE  AllYoung(l1')
  <2> DEFINE e == UpdateLRU(L1, l1, a)
             s == GetSet(L1, a)
  <2>1. l1' = IF op = "w" THEN SetDirty(L1, e, a) ELSE e
    BY <1>1 DEF HitL1, Accessed
  <2>2. e \in CacheOf(L1) /\ SameBlocks(L1, l1, e)
    BY <1>1, Geometries, Addresses, UpdateLRUEffect DEF HitL1, Good
  <2>3. PICK u \in Match(L1, l1, a) : Rejuvenated(L1, l1, e, s, u)
    BY <1>1, Geometries, Addresses, UpdateLRUEffect DEF HitL1, Good
  <2>4. u \in Ways(L1) /\ s \in 0 .. L1.sets - 1
    BY Geometries, Addresses, WaySets, SetInRange
  <2> HIDE DEF e, s
  <2>5. AllYoung(e)
    BY <2>2, <2>3, <2>4, YoungAfterUse DEF SameBlocks
  <2> QED  BY <2>1, <2>2, <2>5, YoungAfterSetDirty
<1>2. ASSUME NEW op \in Ops, NEW a \in Addrs, HitL2(op, a)
      PROVE  AllYoung(l1')
  <2> DEFINE d == Accessed(L2, l2, op, a)
  <2>1. /\ d \in CacheOf(L2) /\ Consistent(L2, d) /\ Dense(L2, d)
        /\ SameBlocks(L2, l2, d)
    BY <1>2, Geometries, AccessedEffect DEF HitL2, Good
  <2>2. ~IsBlock(L1, l1, a) /\ FillL1(op, a, l1, d)
    BY <1>2 DEF HitL2
  <2> HIDE DEF d
  <2>3. \A b \in Addrs : IsBlock(L2, d, b) <=> IsBlock(L2, l2, b)
    BY <2>1, Geometries, Addresses, SameBlocksSameSearch
  <2>4. Good(l1, d)
    BY <2>1, <2>3 DEF Good, Included
  <2> QED  BY <2>2, <2>4, YoungAfterFill
<1>3. ASSUME NEW op \in Ops, NEW a \in Addrs, WriteAround(op, a)
      PROVE  AllYoung(l1')
  BY <1>3 DEF WriteAround, vars
<1>4. ASSUME NEW op \in Ops, NEW a \in Addrs, MissFree(op, a)
      PROVE  AllYoung(l1')
  <2> DEFINE d == NewBlock(L2, l2, a)
  <2>1. Good(l1, d) /\ ~IsBlock(L1, l1, a) /\ FillL1(op, a, l1, d)
    BY <1>4, PlacingInL2Keeps DEF MissFree
  <2> HIDE DEF d
  <2> QED  BY <2>1, YoungAfterFill
<1>5. ASSUME NEW op \in Ops, NEW a \in Addrs, MissEvict(op, a)
      PROVE  AllYoung(l1')
  <2>1. PICK v \in Victims(L2, l2, a) :
          FillL1(op, a, Snooped(v), NewBlock(L2, Dropped(v), a))
    BY <1>5 DEF MissEvict
  <2> DEFINE c1 == Snooped(v)
             d  == NewBlock(L2, Dropped(v), a)
  <2>2. ~IsBlock(L1, l1, a) /\ ~IsBlock(L2, l2, a) /\ ~IsFree(L2, l2, a)
    BY <1>5 DEF MissEvict
  <2>3. v \in Addrs
    BY <2>2, Geometries, Addresses, VictimOfDense DEF Good
  <2>4. /\ Good(c1, Dropped(v)) /\ IsFree(L2, Dropped(v), a)
        /\ ~IsBlock(L1, c1, a) /\ ~IsBlock(L2, Dropped(v), a)
    BY <2>2, EvictionKeeps
  <2>5. Good(c1, d) /\ FillL1(op, a, c1, d)
    BY <2>1, <2>4, PlacingInL2Keeps
  <2>6. AllYoung(c1)
    BY <2>3, YoungAfterSetInvalid DEF Snooped, Good
  <2> HIDE DEF c1, d
  <2> QED  BY <2>4, <2>5, <2>6, YoungAfterFill
<1>6. CASE UNCHANGED vars
  BY <1>6 DEF vars
<1> QED  BY <1>1, <1>2, <1>3, <1>4, <1>5, <1>6 DEF Next, RunCommand

Young == AllYoung(l1)

(* chooseVictim of a direct-mapped L1 never falls off its end, so that     *)
(* what WritesKept and AllocatedStays say holds there without exception.   *)
THEOREM DirectMappedVictim ==
  ASSUME L1Ways = 1
  PROVE  HistorySpec => []L1VictimFound
<1>1. HistoryInit => Young
  BY DEF HistoryInit, Init, EmptyCache, AllYoung, Young
<1>2. IInv /\ Young /\ [HistoryNext]_allVars => Young'
  <2>1. [HistoryNext]_allVars => [Next]_vars
    BY DEF HistoryNext, Remembered, Next, allVars, vars
  <2> QED  BY <2>1, YoungStep DEF Young
<1>3. IInv /\ Young => L1VictimFound
  <2> SUFFICES ASSUME AllYoung(l1), NEW a \in Addrs,
                      ~IsFree(L1, l1, a)
               PROVE  Oldest(L1, l1, a) # {}
    BY DEF L1VictimFound, FindsWay, Young
  <2>1. L1.ways = 1 /\ 0 \in Ways(L1) /\ GetSet(L1, a) \in 0 .. L1.sets - 1
    BY Geometries, Addresses, SetInRange DEF L1, Ways
  <2>2. Line(L1, l1, a)[0].valid /\ Line(L1, l1, a)[0].lru = 0
    BY <2>1 DEF IsFree, Free, Line, AllYoung
  <2> QED  BY <2>1, <2>2 DEF Oldest
<1> QED  BY <1>1, <1>2, <1>3, HistoryIsGood, PTL DEF HistorySpec

-----------------------------------------------------------------------------
(* The ages of L1 follow the use of its blocks (module CacheHistory).      *)

AgesFollow(c, r) ==
  \A s \in 0 .. L1.sets - 1, w, x \in Ways(L1) :
    c[s][w].valid /\ c[s][x].valid /\ c[s][w].lru < c[s][x].lru =>
      <<BlockOf(c[s][w].addr), BlockOf(c[s][x].addr)>> \in r

(* Block b is used now: after every other one.                             *)
Refreshed(r, b) == {p \in r \cup {b} \X Blocks : p[2] # b}

LEMMA RefreshedPairs ==
  ASSUME NEW r, NEW b, NEW x, NEW y, y # b
  PROVE  /\ <<x, y>> \in r => <<x, y>> \in Refreshed(r, b)
         /\ y \in Blocks => <<b, y>> \in Refreshed(r, b)
BY DEF Refreshed

(* Consistent blocks of one way each are different blocks.                 *)
LEMMA OtherWays ==
  ASSUME NEW g \in Geometry, NEW c, Consistent(g, c),
         NEW s \in 0 .. g.sets - 1, NEW t \in 0 .. g.sets - 1,
         NEW w \in Ways(g), NEW x \in Ways(g),
         c[s][w].valid, c[t][x].valid, s # t \/ w # x
  PROVE  BlockOf(c[s][w].addr) # BlockOf(c[t][x].addr)
<1>1. /\ c[s][w].addr \in Nat /\ GetSet(g, c[s][w].addr) = s
      /\ GetTag(g, c[s][w].addr) = c[s][w].tag
      /\ c[t][x].addr \in Nat /\ GetSet(g, c[t][x].addr) = t
      /\ GetTag(g, c[t][x].addr) = c[t][x].tag
  BY Addresses DEF Consistent
<1>2. s = t => c[s][w].tag # c[t][x].tag
  BY DEF Consistent
<1> QED  BY <1>1, <1>2, SetAndTagNameTheBlock

LEMMA AgesAfterUse ==
  ASSUME NEW c \in CacheOf(L1), NEW d, Consistent(L1, d), NEW r,
         AgesFollow(c, r), NEW s \in 0 .. L1.sets - 1, NEW u \in Ways(L1),
         Rejuvenated(L1, c, d, s, u), d[s][u].valid,
         \A x \in 0 .. L1.sets - 1, w \in Ways(L1) : ~(x = s /\ w = u) =>
           d[x][w].valid = c[x][w].valid /\ d[x][w].addr = c[x][w].addr
  PROVE  AgesFollow(d, Refreshed(r, BlockOf(d[s][u].addr)))
<1> DEFINE b == BlockOf(d[s][u].addr)
           q == Refreshed(r, b)
<1> SUFFICES ASSUME NEW t \in 0 .. L1.sets - 1, NEW w \in Ways(L1),
                    NEW x \in Ways(L1), d[t][w].valid, d[t][x].valid,
                    d[t][w].lru < d[t][x].lru
             PROVE  <<BlockOf(d[t][w].addr), BlockOf(d[t][x].addr)>> \in q
  BY DEF AgesFollow
<1>1. \A y \in 0 .. L1.sets - 1, z \in Ways(L1) : c[y][z].lru \in Nat
  BY Geometries, AgesAreNumbers
<1>2. ~(t = s /\ x = u)
  <2>1. d[s][u].lru = 0 /\ d[t][w].lru \in Nat
    BY <1>1 DEF Rejuvenated
  <2> QED  BY <2>1
<1>3. BlockOf(d[t][x].addr) # b /\ BlockOf(d[t][x].addr) \in Blocks
  <2>1. d[t][x].addr \in Addrs
    BY DEF Consistent
  <2> QED  BY <1>2, <2>1, Geometries, OtherWays DEF Blocks
<1>4. CASE t = s /\ w = u
  BY <1>3, <1>4, RefreshedPairs
<1>5. CASE ~(t = s /\ w = u)
  <2>1. c[t][w].lru < c[t][x].lru
    BY <1>1, <1>2, <1>5 DEF Rejuvenated
  <2>2. <<BlockOf(d[t][w].addr), BlockOf(d[t][x].addr)>> \in r
    BY <1>2, <1>5, <2>1 DEF AgesFollow
  <2> QED  BY <1>3, <2>2, RefreshedPairs
<1> QED  BY <1>4, <1>5

LEMMA AgesAfterSetDirty ==
  ASSUME NEW c \in CacheOf(L1), NEW r, AgesFollow(c, r), NEW a \in Addrs
  PROVE  AgesFollow(SetDirty(L1, c, a), r)
<1> DEFINE d == SetDirty(L1, c, a)
<1>1. SameBlocks(L1, c, d) /\ SameAges(L1, c, d)
  BY Geometries, Addresses, SetDirtyEffect
<1> HIDE DEF d
<1>2. AgesFollow(d, r)
  BY <1>1 DEF AgesFollow, SameBlocks, SameAges
<1> QED  BY <1>2 DEF d

LEMMA AgesAfterSetInvalid ==
  ASSUME NEW c \in CacheOf(L1), NEW r, AgesFollow(c, r), NEW a \in Addrs
  PROVE  AgesFollow(SetInvalid(L1, c, a), r)
<1> DEFINE d == SetInvalid(L1, c, a)
<1>1. \A s \in 0 .. L1.sets - 1, w \in Ways(L1) :
        d[s][w].valid => d[s][w] = c[s][w]
  BY Geometries, Addresses, SetInvalidEffect
<1> HIDE DEF d
<1>2. AgesFollow(d, r)
  BY <1>1 DEF AgesFollow
<1> QED  BY <1>2 DEF d

(* The block of an address that is not in L1 is of no pair that matters.   *)
LEMMA AgesWithout ==
  ASSUME NEW c, Consistent(L1, c), NEW r, AgesFollow(c, r), NEW a \in Addrs,
         ~IsBlock(L1, c, a)
  PROVE  AgesFollow(c, Refreshed(r, BlockOf(a)))
<1>1. ASSUME NEW s \in 0 .. L1.sets - 1, NEW w \in Ways(L1), c[s][w].valid
      PROVE  BlockOf(c[s][w].addr) # BlockOf(a)
  <2>1. /\ c[s][w].addr \in Nat /\ GetSet(L1, c[s][w].addr) = s
        /\ GetTag(L1, c[s][w].addr) = c[s][w].tag
    BY <1>1, Addresses DEF Consistent
  <2>2. ~(GetSet(L1, a) = s /\ GetTag(L1, a) = c[s][w].tag)
    BY <1>1 DEF IsBlock, Match, Line
  <2> QED  BY <2>1, <2>2, Geometries, Addresses, SetAndTagNameTheBlock
<1> QED  BY <1>1, RefreshedPairs DEF AgesFollow

LEMMA AgesAfterFilled ==
  ASSUME NEW c \in CacheOf(L1), Consistent(L1, c), NEW r, AgesFollow(c, r),
         NEW a \in Addrs, NEW op, ~IsBlock(L1, c, a)
  PROVE  AgesFollow(Filled(c, op, a), Refreshed(r, BlockOf(a)))
<1> DEFINE n == NewBlock(L1, c, a)
           s == GetSet(L1, a)
           q == Refreshed(r, BlockOf(a))
<1>1. n \in CacheOf(L1) /\ Consistent(L1, n)
  BY Geometries, NewBlockKeeps
<1>2. AgesFollow(n, q)
  <2>1. CASE ~IsFree(L1, c, a)
    BY <2>1, AgesWithout DEF NewBlock
  <2>2. CASE IsFree(L1, c, a)
    <3>1. PICK f \in Ways(L1) : Placed(L1, c, n, a, f)
      BY <2>2, Geometries, Addresses, NewBlockEffect
    <3>2. s \in 0 .. L1.sets - 1
      BY Geometries, Addresses, SetInRange
    <3> HIDE DEF n, q
    <3>3. /\ n[s][f].valid /\ n[s][f].addr = a /\ Rejuvenated(L1, c, n, s, f)
          /\ \A x \in 0 .. L1.sets - 1, w \in Ways(L1) : ~(x = s /\ w = f) =>
               n[x][w].valid = c[x][w].valid /\ n[x][w].addr = c[x][w].addr
      BY <3>1 DEF Placed
    <3> HIDE DEF s
    <3> QED  BY <1>1, <3>2, <3>3, AgesAfterUse DEF q
  <2> QED  BY <2>1, <2>2
<1> HIDE DEF q
<1> QED  BY <1>1, <1>2, AgesAfterSetDirty DEF Filled, q

LEMMA AgesAfterFill ==
  ASSUME NEW c1, NEW c2, NEW a \in Addrs, NEW op \in Ops, NEW r,
         Good(c1, c2), AgesFollow(c1, r), ~IsBlock(L1, c1, a),
         FillL1(op, a, c1, c2)
  PROVE  IF BlockAlloc(op) THEN AgesFollow(l1', Refreshed(r, BlockOf(a)))
         ELSE l1' = c1
<1>1. CASE ~BlockAlloc(op)
  BY <1>1 DEF FillL1
<1>2. CASE BlockAlloc(op) /\ IsFree(L1, c1, a)
  BY <1>2, AgesAfterFilled DEF FillL1, Good
<1>3. CASE BlockAlloc(op) /\ ~IsFree(L1, c1, a)
  <2>1. PICK v \in Victims(L1, c1, a) :
          l1' = Filled(SetInvalid(L1, c1, v), op, a)
    BY <1>3 DEF FillL1
  <2>2. v \in Addrs /\ v \in Nat
    BY Geometries, VictimIsAnAddress, Addresses DEF Good
  <2> DEFINE d == SetInvalid(L1, c1, v)
  <2>3. d \in CacheOf(L1) /\ Consistent(L1, d) /\ ~IsBlock(L1, d, a)
    BY <2>2, Geometries, Addresses, SetInvalidEffect, SetInvalidConsistent,
       SetInvalidSearch DEF Good
  <2>4. AgesFollow(d, r)
    BY <2>2, AgesAfterSetInvalid DEF Good
  <2> QED  BY <1>3, <2>1, <2>3, <2>4, AgesAfterFilled
<1> QED  BY <1>1, <1>2, <1>3

(* A hit in L1 or an allocation is a use; nothing else changes L1.         *)
LEMMA CommandAges ==
  ASSUME IInv, NEW r, AgesFollow(l1, r), NEW op \in Ops, NEW a \in Addrs,
         RunCommand(op, a)
  PROVE  IF IsBlock(L1, l1, a) \/ BlockAlloc(op)
         THEN AgesFollow(l1', Refreshed(r, BlockOf(a))) ELSE l1' = l1
<1> USE DEF IInv
<1>1. CASE HitL1(op, a)
  <2> DEFINE e == UpdateLRU(L1, l1, a)
             s == GetSet(L1, a)
             q == Refreshed(r, BlockOf(a))
  <2>1. l1' = IF op = "w" THEN SetDirty(L1, e, a) ELSE e
    BY <1>1 DEF HitL1, Accessed
  <2>2. e \in CacheOf(L1) /\ SameBlocks(L1, l1, e)
    BY <1>1, Geometries, Addresses, UpdateLRUEffect DEF HitL1, Good
  <2>3. PICK u \in Match(L1, l1, a) : Rejuvenated(L1, l1, e, s, u)
    BY <1>1, Geometries, Addresses, UpdateLRUEffect DEF HitL1, Good
  <2>4. /\ u \in Ways(L1) /\ s \in 0 .. L1.sets - 1
        /\ l1[s][u].valid /\ l1[s][u].tag = GetTag(L1, a)
    BY Geometries, Addresses, SetInRange DEF Match, Line
  <2>5. Consistent(L1, e)
    BY <2>2, Geometries, SameBlocksConsistent DEF Good
  <2> HIDE DEF e
  <2>6. e[s][u].valid /\ e[s][u].tag = GetTag(L1, a)
    BY <2>2, <2>4 DEF SameBlocks
  <2>7. BlockOf(e[s][u].addr) = BlockOf(a)
    <3>1. /\ e[s][u].addr \in Nat /\ GetSet(L1, e[s][u].addr) = s
          /\ GetTag(L1, e[s][u].addr) = e[s][u].tag
      BY <2>4, <2>5, <2>6, Addresses DEF Consistent
    <3> QED  BY <2>6, <3>1, Geometries, Addresses, SetAndTagNameTheBlock
  <2>8. l1 \in CacheOf(L1)
    BY DEF Good
  <2> HIDE DEF s, q
  <2>9. AgesFollow(e, q)
    <3>1. \A x \in 0 .. L1.sets - 1, w \in Ways(L1) :
            e[x][w].valid = l1[x][w].valid /\ e[x][w].addr = l1[x][w].addr
      BY <2>2 DEF SameBlocks
    <3>2. AgesFollow(e, Refreshed(r, BlockOf(e[s][u].addr)))
      BY <2>3, <2>4, <2>5, <2>6, <2>8, <3>1, AgesAfterUse
    <3> QED  BY <2>7, <3>2 DEF q
  <2>10. AgesFollow(l1', q)
    BY <2>1, <2>2, <2>9, AgesAfterSetDirty
  <2> QED  BY <1>1, <2>10 DEF HitL1, q
<1>2. CASE HitL2(op, a)
  <2> DEFINE d == Accessed(L2, l2, op, a)
  <2>1. /\ d \in CacheOf(L2) /\ Consistent(L2, d) /\ Dense(L2, d)
        /\ SameBlocks(L2, l2, d)
    BY <1>2, Geometries, AccessedEffect DEF HitL2, Good
  <2>2. ~IsBlock(L1, l1, a) /\ FillL1(op, a, l1, d)
    BY <1>2 DEF HitL2
  <2> HIDE DEF d
  <2>3. \A b \in Addrs : IsBlock(L2, d, b) <=> IsBlock(L2, l2, b)
    BY <2>1, Geometries, Addresses, SameBlocksSameSearch
  <2>4. Good(l1, d)
    BY <2>1, <2>3 DEF Good, Included
  <2> QED  BY <2>2, <2>4, AgesAfterFill
<1>3. CASE WriteAround(op, a)
  BY <1>3 DEF WriteAround, vars
<1>4. CASE MissFree(op, a)
  <2> DEFINE d == NewBlock(L2, l2, a)
  <2>1. Good(l1, d) /\ ~IsBlock(L1, l1, a) /\ FillL1(op, a, l1, d)
    BY <1>4, PlacingInL2Keeps DEF MissFree
  <2> HIDE DEF d
  <2> QED  BY <2>1, AgesAfterFill
<1>5. CASE MissEvict(op, a)
  <2>1. PICK v \in Victims(L2, l2, a) :
          FillL1(op, a, Snooped(v), NewBlock(L2, Dropped(v), a))
    BY <1>5 DEF MissEvict
  <2> DEFINE c1 == Snooped(v)
             d  == NewBlock(L2, Dropped(v), a)
  <2>2. /\ ~IsBlock(L1, l1, a) /\ ~IsBlock(L2, l2, a) /\ ~IsFree(L2, l2, a)
        /\ BlockAlloc(op)
    BY <1>5 DEF MissEvict
  <2>3. v \in Addrs
    BY <2>2, Geometries, Addresses, VictimOfDense DEF Good
  <2>4. /\ Good(c1, Dropped(v)) /\ IsFree(L2, Dropped(v), a)
        /\ ~IsBlock(L1, c1, a) /\ ~IsBlock(L2, Dropped(v), a)
    BY <2>2, EvictionKeeps
  <2>5. Good(c1, d) /\ FillL1(op, a, c1, d)
    BY <2>1, <2>4, PlacingInL2Keeps
  <2>6. AgesFollow(c1, r)
    BY <2>3, AgesAfterSetInvalid DEF Snooped, Good
  <2> HIDE DEF c1, d
  <2> QED  BY <2>2, <2>4, <2>5, <2>6, AgesAfterFill
<1> QED  BY <1>1, <1>2, <1>3, <1>4, <1>5 DEF RunCommand

(* Blocks of L1 are held by it.                                            *)
LEMMA ValidIsHeld ==
  ASSUME NEW c, Consistent(L1, c), NEW s \in 0 .. L1.sets - 1,
         NEW w \in Ways(L1), c[s][w].valid
  PROVE  Holds(L1, c, BlockOf(c[s][w].addr))
BY DEF Holds, Consistent, IsBlock, Match, Line

LEMMA AgesStep ==
  IInv /\ IInv' /\ AgesFollow(l1, used) /\ [HistoryNext]_allVars =>
    AgesFollow(l1', used')
<1> SUFFICES ASSUME IInv, IInv', AgesFollow(l1, used), [HistoryNext]_allVars
             PROVE  AgesFollow(l1', used')
  OBVIOUS
<1>1. CASE UNCHANGED allVars
  BY <1>1 DEF allVars
<1>2. ASSUME NEW op \in Ops, NEW a \in Addrs, Remembered(op, a)
      PROVE  AgesFollow(l1', used')
  <2>1. IF IsBlock(L1, l1, a) \/ BlockAlloc(op)
        THEN AgesFollow(l1', Refreshed(used, BlockOf(a))) ELSE l1' = l1
    BY <1>2, CommandAges DEF Remembered
  <2>2. CASE ~(IsBlock(L1, l1, a) \/ BlockAlloc(op))
    BY <1>2, <2>1, <2>2 DEF Remembered
  <2>3. CASE IsBlock(L1, l1, a) \/ BlockAlloc(op)
    <3>1. \A p \in Refreshed(used, BlockOf(a)) :
            Holds(L1, l1', p[1]) /\ Holds(L1, l1', p[2]) => p \in used'
      BY <1>2, <2>3 DEF Remembered, Refreshed
    <3>2. \A s \in 0 .. L1.sets - 1, w \in Ways(L1) :
            l1'[s][w].valid => Holds(L1, l1', BlockOf(l1'[s][w].addr))
      BY ValidIsHeld DEF IInv, Good
    <3> QED  BY <2>1, <2>3, <3>1, <3>2 DEF AgesFollow
  <2> QED  BY <2>2, <2>3
<1> QED  BY <1>1, <1>2 DEF HistoryNext

(* The order of the ages in a line of L1 is the order of the last uses, in *)
(* all configurations: updateLRU moves no block past another one but the   *)
(* one it makes the youngest, and the gaps of a snoop change no order.     *)
THEOREM AgesAreOrderOfUse == HistorySpec => []L1AgesFollowUse
<1>1. HistoryInit => L1AgesFollowUse
  <2>1. HistoryInit =>
          \A s \in 0 .. L1.sets - 1, w \in Ways(L1) : ~l1[s][w].valid
    BY DEF HistoryInit, Init, EmptyCache
  <2> QED  BY <2>1 DEF L1AgesFollowUse, L1
<1>2. L1AgesFollowUse <=> AgesFollow(l1, used)
  BY DEF L1AgesFollowUse, AgesFollow, L1
<1>3. L1AgesFollowUse' <=> AgesFollow(l1', used')
  BY DEF L1AgesFollowUse, AgesFollow, L1
<1>4. IInv /\ IInv' /\ L1AgesFollowUse /\ [HistoryNext]_allVars =>
        L1AgesFollowUse'
  BY <1>2, <1>3, AgesStep
<1> QED  BY <1>1, <1>4, HistoryIsGood, PTL DEF HistorySpec

-----------------------------------------------------------------------------
(* What a command leaves in L2.                                            *)

LEMMA FillL1LeavesL2 ==
  ASSUME NEW c1, NEW c2, NEW a \in Addrs, NEW op \in Ops, Good(c1, c2),
         FillL1(op, a, c1, c2)
  PROVE  \A b \in Addrs : IsBlock(L2, l2', b) <=> IsBlock(L2, c2, b)
<1>1. CASE l2' = c2
  BY <1>1
<1>2. ASSUME NEW v \in Victims(L1, c1, a), IsDirty(L1, c1, v),
             l2' = WriteBlock(L2, c2, v)
      PROVE  \A b \in Addrs : IsBlock(L2, l2', b) <=> IsBlock(L2, c2, b)
  <2>1. v \in Addrs /\ v \in Nat
    BY Geometries, VictimIsAnAddress, Addresses DEF Good
  <2>2. IsBlock(L2, c2, v)
    BY <1>2, <2>1, DirtyIsBlock DEF Good, Included
  <2>3. SameBlocks(L2, c2, l2')
    BY <1>2, <2>1, <2>2, Geometries, WriteBlockEffect DEF Good
  <2> QED  BY <2>3, Geometries, Addresses, SameBlocksSameSearch
<1>3. \/ l2' = c2
      \/ \E v \in Victims(L1, c1, a) :
           IsDirty(L1, c1, v) /\ l2' = WriteBlock(L2, c2, v)
  BY DEF FillL1
<1> QED  BY <1>1, <1>2, <1>3

(* L2 changes its blocks only when it allocates one, and gives one up only *)
(* when the line of the new block is full.                                 *)
LEMMA L2AfterCommand ==
  ASSUME IInv, NEW op \in Ops, NEW a \in Addrs, RunCommand(op, a)
  PROVE  IF IsBlock(L1, l1, a) \/ IsBlock(L2, l2, a) \/ ~BlockAlloc(op)
         THEN \A b \in Addrs : IsBlock(L2, l2', b) <=> IsBlock(L2, l2, b)
         ELSE /\ IsBlock(L2, l2', a)
              /\ \A b \in Addrs : IsBlock(L2, l2', b) =>
                   IsBlock(L2, l2, b) \/ BlockOf(b) = BlockOf(a)
              /\ \A b \in Addrs : IsBlock(L2, l2, b) /\ ~IsBlock(L2, l2', b) =>
                   ~IsFree(L2, l2, a) /\ GetSet(L2, b) = GetSet(L2, a)
<1> USE DEF IInv
<1>1. CASE HitL1(op, a)
  BY <1>1 DEF HitL1
<1>2. CASE HitL2(op, a)
  <2> DEFINE d == Accessed(L2, l2, op, a)
  <2>1. /\ d \in CacheOf(L2) /\ Consistent(L2, d) /\ Dense(L2, d)
        /\ SameBlocks(L2, l2, d)
    BY <1>2, Geometries, AccessedEffect DEF HitL2, Good
  <2>2. IsBlock(L2, l2, a) /\ FillL1(op, a, l1, d)
    BY <1>2 DEF HitL2
  <2> HIDE DEF d
  <2>3. \A b \in Addrs : IsBlock(L2, d, b) <=> IsBlock(L2, l2, b)
    BY <2>1, Geometries, Addresses, SameBlocksSameSearch
  <2>4. Good(l1, d)
    BY <2>1, <2>3 DEF Good, Included
  <2> QED  BY <2>2, <2>3, <2>4, FillL1LeavesL2
<1>3. CASE WriteAround(op, a)
  BY <1>3 DEF WriteAround, vars
<1>4. CASE MissFree(op, a)
  <2> DEFINE d == NewBlock(L2, l2, a)
  <2>1. Good(l1, d) /\ IsBlock(L2, d, a) /\ FillL1(op, a, l1, d)
    BY <1>4, PlacingInL2Keeps DEF MissFree
  <2>2. \A b \in Addrs : IsBlock(L2, d, b) <=>
          IsBlock(L2, l2, b) \/ BlockOf(b) = BlockOf(a)
    BY <1>4, Geometries, NewBlockKeeps DEF MissFree, Good
  <2> HIDE DEF d
  <2>3. \A b \in Addrs : IsBlock(L2, l2', b) <=> IsBlock(L2, d, b)
    BY <2>1, FillL1LeavesL2
  <2> QED  BY <1>4, <2>1, <2>2, <2>3 DEF MissFree
<1>5. CASE MissEvict(op, a)
  <2>1. PICK v \in Victims(L2, l2, a) :
          FillL1(op, a, Snooped(v), NewBlock(L2, Dropped(v), a))
    BY <1>5 DEF MissEvict
  <2> DEFINE c1 == Snooped(v)
             c2 == Dropped(v)
             d  == NewBlock(L2, c2, a)
  <2>2. /\ ~IsBlock(L1, l1, a) /\ ~IsBlock(L2, l2, a) /\ ~IsFree(L2, l2, a)
        /\ BlockAlloc(op)
    BY <1>5 DEF MissEvict
  <2>3. v \in Addrs /\ v \in Nat /\ GetSet(L2, v) = GetSet(L2, a)
    BY <2>2, Geometries, Addresses, VictimOfDense DEF Good
  <2>4. /\ Good(c1, c2) /\ IsFree(L2, c2, a) /\ ~IsBlock(L2, c2, a)
    BY <2>2, EvictionKeeps
  <2>5. Good(c1, d) /\ IsBlock(L2, d, a) /\ FillL1(op, a, c1, d)
    BY <2>1, <2>4, PlacingInL2Keeps
  <2>6. \A b \in Addrs :
          IsBlock(L2, c2, b) <=> IsBlock(L2, l2, b) /\ BlockOf(b) # BlockOf(v)
    <3> DEFINE e == Drained(v)
    <3>1. e \in CacheOf(L2) /\ SameBlocks(L2, l2, e)
      BY <2>3, Geometries, SetDirtyEffect DEF Drained, Good, SameBlocks
    <3> HIDE DEF e
    <3>2. \A b \in Addrs : IsBlock(L2, e, b) <=> IsBlock(L2, l2, b)
      BY <3>1, Geometries, Addresses, SameBlocksSameSearch
    <3>3. c2 = SetInvalid(L2, e, v)
      BY DEF Dropped, e
    <3> HIDE DEF c2
    <3> QED  BY <2>3, <3>1, <3>2, <3>3, Geometries, Addresses, SetInvalidSearch
  <2> HIDE DEF c1, c2
  <2>7. \A b \in Addrs : IsBlock(L2, d, b) <=>
          IsBlock(L2, c2, b) \/ BlockOf(b) = BlockOf(a)
    BY <2>4, Geometries, NewBlockKeeps DEF Good
  <2> HIDE DEF d
  <2>8. \A b \in Addrs : IsBlock(L2, l2', b) <=> IsBlock(L2, d, b)
    BY <2>5, FillL1LeavesL2
  <2>9. \A b \in Addrs : BlockOf(b) = BlockOf(v) => GetSet(L2, b) = GetSet(L2, a)
    BY <2>3, Geometries, Addresses, SetAndTagNameTheBlock
  <2> QED  BY <2>2, <2>5, <2>6, <2>7, <2>8, <2>9
<1> QED  BY <1>1, <1>2, <1>3, <1>4, <1>5 DEF RunCommand

-----------------------------------------------------------------------------
(* What is allocated is cached.                                            *)

LEMMA FillL1Allocates ==
  ASSUME NEW c1, NEW c2, NEW a \in Addrs, NEW op \in Ops, Good(c1, c2),
         ~IsBlock(L1, c1, a), BlockAlloc(op), FillL1(op, a, c1, c2),
         Findable(c1, a)
  PROVE  IsBlock(L1, l1', a)
<1>1. ASSUME NEW c \in CacheOf(L1), Consistent(L1, c), ~IsBlock(L1, c, a),
             IsFree(L1, c, a)
      PROVE  IsBlock(L1, Filled(c, op, a), a)
  <2> DEFINE n == NewBlock(L1, c, a)
             d == SetDirty(L1, n, a)
  <2>1. n \in CacheOf(L1) /\ IsBlock(L1, n, a)
    BY <1>1, Geometries, NewBlockKeeps
  <2> HIDE DEF n
  <2>2. IsBlock(L1, d, a)
    BY <2>1, Geometries, Addresses, SetDirtyEffect, SameBlocksSameSearch
  <2>3. Filled(c, op, a) = IF op = "w" THEN d ELSE n
    BY DEF Filled, n
  <2> QED  BY <2>1, <2>2, <2>3
<1>2. CASE IsFree(L1, c1, a)
  BY <1>1, <1>2 DEF FillL1, Good
<1>3. CASE ~IsFree(L1, c1, a)
  <2>1. PICK v \in Victims(L1, c1, a) :
          l1' = Filled(SetInvalid(L1, c1, v), op, a)
    BY <1>3 DEF FillL1
  <2> DEFINE d1 == SetInvalid(L1, c1, v)
  <2>2. v \in Addrs /\ v \in Nat /\ IsFree(L1, d1, a)
    BY <1>3, VictimMakesRoom, Addresses DEF Good, Findable
  <2>3. d1 \in CacheOf(L1) /\ Consistent(L1, d1) /\ ~IsBlock(L1, d1, a)
    BY <2>2, Geometries, Addresses, SetInvalidEffect, SetInvalidConsistent,
       SetInvalidSearch DEF Good
  <2> QED  BY <1>1, <2>1, <2>2, <2>3
<1> QED  BY <1>2, <1>3

LEMMA CommandAllocates ==
  ASSUME IInv, NEW op \in Ops, NEW a \in Addrs,
         RunCommand(op, a), BlockAlloc(op), FindsWay(a)
  PROVE  IsBlock(L1, l1', a) /\ IsBlock(L2, l2', a)
<1> USE DEF IInv
<1>1. IsBlock(L2, l2', a)
  <2>1. IsBlock(L1, l1, a) => IsBlock(L2, l2, a)
    BY DEF Good, Included
  <2> QED  BY <2>1, L2AfterCommand
<1>2. Findable(l1, a)
  BY DEF FindsWay, Findable
<1>3. CASE HitL1(op, a)
  <2>1. IsBlock(L1, l1, a) /\ SameBlocks(L1, l1, l1')
    BY <1>3, Geometries, AccessedEffect DEF HitL1, Good
  <2> QED  BY <1>1, <2>1, Geometries, Addresses, SameBlocksSameSearch
<1>4. CASE HitL2(op, a)
  <2> DEFINE d == Accessed(L2, l2, op, a)
  <2>1. /\ d \in CacheOf(L2) /\ Consistent(L2, d) /\ Dense(L2, d)
        /\ SameBlocks(L2, l2, d)
    BY <1>4, Geometries, AccessedEffect DEF HitL2, Good
  <2>2. ~IsBlock(L1, l1, a) /\ FillL1(op, a, l1, d)
    BY <1>4 DEF HitL2
  <2> HIDE DEF d
  <2>3. \A b \in Addrs : IsBlock(L2, d, b) <=> IsBlock(L2, l2, b)
    BY <2>1, Geometries, Addresses, SameBlocksSameSearch
  <2>4. Good(l1, d)
    BY <2>1, <2>3 DEF Good, Included
  <2> QED  BY <1>1, <1>2, <2>2, <2>4, FillL1Allocates
<1>5. CASE WriteAround(op, a)
  BY <1>5 DEF WriteAround
<1>6. CASE MissFree(op, a)
  <2> DEFINE d == NewBlock(L2, l2, a)
  <2>1. Good(l1, d) /\ ~IsBlock(L1, l1, a) /\ FillL1(op, a, l1, d)
    BY <1>6, PlacingInL2Keeps DEF MissFree
  <2> HIDE DEF d
  <2> QED  BY <1>1, <1>2, <2>1, FillL1Allocates
<1>7. CASE MissEvict(op, a)
  <2>1. PICK v \in Victims(L2, l2, a) :
          FillL1(op, a, Snooped(v), NewBlock(L2, Dropped(v), a))
    BY <1>7 DEF MissEvict
  <2> DEFINE c1 == Snooped(v)
             d  == NewBlock(L2, Dropped(v), a)
  <2>2. ~IsBlock(L1, l1, a) /\ ~IsBlock(L2, l2, a) /\ ~IsFree(L2, l2, a)
    BY <1>7 DEF MissEvict
  <2>3. v \in Addrs
    BY <2>2, Geometries, Addresses, VictimOfDense DEF Good
  <2>4. /\ Good(c1, Dropped(v)) /\ IsFree(L2, Dropped(v), a)
        /\ ~IsBlock(L1, c1, a) /\ ~IsBlock(L2, Dropped(v), a)
    BY <2>2, EvictionKeeps
  <2>5. Good(c1, d) /\ FillL1(op, a, c1, d)
    BY <2>1, <2>4, PlacingInL2Keeps
  <2>6. Findable(c1, a)
    BY <2>3, SnoopLeavesVictim DEF Good
  <2> HIDE DEF c1, d
  <2> QED  BY <1>1, <2>4, <2>5, <2>6, FillL1Allocates
<1> QED  BY <1>3, <1>4, <1>5, <1>6, <1>7 DEF RunCommand

(* What an access allocates is in both caches after it, whatever had to    *)
(* leave them for it: the block that the snoop or the victims take out is  *)
(* never the one that comes in.                                            *)
THEOREM AllocatedStays == HistorySpec => AllocatedIsCached
<1>1. IInv /\ [HistoryNext]_allVars =>
        [\A op \in Ops, a \in Addrs :
           BlockAlloc(op) /\ FindsWay(a) /\ RunCommand(op, a) =>
             IsBlock(L1, l1', a) /\ IsBlock(L2, l2', a)]_allVars
  BY CommandAllocates
<1> QED  BY <1>1, HistoryIsGood, PTL DEF HistorySpec, AllocatedIsCached

-----------------------------------------------------------------------------
(* The statistics (module CacheSim).                                       *)

LEMMA SimIsGood == SimSpec => []IInv
<1>1. SimInit => IInv
  BY InitGood DEF SimInit
<1>2. IInv /\ [SimNext]_simVars => IInv'
  <2>1. [SimNext]_simVars => [Next]_vars
    BY DEF SimNext, Access, Start, Reject, EndOfFile, Next, simVars, vars
  <2> QED  BY <2>1, NextGood
<1> QED  BY <1>1, <1>2, PTL DEF SimSpec

(* Each access took the cycles of the levels that it went to.              *)
Counted ==
  /\ L1count \in Nat /\ L2count \in Nat /\ memCount \in Nat /\ cycles \in Nat
  /\ L2count = 0 => memCount = 0
  /\ cycles = L1Cyc * L1count + L2Cyc * L2count + MemCyc * memCount
  /\ status = "reported" => report = calcStats

LEMMA CycleTypes == L1Cyc \in Nat /\ L2Cyc \in Nat /\ MemCyc \in Nat
BY SimAssumption

LEMMA OneMore ==
  ASSUME NEW k \in Nat, NEW n \in Nat
  PROVE  k * (n + 1) = k * n + k /\ k * n \in Nat
OBVIOUS

LEMMA CountedStep == Counted /\ [SimNext]_simVars => Counted'
<1> SUFFICES ASSUME Counted, [SimNext]_simVars PROVE Counted'
  OBVIOUS
<1> USE CycleTypes
<1>1. ASSUME NEW op \in Ops, NEW a \in Addrs, Access(op, a)
      PROVE  Counted'
  <2> DEFINE toL2  == ~IsBlock(L1, l1, a)
             toMem == toL2 /\ ~IsBlock(L2, l2, a)
  <2>1. /\ status = "reading" /\ status' = status
        /\ L1count' = L1count + 1
        /\ L2count' = IF toL2 THEN L2count + 1 ELSE L2count
        /\ memCount' = IF toMem THEN memCount + 1 ELSE memCount
        /\ cycles' = cycles + L1Cyc + (IF toL2 THEN L2Cyc ELSE 0)
                            + (IF toMem THEN MemCyc ELSE 0)
    BY <1>1 DEF Access
  <2>2. toMem => toL2
    OBVIOUS
  <2> HIDE DEF toL2, toMem
  <2>3. /\ L1count \in Nat /\ L2count \in Nat /\ memCount \in Nat
        /\ cycles \in Nat /\ (L2count = 0 => memCount = 0)
        /\ cycles = L1Cyc * L1count + L2Cyc * L2count + MemCyc * memCount
    BY DEF Counted
  <2>4. L1Cyc * L1count' = L1Cyc * L1count + L1Cyc /\ L1Cyc * L1count \in Nat
    BY <2>1, <2>3, OneMore
  <2>5. /\ L2Cyc * L2count' = L2Cyc * L2count + (IF toL2 THEN L2Cyc ELSE 0)
        /\ L2Cyc * L2count \in Nat
    BY <2>1, <2>3, OneMore
  <2>6. /\ MemCyc * memCount' = MemCyc * memCount + (IF toMem THEN MemCyc ELSE 0)
        /\ MemCyc * memCount \in Nat
    BY <2>1, <2>3, OneMore
  <2>7. cycles' = L1Cyc * L1count' + L2Cyc * L2count' + MemCyc * memCount'
    BY <2>1, <2>3, <2>4, <2>5, <2>6
  <2>8. /\ L1count' \in Nat /\ L2count' \in Nat /\ memCount' \in Nat
        /\ cycles' \in Nat /\ (L2count' = 0 => memCount' = 0)
    BY <2>1, <2>2, <2>3
  <2> QED  BY <2>1, <2>7, <2>8 DEF Counted
<1>2. CASE Start \/ Reject
  BY <1>2 DEF Start, Reject, counters, history, Counted, calcStats
<1>3. CASE EndOfFile
  BY <1>3 DEF EndOfFile, counters, history, Counted, calcStats
<1>4. CASE UNCHANGED simVars
  BY <1>4 DEF simVars, counters, history, Counted, calcStats
<1> QED  BY <1>1, <1>2, <1>3, <1>4 DEF SimNext

(* The average of calcStats, over the common denominator that its sums and *)
(* products make.                                                          *)
LEMMA MeanOfRates ==
  ASSUME NEW x \in Int, NEW y \in Int, NEW z \in Int,
         NEW k \in Int, NEW l \in Int, NEW m \in Int
  PROVE  /\ ((k * (1 * x) + (l * y) * 1) * (1 * (x * y))
               + (m * (y * z)) * (1 * (1 * x))) * x
              = (k * x + l * y + m * z) * ((1 * (1 * x)) * (1 * (x * y)))
         /\ ((k * (1 * x) + (l * 0) * 1) * (1 * (x * 1))
               + (m * (0 * 0)) * (1 * (1 * x))) * x
              = (k * x + l * 0 + m * 0) * ((1 * (1 * x)) * (1 * (x * 1)))
OBVIOUS

(* What is printed as the average is the cycles of all accesses over their *)
(* number, for all traces and access times.                                *)
THEOREM AverageIsTheMean == SimSpec => []AvgTimeIsTheMean
<1>1. SimInit => Counted
  BY CycleTypes DEF SimInit, Counted
<1>2. Counted => AvgTimeIsTheMean
  <2> SUFFICES ASSUME Counted, L1count > 0, report = calcStats
               PROVE  Same(report.avgTime, <<cycles, L1count>>)
    BY DEF AvgTimeIsTheMean, Counted
  <2>1. /\ L1count \in Int /\ L2count \in Int /\ memCount \in Int
        /\ L1Cyc \in Int /\ L2Cyc \in Int /\ MemCyc \in Int
        /\ cycles = L1Cyc * L1count + L2Cyc * L2count + MemCyc * memCount
        /\ L2count \in Nat /\ (L2count = 0 => memCount = 0)
    BY CycleTypes DEF Counted
  <2>2. CASE L2count > 0
    BY <2>1, <2>2, MeanOfRates DEF calcStats, Same, Plus, Times
  <2>3. CASE L2count = 0
    BY <2>1, <2>3, MeanOfRates DEF calcStats, Same, Plus, Times
  <2> QED  BY <2>1, <2>2, <2>3
<1> QED  BY <1>1, <1>2, CountedStep, PTL DEF SimSpec

-----------------------------------------------------------------------------
(* Only conflicts make L2 fetch a block again.                             *)

Conflicting(F, b) == {x \in F : x % L2Sets = b % L2Sets}

(* A full line and one block more of its set are more than L2Ways blocks.  *)
LEMMA FullLineConflicts ==
  ASSUME IInv, NEW a \in Addrs, ~IsFree(L2, l2, a), ~IsBlock(L2, l2, a),
         NEW F, IsFiniteSet(F), BlockOf(a) \in F,
         \A x \in Addrs : IsBlock(L2, l2, x) => BlockOf(x) \in F
  PROVE  Cardinality(Conflicting(F, BlockOf(a))) > L2Ways
<1> DEFINE T == Conflicting(F, BlockOf(a))
           s == GetSet(L2, a)
           B(w) == BlockOf(l2[s][w].addr)
           f == [w \in 0 .. (L2Ways + 1) - 1 |->
                   IF w = L2Ways THEN BlockOf(a) ELSE B(w)]
<1>1. /\ L2Ways \in Nat \ {0} /\ L2.ways = L2Ways /\ L2.sets = L2Sets
      /\ a \in Nat /\ s \in 0 .. L2.sets - 1 /\ Ways(L2) = 0 .. L2Ways - 1
  BY HierarchyAssumption, Geometries, Addresses, SetInRange DEF L2, Ways
<1>2. IsFiniteSet(T) /\ Cardinality(T) \in Nat
  <2>1. T \subseteq F
    BY DEF Conflicting
  <2> QED  BY <2>1, FS_Subset, FS_CardinalityType
<1>3. ASSUME NEW w \in 0 .. L2Ways - 1
      PROVE  /\ B(w) \in T /\ B(w) # BlockOf(a)
             /\ \A x \in 0 .. L2Ways - 1 : x # w => B(x) # B(w)
  <2>1. \A x \in Ways(L2) : l2[s][x].valid
    BY DEF IsFree, Free, Line
  <2>2. \A x \in Ways(L2) :
          /\ l2[s][x].addr \in Addrs /\ l2[s][x].addr \in Nat
          /\ GetSet(L2, l2[s][x].addr) = s
          /\ GetTag(L2, l2[s][x].addr) = l2[s][x].tag
    BY <1>1, <2>1, Addresses DEF IInv, Good, Consistent
  <2>3. w \in Ways(L2)
    BY <1>1
  <2>4. IsBlock(L2, l2, l2[s][w].addr)
    BY <2>1, <2>2, <2>3 DEF IsBlock, Match, Line
  <2>5. B(w) \in F /\ B(w) % L2Sets = BlockOf(a) % L2Sets
    BY <1>1, <2>2, <2>3, <2>4 DEF GetSet
  <2>6. B(w) # BlockOf(a)
    BY <1>1, <2>2, <2>3, <2>4, Geometries, SameBlockSameSearch
  <2>7. \A x \in Ways(L2) : x # w => l2[s][x].tag # l2[s][w].tag
    BY <1>1, <2>1, <2>3 DEF IInv, Good, Consistent
  <2>8. \A x \in Ways(L2) : x # w => B(x) # B(w)
    BY <2>2, <2>3, <2>7, Geometries, SetAndTagNameTheBlock
  <2> QED  BY <1>1, <2>5, <2>6, <2>8 DEF Conflicting
<1>4. BlockOf(a) \in T
  BY DEF Conflicting
<1> HIDE DEF T, B
<1>5. f \in [0 .. (L2Ways + 1) - 1 -> T]
  <2>1. \A w \in 0 .. (L2Ways + 1) - 1 : w # L2Ways => w \in 0 .. L2Ways - 1
    BY <1>1
  <2> QED  BY <1>3, <1>4, <2>1
<1>6. ASSUME NEW i \in 0 .. (L2Ways + 1) - 1, NEW j \in 0 .. (L2Ways + 1) - 1,
             i # j
      PROVE  f[i] # f[j]
  <2>1. /\ i # L2Ways => i \in 0 .. L2Ways - 1
        /\ j # L2Ways => j \in 0 .. L2Ways - 1
    BY <1>1
  <2>2. /\ f[i] = IF i = L2Ways THEN BlockOf(a) ELSE B(i)
        /\ f[j] = IF j = L2Ways THEN BlockOf(a) ELSE B(j)
    OBVIOUS
  <2> HIDE DEF f
  <2> QED  BY <1>3, <1>6, <2>1, <2>2
<1> HIDE DEF f
<1>7. ~(Cardinality(T) < L2Ways + 1)
  <2>1. L2Ways + 1 \in Nat \ {0}
    BY <1>1
  <2> QED  BY <1>2, <1>5, <1>6, <2>1, Pigeons
<1> QED  BY <1>1, <1>2, <1>7 DEF T

(* What L2 has was fetched, and what it has given up had conflicts.        *)
FetchInv ==
  /\ IsFiniteSet(fetched) /\ again \subseteq fetched
  /\ \A a \in Addrs : IsBlock(L2, l2, a) => BlockOf(a) \in fetched
  /\ \A a \in Addrs : BlockOf(a) \in fetched /\ ~IsBlock(L2, l2, a) =>
       Cardinality(Conflicting(fetched, BlockOf(a))) > L2Ways
  /\ \A b \in again : Cardinality(Conflicting(fetched, b)) > L2Ways

LEMMA MoreConflicts ==
  ASSUME NEW F, NEW G, IsFiniteSet(G), F \subseteq G, NEW b,
         Cardinality(Conflicting(F, b)) > L2Ways
  PROVE  Cardinality(Conflicting(G, b)) > L2Ways
<1>1. Conflicting(F, b) \subseteq Conflicting(G, b) /\ Conflicting(G, b) \subseteq G
  BY DEF Conflicting
<1>2. /\ IsFiniteSet(Conflicting(G, b)) /\ IsFiniteSet(Conflicting(F, b))
      /\ Cardinality(Conflicting(F, b)) <= Cardinality(Conflicting(G, b))
  BY <1>1, FS_Subset
<1>3. /\ Cardinality(Conflicting(F, b)) \in Nat
      /\ Cardinality(Conflicting(G, b)) \in Nat /\ L2Ways \in Nat
  BY <1>2, FS_CardinalityType, HierarchyAssumption
<1> QED  BY <1>2, <1>3

LEMMA FetchStep == IInv /\ FetchInv /\ [SimNext]_simVars => FetchInv'
<1> SUFFICES ASSUME IInv, FetchInv, [SimNext]_simVars PROVE FetchInv'
  OBVIOUS
<1>1. ASSUME NEW op \in Ops, NEW a \in Addrs, Access(op, a)
      PROVE  FetchInv'
  <2> DEFINE b == BlockOf(a)
             toMem == ~IsBlock(L1, l1, a) /\ ~IsBlock(L2, l2, a)
  <2>1. /\ RunCommand(op, a)
        /\ fetched' = IF toMem /\ BlockAlloc(op) THEN fetched \cup {b} ELSE fetched
        /\ again' = IF toMem /\ b \in fetched THEN again \cup {b} ELSE again
    BY <1>1 DEF Access
  <2>2. IF ~toMem \/ ~BlockAlloc(op)
        THEN \A x \in Addrs : IsBlock(L2, l2', x) <=> IsBlock(L2, l2, x)
        ELSE /\ IsBlock(L2, l2', a)
             /\ \A x \in Addrs : IsBlock(L2, l2', x) =>
                  IsBlock(L2, l2, x) \/ BlockOf(x) = b
             /\ \A x \in Addrs : IsBlock(L2, l2, x) /\ ~IsBlock(L2, l2', x) =>
                  ~IsFree(L2, l2, a) /\ GetSet(L2, x) = GetSet(L2, a)
    BY <2>1, L2AfterCommand
  <2>3. toMem => ~IsBlock(L2, l2, a)
    OBVIOUS
  <2> HIDE DEF toMem
  <2>4. /\ IsFiniteSet(fetched') /\ fetched \subseteq fetched'
        /\ again' \subseteq fetched'
    BY <2>1, FS_AddElement DEF FetchInv
  <2>5. \A x : Cardinality(Conflicting(fetched, x)) > L2Ways =>
               Cardinality(Conflicting(fetched', x)) > L2Ways
    BY <2>4, MoreConflicts
  <2>6. \A x \in again' : Cardinality(Conflicting(fetched', x)) > L2Ways
    BY <2>1, <2>3, <2>5 DEF FetchInv
  <2>7. \A x \in Addrs : IsBlock(L2, l2', x) => BlockOf(x) \in fetched'
    BY <2>1, <2>2, <2>4 DEF FetchInv
  <2>8. ASSUME NEW x \in Addrs, BlockOf(x) \in fetched', ~IsBlock(L2, l2', x)
        PROVE  Cardinality(Conflicting(fetched', BlockOf(x))) > L2Ways
    <3>1. CASE BlockOf(x) \in fetched /\ ~IsBlock(L2, l2, x)
      BY <2>5, <3>1 DEF FetchInv
    <3>2. CASE BlockOf(x) \notin fetched
      <4>1. BlockOf(x) = b /\ toMem /\ BlockAlloc(op)
        BY <2>1, <2>8, <3>2
      <4>2. IsBlock(L2, l2', x)
        BY <2>2, <4>1, Geometries, Addresses, SameBlockSameSearch
      <4> QED  BY <2>8, <4>2
    <3>3. CASE IsBlock(L2, l2, x)
      <4>1. /\ toMem /\ BlockAlloc(op) /\ ~IsFree(L2, l2, a)
            /\ GetSet(L2, x) = GetSet(L2, a)
        BY <2>2, <2>8, <3>3
      <4>2. b \in fetched'
        BY <2>1, <4>1
      <4>3. Cardinality(Conflicting(fetched', b)) > L2Ways
        BY <2>3, <2>4, <4>1, <4>2, FullLineConflicts DEF FetchInv
      <4>4. Conflicting(fetched', BlockOf(x)) = Conflicting(fetched', b)
        BY <4>1 DEF Conflicting, GetSet, L2
      <4> QED  BY <4>3, <4>4
    <3> QED  BY <3>1, <3>2, <3>3
  <2> QED  BY <2>4, <2>6, <2>7, <2>8 DEF FetchInv, Conflicting
<1>2. CASE UNCHANGED <<l1, l2, history>>
  BY <1>2 DEF history, FetchInv, Conflicting
<1>3. (Start \/ Reject \/ EndOfFile \/ UNCHANGED simVars) =>
        UNCHANGED <<l1, l2, history>>
  BY DEF Start, Reject, EndOfFile, simVars
<1> QED  BY <1>1, <1>2, <1>3 DEF SimNext

(* A block that L2 fetched misses it again only after more blocks than L2  *)
(* has ways were fetched into its set, for all sizes and traces: L2 gives  *)
(* no block up before its line is full, and never wastes a way.            *)
THEOREM RefetchedByConflict == SimSpec => []OnlyConflictsRefetch
<1>1. SimInit => FetchInv
  <2> SUFFICES ASSUME SimInit PROVE FetchInv
    OBVIOUS
  <2>1. fetched = {} /\ again = {} /\ l2 = EmptyCache(L2)
    BY DEF SimInit, Init
  <2>2. \A a \in Addrs : ~IsBlock(L2, l2, a)
    <3>1. \A s \in 0 .. L2.sets - 1, w \in Ways(L2) : ~l2[s][w].valid
      BY <2>1 DEF EmptyCache
    <3>2. \A a \in Addrs : GetSet(L2, a) \in 0 .. L2.sets - 1
      BY Geometries, Addresses, SetInRange
    <3> QED  BY <3>1, <3>2 DEF IsBlock, Match, Line
  <2> QED  BY <2>1, <2>2, FS_EmptySet DEF FetchInv
<1>2. FetchInv => OnlyConflictsRefetch
  BY DEF FetchInv, OnlyConflictsRefetch, Conflicting
<1> QED  BY <1>1, <1>2, FetchStep, SimIsGood, PTL DEF SimSpec

-----------------------------------------------------------------------------
(* L2 as the LRU store of module LruStore (module CacheLru).               *)

(* Way w of set s of c has block b.                                        *)
Has(c, s, w, b) ==
  /\ s \in 0 .. L2.sets - 1 /\ w \in Ways(L2)
  /\ c[s][w].valid /\ BlockOf(c[s][w].addr) = b

(* A block that is there is in one way, of the set that its number names.  *)
LEMMA OneWay ==
  ASSUME NEW c, Consistent(L2, c), NEW s, NEW w, NEW b, Has(c, s, w, b)
  PROVE  /\ b \in Blocks /\ b \in Nat /\ s = b % L2Sets
         /\ \A t, x : Has(c, t, x, b) => t = s /\ x = w
<1>1. c[s][w].addr \in Addrs /\ GetSet(L2, c[s][w].addr) = s
  BY DEF Has, Consistent
<1>2. b \in Blocks /\ b \in Nat /\ s = b % L2Sets
  <2>1. b \in Nat
    BY <1>1, Geometries, Addresses, SetInRange DEF Has
  <2> QED  BY <1>1, <2>1 DEF Has, Blocks, GetSet, L2
<1>3. ASSUME NEW t, NEW x, Has(c, t, x, b), ~(t = s /\ x = w)
      PROVE  FALSE
  BY <1>3, Geometries, OtherWays DEF Has
<1> QED  BY <1>2, <1>3

LEMMA HasIsHeld ==
  ASSUME NEW c, Consistent(L2, c), NEW b
  PROVE  Holds(L2, c, b) <=> \E s, w : Has(c, s, w, b)
<1>1. ASSUME NEW s, NEW w, Has(c, s, w, b)
      PROVE  Holds(L2, c, b)
  BY <1>1 DEF Has, Holds, Consistent, IsBlock, Match, Line
<1>2. ASSUME Holds(L2, c, b)
      PROVE  \E s, w : Has(c, s, w, b)
  <2>1. PICK a \in Addrs : BlockOf(a) = b /\ Match(L2, c, a) # {}
    BY <1>2 DEF Holds, IsBlock
  <2>2. PICK w \in Ways(L2) : /\ c[GetSet(L2, a)][w].valid
                              /\ c[GetSet(L2, a)][w].tag = GetTag(L2, a)
    BY <2>1 DEF Match, Line
  <2>3. GetSet(L2, a) \in 0 .. L2.sets - 1
    BY Geometries, Addresses, SetInRange
  <2>4. LET e == c[GetSet(L2, a)][w].addr IN
        /\ e \in Addrs /\ GetSet(L2, e) = GetSet(L2, a)
        /\ GetTag(L2, e) = GetTag(L2, a)
    BY <2>2, <2>3 DEF Consistent
  <2>5. BlockOf(c[GetSet(L2, a)][w].addr) = b
    BY <2>1, <2>4, Geometries, Addresses, SetAndTagNameTheBlock
  <2> QED  BY <2>2, <2>3, <2>5 DEF Has
<1> QED  BY <1>1, <1>2

LEMMA YoungerHas ==
  ASSUME NEW c, NEW b, NEW d
  PROVE  Younger(L2, c, b, d) <=>
           \E s, w, x : Has(c, s, w, b) /\ Has(c, s, x, d)
                        /\ c[s][w].lru < c[s][x].lru
BY DEF Younger, Has

(* The store of c by its ways.                                             *)
LEMMA StoreOfWays ==
  ASSUME NEW c, Consistent(L2, c)
  PROVE  LET S == Stored(L2, c) IN
         /\ S = [keys |-> S.keys, later |-> S.later]
         /\ S.keys \subseteq Blocks /\ S.later \subseteq Blocks \X Blocks
         /\ \A b : b \in S.keys <=> \E s, w : Has(c, s, w, b)
         /\ \A b, d : <<b, d>> \in S.later <=>
              \E s, w, x : Has(c, s, w, b) /\ Has(c, s, x, d)
                           /\ c[s][w].lru < c[s][x].lru
<1> DEFINE K == {b \in Blocks : Holds(L2, c, b)}
           L == {p \in Blocks \X Blocks : Younger(L2, c, p[1], p[2])}
<1>1. Stored(L2, c) = [keys |-> K, later |-> L]
  BY DEF Stored
<1>2. \A b : b \in K <=> \E s, w : Has(c, s, w, b)
  BY HasIsHeld, OneWay
<1>3. ASSUME NEW b, NEW d
      PROVE  <<b, d>> \in L <=>
               \E s, w, x : Has(c, s, w, b) /\ Has(c, s, x, d)
                            /\ c[s][w].lru < c[s][x].lru
  <2>1. <<b, d>> \in L <=>
          b \in Blocks /\ d \in Blocks /\ Younger(L2, c, b, d)
    OBVIOUS
  <2>2. (\E s, w, x : Has(c, s, w, b) /\ Has(c, s, x, d)) =>
           b \in Blocks /\ d \in Blocks
    BY OneWay
  <2> HIDE DEF L
  <2> QED  BY <2>1, <2>2, YoungerHas
<1>4. K \subseteq Blocks /\ L \subseteq Blocks \X Blocks
  OBVIOUS
<1> HIDE DEF K, L
<1> QED  BY <1>1, <1>2, <1>3, <1>4

(* Two sets of pairs of blocks are equal when they have the same pairs.    *)
LEMMA SamePairs ==
  ASSUME NEW S, NEW P \in SUBSET (S \X S), NEW Q \in SUBSET (S \X S),
         \A x, y \in S : <<x, y>> \in P <=> <<x, y>> \in Q
  PROVE  P = Q
<1>1. \A p \in S \X S : p = <<p[1], p[2]>> /\ p[1] \in S /\ p[2] \in S
  OBVIOUS
<1>2. \A p \in S \X S : p \in P <=> p \in Q
  BY <1>1
<1> QED  BY <1>2

(* d is c with block k used: it is now in way u of its set.                *)
LEMMA TouchedStore ==
  ASSUME NEW c \in CacheOf(L2), NEW d \in CacheOf(L2),
         Consistent(L2, c), Consistent(L2, d), Dense(L2, c),
         NEW s \in 0 .. L2.sets - 1, NEW u \in Ways(L2),
         Rejuvenated(L2, c, d, s, u), NEW k, Has(d, s, u, k),
         c[s][u].valid => BlockOf(c[s][u].addr) = k,
         \A x \in 0 .. L2.sets - 1, w \in Ways(L2) : ~(x = s /\ w = u) =>
           d[x][w].valid = c[x][w].valid /\ d[x][w].addr = c[x][w].addr
  PROVE  Stored(L2, d) = L2Store!Touch(Stored(L2, c), k)
<1> DEFINE S == Stored(L2, c)
           T == Stored(L2, d)
           R == {p \in S.later : p[2] # k}
           Q == {k} \X (L2Store!SameSet(S, k) \ {k})
<1>1. /\ S.keys \subseteq Blocks /\ S.later \subseteq Blocks \X Blocks
      /\ \A b : b \in S.keys <=> \E t, w : Has(c, t, w, b)
      /\ \A b, e : <<b, e>> \in S.later <=>
           \E t, w, x : Has(c, t, w, b) /\ Has(c, t, x, e)
                        /\ c[t][w].lru < c[t][x].lru
  BY StoreOfWays
<1>2. /\ T = [keys |-> T.keys, later |-> T.later]
      /\ T.keys \subseteq Blocks /\ T.later \subseteq Blocks \X Blocks
      /\ \A b : b \in T.keys <=> \E t, w : Has(d, t, w, b)
      /\ \A b, e : <<b, e>> \in T.later <=>
           \E t, w, x : Has(d, t, w, b) /\ Has(d, t, x, e)
                        /\ d[t][w].lru < d[t][x].lru
  BY StoreOfWays
<1>3. /\ k \in Blocks /\ s = k % L2Sets
      /\ \A t, x : Has(d, t, x, k) => t = s /\ x = u
  BY OneWay
<1>4. \A t, w, b : ~(t = s /\ w = u) => (Has(d, t, w, b) <=> Has(c, t, w, b))
  BY DEF Has
<1>5. \A b : Has(c, s, u, b) => b = k
  BY DEF Has
<1>6. \A t, w : Has(c, t, w, k) => t = s /\ w = u
  BY <1>3, <1>4
<1>7. T.keys = S.keys \cup {k}
  <2> HIDE DEF S, T
  <2>1. ASSUME NEW b \in T.keys PROVE b \in S.keys \/ b = k
    <3>1. PICK t, w : Has(d, t, w, b)
      BY <1>2
    <3>2. t = s /\ w = u => b = k
      BY <3>1 DEF Has
    <3> QED  BY <1>1, <1>4, <3>1, <3>2
  <2>2. ASSUME NEW b \in S.keys PROVE b \in T.keys \/ b = k
    <3>1. PICK t, w : Has(c, t, w, b)
      BY <1>1
    <3> QED  BY <1>2, <1>4, <1>5, <3>1
  <2>3. k \in T.keys
    BY <1>2
  <2> QED  BY <2>1, <2>2, <2>3
<1>8. /\ \A t \in 0 .. L2.sets - 1, w \in Ways(L2) : c[t][w].lru \in Nat
      /\ \A w \in Ways(L2) : c[s][w].valid /\ w # u => c[s][w].lru # c[s][u].lru
  <2>1. \A t \in 0 .. L2.sets - 1, w \in Ways(L2) :
          c[t][w].lru \in 0 .. L2.ways
    BY Geometries, AgesAreNumbers
  <2>2. L2.ways \in Nat
    BY Geometries DEF Geometry
  <2>3. DenseLine(L2, c[s])
    BY DEF Dense
  <2>4. ASSUME NEW w \in Ways(L2), c[s][w].valid, w # u
        PROVE  c[s][w].lru # c[s][u].lru
    <3>1. CASE c[s][u].valid
      BY <2>3, <2>4, <3>1 DEF DenseLine
    <3>2. CASE ~c[s][u].valid
      BY <2>1, <2>2, <2>3, <2>4, <3>2 DEF DenseLine
    <3> QED  BY <3>1, <3>2
  <2> QED  BY <2>1, <2>2, <2>4
<1>9. \A w \in Ways(L2) :
        d[s][w].lru = IF w = u THEN 0
                      ELSE IF c[s][w].valid /\ c[s][w].lru < c[s][u].lru
                           THEN c[s][w].lru + 1 ELSE c[s][w].lru
  BY DEF Rejuvenated
<1>10. \A t \in 0 .. L2.sets - 1, w \in Ways(L2) :
         t # s => d[t][w].lru = c[t][w].lru
  BY DEF Rejuvenated
(* The order of the ages of two other blocks is what it was.               *)
<1>11. ASSUME NEW t, NEW w, NEW x, NEW b, NEW e, Has(c, t, w, b),
              Has(c, t, x, e), ~(t = s /\ w = u), ~(t = s /\ x = u)
       PROVE  d[t][w].lru < d[t][x].lru <=> c[t][w].lru < c[t][x].lru
  <2>1. /\ t \in 0 .. L2.sets - 1 /\ w \in Ways(L2) /\ x \in Ways(L2)
        /\ c[t][w].valid /\ c[t][x].valid
    BY <1>11 DEF Has
  <2>2. CASE t # s
    BY <1>10, <2>1, <2>2
  <2>3. CASE t = s
    <3>1. /\ c[s][w].lru \in Nat /\ c[s][x].lru \in Nat /\ c[s][u].lru \in Nat
          /\ c[s][w].lru # c[s][u].lru /\ c[s][x].lru # c[s][u].lru
      BY <1>8, <1>11, <2>1, <2>3
    <3>2. /\ d[s][w].lru = IF c[s][w].lru < c[s][u].lru
                           THEN c[s][w].lru + 1 ELSE c[s][w].lru
          /\ d[s][x].lru = IF c[s][x].lru < c[s][u].lru
                           THEN c[s][x].lru + 1 ELSE c[s][x].lru
      BY <1>9, <1>11, <2>1, <2>3
    <3> QED  BY <2>3, <3>1, <3>2
  <2> QED  BY <2>2, <2>3
(* Every other block of the set is now older than k.                       *)
<1>12. ASSUME NEW x, NEW e, Has(c, s, x, e), x # u
       PROVE  d[s][u].lru < d[s][x].lru
  <2>1. x \in Ways(L2) /\ c[s][x].valid
    BY <1>12 DEF Has
  <2>2. /\ c[s][x].lru \in Nat /\ c[s][u].lru \in Nat
        /\ c[s][x].lru # c[s][u].lru
    BY <1>8, <1>12, <2>1
  <2> QED  BY <1>9, <1>12, <2>1, <2>2
<1>13. \A b, e \in Blocks : <<b, e>> \in T.later <=> <<b, e>> \in R \cup Q
  <2> SUFFICES ASSUME NEW b \in Blocks, NEW e \in Blocks
               PROVE  <<b, e>> \in T.later <=> <<b, e>> \in R \cup Q
    OBVIOUS
  <2>1. <<b, e>> \in R <=> <<b, e>> \in S.later /\ e # k
    OBVIOUS
  <2>2. <<b, e>> \in Q <=> b = k /\ e # k /\ e \in S.keys
                           /\ e % L2Sets = k % L2Sets
    BY DEF L2Store!SameSet, L2Store!SetOf
  <2> HIDE DEF R, Q, S, T
  <2>3. ASSUME <<b, e>> \in T.later
        PROVE  <<b, e>> \in R \cup Q
    <3>1. PICK t, w, x : /\ Has(d, t, w, b) /\ Has(d, t, x, e)
                         /\ d[t][w].lru < d[t][x].lru
      BY <1>2, <2>3
    <3>2. ~(t = s /\ x = u)
      <4>1. t = s => w \in Ways(L2) /\ c[s][w].lru \in Nat
        BY <1>8, <3>1 DEF Has
      <4>2. t = s => d[s][w].lru \in Nat /\ d[s][u].lru = 0
        BY <1>8, <1>9, <4>1
      <4> QED  BY <3>1, <4>2
    <3>3. Has(c, t, x, e) /\ e # k
      BY <1>4, <1>6, <3>1, <3>2
    <3>4. CASE t = s /\ w = u
      <4>1. b = k
        BY <3>1, <3>4 DEF Has
      <4>2. e \in S.keys /\ e % L2Sets = s
        BY <1>1, <3>3, <3>4, OneWay
      <4> QED  BY <1>3, <2>2, <3>3, <4>1, <4>2
    <3>5. CASE ~(t = s /\ w = u)
      <4>1. Has(c, t, w, b)
        BY <1>4, <3>1, <3>5
      <4>2. c[t][w].lru < c[t][x].lru
        BY <1>11, <3>1, <3>2, <3>3, <3>5, <4>1
      <4> QED  BY <1>1, <2>1, <3>3, <4>1, <4>2
    <3> QED  BY <3>4, <3>5
  <2>4. ASSUME <<b, e>> \in R
        PROVE  <<b, e>> \in T.later
    <3>1. PICK t, w, x : /\ Has(c, t, w, b) /\ Has(c, t, x, e)
                         /\ c[t][w].lru < c[t][x].lru
      BY <1>1, <2>1, <2>4
    <3>2. ~(t = s /\ x = u)
      BY <1>5, <2>1, <2>4, <3>1
    <3>3. Has(d, t, x, e)
      BY <1>4, <3>1, <3>2
    <3>4. CASE t = s /\ w = u
      <4>1. Has(d, t, w, b)
        BY <1>5, <3>1, <3>4
      <4>2. d[t][w].lru < d[t][x].lru
        BY <1>12, <3>1, <3>2, <3>4
      <4> QED  BY <1>2, <3>3, <4>1, <4>2
    <3>5. CASE ~(t = s /\ w = u)
      BY <1>2, <1>4, <1>11, <3>1, <3>2, <3>3, <3>5
    <3> QED  BY <3>4, <3>5
  <2>5. ASSUME <<b, e>> \in Q
        PROVE  <<b, e>> \in T.later
    <3>1. b = k /\ e # k /\ e \in S.keys /\ e % L2Sets = s
      BY <1>3, <2>2, <2>5
    <3>2. PICK t, x : Has(c, t, x, e)
      BY <1>1, <3>1
    <3>3. t = s /\ x # u
      BY <1>5, <3>1, <3>2, OneWay
    <3>4. Has(d, s, x, e) /\ d[s][u].lru < d[s][x].lru
      BY <1>4, <1>12, <3>2, <3>3
    <3> QED  BY <1>2, <3>1, <3>4
  <2> QED  BY <2>3, <2>4, <2>5
<1>14. R \cup Q \subseteq Blocks \X Blocks
  BY <1>1, <1>3 DEF L2Store!SameSet
<1>15. T.later = R \cup Q
  <2> HIDE DEF R, Q, T
  <2> QED  BY <1>2, <1>13, <1>14, SamePairs
<1> QED  BY <1>2, <1>7, <1>15 DEF L2Store!Touch

(* The dirty bits are no part of the store.                                *)
LEMMA SoiledStore ==
  ASSUME NEW c \in CacheOf(L2), Consistent(L2, c), NEW a \in Addrs
  PROVE  Stored(L2, SetDirty(L2, c, a)) = Stored(L2, c)
<1> DEFINE d == SetDirty(L2, c, a)
<1>1. SameBlocks(L2, c, d) /\ SameAges(L2, c, d)
  BY Geometries, Addresses, SetDirtyEffect
<1> HIDE DEF d
<1>2. \A b : Holds(L2, d, b) <=> Holds(L2, c, b)
  BY <1>1, Geometries, Addresses, SameBlocksSameSearch DEF Holds
<1>3. \A b, e : Younger(L2, d, b, e) <=> Younger(L2, c, b, e)
  BY <1>1 DEF Younger, SameBlocks, SameAges
<1> QED  BY <1>2, <1>3 DEF Stored, d

(* setInvalid takes the block and its pairs out.                           *)
LEMMA RemovedStore ==
  ASSUME NEW c \in CacheOf(L2), Consistent(L2, c), NEW v \in Addrs
  PROVE  Stored(L2, SetInvalid(L2, c, v))
           = L2Store!Without(Stored(L2, c), {BlockOf(v)})
<1> DEFINE d == SetInvalid(L2, c, v)
           k == BlockOf(v)
           S == Stored(L2, c)
           T == Stored(L2, d)
           R == {p \in S.later : p[1] \notin {k} /\ p[2] \notin {k}}
<1>1. /\ d \in CacheOf(L2) /\ Consistent(L2, d)
      /\ \A t \in 0 .. L2.sets - 1, w \in Ways(L2) :
           IF t = GetSet(L2, v) /\ w \in Match(L2, c, v)
           THEN ~d[t][w].valid ELSE d[t][w] = c[t][w]
  BY Geometries, Addresses, SetInvalidEffect, SetInvalidConsistent
<1>2. ASSUME NEW t, NEW w, NEW b
      PROVE  Has(d, t, w, b) <=> Has(c, t, w, b) /\ b # k
  <2>1. ASSUME Has(c, t, w, b)
        PROVE  b = k <=> t = GetSet(L2, v) /\ w \in Match(L2, c, v)
    <3>1. /\ c[t][w].addr \in Nat /\ GetSet(L2, c[t][w].addr) = t
          /\ GetTag(L2, c[t][w].addr) = c[t][w].tag
      BY <2>1, Addresses DEF Has, Consistent
    <3>2. b = k <=> GetSet(L2, v) = t /\ GetTag(L2, v) = c[t][w].tag
      BY <2>1, <3>1, Geometries, Addresses, SetAndTagNameTheBlock DEF Has
    <3> QED  BY <2>1, <3>2 DEF Has, Match, Line
  <2> HIDE DEF d, k
  <2> QED  BY <1>1, <2>1 DEF Has
<1> HIDE DEF d
<1>3. /\ S.keys \subseteq Blocks /\ S.later \subseteq Blocks \X Blocks
      /\ \A b : b \in S.keys <=> \E t, w : Has(c, t, w, b)
      /\ \A b, e : <<b, e>> \in S.later <=>
           \E t, w, x : Has(c, t, w, b) /\ Has(c, t, x, e)
                        /\ c[t][w].lru < c[t][x].lru
  BY StoreOfWays
<1>4. /\ T = [keys |-> T.keys, later |-> T.later]
      /\ T.keys \subseteq Blocks /\ T.later \subseteq Blocks \X Blocks
      /\ \A b : b \in T.keys <=> \E t, w : Has(d, t, w, b)
      /\ \A b, e : <<b, e>> \in T.later <=>
           \E t, w, x : Has(d, t, w, b) /\ Has(d, t, x, e)
                        /\ d[t][w].lru < d[t][x].lru
  BY <1>1, StoreOfWays
<1>5. T.keys = S.keys \ {k}
  <2> HIDE DEF S, T, k
  <2>1. \A b : b \in T.keys <=> b \in S.keys /\ b # k
    BY <1>2, <1>3, <1>4
  <2> QED  BY <2>1
<1>6. \A t, w, b : Has(d, t, w, b) => d[t][w] = c[t][w]
  BY <1>1 DEF Has
<1>7. \A b, e \in Blocks : <<b, e>> \in T.later <=> <<b, e>> \in R
  <2> SUFFICES ASSUME NEW b \in Blocks, NEW e \in Blocks
               PROVE  <<b, e>> \in T.later <=> <<b, e>> \in R
    OBVIOUS
  <2>1. <<b, e>> \in R <=> <<b, e>> \in S.later /\ b # k /\ e # k
    OBVIOUS
  <2> HIDE DEF R, S, T, k
  <2>2. ASSUME <<b, e>> \in T.later
        PROVE  <<b, e>> \in R
    <3>1. PICK t, w, x : /\ Has(d, t, w, b) /\ Has(d, t, x, e)
                         /\ d[t][w].lru < d[t][x].lru
      BY <1>4, <2>2
    <3>2. d[t][w] = c[t][w] /\ d[t][x] = c[t][x]
      BY <1>6, <3>1
    <3> QED  BY <1>2, <1>3, <2>1, <3>1, <3>2
  <2>3. ASSUME <<b, e>> \in R
        PROVE  <<b, e>> \in T.later
    BY <1>2, <1>3, <1>4, <1>6, <2>1, <2>3
  <2> QED  BY <2>2, <2>3
<1>8. T.later = R
  <2> DEFINE U == T.later
  <2>1. R \in SUBSET (Blocks \X Blocks) /\ U \in SUBSET (Blocks \X Blocks)
    BY <1>3, <1>4
  <2>2. \A x, y \in Blocks : <<x, y>> \in U <=> <<x, y>> \in R
    BY <1>7
  <2> HIDE DEF R, U
  <2>3. U = R
    BY <2>1, <2>2, SamePairs, Zenon
  <2> QED  BY <2>3 DEF U
<1> QED  BY <1>4, <1>5, <1>8 DEF L2Store!Without, d

(* In a full line chooseVictim finds the block used the longest ago.       *)
LEMMA VictimIsLeast ==
  ASSUME NEW c \in CacheOf(L2), Consistent(L2, c), Dense(L2, c),
         NEW a \in Addrs, ~IsFree(L2, c, a), NEW v \in Victims(L2, c, a)
  PROVE  L2Store!Least(Stored(L2, c), BlockOf(a)) = {BlockOf(v)}
<1> DEFINE S == Stored(L2, c)
           k == BlockOf(v)
           s == GetSet(L2, a)
           n == L2.ways
<1>1. /\ s \in 0 .. L2.sets - 1 /\ s = BlockOf(a) % L2Sets /\ n \in Nat
      /\ DenseLine(L2, c[s])
      /\ \A t \in 0 .. L2.sets - 1, w \in Ways(L2) : c[t][w].lru \in 0 .. n
  <2>1. s \in 0 .. L2.sets - 1 /\ s = BlockOf(a) % L2Sets
    BY Geometries, Addresses, SetInRange DEF GetSet, L2
  <2> QED  BY <2>1, Geometries, AgesAreNumbers DEF Geometry, Dense
<1>2. PICK u : Has(c, s, u, k) /\ c[s][u].lru = n - 1
  <2>1. /\ v \in Addrs /\ IsBlock(L2, c, v) /\ GetSet(L2, v) = s
        /\ \A w \in Match(L2, c, v) : c[s][w].lru = n - 1
    BY Geometries, Addresses, VictimOfDense
  <2>2. PICK u \in Match(L2, c, v) : TRUE
    BY <2>1 DEF IsBlock
  <2>3. u \in Ways(L2) /\ c[s][u].valid /\ c[s][u].tag = GetTag(L2, v)
    BY <2>1, <2>2 DEF Match, Line
  <2>4. /\ c[s][u].addr \in Nat /\ GetSet(L2, c[s][u].addr) = s
        /\ GetTag(L2, c[s][u].addr) = c[s][u].tag
    BY <1>1, <2>3, Addresses DEF Consistent
  <2>5. BlockOf(c[s][u].addr) = k
    BY <2>1, <2>3, <2>4, Geometries, Addresses, SetAndTagNameTheBlock
  <2> QED  BY <1>1, <2>1, <2>2, <2>3, <2>5 DEF Has
<1>3. /\ \A b : b \in S.keys <=> \E t, w : Has(c, t, w, b)
      /\ \A b, e : <<b, e>> \in S.later <=>
           \E t, w, x : Has(c, t, w, b) /\ Has(c, t, x, e)
                        /\ c[t][w].lru < c[t][x].lru
  BY StoreOfWays
<1>4. k % L2Sets = s /\ \A t, w : Has(c, t, w, k) => t = s /\ w = u
  BY <1>2, OneWay
<1> HIDE DEF S, k, s, n
<1>5. ASSUME NEW e, <<k, e>> \in S.later
      PROVE  FALSE
  <2>1. PICK t, w, x : /\ Has(c, t, w, k) /\ Has(c, t, x, e)
                       /\ c[t][w].lru < c[t][x].lru
    BY <1>3, <1>5
  <2>2. /\ t = s /\ w = u /\ x \in Ways(L2) /\ c[s][x].valid
    BY <1>4, <2>1 DEF Has
  <2>3. c[s][x].lru < n /\ c[s][x].lru \in Nat
    BY <1>1, <2>2 DEF DenseLine, n
  <2> QED  BY <1>1, <1>2, <2>1, <2>2, <2>3
<1>6. ASSUME NEW b \in S.keys, b % L2Sets = s, b # k
      PROVE  <<b, k>> \in S.later
  <2>1. PICK t, w : Has(c, t, w, b)
    BY <1>3
  <2>2. t = s
    BY <1>6, <2>1, OneWay
  <2>3. w # u /\ w \in Ways(L2) /\ u \in Ways(L2) /\ c[s][w].valid
        /\ c[s][u].valid
    BY <1>2, <1>6, <2>1, <2>2 DEF Has
  <2>4. c[s][w].lru < n /\ c[s][w].lru # n - 1 /\ c[s][w].lru \in Nat
    BY <1>1, <1>2, <2>3 DEF DenseLine, n
  <2>5. c[s][w].lru < c[s][u].lru
    BY <1>1, <1>2, <2>4
  <2> QED  BY <1>2, <1>3, <2>1, <2>2, <2>5
<1>7. k \in S.keys
  BY <1>2, <1>3
<1>8. L2Store!Least(S, BlockOf(a))
        = {x \in S.keys : /\ x % L2Sets = s
                          /\ \A y \in S.keys : <<x, y>> \notin S.later}
  BY <1>1 DEF L2Store!Least, L2Store!SameSet, L2Store!SetOf
<1>9. L2Store!Least(S, BlockOf(a)) = {k}
  BY <1>4, <1>5, <1>6, <1>7, <1>8
<1> QED  BY <1>9 DEF S, k

(* A set of the store is full when the line has no free way.               *)
LEMMA RoomInStore ==
  ASSUME NEW c \in CacheOf(L2), Consistent(L2, c), NEW a \in Addrs
  PROVE  Cardinality(L2Store!SameSet(Stored(L2, c), BlockOf(a))) < L2Ways
           <=> IsFree(L2, c, a)
<1> DEFINE s == GetSet(L2, a)
           T == L2Store!SameSet(Stored(L2, c), BlockOf(a))
           V == {w \in Ways(L2) : c[s][w].valid}
           at == [w \in V |-> BlockOf(c[s][w].addr)]
<1>1. /\ s \in 0 .. L2.sets - 1 /\ s = BlockOf(a) % L2Sets
      /\ L2Ways \in Nat \ {0} /\ Ways(L2) = 0 .. L2Ways - 1
  <2>1. s \in 0 .. L2.sets - 1 /\ s = BlockOf(a) % L2Sets
    BY Geometries, Addresses, SetInRange DEF GetSet, L2
  <2> QED  BY <2>1, HierarchyAssumption DEF Ways, L2
<1>2. /\ IsFiniteSet(Ways(L2)) /\ Cardinality(Ways(L2)) = L2Ways
  BY <1>1, FS_Interval
<1>3. V \in SUBSET Ways(L2)
  OBVIOUS
<1>4. IsFree(L2, c, a) <=> V # Ways(L2)
  BY DEF IsFree, Free, Line
<1>5. \A b : b \in T <=> \E w : Has(c, s, w, b)
  <2>1. \A b : b \in T <=> b % L2Sets = s /\ \E t, w : Has(c, t, w, b)
    BY <1>1, StoreOfWays DEF L2Store!SameSet, L2Store!SetOf
  <2> HIDE DEF T, s
  <2> QED  BY <2>1, OneWay
<1>6. IsFiniteSet(V) /\ Cardinality(V) <= L2Ways
      /\ (Cardinality(V) = L2Ways => V = Ways(L2))
  <2> HIDE DEF V
  <2> QED  BY <1>2, <1>3, FS_Subset
<1>7. \A w \in V : Has(c, s, w, at[w])
  BY <1>1 DEF Has
<1>8. \A b \in T : \E w \in V : at[w] = b
  <2> SUFFICES ASSUME NEW b \in T PROVE \E w \in V : at[w] = b
    OBVIOUS
  <2>1. PICK w : Has(c, s, w, b)
    BY <1>5
  <2> QED  BY <2>1 DEF Has
<1>9. \A w, x \in V : at[w] = at[x] => w = x
  <2> HIDE DEF V, at
  <2> QED  BY <1>7, OneWay
<1>10. at \in [V -> T]
  <2>1. \A w \in V : at[w] \in T
    <3> HIDE DEF V, T, at
    <3> QED  BY <1>5, <1>7
  <2> HIDE DEF T
  <2> QED  BY <2>1
<1> HIDE DEF V, T, at
<1>11. at \in Surjection(V, T) /\ at \in Injection(V, T)
  BY <1>8, <1>9, <1>10 DEF Surjection, Injection, IsInjective
<1>12. IsFiniteSet(T) /\ Cardinality(T) = Cardinality(V)
  BY <1>6, <1>11, FS_Surjection
<1>13. Cardinality(V) \in Nat /\ (V = Ways(L2) => Cardinality(V) = L2Ways)
  BY <1>2, <1>6, FS_CardinalityType
<1>14. Cardinality(T) < L2Ways <=> IsFree(L2, c, a)
  BY <1>1, <1>4, <1>6, <1>12, <1>13
<1> QED  BY <1>14 DEF T

(* The three ways in which L2 uses a block: a hit, a write-back of L1 and  *)
(* an allocation in a line with room, each of them with setDirty or not.   *)
LEMMA UsedStore ==
  ASSUME NEW c \in CacheOf(L2), Consistent(L2, c), Dense(L2, c),
         NEW a \in Addrs, NEW d \in CacheOf(L2), SameBlocks(L2, c, d),
         NEW u \in Match(L2, c, a), Rejuvenated(L2, c, d, GetSet(L2, a), u)
  PROVE  Stored(L2, d) = L2Store!Use(Stored(L2, c), BlockOf(a))
         /\ BlockOf(a) \in Stored(L2, c).keys
<1> DEFINE s == GetSet(L2, a)
           k == BlockOf(a)
<1>1. Consistent(L2, d)
  BY Geometries, SameBlocksConsistent
<1>2. s \in 0 .. L2.sets - 1 /\ u \in Ways(L2)
  BY Geometries, Addresses, SetInRange DEF Match
<1>3. c[s][u].valid /\ c[s][u].tag = GetTag(L2, a)
  BY DEF Match, Line
<1>4. Has(c, s, u, k)
  <2>1. /\ c[s][u].addr \in Nat /\ GetSet(L2, c[s][u].addr) = s
        /\ GetTag(L2, c[s][u].addr) = c[s][u].tag
    BY <1>2, <1>3, Addresses DEF Consistent
  <2> QED
    BY <1>2, <1>3, <2>1, Geometries, Addresses, SetAndTagNameTheBlock DEF Has
<1>5. Has(d, s, u, k)
  BY <1>4 DEF Has, SameBlocks
<1>6. \A x \in 0 .. L2.sets - 1, w \in Ways(L2) :
        d[x][w].valid = c[x][w].valid /\ d[x][w].addr = c[x][w].addr
  BY DEF SameBlocks
<1>7. Stored(L2, d) = L2Store!Touch(Stored(L2, c), k)
  <2>1. BlockOf(c[s][u].addr) = k
    BY <1>4 DEF Has
  <2> HIDE DEF s, k
  <2> QED  BY <1>1, <1>2, <1>5, <1>6, <2>1, TouchedStore DEF s
<1>8. k \in Stored(L2, c).keys
  BY <1>4, StoreOfWays
<1> QED  BY <1>7, <1>8 DEF L2Store!Use, L2Store!MakeRoom

LEMMA AccessedStore ==
  ASSUME NEW c \in CacheOf(L2), Consistent(L2, c), Dense(L2, c),
         NEW a \in Addrs, IsBlock(L2, c, a), NEW op
  PROVE  Stored(L2, Accessed(L2, c, op, a))
           = L2Store!Use(Stored(L2, c), BlockOf(a))
<1> DEFINE e == UpdateLRU(L2, c, a)
<1>1. e \in CacheOf(L2) /\ SameBlocks(L2, c, e)
  BY Geometries, Addresses, UpdateLRUEffect
<1>2. PICK u \in Match(L2, c, a) : Rejuvenated(L2, c, e, GetSet(L2, a), u)
  BY Geometries, Addresses, UpdateLRUEffect
<1>3. Accessed(L2, c, op, a) = IF op = "w" THEN SetDirty(L2, e, a) ELSE e
  BY DEF Accessed
<1> HIDE DEF e
<1>4. Consistent(L2, e)
  BY <1>1, Geometries, SameBlocksConsistent
<1>5. Stored(L2, e) = L2Store!Use(Stored(L2, c), BlockOf(a))
  BY <1>1, <1>2, UsedStore
<1>6. Stored(L2, SetDirty(L2, e, a)) = Stored(L2, e)
  BY <1>1, <1>4, SoiledStore
<1> QED  BY <1>3, <1>5, <1>6

LEMMA WrittenBackStore ==
  ASSUME NEW c \in CacheOf(L2), Consistent(L2, c), Dense(L2, c),
         NEW a \in Addrs, IsBlock(L2, c, a)
  PROVE  Stored(L2, WriteBlock(L2, c, a))
           = L2Store!Use(Stored(L2, c), BlockOf(a))
         /\ BlockOf(a) \in Stored(L2, c).keys
<1> DEFINE e == WriteBlock(L2, c, a)
<1>1. e \in CacheOf(L2) /\ SameBlocks(L2, c, e)
  BY Geometries, Addresses, WriteBlockEffect
<1>2. PICK u \in Match(L2, c, a) : Rejuvenated(L2, c, e, GetSet(L2, a), u)
  BY Geometries, Addresses, WriteBlockEffect
<1> HIDE DEF e
<1>3. /\ Stored(L2, e) = L2Store!Use(Stored(L2, c), BlockOf(a))
      /\ BlockOf(a) \in Stored(L2, c).keys
  BY <1>1, <1>2, UsedStore
<1> QED  BY <1>3 DEF e

LEMMA AllocatedStore ==
  ASSUME NEW c \in CacheOf(L2), Consistent(L2, c), Dense(L2, c),
         NEW a \in Addrs, ~IsBlock(L2, c, a), IsFree(L2, c, a)
  PROVE  Stored(L2, NewBlock(L2, c, a))
           = L2Store!Touch(Stored(L2, c), BlockOf(a))
<1> DEFINE d == NewBlock(L2, c, a)
           s == GetSet(L2, a)
           k == BlockOf(a)
<1>1. d \in CacheOf(L2) /\ Consistent(L2, d)
  BY Geometries, NewBlockKeeps
<1>2. PICK f \in Ways(L2) : Placed(L2, c, d, a, f)
  BY Geometries, Addresses, NewBlockEffect
<1> HIDE DEF d
<1>3. /\ s \in 0 .. L2.sets - 1 /\ ~c[s][f].valid /\ Has(d, s, f, k)
      /\ Rejuvenated(L2, c, d, s, f)
      /\ \A x \in 0 .. L2.sets - 1, w \in Ways(L2) : ~(x = s /\ w = f) =>
           d[x][w].valid = c[x][w].valid /\ d[x][w].addr = c[x][w].addr
  <2>1. s \in 0 .. L2.sets - 1
    BY Geometries, Addresses, SetInRange
  <2> QED  BY <1>2, <2>1 DEF Placed, Has
<1>4. Stored(L2, d) = L2Store!Touch(Stored(L2, c), k)
  <2> HIDE DEF s, k
  <2> QED  BY <1>1, <1>3, TouchedStore
<1> QED  BY <1>4 DEF d

(* What L1 has stays there when a block is filled in.                      *)
LEMMA FilledLeaves ==
  ASSUME NEW c \in CacheOf(L1), Consistent(L1, c), NEW a \in Addrs, NEW op,
         ~IsBlock(L1, c, a), NEW b \in Addrs, IsBlock(L1, c, b)
  PROVE  IsBlock(L1, Filled(c, op, a), b)
<1> DEFINE n == NewBlock(L1, c, a)
<1>1. n \in CacheOf(L1) /\ IsBlock(L1, n, b)
  <2>1. CASE IsFree(L1, c, a)
    BY <2>1, Geometries, NewBlockKeeps
  <2>2. CASE ~IsFree(L1, c, a)
    BY <2>2 DEF NewBlock
  <2> QED  BY <2>1, <2>2
<1>2. Filled(c, op, a) = IF op = "w" THEN SetDirty(L1, n, a) ELSE n
  BY DEF Filled
<1> HIDE DEF n
<1>3. IsBlock(L1, SetDirty(L1, n, a), b)
  BY <1>1, Geometries, Addresses, SetDirtyEffect, SameBlocksSameSearch
<1> QED  BY <1>1, <1>2, <1>3

(* The block b leaves L1, where it was dirty, and is in L2.                *)
GivesBack(b) == /\ \E x \in Addrs : BlockOf(x) = b /\ IsDirty(L1, l1, x)
                /\ \A x \in Addrs : BlockOf(x) = b => ~IsBlock(L1, l1', x)
                /\ \E x \in Addrs : BlockOf(x) = b /\ IsBlock(L2, l2', x)

LEMMA GivenBackBlocks == GivenBack = {b \in Blocks : GivesBack(b)}
BY DEF GivenBack, GivesBack, Holds, HoldsDirty

LEMMA GivesBackAddress ==
  ASSUME NEW b, GivesBack(b)
  PROVE  \E x \in Addrs : /\ BlockOf(x) = b /\ IsDirty(L1, l1, x)
                          /\ ~IsBlock(L1, l1', x) /\ IsBlock(L2, l2', x)
<1>1. PICK x \in Addrs : BlockOf(x) = b /\ IsDirty(L1, l1, x)
  BY DEF GivesBack
<1>2. PICK y \in Addrs : BlockOf(y) = b /\ IsBlock(L2, l2', y)
  BY DEF GivesBack
<1>3. IsBlock(L2, l2', x)
  BY <1>1, <1>2, Geometries, Addresses, SameBlockSameSearch
<1> QED  BY <1>1, <1>3 DEF GivesBack

(* The end of a command gives back what it writes back, once, and that is  *)
(* a use of a block that L2 has.                                           *)
LEMMA FillGivesBack ==
  ASSUME NEW c1, NEW c2, NEW a \in Addrs, NEW op \in Ops, Good(c1, c2),
         IsBlock(L2, c2, a), ~IsBlock(L1, c1, a), FillL1(op, a, c1, c2),
         \A b \in Addrs : IsDirty(L1, c1, b) => IsDirty(L1, l1, b),
         \A b \in Addrs : IsDirty(L1, l1, b) /\ IsBlock(L2, c2, b) =>
           IsDirty(L1, c1, b)
  PROVE  \/ GivenBack = {} /\ Stored(L2, l2') = Stored(L2, c2)
         \/ \E b \in Stored(L2, c2).keys :
              /\ GivenBack = {b}
              /\ Stored(L2, l2') = L2Store!Use(Stored(L2, c2), b)
<1>1. \A b \in Addrs : IsBlock(L2, l2', b) <=> IsBlock(L2, c2, b)
  BY FillL1LeavesL2
<1>2. ASSUME NEW b, GivesBack(b)
      PROVE  \E x \in Addrs : /\ BlockOf(x) = b /\ IsDirty(L1, c1, x)
                              /\ IsBlock(L1, c1, x) /\ ~IsBlock(L1, l1', x)
  <2>1. PICK x \in Addrs : /\ BlockOf(x) = b /\ IsDirty(L1, l1, x)
                           /\ ~IsBlock(L1, l1', x) /\ IsBlock(L2, l2', x)
    BY <1>2, GivesBackAddress
  <2> QED  BY <1>1, <2>1, DirtyIsBlock
<1>3. CASE ~BlockAlloc(op)
  <2>1. l1' = c1 /\ l2' = c2
    BY <1>3 DEF FillL1
  <2>2. GivenBack = {}
    BY <1>2, <2>1, GivenBackBlocks
  <2> QED  BY <2>1, <2>2
<1>4. CASE BlockAlloc(op) /\ IsFree(L1, c1, a)
  <2>1. l1' = Filled(c1, op, a) /\ l2' = c2
    BY <1>4 DEF FillL1
  <2>2. \A x \in Addrs : IsBlock(L1, c1, x) => IsBlock(L1, l1', x)
    BY <2>1, FilledLeaves DEF Good
  <2>3. GivenBack = {}
    BY <1>2, <2>2, GivenBackBlocks
  <2> QED  BY <2>1, <2>3
<1>5. CASE BlockAlloc(op) /\ ~IsFree(L1, c1, a)
  <2>1. PICK v \in Victims(L1, c1, a) :
          /\ l1' = Filled(SetInvalid(L1, c1, v), op, a)
          /\ l2' = IF IsDirty(L1, c1, v) THEN WriteBlock(L2, c2, v) ELSE c2
    BY <1>5 DEF FillL1
  <2> DEFINE d  == SetInvalid(L1, c1, v)
             bv == BlockOf(v)
  <2>2. v \in Addrs
    BY Geometries, VictimIsAnAddress DEF Good
  <2>3. /\ d \in CacheOf(L1) /\ Consistent(L1, d)
        /\ \A x \in Addrs : IsBlock(L1, d, x) <=>
             IsBlock(L1, c1, x) /\ BlockOf(x) # bv
    BY <2>2, Geometries, Addresses, SetInvalidEffect, SetInvalidSearch,
       SetInvalidConsistent DEF Good
  <2>4. l1' = Filled(d, op, a)
    BY <2>1
  <2> HIDE DEF d
  <2>5. ~IsBlock(L1, d, a)
    BY <2>3
  <2>6. /\ \A x \in Addrs : IsBlock(L1, d, x) => IsBlock(L1, l1', x)
        /\ \A x \in Addrs : IsBlock(L1, l1', x) =>
             IsBlock(L1, d, x) \/ BlockOf(x) = BlockOf(a)
    BY <2>3, <2>4, <2>5, FilledLeaves, FilledKeeps
  <2>7. ASSUME NEW b, GivesBack(b)
        PROVE  b = bv /\ IsDirty(L1, c1, v)
    <3>1. PICK x \in Addrs : /\ BlockOf(x) = b /\ IsDirty(L1, c1, x)
                             /\ IsBlock(L1, c1, x) /\ ~IsBlock(L1, l1', x)
      BY <1>2, <2>7
    <3>2. BlockOf(x) = bv
      BY <2>3, <2>6, <3>1
    <3> QED  BY <2>2, <3>1, <3>2, Geometries, Addresses, SameBlockSameDirt
  <2>8. CASE ~IsDirty(L1, c1, v)
    BY <2>1, <2>7, <2>8, GivenBackBlocks
  <2>9. CASE IsDirty(L1, c1, v)
    <3>1. IsBlock(L1, c1, v) /\ IsBlock(L2, c2, v)
      BY <2>2, <2>9, DirtyIsBlock DEF Good, Included
    <3>2. /\ Stored(L2, l2') = L2Store!Use(Stored(L2, c2), bv)
          /\ bv \in Stored(L2, c2).keys
      BY <2>1, <2>2, <2>9, <3>1, WrittenBackStore DEF Good
    <3>3. bv # BlockOf(a)
      BY <2>2, <3>1, Geometries, Addresses, SameBlockSameSearch
    <3>4. \A x \in Addrs : BlockOf(x) = bv => ~IsBlock(L1, l1', x)
      BY <2>3, <2>6, <3>3
    <3>5. GivesBack(bv) /\ bv \in Blocks
      BY <1>1, <2>2, <2>9, <3>1, <3>4 DEF GivesBack, Blocks
    <3>6. GivenBack = {bv}
      BY <2>7, <3>5, GivenBackBlocks
    <3> QED  BY <3>2, <3>6
  <2> QED  BY <2>8, <2>9
<1> QED  BY <1>3, <1>4, <1>5

(* A command that misses L1 and finds or allocates the block in L2 is a    *)
(* use of it, and of what L1 gives back.                                   *)
LEMMA AskedIsUsed ==
  ASSUME NEW c2, NEW a \in Addrs, NEW op \in Ops, Missed(op, a), Asked(op, a),
         Stored(L2, c2) = L2Store!Use(Stored(L2, l2), BlockOf(a)),
         \/ GivenBack = {} /\ Stored(L2, l2') = Stored(L2, c2)
         \/ \E b \in Stored(L2, c2).keys :
              /\ GivenBack = {b}
              /\ Stored(L2, l2') = L2Store!Use(Stored(L2, c2), b)
  PROVE  L2Store!Next
<1> DEFINE k == BlockOf(a)
           S == Stored(L2, l2)
<1>1. k \in Blocks
  BY DEF Blocks
<1>2. CASE GivenBack = {} /\ Stored(L2, l2') = Stored(L2, c2)
  <2>1. asked' = <<k>> /\ Stored(L2, l2)' = L2Store!Use(S, k)
    BY <1>2 DEF Asked
  <2> HIDE DEF k, S
  <2> QED  BY <1>1, <2>1 DEF L2Store!Next, S
<1>3. ASSUME NEW b \in Stored(L2, c2).keys, GivenBack = {b},
             Stored(L2, l2') = L2Store!Use(Stored(L2, c2), b)
      PROVE  L2Store!Next
  <2>1. asked' = <<k, b>>
    BY <1>3 DEF Asked
  <2>2. /\ b \in L2Store!Use(S, k).keys
        /\ Stored(L2, l2)' = L2Store!Use(L2Store!Use(S, k), b)
    BY <1>3
  <2> HIDE DEF k, S
  <2> QED  BY <1>1, <2>1, <2>2 DEF L2Store!Next, S
<1> QED  BY <1>2, <1>3

(* MakeRoom, with the Cardinality of module LruStore spelled out as ours.  *)
LEMMA RoomMade ==
  ASSUME NEW st, NEW k
  PROVE  /\ Cardinality(L2Store!SameSet(st, k)) < L2Ways =>
              L2Store!MakeRoom(st, k) = st
         /\ ~(Cardinality(L2Store!SameSet(st, k)) < L2Ways) /\ k \notin st.keys
              => L2Store!MakeRoom(st, k)
                   = L2Store!Without(st, L2Store!Least(st, k))
BY DEF L2Store!MakeRoom, L2Store!Cardinality, Cardinality

(* Every command is a step of the store, or leaves it at rest.             *)
LEMMA CommandIsUse ==
  ASSUME IInv, NEW op \in Ops, NEW a \in Addrs, RunCommand(op, a), Asked(op, a)
  PROVE  L2Store!Next
<1> DEFINE k == BlockOf(a)
           S == Stored(L2, l2)
<1>1. l1 \in CacheOf(L1) /\ l2 \in CacheOf(L2) /\ Good(l1, l2)
      /\ Consistent(L2, l2) /\ Dense(L2, l2)
  BY DEF IInv, Good
<1>2. CASE HitL1(op, a) \/ WriteAround(op, a)
  <2>1. ~Missed(op, a) /\ l2' = l2
    BY <1>2 DEF HitL1, WriteAround, Missed, vars
  <2>2. asked' = <<>> /\ Stored(L2, l2)' = Stored(L2, l2)
    BY <2>1 DEF Asked
  <2> QED  BY <2>2 DEF L2Store!Next, L2Store!Rest
<1>3. CASE HitL2(op, a)
  <2> DEFINE d == Accessed(L2, l2, op, a)
  <2>1. /\ d \in CacheOf(L2) /\ Consistent(L2, d) /\ Dense(L2, d)
        /\ SameBlocks(L2, l2, d)
    BY <1>1, <1>3, Geometries, AccessedEffect DEF HitL2
  <2>2. Stored(L2, d) = L2Store!Use(Stored(L2, l2), BlockOf(a))
    BY <1>1, <1>3, AccessedStore DEF HitL2
  <2>3. FillL1(op, a, l1, d) /\ ~IsBlock(L1, l1, a) /\ Missed(op, a)
    BY <1>3 DEF HitL2, Missed
  <2> HIDE DEF d
  <2>4. \A b \in Addrs : IsBlock(L2, d, b) <=> IsBlock(L2, l2, b)
    BY <2>1, Geometries, Addresses, SameBlocksSameSearch
  <2>5. Good(l1, d) /\ IsBlock(L2, d, a)
    BY <1>1, <1>3, <2>1, <2>4 DEF HitL2, Good, Included
  <2>6. \/ GivenBack = {} /\ Stored(L2, l2') = Stored(L2, d)
        \/ \E b \in Stored(L2, d).keys :
             /\ GivenBack = {b}
             /\ Stored(L2, l2') = L2Store!Use(Stored(L2, d), b)
    BY <2>3, <2>5, FillGivesBack
  <2> QED  BY <2>2, <2>3, <2>6, AskedIsUsed
<1>4. CASE MissFree(op, a) \/ MissEvict(op, a)
  <2>1. ~IsBlock(L1, l1, a) /\ ~IsBlock(L2, l2, a) /\ Missed(op, a)
    BY <1>4 DEF MissFree, MissEvict, Missed
  <2>2. ASSUME NEW c1, NEW e, Good(c1, e), ~IsBlock(L1, c1, a),
               ~IsBlock(L2, e, a), IsFree(L2, e, a),
               Stored(L2, e) = L2Store!MakeRoom(S, k),
               FillL1(op, a, c1, NewBlock(L2, e, a)),
               \A b \in Addrs : IsDirty(L1, c1, b) => IsDirty(L1, l1, b),
               \A b \in Addrs : IsDirty(L1, l1, b) /\ ~IsDirty(L1, c1, b) =>
                 ~IsBlock(L2, e, b) /\ BlockOf(b) # k
        PROVE  L2Store!Next
    <3> DEFINE d == NewBlock(L2, e, a)
    <3>1. Good(c1, d) /\ IsBlock(L2, d, a)
      BY <2>2, PlacingInL2Keeps
    <3>2. \A b \in Addrs : IsBlock(L2, d, b) =>
             IsBlock(L2, e, b) \/ BlockOf(b) = k
      BY <2>2, Geometries, NewBlockKeeps DEF Good
    <3>3. Stored(L2, d) = L2Store!Use(Stored(L2, l2), BlockOf(a))
      BY <2>2, AllocatedStore DEF Good, L2Store!Use
    <3> HIDE DEF d
    <3>4. FillL1(op, a, c1, d)
      BY <2>2 DEF d
    <3>5. \A b \in Addrs : IsDirty(L1, l1, b) /\ IsBlock(L2, d, b) =>
            IsDirty(L1, c1, b)
      BY <2>2, <3>2
    <3>6. \/ GivenBack = {} /\ Stored(L2, l2') = Stored(L2, d)
          \/ \E b \in Stored(L2, d).keys :
               /\ GivenBack = {b}
               /\ Stored(L2, l2') = L2Store!Use(Stored(L2, d), b)
      BY <2>2, <3>1, <3>4, <3>5, FillGivesBack
    <3> QED  BY <2>1, <3>3, <3>6, AskedIsUsed
  <2>3. CASE MissFree(op, a)
    <3>1. IsFree(L2, l2, a) /\ FillL1(op, a, l1, NewBlock(L2, l2, a))
      BY <2>3 DEF MissFree
    <3>2. Cardinality(L2Store!SameSet(Stored(L2, l2), BlockOf(a))) < L2Ways
      BY <1>1, <3>1, RoomInStore
    <3>3. Stored(L2, l2) = L2Store!MakeRoom(S, k)
      BY <3>2, RoomMade
    <3> QED  BY <1>1, <2>1, <2>2, <3>1, <3>3
  <2>4. CASE MissEvict(op, a)
    <3>1. PICK v \in Victims(L2, l2, a) :
            FillL1(op, a, Snooped(v), NewBlock(L2, Dropped(v), a))
      BY <2>4 DEF MissEvict
    <3>2. ~IsFree(L2, l2, a)
      BY <2>4 DEF MissEvict
    <3>3. v \in Addrs
      BY <1>1, Geometries, VictimIsAnAddress
    <3>4. /\ Good(Snooped(v), Dropped(v)) /\ IsFree(L2, Dropped(v), a)
          /\ \A b \in Addrs :
               /\ IsBlock(L1, Snooped(v), b) => IsBlock(L1, l1, b)
               /\ IsBlock(L2, Dropped(v), b) => IsBlock(L2, l2, b)
      BY <1>1, <3>1, <3>2, EvictionKeeps
    <3>5. /\ Drained(v) \in CacheOf(L2) /\ Consistent(L2, Drained(v))
          /\ Stored(L2, Drained(v)) = Stored(L2, l2)
      BY <1>1, <3>3, Geometries, Addresses, SetDirtyEffect,
         SameBlocksConsistent, SoiledStore DEF Drained
    <3>6. Stored(L2, Dropped(v)) = L2Store!Without(Stored(L2, l2), {BlockOf(v)})
      BY <3>3, <3>5, RemovedStore DEF Dropped
    <3>7. Stored(L2, Dropped(v)) = L2Store!MakeRoom(S, k)
      <4>1. L2Store!Least(Stored(L2, l2), BlockOf(a)) = {BlockOf(v)}
        BY <1>1, <3>1, <3>2, VictimIsLeast
      <4>2. ~(Cardinality(L2Store!SameSet(Stored(L2, l2), BlockOf(a))) < L2Ways)
        BY <1>1, <3>2, RoomInStore
      <4>3. k \notin S.keys
        <5>1. ~Holds(L2, l2, k)
          BY <2>1, Geometries, Addresses, SameBlockSameSearch DEF Holds
        <5> QED  BY <5>1 DEF Stored
      <4> QED  BY <3>6, <4>1, <4>2, <4>3, RoomMade
    <3>8. ASSUME NEW b \in Addrs, IsDirty(L1, Snooped(v), b)
          PROVE  IsDirty(L1, l1, b)
      <4>1. \A x \in 0 .. L1.sets - 1, w \in Ways(L1) :
              Snooped(v)[x][w].valid => Snooped(v)[x][w] = l1[x][w]
        BY <1>1, <3>3, Geometries, Addresses, SetInvalidEffect DEF Snooped
      <4>2. KeepsDirty(L1, Snooped(v), l1)
        BY <4>1 DEF KeepsDirty
      <4> QED  BY <3>8, <4>2, Geometries, Addresses, KeepsDirtySearch
    <3>9. ASSUME NEW b \in Addrs, IsDirty(L1, l1, b),
                 ~IsDirty(L1, Snooped(v), b)
          PROVE  ~IsBlock(L2, Dropped(v), b) /\ BlockOf(b) # k
      <4>1. BlockOf(b) = BlockOf(v)
        BY <1>1, <3>3, <3>9, Geometries, Addresses, SetInvalidDirt DEF Snooped
      <4>2. ~IsBlock(L2, Dropped(v), b)
        BY <3>3, <3>5, <4>1, Geometries, Addresses, SetInvalidSearch DEF Dropped
      <4>3. IsBlock(L2, l2, b)
        BY <1>1, <3>9, DirtyIsBlock DEF Good, Included
      <4>4. BlockOf(b) # k
        BY <2>1, <4>3, Geometries, Addresses, SameBlockSameSearch
      <4> QED  BY <4>2, <4>4
    <3>10. ~IsBlock(L1, Snooped(v), a) /\ ~IsBlock(L2, Dropped(v), a)
      BY <2>1, <3>4
    <3> QED  BY <2>2, <3>1, <3>4, <3>7, <3>8, <3>9, <3>10
  <2> QED  BY <1>4, <2>3, <2>4
<1> QED  BY <1>2, <1>3, <1>4 DEF RunCommand

(* L2 replaces the least recently used block: under every command its      *)
(* blocks and their ages are an LRU store, asked for what misses L1 and    *)
(* given back what L1 drops dirty.  For all sizes of both levels, whatever *)
(* the search for a victim in L1 finds: updateLRU, newBlock, setInvalid    *)
(* and chooseVictim are one replacement policy only together.              *)
THEOREM L2ImplementsLru == SimSpec => L2IsLru
<1>1. SimInit => L2Store!Init
  <2> SUFFICES ASSUME l2 = EmptyCache(L2), asked = <<>>
               PROVE  L2Store!Init
    BY DEF SimInit, Init
  <2>1. \A s \in 0 .. L2.sets - 1, w \in Ways(L2) : ~l2[s][w].valid
    BY DEF EmptyCache
  <2>2. \A a \in Addrs : ~IsBlock(L2, l2, a)
    <3>1. \A a \in Addrs : GetSet(L2, a) \in 0 .. L2.sets - 1
      BY Geometries, Addresses, SetInRange
    <3> QED  BY <2>1, <3>1 DEF IsBlock, Match, Line
  <2>3. \A b, d : ~Holds(L2, l2, b) /\ ~Younger(L2, l2, b, d)
    BY <2>1, <2>2 DEF Holds, Younger
  <2> QED  BY <2>3 DEF L2Store!Init, Stored
<1>2. IInv /\ [SimNext]_simVars => [L2Store!Next]_L2Store!vars
  <2>1. ASSUME IInv, NEW op \in Ops, NEW a \in Addrs, Access(op, a)
        PROVE  L2Store!Next
    BY <2>1, CommandIsUse DEF Access
  <2>2. ASSUME Start \/ Reject \/ EndOfFile
        PROVE  L2Store!Next
    <3>1. l2' = l2 /\ asked' = <<>>
      BY <2>2 DEF Start, Reject, EndOfFile
    <3>2. Stored(L2, l2)' = Stored(L2, l2)
      BY <3>1 DEF Stored, Holds, Younger
    <3> QED  BY <3>1, <3>2 DEF L2Store!Next, L2Store!Rest
  <2>3. UNCHANGED simVars => UNCHANGED L2Store!vars
    BY DEF simVars, L2Store!vars, Stored, Holds, Younger
  <2> QED  BY <2>1, <2>2, <2>3 DEF SimNext
<1> QED  BY <1>1, <1>2, SimIsGood, PTL DEF SimSpec, L2IsLru, L2Store!Spec
=============================================================================
