---------------------------- MODULE CacheLemmas ----------------------------
(***************************************************************************)
(* Facts about the operators of module Cache, for every geometry, block    *)
(* size and set of addresses.  The proofs about the hierarchy cite them    *)
(* for L1 and for L2.                                                      *)
(***************************************************************************)
EXTENDS Cache, Extremes, FiniteSetTheorems, TLAPS

-----------------------------------------------------------------------------
(* Arithmetic: getSet and getTag are in range, and together they tell      *)
(* apart exactly the memory blocks.                                        *)

LEMMA SetInRange ==
  ASSUME NEW g \in Geometry, NEW a \in Nat
  PROVE  /\ BlockOf(a) \in Nat
         /\ GetSet(g, a) \in 0 .. g.sets - 1
         /\ GetTag(g, a) \in Nat
<1>1. BlockOf(a) \in Nat
  BY CacheAssumption DEF BlockOf
<1> QED  BY <1>1 DEF Geometry, GetSet, GetTag

(* Two addresses have the same set and tag when they are of one block.     *)
LEMMA SetAndTagNameTheBlock ==
  ASSUME NEW g \in Geometry, NEW a \in Nat, NEW b \in Nat
  PROVE  (GetSet(g, a) = GetSet(g, b) /\ GetTag(g, a) = GetTag(g, b))
           <=> BlockOf(a) = BlockOf(b)
<1> DEFINE x == BlockOf(a)
           y == BlockOf(b)
           n == g.sets
<1>1. x \in Nat /\ y \in Nat /\ n \in Nat \ {0}
  BY SetInRange DEF Geometry
<1>2. x % n = y % n /\ x \div n = y \div n => x = y
  <2> HIDE DEF x, y, n
  <2> QED  BY <1>1
<1> QED  BY <1>2 DEF GetSet, GetTag

(* The ways that hold a, that are free, or that are the oldest are ways.   *)
LEMMA WaySets ==
  ASSUME NEW g \in Geometry, NEW c, NEW a
  PROVE  /\ Match(g, c, a) \in SUBSET Ways(g)
         /\ Match(g, c, a) # {} => /\ Min(Match(g, c, a)) \in Match(g, c, a)
                                   /\ Max(Match(g, c, a)) \in Match(g, c, a)
         /\ Free(g, c, a) # {} => Min(Free(g, c, a)) \in Free(g, c, a)
         /\ Oldest(g, c, a) # {} => Min(Oldest(g, c, a)) \in Oldest(g, c, a)
<1>1. g.ways \in Nat
  BY DEF Geometry
<1>2. /\ Match(g, c, a) \in SUBSET (0 .. g.ways - 1)
      /\ Free(g, c, a) \in SUBSET (0 .. g.ways - 1)
      /\ Oldest(g, c, a) \in SUBSET (0 .. g.ways - 1)
  BY DEF Match, Free, Oldest, Ways
<1> QED  BY <1>1, <1>2, LeastAndGreatest DEF Ways

-----------------------------------------------------------------------------
(* What each operation leaves of a cache c and makes of it, block by block *)

(* What the updates of one block make of its fields.                       *)
LEMMA AgedBlock ==
  ASSUME NEW g \in Geometry, NEW b \in Block(g), NEW n \in 0 .. g.ways,
         NEW e, e = [b EXCEPT !.lru = n]
  PROVE  /\ e \in Block(g) /\ e.valid = b.valid /\ e.addr = b.addr
         /\ e.tag = b.tag /\ e.lru = n
BY DEF Block

LEMMA SoiledBlock ==
  ASSUME NEW g \in Geometry, NEW b \in Block(g),
         NEW e, e = [b EXCEPT !.dirty = TRUE]
  PROVE  /\ e \in Block(g) /\ e.valid = b.valid /\ e.addr = b.addr
         /\ e.tag = b.tag /\ e.lru = b.lru
BY DEF Block

LEMMA InvalidBlock ==
  ASSUME NEW g \in Geometry, NEW b \in Block(g),
         NEW e, e = [b EXCEPT !.valid = FALSE, !.lru = g.ways]
  PROVE  e \in Block(g) /\ ~e.valid /\ e.lru = g.ways
<1>1. g.ways \in 0 .. g.ways
  BY DEF Geometry
<1> QED  BY <1>1 DEF Block

(* d has the blocks of c, with other dirty bits and ages.                  *)
SameBlocks(g, c, d) ==
  \A s \in 0 .. g.sets - 1, w \in Ways(g) :
    /\ d[s][w].valid = c[s][w].valid
    /\ d[s][w].addr = c[s][w].addr
    /\ d[s][w].tag = c[s][w].tag

SameAges(g, c, d) ==
  \A s \in 0 .. g.sets - 1, w \in Ways(g) : d[s][w].lru = c[s][w].lru

(* In d the way u of set s is the one in use, and what was younger than it *)
(* has become one older.                                                   *)
Rejuvenated(g, c, d, s, u) ==
  /\ \A w \in Ways(g) :
       d[s][w].lru = IF w = u THEN 0
                     ELSE IF c[s][w].valid /\ c[s][w].lru < c[s][u].lru
                          THEN c[s][w].lru + 1
                          ELSE c[s][w].lru
  /\ \A x \in 0 .. g.sets - 1, w \in Ways(g) :
       x # s => d[x][w].lru = c[x][w].lru

(* updateLRU of a block that is there changes ages only.                   *)
LEMMA UpdateLRUEffect ==
  ASSUME NEW g \in Geometry, NEW c \in CacheOf(g), NEW a \in Nat,
         IsBlock(g, c, a)
  PROVE  LET d == UpdateLRU(g, c, a) IN
         /\ d \in CacheOf(g)
         /\ SameBlocks(g, c, d)
         /\ \E u \in Match(g, c, a) : Rejuvenated(g, c, d, GetSet(g, a), u)
<1> DEFINE s == GetSet(g, a)
           u == Max(Match(g, c, a))
           d == UpdateLRU(g, c, a)
<1>1. s \in 0 .. g.sets - 1
  BY SetInRange
<1>2. u \in Match(g, c, a) /\ u \in Ways(g)
  BY WaySets DEF IsBlock
<1>3. \A x \in 0 .. g.sets - 1, w \in Ways(g) :
        c[x][w] \in Block(g)
  BY DEF CacheOf
<1>4. d = [c EXCEPT ![s] = [w \in Ways(g) |->
             IF w = u THEN [c[s][w] EXCEPT !.lru = 0]
             ELSE IF c[s][w].valid /\ c[s][w].lru < c[s][u].lru
                  THEN [c[s][w] EXCEPT !.lru = c[s][w].lru + 1]
                  ELSE c[s][w]]]
  BY DEF UpdateLRU, Line
<1> HIDE DEF d, u, s
<1>5. /\ \A w \in Ways(g) :
            d[s][w] = IF w = u THEN [c[s][w] EXCEPT !.lru = 0]
                      ELSE IF c[s][w].valid /\ c[s][w].lru < c[s][u].lru
                           THEN [c[s][w] EXCEPT !.lru = c[s][w].lru + 1]
                           ELSE c[s][w]
      /\ \A x \in 0 .. g.sets - 1 : x # s => d[x] = c[x]
  BY <1>1, <1>4 DEF CacheOf
<1>6. c[s][u].lru \in 0 .. g.ways /\ g.ways \in Nat
  BY <1>1, <1>2, <1>3 DEF Block, Geometry
<1>7. ASSUME NEW w \in Ways(g)
      PROVE  /\ d[s][w] \in Block(g)
             /\ d[s][w].valid = c[s][w].valid
             /\ d[s][w].addr = c[s][w].addr
             /\ d[s][w].tag = c[s][w].tag
             /\ d[s][w].lru = IF w = u THEN 0
                              ELSE IF c[s][w].valid /\ c[s][w].lru < c[s][u].lru
                                   THEN c[s][w].lru + 1
                                   ELSE c[s][w].lru
  <2>1. c[s][w] \in Block(g)
    BY <1>1, <1>3
  <2>2. c[s][w].lru \in 0 .. g.ways /\ 0 \in 0 .. g.ways
    BY <1>6, <2>1 DEF Block
  <2>3. CASE w = u
    <3>1. d[s][w] = [c[s][w] EXCEPT !.lru = 0]
      BY <1>5, <2>3
    <3> QED  BY <2>1, <2>2, <2>3, <3>1, AgedBlock
  <2>4. CASE w # u /\ c[s][w].valid /\ c[s][w].lru < c[s][u].lru
    <3>1. c[s][w].lru + 1 \in 0 .. g.ways
      BY <1>6, <2>2, <2>4
    <3>2. d[s][w] = [c[s][w] EXCEPT !.lru = c[s][w].lru + 1]
      BY <1>5, <2>4
    <3>3. /\ d[s][w] \in Block(g)
          /\ d[s][w].valid = c[s][w].valid
          /\ d[s][w].addr = c[s][w].addr
          /\ d[s][w].tag = c[s][w].tag
          /\ d[s][w].lru = c[s][w].lru + 1
      <4> DEFINE b == c[s][w]
                 e == d[s][w]
                 n == c[s][w].lru + 1
      <4>1. b \in Block(g) /\ n \in 0 .. g.ways /\ e = [b EXCEPT !.lru = n]
        BY <2>1, <3>1, <3>2
      <4> HIDE DEF b, e, n
      <4>2. /\ e \in Block(g) /\ e.valid = b.valid /\ e.addr = b.addr
            /\ e.tag = b.tag /\ e.lru = n
        BY <4>1, AgedBlock
      <4> QED  BY <4>2 DEF b, e, n
    <3> QED  BY <2>4, <3>3
  <2>5. CASE w # u /\ ~(c[s][w].valid /\ c[s][w].lru < c[s][u].lru)
    BY <1>5, <2>1, <2>5
  <2> QED  BY <2>3, <2>4, <2>5
<1>8. d \in CacheOf(g)
  <2>1. d = [c EXCEPT ![s] = [w \in Ways(g) |-> d[s][w]]]
    BY <1>1, <1>4 DEF CacheOf
  <2> QED  BY <1>1, <1>7, <2>1 DEF CacheOf
<1>9. SameBlocks(g, c, d)
  BY <1>5, <1>7 DEF SameBlocks
<1>10. Rejuvenated(g, c, d, s, u)
  BY <1>5, <1>7 DEF Rejuvenated
<1> QED  BY <1>2, <1>8, <1>9, <1>10 DEF d, s

(* setDirty changes dirty bits only.                                       *)
LEMMA SetDirtyEffect ==
  ASSUME NEW g \in Geometry, NEW c \in CacheOf(g), NEW a \in Nat
  PROVE  LET d == SetDirty(g, c, a) IN
         d \in CacheOf(g) /\ SameBlocks(g, c, d) /\ SameAges(g, c, d)
<1> DEFINE s == GetSet(g, a)
           u == Min(Match(g, c, a))
           d == SetDirty(g, c, a)
<1>1. CASE ~IsBlock(g, c, a)
  BY <1>1 DEF SetDirty, SameBlocks, SameAges
<1>2. CASE IsBlock(g, c, a)
  <2>1. s \in 0 .. g.sets - 1 /\ u \in Ways(g)
    BY <1>2, SetInRange, WaySets DEF IsBlock
  <2>2. d = [c EXCEPT ![s][u].dirty = TRUE]
    BY <1>2 DEF SetDirty
  <2> HIDE DEF d, u, s
  <2>3. \A x \in 0 .. g.sets - 1, w \in Ways(g) :
          /\ c[x][w] \in Block(g)
          /\ d[x][w] = IF x = s /\ w = u THEN [c[x][w] EXCEPT !.dirty = TRUE]
                       ELSE c[x][w]
    BY <2>1, <2>2 DEF CacheOf
  <2>4. ASSUME NEW x \in 0 .. g.sets - 1, NEW w \in Ways(g)
        PROVE  /\ d[x][w] \in Block(g)
               /\ d[x][w].lru = c[x][w].lru
               /\ d[x][w].valid = c[x][w].valid
               /\ d[x][w].addr = c[x][w].addr
               /\ d[x][w].tag = c[x][w].tag
    <3>1. c[x][w] \in Block(g)
      BY <2>3
    <3>2. \/ d[x][w] = [c[x][w] EXCEPT !.dirty = TRUE]
          \/ d[x][w] = c[x][w]
      BY <2>3
    <3> QED  BY <3>1, <3>2, SoiledBlock
  <2>5. d \in CacheOf(g)
    BY <2>1, <2>2, <2>4 DEF CacheOf
  <2>6. SameBlocks(g, c, d) /\ SameAges(g, c, d)
    BY <2>4 DEF SameBlocks, SameAges
  <2> QED  BY <2>5, <2>6 DEF d, s, u
<1> QED  BY <1>1, <1>2

(* SameBlocks keeps what the search for an address finds.                  *)
LEMMA SameBlocksSameSearch ==
  ASSUME NEW g \in Geometry, NEW c, NEW d, SameBlocks(g, c, d), NEW a \in Nat
  PROVE  /\ Match(g, d, a) = Match(g, c, a)
         /\ Free(g, d, a) = Free(g, c, a)
         /\ IsBlock(g, d, a) <=> IsBlock(g, c, a)
<1>1. GetSet(g, a) \in 0 .. g.sets - 1
  BY SetInRange
<1> QED  BY <1>1 DEF SameBlocks, Match, Free, IsBlock, Line

(* writeBlock of a block that is there changes ages as updateLRU does.     *)
LEMMA WriteBlockEffect ==
  ASSUME NEW g \in Geometry, NEW c \in CacheOf(g), NEW a \in Nat,
         IsBlock(g, c, a)
  PROVE  LET d == WriteBlock(g, c, a) IN
         /\ d \in CacheOf(g)
         /\ SameBlocks(g, c, d)
         /\ \E u \in Match(g, c, a) : Rejuvenated(g, c, d, GetSet(g, a), u)
<1> DEFINE s == GetSet(g, a)
           e == [c EXCEPT ![s] = [w \in Ways(g) |->
                   IF w \in Match(g, c, a)
                   THEN [c[s][w] EXCEPT !.dirty = TRUE] ELSE c[s][w]]]
           d == UpdateLRU(g, e, a)
<1>1. s \in 0 .. g.sets - 1
  BY SetInRange
<1>2. \A x \in 0 .. g.sets - 1, w \in Ways(g) :
        /\ c[x][w] \in Block(g)
        /\ e[x][w] = IF x = s /\ w \in Match(g, c, a)
                     THEN [c[x][w] EXCEPT !.dirty = TRUE] ELSE c[x][w]
  BY <1>1 DEF CacheOf
<1>3. ASSUME NEW x \in 0 .. g.sets - 1, NEW w \in Ways(g)
      PROVE  /\ e[x][w] \in Block(g)
             /\ e[x][w].lru = c[x][w].lru
             /\ e[x][w].valid = c[x][w].valid
             /\ e[x][w].addr = c[x][w].addr
             /\ e[x][w].tag = c[x][w].tag
  <2> HIDE DEF e
  <2>1. c[x][w] \in Block(g)
    BY <1>2
  <2>2. \/ e[x][w] = [c[x][w] EXCEPT !.dirty = TRUE]
        \/ e[x][w] = c[x][w]
    BY <1>2
  <2> QED  BY <2>1, <2>2, SoiledBlock
<1>4. /\ e \in CacheOf(g)
      /\ SameBlocks(g, c, e) /\ SameAges(g, c, e)
  <2>1. e \in CacheOf(g)
    BY <1>1, <1>3 DEF CacheOf
  <2> QED  BY <1>3, <2>1 DEF SameBlocks, SameAges
<1>5. WriteBlock(g, c, a) = d
  BY DEF WriteBlock, Line
<1> HIDE DEF e
<1>6. IsBlock(g, e, a) /\ Match(g, e, a) = Match(g, c, a)
  BY <1>4, SameBlocksSameSearch
<1>7. d \in CacheOf(g) /\ SameBlocks(g, e, d)
  BY <1>4, <1>6, UpdateLRUEffect
<1>8. PICK u \in Match(g, c, a) : Rejuvenated(g, e, d, s, u)
  BY <1>4, <1>6, UpdateLRUEffect
<1> HIDE DEF d
<1>9. SameBlocks(g, c, d)
  BY <1>4, <1>7 DEF SameBlocks
<1>10. u \in Ways(g)
  BY WaySets
<1>11. Rejuvenated(g, c, d, s, u)
  BY <1>1, <1>4, <1>8, <1>10 DEF Rejuvenated, SameBlocks, SameAges
<1> QED  BY <1>5, <1>7, <1>9, <1>11

-----------------------------------------------------------------------------
(* setInvalid empties the ways that hold a and leaves all the others.      *)
LEMMA SetInvalidEffect ==
  ASSUME NEW g \in Geometry, NEW c \in CacheOf(g), NEW a \in Nat
  PROVE  LET d == SetInvalid(g, c, a) IN
         /\ d \in CacheOf(g)
         /\ \A x \in 0 .. g.sets - 1, w \in Ways(g) :
              IF x = GetSet(g, a) /\ w \in Match(g, c, a)
              THEN ~d[x][w].valid /\ d[x][w].lru = g.ways
              ELSE d[x][w] = c[x][w]
<1> DEFINE s == GetSet(g, a)
           d == SetInvalid(g, c, a)
<1>1. s \in 0 .. g.sets - 1 /\ g.ways \in 0 .. g.ways
  BY SetInRange DEF Geometry
<1>2. d = [c EXCEPT ![s] = [w \in Ways(g) |->
             IF w \in Match(g, c, a)
             THEN [c[s][w] EXCEPT !.valid = FALSE, !.lru = g.ways]
             ELSE c[s][w]]]
  BY DEF SetInvalid, Line
<1> HIDE DEF d, s
<1>3. ASSUME NEW x \in 0 .. g.sets - 1, NEW w \in Ways(g)
      PROVE  /\ d[x][w] \in Block(g)
             /\ IF x = s /\ w \in Match(g, c, a)
                THEN ~d[x][w].valid /\ d[x][w].lru = g.ways
                ELSE d[x][w] = c[x][w]
  <2>1. c[x][w] \in Block(g)
    BY DEF CacheOf
  <2>2. CASE x = s /\ w \in Match(g, c, a)
    <3>1. d[x][w] = [c[x][w] EXCEPT !.valid = FALSE, !.lru = g.ways]
      BY <1>1, <1>2, <2>2 DEF CacheOf
    <3>2. /\ d[x][w] \in Block(g)
          /\ ~d[x][w].valid
          /\ d[x][w].lru = g.ways
      BY <1>1, <2>1, <3>1, InvalidBlock
    <3> QED  BY <2>2, <3>2
  <2>3. CASE ~(x = s /\ w \in Match(g, c, a))
    <3>1. d[x][w] = c[x][w]
      BY <1>1, <1>2, <2>3 DEF CacheOf
    <3> QED  BY <2>1, <2>3, <3>1
  <2> QED  BY <2>2, <2>3
<1>4. d \in CacheOf(g)
  BY <1>1, <1>2, <1>3 DEF CacheOf
<1> QED  BY <1>3, <1>4 DEF d, s

(* After setInvalid the addresses of the block are not found, and all      *)
(* others are as before.                                                   *)
LEMMA SetInvalidSearch ==
  ASSUME NEW g \in Geometry, NEW c \in CacheOf(g), NEW a \in Nat, NEW b \in Nat
  PROVE  IsBlock(g, SetInvalid(g, c, a), b)
           <=> IsBlock(g, c, b) /\ BlockOf(b) # BlockOf(a)
<1> DEFINE d == SetInvalid(g, c, a)
           s == GetSet(g, a)
           t == GetSet(g, b)
<1>1. /\ s \in 0 .. g.sets - 1
      /\ t \in 0 .. g.sets - 1
      /\ (s = t /\ GetTag(g, a) = GetTag(g, b)) <=> BlockOf(a) = BlockOf(b)
  BY SetInRange, SetAndTagNameTheBlock
<1>2. \A x \in 0 .. g.sets - 1, w \in Ways(g) :
         IF x = s /\ w \in Match(g, c, a)
         THEN ~d[x][w].valid
         ELSE d[x][w] = c[x][w]
  BY SetInvalidEffect
<1> HIDE DEF d
<1>3. CASE BlockOf(a) = BlockOf(b)
  <2>1. Match(g, c, b) = Match(g, c, a)
    BY <1>1, <1>3 DEF Match, Line
  <2>2. Match(g, d, b) = {}
    BY <1>1, <1>2, <1>3, <2>1 DEF Match, Line
  <2> QED  BY <1>3, <2>2 DEF IsBlock, d
<1>4. CASE BlockOf(a) # BlockOf(b)
  <2>1. \A w \in Match(g, c, b) : ~(t = s /\ w \in Match(g, c, a))
    BY <1>1, <1>4 DEF Match, Line
  <2>2. Match(g, d, b) = Match(g, c, b)
    BY <1>1, <1>2, <2>1 DEF Match, Line
  <2> QED  BY <1>4, <2>2 DEF IsBlock, d
<1> QED  BY <1>3, <1>4

(* d is c with block a placed in the free way f of its line.               *)
Placed(g, c, d, a, f) ==
  LET s == GetSet(g, a) IN
  /\ f \in Ways(g) /\ ~c[s][f].valid
  /\ d[s][f].valid /\ d[s][f].addr = a /\ d[s][f].tag = GetTag(g, a)
  /\ \A x \in 0 .. g.sets - 1, w \in Ways(g) :
       ~(x = s /\ w = f) => /\ d[x][w].valid = c[x][w].valid
                            /\ d[x][w].addr = c[x][w].addr
                            /\ d[x][w].tag = c[x][w].tag
  /\ Rejuvenated(g, c, d, s, f)

(* newBlock of an absent block places it, when the line has a free way.    *)
LEMMA NewBlockEffect ==
  ASSUME NEW g \in Geometry, NEW c \in CacheOf(g), NEW a \in Nat,
         ~IsBlock(g, c, a), IsFree(g, c, a)
  PROVE  LET d == NewBlock(g, c, a) IN
         d \in CacheOf(g) /\ \E f \in Ways(g) : Placed(g, c, d, a, f)
<1> DEFINE s == GetSet(g, a)
           f == Min(Free(g, c, a))
           b == [valid |-> TRUE, dirty |-> FALSE, addr |-> a,
                 tag |-> GetTag(g, a), lru |-> c[s][f].lru]
           e == [c EXCEPT ![s][f] = b]
           d == UpdateLRU(g, e, a)
<1>1. s \in 0 .. g.sets - 1 /\ GetTag(g, a) \in Nat
  BY SetInRange
<1>2. f \in Ways(g) /\ ~c[s][f].valid
  BY WaySets DEF IsFree, Free, Line
<1>3. NewBlock(g, c, a) = d
  BY <1>1, <1>2 DEF NewBlock, CacheOf
<1> HIDE DEF f
<1>4. c[s][f] \in Block(g)
  BY <1>1, <1>2 DEF CacheOf
<1>5. /\ b \in Block(g) /\ b.valid /\ b.addr = a /\ b.tag = GetTag(g, a)
      /\ b.lru = c[s][f].lru
  BY <1>1, <1>4 DEF Block
<1> HIDE DEF b, s
<1>6. /\ e \in CacheOf(g)
      /\ \A x \in 0 .. g.sets - 1, w \in Ways(g) :
           e[x][w] = IF x = s /\ w = f THEN b ELSE c[x][w]
  BY <1>1, <1>2, <1>5 DEF CacheOf
<1> HIDE DEF e
<1>7. Match(g, e, a) = {f}
  <2>1. Match(g, c, a) = {}
    BY DEF IsBlock
  <2> QED  BY <1>1, <1>2, <1>5, <1>6, <2>1 DEF Match, Line, s
<1>8. /\ d \in CacheOf(g)
      /\ SameBlocks(g, e, d)
      /\ Rejuvenated(g, e, d, s, f)
  BY <1>6, <1>7, UpdateLRUEffect DEF IsBlock, s
<1> HIDE DEF d
<1>9. Rejuvenated(g, c, d, s, f)
  BY <1>1, <1>2, <1>5, <1>6, <1>8 DEF Rejuvenated
<1>10. Placed(g, c, d, a, f)
  BY <1>1, <1>2, <1>5, <1>6, <1>8, <1>9 DEF Placed, SameBlocks, s
<1> QED  BY <1>2, <1>3, <1>8, <1>10

(* After a block is placed the addresses of it are found, and all others   *)
(* are as before.                                                          *)
LEMMA PlacedSearch ==
  ASSUME NEW g \in Geometry, NEW c, NEW d, NEW a \in Nat, NEW b \in Nat,
         NEW f, Placed(g, c, d, a, f)
  PROVE  IsBlock(g, d, b) <=> IsBlock(g, c, b) \/ BlockOf(b) = BlockOf(a)
<1> DEFINE s == GetSet(g, a)
           t == GetSet(g, b)
<1>1. /\ s \in 0 .. g.sets - 1
      /\ t \in 0 .. g.sets - 1
      /\ (s = t /\ GetTag(g, a) = GetTag(g, b)) <=> BlockOf(a) = BlockOf(b)
  BY SetInRange, SetAndTagNameTheBlock
<1>2. CASE BlockOf(b) = BlockOf(a)
  <2>1. f \in Match(g, d, b)
    BY <1>1, <1>2 DEF Placed, Match, Line
  <2> QED  BY <1>2, <2>1 DEF IsBlock
<1>3. CASE BlockOf(b) # BlockOf(a)
  <2>1. Match(g, d, b) = Match(g, c, b)
    BY <1>1, <1>3 DEF Placed, Match, Line
  <2> QED  BY <1>3, <2>1 DEF IsBlock
<1> QED  BY <1>2, <1>3

-----------------------------------------------------------------------------
(* The operations keep a cache consistent.                                 *)
LEMMA SameBlocksConsistent ==
  ASSUME NEW g \in Geometry, NEW c, NEW d, Consistent(g, c),
         SameBlocks(g, c, d)
  PROVE  Consistent(g, d)
BY DEF Consistent, SameBlocks

LEMMA SetInvalidConsistent ==
  ASSUME NEW g \in Geometry, NEW c \in CacheOf(g), NEW a \in Nat,
         Consistent(g, c)
  PROVE  Consistent(g, SetInvalid(g, c, a))
<1> DEFINE d == SetInvalid(g, c, a)
<1>1. \A x \in 0 .. g.sets - 1, w \in Ways(g) :
         d[x][w].valid => d[x][w] = c[x][w]
  BY SetInvalidEffect
<1> HIDE DEF d
<1> QED  BY <1>1 DEF Consistent, d

LEMMA PlacedConsistent ==
  ASSUME NEW g \in Geometry, NEW c, NEW d, NEW a \in Addrs, NEW f,
         Consistent(g, c), ~IsBlock(g, c, a), Placed(g, c, d, a, f)
  PROVE  Consistent(g, d)
<1> DEFINE s == GetSet(g, a)
<1>1. s \in 0 .. g.sets - 1
  BY SetInRange, CacheAssumption
<1>2. \A w \in Ways(g) : c[s][w].valid => c[s][w].tag # GetTag(g, a)
  BY DEF IsBlock, Match, Line
<1>3. ASSUME NEW x \in 0 .. g.sets - 1, NEW w \in Ways(g), d[x][w].valid
      PROVE  /\ d[x][w].addr \in Addrs
             /\ GetSet(g, d[x][w].addr) = x
             /\ GetTag(g, d[x][w].addr) = d[x][w].tag
             /\ \A y \in Ways(g) \ {w} :
                  d[x][y].valid => d[x][y].tag # d[x][w].tag
  <2>1. CASE x = s /\ w = f
    BY <1>1, <1>2, <2>1 DEF Placed
  <2>2. CASE ~(x = s /\ w = f)
    <3>1. /\ c[x][w].valid /\ d[x][w].addr = c[x][w].addr
          /\ d[x][w].tag = c[x][w].tag
      BY <1>3, <2>2 DEF Placed
    <3>2. /\ d[x][w].addr \in Addrs
          /\ GetSet(g, d[x][w].addr) = x
          /\ GetTag(g, d[x][w].addr) = d[x][w].tag
      BY <3>1 DEF Consistent
    <3>3. ASSUME NEW y \in Ways(g) \ {w}, d[x][y].valid
          PROVE  d[x][y].tag # d[x][w].tag
      <4>1. CASE x = s /\ y = f
        BY <1>2, <3>1, <4>1 DEF Placed
      <4>2. CASE ~(x = s /\ y = f)
        BY <3>1, <3>3, <4>2 DEF Placed, Consistent
      <4> QED  BY <4>1, <4>2
    <3> QED  BY <3>2, <3>3
  <2> QED  BY <2>1, <2>2
<1> QED  BY <1>3 DEF Consistent

-----------------------------------------------------------------------------
(* No function puts n pigeons in fewer holes one by one.                   *)
LEMMA Pigeons ==
  ASSUME NEW n \in Nat \ {0}, NEW T, NEW m \in Nat, m < n,
         IsFiniteSet(T), Cardinality(T) = m, NEW f \in [0 .. n - 1 -> T]
  PROVE  \E i, j \in 0 .. n - 1 : i # j /\ f[i] = f[j]
<1> DEFINE S == 0 .. n - 1
<1>1. IsFiniteSet(S) /\ Cardinality(S) = n
  BY FS_Interval
<1>2. Cardinality(T) < Cardinality(S) /\ f \in [S -> T]
  BY <1>1
<1> HIDE DEF S
<1>3. \E i, j \in S : i # j /\ f[i] = f[j]
  BY <1>1, <1>2, FS_PigeonHole
<1> QED  BY <1>3 DEF S

(* Ages.  A line is full exactly when it has a block of the greatest age:  *)
(* as many ages as ways, all of them different, leave none out.            *)
LEMMA FullLineHasOldest ==
  ASSUME NEW g \in Geometry, NEW line, DenseLine(g, line),
         \A w \in Ways(g) : line[w].lru \in 0 .. g.ways
  PROVE  (\A w \in Ways(g) : line[w].valid)
           <=> \E w \in Ways(g) : line[w].valid /\ line[w].lru = g.ways - 1
<1> DEFINE n == g.ways
<1>1. n \in Nat \ {0} /\ Ways(g) = 0 .. n - 1
  BY DEF Geometry, Ways
<1> HIDE DEF n
<1>2. IsFiniteSet(0 .. n - 1) /\ Cardinality(0 .. n - 1) = n
  BY <1>1, FS_Interval
<1>3. ASSUME \A w \in Ways(g) : line[w].valid,
             \A w \in Ways(g) : line[w].lru # n - 1
      PROVE  FALSE
  <2> DEFINE age == [w \in 0 .. n - 1 |-> line[w].lru]
  <2>1. age \in [0 .. n - 1 -> 0 .. n - 2]
    <3>1. ASSUME NEW w \in 0 .. n - 1
          PROVE  line[w].lru \in 0 .. n - 2
      <4>1. w \in Ways(g) /\ line[w].lru \in 0 .. n
        BY <1>1 DEF n
      <4>2. line[w].lru < n /\ line[w].lru # n - 1
        BY <1>3, <4>1 DEF DenseLine, n
      <4> QED  BY <1>1, <4>1, <4>2
    <3> QED  BY <3>1
  <2>2. IsFiniteSet(0 .. n - 2) /\ Cardinality(0 .. n - 2) = n - 1
    <3>1. 0 \in Int /\ n - 2 \in Int /\ (0 > n - 2 => n - 1 = 0)
          /\ (n - 2) - 0 + 1 = n - 1
      BY <1>1
    <3>2. /\ IsFiniteSet(0 .. n - 2)
          /\ Cardinality(0 .. n - 2) =
               IF 0 > n - 2 THEN 0 ELSE (n - 2) - 0 + 1
      BY <3>1, FS_Interval
    <3> QED  BY <3>1, <3>2
  <2>3. n - 1 \in Nat /\ n - 1 < n
    BY <1>1
  <2>4. PICK x, y \in 0 .. n - 1 : x # y /\ age[x] = age[y]
    <3> HIDE DEF age
    <3> QED  BY <1>1, <2>1, <2>2, <2>3, Pigeons
  <2> QED  BY <1>1, <1>3, <2>4 DEF DenseLine
<1>4. ASSUME NEW w \in Ways(g), line[w].valid, line[w].lru = n - 1,
             NEW f \in Ways(g), ~line[f].valid
      PROVE  FALSE
  <2> DEFINE at == [i \in 0 .. n - 1 |->
                      CHOOSE x \in Ways(g) : line[x].valid /\ line[x].lru = i]
  <2>1. \A i \in 0 .. n - 1 :
          \E x \in Ways(g) : line[x].valid /\ line[x].lru = i
    BY <1>1, <1>4 DEF DenseLine, n
  <2>2. \A i \in 0 .. n - 1 :
          at[i] \in Ways(g) /\ line[at[i]].valid /\ line[at[i]].lru = i
    BY <2>1
  <2>3. at \in [0 .. n - 1 -> (0 .. n - 1) \ {f}]
    BY <1>1, <1>4, <2>2
  <2>4. /\ IsFiniteSet((0 .. n - 1) \ {f})
        /\ Cardinality((0 .. n - 1) \ {f}) = n - 1
    <3>1. f \in 0 .. n - 1
      BY <1>1, <1>4
    <3> QED  BY <1>2, <3>1, FS_RemoveElement
  <2>5. n - 1 \in Nat /\ n - 1 < n
    BY <1>1
  <2> HIDE DEF at
  <2>6. PICK i, j \in 0 .. n - 1 : i # j /\ at[i] = at[j]
    BY <1>1, <2>3, <2>4, <2>5, Pigeons
  <2> QED  BY <2>2, <2>6
<1> QED  BY <1>3, <1>4 DEF n

LEMMA SameAgesDense ==
  ASSUME NEW g \in Geometry, NEW c, NEW d, Dense(g, c),
         SameBlocks(g, c, d), SameAges(g, c, d)
  PROVE  Dense(g, d)
BY DEF Dense, DenseLine, SameBlocks, SameAges

(* Ages of a cache are numbers from 0 to the number of its ways.           *)
LEMMA AgesAreNumbers ==
  ASSUME NEW g \in Geometry, NEW c \in CacheOf(g)
  PROVE  \A s \in 0 .. g.sets - 1, w \in Ways(g) :
           c[s][w].lru \in 0 .. g.ways
<1> SUFFICES ASSUME NEW s \in 0 .. g.sets - 1, NEW w \in Ways(g)
             PROVE  c[s][w].lru \in 0 .. g.ways
  OBVIOUS
<1>1. c[s][w] \in Block(g)
  BY DEF CacheOf
<1> QED  BY <1>1 DEF Block

(* A use of a block that is there: its own age is free for the block that  *)
(* was one younger, and so on down to 0.                                   *)
LEMMA RejuvenatedDense ==
  ASSUME NEW g \in Geometry, NEW c \in CacheOf(g), NEW d \in CacheOf(g),
         Dense(g, c), SameBlocks(g, c, d),
         NEW s \in 0 .. g.sets - 1, NEW u \in Ways(g), c[s][u].valid,
         Rejuvenated(g, c, d, s, u)
  PROVE  Dense(g, d)
<1> DEFINE k == c[s][u].lru
           n == g.ways
<1>1. /\ n \in Nat \ {0}
      /\ \A w \in Ways(g) : c[s][w].lru \in 0 .. n
      /\ DenseLine(g, c[s])
      /\ k \in Nat /\ k < n
  <2>1. \A w \in Ways(g) : c[s][w].lru \in 0 .. n
    BY AgesAreNumbers
  <2> QED  BY <2>1 DEF Dense, DenseLine, Geometry
<1>2. \A w \in Ways(g) :
        /\ d[s][w].valid = c[s][w].valid
        /\ d[s][w].lru = IF w = u THEN 0
                         ELSE IF c[s][w].valid /\ c[s][w].lru < k
                              THEN c[s][w].lru + 1 ELSE c[s][w].lru
  BY DEF SameBlocks, Rejuvenated
<1>3. DenseLine(g, d[s])
  <2>1. ASSUME NEW w \in Ways(g), ~d[s][w].valid
        PROVE  d[s][w].lru = n
    BY <1>1, <1>2, <2>1 DEF DenseLine
  <2>2. ASSUME NEW w \in Ways(g), d[s][w].valid
        PROVE  d[s][w].lru < n
    BY <1>1, <1>2, <2>2 DEF DenseLine
  <2>3. ASSUME NEW w \in Ways(g), d[s][w].valid,
               NEW x \in Ways(g) \ {w}, d[s][x].valid
        PROVE  d[s][x].lru # d[s][w].lru
    <3>1. /\ c[s][x].lru # c[s][w].lru
          /\ u # w => c[s][u].lru # c[s][w].lru
          /\ u # x => c[s][u].lru # c[s][x].lru
      BY <1>1, <1>2, <2>3 DEF DenseLine
    <3>2. c[s][x].lru \in Nat /\ c[s][w].lru \in Nat
      BY <1>1
    <3> QED  BY <1>1, <1>2, <2>3, <3>1, <3>2
  <2>4. ASSUME NEW w \in Ways(g), d[s][w].valid,
               NEW i \in 0 .. d[s][w].lru
        PROVE  \E x \in Ways(g) : d[s][x].valid /\ d[s][x].lru = i
    <3>1. c[s][w].lru \in 0 .. n /\ d[s][w].lru \in Nat /\ i \in Nat
      BY <1>1, <1>2
    <3>2. CASE i = 0
      BY <1>2, <3>2
    <3>3. CASE i # 0 /\ i <= k
      <4>1. i - 1 \in 0 .. k
        BY <1>1, <3>1, <3>3
      <4>2. PICK x \in Ways(g) : c[s][x].valid /\ c[s][x].lru = i - 1
        BY <1>1, <4>1 DEF DenseLine
      <4>3. x # u
        BY <1>1, <3>1, <3>3, <4>2
      <4> QED  BY <1>1, <1>2, <3>1, <3>3, <4>2, <4>3
    <3>4. CASE i > k
      <4>1. i \in 0 .. c[s][w].lru
        BY <1>1, <1>2, <2>4, <3>1, <3>4
      <4>2. c[s][w].valid
        BY <1>2, <2>4
      <4>3. PICK x \in Ways(g) : c[s][x].valid /\ c[s][x].lru = i
        BY <1>1, <4>1, <4>2 DEF DenseLine
      <4> QED  BY <1>1, <1>2, <3>1, <3>4, <4>3
    <3> QED  BY <1>1, <3>1, <3>2, <3>3, <3>4
  <2> QED  BY <2>1, <2>2, <2>3, <2>4 DEF DenseLine
<1>4. ASSUME NEW x \in 0 .. g.sets - 1, x # s
      PROVE  DenseLine(g, d[x])
  <2>1. \A w \in Ways(g) : /\ d[x][w].valid = c[x][w].valid
                           /\ d[x][w].lru = c[x][w].lru
    BY <1>4 DEF SameBlocks, Rejuvenated
  <2> QED  BY <2>1 DEF Dense, DenseLine
<1> QED  BY <1>3, <1>4 DEF Dense

(* A new block in a free way: all the others become one older, and none of *)
(* them was as old as the ways allow, for the line was not full.           *)
LEMMA PlacedDense ==
  ASSUME NEW g \in Geometry, NEW c \in CacheOf(g), NEW d, NEW a \in Nat,
         NEW f, Dense(g, c), Placed(g, c, d, a, f)
  PROVE  Dense(g, d)
<1> DEFINE s == GetSet(g, a)
           n == g.ways
<1>1. /\ n \in Nat \ {0}
      /\ s \in 0 .. g.sets - 1
      /\ \A w \in Ways(g) : c[s][w].lru \in 0 .. n
      /\ DenseLine(g, c[s])
      /\ f \in Ways(g) /\ ~c[s][f].valid /\ c[s][f].lru = n
      /\ d[s][f].valid
  <2>1. n \in Nat \ {0} /\ s \in 0 .. g.sets - 1
    BY SetInRange DEF Geometry
  <2>2. \A w \in Ways(g) : c[s][w].lru \in 0 .. n
    BY <2>1, AgesAreNumbers
  <2>3. DenseLine(g, c[s])
    BY <2>1 DEF Dense
  <2>4. f \in Ways(g) /\ ~c[s][f].valid /\ d[s][f].valid
    BY DEF Placed
  <2> QED  BY <2>1, <2>2, <2>3, <2>4 DEF DenseLine
<1>2. \A w \in Ways(g) : c[s][w].valid => c[s][w].lru < n - 1
  <2>1. \A w \in Ways(g) : c[s][w].valid => c[s][w].lru # n - 1
    BY <1>1, FullLineHasOldest
  <2> QED  BY <1>1, <2>1 DEF DenseLine
<1>3. \A w \in Ways(g) :
        /\ w # f => d[s][w].valid = c[s][w].valid
        /\ d[s][w].lru = IF w = f THEN 0
                         ELSE IF c[s][w].valid THEN c[s][w].lru + 1 ELSE n
  BY <1>1, <1>2 DEF Placed, Rejuvenated, DenseLine
<1>4. DenseLine(g, d[s])
  <2>1. ASSUME NEW w \in Ways(g), ~d[s][w].valid
        PROVE  d[s][w].lru = n
    BY <1>1, <1>3, <2>1
  <2>2. ASSUME NEW w \in Ways(g), d[s][w].valid
        PROVE  d[s][w].lru < n
    BY <1>1, <1>2, <1>3, <2>2
  <2>3. ASSUME NEW w \in Ways(g), d[s][w].valid,
               NEW x \in Ways(g) \ {w}, d[s][x].valid
        PROVE  d[s][x].lru # d[s][w].lru
    <3>1. c[s][x].lru \in Nat /\ c[s][w].lru \in Nat
      BY <1>1
    <3>2. c[s][x].valid /\ c[s][w].valid => c[s][x].lru # c[s][w].lru
      BY <1>1, <2>3 DEF DenseLine
    <3> QED  BY <1>1, <1>3, <2>3, <3>1, <3>2
  <2>4. ASSUME NEW w \in Ways(g), d[s][w].valid,
               NEW i \in 0 .. d[s][w].lru
        PROVE  \E x \in Ways(g) : d[s][x].valid /\ d[s][x].lru = i
    <3>1. c[s][w].lru \in Nat /\ i \in Nat
      BY <1>1, <1>3
    <3>2. CASE i = 0
      BY <1>1, <1>3, <3>2
    <3>3. CASE i # 0
      <4>1. w # f /\ c[s][w].valid /\ i - 1 \in 0 .. c[s][w].lru
        BY <1>3, <2>4, <3>1, <3>3
      <4>2. PICK x \in Ways(g) : c[s][x].valid /\ c[s][x].lru = i - 1
        BY <1>1, <4>1 DEF DenseLine
      <4> QED  BY <1>1, <1>3, <3>1, <4>2
    <3> QED  BY <3>2, <3>3
  <2> QED  BY <2>1, <2>2, <2>3, <2>4 DEF DenseLine
<1>5. ASSUME NEW x \in 0 .. g.sets - 1, x # s
      PROVE  DenseLine(g, d[x])
  <2>1. \A w \in Ways(g) : /\ d[x][w].valid = c[x][w].valid
                           /\ d[x][w].lru = c[x][w].lru
    BY <1>5 DEF Placed, Rejuvenated
  <2> QED  BY <2>1 DEF Dense, DenseLine
<1> QED  BY <1>4, <1>5 DEF Dense

-----------------------------------------------------------------------------
(* The victim of a full line: the address found is one of the line, and    *)
(* taking it out makes a free way and no gap among the ages.               *)
LEMMA VictimOfDense ==
  ASSUME NEW g \in Geometry, NEW c \in CacheOf(g), NEW a \in Nat,
         Dense(g, c), Consistent(g, c), ~IsFree(g, c, a),
         NEW v \in Victims(g, c, a)
  PROVE  /\ v \in Addrs /\ IsBlock(g, c, v)
         /\ GetSet(g, v) = GetSet(g, a)
         /\ \A w \in Match(g, c, v) : c[GetSet(g, v)][w].lru = g.ways - 1
<1> DEFINE s == GetSet(g, a)
           u == Min(Oldest(g, c, a))
<1>1. s \in 0 .. g.sets - 1
  BY SetInRange
<1>2. \A w \in Ways(g) : c[s][w].valid
  BY DEF IsFree, Free, Line
<1>3. Oldest(g, c, a) # {}
  <2>1. DenseLine(g, c[s]) /\ \A w \in Ways(g) : c[s][w].lru \in 0 .. g.ways
    BY <1>1, AgesAreNumbers DEF Dense
  <2> QED  BY <1>2, <2>1, FullLineHasOldest DEF Oldest, Line
<1>4. /\ u \in Ways(g) /\ c[s][u].valid /\ c[s][u].lru = g.ways - 1
      /\ v = c[s][u].addr
  <2>1. u \in Oldest(g, c, a)
    BY <1>3, WaySets
  <2>2. v = c[s][u].addr
    BY <1>3 DEF Victims, Line
  <2> HIDE DEF u
  <2> QED  BY <2>1, <2>2 DEF Oldest, Line
<1> HIDE DEF u
<1>5. /\ v \in Addrs /\ GetSet(g, v) = s /\ GetTag(g, v) = c[s][u].tag
  BY <1>1, <1>4 DEF Consistent
<1>6. u \in Match(g, c, v)
  BY <1>4, <1>5 DEF Match, Line
<1>7. \A w \in Match(g, c, v) : w = u
  BY <1>1, <1>4, <1>5 DEF Match, Line, Consistent
<1> QED  BY <1>4, <1>5, <1>6, <1>7 DEF IsBlock

LEMMA SetInvalidDense ==
  ASSUME NEW g \in Geometry, NEW c \in CacheOf(g), NEW v \in Nat,
         Dense(g, c), IsBlock(g, c, v),
         \A w \in Match(g, c, v) : c[GetSet(g, v)][w].lru = g.ways - 1
  PROVE  Dense(g, SetInvalid(g, c, v)) /\ IsFree(g, SetInvalid(g, c, v), v)
<1> DEFINE s == GetSet(g, v)
           d == SetInvalid(g, c, v)
<1>1. s \in 0 .. g.sets - 1 /\ g.ways \in Nat \ {0}
  BY SetInRange DEF Geometry
<1>2. \A x \in 0 .. g.sets - 1, w \in Ways(g) :
        IF x = s /\ w \in Match(g, c, v)
        THEN ~d[x][w].valid /\ d[x][w].lru = g.ways
        ELSE d[x][w] = c[x][w]
  BY SetInvalidEffect
<1> HIDE DEF d
<1>3. IsFree(g, d, v)
  BY <1>1, <1>2, WaySets DEF IsBlock, IsFree, Free, Line
<1>4. ASSUME NEW x \in 0 .. g.sets - 1
      PROVE  DenseLine(g, d[x])
  <2>1. DenseLine(g, c[x]) /\ \A w \in Ways(g) : c[x][w].lru \in 0 .. g.ways
    BY AgesAreNumbers DEF Dense
  <2>2. \A w \in Ways(g) :
           \/ ~d[x][w].valid /\ d[x][w].lru = g.ways
              /\ c[x][w].lru >= g.ways - 1
           \/ d[x][w] = c[x][w]
    BY <1>1, <1>2, <2>1
  <2>3. ASSUME NEW w \in Ways(g), d[x][w].valid, NEW i \in 0 .. d[x][w].lru
        PROVE  \E y \in Ways(g) : d[x][y].valid /\ d[x][y].lru = i
    <3>1. d[x][w] = c[x][w] /\ c[x][w].valid
      BY <2>2, <2>3
    <3>2. PICK y \in Ways(g) : c[x][y].valid /\ c[x][y].lru = i
      BY <2>1, <2>3, <3>1 DEF DenseLine
    <3>3. CASE d[x][y] = c[x][y]
      BY <3>2, <3>3
    <3>4. CASE d[x][y] # c[x][y]
      <4>1. c[x][y].lru >= g.ways - 1 /\ y # w
        BY <2>2, <3>1, <3>4
      <4>2. c[x][w].lru = g.ways - 1 /\ c[x][y].lru = g.ways - 1
        BY <1>1, <2>1, <3>1, <3>2, <4>1 DEF DenseLine
      <4> QED  BY <2>1, <3>1, <3>2, <4>1, <4>2 DEF DenseLine
    <3> QED  BY <3>3, <3>4
  <2> QED  BY <2>1, <2>2, <2>3 DEF DenseLine
<1> QED  BY <1>3, <1>4 DEF Dense, d

-----------------------------------------------------------------------------
(* The dirty bits.                                                         *)

(* What is dirty in c is there and dirty in d.                             *)
KeepsDirty(g, c, d) ==
  \A s \in 0 .. g.sets - 1, w \in Ways(g) : c[s][w].valid /\ c[s][w].dirty =>
    d[s][w].valid /\ d[s][w].dirty /\ d[s][w].tag = c[s][w].tag

LEMMA KeepsDirtySearch ==
  ASSUME NEW g \in Geometry, NEW c, NEW d, KeepsDirty(g, c, d), NEW a \in Nat,
         IsDirty(g, c, a)
  PROVE  IsDirty(g, d, a)
<1>1. GetSet(g, a) \in 0 .. g.sets - 1
  BY SetInRange
<1> QED  BY <1>1 DEF KeepsDirty, IsDirty, Match, Line

LEMMA DirtyIsBlock ==
  ASSUME NEW g, NEW c, NEW a, IsDirty(g, c, a)
  PROVE  IsBlock(g, c, a)
BY DEF IsDirty, IsBlock

LEMMA SameBlockSameDirt ==
  ASSUME NEW g \in Geometry, NEW c, NEW a \in Nat, NEW b \in Nat,
         BlockOf(a) = BlockOf(b)
  PROVE  IsDirty(g, c, a) <=> IsDirty(g, c, b)
<1>1. GetSet(g, a) = GetSet(g, b) /\ GetTag(g, a) = GetTag(g, b)
  BY SetAndTagNameTheBlock
<1> QED  BY <1>1 DEF IsDirty, Match, Line

(* An update of one field keeps the dirty bit.                             *)
LEMMA AgedBlockDirt ==
  ASSUME NEW g \in Geometry, NEW b \in Block(g), NEW n
  PROVE  [b EXCEPT !.lru = n].dirty = b.dirty
BY DEF Block

LEMMA UpdateLRUDirt ==
  ASSUME NEW g \in Geometry, NEW c \in CacheOf(g), NEW a \in Nat,
         IsBlock(g, c, a)
  PROVE  KeepsDirty(g, c, UpdateLRU(g, c, a))
<1> DEFINE s == GetSet(g, a)
           u == Max(Match(g, c, a))
           d == UpdateLRU(g, c, a)
<1>1. s \in 0 .. g.sets - 1
  BY SetInRange
<1>2. d \in CacheOf(g) /\ SameBlocks(g, c, d)
  BY UpdateLRUEffect
<1>3. d = [c EXCEPT ![s] = [w \in Ways(g) |->
             IF w = u THEN [c[s][w] EXCEPT !.lru = 0]
             ELSE IF c[s][w].valid /\ c[s][w].lru < c[s][u].lru
                  THEN [c[s][w] EXCEPT !.lru = c[s][w].lru + 1]
                  ELSE c[s][w]]]
  BY DEF UpdateLRU, Line
<1> HIDE DEF d, u, s
<1>4. ASSUME NEW x \in 0 .. g.sets - 1, NEW w \in Ways(g)
      PROVE  d[x][w].dirty = c[x][w].dirty
  <2>1. c[x][w] \in Block(g)
    BY DEF CacheOf
  <2>2. CASE x # s
    BY <1>1, <1>3, <2>2 DEF CacheOf
  <2>3. CASE x = s
    <3>1. d[s][w] = IF w = u THEN [c[s][w] EXCEPT !.lru = 0]
                    ELSE IF c[s][w].valid /\ c[s][w].lru < c[s][u].lru
                         THEN [c[s][w] EXCEPT !.lru = c[s][w].lru + 1]
                         ELSE c[s][w]
      BY <1>1, <1>3 DEF CacheOf
    <3> QED  BY <2>1, <2>3, <3>1, AgedBlockDirt
  <2> QED  BY <2>2, <2>3
<1>5. KeepsDirty(g, c, d)
  BY <1>2, <1>4 DEF KeepsDirty, SameBlocks
<1> QED  BY <1>5 DEF d

(* setDirty makes the block dirty, if it is there.                         *)
LEMMA SetDirtyDirt ==
  ASSUME NEW g \in Geometry, NEW c \in CacheOf(g), NEW a \in Nat
  PROVE  LET d == SetDirty(g, c, a) IN
         KeepsDirty(g, c, d) /\ (IsBlock(g, c, a) => IsDirty(g, d, a))
<1> DEFINE s == GetSet(g, a)
           u == Min(Match(g, c, a))
           d == SetDirty(g, c, a)
<1>1. CASE ~IsBlock(g, c, a)
  BY <1>1 DEF SetDirty, KeepsDirty
<1>2. CASE IsBlock(g, c, a)
  <2>1. s \in 0 .. g.sets - 1 /\ u \in Ways(g) /\ u \in Match(g, c, a)
    BY <1>2, SetInRange, WaySets DEF IsBlock
  <2>2. d = [c EXCEPT ![s][u].dirty = TRUE]
    BY <1>2 DEF SetDirty
  <2>3. SameBlocks(g, c, d) /\ Match(g, d, a) = Match(g, c, a)
    BY SetDirtyEffect, SameBlocksSameSearch
  <2> HIDE DEF d, u
  <2>4. \A x \in 0 .. g.sets - 1, w \in Ways(g) :
          /\ c[x][w] \in Block(g)
          /\ d[x][w] = IF x = s /\ w = u THEN [c[x][w] EXCEPT !.dirty = TRUE]
                       ELSE c[x][w]
    BY <2>1, <2>2 DEF CacheOf
  <2>5. \A x \in 0 .. g.sets - 1, w \in Ways(g) :
          d[x][w].dirty = IF x = s /\ w = u THEN TRUE ELSE c[x][w].dirty
    BY <2>4 DEF Block
  <2>6. KeepsDirty(g, c, d)
    BY <2>3, <2>5 DEF KeepsDirty, SameBlocks
  <2>7. IsDirty(g, d, a)
    BY <2>1, <2>3, <2>5 DEF IsDirty, Line
  <2> QED  BY <1>2, <2>6, <2>7 DEF d
<1> QED  BY <1>1, <1>2

LEMMA WriteBlockDirt ==
  ASSUME NEW g \in Geometry, NEW c \in CacheOf(g), NEW a \in Nat,
         IsBlock(g, c, a)
  PROVE  LET d == WriteBlock(g, c, a) IN
         KeepsDirty(g, c, d) /\ IsDirty(g, d, a)
<1> DEFINE s == GetSet(g, a)
           e == [c EXCEPT ![s] = [w \in Ways(g) |->
                   IF w \in Match(g, c, a)
                   THEN [c[s][w] EXCEPT !.dirty = TRUE] ELSE c[s][w]]]
           d == UpdateLRU(g, e, a)
<1>1. s \in 0 .. g.sets - 1
  BY SetInRange
<1>2. \A x \in 0 .. g.sets - 1, w \in Ways(g) :
        /\ c[x][w] \in Block(g)
        /\ e[x][w] = IF x = s /\ w \in Match(g, c, a)
                     THEN [c[x][w] EXCEPT !.dirty = TRUE] ELSE c[x][w]
  BY <1>1 DEF CacheOf
<1>3. ASSUME NEW x \in 0 .. g.sets - 1, NEW w \in Ways(g)
      PROVE  /\ e[x][w] \in Block(g)
             /\ e[x][w].valid = c[x][w].valid
             /\ e[x][w].addr = c[x][w].addr
             /\ e[x][w].tag = c[x][w].tag
             /\ e[x][w].dirty = IF x = s /\ w \in Match(g, c, a)
                                THEN TRUE ELSE c[x][w].dirty
  <2> HIDE DEF e
  <2>1. c[x][w] \in Block(g)
    BY <1>2
  <2>2. CASE x = s /\ w \in Match(g, c, a)
    <3>1. e[x][w] = [c[x][w] EXCEPT !.dirty = TRUE]
      BY <1>2, <2>2
    <3>2. e[x][w].dirty = TRUE
      BY <2>1, <3>1 DEF Block
    <3> QED  BY <2>1, <2>2, <3>1, <3>2, SoiledBlock
  <2>3. CASE ~(x = s /\ w \in Match(g, c, a))
    BY <1>2, <2>1, <2>3
  <2> QED  BY <2>2, <2>3
<1>4. e \in CacheOf(g)
  BY <1>1, <1>3 DEF CacheOf
<1>5. SameBlocks(g, c, e) /\ KeepsDirty(g, c, e)
  <2> HIDE DEF e
  <2> QED  BY <1>3 DEF SameBlocks, KeepsDirty
<1>6. WriteBlock(g, c, a) = d
  BY DEF WriteBlock, Line
<1>7. \A w \in Match(g, c, a) : e[s][w].dirty
  BY <1>1, <1>3, WaySets
<1> HIDE DEF e
<1>8. Match(g, e, a) = Match(g, c, a) /\ IsBlock(g, e, a)
  BY <1>5, SameBlocksSameSearch
<1>9. IsDirty(g, e, a)
  BY <1>7, <1>8 DEF IsDirty, IsBlock, Line
<1>10. KeepsDirty(g, e, d)
  BY <1>4, <1>8, UpdateLRUDirt
<1> HIDE DEF d
<1>11. IsDirty(g, d, a)
  BY <1>9, <1>10, KeepsDirtySearch
<1>12. KeepsDirty(g, c, d)
  BY <1>5, <1>10 DEF KeepsDirty
<1> QED  BY <1>6, <1>11, <1>12

(* setInvalid leaves the dirty bits of all other blocks.                   *)
LEMMA SetInvalidDirt ==
  ASSUME NEW g \in Geometry, NEW c \in CacheOf(g), NEW a \in Nat, NEW b \in Nat,
         BlockOf(b) # BlockOf(a), IsDirty(g, c, b)
  PROVE  IsDirty(g, SetInvalid(g, c, a), b)
<1> DEFINE d == SetInvalid(g, c, a)
           s == GetSet(g, a)
           t == GetSet(g, b)
<1>1. t \in 0 .. g.sets - 1 /\ ~(s = t /\ GetTag(g, a) = GetTag(g, b))
  BY SetInRange, SetAndTagNameTheBlock
<1>2. \A x \in 0 .. g.sets - 1, w \in Ways(g) :
         IF x = s /\ w \in Match(g, c, a) THEN ~d[x][w].valid
         ELSE d[x][w] = c[x][w]
  BY SetInvalidEffect
<1> HIDE DEF d
<1>3. PICK w \in Match(g, c, b) : c[t][w].dirty
  BY DEF IsDirty, Line
<1>4. /\ w \in Ways(g) /\ c[t][w].valid /\ c[t][w].tag = GetTag(g, b)
      /\ ~(t = s /\ w \in Match(g, c, a))
  BY <1>1, <1>3 DEF Match, Line
<1>5. d[t][w] = c[t][w]
  BY <1>1, <1>2, <1>4
<1>6. IsDirty(g, d, b)
  BY <1>3, <1>4, <1>5 DEF IsDirty, Match, Line
<1> QED  BY <1>6 DEF d

(* newBlock takes a way that is free.                                      *)
LEMMA NewBlockDirt ==
  ASSUME NEW g \in Geometry, NEW c \in CacheOf(g), NEW a \in Nat,
         ~IsBlock(g, c, a)
  PROVE  KeepsDirty(g, c, NewBlock(g, c, a))
<1>1. CASE ~IsFree(g, c, a)
  BY <1>1 DEF NewBlock, KeepsDirty
<1>2. CASE IsFree(g, c, a)
  <2> DEFINE s == GetSet(g, a)
             f == Min(Free(g, c, a))
             b == [valid |-> TRUE, dirty |-> FALSE, addr |-> a,
                   tag |-> GetTag(g, a), lru |-> c[s][f].lru]
             e == [c EXCEPT ![s][f] = b]
  <2>1. s \in 0 .. g.sets - 1 /\ GetTag(g, a) \in Nat
    BY SetInRange
  <2>2. f \in Ways(g) /\ ~c[s][f].valid
    BY <1>2, WaySets DEF IsFree, Free, Line
  <2>3. NewBlock(g, c, a) = UpdateLRU(g, e, a)
    BY <1>2, <2>1, <2>2 DEF NewBlock, CacheOf
  <2> HIDE DEF f
  <2>4. b \in Block(g) /\ b.valid /\ b.tag = GetTag(g, a)
    <3>1. c[s][f] \in Block(g)
      BY <2>1, <2>2 DEF CacheOf
    <3> QED  BY <2>1, <3>1 DEF Block
  <2> HIDE DEF b, s
  <2>5. /\ e \in CacheOf(g)
        /\ \A x \in 0 .. g.sets - 1, w \in Ways(g) :
             e[x][w] = IF x = s /\ w = f THEN b ELSE c[x][w]
    BY <2>1, <2>2, <2>4 DEF CacheOf
  <2> HIDE DEF e
  <2>6. IsBlock(g, e, a)
    BY <2>1, <2>2, <2>4, <2>5 DEF IsBlock, Match, Line, s
  <2>7. KeepsDirty(g, e, UpdateLRU(g, e, a))
    BY <2>5, <2>6, UpdateLRUDirt
  <2>8. KeepsDirty(g, c, e)
    BY <2>2, <2>5 DEF KeepsDirty
  <2> QED  BY <2>3, <2>7, <2>8 DEF KeepsDirty
<1> QED  BY <1>1, <1>2
=============================================================================
