------------------------------- MODULE Cache -------------------------------
(***************************************************************************)
(* Class Cache of hw2/cacheSim.h with its Blocks: one set-associative      *)
(* write-back cache.  A cache is a value, a function from set and way to a *)
(* block, and every method is an operator on that value, so that the L1    *)
(* and the L2 of a System are two values of one module.  The first         *)
(* argument g of every operator is the geometry of the cache: g.sets is    *)
(* 2^set_ of the code and g.ways is 2^ways_.                               *)
(***************************************************************************)
EXTENDS Integers, FiniteSetsExt

CONSTANTS BlockBytes,  \* 2^BSize_: the bytes of a block
          Addrs        \* the addresses of the trace

ASSUME CacheAssumption == BlockBytes \in Nat \ {0} /\ Addrs \subseteq Nat

Geometry == [sets : Nat \ {0}, ways : Nat \ {0}]
Ways(g)  == 0 .. g.ways - 1

(* bitExt as getSet and getTag call it: the low bits after the offset name *)
(* the set and all the others are the tag.                                 *)
BlockOf(a)   == a \div BlockBytes
GetSet(g, a) == BlockOf(a) % g.sets
GetTag(g, a) == BlockOf(a) \div g.sets

Block(g) == [valid : BOOLEAN, dirty : BOOLEAN, addr : Nat, tag : Nat,
             lru : 0 .. g.ways]
CacheOf(g) == [0 .. g.sets - 1 -> [Ways(g) -> Block(g)]]

EmptyCache(g) ==
  [s \in 0 .. g.sets - 1 |-> [w \in Ways(g) |->
     [valid |-> FALSE, dirty |-> FALSE, addr |-> 0, tag |-> 0,
      lru |-> g.ways]]]

-----------------------------------------------------------------------------
(* The line of a, the ways of it that hold a, and the ones that are free.  *)
Line(g, c, a) == c[GetSet(g, a)]

Match(g, c, a) == {w \in Ways(g) : /\ Line(g, c, a)[w].valid
                                   /\ Line(g, c, a)[w].tag = GetTag(g, a)}

(* Mutant: the search for a free way stops one way too early.              *)
FreeButLast(g, c, a) == {w \in 0 .. g.ways - 2 : ~Line(g, c, a)[w].valid}

Free(g, c, a) == {w \in Ways(g) : ~Line(g, c, a)[w].valid}

IsBlock(g, c, a) == Match(g, c, a) # {}
IsDirty(g, c, a) == \E w \in Match(g, c, a) : Line(g, c, a)[w].dirty
IsFree(g, c, a)  == Free(g, c, a) # {}

(* The block loses its validity only: its address, tag and dirty bit stay. *)
SetInvalid(g, c, a) ==
  [c EXCEPT ![GetSet(g, a)] = [w \in Ways(g) |->
     IF w \in Match(g, c, a)
     THEN [Line(g, c, a)[w] EXCEPT !.valid = FALSE, !.lru = g.ways]
     ELSE Line(g, c, a)[w]]]

(* Mutants: every other block grows older; the older ones do.              *)
AgeAll(g, c, a) ==
  LET used == Max(Match(g, c, a))
  IN  [c EXCEPT ![GetSet(g, a)] = [w \in Ways(g) |->
         LET b == Line(g, c, a)[w]
         IN  IF w = used THEN [b EXCEPT !.lru = 0]
             ELSE IF b.valid THEN [b EXCEPT !.lru = b.lru + 1] ELSE b]]

AgeTheOlder(g, c, a) ==
  LET used == Max(Match(g, c, a))
      curr == Line(g, c, a)[used].lru
  IN  [c EXCEPT ![GetSet(g, a)] = [w \in Ways(g) |->
         LET b == Line(g, c, a)[w]
         IN  IF w = used THEN [b EXCEPT !.lru = 0]
             ELSE IF b.valid /\ b.lru > curr /\ b.lru < g.ways
                  THEN [b EXCEPT !.lru = b.lru + 1]
             ELSE b]]

(* The last matching way is the one used.  Without a matching way the code *)
(* writes through an uninitialised pointer: Max({}) has no value, and TLC  *)
(* stops on a behaviour that gets there.                                   *)
UpdateLRU(g, c, a) ==
  LET used == Max(Match(g, c, a))
      curr == Line(g, c, a)[used].lru
  IN  [c EXCEPT ![GetSet(g, a)] = [w \in Ways(g) |->
         LET b == Line(g, c, a)[w]
         IN  IF w = used THEN [b EXCEPT !.lru = 0]
             ELSE IF b.valid /\ b.lru < curr THEN [b EXCEPT !.lru = b.lru + 1]
             ELSE b]]

(* The first matching way becomes dirty; none does when there is none.     *)
SetDirty(g, c, a) ==
  IF IsBlock(g, c, a)
  THEN [c EXCEPT ![GetSet(g, a)][Min(Match(g, c, a))].dirty = TRUE]
  ELSE c

(* Every matching way becomes dirty, and the block is now the one in use.  *)
WriteBlock(g, c, a) ==
  UpdateLRU(g, [c EXCEPT ![GetSet(g, a)] = [w \in Ways(g) |->
                  IF w \in Match(g, c, a)
                  THEN [Line(g, c, a)[w] EXCEPT !.dirty = TRUE]
                  ELSE Line(g, c, a)[w]]], a)

(* What chooseVictim can return: the address in the first valid way whose  *)
(* age is the greatest one, ways - 1.  When no way has it the function     *)
(* falls off its end and the caller reads whatever the return register     *)
(* holds: any address.                                                     *)
Oldest(g, c, a) == {w \in Ways(g) : /\ Line(g, c, a)[w].valid
                                    /\ Line(g, c, a)[w].lru = g.ways - 1}

Victims(g, c, a) ==
  IF Oldest(g, c, a) = {} THEN Addrs
  ELSE {Line(g, c, a)[Min(Oldest(g, c, a))].addr}

(* Mutant: the way keeps the address of the block that was there.          *)
NewBlockOldAddr(g, c, a) ==
  IF IsFree(g, c, a)
  THEN UpdateLRU(g, [c EXCEPT ![GetSet(g, a)][Min(Free(g, c, a))] =
                       [@ EXCEPT !.valid = TRUE, !.dirty = FALSE,
                                 !.tag = GetTag(g, a)]], a)
  ELSE c

(* The first free way takes the block.  A full line stays as it is.        *)
NewBlock(g, c, a) ==
  IF IsFree(g, c, a)
  THEN UpdateLRU(g, [c EXCEPT ![GetSet(g, a)][Min(Free(g, c, a))] =
                       [valid |-> TRUE, dirty |-> FALSE, addr |-> a,
                        tag |-> GetTag(g, a), lru |-> @.lru]], a)
  ELSE c

-----------------------------------------------------------------------------
(* The blocks of memory, and whether a cache has one under some address.   *)
Blocks == {BlockOf(a) : a \in Addrs}

Holds(g, c, b)      == \E a \in Addrs : BlockOf(a) = b /\ IsBlock(g, c, a)
HoldsDirty(g, c, b) == \E a \in Addrs : BlockOf(a) = b /\ IsDirty(g, c, a)

-----------------------------------------------------------------------------
(* What a line of blocks should look like.                                 *)

(* A valid block is in the set and under the tag of the address stored     *)
(* with it, and in one way only: what chooseVictim returns leads           *)
(* setInvalid back to the block it was read from, and to no other.         *)
Consistent(g, c) ==
  \A s \in 0 .. g.sets - 1, w \in Ways(g) : c[s][w].valid =>
    /\ c[s][w].addr \in Addrs
    /\ GetSet(g, c[s][w].addr) = s
    /\ GetTag(g, c[s][w].addr) = c[s][w].tag
    /\ \A x \in Ways(g) \ {w} :
         c[s][x].valid => c[s][x].tag # c[s][w].tag

(* The ages of the valid blocks are 0, 1, ... without a gap or repetition, *)
(* and a free way has the age that the constructor or setInvalid gave it.  *)
DenseLine(g, line) ==
  /\ \A w \in Ways(g) : ~line[w].valid => line[w].lru = g.ways
  /\ \A w \in Ways(g) : line[w].valid =>
       /\ line[w].lru < g.ways
       /\ \A i \in 0 .. line[w].lru :
            \E x \in Ways(g) : line[x].valid /\ line[x].lru = i
       /\ \A x \in Ways(g) \ {w} : line[x].valid => line[x].lru # line[w].lru

Dense(g, c) == \A s \in 0 .. g.sets - 1 : DenseLine(g, c[s])
=============================================================================
