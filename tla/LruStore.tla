------------------------------ MODULE LruStore ------------------------------
(***************************************************************************)
(* What a least-recently-used set-associative store promises, with no ages *)
(* and no ways: each set has at most Depth keys, and a key that comes into *)
(* a full set takes the place of the one whose last use is the longest ago.*)
(***************************************************************************)
EXTENDS Integers, FiniteSets

CONSTANTS Keys,       \* what is stored: the numbers of memory blocks
          Sets, Depth \* the number of sets and the size of each

VARIABLES store,   \* the keys, and pairs of a set: the first was used later
          request  \* the keys that the last step used, in order
vars == <<store, request>>

SetOf(k) == k % Sets

SameSet(st, k) == {x \in st.keys : SetOf(x) = SetOf(k)}

(* What was used before all others of its set.                             *)
Least(st, k) ==
  {x \in SameSet(st, k) : \A y \in st.keys : <<x, y>> \notin st.later}

Without(st, S) ==
  [keys  |-> st.keys \ S,
   later |-> {p \in st.later : p[1] \notin S /\ p[2] \notin S}]

MakeRoom(st, k) ==
  IF k \in st.keys \/ Cardinality(SameSet(st, k)) < Depth THEN st
  ELSE Without(st, Least(st, k))

Touch(st, k) ==
  [keys  |-> st.keys \cup {k},
   later |-> {p \in st.later : p[2] # k} \cup {k} \X (SameSet(st, k) \ {k})]

Use(st, k) == Touch(MakeRoom(st, k), k)

Init == store = [keys |-> {}, later |-> {}] /\ request = <<>>

Rest == request' = <<>> /\ UNCHANGED store

(* A use, and perhaps after it the use of a key that is there: the         *)
(* write-back that the first one causes.                                   *)
Next ==
  \/ Rest
  \/ \E k \in Keys :
       \/ request' = <<k>> /\ store' = Use(store, k)
       \/ \E v \in Use(store, k).keys : /\ request' = <<k, v>>
                                        /\ store' = Use(Use(store, k), v)

Spec == Init /\ [][Next]_vars
=============================================================================
